------------------------- MODULE LogStoreProperties -------------------------
(* What the ring buffer owes to the readers of GET /api/logs.                 *)
EXTENDS LogStore

(* The slot of the i-th oldest of c entries, when n is the slot to be written *)
(* next; and the entries from oldest to newest.                               *)
Slot(n, c, i) == IF n - c + i - 1 < 0 THEN n - c + i - 1 + max ELSE n - c + i - 1
Contents == [i \in 1..count |-> buf[Slot(next, count, i)]]

Log == INSTANCE BoundedLog WITH Capacity <- max, log <- Contents

-----------------------------------------------------------------------------
(* The ring buffer implements the bounded log: whatever the wrap-around, the  *)
(* entries from next backwards are the last max ones written, in the order in *)
(* which the writers got the lock of the store (Append).                      *)
ImplementsLog == Log!Spec

(* GET /api/logs shows the newest entries first, from the level asked for (or *)
(* info) upwards, and neither fewer nor more than the limit allows: a limit   *)
(* counts the entries shown and not those passed over (List).                 *)
ListIsQuery ==
    \A level \in Levels \cup {NoLevel}, limit \in -1..(max + 1) :
        List(level, limit) =
            Log!Query(IF level = NoLevel THEN InfoLevel ELSE level, limit)

(* The lines of one goroutine are shown in the order of their timestamps,     *)
(* although lines of different goroutines are not: a line is stamped before   *)
(* its writer waits for the lock.                                             *)
WritersInOrder ==
    \A i, j \in 1..count :
        i < j /\ Contents[i].by = Contents[j].by => Contents[i].time < Contents[j].time
=============================================================================
