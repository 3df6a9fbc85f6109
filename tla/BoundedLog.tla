----------------------------- MODULE BoundedLog -----------------------------
(* What GET /api/logs promises: the log is the sequence of the most recent    *)
(* Capacity entries, and a query shows the newest of them first.              *)
EXTENDS Selection

CONSTANTS
    Goroutines,     \* the goroutines that log
    Levels,         \* zap levels: -1 is debug, 0 info, 1 warn, 2 error
    Capacity,       \* how many entries are kept
    MaxTime,        \* bound: entries ever logged
    NoEntry

VARIABLES
    log,        \* the entries kept, oldest first
    pending,    \* the entry each goroutine has stamped and not yet written
    clock       \* time of the last entry stamped

Entry == [level : Levels, time : 1..MaxTime, by : Goroutines]

Init ==
    /\ log = <<>>
    /\ pending = [g \in Goroutines |-> NoEntry]
    /\ clock = 0

(* Goroutine g logs a line: it gets the time of now.                          *)
Stamp(g, level) ==
    /\ pending[g] = NoEntry /\ clock < MaxTime
    /\ clock' = clock + 1
    /\ pending' = [pending EXCEPT ![g] = [level |-> level, time |-> clock + 1, by |-> g]]
    /\ UNCHANGED log

(* The line enters the log, which forgets its oldest entry when it is full.   *)
Record(g) ==
    /\ pending[g] # NoEntry
    /\ log' = Append(IF Len(log) < Capacity THEN log ELSE Tail(log), pending[g])
    /\ pending' = [pending EXCEPT ![g] = NoEntry]
    /\ UNCHANGED clock

Next == \E g \in Goroutines : Record(g) \/ \E level \in Levels : Stamp(g, level)

Spec == Init /\ [][Next]_<<log, pending, clock>>

(* The first limit of the entries at or above a level, newest first.          *)
NewestFirst(s) == [i \in 1..Len(s) |-> s[Len(s) + 1 - i]]

Query(minLevel, limit) ==
    LET newest == NewestFirst(log)
        all == SelectAt(newest, {i \in 1..Len(newest) : newest[i].level >= minLevel})
    IN SubSeq(all, 1, IF limit \in 1..Len(all) THEN limit ELSE Len(all))
=============================================================================
