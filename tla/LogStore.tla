------------------------------ MODULE LogStore ------------------------------
(* internal/web/logstore.go: the ring buffer behind GET /api/logs, and the    *)
(* zap core that copies every line of every goroutine into it.                *)
EXTENDS Integers, Sequences

CONSTANTS
    Goroutines,     \* the goroutines that log
    Levels,         \* zap levels: -1 is debug, 0 info, 1 warn, 2 error
    max,            \* LogStore.max (1000 in main)
    MaxTime,        \* bound: entries ever logged
    NoEntry,        \* the zero LogEntry
    NoLevel         \* ?level= is absent, or is no level that zap knows

InfoLevel == 0

Entry == [level : Levels, time : 1..MaxTime, by : Goroutines]

ASSUME LogStoreAssumption ==
    /\ Levels \subseteq Int
    /\ max \in Nat \ {0}
    /\ MaxTime \in Nat
    /\ NoEntry \notin Entry

VARIABLES
    buf,        \* LogStore.buf
    next,       \* LogStore.next
    count,      \* LogStore.count
    pending,    \* the entry each goroutine has stamped and not yet written
    clock       \* time of the last entry stamped

vars == <<buf, next, count, pending, clock>>

TypeOK ==
    /\ buf \in [0..(max - 1) -> Entry \cup {NoEntry}]
    /\ next \in 0..(max - 1)
    /\ count \in 0..max
    /\ pending \in [Goroutines -> Entry \cup {NoEntry}]
    /\ clock \in 0..MaxTime

(* NewLogStore                                                                *)
Init ==
    /\ buf = [i \in 0..(max - 1) |-> NoEntry] /\ next = 0 /\ count = 0
    /\ pending = [g \in Goroutines |-> NoEntry]
    /\ clock = 0

(* zap stamps the entry and asks logCore.Check, which lets every level pass.  *)
Check(g, level) ==
    /\ pending[g] = NoEntry /\ clock < MaxTime
    /\ clock' = clock + 1
    /\ pending' = [pending EXCEPT ![g] = [level |-> level, time |-> clock + 1, by |-> g]]
    /\ UNCHANGED <<buf, next, count>>

(* Plausible slips: the position is never wrapped back to the first slot but  *)
(* stays on the last; or the count is advanced before it is compared.         *)
AppendAtEnd(e) ==
    /\ buf' = [buf EXCEPT ![next] = e]
    /\ next' = IF next + 1 < max THEN next + 1 ELSE next
    /\ count' = IF count < max THEN count + 1 ELSE count

AppendUncapped(e) ==
    /\ buf' = [buf EXCEPT ![next] = e]
    /\ next' = (next + 1) % max
    /\ count' = IF count <= max THEN count + 1 ELSE count

(* LogStore.Append, under the lock of the store.                              *)
AppendEntry(e) ==
    /\ buf' = [buf EXCEPT ![next] = e]
    /\ next' = (next + 1) % max
    /\ count' = IF count < max THEN count + 1 ELSE count

(* logCore.Write                                                              *)
Write(g) ==
    /\ pending[g] # NoEntry
    /\ AppendEntry(pending[g])
    /\ pending' = [pending EXCEPT ![g] = NoEntry]
    /\ UNCHANGED clock

Next == \E g \in Goroutines : Write(g) \/ \E level \in Levels : Check(g, level)

Spec == Init /\ [][Next]_vars
-----------------------------------------------------------------------------
(* A plausible slip: the limit ends the walk over the buffer rather than the  *)
(* collection of its entries.                                                 *)
ListWalk(level, limit) ==
    LET minLevel == IF level = NoLevel THEN InfoLevel ELSE level
        steps == IF limit <= 0 \/ limit > count THEN count ELSE limit
        out[i \in 0..steps] ==
            IF i = 0 THEN <<>>
            ELSE LET e == buf[(next - i) % max] IN
                 IF e.level >= minLevel THEN Append(out[i - 1], e) ELSE out[i - 1]
    IN out[steps]

(* LogStore.List: out[i] is what the walk has collected after i slots, from   *)
(* the one before next backwards.                                             *)
List(level, limit) ==
    LET minLevel == IF level = NoLevel THEN InfoLevel ELSE level
        lim == IF limit <= 0 \/ limit > count THEN count ELSE limit
        out[i \in 0..count] ==
            IF i = 0 THEN <<>>
            ELSE LET e == buf[(next - i) % max] IN
                 IF Len(out[i - 1]) < lim /\ e.level >= minLevel
                 THEN Append(out[i - 1], e) ELSE out[i - 1]
    IN out[count]
=============================================================================
