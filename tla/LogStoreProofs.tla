--------------------------- MODULE LogStoreProofs ---------------------------
(* The ring buffer implements the bounded log, for every capacity and any     *)
(* number of goroutines.                                                      *)
EXTENDS LogStoreProperties, SelectionProofs, SequenceTheorems, TLAPS

-----------------------------------------------------------------------------
(* The index arithmetic of Append: the position wraps exactly at the end.     *)
LEMMA NextSlot ==
    ASSUME NEW m \in Nat \ {0}, NEW n \in 0..(m - 1)
    PROVE  (n + 1) % m = IF n + 1 = m THEN 0 ELSE n + 1
<1>1. CASE n + 1 = m
  <2>1. m % m = 0
    BY Z3
  <2> QED
    BY <1>1, <2>1
<1>2. CASE n + 1 # m
  <2>1. n + 1 \in 0..(m - 1)
    BY <1>2
  <2> QED
    BY <1>2, <2>1, Z3
<1> QED
  BY <1>1, <1>2

-----------------------------------------------------------------------------
(* The type invariant: next stays an index of buf and count within max.       *)
THEOREM TypeCorrect == Spec => []TypeOK
<1>1. Init => TypeOK
  BY LogStoreAssumption DEF Init, TypeOK
<1>2. TypeOK /\ [Next]_vars => TypeOK'
  <2> SUFFICES ASSUME TypeOK, [Next]_vars PROVE TypeOK'
    OBVIOUS
  <2> USE LogStoreAssumption DEF TypeOK
  <2>1. ASSUME NEW g \in Goroutines, NEW level \in Levels, Check(g, level) PROVE TypeOK'
    BY <2>1 DEF Check, Entry
  <2>2. ASSUME NEW g \in Goroutines, Write(g) PROVE TypeOK'
    <3>1. pending[g] \in Entry
      BY <2>2 DEF Write
    <3>2. next' \in 0..(max - 1)
      BY <2>2, NextSlot DEF Write, AppendEntry
    <3>3. buf' \in [0..(max - 1) -> Entry \cup {NoEntry}]
      BY <2>2, <3>1 DEF Write, AppendEntry
    <3> QED
      BY <2>2, <3>2, <3>3 DEF Write, AppendEntry
  <2>3. CASE UNCHANGED vars
    BY <2>3 DEF vars
  <2> QED
    BY <2>1, <2>2, <2>3 DEF Next
<1> QED
  BY <1>1, <1>2, PTL DEF Spec

-----------------------------------------------------------------------------
(* Slots of the entries that are kept, as indices of the ring.                *)
LEMMA SlotType ==
    ASSUME TypeOK, NEW i \in 1..count
    PROVE  Slot(next, count, i) \in 0..(max - 1)
BY LogStoreAssumption DEF TypeOK, Slot

LEMMA ContentsType ==
    ASSUME TypeOK
    PROVE  /\ Contents \in Seq(Entry \cup {NoEntry})
           /\ Len(Contents) = count
<1>1. \A i \in 1..count : buf[Slot(next, count, i)] \in Entry \cup {NoEntry}
  BY SlotType DEF TypeOK
<1>2. count \in Nat
  BY LogStoreAssumption DEF TypeOK
<1> QED
  BY <1>1, <1>2 DEF Contents

(* One Append adds the entry at the end of the contents and, once the buffer  *)
(* is full, drops the oldest.                                                 *)
LEMMA ContentsAfterAppend ==
    ASSUME TypeOK, TypeOK', NEW e \in Entry, AppendEntry(e)
    PROVE  Contents' = Append(IF Len(Contents) < max THEN Contents ELSE Tail(Contents), e)
<1> DEFINE kept == IF count < max THEN Contents ELSE Tail(Contents)
<1> USE LogStoreAssumption DEF TypeOK
<1>1. next' = IF next + 1 = max THEN 0 ELSE next + 1
  BY NextSlot DEF AppendEntry
<1>2. Contents \in Seq(Entry \cup {NoEntry}) /\ Len(Contents) = count
  BY ContentsType
<1>3. PICK c \in 1..max : count' = c /\ c = IF count < max THEN count + 1 ELSE count
  BY DEF AppendEntry
<1>4. kept \in Seq(Entry \cup {NoEntry}) /\ Len(kept) = c - 1
  BY <1>2, <1>3
<1> HIDE DEF kept
<1>5. ASSUME NEW i \in 1..(c - 1) PROVE kept[i] = buf'[Slot(next', c, i)]
  <2>1. CASE count < max
    <3>1. /\ Slot(next', c, i) = Slot(next, count, i)
          /\ Slot(next, count, i) \in 0..(max - 1) \ {next}
      BY <1>1, <1>3, <2>1 DEF Slot
    <3>2. kept[i] = buf[Slot(next, count, i)]
      BY <1>3, <2>1 DEF Contents, kept
    <3> QED
      BY <3>1, <3>2 DEF AppendEntry
  <2>2. CASE count = max
    <3>1. /\ Slot(next', c, i) = Slot(next, count, i + 1)
          /\ Slot(next, count, i + 1) \in 0..(max - 1) \ {next}
      BY <1>1, <1>3, <2>2 DEF Slot
    <3>2. kept[i] = Contents[i + 1]
      BY <1>2, <1>3, <2>2 DEF kept
    <3>3. kept[i] = buf[Slot(next, count, i + 1)]
      BY <1>3, <2>2, <3>2 DEF Contents
    <3> QED
      BY <3>1, <3>3 DEF AppendEntry
  <2> QED
    BY <2>1, <2>2
<1>6. buf'[Slot(next', c, c)] = e
  <2>1. Slot(next', c, c) = next
    BY <1>1, <1>3 DEF Slot
  <2> QED
    BY <2>1 DEF AppendEntry
<1>7. Contents' = [i \in 1..c |-> buf'[Slot(next', c, i)]]
  BY <1>3 DEF Contents
<1> HIDE DEF TypeOK
<1>8. /\ Append(kept, e) \in Seq(Entry \cup {NoEntry})
      /\ Len(Append(kept, e)) = c
      /\ \A i \in 1..(c - 1) : Append(kept, e)[i] = kept[i]
      /\ Append(kept, e)[c] = e
  <2> DEFINE S == Entry \cup {NoEntry}
  <2>1. e \in S /\ kept \in Seq(S)
    BY <1>4
  <2> HIDE DEF S
  <2>2. /\ Append(kept, e) \in Seq(S) /\ Len(Append(kept, e)) = Len(kept) + 1
        /\ \A i \in 1..Len(kept) : Append(kept, e)[i] = kept[i]
        /\ Append(kept, e)[Len(kept) + 1] = e
    BY <2>1, AppendProperties
  <2>3. Len(kept) = c - 1 /\ Len(kept) + 1 = c
    BY <1>4
  <2> QED
    BY <2>2, <2>3 DEF S
<1>9. Contents' \in Seq(Entry \cup {NoEntry}) /\ Len(Contents') = c
  <2>1. (Contents \in Seq(Entry \cup {NoEntry}) /\ Len(Contents) = count)'
    BY ContentsType, PTL
  <2> QED
    BY <1>3, <2>1
<1>10. ASSUME NEW i \in 1..c PROVE Contents'[i] = Append(kept, e)[i]
  <2>1. CASE i = c
    BY <1>6, <1>7, <1>8, <2>1
  <2>2. CASE i \in 1..(c - 1)
    BY <1>5, <1>7, <1>8, <2>2
  <2>3. c \in Int /\ i \in Int /\ 1 <= i /\ i <= c
    BY Z3
  <2>4. i = c \/ i \in 1..(c - 1)
    BY <2>3, Z3
  <2> QED
    BY <2>1, <2>2, <2>4, Zenon
<1>11. Contents' = Append(kept, e)
  BY <1>8, <1>9, <1>10, SeqEqual
<1> QED
  BY <1>2, <1>11 DEF kept

-----------------------------------------------------------------------------
(* Every step of the ring buffer is a step of the bounded log, or a stutter:  *)
(* Check stamps a line and leaves the contents alone, Write records it.       *)
LEMMA StepRefines ==
    ASSUME TypeOK, TypeOK', [Next]_vars
    PROVE  [Log!Next]_<<Contents, pending, clock>>
<1>1. ASSUME NEW g \in Goroutines, NEW level \in Levels, Check(g, level)
      PROVE  Log!Stamp(g, level)
  <2>1. Contents' = Contents
    BY <1>1 DEF Check, Contents
  <2> QED
    BY <1>1, <2>1 DEF Check, Log!Stamp
<1>2. ASSUME NEW g \in Goroutines, Write(g)
      PROVE  Log!Record(g)
  <2>1. pending[g] \in Entry /\ AppendEntry(pending[g])
    BY <1>2 DEF Write, TypeOK
  <2>2. Contents' = Append(IF Len(Contents) < max THEN Contents ELSE Tail(Contents), pending[g])
    BY <2>1, ContentsAfterAppend
  <2> QED
    BY <1>2, <2>2 DEF Write, Log!Record
<1>3. ASSUME UNCHANGED vars PROVE UNCHANGED <<Contents, pending, clock>>
  BY <1>3 DEF vars, Contents
<1> QED
  BY <1>1, <1>2, <1>3 DEF Next, Log!Next

(* The ring buffer implements the bounded log for every capacity: GET         *)
(* /api/logs always has the last max lines to show, in the order written.     *)
THEOREM RingBufferRefinesLog == Spec => ImplementsLog
<1>1. Init => Log!Init
  BY DEF Init, Log!Init, Contents
<1>2. TypeOK /\ TypeOK' /\ [Next]_vars => [Log!Next]_<<Contents, pending, clock>>
  BY StepRefines
<1> QED
  BY <1>1, <1>2, TypeCorrect, PTL DEF Spec, ImplementsLog, Log!Spec

-----------------------------------------------------------------------------
(* Where the entries are after an Append: the new one last, the others where  *)
(* they were, or one place nearer to the front once the buffer is full.       *)
LEMMA ContentsMove ==
    ASSUME TypeOK, TypeOK', NEW e \in Entry, AppendEntry(e)
    PROVE  \E c \in 1..max, d \in {0, 1} :
               /\ count' = c /\ Contents'[c] = e
               /\ \A i \in 1..(c - 1) : i + d \in 1..count /\ Contents'[i] = Contents[i + d]
<1> DEFINE d == IF count < max THEN 0 ELSE 1
           kept == IF Len(Contents) < max THEN Contents ELSE Tail(Contents)
           S == Entry \cup {NoEntry}
<1>1. Contents \in Seq(S) /\ Len(Contents) = count /\ e \in S
  BY ContentsType
<1>2. PICK c \in 1..max : count' = c /\ c = IF count < max THEN count + 1 ELSE count
  BY LogStoreAssumption DEF AppendEntry, TypeOK
<1> HIDE DEF S
<1>3. /\ kept \in Seq(S) /\ Len(kept) = c - 1
      /\ \A i \in 1..(c - 1) : i + d \in 1..count /\ kept[i] = Contents[i + d]
  <2>1. count \in 0..max /\ max \in Nat \ {0}
    BY LogStoreAssumption DEF TypeOK
  <2>2. CASE count < max
    BY <1>1, <1>2, <2>1, <2>2
  <2>3. CASE ~(count < max)
    <3>1. c = count /\ count = max /\ d = 1 /\ kept = Tail(Contents)
      BY <1>1, <1>2, <2>1, <2>3
    <3>2. Contents # <<>>
      BY <1>1, <2>1, <3>1
    <3>3. kept \in Seq(S) /\ Len(kept) = c - 1 /\ \A i \in 1..(c - 1) : kept[i] = Contents[i + 1]
      BY <1>1, <2>1, <3>1, <3>2
    <3> QED
      BY <2>1, <3>1, <3>3
  <2> QED
    BY <2>2, <2>3
<1>4. Contents' = Append(kept, e)
  BY ContentsAfterAppend
<1> HIDE DEF kept
<1>5. /\ \A i \in 1..(c - 1) : Contents'[i] = kept[i]
      /\ Contents'[c] = e
  <2>1. /\ \A i \in 1..Len(kept) : Append(kept, e)[i] = kept[i]
        /\ Append(kept, e)[Len(kept) + 1] = e
    BY <1>1, <1>3, AppendProperties
  <2>2. Len(kept) + 1 = c
    BY <1>3
  <2> QED
    BY <1>3, <1>4, <2>1, <2>2
<1>6. d \in {0, 1}
  OBVIOUS
<1> HIDE DEF d
<1> QED
  BY <1>2, <1>3, <1>5, <1>6, ZenonT(60)

(* The strengthening that makes WritersInOrder inductive: what a goroutine    *)
(* has in the log is older than what it is about to write, and nothing is     *)
(* newer than the clock.                                                      *)
Stamped ==
    /\ \A g \in Goroutines :
           pending[g] # NoEntry => pending[g].by = g /\ pending[g].time <= clock
    /\ \A i \in 1..count :
           /\ Contents[i] \in Entry /\ Contents[i].time <= clock
           /\ \A g \in Goroutines :
                  pending[g] # NoEntry /\ Contents[i].by = g
                      => Contents[i].time < pending[g].time

LogInv == TypeOK /\ Stamped /\ WritersInOrder

LEMMA WriteKeepsOrder ==
    ASSUME LogInv, TypeOK', NEW w \in Goroutines, Write(w)
    PROVE  Stamped' /\ WritersInOrder'
<1> DEFINE e == pending[w]
<1>1. e \in Entry /\ AppendEntry(e) /\ clock' = clock
  BY DEF Write, LogInv, TypeOK
<1>2. e.by = w /\ e.time <= clock
  BY <1>1, LogStoreAssumption DEF LogInv, Stamped, Write
<1>3. /\ pending'[w] = NoEntry
      /\ \A g \in Goroutines : g # w => pending'[g] = pending[g]
  BY DEF Write, LogInv, TypeOK
<1> HIDE DEF e
<1>4. PICK c \in 1..max, d \in {0, 1} :
          /\ count' = c /\ Contents'[c] = e
          /\ \A i \in 1..(c - 1) : i + d \in 1..count /\ Contents'[i] = Contents[i + d]
  BY <1>1, ContentsMove DEF LogInv
<1>5. /\ \A j \in 1..count : Contents[j] \in Entry /\ Contents[j].time <= clock
      /\ \A j \in 1..count : Contents[j].by = w => Contents[j].time < e.time
  BY DEF LogInv, Stamped, Write, e
<1>6. \A i \in 1..c : i = c \/ i \in 1..(c - 1)
  <2> SUFFICES ASSUME NEW i \in 1..c, i # c PROVE i \in 1..(c - 1)
    OBVIOUS
  <2>1. c \in Int /\ i \in Int /\ 1 <= i /\ i <= c
    BY Z3
  <2> QED
    BY <2>1, Z3
<1>7. Stamped'
  <2>1. \A g \in Goroutines :
            pending'[g] # NoEntry => pending'[g].by = g /\ pending'[g].time <= clock'
    BY <1>1, <1>3 DEF LogInv, Stamped
  <2>2. ASSUME NEW i \in 1..c
        PROVE  /\ Contents'[i] \in Entry /\ Contents'[i].time <= clock
               /\ \A g \in Goroutines : pending'[g] # NoEntry /\ Contents'[i].by = g
                                            => Contents'[i].time < pending'[g].time
    <3>1. CASE i = c
      BY <1>1, <1>2, <1>3, <1>4, <3>1
    <3>2. CASE i \in 1..(c - 1)
      <4>1. i + d \in 1..count /\ Contents'[i] = Contents[i + d]
        BY <1>4, <3>2
      <4> QED
        BY <1>3, <1>5, <4>1 DEF LogInv, Stamped
    <3> QED
      BY <1>6, <3>1, <3>2
  <2> QED
    BY <1>1, <1>4, <2>1, <2>2 DEF Stamped
<1>8. WritersInOrder'
  <2>1. ASSUME NEW i \in 1..c, NEW j \in 1..c, i < j, Contents'[i].by = Contents'[j].by
        PROVE  Contents'[i].time < Contents'[j].time
    <3>1. i \in 1..(c - 1)
      BY <2>1
    <3>2. i + d \in 1..count /\ Contents'[i] = Contents[i + d]
      BY <1>4, <3>1
    <3>3. CASE j = c
      BY <1>2, <1>4, <1>5, <2>1, <3>2, <3>3
    <3>4. CASE j \in 1..(c - 1)
      <4>1. j + d \in 1..count /\ Contents'[j] = Contents[j + d]
        BY <1>4, <3>4
      <4>2. i + d < j + d
        BY <2>1
      <4> QED
        BY <2>1, <3>2, <4>1, <4>2 DEF LogInv, WritersInOrder
    <3> QED
      BY <1>6, <3>3, <3>4
  <2> QED
    BY <1>4, <2>1 DEF WritersInOrder
<1> QED
  BY <1>7, <1>8

(* The lines of one goroutine appear in the order in which it logged them, at *)
(* every capacity and for any number of goroutines.                           *)
THEOREM LinesInOrder == Spec => []WritersInOrder
<1>1. Init => LogInv
  <2>1. Init => TypeOK
    BY LogStoreAssumption DEF Init, TypeOK
  <2>2. Init => Stamped /\ WritersInOrder
    BY DEF Init, Stamped, WritersInOrder
  <2> QED
    BY <2>1, <2>2 DEF LogInv
<1>2. LogInv /\ TypeOK' /\ [Next]_vars => LogInv'
  <2> SUFFICES ASSUME LogInv, TypeOK', [Next]_vars PROVE Stamped' /\ WritersInOrder'
    BY DEF LogInv
  <2>1. ASSUME NEW g \in Goroutines, NEW level \in Levels, Check(g, level)
        PROVE  Stamped' /\ WritersInOrder'
    <3> DEFINE e == [level |-> level, time |-> clock + 1, by |-> g]
    <3>1. /\ Contents' = Contents /\ count' = count /\ clock' = clock + 1
          /\ pending'[g] = e
          /\ \A h \in Goroutines : h # g => pending'[h] = pending[h]
      BY <2>1 DEF Check, Contents, LogInv, TypeOK
    <3>2. e.by = g /\ e.time = clock + 1 /\ clock \in Int
      BY DEF LogInv, TypeOK
    <3> HIDE DEF e
    <3>3. \A i \in 1..count : Contents[i].time \in Int
      BY DEF LogInv, Stamped, Entry
    <3>4. \A h \in Goroutines : pending[h] # NoEntry => pending[h].time \in Int
      BY DEF LogInv, TypeOK, Entry
    <3>5. Stamped'
      BY <3>1, <3>2, <3>3, <3>4 DEF LogInv, Stamped
    <3> QED
      BY <3>1, <3>5 DEF LogInv, WritersInOrder
  <2>2. ASSUME NEW g \in Goroutines, Write(g) PROVE Stamped' /\ WritersInOrder'
    BY <2>2, WriteKeepsOrder
  <2>3. CASE UNCHANGED vars
    BY <2>3 DEF vars, LogInv, Stamped, WritersInOrder, Contents
  <2> QED
    BY <2>1, <2>2, <2>3 DEF Next
<1>3. LogInv => WritersInOrder
  BY DEF LogInv
<1> QED
  BY <1>1, <1>2, <1>3, TypeCorrect, PTL DEF Spec

-----------------------------------------------------------------------------
(* The walk of List, as a function of the number of slots visited.            *)
Logged == Entry \cup {NoEntry}
MinLevel(level) == IF level = NoLevel THEN InfoLevel ELSE level
Limit(limit) == IF limit <= 0 \/ limit > count THEN count ELSE limit

Visit(out, i, min, lim) ==
    LET e == buf[(next - i) % max] IN
    IF Len(out) < lim /\ e.level >= min THEN Append(out, e) ELSE out

Walks(out, min, lim) ==
    /\ out[0] = <<>>
    /\ \A i \in 1..count : out[i] = Visit(out[i - 1], i, min, lim)

(* The slot visited as the i-th is that of the i-th newest entry.             *)
LEMMA VisitsNewestFirst ==
    ASSUME TypeOK, NEW i \in 1..count
    PROVE  /\ (next - i) % max = Slot(next, count, count + 1 - i)
           /\ buf[(next - i) % max] = Log!NewestFirst(Contents)[i]
           /\ buf[(next - i) % max] \in Logged
<1> USE LogStoreAssumption DEF TypeOK
<1>1. count + 1 - i \in 1..count /\ Len(Contents) = count
  BY ContentsType
<1>2. (next - i) % max = IF next - i < 0 THEN next - i + max ELSE next - i
  <2>1. CASE next - i < 0
    <3>1. next - i + max \in 0..(max - 1)
      BY <2>1
    <3>2. (next - i + max) % max = next - i + max /\ (next - i + max) % max = (next - i) % max
      BY <3>1, Z3
    <3> QED
      BY <2>1, <3>2
  <2>2. CASE ~(next - i < 0)
    <3>1. next - i \in 0..(max - 1)
      BY <2>2
    <3> QED
      BY <2>2, <3>1, Z3
  <2> QED
    BY <2>1, <2>2
<1>3. (next - i) % max = Slot(next, count, count + 1 - i)
  BY <1>1, <1>2 DEF Slot
<1>4. Log!NewestFirst(Contents)[i] = Contents[count + 1 - i]
  BY <1>1 DEF Log!NewestFirst
<1>5. Contents[count + 1 - i] = buf[Slot(next, count, count + 1 - i)]
  BY <1>1 DEF Contents
<1>6. buf[Slot(next, count, count + 1 - i)] \in Logged
  BY <1>1, SlotType DEF Logged
<1> QED
  BY <1>3, <1>4, <1>5, <1>6

LEMMA ListWalks ==
    ASSUME TypeOK, NEW level, NEW limit
    PROVE  LET out == CHOOSE g : g = [i \in 0..count |->
                          IF i = 0 THEN <<>>
                          ELSE Visit(g[i - 1], i, MinLevel(level), Limit(limit))]
           IN /\ Walks(out, MinLevel(level), Limit(limit))
              /\ List(level, limit) = out[count]
<1> DEFINE min == MinLevel(level)
           lim == Limit(limit)
           Body(g) == [i \in 0..count |-> IF i = 0 THEN <<>> ELSE Visit(g[i - 1], i, min, lim)]
           step == [p \in (1..count) \X Seq(Logged) |-> Visit(p[2], p[1], min, lim)]
           out == CHOOSE g : g = Body(g)
<1>1. count \in Nat
  BY LogStoreAssumption DEF TypeOK
<1>2. \A i \in 1..count, s \in Seq(Logged) : Visit(s, i, min, lim) \in Seq(Logged)
  BY VisitsNewestFirst DEF Visit
<1>3. step \in [(1..count) \X Seq(Logged) -> Seq(Logged)]
  <2> HIDE DEF min, lim
  <2> QED
    BY <1>2
<1>4. PICK f : Iterates(f, count, Seq(Logged), <<>>, step)
  <2>1. <<>> \in Seq(Logged)
    OBVIOUS
  <2> HIDE DEF step
  <2> QED
    BY <1>1, <1>3, <2>1, IterationExists
<1>5. f = Body(f)
  <2> HIDE DEF min, lim
  <2>1. ASSUME NEW i \in 1..count PROVE f[i] = Visit(f[i - 1], i, min, lim)
    <3>1. f[i - 1] \in Seq(Logged) /\ f[i] = step[<<i, f[i - 1]>>]
      <4> HIDE DEF step
      <4> QED
        BY <1>1, <1>4 DEF Iterates
    <3>2. step[<<i, f[i - 1]>>] = Visit(f[i - 1], i, min, lim)
      BY <3>1
    <3> QED
      BY <3>1, <3>2
  <2> QED
    BY <1>1, <1>4, <2>1 DEF Iterates
<1>6. out = Body(out)
  <2> HIDE DEF Body
  <2> QED
    BY <1>5
<1>7. out[0] = <<>> /\ \A i \in 1..count : out[i] = Visit(out[i - 1], i, min, lim)
  <2> HIDE DEF min, lim, out
  <2> QED
    BY <1>1, <1>6
<1>8. List(level, limit) = out[count]
  BY DEF List, Visit, MinLevel, Limit
<1> QED
  BY <1>7, <1>8 DEF Walks

(* What the walk has collected after i slots is what there is to select among *)
(* the i newest entries, or as much of it as the limit allows.                *)
LEMMA WalkCollects ==
    ASSUME TypeOK, NEW min, NEW lim \in 0..count, NEW out, Walks(out, min, lim)
    PROVE  LET newest == Log!NewestFirst(Contents)
               all == Collected(newest, {i \in 1..Len(newest) : newest[i].level >= min})
           IN \A i \in 0..count :
                  out[i] = IF Len(all[i]) <= lim THEN all[i] ELSE SubSeq(all[i], 1, lim)
<1> DEFINE newest == Log!NewestFirst(Contents)
           I == {i \in 1..Len(newest) : newest[i].level >= min}
           all == Collected(newest, I)
           Cut(s) == IF Len(s) <= lim THEN s ELSE SubSeq(s, 1, lim)
           N == {i \in Nat : i <= count => out[i] = Cut(all[i])}
<1>1. newest \in Seq(Logged) /\ Len(newest) = count /\ count \in Nat
  <2>1. Contents \in Seq(Logged) /\ Len(Contents) = count
    BY ContentsType DEF Logged
  <2> QED
    BY <2>1, LogStoreAssumption DEF Log!NewestFirst, TypeOK
<1> HIDE DEF newest
<1>2. /\ all[0] = <<>>
      /\ \A i \in 1..count : all[i] = IF i \in I THEN Append(all[i - 1], newest[i]) ELSE all[i - 1]
  <2> HIDE DEF I
  <2> QED
    BY <1>1, CollectedDef
<1>3. \A i \in 0..count : all[i] \in Seq(Logged)
  <2> HIDE DEF I
  <2> QED
    BY <1>1, CollectedSelects DEF Selects
<1> HIDE DEF all
<1>4. 0 \in N
  BY <1>2 DEF Walks
<1>5. ASSUME NEW i \in Nat, i \in N PROVE i + 1 \in N
  <2> SUFFICES ASSUME i + 1 <= count PROVE out[i + 1] = Cut(all[i + 1])
    OBVIOUS
  <2> DEFINE e == newest[i + 1]
  <2>1. out[i] = Cut(all[i]) /\ i + 1 \in 1..count /\ (i + 1) - 1 = i /\ all[i] \in Seq(Logged)
    BY <1>1, <1>3, <1>5
  <2>2. e \in Logged
    BY <1>1, <2>1
  <2>3. out[i + 1] = IF Len(out[i]) < lim /\ e.level >= min THEN Append(out[i], e) ELSE out[i]
    BY <2>1, VisitsNewestFirst DEF Walks, Visit, newest
  <2>4. all[i + 1] = IF e.level >= min THEN Append(all[i], e) ELSE all[i]
    BY <1>1, <1>2, <2>1
  <2> DEFINE a == all[i]
  <2>5. /\ a \in Seq(Logged) /\ Len(a) \in Nat /\ lim \in Nat
        /\ Append(a, e) \in Seq(Logged) /\ Len(Append(a, e)) = Len(a) + 1
        /\ \A k \in 1..Len(a) : Append(a, e)[k] = a[k]
    BY <1>1, <2>1, <2>2
  <2> HIDE DEF e, a, I
  <2>6. CASE Len(a) < lim
    BY <2>1, <2>3, <2>4, <2>5, <2>6 DEF a
  <2>7. CASE ~(Len(a) < lim)
    <3>1. SubSeq(Append(a, e), 1, lim) = Cut(a)
      <4>1. SubSeq(Append(a, e), 1, lim) = SubSeq(a, 1, lim)
        BY <2>5, <2>7
      <4>2. Len(a) = lim => SubSeq(a, 1, lim) = a
        BY <2>5
      <4> QED
        BY <2>5, <2>7, <4>1, <4>2
    <3>2. Len(Cut(a)) = lim
      BY <2>5, <2>7
    <3>3. out[i + 1] = Cut(a)
      BY <2>1, <2>3, <2>5, <3>2 DEF a
    <3>4. Cut(Append(a, e)) = SubSeq(Append(a, e), 1, lim)
      BY <2>5, <2>7
    <3>5. all[i + 1] = Append(a, e) \/ all[i + 1] = a
      BY <2>4 DEF a
    <3>6. Cut(all[i + 1]) = Cut(a)
      <4> HIDE DEF Cut
      <4> QED
        BY <3>1, <3>4, <3>5
    <3> QED
      BY <3>3, <3>6
  <2> QED
    BY <2>5, <2>6, <2>7
<1>6. \A i \in Nat : i \in N
  <2> HIDE DEF N
  <2> QED
    BY <1>4, <1>5, NatSetInduction
<1> QED
  BY <1>6 DEF all, newest

(* GET /api/logs answers with the query the log promises, for every buffer    *)
(* size, level and limit: the walk backwards through the ring, which ends at  *)
(* the limit, finds the newest entries of at least that level.                *)
THEOREM ListAnswersQuery == Spec => []ListIsQuery
<1>1. ASSUME TypeOK, NEW level \in Levels \cup {NoLevel}, NEW limit \in -1..(max + 1)
      PROVE  List(level, limit) = Log!Query(MinLevel(level), limit)
  <2> DEFINE newest == Log!NewestFirst(Contents)
             I == {i \in 1..Len(newest) : newest[i].level >= MinLevel(level)}
             all == SelectAt(newest, I)
  <2>1. count \in Nat /\ limit \in Int /\ Limit(limit) \in 0..count
    BY <1>1, LogStoreAssumption DEF TypeOK, Limit
  <2>2. newest \in Seq(Logged) /\ Len(newest) = count
    <3>1. Contents \in Seq(Logged) /\ Len(Contents) = count
      BY <1>1, ContentsType DEF Logged
    <3> QED
      BY <2>1, <3>1 DEF Log!NewestFirst
  <2>3. all \in Seq(Logged) /\ Len(all) <= count
    <3> HIDE DEF newest, I
    <3> QED
      BY <2>2, SelectAtSelects DEF Selects
  <2>4. List(level, limit) = IF Len(all) <= Limit(limit) THEN all ELSE SubSeq(all, 1, Limit(limit))
    <3>1. PICK out : Walks(out, MinLevel(level), Limit(limit)) /\ List(level, limit) = out[count]
      BY <1>1, ListWalks, Zenon
    <3>2. all = Collected(newest, I)[count]
      BY <2>2 DEF SelectAt
    <3> DEFINE c == Collected(newest, I)
               lim == Limit(limit)
    <3>3. \A i \in 0..count : out[i] = IF Len(c[i]) <= lim THEN c[i] ELSE SubSeq(c[i], 1, lim)
      <4>1. TypeOK /\ lim \in 0..count /\ Walks(out, MinLevel(level), lim)
        BY <1>1, <2>1, <3>1
      <4> HIDE DEF lim
      <4> QED
        BY <4>1, WalkCollects
    <3> HIDE DEF c, lim, all
    <3>4. all = c[count] /\ count \in 0..count
      BY <2>1, <3>2 DEF c
    <3> QED
      BY <3>1, <3>3, <3>4 DEF lim
  <2>5. Log!Query(MinLevel(level), limit) =
            SubSeq(all, 1, IF limit \in 1..Len(all) THEN limit ELSE Len(all))
    BY DEF Log!Query, Log!SelectAt, Log!Collected, SelectAt, Collected
  <2> HIDE DEF all
  <2>6. SubSeq(all, 1, Len(all)) = all /\ Len(all) \in Nat
    BY <2>3
  <2> QED
    BY <2>1, <2>3, <2>4, <2>5, <2>6 DEF Limit
<1>2. TypeOK => ListIsQuery
  BY <1>1 DEF ListIsQuery, MinLevel
<1> QED
  BY <1>2, TypeCorrect, PTL
=============================================================================
