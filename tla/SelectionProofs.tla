-------------------------- MODULE SelectionProofs --------------------------
(* Induction over the natural numbers, the recursive functions it justifies,  *)
(* and what SelectAt selects.  The library states induction for predicates;   *)
(* it is stated here for sets, which the provers can instantiate.             *)
EXTENDS Selection, WellFoundedInduction, TLAPS

(* A set with 0 and the successors of its numbers has all numbers: otherwise  *)
(* there is a least one that it has not.                                      *)
LEMMA NatSetInduction ==
    ASSUME NEW I, 0 \in I, \A n \in Nat : n \in I => n + 1 \in I
    PROVE  \A n \in Nat : n \in I
<1> DEFINE R == OpToRel(<, Nat)
           T == Nat \ I
<1>1. SUFFICES ASSUME T # {} PROVE FALSE
  OBVIOUS
<1>2. IsWellFoundedOn(R, Nat)
  BY NatLessThanWellFounded
<1>3. \A i, j \in Nat : i < j => <<i, j>> \in R
  BY DEF OpToRel
<1> HIDE DEF R
<1>4. PICK m \in T : \A k \in T : <<k, m>> \notin R
  BY <1>1, <1>2, WFMin
<1>5. m \in Nat /\ m # 0
  BY <1>4
<1>6. m - 1 \in Nat /\ m - 1 \notin I /\ m - 1 < m
  BY <1>4, <1>5
<1> QED
  BY <1>3, <1>4, <1>5, <1>6

(* The values of a loop: step gives the next from the position and the last.  *)
Iterates(f, n, S, c, step) ==
    f \in [0..n -> S] /\ f[0] = c /\ \A i \in 1..n : f[i] = step[<<i, f[i - 1]>>]

LEMMA IterationExists ==
    ASSUME NEW n \in Nat, NEW S, NEW c \in S, NEW step \in [(1..n) \X S -> S]
    PROVE  \E f : Iterates(f, n, S, c, step)
<1> DEFINE Up(k) == \E f \in [0..k -> S] : f[0] = c /\ \A i \in 1..k : f[i] = step[<<i, f[i - 1]>>]
           I == {k \in Nat : k <= n => Up(k)}
<1>1. 0 \in I
  <2> DEFINE f == [i \in 0..0 |-> c]
  <2>1. f \in [0..0 -> S] /\ f[0] = c /\ \A i \in 1..0 : f[i] = step[<<i, f[i - 1]>>]
    OBVIOUS
  <2>2. Up(0)
    BY <2>1
  <2> QED
    BY <2>2
<1>2. ASSUME NEW k \in Nat, k \in I PROVE k + 1 \in I
  <2> SUFFICES ASSUME k + 1 <= n PROVE Up(k + 1)
    OBVIOUS
  <2>1. PICK f \in [0..k -> S] : f[0] = c /\ \A i \in 1..k : f[i] = step[<<i, f[i - 1]>>]
    BY <1>2
  <2> DEFINE g == [i \in 0..(k + 1) |-> IF i = k + 1 THEN step[<<k + 1, f[k]>>] ELSE f[i]]
  <2>2. step[<<k + 1, f[k]>>] \in S
    <3>1. <<k + 1, f[k]>> \in (1..n) \X S
      BY <2>1
    <3> QED
      BY <3>1
  <2>3. g \in [0..(k + 1) -> S]
    BY <2>1, <2>2
  <2>4. g[0] = c
    BY <2>1
  <2>5. ASSUME NEW i \in 1..(k + 1) PROVE g[i] = step[<<i, g[i - 1]>>]
    <3>1. g[i - 1] = f[i - 1]
      OBVIOUS
    <3>2. CASE i = k + 1
      <4>1. g[i] = step[<<k + 1, f[k]>>] /\ i - 1 = k
        BY <3>2
      <4> QED
        BY <3>1, <3>2, <4>1
    <3>3. CASE i # k + 1
      <4>1. i \in 1..k /\ g[i] = f[i]
        BY <3>3
      <4> QED
        BY <2>1, <3>1, <4>1
    <3> QED
      BY <3>2, <3>3
  <2> QED
    BY <2>3, <2>4, <2>5
<1>3. n \in I
  <2> HIDE DEF I
  <2> QED
    BY <1>1, <1>2, NatSetInduction
<1> QED
  BY <1>3 DEF Iterates

-----------------------------------------------------------------------------
(* The recursive function is there, and it is a list of entries of s.         *)
LEMMA CollectedDef ==
    ASSUME NEW T, NEW s \in Seq(T), NEW I
    PROVE  /\ Collected(s, I)[0] = <<>>
           /\ \A i \in 1..Len(s) : Collected(s, I)[i] =
                  IF i \in I THEN Append(Collected(s, I)[i - 1], s[i]) ELSE Collected(s, I)[i - 1]
<1> DEFINE n == Len(s)
           Value(g, i) == IF i \in I THEN Append(g[i - 1], s[i]) ELSE g[i - 1]
           Body(g) == [i \in 0..n |-> IF i = 0 THEN <<>> ELSE Value(g, i)]
           step == [p \in (1..n) \X Seq(T) |-> IF p[1] \in I THEN Append(p[2], s[p[1]]) ELSE p[2]]
<1>1. step \in [(1..n) \X Seq(T) -> Seq(T)] /\ n \in Nat /\ <<>> \in Seq(T)
  OBVIOUS
<1>2. PICK f : Iterates(f, n, Seq(T), <<>>, step)
  <2> HIDE DEF step, n
  <2> QED
    BY <1>1, IterationExists
<1>3. f = Body(f)
  <2>1. ASSUME NEW i \in 1..n PROVE f[i] = Value(f, i)
    <3>1. f[i - 1] \in Seq(T) /\ f[i] = step[<<i, f[i - 1]>>]
      <4> HIDE DEF step, n
      <4> QED
        BY <1>1, <1>2 DEF Iterates
    <3>2. step[<<i, f[i - 1]>>] = Value(f, i)
      BY <3>1
    <3> QED
      BY <3>1, <3>2
  <2> HIDE DEF Value, n
  <2> QED
    BY <1>1, <1>2, <2>1 DEF Iterates
<1>4. Collected(s, I) = CHOOSE g : g = Body(g)
  BY DEF Collected
<1>5. Collected(s, I) = Body(Collected(s, I))
  <2> HIDE DEF Body
  <2> QED
    BY <1>3, <1>4
<1> DEFINE out == Collected(s, I)
<1>6. out[0] = <<>> /\ \A i \in 1..n : out[i] = Value(out, i)
  <2> HIDE DEF Value, n, out
  <2>1. out = Body(out)
    BY <1>5 DEF out
  <2> QED
    BY <1>1, <2>1
<1> QED
  BY <1>6

(* It selects the entries at the positions of I, and nothing else.            *)
Selects(out, s, i, I, T) ==
    /\ out \in Seq(T) /\ Len(out) <= i
    /\ \A k \in 1..Len(out) : \E j \in 1..i : j \in I /\ out[k] = s[j]
    /\ \A j \in 1..i : j \in I => \E k \in 1..Len(out) : out[k] = s[j]

LEMMA AppendSelects ==
    ASSUME NEW T, NEW s \in Seq(T), NEW I, NEW i \in 1..Len(s), NEW out, Selects(out, s, i - 1, I, T)
    PROVE  Selects(IF i \in I THEN Append(out, s[i]) ELSE out, s, i, I, T)
<1>1. /\ out \in Seq(T) /\ Len(out) \in Nat /\ Len(out) <= i - 1 /\ i \in Nat /\ s[i] \in T
      /\ \A k \in 1..Len(out) : \E j \in 1..(i - 1) : j \in I /\ out[k] = s[j]
      /\ \A j \in 1..(i - 1) : j \in I => \E k \in 1..Len(out) : out[k] = s[j]
  BY DEF Selects
<1>2. CASE i \in I
  <2> DEFINE new == Append(out, s[i])
  <2>1. /\ new \in Seq(T) /\ Len(new) = Len(out) + 1 /\ new[Len(out) + 1] = s[i]
        /\ \A k \in 1..Len(out) : new[k] = out[k]
    BY <1>1
  <2> HIDE DEF new
  <2>2. ASSUME NEW k \in 1..Len(new) PROVE \E j \in 1..i : j \in I /\ new[k] = s[j]
    <3>1. CASE k = Len(out) + 1
      BY <1>1, <1>2, <2>1, <3>1
    <3>2. CASE k # Len(out) + 1
      <4>1. k \in 1..Len(out) /\ new[k] = out[k]
        BY <1>1, <2>1, <3>2
      <4>2. PICK j \in 1..(i - 1) : j \in I /\ out[k] = s[j]
        BY <1>1, <4>1
      <4>3. j \in 1..i
        BY <1>1
      <4> QED
        BY <4>1, <4>2, <4>3
    <3> QED
      BY <3>1, <3>2
  <2>3. ASSUME NEW j \in 1..i, j \in I PROVE \E k \in 1..Len(new) : new[k] = s[j]
    <3>1. CASE j = i
      BY <1>1, <2>1, <3>1
    <3>2. CASE j # i
      <4>1. PICK k \in 1..Len(out) : out[k] = s[j]
        BY <1>1, <2>3, <3>2
      <4> QED
        BY <1>1, <2>1, <4>1
    <3> QED
      BY <3>1, <3>2
  <2>4. new \in Seq(T) /\ Len(new) <= i
    BY <1>1, <2>1
  <2>5. Selects(new, s, i, I, T)
    BY <2>2, <2>3, <2>4, Zenon DEF Selects
  <2> QED
    BY <1>2, <2>5 DEF new
<1>3. CASE i \notin I
  <2>1. \A j \in 1..i : j \in I => j \in 1..(i - 1)
    BY <1>1, <1>3
  <2>2. \A j \in 1..(i - 1) : j \in 1..i
    BY <1>1
  <2>3. Len(out) <= i
    BY <1>1
  <2>4. Selects(out, s, i, I, T)
    BY <1>1, <2>1, <2>2, <2>3, Zenon DEF Selects
  <2> QED
    BY <1>3, <2>4
<1> QED
  BY <1>2, <1>3

LEMMA CollectedSelects ==
    ASSUME NEW T, NEW s \in Seq(T), NEW I
    PROVE  \A i \in 0..Len(s) : Selects(Collected(s, I)[i], s, i, I, T)
<1> DEFINE out == Collected(s, I)
           N == {i \in Nat : i <= Len(s) => Selects(out[i], s, i, I, T)}
<1>1. 0 \in N
  <2>1. out[0] = <<>>
    BY CollectedDef
  <2>2. Selects(<<>>, s, 0, I, T)
    BY DEF Selects
  <2> QED
    BY <2>1, <2>2
<1>2. ASSUME NEW i \in Nat, i \in N PROVE i + 1 \in N
  <2> SUFFICES ASSUME i + 1 <= Len(s) PROVE Selects(out[i + 1], s, i + 1, I, T)
    OBVIOUS
  <2>1. Selects(out[i], s, i, I, T) /\ i + 1 \in 1..Len(s) /\ (i + 1) - 1 = i
    BY <1>2
  <2>2. out[i + 1] = IF i + 1 \in I THEN Append(out[i], s[i + 1]) ELSE out[i]
    BY <2>1, CollectedDef
  <2> HIDE DEF out
  <2>3. Selects(IF i + 1 \in I THEN Append(out[i], s[i + 1]) ELSE out[i], s, i + 1, I, T)
    BY <2>1, AppendSelects
  <2> QED
    BY <2>2, <2>3
<1>3. \A i \in Nat : i \in N
  <2> HIDE DEF N
  <2> QED
    BY <1>1, <1>2, NatSetInduction
<1> QED
  BY <1>3

LEMMA SelectAtSelects ==
    ASSUME NEW T, NEW s \in Seq(T), NEW I
    PROVE  Selects(SelectAt(s, I), s, Len(s), I, T)
BY CollectedSelects DEF SelectAt
=============================================================================
