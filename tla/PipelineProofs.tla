--------------------------- MODULE PipelineProofs ---------------------------
(* What a pipeline makes of an event, for every list of transformers: the     *)
(* induction over the walk, and what each transformer keeps.                  *)
EXTENDS Pipeline, SelectionProofs

(* Texts are what transformers and events consist of.                         *)
Transformers(Texts) == [type : Texts, prefix : Texts, categories : SUBSET Texts]
RegisteredOnes(Texts) == {t \in Transformers(Texts) : t.type \in Registered}
VEvents(Texts) == [uid : Seq(Texts), class : Texts, summary : Seq(Texts), details : BOOLEAN,
                   categories : SUBSET Texts]
Results(Texts) == {Dropped} \cup {Passed(e) : e \in VEvents(Texts)}

(* Events that pass a transformer are events.                                 *)
LEMMA PassedType ==
    ASSUME NEW Texts, NEW e \in VEvents(Texts)
    PROVE  Passed(e) \in Results(Texts) /\ Passed(e).kept = TRUE /\ Passed(e).event = e
BY DEF Results, Passed

LEMMA DroppedType == ~Dropped.kept /\ \A Texts : Dropped \in Results(Texts)
BY DEF Results, Dropped

LEMMA KeptType ==
    ASSUME NEW Texts, NEW r \in Results(Texts)
    PROVE  /\ r.kept \in BOOLEAN
           /\ r.kept => r.event \in VEvents(Texts) /\ r = Passed(r.event)
           /\ ~r.kept => r = Dropped
<1>1. CASE r = Dropped
  BY <1>1 DEF Dropped
<1>2. CASE r # Dropped
  <2>1. PICK e \in VEvents(Texts) : r = Passed(e)
    BY <1>2 DEF Results
  <2>2. r.kept = TRUE /\ r.event = e
    BY <2>1, PassedType
  <2> QED
    BY <2>1, <2>2
<1> QED
  BY <1>1, <1>2

LEMMA PrefixType ==
    ASSUME NEW Texts, NEW p \in Texts, NEW s \in Seq(Texts)
    PROVE  /\ <<p>> \o s \in Seq(Texts) /\ Len(<<p>> \o s) = Len(s) + 1
           /\ (<<p>> \o s)[1] = p
           /\ \A k \in 1..Len(s) : (<<p>> \o s)[k + 1] = s[k]
OBVIOUS

(* One transformer: it drops the event or leaves one of the type.             *)
LEMMA TransformType ==
    ASSUME NEW Texts, "Busy" \in Texts, NEW t \in RegisteredOnes(Texts), NEW e \in VEvents(Texts)
    PROVE  Transform(t, e) \in Results(Texts)
<1>1. CASE t.type = "filter-private"
  <2>1. Transform(t, e) = FilterPrivate(t, e)
    BY <1>1 DEF Transform
  <2> QED
    BY <2>1, PassedType, DroppedType DEF FilterPrivate
<1>2. CASE t.type = "mask-private"
  <2>1. Transform(t, e) = MaskPrivate(t, e)
    BY <1>2 DEF Transform
  <2>2. <<"Busy">> \in Seq(Texts)
    OBVIOUS
  <2>3. [e EXCEPT !.summary = <<"Busy">>, !.details = FALSE] \in VEvents(Texts)
    BY <2>2 DEF VEvents
  <2> QED
    BY <2>1, <2>3, PassedType DEF MaskPrivate
<1>3. CASE t.type = "prefix-uid"
  <2>1. Transform(t, e) = PrefixUID(t, e)
    BY <1>3 DEF Transform
  <2>2. <<t.prefix>> \o e.uid \in Seq(Texts)
    BY PrefixType DEF VEvents, RegisteredOnes, Transformers
  <2>3. [e EXCEPT !.uid = <<t.prefix>> \o @] \in VEvents(Texts)
    BY <2>2 DEF VEvents
  <2> QED
    BY <2>1, <2>3, PassedType DEF PrefixUID
<1>4. CASE t.type = "filter-category"
  <2>1. Transform(t, e) = CategoryFilter(t, e)
    BY <1>4 DEF Transform
  <2> QED
    BY <2>1, PassedType, DroppedType DEF CategoryFilter
<1>5. CASE t.type = "prefix-summary"
  <2>1. Transform(t, e) = SummaryPrefix(t, e)
    BY <1>5 DEF Transform
  <2>2. <<t.prefix>> \o e.summary \in Seq(Texts)
    BY PrefixType DEF VEvents, RegisteredOnes, Transformers
  <2>3. [e EXCEPT !.summary = <<t.prefix>> \o @] \in VEvents(Texts)
    BY <2>2 DEF VEvents
  <2> QED
    BY <2>1, <2>3, PassedType DEF SummaryPrefix
<1> QED
  BY <1>1, <1>2, <1>3, <1>4, <1>5 DEF RegisteredOnes, Registered

(* The walk: the recursive function is there, and yields results.             *)
LEMMA WalkedDef ==
    ASSUME NEW Texts, "Busy" \in Texts, NEW p \in Seq(RegisteredOnes(Texts)), NEW e \in VEvents(Texts)
    PROVE  /\ Walked(p, e)[0] = Passed(e)
           /\ \A k \in 1..Len(p) : Walked(p, e)[k] =
                  IF Walked(p, e)[k - 1].kept THEN Transform(p[k], Walked(p, e)[k - 1].event)
                  ELSE Walked(p, e)[k - 1]
           /\ \A k \in 0..Len(p) : Walked(p, e)[k] \in Results(Texts)
<1> DEFINE n == Len(p)
           R == Results(Texts)
           Value(g, k) == IF g[k - 1].kept THEN Transform(p[k], g[k - 1].event) ELSE g[k - 1]
           Body(g) == [k \in 0..n |-> IF k = 0 THEN Passed(e) ELSE Value(g, k)]
           Step(k, r) == IF r.kept THEN Transform(p[k], r.event) ELSE r
           step == [q \in (1..n) \X R |-> Step(q[1], q[2])]
<1>1. ASSUME NEW k \in 1..n, NEW r \in R PROVE Step(k, r) \in R
  <2>1. p[k] \in RegisteredOnes(Texts)
    OBVIOUS
  <2> QED
    BY <2>1, KeptType, TransformType
<1>2. n \in Nat /\ Passed(e) \in R
  <2>1. n \in Nat
    OBVIOUS
  <2>2. Passed(e) \in R
    BY PassedType
  <2> QED
    BY <2>1, <2>2
<1>3. step \in [(1..n) \X R -> R]
  <2> HIDE DEF Step, R
  <2> QED
    BY <1>1
<1>4. PICK f : Iterates(f, n, R, Passed(e), step)
  <2> HIDE DEF step, n, R
  <2> QED
    BY <1>2, <1>3, IterationExists
<1>5. ASSUME NEW k \in 1..n PROVE f[k] = Value(f, k)
  <2>1. f[k - 1] \in R /\ f[k] = step[<<k, f[k - 1]>>]
    <3> HIDE DEF step, n, R
    <3> QED
      BY <1>2, <1>4 DEF Iterates
  <2>2. step[<<k, f[k - 1]>>] = Step(k, f[k - 1])
    <3> HIDE DEF Step, R
    <3> QED
      BY <2>1
  <2>3. Step(k, f[k - 1]) = Value(f, k)
    OBVIOUS
  <2> QED
    BY <2>1, <2>2, <2>3
<1>6. f = Body(f)
  <2> HIDE DEF Value, n, R, step
  <2> QED
    BY <1>2, <1>4, <1>5 DEF Iterates
<1>7. Walked(p, e) = CHOOSE g : g = Body(g)
  BY DEF Walked
<1> DEFINE out == Walked(p, e)
<1>8. out = Body(out)
  <2> HIDE DEF Body
  <2> QED
    BY <1>6, <1>7
<1>9. out[0] = Passed(e) /\ \A k \in 1..n : out[k] = Value(out, k)
  <2> HIDE DEF Value, n, out
  <2> QED
    BY <1>2, <1>8
<1>10. \A k \in 1..n : out[k] = Step(k, out[k - 1])
  BY <1>9
<1>11. \A k \in 0..n : out[k] \in R
  <2> DEFINE I == {k \in Nat : k <= n => out[k] \in R}
  <2> HIDE DEF Step, out, n, R
  <2>1. 0 \in I
    BY <1>2, <1>9
  <2>2. ASSUME NEW k \in Nat, k \in I PROVE k + 1 \in I
    <3> SUFFICES ASSUME k + 1 <= n PROVE out[k + 1] \in R
      OBVIOUS
    <3>1. out[k] \in R /\ k + 1 \in 1..n /\ (k + 1) - 1 = k
      BY <1>2, <2>2
    <3>2. out[k + 1] = Step(k + 1, out[k])
      BY <1>10, <3>1
    <3> QED
      BY <1>1, <3>1, <3>2
  <2>3. \A k \in Nat : k \in I
    <3> HIDE DEF I
    <3> QED
      BY <2>1, <2>2, NatSetInduction
  <2> QED
    BY <1>2, <2>3
<1> QED
  BY <1>9, <1>11

(* Induction over the walk: J[k] is what may be left after k transformers.    *)
LEMMA WalkInduction ==
    ASSUME NEW Texts, "Busy" \in Texts, NEW p \in Seq(RegisteredOnes(Texts)), NEW e \in VEvents(Texts),
           NEW J, Passed(e) \in J[0],
           \A k \in 1..Len(p) : Dropped \in J[k],
           \A k \in 1..Len(p), f \in VEvents(Texts) :
               Passed(f) \in J[k - 1] => Transform(p[k], f) \in J[k]
    PROVE  Apply(p, e) \in Results(Texts) /\ Apply(p, e) \in J[Len(p)]
<1> DEFINE out == Walked(p, e)
           n == Len(p)
           I == {k \in Nat : k <= n => out[k] \in J[k]}
<1>1. n \in Nat
  OBVIOUS
<1>2. /\ out[0] = Passed(e)
      /\ \A k \in 1..n : out[k] = IF out[k - 1].kept THEN Transform(p[k], out[k - 1].event)
                                  ELSE out[k - 1]
      /\ \A k \in 0..n : out[k] \in Results(Texts)
  BY WalkedDef
<1> HIDE DEF out
<1>3. 0 \in I
  BY <1>2
<1>4. ASSUME NEW k \in Nat, k \in I PROVE k + 1 \in I
  <2> SUFFICES ASSUME k + 1 <= n PROVE out[k + 1] \in J[k + 1]
    OBVIOUS
  <2>1. out[k] \in J[k] /\ k + 1 \in 1..n /\ (k + 1) - 1 = k /\ k \in 0..n
    BY <1>1, <1>4
  <2>2. out[k + 1] = IF out[k].kept THEN Transform(p[k + 1], out[k].event) ELSE out[k]
    BY <1>2, <2>1
  <2>3. out[k] \in Results(Texts)
    BY <1>2, <2>1
  <2>4. CASE out[k].kept
    <3>1. out[k].event \in VEvents(Texts) /\ out[k] = Passed(out[k].event)
      BY <2>3, <2>4, KeptType
    <3> QED
      BY <2>1, <2>2, <2>4, <3>1
  <2>5. CASE ~out[k].kept
    <3>1. out[k] = Dropped
      BY <2>3, <2>5, KeptType
    <3> QED
      BY <2>1, <2>2, <2>5, <3>1
  <2> QED
    BY <2>4, <2>5
<1>5. \A k \in Nat : k \in I
  <2> HIDE DEF I
  <2> QED
    BY <1>3, <1>4, NatSetInduction
<1>6. out[n] \in J[n]
  BY <1>1, <1>5
<1> QED
  BY <1>1, <1>2, <1>6 DEF Apply, out

-----------------------------------------------------------------------------
(* A private event that has lost what is private.                             *)
ForPrivacy == {"filter-private", "mask-private"}

HasPrivacy(trs) == \E k \in 1..Len(trs) : trs[k].type \in ForPrivacy

Masked(e) == ~e.details /\ e.summary # <<>> /\ Last(e.summary) = "Busy"

(* No transformer changes the class of an event or undoes a mask, and those   *)
(* for private events drop or mask them.                                      *)
LEMMA TransformKeepsMask ==
    ASSUME NEW Texts, "Busy" \in Texts, NEW t \in RegisteredOnes(Texts), NEW e \in VEvents(Texts),
           Transform(t, e).kept
    PROVE  LET f == Transform(t, e).event IN
           /\ f.class = e.class
           /\ Masked(e) => Masked(f)
           /\ t.type \in ForPrivacy /\ Private(e) => Masked(f)
<1> DEFINE r == Transform(t, e)
<1>1. CASE t.type = "filter-private"
  <2>1. r = FilterPrivate(t, e)
    BY <1>1 DEF Transform
  <2>2. r.event = e /\ ~Private(e)
    BY <2>1, PassedType, DroppedType DEF FilterPrivate
  <2> QED
    BY <2>2
<1>2. CASE t.type = "mask-private"
  <2> DEFINE g == [e EXCEPT !.summary = <<"Busy">>, !.details = FALSE]
  <2>1. r = MaskPrivate(t, e)
    BY <1>2 DEF Transform
  <2>2. r.event = IF Private(e) THEN g ELSE e
    BY <2>1 DEF MaskPrivate, Passed
  <2>3. g.class = e.class /\ g.details = FALSE /\ g.summary = <<"Busy">>
    BY DEF VEvents
  <2> HIDE DEF g
  <2>4. Masked(g)
    BY <2>3 DEF Masked, Last
  <2> QED
    BY <2>2, <2>3, <2>4
<1>3. CASE t.type = "prefix-uid"
  <2> DEFINE g == [e EXCEPT !.uid = <<t.prefix>> \o @]
  <2>1. r = PrefixUID(t, e)
    BY <1>3 DEF Transform
  <2>2. r.event \in {e, g}
    BY <2>1 DEF PrefixUID, Passed
  <2>3. g.class = e.class /\ g.details = e.details /\ g.summary = e.summary
    BY DEF VEvents
  <2> HIDE DEF g
  <2> QED
    BY <1>3, <2>2, <2>3 DEF Masked, ForPrivacy
<1>4. CASE t.type = "filter-category"
  <2>1. r = CategoryFilter(t, e)
    BY <1>4 DEF Transform
  <2>2. r.event = e
    BY <2>1, PassedType, DroppedType DEF CategoryFilter
  <2> QED
    BY <1>4, <2>2 DEF ForPrivacy
<1>5. CASE t.type = "prefix-summary"
  <2> DEFINE g == [e EXCEPT !.summary = <<t.prefix>> \o @]
  <2>1. r = SummaryPrefix(t, e)
    BY <1>5 DEF Transform
  <2>2. r.event \in {e, g}
    <3>1. r = Passed(e) \/ r = Passed(g)
      BY <2>1 DEF SummaryPrefix
    <3>2. \A f : Passed(f).event = f
      BY DEF Passed
    <3> HIDE DEF r, g
    <3> QED
      BY <3>1, <3>2
  <2>3. /\ g.class = e.class /\ g.details = e.details
        /\ g.summary = <<t.prefix>> \o e.summary
    BY DEF VEvents
  <2>4. t.prefix \in Texts /\ e.summary \in Seq(Texts)
    BY DEF VEvents, RegisteredOnes, Transformers
  <2> HIDE DEF g
  <2>5. ASSUME Masked(e) PROVE Masked(g)
    <3>1. Len(e.summary) \in Nat /\ Len(e.summary) > 0 /\ e.summary[Len(e.summary)] = "Busy"
      BY <2>4, <2>5 DEF Masked, Last
    <3>2. /\ g.summary \in Seq(Texts) /\ Len(g.summary) = Len(e.summary) + 1
          /\ g.summary[Len(e.summary) + 1] = "Busy"
      BY <2>3, <2>4, <3>1, PrefixType
    <3> QED
      BY <2>3, <2>5, <3>1, <3>2 DEF Masked, Last
  <2> QED
    BY <1>5, <2>2, <2>3, <2>5 DEF ForPrivacy
<1> QED
  BY <1>1, <1>2, <1>3, <1>4, <1>5 DEF RegisteredOnes, Registered

(* A pipeline with a transformer for private events drops or masks them,      *)
(* wherever it stands.                                                        *)
LEMMA ApplyMasks ==
    ASSUME NEW Texts, "Busy" \in Texts, NEW p \in Seq(RegisteredOnes(Texts)), NEW e \in VEvents(Texts),
           Private(e), HasPrivacy(p), Apply(p, e).kept
    PROVE  Masked(Apply(p, e).event)
<1> PICK i \in 1..Len(p) : p[i].type \in ForPrivacy
  BY DEF HasPrivacy
<1> DEFINE Left(k) == {r \in Results(Texts) :
                r.kept => r.event.class = e.class /\ (i <= k => Masked(r.event))}
           n == Len(p)
           J == [k \in 0..n |-> Left(k)]
<1>1. n \in Nat /\ i \in 1..n
  OBVIOUS
<1>2. Passed(e) \in J[0]
  <2>1. Passed(e) \in Results(Texts) /\ Passed(e).event = e
    BY PassedType
  <2>2. ~(i <= 0)
    BY <1>1
  <2>3. Passed(e) \in Left(0)
    BY <2>1, <2>2
  <2> QED
    BY <1>1, <2>3
<1>3. \A k \in 1..n : Dropped \in J[k]
  <2>1. \A k \in 1..n : Dropped \in Left(k)
    BY DroppedType
  <2> HIDE DEF Left
  <2> QED
    BY <1>1, <2>1
<1>4. ASSUME NEW k \in 1..n, NEW f \in VEvents(Texts), Passed(f) \in Left(k - 1)
      PROVE  Transform(p[k], f) \in Left(k)
  <2>1. f.class = e.class /\ (i <= k - 1 => Masked(f))
    BY <1>4, PassedType
  <2>2. p[k] \in RegisteredOnes(Texts)
    OBVIOUS
  <2>3. Transform(p[k], f) \in Results(Texts)
    BY <2>2, TransformType
  <2>4. Private(f)
    BY <2>1 DEF Private
  <2>5. ASSUME Transform(p[k], f).kept
        PROVE  LET g == Transform(p[k], f).event IN
               /\ g.class = f.class
               /\ Masked(f) => Masked(g)
               /\ p[k].type \in ForPrivacy /\ Private(f) => Masked(g)
    BY <2>2, <2>5, TransformKeepsMask
  <2>6. i <= k => i <= k - 1 \/ i = k
    BY <1>1
  <2> QED
    BY <2>1, <2>3, <2>4, <2>5, <2>6
<1>5. \A k \in 1..n, f \in VEvents(Texts) : Passed(f) \in J[k - 1] => Transform(p[k], f) \in J[k]
  <2> HIDE DEF Left
  <2>1. \A k \in 1..n : J[k - 1] = Left(k - 1) /\ J[k] = Left(k)
    BY <1>1
  <2> QED
    BY <1>4, <2>1
<1> HIDE DEF J
<1>6. Apply(p, e) \in J[n]
  BY <1>2, <1>3, <1>5, WalkInduction
<1>7. Apply(p, e) \in Left(n)
  BY <1>1, <1>6 DEF J
<1> QED
  BY <1>1, <1>7

-----------------------------------------------------------------------------
(* A pipeline that sets the prefix u before any other, and a UID with u       *)
(* directly before its own part.                                              *)
PrefixFirst(p, u) ==
    \E d \in 1..Len(p) :
        /\ p[d].type = "prefix-uid" /\ p[d].prefix = u
        /\ \A k \in 1..(d - 1) : p[k].type # "prefix-uid"

PrefixedBy(uid, u) == uid = <<>> \/ (Len(uid) >= 2 /\ uid[Len(uid) - 1] = u)

(* No transformer changes a UID but by a prefix, and none that has no UID.    *)
LEMMA TransformKeepsUid ==
    ASSUME NEW Texts, "Busy" \in Texts, NEW t \in RegisteredOnes(Texts), NEW e \in VEvents(Texts),
           Transform(t, e).kept
    PROVE  LET f == Transform(t, e).event IN
           /\ \/ f.uid = e.uid
              \/ t.type = "prefix-uid" /\ e.uid # <<>> /\ f.uid = <<t.prefix>> \o e.uid
           /\ t.type = "prefix-uid" /\ e.uid # <<>> /\ Head(e.uid) # t.prefix =>
                  f.uid = <<t.prefix>> \o e.uid
<1> DEFINE r == Transform(t, e)
<1>1. CASE t.type = "filter-private"
  <2>1. r = FilterPrivate(t, e)
    BY <1>1 DEF Transform
  <2>2. r.event = e
    BY <2>1, PassedType, DroppedType DEF FilterPrivate
  <2> QED
    BY <1>1, <2>2
<1>2. CASE t.type = "mask-private"
  <2> DEFINE g == [e EXCEPT !.summary = <<"Busy">>, !.details = FALSE]
  <2>1. r = MaskPrivate(t, e)
    BY <1>2 DEF Transform
  <2>2. r.event \in {e, g}
    BY <2>1 DEF MaskPrivate, Passed
  <2>3. g.uid = e.uid
    BY DEF VEvents
  <2> HIDE DEF g
  <2> QED
    BY <1>2, <2>2, <2>3
<1>3. CASE t.type = "prefix-uid"
  <2> DEFINE g == [e EXCEPT !.uid = <<t.prefix>> \o @]
             Has == e.uid = <<>> \/ Head(e.uid) = t.prefix
  <2>1. r = PrefixUID(t, e)
    BY <1>3 DEF Transform
  <2>2. r.event = IF Has THEN e ELSE g
    <3>1. r = Passed(IF Has THEN e ELSE g)
      BY <2>1 DEF PrefixUID
    <3>2. \A f : Passed(f).event = f
      BY DEF Passed
    <3> HIDE DEF r, g, Has
    <3> QED
      BY <3>1, <3>2
  <2>3. g.uid = <<t.prefix>> \o e.uid
    BY DEF VEvents
  <2> HIDE DEF g
  <2> QED
    BY <1>3, <2>2, <2>3
<1>4. CASE t.type = "filter-category"
  <2>1. r = CategoryFilter(t, e)
    BY <1>4 DEF Transform
  <2>2. r.event = e
    BY <2>1, PassedType, DroppedType DEF CategoryFilter
  <2> QED
    BY <1>4, <2>2
<1>5. CASE t.type = "prefix-summary"
  <2> DEFINE g == [e EXCEPT !.summary = <<t.prefix>> \o @]
  <2>1. r = SummaryPrefix(t, e)
    BY <1>5 DEF Transform
  <2>2. r.event \in {e, g}
    <3>1. r = Passed(e) \/ r = Passed(g)
      BY <2>1 DEF SummaryPrefix
    <3>2. \A f : Passed(f).event = f
      BY DEF Passed
    <3> HIDE DEF r, g
    <3> QED
      BY <3>1, <3>2
  <2>3. g.uid = e.uid
    BY DEF VEvents
  <2> HIDE DEF g
  <2> QED
    BY <1>5, <2>2, <2>3
<1> QED
  BY <1>1, <1>2, <1>3, <1>4, <1>5 DEF RegisteredOnes, Registered

(* A further prefix comes before those that are there.                        *)
LEMMA PrefixedStays ==
    ASSUME NEW Texts, NEW uid \in Seq(Texts), uid # <<>>, NEW u, PrefixedBy(uid, u), NEW p \in Texts
    PROVE  PrefixedBy(<<p>> \o uid, u)
<1> DEFINE n == Len(uid)
           new == <<p>> \o uid
<1>1. n \in Nat /\ n >= 2 /\ uid[n - 1] = u
  BY DEF PrefixedBy
<1>2. Len(new) = n + 1 /\ new[(n - 1) + 1] = uid[n - 1]
  BY <1>1, PrefixType
<1> HIDE DEF new, n
<1>3. Len(new) - 1 = (n - 1) + 1 /\ Len(new) >= 2
  BY <1>1, <1>2
<1>4. new[Len(new) - 1] = u
  BY <1>1, <1>2, <1>3
<1>5. PrefixedBy(new, u)
  BY <1>3, <1>4 DEF PrefixedBy
<1> QED
  BY <1>5 DEF new

(* When the first transformer that may change a UID sets the prefix u, every  *)
(* UID of a single part leaves the pipeline with u directly before that part. *)
LEMMA ApplyPrefixes ==
    ASSUME NEW Texts, "Busy" \in Texts, NEW p \in Seq(RegisteredOnes(Texts)), NEW e \in VEvents(Texts),
           NEW u, PrefixFirst(p, u),
           e.uid = <<>> \/ \E own \in Texts : own # u /\ e.uid = <<own>>,
           Apply(p, e).kept
    PROVE  /\ Apply(p, e).event \in VEvents(Texts)
           /\ PrefixedBy(Apply(p, e).event.uid, u)
<1> PICK d \in 1..Len(p) :
        /\ p[d].type = "prefix-uid" /\ p[d].prefix = u
        /\ \A k \in 1..(d - 1) : p[k].type # "prefix-uid"
  BY DEF PrefixFirst
<1> DEFINE Left(k) == {r \in Results(Texts) :
                r.kept => IF k < d THEN r.event.uid = e.uid ELSE PrefixedBy(r.event.uid, u)}
           n == Len(p)
           J == [k \in 0..n |-> Left(k)]
<1>1. n \in Nat /\ d \in 1..n
  OBVIOUS
<1>2. Passed(e) \in J[0]
  <2>1. Passed(e) \in Results(Texts) /\ Passed(e).event = e
    BY PassedType
  <2>2. 0 < d
    BY <1>1
  <2>3. Passed(e) \in Left(0)
    BY <2>1, <2>2
  <2> QED
    BY <1>1, <2>3
<1>3. \A k \in 1..n : Dropped \in J[k]
  <2>1. \A k \in 1..n : Dropped \in Left(k)
    BY DroppedType
  <2> HIDE DEF Left
  <2> QED
    BY <1>1, <2>1
<1>4. ASSUME NEW k \in 1..n, NEW f \in VEvents(Texts), Passed(f) \in Left(k - 1)
      PROVE  Transform(p[k], f) \in Left(k)
  <2> DEFINE g == Transform(p[k], f).event
             t == p[k]
  <2>1. IF k - 1 < d THEN f.uid = e.uid ELSE PrefixedBy(f.uid, u)
    BY <1>4, PassedType
  <2>2. t \in RegisteredOnes(Texts) /\ t.prefix \in Texts
    BY DEF RegisteredOnes, Transformers
  <2>3. Transform(t, f) \in Results(Texts)
    BY <2>2, TransformType
  <2> SUFFICES ASSUME Transform(t, f).kept
               PROVE  IF k < d THEN g.uid = e.uid ELSE PrefixedBy(g.uid, u)
    BY <2>3
  <2>4. /\ \/ g.uid = f.uid
           \/ t.type = "prefix-uid" /\ f.uid # <<>> /\ g.uid = <<t.prefix>> \o f.uid
        /\ t.type = "prefix-uid" /\ f.uid # <<>> /\ Head(f.uid) # t.prefix =>
               g.uid = <<t.prefix>> \o f.uid
    BY <2>2, TransformKeepsUid
  <2>5. f.uid \in Seq(Texts)
    BY DEF VEvents
  <2> HIDE DEF g, t
  <2>6. CASE k < d
    <3>1. k \in 1..(d - 1) /\ k - 1 < d
      BY <1>1, <2>6
    <3>2. t.type # "prefix-uid"
      BY <3>1 DEF t
    <3> QED
      BY <2>1, <2>4, <2>6, <3>1, <3>2
  <2>7. CASE k = d
    <3>1. f.uid = e.uid /\ t.type = "prefix-uid" /\ t.prefix = u /\ ~(k < d)
      BY <1>1, <2>1, <2>7 DEF t
    <3>2. CASE e.uid = <<>>
      BY <2>4, <3>1, <3>2 DEF PrefixedBy
    <3>3. CASE e.uid # <<>>
      <4>1. PICK own \in Texts : own # u /\ e.uid = <<own>>
        BY <3>3
      <4>2. f.uid # <<>> /\ Head(f.uid) # u
        BY <3>1, <4>1
      <4>3. g.uid = <<u>> \o <<own>>
        BY <2>4, <3>1, <4>1, <4>2
      <4>4. Len(g.uid) = 2 /\ g.uid[1] = u
        BY <4>3
      <4> QED
        BY <3>1, <4>4 DEF PrefixedBy
    <3> QED
      BY <3>2, <3>3
  <2>8. CASE k > d
    <3>1. PrefixedBy(f.uid, u) /\ ~(k < d)
      BY <1>1, <2>1, <2>8
    <3>2. CASE g.uid = f.uid
      BY <3>1, <3>2
    <3>3. CASE g.uid # f.uid
      BY <2>2, <2>4, <2>5, <3>1, <3>3, PrefixedStays
    <3> QED
      BY <3>2, <3>3
  <2> QED
    BY <1>1, <2>6, <2>7, <2>8
<1>5. \A k \in 1..n, f \in VEvents(Texts) : Passed(f) \in J[k - 1] => Transform(p[k], f) \in J[k]
  <2> HIDE DEF Left
  <2>1. \A k \in 1..n : J[k - 1] = Left(k - 1) /\ J[k] = Left(k)
    BY <1>1
  <2> QED
    BY <1>4, <2>1
<1> HIDE DEF J
<1>6. Apply(p, e) \in J[n]
  BY <1>2, <1>3, <1>5, WalkInduction
<1>7. Apply(p, e) \in Left(n) /\ ~(n < d)
  BY <1>1, <1>6 DEF J
<1>8. Apply(p, e) \in Results(Texts)
  BY <1>7
<1>9. PrefixedBy(Apply(p, e).event.uid, u)
  BY <1>7
<1> QED
  BY <1>8, <1>9, KeptType

-----------------------------------------------------------------------------
(* Giving the options keeps the types of the transformers, and so does        *)
(* leaving out the unknown ones.                                              *)
LEMMA WithOptionsType ==
    ASSUME NEW Texts, NEW trs \in Seq(Transformers(Texts)), NEW prefix \in Texts
    PROVE  /\ WithOptions(trs, prefix) \in Seq(Transformers(Texts))
           /\ Len(WithOptions(trs, prefix)) = Len(trs)
           /\ \A k \in 1..Len(trs) : WithOptions(trs, prefix)[k].type = trs[k].type
<1> DEFINE u == WithOptions(trs, prefix)
<1>1. ASSUME NEW k \in 1..Len(trs) PROVE u[k] \in Transformers(Texts) /\ u[k].type = trs[k].type
  <2>1. trs[k] \in Transformers(Texts)
    OBVIOUS
  <2> QED
    BY <2>1 DEF WithOptions, Transformers
<1>2. u \in [1..Len(trs) -> Transformers(Texts)]
  BY <1>1 DEF WithOptions
<1> HIDE DEF u
<1>3. u \in Seq(Transformers(Texts)) /\ Len(u) = Len(trs)
  BY <1>2
<1> QED
  BY <1>1, <1>3 DEF u

Constructed(trs, prefix) == SelectAt(WithOptions(trs, prefix), Known(trs))

LEMMA KnownOnes ==
    ASSUME NEW Texts, NEW trs \in Seq(Transformers(Texts)), NEW prefix \in Texts
    PROVE  /\ Constructed(trs, prefix) \in Seq(RegisteredOnes(Texts))
           /\ \A k \in Known(trs) : \E j \in 1..Len(Constructed(trs, prefix)) :
                  Constructed(trs, prefix)[j].type = trs[k].type
<1> DEFINE all == WithOptions(trs, prefix)
           I == Known(trs)
           out == SelectAt(all, I)
<1>1. /\ all \in Seq(Transformers(Texts)) /\ Len(all) = Len(trs)
      /\ \A k \in 1..Len(trs) : all[k].type = trs[k].type
  BY WithOptionsType
<1> HIDE DEF all
<1>2. Selects(out, all, Len(all), I, Transformers(Texts))
  BY <1>1, SelectAtSelects
<1> HIDE DEF out
<1>3. out \in Seq(Transformers(Texts))
  BY <1>2 DEF Selects
<1>4. ASSUME NEW k \in 1..Len(out) PROVE out[k] \in RegisteredOnes(Texts)
  <2>1. PICK j \in 1..Len(all) : j \in I /\ out[k] = all[j]
    BY <1>2 DEF Selects
  <2>2. out[k] \in Transformers(Texts)
    BY <1>3
  <2>3. out[k].type \in Registered
    BY <1>1, <2>1 DEF Known
  <2> QED
    BY <2>2, <2>3 DEF RegisteredOnes
<1>5. out \in Seq(RegisteredOnes(Texts))
  BY <1>3, <1>4
<1>6. ASSUME NEW k \in I PROVE \E j \in 1..Len(out) : out[j].type = trs[k].type
  <2>1. k \in 1..Len(all) /\ k \in 1..Len(trs)
    BY <1>1 DEF Known
  <2>2. PICK j \in 1..Len(out) : out[j] = all[k]
    BY <1>2, <2>1 DEF Selects
  <2> QED
    BY <1>1, <2>1, <2>2
<1> QED
  BY <1>5, <1>6 DEF out, all, Constructed

(* What the pipelines are built from.                                         *)
Words == {"", "nil", "Busy"} \cup Registered

LEMMA TransformerIsType ==
    ASSUME NEW Texts, Words \subseteq Texts, NEW type \in Registered, NEW prefix \in Texts
    PROVE  /\ Transformer(type, prefix) \in RegisteredOnes(Texts)
           /\ Transformer(type, prefix).type = type /\ Transformer(type, prefix).prefix = prefix
BY DEF Transformer, RegisteredOnes, Transformers, Words

(* What New builds: the prefix of the source comes before everything else     *)
(* that may change a UID, and what a user wants for private events is there.  *)
LEMMA NewPipelineShape ==
    ASSUME NEW Texts, Words \subseteq Texts, NEW filterPrivate \in BOOLEAN, NEW prefix \in Texts,
           NEW sourceTrs \in Seq(Transformers(Texts)), NEW destTrs \in Seq(Transformers(Texts))
    PROVE  LET p == NewPipeline(filterPrivate, prefix, sourceTrs, destTrs)
               all == sourceTrs \o destTrs
           IN /\ p \in Seq(RegisteredOnes(Texts))
              /\ PrefixFirst(p, prefix)
              /\ filterPrivate \/ HasPrivacy(all) => HasPrivacy(p)
<1> DEFINE all == sourceTrs \o destTrs
           has == HasPrivacy(all)
           filter == Transformer("filter-private", "nil")
           default == Transformer("prefix-uid", prefix)
           legacy == IF filterPrivate /\ ~has THEN <<filter>> ELSE <<>>
           out == Constructed(all, prefix)
           p == legacy \o <<default>> \o out
<1>1. p = NewPipeline(filterPrivate, prefix, sourceTrs, destTrs)
  BY DEF NewPipeline, ForPrivacy, HasPrivacy, Constructed
<1>2. all \in Seq(Transformers(Texts))
  OBVIOUS
<1>3. /\ out \in Seq(RegisteredOnes(Texts))
      /\ \A k \in Known(all) : \E j \in 1..Len(out) : out[j].type = all[k].type
  <2> HIDE DEF all, filter, default, p
  <2> QED
    BY <1>2, KnownOnes
<1>4. filter \in RegisteredOnes(Texts) /\ filter.type = "filter-private"
  <2>1. "filter-private" \in Registered
    BY DEF Registered
  <2>2. "nil" \in Texts
    BY DEF Words
  <2> HIDE DEF all, legacy, out, p
  <2>3. filter \in RegisteredOnes(Texts)
    BY <2>1, <2>2, TransformerIsType
  <2>4. filter.type = "filter-private"
    BY DEF Transformer
  <2> QED
    BY <2>3, <2>4
<1>5. default \in RegisteredOnes(Texts) /\ default.type = "prefix-uid" /\ default.prefix = prefix
  <2>1. "prefix-uid" \in Registered
    BY DEF Registered
  <2> QED
    BY <2>1, TransformerIsType
<1> HIDE DEF all, filter, default, out
<1>6. CASE filterPrivate /\ ~has
  <2> DEFINE q == <<filter>> \o <<default>> \o out
  <2>1. p = q
    BY <1>6
  <2>2. q \in Seq(RegisteredOnes(Texts)) /\ Len(q) >= 2 /\ q[1] = filter /\ q[2] = default
    BY <1>3, <1>4, <1>5
  <2> HIDE DEF q
  <2>3. HasPrivacy(q)
    BY <1>4, <2>2 DEF ForPrivacy, HasPrivacy
  <2>4. /\ 2 \in 1..Len(q) /\ q[2].type = "prefix-uid" /\ q[2].prefix = prefix
        /\ \A k \in 1..(2 - 1) : q[k].type # "prefix-uid"
    BY <1>4, <1>5, <2>2
  <2>5. PrefixFirst(q, prefix)
    BY <2>4 DEF PrefixFirst
  <2> HIDE DEF p
  <2> QED
    BY <1>1, <2>1, <2>2, <2>3, <2>5 DEF all
<1>7. CASE ~(filterPrivate /\ ~has)
  <2> DEFINE q == <<default>> \o out
  <2>1. p = q
    <3>1. legacy = <<>>
      BY <1>7
    <3>2. <<>> \o <<default>> = <<default>>
      BY <1>5
    <3> QED
      BY <3>1, <3>2
  <2>2. /\ q \in Seq(RegisteredOnes(Texts)) /\ Len(q) = Len(out) + 1 /\ q[1] = default
        /\ \A j \in 1..Len(out) : q[j + 1] = out[j]
    BY <1>3, <1>5
  <2> HIDE DEF q
  <2>3. /\ 1 \in 1..Len(q) /\ q[1].type = "prefix-uid" /\ q[1].prefix = prefix
        /\ \A k \in 1..(1 - 1) : q[k].type # "prefix-uid"
    BY <1>5, <2>2
  <2>4. PrefixFirst(q, prefix)
    BY <2>3 DEF PrefixFirst
  <2>5. ASSUME has PROVE HasPrivacy(q)
    <3>1. PICK k \in 1..Len(all) : all[k].type \in ForPrivacy
      BY <2>5 DEF HasPrivacy
    <3>2. k \in Known(all)
      BY <3>1 DEF Known, ForPrivacy, Registered
    <3>3. PICK j \in 1..Len(out) : out[j].type = all[k].type
      BY <1>3, <3>2
    <3>4. j + 1 \in 1..Len(q) /\ q[j + 1].type \in ForPrivacy
      BY <1>3, <2>2, <3>1, <3>3
    <3> QED
      BY <3>4 DEF HasPrivacy
  <2>6. filterPrivate \/ has => HasPrivacy(q)
    BY <1>7, <2>5
  <2> HIDE DEF p
  <2> QED
    BY <1>1, <2>1, <2>2, <2>4, <2>6 DEF all
<1> QED
  BY <1>6, <1>7

(* Building a pipeline again from the options that New has written yields the *)
(* same pipeline.                                                             *)
LEMMA InjectPrefixType ==
    ASSUME NEW Texts, NEW trs \in Seq(Transformers(Texts)), NEW prefix \in Texts
    PROVE  /\ InjectPrefix(trs, prefix) \in Seq(Transformers(Texts))
           /\ Len(InjectPrefix(trs, prefix)) = Len(trs)
           /\ \A k \in 1..Len(trs) :
                  /\ InjectPrefix(trs, prefix)[k].type = trs[k].type
                  /\ InjectPrefix(trs, prefix)[k] =
                         IF trs[k].type = "prefix-uid" /\ trs[k].prefix = ""
                           THEN [trs[k] EXCEPT !.prefix = prefix] ELSE trs[k]
<1> DEFINE u == InjectPrefix(trs, prefix)
           v(t) == IF t.type = "prefix-uid" /\ t.prefix = "" THEN [t EXCEPT !.prefix = prefix] ELSE t
<1>1. ASSUME NEW k \in 1..Len(trs)
      PROVE  u[k] \in Transformers(Texts) /\ u[k].type = trs[k].type /\ u[k] = v(trs[k])
  <2>1. trs[k] \in Transformers(Texts)
    OBVIOUS
  <2>2. u[k] = v(trs[k])
    BY DEF InjectPrefix
  <2>3. v(trs[k]) \in Transformers(Texts) /\ v(trs[k]).type = trs[k].type
    BY <2>1 DEF Transformers
  <2> QED
    BY <2>2, <2>3
<1>2. u \in [1..Len(trs) -> Transformers(Texts)]
  BY <1>1 DEF InjectPrefix
<1> HIDE DEF u
<1>3. u \in Seq(Transformers(Texts)) /\ Len(u) = Len(trs)
  BY <1>2
<1> QED
  BY <1>1, <1>3 DEF u

LEMMA OptionsTwice ==
    ASSUME NEW Texts, NEW t \in Transformers(Texts), NEW prefix \in Texts
    PROVE  LET In(x) == IF x.type = "prefix-uid" /\ x.prefix = "" THEN [x EXCEPT !.prefix = prefix]
                        ELSE x
               With(x) == IF x.type = "prefix-uid" /\ x.prefix \in {"nil", ""}
                            THEN [x EXCEPT !.prefix = prefix] ELSE x
           IN With(In(t)) = With(t)
BY DEF Transformers

LEMMA NewPipelineTwice ==
    ASSUME NEW Texts, NEW filterPrivate \in BOOLEAN, NEW prefix \in Texts,
           NEW sourceTrs \in Seq(Transformers(Texts)), NEW destTrs \in Seq(Transformers(Texts))
    PROVE  NewPipeline(filterPrivate, prefix, InjectPrefix(sourceTrs, prefix),
                       InjectPrefix(destTrs, prefix))
               = NewPipeline(filterPrivate, prefix, sourceTrs, destTrs)
<1> DEFINE all == sourceTrs \o destTrs
           again == InjectPrefix(sourceTrs, prefix) \o InjectPrefix(destTrs, prefix)
           In(x) == IF x.type = "prefix-uid" /\ x.prefix = "" THEN [x EXCEPT !.prefix = prefix] ELSE x
           With(x) == IF x.type = "prefix-uid" /\ x.prefix \in {"nil", ""}
                        THEN [x EXCEPT !.prefix = prefix] ELSE x
<1>1. /\ all \in Seq(Transformers(Texts)) /\ again \in Seq(Transformers(Texts))
      /\ Len(again) = Len(all) /\ Len(all) \in Nat
      /\ \A k \in 1..Len(all) : again[k] = In(all[k])
  <2> DEFINE a == InjectPrefix(sourceTrs, prefix)
             b == InjectPrefix(destTrs, prefix)
  <2>1. /\ a \in Seq(Transformers(Texts)) /\ Len(a) = Len(sourceTrs)
        /\ \A k \in 1..Len(sourceTrs) : a[k] = In(sourceTrs[k])
    BY InjectPrefixType
  <2>2. /\ b \in Seq(Transformers(Texts)) /\ Len(b) = Len(destTrs)
        /\ \A k \in 1..Len(destTrs) : b[k] = In(destTrs[k])
    BY InjectPrefixType
  <2> HIDE DEF a, b, In
  <2>3. /\ all \in Seq(Transformers(Texts)) /\ a \o b \in Seq(Transformers(Texts))
        /\ Len(a \o b) = Len(all) /\ Len(all) \in Nat
    BY <2>1, <2>2
  <2>4. \A k \in 1..Len(all) : (a \o b)[k] = In(all[k])
    <3> TAKE k \in 1..Len(all)
    <3>1. CASE k <= Len(sourceTrs)
      <4>1. k \in 1..Len(sourceTrs) /\ (a \o b)[k] = a[k] /\ all[k] = sourceTrs[k]
        BY <2>1, <2>2, <3>1
      <4> QED
        BY <2>1, <4>1
    <3>2. CASE ~(k <= Len(sourceTrs))
      <4> DEFINE j == k - Len(sourceTrs)
      <4>1. j \in 1..Len(destTrs)
        BY <3>2
      <4>2. all[k] = destTrs[j]
        BY <3>2
      <4>3. (a \o b)[k] = b[j]
        BY <2>1, <2>2, <3>2, <4>1
      <4> HIDE DEF j
      <4> QED
        BY <2>2, <4>1, <4>2, <4>3
    <3> QED
      BY <3>1, <3>2
  <2> QED
    BY <2>3, <2>4 DEF a, b
<1> HIDE DEF all, again
<1>2. ASSUME NEW k \in 1..Len(all)
      PROVE  /\ again[k].type = all[k].type
             /\ With(again[k]) = With(all[k])
  <2>1. all[k] \in Transformers(Texts)
    <3> HIDE DEF In, With
    <3> QED
      BY <1>1
  <2>2. In(all[k]).type = all[k].type
    BY <2>1 DEF Transformers
  <2>3. With(In(all[k])) = With(all[k])
    BY <2>1, OptionsTwice
  <2> HIDE DEF In, With
  <2> QED
    BY <1>1, <2>2, <2>3
<1>3. WithOptions(again, prefix) = WithOptions(all, prefix)
  <2>1. \A trs : WithOptions(trs, prefix) = [k \in 1..Len(trs) |-> With(trs[k])]
    BY DEF WithOptions
  <2> HIDE DEF With
  <2> QED
    BY <1>1, <1>2, <2>1
<1>4. Known(again) = Known(all)
  BY <1>1, <1>2 DEF Known
<1>5. (\E k \in 1..Len(again) : again[k].type \in {"filter-private", "mask-private"})
          <=> \E k \in 1..Len(all) : all[k].type \in {"filter-private", "mask-private"}
  BY <1>1, <1>2
<1> QED
  BY <1>3, <1>4, <1>5 DEF NewPipeline, all, again

(* The order of two lists does not matter for what is in them.                *)
LEMMA EitherOrder ==
    ASSUME NEW T, NEW s \in Seq(T), NEW d \in Seq(T), HasPrivacy(d \o s)
    PROVE  HasPrivacy(s \o d)
<1> SUFFICES ASSUME NEW k \in 1..Len(d \o s)
             PROVE  \E j \in 1..Len(s \o d) : (s \o d)[j] = (d \o s)[k]
  BY DEF HasPrivacy
<1>1. CASE k <= Len(d)
  <2> DEFINE j == k + Len(s)
  <2>1. j \in 1..Len(s \o d) /\ j - Len(s) = k /\ ~(j <= Len(s))
    BY <1>1
  <2>2. (d \o s)[k] = d[k]
    BY <1>1
  <2>3. (s \o d)[j] = d[k]
    BY <2>1
  <2> QED
    BY <2>1, <2>2, <2>3
<1>2. CASE ~(k <= Len(d))
  <2> DEFINE j == k - Len(d)
  <2>1. j \in 1..Len(s) /\ j \in 1..Len(s \o d)
    BY <1>2
  <2>2. (d \o s)[k] = s[j]
    BY <1>2
  <2>3. (s \o d)[j] = s[j]
    BY <2>1
  <2> QED
    BY <2>1, <2>2, <2>3
<1> QED
  BY <1>1, <1>2
=============================================================================
