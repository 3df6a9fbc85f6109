------------------------------ MODULE Pipeline ------------------------------
(* The transformers of internal/plugin/transformer.go, the pipeline that New  *)
(* (internal/sync/syncer.go) builds for a destination, and what a calendar    *)
(* becomes on its way through it.                                             *)
EXTENDS Selection, SequencesExt

(* A VEVENT: uid is the sequence of the prefixes of its UID and its own part  *)
(* (<<>> when it has none), summary the prefixes of its SUMMARY and its text, *)
(* details stands for DESCRIPTION, LOCATION and ATTENDEE.                     *)
(* A transformer: its type and what its options say; prefix is "nil" when     *)
(* there is no map of options and "" when the map has no prefix.              *)

Private(e) == e.class \in {"PRIVATE", "CONFIDENTIAL"}

Dropped == [kept |-> FALSE]
Passed(e) == [kept |-> TRUE, event |-> e]

FilterPrivate(t, e) == IF Private(e) THEN Dropped ELSE Passed(e)

(* A plausible slip: confidential events are not masked.                      *)
MaskPrivateOnly(t, e) ==
    Passed(IF e.class = "PRIVATE"
             THEN [e EXCEPT !.summary = <<"Busy">>, !.details = FALSE] ELSE e)

MaskPrivate(t, e) ==
    Passed(IF Private(e) THEN [e EXCEPT !.summary = <<"Busy">>, !.details = FALSE] ELSE e)

PrefixUID(t, e) ==
    Passed(IF e.uid = <<>> \/ Head(e.uid) = t.prefix THEN e
           ELSE [e EXCEPT !.uid = <<t.prefix>> \o @])

CategoryFilter(t, e) ==
    IF t.categories = {} \/ e.categories \cap t.categories # {} THEN Passed(e) ELSE Dropped

SummaryPrefix(t, e) ==
    Passed(IF t.prefix \in {"nil", ""} THEN e ELSE [e EXCEPT !.summary = <<t.prefix>> \o @])

(* RegisterTransformer: the transformers there are, by type.                  *)
Registered == {"filter-private", "mask-private", "prefix-uid", "filter-category", "prefix-summary"}

Transform(t, e) ==
    CASE t.type = "filter-private"  -> FilterPrivate(t, e)
      [] t.type = "mask-private"    -> MaskPrivate(t, e)
      [] t.type = "prefix-uid"      -> PrefixUID(t, e)
      [] t.type = "filter-category" -> CategoryFilter(t, e)
      [] t.type = "prefix-summary"  -> SummaryPrefix(t, e)

(* Pipeline.Apply: the first transformer that drops the event ends the walk;  *)
(* Walked(pipeline, e)[k] is what the first k transformers have left of e.    *)
Walked(pipeline, e) ==
    LET out[k \in 0..Len(pipeline)] ==
            IF k = 0 THEN Passed(e)
            ELSE IF out[k - 1].kept THEN Transform(pipeline[k], out[k - 1].event) ELSE out[k - 1]
    IN out

Apply(pipeline, e) == Walked(pipeline, e)[Len(pipeline)]

-----------------------------------------------------------------------------
Transformer(type, prefix) == [type |-> type, prefix |-> prefix, categories |-> {}]

(* The options given to the factory: prefix-uid without a prefix gets that of *)
(* the source, written into the map of the configuration when there is one.   *)
InjectPrefix(trs, prefix) ==
    [k \in 1..Len(trs) |->
        IF trs[k].type = "prefix-uid" /\ trs[k].prefix = ""
          THEN [trs[k] EXCEPT !.prefix = prefix] ELSE trs[k]]

WithOptions(trs, prefix) ==
    [k \in 1..Len(trs) |->
        IF trs[k].type = "prefix-uid" /\ trs[k].prefix \in {"nil", ""}
          THEN [trs[k] EXCEPT !.prefix = prefix] ELSE trs[k]]

(* The positions of the transformers that there are.                          *)
Known(trs) == {k \in 1..Len(trs) : trs[k].type \in Registered}

(* A plausible slip: a transformer that sets a prefix replaces the default.   *)
NewPipelineOnePrefix(filterPrivate, prefix, sourceTrs, destTrs) ==
    LET all == sourceTrs \o destTrs
        legacy == IF filterPrivate THEN <<Transformer("filter-private", "nil")>> ELSE <<>>
        default == IF \E k \in 1..Len(all) : all[k].type = "prefix-uid"
                     THEN <<>> ELSE <<Transformer("prefix-uid", prefix)>>
    IN legacy \o default \o SelectAt(WithOptions(all, prefix), Known(all))

(* sync.New: filter_private is honoured when neither side has a transformer   *)
(* for private events; the UID prefix always comes before the transformers    *)
(* of the source and of the destination; unknown types are left out.          *)
NewPipeline(filterPrivate, prefix, sourceTrs, destTrs) ==
    LET all == sourceTrs \o destTrs
        hasFilterPrivate == \E k \in 1..Len(all) : all[k].type \in {"filter-private", "mask-private"}
        legacy == IF filterPrivate /\ ~hasFilterPrivate
                    THEN <<Transformer("filter-private", "nil")>> ELSE <<>>
    IN legacy \o <<Transformer("prefix-uid", prefix)>>
              \o SelectAt(WithOptions(all, prefix), Known(all))

(* parseEventsWithPipeline: the events kept, by UID; those without UID are    *)
(* skipped, and of several with one UID the last one stays.                   *)
ParseEvents(calendar, pipeline) ==
    LET out == [k \in 1..Len(calendar) |-> Apply(pipeline, calendar[k])]
        Kept(k) == out[k].kept /\ out[k].event.uid # <<>>
        positions == {k \in 1..Len(calendar) : Kept(k)}
    IN [uid \in {out[k].event.uid : k \in positions} |->
            LET same == {k \in positions : out[k].event.uid = uid}
            IN out[CHOOSE k \in same : \A j \in same : j <= k].event]
=============================================================================
