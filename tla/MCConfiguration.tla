-------------------------- MODULE MCConfiguration --------------------------
(* Two sources and up to two destinations, in the new and in the legacy       *)
(* format, with the mistakes users make.                                      *)
EXTENDS ConfigurationProperties

CONSTANTS u1, u2, u3

Source(name, type, url, trs) ==
    [NoSource EXCEPT !.name = name, !.type = type, !.url = url, !.transformers = trs]
Dest(name, type, url, password, source, trs) ==
    [name |-> name, type |-> type, url |-> url, password |-> password, source |-> source,
     transformers |-> trs]
Nested(url, destName, destUrl) ==
    [NoSource EXCEPT !.url = url,
                     !.destination = Dest(destName, "", destUrl, "pw1", "", <<>>)]
Sync(interval, mode, private) ==
    [interval |-> interval, delete_mode |-> mode, filter_private |-> private]

Mask == Transformer("mask-private", "")
Tag == Transformer("prefix-summary", "tag")
Work == [type |-> "filter-category", prefix |-> "nil", categories |-> {"work"}]
SamePrefix == Transformer("prefix-uid", "p")
OwnPrefix == Transformer("prefix-uid", "")
Unknown == Transformer("translate", "nil")

TwoSources == <<Source("", "", "x", <<Tag>>), Source("b", "", "y", <<SamePrefix>>)>>
TwoDests == <<Dest("d1", "", "c1", "pw1", "source-1", <<SamePrefix>>),
              Dest("d2", "", "c2", "pw2", "b", <<Work, Mask>>)>>

WrittenFiles == {
    [sources |-> TwoSources, destinations |-> TwoDests, sync |-> Sync("1h", "", "true")],
    [sources |-> <<Nested("x", "d1", "c1"), Nested("y", "d2", "c2")>>, destinations |-> <<>>,
     sync |-> Sync("", "hard", "")],
    [sources |-> <<Nested("x", "d9", "c9")>>,
     destinations |-> <<Dest("", "", "c1", "pw1", "source-1", <<>>)>>, sync |-> Sync("", "", "true")]}

Nothing == [Empty EXCEPT !.sync = Sync("", "", "")]
Pw(p) == [NoDestination EXCEPT !.password = p]

SomeEnvironments == {
    [config |-> Omitted, tree |-> Nothing],
    [config |-> Omitted, tree |-> [Nothing EXCEPT !.destinations = <<Pw("secret")>>,
                                                  !.sync = Sync("2h", "hard", "true")]],
    [config |-> Omitted, tree |-> [Nothing EXCEPT !.destinations = <<NoDestination, Pw("secret")>>]],
    [config |-> CHOOSE f \in WrittenFiles : f.sync.interval = "1h", tree |-> Nothing]}

SomeSourceUpdates == {Omitted,
    <<Source("source-1", "", "z", <<Unknown, OwnPrefix>>), Source("b", "", "y", <<Mask, Tag>>)>>,
    <<Source("b", "ics", "y", <<>>)>>,
    <<Source("source-1", "gcal", "x", <<>>), Source("b", "caldav", "y", <<>>)>>}

SomeDestinationUpdates == {Omitted,
    <<Dest("d1", "", "c1", "", "b", <<>>)>>,
    <<Dest("d1", "caldav", "c1", "pw3", "source-1", <<>>), Dest("d2", "", "c2", "", "b", <<SamePrefix>>)>>,
    <<Dest("d1", "", "c1", "", "source-1", <<>>), Dest("d1", "", "c2", "", "b", <<>>)>>,
    <<Dest("d1", "caldav", "ftp", "", "b", <<>>)>>,
    <<Dest("d1", "ics", "c1", "", "b", <<>>)>>}

SomeSyncUpdates == {Sync(Omitted, Omitted, Omitted), Sync("0", "", "true"), Sync("invalid", "hard", Omitted)}

AllStrings == STRING

FirstSource == <<"source-1", "source-2">>
FirstDest == <<"dest-1", "dest-2">>

Event(uid, class, categories) ==
    [uid |-> uid, class |-> class, summary |-> <<"text">>, details |-> TRUE, categories |-> categories]

SomeEvents == {Event(<<u1>>, "PUBLIC", {}), Event(<<u2>>, "PRIVATE", {"work"}),
               Event(<<u3>>, "CONFIDENTIAL", {"work"}), Event(<<>>, "PUBLIC", {"work"}),
               Event(<<u1>>, "PUBLIC", {"work"})}
=============================================================================
