----------------------------- MODULE MCLogStore -----------------------------
(* A small instance of LogStore for TLC.                                      *)
EXTENDS LogStoreProperties

DebugInfoError == {-1, 0, 2}
=============================================================================
