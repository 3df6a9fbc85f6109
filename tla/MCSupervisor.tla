---------------------------- MODULE MCSupervisor ----------------------------
(* Small instances of Supervisor for TLC.                                     *)
EXTENDS SupervisorProperties, TLC

(* One connection; or lists of which an update shortens either.               *)
OneConnection == {[sources |-> 1, dests |-> 1]}
EitherLonger == {[sources |-> 1, dests |-> 2], [sources |-> 2, dests |-> 1]}

RequestSymmetry == Permutations(Requests)
=============================================================================
