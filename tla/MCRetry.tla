------------------------------ MODULE MCRetry ------------------------------
EXTENDS Retry

(* No header or one that does not parse; a date in the past; a time beyond    *)
(* MaxDelay.                                                                  *)
HeaderValues == {-3, 0, 20}
=============================================================================
