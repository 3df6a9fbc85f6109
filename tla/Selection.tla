----------------------------- MODULE Selection -----------------------------
(* The loops that copy the entries of a list that pass a test: SelectSeq,     *)
(* with the positions that pass in place of the test, and as a recursive      *)
(* function, so that what it yields can be proved by induction.               *)
EXTENDS Integers, Sequences

(* Collected(s, I)[i] is what has been copied of the first i entries of s.    *)
Collected(s, I) ==
    LET out[i \in 0..Len(s)] ==
            IF i = 0 THEN <<>>
            ELSE IF i \in I THEN Append(out[i - 1], s[i]) ELSE out[i - 1]
    IN out

SelectAt(s, I) == Collected(s, I)[Len(s)]
=============================================================================
