-------------------------------- MODULE Sift --------------------------------
(* Rows taken out of an ordered table: what SelectSeq does, written as a   *)
(* function that proofs can expand.                                        *)
EXTENDS Naturals, Sequences

\* What is left of s without the elements of S, in the order they had.
Without(s, S) ==
    LET kept[n \in 0..Len(s)] ==
            IF n = 0 THEN <<>>
            ELSE IF s[n] \in S THEN kept[n - 1] ELSE Append(kept[n - 1], s[n])
    IN  kept[Len(s)]
=============================================================================
