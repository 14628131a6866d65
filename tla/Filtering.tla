------------------------------ MODULE Filtering ------------------------------
(* What SelectSeq computes, with a set for the test: SelectSeq has no      *)
(* definition a proof could expand, FlattenSeq has.                        *)
EXTENDS SequencesExt

\* The elements of s that are in D, in order.
Only(s, D) == FlattenSeq([i \in DOMAIN s |-> IF s[i] \in D THEN <<s[i]>> ELSE <<>>])
=============================================================================
