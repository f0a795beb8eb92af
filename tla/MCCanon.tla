------------------------------ MODULE MCCanon ------------------------------
(***************************************************************************)
(* Instances of Canon for TLC: sessions one after the other, and two        *)
(* sessions at the same time.                                               *)
(***************************************************************************)
EXTENDS Canon, TLC

\* Drafts, chapters and sessions are interchangeable; one of a kind needs no permutation.
Symmetry == UNION {Permutations(S) : S \in {T \in {Draft, Chapter, Actor} : Cardinality(T) > 1}}

=============================================================================
