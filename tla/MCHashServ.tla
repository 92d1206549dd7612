----------------------------- MODULE MCHashServ -----------------------------
(* What tasks produce, for TLC, and symmetry: nothing orders the hashes. *)
EXTENDS HashServ, TLC

\* No two builds are sure to agree on an output.
AnyOutput == [t \in Taskhash |-> Outhash]

Sym == Permutations(Builder) \cup Permutations(Taskhash) \cup Permutations(Outhash)
=============================================================================
