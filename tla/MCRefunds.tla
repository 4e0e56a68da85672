----------------------------- MODULE MCRefunds -----------------------------
(* Small instances of Refunds for TLC. *)
EXTENDS Refunds, TLC

MCSymmetry == Permutations(Refunds) \cup Permutations(Reviewers)
              \cup Permutations(Processors) \cup Permutations(Creators)

=============================================================================
