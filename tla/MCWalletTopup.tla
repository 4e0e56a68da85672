--------------------------- MODULE MCWalletTopup ---------------------------
(* Small instances of WalletTopup for TLC. *)
EXTENDS WalletTopup, TLC

CONSTANTS i1, i2, k1, e1, e2, e3, c1, c2

(* Different amounts, so that a hold released for the wrong intent shows. *)
MCAmount == [i \in Intents |-> IF i = i2 THEN 2 ELSE 1]

(* The wallet starts in debt beyond the allowance of the configurations. *)
MCInitialBalance == -2

MCReceiptSymmetry == Permutations(Receipts)
MCRequestSymmetry == Permutations(Submitters) \cup Permutations(Reviewers)
MCSymmetry == MCReceiptSymmetry \cup MCRequestSymmetry

=============================================================================
