--------------------------- MODULE MCWalletLedger ---------------------------
(* Small instances of WalletLedger for TLC. *)
EXTENDS WalletLedger, TLC

CONSTANTS o1, o2, k1, k2

(* o2 was partly accepted: less was collected than its total. *)
MCTotalFee == [o \in Orders |-> IF o = o2 THEN 3 ELSE 1]
MCCollectedFee == [o \in Orders |-> IF o = o2 THEN 2 ELSE 1]
MCFullFee == [o \in Orders |-> IF o = o2 THEN 2 ELSE 1]

(* k1 is a top-up, k2 a negative adjustment. *)
MCCreditAmount == [k \in Credits |-> IF k = k2 THEN -1 ELSE 4]

MCSymmetry == Permutations(Handlers)

=============================================================================
