------------------------------- MODULE Wallet -------------------------------
(***************************************************************************)
(* The merchant wallet row (public.merchant_wallets) and the pure steps of *)
(* WalletService on it (src/application/services/wallet_service.py).  The  *)
(* module has no state: WalletTopup and WalletLedger keep a WalletRow in a *)
(* variable and move it with these operators.                              *)
(*                                                                         *)
(* Money is in cents.  Allowance is negative_allowance_cents, the debt a   *)
(* merchant may run up before checkout is blocked; LowThreshold is         *)
(* low_balance_threshold_cents.                                            *)
(***************************************************************************)
EXTENDS Integers

CONSTANTS Allowance, LowThreshold

ASSUME WalletAssumption == Allowance \in Nat /\ LowThreshold \in Nat

WalletStatus == {"active", "exempt", "suspended"}

WalletRow == [balance : Int, hold : Nat, status : WalletStatus, warned : 0..3]

(* 0 healthy, 1 low, 2 negative, 3 below the allowance. *)
warning_level_for(balance) ==
    IF balance < -Allowance THEN 3
    ELSE IF balance < 0 THEN 2
    ELSE IF balance < LowThreshold THEN 1
    ELSE 0

(* The ladder position is only ever raised, or cleared once healthy again. *)
bump_warning_level(w) ==
    LET level == warning_level_for(w.balance)
    IN  IF level > w.warned \/ level = 0 THEN [w EXCEPT !.warned = level] ELSE w

(* bump_warning_level returns a level, i.e. a notification is owed. *)
WarningRises(w) == warning_level_for(w.balance) > w.warned

add_pending_hold(w, amount) == [w EXCEPT !.hold = @ + amount]

(* Fault: the hold is not floored at zero. *)
release_hold_unfloored(w, amount) == [w EXCEPT !.hold = @ - amount]

release_pending_hold(w, amount) ==
    [w EXCEPT !.hold = IF @ > amount THEN @ - amount ELSE 0]

=============================================================================
