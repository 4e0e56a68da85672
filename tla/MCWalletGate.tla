---------------------------- MODULE MCWalletGate ----------------------------
(* A tenant before and after it chose Pay as you Grow, the balance gate      *)
(* switched on and off, and a wallet within and below its allowance.         *)
EXTENDS WalletGate

Tenant(chosen) == [chosen |-> chosen, trialing |-> FALSE, golive_exempt |-> FALSE,
                   canary |-> FALSE, bearing |-> chosen]
MCTenants == {Tenant(FALSE), Tenant(TRUE)}
MCSettings == {[golive |-> TRUE, gate |-> gate, rateZero |-> FALSE] :
                 gate \in BOOLEAN}
MCWallets == {[status |-> "active", override |-> "unset", below |-> below] :
                below \in BOOLEAN}
=============================================================================
