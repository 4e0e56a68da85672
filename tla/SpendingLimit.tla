--------------------------- MODULE SpendingLimit ---------------------------
(***************************************************************************)
(* What a budget promises, whatever keeps it: claims are raised against a  *)
(* limit, a claim may be given up before it is settled, and a settled      *)
(* claim stays settled, for the amount it was raised for.  At no time do   *)
(* the claims that stand add up to more than the limit.                    *)
(*                                                                         *)
(* Refunds implements it: the limit is what was collected for the order,   *)
(* a claim is a refund that was not rejected.                              *)
(***************************************************************************)
EXTENDS Integers

CONSTANTS
    Claims,     \* the claims that may be raised
    Limit,      \* what they may add up to
    Sum(_)      \* what a function from claims to amounts adds up to

VARIABLES
    claimed,    \* the amount of every standing claim, 0 for the others
    dropped,    \* the claims that were given up
    settled     \* the claims that were paid

vars == <<claimed, dropped, settled>>

Raise(c, amount) ==
    /\ claimed[c] = 0
    /\ c \notin dropped
    /\ amount > 0
    /\ Sum(claimed) + amount <= Limit
    /\ claimed' = [claimed EXCEPT ![c] = amount]
    /\ UNCHANGED <<dropped, settled>>

Drop(c) ==
    /\ claimed[c] > 0
    /\ c \notin settled
    /\ claimed' = [claimed EXCEPT ![c] = 0]
    /\ dropped' = dropped \cup {c}
    /\ UNCHANGED settled

Settle(c) ==
    /\ claimed[c] > 0
    /\ c \notin settled
    /\ settled' = settled \cup {c}
    /\ UNCHANGED <<claimed, dropped>>

Init ==
    /\ claimed = [c \in Claims |-> 0]
    /\ dropped = {}
    /\ settled = {}

Next ==
    \E c \in Claims :
        \/ \E amount \in 1..Limit : Raise(c, amount)
        \/ Drop(c)
        \/ Settle(c)

Spec == Init /\ [][Next]_vars

=============================================================================
