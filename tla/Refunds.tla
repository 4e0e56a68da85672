------------------------------ MODULE Refunds ------------------------------
(***************************************************************************)
(* Refunds of one paid order: the merchant requests them against what was  *)
(* collected, approves or rejects each, and has the approved ones paid out *)
(* by the gateway.                                                         *)
(*                                                                         *)
(* Requests run concurrently, each in a transaction of its own.  Creating  *)
(* a refund serialises on the row of the order and processing one on the   *)
(* row of the refund; approving and rejecting lock nothing.  The gateway   *)
(* is called inside the processing transaction, so what is rolled back     *)
(* afterwards is only the record of the money, not the money.              *)
(***************************************************************************)
EXTENDS Integers, FiniteSets, Functions

CONSTANTS
    Refunds,          \* the refunds that may be created
    Total,            \* order.total
    Collectible,      \* what was collected: less than Total if partly accepted
    PartialAmounts,   \* the amounts asked for by partial refunds
    Creators,         \* requests that create a refund
    Reviewers,        \* requests that approve or reject one
    Processors,       \* requests that process one
    MaxFaults,        \* bound on crashes and lost gateway answers
    NoRefund          \* no refund is held

ASSUME RefundsAssumption ==
    /\ IsFiniteSet(Refunds)
    /\ Total \in Nat
    /\ Collectible \in 0..Total
    /\ PartialAmounts \subseteq Nat \ {0}
    /\ MaxFaults \in Nat
    /\ NoRefund \notin Refunds

VARIABLES
    order,      \* the order's row, as far as refunds read and write it
    refund,     \* the rows of the refunds
    create,     \* the create requests
    review,     \* the approve and reject requests
    process,    \* the process requests
    closing,    \* the request or callback that refunds the whole order
    payouts,    \* how often the gateway paid each refund out (its books)
    doubt,      \* payouts whose record was lost: no answer, or rolled back
    faults,     \* crashes and lost answers so far
    overlapped, \* two process requests settled refunds of the order at once
    revived     \* refunds that were settled until a review was saved over it

vars == <<order, refund, create, review, process, closing, payouts, doubt,
          faults, overlapped, revived>>

-----------------------------------------------------------------------------
(* Rows and requests.                                                      *)

PaymentStatuses == {"paid", "partially_refunded", "refunded"}
OrderStatuses == {"delivered", "refunded"}
OrderData == [payment : PaymentStatuses, status : OrderStatuses]
OrderRow == [data : OrderData, version : Nat, gateway : BOOLEAN]

RefundStatuses == {"none", "requested", "approved", "completed", "rejected",
                   "failed"}
RefundRow == [status : RefundStatuses, amount : Nat]

Decisions == {"approved", "rejected"}
ReviewRow == [pc : {"idle", "read"}, refund : Refunds \cup {NoRefund},
              decision : Decisions]

(* "calling": the gateway is being asked; "paid" and "declined": it has     *)
(* answered; "marking": the order was read; "saving": update() has loaded   *)
(* the row it will write.                                                   *)
ProcessPcs == {"idle", "calling", "paid", "declined", "marking", "saving"}
ProcessRow == [pc : ProcessPcs, refund : Refunds \cup {NoRefund},
               copy : OrderData, base : [data : OrderData, version : Nat]]

IdleReview == [pc |-> "idle", refund |-> NoRefund, decision |-> "approved"]
PaidData == [payment |-> "paid", status |-> "delivered"]
IdleProcess == [pc |-> "idle", refund |-> NoRefund, copy |-> PaidData,
                base |-> [data |-> PaidData, version |-> 0]]

is_refundable == order.data.payment \in {"paid", "partially_refunded"}
can_be_refunded == order.data.payment = "paid" /\ order.data.status = "delivered"

(* Fault: a failed refund, which may be retried, gives its amount back.     *)
StandingNotFailed(r) == refund[r].status \notin {"none", "rejected", "failed"}

Standing(r) == refund[r].status \notin {"none", "rejected"}

(* get_total_refunded_for_order: with include_open every refund that was    *)
(* not rejected counts, without it the completed ones.                      *)
OpenAmounts == [r \in Refunds |-> IF Standing(r) THEN refund[r].amount ELSE 0]
OpenTotal == SumFunction(OpenAmounts)
CompletedTotal(own) ==
    SumFunction([r \in Refunds |->
        IF refund[r].status = "completed" \/ r = own
        THEN refund[r].amount ELSE 0])

(* get_by_id_for_update: the row stays locked while its payout is asked for.*)
RowFree(r) == \A p \in Processors : process[p].refund # r

Settling(p) == process[p].pc \in {"marking", "saving"}
MoneyOut(p) == process[p].pc \in {"paid", "marking", "saving"} /\ order.gateway

-----------------------------------------------------------------------------
(* CreateRefundUseCase.  The order is read before its row is locked.  From *)
(* the lock on, the sum and the insert are one step: no other create can   *)
(* come between them.                                                      *)

CheckOrder(c) ==
    /\ create[c] = "idle"
    /\ is_refundable
    /\ create' = [create EXCEPT ![c] = "checked"]
    /\ UNCHANGED <<order, refund, review, process, closing, payouts, doubt,
                   faults, overlapped, revived>>

(* A full refund asks for all that is left, a partial one for at most that. *)
(* Fault: only completed refunds count against what was collected.          *)
FitsBudgetCompleted(amount) ==
    \/ CompletedTotal(NoRefund) + amount = Collectible
    \/ amount \in PartialAmounts /\ CompletedTotal(NoRefund) + amount <= Collectible

FitsBudget(amount) ==
    \/ OpenTotal + amount = Collectible
    \/ amount \in PartialAmounts /\ OpenTotal + amount <= Collectible

CreateRefund(c, r) ==
    /\ create[c] = "checked"
    /\ refund[r].status = "none"
    /\ \E amount \in 1..Collectible :
        /\ FitsBudget(amount)
        /\ refund' = [refund EXCEPT ![r] =
                        [status |-> "requested", amount |-> amount]]
    /\ create' = [create EXCEPT ![c] = "idle"]
    /\ UNCHANGED <<order, review, process, closing, payouts, doubt, faults,
                   overlapped, revived>>

(* Nothing left, too much asked for, or the worker died.                    *)
CreateFails(c) ==
    /\ create[c] = "checked"
    /\ create' = [create EXCEPT ![c] = "idle"]
    /\ UNCHANGED <<order, refund, review, process, closing, payouts, doubt,
                   faults, overlapped, revived>>

-----------------------------------------------------------------------------
(* ApproveRefundUseCase and RejectRefundUseCase: the refund is read without *)
(* a lock and judged; update() loads the row again and writes what differs  *)
(* from it, waiting for a lock a process request holds.                     *)

ReadForReview(v, r, decision) ==
    /\ review[v].pc = "idle"
    /\ refund[r].status = "requested"
    /\ review' = [review EXCEPT ![v] =
                    [pc |-> "read", refund |-> r, decision |-> decision]]
    /\ UNCHANGED <<order, refund, create, process, closing, payouts, doubt,
                   faults, overlapped, revived>>

(* The review overwrites a completion or a rejection it has not seen.       *)
Revives(v) ==
    refund[review[v].refund].status \in {"completed", "rejected"} \ {review[v].decision}

(* update()'s second read and its write are one step: whatever is committed *)
(* between them, the write puts the decision on the row, and a read that    *)
(* finds the decision there already leaves the status alone.                *)
SaveReview(v) ==
    LET r == review[v].refund IN
    /\ review[v].pc = "read"
    /\ RowFree(r) \/ refund[r].status = review[v].decision
    /\ refund' = [refund EXCEPT ![r].status = review[v].decision]
    /\ revived' = IF Revives(v) THEN revived \cup {r} ELSE revived
    /\ review' = [review EXCEPT ![v] = IdleReview]
    /\ UNCHANGED <<order, create, process, closing, payouts, doubt, faults,
                   overlapped>>

-----------------------------------------------------------------------------
(* ProcessRefundUseCase.                                                    *)

(* Fault: the refund is read without its lock.                              *)
StartUnlocked(p, r) ==
    /\ process[p].pc = "idle"
    /\ refund[r].status \in {"approved", "failed"}
    /\ process' = [process EXCEPT ![p].pc = "calling", ![p].refund = r]
    /\ UNCHANGED <<order, refund, create, review, closing, payouts, doubt,
                   faults, overlapped, revived>>

StartProcessing(p, r) ==
    /\ process[p].pc = "idle"
    /\ RowFree(r)
    /\ refund[r].status \in {"approved", "failed"}
    /\ process' = [process EXCEPT ![p].pc = "calling", ![p].refund = r]
    /\ UNCHANGED <<order, refund, create, review, closing, payouts, doubt,
                   faults, overlapped, revived>>

(* No payment service or no payment id: the money is handed back by hand.   *)
ProcessByHand(p) ==
    /\ process[p].pc = "calling"
    /\ ~order.gateway
    /\ process' = [process EXCEPT ![p].pc = "paid"]
    /\ UNCHANGED <<order, refund, create, review, closing, payouts, doubt,
                   faults, overlapped, revived>>

ProviderPays(p) ==
    /\ process[p].pc = "calling"
    /\ order.gateway
    /\ payouts' = [payouts EXCEPT ![process[p].refund] = @ + 1]
    /\ process' = [process EXCEPT ![p].pc = "paid"]
    /\ UNCHANGED <<order, refund, create, review, closing, doubt, faults,
                   overlapped, revived>>

(* The gateway paid, but the call raised: the refund is marked failed.      *)
AnswerLost(p) ==
    /\ process[p].pc = "calling"
    /\ order.gateway
    /\ faults < MaxFaults
    /\ faults' = faults + 1
    /\ payouts' = [payouts EXCEPT ![process[p].refund] = @ + 1]
    /\ doubt' = [doubt EXCEPT ![process[p].refund] = @ + 1]
    /\ process' = [process EXCEPT ![p].pc = "declined"]
    /\ UNCHANGED <<order, refund, create, review, closing, overlapped,
                   revived>>

ProviderDeclines(p) ==
    /\ process[p].pc = "calling"
    /\ order.gateway
    /\ process' = [process EXCEPT ![p].pc = "declined"]
    /\ UNCHANGED <<order, refund, create, review, closing, payouts, doubt,
                   faults, overlapped, revived>>

RecordFailure(p) ==
    /\ process[p].pc = "declined"
    /\ refund' = [refund EXCEPT ![process[p].refund].status = "failed"]
    /\ process' = [process EXCEPT ![p] = IdleProcess]
    /\ UNCHANGED <<order, create, review, closing, payouts, doubt, faults,
                   overlapped, revived>>

(* Fault: the order is marked by the amount of this refund alone.           *)
MarkOrderByOwn(p) ==
    LET paidBack == refund[process[p].refund].amount
        mark == IF paidBack >= Total THEN "refunded" ELSE "partially_refunded"
    IN
    /\ process[p].pc = "paid"
    /\ process' = [process EXCEPT ![p].pc = "marking",
                                  ![p].copy = [order.data EXCEPT !.payment = mark]]
    /\ overlapped' = (overlapped \/ \E q \in Processors \ {p} : Settling(q))
    /\ UNCHANGED <<order, refund, create, review, closing, payouts, doubt,
                   faults, revived>>

(* _update_order_payment_status: the completed refund is flushed, the order *)
(* read and the completed refunds summed - those that others committed, and *)
(* the request's own.                                                       *)
MarkOrder(p) ==
    LET paidBack == CompletedTotal(process[p].refund)
        mark == IF paidBack >= Total THEN "refunded" ELSE "partially_refunded"
    IN
    /\ process[p].pc = "paid"
    /\ process' = [process EXCEPT ![p].pc = "marking",
                                  ![p].copy = [order.data EXCEPT !.payment = mark]]
    /\ overlapped' = (overlapped \/ \E q \in Processors \ {p} : Settling(q))
    /\ UNCHANGED <<order, refund, create, review, closing, payouts, doubt,
                   faults, revived>>

LoadOrder(p) ==
    /\ process[p].pc = "marking"
    /\ process' = [process EXCEPT ![p].pc = "saving",
                                  ![p].base = [data |-> order.data,
                                               version |-> order.version]]
    /\ UNCHANGED <<order, refund, create, review, closing, payouts, doubt,
                   faults, overlapped, revived>>

(* The UPDATE is sent only if the copy differs from the row update() loaded,*)
(* and fails if that row's version has moved on.                            *)
Unchanged(p) == process[p].copy = process[p].base.data
Conflict(p) == ~Unchanged(p) /\ process[p].base.version # order.version

CompleteRefund(p) ==
    /\ process[p].pc = "saving"
    /\ ~Conflict(p)
    /\ order' = IF Unchanged(p) THEN order
                ELSE [order EXCEPT !.data = process[p].copy,
                                   !.version = @ + 1]
    /\ refund' = [refund EXCEPT ![process[p].refund].status = "completed"]
    /\ process' = [process EXCEPT ![p] = IdleProcess]
    /\ UNCHANGED <<create, review, closing, payouts, doubt, faults, overlapped,
                   revived>>

(* What a rollback leaves: the refund as it was, the payout without record. *)
RollBack(p) ==
    /\ doubt' = IF MoneyOut(p)
                THEN [doubt EXCEPT ![process[p].refund] = @ + 1] ELSE doubt
    /\ process' = [process EXCEPT ![p] = IdleProcess]
    /\ UNCHANGED <<order, refund, create, review, closing, payouts, overlapped,
                   revived>>

VersionConflict(p) ==
    /\ process[p].pc = "saving"
    /\ Conflict(p)
    /\ RollBack(p)
    /\ UNCHANGED faults

ProcessCrashes(p) ==
    /\ process[p].pc # "idle"
    /\ faults < MaxFaults
    /\ faults' = faults + 1
    /\ RollBack(p)

-----------------------------------------------------------------------------
(* Order.refund: the gateway's refund callback, or the merchant setting the *)
(* order's status to refunded, closes the whole order.                      *)

ReadToClose ==
    /\ closing = "idle"
    /\ can_be_refunded
    /\ closing' = "read"
    /\ UNCHANGED <<order, refund, create, review, process, payouts, doubt,
                   faults, overlapped, revived>>

CloseOrder ==
    /\ closing = "read"
    /\ order' = [order EXCEPT !.data = [payment |-> "refunded",
                                        status |-> "refunded"],
                              !.version = @ + 1]
    /\ closing' = "idle"
    /\ UNCHANGED <<refund, create, review, process, payouts, doubt, faults,
                   overlapped, revived>>

-----------------------------------------------------------------------------

Init ==
    /\ \E gateway \in BOOLEAN :
        order = [data |-> PaidData, version |-> 0, gateway |-> gateway]
    /\ refund = [r \in Refunds |-> [status |-> "none", amount |-> 0]]
    /\ create = [c \in Creators |-> "idle"]
    /\ review = [v \in Reviewers |-> IdleReview]
    /\ process = [p \in Processors |-> IdleProcess]
    /\ closing = "idle"
    /\ payouts = [r \in Refunds |-> 0]
    /\ doubt = [r \in Refunds |-> 0]
    /\ faults = 0
    /\ overlapped = FALSE
    /\ revived = {}

CreateStep == \E c \in Creators :
    CheckOrder(c) \/ CreateFails(c) \/ \E r \in Refunds : CreateRefund(c, r)

ReviewStep == \E v \in Reviewers :
    \/ SaveReview(v)
    \/ \E r \in Refunds, d \in Decisions : ReadForReview(v, r, d)

ProcessStep == \E p \in Processors :
    \/ ProcessByHand(p) \/ ProviderPays(p) \/ AnswerLost(p)
    \/ ProviderDeclines(p) \/ RecordFailure(p) \/ MarkOrder(p) \/ LoadOrder(p)
    \/ CompleteRefund(p) \/ VersionConflict(p) \/ ProcessCrashes(p)
    \/ \E r \in Refunds : StartProcessing(p, r)

Next == CreateStep \/ ReviewStep \/ ProcessStep \/ ReadToClose \/ CloseOrder

Spec == Init /\ [][Next]_vars

-----------------------------------------------------------------------------
(* Properties.                                                              *)

(* Every row and request has the shape the code gives it.                   *)
TypeOK ==
    /\ order \in OrderRow
    /\ refund \in [Refunds -> RefundRow]
    /\ create \in [Creators -> {"idle", "checked"}]
    /\ review \in [Reviewers -> ReviewRow]
    /\ process \in [Processors -> ProcessRow]
    /\ closing \in {"idle", "read"}
    /\ payouts \in [Refunds -> Nat]
    /\ doubt \in [Refunds -> Nat]
    /\ faults \in Nat
    /\ overlapped \in BOOLEAN
    /\ revived \subseteq Refunds

KeptAmounts == [r \in Refunds |-> IF r \in revived THEN 0 ELSE OpenAmounts[r]]

(* The refunds that can still cost money never add up to more than was      *)
(* collected, whatever is retried, lost or rolled back: the budget          *)
(* get_total_refunded_for_order(include_open=True) gives a new refund.      *)
(* Left out are those that were settled and that a late review took back,   *)
(* whose amount the budget had already given away.                          *)
OpenFitsCollected == SumFunction(KeptAmounts) <= Collectible

(* Every payout of the gateway is the one a completed refund records, the   *)
(* one a request in flight is about to record, or one whose record was lost *)
(* on the way.  Without such a loss a refund is paid out once: that is what *)
(* the lock taken by ProcessRefundUseCase is for.  A late review that takes *)
(* the completion back is the one way around it.                            *)
PayoutsAccounted ==
    \A r \in Refunds \ revived :
        LET recorded == refund[r].status = "completed" /\ order.gateway
            inFlight == \E p \in Processors : process[p].refund = r /\ MoneyOut(p)
        IN payouts[r] = doubt[r] + (IF recorded \/ inFlight THEN 1 ELSE 0)

(* A completed or rejected refund stays what it is, as both are terminal in *)
(* VALID_REFUND_TRANSITIONS, unless a review that had read it before is     *)
(* saved after: no retry and no failing payout moves it.                    *)
SettledIsFinal ==
    [][\A r \in Refunds : refund[r].status \in {"completed", "rejected"} =>
            \/ refund'[r] = refund[r]
            \/ \E v \in Reviewers : review[v].refund = r /\ SaveReview(v)]_vars

(* An order that gave everything back is marked refunded, whatever request  *)
(* is still in flight, crashed or lost its version, unless two of its       *)
(* refunds were settled at the same time and neither saw the other          *)
(* (_update_order_payment_status sums without a lock).                      *)
UnmarkedNeedsOverlap ==
    \/ overlapped
    \/ CompletedTotal(NoRefund) < Total
    \/ order.data.payment = "refunded"

Budget == INSTANCE SpendingLimit WITH
    Claims <- Refunds,
    Limit <- Collectible,
    Sum <- SumFunction,
    claimed <- OpenAmounts,
    dropped <- {r \in Refunds : refund[r].status = "rejected"},
    settled <- {r \in Refunds : refund[r].status = "completed"}

(* The refunds of an order keep within what was collected in the sense of   *)
(* SpendingLimit: raised within what is left, dropped only by a rejection   *)
(* and before any completion, completed once and for good.  It holds until  *)
(* a review is saved over a settlement it has not seen.                     *)
ImplementsSpendingLimit ==
    /\ Budget!Init
    /\ [][revived' = {} => [Budget!Next]_(Budget!vars)]_vars

=============================================================================
