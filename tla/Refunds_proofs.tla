--------------------------- MODULE Refunds_proofs ---------------------------
(***************************************************************************)
(* Proofs about Refunds, for any number of refunds, requests, crashes and  *)
(* lost answers.  Until a review is saved over a settlement it has not     *)
(* seen, the refunds of an order implement SpendingLimit; those it was not *)
(* saved over add up to no more than was collected, and each payout of     *)
(* theirs is accounted for.  A settled refund is moved in no other way, and*)
(* an order that gave everything back is marked refunded unless two        *)
(* settlements overlapped.                                                 *)
(***************************************************************************)
EXTENDS Refunds, SumTheorems, TLAPS

(* A row exists from its creation on, with an amount within the order's.    *)
AmountsFit ==
    \A r \in Refunds :
        /\ refund[r].status = "none" => refund[r].amount = 0
        /\ refund[r].status # "none" => refund[r].amount \in 1..Collectible

(* A refund under review was created.                                       *)
ReviewsHold ==
    \A v \in Reviewers :
        /\ review[v].pc = "idle" <=> review[v].refund = NoRefund
        /\ review[v].pc # "idle" => refund[review[v].refund].status # "none"

(* A refund being processed is approved or failed in the eyes of everyone   *)
(* else, and its row lock is held once.                                     *)
LocksHold ==
    /\ \A p \in Processors :
        /\ process[p].pc = "idle" <=> process[p].refund = NoRefund
        /\ process[p].pc # "idle" =>
              refund[process[p].refund].status \in {"approved", "failed"}
    /\ \A p, q \in Processors :
        p # q /\ process[p].refund = process[q].refund =>
            process[p].refund = NoRefund

Inv == TypeOK /\ AmountsFit /\ ReviewsHold /\ LocksHold /\ PayoutsAccounted

-----------------------------------------------------------------------------
(* The initial state.                                                       *)

LEMMA InitInv == Init => Inv
  <1>. SUFFICES ASSUME Init PROVE Inv
    OBVIOUS
  <1>. USE RefundsAssumption DEF Init
  <1>1. TypeOK
    <2>1. IdleReview \in ReviewRow
      BY DEF IdleReview, ReviewRow, Decisions, RefundStatuses
    <2>2. IdleProcess \in ProcessRow
      BY DEF IdleProcess, ProcessRow, ProcessPcs, OrderData, PaymentStatuses,
             OrderStatuses, PaidData
    <2>3. order \in OrderRow
      BY DEF OrderRow, OrderData, PaymentStatuses, OrderStatuses, PaidData
    <2>4. [status |-> "none", amount |-> 0] \in RefundRow
      BY DEF RefundRow, RefundStatuses
    <2>. QED  BY <2>1, <2>2, <2>3, <2>4 DEF TypeOK
  <1>2. AmountsFit /\ ReviewsHold /\ LocksHold
    BY DEF AmountsFit, ReviewsHold, LocksHold, IdleReview, IdleProcess
  <1>3. PayoutsAccounted
    BY DEF PayoutsAccounted, MoneyOut, IdleProcess
  <1>. QED  BY <1>1, <1>2, <1>3 DEF Inv

(* Writing the order's row, and any row with those fields.                  *)
LEMMA RowWritten ==
    ASSUME NEW D, NEW G, NEW row \in [data : D, version : Nat, gateway : G],
           NEW data \in D, NEW next \in Nat
    PROVE  [row EXCEPT !.data = data, !.version = next]
             \in [data : D, version : Nat, gateway : G]
  OBVIOUS

LEMMA OrderRowWritten ==
    ASSUME NEW row \in OrderRow, NEW data \in OrderData
    PROVE  [row EXCEPT !.data = data, !.version = row.version + 1] \in OrderRow
  <1>1. row.version + 1 \in Nat
    BY DEF OrderRow
  <1>. QED  BY <1>1, RowWritten DEF OrderRow

LEMMA CheckOrderInv ==
    ASSUME Inv, NEW c \in Creators, CheckOrder(c)
    PROVE  Inv'
  <1>. USE RefundsAssumption DEF Inv, CheckOrder, is_refundable
  <1>1. TypeOK'
    BY DEF TypeOK
  <1>2. AmountsFit'
    BY DEF AmountsFit
  <1>3. ReviewsHold'
    BY DEF ReviewsHold
  <1>4. LocksHold'
    BY DEF LocksHold
  <1>5. PayoutsAccounted'
    BY DEF PayoutsAccounted, MoneyOut
  <1>. QED  BY <1>1, <1>2, <1>3, <1>4, <1>5

LEMMA CreateFailsInv ==
    ASSUME Inv, NEW c \in Creators, CreateFails(c)
    PROVE  Inv'
  <1>. USE RefundsAssumption DEF Inv, CreateFails
  <1>1. TypeOK'
    BY DEF TypeOK
  <1>2. AmountsFit'
    BY DEF AmountsFit
  <1>3. ReviewsHold'
    BY DEF ReviewsHold
  <1>4. LocksHold'
    BY DEF LocksHold
  <1>5. PayoutsAccounted'
    BY DEF PayoutsAccounted, MoneyOut
  <1>. QED  BY <1>1, <1>2, <1>3, <1>4, <1>5

LEMMA CreateRefundInv ==
    ASSUME Inv, NEW c \in Creators, NEW r \in Refunds, CreateRefund(c, r)
    PROVE  Inv'
  <1>. USE RefundsAssumption DEF Inv, CreateRefund
  <1>1. TypeOK'
    BY DEF TypeOK, RefundRow, RefundStatuses
  <1>2. AmountsFit'
    BY DEF AmountsFit, TypeOK, RefundRow, ReviewsHold, LocksHold, Decisions
  <1>3. ReviewsHold'
    BY DEF ReviewsHold, LocksHold, TypeOK, ReviewRow, RefundRow, IdleReview, RowFree
  <1>4. LocksHold'
    BY DEF LocksHold, ReviewsHold, TypeOK, ProcessRow, RefundRow, IdleProcess, RowFree
  <1>5. PayoutsAccounted'
    BY DEF PayoutsAccounted, MoneyOut, LocksHold, ReviewsHold, TypeOK, ProcessRow, RefundRow, IdleProcess, OrderRow, RowFree
  <1>. QED  BY <1>1, <1>2, <1>3, <1>4, <1>5

LEMMA ReadForReviewInv ==
    ASSUME Inv, NEW v \in Reviewers, NEW r \in Refunds, NEW d \in Decisions, ReadForReview(v, r, d)
    PROVE  Inv'
  <1>. USE RefundsAssumption DEF Inv, ReadForReview
  <1>1. TypeOK'
    BY DEF TypeOK, ReviewRow, RefundStatuses
  <1>2. AmountsFit'
    BY DEF AmountsFit
  <1>3. ReviewsHold'
    BY DEF ReviewsHold, LocksHold, TypeOK, ReviewRow, RefundRow, IdleReview, RowFree
  <1>4. LocksHold'
    BY DEF LocksHold
  <1>5. PayoutsAccounted'
    BY DEF PayoutsAccounted, MoneyOut
  <1>. QED  BY <1>1, <1>2, <1>3, <1>4, <1>5

LEMMA SaveReviewInv ==
    ASSUME Inv, NEW v \in Reviewers, SaveReview(v)
    PROVE  Inv'
  <1>. USE RefundsAssumption DEF Inv
  <1>. DEFINE mine == review[v].refund
              decision == review[v].decision
  <1>1. /\ mine \in Refunds /\ refund[mine].status # "none"
        /\ decision \in {"approved", "rejected"}
    BY DEF SaveReview, ReviewsHold, TypeOK, ReviewRow, Decisions
  <1>2. /\ \A r \in Refunds : r # mine => refund'[r] = refund[r]
        /\ refund'[mine].status = decision /\ refund'[mine].amount = refund[mine].amount
    BY <1>1 DEF SaveReview, TypeOK, RefundRow
  <1>3. TypeOK'
    <2>1. [refund[mine] EXCEPT !.status = decision] \in RefundRow
      BY <1>1 DEF TypeOK, RefundRow, RefundStatuses
    <2>2. refund' \in [Refunds -> RefundRow]
      BY <1>1, <2>1 DEF SaveReview, TypeOK
    <2>3. IdleReview \in ReviewRow
      BY DEF IdleReview, ReviewRow, Decisions
    <2>4. review' \in [Reviewers -> ReviewRow] /\ revived' \subseteq Refunds
      BY <1>1, <2>3 DEF SaveReview, TypeOK
    <2>. QED  BY <2>2, <2>4 DEF SaveReview, TypeOK
  <1>4. AmountsFit'
    BY <1>1, <1>2 DEF AmountsFit
  <1>5. ReviewsHold'
    <2>1. \A w \in Reviewers : review'[w] = IF w = v THEN IdleReview ELSE review[w]
      BY DEF SaveReview, TypeOK
    <2>2. \A w \in Reviewers : review[w].refund \in Refunds \cup {NoRefund}
      BY DEF TypeOK, ReviewRow
    <2>. QED  BY <1>1, <1>2, <2>1, <2>2 DEF ReviewsHold, IdleReview
  <1>6. LocksHold'
    <2>1. \A p \in Processors : process[p].refund \in Refunds \cup {NoRefund}
      BY DEF TypeOK, ProcessRow
    <2>2. \A p \in Processors : process[p].refund = mine => refund'[mine] = refund[mine]
      <3>. SUFFICES ASSUME NEW p \in Processors, process[p].refund = mine
                    PROVE  refund'[mine] = refund[mine]
        OBVIOUS
      <3>1. refund[mine].status = decision
        BY DEF SaveReview, RowFree
      <3>. QED  BY <1>1, <3>1 DEF SaveReview, TypeOK, RefundRow
    <2>3. process' = process
      BY DEF SaveReview
    <2>. QED  BY <1>2, <2>1, <2>2, <2>3 DEF LocksHold
  <1>7. PayoutsAccounted'
    <2>1. \A r \in Refunds \ revived' :
             refund'[r].status = "completed" <=> refund[r].status = "completed"
      BY <1>1, <1>2 DEF SaveReview, Revives
    <2>2. /\ revived \subseteq revived'
          /\ UNCHANGED <<order, process, payouts, doubt>>
      BY DEF SaveReview
    <2>. QED  BY <2>1, <2>2 DEF PayoutsAccounted, MoneyOut
  <1>. QED  BY <1>3, <1>4, <1>5, <1>6, <1>7

(* What the steps of a processing request share.                            *)

LEMMA PcTyped ==
    ASSUME NEW row \in ProcessRow, NEW c \in ProcessPcs
    PROVE  [row EXCEPT !.pc = c] \in ProcessRow
  BY DEF ProcessRow

LEMMA ClaimTyped ==
    ASSUME NEW row \in ProcessRow, NEW r \in Refunds
    PROVE  [row EXCEPT !.pc = "calling", !.refund = r] \in ProcessRow
  BY DEF ProcessRow, ProcessPcs

LEMMA CopyTyped ==
    ASSUME NEW row \in ProcessRow, NEW copy \in OrderData
    PROVE  [row EXCEPT !.pc = "marking", !.copy = copy] \in ProcessRow
  BY DEF ProcessRow, ProcessPcs

LEMMA BaseTyped ==
    ASSUME NEW row \in ProcessRow, NEW base \in [data : OrderData, version : Nat]
    PROVE  [row EXCEPT !.pc = "saving", !.base = base] \in ProcessRow
  BY DEF ProcessRow, ProcessPcs

(* No money moves, and no request changes hands: nothing to account for.    *)
LEMMA SameMoneyOut ==
    ASSUME PayoutsAccounted,
           UNCHANGED <<order, refund, payouts, doubt, revived>>,
           \A q \in Processors : /\ process'[q].refund = process[q].refund
                                 /\ MoneyOut(q)' <=> MoneyOut(q)
    PROVE  PayoutsAccounted'
  <1>1. \A r \in Refunds :
           (\E q \in Processors : process[q].refund = r /\ MoneyOut(q))'
             <=> \E q \in Processors : process[q].refund = r /\ MoneyOut(q)
    OBVIOUS
  <1>. QED  BY <1>1 DEF PayoutsAccounted

(* A request that is rolled back while the money is out leaves a doubt      *)
(* behind in its place.                                                     *)
LEMMA RollBackAccounted ==
    ASSUME Inv, NEW p \in Processors, process[p].pc # "idle", RollBack(p)
    PROVE  PayoutsAccounted'
  <1>. DEFINE mine == process[p].refund
  <1>1. /\ mine \in Refunds
        /\ refund[mine].status # "completed"
        /\ \A q \in Processors : q # p => process[q].refund # mine
    BY RefundsAssumption DEF Inv, LocksHold, TypeOK, ProcessRow
  <1>2. /\ process'[p].refund \notin Refunds
        /\ \A q \in Processors \ {p} : process'[q] = process[q]
    BY RefundsAssumption DEF Inv, TypeOK, RollBack, IdleProcess
  <1>3. /\ UNCHANGED <<order, refund, payouts, revived>>
        /\ \A r \in Refunds : doubt'[r] =
              IF r = mine /\ MoneyOut(p) THEN doubt[r] + 1 ELSE doubt[r]
    BY <1>1 DEF Inv, TypeOK, RollBack
  <1>4. doubt \in [Refunds -> Nat] /\ payouts \in [Refunds -> Nat] /\ PayoutsAccounted
    BY DEF Inv, TypeOK
  <1>. SUFFICES ASSUME NEW r \in Refunds \ revived
                PROVE  payouts'[r] = doubt'[r] +
                         (IF \/ refund'[r].status = "completed" /\ order'.gateway
                             \/ \E q \in Processors : process'[q].refund = r /\ MoneyOut(q)'
                          THEN 1 ELSE 0)
    BY <1>3 DEF PayoutsAccounted
  <1>5. CASE r = mine
    <2>1. ~ \E q \in Processors : process'[q].refund = r /\ MoneyOut(q)'
      BY <1>1, <1>2, <1>5
    <2>2. (\E q \in Processors : process[q].refund = r /\ MoneyOut(q)) <=> MoneyOut(p)
      BY <1>1, <1>5
    <2>3. payouts[r] = doubt[r] + (IF MoneyOut(p) THEN 1 ELSE 0)
      BY <1>1, <1>4, <1>5, <2>2 DEF PayoutsAccounted
    <2>. QED  BY <1>1, <1>3, <1>4, <1>5, <2>1, <2>3
  <1>6. CASE r # mine
    <2>1. (\E q \in Processors : process'[q].refund = r /\ MoneyOut(q)')
             <=> \E q \in Processors : process[q].refund = r /\ MoneyOut(q)
      BY <1>2, <1>3, <1>6 DEF MoneyOut
    <2>. QED  BY <1>3, <1>4, <1>6, <2>1 DEF PayoutsAccounted
  <1>. QED  BY <1>5, <1>6

LEMMA StartProcessingInv ==
    ASSUME Inv, NEW p \in Processors, NEW r \in Refunds, StartProcessing(p, r)
    PROVE  Inv'
  <1>. USE RefundsAssumption DEF Inv, StartProcessing
  <1>1. TypeOK'
    <2>1. [process[p] EXCEPT !.pc = "calling", !.refund = r] \in ProcessRow
      BY ClaimTyped DEF TypeOK
    <2>2. process' \in [Processors -> ProcessRow]
      BY <2>1 DEF TypeOK
    <2>. QED  BY <2>2 DEF TypeOK
  <1>2. AmountsFit'
    BY DEF AmountsFit
  <1>3. ReviewsHold'
    BY DEF ReviewsHold
  <1>4. LocksHold'
    BY DEF LocksHold, ReviewsHold, TypeOK, ProcessRow, RefundRow, IdleProcess, RowFree
  <1>5. PayoutsAccounted'
    BY DEF PayoutsAccounted, MoneyOut, LocksHold, ReviewsHold, TypeOK, ProcessRow, RefundRow, IdleProcess, OrderRow, RowFree
  <1>. QED  BY <1>1, <1>2, <1>3, <1>4, <1>5

LEMMA ProcessByHandInv ==
    ASSUME Inv, NEW p \in Processors, ProcessByHand(p)
    PROVE  Inv'
  <1>. USE RefundsAssumption DEF Inv, ProcessByHand
  <1>1. TypeOK'
    <2>1. [process[p] EXCEPT !.pc = "paid"] \in ProcessRow
      BY PcTyped DEF TypeOK, ProcessPcs
    <2>2. process' \in [Processors -> ProcessRow]
      BY <2>1 DEF TypeOK
    <2>. QED  BY <2>2 DEF TypeOK
  <1>2. AmountsFit'
    BY DEF AmountsFit
  <1>3. ReviewsHold'
    BY DEF ReviewsHold
  <1>4. LocksHold'
    BY DEF LocksHold, ReviewsHold, TypeOK, ProcessRow, RefundRow, IdleProcess, RowFree
  <1>5. PayoutsAccounted'
    BY DEF PayoutsAccounted, MoneyOut, LocksHold, ReviewsHold, TypeOK, ProcessRow, RefundRow, IdleProcess, OrderRow, RowFree
  <1>. QED  BY <1>1, <1>2, <1>3, <1>4, <1>5

LEMMA ProviderPaysInv ==
    ASSUME Inv, NEW p \in Processors, ProviderPays(p)
    PROVE  Inv'
  <1>. USE RefundsAssumption DEF Inv, ProviderPays
  <1>1. TypeOK'
    <2>1. [process[p] EXCEPT !.pc = "paid"] \in ProcessRow
      BY PcTyped DEF TypeOK, ProcessPcs
    <2>2. process' \in [Processors -> ProcessRow]
      BY <2>1 DEF TypeOK
    <2>3. process[p].refund \in Refunds
      BY DEF LocksHold, TypeOK, ProcessRow
    <2>4. payouts' \in [Refunds -> Nat]
      BY <2>3 DEF TypeOK
    <2>. QED  BY <2>2, <2>4 DEF TypeOK
  <1>2. AmountsFit'
    BY DEF AmountsFit
  <1>3. ReviewsHold'
    BY DEF ReviewsHold
  <1>4. LocksHold'
    BY DEF LocksHold, ReviewsHold, TypeOK, ProcessRow, RefundRow, IdleProcess, RowFree
  <1>5. PayoutsAccounted'
    <2>. DEFINE mine == process[p].refund
                out(r) == \E q \in Processors : process[q].refund = r /\ MoneyOut(q)
    <2>1. /\ mine \in Refunds
          /\ refund[mine].status # "completed"
          /\ \A q \in Processors : q # p => process[q].refund # mine
      BY DEF LocksHold, TypeOK, ProcessRow
    <2>2. /\ process'[p].refund = mine /\ ~ MoneyOut(p) /\ MoneyOut(p)'
          /\ \A q \in Processors \ {p} : process'[q] = process[q]
      BY DEF MoneyOut, TypeOK, ProcessRow
    <2>3. \A r \in Refunds : r = mine => out(r)' /\ ~ out(r)
      BY <2>1, <2>2
    <2>4. \A r \in Refunds \ {mine} : out(r)' <=> out(r)
      BY <2>2 DEF MoneyOut
    <2>5. mine \notin revived => payouts[mine] = doubt[mine]
      BY <2>1, <2>3 DEF PayoutsAccounted, TypeOK
    <2>6. /\ payouts' = [payouts EXCEPT ![mine] = @ + 1]
          /\ UNCHANGED <<refund, order, doubt, revived>>
          /\ payouts \in [Refunds -> Nat] /\ doubt \in [Refunds -> Nat]
      BY DEF TypeOK
    <2>7. ASSUME NEW r \in Refunds \ revived
          PROVE  payouts'[r] = doubt'[r] +
                   (IF (refund'[r].status = "completed" /\ order'.gateway) \/ out(r)'
                    THEN 1 ELSE 0)
      <3>. HIDE DEF mine, out, Inv, ProviderPays
      <3>1. CASE r = mine
        <4>1. payouts'[r] = payouts[r] + 1 /\ doubt'[r] = doubt[r] /\ doubt[r] \in Nat
          BY <2>6, <3>1
        <4>2. out(r)'
          BY <2>3, <3>1
        <4>. QED  BY <2>5, <3>1, <4>1, <4>2
      <3>2. CASE r # mine
        <4>1. payouts[r] = doubt[r] +
                   (IF (refund[r].status = "completed" /\ order.gateway) \/ out(r)
                    THEN 1 ELSE 0)
          BY DEF Inv, PayoutsAccounted, out
        <4>. QED  BY <2>4, <2>6, <3>2, <4>1
      <3>. QED  BY <3>1, <3>2
    <2>. QED  BY <2>6, <2>7 DEF PayoutsAccounted
  <1>. QED  BY <1>1, <1>2, <1>3, <1>4, <1>5

LEMMA AnswerLostInv ==
    ASSUME Inv, NEW p \in Processors, AnswerLost(p)
    PROVE  Inv'
  <1>. USE RefundsAssumption DEF Inv, AnswerLost
  <1>1. TypeOK'
    <2>1. [process[p] EXCEPT !.pc = "declined"] \in ProcessRow
      BY PcTyped DEF TypeOK, ProcessPcs
    <2>2. process' \in [Processors -> ProcessRow]
      BY <2>1 DEF TypeOK
    <2>3. process[p].refund \in Refunds
      BY DEF LocksHold, TypeOK, ProcessRow
    <2>4. payouts' \in [Refunds -> Nat]
      BY <2>3 DEF TypeOK
    <2>5. doubt' \in [Refunds -> Nat]
      BY <2>3 DEF TypeOK
    <2>. QED  BY <2>2, <2>4, <2>5 DEF TypeOK
  <1>2. AmountsFit'
    BY DEF AmountsFit
  <1>3. ReviewsHold'
    BY DEF ReviewsHold
  <1>4. LocksHold'
    BY DEF LocksHold, ReviewsHold, TypeOK, ProcessRow, RefundRow, IdleProcess, RowFree
  <1>5. PayoutsAccounted'
    <2>1. \A q \in Processors : /\ process'[q].refund = process[q].refund
                                /\ MoneyOut(q)' <=> MoneyOut(q)
      BY DEF MoneyOut, TypeOK, ProcessRow
    <2>2. \A r \in Refunds :
             (\E q \in Processors : process[q].refund = r /\ MoneyOut(q))'
               <=> \E q \in Processors : process[q].refund = r /\ MoneyOut(q)
      BY <2>1
    <2>3. \A r \in Refunds : \/ payouts'[r] = payouts[r] /\ doubt'[r] = doubt[r]
                             \/ payouts'[r] = payouts[r] + 1 /\ doubt'[r] = doubt[r] + 1
      BY DEF TypeOK
    <2>4. payouts \in [Refunds -> Nat] /\ doubt \in [Refunds -> Nat] /\ PayoutsAccounted
          /\ UNCHANGED <<order, refund, revived>>
      BY DEF TypeOK
    <2>. HIDE DEF Inv, AnswerLost
    <2>. QED  BY <2>2, <2>3, <2>4 DEF PayoutsAccounted
  <1>. QED  BY <1>1, <1>2, <1>3, <1>4, <1>5

LEMMA ProviderDeclinesInv ==
    ASSUME Inv, NEW p \in Processors, ProviderDeclines(p)
    PROVE  Inv'
  <1>. USE RefundsAssumption DEF Inv, ProviderDeclines
  <1>1. TypeOK'
    <2>1. [process[p] EXCEPT !.pc = "declined"] \in ProcessRow
      BY PcTyped DEF TypeOK, ProcessPcs
    <2>2. process' \in [Processors -> ProcessRow]
      BY <2>1 DEF TypeOK
    <2>. QED  BY <2>2 DEF TypeOK
  <1>2. AmountsFit'
    BY DEF AmountsFit
  <1>3. ReviewsHold'
    BY DEF ReviewsHold
  <1>4. LocksHold'
    BY DEF LocksHold, ReviewsHold, TypeOK, ProcessRow, RefundRow, IdleProcess, RowFree
  <1>5. PayoutsAccounted'
    <2>1. \A q \in Processors : /\ process'[q].refund = process[q].refund
                                /\ MoneyOut(q)' <=> MoneyOut(q)
      BY DEF MoneyOut, TypeOK, ProcessRow
    <2>. QED  BY <2>1, SameMoneyOut
  <1>. QED  BY <1>1, <1>2, <1>3, <1>4, <1>5

LEMMA RecordFailureInv ==
    ASSUME Inv, NEW p \in Processors, RecordFailure(p)
    PROVE  Inv'
  <1>. USE RefundsAssumption DEF Inv, RecordFailure
  <1>1. TypeOK'
    <2>1. process[p].refund \in Refunds
      BY DEF LocksHold, TypeOK, ProcessRow
    <2>2. [refund[process[p].refund] EXCEPT !.status = "failed"] \in RefundRow
      BY <2>1 DEF TypeOK, RefundRow, RefundStatuses
    <2>3. refund' \in [Refunds -> RefundRow]
      BY <2>1, <2>2 DEF TypeOK
    <2>4. IdleProcess \in ProcessRow
      BY DEF IdleProcess, ProcessRow, ProcessPcs, OrderData, PaymentStatuses,
             OrderStatuses, PaidData
    <2>5. process' \in [Processors -> ProcessRow]
      BY <2>4 DEF TypeOK
    <2>. QED  BY <2>3, <2>5 DEF TypeOK
  <1>2. AmountsFit'
    BY DEF AmountsFit, TypeOK, RefundRow, ReviewsHold, LocksHold, Decisions
  <1>3. ReviewsHold'
    BY DEF ReviewsHold, LocksHold, TypeOK, ReviewRow, RefundRow, IdleReview, RowFree
  <1>4. LocksHold'
    BY DEF LocksHold, ReviewsHold, TypeOK, ProcessRow, RefundRow, IdleProcess, RowFree
  <1>5. PayoutsAccounted'
    <2>1. process[p].refund \in Refunds
             /\ refund[process[p].refund].status # "completed"
      BY DEF LocksHold, TypeOK, ProcessRow
    <2>2. \A r \in Refunds :
             refund'[r].status = "completed" <=> refund[r].status = "completed"
      BY <2>1 DEF TypeOK
    <2>3. \A r \in Refunds :
             (\E q \in Processors : process[q].refund = r /\ MoneyOut(q))'
               <=> \E q \in Processors : process[q].refund = r /\ MoneyOut(q)
      BY DEF MoneyOut, LocksHold, TypeOK, ProcessRow, IdleProcess
    <2>. QED  BY <2>2, <2>3 DEF PayoutsAccounted
  <1>. QED  BY <1>1, <1>2, <1>3, <1>4, <1>5

LEMMA MarkOrderInv ==
    ASSUME Inv, NEW p \in Processors, MarkOrder(p)
    PROVE  Inv'
  <1>. USE RefundsAssumption DEF Inv, MarkOrder
  <1>1. TypeOK'
    <2>. DEFINE mark == IF CompletedTotal(process[p].refund) >= Total
                        THEN "refunded" ELSE "partially_refunded"
    <2>1. [order.data EXCEPT !.payment = mark] \in OrderData
      BY DEF TypeOK, OrderRow, OrderData, PaymentStatuses
    <2>2. [process[p] EXCEPT !.pc = "marking",
                             !.copy = [order.data EXCEPT !.payment = mark]]
             \in ProcessRow
      BY <2>1, CopyTyped DEF TypeOK
    <2>3. process' \in [Processors -> ProcessRow]
      BY <2>2 DEF TypeOK
    <2>. QED  BY <2>3 DEF TypeOK
  <1>2. AmountsFit'
    BY DEF AmountsFit
  <1>3. ReviewsHold'
    BY DEF ReviewsHold
  <1>4. LocksHold'
    BY DEF LocksHold, ReviewsHold, TypeOK, ProcessRow, RefundRow, IdleProcess, RowFree
  <1>5. PayoutsAccounted'
    <2>1. \A q \in Processors : /\ process'[q].refund = process[q].refund
                                /\ MoneyOut(q)' <=> MoneyOut(q)
      BY DEF MoneyOut, TypeOK, ProcessRow
    <2>. QED  BY <2>1, SameMoneyOut
  <1>. QED  BY <1>1, <1>2, <1>3, <1>4, <1>5

LEMMA LoadOrderInv ==
    ASSUME Inv, NEW p \in Processors, LoadOrder(p)
    PROVE  Inv'
  <1>. USE RefundsAssumption DEF Inv, LoadOrder
  <1>1. TypeOK'
    <2>. DEFINE base == [data |-> order.data, version |-> order.version]
    <2>1. base \in [data : OrderData, version : Nat]
      BY DEF TypeOK, OrderRow
    <2>. HIDE DEF base
    <2>2. [process[p] EXCEPT !.pc = "saving", !.base = base] \in ProcessRow
      BY <2>1, BaseTyped DEF TypeOK
    <2>3. process' \in [Processors -> ProcessRow]
      BY <2>2 DEF TypeOK, base
    <2>. QED  BY <2>3 DEF TypeOK
  <1>2. AmountsFit'
    BY DEF AmountsFit
  <1>3. ReviewsHold'
    BY DEF ReviewsHold
  <1>4. LocksHold'
    BY DEF LocksHold, ReviewsHold, TypeOK, ProcessRow, RefundRow, IdleProcess, RowFree
  <1>5. PayoutsAccounted'
    <2>1. \A q \in Processors : /\ process'[q].refund = process[q].refund
                                /\ MoneyOut(q)' <=> MoneyOut(q)
      BY DEF MoneyOut, TypeOK, ProcessRow
    <2>. QED  BY <2>1, SameMoneyOut
  <1>. QED  BY <1>1, <1>2, <1>3, <1>4, <1>5

LEMMA CompleteRefundInv ==
    ASSUME Inv, NEW p \in Processors, CompleteRefund(p)
    PROVE  Inv'
  <1>. USE RefundsAssumption DEF Inv, CompleteRefund, Conflict, Unchanged
  <1>1. TypeOK'
    <2>1. process[p].refund \in Refunds
      BY DEF LocksHold, TypeOK, ProcessRow
    <2>2. [refund[process[p].refund] EXCEPT !.status = "completed"] \in RefundRow
      BY <2>1 DEF TypeOK, RefundRow, RefundStatuses
    <2>3. refund' \in [Refunds -> RefundRow]
      BY <2>1, <2>2 DEF TypeOK
    <2>4. IdleProcess \in ProcessRow
      BY DEF IdleProcess, ProcessRow, ProcessPcs, OrderData, PaymentStatuses,
             OrderStatuses, PaidData
    <2>5. process' \in [Processors -> ProcessRow]
      BY <2>4 DEF TypeOK
    <2>6. process[p].copy \in OrderData
      BY DEF TypeOK, ProcessRow
    <2>7. order' \in OrderRow
      BY <2>6, OrderRowWritten DEF TypeOK
    <2>. QED  BY <2>3, <2>5, <2>7 DEF TypeOK
  <1>2. AmountsFit'
    BY DEF AmountsFit, TypeOK, RefundRow, ReviewsHold, LocksHold, Decisions
  <1>3. ReviewsHold'
    BY DEF ReviewsHold, LocksHold, TypeOK, ReviewRow, RefundRow, IdleReview, RowFree
  <1>4. LocksHold'
    BY DEF LocksHold, ReviewsHold, TypeOK, ProcessRow, RefundRow, IdleProcess, RowFree
  <1>5. PayoutsAccounted'
    BY DEF PayoutsAccounted, MoneyOut, LocksHold, ReviewsHold, TypeOK, ProcessRow, RefundRow, IdleProcess, OrderRow, RowFree
  <1>. QED  BY <1>1, <1>2, <1>3, <1>4, <1>5

LEMMA VersionConflictInv ==
    ASSUME Inv, NEW p \in Processors, VersionConflict(p)
    PROVE  Inv'
  <1>. USE RefundsAssumption DEF Inv, VersionConflict, RollBack, Conflict, Unchanged
  <1>1. TypeOK'
    BY DEF TypeOK, OrderRow, OrderData, PaymentStatuses, OrderStatuses,
           RefundRow, RefundStatuses, ReviewRow, Decisions, IdleReview,
           ProcessRow, ProcessPcs, IdleProcess, PaidData, ReviewsHold, LocksHold
  <1>2. AmountsFit'
    BY DEF AmountsFit
  <1>3. ReviewsHold'
    BY DEF ReviewsHold
  <1>4. LocksHold'
    BY DEF LocksHold, ReviewsHold, TypeOK, ProcessRow, RefundRow, IdleProcess, RowFree
  <1>5. PayoutsAccounted'
    BY RollBackAccounted
  <1>. QED  BY <1>1, <1>2, <1>3, <1>4, <1>5

LEMMA ProcessCrashesInv ==
    ASSUME Inv, NEW p \in Processors, ProcessCrashes(p)
    PROVE  Inv'
  <1>. USE RefundsAssumption DEF Inv, ProcessCrashes, RollBack, MoneyOut
  <1>1. TypeOK'
    BY DEF TypeOK, OrderRow, OrderData, PaymentStatuses, OrderStatuses,
           RefundRow, RefundStatuses, ReviewRow, Decisions, IdleReview,
           ProcessRow, ProcessPcs, IdleProcess, PaidData, ReviewsHold, LocksHold
  <1>2. AmountsFit'
    BY DEF AmountsFit
  <1>3. ReviewsHold'
    BY DEF ReviewsHold
  <1>4. LocksHold'
    BY DEF LocksHold, ReviewsHold, TypeOK, ProcessRow, RefundRow, IdleProcess, RowFree
  <1>5. PayoutsAccounted'
    BY RollBackAccounted
  <1>. QED  BY <1>1, <1>2, <1>3, <1>4, <1>5

LEMMA ReadToCloseInv ==
    ASSUME Inv, ReadToClose
    PROVE  Inv'
  <1>. USE RefundsAssumption DEF Inv, ReadToClose, can_be_refunded
  <1>1. TypeOK'
    BY DEF TypeOK
  <1>2. AmountsFit'
    BY DEF AmountsFit
  <1>3. ReviewsHold'
    BY DEF ReviewsHold
  <1>4. LocksHold'
    BY DEF LocksHold
  <1>5. PayoutsAccounted'
    BY DEF PayoutsAccounted, MoneyOut
  <1>. QED  BY <1>1, <1>2, <1>3, <1>4, <1>5

LEMMA CloseOrderInv ==
    ASSUME Inv, CloseOrder
    PROVE  Inv'
  <1>. USE RefundsAssumption DEF Inv, CloseOrder
  <1>1. TypeOK'
    <2>. DEFINE data == [payment |-> "refunded", status |-> "refunded"]
    <2>1. data \in OrderData
      BY DEF OrderData, PaymentStatuses, OrderStatuses
    <2>. HIDE DEF data
    <2>2. order' \in OrderRow
      BY <2>1, OrderRowWritten DEF TypeOK, data
    <2>. QED  BY <2>2 DEF TypeOK
  <1>2. AmountsFit'
    BY DEF AmountsFit
  <1>3. ReviewsHold'
    BY DEF ReviewsHold
  <1>4. LocksHold'
    BY DEF LocksHold
  <1>5. PayoutsAccounted'
    BY DEF PayoutsAccounted, MoneyOut, TypeOK, OrderRow
  <1>. QED  BY <1>1, <1>2, <1>3, <1>4, <1>5


LEMMA StepInv ==
    ASSUME Inv, [Next]_vars
    PROVE  Inv'
  <1>1. CASE CreateStep
    BY <1>1, CheckOrderInv, CreateFailsInv, CreateRefundInv DEF CreateStep
  <1>2. CASE ReviewStep
    BY <1>2, ReadForReviewInv, SaveReviewInv DEF ReviewStep
  <1>3. CASE ProcessStep
    BY <1>3, StartProcessingInv, ProcessByHandInv, ProviderPaysInv,
       AnswerLostInv, ProviderDeclinesInv, RecordFailureInv, MarkOrderInv,
       LoadOrderInv, CompleteRefundInv, VersionConflictInv, ProcessCrashesInv
       DEF ProcessStep
  <1>4. CASE ReadToClose
    BY <1>4, ReadToCloseInv
  <1>5. CASE CloseOrder
    BY <1>5, CloseOrderInv
  <1>6. CASE UNCHANGED vars
    BY <1>6 DEF vars, Inv, TypeOK, AmountsFit, ReviewsHold, LocksHold,
                PayoutsAccounted, MoneyOut
  <1>. QED  BY <1>1, <1>2, <1>3, <1>4, <1>5, <1>6 DEF Next

-----------------------------------------------------------------------------
(* What is reachable.                                                       *)

LEMMA Reachable == Spec => []Inv
  <1>1. Inv /\ [Next]_vars => Inv'
    BY StepInv
  <1>. QED  BY <1>1, InitInv, PTL DEF Spec

(* Every row and request keeps its shape.                                   *)
THEOREM TypeCorrect == Spec => []TypeOK
  <1>1. Inv => TypeOK
    BY DEF Inv
  <1>. QED  BY <1>1, Reachable, PTL

(* Every payout of the gateway is recorded by a completed refund, about to  *)
(* be, or one whose record a lost answer or a rollback took away: without   *)
(* such a loss no refund is ever paid out twice.                            *)
THEOREM PayoutsAreAccounted == Spec => []PayoutsAccounted
  <1>1. Inv => PayoutsAccounted
    BY DEF Inv
  <1>. QED  BY <1>1, Reachable, PTL

-----------------------------------------------------------------------------
(* The refinement: what a step of Refunds is to the budget.                 *)

(* Creating a refund raises its claim.                                      *)
LEMMA CreateRaises ==
    ASSUME Inv, NEW c \in Creators, NEW r \in Refunds, CreateRefund(c, r)
    PROVE  Budget!Next
  <1>1. PICK amount \in 1..Collectible :
           /\ FitsBudget(amount)
           /\ refund' = [refund EXCEPT ![r] =
                            [status |-> "requested", amount |-> amount]]
    BY DEF CreateRefund
  <1>2. refund[r].status = "none"
    BY DEF CreateRefund
  <1>3. OpenTotal + amount <= Collectible
    BY <1>1, RefundsAssumption DEF FitsBudget
  <1>4. OpenAmounts' = [OpenAmounts EXCEPT ![r] = amount]
    BY <1>1, <1>2 DEF OpenAmounts, Standing, Inv, TypeOK
  <1>5. OpenAmounts[r] = 0
    BY <1>2 DEF OpenAmounts, Standing
  <1>6. UNCHANGED {q \in Refunds : refund[q].status = "rejected"}
    BY <1>1, <1>2 DEF Inv, TypeOK
  <1>7. UNCHANGED {q \in Refunds : refund[q].status = "completed"}
    BY <1>1, <1>2 DEF Inv, TypeOK
  <1>8. SumFunction(OpenAmounts) + amount <= Collectible
    BY <1>3 DEF OpenTotal
  <1>9. amount > 0 /\ r \notin {q \in Refunds : refund[q].status = "rejected"}
    BY <1>2, RefundsAssumption
  <1>10. Budget!Raise(r, amount)
    BY <1>4, <1>5, <1>6, <1>7, <1>8, <1>9 DEF Budget!Raise
  <1>. QED  BY <1>10 DEF Budget!Next

(* A status that changes neither to nor from "none", "rejected" and          *)
(* "completed" is not seen by the budget.                                   *)
LEMMA StatusStutters ==
    ASSUME Inv, NEW r \in Refunds, NEW s,
           refund[r].status \notin {"none", "rejected", "completed"},
           s \notin {"none", "rejected", "completed"},
           refund' = [refund EXCEPT ![r].status = s]
    PROVE  UNCHANGED Budget!vars
  <1>1. \A q \in Refunds :
           /\ refund'[q].amount = refund[q].amount
           /\ \/ refund'[q].status = refund[q].status
              \/ q = r /\ refund'[q].status = s
    <2>1. refund \in [Refunds -> RefundRow]
      BY DEF Inv, TypeOK
    <2>2. ASSUME NEW q \in Refunds, q # r
          PROVE  refund'[q] = refund[q]
      BY <2>1, <2>2
    <2>3. refund'[r] = [refund[r] EXCEPT !.status = s]
      BY <2>1
    <2>4. refund'[r].amount = refund[r].amount /\ refund'[r].status = s
      BY <2>1, <2>3 DEF RefundRow
    <2>. QED  BY <2>2, <2>4
  <1>2. UNCHANGED OpenAmounts
    BY <1>1 DEF OpenAmounts, Standing
  <1>3. UNCHANGED {q \in Refunds : refund[q].status = "rejected"}
    BY <1>1
  <1>4. UNCHANGED {q \in Refunds : refund[q].status = "completed"}
    BY <1>1
  <1>. QED  BY <1>2, <1>3, <1>4 DEF Budget!vars

LEMMA DropIsStep ==
    ASSUME NEW r \in Refunds, Budget!Drop(r)
    PROVE  Budget!Next
  BY DEF Budget!Next

LEMMA SettleIsStep ==
    ASSUME NEW r \in Refunds, Budget!Settle(r)
    PROVE  Budget!Next
  BY DEF Budget!Next

(* Rejecting a refund drops its claim; approving it changes no claim.  The  *)
(* review finds it undecided, approved or failed, or as it leaves it.       *)
LEMMA ReviewDrops ==
    ASSUME Inv, NEW v \in Reviewers, SaveReview(v), revived' = {}
    PROVE  Budget!Next \/ UNCHANGED Budget!vars
  <1>0. PICK r \in Refunds : r = review[v].refund
    BY DEF SaveReview, Inv, ReviewsHold, TypeOK, ReviewRow
  <1>1. /\ refund[r].status # "none" /\ ~Revives(v)
        /\ review[v].decision \in {"approved", "rejected"}
    BY <1>0 DEF SaveReview, Inv, ReviewsHold, TypeOK, ReviewRow, Decisions
  <1>2. refund' = [refund EXCEPT ![r].status = review[v].decision]
    BY <1>0 DEF SaveReview
  <1>3. CASE refund[r].status = review[v].decision
    <2>1. refund' = refund
      BY <1>2, <1>3 DEF Inv, TypeOK, RefundRow
    <2>. QED  BY <2>1 DEF Budget!vars, OpenAmounts, Standing
  <1>4. ASSUME refund[r].status # review[v].decision
        PROVE  refund[r].status \notin {"none", "rejected", "completed"}
    BY <1>0, <1>1, <1>4 DEF Revives
  <1>5. CASE refund[r].status # review[v].decision /\ review[v].decision = "approved"
    BY <1>2, <1>4, <1>5, StatusStutters
  <1>6. CASE refund[r].status # review[v].decision /\ review[v].decision = "rejected"
    <2>1. refund[r].amount > 0 /\ refund[r].amount \in Nat
      BY <1>1 DEF Inv, AmountsFit, TypeOK, RefundRow
    <2>2. \A q \in Refunds : q # r => refund'[q] = refund[q]
      BY <1>2 DEF Inv, TypeOK
    <2>3. refund'[r].status = "rejected"
      BY <1>1, <1>2, <1>6 DEF Inv, TypeOK, RefundRow
    <2>4. OpenAmounts[r] > 0
      BY <1>4, <1>6, <2>1 DEF OpenAmounts, Standing
    <2>5. OpenAmounts' = [OpenAmounts EXCEPT ![r] = 0]
      BY <1>1, <2>2, <2>3 DEF OpenAmounts, Standing
    <2>6. {q \in Refunds : refund[q].status = "rejected"}'
            = {q \in Refunds : refund[q].status = "rejected"} \cup {r}
      BY <1>1, <2>2, <2>3
    <2>7. UNCHANGED {q \in Refunds : refund[q].status = "completed"}
      BY <1>4, <1>6, <2>2, <2>3
    <2>8. r \notin {q \in Refunds : refund[q].status = "completed"}
      BY <1>4, <1>6
    <2>9. Budget!Drop(r)
      BY <2>4, <2>5, <2>6, <2>7, <2>8 DEF Budget!Drop
    <2>. QED  BY <2>9, DropIsStep
  <1>. QED  BY <1>1, <1>3, <1>5, <1>6

(* Completing a refund settles its claim.                                   *)
LEMMA CompletionSettles ==
    ASSUME Inv, NEW p \in Processors, CompleteRefund(p)
    PROVE  Budget!Next
  <1>0. PICK r \in Refunds : r = process[p].refund
    BY DEF CompleteRefund, Inv, LocksHold, TypeOK, ProcessRow
  <1>1. r \in Refunds /\ refund[r].status \in {"approved", "failed"}
    BY <1>0 DEF CompleteRefund, Inv, LocksHold, TypeOK, ProcessRow
  <1>2. refund' = [refund EXCEPT ![r].status = "completed"]
    BY <1>0 DEF CompleteRefund
  <1>3. refund[r].amount > 0 /\ refund[r].amount \in Nat
    BY <1>1 DEF Inv, AmountsFit, TypeOK, RefundRow
  <1>4. \A q \in Refunds : q # r => refund'[q] = refund[q]
    BY <1>2 DEF Inv, TypeOK
  <1>5. refund'[r].status = "completed" /\ refund'[r].amount = refund[r].amount
    BY <1>1, <1>2 DEF Inv, TypeOK, RefundRow
  <1>6. OpenAmounts[r] > 0
    BY <1>1, <1>3 DEF OpenAmounts, Standing
  <1>7. UNCHANGED OpenAmounts
    BY <1>1, <1>4, <1>5 DEF OpenAmounts, Standing
  <1>8. UNCHANGED {q \in Refunds : refund[q].status = "rejected"}
    BY <1>1, <1>4, <1>5
  <1>9. {q \in Refunds : refund[q].status = "completed"}'
          = {q \in Refunds : refund[q].status = "completed"} \cup {r}
    BY <1>1, <1>4, <1>5
  <1>10. Budget!Settle(r)
    BY <1>1, <1>6, <1>7, <1>8, <1>9 DEF Budget!Settle
  <1>. QED  BY <1>1, <1>10, SettleIsStep

LEMMA FailureStutters ==
    ASSUME Inv, NEW p \in Processors, RecordFailure(p)
    PROVE  UNCHANGED Budget!vars
  <1>0. PICK r \in Refunds : r = process[p].refund
    BY DEF RecordFailure, Inv, LocksHold, TypeOK, ProcessRow
  <1>1. r \in Refunds /\ refund[r].status \in {"approved", "failed"}
    BY <1>0 DEF RecordFailure, Inv, LocksHold, TypeOK, ProcessRow
  <1>2. refund' = [refund EXCEPT ![r].status = "failed"]
    BY <1>0 DEF RecordFailure
  <1>3. refund[r].status \notin {"none", "rejected", "completed"}
    BY <1>1
  <1>4. "failed" \notin {"none", "rejected", "completed"}
    OBVIOUS
  <1>. QED  BY <1>1, <1>2, <1>3, <1>4, StatusStutters

LEMMA OtherStutters ==
    ASSUME UNCHANGED refund
    PROVE  UNCHANGED Budget!vars
  BY DEF Budget!vars, OpenAmounts, Standing

LEMMA StepRefines ==
    ASSUME Inv, [Next]_vars, revived' = {}
    PROVE  [Budget!Next]_(Budget!vars)
  <1>1. CASE CreateStep
    <2>1. ASSUME NEW c \in Creators, CheckOrder(c) \/ CreateFails(c)
          PROVE  UNCHANGED refund
      BY <2>1 DEF CheckOrder, CreateFails
    <2>. QED  BY <1>1, <2>1, CreateRaises, OtherStutters DEF CreateStep
  <1>2. CASE ReviewStep
    <2>1. ASSUME NEW v \in Reviewers, NEW r \in Refunds, NEW d \in Decisions,
                 ReadForReview(v, r, d)
          PROVE  UNCHANGED refund
      BY <2>1 DEF ReadForReview
    <2>. QED  BY <1>2, <2>1, ReviewDrops, OtherStutters DEF ReviewStep
  <1>3. CASE ProcessStep
    <2>1. ASSUME NEW p \in Processors,
                 \/ ProcessByHand(p) \/ ProviderPays(p) \/ AnswerLost(p)
                 \/ ProviderDeclines(p) \/ MarkOrder(p) \/ LoadOrder(p)
                 \/ VersionConflict(p) \/ ProcessCrashes(p)
                 \/ \E r \in Refunds : StartProcessing(p, r)
          PROVE  UNCHANGED refund
      BY <2>1 DEF ProcessByHand, ProviderPays, AnswerLost, ProviderDeclines,
         MarkOrder, LoadOrder, VersionConflict, ProcessCrashes, RollBack,
         StartProcessing
    <2>. QED  BY <1>3, <2>1, CompletionSettles, FailureStutters, OtherStutters
              DEF ProcessStep
  <1>4. CASE ReadToClose \/ CloseOrder \/ UNCHANGED vars
    BY <1>4, OtherStutters DEF ReadToClose, CloseOrder, vars
  <1>. QED  BY <1>1, <1>2, <1>3, <1>4 DEF Next

LEMMA InitRefines == Init => Budget!Init
  BY DEF Init, Budget!Init, OpenAmounts, Standing

(* Whatever is retried, lost or rolled back, the refunds of an order keep   *)
(* within what was collected: each is raised within what is left, dropped   *)
(* only by a rejection, and completed once and for good - until a review is *)
(* saved over a settlement it has not seen.                                 *)
THEOREM RefundsAreBudgeted == Spec => ImplementsSpendingLimit
  <1>1. Inv /\ [Next]_vars => [revived' = {} => [Budget!Next]_(Budget!vars)]_vars
    BY StepRefines
  <1>. QED  BY <1>1, InitRefines, Reachable, PTL DEF Spec, ImplementsSpendingLimit

-----------------------------------------------------------------------------
(* The sum of the amounts: a new refund fits what all the others leave, and *)
(* every other step lets the amount of a refund that was not revived stand  *)
(* or fall away.                                                            *)

LEMMA OpenAmountsType ==
    ASSUME TypeOK
    PROVE  /\ OpenAmounts \in [Refunds -> Nat]
           /\ OpenTotal = SumFunctionOnSet(OpenAmounts, Refunds)
           /\ OpenTotal \in Int
  <1>1. OpenAmounts \in [Refunds -> Nat]
    BY DEF OpenAmounts, TypeOK, RefundRow
  <1>2. DOMAIN OpenAmounts = Refunds
    BY DEF OpenAmounts
  <1>3. OpenTotal = SumFunctionOnSet(OpenAmounts, Refunds)
    BY <1>2 DEF OpenTotal, SumFunction
  <1>4. \A r \in Refunds : OpenAmounts[r] \in Int
    BY <1>1
  <1>5. SumFunctionOnSet(OpenAmounts, Refunds) \in Int
    BY <1>4, RefundsAssumption, SumInt
  <1>. QED  BY <1>1, <1>3, <1>5

(* Setting the claim of one refund moves the sum by the difference.         *)
LEMMA ClaimMovesSum ==
    ASSUME TypeOK, NEW r \in Refunds, NEW amount \in Nat,
           OpenAmounts' = [OpenAmounts EXCEPT ![r] = amount]
    PROVE  OpenTotal' = OpenTotal - OpenAmounts[r] + amount
  <1>1. OpenAmounts \in [Refunds -> Nat] /\ OpenTotal = SumFunctionOnSet(OpenAmounts, Refunds)
    BY OpenAmountsType
  <1>. DEFINE f == OpenAmounts
              g == OpenAmounts'
  <1>2. /\ \A q \in Refunds : f[q] \in Int /\ g[q] \in Int
        /\ \A q \in Refunds \ {r} : g[q] = f[q]
        /\ g[r] = amount /\ DOMAIN g = Refunds
    BY <1>1
  <1>3. OpenTotal' = SumFunctionOnSet(g, Refunds)
    BY <1>2 DEF OpenTotal, SumFunction
  <1>. HIDE DEF f, g
  <1>4. SumFunctionOnSet(g, Refunds) = SumFunctionOnSet(f, Refunds) - f[r] + g[r]
    BY <1>2, RefundsAssumption, SumUpdate
  <1>. QED  BY <1>1, <1>2, <1>3, <1>4 DEF f

LEMMA KeptType ==
    ASSUME TypeOK
    PROVE  /\ KeptAmounts \in [Refunds -> Nat]
           /\ SumFunction(KeptAmounts) = SumFunctionOnSet(KeptAmounts, Refunds)
           /\ SumFunction(KeptAmounts) \in Int
           /\ SumFunction(KeptAmounts) <= OpenTotal
  <1>1. OpenAmounts \in [Refunds -> Nat] /\ OpenTotal = SumFunctionOnSet(OpenAmounts, Refunds)
    BY OpenAmountsType
  <1>2. KeptAmounts \in [Refunds -> Nat] /\ DOMAIN KeptAmounts = Refunds
    BY <1>1 DEF KeptAmounts
  <1>3. SumFunction(KeptAmounts) = SumFunctionOnSet(KeptAmounts, Refunds)
    BY <1>2 DEF SumFunction
  <1>4. \A r \in Refunds : /\ KeptAmounts[r] \in Int /\ OpenAmounts[r] \in Int
                           /\ KeptAmounts[r] <= OpenAmounts[r]
    BY <1>1 DEF KeptAmounts
  <1>5. SumFunctionOnSet(KeptAmounts, Refunds) \in Int
    BY <1>4, RefundsAssumption, SumInt
  <1>6. SumFunctionOnSet(KeptAmounts, Refunds) <= SumFunctionOnSet(OpenAmounts, Refunds)
    BY <1>4, RefundsAssumption, SumMonotone
  <1>. QED  BY <1>1, <1>2, <1>3, <1>5, <1>6

LEMMA KeptShrinks ==
    ASSUME TypeOK, TypeOK', OpenFitsCollected,
           \A r \in Refunds : KeptAmounts'[r] <= KeptAmounts[r]
    PROVE  OpenFitsCollected'
  <1>. DEFINE f == KeptAmounts
              g == KeptAmounts'
  <1>1. /\ SumFunction(f) = SumFunctionOnSet(f, Refunds) /\ SumFunction(f) \in Int
        /\ \A r \in Refunds : f[r] \in Int
    BY KeptType
  <1>2. KeptAmounts' \in [Refunds -> Nat]
    <2>1. \A r \in Refunds : refund'[r].amount \in Nat
      BY DEF TypeOK, RefundRow
    <2>. QED  BY <2>1 DEF KeptAmounts, OpenAmounts
  <1>3. SumFunction(g) = SumFunctionOnSet(g, Refunds) /\ \A r \in Refunds : g[r] \in Int
    BY <1>2 DEF SumFunction
  <1>4. \A r \in Refunds : g[r] <= f[r]
    OBVIOUS
  <1>5. SumFunction(f) <= Collectible
    BY DEF OpenFitsCollected
  <1>6. OpenFitsCollected' <=> SumFunction(g) <= Collectible
    BY DEF OpenFitsCollected
  <1>. HIDE DEF f, g
  <1>7. SumFunctionOnSet(g, Refunds) <= SumFunctionOnSet(f, Refunds)
    BY <1>1, <1>3, <1>4, RefundsAssumption, SumMonotone
  <1>8. SumFunctionOnSet(g, Refunds) \in Int
    BY <1>3, RefundsAssumption, SumInt
  <1>. QED  BY <1>1, <1>3, <1>5, <1>6, <1>7, <1>8, RefundsAssumption

(* The new refund and all that are open fit, so those not revived do.       *)
LEMMA CreateFits ==
    ASSUME Inv, TypeOK', NEW c \in Creators, NEW r \in Refunds, CreateRefund(c, r)
    PROVE  OpenFitsCollected'
  <1>1. PICK amount \in 1..Collectible :
           /\ FitsBudget(amount)
           /\ refund' = [refund EXCEPT ![r] =
                            [status |-> "requested", amount |-> amount]]
    BY DEF CreateRefund
  <1>2. refund[r].status = "none" /\ amount \in Nat /\ TypeOK
    BY RefundsAssumption DEF CreateRefund, Inv
  <1>3. OpenTotal + amount <= Collectible /\ OpenTotal \in Int
    BY <1>1, <1>2, RefundsAssumption, OpenAmountsType DEF FitsBudget
  <1>4. OpenAmounts' = [OpenAmounts EXCEPT ![r] = amount] /\ OpenAmounts[r] = 0
    BY <1>1, <1>2 DEF OpenAmounts, Standing, TypeOK
  <1>5. OpenTotal' = OpenTotal - OpenAmounts[r] + amount
    BY <1>2, <1>4, ClaimMovesSum
  <1>6. OpenTotal' <= Collectible /\ OpenTotal' \in Int
    BY <1>2, <1>3, <1>4, <1>5
  <1>7. SumFunction(KeptAmounts)' \in Int /\ SumFunction(KeptAmounts)' <= OpenTotal'
    <2>. DEFINE g == KeptAmounts'
                h == OpenAmounts'
    <2>1. \A q \in Refunds : refund'[q].amount \in Nat
      BY DEF TypeOK, RefundRow
    <2>2. DOMAIN g = Refunds /\ DOMAIN h = Refunds
      BY DEF KeptAmounts, OpenAmounts
    <2>3. \A q \in Refunds : g[q] \in Int /\ h[q] \in Int /\ g[q] <= h[q]
      BY <2>1 DEF KeptAmounts, OpenAmounts
    <2>4. /\ SumFunction(KeptAmounts)' = SumFunctionOnSet(g, Refunds)
          /\ OpenTotal' = SumFunctionOnSet(h, Refunds)
      BY <2>2 DEF OpenTotal, SumFunction
    <2>. HIDE DEF g, h
    <2>5. SumFunctionOnSet(g, Refunds) \in Int
      BY <2>3, RefundsAssumption, SumInt
    <2>6. SumFunctionOnSet(g, Refunds) <= SumFunctionOnSet(h, Refunds)
      BY <2>3, RefundsAssumption, SumMonotone
    <2>. QED  BY <2>4, <2>5, <2>6
  <1>8. OpenFitsCollected' <=> SumFunction(KeptAmounts)' <= Collectible
    BY DEF OpenFitsCollected
  <1>. QED  BY <1>6, <1>7, <1>8, RefundsAssumption

(* A decision, a failure or a completion puts no amount back.               *)
LEMMA StatusShrinks ==
    ASSUME Inv, NEW r \in Refunds, NEW s,
           refund' = [refund EXCEPT ![r].status = s],
           revived \subseteq revived',
           \/ r \in revived'
           \/ s = refund[r].status
           \/ refund[r].status \notin {"none", "rejected"}
    PROVE  \A q \in Refunds : KeptAmounts'[q] <= KeptAmounts[q]
  <1>1. /\ refund'[r].amount = refund[r].amount /\ refund'[r].status = s
        /\ \A q \in Refunds : q # r => refund'[q] = refund[q]
        /\ \A q \in Refunds : refund[q].amount \in Nat
    BY DEF Inv, TypeOK, RefundRow
  <1>. QED  BY <1>1 DEF KeptAmounts, OpenAmounts, Standing

LEMMA OpenNext ==
    ASSUME Inv, OpenFitsCollected, [Next]_vars
    PROVE  OpenFitsCollected'
  <1>0. TypeOK /\ TypeOK'
    BY StepInv DEF Inv
  <1>1. ASSUME NEW c \in Creators, NEW r \in Refunds, CreateRefund(c, r)
        PROVE  OpenFitsCollected'
    BY <1>0, <1>1, CreateFits
  <1>2. ASSUME NEW v \in Reviewers, SaveReview(v)
        PROVE  OpenFitsCollected'
    <2>1. PICK r \in Refunds : r = review[v].refund
      BY <1>2 DEF SaveReview, Inv, ReviewsHold, TypeOK, ReviewRow
    <2>2. /\ refund' = [refund EXCEPT ![r].status = review[v].decision]
          /\ revived \subseteq revived'
          /\ Revives(v) => r \in revived'
          /\ refund[r].status # "none"
      BY <1>2, <2>1 DEF SaveReview, Inv, ReviewsHold
    <2>3. \/ r \in revived'
          \/ review[v].decision = refund[r].status
          \/ refund[r].status \notin {"none", "rejected"}
      BY <2>1, <2>2 DEF Revives
    <2>4. \A q \in Refunds : KeptAmounts'[q] <= KeptAmounts[q]
      BY <2>2, <2>3, StatusShrinks
    <2>. QED  BY <1>0, <2>4, KeptShrinks
  <1>3. ASSUME NEW p \in Processors, RecordFailure(p) \/ CompleteRefund(p)
        PROVE  OpenFitsCollected'
    <2>1. PICK r \in Refunds : r = process[p].refund
      BY <1>3 DEF RecordFailure, CompleteRefund, Inv, LocksHold, TypeOK, ProcessRow
    <2>2. refund[r].status \in {"approved", "failed"}
      BY <1>3, <2>1 DEF RecordFailure, CompleteRefund, Inv, LocksHold
    <2>3. PICK s \in {"failed", "completed"} : refund' = [refund EXCEPT ![r].status = s]
      BY <1>3, <2>1 DEF RecordFailure, CompleteRefund
    <2>4. revived' = revived
      BY <1>3 DEF RecordFailure, CompleteRefund
    <2>5. \A q \in Refunds : KeptAmounts'[q] <= KeptAmounts[q]
      BY <2>2, <2>3, <2>4, StatusShrinks
    <2>. QED  BY <1>0, <2>5, KeptShrinks
  <1>4. CASE UNCHANGED <<refund, revived>>
    BY <1>4 DEF OpenFitsCollected, KeptAmounts, OpenAmounts, Standing
  <1>5. CASE UNCHANGED vars
    BY <1>4, <1>5 DEF vars
  <1>. QED  BY <1>1, <1>2, <1>3, <1>4, <1>5 DEF Next, CreateStep, ReviewStep, ProcessStep,
         CheckOrder, CreateFails, ReadForReview, StartProcessing, ProcessByHand,
         ProviderPays, AnswerLost, ProviderDeclines, MarkOrder, LoadOrder,
         VersionConflict, ProcessCrashes, RollBack, ReadToClose, CloseOrder

(* The refunds that can still cost money never add up to more than was      *)
(* collected for the order, whatever is created, retried, lost or rolled    *)
(* back at the same time; the exceptions are those a late review took back  *)
(* after they were settled.                                                 *)
THEOREM OpenIsCollected == Spec => []OpenFitsCollected
  <1>1. Init => OpenFitsCollected
    <2>. SUFFICES ASSUME Init PROVE OpenFitsCollected
      OBVIOUS
    <2>1. TypeOK
      BY InitInv DEF Inv
    <2>2. \A r \in Refunds : KeptAmounts[r] = 0
      BY DEF Init, KeptAmounts, OpenAmounts, Standing
    <2>3. SumFunctionOnSet(KeptAmounts, Refunds) = 0
      BY <2>2, RefundsAssumption, SumZero
    <2>4. SumFunction(KeptAmounts) = 0
      BY <2>1, <2>3, KeptType
    <2>. QED  BY <2>4, RefundsAssumption DEF OpenFitsCollected
  <1>2. Inv /\ OpenFitsCollected /\ [Next]_vars => OpenFitsCollected'
    BY OpenNext
  <1>. QED  BY <1>1, <1>2, Reachable, PTL DEF Spec

-----------------------------------------------------------------------------
(* The order's mark.  As long as no two settlements overlapped, at most one *)
(* request is between its sum and its commit, nothing else completes while  *)
(* it is, so the mark it carries is the one its completion calls for; and   *)
(* when update() finds the mark already on the row it loaded, it still is   *)
(* on the order.                                                            *)

Completed(rows, own) ==
    SumFunction([r \in Refunds |->
        IF rows[r].status = "completed" \/ r = own THEN rows[r].amount ELSE 0])

OneSettles == \A p, q \in Processors : Settling(p) /\ Settling(q) => p = q

CopiesMarked ==
    \A p \in Processors :
        Settling(p) /\ Completed(refund, process[p].refund) >= Total =>
            process[p].copy.payment = "refunded"

BasesKept ==
    \A p \in Processors :
        process[p].pc = "saving" /\ process[p].base.data.payment = "refunded" =>
            order.data.payment = "refunded"

OrderMarked == Completed(refund, NoRefund) >= Total => order.data.payment = "refunded"

MarkInv == OneSettles /\ CopiesMarked /\ BasesKept /\ OrderMarked

LEMMA CompletedType ==
    ASSUME NEW rows \in [Refunds -> RefundRow], NEW own
    PROVE  Completed(rows, own) \in Int
  <1>. DEFINE f == [r \in Refunds |->
                IF rows[r].status = "completed" \/ r = own THEN rows[r].amount ELSE 0]
  <1>1. \A r \in Refunds : f[r] \in Int
    BY DEF RefundRow
  <1>2. DOMAIN f = Refunds
    OBVIOUS
  <1>. HIDE DEF f
  <1>3. SumFunction(f) \in Int
    BY <1>1, <1>2, RefundsAssumption, SumInt DEF SumFunction
  <1>. QED  BY <1>3 DEF Completed, f

(* Rows that are neither completed nor one's own do not count.              *)
LEMMA CompletedSame ==
    ASSUME NEW rows, NEW next, NEW own,
           \A r \in Refunds :
              \/ next[r] = rows[r]
              \/ /\ next[r].amount = rows[r].amount
                 /\ next[r].status = "completed" <=> rows[r].status = "completed"
              \/ /\ r # own
                 /\ next[r].status # "completed" /\ rows[r].status # "completed"
    PROVE  Completed(next, own) = Completed(rows, own)
  <1>1. [r \in Refunds |->
            IF next[r].status = "completed" \/ r = own THEN next[r].amount ELSE 0]
        = [r \in Refunds |->
            IF rows[r].status = "completed" \/ r = own THEN rows[r].amount ELSE 0]
    OBVIOUS
  <1>. QED  BY <1>1 DEF Completed

(* The commit of a completed refund makes it count for everyone.            *)
LEMMA CompletedCommits ==
    ASSUME NEW rows \in [Refunds -> RefundRow], NEW own \in Refunds
    PROVE  Completed([rows EXCEPT ![own].status = "completed"], NoRefund)
             = Completed(rows, own)
  <1>. DEFINE next == [rows EXCEPT ![own].status = "completed"]
  <1>1. \A r \in Refunds : r # own => next[r] = rows[r]
    OBVIOUS
  <1>2. next[own].status = "completed" /\ next[own].amount = rows[own].amount
    BY DEF RefundRow
  <1>. HIDE DEF next
  <1>3. \A r \in Refunds : r # NoRefund
    BY RefundsAssumption
  <1>4. [r \in Refunds |->
            IF next[r].status = "completed" \/ r = NoRefund THEN next[r].amount ELSE 0]
        = [r \in Refunds |->
            IF rows[r].status = "completed" \/ r = own THEN rows[r].amount ELSE 0]
    BY <1>1, <1>2, <1>3
  <1>. QED  BY <1>4 DEF Completed, next

(* Taking completions back lowers the sum.                                  *)
LEMMA CompletedLess ==
    ASSUME NEW rows \in [Refunds -> RefundRow], NEW next \in [Refunds -> RefundRow],
           NEW own,
           \A r \in Refunds :
              /\ next[r].amount = rows[r].amount
              /\ next[r].status = "completed" => rows[r].status = "completed"
    PROVE  Completed(next, own) >= Total => Completed(rows, own) >= Total
  <1>. DEFINE f == [r \in Refunds |->
                IF next[r].status = "completed" \/ r = own THEN next[r].amount ELSE 0]
              g == [r \in Refunds |->
                IF rows[r].status = "completed" \/ r = own THEN rows[r].amount ELSE 0]
  <1>1. \A r \in Refunds : f[r] \in Int /\ g[r] \in Int /\ f[r] <= g[r]
    BY DEF RefundRow
  <1>2. DOMAIN f = Refunds /\ DOMAIN g = Refunds
    OBVIOUS
  <1>3. Completed(next, own) = SumFunction(f) /\ Completed(rows, own) = SumFunction(g)
    BY DEF Completed
  <1>. HIDE DEF f, g
  <1>4. SumFunction(f) <= SumFunction(g)
    BY <1>1, <1>2, RefundsAssumption, SumMonotone DEF SumFunction
  <1>5. Completed(next, own) \in Int /\ Completed(rows, own) \in Int
    BY CompletedType
  <1>. QED  BY <1>3, <1>4, <1>5, RefundsAssumption

(* A step in which no request enters or moves within settling, no refund    *)
(* completes (one may be taken back), and the order's mark stays or becomes "refunded".             *)
LEMMA MarkKept ==
    ASSUME MarkInv,
           \A p \in Processors : Settling(p)' => process'[p] = process[p],
           Completed(refund', NoRefund) >= Total => Completed(refund, NoRefund) >= Total,
           \A p \in Processors :
              Settling(p) /\ Completed(refund', process[p].refund) >= Total =>
                 Completed(refund, process[p].refund) >= Total,
           order'.data.payment \in {order.data.payment, "refunded"}
    PROVE  MarkInv'
  <1>1. \A p \in Processors : Settling(p)' => Settling(p)
    BY DEF Settling
  <1>2. OneSettles'
    BY <1>1 DEF MarkInv, OneSettles
  <1>3. CopiesMarked'
    BY <1>1 DEF MarkInv, CopiesMarked
  <1>4. BasesKept'
    BY DEF MarkInv, BasesKept, Settling
  <1>5. OrderMarked'
    BY DEF MarkInv, OrderMarked
  <1>. QED  BY <1>2, <1>3, <1>4, <1>5 DEF MarkInv

(* The sum is taken: nobody else is settling, or the overlap is on record.  *)
LEMMA MarkOrderMarks ==
    ASSUME Inv, MarkInv, NEW p \in Processors, MarkOrder(p), ~overlapped'
    PROVE  MarkInv'
  <1>1. \A q \in Processors \ {p} : ~Settling(q)
    BY DEF MarkOrder
  <1>2. /\ \A q \in Processors \ {p} : process'[q] = process[q]
        /\ process'[p].pc = "marking" /\ process'[p].refund = process[p].refund
        /\ refund' = refund /\ order' = order
    BY DEF MarkOrder, Inv, TypeOK, ProcessRow
  <1>3. \A q \in Processors : Settling(q)' => q = p
    BY <1>1, <1>2 DEF Settling
  <1>4. Completed(refund, process[p].refund) >= Total => process'[p].copy.payment = "refunded"
    <2>. DEFINE mark == IF CompletedTotal(process[p].refund) >= Total
                        THEN "refunded" ELSE "partially_refunded"
    <2>1. process'[p].copy = [order.data EXCEPT !.payment = mark]
      BY DEF MarkOrder, Inv, TypeOK, ProcessRow
    <2>2. process'[p].copy.payment = mark
      <3>. HIDE DEF mark
      <3>. QED  BY <2>1 DEF Inv, TypeOK, OrderRow, OrderData
    <2>3. CompletedTotal(process[p].refund) = Completed(refund, process[p].refund)
      BY DEF CompletedTotal, Completed
    <2>. QED  BY <2>2, <2>3
  <1>5. OneSettles'
    BY <1>3 DEF OneSettles
  <1>6. CopiesMarked'
    BY <1>2, <1>3, <1>4 DEF CopiesMarked
  <1>7. BasesKept'
    BY <1>2, <1>3 DEF BasesKept, Settling
  <1>8. OrderMarked'
    BY <1>2 DEF MarkInv, OrderMarked
  <1>. QED  BY <1>5, <1>6, <1>7, <1>8 DEF MarkInv

(* The row update() loads is the order's.                                   *)
LEMMA LoadOrderMarks ==
    ASSUME Inv, MarkInv, NEW p \in Processors, LoadOrder(p)
    PROVE  MarkInv'
  <1>1. /\ \A q \in Processors \ {p} : process'[q] = process[q]
        /\ process'[p].pc = "saving" /\ process'[p].refund = process[p].refund
        /\ process'[p].copy = process[p].copy /\ process'[p].base.data = order.data
        /\ refund' = refund /\ order' = order
    BY DEF LoadOrder, Inv, TypeOK, ProcessRow
  <1>2. Settling(p) /\ \A q \in Processors : Settling(q)' => Settling(q)
    BY <1>1 DEF LoadOrder, Settling
  <1>3. OneSettles'
    BY <1>2 DEF MarkInv, OneSettles
  <1>4. CopiesMarked'
    BY <1>1, <1>2 DEF MarkInv, CopiesMarked
  <1>5. BasesKept'
    BY <1>1 DEF MarkInv, BasesKept
  <1>6. OrderMarked'
    BY <1>1 DEF MarkInv, OrderMarked
  <1>. QED  BY <1>3, <1>4, <1>5, <1>6 DEF MarkInv

(* The commit: the order ends with the mark the completed refunds call for. *)
LEMMA CompleteRefundMarks ==
    ASSUME Inv, MarkInv, NEW p \in Processors, CompleteRefund(p)
    PROVE  MarkInv'
  <1>1. Settling(p) /\ process[p].refund \in Refunds
    BY RefundsAssumption DEF CompleteRefund, Settling, Inv, LocksHold, TypeOK, ProcessRow
  <1>2. process'[p].pc = "idle" /\ \A q \in Processors \ {p} : process'[q] = process[q]
    BY DEF CompleteRefund, Inv, TypeOK, IdleProcess
  <1>3. \A q \in Processors : ~Settling(q)'
    BY <1>1, <1>2 DEF MarkInv, OneSettles, Settling
  <1>4. Completed(refund', NoRefund) = Completed(refund, process[p].refund)
    BY <1>1, CompletedCommits DEF CompleteRefund, Inv, TypeOK
  <1>5. ASSUME Completed(refund, process[p].refund) >= Total
        PROVE  order'.data.payment = "refunded"
    <2>1. process[p].copy.payment = "refunded"
      BY <1>1, <1>5 DEF MarkInv, CopiesMarked
    <2>2. CASE Unchanged(p)
      <3>1. process[p].base.data.payment = "refunded"
        BY <2>1, <2>2 DEF Unchanged
      <3>2. order' = order /\ process[p].pc = "saving"
        BY <2>2 DEF CompleteRefund
      <3>. QED  BY <3>1, <3>2 DEF MarkInv, BasesKept
    <2>3. CASE ~Unchanged(p)
      <3>1. order'.data = process[p].copy
        BY <2>3 DEF CompleteRefund, Inv, TypeOK, OrderRow
      <3>. QED  BY <2>1, <3>1
    <2>. QED  BY <2>2, <2>3
  <1>6. OneSettles' /\ CopiesMarked'
    BY <1>3 DEF OneSettles, CopiesMarked
  <1>7. BasesKept'
    BY <1>3 DEF BasesKept, Settling
  <1>8. OrderMarked'
    BY <1>4, <1>5 DEF OrderMarked
  <1>. QED  BY <1>6, <1>7, <1>8 DEF MarkInv

(* Creating, reviewing and failing a refund completes none, and changes     *)
(* none that is being settled.                                              *)
LEMMA RowStepKeepsMark ==
    ASSUME Inv, MarkInv,
           \/ \E c \in Creators, r \in Refunds : CreateRefund(c, r)
           \/ \E v \in Reviewers : SaveReview(v)
           \/ \E p \in Processors : RecordFailure(p)
    PROVE  MarkInv'
  <1>. USE DEF Inv
  <1>1. \A p \in Processors : Settling(p) =>
           /\ process[p].refund \in Refunds
           /\ refund[process[p].refund].status \in {"approved", "failed"}
    BY RefundsAssumption DEF Settling, LocksHold, TypeOK, ProcessRow
  <1>2. ASSUME NEW c \in Creators, NEW r \in Refunds, CreateRefund(c, r)
        PROVE  MarkInv'
    <2>1. /\ refund[r].status = "none" /\ refund'[r].status = "requested"
          /\ \A q \in Refunds : q # r => refund'[q] = refund[q]
      BY <1>2 DEF CreateRefund, TypeOK
    <2>2. Completed(refund', NoRefund) = Completed(refund, NoRefund)
      BY <2>1, RefundsAssumption, CompletedSame
    <2>3. ASSUME NEW p \in Processors, Settling(p)
          PROVE  Completed(refund', process[p].refund) = Completed(refund, process[p].refund)
      <3>1. r # process[p].refund
        BY <1>1, <2>1, <2>3
      <3>. QED  BY <2>1, <3>1, CompletedSame
    <2>4. process' = process /\ order' = order
      BY <1>2 DEF CreateRefund
    <2>. QED  BY <2>2, <2>3, <2>4, MarkKept
  <1>3. ASSUME NEW v \in Reviewers, SaveReview(v)
        PROVE  MarkInv'
    <2>1. /\ review[v].refund \in Refunds
          /\ review[v].decision \in {"approved", "rejected"}
      BY <1>3 DEF SaveReview, ReviewsHold, TypeOK, ReviewRow, Decisions
    <2>2. /\ refund \in [Refunds -> RefundRow] /\ refund' \in [Refunds -> RefundRow]
          /\ \A q \in Refunds :
                /\ refund'[q].amount = refund[q].amount
                /\ refund'[q].status = "completed" => refund[q].status = "completed"
      BY <1>3, <2>1 DEF SaveReview, TypeOK, RefundRow, RefundStatuses
    <2>3. \A own : Completed(refund', own) >= Total => Completed(refund, own) >= Total
      BY <2>2, CompletedLess
    <2>4. process' = process /\ order' = order
      BY <1>3 DEF SaveReview
    <2>. QED  BY <2>3, <2>4, MarkKept
  <1>4. ASSUME NEW p \in Processors, RecordFailure(p)
        PROVE  MarkInv'
    <2>1. /\ process[p].refund \in Refunds
          /\ refund[process[p].refund].status \in {"approved", "failed"}
      BY <1>4, RefundsAssumption DEF RecordFailure, LocksHold, TypeOK, ProcessRow
    <2>2. \A q \in Refunds :
             /\ refund'[q].amount = refund[q].amount
             /\ refund'[q].status = "completed" <=> refund[q].status = "completed"
      BY <1>4, <2>1 DEF RecordFailure, TypeOK, RefundRow
    <2>3. \A own : Completed(refund', own) = Completed(refund, own)
      BY <2>2, CompletedSame
    <2>4. /\ order' = order /\ process'[p].pc = "idle"
          /\ \A q \in Processors \ {p} : process'[q] = process[q]
      BY <1>4 DEF RecordFailure, TypeOK, IdleProcess
    <2>5. \A q \in Processors : Settling(q)' => process'[q] = process[q]
      BY <2>4 DEF Settling
    <2>. QED  BY <2>3, <2>4, <2>5, MarkKept
  <1>. QED  BY <1>2, <1>3, <1>4

(* Every other step leaves the refunds and the requests that settle alone,  *)
(* or ends such a request; closing the order marks it.                      *)
LEMMA OtherStepKeepsMark ==
    ASSUME Inv, MarkInv, refund' = refund,
           \A q \in Processors : Settling(q)' => process'[q] = process[q],
           order' = order \/ CloseOrder
    PROVE  MarkInv'
  <1>1. CloseOrder => order'.data = [payment |-> "refunded", status |-> "refunded"]
    BY DEF CloseOrder, Inv, TypeOK, OrderRow
  <1>2. order'.data.payment \in {order.data.payment, "refunded"}
    BY <1>1
  <1>. QED  BY <1>2, MarkKept

LEMMA NextMark ==
    ASSUME Inv, overlapped \/ MarkInv, [Next]_vars, ~overlapped'
    PROVE  MarkInv'
  <1>1. MarkInv
    BY DEF Next, vars, CreateStep, ReviewStep, ProcessStep, CheckOrder, CreateFails,
           CreateRefund, ReadForReview, SaveReview, StartProcessing,
           ProcessByHand, ProviderPays, AnswerLost, ProviderDeclines, RecordFailure,
           MarkOrder, LoadOrder, CompleteRefund, VersionConflict, ProcessCrashes,
           RollBack, ReadToClose, CloseOrder
  <1>2. CASE CreateStep
    <2>1. ASSUME NEW c \in Creators, CheckOrder(c) \/ CreateFails(c)
          PROVE  UNCHANGED <<refund, process, order>>
      BY <2>1 DEF CheckOrder, CreateFails
    <2>. QED  BY <1>1, <1>2, <2>1, RowStepKeepsMark, OtherStepKeepsMark DEF CreateStep
  <1>3. CASE ReviewStep
    <2>1. ASSUME NEW v \in Reviewers,
                 \E r \in Refunds, d \in Decisions : ReadForReview(v, r, d)
          PROVE  UNCHANGED <<refund, process, order>>
      BY <2>1 DEF ReadForReview
    <2>. QED  BY <1>1, <1>3, <2>1, RowStepKeepsMark, OtherStepKeepsMark DEF ReviewStep
  <1>4. CASE ProcessStep
    <2>1. ASSUME NEW p \in Processors,
                 \/ ProcessByHand(p) \/ ProviderPays(p) \/ AnswerLost(p)
                 \/ ProviderDeclines(p) \/ VersionConflict(p) \/ ProcessCrashes(p)
                 \/ \E r \in Refunds : StartProcessing(p, r)
          PROVE  MarkInv'
      <3>1. refund' = refund /\ order' = order
        BY <2>1 DEF ProcessByHand, ProviderPays, AnswerLost, ProviderDeclines,
           VersionConflict, ProcessCrashes, RollBack, StartProcessing
      <3>2. /\ process'[p].pc \notin {"marking", "saving"}
            /\ \A q \in Processors \ {p} : process'[q] = process[q]
        <4>1. ASSUME NEW pc \in {"calling", "paid", "declined"},
                     process' = [process EXCEPT ![p].pc = pc]
              PROVE  process'[p].pc = pc /\ \A q \in Processors \ {p} : process'[q] = process[q]
          BY <4>1 DEF Inv, TypeOK, ProcessRow
        <4>2. ASSUME NEW r \in Refunds, StartProcessing(p, r)
              PROVE  process'[p].pc = "calling"
                       /\ \A q \in Processors \ {p} : process'[q] = process[q]
          BY <4>2 DEF StartProcessing, Inv, TypeOK, ProcessRow
        <4>3. ASSUME RollBack(p)
              PROVE  process'[p].pc = "idle"
                       /\ \A q \in Processors \ {p} : process'[q] = process[q]
          BY <4>3 DEF RollBack, Inv, TypeOK, IdleProcess
        <4>. QED  BY <2>1, <4>1, <4>2, <4>3 DEF ProcessByHand, ProviderPays, AnswerLost,
                  ProviderDeclines, VersionConflict, ProcessCrashes
      <3>3. \A q \in Processors : Settling(q)' => process'[q] = process[q]
        BY <3>2 DEF Settling
      <3>. QED  BY <1>1, <3>1, <3>3, OtherStepKeepsMark
    <2>. QED  BY <1>1, <1>4, <2>1, RowStepKeepsMark, MarkOrderMarks, LoadOrderMarks,
              CompleteRefundMarks DEF ProcessStep
  <1>5. CASE ReadToClose \/ CloseOrder \/ UNCHANGED vars
    <2>1. refund' = refund /\ process' = process /\ (order' = order \/ CloseOrder)
      BY <1>5 DEF ReadToClose, CloseOrder, vars
    <2>. QED  BY <1>1, <2>1, OtherStepKeepsMark
  <1>. QED  BY <1>2, <1>3, <1>4, <1>5 DEF Next

(* An order with a total to give back that gave all of it back is marked    *)
(* refunded, unless two of its settlements overlapped.                      *)
THEOREM UnmarkedIsOverlap ==
    ASSUME Total > 0
    PROVE  Spec => []UnmarkedNeedsOverlap
  <1>1. Init => overlapped \/ MarkInv
    <2>. SUFFICES ASSUME Init PROVE MarkInv
      OBVIOUS
    <2>. DEFINE f == [r \in Refunds |->
            IF refund[r].status = "completed" \/ r = NoRefund THEN refund[r].amount ELSE 0]
    <2>1. DOMAIN f = Refunds /\ \A r \in Refunds : f[r] = 0
      BY DEF Init
    <2>2. Completed(refund, NoRefund) = SumFunctionOnSet(f, DOMAIN f)
      BY DEF Completed, SumFunction
    <2>. HIDE DEF f
    <2>3. SumFunctionOnSet(f, DOMAIN f) = 0
      BY <2>1, RefundsAssumption, SumZero
    <2>4. OrderMarked
      BY <2>2, <2>3, RefundsAssumption DEF OrderMarked
    <2>5. \A p \in Processors : process[p].pc = "idle"
      BY DEF Init, IdleProcess
    <2>6. OneSettles /\ CopiesMarked /\ BasesKept
      BY <2>5 DEF OneSettles, CopiesMarked, BasesKept, Settling
    <2>. QED  BY <2>4, <2>6 DEF MarkInv
  <1>2. Inv /\ (overlapped \/ MarkInv) /\ [Next]_vars => (overlapped \/ MarkInv)'
    BY NextMark
  <1>3. Inv /\ (overlapped \/ MarkInv) => UnmarkedNeedsOverlap
    <2>. SUFFICES ASSUME Inv, MarkInv PROVE UnmarkedNeedsOverlap
      BY DEF UnmarkedNeedsOverlap
    <2>1. CompletedTotal(NoRefund) = Completed(refund, NoRefund)
      BY DEF CompletedTotal, Completed
    <2>2. Completed(refund, NoRefund) \in Int /\ Total \in Int
      BY CompletedType, RefundsAssumption DEF Inv, TypeOK
    <2>. QED  BY <2>1, <2>2 DEF MarkInv, OrderMarked, UnmarkedNeedsOverlap
  <1>. QED  BY <1>1, <1>2, <1>3, Reachable, PTL DEF Spec

-----------------------------------------------------------------------------
(* A completed or rejected refund stays what it is, as                      *)
(* VALID_REFUND_TRANSITIONS has it: no creation, no failing or repeated     *)
(* payout moves it, only a review of that refund that read it before.  A    *)
(* payout in flight holds a refund that is approved or failed, whatever is  *)
(* reviewed meanwhile.                                                      *)
THEOREM SettledForGood == Spec => SettledIsFinal
  <1>1. ASSUME Inv, Next, NEW r \in Refunds,
               refund[r].status \in {"completed", "rejected"}
        PROVE  \/ refund'[r] = refund[r]
               \/ \E v \in Reviewers : review[v].refund = r /\ SaveReview(v)
    <2>. USE <1>1 DEF Inv
    <2>1. ASSUME NEW c \in Creators, NEW q \in Refunds, CreateRefund(c, q)
          PROVE  refund'[r] = refund[r]
      BY <2>1 DEF CreateRefund, TypeOK
    <2>2. ASSUME NEW v \in Reviewers, SaveReview(v), review[v].refund # r
          PROVE  refund'[r] = refund[r]
      BY <2>2 DEF SaveReview, TypeOK
    <2>3. ASSUME NEW p \in Processors, RecordFailure(p) \/ CompleteRefund(p)
          PROVE  refund'[r] = refund[r]
      <3>1. refund[process[p].refund].status \in {"approved", "failed"}
        BY <2>3 DEF RecordFailure, CompleteRefund, LocksHold
      <3>. QED  BY <2>3, <3>1 DEF RecordFailure, CompleteRefund, TypeOK
    <2>4. CASE UNCHANGED refund
      BY <2>4
    <2>. QED  BY <2>1, <2>2, <2>3, <2>4 DEF Next, CreateStep, ReviewStep, ProcessStep,
           CheckOrder, CreateFails, ReadForReview, StartProcessing,
           ProcessByHand, ProviderPays, AnswerLost, ProviderDeclines, MarkOrder, LoadOrder,
           VersionConflict, ProcessCrashes, RollBack, ReadToClose, CloseOrder
  <1>2. Inv /\ [Next]_vars =>
          [\A r \in Refunds : refund[r].status \in {"completed", "rejected"} =>
              \/ refund'[r] = refund[r]
              \/ \E v \in Reviewers : review[v].refund = r /\ SaveReview(v)]_vars
    BY <1>1
  <1>. QED  BY <1>2, Reachable, PTL DEF Spec, SettledIsFinal

=============================================================================
