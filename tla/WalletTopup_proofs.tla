------------------------- MODULE WalletTopup_proofs -------------------------
(* Proofs about WalletTopup, for every value of its constants. *)
EXTENDS WalletTopup, SumTheorems, TLAPS

(* The ladder only moves within 0..3. *)
LEMMA BumpType ==
    ASSUME NEW w \in WalletRow
    PROVE  bump_warning_level(w) \in WalletRow
<1>1. warning_level_for(w.balance) \in 0..3
    BY WalletAssumption DEF warning_level_for, WalletRow
<1> QED
    BY <1>1 DEF bump_warning_level, WalletRow

(* Moving the hold keeps the row well formed; release is floored at zero. *)
LEMMA HoldType ==
    ASSUME NEW w \in WalletRow, NEW n \in Nat
    PROVE  /\ add_pending_hold(w, n) \in WalletRow
           /\ release_pending_hold(w, n) \in WalletRow
<1>1. w.hold \in Nat
    BY DEF WalletRow
<1>2. w.hold + n \in Nat
    BY <1>1
<1>3. (IF w.hold > n THEN w.hold - n ELSE 0) \in Nat
    BY <1>1
<1> QED
    BY <1>2, <1>3 DEF add_pending_hold, release_pending_hold, WalletRow

(* Every intent has a positive amount. *)
LEMMA AmountType == ASSUME NEW i \in Intents PROVE Amount[i] \in Nat /\ Amount[i] \in Int
    BY TopupAssumption

(* A credit leaves every row it touches well formed. *)
LEMMA CreditType ==
    ASSUME TypeOK, NEW i \in Intents, NEW key \in Keys, credit_topup_intent(i, key)
    PROVE  /\ intent' \in [Intents -> IntentStatus]
           /\ wallet' \in WalletRow
           /\ ledger' \subseteq LedgerRow
           /\ tenant' \in {"writable", "read_only"}
<1> DEFINE w == IF intent[i] = "under_review"
                THEN release_pending_hold(wallet, Amount[i]) ELSE wallet
<1>1. w \in WalletRow
    BY HoldType, AmountType DEF TypeOK
<1>2. [w EXCEPT !.balance = @ + Amount[i]] \in WalletRow
  <2>1. w.balance + Amount[i] \in Int
    BY <1>1, AmountType DEF WalletRow
  <2> QED
    BY <1>1, <2>1 DEF WalletRow
<1> HIDE DEF w
<1>3. bump_warning_level([w EXCEPT !.balance = @ + Amount[i]]) \in WalletRow
    BY <1>2, BumpType
<1>4. CASE intent[i] = "succeeded"
    BY <1>4 DEF credit_topup_intent, moneyVars, TypeOK
<1>5. CASE intent[i] # "succeeded"
  <2>1. apply_entry(w, i, key) /\ intent' = [intent EXCEPT ![i] = "succeeded"]
    BY <1>5 DEF credit_topup_intent, w
  <2>2. [key |-> key, intent |-> i] \in LedgerRow
    BY DEF LedgerRow
  <2> QED
    BY <1>1, <1>3, <2>1, <2>2 DEF apply_entry, TypeOK, IntentStatus
<1> QED
    BY <1>4, <1>5

(* Types are kept by the actions that create, expire and submit. *)
LEMMA TypeTopup ==
    ASSUME TypeOK,
           \/ \E i \in CardIntents : _create_card(i)
           \/ \E i \in ManualIntents : _create_manual(i)
           \/ \E i \in Intents : WindowCloses(i)
           \/ expire_wallet_topups
           \/ \E s \in Submitters, i \in ManualIntents, e \in Receipts :
                CheckSubmission(s, i, e)
           \/ \E s \in Submitters, approved \in BOOLEAN :
                EvaluateAutoApproval(s, approved)
           \/ \E s \in Submitters : SubmissionFails(s)
    PROVE  TypeOK'
<1> USE DEF topupVars, moneyVars, hookVars
<1>1. ASSUME NEW i \in CardIntents, _create_card(i) PROVE TypeOK'
    BY <1>1 DEF _create_card, TypeOK, Intents, IntentStatus
<1>2. ASSUME NEW i \in ManualIntents, _create_manual(i) PROVE TypeOK'
    BY <1>2 DEF _create_manual, TypeOK, Intents, IntentStatus
<1>3. ASSUME NEW i \in Intents, WindowCloses(i) PROVE TypeOK'
    BY <1>3 DEF WindowCloses, TypeOK
<1>4. ASSUME expire_wallet_topups PROVE TypeOK'
    BY <1>4 DEF expire_wallet_topups, TypeOK, IntentStatus
<1>5. ASSUME NEW s \in Submitters, NEW i \in ManualIntents, NEW e \in Receipts,
             CheckSubmission(s, i, e)
      PROVE  TypeOK'
    BY <1>5 DEF CheckSubmission, TypeOK, SubState
<1>6. ASSUME NEW s \in Submitters, NEW approved \in BOOLEAN,
             EvaluateAutoApproval(s, approved)
      PROVE  TypeOK'
  <2>1. sub[s] \in SubState /\ sub[s].pc = "checked"
    BY <1>6 DEF EvaluateAutoApproval, TypeOK
  <2>2. sub[s].intent \in ManualIntents /\ sub[s].receipt \in Receipts
    BY <2>1 DEF SubState, Idle
  <2>3. [pc |-> "decided", intent |-> sub[s].intent, receipt |-> sub[s].receipt,
         approved |-> approved] \in SubState
    BY <2>2 DEF SubState
  <2> QED
    BY <1>6, <2>3 DEF EvaluateAutoApproval, TypeOK
<1>7. ASSUME NEW s \in Submitters, SubmissionFails(s) PROVE TypeOK'
    BY <1>7 DEF SubmissionFails, TypeOK, SubState
<1> QED
    BY <1>1, <1>2, <1>3, <1>4, <1>5, <1>6, <1>7

(* Types are kept by the step that stores a receipt and credits or queues. *)
LEMMA TypeStoreProof ==
    ASSUME TypeOK, NEW s \in Submitters, StoreProof(s)
    PROVE  TypeOK'
<1> DEFINE i == sub[s].intent
           e == sub[s].receipt
<1>1. i \in ManualIntents /\ e \in Receipts
    BY DEF StoreProof, TypeOK, SubState, Idle
<1>2. i \in Intents /\ e \in Keys
    BY <1>1 DEF Intents, Keys
<1>3. proof' \in [Receipts -> {NoProof} \cup ProofRow]
  <2>1. [status |-> IF sub[s].approved THEN "auto_approved" ELSE "awaiting_review",
         intent |-> i] \in ProofRow
    BY <1>1 DEF ProofRow, ProofStatus
  <2> QED
    BY <2>1, <1>1 DEF StoreProof, TypeOK
<1>4. /\ intent' \in [Intents -> IntentStatus]
      /\ wallet' \in WalletRow
      /\ ledger' \subseteq LedgerRow
      /\ tenant' \in {"writable", "read_only"}
  <2>1. CASE sub[s].approved
    <3>1. credit_topup_intent(i, e)
        BY <2>1 DEF StoreProof
    <3> QED
        BY <1>2, <3>1, CreditType
  <2>2. CASE ~sub[s].approved
    <3>1. QueueForReview(i)
        BY <2>2 DEF StoreProof
    <3>2. wallet' \in WalletRow
        BY <1>2, <3>1, HoldType, AmountType DEF QueueForReview, TypeOK
    <3> QED
        BY <1>2, <3>1, <3>2 DEF QueueForReview, TypeOK, IntentStatus
  <2> QED
    BY <2>1, <2>2
<1>5. sub' \in [Submitters -> SubState]
    BY DEF StoreProof, TypeOK, SubState
<1> QED
    BY <1>3, <1>4, <1>5 DEF StoreProof, TypeOK, hookVars

(* A reviewer in flight looks at a receipt that is stored. *)
ReviewsStored == \A r \in Reviewers : rev[r] # Idle => proof[rev[r].receipt] \in ProofRow

(* A running callback is about a charge the gateway made. *)
HooksCharged == \A c \in Charges : hook[c] = "running" => charge[c] \in ChargeRow

(* Types are kept by the review steps. *)
LEMMA TypeReview ==
    ASSUME TypeOK, ReviewsStored, NEW r \in Reviewers,
           (\E e \in Receipts : LoadProof(r, e)) \/ approve(r) \/ reject(r) \/ ReviewFails(r)
    PROVE  TypeOK'
<1> USE DEF topupVars, moneyVars, hookVars
<1> DEFINE e == rev[r].receipt
           i == proof[e].intent
<1>1. ASSUME NEW f \in Receipts, LoadProof(r, f) PROVE TypeOK'
    BY <1>1 DEF LoadProof, TypeOK, RevState
<1>2. CASE ReviewFails(r)
    BY <1>2 DEF ReviewFails, TypeOK, RevState
<1>3. ASSUME rev[r].pc = "loaded"
      PROVE  /\ e \in Receipts /\ e \in Keys
             /\ i \in ManualIntents /\ i \in Intents
             /\ \A st \in ProofStatus :
                    [proof EXCEPT ![e].status = st] \in [Receipts -> {NoProof} \cup ProofRow]
  <2>1. e \in Receipts /\ rev[r] # Idle
    BY <1>3 DEF TypeOK, RevState, Idle
  <2>2. proof[e] \in ProofRow
    BY <2>1 DEF ReviewsStored
  <2>3. i \in ManualIntents
    BY <2>2 DEF ProofRow
  <2>4. \A st \in ProofStatus : [proof[e] EXCEPT !.status = st] \in ProofRow
    BY <2>2 DEF ProofRow
  <2> QED
    BY <2>1, <2>3, <2>4 DEF TypeOK, Keys, Intents
<1>4. CASE approve(r)
  <2>1. rev[r].pc = "loaded" /\ credit_topup_intent(i, e)
    BY <1>4 DEF approve
  <2>2. proof' \in [Receipts -> {NoProof} \cup ProofRow]
    BY <1>3, <1>4, <2>1 DEF approve, ProofStatus
  <2>3. /\ intent' \in [Intents -> IntentStatus]
        /\ wallet' \in WalletRow
        /\ ledger' \subseteq LedgerRow
        /\ tenant' \in {"writable", "read_only"}
    BY <1>3, <2>1, CreditType
  <2> QED
    BY <1>4, <2>2, <2>3 DEF approve, TypeOK, RevState
<1>5. CASE reject(r)
  <2>1. rev[r].pc = "loaded"
    BY <1>5 DEF reject
  <2>2. proof' \in [Receipts -> {NoProof} \cup ProofRow]
    BY <1>3, <1>5, <2>1 DEF reject, ProofStatus
  <2>3. wallet' \in WalletRow
    BY <1>3, <1>5, <2>1, HoldType, AmountType DEF reject, TypeOK
  <2>4. intent' \in [Intents -> IntentStatus]
    BY <1>3, <1>5, <2>1 DEF reject, TypeOK, IntentStatus
  <2> QED
    BY <1>5, <2>2, <2>3, <2>4 DEF reject, TypeOK, RevState
<1> QED
    BY <1>1, <1>2, <1>4, <1>5

(* Types are kept by the gateway and its callbacks. *)
LEMMA TypeCallback ==
    ASSUME TypeOK, HooksCharged, NEW c \in Charges,
           \/ \E i \in CardIntents, paid, exact \in BOOLEAN : GatewayCharges(c, i, paid, exact)
           \/ TakeNonce(c)
           \/ RejectDuplicate(c)
           \/ NonceRefused(c)
           \/ \E answered \in BOOLEAN : Settle(c, answered)
           \/ CallbackRaises(c)
           \/ WorkerCrashes(c)
           \/ NonceExpires(c)
    PROVE  TypeOK'
<1> USE DEF topupVars, moneyVars, hookVars
<1>1. ASSUME NEW i \in CardIntents, NEW paid \in BOOLEAN, NEW exact \in BOOLEAN,
             GatewayCharges(c, i, paid, exact)
      PROVE  TypeOK'
  <2>1. [made |-> TRUE, intent |-> i, paid |-> paid, exact |-> exact] \in ChargeRow
    BY DEF ChargeRow
  <2> QED
    BY <1>1, <2>1 DEF GatewayCharges, TypeOK
<1>2. CASE TakeNonce(c)
    BY <1>2 DEF TakeNonce, TypeOK
<1>3. CASE RejectDuplicate(c)
    BY <1>3 DEF RejectDuplicate, TypeOK
<1>4. ASSUME NEW answered \in BOOLEAN, Settle(c, answered) PROVE TypeOK'
  <2> DEFINE i == charge[c].intent
  <2>1. charge[c] \in ChargeRow
    BY <1>4 DEF Settle, HooksCharged
  <2>2. i \in Intents /\ c \in Keys
    BY <2>1 DEF ChargeRow, Intents, Keys
  <2>3. /\ intent' \in [Intents -> IntentStatus]
        /\ wallet' \in WalletRow
        /\ ledger' \subseteq LedgerRow
        /\ tenant' \in {"writable", "read_only"}
    <3>1. SettleSuccess(i, c) \/ SettleDecline(i)
        BY <1>4 DEF Settle
    <3>2. CASE SettleDecline(i)
        BY <3>2, <2>2 DEF SettleDecline, TypeOK, IntentStatus
    <3>3. CASE credit_topup_intent(i, c)
        BY <3>3, <2>2, CreditType
    <3>4. CASE UNCHANGED <<intent, moneyVars>>
        BY <3>4 DEF TypeOK
    <3> QED
        BY <3>1, <3>2, <3>3, <3>4 DEF SettleSuccess
  <2>4. acked' \in [Charges -> BOOLEAN]
    BY <1>4 DEF Settle, TypeOK
  <2>5. hook' \in [Charges -> {"idle", "running"}]
    BY <1>4 DEF Settle, TypeOK
  <2> QED
    BY <1>4, <2>3, <2>4, <2>5 DEF Settle, TypeOK
<1>5. CASE CallbackRaises(c)
  <2>1. faults' \in 0..MaxFaults
    BY <1>5, TopupAssumption DEF CallbackRaises, TypeOK
  <2> QED
    BY <1>5, <2>1 DEF CallbackRaises, TypeOK
<1>6. CASE WorkerCrashes(c)
  <2>1. crashes' \in 0..MaxCrashes
    BY <1>6, TopupAssumption DEF WorkerCrashes, TypeOK
  <2> QED
    BY <1>6, <2>1 DEF WorkerCrashes, TypeOK
<1>7. CASE NonceExpires(c)
    BY <1>7 DEF NonceExpires, TypeOK
<1>8. CASE NonceRefused(c)
  <2>1. crashes' \in 0..MaxCrashes
    BY <1>8, TopupAssumption DEF NonceRefused, TypeOK
  <2> QED
    BY <1>8, <2>1 DEF NonceRefused, TypeOK
<1> QED
    BY <1>1, <1>2, <1>3, <1>4, <1>5, <1>6, <1>7, <1>8

(* Types are kept by the administrator and the lapse of the plan. *)
LEMMA TypeAdmin ==
    ASSUME TypeOK, (\E st \in WalletStatus : update_wallet_config(st)) \/ TenantLapses
    PROVE  TypeOK'
<1> USE DEF topupVars, moneyVars, hookVars
<1>1. ASSUME NEW st \in WalletStatus, update_wallet_config(st) PROVE TypeOK'
  <2>1. wallet' \in WalletRow
    BY <1>1 DEF update_wallet_config, TypeOK, WalletRow
  <2>2. edits' \in 0..MaxConfigEdits
    BY <1>1, TopupAssumption DEF update_wallet_config, TypeOK
  <2> QED
    BY <1>1, <2>1, <2>2 DEF update_wallet_config, TypeOK
<1>2. CASE TenantLapses
    BY <1>2 DEF TenantLapses, TypeOK
<1> QED
    BY <1>1, <1>2

----------------------------------------------------------------------------
(* The inductive invariant.  SucceededIffCredited is not inductive alone: a *)
(* credit whose key is already on the ledger sets succeeded without a row.  *)
(* KeysOwned rules that out: the row of a key belongs to the intent the key *)
(* was made for, so a known key means an intent that already succeeded.     *)

KeysOwned ==
    \A row \in ledger :
        /\ row.key \in Receipts => /\ proof[row.key] \in ProofRow
                                  /\ proof[row.key].intent = row.intent
        /\ row.key \in Charges => /\ charge[row.key] \in ChargeRow
                                 /\ charge[row.key].intent = row.intent

IInv ==
    /\ TypeOK
    /\ ReviewsStored
    /\ HooksCharged
    /\ KeysOwned
    /\ SucceededIffCredited
    /\ CreditedOnce
    /\ ApprovedIsCredited

(* A credit under a key that is new, or already the intent's own, keeps the *)
(* ledger and the statuses in step and ends with the intent credited.       *)
LEMMA CreditKeepsLedger ==
    ASSUME TypeOK, SucceededIffCredited, CreditedOnce,
           NEW i \in Intents, NEW key \in Keys,
           \A row \in ledger : row.key = key => row.intent = i,
           credit_topup_intent(i, key)
    PROVE  /\ SucceededIffCredited'
           /\ CreditedOnce'
           /\ ledger \subseteq ledger'
           /\ \A row \in ledger' : row \in ledger \/ row = [key |-> key, intent |-> i]
           /\ \E row \in ledger' : row.intent = i
           /\ \A j \in Intents : intent[j] = "succeeded" => intent'[j] = "succeeded"
<1>1. CASE intent[i] = "succeeded"
    BY <1>1 DEF credit_topup_intent, moneyVars, SucceededIffCredited, CreditedOnce
<1>2. CASE intent[i] # "succeeded"
  <2>1. ~ \E row \in ledger : row.intent = i
    BY <1>2 DEF SucceededIffCredited
  <2>2. ~KeyApplied(key)
    BY <2>1 DEF KeyApplied
  <2>3. ledger' = ledger \cup {[key |-> key, intent |-> i]}
    BY <1>2, <2>2 DEF credit_topup_intent, apply_entry
  <2>4. intent' = [intent EXCEPT ![i] = "succeeded"]
    BY <1>2 DEF credit_topup_intent
  <2>5. CreditedOnce'
    BY <2>1, <2>3 DEF CreditedOnce
  <2>6. \E row \in ledger' : row.intent = i
    <3>1. [key |-> key, intent |-> i].intent = i
        OBVIOUS
    <3> QED
        BY <2>3, <3>1
  <2>7. \A j \in Intents : j # i =>
            ((\E row \in ledger' : row.intent = j) <=> (\E row \in ledger : row.intent = j))
    BY <2>3
  <2>8. SucceededIffCredited'
    <3> SUFFICES ASSUME NEW j \in Intents
                 PROVE  intent'[j] = "succeeded" <=> \E row \in ledger' : row.intent = j
        BY DEF SucceededIffCredited
    <3>1. CASE j = i
        BY <3>1, <2>4, <2>6 DEF TypeOK
    <3>2. CASE j # i
        BY <3>2, <2>4, <2>7 DEF TypeOK, SucceededIffCredited
    <3> QED
        BY <3>1, <3>2
  <2> QED
    BY <2>3, <2>4, <2>5, <2>6, <2>8 DEF TypeOK
<1> QED
    BY <1>1, <1>2

(* A step that writes no ledger row and moves no intent into or out of      *)
(* succeeded keeps both in step.                                            *)
LEMMA QuietKeepsLedger ==
    ASSUME SucceededIffCredited, CreditedOnce, ledger' = ledger,
           \A j \in Intents : intent'[j] = "succeeded" <=> intent[j] = "succeeded"
    PROVE  SucceededIffCredited' /\ CreditedOnce'
    BY DEF SucceededIffCredited, CreditedOnce

(* A step that leaves receipts, charges, callbacks and reviews as they are, *)
(* or only ends some of them, keeps the rest of the invariant.              *)
LEMMA QuietKeepsOwners ==
    ASSUME ReviewsStored, HooksCharged, KeysOwned, ApprovedIsCredited,
           ledger' = ledger, proof' = proof, charge' = charge,
           \A r \in Reviewers : rev'[r] = rev[r] \/ rev'[r] = Idle,
           \A c \in Charges : hook'[c] = hook[c] \/ hook'[c] = "idle"
    PROVE  ReviewsStored' /\ HooksCharged' /\ KeysOwned' /\ ApprovedIsCredited'
    BY DEF ReviewsStored, HooksCharged, KeysOwned, ApprovedIsCredited

(* The invariant holds initially. *)
LEMMA InitIInv == Init => IInv
<1> SUFFICES ASSUME Init PROVE IInv
    OBVIOUS
<1>1. wallet \in WalletRow
  <2>1. warning_level_for(InitialBalance) \in 0..3
    BY WalletAssumption, TopupAssumption DEF warning_level_for
  <2> QED
    BY <2>1, TopupAssumption DEF Init, WalletRow, WalletStatus
<1>2. TypeOK
    BY <1>1, TopupAssumption DEF Init, TypeOK, IntentStatus, SubState, RevState
<1>3. ReviewsStored /\ HooksCharged /\ KeysOwned /\ CreditedOnce
    BY DEF Init, ReviewsStored, HooksCharged, KeysOwned, CreditedOnce
<1>4. SucceededIffCredited
    BY DEF Init, SucceededIffCredited
<1>5. ApprovedIsCredited
    BY DEF Init, ApprovedIsCredited, NoProof
<1> QED
    BY <1>2, <1>3, <1>4, <1>5 DEF IInv

(* Storing a receipt keeps the invariant: its key is new, because no row of *)
(* an unstored receipt is on the ledger.                                    *)
LEMMA StoreProofIInv ==
    ASSUME IInv, NEW s \in Submitters, StoreProof(s)
    PROVE  IInv'
<1> USE DEF IInv
<1> DEFINE i == sub[s].intent
           e == sub[s].receipt
           new == [status |-> IF sub[s].approved THEN "auto_approved" ELSE "awaiting_review",
                   intent |-> i]
<1>1. TypeOK'
    BY TypeStoreProof
<1>2. i \in ManualIntents /\ e \in Receipts
    BY DEF StoreProof, TypeOK, SubState, Idle
<1>3. i \in Intents /\ e \in Keys /\ e \notin Charges
    BY <1>2, TopupAssumption DEF Intents, Keys
<1>4. proof[e] = NoProof /\ proof' = [proof EXCEPT ![e] = new]
    BY DEF StoreProof
<1>5. new \in ProofRow /\ new.intent = i
    BY <1>2 DEF ProofRow, ProofStatus
<1>6. NoProof \notin ProofRow
    BY DEF NoProof, ProofRow, ProofStatus
<1>7. \A row \in ledger : row.key # e
    BY <1>2, <1>4, <1>6 DEF KeysOwned
<1>8. /\ SucceededIffCredited' /\ CreditedOnce'
      /\ ledger \subseteq ledger'
      /\ \A row \in ledger' : row \in ledger \/ row = [key |-> e, intent |-> i]
      /\ sub[s].approved => \E row \in ledger' : row.intent = i
  <2>1. CASE sub[s].approved
    <3>1. credit_topup_intent(i, e)
        BY <2>1 DEF StoreProof
    <3> QED
        BY <1>3, <1>7, <3>1, CreditKeepsLedger
  <2>2. CASE ~sub[s].approved
    <3>1. QueueForReview(i)
        BY <2>2 DEF StoreProof
    <3>2. ledger' = ledger
        BY <3>1 DEF QueueForReview
    <3>3. \A j \in Intents : intent'[j] = "succeeded" <=> intent[j] = "succeeded"
        BY <1>3, <3>1 DEF QueueForReview, TypeOK
    <3> QED
        BY <2>2, <3>2, <3>3, QuietKeepsLedger
  <2> QED
    BY <2>1, <2>2
<1>9. proof'[e] = new /\ \A f \in Receipts : f # e => proof'[f] = proof[f]
    BY <1>2, <1>4 DEF TypeOK
<1>10. KeysOwned'
  <2>1. charge' = charge
    BY DEF StoreProof, hookVars
  <2>2. [key |-> e, intent |-> i].key = e /\ [key |-> e, intent |-> i].intent = i
    OBVIOUS
  <2> SUFFICES ASSUME NEW row \in ledger'
               PROVE  /\ row.key \in Receipts => /\ proof'[row.key] \in ProofRow
                                                /\ proof'[row.key].intent = row.intent
                      /\ row.key \in Charges => /\ charge'[row.key] \in ChargeRow
                                               /\ charge'[row.key].intent = row.intent
    BY DEF KeysOwned
  <2>3. CASE row \in ledger
    BY <2>3, <2>1, <1>7, <1>9 DEF KeysOwned
  <2>4. CASE row = [key |-> e, intent |-> i]
    BY <2>4, <2>2, <1>3, <1>5, <1>9
  <2> QED
    BY <2>3, <2>4, <1>8
<1>11. ApprovedIsCredited'
  <2> SUFFICES ASSUME NEW f \in Receipts, proof'[f].status \in {"approved", "auto_approved"}
               PROVE  \E row \in ledger' : row.intent = proof'[f].intent
    BY DEF ApprovedIsCredited
  <2>1. CASE f = e
    BY <2>1, <1>5, <1>8, <1>9
  <2>2. CASE f # e
    BY <2>2, <1>8, <1>9 DEF ApprovedIsCredited
  <2> QED
    BY <2>1, <2>2
<1>12. ReviewsStored'
    <2>1. rev' = rev
        BY DEF StoreProof
    <2>2. \A r \in Reviewers : rev[r] # Idle => rev[r].receipt \in Receipts
        BY DEF TypeOK, RevState
    <2> QED
        BY <2>1, <2>2, <1>5, <1>9 DEF ReviewsStored
<1>13. HooksCharged'
    BY DEF HooksCharged, StoreProof, hookVars
<1> QED
    BY <1>1, <1>8, <1>10, <1>11, <1>12, <1>13

(* A decision on a stored receipt changes its status and never its intent.  *)
LEMMA ReviewIInv ==
    ASSUME IInv, NEW r \in Reviewers,
           (\E e \in Receipts : LoadProof(r, e)) \/ approve(r) \/ reject(r) \/ ReviewFails(r)
    PROVE  IInv'
<1> USE DEF IInv, topupVars, moneyVars, hookVars
<1>1. TypeOK'
    BY TypeReview
<1>2. CASE \E e \in Receipts : LoadProof(r, e)
  <2>1. PICK e \in Receipts : LoadProof(r, e)
    BY <1>2
  <2>2. proof[e] \in ProofRow
    BY <2>1 DEF LoadProof, TypeOK, NoProof
  <2>3. ReviewsStored'
    BY <2>1, <2>2 DEF LoadProof, ReviewsStored, TypeOK
  <2>4. SucceededIffCredited' /\ CreditedOnce' /\ KeysOwned' /\ ApprovedIsCredited' /\ HooksCharged'
    BY <2>1 DEF LoadProof, SucceededIffCredited, CreditedOnce, KeysOwned,
                ApprovedIsCredited, HooksCharged
  <2> QED
    BY <1>1, <2>3, <2>4
<1>3. CASE ReviewFails(r)
  <2>1. ReviewsStored' /\ HooksCharged' /\ KeysOwned' /\ ApprovedIsCredited'
    BY <1>3, QuietKeepsOwners DEF ReviewFails, TypeOK
  <2>2. SucceededIffCredited' /\ CreditedOnce'
    BY <1>3, QuietKeepsLedger DEF ReviewFails
  <2> QED
    BY <1>1, <2>1, <2>2
<1>4. CASE approve(r) \/ reject(r)
  <2> DEFINE e == rev[r].receipt
             i == proof[e].intent
             st == IF approve(r) THEN "approved" ELSE "rejected"
  <2>1. rev[r].pc = "loaded" /\ rev' = [rev EXCEPT ![r] = Idle]
    BY <1>4 DEF approve, reject
  <2>2. e \in Receipts /\ rev[r] # Idle
    BY <2>1 DEF TypeOK, RevState, Idle
  <2>3. proof[e] \in ProofRow
    BY <2>2 DEF ReviewsStored
  <2>4. i \in Intents /\ e \in Keys /\ e \notin Charges
    BY <2>2, <2>3, TopupAssumption DEF ProofRow, Intents, Keys
  <2>5. /\ \A f \in Receipts : proof'[f].intent = proof[f].intent
        /\ \A f \in Receipts : proof[f] \in ProofRow => proof'[f] \in ProofRow
        /\ \A f \in Receipts : f # e => proof'[f] = proof[f]
        /\ ~approve(r) => proof'[e].status = "rejected"
    <3>1. CASE approve(r)
        BY <3>1, <2>2, <2>3 DEF approve, TypeOK, ProofRow, ProofStatus
    <3>2. CASE reject(r) /\ ~approve(r)
        BY <3>2, <2>2, <2>3 DEF reject, TypeOK, ProofRow, ProofStatus
    <3> QED
        BY <1>4, <3>1, <3>2
  <2>6. \A row \in ledger : row.key = e => row.intent = i
    BY <2>2 DEF KeysOwned
  <2>7. /\ SucceededIffCredited' /\ CreditedOnce'
        /\ ledger \subseteq ledger'
        /\ \A row \in ledger' : row \in ledger \/ row = [key |-> e, intent |-> i]
        /\ approve(r) => \E row \in ledger' : row.intent = i
    <3>1. CASE approve(r)
      <4>1. credit_topup_intent(i, e)
        BY <3>1 DEF approve
      <4> QED
        BY <2>4, <2>6, <4>1, CreditKeepsLedger
    <3>2. CASE reject(r) /\ ~approve(r)
      <4>1. ledger' = ledger
        BY <3>2 DEF reject
      <4>2. \A j \in Intents : intent'[j] = "succeeded" <=> intent[j] = "succeeded"
        BY <3>2, <2>4 DEF reject, TypeOK
      <4> QED
        BY <3>2, <4>1, <4>2, QuietKeepsLedger
    <3> QED
        BY <1>4, <3>1, <3>2
  <2>8. charge' = charge /\ hook' = hook
    BY <1>4 DEF approve, reject
  <2>9. KeysOwned'
    <3>1. [key |-> e, intent |-> i].key = e /\ [key |-> e, intent |-> i].intent = i
        OBVIOUS
    <3> SUFFICES ASSUME NEW row \in ledger'
                 PROVE  /\ row.key \in Receipts => /\ proof'[row.key] \in ProofRow
                                                  /\ proof'[row.key].intent = row.intent
                        /\ row.key \in Charges => /\ charge'[row.key] \in ChargeRow
                                                 /\ charge'[row.key].intent = row.intent
        BY DEF KeysOwned
    <3>2. CASE row \in ledger
        BY <3>2, <2>5, <2>8 DEF KeysOwned
    <3>3. CASE row = [key |-> e, intent |-> i]
        BY <3>1, <3>3, <2>2, <2>3, <2>4, <2>5
    <3> QED
        BY <2>7, <3>2, <3>3
  <2>10. ApprovedIsCredited'
    <3> SUFFICES ASSUME NEW f \in Receipts, proof'[f].status \in {"approved", "auto_approved"}
                 PROVE  \E row \in ledger' : row.intent = proof'[f].intent
        BY DEF ApprovedIsCredited
    <3>1. CASE f = e
        BY <3>1, <2>5, <2>7
    <3>2. CASE f # e
        BY <3>2, <2>5, <2>7 DEF ApprovedIsCredited
    <3> QED
        BY <3>1, <3>2
  <2>11. ReviewsStored'
    <3>1. \A q \in Reviewers : rev'[q] # Idle => rev'[q] = rev[q] /\ rev[q].receipt \in Receipts
        BY <2>1 DEF TypeOK, RevState
    <3> QED
        BY <3>1, <2>5 DEF ReviewsStored
  <2>12. HooksCharged'
    BY <2>8 DEF HooksCharged
  <2> QED
    BY <1>1, <2>7, <2>9, <2>10, <2>11, <2>12
<1> QED
    BY <1>2, <1>3, <1>4

(* A callback credits under its own transaction id, whose row, if it is     *)
(* already there, belongs to the same intent.                               *)
LEMMA SettleIInv ==
    ASSUME IInv, NEW c \in Charges, NEW answered \in BOOLEAN, Settle(c, answered)
    PROVE  IInv'
<1> USE DEF IInv
<1> DEFINE i == charge[c].intent
<1>1. TypeOK'
    BY TypeCallback
<1>2. charge[c] \in ChargeRow
    BY DEF Settle, HooksCharged
<1>3. i \in Intents /\ c \in Keys /\ c \notin Receipts
    BY <1>2, TopupAssumption DEF ChargeRow, Intents, Keys
<1>4. \A row \in ledger : row.key = c => row.intent = i
    BY DEF KeysOwned
<1>5. /\ SucceededIffCredited' /\ CreditedOnce'
      /\ ledger \subseteq ledger'
      /\ \A row \in ledger' : row \in ledger \/ row = [key |-> c, intent |-> i]
  <2>1. SettleSuccess(i, c) \/ SettleDecline(i)
    BY DEF Settle
  <2>2. CASE credit_topup_intent(i, c)
    BY <2>2, <1>3, <1>4, CreditKeepsLedger
  <2>3. CASE SettleDecline(i) \/ UNCHANGED <<intent, moneyVars>>
    <3>1. ledger' = ledger
        BY <2>3 DEF SettleDecline, moneyVars
    <3>2. \A j \in Intents : intent'[j] = "succeeded" <=> intent[j] = "succeeded"
        BY <2>3, <1>3 DEF SettleDecline, TypeOK
    <3> QED
        BY <3>1, <3>2, QuietKeepsLedger
  <2> QED
    BY <2>1, <2>2, <2>3 DEF SettleSuccess
<1>6. proof' = proof /\ charge' = charge /\ rev' = rev /\ hook' = [hook EXCEPT ![c] = "idle"]
    BY DEF Settle
<1>7. KeysOwned'
  <2>1. [key |-> c, intent |-> i].key = c /\ [key |-> c, intent |-> i].intent = i
    OBVIOUS
  <2> SUFFICES ASSUME NEW row \in ledger'
               PROVE  /\ row.key \in Receipts => /\ proof'[row.key] \in ProofRow
                                                /\ proof'[row.key].intent = row.intent
                      /\ row.key \in Charges => /\ charge'[row.key] \in ChargeRow
                                               /\ charge'[row.key].intent = row.intent
    BY DEF KeysOwned
  <2>2. CASE row \in ledger
    BY <2>2, <1>6 DEF KeysOwned
  <2>3. CASE row = [key |-> c, intent |-> i]
    BY <2>1, <2>3, <1>2, <1>3, <1>6
  <2> QED
    BY <1>5, <2>2, <2>3
<1>8. ApprovedIsCredited'
    BY <1>5, <1>6 DEF ApprovedIsCredited
<1>9. ReviewsStored' /\ HooksCharged'
    BY <1>6 DEF ReviewsStored, HooksCharged, TypeOK
<1> QED
    BY <1>1, <1>5, <1>7, <1>8, <1>9

(* A new charge and a callback taking its replay key keep the invariant.    *)
LEMMA GatewayIInv ==
    ASSUME IInv, NEW c \in Charges,
           \/ \E i \in CardIntents, paid, exact \in BOOLEAN : GatewayCharges(c, i, paid, exact)
           \/ TakeNonce(c)
    PROVE  IInv'
<1> USE DEF IInv, topupVars, moneyVars
<1>1. TypeOK'
    BY TypeCallback
<1>2. ledger' = ledger /\ intent' = intent /\ proof' = proof /\ rev' = rev
    BY DEF GatewayCharges, TakeNonce
<1>3. \A d \in Charges : charge[d] \in ChargeRow => charge'[d] = charge[d]
  <2>1. NoCharge \notin ChargeRow
    BY DEF NoCharge, ChargeRow
  <2> QED
    BY <2>1 DEF GatewayCharges, TakeNonce, TypeOK
<1>4. \A d \in Charges : hook'[d] = "running" => charge'[d] \in ChargeRow
  <2>1. CASE TakeNonce(c)
    <3>1. charge[c] \in ChargeRow
        BY <2>1 DEF TakeNonce, TypeOK, NoCharge
    <3> QED
        BY <2>1, <3>1 DEF TakeNonce, HooksCharged, TypeOK
  <2>2. CASE hook' = hook
    BY <2>2, <1>3 DEF HooksCharged
  <2> QED
    BY <2>1, <2>2 DEF GatewayCharges
<1>5. HooksCharged'
    BY <1>4 DEF HooksCharged
<1>6. KeysOwned'
    BY <1>2, <1>3 DEF KeysOwned
<1>7. SucceededIffCredited' /\ CreditedOnce' /\ ApprovedIsCredited' /\ ReviewsStored'
    BY <1>2 DEF SucceededIffCredited, CreditedOnce, ApprovedIsCredited, ReviewsStored
<1> QED
    BY <1>1, <1>5, <1>6, <1>7

(* Every other step writes no ledger row and decides no intent's success.   *)
LEMMA QuietIInv ==
    ASSUME IInv, TypeOK', ledger' = ledger, proof' = proof, charge' = charge,
           \A j \in Intents : intent'[j] = "succeeded" <=> intent[j] = "succeeded",
           \A r \in Reviewers : rev'[r] = rev[r] \/ rev'[r] = Idle,
           \A c \in Charges : hook'[c] = hook[c] \/ hook'[c] = "idle"
    PROVE  IInv'
    BY QuietKeepsLedger, QuietKeepsOwners DEF IInv

(* The invariant is inductive. *)
LEMMA NextIInv == IInv /\ [Next]_vars => IInv'
<1> SUFFICES ASSUME IInv, [Next]_vars PROVE IInv'
    OBVIOUS
<1>1. TypeOK /\ ReviewsStored /\ HooksCharged
    BY DEF IInv
<1> USE DEF topupVars, moneyVars, hookVars
<1>2. ASSUME NEW i \in CardIntents, _create_card(i) PROVE IInv'
  <2>1. TypeOK'
    BY <1>1, <1>2, TypeTopup
  <2> QED
    BY <1>1, <1>2, <2>1, QuietIInv DEF _create_card, TypeOK, Intents
<1>3. ASSUME NEW i \in ManualIntents, _create_manual(i) PROVE IInv'
  <2>1. TypeOK'
    BY <1>1, <1>3, TypeTopup
  <2> QED
    BY <1>1, <1>3, <2>1, QuietIInv DEF _create_manual, TypeOK, Intents
<1>4. ASSUME NEW i \in Intents, WindowCloses(i) PROVE IInv'
    BY <1>1, <1>4, TypeTopup, QuietIInv DEF WindowCloses
<1>5. CASE expire_wallet_topups
  <2>1. TypeOK'
    BY <1>1, <1>5, TypeTopup
  <2> QED
    BY <1>1, <1>5, <2>1, QuietIInv DEF expire_wallet_topups, TypeOK
<1>6. ASSUME NEW s \in Submitters, NEW i \in ManualIntents, NEW e \in Receipts,
             CheckSubmission(s, i, e)
      PROVE  IInv'
    BY <1>1, <1>6, TypeTopup, QuietIInv DEF CheckSubmission
<1>7. ASSUME NEW s \in Submitters, NEW approved \in BOOLEAN, EvaluateAutoApproval(s, approved)
      PROVE  IInv'
    BY <1>1, <1>7, TypeTopup, QuietIInv DEF EvaluateAutoApproval
<1>8. ASSUME NEW s \in Submitters, StoreProof(s) PROVE IInv'
    BY <1>8, StoreProofIInv
<1>9. ASSUME NEW s \in Submitters, SubmissionFails(s) PROVE IInv'
    BY <1>1, <1>9, TypeTopup, QuietIInv DEF SubmissionFails
<1>10. ASSUME NEW r \in Reviewers,
              (\E e \in Receipts : LoadProof(r, e)) \/ approve(r) \/ reject(r) \/ ReviewFails(r)
       PROVE  IInv'
    BY <1>10, ReviewIInv
<1>11. ASSUME NEW c \in Charges, NEW i \in CardIntents, NEW paid \in BOOLEAN,
              NEW exact \in BOOLEAN, GatewayCharges(c, i, paid, exact)
       PROVE  IInv'
    BY <1>11, GatewayIInv
<1>12. ASSUME NEW c \in Charges, TakeNonce(c) PROVE IInv'
    BY <1>12, GatewayIInv
<1>13. ASSUME NEW c \in Charges, RejectDuplicate(c) PROVE IInv'
    BY <1>1, <1>13, TypeCallback, QuietIInv DEF RejectDuplicate
<1>14. ASSUME NEW c \in Charges, NEW answered \in BOOLEAN, Settle(c, answered) PROVE IInv'
    BY <1>14, SettleIInv
<1>15. ASSUME NEW c \in Charges, CallbackRaises(c) PROVE IInv'
  <2>1. TypeOK'
    BY <1>1, <1>15, TypeCallback
  <2> QED
    BY <1>1, <1>15, <2>1, QuietIInv DEF CallbackRaises, TypeOK
<1>16. ASSUME NEW c \in Charges, WorkerCrashes(c) PROVE IInv'
  <2>1. TypeOK'
    BY <1>1, <1>16, TypeCallback
  <2> QED
    BY <1>1, <1>16, <2>1, QuietIInv DEF WorkerCrashes, TypeOK
<1>17. ASSUME NEW c \in Charges, NonceExpires(c) PROVE IInv'
    BY <1>1, <1>17, TypeCallback, QuietIInv DEF NonceExpires
<1>18. ASSUME NEW st \in WalletStatus, update_wallet_config(st) PROVE IInv'
    BY <1>1, <1>18, TypeAdmin, QuietIInv DEF update_wallet_config
<1>19. CASE TenantLapses
    BY <1>1, <1>19, TypeAdmin, QuietIInv DEF TenantLapses
<1>20. ASSUME NEW c \in Charges, NonceRefused(c) PROVE IInv'
  <2>1. TypeOK'
    BY <1>1, <1>20, TypeCallback
  <2> QED
    BY <1>1, <1>20, <2>1, QuietIInv DEF NonceRefused, TypeOK
<1>21. CASE UNCHANGED vars
  <2>1. TypeOK'
    BY <1>1, <1>21 DEF vars, TypeOK
  <2> QED
    BY <1>21, <2>1, QuietIInv DEF vars
<1> QED
    BY <1>2, <1>3, <1>4, <1>5, <1>6, <1>7, <1>8, <1>9, <1>10, <1>11, <1>12, <1>13,
       <1>14, <1>15, <1>16, <1>17, <1>18, <1>19, <1>20, <1>21 DEF Next

(* The invariant holds in every reachable state. *)
LEMMA Invariance == Spec => []IInv
<1>1. IInv /\ [Next]_vars => IInv'
    BY NextIInv
<1> QED
    BY InitIInv, <1>1, PTL DEF Spec

(* Every row and every request in flight stays well formed; in particular   *)
(* the hold never goes negative and the warning ladder stays on its rungs.  *)
THEOREM TypeCorrect == Spec => []TypeOK
<1>1. IInv => TypeOK
    BY DEF IInv
<1> QED
    BY <1>1, Invariance, PTL

(* However many receipts, reviewers, callbacks and retries ask for it, a    *)
(* top-up intent is credited at most once.                                  *)
THEOREM CreditOnlyOnce == Spec => []CreditedOnce
<1>1. IInv => CreditedOnce
    BY DEF IInv
<1> QED
    BY <1>1, Invariance, PTL

(* An intent reads succeeded exactly when its credit is on the ledger.      *)
THEOREM SuccessIsOnLedger == Spec => []SucceededIffCredited
<1>1. IInv => SucceededIffCredited
    BY DEF IInv
<1> QED
    BY <1>1, Invariance, PTL

(* An approved receipt, automatic or reviewed, has been credited.           *)
THEOREM ApprovalIsCredited == Spec => []ApprovedIsCredited
<1>1. IInv => ApprovedIsCredited
    BY DEF IInv
<1> QED
    BY <1>1, Invariance, PTL

----------------------------------------------------------------------------
(* The ledger is append-only: no step of any party removes or edits a row.  *)
LEMMA LedgerGrows == ASSUME [Next]_vars PROVE ledger \subseteq ledger'
<1> USE DEF topupVars, moneyVars, hookVars
<1>1. ASSUME NEW i, NEW key, credit_topup_intent(i, key) PROVE ledger \subseteq ledger'
    BY <1>1 DEF credit_topup_intent, apply_entry
<1>2. ASSUME NEW s \in Submitters, StoreProof(s) PROVE ledger \subseteq ledger'
    BY <1>1, <1>2 DEF StoreProof, QueueForReview
<1>3. ASSUME NEW r \in Reviewers, approve(r) PROVE ledger \subseteq ledger'
    BY <1>1, <1>3 DEF approve
<1>4. ASSUME NEW c \in Charges, NEW answered \in BOOLEAN, Settle(c, answered)
      PROVE  ledger \subseteq ledger'
    BY <1>1, <1>4 DEF Settle, SettleSuccess, SettleDecline
<1>5. CASE UNCHANGED vars
    BY <1>5 DEF vars
<1> QED
    BY <1>2, <1>3, <1>4, <1>5 DEF Next, _create_card, _create_manual, WindowCloses,
       expire_wallet_topups, CheckSubmission, EvaluateAutoApproval, SubmissionFails,
       LoadProof, reject, ReviewFails, GatewayCharges, TakeNonce, RejectDuplicate,
       NonceRefused, CallbackRaises, WorkerCrashes, NonceExpires, update_wallet_config,
       TenantLapses

(* A credited intent never leaves succeeded: the credit stays on the ledger *)
(* and the status follows the ledger.                                       *)
THEOREM SuccessIsFinal == Spec => SucceededIsFinal
<1>1. ASSUME IInv, IInv', [Next]_vars, NEW i \in Intents, intent[i] = "succeeded"
      PROVE  intent'[i] = "succeeded"
  <2>1. \E row \in ledger : row.intent = i
    BY <1>1 DEF IInv, SucceededIffCredited
  <2>2. \E row \in ledger' : row.intent = i
    BY <1>1, <2>1, LedgerGrows
  <2> QED
    BY <1>1, <2>2 DEF IInv, SucceededIffCredited
<1>2. IInv /\ IInv' /\ [Next]_vars =>
        [\A i \in Intents : intent[i] = "succeeded" => intent'[i] = "succeeded"]_vars
    BY <1>1
<1> QED
    BY <1>2, Invariance, PTL DEF Spec, SucceededIsFinal

----------------------------------------------------------------------------
(* The on-hold amount.  The bound by the amounts under review is inductive  *)
(* once the set of intents under review is known to be finite: it starts    *)
(* empty and an upload adds one intent.                                     *)

HoldInv == IsFiniteSet(UnderReview) /\ HoldNeverExceedsReview

(* The amounts under review are natural numbers, and so is their sum.       *)
LEMMA ReviewSum ==
    ASSUME IsFiniteSet(UnderReview)
    PROVE  /\ \A i \in UnderReview : Amount[i] \in Int /\ Amount[i] \in Nat
           /\ SumFunctionOnSet(Amount, UnderReview) \in Nat
<1>1. \A i \in UnderReview : Amount[i] \in Int /\ Amount[i] \in Nat
    BY AmountType DEF UnderReview
<1> QED
    BY <1>1, SumNat

(* A step that moves no intent into or out of review, nor the hold.         *)
LEMMA HoldKept ==
    ASSUME HoldInv, UnderReview' = UnderReview, wallet'.hold = wallet.hold
    PROVE  HoldInv'
    BY DEF HoldInv, HoldNeverExceedsReview

(* An intent enters review, with its amount held or without.                *)
LEMMA HoldAdded ==
    ASSUME TypeOK, HoldInv, NEW i \in Intents, i \notin UnderReview,
           UnderReview' = UnderReview \cup {i},
           wallet'.hold \in {wallet.hold, wallet.hold + Amount[i]}
    PROVE  HoldInv'
<1> DEFINE sum == SumFunctionOnSet(Amount, UnderReview)
<1>1. IsFiniteSet(UnderReview) /\ wallet.hold <= sum
    BY DEF HoldInv, HoldNeverExceedsReview
<1>2. sum \in Nat /\ Amount[i] \in Nat /\ wallet.hold \in Nat
    BY <1>1, ReviewSum, AmountType DEF TypeOK, WalletRow
<1>3. \A j \in UnderReview \cup {i} : Amount[j] \in Int
    BY AmountType DEF UnderReview
<1>4. SumFunctionOnSet(Amount, UnderReview \cup {i}) = Amount[i] + sum
    BY <1>1, <1>3, SumAdd
<1>5. IsFiniteSet(UnderReview \cup {i})
    BY <1>1, FS_AddElement
<1> HIDE DEF sum
<1>6. wallet'.hold <= Amount[i] + sum
    BY <1>1, <1>2
<1> QED
    BY <1>4, <1>5, <1>6 DEF HoldInv, HoldNeverExceedsReview

(* An intent leaves review and its amount is released, floored at zero.     *)
LEMMA HoldReleased ==
    ASSUME TypeOK, HoldInv, NEW i \in UnderReview,
           UnderReview' = UnderReview \ {i},
           wallet'.hold = release_pending_hold(wallet, Amount[i]).hold
    PROVE  HoldInv'
<1> DEFINE sum == SumFunctionOnSet(Amount, UnderReview)
           rest == SumFunctionOnSet(Amount, UnderReview \ {i})
<1>1. IsFiniteSet(UnderReview) /\ wallet.hold <= sum
    BY DEF HoldInv, HoldNeverExceedsReview
<1>2. IsFiniteSet(UnderReview \ {i})
    BY <1>1, FS_RemoveElement
<1>3. /\ Amount[i] \in Nat /\ wallet.hold \in Nat
      /\ \A j \in UnderReview : Amount[j] \in Int
    BY <1>1, ReviewSum DEF TypeOK, WalletRow
<1>4. rest \in Nat
  <2>1. \A j \in UnderReview \ {i} : Amount[j] \in Nat
    BY <1>1, ReviewSum
  <2> QED
    BY <1>2, <2>1, SumNat
<1>5. sum = Amount[i] + rest
    BY <1>1, <1>3, SumTakeOut
<1>6. wallet'.hold = IF wallet.hold > Amount[i] THEN wallet.hold - Amount[i] ELSE 0
    BY DEF release_pending_hold, TypeOK, WalletRow
<1> HIDE DEF sum, rest
<1>7. wallet'.hold <= rest
    BY <1>1, <1>3, <1>4, <1>5, <1>6
<1> QED
    BY <1>2, <1>7 DEF HoldInv, HoldNeverExceedsReview, rest

(* The warning ladder leaves the hold alone.                                *)
LEMMA BumpKeepsHold ==
    ASSUME NEW w \in WalletRow, NEW n \in Int
    PROVE  bump_warning_level([w EXCEPT !.balance = @ + n]).hold = w.hold
    BY DEF bump_warning_level, WalletRow

(* A credit ends the review of its intent and releases what was held.       *)
LEMMA CreditHold ==
    ASSUME TypeOK, HoldInv, NEW i \in Intents, NEW key, credit_topup_intent(i, key)
    PROVE  HoldInv'
<1>1. CASE intent[i] = "succeeded"
    BY <1>1, HoldKept DEF credit_topup_intent, moneyVars, UnderReview
<1>2. CASE intent[i] = "under_review"
  <2> DEFINE w == release_pending_hold(wallet, Amount[i])
  <2>1. w \in WalletRow
    BY HoldType, AmountType DEF TypeOK
  <2>2. apply_entry(w, i, key) /\ intent' = [intent EXCEPT ![i] = "succeeded"]
    BY <1>2 DEF credit_topup_intent
  <2> HIDE DEF w
  <2>3. wallet'.hold = w.hold
    BY <2>1, <2>2, AmountType, BumpKeepsHold DEF apply_entry
  <2>4. UnderReview' = UnderReview \ {i} /\ i \in UnderReview
    BY <1>2, <2>2 DEF UnderReview, TypeOK
  <2> QED
    BY <2>3, <2>4, HoldReleased DEF w
<1>3. CASE intent[i] \notin {"succeeded", "under_review"}
  <2>1. apply_entry(wallet, i, key) /\ intent' = [intent EXCEPT ![i] = "succeeded"]
    BY <1>3 DEF credit_topup_intent
  <2>2. wallet'.hold = wallet.hold
    BY <2>1, AmountType, BumpKeepsHold DEF apply_entry, TypeOK
  <2>3. UnderReview' = UnderReview
    BY <1>3, <2>1 DEF UnderReview, TypeOK
  <2> QED
    BY <2>2, <2>3, HoldKept
<1> QED
    BY <1>1, <1>2, <1>3

(* A receipt that is not auto-approved puts its intent under review.        *)
LEMMA QueueHold ==
    ASSUME TypeOK, HoldInv, NEW i \in Intents, QueueForReview(i)
    PROVE  HoldInv'
<1>1. CASE intent[i] \in {"succeeded", "under_review"}
  <2>1. wallet' = wallet /\ UnderReview' = UnderReview
    BY <1>1 DEF QueueForReview, UnderReview, TypeOK
  <2> QED
    BY <2>1, HoldKept
<1>2. CASE intent[i] \notin {"succeeded", "under_review"}
  <2>1. UnderReview' = UnderReview \cup {i} /\ i \notin UnderReview
    BY <1>2 DEF QueueForReview, UnderReview, TypeOK
  <2>2. wallet' = wallet \/ wallet' = add_pending_hold(wallet, Amount[i])
    BY DEF QueueForReview
  <2>3. wallet'.hold \in {wallet.hold, wallet.hold + Amount[i]}
    BY <2>2 DEF add_pending_hold, TypeOK, WalletRow
  <2> QED
    BY <2>1, <2>3, HoldAdded
<1> QED
    BY <1>1, <1>2

(* A rejection releases what was held and sends the intent back.            *)
LEMMA RejectHold ==
    ASSUME TypeOK, ReviewsStored, HoldInv, NEW r \in Reviewers, reject(r)
    PROVE  HoldInv'
<1> DEFINE i == proof[rev[r].receipt].intent
<1>1. i \in Intents
  <2>1. rev[r] # Idle
    BY DEF reject, Idle
  <2>2. proof[rev[r].receipt] \in ProofRow
    BY <2>1 DEF ReviewsStored
  <2> QED
    BY <2>2 DEF ProofRow, Intents
<1>2. CASE intent[i] = "under_review"
  <2>1. wallet' = release_pending_hold(wallet, Amount[i])
    BY <1>2 DEF reject
  <2>2. UnderReview' = UnderReview \ {i} /\ i \in UnderReview
    BY <1>1, <1>2 DEF reject, UnderReview, TypeOK
  <2> QED
    BY <2>1, <2>2, HoldReleased
<1>3. CASE intent[i] # "under_review"
  <2>1. wallet' = wallet /\ UnderReview' = UnderReview
    BY <1>1, <1>3 DEF reject, UnderReview, TypeOK
  <2> QED
    BY <2>1, HoldKept
<1> QED
    BY <1>2, <1>3

(* Every step keeps the bound on the hold.                                  *)
LEMMA NextHold ==
    ASSUME IInv, HoldInv, [Next]_vars
    PROVE  HoldInv'
<1> USE DEF topupVars, moneyVars, hookVars
<1>1. TypeOK /\ ReviewsStored /\ HooksCharged
    BY DEF IInv
<1>2. ASSUME NEW s \in Submitters, StoreProof(s) PROVE HoldInv'
  <2>1. sub[s].intent \in Intents
    BY <1>1, <1>2 DEF StoreProof, TypeOK, SubState, Idle, Intents
  <2> QED
    BY <1>1, <1>2, <2>1, CreditHold, QueueHold DEF StoreProof
<1>3. ASSUME NEW r \in Reviewers, approve(r) PROVE HoldInv'
  <2>1. rev[r] # Idle
    BY <1>3 DEF approve, Idle
  <2>2. proof[rev[r].receipt].intent \in Intents
    BY <1>1, <2>1 DEF ReviewsStored, ProofRow, Intents
  <2> QED
    BY <1>1, <1>3, <2>2, CreditHold DEF approve
<1>4. ASSUME NEW r \in Reviewers, reject(r) PROVE HoldInv'
    BY <1>1, <1>4, RejectHold
<1>5. ASSUME NEW c \in Charges, NEW answered \in BOOLEAN, Settle(c, answered) PROVE HoldInv'
  <2> DEFINE i == charge[c].intent
  <2>1. i \in Intents
    BY <1>1, <1>5 DEF Settle, HooksCharged, ChargeRow, Intents
  <2>2. CASE credit_topup_intent(i, c)
    BY <1>1, <2>1, <2>2, CreditHold
  <2>3. CASE SettleDecline(i) \/ UNCHANGED <<intent, moneyVars>>
    <3>1. wallet' = wallet /\ UnderReview' = UnderReview
        BY <1>1, <2>1, <2>3 DEF SettleDecline, UnderReview, TypeOK
    <3> QED
        BY <3>1, HoldKept
  <2> QED
    BY <1>5, <2>2, <2>3 DEF Settle, SettleSuccess
<1>6. ASSUME NEW i \in CardIntents, _create_card(i) PROVE HoldInv'
  <2>1. wallet' = wallet /\ UnderReview' = UnderReview
    BY <1>1, <1>6 DEF _create_card, UnderReview, TypeOK
  <2> QED
    BY <2>1, HoldKept
<1>7. ASSUME NEW i \in ManualIntents, _create_manual(i) PROVE HoldInv'
  <2>1. wallet' = wallet /\ UnderReview' = UnderReview
    BY <1>1, <1>7 DEF _create_manual, UnderReview, TypeOK
  <2> QED
    BY <2>1, HoldKept
<1>8. CASE expire_wallet_topups
  <2>1. wallet' = wallet /\ UnderReview' = UnderReview
    BY <1>1, <1>8 DEF expire_wallet_topups, UnderReview, TypeOK
  <2> QED
    BY <2>1, HoldKept
<1>9. ASSUME NEW st \in WalletStatus, update_wallet_config(st) PROVE HoldInv'
  <2>1. wallet'.hold = wallet.hold /\ UnderReview' = UnderReview
    BY <1>1, <1>9 DEF update_wallet_config, UnderReview, TypeOK, WalletRow
  <2> QED
    BY <2>1, HoldKept
<1>10. CASE UNCHANGED <<intent, wallet>>
    BY <1>10, HoldKept DEF UnderReview
<1>11. CASE UNCHANGED vars
    BY <1>10, <1>11 DEF vars
<1> QED
    BY <1>2, <1>3, <1>4, <1>5, <1>6, <1>7, <1>8, <1>9, <1>10, <1>11 DEF Next, WindowCloses,
       CheckSubmission, EvaluateAutoApproval, SubmissionFails, LoadProof, ReviewFails,
       GatewayCharges, TakeNonce, RejectDuplicate, CallbackRaises, WorkerCrashes,
       NonceRefused, NonceExpires, TenantLapses

(* Whatever the interleaving of uploads, reviews, sweeps and credits, the   *)
(* amount shown as on hold is never more than what is under review.         *)
THEOREM HoldIsBounded == Spec => []HoldNeverExceedsReview
<1>1. Init => HoldInv
  <2> SUFFICES ASSUME Init PROVE HoldInv
    OBVIOUS
  <2>1. UnderReview = {} /\ wallet.hold = 0
    BY DEF Init, UnderReview
  <2>2. SumFunctionOnSet(Amount, UnderReview) = 0
    BY <2>1, SumEmpty
  <2> QED
    BY <2>1, <2>2, FS_EmptySet DEF HoldInv, HoldNeverExceedsReview
<1>2. IInv /\ HoldInv /\ [Next]_vars => HoldInv'
    BY NextHold
<1>3. HoldInv => HoldNeverExceedsReview
    BY DEF HoldInv
<1> QED
    BY <1>1, <1>2, <1>3, Invariance, PTL DEF Spec

----------------------------------------------------------------------------
(* The daily cap.  An upload that was told to auto-approve before it stored *)
(* its receipt is counted as if it had: then the bound is inductive, since  *)
(* the decision reads a count below the cap and at most every upload in     *)
(* flight has decided on it.                                                *)

Deciding == {s \in Submitters : sub[s].pc = "decided" /\ sub[s].approved}

OvershootInv ==
    /\ IsFiniteSet(AutoApproved)
    /\ Cardinality(AutoApproved) + Cardinality(Deciding)
            <= DailyCountCap + Cardinality(Submitters) - 1

(* Fewer auto-approved receipts and fewer decided uploads keep the bound.   *)
LEMMA OvershootShrinks ==
    ASSUME IsFiniteSet(Submitters), OvershootInv,
           AutoApproved' \subseteq AutoApproved, Deciding' \subseteq Deciding
    PROVE  OvershootInv'
<1>1. IsFiniteSet(AutoApproved) /\ IsFiniteSet(Deciding)
    BY FS_Subset DEF OvershootInv, Deciding
<1>2. /\ IsFiniteSet(AutoApproved')
      /\ Cardinality(AutoApproved') <= Cardinality(AutoApproved)
      /\ Cardinality(Deciding') <= Cardinality(Deciding)
      /\ IsFiniteSet(Deciding')
    BY <1>1, FS_Subset
<1>3. /\ Cardinality(AutoApproved) \in Nat /\ Cardinality(AutoApproved') \in Nat
      /\ Cardinality(Deciding) \in Nat /\ Cardinality(Deciding') \in Nat
      /\ Cardinality(Submitters) \in Nat /\ DailyCountCap \in Nat
    BY <1>1, <1>2, FS_CardinalityType, TopupAssumption
<1> QED
    BY <1>2, <1>3 DEF OvershootInv

(* A decision to auto-approve has read a count below the cap.               *)
LEMMA EvaluateOvershoot ==
    ASSUME IsFiniteSet(Submitters), TypeOK, OvershootInv, NEW s \in Submitters,
           NEW approved \in BOOLEAN, EvaluateAutoApproval(s, approved)
    PROVE  OvershootInv'
<1>1. AutoApproved' = AutoApproved
    BY DEF EvaluateAutoApproval, topupVars, AutoApproved
<1>2. CASE approved
  <2>1. Cardinality(AutoApproved) < DailyCountCap
    BY <1>2 DEF EvaluateAutoApproval, AutoApprovalAllowed
  <2>2. IsFiniteSet(Deciding') /\ Cardinality(Deciding') <= Cardinality(Submitters)
    BY FS_Subset DEF Deciding
  <2>3. /\ Cardinality(AutoApproved) \in Nat /\ Cardinality(Deciding') \in Nat
        /\ Cardinality(Submitters) \in Nat /\ DailyCountCap \in Nat
    BY <2>2, FS_CardinalityType, TopupAssumption DEF OvershootInv
  <2>4. Cardinality(AutoApproved) + Cardinality(Deciding')
            <= DailyCountCap + Cardinality(Submitters) - 1
    BY <2>1, <2>2, <2>3
  <2> QED
    BY <1>1, <2>4 DEF OvershootInv
<1>3. CASE ~approved
  <2>1. \A q \in Submitters : q # s => sub'[q] = sub[q]
    BY DEF EvaluateAutoApproval, TypeOK
  <2>2. ~sub'[s].approved
    BY <1>3 DEF EvaluateAutoApproval, TypeOK
  <2>3. Deciding' \subseteq Deciding
    BY <2>1, <2>2 DEF Deciding
  <2> QED
    BY <1>1, <2>3, OvershootShrinks
<1> QED
    BY <1>2, <1>3

(* Storing an auto-approved receipt turns a decided upload into a counted   *)
(* row; storing any other leaves the count alone.                           *)
LEMMA StoreOvershoot ==
    ASSUME IsFiniteSet(Submitters), TypeOK, OvershootInv, NEW s \in Submitters, StoreProof(s)
    PROVE  OvershootInv'
<1> DEFINE e == sub[s].receipt
<1>1. e \in Receipts /\ proof[e] = NoProof /\ sub[s].pc = "decided"
    BY DEF StoreProof, TypeOK, SubState, Idle
<1>2. /\ proof'[e].status = IF sub[s].approved THEN "auto_approved" ELSE "awaiting_review"
      /\ \A f \in Receipts : f # e => proof'[f] = proof[f]
    BY <1>1 DEF StoreProof, TypeOK
<1>3. e \notin AutoApproved
    BY <1>1 DEF AutoApproved, NoProof
<1>4. Deciding' = Deciding \ {s}
  <2>1. \A q \in Submitters : sub'[q] = IF q = s THEN Idle ELSE sub[q]
    BY DEF StoreProof, TypeOK
  <2> QED
    BY <2>1 DEF Deciding, Idle
<1>5. CASE sub[s].approved
  <2>1. AutoApproved' = AutoApproved \cup {e}
    BY <1>1, <1>2, <1>5 DEF AutoApproved
  <2>2. s \in Deciding
    BY <1>1, <1>5 DEF Deciding
  <2>3. IsFiniteSet(AutoApproved) /\ IsFiniteSet(Deciding)
    BY FS_Subset DEF OvershootInv, Deciding
  <2>4. /\ IsFiniteSet(AutoApproved')
        /\ Cardinality(AutoApproved') = Cardinality(AutoApproved) + 1
    BY <1>3, <2>1, <2>3, FS_AddElement
  <2>5. Cardinality(Deciding') = Cardinality(Deciding) - 1
    BY <1>4, <2>2, <2>3, FS_RemoveElement
  <2>6. /\ Cardinality(AutoApproved) \in Nat /\ Cardinality(Deciding) \in Nat
        /\ Cardinality(Submitters) \in Nat /\ DailyCountCap \in Nat
    BY <2>3, FS_CardinalityType, TopupAssumption
  <2> QED
    BY <2>4, <2>5, <2>6 DEF OvershootInv
<1>6. CASE ~sub[s].approved
  <2>1. AutoApproved' = AutoApproved
    BY <1>1, <1>2, <1>3, <1>6 DEF AutoApproved
  <2> QED
    BY <1>4, <2>1, OvershootShrinks
<1> QED
    BY <1>5, <1>6

(* Every step keeps the bound on auto-approvals.                            *)
LEMMA NextOvershoot ==
    ASSUME IsFiniteSet(Submitters), IInv, OvershootInv, [Next]_vars
    PROVE  OvershootInv'
<1> USE DEF topupVars, moneyVars, hookVars
<1>1. TypeOK /\ ReviewsStored
    BY DEF IInv
<1>2. ASSUME NEW s \in Submitters, NEW approved \in BOOLEAN, EvaluateAutoApproval(s, approved)
      PROVE  OvershootInv'
    BY <1>1, <1>2, EvaluateOvershoot
<1>3. ASSUME NEW s \in Submitters, StoreProof(s) PROVE OvershootInv'
    BY <1>1, <1>3, StoreOvershoot
<1>4. ASSUME NEW s \in Submitters, NEW i \in ManualIntents, NEW e \in Receipts,
             CheckSubmission(s, i, e)
      PROVE  OvershootInv'
  <2>1. AutoApproved' = AutoApproved
    BY <1>4 DEF CheckSubmission, AutoApproved
  <2>2. sub'[s].pc = "checked" /\ \A q \in Submitters : q # s => sub'[q] = sub[q]
    BY <1>1, <1>4 DEF CheckSubmission, TypeOK
  <2>3. Deciding' \subseteq Deciding
    BY <2>2 DEF Deciding
  <2> QED
    BY <2>1, <2>3, OvershootShrinks
<1>5. ASSUME NEW s \in Submitters, SubmissionFails(s) PROVE OvershootInv'
  <2>1. AutoApproved' = AutoApproved
    BY <1>5 DEF SubmissionFails, AutoApproved
  <2>2. sub'[s].pc = "idle" /\ \A q \in Submitters : q # s => sub'[q] = sub[q]
    BY <1>1, <1>5 DEF SubmissionFails, TypeOK, Idle
  <2>3. Deciding' \subseteq Deciding
    BY <2>2 DEF Deciding
  <2> QED
    BY <2>1, <2>3, OvershootShrinks
<1>6. ASSUME NEW r \in Reviewers, approve(r) \/ reject(r) PROVE OvershootInv'
  <2> DEFINE e == rev[r].receipt
  <2>1. rev[r] # Idle /\ e \in Receipts
    BY <1>1, <1>6 DEF approve, reject, Idle, TypeOK, RevState
  <2>2. proof[e] \in ProofRow
    BY <1>1, <2>1 DEF ReviewsStored
  <2>3. proof'[e].status # "auto_approved" /\ \A f \in Receipts : f # e => proof'[f] = proof[f]
    BY <1>1, <1>6, <2>1, <2>2 DEF approve, reject, TypeOK, ProofRow
  <2>4. AutoApproved' \subseteq AutoApproved
    BY <2>3 DEF AutoApproved
  <2>5. Deciding' = Deciding
    BY <1>6 DEF approve, reject, Deciding
  <2> QED
    BY <2>4, <2>5, OvershootShrinks
<1>7. CASE UNCHANGED <<proof, sub>>
    BY <1>7, OvershootShrinks DEF AutoApproved, Deciding
<1>8. CASE UNCHANGED vars
    BY <1>7, <1>8 DEF vars
<1> QED
    BY <1>2, <1>3, <1>4, <1>5, <1>6, <1>7, <1>8 DEF Next, _create_card, _create_manual,
       WindowCloses, expire_wallet_topups, LoadProof, ReviewFails, GatewayCharges, TakeNonce,
       RejectDuplicate, NonceRefused, Settle, CallbackRaises, WorkerCrashes, NonceExpires,
       update_wallet_config, TenantLapses

(* With at least one upload that can be in flight, the unlocked daily count *)
(* lets the cap be exceeded by at most the uploads in flight less one.      *)
THEOREM OvershootIsBounded ==
    ASSUME IsFiniteSet(Submitters), Submitters # {}
    PROVE  Spec => []AutoApprovalOvershoot
<1>1. Init => OvershootInv
  <2> SUFFICES ASSUME Init PROVE OvershootInv
    OBVIOUS
  <2>1. AutoApproved = {} /\ Deciding = {}
    BY DEF Init, AutoApproved, Deciding, NoProof, Idle
  <2>2. Cardinality(Submitters) \in Nat /\ Cardinality(Submitters) # 0
    BY FS_EmptySet, FS_CardinalityType
  <2>3. IsFiniteSet(AutoApproved) /\ Cardinality(AutoApproved) = 0 /\ Cardinality(Deciding) = 0
    BY <2>1, FS_EmptySet
  <2> QED
    BY <2>2, <2>3, TopupAssumption DEF OvershootInv
<1>2. IInv /\ OvershootInv /\ [Next]_vars => OvershootInv'
    BY NextOvershoot
<1>3. OvershootInv => AutoApprovalOvershoot
  <2> SUFFICES ASSUME OvershootInv PROVE AutoApprovalOvershoot
    OBVIOUS
  <2>1. IsFiniteSet(Deciding)
    BY FS_Subset DEF Deciding
  <2>2. /\ Cardinality(AutoApproved) \in Nat /\ Cardinality(Deciding) \in Nat
        /\ Cardinality(Submitters) \in Nat /\ DailyCountCap \in Nat
    BY <2>1, FS_CardinalityType, TopupAssumption DEF OvershootInv
  <2> QED
    BY <2>2 DEF OvershootInv, AutoApprovalOvershoot
<1> QED
    BY <1>1, <1>2, <1>3, Invariance, PTL DEF Spec

=============================================================================
