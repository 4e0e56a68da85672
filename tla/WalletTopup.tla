---------------------------- MODULE WalletTopup ----------------------------
(***************************************************************************)
(* Wallet top-ups of one tenant: how an intent to add money becomes one    *)
(* ledger credit.  A card intent is settled by the platform gateway        *)
(* webhook; a manual intent (InstaPay, Vodafone Cash) by an uploaded       *)
(* receipt that is auto-approved or queued for an administrator.           *)
(*                                                                         *)
(* One action is one database transaction, or the part of a request        *)
(* between two points where another request can intervene: a read without  *)
(* a row lock and the locked write that follows it are two actions, and    *)
(* everything done under SELECT ... FOR UPDATE up to the commit is one.    *)
(* A request whose transaction rolls back (an HTTPException, or            *)
(* WalletSuspendedError out of apply_entry) changes no row.                *)
(***************************************************************************)
EXTENDS Wallet, FiniteSets, Functions

CONSTANTS
    CardIntents,      \* top-up intents paid through the platform gateway
    ManualIntents,    \* top-up intents paid by transfer and receipt
    Receipts,         \* distinct (image hash, transaction ref) pairs
    Charges,          \* gateway transaction ids
    Submitters,       \* concurrent receipt-upload requests
    Reviewers,        \* concurrent admin review requests
    Amount,           \* amount_cents of each intent
    InitialBalance,   \* wallet balance when the behaviour starts
    DailyCountCap,    \* daily_count_cap of the auto-approval rules
    Expirable,        \* intents whose payment window may close
    OverlapDeliveries,\* may the gateway retry while a callback still runs?
    MaxCrashes,       \* bound: callbacks lost to a killed worker or to Redis
    MaxFaults,        \* bound: callbacks ended by a passing database error
    MaxConfigEdits    \* bound: administrator changes of the wallet status

Intents == CardIntents \cup ManualIntents
Keys == Receipts \cup Charges   \* "proof:{id}" and "kashier:{tx}" ledger keys

ASSUME TopupAssumption ==
    /\ CardIntents \cap ManualIntents = {}
    /\ Receipts \cap Charges = {}
    /\ Amount \in [Intents -> Nat \ {0}]
    /\ InitialBalance \in Int
    /\ DailyCountCap \in Nat
    /\ Expirable \subseteq Intents
    /\ OverlapDeliveries \in BOOLEAN
    /\ MaxCrashes \in Nat
    /\ MaxFaults \in Nat
    /\ MaxConfigEdits \in Nat

VARIABLES
    intent,    \* wallet_topup_intents.status, "absent" before creation
    due,       \* expires_at has passed
    proof,     \* wallet_topup_proofs, keyed by the unique receipt
    wallet,    \* the merchant_wallets row
    ledger,    \* wallet_transactions rows of kind topup
    tenant,    \* lifecycle of the pay-as-you-go tenant
    sub,       \* receipt-upload requests in flight
    rev,       \* review requests in flight
    charge,    \* what the gateway did for each transaction id
    nonce,     \* Redis replay key of each transaction id
    hook,      \* callback of each transaction id being processed
    acked,     \* the gateway has had a 2xx for this transaction id
    crashes, faults, edits

topupVars == <<intent, due, proof>>
moneyVars == <<wallet, ledger, tenant>>
hookVars  == <<charge, nonce, hook, acked, crashes, faults>>
vars == <<intent, due, proof, wallet, ledger, tenant, sub, rev,
          charge, nonce, hook, acked, crashes, faults, edits>>

----------------------------------------------------------------------------
(* Row types *)

IntentStatus == {"absent", "pending", "awaiting_proof", "under_review",
                 "succeeded", "failed", "expired"}
ProofStatus  == {"auto_approved", "awaiting_review", "approved", "rejected"}

NoProof  == [status |-> "none"]
NoCharge == [made |-> FALSE]
Idle     == [pc |-> "idle"]

ProofRow  == [status : ProofStatus, intent : ManualIntents]
ChargeRow == [made : {TRUE}, intent : CardIntents, paid : BOOLEAN,
              exact : BOOLEAN]
LedgerRow == [key : Keys, intent : Intents]

SubState == {Idle}
       \cup [pc : {"checked"}, intent : ManualIntents, receipt : Receipts]
       \cup [pc : {"decided"}, intent : ManualIntents, receipt : Receipts,
             approved : BOOLEAN]
RevState == {Idle} \cup [pc : {"loaded"}, receipt : Receipts]

(* Every row and every request in flight is well formed. *)
TypeOK ==
    /\ intent \in [Intents -> IntentStatus]
    /\ due \in [Intents -> BOOLEAN]
    /\ proof \in [Receipts -> {NoProof} \cup ProofRow]
    /\ wallet \in WalletRow
    /\ ledger \subseteq LedgerRow
    /\ tenant \in {"writable", "read_only"}
    /\ sub \in [Submitters -> SubState]
    /\ rev \in [Reviewers -> RevState]
    /\ charge \in [Charges -> {NoCharge} \cup ChargeRow]
    /\ nonce \in [Charges -> BOOLEAN]
    /\ hook \in [Charges -> {"idle", "running"}]
    /\ acked \in [Charges -> BOOLEAN]
    /\ crashes \in 0..MaxCrashes
    /\ faults \in 0..MaxFaults
    /\ edits \in 0..MaxConfigEdits

Init ==
    /\ intent = [i \in Intents |-> "absent"]
    /\ due = [i \in Intents |-> FALSE]
    /\ proof = [e \in Receipts |-> NoProof]
    /\ wallet = [balance |-> InitialBalance, hold |-> 0, status |-> "active",
                 warned |-> warning_level_for(InitialBalance)]
    /\ ledger = {}
    /\ tenant \in {"writable", "read_only"}
    /\ sub = [s \in Submitters |-> Idle]
    /\ rev = [r \in Reviewers |-> Idle]
    /\ charge = [c \in Charges |-> NoCharge]
    /\ nonce = [c \in Charges |-> FALSE]
    /\ hook = [c \in Charges |-> "idle"]
    /\ acked = [c \in Charges |-> FALSE]
    /\ crashes = 0
    /\ faults = 0
    /\ edits = 0

----------------------------------------------------------------------------
(* Crediting: credit_topup_intent and the apply_entry call inside it. *)

(* apply_entry is refused on a suspended wallet; the caller rolls back. *)
WalletAccepts == wallet.status # "suspended"

(* IntegrityError on uq_wallet_tx_idempotency_key: already applied. *)
KeyApplied(key) == \E row \in ledger : row.key = key

(* Append the ledger row and move the balance, unless the key is known. *)
apply_entry(w, i, key) ==
    IF KeyApplied(key)
    THEN /\ ledger' = ledger
         /\ wallet' = w
         /\ tenant' = tenant
    ELSE /\ ledger' = ledger \cup {[key |-> key, intent |-> i]}
         /\ wallet' = bump_warning_level([w EXCEPT !.balance = @ + Amount[i]])
         /\ tenant' = "writable"

(* Variants of credit_topup_intent with one fault each, for the mutation   *)
(* runs: no status guard, an expired intent refused, the hold kept.        *)
credit_without_status_guard(i, key) ==
    /\ WalletAccepts
    /\ apply_entry(IF intent[i] = "under_review"
                   THEN release_pending_hold(wallet, Amount[i])
                   ELSE wallet, i, key)
    /\ intent' = [intent EXCEPT ![i] = "succeeded"]

credit_refusing_expired(i, key) ==
    IF intent[i] \in {"succeeded", "expired"}
    THEN UNCHANGED <<intent, moneyVars>>
    ELSE /\ WalletAccepts
         /\ apply_entry(IF intent[i] = "under_review"
                        THEN release_pending_hold(wallet, Amount[i])
                        ELSE wallet, i, key)
         /\ intent' = [intent EXCEPT ![i] = "succeeded"]

credit_keeping_hold(i, key) ==
    IF intent[i] = "succeeded"
    THEN UNCHANGED <<intent, moneyVars>>
    ELSE /\ WalletAccepts
         /\ apply_entry(wallet, i, key)
         /\ intent' = [intent EXCEPT ![i] = "succeeded"]

(* The intent row is locked and re-read, so intent[i] is the committed row. *)
credit_topup_intent(i, key) ==
    IF intent[i] = "succeeded"
    THEN UNCHANGED <<intent, moneyVars>>
    ELSE /\ WalletAccepts
         /\ apply_entry(IF intent[i] = "under_review"
                        THEN release_pending_hold(wallet, Amount[i])
                        ELSE wallet, i, key)
         /\ intent' = [intent EXCEPT ![i] = "succeeded"]

----------------------------------------------------------------------------
(* CreateTopupUseCase *)

_create_card(i) ==
    /\ i \in CardIntents /\ intent[i] = "absent"
    /\ intent' = [intent EXCEPT ![i] = "pending"]
    /\ UNCHANGED <<due, proof, moneyVars, sub, rev, hookVars, edits>>

_create_manual(i) ==
    /\ i \in ManualIntents /\ intent[i] = "absent"
    /\ intent' = [intent EXCEPT ![i] = "awaiting_proof"]
    /\ UNCHANGED <<due, proof, moneyVars, sub, rev, hookVars, edits>>

(* expires_at passes. *)
WindowCloses(i) ==
    /\ i \in Expirable /\ intent[i] # "absent" /\ ~due[i]
    /\ due' = [due EXCEPT ![i] = TRUE]
    /\ UNCHANGED <<intent, proof, moneyVars, sub, rev, hookVars, edits>>

(* The beat task: one bulk UPDATE of every stale open intent. *)
expire_wallet_topups ==
    LET stale == {i \in Intents : due[i] /\ intent[i] \in {"pending", "awaiting_proof"}}
    IN  /\ stale # {}
        /\ intent' = [i \in Intents |-> IF i \in stale THEN "expired" ELSE intent[i]]
        /\ UNCHANGED <<due, proof, moneyVars, sub, rev, hookVars, edits>>

----------------------------------------------------------------------------
(* SubmitTopupProofUseCase: checks, then upload and OCR, then the write. *)

(* The unlocked checks on the intent and the duplicate pre-check. *)
CheckSubmission(s, i, e) ==
    /\ sub[s] = Idle
    /\ intent[i] \in {"awaiting_proof", "under_review"}
    /\ ~due[i]
    /\ proof[e] = NoProof
    /\ sub' = [sub EXCEPT ![s] = [pc |-> "checked", intent |-> i, receipt |-> e]]
    /\ UNCHANGED <<topupVars, moneyVars, rev, hookVars, edits>>

(* _daily_auto_approved counts committed rows, without a lock. *)
AutoApproved == {e \in Receipts : proof[e].status = "auto_approved"}

(* Fault: the daily count is not consulted. *)
AllowedWithoutDailyCount(i) == ~due[i]

(* What evaluate() may answer once OCR is back: amounts, OCR fields and    *)
(* thresholds can always send a receipt to review; an expired intent and   *)
(* an exhausted daily count must.                                          *)
AutoApprovalAllowed(i) == ~due[i] /\ Cardinality(AutoApproved) < DailyCountCap

EvaluateAutoApproval(s, approved) ==
    /\ sub[s].pc = "checked"
    /\ approved => AutoApprovalAllowed(sub[s].intent)
    /\ sub' = [sub EXCEPT ![s] = [pc |-> "decided", intent |-> sub[s].intent,
                                  receipt |-> sub[s].receipt,
                                  approved |-> approved]]
    /\ UNCHANGED <<topupVars, moneyVars, rev, hookVars, edits>>

(* Fault: a credit that landed meanwhile is not looked for. *)
QueueForReviewAlways(i) ==
    /\ wallet' = IF intent[i] = "awaiting_proof"
                 THEN add_pending_hold(wallet, Amount[i])
                 ELSE wallet
    /\ intent' = [intent EXCEPT ![i] = "under_review"]
    /\ UNCHANGED <<ledger, tenant>>

(* The non-approved branch, under the intent and wallet row locks. *)
QueueForReview(i) ==
    /\ wallet' = IF intent[i] = "awaiting_proof"
                 THEN add_pending_hold(wallet, Amount[i])
                 ELSE wallet
    /\ intent' = IF intent[i] = "succeeded"
                 THEN intent
                 ELSE [intent EXCEPT ![i] = "under_review"]
    /\ UNCHANGED <<ledger, tenant>>

StoreProof(s) ==
    LET i == sub[s].intent
        e == sub[s].receipt
    IN  /\ sub[s].pc = "decided"
        /\ proof[e] = NoProof
        /\ proof' = [proof EXCEPT ![e] =
                [status |-> IF sub[s].approved THEN "auto_approved"
                                               ELSE "awaiting_review",
                 intent |-> i]]
        /\ IF sub[s].approved
           THEN credit_topup_intent(i, e)
           ELSE QueueForReview(i)
        /\ sub' = [sub EXCEPT ![s] = Idle]
        /\ UNCHANGED <<due, rev, hookVars, edits>>

(* The request ends without a write: storage or OCR raised, the unique     *)
(* constraint fired, or the wallet was suspended under an auto-approval.   *)
SubmissionFails(s) ==
    /\ sub[s] # Idle
    /\ sub' = [sub EXCEPT ![s] = Idle]
    /\ UNCHANGED <<topupVars, moneyVars, rev, hookVars, edits>>

----------------------------------------------------------------------------
(* ReviewTopupProofUseCase: the proof status is read without a lock. *)

LoadProof(r, e) ==
    /\ rev[r] = Idle
    /\ proof[e].status = "awaiting_review"
    /\ rev' = [rev EXCEPT ![r] = [pc |-> "loaded", receipt |-> e]]
    /\ UNCHANGED <<topupVars, moneyVars, sub, hookVars, edits>>

approve(r) ==
    LET e == rev[r].receipt IN
    /\ rev[r].pc = "loaded"
    /\ proof' = [proof EXCEPT ![e].status = "approved"]
    /\ credit_topup_intent(proof[e].intent, e)
    /\ rev' = [rev EXCEPT ![r] = Idle]
    /\ UNCHANGED <<due, sub, hookVars, edits>>

(* Fault: the on-hold amount outlives the rejection. *)
reject_keeping_hold(r) ==
    LET e == rev[r].receipt
        i == proof[rev[r].receipt].intent
    IN  /\ rev[r].pc = "loaded"
        /\ proof' = [proof EXCEPT ![e].status = "rejected"]
        /\ intent' = IF intent[i] = "succeeded"
                     THEN intent
                     ELSE [intent EXCEPT ![i] = "awaiting_proof"]
        /\ rev' = [rev EXCEPT ![r] = Idle]
        /\ UNCHANGED <<due, moneyVars, sub, hookVars, edits>>

reject(r) ==
    LET e == rev[r].receipt
        i == proof[rev[r].receipt].intent
    IN  /\ rev[r].pc = "loaded"
        /\ proof' = [proof EXCEPT ![e].status = "rejected"]
        /\ wallet' = IF intent[i] = "under_review"
                     THEN release_pending_hold(wallet, Amount[i])
                     ELSE wallet
        /\ intent' = IF intent[i] = "succeeded"
                     THEN intent
                     ELSE [intent EXCEPT ![i] = "awaiting_proof"]
        /\ rev' = [rev EXCEPT ![r] = Idle]
        /\ UNCHANGED <<due, ledger, tenant, sub, hookVars, edits>>

(* WalletSuspendedError, or the administrator's request is abandoned. *)
ReviewFails(r) ==
    /\ rev[r] # Idle
    /\ rev' = [rev EXCEPT ![r] = Idle]
    /\ UNCHANGED <<topupVars, moneyVars, sub, hookVars, edits>>

----------------------------------------------------------------------------
(* The platform gateway (external) and its callback. *)

GatewayCharges(c, i, paid, exact) ==
    /\ charge[c] = NoCharge
    /\ intent[i] # "absent"
    /\ charge' = [charge EXCEPT ![c] =
            [made |-> TRUE, intent |-> i, paid |-> paid, exact |-> exact]]
    /\ UNCHANGED <<topupVars, moneyVars, sub, rev, nonce, hook, acked,
                   crashes, faults, edits>>

(* A callback arrives and takes the replay key. *)
TakeNonce(c) ==
    /\ charge[c].made /\ ~acked[c]
    /\ hook[c] = "idle" /\ ~nonce[c]
    /\ nonce' = [nonce EXCEPT ![c] = TRUE]
    /\ hook' = [hook EXCEPT ![c] = "running"]
    /\ UNCHANGED <<topupVars, moneyVars, sub, rev, charge, acked,
                   crashes, faults, edits>>

(* A callback arrives, finds the key taken and answers 200 "duplicate". *)
RejectDuplicate(c) ==
    /\ charge[c].made /\ ~acked[c] /\ nonce[c]
    /\ hook[c] = "idle" \/ OverlapDeliveries
    /\ acked' = [acked EXCEPT ![c] = TRUE]
    /\ UNCHANGED <<topupVars, moneyVars, sub, rev, charge, nonce, hook,
                   crashes, faults, edits>>

(* set_if_absent reads a failing Redis as a key already taken: the callback *)
(* answers 200 "duplicate", though nobody works on the charge.              *)
NonceRefused(c) ==
    /\ crashes < MaxCrashes
    /\ charge[c].made /\ ~acked[c] /\ ~nonce[c]
    /\ acked' = [acked EXCEPT ![c] = TRUE]
    /\ crashes' = crashes + 1
    /\ UNCHANGED <<topupVars, moneyVars, sub, rev, charge, nonce, hook,
                   faults, edits>>

Creditable(i) == intent[i] \in {"pending", "expired", "failed"}

(* Fault: a decline is recorded whatever the intent's status. *)
SettleDeclineAlways(i) ==
    /\ intent' = [intent EXCEPT ![i] = "failed"]
    /\ UNCHANGED moneyVars

(* The callback body, under the intent row lock: a decline, a success that *)
(* credits, or a callback that changes nothing.                            *)
SettleDecline(i) ==
    /\ intent' = IF intent[i] = "pending"
                 THEN [intent EXCEPT ![i] = "failed"]
                 ELSE intent
    /\ UNCHANGED moneyVars

SettleSuccess(i, c) ==
    IF Creditable(i) /\ charge[c].exact
    THEN credit_topup_intent(i, c)
    ELSE UNCHANGED <<intent, moneyVars>>

(* It commits and answers 200; the answer may be lost on the way back. *)
Settle(c, answered) ==
    LET i == charge[c].intent IN
    /\ hook[c] = "running"
    /\ IF charge[c].paid THEN SettleSuccess(i, c) ELSE SettleDecline(i)
    /\ hook' = [hook EXCEPT ![c] = "idle"]
    /\ acked' = [acked EXCEPT ![c] = @ \/ answered]
    /\ UNCHANGED <<due, proof, sub, rev, charge, nonce, crashes, faults,
                   edits>>

(* The callback raises: apply_entry met a suspended wallet, or the database *)
(* failed.  The transaction rolls back, the replay key is released and the *)
(* gateway gets a 500.                                                     *)
SuspensionStops(c) ==
    /\ charge[c].paid /\ charge[c].exact /\ Creditable(charge[c].intent)
    /\ ~WalletAccepts

(* Fault: the replay key of a failed callback is kept. *)
CallbackRaisesKeepingNonce(c) ==
    /\ hook[c] = "running"
    /\ \/ SuspensionStops(c) /\ faults' = faults
       \/ faults < MaxFaults /\ faults' = faults + 1
    /\ hook' = [hook EXCEPT ![c] = "idle"]
    /\ UNCHANGED <<topupVars, moneyVars, sub, rev, charge, nonce, acked,
                   crashes, edits>>

CallbackRaises(c) ==
    /\ hook[c] = "running"
    /\ \/ SuspensionStops(c) /\ faults' = faults
       \/ faults < MaxFaults /\ faults' = faults + 1
    /\ nonce' = [nonce EXCEPT ![c] = FALSE]
    /\ hook' = [hook EXCEPT ![c] = "idle"]
    /\ UNCHANGED <<topupVars, moneyVars, sub, rev, charge, acked, crashes, edits>>

(* The worker is killed mid-callback, or Redis refuses the release: the    *)
(* replay key stays.                                                       *)
WorkerCrashes(c) ==
    /\ crashes < MaxCrashes
    /\ hook[c] = "running"
    /\ hook' = [hook EXCEPT ![c] = "idle"]
    /\ crashes' = crashes + 1
    /\ UNCHANGED <<topupVars, moneyVars, sub, rev, charge, nonce, acked,
                   faults, edits>>

(* NONCE_TTL_SECONDS have passed since the key was taken. *)
NonceExpires(c) ==
    /\ nonce[c] /\ hook[c] = "idle"
    /\ nonce' = [nonce EXCEPT ![c] = FALSE]
    /\ UNCHANGED <<topupVars, moneyVars, sub, rev, charge, hook, acked,
                   crashes, faults, edits>>

----------------------------------------------------------------------------
(* The administrator edits the wallet, and the tenant's plan lapses. *)

update_wallet_config(status) ==
    /\ edits < MaxConfigEdits
    /\ status # wallet.status
    /\ wallet' = [wallet EXCEPT !.status = status]
    /\ edits' = edits + 1
    /\ UNCHANGED <<topupVars, ledger, tenant, sub, rev, hookVars>>

TenantLapses ==
    /\ tenant = "writable"
    /\ tenant' = "read_only"
    /\ UNCHANGED <<topupVars, wallet, ledger, sub, rev, hookVars, edits>>

----------------------------------------------------------------------------
Next ==
    \/ \E i \in CardIntents : _create_card(i)
    \/ \E i \in ManualIntents : _create_manual(i)
    \/ \E i \in Intents : WindowCloses(i)
    \/ expire_wallet_topups
    \/ \E s \in Submitters, i \in ManualIntents, e \in Receipts :
            CheckSubmission(s, i, e)
    \/ \E s \in Submitters, approved \in BOOLEAN : EvaluateAutoApproval(s, approved)
    \/ \E s \in Submitters : StoreProof(s)
    \/ \E s \in Submitters : SubmissionFails(s)
    \/ \E r \in Reviewers, e \in Receipts : LoadProof(r, e)
    \/ \E r \in Reviewers : approve(r)
    \/ \E r \in Reviewers : reject(r)
    \/ \E r \in Reviewers : ReviewFails(r)
    \/ \E c \in Charges, i \in CardIntents, paid, exact \in BOOLEAN :
            GatewayCharges(c, i, paid, exact)
    \/ \E c \in Charges : TakeNonce(c)
    \/ \E c \in Charges : RejectDuplicate(c)
    \/ \E c \in Charges : NonceRefused(c)
    \/ \E c \in Charges, answered \in BOOLEAN : Settle(c, answered)
    \/ \E c \in Charges : CallbackRaises(c)
    \/ \E c \in Charges : WorkerCrashes(c)
    \/ \E c \in Charges : NonceExpires(c)
    \/ \E status \in WalletStatus : update_wallet_config(status)
    \/ TenantLapses

Spec == Init /\ [][Next]_vars

(* A running callback ends, and the gateway redelivers until it reads 2xx. *)
Fairness ==
    \A c \in Charges :
        /\ WF_vars(TakeNonce(c) \/ RejectDuplicate(c))
        /\ WF_vars(Settle(c, TRUE) \/ CallbackRaises(c))

FairSpec == Spec /\ Fairness

----------------------------------------------------------------------------
(* Properties *)

(* A top-up intent is credited at most once, whichever of the webhook, the *)
(* auto-approval and the two administrators asks, and in whatever order:   *)
(* credit_topup_intent's locked status guard, not the ledger key, decides. *)
CreditedOnce ==
    \A row1, row2 \in ledger : row1.intent = row2.intent => row1 = row2

(* An intent reads succeeded exactly when its money is on the ledger, so   *)
(* neither a late decline nor the sweep can hide a credit, and no status   *)
(* write promises one that was not made.                                   *)
SucceededIffCredited ==
    \A i \in Intents :
        intent[i] = "succeeded" <=> \E row \in ledger : row.intent = i

(* A receipt that was approved, by the rules or by a person, has put its   *)
(* intent's money on the ledger, even if the sweep expired the intent or   *)
(* a second receipt was rejected in between.                               *)
ApprovedIsCredited ==
    \A e \in Receipts :
        proof[e].status \in {"approved", "auto_approved"} =>
            \E row \in ledger : row.intent = proof[e].intent

(* A credited intent never leaves succeeded: the comment in                *)
(* SubmitTopupProofUseCase says "never move a succeeded intent back".      *)
SucceededIsFinal ==
    [][\A i \in Intents : intent[i] = "succeeded" => intent'[i] = "succeeded"]_vars

UnderReview == {i \in Intents : intent[i] = "under_review"}

(* The on-hold amount the merchant sees is never more than what is really  *)
(* under review, whatever the interleaving of uploads, reviews and sweeps. *)
HoldNeverExceedsReview ==
    wallet.hold <= SumFunctionOnSet(Amount, UnderReview)

(* The on-hold amount is what is under review: each hold added by an       *)
(* upload is released by the decision on that intent and by nothing else.  *)
HoldsMatchReview ==
    wallet.hold = SumFunctionOnSet(Amount, UnderReview)

(* Uploads decided at the same time read the same daily count, so the cap  *)
(* can be overshot, but by no more than the other uploads in flight.       *)
AutoApprovalOvershoot ==
    Cardinality(AutoApproved) <= DailyCountCap + Cardinality(Submitters) - 1

PaidInFull(c) == charge[c].made /\ charge[c].paid /\ charge[c].exact
Credited(c) ==
    charge[c].made /\ \E row \in ledger : row.intent = charge[c].intent

(* Real money is not lost to a slow gateway: once the gateway has taken    *)
(* the exact amount, the intent is credited, provided the wallet is not    *)
(* left suspended for ever, no worker is killed mid-callback (its replay   *)
(* key would answer the retries) and Redis does not fail a callback.       *)
PaidIsCredited ==
    (<>[]WalletAccepts /\ [](crashes = 0)) =>
        \A c \in Charges : PaidInFull(c) ~> Credited(c)

=============================================================================
