---------------------------- MODULE Subscription ----------------------------
(***************************************************************************)
(* The plan of one tenant: trial, payment by card or by InstaPay receipt,  *)
(* renewal and dunning, read-only grace and purge.  The renewal sweep, the *)
(* trial expiry, the purge, a merchant's request and an admin's review     *)
(* each load rows, wait (for a gateway, an upload, a batch) and write back *)
(* only the columns they changed, without a lock; every other operation is *)
(* one short transaction.  Times are whole days; an intent's payment       *)
(* window (one hour) is over at the next day.                              *)
(***************************************************************************)
EXTENDS Integers

CONSTANTS
    Intents,      \* subscription payment intents
    CardIntents,  \* those paid on the card page, not by InstaPay
    Receipts,     \* InstaPay receipts a merchant may upload
    Trial,        \* days of a trial, and of an extension
    Period,       \* days of a billing cycle
    Grace,        \* READ_ONLY_GRACE_DAYS
    Backoff,      \* dunning_retry_backoff_hours
    MaxRetries,   \* dunning_max_retries
    Window,       \* dunning_window_hours
    MaxNow,       \* bound on the clock
    MaxChanges,   \* bound on the changes of mind and the faults of the callback
    MaxJobs,      \* bound on the jobs that wait at the same time
    Nil           \* SQL's NULL

ASSUME SubscriptionAssumption ==
    /\ {Trial, Period, Grace, Backoff} \subseteq Nat \ {0}
    /\ {MaxRetries, Window, MaxNow, MaxChanges, MaxJobs} \subseteq Nat
    /\ CardIntents \subseteq Intents
    /\ Nil \notin Nat

Day == Nat \cup {Nil}
TenantRow == [state : {"trial", "active", "past_due", "read_only", "deleted"},
              plan : {"trial", "paid", "payg"}, next : Day, expires : Day,
              delete : Day, card : BOOLEAN, retries : Nat, started : Day,
              cancelled : BOOLEAN, paused : BOOLEAN]
OpenStatuses == {"awaiting_proof", "under_review"}
IntentStatuses == OpenStatuses \cup {"none", "succeeded", "expired"}
IntentRow == [status : IntentStatuses, renewal : BOOLEAN, late : BOOLEAN]
ReceiptRow == [status : {"none", "awaiting_review", "auto_approved", "approved",
                         "rejected"},
               intent : Intents \cup {Nil}]
HookRow == [charge : {"none", "exact", "other"}, nonce : BOOLEAN,
            running : BOOLEAN, acked : BOOLEAN]

VARIABLES
    now,       \* the clock
    tenant,    \* the tenant's row
    intent,    \* the payment intents
    receipt,   \* the receipts (payment proofs)
    hook,      \* Kashier's callback for each card intent, and its replay key
    sweep,     \* the renewal sweep, with its copy of the tenant
    expiry,    \* the trial expiry, with its copy of the tenant
    purge,     \* the purge, with its copy of the tenant
    request,   \* a merchant's request that waits for a gateway or an upload
    review,    \* an admin's review of a receipt
    changes,   \* changes of mind and faults of the callback so far
    sold,      \* ghost: the day up to which invoices have sold the plan
    since,     \* ghost: the day the tenant last became read-only
    activated, \* ghost: how often each intent was applied to the tenant
    overtaken, \* ghost: somebody wrote over a tenant row that had changed
    contested, \* ghost: intents written by a request that had read another status
    reopened,  \* ghost: intents reopened by a rejection after they succeeded
    abandoned  \* ghost: intents one of whose callbacks failed unnoticed

rows == <<tenant, intent, receipt>>
jobs == <<sweep, expiry, purge, request, review>>
intentGhosts == <<activated, contested, reopened, abandoned>>
ghosts == <<sold, since, overtaken, intentGhosts>>
vars == <<now, rows, hook, jobs, changes, ghosts>>

-----------------------------------------------------------------------------
(* Rows as the operations leave them.                                      *)

TrialTenant ==
    [state |-> "trial", plan |-> "trial", next |-> Nil, expires |-> Trial,
     delete |-> Nil, card |-> FALSE, retries |-> 0, started |-> Nil,
     cancelled |-> FALSE, paused |-> FALSE]

Anchor(row, day) == IF row.next = Nil THEN day ELSE row.next

(* Fault: a deadline that is already set is kept.                          *)
ReadOnlyKeepingDeadline(row) ==
    [row EXCEPT !.state = "read_only", !.expires = Nil,
                !.delete = IF @ = Nil THEN now + Grace ELSE @]

(* transition_to_read_only, and the trial expiry's own copy of it.         *)
ReadOnly(row) ==
    [row EXCEPT !.state = "read_only", !.delete = now + Grace, !.expires = Nil]

(* Fault: the cycle starts on the day of payment.                          *)
RenewedFromNow(row) ==
    [row EXCEPT !.plan = "paid", !.next = now + Period, !.retries = 0,
                !.state = "active"]

(* A payment of a running plan: one cycle from the current anchor.         *)
Renewed(row) ==
    [row EXCEPT !.plan = "paid", !.next = Anchor(row, now) + Period, !.retries = 0,
                !.state = "active"]

Subscribed(row) ==
    [row EXCEPT !.state = "active", !.plan = "paid", !.started = now,
                !.next = now + Period, !.expires = Nil, !.delete = Nil,
                !.retries = 0]

Payg(row) ==
    [row EXCEPT !.state = "active", !.plan = "payg", !.next = Nil,
                !.expires = Nil, !.delete = Nil, !.retries = 0]

Cancelled(row) ==
    ReadOnly([row EXCEPT !.card = FALSE, !.retries = 0, !.cancelled = TRUE,
                         !.next = Nil])

-----------------------------------------------------------------------------
(* A flush writes the columns that differ from the loaded copy.            *)

Column(loaded, new, current) == IF new = loaded THEN current ELSE new
Flushed(row, new) ==
    [state     |-> Column(row.state, new.state, tenant.state),
     plan      |-> Column(row.plan, new.plan, tenant.plan),
     next      |-> Column(row.next, new.next, tenant.next),
     expires   |-> Column(row.expires, new.expires, tenant.expires),
     delete    |-> Column(row.delete, new.delete, tenant.delete),
     card      |-> Column(row.card, new.card, tenant.card),
     retries   |-> Column(row.retries, new.retries, tenant.retries),
     started   |-> Column(row.started, new.started, tenant.started),
     cancelled |-> Column(row.cancelled, new.cancelled, tenant.cancelled),
     paused    |-> Column(row.paused, new.paused, tenant.paused)]

Alive == tenant.state # "deleted"

(* The row is written from a copy; stale says that the copy was not the    *)
(* row the writer had decided on.                                          *)
Write(row, new, stale) ==
    /\ Alive
    /\ tenant' = Flushed(row, new)
    /\ since' = IF tenant'.state = "read_only" /\ tenant.state # "read_only"
                THEN now ELSE since
    /\ overtaken' = (overtaken \/ stale \/ row # tenant)

One(b) == IF b THEN 1 ELSE 0
MayStart ==
    One(sweep.pc # "idle") + One(expiry.held) + One(purge.held)
        + One(request.kind # "none") + One(review.receipt # Nil)
        + One(\E i \in CardIntents : hook[i].running) < MaxJobs
Change == changes < MaxChanges /\ changes' = changes + 1
ChangeUnless(usual) == IF usual THEN UNCHANGED changes ELSE Change

(* An invoice sells a period that begins at start, after what is sold.     *)
Sell(start) == sold' = (IF sold < start THEN start ELSE sold) + Period

-----------------------------------------------------------------------------
(* process_due_renewals for this tenant.                                   *)

NoSweep == [pc |-> "idle", row |-> TrialTenant, at |-> 0, stale |-> FALSE]
SweepDone ==
    /\ sweep' = NoSweep
    /\ UNCHANGED <<now, changes, intent, receipt, hook, expiry, purge, request,
                   review, intentGhosts>>
HasPaid == \E i \in Intents : intent[i].status = "succeeded"

SelectDue ==
    /\ sweep.pc = "idle" /\ MayStart
    /\ tenant.state \in {"active", "past_due"}
    /\ tenant.next # Nil /\ tenant.next <= now
    /\ ~tenant.paused
    /\ sweep' = [pc |-> "selected", row |-> tenant, at |-> now, stale |-> FALSE]
    /\ UNCHANGED <<now, changes, rows, hook, expiry, purge, request, review, ghosts>>

(* The row is read again and, if a period has a price, is charged for.     *)
LoadDue ==
    /\ sweep.pc = "selected"
    /\ Alive
    /\ tenant.plan = "paid"
    /\ tenant.card \/ HasPaid
    /\ sweep' = [sweep EXCEPT !.pc = IF tenant.card THEN "charging" ELSE "failed",
                              !.row = tenant, !.stale = sweep.row # tenant]
    /\ UNCHANGED <<now, changes, rows, hook, expiry, purge, request, review, ghosts>>

SkipFree ==
    /\ sweep.pc = "selected"
    /\ Alive
    /\ tenant.plan # "paid"
    /\ sweep' = [sweep EXCEPT !.pc = "free", !.row = tenant,
                              !.stale = sweep.row # tenant]
    /\ UNCHANGED <<now, changes, rows, hook, expiry, purge, request, review, ghosts>>

(* The skipped row is written by the next commit of the batch.             *)
CommitFree ==
    /\ sweep.pc = "free"
    /\ Write(sweep.row, [sweep.row EXCEPT !.next = sweep.at + Period, !.retries = 0],
             sweep.stale)
    /\ SweepDone
    /\ UNCHANGED sold

CardCharged ==
    /\ sweep.pc = "charging"
    /\ sweep' = [sweep EXCEPT !.pc = "charged"]
    /\ UNCHANGED <<now, changes, rows, hook, expiry, purge, request, review, ghosts>>

(* Declined, or the answer was lost after the card was charged.            *)
ChargeFailed ==
    /\ sweep.pc = "charging"
    /\ sweep' = [sweep EXCEPT !.pc = "failed"]
    /\ UNCHANGED <<now, changes, rows, hook, expiry, purge, request, review, ghosts>>

CommitPaid ==
    LET start == Anchor(sweep.row, sweep.at) IN
    /\ sweep.pc = "charged"
    /\ Write(sweep.row, [sweep.row EXCEPT !.next = start + Period, !.retries = 0,
                                          !.state = "active"], sweep.stale)
    /\ Sell(start)
    /\ SweepDone

Started(row) == IF row.started = Nil THEN Anchor(row, sweep.at) ELSE row.started
Exhausted(row) ==
    row.retries + 1 >= MaxRetries /\ sweep.at - Started(row) >= Window

CommitFailed ==
    LET row == sweep.row
        dunned == [row EXCEPT !.retries = @ + 1, !.state = "past_due",
                              !.next = sweep.at + Backoff]
    IN
    /\ sweep.pc = "failed"
    /\ Write(row, IF Exhausted(row) THEN ReadOnly(dunned) ELSE dunned, sweep.stale)
    /\ SweepDone
    /\ UNCHANGED sold

(* Skipped for want of a token, an error, a purged row or a lost worker:   *)
(* the transaction is rolled back.                                         *)
SweepEnds ==
    /\ sweep.pc # "idle"
    /\ sweep' = NoSweep
    /\ UNCHANGED <<now, changes, rows, hook, expiry, purge, request, review, ghosts>>

-----------------------------------------------------------------------------
(* Trial expiry, purge and the staff's billing operations.                 *)

NoExpiry == [held |-> FALSE, row |-> TrialTenant]

find_expired_trials ==
    /\ ~expiry.held /\ MayStart
    /\ tenant.state = "trial"
    /\ tenant.expires # Nil /\ tenant.expires < now
    /\ ~tenant.paused
    /\ expiry' = [held |-> TRUE, row |-> tenant]
    /\ UNCHANGED <<now, changes, rows, hook, sweep, purge, request, review, ghosts>>

TrialExpires ==
    /\ expiry.held
    /\ Write(expiry.row, ReadOnly(expiry.row), FALSE)
    /\ expiry' = NoExpiry
    /\ UNCHANGED <<now, changes, intent, receipt, hook, sweep, purge, request,
                   review, sold, intentGhosts>>

(* An error, a purged row or a lost worker: nothing is committed.          *)
ExpiryFails ==
    /\ expiry.held
    /\ expiry' = NoExpiry
    /\ UNCHANGED <<now, changes, rows, hook, sweep, purge, request, review, ghosts>>

ExtendTrial ==
    LET expired == tenant.state = "read_only" /\ tenant.plan = "trial"
                       /\ ~tenant.cancelled
        start == IF tenant.expires = Nil \/ tenant.expires < now
                 THEN now ELSE tenant.expires
    IN
    /\ tenant.state = "trial" \/ expired
    /\ start <= MaxNow
    /\ Change
    /\ Write(tenant, [tenant EXCEPT !.expires = start + Trial, !.state = "trial",
                        !.delete = IF expired THEN Nil ELSE @], FALSE)
    /\ UNCHANGED <<now, intent, receipt, hook, jobs, sold, intentGhosts>>

PauseBilling ==
    /\ Change
    /\ Write(tenant, [tenant EXCEPT !.paused = ~@], FALSE)
    /\ UNCHANGED <<now, intent, receipt, hook, jobs, sold, intentGhosts>>

NoPurge == [held |-> FALSE, row |-> TrialTenant]

(* Fault: any tenant past its delete_at is picked.                         *)
FindPurgeable ==
    /\ ~purge.held /\ MayStart
    /\ tenant.delete # Nil /\ tenant.delete < now
    /\ ~tenant.paused
    /\ purge' = [held |-> TRUE, row |-> tenant]
    /\ UNCHANGED <<now, changes, rows, hook, sweep, expiry, request, review, ghosts>>

find_purgeable_read_only ==
    /\ ~purge.held /\ MayStart
    /\ tenant.state = "read_only"
    /\ tenant.delete # Nil /\ tenant.delete < now
    /\ ~tenant.paused
    /\ purge' = [held |-> TRUE, row |-> tenant]
    /\ UNCHANGED <<now, changes, rows, hook, sweep, expiry, request, review, ghosts>>

PurgeTenant ==
    /\ purge.held
    /\ Alive
    /\ tenant' = [tenant EXCEPT !.state = "deleted"]
    /\ purge' = NoPurge
    /\ UNCHANGED <<now, changes, intent, receipt, hook, sweep, expiry, request,
                   review, ghosts>>

PurgeFails ==
    /\ purge.held
    /\ purge' = NoPurge
    /\ UNCHANGED <<now, changes, rows, hook, sweep, expiry, request, review, ghosts>>

-----------------------------------------------------------------------------
(* The merchant's short requests.                                          *)

CancelSubscription ==
    /\ tenant.state = "active"
    /\ Change
    /\ Write(tenant, Cancelled(tenant), FALSE)
    /\ sold' = 0
    /\ UNCHANGED <<now, intent, receipt, hook, jobs, intentGhosts>>

ChoosePayg ==
    /\ Change
    /\ Write(tenant, Payg(tenant), FALSE)
    /\ sold' = 0
    /\ UNCHANGED <<now, intent, receipt, hook, jobs, intentGhosts>>

(* save_plan_card after a card payment succeeded, and remove_plan_card.    *)
SaveCard ==
    /\ \E i \in CardIntents : intent[i].status = "succeeded"
    /\ Change
    /\ Write(tenant, [tenant EXCEPT !.card = TRUE], FALSE)
    /\ UNCHANGED <<now, intent, receipt, hook, jobs, sold, intentGhosts>>

RemoveCard ==
    /\ Change
    /\ Write(tenant, [tenant EXCEPT !.card = FALSE], FALSE)
    /\ UNCHANGED <<now, intent, receipt, hook, jobs, sold, intentGhosts>>

Open == {i \in Intents : intent[i].status \in OpenStatuses}
Superseded(o, i) ==
    /\ intent[o].status = "awaiting_proof"
    /\ i \in CardIntents \/ o \in CardIntents
classify_purpose ==
    /\ tenant.plan = "paid"
    /\ tenant.state \in {"active", "past_due"}
    /\ tenant.next # Nil

CreateIntent(i) ==
    /\ Alive
    /\ intent[i].status = "none"
    /\ \A o, p \in Open : o = p
    /\ \A o \in Open : Superseded(o, i)
    /\ intent' = [j \in Intents |->
         IF j = i THEN [status |-> "awaiting_proof", renewal |-> classify_purpose,
                        late |-> FALSE]
         ELSE IF j \in Open THEN [intent[j] EXCEPT !.status = "expired"]
         ELSE intent[j]]
    /\ UNCHANGED <<now, changes, tenant, receipt, hook, jobs, ghosts>>

(* Fault: an expired intent is recorded as failed.                         *)
FailIntent(i) ==
    /\ intent[i].status = "awaiting_proof"
    /\ intent[i].late
    /\ intent' = [intent EXCEPT ![i].status = "failed"]
    /\ UNCHANGED <<now, changes, tenant, receipt, hook, jobs, ghosts>>

ExpireIntent(i) ==
    /\ intent[i].status = "awaiting_proof"
    /\ intent[i].late
    /\ intent' = [intent EXCEPT ![i].status = "expired"]
    /\ UNCHANGED <<now, changes, tenant, receipt, hook, jobs, ghosts>>

-----------------------------------------------------------------------------
(* activate_verified_subscription_payment: row is the tenant it works on,  *)
(* seen the status the intent was loaded with.                             *)

RenewalShaped(i, row) == intent[i].renewal \/ row.state = "active"

Contested(i, seen) ==
    contested' = IF seen = intent[i].status THEN contested ELSE contested \cup {i}

Activate(i, row, seen) ==
    LET renewal == RenewalShaped(i, row) IN
    /\ Write(row, IF renewal THEN Renewed(row) ELSE Subscribed(row), FALSE)
    /\ Sell(IF renewal THEN Anchor(row, now) ELSE now)
    /\ activated' = [activated EXCEPT ![i] = @ + 1]
    /\ Contested(i, seen)
    /\ intent' = [intent EXCEPT ![i].status = "succeeded"]
    /\ UNCHANGED <<now, reopened, abandoned>>

-----------------------------------------------------------------------------
(* A card payment is taken in the browser, of the intent's amount or of    *)
(* another; Kashier reports it until it reads 2xx, perhaps late, perhaps   *)
(* more than once, and two deliveries may overlap.  A declined attempt is  *)
(* a transaction of its own whose report changes no row.                   *)

NoHook == [charge |-> "none", nonce |-> FALSE, running |-> FALSE, acked |-> FALSE]

PayCard(i, amount) ==
    /\ intent[i].status # "none"
    /\ hook[i].charge = "none"
    /\ hook' = [hook EXCEPT ![i].charge = amount]
    /\ ChangeUnless(amount = "exact")
    /\ UNCHANGED <<now, rows, jobs, ghosts>>

(* kashier_platform_callback: the first delivery takes the replay key...   *)
TakeNonce(i) ==
    /\ hook[i].charge # "none" /\ ~hook[i].acked
    /\ ~hook[i].nonce /\ MayStart
    /\ hook' = [hook EXCEPT ![i].nonce = TRUE, ![i].running = TRUE]
    /\ UNCHANGED <<now, changes, rows, jobs, ghosts>>

(* ... and any other is answered 200 "duplicate" while the key is there.   *)
RejectDuplicate(i) ==
    /\ hook[i].nonce /\ ~hook[i].acked
    /\ hook' = [hook EXCEPT ![i].acked = TRUE]
    /\ UNCHANGED <<now, changes, rows, jobs, ghosts>>

(* set_if_absent reads a failing Redis as a key already taken: the answer  *)
(* is "duplicate", though nobody works on the payment.                     *)
NonceRefused(i) ==
    /\ hook[i].charge # "none" /\ ~hook[i].acked
    /\ ~hook[i].nonce
    /\ Change
    /\ hook' = [hook EXCEPT ![i].acked = TRUE]
    /\ abandoned' = abandoned \cup {i}
    /\ UNCHANGED <<now, rows, jobs, sold, since, overtaken, activated,
                   contested, reopened>>

(* The delivery answers 200; the answer may be lost on the way.            *)
Answered(i, heard) ==
    /\ hook[i].running
    /\ hook' = [hook EXCEPT ![i].running = FALSE, ![i].acked = @ \/ heard]
    /\ ChangeUnless(heard)

(* Faults: a repeated report is applied again; a failing delivery keeps    *)
(* the replay key.                                                         *)
SettleAgain(i, heard) ==
    /\ Answered(i, heard)
    /\ hook[i].charge = "exact"
    /\ Activate(i, tenant, intent[i].status)
    /\ UNCHANGED <<receipt, jobs>>
RaiseKeepingNonce(i) ==
    /\ hook[i].running
    /\ Change
    /\ hook' = [hook EXCEPT ![i].running = FALSE]
    /\ abandoned' = IF hook[i].acked THEN abandoned \cup {i} ELSE abandoned
    /\ UNCHANGED <<now, rows, jobs, sold, since, overtaken, activated,
                   contested, reopened>>

(* _settle_subscription locks the intent; an expired one is opened again.  *)
SettleSubscription(i, heard) ==
    /\ Answered(i, heard)
    /\ hook[i].charge = "exact"
    /\ intent[i].status \in OpenStatuses \cup {"expired"}
    /\ Activate(i, tenant, intent[i].status)
    /\ UNCHANGED <<receipt, jobs>>

(* Nothing to do: the intent succeeded before, another amount was paid, or *)
(* the intent is not found, deleted with its tenant.                       *)
SettleNothing(i, heard) ==
    /\ Answered(i, heard)
    /\ intent[i].status = "succeeded" \/ hook[i].charge # "exact" \/ ~Alive
    /\ UNCHANGED <<now, rows, jobs, ghosts>>

(* The handler raises: the replay key is released and Kashier gets a 500,  *)
(* which it does not see if a retry has been answered as a duplicate.      *)
CallbackRaises(i) ==
    /\ hook[i].running
    /\ Change
    /\ hook' = [hook EXCEPT ![i].running = FALSE, ![i].nonce = FALSE]
    /\ abandoned' = IF hook[i].acked THEN abandoned \cup {i} ELSE abandoned
    /\ UNCHANGED <<now, rows, jobs, sold, since, overtaken, activated,
                   contested, reopened>>

(* The worker is killed, or Redis refuses the release: the key stays.      *)
WorkerLost(i) ==
    /\ hook[i].running
    /\ Change
    /\ hook' = [hook EXCEPT ![i].running = FALSE]
    /\ abandoned' = abandoned \cup {i}
    /\ UNCHANGED <<now, rows, jobs, sold, since, overtaken, activated,
                   contested, reopened>>

NonceExpires(i) ==
    /\ hook[i].nonce /\ ~hook[i].running
    /\ hook' = [hook EXCEPT ![i].nonce = FALSE]
    /\ UNCHANGED <<now, changes, rows, jobs, ghosts>>

-----------------------------------------------------------------------------
(* Requests that wait: an upload with its OCR, and a first card charge.    *)
(* The route's copy of the tenant is the one activation works on.          *)

NoRequest == [kind |-> "none", receipt |-> Nil, intent |-> Nil,
              row |-> TrialTenant, seen |-> "none"]

StartUpload(r, i) ==
    /\ request.kind = "none" /\ MayStart
    /\ Alive
    /\ receipt[r].status = "none"
    /\ intent[i].status \in OpenStatuses
    /\ ~intent[i].late
    /\ request' = [kind |-> "upload", receipt |-> r, intent |-> i,
                   row |-> tenant, seen |-> intent[i].status]
    /\ UNCHANGED <<now, changes, rows, hook, sweep, expiry, purge, review, ghosts>>

Filed(status) ==
    receipt' = [receipt EXCEPT ![request.receipt] =
                    [status |-> status, intent |-> request.intent]]

AutoApprove ==
    /\ request.kind = "upload"
    /\ Filed("auto_approved")
    /\ Activate(request.intent, request.row, request.seen)
    /\ request' = NoRequest
    /\ UNCHANGED <<changes, hook, sweep, expiry, purge, review>>

QueueForReview ==
    LET i == request.intent IN
    /\ request.kind = "upload"
    /\ Alive
    /\ Filed("awaiting_review")
    /\ intent' = [intent EXCEPT ![i].status =
                    Column(request.seen, "under_review", @)]
    /\ Contested(i, request.seen)
    /\ request' = NoRequest
    /\ UNCHANGED <<now, changes, tenant, hook, sweep, expiry, purge, review, sold,
                   since, overtaken, activated, reopened, abandoned>>

StartSubscribe ==
    /\ request.kind = "none" /\ MayStart
    /\ tenant.state \in {"trial", "past_due", "read_only"}
    /\ request' = [NoRequest EXCEPT !.kind = "subscribe", !.row = tenant]
    /\ UNCHANGED <<now, changes, rows, hook, sweep, expiry, purge, review, ghosts>>

Subscribe ==
    /\ request.kind = "subscribe"
    /\ Write(request.row, [Subscribed(request.row) EXCEPT !.card = TRUE], FALSE)
    /\ Sell(now)
    /\ request' = NoRequest
    /\ UNCHANGED <<now, changes, intent, receipt, hook, sweep, expiry, purge, review,
                   intentGhosts>>

(* Declined, refused, or the process is lost: nothing is committed.        *)
RequestFails ==
    /\ request.kind # "none"
    /\ request' = NoRequest
    /\ UNCHANGED <<now, changes, rows, hook, sweep, expiry, purge, review, ghosts>>

-----------------------------------------------------------------------------
(* The admin's review.  Neither the receipt nor the intent is locked; the  *)
(* tenant is, so approval works on its current row.                        *)

NoReview == [receipt |-> Nil, seen |-> "none"]
Reviewed == receipt[review.receipt].intent

StartReview(r) ==
    /\ review.receipt = Nil /\ MayStart
    /\ Alive
    /\ receipt[r].status = "awaiting_review"
    /\ review' = [receipt |-> r, seen |-> intent[receipt[r].intent].status]
    /\ UNCHANGED <<now, changes, rows, hook, sweep, expiry, purge, request, ghosts>>

Decided(status) ==
    /\ review.receipt # Nil
    /\ receipt' = [receipt EXCEPT ![review.receipt].status = status]
    /\ review' = NoReview
    /\ UNCHANGED <<now, changes, hook, sweep, expiry, purge, request>>

Approve ==
    /\ Decided("approved")
    /\ review.seen \in OpenStatuses
    /\ Activate(Reviewed, tenant, review.seen)

ApproveReplay ==
    /\ Decided("approved")
    /\ review.seen \notin OpenStatuses
    /\ Alive
    /\ UNCHANGED <<tenant, intent, ghosts>>

Reject ==
    LET i == Reviewed IN
    /\ Decided("rejected")
    /\ Alive
    /\ intent' = [intent EXCEPT ![i].status =
                    Column(review.seen, "awaiting_proof", @)]
    /\ Contested(i, review.seen)
    /\ reopened' = IF intent[i].status = "succeeded" THEN reopened \cup {i}
                   ELSE reopened
    /\ UNCHANGED <<tenant, sold, since, overtaken, activated, abandoned>>

ReviewFails ==
    /\ review.receipt # Nil
    /\ review' = NoReview
    /\ UNCHANGED <<now, changes, rows, hook, sweep, expiry, purge, request, ghosts>>

-----------------------------------------------------------------------------
(* The trial expiry, one batch of queries, ends on the day it began.       *)
Tick ==
    /\ now < MaxNow
    /\ ~expiry.held
    /\ now' = now + 1
    /\ intent' = [i \in Intents |-> [intent[i] EXCEPT !.late = TRUE]]
    /\ UNCHANGED <<tenant, receipt, hook, jobs, changes, ghosts>>

Init ==
    /\ now = 0
    /\ tenant \in {TrialTenant,
                   [Subscribed(TrialTenant) EXCEPT !.card = TRUE]}
    /\ intent = [i \in Intents |-> [status |-> "none", renewal |-> FALSE,
                                    late |-> FALSE]]
    /\ receipt = [r \in Receipts |-> [status |-> "none", intent |-> Nil]]
    /\ hook = [i \in CardIntents |-> NoHook]
    /\ sweep = NoSweep /\ expiry = NoExpiry /\ purge = NoPurge
    /\ request = NoRequest /\ review = NoReview
    /\ changes = 0
    /\ sold = IF tenant.next = Nil THEN 0 ELSE tenant.next
    /\ since = 0
    /\ activated = [i \in Intents |-> 0]
    /\ overtaken = FALSE
    /\ contested = {} /\ reopened = {} /\ abandoned = {}

SweepStep ==
    \/ SelectDue \/ LoadDue \/ SkipFree \/ CardCharged \/ ChargeFailed
    \/ CommitFree \/ CommitPaid \/ CommitFailed \/ SweepEnds
LifecycleStep ==
    \/ find_expired_trials \/ TrialExpires \/ ExpiryFails
    \/ ExtendTrial \/ PauseBilling
    \/ find_purgeable_read_only \/ PurgeTenant \/ PurgeFails
    \/ CancelSubscription \/ ChoosePayg \/ SaveCard \/ RemoveCard
IntentStep(i) ==
    \/ CreateIntent(i) \/ ExpireIntent(i)
    \/ \E r \in Receipts : StartUpload(r, i)
CallbackStep(i) ==
    \/ \E amount \in {"exact", "other"} : PayCard(i, amount)
    \/ TakeNonce(i) \/ RejectDuplicate(i)
    \/ \E heard \in BOOLEAN : SettleSubscription(i, heard) \/ SettleNothing(i, heard)
    \/ NonceRefused(i) \/ CallbackRaises(i) \/ WorkerLost(i) \/ NonceExpires(i)
RequestStep ==
    \/ AutoApprove \/ QueueForReview \/ StartSubscribe \/ Subscribe \/ RequestFails
    \/ \E r \in Receipts : StartReview(r)
    \/ Approve \/ ApproveReplay \/ Reject \/ ReviewFails

Next ==
    \/ Tick \/ SweepStep \/ LifecycleStep \/ RequestStep
    \/ \E i \in Intents : IntentStep(i)
    \/ \E i \in CardIntents : CallbackStep(i)

Spec == Init /\ [][Next]_vars

-----------------------------------------------------------------------------
(* Properties.                                                             *)

SweepRow == [pc : {"idle", "selected", "free", "charging", "charged", "failed"},
             row : TenantRow, at : Nat, stale : BOOLEAN]
BatchRow == [held : BOOLEAN, row : TenantRow]
RequestRow == [kind : {"none", "upload", "subscribe"},
               receipt : Receipts \cup {Nil}, intent : Intents \cup {Nil},
               row : TenantRow, seen : IntentStatuses]
ReviewRow == [receipt : Receipts \cup {Nil}, seen : IntentStatuses]

(* The rows, the jobs' copies and the ghosts keep their shape.             *)
TypeOK ==
    /\ now \in Nat
    /\ tenant \in TenantRow
    /\ intent \in [Intents -> IntentRow]
    /\ receipt \in [Receipts -> ReceiptRow]
    /\ hook \in [CardIntents -> HookRow]
    /\ sweep \in SweepRow /\ expiry \in BatchRow /\ purge \in BatchRow
    /\ request \in RequestRow /\ review \in ReviewRow
    /\ changes \in Nat /\ sold \in Nat /\ since \in Nat
    /\ activated \in [Intents -> Nat]
    /\ overtaken \in BOOLEAN
    /\ contested \subseteq Intents /\ reopened \subseteq Intents
    /\ abandoned \subseteq CardIntents

(* Whoever becomes read-only has its whole grace before the purge, however *)
(* often the tenant lapsed and came back, and whatever delete_at an        *)
(* activation left behind.                                                 *)
GraceIsWhole ==
    tenant.state = "read_only" /\ tenant.delete # Nil
        => tenant.delete >= since + Grace

(* Only a read-only tenant whose grace has passed is deleted; a tenant     *)
(* that came back is lost only if it did so after the purge had picked it. *)
DeletedHasCause ==
    [][tenant'.state = "deleted" /\ tenant.state # "deleted"
        => \/ tenant.state = "read_only" /\ now > since + Grace
           \/ purge.row # tenant]_vars

(* next_renewal_at covers every invoice, and a tenant is dunned or locked  *)
(* only when what it paid for is over - unless somebody wrote over a row   *)
(* that had changed since it was read.                                     *)
PaidTimeKept ==
    \/ overtaken
    \/ /\ sold <= (IF tenant.next = Nil THEN 0 ELSE tenant.next)
       /\ tenant.state \in {"past_due", "read_only"} => sold <= now

(* One payment activates once: a second activation needs two requests that *)
(* worked on this intent at the same time, or a rejection that reopened it *)
(* after it had succeeded.                                                 *)
ActivatedTwiceHasCause ==
    \A i \in Intents : activated[i] > 1 => i \in contested \cup reopened

(* Kashier stops reporting a card payment only when it was applied, even   *)
(* if its intent had expired or had been superseded - or when another      *)
(* amount was paid, the tenant is gone, a delivery is still at work, or    *)
(* one was lost with its replay key, met a failing Redis, or failed after  *)
(* its retry had been answered as a duplicate.                             *)
CardPaymentHonoured ==
    \A i \in CardIntents :
        hook[i].acked /\ hook[i].charge = "exact" /\ Alive
            => activated[i] > 0 \/ hook[i].running \/ i \in abandoned

(* "can never activate twice": each intent is applied at most once.        *)
ActivatedOnce == \A i \in Intents : activated[i] <= 1

=============================================================================
