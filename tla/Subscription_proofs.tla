------------------------- MODULE Subscription_proofs -------------------------
(***************************************************************************)
(* Proofs about Subscription.  Inv adds to the type invariant how the      *)
(* copies that jobs hold relate to the clock and to the row (Dated,        *)
(* Picked, Due), what has been sold (Covered), which rows refer to which   *)
(* (Linked), how activations relate to the intents (Applied) and what a    *)
(* replay key or an acknowledgement says of a card payment (Honoured).     *)
(***************************************************************************)
EXTENDS Subscription, TLAPS

InTime(row) == row.delete # Nil => row.delete <= now + Grace
Behind(row) ==
    row.delete # Nil /\ tenant.delete # Nil => row.delete <= tenant.delete

Dated ==
    /\ since <= now
    /\ InTime(tenant)
    /\ InTime(sweep.row) /\ Behind(sweep.row)
    /\ InTime(expiry.row) /\ Behind(expiry.row)
    /\ InTime(request.row) /\ Behind(request.row)

Picked ==
    /\ purge.held => /\ purge.row.state = "read_only"
                     /\ purge.row.delete # Nil /\ purge.row.delete < now
    /\ expiry.held => expiry.row.state = "trial"

Due ==
    sweep.pc = "selected" \/ (sweep.pc # "idle" /\ ~sweep.stale)
        => /\ sweep.row.next # Nil
           /\ sweep.row.next <= sweep.at /\ sweep.at <= now

Payable == {"trial", "past_due", "read_only"}
Covered ==
    \/ overtaken
    \/ /\ sold <= (IF tenant.next = Nil THEN 0 ELSE tenant.next)
       /\ tenant.state \in Payable => sold <= now

Linked ==
    /\ \A r \in Receipts : receipt[r].status # "none" => receipt[r].intent \in Intents
    /\ request.kind = "upload" =>
          /\ request.receipt \in Receipts /\ request.intent \in Intents
          /\ request.seen \in OpenStatuses
    /\ request.kind = "subscribe" => request.row.state \in Payable
    /\ review.receipt # Nil => receipt[review.receipt].status # "none"

AppliedTo(i) ==
    /\ activated[i] > 0 => i \in contested \cup reopened \/ intent[i].status = "succeeded"
    /\ intent[i].status = "succeeded" => activated[i] > 0
Applied == \A i \in Intents : AppliedTo(i)

(* A replay key is as good as an acknowledgement: the next delivery will   *)
(* be answered as a duplicate.                                             *)
HonouredFor(i) ==
    /\ hook[i].charge = "none" => ~hook[i].nonce /\ ~hook[i].running /\ ~hook[i].acked
    /\ hook[i].nonce \/ hook[i].acked
          => \/ activated[i] > 0 \/ hook[i].running \/ i \in abandoned
             \/ hook[i].charge # "exact" \/ ~Alive
Honoured == \A i \in CardIntents : HonouredFor(i)

Inv ==
    /\ TypeOK /\ Dated /\ GraceIsWhole /\ Picked /\ Due /\ Covered /\ Linked
    /\ Applied /\ ActivatedTwiceHasCause /\ Honoured

-----------------------------------------------------------------------------
(* The rows the operations produce.                                        *)

LEMMA ConstantTypes ==
    /\ Trial \in Nat /\ Period \in Nat /\ Grace \in Nat /\ Backoff \in Nat
    /\ Trial > 0 /\ Period > 0 /\ Grace > 0 /\ Backoff > 0
    /\ Nil \notin Nat
    /\ CardIntents \subseteq Intents
BY SubscriptionAssumption DEF SubscriptionAssumption

LEMMA TrialTenantType == TrialTenant \in TenantRow /\ TrialTenant.delete = Nil
BY ConstantTypes DEF TrialTenant, TenantRow, Day

LEMMA AnchorType ==
    ASSUME NEW row \in TenantRow, NEW day \in Nat
    PROVE  /\ Anchor(row, day) \in Nat
           /\ row.next # Nil => Anchor(row, day) = row.next
           /\ row.next = Nil => Anchor(row, day) = day
BY ConstantTypes DEF Anchor, TenantRow, Day

(* What every operation leaves of state and delete_at.                     *)
Kept(row, new) ==
    /\ new \in TenantRow
    /\ new.delete \in {row.delete, Nil, now + Grace}
    /\ new.state = row.state \/ new.state \in {"trial", "active", "past_due", "read_only"}
    /\ new.state = "read_only" /\ row.state # "read_only" => new.delete = now + Grace

LEMMA ReadOnlyKept ==
    ASSUME now \in Nat, NEW row \in TenantRow
    PROVE  /\ Kept(row, ReadOnly(row))
           /\ ReadOnly(row).next = row.next /\ ReadOnly(row).state = "read_only"
           /\ ReadOnly(row).delete = now + Grace
<1>1. now + Grace \in Nat
    BY ConstantTypes
<1> QED
    BY <1>1 DEF Kept, ReadOnly, TenantRow, Day

LEMMA RenewedKept ==
    ASSUME now \in Nat, NEW row \in TenantRow
    PROVE  /\ Kept(row, Renewed(row))
           /\ Renewed(row).next = Anchor(row, now) + Period /\ Renewed(row).state = "active"
<1>1. Anchor(row, now) + Period \in Nat
    BY AnchorType, ConstantTypes
<1> QED
    BY <1>1 DEF Kept, Renewed, TenantRow, Day

LEMMA SubscribedKept ==
    ASSUME now \in Nat, NEW row \in TenantRow
    PROVE  /\ Kept(row, Subscribed(row))
           /\ Subscribed(row).next = now + Period /\ Subscribed(row).state = "active"
<1>1. now + Period \in Nat
    BY ConstantTypes
<1> QED
    BY <1>1 DEF Kept, Subscribed, TenantRow, Day

LEMMA WithCardKept ==
    ASSUME NEW row, NEW new \in TenantRow, Kept(row, new), NEW b \in BOOLEAN
    PROVE  /\ Kept(row, [new EXCEPT !.card = b])
           /\ [new EXCEPT !.card = b].next = new.next
           /\ [new EXCEPT !.card = b].state = new.state
BY DEF Kept, TenantRow

LEMMA SameKept ==
    ASSUME NEW row \in TenantRow
    PROVE  Kept(row, row)
BY DEF Kept, TenantRow

LEMMA PaygKept ==
    ASSUME now \in Nat, NEW row \in TenantRow
    PROVE  Kept(row, Payg(row)) /\ Payg(row).state = "active"
BY ConstantTypes DEF Kept, Payg, TenantRow, Day

LEMMA CancelledKept ==
    ASSUME now \in Nat, NEW row \in TenantRow
    PROVE  Kept(row, Cancelled(row)) /\ Cancelled(row).state = "read_only"
<1> DEFINE r == [row EXCEPT !.card = FALSE, !.retries = 0, !.cancelled = TRUE, !.next = Nil]
<1>1. r \in TenantRow
    BY DEF TenantRow, Day
<1>2. r.delete = row.delete /\ r.state = row.state
    BY DEF TenantRow
<1>3. Cancelled(row) = ReadOnly(r)
    BY DEF Cancelled
<1> HIDE DEF r
<1> QED
    BY <1>1, <1>2, <1>3, ReadOnlyKept DEF Kept

-----------------------------------------------------------------------------
(* The flush.                                                              *)

LEMMA FlushedType ==
    ASSUME tenant \in TenantRow, NEW row \in TenantRow, NEW new \in TenantRow
    PROVE  /\ Flushed(row, new) \in TenantRow
           /\ Flushed(row, new).state = Column(row.state, new.state, tenant.state)
           /\ Flushed(row, new).delete = Column(row.delete, new.delete, tenant.delete)
BY DEF Flushed, Column, TenantRow

LEMMA FlushedCurrent ==
    ASSUME tenant \in TenantRow, NEW new \in TenantRow
    PROVE  Flushed(tenant, new) = new
<1>1. new = [state |-> new.state, plan |-> new.plan, next |-> new.next,
             expires |-> new.expires, delete |-> new.delete, card |-> new.card,
             retries |-> new.retries, started |-> new.started,
             cancelled |-> new.cancelled, paused |-> new.paused]
    BY DEF TenantRow
<1> QED
    BY <1>1 DEF Flushed, Column

(* What a write to the tenant's row does to everything said about it.      *)
LEMMA Written ==
    ASSUME Inv, NEW row \in TenantRow, NEW new, NEW stale \in BOOLEAN,
           Kept(row, new), Write(row, new, stale), InTime(row), Behind(row),
           now' = now
    PROVE  /\ tenant' \in TenantRow /\ since' \in Nat /\ overtaken' \in BOOLEAN
           /\ since' <= now'
           /\ tenant'.delete \in {tenant.delete, Nil, now + Grace}
           /\ tenant'.state # "deleted"
           /\ GraceIsWhole'
           /\ ~overtaken' => ~overtaken /\ ~stale /\ row = tenant /\ tenant' = new
<1>1. tenant \in TenantRow /\ since \in Nat /\ now \in Nat /\ overtaken \in BOOLEAN /\ since <= now
    BY DEF Inv, TypeOK, Dated
<1>2. new \in TenantRow
    BY DEF Kept
<1>3. /\ tenant' \in TenantRow
      /\ tenant'.state = Column(row.state, new.state, tenant.state)
      /\ tenant'.delete = Column(row.delete, new.delete, tenant.delete)
    BY <1>1, <1>2, FlushedType DEF Write
<1>4. overtaken' \in BOOLEAN /\ (overtaken' <=> overtaken \/ stale \/ row # tenant)
    BY <1>1 DEF Write
<1>5. since' \in Nat /\ since' <= now'
    BY <1>1 DEF Write
<1>6. tenant'.delete \in {tenant.delete, Nil, now + Grace}
    BY <1>3 DEF Column, Kept
<1>7. tenant'.state # "deleted"
    BY <1>3 DEF Column, Kept, Write, Alive
<1>8. ~overtaken' => ~overtaken /\ ~stale /\ row = tenant /\ tenant' = new
    BY <1>1, <1>2, <1>4, FlushedCurrent DEF Write
<1>9. GraceIsWhole'
    <2> SUFFICES ASSUME tenant'.state = "read_only", tenant'.delete # Nil
                 PROVE  tenant'.delete >= since' + Grace
        BY DEF GraceIsWhole
    <2>1. CASE tenant.state = "read_only"
        <3>1. since' = since
            BY <2>1 DEF Write
        <3>2. tenant.delete # Nil => tenant.delete >= since + Grace
            BY <2>1 DEF Inv, GraceIsWhole
        <3> QED
            BY <1>1, <1>6, <3>1, <3>2, ConstantTypes
    <2>2. CASE tenant.state # "read_only"
        <3>1. since' = now
            BY <2>2 DEF Write
        <3>2. new.state = "read_only" /\ row.state # "read_only" /\ new.delete = now + Grace
            BY <1>3, <2>2 DEF Column, Kept
        <3>3. tenant'.delete = now + Grace \/ (row.delete = now + Grace /\ tenant'.delete = tenant.delete)
            BY <1>3, <3>2 DEF Column
        <3>4. now + Grace \in Nat /\ now + Grace # Nil /\ tenant'.delete \in Nat
            BY <1>1, <1>3, ConstantTypes DEF TenantRow, Day
        <3>5. tenant'.delete >= now + Grace
            BY <3>3, <3>4 DEF Behind
        <3> QED
            BY <3>1, <3>5
    <2> QED
        BY <2>1, <2>2
<1> QED
    BY <1>3, <1>4, <1>5, <1>6, <1>7, <1>8, <1>9

-----------------------------------------------------------------------------
(* Frames: what holds because a step leaves the rows it is about alone.    *)

LEMMA IdleTypes ==
    /\ NoSweep \in SweepRow /\ NoSweep.pc = "idle" /\ NoSweep.row = TrialTenant
    /\ NoPurge \in BatchRow /\ ~NoPurge.held
    /\ NoExpiry \in BatchRow /\ ~NoExpiry.held /\ NoExpiry.row = TrialTenant
    /\ NoRequest \in RequestRow /\ NoRequest.kind = "none" /\ NoRequest.row = TrialTenant
    /\ NoReview \in ReviewRow /\ NoReview.receipt = Nil
BY TrialTenantType DEF NoSweep, NoPurge, NoExpiry, NoRequest, NoReview, SweepRow, BatchRow,
    RequestRow, ReviewRow, IntentStatuses

LEMMA FrameLinked ==
    ASSUME Inv, UNCHANGED <<receipt, review>>, request' \in {request, NoRequest}
    PROVE  Linked'
BY IdleTypes DEF Inv, Linked

LEMMA FrameHonoured ==
    ASSUME Inv, UNCHANGED <<hook, abandoned>>, Alive' => Alive,
           \A i \in CardIntents : activated[i] > 0 => activated'[i] > 0
    PROVE  Honoured'
BY DEF Inv, Honoured, HonouredFor

LEMMA FrameApplied ==
    ASSUME Inv, UNCHANGED <<intent, hook, intentGhosts>>, Alive' => Alive
    PROVE  Applied' /\ ActivatedTwiceHasCause' /\ Honoured'
<1>1. Applied' /\ ActivatedTwiceHasCause'
    BY DEF Inv, Applied, AppliedTo, ActivatedTwiceHasCause, intentGhosts
<1> QED
    BY <1>1, FrameHonoured DEF intentGhosts

(* A copy stays behind the row, whatever is written to delete_at.          *)
LEMMA StaysBehind ==
    ASSUME Inv, NEW row \in TenantRow, InTime(row), Behind(row),
           tenant' \in TenantRow, now' = now,
           tenant'.delete \in {tenant.delete, Nil, now + Grace}
    PROVE  InTime(row)' /\ Behind(row)'
<1>1. now \in Nat
    BY DEF Inv, TypeOK
<1> QED
    BY <1>1, ConstantTypes DEF InTime, Behind, TenantRow, Day

LEMMA WriteInv ==
    ASSUME Inv, NEW row \in TenantRow, NEW new, NEW stale \in BOOLEAN,
           Kept(row, new), Write(row, new, stale), InTime(row), Behind(row),
           now' = now, purge' = purge, expiry' \in {expiry, NoExpiry},
           sweep' \in {sweep, NoSweep}, request' \in {request, NoRequest}
    PROVE  /\ tenant' \in TenantRow /\ since' \in Nat /\ overtaken' \in BOOLEAN
           /\ sweep' \in SweepRow /\ request' \in RequestRow
           /\ purge' \in BatchRow /\ expiry' \in BatchRow /\ now' \in Nat
           /\ Dated' /\ GraceIsWhole' /\ Picked' /\ Due'
           /\ overtaken => overtaken'
           /\ ~overtaken' => ~overtaken /\ ~stale /\ row = tenant /\ tenant' = new
<1>1. /\ tenant' \in TenantRow /\ since' \in Nat /\ overtaken' \in BOOLEAN
      /\ since' <= now'
      /\ tenant'.delete \in {tenant.delete, Nil, now + Grace}
      /\ GraceIsWhole'
      /\ ~overtaken' => ~overtaken /\ ~stale /\ row = tenant /\ tenant' = new
    BY Written
<1>2. /\ sweep' \in SweepRow /\ request' \in RequestRow
      /\ purge' \in BatchRow /\ expiry' \in BatchRow /\ now' \in Nat
    BY IdleTypes DEF Inv, TypeOK
<1>3. InTime(tenant)'
    BY <1>1, <1>2, ConstantTypes DEF Inv, Dated, InTime
<1>4. InTime(sweep.row)' /\ Behind(sweep.row)'
    <2>1. CASE sweep' = sweep
        <3>1. sweep.row \in TenantRow /\ InTime(sweep.row) /\ Behind(sweep.row)
            BY DEF Inv, TypeOK, SweepRow, Dated
        <3> QED
            BY <1>1, <2>1, <3>1, StaysBehind DEF InTime, Behind
    <2>2. CASE sweep' = NoSweep
        BY <2>2, IdleTypes, TrialTenantType DEF InTime, Behind
    <2> QED
        BY <2>1, <2>2
<1>5. InTime(request.row)' /\ Behind(request.row)'
    <2>1. CASE request' = request
        <3>1. request.row \in TenantRow /\ InTime(request.row) /\ Behind(request.row)
            BY DEF Inv, TypeOK, RequestRow, Dated
        <3> QED
            BY <1>1, <2>1, <3>1, StaysBehind DEF InTime, Behind
    <2>2. CASE request' = NoRequest
        BY <2>2, IdleTypes, TrialTenantType DEF InTime, Behind
    <2> QED
        BY <2>1, <2>2
<1>6. InTime(expiry.row)' /\ Behind(expiry.row)'
    <2>1. CASE expiry' = expiry
        <3>1. expiry.row \in TenantRow /\ InTime(expiry.row) /\ Behind(expiry.row)
            BY DEF Inv, TypeOK, BatchRow, Dated
        <3> QED
            BY <1>1, <2>1, <3>1, StaysBehind DEF InTime, Behind
    <2>2. CASE expiry' = NoExpiry
        BY <2>2, IdleTypes, TrialTenantType DEF InTime, Behind
    <2> QED
        BY <2>1, <2>2
<1>7. Picked' /\ Due'
    BY IdleTypes DEF Inv, Picked, Due
<1>8. overtaken => overtaken'
    BY <1>1
<1> QED
    BY <1>1, <1>2, <1>3, <1>4, <1>5, <1>6, <1>7, <1>8 DEF Dated

CoveredBy(row, upto) ==
    /\ upto <= (IF row.next = Nil THEN 0 ELSE row.next)
    /\ row.state \in Payable => upto <= now

(* A write that concerns neither an intent nor a receipt.                  *)
LEMMA PlainWrite ==
    ASSUME Inv, NEW row \in TenantRow, NEW new, NEW stale \in BOOLEAN,
           Kept(row, new), Write(row, new, stale), InTime(row), Behind(row),
           now' = now, purge' = purge, expiry' \in {expiry, NoExpiry},
           sweep' \in {sweep, NoSweep}, request' \in {request, NoRequest},
           UNCHANGED <<intent, receipt, hook, review, intentGhosts>>,
           changes' \in Nat, sold' \in Nat,
           ~overtaken /\ ~stale /\ row = tenant => CoveredBy(new, sold')
    PROVE  Inv'
<1>1. /\ tenant' \in TenantRow /\ since' \in Nat /\ overtaken' \in BOOLEAN
      /\ sweep' \in SweepRow /\ request' \in RequestRow
      /\ purge' \in BatchRow /\ expiry' \in BatchRow /\ now' \in Nat
      /\ Dated' /\ GraceIsWhole' /\ Picked' /\ Due'
      /\ overtaken => overtaken'
      /\ ~overtaken' => ~overtaken /\ ~stale /\ row = tenant /\ tenant' = new
    BY WriteInv
<1>2. TypeOK'
    BY <1>1 DEF Inv, TypeOK, intentGhosts
<1>3. Covered'
    BY <1>1 DEF Covered, CoveredBy
<1>4. Linked'
    BY FrameLinked
<1>5. Applied' /\ ActivatedTwiceHasCause' /\ Honoured'
    BY FrameApplied DEF Write
<1> QED
    BY <1>1, <1>2, <1>3, <1>4, <1>5 DEF Inv

-----------------------------------------------------------------------------
(* The renewal sweep.                                                      *)

LEMMA TenantFacts ==
    ASSUME Inv
    PROVE  /\ tenant \in TenantRow /\ InTime(tenant) /\ Behind(tenant)
           /\ now \in Nat /\ sold \in Nat /\ changes \in Nat
           /\ ~overtaken => CoveredBy(tenant, sold)
<1>1. tenant \in TenantRow /\ InTime(tenant) /\ now \in Nat /\ sold \in Nat /\ changes \in Nat
    BY DEF Inv, TypeOK, Dated
<1>2. Behind(tenant)
    BY <1>1 DEF Behind, TenantRow, Day
<1>3. ~overtaken => CoveredBy(tenant, sold)
    BY DEF Inv, Covered, CoveredBy
<1> QED
    BY <1>1, <1>2, <1>3

LEMMA SweepFacts ==
    ASSUME Inv
    PROVE  /\ sweep.row \in TenantRow /\ InTime(sweep.row) /\ Behind(sweep.row)
           /\ sweep.at \in Nat /\ sweep.stale \in BOOLEAN
           /\ sweep.pc = "selected" \/ (sweep.pc # "idle" /\ ~sweep.stale)
                => /\ sweep.row.next # Nil /\ sweep.row.next \in Nat
                   /\ sweep.row.next <= sweep.at /\ sweep.at <= now
<1>1. /\ sweep.row \in TenantRow /\ InTime(sweep.row) /\ Behind(sweep.row)
      /\ sweep.at \in Nat /\ sweep.stale \in BOOLEAN
    BY DEF Inv, TypeOK, Dated, SweepRow
<1>2. sweep.row.next # Nil => sweep.row.next \in Nat
    BY <1>1 DEF TenantRow, Day
<1> QED
    BY <1>1, <1>2 DEF Inv, Due

LEMMA SellType ==
    ASSUME sold \in Nat, NEW start \in Nat, Sell(start)
    PROVE  sold' \in Nat /\ (sold <= start => sold' = start + Period)
BY ConstantTypes DEF Sell

LEMMA NothingSold ==
    ASSUME now \in Nat, NEW row \in TenantRow
    PROVE  CoveredBy(row, 0)
<1>1. row.next = Nil \/ row.next \in Nat
    BY DEF TenantRow, Day
<1> QED
    BY <1>1 DEF CoveredBy

LEMMA CommitFreeInv == ASSUME Inv, CommitFree PROVE Inv'
<1> DEFINE new == [sweep.row EXCEPT !.next = sweep.at + Period, !.retries = 0]
<1>1. sweep.at + Period \in Nat /\ sweep.at + Period # Nil
    BY SweepFacts, ConstantTypes
<1>2. /\ Kept(sweep.row, new) /\ new.next = sweep.at + Period
      /\ new.state = sweep.row.state
    BY <1>1, SweepFacts DEF Kept, TenantRow, Day
<1>3. Write(sweep.row, new, sweep.stale) /\ sweep.pc = "free"
    BY DEF CommitFree
<1> HIDE DEF new
<1>4. ASSUME ~overtaken, ~sweep.stale, sweep.row = tenant PROVE CoveredBy(new, sold)
    BY <1>1, <1>2, <1>3, <1>4, SweepFacts, TenantFacts, ConstantTypes DEF CoveredBy
<1> QED
    BY <1>2, <1>3, <1>4, SweepFacts, TenantFacts, PlainWrite DEF CommitFree, SweepDone

LEMMA CommitPaidInv == ASSUME Inv, CommitPaid PROVE Inv'
<1> DEFINE start == Anchor(sweep.row, sweep.at)
           new == [sweep.row EXCEPT !.next = start + Period, !.retries = 0, !.state = "active"]
<1>1. start \in Nat /\ start + Period \in Nat /\ start + Period # Nil
    BY SweepFacts, TenantFacts, AnchorType, ConstantTypes
<1>2. Write(sweep.row, new, sweep.stale) /\ sweep.pc = "charged" /\ Sell(start)
    BY DEF CommitPaid
<1>3. sold' \in Nat /\ (sold <= start => sold' = start + Period)
    BY <1>1, <1>2, TenantFacts, SellType
<1>4. sweep.row.next # Nil => start = sweep.row.next
    BY SweepFacts, TenantFacts, AnchorType
<1> HIDE DEF start
<1>5. /\ Kept(sweep.row, new) /\ new.next = start + Period /\ new.state = "active"
    BY <1>1, SweepFacts DEF Kept, TenantRow, Day
<1> HIDE DEF new
<1>6. ASSUME ~overtaken, ~sweep.stale, sweep.row = tenant PROVE CoveredBy(new, sold')
    BY <1>1, <1>2, <1>3, <1>4, <1>5, <1>6, SweepFacts, TenantFacts DEF CoveredBy, Payable
<1> QED
    BY <1>2, <1>3, <1>5, <1>6, SweepFacts, TenantFacts, PlainWrite DEF CommitPaid, SweepDone

LEMMA CommitFailedInv == ASSUME Inv, CommitFailed PROVE Inv'
<1> DEFINE row == sweep.row
           dunned == [row EXCEPT !.retries = @ + 1, !.state = "past_due", !.next = sweep.at + Backoff]
           new == IF Exhausted(row) THEN ReadOnly(dunned) ELSE dunned
<1>1. sweep.at + Backoff \in Nat /\ sweep.at + Backoff # Nil
    BY SweepFacts, ConstantTypes
<1>2. Write(row, new, sweep.stale) /\ sweep.pc = "failed"
    BY DEF CommitFailed
<1>3. row.retries + 1 \in Nat
    BY SweepFacts DEF TenantRow
<1>4. /\ Kept(row, dunned) /\ dunned \in TenantRow /\ dunned.next = sweep.at + Backoff
      /\ dunned.delete = row.delete
    BY <1>1, <1>3, SweepFacts DEF Kept, TenantRow, Day
<1> HIDE DEF dunned
<1>5. Kept(row, new) /\ new.next = sweep.at + Backoff
    BY <1>4, TenantFacts, ReadOnlyKept DEF Kept
<1> HIDE DEF new
<1>6. ASSUME ~overtaken, ~sweep.stale, row = tenant PROVE CoveredBy(new, sold)
    BY <1>1, <1>2, <1>5, <1>6, SweepFacts, TenantFacts, ConstantTypes DEF CoveredBy
<1> QED
    BY <1>2, <1>5, <1>6, SweepFacts, TenantFacts, PlainWrite DEF CommitFailed, SweepDone

-----------------------------------------------------------------------------
(* Lifecycle steps.                                                        *)

LEMMA ChangeType ==
    ASSUME changes \in Nat, Change
    PROVE  changes' \in Nat
BY DEF Change

LEMMA TrialExpiresInv == ASSUME Inv, TrialExpires PROVE Inv'
<1> DEFINE row == expiry.row
<1>1. Write(row, ReadOnly(row), FALSE)
    BY DEF TrialExpires
<1>2. row \in TenantRow /\ InTime(row) /\ Behind(row) /\ row.state = "trial"
    BY DEF TrialExpires, Inv, TypeOK, Dated, Picked, BatchRow
<1>3. /\ Kept(row, ReadOnly(row)) /\ ReadOnly(row).next = row.next
      /\ ReadOnly(row).state = "read_only"
    BY <1>2, TenantFacts, ReadOnlyKept
<1>4. ASSUME ~overtaken, row = tenant PROVE CoveredBy(ReadOnly(row), sold)
    BY <1>2, <1>3, <1>4, TenantFacts DEF CoveredBy, Payable
<1> QED
    BY <1>1, <1>2, <1>3, <1>4, TenantFacts, PlainWrite DEF TrialExpires

LEMMA ExtendTrialInv == ASSUME Inv, ExtendTrial PROVE Inv'
<1> DEFINE expired == tenant.state = "read_only" /\ tenant.plan = "trial" /\ ~tenant.cancelled
           start == IF tenant.expires = Nil \/ tenant.expires < now THEN now ELSE tenant.expires
           new == [tenant EXCEPT !.expires = start + Trial, !.state = "trial",
                                 !.delete = IF expired THEN Nil ELSE @]
<1>1. Write(tenant, new, FALSE) /\ tenant.state \in Payable /\ Change
    BY DEF ExtendTrial, Payable
<1>2. start + Trial \in Nat
    BY TenantFacts, ConstantTypes DEF TenantRow, Day
<1> HIDE DEF expired, start
<1>3. Kept(tenant, new) /\ new.next = tenant.next /\ new.state = "trial"
    BY <1>2, TenantFacts DEF Kept, TenantRow, Day
<1> HIDE DEF new
<1>4. ASSUME ~overtaken PROVE CoveredBy(new, sold)
    BY <1>1, <1>3, <1>4, TenantFacts DEF CoveredBy
<1> QED
    BY <1>1, <1>3, <1>4, TenantFacts, ChangeType, PlainWrite DEF ExtendTrial, jobs

LEMMA PauseBillingInv == ASSUME Inv, PauseBilling PROVE Inv'
<1> DEFINE new == [tenant EXCEPT !.paused = ~@]
<1>1. Write(tenant, new, FALSE) /\ Change
    BY DEF PauseBilling
<1>2. Kept(tenant, new) /\ new.next = tenant.next /\ new.state = tenant.state
    BY TenantFacts DEF Kept, TenantRow
<1> HIDE DEF new
<1>3. ASSUME ~overtaken PROVE CoveredBy(new, sold)
    BY <1>2, <1>3, TenantFacts DEF CoveredBy
<1> QED
    BY <1>1, <1>2, <1>3, TenantFacts, ChangeType, PlainWrite DEF PauseBilling, jobs

LEMMA CancelSubscriptionInv == ASSUME Inv, CancelSubscription PROVE Inv'
<1>1. Write(tenant, Cancelled(tenant), FALSE) /\ Change /\ sold' = 0
    BY DEF CancelSubscription
<1>2. Kept(tenant, Cancelled(tenant)) /\ Cancelled(tenant) \in TenantRow
    BY TenantFacts, CancelledKept DEF Kept
<1>3. sold' \in Nat /\ CoveredBy(Cancelled(tenant), sold')
    BY <1>1, <1>2, TenantFacts, NothingSold
<1> QED
    BY <1>1, <1>2, <1>3, TenantFacts, ChangeType, PlainWrite DEF CancelSubscription, jobs

LEMMA ChoosePaygInv == ASSUME Inv, ChoosePayg PROVE Inv'
<1>1. Write(tenant, Payg(tenant), FALSE) /\ Change /\ sold' = 0
    BY DEF ChoosePayg
<1>2. Kept(tenant, Payg(tenant)) /\ Payg(tenant) \in TenantRow
    BY TenantFacts, PaygKept DEF Kept
<1>3. sold' \in Nat /\ CoveredBy(Payg(tenant), sold')
    BY <1>1, <1>2, TenantFacts, NothingSold
<1> QED
    BY <1>1, <1>2, <1>3, TenantFacts, ChangeType, PlainWrite DEF ChoosePayg, jobs

LEMMA CardInv ==
    ASSUME Inv, NEW b \in BOOLEAN, Change, Write(tenant, [tenant EXCEPT !.card = b], FALSE),
           UNCHANGED <<now, intent, receipt, hook, jobs, sold, intentGhosts>>
    PROVE  Inv'
<1> DEFINE new == [tenant EXCEPT !.card = b]
<1>1. Kept(tenant, new) /\ new.next = tenant.next /\ new.state = tenant.state
    BY TenantFacts, SameKept, WithCardKept
<1>2. Write(tenant, new, FALSE)
    OBVIOUS
<1> HIDE DEF new
<1>3. ASSUME ~overtaken PROVE CoveredBy(new, sold)
    BY <1>1, <1>3, TenantFacts DEF CoveredBy
<1> QED
    BY <1>1, <1>2, <1>3, TenantFacts, ChangeType, PlainWrite DEF jobs

LEMMA SubscribeInv == ASSUME Inv, Subscribe PROVE Inv'
<1> DEFINE row == request.row
           new == [Subscribed(row) EXCEPT !.card = TRUE]
<1>1. /\ request.kind = "subscribe" /\ Write(row, new, FALSE) /\ Sell(now)
    BY DEF Subscribe
<1>2. row \in TenantRow /\ InTime(row) /\ Behind(row) /\ row.state \in Payable
    BY <1>1 DEF Inv, TypeOK, Dated, Linked, RequestRow
<1>3. Kept(row, Subscribed(row)) /\ Subscribed(row) \in TenantRow /\ Subscribed(row).next = now + Period
        /\ Subscribed(row).state = "active"
    BY <1>2, TenantFacts, SubscribedKept DEF Kept
<1>4. Kept(row, new) /\ new.next = now + Period /\ new.state = "active"
    BY <1>3, WithCardKept
<1>5. sold' \in Nat /\ (sold <= now => sold' = now + Period)
    BY <1>1, TenantFacts, SellType
<1> HIDE DEF new
<1>6. ASSUME ~overtaken, row = tenant PROVE CoveredBy(new, sold')
    BY <1>2, <1>4, <1>5, <1>6, TenantFacts, ConstantTypes DEF CoveredBy, Payable
<1> QED
    BY <1>1, <1>2, <1>4, <1>5, <1>6, TenantFacts, PlainWrite DEF Subscribe

-----------------------------------------------------------------------------
(* Intents and receipts.                                                   *)

LEMMA StatusType ==
    ASSUME NEW r \in IntentRow, NEW st \in IntentStatuses
    PROVE  [r EXCEPT !.status = st] \in IntentRow
BY DEF IntentRow

(* A step that moves intent i to r and leaves every activation as it is.   *)
LEMMA IntentFrame ==
    ASSUME Inv, NEW i \in Intents, NEW r \in IntentRow,
           intent' = [intent EXCEPT ![i] = r],
           UNCHANGED <<tenant, hook, activated, abandoned>>,
           contested \subseteq contested', reopened \subseteq reopened',
           r.status = "succeeded" => activated[i] > 0,
           intent[i].status = "succeeded" =>
               r.status = "succeeded" \/ i \in contested' \cup reopened'
    PROVE  Applied' /\ ActivatedTwiceHasCause' /\ Honoured'
<1>1. intent \in [Intents -> IntentRow]
    BY DEF Inv, TypeOK
<1>2. ASSUME NEW j \in Intents
      PROVE  /\ AppliedTo(j)'
             /\ activated'[j] > 1 => j \in contested' \cup reopened'
    <2>1. /\ AppliedTo(j)
          /\ activated[j] > 1 => j \in contested \cup reopened
        BY <1>2 DEF Inv, Applied, ActivatedTwiceHasCause
    <2>2. CASE j = i
        BY <1>1, <2>1, <2>2 DEF AppliedTo
    <2>3. CASE j # i
        BY <1>1, <2>1, <2>3 DEF AppliedTo
    <2> QED
        BY <2>2, <2>3
<1>3. Honoured'
    BY FrameHonoured DEF Alive
<1> QED
    BY <1>2, <1>3 DEF Applied, ActivatedTwiceHasCause

(* A step that touches neither the tenant, the clock nor any job's copy.   *)
LEMMA TenantFrame ==
    ASSUME Inv, UNCHANGED <<now, tenant, sweep, expiry, purge, sold, since>>,
           request' \in {request, NoRequest}, overtaken => overtaken'
    PROVE  /\ Dated' /\ GraceIsWhole' /\ Picked' /\ Due' /\ Covered'
           /\ request' \in RequestRow
<1>1. Dated'
    <2>1. InTime(request.row)' /\ Behind(request.row)'
        BY IdleTypes, TrialTenantType DEF Inv, Dated, InTime, Behind
    <2> QED
        BY <2>1 DEF Inv, Dated, InTime, Behind
<1>2. GraceIsWhole' /\ Picked' /\ Due' /\ Covered'
    BY DEF Inv, GraceIsWhole, Picked, Due, Covered
<1> QED
    BY <1>1, <1>2, IdleTypes DEF Inv, TypeOK

LEMMA IntentUpdate ==
    ASSUME Inv, NEW i \in Intents, NEW r \in IntentRow,
           intent' = [intent EXCEPT ![i] = r],
           UNCHANGED <<now, changes, tenant, receipt, hook, jobs, ghosts>>,
           r.status = "succeeded" => activated[i] > 0,
           intent[i].status = "succeeded" => r.status = "succeeded"
    PROVE  Inv'
<1>1. Applied' /\ ActivatedTwiceHasCause' /\ Honoured'
    BY IntentFrame DEF ghosts, intentGhosts
<1>2. Dated' /\ GraceIsWhole' /\ Picked' /\ Due' /\ Covered'
    BY TenantFrame DEF jobs, ghosts
<1>3. Linked'
    BY FrameLinked DEF jobs
<1>4. TypeOK'
    BY DEF Inv, TypeOK, jobs, ghosts, intentGhosts
<1> QED
    BY <1>1, <1>2, <1>3, <1>4 DEF Inv

LEMMA IntentFacts ==
    ASSUME Inv, NEW i \in Intents
    PROVE  /\ intent[i] \in IntentRow
           /\ intent[i].status \in IntentStatuses
           /\ intent[i].status = "succeeded" => activated[i] > 0
<1>1. intent[i] \in IntentRow
    BY DEF Inv, TypeOK
<1> QED
    BY <1>1 DEF IntentRow, Inv, Applied, AppliedTo

LEMMA ExpireIntentInv == ASSUME Inv, NEW i \in Intents, ExpireIntent(i) PROVE Inv'
<1> DEFINE r == [intent[i] EXCEPT !.status = "expired"]
<1>1. r \in IntentRow
    BY IntentFacts, StatusType DEF IntentStatuses
<1>2. r.status = "expired"
    BY IntentFacts DEF IntentRow
<1>3. intent' = [intent EXCEPT ![i] = r] /\ intent[i].status = "awaiting_proof"
    BY DEF ExpireIntent
<1> HIDE DEF r
<1> QED
    BY <1>1, <1>2, <1>3, IntentFacts, IntentUpdate DEF ExpireIntent

LEMMA CreateIntentInv == ASSUME Inv, NEW i \in Intents, CreateIntent(i) PROVE Inv'
<1> DEFINE fresh == [status |-> "awaiting_proof", renewal |-> classify_purpose,
                     late |-> FALSE]
<1>1. fresh \in IntentRow /\ fresh.status = "awaiting_proof"
    <2>1. classify_purpose \in BOOLEAN
        BY DEF classify_purpose
    <2> QED
        BY <2>1 DEF IntentRow, IntentStatuses, OpenStatuses
<1>2. \A j \in Intents : intent'[j] =
          IF j = i THEN fresh
          ELSE IF j \in Open THEN [intent[j] EXCEPT !.status = "expired"] ELSE intent[j]
    BY DEF CreateIntent
<1>3. intent' = [j \in Intents |-> intent'[j]]
    BY DEF CreateIntent
<1>4. intent[i].status = "none"
    BY DEF CreateIntent
<1>5. UNCHANGED <<now, changes, tenant, receipt, hook, jobs, ghosts>>
    BY DEF CreateIntent
<1> HIDE DEF fresh
<1>6. ASSUME NEW j \in Intents
      PROVE  /\ intent'[j] \in IntentRow
             /\ AppliedTo(j)'
    <2>1. AppliedTo(j) /\ activated' = activated /\ contested' = contested /\ reopened' = reopened
        BY <1>5, <1>6 DEF Inv, Applied, ghosts, intentGhosts
    <2>2. CASE j = i
        <3>1. intent'[j] = fresh
            BY <1>2, <2>2
        <3> QED
            BY <1>1, <1>4, <2>1, <2>2, <3>1 DEF AppliedTo
    <2>3. CASE j # i /\ j \in Open
        <3>1. intent'[j] = [intent[j] EXCEPT !.status = "expired"]
            BY <1>2, <2>3
        <3>2. intent'[j] \in IntentRow
            BY <1>6, <3>1, IntentFacts, StatusType DEF IntentStatuses
        <3>3. intent'[j].status = "expired"
            BY <1>6, <3>1, IntentFacts DEF IntentRow
        <3>4. intent[j].status # "succeeded"
            BY <2>3 DEF Open, OpenStatuses
        <3> QED
            BY <1>6, <2>1, <3>2, <3>3, <3>4, IntentFacts DEF AppliedTo
    <2>4. CASE j # i /\ j \notin Open
        <3>1. intent'[j] = intent[j]
            BY <1>2, <2>4
        <3> QED
            BY <1>6, <2>1, <3>1, IntentFacts DEF AppliedTo
    <2> QED
        BY <2>2, <2>3, <2>4
<1>7. intent' \in [Intents -> IntentRow]
    BY <1>3, <1>6
<1>8. Applied'
    BY <1>6 DEF Applied
<1>9. ActivatedTwiceHasCause' /\ Honoured'
    BY <1>5, FrameHonoured DEF Inv, ActivatedTwiceHasCause, Alive, ghosts, intentGhosts
<1>10. Dated' /\ GraceIsWhole' /\ Picked' /\ Due' /\ Covered'
    BY <1>5, TenantFrame DEF jobs, ghosts
<1>11. Linked'
    BY <1>5, FrameLinked DEF jobs
<1>12. TypeOK'
    BY <1>5, <1>7 DEF Inv, TypeOK, jobs, ghosts, intentGhosts
<1> QED
    BY <1>8, <1>9, <1>10, <1>11, <1>12 DEF Inv

-----------------------------------------------------------------------------
(* Activation.                                                             *)

(* The tenant's row and what is sold, when i is applied to the copy row.   *)
LEMMA ActivateTenant ==
    ASSUME Inv, NEW i \in Intents, NEW row \in TenantRow, InTime(row), Behind(row),
           NEW seen, Activate(i, row, seen), purge' = purge, expiry' = expiry,
           sweep' = sweep, request' \in {request, NoRequest}
    PROVE  /\ tenant' \in TenantRow /\ since' \in Nat /\ overtaken' \in BOOLEAN
           /\ sweep' \in SweepRow /\ request' \in RequestRow
           /\ purge' \in BatchRow /\ expiry' \in BatchRow /\ now' \in Nat /\ sold' \in Nat
           /\ Dated' /\ GraceIsWhole' /\ Picked' /\ Due' /\ Covered'
<1> DEFINE renewal == RenewalShaped(i, row)
           new == IF renewal THEN Renewed(row) ELSE Subscribed(row)
           start == IF renewal THEN Anchor(row, now) ELSE now
<1>1. Write(row, new, FALSE) /\ Sell(start) /\ now' = now
    BY DEF Activate
<1>2. row.state = "active" => renewal
    BY DEF RenewalShaped
<1>3. start \in Nat /\ (~renewal => start = now) /\ (renewal => start = Anchor(row, now))
    BY TenantFacts, AnchorType
<1> HIDE DEF renewal
<1>4. Kept(row, new) /\ new.next = start + Period /\ new.state = "active"
    BY TenantFacts, RenewedKept, SubscribedKept
<1>5. sold' \in Nat /\ (sold <= start => sold' = start + Period)
    BY <1>1, <1>3, TenantFacts, SellType
<1> HIDE DEF new, start
<1>6. /\ tenant' \in TenantRow /\ since' \in Nat /\ overtaken' \in BOOLEAN
      /\ sweep' \in SweepRow /\ request' \in RequestRow
      /\ purge' \in BatchRow /\ expiry' \in BatchRow /\ now' \in Nat
      /\ Dated' /\ GraceIsWhole' /\ Picked' /\ Due'
      /\ overtaken => overtaken'
      /\ ~overtaken' => ~overtaken /\ row = tenant /\ tenant' = new
    BY <1>1, <1>4, WriteInv
<1>7. Covered'
    <2> SUFFICES ASSUME ~overtaken' PROVE CoveredBy(tenant', sold')
        BY <1>1, <1>6, TenantFacts DEF Covered, CoveredBy
    <2>1. /\ CoveredBy(tenant, sold) /\ row = tenant /\ tenant' = new
          /\ tenant.state # "deleted"
        BY <1>1, <1>6, TenantFacts DEF Write, Alive
    <2>2. sold <= start
        <3>1. CASE renewal
            BY <1>3, <2>1, <3>1, TenantFacts, AnchorType DEF CoveredBy
        <3>2. CASE ~renewal
            <4>1. tenant.state \in Payable
                BY <1>2, <2>1, <3>2, TenantFacts DEF Payable, TenantRow
            <4> QED
                BY <1>3, <2>1, <3>2, <4>1 DEF CoveredBy
        <3> QED
            BY <3>1, <3>2
    <2> QED
        BY <1>3, <1>4, <1>5, <2>1, <2>2, ConstantTypes DEF CoveredBy, Payable
<1> QED
    BY <1>5, <1>6, <1>7

(* The intent: it was not applied before, or there is a cause.             *)
LEMMA ActivateIntent ==
    ASSUME Inv, NEW i \in Intents, NEW row, NEW seen, Activate(i, row, seen),
           seen # "succeeded"
    PROVE  /\ intent' \in [Intents -> IntentRow] /\ activated' \in [Intents -> Nat]
           /\ contested' \subseteq Intents /\ reopened' \subseteq Intents
           /\ UNCHANGED abandoned
           /\ Applied' /\ ActivatedTwiceHasCause'
           /\ activated'[i] > 0
           /\ \A j \in Intents : activated[j] > 0 => activated'[j] > 0
<1> DEFINE r == [intent[i] EXCEPT !.status = "succeeded"]
<1>1. intent \in [Intents -> IntentRow] /\ activated \in [Intents -> Nat]
    BY DEF Inv, TypeOK
<1>2. /\ intent' = [intent EXCEPT ![i] = r]
      /\ activated' = [activated EXCEPT ![i] = @ + 1]
      /\ contested' = IF seen = intent[i].status THEN contested ELSE contested \cup {i}
      /\ UNCHANGED <<reopened, abandoned>>
    BY DEF Activate, Contested
<1>3. r \in IntentRow
    BY IntentFacts, StatusType DEF IntentStatuses
<1>4. r.status = "succeeded"
    BY IntentFacts DEF IntentRow
<1> HIDE DEF r
<1>5. intent' \in [Intents -> IntentRow] /\ activated' \in [Intents -> Nat]
    BY <1>1, <1>2, <1>3
<1>6. ASSUME NEW j \in Intents
      PROVE  /\ AppliedTo(j)'
             /\ activated'[j] > 1 => j \in contested' \cup reopened'
             /\ activated[j] > 0 \/ j = i => activated'[j] > 0
    <2>1. /\ AppliedTo(j)
          /\ activated[j] > 1 => j \in contested \cup reopened
        BY <1>6 DEF Inv, Applied, ActivatedTwiceHasCause
    <2>2. CASE j = i
        <3>1. intent'[j] = r /\ activated'[j] = activated[j] + 1 /\ activated[j] \in Nat
            BY <1>1, <1>2, <2>2
        <3> QED
            BY <1>2, <1>4, <2>1, <2>2, <3>1 DEF AppliedTo
    <2>3. CASE j # i
        <3>1. intent'[j] = intent[j] /\ activated'[j] = activated[j]
            BY <1>1, <1>2, <2>3
        <3> QED
            BY <1>2, <2>1, <2>3, <3>1 DEF AppliedTo
    <2> QED
        BY <2>2, <2>3
<1>7. contested' \subseteq Intents /\ reopened' \subseteq Intents
    BY <1>2 DEF Inv, TypeOK
<1> QED
    BY <1>2, <1>5, <1>6, <1>7 DEF Applied, ActivatedTwiceHasCause

LEMMA UploadFacts ==
    ASSUME Inv, request.kind = "upload"
    PROVE  /\ request.receipt \in Receipts /\ request.intent \in Intents
           /\ request.seen \in OpenStatuses /\ request.row \in TenantRow
           /\ InTime(request.row) /\ Behind(request.row)
BY DEF Inv, Linked, Dated, TypeOK, RequestRow

ReceiptStatuses == {"none", "awaiting_review", "auto_approved", "approved", "rejected"}

(* Filing the uploaded receipt keeps every reference real.                 *)
LEMMA FiledLinked ==
    ASSUME Inv, request.kind = "upload", NEW st \in ReceiptStatuses \ {"none"}, Filed(st),
           request' = NoRequest, UNCHANGED review
    PROVE  receipt' \in [Receipts -> ReceiptRow] /\ Linked'
<1> DEFINE row == [status |-> st, intent |-> request.intent]
<1>1. row \in ReceiptRow /\ row.status # "none" /\ row.intent \in Intents
    BY UploadFacts DEF ReceiptRow, ReceiptStatuses
<1>2. receipt' = [receipt EXCEPT ![request.receipt] = row]
    BY DEF Filed
<1> HIDE DEF row
<1>3. receipt \in [Receipts -> ReceiptRow] /\ review.receipt \in Receipts \cup {Nil}
    BY DEF Inv, TypeOK, ReviewRow
<1>4. receipt' \in [Receipts -> ReceiptRow]
    BY <1>1, <1>2, <1>3
<1>5. \A r \in Receipts : receipt'[r] = IF r = request.receipt THEN row ELSE receipt[r]
    BY <1>2, <1>3
<1>6. Linked'
    BY <1>1, <1>3, <1>5, IdleTypes DEF Inv, Linked
<1> QED
    BY <1>4, <1>6

LEMMA AutoApproveInv == ASSUME Inv, AutoApprove PROVE Inv'
<1> DEFINE i == request.intent
<1>1. /\ request.kind = "upload" /\ Filed("auto_approved")
      /\ Activate(i, request.row, request.seen)
      /\ request' = NoRequest
      /\ UNCHANGED <<changes, hook, sweep, expiry, purge, review>>
    BY DEF AutoApprove
<1>2. /\ i \in Intents /\ request.seen \in OpenStatuses /\ request.row \in TenantRow
      /\ InTime(request.row) /\ Behind(request.row)
    BY <1>1, UploadFacts
<1> HIDE DEF i
<1>3. /\ tenant' \in TenantRow /\ since' \in Nat /\ overtaken' \in BOOLEAN /\ sold' \in Nat
      /\ request' \in RequestRow /\ now' \in Nat
      /\ Dated' /\ GraceIsWhole' /\ Picked' /\ Due' /\ Covered'
    BY <1>1, <1>2, ActivateTenant
<1>4. /\ intent' \in [Intents -> IntentRow] /\ activated' \in [Intents -> Nat]
      /\ contested' \subseteq Intents /\ reopened' \subseteq Intents
      /\ UNCHANGED abandoned
      /\ Applied' /\ ActivatedTwiceHasCause'
      /\ \A j \in Intents : activated[j] > 0 => activated'[j] > 0
    BY <1>1, <1>2, ActivateIntent DEF OpenStatuses
<1>5. Honoured'
    BY <1>1, <1>4, ConstantTypes, FrameHonoured DEF Activate, Write
<1>6. receipt' \in [Receipts -> ReceiptRow] /\ Linked'
    BY <1>1, FiledLinked DEF ReceiptStatuses
<1>7. TypeOK'
    BY <1>1, <1>3, <1>4, <1>6 DEF Inv, TypeOK
<1> QED
    BY <1>3, <1>4, <1>5, <1>6, <1>7 DEF Inv

LEMMA QueueForReviewInv == ASSUME Inv, QueueForReview PROVE Inv'
<1> DEFINE i == request.intent
           st == Column(request.seen, "under_review", intent[i].status)
           r == [intent[i] EXCEPT !.status = st]
<1>1. /\ request.kind = "upload" /\ Filed("awaiting_review")
      /\ intent' = [intent EXCEPT ![i] = r]
      /\ contested' = IF request.seen = intent[i].status THEN contested ELSE contested \cup {i}
      /\ request' = NoRequest
      /\ UNCHANGED <<now, changes, tenant, hook, sweep, expiry, purge, review, sold,
                     since, overtaken, activated, reopened, abandoned>>
    BY DEF QueueForReview, Contested
<1>2. i \in Intents /\ request.seen \in OpenStatuses
    BY <1>1, UploadFacts
<1> HIDE DEF i
<1>3. st \in IntentStatuses /\ st \in {"under_review", intent[i].status}
    BY <1>2, IntentFacts DEF Column, IntentStatuses, OpenStatuses
<1> HIDE DEF st
<1>4. r \in IntentRow /\ r.status = st
    <2>1. r \in IntentRow
        BY <1>2, <1>3, IntentFacts, StatusType
    <2> QED
        BY <1>2, <2>1, IntentFacts DEF IntentRow
<1> HIDE DEF r
<1>5. contested' \subseteq Intents /\ contested \subseteq contested'
    BY <1>1, <1>2 DEF Inv, TypeOK
<1>6. Applied' /\ ActivatedTwiceHasCause' /\ Honoured'
    <2>1. intent[i].status = "succeeded" => i \in contested'
        BY <1>1, <1>2 DEF OpenStatuses
    <2> QED
        BY <1>1, <1>2, <1>3, <1>4, <1>5, <2>1, IntentFacts, IntentFrame
<1>7. /\ Dated' /\ GraceIsWhole' /\ Picked' /\ Due' /\ Covered'
      /\ request' \in RequestRow
    BY <1>1, TenantFrame
<1>8. receipt' \in [Receipts -> ReceiptRow] /\ Linked'
    BY <1>1, FiledLinked DEF ReceiptStatuses
<1>9. TypeOK'
    BY <1>1, <1>2, <1>4, <1>5, <1>7, <1>8 DEF Inv, TypeOK
<1> QED
    BY <1>6, <1>7, <1>8, <1>9 DEF Inv

-----------------------------------------------------------------------------
(* The review.                                                             *)

LEMMA ReviewFacts ==
    ASSUME Inv, review.receipt # Nil
    PROVE  /\ review.receipt \in Receipts /\ Reviewed \in Intents
           /\ receipt[review.receipt].status # "none"
BY DEF Inv, TypeOK, Linked, ReviewRow, Reviewed

LEMMA DecidedLinked ==
    ASSUME Inv, NEW st \in ReceiptStatuses \ {"none"}, Decided(st)
    PROVE  /\ receipt' \in [Receipts -> ReceiptRow] /\ review' \in ReviewRow /\ Linked'
           /\ UNCHANGED <<now, changes, hook, sweep, expiry, purge, request>>
           /\ review.receipt # Nil
<1> DEFINE row == [receipt[review.receipt] EXCEPT !.status = st]
<1>1. /\ review.receipt # Nil /\ review' = NoReview
      /\ receipt' = [receipt EXCEPT ![review.receipt] = row]
      /\ UNCHANGED <<now, changes, hook, sweep, expiry, purge, request>>
    BY DEF Decided
<1>2. receipt \in [Receipts -> ReceiptRow] /\ receipt[review.receipt] \in ReceiptRow
    BY <1>1, ReviewFacts DEF Inv, TypeOK
<1>3. /\ row \in ReceiptRow /\ row.status # "none"
      /\ row.intent = receipt[review.receipt].intent
    BY <1>2 DEF ReceiptRow, ReceiptStatuses
<1> HIDE DEF row
<1>4. receipt' \in [Receipts -> ReceiptRow]
    BY <1>1, <1>2, <1>3
<1>5. \A r \in Receipts : receipt'[r] = IF r = review.receipt THEN row ELSE receipt[r]
    BY <1>1, <1>2
<1>6. Linked'
    BY <1>1, <1>3, <1>5, IdleTypes, ReviewFacts DEF Inv, Linked
<1> QED
    BY <1>1, <1>4, <1>6, IdleTypes

LEMMA ApproveInv == ASSUME Inv, Approve PROVE Inv'
<1> DEFINE i == Reviewed
<1>1. /\ Decided("approved") /\ review.seen \in OpenStatuses
      /\ Activate(i, tenant, review.seen)
    BY DEF Approve
<1>2. /\ receipt' \in [Receipts -> ReceiptRow] /\ review' \in ReviewRow /\ Linked'
      /\ UNCHANGED <<now, changes, hook, sweep, expiry, purge, request>>
      /\ review.receipt # Nil
    BY <1>1, DecidedLinked DEF ReceiptStatuses
<1>3. i \in Intents
    BY <1>2, ReviewFacts
<1> HIDE DEF i
<1>4. /\ tenant' \in TenantRow /\ since' \in Nat /\ overtaken' \in BOOLEAN /\ sold' \in Nat
      /\ Dated' /\ GraceIsWhole' /\ Picked' /\ Due' /\ Covered'
    BY <1>1, <1>2, <1>3, TenantFacts, ActivateTenant
<1>5. /\ intent' \in [Intents -> IntentRow] /\ activated' \in [Intents -> Nat]
      /\ contested' \subseteq Intents /\ reopened' \subseteq Intents
      /\ UNCHANGED abandoned
      /\ Applied' /\ ActivatedTwiceHasCause'
      /\ \A j \in Intents : activated[j] > 0 => activated'[j] > 0
    BY <1>1, <1>3, ActivateIntent DEF OpenStatuses
<1>6. Honoured'
    BY <1>1, <1>2, <1>5, ConstantTypes, FrameHonoured DEF Activate, Write
<1>7. TypeOK'
    BY <1>2, <1>4, <1>5 DEF Inv, TypeOK
<1> QED
    BY <1>2, <1>4, <1>5, <1>6, <1>7 DEF Inv

LEMMA ApproveReplayInv == ASSUME Inv, ApproveReplay PROVE Inv'
<1>1. /\ receipt' \in [Receipts -> ReceiptRow] /\ review' \in ReviewRow /\ Linked'
      /\ UNCHANGED <<now, changes, hook, sweep, expiry, purge, request>>
    BY DecidedLinked DEF ApproveReplay, ReceiptStatuses
<1>2. UNCHANGED <<tenant, intent, sold, since, overtaken, intentGhosts>>
    BY DEF ApproveReplay, ghosts
<1>3. Dated' /\ GraceIsWhole' /\ Picked' /\ Due' /\ Covered'
    BY <1>1, <1>2, TenantFrame
<1>4. Applied' /\ ActivatedTwiceHasCause' /\ Honoured'
    BY <1>1, <1>2, FrameApplied DEF Alive
<1>5. TypeOK'
    BY <1>1, <1>2 DEF Inv, TypeOK, intentGhosts
<1> QED
    BY <1>1, <1>3, <1>4, <1>5 DEF Inv

LEMMA RejectInv == ASSUME Inv, Reject PROVE Inv'
<1> DEFINE i == Reviewed
           st == Column(review.seen, "awaiting_proof", intent[i].status)
           r == [intent[i] EXCEPT !.status = st]
<1>1. /\ Decided("rejected")
      /\ intent' = [intent EXCEPT ![i] = r]
      /\ contested' = IF review.seen = intent[i].status THEN contested ELSE contested \cup {i}
      /\ reopened' = IF intent[i].status = "succeeded" THEN reopened \cup {i} ELSE reopened
      /\ UNCHANGED <<tenant, sold, since, overtaken, activated, abandoned>>
    BY DEF Reject, Contested
<1>2. /\ receipt' \in [Receipts -> ReceiptRow] /\ review' \in ReviewRow /\ Linked'
      /\ UNCHANGED <<now, changes, hook, sweep, expiry, purge, request>>
      /\ review.receipt # Nil
    BY <1>1, DecidedLinked DEF ReceiptStatuses
<1>3. i \in Intents
    BY <1>2, ReviewFacts
<1> HIDE DEF i
<1>4. st \in IntentStatuses /\ st \in {"awaiting_proof", intent[i].status}
    BY <1>3, IntentFacts DEF Column, IntentStatuses, OpenStatuses
<1> HIDE DEF st
<1>5. r \in IntentRow /\ r.status = st
    <2>1. r \in IntentRow
        BY <1>3, <1>4, IntentFacts, StatusType
    <2> QED
        BY <1>3, <2>1, IntentFacts DEF IntentRow
<1> HIDE DEF r
<1>6. /\ contested \subseteq contested' /\ contested' \subseteq Intents
      /\ reopened \subseteq reopened' /\ reopened' \subseteq Intents
      /\ intent[i].status = "succeeded" => i \in reopened'
    BY <1>1, <1>3 DEF Inv, TypeOK
<1>7. Applied' /\ ActivatedTwiceHasCause' /\ Honoured'
    BY <1>1, <1>2, <1>3, <1>4, <1>5, <1>6, IntentFacts, IntentFrame
<1>8. Dated' /\ GraceIsWhole' /\ Picked' /\ Due' /\ Covered'
    BY <1>1, <1>2, TenantFrame
<1>9. TypeOK'
    BY <1>1, <1>2, <1>3, <1>5, <1>6 DEF Inv, TypeOK
<1> QED
    BY <1>2, <1>7, <1>8, <1>9 DEF Inv

-----------------------------------------------------------------------------
(* Steps that only move a job.                                             *)

LEMMA JobFrame ==
    ASSUME Inv, UNCHANGED <<now, changes, rows, hook, ghosts>>,
           sweep' \in SweepRow, purge' \in BatchRow, expiry' \in BatchRow,
           request' \in RequestRow, review' \in ReviewRow,
           sweep'.row \in {sweep.row, tenant, TrialTenant},
           expiry'.row \in {expiry.row, tenant, TrialTenant},
           request'.row \in {request.row, tenant, TrialTenant},
           Picked', Due', Linked'
    PROVE  Inv'
<1>1. TypeOK'
    BY DEF Inv, TypeOK, rows, ghosts, intentGhosts
<1>2. Dated'
    <2>1. InTime(sweep.row)' /\ Behind(sweep.row)'
        BY TenantFacts, TrialTenantType DEF Inv, Dated, InTime, Behind, rows
    <2>2. InTime(request.row)' /\ Behind(request.row)'
        BY TenantFacts, TrialTenantType DEF Inv, Dated, InTime, Behind, rows
    <2>3. InTime(expiry.row)' /\ Behind(expiry.row)'
        BY TenantFacts, TrialTenantType DEF Inv, Dated, InTime, Behind, rows
    <2> QED
        BY <2>1, <2>2, <2>3 DEF Inv, Dated, InTime, rows, ghosts
<1>3. GraceIsWhole' /\ Covered'
    BY DEF Inv, GraceIsWhole, Covered, rows, ghosts
<1>4. Applied' /\ ActivatedTwiceHasCause' /\ Honoured'
    BY FrameApplied DEF Alive, rows, ghosts
<1> QED
    BY <1>1, <1>2, <1>3, <1>4 DEF Inv

(* The jobs a step does not move keep what is said of them.                *)
LEMMA SweepMoves ==
    ASSUME Inv, UNCHANGED <<now, changes, rows, hook, expiry, purge, request, review, ghosts>>,
           sweep' \in SweepRow, sweep'.row \in {sweep.row, tenant, TrialTenant}, Due'
    PROVE  Inv'
<1>1. /\ Picked' /\ purge' \in BatchRow /\ expiry' \in BatchRow
      /\ request' \in RequestRow /\ review' \in ReviewRow
    BY DEF Inv, TypeOK, Picked
<1>2. Linked'
    BY FrameLinked DEF rows
<1> QED
    BY <1>1, <1>2, JobFrame

LEMMA SelectDueInv == ASSUME Inv, SelectDue PROVE Inv'
<1> DEFINE s == [pc |-> "selected", row |-> tenant, at |-> now, stale |-> FALSE]
<1>1. sweep' = s /\ UNCHANGED <<now, changes, rows, hook, expiry, purge, request, review, ghosts>>
        /\ tenant.next # Nil /\ tenant.next <= now
    BY DEF SelectDue
<1>2. s \in SweepRow
    BY TenantFacts DEF SweepRow
<1>3. Due'
    BY <1>1, TenantFacts DEF Due
<1> QED
    BY <1>1, <1>2, <1>3, SweepMoves

LEMMA LoadDueInv == ASSUME Inv, LoadDue PROVE Inv'
<1> DEFINE pc == IF tenant.card THEN "charging" ELSE "failed"
           s == [sweep EXCEPT !.pc = pc, !.row = tenant, !.stale = sweep.row # tenant]
<1>1. /\ sweep' = s /\ sweep.pc = "selected"
      /\ UNCHANGED <<now, changes, rows, hook, expiry, purge, request, review, ghosts>>
    BY DEF LoadDue
<1>2. sweep \in SweepRow /\ pc \in {"charging", "failed"}
    BY DEF Inv, TypeOK
<1> HIDE DEF pc
<1>3. s \in SweepRow /\ s.pc = pc /\ s.row = tenant /\ s.at = sweep.at
        /\ (s.stale <=> sweep.row # tenant)
    BY <1>2, TenantFacts DEF SweepRow
<1> HIDE DEF s
<1>4. Due'
    BY <1>1, <1>2, <1>3, SweepFacts DEF Due
<1> QED
    BY <1>1, <1>3, <1>4, SweepMoves

LEMMA SkipFreeInv == ASSUME Inv, SkipFree PROVE Inv'
<1> DEFINE s == [sweep EXCEPT !.pc = "free", !.row = tenant, !.stale = sweep.row # tenant]
<1>1. /\ sweep' = s /\ sweep.pc = "selected"
      /\ UNCHANGED <<now, changes, rows, hook, expiry, purge, request, review, ghosts>>
    BY DEF SkipFree
<1>2. sweep \in SweepRow
    BY DEF Inv, TypeOK
<1>3. s \in SweepRow /\ s.pc = "free" /\ s.row = tenant /\ s.at = sweep.at
        /\ (s.stale <=> sweep.row # tenant)
    BY <1>2, TenantFacts DEF SweepRow
<1> HIDE DEF s
<1>4. Due'
    BY <1>1, <1>3, SweepFacts DEF Due
<1> QED
    BY <1>1, <1>3, <1>4, SweepMoves

LEMMA ChargeInv ==
    ASSUME Inv, NEW pc \in {"charged", "failed"}, sweep.pc = "charging",
           sweep' = [sweep EXCEPT !.pc = pc],
           UNCHANGED <<now, changes, rows, hook, expiry, purge, request, review, ghosts>>
    PROVE  Inv'
<1>1. sweep \in SweepRow
    BY DEF Inv, TypeOK
<1>2. /\ sweep' \in SweepRow /\ sweep'.pc = pc /\ sweep'.row = sweep.row
      /\ sweep'.at = sweep.at /\ sweep'.stale = sweep.stale
    BY <1>1 DEF SweepRow
<1>3. Due'
    BY <1>2 DEF Inv, Due
<1> QED
    BY <1>2, <1>3, SweepMoves

LEMMA SweepEndsInv == ASSUME Inv, SweepEnds PROVE Inv'
<1>1. Due'
    BY IdleTypes DEF SweepEnds, Due
<1> QED
    BY <1>1, IdleTypes, SweepMoves DEF SweepEnds

LEMMA BatchMoves ==
    ASSUME Inv, UNCHANGED <<now, changes, rows, hook, sweep, request, review, ghosts>>,
           purge' \in BatchRow, expiry' \in BatchRow,
           expiry'.row \in {expiry.row, tenant, TrialTenant}, Picked'
    PROVE  Inv'
<1>1. Due' /\ sweep' \in SweepRow /\ request' \in RequestRow /\ review' \in ReviewRow
    BY DEF Inv, TypeOK, Due
<1>2. Linked'
    BY FrameLinked DEF rows
<1> QED
    BY <1>1, <1>2, JobFrame

LEMMA FindInv == ASSUME Inv, find_purgeable_read_only PROVE Inv'
<1>1. purge' \in BatchRow /\ purge'.row = tenant
    BY TenantFacts DEF find_purgeable_read_only, BatchRow
<1>2. Picked'
    BY <1>1 DEF find_purgeable_read_only, Picked, Inv
<1> QED
    BY <1>1, <1>2, BatchMoves DEF find_purgeable_read_only, Inv, TypeOK

LEMMA PurgeFailsInv == ASSUME Inv, PurgeFails PROVE Inv'
<1>1. Picked'
    BY IdleTypes DEF PurgeFails, Picked, Inv
<1> QED
    BY <1>1, IdleTypes, BatchMoves DEF PurgeFails, Inv, TypeOK

LEMMA FindExpiredInv == ASSUME Inv, find_expired_trials PROVE Inv'
<1>1. expiry' \in BatchRow /\ expiry'.row = tenant
    BY TenantFacts DEF find_expired_trials, BatchRow
<1>2. Picked'
    BY <1>1 DEF find_expired_trials, Picked, Inv
<1> QED
    BY <1>1, <1>2, BatchMoves DEF find_expired_trials, Inv, TypeOK

LEMMA ExpiryFailsInv == ASSUME Inv, ExpiryFails PROVE Inv'
<1>1. Picked'
    BY IdleTypes DEF ExpiryFails, Picked, Inv
<1> QED
    BY <1>1, IdleTypes, BatchMoves DEF ExpiryFails, Inv, TypeOK

LEMMA RequestMoves ==
    ASSUME Inv, UNCHANGED <<now, changes, rows, hook, sweep, expiry, purge, review, ghosts>>,
           request' \in RequestRow, request'.row \in {tenant, TrialTenant},
           request'.kind = "upload" =>
              /\ request'.receipt \in Receipts /\ request'.intent \in Intents
              /\ request'.seen \in OpenStatuses,
           request'.kind = "subscribe" => request'.row.state \in Payable
    PROVE  Inv'
<1>1. /\ Picked' /\ Due' /\ sweep' \in SweepRow /\ purge' \in BatchRow /\ expiry' \in BatchRow
      /\ review' \in ReviewRow
    BY DEF Inv, TypeOK, Picked, Due
<1>2. Linked'
    BY DEF Inv, Linked, rows
<1> QED
    BY <1>1, <1>2, JobFrame

LEMMA StartUploadInv ==
    ASSUME Inv, NEW r \in Receipts, NEW i \in Intents, StartUpload(r, i)
    PROVE  Inv'
<1>1. /\ request' = [kind |-> "upload", receipt |-> r, intent |-> i,
                     row |-> tenant, seen |-> intent[i].status]
      /\ intent[i].status \in OpenStatuses
      /\ UNCHANGED <<now, changes, rows, hook, sweep, expiry, purge, review, ghosts>>
    BY DEF StartUpload
<1>2. request' \in RequestRow
    BY <1>1, TenantFacts, IntentFacts DEF RequestRow
<1> QED
    BY <1>1, <1>2, RequestMoves

LEMMA StartSubscribeInv == ASSUME Inv, StartSubscribe PROVE Inv'
<1> DEFINE q == [NoRequest EXCEPT !.kind = "subscribe", !.row = tenant]
<1>1. request' = q /\ tenant.state \in Payable
        /\ UNCHANGED <<now, changes, rows, hook, sweep, expiry, purge, review, ghosts>>
    BY DEF StartSubscribe, Payable
<1>2. NoRequest \in RequestRow
    BY IdleTypes
<1>3. q \in RequestRow /\ q.kind = "subscribe" /\ q.row = tenant
    BY <1>2, TenantFacts DEF RequestRow
<1> HIDE DEF q
<1> QED
    BY <1>1, <1>3, RequestMoves

LEMMA RequestFailsInv == ASSUME Inv, RequestFails PROVE Inv'
BY IdleTypes, RequestMoves DEF RequestFails

LEMMA ReviewMoves ==
    ASSUME Inv, UNCHANGED <<now, changes, rows, hook, sweep, expiry, purge, request, ghosts>>,
           review' \in ReviewRow,
           review'.receipt # Nil => receipt[review'.receipt].status # "none"
    PROVE  Inv'
<1>1. /\ Picked' /\ Due' /\ sweep' \in SweepRow /\ purge' \in BatchRow /\ expiry' \in BatchRow
      /\ request' \in RequestRow
    BY DEF Inv, TypeOK, Picked, Due
<1>2. Linked'
    BY DEF Inv, Linked, rows
<1> QED
    BY <1>1, <1>2, JobFrame

LEMMA StartReviewInv ==
    ASSUME Inv, NEW r \in Receipts, StartReview(r)
    PROVE  Inv'
<1>1. /\ review' = [receipt |-> r, seen |-> intent[receipt[r].intent].status]
      /\ receipt[r].status = "awaiting_review"
      /\ UNCHANGED <<now, changes, rows, hook, sweep, expiry, purge, request, ghosts>>
    BY DEF StartReview
<1>2. receipt[r].intent \in Intents
    BY <1>1 DEF Inv, Linked
<1>3. intent[receipt[r].intent].status \in IntentStatuses
    BY <1>2, IntentFacts
<1>4. review' \in ReviewRow /\ review'.receipt = r
    BY <1>1, <1>3 DEF ReviewRow
<1> QED
    BY <1>1, <1>4, ReviewMoves

LEMMA ReviewFailsInv == ASSUME Inv, ReviewFails PROVE Inv'
BY IdleTypes, ReviewMoves DEF ReviewFails

-----------------------------------------------------------------------------
(* The callback.                                                           *)

LEMMA ChangeUnlessType ==
    ASSUME changes \in Nat, NEW b, ChangeUnless(b)
    PROVE  changes' \in Nat
BY DEF ChangeUnless, Change

(* A step of the callback of card intent i that leaves the rows alone.     *)
LEMMA HookMoves ==
    ASSUME Inv, NEW i \in CardIntents, NEW h \in HookRow,
           hook' = [hook EXCEPT ![i] = h],
           UNCHANGED <<now, rows, jobs, sold, since, overtaken, activated, contested, reopened>>,
           changes' \in Nat, abandoned' \subseteq CardIntents, abandoned \subseteq abandoned',
           h.charge = "none" => ~h.nonce /\ ~h.running /\ ~h.acked,
           h.nonce \/ h.acked => \/ activated[i] > 0 \/ h.running \/ i \in abandoned'
                                 \/ h.charge # "exact" \/ ~Alive
    PROVE  Inv'
<1>1. hook \in [CardIntents -> HookRow]
    BY DEF Inv, TypeOK
<1>2. TypeOK'
    BY <1>1 DEF Inv, TypeOK, rows, jobs
<1>3. Dated' /\ GraceIsWhole' /\ Picked' /\ Due' /\ Covered'
    BY TenantFrame DEF rows, jobs
<1>4. Linked'
    BY FrameLinked DEF rows, jobs
<1>5. Applied' /\ ActivatedTwiceHasCause'
    BY DEF Inv, Applied, AppliedTo, ActivatedTwiceHasCause, rows
<1>6. ASSUME NEW j \in CardIntents PROVE HonouredFor(j)'
    <2>1. HonouredFor(j)
        BY <1>6 DEF Inv, Honoured
    <2>2. CASE j = i
        <3>1. hook'[j] = h
            BY <1>1, <2>2
        <3> QED
            BY <2>2, <3>1 DEF HonouredFor, Alive, rows
    <2>3. CASE j # i
        <3>1. hook'[j] = hook[j]
            BY <1>1, <2>3
        <3> QED
            BY <2>1, <3>1 DEF HonouredFor, Alive, rows
    <2> QED
        BY <2>2, <2>3
<1> QED
    BY <1>2, <1>3, <1>4, <1>5, <1>6 DEF Inv, Honoured

LEMMA HookFacts ==
    ASSUME Inv, NEW i \in CardIntents
    PROVE  /\ hook[i] \in HookRow /\ HonouredFor(i)
           /\ abandoned \subseteq CardIntents /\ changes \in Nat
           /\ i \in Intents
BY ConstantTypes DEF Inv, TypeOK, Honoured

(* What the steps of the callback make of its record.                      *)
LEMMA HookRows ==
    ASSUME NEW h \in HookRow, NEW amount \in {"exact", "other"}, NEW b \in BOOLEAN
    PROVE  /\ [h EXCEPT !.charge = amount] \in HookRow
           /\ [h EXCEPT !.nonce = TRUE, !.running = TRUE] \in HookRow
           /\ [h EXCEPT !.acked = TRUE] \in HookRow
           /\ [h EXCEPT !.running = FALSE, !.acked = @ \/ b] \in HookRow
           /\ [h EXCEPT !.running = FALSE, !.nonce = FALSE] \in HookRow
           /\ [h EXCEPT !.running = FALSE] \in HookRow
           /\ [h EXCEPT !.nonce = FALSE] \in HookRow
BY DEF HookRow

LEMMA PayCardInv ==
    ASSUME Inv, NEW i \in CardIntents, NEW amount \in {"exact", "other"}, PayCard(i, amount)
    PROVE  Inv'
<1> DEFINE h == [hook[i] EXCEPT !.charge = amount]
<1>1. h \in HookRow
    BY HookFacts, HookRows
<1>2. /\ h.charge = amount /\ h.nonce = hook[i].nonce /\ h.running = hook[i].running
      /\ h.acked = hook[i].acked
    BY HookFacts DEF HookRow
<1>3. hook' = [hook EXCEPT ![i] = h] /\ hook[i].charge = "none"
    BY DEF PayCard
<1>4. ~h.nonce /\ ~h.acked
    BY <1>2, <1>3, HookFacts DEF HonouredFor
<1>5. changes' \in Nat
    BY HookFacts, ChangeUnlessType DEF PayCard
<1> HIDE DEF h
<1> QED
    BY <1>1, <1>2, <1>3, <1>4, <1>5, HookFacts, HookMoves DEF PayCard, ghosts, intentGhosts

LEMMA TakeNonceInv == ASSUME Inv, NEW i \in CardIntents, TakeNonce(i) PROVE Inv'
<1> DEFINE h == [hook[i] EXCEPT !.nonce = TRUE, !.running = TRUE]
<1>1. h \in HookRow
    BY HookFacts, HookRows
<1>2. h.charge = hook[i].charge /\ h.running
    BY HookFacts DEF HookRow
<1>3. hook' = [hook EXCEPT ![i] = h] /\ hook[i].charge # "none"
    BY DEF TakeNonce
<1> HIDE DEF h
<1> QED
    BY <1>1, <1>2, <1>3, HookFacts, HookMoves DEF TakeNonce, ghosts, intentGhosts

LEMMA RejectDuplicateInv == ASSUME Inv, NEW i \in CardIntents, RejectDuplicate(i) PROVE Inv'
<1> DEFINE h == [hook[i] EXCEPT !.acked = TRUE]
<1>1. h \in HookRow
    BY HookFacts, HookRows
<1>2. h.charge = hook[i].charge /\ h.running = hook[i].running
    BY HookFacts DEF HookRow
<1>3. hook' = [hook EXCEPT ![i] = h] /\ hook[i].nonce
    BY DEF RejectDuplicate
<1> HIDE DEF h
<1>4. /\ h.charge # "none"
      /\ \/ activated[i] > 0 \/ h.running \/ i \in abandoned
         \/ h.charge # "exact" \/ ~Alive
    BY <1>2, <1>3, HookFacts DEF HonouredFor
<1> QED
    BY <1>1, <1>3, <1>4, HookFacts, HookMoves DEF RejectDuplicate, ghosts, intentGhosts

LEMMA SettleNothingInv ==
    ASSUME Inv, NEW i \in CardIntents, NEW heard \in BOOLEAN, SettleNothing(i, heard)
    PROVE  Inv'
<1> DEFINE h == [hook[i] EXCEPT !.running = FALSE, !.acked = @ \/ heard]
<1>1. h \in HookRow
    BY HookFacts, HookRows
<1>2. h.charge = hook[i].charge
    BY HookFacts DEF HookRow
<1>3. /\ hook' = [hook EXCEPT ![i] = h] /\ hook[i].running /\ ChangeUnless(heard)
      /\ intent[i].status = "succeeded" \/ hook[i].charge # "exact" \/ ~Alive
      /\ UNCHANGED <<now, rows, jobs, ghosts>>
    BY DEF SettleNothing, Answered
<1>4. h.charge # "none"
    BY <1>2, <1>3, HookFacts DEF HonouredFor
<1>5. activated[i] > 0 \/ h.charge # "exact" \/ ~Alive
    BY <1>2, <1>3, HookFacts, IntentFacts
<1>6. changes' \in Nat
    BY <1>3, HookFacts, ChangeUnlessType
<1> HIDE DEF h
<1> QED
    BY <1>1, <1>3, <1>4, <1>5, <1>6, HookFacts, HookMoves DEF ghosts, intentGhosts

LEMMA CallbackRaisesInv == ASSUME Inv, NEW i \in CardIntents, CallbackRaises(i) PROVE Inv'
<1> DEFINE h == [hook[i] EXCEPT !.running = FALSE, !.nonce = FALSE]
<1>1. h \in HookRow
    BY HookFacts, HookRows
<1>2. h.charge = hook[i].charge /\ ~h.nonce /\ h.acked = hook[i].acked
    BY HookFacts DEF HookRow
<1>3. /\ hook' = [hook EXCEPT ![i] = h] /\ hook[i].running /\ Change
      /\ abandoned' = IF hook[i].acked THEN abandoned \cup {i} ELSE abandoned
    BY DEF CallbackRaises
<1>4. h.charge # "none" /\ changes' \in Nat
    BY <1>2, <1>3, HookFacts, ChangeType DEF HonouredFor
<1> HIDE DEF h
<1> QED
    BY <1>1, <1>2, <1>3, <1>4, HookFacts, HookMoves DEF CallbackRaises

LEMMA NonceRefusedInv == ASSUME Inv, NEW i \in CardIntents, NonceRefused(i) PROVE Inv'
<1> DEFINE h == [hook[i] EXCEPT !.acked = TRUE]
<1>1. h \in HookRow
    BY HookFacts, HookRows
<1>2. h.charge = hook[i].charge
    BY HookFacts DEF HookRow
<1>3. /\ hook' = [hook EXCEPT ![i] = h] /\ hook[i].charge # "none" /\ Change
      /\ abandoned' = abandoned \cup {i}
    BY DEF NonceRefused
<1>4. h.charge # "none" /\ changes' \in Nat
    BY <1>2, <1>3, HookFacts, ChangeType
<1> HIDE DEF h
<1> QED
    BY <1>1, <1>3, <1>4, HookFacts, HookMoves DEF NonceRefused

LEMMA WorkerLostInv == ASSUME Inv, NEW i \in CardIntents, WorkerLost(i) PROVE Inv'
<1> DEFINE h == [hook[i] EXCEPT !.running = FALSE]
<1>1. h \in HookRow
    BY HookFacts, HookRows
<1>2. h.charge = hook[i].charge
    BY HookFacts DEF HookRow
<1>3. /\ hook' = [hook EXCEPT ![i] = h] /\ hook[i].running /\ Change
      /\ abandoned' = abandoned \cup {i}
    BY DEF WorkerLost
<1>4. h.charge # "none" /\ changes' \in Nat
    BY <1>2, <1>3, HookFacts, ChangeType DEF HonouredFor
<1> HIDE DEF h
<1> QED
    BY <1>1, <1>3, <1>4, HookFacts, HookMoves DEF WorkerLost

LEMMA NonceExpiresInv == ASSUME Inv, NEW i \in CardIntents, NonceExpires(i) PROVE Inv'
<1> DEFINE h == [hook[i] EXCEPT !.nonce = FALSE]
<1>1. h \in HookRow
    BY HookFacts, HookRows
<1>2. h.charge = hook[i].charge /\ h.running = hook[i].running /\ h.acked = hook[i].acked
    BY HookFacts DEF HookRow
<1>3. hook' = [hook EXCEPT ![i] = h] /\ hook[i].nonce
    BY DEF NonceExpires
<1> HIDE DEF h
<1>4. /\ h.charge # "none"
      /\ h.acked => \/ activated[i] > 0 \/ h.running \/ i \in abandoned
                     \/ h.charge # "exact" \/ ~Alive
    BY <1>2, <1>3, HookFacts DEF HonouredFor
<1>5. ~h.nonce
    BY HookFacts DEF h, HookRow
<1> QED
    BY <1>1, <1>3, <1>4, <1>5, HookFacts, HookMoves DEF NonceExpires, ghosts, intentGhosts

(* The payment is applied to the current row of the tenant.                *)
LEMMA SettleSubscriptionInv ==
    ASSUME Inv, NEW i \in CardIntents, NEW heard \in BOOLEAN, SettleSubscription(i, heard)
    PROVE  Inv'
<1> DEFINE h == [hook[i] EXCEPT !.running = FALSE, !.acked = @ \/ heard]
<1>1. /\ Activate(i, tenant, intent[i].status) /\ hook' = [hook EXCEPT ![i] = h]
      /\ hook[i].running /\ ChangeUnless(heard) /\ intent[i].status # "succeeded"
      /\ UNCHANGED <<receipt, jobs>>
    BY DEF SettleSubscription, Answered, OpenStatuses
<1>2. h \in HookRow
    BY HookFacts, HookRows
<1>3. h.charge = hook[i].charge /\ h.charge # "none"
    BY <1>1, HookFacts DEF HookRow, HonouredFor
<1>4. /\ tenant' \in TenantRow /\ since' \in Nat /\ overtaken' \in BOOLEAN /\ sold' \in Nat
      /\ now' \in Nat
      /\ Dated' /\ GraceIsWhole' /\ Picked' /\ Due' /\ Covered'
    BY <1>1, HookFacts, TenantFacts, ActivateTenant DEF jobs
<1>5. /\ intent' \in [Intents -> IntentRow] /\ activated' \in [Intents -> Nat]
      /\ contested' \subseteq Intents /\ reopened' \subseteq Intents
      /\ UNCHANGED abandoned
      /\ Applied' /\ ActivatedTwiceHasCause'
      /\ activated'[i] > 0
      /\ \A j \in Intents : activated[j] > 0 => activated'[j] > 0
    BY <1>1, HookFacts, ActivateIntent
<1> HIDE DEF h
<1>6. hook \in [CardIntents -> HookRow] /\ Alive
    BY <1>1 DEF Inv, TypeOK, Activate, Write
<1>7. ASSUME NEW j \in CardIntents PROVE HonouredFor(j)'
    <2>1. HonouredFor(j) /\ j \in Intents
        BY <1>7, ConstantTypes DEF Inv, Honoured
    <2>2. CASE j = i
        <3>1. hook'[j] = h
            BY <1>1, <1>6, <2>2
        <3> QED
            BY <1>3, <1>5, <2>2, <3>1 DEF HonouredFor
    <2>3. CASE j # i
        <3>1. hook'[j] = hook[j]
            BY <1>1, <1>6, <2>3
        <3> QED
            BY <1>5, <1>6, <2>1, <3>1 DEF HonouredFor
    <2> QED
        BY <2>2, <2>3
<1>8. Linked'
    BY <1>1, FrameLinked DEF jobs
<1>9. changes' \in Nat
    BY <1>1, HookFacts, ChangeUnlessType
<1>10. TypeOK'
    BY <1>1, <1>2, <1>4, <1>5, <1>6, <1>9 DEF Inv, TypeOK, jobs
<1> QED
    BY <1>4, <1>5, <1>7, <1>8, <1>10 DEF Inv, Honoured

LEMMA CallbackInv == ASSUME Inv, NEW i \in CardIntents, CallbackStep(i) PROVE Inv'
BY PayCardInv, TakeNonceInv, RejectDuplicateInv, NonceRefusedInv, SettleSubscriptionInv,
   SettleNothingInv, CallbackRaisesInv, WorkerLostInv, NonceExpiresInv DEF CallbackStep

-----------------------------------------------------------------------------
(* The purge, the clock, the beginning.                                    *)

LEMMA PurgeTenantInv == ASSUME Inv, PurgeTenant PROVE Inv'
<1>1. /\ tenant' = [tenant EXCEPT !.state = "deleted"] /\ purge' = NoPurge
      /\ UNCHANGED <<now, changes, intent, receipt, hook, sweep, expiry, request, review, ghosts>>
    BY DEF PurgeTenant
<1>2. /\ tenant' \in TenantRow /\ tenant'.state = "deleted"
      /\ tenant'.delete = tenant.delete /\ tenant'.next = tenant.next
    BY <1>1, TenantFacts DEF TenantRow
<1>3. TypeOK'
    BY <1>1, <1>2, IdleTypes DEF Inv, TypeOK, ghosts, intentGhosts
<1>4. Dated'
    BY <1>1, <1>2 DEF Inv, Dated, InTime, Behind, ghosts
<1>5. GraceIsWhole' /\ Picked' /\ Due'
    BY <1>1, <1>2, IdleTypes DEF Inv, GraceIsWhole, Picked, Due
<1>6. Covered'
    BY <1>1, <1>2 DEF Inv, Covered, Payable, ghosts
<1>7. Linked'
    BY <1>1, FrameLinked
<1>8. Applied' /\ ActivatedTwiceHasCause' /\ Honoured'
    BY <1>1, FrameApplied DEF PurgeTenant, ghosts
<1> QED
    BY <1>3, <1>4, <1>5, <1>6, <1>7, <1>8 DEF Inv

LEMMA TickInv == ASSUME Inv, Tick PROVE Inv'
<1>1. /\ now' = now + 1
      /\ intent' = [i \in Intents |-> [intent[i] EXCEPT !.late = TRUE]]
      /\ UNCHANGED <<tenant, receipt, hook, jobs, changes, ghosts>>
    BY DEF Tick
<1>2. ASSUME NEW i \in Intents
      PROVE  intent'[i] \in IntentRow /\ intent'[i].status = intent[i].status
    <2>1. intent'[i] = [intent[i] EXCEPT !.late = TRUE]
        BY <1>1, <1>2
    <2> QED
        BY <1>2, <2>1, IntentFacts DEF IntentRow
<1>3. intent' \in [Intents -> IntentRow]
    BY <1>1, <1>2
<1>4. TypeOK'
    BY <1>1, <1>3 DEF Inv, TypeOK, jobs, ghosts, intentGhosts
<1>5. Dated'
    <2>1. now \in Nat /\ since \in Nat /\ tenant \in TenantRow
            /\ sweep.row \in TenantRow /\ request.row \in TenantRow
            /\ expiry.row \in TenantRow
        BY DEF Inv, TypeOK, SweepRow, RequestRow, BatchRow
    <2>2. \A row \in TenantRow : InTime(row) => InTime(row)'
        BY <1>1, <2>1, ConstantTypes DEF InTime, TenantRow, Day
    <2>3. since' <= now'
        BY <1>1, <2>1 DEF Inv, Dated, ghosts
    <2>4. InTime(tenant)'
        BY <1>1, <2>1, <2>2 DEF Inv, Dated, InTime
    <2>5. InTime(sweep.row)' /\ Behind(sweep.row)'
        BY <1>1, <2>1, <2>2 DEF Inv, Dated, InTime, Behind, jobs
    <2>6. InTime(request.row)' /\ Behind(request.row)'
        BY <1>1, <2>1, <2>2 DEF Inv, Dated, InTime, Behind, jobs
    <2>7. InTime(expiry.row)' /\ Behind(expiry.row)'
        BY <1>1, <2>1, <2>2 DEF Inv, Dated, InTime, Behind, jobs
    <2> QED
        BY <2>3, <2>4, <2>5, <2>6, <2>7 DEF Dated
<1>6. GraceIsWhole'
    BY <1>1 DEF Inv, GraceIsWhole, ghosts
<1>7. Picked'
    <2>1. now \in Nat /\ purge.row \in TenantRow
        BY DEF Inv, TypeOK, BatchRow
    <2> QED
        BY <1>1, <2>1 DEF Inv, Picked, jobs, TenantRow, Day
<1>8. Due'
    BY <1>1, SweepFacts, TenantFacts DEF Due, jobs
<1>9. Covered'
    BY <1>1, TenantFacts DEF Inv, Covered, ghosts
<1>10. Linked'
    BY <1>1, FrameLinked DEF jobs
<1>11. Applied' /\ ActivatedTwiceHasCause' /\ Honoured'
    <2>1. Applied' /\ ActivatedTwiceHasCause'
        BY <1>1, <1>2 DEF Inv, Applied, AppliedTo, ActivatedTwiceHasCause, ghosts, intentGhosts
    <2> QED
        BY <1>1, <2>1, FrameHonoured DEF Alive, ghosts, intentGhosts
<1> QED
    BY <1>4, <1>5, <1>6, <1>7, <1>8, <1>9, <1>10, <1>11 DEF Inv

LEMMA InitInv == ASSUME Init PROVE Inv
<1>0. now = 0 /\ now \in Nat
    BY DEF Init
<1>1. TrialTenant \in TenantRow /\ TrialTenant.delete = Nil /\ TrialTenant.next = Nil
    BY TrialTenantType DEF TrialTenant
<1> DEFINE paying == [Subscribed(TrialTenant) EXCEPT !.card = TRUE]
<1>2. /\ paying \in TenantRow /\ paying.delete = Nil /\ paying.next = now + Period
      /\ paying.state = "active"
    <2>1. Subscribed(TrialTenant) \in TenantRow /\ Subscribed(TrialTenant).delete = Nil
            /\ Subscribed(TrialTenant).next = now + Period /\ Subscribed(TrialTenant).state = "active"
      <3>1. /\ Kept(TrialTenant, Subscribed(TrialTenant))
            /\ Subscribed(TrialTenant).next = now + Period
            /\ Subscribed(TrialTenant).state = "active"
        BY <1>0, <1>1, SubscribedKept
      <3>2. \A row \in TenantRow : Subscribed(row).delete = Nil
        BY DEF Subscribed, TenantRow
      <3> QED
        BY <1>1, <3>1, <3>2 DEF Kept
    <2> QED
        BY <2>1 DEF TenantRow
<1> HIDE DEF paying
<1>3. tenant = TrialTenant \/ tenant = paying
    BY DEF Init, paying
<1>4. /\ tenant \in TenantRow /\ tenant.delete = Nil
      /\ tenant.next = Nil \/ (tenant.next = Period /\ tenant.state = "active")
    BY <1>0, <1>1, <1>2, <1>3, ConstantTypes
<1>5. sold \in Nat /\ Covered
    BY <1>0, <1>4, ConstantTypes DEF Init, Covered, Payable
<1>6. intent \in [Intents -> IntentRow]
    BY DEF Init, IntentRow, IntentStatuses
<1>7. receipt \in [Receipts -> ReceiptRow]
    BY DEF Init, ReceiptRow
<1>8. hook \in [CardIntents -> HookRow]
    BY DEF Init, HookRow, NoHook
<1>9. TypeOK
    BY <1>0, <1>4, <1>5, <1>6, <1>7, <1>8, IdleTypes DEF Init, TypeOK
<1>10. Dated /\ GraceIsWhole /\ Picked /\ Due
    BY <1>0, <1>1, <1>4, IdleTypes DEF Init, Dated, InTime, Behind, GraceIsWhole, Picked, Due
<1>11. Linked
    BY IdleTypes DEF Init, Linked
<1>12. Applied /\ ActivatedTwiceHasCause /\ Honoured
    BY ConstantTypes DEF Init, Applied, AppliedTo, ActivatedTwiceHasCause, Honoured,
       HonouredFor, NoHook
<1> QED
    BY <1>5, <1>9, <1>10, <1>11, <1>12 DEF Inv

LEMMA StutterInv == ASSUME Inv, UNCHANGED vars PROVE Inv'
<1>1. UNCHANGED <<now, changes, rows, hook, sweep, expiry, purge, request, ghosts>> /\ review' = review
    BY DEF vars, jobs
<1> QED
    BY <1>1, ReviewMoves DEF Inv, TypeOK, Linked

-----------------------------------------------------------------------------
LEMMA StepInv == ASSUME Inv, [Next]_vars PROVE Inv'
<1>1. CASE SweepStep
    BY <1>1, SelectDueInv, LoadDueInv, SkipFreeInv, ChargeInv, CommitFreeInv, CommitPaidInv,
       CommitFailedInv, SweepEndsInv DEF SweepStep, CardCharged, ChargeFailed
<1>2. CASE LifecycleStep
    BY <1>2, FindExpiredInv, TrialExpiresInv, ExpiryFailsInv, ExtendTrialInv, PauseBillingInv, FindInv, PurgeTenantInv,
       PurgeFailsInv, CancelSubscriptionInv, ChoosePaygInv, CardInv
       DEF LifecycleStep, SaveCard, RemoveCard
<1>3. CASE RequestStep
    BY <1>3, AutoApproveInv, QueueForReviewInv, StartSubscribeInv, SubscribeInv,
       RequestFailsInv, StartReviewInv, ApproveInv, ApproveReplayInv, RejectInv,
       ReviewFailsInv DEF RequestStep
<1>4. ASSUME NEW i \in Intents, IntentStep(i) PROVE Inv'
    BY <1>4, CreateIntentInv, ExpireIntentInv, StartUploadInv DEF IntentStep
<1>5. ASSUME NEW i \in CardIntents, CallbackStep(i) PROVE Inv'
    BY <1>5, CallbackInv
<1> QED
    BY <1>1, <1>2, <1>3, <1>4, <1>5, TickInv, StutterInv DEF Next

LEMMA InvHolds == Spec => []Inv
<1> QED
    BY InitInv, StepInv, PTL DEF Spec

-----------------------------------------------------------------------------
(* The rows, the copies that waiting jobs hold and the ghosts keep their   *)
(* shape, for any number of intents and receipts and any dunning policy.   *)
THEOREM TypeCorrect == Spec => []TypeOK
<1>1. Inv => TypeOK
    BY DEF Inv
<1> QED
    BY <1>1, InvHolds, PTL

(* Every lapse starts a whole grace period: transition_to_read_only always *)
(* pushes delete_at, so a deadline that an activation left behind or that  *)
(* a stale copy carried never shortens it.                                 *)
THEOREM GraceIsAlwaysWhole == Spec => []GraceIsWhole
<1>1. Inv => GraceIsWhole
    BY DEF Inv
<1> QED
    BY <1>1, InvHolds, PTL

(* next_renewal_at covers every invoice and nobody is dunned or locked in  *)
(* time that is paid for, unless a writer worked on an outdated copy.      *)
THEOREM PaidTimeIsKept == Spec => []PaidTimeKept
<1>1. Inv => PaidTimeKept
    BY DEF Inv, Covered, Payable, PaidTimeKept
<1> QED
    BY <1>1, InvHolds, PTL

(* An intent is applied twice only by two requests that worked on it at    *)
(* the same time, or after a rejection had reopened it.                    *)
THEOREM SecondActivationHasCause == Spec => []ActivatedTwiceHasCause
<1>1. Inv => ActivatedTwiceHasCause
    BY DEF Inv
<1> QED
    BY <1>1, InvHolds, PTL

(* Kashier stops reporting a card payment of the right amount only when it *)
(* has been applied to the tenant, whatever had become of its intent - or  *)
(* when the tenant is gone, a delivery is at work, or one was lost with    *)
(* its replay key or failed behind an answered retry.                      *)
THEOREM CardPaymentsAreHonoured == Spec => []CardPaymentHonoured
<1>1. Inv => CardPaymentHonoured
    BY DEF Inv, Honoured, HonouredFor, CardPaymentHonoured
<1> QED
    BY <1>1, InvHolds, PTL

-----------------------------------------------------------------------------
(* Steps and deletion.                                                     *)

Survives == tenant.state # "deleted" => tenant'.state # "deleted"

LEMMA KeptSurvives ==
    ASSUME tenant \in TenantRow, NEW row \in TenantRow, NEW new, NEW stale,
           Kept(row, new), Write(row, new, stale)
    PROVE  Survives
<1>1. new \in TenantRow
    BY DEF Kept
<1>2. tenant'.state = Column(row.state, new.state, tenant.state)
    BY <1>1, FlushedType DEF Write
<1> QED
    BY <1>2 DEF Column, Kept, Write, Alive, Survives

LEMMA ActivateSurvives ==
    ASSUME Inv, NEW i, NEW row \in TenantRow, NEW seen, Activate(i, row, seen)
    PROVE  Survives
<1>1. Kept(row, Renewed(row)) /\ Kept(row, Subscribed(row))
    BY TenantFacts, RenewedKept, SubscribedKept
<1>2. Write(row, IF RenewalShaped(i, row) THEN Renewed(row) ELSE Subscribed(row), FALSE)
    BY DEF Activate
<1> QED
    BY <1>1, <1>2, TenantFacts, KeptSurvives

(* Every step but the purge leaves the tenant alive.                       *)
LEMMA OthersSurvive ==
    ASSUME Inv, [Next]_vars, ~PurgeTenant
    PROVE  Survives
<1>1. CASE UNCHANGED tenant
    BY <1>1 DEF Survives
<1>2. CASE CommitFree
    <2> DEFINE new == [sweep.row EXCEPT !.next = sweep.at + Period, !.retries = 0]
    <2>1. sweep.at + Period \in Nat
        BY SweepFacts, ConstantTypes
    <2>2. Kept(sweep.row, new)
        BY <2>1, SweepFacts DEF Kept, TenantRow, Day
    <2> QED
        BY <1>2, <2>2, SweepFacts, TenantFacts, KeptSurvives DEF CommitFree
<1>3. CASE CommitPaid
    <2> DEFINE start == Anchor(sweep.row, sweep.at)
               new == [sweep.row EXCEPT !.next = start + Period, !.retries = 0, !.state = "active"]
    <2>1. start + Period \in Nat
        BY SweepFacts, TenantFacts, AnchorType, ConstantTypes
    <2>2. Write(sweep.row, new, sweep.stale)
        BY <1>3 DEF CommitPaid
    <2> HIDE DEF start
    <2>3. Kept(sweep.row, new)
        BY <2>1, SweepFacts DEF Kept, TenantRow, Day
    <2> QED
        BY <2>2, <2>3, SweepFacts, TenantFacts, KeptSurvives
<1>4. CASE CommitFailed
    <2> DEFINE row == sweep.row
               dunned == [row EXCEPT !.retries = @ + 1, !.state = "past_due", !.next = sweep.at + Backoff]
               new == IF Exhausted(row) THEN ReadOnly(dunned) ELSE dunned
    <2>1. sweep.at + Backoff \in Nat /\ row.retries + 1 \in Nat
        BY SweepFacts, ConstantTypes DEF TenantRow
    <2>2. Write(row, new, sweep.stale)
        BY <1>4 DEF CommitFailed
    <2>3. Kept(row, dunned) /\ dunned \in TenantRow /\ dunned.delete = row.delete
        BY <2>1, SweepFacts DEF Kept, TenantRow, Day
    <2> HIDE DEF dunned
    <2>4. Kept(row, new)
        BY <2>3, TenantFacts, ReadOnlyKept DEF Kept
    <2> QED
        BY <2>2, <2>4, SweepFacts, TenantFacts, KeptSurvives
<1>5. CASE TrialExpires \/ CancelSubscription \/ ChoosePayg
    <2>1. expiry.row \in TenantRow
        BY DEF Inv, TypeOK, BatchRow
    <2> QED
        BY <1>5, <2>1, TenantFacts, ReadOnlyKept, CancelledKept, PaygKept, KeptSurvives
           DEF TrialExpires, CancelSubscription, ChoosePayg
<1>6. CASE ExtendTrial
    BY <1>6, TenantFacts, FlushedCurrent DEF ExtendTrial, Write, Survives, Flushed, Column, TenantRow
<1>7. CASE PauseBilling \/ SaveCard \/ RemoveCard
    <2>1. \A b \in BOOLEAN : /\ Kept(tenant, [tenant EXCEPT !.card = b])
                             /\ Kept(tenant, [tenant EXCEPT !.paused = b])
        BY TenantFacts DEF Kept, TenantRow
    <2>2. (~tenant.paused) \in BOOLEAN
        OBVIOUS
    <2> QED
        BY <1>7, <2>1, <2>2, TenantFacts, KeptSurvives DEF PauseBilling, SaveCard, RemoveCard
<1>8. CASE Subscribe
    <2>1. request.row \in TenantRow
        BY DEF Inv, TypeOK, RequestRow
    <2>2. Kept(request.row, Subscribed(request.row)) /\ Subscribed(request.row) \in TenantRow
        BY <2>1, TenantFacts, SubscribedKept DEF Kept
    <2>3. Kept(request.row, [Subscribed(request.row) EXCEPT !.card = TRUE])
        BY <2>2, WithCardKept
    <2> QED
        BY <1>8, <2>1, <2>3, TenantFacts, KeptSurvives DEF Subscribe
<1>9. CASE AutoApprove \/ Approve
              \/ \E i \in CardIntents, heard \in BOOLEAN : SettleSubscription(i, heard)
    <2>1. request.row \in TenantRow
        BY DEF Inv, TypeOK, RequestRow
    <2> QED
        BY <1>9, <2>1, TenantFacts, ActivateSurvives DEF AutoApprove, Approve, SettleSubscription
<1>10. CASE SweepStep
    BY <1>1, <1>2, <1>3, <1>4, <1>10 DEF SweepStep, SelectDue, LoadDue, SkipFree, CardCharged,
       ChargeFailed, SweepEnds, rows
<1>11. CASE LifecycleStep
    BY <1>1, <1>5, <1>6, <1>7, <1>11 DEF LifecycleStep, find_expired_trials, ExpiryFails,
       find_purgeable_read_only, PurgeFails, rows
<1>12. CASE RequestStep
    BY <1>1, <1>8, <1>9, <1>12 DEF RequestStep, QueueForReview, StartSubscribe, RequestFails,
       StartReview, ApproveReplay, Reject, ReviewFails, rows
<1>13. ASSUME NEW i \in Intents, IntentStep(i) PROVE Survives
    BY <1>1, <1>13 DEF IntentStep, CreateIntent, ExpireIntent, StartUpload, rows
<1>14. ASSUME NEW i \in CardIntents, CallbackStep(i) PROVE Survives
    BY <1>1, <1>9, <1>14 DEF CallbackStep, PayCard, TakeNonce, RejectDuplicate, NonceRefused,
       SettleNothing, CallbackRaises, WorkerLost, NonceExpires, rows
<1>15. CASE Tick \/ UNCHANGED vars
    BY <1>1, <1>15 DEF Tick, vars, rows
<1> QED
    BY <1>10, <1>11, <1>12, <1>13, <1>15, <1>14 DEF Next

LEMMA StepDeletes ==
    ASSUME Inv, [Next]_vars, tenant'.state = "deleted", tenant.state # "deleted",
           purge.row = tenant
    PROVE  tenant.state = "read_only" /\ now > since + Grace
<1>1. PurgeTenant
    BY OthersSurvive DEF Survives
<1>2. /\ tenant.state = "read_only" /\ tenant.delete # Nil /\ tenant.delete < now
      /\ tenant.delete >= since + Grace
    BY <1>1 DEF PurgeTenant, Inv, Picked, GraceIsWhole
<1>3. tenant.delete \in Nat /\ now \in Nat /\ since \in Nat
    BY <1>2, TenantFacts DEF Inv, TypeOK, TenantRow, Day
<1> QED
    BY <1>2, <1>3, ConstantTypes

(* The purge deletes nobody but a read-only tenant whose whole grace has   *)
(* passed, unless the tenant's row changed after the purge had picked it.  *)
THEOREM DeletionHasCause == Spec => DeletedHasCause
<1>1. Inv /\ [Next]_vars
        => [tenant'.state = "deleted" /\ tenant.state # "deleted"
              => \/ tenant.state = "read_only" /\ now > since + Grace
                 \/ purge.row # tenant]_vars
    BY StepDeletes
<1> QED
    BY <1>1, InvHolds, PTL DEF Spec, DeletedHasCause
=============================================================================
