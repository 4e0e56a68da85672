--------------------------- MODULE OrderLifecycle ---------------------------
(***************************************************************************)
(* The life of an order after checkout: its status, its payment, the stock *)
(* it debited, and the five parties that move it at the same time: the     *)
(* merchant, the payment gateway's callbacks, the courier's callbacks, the *)
(* automatic label booking and the payment-window sweep.                   *)
(*                                                                         *)
(* Every handler but one works on an entity: OrderRepository reads the row,*)
(* turns it into an Order and drops the ORM object; the handler decides on *)
(* that copy and OrderRepository.update() loads the row again and writes   *)
(* every column from the copy.  The version column is checked against the  *)
(* second read, so it does not notice what was committed since the first.  *)
(* A handler that found the order with SELECT ... FOR UPDATE holds the row *)
(* from its first read to its commit.  The sweep keeps the ORM objects of  *)
(* its scan alive, so its version check does cover the whole task.         *)
(*                                                                         *)
(* update()'s own SELECT and UPDATE are one step: a commit between them is *)
(* a StaleDataError, which is RequestFails.                                *)
(***************************************************************************)
EXTENDS Integers, FiniteSets

CONSTANTS
    Orders,
    Methods,          \* how orders are paid: "cod", "deposit", "card"
    Sessions,         \* concurrent requests and event handlers
    MerchantStatuses, \* statuses the merchant asks for
    Charges,          \* gateway transaction ids
    Outcomes,         \* what the gateway reports
    LockedLookup,     \* callbacks find the order by payment id, with a lock
    CourierEvents,    \* what the courier reports
    Bookings,         \* what the carrier answers to a label request
    CashEdits,        \* what the merchant records of the courier's cash
    Sweeping,         \* is the expiry sweep scheduled?
    ProofHeld,        \* orders whose transfer proof awaits review, or whose
                      \* deposit the merchant recorded by hand
    MaxVersion        \* bound: no request starts on a row written this often

Statuses == {"draft", "pending_deposit", "awaiting_payment", "pending",
             "confirmed", "processing", "shipped", "delivered", "returned",
             "cancelled", "refunded", "payment_failed"}

ASSUME OrderAssumption ==
    /\ Methods \subseteq {"cod", "deposit", "card"}
    /\ MerchantStatuses \subseteq Statuses
    /\ Outcomes \subseteq {"success", "decline", "void", "refund"}
    /\ LockedLookup \in BOOLEAN
    /\ CourierEvents \subseteq {"picked_up", "delivered", "returned", "cancelled",
                                "failed"}
    /\ Bookings \subseteq {"created", "failed"}
    /\ CashEdits \subseteq BOOLEAN
    /\ Sweeping \in BOOLEAN
    /\ ProofHeld \subseteq Orders
    /\ MaxVersion \in Nat

VARIABLES
    row,        \* the orders table
    held,       \* units of the order debited from stock and not put back
    parcel,     \* the latest shipment of each order
    due,        \* orders whose payment window has passed
    announced,  \* orders a confirmed or processing event was published for
    charge,     \* what the gateway reports for each transaction id
    done,       \* transaction ids whose callback was committed
    session,    \* requests in flight, each with its copy of the order
    sweep       \* the sweep in flight, with the rows it scanned

vars == <<row, held, parcel, due, announced, charge, done, session, sweep>>
worldVars == <<due, charge>>

OrderRow == [status : Statuses, pay : {"pending", "paid", "failed", "refunded"},
             deposit : {"none", "required", "paid"}, cod : BOOLEAN,
             restocked : BOOLEAN, flagged : BOOLEAN, tracked : BOOLEAN,
             cash : BOOLEAN, version : Nat]

ParcelState == {"none", "created", "picked_up", "delivered", "returned",
                "cancelled", "failed"}

Idle == [pc |-> "idle"]
NoCharge == [made |-> FALSE]

Jobs == [by : {"merchant"}, what : MerchantStatuses]
   \cup [by : {"gateway"}, what : Charges]
   \cup [by : {"courier"}, what : CourierEvents]
   \cup [by : {"booking"}, what : Bookings]

(* Every row, callback and copy in flight is well formed. *)
TypeOK ==
    /\ row \in [Orders -> OrderRow]
    /\ held \in [Orders -> Int]
    /\ parcel \in [Orders -> [state : ParcelState, cod : BOOLEAN]]
    /\ due \subseteq Orders
    /\ announced \subseteq Orders
    /\ charge \in [Charges -> {NoCharge} \cup
            [made : {TRUE}, order : Orders, what : Outcomes]]
    /\ done \subseteq Charges
    /\ session \in [Sessions -> {Idle} \cup
            [pc : {"loaded"}, job : Jobs, order : Orders, copy : OrderRow]]
    /\ \/ sweep = Idle
       \/ \E B \in SUBSET Orders : sweep \in [pc : {"scanned"}, rows : [B -> OrderRow]]

(* Checkout has committed: the stock is debited and the manifest stamped;  *)
(* a cash-on-delivery order may already have its label (books_on_creation).*)
Placed(method, booked) ==
    [status |-> CASE method = "cod" -> "pending"
                  [] method = "deposit" -> "pending_deposit"
                  [] method = "card" -> "awaiting_payment",
     pay |-> "pending",
     deposit |-> IF method = "deposit" THEN "required" ELSE "none",
     cod |-> method # "card",
     restocked |-> FALSE, flagged |-> FALSE, tracked |-> booked, cash |-> FALSE,
     version |-> 1]

Init ==
    /\ \E method \in [Orders -> Methods], booked \in [Orders -> BOOLEAN] :
        /\ \A o \in Orders : booked[o] => method[o] = "cod"
        /\ row = [o \in Orders |-> Placed(method[o], booked[o])]
        /\ parcel = [o \in Orders |-> [state |-> IF booked[o] THEN "created" ELSE "none",
                                       cod |-> booked[o]]]
    /\ held = [o \in Orders |-> 1]
    /\ due = {}
    /\ announced = {}
    /\ charge = [c \in Charges |-> NoCharge]
    /\ done = {}
    /\ session = [s \in Sessions |-> Idle]
    /\ sweep = Idle

----------------------------------------------------------------------------
(* The Order entity *)

Closed == {"cancelled", "returned", "refunded"}
Unpaid == {"pending_deposit", "awaiting_payment"}
PRE_FULFILMENT_STATUSES == {"pending", "confirmed", "awaiting_payment", "payment_failed"}

(* Fault: a paid order being prepared can no longer be cancelled. *)
cancellable_before_processing(e) ==
    e.status \in {"pending_deposit", "awaiting_payment", "pending", "confirmed"}

can_be_cancelled(e) ==
    e.status \in {"pending_deposit", "awaiting_payment", "pending", "confirmed",
                  "processing"}

can_be_refunded(e) == e.pay = "paid" /\ e.status = "delivered"

(* Cash on delivery is collected at the door. *)
transition_to(e, to) ==
    [e EXCEPT !.status = to,
              !.pay = IF to = "delivered" /\ e.cod /\ @ = "pending" THEN "paid" ELSE @]

(* Fault: money for a closed order reopens it. *)
mark_as_paid_reviving(e, cod) ==
    IF e.status = "pending_deposit" \/ (e.status \in {"cancelled", "refunded"} /\ e.deposit = "required")
    THEN [e EXCEPT !.deposit = "paid", !.status = "confirmed"]
    ELSE [e EXCEPT !.pay = "paid", !.cod = cod,
                   !.status = IF @ \in PRE_FULFILMENT_STATUSES \cup {"cancelled"}
                              THEN "processing" ELSE @]

(* Fault: late money is recorded without a flag. *)
mark_as_paid_silently(e, cod) ==
    LET closed == e.status \in {"cancelled", "refunded"} IN
    IF e.status = "pending_deposit" \/ (closed /\ e.deposit = "required")
    THEN [e EXCEPT !.deposit = "paid", !.status = IF closed THEN @ ELSE "confirmed"]
    ELSE [e EXCEPT !.pay = "paid", !.cod = cod,
                   !.status = IF @ \in PRE_FULFILMENT_STATUSES THEN "processing" ELSE @]

(* A deposit confirms the order and leaves the balance pending; any other  *)
(* payment is the whole amount.  A closed order keeps its status and is    *)
(* flagged (metadata["payment_after_cancel"]).                             *)
mark_as_paid(e, cod) ==
    LET closed == e.status \in {"cancelled", "refunded"}
        deposit == e.status = "pending_deposit" \/ (closed /\ e.deposit = "required")
        paid == IF deposit
                THEN [e EXCEPT !.deposit = "paid",
                               !.status = IF closed THEN @ ELSE "confirmed"]
                ELSE [e EXCEPT !.pay = "paid", !.cod = cod,
                               !.status = IF @ \in PRE_FULFILMENT_STATUSES
                                          THEN "processing" ELSE @]
    IN  [paid EXCEPT !.flagged = @ \/ closed]

(* Fault: the payment status is assigned to the order status. *)
mark_status_failed(e) == [e EXCEPT !.status = "failed"]

mark_payment_failed(e) == [e EXCEPT !.pay = "failed"]

----------------------------------------------------------------------------
(* UpdateOrderStatusUseCase *)

(* Fault: the direct branch also moves closed orders. *)
MerchantAcceptsClosed(e, to) ==
    CASE to = "confirmed" -> e.status = "pending"
      [] to = "processing" -> e.status \in {"confirmed", "pending"}
      [] to = "shipped" -> e.status = "processing"
      [] to = "delivered" -> e.status = "shipped"
      [] to = "cancelled" -> can_be_cancelled(e)
      [] to = "returned" -> e.status = "shipped"
      [] to = "refunded" -> can_be_refunded(e)
      [] OTHER -> TRUE

(* The entity method of the status asked for does not raise; the statuses  *)
(* without a method of their own are refused on a closed order.            *)
MerchantAccepts(e, to) ==
    CASE to = "confirmed" -> e.status = "pending"
      [] to = "processing" -> e.status \in {"confirmed", "pending"}
      [] to = "shipped" -> e.status = "processing"
      [] to = "delivered" -> e.status = "shipped"
      [] to = "cancelled" -> can_be_cancelled(e)
      [] to = "returned" -> e.status = "shipped"
      [] to = "refunded" -> can_be_refunded(e)
      [] to = "payment_failed" -> TRUE
      [] OTHER -> e.status \notin Closed

MerchantUpdates(e, to) ==
    CASE to = "payment_failed" -> mark_payment_failed(e)
      [] to = "refunded" -> [transition_to(e, to) EXCEPT !.pay = "refunded"]
      [] to \in {"draft", "pending_deposit", "awaiting_payment", "pending"} ->
            [e EXCEPT !.status = to]
      [] OTHER -> transition_to(e, to)

----------------------------------------------------------------------------
(* paymob_callback and its siblings *)

GatewayAccepts(e, outcome) == outcome = "refund" => can_be_refunded(e)

GatewayUpdates(e, outcome) ==
    CASE outcome = "success" -> mark_as_paid(e, FALSE)
      [] outcome = "decline" -> mark_payment_failed(e)
      [] outcome = "void" -> IF can_be_cancelled(e)
                             THEN transition_to(e, "cancelled") ELSE e
      [] outcome = "refund" -> [transition_to(e, "refunded") EXCEPT !.pay = "refunded"]

----------------------------------------------------------------------------
(* jt_callback: the shipment first, then _sync_order *)

CourierUpdates(e, event, codParcel) ==
    CASE event = "picked_up" ->
            IF e.status \in {"confirmed", "processing"}
            THEN transition_to(e, "shipped") ELSE e
      [] event = "delivered" ->
            LET d == IF e.status = "shipped" THEN transition_to(e, "delivered") ELSE e
            IN  IF codParcel /\ d.pay # "paid" THEN mark_as_paid(d, TRUE) ELSE d
      [] event = "returned" ->
            IF e.status = "shipped" THEN transition_to(e, "returned")
            ELSE IF can_be_cancelled(e) THEN transition_to(e, "cancelled") ELSE e
      [] event = "cancelled" ->
            IF can_be_cancelled(e) THEN transition_to(e, "cancelled") ELSE e
      [] event = "failed" -> e

----------------------------------------------------------------------------
(* _auto_create: a label, or a failed shipment the merchant can retry *)

BookingUpdates(e, answer) == [e EXCEPT !.tracked = @ \/ answer = "created"]

(* The courier is asked to collect what a cash-on-delivery order still owes. *)
BookedParcel(e, answer) == [state |-> answer, cod |-> e.cod /\ e.pay # "paid"]

----------------------------------------------------------------------------
(* One handler, from the copy it read to what it wants to write *)

Accepts(job, o, e) ==
    CASE job.by = "merchant" -> MerchantAccepts(e, job.what)
      [] job.by = "gateway" -> GatewayAccepts(e, charge[job.what].what)
      [] job.by = "courier" -> parcel[o].state # job.what
      [] job.by = "booking" -> TRUE

Updates(job, o, e) ==
    CASE job.by = "merchant" -> MerchantUpdates(e, job.what)
      [] job.by = "gateway" -> GatewayUpdates(e, charge[job.what].what)
      [] job.by = "courier" -> CourierUpdates(e, job.what, parcel[o].cod)
      [] job.by = "booking" -> BookingUpdates(e, job.what)

(* The handlers that call restock_order, and when. *)
AsksRestock(job, e) ==
    CASE job.by = "merchant" -> job.what \in {"cancelled", "returned"}
      [] job.by = "gateway" -> charge[job.what].what = "void" /\ can_be_cancelled(e)
      [] job.by = "courier" -> \/ job.what = "returned"
                               \/ job.what = "cancelled" /\ can_be_cancelled(e)
      [] job.by = "booking" -> FALSE

(* A void or courier cancellation that comes too late saves nothing. *)
Saves(job, e) ==
    ~ \/ job.by = "gateway" /\ charge[job.what].what = "void" /\ ~can_be_cancelled(e)
      \/ job.by = "courier" /\ job.what = "cancelled" /\ ~can_be_cancelled(e)

(* Fault: the restocked stamp is not looked at. *)
restock_unconditionally(e, asked, ok) == asked /\ ok

(* restock_order puts the stock back unless the copy is already stamped;   *)
(* it fails open (ok = FALSE): no stock, no stamp, the status still moves. *)
restock_order(e, asked, ok) == asked /\ ok /\ ~e.restocked

Restocked(e, gives) == [e EXCEPT !.restocked = @ \/ gives]

(* The status events that make the automatic booking run.  A carrier that  *)
(* moved the order publishes the change as the dashboard does: cash        *)
(* collected for an order not yet shipped moves it to processing.          *)
BookingEvents == {"confirmed", "processing"}

Announces(job, o, e) ==
    CASE job.by = "merchant" -> job.what \in BookingEvents
      [] job.by = "gateway" -> charge[job.what].what = "success"
      [] job.by = "courier" -> LET to == Updates(job, o, e).status
                               IN  to # e.status /\ to \in BookingEvents
      [] job.by = "booking" -> FALSE

Locks(job) == job.by = "courier" \/ (job.by = "gateway" /\ LockedLookup)

(* Some other transaction holds the row with SELECT ... FOR UPDATE. *)
LockedByOther(s, o) ==
    \E t \in Sessions \ {s} :
        session[t] # Idle /\ session[t].order = o /\ Locks(session[t].job)

Locked(o) ==
    \E t \in Sessions :
        session[t] # Idle /\ session[t].order = o /\ Locks(session[t].job)

----------------------------------------------------------------------------
(* Requests: read the order, then commit or fail *)

(* The order was placed or announced, and has no shipment under way. *)
BookingDue(o) ==
    /\ o \in announced \/ (row[o].cod /\ row[o].status = "pending")
    /\ parcel[o].state \in {"none", "delivered", "returned", "cancelled"}

(* What makes a request come in. *)
Arrives(job, o) ==
    CASE job.by = "merchant" -> TRUE
      [] job.by = "gateway" -> /\ charge[job.what].made
                               /\ charge[job.what].order = o
                               /\ job.what \notin done
                               /\ \A s \in Sessions :
                                    session[s] # Idle => session[s].job # job
      [] job.by = "courier" -> row[o].tracked
      [] job.by = "booking" -> BookingDue(o)

get_by_id(s, job, o) ==
    /\ session[s] = Idle
    /\ row[o].version < MaxVersion
    /\ Arrives(job, o)
    /\ Locks(job) => ~Locked(o)
    /\ session' = [session EXCEPT ![s] =
            [pc |-> "loaded", job |-> job, order |-> o, copy |-> row[o]]]
    /\ UNCHANGED <<row, held, parcel, worldVars, announced, done, sweep>>

(* Fault: the entity does not carry cash_received_at, so a save clears it. *)
WrittenWithoutCash(o, e) == [e EXCEPT !.version = row[o].version + 1, !.cash = FALSE]

(* OrderRepository.update: every column from the entity. *)
Written(o, e) == [e EXCEPT !.version = row[o].version + 1]

update(s, ok) ==
    LET job == session[s].job
        o == session[s].order
        e == session[s].copy
        gives == restock_order(e, AsksRestock(job, e), ok)
    IN  /\ session[s] # Idle
        /\ ~LockedByOther(s, o)
        /\ Accepts(job, o, e)
        /\ row' = IF Saves(job, e)
                  THEN [row EXCEPT ![o] = Written(o, Restocked(Updates(job, o, e), gives))]
                  ELSE row
        /\ held' = [held EXCEPT ![o] = IF gives THEN @ - 1 ELSE @]
        /\ parcel' = CASE job.by = "courier" -> [parcel EXCEPT ![o].state = job.what]
                       [] job.by = "booking" ->
                            [parcel EXCEPT ![o] = BookedParcel(e, job.what)]
                       [] OTHER -> parcel
        /\ announced' = IF Announces(job, o, e) THEN announced \cup {o} ELSE announced
        /\ done' = IF job.by = "gateway" THEN done \cup {job.what} ELSE done
        /\ session' = [session EXCEPT ![s] = Idle]
        /\ UNCHANGED <<worldVars, sweep>>

(* ValueError, a database error, a lost worker: the transaction rolls back *)
(* and a callback is reported again later.                                 *)
RequestFails(s) ==
    /\ session[s] # Idle
    /\ session' = [session EXCEPT ![s] = Idle]
    /\ UNCHANGED <<row, held, parcel, worldVars, announced, done, sweep>>

(* jt_callback catches what _sync_order raises and commits the shipment    *)
(* alone.  Such an exception comes before anything of the order is written:*)
(* the restock fails open, an error of the database spoils the transaction *)
(* (RequestFails), and after the flush the row is written (update).        *)
OrderSyncFails(s) ==
    LET job == session[s].job
        o == session[s].order
    IN  /\ session[s] # Idle
        /\ job.by = "courier"
        /\ Accepts(job, o, session[s].copy)
        /\ parcel' = [parcel EXCEPT ![o].state = job.what]
        /\ session' = [session EXCEPT ![s] = Idle]
        /\ UNCHANGED <<row, held, worldVars, announced, done, sweep>>

(* The Core UPDATE of mark_orders_cash_received. *)
mark_orders_cash_received(o, received) ==
    /\ row[o].version < MaxVersion
    /\ ~Locked(o)
    /\ row[o].pay = "paid" /\ row[o].cash # received
    /\ row' = [row EXCEPT ![o].cash = received, ![o].version = @ + 1]
    /\ UNCHANGED <<held, parcel, worldVars, announced, done, session, sweep>>

----------------------------------------------------------------------------
(* expire_pending_deposit_orders_task *)

WindowCloses(o) ==
    /\ o \notin due
    /\ due' = due \cup {o}
    /\ UNCHANGED <<row, held, parcel, announced, charge, done, session, sweep>>

(* Fault: only deposits are swept. *)
ExpiredDeposits == {o \in due : row[o].status = "pending_deposit"}

Expired == {o \in due : row[o].status \in Unpaid}

SweepScans ==
    /\ Sweeping /\ sweep = Idle /\ Expired # {}
    /\ sweep' = [pc |-> "scanned", rows |-> [o \in Expired |-> row[o]]]
    /\ UNCHANGED <<row, held, parcel, worldVars, announced, done, session>>

(* The orders of the batch the loop cancels, judged by the scanned rows. *)
SweepTargets ==
    {o \in DOMAIN sweep.rows : sweep.rows[o].pay # "paid" /\ o \notin ProofHeld}

(* Fault: the sweep writes without the version check. *)
SweptAlways(o) == TRUE

(* UPDATE ... WHERE version = the scanned version. *)
SweptRowCurrent(o) == row[o].version = sweep.rows[o].version

(* One transaction for the whole batch; failed are the orders whose        *)
(* restock raised.                                                         *)
SweepCommits(failed) ==
    LET gives(o) == restock_order(sweep.rows[o], TRUE, o \notin failed)
        targets == SweepTargets
    IN  /\ sweep # Idle
        /\ failed \subseteq targets
        /\ \A o \in targets : ~Locked(o) /\ SweptRowCurrent(o)
        /\ row' = [o \in Orders |->
                IF o \in targets
                THEN [Restocked(transition_to(sweep.rows[o], "cancelled"), gives(o))
                        EXCEPT !.version = row[o].version + 1]
                ELSE row[o]]
        /\ held' = [o \in Orders |->
                IF o \in targets /\ gives(o) THEN held[o] - 1 ELSE held[o]]
        /\ sweep' = Idle
        /\ UNCHANGED <<parcel, worldVars, announced, done, session>>

(* StaleDataError on any order rolls the whole batch back.  A sweep killed *)
(* before its commit is one that never ran and needs no action.            *)
SweepFails ==
    /\ sweep # Idle
    /\ \E o \in SweepTargets : ~SweptRowCurrent(o)
    /\ sweep' = Idle
    /\ UNCHANGED <<row, held, parcel, worldVars, announced, done, session>>

----------------------------------------------------------------------------
(* The gateway (external): voids and refunds follow a success. *)
GatewayReports(c, o, what) ==
    /\ charge[c] = NoCharge
    /\ what \in {"void", "refund"} =>
            \E d \in Charges : /\ charge[d].made /\ charge[d].order = o
                               /\ charge[d].what = "success"
    /\ charge' = [charge EXCEPT ![c] = [made |-> TRUE, order |-> o, what |-> what]]
    /\ UNCHANGED <<row, held, parcel, due, announced, done, session, sweep>>

Next ==
    \/ \E s \in Sessions, o \in Orders, job \in Jobs : get_by_id(s, job, o)
    \/ \E s \in Sessions, ok \in BOOLEAN : update(s, ok)
    \/ \E s \in Sessions : RequestFails(s)
    \/ \E s \in Sessions : OrderSyncFails(s)
    \/ \E o \in Orders, received \in CashEdits : mark_orders_cash_received(o, received)
    \/ \E o \in Orders : WindowCloses(o)
    \/ SweepScans
    \/ \E failed \in SUBSET Orders : SweepCommits(failed)
    \/ SweepFails
    \/ \E c \in Charges, o \in Orders, what \in Outcomes : GatewayReports(c, o, what)

Spec == Init /\ [][Next]_vars

(* Beat starts the sweep every minute, and a sweep that could commit again *)
(* and again is not rolled back for ever.  A request ends.                 *)
Fairness ==
    /\ WF_vars(SweepScans)
    /\ SF_vars(\E failed \in SUBSET Orders : SweepCommits(failed))
    /\ WF_vars(SweepFails)
    /\ \A s \in Sessions : WF_vars((\E ok \in BOOLEAN : update(s, ok)) \/ RequestFails(s))

FairSpec == Spec /\ Fairness

----------------------------------------------------------------------------
(* Properties *)

(* stock_restocked_at tells the truth: the order's stock was put back when *)
(* and only when the stamp is on the row, whoever closed the order.        *)
StampMatchesStock ==
    \A o \in Orders : held[o] = IF row[o].restocked THEN 0 ELSE 1

(* restock_order restores what the order debited at checkout exactly once, *)
(* so no sequence of cancellations and returns puts it back twice.         *)
RestockedOnce == \A o \in Orders : held[o] >= 0

(* A cancelled, returned or refunded order is never revived: not by late   *)
(* money, not by the courier, not by the merchant.                         *)
ClosedStaysClosed ==
    [][\A o \in Orders : row[o].status \in Closed => row'[o].status = row[o].status]_vars

(* An order still to be fulfilled has its stock taken out of inventory:    *)
(* nothing that returns stock leaves the order on its way to the customer. *)
LiveOrderKeepsStock ==
    \A o \in Orders :
        row[o].status \in {"pending_deposit", "awaiting_payment", "pending",
                           "confirmed", "processing", "shipped"} => held[o] = 1

FailsPayment(job) ==
    \/ job.by = "merchant" /\ job.what = "payment_failed"
    \/ job.by = "gateway" /\ charge[job.what].what = "decline"

(* A recorded payment leaves the order only through a refund or through a  *)
(* handler that was told the payment failed, never as the side effect of   *)
(* somebody else's save.                                                   *)
PaymentNotOverwritten ==
    [][\A o \in Orders :
        (row[o].pay = "paid" /\ row'[o].pay \notin {"paid", "refunded"}) =>
            \E s \in Sessions : /\ session[s] # Idle /\ session'[s] = Idle
                                /\ session[s].order = o
                                /\ FailsPayment(session[s].job)]_vars

SuccessFor(c, o) == charge[c].made /\ charge[c].order = o /\ charge[c].what = "success"

(* A success callback committed on an order that is already cancelled or   *)
(* refunded leaves the flag the merchant acts on.                          *)
LateMoneyFlagged ==
    [][\A o \in Orders, c \in Charges :
        (c \in done' \ done /\ SuccessFor(c, o)
            /\ row[o].status \in {"cancelled", "refunded"}) => row'[o].flagged]_vars

(* Cash recorded as received is only taken back by the merchant's undo.    *)
CashReceiptKept ==
    [][\A o \in Orders :
        (row[o].cash /\ ~row'[o].cash) => mark_orders_cash_received(o, FALSE)]_vars

(* An order whose payment window has passed does not stay unpaid and open: *)
(* the sweep gets to it, unless a transfer proof is waiting for review.    *)
ExpiredOrderEnds ==
    \A o \in Orders \ ProofHeld :
        (o \in due /\ row[o].status \in Unpaid) ~> row[o].status \notin Unpaid

=============================================================================
