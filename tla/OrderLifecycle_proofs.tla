----------------------- MODULE OrderLifecycle_proofs -----------------------
(***************************************************************************)
(* Proofs about OrderLifecycle, for every number of orders, requests and   *)
(* transaction ids.  Type correctness holds in every configuration.  The   *)
(* rest is proved for two of them.  In the protected one every handler     *)
(* finds the order under a row lock: gateway callbacks that look it up by  *)
(* payment id and courier callbacks, against the expiry sweep and cash     *)
(* receipts.  In the serial one there is no lock and every kind of request *)
(* comes in, one at a time.                                                *)
(***************************************************************************)
EXTENDS OrderLifecycle, TLAPS

----------------------------------------------------------------------------
(* The handlers, as operators on a copy of the order *)

LEMMA TransitionTyped ==
    ASSUME NEW e \in OrderRow, NEW to \in Statuses
    PROVE  /\ transition_to(e, to) \in OrderRow
           /\ transition_to(e, to).status = to
           /\ transition_to(e, to).restocked = e.restocked
           /\ transition_to(e, to).cash = e.cash
           /\ transition_to(e, to).flagged = e.flagged
           /\ transition_to(e, to).pay # e.pay => transition_to(e, to).pay = "paid"
BY DEF transition_to, OrderRow, Statuses

LEMMA PaidTyped ==
    ASSUME NEW e \in OrderRow, NEW cod \in BOOLEAN
    PROVE  /\ mark_as_paid(e, cod) \in OrderRow
           /\ mark_as_paid(e, cod).restocked = e.restocked
           /\ mark_as_paid(e, cod).cash = e.cash
           /\ mark_as_paid(e, cod).pay \in {e.pay, "paid"}
           /\ e.status \in Closed \cup {"delivered"} =>
                mark_as_paid(e, cod).status = e.status
           /\ e.status \in {"cancelled", "refunded"} => mark_as_paid(e, cod).flagged
           /\ e.status \notin {"draft", "payment_failed"} =>
                mark_as_paid(e, cod).status \notin {"draft", "payment_failed"}
<1> DEFINE closed == e.status \in {"cancelled", "refunded"}
           deposit == e.status = "pending_deposit" \/ (closed /\ e.deposit = "required")
           asDeposit == [e EXCEPT !.deposit = "paid",
                                  !.status = IF closed THEN @ ELSE "confirmed"]
           asWhole == [e EXCEPT !.pay = "paid", !.cod = cod,
                                !.status = IF @ \in PRE_FULFILMENT_STATUSES
                                           THEN "processing" ELSE @]
           paid == IF deposit THEN asDeposit ELSE asWhole
           Keeps(f) == /\ f \in OrderRow
                       /\ f.restocked = e.restocked
                       /\ f.cash = e.cash
                       /\ f.pay \in {e.pay, "paid"}
                       /\ e.status \in Closed \cup {"delivered"} => f.status = e.status
                       /\ e.status \notin {"draft", "payment_failed"} =>
                            f.status \notin {"draft", "payment_failed"}
<1>1. ASSUME deposit PROVE Keeps(asDeposit)
  BY <1>1 DEF OrderRow, Statuses, Closed
<1>2. ASSUME ~deposit PROVE Keeps(asWhole)
  BY <1>2 DEF OrderRow, Statuses, Closed, PRE_FULFILMENT_STATUSES
<1>3. Keeps(paid)
  BY <1>1, <1>2
<1>4. mark_as_paid(e, cod) = [paid EXCEPT !.flagged = paid.flagged \/ closed]
  BY DEF mark_as_paid
<1> HIDE DEF paid, closed
<1>5. [paid EXCEPT !.flagged = paid.flagged \/ closed] \in OrderRow
  BY <1>3 DEF OrderRow
<1> QED
  BY <1>3, <1>4, <1>5 DEF closed, OrderRow

LEMMA FailedTyped ==
    ASSUME NEW e \in OrderRow
    PROVE  /\ mark_payment_failed(e) \in OrderRow
           /\ mark_payment_failed(e).status = e.status
           /\ mark_payment_failed(e).restocked = e.restocked
           /\ mark_payment_failed(e).cash = e.cash
BY DEF mark_payment_failed, OrderRow

LEMMA RefundedTyped ==
    ASSUME NEW e \in OrderRow
    PROVE  LET f == [transition_to(e, "refunded") EXCEPT !.pay = "refunded"] IN
           /\ f \in OrderRow
           /\ f.status = "refunded" /\ f.pay = "refunded"
           /\ f.restocked = e.restocked /\ f.cash = e.cash
<1> DEFINE t == transition_to(e, "refunded")
<1>1. "refunded" \in Statuses
  BY DEF Statuses
<1>2. /\ t \in OrderRow /\ t.status = "refunded"
      /\ t.restocked = e.restocked /\ t.cash = e.cash
  BY <1>1, TransitionTyped
<1> HIDE DEF t
<1>3. LET f == [t EXCEPT !.pay = "refunded"] IN
      /\ f \in OrderRow /\ f.status = "refunded" /\ f.pay = "refunded"
      /\ f.restocked = e.restocked /\ f.cash = e.cash
  BY <1>2 DEF OrderRow
<1> QED
  BY <1>3 DEF t

(* The statuses no handler but the merchant's moves an order to. *)
Odd == {"draft", "payment_failed"}

(* What a locked handler may make of the copy it was given. *)
Moves(e, f) ==
    /\ f \in OrderRow
    /\ f.restocked = e.restocked
    /\ f.cash = e.cash
    /\ e.status \in Closed => f.status = e.status
    /\ e.status = "delivered" => f.status \in {"delivered", "refunded"}
    /\ e.status \notin Odd => f.status \notin Odd

LEMMA TransitionMoves ==
    ASSUME NEW e \in OrderRow,
           NEW to \in {"shipped", "delivered", "returned", "cancelled"},
           e.status \notin Closed \cup {"delivered"}
    PROVE  LET f == transition_to(e, to) IN
           /\ Moves(e, f)
           /\ f.status = to
           /\ e.pay = "paid" => f.pay = "paid"
<1> DEFINE f == transition_to(e, to)
<1>1. to \in Statuses
  BY DEF Statuses
<1>2. /\ f \in OrderRow /\ f.status = to /\ f.restocked = e.restocked
      /\ f.cash = e.cash /\ (f.pay # e.pay => f.pay = "paid")
  BY <1>1, TransitionTyped
<1> HIDE DEF f
<1>3. Moves(e, f) /\ f.status = to /\ (e.pay = "paid" => f.pay = "paid")
  BY <1>2 DEF Moves, Odd
<1> QED
  BY <1>3 DEF f

LEMMA StaysMoves == ASSUME NEW e \in OrderRow PROVE Moves(e, e)
BY DEF Moves

LEMMA GatewayMoves ==
    ASSUME NEW e \in OrderRow, NEW outcome \in Outcomes, GatewayAccepts(e, outcome)
    PROVE  LET f == GatewayUpdates(e, outcome) IN
           /\ Moves(e, f)
           /\ e.pay = "paid" /\ f.pay \notin {"paid", "refunded"} => outcome = "decline"
           /\ outcome = "success" /\ e.status \in {"cancelled", "refunded"} => f.flagged
           /\ outcome = "void" /\ can_be_cancelled(e) => f.status = "cancelled"
<1> DEFINE f == GatewayUpdates(e, outcome)
<1>1. outcome \in {"success", "decline", "void", "refund"}
  BY OrderAssumption
<1>2. CASE outcome = "success"
  <2>1. f = mark_as_paid(e, FALSE)
    BY <1>2 DEF GatewayUpdates
  <2> QED
    BY <1>2, <2>1, PaidTyped DEF Moves, Odd, Closed
<1>3. CASE outcome = "decline"
  <2>1. f = mark_payment_failed(e)
    BY <1>3 DEF GatewayUpdates
  <2> QED
    BY <1>3, <2>1, FailedTyped DEF Moves, Odd, Closed
<1>4. CASE outcome = "void" /\ can_be_cancelled(e)
  <2>1. f = transition_to(e, "cancelled")
    BY <1>4 DEF GatewayUpdates
  <2>2. "cancelled" \in Statuses
    BY DEF Statuses
  <2> QED
    BY <1>4, <2>1, <2>2, TransitionTyped DEF Moves, Odd, Closed, can_be_cancelled
<1>5. CASE outcome = "void" /\ ~can_be_cancelled(e)
  <2>1. f = e
    BY <1>5 DEF GatewayUpdates
  <2> QED
    BY <1>5, <2>1 DEF Moves, Odd, Closed
<1>6. CASE outcome = "refund"
  <2>1. f = [transition_to(e, "refunded") EXCEPT !.pay = "refunded"]
    BY <1>6 DEF GatewayUpdates
  <2>2. e.status = "delivered"
    BY <1>6 DEF GatewayAccepts, can_be_refunded
  <2> QED
    BY <1>6, <2>1, <2>2, RefundedTyped DEF Moves, Odd, Closed
<1> QED
  BY <1>1, <1>2, <1>3, <1>4, <1>5, <1>6

LEMMA CourierMoves ==
    ASSUME NEW e \in OrderRow, NEW event \in CourierEvents, NEW cod \in BOOLEAN
    PROVE  LET f == CourierUpdates(e, event, cod) IN
           /\ Moves(e, f)
           /\ e.pay = "paid" => f.pay = "paid"
           /\ event = "cancelled" /\ can_be_cancelled(e) => f.status = "cancelled"
           /\ event = "returned" /\ e.status \notin Odd =>
                f.status \in Closed \cup {"delivered"}
<1> DEFINE f == CourierUpdates(e, event, cod)
<1>1. event \in {"picked_up", "delivered", "returned", "cancelled", "failed"}
  BY OrderAssumption
<1>2. can_be_cancelled(e) => e.status \notin Closed \cup {"delivered", "shipped"}
  BY DEF can_be_cancelled, Closed
<1>3. CASE event = "picked_up"
  <2>1. f = IF e.status \in {"confirmed", "processing"}
            THEN transition_to(e, "shipped") ELSE e
    BY <1>3 DEF CourierUpdates
  <2>2. CASE e.status \in {"confirmed", "processing"}
    <3>1. f = transition_to(e, "shipped") /\ e.status \notin Closed \cup {"delivered"}
      BY <2>1, <2>2 DEF Closed
    <3> QED
      BY <1>3, <3>1, TransitionMoves
  <2>3. CASE e.status \notin {"confirmed", "processing"}
    BY <1>3, <2>1, <2>3, StaysMoves
  <2> QED
    BY <2>2, <2>3
<1>4. CASE event = "delivered"
  <2> DEFINE d == IF e.status = "shipped" THEN transition_to(e, "delivered") ELSE e
  <2>1. f = IF cod /\ d.pay # "paid" THEN mark_as_paid(d, TRUE) ELSE d
    BY <1>4 DEF CourierUpdates
  <2>2. Moves(e, d) /\ (e.pay = "paid" => d.pay = "paid")
        /\ (d.status # e.status => d.status = "delivered")
    <3>1. CASE e.status = "shipped"
      <4>1. d = transition_to(e, "delivered") /\ e.status \notin Closed \cup {"delivered"}
        BY <3>1 DEF Closed
      <4> QED
        BY <4>1, TransitionMoves
    <3>2. CASE e.status # "shipped"
      BY <3>2, StaysMoves
    <3> QED
      BY <3>1, <3>2
  <2> HIDE DEF d
  <2>3. CASE cod /\ d.pay # "paid"
    <3> DEFINE m == mark_as_paid(d, TRUE)
    <3>1. /\ m \in OrderRow /\ m.restocked = d.restocked /\ m.cash = d.cash
          /\ d.status \in Closed \cup {"delivered"} => m.status = d.status
          /\ d.status \notin Odd => m.status \notin Odd
      BY <2>2, PaidTyped DEF Moves, Odd
    <3>2. f = m /\ e.pay # "paid"
      BY <2>1, <2>2, <2>3
    <3> HIDE DEF m, f
    <3>3. Moves(e, f)
      BY <2>2, <3>1, <3>2 DEF Moves, Odd, Closed
    <3> QED
      BY <1>4, <3>2, <3>3 DEF f
  <2>4. CASE ~(cod /\ d.pay # "paid")
    BY <1>4, <2>1, <2>2, <2>4
  <2> QED
    BY <2>3, <2>4
<1>5. CASE event = "returned"
  <2>1. f = IF e.status = "shipped" THEN transition_to(e, "returned")
            ELSE IF can_be_cancelled(e) THEN transition_to(e, "cancelled") ELSE e
    BY <1>5 DEF CourierUpdates
  <2>2. e.status \in Statuses
    BY DEF OrderRow
  <2>3. CASE e.status = "shipped"
    <3>1. f = transition_to(e, "returned") /\ e.status \notin Closed \cup {"delivered"}
      BY <2>1, <2>3 DEF Closed
    <3> QED
      BY <1>5, <3>1, TransitionMoves DEF Closed
  <2>4. CASE e.status # "shipped" /\ can_be_cancelled(e)
    <3>1. f = transition_to(e, "cancelled") /\ e.status \notin Closed \cup {"delivered"}
      BY <1>2, <2>1, <2>4
    <3> QED
      BY <1>5, <3>1, TransitionMoves DEF Closed
  <2>5. CASE e.status # "shipped" /\ ~can_be_cancelled(e)
    <3>1. f = e /\ (e.status \notin Odd => e.status \in Closed \cup {"delivered"})
      BY <2>1, <2>2, <2>5 DEF Odd, Closed, can_be_cancelled, Statuses
    <3> QED
      BY <1>5, <3>1, StaysMoves
  <2> QED
    BY <2>3, <2>4, <2>5
<1>6. CASE event = "cancelled"
  <2>1. f = IF can_be_cancelled(e) THEN transition_to(e, "cancelled") ELSE e
    BY <1>6 DEF CourierUpdates
  <2>2. CASE can_be_cancelled(e)
    <3>1. f = transition_to(e, "cancelled") /\ e.status \notin Closed \cup {"delivered"}
      BY <1>2, <2>1, <2>2
    <3> QED
      BY <1>6, <3>1, TransitionMoves
  <2>3. CASE ~can_be_cancelled(e)
    BY <1>6, <2>1, <2>3, StaysMoves
  <2> QED
    BY <2>2, <2>3
<1>7. CASE event = "failed"
  <2>1. f = e
    BY <1>7 DEF CourierUpdates
  <2> QED
    BY <1>7, <2>1 DEF Moves, Odd, Closed
<1> QED
  BY <1>1, <1>3, <1>4, <1>5, <1>6, <1>7

LEMMA MerchantTyped ==
    ASSUME NEW e \in OrderRow, NEW to \in Statuses
    PROVE  MerchantUpdates(e, to) \in OrderRow
<1>1. CASE to = "payment_failed"
  <2>1. MerchantUpdates(e, to) = mark_payment_failed(e)
    BY <1>1 DEF MerchantUpdates
  <2> QED
    BY <2>1, FailedTyped
<1>2. CASE to = "refunded"
  <2>1. MerchantUpdates(e, to) = [transition_to(e, "refunded") EXCEPT !.pay = "refunded"]
    BY <1>2 DEF MerchantUpdates
  <2> QED
    BY <2>1, RefundedTyped
<1>3. CASE to \in {"draft", "pending_deposit", "awaiting_payment", "pending"}
  <2>1. MerchantUpdates(e, to) = [e EXCEPT !.status = to]
    BY <1>3 DEF MerchantUpdates
  <2> QED
    BY <2>1 DEF OrderRow
<1>4. CASE to \notin {"payment_failed", "refunded", "draft", "pending_deposit",
                      "awaiting_payment", "pending"}
  <2>1. MerchantUpdates(e, to) = transition_to(e, to)
    BY <1>4 DEF MerchantUpdates
  <2> QED
    BY <2>1, TransitionTyped
<1> QED
  BY <1>1, <1>2, <1>3, <1>4

LEMMA BookingTyped ==
    ASSUME NEW e \in OrderRow, NEW answer \in Bookings
    PROVE  /\ BookingUpdates(e, answer) \in OrderRow
           /\ BookedParcel(e, answer) \in [state : ParcelState, cod : BOOLEAN]
<1>1. (e.tracked \/ answer = "created") \in BOOLEAN
  OBVIOUS
<1>2. BookingUpdates(e, answer) \in OrderRow
  BY <1>1 DEF BookingUpdates, OrderRow
<1>3. answer \in ParcelState
  BY OrderAssumption DEF ParcelState
<1>4. (e.cod /\ e.pay # "paid") \in BOOLEAN
  OBVIOUS
<1> QED
  BY <1>2, <1>3, <1>4 DEF BookedParcel

LEMMA RestockedTyped ==
    ASSUME NEW e \in OrderRow, NEW gives \in BOOLEAN
    PROVE  /\ Restocked(e, gives) \in OrderRow
           /\ Restocked(e, gives).restocked = (e.restocked \/ gives)
           /\ Restocked(e, gives).status = e.status
           /\ Restocked(e, gives).pay = e.pay
           /\ Restocked(e, gives).flagged = e.flagged
           /\ Restocked(e, gives).cash = e.cash
<1>1. (e.restocked \/ gives) \in BOOLEAN
  OBVIOUS
<1> QED
  BY <1>1 DEF Restocked, OrderRow

LEMMA NumberedTyped ==
    ASSUME NEW e \in OrderRow, NEW n \in Nat
    PROVE  LET w == [e EXCEPT !.version = n] IN
           /\ w \in OrderRow
           /\ w.version = n
           /\ w.restocked = e.restocked /\ w.status = e.status /\ w.pay = e.pay
           /\ w.flagged = e.flagged /\ w.cash = e.cash
BY DEF OrderRow

----------------------------------------------------------------------------
(* Type correctness *)

(* A gateway callback in flight carries a reported transaction of its order. *)
GatewayOrders ==
    \A s \in Sessions :
        session[s] # Idle /\ session[s].job.by = "gateway" =>
            /\ charge[session[s].job.what].made
            /\ charge[session[s].job.what].order = session[s].order

TypeInv == TypeOK /\ GatewayOrders

LoadedSession == [pc : {"loaded"}, job : Jobs, order : Orders, copy : OrderRow]

LEMMA LoadedTyped ==
    ASSUME TypeOK, NEW s \in Sessions, session[s] # Idle
    PROVE  /\ session[s] \in LoadedSession
           /\ session[s].job \in Jobs
           /\ session[s].order \in Orders
           /\ session[s].copy \in OrderRow
<1>1. session[s] \in LoadedSession
  BY DEF TypeOK, LoadedSession
<1> QED
  BY <1>1 DEF LoadedSession

LEMMA JobTyped ==
    ASSUME NEW job \in Jobs
    PROVE  /\ job.by \in {"merchant", "gateway", "courier", "booking"}
           /\ job.by = "merchant" => job.what \in MerchantStatuses
           /\ job.by = "gateway" => job.what \in Charges
           /\ job.by = "courier" => job.what \in CourierEvents
           /\ job.by = "booking" => job.what \in Bookings
BY DEF Jobs

LEMMA ChargeTyped ==
    ASSUME TypeOK, NEW c \in Charges, charge[c].made
    PROVE  charge[c].order \in Orders /\ charge[c].what \in Outcomes
<1>1. charge[c] \in {NoCharge} \cup [made : {TRUE}, order : Orders, what : Outcomes]
  BY DEF TypeOK
<1>2. charge[c] # NoCharge
  BY DEF NoCharge
<1> QED
  BY <1>1, <1>2

(* What the handler of a request in flight wants to write is a row. *)
LEMMA UpdatesTyped ==
    ASSUME TypeInv, NEW s \in Sessions, session[s] # Idle,
           Accepts(session[s].job, session[s].order, session[s].copy)
    PROVE  Updates(session[s].job, session[s].order, session[s].copy) \in OrderRow
<1> DEFINE job == session[s].job
           o == session[s].order
           e == session[s].copy
<1>1. TypeOK /\ GatewayOrders
  BY DEF TypeInv
<1>2. job \in Jobs /\ o \in Orders /\ e \in OrderRow
  BY <1>1, LoadedTyped
<1>3. CASE job.by = "merchant"
  <2>1. Updates(job, o, e) = MerchantUpdates(e, job.what)
    BY <1>3 DEF Updates
  <2>2. job.what \in Statuses
    BY <1>2, <1>3, JobTyped, OrderAssumption
  <2> QED
    BY <1>2, <2>1, <2>2, MerchantTyped
<1>4. CASE job.by = "gateway"
  <2>1. /\ Updates(job, o, e) = GatewayUpdates(e, charge[job.what].what)
        /\ GatewayAccepts(e, charge[job.what].what)
    BY <1>4 DEF Updates, Accepts
  <2>2. job.what \in Charges /\ charge[job.what].made
    BY <1>1, <1>2, <1>4, JobTyped DEF GatewayOrders
  <2>3. charge[job.what].what \in Outcomes
    BY <1>1, <2>2, ChargeTyped
  <2> QED
    BY <1>2, <2>1, <2>3, GatewayMoves DEF Moves
<1>5. CASE job.by = "courier"
  <2>1. Updates(job, o, e) = CourierUpdates(e, job.what, parcel[o].cod)
    BY <1>5 DEF Updates
  <2>2. job.what \in CourierEvents /\ parcel[o].cod \in BOOLEAN
    BY <1>1, <1>2, <1>5, JobTyped DEF TypeOK
  <2> QED
    BY <1>2, <2>1, <2>2, CourierMoves DEF Moves
<1>6. CASE job.by = "booking"
  <2>1. Updates(job, o, e) = BookingUpdates(e, job.what)
    BY <1>6 DEF Updates
  <2>2. job.what \in Bookings
    BY <1>2, <1>6, JobTyped
  <2> QED
    BY <1>2, <2>1, <2>2, BookingTyped
<1> QED
  BY <1>2, <1>3, <1>4, <1>5, <1>6, JobTyped

(* The row update() writes. *)
LEMMA WrittenTyped ==
    ASSUME TypeInv, NEW s \in Sessions, session[s] # Idle,
           Accepts(session[s].job, session[s].order, session[s].copy),
           NEW gives \in BOOLEAN
    PROVE  LET o == session[s].order
               f == Updates(session[s].job, o, session[s].copy)
               w == Written(o, Restocked(f, gives))
           IN  /\ w \in OrderRow
               /\ w.version = row[o].version + 1
               /\ w.restocked = (f.restocked \/ gives)
               /\ w.status = f.status /\ w.pay = f.pay
               /\ w.flagged = f.flagged /\ w.cash = f.cash
<1> DEFINE o == session[s].order
           f == Updates(session[s].job, o, session[s].copy)
           r == Restocked(f, gives)
           n == row[o].version + 1
<1>1. f \in OrderRow
  BY UpdatesTyped
<1>2. n \in Nat
  <2>1. o \in Orders /\ row \in [Orders -> OrderRow]
    BY LoadedTyped DEF TypeInv, TypeOK
  <2>2. row[o].version \in Nat
    BY <2>1 DEF OrderRow
  <2> QED
    BY <2>2
<1>3. Written(o, r) = [r EXCEPT !.version = n]
  BY DEF Written
<1> HIDE DEF f, n, o
<1>4. /\ r \in OrderRow /\ r.restocked = (f.restocked \/ gives) /\ r.status = f.status
      /\ r.pay = f.pay /\ r.flagged = f.flagged /\ r.cash = f.cash
  BY <1>1, RestockedTyped
<1> HIDE DEF r
<1>5. /\ Written(o, r) \in OrderRow
      /\ Written(o, r).version = n
      /\ Written(o, r).restocked = (f.restocked \/ gives)
      /\ Written(o, r).status = f.status /\ Written(o, r).pay = f.pay
      /\ Written(o, r).flagged = f.flagged /\ Written(o, r).cash = f.cash
  BY <1>2, <1>3, <1>4, NumberedTyped
<1> QED
  BY <1>5 DEF f, n, o, r

LEMMA TypeInit == Init => TypeInv
<1> SUFFICES ASSUME Init PROVE TypeInv
  OBVIOUS
<1>1. PICK method \in [Orders -> Methods], booked \in [Orders -> BOOLEAN] :
        /\ row = [o \in Orders |-> Placed(method[o], booked[o])]
        /\ parcel = [o \in Orders |-> [state |-> IF booked[o] THEN "created" ELSE "none",
                                       cod |-> booked[o]]]
  BY DEF Init
<1>2. \A m \in Methods, b \in BOOLEAN : Placed(m, b) \in OrderRow
  <2> TAKE m \in Methods, b \in BOOLEAN
  <2>1. m \in {"cod", "deposit", "card"}
    BY OrderAssumption
  <2>2. CASE m = "cod"
    BY <2>2 DEF Placed, OrderRow, Statuses
  <2>3. CASE m = "deposit"
    BY <2>3 DEF Placed, OrderRow, Statuses
  <2>4. CASE m = "card"
    BY <2>4 DEF Placed, OrderRow, Statuses
  <2> QED
    BY <2>1, <2>2, <2>3, <2>4
<1>3. row \in [Orders -> OrderRow]
  BY <1>1, <1>2
<1>4. parcel \in [Orders -> [state : ParcelState, cod : BOOLEAN]]
  BY <1>1 DEF ParcelState
<1>5. /\ held \in [Orders -> Int] /\ due \subseteq Orders /\ announced \subseteq Orders
      /\ done \subseteq Charges /\ sweep = Idle
      /\ charge \in [Charges -> {NoCharge} \cup
            [made : {TRUE}, order : Orders, what : Outcomes]]
      /\ session \in [Sessions -> {Idle} \cup
            [pc : {"loaded"}, job : Jobs, order : Orders, copy : OrderRow]]
      /\ GatewayOrders
  BY DEF Init, GatewayOrders
<1> QED
  BY <1>3, <1>4, <1>5 DEF TypeInv, TypeOK

LEMMA TypeLoad ==
    ASSUME TypeInv, NEW s \in Sessions, NEW job \in Jobs, NEW o \in Orders,
           get_by_id(s, job, o)
    PROVE  TypeInv'
<1> DEFINE new == [pc |-> "loaded", job |-> job, order |-> o, copy |-> row[o]]
<1>1. session' = [session EXCEPT ![s] = new]
  BY DEF get_by_id
<1>2. new \in [pc : {"loaded"}, job : Jobs, order : Orders, copy : OrderRow]
  BY DEF TypeInv, TypeOK
<1>3. job.by = "gateway" => charge[job.what].made /\ charge[job.what].order = o
  BY DEF get_by_id, Arrives
<1>4. UNCHANGED <<row, held, parcel, due, charge, announced, done, sweep>>
  BY DEF get_by_id, worldVars
<1>5. GatewayOrders'
  <2> SUFFICES ASSUME NEW t \in Sessions, session'[t] # Idle,
                      session'[t].job.by = "gateway"
               PROVE  /\ charge[session'[t].job.what].made
                      /\ charge[session'[t].job.what].order = session'[t].order
    BY <1>4 DEF GatewayOrders
  <2>1. CASE t = s
    <3>1. session'[t] = new
      BY <1>1, <2>1 DEF TypeInv, TypeOK
    <3> QED
      BY <1>3, <3>1
  <2>2. CASE t # s
    <3>1. session'[t] = session[t]
      BY <1>1, <2>2 DEF TypeInv, TypeOK
    <3> QED
      BY <3>1 DEF TypeInv, GatewayOrders
  <2> QED
    BY <2>1, <2>2
<1>6. session' \in [Sessions -> {Idle} \cup
            [pc : {"loaded"}, job : Jobs, order : Orders, copy : OrderRow]]
  BY <1>1, <1>2 DEF TypeInv, TypeOK
<1> QED
  BY <1>4, <1>5, <1>6 DEF TypeInv, TypeOK

(* A session that ends leaves the others as they are. *)
LEMMA TypeEnds ==
    ASSUME TypeInv, NEW s \in Sessions, session' = [session EXCEPT ![s] = Idle],
           charge' = charge
    PROVE  /\ session' \in [Sessions -> {Idle} \cup
                    [pc : {"loaded"}, job : Jobs, order : Orders, copy : OrderRow]]
           /\ GatewayOrders'
<1>1. \A t \in Sessions : session'[t] = Idle \/ session'[t] = session[t]
  BY DEF TypeInv, TypeOK
<1> QED
  BY <1>1 DEF TypeInv, TypeOK, GatewayOrders

LEMMA TypeUpdate ==
    ASSUME TypeInv, NEW s \in Sessions, NEW ok \in BOOLEAN, update(s, ok)
    PROVE  TypeInv'
<1> DEFINE job == session[s].job
           o == session[s].order
           e == session[s].copy
           gives == restock_order(e, AsksRestock(job, e), ok)
           w == Written(o, Restocked(Updates(job, o, e), gives))
<1>1. session[s] # Idle /\ Accepts(job, o, e)
  BY DEF update
<1>2. job \in Jobs /\ o \in Orders /\ e \in OrderRow
  BY <1>1, LoadedTyped DEF TypeInv
<1>3. gives \in BOOLEAN
  BY DEF restock_order
<1>4. w \in OrderRow
  BY <1>1, <1>3, WrittenTyped
<1>5. row' = IF Saves(job, e) THEN [row EXCEPT ![o] = w] ELSE row
  BY DEF update
<1>6. row' \in [Orders -> OrderRow]
  BY <1>4, <1>5 DEF TypeInv, TypeOK
<1>7. held' \in [Orders -> Int]
  <2>1. held' = [held EXCEPT ![o] = IF gives THEN held[o] - 1 ELSE held[o]]
    BY DEF update
  <2>2. held[o] \in Int
    BY <1>2 DEF TypeInv, TypeOK
  <2>3. (IF gives THEN held[o] - 1 ELSE held[o]) \in Int
    BY <2>2
  <2> QED
    BY <2>1, <2>3 DEF TypeInv, TypeOK
<1>8. parcel' \in [Orders -> [state : ParcelState, cod : BOOLEAN]]
  <2>1. parcel' = CASE job.by = "courier" -> [parcel EXCEPT ![o].state = job.what]
                    [] job.by = "booking" -> [parcel EXCEPT ![o] = BookedParcel(e, job.what)]
                    [] OTHER -> parcel
    BY DEF update
  <2>2. CASE job.by = "courier"
    <3>1. parcel' = [parcel EXCEPT ![o].state = job.what]
      BY <2>1, <2>2
    <3>2. job.what \in ParcelState
      BY <1>2, <2>2, JobTyped, OrderAssumption DEF ParcelState
    <3> QED
      BY <1>2, <3>1, <3>2 DEF TypeInv, TypeOK
  <2>3. CASE job.by = "booking"
    <3>1. parcel' = [parcel EXCEPT ![o] = BookedParcel(e, job.what)]
      BY <2>1, <2>3
    <3>2. BookedParcel(e, job.what) \in [state : ParcelState, cod : BOOLEAN]
      BY <1>2, <2>3, JobTyped, BookingTyped
    <3> QED
      BY <1>2, <3>1, <3>2 DEF TypeInv, TypeOK
  <2>4. CASE job.by \notin {"courier", "booking"}
    <3>1. parcel' = parcel
      BY <2>1, <2>4
    <3> QED
      BY <3>1 DEF TypeInv, TypeOK
  <2> QED
    BY <2>2, <2>3, <2>4
<1>9. announced' \subseteq Orders
  BY <1>2 DEF update, TypeInv, TypeOK
<1>10. done' \subseteq Charges
  <2>1. done' = IF job.by = "gateway" THEN done \cup {job.what} ELSE done
    BY DEF update
  <2>2. job.by = "gateway" => job.what \in Charges
    BY <1>2, JobTyped
  <2> QED
    BY <2>1, <2>2 DEF TypeInv, TypeOK
<1>11. /\ session' = [session EXCEPT ![s] = Idle]
       /\ due' = due /\ charge' = charge /\ sweep' = sweep
  BY DEF update, worldVars
<1>12. /\ session' \in [Sessions -> {Idle} \cup
                    [pc : {"loaded"}, job : Jobs, order : Orders, copy : OrderRow]]
       /\ GatewayOrders'
  BY <1>11, TypeEnds
<1> QED
  BY <1>6, <1>7, <1>8, <1>9, <1>10, <1>11, <1>12 DEF TypeInv, TypeOK

LEMMA TypeFails ==
    ASSUME TypeInv, NEW s \in Sessions, RequestFails(s)
    PROVE  TypeInv'
<1>1. /\ session' = [session EXCEPT ![s] = Idle]
      /\ UNCHANGED <<row, held, parcel, due, charge, announced, done, sweep>>
  BY DEF RequestFails, worldVars
<1>2. /\ session' \in [Sessions -> {Idle} \cup
                    [pc : {"loaded"}, job : Jobs, order : Orders, copy : OrderRow]]
      /\ GatewayOrders'
  BY <1>1, TypeEnds
<1> QED
  BY <1>1, <1>2 DEF TypeInv, TypeOK

LEMMA TypeSyncFails ==
    ASSUME TypeInv, NEW s \in Sessions, OrderSyncFails(s)
    PROVE  TypeInv'
<1> DEFINE job == session[s].job
           o == session[s].order
<1>1. /\ session[s] # Idle /\ job.by = "courier"
      /\ parcel' = [parcel EXCEPT ![o].state = job.what]
      /\ session' = [session EXCEPT ![s] = Idle]
      /\ UNCHANGED <<row, held, due, charge, announced, done, sweep>>
  BY DEF OrderSyncFails, worldVars
<1>2. job \in Jobs /\ o \in Orders
  BY <1>1, LoadedTyped DEF TypeInv
<1>3. job.what \in ParcelState
  BY <1>1, <1>2, JobTyped, OrderAssumption DEF ParcelState
<1>4. parcel' \in [Orders -> [state : ParcelState, cod : BOOLEAN]]
  BY <1>1, <1>2, <1>3 DEF TypeInv, TypeOK
<1>5. /\ session' \in [Sessions -> {Idle} \cup
                    [pc : {"loaded"}, job : Jobs, order : Orders, copy : OrderRow]]
      /\ GatewayOrders'
  BY <1>1, TypeEnds
<1> QED
  BY <1>1, <1>4, <1>5 DEF TypeInv, TypeOK

LEMMA CashTyped ==
    ASSUME NEW e \in OrderRow, NEW received \in BOOLEAN, NEW n \in Nat
    PROVE  LET w == [e EXCEPT !.cash = received, !.version = n] IN
           /\ w \in OrderRow
           /\ w.version = n /\ w.cash = received
           /\ w.restocked = e.restocked /\ w.status = e.status /\ w.pay = e.pay
           /\ w.flagged = e.flagged
BY DEF OrderRow

LEMMA TypeCash ==
    ASSUME TypeInv, NEW o \in Orders, NEW received \in CashEdits,
           mark_orders_cash_received(o, received)
    PROVE  /\ TypeInv'
           /\ row' = [row EXCEPT ![o] = [row[o] EXCEPT !.cash = received,
                                             !.version = row[o].version + 1]]
<1> DEFINE w == [row[o] EXCEPT !.cash = received, !.version = row[o].version + 1]
<1>1. row \in [Orders -> OrderRow] /\ row[o] \in OrderRow
  BY DEF TypeInv, TypeOK
<1>2. row' = [row EXCEPT ![o] = w]
  BY <1>1 DEF mark_orders_cash_received
<1>3. received \in BOOLEAN
  BY OrderAssumption
<1>4. w \in OrderRow
  <2>1. row[o].version + 1 \in Nat
    BY <1>1 DEF OrderRow
  <2> QED
    BY <1>1, <1>3, <2>1, CashTyped
<1>5. UNCHANGED <<held, parcel, due, charge, announced, done, session, sweep>>
  BY DEF mark_orders_cash_received, worldVars
<1>6. row' \in [Orders -> OrderRow]
  BY <1>1, <1>2, <1>4
<1> QED
  BY <1>2, <1>5, <1>6 DEF TypeInv, TypeOK, GatewayOrders

(* The rows a sweep in flight holds. *)
LEMMA ScannedTyped ==
    ASSUME TypeOK, sweep # Idle
    PROVE  \A o \in DOMAIN sweep.rows : o \in Orders /\ sweep.rows[o] \in OrderRow
<1>1. PICK B \in SUBSET Orders : sweep \in [pc : {"scanned"}, rows : [B -> OrderRow]]
  BY DEF TypeOK
<1> QED
  BY <1>1

(* The row a sweep writes over the one it scanned. *)
LEMMA SweptTyped ==
    ASSUME NEW e \in OrderRow, NEW gives \in BOOLEAN, NEW n \in Nat
    PROVE  LET w == [Restocked(transition_to(e, "cancelled"), gives) EXCEPT !.version = n]
           IN  /\ w \in OrderRow
               /\ w.version = n
               /\ w.restocked = (e.restocked \/ gives)
               /\ w.status = "cancelled"
               /\ w.cash = e.cash
               /\ e.pay = "paid" => w.pay = "paid"
<1> DEFINE t == transition_to(e, "cancelled")
           r == Restocked(t, gives)
           w == [r EXCEPT !.version = n]
<1>1. "cancelled" \in Statuses
  BY DEF Statuses
<1>2. /\ t \in OrderRow /\ t.status = "cancelled" /\ t.restocked = e.restocked
      /\ t.cash = e.cash /\ (t.pay # e.pay => t.pay = "paid")
  BY <1>1, TransitionTyped
<1> HIDE DEF t
<1>3. /\ r \in OrderRow /\ r.status = t.status /\ r.restocked = (t.restocked \/ gives)
      /\ r.cash = t.cash /\ r.pay = t.pay
  BY <1>2, RestockedTyped
<1> HIDE DEF r
<1>4. /\ w \in OrderRow /\ w.version = n /\ w.status = r.status
      /\ w.restocked = r.restocked /\ w.cash = r.cash /\ w.pay = r.pay
  BY <1>3, NumberedTyped
<1>5. /\ w \in OrderRow
      /\ w.version = n
      /\ w.restocked = (e.restocked \/ gives)
      /\ w.status = "cancelled"
      /\ w.cash = e.cash
      /\ e.pay = "paid" => w.pay = "paid"
  BY <1>2, <1>3, <1>4
<1> QED
  BY <1>5 DEF r, t

LEMMA TypeSweepScans == ASSUME TypeInv, SweepScans PROVE TypeInv'
<1>1. /\ sweep' = [pc |-> "scanned", rows |-> [o \in Expired |-> row[o]]]
      /\ UNCHANGED <<row, held, parcel, due, charge, announced, done, session>>
  BY DEF SweepScans, worldVars
<1>2. Expired \in SUBSET Orders /\ [o \in Expired |-> row[o]] \in [Expired -> OrderRow]
  BY DEF TypeInv, TypeOK, Expired
<1>3. sweep' \in [pc : {"scanned"}, rows : [Expired -> OrderRow]]
  BY <1>1, <1>2
<1>4. \E B \in SUBSET Orders : sweep' \in [pc : {"scanned"}, rows : [B -> OrderRow]]
  BY <1>2, <1>3
<1> QED
  BY <1>1, <1>4 DEF TypeInv, TypeOK, GatewayOrders

LEMMA TypeSweepCommits ==
    ASSUME TypeInv, NEW failed \in SUBSET Orders, SweepCommits(failed)
    PROVE  TypeInv'
<1> DEFINE gives(o) == restock_order(sweep.rows[o], TRUE, o \notin failed)
           w(o) == [Restocked(transition_to(sweep.rows[o], "cancelled"), gives(o))
                        EXCEPT !.version = row[o].version + 1]
<1>1. sweep # Idle
  BY DEF SweepCommits
<1>2. row' = [o \in Orders |-> IF o \in SweepTargets THEN w(o) ELSE row[o]]
  BY DEF SweepCommits
<1>3. held' = [o \in Orders |->
                IF o \in SweepTargets /\ gives(o) THEN held[o] - 1 ELSE held[o]]
  BY DEF SweepCommits
<1>4. \A o \in Orders : o \in SweepTargets => w(o) \in OrderRow
  <2> SUFFICES ASSUME NEW o \in Orders, o \in SweepTargets PROVE w(o) \in OrderRow
    OBVIOUS
  <2>1. sweep.rows[o] \in OrderRow
    BY <1>1, ScannedTyped DEF SweepTargets, TypeInv
  <2>2. gives(o) \in BOOLEAN
    BY DEF restock_order
  <2>3. row[o] \in OrderRow
    BY DEF TypeInv, TypeOK
  <2>4. row[o].version + 1 \in Nat
    BY <2>3 DEF OrderRow
  <2> HIDE DEF gives
  <2> QED
    BY <2>1, <2>2, <2>4, SweptTyped
<1> HIDE DEF w, gives
<1>5. row' \in [Orders -> OrderRow]
  BY <1>2, <1>4 DEF TypeInv, TypeOK
<1>6. held' \in [Orders -> Int]
  BY <1>3 DEF TypeInv, TypeOK
<1>7. sweep' = Idle /\ UNCHANGED <<parcel, due, charge, announced, done, session>>
  BY DEF SweepCommits, worldVars
<1> QED
  BY <1>5, <1>6, <1>7 DEF TypeInv, TypeOK, GatewayOrders

LEMMA TypeReports ==
    ASSUME TypeInv, NEW c \in Charges, NEW o \in Orders, NEW what \in Outcomes,
           GatewayReports(c, o, what)
    PROVE  TypeInv'
<1> DEFINE new == [made |-> TRUE, order |-> o, what |-> what]
<1>1. /\ charge[c] = NoCharge
      /\ charge' = [charge EXCEPT ![c] = new]
      /\ UNCHANGED <<row, held, parcel, due, announced, done, session, sweep>>
  BY DEF GatewayReports
<1>2. charge' \in [Charges -> {NoCharge} \cup
            [made : {TRUE}, order : Orders, what : Outcomes]]
  BY <1>1 DEF TypeInv, TypeOK
<1>3. GatewayOrders'
  <2> SUFFICES ASSUME NEW s \in Sessions, session[s] # Idle,
                      session[s].job.by = "gateway"
               PROVE  /\ charge'[session[s].job.what].made
                      /\ charge'[session[s].job.what].order = session[s].order
    BY <1>1 DEF GatewayOrders
  <2>1. session[s].job.what \in Charges
    BY LoadedTyped, JobTyped DEF TypeInv
  <2>2. /\ charge[session[s].job.what].made
        /\ charge[session[s].job.what].order = session[s].order
    BY DEF TypeInv, GatewayOrders
  <2>3. session[s].job.what # c
    BY <1>1, <2>2 DEF NoCharge
  <2> QED
    BY <1>1, <2>1, <2>2, <2>3 DEF TypeInv, TypeOK
<1> QED
  BY <1>1, <1>2, <1>3 DEF TypeInv, TypeOK

LEMMA TypeNext == TypeInv /\ [Next]_vars => TypeInv'
<1> SUFFICES ASSUME TypeInv, [Next]_vars PROVE TypeInv'
  OBVIOUS
<1>1. ASSUME NEW s \in Sessions, NEW o \in Orders, NEW job \in Jobs, get_by_id(s, job, o)
      PROVE  TypeInv'
  BY <1>1, TypeLoad
<1>2. ASSUME NEW s \in Sessions, NEW ok \in BOOLEAN, update(s, ok) PROVE TypeInv'
  BY <1>2, TypeUpdate
<1>3. ASSUME NEW s \in Sessions, RequestFails(s) PROVE TypeInv'
  BY <1>3, TypeFails
<1>4. ASSUME NEW o \in Orders, NEW received \in CashEdits,
             mark_orders_cash_received(o, received)
      PROVE  TypeInv'
  BY <1>4, TypeCash
<1>5. ASSUME NEW o \in Orders, WindowCloses(o) PROVE TypeInv'
  BY <1>5 DEF WindowCloses, TypeInv, TypeOK, GatewayOrders
<1>6. CASE SweepScans
  BY <1>6, TypeSweepScans
<1>7. ASSUME NEW failed \in SUBSET Orders, SweepCommits(failed) PROVE TypeInv'
  BY <1>7, TypeSweepCommits
<1>8. CASE SweepFails
  BY <1>8 DEF SweepFails, worldVars, TypeInv, TypeOK, GatewayOrders
<1>9. ASSUME NEW c \in Charges, NEW o \in Orders, NEW what \in Outcomes,
             GatewayReports(c, o, what)
      PROVE  TypeInv'
  BY <1>9, TypeReports
<1>10. CASE UNCHANGED vars
  BY <1>10 DEF vars, TypeInv, TypeOK, GatewayOrders
<1>11. ASSUME NEW s \in Sessions, OrderSyncFails(s) PROVE TypeInv'
  BY <1>11, TypeSyncFails
<1> QED
  BY <1>1, <1>2, <1>3, <1>4, <1>5, <1>6, <1>7, <1>8, <1>9, <1>10, <1>11 DEF Next

(* Every row the handlers, the sweep and the cash receipts write is a      *)
(* well-formed order, every callback in flight carries a reported          *)
(* transaction of its order, and what the sweep scanned are orders: for    *)
(* every mix of requests, locked or not.                                   *)
THEOREM TypeCorrect == Spec => []TypeOK
<1>1. Init => TypeInv
  BY TypeInit
<1>2. TypeInv /\ [Next]_vars => TypeInv'
  BY TypeNext
<1>3. TypeInv => TypeOK
  BY DEF TypeInv
<1> QED
  BY <1>1, <1>2, <1>3, PTL DEF Spec

----------------------------------------------------------------------------
(* The protected configuration *)

(* Callbacks look the order up by payment id; nobody works on an order     *)
(* without the row lock.                                                   *)
Protected == LockedLookup /\ MerchantStatuses = {} /\ Bookings = {}

(* A request in flight is alone on its order and its copy is the row.      *)
SessionsCurrent ==
    \A s \in Sessions : session[s] # Idle =>
        /\ Locks(session[s].job)
        /\ session[s].copy = row[session[s].order]
        /\ \A t \in Sessions \ {s} :
                session[t] # Idle => session[t].order # session[s].order

(* What the sweep scanned was unpaid, and is the row while the version is. *)
SweepBehind ==
    sweep # Idle => \A o \in DOMAIN sweep.rows :
        /\ sweep.rows[o].status \in Unpaid
        /\ sweep.rows[o].version <= row[o].version
        /\ sweep.rows[o].version = row[o].version => sweep.rows[o] = row[o]

(* Stock comes back only with the end of an order or after its delivery.   *)
StatusSound ==
    \A o \in Orders :
        /\ row[o].status \notin Odd
        /\ row[o].restocked => row[o].status \in Closed \cup {"delivered"}

Safe == TypeInv /\ SessionsCurrent /\ SweepBehind /\ StatusSound /\ StampMatchesStock

(* The handler of a request in flight, in the protected configuration. *)
LEMMA HandlerMoves ==
    ASSUME Protected, Safe, NEW s \in Sessions, session[s] # Idle,
           Accepts(session[s].job, session[s].order, session[s].copy)
    PROVE  LET job == session[s].job
               e == session[s].copy
               f == Updates(job, session[s].order, e)
           IN  /\ Moves(e, f)
               /\ AsksRestock(job, e) =>
                    Saves(job, e) /\ f.status \in Closed \cup {"delivered"}
               /\ e.pay = "paid" /\ f.pay \notin {"paid", "refunded"} => FailsPayment(job)
               /\ (/\ job.by = "gateway" /\ charge[job.what].what = "success"
                   /\ e.status \in {"cancelled", "refunded"}) => f.flagged
<1> DEFINE job == session[s].job
           o == session[s].order
           e == session[s].copy
           f == Updates(job, o, e)
<1>1. TypeOK /\ GatewayOrders
  BY DEF Safe, TypeInv
<1>2. job \in Jobs /\ o \in Orders /\ e \in OrderRow
  BY <1>1, LoadedTyped
<1>3. e = row[o] /\ Locks(job) /\ e.status \notin Odd
  BY <1>2 DEF Safe, SessionsCurrent, StatusSound
<1>4. CASE job.by = "gateway"
  <2> DEFINE outcome == charge[job.what].what
  <2>1. f = GatewayUpdates(e, outcome) /\ GatewayAccepts(e, outcome)
    BY <1>4 DEF Updates, Accepts
  <2>2. job.what \in Charges /\ charge[job.what].made
    BY <1>1, <1>2, <1>4, JobTyped DEF GatewayOrders
  <2>3. outcome \in Outcomes
    BY <1>1, <2>2, ChargeTyped
  <2>4. /\ AsksRestock(job, e) => outcome = "void" /\ can_be_cancelled(e)
        /\ outcome = "void" /\ can_be_cancelled(e) => Saves(job, e)
        /\ outcome = "decline" => FailsPayment(job)
    BY <1>4 DEF AsksRestock, Saves, FailsPayment
  <2> HIDE DEF outcome
  <2>5. /\ Moves(e, f)
        /\ e.pay = "paid" /\ f.pay \notin {"paid", "refunded"} => outcome = "decline"
        /\ outcome = "success" /\ e.status \in {"cancelled", "refunded"} => f.flagged
        /\ outcome = "void" /\ can_be_cancelled(e) => f.status = "cancelled"
    BY <1>2, <2>1, <2>3, GatewayMoves
  <2> QED
    BY <2>4, <2>5 DEF Closed, outcome
<1>5. CASE job.by = "courier"
  <2>1. f = CourierUpdates(e, job.what, parcel[o].cod)
    BY <1>5 DEF Updates
  <2>2. job.what \in CourierEvents /\ parcel[o].cod \in BOOLEAN
    BY <1>1, <1>2, <1>5, JobTyped DEF TypeOK
  <2>3. /\ Moves(e, f)
        /\ e.pay = "paid" => f.pay = "paid"
        /\ job.what = "cancelled" /\ can_be_cancelled(e) => f.status = "cancelled"
        /\ job.what = "returned" => f.status \in Closed \cup {"delivered"}
    BY <1>2, <1>3, <2>1, <2>2, CourierMoves
  <2> DEFINE back == job.what = "returned" \/ (job.what = "cancelled" /\ can_be_cancelled(e))
  <2>4. (AsksRestock(job, e) => back) /\ (back => Saves(job, e))
    BY <1>5 DEF AsksRestock, Saves
  <2> QED
    BY <1>5, <2>3, <2>4 DEF Closed
<1> QED
  BY <1>3, <1>4, <1>5 DEF Locks

(* What a step may do to an order and its stock. *)
Lawful(o) ==
    /\ row'[o] = row[o] \/ row'[o].version = row[o].version + 1
    /\ row[o].status \in Closed => row'[o].status = row[o].status
    /\ row[o].status = "delivered" => row'[o].status \in {"delivered", "refunded"}
    /\ row'[o].status \notin Odd
    /\ row[o].restocked => row'[o].restocked
    /\ row'[o].restocked /\ ~row[o].restocked =>
            row'[o].status \in Closed \cup {"delivered"}
    /\ held'[o] = IF row'[o].restocked /\ ~row[o].restocked THEN held[o] - 1 ELSE held[o]

LEMMA StillLawful ==
    ASSUME Safe, NEW o \in Orders, row'[o] = row[o], held'[o] = held[o]
    PROVE  Lawful(o)
BY DEF Safe, StatusSound, Lawful

LEMMA UpdateLawful ==
    ASSUME Protected, Safe, NEW s \in Sessions, NEW ok \in BOOLEAN, update(s, ok)
    PROVE  LET o == session[s].order
               job == session[s].job
           IN  /\ \A p \in Orders : Lawful(p) /\ row'[p].cash = row[p].cash
               /\ \A p \in Orders \ {o} : row'[p] = row[p]
               /\ row[o].pay = "paid" /\ row'[o].pay \notin {"paid", "refunded"} =>
                    FailsPayment(job)
               /\ (/\ job.by = "gateway" /\ charge[job.what].what = "success"
                   /\ row[o].status \in {"cancelled", "refunded"}) => row'[o].flagged
<1> DEFINE job == session[s].job
           o == session[s].order
           e == session[s].copy
           f == Updates(job, o, e)
           gives == restock_order(e, AsksRestock(job, e), ok)
           w == Written(o, Restocked(f, gives))
<1>1. TypeInv /\ TypeOK
  BY DEF Safe, TypeInv
<1>2. session[s] # Idle /\ Accepts(job, o, e)
  BY DEF update
<1>3. o \in Orders /\ e \in OrderRow /\ e = row[o] /\ e.status \notin Odd
  BY <1>1, <1>2, LoadedTyped DEF Safe, SessionsCurrent, StatusSound
<1>4. /\ row' = IF Saves(job, e) THEN [row EXCEPT ![o] = w] ELSE row
      /\ held' = [held EXCEPT ![o] = IF gives THEN held[o] - 1 ELSE held[o]]
  BY DEF update
<1>5. gives \in BOOLEAN /\ (gives => AsksRestock(job, e) /\ ~e.restocked)
  BY DEF restock_order
<1>6. /\ w \in OrderRow
      /\ w.version = row[o].version + 1
      /\ w.restocked = (f.restocked \/ gives)
      /\ w.status = f.status /\ w.pay = f.pay
      /\ w.flagged = f.flagged /\ w.cash = f.cash
  <2> HIDE DEF gives
  <2> QED
    BY <1>1, <1>2, <1>5, WrittenTyped
<1>7. /\ Moves(e, f)
      /\ AsksRestock(job, e) => Saves(job, e) /\ f.status \in Closed \cup {"delivered"}
      /\ e.pay = "paid" /\ f.pay \notin {"paid", "refunded"} => FailsPayment(job)
      /\ (/\ job.by = "gateway" /\ charge[job.what].what = "success"
          /\ e.status \in {"cancelled", "refunded"}) => f.flagged
  BY <1>2, HandlerMoves
<1>8. job.by = "gateway" /\ charge[job.what].what = "success" => Saves(job, e)
  BY DEF Saves
<1>9. row \in [Orders -> OrderRow] /\ held \in [Orders -> Int]
  BY <1>1 DEF TypeOK
<1> HIDE DEF w, gives, f, e, o, job
<1>10. \A p \in Orders \ {o} : row'[p] = row[p] /\ held'[p] = held[p]
  BY <1>4, <1>9
<1>11. CASE Saves(job, e)
  <2>1. row'[o] = w /\ held'[o] = IF gives THEN held[o] - 1 ELSE held[o]
    BY <1>3, <1>4, <1>9, <1>11
  <2>2. gives <=> w.restocked /\ ~e.restocked
    <3>1. f.restocked = e.restocked
      BY <1>7 DEF Moves
    <3>2. e.restocked \in BOOLEAN
      BY <1>3 DEF OrderRow
    <3> QED
      BY <1>5, <1>6, <3>1, <3>2
  <2>3. e.restocked => w.restocked
    BY <1>6, <1>7 DEF Moves
  <2>4. /\ e.status \in Closed => w.status = e.status
        /\ e.status = "delivered" => w.status \in {"delivered", "refunded"}
        /\ w.status \notin Odd
        /\ gives => w.status \in Closed \cup {"delivered"}
        /\ w.cash = e.cash
    BY <1>3, <1>5, <1>6, <1>7 DEF Moves
  <2>5. held'[o] = IF row'[o].restocked /\ ~row[o].restocked THEN held[o] - 1 ELSE held[o]
    BY <1>3, <2>1, <2>2
  <2>6. Lawful(o)
    BY <1>3, <1>6, <2>1, <2>2, <2>3, <2>4, <2>5 DEF Lawful
  <2>7. /\ row[o].pay = "paid" /\ row'[o].pay \notin {"paid", "refunded"} =>
                FailsPayment(job)
        /\ (/\ job.by = "gateway" /\ charge[job.what].what = "success"
            /\ row[o].status \in {"cancelled", "refunded"}) => row'[o].flagged
    BY <1>3, <1>6, <1>7, <2>1
  <2>8. row'[o].cash = row[o].cash
    BY <1>3, <2>1, <2>4
  <2>9. \A p \in Orders : Lawful(p) /\ row'[p].cash = row[p].cash
    BY <1>10, <2>6, <2>8, StillLawful
  <2> QED
    BY <1>10, <2>7, <2>9 DEF o, job
<1>12. CASE ~Saves(job, e)
  <2>1. row' = row /\ held' = held
    BY <1>3, <1>4, <1>5, <1>7, <1>9, <1>12
  <2>2. \A p \in Orders : Lawful(p) /\ row'[p].cash = row[p].cash
    BY <2>1, StillLawful
  <2>3. row[o].pay = "paid" => row'[o].pay = "paid"
    BY <2>1
  <2> QED
    BY <1>8, <1>10, <1>12, <2>2, <2>3 DEF o, job
<1> QED
  BY <1>11, <1>12

LEMMA CashLawful ==
    ASSUME Safe, NEW o \in Orders, NEW received \in CashEdits,
           mark_orders_cash_received(o, received)
    PROVE  /\ \A p \in Orders : Lawful(p) /\ row'[p].pay = row[p].pay
           /\ \A p \in Orders \ {o} : row'[p] = row[p]
           /\ row'[o].cash = received
<1> DEFINE e == row[o]
           n == row[o].version + 1
           w == [e EXCEPT !.cash = received, !.version = n]
<1>1. row \in [Orders -> OrderRow] /\ e \in OrderRow
  BY DEF Safe, TypeInv, TypeOK
<1>2. row' = [row EXCEPT ![o] = w] /\ held' = held
  BY TypeCash DEF Safe, mark_orders_cash_received
<1>3. n \in Nat /\ received \in BOOLEAN
  BY <1>1, OrderAssumption DEF OrderRow
<1> HIDE DEF n, e
<1>4. /\ w.version = n /\ w.cash = received
      /\ w.restocked = e.restocked /\ w.status = e.status /\ w.pay = e.pay
  BY <1>1, <1>3 DEF OrderRow
<1> HIDE DEF w
<1>5. row'[o] = w /\ \A p \in Orders \ {o} : row'[p] = row[p]
  BY <1>1, <1>2
<1>6. Lawful(o)
  <2>1. row[o].status \notin Odd /\ held'[o] = held[o]
    BY <1>2 DEF Safe, StatusSound
  <2>2. row'[o].version = row[o].version + 1 /\ row'[o].status = row[o].status
    BY <1>4, <1>5 DEF n, e
  <2>3. row'[o].restocked = row[o].restocked
    BY <1>4, <1>5 DEF e
  <2> QED
    BY <2>1, <2>2, <2>3 DEF Lawful
<1> QED
  BY <1>2, <1>4, <1>5, <1>6, StillLawful DEF e

(* The rows the sweep writes are the ones it scanned. *)
LEMMA SweepLawful ==
    ASSUME Safe, NEW failed \in SUBSET Orders, SweepCommits(failed)
    PROVE  /\ \A p \in Orders : /\ Lawful(p) /\ row'[p].cash = row[p].cash
                                /\ row[p].pay = "paid" => row'[p].pay = "paid"
           /\ \A p \in Orders : Locked(p) => row'[p] = row[p]
<1> DEFINE gives(o) == restock_order(sweep.rows[o], TRUE, o \notin failed)
           w(o) == [Restocked(transition_to(sweep.rows[o], "cancelled"), gives(o))
                        EXCEPT !.version = row[o].version + 1]
<1>1. /\ sweep # Idle
      /\ \A o \in SweepTargets : ~Locked(o) /\ SweptRowCurrent(o)
      /\ row' = [o \in Orders |-> IF o \in SweepTargets THEN w(o) ELSE row[o]]
      /\ held' = [o \in Orders |->
                    IF o \in SweepTargets /\ gives(o) THEN held[o] - 1 ELSE held[o]]
  BY DEF SweepCommits
<1>2. TypeOK
  BY DEF Safe, TypeInv
<1>3. ASSUME NEW p \in Orders, p \in SweepTargets
      PROVE  /\ Lawful(p) /\ row'[p].cash = row[p].cash
             /\ row[p].pay = "paid" => row'[p].pay = "paid"
             /\ ~Locked(p)
  <2>1. p \in DOMAIN sweep.rows /\ sweep.rows[p].version = row[p].version
    BY <1>1, <1>3 DEF SweepTargets, SweptRowCurrent
  <2>2. sweep.rows[p] = row[p] /\ row[p].status \in Unpaid
    BY <1>1, <2>1 DEF Safe, SweepBehind
  <2>3. row[p] \in OrderRow /\ row[p].version + 1 \in Nat
    BY <1>2 DEF TypeOK, OrderRow
  <2>4. gives(p) \in BOOLEAN /\ (gives(p) => ~row[p].restocked)
    BY <2>2 DEF restock_order
  <2>5. row'[p] = w(p) /\ held'[p] = IF gives(p) THEN held[p] - 1 ELSE held[p]
    BY <1>1, <1>3
  <2>6. w(p) = [Restocked(transition_to(row[p], "cancelled"), gives(p))
                    EXCEPT !.version = row[p].version + 1]
    BY <2>2
  <2> HIDE DEF gives, w
  <2>7. /\ w(p).version = row[p].version + 1
        /\ w(p).restocked = (row[p].restocked \/ gives(p))
        /\ w(p).status = "cancelled"
        /\ w(p).cash = row[p].cash
        /\ row[p].pay = "paid" => w(p).pay = "paid"
    BY <2>3, <2>4, <2>6, SweptTyped
  <2>8. gives(p) <=> w(p).restocked /\ ~row[p].restocked
    <3>1. row[p].restocked \in BOOLEAN
      BY <2>3 DEF OrderRow
    <3> QED
      BY <2>4, <2>7, <3>1
  <2>9. held'[p] = IF row'[p].restocked /\ ~row[p].restocked THEN held[p] - 1 ELSE held[p]
    BY <2>5, <2>8
  <2>10. row[p].restocked => row'[p].restocked
    BY <2>5, <2>7
  <2>11. row[p].status \notin Closed \cup {"delivered"}
    BY <2>2 DEF Unpaid, Closed
  <2>12. Lawful(p)
    BY <2>5, <2>7, <2>9, <2>10, <2>11 DEF Lawful, Closed, Odd
  <2> QED
    BY <1>1, <1>3, <2>5, <2>7, <2>12
<1>4. ASSUME NEW p \in Orders, p \notin SweepTargets
      PROVE  row'[p] = row[p] /\ held'[p] = held[p]
  BY <1>1, <1>4
<1> HIDE DEF gives, w
<1> QED
  BY <1>3, <1>4, StillLawful

(* A lawful step keeps the stamp, and what the sweep holds stays behind. *)
LEMMA LawfulKeeps ==
    ASSUME Safe, \A o \in Orders : Lawful(o)
    PROVE  StatusSound' /\ StampMatchesStock' /\ (sweep' = sweep => SweepBehind')
<1>1. StatusSound'
  <2> SUFFICES ASSUME NEW o \in Orders
               PROVE  /\ row'[o].status \notin Odd
                      /\ row'[o].restocked => row'[o].status \in Closed \cup {"delivered"}
    BY DEF StatusSound
  <2>1. Lawful(o)
    OBVIOUS
  <2>2. row[o].restocked => row[o].status \in Closed \cup {"delivered"}
    BY DEF Safe, StatusSound
  <2> QED
    BY <2>1, <2>2 DEF Lawful, Closed
<1>2. StampMatchesStock'
  <2> SUFFICES ASSUME NEW o \in Orders
               PROVE  held'[o] = IF row'[o].restocked THEN 0 ELSE 1
    BY DEF StampMatchesStock
  <2>1. Lawful(o) /\ held[o] = IF row[o].restocked THEN 0 ELSE 1
    BY DEF Safe, StampMatchesStock
  <2> QED
    BY <2>1 DEF Lawful
<1>3. ASSUME sweep' = sweep PROVE SweepBehind'
  <2> SUFFICES ASSUME sweep # Idle, NEW o \in DOMAIN sweep.rows
               PROVE  /\ sweep.rows[o].status \in Unpaid
                      /\ sweep.rows[o].version <= row'[o].version
                      /\ sweep.rows[o].version = row'[o].version => sweep.rows[o] = row'[o]
    BY <1>3 DEF SweepBehind
  <2>1. /\ o \in Orders
        /\ sweep.rows[o] \in OrderRow /\ row[o] \in OrderRow
    BY ScannedTyped DEF Safe, TypeInv, TypeOK
  <2>2. sweep.rows[o].version \in Nat /\ row[o].version \in Nat
    BY <2>1 DEF OrderRow
  <2>3. /\ sweep.rows[o].status \in Unpaid
        /\ sweep.rows[o].version <= row[o].version
        /\ sweep.rows[o].version = row[o].version => sweep.rows[o] = row[o]
    BY DEF Safe, SweepBehind
  <2>4. row'[o] = row[o] \/ row'[o].version = row[o].version + 1
    BY <2>1 DEF Lawful
  <2> QED
    BY <2>2, <2>3, <2>4
<1> QED
  BY <1>1, <1>2, <1>3

(* Whoever is left on an order still has the current copy. *)
LEMMA SessionsLeft ==
    ASSUME Safe,
           \A t \in Sessions : session'[t] \in {Idle, session[t]},
           \A t \in Sessions : session'[t] # Idle =>
                row'[session[t].order] = row[session[t].order]
    PROVE  SessionsCurrent'
<1> SUFFICES ASSUME NEW s \in Sessions, session'[s] # Idle
             PROVE  /\ Locks(session'[s].job)
                    /\ session'[s].copy = row'[session'[s].order]
                    /\ \A t \in Sessions \ {s} :
                        session'[t] # Idle => session'[t].order # session'[s].order
  BY DEF SessionsCurrent, Locks
<1>1. session'[s] = session[s] /\ session[s] # Idle
  OBVIOUS
<1>2. /\ Locks(session[s].job)
      /\ session[s].copy = row[session[s].order]
      /\ \A t \in Sessions \ {s} :
            session[t] # Idle => session[t].order # session[s].order
  BY <1>1 DEF Safe, SessionsCurrent
<1> QED
  BY <1>1, <1>2

LEMMA LoadSafe ==
    ASSUME Protected, Safe, NEW s \in Sessions, NEW o \in Orders, NEW job \in Jobs,
           get_by_id(s, job, o)
    PROVE  SessionsCurrent' /\ \A p \in Orders : Lawful(p)
<1> DEFINE new == [pc |-> "loaded", job |-> job, order |-> o, copy |-> row[o]]
<1>1. /\ session' = [session EXCEPT ![s] = new]
      /\ session[s] = Idle
      /\ row' = row /\ held' = held
  BY DEF get_by_id
<1>2. session \in [Sessions -> {Idle} \cup LoadedSession]
  BY DEF Safe, TypeInv, TypeOK, LoadedSession
<1>3. session'[s] = new /\ \A t \in Sessions \ {s} : session'[t] = session[t]
  BY <1>1, <1>2
<1>4. new.job = job /\ new.order = o /\ new.copy = row[o]
  OBVIOUS
<1> HIDE DEF new
<1>5. Locks(job)
  <2>1. job.by \in {"gateway", "courier"}
    BY JobTyped DEF Protected
  <2> QED
    BY <2>1 DEF Locks, Protected
<1>6. \A t \in Sessions : session[t] # Idle => session[t].order # o
  <2>1. ~Locked(o)
    BY <1>5 DEF get_by_id
  <2> QED
    BY <2>1 DEF Locked, Safe, SessionsCurrent
<1>7. SessionsCurrent'
  <2> SUFFICES ASSUME NEW t \in Sessions, session'[t] # Idle
               PROVE  /\ Locks(session'[t].job)
                      /\ session'[t].copy = row[session'[t].order]
                      /\ \A u \in Sessions \ {t} :
                            session'[u] # Idle => session'[u].order # session'[t].order
    BY <1>1 DEF SessionsCurrent, Locks
  <2>1. CASE t = s
    BY <1>3, <1>4, <1>5, <1>6, <2>1
  <2>2. CASE t # s
    <3>1. session'[t] = session[t]
      BY <1>3, <2>2
    <3>2. /\ Locks(session[t].job)
          /\ session[t].copy = row[session[t].order]
          /\ \A u \in Sessions \ {t} :
                session[u] # Idle => session[u].order # session[t].order
      BY <3>1 DEF Safe, SessionsCurrent
    <3>3. session[t].order # o
      BY <1>6, <3>1
    <3> QED
      BY <1>3, <1>4, <3>1, <3>2, <3>3
  <2> QED
    BY <2>1, <2>2
<1> QED
  BY <1>1, <1>7, StillLawful

(* A session ends: the others work on other orders. *)
LEMMA UpdateSafe ==
    ASSUME Protected, Safe, NEW s \in Sessions, NEW ok \in BOOLEAN, update(s, ok)
    PROVE  SessionsCurrent'
<1>1. session' = [session EXCEPT ![s] = Idle] /\ session[s] # Idle
  BY DEF update
<1>2. session \in [Sessions -> {Idle} \cup LoadedSession]
  BY DEF Safe, TypeInv, TypeOK, LoadedSession
<1>3. session'[s] = Idle /\ \A t \in Sessions \ {s} : session'[t] = session[t]
  BY <1>1, <1>2
<1>4. \A p \in Orders \ {session[s].order} : row'[p] = row[p]
  BY UpdateLawful
<1>5. ASSUME NEW t \in Sessions, session'[t] # Idle
      PROVE  row'[session[t].order] = row[session[t].order]
  <2>1. t # s /\ session[t] # Idle
    BY <1>3, <1>5
  <2>2. session[t].order # session[s].order
    BY <1>1, <2>1 DEF Safe, SessionsCurrent
  <2>3. session[t].order \in Orders
    BY <2>1, LoadedTyped DEF Safe, TypeInv
  <2> QED
    BY <1>4, <2>2, <2>3
<1> QED
  BY <1>1, <1>3, <1>5, SessionsLeft

(* Cash receipts and the sweep keep away from an order somebody is on. *)
LEMMA OthersSafe ==
    ASSUME Safe, session' = session,
           \A p \in Orders : Locked(p) => row'[p] = row[p]
    PROVE  SessionsCurrent'
<1>1. ASSUME NEW t \in Sessions, session'[t] # Idle
      PROVE  row'[session[t].order] = row[session[t].order]
  <2>1. session[t] # Idle
    BY <1>1
  <2>2. session[t].order \in Orders
    BY <2>1, LoadedTyped DEF Safe, TypeInv
  <2>3. Locked(session[t].order)
    BY <2>1 DEF Locked, Safe, SessionsCurrent
  <2> QED
    BY <2>2, <2>3
<1> QED
  BY <1>1, SessionsLeft

LEMMA SafeInit == Init => Safe
<1> SUFFICES ASSUME Init PROVE Safe
  OBVIOUS
<1>1. TypeInv
  BY TypeInit
<1>2. SessionsCurrent /\ SweepBehind
  BY DEF Init, SessionsCurrent, SweepBehind
<1>3. PICK method \in [Orders -> Methods], booked \in [Orders -> BOOLEAN] :
        row = [o \in Orders |-> Placed(method[o], booked[o])]
  BY DEF Init
<1>4. \A m \in Methods, b \in BOOLEAN :
        /\ Placed(m, b).status \in {"pending", "pending_deposit", "awaiting_payment"}
        /\ Placed(m, b).restocked = FALSE
  <2> TAKE m \in Methods, b \in BOOLEAN
  <2>1. m \in {"cod", "deposit", "card"}
    BY OrderAssumption
  <2> QED
    BY <2>1 DEF Placed
<1>5. \A o \in Orders :
        /\ row[o].status \in {"pending", "pending_deposit", "awaiting_payment"}
        /\ row[o].restocked = FALSE
  BY <1>3, <1>4
<1>6. StatusSound
  BY <1>5 DEF StatusSound, Odd
<1>7. StampMatchesStock
  BY <1>5 DEF Init, StampMatchesStock
<1> QED
  BY <1>1, <1>2, <1>6, <1>7 DEF Safe

(* A step that leaves orders, stock, requests and the sweep alone. *)
LEMMA QuietSafe ==
    ASSUME Safe, UNCHANGED <<row, held, session, sweep>>
    PROVE  /\ SessionsCurrent' /\ SweepBehind'
           /\ \A p \in Orders : Lawful(p)
<1>1. \A p \in Orders : Lawful(p)
  BY StillLawful
<1>2. SessionsCurrent'
  BY OthersSafe
<1> QED
  BY <1>1, <1>2, LawfulKeeps

LEMMA SafeStep ==
    ASSUME Protected, Safe, [Next]_vars
    PROVE  SessionsCurrent' /\ SweepBehind' /\ \A p \in Orders : Lawful(p)
<1>1. ASSUME NEW s \in Sessions, NEW o \in Orders, NEW job \in Jobs, get_by_id(s, job, o)
      PROVE  SessionsCurrent' /\ SweepBehind' /\ \A p \in Orders : Lawful(p)
  <2>1. sweep' = sweep
    BY <1>1 DEF get_by_id
  <2> QED
    BY <1>1, <2>1, LoadSafe, LawfulKeeps
<1>2. ASSUME NEW s \in Sessions, NEW ok \in BOOLEAN, update(s, ok)
      PROVE  SessionsCurrent' /\ SweepBehind' /\ \A p \in Orders : Lawful(p)
  <2>1. sweep' = sweep
    BY <1>2 DEF update
  <2>2. \A p \in Orders : Lawful(p)
    BY <1>2, UpdateLawful
  <2> QED
    BY <1>2, <2>1, <2>2, UpdateSafe, LawfulKeeps
<1>3. ASSUME NEW s \in Sessions, RequestFails(s) \/ OrderSyncFails(s)
      PROVE  SessionsCurrent' /\ SweepBehind' /\ \A p \in Orders : Lawful(p)
  <2>1. /\ session' = [session EXCEPT ![s] = Idle]
        /\ row' = row /\ held' = held /\ sweep' = sweep
    BY <1>3 DEF RequestFails, OrderSyncFails
  <2>2. \A t \in Sessions : session'[t] \in {Idle, session[t]}
    BY <2>1 DEF Safe, TypeInv, TypeOK
  <2>3. \A p \in Orders : Lawful(p)
    BY <2>1, StillLawful
  <2> QED
    BY <2>1, <2>2, <2>3, SessionsLeft, LawfulKeeps
<1>4. ASSUME NEW o \in Orders, NEW received \in CashEdits,
             mark_orders_cash_received(o, received)
      PROVE  SessionsCurrent' /\ SweepBehind' /\ \A p \in Orders : Lawful(p)
  <2>1. ~Locked(o) /\ session' = session /\ sweep' = sweep
    BY <1>4 DEF mark_orders_cash_received
  <2>2. (\A p \in Orders : Lawful(p)) /\ \A p \in Orders \ {o} : row'[p] = row[p]
    BY <1>4, CashLawful
  <2>3. \A p \in Orders : Locked(p) => row'[p] = row[p]
    BY <2>1, <2>2
  <2> QED
    BY <2>1, <2>2, <2>3, OthersSafe, LawfulKeeps
<1>5. ASSUME NEW o \in Orders, WindowCloses(o)
      PROVE  SessionsCurrent' /\ SweepBehind' /\ \A p \in Orders : Lawful(p)
  BY <1>5, QuietSafe DEF WindowCloses
<1>6. ASSUME SweepScans
      PROVE  SessionsCurrent' /\ SweepBehind' /\ \A p \in Orders : Lawful(p)
  <2>1. /\ sweep' = [pc |-> "scanned", rows |-> [o \in Expired |-> row[o]]]
        /\ row' = row /\ held' = held /\ session' = session
    BY <1>6 DEF SweepScans
  <2>2. sweep'.rows = [o \in Expired |-> row[o]]
    BY <2>1
  <2>3. \A o \in Expired : row[o].status \in Unpaid /\ row[o].version \in Nat
    BY DEF Expired, Safe, TypeInv, TypeOK, OrderRow
  <2>4. SweepBehind'
    BY <2>1, <2>2, <2>3 DEF SweepBehind
  <2>5. SessionsCurrent'
    BY <2>1, OthersSafe
  <2> QED
    BY <2>1, <2>4, <2>5, StillLawful
<1>7. ASSUME NEW failed \in SUBSET Orders, SweepCommits(failed)
      PROVE  SessionsCurrent' /\ SweepBehind' /\ \A p \in Orders : Lawful(p)
  <2>1. sweep' = Idle /\ session' = session
    BY <1>7 DEF SweepCommits
  <2>2. SweepBehind'
    BY <2>1 DEF SweepBehind
  <2> QED
    BY <1>7, <2>1, <2>2, SweepLawful, OthersSafe
<1>8. ASSUME SweepFails
      PROVE  SessionsCurrent' /\ SweepBehind' /\ \A p \in Orders : Lawful(p)
  <2>1. sweep' = Idle /\ session' = session /\ row' = row /\ held' = held
    BY <1>8 DEF SweepFails
  <2>2. SweepBehind'
    BY <2>1 DEF SweepBehind
  <2> QED
    BY <2>1, <2>2, StillLawful, OthersSafe
<1>9. ASSUME NEW c \in Charges, NEW o \in Orders, NEW what \in Outcomes,
             GatewayReports(c, o, what)
      PROVE  SessionsCurrent' /\ SweepBehind' /\ \A p \in Orders : Lawful(p)
  BY <1>9, QuietSafe DEF GatewayReports
<1>10. ASSUME UNCHANGED vars
       PROVE  SessionsCurrent' /\ SweepBehind' /\ \A p \in Orders : Lawful(p)
  BY <1>10, QuietSafe DEF vars
<1> QED
  BY <1>1, <1>2, <1>3, <1>4, <1>5, <1>6, <1>7, <1>8, <1>9, <1>10 DEF Next

LEMMA SafeNext == ASSUME Protected, Safe, [Next]_vars PROVE Safe'
<1>1. SessionsCurrent' /\ SweepBehind' /\ \A p \in Orders : Lawful(p)
  BY SafeStep
<1>2. StatusSound' /\ StampMatchesStock'
  BY <1>1, LawfulKeeps
<1>3. TypeInv'
  BY TypeNext DEF Safe
<1> QED
  BY <1>1, <1>2, <1>3 DEF Safe

LEMMA SafeAlways == ASSUME Protected PROVE Spec => []Safe
<1>1. Init => Safe
  BY SafeInit
<1>2. Safe /\ [Next]_vars => Safe'
  BY SafeNext
<1> QED
  BY <1>1, <1>2, PTL DEF Spec

----------------------------------------------------------------------------
(* Theorems *)

(* With every handler under the row lock, stock_restocked_at tells the     *)
(* truth: an order's stock was put back when and only when its row is      *)
(* stamped, however callbacks, courier events and the sweep interleave.    *)
THEOREM StampIsTrue == ASSUME Protected PROVE Spec => []StampMatchesStock
<1>1. Safe => StampMatchesStock
  BY DEF Safe
<1> QED
  BY <1>1, SafeAlways, PTL

(* With every handler under the row lock, nothing that returns stock       *)
(* leaves the order on its way to the customer.                            *)
THEOREM LiveStockIsOut == ASSUME Protected PROVE Spec => []LiveOrderKeepsStock
<1>1. Safe => LiveOrderKeepsStock
  <2> SUFFICES ASSUME Safe, NEW o \in Orders,
                      row[o].status \in {"pending_deposit", "awaiting_payment", "pending",
                                         "confirmed", "processing", "shipped"}
               PROVE  held[o] = 1
    BY DEF LiveOrderKeepsStock
  <2>1. row[o].restocked => row[o].status \in Closed \cup {"delivered"}
    BY DEF Safe, StatusSound
  <2>2. ~row[o].restocked
    BY <2>1 DEF Closed
  <2> QED
    BY <2>2 DEF Safe, StampMatchesStock
<1> QED
  BY <1>1, SafeAlways, PTL

(* With every handler under the row lock, a closed order stays closed: a   *)
(* late payment or courier report does not reopen it.                      *)
THEOREM ClosedIsFinal == ASSUME Protected PROVE Spec => ClosedStaysClosed
<1>1. Safe /\ [Next]_vars =>
        [\A o \in Orders : row[o].status \in Closed => row'[o].status = row[o].status]_vars
  BY SafeStep DEF Lawful
<1> QED
  BY <1>1, SafeAlways, PTL DEF Spec, ClosedStaysClosed

(* What a step can do to a row, a payment and a receipt other than through *)
(* a request's own commit.                                                 *)
LEMMA OtherSteps ==
    ASSUME Safe, [Next]_vars,
           \A s \in Sessions, ok \in BOOLEAN : ~update(s, ok)
    PROVE  /\ done' = done
           /\ \A p \in Orders : /\ row[p].pay = "paid" => row'[p].pay = "paid"
                                /\ row[p].cash /\ ~row'[p].cash =>
                                        mark_orders_cash_received(p, FALSE)
<1> DEFINE Fine == /\ done' = done
                   /\ \A p \in Orders : /\ row[p].pay = "paid" => row'[p].pay = "paid"
                                        /\ row[p].cash /\ ~row'[p].cash =>
                                                mark_orders_cash_received(p, FALSE)
<1> SUFFICES Fine
  OBVIOUS
<1>1. ASSUME row' = row, done' = done PROVE Fine
  BY <1>1
<1>2. ASSUME NEW o \in Orders, NEW received \in CashEdits,
             mark_orders_cash_received(o, received)
      PROVE  Fine
  <2>1. /\ \A p \in Orders : row'[p].pay = row[p].pay
        /\ \A p \in Orders \ {o} : row'[p] = row[p]
        /\ row'[o].cash = received
    BY <1>2, CashLawful
  <2>2. done' = done
    BY <1>2 DEF mark_orders_cash_received
  <2>3. ~row'[o].cash => mark_orders_cash_received(o, FALSE)
    <3> SUFFICES ASSUME ~row'[o].cash PROVE mark_orders_cash_received(o, FALSE)
      OBVIOUS
    <3>1. received = FALSE
      BY <2>1, OrderAssumption
    <3> QED
      BY <1>2, <3>1
  <2> QED
    BY <2>1, <2>2, <2>3
<1>3. ASSUME NEW failed \in SUBSET Orders, SweepCommits(failed) PROVE Fine
  <2>1. done' = done
    BY <1>3 DEF SweepCommits
  <2> QED
    BY <1>3, <2>1, SweepLawful
<1>4. CASE \E s \in Sessions, o \in Orders, job \in Jobs : get_by_id(s, job, o)
  BY <1>1, <1>4 DEF get_by_id
<1>5. CASE \E s \in Sessions : RequestFails(s) \/ OrderSyncFails(s)
  BY <1>1, <1>5 DEF RequestFails, OrderSyncFails
<1>6. CASE \E o \in Orders : WindowCloses(o)
  BY <1>1, <1>6 DEF WindowCloses
<1>7. CASE SweepScans \/ SweepFails
  BY <1>1, <1>7 DEF SweepScans, SweepFails
<1>8. CASE \E c \in Charges, o \in Orders, what \in Outcomes : GatewayReports(c, o, what)
  BY <1>1, <1>8 DEF GatewayReports
<1>9. CASE UNCHANGED vars
  BY <1>1, <1>9 DEF vars
<1> HIDE DEF Fine
<1> QED
  BY <1>2, <1>3, <1>4, <1>5, <1>6, <1>7, <1>8, <1>9 DEF Next

(* With every handler under the row lock, a recorded payment leaves an     *)
(* order only through a refund or a callback that was told it failed.      *)
THEOREM PaymentIsKept == ASSUME Protected PROVE Spec => PaymentNotOverwritten
<1> DEFINE Kept(o) == (row[o].pay = "paid" /\ row'[o].pay \notin {"paid", "refunded"}) =>
                        \E s \in Sessions : /\ session[s] # Idle /\ session'[s] = Idle
                                            /\ session[s].order = o
                                            /\ FailsPayment(session[s].job)
<1>1. ASSUME Safe, [Next]_vars, NEW o \in Orders PROVE Kept(o)
  <2>1. ASSUME NEW s \in Sessions, NEW ok \in BOOLEAN, update(s, ok) PROVE Kept(o)
    <3>1. /\ session[s] # Idle /\ session' = [session EXCEPT ![s] = Idle]
      BY <2>1 DEF update
    <3>2. session'[s] = Idle
      BY <1>1, <3>1 DEF Safe, TypeInv, TypeOK
    <3>3. /\ \A p \in Orders \ {session[s].order} : row'[p] = row[p]
          /\ (/\ row[session[s].order].pay = "paid"
              /\ row'[session[s].order].pay \notin {"paid", "refunded"}) =>
                FailsPayment(session[s].job)
      BY <1>1, <2>1, UpdateLawful
    <3> QED
      BY <1>1, <3>1, <3>2, <3>3
  <2>2. CASE \A s \in Sessions, ok \in BOOLEAN : ~update(s, ok)
    BY <1>1, <2>2, OtherSteps
  <2> QED
    BY <2>1, <2>2
<1>2. Safe /\ [Next]_vars => [\A o \in Orders : Kept(o)]_vars
  BY <1>1
<1> QED
  BY <1>2, SafeAlways, PTL DEF Spec, PaymentNotOverwritten

(* With every handler under the row lock, a success callback committed on  *)
(* a cancelled or refunded order leaves the flag the merchant acts on.     *)
THEOREM LateMoneyIsSeen == ASSUME Protected PROVE Spec => LateMoneyFlagged
<1> DEFINE Seen(o, c) == (c \in done' \ done /\ SuccessFor(c, o)
                            /\ row[o].status \in {"cancelled", "refunded"}) => row'[o].flagged
<1>1. ASSUME Safe, [Next]_vars, NEW o \in Orders, NEW c \in Charges PROVE Seen(o, c)
  <2> SUFFICES ASSUME c \in done' \ done, SuccessFor(c, o),
                      row[o].status \in {"cancelled", "refunded"}
               PROVE  row'[o].flagged
    OBVIOUS
  <2>1. PICK s \in Sessions, ok \in BOOLEAN : update(s, ok)
    BY <1>1, OtherSteps
  <2>2. /\ session[s] # Idle
        /\ done' = IF session[s].job.by = "gateway"
                   THEN done \cup {session[s].job.what} ELSE done
    BY <2>1 DEF update
  <2>3. session[s].job.by = "gateway" /\ session[s].job.what = c
    BY <2>2
  <2>4. session[s].order = o /\ charge[session[s].job.what].what = "success"
    BY <1>1, <2>2, <2>3 DEF Safe, TypeInv, GatewayOrders, SuccessFor
  <2>5. (/\ session[s].job.by = "gateway" /\ charge[session[s].job.what].what = "success"
         /\ row[session[s].order].status \in {"cancelled", "refunded"}) =>
            row'[session[s].order].flagged
    BY <1>1, <2>1, UpdateLawful
  <2> QED
    BY <2>3, <2>4, <2>5
<1>2. Safe /\ [Next]_vars => [\A o \in Orders, c \in Charges : Seen(o, c)]_vars
  BY <1>1
<1> QED
  BY <1>2, SafeAlways, PTL DEF Spec, LateMoneyFlagged

(* With every handler under the row lock, cash recorded as received is     *)
(* only taken back by the merchant's undo.                                 *)
THEOREM CashIsKept == ASSUME Protected PROVE Spec => CashReceiptKept
<1> DEFINE Kept(o) == (row[o].cash /\ ~row'[o].cash) => mark_orders_cash_received(o, FALSE)
<1>1. ASSUME Safe, [Next]_vars, NEW o \in Orders PROVE Kept(o)
  <2>1. ASSUME NEW s \in Sessions, NEW ok \in BOOLEAN, update(s, ok) PROVE Kept(o)
    BY <1>1, <2>1, UpdateLawful
  <2>2. CASE \A s \in Sessions, ok \in BOOLEAN : ~update(s, ok)
    BY <1>1, <2>2, OtherSteps
  <2> QED
    BY <2>1, <2>2
<1>2. Safe /\ [Next]_vars => [\A o \in Orders : Kept(o)]_vars
  BY <1>1
<1> QED
  BY <1>2, SafeAlways, PTL DEF Spec, CashReceiptKept

----------------------------------------------------------------------------
(* The serial configuration *)

(* One request at a time, by whoever and under no lock, and no sweep: what *)
(* is left to interleave with a request are the merchant's cash receipts.  *)
Serial == ~Sweeping /\ \A s, t \in Sessions : s = t

(* A request in flight still knows the status, the payment and the stamp   *)
(* of its order.  It may be behind in the cash receipt and the version.    *)
CopiesAgree ==
    \A s \in Sessions : session[s] # Idle =>
        LET e == session[s].copy
            r == row[session[s].order]
        IN  e.status = r.status /\ e.pay = r.pay /\ e.restocked = r.restocked

Alone == TypeInv /\ sweep = Idle /\ CopiesAgree /\ StampMatchesStock

(* What any handler may make of the copy it was given. *)
Keeps(e, f) ==
    /\ f.restocked = e.restocked
    /\ e.status \in Closed => f.status = e.status

(* The entity methods behind UpdateOrderStatusUseCase refuse a closed      *)
(* order, or leave its status alone.                                       *)
LEMMA MerchantKeeps ==
    ASSUME NEW e \in OrderRow, NEW to \in Statuses, MerchantAccepts(e, to)
    PROVE  LET f == MerchantUpdates(e, to) IN
           /\ Keeps(e, f)
           /\ e.pay = "paid" /\ f.pay \notin {"paid", "refunded"} => to = "payment_failed"
<1> DEFINE f == MerchantUpdates(e, to)
<1>1. CASE to = "payment_failed"
  <2>1. f = mark_payment_failed(e)
    BY <1>1 DEF MerchantUpdates
  <2> QED
    BY <1>1, <2>1, FailedTyped DEF Keeps
<1>2. CASE to = "refunded"
  <2>1. f = [transition_to(e, "refunded") EXCEPT !.pay = "refunded"]
    BY <1>2 DEF MerchantUpdates
  <2>2. e.status = "delivered"
    BY <1>2 DEF MerchantAccepts, can_be_refunded
  <2> QED
    BY <1>2, <2>1, <2>2, RefundedTyped DEF Keeps, Closed
<1>3. CASE to \in {"draft", "pending_deposit", "awaiting_payment", "pending"}
  <2>1. f = [e EXCEPT !.status = to]
    BY <1>3 DEF MerchantUpdates
  <2>2. e.status \notin Closed
    BY <1>3 DEF MerchantAccepts
  <2>3. f.restocked = e.restocked /\ f.pay = e.pay
    BY <2>1 DEF OrderRow
  <2> QED
    BY <2>2, <2>3 DEF Keeps
<1>4. CASE to \in {"confirmed", "processing", "shipped", "delivered", "cancelled", "returned"}
  <2>1. f = transition_to(e, to)
    BY <1>4 DEF MerchantUpdates
  <2>2. e.status \notin Closed
    BY <1>4 DEF MerchantAccepts, can_be_cancelled, Closed
  <2>3. f.restocked = e.restocked /\ (f.pay # e.pay => f.pay = "paid")
    BY <2>1, TransitionTyped
  <2> QED
    BY <2>2, <2>3 DEF Keeps
<1> QED
  BY <1>1, <1>2, <1>3, <1>4 DEF Statuses

LEMMA BookingKeeps ==
    ASSUME NEW e \in OrderRow, NEW answer \in Bookings
    PROVE  LET f == BookingUpdates(e, answer) IN Keeps(e, f) /\ f.pay = e.pay
BY DEF BookingUpdates, OrderRow, Keeps

(* The handler of a request in flight, whoever sent it and whatever it     *)
(* locks: no handler writes the stamp itself, reopens a closed order, drops *)
(* a payment it was not told to, or restocks without saving.               *)
LEMMA HandlerKeeps ==
    ASSUME TypeInv, NEW s \in Sessions, session[s] # Idle,
           Accepts(session[s].job, session[s].order, session[s].copy)
    PROVE  LET job == session[s].job
               e == session[s].copy
               f == Updates(job, session[s].order, e)
           IN  /\ Keeps(e, f)
               /\ AsksRestock(job, e) => Saves(job, e)
               /\ e.pay = "paid" /\ f.pay \notin {"paid", "refunded"} => FailsPayment(job)
               /\ (/\ job.by = "gateway" /\ charge[job.what].what = "success"
                   /\ e.status \in {"cancelled", "refunded"}) => f.flagged
<1> DEFINE job == session[s].job
           o == session[s].order
           e == session[s].copy
           f == Updates(job, o, e)
<1>1. TypeOK /\ GatewayOrders
  BY DEF TypeInv
<1>2. job \in Jobs /\ o \in Orders /\ e \in OrderRow
  BY <1>1, LoadedTyped
<1>3. AsksRestock(job, e) => Saves(job, e)
  BY <1>2, JobTyped DEF AsksRestock, Saves, can_be_cancelled
<1>4. CASE job.by = "merchant"
  <2>1. f = MerchantUpdates(e, job.what) /\ MerchantAccepts(e, job.what)
    BY <1>4 DEF Updates, Accepts
  <2>2. job.what \in Statuses
    BY <1>2, <1>4, JobTyped, OrderAssumption
  <2>3. job.what = "payment_failed" => FailsPayment(job)
    BY <1>4 DEF FailsPayment
  <2>4. /\ Keeps(e, f)
        /\ e.pay = "paid" /\ f.pay \notin {"paid", "refunded"} => job.what = "payment_failed"
    BY <1>2, <2>1, <2>2, MerchantKeeps
  <2> QED
    BY <1>3, <1>4, <2>3, <2>4
<1>5. CASE job.by = "gateway"
  <2> DEFINE outcome == charge[job.what].what
  <2>1. f = GatewayUpdates(e, outcome) /\ GatewayAccepts(e, outcome)
    BY <1>5 DEF Updates, Accepts
  <2>2. job.what \in Charges /\ charge[job.what].made
    BY <1>1, <1>2, <1>5, JobTyped DEF GatewayOrders
  <2>3. outcome \in Outcomes
    BY <1>1, <2>2, ChargeTyped
  <2>4. outcome = "decline" => FailsPayment(job)
    BY <1>5 DEF FailsPayment
  <2> HIDE DEF outcome
  <2>5. /\ Moves(e, f)
        /\ e.pay = "paid" /\ f.pay \notin {"paid", "refunded"} => outcome = "decline"
        /\ outcome = "success" /\ e.status \in {"cancelled", "refunded"} => f.flagged
    BY <1>2, <2>1, <2>3, GatewayMoves
  <2> QED
    BY <1>3, <2>4, <2>5 DEF Moves, Keeps, outcome
<1>6. CASE job.by = "courier"
  <2>1. f = CourierUpdates(e, job.what, parcel[o].cod)
    BY <1>6 DEF Updates
  <2>2. job.what \in CourierEvents /\ parcel[o].cod \in BOOLEAN
    BY <1>1, <1>2, <1>6, JobTyped DEF TypeOK
  <2>3. Moves(e, f) /\ (e.pay = "paid" => f.pay = "paid")
    BY <1>2, <2>1, <2>2, CourierMoves
  <2> QED
    BY <1>3, <1>6, <2>3 DEF Moves, Keeps
<1>7. CASE job.by = "booking"
  <2>1. f = BookingUpdates(e, job.what)
    BY <1>7 DEF Updates
  <2>2. job.what \in Bookings
    BY <1>2, <1>7, JobTyped
  <2>3. Keeps(e, f) /\ f.pay = e.pay
    BY <1>2, <2>1, <2>2, BookingKeeps
  <2> QED
    BY <1>3, <1>7, <2>3
<1> QED
  BY <1>2, <1>4, <1>5, <1>6, <1>7, JobTyped

(* What a step may do to an order and its stock when requests are serial.  *)
Orderly(o) ==
    /\ row[o].status \in Closed => row'[o].status = row[o].status
    /\ held'[o] - held[o] = (IF row[o].restocked THEN 1 ELSE 0)
                          - (IF row'[o].restocked THEN 1 ELSE 0)

LEMMA StillOrderly ==
    ASSUME TypeOK, NEW o \in Orders, row'[o] = row[o], held'[o] = held[o]
    PROVE  Orderly(o)
<1>1. held[o] \in Int
  BY DEF TypeOK
<1> QED
  BY <1>1 DEF Orderly

LEMMA UpdateOrderly ==
    ASSUME Alone, NEW s \in Sessions, NEW ok \in BOOLEAN, update(s, ok)
    PROVE  LET o == session[s].order
               job == session[s].job
           IN  /\ \A p \in Orders : Orderly(p)
               /\ \A p \in Orders \ {o} : row'[p] = row[p]
               /\ row[o].pay = "paid" /\ row'[o].pay \notin {"paid", "refunded"} =>
                    FailsPayment(job)
               /\ (/\ job.by = "gateway" /\ charge[job.what].what = "success"
                   /\ row[o].status \in {"cancelled", "refunded"}) => row'[o].flagged
<1> DEFINE job == session[s].job
           o == session[s].order
           e == session[s].copy
           f == Updates(job, o, e)
           gives == restock_order(e, AsksRestock(job, e), ok)
           w == Written(o, Restocked(f, gives))
<1>1. TypeInv /\ TypeOK
  BY DEF Alone, TypeInv
<1>2. session[s] # Idle /\ Accepts(job, o, e)
  BY DEF update
<1>3. /\ o \in Orders /\ e \in OrderRow
      /\ e.status = row[o].status /\ e.pay = row[o].pay /\ e.restocked = row[o].restocked
  BY <1>1, <1>2, LoadedTyped DEF Alone, CopiesAgree
<1>4. /\ row' = IF Saves(job, e) THEN [row EXCEPT ![o] = w] ELSE row
      /\ held' = [held EXCEPT ![o] = IF gives THEN held[o] - 1 ELSE held[o]]
  BY DEF update
<1>5. gives \in BOOLEAN /\ (gives => AsksRestock(job, e) /\ ~e.restocked)
  BY DEF restock_order
<1>6. /\ w.restocked = (f.restocked \/ gives)
      /\ w.status = f.status /\ w.pay = f.pay /\ w.flagged = f.flagged
  <2> HIDE DEF gives
  <2> QED
    BY <1>1, <1>2, <1>5, WrittenTyped
<1>7. /\ Keeps(e, f)
      /\ AsksRestock(job, e) => Saves(job, e)
      /\ e.pay = "paid" /\ f.pay \notin {"paid", "refunded"} => FailsPayment(job)
      /\ (/\ job.by = "gateway" /\ charge[job.what].what = "success"
          /\ e.status \in {"cancelled", "refunded"}) => f.flagged
  BY <1>1, <1>2, HandlerKeeps
<1>8. job.by = "gateway" /\ charge[job.what].what = "success" => Saves(job, e)
  BY DEF Saves
<1>9. /\ row \in [Orders -> OrderRow] /\ held \in [Orders -> Int]
      /\ e.restocked \in BOOLEAN
  BY <1>1, <1>3 DEF TypeOK, OrderRow
<1> HIDE DEF w, gives, f, e, o, job
<1>10. \A p \in Orders \ {o} : row'[p] = row[p] /\ Orderly(p)
  BY <1>1, <1>4, <1>9, StillOrderly
<1>11. CASE Saves(job, e)
  <2>1. row'[o] = w /\ held'[o] = IF gives THEN held[o] - 1 ELSE held[o]
    BY <1>3, <1>4, <1>9, <1>11
  <2>2. f.restocked = e.restocked /\ (e.status \in Closed => f.status = e.status)
    BY <1>7 DEF Keeps
  <2>3. w.restocked = (e.restocked \/ gives)
    BY <1>6, <2>2
  <2>4. held[o] \in Int
    BY <1>3, <1>9
  <2>5. held'[o] - held[o] = (IF row[o].restocked THEN 1 ELSE 0)
                           - (IF row'[o].restocked THEN 1 ELSE 0)
    BY <1>3, <1>5, <1>9, <2>1, <2>3, <2>4
  <2>6. Orderly(o)
    BY <1>3, <1>6, <2>1, <2>2, <2>5 DEF Orderly
  <2> QED
    BY <1>3, <1>6, <1>7, <1>10, <2>1, <2>6 DEF o, job
<1>12. CASE ~Saves(job, e)
  <2>1. row' = row /\ held' = held
    BY <1>3, <1>4, <1>5, <1>7, <1>9, <1>12
  <2>2. \A p \in Orders : Orderly(p)
    BY <1>1, <2>1, StillOrderly
  <2> QED
    BY <1>8, <1>12, <2>1, <2>2 DEF o, job
<1> QED
  BY <1>11, <1>12

(* A cash receipt touches nothing a request decides on. *)
LEMMA CashOrderly ==
    ASSUME Alone, NEW o \in Orders, NEW received \in CashEdits,
           mark_orders_cash_received(o, received)
    PROVE  \A p \in Orders :
            /\ Orderly(p)
            /\ row'[p].status = row[p].status
            /\ row'[p].pay = row[p].pay
            /\ row'[p].restocked = row[p].restocked
<1> DEFINE e == row[o]
           n == row[o].version + 1
           w == [e EXCEPT !.cash = received, !.version = n]
<1>1. row \in [Orders -> OrderRow] /\ e \in OrderRow /\ held \in [Orders -> Int] /\ TypeOK
  BY DEF Alone, TypeInv, TypeOK
<1>2. row' = [row EXCEPT ![o] = w] /\ held' = held
  BY TypeCash DEF Alone, mark_orders_cash_received
<1>3. n \in Nat /\ received \in BOOLEAN
  BY <1>1, OrderAssumption DEF OrderRow
<1> HIDE DEF n, e
<1>4. w.restocked = e.restocked /\ w.status = e.status /\ w.pay = e.pay
  BY <1>1, <1>3 DEF OrderRow
<1> HIDE DEF w
<1>5. row'[o] = w /\ \A p \in Orders \ {o} : row'[p] = row[p]
  BY <1>1, <1>2
<1>6. row'[o].restocked = row[o].restocked /\ row'[o].status = row[o].status
      /\ row'[o].pay = row[o].pay
  BY <1>4, <1>5 DEF e
<1>7. Orderly(o)
  <2>1. held[o] \in Int /\ held'[o] = held[o]
    BY <1>1, <1>2
  <2> QED
    BY <1>6, <2>1 DEF Orderly
<1>8. \A p \in Orders \ {o} : Orderly(p)
  BY <1>1, <1>2, <1>5, StillOrderly
<1> QED
  BY <1>5, <1>6, <1>7, <1>8

(* Requests that are left as they are keep agreeing with rows that move    *)
(* only in what a request does not decide on.                              *)
LEMMA StillAgree ==
    ASSUME Alone,
           \A t \in Sessions : session'[t] \in {Idle, session[t]},
           \A p \in Orders : /\ row'[p].status = row[p].status
                             /\ row'[p].pay = row[p].pay
                             /\ row'[p].restocked = row[p].restocked
    PROVE  CopiesAgree'
<1> SUFFICES ASSUME NEW s \in Sessions, session'[s] # Idle
             PROVE  LET e == session'[s].copy
                        r == row'[session'[s].order]
                    IN  e.status = r.status /\ e.pay = r.pay /\ e.restocked = r.restocked
  BY DEF CopiesAgree
<1>1. session'[s] = session[s] /\ session[s] # Idle
  OBVIOUS
<1>2. session[s].order \in Orders
  BY <1>1, LoadedTyped DEF Alone, TypeInv
<1> QED
  BY <1>1, <1>2 DEF Alone, CopiesAgree

(* Every step but a request's commit. *)
LEMMA OthersOrderly ==
    ASSUME Serial, Alone, [Next]_vars,
           \A s \in Sessions, ok \in BOOLEAN : ~update(s, ok)
    PROVE  /\ done' = done /\ sweep' = Idle /\ CopiesAgree'
           /\ \A p \in Orders : Orderly(p) /\ row'[p].pay = row[p].pay
<1> DEFINE Fine == /\ done' = done /\ sweep' = Idle /\ CopiesAgree'
                   /\ \A p \in Orders : Orderly(p) /\ row'[p].pay = row[p].pay
<1> SUFFICES Fine
  OBVIOUS
<1>1. TypeOK /\ sweep = Idle
  BY DEF Alone, TypeInv
<1>2. ASSUME UNCHANGED <<row, held, done, sweep>>,
             \A t \in Sessions : session'[t] \in {Idle, session[t]}
      PROVE  Fine
  BY <1>1, <1>2, StillOrderly, StillAgree
<1>3. ASSUME NEW s \in Sessions, NEW o \in Orders, NEW job \in Jobs, get_by_id(s, job, o)
      PROVE  Fine
  <2> DEFINE new == [pc |-> "loaded", job |-> job, order |-> o, copy |-> row[o]]
  <2>1. session' = [session EXCEPT ![s] = new] /\ UNCHANGED <<row, held, done, sweep>>
    BY <1>3 DEF get_by_id
  <2>2. \A t \in Sessions : session'[t] = new
    BY <1>1, <2>1 DEF Serial, TypeOK
  <2>3. new.order = o /\ new.copy = row[o]
    OBVIOUS
  <2> HIDE DEF new
  <2>4. CopiesAgree'
    BY <2>1, <2>2, <2>3 DEF CopiesAgree
  <2> QED
    BY <1>1, <2>1, <2>4, StillOrderly
<1>4. ASSUME NEW s \in Sessions, RequestFails(s) \/ OrderSyncFails(s) PROVE Fine
  <2>1. session' = [session EXCEPT ![s] = Idle] /\ UNCHANGED <<row, held, done, sweep>>
    BY <1>4 DEF RequestFails, OrderSyncFails
  <2>2. \A t \in Sessions : session'[t] \in {Idle, session[t]}
    BY <1>1, <2>1 DEF TypeOK
  <2> QED
    BY <1>2, <2>1, <2>2
<1>5. ASSUME NEW o \in Orders, NEW received \in CashEdits,
             mark_orders_cash_received(o, received)
      PROVE  Fine
  <2>1. UNCHANGED <<done, session, sweep>>
    BY <1>5 DEF mark_orders_cash_received
  <2> QED
    BY <1>1, <1>5, <2>1, CashOrderly, StillAgree
<1>6. CASE \E o \in Orders : WindowCloses(o)
  BY <1>2, <1>6 DEF WindowCloses
<1>7. ~SweepScans /\ ~SweepFails /\ \A failed \in SUBSET Orders : ~SweepCommits(failed)
  BY <1>1 DEF Serial, SweepScans, SweepFails, SweepCommits
<1>8. CASE \E c \in Charges, o \in Orders, what \in Outcomes : GatewayReports(c, o, what)
  BY <1>2, <1>8 DEF GatewayReports
<1>9. CASE UNCHANGED vars
  BY <1>2, <1>9 DEF vars
<1> HIDE DEF Fine
<1> QED
  BY <1>3, <1>4, <1>5, <1>6, <1>7, <1>8, <1>9 DEF Next

LEMMA AloneStep ==
    ASSUME Serial, Alone, [Next]_vars
    PROVE  sweep' = Idle /\ CopiesAgree' /\ \A p \in Orders : Orderly(p)
<1>1. ASSUME NEW s \in Sessions, NEW ok \in BOOLEAN, update(s, ok)
      PROVE  sweep' = Idle /\ CopiesAgree' /\ \A p \in Orders : Orderly(p)
  <2>1. session' = [session EXCEPT ![s] = Idle] /\ sweep' = sweep
    BY <1>1 DEF update
  <2>2. \A t \in Sessions : session'[t] = Idle
    BY <2>1 DEF Serial, Alone, TypeInv, TypeOK
  <2>3. CopiesAgree'
    BY <2>2 DEF CopiesAgree
  <2>4. \A p \in Orders : Orderly(p)
    BY <1>1, UpdateOrderly
  <2> QED
    BY <2>1, <2>3, <2>4 DEF Alone
<1>2. CASE \A s \in Sessions, ok \in BOOLEAN : ~update(s, ok)
  BY <1>2, OthersOrderly
<1> QED
  BY <1>1, <1>2

LEMMA AloneAlways == ASSUME Serial PROVE Spec => []Alone
<1>1. Init => Alone
  <2>1. Init => Safe /\ sweep = Idle /\ \A s \in Sessions : session[s] = Idle
    BY SafeInit DEF Init
  <2> QED
    BY <2>1 DEF Safe, Alone, CopiesAgree
<1>2. Alone /\ [Next]_vars => Alone'
  <2> SUFFICES ASSUME Alone, [Next]_vars PROVE Alone'
    OBVIOUS
  <2>1. sweep' = Idle /\ CopiesAgree' /\ \A p \in Orders : Orderly(p)
    BY AloneStep
  <2>2. TypeInv'
    BY TypeNext DEF Alone
  <2>3. StampMatchesStock'
    <3> SUFFICES ASSUME NEW o \in Orders
                 PROVE  held'[o] = IF row'[o].restocked THEN 0 ELSE 1
      BY DEF StampMatchesStock
    <3>1. Orderly(o) /\ held[o] = IF row[o].restocked THEN 0 ELSE 1
      BY <2>1 DEF Alone, StampMatchesStock
    <3>2. held'[o] \in Int
      BY <2>2 DEF TypeInv, TypeOK
    <3> QED
      BY <3>1, <3>2 DEF Orderly
  <2> QED
    BY <2>1, <2>2, <2>3 DEF Alone
<1> QED
  BY <1>1, <1>2, PTL DEF Spec

(* With one request at a time, and no lock at all, the stamp tells the     *)
(* truth for everything merchant, gateway, courier and booking can ask     *)
(* for: what the locks are needed for is concurrency alone.                *)
THEOREM StampIsTrueAlone == ASSUME Serial PROVE Spec => []StampMatchesStock
<1>1. Alone => StampMatchesStock
  BY DEF Alone
<1> QED
  BY <1>1, AloneAlways, PTL

(* With one request at a time no merchant request, callback or booking     *)
(* reopens a closed order, although most of the statuses a merchant can    *)
(* ask for have no guard of their own.                                     *)
THEOREM ClosedIsFinalAlone == ASSUME Serial PROVE Spec => ClosedStaysClosed
<1>1. Alone /\ [Next]_vars =>
        [\A o \in Orders : row[o].status \in Closed => row'[o].status = row[o].status]_vars
  BY AloneStep DEF Orderly
<1> QED
  BY <1>1, AloneAlways, PTL DEF Spec, ClosedStaysClosed

(* With one request at a time a recorded payment leaves an order only      *)
(* through a refund or a request that was told it failed.                  *)
THEOREM PaymentIsKeptAlone == ASSUME Serial PROVE Spec => PaymentNotOverwritten
<1> DEFINE Kept(o) == (row[o].pay = "paid" /\ row'[o].pay \notin {"paid", "refunded"}) =>
                        \E s \in Sessions : /\ session[s] # Idle /\ session'[s] = Idle
                                            /\ session[s].order = o
                                            /\ FailsPayment(session[s].job)
<1>1. ASSUME Alone, [Next]_vars, NEW o \in Orders PROVE Kept(o)
  <2>1. ASSUME NEW s \in Sessions, NEW ok \in BOOLEAN, update(s, ok) PROVE Kept(o)
    <3>1. /\ session[s] # Idle /\ session' = [session EXCEPT ![s] = Idle]
      BY <2>1 DEF update
    <3>2. session'[s] = Idle
      BY <1>1, <3>1 DEF Alone, TypeInv, TypeOK
    <3>3. /\ \A p \in Orders \ {session[s].order} : row'[p] = row[p]
          /\ (/\ row[session[s].order].pay = "paid"
              /\ row'[session[s].order].pay \notin {"paid", "refunded"}) =>
                FailsPayment(session[s].job)
      BY <1>1, <2>1, UpdateOrderly
    <3> QED
      BY <1>1, <3>1, <3>2, <3>3
  <2>2. CASE \A s \in Sessions, ok \in BOOLEAN : ~update(s, ok)
    BY <1>1, <2>2, OthersOrderly
  <2> QED
    BY <2>1, <2>2
<1>2. Alone /\ [Next]_vars => [\A o \in Orders : Kept(o)]_vars
  BY <1>1
<1> QED
  BY <1>2, AloneAlways, PTL DEF Spec, PaymentNotOverwritten

(* With one request at a time late money on a cancelled or refunded order  *)
(* leaves the flag the merchant acts on.                                   *)
THEOREM LateMoneyIsSeenAlone == ASSUME Serial PROVE Spec => LateMoneyFlagged
<1> DEFINE Seen(o, c) == (c \in done' \ done /\ SuccessFor(c, o)
                            /\ row[o].status \in {"cancelled", "refunded"}) => row'[o].flagged
<1>1. ASSUME Alone, [Next]_vars, NEW o \in Orders, NEW c \in Charges PROVE Seen(o, c)
  <2> SUFFICES ASSUME c \in done' \ done, SuccessFor(c, o),
                      row[o].status \in {"cancelled", "refunded"}
               PROVE  row'[o].flagged
    OBVIOUS
  <2>1. PICK s \in Sessions, ok \in BOOLEAN : update(s, ok)
    BY <1>1, OthersOrderly
  <2>2. /\ session[s] # Idle
        /\ done' = IF session[s].job.by = "gateway"
                   THEN done \cup {session[s].job.what} ELSE done
    BY <2>1 DEF update
  <2>3. session[s].job.by = "gateway" /\ session[s].job.what = c
    BY <2>2
  <2>4. session[s].order = o /\ charge[session[s].job.what].what = "success"
    BY <1>1, <2>2, <2>3 DEF Alone, TypeInv, GatewayOrders, SuccessFor
  <2>5. (/\ session[s].job.by = "gateway" /\ charge[session[s].job.what].what = "success"
         /\ row[session[s].order].status \in {"cancelled", "refunded"}) =>
            row'[session[s].order].flagged
    BY <1>1, <2>1, UpdateOrderly
  <2> QED
    BY <2>3, <2>4, <2>5
<1>2. Alone /\ [Next]_vars => [\A o \in Orders, c \in Charges : Seen(o, c)]_vars
  BY <1>1
<1> QED
  BY <1>2, AloneAlways, PTL DEF Spec, LateMoneyFlagged

=============================================================================
