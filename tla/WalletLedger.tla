---------------------------- MODULE WalletLedger ----------------------------
(***************************************************************************)
(* The wallet ledger of one pay-as-you-go tenant and everything that       *)
(* writes it: the commission handler on OrderPaidEvent, the nightly        *)
(* reconciliation task, administrator adjustments and settled top-ups.     *)
(*                                                                         *)
(* WalletService.apply_entry locks the wallet row, but the row object it   *)
(* computes the new balance from is the session's own copy.  A session     *)
(* that read the wallet before (without a lock) and still holds the object *)
(* gets that copy back: SQLAlchemy does not overwrite loaded attributes    *)
(* unless populate_existing is asked for.  So the handler and pass 1 of    *)
(* the reconciliation carry the balance, status and ladder position they   *)
(* first read, while adjustments and top-ups read under the lock.          *)
(* UPDATE writes only the columns a session changed.                       *)
(***************************************************************************)
EXTENDS Wallet, FiniteSets, Functions

CONSTANTS
    Orders,         \* cash-on-delivery orders of the tenant
    Credits,        \* top-ups and adjustments, each applied at most once
    CreditAmount,   \* signed amount of each of them
    Handlers,       \* concurrent commission handlers
    CollectedFee,   \* commission on what the merchant collected (0: no FX
                    \* rate, or rounded down to nothing)
    TotalFee,       \* commission on the order total
    InitialBalance,
    MaxConfigEdits  \* bound: administrator changes of the wallet status

ASSUME LedgerAssumption ==
    /\ IsFiniteSet(Orders)
    /\ Orders \cap Credits = {}
    /\ CreditAmount \in [Credits -> Int \ {0}]
    /\ CollectedFee \in [Orders -> Nat]
    /\ TotalFee \in [Orders -> Nat]
    /\ InitialBalance \in Int
    /\ MaxConfigEdits \in Nat

VARIABLES
    wallet,   \* the merchant_wallets row
    ledger,   \* wallet_transactions: commissions by order, credits by key
    sold,     \* paid orders, and whether paid_at is within LOOKBACK_DAYS
    placed,   \* age of each order against the presumed-sold window
    closed,   \* orders cancelled, or returned other than by auto-RTO
    handler,  \* commission handlers in flight
    recon,    \* the reconciliation task
    edits

orderVars == <<sold, placed, closed>>
vars == <<wallet, ledger, sold, placed, closed, handler, recon, edits>>

Idle == [pc |-> "idle"]

(* What a session keeps of the wallet row it read without a lock. *)
Snapshot == [balance : Int, status : WalletStatus, warned : 0..3]
Read == [balance |-> wallet.balance, status |-> wallet.status,
         warned |-> wallet.warned]

LedgerRow == [kind : {"commission"}, ref : Orders, amount : Int]
        \cup [kind : {"credit"}, ref : Credits, amount : Int]

ReconState == {Idle}
         \cup [pc : {"read"}, snap : Snapshot, missed : SUBSET Orders]
         \cup [pc : {"swept"}, view : Int]
         \cup [pc : {"drift"}, view : Int, sum : Int]

(* Every row and every session in flight is well formed. *)
TypeOK ==
    /\ wallet \in WalletRow
    /\ ledger \subseteq LedgerRow
    /\ sold \in [Orders -> {"no", "recent", "past"}]
    /\ placed \in [Orders -> {"fresh", "presumable", "past"}]
    /\ closed \subseteq Orders
    /\ handler \in [Handlers ->
            {Idle} \cup [pc : {"read"}, order : Orders, snap : Snapshot]]
    /\ recon \in ReconState
    /\ edits \in 0..MaxConfigEdits

Init ==
    /\ wallet = [balance |-> InitialBalance, hold |-> 0, status |-> "active",
                 warned |-> warning_level_for(InitialBalance)]
    /\ ledger = {}
    /\ sold = [o \in Orders |-> "no"]
    /\ placed = [o \in Orders |-> "fresh"]
    /\ closed = {}
    /\ handler = [h \in Handlers |-> Idle]
    /\ recon = Idle
    /\ edits = 0

----------------------------------------------------------------------------
(* The ledger *)

(* The partial unique index on (order_id) of kind commission. *)
Charged(o) == \E row \in ledger : row.kind = "commission" /\ row.ref = o

(* The unique idempotency key of a credit. *)
Applied(k) == \E row \in ledger : row.kind = "credit" /\ row.ref = k

CommissionRow(o, fee) == [kind |-> "commission", ref |-> o, amount |-> -fee]

LedgerSum ==
    InitialBalance + SumFunction([row \in ledger |-> row.amount])

----------------------------------------------------------------------------
(* The life of an order, as far as commissions are concerned (external). *)

OrderPaid(o) ==
    /\ sold[o] = "no" /\ o \notin closed
    /\ sold' = [sold EXCEPT ![o] = "recent"]
    /\ UNCHANGED <<wallet, ledger, placed, closed, handler, recon, edits>>

OrderCloses(o) ==
    /\ sold[o] = "no" /\ o \notin closed
    /\ closed' = closed \cup {o}
    /\ UNCHANGED <<wallet, ledger, sold, placed, handler, recon, edits>>

(* LOOKBACK_DAYS have passed since paid_at. *)
LookbackCloses(o) ==
    /\ sold[o] = "recent"
    /\ sold' = [sold EXCEPT ![o] = "past"]
    /\ UNCHANGED <<wallet, ledger, placed, closed, handler, recon, edits>>

(* created_at enters, then leaves, the presumed-sold window. *)
OrderAges(o) ==
    /\ placed[o] # "past"
    /\ placed' = [placed EXCEPT ![o] =
                    IF @ = "fresh" THEN "presumable" ELSE "past"]
    /\ UNCHANGED <<wallet, ledger, sold, closed, handler, recon, edits>>

----------------------------------------------------------------------------
(* handle_commission_charge_on_order_paid.  The event may be lost with the *)
(* worker, and may be delivered more than once.                            *)

HandlerReads(h, o) ==
    /\ handler[h] = Idle
    /\ sold[o] # "no"
    /\ wallet.status # "exempt" /\ CollectedFee[o] > 0
    /\ handler' = [handler EXCEPT ![h] = [pc |-> "read", order |-> o, snap |-> Read]]
    /\ UNCHANGED <<wallet, ledger, orderVars, recon, edits>>

(* Fault: the level may run past the top of the ladder. *)
LadderOverrun(snap, balance) ==
    LET level == warning_level_for(balance)
    IN  IF level > snap.warned THEN level + 1 ELSE wallet.warned

(* bump_warning_level on the session's copy; a column it leaves alone is   *)
(* not written.                                                            *)
LadderAfter(snap, balance) ==
    LET level == warning_level_for(balance)
    IN  IF level > snap.warned \/ (level = 0 /\ snap.warned # 0)
        THEN level
        ELSE wallet.warned

(* Fault: the unique index covers the order and the amount. *)
HandlerChargesAgain(h) ==
    LET o == handler[h].order
        snap == handler[h].snap
        balance == snap.balance - CollectedFee[o]
    IN  /\ handler[h].pc = "read"
        /\ snap.status # "suspended"
        /\ CommissionRow(o, CollectedFee[o]) \notin ledger
        /\ ledger' = ledger \cup {CommissionRow(o, CollectedFee[o])}
        /\ wallet' = [wallet EXCEPT !.balance = balance,
                                    !.warned = LadderAfter(snap, balance)]
        /\ handler' = [handler EXCEPT ![h] = Idle]
        /\ UNCHANGED <<orderVars, recon, edits>>

HandlerCharges(h) ==
    LET o == handler[h].order
        snap == handler[h].snap
        balance == snap.balance - CollectedFee[o]
    IN  /\ handler[h].pc = "read"
        /\ snap.status # "suspended" /\ ~Charged(o)
        /\ ledger' = ledger \cup {CommissionRow(o, CollectedFee[o])}
        /\ wallet' = [wallet EXCEPT !.balance = balance,
                                    !.warned = LadderAfter(snap, balance)]
        /\ handler' = [handler EXCEPT ![h] = Idle]
        /\ UNCHANGED <<orderVars, recon, edits>>

(* Already charged, WalletSuspendedError, or the worker died: no write. *)
HandlerGivesUp(h) ==
    /\ handler[h] # Idle
    /\ handler' = [handler EXCEPT ![h] = Idle]
    /\ UNCHANGED <<wallet, ledger, orderVars, recon, edits>>

----------------------------------------------------------------------------
(* wallet_commission_reconciliation_task, pass 1: missed commissions. *)

(* Fault: only the presumed-sold query is left. *)
MissedPresumedOnly == {o \in Orders :
              /\ ~Charged(o)
              /\ placed[o] = "presumable" /\ o \notin closed}

Missed == {o \in Orders :
              /\ ~Charged(o)
              /\ \/ sold[o] = "recent"
                 \/ placed[o] = "presumable" /\ o \notin closed}

ReconReads ==
    /\ recon = Idle
    /\ recon' = IF wallet.status = "exempt"
                THEN [pc |-> "swept", view |-> wallet.balance]
                ELSE [pc |-> "read", snap |-> Read, missed |-> Missed]
    /\ UNCHANGED <<wallet, ledger, orderVars, handler, edits>>

(* The wallet stays locked from the first entry to the commit, so the      *)
(* loop over the missed orders is one step.  It does not touch the ladder. *)
ReconCharges ==
    LET due == {o \in recon.missed : TotalFee[o] > 0 /\ ~Charged(o)}
        view == recon.snap.balance - SumFunctionOnSet(TotalFee, due)
    IN  /\ recon.pc = "read"
        /\ IF recon.snap.status = "suspended" \/ due = {}
           THEN /\ UNCHANGED <<wallet, ledger>>
                /\ recon' = [pc |-> "swept", view |-> recon.snap.balance]
           ELSE /\ ledger' = ledger \cup {CommissionRow(o, TotalFee[o]) : o \in due}
                /\ wallet' = [wallet EXCEPT !.balance = view]
                /\ recon' = [pc |-> "swept", view |-> view]
        /\ UNCHANGED <<orderVars, handler, edits>>

(* Pass 2: the drift query reads committed columns, without a lock. *)
ReconScans ==
    /\ recon.pc = "swept"
    /\ recon' = IF wallet.balance = LedgerSum
                THEN Idle
                ELSE [pc |-> "drift", view |-> recon.view, sum |-> LedgerSum]
    /\ UNCHANGED <<wallet, ledger, orderVars, handler, edits>>

(* Fault: the healed balance is the one pass 1 left behind. *)
ReconHealsToView(held) ==
    /\ recon.pc = "drift"
    /\ wallet' = [wallet EXCEPT !.balance = recon.view]
    /\ recon' = Idle
    /\ UNCHANGED <<ledger, orderVars, handler, edits>>

(* The session may still hold the object pass 1 used; if that copy already *)
(* shows the sum, assigning it is no change and no UPDATE is sent.         *)
ReconHeals(held) ==
    /\ recon.pc = "drift"
    /\ wallet' = IF held /\ recon.view = recon.sum
                 THEN wallet
                 ELSE [wallet EXCEPT !.balance = recon.sum]
    /\ recon' = Idle
    /\ UNCHANGED <<ledger, orderVars, handler, edits>>

(* The task dies; beat starts a new one the next night. *)
ReconDies ==
    /\ recon # Idle
    /\ recon' = Idle
    /\ UNCHANGED <<wallet, ledger, orderVars, handler, edits>>

----------------------------------------------------------------------------
(* credit_topup_intent and adjust_wallet: the first read is the lock. *)

(* Fault: the ledger row is written but the balance is not moved. *)
CreditWithoutBalance(k) ==
    /\ wallet.status # "suspended" /\ ~Applied(k)
    /\ ledger' = ledger \cup {[kind |-> "credit", ref |-> k,
                               amount |-> CreditAmount[k]]}
    /\ wallet' = bump_warning_level(wallet)
    /\ UNCHANGED <<orderVars, handler, recon, edits>>

CreditApplied(k) ==
    /\ wallet.status # "suspended" /\ ~Applied(k)
    /\ ledger' = ledger \cup {[kind |-> "credit", ref |-> k,
                               amount |-> CreditAmount[k]]}
    /\ wallet' = bump_warning_level([wallet EXCEPT !.balance = @ + CreditAmount[k]])
    /\ UNCHANGED <<orderVars, handler, recon, edits>>

update_wallet_config(status) ==
    /\ edits < MaxConfigEdits
    /\ status # wallet.status
    /\ wallet' = [wallet EXCEPT !.status = status]
    /\ edits' = edits + 1
    /\ UNCHANGED <<ledger, orderVars, handler, recon>>

----------------------------------------------------------------------------
Next ==
    \/ \E o \in Orders : OrderPaid(o)
    \/ \E o \in Orders : OrderCloses(o)
    \/ \E o \in Orders : LookbackCloses(o)
    \/ \E o \in Orders : OrderAges(o)
    \/ \E h \in Handlers, o \in Orders : HandlerReads(h, o)
    \/ \E h \in Handlers : HandlerCharges(h)
    \/ \E h \in Handlers : HandlerGivesUp(h)
    \/ ReconReads
    \/ ReconCharges
    \/ ReconScans
    \/ \E held \in BOOLEAN : ReconHeals(held)
    \/ ReconDies
    \/ \E k \in Credits : CreditApplied(k)
    \/ \E status \in WalletStatus : update_wallet_config(status)

Spec == Init /\ [][Next]_vars

(* Beat starts the task every night and not every run of it dies. *)
Fairness ==
    /\ SF_vars(ReconReads)
    /\ SF_vars(ReconCharges)
    /\ SF_vars(ReconScans)
    /\ SF_vars(\E held \in BOOLEAN : ReconHeals(held))

FairSpec == Spec /\ Fairness

----------------------------------------------------------------------------
(* Properties *)

(* An order is charged commission at most once, whether the live handler,  *)
(* a redelivered event, the missed-commission sweep or the presumed-sold   *)
(* sweep gets to it first.                                                 *)
OneCommissionPerOrder ==
    \A row1, row2 \in ledger :
        row1.kind = "commission" /\ row2.kind = "commission"
        /\ row1.ref = row2.ref => row1 = row2

Balanced == wallet.balance = LedgerSum

(* The ledger is authoritative: however often concurrent writers make the  *)
(* stored balance drift, the nightly pass 2 brings it back for good.       *)
DriftHeals == <>[]Balanced

(* The session that moves on in this step, a handler, pass 1 or the drift  *)
(* row of pass 2, does so from an outdated copy.                           *)
StaleWriter ==
    \/ \E h \in Handlers : /\ handler[h] # Idle /\ handler'[h] = Idle
                           /\ handler[h].snap.balance # wallet.balance
    \/ recon.pc = "read" /\ recon' # recon /\ recon.snap.balance # wallet.balance
    \/ recon.pc = "drift" /\ recon' # recon /\ recon.sum # LedgerSum

(* The stored balance leaves the ledger sum only in a step of a session    *)
(* that holds an outdated copy: who reads under the row lock never causes  *)
(* drift, whatever the others hold.                                        *)
DriftNeedsStaleCopy ==
    [][(Balanced /\ ~Balanced') => StaleWriter]_vars

ChargeableOrder(o) == CollectedFee[o] > 0 /\ TotalFee[o] > 0

(* A lost OrderPaidEvent is made good: a paid order is charged by some     *)
(* nightly run within LOOKBACK_DAYS, unless that window closes first, as   *)
(* long as the wallet does not stay suspended or exempt.                   *)
PaidIsCharged ==
    <>[](wallet.status = "active") =>
        \A o \in Orders :
            (ChargeableOrder(o) /\ sold[o] = "recent")
                ~> (Charged(o) \/ sold[o] = "past")

(* The wallet row lock serializes the writers of a tenant, so the stored   *)
(* balance is always the ledger sum.                                       *)
BalanceMatchesLedger == Balanced

(* Commission is charged on what the merchant actually collected.          *)
CommissionOnCollected ==
    \A row \in ledger : row.kind = "commission" => row.amount = -CollectedFee[row.ref]

=============================================================================
