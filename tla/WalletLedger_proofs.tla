------------------------ MODULE WalletLedger_proofs ------------------------
(***************************************************************************)
(* Three results for every number of orders, handlers and credits.         *)
(*                                                                         *)
(* One commission per order: the invariant is inductive as it stands.  The *)
(* live handler adds a row only for an order without one, and the          *)
(* reconciliation's batch adds at most one row for each order without one. *)
(* Neither step depends on the balance the session computed, however       *)
(* outdated it is.                                                         *)
(*                                                                         *)
(* Type correctness: with the ledger finite, so that its sum is a number.  *)
(*                                                                         *)
(* Drift: every writer moves the stored balance and the ledger sum by the  *)
(* same amount from the balance it has read, so a step that separates them *)
(* is a step of a session whose copy was already outdated.                 *)
(***************************************************************************)
EXTENDS WalletLedger, SumTheorems, TLAPS

(* A row of the batch or of a handler is the commission of its order. *)
LEMMA CommissionRowFields ==
    ASSUME NEW o, NEW fee
    PROVE  /\ CommissionRow(o, fee).kind = "commission"
           /\ CommissionRow(o, fee).ref = o
BY DEF CommissionRow

(* Adding rows for uncharged orders, one for each, keeps the invariant. *)
LEMMA ChargeUncharged ==
    ASSUME OneCommissionPerOrder,
           NEW due, NEW Fee,
           \A o \in due : ~Charged(o),
           ledger' = ledger \cup {CommissionRow(o, Fee[o]) : o \in due}
    PROVE  OneCommissionPerOrder'
<1> SUFFICES ASSUME NEW row1 \in ledger', NEW row2 \in ledger',
                    row1.kind = "commission", row2.kind = "commission",
                    row1.ref = row2.ref
             PROVE  row1 = row2
    BY DEF OneCommissionPerOrder
<1>1. ASSUME NEW row \in ledger', row.kind = "commission", row \notin ledger
      PROVE  row.ref \in due /\ row = CommissionRow(row.ref, Fee[row.ref])
    BY <1>1, CommissionRowFields
<1>2. ASSUME NEW row \in ledger, row.kind = "commission"
      PROVE  row.ref \notin due
    BY <1>2 DEF Charged
<1>3. CASE row1 \in ledger /\ row2 \in ledger
    BY <1>3 DEF OneCommissionPerOrder
<1>4. CASE row1 \notin ledger /\ row2 \notin ledger
    BY <1>4, <1>1
<1>5. CASE row1 \in ledger /\ row2 \notin ledger
    BY <1>5, <1>1, <1>2
<1>6. CASE row1 \notin ledger /\ row2 \in ledger
    BY <1>6, <1>1, <1>2
<1> QED BY <1>3, <1>4, <1>5, <1>6

(* No step charges an order twice. *)
LEMMA NextKeepsOneCommission == OneCommissionPerOrder /\ [Next]_vars => OneCommissionPerOrder'
<1> SUFFICES ASSUME OneCommissionPerOrder, [Next]_vars
             PROVE  OneCommissionPerOrder'
    OBVIOUS
<1>1. CASE ledger' = ledger
    BY <1>1 DEF OneCommissionPerOrder
<1>2. ASSUME NEW h \in Handlers, HandlerCharges(h)
      PROVE  OneCommissionPerOrder'
  <2> DEFINE o == handler[h].order
  <2>1. ~Charged(o) /\ ledger' = ledger \cup {CommissionRow(o, CollectedFee[o])}
      BY <1>2 DEF HandlerCharges
  <2> DEFINE due == {o}
  <2>2. \A p \in due : ~Charged(p)
      BY <2>1
  <2>3. ledger' = ledger \cup {CommissionRow(p, CollectedFee[p]) : p \in due}
      BY <2>1
  <2> HIDE DEF due
  <2> QED BY <2>2, <2>3, ChargeUncharged
<1>3. ASSUME ReconCharges
      PROVE  OneCommissionPerOrder'
  <2> DEFINE due == {o \in recon.missed : TotalFee[o] > 0 /\ ~Charged(o)}
  <2>1. CASE ledger' = ledger
      BY <2>1 DEF OneCommissionPerOrder
  <2>2. CASE ledger' = ledger \cup {CommissionRow(o, TotalFee[o]) : o \in due}
    <3>1. \A o \in due : ~Charged(o)
        OBVIOUS
    <3> HIDE DEF due
    <3> QED BY <2>2, <3>1, ChargeUncharged
  <2> QED BY <1>3, <2>1, <2>2 DEF ReconCharges
<1>4. ASSUME NEW k \in Credits, CreditApplied(k)
      PROVE  OneCommissionPerOrder'
    BY <1>4 DEF CreditApplied, OneCommissionPerOrder
<1>5. CASE UNCHANGED vars
    BY <1>5, <1>1 DEF vars
<1>6. CASE Next
    BY <1>6, <1>1, <1>2, <1>3, <1>4
    DEF Next, OrderPaid, OrderCloses, LookbackCloses, OrderAges, HandlerReads,
        HandlerGivesUp, ReconReads, ReconScans, ReconHeals, ReconDies,
        update_wallet_config
<1> QED BY <1>5, <1>6

(* An order is charged commission at most once, whether the live handler,  *)
(* a repeated OrderPaidEvent or either query of the nightly reconciliation *)
(* gets to it first: the partial unique index decides, not the copies.     *)
THEOREM OneCommissionOnly == Spec => []OneCommissionPerOrder
<1>1. Init => OneCommissionPerOrder
    BY DEF Init, OneCommissionPerOrder
<1> QED BY <1>1, NextKeepsOneCommission, PTL DEF Spec

----------------------------------------------------------------------------
(* The ledger as a sum.  RowAmount does not depend on the ledger, so that a *)
(* row may be added to the set that is summed over.                         *)

RowAmount == [row \in LedgerRow |-> row.amount]

LEMMA RowAmountType == \A row \in LedgerRow : RowAmount[row] = row.amount /\ row.amount \in Int
    BY DEF RowAmount, LedgerRow

(* The ledger sum is the initial balance and the sum of the rows' amounts.  *)
LEMMA LedgerSumOfRows ==
    ASSUME NEW L \in SUBSET LedgerRow, IsFiniteSet(L)
    PROVE  /\ SumFunction([row \in L |-> row.amount]) = SumFunctionOnSet(RowAmount, L)
           /\ SumFunctionOnSet(RowAmount, L) \in Int
<1> DEFINE f == [row \in L |-> row.amount]
<1>1. DOMAIN f = L
    OBVIOUS
<1>2. \A row \in L : f[row] = RowAmount[row] /\ RowAmount[row] \in Int
    BY RowAmountType
<1> HIDE DEF f
<1>3. SumFunctionOnSet(f, L) = SumFunctionOnSet(RowAmount, L)
    BY <1>2, SumSame
<1>4. SumFunction(f) = SumFunctionOnSet(RowAmount, L)
    BY <1>1, <1>3 DEF SumFunction
<1>5. SumFunctionOnSet(RowAmount, L) \in Int
    BY <1>2, SumInt
<1> QED
    BY <1>4, <1>5 DEF f

(* A new row adds its amount to any finite set of rows.                     *)
LEMMA RowAdded ==
    ASSUME NEW L \in SUBSET LedgerRow, IsFiniteSet(L), NEW row \in LedgerRow, row \notin L
    PROVE  /\ L \cup {row} \in SUBSET LedgerRow
           /\ IsFiniteSet(L \cup {row})
           /\ SumFunctionOnSet(RowAmount, L \cup {row})
                    = row.amount + SumFunctionOnSet(RowAmount, L)
<1>1. \A x \in L \cup {row} : RowAmount[x] \in Int
    BY RowAmountType
<1>2. SumFunctionOnSet(RowAmount, L \cup {row}) = RowAmount[row] + SumFunctionOnSet(RowAmount, L)
    BY <1>1, SumAdd
<1> QED
    BY <1>2, RowAmountType, FS_AddElement

(* The rows of a batch of commissions.                                      *)
BatchRows(Fee, S) == {CommissionRow(o, Fee[o]) : o \in S}

(* A commission is a ledger row of its order.                               *)
LEMMA CommissionRowType ==
    ASSUME NEW o \in Orders, NEW fee \in Nat
    PROVE  CommissionRow(o, fee) \in LedgerRow /\ CommissionRow(o, fee).amount = -fee
<1>1. -fee \in Int
    OBVIOUS
<1> QED
    BY <1>1 DEF CommissionRow, LedgerRow

(* Charging a finite set of uncharged orders lowers the sum by their fees:  *)
(* the rows of two orders differ, and none of them was there before.        *)
LEMMA BatchAdded ==
    ASSUME NEW L \in SUBSET LedgerRow, IsFiniteSet(L), NEW Fee \in [Orders -> Nat],
           NEW D \in SUBSET Orders, IsFiniteSet(D),
           \A o \in D : \A row \in L : ~(row.kind = "commission" /\ row.ref = o)
    PROVE  /\ L \cup BatchRows(Fee, D) \in SUBSET LedgerRow
           /\ IsFiniteSet(L \cup BatchRows(Fee, D))
           /\ SumFunctionOnSet(RowAmount, L \cup BatchRows(Fee, D))
                    = SumFunctionOnSet(RowAmount, L) - SumFunctionOnSet(Fee, D)
<1> DEFINE After(S) == L \cup BatchRows(Fee, S)
           Good(S) == /\ After(S) \in SUBSET LedgerRow
                      /\ IsFiniteSet(After(S))
                      /\ SumFunctionOnSet(RowAmount, After(S))
                            = SumFunctionOnSet(RowAmount, L) - SumFunctionOnSet(Fee, S)
           B == {S \in SUBSET D : ~Good(S)}
<1> SUFFICES ASSUME B # {} PROVE FALSE
    OBVIOUS
<1>1. PICK S \in SUBSET D : ~Good(S) /\ \A u \in SUBSET S : u # S => Good(u)
  <2>1. B \in SUBSET (SUBSET D)
    OBVIOUS
  <2>2. PICK S \in B : \A u \in SUBSET S : u # S => u \notin B
    <3> HIDE DEF B
    <3> QED
        BY <2>1, SmallestSet
  <2>3. S \in SUBSET D
    OBVIOUS
  <2> QED
    BY <2>2, <2>3
<1> HIDE DEF B
<1>2. IsFiniteSet(S) /\ SumFunctionOnSet(RowAmount, L) \in Int
  <2>1. \A x \in L : RowAmount[x] \in Int
    BY RowAmountType
  <2> QED
    BY <2>1, FS_Subset, SumInt
<1>3. S # {}
  <2>1. ASSUME S = {} PROVE Good(S)
    <3>1. After(S) = L
        BY <2>1 DEF BatchRows
    <3>2. SumFunctionOnSet(Fee, S) = 0
        BY <2>1, SumEmpty
    <3>3. SumFunctionOnSet(RowAmount, L) - SumFunctionOnSet(Fee, S)
            = SumFunctionOnSet(RowAmount, L)
        BY <1>2, <3>2
    <3> QED
        BY <3>1, <3>3
  <2> QED
    BY <1>1, <2>1
<1>4. PICK p \in S : TRUE
    BY <1>3
<1> DEFINE T == S \ {p}
           new == CommissionRow(p, Fee[p])
<1>5. Good(T) /\ IsFiniteSet(T)
    BY <1>1, <1>2, FS_RemoveElement
<1>6. After(S) = After(T) \cup {new}
    BY DEF BatchRows
<1>7. new \notin After(T)
    BY CommissionRowFields DEF BatchRows
<1>8. new \in LedgerRow /\ new.amount = -Fee[p] /\ Fee[p] \in Nat
    BY CommissionRowType
<1>9. SumFunctionOnSet(Fee, S) = Fee[p] + SumFunctionOnSet(Fee, T)
  <2>1. \A y \in S : Fee[y] \in Int
    OBVIOUS
  <2> QED
    BY <1>2, <2>1, SumTakeOut
<1>10. SumFunctionOnSet(Fee, T) \in Int
  <2>1. \A y \in T : Fee[y] \in Int
    OBVIOUS
  <2> QED
    BY <1>5, <2>1, SumInt
<1> DEFINE AT == After(T)
<1>11. AT \in SUBSET LedgerRow /\ IsFiniteSet(AT) /\ new \notin AT
    BY <1>5, <1>7
<1>12. SumFunctionOnSet(RowAmount, AT)
            = SumFunctionOnSet(RowAmount, L) - SumFunctionOnSet(Fee, T)
    BY <1>5
<1>13. After(S) = AT \cup {new}
    BY <1>6
<1> HIDE DEF AT, new
<1>14. /\ AT \cup {new} \in SUBSET LedgerRow
       /\ IsFiniteSet(AT \cup {new})
       /\ SumFunctionOnSet(RowAmount, AT \cup {new})
                = new.amount + SumFunctionOnSet(RowAmount, AT)
    BY <1>8, <1>11, RowAdded
<1>15. SumFunctionOnSet(RowAmount, AT \cup {new})
            = SumFunctionOnSet(RowAmount, L) - SumFunctionOnSet(Fee, S)
    BY <1>2, <1>8, <1>9, <1>10, <1>12, <1>14
<1> QED
    BY <1>1, <1>13, <1>14, <1>15

----------------------------------------------------------------------------
(* Types.  The drift query of pass 2 stores the ledger sum in the task, so  *)
(* the ledger has to be finite for the sum to be a number.                  *)

TypeInv == TypeOK /\ IsFiniteSet(ledger)

(* The ledger sum is a number.                                              *)
LEMMA LedgerSumType == ASSUME TypeInv PROVE LedgerSum \in Int
<1>1. ledger \in SUBSET LedgerRow /\ IsFiniteSet(ledger)
    BY DEF TypeInv, TypeOK
<1>2. SumFunction([row \in ledger |-> row.amount]) \in Int
    BY <1>1, LedgerSumOfRows
<1> QED
    BY <1>2, LedgerAssumption DEF LedgerSum

(* The ladder only moves within 0..3.                                       *)
LEMMA LadderType ==
    /\ \A balance \in Int : warning_level_for(balance) \in 0..3
    /\ \A w \in WalletRow : bump_warning_level(w) \in WalletRow
    /\ \A w \in WalletRow : bump_warning_level(w).balance = w.balance
<1>1. \A balance \in Int : warning_level_for(balance) \in 0..3
    BY WalletAssumption DEF warning_level_for
<1>2. ASSUME NEW w \in WalletRow
      PROVE  /\ bump_warning_level(w) \in WalletRow
             /\ bump_warning_level(w).balance = w.balance
  <2>1. warning_level_for(w.balance) \in 0..3
    BY <1>1 DEF WalletRow
  <2> QED
    BY <2>1 DEF bump_warning_level, WalletRow
<1> QED
    BY <1>1, <1>2

(* The row a live handler writes, and the sum it leaves.                    *)
LEMMA HandlerEffect ==
    ASSUME TypeInv, NEW h \in Handlers, HandlerCharges(h)
    PROVE  /\ ledger' \subseteq LedgerRow /\ IsFiniteSet(ledger')
           /\ handler[h].order \in Orders
           /\ handler[h].snap \in Snapshot
           /\ LedgerSum' = LedgerSum - CollectedFee[handler[h].order]
<1> DEFINE o == handler[h].order
           new == CommissionRow(o, CollectedFee[o])
<1>1. o \in Orders /\ handler[h].snap \in Snapshot
    BY DEF TypeInv, TypeOK, HandlerCharges, Idle
<1>2. CollectedFee[o] \in Nat
    BY <1>1, LedgerAssumption
<1>3. ledger \in SUBSET LedgerRow /\ IsFiniteSet(ledger)
    BY DEF TypeInv, TypeOK
<1>4. new \in LedgerRow /\ new.amount = -CollectedFee[o]
    BY <1>1, <1>2, CommissionRowType
<1>5. new \notin ledger /\ ledger' = ledger \cup {new}
    BY CommissionRowFields DEF HandlerCharges, Charged
<1> HIDE DEF new
<1>6. /\ ledger' \in SUBSET LedgerRow /\ IsFiniteSet(ledger')
      /\ SumFunctionOnSet(RowAmount, ledger') = new.amount + SumFunctionOnSet(RowAmount, ledger)
    BY <1>3, <1>4, <1>5, RowAdded
<1>7. /\ LedgerSum = InitialBalance + SumFunctionOnSet(RowAmount, ledger)
      /\ LedgerSum' = InitialBalance + SumFunctionOnSet(RowAmount, ledger')
      /\ SumFunctionOnSet(RowAmount, ledger) \in Int
    BY <1>3, <1>6, LedgerSumOfRows DEF LedgerSum
<1>8. LedgerSum' = LedgerSum - CollectedFee[o]
    BY <1>2, <1>4, <1>6, <1>7, LedgerAssumption
<1> QED
    BY <1>1, <1>6, <1>8

(* The rows pass 1 of the reconciliation writes, and the sum it leaves.     *)
LEMMA ReconEffect ==
    ASSUME TypeInv, ReconCharges
    PROVE  LET due == {o \in recon.missed : TotalFee[o] > 0 /\ ~Charged(o)} IN
           /\ recon.snap \in Snapshot /\ SumFunctionOnSet(TotalFee, due) \in Int
           /\ ledger' \subseteq LedgerRow /\ IsFiniteSet(ledger')
           /\ \/ /\ ledger' = ledger /\ wallet' = wallet
                 /\ recon' = [pc |-> "swept", view |-> recon.snap.balance]
              \/ /\ LedgerSum' = LedgerSum - SumFunctionOnSet(TotalFee, due)
                 /\ wallet' = [wallet EXCEPT !.balance =
                                    recon.snap.balance - SumFunctionOnSet(TotalFee, due)]
                 /\ recon' = [pc |-> "swept", view |->
                                    recon.snap.balance - SumFunctionOnSet(TotalFee, due)]
<1> DEFINE due == {o \in recon.missed : TotalFee[o] > 0 /\ ~Charged(o)}
           fees == SumFunctionOnSet(TotalFee, due)
<1>1. recon.snap \in Snapshot /\ recon.missed \in SUBSET Orders
    BY DEF TypeInv, TypeOK, ReconState, ReconCharges, Idle
<1>2. due \in SUBSET Orders /\ IsFiniteSet(due)
    BY <1>1, LedgerAssumption, FS_Subset
<1>3. fees \in Int
  <2>1. \A o \in due : TotalFee[o] \in Int
    BY <1>2, LedgerAssumption
  <2> HIDE DEF due
  <2> QED
    BY <1>2, <2>1, SumInt
<1>4. ledger \in SUBSET LedgerRow /\ IsFiniteSet(ledger)
    BY DEF TypeInv, TypeOK
<1>5. CASE recon.snap.status = "suspended" \/ due = {}
    BY <1>1, <1>3, <1>4, <1>5 DEF ReconCharges
<1>6. CASE ~(recon.snap.status = "suspended" \/ due = {})
  <2>1. /\ ledger' = ledger \cup BatchRows(TotalFee, due)
        /\ wallet' = [wallet EXCEPT !.balance = recon.snap.balance - fees]
        /\ recon' = [pc |-> "swept", view |-> recon.snap.balance - fees]
    BY <1>6 DEF ReconCharges, BatchRows
  <2>2. \A o \in due : \A row \in ledger : ~(row.kind = "commission" /\ row.ref = o)
    BY DEF Charged
  <2> HIDE DEF due
  <2>3. /\ ledger' \in SUBSET LedgerRow /\ IsFiniteSet(ledger')
        /\ SumFunctionOnSet(RowAmount, ledger') = SumFunctionOnSet(RowAmount, ledger) - fees
    BY <1>2, <1>4, <2>1, <2>2, BatchAdded, LedgerAssumption
  <2>4. /\ LedgerSum = InitialBalance + SumFunctionOnSet(RowAmount, ledger)
        /\ LedgerSum' = InitialBalance + SumFunctionOnSet(RowAmount, ledger')
        /\ SumFunctionOnSet(RowAmount, ledger) \in Int
    BY <1>4, <2>3, LedgerSumOfRows DEF LedgerSum
  <2>5. LedgerSum' = LedgerSum - fees
    BY <1>3, <2>3, <2>4, LedgerAssumption
  <2> QED
    BY <1>1, <1>3, <2>1, <2>3, <2>5 DEF due
<1> QED
    BY <1>5, <1>6

(* The row a top-up or an adjustment writes, and the sum it leaves.         *)
LEMMA CreditEffect ==
    ASSUME TypeInv, NEW k \in Credits, CreditApplied(k)
    PROVE  /\ ledger' \subseteq LedgerRow /\ IsFiniteSet(ledger')
           /\ CreditAmount[k] \in Int
           /\ LedgerSum' = LedgerSum + CreditAmount[k]
<1> DEFINE new == [kind |-> "credit", ref |-> k, amount |-> CreditAmount[k]]
<1>1. CreditAmount[k] \in Int
    BY LedgerAssumption
<1>2. ledger \in SUBSET LedgerRow /\ IsFiniteSet(ledger)
    BY DEF TypeInv, TypeOK
<1>3. new \in LedgerRow /\ new.amount = CreditAmount[k]
    BY <1>1 DEF LedgerRow
<1>4. new \notin ledger /\ ledger' = ledger \cup {new}
    BY DEF CreditApplied, Applied
<1> HIDE DEF new
<1>5. /\ ledger' \in SUBSET LedgerRow /\ IsFiniteSet(ledger')
      /\ SumFunctionOnSet(RowAmount, ledger') = new.amount + SumFunctionOnSet(RowAmount, ledger)
    BY <1>2, <1>3, <1>4, RowAdded
<1>6. /\ LedgerSum = InitialBalance + SumFunctionOnSet(RowAmount, ledger)
      /\ LedgerSum' = InitialBalance + SumFunctionOnSet(RowAmount, ledger')
      /\ SumFunctionOnSet(RowAmount, ledger) \in Int
    BY <1>2, <1>5, LedgerSumOfRows DEF LedgerSum
<1>7. LedgerSum' = LedgerSum + CreditAmount[k]
    BY <1>1, <1>3, <1>5, <1>6, LedgerAssumption
<1> QED
    BY <1>1, <1>5, <1>7

(* A session's copy of the wallet row is well formed.                       *)
LEMMA ReadType == ASSUME TypeOK PROVE Read \in Snapshot
    BY DEF TypeOK, Read, Snapshot, WalletRow

(* Orders, the task's death, a handler's first read and the administrator   *)
(* keep the types.                                                          *)
LEMMA TypeQuiet ==
    ASSUME TypeInv,
           \/ \E o \in Orders : OrderPaid(o) \/ OrderCloses(o) \/ LookbackCloses(o) \/ OrderAges(o)
           \/ \E h \in Handlers, o \in Orders : HandlerReads(h, o)
           \/ \E h \in Handlers : HandlerGivesUp(h)
           \/ ReconDies
           \/ \E status \in WalletStatus : update_wallet_config(status)
    PROVE  TypeInv'
<1> USE DEF TypeInv, orderVars
<1>1. ASSUME NEW o \in Orders, OrderPaid(o) \/ OrderCloses(o) \/ LookbackCloses(o) \/ OrderAges(o)
      PROVE  TypeInv'
    BY <1>1 DEF OrderPaid, OrderCloses, LookbackCloses, OrderAges, TypeOK
<1>2. ASSUME NEW h \in Handlers, NEW o \in Orders, HandlerReads(h, o) PROVE TypeInv'
    BY <1>2, ReadType DEF HandlerReads, TypeOK
<1>3. ASSUME NEW h \in Handlers, HandlerGivesUp(h) PROVE TypeInv'
    BY <1>3 DEF HandlerGivesUp, TypeOK
<1>4. CASE ReconDies
    BY <1>4 DEF ReconDies, TypeOK, ReconState
<1>5. ASSUME NEW status \in WalletStatus, update_wallet_config(status) PROVE TypeInv'
  <2>1. wallet' \in WalletRow
    BY <1>5 DEF update_wallet_config, TypeOK, WalletRow
  <2>2. edits' \in 0..MaxConfigEdits
    BY <1>5, LedgerAssumption DEF update_wallet_config, TypeOK
  <2> QED
    BY <1>5, <2>1, <2>2 DEF update_wallet_config, TypeOK
<1> QED
    BY <1>1, <1>2, <1>3, <1>4, <1>5

(* The steps that write the wallet or the ledger, and the task's reads,     *)
(* keep the types.                                                          *)
LEMMA TypeWriters ==
    ASSUME TypeInv,
           \/ \E h \in Handlers : HandlerCharges(h)
           \/ ReconReads \/ ReconCharges \/ ReconScans
           \/ \E held \in BOOLEAN : ReconHeals(held)
           \/ \E k \in Credits : CreditApplied(k)
    PROVE  TypeInv'
<1> USE DEF orderVars
<1>1. TypeOK /\ wallet \in WalletRow /\ wallet.balance \in Int
    BY DEF TypeInv, TypeOK, WalletRow
<1>2. ASSUME NEW balance \in Int PROVE [wallet EXCEPT !.balance = balance] \in WalletRow
    BY <1>1 DEF WalletRow
<1>3. ASSUME NEW h \in Handlers, HandlerCharges(h) PROVE TypeInv'
  <2> DEFINE snap == handler[h].snap
             balance == snap.balance - CollectedFee[handler[h].order]
             ladder == LadderAfter(snap, balance)
  <2>1. /\ ledger' \subseteq LedgerRow /\ IsFiniteSet(ledger')
        /\ handler[h].order \in Orders /\ snap \in Snapshot
    BY <1>3, HandlerEffect
  <2>2. balance \in Int
    BY <2>1, LedgerAssumption DEF Snapshot
  <2>3. ladder \in 0..3
    <3>1. wallet.warned \in 0..3 /\ warning_level_for(balance) \in 0..3
        BY <1>1, <2>2, LadderType DEF WalletRow
    <3> HIDE DEF balance
    <3> QED
        BY <3>1 DEF LadderAfter
  <2>4. wallet' = [wallet EXCEPT !.balance = balance, !.warned = ladder]
    BY <1>3 DEF HandlerCharges
  <2> HIDE DEF balance, ladder
  <2>5. wallet' \in WalletRow
    BY <1>1, <2>2, <2>3, <2>4 DEF WalletRow
  <2> QED
    BY <1>1, <1>3, <2>1, <2>5 DEF HandlerCharges, TypeInv, TypeOK
<1>4. CASE ReconReads
  <2>1. Missed \in SUBSET Orders /\ Read \in Snapshot
    BY <1>1, ReadType DEF Missed
  <2>2. recon' \in ReconState
    BY <1>1, <1>4, <2>1 DEF ReconReads, ReconState
  <2> QED
    BY <1>1, <1>4, <2>2 DEF ReconReads, TypeInv, TypeOK
<1>5. CASE ReconCharges
  <2> DEFINE due == {o \in recon.missed : TotalFee[o] > 0 /\ ~Charged(o)}
             fees == SumFunctionOnSet(TotalFee, due)
  <2>1. /\ recon.snap \in Snapshot /\ fees \in Int
        /\ ledger' \subseteq LedgerRow /\ IsFiniteSet(ledger')
        /\ \/ wallet' = wallet /\ recon' = [pc |-> "swept", view |-> recon.snap.balance]
           \/ /\ wallet' = [wallet EXCEPT !.balance = recon.snap.balance - fees]
              /\ recon' = [pc |-> "swept", view |-> recon.snap.balance - fees]
    BY <1>5, ReconEffect
  <2> HIDE DEF fees
  <2>2. recon.snap.balance \in Int /\ recon.snap.balance - fees \in Int
    BY <2>1 DEF Snapshot
  <2>3. wallet' \in WalletRow
    BY <1>1, <1>2, <2>1, <2>2
  <2>4. recon' \in ReconState
    BY <2>1, <2>2 DEF ReconState
  <2> QED
    BY <1>1, <1>5, <2>1, <2>3, <2>4 DEF ReconCharges, TypeInv, TypeOK
<1>6. CASE ReconScans
  <2>1. recon.view \in Int
    BY <1>1, <1>6 DEF ReconScans, TypeOK, ReconState, Idle
  <2>2. recon' \in ReconState
    BY <1>6, <2>1, LedgerSumType DEF ReconScans, ReconState
  <2> QED
    BY <1>1, <1>6, <2>2 DEF ReconScans, TypeInv, TypeOK
<1>7. ASSUME NEW held \in BOOLEAN, ReconHeals(held) PROVE TypeInv'
  <2>1. recon.sum \in Int
    BY <1>1, <1>7 DEF ReconHeals, TypeOK, ReconState, Idle
  <2>2. wallet' \in WalletRow
    BY <1>1, <1>2, <1>7, <2>1 DEF ReconHeals
  <2> QED
    BY <1>1, <1>7, <2>2 DEF ReconHeals, TypeInv, TypeOK, ReconState
<1>8. ASSUME NEW k \in Credits, CreditApplied(k) PROVE TypeInv'
  <2>1. /\ ledger' \subseteq LedgerRow /\ IsFiniteSet(ledger') /\ CreditAmount[k] \in Int
    BY <1>8, CreditEffect
  <2>2. [wallet EXCEPT !.balance = @ + CreditAmount[k]] \in WalletRow
    BY <1>1, <1>2, <2>1
  <2>3. wallet' \in WalletRow
    BY <1>8, <2>2, LadderType DEF CreditApplied
  <2> QED
    BY <1>1, <1>8, <2>1, <2>3 DEF CreditApplied, TypeInv, TypeOK
<1> QED
    BY <1>3, <1>4, <1>5, <1>6, <1>7, <1>8

(* Every step keeps the types.                                              *)
LEMMA NextTypeInv == TypeInv /\ [Next]_vars => TypeInv'
<1> SUFFICES ASSUME TypeInv, [Next]_vars PROVE TypeInv'
    OBVIOUS
<1>1. CASE Next
    BY <1>1, TypeQuiet, TypeWriters DEF Next
<1>2. CASE UNCHANGED vars
    BY <1>2 DEF vars, TypeInv, TypeOK
<1> QED
    BY <1>1, <1>2

(* The types hold initially.                                                *)
LEMMA InitTypeInv == Init => TypeInv
<1> SUFFICES ASSUME Init PROVE TypeInv
    OBVIOUS
<1>1. warning_level_for(InitialBalance) \in 0..3
    BY LadderType, LedgerAssumption
<1>2. wallet \in WalletRow
    BY <1>1, LedgerAssumption DEF Init, WalletRow, WalletStatus
<1>3. IsFiniteSet(ledger)
    BY FS_EmptySet DEF Init
<1> QED
    BY <1>2, <1>3, LedgerAssumption DEF Init, TypeInv, TypeOK, ReconState

LEMMA TypeInvariance == Spec => []TypeInv
    BY InitTypeInv, NextTypeInv, PTL DEF Spec

(* Every row and every session in flight stays well formed: the balance and *)
(* the ledger sum are numbers and the warning ladder stays on its rungs,    *)
(* however outdated the copy a session writes from.                         *)
THEOREM LedgerTypeCorrect == Spec => []TypeOK
<1>1. TypeInv => TypeOK
    BY DEF TypeInv
<1> QED
    BY <1>1, TypeInvariance, PTL

----------------------------------------------------------------------------
(* Drift.                                                                   *)

(* A writer with a current copy keeps the balance equal to the sum.         *)
LEMMA FreshKeepsBalance ==
    ASSUME TypeInv, [Next]_vars, Balanced, ~StaleWriter
    PROVE  Balanced'
<1> USE DEF orderVars
<1>1. wallet \in WalletRow /\ wallet.balance \in Int /\ wallet.balance = LedgerSum
    BY DEF TypeInv, TypeOK, WalletRow, Balanced
<1>2. ASSUME NEW h \in Handlers, HandlerCharges(h) PROVE Balanced'
  <2>1. LedgerSum' = LedgerSum - CollectedFee[handler[h].order]
    BY <1>2, HandlerEffect
  <2>2. handler[h].snap.balance = wallet.balance
    BY <1>2 DEF HandlerCharges, StaleWriter, Idle, TypeInv, TypeOK
  <2>3. wallet'.balance = handler[h].snap.balance - CollectedFee[handler[h].order]
    BY <1>1, <1>2 DEF HandlerCharges, WalletRow
  <2> QED
    BY <1>1, <2>1, <2>2, <2>3 DEF Balanced
<1>3. CASE ReconCharges
  <2> DEFINE due == {o \in recon.missed : TotalFee[o] > 0 /\ ~Charged(o)}
             fees == SumFunctionOnSet(TotalFee, due)
  <2>1. \/ ledger' = ledger /\ wallet' = wallet
        \/ /\ LedgerSum' = LedgerSum - fees
           /\ wallet' = [wallet EXCEPT !.balance = recon.snap.balance - fees]
    BY <1>3, ReconEffect
  <2>2. recon.snap.balance = wallet.balance
    BY <1>3 DEF ReconCharges, StaleWriter
  <2> HIDE DEF fees
  <2>3. CASE ledger' = ledger /\ wallet' = wallet
    BY <1>1, <2>3 DEF Balanced, LedgerSum
  <2>4. CASE /\ LedgerSum' = LedgerSum - fees
             /\ wallet' = [wallet EXCEPT !.balance = recon.snap.balance - fees]
    BY <1>1, <2>2, <2>4 DEF Balanced, WalletRow
  <2> QED
    BY <2>1, <2>3, <2>4
<1>4. ASSUME NEW held \in BOOLEAN, ReconHeals(held) PROVE Balanced'
  <2>1. recon.sum = LedgerSum /\ ledger' = ledger
    BY <1>4 DEF ReconHeals, StaleWriter, Idle
  <2>2. LedgerSum' = LedgerSum
    BY <2>1 DEF LedgerSum
  <2>3. wallet' = wallet \/ wallet' = [wallet EXCEPT !.balance = recon.sum]
    BY <1>4 DEF ReconHeals
  <2> QED
    BY <1>1, <2>1, <2>2, <2>3 DEF Balanced, WalletRow
<1>5. ASSUME NEW k \in Credits, CreditApplied(k) PROVE Balanced'
  <2> DEFINE w == [wallet EXCEPT !.balance = @ + CreditAmount[k]]
  <2>1. LedgerSum' = LedgerSum + CreditAmount[k] /\ CreditAmount[k] \in Int
    BY <1>5, CreditEffect
  <2>2. w \in WalletRow /\ w.balance = wallet.balance + CreditAmount[k]
    BY <1>1, <2>1 DEF WalletRow
  <2>3. wallet' = bump_warning_level(w)
    BY <1>5 DEF CreditApplied
  <2> HIDE DEF w
  <2>4. wallet'.balance = w.balance
    BY <2>2, <2>3, LadderType
  <2> QED
    BY <1>1, <2>1, <2>2, <2>4 DEF Balanced
<1>6. ASSUME ledger' = ledger, wallet'.balance = wallet.balance PROVE Balanced'
    BY <1>1, <1>6 DEF Balanced, LedgerSum
<1>7. ASSUME NEW status \in WalletStatus, update_wallet_config(status) PROVE Balanced'
  <2>1. wallet'.balance = wallet.balance /\ ledger' = ledger
    BY <1>1, <1>7 DEF update_wallet_config, WalletRow
  <2> QED
    BY <1>6, <2>1
<1>8. CASE UNCHANGED vars
    BY <1>6, <1>8 DEF vars
<1> QED
    BY <1>2, <1>3, <1>4, <1>5, <1>6, <1>7, <1>8 DEF Next, OrderPaid, OrderCloses,
       LookbackCloses, OrderAges, HandlerReads, HandlerGivesUp, ReconReads, ReconScans, ReconDies

(* The stored balance leaves the ledger sum only in a step of a handler,    *)
(* of pass 1 or of the drift row of pass 2 that writes from an outdated     *)
(* copy: reads made under the row lock never cause drift, whatever copies   *)
(* the other sessions hold.                                                 *)
THEOREM DriftIsStale == Spec => DriftNeedsStaleCopy
<1>1. TypeInv /\ [Next]_vars => [(Balanced /\ ~Balanced') => StaleWriter]_vars
    BY FreshKeepsBalance
<1> QED
    BY <1>1, TypeInvariance, PTL DEF Spec, DriftNeedsStaleCopy

=============================================================================
