-------------------------- MODULE WalletGate_proofs --------------------------
(***************************************************************************)
(* Proofs about WalletGate.  Inv adds to the type invariant what a         *)
(* checkout has computed so far: unless a commit overtook it, it is what   *)
(* the committed rows give.                                                *)
(***************************************************************************)
EXTENDS WalletGate, TLAPS

Past(p) == ~NotLive(db.tenant, db.settings) /\ Armed(db.tenant, db.settings)

ReadsCurrent(p) ==
    ~check[p].mixed =>
        /\ check[p].pc \in {"settings", "wallet"} => check[p].tenant = db.tenant
        /\ check[p].pc = "wallet" => Past(p)
        /\ check[p].pc = "fill" => check[p].state = GateState(db)

(* A checkout with a result to cache has one; only idle ones have none.    *)
Shaped(p) ==
    /\ check[p].pc \in {"settings", "wallet", "fill"} => check[p].tenant # Nil
    /\ check[p].pc = "fill" => check[p].state # Nil

Inv ==
    /\ TypeOK
    /\ StaleHasCause
    /\ \A p \in Procs : ReadsCurrent(p) /\ Shaped(p)

-----------------------------------------------------------------------------
LEMMA GateStateType ==
    /\ \A rows \in Rows : GateState(rows) \in GateStates
    /\ \A t, a, w : BalanceGate(t, a, w) \in GateStates
BY DEF GateState, BalanceGate, GateStates

LEMMA AnsweredType ==
    ASSUME NEW state \in GateStates \cup {Nil}
    PROVE  /\ Answered(state) \in CheckRow
           /\ Answered(state).pc = "idle" /\ Answered(state).state = state
BY DEF Answered, CheckRow

LEMMA NoEntryType ==
    /\ NoEntry \in [state : GateStates \cup {Nil}, missed : BOOLEAN, mixed : BOOLEAN]
    /\ NoEntry.state = Nil
BY DEF NoEntry

(* A step of one checkout that leaves the rows and the entry alone.        *)
LEMMA AdvanceInv ==
    ASSUME Inv, NEW p \in Procs, NEW row \in CheckRow, Advance(p, row),
           settings' \in [Procs -> Settings \cup {Nil}],
           UNCHANGED <<db, entry, draft, owed, changes>>,
           row.pc \in {"settings", "wallet", "fill"} => row.tenant # Nil,
           row.pc = "fill" => row.state # Nil,
           ~row.mixed =>
             /\ row.pc \in {"settings", "wallet"} => row.tenant = db.tenant
             /\ row.pc = "wallet" => Past(p)
             /\ row.pc = "fill" => row.state = GateState(db)
    PROVE  Inv'
<1>1. TypeOK'
    BY DEF Inv, TypeOK, Advance
<1>2. StaleHasCause'
    BY DEF Inv, StaleHasCause, EntryCurrent, Excused
<1>3. ASSUME NEW q \in Procs PROVE ReadsCurrent(q)' /\ Shaped(q)'
  <2>1. check'[q] = IF q = p THEN row ELSE check[q]
    BY DEF Inv, TypeOK, Advance
  <2>2. QED
    BY <2>1 DEF Inv, ReadsCurrent, Shaped, Past
<1>4. QED
    BY <1>1, <1>2, <1>3 DEF Inv

LEMMA LoadedType ==
    ASSUME TypeOK, NEW p \in Procs
    PROVE  /\ Loaded(p) \in Settings
           /\ CacheSettings(p) => settings' \in [Procs -> Settings \cup {Nil}]
BY DEF TypeOK, Loaded, CacheSettings, Rows

LEMMA HitCacheInv ==
    ASSUME Inv, NEW p \in Procs, HitCache(p)
    PROVE  Inv'
<1>1. entry.state \in GateStates \cup {Nil}
    BY DEF Inv, TypeOK
<1> DEFINE row == Answered(entry.state)
<1>2. row \in CheckRow /\ row.pc = "idle"
    BY <1>1, AnsweredType
<1> HIDE DEF row
<1>3. Advance(p, row) /\ settings' \in [Procs -> Settings \cup {Nil}]
    BY DEF HitCache, Inv, TypeOK, row
<1>4. QED
    BY <1>2, <1>3, AdvanceInv DEF HitCache

LEMMA MissCacheInv ==
    ASSUME Inv, NEW p \in Procs, MissCache(p)
    PROVE  Inv'
<1> DEFINE row == [Answered(Nil) EXCEPT !.pc = "tenant"]
<1>1. row \in CheckRow /\ row.pc = "tenant"
    BY DEF Answered, CheckRow
<1> HIDE DEF row
<1>2. Advance(p, row) /\ settings' \in [Procs -> Settings \cup {Nil}]
    BY DEF MissCache, Inv, TypeOK, row
<1>3. QED
    BY <1>1, <1>2, AdvanceInv DEF MissCache

LEMMA LookupFailsInv ==
    ASSUME Inv, NEW p \in Procs, LookupFails(p)
    PROVE  Inv'
<1> DEFINE row == Answered("ok")
<1>1. row \in CheckRow /\ row.pc = "idle"
    BY AnsweredType DEF GateStates
<1> HIDE DEF row
<1>2. Advance(p, row) /\ settings' \in [Procs -> Settings \cup {Nil}]
    BY DEF LookupFails, Inv, TypeOK, row
<1>3. QED
    BY <1>1, <1>2, AdvanceInv DEF LookupFails

LEMMA ReadTenantInv ==
    ASSUME Inv, NEW p \in Procs, ReadTenant(p)
    PROVE  Inv'
<1> DEFINE row == [check[p] EXCEPT !.pc = "settings", !.tenant = db.tenant]
<1>1. check[p] \in CheckRow /\ db.tenant \in Tenants /\ Nil \notin Tenants
    BY GateAssumption DEF Inv, TypeOK, Rows
<1>2. row \in CheckRow /\ row.pc = "settings" /\ row.tenant = db.tenant
    BY <1>1 DEF CheckRow
<1> HIDE DEF row
<1>3. Advance(p, row) /\ settings' \in [Procs -> Settings \cup {Nil}]
    BY DEF ReadTenant, Inv, TypeOK, row
<1>4. row.tenant # Nil
    BY <1>1, <1>2
<1>5. QED
    BY <1>2, <1>3, <1>4, AdvanceInv DEF ReadTenant

LEMMA ReadSettingsInv ==
    ASSUME Inv, NEW p \in Procs, ReadSettings(p)
    PROVE  Inv'
<1> DEFINE t == check[p].tenant
           early == NotLive(t, Loaded(p)) \/ ~Armed(t, Loaded(p))
           mixed == check[p].mixed \/ OldSettings(p)
           state == IF ~early THEN Nil
                    ELSE IF NotLive(t, Loaded(p)) THEN "not_live" ELSE "ok"
           row == [pc |-> IF early THEN "fill" ELSE "wallet", tenant |-> t,
                   state |-> state, mixed |-> mixed]
<1>1. check[p].pc = "settings" /\ Advance(p, row)
    BY DEF ReadSettings
<1>2. t \in Tenants \cup {Nil} /\ t # Nil /\ check[p].mixed \in BOOLEAN
    BY <1>1 DEF Inv, TypeOK, CheckRow, Shaped
<1>3. mixed \in BOOLEAN /\ state \in GateStates \cup {Nil} /\ (early => state # Nil)
    BY <1>2, GateAssumption DEF GateStates
<1>4. /\ row \in CheckRow
      /\ row.pc = IF early THEN "fill" ELSE "wallet"
      /\ row.tenant = t /\ row.state = state /\ row.mixed = mixed
    BY <1>2, <1>3 DEF CheckRow
<1>5. ASSUME ~mixed
      PROVE  /\ t = db.tenant
             /\ early => state = GateState(db)
             /\ ~early => Past(p)
  <2>1. Loaded(p) = db.settings /\ t = db.tenant
    BY <1>1, <1>5 DEF OldSettings, Inv, ReadsCurrent
  <2>2. QED
    BY <2>1 DEF Past, GateState
<1> HIDE DEF row, state, mixed, early
<1>6. settings' \in [Procs -> Settings \cup {Nil}]
    BY LoadedType DEF ReadSettings, Inv
<1>7. QED
    BY <1>1, <1>2, <1>3, <1>4, <1>5, <1>6, AdvanceInv DEF ReadSettings

LEMMA ReadWalletInv ==
    ASSUME Inv, NEW p \in Procs, ReadWallet(p)
    PROVE  Inv'
<1> DEFINE t == check[p].tenant
           mixed == check[p].mixed \/ OldSettings(p)
           state == BalanceGate(t, Loaded(p), db.wallet)
           row == [pc |-> "fill", tenant |-> t, state |-> state, mixed |-> mixed]
<1>1. check[p].pc = "wallet" /\ Advance(p, row)
    BY DEF ReadWallet
<1>2. t \in Tenants \cup {Nil} /\ t # Nil /\ check[p].mixed \in BOOLEAN
    BY <1>1 DEF Inv, TypeOK, CheckRow, Shaped
<1>3. mixed \in BOOLEAN /\ state \in GateStates /\ state # Nil
    BY <1>2, GateAssumption, GateStateType
<1>4. /\ row \in CheckRow /\ row.pc = "fill"
      /\ row.tenant = t /\ row.state = state /\ row.mixed = mixed
    BY <1>2, <1>3 DEF CheckRow
<1>5. ~mixed => state = GateState(db)
  <2>1. SUFFICES ASSUME ~mixed PROVE state = GateState(db)
    OBVIOUS
  <2>2. Loaded(p) = db.settings /\ t = db.tenant /\ Past(p)
    BY <1>1, <2>1 DEF OldSettings, Inv, ReadsCurrent
  <2>3. QED
    BY <2>2 DEF Past, GateState
<1> HIDE DEF row, state, mixed
<1>6. settings' \in [Procs -> Settings \cup {Nil}]
    BY LoadedType DEF ReadWallet, Inv
<1>7. QED
    BY <1>1, <1>2, <1>3, <1>4, <1>5, <1>6, AdvanceInv DEF ReadWallet

(* A checkout that ends, with its fill or without.                         *)
LEMMA EndsInv ==
    ASSUME Inv, NEW p \in Procs, NEW state \in GateStates \cup {Nil},
           Advance(p, Answered(state)),
           entry' = entry \/ (check[p].pc = "fill" /\ entry' = Filled(p)),
           UNCHANGED <<db, settings, draft, owed, changes>>
    PROVE  Inv'
<1> DEFINE row == Answered(state)
<1>1. row \in CheckRow /\ row.pc = "idle" /\ check' = [check EXCEPT ![p] = row]
    BY AnsweredType DEF Advance
<1>2. check[p].state \in GateStates \cup {Nil} /\ check[p].mixed \in BOOLEAN
    BY DEF Inv, TypeOK, CheckRow
<1>3. /\ Filled(p) \in [state : GateStates \cup {Nil}, missed : BOOLEAN, mixed : BOOLEAN]
      /\ Filled(p).state = check[p].state /\ Filled(p).mixed = check[p].mixed
    BY <1>2 DEF Filled
<1> HIDE DEF row
<1>4. TypeOK'
    BY <1>1, <1>3 DEF Inv, TypeOK
<1>5. check[p].pc = "fill" /\ ~check[p].mixed => check[p].state = GateState(db)
    BY DEF Inv, ReadsCurrent
<1>6. StaleHasCause'
  <2>1. CASE entry' = entry
    BY <2>1 DEF Inv, StaleHasCause, EntryCurrent, Excused
  <2>2. CASE entry' = Filled(p) /\ check[p].mixed
    BY <2>2, <1>3 DEF StaleHasCause, Excused
  <2>3. CASE entry' = Filled(p) /\ check[p].pc = "fill" /\ ~check[p].mixed
    BY <2>3, <1>3, <1>5 DEF StaleHasCause, EntryCurrent
  <2>4. QED
    BY <2>1, <2>2, <2>3
<1>7. ASSUME NEW q \in Procs PROVE ReadsCurrent(q)' /\ Shaped(q)'
  <2>1. check'[q] = IF q = p THEN row ELSE check[q]
    BY <1>1 DEF Inv, TypeOK
  <2>2. QED
    BY <2>1, <1>1 DEF Inv, ReadsCurrent, Shaped, Past
<1>8. QED
    BY <1>4, <1>6, <1>7 DEF Inv

LEMMA FillCacheInv ==
    ASSUME Inv, NEW p \in Procs, FillCache(p)
    PROVE  Inv'
<1>1. check[p].state \in GateStates \cup {Nil}
    BY DEF Inv, TypeOK, CheckRow
<1>2. QED
    BY <1>1, EndsInv DEF FillCache

LEMMA FailOpenInv ==
    ASSUME Inv, NEW p \in Procs, FailOpen(p)
    PROVE  Inv'
<1>1. "ok" \in GateStates \cup {Nil}
    BY DEF GateStates
<1>2. QED
    BY <1>1, EndsInv DEF FailOpen

(* A commit marks every checkout that has read something.                  *)
LEMMA OvertakenInv ==
    ASSUME Inv, NEW rows \in Rows, Commit(rows)
    PROVE  /\ check' \in [Procs -> CheckRow]
           /\ \A p \in Procs : ReadsCurrent(p)' /\ Shaped(p)'
<1> DEFINE row(p) == [check[p] EXCEPT !.mixed = check[p].mixed \/ HasRead(p)]
<1>1. ASSUME NEW p \in Procs
      PROVE  /\ row(p) \in CheckRow /\ row(p).pc = check[p].pc
             /\ row(p).tenant = check[p].tenant /\ row(p).state = check[p].state
             /\ row(p).mixed = (check[p].mixed \/ HasRead(p))
  <2>1. check[p] \in CheckRow /\ (check[p].mixed \/ HasRead(p)) \in BOOLEAN
    BY DEF Inv, TypeOK, HasRead
  <2>2. QED
    BY <2>1 DEF CheckRow
<1>2. check' = [p \in Procs |-> row(p)]
    BY DEF Commit, Overtaken
<1> HIDE DEF row
<1>3. check' \in [Procs -> CheckRow]
    BY <1>1, <1>2
<1>4. ASSUME NEW p \in Procs PROVE ReadsCurrent(p)' /\ Shaped(p)'
  <2>1. check'[p] = row(p)
    BY <1>2
  <2>2. Shaped(p)'
    BY <2>1, <1>1 DEF Inv, Shaped
  <2>3. ReadsCurrent(p)'
    BY <2>1, <1>1 DEF ReadsCurrent, HasRead
  <2>4. QED
    BY <2>2, <2>3
<1>5. QED
    BY <1>3, <1>4

LEMMA CommitRowsInv ==
    ASSUME Inv, NEW t \in Tenants, NEW w \in Wallets, CommitRows(t, w)
    PROVE  Inv'
<1> DEFINE rows == [db EXCEPT !.tenant = t, !.wallet = w]
<1>1. rows \in Rows
    BY DEF Inv, TypeOK, Rows
<1> HIDE DEF rows
<1>2. Commit(rows)
    BY DEF CommitRows, rows
<1>3. /\ check' \in [Procs -> CheckRow]
      /\ \A p \in Procs : ReadsCurrent(p)' /\ Shaped(p)'
    BY <1>1, <1>2, OvertakenInv
<1>4. TypeOK'
    BY <1>1, <1>2, <1>3 DEF Inv, TypeOK, CommitRows, Commit, Change
<1>5. StaleHasCause'
    BY DEF Inv, TypeOK, CommitRows, StaleHasCause, Excused
<1>6. QED
    BY <1>3, <1>4, <1>5 DEF Inv

LEMMA CommitSettingsInv ==
    ASSUME Inv, NEW p \in Procs, CommitSettings(p)
    PROVE  Inv'
<1> DEFINE rows == [db EXCEPT !.settings = draft[p]]
           new == [entry EXCEPT !.missed = TRUE]
<1>1. rows \in Rows
    BY DEF Inv, TypeOK, Rows, CommitSettings
<1>2. /\ new \in [state : GateStates \cup {Nil}, missed : BOOLEAN, mixed : BOOLEAN]
      /\ new.missed = TRUE
    BY DEF Inv, TypeOK
<1> HIDE DEF rows, new
<1>3. Commit(rows) /\ entry' = new
    BY DEF CommitSettings, rows, new
<1>4. /\ check' \in [Procs -> CheckRow]
      /\ \A q \in Procs : ReadsCurrent(q)' /\ Shaped(q)'
    BY <1>1, <1>3, OvertakenInv
<1>5. TypeOK'
    BY <1>1, <1>2, <1>3, <1>4 DEF Inv, TypeOK, CommitSettings, Commit
<1>6. StaleHasCause'
    BY <1>2, <1>3 DEF StaleHasCause, Excused
<1>7. QED
    BY <1>4, <1>5, <1>6 DEF Inv

(* Steps that leave the rows and the checkouts alone.                      *)
LEMMA CacheStepInv ==
    ASSUME Inv, UNCHANGED <<db, check>>, TypeOK', StaleHasCause'
    PROVE  Inv'
BY DEF Inv, ReadsCurrent, Shaped, Past

LEMMA QuietInv ==
    ASSUME Inv,
           \/ invalidate_cache \/ InvalidationLost \/ EntryExpires
           \/ \E p \in Procs : RollbackSettings(p) \/ SettingsExpire(p)
           \/ \E p \in Procs, s \in Settings : UpdateSettings(p, s)
           \/ UNCHANGED vars
    PROVE  Inv'
<1>1. CASE invalidate_cache
  <2>1. TypeOK'
    BY <1>1, NoEntryType DEF invalidate_cache, Inv, TypeOK
  <2>2. QED
    BY <1>1, <2>1, NoEntryType, CacheStepInv
    DEF invalidate_cache, StaleHasCause, EntryCurrent
<1>2. CASE InvalidationLost
  <2> DEFINE new == [entry EXCEPT !.missed = TRUE]
  <2>1. /\ new \in [state : GateStates \cup {Nil}, missed : BOOLEAN, mixed : BOOLEAN]
        /\ new.missed = TRUE
    BY DEF Inv, TypeOK
  <2> HIDE DEF new
  <2>2. entry' = new
    BY <1>2 DEF InvalidationLost, new
  <2>3. owed' \in Nat
    BY <1>2 DEF InvalidationLost, Inv, TypeOK
  <2>4. UNCHANGED <<db, settings, draft, check, changes>>
    BY <1>2 DEF InvalidationLost
  <2>5. TypeOK'
    BY <2>1, <2>2, <2>3, <2>4 DEF Inv, TypeOK
  <2>6. QED
    BY <2>1, <2>2, <2>4, <2>5, CacheStepInv DEF StaleHasCause, Excused
<1>3. CASE EntryExpires
  <2>1. TypeOK'
    BY <1>3, NoEntryType DEF EntryExpires, Inv, TypeOK
  <2>2. QED
    BY <1>3, <2>1, NoEntryType, CacheStepInv
    DEF EntryExpires, StaleHasCause, EntryCurrent
<1>4. CASE \E p \in Procs : RollbackSettings(p) \/ SettingsExpire(p)
  <2>1. TypeOK'
    BY <1>4 DEF RollbackSettings, SettingsExpire, Inv, TypeOK
  <2>2. StaleHasCause'
    BY <1>4 DEF RollbackSettings, SettingsExpire, Inv, StaleHasCause, EntryCurrent, Excused
  <2>3. QED
    BY <1>4, <2>1, <2>2, CacheStepInv DEF RollbackSettings, SettingsExpire
<1>5. CASE \E p \in Procs, s \in Settings : UpdateSettings(p, s)
  <2>1. TypeOK'
    BY <1>5 DEF UpdateSettings, Change, Inv, TypeOK
  <2>2. StaleHasCause'
    BY <1>5 DEF UpdateSettings, Inv, StaleHasCause, EntryCurrent, Excused
  <2>3. QED
    BY <1>5, <2>1, <2>2, CacheStepInv DEF UpdateSettings
<1>6. CASE UNCHANGED vars
  <2>1. TypeOK' /\ StaleHasCause'
    BY <1>6 DEF vars, Inv, TypeOK, StaleHasCause, EntryCurrent, Excused
  <2>2. QED
    BY <1>6, <2>1, CacheStepInv DEF vars
<1>7. QED
    BY <1>1, <1>2, <1>3, <1>4, <1>5, <1>6

LEMMA InitInv == Init => Inv
<1> SUFFICES ASSUME Init PROVE Inv
    OBVIOUS
<1>1. TypeOK
    BY NoEntryType, AnsweredType DEF Init, TypeOK
<1>2. StaleHasCause
    BY NoEntryType DEF Init, StaleHasCause, EntryCurrent
<1>3. ASSUME NEW p \in Procs PROVE ReadsCurrent(p) /\ Shaped(p)
    BY AnsweredType DEF Init, ReadsCurrent, Shaped
<1>4. QED
    BY <1>1, <1>2, <1>3 DEF Inv

LEMMA NextInv ==
    ASSUME Inv, [Next]_vars
    PROVE  Inv'
<1>1. CASE \E p \in Procs : HitCache(p) \/ MissCache(p) \/ LookupFails(p) \/ CheckStep(p)
    BY <1>1, HitCacheInv, MissCacheInv, LookupFailsInv, ReadTenantInv, ReadSettingsInv,
       ReadWalletInv, FillCacheInv, FailOpenInv DEF CheckStep
<1>2. CASE \E p \in Procs : CommitSettings(p)
    BY <1>2, CommitSettingsInv
<1>3. CASE \E t \in Tenants, w \in Wallets : CommitRows(t, w)
    BY <1>3, CommitRowsInv
<1>4. QED
    BY <1>1, <1>2, <1>3, QuietInv DEF Next, SettingsStep

LEMMA Invariance == Spec => []Inv
<1>1. Inv /\ [Next]_vars => Inv'
    BY NextInv
<1>2. QED
    BY InitInv, <1>1, PTL DEF Spec

-----------------------------------------------------------------------------
(* The rows, caches and checkouts are well formed in every reachable state. *)
THEOREM TypeCorrect == Spec => []TypeOK
<1>1. Inv => TypeOK
    BY DEF Inv
<1>2. QED
    BY Invariance, <1>1, PTL

(* For any number of processes and any rows, a stale entry of the gate's    *)
(* cache has one of the three causes the code admits.                       *)
THEOREM StaleAlwaysHasCause == Spec => []StaleHasCause
<1>1. Inv => StaleHasCause
    BY DEF Inv
<1>2. QED
    BY Invariance, <1>1, PTL

(* A shopper is never turned away because a read or the cache failed.       *)
THEOREM RefusalsHaveCause == Spec => RefusalHasCause
<1> DEFINE Caused == \A p \in Procs :
        LET now == check'[p].state IN
        (check'[p].pc = "idle" /\ now \in {"blocked", "not_live"}
            /\ check'[p] # check[p])
            => now = GateState(db) \/ Excused \/ check[p].mixed
<1>1. Inv /\ [Next]_vars => [Caused]_vars
  <2> SUFFICES ASSUME Inv, Next, NEW p \in Procs, check'[p].pc = "idle",
                      check'[p].state \in {"blocked", "not_live"},
                      check'[p] # check[p]
               PROVE  check'[p].state = GateState(db) \/ Excused \/ check[p].mixed
    BY DEF Caused
  <2>0. check \in [Procs -> CheckRow]
    BY DEF Inv, TypeOK
  <2>1. CASE \E q \in Procs : HitCache(q)
    <3>1. PICK q \in Procs : HitCache(q)
        BY <2>1
    <3>2. check'[p].state = entry.state
        BY <3>1, <2>0 DEF HitCache, Advance, Answered
    <3>3. QED
        BY <3>2, GateAssumption DEF Inv, StaleHasCause, EntryCurrent, GateStates
  <2>2. CASE \E q \in Procs : FillCache(q)
    <3>1. PICK q \in Procs : FillCache(q)
        BY <2>2
    <3>2. q = p /\ check'[p].state = check[p].state /\ check[p].pc = "fill"
        BY <3>1, <2>0 DEF FillCache, Advance, Answered
    <3>3. QED
        BY <3>2 DEF Inv, ReadsCurrent
  <2>3. CASE \E q \in Procs : FailOpen(q) \/ LookupFails(q)
    BY <2>3, <2>0 DEF FailOpen, LookupFails, Advance, Answered
  <2>4. CASE \E q \in Procs : MissCache(q)
    BY <2>4, <2>0 DEF MissCache, Advance, Answered
  <2>5. CASE \E q \in Procs : ReadTenant(q)
    <3>1. PICK q \in Procs : ReadTenant(q)
        BY <2>5
    <3>2. check[q] \in CheckRow /\ q = p
        BY <3>1, <2>0 DEF ReadTenant, Advance
    <3>3. check'[p].pc = "settings"
        BY <3>1, <3>2, <2>0 DEF ReadTenant, Advance, CheckRow
    <3>4. QED
        BY <3>3
  <2>6. CASE \E q \in Procs : ReadSettings(q) \/ ReadWallet(q)
    BY <2>6, <2>0 DEF ReadSettings, ReadWallet, Advance
  <2>7. CASE check' = Overtaken
    <3>1. check[p] \in CheckRow /\ check'[p] = [check[p] EXCEPT !.mixed = check[p].mixed \/ HasRead(p)]
        BY <2>7, <2>0 DEF Overtaken
    <3>2. check'[p].pc = check[p].pc
        BY <3>1 DEF CheckRow
    <3>3. ~HasRead(p)
        BY <3>2 DEF HasRead
    <3>4. check[p].mixed \in BOOLEAN
        BY <3>1 DEF CheckRow
    <3>5. (check[p].mixed \/ HasRead(p)) = check[p].mixed
        BY <3>3, <3>4
    <3>6. check'[p] = check[p]
        BY <3>1, <3>5 DEF CheckRow
    <3>7. QED
        BY <3>6
  <2>8. CASE check' = check
    BY <2>8
  <2>9. QED
    BY <2>1, <2>2, <2>3, <2>4, <2>5, <2>6, <2>7, <2>8
    DEF Next, CheckStep, SettingsStep, CommitSettings, RollbackSettings,
        SettingsExpire, UpdateSettings, CommitRows, Commit, invalidate_cache,
        InvalidationLost, EntryExpires
<1>2. QED
    BY Invariance, <1>1, PTL DEF Spec, RefusalHasCause

=============================================================================
