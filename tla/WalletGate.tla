----------------------------- MODULE WalletGate -----------------------------
(***************************************************************************)
(* The gate of storefront checkout for one tenant.  Each checkout asks     *)
(* checkout_gate_state, which answers from a shared cache or computes the  *)
(* state from the tenant's row, the admin settings and the wallet's row,   *)
(* three reads with no snapshot, and fills the cache.  What changes the    *)
(* rows drops the entry after its commit; a lost drop leaves it to the     *)
(* TTL.  The admin settings have a cache of their own in every process,    *)
(* filled by an update before it commits.                                  *)
(***************************************************************************)
EXTENDS Integers

CONSTANTS
    Procs,        \* API processes, each with at most one checkout at the gate
    Tenants,      \* the states of the tenant's row that occur
    Settings,     \* the admin settings that occur
    Wallets,      \* the states of the wallet's row that occur
    MaxChanges,   \* bound on the changes made to the rows
    Nil           \* nothing cached, read or answered

TenantRow == [chosen : BOOLEAN, trialing : BOOLEAN, golive_exempt : BOOLEAN,
              canary : BOOLEAN, bearing : BOOLEAN]
SettingsRow == [golive : BOOLEAN, gate : BOOLEAN, rateZero : BOOLEAN]
WalletRow == [status : {"none", "active", "suspended", "exempt"},
              override : {"unset", "zero", "positive"}, below : BOOLEAN]

GateStates == {"ok", "blocked", "not_live"}

ASSUME GateAssumption ==
    /\ Tenants \subseteq TenantRow
    /\ Settings \subseteq SettingsRow
    /\ Wallets \subseteq WalletRow
    /\ MaxChanges \in Nat
    /\ Nil \notin GateStates /\ Nil \notin Settings /\ Nil \notin Tenants

VARIABLES
    db,        \* the committed rows
    entry,     \* the cached gate state, and what may have made it stale
    settings,  \* each process's cache of the admin settings
    draft,     \* settings an update has flushed and not committed
    check,     \* the checkouts at the gate; idle, with the last answer
    owed,      \* commits whose drop of the entry is still to come
    changes    \* changes so far

vars == <<db, entry, settings, draft, check, owed, changes>>

-----------------------------------------------------------------------------
(* _compute_gate_state and resolve_commission_bps.                         *)

NotLive(t, a) ==
    a.golive /\ ~t.trialing /\ ~t.chosen /\ ~t.golive_exempt
Armed(t, a) == a.gate \/ t.canary
CommissionBearing(t, a, w) ==
    /\ w.status # "exempt"
    /\ t.bearing
    /\ w.override = "positive" \/ (w.override = "unset" /\ ~a.rateZero)
BalanceGate(t, a, w) ==
    IF CommissionBearing(t, a, w) /\ w.status = "active" /\ w.below
    THEN "blocked" ELSE "ok"

GateState(rows) ==
    IF NotLive(rows.tenant, rows.settings) THEN "not_live"
    ELSE IF ~Armed(rows.tenant, rows.settings) THEN "ok"
    ELSE BalanceGate(rows.tenant, rows.settings, rows.wallet)

-----------------------------------------------------------------------------
(* missed: the rows changed under the entry and nothing dropped it;        *)
(* mixed: it was computed from rows that were not all current.             *)

NoEntry == [state |-> Nil, missed |-> FALSE, mixed |-> FALSE]
Rows == [tenant : Tenants, settings : Settings, wallet : Wallets]
CheckRow == [pc : {"idle", "tenant", "settings", "wallet", "fill"},
             tenant : Tenants \cup {Nil}, state : GateStates \cup {Nil},
             mixed : BOOLEAN]
Answered(state) == [pc |-> "idle", tenant |-> Nil, state |-> state, mixed |-> FALSE]

(* get_wallet_settings, through the cache of the process.                  *)
Loaded(p) == IF settings[p] = Nil THEN db.settings ELSE settings[p]
CacheSettings(p) == settings' = [settings EXCEPT ![p] = Loaded(p)]
OldSettings(p) == Loaded(p) # db.settings

Advance(p, row) == check' = [check EXCEPT ![p] = row]

HitCache(p) ==
    /\ check[p].pc = "idle"
    /\ entry.state # Nil
    /\ Advance(p, Answered(entry.state))
    /\ UNCHANGED <<db, entry, settings, draft, owed, changes>>

(* Nothing is cached, or Redis refuses the lookup, which get reports as    *)
(* nothing cached.                                                         *)
MissCache(p) ==
    /\ check[p].pc = "idle"
    /\ Advance(p, [Answered(Nil) EXCEPT !.pc = "tenant"])
    /\ UNCHANGED <<db, entry, settings, draft, owed, changes>>

ReadTenant(p) ==
    /\ check[p].pc = "tenant"
    /\ Advance(p, [check[p] EXCEPT !.pc = "settings", !.tenant = db.tenant])
    /\ UNCHANGED <<db, entry, settings, draft, owed, changes>>

(* The go-live gate, and the switch of the balance gate.                   *)
ReadSettings(p) ==
    LET t == check[p].tenant
        early == NotLive(t, Loaded(p)) \/ ~Armed(t, Loaded(p))
        mixed == check[p].mixed \/ OldSettings(p)
    IN
    /\ check[p].pc = "settings"
    /\ CacheSettings(p)
    /\ Advance(p, [pc |-> IF early THEN "fill" ELSE "wallet", tenant |-> t,
                   state |-> IF ~early THEN Nil
                             ELSE IF NotLive(t, Loaded(p)) THEN "not_live"
                             ELSE "ok",
                   mixed |-> mixed])
    /\ UNCHANGED <<db, entry, draft, owed, changes>>

(* The rate is resolved from settings that are loaded a second time.       *)
ReadWallet(p) ==
    LET t == check[p].tenant IN
    /\ check[p].pc = "wallet"
    /\ CacheSettings(p)
    /\ Advance(p, [pc |-> "fill", tenant |-> t,
                   state |-> BalanceGate(t, Loaded(p), db.wallet),
                   mixed |-> check[p].mixed \/ OldSettings(p)])
    /\ UNCHANGED <<db, entry, draft, owed, changes>>

Filled(p) == [state |-> check[p].state, missed |-> FALSE, mixed |-> check[p].mixed]

(* The answer stands when Redis refuses the fill, or took it and the reply *)
(* was lost.                                                               *)
FillCache(p) ==
    /\ check[p].pc = "fill"
    /\ entry' \in {entry, Filled(p)}
    /\ Advance(p, Answered(check[p].state))
    /\ UNCHANGED <<db, settings, draft, owed, changes>>

(* Fault: a read that raises closes the gate.                              *)
FailClosed(p) ==
    /\ check[p].pc \in {"tenant", "settings", "wallet"}
    /\ Advance(p, Answered("blocked"))
    /\ UNCHANGED <<db, entry, settings, draft, owed, changes>>

(* A read that raises answers ok and caches nothing; so does a fill that   *)
(* raises anything but a RedisError, whatever was computed and whether or  *)
(* not the entry got there.                                                *)
FailOpen(p) ==
    /\ check[p].pc \in {"tenant", "settings", "wallet", "fill"}
    /\ \/ entry' = entry
       \/ check[p].pc = "fill" /\ entry' = Filled(p)
    /\ Advance(p, Answered("ok"))
    /\ UNCHANGED <<db, settings, draft, owed, changes>>

(* The lookup raises anything but a RedisError.                            *)
LookupFails(p) ==
    /\ check[p].pc = "idle"
    /\ Advance(p, Answered("ok"))
    /\ UNCHANGED <<db, entry, settings, draft, owed, changes>>

-----------------------------------------------------------------------------
(* Changes of the rows: ghosts first.                                      *)

HasRead(p) == check[p].pc \in {"settings", "wallet", "fill"}
Overtaken == [p \in Procs |-> [check[p] EXCEPT !.mixed = @ \/ HasRead(p)]]

Commit(rows) == db' = rows /\ check' = Overtaken
Change == changes < MaxChanges /\ changes' = changes + 1

(* A debit, a top-up, a plan chosen, an admin's edit of the wallet.        *)
CommitRows(t, w) ==
    /\ t # db.tenant \/ w # db.wallet
    /\ Change
    /\ Commit([db EXCEPT !.tenant = t, !.wallet = w])
    /\ owed' = owed + 1
    /\ UNCHANGED <<entry, settings, draft>>

(* Fault: only the key of the balance is dropped.                          *)
InvalidateBalance ==
    /\ owed > 0
    /\ owed' = owed - 1
    /\ UNCHANGED <<db, entry, settings, draft, check, changes>>

invalidate_cache ==
    /\ owed > 0
    /\ owed' = owed - 1
    /\ entry' = NoEntry
    /\ UNCHANGED <<db, settings, draft, check, changes>>

(* Redis refuses, the process is lost, or the change is one after which    *)
(* nobody drops the entry (expire_trials).                                 *)
InvalidationLost ==
    /\ owed > 0
    /\ owed' = owed - 1
    /\ entry' = [entry EXCEPT !.missed = TRUE]
    /\ UNCHANGED <<db, settings, draft, check, changes>>

(* update_wallet_settings: flushed, and read back into the cache of the    *)
(* process before the route commits.                                       *)
UpdateSettings(p, s) ==
    /\ draft[p] = Nil
    /\ s # db.settings
    /\ Change
    /\ draft' = [draft EXCEPT ![p] = s]
    /\ settings' = [settings EXCEPT ![p] = s]
    /\ UNCHANGED <<db, entry, check, owed>>

CommitSettings(p) ==
    /\ draft[p] # Nil
    /\ Commit([db EXCEPT !.settings = draft[p]])
    /\ draft' = [draft EXCEPT ![p] = Nil]
    /\ entry' = [entry EXCEPT !.missed = TRUE]
    /\ UNCHANGED <<settings, owed, changes>>

RollbackSettings(p) ==
    /\ draft[p] # Nil
    /\ draft' = [draft EXCEPT ![p] = Nil]
    /\ UNCHANGED <<db, entry, settings, check, owed, changes>>

(* Fault: the entry is set without an expiry.                              *)
EntryStays == FALSE

(* The TTLs of the two caches.                                             *)
EntryExpires ==
    /\ entry.state # Nil
    /\ entry' = NoEntry
    /\ UNCHANGED <<db, settings, draft, check, owed, changes>>

SettingsExpire(p) ==
    /\ settings[p] # Nil
    /\ settings' = [settings EXCEPT ![p] = Nil]
    /\ UNCHANGED <<db, entry, draft, check, owed, changes>>

-----------------------------------------------------------------------------
Init ==
    /\ db \in Rows
    /\ entry = NoEntry
    /\ settings = [p \in Procs |-> Nil]
    /\ draft = [p \in Procs |-> Nil]
    /\ check = [p \in Procs |-> Answered(Nil)]
    /\ owed = 0
    /\ changes = 0

CheckStep(p) ==
    \/ ReadTenant(p) \/ ReadSettings(p) \/ ReadWallet(p)
    \/ FillCache(p) \/ FailOpen(p)
SettingsStep(p) == CommitSettings(p) \/ RollbackSettings(p)

Next ==
    \/ \E p \in Procs :
        \/ HitCache(p) \/ MissCache(p) \/ LookupFails(p) \/ CheckStep(p)
        \/ SettingsStep(p) \/ SettingsExpire(p)
        \/ \E s \in Settings : UpdateSettings(p, s)
    \/ \E t \in Tenants, w \in Wallets : CommitRows(t, w)
    \/ invalidate_cache \/ InvalidationLost \/ EntryExpires

(* Requests end, and entries live for their TTL.                           *)
Fairness ==
    /\ WF_vars(EntryExpires)
    /\ WF_vars(invalidate_cache \/ InvalidationLost)
    /\ \A p \in Procs : /\ WF_vars(CheckStep(p)) /\ WF_vars(SettingsStep(p))
                        /\ WF_vars(SettingsExpire(p))

Spec == Init /\ [][Next]_vars /\ Fairness

-----------------------------------------------------------------------------
(* Properties.                                                             *)

(* The rows, the caches and the checkouts keep their shape.                *)
TypeOK ==
    /\ db \in Rows
    /\ entry \in [state : GateStates \cup {Nil}, missed : BOOLEAN, mixed : BOOLEAN]
    /\ settings \in [Procs -> Settings \cup {Nil}]
    /\ draft \in [Procs -> Settings \cup {Nil}]
    /\ check \in [Procs -> CheckRow]
    /\ owed \in Nat
    /\ changes \in Nat

EntryCurrent == entry.state \in {Nil, GateState(db)}
Excused == owed > 0 \/ entry.missed \/ entry.mixed

(* A cached state that is no longer the state of the rows has one of three *)
(* causes: the writer has yet to drop the entry, its drop was lost, or the *)
(* entry was filled late from rows that a commit had overtaken.            *)
StaleHasCause == EntryCurrent \/ Excused

(* No sale is lost to the infrastructure: a shopper is turned away only on *)
(* the state of the rows, on an excused entry, or on reads that a commit   *)
(* overtook - never because a read or the cache failed.                    *)
RefusalHasCause ==
    [][\A p \in Procs :
        LET now == check'[p].state IN
        (check'[p].pc = "idle" /\ now \in {"blocked", "not_live"}
            /\ check'[p] # check[p])
            => now = GateState(db) \/ Excused \/ check[p].mixed]_vars

(* The TTLs bound every staleness: once nothing changes any more, the gate *)
(* and every process's settings are right for good.                        *)
GateHeals ==
    <>[](EntryCurrent /\ \A p \in Procs : settings[p] \in {Nil, db.settings})

=============================================================================
