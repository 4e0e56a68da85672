-------------------------- MODULE WebhookDelivery --------------------------
(***************************************************************************)
(* Delivery of a store's events to the endpoints that subscribed to them.  *)
(*                                                                         *)
(* dispatch() writes one delivery log per matching subscription and fires  *)
(* the first attempt before the transaction that holds the logs commits.   *)
(* A beat task claims the logs that are due, pushing next_attempt_at a     *)
(* lease ahead, and creates an attempt for each.  An attempt copies the    *)
(* log, posts the payload, and writes the whole copy back.                 *)
(*                                                                         *)
(* The loop of a beat worker only turns while a task of it runs            *)
(* (webhook_tasks._run_async), so its attempts are suspended between ticks *)
(* and the lease may lapse while one is in flight: ComesDue waits for      *)
(* nobody.                                                                 *)
(***************************************************************************)
EXTENDS Integers, FiniteSets

CONSTANTS
    Logs,         \* the delivery logs, one per event and subscription
    Subs,         \* the subscriptions
    SubOf,        \* the subscription of each log
    Attempts,     \* the tasks running _attempt_delivery
    Pollers,      \* the worker processes that run the beat task
    MaxAttempts,  \* MAX_ATTEMPTS
    MaxCrashes,   \* bound on lost processes
    NoLog         \* no log is held

ASSUME WebhookAssumption ==
    /\ SubOf \in [Logs -> Subs]
    /\ MaxAttempts \in Nat \ {0}
    /\ MaxCrashes \in Nat
    /\ NoLog \notin Logs

VARIABLES
    log,      \* the rows of the delivery logs
    sub,      \* the state of each subscription
    attempt,  \* the delivery attempts in flight
    batch,    \* the logs each poller has claimed and not yet handled
    posts,    \* how often each log was really attempted, whatever was saved
    taken,    \* the logs the endpoint answered with a 2xx, heard or not
    refused,  \* the logs answered 410, or whose address is not allowed
    raced,    \* the logs claimed while an attempt or a claim held them
    crashes   \* processes lost so far

vars == <<log, sub, attempt, batch, posts, taken, refused, raced, crashes>>

-----------------------------------------------------------------------------
(* "flushed": written by a dispatch that has not committed, so invisible;  *)
(* "lost": rolled back with it; "purged": deleted.  next is                *)
(* next_attempt_at against the clock: reached, ahead of it, or null.       *)

LogStatuses == {"none", "flushed", "lost", "pending", "success", "exhausted",
                "purged"}
LogRow == [status : LogStatuses, count : Nat, next : {"due", "ahead", "null"}]
Visible(l) == log[l].status \in {"pending", "success", "exhausted"}

(* "withheld": active, but of a Partner App that may not receive data now,  *)
(* so that signing_secret returns None.                                     *)
SubStates == {"active", "withheld", "inactive", "deleted"}
is_active(s) == sub[s] \in {"active", "withheld"}

AttemptPcs == {"idle", "created", "posting", "answered", "exhausted"}
Origins == {"dispatch", "poller"}
AttemptRow == [pc : AttemptPcs, log : Logs \cup {NoLog}, by : Origins,
               count : Nat, outcome : {"none", "success", "retry", "gone"}]
NewAttempt(l, by) == [pc |-> "created", log |-> l, by |-> by, count |-> 0,
                      outcome |-> "none"]
NoAttempt == [NewAttempt(NoLog, "dispatch") EXCEPT !.pc = "idle"]

AttemptsOf(l) == {a \in Attempts : attempt[a].log = l}
Held(l) == AttemptsOf(l) # {} \/ \E w \in Pollers : l \in batch[w]

CreateAttempt(l, by) ==
    \E a \in Attempts :
        /\ attempt[a].pc = "idle"
        /\ attempt' = [attempt EXCEPT ![a] = NewAttempt(l, by)]

-----------------------------------------------------------------------------
(* WebhookDeliveryService.dispatch and the handler's commit after it.      *)

FreshLog == [status |-> "flushed", count |-> 0, next |-> "due"]

Dispatch(l) ==
    /\ log[l].status = "none"
    /\ is_active(SubOf[l])
    /\ log' = [log EXCEPT ![l] = FreshLog]
    /\ IF sub[SubOf[l]] = "active" THEN CreateAttempt(l, "dispatch")
                                   ELSE UNCHANGED attempt
    /\ UNCHANGED <<sub, batch, posts, taken, refused, raced, crashes>>

(* Fault: the handler writes its own copy of the log again, whenever.       *)
CommitDispatchLate(l) ==
    /\ Visible(l) \/ log[l].status = "flushed"
    /\ log' = [log EXCEPT ![l] = [FreshLog EXCEPT !.status = "pending"]]
    /\ UNCHANGED <<sub, attempt, batch, posts, taken, refused, raced, crashes>>

CommitDispatch(l) ==
    /\ log[l].status = "flushed"
    /\ log' = [log EXCEPT ![l].status = "pending"]
    /\ UNCHANGED <<sub, attempt, batch, posts, taken, refused, raced, crashes>>

-----------------------------------------------------------------------------
(* _attempt_delivery.  The log is read once, and is skipped when it is not *)
(* there or already delivered; every field is written back at the end.     *)

StartAttempt(a) ==
    LET l == attempt[a].log IN
    /\ attempt[a].pc = "created"
    /\ IF ~Visible(l) \/ log[l].status = "success"
       THEN attempt' = [attempt EXCEPT ![a] = NoAttempt]
       ELSE attempt' = [attempt EXCEPT
                           ![a] = [@ EXCEPT !.pc = "posting",
                                            !.count = log[l].count + 1]]
    /\ UNCHANGED <<log, sub, batch, posts, taken, refused, raced, crashes>>

Answer(a, outcome) ==
    /\ attempt[a].pc = "posting"
    /\ attempt' = [attempt EXCEPT ![a] = [@ EXCEPT !.pc = "answered",
                                                  !.outcome = outcome]]
    /\ posts' = [posts EXCEPT ![attempt[a].log] = @ + 1]

EndpointTakes(a) ==
    /\ \/ Answer(a, "success")
       \/ Answer(a, "retry")      \* it took the event, the answer never came
    /\ taken' = taken \cup {attempt[a].log}
    /\ UNCHANGED <<log, sub, batch, refused, raced, crashes>>

EndpointFails(a) ==
    /\ Answer(a, "retry")
    /\ UNCHANGED <<log, sub, batch, taken, refused, raced, crashes>>

(* 410, or UnsafeUrlError before anything is sent.                         *)
EndpointGone(a) ==
    /\ Answer(a, "gone")
    /\ refused' = refused \cup {attempt[a].log}
    /\ UNCHANGED <<log, sub, batch, taken, raced, crashes>>

(* The row an attempt writes: _schedule_retry for a retry.                 *)
Settled(status, count) == [status |-> status, count |-> count, next |-> "null"]
(* Faults: the retry index taken one too high, or one too low.              *)
ScheduleRetryEarly(count) ==
    IF count + 1 < MaxAttempts
    THEN [status |-> "pending", count |-> count, next |-> "ahead"]
    ELSE Settled("exhausted", count)
ScheduleRetryLate(count) ==
    IF count <= MaxAttempts
    THEN [status |-> "pending", count |-> count, next |-> "ahead"]
    ELSE Settled("exhausted", count)

ScheduleRetry(count) ==
    IF count < MaxAttempts
    THEN [status |-> "pending", count |-> count, next |-> "ahead"]
    ELSE Settled("exhausted", count)
Written(outcome, count) ==
    IF outcome = "retry" THEN ScheduleRetry(count)
    ELSE Settled(IF outcome = "gone" THEN "exhausted" ELSE "success", count)

SaveAttempt(a) ==
    LET l == attempt[a].log
        row == Written(attempt[a].outcome, attempt[a].count)
    IN
    /\ attempt[a].pc = "answered"
    /\ IF ~Visible(l)                       \* update() raises on a missing row
       THEN /\ attempt' = [attempt EXCEPT ![a] = NoAttempt]
            /\ UNCHANGED log
       ELSE /\ log' = [log EXCEPT ![l] = row]
            /\ attempt' = IF row.status = "exhausted"
                          THEN [attempt EXCEPT ![a].pc = "exhausted"]
                          ELSE [attempt EXCEPT ![a] = NoAttempt]
    /\ UNCHANGED <<sub, batch, posts, taken, refused, raced, crashes>>

SwitchOff(s) == IF is_active(s) THEN [sub EXCEPT ![s] = "inactive"] ELSE sub

DeactivateAndNotify(a) ==
    /\ attempt[a].pc = "exhausted"
    /\ sub' = SwitchOff(SubOf[attempt[a].log])
    /\ attempt' = [attempt EXCEPT ![a] = NoAttempt]
    /\ UNCHANGED <<log, batch, posts, taken, refused, raced, crashes>>

-----------------------------------------------------------------------------
(* The beat task: claim what is due, commit, create an attempt for each;   *)
(* delete settled logs once they are old.                                  *)

(* Fault: the poller takes retries only, trusting the first attempt to run. *)
IsDueForRetry(l) ==
    log[l].status = "pending" /\ log[l].next = "due" /\ log[l].count > 0

IsDue(l) == log[l].status = "pending" /\ log[l].next = "due"

Due == {l \in Logs : IsDue(l)}

(* Oldest first and at most a hundred, more than the logs of an instance:  *)
(* every due row is claimed, as no step here holds the lock of one.        *)
Claim(w) ==
    /\ batch[w] = {}
    /\ Due # {}
    /\ log' = [l \in Logs |-> IF IsDue(l) THEN [log[l] EXCEPT !.next = "ahead"]
                                          ELSE log[l]]
    /\ batch' = [batch EXCEPT ![w] = Due]
    /\ raced' = raced \cup {l \in Due : Held(l)}
    /\ UNCHANGED <<sub, attempt, posts, taken, refused, crashes>>

Handled(w, l) == batch' = [batch EXCEPT ![w] = @ \ {l}]

StartRetry(w, l) ==
    /\ l \in batch[w]
    /\ sub[SubOf[l]] = "active"
    /\ Handled(w, l)
    /\ CreateAttempt(l, "poller")
    /\ UNCHANGED <<log, sub, posts, taken, refused, raced, crashes>>

SkipRetry(w, l) ==
    /\ l \in batch[w]
    /\ sub[SubOf[l]] # "active"
    /\ Handled(w, l)
    /\ UNCHANGED <<log, sub, attempt, posts, taken, refused, raced, crashes>>

ComesDue(l) ==
    /\ log[l].next = "ahead"
    /\ log' = [log EXCEPT ![l].next = "due"]
    /\ UNCHANGED <<sub, attempt, batch, posts, taken, refused, raced, crashes>>

(* Fault: the purge goes by age alone.                                      *)
PurgeByAge(l) ==
    /\ Visible(l)
    /\ log' = [log EXCEPT ![l].status = "purged"]
    /\ UNCHANGED <<sub, attempt, batch, posts, taken, refused, raced, crashes>>

Purge(l) ==
    /\ log[l].status \in {"success", "exhausted"}
    /\ log' = [log EXCEPT ![l].status = "purged"]
    /\ UNCHANGED <<sub, attempt, batch, posts, taken, refused, raced, crashes>>

-----------------------------------------------------------------------------
(* The merchant edits or deletes the subscription, an app is suspended or  *)
(* comes back; processes are lost.                                         *)

UpdateSubscription(s, state) ==
    /\ sub[s] # "deleted"
    /\ sub' = [sub EXCEPT ![s] = state]
    /\ UNCHANGED <<log, attempt, batch, posts, taken, refused, raced, crashes>>

Lose == crashes < MaxCrashes /\ crashes' = crashes + 1

AttemptLost(a) ==
    /\ attempt[a].pc # "idle"
    /\ Lose
    /\ attempt' = [attempt EXCEPT ![a] = NoAttempt]
    /\ UNCHANGED <<log, sub, batch, posts, taken, refused, raced>>

PollerLost(w) ==
    /\ batch[w] # {}
    /\ Lose
    /\ batch' = [batch EXCEPT ![w] = {}]
    /\ UNCHANGED <<log, sub, attempt, posts, taken, refused, raced>>

(* The commit fails, or the process is lost before it.                     *)
DispatchLost(l) ==
    /\ log[l].status = "flushed"
    /\ Lose
    /\ log' = [log EXCEPT ![l] = Settled("lost", 0)]
    /\ UNCHANGED <<sub, attempt, batch, posts, taken, refused, raced>>

-----------------------------------------------------------------------------
Init ==
    /\ log = [l \in Logs |-> Settled("none", 0)]
    /\ sub = [s \in Subs |-> "active"]
    /\ attempt = [a \in Attempts |-> NoAttempt]
    /\ batch = [w \in Pollers |-> {}]
    /\ posts = [l \in Logs |-> 0]
    /\ taken = {}
    /\ refused = {}
    /\ raced = {}
    /\ crashes = 0

AttemptStep(a) ==
    \/ StartAttempt(a)
    \/ EndpointTakes(a)
    \/ EndpointFails(a)
    \/ EndpointGone(a)
    \/ SaveAttempt(a)
    \/ DeactivateAndNotify(a)

LogStep(l) == Dispatch(l) \/ CommitDispatch(l) \/ ComesDue(l) \/ Purge(l)

PollStep(w) ==
    \/ Claim(w)
    \/ \E l \in Logs : StartRetry(w, l) \/ SkipRetry(w, l)

LossStep ==
    \/ \E a \in Attempts : AttemptLost(a)
    \/ \E w \in Pollers : PollerLost(w)
    \/ \E l \in Logs : DispatchLost(l)

Next ==
    \/ \E a \in Attempts : AttemptStep(a)
    \/ \E l \in Logs : LogStep(l)
    \/ \E w \in Pollers : PollStep(w)
    \/ \E s \in Subs, state \in SubStates : UpdateSubscription(s, state)
    \/ LossStep

(* Attempts end (DELIVERY_TIMEOUT, and every tick turns the loop of its     *)
(* worker), the clock advances, and the beat fires every minute.            *)
Fairness ==
    /\ \A a \in Attempts : WF_vars(AttemptStep(a))
    /\ \A l \in Logs : WF_vars(CommitDispatch(l)) /\ WF_vars(ComesDue(l))
    /\ \A w \in Pollers :
        /\ WF_vars(Claim(w))
        /\ \A l \in Logs : SF_vars(StartRetry(w, l)) /\ WF_vars(SkipRetry(w, l))

Spec == Init /\ [][Next]_vars /\ Fairness

-----------------------------------------------------------------------------
(* Properties.                                                             *)

(* Every row, attempt and counter keeps its shape; an attempt in flight has *)
(* a log and an idle one has none.                                          *)
TypeOK ==
    /\ log \in [Logs -> LogRow]
    /\ sub \in [Subs -> SubStates]
    /\ attempt \in [Attempts -> AttemptRow]
    /\ \A a \in Attempts : attempt[a].log = NoLog <=> attempt[a].pc = "idle"
    /\ batch \in [Pollers -> SUBSET Logs]
    /\ posts \in [Logs -> Nat]
    /\ taken \subseteq Logs
    /\ refused \subseteq Logs
    /\ raced \subseteq Logs
    /\ crashes \in 0..MaxCrashes

GaveUpOn(l) ==
    \/ log[l].status = "exhausted"
    \/ \E a \in AttemptsOf(l) : attempt[a].pc = "exhausted"

(* A log is exhausted, and its subscription about to be switched off for    *)
(* it, only after the endpoint said it was gone or MAX_ATTEMPTS posts were  *)
(* really made, whatever the attempts overwrote of each other's counts.     *)
GivenUpHonestly ==
    \A l \in Logs : GaveUpOn(l) => l \in refused \/ posts[l] >= MaxAttempts

(* No event gets lost: a log that left the queue (delivered, exhausted or   *)
(* deleted by the purge) was taken by the endpoint or honestly given up on, *)
(* and one still in the queue has a next attempt.                           *)
AccountedFor ==
    \A l \in Logs :
        /\ log[l].status = "success" => l \in taken
        /\ log[l].status = "purged" =>
             l \in taken \cup refused \/ posts[l] >= MaxAttempts
        /\ log[l].status = "pending" => log[l].next # "null"

(* The ladder holds unless attempts overlap: more than MAX_ATTEMPTS posts   *)
(* of one log need a claim of it while it was still held, or a lost process.*)
LadderHolds ==
    \A l \in Logs :
        posts[l] > MaxAttempts => l \in raced \/ crashes > 0

(* A delivered log goes back to the queue, or is given up on, only when an  *)
(* overlapping attempt writes its stale copy over the success.              *)
DeliveredIsFinal ==
    [][\A l \in Logs :
        (log[l].status = "success" /\ log'[l].status \in {"pending", "exhausted"})
            => l \in raced]_vars

(* A worker lost in mid-attempt, or a poller lost with its batch, only      *)
(* delays: a committed log leaves the queue, unless its subscription is     *)
(* switched off, withheld or deleted.                                       *)
EventuallySettled ==
    \A l \in Logs :
        log[l].status = "pending"
            ~> (log[l].status # "pending" \/ sub[SubOf[l]] # "active")

(* What the claim is documented to ensure: the next tick does not re-select *)
(* a log while an attempt that a tick created for it is still in flight.    *)
ClaimedOnce ==
    [][\A w \in Pollers, l \in Logs :
        (l \in batch'[w] /\ l \notin batch[w])
            => \A a \in AttemptsOf(l) : attempt[a].by = "dispatch"]_vars

=============================================================================
