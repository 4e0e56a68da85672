---------------------- MODULE WebhookDelivery_proofs ----------------------
(***************************************************************************)
(* Proofs about WebhookDelivery.  Inv says what the counts of rows and of  *)
(* the copies of attempts are bounded by, and, for a log that was never    *)
(* claimed while something held it, that it has one holder and that the    *)
(* holder's copy is current.                                               *)
(***************************************************************************)
EXTENDS WebhookDelivery, TLAPS

(* What the counts and outcomes of rows and attempts rest on.              *)
Tried(l) == l \in refused \/ posts[l] >= MaxAttempts

RowsHonest ==
    \A l \in Logs :
        /\ log[l].count <= posts[l]
        /\ log[l].status = "success" => l \in taken
        /\ log[l].status = "exhausted" => Tried(l)
        /\ log[l].status = "purged" => l \in taken \/ Tried(l)
        /\ log[l].status = "pending" =>
             log[l].next # "null" /\ log[l].count < MaxAttempts
        /\ log[l].status \in {"none", "flushed"} => log[l].count = 0
        /\ log[l].status = "flushed" => log[l].next # "null"

AttemptHonest(a) ==
    LET l == attempt[a].log IN
    /\ attempt[a].pc = "posting" => attempt[a].count <= posts[l] + 1
    /\ attempt[a].pc = "answered" =>
         /\ attempt[a].count <= posts[l]
         /\ attempt[a].outcome # "none"
         /\ attempt[a].outcome = "success" => l \in taken
         /\ attempt[a].outcome = "gone" => l \in refused
    /\ attempt[a].pc = "exhausted" => Tried(l)

AttemptsHonest == \A a \in Attempts : AttemptHonest(a)

(* A log that was never claimed while held has one holder at a time, and   *)
(* its row says what that holder saw.                                      *)
OneHolder(l) ==
    /\ \A a, b \in Attempts : attempt[a].log = l /\ attempt[b].log = l => a = b
    /\ \A w \in Pollers, a \in Attempts :
         ~(l \in batch[w] /\ attempt[a].log = l)
    /\ \A w, x \in Pollers : l \in batch[w] /\ l \in batch[x] => w = x

HolderCurrent(l) ==
    /\ \A w \in Pollers : l \in batch[w] => log[l].status = "pending"
    /\ \A a \in Attempts : attempt[a].log = l =>
        /\ attempt[a].pc = "created" =>
             log[l].status \in {"flushed", "lost", "pending"}
        /\ attempt[a].pc \in {"posting", "answered"} =>
             /\ log[l].status = "pending"
             /\ attempt[a].count = log[l].count + 1

Answered(l) == \E a \in Attempts : attempt[a].log = l /\ attempt[a].pc = "answered"

CountsExact(l) ==
    posts[l] = IF Answered(l) THEN log[l].count + 1 ELSE log[l].count

Undisturbed ==
    \A l \in Logs : l \notin raced =>
        /\ OneHolder(l)
        /\ HolderCurrent(l)
        /\ crashes = 0 => CountsExact(l) /\ log[l].count <= MaxAttempts

NewUnheld ==
    \A l \in Logs :
        /\ log[l].status = "none" => ~Held(l)
        /\ log[l].status = "flushed" => \A w \in Pollers : l \notin batch[w]

Inv == TypeOK /\ RowsHonest /\ AttemptsHonest /\ NewUnheld /\ Undisturbed

-----------------------------------------------------------------------------
(* Every action preserves Inv.                                             *)

LEMMA NoAttemptType ==
    /\ NoAttempt \in AttemptRow
    /\ NoAttempt.pc = "idle" /\ NoAttempt.log = NoLog
BY DEF NoAttempt, NewAttempt, AttemptRow, AttemptPcs, Origins

(* The three ways an attempt's record is updated.                           *)
LEMMA AttemptPosts ==
    ASSUME NEW r \in AttemptRow, NEW n \in Nat
    PROVE  LET u == [r EXCEPT !.pc = "posting", !.count = n]
           IN  u \in AttemptRow /\ u.pc = "posting" /\ u.log = r.log /\ u.count = n
BY DEF AttemptRow, AttemptPcs

LEMMA AttemptAnswered ==
    ASSUME NEW r \in AttemptRow, NEW outcome \in {"success", "retry", "gone"}
    PROVE  LET u == [r EXCEPT !.pc = "answered", !.outcome = outcome]
           IN  /\ u \in AttemptRow /\ u.pc = "answered" /\ u.log = r.log
               /\ u.outcome = outcome /\ u.count = r.count
BY DEF AttemptRow, AttemptPcs

LEMMA AttemptExhausted ==
    ASSUME NEW r \in AttemptRow
    PROVE  LET u == [r EXCEPT !.pc = "exhausted"]
           IN  u \in AttemptRow /\ u.pc = "exhausted" /\ u.log = r.log
BY DEF AttemptRow, AttemptPcs

(* Dropping an attempt that is neither answered, nor the first of its log,  *)
(* disturbs nothing.                                                        *)
LEMMA DropAttemptInv ==
    ASSUME Inv, NEW a \in Attempts,
           attempt' = [attempt EXCEPT ![a] = NoAttempt],
           attempt[a].pc # "answered" \/ attempt[a].log \in raced,
           UNCHANGED <<log, sub, batch, posts, taken, refused, raced, crashes>>
    PROVE  Inv'
<1> USE WebhookAssumption, NoAttemptType DEF Inv
<1>1. TypeOK'
    BY DEF TypeOK
<1>2. RowsHonest'
    BY DEF RowsHonest, Tried
<1>3. AttemptsHonest'
    BY DEF AttemptsHonest, AttemptHonest, Tried, TypeOK
<1>4. \A b \in Attempts, k \in Logs : attempt'[b].log = k =>
        b # a /\ attempt'[b] = attempt[b] /\ attempt[b].log = k
    BY DEF TypeOK
<1>5. NewUnheld'
    BY <1>4 DEF NewUnheld, Held, AttemptsOf
<1>6. ASSUME NEW k \in Logs, k \notin raced'
      PROVE  /\ OneHolder(k)'
             /\ HolderCurrent(k)'
             /\ crashes' = 0 => CountsExact(k)' /\ log'[k].count <= MaxAttempts
  <2>0. /\ OneHolder(k) /\ HolderCurrent(k)
        /\ crashes = 0 => CountsExact(k) /\ log[k].count <= MaxAttempts
    BY <1>6 DEF Undisturbed
  <2>1. OneHolder(k)'
    BY <2>0, <1>4 DEF OneHolder
  <2>2. HolderCurrent(k)'
    BY <2>0, <1>4 DEF HolderCurrent
  <2>3. Answered(k)' <=> Answered(k)
    BY <1>4, <1>6 DEF Answered, TypeOK
  <2>4. QED
    BY <2>0, <2>1, <2>2, <2>3 DEF CountsExact
<1>7. Undisturbed'
    BY <1>6 DEF Undisturbed
<1>8. QED
    BY <1>1, <1>2, <1>3, <1>5, <1>7

(* An answer to the post of an attempt, whatever it says.                   *)
LEMMA AnswerInv ==
    ASSUME Inv, NEW a \in Attempts, NEW outcome \in {"success", "retry", "gone"},
           Answer(a, outcome),
           taken \subseteq taken', refused \subseteq refused',
           taken' \subseteq Logs, refused' \subseteq Logs,
           outcome = "success" => attempt[a].log \in taken',
           outcome = "gone" => attempt[a].log \in refused',
           UNCHANGED <<log, sub, batch, raced, crashes>>
    PROVE  Inv'
<1> USE WebhookAssumption DEF Inv
<1> DEFINE l == attempt[a].log
           row == [attempt[a] EXCEPT !.pc = "answered", !.outcome = outcome]
<1>1. /\ attempt[a].pc = "posting"
      /\ attempt' = [attempt EXCEPT ![a] = row]
      /\ posts' = [posts EXCEPT ![l] = posts[l] + 1]
    BY DEF Answer
<1>2. /\ l \in Logs /\ posts[l] \in Nat /\ attempt[a].count \in Nat
      /\ attempt[a].count <= posts[l] + 1
    BY <1>1 DEF TypeOK, AttemptRow, AttemptsHonest, AttemptHonest
<1>3. /\ row \in AttemptRow
      /\ row.pc = "answered" /\ row.log = l /\ row.outcome = outcome
      /\ row.count = attempt[a].count
  <2>1. attempt[a] \in AttemptRow
    BY DEF TypeOK
  <2>2. [attempt[a] EXCEPT !.pc = "answered", !.outcome = outcome] \in AttemptRow
    BY <2>1, AttemptAnswered
  <2>3. QED
    BY <2>1, <2>2 DEF AttemptRow
<1> HIDE DEF row
<1>4. \A k \in Logs : posts'[k] \in Nat /\ posts'[k] >= posts[k]
    BY <1>1, <1>2 DEF TypeOK
<1>5. TypeOK'
    BY <1>1, <1>2, <1>3, <1>4 DEF TypeOK
<1>6. \A k \in Logs : Tried(k) => Tried(k)'
    BY <1>4 DEF Tried, TypeOK
<1>7. RowsHonest'
    BY <1>4, <1>6 DEF RowsHonest, TypeOK, LogRow
<1>8. AttemptsHonest'
  <2> SUFFICES ASSUME NEW b \in Attempts PROVE AttemptHonest(b)'
    BY DEF AttemptsHonest
  <2>1. CASE b = a
    BY <2>1, <1>1, <1>2, <1>3 DEF TypeOK, AttemptHonest
  <2>2. CASE b # a /\ attempt[b].pc = "idle"
    BY <2>2, <1>1 DEF TypeOK, AttemptHonest
  <2>3. CASE b # a /\ attempt[b].pc # "idle"
    <3>1. attempt'[b] = attempt[b] /\ attempt[b].log \in Logs /\ attempt[b].count \in Nat
        BY <2>3, <1>1 DEF TypeOK, AttemptRow
    <3>2. posts[attempt[b].log] \in Nat
        BY <3>1 DEF TypeOK
    <3>3. QED
        <4>1. AttemptHonest(b)
            BY DEF AttemptsHonest
        <4>2. QED
            BY <3>1, <3>2, <1>4, <1>6, <4>1 DEF AttemptHonest
  <2>4. QED
    BY <2>1, <2>2, <2>3
<1>9. \A b \in Attempts : attempt'[b].log = attempt[b].log
    BY <1>1, <1>3 DEF TypeOK
<1>10. NewUnheld'
    BY <1>9 DEF NewUnheld, Held, AttemptsOf
<1>11. ASSUME NEW k \in Logs, k \notin raced'
       PROVE  /\ OneHolder(k)'
              /\ HolderCurrent(k)'
              /\ crashes' = 0 => CountsExact(k)' /\ log'[k].count <= MaxAttempts
  <2>0. /\ OneHolder(k) /\ HolderCurrent(k)
        /\ crashes = 0 => CountsExact(k) /\ log[k].count <= MaxAttempts
    BY <1>11 DEF Undisturbed
  <2>1. OneHolder(k)'
    BY <2>0, <1>9 DEF OneHolder
  <2>2. \A b \in Attempts : /\ attempt'[b].count = attempt[b].count
                            /\ b # a => attempt'[b] = attempt[b]
    BY <1>1, <1>3 DEF TypeOK
  <2>3. HolderCurrent(k)'
    BY <2>0, <1>1, <1>3, <1>9, <2>2 DEF HolderCurrent, TypeOK
  <2>4. CASE k # l
    <3>1. Answered(k)' <=> Answered(k)
        BY <2>4, <1>1, <1>9, <2>2 DEF Answered
    <3>2. posts'[k] = posts[k]
        BY <2>4, <1>1 DEF TypeOK
    <3>3. QED
        BY <2>0, <2>1, <2>3, <3>1, <3>2 DEF CountsExact
  <2>5. CASE k = l
    <3>1. \A b \in Attempts : attempt[b].log = k => b = a
        BY <2>0, <2>5 DEF OneHolder
    <3>2. ~Answered(k)
        BY <3>1, <1>1 DEF Answered
    <3>3. attempt'[a] = row
        BY <1>1 DEF TypeOK
    <3>4. Answered(k)'
        BY <2>5, <3>3, <1>3 DEF Answered
    <3>5. posts'[k] = posts[k] + 1
        BY <2>5, <1>1 DEF TypeOK
    <3>6. QED
        BY <2>0, <2>1, <2>3, <3>2, <3>4, <3>5 DEF CountsExact
  <2>6. QED
    BY <2>4, <2>5
<1>12. Undisturbed'
    BY <1>11 DEF Undisturbed
<1>13. QED
    BY <1>5, <1>7, <1>8, <1>10, <1>12

LEMMA EndpointTakesInv ==
    ASSUME Inv, NEW a \in Attempts, EndpointTakes(a)
    PROVE  Inv'
<1>1. attempt[a].log \in Logs /\ taken \subseteq Logs /\ refused \subseteq Logs
    BY DEF Inv, TypeOK, EndpointTakes, Answer, AttemptRow
<1>2. CASE Answer(a, "success")
    BY <1>1, <1>2, AnswerInv DEF EndpointTakes
<1>3. CASE Answer(a, "retry")
    BY <1>1, <1>3, AnswerInv DEF EndpointTakes
<1>4. QED
    BY <1>2, <1>3 DEF EndpointTakes

LEMMA EndpointFailsInv ==
    ASSUME Inv, NEW a \in Attempts, EndpointFails(a)
    PROVE  Inv'
<1>1. taken \subseteq Logs /\ refused \subseteq Logs
    BY DEF Inv, TypeOK
<1>2. QED
    BY <1>1, AnswerInv DEF EndpointFails

LEMMA EndpointGoneInv ==
    ASSUME Inv, NEW a \in Attempts, EndpointGone(a)
    PROVE  Inv'
<1>1. attempt[a].log \in Logs /\ taken \subseteq Logs /\ refused \subseteq Logs
    BY DEF Inv, TypeOK, EndpointGone, Answer, AttemptRow
<1>2. QED
    BY <1>1, AnswerInv DEF EndpointGone

LEMMA DispatchInv ==
    ASSUME Inv, NEW l \in Logs, Dispatch(l)
    PROVE  Inv'
<1> USE WebhookAssumption DEF Inv
<1> DEFINE new == NewAttempt(l, "dispatch")
<1>0. /\ FreshLog \in LogRow
      /\ FreshLog.status = "flushed" /\ FreshLog.count = 0 /\ FreshLog.next = "due"
    BY DEF FreshLog, LogRow, LogStatuses
<1>1. /\ new \in AttemptRow
      /\ new.pc = "created" /\ new.log = l
    BY DEF NewAttempt, AttemptRow, AttemptPcs, Origins
<1>2. /\ log[l].status = "none"
      /\ log' = [log EXCEPT ![l] = FreshLog]
      /\ UNCHANGED <<sub, batch, posts, taken, refused, raced, crashes>>
    BY DEF Dispatch
<1>3. CASE attempt' = attempt
  <2>1. TypeOK'
    BY <1>0, <1>2, <1>3 DEF TypeOK
  <2>2. RowsHonest'
    BY <1>0, <1>2, <1>3 DEF RowsHonest, Tried, TypeOK, LogRow
  <2>3. AttemptsHonest'
    BY <1>2, <1>3 DEF AttemptsHonest, AttemptHonest, Tried
  <2>4. NewUnheld'
    BY <1>0, <1>2, <1>3 DEF NewUnheld, Held, AttemptsOf, TypeOK
  <2>5. Undisturbed'
    BY <1>0, <1>2, <1>3 DEF Undisturbed, RowsHonest, NewUnheld, Held,
       AttemptsOf, OneHolder, HolderCurrent, CountsExact, Answered, TypeOK
  <2>6. QED
    BY <2>1, <2>2, <2>3, <2>4, <2>5
<1>4. CASE \E a \in Attempts : /\ attempt[a].pc = "idle"
                               /\ attempt' = [attempt EXCEPT ![a] = new]
  <2>0. PICK a \in Attempts : /\ attempt[a].pc = "idle"
                              /\ attempt' = [attempt EXCEPT ![a] = new]
    BY <1>4
  <2> HIDE DEF new
  <2>1. TypeOK'
    BY <1>0, <1>1, <1>2, <2>0 DEF TypeOK
  <2>2. RowsHonest'
    BY <1>0, <1>2 DEF RowsHonest, Tried, TypeOK, LogRow
  <2>3. AttemptsHonest'
    BY <1>1, <1>2, <2>0 DEF AttemptsHonest, AttemptHonest, Tried, TypeOK
  <2>4. NewUnheld'
    BY <1>0, <1>1, <1>2, <2>0 DEF NewUnheld, Held, AttemptsOf, TypeOK
  <2>5. ~Held(l)
    BY <1>2 DEF NewUnheld
  <2>6. ASSUME NEW k \in Logs, k \notin raced'
        PROVE  /\ OneHolder(k)'
               /\ HolderCurrent(k)'
               /\ crashes' = 0 => CountsExact(k)' /\ log'[k].count <= MaxAttempts
    <3>0. /\ OneHolder(k) /\ HolderCurrent(k)
          /\ crashes = 0 => CountsExact(k) /\ log[k].count <= MaxAttempts
        BY <1>2, <2>6 DEF Undisturbed
    <3>1. OneHolder(k)'
        BY <3>0, <1>1, <1>2, <2>0, <2>5 DEF OneHolder, Held, AttemptsOf, TypeOK
    <3>2. HolderCurrent(k)'
        BY <3>0, <1>0, <1>1, <1>2, <2>0, <2>5 DEF HolderCurrent, Held,
           AttemptsOf, TypeOK
    <3>3. log[l].count = 0
        BY <1>2 DEF RowsHonest
    <3>4. Answered(k)' <=> Answered(k)
        BY <1>1, <2>0 DEF Answered, TypeOK
    <3>5. log'[k].count = log[k].count
        BY <1>0, <1>2, <3>3 DEF TypeOK
    <3>6. QED
        BY <3>0, <3>1, <3>2, <3>4, <3>5, <1>2 DEF CountsExact
  <2>7. Undisturbed'
    BY <2>6 DEF Undisturbed
  <2>8. QED
    BY <2>1, <2>2, <2>3, <2>4, <2>7
<1>5. QED
    BY <1>3, <1>4 DEF Dispatch, CreateAttempt

LEMMA CommitDispatchInv ==
    ASSUME Inv, NEW l \in Logs, CommitDispatch(l)
    PROVE  Inv'
<1> USE WebhookAssumption DEF Inv
<1>1. TypeOK'
    BY DEF TypeOK, LogRow, LogStatuses, AttemptRow, AttemptPcs, Origins,
       SubStates, CommitDispatch
<1>2. RowsHonest'
    BY DEF RowsHonest, AttemptsHonest, AttemptHonest, Tried, TypeOK, LogRow,
       LogStatuses, AttemptRow, AttemptPcs, Origins, SubStates,
       CommitDispatch
<1>3. AttemptsHonest'
    BY DEF RowsHonest, AttemptsHonest, AttemptHonest, Tried, TypeOK, LogRow,
       LogStatuses, AttemptRow, AttemptPcs, Origins, SubStates,
       CommitDispatch
<1>4. NewUnheld'
    BY DEF NewUnheld, Held, AttemptsOf, TypeOK, LogRow, LogStatuses,
       AttemptRow, AttemptPcs, Origins, SubStates, CommitDispatch
<1>5. Undisturbed'
    BY DEF Undisturbed, NewUnheld, RowsHonest, OneHolder, HolderCurrent,
       CountsExact, Answered, Held, AttemptsOf, TypeOK, LogRow, LogStatuses,
       AttemptRow, AttemptPcs, Origins, SubStates, CommitDispatch
<1>6. QED
    BY <1>1, <1>2, <1>3, <1>4, <1>5

LEMMA ComesDueInv ==
    ASSUME Inv, NEW l \in Logs, ComesDue(l)
    PROVE  Inv'
<1> USE WebhookAssumption DEF Inv
<1>1. TypeOK'
  <2>1. [log[l] EXCEPT !.next = "due"] \in LogRow
    BY DEF TypeOK, LogRow
  <2>2. log' \in [Logs -> LogRow]
    BY <2>1 DEF TypeOK, ComesDue
  <2>3. QED
    BY <2>2 DEF TypeOK, ComesDue
<1>2. RowsHonest'
    BY DEF RowsHonest, AttemptsHonest, AttemptHonest, Tried, TypeOK, LogRow,
       LogStatuses, AttemptRow, AttemptPcs, Origins, SubStates, ComesDue
<1>3. AttemptsHonest'
    BY DEF RowsHonest, AttemptsHonest, AttemptHonest, Tried, TypeOK, LogRow,
       LogStatuses, AttemptRow, AttemptPcs, Origins, SubStates, ComesDue
<1>4. NewUnheld'
    BY DEF NewUnheld, Held, AttemptsOf, TypeOK, LogRow, LogStatuses,
       AttemptRow, AttemptPcs, Origins, SubStates, ComesDue
<1>5. Undisturbed'
    BY DEF Undisturbed, NewUnheld, RowsHonest, OneHolder, HolderCurrent,
       CountsExact, Answered, Held, AttemptsOf, TypeOK, LogRow, LogStatuses,
       AttemptRow, AttemptPcs, Origins, SubStates, ComesDue
<1>6. QED
    BY <1>1, <1>2, <1>3, <1>4, <1>5

LEMMA PurgeInv ==
    ASSUME Inv, NEW l \in Logs, Purge(l)
    PROVE  Inv'
<1> USE WebhookAssumption DEF Inv
<1>1. TypeOK'
  <2>1. [log[l] EXCEPT !.status = "purged"] \in LogRow
    BY DEF TypeOK, LogRow, LogStatuses
  <2>2. QED
    BY <2>1 DEF TypeOK, Purge
<1>2. RowsHonest'
    BY DEF RowsHonest, AttemptsHonest, AttemptHonest, Tried, TypeOK, LogRow,
       LogStatuses, Purge
<1>3. AttemptsHonest'
    BY DEF AttemptsHonest, AttemptHonest, Tried, Purge
<1>4. NewUnheld'
    BY DEF NewUnheld, Held, AttemptsOf, TypeOK, LogRow, Purge
<1>5. Undisturbed'
    BY DEF Undisturbed, OneHolder, HolderCurrent, CountsExact, Answered,
       TypeOK, LogRow, LogStatuses, Purge
<1>6. QED
    BY <1>1, <1>2, <1>3, <1>4, <1>5

LEMMA StartAttemptInv ==
    ASSUME Inv, NEW a \in Attempts, StartAttempt(a)
    PROVE  Inv'
<1> USE WebhookAssumption DEF Inv
<1> DEFINE l == attempt[a].log
           row == [attempt[a] EXCEPT !.pc = "posting", !.count = log[l].count + 1]
<1>1. /\ attempt[a].pc = "created"
      /\ UNCHANGED <<log, sub, batch, posts, taken, refused, raced, crashes>>
    BY DEF StartAttempt
<1>2. l \in Logs
    BY <1>1 DEF TypeOK, AttemptRow
<1>3. CASE attempt' = [attempt EXCEPT ![a] = NoAttempt]
    BY <1>1, <1>3, DropAttemptInv
<1>4. CASE /\ attempt' = [attempt EXCEPT ![a] = row]
           /\ Visible(l) /\ log[l].status # "success"
  <2>1. /\ row \in AttemptRow
        /\ row.pc = "posting" /\ row.log = l /\ row.count = log[l].count + 1
    <3>1. attempt[a] \in AttemptRow /\ log[l].count + 1 \in Nat
        BY <1>2 DEF TypeOK, LogRow
    <3>2. QED
        BY <3>1, AttemptPosts
  <2> HIDE DEF row
  <2>2. TypeOK'
    BY <1>1, <1>2, <1>4, <2>1 DEF TypeOK
  <2>3. RowsHonest'
    BY <1>1 DEF RowsHonest, Tried
  <2>4. log[l].count <= posts[l]
    BY <1>2 DEF RowsHonest
  <2>5. AttemptsHonest'
    BY <1>1, <1>2, <1>4, <2>1, <2>4 DEF AttemptsHonest, AttemptHonest,
       Tried, TypeOK, LogRow
  <2>6. \A b \in Attempts : attempt'[b].log = attempt[b].log
    BY <1>4, <2>1 DEF TypeOK
  <2>7. NewUnheld'
    BY <1>1, <2>6 DEF NewUnheld, Held, AttemptsOf
  <2>8. ASSUME NEW k \in Logs, k \notin raced'
        PROVE  /\ OneHolder(k)'
               /\ HolderCurrent(k)'
               /\ crashes' = 0 => CountsExact(k)' /\ log'[k].count <= MaxAttempts
    <3>0. /\ OneHolder(k) /\ HolderCurrent(k)
          /\ crashes = 0 => CountsExact(k) /\ log[k].count <= MaxAttempts
        BY <1>1, <2>8 DEF Undisturbed
    <3>1. OneHolder(k)'
        BY <3>0, <1>1, <2>6 DEF OneHolder
    <3>2. k = l => log[k].status = "pending"
        BY <3>0, <1>1, <1>4 DEF HolderCurrent, Visible
    <3>3. HolderCurrent(k)'
        BY <3>0, <3>2, <1>1, <1>4, <2>1, <2>6 DEF HolderCurrent, TypeOK
    <3>4. Answered(k)' <=> Answered(k)
        BY <1>1, <1>4, <2>1 DEF Answered, TypeOK
    <3>5. QED
        BY <3>0, <3>1, <3>3, <3>4, <1>1 DEF CountsExact
  <2>9. Undisturbed'
    BY <2>8 DEF Undisturbed
  <2>10. QED
    BY <2>2, <2>3, <2>5, <2>7, <2>9
<1>5. QED
    BY <1>3, <1>4 DEF StartAttempt

LEMMA SaveAttemptInv ==
    ASSUME Inv, NEW a \in Attempts, SaveAttempt(a)
    PROVE  Inv'
<1> USE WebhookAssumption DEF Inv
<1> DEFINE l == attempt[a].log
           row == Written(attempt[a].outcome, attempt[a].count)
           done == [attempt[a] EXCEPT !.pc = "exhausted"]
<1>1. /\ attempt[a].pc = "answered"
      /\ UNCHANGED <<sub, batch, posts, taken, refused, raced, crashes>>
    BY DEF SaveAttempt
<1>2. l \in Logs /\ posts[l] \in Nat /\ attempt[a].count \in Nat
    BY <1>1 DEF TypeOK, AttemptRow
<1>3. /\ attempt[a].count <= posts[l]
      /\ attempt[a].outcome \in {"success", "retry", "gone"}
      /\ attempt[a].outcome = "success" => l \in taken
      /\ attempt[a].outcome = "gone" => l \in refused
    BY <1>1, <1>2 DEF AttemptsHonest, AttemptHonest, TypeOK, AttemptRow
<1>4. /\ row \in LogRow
      /\ row.count = attempt[a].count
      /\ row.status \in {"success", "exhausted", "pending"}
      /\ row.status = "success" => l \in taken
      /\ row.status = "exhausted" => Tried(l)
      /\ row.status = "pending" => row.next = "ahead" /\ row.count < MaxAttempts
    BY <1>2, <1>3 DEF Written, ScheduleRetry, Settled, LogRow, LogStatuses, Tried
<1>5. /\ done \in AttemptRow
      /\ done.pc = "exhausted" /\ done.log = l
  <2>1. attempt[a] \in AttemptRow
    BY DEF TypeOK
  <2>2. QED
    BY <2>1, AttemptExhausted
<1>6. /\ NoAttempt \in AttemptRow
      /\ NoAttempt.pc = "idle" /\ NoAttempt.log = NoLog
    BY NoAttemptType
<1>7. CASE log' = log /\ attempt' = [attempt EXCEPT ![a] = NoAttempt] /\ ~Visible(l)
  <2>1. l \in raced
    BY <1>1, <1>2, <1>7 DEF Undisturbed, HolderCurrent, Visible
  <2>2. QED
    BY <1>1, <1>7, <2>1, DropAttemptInv
<1>8. CASE /\ Visible(l)
           /\ log' = [log EXCEPT ![l] = row]
           /\ attempt' = IF row.status = "exhausted"
                         THEN [attempt EXCEPT ![a] = done]
                         ELSE [attempt EXCEPT ![a] = NoAttempt]
  <2> DEFINE next == IF row.status = "exhausted" THEN done ELSE NoAttempt
  <2>1. /\ attempt' = [attempt EXCEPT ![a] = next]
        /\ next \in AttemptRow
        /\ next.pc \in {"exhausted", "idle"}
        /\ next.log = NoLog <=> next.pc = "idle"
        /\ next.pc = "exhausted" => next.log = l /\ row.status = "exhausted"
        /\ next.log \in {l, NoLog}
    BY <1>2, <1>5, <1>6, <1>8
  <2> HIDE DEF next, row, done
  <2>2. TypeOK'
    BY <1>1, <1>2, <1>4, <1>8, <2>1 DEF TypeOK
  <2>3. RowsHonest'
    BY <1>1, <1>2, <1>3, <1>4, <1>8 DEF RowsHonest, Tried, TypeOK
  <2>4. AttemptsHonest'
    BY <1>1, <1>2, <1>4, <2>1 DEF AttemptsHonest, AttemptHonest, Tried, TypeOK
  <2>5. NewUnheld'
    <3>1. \A k \in Logs : log'[k].status = "none" => log[k].status = "none"
        BY <1>4, <1>8, <1>2 DEF TypeOK
    <3>2. \A k \in Logs : log'[k].status = "flushed" => log[k].status = "flushed"
        BY <1>4, <1>8, <1>2 DEF TypeOK
    <3>3. \A b \in Attempts, k \in Logs : attempt'[b].log = k => attempt[b].log = k
        BY <2>1 DEF TypeOK
    <3>4. QED
        BY <3>1, <3>2, <3>3, <1>1 DEF NewUnheld, Held, AttemptsOf
  <2>6. ASSUME NEW k \in Logs, k \notin raced'
        PROVE  /\ OneHolder(k)'
               /\ HolderCurrent(k)'
               /\ crashes' = 0 => CountsExact(k)' /\ log'[k].count <= MaxAttempts
    <3>0. /\ OneHolder(k) /\ HolderCurrent(k)
          /\ crashes = 0 => CountsExact(k) /\ log[k].count <= MaxAttempts
        BY <1>1, <2>6 DEF Undisturbed
    <3>1. \A b \in Attempts : attempt'[b].log = k => attempt[b].log = k
        BY <2>1 DEF TypeOK
    <3>2. OneHolder(k)'
        BY <3>0, <3>1, <1>1 DEF OneHolder
    <3>3. CASE k # l
      <4>1. log'[k] = log[k]
        BY <1>8, <3>3 DEF TypeOK
      <4>2. \A b \in Attempts : attempt'[b].log = k => attempt'[b] = attempt[b]
        BY <2>1, <3>3 DEF TypeOK
      <4>3. Answered(k)' <=> Answered(k)
        BY <2>1, <3>3 DEF Answered, TypeOK
      <4>4. HolderCurrent(k)'
        BY <3>0, <3>1, <4>1, <4>2, <1>1 DEF HolderCurrent
      <4>5. QED
        BY <3>0, <3>2, <4>1, <4>3, <4>4, <1>1 DEF CountsExact
    <3>4. CASE k = l
      <4>1. /\ log[k].status = "pending"
            /\ attempt[a].count = log[k].count + 1
            /\ \A w \in Pollers : k \notin batch[w]
            /\ \A b \in Attempts : attempt[b].log = k => b = a
        BY <3>0, <3>4, <1>1 DEF HolderCurrent, OneHolder
      <4>2. log'[k] = row
        BY <1>8, <3>4 DEF TypeOK
      <4>3. \A b \in Attempts : attempt'[b].log = k =>
                attempt'[b].pc \in {"exhausted", "idle"}
        BY <2>1, <3>1, <4>1 DEF TypeOK
      <4>4. HolderCurrent(k)'
        BY <4>1, <4>3, <1>1 DEF HolderCurrent
      <4>5. ~Answered(k)' /\ Answered(k)
        BY <4>3, <3>4, <1>1 DEF Answered
      <4>6. row.count = log[k].count + 1 /\ log[k].count \in Nat
        BY <4>1, <1>4 DEF TypeOK, LogRow
      <4>7. log[k].count < MaxAttempts
        BY <4>1 DEF RowsHonest
      <4>8. QED
        BY <3>0, <3>2, <4>2, <4>4, <4>5, <4>6, <4>7, <1>1 DEF CountsExact
    <3>5. QED
        BY <3>3, <3>4
  <2>7. Undisturbed'
    BY <2>6 DEF Undisturbed
  <2>8. QED
    BY <2>2, <2>3, <2>4, <2>5, <2>7
<1>9. QED
    BY <1>7, <1>8 DEF SaveAttempt

LEMMA DeactivateAndNotifyInv ==
    ASSUME Inv, NEW a \in Attempts, DeactivateAndNotify(a)
    PROVE  Inv'
<1> USE WebhookAssumption DEF Inv
<1>1. TypeOK'
    BY DEF TypeOK, LogRow, LogStatuses, AttemptRow, AttemptPcs, Origins,
       SubStates, DeactivateAndNotify, SwitchOff, NoAttempt, NewAttempt
<1>2. RowsHonest'
    BY DEF RowsHonest, AttemptsHonest, AttemptHonest, Tried, TypeOK, LogRow,
       LogStatuses, AttemptRow, AttemptPcs, Origins, SubStates,
       DeactivateAndNotify, SwitchOff, NoAttempt, NewAttempt
<1>3. AttemptsHonest'
    BY DEF RowsHonest, AttemptsHonest, AttemptHonest, Tried, TypeOK, LogRow,
       LogStatuses, AttemptRow, AttemptPcs, Origins, SubStates,
       DeactivateAndNotify, SwitchOff, NoAttempt, NewAttempt
<1>4. NewUnheld'
    BY DEF NewUnheld, Held, AttemptsOf, TypeOK, LogRow, LogStatuses,
       AttemptRow, AttemptPcs, Origins, SubStates, DeactivateAndNotify,
       SwitchOff, NoAttempt, NewAttempt
<1>5. Undisturbed'
    BY DEF Undisturbed, NewUnheld, RowsHonest, OneHolder, HolderCurrent,
       CountsExact, Answered, Held, AttemptsOf, TypeOK, LogRow, LogStatuses,
       AttemptRow, AttemptPcs, Origins, SubStates, DeactivateAndNotify,
       SwitchOff, NoAttempt, NewAttempt
<1>6. QED
    BY <1>1, <1>2, <1>3, <1>4, <1>5

LEMMA ClaimInv ==
    ASSUME Inv, NEW w \in Pollers, Claim(w)
    PROVE  Inv'
<1> USE WebhookAssumption DEF Inv
<1>1. TypeOK'
    BY DEF TypeOK, LogRow, LogStatuses, AttemptRow, AttemptPcs, Origins,
       SubStates, Claim, Due, IsDue
<1>2. RowsHonest'
    BY DEF RowsHonest, AttemptsHonest, AttemptHonest, Tried, TypeOK, LogRow,
       LogStatuses, AttemptRow, AttemptPcs, Origins, SubStates, Claim, Due,
       IsDue
<1>3. AttemptsHonest'
    BY DEF RowsHonest, AttemptsHonest, AttemptHonest, Tried, TypeOK, LogRow,
       LogStatuses, AttemptRow, AttemptPcs, Origins, SubStates, Claim, Due,
       IsDue
<1>4. NewUnheld'
    BY DEF NewUnheld, Held, AttemptsOf, TypeOK, LogRow, LogStatuses,
       AttemptRow, AttemptPcs, Origins, SubStates, Claim, Due, IsDue
<1>5. Undisturbed'
    BY DEF Undisturbed, NewUnheld, RowsHonest, OneHolder, HolderCurrent,
       CountsExact, Answered, Held, AttemptsOf, TypeOK, LogRow, LogStatuses,
       AttemptRow, AttemptPcs, Origins, SubStates, Claim, Due, IsDue
<1>6. QED
    BY <1>1, <1>2, <1>3, <1>4, <1>5

LEMMA StartRetryInv ==
    ASSUME Inv, NEW w \in Pollers, NEW l \in Logs, StartRetry(w, l)
    PROVE  Inv'
<1> USE WebhookAssumption DEF Inv
<1>1. TypeOK'
    BY DEF TypeOK, LogRow, LogStatuses, AttemptRow, AttemptPcs, Origins,
       SubStates, StartRetry, Handled, CreateAttempt, NewAttempt
<1>2. RowsHonest'
    BY DEF RowsHonest, AttemptsHonest, AttemptHonest, Tried, TypeOK, LogRow,
       LogStatuses, AttemptRow, AttemptPcs, Origins, SubStates, StartRetry,
       Handled, CreateAttempt, NewAttempt
<1>3. AttemptsHonest'
    BY DEF RowsHonest, AttemptsHonest, AttemptHonest, Tried, TypeOK, LogRow,
       LogStatuses, AttemptRow, AttemptPcs, Origins, SubStates, StartRetry,
       Handled, CreateAttempt, NewAttempt
<1>4. NewUnheld'
    BY DEF NewUnheld, Held, AttemptsOf, TypeOK, LogRow, LogStatuses,
       AttemptRow, AttemptPcs, Origins, SubStates, StartRetry, Handled,
       CreateAttempt, NewAttempt
<1>5. Undisturbed'
    BY DEF Undisturbed, NewUnheld, RowsHonest, OneHolder, HolderCurrent,
       CountsExact, Answered, Held, AttemptsOf, TypeOK, LogRow, LogStatuses,
       AttemptRow, AttemptPcs, Origins, SubStates, StartRetry, Handled,
       CreateAttempt, NewAttempt
<1>6. QED
    BY <1>1, <1>2, <1>3, <1>4, <1>5

LEMMA SkipRetryInv ==
    ASSUME Inv, NEW w \in Pollers, NEW l \in Logs, SkipRetry(w, l)
    PROVE  Inv'
<1> USE WebhookAssumption DEF Inv
<1>1. TypeOK'
    BY DEF TypeOK, LogRow, LogStatuses, AttemptRow, AttemptPcs, Origins,
       SubStates, SkipRetry, Handled
<1>2. RowsHonest'
    BY DEF RowsHonest, AttemptsHonest, AttemptHonest, Tried, TypeOK, LogRow,
       LogStatuses, AttemptRow, AttemptPcs, Origins, SubStates, SkipRetry,
       Handled
<1>3. AttemptsHonest'
    BY DEF RowsHonest, AttemptsHonest, AttemptHonest, Tried, TypeOK, LogRow,
       LogStatuses, AttemptRow, AttemptPcs, Origins, SubStates, SkipRetry,
       Handled
<1>4. NewUnheld'
    BY DEF NewUnheld, Held, AttemptsOf, TypeOK, LogRow, LogStatuses,
       AttemptRow, AttemptPcs, Origins, SubStates, SkipRetry, Handled
<1>5. Undisturbed'
    BY DEF Undisturbed, NewUnheld, RowsHonest, OneHolder, HolderCurrent,
       CountsExact, Answered, Held, AttemptsOf, TypeOK, LogRow, LogStatuses,
       AttemptRow, AttemptPcs, Origins, SubStates, SkipRetry, Handled
<1>6. QED
    BY <1>1, <1>2, <1>3, <1>4, <1>5

LEMMA UpdateSubscriptionInv ==
    ASSUME Inv, NEW s \in Subs, NEW t \in SubStates, UpdateSubscription(s, t)
    PROVE  Inv'
<1> USE WebhookAssumption DEF Inv
<1>1. TypeOK'
    BY DEF TypeOK, LogRow, LogStatuses, AttemptRow, AttemptPcs, Origins,
       SubStates, UpdateSubscription
<1>2. RowsHonest'
    BY DEF RowsHonest, AttemptsHonest, AttemptHonest, Tried, TypeOK, LogRow,
       LogStatuses, AttemptRow, AttemptPcs, Origins, SubStates,
       UpdateSubscription
<1>3. AttemptsHonest'
    BY DEF RowsHonest, AttemptsHonest, AttemptHonest, Tried, TypeOK, LogRow,
       LogStatuses, AttemptRow, AttemptPcs, Origins, SubStates,
       UpdateSubscription
<1>4. NewUnheld'
    BY DEF NewUnheld, Held, AttemptsOf, TypeOK, LogRow, LogStatuses,
       AttemptRow, AttemptPcs, Origins, SubStates, UpdateSubscription
<1>5. Undisturbed'
    BY DEF Undisturbed, NewUnheld, RowsHonest, OneHolder, HolderCurrent,
       CountsExact, Answered, Held, AttemptsOf, TypeOK, LogRow, LogStatuses,
       AttemptRow, AttemptPcs, Origins, SubStates, UpdateSubscription
<1>6. QED
    BY <1>1, <1>2, <1>3, <1>4, <1>5

LEMMA AttemptLostInv ==
    ASSUME Inv, NEW a \in Attempts, AttemptLost(a)
    PROVE  Inv'
<1> USE WebhookAssumption DEF Inv
<1>1. TypeOK'
    BY DEF TypeOK, LogRow, LogStatuses, AttemptRow, AttemptPcs, Origins,
       SubStates, AttemptLost, Lose, NoAttempt, NewAttempt
<1>2. RowsHonest'
    BY DEF RowsHonest, AttemptsHonest, AttemptHonest, Tried, TypeOK, LogRow,
       LogStatuses, AttemptRow, AttemptPcs, Origins, SubStates, AttemptLost,
       Lose, NoAttempt, NewAttempt
<1>3. AttemptsHonest'
    BY DEF RowsHonest, AttemptsHonest, AttemptHonest, Tried, TypeOK, LogRow,
       LogStatuses, AttemptRow, AttemptPcs, Origins, SubStates, AttemptLost,
       Lose, NoAttempt, NewAttempt
<1>4. NewUnheld'
    BY DEF NewUnheld, Held, AttemptsOf, TypeOK, LogRow, LogStatuses,
       AttemptRow, AttemptPcs, Origins, SubStates, AttemptLost, Lose,
       NoAttempt, NewAttempt
<1>5. Undisturbed'
    BY DEF Undisturbed, NewUnheld, RowsHonest, OneHolder, HolderCurrent,
       CountsExact, Answered, Held, AttemptsOf, TypeOK, LogRow, LogStatuses,
       AttemptRow, AttemptPcs, Origins, SubStates, AttemptLost, Lose,
       NoAttempt, NewAttempt
<1>6. QED
    BY <1>1, <1>2, <1>3, <1>4, <1>5

LEMMA PollerLostInv ==
    ASSUME Inv, NEW w \in Pollers, PollerLost(w)
    PROVE  Inv'
<1> USE WebhookAssumption DEF Inv
<1>1. TypeOK'
    BY DEF TypeOK, LogRow, LogStatuses, AttemptRow, AttemptPcs, Origins,
       SubStates, PollerLost, Lose
<1>2. RowsHonest'
    BY DEF RowsHonest, AttemptsHonest, AttemptHonest, Tried, TypeOK, LogRow,
       LogStatuses, AttemptRow, AttemptPcs, Origins, SubStates, PollerLost,
       Lose
<1>3. AttemptsHonest'
    BY DEF RowsHonest, AttemptsHonest, AttemptHonest, Tried, TypeOK, LogRow,
       LogStatuses, AttemptRow, AttemptPcs, Origins, SubStates, PollerLost,
       Lose
<1>4. NewUnheld'
    BY DEF NewUnheld, Held, AttemptsOf, TypeOK, LogRow, LogStatuses,
       AttemptRow, AttemptPcs, Origins, SubStates, PollerLost, Lose
<1>5. Undisturbed'
    BY DEF Undisturbed, NewUnheld, RowsHonest, OneHolder, HolderCurrent,
       CountsExact, Answered, Held, AttemptsOf, TypeOK, LogRow, LogStatuses,
       AttemptRow, AttemptPcs, Origins, SubStates, PollerLost, Lose
<1>6. QED
    BY <1>1, <1>2, <1>3, <1>4, <1>5

LEMMA DispatchLostInv ==
    ASSUME Inv, NEW l \in Logs, DispatchLost(l)
    PROVE  Inv'
<1> USE WebhookAssumption DEF Inv
<1>1. TypeOK'
    BY DEF TypeOK, LogRow, LogStatuses, AttemptRow, AttemptPcs, Origins,
       SubStates, DispatchLost, Lose, Settled
<1>2. RowsHonest'
    BY DEF RowsHonest, AttemptsHonest, AttemptHonest, Tried, TypeOK, LogRow,
       LogStatuses, AttemptRow, AttemptPcs, Origins, SubStates,
       DispatchLost, Lose, Settled
<1>3. AttemptsHonest'
    BY DEF RowsHonest, AttemptsHonest, AttemptHonest, Tried, TypeOK, LogRow,
       LogStatuses, AttemptRow, AttemptPcs, Origins, SubStates,
       DispatchLost, Lose, Settled
<1>4. NewUnheld'
    BY DEF NewUnheld, Held, AttemptsOf, TypeOK, LogRow, LogStatuses,
       AttemptRow, AttemptPcs, Origins, SubStates, DispatchLost, Lose,
       Settled
<1>5. Undisturbed'
    BY DEF Undisturbed, NewUnheld, RowsHonest, OneHolder, HolderCurrent,
       CountsExact, Answered, Held, AttemptsOf, TypeOK, LogRow, LogStatuses,
       AttemptRow, AttemptPcs, Origins, SubStates, DispatchLost, Lose,
       Settled
<1>6. QED
    BY <1>1, <1>2, <1>3, <1>4, <1>5

LEMMA InitInv == Init => Inv
<1> SUFFICES ASSUME Init PROVE Inv
    OBVIOUS
<1> USE WebhookAssumption, NoAttemptType DEF Init
<1>1. /\ Settled("none", 0) \in LogRow
      /\ Settled("none", 0).status = "none" /\ Settled("none", 0).count = 0
    BY DEF Settled, LogRow, LogStatuses
<1>2. TypeOK
    BY <1>1 DEF TypeOK, SubStates
<1>3. RowsHonest /\ AttemptsHonest /\ NewUnheld
    BY <1>1 DEF RowsHonest, AttemptsHonest, AttemptHonest, NewUnheld, Held,
       AttemptsOf
<1>4. Undisturbed
    BY <1>1 DEF Undisturbed, OneHolder, HolderCurrent, CountsExact, Answered
<1>5. QED
    BY <1>2, <1>3, <1>4 DEF Inv

LEMMA NextInv ==
    ASSUME Inv, [Next]_vars
    PROVE  Inv'
<1>1. CASE \E a \in Attempts : AttemptStep(a)
    BY <1>1, StartAttemptInv, EndpointTakesInv, EndpointFailsInv, EndpointGoneInv,
       SaveAttemptInv, DeactivateAndNotifyInv DEF AttemptStep
<1>2. CASE \E l \in Logs : LogStep(l)
    BY <1>2, DispatchInv, CommitDispatchInv, ComesDueInv, PurgeInv DEF LogStep
<1>3. CASE \E w \in Pollers : PollStep(w)
    BY <1>3, ClaimInv, StartRetryInv, SkipRetryInv DEF PollStep
<1>4. CASE \E s \in Subs, t \in SubStates : UpdateSubscription(s, t)
    BY <1>4, UpdateSubscriptionInv
<1>5. CASE LossStep
    BY <1>5, AttemptLostInv, PollerLostInv, DispatchLostInv DEF LossStep
<1>6. CASE UNCHANGED vars
    BY <1>6 DEF vars, Inv, TypeOK, RowsHonest, AttemptsHonest,
       AttemptHonest, NewUnheld,
       Held, AttemptsOf, Undisturbed, OneHolder, HolderCurrent, CountsExact,
       Answered, Tried
<1>7. QED
    BY <1>1, <1>2, <1>3, <1>4, <1>5, <1>6 DEF Next

LEMMA Invariance == Spec => []Inv
<1>1. Inv /\ [Next]_vars => Inv'
    BY NextInv
<1>2. QED
    BY InitInv, <1>1, PTL DEF Spec

-----------------------------------------------------------------------------
(* The types of the rows, attempts and counters hold in every reachable    *)
(* state, for any set of logs, subscriptions, attempts and pollers.         *)
THEOREM TypeCorrect == Spec => []TypeOK
<1>1. Inv => TypeOK
    BY DEF Inv
<1>2. QED
    BY Invariance, <1>1, PTL

(* An endpoint is given up on only once it said it was gone or MAX_ATTEMPTS *)
(* posts were made, however often attempts overwrite each other's counts.   *)
THEOREM GivenUpOnlyHonestly == Spec => []GivenUpHonestly
<1>1. Inv => GivenUpHonestly
    BY DEF Inv, RowsHonest, AttemptsHonest, AttemptHonest, Tried, GivenUpHonestly,
       GaveUpOn, AttemptsOf
<1>2. QED
    BY Invariance, <1>1, PTL

(* A delivery log leaves the queue, or is purged, only when the endpoint    *)
(* took the event or was given up on; until then a next attempt is set.     *)
THEOREM EveryLogAccountedFor == Spec => []AccountedFor
<1>1. Inv => AccountedFor
    BY DEF Inv, RowsHonest, Tried, AccountedFor
<1>2. QED
    BY Invariance, <1>1, PTL

(* Without a lost process, a log that is never claimed while held is posted *)
(* at most MAX_ATTEMPTS times.                                              *)
THEOREM LadderHoldsAlone == Spec => []LadderHolds
<1>1. Inv => LadderHolds
  <2> SUFFICES ASSUME Inv, NEW l \in Logs, l \notin raced, ~(crashes > 0)
               PROVE  ~(posts[l] > MaxAttempts)
    BY DEF LadderHolds
  <2>1. crashes = 0 /\ posts[l] \in Nat /\ log[l].count \in Nat
    BY WebhookAssumption DEF Inv, TypeOK, LogRow
  <2>2. OneHolder(l) /\ HolderCurrent(l) /\ CountsExact(l) /\ log[l].count <= MaxAttempts
    BY <2>1 DEF Inv, Undisturbed
  <2>3. CASE Answered(l)
    <3>1. log[l].status = "pending"
        BY <2>2, <2>3 DEF Answered, HolderCurrent
    <3>2. log[l].count < MaxAttempts
        BY <3>1 DEF Inv, RowsHonest
    <3>3. QED
        BY <2>1, <2>2, <2>3, <3>2, WebhookAssumption DEF CountsExact
  <2>4. CASE ~Answered(l)
    BY <2>1, <2>2, <2>4, WebhookAssumption DEF CountsExact
  <2>5. QED
    BY <2>3, <2>4
<1>2. QED
    BY Invariance, <1>1, PTL

(* A success is overwritten only by the stale copy of an attempt that was   *)
(* created while another held the log.                                      *)
THEOREM DeliveredIsFinalAlone == Spec => DeliveredIsFinal
<1> DEFINE Final == \A l \in Logs :
        (log[l].status = "success" /\ log'[l].status \in {"pending", "exhausted"})
            => l \in raced
<1>1. Inv /\ [Next]_vars => [Final]_vars
  <2> SUFFICES ASSUME Inv, Next, NEW l \in Logs, log[l].status = "success",
                      log'[l].status \in {"pending", "exhausted"}
               PROVE  l \in raced
    BY DEF Final
  <2>1. CASE \E a \in Attempts : SaveAttempt(a)
    <3>1. PICK a \in Attempts : SaveAttempt(a)
        BY <2>1
    <3>2. attempt[a].log = l /\ attempt[a].pc = "answered"
        BY <3>1 DEF SaveAttempt, Inv, TypeOK
    <3>3. QED
        BY <3>2 DEF Inv, Undisturbed, HolderCurrent
  <2>2. CASE log' = log
    BY <2>2
  <2>3. CASE \E k \in Logs : Dispatch(k) \/ CommitDispatch(k) \/ ComesDue(k)
                              \/ Purge(k) \/ DispatchLost(k)
    BY <2>3 DEF Dispatch, CommitDispatch, ComesDue, Purge, DispatchLost,
       FreshLog, Settled, Inv, TypeOK, LogRow
  <2>4. CASE \E w \in Pollers : Claim(w)
    BY <2>4 DEF Claim, IsDue
  <2>5. QED
    BY <2>1, <2>2, <2>3, <2>4 DEF Next, AttemptStep, LogStep, PollStep, LossStep,
       StartAttempt, EndpointTakes, EndpointFails, EndpointGone,
       DeactivateAndNotify, StartRetry, SkipRetry, UpdateSubscription,
       AttemptLost, PollerLost
<1>2. QED
    BY Invariance, <1>1, PTL DEF Spec, DeliveredIsFinal

=============================================================================
