-------------------------------- MODULE Jobs --------------------------------
(***************************************************************************)
(* The jobs layer of the agent-fox service (src/internal/service/jobs):    *)
(* the rows of the state file, the items of the queue, the handlers that   *)
(* carry attempts to a runner, and the actions of people and of time that  *)
(* meet them.                                                              *)
(*                                                                         *)
(* An action is one transaction of the store, one critical section of the  *)
(* process, or one step of a collaborator: the queue (aflib/jobqueue),     *)
(* the runner, a person.  What lies between two actions of one goroutine   *)
(* is where the others may come in.                                        *)
(*                                                                         *)
(* Abstracted: the content of envelopes, events, labels and answers; time, *)
(* so that a wait, a grace or a retention may end at any moment; and the   *)
(* numbers of queue_seq, of which only the order is kept.                  *)
(*                                                                         *)
(* A definition marked VARIANT is the one after it with a mistake that     *)
(* would be easy to make; no specification here uses it, and each shows    *)
(* that some property tells the two apart.                                 *)
(***************************************************************************)
EXTENDS Integers, FiniteSets

CONSTANTS
  Job,          \* the jobs that may be made
  Workspace,    \* the workspaces
  Topic,        \* the pairs of a kind and an issue that jobs are about
  NoTopic,      \* a job about a text or a file: no issue
  WorkspaceOf,  \* the workspace of each job
  TopicOf,      \* what each job is about
  Slots,        \* [workers].count, the attempts in a runner at once
  Parked,       \* how many more workers the queue has (16 in the code)
  MaxTransient, \* the transient failure that ends an attempt (3 in the code)
  RoundLimits,  \* the attempts that runners let a round make
  Cleaner,      \* whether the layer has a cleaner for cancelled jobs
  MaxAttempts,  \* bound: the attempts of a job
  MaxRestarts,  \* bound: how often the process ends and starts again
  MaxFaults     \* bound: how many operations of the store or the queue fail

ASSUME JobsAssumption ==
  /\ IsFiniteSet(Job)
  /\ WorkspaceOf \in [Job -> Workspace]
  /\ NoTopic \notin Topic
  /\ TopicOf \in [Job -> Topic \cup {NoTopic}]
  /\ Slots \in Nat \ {0}
  /\ Parked \in Nat
  /\ MaxTransient \in Nat \ {0}
  /\ RoundLimits \subseteq 1..10 /\ RoundLimits # {}
  /\ Cleaner \in BOOLEAN
  /\ MaxAttempts \in Nat \ {0}
  /\ MaxRestarts \in Nat
  /\ MaxFaults \in Nat

(* An attempt is named by its job and its number, as attemptKey is. *)
Key == Job \X (1..MaxAttempts)
JobOf(k) == k[1]
Ws(k) == WorkspaceOf[k[1]]

-----------------------------------------------------------------------------
VARIABLES
  \* The state file.
  jobState,   \* af_jobs.state; "absent" before the job is made, "purged" after it is removed
  attState,   \* af_attempts.state; "none" for an attempt that has no row
  trigger,    \* af_attempts.trigger_kind
  failures,   \* af_attempts.transient_failures
  session,    \* whether af_attempts.hub_session is set
  inRunner,   \* af_attempts.in_runner
  earlier,    \* the attempts whose queue_seq is below this one's
  wanted,     \* af_jobs.cleanup_wanted
  cleanup,    \* af_jobs.cleanup
  atRest,     \* at_rest of the latest job_state event of the job
  \* The queue, which is durable as well.
  item,       \* the item of each attempt
  \* The process.
  pc,         \* where the handler of each attempt is
  outcome,    \* what the call of the runner came to
  inflight,   \* Service.inflight
  called,     \* attemptRun.called
  cause,      \* why the context of the run was cancelled
  overran,    \* attemptRun.overran
  grace,      \* the goroutine of startGrace
  wake,       \* Service.waiting
  canceller,  \* where the cancel that found the attempt is
  owed,       \* the attempts stored, or listed by a sweep, that are still to be enqueued
  tries,      \* cleanups.tries
  stopping,   \* whether Service.stopping is closed
  \* Bounds.
  restarts, faults

store == <<jobState, attState, trigger, failures, session, inRunner, earlier,
           wanted, cleanup, atRest>>
runs  == <<inflight, called, cause, overran, grace>>
process == <<pc, outcome, runs, wake, canceller, owed, tries, stopping>>
bounds  == <<restarts, faults>>
vars == <<store, item, process, bounds>>

-----------------------------------------------------------------------------
(* The states. *)
\* VARIANT of Open: a failed job can still be cancelled.
OpenOrFailed == {"queued", "running", "blocked", "failed"}
Open     == {"queued", "running", "blocked"}
Finished == {"done", "failed", "cancelled"}
JobStates == Open \cup Finished \cup {"absent", "purged"}
AttStates == {"none", "queued", "running", "done", "needs_human", "failed", "cancelled"}
Triggers  == {"create", "answer", "retry", "auto"}
Cleanups  == {"none", "pending", "done", "label_not_set"}
Items     == {"none", "ready", "claimed", "done"}
(* What a runner may come to: done covers unverified and not parked; ask   *)
(* is needs_human; again is a retryable failure of the brain or of no      *)
(* result; fail is any other ending, an error or a panic included.         *)
Endings  == {"done", "ask", "again", "fail"}
Outcomes == Endings \cup {"none", "transient", "spent", "shutdown", "dropped", "error", "auto"}
(* Where a handler is.  It holds a slot from acquire to release. *)
SlotPcs == {"claim", "register", "look", "call", "runner", "forget", "returned", "backoff", "wrapup"}
Pcs == SlotPcs \cup {"idle", "plan", "reap", "slot", "paused"}

OpenAttempt(k) ==
  /\ jobState[JobOf(k)] \in {"queued", "running"}
  /\ attState[k] \in {"queued", "running"}

KeysOf(j) == {k \in Key : k[1] = j}
Made == {k \in Key : attState[k] # "none"}
Running(j) == {k \in KeysOf(j) : attState[k] = "running"}
\* VARIANT: the rows are asked, not the process.
RowInProgress(j) == Running(j) # {}
RunnerInProgress(j) == \E k \in KeysOf(j) : k \in inflight

\* VARIANT of TopicFree: a job that waits for an answer does not count.
TopicFreeOfRunning(j) ==
  \/ TopicOf[j] = NoTopic
  \/ \A i \in Job \ {j} : ~ /\ jobState[i] \in {"queued", "running"}
                            /\ TopicOf[i] = TopicOf[j]
                            /\ WorkspaceOf[i] = WorkspaceOf[j]

(* The partial unique index: no other open job of the kind for the issue. *)
TopicFree(j) ==
  \/ TopicOf[j] = NoTopic
  \/ \A i \in Job \ {j} : ~ /\ jobState[i] \in Open
                            /\ TopicOf[i] = TopicOf[j]
                            /\ WorkspaceOf[i] = WorkspaceOf[j]

\* VARIANT of RoundSize: n is not included.
RoundSizeBefore(k) ==
  Cardinality({m \in 1..(k[2] - 1) : \A i \in (m + 1)..k[2] : trigger[<<k[1], i>>] = "auto"})

(* How many attempts the round of attempt n has made, n included. *)
RoundSize(k) ==
  Cardinality({m \in 1..k[2] : \A i \in (m + 1)..k[2] : trigger[<<k[1], i>>] = "auto"})

-----------------------------------------------------------------------------
(* Initially nothing is stored, and the process runs. *)
Init ==
  /\ jobState = [j \in Job |-> "absent"]
  /\ attState = [k \in Key |-> "none"]
  /\ trigger = [k \in Key |-> "create"]
  /\ failures = [k \in Key |-> 0]
  /\ session = [k \in Key |-> FALSE]
  /\ inRunner = [k \in Key |-> FALSE]
  /\ earlier = [k \in Key |-> {}]
  /\ wanted = [j \in Job |-> FALSE]
  /\ cleanup = [j \in Job |-> "none"]
  /\ atRest = [j \in Job |-> FALSE]
  /\ item = [k \in Key |-> "none"]
  /\ pc = [k \in Key |-> "idle"]
  /\ outcome = [k \in Key |-> "none"]
  /\ inflight = {}
  /\ called = {}
  /\ cause = [k \in Key |-> "none"]
  /\ overran = {}
  /\ grace = [k \in Key |-> "off"]
  /\ wake = [k \in Key |-> "none"]
  /\ canceller = [k \in Key |-> "idle"]
  /\ owed = {}
  /\ tries = {}
  /\ stopping = FALSE
  /\ restarts = 0
  /\ faults = 0

-----------------------------------------------------------------------------
(* What several actions share. *)

(* The last attempt made of its job, and the one after it. *)
Last(k)  == k \in Made /\ \A i \in KeysOf(JobOf(k)) \cap Made : i[2] <= k[2]
Succ(k)  == <<k[1], k[2] + 1>>

(* insertAttempt: the attempt is the last in the order of all attempts that have a row. *)
InsertAttempt(k, kind) ==
  /\ trigger' = [trigger EXCEPT ![k] = kind]
  /\ earlier' = [earlier EXCEPT ![k] = Made]

(* startTry: unless one is in flight, a try of the cleanup starts. *)
Tried(j) == IF Cleaner /\ ~stopping THEN tries \cup {j} ELSE tries

(* The handler lets go of the item: Ack completes it, HandBack makes it come again. *)
Leave(k, to) ==
  /\ item' = [item EXCEPT ![k] = to]
  /\ pc' = [pc EXCEPT ![k] = "idle"]
  /\ outcome' = [outcome EXCEPT ![k] = "none"]
Ack(k)      == Leave(k, "done")
HandBack(k) == Leave(k, "ready")

Goto(k, where) == pc' = [pc EXCEPT ![k] = where]

\* VARIANT of MarksCleanup: a runner that was called is taken for one that cleans up.
MarksUncalled(k) == wanted[JobOf(k)] /\ cleanup[JobOf(k)] = "none" /\ ~inRunner[k]

(* endCancelled marks the cleanup that is wanted when the attempt has no hub session. *)
MarksCleanup(k) == wanted[JobOf(k)] /\ cleanup[JobOf(k)] = "none" /\ ~session[k]

(* EndAttempt of a running attempt whose job was cancelled: the attempt is cancelled, *)
(* whatever it came to, and the job is at rest.                                       *)
EndCancelled(k) ==
  /\ attState' = [attState EXCEPT ![k] = "cancelled"]
  /\ cleanup' = [cleanup EXCEPT ![JobOf(k)] = IF MarksCleanup(k) THEN "pending" ELSE @]
  /\ atRest' = [atRest EXCEPT ![JobOf(k)] = TRUE]
  /\ UNCHANGED jobState

(* settleCancelled: an attempt that is not running is left as it is. *)
SettleCancelled(k) ==
  IF attState[k] = "running" THEN EndCancelled(k) ELSE UNCHANGED <<jobState, attState, cleanup, atRest>>
SettleMarks(k) == attState[k] = "running" /\ MarksCleanup(k)

\* VARIANT of EndRuled: the states of the verdict are swapped.
EndRuledSwapped(k, att, job) ==
  /\ attState' = [attState EXCEPT ![k] = job]
  /\ jobState' = [jobState EXCEPT ![JobOf(k)] = att]
  /\ atRest' = [atRest EXCEPT ![JobOf(k)] = TRUE]
  /\ UNCHANGED cleanup

(* EndAttempt of a running attempt of a running job: the attempt and its job take the *)
(* states of the verdict.                                                             *)
EndRuled(k, att, job) ==
  /\ attState' = [attState EXCEPT ![k] = att]
  /\ jobState' = [jobState EXCEPT ![JobOf(k)] = job]
  /\ atRest' = [atRest EXCEPT ![JobOf(k)] = TRUE]
  /\ UNCHANGED cleanup

-----------------------------------------------------------------------------
(* The actions of people. *)

(* Service.Create: the job, its attempt 1 and its event are stored, all or none. *)
Create(j) ==
  /\ jobState[j] = "absent"
  /\ TopicFree(j)
  /\ jobState' = [jobState EXCEPT ![j] = "queued"]
  /\ attState' = [attState EXCEPT ![<<j, 1>>] = "queued"]
  /\ InsertAttempt(<<j, 1>>, "create")
  /\ atRest' = [atRest EXCEPT ![j] = FALSE]
  /\ owed' = owed \cup {<<j, 1>>}
  /\ UNCHANGED <<failures, session, inRunner, wanted, cleanup, item, pc, outcome,
                 runs, wake, canceller, tries, stopping, bounds>>

(* Service.requeue, which Answer and Retry share. *)
Requeue(j, from, kind) ==
  /\ jobState[j] = from
  /\ TopicFree(j)
  /\ \E k \in KeysOf(j) :
       /\ Last(k)
       /\ k[2] < MaxAttempts
       /\ attState' = [attState EXCEPT ![Succ(k)] = "queued"]
       /\ InsertAttempt(Succ(k), kind)
       /\ owed' = owed \cup {Succ(k)}
  /\ jobState' = [jobState EXCEPT ![j] = "queued"]
  /\ atRest' = [atRest EXCEPT ![j] = FALSE]
  /\ UNCHANGED <<failures, session, inRunner, wanted, cleanup, item, pc, outcome,
                 runs, wake, canceller, tries, stopping, bounds>>

Answer(j) == Requeue(j, "blocked", "answer")
Retry(j)  == Requeue(j, "failed", "retry")

(* CancelJob, which is conditional on the state the job was seen in.  The attempt that it *)
(* found, running or last, is where the rest of the cancel goes on.                       *)
CancelJob(j) ==
  /\ jobState[j] \in Open
  /\ jobState' = [jobState EXCEPT ![j] = "cancelled"]
  /\ attState' = [k \in Key |-> IF k[1] = j /\ attState[k] = "queued" THEN "cancelled" ELSE attState[k]]
  /\ wanted' = [wanted EXCEPT ![j] = Cleaner /\ TopicOf[j] # NoTopic]
  /\ cleanup' = [cleanup EXCEPT ![j] = IF wanted'[j] /\ Running(j) = {} THEN "pending" ELSE @]
  /\ atRest' = [atRest EXCEPT ![j] = Running(j) = {}]
  /\ canceller' = [k \in Key |->
       CASE k \in Running(j) -> "look"
         [] k[1] = j /\ Running(j) = {} /\ Last(k) -> "wake"
         [] OTHER -> canceller[k]]
  /\ UNCHANGED <<trigger, failures, session, inRunner, earlier, item, pc, outcome,
                 runs, wake, owed, tries, stopping, bounds>>

(* The rest of a cancel that found no running attempt: a handler that waits is woken, and *)
(* the first try of the cleanup starts.                                                   *)
CancelWakes(k) ==
  /\ canceller[k] = "wake"
  /\ wake' = [wake EXCEPT ![k] = IF @ = "watching" THEN "woken" ELSE @]
  /\ tries' = IF cleanup[JobOf(k)] = "pending" THEN Tried(JobOf(k)) ELSE tries
  /\ canceller' = [canceller EXCEPT ![k] = "idle"]
  /\ UNCHANGED <<store, item, pc, outcome, runs, owed, stopping, bounds>>

(* The rest of a cancel that found a running attempt: look for its run, *)
CancelLooks(k) ==
  /\ canceller[k] = "look"
  /\ canceller' = [canceller EXCEPT ![k] = CASE k \in inflight -> "stop"
                                             [] k \notin inflight /\ wanted[JobOf(k)] -> "mark"
                                             [] OTHER -> "idle"]
  /\ UNCHANGED <<store, item, pc, outcome, runs, wake, owed, tries, stopping, bounds>>

\* VARIANT of CancelStops: the grace is not started.
CancelStopsOnly(k) ==
  /\ canceller[k] = "stop"
  /\ cause' = [cause EXCEPT ![k] = IF @ = "none" /\ k \in inflight THEN "cancel" ELSE @]
  /\ called' = IF k \in inflight THEN called ELSE called \ {k}
  /\ canceller' = [canceller EXCEPT ![k] = IF wanted[JobOf(k)] /\ k \notin called THEN "mark" ELSE "idle"]
  /\ UNCHANGED <<store, item, pc, outcome, inflight, overran, grace, wake, owed, tries, stopping, bounds>>

(* stop it, which tells whether its runner was called, and start the grace, *)
CancelStops(k) ==
  /\ canceller[k] = "stop"
  /\ cause' = [cause EXCEPT ![k] = IF @ = "none" /\ k \in inflight THEN "cancel" ELSE @]
  /\ grace' = [grace EXCEPT ![k] = "on"]
  /\ called' = IF k \in inflight THEN called ELSE called \ {k}
  /\ canceller' = [canceller EXCEPT ![k] = IF wanted[JobOf(k)] /\ k \notin called THEN "mark" ELSE "idle"]
  /\ UNCHANGED <<store, item, pc, outcome, inflight, overran, wake, owed, tries, stopping, bounds>>

(* and mark the cleanup when no runner was reached (MarkCleanup), with its first try. *)
CancelMarks(k) ==
  LET j == JobOf(k) IN
  /\ canceller[k] = "mark"
  /\ canceller' = [canceller EXCEPT ![k] = "idle"]
  /\ IF jobState[j] = "cancelled" /\ cleanup[j] = "none"
     THEN /\ cleanup' = [cleanup EXCEPT ![j] = "pending"]
          /\ tries' = Tried(j)
     ELSE UNCHANGED <<cleanup, tries>>
  /\ UNCHANGED <<jobState, attState, trigger, failures, session, inRunner, earlier,
                 wanted, atRest, item, pc, outcome, runs, wake, owed, stopping, bounds>>

-----------------------------------------------------------------------------
(* The queue. *)

(* Service.Enqueue: a no-op for an attempt the queue has in any state, and an error for a *)
(* job that is gone.                                                                      *)
Enqueue(k) ==
  /\ k \in owed
  /\ owed' = owed \ {k}
  /\ item' = [item EXCEPT ![k] = IF @ = "none" /\ jobState[JobOf(k)] # "purged" THEN "ready" ELSE @]
  /\ UNCHANGED <<store, pc, outcome, runs, wake, canceller, tries, stopping, bounds>>

(* The queue fails to take the attempt, which is warned of. *)
EnqueueFails(k) ==
  /\ k \in owed
  /\ faults < MaxFaults
  /\ faults' = faults + 1
  /\ owed' = owed \ {k}
  /\ UNCHANGED <<store, item, pc, outcome, runs, wake, canceller, tries, stopping, restarts>>

(* Service.sweep lists the queued attempts of open jobs, and enqueues each. *)
Sweep ==
  LET queued == {k \in Key : attState[k] = "queued" /\ OpenAttempt(k) /\ item[k] = "none"} IN
  /\ ~stopping
  /\ ~ queued \subseteq owed
  /\ owed' = owed \cup queued
  /\ UNCHANGED <<store, item, pc, outcome, runs, wake, canceller, tries, stopping, bounds>>

\* VARIANT of HandOver: the items have no group.
HandOverUngrouped(k) ==
  /\ item[k] = "ready"
  /\ Cardinality({i \in Key : item[i] = "claimed"}) < Slots + Parked
  /\ item' = [item EXCEPT ![k] = "claimed"]
  /\ Goto(k, "plan")
  /\ UNCHANGED <<store, outcome, runs, wake, canceller, owed, tries, stopping, bounds>>

(* The queue hands an item to a worker: one item of a workspace at a time. *)
HandOver(k) ==
  /\ item[k] = "ready"
  /\ \A i \in Key : Ws(i) = Ws(k) => item[i] # "claimed"
  /\ Cardinality({i \in Key : item[i] = "claimed"}) < Slots + Parked
  /\ item' = [item EXCEPT ![k] = "claimed"]
  /\ Goto(k, "plan")
  /\ UNCHANGED <<store, outcome, runs, wake, canceller, owed, tries, stopping, bounds>>

-----------------------------------------------------------------------------
(* The handler of an attempt: Service.handle and Service.attempt. *)

(* Store.Plan, by what the handler does with the item. *)
PlanAck(k) ==
  /\ pc[k] = "plan"
  /\ ~OpenAttempt(k)
  /\ attState[k] # "running"
  /\ Ack(k)
  /\ UNCHANGED <<store, runs, wake, canceller, owed, tries, stopping, bounds>>

PlanReap(k) ==
  /\ pc[k] = "plan"
  /\ ~OpenAttempt(k)
  /\ attState[k] = "running"
  /\ Goto(k, "reap")
  /\ UNCHANGED <<store, item, outcome, runs, wake, canceller, owed, tries, stopping, bounds>>

\* VARIANT of First: only the attempts of the job are in order.
FirstOfJob(k) == \A i \in earlier[k] : JobOf(i) = JobOf(k) => ~OpenAttempt(i)

First(k) == \A i \in earlier[k] : Ws(i) = Ws(k) => ~OpenAttempt(i)

\* VARIANT of PlanYield: the item is done.
PlanYieldAcks(k) ==
  /\ pc[k] = "plan"
  /\ OpenAttempt(k)
  /\ ~First(k)
  /\ Ack(k)
  /\ UNCHANGED <<store, runs, wake, canceller, owed, tries, stopping, bounds>>

PlanYield(k) ==
  /\ pc[k] = "plan"
  /\ OpenAttempt(k)
  /\ ~First(k)
  /\ HandBack(k)
  /\ UNCHANGED <<store, runs, wake, canceller, owed, tries, stopping, bounds>>

PlanClaim(k) ==
  /\ pc[k] = "plan"
  /\ OpenAttempt(k)
  /\ First(k)
  /\ Goto(k, "slot")
  /\ UNCHANGED <<store, item, outcome, runs, wake, canceller, owed, tries, stopping, bounds>>

(* The disposition dispReap: settleCancelled, and the first try of the cleanup it marked. *)
Reap(k) ==
  /\ pc[k] = "reap"
  /\ SettleCancelled(k)
  /\ tries' = IF SettleMarks(k) THEN Tried(JobOf(k)) ELSE tries
  /\ Ack(k)
  /\ UNCHANGED <<trigger, failures, session, inRunner, earlier, wanted,
                 runs, wake, canceller, owed, stopping, bounds>>

(* A store that fails here is only warned of, and the item is done all the same. *)
ReapFails(k) ==
  /\ pc[k] = "reap"
  /\ faults < MaxFaults
  /\ faults' = faults + 1
  /\ Ack(k)
  /\ UNCHANGED <<store, runs, wake, canceller, owed, tries, stopping, restarts>>

(* Service.acquire: a slot, or none once the service is stopping. *)
Acquire(k) ==
  /\ pc[k] = "slot"
  /\ ~stopping
  /\ Cardinality({i \in Key : pc[i] \in SlotPcs}) < Slots
  /\ Goto(k, "claim")
  /\ UNCHANGED <<store, item, outcome, runs, wake, canceller, owed, tries, stopping, bounds>>

AcquireStopped(k) ==
  /\ pc[k] = "slot"
  /\ stopping
  /\ HandBack(k)
  /\ UNCHANGED <<store, runs, wake, canceller, owed, tries, stopping, bounds>>

(* Store.Claim: the attempt is handed over once more, and its job runs. *)
Claim(k) ==
  /\ pc[k] = "claim"
  /\ OpenAttempt(k)
  /\ attState' = [attState EXCEPT ![k] = "running"]
  /\ jobState' = [jobState EXCEPT ![JobOf(k)] = "running"]
  /\ inRunner' = [inRunner EXCEPT ![k] = FALSE]
  /\ session' = [session EXCEPT ![k] = FALSE]
  /\ Goto(k, "register")
  /\ UNCHANGED <<trigger, failures, earlier, wanted, cleanup, atRest, item, outcome, runs, wake,
                 canceller, owed, tries, stopping, bounds>>

(* ErrNotClaimable *)
ClaimRefused(k) ==
  /\ pc[k] = "claim"
  /\ ~OpenAttempt(k)
  /\ Ack(k)
  /\ UNCHANGED <<store, runs, wake, canceller, owed, tries, stopping, bounds>>

(* Service.invoke, in four steps: the run is known to the layer, *)
Register(k) ==
  /\ pc[k] = "register"
  /\ inflight' = inflight \cup {k}
  /\ cause' = [cause EXCEPT ![k] = IF stopping THEN "shutdown" ELSE "none"]
  /\ Goto(k, "look")
  /\ UNCHANGED <<store, item, outcome, called, overran, grace, wake, canceller, owed, tries, stopping, bounds>>

\* VARIANT of Look: the state of the job is that of the claim.
LookAtClaim(k) ==
  /\ pc[k] = "look"
  /\ Goto(k, "call")
  /\ UNCHANGED <<store, item, outcome, runs, wake, canceller, owed, tries, stopping, bounds>>

(* its job is looked at again, *)
Look(k) ==
  /\ pc[k] = "look"
  /\ cause' = [cause EXCEPT ![k] = IF @ = "none" /\ jobState[JobOf(k)] = "cancelled" THEN "cancel" ELSE @]
  /\ Goto(k, "call")
  /\ UNCHANGED <<store, item, outcome, inflight, called, overran, grace, wake, canceller, owed, tries,
                 stopping, bounds>>

(* the runner is called (attemptRun.call, MarkInRunner), *)
Call(k) ==
  /\ pc[k] = "call"
  /\ cause[k] = "none"
  /\ called' = called \cup {k}
  /\ inRunner' = [inRunner EXCEPT ![k] = TRUE]
  /\ Goto(k, "runner")
  /\ UNCHANGED <<jobState, attState, trigger, failures, session, earlier, wanted, cleanup,
                 atRest, item, outcome, inflight, cause, overran, grace, wake, canceller, owed, tries,
                 stopping, bounds>>

(* What the handler makes of a return, with the cause and overran at that moment. *)
Seen(k, out) ==
  CASE k \in overran -> "dropped"
    [] k \notin overran /\ cause[k] = "shutdown" -> "shutdown"
    [] k \notin overran /\ cause[k] = "cancel" /\ out = "transient" -> "fail"
    [] OTHER -> out

Returns(k, out) ==
  /\ outcome' = [outcome EXCEPT ![k] = Seen(k, out)]
  /\ Goto(k, "forget")
  /\ UNCHANGED <<store, item, runs, wake, canceller, owed, tries, stopping, restarts>>

(* or it is not, when the run was stopped before, *)
NotCalled(k) ==
  /\ pc[k] = "call"
  /\ cause[k] # "none"
  /\ Returns(k, "fail")
  /\ UNCHANGED faults

(* and the run is forgotten; what a cancel that found it may still ask is kept. *)
Forget(k) ==
  /\ pc[k] = "forget"
  /\ inflight' = inflight \ {k}
  /\ called' = IF canceller[k] = "stop" THEN called ELSE called \ {k}
  /\ overran' = overran \ {k}
  /\ cause' = [cause EXCEPT ![k] = "none"]
  /\ tries' = IF k \in overran /\ cleanup[JobOf(k)] = "pending" THEN Tried(JobOf(k)) ELSE tries
  /\ Goto(k, "returned")
  /\ UNCHANGED <<store, item, outcome, grace, wake, canceller, owed, stopping,
                 bounds>>

(* An operation of the store fails: of the plan, the claim, the backoff or the end, *)
HandlerFails(k) ==
  /\ \/ pc[k] \in {"plan", "claim", "backoff"}
     \/ pc[k] = "returned" /\ outcome[k] \in Endings \cup {"spent", "transient"}
  /\ faults < MaxFaults
  /\ faults' = faults + 1
  /\ HandBack(k)
  /\ wake' = [wake EXCEPT ![k] = "none"]
  /\ UNCHANGED <<store, runs, canceller, owed, tries, stopping, restarts>>

(* or of invoke, before the runner is called though maybe after it counts as called. *)
InvokeFails(k) ==
  /\ faults < MaxFaults
  /\ \/ pc[k] = "look" /\ UNCHANGED called
     \/ pc[k] = "call" /\ cause[k] = "none" /\ called' = called \cup {k}
  /\ faults' = faults + 1
  /\ outcome' = [outcome EXCEPT ![k] = "error"]
  /\ Goto(k, "forget")
  /\ UNCHANGED <<store, item, inflight, cause, overran, grace, wake, canceller, owed, tries, stopping,
                 restarts>>

-----------------------------------------------------------------------------
(* The runner (internal/worker behind jobs.Runner). *)

(* Recorder.Hub: the runner opened its session on hub. *)
RunnerReports(k) ==
  /\ pc[k] = "runner"
  /\ k \notin overran
  /\ attState[k] = "running"
  /\ ~session[k]
  /\ session' = [session EXCEPT ![k] = TRUE]
  /\ UNCHANGED <<jobState, attState, trigger, failures, inRunner, earlier, wanted, cleanup,
                 atRest, item, process, bounds>>

(* Run returns, with an ending or a transient error. *)
RunnerReturns(k) ==
  /\ pc[k] = "runner"
  /\ \E out \in Endings \cup {"transient"} :
       /\ out = "again" => k[2] < MaxAttempts
       /\ Returns(k, out)
  /\ UNCHANGED faults

-----------------------------------------------------------------------------
(* What becomes of a call. *)

(* What an overrun runner returned is dropped: the attempt was recorded already. *)
DropResult(k) ==
  /\ pc[k] = "returned"
  /\ outcome[k] = "dropped"
  /\ Ack(k)
  /\ UNCHANGED <<store, runs, wake, canceller, owed, tries, stopping, bounds>>

\* VARIANT of LeaveRunning: the item is done.
LeaveRunningAcks(k) ==
  /\ pc[k] = "returned"
  /\ outcome[k] \in {"shutdown", "error"}
  /\ Ack(k)
  /\ UNCHANGED <<store, runs, wake, canceller, owed, tries, stopping, bounds>>

(* The attempt is left as it is, for the next process or the next time. *)
LeaveRunning(k) ==
  /\ pc[k] = "returned"
  /\ outcome[k] \in {"shutdown", "error"}
  /\ HandBack(k)
  /\ UNCHANGED <<store, runs, wake, canceller, owed, tries, stopping, bounds>>

(* Service.transient: watchWait and NoteTransient. *)
NoteTransient(k) ==
  /\ pc[k] = "returned"
  /\ outcome[k] = "transient"
  /\ attState[k] = "running"
  /\ failures' = [failures EXCEPT ![k] = @ + 1]
  /\ IF failures'[k] >= MaxTransient
     THEN /\ outcome' = [outcome EXCEPT ![k] = "spent"]
          /\ UNCHANGED <<pc, wake>>
     ELSE /\ wake' = [wake EXCEPT ![k] = "watching"]
          /\ Goto(k, "backoff")
          /\ UNCHANGED outcome
  /\ UNCHANGED <<jobState, attState, trigger, session, inRunner, earlier, wanted, cleanup,
                 atRest, item, runs, canceller, owed, tries, stopping, bounds>>

(* It counts for an attempt that is running only; the attempt was recorded cancelled. *)
NoteRefused(k) ==
  /\ pc[k] = "returned"
  /\ outcome[k] = "transient"
  /\ attState[k] # "running"
  /\ HandBack(k)
  /\ UNCHANGED <<store, runs, wake, canceller, owed, tries, stopping, bounds>>

\* VARIANT of Backoff: the job stays as it is.
BackoffKeepsJob(k) ==
  /\ pc[k] = "backoff"
  /\ attState[k] = "running"
  /\ jobState[JobOf(k)] = "running"
  /\ attState' = [attState EXCEPT ![k] = "queued"]
  /\ outcome' = [outcome EXCEPT ![k] = "none"]
  /\ Goto(k, "paused")
  /\ UNCHANGED <<jobState, trigger, failures, session, inRunner, earlier, wanted, cleanup, atRest,
                 item, runs, wake, canceller, owed, tries, stopping, bounds>>

(* Store.Backoff: the attempt and its job are queued again, and the handler waits. *)
Backoff(k) ==
  /\ pc[k] = "backoff"
  /\ attState[k] = "running"
  /\ jobState[JobOf(k)] = "running"
  /\ attState' = [attState EXCEPT ![k] = "queued"]
  /\ jobState' = [jobState EXCEPT ![JobOf(k)] = "queued"]
  /\ outcome' = [outcome EXCEPT ![k] = "none"]
  /\ Goto(k, "paused")
  /\ UNCHANGED <<trigger, failures, session, inRunner, earlier, wanted, cleanup, atRest,
                 item, runs, wake, canceller, owed, tries, stopping, bounds>>

(* The job was cancelled in the meantime: the transaction is undone. *)
BackoffRefused(k) ==
  /\ pc[k] = "backoff"
  /\ attState[k] = "running"
  /\ jobState[JobOf(k)] # "running"
  /\ HandBack(k)
  /\ wake' = [wake EXCEPT ![k] = "none"]
  /\ UNCHANGED <<store, runs, canceller, owed, tries, stopping, bounds>>

(* The attempt was recorded cancelled in the meantime: nothing is put back. *)
BackoffNothing(k) ==
  /\ pc[k] = "backoff"
  /\ attState[k] # "running"
  /\ Ack(k)
  /\ wake' = [wake EXCEPT ![k] = "none"]
  /\ UNCHANGED <<store, runs, canceller, owed, tries, stopping, bounds>>

(* Service.pause ends, by the clock or by a cancel, and the handler goes round again; *)
PauseEnds(k) ==
  /\ pc[k] = "paused"
  /\ wake' = [wake EXCEPT ![k] = "none"]
  /\ Goto(k, "slot")
  /\ UNCHANGED <<store, item, outcome, runs, canceller, owed, tries, stopping, bounds>>

(* or it gives up, because the service is stopping. *)
PauseStopped(k) ==
  /\ pc[k] = "paused"
  /\ stopping
  /\ wake' = [wake EXCEPT ![k] = "none"]
  /\ HandBack(k)
  /\ UNCHANGED <<store, runs, canceller, owed, tries, stopping, bounds>>

(* Service.finish.  An attempt that is not running ended another way: nothing is changed. *)
FinishNothing(k) ==
  /\ pc[k] = "returned"
  /\ outcome[k] \in Endings \cup {"spent"}
  /\ attState[k] # "running"
  /\ Goto(k, "wrapup")
  /\ UNCHANGED <<store, item, outcome, runs, wake, canceller, owed, tries, stopping, bounds>>

(* The job was cancelled while the attempt ran. *)
FinishCancelled(k) ==
  /\ pc[k] = "returned"
  /\ outcome[k] \in Endings \cup {"spent"}
  /\ attState[k] = "running"
  /\ jobState[JobOf(k)] = "cancelled"
  /\ EndCancelled(k)
  /\ tries' = IF MarksCleanup(k) THEN Tried(JobOf(k)) ELSE tries
  /\ Goto(k, "wrapup")
  /\ UNCHANGED <<trigger, failures, session, inRunner, earlier, wanted, item, outcome, runs,
                 wake, canceller, owed, stopping, bounds>>

(* ruling: a failure that is tried again queues an automatic attempt while the round is *)
(* not full, in the transaction that ends the attempt;                                  *)
FinishAuto(k) ==
  /\ pc[k] = "returned"
  /\ outcome[k] = "again"
  /\ attState[k] = "running"
  /\ jobState[JobOf(k)] = "running"
  /\ \E max \in RoundLimits : RoundSize(k) < max
  /\ attState' = [attState EXCEPT ![k] = "failed", ![Succ(k)] = "queued"]
  /\ jobState' = [jobState EXCEPT ![JobOf(k)] = "queued"]
  /\ InsertAttempt(Succ(k), "auto")
  /\ outcome' = [outcome EXCEPT ![k] = "auto"]
  /\ Goto(k, "wrapup")
  /\ UNCHANGED <<failures, session, inRunner, wanted, cleanup, atRest, item, runs, wake,
                 canceller, owed, tries, stopping, bounds>>

(* any other ending ends the job, or leaves it blocked on a question. *)
FinishRuled(k) ==
  /\ pc[k] = "returned"
  /\ outcome[k] \in Endings \cup {"spent"}
  /\ attState[k] = "running"
  /\ jobState[JobOf(k)] = "running"
  /\ \/ outcome[k] = "done" /\ EndRuled(k, "done", "done")
     \/ outcome[k] = "ask" /\ EndRuled(k, "needs_human", "blocked")
     \/ outcome[k] \in {"fail", "spent"} /\ EndRuled(k, "failed", "failed")
     \/ /\ outcome[k] = "again"
        /\ \E max \in RoundLimits : RoundSize(k) >= max
        /\ EndRuled(k, "failed", "failed")
  /\ Goto(k, "wrapup")
  /\ UNCHANGED <<trigger, failures, session, inRunner, earlier, wanted, item, outcome, runs,
                 wake, canceller, owed, tries, stopping, bounds>>

(* The automatic attempt is enqueued, and the handler returns. *)
Wrapup(k) ==
  /\ pc[k] = "wrapup"
  /\ item' = [i \in Key |-> CASE i = k -> "done"
                              [] /\ i = Succ(k) /\ outcome[k] = "auto"
                                 /\ item[i] = "none" /\ jobState[JobOf(k)] # "purged" -> "ready"
                              [] OTHER -> item[i]]
  /\ Goto(k, "idle")
  /\ outcome' = [outcome EXCEPT ![k] = "none"]
  /\ UNCHANGED <<store, runs, wake, canceller, owed, tries, stopping, bounds>>

WrapupFails(k) ==
  /\ pc[k] = "wrapup"
  /\ outcome[k] = "auto"
  /\ faults < MaxFaults
  /\ faults' = faults + 1
  /\ Ack(k)
  /\ UNCHANGED <<store, runs, wake, canceller, owed, tries, stopping, restarts>>

-----------------------------------------------------------------------------
(* The grace of a cancel. *)

(* The runner has returned, or the service is stopping: nothing more is waited for. *)
GraceEnds(k) ==
  /\ grace[k] = "on"
  /\ k \notin inflight \/ stopping
  /\ grace' = [grace EXCEPT ![k] = "off"]
  /\ UNCHANGED <<store, item, pc, outcome, inflight, called, cause, overran, wake, canceller, owed,
                 tries, stopping, bounds>>

(* overrun: the runner has not returned in time, and what it sends from now on is dropped; *)
Overrun(k) ==
  /\ grace[k] = "on"
  /\ overran' = overran \cup ({k} \cap inflight)
  /\ grace' = [grace EXCEPT ![k] = "settle"]
  /\ UNCHANGED <<store, item, pc, outcome, inflight, called, cause, wake, canceller, owed, tries,
                 stopping, bounds>>

(* then the attempt is recorded cancelled (settleCancelled), unless it has ended. *)
OverrunSettles(k) ==
  /\ grace[k] = "settle"
  /\ grace' = [grace EXCEPT ![k] = "off"]
  /\ SettleCancelled(k)
  /\ UNCHANGED <<trigger, failures, session, inRunner, earlier, wanted, item, pc, outcome,
                 inflight, called, cause, overran, wake, canceller, owed, tries, stopping, bounds>>

(* A store that fails here is only warned of. *)
OverrunFails(k) ==
  /\ grace[k] = "settle"
  /\ faults < MaxFaults
  /\ faults' = faults + 1
  /\ grace' = [grace EXCEPT ![k] = "off"]
  /\ UNCHANGED <<store, item, pc, outcome, inflight, called, cause, overran, wake, canceller, owed,
                 tries, stopping, restarts>>

-----------------------------------------------------------------------------
(* The cancel cleanup: what a try leaves, and what the sweep does about the pending ones. *)

TryEnds(j) ==
  /\ j \in tries
  /\ tries' = tries \ {j}
  /\ \E out \in {"pending", "done", "label_not_set"} :
       cleanup' = [cleanup EXCEPT ![j] = IF @ = "pending" THEN out ELSE @]
  /\ UNCHANGED <<jobState, attState, trigger, failures, session, inRunner, earlier, wanted,
                 atRest, item, pc, outcome, runs, wake, canceller, owed, stopping, bounds>>

(* retryCleanups starts a try, *)
SweepTries(j) ==
  /\ cleanup[j] = "pending"
  /\ ~stopping
  /\ j \notin tries
  /\ ~RunnerInProgress(j)
  /\ tries' = Tried(j)
  /\ UNCHANGED <<store, item, pc, outcome, runs, wake, canceller, owed, stopping, bounds>>

(* or gives up, an hour after the cancel. *)
Abandon(j) ==
  /\ cleanup[j] = "pending"
  /\ ~stopping
  /\ j \notin tries
  /\ ~RunnerInProgress(j)
  /\ cleanup' = [cleanup EXCEPT ![j] = "label_not_set"]
  /\ UNCHANGED <<jobState, attState, trigger, failures, session, inRunner, earlier, wanted,
                 atRest, item, process, bounds>>

-----------------------------------------------------------------------------
(* Retention, shutdown and restart. *)

(* Service.Purge: a job whose retention is over, with what hangs on it. *)
Purge(j) ==
  /\ ~stopping
  /\ jobState[j] \in Finished
  /\ cleanup[j] # "pending"
  /\ Running(j) = {}
  /\ ~RunnerInProgress(j)
  /\ jobState' = [jobState EXCEPT ![j] = "purged"]
  /\ attState' = [k \in Key |-> IF k[1] = j THEN "none" ELSE attState[k]]
  /\ trigger' = [k \in Key |-> IF k[1] = j THEN "create" ELSE trigger[k]]
  /\ failures' = [k \in Key |-> IF k[1] = j THEN 0 ELSE failures[k]]
  /\ session' = [k \in Key |-> session[k] /\ k[1] # j]
  /\ inRunner' = [k \in Key |-> inRunner[k] /\ k[1] # j]
  /\ earlier' = [k \in Key |-> IF k[1] = j THEN {} ELSE earlier[k] \ KeysOf(j)]
  /\ wanted' = [wanted EXCEPT ![j] = FALSE]
  /\ cleanup' = [cleanup EXCEPT ![j] = "none"]
  /\ atRest' = [atRest EXCEPT ![j] = FALSE]
  /\ UNCHANGED <<item, process, bounds>>

(* Service.Close: the service is stopping, *)
Stop ==
  /\ ~stopping
  /\ restarts < MaxRestarts
  /\ stopping' = TRUE
  /\ UNCHANGED <<store, item, pc, outcome, runs, wake, canceller, owed, tries, bounds>>

(* and each runner is told, unless it was told to stop before. *)
StopRun(k) ==
  /\ stopping
  /\ k \in inflight
  /\ cause[k] = "none"
  /\ cause' = [cause EXCEPT ![k] = "shutdown"]
  /\ UNCHANGED <<store, item, pc, outcome, inflight, called, overran, grace, wake, canceller, owed,
                 tries, stopping, bounds>>

(* The process ends, after a stop or by a crash, and another starts on its files: the *)
(* items that were claimed are handed over again.                                     *)
Restart ==
  /\ restarts < MaxRestarts
  /\ restarts' = restarts + 1
  /\ item' = [k \in Key |-> IF item[k] = "claimed" THEN "ready" ELSE item[k]]
  /\ pc' = [k \in Key |-> "idle"]
  /\ outcome' = [k \in Key |-> "none"]
  /\ inflight' = {}
  /\ called' = {}
  /\ cause' = [k \in Key |-> "none"]
  /\ overran' = {}
  /\ grace' = [k \in Key |-> "off"]
  /\ wake' = [k \in Key |-> "none"]
  /\ canceller' = [k \in Key |-> "idle"]
  /\ owed' = {}
  /\ tries' = {}
  /\ stopping' = FALSE
  /\ UNCHANGED <<store, faults>>

-----------------------------------------------------------------------------
Person(j) == Create(j) \/ Answer(j) \/ Retry(j) \/ CancelJob(j)

Cancelling(k) == CancelWakes(k) \/ CancelLooks(k) \/ CancelStops(k) \/ CancelMarks(k)

Plan(k)   == PlanAck(k) \/ PlanReap(k) \/ PlanYield(k) \/ PlanClaim(k)
Invoke(k) == Register(k) \/ Look(k) \/ Call(k) \/ NotCalled(k) \/ Forget(k)
Finish(k) == FinishNothing(k) \/ FinishCancelled(k) \/ FinishAuto(k) \/ FinishRuled(k)
Transient(k) ==
  NoteTransient(k) \/ NoteRefused(k) \/ Backoff(k) \/ BackoffRefused(k) \/ BackoffNothing(k)
Handler(k) ==
  \/ Plan(k) \/ Reap(k) \/ Acquire(k) \/ AcquireStopped(k) \/ Claim(k) \/ ClaimRefused(k)
  \/ Invoke(k) \/ DropResult(k) \/ LeaveRunning(k) \/ Transient(k)
  \/ PauseEnds(k) \/ PauseStopped(k) \/ Finish(k) \/ Wrapup(k)
Grace(k) == GraceEnds(k) \/ Overrun(k) \/ OverrunSettles(k)
Faults(k) ==
  EnqueueFails(k) \/ ReapFails(k) \/ HandlerFails(k) \/ InvokeFails(k) \/ WrapupFails(k) \/ OverrunFails(k)
Runner(k) == RunnerReports(k) \/ RunnerReturns(k)
Tries(j)  == TryEnds(j) \/ SweepTries(j) \/ Abandon(j)

Next ==
  \/ \E j \in Job : Person(j) \/ Tries(j) \/ Purge(j)
  \/ \E k \in Key : \/ Cancelling(k) \/ Enqueue(k) \/ HandOver(k) \/ Handler(k)
                    \/ Runner(k) \/ Grace(k) \/ Faults(k) \/ StopRun(k)
  \/ Sweep \/ Stop \/ Restart

Spec == Init /\ [][Next]_vars

-----------------------------------------------------------------------------
(* Fairness: the process goes on with what it has begun, the queue hands over what is     *)
(* ready (an item handed back comes again after one that waited, so no item waits behind  *)
(* the same two for ever), the clock reaches the end of a wait, a grace and an hour, and  *)
(* a service that stops is started again.  Nothing is assumed of people, of a store that  *)
(* fails or of a process that dies; of the runners, only what a property says.            *)
Fairness ==
  /\ \A k \in Key : /\ SF_vars(HandOver(k))
                    /\ SF_vars(Handler(k))
                    /\ WF_vars(Enqueue(k))
                    /\ WF_vars(Cancelling(k))
                    /\ WF_vars(Grace(k))
  /\ \A j \in Job : WF_vars(TryEnds(j)) /\ SF_vars(Abandon(j))
  /\ WF_vars(Sweep)
  /\ WF_vars(stopping /\ Restart)

LiveSpec == Spec /\ Fairness

(* The runners of the job return at last: a run has a budget of time (internal/worker). *)
RunnersReturn(j) == \A k \in KeysOf(j) : WF_vars(RunnerReturns(k))

-----------------------------------------------------------------------------
(* Properties. *)

(* Every variable holds values of its type, and an attempt that is to be followed by *)
(* another is not the last that the bound allows.                                    *)
TypeOK ==
  /\ jobState \in [Job -> JobStates]
  /\ attState \in [Key -> AttStates]
  /\ trigger \in [Key -> Triggers]
  /\ failures \in [Key -> Nat]
  /\ session \in [Key -> BOOLEAN]
  /\ inRunner \in [Key -> BOOLEAN]
  /\ earlier \in [Key -> SUBSET Key]
  /\ wanted \in [Job -> BOOLEAN]
  /\ cleanup \in [Job -> Cleanups]
  /\ atRest \in [Job -> BOOLEAN]
  /\ item \in [Key -> Items]
  /\ pc \in [Key -> Pcs]
  /\ outcome \in [Key -> Outcomes]
  /\ inflight \in SUBSET Key
  /\ called \in SUBSET Key
  /\ cause \in [Key -> {"none", "cancel", "shutdown"}]
  /\ overran \in SUBSET Key
  /\ grace \in [Key -> {"off", "on", "settle"}]
  /\ wake \in [Key -> {"none", "watching", "woken"}]
  /\ canceller \in [Key -> {"idle", "wake", "look", "stop", "mark"}]
  /\ owed \in SUBSET Key
  /\ tries \in SUBSET Job
  /\ stopping \in BOOLEAN
  /\ restarts \in Nat
  /\ faults \in Nat
  /\ \A k \in Key : outcome[k] = "again" => k[2] < MaxAttempts

(* A workspace has one attempt in a runner, or on the way to one or from one, at a time, *)
(* one whose runner overran its cancel included: two would write one clone and one issue *)
(* (ADR 07, the group of an item).                                                       *)
OneHandlerPerWorkspace ==
  \A i, k \in Key : Ws(i) = Ws(k) /\ pc[i] # "idle" /\ pc[k] # "idle" => i = k

(* No more attempts are in a runner at once than there are slots, though handlers give *)
(* theirs up for the wait after a transient failure and come back for another.         *)
SlotBound == Cardinality({k \in Key : pc[k] \in SlotPcs}) <= Slots

(* At most one open job of a kind for an issue, whichever of a creation and a retry or an *)
(* answer of an older job comes first.                                                    *)
OneOpenPerTopic ==
  \A i, j \in Job : /\ jobState[i] \in Open /\ jobState[j] \in Open
                    /\ TopicOf[i] = TopicOf[j] /\ TopicOf[i] # NoTopic
                    /\ WorkspaceOf[i] = WorkspaceOf[j]
                    => i = j

(* What the job says of itself agrees with its last attempt, and no attempt before the *)
(* last is open, whatever ended, was cancelled or was put back in between.             *)
JobMatchesAttempt ==
  \A k \in Made :
    IF ~Last(k) THEN attState[k] \notin {"queued", "running"}
    ELSE CASE jobState[JobOf(k)] = "blocked"   -> attState[k] = "needs_human"
           [] jobState[JobOf(k)] = "cancelled" -> attState[k] # "queued"
           [] OTHER -> attState[k] = jobState[JobOf(k)]

(* The queue still has every attempt that is open, unless it is queued and was not put in *)
(* the queue yet, which the sweep mends: none is let go of through a shutdown, a crash, a *)
(* failure of the store, a wait or a result that came too late.                           *)
NoLostAttempt ==
  \A k \in Key : OpenAttempt(k) => \/ item[k] \in {"ready", "claimed"}
                                   \/ item[k] = "none" /\ attState[k] = "queued"

(* An attempt that runs and that nothing of this process will end: its item is done, or *)
(* its runner overran, and what it returns is dropped.                                  *)
Stranded(k) ==
  /\ attState[k] = "running"
  /\ item[k] = "done" \/ k \in overran
  /\ grace[k] # "settle"

(* The last job_state event of a job says at rest, which ends the streams that follow it, *)
(* exactly when its state is to stay and no attempt of it runs.                           *)
AtRestAgrees ==
  \A j \in Job : atRest[j] <=> jobState[j] \in Finished \cup {"blocked"} /\ Running(j) = {}

(* A runner that carries out an attempt of a cancelled job has been told to stop, or the *)
(* cancel is about to: it is not missed between the claim and the call.                  *)
ToldOfCancel ==
  \A k \in Key : pc[k] = "runner" /\ jobState[JobOf(k)] = "cancelled" =>
                 cause[k] # "none" \/ canceller[k] \in {"look", "stop"}

(* A handler that waits out a backoff whose attempt was cancelled has been woken, or the *)
(* cancel is about to: it does not hold its workspace for the rest of the wait.          *)
WokenByCancel ==
  \A k \in Key : pc[k] = "paused" /\ attState[k] = "cancelled" =>
                 wake[k] = "woken" \/ canceller[k] = "wake"

(* While the labels of an issue are put back after a cancel, no runner of the job is at *)
(* work on the same issue, not even one that overran.                                   *)
CleanupAlone ==
  \A j \in tries : \A k \in KeysOf(j) : pc[k] # "runner"

(* A cancelled job that is at rest and whose last attempt opened no session, so that no *)
(* runner put the labels of its issue back, has its cleanup marked.                     *)
CleanupOwed ==
  \A k \in Key : jobState[JobOf(k)] = "cancelled" /\ wanted[JobOf(k)] /\ atRest[JobOf(k)]
                 /\ Last(k) /\ ~session[k] => cleanup[JobOf(k)] # "none"

(* Nothing of a job that was purged is at work any more, and no attempt of it is made again. *)
PurgedIsGone ==
  \A k \in Key : jobState[JobOf(k)] = "purged" => attState[k] = "none" /\ pc[k] # "runner"

(* A job that is over comes to rest whole: its last event says so when its rows do, the wait of its handler is woken, *)
(* its labels are put back while no runner works, and nothing of it is left when it is purged.                       *)
RestsWhole == AtRestAgrees /\ WokenByCancel /\ CleanupAlone /\ PurgedIsGone

(* The automatic attempts in a row are fewer than the longest round a runner allows. *)
RoundBound ==
  \A k \in Key : \E max \in RoundLimits :
    \E i \in 0..(max - 1) : i < k[2] => trigger[<<k[1], k[2] - i>>] # "auto"

(* What the code relies on from one step of a handler to the next, and no transaction of *)
(* its own ensures: the strengthening that makes the invariants above inductive.        *)

\* A handler is at work on exactly the items that are claimed, one of a workspace at a time.
HandlersHoldItems ==
  /\ \A k \in Key : pc[k] # "idle" <=> item[k] = "claimed"
  /\ \A i, k \in Key : item[i] = "claimed" /\ item[k] = "claimed" /\ Ws(i) = Ws(k) => i = k

\* An attempt that is in the queue, or on its way there, was made, and its rows are
\* there unless its job was purged.
QueuedWasMade ==
  /\ \A k \in Key : item[k] # "none" \/ k \in owed =>
                     attState[k] # "none" \/ jobState[JobOf(k)] = "purged"
  /\ \A k \in Key : outcome[k] = "auto" =>
                     Succ(k) \in Key /\ (attState[Succ(k)] # "none" \/ jobState[JobOf(k)] = "purged")
  /\ \A k \in Key : jobState[JobOf(k)] \in {"absent", "purged"} => attState[k] = "none"

\* What stops a runner, or closes an attempt without one, belongs to a job that was cancelled.
StopsAreCancels ==
  \A k \in Key : \/ canceller[k] # "idle" \/ cause[k] = "cancel" \/ grace[k] # "off"
                 \/ k \in overran \/ outcome[k] = "dropped" \/ pc[k] = "reap"
                 => jobState[JobOf(k)] \in {"cancelled", "purged"}

\* An attempt that was claimed is queued again by its own handler only, and it is not open
\* when its handler is about to let go of it for good.
ClaimedStaysClaimed ==
  /\ \A k \in Key : pc[k] \in (SlotPcs \ {"claim"}) => attState[k] # "queued"
  /\ \A k \in Key : pc[k] = "wrapup" => attState[k] # "running"

\* A handler that waits, or is about to, is registered for a cancel to find, and its attempt
\* does not run.
WaitsAreWatched ==
  /\ \A k \in Key : pc[k] \in {"backoff", "paused"} => wake[k] # "none"
  /\ \A k \in Key : pc[k] = "paused" => attState[k] # "running"

\* A run is known to the layer from before the job is looked at until it is forgotten, and
\* one that is about to call its runner has seen a cancel, or the cancel will find it.
RunsAreKnown ==
  /\ \A k \in Key : pc[k] \in {"look", "call", "runner", "forget"} => k \in inflight
  /\ \A k \in Key : pc[k] \in {"register", "look", "call", "runner"} =>
                     \/ jobState[JobOf(k)] = "running" /\ attState[k] = "running"
                     \/ jobState[JobOf(k)] \in {"cancelled", "purged"}
  /\ \A k \in Key : pc[k] = "call" /\ jobState[JobOf(k)] = "cancelled" =>
                     cause[k] # "none" \/ canceller[k] \in {"look", "stop"}

Consistent ==
  /\ HandlersHoldItems /\ QueuedWasMade /\ StopsAreCancels
  /\ ClaimedStaysClaimed /\ WaitsAreWatched /\ RunsAreKnown

(* The rows of a job keep the life of a job that its watchers are promised (JobLife): the *)
(* attempt that is held is the one that is running, whatever process has it.              *)
NumberOf(j) == Cardinality(KeysOf(j) \cap Made)
HeldOf(j) == IF Running(j) = {} THEN 0 ELSE (CHOOSE k \in Running(j) : TRUE)[2]
Life == INSTANCE JobLife WITH state <- jobState,
                              attempts <- [j \in Job |-> NumberOf(j)],
                              held <- [j \in Job |-> HeldOf(j)]
KeepsJobLife == Life!Spec

(* An attempt that ended stays as it ended, until its job is purged: not what a runner *)
(* returned too late, nor a claim, nor a cancel changes it.                            *)
EndedStays ==
  [][\A k \in Key : attState[k] \in {"done", "needs_human", "failed", "cancelled"} =>
                    attState'[k] \in {attState[k], "none"}]_vars

(* The attempts of a workspace are handed to runners in the order they were made, whatever *)
(* order the queue has them in: one is claimed only when none made before it is open.      *)
InOrder ==
  [][\A k \in Key : pc[k] = "claim" /\ pc'[k] = "register" =>
                    \A i \in earlier[k] : Ws(i) = Ws(k) => ~OpenAttempt(i)]_vars

(* Every attempt that is open is closed at last, when runners return: the workspace, its *)
(* order and the slots are shared by all, and none waits for ever.                       *)
AttemptsEnd ==
  (\A j \in Job : RunnersReturn(j)) => \A k \in Key : OpenAttempt(k) ~> ~OpenAttempt(k)

(* A job that was cancelled comes to rest, even when its own runner never returns, as long *)
(* as the runners of the other jobs do, unless its attempt was stranded.                   *)
CancelRests ==
  \A j \in Job : (\A i \in Job \ {j} : RunnersReturn(i)) =>
                 (jobState[j] = "cancelled" ~> \/ atRest[j] \/ jobState[j] = "purged"
                                               \/ \E k \in KeysOf(j) : Stranded(k))

(* A cleanup that is pending ends at last, done or given up, when runners return. *)
CleanupEnds ==
  (\A j \in Job : RunnersReturn(j)) => \A j \in Job : cleanup[j] = "pending" ~> cleanup[j] # "pending"

(* What a cancel leaves to be done is done at last. *)
CancelEnds == CancelRests /\ CleanupEnds

-----------------------------------------------------------------------------
(* What the documents say, and the code does not keep. *)

(* docs/architecture.md, One session per attempt: the session that a delivery recorded is *)
(* handed to the next one.  Store.Claim clears it, and RunRequest reads it after.         *)
SessionGoesOn ==
  [][\A k \in Key : session[k] /\ pc[k] = "claim" /\ pc'[k] = "register" => session'[k]]_vars

(* ADR 07, Cancel: an attempt left running under a cancelled job is closed when its item  *)
(* comes up, so it has an item that comes up.                                             *)
NeverStranded == \A k \in Key : ~Stranded(k)

(* ADR 07, Cancel: after a stop of the process in between, the reaped attempt marks the *)
(* cleanup when it is recorded.                                                         *)
ReapedMarks ==
  [][\A k \in Key : pc[k] = "reap" /\ attState[k] = "running" /\ attState'[k] = "cancelled"
                    /\ wanted[JobOf(k)] => cleanup'[JobOf(k)] # "none"]_vars
=============================================================================
