---------------------------- MODULE Unsubscribe -----------------------------
(***************************************************************************)
(* The removal of a subscription (DELETE of a workspace, and               *)
(* jobs.Service.Unsubscribe) against what else reaches the jobs of the     *)
(* workspace: creations, which hold the gate; answers and retries, which   *)
(* do not; cancels by people; handlers, runners and tries of cleanups; and *)
(* other removals.                                                         *)
(*                                                                         *)
(* One workspace.  The handler of a job is what an unsubscribe sees of it, *)
(* the phase of its run; Jobs has the rest.  Restarts are left to Jobs: a  *)
(* process that ends drops every removal and every mark with it.           *)
(*                                                                         *)
(* A definition marked VARIANT is the one after it with a mistake that     *)
(* would be easy to make.                                                  *)
(***************************************************************************)
EXTENDS Naturals

CONSTANTS
  Job,           \* the jobs that may be made for the workspace
  Unsubscriber,  \* the requests that remove the subscription
  MaxLooks,      \* how often a cancel looks at a job again (8 in the code)
  MaxSubscribes  \* bound: how often the workspace is subscribed again

ASSUME UnsubscribeAssumption ==
  /\ MaxLooks \in Nat \ {0}
  /\ MaxSubscribes \in Nat

Ask == {"answer", "retry"}

VARIABLES
  \* The state file.
  subscribed,  \* whether the workspace has a row, with its token
  jobState,    \* af_jobs.state
  retried,     \* the jobs that have an attempt that a retry made
  cleanup,     \* af_jobs.cleanup
  \* The process.
  marks,       \* Service.unsubscribing: the removals that marked the workspace
  creating,    \* the creation of each job
  asking,      \* the answer and the retry of each job
  run,         \* where the handler of each job's attempt is
  session,     \* the jobs whose runner opened a session on hub
  stopped,     \* the jobs whose run was told to stop
  tries,       \* cleanups.tries
  \* Service.Unsubscribe, of each removal:
  pc,          \* where it is
  ids,         \* the jobs it has still to cancel
  looking,     \* the one it is at, and the state that it saw
  looks,       \* how often it looked at that one
  runs,        \* the runs it waits for
  waits,       \* the tries it waits for
  over,        \* whether its wait for the tries ran out
  \* Kept for the properties and the bound.
  mine,        \* the jobs that each removal cancelled
  tried,       \* the jobs whose cleanup has had a try
  subscribes

rows == <<subscribed, jobState, retried, cleanup>>
layer == <<run, session, stopped, tries, tried>>
people == <<creating, asking, subscribes>>
removal == <<pc, ids, looking, looks, runs, waits, over, mine>>
vars == <<rows, marks, people, layer, removal>>

Open == {"queued", "running", "blocked"}
OpenJobs == {j \in Job : jobState[j] \in Open}
Nobody == [job |-> "none", state |-> "none"]

(* A run is in Service.inflight from its registration until it is forgotten; it is settled *)
(* once it is forgotten or overran, and done when its handler is through with it.          *)
Inflight == {j \in Job : run[j] \in {"known", "looked", "runner", "overrun"}}
Settled(j) == run[j] \in {"overrun", "back", "left", "reaped", "none"}
Done(j) == run[j] \in {"left", "reaped", "none"}

Init ==
  /\ subscribed = TRUE
  /\ jobState = [j \in Job |-> "absent"]
  /\ retried = {}
  /\ cleanup = [j \in Job |-> "none"]
  /\ marks = {}
  /\ creating = [j \in Job |-> "no"]
  /\ asking = [j \in Job |-> [a \in Ask |-> "no"]]
  /\ run = [j \in Job |-> "none"]
  /\ session = {}
  /\ stopped = {}
  /\ tries = {}
  /\ pc = [u \in Unsubscriber |-> "idle"]
  /\ ids = [u \in Unsubscriber |-> {}]
  /\ looking = [u \in Unsubscriber |-> Nobody]
  /\ looks = [u \in Unsubscriber |-> 0]
  /\ runs = [u \in Unsubscriber |-> {}]
  /\ waits = [u \in Unsubscriber |-> {}]
  /\ over = [u \in Unsubscriber |-> FALSE]
  /\ mine = [u \in Unsubscriber |-> {}]
  /\ tried = {}
  /\ subscribes = 0

-----------------------------------------------------------------------------
(* People: subscriptions, creations, answers, retries and cancels. *)

(* PUT of a workspace: Store.Upsert, which takes neither the gate nor a look at the marks. *)
Subscribe ==
  /\ subscribes < MaxSubscribes
  /\ subscribes' = subscribes + 1
  /\ subscribed' = TRUE
  /\ UNCHANGED <<jobState, retried, cleanup, marks, creating, asking, layer, removal>>

(* Service.insert: under the gate for reading, the checks, *)
CreateChecks(j) ==
  /\ creating[j] = "no"
  /\ jobState[j] = "absent"
  /\ marks = {}
  /\ subscribed
  /\ creating' = [creating EXCEPT ![j] = "gate"]
  /\ UNCHANGED <<rows, marks, asking, subscribes, layer, removal>>

(* and the job. *)
CreateStores(j) ==
  /\ creating[j] = "gate"
  /\ creating' = [creating EXCEPT ![j] = "no"]
  /\ jobState' = [jobState EXCEPT ![j] = "queued"]
  /\ UNCHANGED <<subscribed, retried, cleanup, marks, asking, subscribes, layer, removal>>

(* Answer and Retry see the state of the job, *)
From(a) == IF a = "answer" THEN "blocked" ELSE "failed"

AskSees(j, a) ==
  /\ asking[j][a] = "no"
  /\ jobState[j] = From(a)
  /\ asking' = [asking EXCEPT ![j][a] = "seen"]
  /\ UNCHANGED <<rows, marks, creating, subscribes, layer, removal>>

(* requeue looks at the subscription, without the gate, *)
AskChecks(j, a) ==
  /\ asking[j][a] = "seen"
  /\ asking' = [asking EXCEPT ![j][a] = IF marks = {} /\ subscribed THEN "checked" ELSE "no"]
  /\ UNCHANGED <<rows, marks, creating, subscribes, layer, removal>>

(* and requeues the job, if it is still in the state that was seen. *)
AskStores(j, a) ==
  /\ asking[j][a] = "checked"
  /\ asking' = [asking EXCEPT ![j][a] = "no"]
  /\ IF jobState[j] = From(a)
     THEN /\ jobState' = [jobState EXCEPT ![j] = "queued"]
          /\ retried' = IF a = "retry" THEN retried \cup {j} ELSE retried
     ELSE UNCHANGED <<jobState, retried>>
  /\ UNCHANGED <<subscribed, cleanup, marks, creating, subscribes, layer, removal>>

(* Service.cancel: a run that is found is told to stop; the cleanup is marked, with its   *)
(* first try, unless the runner was called.  What the transaction and the rest of it let  *)
(* in between them is in Jobs.                                                            *)
Stops(j) ==
  /\ stopped' = stopped \cup ({j} \cap Inflight)
  /\ IF run[j] = "runner" \/ cleanup[j] # "none"
     THEN UNCHANGED <<cleanup, tries>>
     ELSE /\ cleanup' = [cleanup EXCEPT ![j] = "pending"]
          /\ tries' = tries \cup {j}

Cancel(j) ==
  /\ jobState[j] \in Open
  /\ jobState' = [jobState EXCEPT ![j] = "cancelled"]
  /\ Stops(j)
  /\ UNCHANGED <<subscribed, retried, marks, people, run, session, tried, removal>>

-----------------------------------------------------------------------------
(* The handler of a job's attempt, and the tries of its cleanup. *)

Claim(j) ==
  /\ run[j] = "none"
  /\ jobState[j] = "queued"
  /\ jobState' = [jobState EXCEPT ![j] = "running"]
  /\ run' = [run EXCEPT ![j] = "claimed"]
  /\ session' = session \ {j}
  /\ UNCHANGED <<subscribed, retried, cleanup, marks, people, stopped, tries, tried, removal>>

Goes(j, from, to) ==
  /\ run[j] = from
  /\ run' = [run EXCEPT ![j] = to]
  /\ UNCHANGED <<rows, marks, people, session, stopped, tries, tried, removal>>

Register(j) == Goes(j, "claimed", "known")
Look(j)     == Goes(j, "known", IF jobState[j] = "cancelled" THEN "back" ELSE "looked")
Call(j)     == Goes(j, "looked", IF j \in stopped THEN "back" ELSE "runner")
Returns(j)  == Goes(j, "runner", "back")

Reports(j) ==
  /\ run[j] = "runner"
  /\ session' = session \cup {j}
  /\ UNCHANGED <<rows, marks, people, run, stopped, tries, tried, removal>>

(* EndAttempt of a cancelled job marks the cleanup when there is no session, *)
Marks(j) == cleanup[j] = "none" /\ j \notin session

(* with its first try when the handler records the attempt. *)
Records(j) ==
  /\ run[j] = "back"
  /\ run' = [run EXCEPT ![j] = "none"]
  /\ stopped' = stopped \ {j}
  /\ IF jobState[j] = "cancelled"
     THEN /\ cleanup' = IF Marks(j) THEN [cleanup EXCEPT ![j] = "pending"] ELSE cleanup
          /\ tries' = IF Marks(j) THEN tries \cup {j} ELSE tries
          /\ UNCHANGED jobState
     ELSE /\ \E to \in {"queued", "blocked", "done", "failed"} : jobState' = [jobState EXCEPT ![j] = to]
          /\ UNCHANGED <<cleanup, tries>>
  /\ UNCHANGED <<subscribed, retried, marks, people, session, tried, removal>>

(* A backoff that finds the job cancelled hands the item back, *)
HandsBack(j) ==
  /\ jobState[j] = "cancelled"
  /\ Goes(j, "back", "left")

(* and the attempt is closed when the item comes up. *)
Reap(j) ==
  /\ run[j] = "left"
  /\ run' = [run EXCEPT ![j] = "reaped"]
  /\ stopped' = stopped \ {j}
  /\ cleanup' = IF Marks(j) THEN [cleanup EXCEPT ![j] = "pending"] ELSE cleanup
  /\ tries' = IF Marks(j) THEN tries \cup {j} ELSE tries
  /\ UNCHANGED <<subscribed, jobState, retried, marks, people, session, tried, removal>>

(* The grace of a run that was told to stop ends: the attempt is recorded cancelled, *)
Overruns(j) ==
  /\ j \in stopped
  /\ run[j] \in {"known", "looked", "runner"}
  /\ run' = [run EXCEPT ![j] = "overrun"]
  /\ cleanup' = IF Marks(j) THEN [cleanup EXCEPT ![j] = "pending"] ELSE cleanup
  /\ UNCHANGED <<subscribed, jobState, retried, marks, people, session, stopped, tries, tried, removal>>

(* and when the runner returns at last, the cleanup is tried. *)
OverrunReturns(j) ==
  /\ run[j] = "overrun"
  /\ run' = [run EXCEPT ![j] = "none"]
  /\ stopped' = stopped \ {j}
  /\ tries' = IF cleanup[j] = "pending" THEN tries \cup {j} ELSE tries
  /\ UNCHANGED <<rows, marks, people, session, tried, removal>>

(* A try ends, with the cleanup or leaving it pending, and whoever waits for it is told. *)
TryEnds(j) ==
  /\ j \in tries
  /\ tries' = tries \ {j}
  /\ tried' = tried \cup {j}
  /\ waits' = [u \in Unsubscriber |-> waits[u] \ {j}]
  /\ \E to \in {"ended", "pending"} :
       cleanup' = [cleanup EXCEPT ![j] = IF @ = "pending" THEN to ELSE @]
  /\ UNCHANGED <<subscribed, jobState, retried, marks, people, run, session, stopped,
                 pc, ids, looking, looks, runs, over, mine>>

(* retryCleanups *)
SweepTries(j) ==
  /\ cleanup[j] = "pending"
  /\ j \notin Inflight
  /\ j \notin tries
  /\ tries' = tries \cup {j}
  /\ UNCHANGED <<rows, marks, people, run, session, stopped, tried, removal>>

-----------------------------------------------------------------------------
(* Service.Unsubscribe. *)

(* DELETE of a workspace that is subscribed. *)
Begin(u) ==
  /\ pc[u] = "idle"
  /\ subscribed
  /\ pc' = [pc EXCEPT ![u] = "mark"]
  /\ mine' = [mine EXCEPT ![u] = {}]
  /\ over' = [over EXCEPT ![u] = FALSE]
  /\ UNCHANGED <<rows, marks, people, layer, ids, looking, looks, runs, waits>>

\* VARIANT of Mark: the gate is not taken for writing.
MarkUngated(u) ==
  /\ pc[u] = "mark"
  /\ marks' = marks \cup {u}
  /\ pc' = [pc EXCEPT ![u] = "list"]
  /\ UNCHANGED <<rows, people, layer, ids, looking, looks, runs, waits, over, mine>>

(* MarkUnsubscribing: under the gate for writing, so when no creation holds it. *)
Mark(u) ==
  /\ pc[u] = "mark"
  /\ \A j \in Job : creating[j] = "no"
  /\ marks' = marks \cup {u}
  /\ pc' = [pc EXCEPT ![u] = "list"]
  /\ UNCHANGED <<rows, people, layer, ids, looking, looks, runs, waits, over, mine>>

(* OpenJobIDs *)
List(u) ==
  /\ pc[u] = "list"
  /\ ids' = [ids EXCEPT ![u] = OpenJobs]
  /\ pc' = [pc EXCEPT ![u] = "cancel"]
  /\ UNCHANGED <<rows, marks, people, layer, looking, looks, runs, waits, over, mine>>

(* What is waited for when a job is through: its run, or else its try in flight. *)
Through(u, j, found) ==
  /\ ids' = [ids EXCEPT ![u] = @ \ {j}]
  /\ looking' = [looking EXCEPT ![u] = Nobody]
  /\ looks' = [looks EXCEPT ![u] = 0]
  /\ runs' = [runs EXCEPT ![u] = @ \cup found]
  /\ waits' = [waits EXCEPT ![u] = IF found = {} THEN @ \cup ({j} \cap tries') ELSE @]

(* cancelWhatIsOpen: the state of the next job, or of the same once more, is looked at, *)
LooksAt(u, j) ==
  /\ pc[u] = "cancel"
  /\ looking[u] = Nobody \/ looking[u] = [job |-> j, state |-> "changed"]
  /\ j \in ids[u]
  /\ IF jobState[j] \in Open
     THEN /\ looking' = [looking EXCEPT ![u] = [job |-> j, state |-> jobState[j]]]
          /\ looks' = [looks EXCEPT ![u] = @ + 1]
          /\ UNCHANGED <<ids, runs, waits>>
     ELSE UNCHANGED tries /\ Through(u, j, {})
  /\ UNCHANGED <<rows, marks, people, layer, pc, over, mine>>

(* it is cancelled in that state, *)
CancelsSeen(u, j) ==
  /\ pc[u] = "cancel"
  /\ looking[u].job = j
  /\ jobState[j] = looking[u].state
  /\ jobState' = [jobState EXCEPT ![j] = "cancelled"]
  /\ mine' = [mine EXCEPT ![u] = @ \cup {j}]
  /\ Stops(j)
  /\ Through(u, j, {j} \cap Inflight)
  /\ UNCHANGED <<subscribed, retried, marks, people, run, session, tried, pc, over>>

(* or it changed state, and is looked at again, a bounded number of times. *)
Leaves(u) ==
  /\ pc' = [pc EXCEPT ![u] = "clear"]
  /\ ids' = [ids EXCEPT ![u] = {}]
  /\ looking' = [looking EXCEPT ![u] = Nobody]
  /\ looks' = [looks EXCEPT ![u] = 0]
  /\ runs' = [runs EXCEPT ![u] = {}]
  /\ waits' = [waits EXCEPT ![u] = {}]

FindsChanged(u, j) ==
  /\ pc[u] = "cancel"
  /\ looking[u].job = j
  /\ looking[u].state # "changed"
  /\ jobState[j] # looking[u].state
  /\ IF looks[u] < MaxLooks
     THEN /\ looking' = [looking EXCEPT ![u].state = "changed"]
          /\ UNCHANGED <<pc, ids, looks, runs, waits>>
     ELSE Leaves(u)
  /\ UNCHANGED <<rows, marks, people, layer, over, mine>>

(* All runs are settled, *)
Waits(u) ==
  /\ pc[u] = "cancel"
  /\ ids[u] = {}
  /\ \A j \in runs[u] : Settled(j)
  /\ pc' = [pc EXCEPT ![u] = "tries"]
  /\ UNCHANGED <<rows, marks, people, layer, ids, looking, looks, runs, waits, over, mine>>

\* VARIANT of RunDone: the try that the handler started is not waited for.
RunDoneOnly(u, j) ==
  /\ pc[u] = "tries"
  /\ j \in runs[u]
  /\ Done(j)
  /\ runs' = [runs EXCEPT ![u] = @ \ {j}]
  /\ UNCHANGED <<rows, marks, people, layer, pc, ids, looking, looks, waits, over, mine>>

(* awaitTries: a handler is through, and the try of its job, if there is one, is waited for; *)
RunDone(u, j) ==
  /\ pc[u] = "tries"
  /\ j \in runs[u]
  /\ Done(j)
  /\ runs' = [runs EXCEPT ![u] = @ \ {j}]
  /\ waits' = [waits EXCEPT ![u] = @ \cup ({j} \cap tries)]
  /\ UNCHANGED <<rows, marks, people, layer, pc, ids, looking, looks, over, mine>>

\* VARIANT of TimeUp: the handlers have no end of their own.
TimeUpOfTries(u) ==
  /\ pc[u] = "tries"
  /\ runs[u] = {}
  /\ waits[u] # {}
  /\ over' = [over EXCEPT ![u] = TRUE]
  /\ runs' = [runs EXCEPT ![u] = {}]
  /\ waits' = [waits EXCEPT ![u] = {}]
  /\ UNCHANGED <<rows, marks, people, layer, pc, ids, looking, looks, mine>>

(* the grace of that wait ends; *)
TimeUp(u) ==
  /\ pc[u] = "tries"
  /\ runs[u] \cup waits[u] # {}
  /\ over' = [over EXCEPT ![u] = TRUE]
  /\ runs' = [runs EXCEPT ![u] = {}]
  /\ waits' = [waits EXCEPT ![u] = {}]
  /\ UNCHANGED <<rows, marks, people, layer, pc, ids, looking, looks, mine>>

(* the subscription and its token are removed, *)
Remove(u) ==
  /\ pc[u] = "tries"
  /\ runs[u] = {} /\ waits[u] = {}
  /\ subscribed' = FALSE
  /\ pc' = [pc EXCEPT ![u] = "clear"]
  /\ UNCHANGED <<jobState, retried, cleanup, marks, people, layer, ids, looking, looks, runs, waits, over, mine>>

(* or the store fails or the caller goes away, *)
GivesUp(u) ==
  /\ pc[u] \in {"list", "cancel", "tries"}
  /\ looking[u] = Nobody
  /\ Leaves(u)
  /\ UNCHANGED <<rows, marks, people, layer, over, mine>>

(* and the mark is cleared. *)
Clear(u) ==
  /\ pc[u] = "clear"
  /\ \A j \in Job : creating[j] = "no"
  /\ marks' = marks \ {u}
  /\ pc' = [pc EXCEPT ![u] = "idle"]
  /\ UNCHANGED <<rows, people, layer, ids, looking, looks, runs, waits, over, mine>>

-----------------------------------------------------------------------------
Person(j) ==
  \/ CreateChecks(j) \/ CreateStores(j) \/ Cancel(j)
  \/ \E a \in Ask : AskSees(j, a) \/ AskChecks(j, a) \/ AskStores(j, a)
Handler(j) ==
  \/ Claim(j) \/ Register(j) \/ Look(j) \/ Call(j) \/ Returns(j) \/ Reports(j)
  \/ Records(j) \/ HandsBack(j) \/ Reap(j) \/ OverrunReturns(j)
Layer(j) == Overruns(j) \/ TryEnds(j) \/ SweepTries(j)
Cancelling(u) == \E j \in Job : LooksAt(u, j) \/ CancelsSeen(u, j) \/ FindsChanged(u, j)
GoesOn(u) ==
  \/ Mark(u) \/ List(u) \/ Cancelling(u) \/ Waits(u)
  \/ (\E j \in Job : RunDone(u, j)) \/ TimeUp(u) \/ Remove(u) \/ Clear(u)

Next ==
  \/ Subscribe
  \/ \E j \in Job : Person(j) \/ Handler(j) \/ Layer(j)
  \/ \E u \in Unsubscriber : Begin(u) \/ GoesOn(u) \/ GivesUp(u)

Spec == Init /\ [][Next]_vars

(* Fairness: a removal goes on whenever it can, a creation that holds the gate lets go of  *)
(* it (and a writer that waits for the gate keeps new readers out of it), and the grace of *)
(* a run ends.  Runners need not return, nor tries end.                                    *)
Fairness ==
  /\ \A u \in Unsubscriber : SF_vars(GoesOn(u))
  /\ \A j \in Job : WF_vars(CreateStores(j)) /\ WF_vars(Overruns(j))

LiveSpec == Spec /\ Fairness

-----------------------------------------------------------------------------
(* Properties. *)

(* Every variable holds values of its type. *)
TypeOK ==
  /\ subscribed \in BOOLEAN
  /\ jobState \in [Job -> Open \cup {"absent", "done", "failed", "cancelled"}]
  /\ retried \in SUBSET Job
  /\ cleanup \in [Job -> {"none", "pending", "ended"}]
  /\ marks \in SUBSET Unsubscriber
  /\ creating \in [Job -> {"no", "gate"}]
  /\ asking \in [Job -> [Ask -> {"no", "seen", "checked"}]]
  /\ run \in [Job -> {"none", "claimed", "known", "looked", "runner", "overrun", "back", "left", "reaped"}]
  /\ session \in SUBSET Job
  /\ stopped \in SUBSET Job
  /\ tries \in SUBSET Job
  /\ pc \in [Unsubscriber -> {"idle", "mark", "list", "cancel", "tries", "clear"}]
  /\ ids \in [Unsubscriber -> SUBSET Job]
  /\ looking \in [Unsubscriber -> {Nobody} \cup [job : Job, state : Open \cup {"changed"}]]
  /\ looks \in [Unsubscriber -> 0..MaxLooks]
  /\ runs \in [Unsubscriber -> SUBSET Job]
  /\ waits \in [Unsubscriber -> SUBSET Job]
  /\ over \in [Unsubscriber -> BOOLEAN]
  /\ mine \in [Unsubscriber -> SUBSET Job]
  /\ tried \in SUBSET Job
  /\ subscribes \in 0..MaxSubscribes

(* A workspace that is not subscribed has no open job, save one that a retry opened again: *)
(* creations are kept out by the gate, and answers find the job cancelled.                 *)
OrphansAreRetried == ~subscribed => OpenJobs \subseteq retried

(* The token is not taken away while the runner of a job that the removal cancelled is at *)
(* work, unless the runner overran the grace.                                             *)
RunnersFirst == \A u \in Unsubscriber : pc[u] = "tries" => \A j \in mine[u] : run[j] # "runner"

(* When the removal is done waiting and its time did not run out, each cleanup that its *)
(* cancels or the end of their runners marked has had a try with the token, unless the  *)
(* attempt was handed back and reaped.                                                  *)
TriesFirst ==
  \A u \in Unsubscriber :
    pc[u] = "tries" /\ runs[u] = {} /\ waits[u] = {} /\ ~over[u] =>
      \A j \in mine[u] : cleanup[j] = "pending" /\ run[j] # "reaped" => j \in tried

(* A removal takes its token away from no runner and from no first try that it is to wait for. *)
WaitsForToken == RunnersFirst /\ TriesFirst

(* A removal ends, though no runner returns and no try ends, and its mark is cleared. *)
RemovalEnds ==
  \A u \in Unsubscriber : pc[u] # "idle" ~> pc[u] = "idle" /\ u \notin marks

-----------------------------------------------------------------------------
(* What a comment says, and the code does not keep. *)

(* requeue: an unsubscribe that starts meanwhile lists the job, open, and cancels it, so that *)
(* no job is open once the workspace is gone.                                                 *)
NoOrphans == ~subscribed => OpenJobs = {}
=============================================================================
