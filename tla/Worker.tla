------------------------------- MODULE Worker -------------------------------
(***************************************************************************)
(* The worker (internal/worker) on one issue: the delivery of an attempt   *)
(* and what it writes to the issue, against cancels, writes that fail, a    *)
(* service that ends and the cancel cleanup (service/labelcleanup).        *)
(*                                                                         *)
(* One workspace, in which one delivery runs at a time, and at most one    *)
(* job of each kind, known by its kind, which is also its request label.   *)
(* The jobs layer is what Jobs says of it, with each transaction as a      *)
(* step, and the leases are in Leases.  What a comment, a report and an    *)
(* envelope say is left out.                                               *)
(*                                                                         *)
(* A definition marked VARIANT is the one after it with a mistake that     *)
(* would be easy to make.                                                  *)
(***************************************************************************)
EXTENDS Integers, Sequences, FiniteSets

CONSTANTS
  Job,           \* the jobs of the issue, of "triage" and "fix"
  Before,        \* the labels that the issue has at first
  MaxRound,      \* settings.MaxAttempts, the attempts of a round
  MaxTransients, \* the transient failures that an attempt survives
  MaxAttempts,   \* bound: the attempts of a job
  MaxDeliveries, \* bound: the deliveries of all of them
  MaxCancels,    \* bound: the jobs that are cancelled
  MaxFaults,     \* bound: calls of the forge and of hub that fail
  MaxCrashes     \* bound: how often the process ends

Statuses == {"in-progress", "ready", "needs-human", "landed", "failed"}
Labels == Statuses \cup Job

WorkerAssumption ==
  /\ Job \subseteq {"triage", "fix"}
  /\ Before \subseteq Labels
  /\ {MaxRound, MaxTransients, MaxAttempts, MaxDeliveries, MaxCancels, MaxFaults,
      MaxCrashes} \subseteq Nat

NoJob == "none"

(* How a loop ends, with an envelope. *)
Ends == {"diagnosed", "unsure", "question", "landed", "measured", "parked", "retryable", "failure"}
(* How a delivery ends without one. *)
Losses == {"transient", "stopped"}

VARIABLES
  \* The state file: af_jobs and the latest of its af_attempts.
  job,
  \* The process.
  up,        \* whether it has not begun to stop
  run,       \* the delivery in the runner
  try,       \* the try of each job's cleanup
  \* The forge.
  onIssue,   \* the labels of the issue
  comments,  \* the comments of each job's attempt, until it has ended
  \* Kept for the properties and the bounds.
  delivered,
  faults,
  crashes,
  excused    \* what may leave the labels of a job other than they should be

forge == <<onIssue, comments>>
bounds == <<delivered, faults, crashes>>
vars == <<job, up, run, try, forge, bounds, excused>>

NoRun == [job |-> NoJob, n |-> 0, pc |-> "none", stop |-> "no", how |-> "no", known |-> {}, initial |-> {},
          set |-> {}, removed |-> {}, todo |-> <<>>, marked |-> FALSE, session |-> FALSE, out |-> "none"]
NoTry == [pc |-> "none", set |-> {}, others |-> {}, running |-> FALSE, todo |-> <<>>, wrote |-> {}, back |-> FALSE,
          kept |-> FALSE]

Round(r) == job[r.job].round
Running(j) == job[j].att = "running"
Open(j) == job[j].state \in {"queued", "running", "blocked"}
Fault == faults < MaxFaults /\ faults' = faults + 1
NoFault == UNCHANGED faults
Excuse(j, why) == excused' = [excused EXCEPT ![j] = @ \cup {why}]

-----------------------------------------------------------------------------
(* The writes of a delivery to the issue, one after the other. *)

Write(op, label) == [op |-> op, label |-> label]
Adds(label) == <<Write("add", label)>>

(* The five are removed in the order of their table. *)
Removal(label, labels) == IF label \in labels THEN <<Write("remove", label)>> ELSE <<>>
Removals(labels) ==
  Removal("in-progress", labels) \o Removal("ready", labels) \o Removal("needs-human", labels)
    \o Removal("landed", labels) \o Removal("failed", labels)

(* In a fix, in-progress does not remove ready. *)
KeepsReady(j, status, other) == status = "in-progress" /\ j = "fix" /\ other = "ready"

(* The status is added, and then the others of the five that the issue carries are removed. *)
SetStatus(r, status) ==
  Adds(status) \o Removals({other \in r.known \ {status} : ~KeepsReady(r.job, status, other)})

Unmark(r) == IF r.marked THEN Removals({"in-progress"}) ELSE <<>>

(* VARIANT of AutomaticFollows: the attempts of the job are counted, and not those of the round. *)
AutomaticFollowsOfJob(r) == r.out = "retryable" /\ r.n < MaxRound

AutomaticFollows(r) == r.out = "retryable" /\ Round(r) < MaxRound

(* The label and the comment that an envelope is mirrored as. *)
PlanStatus(r) ==
  CASE r.out \in {"unsure", "question", "parked"} -> "needs-human"
    [] r.out = "diagnosed" -> "ready"
    [] r.out = "landed" -> "landed"
    [] r.out \in {"failure", "retryable"} /\ ~AutomaticFollows(r) -> "failed"
    [] OTHER -> "none"
PlanComment(r) == r.out \notin {"diagnosed", "retryable"} \/ (r.out = "retryable" /\ ~AutomaticFollows(r))

MirrorEnvelope(r) ==
  (IF PlanComment(r) THEN <<Write("comment", "none")>> ELSE <<>>)
    \o (IF PlanStatus(r) # "none" THEN SetStatus(r, PlanStatus(r)) ELSE Unmark(r))

(* VARIANT of Mirror: a cancel takes in-progress off and leaves the request label off. *)
MirrorWithoutLabel(r) ==
  IF ~r.session \/ r.how = "shutdown" THEN <<>>
  ELSE IF r.how = "cancel" \/ r.out \in Losses THEN Unmark(r)
  ELSE MirrorEnvelope(r)

Mirror(r) ==
  IF ~r.session \/ r.how = "shutdown" THEN <<>>
  ELSE IF r.how = "cancel" THEN Unmark(r) \o Adds(r.job)
  ELSE IF r.out \in Losses THEN Unmark(r)
  ELSE MirrorEnvelope(r)

(* What the attempt knows of the issue after a write that succeeded. *)
Noted(r, w) ==
  CASE w.op = "add" ->
         LET back == w.label \in r.removed \cap r.initial IN
         [r EXCEPT !.known = @ \cup {w.label},
                   !.removed = IF back THEN @ \ {w.label} ELSE @,
                   !.set = IF back THEN @ ELSE @ \cup {w.label},
                   !.marked = @ \/ w.label = "in-progress"]
    [] w.op = "remove" ->
         [r EXCEPT !.known = @ \ {w.label}, !.set = @ \ {w.label}, !.removed = @ \cup {w.label},
                   !.marked = @ /\ w.label # "in-progress"]
    [] OTHER -> r

(* A label that could not be added ends its setStatus; the removals of unmark and the label of a cancel stand alone. *)
Skips(r, w) == w.op = "add" /\ w.label \in Statuses
After(r, w, ok) == [(IF ok THEN Noted(r, w) ELSE r) EXCEPT !.todo = IF ~ok /\ Skips(r, w) THEN <<>> ELSE Tail(@)]

Put(w) == onIssue' = CASE w.op = "add" -> onIssue \cup {w.label}
                       [] w.op = "remove" -> onIssue \ {w.label}
                       [] OTHER -> onIssue

(* A comment is posted unless its marker is on the issue. *)
Posts(r) == comments[r.job] = 0
Comments(r, w) ==
  comments' = IF w.op = "comment" /\ Posts(r) THEN [comments EXCEPT ![r.job] = @ + 1] ELSE comments

WriteDone ==
  /\ NoFault
  /\ Put(Head(run.todo))
  /\ Comments(run, Head(run.todo))
  /\ run' = After(run, Head(run.todo), TRUE)
  /\ UNCHANGED excused

(* The call fails, or its answer is lost: the issue may have been written. *)
WriteFails ==
  /\ Fault
  /\ \/ Put(Head(run.todo)) /\ Comments(run, Head(run.todo))
     \/ UNCHANGED <<onIssue, comments>>
  /\ run' = After(run, Head(run.todo), FALSE)
  /\ Excuse(run.job, "write")

(* The comments cannot be listed, and the comment is posted whether or not it is there. *)
ListFails ==
  /\ Fault
  /\ Head(run.todo).op = "comment"
  /\ comments' = [comments EXCEPT ![run.job] = @ + 1]
  /\ run' = After(run, Head(run.todo), TRUE)
  /\ Excuse(run.job, "list")
  /\ UNCHANGED onIssue

Writes ==
  /\ run.pc \in {"mark", "mirror"} /\ run.todo # <<>>
  /\ WriteDone \/ WriteFails \/ ListFails
  /\ UNCHANGED <<job, up, try, delivered, crashes>>

-----------------------------------------------------------------------------
(* The stages of a delivery: resolve, session, mark, clone, lease, run. *)

Goes(to) == run' = [run EXCEPT !.pc = to]
EndsWith(out) == run' = [run EXCEPT !.pc = "finish", !.out = out]
Here == UNCHANGED <<job, up, try, delivered, crashes>>

Resolve ==
  /\ run.pc = "resolve"
  /\ run' = [run EXCEPT !.pc = "session", !.known = onIssue, !.initial = onIssue]
  /\ Here /\ UNCHANGED <<forge, faults, excused>>

(* The session is opened and recorded, and the writes of mark begin. *)
OpenSession ==
  /\ run.pc = "session"
  /\ LET r == [run EXCEPT !.pc = "mark", !.session = TRUE] IN
     run' = [r EXCEPT !.todo = SetStatus(r, "in-progress")]
  /\ job' = [job EXCEPT ![run.job].session = @ \/ Running(run.job)]
  /\ UNCHANGED <<up, try, forge, bounds, excused>>

Marked ==
  /\ run.pc = "mark" /\ run.todo = <<>>
  /\ Goes("clone")
  /\ Here /\ UNCHANGED <<forge, faults, excused>>

(* The clone and the lease: the issue is not written, and either call may fail (StageFails). *)
Prepare ==
  /\ run.pc = "clone"
  /\ Goes("loop")
  /\ Here /\ UNCHANGED <<forge, faults, excused>>

(* A call of a stage fails: hub or the forge refuses it, or is unavailable, or the attempt was stopped. *)
StageFails ==
  /\ run.pc \in {"resolve", "session", "clone", "loop"}
  /\ \/ Fault /\ \E out \in {"failure", "transient"} : EndsWith(out)
     \/ NoFault /\ run.stop # "no" /\ EndsWith("stopped")
  /\ IF ~run.session /\ "in-progress" \in onIssue THEN Excuse(run.job, "refused") ELSE UNCHANGED excused
  /\ Here /\ UNCHANGED <<forge>>

LoopEnds ==
  /\ run.pc = "loop"
  /\ \E out \in Ends :
       /\ out \in {"diagnosed", "unsure"} => run.job = "triage"
       /\ out \in {"landed", "measured", "parked"} => run.job = "fix"
       /\ out = "retryable" => run.n < MaxAttempts
       /\ EndsWith(out)
  /\ Here /\ UNCHANGED <<forge, faults, excused>>

(* The runner panics: what it took is given back, and the issue is not written. *)
Panics ==
  /\ run.pc \in {"clone", "loop"}
  /\ Fault
  /\ run' = [run EXCEPT !.pc = "return", !.out = "failure"]
  /\ Excuse(run.job, "panic")
  /\ Here /\ UNCHANGED <<onIssue, comments>>

(* The end of a delivery: how it was stopped is read once, and a cancel that comes after that is not how it ended. *)
Finish ==
  /\ run.pc = "finish"
  /\ LET r == [run EXCEPT !.pc = "mirror", !.how = run.stop] IN run' = [r EXCEPT !.todo = Mirror(r)]
  /\ Here /\ UNCHANGED <<forge, faults, excused>>

Mirrored ==
  /\ run.pc = "mirror" /\ run.todo = <<>>
  /\ run' = [run EXCEPT !.pc = "return", !.known = {}, !.initial = {}, !.marked = FALSE]
  /\ Here /\ UNCHANGED <<forge, faults, excused>>

-----------------------------------------------------------------------------
(* The jobs layer. *)

(* labels_set is what the latest attempt that wrote a label set. *)
Reported(r) == r.set # {} \/ r.removed # {}
Stores(d, r) == [d EXCEPT !.set = IF Reported(r) THEN r.set ELSE @]

(* An attempt of a cancelled job ends: the cleanup is owed if the runner opened no session. *)
EndCancelled(d, r) ==
  [Stores(d, r) EXCEPT !.att = "ended", !.cleanup = IF @ = "no" /\ ~d.session THEN "pending" ELSE @]

Requeued(d, round) ==
  [d EXCEPT !.state = "queued", !.att = "queued", !.n = @ + 1, !.round = round, !.transients = 0, !.session = FALSE]
EndsAs(d, state) == [d EXCEPT !.state = state, !.att = "ended"]

(* What an envelope, or the loss of one, makes of the job. *)
Ruling(d, out) ==
  CASE out \in {"diagnosed", "unsure", "landed", "measured"} -> EndsAs(d, "done")
    [] out = "question" -> EndsAs(d, "blocked")
    [] out = "retryable" /\ d.round < MaxRound -> Requeued(d, d.round + 1)
    [] out = "transient" /\ d.transients < MaxTransients ->
         [d EXCEPT !.state = "queued", !.att = "queued", !.transients = @ + 1]
    [] OTHER -> EndsAs(d, "failed")

(* The runner returns; an attempt that was recorded without it stays as it is, and so does one that a shutdown stopped. *)
Returns ==
  /\ run.pc = "return"
  /\ LET d == job[run.job] IN
     job' = [job EXCEPT ![run.job] =
       IF ~Running(run.job) \/ run.how = "shutdown" THEN d
       ELSE IF d.state = "cancelled" THEN EndCancelled(d, run)
       ELSE Ruling(Stores(d, run), run.out)]
  /\ comments' = [comments EXCEPT ![run.job] = IF job'[run.job].att = "running" THEN @ ELSE 0]
  /\ run' = NoRun
  /\ UNCHANGED <<up, try, onIssue, bounds, excused>>

Deliver(j) ==
  /\ up
  /\ run.pc = "none"
  /\ job[j].state \in {"queued", "running"}
  /\ job' = [job EXCEPT ![j].state = "running", ![j].att = "running", ![j].session = FALSE]
  /\ run' = [NoRun EXCEPT !.job = j, !.n = job[j].n, !.pc = "resolve"]
  /\ delivered < MaxDeliveries
  /\ delivered' = delivered + 1
  /\ UNCHANGED <<up, try, forge, faults, crashes, excused>>

(* A person asks again: a retry of a failed job, an answer to a blocked one. *)
AsksAgain(j) ==
  /\ up
  /\ job[j].state \in {"failed", "blocked"}
  /\ job[j].n < MaxAttempts
  /\ job' = [job EXCEPT ![j] = Requeued(job[j], 1)]
  /\ UNCHANGED <<up, run, try, forge, bounds, excused>>

(* The runner of the job is told, and sees to the labels; without one the cleanup does. *)
Cancel(j) ==
  /\ up
  /\ Cardinality({k \in Job : job[k].state = "cancelled"}) < MaxCancels
  /\ Open(j)
  /\ job' = [job EXCEPT ![j].state = "cancelled",
                        ![j].att = IF @ = "running" THEN @ ELSE "ended",
                        ![j].cleanup = IF run.job # j THEN "pending" ELSE @]
  /\ run' = IF run.job = j /\ run.stop = "no" THEN [run EXCEPT !.stop = "cancel"] ELSE run
  /\ IF run.job = j /\ run.pc \in {"mirror", "return"} THEN Excuse(j, "late") ELSE UNCHANGED excused
  /\ UNCHANGED <<up, try, forge, bounds>>

(* The grace of a cancel ends before the runner returns. *)
Overruns(j) ==
  /\ job[j].state = "cancelled" /\ Running(j) /\ run.job = j
  /\ job' = [job EXCEPT ![j] = EndCancelled(job[j], NoRun)]
  /\ UNCHANGED <<up, run, try, forge, bounds, excused>>

(* The attempt of a job that was cancelled before the process ended. *)
Reaps(j) ==
  /\ up
  /\ job[j].state = "cancelled" /\ Running(j) /\ run.job # j
  /\ job' = [job EXCEPT ![j] = EndCancelled(job[j], NoRun)]
  /\ UNCHANGED <<up, run, try, forge, bounds, excused>>

ShutsDown ==
  /\ up
  /\ crashes < MaxCrashes
  /\ up' = FALSE
  /\ crashes' = crashes + 1
  /\ run' = IF run.pc # "none" /\ run.stop = "no" THEN [run EXCEPT !.stop = "shutdown"] ELSE run
  /\ UNCHANGED <<job, try, forge, delivered, faults, excused>>

(* The process ends, after a shutdown or of itself, and starts again. *)
Restarts ==
  /\ IF up THEN crashes < MaxCrashes /\ crashes' = crashes + 1 ELSE UNCHANGED crashes
  /\ up' = TRUE
  /\ run' = NoRun
  /\ try' = [j \in Job |-> NoTry]
  /\ IF run.session /\ job[run.job].state = "cancelled" THEN Excuse(run.job, "cut") ELSE UNCHANGED excused
  /\ UNCHANGED <<job, forge, delivered, faults>>

-----------------------------------------------------------------------------
(* A try of the cancel cleanup: the request is read, the issue is read, and the labels are written. *)

TryGoes(j, t) == try' = [try EXCEPT ![j] = t]
Trying == UNCHANGED <<job, up, run, comments, delivered, crashes>>

TryStarts(j) ==
  /\ up
  /\ job[j].cleanup = "pending" /\ try[j].pc = "none" /\ run.job # j
  /\ LET others == {k \in Job \ {j} : Open(k)} IN
     TryGoes(j, [NoTry EXCEPT !.pc = "issue", !.set = job[j].set,
                              !.others = UNION {job[k].set : k \in others},
                              !.running = \E k \in others : job[k].state = "running"])
  /\ Trying /\ UNCHANGED <<onIssue, faults, excused>>

(* What the cancelled job accounts for: in-progress, and what its attempts set and no other open job shows set. *)
Accounts(t, label) ==
  IF label = "in-progress" THEN ~t.running
  ELSE label \in Statuses /\ label \in t.set \ t.others

TryReads(j) ==
  /\ try[j].pc = "issue"
  /\ LET t == try[j]
         off == Removals({label \in onIssue : Accounts(t, label)}) IN
     \/ NoFault /\ TryGoes(j, [t EXCEPT !.pc = "writes", !.back = j \in onIssue,
                                         !.todo = off \o IF j \in onIssue THEN <<>> ELSE Adds(j)])
     \/ Fault /\ \E out \in {"pending", "label_not_set"} : TryGoes(j, [t EXCEPT !.pc = out])
  /\ Trying /\ UNCHANGED <<onIssue, excused>>

(* A write succeeds; is refused, which ends the try only for the request label; or fails in a way that may pass. *)
TryWrites(j) ==
  /\ try[j].pc = "writes" /\ try[j].todo # <<>>
  /\ LET t == try[j]
         w == Head(t.todo)
         on == [t EXCEPT !.todo = Tail(@)] IN
     \/ /\ NoFault
        /\ Put(w)
        /\ TryGoes(j, [on EXCEPT !.wrote = @ \cup {w.label}, !.back = @ \/ w.op = "add"])
     \/ /\ Fault
        /\ UNCHANGED onIssue
        /\ TryGoes(j, IF w.op = "add" THEN [t EXCEPT !.pc = "label_not_set"] ELSE [on EXCEPT !.kept = TRUE])
     \/ /\ Fault
        /\ Put(w) \/ UNCHANGED onIssue
        /\ TryGoes(j, [t EXCEPT !.pc = "pending"])
  /\ Trying /\ UNCHANGED excused

TryIsThrough(j) ==
  /\ try[j].pc = "writes" /\ try[j].todo = <<>>
  /\ TryGoes(j, [try[j] EXCEPT !.pc = IF try[j].kept THEN "label_not_set" ELSE "done"])
  /\ Trying /\ UNCHANGED <<onIssue, faults, excused>>

(* What a try came to is recorded, with the labels it wrote, unless the cleanup has ended; a shutdown leaves it pending. *)
TryEnds(j) ==
  /\ try[j].pc \in {"pending", "done", "label_not_set"}
  /\ LET t == try[j]
         ends == up /\ job[j].cleanup = "pending" /\ t.pc # "pending" IN
     job' = IF ends THEN [job EXCEPT ![j].cleanup = t.pc,
                                     ![j].set = IF t.wrote = {} THEN @ ELSE t.wrote \cap {j}]
            ELSE job
  /\ TryGoes(j, NoTry)
  /\ UNCHANGED <<up, run, forge, bounds, excused>>

(* A cleanup is given up an hour after its cancel. *)
Abandons(j) ==
  /\ up
  /\ job[j].cleanup = "pending" /\ try[j].pc = "none" /\ run.job # j
  /\ Fault
  /\ job' = [job EXCEPT ![j].cleanup = "label_not_set"]
  /\ UNCHANGED <<up, run, try, forge, delivered, crashes, excused>>

-----------------------------------------------------------------------------
Init ==
  /\ job = [j \in Job |-> [state |-> "queued", att |-> "queued", n |-> 1, round |-> 1, transients |-> 0,
                           session |-> FALSE, set |-> {}, cleanup |-> "no"]]
  /\ up = TRUE
  /\ run = NoRun
  /\ try = [j \in Job |-> NoTry]
  /\ onIssue = Before
  /\ comments = [j \in Job |-> 0]
  /\ delivered = 0 /\ faults = 0 /\ crashes = 0
  /\ excused = [j \in Job |-> {}]

Delivery ==
  \/ Resolve \/ OpenSession \/ Marked \/ Prepare \/ StageFails \/ LoopEnds \/ Panics
  \/ Writes \/ Finish \/ Mirrored \/ Returns
Cleanup(j) == TryStarts(j) \/ TryReads(j) \/ TryWrites(j) \/ TryIsThrough(j) \/ TryEnds(j)
Next ==
  \/ Delivery \/ ShutsDown \/ Restarts
  \/ \E j \in Job : Deliver(j) \/ AsksAgain(j) \/ Cancel(j) \/ Overruns(j) \/ Reaps(j) \/ Cleanup(j) \/ Abandons(j)

Spec == Init /\ [][Next]_vars
-----------------------------------------------------------------------------
(* What every variable holds, and that an attempt waits, runs or has ended with its job. *)
TypeOK ==
  /\ job \in [Job -> [state : {"queued", "running", "blocked", "done", "failed", "cancelled"},
                      att : {"queued", "running", "ended"}, n : 1..MaxAttempts, round : 1..MaxAttempts,
                      transients : 0..MaxTransients, session : BOOLEAN, set : SUBSET Labels,
                      cleanup : {"no", "pending", "done", "label_not_set"}]]
  /\ \A j \in Job :
       /\ (job[j].state = "queued") = (job[j].att = "queued")
       /\ job[j].state = "running" => job[j].att = "running"
       /\ job[j].att = "running" => job[j].state \in {"running", "cancelled"}
  /\ onIssue \subseteq Labels
  /\ run.job \in Job \cup {NoJob} /\ run.known \cup run.initial \cup run.set \cup run.removed \subseteq Labels
  /\ comments \in [Job -> 0..2]
  /\ faults \in 0..MaxFaults /\ crashes \in 0..MaxCrashes

(* A job of which nothing is on its way. *)
Settled(j) == run.job # j /\ ~Running(j) /\ try[j].pc = "none" /\ job[j].cleanup # "pending"
PutBack(j) == j \in onIssue

(* internal/worker/mirror.go, the cancel, and labelcleanup: the request label of a cancelled job is on the issue again,   *)
(* put there by its worker or by the cleanup, whichever the cancel reached.  Calls that failed, a runner that panicked, a *)
(* cleanup that was given up and an attempt that was reaped are apart, and so is a cancel that came too late (README).    *)
CancelPutsBack ==
  \A j \in Job : job[j].state = "cancelled" /\ Settled(j) /\ job[j].cleanup # "label_not_set" /\ excused[j] = {} => PutBack(j)

(* docs/api.md, Labels after a cancel: whenever the cancel came. *)
CancelAlwaysPutsBack ==
  \A j \in Job : job[j].state = "cancelled" /\ Settled(j) /\ job[j].cleanup # "label_not_set"
                 /\ excused[j] \subseteq {"late"} => PutBack(j)

(* mirror.go: when no job is on its way, the issue does not say that one is. *)
NotLeftInProgress ==
  (\A j \in Job : Settled(j) /\ job[j].state # "running" /\ job[j].cleanup # "label_not_set" /\ excused[j] \subseteq {"late"})
    => "in-progress" \notin onIssue

(* comments.go: a comment is posted once for each attempt, however often the attempt is delivered. *)
CommentOnce == \A j \in Job : "list" \notin excused[j] => comments[j] <= 1

(* The issue tells people what became of its jobs: their labels are right and their comments are there once. *)
IssueTellsTheJob == CancelPutsBack /\ NotLeftInProgress /\ CommentOnce

(* mirror.go, planOf: the issue says failed only if no attempt follows of itself: what the worker foretells is what the *)
(* jobs layer rules.                                                                                                     *)
FailedMeansFailed ==
  [][\A j \in Job : run.job = j /\ run.pc = "return" /\ run.how = "no" /\ "failed" \in run.set /\ job'[j].att # "running"
       => job'[j].state \in {"failed", "cancelled"}]_vars

(* docs/api.md, the labels: the issue says in-progress while an attempt that marked it works. *)
InProgressShown == run.pc = "loop" /\ run.marked => "in-progress" \in onIssue
=============================================================================
