-------------------------------- MODULE MCLive -------------------------------
(* What must end: the lease of a sandbox (Leases), or a cancel and the cleanup after it (Jobs); each behaviour is one *)
(* of the two parts'.                                                                                                 *)
EXTENDS Leases

CONSTANTS a1, a2, j1, w1, t1, NoTopic, Slots, Parked, MaxTransient, RoundLimits, Cleaner, MaxAttempts, MaxRestarts, JobFaults

VARIABLES
  part,
  jobState, attState, trigger, failures, session, inRunner, earlier, wanted, cleanup, atRest, item,
  at, outcome, inflight, called, cause, overran, grace, wake, canceller, owed, tries, stopping, restarts, jobFaults

jobsVars ==
  <<jobState, attState, trigger, failures, session, inRunner, earlier, wanted, cleanup, atRest, item,
    at, outcome, inflight, called, cause, overran, grace, wake, canceller, owed, tries, stopping, restarts, jobFaults>>
J == INSTANCE Jobs WITH
       Job <- {j1}, Workspace <- {w1}, Topic <- {t1}, WorkspaceOf <- [j \in {j1} |-> w1], TopicOf <- [j \in {j1} |-> t1],
       MaxFaults <- JobFaults, pc <- at, faults <- jobFaults

ASSUME J!JobsAssumption

\* The part that rests has one state.
Init1 ==
  /\ part \in {"leases", "jobs"} /\ Init /\ J!Init
  /\ part # "leases" => names = [i \in Id |-> a1]
Next1 ==
  \/ part = "leases" /\ Next /\ UNCHANGED <<part, jobsVars>>
  \/ part = "jobs" /\ J!Next /\ UNCHANGED <<part, vars>>

\* The fairness of the part that a behaviour is of.
LeasesGo ==
  /\ \A a \in Attempt :
       /\ WF_vars(part = "leases" /\ (Runs(a) \/ Deliver(a)))
       /\ SF_vars(part = "leases" /\ Returns(a) /\ row'[a] = "ended")
  /\ WF_vars(part = "leases" /\ Pass)
JobsGo ==
  /\ \A k \in J!Key :
       /\ SF_jobsVars(part = "jobs" /\ J!HandOver(k))
       /\ SF_jobsVars(part = "jobs" /\ J!Handler(k))
       /\ WF_jobsVars(part = "jobs" /\ J!Enqueue(k))
       /\ WF_jobsVars(part = "jobs" /\ J!Cancelling(k))
       /\ WF_jobsVars(part = "jobs" /\ J!Grace(k))
  /\ WF_jobsVars(part = "jobs" /\ J!TryEnds(j1)) /\ SF_jobsVars(part = "jobs" /\ J!Abandon(j1))
  /\ WF_jobsVars(part = "jobs" /\ J!Sweep)
  /\ WF_jobsVars(part = "jobs" /\ stopping /\ J!Restart)

Spec1 == Init1 /\ [][Next1]_<<part, vars, jobsVars>> /\ LeasesGo /\ JobsGo

(* Jobs: a cancelled job comes to rest, and a pending cleanup ends. *)
CancelEnds == J!CancelEnds
=============================================================================
