------------------------------- MODULE Leases -------------------------------
(***************************************************************************)
(* The sandboxes that hub leases to the attempts (internal/worker/lease.go)*)
(* and the reconciler that gives back those that were left held            *)
(* (internal/service/reconcile), against releases that fail, answers that  *)
(* are lost, runners that panic, a process that ends and jobs that are     *)
(* purged.  Hub's own end of a lease, when it expires, is left out: a loop *)
(* ends before it, and what is said here does not rest on it.              *)
(*                                                                         *)
(* A definition marked VARIANT is the one after it with a mistake that     *)
(* would be easy to make.                                                  *)
(***************************************************************************)
EXTENDS Integers, FiniteSets

CONSTANTS
  Attempt,       \* the attempts, of any workspaces
  MaxLeases,     \* bound: how often a sandbox is leased
  MaxFaults      \* bound: calls that fail, runners that panic, ends of the process

ASSUME LeasesAssumption == MaxLeases \in Nat /\ MaxFaults \in Nat

NoLease == 0

VARIABLES
  pc,       \* where the runner of each attempt is; "none" when it is in no runner of this process
  lease,    \* the sandbox that the delivery holds
  row,      \* whether the attempt is to be delivered, has ended, or was purged with its job
  held,     \* the sandboxes that hub holds for the service: their ids
  listed,   \* those that a pass of the reconciler has still to look at
  judged,   \* the one that it is about to release
  names,    \* the attempt that the labels of a sandbox name, by id
  granted,  \* how many sandboxes there were
  faults

runners == <<pc, lease, row>>
passes == <<listed, judged>>
vars == <<runners, held, passes, names, granted, faults>>

Id == 1..MaxLeases

Goes(a, to) == pc' = [pc EXCEPT ![a] = to]
Fault == faults < MaxFaults /\ faults' = faults + 1
NoFault == UNCHANGED faults

(* jobs.Service.Running: the attempt is in a runner of this process. *)
Running(a) == pc[a] # "none"

-----------------------------------------------------------------------------
(* A delivery. *)

Deliver(a) ==
  /\ row[a] = "open" /\ pc[a] = "none"
  /\ Goes(a, "lease")
  /\ UNCHANGED <<lease, row, held, passes, names, granted, faults>>

(* The sandbox is leased, with the attempt in its labels; the answer may be lost, which is a transient failure. *)
Lease(a) ==
  /\ pc[a] = "lease"
  /\ granted < MaxLeases
  /\ granted' = granted + 1
  /\ held' = held \cup {granted'}
  /\ names' = [names EXCEPT ![granted'] = a]
  /\ \/ NoFault /\ Goes(a, "loop") /\ lease' = [lease EXCEPT ![a] = granted']
     \/ Fault /\ Goes(a, "return") /\ UNCHANGED lease
  /\ UNCHANGED <<row, passes>>

(* Hub leases none: where the bound is reached it always does. *)
LeaseFails(a) ==
  /\ pc[a] = "lease"
  /\ Fault \/ (granted = MaxLeases /\ NoFault)
  /\ Goes(a, "return")
  /\ UNCHANGED <<lease, row, held, passes, names, granted>>

LoopEnds(a) ==
  /\ pc[a] = "loop"
  /\ Goes(a, "release")
  /\ UNCHANGED <<lease, row, held, passes, names, granted, faults>>

(* The sandbox is given back once, whether or not hub takes it, at the end of the attempt. *)
ReleaseLease(a) ==
  /\ pc[a] = "release"
  /\ lease' = [lease EXCEPT ![a] = NoLease]
  /\ \/ NoFault /\ held' = held \ {lease[a]}
     \/ Fault /\ UNCHANGED held
  /\ Goes(a, "return")
  /\ UNCHANGED <<row, passes, names, granted>>

(* The runner panics, and what it took is given back as it unwinds (attempt.close); the release may be lost with it. *)
Panics(a) ==
  /\ pc[a] = "loop"
  /\ Fault
  /\ lease' = [lease EXCEPT ![a] = NoLease]
  /\ held' = held \ {lease[a]}
  /\ Goes(a, "return")
  /\ UNCHANGED <<row, passes, names, granted>>

(* The runner returns: the attempt has ended, or is handed over again. *)
Returns(a) ==
  /\ pc[a] = "return"
  /\ Goes(a, "none")
  /\ \E r \in {"open", "ended"} : row' = [row EXCEPT ![a] = r]
  /\ UNCHANGED <<lease, held, passes, names, granted, faults>>

(* The process ends, and starts again. *)
Restarts ==
  /\ Fault
  /\ pc' = [a \in Attempt |-> "none"]
  /\ lease' = [a \in Attempt |-> NoLease]
  /\ listed' = {} /\ judged' = NoLease
  /\ UNCHANGED <<row, held, names, granted>>

(* A job that has ended is removed from the state file, once no runner works for it. *)
Purges(a) ==
  /\ row[a] = "ended" /\ ~Running(a)
  /\ row' = [row EXCEPT ![a] = "purged"]
  /\ UNCHANGED <<pc, lease, held, passes, names, granted, faults>>

-----------------------------------------------------------------------------
(* A pass of the reconciler: one at a time (TryLock). *)

PassLists ==
  /\ listed = {} /\ judged = NoLease
  /\ listed' = held
  /\ UNCHANGED <<runners, held, judged, names, granted, faults>>

(* VARIANT of Orphan: an attempt that has ended is taken for one that gave its sandbox back. *)
OrphanOfOpen(i) == row[names[i]] = "open" /\ ~Running(names[i])

(* VARIANT of Orphan: whether an attempt is in a runner is not asked. *)
OrphanOfKnown(i) == row[names[i]] # "purged"

(* The labels of the sandbox name a job that the state file has, and an attempt that is in no runner. *)
Orphan(i) == row[names[i]] # "purged" /\ ~Running(names[i])

PassJudges(i) ==
  /\ i \in listed /\ judged = NoLease
  /\ listed' = listed \ {i}
  /\ judged' = IF Orphan(i) THEN i ELSE NoLease
  /\ UNCHANGED <<runners, held, names, granted, faults>>

(* A release that fails is left to the next pass. *)
PassReleases ==
  /\ judged # NoLease
  /\ \/ NoFault /\ held' = held \ {judged}
     \/ Fault /\ UNCHANGED held
  /\ judged' = NoLease
  /\ UNCHANGED <<runners, listed, names, granted>>

-----------------------------------------------------------------------------
Init ==
  /\ pc = [a \in Attempt |-> "none"]
  /\ lease = [a \in Attempt |-> NoLease]
  /\ row = [a \in Attempt |-> "open"]
  /\ held = {} /\ listed = {} /\ judged = NoLease
  /\ names \in [Id -> Attempt]
  /\ granted = 0 /\ faults = 0

Runs(a) == Lease(a) \/ LeaseFails(a) \/ LoopEnds(a) \/ ReleaseLease(a) \/ Panics(a) \/ Returns(a)
Pass == PassLists \/ (\E i \in listed : PassJudges(i)) \/ PassReleases
Next == Restarts \/ Pass \/ \E a \in Attempt : Deliver(a) \/ Runs(a) \/ Purges(a)

Spec == Init /\ [][Next]_vars

(* A runner returns in the end, and an attempt ends that is handed over often enough, as Jobs shows; the reconciler goes *)
(* on making its passes.                                                                                                *)
Fairness ==
  /\ \A a \in Attempt : WF_vars(Runs(a) \/ Deliver(a)) /\ SF_vars(Returns(a) /\ row'[a] = "ended")
  /\ WF_vars(Pass)
LiveSpec == Spec /\ Fairness

-----------------------------------------------------------------------------
InUse(a) == pc[a] \in {"loop", "release"}

(* What every variable holds, and that a delivery has a sandbox only while it works in it. *)
TypeOK ==
  /\ pc \in [Attempt -> {"none", "lease", "loop", "release", "return"}]
  /\ lease \in [Attempt -> 0..MaxLeases]
  /\ row \in [Attempt -> {"open", "ended", "purged"}]
  /\ held \subseteq Id /\ listed \subseteq Id
  /\ judged \in 0..MaxLeases
  /\ names \in [Id -> Attempt]
  /\ granted \in 0..MaxLeases
  /\ faults \in 0..MaxFaults
  /\ \A a \in Attempt : ~InUse(a) => lease[a] = NoLease

(* reconcile.go: the sandbox that a delivery works in is held until the delivery gives it back; no pass takes it, *)
(* however old the list of the pass and whatever deliveries of the same attempt there were before.                *)
LeaseHeld == \A a \in Attempt : InUse(a) => lease[a] \in held

(* lease.go and reconcile.go: a sandbox is given back in the end, by its attempt or by a pass, though a release failed, *)
(* its answer was lost, or the process ended, unless the job is purged first.                                          *)
LeaseEnds == \A i \in Id : i \in held ~> (i \notin held \/ row[names[i]] = "purged")
=============================================================================
