------------------------------ MODULE JobLife -------------------------------
(***************************************************************************)
(* What the service promises of one job to those who watch it: the state   *)
(* of the job, its attempts, made one after the other, of which one at     *)
(* most is held at a time, and the end of it.  How attempts are queued,    *)
(* handed over, interrupted and taken up again after a crash is not seen   *)
(* here; Jobs implements it.                                               *)
(***************************************************************************)
EXTENDS Integers

CONSTANT Job

VARIABLES
  state,     \* the state of each job
  attempts,  \* how many attempts it has made
  held       \* the attempt that is running, or 0

vars == <<state, attempts, held>>

Waiting  == {"queued", "running", "blocked"}
Finished == {"done", "failed", "cancelled"}
States == Waiting \cup Finished \cup {"absent", "purged"}

Init ==
  /\ state = [j \in Job |-> "absent"]
  /\ attempts = [j \in Job |-> 0]
  /\ held = [j \in Job |-> 0]

Becomes(j, from, to) == state[j] \in from /\ state' = [state EXCEPT ![j] = to]

(* The first attempt of a job that is made, and the next of one that failed, that waits *)
(* for an answer, or, without a person, that runs: nothing of it is held.               *)
Ask(j) ==
  /\ Becomes(j, {"absent", "blocked", "failed", "running"}, "queued")
  /\ attempts' = [attempts EXCEPT ![j] = @ + 1]
  /\ held' = [held EXCEPT ![j] = 0]

(* The latest attempt is handed over, once more if it was before, *)
HandOver(j) ==
  /\ Becomes(j, {"queued", "running"}, "running")
  /\ held' = [held EXCEPT ![j] = attempts[j]]
  /\ UNCHANGED attempts

(* is put back, *)
PutBack(j) ==
  /\ Becomes(j, {"running"}, "queued")
  /\ held' = [held EXCEPT ![j] = 0]
  /\ UNCHANGED attempts

(* or ends the job or leaves it with a question. *)
End(j) ==
  /\ \E to \in {"done", "failed", "blocked"} : Becomes(j, {"running"}, to)
  /\ held' = [held EXCEPT ![j] = 0]
  /\ UNCHANGED attempts

(* A cancel is final at once, and what is held is let go of later. *)
Cancel(j) == Becomes(j, Waiting, "cancelled") /\ UNCHANGED <<attempts, held>>

LetGo(j) ==
  /\ state[j] = "cancelled"
  /\ held[j] # 0
  /\ held' = [held EXCEPT ![j] = 0]
  /\ UNCHANGED <<state, attempts>>

(* A job is removed when it is finished and nothing of it is held. *)
Purge(j) ==
  /\ held[j] = 0
  /\ Becomes(j, Finished, "purged")
  /\ attempts' = [attempts EXCEPT ![j] = 0]
  /\ UNCHANGED held

Next ==
  \E j \in Job : \/ Ask(j) \/ HandOver(j) \/ PutBack(j) \/ End(j)
                 \/ Cancel(j) \/ LetGo(j) \/ Purge(j)

Spec == Init /\ [][Next]_vars

-----------------------------------------------------------------------------
(* What is held is the latest attempt, of a job that runs or that was cancelled. *)
HeldIsLatest ==
  /\ state \in [Job -> States]
  /\ attempts \in [Job -> Nat]
  /\ \A j \in Job : held[j] # 0 => held[j] = attempts[j] /\ state[j] \in {"running", "cancelled"}
=============================================================================
