---------------------------- MODULE JobsProofs -----------------------------
(***************************************************************************)
(* The safety of the jobs layer, for any number of jobs, attempts,         *)
(* workspaces, slots, faults and restarts.  First which steps write what,  *)
(* which steps are alike, and that every variable keeps to its type; then  *)
(* an inductive invariant, with one lemma for each of its parts, and what  *)
(* follows from it; then, on top of it, the rounds, the cleanups, the rest *)
(* of a job that is over, the order of a workspace, and the life of a job, *)
(* which the rows implement.                                               *)
(***************************************************************************)
EXTENDS Jobs, FiniteSetTheorems, TLAPS

USE JobsAssumption DEF JobOf

-----------------------------------------------------------------------------
(* Keys. *)

(* Every job may have a first attempt. *)
LEMMA FirstKey == \A j \in Job : <<j, 1>> \in Key
  BY DEF Key

(* An attempt is its job and its number. *)
LEMMA KeyParts ==
  ASSUME NEW k \in Key
  PROVE  /\ k[1] \in Job /\ k[2] \in Nat /\ 1 <= k[2] /\ k[2] <= MaxAttempts
         /\ k = <<k[1], k[2]>>
         /\ k[2] < MaxAttempts => Succ(k) \in Key
         /\ Succ(k) # k /\ Succ(k)[1] = k[1] /\ Succ(k)[2] = k[2] + 1
  BY DEF Key, Succ

-----------------------------------------------------------------------------
(* Who writes what. *)

(* Which steps change the rows of jobs and attempts: the others leave them alone. *)
LEMMA RowsFrame ==
  ASSUME [Next]_vars
  PROVE  \/ UNCHANGED <<jobState, attState, atRest>>
         \/ \E j \in Job : Create(j) \/ Answer(j) \/ Retry(j) \/ CancelJob(j) \/ Purge(j)
         \/ \E k \in Key : \/ Reap(k) \/ Claim(k) \/ Backoff(k) \/ OverrunSettles(k)
                           \/ FinishCancelled(k) \/ FinishAuto(k) \/ FinishRuled(k)
  <1> USE DEF vars, store
  <1>1. CASE UNCHANGED vars
    BY <1>1
  <1>2. CASE Sweep \/ Stop \/ Restart
    BY <1>2 DEF Sweep, Stop, Restart
  <1>3. ASSUME NEW j \in Job, Person(j) \/ Tries(j) \/ Purge(j)
        PROVE  \/ UNCHANGED <<jobState, attState, atRest>>
               \/ Create(j) \/ Answer(j) \/ Retry(j) \/ CancelJob(j) \/ Purge(j)
    BY <1>3 DEF Person, Tries, TryEnds, SweepTries, Abandon
  <1>4. ASSUME NEW k \in Key,
               Cancelling(k) \/ Enqueue(k) \/ HandOver(k) \/ Runner(k) \/ Faults(k) \/ StopRun(k)
        PROVE  UNCHANGED <<jobState, attState, atRest>>
    BY <1>4 DEF Cancelling, CancelWakes, CancelLooks, CancelStops, CancelMarks, Enqueue, HandOver,
                Runner, RunnerReports, RunnerReturns, Returns, StopRun, Faults, EnqueueFails,
                ReapFails, HandlerFails, InvokeFails, WrapupFails, OverrunFails
  <1>5. ASSUME NEW k \in Key, Handler(k) \/ Grace(k)
        PROVE  \/ UNCHANGED <<jobState, attState, atRest>>
               \/ Reap(k) \/ Claim(k) \/ Backoff(k) \/ OverrunSettles(k)
               \/ FinishCancelled(k) \/ FinishAuto(k) \/ FinishRuled(k)
    BY <1>5 DEF Handler, Plan, PlanAck, PlanReap, PlanYield, PlanClaim, Acquire, AcquireStopped,
                ClaimRefused, Invoke, Register, Look, Call, NotCalled, Returns, Forget, DropResult,
                LeaveRunning, Transient, NoteTransient, NoteRefused, BackoffRefused, BackoffNothing,
                PauseEnds, PauseStopped, Finish, FinishNothing, Wrapup, Grace, GraceEnds, Overrun
  <1> QED
    BY <1>1, <1>2, <1>3, <1>4, <1>5 DEF Next

(* Which steps change the rows at all. *)
LEMMA StoreFrame ==
  ASSUME [Next]_vars
  PROVE  \/ UNCHANGED store
         \/ \E j \in Job : \/ Create(j) \/ Answer(j) \/ Retry(j) \/ CancelJob(j) \/ Purge(j)
                           \/ TryEnds(j) \/ Abandon(j)
         \/ \E k \in Key : \/ Reap(k) \/ Claim(k) \/ Backoff(k) \/ OverrunSettles(k)
                           \/ FinishCancelled(k) \/ FinishAuto(k) \/ FinishRuled(k)
                           \/ CancelMarks(k) \/ Call(k) \/ NoteTransient(k) \/ RunnerReports(k)
  <1>1. CASE UNCHANGED vars
    BY <1>1 DEF vars
  <1>2. CASE Sweep \/ Stop \/ Restart
    BY <1>2 DEF Sweep, Stop, Restart
  <1>3. ASSUME NEW j \in Job, Person(j) \/ Tries(j) \/ Purge(j)
        PROVE  \/ UNCHANGED store
               \/ Create(j) \/ Answer(j) \/ Retry(j) \/ CancelJob(j) \/ Purge(j)
               \/ TryEnds(j) \/ Abandon(j)
    BY <1>3 DEF Person, Tries, SweepTries
  <1>4. ASSUME NEW k \in Key,
               Cancelling(k) \/ Enqueue(k) \/ HandOver(k) \/ Runner(k) \/ Faults(k) \/ StopRun(k)
        PROVE  UNCHANGED store \/ CancelMarks(k) \/ RunnerReports(k)
    BY <1>4 DEF Cancelling, CancelWakes, CancelLooks, CancelStops, Enqueue, HandOver, Runner,
                RunnerReturns, Returns, StopRun, Faults, EnqueueFails, ReapFails, HandlerFails,
                InvokeFails, WrapupFails, OverrunFails
  <1>5. ASSUME NEW k \in Key, Handler(k) \/ Grace(k)
        PROVE  \/ UNCHANGED store
               \/ Reap(k) \/ Claim(k) \/ Backoff(k) \/ OverrunSettles(k)
               \/ FinishCancelled(k) \/ FinishAuto(k) \/ FinishRuled(k)
               \/ Call(k) \/ NoteTransient(k)
    BY <1>5 DEF Handler, Plan, PlanAck, PlanReap, PlanYield, PlanClaim, Acquire, AcquireStopped,
                ClaimRefused, Invoke, Register, Look, NotCalled, Returns, Forget, DropResult,
                LeaveRunning, Transient, NoteRefused, BackoffRefused, BackoffNothing, PauseEnds,
                PauseStopped, Finish, FinishNothing, Wrapup, Grace, GraceEnds, Overrun
  <1> QED
    BY <1>1, <1>2, <1>3, <1>4, <1>5 DEF Next

(* Which steps start or end a try of a cleanup. *)
LEMMA TriesFrame ==
  ASSUME [Next]_vars
  PROVE  \/ UNCHANGED tries
         \/ \E j \in Job : TryEnds(j) \/ SweepTries(j)
         \/ \E k \in Key : \/ CancelWakes(k) \/ CancelMarks(k) \/ Reap(k) \/ Forget(k) \/ FinishCancelled(k)
         \/ Restart
  <1> USE DEF process
  <1>1. CASE UNCHANGED vars
    BY <1>1 DEF vars
  <1>2. CASE Sweep \/ Stop
    BY <1>2 DEF Sweep, Stop
  <1>3. ASSUME NEW j \in Job, Person(j) \/ Tries(j) \/ Purge(j)
        PROVE  UNCHANGED tries \/ TryEnds(j) \/ SweepTries(j)
    BY <1>3 DEF Person, Create, Answer, Retry, Requeue, CancelJob, Tries, Abandon, Purge
  <1>4. ASSUME NEW k \in Key,
               Cancelling(k) \/ Enqueue(k) \/ HandOver(k) \/ Runner(k) \/ Faults(k) \/ StopRun(k)
        PROVE  UNCHANGED tries \/ CancelWakes(k) \/ CancelMarks(k)
    BY <1>4 DEF Cancelling, CancelLooks, CancelStops, Enqueue, HandOver, Runner, RunnerReports,
                RunnerReturns, Returns, StopRun, Faults, EnqueueFails, ReapFails, HandlerFails,
                InvokeFails, WrapupFails, OverrunFails
  <1>5. ASSUME NEW k \in Key, Handler(k) \/ Grace(k)
        PROVE  UNCHANGED tries \/ Reap(k) \/ Forget(k) \/ FinishCancelled(k)
    BY <1>5 DEF Handler, Plan, PlanAck, PlanReap, PlanYield, PlanClaim, Acquire, AcquireStopped,
                Claim, ClaimRefused, Invoke, Register, Look, Call, NotCalled, Returns, DropResult,
                LeaveRunning, Transient, NoteTransient, NoteRefused, Backoff, BackoffRefused,
                BackoffNothing, PauseEnds, PauseStopped, Finish, FinishNothing, FinishAuto,
                FinishRuled, Wrapup, Grace, GraceEnds, Overrun, OverrunSettles
  <1> QED
    BY <1>1, <1>2, <1>3, <1>4, <1>5 DEF Next

(* A handler that is at work moves on with its item or lets go of both. *)
LEMMA ItemsFrame ==
  ASSUME [Next]_vars
  PROVE  \/ UNCHANGED <<item, pc>>
         \/ \E k \in Key : Enqueue(k) \/ HandOver(k) \/ Wrapup(k)
         \/ \E k \in Key : /\ pc[k] # "idle"
                           /\ \E to \in Pcs \ {"idle"} : Goto(k, to) /\ UNCHANGED item
         \/ \E k \in Key : /\ pc[k] # "idle"
                           /\ HandBack(k)
         \/ \E k \in Key : \/ PlanAck(k) \/ Reap(k) \/ ReapFails(k) \/ ClaimRefused(k)
                           \/ DropResult(k) \/ BackoffNothing(k) \/ WrapupFails(k)
         \/ Restart
  <1> USE DEF vars, process
  <1>1. CASE UNCHANGED vars
    BY <1>1
  <1>2. CASE Sweep \/ Stop
    BY <1>2 DEF Sweep, Stop
  <1>3. ASSUME NEW j \in Job, Person(j) \/ Tries(j) \/ Purge(j)
        PROVE  UNCHANGED <<item, pc>>
    BY <1>3 DEF Person, Create, Answer, Retry, Requeue, CancelJob, Tries, TryEnds, SweepTries,
                Abandon, Purge
  <1>4. ASSUME NEW k \in Key, Cancelling(k) \/ Grace(k) \/ StopRun(k) \/ EnqueueFails(k) \/ OverrunFails(k)
                              \/ RunnerReports(k)
        PROVE  UNCHANGED <<item, pc>>
    BY <1>4 DEF Cancelling, CancelWakes, CancelLooks, CancelStops, CancelMarks, Grace, GraceEnds,
                Overrun, OverrunSettles, StopRun, EnqueueFails, OverrunFails, RunnerReports
  <1>5. ASSUME NEW k \in Key, Plan(k) \/ Acquire(k) \/ AcquireStopped(k) \/ Claim(k) \/ Invoke(k)
        PROVE  \/ PlanAck(k)
               \/ /\ pc[k] # "idle"
                  /\ \/ HandBack(k)
                     \/ \E to \in Pcs \ {"idle"} : Goto(k, to) /\ UNCHANGED item
    BY <1>5 DEF Plan, PlanReap, PlanYield, PlanClaim, Acquire, AcquireStopped, Claim, Invoke,
                Register, Look, Call, NotCalled, Returns, Forget, Pcs, SlotPcs
  <1>6. ASSUME NEW k \in Key, Transient(k) \/ LeaveRunning(k) \/ PauseEnds(k) \/ PauseStopped(k) \/ Finish(k)
        PROVE  \/ BackoffNothing(k) \/ UNCHANGED <<item, pc>>
               \/ /\ pc[k] # "idle"
                  /\ \/ HandBack(k)
                     \/ \E to \in Pcs \ {"idle"} : Goto(k, to) /\ UNCHANGED item
    BY <1>6 DEF Transient, NoteTransient, NoteRefused, Backoff, BackoffRefused, LeaveRunning,
                PauseEnds, PauseStopped, Finish, FinishNothing, FinishCancelled, FinishAuto,
                FinishRuled, Pcs, SlotPcs
  <1>7. ASSUME NEW k \in Key, HandlerFails(k) \/ InvokeFails(k) \/ RunnerReturns(k)
        PROVE  /\ pc[k] # "idle"
               /\ \/ HandBack(k)
                  \/ \E to \in Pcs \ {"idle"} : Goto(k, to) /\ UNCHANGED item
    BY <1>7 DEF HandlerFails, InvokeFails, RunnerReturns, Returns, Pcs, SlotPcs
  <1> QED
    BY <1>1, <1>2, <1>3, <1>4, <1>5, <1>6, <1>7 DEF Next, Handler, Runner, Faults


-----------------------------------------------------------------------------
(* Types. *)

(* Everything starts with values of its type, *)
LEMMA TypeInit == Init => TypeOK
  <1> SUFFICES ASSUME Init
               PROVE  TypeOK
    OBVIOUS
  <1> USE DEF Init
  <1>1. jobState \in [Job -> JobStates] /\ attState \in [Key -> AttStates]
    BY DEF JobStates, AttStates
  <1>2. trigger \in [Key -> Triggers] /\ failures \in [Key -> Nat]
    BY DEF Triggers
  <1>3. session \in [Key -> BOOLEAN] /\ inRunner \in [Key -> BOOLEAN] /\ earlier \in [Key -> SUBSET Key]
    OBVIOUS
  <1>4. wanted \in [Job -> BOOLEAN] /\ cleanup \in [Job -> Cleanups] /\ atRest \in [Job -> BOOLEAN]
    BY DEF Cleanups
  <1>5. item \in [Key -> Items] /\ pc \in [Key -> Pcs] /\ outcome \in [Key -> Outcomes]
    BY DEF Items, Pcs, Outcomes
  <1>6. cause \in [Key -> {"none", "cancel", "shutdown"}] /\ grace \in [Key -> {"off", "on", "settle"}]
    OBVIOUS
  <1>7. /\ wake \in [Key -> {"none", "watching", "woken"}]
        /\ canceller \in [Key -> {"idle", "wake", "look", "stop", "mark"}]
    OBVIOUS
  <1>8. \A k \in Key : outcome[k] # "again"
    OBVIOUS
  <1> QED
    BY <1>1, <1>2, <1>3, <1>4, <1>5, <1>6, <1>7, <1>8 DEF TypeOK

(* settleCancelled keeps the types of what it writes. *)
LEMMA SettleTypes ==
  ASSUME TypeOK, NEW k \in Key, SettleCancelled(k)
  PROVE  /\ jobState' \in [Job -> JobStates] /\ attState' \in [Key -> AttStates]
         /\ cleanup' \in [Job -> Cleanups] /\ atRest' \in [Job -> BOOLEAN]
  <1>1. CASE attState[k] = "running"
    <2>1. EndCancelled(k)
      BY <1>1 DEF SettleCancelled
    <2>2. k[1] \in Job
      BY KeyParts
    <2>3. \E mark \in Cleanups : cleanup' = [cleanup EXCEPT ![k[1]] = mark]
      BY <2>1, <2>2 DEF EndCancelled, MarksCleanup, TypeOK, Cleanups
    <2> QED
      BY <2>1, <2>2, <2>3 DEF EndCancelled, TypeOK, AttStates
  <1>2. CASE attState[k] # "running"
    BY <1>2 DEF SettleCancelled, TypeOK
  <1> QED
    BY <1>1, <1>2

(* and every step keeps them. *)
LEMMA TypeStep ==
  ASSUME TypeOK, [Next]_vars
  PROVE  TypeOK'
  <1> USE FirstKey, KeyParts DEF TypeOK, JobStates, Open, Finished, AttStates, Triggers, Cleanups,
          Items, Pcs, SlotPcs, Outcomes, Endings, store, runs, process, bounds
  <1>1. ASSUME NEW j \in Job, Create(j)
        PROVE  TypeOK'
    BY <1>1 DEF Create, InsertAttempt, Made
  <1>2. ASSUME NEW j \in Job, Answer(j)
        PROVE  TypeOK'
    BY <1>2 DEF Answer, Requeue, InsertAttempt, KeysOf, Made, Last
  <1>3. ASSUME NEW j \in Job, Retry(j)
        PROVE  TypeOK'
    BY <1>3 DEF Retry, Requeue, InsertAttempt, KeysOf, Made, Last
  <1>4. ASSUME NEW j \in Job, CancelJob(j)
        PROVE  TypeOK'
    BY <1>4 DEF CancelJob, Made
  <1>5. ASSUME NEW j \in Job, TryEnds(j)
        PROVE  TypeOK'
    BY <1>5 DEF TryEnds
  <1>6. ASSUME NEW j \in Job, SweepTries(j)
        PROVE  TypeOK'
    BY <1>6 DEF SweepTries, Tried
  <1>7. ASSUME NEW j \in Job, Abandon(j)
        PROVE  TypeOK'
    BY <1>7 DEF Abandon
  <1>8. ASSUME NEW j \in Job, Purge(j)
        PROVE  TypeOK'
    BY <1>8 DEF Purge
  <1>9. ASSUME NEW k \in Key, CancelWakes(k)
        PROVE  TypeOK'
    BY <1>9 DEF CancelWakes, Tried
  <1>10. ASSUME NEW k \in Key, CancelLooks(k)
        PROVE  TypeOK'
    BY <1>10 DEF CancelLooks
  <1>11. ASSUME NEW k \in Key, CancelStops(k)
        PROVE  TypeOK'
    BY <1>11 DEF CancelStops
  <1>12. ASSUME NEW k \in Key, CancelMarks(k)
        PROVE  TypeOK'
    <2>1. canceller' \in [Key -> {"idle", "wake", "look", "stop", "mark"}]
      BY <1>12 DEF CancelMarks
    <2>2. cleanup' \in [Job -> Cleanups] /\ tries' \in SUBSET Job
      BY <1>12 DEF CancelMarks, Tried
    <2> QED
      BY <1>12, <2>1, <2>2 DEF CancelMarks
  <1>13. ASSUME NEW k \in Key, Enqueue(k)
        PROVE  TypeOK'
    BY <1>13 DEF Enqueue
  <1>14. ASSUME NEW k \in Key, EnqueueFails(k)
        PROVE  TypeOK'
    BY <1>14 DEF EnqueueFails
  <1>15. ASSUME NEW k \in Key, HandOver(k)
        PROVE  TypeOK'
    BY <1>15 DEF HandOver, Goto
  <1>16. ASSUME NEW k \in Key, PlanAck(k)
        PROVE  TypeOK'
    BY <1>16 DEF PlanAck, Leave, Ack
  <1>17. ASSUME NEW k \in Key, PlanReap(k)
        PROVE  TypeOK'
    BY <1>17 DEF PlanReap, Goto
  <1>18. ASSUME NEW k \in Key, PlanYield(k)
        PROVE  TypeOK'
    BY <1>18 DEF PlanYield, Leave, HandBack
  <1>19. ASSUME NEW k \in Key, PlanClaim(k)
        PROVE  TypeOK'
    BY <1>19 DEF PlanClaim, Goto
  <1>20. ASSUME NEW k \in Key, Reap(k)
        PROVE  TypeOK'
    BY <1>20, SettleTypes DEF Reap, Ack, Leave, Tried
  <1>21. ASSUME NEW k \in Key, ReapFails(k)
        PROVE  TypeOK'
    BY <1>21 DEF ReapFails, Leave, Ack
  <1>22. ASSUME NEW k \in Key, Acquire(k)
        PROVE  TypeOK'
    BY <1>22 DEF Acquire, Goto
  <1>23. ASSUME NEW k \in Key, AcquireStopped(k)
        PROVE  TypeOK'
    BY <1>23 DEF AcquireStopped, Leave, HandBack
  <1>24. ASSUME NEW k \in Key, Claim(k)
        PROVE  TypeOK'
    BY <1>24 DEF Claim, Goto
  <1>25. ASSUME NEW k \in Key, ClaimRefused(k)
        PROVE  TypeOK'
    BY <1>25 DEF ClaimRefused, Leave, Ack
  <1>26. ASSUME NEW k \in Key, Register(k)
        PROVE  TypeOK'
    BY <1>26 DEF Register, Goto
  <1>27. ASSUME NEW k \in Key, Look(k)
        PROVE  TypeOK'
    BY <1>27 DEF Look, Goto
  <1>28. ASSUME NEW k \in Key, Call(k)
        PROVE  TypeOK'
    BY <1>28 DEF Call, Goto
  <1>29. ASSUME NEW k \in Key, NotCalled(k)
        PROVE  TypeOK'
    BY <1>29 DEF NotCalled, Returns, Goto, Seen
  <1>30. ASSUME NEW k \in Key, Forget(k)
        PROVE  TypeOK'
    BY <1>30 DEF Forget, Goto, Tried
  <1>31. ASSUME NEW k \in Key, HandlerFails(k)
        PROVE  TypeOK'
    BY <1>31 DEF HandlerFails, Leave, HandBack
  <1>32. ASSUME NEW k \in Key, InvokeFails(k)
        PROVE  TypeOK'
    BY <1>32 DEF InvokeFails, Goto
  <1>33. ASSUME NEW k \in Key, RunnerReports(k)
        PROVE  TypeOK'
    BY <1>33 DEF RunnerReports
  <1>34. ASSUME NEW k \in Key, RunnerReturns(k)
        PROVE  TypeOK'
    BY <1>34 DEF RunnerReturns, Returns, Goto, Seen
  <1>35. ASSUME NEW k \in Key, DropResult(k)
        PROVE  TypeOK'
    BY <1>35 DEF DropResult, Leave, Ack
  <1>36. ASSUME NEW k \in Key, LeaveRunning(k)
        PROVE  TypeOK'
    BY <1>36 DEF LeaveRunning, Leave, HandBack
  <1>37. ASSUME NEW k \in Key, NoteTransient(k)
        PROVE  TypeOK'
    <2>1. failures' \in [Key -> Nat]
      BY <1>37 DEF NoteTransient
    <2>2. CASE UNCHANGED <<pc, wake>> /\ outcome' = [outcome EXCEPT ![k] = "spent"]
      BY <1>37, <2>1, <2>2 DEF NoteTransient
    <2>3. CASE Goto(k, "backoff") /\ UNCHANGED outcome /\ wake' = [wake EXCEPT ![k] = "watching"]
      BY <1>37, <2>1, <2>3 DEF NoteTransient, Goto
    <2> QED
      BY <1>37, <2>2, <2>3 DEF NoteTransient
  <1>38. ASSUME NEW k \in Key, NoteRefused(k)
        PROVE  TypeOK'
    BY <1>38 DEF NoteRefused, Leave, HandBack
  <1>39. ASSUME NEW k \in Key, Backoff(k)
        PROVE  TypeOK'
    BY <1>39 DEF Backoff, Goto
  <1>40. ASSUME NEW k \in Key, BackoffRefused(k)
        PROVE  TypeOK'
    BY <1>40 DEF BackoffRefused, Leave, HandBack
  <1>41. ASSUME NEW k \in Key, BackoffNothing(k)
        PROVE  TypeOK'
    BY <1>41 DEF BackoffNothing, Leave, Ack
  <1>42. ASSUME NEW k \in Key, PauseEnds(k)
        PROVE  TypeOK'
    BY <1>42 DEF PauseEnds, Goto
  <1>43. ASSUME NEW k \in Key, PauseStopped(k)
        PROVE  TypeOK'
    BY <1>43 DEF PauseStopped, Leave, HandBack
  <1>44. ASSUME NEW k \in Key, FinishNothing(k)
        PROVE  TypeOK'
    BY <1>44 DEF FinishNothing, Goto
  <1>45. ASSUME NEW k \in Key, FinishCancelled(k)
        PROVE  TypeOK'
    BY <1>45 DEF FinishCancelled, Goto, Tried, EndCancelled
  <1>46. ASSUME NEW k \in Key, FinishAuto(k)
        PROVE  TypeOK'
    BY <1>46 DEF FinishAuto, InsertAttempt, Goto, Made
  <1>47. ASSUME NEW k \in Key, FinishRuled(k)
        PROVE  TypeOK'
    <2>1. \E att \in AttStates, job \in JobStates : EndRuled(k, att, job)
      BY <1>47 DEF FinishRuled
    <2> QED
      BY <1>47, <2>1 DEF FinishRuled, EndRuled, Goto
  <1>48. ASSUME NEW k \in Key, Wrapup(k)
        PROVE  TypeOK'
    BY <1>48 DEF Wrapup, Goto
  <1>49. ASSUME NEW k \in Key, WrapupFails(k)
        PROVE  TypeOK'
    BY <1>49 DEF WrapupFails, Leave, Ack
  <1>50. ASSUME NEW k \in Key, GraceEnds(k)
        PROVE  TypeOK'
    BY <1>50 DEF GraceEnds
  <1>51. ASSUME NEW k \in Key, Overrun(k)
        PROVE  TypeOK'
    BY <1>51 DEF Overrun
  <1>52. ASSUME NEW k \in Key, OverrunSettles(k)
        PROVE  TypeOK'
    BY <1>52, SettleTypes DEF OverrunSettles
  <1>53. ASSUME NEW k \in Key, OverrunFails(k)
        PROVE  TypeOK'
    BY <1>53 DEF OverrunFails
  <1>54. ASSUME NEW k \in Key, StopRun(k)
        PROVE  TypeOK'
    BY <1>54 DEF StopRun
  <1>55. CASE Sweep
    BY <1>55 DEF Sweep
  <1>56. CASE Stop
    BY <1>56 DEF Stop
  <1>57. CASE Restart
    <2> USE <1>57 DEF Restart
    <2>1. item' \in [Key -> Items] /\ pc' \in [Key -> Pcs] /\ outcome' \in [Key -> Outcomes]
      OBVIOUS
    <2>2. /\ cause' \in [Key -> {"none", "cancel", "shutdown"}]
          /\ grace' \in [Key -> {"off", "on", "settle"}]
          /\ wake' \in [Key -> {"none", "watching", "woken"}]
          /\ canceller' \in [Key -> {"idle", "wake", "look", "stop", "mark"}]
      OBVIOUS
    <2>3. \A k \in Key : outcome'[k] # "again"
      OBVIOUS
    <2>4. /\ inflight' \in SUBSET Key /\ called' \in SUBSET Key /\ overran' \in SUBSET Key
          /\ owed' \in SUBSET Key /\ tries' \in SUBSET Job /\ stopping' \in BOOLEAN
      OBVIOUS
    <2>5. UNCHANGED <<store, faults>> /\ restarts' \in Nat
      OBVIOUS
    <2> QED
      BY <2>1, <2>2, <2>3, <2>4, <2>5
  <1>58. CASE UNCHANGED vars
    BY <1>58 DEF vars
  <1> HIDE DEF TypeOK
  <1> QED
    BY <1>1, <1>2, <1>3, <1>4, <1>5, <1>6, <1>7, <1>8, <1>9, <1>10, <1>11, <1>12, <1>13,
       <1>14, <1>15, <1>16, <1>17, <1>18, <1>19, <1>20, <1>21, <1>22, <1>23, <1>24, <1>25,
       <1>26, <1>27, <1>28, <1>29, <1>30, <1>31, <1>32, <1>33, <1>34, <1>35, <1>36, <1>37,
       <1>38, <1>39, <1>40, <1>41, <1>42, <1>43, <1>44, <1>45, <1>46, <1>47, <1>48, <1>49,
       <1>50, <1>51, <1>52, <1>53, <1>54, <1>55, <1>56, <1>57, <1>58
       DEF Next, Person, Answer, Retry, Tries, Cancelling, Handler, Plan, Invoke, Finish,
           Transient, Grace, Faults, Runner

(* Every reachable state is well typed, whatever the jobs, the workspaces and the bounds. *)
THEOREM Types == Spec => []TypeOK
  <1> QED
    BY TypeInit, TypeStep, PTL DEF Spec

-----------------------------------------------------------------------------
(* The steps of Next, those that are alike for what follows taken together. *)

(* A step that leaves alone what the handlers, the cancels and the queue are at. *)
Aside == UNCHANGED <<jobState, attState, atRest, item, pc, outcome, inflight, called, cause, overran,
                     grace, wake, canceller>>

(* The handler of an attempt gives up its item, for good only when the attempt is closed or *)
(* is recorded by another.                                                                  *)
LetsGo(k) ==
  /\ pc[k] \notin {"idle", "register", "look", "call", "runner", "forget"}
  /\ pc' = [pc EXCEPT ![k] = "idle"]
  /\ outcome' = [outcome EXCEPT ![k] = "none"]
  /\ \/ item' = [item EXCEPT ![k] = "ready"]
     \/ /\ item' = [item EXCEPT ![k] = "done"]
        /\ \/ ~OpenAttempt(k) \/ pc[k] \in {"reap", "wrapup"} \/ outcome[k] = "dropped"
           \/ pc[k] = "backoff" /\ attState[k] # "running"
  /\ UNCHANGED wake \/ wake' = [wake EXCEPT ![k] = "none"]
  /\ UNCHANGED <<store, inflight, called, cause, overran, grace, canceller, owed, tries>>

(* It goes on, within the layer. *)
GoesOn(k) ==
  /\ \/ pc[k] = "plan" /\ attState[k] = "running" /\ ~OpenAttempt(k) /\ Goto(k, "reap") /\ UNCHANGED wake
     \/ pc[k] = "plan" /\ First(k) /\ Goto(k, "slot") /\ UNCHANGED wake
     \/ /\ pc[k] = "slot" /\ Goto(k, "claim") /\ UNCHANGED wake
        /\ Cardinality({i \in Key : pc[i] \in SlotPcs}) < Slots
     \/ pc[k] = "paused" /\ Goto(k, "slot") /\ wake' = [wake EXCEPT ![k] = "none"]
     \/ pc[k] = "returned" /\ attState[k] # "running" /\ Goto(k, "wrapup") /\ UNCHANGED wake
  /\ UNCHANGED <<store, item, outcome, inflight, called, cause, overran, grace, canceller, owed, tries>>

(* The runner of an attempt is behind it: it returned, or it was not reached. *)
ComesBack(k) ==
  /\ pc[k] \in {"look", "call", "runner"}
  /\ Goto(k, "forget")
  /\ \E out \in Outcomes \ {"none", "auto"} :
       /\ outcome' = [outcome EXCEPT ![k] = out]
       /\ out = "dropped" => k \in overran
  /\ called \subseteq called'
  /\ UNCHANGED <<store, item, inflight, cause, overran, grace, wake, canceller, owed, tries>>

(* The steps that let go. *)
LEMMA LettingGo ==
  ASSUME NEW k \in Key,
         \/ PlanAck(k) \/ PlanYield(k) \/ ReapFails(k) \/ AcquireStopped(k) \/ ClaimRefused(k)
         \/ HandlerFails(k) \/ DropResult(k) \/ LeaveRunning(k) \/ NoteRefused(k)
         \/ BackoffRefused(k) \/ BackoffNothing(k) \/ PauseStopped(k) \/ WrapupFails(k)
  PROVE  LetsGo(k)
  <1> USE DEF LetsGo, Leave, Ack, HandBack, runs
  <1>1. CASE PlanAck(k) \/ PlanYield(k) \/ ReapFails(k) \/ AcquireStopped(k) \/ ClaimRefused(k)
    BY <1>1 DEF PlanAck, PlanYield, ReapFails, AcquireStopped, ClaimRefused
  <1>2. CASE HandlerFails(k) \/ DropResult(k) \/ LeaveRunning(k) \/ NoteRefused(k)
    BY <1>2 DEF HandlerFails, DropResult, LeaveRunning, NoteRefused
  <1>3. CASE BackoffRefused(k) \/ PauseStopped(k) \/ WrapupFails(k)
    BY <1>3 DEF BackoffRefused, PauseStopped, WrapupFails
  <1>4. CASE BackoffNothing(k)
    BY <1>4 DEF BackoffNothing, OpenAttempt
  <1> QED
    BY <1>1, <1>2, <1>3, <1>4

(* The steps that go on. *)
LEMMA GoingOn ==
  ASSUME NEW k \in Key,
         PlanReap(k) \/ PlanClaim(k) \/ Acquire(k) \/ PauseEnds(k) \/ FinishNothing(k)
  PROVE  GoesOn(k)
  BY DEF GoesOn, PlanReap, PlanClaim, Acquire, PauseEnds, FinishNothing, runs

(* The steps by which a run comes back. *)
LEMMA ComingBack ==
  ASSUME NEW k \in Key, NotCalled(k) \/ InvokeFails(k) \/ RunnerReturns(k)
  PROVE  ComesBack(k)
  BY DEF ComesBack, NotCalled, InvokeFails, RunnerReturns, Returns, Seen, Outcomes, Endings, runs

(* Next, in these terms. *)
LEMMA Steps ==
  ASSUME [Next]_vars
  PROVE  \/ Aside /\ owed' = owed
         \/ \E j \in Job : Create(j) \/ Answer(j) \/ Retry(j) \/ CancelJob(j) \/ Purge(j)
         \/ \E k \in Key : \/ Cancelling(k) \/ Enqueue(k) \/ HandOver(k)
                           \/ LetsGo(k) \/ GoesOn(k) \/ ComesBack(k)
                           \/ Reap(k) \/ Claim(k) \/ Register(k) \/ Look(k) \/ Call(k) \/ Forget(k)
                           \/ NoteTransient(k) \/ Backoff(k)
                           \/ FinishCancelled(k) \/ FinishAuto(k) \/ FinishRuled(k) \/ Wrapup(k)
                           \/ GraceEnds(k) \/ Overrun(k) \/ OverrunSettles(k) \/ OverrunFails(k)
                           \/ StopRun(k)
         \/ Aside /\ \E k \in Key : owed' = owed \ {k}
         \/ Sweep \/ Restart
  <1>1. CASE UNCHANGED vars \/ Stop
    BY <1>1 DEF vars, store, process, runs, Stop, Aside
  <1>2. ASSUME NEW j \in Job, Tries(j)
        PROVE  Aside /\ owed' = owed
    BY <1>2 DEF Tries, TryEnds, SweepTries, Abandon, Aside, store, process, runs
  <1>3. ASSUME NEW k \in Key, RunnerReports(k)
        PROVE  Aside /\ owed' = owed
    BY <1>3 DEF RunnerReports, Aside, process, runs
  <1>4. ASSUME NEW k \in Key, EnqueueFails(k)
        PROVE  Aside /\ owed' = owed \ {k}
    BY <1>4 DEF EnqueueFails, Aside, store, runs
  <1> QED
    BY <1>1, <1>2, <1>3, <1>4, LettingGo, GoingOn, ComingBack
       DEF Next, Person, Handler, Plan, Invoke, Transient, Finish, Grace, Faults, Runner

-----------------------------------------------------------------------------
(* Attempts, and the steps that make one. *)

(* An attempt that is open to the queue is the last of its job, *)
LEMMA OpenIsLast ==
  ASSUME TypeOK, JobMatchesAttempt, NEW k \in Key, attState[k] \in {"queued", "running"}
  PROVE  Last(k)
  BY KeyParts DEF JobMatchesAttempt, Made, TypeOK, AttStates, JobStates, Open, Finished

(* so that a job has at most one of them. *)
LEMMA OneActive ==
  ASSUME TypeOK, JobMatchesAttempt, NEW i \in Key, NEW k \in Key, i[1] = k[1],
         attState[i] \in {"queued", "running"}, attState[k] \in {"queued", "running"}
  PROVE  i = k
  <1>1. Last(i) /\ Last(k)
    BY OpenIsLast
  <1>2. i \in KeysOf(k[1]) \cap Made /\ k \in KeysOf(i[1]) \cap Made
    BY <1>1 DEF Last, KeysOf
  <1>3. i[2] <= k[2] /\ k[2] <= i[2]
    BY <1>1, <1>2 DEF Last
  <1>4. i[2] = k[2]
    BY <1>3, KeyParts
  <1> QED
    BY <1>4, KeyParts

(* The attempt after the last has no row, *)
LEMMA SuccIsFresh ==
  ASSUME TypeOK, NEW k \in Key, Last(k), k[2] < MaxAttempts
  PROVE  Succ(k) \in Key /\ attState[Succ(k)] = "none"
  <1>1. Succ(k) \in Key /\ Succ(k)[1] = k[1] /\ Succ(k)[2] = k[2] + 1
    BY KeyParts
  <1>2. ~(Succ(k)[2] <= k[2])
    BY <1>1, KeyParts
  <1>3. Succ(k) \notin KeysOf(k[1]) \cap Made
    BY <1>2 DEF Last
  <1> QED
    BY <1>1, <1>3 DEF KeysOf, Made

(* and one without a row is not in the queue and has no handler, unless its job was purged. *)
LEMMA FreshIsIdle ==
  ASSUME TypeOK, Consistent, NEW k \in Key, attState[k] = "none", jobState[k[1]] # "purged"
  PROVE  /\ item[k] = "none" /\ k \notin owed /\ pc[k] = "idle" 
  BY KeyParts DEF Consistent, QueuedWasMade, HandlersHoldItems, TypeOK

(* An answer and a retry add an attempt that nothing is at work on yet, *)
LEMMA Requeued ==
  ASSUME TypeOK, Consistent, JobMatchesAttempt, NEW j \in Job, Answer(j) \/ Retry(j)
  PROVE  /\ \A i \in Key : i[1] = j => attState[i] \notin {"queued", "running"}
         /\ \E k \in Key :
           /\ k[1] = j /\ Last(k)
           /\ Succ(k) \in Key /\ Succ(k)[1] = j /\ Succ(k)[2] = k[2] + 1
           /\ attState[Succ(k)] = "none" /\ item[Succ(k)] = "none" /\ pc[Succ(k)] = "idle"
           /\ \A i \in Key : attState'[i] = IF i = Succ(k) THEN "queued" ELSE attState[i]
           /\ jobState[j] \in {"blocked", "failed"}
           /\ jobState' = [jobState EXCEPT ![j] = "queued"]
           /\ atRest' = [atRest EXCEPT ![j] = FALSE]
           /\ UNCHANGED <<item, pc, outcome, inflight, cause, overran, grace, wake, canceller>>
  <1>1. PICK from \in {"blocked", "failed"}, kind \in Triggers : Requeue(j, from, kind)
    BY DEF Answer, Retry, Triggers
  <1>2. PICK k \in KeysOf(j) :
          Last(k) /\ k[2] < MaxAttempts /\ attState' = [attState EXCEPT ![Succ(k)] = "queued"]
    BY <1>1 DEF Requeue
  <1>3. k \in Key /\ k[1] = j
    BY DEF KeysOf
  <1>4. Succ(k) \in Key /\ attState[Succ(k)] = "none" /\ Succ(k)[1] = j /\ Succ(k)[2] = k[2] + 1
    BY <1>2, <1>3, SuccIsFresh, KeyParts
  <1>5. item[Succ(k)] = "none" /\ pc[Succ(k)] = "idle"
    BY <1>1, <1>4, FreshIsIdle DEF Requeue
  <1>6. ASSUME NEW i \in Key, i[1] = j, attState[i] \in {"queued", "running"}
        PROVE  FALSE
    <2>1. Last(i)
      BY <1>6, OpenIsLast
    <2> QED
      BY <1>1, <1>6, <2>1 DEF Requeue, JobMatchesAttempt, Last
  <1> QED
    BY <1>1, <1>2, <1>3, <1>4, <1>5, <1>6 DEF Requeue, runs, TypeOK

(* and so does the end of an attempt that is followed by an automatic one. *)
LEMMA Automatic ==
  ASSUME TypeOK, Consistent, JobMatchesAttempt, NEW k \in Key, FinishAuto(k)
  PROVE  /\ Last(k)
         /\ Succ(k) \in Key /\ Succ(k)[1] = k[1] /\ Succ(k)[2] = k[2] + 1 /\ Succ(k) # k
         /\ attState[Succ(k)] = "none" /\ item[Succ(k)] = "none" /\ pc[Succ(k)] = "idle"
         /\ \A i \in Key : attState'[i] = CASE i = k -> "failed" [] i = Succ(k) -> "queued" [] OTHER -> attState[i]
  <1>1. Last(k)
    BY OpenIsLast DEF FinishAuto
  <1>2. k[2] < MaxAttempts
    BY DEF FinishAuto, TypeOK
  <1>3. Succ(k) \in Key /\ attState[Succ(k)] = "none"
    BY <1>1, <1>2, SuccIsFresh
  <1>4. item[Succ(k)] = "none" /\ pc[Succ(k)] = "idle"
    BY <1>3, KeyParts, FreshIsIdle DEF FinishAuto
  <1>5. \A i \in Key : attState'[i] = CASE i = k -> "failed" [] i = Succ(k) -> "queued" [] OTHER -> attState[i]
    BY <1>3, KeyParts DEF FinishAuto, TypeOK
  <1> QED
    BY <1>1, <1>2, <1>3, <1>4, <1>5, KeyParts

(* A new job has no attempt, and nothing is at work on one. *)
LEMMA NewJob ==
  ASSUME TypeOK, Consistent, NEW j \in Job, jobState[j] = "absent"
  PROVE  \A k \in Key : k[1] = j => attState[k] = "none" /\ item[k] = "none" /\ pc[k] = "idle"
  BY FreshIsIdle DEF Consistent, QueuedWasMade

(* While an attempt runs that is past its runner, no attempt of its job is near one. *)
LEMMA NoOtherRun ==
  ASSUME TypeOK, Consistent, JobMatchesAttempt, NEW k \in Key, pc[k] \in {"backoff", "returned"},
         attState[k] = "running", jobState[k[1]] = "running"
  PROVE  \A i \in Key : i[1] = k[1] => pc[i] \notin {"register", "look", "call", "runner"}
  <1> SUFFICES ASSUME NEW i \in Key, i[1] = k[1], pc[i] \in {"register", "look", "call", "runner"}
               PROVE  FALSE
    OBVIOUS
  <1>1. attState[i] = "running"
    BY DEF Consistent, RunsAreKnown
  <1> QED
    BY <1>1, OneActive

(* A job has one last attempt. *)
LEMMA OneLast ==
  ASSUME NEW i \in Key, NEW k \in Key, i[1] = k[1], Last(i), Last(k)
  PROVE  i = k
  <1>1. i \in KeysOf(k[1]) \cap Made /\ k \in KeysOf(i[1]) \cap Made
    BY DEF Last, KeysOf
  <1>2. i[2] <= k[2] /\ k[2] <= i[2]
    BY <1>1 DEF Last
  <1> QED
    BY <1>2, KeyParts

(* When the attempts that were made stay, so does the last of each job; *)
LEMMA LastStays ==
  ASSUME Made' = Made
  PROVE  \A i \in Key : Last(i)' <=> Last(i)
  BY DEF Last, KeysOf

(* when one more is made after the last of its job, that is the last. *)
LEMMA LastMoves ==
  ASSUME NEW n \in Key, n \notin Made, Made' = Made \cup {n},
         \A i \in Made : i[1] = n[1] => i[2] < n[2]
  PROVE  /\ Last(n)'
         /\ \A i \in Key : i[1] = n[1] /\ i # n => ~Last(i)'
         /\ \A i \in Key : i[1] # n[1] => (Last(i)' <=> Last(i))
  <1>1. Last(n)'
    BY KeyParts DEF Last, KeysOf, Made
  <1>2. ASSUME NEW i \in Key, i[1] = n[1], i # n, Last(i)'
        PROVE  FALSE
    <2>1. i \in Made /\ i[2] < n[2] /\ i[2] \in Nat /\ n[2] \in Nat
      BY <1>2, KeyParts DEF Last
    <2>2. n[2] <= i[2]
      BY <1>2 DEF Last, KeysOf
    <2> QED
      BY <2>1, <2>2
  <1>3. ASSUME NEW i \in Key, i[1] # n[1]
        PROVE  Last(i)' <=> Last(i)
    <2>1. KeysOf(i[1]) \cap Made' = KeysOf(i[1]) \cap Made
      BY <1>3 DEF KeysOf
    <2>2. i \in Made' <=> i \in Made
      BY <1>3
    <2> QED
      BY <2>1, <2>2 DEF Last, KeysOf
  <1> QED
    BY <1>1, <1>2, <1>3

(* JobMatchesAttempt of one attempt, the last of its job. *)
Agrees(att, job) ==
  CASE job = "blocked"   -> att = "needs_human"
    [] job = "cancelled" -> att # "queued"
    [] OTHER -> att = job

(* JobMatchesAttempt, attempt by attempt, in a state and in the next. *)
LEMMA MatchesOfEach ==
  /\ JobMatchesAttempt <=>
       \A i \in Key : attState[i] # "none" =>
         IF Last(i) THEN Agrees(attState[i], jobState[i[1]]) ELSE attState[i] \notin {"queued", "running"}
  /\ JobMatchesAttempt' <=>
       \A i \in Key : attState'[i] # "none" =>
         IF Last(i)' THEN Agrees(attState'[i], jobState'[i[1]]) ELSE attState'[i] \notin {"queued", "running"}
  BY DEF JobMatchesAttempt, Agrees, Made

-----------------------------------------------------------------------------
(* The rows of the state file. *)

(* The rows of a job and of its attempts go on agreeing. *)
LEMMA MatchesStep ==
  ASSUME TypeOK, Consistent, JobMatchesAttempt, [Next]_vars
  PROVE  JobMatchesAttempt'
  <1> USE KeyParts DEF TypeOK, Open, Finished, JobStates, AttStates
  <1>0. Agrees("queued", "queued")
    BY DEF Agrees
  <1>1. ASSUME NEW j \in Job, Create(j)
        PROVE  JobMatchesAttempt'
    <2>0. PICK n \in Key : n = <<j, 1>>
      BY FirstKey
    <2>1. n[1] = j /\ attState' = [attState EXCEPT ![n] = "queued"] /\ jobState' = [jobState EXCEPT ![j] = "queued"]
      BY <1>1, <2>0 DEF Create
    <2>2. \A i \in Key : i[1] = j => i \notin Made
      BY <1>1, NewJob DEF Create, Made
    <2>3. Made' = Made \cup {n} /\ n \notin Made
      BY <2>1, <2>2 DEF Made
    <2>4. /\ Last(n)'
          /\ \A i \in Key : i[1] # j => (Last(i)' <=> Last(i))
      <3>1. \A i \in Made : i[1] = n[1] => i[2] < n[2]
        BY <2>1, <2>2 DEF Made
      <3> QED
        BY <2>1, <2>3, <3>1, LastMoves
    <2> QED
      BY <1>0, <2>1, <2>2, <2>3, <2>4, MatchesOfEach DEF Made
  <1>2. ASSUME NEW j \in Job, Answer(j) \/ Retry(j)
        PROVE  JobMatchesAttempt'
    <2>1. PICK k \in Key :
            /\ k[1] = j /\ Last(k)
            /\ Succ(k) \in Key /\ Succ(k)[1] = j /\ Succ(k)[2] = k[2] + 1
            /\ attState[Succ(k)] = "none"
            /\ \A i \in Key : attState'[i] = IF i = Succ(k) THEN "queued" ELSE attState[i]
      BY <1>2, Requeued
    <2>2. PICK n \in Key : n = Succ(k)
      BY <2>1
    <2>3. Made' = Made \cup {n} /\ n \notin Made
      BY <2>1, <2>2 DEF Made
    <2>4. \A i \in Made : i[1] = n[1] => i[2] < n[2]
      BY <2>1, <2>2 DEF Last, KeysOf, Made
    <2>5. /\ Last(n)'
          /\ \A i \in Key : i[1] = j /\ i # n => ~Last(i)'
          /\ \A i \in Key : i[1] # j => (Last(i)' <=> Last(i))
      BY <2>1, <2>2, <2>3, <2>4, LastMoves
    <2>6. /\ \A i \in Key : i[1] = j => attState[i] \notin {"queued", "running"}
          /\ jobState' = [jobState EXCEPT ![j] = "queued"]
      BY <1>2, Requeued
    <2> QED
      BY <1>0, <2>1, <2>2, <2>3, <2>5, <2>6, MatchesOfEach
  <1>3. ASSUME NEW k \in Key, FinishAuto(k)
        PROVE  JobMatchesAttempt'
    <2>1. PICK n \in Key :
            /\ n[1] = k[1] /\ n[2] = k[2] + 1 /\ n # k
            /\ attState[n] = "none" /\ Last(k)
            /\ \A i \in Key : attState'[i] = CASE i = k -> "failed" [] i = n -> "queued" [] OTHER -> attState[i]
      BY <1>3, Automatic
    <2>2. attState[k] = "running" /\ jobState' = [jobState EXCEPT ![k[1]] = "queued"]
      BY <1>3 DEF FinishAuto
    <2>3. Made' = Made \cup {n} /\ n \notin Made
      <3>1. \A i \in Key : attState'[i] # "none" <=> i = n \/ attState[i] # "none"
        BY <2>1, <2>2
      <3> QED
        BY <2>1, <3>1 DEF Made
    <2>4. \A i \in Made : i[1] = n[1] => i[2] < n[2]
      BY <2>1 DEF Last, KeysOf, Made
    <2>5. /\ Last(n)'
          /\ \A i \in Key : i[1] = k[1] /\ i # n => ~Last(i)'
          /\ \A i \in Key : i[1] # k[1] => (Last(i)' <=> Last(i))
      BY <2>1, <2>3, <2>4, LastMoves
    <2>6. \A i \in Key : i[1] = k[1] /\ i # k => attState[i] \notin {"queued", "running"}
      BY <2>2, OneActive
    <2> QED
      BY <1>0, <2>1, <2>2, <2>3, <2>5, <2>6, MatchesOfEach
  <1>4. ASSUME NEW k \in Key, NEW att \in AttStates \ {"none"}, NEW job \in JobStates,
               attState[k] \in {"queued", "running"},
               attState' = [attState EXCEPT ![k] = att],
               jobState' = [jobState EXCEPT ![k[1]] = job],
               Agrees(att, job)
        PROVE  JobMatchesAttempt'
    <2>1. Last(k) /\ \A i \in Key : i[1] = k[1] /\ i # k => ~Last(i)
      BY <1>4, OpenIsLast, OneLast
    <2>2. Made' = Made
      BY <1>4 DEF Made
    <2>3. \A i \in Key : Last(i)' <=> Last(i)
      BY <2>2, LastStays
    <2> QED
      BY <1>4, <2>1, <2>3, MatchesOfEach
  <1>5. ASSUME NEW k \in Key, Claim(k)
        PROVE  JobMatchesAttempt'
    BY <1>4, <1>5 DEF Claim, OpenAttempt, Agrees
  <1>6. ASSUME NEW k \in Key, Backoff(k)
        PROVE  JobMatchesAttempt'
    BY <1>4, <1>6 DEF Backoff, Agrees
  <1>7. ASSUME NEW k \in Key, FinishRuled(k)
        PROVE  JobMatchesAttempt'
    BY <1>4, <1>7 DEF FinishRuled, EndRuled, Agrees
  <1>8. ASSUME NEW k \in Key, Reap(k) \/ OverrunSettles(k) \/ FinishCancelled(k)
        PROVE  JobMatchesAttempt'
    <2>1. CASE attState[k] = "running"
      <3>1. attState' = [attState EXCEPT ![k] = "cancelled"] /\ UNCHANGED jobState
        BY <1>8, <2>1 DEF Reap, OverrunSettles, FinishCancelled, SettleCancelled, EndCancelled
      <3>2. jobState[k[1]] = "cancelled"
        BY <1>8, <2>1 DEF Reap, OverrunSettles, FinishCancelled, Consistent, StopsAreCancels, QueuedWasMade
      <3>3. jobState' = [jobState EXCEPT ![k[1]] = "cancelled"]
        BY <3>1, <3>2
      <3> QED
        BY <1>4, <2>1, <3>1, <3>3 DEF Agrees
    <2>2. CASE attState[k] # "running"
      BY <1>8, <2>2 DEF Reap, OverrunSettles, FinishCancelled, SettleCancelled, JobMatchesAttempt, Last, Made
    <2> QED
      BY <2>1, <2>2
  <1>9. ASSUME NEW j \in Job, CancelJob(j)
        PROVE  JobMatchesAttempt'
    BY <1>9 DEF CancelJob, JobMatchesAttempt, Last, KeysOf, Made, Running
  <1>10. ASSUME NEW j \in Job, Purge(j)
         PROVE  JobMatchesAttempt'
    BY <1>10 DEF Purge, JobMatchesAttempt, Last, KeysOf, Made
  <1>11. CASE UNCHANGED <<jobState, attState, atRest>>
    BY <1>11 DEF JobMatchesAttempt, Last, Made
  <1> HIDE DEF TypeOK
  <1> QED
    BY <1>1, <1>2, <1>3, <1>5, <1>6, <1>7, <1>8, <1>9, <1>10, <1>11, RowsFrame

(* At rest goes on being what the rows say. *)
LEMMA RestsStep ==
  ASSUME TypeOK, Consistent, JobMatchesAttempt, AtRestAgrees, [Next]_vars
  PROVE  AtRestAgrees'
  <1> USE KeyParts DEF TypeOK, Open, Finished, JobStates, AttStates
  <1>0. ASSUME NEW j \in Job, NEW job \in JobStates, NEW rest \in BOOLEAN,
               jobState' = [jobState EXCEPT ![j] = job], atRest' = [atRest EXCEPT ![j] = rest],
               \A i \in Key : i[1] # j => attState'[i] = attState[i],
               rest <=> /\ job \in Finished \cup {"blocked"}
                        /\ \A i \in Key : i[1] = j => attState'[i] # "running"
        PROVE  AtRestAgrees'
    <2>1. \A i \in Job \ {j} : Running(i)' = Running(i)
      BY <1>0 DEF Running, KeysOf
    <2>2. Running(j)' = {} <=> \A i \in Key : i[1] = j => attState'[i] # "running"
      BY DEF Running, KeysOf
    <2> QED
      BY <1>0, <2>1, <2>2 DEF AtRestAgrees
  <1>1. ASSUME NEW j \in Job, Create(j)
        PROVE  AtRestAgrees'
    <2>1. attState' = [attState EXCEPT ![<<j, 1>>] = "queued"] /\ <<j, 1>> \in Key
      BY <1>1, FirstKey DEF Create
    <2>2. \A i \in Key : i[1] # j => attState'[i] = attState[i]
      BY <2>1
    <2>3. jobState' = [jobState EXCEPT ![j] = "queued"] /\ atRest' = [atRest EXCEPT ![j] = FALSE]
      BY <1>1 DEF Create
    <2> QED
      BY <1>0, <2>2, <2>3
  <1>2. ASSUME NEW j \in Job, Answer(j) \/ Retry(j)
        PROVE  AtRestAgrees'
    <2>1. /\ jobState' = [jobState EXCEPT ![j] = "queued"]
          /\ atRest' = [atRest EXCEPT ![j] = FALSE]
      BY <1>2, Requeued
    <2>2. \A i \in Key : i[1] # j => attState'[i] = attState[i]
      BY <1>2, Requeued
    <2> QED
      BY <1>0, <2>1, <2>2
  <1>3. ASSUME NEW j \in Job, CancelJob(j)
        PROVE  AtRestAgrees'
    <2>1. Running(j) = {} <=> \A i \in Key : i[1] = j => attState'[i] # "running"
      BY <1>3 DEF CancelJob, Running, KeysOf
    <2> QED
      BY <1>0, <1>3, <2>1 DEF CancelJob
  <1>4. ASSUME NEW j \in Job, Purge(j)
        PROVE  AtRestAgrees'
    BY <1>0, <1>4 DEF Purge
  <1>5. ASSUME NEW k \in Key, attState[k] = "running"
        PROVE  \A i \in Key : i[1] = k[1] /\ i # k => attState[i] # "running"
    BY <1>5, OneActive
  <1>6. ASSUME NEW k \in Key, attState[k] = "running", jobState[k[1]] = "cancelled", EndCancelled(k)
        PROVE  AtRestAgrees'
    <2>1. jobState' = [jobState EXCEPT ![k[1]] = "cancelled"]
      BY <1>6 DEF EndCancelled
    <2>2. atRest' = [atRest EXCEPT ![k[1]] = TRUE] /\ attState' = [attState EXCEPT ![k] = "cancelled"]
      BY <1>6 DEF EndCancelled
    <2> QED
      BY <1>0, <1>5, <1>6, <2>1, <2>2
  <1>7. ASSUME NEW k \in Key, Reap(k) \/ OverrunSettles(k) \/ FinishCancelled(k)
        PROVE  AtRestAgrees'
    <2>1. CASE attState[k] = "running"
      <3>1. EndCancelled(k)
        BY <1>7, <2>1 DEF Reap, OverrunSettles, FinishCancelled, SettleCancelled
      <3>2. jobState[k[1]] = "cancelled"
        BY <1>7, <2>1 DEF Reap, OverrunSettles, FinishCancelled, Consistent, StopsAreCancels, QueuedWasMade
      <3> QED
        BY <1>6, <2>1, <3>1, <3>2
    <2>2. CASE attState[k] # "running"
      BY <1>7, <2>2 DEF Reap, OverrunSettles, FinishCancelled, SettleCancelled, AtRestAgrees, Running
    <2> QED
      BY <2>1, <2>2
  <1>8. ASSUME NEW k \in Key, FinishAuto(k)
        PROVE  AtRestAgrees'
    <2>1. \A i \in Key : i[1] # k[1] => attState'[i] = attState[i]
      BY <1>8, Automatic
    <2>2. jobState' = [jobState EXCEPT ![k[1]] = "queued"] /\ atRest[k[1]] = FALSE /\ UNCHANGED atRest
      BY <1>8 DEF FinishAuto, AtRestAgrees
    <2>3. atRest' = [atRest EXCEPT ![k[1]] = FALSE]
      BY <2>2
    <2> QED
      BY <1>0, <2>1, <2>2, <2>3
  <1>9. ASSUME NEW k \in Key, FinishRuled(k)
        PROVE  AtRestAgrees'
    <2>1. PICK att \in {"done", "needs_human", "failed"}, job \in {"done", "blocked", "failed"} : EndRuled(k, att, job)
      BY <1>9 DEF FinishRuled
    <2>2. attState[k] = "running"
      BY <1>9 DEF FinishRuled
    <2> QED
      BY <1>0, <1>5, <2>1, <2>2 DEF EndRuled
  <1>10. ASSUME NEW k \in Key, Claim(k)
         PROVE  AtRestAgrees'
    BY <1>10 DEF Claim, OpenAttempt, AtRestAgrees, Running, KeysOf
  <1>11. ASSUME NEW k \in Key, Backoff(k)
         PROVE  AtRestAgrees'
    BY <1>11 DEF Backoff, AtRestAgrees, Running, KeysOf
  <1>12. CASE UNCHANGED <<jobState, attState, atRest>>
    BY <1>12 DEF AtRestAgrees, Running
  <1> HIDE DEF TypeOK
  <1> QED
    BY <1>1, <1>2, <1>3, <1>4, <1>7, <1>8, <1>9, <1>10, <1>11, <1>12, RowsFrame

(* The index of open jobs is asked by every action that opens one. *)
LEMMA TopicStep ==
  ASSUME TypeOK, Consistent, JobMatchesAttempt, OneOpenPerTopic, [Next]_vars
  PROVE  OneOpenPerTopic'
  <1> USE KeyParts DEF TypeOK, Open, Finished, JobStates, AttStates
  <1>1. ASSUME NEW j \in Job, TopicFree(j), \A i \in Job \ {j} : jobState'[i] = jobState[i]
        PROVE  OneOpenPerTopic'
    BY <1>1 DEF OneOpenPerTopic, TopicFree
  <1>2. ASSUME NEW j \in Job, Create(j) \/ Answer(j) \/ Retry(j)
        PROVE  OneOpenPerTopic'
    BY <1>1, <1>2 DEF Create, Answer, Retry, Requeue
  <1>3. ASSUME \A j \in Job : jobState'[j] \in Open => jobState[j] \in Open
        PROVE  OneOpenPerTopic'
    BY <1>3 DEF OneOpenPerTopic
  <1>4. ASSUME NEW j \in Job, CancelJob(j) \/ Purge(j)
        PROVE  OneOpenPerTopic'
    BY <1>3, <1>4 DEF CancelJob, Purge
  <1>5. ASSUME NEW k \in Key, Claim(k) \/ Backoff(k) \/ FinishCancelled(k) \/ FinishAuto(k) \/ FinishRuled(k)
        PROVE  OneOpenPerTopic'
    BY <1>3, <1>5 DEF Claim, OpenAttempt, Backoff, FinishCancelled, EndCancelled, FinishAuto, FinishRuled, EndRuled
  <1>6. ASSUME NEW k \in Key, Reap(k) \/ OverrunSettles(k)
        PROVE  OneOpenPerTopic'
    BY <1>3, <1>6 DEF Reap, OverrunSettles, SettleCancelled, EndCancelled
  <1>7. CASE UNCHANGED <<jobState, attState, atRest>>
    BY <1>3, <1>7
  <1> HIDE DEF TypeOK
  <1> QED
    BY <1>2, <1>4, <1>5, <1>6, <1>7, RowsFrame

(* An attempt that ended stays as it is, or is purged. *)
LEMMA EndedStep ==
  ASSUME TypeOK, Consistent, JobMatchesAttempt, [Next]_vars,
         NEW i \in Key, attState[i] \in {"done", "needs_human", "failed", "cancelled"}
  PROVE  attState'[i] \in {attState[i], "none"}
  <1> USE KeyParts DEF TypeOK, Open, Finished, JobStates, AttStates
  <1>1. ASSUME NEW j \in Job, Create(j)
        PROVE  attState'[i] = attState[i]
    <2>1. i # <<j, 1>>
      BY <1>1, FirstKey, NewJob DEF Create
    <2> QED
      BY <1>1, <2>1, FirstKey DEF Create
  <1>2. ASSUME NEW j \in Job, Answer(j) \/ Retry(j)
        PROVE  attState'[i] = attState[i]
    BY <1>2, Requeued
  <1>3. ASSUME NEW j \in Job, CancelJob(j) \/ Purge(j)
        PROVE  attState'[i] \in {attState[i], "none"}
    BY <1>3 DEF CancelJob, Purge
  <1>4. ASSUME NEW k \in Key, Claim(k) \/ Backoff(k) \/ FinishCancelled(k)
        PROVE  attState'[i] = attState[i]
    BY <1>4 DEF Claim, OpenAttempt, Backoff, FinishCancelled, EndCancelled
  <1>5. ASSUME NEW k \in Key, FinishRuled(k)
        PROVE  attState'[i] = attState[i]
    BY <1>5 DEF FinishRuled, EndRuled
  <1>6. ASSUME NEW k \in Key, FinishAuto(k)
        PROVE  attState'[i] = attState[i]
    <2>1. attState[k] = "running"
      BY <1>6 DEF FinishAuto
    <2> QED
      BY <1>6, <2>1, Automatic
  <1>7. ASSUME NEW k \in Key, Reap(k) \/ OverrunSettles(k)
        PROVE  attState'[i] = attState[i]
    BY <1>7 DEF Reap, OverrunSettles, SettleCancelled, EndCancelled
  <1> HIDE DEF TypeOK
  <1> QED
    BY <1>1, <1>2, <1>3, <1>4, <1>5, <1>6, <1>7, RowsFrame

-----------------------------------------------------------------------------
(* The handlers and the queue. *)

(* Handlers go on holding their items. *)
LEMMA HandlersStep ==
  ASSUME TypeOK, HandlersHoldItems, [Next]_vars
  PROVE  HandlersHoldItems'
  <1> USE KeyParts DEF HandlersHoldItems, Ws, TypeOK, Items, Pcs, SlotPcs, store, process, runs
  <1>1. ASSUME NEW j \in Job, Create(j)
        PROVE  HandlersHoldItems'
    BY <1>1 DEF Create
  <1>2. ASSUME NEW j \in Job, Answer(j) \/ Retry(j)
        PROVE  HandlersHoldItems'
    BY <1>2 DEF Answer, Requeue, Retry
  <1>3. ASSUME NEW j \in Job, CancelJob(j)
        PROVE  HandlersHoldItems'
    BY <1>3 DEF CancelJob
  <1>4. ASSUME NEW j \in Job, Purge(j)
        PROVE  HandlersHoldItems'
    BY <1>4 DEF Purge
  <1>5. ASSUME NEW k \in Key, CancelWakes(k) \/ CancelLooks(k) \/ CancelStops(k) \/ CancelMarks(k)
        PROVE  HandlersHoldItems'
    BY <1>5 DEF CancelWakes, CancelLooks, CancelStops, CancelMarks
  <1>6. ASSUME NEW k \in Key, Enqueue(k)
        PROVE  HandlersHoldItems'
    BY <1>6 DEF Enqueue
  <1>7. ASSUME NEW k \in Key, HandOver(k)
        PROVE  HandlersHoldItems'
    BY <1>7 DEF HandOver, Goto
  <1>8. ASSUME NEW k \in Key, LetsGo(k)
        PROVE  HandlersHoldItems'
    <2>1. ASSUME NEW to \in {"ready", "done"}, item' = [item EXCEPT ![k] = to]
          PROVE  HandlersHoldItems'
      BY <1>8, <2>1 DEF LetsGo
    <2> QED
      BY <1>8, <2>1 DEF LetsGo
  <1>9. ASSUME NEW k \in Key, GoesOn(k)
        PROVE  HandlersHoldItems'
    BY <1>9 DEF GoesOn, Goto
  <1>10. ASSUME NEW k \in Key, ComesBack(k)
        PROVE  HandlersHoldItems'
    BY <1>10 DEF ComesBack, Goto
  <1>11. ASSUME NEW k \in Key, Reap(k)
        PROVE  HandlersHoldItems'
    BY <1>11 DEF Reap, Ack, SettleCancelled, EndCancelled, Leave
  <1>12. ASSUME NEW k \in Key, Claim(k)
        PROVE  HandlersHoldItems'
    BY <1>12 DEF Claim, Goto, OpenAttempt
  <1>13. ASSUME NEW k \in Key, Register(k)
        PROVE  HandlersHoldItems'
    BY <1>13 DEF Register, Goto
  <1>14. ASSUME NEW k \in Key, Look(k)
        PROVE  HandlersHoldItems'
    BY <1>14 DEF Look, Goto
  <1>15. ASSUME NEW k \in Key, Call(k)
        PROVE  HandlersHoldItems'
    BY <1>15 DEF Call, Goto
  <1>16. ASSUME NEW k \in Key, Forget(k)
        PROVE  HandlersHoldItems'
    BY <1>16 DEF Forget, Goto
  <1>17. ASSUME NEW k \in Key, NoteTransient(k)
        PROVE  HandlersHoldItems'
    BY <1>17 DEF NoteTransient, Goto
  <1>18. ASSUME NEW k \in Key, Backoff(k)
        PROVE  HandlersHoldItems'
    BY <1>18 DEF Backoff, Goto
  <1>19. ASSUME NEW k \in Key, FinishCancelled(k)
        PROVE  HandlersHoldItems'
    BY <1>19 DEF FinishCancelled, Goto, EndCancelled
  <1>20. ASSUME NEW k \in Key, FinishAuto(k)
        PROVE  HandlersHoldItems'
    BY <1>20 DEF FinishAuto, Goto
  <1>21. ASSUME NEW k \in Key, FinishRuled(k)
        PROVE  HandlersHoldItems'
    BY <1>21 DEF FinishRuled, Goto, EndRuled
  <1>22. ASSUME NEW k \in Key, Wrapup(k)
        PROVE  HandlersHoldItems'
    BY <1>22 DEF Wrapup, Goto
  <1>23. ASSUME NEW k \in Key, GraceEnds(k) \/ Overrun(k) \/ OverrunFails(k) \/ StopRun(k)
        PROVE  HandlersHoldItems'
    BY <1>23 DEF GraceEnds, Overrun, OverrunFails, StopRun
  <1>24. ASSUME NEW k \in Key, OverrunSettles(k)
        PROVE  HandlersHoldItems'
    BY <1>24 DEF OverrunSettles, SettleCancelled, EndCancelled
  <1>25. CASE Sweep \/ Restart
    BY <1>25 DEF Sweep, Restart, OpenAttempt
  <1>26. CASE Aside /\ (owed' = owed \/ \E k \in Key : owed' = owed \ {k})
    BY <1>26 DEF Aside
  <1> HIDE DEF HandlersHoldItems, Ws, TypeOK, Items, Pcs, SlotPcs
  <1> QED
    BY <1>1, <1>2, <1>3, <1>4, <1>5, <1>6, <1>7, <1>8, <1>9, <1>10, <1>11, <1>12, <1>13, <1>14,
       <1>15, <1>16, <1>17, <1>18, <1>19, <1>20, <1>21, <1>22, <1>23, <1>24, <1>25, <1>26, Steps DEF
       Cancelling

(* What is queued goes on having been made. *)
LEMMA QueuedStep ==
  ASSUME TypeOK, Consistent, [Next]_vars
  PROVE  QueuedWasMade'
  <1> USE KeyParts DEF QueuedWasMade, Consistent, ClaimedStaysClaimed, HandlersHoldItems,
          OpenAttempt, TypeOK, Open, Finished, JobStates, AttStates, Items, Pcs, SlotPcs, Outcomes,
          Endings, store, process, runs, bounds
  <1>1. ASSUME NEW j \in Job, Create(j)
        PROVE  QueuedWasMade'
    BY <1>1 DEF Create
  <1>2. ASSUME NEW j \in Job, Answer(j) \/ Retry(j)
        PROVE  QueuedWasMade'
    <2>1. CASE Answer(j)
      BY <2>1 DEF Answer, Requeue, KeysOf
    <2>2. CASE Retry(j)
      BY <2>2 DEF Retry, Requeue, KeysOf
    <2> QED
      BY <1>2, <2>1, <2>2
  <1>3. ASSUME NEW j \in Job, CancelJob(j)
        PROVE  QueuedWasMade'
    BY <1>3 DEF CancelJob
  <1>4. ASSUME NEW j \in Job, Purge(j)
        PROVE  QueuedWasMade'
    BY <1>4 DEF Purge
  <1>5. ASSUME NEW k \in Key, CancelWakes(k) \/ CancelLooks(k) \/ CancelStops(k) \/ CancelMarks(k)
        PROVE  QueuedWasMade'
    BY <1>5 DEF CancelWakes, CancelLooks, CancelStops, CancelMarks
  <1>6. ASSUME NEW k \in Key, Enqueue(k)
        PROVE  QueuedWasMade'
    BY <1>6 DEF Enqueue
  <1>7. ASSUME NEW k \in Key, HandOver(k)
        PROVE  QueuedWasMade'
    BY <1>7 DEF HandOver, Goto
  <1>8. ASSUME NEW k \in Key, LetsGo(k)
        PROVE  QueuedWasMade'
    BY <1>8 DEF LetsGo
  <1>9. ASSUME NEW k \in Key, GoesOn(k)
        PROVE  QueuedWasMade'
    BY <1>9 DEF GoesOn, Goto
  <1>10. ASSUME NEW k \in Key, ComesBack(k)
        PROVE  QueuedWasMade'
    BY <1>10 DEF ComesBack, Goto
  <1>11. ASSUME NEW k \in Key, Reap(k)
        PROVE  QueuedWasMade'
    BY <1>11 DEF Reap, Ack, SettleCancelled, EndCancelled, Leave
  <1>12. ASSUME NEW k \in Key, Claim(k)
        PROVE  QueuedWasMade'
    BY <1>12 DEF Claim, Goto, OpenAttempt
  <1>13. ASSUME NEW k \in Key, Register(k)
        PROVE  QueuedWasMade'
    BY <1>13 DEF Register, Goto
  <1>14. ASSUME NEW k \in Key, Look(k)
        PROVE  QueuedWasMade'
    BY <1>14 DEF Look, Goto
  <1>15. ASSUME NEW k \in Key, Call(k)
        PROVE  QueuedWasMade'
    BY <1>15 DEF Call, Goto
  <1>16. ASSUME NEW k \in Key, Forget(k)
        PROVE  QueuedWasMade'
    BY <1>16 DEF Forget, Goto
  <1>17. ASSUME NEW k \in Key, NoteTransient(k)
        PROVE  QueuedWasMade'
    BY <1>17 DEF NoteTransient, Goto
  <1>18. ASSUME NEW k \in Key, Backoff(k)
        PROVE  QueuedWasMade'
    BY <1>18 DEF Backoff, Goto
  <1>19. ASSUME NEW k \in Key, FinishCancelled(k)
        PROVE  QueuedWasMade'
    BY <1>19 DEF FinishCancelled, Goto, EndCancelled
  <1>20. ASSUME NEW k \in Key, FinishAuto(k)
        PROVE  QueuedWasMade'
    BY <1>20 DEF FinishAuto, Goto
  <1>21. ASSUME NEW k \in Key, FinishRuled(k)
        PROVE  QueuedWasMade'
    <2>1. \E att \in AttStates \ {"none"}, job \in Open \cup Finished : EndRuled(k, att, job)
      BY <1>21 DEF FinishRuled
    <2> QED
      BY <1>21, <2>1 DEF FinishRuled, EndRuled, Goto
  <1>22. ASSUME NEW k \in Key, Wrapup(k)
        PROVE  QueuedWasMade'
    BY <1>22 DEF Wrapup, Goto
  <1>23. ASSUME NEW k \in Key, GraceEnds(k) \/ Overrun(k) \/ OverrunFails(k) \/ StopRun(k)
        PROVE  QueuedWasMade'
    BY <1>23 DEF GraceEnds, Overrun, OverrunFails, StopRun
  <1>24. ASSUME NEW k \in Key, OverrunSettles(k)
        PROVE  QueuedWasMade'
    BY <1>24 DEF OverrunSettles, SettleCancelled, EndCancelled
  <1>25. CASE Sweep \/ Restart
    BY <1>25 DEF Sweep, Restart, OpenAttempt
  <1>26. CASE Aside /\ (owed' = owed \/ \E k \in Key : owed' = owed \ {k})
    BY <1>26 DEF Aside
  <1> HIDE DEF QueuedWasMade, Consistent, ClaimedStaysClaimed, HandlersHoldItems, TypeOK, Open,
           Finished, JobStates, AttStates, Items, Pcs, SlotPcs, Outcomes, Endings
  <1> QED
    BY <1>1, <1>2, <1>3, <1>4, <1>5, <1>6, <1>7, <1>8, <1>9, <1>10, <1>11, <1>12, <1>13, <1>14,
       <1>15, <1>16, <1>17, <1>18, <1>19, <1>20, <1>21, <1>22, <1>23, <1>24, <1>25, <1>26, Steps DEF
       Cancelling

(* Stops go on being of cancelled jobs. *)
LEMMA StopsStep ==
  ASSUME TypeOK, JobMatchesAttempt, Consistent, [Next]_vars
  PROVE  StopsAreCancels'
  <1> USE KeyParts DEF StopsAreCancels, Consistent, QueuedWasMade, OpenAttempt, TypeOK, Open,
          Finished, JobStates, AttStates, Items, Pcs, SlotPcs, Outcomes, Endings, store, process,
          runs, bounds
  <1>1. ASSUME NEW j \in Job, Create(j)
        PROVE  StopsAreCancels'
    BY <1>1 DEF Create
  <1>2. ASSUME NEW j \in Job, Answer(j) \/ Retry(j)
        PROVE  StopsAreCancels'
    BY <1>2 DEF Answer, Requeue, Retry
  <1>3. ASSUME NEW j \in Job, CancelJob(j)
        PROVE  StopsAreCancels'
    BY <1>3 DEF CancelJob, Running, KeysOf
  <1>4. ASSUME NEW j \in Job, Purge(j)
        PROVE  StopsAreCancels'
    BY <1>4 DEF Purge
  <1>5. ASSUME NEW k \in Key, CancelWakes(k) \/ CancelLooks(k) \/ CancelStops(k) \/ CancelMarks(k)
        PROVE  StopsAreCancels'
    BY <1>5 DEF CancelWakes, CancelLooks, CancelStops, CancelMarks
  <1>6. ASSUME NEW k \in Key, Enqueue(k)
        PROVE  StopsAreCancels'
    BY <1>6 DEF Enqueue
  <1>7. ASSUME NEW k \in Key, HandOver(k)
        PROVE  StopsAreCancels'
    BY <1>7 DEF HandOver, Goto
  <1>8. ASSUME NEW k \in Key, LetsGo(k)
        PROVE  StopsAreCancels'
    BY <1>8 DEF LetsGo
  <1>9. ASSUME NEW k \in Key, GoesOn(k)
        PROVE  StopsAreCancels'
    <2>1. CASE pc[k] = "plan" /\ attState[k] = "running" /\ ~OpenAttempt(k)
      <3>1. Last(k)
        BY <2>1, OpenIsLast
      <3>2. jobState[k[1]] \in {"cancelled", "purged"}
        BY <2>1, <3>1, KeyParts DEF JobMatchesAttempt, Made, OpenAttempt
      <3> QED
        BY <1>9, <2>1, <3>2 DEF GoesOn, Goto
    <2>2. CASE ~(pc[k] = "plan" /\ attState[k] = "running" /\ ~OpenAttempt(k))
      BY <1>9, <2>2 DEF GoesOn, Goto
    <2> QED
      BY <2>1, <2>2
  <1>10. ASSUME NEW k \in Key, ComesBack(k)
        PROVE  StopsAreCancels'
    BY <1>10 DEF ComesBack, Goto
  <1>11. ASSUME NEW k \in Key, Reap(k)
        PROVE  StopsAreCancels'
    BY <1>11 DEF Reap, Ack, SettleCancelled, EndCancelled, Leave
  <1>12. ASSUME NEW k \in Key, Claim(k)
        PROVE  StopsAreCancels'
    BY <1>12 DEF Claim, Goto, OpenAttempt
  <1>13. ASSUME NEW k \in Key, Register(k)
        PROVE  StopsAreCancels'
    BY <1>13 DEF Register, Goto
  <1>14. ASSUME NEW k \in Key, Look(k)
        PROVE  StopsAreCancels'
    BY <1>14 DEF Look, Goto
  <1>15. ASSUME NEW k \in Key, Call(k)
        PROVE  StopsAreCancels'
    BY <1>15 DEF Call, Goto
  <1>16. ASSUME NEW k \in Key, Forget(k)
        PROVE  StopsAreCancels'
    BY <1>16 DEF Forget, Goto
  <1>17. ASSUME NEW k \in Key, NoteTransient(k)
        PROVE  StopsAreCancels'
    BY <1>17 DEF NoteTransient, Goto
  <1>18. ASSUME NEW k \in Key, Backoff(k)
        PROVE  StopsAreCancels'
    BY <1>18 DEF Backoff, Goto
  <1>19. ASSUME NEW k \in Key, FinishCancelled(k)
        PROVE  StopsAreCancels'
    BY <1>19 DEF FinishCancelled, Goto, EndCancelled
  <1>20. ASSUME NEW k \in Key, FinishAuto(k)
        PROVE  StopsAreCancels'
    BY <1>20 DEF FinishAuto, Goto
  <1>21. ASSUME NEW k \in Key, FinishRuled(k)
        PROVE  StopsAreCancels'
    BY <1>21 DEF FinishRuled, Goto, EndRuled
  <1>22. ASSUME NEW k \in Key, Wrapup(k)
        PROVE  StopsAreCancels'
    BY <1>22 DEF Wrapup, Goto
  <1>23. ASSUME NEW k \in Key, GraceEnds(k) \/ Overrun(k) \/ OverrunFails(k) \/ StopRun(k)
        PROVE  StopsAreCancels'
    BY <1>23 DEF GraceEnds, Overrun, OverrunFails, StopRun
  <1>24. ASSUME NEW k \in Key, OverrunSettles(k)
        PROVE  StopsAreCancels'
    BY <1>24 DEF OverrunSettles, SettleCancelled, EndCancelled
  <1>25. CASE Sweep \/ Restart
    BY <1>25 DEF Sweep, Restart, OpenAttempt
  <1>26. CASE Aside /\ (owed' = owed \/ \E k \in Key : owed' = owed \ {k})
    BY <1>26 DEF Aside
  <1> HIDE DEF StopsAreCancels, Consistent, QueuedWasMade, TypeOK, Open, Finished, JobStates,
           AttStates, Items, Pcs, SlotPcs, Outcomes, Endings
  <1> QED
    BY <1>1, <1>2, <1>3, <1>4, <1>5, <1>6, <1>7, <1>8, <1>9, <1>10, <1>11, <1>12, <1>13, <1>14,
       <1>15, <1>16, <1>17, <1>18, <1>19, <1>20, <1>21, <1>22, <1>23, <1>24, <1>25, <1>26, Steps DEF
       Cancelling

(* A claimed attempt is not queued by another. *)
LEMMA ClaimedStep ==
  ASSUME TypeOK, JobMatchesAttempt, Consistent, [Next]_vars
  PROVE  ClaimedStaysClaimed'
  <1> USE KeyParts DEF ClaimedStaysClaimed, Consistent, HandlersHoldItems, QueuedWasMade,
          StopsAreCancels, OpenAttempt, TypeOK, Open, Finished, JobStates, AttStates, Items, Pcs,
          SlotPcs, Outcomes, Endings, store, process, runs, bounds
  <1>1. ASSUME NEW j \in Job, Create(j)
        PROVE  ClaimedStaysClaimed'
    BY <1>1, NewJob DEF Create
  <1>2. ASSUME NEW j \in Job, Answer(j) \/ Retry(j)
        PROVE  ClaimedStaysClaimed'
    <2>1. PICK n \in Key :
            /\ n[1] = j /\ item[n] = "none" /\ pc[n] = "idle"
            /\ \A i \in Key : attState'[i] = IF i = n THEN "queued" ELSE attState[i]
      BY <1>2, Requeued
    <2>2. /\ \A i \in Key : jobState'[i[1]] = IF i[1] = j THEN "queued" ELSE jobState[i[1]]
          /\ \A i \in Key : i[1] = j => attState[i] \notin {"queued", "running"}
      BY <1>2, Requeued
    <2>3. UNCHANGED <<item, pc, outcome, inflight, cause, overran, grace, wake, canceller>>
      BY <1>2, Requeued
    <2> QED
      BY <2>1, <2>2, <2>3
  <1>3. ASSUME NEW j \in Job, CancelJob(j)
        PROVE  ClaimedStaysClaimed'
    BY <1>3 DEF CancelJob
  <1>4. ASSUME NEW j \in Job, Purge(j)
        PROVE  ClaimedStaysClaimed'
    BY <1>4 DEF Purge
  <1>5. ASSUME NEW k \in Key, CancelWakes(k) \/ CancelLooks(k) \/ CancelStops(k) \/ CancelMarks(k)
        PROVE  ClaimedStaysClaimed'
    BY <1>5 DEF CancelWakes, CancelLooks, CancelStops, CancelMarks
  <1>6. ASSUME NEW k \in Key, Enqueue(k)
        PROVE  ClaimedStaysClaimed'
    BY <1>6 DEF Enqueue
  <1>7. ASSUME NEW k \in Key, HandOver(k)
        PROVE  ClaimedStaysClaimed'
    BY <1>7 DEF HandOver, Goto
  <1>8. ASSUME NEW k \in Key, LetsGo(k)
        PROVE  ClaimedStaysClaimed'
    BY <1>8 DEF LetsGo
  <1>9. ASSUME NEW k \in Key, GoesOn(k)
        PROVE  ClaimedStaysClaimed'
    <2>1. attState' = attState
      BY <1>9 DEF GoesOn
    <2>2. PICK to \in Pcs : pc' = [pc EXCEPT ![k] = to]
      BY <1>9 DEF GoesOn, Goto
    <2>3. pc'[k] \in SlotPcs \ {"claim"} => pc'[k] = "wrapup" /\ pc[k] = "returned" /\ attState[k] # "running"
      BY <1>9 DEF GoesOn, Goto
    <2>4. \A i \in Key : i # k => pc'[i] = pc[i]
      BY <2>2
    <2> QED
      BY <2>1, <2>3, <2>4
  <1>10. ASSUME NEW k \in Key, ComesBack(k)
        PROVE  ClaimedStaysClaimed'
    BY <1>10 DEF ComesBack, Goto
  <1>11. ASSUME NEW k \in Key, Reap(k)
        PROVE  ClaimedStaysClaimed'
    BY <1>11 DEF Reap, Ack, SettleCancelled, EndCancelled, Leave
  <1>12. ASSUME NEW k \in Key, Claim(k)
        PROVE  ClaimedStaysClaimed'
    BY <1>12 DEF Claim, Goto, OpenAttempt
  <1>13. ASSUME NEW k \in Key, Register(k)
        PROVE  ClaimedStaysClaimed'
    BY <1>13 DEF Register, Goto
  <1>14. ASSUME NEW k \in Key, Look(k)
        PROVE  ClaimedStaysClaimed'
    BY <1>14 DEF Look, Goto
  <1>15. ASSUME NEW k \in Key, Call(k)
        PROVE  ClaimedStaysClaimed'
    BY <1>15 DEF Call, Goto
  <1>16. ASSUME NEW k \in Key, Forget(k)
        PROVE  ClaimedStaysClaimed'
    BY <1>16 DEF Forget, Goto
  <1>17. ASSUME NEW k \in Key, NoteTransient(k)
        PROVE  ClaimedStaysClaimed'
    BY <1>17 DEF NoteTransient, Goto
  <1>18. ASSUME NEW k \in Key, Backoff(k)
        PROVE  ClaimedStaysClaimed'
    BY <1>18 DEF Backoff, Goto
  <1>19. ASSUME NEW k \in Key, FinishCancelled(k)
        PROVE  ClaimedStaysClaimed'
    BY <1>19 DEF FinishCancelled, Goto, EndCancelled
  <1>20. ASSUME NEW k \in Key, FinishAuto(k)
        PROVE  ClaimedStaysClaimed'
    <2>1. \A i \in Key : attState'[i] = CASE i = k -> "failed" [] i = Succ(k) -> "queued" [] OTHER -> attState[i]
      BY <1>20, Automatic
    <2>2. /\ Succ(k) \in Key /\ Succ(k)[1] = k[1] /\ Succ(k) # k
          /\ attState[Succ(k)] = "none" /\ item[Succ(k)] = "none" /\ pc[Succ(k)] = "idle"
      BY <1>20, Automatic
    <2> QED
      BY <1>20, <2>1, <2>2 DEF FinishAuto, Goto
  <1>21. ASSUME NEW k \in Key, FinishRuled(k)
        PROVE  ClaimedStaysClaimed'
    BY <1>21 DEF FinishRuled, Goto, EndRuled
  <1>22. ASSUME NEW k \in Key, Wrapup(k)
        PROVE  ClaimedStaysClaimed'
    BY <1>22 DEF Wrapup, Goto
  <1>23. ASSUME NEW k \in Key, GraceEnds(k) \/ Overrun(k) \/ OverrunFails(k) \/ StopRun(k)
        PROVE  ClaimedStaysClaimed'
    BY <1>23 DEF GraceEnds, Overrun, OverrunFails, StopRun
  <1>24. ASSUME NEW k \in Key, OverrunSettles(k)
        PROVE  ClaimedStaysClaimed'
    BY <1>24 DEF OverrunSettles, SettleCancelled, EndCancelled
  <1>25. CASE Sweep \/ Restart
    BY <1>25 DEF Sweep, Restart, OpenAttempt
  <1>26. CASE Aside /\ (owed' = owed \/ \E k \in Key : owed' = owed \ {k})
    BY <1>26 DEF Aside
  <1> HIDE DEF ClaimedStaysClaimed, Consistent, HandlersHoldItems, QueuedWasMade, StopsAreCancels,
           TypeOK, Open, Finished, JobStates, AttStates, Items, Pcs, SlotPcs, Outcomes, Endings
  <1> QED
    BY <1>1, <1>2, <1>3, <1>4, <1>5, <1>6, <1>7, <1>8, <1>9, <1>10, <1>11, <1>12, <1>13, <1>14,
       <1>15, <1>16, <1>17, <1>18, <1>19, <1>20, <1>21, <1>22, <1>23, <1>24, <1>25, <1>26, Steps DEF
       Cancelling

(* Waits go on being watched. *)
LEMMA WaitsStep ==
  ASSUME TypeOK, HandlersHoldItems, ClaimedStaysClaimed, QueuedWasMade, WaitsAreWatched, [Next]_vars
  PROVE  WaitsAreWatched'
  <1> USE KeyParts DEF WaitsAreWatched, HandlersHoldItems, ClaimedStaysClaimed, QueuedWasMade,
          TypeOK, Open, Finished, Pcs, SlotPcs, store, process, runs, bounds
  <1>1. ASSUME NEW j \in Job, Create(j)
        PROVE  WaitsAreWatched'
    BY <1>1 DEF Create
  <1>2. ASSUME NEW j \in Job, Answer(j) \/ Retry(j)
        PROVE  WaitsAreWatched'
    BY <1>2 DEF Answer, Requeue, Retry
  <1>3. ASSUME NEW j \in Job, CancelJob(j)
        PROVE  WaitsAreWatched'
    BY <1>3 DEF CancelJob
  <1>4. ASSUME NEW j \in Job, Purge(j)
        PROVE  WaitsAreWatched'
    BY <1>4 DEF Purge
  <1>5. ASSUME NEW k \in Key, CancelWakes(k) \/ CancelLooks(k) \/ CancelStops(k) \/ CancelMarks(k)
        PROVE  WaitsAreWatched'
    BY <1>5 DEF CancelWakes, CancelLooks, CancelStops, CancelMarks
  <1>6. ASSUME NEW k \in Key, Enqueue(k)
        PROVE  WaitsAreWatched'
    BY <1>6 DEF Enqueue
  <1>7. ASSUME NEW k \in Key, HandOver(k)
        PROVE  WaitsAreWatched'
    BY <1>7 DEF HandOver, Goto
  <1>8. ASSUME NEW k \in Key, LetsGo(k)
        PROVE  WaitsAreWatched'
    BY <1>8 DEF LetsGo
  <1>9. ASSUME NEW k \in Key, GoesOn(k)
        PROVE  WaitsAreWatched'
    BY <1>9 DEF GoesOn, Goto
  <1>10. ASSUME NEW k \in Key, ComesBack(k)
        PROVE  WaitsAreWatched'
    BY <1>10 DEF ComesBack, Goto
  <1>11. ASSUME NEW k \in Key, Reap(k)
        PROVE  WaitsAreWatched'
    BY <1>11 DEF Reap, Ack, SettleCancelled, EndCancelled, Leave
  <1>12. ASSUME NEW k \in Key, Claim(k)
        PROVE  WaitsAreWatched'
    BY <1>12 DEF Claim, Goto, OpenAttempt
  <1>13. ASSUME NEW k \in Key, Register(k)
        PROVE  WaitsAreWatched'
    BY <1>13 DEF Register, Goto
  <1>14. ASSUME NEW k \in Key, Look(k)
        PROVE  WaitsAreWatched'
    BY <1>14 DEF Look, Goto
  <1>15. ASSUME NEW k \in Key, Call(k)
        PROVE  WaitsAreWatched'
    BY <1>15 DEF Call, Goto
  <1>16. ASSUME NEW k \in Key, Forget(k)
        PROVE  WaitsAreWatched'
    BY <1>16 DEF Forget, Goto
  <1>17. ASSUME NEW k \in Key, NoteTransient(k)
        PROVE  WaitsAreWatched'
    <2>1. CASE UNCHANGED <<pc, wake>>
      BY <1>17, <2>1 DEF NoteTransient
    <2>2. CASE wake' = [wake EXCEPT ![k] = "watching"] /\ Goto(k, "backoff")
      BY <1>17, <2>2 DEF NoteTransient, Goto
    <2> QED
      BY <1>17, <2>1, <2>2 DEF NoteTransient
  <1>18. ASSUME NEW k \in Key, Backoff(k)
        PROVE  WaitsAreWatched'
    BY <1>18 DEF Backoff, Goto
  <1>19. ASSUME NEW k \in Key, FinishCancelled(k)
        PROVE  WaitsAreWatched'
    BY <1>19 DEF FinishCancelled, Goto, EndCancelled
  <1>20. ASSUME NEW k \in Key, FinishAuto(k)
        PROVE  WaitsAreWatched'
    BY <1>20 DEF FinishAuto, Goto
  <1>21. ASSUME NEW k \in Key, FinishRuled(k)
        PROVE  WaitsAreWatched'
    BY <1>21 DEF FinishRuled, Goto, EndRuled
  <1>22. ASSUME NEW k \in Key, Wrapup(k)
        PROVE  WaitsAreWatched'
    BY <1>22 DEF Wrapup, Goto
  <1>23. ASSUME NEW k \in Key, GraceEnds(k) \/ Overrun(k) \/ OverrunFails(k) \/ StopRun(k)
        PROVE  WaitsAreWatched'
    BY <1>23 DEF GraceEnds, Overrun, OverrunFails, StopRun
  <1>24. ASSUME NEW k \in Key, OverrunSettles(k)
        PROVE  WaitsAreWatched'
    BY <1>24 DEF OverrunSettles, SettleCancelled, EndCancelled
  <1>25. CASE Sweep \/ Restart
    BY <1>25 DEF Sweep, Restart, OpenAttempt
  <1>26. CASE Aside /\ (owed' = owed \/ \E k \in Key : owed' = owed \ {k})
    BY <1>26 DEF Aside
  <1> HIDE DEF WaitsAreWatched, HandlersHoldItems, ClaimedStaysClaimed, QueuedWasMade, TypeOK, Open,
           Finished, Pcs, SlotPcs
  <1> QED
    BY <1>1, <1>2, <1>3, <1>4, <1>5, <1>6, <1>7, <1>8, <1>9, <1>10, <1>11, <1>12, <1>13, <1>14,
       <1>15, <1>16, <1>17, <1>18, <1>19, <1>20, <1>21, <1>22, <1>23, <1>24, <1>25, <1>26, Steps DEF
       Cancelling

(* Runs go on being known. *)
LEMMA RunsStep ==
  ASSUME TypeOK, JobMatchesAttempt, Consistent, ToldOfCancel, [Next]_vars
  PROVE  RunsAreKnown'
  <1> USE KeyParts DEF RunsAreKnown, Consistent, ToldOfCancel, HandlersHoldItems, QueuedWasMade,
          StopsAreCancels, ClaimedStaysClaimed, OpenAttempt, Running, KeysOf, TypeOK, Open,
          Finished, JobStates, AttStates, Items, Pcs, SlotPcs, Outcomes, Endings, store, process,
          runs, bounds
  <1>1. ASSUME NEW j \in Job, Create(j)
        PROVE  RunsAreKnown'
    BY <1>1, NewJob DEF Create
  <1>2. ASSUME NEW j \in Job, Answer(j) \/ Retry(j)
        PROVE  RunsAreKnown'
    <2>1. PICK n \in Key :
            /\ n[1] = j /\ item[n] = "none" /\ pc[n] = "idle"
            /\ \A i \in Key : attState'[i] = IF i = n THEN "queued" ELSE attState[i]
      BY <1>2, Requeued
    <2>2. /\ jobState[j] \in {"blocked", "failed"}
          /\ \A i \in Job : jobState'[i] = IF i = j THEN "queued" ELSE jobState[i]
      BY <1>2, Requeued
    <2>3. UNCHANGED <<item, pc, outcome, inflight, cause, overran, grace, wake, canceller>>
      BY <1>2, Requeued
    <2>4. \A i \in Key : i[1] = j => pc[i] \notin {"register", "look", "call", "runner"}
      BY <2>2
    <2> QED
      BY <2>1, <2>2, <2>3, <2>4
  <1>3. ASSUME NEW j \in Job, CancelJob(j)
        PROVE  RunsAreKnown'
    BY <1>3 DEF CancelJob
  <1>4. ASSUME NEW j \in Job, Purge(j)
        PROVE  RunsAreKnown'
    BY <1>4 DEF Purge
  <1>5. ASSUME NEW k \in Key, CancelWakes(k) \/ CancelLooks(k) \/ CancelStops(k) \/ CancelMarks(k)
        PROVE  RunsAreKnown'
    <2>1. CASE CancelWakes(k)
      BY <2>1 DEF CancelWakes
    <2>2. CASE CancelLooks(k)
      BY <2>2 DEF CancelLooks
    <2>3. CASE CancelStops(k)
      BY <2>3 DEF CancelStops
    <2>4. CASE CancelMarks(k)
      BY <2>4 DEF CancelMarks
    <2> QED
      BY <1>5, <2>1, <2>2, <2>3, <2>4
  <1>6. ASSUME NEW k \in Key, Enqueue(k)
        PROVE  RunsAreKnown'
    BY <1>6 DEF Enqueue
  <1>7. ASSUME NEW k \in Key, HandOver(k)
        PROVE  RunsAreKnown'
    BY <1>7 DEF HandOver, Goto
  <1>8. ASSUME NEW k \in Key, LetsGo(k)
        PROVE  RunsAreKnown'
    BY <1>8 DEF LetsGo
  <1>9. ASSUME NEW k \in Key, GoesOn(k)
        PROVE  RunsAreKnown'
    BY <1>9 DEF GoesOn, Goto
  <1>10. ASSUME NEW k \in Key, ComesBack(k)
        PROVE  RunsAreKnown'
    BY <1>10 DEF ComesBack, Goto
  <1>11. ASSUME NEW k \in Key, Reap(k)
        PROVE  RunsAreKnown'
    BY <1>11 DEF Reap, Ack, SettleCancelled, EndCancelled, Leave
  <1>12. ASSUME NEW k \in Key, Claim(k)
        PROVE  RunsAreKnown'
    BY <1>12 DEF Claim, Goto, OpenAttempt
  <1>13. ASSUME NEW k \in Key, Register(k)
        PROVE  RunsAreKnown'
    BY <1>13 DEF Register, Goto
  <1>14. ASSUME NEW k \in Key, Look(k)
        PROVE  RunsAreKnown'
    BY <1>14 DEF Look, Goto
  <1>15. ASSUME NEW k \in Key, Call(k)
        PROVE  RunsAreKnown'
    BY <1>15 DEF Call, Goto
  <1>16. ASSUME NEW k \in Key, Forget(k)
        PROVE  RunsAreKnown'
    BY <1>16 DEF Forget, Goto
  <1>17. ASSUME NEW k \in Key, NoteTransient(k)
        PROVE  RunsAreKnown'
    BY <1>17 DEF NoteTransient, Goto
  <1>18. ASSUME NEW k \in Key, Backoff(k)
        PROVE  RunsAreKnown'
    <2>1. \A i \in Key : i[1] = k[1] => pc[i] \notin {"register", "look", "call", "runner"}
      BY <1>18, NoOtherRun DEF Backoff
    <2>2. \A i \in Key : i # k => attState'[i] = attState[i] /\ pc'[i] = pc[i]
      BY <1>18 DEF Backoff, Goto
    <2> QED
      BY <1>18, <2>1, <2>2 DEF Backoff, Goto
  <1>19. ASSUME NEW k \in Key, FinishCancelled(k)
        PROVE  RunsAreKnown'
    BY <1>19 DEF FinishCancelled, Goto, EndCancelled
  <1>20. ASSUME NEW k \in Key, FinishAuto(k)
        PROVE  RunsAreKnown'
    <2>1. \A i \in Key : i[1] = k[1] => pc[i] \notin {"register", "look", "call", "runner"}
      BY <1>20, NoOtherRun DEF FinishAuto
    <2>2. \A i \in Key : i[1] # k[1] => attState'[i] = attState[i] /\ jobState'[i[1]] = jobState[i[1]]
      BY <1>20, Automatic DEF FinishAuto
    <2>3. pc' = [pc EXCEPT ![k] = "wrapup"] /\ UNCHANGED <<inflight, cause, canceller>>
      BY <1>20 DEF FinishAuto, Goto
    <2> QED
      BY <1>20, <2>1, <2>2, <2>3
  <1>21. ASSUME NEW k \in Key, FinishRuled(k)
        PROVE  RunsAreKnown'
    <2>1. \A i \in Key : i[1] = k[1] => pc[i] \notin {"register", "look", "call", "runner"}
      BY <1>21, NoOtherRun DEF FinishRuled
    <2>2. \A i \in Key : i[1] # k[1] => attState'[i] = attState[i] /\ jobState'[i[1]] = jobState[i[1]]
      BY <1>21 DEF FinishRuled, EndRuled
    <2>3. pc' = [pc EXCEPT ![k] = "wrapup"] /\ UNCHANGED <<inflight, cause, canceller>>
      BY <1>21 DEF FinishRuled, Goto
    <2> QED
      BY <1>21, <2>1, <2>2, <2>3
  <1>22. ASSUME NEW k \in Key, Wrapup(k)
        PROVE  RunsAreKnown'
    BY <1>22 DEF Wrapup, Goto
  <1>23. ASSUME NEW k \in Key, GraceEnds(k) \/ Overrun(k) \/ OverrunFails(k) \/ StopRun(k)
        PROVE  RunsAreKnown'
    BY <1>23 DEF GraceEnds, Overrun, OverrunFails, StopRun
  <1>24. ASSUME NEW k \in Key, OverrunSettles(k)
        PROVE  RunsAreKnown'
    BY <1>24 DEF OverrunSettles, SettleCancelled, EndCancelled
  <1>25. CASE Sweep \/ Restart
    BY <1>25 DEF Sweep, Restart, OpenAttempt
  <1>26. CASE Aside /\ (owed' = owed \/ \E k \in Key : owed' = owed \ {k})
    BY <1>26 DEF Aside
  <1> HIDE DEF RunsAreKnown, Consistent, ToldOfCancel, HandlersHoldItems, QueuedWasMade,
           StopsAreCancels, ClaimedStaysClaimed, Running, KeysOf, TypeOK, Open, Finished, JobStates,
           AttStates, Items, Pcs, SlotPcs, Outcomes, Endings
  <1> QED
    BY <1>1, <1>2, <1>3, <1>4, <1>5, <1>6, <1>7, <1>8, <1>9, <1>10, <1>11, <1>12, <1>13, <1>14,
       <1>15, <1>16, <1>17, <1>18, <1>19, <1>20, <1>21, <1>22, <1>23, <1>24, <1>25, <1>26, Steps DEF
       Cancelling

(* No open attempt is let go of. *)
LEMMA LostStep ==
  ASSUME TypeOK, JobMatchesAttempt, Consistent, NoLostAttempt, [Next]_vars
  PROVE  NoLostAttempt'
  <1> USE KeyParts DEF NoLostAttempt, Consistent, ClaimedStaysClaimed, HandlersHoldItems,
          QueuedWasMade, StopsAreCancels, OpenAttempt, TypeOK, Open, Finished, JobStates, AttStates,
          Items, Pcs, SlotPcs, Outcomes, Endings, store, process, runs, bounds
  <1>1. ASSUME NEW j \in Job, Create(j)
        PROVE  NoLostAttempt'
    BY <1>1 DEF Create
  <1>2. ASSUME NEW j \in Job, Answer(j) \/ Retry(j)
        PROVE  NoLostAttempt'
    <2>1. PICK n \in Key :
            /\ n[1] = j /\ item[n] = "none" /\ pc[n] = "idle"
            /\ \A i \in Key : attState'[i] = IF i = n THEN "queued" ELSE attState[i]
      BY <1>2, Requeued
    <2>2. /\ \A i \in Key : jobState'[i[1]] = IF i[1] = j THEN "queued" ELSE jobState[i[1]]
          /\ \A i \in Key : i[1] = j => attState[i] \notin {"queued", "running"}
      BY <1>2, Requeued
    <2>3. UNCHANGED <<item, pc, outcome, inflight, cause, overran, grace, wake, canceller>>
      BY <1>2, Requeued
    <2> QED
      BY <2>1, <2>2, <2>3
  <1>3. ASSUME NEW j \in Job, CancelJob(j)
        PROVE  NoLostAttempt'
    BY <1>3 DEF CancelJob
  <1>4. ASSUME NEW j \in Job, Purge(j)
        PROVE  NoLostAttempt'
    BY <1>4 DEF Purge
  <1>5. ASSUME NEW k \in Key, CancelWakes(k) \/ CancelLooks(k) \/ CancelStops(k) \/ CancelMarks(k)
        PROVE  NoLostAttempt'
    BY <1>5 DEF CancelWakes, CancelLooks, CancelStops, CancelMarks
  <1>6. ASSUME NEW k \in Key, Enqueue(k)
        PROVE  NoLostAttempt'
    BY <1>6 DEF Enqueue
  <1>7. ASSUME NEW k \in Key, HandOver(k)
        PROVE  NoLostAttempt'
    BY <1>7 DEF HandOver, Goto
  <1>8. ASSUME NEW k \in Key, LetsGo(k)
        PROVE  NoLostAttempt'
    <2>1. CASE item' = [item EXCEPT ![k] = "ready"]
      BY <1>8, <2>1 DEF LetsGo
    <2>2. CASE item' = [item EXCEPT ![k] = "done"]
      <3>1. ~OpenAttempt(k)
        BY <1>8, <2>2 DEF LetsGo
      <3> QED
        BY <1>8, <2>2, <3>1 DEF LetsGo
    <2> QED
      BY <1>8, <2>1, <2>2 DEF LetsGo
  <1>9. ASSUME NEW k \in Key, GoesOn(k)
        PROVE  NoLostAttempt'
    BY <1>9 DEF GoesOn, Goto
  <1>10. ASSUME NEW k \in Key, ComesBack(k)
        PROVE  NoLostAttempt'
    BY <1>10 DEF ComesBack, Goto
  <1>11. ASSUME NEW k \in Key, Reap(k)
        PROVE  NoLostAttempt'
    BY <1>11 DEF Reap, Ack, SettleCancelled, EndCancelled, Leave
  <1>12. ASSUME NEW k \in Key, Claim(k)
        PROVE  NoLostAttempt'
    BY <1>12 DEF Claim, Goto, OpenAttempt
  <1>13. ASSUME NEW k \in Key, Register(k)
        PROVE  NoLostAttempt'
    BY <1>13 DEF Register, Goto
  <1>14. ASSUME NEW k \in Key, Look(k)
        PROVE  NoLostAttempt'
    BY <1>14 DEF Look, Goto
  <1>15. ASSUME NEW k \in Key, Call(k)
        PROVE  NoLostAttempt'
    BY <1>15 DEF Call, Goto
  <1>16. ASSUME NEW k \in Key, Forget(k)
        PROVE  NoLostAttempt'
    BY <1>16 DEF Forget, Goto
  <1>17. ASSUME NEW k \in Key, NoteTransient(k)
        PROVE  NoLostAttempt'
    BY <1>17 DEF NoteTransient, Goto
  <1>18. ASSUME NEW k \in Key, Backoff(k)
        PROVE  NoLostAttempt'
    BY <1>18 DEF Backoff, Goto
  <1>19. ASSUME NEW k \in Key, FinishCancelled(k)
        PROVE  NoLostAttempt'
    BY <1>19 DEF FinishCancelled, Goto, EndCancelled
  <1>20. ASSUME NEW k \in Key, FinishAuto(k)
        PROVE  NoLostAttempt'
    <2>1. \A i \in Key : attState'[i] = CASE i = k -> "failed" [] i = Succ(k) -> "queued" [] OTHER -> attState[i]
      BY <1>20, Automatic
    <2>2. /\ Succ(k) \in Key /\ Succ(k)[1] = k[1] /\ Succ(k) # k
          /\ attState[Succ(k)] = "none" /\ item[Succ(k)] = "none" /\ pc[Succ(k)] = "idle"
      BY <1>20, Automatic
    <2> QED
      BY <1>20, <2>1, <2>2 DEF FinishAuto, Goto
  <1>21. ASSUME NEW k \in Key, FinishRuled(k)
        PROVE  NoLostAttempt'
    BY <1>21 DEF FinishRuled, Goto, EndRuled
  <1>22. ASSUME NEW k \in Key, Wrapup(k)
        PROVE  NoLostAttempt'
    BY <1>22 DEF Wrapup, Goto
  <1>23. ASSUME NEW k \in Key, GraceEnds(k) \/ Overrun(k) \/ OverrunFails(k) \/ StopRun(k)
        PROVE  NoLostAttempt'
    BY <1>23 DEF GraceEnds, Overrun, OverrunFails, StopRun
  <1>24. ASSUME NEW k \in Key, OverrunSettles(k)
        PROVE  NoLostAttempt'
    BY <1>24 DEF OverrunSettles, SettleCancelled, EndCancelled
  <1>25. CASE Sweep \/ Restart
    BY <1>25 DEF Sweep, Restart, OpenAttempt
  <1>26. CASE Aside /\ (owed' = owed \/ \E k \in Key : owed' = owed \ {k})
    BY <1>26 DEF Aside
  <1> HIDE DEF NoLostAttempt, Consistent, ClaimedStaysClaimed, HandlersHoldItems, QueuedWasMade,
           StopsAreCancels, TypeOK, Open, Finished, JobStates, AttStates, Items, Pcs, SlotPcs,
           Outcomes, Endings
  <1> QED
    BY <1>1, <1>2, <1>3, <1>4, <1>5, <1>6, <1>7, <1>8, <1>9, <1>10, <1>11, <1>12, <1>13, <1>14,
       <1>15, <1>16, <1>17, <1>18, <1>19, <1>20, <1>21, <1>22, <1>23, <1>24, <1>25, <1>26, Steps DEF
       Cancelling

(* A runner of a cancelled job goes on being told. *)
LEMMA ToldStep ==
  ASSUME TypeOK, Consistent, ToldOfCancel, [Next]_vars
  PROVE  ToldOfCancel'
  <1> USE KeyParts DEF ToldOfCancel, RunsAreKnown, Consistent, HandlersHoldItems, QueuedWasMade,
          StopsAreCancels, OpenAttempt, Running, KeysOf, TypeOK, Open, Finished, JobStates,
          AttStates, Items, Pcs, SlotPcs, Outcomes, Endings, store, process, runs, bounds
  <1>1. ASSUME NEW j \in Job, Create(j)
        PROVE  ToldOfCancel'
    BY <1>1 DEF Create
  <1>2. ASSUME NEW j \in Job, Answer(j) \/ Retry(j)
        PROVE  ToldOfCancel'
    BY <1>2 DEF Answer, Requeue, Retry
  <1>3. ASSUME NEW j \in Job, CancelJob(j)
        PROVE  ToldOfCancel'
    BY <1>3 DEF CancelJob
  <1>4. ASSUME NEW j \in Job, Purge(j)
        PROVE  ToldOfCancel'
    BY <1>4 DEF Purge
  <1>5. ASSUME NEW k \in Key, CancelWakes(k) \/ CancelLooks(k) \/ CancelStops(k) \/ CancelMarks(k)
        PROVE  ToldOfCancel'
    BY <1>5 DEF CancelWakes, CancelLooks, CancelStops, CancelMarks
  <1>6. ASSUME NEW k \in Key, Enqueue(k)
        PROVE  ToldOfCancel'
    BY <1>6 DEF Enqueue
  <1>7. ASSUME NEW k \in Key, HandOver(k)
        PROVE  ToldOfCancel'
    BY <1>7 DEF HandOver, Goto
  <1>8. ASSUME NEW k \in Key, LetsGo(k)
        PROVE  ToldOfCancel'
    BY <1>8 DEF LetsGo
  <1>9. ASSUME NEW k \in Key, GoesOn(k)
        PROVE  ToldOfCancel'
    BY <1>9 DEF GoesOn, Goto
  <1>10. ASSUME NEW k \in Key, ComesBack(k)
        PROVE  ToldOfCancel'
    BY <1>10 DEF ComesBack, Goto
  <1>11. ASSUME NEW k \in Key, Reap(k)
        PROVE  ToldOfCancel'
    BY <1>11 DEF Reap, Ack, SettleCancelled, EndCancelled, Leave
  <1>12. ASSUME NEW k \in Key, Claim(k)
        PROVE  ToldOfCancel'
    BY <1>12 DEF Claim, Goto, OpenAttempt
  <1>13. ASSUME NEW k \in Key, Register(k)
        PROVE  ToldOfCancel'
    BY <1>13 DEF Register, Goto
  <1>14. ASSUME NEW k \in Key, Look(k)
        PROVE  ToldOfCancel'
    BY <1>14 DEF Look, Goto
  <1>15. ASSUME NEW k \in Key, Call(k)
        PROVE  ToldOfCancel'
    BY <1>15 DEF Call, Goto
  <1>16. ASSUME NEW k \in Key, Forget(k)
        PROVE  ToldOfCancel'
    BY <1>16 DEF Forget, Goto
  <1>17. ASSUME NEW k \in Key, NoteTransient(k)
        PROVE  ToldOfCancel'
    BY <1>17 DEF NoteTransient, Goto
  <1>18. ASSUME NEW k \in Key, Backoff(k)
        PROVE  ToldOfCancel'
    BY <1>18 DEF Backoff, Goto
  <1>19. ASSUME NEW k \in Key, FinishCancelled(k)
        PROVE  ToldOfCancel'
    BY <1>19 DEF FinishCancelled, Goto, EndCancelled
  <1>20. ASSUME NEW k \in Key, FinishAuto(k)
        PROVE  ToldOfCancel'
    BY <1>20 DEF FinishAuto, Goto
  <1>21. ASSUME NEW k \in Key, FinishRuled(k)
        PROVE  ToldOfCancel'
    BY <1>21 DEF FinishRuled, Goto, EndRuled
  <1>22. ASSUME NEW k \in Key, Wrapup(k)
        PROVE  ToldOfCancel'
    BY <1>22 DEF Wrapup, Goto
  <1>23. ASSUME NEW k \in Key, GraceEnds(k) \/ Overrun(k) \/ OverrunFails(k) \/ StopRun(k)
        PROVE  ToldOfCancel'
    BY <1>23 DEF GraceEnds, Overrun, OverrunFails, StopRun
  <1>24. ASSUME NEW k \in Key, OverrunSettles(k)
        PROVE  ToldOfCancel'
    BY <1>24 DEF OverrunSettles, SettleCancelled, EndCancelled
  <1>25. CASE Sweep \/ Restart
    BY <1>25 DEF Sweep, Restart, OpenAttempt
  <1>26. CASE Aside /\ (owed' = owed \/ \E k \in Key : owed' = owed \ {k})
    BY <1>26 DEF Aside
  <1> HIDE DEF ToldOfCancel, RunsAreKnown, Consistent, HandlersHoldItems, QueuedWasMade,
           StopsAreCancels, Running, KeysOf, TypeOK, Open, Finished, JobStates, AttStates, Items,
           Pcs, SlotPcs, Outcomes, Endings
  <1> QED
    BY <1>1, <1>2, <1>3, <1>4, <1>5, <1>6, <1>7, <1>8, <1>9, <1>10, <1>11, <1>12, <1>13, <1>14,
       <1>15, <1>16, <1>17, <1>18, <1>19, <1>20, <1>21, <1>22, <1>23, <1>24, <1>25, <1>26, Steps DEF
       Cancelling

(* A wait of a cancelled attempt goes on being woken. *)
LEMMA WokenStep ==
  ASSUME TypeOK, Consistent, JobMatchesAttempt, WokenByCancel, [Next]_vars
  PROVE  WokenByCancel'
  <1> USE KeyParts DEF WokenByCancel, WaitsAreWatched, Consistent, HandlersHoldItems, QueuedWasMade,
          StopsAreCancels, ClaimedStaysClaimed, OpenAttempt, Running, KeysOf, TypeOK, Open,
          Finished, JobStates, AttStates, Items, Pcs, SlotPcs, Outcomes, Endings, store, process,
          runs, bounds
  <1>1. ASSUME NEW j \in Job, Create(j)
        PROVE  WokenByCancel'
    BY <1>1 DEF Create
  <1>2. ASSUME NEW j \in Job, Answer(j) \/ Retry(j)
        PROVE  WokenByCancel'
    BY <1>2 DEF Answer, Requeue, Retry
  <1>3. ASSUME NEW j \in Job, CancelJob(j)
        PROVE  WokenByCancel'
    <2> SUFFICES ASSUME NEW k \in Key, pc[k] = "paused", attState'[k] = "cancelled"
                 PROVE  wake[k] = "woken" \/ canceller'[k] = "wake"
      BY <1>3 DEF CancelJob
    <2>1. CASE attState[k] = "cancelled"
      BY <1>3, <2>1 DEF CancelJob
    <2>2. CASE k[1] = j /\ attState[k] = "queued"
      <3>1. Last(k) /\ Running(j) = {}
        BY <2>2, OpenIsLast, OneActive
      <3> QED
        BY <1>3, <2>2, <3>1 DEF CancelJob
    <2> QED
      BY <1>3, <2>1, <2>2 DEF CancelJob
  <1>4. ASSUME NEW j \in Job, Purge(j)
        PROVE  WokenByCancel'
    BY <1>4 DEF Purge
  <1>5. ASSUME NEW k \in Key, CancelWakes(k) \/ CancelLooks(k) \/ CancelStops(k) \/ CancelMarks(k)
        PROVE  WokenByCancel'
    BY <1>5 DEF CancelWakes, CancelLooks, CancelStops, CancelMarks
  <1>6. ASSUME NEW k \in Key, Enqueue(k)
        PROVE  WokenByCancel'
    BY <1>6 DEF Enqueue
  <1>7. ASSUME NEW k \in Key, HandOver(k)
        PROVE  WokenByCancel'
    BY <1>7 DEF HandOver, Goto
  <1>8. ASSUME NEW k \in Key, LetsGo(k)
        PROVE  WokenByCancel'
    BY <1>8 DEF LetsGo
  <1>9. ASSUME NEW k \in Key, GoesOn(k)
        PROVE  WokenByCancel'
    BY <1>9 DEF GoesOn, Goto
  <1>10. ASSUME NEW k \in Key, ComesBack(k)
        PROVE  WokenByCancel'
    BY <1>10 DEF ComesBack, Goto
  <1>11. ASSUME NEW k \in Key, Reap(k)
        PROVE  WokenByCancel'
    BY <1>11 DEF Reap, Ack, SettleCancelled, EndCancelled, Leave
  <1>12. ASSUME NEW k \in Key, Claim(k)
        PROVE  WokenByCancel'
    BY <1>12 DEF Claim, Goto, OpenAttempt
  <1>13. ASSUME NEW k \in Key, Register(k)
        PROVE  WokenByCancel'
    BY <1>13 DEF Register, Goto
  <1>14. ASSUME NEW k \in Key, Look(k)
        PROVE  WokenByCancel'
    BY <1>14 DEF Look, Goto
  <1>15. ASSUME NEW k \in Key, Call(k)
        PROVE  WokenByCancel'
    BY <1>15 DEF Call, Goto
  <1>16. ASSUME NEW k \in Key, Forget(k)
        PROVE  WokenByCancel'
    BY <1>16 DEF Forget, Goto
  <1>17. ASSUME NEW k \in Key, NoteTransient(k)
        PROVE  WokenByCancel'
    BY <1>17 DEF NoteTransient, Goto
  <1>18. ASSUME NEW k \in Key, Backoff(k)
        PROVE  WokenByCancel'
    BY <1>18 DEF Backoff, Goto
  <1>19. ASSUME NEW k \in Key, FinishCancelled(k)
        PROVE  WokenByCancel'
    BY <1>19 DEF FinishCancelled, Goto, EndCancelled
  <1>20. ASSUME NEW k \in Key, FinishAuto(k)
        PROVE  WokenByCancel'
    BY <1>20 DEF FinishAuto, Goto
  <1>21. ASSUME NEW k \in Key, FinishRuled(k)
        PROVE  WokenByCancel'
    BY <1>21 DEF FinishRuled, Goto, EndRuled
  <1>22. ASSUME NEW k \in Key, Wrapup(k)
        PROVE  WokenByCancel'
    BY <1>22 DEF Wrapup, Goto
  <1>23. ASSUME NEW k \in Key, GraceEnds(k) \/ Overrun(k) \/ OverrunFails(k) \/ StopRun(k)
        PROVE  WokenByCancel'
    BY <1>23 DEF GraceEnds, Overrun, OverrunFails, StopRun
  <1>24. ASSUME NEW k \in Key, OverrunSettles(k)
        PROVE  WokenByCancel'
    BY <1>24 DEF OverrunSettles, SettleCancelled, EndCancelled
  <1>25. CASE Sweep \/ Restart
    BY <1>25 DEF Sweep, Restart, OpenAttempt
  <1>26. CASE Aside /\ (owed' = owed \/ \E k \in Key : owed' = owed \ {k})
    BY <1>26 DEF Aside
  <1> HIDE DEF WokenByCancel, WaitsAreWatched, Consistent, HandlersHoldItems, QueuedWasMade,
           StopsAreCancels, ClaimedStaysClaimed, Running, KeysOf, TypeOK, Open, Finished, JobStates,
           AttStates, Items, Pcs, SlotPcs, Outcomes, Endings
  <1> QED
    BY <1>1, <1>2, <1>3, <1>4, <1>5, <1>6, <1>7, <1>8, <1>9, <1>10, <1>11, <1>12, <1>13, <1>14,
       <1>15, <1>16, <1>17, <1>18, <1>19, <1>20, <1>21, <1>22, <1>23, <1>24, <1>25, <1>26, Steps DEF
       Cancelling

-----------------------------------------------------------------------------
(* The slots. *)

Slotted == {k \in Key : pc[k] \in SlotPcs}

(* There are finitely many attempts. *)
LEMMA KeyFinite == IsFiniteSet(Key)
  <1>1. IsFiniteSet(1..MaxAttempts)
    BY FS_Interval
  <1> QED
    BY <1>1, FS_Product DEF Key

(* The slots go on being enough. *)
LEMMA SlotsStep ==
  ASSUME TypeOK, SlotBound, [Next]_vars
  PROVE  SlotBound'
  <1> USE DEF TypeOK, Pcs, SlotPcs
  <1>1. IsFiniteSet(Slotted) /\ Cardinality(Slotted) \in Nat /\ Cardinality(Slotted) <= Slots
    BY KeyFinite, FS_Subset, FS_CardinalityType DEF Slotted, SlotBound
  <1>2. ASSUME Slotted' \subseteq Slotted
        PROVE  SlotBound'
    <2>1. Cardinality(Slotted') <= Cardinality(Slotted) /\ Cardinality(Slotted') \in Nat
      BY <1>1, <1>2, FS_Subset, FS_CardinalityType
    <2> QED
      BY <1>1, <2>1 DEF Slotted, SlotBound
  <1>3. ASSUME NEW k \in Key, pc[k] \in SlotPcs \/ pc'[k] \notin SlotPcs,
               pc' = [pc EXCEPT ![k] = pc'[k]]
        PROVE  SlotBound'
    BY <1>2, <1>3 DEF Slotted
  <1>4. ASSUME NEW k \in Key, GoesOn(k)
        PROVE  SlotBound'
    <2>1. CASE pc[k] = "slot" /\ Goto(k, "claim") /\ Cardinality(Slotted) < Slots
      <3>1. Slotted' = Slotted \cup {k} /\ k \notin Slotted
        BY <2>1 DEF Slotted, Goto
      <3>2. Cardinality(Slotted') = Cardinality(Slotted) + 1
        BY <1>1, <3>1, FS_AddElement
      <3> QED
        BY <1>1, <2>1, <3>2 DEF Slotted, SlotBound
    <2>2. CASE ~(pc[k] = "slot" /\ Goto(k, "claim") /\ Cardinality(Slotted) < Slots)
      <3>1. Slotted' \subseteq Slotted
        BY <1>4, <2>2 DEF GoesOn, Goto, Slotted
      <3> QED
        BY <1>2, <3>1
    <2> QED
      BY <2>1, <2>2
  <1>5. ASSUME NEW k \in Key, HandOver(k) \/ LetsGo(k) \/ ComesBack(k) \/ Reap(k)
        PROVE  SlotBound'
    BY <1>3, <1>5 DEF HandOver, LetsGo, ComesBack, Reap, Ack, Leave, Goto
  <1>6. ASSUME NEW k \in Key,
               \/ Claim(k) \/ Register(k) \/ Look(k) \/ Call(k) \/ Forget(k) \/ NoteTransient(k)
               \/ Backoff(k) \/ FinishCancelled(k) \/ FinishAuto(k) \/ FinishRuled(k) \/ Wrapup(k)
        PROVE  SlotBound'
    <2>1. pc[k] \in SlotPcs
      BY <1>6 DEF Claim, Register, Look, Call, Forget, NoteTransient, Backoff, FinishCancelled,
                  FinishAuto, FinishRuled, Wrapup
    <2>2. UNCHANGED pc \/ \E to \in Pcs : pc' = [pc EXCEPT ![k] = to]
      BY <1>6 DEF Claim, Register, Look, Call, Forget, NoteTransient, Backoff, FinishCancelled,
                  FinishAuto, FinishRuled, Wrapup, Goto
    <2> QED
      BY <1>3, <2>1, <2>2
  <1>7. CASE UNCHANGED pc
    BY <1>2, <1>7 DEF Slotted
  <1>8. ASSUME NEW j \in Job, Create(j) \/ Answer(j) \/ Retry(j) \/ CancelJob(j) \/ Purge(j)
        PROVE  UNCHANGED pc
    BY <1>8 DEF Create, Answer, Retry, Requeue, CancelJob, Purge, process
  <1>9. ASSUME NEW k \in Key, \/ Cancelling(k) \/ Enqueue(k) \/ GraceEnds(k) \/ Overrun(k)
                              \/ OverrunSettles(k) \/ OverrunFails(k) \/ StopRun(k)
        PROVE  UNCHANGED pc
    BY <1>9 DEF Cancelling, CancelWakes, CancelLooks, CancelStops, CancelMarks, Enqueue, GraceEnds,
                Overrun, OverrunSettles, OverrunFails, StopRun
  <1>10. CASE Restart
    <2>1. Slotted' = {}
      BY <1>10 DEF Restart, Slotted
    <2> QED
      BY <1>2, <2>1
  <1>11. Aside \/ Sweep => UNCHANGED pc
    BY DEF Aside, Sweep
  <1> HIDE DEF TypeOK
  <1> QED
    BY <1>4, <1>5, <1>6, <1>7, <1>8, <1>9, <1>10, <1>11, Steps

-----------------------------------------------------------------------------
(* The theorems. *)

(* The invariants of the runs that hold of one state, with what makes them inductive. *)
IndInv ==
  /\ TypeOK /\ Consistent
  /\ JobMatchesAttempt /\ AtRestAgrees /\ OneOpenPerTopic
  /\ NoLostAttempt /\ ToldOfCancel /\ WokenByCancel

(* Initially there is neither a row nor an item nor a handler. *)
LEMMA IndInit == Init => IndInv
  <1> SUFFICES ASSUME Init
               PROVE  IndInv
    OBVIOUS
  <1> USE KeyParts DEF Init
  <1>1. TypeOK
    BY TypeInit
  <1>2. HandlersHoldItems /\ QueuedWasMade
    BY DEF HandlersHoldItems, QueuedWasMade
  <1>3. StopsAreCancels /\ ClaimedStaysClaimed
    BY DEF StopsAreCancels, ClaimedStaysClaimed, SlotPcs
  <1>4. WaitsAreWatched /\ RunsAreKnown
    BY DEF WaitsAreWatched, RunsAreKnown
  <1>5. JobMatchesAttempt /\ AtRestAgrees /\ OneOpenPerTopic
    BY DEF JobMatchesAttempt, Made, AtRestAgrees, Finished, OneOpenPerTopic, Open
  <1>6. NoLostAttempt /\ ToldOfCancel /\ WokenByCancel
    BY DEF NoLostAttempt, OpenAttempt, ToldOfCancel, WokenByCancel
  <1> QED
    BY <1>1, <1>2, <1>3, <1>4, <1>5, <1>6 DEF IndInv, Consistent

(* Every step keeps the whole. *)
LEMMA IndStep ==
  ASSUME IndInv, [Next]_vars
  PROVE  IndInv'
  <1> USE DEF IndInv
  <1>1. TypeOK'
    BY TypeStep
  <1>2. HandlersHoldItems' /\ QueuedWasMade' /\ StopsAreCancels'
    BY HandlersStep, QueuedStep, StopsStep DEF Consistent
  <1>3. ClaimedStaysClaimed' /\ WaitsAreWatched' /\ RunsAreKnown'
    BY ClaimedStep, WaitsStep, RunsStep DEF Consistent
  <1>4. JobMatchesAttempt' /\ AtRestAgrees' /\ OneOpenPerTopic'
    BY MatchesStep, RestsStep, TopicStep
  <1>5. NoLostAttempt' /\ ToldOfCancel' /\ WokenByCancel'
    BY LostStep, ToldStep, WokenStep
  <1> QED
    BY <1>1, <1>2, <1>3, <1>4, <1>5 DEF Consistent

(* What the handlers, the cancels and the queue rely on between two of their transactions *)
(* holds in every reachable state, whatever fails and whenever the process is killed.     *)
THEOREM Inductive == Spec => []IndInv
  <1> QED
    BY IndInit, IndStep, PTL DEF Spec

(* The six facts that the handlers, the cancels and the queue leave each other. *)
THEOREM StaysConsistent == Spec => []Consistent
  <1>1. IndInv => Consistent
    BY DEF IndInv
  <1> QED
    BY <1>1, Inductive, PTL

(* A workspace has one attempt in a runner at a time, one that overran its cancel included *)
(* (ADR 07: two would write one clone and one issue).                                      *)
THEOREM OneHandler == Spec => []OneHandlerPerWorkspace
  <1>1. IndInv => OneHandlerPerWorkspace
    BY DEF IndInv, Consistent, HandlersHoldItems, OneHandlerPerWorkspace
  <1> QED
    BY <1>1, Inductive, PTL

(* No attempt that is open is lost by the queue: shutdowns, crashes, failures of the store, *)
(* backoffs and late results hand it back, or leave it to the sweep.                        *)
THEOREM NoneLost == Spec => []NoLostAttempt
  <1>1. IndInv => NoLostAttempt
    BY DEF IndInv
  <1> QED
    BY <1>1, Inductive, PTL

(* The state of a job agrees with its last attempt, in every order of claims, ends, cancels, *)
(* answers, retries and purges.                                                              *)
THEOREM RowsAgree == Spec => [](JobMatchesAttempt /\ AtRestAgrees)
  <1>1. IndInv => JobMatchesAttempt /\ AtRestAgrees
    BY DEF IndInv
  <1> QED
    BY <1>1, Inductive, PTL

(* At most one open job of a kind for an issue, whoever creates, answers and retries. *)
THEOREM OneOpen == Spec => []OneOpenPerTopic
  <1>1. IndInv => OneOpenPerTopic
    BY DEF IndInv
  <1> QED
    BY <1>1, Inductive, PTL

(* A cancel is not missed, neither by a runner that is called while the job is cancelled nor *)
(* by a handler that waits out a backoff.                                                    *)
THEOREM CancelReaches == Spec => [](ToldOfCancel /\ WokenByCancel)
  <1>1. IndInv => ToldOfCancel /\ WokenByCancel
    BY DEF IndInv
  <1> QED
    BY <1>1, Inductive, PTL

(* No more attempts are in a runner than there are slots, though a handler gives its slot up *)
(* for a backoff and takes another.                                                          *)
THEOREM SlotsSuffice == Spec => []SlotBound
  <1>1. Init => SlotBound
    <2>1. Init => {k \in Key : pc[k] \in SlotPcs} = {}
      BY DEF Init, SlotPcs
    <2> QED
      BY <2>1, FS_EmptySet DEF SlotBound
  <1>2. TypeOK /\ SlotBound /\ [Next]_vars => SlotBound'
    BY SlotsStep
  <1> QED
    BY <1>1, <1>2, Types, PTL DEF Spec

(* What an attempt ended as is never changed, but by the purge of its job. *)
THEOREM EndsStay == Spec => EndedStays
  <1>1. IndInv /\ [Next]_vars =>
          \A k \in Key : attState[k] \in {"done", "needs_human", "failed", "cancelled"} =>
                         attState'[k] \in {attState[k], "none"}
    BY EndedStep DEF IndInv
  <1> QED
    BY <1>1, Inductive, PTL DEF Spec, EndedStays

-----------------------------------------------------------------------------
(* The rounds of automatic attempts. *)

(* An automatic attempt has a row, and is not the first of its job. *)
AutoFollows == \A k \in Key : trigger[k] = "auto" => attState[k] # "none" /\ k[2] # 1

(* What makes an attempt automatic is the end of the one before it, and nothing else does; *)
(* an automatic attempt keeps its row as long as it has that trigger.                      *)
NoneAutomatic ==
  \A i \in Key : trigger'[i] = "auto" => trigger[i] = "auto" /\ (attState[i] # "none" => attState'[i] # "none")

(* A step makes no attempt automatic, unless it is such an end. *)
LEMMA AutoFrame ==
  ASSUME TypeOK, [Next]_vars
  PROVE  NoneAutomatic \/ \E k \in Key : FinishAuto(k)
  <1> USE KeyParts DEF NoneAutomatic, TypeOK, AttStates, Triggers
  <1>1. ASSUME NEW j \in Job, Create(j)
        PROVE  NoneAutomatic
    BY <1>1, FirstKey DEF Create, InsertAttempt
  <1>2. ASSUME NEW j \in Job, Answer(j)
        PROVE  NoneAutomatic
    BY <1>2 DEF Answer, Requeue, InsertAttempt, KeysOf
  <1>3. ASSUME NEW j \in Job, Retry(j)
        PROVE  NoneAutomatic
    BY <1>3 DEF Retry, Requeue, InsertAttempt, KeysOf
  <1>4. ASSUME NEW j \in Job, CancelJob(j) \/ Purge(j) \/ TryEnds(j) \/ Abandon(j)
        PROVE  NoneAutomatic
    BY <1>4 DEF CancelJob, Purge, TryEnds, Abandon
  <1>5. ASSUME NEW k \in Key, Claim(k) \/ Backoff(k) \/ FinishCancelled(k)
        PROVE  NoneAutomatic
    BY <1>5 DEF Claim, Backoff, FinishCancelled, EndCancelled
  <1>6. ASSUME NEW k \in Key, FinishRuled(k)
        PROVE  NoneAutomatic
    BY <1>6 DEF FinishRuled, EndRuled
  <1>7. ASSUME NEW k \in Key, Reap(k) \/ OverrunSettles(k)
        PROVE  NoneAutomatic
    BY <1>7 DEF Reap, OverrunSettles, SettleCancelled, EndCancelled
  <1>8. ASSUME NEW k \in Key, CancelMarks(k) \/ Call(k) \/ NoteTransient(k) \/ RunnerReports(k)
        PROVE  NoneAutomatic
    BY <1>8 DEF CancelMarks, Call, NoteTransient, RunnerReports
  <1>9. CASE UNCHANGED store
    BY <1>9 DEF store
  <1> HIDE DEF NoneAutomatic, TypeOK, AttStates, Triggers
  <1> QED
    BY <1>1, <1>2, <1>3, <1>4, <1>5, <1>6, <1>7, <1>8, <1>9, StoreFrame

(* Automatic attempts go on following another. *)
LEMMA AutoStep ==
  ASSUME TypeOK, Consistent, JobMatchesAttempt, AutoFollows, [Next]_vars
  PROVE  AutoFollows'
  <1>1. ASSUME NEW k \in Key, FinishAuto(k)
        PROVE  AutoFollows'
    <2>0. trigger' = [trigger EXCEPT ![Succ(k)] = "auto"]
      BY <1>1 DEF FinishAuto, InsertAttempt
    <2>1. Succ(k) \in Key /\ Succ(k)[2] # 1
      BY <1>1, Automatic, KeyParts
    <2>2. \A i \in Key : attState[i] # "none" \/ i = Succ(k) => attState'[i] # "none"
      BY <1>1, Automatic
    <2> QED
      BY <2>0, <2>1, <2>2 DEF AutoFollows, TypeOK
  <1> QED
    BY <1>1, AutoFrame DEF AutoFollows, NoneAutomatic

(* The attempts of the round of an attempt are at least those that follow one another *)
(* automatically up to it, with the one they began with.                              *)
LEMMA RoundHolds ==
  ASSUME NEW k \in Key, NEW n \in 1..k[2],
         \A m \in (k[2] - n + 2)..k[2] : trigger[<<k[1], m>>] = "auto"
  PROVE  n <= RoundSize(k)
  <1> DEFINE Round == {m \in 1..k[2] : \A i \in (m + 1)..k[2] : trigger[<<k[1], i>>] = "auto"}
             Tail == (k[2] - n + 1)..k[2]
  <1>1. k[2] \in Nat /\ n \in Nat /\ 1 <= n /\ n <= k[2]
    BY KeyParts
  <1>2. Tail \subseteq Round
    BY <1>1
  <1>3. IsFiniteSet(1..k[2])
    BY <1>1, FS_Interval
  <1>4. IsFiniteSet(Round)
    BY <1>3, FS_Subset
  <1>5. Cardinality(Tail) = n
    BY <1>1, FS_Interval
  <1>6. Cardinality(Tail) <= Cardinality(Round)
    BY <1>2, <1>4, FS_Subset
  <1> QED
    BY <1>5, <1>6 DEF RoundSize

(* The longest round goes on bounding the automatic attempts in a row. *)
LEMMA RoundStep ==
  ASSUME TypeOK, Consistent, JobMatchesAttempt, AutoFollows, RoundBound, [Next]_vars
  PROVE  RoundBound'
  <1>0. \A max \in RoundLimits : max \in Nat /\ max >= 1
    OBVIOUS
  <1>1. ASSUME \A i \in Key : trigger'[i] = "auto" => trigger[i] = "auto"
        PROVE  RoundBound'
    <2> SUFFICES ASSUME NEW k \in Key
                 PROVE  \E max \in RoundLimits :
                          \E i \in 0..(max - 1) : i < k[2] => trigger'[<<k[1], k[2] - i>>] # "auto"
      BY DEF RoundBound
    <2>0. PICK max \in RoundLimits : \E i \in 0..(max - 1) : i < k[2] => trigger[<<k[1], k[2] - i>>] # "auto"
      BY DEF RoundBound
    <2>1. PICK i \in 0..(max - 1) : i < k[2] => trigger[<<k[1], k[2] - i>>] # "auto"
      BY <2>0
    <2>2. i < k[2] => <<k[1], k[2] - i>> \in Key
      BY <1>0, <2>1, KeyParts DEF Key
    <2> QED
      BY <1>1, <2>1, <2>2
  <1>2. ASSUME NEW k \in Key, FinishAuto(k)
        PROVE  RoundBound'
    <2>1. PICK limit \in RoundLimits : RoundSize(k) < limit
      BY <1>2 DEF FinishAuto
    <2>2. PICK n \in Key : n = Succ(k)
      BY <1>2, Automatic
    <2>3. n[1] = k[1] /\ n[2] = k[2] + 1 /\ trigger' = [trigger EXCEPT ![n] = "auto"]
      BY <1>2, <2>2, KeyParts DEF FinishAuto, InsertAttempt
    <2> SUFFICES ASSUME NEW i \in Key
                 PROVE  \E max \in RoundLimits :
                          \E d \in 0..(max - 1) : d < i[2] => trigger'[<<i[1], i[2] - d>>] # "auto"
      BY DEF RoundBound
    <2>4. CASE i = n
      <3> SUFFICES ASSUME \A d \in 0..(limit - 1) : d < n[2] /\ trigger'[<<n[1], n[2] - d>>] = "auto"
                   PROVE  FALSE
        BY <2>4
      <3>1. limit \in Nat /\ limit >= 1 /\ k[2] \in Nat /\ k[2] >= 1 /\ n[2] = k[2] + 1
        BY <1>0, <2>3, KeyParts DEF Key
      <3>2. limit - 1 < n[2]
        <4>1. limit - 1 \in 0..(limit - 1)
          BY <3>1
        <4> QED
          BY <4>1
      <3>3. \A d \in 1..(limit - 1) : trigger[<<k[1], k[2] + 1 - d>>] = "auto"
        <4> TAKE d \in 1..(limit - 1)
        <4>1. d \in 0..(limit - 1) /\ n[2] - d = k[2] + 1 - d
          BY <3>1
        <4>2. trigger'[<<k[1], k[2] + 1 - d>>] = "auto"
          BY <2>3, <4>1
        <4>3. k[2] + 1 - d # n[2]
          BY <3>1
        <4>4. <<k[1], k[2] + 1 - d>> \in Key
          BY <3>1, <3>2, KeyParts DEF Key
        <4>5. <<k[1], k[2] + 1 - d>> # n
          BY <4>3
        <4> QED
          BY <2>3, <4>2, <4>4, <4>5 DEF TypeOK
      <3>4. limit # n[2]
        <4> SUFFICES ASSUME limit = k[2] + 1
                     PROVE  FALSE
          BY <3>1
        <4>1. k[2] \in 1..(limit - 1) /\ k[2] + 1 - k[2] = 1
          BY <3>1
        <4>2. trigger[<<k[1], 1>>] = "auto"
          BY <3>3, <4>1
        <4> QED
          BY <4>2, KeyParts, FirstKey DEF AutoFollows
      <3>5. limit \in 1..k[2]
        BY <3>1, <3>2, <3>4
      <3>6. \A m \in (k[2] - limit + 2)..k[2] : trigger[<<k[1], m>>] = "auto"
        <4> TAKE m \in (k[2] - limit + 2)..k[2]
        <4>1. k[2] + 1 - m \in 1..(limit - 1) /\ k[2] + 1 - (k[2] + 1 - m) = m
          BY <3>1
        <4> QED
          BY <3>3, <4>1
      <3>7. limit <= RoundSize(k)
        BY <3>5, <3>6, RoundHolds
      <3>8. RoundSize(k) \in Nat
        <4>1. IsFiniteSet(1..k[2])
          BY <3>1, FS_Interval
        <4> QED
          BY <4>1, FS_Subset, FS_CardinalityType DEF RoundSize
      <3> QED
        BY <2>1, <3>1, <3>7, <3>8
    <2>5. CASE i # n
      <3>0. PICK max \in RoundLimits : \E d \in 0..(max - 1) : d < i[2] => trigger[<<i[1], i[2] - d>>] # "auto"
        BY DEF RoundBound
      <3>1. PICK d \in 0..(max - 1) : d < i[2] => trigger[<<i[1], i[2] - d>>] # "auto"
        BY <3>0
      <3>2. CASE d < i[2] /\ <<i[1], i[2] - d>> = n
        <4>1. PICK e \in 0..(max - 1) : e = 0
          BY <1>0
        <4>2. i[1] = n[1] /\ n[2] < i[2]
          BY <2>5, <3>2, KeyParts, <1>0
        <4>3. attState[i] = "none"
          <5>1. Last(k)
            BY <1>2, Automatic
          <5>2. ~(i[2] <= k[2])
            BY <2>3, <4>2, KeyParts
          <5> QED
            BY <2>3, <4>2, <5>1, <5>2 DEF Last, KeysOf, Made
        <4>4. trigger'[i] # "auto"
          BY <2>3, <2>5, <4>3 DEF AutoFollows, TypeOK
        <4>5. <<i[1], i[2] - e>> = i
          BY <4>1, KeyParts
        <4> QED
          BY <4>1, <4>4, <4>5
      <3>3. CASE d < i[2] /\ <<i[1], i[2] - d>> # n
        <4>1. <<i[1], i[2] - d>> \in Key
          BY <1>0, <3>3, KeyParts DEF Key
        <4> QED
          BY <2>3, <3>1, <3>3, <4>1 DEF TypeOK
      <3>4. CASE ~(d < i[2])
        BY <3>1, <3>4
      <3> QED
        BY <3>2, <3>3, <3>4
    <2> QED
      BY <2>4, <2>5
  <1> QED
    BY <1>1, <1>2, AutoFrame DEF NoneAutomatic

(* However attempts fail and jobs are retried, the automatic attempts in a row are fewer *)
(* than the longest round a runner allows.                                               *)
THEOREM RoundsEnd == Spec => []RoundBound
  <1> DEFINE Rounds == AutoFollows /\ RoundBound
  <1>1. Init => Rounds
    <2> SUFFICES ASSUME Init
                 PROVE  Rounds
      OBVIOUS
    <2>1. \A k \in Key : trigger[k] = "create"
      BY DEF Init
    <2>2. PICK max \in RoundLimits : max \in 1..10
      OBVIOUS
    <2>3. \A k \in Key : <<k[1], k[2] - 0>> = k
      BY KeyParts
    <2>4. 0 \in 0..(max - 1)
      BY <2>2
    <2>5. RoundBound
      BY <2>1, <2>3, <2>4 DEF RoundBound
    <2> QED
      BY <2>1, <2>5 DEF AutoFollows
  <1>2. IndInv /\ Rounds /\ [Next]_vars => Rounds'
    BY AutoStep, RoundStep DEF IndInv
  <1>3. Rounds => RoundBound
    OBVIOUS
  <1> QED
    BY <1>1, <1>2, <1>3, Inductive, PTL DEF Spec

-----------------------------------------------------------------------------
(* The cleanups. *)

(* The last attempts of the jobs that a step leaves alone stay the last. *)
LEMMA LastElsewhere ==
  ASSUME NEW j \in Job, \A i \in Key : i[1] # j => attState'[i] = attState[i]
  PROVE  \A i \in Key : i[1] # j => (Last(i)' <=> Last(i))
  <1> SUFFICES ASSUME NEW i \in Key, i[1] # j
               PROVE  Last(i)' <=> Last(i)
    OBVIOUS
  <1>1. KeysOf(i[1]) \cap Made' = KeysOf(i[1]) \cap Made
    BY DEF KeysOf, Made
  <1>2. i \in Made' <=> i \in Made
    BY DEF Made
  <1> QED
    BY <1>1, <1>2 DEF Last, KeysOf

(* A cleanup that is owed goes on being marked. *)
LEMMA OwedStep ==
  ASSUME TypeOK, Consistent, JobMatchesAttempt, CleanupOwed, [Next]_vars
  PROVE  CleanupOwed'
  <1> USE KeyParts DEF Open, Finished, JobStates
  <1>0. /\ jobState \in [Job -> JobStates] /\ attState \in [Key -> AttStates]
        /\ session \in [Key -> BOOLEAN] /\ wanted \in [Job -> BOOLEAN]
        /\ cleanup \in [Job -> Cleanups] /\ atRest \in [Job -> BOOLEAN]
    BY DEF TypeOK
  <1>1. ASSUME NEW j \in Job, jobState'[j] # "cancelled",
               \A i \in Job \ {j} : /\ jobState'[i] = jobState[i] /\ wanted'[i] = wanted[i]
                                    /\ cleanup'[i] = cleanup[i] /\ atRest'[i] = atRest[i],
               \A i \in Key : i[1] # j => attState'[i] = attState[i] /\ session'[i] = session[i]
        PROVE  CleanupOwed'
    BY <1>1, LastElsewhere DEF CleanupOwed
  <1>2. ASSUME NEW j \in Job, Create(j)
        PROVE  CleanupOwed'
    BY <1>0, <1>1, <1>2, FirstKey DEF Create
  <1>3. ASSUME NEW j \in Job, Answer(j) \/ Retry(j)
        PROVE  CleanupOwed'
    <2>1. \A i \in Key : i[1] # j => attState'[i] = attState[i]
      BY <1>3, Requeued
    <2>2. /\ jobState' = [jobState EXCEPT ![j] = "queued"] /\ atRest' = [atRest EXCEPT ![j] = FALSE]
          /\ UNCHANGED <<session, wanted, cleanup>>
      BY <1>3 DEF Answer, Retry, Requeue
    <2> QED
      BY <1>0, <1>1, <2>1, <2>2
  <1>4. ASSUME NEW j \in Job, Purge(j)
        PROVE  CleanupOwed'
    <2>1. \A i \in Key : i[1] # j => attState'[i] = attState[i] /\ session'[i] = session[i]
      BY <1>0, <1>4 DEF Purge
    <2>2. /\ jobState'[j] # "cancelled"
          /\ \A i \in Job \ {j} : /\ jobState'[i] = jobState[i] /\ wanted'[i] = wanted[i]
                                  /\ cleanup'[i] = cleanup[i] /\ atRest'[i] = atRest[i]
      BY <1>0, <1>4 DEF Purge
    <2> QED
      BY <1>1, <2>1, <2>2
  <1>5. ASSUME NEW k \in Key, Claim(k)
        PROVE  CleanupOwed'
    BY <1>0, <1>1, <1>5 DEF Claim
  <1>6. ASSUME NEW k \in Key, Backoff(k)
        PROVE  CleanupOwed'
    BY <1>0, <1>1, <1>6 DEF Backoff
  <1>7. ASSUME NEW k \in Key, FinishAuto(k)
        PROVE  CleanupOwed'
    <2>1. \A i \in Key : i[1] # k[1] => attState'[i] = attState[i]
      BY <1>7, Automatic
    <2> QED
      BY <1>0, <1>1, <1>7, <2>1 DEF FinishAuto
  <1>8. ASSUME NEW k \in Key, FinishRuled(k)
        PROVE  CleanupOwed'
    <2>1. PICK att \in {"done", "needs_human", "failed"}, job \in {"done", "blocked", "failed"} : EndRuled(k, att, job)
      BY <1>8 DEF FinishRuled
    <2> QED
      BY <1>0, <1>1, <1>8, <2>1 DEF EndRuled, FinishRuled
  <1>9. ASSUME NEW j \in Job, CancelJob(j)
        PROVE  CleanupOwed'
    <2>1. \A i \in Key : i[1] # j => attState'[i] = attState[i]
      BY <1>9 DEF CancelJob
    <2>2. \A i \in Key : i[1] # j => (Last(i)' <=> Last(i))
      BY <2>1, LastElsewhere
    <2>3. wanted'[j] /\ atRest'[j] => cleanup'[j] = "pending"
      BY <1>0, <1>9 DEF CancelJob
    <2>4. \A i \in Job \ {j} : /\ jobState'[i] = jobState[i] /\ wanted'[i] = wanted[i]
                               /\ cleanup'[i] = cleanup[i] /\ atRest'[i] = atRest[i]
      BY <1>0, <1>9 DEF CancelJob
    <2> QED
      BY <1>9, <2>2, <2>3, <2>4 DEF CleanupOwed, CancelJob
  <1>10. ASSUME UNCHANGED <<attState, jobState, wanted, atRest>>,
                \A i \in Key : session[i] => session'[i],
                \A j \in Job : cleanup[j] # "none" => cleanup'[j] # "none"
         PROVE  CleanupOwed'
    BY <1>10, LastStays DEF CleanupOwed, Made
  <1>11. ASSUME NEW j \in Job, TryEnds(j) \/ Abandon(j)
         PROVE  CleanupOwed'
    BY <1>0, <1>10, <1>11 DEF TryEnds, Abandon
  <1>12. ASSUME NEW k \in Key, CancelMarks(k) \/ Call(k) \/ NoteTransient(k) \/ RunnerReports(k)
         PROVE  CleanupOwed'
    BY <1>0, <1>10, <1>12 DEF CancelMarks, Call, NoteTransient, RunnerReports
  <1>13. ASSUME NEW k \in Key, attState[k] = "running", EndCancelled(k), UNCHANGED <<session, wanted>>
         PROVE  CleanupOwed'
    <2>1. Last(k)
      BY <1>13, OpenIsLast
    <2>2. \A i \in Key : Last(i)' <=> Last(i)
      BY <1>0, <1>13, LastStays DEF EndCancelled, Made
    <2>3. \A i \in Key : i[1] = k[1] /\ Last(i) => i = k
      BY <2>1, OneLast
    <2>4. wanted[k[1]] /\ ~session[k] => cleanup'[k[1]] # "none"
      BY <1>0, <1>13 DEF EndCancelled, MarksCleanup
    <2> QED
      BY <1>0, <1>13, <2>2, <2>3, <2>4 DEF CleanupOwed, EndCancelled
  <1>14. ASSUME NEW k \in Key, Reap(k) \/ OverrunSettles(k) \/ FinishCancelled(k)
         PROVE  CleanupOwed'
    <2>1. CASE attState[k] = "running"
      BY <1>13, <1>14, <2>1 DEF Reap, OverrunSettles, FinishCancelled, SettleCancelled
    <2>2. CASE attState[k] # "running"
      BY <1>10, <1>14, <2>2 DEF Reap, OverrunSettles, FinishCancelled, SettleCancelled
    <2> QED
      BY <2>1, <2>2
  <1>15. CASE UNCHANGED store
    BY <1>10, <1>15 DEF store
  <1> HIDE DEF Open, Finished, JobStates
  <1> QED
    BY <1>2, <1>3, <1>4, <1>5, <1>6, <1>7, <1>8, <1>9, <1>11, <1>12, <1>14, <1>15, StoreFrame

(* The cleanup of a cancelled job is marked at the latest when the job comes to rest, by its *)
(* cancel or by the end of its attempt, unless the runner of its last attempt may have put   *)
(* the labels back.                                                                          *)
THEOREM CleanupsMarked == Spec => []CleanupOwed
  <1>1. Init => CleanupOwed
    BY KeyParts DEF Init, CleanupOwed
  <1>2. IndInv /\ CleanupOwed /\ [Next]_vars => CleanupOwed'
    BY OwedStep DEF IndInv
  <1> QED
    BY <1>1, <1>2, Inductive, PTL DEF Spec

-----------------------------------------------------------------------------
(* The runs, again: what the cleanups and the purge rely on. *)

(* A run is in flight exactly while its handler is past its registration, its runner was  *)
(* called if it is at work, a cancel has nothing to do yet with one that is claimed only, *)
(* and a job that was purged has none.                                                    *)
RunsAreHeld ==
  /\ \A k \in Key : pc[k] = "register" =>
       attState[k] = "running" /\ k \notin inflight /\ canceller[k] # "stop" /\ grace[k] = "off"
  /\ \A k \in Key : k \in inflight => pc[k] \in {"look", "call", "runner", "forget"}
  /\ \A k \in Key : pc[k] = "runner" => k \in called
  /\ \A k \in Key : jobState[k[1]] = "purged" =>
       pc[k] \notin {"register", "look", "call", "runner", "forget"}

(* Runs go on being held. *)
LEMMA HeldStep ==
  ASSUME TypeOK, JobMatchesAttempt, Consistent, RunsAreHeld, [Next]_vars
  PROVE  RunsAreHeld'
  <1> USE KeyParts DEF RunsAreHeld, Consistent, HandlersHoldItems, QueuedWasMade, StopsAreCancels,
          RunsAreKnown, OpenAttempt, Running, RunnerInProgress, KeysOf, TypeOK, Open, Finished,
          JobStates, AttStates, store, process, runs
  <1>1. ASSUME NEW j \in Job, Create(j)
        PROVE  RunsAreHeld'
    BY <1>1, NewJob DEF Create
  <1>2. ASSUME NEW j \in Job, Answer(j) \/ Retry(j)
        PROVE  RunsAreHeld'
    <2>1. PICK n \in Key :
            /\ n[1] = j /\ pc[n] = "idle"
            /\ \A i \in Key : attState'[i] = IF i = n THEN "queued" ELSE attState[i]
      BY <1>2, Requeued
    <2>2. \A i \in Job : jobState'[i] = IF i = j THEN "queued" ELSE jobState[i]
      BY <1>2, Requeued
    <2>3. UNCHANGED <<pc, inflight, called, grace, canceller>>
      BY <1>2 DEF Answer, Retry, Requeue
    <2> QED
      BY <2>1, <2>2, <2>3
  <1>3. ASSUME NEW j \in Job, CancelJob(j)
        PROVE  RunsAreHeld'
    BY <1>3 DEF CancelJob
  <1>4. ASSUME NEW j \in Job, Purge(j)
        PROVE  RunsAreHeld'
    BY <1>4 DEF Purge
  <1>5. ASSUME NEW k \in Key, CancelWakes(k) \/ CancelLooks(k) \/ CancelStops(k) \/ CancelMarks(k)
        PROVE  RunsAreHeld'
    <2>1. CASE CancelWakes(k)
      BY <2>1 DEF CancelWakes
    <2>2. CASE CancelLooks(k)
      BY <2>2 DEF CancelLooks
    <2>3. CASE CancelStops(k)
      BY <2>3 DEF CancelStops
    <2>4. CASE CancelMarks(k)
      BY <2>4 DEF CancelMarks
    <2> QED
      BY <1>5, <2>1, <2>2, <2>3, <2>4
  <1>6. ASSUME NEW k \in Key, Enqueue(k)
        PROVE  RunsAreHeld'
    BY <1>6 DEF Enqueue
  <1>7. ASSUME NEW k \in Key, HandOver(k)
        PROVE  RunsAreHeld'
    BY <1>7 DEF HandOver, Goto
  <1>8. ASSUME NEW k \in Key, LetsGo(k)
        PROVE  RunsAreHeld'
    BY <1>8 DEF LetsGo
  <1>9. ASSUME NEW k \in Key, GoesOn(k)
        PROVE  RunsAreHeld'
    <2>1. /\ pc[k] \notin {"register", "look", "call", "runner", "forget"}
          /\ \E to \in {"reap", "slot", "claim", "wrapup"} : pc' = [pc EXCEPT ![k] = to]
      BY <1>9 DEF GoesOn, Goto
    <2> QED
      BY <1>9, <2>1 DEF GoesOn
  <1>10. ASSUME NEW k \in Key, ComesBack(k)
        PROVE  RunsAreHeld'
    BY <1>10 DEF ComesBack, Goto
  <1>11. ASSUME NEW k \in Key, Reap(k)
        PROVE  RunsAreHeld'
    BY <1>11 DEF Reap, Ack, SettleCancelled, EndCancelled, Leave
  <1>12. ASSUME NEW k \in Key, Claim(k)
        PROVE  RunsAreHeld'
    BY <1>12 DEF Claim, Goto, OpenAttempt
  <1>13. ASSUME NEW k \in Key, Register(k)
        PROVE  RunsAreHeld'
    BY <1>13 DEF Register, Goto
  <1>14. ASSUME NEW k \in Key, Look(k)
        PROVE  RunsAreHeld'
    BY <1>14 DEF Look, Goto
  <1>15. ASSUME NEW k \in Key, Call(k)
        PROVE  RunsAreHeld'
    BY <1>15 DEF Call, Goto
  <1>16. ASSUME NEW k \in Key, Forget(k)
        PROVE  RunsAreHeld'
    BY <1>16 DEF Forget, Goto
  <1>17. ASSUME NEW k \in Key, NoteTransient(k)
        PROVE  RunsAreHeld'
    <2>1. UNCHANGED pc \/ (pc[k] = "returned" /\ pc' = [pc EXCEPT ![k] = "backoff"])
      BY <1>17 DEF NoteTransient, Goto
    <2>2. UNCHANGED <<jobState, attState, inflight, called, grace, canceller>>
      BY <1>17 DEF NoteTransient
    <2> QED
      BY <2>1, <2>2
  <1>18. ASSUME NEW k \in Key, Backoff(k)
        PROVE  RunsAreHeld'
    BY <1>18 DEF Backoff, Goto
  <1>19. ASSUME NEW k \in Key, FinishCancelled(k)
        PROVE  RunsAreHeld'
    BY <1>19 DEF FinishCancelled, Goto, EndCancelled
  <1>20. ASSUME NEW k \in Key, FinishAuto(k)
        PROVE  RunsAreHeld'
    <2>1. \A i \in Key : i # k /\ pc[i] # "idle" => attState'[i] = attState[i]
      BY <1>20, Automatic
    <2>2. /\ pc[k] = "returned" /\ pc' = [pc EXCEPT ![k] = "wrapup"]
          /\ jobState' = [jobState EXCEPT ![k[1]] = "queued"]
          /\ UNCHANGED <<inflight, called, grace, canceller>>
      BY <1>20 DEF FinishAuto, Goto
    <2> QED
      BY <2>1, <2>2
  <1>21. ASSUME NEW k \in Key, FinishRuled(k)
        PROVE  RunsAreHeld'
    <2>1. PICK att \in {"done", "needs_human", "failed"}, job \in {"done", "blocked", "failed"} : EndRuled(k, att, job)
      BY <1>21 DEF FinishRuled
    <2> QED
      BY <1>21, <2>1 DEF FinishRuled, Goto, EndRuled
  <1>22. ASSUME NEW k \in Key, Wrapup(k)
        PROVE  RunsAreHeld'
    BY <1>22 DEF Wrapup, Goto
  <1>23. ASSUME NEW k \in Key, GraceEnds(k) \/ Overrun(k) \/ OverrunFails(k) \/ StopRun(k)
        PROVE  RunsAreHeld'
    BY <1>23 DEF GraceEnds, Overrun, OverrunFails, StopRun
  <1>24. ASSUME NEW k \in Key, OverrunSettles(k)
        PROVE  RunsAreHeld'
    BY <1>24 DEF OverrunSettles, SettleCancelled, EndCancelled
  <1>25. CASE Sweep \/ Restart
    BY <1>25 DEF Sweep, Restart
  <1>26. CASE Aside /\ (owed' = owed \/ \E k \in Key : owed' = owed \ {k})
    BY <1>26 DEF Aside
  <1> HIDE DEF RunsAreHeld, Consistent, HandlersHoldItems, QueuedWasMade, StopsAreCancels, RunsAreKnown,
           Running, KeysOf, TypeOK, Open, Finished, JobStates, AttStates
  <1> QED
    BY <1>1, <1>2, <1>3, <1>4, <1>5, <1>6, <1>7, <1>8, <1>9, <1>10, <1>11, <1>12, <1>13, <1>14,
       <1>15, <1>16, <1>17, <1>18, <1>19, <1>20, <1>21, <1>22, <1>23, <1>24, <1>25, <1>26, Steps DEF
       Cancelling

(* A runner is at work on the attempt, or is about to be called. *)
MayRun(k) == pc[k] = "runner" \/ (pc[k] = "call" /\ cause[k] = "none")

(* Only the attempt of a job that runs comes that far, *)
ComesFar == \A i \in Key : MayRun(i)' => MayRun(i) \/ jobState[i[1]] = "running"

(* at every step. *)
LEMMA MayRunFrame ==
  ASSUME TypeOK, Consistent, RunsAreHeld, [Next]_vars
  PROVE  ComesFar
  <1> USE KeyParts DEF ComesFar, MayRun, RunsAreHeld, Consistent, RunsAreKnown, TypeOK, process, runs
  <1>1. ASSUME NEW j \in Job, Create(j)
        PROVE  ComesFar
    BY <1>1 DEF Create
  <1>2. ASSUME NEW j \in Job, Answer(j) \/ Retry(j)
        PROVE  ComesFar
    BY <1>2 DEF Answer, Retry, Requeue
  <1>3. ASSUME NEW j \in Job, CancelJob(j)
        PROVE  ComesFar
    BY <1>3 DEF CancelJob
  <1>4. ASSUME NEW j \in Job, Purge(j)
        PROVE  ComesFar
    BY <1>4 DEF Purge
  <1>5. ASSUME NEW k \in Key, CancelWakes(k) \/ CancelLooks(k) \/ CancelStops(k) \/ CancelMarks(k)
        PROVE  ComesFar
    <2>1. CASE CancelWakes(k)
      BY <2>1 DEF CancelWakes
    <2>2. CASE CancelLooks(k)
      BY <2>2 DEF CancelLooks
    <2>3. CASE CancelStops(k)
      BY <2>3 DEF CancelStops
    <2>4. CASE CancelMarks(k)
      BY <2>4 DEF CancelMarks
    <2> QED
      BY <1>5, <2>1, <2>2, <2>3, <2>4
  <1>6. ASSUME NEW k \in Key, Enqueue(k)
        PROVE  ComesFar
    BY <1>6 DEF Enqueue
  <1>7. ASSUME NEW k \in Key, HandOver(k)
        PROVE  ComesFar
    BY <1>7 DEF HandOver, Goto
  <1>8. ASSUME NEW k \in Key, LetsGo(k)
        PROVE  ComesFar
    BY <1>8 DEF LetsGo
  <1>9. ASSUME NEW k \in Key, GoesOn(k)
        PROVE  ComesFar
    <2>1. \E to \in {"reap", "slot", "claim", "wrapup"} : pc' = [pc EXCEPT ![k] = to]
      BY <1>9 DEF GoesOn, Goto
    <2> QED
      BY <1>9, <2>1 DEF GoesOn
  <1>10. ASSUME NEW k \in Key, ComesBack(k)
        PROVE  ComesFar
    BY <1>10 DEF ComesBack, Goto
  <1>11. ASSUME NEW k \in Key, Reap(k)
        PROVE  ComesFar
    BY <1>11 DEF Reap, Ack, SettleCancelled, EndCancelled, Leave
  <1>12. ASSUME NEW k \in Key, Claim(k)
        PROVE  ComesFar
    BY <1>12 DEF Claim, Goto, OpenAttempt
  <1>13. ASSUME NEW k \in Key, Register(k)
        PROVE  ComesFar
    BY <1>13 DEF Register, Goto
  <1>14. ASSUME NEW k \in Key, Look(k)
        PROVE  ComesFar
    BY <1>14 DEF Look, Goto
  <1>15. ASSUME NEW k \in Key, Call(k)
        PROVE  ComesFar
    BY <1>15 DEF Call, Goto
  <1>16. ASSUME NEW k \in Key, Forget(k)
        PROVE  ComesFar
    BY <1>16 DEF Forget, Goto
  <1>17. ASSUME NEW k \in Key, NoteTransient(k)
        PROVE  ComesFar
    BY <1>17 DEF NoteTransient, Goto
  <1>18. ASSUME NEW k \in Key, Backoff(k)
        PROVE  ComesFar
    BY <1>18 DEF Backoff, Goto
  <1>19. ASSUME NEW k \in Key, FinishCancelled(k)
        PROVE  ComesFar
    BY <1>19 DEF FinishCancelled, Goto, EndCancelled
  <1>20. ASSUME NEW k \in Key, FinishAuto(k)
        PROVE  ComesFar
    BY <1>20 DEF FinishAuto, Goto
  <1>21. ASSUME NEW k \in Key, FinishRuled(k)
        PROVE  ComesFar
    BY <1>21 DEF FinishRuled, Goto
  <1>22. ASSUME NEW k \in Key, Wrapup(k)
        PROVE  ComesFar
    BY <1>22 DEF Wrapup, Goto
  <1>23. ASSUME NEW k \in Key, GraceEnds(k) \/ Overrun(k) \/ OverrunFails(k) \/ StopRun(k)
        PROVE  ComesFar
    BY <1>23 DEF GraceEnds, Overrun, OverrunFails, StopRun
  <1>24. ASSUME NEW k \in Key, OverrunSettles(k)
        PROVE  ComesFar
    BY <1>24 DEF OverrunSettles, SettleCancelled, EndCancelled
  <1>25. CASE Sweep \/ Restart
    BY <1>25 DEF Sweep, Restart
  <1>26. CASE Aside /\ (owed' = owed \/ \E k \in Key : owed' = owed \ {k})
    BY <1>26 DEF Aside
  <1> HIDE DEF ComesFar, MayRun, RunsAreHeld, Consistent, RunsAreKnown, TypeOK
  <1> QED
    BY <1>1, <1>2, <1>3, <1>4, <1>5, <1>6, <1>7, <1>8, <1>9, <1>10, <1>11, <1>12, <1>13, <1>14,
       <1>15, <1>16, <1>17, <1>18, <1>19, <1>20, <1>21, <1>22, <1>23, <1>24, <1>25, <1>26, Steps DEF
       Cancelling

-----------------------------------------------------------------------------
(* The cleanups, and who may run beside them. *)

(* A job that is over, and no runner of which is at work or will be. *)
Quiet(j) == jobState[j] \in {"cancelled", "purged"} /\ \A k \in KeysOf(j) : ~MayRun(k)

(* A cleanup is of a cancelled job, its tries are made while the job is quiet, and so it is  *)
(* when a cancel is about to start the first; a cancel that is at its attempt has no other   *)
(* runner of the job to mind.                                                                *)
CleanupsAreQuiet ==
  /\ \A j \in Job : cleanup[j] # "none" => jobState[j] = "cancelled"
  /\ \A j \in tries : Quiet(j)
  /\ \A k \in Key : canceller[k] \in {"wake", "mark"} => Quiet(k[1])
  /\ \A k \in Key : canceller[k] # "idle" => \A i \in KeysOf(k[1]) \ {k} : ~MayRun(i)

(* A cancelled job stays cancelled until it is purged, and no runner of it is called again. *)
LEMMA QuietStays ==
  ASSUME TypeOK, Consistent, JobMatchesAttempt, RunsAreHeld, [Next]_vars
  PROVE  /\ \A j \in Job : jobState[j] \in {"cancelled", "purged"} => jobState'[j] \in {"cancelled", "purged"}
         /\ \A j \in Job : Quiet(j) => Quiet(j)'
  <1>1. \A j \in Job : jobState[j] \in {"cancelled", "purged"} => jobState'[j] \in {"cancelled", "purged"}
    <2> SUFFICES ASSUME NEW i \in Job, jobState[i] \in {"cancelled", "purged"}
                 PROVE  jobState'[i] \in {"cancelled", "purged"}
      OBVIOUS
    <2>0. jobState \in [Job -> JobStates]
      BY DEF TypeOK
    <2> USE KeyParts DEF Open, Finished
    <2>1. ASSUME NEW j \in Job, Create(j) \/ CancelJob(j) \/ Purge(j)
          PROVE  jobState'[i] \in {"cancelled", "purged"}
      BY <2>0, <2>1 DEF Create, CancelJob, Purge
    <2>2. ASSUME NEW j \in Job, Answer(j) \/ Retry(j)
          PROVE  jobState'[i] \in {"cancelled", "purged"}
      BY <2>0, <2>2 DEF Answer, Retry, Requeue
    <2>3. ASSUME NEW k \in Key, Claim(k) \/ Backoff(k) \/ FinishCancelled(k) \/ FinishAuto(k)
          PROVE  jobState'[i] \in {"cancelled", "purged"}
      BY <2>0, <2>3 DEF Claim, OpenAttempt, Backoff, FinishCancelled, EndCancelled, FinishAuto
    <2>4. ASSUME NEW k \in Key, FinishRuled(k)
          PROVE  jobState'[i] \in {"cancelled", "purged"}
      BY <2>0, <2>4 DEF FinishRuled, EndRuled
    <2>5. ASSUME NEW k \in Key, Reap(k) \/ OverrunSettles(k)
          PROVE  jobState'[i] \in {"cancelled", "purged"}
      BY <2>0, <2>5 DEF Reap, OverrunSettles, SettleCancelled, EndCancelled
    <2>6. CASE UNCHANGED <<jobState, attState, atRest>>
      BY <2>6
    <2> HIDE DEF Open, Finished
    <2> QED
      BY <2>1, <2>2, <2>3, <2>4, <2>5, <2>6, RowsFrame
  <1>2. ASSUME NEW j \in Job, Quiet(j)
        PROVE  Quiet(j)'
    <2>1. jobState'[j] \in {"cancelled", "purged"}
      BY <1>1, <1>2 DEF Quiet
    <2>2. \A k \in KeysOf(j) : ~MayRun(k)'
      BY <1>2, MayRunFrame DEF Quiet, KeysOf, ComesFar
    <2> QED
      BY <2>1, <2>2 DEF Quiet, KeysOf
  <1> QED
    BY <1>1, <1>2

(* While a handler of a job is at work, no runner of another attempt of the job is. *)
LEMMA OthersIdle ==
  ASSUME TypeOK, Consistent, NEW k \in Key, pc[k] \notin {"idle", "runner", "call"}
  PROVE  \A i \in KeysOf(k[1]) : ~MayRun(i)
  BY DEF Consistent, HandlersHoldItems, Ws, KeysOf, MayRun

(* The cleanups go on being of cancelled jobs. *)
LEMMA CleanupStep ==
  ASSUME TypeOK, Consistent, JobMatchesAttempt, CleanupsAreQuiet, [Next]_vars
  PROVE  \A j \in Job : cleanup'[j] # "none" => jobState'[j] = "cancelled"
  <1> SUFFICES ASSUME NEW i \in Job, cleanup'[i] # "none"
               PROVE  jobState'[i] = "cancelled"
    OBVIOUS
  <1>0. /\ jobState \in [Job -> JobStates] /\ cleanup \in [Job -> Cleanups]
        /\ cleanup[i] # "none" => jobState[i] = "cancelled"
    BY DEF TypeOK, CleanupsAreQuiet
  <1> USE KeyParts DEF Open, Finished
  <1>1. ASSUME NEW j \in Job, Create(j) \/ CancelJob(j) \/ Purge(j)
        PROVE  jobState'[i] = "cancelled"
    BY <1>0, <1>1 DEF Create, CancelJob, Purge
  <1>2. ASSUME NEW j \in Job, Answer(j) \/ Retry(j)
        PROVE  jobState'[i] = "cancelled"
    BY <1>0, <1>2 DEF Answer, Retry, Requeue
  <1>3. ASSUME NEW j \in Job, TryEnds(j) \/ Abandon(j)
        PROVE  jobState'[i] = "cancelled"
    BY <1>0, <1>3 DEF TryEnds, Abandon
  <1>4. ASSUME NEW k \in Key, Claim(k) \/ Backoff(k) \/ FinishAuto(k)
        PROVE  jobState'[i] = "cancelled"
    BY <1>0, <1>4 DEF Claim, OpenAttempt, Backoff, FinishAuto
  <1>5. ASSUME NEW k \in Key, FinishRuled(k)
        PROVE  jobState'[i] = "cancelled"
    BY <1>0, <1>5 DEF FinishRuled, EndRuled
  <1>6. ASSUME NEW k \in Key, Reap(k) \/ OverrunSettles(k) \/ FinishCancelled(k)
        PROVE  jobState'[i] = "cancelled"
    <2>1. CASE attState[k] = "running"
      <3>1. jobState[k[1]] = "cancelled"
        BY <1>6, <2>1 DEF Reap, OverrunSettles, FinishCancelled, Consistent, StopsAreCancels, QueuedWasMade
      <3>2. EndCancelled(k)
        BY <1>6, <2>1 DEF Reap, OverrunSettles, FinishCancelled, SettleCancelled
      <3> QED
        BY <1>0, <3>1, <3>2 DEF EndCancelled
    <2>2. CASE attState[k] # "running"
      BY <1>0, <1>6, <2>2 DEF Reap, OverrunSettles, FinishCancelled, SettleCancelled
    <2> QED
      BY <2>1, <2>2
  <1>7. ASSUME NEW k \in Key, CancelMarks(k) \/ Call(k) \/ NoteTransient(k) \/ RunnerReports(k)
        PROVE  jobState'[i] = "cancelled"
    BY <1>0, <1>7 DEF CancelMarks, Call, NoteTransient, RunnerReports
  <1>8. CASE UNCHANGED store
    BY <1>0, <1>8 DEF store
  <1> HIDE DEF Open, Finished
  <1> QED
    BY <1>1, <1>2, <1>3, <1>4, <1>5, <1>6, <1>7, <1>8, StoreFrame

(* A try is started only while the job is quiet. *)
LEMMA TriesStep ==
  ASSUME TypeOK, Consistent, JobMatchesAttempt, RunsAreHeld, CleanupsAreQuiet, [Next]_vars
  PROVE  \A j \in tries' : Quiet(j)'
  <1>0. tries \subseteq Job /\ \A j \in Job : Quiet(j) => Quiet(j)'
    BY QuietStays DEF TypeOK
  <1>1. ASSUME NEW j \in Job, tries' \subseteq tries \cup {j}, Quiet(j)
        PROVE  \A i \in tries' : Quiet(i)'
    BY <1>0, <1>1 DEF CleanupsAreQuiet
  <1>2. ASSUME tries' \subseteq tries
        PROVE  \A i \in tries' : Quiet(i)'
    BY <1>0, <1>2 DEF CleanupsAreQuiet
  <1>3. ASSUME NEW j \in Job, TryEnds(j)
        PROVE  \A i \in tries' : Quiet(i)'
    BY <1>2, <1>3 DEF TryEnds
  <1>4. ASSUME NEW j \in Job, SweepTries(j)
        PROVE  \A i \in tries' : Quiet(i)'
    <2>1. jobState[j] = "cancelled" /\ \A k \in KeysOf(j) : k \notin inflight
      BY <1>4 DEF SweepTries, CleanupsAreQuiet, RunnerInProgress
    <2>2. Quiet(j)
      BY <2>1 DEF Quiet, KeysOf, MayRun, Consistent, RunsAreKnown
    <2> QED
      BY <1>1, <1>4, <2>2 DEF SweepTries, Tried
  <1>5. ASSUME NEW k \in Key, CancelWakes(k) \/ CancelMarks(k)
        PROVE  \A i \in tries' : Quiet(i)'
    <2>1. Quiet(k[1]) /\ k[1] \in Job
      BY <1>5, KeyParts DEF CancelWakes, CancelMarks, CleanupsAreQuiet
    <2>2. tries' \subseteq tries \cup {k[1]}
      BY <1>5 DEF CancelWakes, CancelMarks, Tried
    <2> QED
      BY <1>1, <2>1, <2>2
  <1>6. ASSUME NEW k \in Key, Reap(k) \/ Forget(k) \/ FinishCancelled(k)
        PROVE  \A i \in tries' : Quiet(i)'
    <2>1. tries' \subseteq tries \/ jobState[k[1]] \in {"cancelled", "purged"}
      BY <1>6 DEF Reap, Forget, FinishCancelled, Consistent, StopsAreCancels
    <2>2. \A i \in KeysOf(k[1]) : ~MayRun(i)
      BY <1>6, OthersIdle DEF Reap, Forget, FinishCancelled
    <2>3. tries' \subseteq tries \cup {k[1]}
      BY <1>6 DEF Reap, Forget, FinishCancelled, Tried
    <2> QED
      BY <1>1, <1>2, <2>1, <2>2, <2>3, KeyParts DEF Quiet
  <1>7. CASE Restart
    BY <1>2, <1>7 DEF Restart
  <1>8. CASE UNCHANGED tries
    BY <1>2, <1>8
  <1> QED
    BY <1>3, <1>4, <1>5, <1>6, <1>7, <1>8, TriesFrame

(* Which steps move a cancel. *)
LEMMA CancelFrame ==
  ASSUME [Next]_vars
  PROVE  \/ UNCHANGED canceller
         \/ \E j \in Job : CancelJob(j)
         \/ \E k \in Key : Cancelling(k)
         \/ Restart
  <1>1. ASSUME NEW j \in Job, Create(j) \/ Answer(j) \/ Retry(j) \/ Purge(j)
        PROVE  UNCHANGED canceller
    BY <1>1 DEF Create, Answer, Retry, Requeue, Purge, process
  <1>2. ASSUME NEW k \in Key,
               \/ Enqueue(k) \/ HandOver(k) \/ LetsGo(k) \/ GoesOn(k) \/ ComesBack(k) \/ Reap(k)
               \/ Claim(k) \/ Register(k) \/ Look(k) \/ Call(k) \/ Forget(k) \/ NoteTransient(k)
        PROVE  UNCHANGED canceller
    BY <1>2 DEF Enqueue, HandOver, LetsGo, GoesOn, ComesBack, Reap, Claim, Register, Look, Call,
                Forget, NoteTransient
  <1>3. ASSUME NEW k \in Key,
               \/ Backoff(k) \/ FinishCancelled(k) \/ FinishAuto(k) \/ FinishRuled(k) \/ Wrapup(k)
               \/ GraceEnds(k) \/ Overrun(k) \/ OverrunSettles(k) \/ OverrunFails(k) \/ StopRun(k)
        PROVE  UNCHANGED canceller
    BY <1>3 DEF Backoff, FinishCancelled, FinishAuto, FinishRuled, Wrapup, GraceEnds, Overrun,
                OverrunSettles, OverrunFails, StopRun
  <1>4. Aside \/ Sweep => UNCHANGED canceller
    BY DEF Aside, Sweep
  <1> QED
    BY <1>1, <1>2, <1>3, <1>4, Steps

(* A cancel goes on with its attempt while no other runner of the job is at work, and with *)
(* the cleanup while none is.                                                              *)
LEMMA CancelsStep ==
  ASSUME TypeOK, Consistent, JobMatchesAttempt, RunsAreHeld, CleanupsAreQuiet, [Next]_vars
  PROVE  /\ \A k \in Key : canceller'[k] \in {"wake", "mark"} => Quiet(k[1])'
         /\ \A k \in Key : canceller'[k] # "idle" => \A i \in KeysOf(k[1]) \ {k} : ~MayRun(i)'
  <1>0. /\ \A k \in Key : canceller[k] \in {"wake", "mark"} => Quiet(k[1])'
        /\ \A k \in Key : canceller[k] # "idle" => \A i \in KeysOf(k[1]) \ {k} : ~MayRun(i)'
    <2>1. \A k \in Key : canceller[k] \in {"wake", "mark"} => Quiet(k[1])'
      BY QuietStays, KeyParts DEF CleanupsAreQuiet
    <2>2. ASSUME NEW k \in Key, canceller[k] # "idle", NEW i \in KeysOf(k[1]) \ {k}
          PROVE  ~MayRun(i)'
      <3>1. ~MayRun(i) /\ jobState[i[1]] # "running" /\ i \in Key
        BY <2>2 DEF CleanupsAreQuiet, Consistent, StopsAreCancels, KeysOf
      <3> QED
        BY <3>1, MayRunFrame DEF ComesFar
    <2> QED
      BY <2>1, <2>2
  <1>1. ASSUME NEW j \in Job, CancelJob(j)
        PROVE  /\ \A k \in Key : canceller'[k] \in {"wake", "mark"} => Quiet(k[1])'
               /\ \A k \in Key : canceller'[k] # "idle" => \A i \in KeysOf(k[1]) \ {k} : ~MayRun(i)'
    <2>1. jobState' = [jobState EXCEPT ![j] = "cancelled"] /\ jobState[j] \in Open
      BY <1>1 DEF CancelJob
    <2>2. \A i \in KeysOf(j) : MayRun(i)' => i \in Running(j)
      BY <1>1, <2>1 DEF CancelJob, MayRun, KeysOf, Running, Consistent, RunsAreKnown, Open, runs
    <2>3. \A k \in Key : canceller'[k] # canceller[k] =>
            k[1] = j /\ (k \in Running(j) \/ (Running(j) = {} /\ canceller'[k] = "wake"))
      BY <1>1 DEF CancelJob, Running, KeysOf
    <2>4. \A k \in Running(j) : canceller'[k] = "look"
      BY <1>1 DEF CancelJob, Running, KeysOf
    <2>5. Running(j) = {} => Quiet(j)'
      BY <2>1, <2>2 DEF Quiet, KeysOf, TypeOK
    <2>6. \A k \in Running(j) : \A i \in KeysOf(j) \ {k} : ~MayRun(i)'
      BY <2>2, OneActive DEF Running, KeysOf
    <2>7. ASSUME NEW k \in Key, canceller'[k] \in {"wake", "mark"}
          PROVE  Quiet(k[1])'
      BY <1>0, <2>3, <2>4, <2>5, <2>7
    <2>8. ASSUME NEW k \in Key, canceller'[k] # "idle", NEW i \in KeysOf(k[1]) \ {k}
          PROVE  ~MayRun(i)'
      <3>1. CASE canceller'[k] = canceller[k]
        BY <1>0, <2>8, <3>1
      <3>2. CASE canceller'[k] # canceller[k]
        BY <2>2, <2>3, <2>6, <2>8, <3>2
      <3> QED
        BY <3>1, <3>2
    <2> QED
      BY <2>7, <2>8
  <1>2. ASSUME NEW k \in Key, canceller[k] # "idle",
               canceller' = [canceller EXCEPT ![k] = canceller'[k]],
               canceller'[k] \in {"wake", "mark"} => Quiet(k[1])'
        PROVE  /\ \A i \in Key : canceller'[i] \in {"wake", "mark"} => Quiet(i[1])'
               /\ \A i \in Key : canceller'[i] # "idle" => \A n \in KeysOf(i[1]) \ {i} : ~MayRun(n)'
    <2>1. \A i \in Key : i # k => canceller'[i] = canceller[i]
      BY <1>2 DEF TypeOK
    <2> QED
      BY <1>0, <1>2, <2>1
  <1>3. ASSUME NEW k \in Key, CancelWakes(k) \/ CancelMarks(k)
        PROVE  /\ canceller[k] # "idle"
               /\ canceller' = [canceller EXCEPT ![k] = canceller'[k]]
               /\ canceller'[k] = "idle"
    BY <1>3 DEF CancelWakes, CancelMarks, TypeOK
  <1>4. ASSUME NEW k \in Key, canceller[k] \in {"look", "stop"}, ~MayRun(k)'
        PROVE  Quiet(k[1])'
    <2>1. jobState'[k[1]] \in {"cancelled", "purged"}
      BY <1>4, QuietStays, KeyParts DEF Consistent, StopsAreCancels
    <2>2. \A i \in KeysOf(k[1]) : ~MayRun(i)'
      BY <1>0, <1>4
    <2> QED
      BY <2>1, <2>2 DEF Quiet, KeysOf
  <1>5. ASSUME NEW k \in Key, CancelLooks(k)
        PROVE  /\ canceller[k] = "look"
               /\ canceller' = [canceller EXCEPT ![k] = canceller'[k]]
               /\ canceller'[k] \in {"wake", "mark"} => ~MayRun(k)'
    BY <1>5 DEF CancelLooks, TypeOK, MayRun, Consistent, RunsAreKnown, runs
  <1>6. ASSUME NEW k \in Key, CancelStops(k)
        PROVE  /\ canceller[k] = "stop"
               /\ canceller' = [canceller EXCEPT ![k] = canceller'[k]]
               /\ canceller'[k] \in {"wake", "mark"} => ~MayRun(k)'
    BY <1>6 DEF CancelStops, TypeOK, MayRun, Consistent, RunsAreKnown, RunsAreHeld
  <1>7. CASE Restart
    BY <1>7 DEF Restart
  <1>8. CASE UNCHANGED canceller
    BY <1>0, <1>8
  <1> QED
    BY <1>1, <1>2, <1>3, <1>4, <1>5, <1>6, <1>7, <1>8, CancelFrame DEF Cancelling

(* What of a job that is over is kept by every step. *)
LEMMA QuietStep ==
  ASSUME TypeOK, Consistent, JobMatchesAttempt, RunsAreHeld, CleanupsAreQuiet, [Next]_vars
  PROVE  CleanupsAreQuiet'
  BY CleanupStep, TriesStep, CancelsStep DEF CleanupsAreQuiet, KeysOf

(* A job that is over comes to rest whole: the last event says so when the rows do, a handler *)
(* that waits is woken, the labels are put back while no runner of the job works, not even    *)
(* one that overran, and a purge leaves nothing of it at work.                                *)
THEOREM ComesToRest == Spec => []RestsWhole
  <1> DEFINE Over == RunsAreHeld /\ CleanupsAreQuiet
  <1>1. Init => Over
    BY DEF Init, RunsAreHeld, CleanupsAreQuiet
  <1>2. IndInv /\ Over /\ [Next]_vars => Over'
    BY HeldStep, QuietStep DEF IndInv
  <1>3. IndInv /\ Over => RestsWhole
    <2> SUFFICES ASSUME IndInv, Over
                 PROVE  RestsWhole
      OBVIOUS
    <2>1. CleanupAlone
      BY DEF CleanupsAreQuiet, Quiet, MayRun, CleanupAlone
    <2>2. PurgedIsGone
      BY DEF IndInv, Consistent, QueuedWasMade, RunsAreHeld, PurgedIsGone
    <2> QED
      BY <2>1, <2>2 DEF IndInv, RestsWhole
  <1> QED
    BY <1>1, <1>2, <1>3, Inductive, PTL DEF Spec

-----------------------------------------------------------------------------
(* The order of a workspace. *)

(* The attempts before another in the order were made, and a handler that goes on to a runner *)
(* has none before it that is open.                                                           *)
OrderIsKept ==
  /\ \A k \in Key : earlier[k] \subseteq Made
  /\ \A k \in Key : pc[k] \notin {"idle", "plan", "reap"} => First(k)

(* An attempt that was made and is not open is never open again, though its job may be. *)
LEMMA ClosedStays ==
  ASSUME TypeOK, Consistent, JobMatchesAttempt, [Next]_vars, NEW i \in Made, ~OpenAttempt(i)
  PROVE  ~OpenAttempt(i)'
  <1>0. /\ i \in Key /\ attState[i] # "none" /\ i[1] \in Job
        /\ jobState \in [Job -> JobStates] /\ attState \in [Key -> AttStates]
    BY KeyParts DEF Made, TypeOK
  <1> USE KeyParts DEF OpenAttempt
  <1>1. ASSUME NEW j \in Job, Create(j)
        PROVE  ~OpenAttempt(i)'
    <2>1. i[1] # j
      BY <1>0, <1>1, NewJob DEF Create
    <2> QED
      BY <1>0, <1>1, <2>1, FirstKey DEF Create
  <1>2. ASSUME NEW j \in Job, Answer(j) \/ Retry(j)
        PROVE  ~OpenAttempt(i)'
    <2>1. PICK n \in Key :
            /\ n[1] = j /\ attState[n] = "none"
            /\ \A k \in Key : attState'[k] = IF k = n THEN "queued" ELSE attState[k]
      BY <1>2, Requeued
    <2>2. /\ \A k \in Key : k[1] = j => attState[k] \notin {"queued", "running"}
          /\ jobState' = [jobState EXCEPT ![j] = "queued"]
      BY <1>2, Requeued
    <2> QED
      BY <1>0, <2>1, <2>2
  <1>3. ASSUME NEW j \in Job, CancelJob(j) \/ Purge(j)
        PROVE  ~OpenAttempt(i)'
    BY <1>0, <1>3 DEF CancelJob, Purge
  <1>4. ASSUME NEW k \in Key, Claim(k) \/ Backoff(k)
        PROVE  ~OpenAttempt(i)'
    BY <1>0, <1>4 DEF Claim, Backoff
  <1>5. ASSUME NEW k \in Key, FinishAuto(k)
        PROVE  ~OpenAttempt(i)'
    <2>1. PICK n \in Key :
            /\ n[1] = k[1] /\ attState[n] = "none"
            /\ \A m \in Key : attState'[m] = CASE m = k -> "failed" [] m = n -> "queued" [] OTHER -> attState[m]
      BY <1>5, Automatic
    <2>2. jobState[k[1]] = "running" /\ jobState' = [jobState EXCEPT ![k[1]] = "queued"]
      BY <1>5 DEF FinishAuto
    <2> QED
      BY <1>0, <2>1, <2>2
  <1>6. ASSUME NEW k \in Key, FinishRuled(k)
        PROVE  ~OpenAttempt(i)'
    BY <1>0, <1>6 DEF FinishRuled, EndRuled
  <1>7. ASSUME NEW k \in Key, Reap(k) \/ OverrunSettles(k) \/ FinishCancelled(k)
        PROVE  ~OpenAttempt(i)'
    BY <1>0, <1>7 DEF Reap, OverrunSettles, FinishCancelled, SettleCancelled, EndCancelled
  <1>8. CASE UNCHANGED <<jobState, attState, atRest>>
    BY <1>8
  <1> HIDE DEF OpenAttempt
  <1> QED
    BY <1>1, <1>2, <1>3, <1>4, <1>5, <1>6, <1>7, <1>8, RowsFrame

(* An attempt that is made is the first of its job, or the one after the last. *)
IsMade(n) ==
  /\ n \notin Made /\ Made' = Made \cup {n}
  /\ \/ n[2] = 1 /\ KeysOf(n[1]) \cap Made = {}
     \/ \E k \in Key : Last(k) /\ n[1] = k[1] /\ n[2] = k[2] + 1

(* The attempts that were made stay, but by a purge, and one is made at a time, *)
LEMMA MadeFrame ==
  ASSUME TypeOK, Consistent, JobMatchesAttempt, [Next]_vars
  PROVE  Made' = Made \/ (\E n \in Key : IsMade(n)) \/ \E j \in Job : Purge(j)
  <1>0. attState \in [Key -> AttStates]
    BY DEF TypeOK
  <1>1. ASSUME NEW j \in Job, Create(j)
        PROVE  \E n \in Key : IsMade(n)
    <2>1. PICK n \in Key : n = <<j, 1>>
      BY FirstKey
    <2>2. n[1] = j /\ n[2] = 1 /\ attState' = [attState EXCEPT ![n] = "queued"]
      BY <1>1, <2>1 DEF Create
    <2>3. attState[n] = "none" /\ KeysOf(j) \cap Made = {}
      BY <1>1, <2>2, NewJob DEF Create, KeysOf, Made
    <2>4. Made' = Made \cup {n} /\ n \notin Made
      BY <1>0, <2>2, <2>3 DEF Made
    <2> QED
      BY <2>2, <2>3, <2>4 DEF IsMade
  <1>2. ASSUME NEW j \in Job, Answer(j) \/ Retry(j)
        PROVE  \E n \in Key : IsMade(n)
    <2>1. PICK k \in Key :
            /\ Last(k) /\ Succ(k) \in Key /\ attState[Succ(k)] = "none"
            /\ \A i \in Key : attState'[i] = IF i = Succ(k) THEN "queued" ELSE attState[i]
      BY <1>2, Requeued
    <2>2. Made' = Made \cup {Succ(k)} /\ Succ(k) \notin Made
      BY <2>1 DEF Made
    <2> QED
      BY <2>1, <2>2, KeyParts DEF IsMade
  <1>3. ASSUME NEW k \in Key, FinishAuto(k)
        PROVE  \E n \in Key : IsMade(n)
    <2>1. /\ Last(k) /\ Succ(k) \in Key /\ attState[Succ(k)] = "none"
          /\ \A i \in Key : attState'[i] = CASE i = k -> "failed" [] i = Succ(k) -> "queued" [] OTHER -> attState[i]
      BY <1>3, Automatic
    <2>2. attState[k] = "running"
      BY <1>3 DEF FinishAuto
    <2>3. \A i \in Key : attState'[i] # "none" <=> i = Succ(k) \/ attState[i] # "none"
      BY <2>1, <2>2
    <2>4. Made' = Made \cup {Succ(k)} /\ Succ(k) \notin Made
      BY <2>1, <2>3 DEF Made
    <2> QED
      BY <2>1, <2>4, KeyParts DEF IsMade
  <1>4. ASSUME NEW j \in Job, CancelJob(j)
        PROVE  Made' = Made
    BY <1>0, <1>4 DEF CancelJob, Made
  <1>5. ASSUME NEW k \in Key, Claim(k) \/ Backoff(k)
        PROVE  Made' = Made
    BY <1>0, <1>5 DEF Claim, OpenAttempt, Backoff, Made
  <1>6. ASSUME NEW k \in Key, FinishRuled(k)
        PROVE  Made' = Made
    BY <1>0, <1>6 DEF FinishRuled, EndRuled, Made
  <1>7. ASSUME NEW k \in Key, Reap(k) \/ OverrunSettles(k) \/ FinishCancelled(k)
        PROVE  Made' = Made
    BY <1>0, <1>7 DEF Reap, OverrunSettles, FinishCancelled, SettleCancelled, EndCancelled, Made
  <1>8. CASE UNCHANGED <<jobState, attState, atRest>>
    BY <1>8 DEF Made
  <1> QED
    BY <1>1, <1>2, <1>3, <1>4, <1>5, <1>6, <1>7, <1>8, RowsFrame

(* and so does the place of an attempt in the order, which it takes when it is made. *)
TakesPlace(k) ==
  /\ attState[k] = "none" /\ pc[k] = "idle" /\ pc'[k] = "idle"
  /\ earlier'[k] = Made

(* No step but that and a purge changes the place of an attempt. *)
LEMMA PlaceStays ==
  ASSUME TypeOK, Consistent, JobMatchesAttempt, [Next]_vars
  PROVE  \/ \A k \in Key : earlier'[k] = earlier[k] \/ TakesPlace(k)
         \/ \E j \in Job : Purge(j)
  <1>0. earlier \in [Key -> SUBSET Key] /\ pc \in [Key -> Pcs]
    BY DEF TypeOK
  <1>1. ASSUME NEW n \in Key, earlier' = [earlier EXCEPT ![n] = Made],
               attState[n] = "none", pc[n] = "idle", pc'[n] = "idle"
        PROVE  \A k \in Key : earlier'[k] = earlier[k] \/ TakesPlace(k)
    BY <1>0, <1>1 DEF TakesPlace
  <1>2. ASSUME NEW j \in Job, Create(j)
        PROVE  \A k \in Key : earlier'[k] = earlier[k] \/ TakesPlace(k)
    <2>1. PICK n \in Key : n = <<j, 1>>
      BY FirstKey
    <2>2. n[1] = j /\ attState[n] = "none" /\ pc[n] = "idle"
      BY <1>2, <2>1, NewJob DEF Create
    <2> QED
      BY <1>1, <1>2, <2>1, <2>2 DEF Create, InsertAttempt
  <1>3. ASSUME NEW j \in Job, Answer(j) \/ Retry(j)
        PROVE  \A k \in Key : earlier'[k] = earlier[k] \/ TakesPlace(k)
    <2>1. PICK k \in Key :
            /\ k[1] = j /\ Last(k) /\ k[2] < MaxAttempts
            /\ earlier' = [earlier EXCEPT ![Succ(k)] = Made]
      BY <1>3 DEF Answer, Retry, Requeue, InsertAttempt, KeysOf
    <2>2. Succ(k) \in Key /\ Succ(k)[1] = j /\ attState[Succ(k)] = "none"
      BY <2>1, SuccIsFresh, KeyParts
    <2>3. pc[Succ(k)] = "idle" /\ UNCHANGED pc
      BY <1>3, <2>2, FreshIsIdle DEF Answer, Retry, Requeue
    <2> QED
      BY <1>1, <2>1, <2>2, <2>3
  <1>4. ASSUME NEW k \in Key, FinishAuto(k)
        PROVE  \A i \in Key : earlier'[i] = earlier[i] \/ TakesPlace(i)
    <2>1. Succ(k) \in Key /\ Succ(k) # k /\ attState[Succ(k)] = "none" /\ pc[Succ(k)] = "idle"
      BY <1>4, Automatic
    <2>2. earlier' = [earlier EXCEPT ![Succ(k)] = Made] /\ pc' = [pc EXCEPT ![k] = "wrapup"]
      BY <1>4 DEF FinishAuto, InsertAttempt, Goto
    <2> QED
      BY <1>0, <1>1, <2>1, <2>2
  <1>5. ASSUME NEW j \in Job, CancelJob(j) \/ TryEnds(j) \/ Abandon(j)
        PROVE  UNCHANGED earlier
    BY <1>5 DEF CancelJob, TryEnds, Abandon
  <1>6. ASSUME NEW k \in Key,
               \/ Reap(k) \/ Claim(k) \/ Backoff(k) \/ OverrunSettles(k) \/ FinishCancelled(k)
               \/ FinishRuled(k) \/ CancelMarks(k) \/ Call(k) \/ NoteTransient(k) \/ RunnerReports(k)
        PROVE  UNCHANGED earlier
    BY <1>6 DEF Reap, Claim, Backoff, OverrunSettles, FinishCancelled, FinishRuled, CancelMarks,
                Call, NoteTransient, RunnerReports
  <1>7. UNCHANGED store => UNCHANGED earlier
    BY DEF store
  <1> QED
    BY <1>2, <1>3, <1>4, <1>5, <1>6, <1>7, StoreFrame

(* A handler is past its plan only when no attempt before its own was open at the plan. *)
GoesInOrder == \A k \in Key : pc'[k] \notin {"idle", "plan", "reap"} =>
                              pc[k] \notin {"idle", "plan", "reap"} \/ First(k)

(* No step takes an attempt past its turn, but the one that saw it is the first. *)
LEMMA OrderFrame ==
  ASSUME TypeOK, [Next]_vars
  PROVE  GoesInOrder
  <1>0. pc \in [Key -> Pcs]
    BY DEF TypeOK
  <1> USE <1>0, KeyParts DEF GoesInOrder, process
  <1>1. ASSUME NEW j \in Job, Create(j)
        PROVE  GoesInOrder
    BY <1>1 DEF Create
  <1>2. ASSUME NEW j \in Job, Answer(j) \/ Retry(j)
        PROVE  GoesInOrder
    BY <1>2 DEF Answer, Retry, Requeue
  <1>3. ASSUME NEW j \in Job, CancelJob(j)
        PROVE  GoesInOrder
    BY <1>3 DEF CancelJob
  <1>4. ASSUME NEW j \in Job, Purge(j)
        PROVE  GoesInOrder
    BY <1>4 DEF Purge
  <1>5. ASSUME NEW k \in Key, CancelWakes(k) \/ CancelLooks(k) \/ CancelStops(k) \/ CancelMarks(k)
        PROVE  GoesInOrder
    <2>1. CASE CancelWakes(k)
      BY <2>1 DEF CancelWakes
    <2>2. CASE CancelLooks(k)
      BY <2>2 DEF CancelLooks
    <2>3. CASE CancelStops(k)
      BY <2>3 DEF CancelStops
    <2>4. CASE CancelMarks(k)
      BY <2>4 DEF CancelMarks
    <2> QED
      BY <1>5, <2>1, <2>2, <2>3, <2>4
  <1>6. ASSUME NEW k \in Key, Enqueue(k)
        PROVE  GoesInOrder
    BY <1>6 DEF Enqueue
  <1>7. ASSUME NEW k \in Key, HandOver(k)
        PROVE  GoesInOrder
    BY <1>7 DEF HandOver, Goto
  <1>8. ASSUME NEW k \in Key, LetsGo(k)
        PROVE  GoesInOrder
    BY <1>8 DEF LetsGo
  <1>9. ASSUME NEW k \in Key, GoesOn(k)
        PROVE  GoesInOrder
    BY <1>9 DEF GoesOn, Goto
  <1>10. ASSUME NEW k \in Key, ComesBack(k)
        PROVE  GoesInOrder
    BY <1>10 DEF ComesBack, Goto
  <1>11. ASSUME NEW k \in Key, Reap(k)
        PROVE  GoesInOrder
    BY <1>11 DEF Reap, Ack, SettleCancelled, EndCancelled, Leave
  <1>12. ASSUME NEW k \in Key, Claim(k)
        PROVE  GoesInOrder
    BY <1>12 DEF Claim, Goto, OpenAttempt
  <1>13. ASSUME NEW k \in Key, Register(k)
        PROVE  GoesInOrder
    BY <1>13 DEF Register, Goto
  <1>14. ASSUME NEW k \in Key, Look(k)
        PROVE  GoesInOrder
    BY <1>14 DEF Look, Goto
  <1>15. ASSUME NEW k \in Key, Call(k)
        PROVE  GoesInOrder
    BY <1>15 DEF Call, Goto
  <1>16. ASSUME NEW k \in Key, Forget(k)
        PROVE  GoesInOrder
    BY <1>16 DEF Forget, Goto
  <1>17. ASSUME NEW k \in Key, NoteTransient(k)
        PROVE  GoesInOrder
    BY <1>17 DEF NoteTransient, Goto
  <1>18. ASSUME NEW k \in Key, Backoff(k)
        PROVE  GoesInOrder
    BY <1>18 DEF Backoff, Goto
  <1>19. ASSUME NEW k \in Key, FinishCancelled(k)
        PROVE  GoesInOrder
    BY <1>19 DEF FinishCancelled, Goto, EndCancelled
  <1>20. ASSUME NEW k \in Key, FinishAuto(k)
        PROVE  GoesInOrder
    BY <1>20 DEF FinishAuto, Goto
  <1>21. ASSUME NEW k \in Key, FinishRuled(k)
        PROVE  GoesInOrder
    BY <1>21 DEF FinishRuled, Goto, EndRuled
  <1>22. ASSUME NEW k \in Key, Wrapup(k)
        PROVE  GoesInOrder
    BY <1>22 DEF Wrapup, Goto
  <1>23. ASSUME NEW k \in Key, GraceEnds(k) \/ Overrun(k) \/ OverrunFails(k) \/ StopRun(k)
        PROVE  GoesInOrder
    BY <1>23 DEF GraceEnds, Overrun, OverrunFails, StopRun
  <1>24. ASSUME NEW k \in Key, OverrunSettles(k)
        PROVE  GoesInOrder
    BY <1>24 DEF OverrunSettles, SettleCancelled, EndCancelled
  <1>25. CASE Sweep \/ Restart
    BY <1>25 DEF Sweep, Restart
  <1>26. CASE Aside /\ (owed' = owed \/ \E k \in Key : owed' = owed \ {k})
    BY <1>26 DEF Aside
  <1> HIDE DEF GoesInOrder
  <1> QED
    BY <1>1, <1>2, <1>3, <1>4, <1>5, <1>6, <1>7, <1>8, <1>9, <1>10, <1>11, <1>12, <1>13, <1>14,
       <1>15, <1>16, <1>17, <1>18, <1>19, <1>20, <1>21, <1>22, <1>23, <1>24, <1>25, <1>26, Steps DEF
       Cancelling

(* The order goes on being kept. *)
LEMMA OrderStep ==
  ASSUME TypeOK, Consistent, JobMatchesAttempt, OrderIsKept, [Next]_vars
  PROVE  OrderIsKept'
  <1>1. ASSUME NEW k \in Key, pc'[k] \notin {"idle", "plan", "reap"}, earlier'[k] \subseteq earlier[k]
        PROVE  First(k)'
    <2>1. First(k) /\ earlier[k] \subseteq Made
      BY <1>1, OrderFrame DEF OrderIsKept, GoesInOrder
    <2>2. \A i \in earlier[k] : ~OpenAttempt(i) => ~OpenAttempt(i)'
      BY <2>1, ClosedStays
    <2> QED
      BY <1>1, <2>1, <2>2 DEF First, Ws
  <1>2. ASSUME Made \subseteq Made', \A k \in Key : earlier'[k] = earlier[k] \/ TakesPlace(k)
        PROVE  OrderIsKept'
    <2>1. \A k \in Key : earlier'[k] \subseteq Made'
      BY <1>2 DEF OrderIsKept, TakesPlace
    <2>2. \A k \in Key : pc'[k] \notin {"idle", "plan", "reap"} => First(k)'
      BY <1>1, <1>2 DEF TakesPlace
    <2> QED
      BY <2>1, <2>2 DEF OrderIsKept
  <1>3. ASSUME NEW j \in Job, Purge(j)
        PROVE  OrderIsKept'
    <2>1. \A k \in Key : earlier'[k] \subseteq earlier[k] \ KeysOf(j)
      BY <1>3 DEF Purge, KeysOf
    <2>2. Made \ KeysOf(j) \subseteq Made'
      BY <1>3 DEF Purge, Made, KeysOf
    <2>3. \A k \in Key : earlier'[k] \subseteq Made'
      BY <2>1, <2>2 DEF OrderIsKept
    <2>4. \A k \in Key : pc'[k] \notin {"idle", "plan", "reap"} => First(k)'
      BY <1>1, <2>1
    <2> QED
      BY <2>3, <2>4 DEF OrderIsKept
  <1> QED
    BY <1>2, <1>3, MadeFrame, PlaceStays DEF IsMade

(* The attempts of a workspace are handed to runners in the order they were made: one is *)
(* claimed only when none made before it is open, though it planned long before, waited  *)
(* for a slot, or comes back from a backoff.                                             *)
THEOREM RunsInOrder == Spec => InOrder
  <1>1. Init => OrderIsKept
    <2>1. Init => \A k \in Key : earlier[k] = {} /\ pc[k] = "idle"
      BY DEF Init
    <2> QED
      BY <2>1 DEF OrderIsKept
  <1>2. IndInv /\ OrderIsKept /\ [Next]_vars => OrderIsKept'
    BY OrderStep DEF IndInv
  <1>3. OrderIsKept /\ [Next]_vars =>
          \A k \in Key : pc[k] = "claim" /\ pc'[k] = "register" =>
                         \A i \in earlier[k] : Ws(i) = Ws(k) => ~OpenAttempt(i)
    BY DEF OrderIsKept, First
  <1> QED
    BY <1>1, <1>2, <1>3, Inductive, PTL DEF Spec, InOrder

-----------------------------------------------------------------------------
(* The life of a job. *)

(* The attempts of a job are numbered in the order they are made, without a gap. *)
Numbered == \A k \in Key : Last(k) => NumberOf(k[1]) = k[2]

(* A job has finitely many attempts. *)
LEMMA AttemptsFinite ==
  ASSUME NEW j \in Job
  PROVE  IsFiniteSet(KeysOf(j) \cap Made) /\ NumberOf(j) \in Nat
  <1>1. KeysOf(j) \cap Made \subseteq Key
    BY DEF KeysOf
  <1> QED
    BY <1>1, KeyFinite, FS_Subset, FS_CardinalityType DEF NumberOf

(* What is counted of a job is in its own rows. *)
LEMMA CountStays ==
  ASSUME NEW j \in Job, \A i \in Key : i[1] = j => (i \in Made' <=> i \in Made)
  PROVE  NumberOf(j)' = NumberOf(j)
  <1>1. KeysOf(j) \cap Made' = KeysOf(j) \cap Made
    BY DEF KeysOf
  <1> QED
    BY <1>1 DEF NumberOf, KeysOf

(* What is held of a job is in its own rows, too. *)
LEMMA HeldStays ==
  ASSUME NEW j \in Job, \A i \in Key : i[1] = j => (attState'[i] = "running" <=> attState[i] = "running")
  PROVE  HeldOf(j)' = HeldOf(j)
  <1>1. Running(j)' = Running(j)
    BY DEF Running, KeysOf
  <1> QED
    BY <1>1 DEF HeldOf

(* An attempt that is made counts for its job. *)
LEMMA CountsOne ==
  ASSUME NEW n \in Key, n \notin Made, Made' = Made \cup {n}
  PROVE  \A j \in Job : NumberOf(j)' = IF j = n[1] THEN NumberOf(j) + 1 ELSE NumberOf(j)
  <1>1. ASSUME NEW j \in Job, j # n[1]
        PROVE  NumberOf(j)' = NumberOf(j)
    BY <1>1, CountStays DEF Made
  <1>2. NumberOf(n[1])' = NumberOf(n[1]) + 1
    <2>1. KeysOf(n[1]) \cap Made' = (KeysOf(n[1]) \cap Made) \cup {n} /\ n \notin KeysOf(n[1]) \cap Made
      BY DEF KeysOf
    <2>2. IsFiniteSet(KeysOf(n[1]) \cap Made)
      BY AttemptsFinite, KeyParts
    <2>3. Cardinality((KeysOf(n[1]) \cap Made) \cup {n}) = Cardinality(KeysOf(n[1]) \cap Made) + 1
      BY <2>1, <2>2, FS_AddElement
    <2>4. NumberOf(n[1])' = Cardinality(KeysOf(n[1]) \cap Made')
      BY DEF NumberOf, KeysOf
    <2> QED
      BY <2>1, <2>3, <2>4 DEF NumberOf
  <1> QED
    BY <1>1, <1>2

(* A job without attempts counts none. *)
LEMMA CountsNone ==
  ASSUME NEW j \in Job, KeysOf(j) \cap Made = {}
  PROVE  NumberOf(j) = 0
  BY FS_EmptySet DEF NumberOf

(* The numbers go on being without a gap. *)
LEMMA NumberedStep ==
  ASSUME TypeOK, Consistent, JobMatchesAttempt, Numbered, [Next]_vars
  PROVE  Numbered'
  <1>1. CASE Made' = Made
    <2>1. \A k \in Key : Last(k)' <=> Last(k)
      BY <1>1, LastStays
    <2>2. \A j \in Job : NumberOf(j)' = NumberOf(j)
      BY <1>1, CountStays
    <2> QED
      BY <2>1, <2>2, KeyParts DEF Numbered
  <1>2. ASSUME NEW n \in Key, IsMade(n)
        PROVE  Numbered'
    <2>1. \A i \in Made : i[1] = n[1] => i[2] < n[2]
      BY <1>2, KeyParts DEF IsMade, Last, KeysOf, Made
    <2>2. /\ Last(n)'
          /\ \A i \in Key : i[1] = n[1] /\ i # n => ~Last(i)'
          /\ \A i \in Key : i[1] # n[1] => (Last(i)' <=> Last(i))
      BY <1>2, <2>1, LastMoves DEF IsMade
    <2>3. NumberOf(n[1]) + 1 = n[2]
      <3>1. CASE n[2] = 1 /\ KeysOf(n[1]) \cap Made = {}
        BY <3>1, CountsNone, KeyParts
      <3>2. ASSUME NEW k \in Key, Last(k), n[1] = k[1], n[2] = k[2] + 1
            PROVE  NumberOf(n[1]) + 1 = n[2]
        BY <3>2 DEF Numbered
      <3> QED
        BY <1>2, <3>1, <3>2 DEF IsMade
    <2>4. \A j \in Job : NumberOf(j)' = IF j = n[1] THEN NumberOf(j) + 1 ELSE NumberOf(j)
      BY <1>2, CountsOne DEF IsMade
    <2> QED
      BY <2>2, <2>3, <2>4, KeyParts DEF Numbered
  <1>3. ASSUME NEW j \in Job, Purge(j)
        PROVE  Numbered'
    <2>1. \A i \in Key : attState'[i] = IF i[1] = j THEN "none" ELSE attState[i]
      BY <1>3 DEF Purge
    <2>2. \A i \in Key : /\ i[1] = j => ~Last(i)'
                         /\ i[1] # j => (Last(i)' <=> Last(i))
      <3>1. \A i \in Key : i[1] = j => ~Last(i)'
        BY <2>1 DEF Last, Made
      <3> QED
        BY <2>1, <3>1, LastElsewhere
    <2>3. \A i \in Job : i # j => NumberOf(i)' = NumberOf(i)
      BY <2>1, CountStays DEF Made
    <2> QED
      BY <2>2, <2>3, KeyParts DEF Numbered
  <1> QED
    BY <1>1, <1>2, <1>3, MadeFrame

(* When none of a job runs after a step, nothing of it is held. *)
LEMMA HoldsNone ==
  ASSUME NEW j \in Job, \A i \in Key : i[1] = j => attState'[i] # "running"
  PROVE  HeldOf(j)' = 0
  <1>1. Running(j)' = {}
    BY DEF Running, KeysOf
  <1> QED
    BY <1>1 DEF HeldOf

(* One attempt that runs is the one held. *)
LEMMA HoldsOne ==
  ASSUME NEW k \in Key, \A i \in Key : i[1] = k[1] => (attState'[i] = "running" <=> i = k)
  PROVE  HeldOf(k[1])' = k[2]
  <1>1. Running(k[1])' = {k}
    BY DEF Running, KeysOf
  <1>2. (CHOOSE i \in Running(k[1])' : TRUE) = k
    BY <1>1
  <1> QED
    BY <1>1, <1>2 DEF HeldOf

(* What runs is held. *)
LEMMA HoldsWhatRuns ==
  ASSUME TypeOK, JobMatchesAttempt, NEW k \in Key, attState[k] = "running"
  PROVE  HeldOf(k[1]) = k[2] /\ k[2] # 0
  <1>1. Running(k[1]) = {k}
    BY OneActive DEF Running, KeysOf
  <1>2. (CHOOSE i \in Running(k[1]) : TRUE) = k
    BY <1>1
  <1> QED
    BY <1>1, <1>2, KeyParts DEF HeldOf

(* The jobs whose rows a step leaves alone live on as they are. *)
LEMMA OthersLive ==
  ASSUME NEW j \in Job, \A i \in Key : i[1] # j => attState'[i] = attState[i]
  PROVE  \A i \in Job : i # j => NumberOf(i)' = NumberOf(i) /\ HeldOf(i)' = HeldOf(i)
  BY CountStays, HeldStays DEF Made

(* A step of one job, as those who watch it see it. *)
LivesOn(j, to, number, held) ==
  /\ jobState' = [jobState EXCEPT ![j] = to]
  /\ \A i \in Job : NumberOf(i)' = IF i = j THEN number ELSE NumberOf(i)
  /\ \A i \in Job : HeldOf(i)' = IF i = j THEN held ELSE HeldOf(i)

(* How each step is seen that is: an attempt is made, *)
LEMMA AsksAreSeen ==
  ASSUME TypeOK, Consistent, JobMatchesAttempt, NEW j \in Job,
         \/ Create(j) \/ Answer(j) \/ Retry(j)
         \/ \E k \in Key : k[1] = j /\ FinishAuto(k)
  PROVE  /\ jobState[j] \in {"absent", "blocked", "failed", "running"}
         /\ LivesOn(j, "queued", NumberOf(j) + 1, 0)
  <1>0. attState \in [Key -> AttStates] /\ jobState \in [Job -> JobStates]
    BY DEF TypeOK
  <1>1. /\ jobState[j] \in {"absent", "blocked", "failed", "running"}
        /\ jobState' = [jobState EXCEPT ![j] = "queued"]
        /\ \A i \in Key : i[1] = j => attState'[i] # "running"
        /\ \A i \in Key : i[1] # j => attState'[i] = attState[i]
        /\ \E n \in Key : n[1] = j /\ n \notin Made /\ Made' = Made \cup {n}
    <2>1. CASE Create(j)
      <3>1. PICK n \in Key : n = <<j, 1>>
        BY FirstKey
      <3>2. n[1] = j /\ attState' = [attState EXCEPT ![n] = "queued"]
        BY <2>1, <3>1 DEF Create
      <3>3. \A k \in Key : k[1] = j => attState[k] = "none"
        BY <2>1, NewJob DEF Create
      <3>4. n \notin Made /\ Made' = Made \cup {n}
        BY <1>0, <3>2, <3>3 DEF Made
      <3>5. jobState[j] = "absent" /\ jobState' = [jobState EXCEPT ![j] = "queued"]
        BY <2>1 DEF Create
      <3>6. \A i \in Key : attState'[i] = IF i = n THEN "queued" ELSE attState[i]
        BY <1>0, <3>2
      <3> QED
        BY <3>2, <3>3, <3>4, <3>5, <3>6
    <2>2. CASE Answer(j) \/ Retry(j)
      <3>1. PICK k \in Key :
              /\ Succ(k) \in Key /\ Succ(k)[1] = j /\ attState[Succ(k)] = "none"
              /\ \A i \in Key : attState'[i] = IF i = Succ(k) THEN "queued" ELSE attState[i]
        BY <2>2, Requeued
      <3>2. /\ \A i \in Key : i[1] = j => attState[i] \notin {"queued", "running"}
            /\ jobState[j] \in {"blocked", "failed"} /\ jobState' = [jobState EXCEPT ![j] = "queued"]
        BY <2>2, Requeued
      <3>3. Made' = Made \cup {Succ(k)} /\ Succ(k) \notin Made
        BY <3>1 DEF Made
      <3> QED
        BY <3>1, <3>2, <3>3
    <2>3. ASSUME NEW k \in Key, k[1] = j, FinishAuto(k)
          PROVE  /\ jobState[j] \in {"absent", "blocked", "failed", "running"}
                 /\ jobState' = [jobState EXCEPT ![j] = "queued"]
                 /\ \A i \in Key : i[1] = j => attState'[i] # "running"
                 /\ \A i \in Key : i[1] # j => attState'[i] = attState[i]
                 /\ \E n \in Key : n[1] = j /\ n \notin Made /\ Made' = Made \cup {n}
      <3>1. /\ Succ(k) \in Key /\ Succ(k)[1] = j /\ attState[Succ(k)] = "none"
            /\ \A i \in Key : attState'[i] = CASE i = k -> "failed" [] i = Succ(k) -> "queued" [] OTHER -> attState[i]
        BY <2>3, Automatic
      <3>2. attState[k] = "running" /\ jobState[j] = "running"
            /\ jobState' = [jobState EXCEPT ![j] = "queued"]
        BY <2>3 DEF FinishAuto
      <3>3. \A i \in Key : i[1] = j /\ i # k => attState[i] # "running"
        BY <2>3, <3>2, OneActive
      <3>4. \A i \in Key : attState'[i] # "none" <=> i = Succ(k) \/ attState[i] # "none"
        BY <3>1, <3>2
      <3>5. Made' = Made \cup {Succ(k)} /\ Succ(k) \notin Made
        BY <3>1, <3>4 DEF Made
      <3>6. \A i \in Key : i[1] = j => attState'[i] # "running"
        BY <3>1, <3>3
      <3>7. \A i \in Key : i[1] # j => attState'[i] = attState[i]
        BY <2>3, <3>1
      <3> QED
        BY <3>1, <3>2, <3>5, <3>6, <3>7
    <2> QED
      BY <2>1, <2>2, <2>3
  <1>2. PICK n \in Key : n[1] = j /\ n \notin Made /\ Made' = Made \cup {n}
    BY <1>1
  <1>3. \A i \in Job : NumberOf(i)' = IF i = j THEN NumberOf(i) + 1 ELSE NumberOf(i)
    BY <1>2, CountsOne
  <1>4. HeldOf(j)' = 0 /\ \A i \in Job : i # j => HeldOf(i)' = HeldOf(i)
    BY <1>1, HoldsNone, OthersLive
  <1> QED
    BY <1>1, <1>3, <1>4 DEF LivesOn

(* one that is open is claimed, put back after a wait or ended, *)
LEMMA OneMoves ==
  ASSUME TypeOK, JobMatchesAttempt, NEW k \in Key, attState[k] \in {"queued", "running"},
         NEW to \in AttStates \ {"none"}, attState' = [attState EXCEPT ![k] = to]
  PROVE  /\ \A i \in Job : NumberOf(i)' = NumberOf(i)
         /\ \A i \in Job : i # k[1] => HeldOf(i)' = HeldOf(i)
         /\ to = "running" => HeldOf(k[1])' = k[2]
         /\ to # "running" => HeldOf(k[1])' = 0
  <1>0. attState \in [Key -> AttStates] /\ k[1] \in Job
    BY KeyParts DEF TypeOK
  <1>1. \A i \in Key : attState'[i] = IF i = k THEN to ELSE attState[i]
    BY <1>0
  <1>2. \A i \in Key : i[1] = k[1] /\ i # k => attState[i] # "running"
    BY OneActive
  <1>3. Made' = Made
    BY <1>1 DEF Made
  <1>4. HeldOf(k[1])' = IF to = "running" THEN k[2] ELSE 0
    <2>1. CASE to = "running"
      <3>1. \A i \in Key : i[1] = k[1] => (attState'[i] = "running" <=> i = k)
        BY <1>1, <1>2, <2>1
      <3> QED
        BY <2>1, <3>1, HoldsOne
    <2>2. CASE to # "running"
      <3>1. \A i \in Key : i[1] = k[1] => attState'[i] # "running"
        BY <1>1, <1>2, <2>2
      <3> QED
        BY <1>0, <2>2, <3>1, HoldsNone
    <2> QED
      BY <2>1, <2>2
  <1> QED
    BY <1>0, <1>1, <1>3, <1>4, CountStays, OthersLive

(* so that its claim, its wait and its end are seen as such, *)
LEMMA MovesAreSeen ==
  ASSUME TypeOK, Consistent, JobMatchesAttempt, Numbered, NEW k \in Key
  PROVE  /\ Claim(k) => /\ jobState[k[1]] \in {"queued", "running"}
                        /\ LivesOn(k[1], "running", NumberOf(k[1]), NumberOf(k[1]))
         /\ Backoff(k) => /\ jobState[k[1]] = "running"
                          /\ LivesOn(k[1], "queued", NumberOf(k[1]), 0)
         /\ FinishRuled(k) => /\ jobState[k[1]] = "running"
                              /\ \E to \in {"done", "failed", "blocked"} :
                                   LivesOn(k[1], to, NumberOf(k[1]), 0)
  <1>1. ASSUME Claim(k)
        PROVE  /\ jobState[k[1]] \in {"queued", "running"}
               /\ LivesOn(k[1], "running", NumberOf(k[1]), NumberOf(k[1]))
    <2>1. /\ attState[k] \in {"queued", "running"} /\ jobState[k[1]] \in {"queued", "running"}
          /\ attState' = [attState EXCEPT ![k] = "running"]
          /\ jobState' = [jobState EXCEPT ![k[1]] = "running"]
      BY <1>1 DEF Claim, OpenAttempt
    <2>2. NumberOf(k[1]) = k[2]
      BY <2>1, OpenIsLast DEF Numbered
    <2>3. /\ \A i \in Job : NumberOf(i)' = NumberOf(i)
          /\ \A i \in Job : HeldOf(i)' = IF i # k[1] THEN HeldOf(i) ELSE k[2]
      BY <2>1, OneMoves DEF AttStates
    <2> QED
      BY <2>1, <2>2, <2>3 DEF LivesOn
  <1>2. ASSUME Backoff(k)
        PROVE  jobState[k[1]] = "running" /\ LivesOn(k[1], "queued", NumberOf(k[1]), 0)
    <2>1. /\ attState[k] = "running" /\ jobState[k[1]] = "running"
          /\ attState' = [attState EXCEPT ![k] = "queued"]
          /\ jobState' = [jobState EXCEPT ![k[1]] = "queued"]
      BY <1>2 DEF Backoff
    <2>2. PICK to \in AttStates \ {"none", "running"} : to = "queued"
      BY DEF AttStates
    <2>3. /\ \A i \in Job : NumberOf(i)' = NumberOf(i)
          /\ \A i \in Job : HeldOf(i)' = IF i # k[1] THEN HeldOf(i) ELSE 0
      BY <2>1, <2>2, OneMoves
    <2> QED
      BY <2>1, <2>3 DEF LivesOn
  <1>3. ASSUME FinishRuled(k)
        PROVE  /\ jobState[k[1]] = "running"
               /\ \E to \in {"done", "failed", "blocked"} : LivesOn(k[1], to, NumberOf(k[1]), 0)
    <2>1. PICK att \in {"done", "needs_human", "failed"} :
            \E to \in {"done", "failed", "blocked"} : EndRuled(k, att, to)
      BY <1>3 DEF FinishRuled
    <2>2. PICK to \in {"done", "failed", "blocked"} : EndRuled(k, att, to)
      BY <2>1
    <2>3. /\ attState[k] = "running" /\ jobState[k[1]] = "running"
          /\ attState' = [attState EXCEPT ![k] = att]
          /\ jobState' = [jobState EXCEPT ![k[1]] = to]
      BY <1>3, <2>2 DEF FinishRuled, EndRuled
    <2>4. /\ \A i \in Job : NumberOf(i)' = NumberOf(i)
          /\ \A i \in Job : HeldOf(i)' = IF i # k[1] THEN HeldOf(i) ELSE 0
      BY <2>3, OneMoves DEF AttStates
    <2> QED
      BY <2>3, <2>4 DEF LivesOn
  <1> QED
    BY <1>1, <1>2, <1>3

(* one of a cancelled job is let go of, *)
LEMMA LetsGoAreSeen ==
  ASSUME TypeOK, Consistent, JobMatchesAttempt, NEW k \in Key,
         Reap(k) \/ OverrunSettles(k) \/ FinishCancelled(k)
  PROVE  \/ UNCHANGED <<jobState, attState>>
         \/ /\ jobState[k[1]] = "cancelled" /\ HeldOf(k[1]) # 0
            /\ LivesOn(k[1], jobState[k[1]], NumberOf(k[1]), 0)
  <1>1. CASE attState[k] # "running"
    BY <1>1 DEF Reap, OverrunSettles, FinishCancelled, SettleCancelled
  <1>2. CASE attState[k] = "running"
    <2>1. attState' = [attState EXCEPT ![k] = "cancelled"] /\ UNCHANGED jobState
      BY <1>2 DEF Reap, OverrunSettles, FinishCancelled, SettleCancelled, EndCancelled
    <2>2. jobState[k[1]] = "cancelled"
      BY <1>2 DEF Reap, OverrunSettles, FinishCancelled, Consistent, StopsAreCancels, QueuedWasMade
    <2>3. PICK to \in AttStates \ {"none", "running"} : to = "cancelled"
      BY DEF AttStates
    <2>4. /\ \A i \in Job : NumberOf(i)' = NumberOf(i)
          /\ \A i \in Job : HeldOf(i)' = IF i # k[1] THEN HeldOf(i) ELSE 0
      BY <1>2, <2>1, <2>3, OneMoves
    <2>5. jobState' = [jobState EXCEPT ![k[1]] = jobState[k[1]]]
      BY <2>1 DEF TypeOK
    <2> QED
      BY <1>2, <2>2, <2>4, <2>5, HoldsWhatRuns DEF LivesOn
  <1> QED
    BY <1>1, <1>2

(* and a job is cancelled or purged. *)
LEMMA EndsAreSeen ==
  ASSUME TypeOK, NEW j \in Job
  PROVE  /\ CancelJob(j) => jobState[j] \in Open /\ LivesOn(j, "cancelled", NumberOf(j), HeldOf(j))
         /\ Purge(j) => /\ jobState[j] \in Finished /\ HeldOf(j) = 0
                        /\ LivesOn(j, "purged", 0, 0)
  <1>0. attState \in [Key -> AttStates]
    BY DEF TypeOK
  <1>1. ASSUME CancelJob(j)
        PROVE  jobState[j] \in Open /\ LivesOn(j, "cancelled", NumberOf(j), HeldOf(j))
    <2>1. \A i \in Key : /\ attState'[i] = "running" <=> attState[i] = "running"
                         /\ attState'[i] # "none" <=> attState[i] # "none"
      BY <1>0, <1>1 DEF CancelJob
    <2>2. \A i \in Key : i \in Made' <=> i \in Made
      BY <2>1 DEF Made
    <2> QED
      BY <1>1, <2>1, <2>2, CountStays, HeldStays DEF CancelJob, LivesOn
  <1>2. ASSUME Purge(j)
        PROVE  jobState[j] \in Finished /\ HeldOf(j) = 0 /\ LivesOn(j, "purged", 0, 0)
    <2>1. \A i \in Key : attState'[i] = IF i[1] = j THEN "none" ELSE attState[i]
      BY <1>2 DEF Purge
    <2>2. KeysOf(j) \cap Made' = {}
      BY <2>1 DEF KeysOf, Made
    <2>3. NumberOf(j)' = 0
      BY <2>2, FS_EmptySet DEF NumberOf, KeysOf
    <2>4. HeldOf(j)' = 0 /\ HeldOf(j) = 0
      BY <1>2, <2>1, HoldsNone DEF Purge, HeldOf
    <2>5. \A i \in Job : i # j => NumberOf(i)' = NumberOf(i) /\ HeldOf(i)' = HeldOf(i)
      BY <2>1, OthersLive
    <2> QED
      BY <1>2, <2>3, <2>4, <2>5 DEF Purge, LivesOn
  <1> QED
    BY <1>1, <1>2

(* The life of a job starts when nothing is stored, *)
LEMMA LifeStarts == Init => Life!Init
  <1> SUFFICES ASSUME Init
               PROVE  Life!Init
    OBVIOUS
  <1>1. \A j \in Job : KeysOf(j) \cap Made = {} /\ Running(j) = {}
    BY DEF Init, Made, Running, KeysOf
  <1>2. \A j \in Job : NumberOf(j) = 0 /\ HeldOf(j) = 0
    BY <1>1, CountsNone DEF HeldOf
  <1> QED
    BY <1>2 DEF Init, Life!Init

(* and every step is a step of it, or is not seen. *)
LEMMA LifeStep ==
  ASSUME TypeOK, Consistent, JobMatchesAttempt, Numbered, [Next]_vars
  PROVE  [Life!Next]_(Life!vars)
  <1>1. ASSUME NEW j \in Job, \/ Create(j) \/ Answer(j) \/ Retry(j)
                              \/ \E k \in Key : k[1] = j /\ FinishAuto(k)
        PROVE  Life!Ask(j)
    <2>1. /\ jobState[j] \in {"absent", "blocked", "failed", "running"}
          /\ LivesOn(j, "queued", NumberOf(j) + 1, 0)
      BY <1>1, AsksAreSeen
    <2> QED
      BY <2>1 DEF LivesOn, Life!Ask, Life!Becomes
  <1>2. ASSUME NEW k \in Key, Claim(k)
        PROVE  Life!HandOver(k[1])
    <2>1. /\ jobState[k[1]] \in {"queued", "running"}
          /\ LivesOn(k[1], "running", NumberOf(k[1]), NumberOf(k[1]))
      BY <1>2, MovesAreSeen
    <2> QED
      BY <2>1, KeyParts DEF LivesOn, Life!HandOver, Life!Becomes
  <1>3. ASSUME NEW k \in Key, Backoff(k)
        PROVE  Life!PutBack(k[1])
    <2>1. jobState[k[1]] = "running" /\ LivesOn(k[1], "queued", NumberOf(k[1]), 0)
      BY <1>3, MovesAreSeen
    <2> QED
      BY <2>1, KeyParts DEF LivesOn, Life!PutBack, Life!Becomes
  <1>4. ASSUME NEW k \in Key, FinishRuled(k)
        PROVE  Life!End(k[1])
    <2>1. PICK to \in {"done", "failed", "blocked"} :
            jobState[k[1]] = "running" /\ LivesOn(k[1], to, NumberOf(k[1]), 0)
      BY <1>4, MovesAreSeen
    <2> QED
      BY <2>1, KeyParts DEF LivesOn, Life!End, Life!Becomes
  <1>5. ASSUME NEW j \in Job, CancelJob(j)
        PROVE  Life!Cancel(j)
    <2>1. jobState[j] \in Open /\ LivesOn(j, "cancelled", NumberOf(j), HeldOf(j))
      BY <1>5, EndsAreSeen
    <2> QED
      BY <2>1 DEF LivesOn, Life!Cancel, Life!Becomes, Life!Waiting, Open
  <1>6. ASSUME NEW j \in Job, Purge(j)
        PROVE  Life!Purge(j)
    <2>1. jobState[j] \in Finished /\ HeldOf(j) = 0 /\ LivesOn(j, "purged", 0, 0)
      BY <1>6, EndsAreSeen
    <2> QED
      BY <2>1 DEF LivesOn, Life!Purge, Life!Becomes, Life!Finished, Finished
  <1>7. CASE UNCHANGED <<jobState, attState>>
    <2>1. \A j \in Job : NumberOf(j)' = NumberOf(j) /\ HeldOf(j)' = HeldOf(j)
      BY <1>7, CountStays, HeldStays DEF Made
    <2> QED
      BY <1>7, <2>1 DEF Life!vars
  <1>8. ASSUME NEW k \in Key, Reap(k) \/ OverrunSettles(k) \/ FinishCancelled(k),
               ~UNCHANGED <<jobState, attState>>
        PROVE  Life!LetGo(k[1])
    <2>1. /\ jobState[k[1]] = "cancelled" /\ HeldOf(k[1]) # 0
          /\ LivesOn(k[1], "cancelled", NumberOf(k[1]), 0)
      BY <1>8, LetsGoAreSeen
    <2> QED
      BY <2>1, KeyParts DEF LivesOn, Life!LetGo, TypeOK
  <1> QED
    BY <1>1, <1>2, <1>3, <1>4, <1>5, <1>6, <1>7, <1>8, RowsFrame, KeyParts DEF Life!Next

(* The rows of a job keep the life its watchers are promised: its attempts are made one after *)
(* the other, one at most is held, and what is held is the latest, through every crash, wait, *)
(* cancel and late result.                                                                    *)
THEOREM ImplementsLife == Spec => KeepsJobLife
  <1>1. Init => Numbered
    BY DEF Init, Numbered, Last, Made
  <1>2. Init => Life!Init
    BY LifeStarts
  <1>3. IndInv /\ Numbered /\ [Next]_vars => Numbered'
    BY NumberedStep DEF IndInv
  <1>4. IndInv /\ Numbered /\ [Next]_vars => [Life!Next]_(Life!vars)
    BY LifeStep DEF IndInv
  <1> QED
    BY <1>1, <1>2, <1>3, <1>4, Inductive, PTL DEF Spec, KeepsJobLife, Life!Spec
=============================================================================
