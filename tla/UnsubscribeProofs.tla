-------------------------- MODULE UnsubscribeProofs -------------------------
(***************************************************************************)
(* A workspace that is gone has no open job but those that were retried,   *)
(* and its token outlives the runners and the first tries of the cleanups  *)
(* that a removal is to wait for, for any number of jobs and of removals   *)
(* at once.                                                                *)
(***************************************************************************)
EXTENDS Unsubscribe, TLAPS

USE UnsubscribeAssumption

-----------------------------------------------------------------------------
(* Types. *)

(* A removal looks at a job it has not looked at, or one that changed state and may be looked *)
(* at again: the count of its looks stays in its bound.                                       *)
LooksLeft ==
  \A u \in Unsubscriber : /\ looking[u] = Nobody => looks[u] = 0
                          /\ looking[u].state = "changed" => looks[u] < MaxLooks

TypeInv == TypeOK /\ LooksLeft

LEMMA TypeInit == Init => TypeInv
  BY DEF Init, TypeInv, TypeOK, LooksLeft, Nobody, Open, Ask

LEMMA TypeStep ==
  ASSUME TypeInv, [Next]_vars
  PROVE  TypeInv'
  <1> USE DEF TypeInv, TypeOK, LooksLeft, Nobody, Open, OpenJobs, Ask, rows, people, layer, removal
  <1>1. ASSUME Subscribe
        PROVE  TypeInv'
    BY <1>1 DEF Subscribe
  <1>2. ASSUME NEW j \in Job, CreateChecks(j)
        PROVE  TypeInv'
    BY <1>2 DEF CreateChecks
  <1>3. ASSUME NEW j \in Job, CreateStores(j)
        PROVE  TypeInv'
    BY <1>3 DEF CreateStores
  <1>4. ASSUME NEW j \in Job, Cancel(j)
        PROVE  TypeInv'
    <2>1. jobState' \in [Job -> Open \cup {"absent", "done", "failed", "cancelled"}]
      BY <1>4 DEF Cancel
    <2>2. stopped' \in SUBSET Job /\ tries' \in SUBSET Job
      BY <1>4 DEF Cancel, Stops
    <2>3. cleanup' \in [Job -> {"none", "pending", "ended"}]
      <3>1. cleanup' = cleanup \/ cleanup' = [cleanup EXCEPT ![j] = "pending"]
        BY <1>4 DEF Cancel, Stops
      <3> QED
        BY <3>1
    <2>4. UNCHANGED <<subscribed, retried, marks, people, run, session, tried, removal>>
      BY <1>4 DEF Cancel
    <2>5. TypeOK'
      BY <2>1, <2>2, <2>3, <2>4
    <2>6. LooksLeft'
      BY <2>4
    <2> QED
      BY <2>5, <2>6
  <1>5. ASSUME NEW j \in Job, Claim(j)
        PROVE  TypeInv'
    BY <1>5 DEF Claim
  <1>6. ASSUME NEW j \in Job, Register(j)
        PROVE  TypeInv'
    BY <1>6 DEF Register, Goes
  <1>7. ASSUME NEW j \in Job, Look(j)
        PROVE  TypeInv'
    BY <1>7 DEF Look, Goes
  <1>8. ASSUME NEW j \in Job, Call(j)
        PROVE  TypeInv'
    BY <1>8 DEF Call, Goes
  <1>9. ASSUME NEW j \in Job, Returns(j)
        PROVE  TypeInv'
    BY <1>9 DEF Returns, Goes
  <1>10. ASSUME NEW j \in Job, Reports(j)
        PROVE  TypeInv'
    BY <1>10 DEF Reports
  <1>11. ASSUME NEW j \in Job, Records(j)
        PROVE  TypeInv'
    <2>1. jobState' \in [Job -> Open \cup {"absent", "done", "failed", "cancelled"}]
      BY <1>11 DEF Records
    <2>2. stopped' \in SUBSET Job /\ tries' \in SUBSET Job
      BY <1>11 DEF Records
    <2>3. cleanup' \in [Job -> {"none", "pending", "ended"}]
      BY <1>11 DEF Records
    <2>4. run' = [run EXCEPT ![j] = "none"]
      BY <1>11 DEF Records
    <2> QED
      BY <2>1, <2>2, <2>3, <2>4, <1>11 DEF Records
  <1>12. ASSUME NEW j \in Job, HandsBack(j)
        PROVE  TypeInv'
    BY <1>12 DEF HandsBack, Goes
  <1>13. ASSUME NEW j \in Job, Reap(j)
        PROVE  TypeInv'
    BY <1>13 DEF Reap, Marks
  <1>14. ASSUME NEW j \in Job, OverrunReturns(j)
        PROVE  TypeInv'
    BY <1>14 DEF OverrunReturns
  <1>15. ASSUME NEW j \in Job, Overruns(j)
        PROVE  TypeInv'
    BY <1>15 DEF Overruns, Marks
  <1>16. ASSUME NEW j \in Job, TryEnds(j)
        PROVE  TypeInv'
    BY <1>16 DEF TryEnds
  <1>17. ASSUME NEW j \in Job, SweepTries(j)
        PROVE  TypeInv'
    BY <1>17 DEF SweepTries
  <1>18. ASSUME NEW j \in Job, NEW a \in Ask, AskSees(j, a)
        PROVE  TypeInv'
    BY <1>18 DEF AskSees, From
  <1>19. ASSUME NEW j \in Job, NEW a \in Ask, AskChecks(j, a)
        PROVE  TypeInv'
    BY <1>19 DEF AskChecks, From
  <1>20. ASSUME NEW j \in Job, NEW a \in Ask, AskStores(j, a)
        PROVE  TypeInv'
    BY <1>20 DEF AskStores, From
  <1>21. ASSUME NEW u \in Unsubscriber, Begin(u)
        PROVE  TypeInv'
    BY <1>21 DEF Begin
  <1>22. ASSUME NEW u \in Unsubscriber, Mark(u)
        PROVE  TypeInv'
    BY <1>22 DEF Mark
  <1>23. ASSUME NEW u \in Unsubscriber, List(u)
        PROVE  TypeInv'
    BY <1>23 DEF List
  <1>24. ASSUME NEW u \in Unsubscriber, Waits(u)
        PROVE  TypeInv'
    BY <1>24 DEF Waits
  <1>25. ASSUME NEW u \in Unsubscriber, TimeUp(u)
        PROVE  TypeInv'
    BY <1>25 DEF TimeUp
  <1>26. ASSUME NEW u \in Unsubscriber, Remove(u)
        PROVE  TypeInv'
    BY <1>26 DEF Remove
  <1>27. ASSUME NEW u \in Unsubscriber, GivesUp(u)
        PROVE  TypeInv'
    BY <1>27 DEF GivesUp, Leaves
  <1>28. ASSUME NEW u \in Unsubscriber, Clear(u)
        PROVE  TypeInv'
    BY <1>28 DEF Clear
  <1>29. ASSUME NEW u \in Unsubscriber, NEW j \in Job, LooksAt(u, j)
        PROVE  TypeInv'
    <2>1. looks[u] < MaxLooks
      BY <1>29 DEF LooksAt
    <2>2. CASE jobState[j] \in Open
      <3> DEFINE seen == [job |-> j, state |-> jobState[j]]
      <3>1. /\ looking' = [looking EXCEPT ![u] = seen]
            /\ looks' = [looks EXCEPT ![u] = looks[u] + 1]
            /\ UNCHANGED <<ids, runs, waits>>
        BY <2>2, <1>29 DEF LooksAt
      <3>2. seen \in [job : Job, state : Open \cup {"changed"}]
        BY <2>2
      <3>3. seen # Nobody /\ seen.state # "changed"
        BY <2>2
      <3>4. looks[u] + 1 \in 0..MaxLooks
        BY <2>1
      <3> HIDE DEF seen
      <3>5. TypeOK'
        BY <3>1, <3>2, <3>4, <1>29 DEF LooksAt
      <3>6. LooksLeft'
        BY <3>1, <3>3 DEF Nobody
      <3> QED
        BY <3>5, <3>6
    <2>3. CASE jobState[j] \notin Open
      <3>1. /\ Through(u, j, {}) /\ UNCHANGED tries
            /\ UNCHANGED <<rows, marks, people, layer, pc, over, mine>>
        BY <2>3, <1>29 DEF LooksAt
      <3> QED
        BY <3>1 DEF Through
    <2> QED
      BY <2>2, <2>3
  <1>30. ASSUME NEW u \in Unsubscriber, NEW j \in Job, CancelsSeen(u, j)
        PROVE  TypeInv'
    <2>1. Through(u, j, {j} \cap Inflight)
      BY <1>30 DEF CancelsSeen
    <2>2. jobState' \in [Job -> Open \cup {"absent", "done", "failed", "cancelled"}]
      BY <1>30 DEF CancelsSeen
    <2>3. stopped' \in SUBSET Job /\ tries' \in SUBSET Job
      BY <1>30 DEF CancelsSeen, Stops
    <2>4. cleanup' \in [Job -> {"none", "pending", "ended"}]
      BY <1>30 DEF CancelsSeen, Stops
    <2>5. mine' \in [Unsubscriber -> SUBSET Job]
      BY <1>30 DEF CancelsSeen
    <2>6. UNCHANGED <<subscribed, retried, marks, people, run, session, tried, pc, over>>
      BY <1>30 DEF CancelsSeen
    <2>7. /\ ids' \in [Unsubscriber -> SUBSET Job]
          /\ looking' = [looking EXCEPT ![u] = Nobody]
          /\ looks' = [looks EXCEPT ![u] = 0]
          /\ runs' \in [Unsubscriber -> SUBSET Job]
          /\ waits' \in [Unsubscriber -> SUBSET Job]
      BY <2>1 DEF Through, Inflight
    <2>8. TypeOK'
      BY <2>2, <2>3, <2>4, <2>5, <2>6, <2>7
    <2>9. LooksLeft'
      BY <2>7
    <2> QED
      BY <2>8, <2>9
  <1>31. ASSUME NEW u \in Unsubscriber, NEW j \in Job, FindsChanged(u, j)
        PROVE  TypeInv'
    <2>1. CASE looks[u] < MaxLooks
      <3>1. looking[u] \in [job : Job, state : Open \cup {"changed"}] \/ looking[u] = Nobody
        OBVIOUS
      <3>2. [looking[u] EXCEPT !.state = "changed"] = [job |-> j, state |-> "changed"]
        BY <3>1, <1>31 DEF FindsChanged
      <3>3. /\ looking' = [looking EXCEPT ![u] = [job |-> j, state |-> "changed"]]
            /\ UNCHANGED <<pc, ids, looks, runs, waits>>
        BY <2>1, <3>2, <1>31 DEF FindsChanged
      <3> QED
        BY <2>1, <3>3, <1>31 DEF FindsChanged
    <2>2. CASE ~(looks[u] < MaxLooks)
      <3>1. Leaves(u)
        BY <2>2, <1>31 DEF FindsChanged
      <3> QED
        BY <3>1, <1>31 DEF FindsChanged, Leaves
    <2> QED
      BY <2>1, <2>2
  <1>32. ASSUME NEW u \in Unsubscriber, NEW j \in Job, RunDone(u, j)
        PROVE  TypeInv'
    BY <1>32 DEF RunDone
  <1>33. CASE UNCHANGED vars
    BY <1>33 DEF vars, removal
  <1> QED
    BY <1>1, <1>2, <1>3, <1>4, <1>5, <1>6, <1>7, <1>8, <1>9, <1>10, <1>11, <1>12, <1>13,
       <1>14, <1>15, <1>16, <1>17, <1>18, <1>19, <1>20, <1>21, <1>22, <1>23, <1>24,
       <1>25, <1>26, <1>27, <1>28, <1>29, <1>30, <1>31, <1>32, <1>33
       DEF Next, Person, Handler, Layer, Cancelling, GoesOn

(* Every reachable state is well typed, and no removal looks at a job more often than it may. *)
THEOREM UnsubscribeTypes == Spec => []TypeOK
  <1>1. TypeInv => TypeOK
    BY DEF TypeInv
  <1> QED
    BY <1>1, TypeInit, TypeStep, PTL DEF Spec

-----------------------------------------------------------------------------
(* Orphans. *)

(* From its mark to its end a removal is among the marks. *)
Marked == \A u \in Unsubscriber : pc[u] \in {"list", "cancel", "tries", "clear"} => u \in marks

(* What a creation that holds the gate has checked still holds. *)
Gated == \A j \in Job : creating[j] = "gate" => marks = {} /\ subscribed /\ jobState[j] = "absent"

(* A handler is at work for a job that runs or was cancelled. *)
AtWork == \A j \in Job : run[j] # "none" => jobState[j] \in {"running", "cancelled"}

(* Once a removal listed the open jobs, each that is open is still on its list or was retried. *)
Listed ==
  \A u \in Unsubscriber :
    /\ pc[u] \in {"cancel", "tries"} => OpenJobs \subseteq retried \cup ids[u]
    /\ pc[u] = "tries" => ids[u] = {}

OrphanInv == TypeInv /\ Marked /\ Gated /\ AtWork /\ Listed /\ OrphansAreRetried

LEMMA OrphanInit == Init => OrphanInv
  BY TypeInit DEF Init, OrphanInv, Marked, Gated, AtWork, Listed, OrphansAreRetried, OpenJobs, Open

LEMMA OrphanStep ==
  ASSUME OrphanInv, [Next]_vars
  PROVE  OrphanInv'
  <1> SUFFICES (Marked /\ Gated /\ AtWork /\ Listed /\ OrphansAreRetried)'
    BY TypeStep DEF OrphanInv
  <1> USE DEF OrphanInv, TypeInv, TypeOK, Marked, Gated, AtWork, Listed, OrphansAreRetried,
              OpenJobs, Open, Ask, rows, people, layer, removal
  <1>1. ASSUME Subscribe
        PROVE  (Marked /\ Gated /\ AtWork /\ Listed /\ OrphansAreRetried)'
    BY <1>1 DEF Subscribe
  <1>2. ASSUME NEW j \in Job, CreateChecks(j)
        PROVE  (Marked /\ Gated /\ AtWork /\ Listed /\ OrphansAreRetried)'
    BY <1>2 DEF CreateChecks
  <1>3. ASSUME NEW j \in Job, CreateStores(j)
        PROVE  (Marked /\ Gated /\ AtWork /\ Listed /\ OrphansAreRetried)'
    BY <1>3 DEF CreateStores
  <1>4. ASSUME NEW j \in Job, Cancel(j)
        PROVE  (Marked /\ Gated /\ AtWork /\ Listed /\ OrphansAreRetried)'
    BY <1>4 DEF Cancel, Stops
  <1>5. ASSUME NEW j \in Job, Claim(j)
        PROVE  (Marked /\ Gated /\ AtWork /\ Listed /\ OrphansAreRetried)'
    BY <1>5 DEF Claim
  <1>6. ASSUME NEW j \in Job, Register(j)
        PROVE  (Marked /\ Gated /\ AtWork /\ Listed /\ OrphansAreRetried)'
    BY <1>6 DEF Register, Goes
  <1>7. ASSUME NEW j \in Job, Look(j)
        PROVE  (Marked /\ Gated /\ AtWork /\ Listed /\ OrphansAreRetried)'
    BY <1>7 DEF Look, Goes
  <1>8. ASSUME NEW j \in Job, Call(j)
        PROVE  (Marked /\ Gated /\ AtWork /\ Listed /\ OrphansAreRetried)'
    BY <1>8 DEF Call, Goes
  <1>9. ASSUME NEW j \in Job, Returns(j)
        PROVE  (Marked /\ Gated /\ AtWork /\ Listed /\ OrphansAreRetried)'
    BY <1>9 DEF Returns, Goes
  <1>10. ASSUME NEW j \in Job, Reports(j)
        PROVE  (Marked /\ Gated /\ AtWork /\ Listed /\ OrphansAreRetried)'
    BY <1>10 DEF Reports
  <1>11. ASSUME NEW j \in Job, Records(j)
        PROVE  (Marked /\ Gated /\ AtWork /\ Listed /\ OrphansAreRetried)'
    BY <1>11 DEF Records, Marks
  <1>12. ASSUME NEW j \in Job, HandsBack(j)
        PROVE  (Marked /\ Gated /\ AtWork /\ Listed /\ OrphansAreRetried)'
    BY <1>12 DEF HandsBack, Goes
  <1>13. ASSUME NEW j \in Job, Reap(j)
        PROVE  (Marked /\ Gated /\ AtWork /\ Listed /\ OrphansAreRetried)'
    BY <1>13 DEF Reap, Marks
  <1>14. ASSUME NEW j \in Job, OverrunReturns(j)
        PROVE  (Marked /\ Gated /\ AtWork /\ Listed /\ OrphansAreRetried)'
    BY <1>14 DEF OverrunReturns
  <1>15. ASSUME NEW j \in Job, Overruns(j)
        PROVE  (Marked /\ Gated /\ AtWork /\ Listed /\ OrphansAreRetried)'
    BY <1>15 DEF Overruns, Marks
  <1>16. ASSUME NEW j \in Job, TryEnds(j)
        PROVE  (Marked /\ Gated /\ AtWork /\ Listed /\ OrphansAreRetried)'
    BY <1>16 DEF TryEnds
  <1>17. ASSUME NEW j \in Job, SweepTries(j)
        PROVE  (Marked /\ Gated /\ AtWork /\ Listed /\ OrphansAreRetried)'
    BY <1>17 DEF SweepTries
  <1>18. ASSUME NEW j \in Job, NEW a \in Ask, AskSees(j, a)
        PROVE  (Marked /\ Gated /\ AtWork /\ Listed /\ OrphansAreRetried)'
    BY <1>18 DEF AskSees, From
  <1>19. ASSUME NEW j \in Job, NEW a \in Ask, AskChecks(j, a)
        PROVE  (Marked /\ Gated /\ AtWork /\ Listed /\ OrphansAreRetried)'
    BY <1>19 DEF AskChecks, From
  <1>20. ASSUME NEW j \in Job, NEW a \in Ask, AskStores(j, a)
        PROVE  (Marked /\ Gated /\ AtWork /\ Listed /\ OrphansAreRetried)'
    <2>1. CASE jobState[j] = From(a)
      <3>1. creating[j] # "gate" /\ run[j] = "none"
        BY <2>1 DEF From
      <3>2. jobState' = [jobState EXCEPT ![j] = "queued"] /\ retried \subseteq retried'
        BY <2>1, <1>20 DEF AskStores
      <3>3. OpenJobs' = OpenJobs \cup {j}
        BY <3>2
      <3>4. j \in OpenJobs \cup retried'
        BY <2>1, <1>20 DEF AskStores, From
      <3>5. UNCHANGED <<subscribed, marks, creating, run, pc, ids>>
        BY <1>20 DEF AskStores
      <3>6. Marked' /\ Gated' /\ AtWork'
        BY <3>1, <3>2, <3>5
      <3> HIDE DEF OpenJobs
      <3>7. Listed' /\ OrphansAreRetried'
        BY <3>2, <3>3, <3>4, <3>5
      <3> QED
        BY <3>6, <3>7
    <2>2. CASE jobState[j] # From(a)
      BY <2>2, <1>20 DEF AskStores
    <2> QED
      BY <2>1, <2>2
  <1>21. ASSUME NEW u \in Unsubscriber, Begin(u)
        PROVE  (Marked /\ Gated /\ AtWork /\ Listed /\ OrphansAreRetried)'
    BY <1>21 DEF Begin
  <1>22. ASSUME NEW u \in Unsubscriber, Mark(u)
        PROVE  (Marked /\ Gated /\ AtWork /\ Listed /\ OrphansAreRetried)'
    BY <1>22 DEF Mark
  <1>23. ASSUME NEW u \in Unsubscriber, List(u)
        PROVE  (Marked /\ Gated /\ AtWork /\ Listed /\ OrphansAreRetried)'
    BY <1>23 DEF List
  <1>24. ASSUME NEW u \in Unsubscriber, Waits(u)
        PROVE  (Marked /\ Gated /\ AtWork /\ Listed /\ OrphansAreRetried)'
    BY <1>24 DEF Waits
  <1>25. ASSUME NEW u \in Unsubscriber, TimeUp(u)
        PROVE  (Marked /\ Gated /\ AtWork /\ Listed /\ OrphansAreRetried)'
    BY <1>25 DEF TimeUp
  <1>26. ASSUME NEW u \in Unsubscriber, Remove(u)
        PROVE  (Marked /\ Gated /\ AtWork /\ Listed /\ OrphansAreRetried)'
    BY <1>26 DEF Remove
  <1>27. ASSUME NEW u \in Unsubscriber, GivesUp(u)
        PROVE  (Marked /\ Gated /\ AtWork /\ Listed /\ OrphansAreRetried)'
    BY <1>27 DEF GivesUp, Leaves
  <1>28. ASSUME NEW u \in Unsubscriber, Clear(u)
        PROVE  (Marked /\ Gated /\ AtWork /\ Listed /\ OrphansAreRetried)'
    BY <1>28 DEF Clear
  <1>29. ASSUME NEW u \in Unsubscriber, NEW j \in Job, LooksAt(u, j)
        PROVE  (Marked /\ Gated /\ AtWork /\ Listed /\ OrphansAreRetried)'
    <2>1. CASE jobState[j] \in Open
      BY <2>1, <1>29 DEF LooksAt
    <2>2. CASE jobState[j] \notin Open
      <3>1. /\ ids' = [ids EXCEPT ![u] = ids[u] \ {j}]
            /\ UNCHANGED <<rows, marks, people, layer, pc>>
        BY <2>2, <1>29 DEF LooksAt, Through
      <3>2. j \notin OpenJobs
        BY <2>2
      <3>3. pc[u] = "cancel"
        BY <1>29 DEF LooksAt
      <3> QED
        BY <3>1, <3>2, <3>3
    <2> QED
      BY <2>1, <2>2
  <1>30. ASSUME NEW u \in Unsubscriber, NEW j \in Job, CancelsSeen(u, j)
        PROVE  (Marked /\ Gated /\ AtWork /\ Listed /\ OrphansAreRetried)'
    BY <1>30 DEF CancelsSeen, Stops, Through
  <1>31. ASSUME NEW u \in Unsubscriber, NEW j \in Job, FindsChanged(u, j)
        PROVE  (Marked /\ Gated /\ AtWork /\ Listed /\ OrphansAreRetried)'
    <2>1. CASE looks[u] < MaxLooks
      BY <2>1, <1>31 DEF FindsChanged
    <2>2. CASE ~(looks[u] < MaxLooks)
      <3>1. Leaves(u)
        BY <2>2, <1>31 DEF FindsChanged
      <3>2. pc[u] = "cancel" /\ UNCHANGED <<rows, marks, people, layer>>
        BY <1>31 DEF FindsChanged
      <3> QED
        BY <3>1, <3>2 DEF Leaves
    <2> QED
      BY <2>1, <2>2
  <1>32. ASSUME NEW u \in Unsubscriber, NEW j \in Job, RunDone(u, j)
        PROVE  (Marked /\ Gated /\ AtWork /\ Listed /\ OrphansAreRetried)'
    BY <1>32 DEF RunDone
  <1>33. CASE UNCHANGED vars
    BY <1>33 DEF vars, removal
  <1> QED
    BY <1>1, <1>2, <1>3, <1>4, <1>5, <1>6, <1>7, <1>8, <1>9, <1>10, <1>11, <1>12, <1>13,
       <1>14, <1>15, <1>16, <1>17, <1>18, <1>19, <1>20, <1>21, <1>22, <1>23, <1>24,
       <1>25, <1>26, <1>27, <1>28, <1>29, <1>30, <1>31, <1>32, <1>33
       DEF Next, Person, Handler, Layer, Cancelling, GoesOn

(* A workspace that is not subscribed has no open job, save one that a retry opened again. *)
THEOREM Orphans == Spec => []OrphansAreRetried
  <1>1. OrphanInv => OrphansAreRetried
    BY DEF OrphanInv
  <1> QED
    BY <1>1, OrphanInit, OrphanStep, PTL DEF Spec

-----------------------------------------------------------------------------
(* The token. *)

(* A job whose cleanup is marked, or whose run was told to stop or is through, is cancelled for good. *)
Gone ==
  \A j \in Job :
    cleanup[j] # "none" \/ j \in stopped \/ run[j] \in {"overrun", "left", "reaped"} => jobState[j] = "cancelled"

(* What a removal owes a job that it cancelled, until its wait runs out: its run is on the list while it may still mark *)
(* the cleanup, a cleanup that is marked has its try or its run is still to begin one, and the try is waited for once   *)
(* the run is through.                                                                                                  *)
Awaits(u, j) ==
  /\ j \in runs[u] /\ cleanup[j] = "pending" /\ run[j] \notin {"overrun", "reaped"} => j \in tries \cup tried
  /\ j \notin runs[u] /\ cleanup[j] = "pending" /\ run[j] # "reaped" => j \in waits[u] \cup tried
  /\ j \notin runs[u] /\ cleanup[j] = "none" => Done(j)

Owed(u, j) ==
  /\ jobState[j] = "cancelled"
  /\ run[j] = "looked" => j \in stopped
  /\ run[j] = "runner" => pc[u] = "cancel" /\ j \in runs[u]
  /\ ~over[u] => Awaits(u, j)

Owes ==
  \A u \in Unsubscriber :
    /\ pc[u] \in {"mark", "list"} => mine[u] = {}
    /\ pc[u] \in {"cancel", "tries"} => \A j \in mine[u] : Owed(u, j)

TokenInv == Gone /\ Owes

LEMMA TokenInit == Init => TokenInv
  BY DEF Init, TokenInv, Gone, Owes

(* What a step leaves as it is, or has moved on, for a removal and a job. *)
SameJob(j) ==
  /\ jobState'[j] = jobState[j] /\ run'[j] = run[j] /\ cleanup'[j] = cleanup[j]
  /\ j \in stopped' <=> j \in stopped
  /\ j \in tries \cup tried => j \in tries' \cup tried'
  /\ j \in tried => j \in tried'
SameRemoval(u, j) ==
  /\ pc'[u] = pc[u] /\ over'[u] = over[u] /\ mine'[u] = mine[u]
  /\ j \in runs'[u] <=> j \in runs[u]
  /\ j \in waits[u] => j \in waits'[u] \cup tried'

LEMMA OwedStays ==
  ASSUME NEW u, NEW j, Owed(u, j), SameJob(j), SameRemoval(u, j)
  PROVE  Owed(u, j)'
  BY DEF Owed, Awaits, Done, SameJob, SameRemoval

(* A step of a job leaves the others, and each removal but for the try that it no longer waits for. *)
JobStep(k) == Person(k) \/ Handler(k) \/ Layer(k)

LEMMA JobFrame ==
  ASSUME TypeInv, NEW k \in Job, JobStep(k)
  PROVE  /\ \A j \in Job \ {k} : SameJob(j)
         /\ \A u \in Unsubscriber, j \in Job : SameRemoval(u, j)
  <1> USE DEF TypeInv, TypeOK, SameJob, SameRemoval, rows, people, layer, removal
  <1>1. CASE Person(k)
    <2>1. CASE CreateChecks(k) \/ CreateStores(k)
      BY <2>1 DEF CreateChecks, CreateStores
    <2>2. CASE Cancel(k)
      <3>1. \A j \in Job \ {k} : (j \in stopped' <=> j \in stopped) /\ cleanup'[j] = cleanup[j] /\ (j \in tries' <=> j \in tries)
        BY <2>2 DEF Cancel, Stops
      <3> QED
        BY <2>2, <3>1 DEF Cancel
    <2>3. CASE \E a \in Ask : AskSees(k, a) \/ AskChecks(k, a) \/ AskStores(k, a)
      BY <2>3 DEF AskSees, AskChecks, AskStores
    <2> QED
      BY <1>1, <2>1, <2>2, <2>3 DEF Person
  <1>2. CASE Handler(k)
    <2>1. CASE Claim(k) \/ Reports(k) \/ OverrunReturns(k)
      BY <2>1 DEF Claim, Reports, OverrunReturns
    <2>2. CASE Register(k) \/ Look(k) \/ Call(k) \/ Returns(k) \/ HandsBack(k)
      BY <2>2 DEF Register, Look, Call, Returns, HandsBack, Goes
    <2>3. CASE Records(k) \/ Reap(k)
      <3>1. \A j \in Job \ {k} : jobState'[j] = jobState[j] /\ cleanup'[j] = cleanup[j] /\ (j \in tries' <=> j \in tries)
        BY <2>3 DEF Records, Reap
      <3>2. \A j \in Job \ {k} : run'[j] = run[j] /\ (j \in stopped' <=> j \in stopped) /\ tried' = tried
        BY <2>3 DEF Records, Reap
      <3> QED
        BY <2>3, <3>1, <3>2 DEF Records, Reap
    <2> QED
      BY <1>2, <2>1, <2>2, <2>3 DEF Handler
  <1>3. CASE Layer(k)
    BY <1>3 DEF Layer, Overruns, TryEnds, SweepTries
  <1> QED
    BY <1>1, <1>2, <1>3 DEF JobStep

(* A step of a job that a removal cancelled: the job stays cancelled, and no runner is called for it. *)
LEMMA JobOwed ==
  ASSUME OrphanInv, Gone, NEW k \in Job, JobStep(k), NEW u \in Unsubscriber, Owed(u, k)
  PROVE  Owed(u, k)'
  <1>0. UNCHANGED <<pc, runs, over>> /\ (k \in waits[u] => k \in waits'[u] \cup tried')
    BY JobFrame DEF OrphanInv, SameRemoval, JobStep, Person, Handler, Layer, CreateChecks, CreateStores, Cancel, AskSees, AskChecks, AskStores,
       Claim, Register, Look, Call, Returns, Goes, Reports, Records, HandsBack, Reap, OverrunReturns, Overruns, TryEnds, SweepTries, removal
  <1>1. jobState[k] = "cancelled" /\ run[k] \in {"none", "claimed", "known", "looked", "runner", "overrun", "back", "left", "reaped"}
    BY DEF Owed, OrphanInv, TypeInv, TypeOK
  <1>a. jobState \in [Job -> Open \cup {"absent", "done", "failed", "cancelled"}] /\ cleanup \in [Job -> {"none", "pending", "ended"}]
         /\ run \in [Job -> {"none", "claimed", "known", "looked", "runner", "overrun", "back", "left", "reaped"}]
    BY DEF OrphanInv, TypeInv, TypeOK
  <1> USE DEF rows, people, layer, removal
  <1>2. CASE Person(k)
    <2>1. UNCHANGED <<jobState, run, cleanup, stopped, tries, tried>>
      BY <1>1, <1>2 DEF Person, CreateChecks, CreateStores, Cancel, AskSees, AskChecks, AskStores, Ask, From, Open, OrphanInv, Gated
    <2> QED
      BY <1>0, <2>1 DEF Owed, Awaits, Done
  <1>3. CASE Claim(k)
    BY <1>0, <1>1, <1>a, <1>3 DEF Claim, Owed, Awaits, Done
  <1>4. CASE Register(k)
    BY <1>0, <1>1, <1>a, <1>4 DEF Register, Goes, Owed, Awaits, Done
  <1>5. CASE Look(k)
    BY <1>0, <1>1, <1>a, <1>5 DEF Look, Goes, Owed, Awaits, Done
  <1>6. CASE Call(k)
    BY <1>0, <1>1, <1>a, <1>6 DEF Call, Goes, Owed, Awaits, Done
  <1>7. CASE Returns(k)
    BY <1>0, <1>1, <1>a, <1>7 DEF Returns, Goes, Owed, Awaits, Done
  <1>8. CASE Reports(k)
    BY <1>0, <1>1, <1>a, <1>8 DEF Reports, Owed, Awaits, Done
  <1>9. CASE Records(k)
    BY <1>0, <1>1, <1>a, <1>9 DEF Records, Marks, Owed, Awaits, Done
  <1>10. CASE HandsBack(k)
    BY <1>0, <1>1, <1>a, <1>10 DEF HandsBack, Goes, Owed, Awaits, Done
  <1>11. CASE Reap(k)
    BY <1>0, <1>1, <1>a, <1>11 DEF Reap, Marks, Owed, Awaits, Done
  <1>12. CASE OverrunReturns(k)
    BY <1>0, <1>1, <1>a, <1>12 DEF OverrunReturns, Owed, Awaits, Done
  <1>13. CASE Overruns(k)
    BY <1>0, <1>1, <1>a, <1>13 DEF Overruns, Marks, Owed, Awaits, Done
  <1>14. CASE TryEnds(k)
    BY <1>0, <1>1, <1>a, <1>14 DEF TryEnds, Owed, Awaits, Done
  <1>15. CASE SweepTries(k)
    BY <1>0, <1>1, <1>a, <1>15 DEF SweepTries, Owed, Awaits, Done
  <1> QED
    BY <1>2, <1>3, <1>4, <1>5, <1>6, <1>7, <1>8, <1>9, <1>10, <1>11, <1>12, <1>13, <1>14, <1>15 DEF JobStep, Handler, Layer

LEMMA GoneJob ==
  ASSUME OrphanInv, Gone, NEW k \in Job, JobStep(k)
  PROVE  Gone'
  <1>1. ASSUME NEW j \in Job \ {k}
        PROVE  cleanup'[j] # "none" \/ j \in stopped' \/ run'[j] \in {"overrun", "left", "reaped"} => jobState'[j] = "cancelled"
    BY <1>1, JobFrame DEF OrphanInv, SameJob, Gone
  <1>a. jobState \in [Job -> Open \cup {"absent", "done", "failed", "cancelled"}] /\ cleanup \in [Job -> {"none", "pending", "ended"}]
         /\ run \in [Job -> {"none", "claimed", "known", "looked", "runner", "overrun", "back", "left", "reaped"}]
    BY DEF OrphanInv, TypeInv, TypeOK
  <1>2. jobState'[k] = "cancelled" \/ ~(cleanup'[k] # "none" \/ k \in stopped' \/ run'[k] \in {"overrun", "left", "reaped"})
    <2> USE DEF rows, people, layer, removal
    <2>1. CASE Person(k)
      <3>1. CASE Cancel(k)
        BY <1>a, <3>1 DEF Cancel
      <3>2. CASE CreateChecks(k) \/ CreateStores(k)
        BY <1>a, <3>2 DEF CreateChecks, CreateStores, Gone, OrphanInv, Gated
      <3>3. CASE \E a \in Ask : AskSees(k, a) \/ AskChecks(k, a) \/ AskStores(k, a)
        <4>1. UNCHANGED <<cleanup, stopped, run>> /\ (UNCHANGED jobState \/ jobState[k] \in {"blocked", "failed"})
          BY <3>3 DEF AskSees, AskChecks, AskStores, From
        <4> QED
          BY <4>1 DEF Gone
      <3> QED
        BY <2>1, <3>1, <3>2, <3>3 DEF Person
    <2>2. CASE Claim(k) \/ Register(k) \/ Look(k) \/ Call(k) \/ Returns(k) \/ Reports(k) \/ HandsBack(k)
      BY <1>a, <2>2 DEF Claim, Register, Look, Call, Returns, Reports, HandsBack, Goes, Gone
    <2>3. CASE Records(k)
      BY <1>a, <2>3 DEF Records, Gone
    <2>4. CASE Reap(k) \/ OverrunReturns(k) \/ Overruns(k)
      BY <1>a, <2>4 DEF Reap, OverrunReturns, Overruns, Gone
    <2>5. CASE TryEnds(k) \/ SweepTries(k)
      BY <1>a, <2>5 DEF TryEnds, SweepTries, Gone
    <2> QED
      BY <2>1, <2>2, <2>3, <2>4, <2>5 DEF JobStep, Handler, Layer
  <1> QED
    BY <1>1, <1>2 DEF Gone

(* A step of a removal but its cancel of a job leaves the jobs, and the other removals. *)
LEMMA RemovalFrame ==
  ASSUME OrphanInv, NEW w \in Unsubscriber, Begin(w) \/ GoesOn(w) \/ GivesUp(w), \A j \in Job : ~CancelsSeen(w, j)
  PROVE  /\ UNCHANGED <<jobState, run, cleanup, stopped, tries, tried>>
         /\ \A u \in Unsubscriber \ {w}, j \in Job : SameRemoval(u, j)
  <1> USE DEF OrphanInv, TypeInv, TypeOK, SameRemoval, rows, people, layer
  <1>1. CASE Begin(w) \/ Mark(w) \/ List(w) \/ Waits(w) \/ TimeUp(w) \/ Remove(w) \/ Clear(w)
    BY <1>1 DEF Begin, Mark, List, Waits, TimeUp, Remove, Clear
  <1>2. CASE GivesUp(w)
    BY <1>2 DEF GivesUp, Leaves
  <1>3. ASSUME NEW j \in Job, LooksAt(w, j) \/ RunDone(w, j)
        PROVE  /\ UNCHANGED <<jobState, run, cleanup, stopped, tries, tried>>
               /\ \A u \in Unsubscriber \ {w}, k \in Job : SameRemoval(u, k)
    BY <1>3 DEF LooksAt, Through, RunDone
  <1>4. ASSUME NEW j \in Job, FindsChanged(w, j)
        PROVE  /\ UNCHANGED <<jobState, run, cleanup, stopped, tries, tried>>
               /\ \A u \in Unsubscriber \ {w}, k \in Job : SameRemoval(u, k)
    BY <1>4 DEF FindsChanged, Leaves
  <1> QED
    BY <1>1, <1>2, <1>3, <1>4 DEF GoesOn, Cancelling

(* What a removal owes after a step of its own that cancels nothing: it waits for more, or for what is through. *)
LEMMA RemovalOwed ==
  ASSUME OrphanInv, Owes, NEW w \in Unsubscriber, Begin(w) \/ GoesOn(w) \/ GivesUp(w), \A j \in Job : ~CancelsSeen(w, j)
  PROVE  /\ pc'[w] \in {"mark", "list"} => mine'[w] = {}
         /\ pc'[w] \in {"cancel", "tries"} => \A j \in mine'[w] : Owed(w, j)'
  <1>0. UNCHANGED <<jobState, run, cleanup, stopped, tries, tried>>
    BY RemovalFrame
  <1> USE DEF OrphanInv, TypeInv, TypeOK, Owes
  <1>1. CASE Begin(w) \/ Mark(w) \/ List(w)
    BY <1>1 DEF Begin, Mark, List
  <1>2. CASE GivesUp(w) \/ Remove(w) \/ Clear(w)
    BY <1>2 DEF GivesUp, Leaves, Remove, Clear
  <1>3. CASE Waits(w)
    <2>1. pc[w] = "cancel" /\ UNCHANGED <<runs, waits, over, mine>> /\ pc' = [pc EXCEPT ![w] = "tries"] /\ \A j \in runs[w] : run[j] # "runner"
      BY <1>3 DEF Waits, Settled
    <2> QED
      BY <1>0, <2>1 DEF Owed, Awaits, Done
  <1>4. CASE TimeUp(w)
    BY <1>0, <1>4 DEF TimeUp, Owed
  <1>5. ASSUME NEW j \in Job, LooksAt(w, j)
        PROVE  pc'[w] = "cancel" /\ \A k \in mine'[w] : Owed(w, k)'
    <2>1. UNCHANGED <<pc, over, mine>> /\ pc[w] = "cancel" /\ runs'[w] = runs[w] /\ waits[w] \subseteq waits'[w]
      BY <1>5 DEF LooksAt, Through
    <2> QED
      BY <1>0, <2>1 DEF Owed, Awaits, Done
  <1>6. ASSUME NEW j \in Job, RunDone(w, j)
        PROVE  pc'[w] = "tries" /\ \A k \in mine'[w] : Owed(w, k)'
    <2>1. UNCHANGED <<pc, over, mine>> /\ pc[w] = "tries" /\ Done(j)
      BY <1>6 DEF RunDone
    <2>2. runs'[w] = runs[w] \ {j} /\ waits'[w] = waits[w] \cup ({j} \cap tries)
      BY <1>6 DEF RunDone
    <2> QED
      BY <1>0, <2>1, <2>2 DEF Owed, Awaits, Done
  <1>7. ASSUME NEW j \in Job, FindsChanged(w, j)
        PROVE  pc'[w] = "clear" \/ (pc'[w] = "cancel" /\ \A k \in mine'[w] : Owed(w, k)')
    <2>1. CASE looks[w] < MaxLooks
      BY <1>0, <1>7, <2>1 DEF FindsChanged, Owed, Awaits, Done
    <2>2. CASE ~(looks[w] < MaxLooks)
      BY <1>7, <2>2 DEF FindsChanged, Leaves
    <2> QED
      BY <2>1, <2>2
  <1> QED
    BY <1>1, <1>2, <1>3, <1>4, <1>5, <1>6, <1>7 DEF GoesOn, Cancelling, Begin, Mark, List, GivesUp, Leaves, Remove, Clear, TimeUp, Waits

(* A removal that cancels a job finds it open, so that no removal cancelled it before; and it owes it what it found. *)
LEMMA CancelOwed ==
  ASSUME OrphanInv, TokenInv, NEW w \in Unsubscriber, NEW j \in Job, CancelsSeen(w, j)
  PROVE  TokenInv'
  <1>0. /\ jobState \in [Job -> Open \cup {"absent", "done", "failed", "cancelled"}] /\ cleanup \in [Job -> {"none", "pending", "ended"}]
        /\ runs \in [Unsubscriber -> SUBSET Job] /\ waits \in [Unsubscriber -> SUBSET Job] /\ mine \in [Unsubscriber -> SUBSET Job]
        /\ looking \in [Unsubscriber -> {Nobody} \cup [job : Job, state : Open \cup {"changed"}]]
        /\ run \in [Job -> {"none", "claimed", "known", "looked", "runner", "overrun", "back", "left", "reaped"}]
    BY DEF OrphanInv, TypeInv, TypeOK
  <1>1. jobState[j] # "cancelled"
    BY <1>0 DEF CancelsSeen, Open, Nobody
  <1>2. jobState' = [jobState EXCEPT ![j] = "cancelled"] /\ UNCHANGED <<run, tried, pc, over>> /\ pc[w] = "cancel"
    BY DEF CancelsSeen
  <1>3. /\ cleanup[j] = "none" /\ j \notin stopped /\ run[j] \notin {"overrun", "left", "reaped"}
    BY <1>1 DEF TokenInv, Gone
  <1>4. stopped' = stopped \cup ({j} \cap Inflight)
    BY DEF CancelsSeen, Stops
  <1>5. \/ run[j] = "runner" /\ UNCHANGED <<cleanup, tries>>
        \/ run[j] # "runner" /\ cleanup' = [cleanup EXCEPT ![j] = "pending"] /\ tries' = tries \cup {j}
    BY <1>3 DEF CancelsSeen, Stops
  <1>6. mine' = [mine EXCEPT ![w] = @ \cup {j}]
    BY DEF CancelsSeen
  <1>7. /\ runs' = [runs EXCEPT ![w] = @ \cup ({j} \cap Inflight)]
        /\ waits' = [waits EXCEPT ![w] = IF {j} \cap Inflight = {} THEN @ \cup ({j} \cap tries') ELSE @]
    BY DEF CancelsSeen, Through
  <1>8. Gone'
    BY <1>0, <1>2, <1>4, <1>5 DEF TokenInv, Gone
  <1>9. \A k \in Job \ {j} : SameJob(k) /\ \A u \in Unsubscriber : k \in mine'[u] => k \in mine[u]
    BY <1>0, <1>2, <1>4, <1>5, <1>6 DEF SameJob
  <1>10. \A k \in Job \ {j}, u \in Unsubscriber :
           pc'[u] = pc[u] /\ over'[u] = over[u] /\ (k \in runs'[u] <=> k \in runs[u]) /\ (k \in waits[u] => k \in waits'[u])
    BY <1>0, <1>2, <1>7
  <1>11. ASSUME NEW u \in Unsubscriber, pc'[u] \in {"cancel", "tries"}, NEW k \in mine'[u]
         PROVE  Owed(u, k)'
    <2>1. CASE k # j
      <3>1. k \in Job /\ k \in mine[u] /\ pc[u] \in {"cancel", "tries"}
        BY <1>0, <1>2, <1>6, <1>9, <1>11, <2>1
      <3>2. Owed(u, k)
        BY <3>1 DEF TokenInv, Owes
      <3> QED
        BY <1>9, <1>10, <2>1, <3>1, <3>2 DEF Owed, Awaits, Done, SameJob
    <2>2. CASE k = j
      <3>1. u = w
        BY <1>0, <1>1, <1>2, <1>6, <1>11, <2>2 DEF TokenInv, Owes, Owed
      <3>2. Inflight = {i \in Job : run[i] \in {"known", "looked", "runner", "overrun"}}
        BY DEF Inflight
      <3>3. (j \in Inflight => j \in stopped' /\ j \in runs'[w]) /\ (j \notin Inflight => (j \in tries' => j \in waits'[w]))
        BY <1>0, <1>4, <1>7
      <3> QED
        BY <1>0, <1>2, <1>3, <1>5, <2>2, <3>1, <3>2, <3>3 DEF Owed, Awaits, Done
    <2> QED
      BY <2>1, <2>2
  <1>12. \A u \in Unsubscriber : pc'[u] \in {"mark", "list"} => mine'[u] = {}
    BY <1>0, <1>2, <1>6 DEF TokenInv, Owes
  <1> QED
    BY <1>8, <1>11, <1>12 DEF TokenInv, Owes

LEMMA TokenStep ==
  ASSUME OrphanInv, TokenInv, [Next]_vars
  PROVE  TokenInv'
  <1>1. ASSUME NEW k \in Job, JobStep(k)
        PROVE  TokenInv'
    <2>1. \A u \in Unsubscriber, j \in Job : SameRemoval(u, j)
      BY <1>1, JobFrame DEF OrphanInv
    <2>2. \A u \in Unsubscriber : pc'[u] = pc[u] /\ mine'[u] = mine[u]
      BY <2>1, <1>1 DEF SameRemoval
    <2>3. ASSUME NEW u \in Unsubscriber, pc'[u] \in {"cancel", "tries"}, NEW j \in mine'[u]
          PROVE  Owed(u, j)'
      <3>1. j \in Job /\ Owed(u, j)
        BY <2>2, <2>3 DEF TokenInv, Owes, OrphanInv, TypeInv, TypeOK
      <3>2. CASE j = k
        BY <1>1, <3>1, <3>2, JobOwed DEF TokenInv
      <3>3. CASE j # k
        <4>1. SameJob(j)
          BY <1>1, <3>1, <3>3, JobFrame DEF OrphanInv
        <4> QED
          BY <2>1, <3>1, <4>1, OwedStays
      <3> QED
        BY <3>2, <3>3
    <2>4. Gone'
      BY <1>1, GoneJob DEF TokenInv
    <2> QED
      BY <2>2, <2>3, <2>4 DEF TokenInv, Owes
  <1>2. ASSUME NEW w \in Unsubscriber, NEW j \in Job, CancelsSeen(w, j)
        PROVE  TokenInv'
    BY <1>2, CancelOwed
  <1>3. ASSUME NEW w \in Unsubscriber, Begin(w) \/ GoesOn(w) \/ GivesUp(w), \A j \in Job : ~CancelsSeen(w, j)
        PROVE  TokenInv'
    <2>1. /\ UNCHANGED <<jobState, run, cleanup, stopped, tries, tried>>
          /\ \A u \in Unsubscriber \ {w}, j \in Job : SameRemoval(u, j)
      BY <1>3, RemovalFrame
    <2>2. Gone'
      BY <2>1 DEF TokenInv, Gone
    <2>3. \A j \in Job : SameJob(j)
      BY <2>1 DEF SameJob
    <2>4. ASSUME NEW u \in Unsubscriber \ {w}
          PROVE  /\ pc'[u] \in {"mark", "list"} => mine'[u] = {}
                 /\ pc'[u] \in {"cancel", "tries"} => \A j \in mine'[u] : Owed(u, j)'
      <3>1. mine[u] \subseteq Job
        BY DEF OrphanInv, TypeInv, TypeOK
      <3>2. pc'[u] = pc[u] /\ mine'[u] = mine[u]
        BY <1>3, <2>4 DEF OrphanInv, TypeInv, TypeOK, Begin, GivesUp, Leaves, GoesOn, Mark, List, Cancelling, LooksAt, FindsChanged, Waits, RunDone, TimeUp, Remove, Clear, Through
      <3>3. ASSUME NEW j \in mine[u], pc[u] \in {"cancel", "tries"}
            PROVE  Owed(u, j)'
        <4>1. Owed(u, j) /\ SameJob(j) /\ SameRemoval(u, j)
          BY <2>1, <2>3, <3>1, <3>3 DEF TokenInv, Owes
        <4> QED
          BY <4>1, OwedStays
      <3> QED
        BY <3>2, <3>3 DEF TokenInv, Owes
    <2>5. /\ pc'[w] \in {"mark", "list"} => mine'[w] = {}
          /\ pc'[w] \in {"cancel", "tries"} => \A j \in mine'[w] : Owed(w, j)'
      BY <1>3, RemovalOwed DEF TokenInv
    <2> QED
      BY <2>2, <2>4, <2>5 DEF TokenInv, Owes
  <1>4. CASE Subscribe \/ UNCHANGED vars
    <2>1. UNCHANGED <<jobState, cleanup, layer, removal>>
      BY <1>4 DEF Subscribe, vars, rows
    <2> QED
      BY <2>1 DEF TokenInv, Gone, Owes, Owed, Awaits, Done, layer, removal
  <1> QED
    BY <1>1, <1>2, <1>3, <1>4 DEF Next, JobStep

(* Service.Unsubscribe: the token is not taken away while a runner of a job that the removal cancelled is at work, nor *)
(* before the first try of a cleanup that it is to wait for, for any number of jobs, handlers and removals at once.    *)
THEOREM TokenWaits == Spec => []WaitsForToken
  <1>1. TokenInv /\ OrphanInv => WaitsForToken
    BY DEF TokenInv, Owes, Owed, Awaits, WaitsForToken, RunnersFirst, TriesFirst, OrphanInv, TypeInv, TypeOK
  <1> QED
    BY <1>1, OrphanInit, OrphanStep, TokenInit, TokenStep, PTL DEF Spec
=============================================================================
