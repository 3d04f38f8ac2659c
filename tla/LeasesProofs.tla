---------------------------- MODULE LeasesProofs ----------------------------
(***************************************************************************)
(* The reconciler takes no sandbox that a delivery works in, for any       *)
(* number of attempts, leases and failures.  The argument: an id is given  *)
(* out once and names one attempt, so that a sandbox that a pass judged,   *)
(* when its attempt was in no runner, is not that of a later delivery.     *)
(***************************************************************************)
EXTENDS Leases, TLAPS

(* A sandbox that is in use names its delivery, and ids are given out in order. *)
NamesItsOwn == \A a \in Attempt : InUse(a) => lease[a] \in 1..granted /\ names[lease[a]] = a
GivenOut == held \subseteq 1..granted /\ listed \subseteq 1..granted /\ judged \in 0..granted

(* The sandbox that a pass is about to release is that of no delivery. *)
JudgedIsFree == judged # NoLease => \A a \in Attempt : InUse(a) => lease[a] # judged

IInv == TypeOK /\ LeaseHeld /\ NamesItsOwn /\ GivenOut /\ JudgedIsFree

(* The inductive invariant holds at first. *)
LEMMA InitIInv == Init => IInv
BY LeasesAssumption
   DEF Init, IInv, TypeOK, LeaseHeld, NamesItsOwn, GivenOut, JudgedIsFree, InUse, Id, NoLease

(* Every step keeps it. *)
LEMMA NextIInv == IInv /\ [Next]_vars => IInv'
<1> SUFFICES ASSUME IInv, [Next]_vars PROVE IInv'
  OBVIOUS
<1> USE LeasesAssumption DEF IInv, TypeOK, LeaseHeld, NamesItsOwn, GivenOut, JudgedIsFree, InUse, Id, NoLease,
                             Fault, NoFault, Goes, runners, passes
<1>1. CASE UNCHANGED vars
  BY <1>1 DEF vars
<1>2. CASE Restarts
  BY <1>2 DEF Restarts
<1>3. CASE PassLists
  BY <1>3 DEF PassLists
<1>4. ASSUME NEW i \in listed, PassJudges(i) PROVE IInv'
  <2>1. TypeOK'
    BY <1>4 DEF PassJudges, Orphan, Running
  <2>2. LeaseHeld'
    BY <1>4 DEF PassJudges, Orphan, Running
  <2>3. NamesItsOwn'
    BY <1>4 DEF PassJudges, Orphan, Running
  <2>4. GivenOut'
    BY <1>4 DEF PassJudges, Orphan, Running
  <2>5. JudgedIsFree'
    BY <1>4 DEF PassJudges, Orphan, Running
  <2>6. QED
    BY <2>1, <2>2, <2>3, <2>4, <2>5
<1>5. CASE PassReleases
  <2>0. held' \subseteq held
    BY <1>5 DEF PassReleases
  <2>a. held' \subseteq 1..MaxLeases
    BY <2>0
  <2>1. TypeOK'
    BY <1>5, <2>a DEF PassReleases
  <2>2. LeaseHeld'
    BY <1>5 DEF PassReleases
  <2>3. NamesItsOwn'
    BY <1>5 DEF PassReleases
  <2>b. held' \subseteq 1..granted
    BY <2>0
  <2>4. GivenOut'
    BY <1>5, <2>b DEF PassReleases
  <2>5. JudgedIsFree'
    BY <1>5 DEF PassReleases
  <2>6. QED
    BY <2>1, <2>2, <2>3, <2>4, <2>5
<1>6. ASSUME NEW a \in Attempt, Deliver(a) PROVE IInv'
  <2>1. TypeOK'
    BY <1>6 DEF Deliver
  <2>2. LeaseHeld'
    BY <1>6 DEF Deliver
  <2>3. NamesItsOwn'
    BY <1>6 DEF Deliver
  <2>4. GivenOut'
    BY <1>6 DEF Deliver
  <2>5. JudgedIsFree'
    BY <1>6 DEF Deliver
  <2>6. QED
    BY <2>1, <2>2, <2>3, <2>4, <2>5
<1>7. ASSUME NEW a \in Attempt, Purges(a) PROVE IInv'
  <2>1. TypeOK'
    BY <1>7 DEF Purges, Running
  <2>2. LeaseHeld'
    BY <1>7 DEF Purges, Running
  <2>3. NamesItsOwn'
    BY <1>7 DEF Purges, Running
  <2>4. GivenOut'
    BY <1>7 DEF Purges, Running
  <2>5. JudgedIsFree'
    BY <1>7 DEF Purges, Running
  <2>6. QED
    BY <2>1, <2>2, <2>3, <2>4, <2>5
<1>8. ASSUME NEW a \in Attempt, Lease(a) PROVE IInv'
  <2>0. granted' \in 1..MaxLeases
    BY <1>8 DEF Lease
  <2>a. held' \subseteq 1..MaxLeases
    BY <1>8, <2>0 DEF Lease
  <2>f. pc' \in [Attempt -> {"none", "lease", "loop", "release", "return"}]
    BY <1>8 DEF Lease
  <2>g. lease' = lease \/ lease' = [lease EXCEPT ![a] = granted']
    BY <1>8 DEF Lease
  <2>b. lease' \in [Attempt -> 0..MaxLeases]
    BY <2>0, <2>g
  <2>c. names' \in [1..MaxLeases -> Attempt]
    BY <1>8, <2>0 DEF Lease
  <2>e. faults' \in 0..MaxFaults
    BY <1>8 DEF Lease
  <2>d. \A c \in Attempt : ~(pc'[c] \in {"loop", "release"}) => lease'[c] = 0
    BY <1>8, <2>0 DEF Lease
  <2>1. TypeOK'
    BY <1>8, <2>0, <2>a, <2>b, <2>c, <2>d, <2>e, <2>f DEF Lease
  <2>2. LeaseHeld'
    BY <1>8 DEF Lease
  <2>3. NamesItsOwn'
    BY <1>8 DEF Lease
  <2>4. GivenOut'
    BY <1>8 DEF Lease
  <2>5. JudgedIsFree'
    BY <1>8 DEF Lease
  <2>6. QED
    BY <2>1, <2>2, <2>3, <2>4, <2>5
<1>9. ASSUME NEW a \in Attempt, LeaseFails(a) PROVE IInv'
  <2>1. TypeOK'
    BY <1>9 DEF LeaseFails
  <2>2. LeaseHeld'
    BY <1>9 DEF LeaseFails
  <2>3. NamesItsOwn'
    BY <1>9 DEF LeaseFails
  <2>4. GivenOut'
    BY <1>9 DEF LeaseFails
  <2>5. JudgedIsFree'
    BY <1>9 DEF LeaseFails
  <2>6. QED
    BY <2>1, <2>2, <2>3, <2>4, <2>5
<1>10. ASSUME NEW a \in Attempt, LoopEnds(a) PROVE IInv'
  <2>1. TypeOK'
    BY <1>10 DEF LoopEnds
  <2>2. LeaseHeld'
    BY <1>10 DEF LoopEnds
  <2>3. NamesItsOwn'
    BY <1>10 DEF LoopEnds
  <2>4. GivenOut'
    BY <1>10 DEF LoopEnds
  <2>5. JudgedIsFree'
    BY <1>10 DEF LoopEnds
  <2>6. QED
    BY <2>1, <2>2, <2>3, <2>4, <2>5
<1>11. ASSUME NEW a \in Attempt, ReleaseLease(a) PROVE IInv'
  <2>0. held' \subseteq held
    BY <1>11 DEF ReleaseLease
  <2>a. held' \subseteq 1..MaxLeases
    BY <2>0
  <2>1. TypeOK'
    BY <1>11, <2>a DEF ReleaseLease
  <2>2. LeaseHeld'
    BY <1>11 DEF ReleaseLease
  <2>3. NamesItsOwn'
    BY <1>11 DEF ReleaseLease
  <2>b. held' \subseteq 1..granted
    BY <2>0
  <2>4. GivenOut'
    BY <1>11, <2>b DEF ReleaseLease
  <2>5. JudgedIsFree'
    BY <1>11 DEF ReleaseLease
  <2>6. QED
    BY <2>1, <2>2, <2>3, <2>4, <2>5
<1>12. ASSUME NEW a \in Attempt, Panics(a) PROVE IInv'
  <2>0. held' \subseteq held
    BY <1>12 DEF Panics
  <2>a. held' \subseteq 1..MaxLeases
    BY <2>0
  <2>1. TypeOK'
    BY <1>12, <2>a DEF Panics
  <2>2. LeaseHeld'
    BY <1>12 DEF Panics
  <2>3. NamesItsOwn'
    BY <1>12 DEF Panics
  <2>b. held' \subseteq 1..granted
    BY <2>0
  <2>4. GivenOut'
    BY <1>12, <2>b DEF Panics
  <2>5. JudgedIsFree'
    BY <1>12 DEF Panics
  <2>6. QED
    BY <2>1, <2>2, <2>3, <2>4, <2>5
<1>13. ASSUME NEW a \in Attempt, Returns(a) PROVE IInv'
  <2>1. TypeOK'
    BY <1>13 DEF Returns
  <2>2. LeaseHeld'
    BY <1>13 DEF Returns
  <2>3. NamesItsOwn'
    BY <1>13 DEF Returns
  <2>4. GivenOut'
    BY <1>13 DEF Returns
  <2>5. JudgedIsFree'
    BY <1>13 DEF Returns
  <2>6. QED
    BY <2>1, <2>2, <2>3, <2>4, <2>5
<1>14. QED
  BY <1>1, <1>2, <1>3, <1>4, <1>5, <1>6, <1>7, <1>8, <1>9, <1>10, <1>11, <1>12, <1>13 DEF Next, Pass, Runs

(* Every reachable state is well typed, and a delivery has a sandbox only while it works in it. *)
THEOREM LeasesTypes == Spec => []TypeOK
<1>1. IInv => TypeOK
  BY DEF IInv
<1>2. QED
  BY <1>1, InitIInv, NextIInv, PTL DEF Spec

(* internal/service/reconcile: no pass takes the sandbox that a delivery works in, for any number of attempts, leases, *)
(* failed calls and restarts.                                                                                           *)
THEOREM LeaseIsHeld == Spec => []LeaseHeld
<1>1. IInv => LeaseHeld
  BY DEF IInv
<1>2. QED
  BY <1>1, InitIInv, NextIInv, PTL DEF Spec
=============================================================================
