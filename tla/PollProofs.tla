----------------------------- MODULE PollProofs -----------------------------
(***************************************************************************)
(* What the label poll keeps for any release delay and index lag below it, *)
(* and any number of requests, jobs, records and faults: its types, with   *)
(* the lock that one cycle holds; that a label which is on the issue still *)
(* is not taken twice; that a request is answered or retried once; and     *)
(* that a label which a cancel put back makes no job.                      *)
(*                                                                         *)
(* Three records of the past stand behind these.  A removal that is owed   *)
(* stays recorded for as long as the label it is owed for is on the issue  *)
(* (OwedIsKept), and is read before the label is taken.  A label that was  *)
(* answered and is gone from the issue is guarded for as long as the index *)
(* may show it (GuardIsKept), and in the eyes of a cycle that saw it there *)
(* for as long as that cycle may act (Warned).  And a label that was put   *)
(* back is held by the record of its job (BackIsHeld), which is there from *)
(* before the job may be cancelled (Awaited), on the issue, in the index   *)
(* and in the eyes of a cycle.                                             *)
(***************************************************************************)
EXTENDS Poll, WellFoundedInduction, TLAPS

-----------------------------------------------------------------------------
(* Greatest and least numbers. *)

(* A set of naturals that is not empty has a least one, *)
LEMMA Least == ASSUME NEW S \in SUBSET Nat, S # {} PROVE \E x \in S : \A y \in S : x <= y
<1> DEFINE R == {p \in Nat \X Nat : p[1] < p[2]}
<1>1. IsWellFoundedOn(R, Nat)
  BY NatLessThanWellFounded DEF OpToRel
<1>2. \E x \in S : \A y \in S : <<y, x>> \notin R
  <2> HIDE DEF R
  <2> QED
    BY <1>1, WFMin
<1>3. PICK x \in S : \A y \in S : <<y, x>> \notin R
  BY <1>2
<1>4. ASSUME NEW y \in S PROVE x <= y
  <2>1. <<y, x>> \notin R /\ <<y, x>> \in Nat \X Nat /\ x \in Nat /\ y \in Nat /\ <<y, x>>[1] = y /\ <<y, x>>[2] = x
    BY <1>3
  <2>2. ~(y < x)
    BY <2>1
  <2> QED
    BY <2>1, <2>2
<1> QED
  BY <1>4

(* which Min finds. *)
LEMMA MinIs == ASSUME NEW S \in SUBSET Nat, S # {} PROVE Min(S) \in S
BY Least DEF Min

(* The smaller of two. *)
LEMMA MinOfTwo == ASSUME NEW a \in Nat, NEW b \in Nat PROVE Min({a, b}) = IF a <= b THEN a ELSE b
BY DEF Min

(* The greatest of a bounded set is the least of its bounds. *)
LEMMA MaxIs ==
  ASSUME NEW S \in SUBSET Nat, S # {}, NEW n \in Nat, \A m \in S : m <= n
  PROVE  Max(S) \in S /\ \A m \in S : m <= Max(S)
<1> DEFINE U == {u \in Nat : \A m \in S : m <= u}
<1>1. n \in U /\ U \in SUBSET Nat
  OBVIOUS
<1>2. PICK u \in U : \A v \in U : u <= v
  BY <1>1, Least
<1>3. u \in S
  <2>1. CASE u = 0
    <3>1. PICK m \in S : TRUE
      OBVIOUS
    <3>2. m = 0
      BY <1>2, <2>1, <3>1
    <3> QED
      BY <2>1, <3>2
  <2>2. CASE u # 0
    <3>1. u - 1 \in Nat /\ u - 1 \notin U
      BY <1>2, <2>2
    <3>2. PICK m \in S : ~(m <= u - 1)
      BY <3>1
    <3> QED
      BY <1>2, <3>2
  <2> QED
    BY <2>1, <2>2
<1>4. \A m \in S : u >= m
  BY <1>2
<1> QED
  BY <1>3, <1>4 DEF Max

-----------------------------------------------------------------------------
(* The records. *)

(* Records, at the numbers they may have. *)
Recs(rs) == DOMAIN rs \subseteq RecordId /\ \A i \in DOMAIN rs : rs[i] \in RecordType

(* What rs keeps of old: each removal that is owed, each guard that is younger than the delay, and nothing new. *)
KeepsOf(old, rs) ==
  /\ DOMAIN rs \subseteq DOMAIN old
  /\ \A i \in DOMAIN rs : rs[i].age = old[i].age /\ (rs[i].owed => old[i].owed)
  /\ \A i \in DOMAIN old : old[i].guard /\ old[i].age < Delay => i \in DOMAIN rs /\ rs[i].guard
(* What is owed in old is owed in rs. *)
OwedStay(old, rs) == \A i \in DOMAIN old : old[i].owed => i \in DOMAIN rs /\ rs[i].owed

(* The number after the last one is free. *)
LEMMA LastIs ==
  ASSUME PollAssumption, NEW rs, DOMAIN rs \subseteq RecordId
  PROVE  Last(rs) \in 0..MaxRecords /\ Last(rs) + 1 \notin DOMAIN rs
<1>1. MaxRecords \in Nat
  BY DEF PollAssumption
<1> DEFINE S == {0} \cup DOMAIN rs
<1>2. S \in SUBSET Nat /\ S # {} /\ \A m \in S : m <= MaxRecords
  BY <1>1 DEF RecordId
<1>3. Max(S) \in S /\ \A m \in S : m <= Max(S)
  <2> HIDE DEF S
  <2> QED
    BY <1>1, <1>2, MaxIs
<1>4. Last(rs) = Max(S)
  BY DEF Last
<1>5. S \subseteq 0..MaxRecords /\ DOMAIN rs \subseteq S
  BY <1>1 DEF RecordId
<1> HIDE DEF S
<1>6. Max(S) \in 0..MaxRecords
  BY <1>3, <1>5
<1>7. ASSUME Max(S) + 1 \in S PROVE FALSE
  <2>1. Max(S) + 1 <= Max(S)
    BY <1>3, <1>7
  <2> QED
    BY <1>1, <1>6, <2>1
<1> QED
  BY <1>4, <1>5, <1>6, <1>7

(* A record that is inserted is new, is owed, and changes no other. *)
LEMMA InsertAdds ==
  ASSUME PollAssumption, NEW rs, Recs(rs), Last(rs) < MaxRecords,
         NEW job \in JobNo \cup {NoJob}, NEW seen \in {"open", "ended"}, NEW guard \in BOOLEAN,
         NEW new, new = Insert(rs, job, seen, guard), NEW id, id = Last(rs) + 1
  PROVE  /\ Recs(new)
         /\ id \notin DOMAIN rs /\ DOMAIN new = DOMAIN rs \cup {id}
         /\ \A i \in DOMAIN rs : new[i] = rs[i]
         /\ new[id].owed /\ new[id].guard = guard /\ new[id].age = 0
         /\ new[id].job = job /\ new[id].seen = seen /\ new[id].clock = NotStarted
<1>1. Last(rs) \in 0..MaxRecords /\ Last(rs) + 1 \notin DOMAIN rs /\ MaxRecords \in Nat /\ Delay \in Nat
  BY LastIs DEF Recs, PollAssumption
<1> DEFINE first == [job |-> job, owed |-> TRUE, seen |-> seen, guard |-> guard, age |-> 0, clock |-> NotStarted]
<1>2. new = [i \in DOMAIN rs \cup {id} |-> IF i \in DOMAIN rs THEN rs[i] ELSE first]
  BY DEF Insert
<1>3. id \in RecordId /\ first \in RecordType
  BY <1>1 DEF RecordType, RecordId, NotStarted
<1>4. /\ first.owed /\ first.guard = guard /\ first.age = 0
      /\ first.job = job /\ first.seen = seen /\ first.clock = NotStarted
  OBVIOUS
<1> HIDE DEF first
<1>5. id \notin DOMAIN rs
  BY <1>1
<1> QED
  BY <1>2, <1>3, <1>4, <1>5 DEF Recs

(* Dropping the old records loses no removal that is owed and no guard that is young. *)
LEMMA DropKeeps ==
  ASSUME PollAssumption, NEW rs, Recs(rs)
  PROVE  Recs(Drop(rs)) /\ KeepsOf(rs, Drop(rs)) /\ OwedStay(rs, Drop(rs))
<1> DEFINE ex == ExpireGuards(rs)
           kept == {i \in DOMAIN rs : Keeps(ex[i])}
<1>1. DOMAIN ex = DOMAIN rs
  BY DEF ExpireGuards
<1>2. ASSUME NEW i \in DOMAIN rs
      PROVE  /\ ex[i] \in RecordType /\ ex[i].owed = rs[i].owed /\ ex[i].age = rs[i].age
             /\ ex[i].guard = (rs[i].guard /\ rs[i].age < Delay)
  BY <1>2 DEF ExpireGuards, Recs, RecordType
<1>3. Drop(rs) = [i \in kept |-> ex[i]]
  BY DEF Drop
<1> HIDE DEF ex
<1>4. \A i \in DOMAIN rs : (rs[i].owed \/ (rs[i].guard /\ rs[i].age < Delay)) => i \in kept
  BY <1>2 DEF Keeps
<1>5. kept \subseteq DOMAIN rs
  OBVIOUS
<1> HIDE DEF kept
<1> QED
  BY <1>2, <1>3, <1>4, <1>5 DEF Recs, KeepsOf, OwedStay

(* Noting that a job ended changes neither what is owed nor what is guarded. *)
LEMMA NotedKeeps ==
  ASSUME PollAssumption, TypeOK
  PROVE  /\ Recs(Noted) /\ DOMAIN Noted = Ids
         /\ \A i \in Ids : /\ Noted[i].owed = records[i].owed /\ Noted[i].guard = records[i].guard
                           /\ Noted[i].age = records[i].age
<1>0. Delay \in Nat
  BY DEF PollAssumption
<1>1. Recs(records) /\ jobs \in [JobNo -> JobType]
  BY DEF TypeOK, Recs, Ids
<1>2. ASSUME NEW r \in RecordType, NEW started \in BOOLEAN
      PROVE  /\ HoldFrom(r, started) \in RecordType
             /\ HoldFrom(r, started).owed = r.owed /\ HoldFrom(r, started).guard = r.guard /\ HoldFrom(r, started).age = r.age
  <2> DEFINE clock == IF r.clock = NotStarted /\ started THEN 0 ELSE r.clock
  <2>1. clock \in NotStarted..Delay
    BY <1>0, <1>2 DEF RecordType, NotStarted
  <2>2. HoldFrom(r, started) = [r EXCEPT !.seen = "holding", !.clock = clock]
    BY DEF HoldFrom
  <2> HIDE DEF clock
  <2> QED
    BY <1>2, <2>1, <2>2 DEF RecordType
<1>3. ASSUME NEW r \in RecordType
      PROVE  Note(r) \in RecordType /\ Note(r).owed = r.owed /\ Note(r).guard = r.guard /\ Note(r).age = r.age
  <2> DEFINE ended == [r EXCEPT !.seen = "ended"]
             j == jobs[r.job]
             started == ~j.busy /\ j.cleanup # "pending"
  <2>1. ended \in RecordType /\ ended.owed = r.owed /\ ended.guard = r.guard /\ ended.age = r.age
    BY <1>3 DEF RecordType
  <2>2. \/ Note(r) = r \/ Note(r) = ended
        \/ Note(r) = HoldFrom(r, TRUE) \/ Note(r) = HoldFrom(r, FALSE)
    <3>1. HoldFrom(r, started) = HoldFrom(r, TRUE) \/ HoldFrom(r, started) = HoldFrom(r, FALSE)
      BY Zenon DEF HoldFrom
    <3>2. CASE r.job = NoJob \/ r.seen = "ended"
      BY <3>2 DEF Note
    <3>3. CASE ~(r.job = NoJob \/ r.seen = "ended") /\ j.state = "gone"
      BY <3>3 DEF Note
    <3>4. CASE ~(r.job = NoJob \/ r.seen = "ended") /\ j.state = "cancelled" /\ Holds(j)
      BY <3>1, <3>4 DEF Note
    <3>5. CASE ~(r.job = NoJob \/ r.seen = "ended") /\ j.state = "done"
      BY <3>5 DEF Note
    <3>6. CASE ~(r.job = NoJob \/ r.seen = "ended") /\ j.state = "cancelled" /\ ~Holds(j)
      BY <3>6 DEF Note
    <3>7. CASE ~(r.job = NoJob \/ r.seen = "ended") /\ j.state \notin {"gone", "done", "cancelled"}
      BY <3>7 DEF Note
    <3> QED
      BY <3>2, <3>3, <3>4, <3>5, <3>6, <3>7
  <2>3. /\ HoldFrom(r, TRUE) \in RecordType
        /\ HoldFrom(r, TRUE).owed = r.owed /\ HoldFrom(r, TRUE).guard = r.guard /\ HoldFrom(r, TRUE).age = r.age
    BY <1>2, <1>3
  <2>4. /\ HoldFrom(r, FALSE) \in RecordType
        /\ HoldFrom(r, FALSE).owed = r.owed /\ HoldFrom(r, FALSE).guard = r.guard /\ HoldFrom(r, FALSE).age = r.age
    BY <1>2, <1>3
  <2> HIDE DEF ended
  <2> QED
    BY <1>3, <2>1, <2>2, <2>3, <2>4
<1>4. Noted = [i \in Ids |-> Note(records[i])]
  BY DEF Noted
<1> QED
  BY <1>1, <1>3, <1>4 DEF Recs, Ids

(* A settlement clears what is owed only if an owed record is not newer than the listing. *)
LEMMA SettledKeeps ==
  ASSUME PollAssumption, TypeOK, NEW c \in Cycle
  PROVE  LET rs == Settled(c) IN
         /\ Recs(rs) /\ DOMAIN rs = Ids
         /\ \A i \in Ids : rs[i].age = records[i].age /\ (rs[i].owed => records[i].owed)
         /\ (\A i \in Ids : records[i].owed => Newer(c, i)) => \A i \in Ids : rs[i].owed = records[i].owed
<1> DEFINE old == {i \in Ids : ~Newer(c, i)}
           cleared == IF \E i \in old : records[i].owed THEN ClearOwed(records) ELSE records
           released == IF \E i \in old : records[i].guard THEN ClearGuard(cleared) ELSE cleared
<1>1. Recs(records) /\ DOMAIN records = Ids
  BY DEF TypeOK, Recs, Ids
<1>2. /\ Recs(ClearOwed(records)) /\ DOMAIN ClearOwed(records) = Ids
      /\ \A i \in Ids : ClearOwed(records)[i].age = records[i].age /\ ~ClearOwed(records)[i].owed
  BY <1>1 DEF ClearOwed, Recs, RecordType
<1>3. /\ Recs(cleared) /\ DOMAIN cleared = Ids
      /\ \A i \in Ids : cleared[i].age = records[i].age /\ (cleared[i].owed => records[i].owed)
      /\ (\A i \in Ids : records[i].owed => Newer(c, i)) => cleared = records
  <2>1. CASE \E i \in old : records[i].owed
    BY <1>1, <1>2, <2>1
  <2>2. CASE ~\E i \in old : records[i].owed
    BY <1>1, <2>2
  <2> QED
    BY <2>1, <2>2
<1>4. /\ Recs(released) /\ DOMAIN released = Ids
      /\ \A i \in Ids : released[i].age = cleared[i].age /\ released[i].owed = cleared[i].owed
  <2> HIDE DEF cleared
  <2>1. /\ Recs(ClearGuard(cleared)) /\ DOMAIN ClearGuard(cleared) = Ids
        /\ \A i \in Ids : ClearGuard(cleared)[i].age = cleared[i].age /\ ClearGuard(cleared)[i].owed = cleared[i].owed
    BY <1>3 DEF ClearGuard, Recs, RecordType
  <2>2. released = cleared \/ released = ClearGuard(cleared)
    OBVIOUS
  <2> HIDE DEF released
  <2> QED
    BY <1>3, <2>1, <2>2
<1>5. Settled(c) = [i \in Ids |-> IF i \in old /\ records[i].seen = "holding" /\ Ripe(c, i)
                                  THEN [released[i] EXCEPT !.seen = "ended"] ELSE released[i]]
  BY DEF Settled
<1>6. Recs(Settled(c)) /\ DOMAIN Settled(c) = Ids
      /\ \A i \in Ids : Settled(c)[i].age = released[i].age /\ Settled(c)[i].owed = released[i].owed
  <2> HIDE DEF released, old
  <2> QED
    BY <1>4, <1>5 DEF Recs, RecordType
<1> HIDE DEF released, cleared
<1> QED
  BY <1>1, <1>3, <1>4, <1>6

-----------------------------------------------------------------------------
(* The cycles. *)

(* What no change of the records changes of a cycle. *)
SameCycle(x, y) ==
  /\ x.at = y.at /\ x.sees = y.sees /\ x.settles = y.settles /\ x.before = y.before
  /\ x.owed = y.owed /\ x.job = y.job /\ x.guard = y.guard /\ x.inserted = y.inserted

(* A cycle that follows a change of the records stays where it is, and learns of the new ones. *)
LEMMA FollowsIs ==
  ASSUME NEW rs, NEW cs \in [Cycle -> CycleType], DOMAIN rs \subseteq RecordId
  PROVE  /\ Follows(rs, cs) \in [Cycle -> CycleType]
         /\ \A c \in Cycle :
              /\ SameCycle(Follows(rs, cs)[c], cs[c])
              /\ Follows(rs, cs)[c].young = cs[c].young \cap DOMAIN rs /\ Follows(rs, cs)[c].ripe = cs[c].ripe \cap DOMAIN rs
              /\ cs[c].at = "listed" \/ cs[c].settles =>
                   Follows(rs, cs)[c].since = (cs[c].since \cup (DOMAIN rs \ Ids)) \cap DOMAIN rs
<1> DEFINE Compares(c) == cs[c].at \in {"listed", "looked"} \/ cs[c].settles
           Since(c) == IF Compares(c) THEN (cs[c].since \cup (DOMAIN rs \ Ids)) \cap DOMAIN rs ELSE {}
           next(c) == [cs[c] EXCEPT !.since = Since(c), !.young = @ \cap DOMAIN rs, !.ripe = @ \cap DOMAIN rs]
<1>1. Follows(rs, cs) = [c \in Cycle |-> next(c)]
  BY DEF Follows
<1>2. ASSUME NEW c \in Cycle
      PROVE  /\ next(c) \in CycleType /\ SameCycle(next(c), cs[c])
             /\ next(c).young = cs[c].young \cap DOMAIN rs /\ next(c).ripe = cs[c].ripe \cap DOMAIN rs
             /\ next(c).since = Since(c)
  <2>1. cs[c] \in CycleType
    OBVIOUS
  <2>2. Since(c) \in SUBSET RecordId
    OBVIOUS
  <2> HIDE DEF Since
  <2> QED
    BY <2>1, <2>2 DEF CycleType, SameCycle
<1> HIDE DEF next
<1> QED
  BY <1>1, <1>2

-----------------------------------------------------------------------------
(* The types. *)

(* The constants and the resting places have the types that TypeOK speaks of. *)
LEMMA TypeFacts ==
  ASSUME PollAssumption, TypeOK
  PROVE  /\ Delay \in Nat /\ Lag \in Nat /\ Lag < Delay /\ MaxAsks \in Nat /\ MaxJobs \in Nat /\ MaxRecords \in Nat
         /\ Request \subseteq Label /\ NoLabel \in Label \ Request /\ PutBack \in Label \ Request /\ NoLabel # PutBack
         /\ Recs(records) /\ DOMAIN records = Ids
         /\ Idle \in CycleType /\ PastIssue \in CycleType
<1>1. /\ Delay \in Nat /\ Lag \in Nat /\ Lag < Delay /\ MaxAsks \in Nat /\ MaxJobs \in Nat /\ MaxRecords \in Nat
  BY DEF PollAssumption
<1>2. Request \subseteq Label /\ NoLabel \in Label \ Request /\ PutBack \in Label \ Request /\ NoLabel # PutBack
  BY <1>1 DEF Request, Label, NoLabel, PutBack
<1>3. Recs(records) /\ DOMAIN records = Ids
  BY DEF TypeOK, Recs, Ids
<1>4. Idle \in CycleType
  BY <1>2 DEF Idle, CycleType, Places, NoJob
<1>5. PastIssue \in CycleType
  BY <1>4 DEF PastIssue, CycleType, Places
<1> QED
  BY <1>1, <1>2, <1>3, <1>4, <1>5

(* A job's number is found where there is one. *)
LEMMA JobNumbers ==
  ASSUME PollAssumption
  PROVE  /\ OpenJobs # {} => Max(OpenJobs) \in OpenJobs
         /\ Present # {} => Max(Present) \in Present
         /\ Absent # {} => Min(Absent) \in Absent
<1>1. MaxJobs \in Nat /\ JobNo \subseteq Nat /\ \A j \in JobNo : j <= MaxJobs
  BY DEF PollAssumption, JobNo
<1>2. OpenJobs \in SUBSET Nat /\ Present \in SUBSET Nat /\ Absent \in SUBSET Nat
      /\ (\A j \in OpenJobs : j <= MaxJobs) /\ (\A j \in Present : j <= MaxJobs)
  BY <1>1 DEF OpenJobs, Present, Absent
<1> QED
  BY <1>1, <1>2, MaxIs, MinIs

(* Every step keeps the jobs in their type. *)
LEMMA JobsTyped ==
  ASSUME PollAssumption, TypeOK, [Next]_vars
  PROVE  jobs' \in [JobNo -> JobType]
<1>0. jobs \in [JobNo -> JobType]
  BY DEF TypeOK
<1>1. NewJob(TRUE) \in JobType /\ NewJob(FALSE) \in JobType
  BY DEF NewJob, JobType
<1>2. ASSUME NEW j, NEW to \in {"open", "blocked", "failed", "done"}, Moves(j, to)
      PROVE  jobs' \in [JobNo -> JobType]
  BY <1>0, <1>2 DEF Moves, JobType
<1>3. CASE UNCHANGED jobs
  BY <1>0, <1>3
<1>4. ASSUME NEW c \in Cycle, Answers(c) \/ Retries(c) \/ Creates(c)
      PROVE  jobs' \in [JobNo -> JobType]
  <2>1. CASE Answers(c) \/ Retries(c)
    BY <1>2, <1>3, <2>1 DEF Answers, Retries, Continues, Absorbs
  <2>2. CASE Creates(c)
    BY <1>0, <1>1, <1>3, <2>2 DEF Creates, Absorbs
  <2> QED
    BY <1>4, <2>1, <2>2
<1>5. ASSUME NEW j \in JobNo, AttemptEnds(j) \/ PersonContinues(j) \/ Cancels(j) \/ RunnerReturns(j) \/ TryOfCleanup(j) \/ Purges(j)
      PROVE  jobs' \in [JobNo -> JobType]
  <2>1. CASE AttemptEnds(j)
    BY <1>2, <2>1 DEF AttemptEnds
  <2>2. CASE PersonContinues(j)
    BY <1>2, <2>2 DEF PersonContinues
  <2>3. CASE Cancels(j)
    BY <1>0, <2>3 DEF Cancels, JobType
  <2>4. CASE RunnerReturns(j)
    <3>1. PICK owed \in {"no", "pending"} : jobs' = [jobs EXCEPT ![j].busy = FALSE, ![j].cleanup = owed]
      BY <2>4 DEF RunnerReturns
    <3> QED
      BY <1>0, <3>1 DEF JobType
  <2>5. CASE TryOfCleanup(j)
    BY <1>0, <2>5 DEF TryOfCleanup, JobType
  <2>6. CASE Purges(j)
    BY <1>0, <1>1, <2>6 DEF Purges, JobType
  <2> QED
    BY <1>5, <2>1, <2>2, <2>3, <2>4, <2>5, <2>6
<1>6. CASE PersonCreates
  BY <1>0, <1>1, <1>6 DEF PersonCreates
<1>7. CASE UNCHANGED vars
  BY <1>3, <1>7 DEF vars
<1>8. ASSUME NEW c \in Cycle, Goes(c) \/ Stops(c)
      PROVE  jobs' \in [JobNo -> JobType]
  BY <1>3, <1>4, <1>8
     DEF Goes, Step, Stops, Begins, Looks, Decides, Replies, Inserts, Removes, Confirms, Owes, Settles, RemovalFails
<1>9. CASE LoopIsReplaced \/ PersonAsks \/ PersonRemoves \/ IndexShows \/ Tick
  BY <1>3, <1>9 DEF LoopIsReplaced, PersonAsks, PersonRemoves, IndexShows, Tick
<1> QED
  BY <1>5, <1>6, <1>7, <1>8, <1>9 DEF Next, Layer

(* The counts and the bounds. *)
Counted ==
  /\ onItsWay \in BOOLEAN
  /\ asks \in 0..MaxAsks /\ moves \in 0..MaxMoves /\ faults \in 0..MaxFaults
  /\ made \in [Label -> Nat] /\ continued \in [Label -> Nat] /\ lost \cup outlived \subseteq Label

(* A label that is put on keeps the index within its lag. *)
LEMMA PutOnTyped ==
  ASSUME PollAssumption, TypeOK, NEW l \in Label, PutOn(l)
  PROVE  on' \in Label /\ behind' \in 0..Lag /\ outlived \subseteq outlived' /\ outlived' \subseteq Label
<1>1. Lag \in Nat
  BY DEF PollAssumption
<1> QED
  BY <1>1 DEF TypeOK, PutOn

(* Faults and moves stay within their bounds. *)
LEMMA FaultTyped ==
  ASSUME PollAssumption, TypeOK
  PROVE  (Fault \/ UNCHANGED faults => faults' \in 0..MaxFaults) /\ (Move \/ UNCHANGED moves => moves' \in 0..MaxMoves)
<1>1. MaxFaults \in Nat /\ MaxMoves \in Nat
  BY DEF PollAssumption
<1> QED
  BY <1>1 DEF TypeOK, Fault, Move

(* The issue and its index. *)
Forge == on \in Label /\ shown \in Label /\ behind \in 0..Lag

(* Every step keeps the issue, its index and the counts in their types. *)
LEMMA ForgeCounted ==
  ASSUME PollAssumption, TypeOK, [Next]_vars
  PROVE  Forge' /\ Counted'
<1>0. Forge /\ Counted
  BY DEF TypeOK, Forge, Counted
<1>1. ASSUME NEW c \in Cycle PROVE cycle[c].sees \in Label
  BY DEF TypeOK, CycleType
<1>2. Lag \in Nat /\ MaxAsks \in Nat /\ NoLabel \in Label /\ PutBack \in Label
  BY TypeFacts
<1>3. UNCHANGED forge => Forge'
  BY <1>0 DEF forge, Forge
<1>4. UNCHANGED ghosts /\ onItsWay' \in BOOLEAN /\ faults' \in 0..MaxFaults => Counted'
  BY <1>0 DEF ghosts, Counted
<1>5. ASSUME NEW c \in Cycle, Step(c), onItsWay' \in BOOLEAN
      PROVE  Forge' /\ Counted'
  <2>1. CASE Looks(c) \/ Decides(c) \/ Replies(c) \/ Confirms(c) \/ Owes(c) \/ Settles(c)
    BY <1>0, <1>3, <1>4, <1>5, <2>1 DEF Looks, Decides, Replies, Confirms, Owes, Settles, Counted
  <2>2. CASE Answers(c) \/ Retries(c)
    <3>1. Min({continued[cycle[c].sees] + 1, 2}) \in Nat
      BY <1>0, <1>1, MinOfTwo DEF Counted
    <3>2. continued' \in [Label -> Nat]
      BY <1>0, <1>1, <2>2, <3>1 DEF Answers, Retries, Continues, Absorbs, Counted
    <3> QED
      BY <1>0, <1>3, <1>5, <2>2, <3>2 DEF Answers, Retries, Continues, Absorbs, Counted
  <2>3. CASE Creates(c)
    <3>1. /\ UNCHANGED <<forge, asks, moves, continued, lost, outlived, faults>>
          /\ made' = made \/ made' = [made EXCEPT ![cycle[c].sees] = @ + 1]
      BY <2>3 DEF Creates, Absorbs
    <3>2. made' \in [Label -> Nat]
      BY <1>0, <1>1, <3>1 DEF Counted
    <3> QED
      BY <1>0, <1>3, <1>5, <3>1, <3>2 DEF Counted
  <2>4. CASE Inserts(c)
    <3>1. UNCHANGED forge /\ (Fault \/ UNCHANGED faults) /\ lost' \subseteq lost \cup {cycle[c].sees}
          /\ UNCHANGED <<asks, moves, made, continued, outlived>>
      BY <2>4 DEF Inserts
    <3> QED
      BY <1>0, <1>1, <1>3, <1>5, <3>1, FaultTyped DEF Counted
  <2>5. CASE Removes(c)
    <3>1. PutOn(NoLabel) /\ UNCHANGED <<shown, counts, faults>>
      BY <2>5 DEF Removes
    <3> QED
      BY <1>0, <1>2, <1>5, <3>1, PutOnTyped DEF Counted, Forge, counts
  <2>6. CASE RemovalFails(c)
    <3>1. (PutOn(NoLabel) \/ LeavesLabel) /\ Fault /\ UNCHANGED <<shown, counts>>
      BY <2>6 DEF RemovalFails
    <3> QED
      BY <1>0, <1>2, <1>5, <3>1, PutOnTyped, FaultTyped DEF Counted, Forge, counts, LeavesLabel
  <2> QED
    BY <1>5, <2>1, <2>2, <2>3, <2>4, <2>5, <2>6 DEF Step
<1>6. CASE Begins /\ onItsWay' \in BOOLEAN
  <2>1. UNCHANGED <<forge, ghosts>> /\ (Fault \/ UNCHANGED faults)
    BY <1>6 DEF Begins, Listing
  <2> QED
    BY <1>3, <1>4, <1>6, <2>1, FaultTyped
<1>7. ASSUME NEW c \in Cycle, Stops(c)
      PROVE  Forge' /\ Counted'
  <2>1. /\ UNCHANGED <<forge, asks, moves, made, continued, outlived>> /\ (Fault \/ UNCHANGED faults)
        /\ lost' \subseteq lost \cup {cycle[c].sees} /\ onItsWay' \in BOOLEAN
    BY <1>0, <1>7 DEF Stops, Counted
  <2> QED
    BY <1>0, <1>1, <1>3, <1>7, <2>1, FaultTyped DEF Counted
<1>8. CASE LoopIsReplaced
  BY <1>0, <1>3, <1>8, FaultTyped DEF LoopIsReplaced, Counted, ghosts
<1>9. CASE PersonAsks
  <2>1. asks + 1 \in Label /\ asks + 1 \in 0..MaxAsks
    BY <1>0, <1>2, <1>9 DEF PersonAsks, Label, NoLabel, PutBack, Counted
  <2>2. PutOn(asks + 1) /\ asks' = asks + 1 /\ Move /\ UNCHANGED <<shown, onItsWay, made, continued, lost, faults>>
    BY <1>9 DEF PersonAsks
  <2> QED
    BY <1>0, <2>1, <2>2, PutOnTyped, FaultTyped DEF Forge, Counted
<1>10. CASE PersonRemoves
  <2>1. PutOn(NoLabel) /\ Move /\ UNCHANGED <<shown, onItsWay, asks, made, continued, lost, faults>>
    BY <1>10 DEF PersonRemoves
  <2> QED
    BY <1>0, <1>2, <2>1, PutOnTyped, FaultTyped DEF Forge, Counted
<1>11. CASE IndexShows \/ Tick
  <2>1. UNCHANGED <<on, onItsWay, ghosts, faults>> /\ shown' \in {shown, on}
    BY <1>11 DEF IndexShows, Tick
  <2>2. behind' = 0 \/ (behind < Lag /\ behind' = behind + 1)
    BY <1>0, <1>11 DEF IndexShows, Tick, Forge
  <2>3. behind' \in 0..Lag
    BY <1>0, <1>2, <2>2 DEF Forge
  <2> QED
    BY <1>0, <2>1, <2>3 DEF Forge, Counted, ghosts
<1>12. ASSUME JobOnly, Move \/ UNCHANGED moves
       PROVE  Forge' /\ Counted'
  BY <1>0, <1>3, <1>12, FaultTyped DEF JobOnly, Counted
<1>13. ASSUME NEW j \in JobNo, Layer(j)
       PROVE  Forge' /\ Counted'
  <2>1. PutOn(PutBack) \/ LeavesLabel
    BY <1>13 DEF Layer, RunnerReturns, TryOfCleanup
  <2>2. UNCHANGED <<shown, onItsWay, asks, moves, made, continued>> /\ (Fault \/ UNCHANGED faults) /\ lost' \subseteq lost \cup {PutBack}
    BY <1>13 DEF Layer, RunnerReturns, TryOfCleanup, counts
  <2> QED
    BY <1>0, <1>2, <2>1, <2>2, PutOnTyped, FaultTyped DEF Forge, Counted, LeavesLabel
<1>14. CASE UNCHANGED vars
  BY <1>0, <1>3, <1>4, <1>14 DEF vars, Counted
<1>15. ASSUME NEW j \in JobNo, AttemptEnds(j) \/ PersonContinues(j) \/ Cancels(j) \/ Purges(j)
       PROVE  Forge' /\ Counted'
  BY <1>12, <1>15 DEF AttemptEnds, PersonContinues, Cancels, Purges
<1>16. CASE PersonCreates
  BY <1>12, <1>16 DEF PersonCreates
<1>17. ASSUME NEW c \in Cycle, Goes(c)
       PROVE  Forge' /\ Counted'
  <2>1. onItsWay' \in BOOLEAN
    BY <1>17 DEF Goes
  <2> QED
    BY <1>5, <1>6, <1>17, <2>1 DEF Goes
<1> QED
  BY <1>7, <1>8, <1>9, <1>10, <1>11, <1>13, <1>14, <1>15, <1>16, <1>17 DEF Next

-----------------------------------------------------------------------------
(* What a step of a cycle comes to. *)

(* The cycle c becomes x, and no other cycle changes; *)
Becomes(c, x) == x \in CycleType /\ cycle' = [cycle EXCEPT ![c] = x]
(* it sees no other label than it saw. *)
LastSaw(c, x) == ~x.settles /\ x.sees \in {cycle[c].sees, NoLabel}

(* The cycle goes on with a removal or past the issue, or ends; whatever it was about to record is lost. *)
Removing == {"absorb", "retake", "confirm", "owe"}
Quiet(c, x) ==
  /\ Becomes(c, x) /\ LastSaw(c, x)
  /\ x.at \in Removing \cup {"idle", "settle"}
  /\ x.at \notin Removing => x.sees = NoLabel
  /\ At(c, "insert") => cycle[c].sees \in lost'
  /\ lost \subseteq lost'
  /\ UNCHANGED <<shown, records, made, continued, asks>>
  /\ PutOn(NoLabel) \/ LeavesLabel
  /\ x.at = "confirm" => on' = NoLabel
  /\ IF x.at \in Removing THEN At(c, "looked") \/ At(c, "answer") \/ At(c, "retry") \/ At(c, "create") \/ AtRemoval(c)
     ELSE TRUE
  /\ lock' = IF lock = c /\ x.at \notin Removing THEN "free" ELSE lock

(* The rules have it answer, retry or create. *)
Chooses(c, x) ==
  /\ At(c, "looked")
  /\ Becomes(c, x) /\ ~x.settles /\ x.sees = cycle[c].sees
  /\ x.at \in {"answer", "retry", "create"} /\ ~cycle[c].owed /\ (x.at \in {"answer", "retry"} => ~Leaves(c))
  /\ x.at = "create" => ~Holding
  /\ UNCHANGED <<forge, records, lock, ghosts>>

(* The label is taken, or is answered by a reply that says that the thread was cut. *)
Takes(c, x) ==
  /\ cycle[c].at \in {"answer", "retry", "create"}
  /\ Becomes(c, x) /\ ~x.settles /\ x.sees = cycle[c].sees /\ x.at = "insert"
  /\ \/ /\ cycle[c].at \in {"answer", "retry"} /\ x.guard
        /\ continued' = [continued EXCEPT ![cycle[c].sees] = Min({@ + 1, 2})]
        /\ UNCHANGED made
     \/ /\ cycle[c].at = "create"
        /\ made' = [made EXCEPT ![cycle[c].sees] = @ + 1]
        /\ UNCHANGED continued
     \/ UNCHANGED <<made, continued>>
  /\ UNCHANGED <<forge, records, lock, asks, lost, outlived>>

(* The job a record names. *)
LEMMA OwnsTyped == ASSUME NEW j \in JobNo \cup {NoJob} PROVE Owns(j) \in JobNo \cup {NoJob}
BY DEF Owns

(* A cycle that rests has left its issue. *)
LEMMA RestsAre ==
  ASSUME PollAssumption, TypeOK, NEW x \in {Idle, PastIssue}
  PROVE  x \in CycleType /\ x.at \in {"idle", "settle"} /\ ~x.settles /\ x.sees = NoLabel
<1>1. Idle \in CycleType /\ PastIssue \in CycleType
  BY TypeFacts
<1>2. Idle.at = "idle" /\ ~Idle.settles /\ Idle.sees = NoLabel
  BY DEF Idle
<1>3. PastIssue.at = "settle" /\ ~PastIssue.settles /\ PastIssue.sees = NoLabel
  BY <1>2 DEF PastIssue, Idle
<1>4. CASE x = Idle
  BY <1>1, <1>2, <1>4
<1>5. CASE x = PastIssue
  BY <1>1, <1>3, <1>5
<1> QED
  BY <1>4, <1>5

(* The rules send a cycle to a removal, past the issue, or to an answer, a retry or a creation. *)
LEMMA DecidesIs ==
  ASSUME PollAssumption, TypeOK, NEW c \in Cycle, Decides(c)
  PROVE  \E x \in CycleType : Quiet(c, x) \/ Chooses(c, x)
<1>0. cycle[c] \in CycleType /\ lock = c /\ At(c, "looked")
  BY DEF TypeOK, Decides, At, Locked, Places
<1>1. CASE Rule(c) = "settle"
  <2>1. PastIssue \in CycleType /\ PastIssue.at = "settle" /\ ~PastIssue.settles /\ PastIssue.sees = NoLabel
    BY TypeFacts DEF PastIssue, Idle
  <2>2. Quiet(c, PastIssue)
    BY <1>0, <1>1, <2>1
       DEF Decides, LeavesIssue, Unlocks, Quiet, Becomes, LastSaw, Removing, At, forge, ghosts, LeavesLabel
  <2> QED
    BY <2>1, <2>2
<1>2. CASE Rule(c) # "settle"
  <2> DEFINE rule == Rule(c)
             x == [Idle EXCEPT !.at = rule, !.sees = cycle[c].sees, !.job = JobOfRule(rule)]
  <2>1. /\ rule \in {"absorb", "answer", "retake", "retry", "create"}
        /\ rule \in {"answer", "retry", "create"} => ~cycle[c].owed
        /\ rule \in {"answer", "retry"} => ~Leaves(c)
        /\ rule = "retry" => LatestFailed
        /\ rule = "create" => ~Holding
    BY <1>2 DEF Rule
  <2> HIDE DEF rule
  <2>2. JobOfRule(rule) \in JobNo \cup {NoJob}
    BY <2>1, JobNumbers DEF JobOfRule, LatestFailed, OpenJobs, Present
  <2>3. /\ x \in CycleType
        /\ x.at = rule /\ ~x.settles /\ x.sees = cycle[c].sees
    BY <1>0, <2>1, <2>2, TypeFacts DEF CycleType, Places, Idle
  <2>4. cycle' = [cycle EXCEPT ![c] = x] /\ UNCHANGED <<forge, jobs, records, lock, ghosts, faults>>
    BY <1>2 DEF Decides, rule
  <2> HIDE DEF x
  <2>5. CASE rule \in {"absorb", "retake"}
    <3>1. Quiet(c, x)
      BY <1>0, <2>3, <2>4, <2>5 DEF Quiet, Becomes, LastSaw, Removing, At, forge, ghosts, LeavesLabel
    <3> QED
      BY <2>3, <3>1
  <2>6. CASE rule \in {"answer", "retry", "create"}
    <3>1. Chooses(c, x)
      BY <1>0, <2>1, <2>3, <2>4, <2>6 DEF Chooses, Becomes
    <3> QED
      BY <2>3, <3>1
  <2> QED
    BY <2>1, <2>5, <2>6
<1> QED
  BY <1>1, <1>2

(* A label that is consumed is about to be recorded. *)
LEMMA ConsumesIs ==
  ASSUME TypeOK, NEW c \in Cycle, NEW own \in JobNo \cup {NoJob}, NEW guard \in BOOLEAN, Consumes(c, own, guard), ~cycle[c].settles
  PROVE  \E x \in CycleType : Becomes(c, x) /\ ~x.settles /\ x.sees = cycle[c].sees /\ x.at = "insert" /\ x.guard = guard
<1> DEFINE x == [cycle[c] EXCEPT !.at = "insert", !.job = own, !.guard = guard]
<1>1. cycle[c] \in CycleType /\ cycle \in [Cycle -> CycleType]
  BY DEF TypeOK
<1>2. x \in CycleType /\ ~x.settles /\ x.sees = cycle[c].sees /\ x.at = "insert" /\ x.guard = guard
  BY <1>1 DEF CycleType, Places
<1>3. cycle' = [cycle EXCEPT ![c] = x]
  BY <1>1 DEF Consumes
<1> QED
  BY <1>2, <1>3 DEF Becomes

(* A place of the cycle alone. *)
LEMMA ToPlaceIs ==
  ASSUME TypeOK, NEW c \in Cycle, NEW where \in Places, ToPlace(c, where), ~cycle[c].settles
  PROVE  \E x \in CycleType : Becomes(c, x) /\ LastSaw(c, x) /\ x.at = where
<1> DEFINE x == [cycle[c] EXCEPT !.at = where]
<1>1. cycle[c] \in CycleType /\ cycle \in [Cycle -> CycleType]
  BY DEF TypeOK
<1>2. x \in CycleType /\ ~x.settles /\ x.sees = cycle[c].sees /\ x.at = where
  BY <1>1 DEF CycleType
<1>3. cycle' = [cycle EXCEPT ![c] = x]
  BY <1>1 DEF ToPlace
<1> QED
  BY <1>2, <1>3 DEF Becomes, LastSaw

(* A request that the jobs layer refused is absorbed: nothing is answered. *)
LEMMA AbsorbsIs ==
  ASSUME TypeOK, NEW c \in Cycle, ~cycle[c].settles, cycle[c].at \in {"answer", "retry", "create"},
         Absorbs(c), UNCHANGED <<forge, records, asks, lost, outlived, lock>>
  PROVE  \E x \in CycleType : Quiet(c, x)
<1>1. PICK x \in CycleType : Becomes(c, x) /\ LastSaw(c, x) /\ x.at = "absorb"
  BY ToPlaceIs DEF Absorbs, Places
<1>2. Quiet(c, x)
  BY <1>1 DEF Absorbs, Quiet, Removing, At, forge, LeavesLabel
<1> QED
  BY <1>2

(* A call on the jobs layer takes the label, or nothing was answered. *)
LEMMA AsksIs ==
  ASSUME PollAssumption, TypeOK, NEW c \in Cycle, ~cycle[c].settles, Answers(c) \/ Retries(c) \/ Replies(c) \/ Creates(c)
  PROVE  \E x \in CycleType : Quiet(c, x) \/ Takes(c, x)
<1>0. cycle[c] \in CycleType /\ cycle[c].job \in JobNo \cup {NoJob} /\ Owns(cycle[c].job) \in JobNo \cup {NoJob}
      /\ lock = c
  BY OwnsTyped DEF TypeOK, CycleType, Answers, Retries, Replies, Creates, At, Locked, Places
<1>1. CASE Replies(c)
  <2>1. PICK x \in CycleType : Becomes(c, x) /\ ~x.settles /\ x.sees = cycle[c].sees /\ x.at = "insert" /\ x.guard = FALSE
    BY <1>0, <1>1, ConsumesIs DEF Replies
  <2>2. Takes(c, x)
    BY <1>1, <2>1 DEF Replies, Takes, At, ghosts
  <2> QED
    BY <2>2
<1>2. CASE Answers(c) \/ Retries(c)
  <2>1. /\ cycle[c].at \in {"answer", "retry"} /\ (Continues(c, "blocked") \/ Continues(c, "failed"))
        /\ UNCHANGED <<forge, records, lock, asks, lost, outlived>>
    BY <1>2 DEF Answers, Retries, At
  <2>2. CASE Absorbs(c)
    BY <2>1, <2>2, AbsorbsIs
  <2>3. CASE ~Absorbs(c)
    <3>1. /\ Consumes(c, Owns(cycle[c].job), TRUE) /\ UNCHANGED made
          /\ continued' = [continued EXCEPT ![cycle[c].sees] = Min({@ + 1, 2})]
      BY <2>1, <2>3 DEF Continues
    <3>2. PICK x \in CycleType : Becomes(c, x) /\ ~x.settles /\ x.sees = cycle[c].sees /\ x.at = "insert" /\ x.guard = TRUE
      BY <1>0, <3>1, ConsumesIs
    <3>3. Takes(c, x)
      BY <2>1, <3>1, <3>2 DEF Takes
    <3> QED
      BY <3>3
  <2> QED
    BY <2>2, <2>3
<1>3. CASE Creates(c)
  <2>0. cycle[c].at = "create" /\ UNCHANGED <<forge, records, asks, lost, outlived>>
    BY <1>3 DEF Creates, At
  <2>1. CASE /\ Absent # {} /\ made' = [made EXCEPT ![cycle[c].sees] = @ + 1]
             /\ Consumes(c, Min(Absent), FALSE) /\ UNCHANGED <<continued, lock>>
    <3>1. Min(Absent) \in JobNo
      BY <2>1, JobNumbers DEF Absent
    <3>2. PICK x \in CycleType : Becomes(c, x) /\ ~x.settles /\ x.sees = cycle[c].sees /\ x.at = "insert" /\ x.guard = FALSE
      BY <2>1, <3>1, ConsumesIs
    <3>3. Takes(c, x)
      BY <2>0, <2>1, <3>2 DEF Takes
    <3> QED
      BY <3>3
  <2>2. CASE Absorbs(c) /\ UNCHANGED lock
    BY <2>0, <2>2, AbsorbsIs
  <2>3. CASE Ends(c) /\ UNCHANGED <<jobs, made, continued>>
    <3>1. Idle \in CycleType /\ Idle.at = "idle" /\ ~Idle.settles /\ Idle.sees = NoLabel
      BY TypeFacts DEF Idle
    <3>2. Quiet(c, Idle)
      BY <2>0, <2>3, <3>1 DEF Ends, Quiet, Becomes, LastSaw, Removing, At, forge, LeavesLabel
    <3> QED
      BY <3>1, <3>2
  <2> QED
    BY <1>3, <2>1, <2>2, <2>3 DEF Creates
<1> QED
  BY <1>1, <1>2, <1>3

(* A removal, failed or not, is quiet. *)
LEMMA RemovalIs ==
  ASSUME PollAssumption, TypeOK, NEW c \in Cycle, ~cycle[c].settles, Removes(c) \/ RemovalFails(c)
  PROVE  \E x \in CycleType : Quiet(c, x)
<1>0. /\ AtRemoval(c) /\ ~At(c, "insert") /\ lock = c
      /\ UNCHANGED <<shown, records, made, continued, asks, lost>>
      /\ PutOn(NoLabel) \/ LeavesLabel
      /\ Removes(c) => on' = NoLabel
  BY DEF TypeOK, Removes, RemovalFails, AtRemoval, At, Locked, Places, counts, PutOn
<1>1. CASE \E where \in {"confirm", "owe"} : ToPlace(c, where) /\ UNCHANGED lock /\ (where = "confirm" => Removes(c))
  <2>1. PICK where \in {"confirm", "owe"} : ToPlace(c, where) /\ UNCHANGED lock /\ (where = "confirm" => Removes(c))
    BY <1>1
  <2>2. PICK x \in CycleType : Becomes(c, x) /\ LastSaw(c, x) /\ x.at = where
    BY <2>1, ToPlaceIs DEF Places
  <2>3. Quiet(c, x)
    BY <1>0, <2>1, <2>2 DEF Quiet, Removing
  <2> QED
    BY <2>3
<1>2. CASE LeavesIssue(c) \/ Ends(c)
  <2>1. PICK x \in {Idle, PastIssue} : cycle' = [cycle EXCEPT ![c] = x] /\ lock' = "free"
    BY <1>0, <1>2 DEF LeavesIssue, Ends, Unlocks
  <2>2. x \in CycleType /\ x.at \in {"idle", "settle"} /\ ~x.settles /\ x.sees = NoLabel
    BY <2>1, RestsAre
  <2>3. Quiet(c, x)
    BY <1>0, <2>1, <2>2 DEF Quiet, Becomes, LastSaw, Removing
  <2> QED
    BY <2>2, <2>3
<1>3. \/ \E where \in {"confirm", "owe"} : ToPlace(c, where) /\ UNCHANGED lock /\ (where = "confirm" => Removes(c))
      \/ LeavesIssue(c) \/ Ends(c)
  BY DEF Removes, RemovalFails
<1> QED
  BY <1>1, <1>2, <1>3

(* So is a cycle that is stopped. *)
LEMMA StopsIs ==
  ASSUME PollAssumption, TypeOK, NEW c \in Cycle, Stops(c)
  PROVE  Quiet(c, Idle) /\ Idle \in CycleType
<1>1. Idle \in CycleType /\ Idle.at = "idle" /\ ~Idle.settles /\ Idle.sees = NoLabel
  BY TypeFacts DEF Idle
<1> QED
  BY <1>1 DEF Stops, Ends, Quiet, Becomes, LastSaw, Removing, At, forge, LeavesLabel

(* The cycles but c are as they were, and know of the records that are new. *)
Recalls(d) ==
  /\ SameCycle(cycle'[d], cycle[d]) /\ cycle'[d].ripe \subseteq cycle[d].ripe
  /\ At(d, "listed") \/ cycle[d].settles =>
       \A i \in Ids' : /\ i \in cycle[d].young => i \in cycle'[d].young
                       /\ i \in cycle[d].since \/ i \notin Ids => i \in cycle'[d].since
OthersGoOn(c) ==
  /\ cycle' \in [Cycle -> CycleType]
  /\ \A d \in Cycle \ {c} : Recalls(d)

(* A record is added that is owed. *)
Adds(guard) ==
  \E id : /\ id \notin Ids /\ Ids' = Ids \cup {id}
          /\ \A i \in Ids : records'[i] = records[i]
          /\ records'[id].owed /\ records'[id].guard = guard /\ records'[id].age = 0

(* A change of the records leaves the other cycles as they were. *)
LEMMA OthersRecall ==
  ASSUME TypeOK, NEW c \in Cycle, NEW x \in CycleType, NEW rs, DOMAIN rs \subseteq RecordId, records' = rs,
         cycle' = [Follows(rs, cycle) EXCEPT ![c] = x]
  PROVE  OthersGoOn(c) /\ cycle'[c] = x
<1>1. cycle \in [Cycle -> CycleType] /\ Ids' = DOMAIN rs
  BY DEF TypeOK, Ids
<1>2. /\ Follows(rs, cycle) \in [Cycle -> CycleType]
      /\ \A d \in Cycle : /\ SameCycle(Follows(rs, cycle)[d], cycle[d])
                          /\ Follows(rs, cycle)[d].young = cycle[d].young \cap DOMAIN rs
                          /\ Follows(rs, cycle)[d].ripe = cycle[d].ripe \cap DOMAIN rs
                          /\ cycle[d].at = "listed" \/ cycle[d].settles =>
                               Follows(rs, cycle)[d].since = (cycle[d].since \cup (DOMAIN rs \ Ids)) \cap DOMAIN rs
  BY <1>1, FollowsIs
<1>3. cycle' \in [Cycle -> CycleType] /\ cycle'[c] = x /\ \A d \in Cycle \ {c} : cycle'[d] = Follows(rs, cycle)[d]
  BY <1>2
<1>4. ASSUME NEW d \in Cycle \ {c} PROVE Recalls(d)
  BY <1>1, <1>2, <1>3 DEF Recalls, At
<1> QED
  BY <1>3, <1>4 DEF OthersGoOn

(* The record is inserted, or the insertion failed and the label is lost. *)
LEMMA InsertsIs ==
  ASSUME PollAssumption, TypeOK, NEW c \in Cycle, ~cycle[c].settles, Inserts(c)
  PROVE  /\ Recs(records)' /\ OthersGoOn(c)
         /\ ~cycle'[c].settles /\ cycle'[c].sees = cycle[c].sees /\ cycle'[c].at = "remove"
         /\ \/ /\ Adds(cycle[c].guard) /\ UNCHANGED lost
               /\ cycle[c].job # NoJob =>
                    \E i \in Ids' : records'[i].job = cycle[c].job /\ records'[i].seen # "ended" /\ records'[i].clock = NotStarted
            \/ UNCHANGED records /\ lost' = lost \cup {cycle[c].sees}
<1>1. cycle \in [Cycle -> CycleType] /\ cycle[c] \in CycleType /\ Recs(records) /\ DOMAIN records = Ids
  BY TypeFacts DEF TypeOK
<1>2. CASE UNCHANGED records /\ lost' = lost \cup {cycle[c].sees} /\ ToPlace(c, "remove")
  <2>1. PICK x \in CycleType : Becomes(c, x) /\ LastSaw(c, x) /\ x.at = "remove"
    BY <1>2, ToPlaceIs DEF Places
  <2>2. cycle'[c].sees = cycle[c].sees
    BY <1>1, <1>2 DEF ToPlace, CycleType
  <2> QED
    BY <1>1, <1>2, <2>1, <2>2 DEF Becomes, LastSaw, OthersGoOn, Recalls, SameCycle, Ids, Recs
<1>3. CASE /\ Last(records) < MaxRecords /\ UNCHANGED lost
           /\ LET own == cycle[c].job
                  rs == Insert(records, own, IF own = NoJob THEN "ended" ELSE "open", cycle[c].guard)
              IN /\ records' = rs
                 /\ cycle' = [Follows(rs, cycle) EXCEPT ![c].at = "remove", ![c].inserted = TRUE]
  <2> DEFINE own == cycle[c].job
             seen == IF own = NoJob THEN "ended" ELSE "open"
             guard == cycle[c].guard
             rs == Insert(records, own, seen, guard)
             id == Last(records) + 1
             y == Follows(rs, cycle)[c]
             x == [y EXCEPT !.at = "remove", !.inserted = TRUE]
  <2>1. own \in JobNo \cup {NoJob} /\ seen \in {"open", "ended"} /\ guard \in BOOLEAN /\ Last(records) < MaxRecords
    BY <1>1, <1>3 DEF CycleType
  <2>2. /\ records' = rs /\ cycle' = [Follows(rs, cycle) EXCEPT ![c].at = "remove", ![c].inserted = TRUE]
        /\ UNCHANGED lost
    BY <1>3
  <2> HIDE DEF own, seen, guard
  <2>11. rs = Insert(records, own, seen, guard) /\ id = Last(records) + 1
    OBVIOUS
  <2> HIDE DEF rs, id
  <2>3. /\ Recs(rs) /\ id \notin DOMAIN records /\ DOMAIN rs = DOMAIN records \cup {id}
        /\ \A i \in DOMAIN records : rs[i] = records[i]
        /\ rs[id].owed /\ rs[id].guard = guard /\ rs[id].age = 0
        /\ rs[id].job = own /\ rs[id].seen = seen /\ rs[id].clock = NotStarted
    BY <1>1, <2>1, <2>11, InsertAdds
  <2>4. Adds(cycle[c].guard) /\ Recs(records)'
    BY <1>1, <2>2, <2>3 DEF Adds, Ids, Recs, guard
  <2>10. cycle[c].job # NoJob =>
           \E i \in Ids' : records'[i].job = cycle[c].job /\ records'[i].seen # "ended" /\ records'[i].clock = NotStarted
    BY <2>2, <2>3 DEF Ids, own, seen
  <2>5. Follows(rs, cycle) \in [Cycle -> CycleType] /\ SameCycle(y, cycle[c])
    BY <1>1, <2>3, FollowsIs DEF Recs
  <2>6. y \in CycleType
    BY <2>5
  <2>7. cycle' = [Follows(rs, cycle) EXCEPT ![c] = x]
    BY <2>2, <2>5
  <2> HIDE DEF y
  <2>8. x \in CycleType /\ ~x.settles /\ x.sees = cycle[c].sees /\ x.at = "remove"
    BY <2>5, <2>6 DEF CycleType, SameCycle, Places
  <2> HIDE DEF x
  <2>9. OthersGoOn(c) /\ cycle'[c] = x
    BY <2>2, <2>3, <2>7, <2>8, OthersRecall DEF Recs
  <2> QED
    BY <2>2, <2>4, <2>8, <2>9, <2>10
<1> QED
  BY <1>2, <1>3 DEF Inserts

(* A removal that was not confirmed is recorded as owed, unless it is already. *)
LEMMA OwesIs ==
  ASSUME PollAssumption, TypeOK, NEW c \in Cycle, Owes(c)
  PROVE  /\ Recs(records)' /\ OthersGoOn(c)
         /\ ~cycle'[c].settles /\ cycle'[c].sees = NoLabel /\ cycle'[c].at \in {"idle", "settle"}
         /\ Adds(FALSE) \/ UNCHANGED records
<1>1. cycle \in [Cycle -> CycleType] /\ cycle[c] \in CycleType /\ Recs(records) /\ DOMAIN records = Ids
      /\ MaxRecords \in Nat /\ Last(records) \in 0..MaxRecords
  BY TypeFacts, LastIs DEF TypeOK, Recs
<1> DEFINE kept == (\E i \in Ids : records[i].owed) \/ Last(records) = MaxRecords
           rs == IF kept THEN records ELSE Insert(records, NoJob, "ended", FALSE)
<1>2. PICK next \in {Idle, PastIssue} : records' = rs /\ cycle' = Follows(rs, [cycle EXCEPT ![c] = next])
  BY DEF Owes
<1>3. next \in CycleType /\ ~next.settles /\ next.sees = NoLabel /\ next.at \in {"idle", "settle"}
  BY <1>2, RestsAre
<1>4. Recs(records)' /\ (Adds(FALSE) \/ UNCHANGED records)
  <2>1. CASE kept
    BY <1>1, <1>2, <2>1 DEF Recs
  <2>2. CASE ~kept
    <3>1. records' = Insert(records, NoJob, "ended", FALSE)
      BY <1>2, <2>2
    <3>2. Last(records) < MaxRecords
      BY <1>1, <2>2
    <3>5. PICK guard \in BOOLEAN : guard = FALSE
      OBVIOUS
    <3> DEFINE new == Insert(records, NoJob, "ended", guard)
               id == Last(records) + 1
    <3>4. records' = new /\ new = Insert(records, NoJob, "ended", guard) /\ id = Last(records) + 1
      BY <3>1, <3>5
    <3> HIDE DEF new, id
    <3>3. /\ Recs(new) /\ id \notin DOMAIN records /\ DOMAIN new = DOMAIN records \cup {id}
          /\ \A i \in DOMAIN records : new[i] = records[i]
          /\ new[id].owed /\ new[id].guard = guard /\ new[id].age = 0
      BY <1>1, <3>2, <3>4, InsertAdds
    <3> QED
      BY <1>1, <3>3, <3>4, <3>5 DEF Adds, Ids, Recs
  <2> QED
    BY <2>1, <2>2
<1>5. DOMAIN rs \subseteq RecordId
  BY <1>2, <1>4 DEF Recs
<1> HIDE DEF rs
<1> DEFINE cs == [cycle EXCEPT ![c] = next]
<1>6. cs \in [Cycle -> CycleType] /\ cs[c] = next /\ \A d \in Cycle \ {c} : cs[d] = cycle[d]
  BY <1>1, <1>3
<1>7. cycle' = Follows(rs, cs) /\ records' = rs /\ Ids' = DOMAIN rs
  BY <1>2 DEF Ids
<1> HIDE DEF cs
<1>8. /\ Follows(rs, cs) \in [Cycle -> CycleType]
      /\ \A d \in Cycle : /\ SameCycle(Follows(rs, cs)[d], cs[d])
                          /\ Follows(rs, cs)[d].young = cs[d].young \cap DOMAIN rs
                          /\ Follows(rs, cs)[d].ripe = cs[d].ripe \cap DOMAIN rs
                          /\ cs[d].at = "listed" \/ cs[d].settles =>
                               Follows(rs, cs)[d].since = (cs[d].since \cup (DOMAIN rs \ Ids)) \cap DOMAIN rs
  BY <1>5, <1>6, FollowsIs
<1>9. OthersGoOn(c)
  <2>1. ASSUME NEW d \in Cycle \ {c} PROVE Recalls(d)
    BY <1>6, <1>7, <1>8 DEF Recalls, At
  <2> QED
    BY <1>7, <1>8, <2>1 DEF OthersGoOn
<1>10. SameCycle(cycle'[c], next)
  BY <1>6, <1>7, <1>8
<1> QED
  BY <1>3, <1>4, <1>9, <1>10 DEF SameCycle

(* A settlement of c: what is dropped of what it leaves. *)
LEMMA SettlesIs ==
  ASSUME PollAssumption, TypeOK, NEW c \in Cycle, Settles(c)
  PROVE  /\ Recs(records)' /\ OthersGoOn(c) /\ cycle'[c] = Idle
         /\ Ids' \subseteq Ids /\ \A i \in Ids' : records'[i].age = records[i].age /\ (records'[i].owed => records[i].owed)
         /\ ~cycle[c].settles => KeepsOf(records, records')
         /\ ~cycle[c].settles \/ (\A i \in Ids : records[i].owed => Newer(c, i)) => OwedStay(records, records')
<1>1. Recs(records) /\ DOMAIN records = Ids /\ Idle \in CycleType
  BY TypeFacts
<1> DEFINE mid == IF cycle[c].settles THEN Settled(c) ELSE records
<1>2. records' = Drop(mid) /\ cycle' = [Follows(Drop(mid), cycle) EXCEPT ![c] = Idle]
  BY DEF Settles
<1>3. /\ Recs(mid) /\ DOMAIN mid = Ids
      /\ \A i \in Ids : mid[i].age = records[i].age /\ (mid[i].owed => records[i].owed)
      /\ ~cycle[c].settles => mid = records
      /\ ~cycle[c].settles \/ (\A i \in Ids : records[i].owed => Newer(c, i)) => \A i \in Ids : mid[i].owed = records[i].owed
  BY <1>1, SettledKeeps
<1> HIDE DEF mid
<1>4. Recs(Drop(mid)) /\ KeepsOf(mid, Drop(mid)) /\ OwedStay(mid, Drop(mid))
  BY <1>3, DropKeeps
<1>5. OthersGoOn(c) /\ cycle'[c] = Idle
  BY <1>1, <1>2, <1>4, OthersRecall DEF Recs
<1>6. Recs(records)' /\ Ids' = DOMAIN Drop(mid)
  BY <1>2, <1>4 DEF Recs, Ids
<1> QED
  BY <1>1, <1>2, <1>3, <1>4, <1>5, <1>6 DEF KeepsOf, OwedStay

(* The first step of a cycle: the listing is of what is left of the records. *)
LEMMA BeginsIs ==
  ASSUME PollAssumption, TypeOK, Begins
  PROVE  /\ Recs(records)' /\ OthersGoOn("loop")
         /\ KeepsOf(records, records') /\ OwedStay(records, records')
         /\ \/ /\ cycle'["loop"].at = "listed" /\ ~cycle'["loop"].settles /\ cycle'["loop"].sees = shown
               /\ cycle'["loop"].young = {i \in Ids' : records'[i].age < Delay}
            \/ /\ cycle'["loop"].at = "settle" /\ cycle'["loop"].sees = NoLabel
               /\ cycle'["loop"].settles => shown = NoLabel /\ cycle'["loop"].ripe = {i \in Ids' : records'[i].clock >= Delay}
<1>1. Recs(records) /\ DOMAIN records = Ids /\ PastIssue \in CycleType /\ Idle \in CycleType
  BY TypeFacts
<1>2. /\ Recs(Noted) /\ DOMAIN Noted = Ids
      /\ \A i \in Ids : /\ Noted[i].owed = records[i].owed /\ Noted[i].guard = records[i].guard
                        /\ Noted[i].age = records[i].age
  BY NotedKeeps
<1>3. Recs(Drop(Noted)) /\ KeepsOf(Noted, Drop(Noted)) /\ OwedStay(Noted, Drop(Noted))
  BY <1>2, DropKeeps
<1> DEFINE rs == Drop(Noted)
<1>4. PICK complete \in BOOLEAN, sees \in {shown, NoLabel} :
        (complete => sees = shown) /\ cycle' = [Follows(rs, cycle) EXCEPT !["loop"] = Listed(rs, sees, complete)]
  BY DEF Begins, Listing
<1>5. records' = rs
  BY DEF Begins
<1> HIDE DEF rs
<1> DEFINE x == Listed(rs, sees, complete)
<1>6. sees \in Label /\ Last(rs) \in Nat /\ DOMAIN rs \subseteq RecordId
  <2>1. shown \in Label /\ NoLabel \in Label
    BY TypeFacts DEF TypeOK
  <2>2. DOMAIN rs \subseteq RecordId
    BY <1>3 DEF rs, Recs
  <2>3. Last(rs) \in 0..MaxRecords
    BY <2>2, LastIs
  <2> QED
    BY <1>4, <2>1, <2>2, <2>3
<1>7. /\ x \in CycleType
      /\ \/ /\ x.at = "listed" /\ ~x.settles /\ x.sees = shown
            /\ x.young = {i \in DOMAIN rs : rs[i].age < Delay}
         \/ /\ x.at = "settle" /\ x.sees = NoLabel
            /\ x.settles => shown = NoLabel /\ x.ripe = {i \in DOMAIN rs : rs[i].clock >= Delay}
  <2>1. CASE sees # NoLabel
    <3> DEFINE ids == {i \in DOMAIN rs : rs[i].age < Delay}
    <3>1. x = [Idle EXCEPT !.at = "listed", !.sees = sees, !.before = Last(rs), !.young = ids]
      BY <2>1 DEF Listed
    <3>2. ids \in SUBSET RecordId /\ ids = {i \in DOMAIN rs : rs[i].age < Delay}
      BY <1>6
    <3> HIDE DEF ids, x
    <3>3. x \in CycleType /\ x.at = "listed" /\ ~x.settles /\ x.sees = sees /\ x.young = ids
      BY <1>1, <1>6, <3>1, <3>2 DEF CycleType, Idle, Places
    <3> QED
      BY <1>4, <2>1, <3>2, <3>3
  <2>2. CASE sees = NoLabel /\ complete
    <3> DEFINE ids == {i \in DOMAIN rs : rs[i].clock >= Delay}
    <3>1. x = [Idle EXCEPT !.at = "settle", !.settles = TRUE, !.before = Last(rs), !.ripe = ids]
      BY <2>2 DEF Listed
    <3>2. ids \in SUBSET RecordId /\ ids = {i \in DOMAIN rs : rs[i].clock >= Delay}
      BY <1>6
    <3> HIDE DEF ids, x
    <3>3. x \in CycleType /\ x.at = "settle" /\ x.sees = NoLabel /\ x.ripe = ids
      BY <1>1, <1>6, <3>1, <3>2 DEF CycleType, Idle, Places
    <3> QED
      BY <1>4, <2>2, <3>2, <3>3
  <2>3. CASE sees = NoLabel /\ ~complete
    <3>1. x = PastIssue
      BY <2>3 DEF Listed, PastIssue
    <3>2. PastIssue.at = "settle"
      BY DEF PastIssue, Idle
    <3> HIDE DEF x
    <3> QED
      BY <3>1, <3>2, RestsAre
  <2> QED
    BY <2>1, <2>2, <2>3
<1> HIDE DEF x
<1>8. cycle' = [Follows(rs, cycle) EXCEPT !["loop"] = x]
  BY <1>4 DEF x
<1>9. OthersGoOn("loop") /\ cycle'["loop"] = x
  BY <1>5, <1>6, <1>7, <1>8, OthersRecall DEF Cycle
<1>10. Recs(records)' /\ KeepsOf(records, records') /\ OwedStay(records, records') /\ Ids' = DOMAIN rs
  BY <1>1, <1>2, <1>3, <1>5 DEF rs, KeepsOf, OwedStay, Recs, Ids
<1> QED
  BY <1>5, <1>7, <1>9, <1>10

(* Only a cycle of the loop settles, and the old one is under the lock for as long as it has a call on its way. *)
Resting ==
  /\ \A c \in Cycle : cycle[c].settles => c = "loop" /\ At(c, "settle")
  /\ onItsWay => cycle["old"].at \in Locked

(* The steps of a cycle, by what they come to. *)
Kind(c) ==
  \/ \E x \in CycleType : Quiet(c, x) \/ Chooses(c, x) \/ (Takes(c, x) /\ (c = "loop" \/ onItsWay))
  \/ Inserts(c) \/ Owes(c) \/ Confirms(c)
  \/ c = "loop" /\ (Begins \/ Looks(c) \/ Settles(c))

(* Every step of a cycle is of one of these kinds. *)
LEMMA CycleKinds ==
  ASSUME PollAssumption, TypeOK, Resting, NEW c \in Cycle, Goes(c) \/ Stops(c)
  PROVE  Kind(c) /\ onItsWay' = (onItsWay /\ c # "old")
<1>1. onItsWay' = (onItsWay /\ c # "old") /\ (Goes(c) => c = "loop" \/ onItsWay)
  BY DEF Goes, Stops
<1>2. ASSUME Stops(c) PROVE Kind(c)
  BY <1>2, StopsIs DEF Kind
<1>3. ASSUME Goes(c) PROVE Kind(c)
  <2>1. (c = "loop" \/ onItsWay) /\ (c = "loop" \/ (~At(c, "idle") /\ ~At(c, "listed") /\ ~At(c, "settle")))
    BY <1>1, <1>3 DEF Resting, Locked, At, Cycle
  <2>2. ~At(c, "settle") => ~cycle[c].settles
    BY DEF Resting
  <2>3. ASSUME Decides(c) PROVE Kind(c)
    BY <2>3, DecidesIs DEF Kind
  <2>4. ASSUME Answers(c) \/ Retries(c) \/ Replies(c) \/ Creates(c) PROVE Kind(c)
    <3>1. ~At(c, "settle")
      BY <2>4 DEF Answers, Retries, Replies, Creates, At
    <3>2. PICK x \in CycleType : Quiet(c, x) \/ Takes(c, x)
      BY <2>2, <2>4, <3>1, AsksIs
    <3> QED
      BY <2>1, <3>2 DEF Kind
  <2>5. ASSUME Removes(c) \/ RemovalFails(c) PROVE Kind(c)
    <3>1. ~At(c, "settle")
      BY <2>5 DEF Removes, RemovalFails, AtRemoval, At
    <3> QED
      BY <2>2, <2>5, <3>1, RemovalIs DEF Kind
  <2>6. ASSUME Looks(c) \/ Settles(c) PROVE Kind(c)
    <3>1. c = "loop"
      BY <2>1, <2>6 DEF Looks, Settles
    <3> QED
      BY <2>6, <3>1 DEF Kind
  <2> QED
    BY <1>3, <2>3, <2>4, <2>5, <2>6 DEF Goes, Step, Kind
<1> QED
  BY <1>1, <1>2, <1>3

(* One cycle at most is past the lock: the one that holds it. *)
LockHeld == lock \in Cycle \cup {"free"} /\ \A c \in Cycle : cycle[c].at \in Locked <=> lock = c
(* The types of the records and of the cycles. *)
CycleTyped == Recs(records) /\ cycle \in [Cycle -> CycleType] /\ LockHeld

(* A step that takes or frees the lock for c alone leaves it with its holder. *)
LEMMA LockMoves ==
  ASSUME TypeOK, NEW c \in Cycle, lock' \in Cycle \cup {"free"}, cycle'[c].at \in Locked <=> lock' = c,
         \A d \in Cycle \ {c} : cycle'[d].at = cycle[d].at, lock' = lock \/ {lock, lock'} = {c, "free"}
  PROVE  LockHeld'
BY DEF TypeOK, LockHeld, Cycle

(* Each kind of step keeps these types. *)
LEMMA KindTyped ==
  ASSUME PollAssumption, TypeOK, Resting, NEW c \in Cycle, Kind(c), onItsWay' = (onItsWay /\ c # "old")
  PROVE  CycleTyped' /\ Resting'
<1>0. /\ cycle \in [Cycle -> CycleType] /\ Recs(records) /\ DOMAIN records = Ids
      /\ lock \in Cycle \cup {"free"} /\ \A d \in Cycle : cycle[d].at \in Locked <=> lock = d
      /\ c # "free" /\ "loop" \in Cycle /\ "old" \in Cycle
  BY TypeFacts DEF TypeOK, Cycle
<1>1. ASSUME \A d \in Cycle \ {c} : cycle'[d].at = cycle[d].at /\ cycle'[d].settles = cycle[d].settles,
             cycle'[c].settles => c = "loop" /\ cycle'[c].at = "settle"
      PROVE  Resting'
  BY <1>0, <1>1 DEF Resting, At, Cycle
<1>2. ASSUME NEW x \in CycleType, Becomes(c, x), ~x.settles, UNCHANGED records,
             lock' \in {lock, "free"}, x.at \in Locked <=> lock' = c, lock' # lock => lock = c
      PROVE  CycleTyped' /\ Resting'
  <2>1. cycle' \in [Cycle -> CycleType] /\ cycle'[c] = x /\ \A d \in Cycle \ {c} : cycle'[d] = cycle[d]
    BY <1>0, <1>2 DEF Becomes
  <2>2. LockHeld'
    BY <1>0, <1>2, <2>1, LockMoves
  <2>3. Resting'
    BY <1>1, <1>2, <2>1
  <2> QED
    BY <1>0, <1>2, <2>1, <2>2, <2>3 DEF CycleTyped, Recs
<1>3. ASSUME NEW x \in CycleType, Quiet(c, x) PROVE CycleTyped' /\ Resting'
  <2>1. x.at \in Removing => lock = c
    BY <1>0, <1>3 DEF Quiet, AtRemoval, At, Locked, Places
  <2>2. x.at \in Locked <=> x.at \in Removing
    BY <1>3 DEF Quiet, Removing, Locked, Places
  <2> QED
    BY <1>0, <1>2, <1>3, <2>1, <2>2 DEF Quiet, LastSaw
<1>4. ASSUME NEW x \in CycleType, Chooses(c, x) \/ Takes(c, x) PROVE CycleTyped' /\ Resting'
  <2>1. lock = c /\ lock' = lock /\ x.at \in Locked
    BY <1>0, <1>4 DEF Chooses, Takes, At, Locked, Places
  <2> QED
    BY <1>0, <1>2, <1>4, <2>1 DEF Chooses, Takes
<1>5. ASSUME Recs(records)', OthersGoOn(c), lock' \in Cycle \cup {"free"}, cycle'[c].at \in Locked <=> lock' = c,
             lock' = lock \/ {lock, lock'} = {c, "free"}, cycle'[c].settles => c = "loop" /\ cycle'[c].at = "settle"
      PROVE  CycleTyped' /\ Resting'
  <2>1. cycle' \in [Cycle -> CycleType]
        /\ \A d \in Cycle \ {c} : cycle'[d].at = cycle[d].at /\ cycle'[d].settles = cycle[d].settles
    BY <1>5 DEF OthersGoOn, Recalls, SameCycle
  <2>2. LockHeld'
    BY <1>5, <2>1, LockMoves
  <2> QED
    BY <1>1, <1>5, <2>1, <2>2 DEF CycleTyped
<1>6. ASSUME Inserts(c) PROVE CycleTyped' /\ Resting'
  <2>1. ~cycle[c].settles /\ lock = c /\ UNCHANGED lock
    BY <1>0, <1>6 DEF Resting, Inserts, At, Locked, Places
  <2>2. Recs(records)' /\ OthersGoOn(c) /\ ~cycle'[c].settles /\ cycle'[c].at = "remove"
    BY <1>6, <2>1, InsertsIs
  <2>3. "remove" \in Locked
    BY DEF Locked, Places
  <2> QED
    BY <1>0, <1>5, <2>1, <2>2, <2>3
<1>7. ASSUME Owes(c) PROVE CycleTyped' /\ Resting'
  <2>1. lock = c /\ lock' = "free"
    BY <1>0, <1>7 DEF Owes, At, Locked, Places, Unlocks
  <2>2. Recs(records)' /\ OthersGoOn(c) /\ ~cycle'[c].settles /\ cycle'[c].at \in {"idle", "settle"}
    BY <1>7, OwesIs
  <2>3. "idle" \notin Locked /\ "settle" \notin Locked
    BY DEF Locked, Places
  <2> QED
    BY <1>0, <1>5, <2>1, <2>2, <2>3
<1>8. ASSUME Confirms(c) PROVE CycleTyped' /\ Resting'
  <2>1. lock = c /\ lock' = "free" /\ cycle' = [cycle EXCEPT ![c] = PastIssue] /\ records' = ClearOwed(records)
    BY <1>0, <1>8 DEF Confirms, At, Locked, Places, LeavesIssue, Unlocks
  <2>2. PastIssue \in CycleType /\ PastIssue.at \in {"idle", "settle"} /\ ~PastIssue.settles
    BY RestsAre
  <2>3. "idle" \notin Locked /\ "settle" \notin Locked
    BY DEF Locked, Places
  <2>4. Recs(records)'
    BY <1>0, <2>1 DEF ClearOwed, Recs, RecordType
  <2>5. cycle' \in [Cycle -> CycleType] /\ cycle'[c] = PastIssue /\ \A d \in Cycle \ {c} : cycle'[d] = cycle[d]
    BY <1>0, <2>1, <2>2
  <2>6. LockHeld'
    BY <1>0, <2>1, <2>2, <2>3, <2>5, LockMoves
  <2>7. Resting'
    BY <1>1, <2>2, <2>5
  <2> QED
    BY <2>4, <2>5, <2>6, <2>7 DEF CycleTyped
<1>9. ASSUME c = "loop", Begins PROVE CycleTyped' /\ Resting'
  <2>1. lock # c /\ lock' = lock
    BY <1>0, <1>9 DEF Begins, At, Locked
  <2>2. Recs(records)' /\ OthersGoOn("loop") /\ cycle'["loop"].at \in {"listed", "settle"}
        /\ (cycle'["loop"].settles => cycle'["loop"].at = "settle")
    BY <1>9, BeginsIs
  <2>3. "listed" \notin Locked /\ "settle" \notin Locked
    BY DEF Locked
  <2> QED
    BY <1>0, <1>5, <1>9, <2>1, <2>2, <2>3
<1>10. ASSUME c = "loop", Settles(c) PROVE CycleTyped' /\ Resting'
  <2>1. lock = "free" /\ lock' = lock
    BY <1>10 DEF Settles
  <2>2. Recs(records)' /\ OthersGoOn(c) /\ cycle'[c] = Idle
    BY <1>10, SettlesIs
  <2>3. Idle.at \notin Locked /\ ~Idle.settles
    BY DEF Idle, Locked
  <2> QED
    BY <1>0, <1>5, <2>1, <2>2, <2>3
<1>11. ASSUME c = "loop", Looks(c) PROVE CycleTyped' /\ Resting'
  <2> DEFINE x == [cycle[c] EXCEPT !.at = "looked", !.owed = \E i \in Ids : records[i].owed]
  <2>1. lock = "free" /\ lock' = c /\ records' = Noted /\ At(c, "listed")
    BY <1>11 DEF Looks
  <2>2. cycle[c] \in CycleType /\ ~cycle[c].settles
    BY <1>0, <2>1 DEF Resting, At
  <2>3. cycle' = [cycle EXCEPT ![c] = x]
    BY <1>0, <1>11 DEF Looks
  <2>4. x \in CycleType /\ x.at = "looked" /\ ~x.settles
    BY <2>2 DEF CycleType, Places
  <2> HIDE DEF x
  <2>5. cycle' \in [Cycle -> CycleType] /\ cycle'[c] = x /\ \A d \in Cycle \ {c} : cycle'[d] = cycle[d]
    BY <1>0, <2>3, <2>4
  <2>6. Recs(records)'
    BY <2>1, NotedKeeps DEF Recs
  <2>7. "looked" \in Locked
    BY DEF Locked, Places
  <2>8. LockHeld'
    BY <1>0, <2>1, <2>4, <2>5, <2>7, LockMoves
  <2>9. Resting'
    BY <1>1, <2>4, <2>5
  <2> QED
    BY <2>5, <2>6, <2>8, <2>9 DEF CycleTyped
<1> QED
  BY <1>3, <1>4, <1>6, <1>7, <1>8, <1>9, <1>10, <1>11 DEF Kind

(* So every step keeps every type. *)
LEMMA TypeStep ==
  ASSUME PollAssumption, TypeOK, Resting, [Next]_vars
  PROVE  TypeOK' /\ Resting'
<1>0. /\ cycle \in [Cycle -> CycleType] /\ Recs(records) /\ DOMAIN records = Ids /\ Delay \in Nat
      /\ lock \in Cycle \cup {"free"} /\ \A d \in Cycle : cycle[d].at \in Locked <=> lock = d
      /\ "loop" \in Cycle /\ "old" \in Cycle
  BY TypeFacts DEF TypeOK, Cycle
<1>1. CASE UNCHANGED <<records, lock, cycle, onItsWay>>
  <2>1. CycleTyped' /\ Resting'
    BY <1>0, <1>1 DEF CycleTyped, LockHeld, Recs, Resting, At
  <2> QED
    BY <2>1, JobsTyped, ForgeCounted DEF TypeOK, CycleTyped, LockHeld, Recs, Ids, Forge, Counted
<1>2. CASE \E c \in Cycle : Goes(c) \/ Stops(c)
  <2>1. CycleTyped' /\ Resting'
    BY <1>2, CycleKinds, KindTyped
  <2> QED
    BY <2>1, JobsTyped, ForgeCounted DEF TypeOK, CycleTyped, LockHeld, Recs, Ids, Forge, Counted
<1>3. CASE LoopIsReplaced
  <2>1. /\ lock = "loop" /\ lock' = "old" /\ UNCHANGED records /\ onItsWay' = TRUE
        /\ cycle' = [cycle EXCEPT !["loop"] = Idle, !["old"] = cycle["loop"]]
    BY <1>3 DEF LoopIsReplaced
  <2>2. Idle \in CycleType /\ Idle.at = "idle" /\ ~Idle.settles /\ "idle" \notin Locked /\ "settle" \notin Locked
    BY TypeFacts DEF Idle, Locked
  <2>3. cycle' \in [Cycle -> CycleType] /\ cycle'["loop"] = Idle /\ cycle'["old"] = cycle["loop"]
    BY <1>0, <2>1, <2>2
  <2>4. cycle["loop"].at \in Locked /\ ~cycle["loop"].settles
    BY <1>0, <2>1, <2>2 DEF Resting, At
  <2>5. CycleTyped' /\ Resting'
    BY <1>0, <2>1, <2>2, <2>3, <2>4 DEF CycleTyped, LockHeld, Recs, Resting, At, Cycle
  <2> QED
    BY <2>5, JobsTyped, ForgeCounted DEF TypeOK, CycleTyped, LockHeld, Recs, Ids, Forge, Counted
<1>4. CASE Tick
  <2>1. ASSUME NEW i \in Ids
        PROVE  [records[i] EXCEPT !.age = Older(@), !.clock = Older(@)] \in RecordType
    <3>1. records[i] \in RecordType
      BY <1>0 DEF Recs
    <3>2. ASSUME NEW n \in NotStarted..Delay
          PROVE  Older(n) \in NotStarted..Delay /\ (n # NotStarted => Older(n) \in 0..Delay)
      <4>1. CASE n = NotStarted
        BY <1>0, <4>1 DEF Older, NotStarted
      <4>2. CASE n # NotStarted
        <5>1. n \in 0..Delay /\ n + 1 \in Nat
          BY <1>0, <3>2, <4>2 DEF NotStarted
        <5>2. Min({n + 1, Delay}) \in 0..Delay
          BY <1>0, <5>1, MinOfTwo
        <5> QED
          BY <1>0, <4>2, <5>2 DEF Older, NotStarted
      <4> QED
        BY <4>1, <4>2
    <3>3. Older(records[i].age) \in 0..Delay /\ Older(records[i].clock) \in NotStarted..Delay
      BY <1>0, <3>1, <3>2 DEF RecordType, NotStarted
    <3> QED
      BY <3>1, <3>3 DEF RecordType
  <2>2. records' = [i \in Ids |-> [records[i] EXCEPT !.age = Older(@), !.clock = Older(@)]]
        /\ UNCHANGED <<lock, cycle, onItsWay>>
    BY <1>4 DEF Tick
  <2>3. Recs(records)'
    BY <1>0, <2>1, <2>2 DEF Recs
  <2>4. CycleTyped' /\ Resting'
    BY <1>0, <2>2, <2>3 DEF CycleTyped, LockHeld, Resting, At
  <2> QED
    BY <2>4, JobsTyped, ForgeCounted DEF TypeOK, CycleTyped, LockHeld, Recs, Ids, Forge, Counted
<1>5. CASE PersonAsks \/ PersonRemoves \/ PersonCreates \/ IndexShows \/ UNCHANGED vars
  BY <1>1, <1>5 DEF PersonAsks, PersonRemoves, PersonCreates, IndexShows, JobOnly, vars
<1>6. CASE \E j \in JobNo : AttemptEnds(j) \/ PersonContinues(j) \/ Cancels(j) \/ Layer(j) \/ Purges(j)
  BY <1>1, <1>6 DEF AttemptEnds, PersonContinues, Cancels, Layer, RunnerReturns, TryOfCleanup, Purges, JobOnly
<1> QED
  BY <1>2, <1>3, <1>4, <1>5, <1>6 DEF Next

-----------------------------------------------------------------------------
(* What is kept of the past. *)

(* Who sees the request k, *)
Sees(k) == \E c \in Cycle : cycle[c].sees = k
(* from the rules to the record, *)
Acting == {"answer", "retry", "create", "insert"}
(* its record was not lost, and it left the issue while its guard lasted, *)
Kept(k) == k \notin lost \cup outlived
(* it is about to be recorded, *)
Inserting(k) == \E c \in Cycle : At(c, "insert") /\ cycle[c].sees = k
(* and to be guarded. *)
Guarding(k) == \E c \in Cycle : At(c, "insert") /\ cycle[c].sees = k /\ cycle[c].guard

(* A label is not on the issue before a person asked, and where it is on the issue the index that showed it once *)
(* shows it still.                                                                                               *)
Sighted ==
  \A k \in Request :
    /\ k = on \/ k = shown \/ Sees(k) \/ Taken(k) > 0 => k <= asks
    /\ (Sees(k) \/ Taken(k) > 0) /\ on = k => shown = k

(* What is acted on is nothing whose removal is owed. *)
NoneOwed ==
  \A c \in Cycle : (At(c, "looked") /\ ~cycle[c].owed) \/ cycle[c].at \in Acting => ~Owed

(* The removal of a label that was taken and is on the issue is owed, or its record is about to be written. *)
OwedIsKept ==
  /\ \A k \in Request : on = k /\ Taken(k) > 0 /\ k \notin lost => Owed \/ Inserting(k)
  /\ \A c \in Cycle, k \in Request : At(c, "confirm") /\ on = k => Taken(k) = 0 \/ k \in lost
  /\ cycle["loop"].settles =>
       \A k \in Request : on = k /\ Taken(k) > 0 /\ k \notin lost => \A i \in Ids : records[i].owed => Newer("loop", i)

(* A label that was answered, is gone from the issue and is in the index is guarded until the index is up to date, *)
(* and no listing clears the guard.                                                                               *)
GuardIsKept ==
  /\ \A k \in Request : continued[k] > 0 /\ Kept(k) /\ on # k /\ shown = k =>
       Guarding(k) \/ \E i \in Ids : records[i].guard /\ records[i].age + Lag < Delay + behind
  /\ cycle["loop"].settles => \A k \in Request : shown = k => continued[k] = 0 /\ cycle["old"].sees # k

(* The cycle that saw a label of which it cannot know that it was answered is told so when it looks at the records. *)
Warned ==
  /\ At("loop", "listed") =>
       \A i \in Ids : records[i].age < Delay => i \in cycle["loop"].young \cup cycle["loop"].since
  /\ \A k \in Request : cycle["loop"].sees = k /\ continued[k] > 0 /\ Kept(k) =>
       /\ At("loop", "listed") => on = k \/ Guarding(k) \/ Leaves("loop")
       /\ At("loop", "looked") => cycle["loop"].owed \/ Leaves("loop")

(* A cycle answers what was not answered before. *)
FirstTime ==
  \A c \in Cycle, k \in Request :
    cycle[c].at \in {"answer", "retry"} /\ (c = "loop" \/ onItsWay) /\ cycle[c].sees = k => continued[k] = 0 \/ ~Kept(k)

(* The inductive invariant. *)
TInv == TypeOK /\ Resting
IInv == TInv /\ Sighted /\ NoneOwed /\ OwedIsKept /\ GuardIsKept /\ Warned /\ FirstTime /\ AnswersOnce

(* It holds when the service starts. *)
LEMMA InitIInv == ASSUME PollAssumption PROVE Init => IInv
<1> SUFFICES ASSUME Init PROVE IInv
  OBVIOUS
<1>1. /\ MaxAsks \in Nat /\ MaxMoves \in Nat /\ MaxFaults \in Nat /\ Lag \in Nat /\ Delay \in Nat
      /\ NoLabel \in Label /\ \A k \in Request : k # NoLabel /\ k \in Label
  BY DEF PollAssumption, Label, Request, NoLabel, PutBack
<1>2. NewJob(FALSE) \in JobType /\ [NewJob(FALSE) EXCEPT !.state = "none"] \in JobType
  BY DEF NewJob, JobType
<1>3. Idle \in CycleType /\ Idle.at = "idle" /\ ~Idle.settles /\ Idle.sees = NoLabel
  BY <1>1 DEF Idle, CycleType, Places, NoJob
<1>4. Ids = {}
  BY DEF Init, Ids
<1>5. /\ "idle" \notin Locked /\ "free" \notin Cycle
      /\ cycle \in [Cycle -> CycleType]
      /\ \A c \in Cycle : cycle[c].at = "idle" /\ ~cycle[c].settles /\ cycle[c].sees = NoLabel
  BY <1>3 DEF Init, Locked, Cycle
<1>6. /\ made \in [Label -> Nat] /\ continued \in [Label -> Nat]
      /\ \A k \in Label : made[k] = 0 /\ continued[k] = 0
  BY DEF Init
<1>7. TypeOK
  <2>1. jobs \in [JobNo -> JobType]
    BY <1>2 DEF Init
  <2>2. Ids \subseteq RecordId /\ \A i \in Ids : records[i] \in RecordType
    BY <1>4
  <2>3. lock = "free" /\ \A c \in Cycle : cycle[c].at \in Locked <=> lock = c
    BY <1>5 DEF Init
  <2>4. on \in Label /\ shown \in Label /\ behind \in 0..Lag /\ onItsWay \in BOOLEAN /\ lost \cup outlived \subseteq Label
        /\ asks \in 0..MaxAsks /\ moves \in 0..MaxMoves /\ faults \in 0..MaxFaults
    <3>1. on = NoLabel /\ shown = NoLabel /\ behind = 0 /\ onItsWay = FALSE /\ lost = {} /\ outlived = {}
          /\ asks = 0 /\ moves = 0 /\ faults = 0
      BY DEF Init
    <3>2. on \in Label /\ shown \in Label /\ behind \in 0..Lag
      BY <1>1, <3>1
    <3>3. onItsWay \in BOOLEAN
      BY <3>1
    <3>4. lost \cup outlived \subseteq Label
      BY <3>1
    <3>5. asks \in 0..MaxAsks /\ moves \in 0..MaxMoves /\ faults \in 0..MaxFaults
      BY <1>1, <3>1
    <3> QED
      BY <3>2, <3>3, <3>4, <3>5
  <2> QED
    BY <1>5, <1>6, <2>1, <2>2, <2>3, <2>4 DEF TypeOK
<1>8. Resting
  BY <1>5 DEF Init, Resting
<1>9. Sighted /\ NoneOwed /\ OwedIsKept /\ GuardIsKept /\ Warned /\ FirstTime /\ AnswersOnce
  BY <1>1, <1>4, <1>5, <1>6
     DEF Init, Sighted, Sees, Taken, NoneOwed, Acting, At, OwedIsKept, GuardIsKept, Warned, FirstTime, AnswersOnce, Cycle
<1> QED
  BY <1>7, <1>8, <1>9 DEF IInv, TInv

(* For every limit and bound, the state has its types: the one lock is held by the cycle that applies the rules. *)
THEOREM PollTypes == ASSUME PollAssumption PROVE Spec => []TypeOK
<1>1. Init => TInv
  BY InitIInv DEF IInv
<1>2. TInv /\ [Next]_vars => TInv'
  BY TypeStep DEF TInv
<1>3. TInv => TypeOK
  BY DEF TInv
<1> QED
  BY <1>1, <1>2, <1>3, PTL DEF Spec

-----------------------------------------------------------------------------
(* The steps of people, of the jobs layer, of the index and of time. *)

(* The types of what the steps count and compare. *)
LEMMA Numbers ==
  ASSUME PollAssumption, TInv
  PROVE  /\ made \in [Label -> Nat] /\ continued \in [Label -> Nat]
         /\ \A k \in Label : Taken(k) \in Nat /\ continued[k] \in Nat /\ made[k] \in Nat /\ (continued[k] > 0 => Taken(k) > 0)
         /\ asks \in 0..MaxAsks /\ MaxAsks \in Nat /\ behind \in 0..Lag /\ Lag \in Nat /\ Delay \in Nat /\ Lag < Delay
         /\ \A k \in Request : k \in Label /\ k \in Nat /\ k # NoLabel /\ k # PutBack
         /\ \A i \in Ids : records[i].age \in 0..Delay /\ records[i].owed \in BOOLEAN /\ records[i].guard \in BOOLEAN
         /\ cycle \in [Cycle -> CycleType] /\ "loop" \in Cycle /\ "old" \in Cycle
         /\ \A c, d \in Cycle : cycle[c].at \in Locked /\ cycle[d].at \in Locked => c = d
         /\ \A c \in Cycle : cycle[c].at \in Locked => lock = c
<1>1. TypeOK
  BY DEF TInv
<1>2. \A k \in Request : k \in Label /\ k \in Nat /\ k # NoLabel /\ k # PutBack
  BY <1>1, TypeFacts DEF Request, NoLabel, PutBack
<1>3. /\ made \in [Label -> Nat] /\ continued \in [Label -> Nat]
      /\ \A k \in Label : Taken(k) \in Nat /\ continued[k] \in Nat /\ made[k] \in Nat /\ (continued[k] > 0 => Taken(k) > 0)
  BY <1>1 DEF TypeOK, Taken
<1>4. \A i \in Ids : records[i].age \in 0..Delay /\ records[i].owed \in BOOLEAN /\ records[i].guard \in BOOLEAN
  BY <1>1 DEF TypeOK, RecordType
<1> QED
  BY <1>1, <1>2, <1>3, <1>4, TypeFacts DEF TypeOK, Cycle

(* The jobs move: nothing else does, but that a label which was put back may be lost. *)
LEMMA JobsMove ==
  ASSUME PollAssumption, IInv, TypeOK', Resting',
         UNCHANGED <<on, shown, behind, records, lock, cycle, onItsWay, asks, made, continued, outlived>>,
         lost \subseteq lost'
  PROVE  IInv'
<1>1. \A k \in Request : Taken(k)' = Taken(k) /\ (Kept(k)' => Kept(k))
  BY DEF Taken, Kept
<1>2. Sighted'
  BY <1>1 DEF IInv, Sighted, Sees
<1>3. NoneOwed' /\ OwedIsKept'
  BY <1>1 DEF IInv, NoneOwed, OwedIsKept, Owed, Ids, At, Inserting, Newer
<1>4. GuardIsKept' /\ Warned'
  BY <1>1 DEF IInv, GuardIsKept, Warned, Guarding, At, Ids, Leaves, Newer, Lagging
<1>5. FirstTime' /\ AnswersOnce'
  BY <1>1 DEF IInv, FirstTime, AnswersOnce, Kept
<1> QED
  BY <1>2, <1>3, <1>4, <1>5 DEF IInv, TInv

(* The label on the issue, which nobody but a person puts there for a request, and never for an old one. *)
LabelGoes ==
  /\ UNCHANGED <<shown, continued, made>> /\ asks' \in Nat /\ asks <= asks' /\ lost \subseteq lost'
  /\ \/ LeavesLabel
     \/ \E l \in Label : PutOn(l) /\ (l = NoLabel \/ on = NoLabel) /\ (l \in Request => l = asks + 1 /\ asks' = asks + 1)

(* When it goes, what was owed or guarded for it still is. *)
LEMMA LabelLeaves ==
  ASSUME PollAssumption, IInv, LabelGoes
  PROVE  /\ \A k \in Request : Kept(k)' => Kept(k)
         /\ on' = on \/ on' \notin Request \/ (on' = asks' /\ asks' = asks + 1)
         /\ \A k \in Request : continued[k] > 0 /\ Kept(k)' /\ on' # k /\ shown = k =>
              Guarding(k) \/ \E i \in Ids : records[i].guard /\ records[i].age + Lag < Delay + behind'
         /\ \A k \in Request : At("loop", "listed") /\ cycle["loop"].sees = k /\ continued[k] > 0 /\ Kept(k)' =>
              on' = k \/ Guarding(k) \/ Leaves("loop")
<1>0. TInv /\ Sighted /\ GuardIsKept /\ Warned
  BY DEF IInv
<1>1. outlived \subseteq outlived' /\ lost \subseteq lost'
  BY DEF LabelGoes, LeavesLabel, PutOn
<1>2. \A k \in Request : Kept(k)' => Kept(k)
  BY <1>1 DEF Kept
<1>3. on' = on \/ on' \notin Request \/ (on' = asks' /\ asks' = asks + 1)
  BY DEF LabelGoes, LeavesLabel, PutOn
<1>4. ASSUME NEW k \in Request, continued[k] > 0, Kept(k)', on = k, on' # k
      PROVE  Guarded /\ behind' \in Nat
  <2>1. PICK l \in Label : PutOn(l) /\ (l = NoLabel \/ on = NoLabel)
    BY <1>4 DEF LabelGoes, LeavesLabel
  <2>2. l = NoLabel
    BY <1>0, <1>4, <2>1, Numbers
  <2>3. Guarded
    BY <1>4, <2>1, <2>2 DEF PutOn, Kept
  <2>4. behind' \in Nat
    BY <1>0, <2>1, Numbers DEF PutOn
  <2> QED
    BY <2>3, <2>4
<1>5. ASSUME NEW k \in Request, continued[k] > 0, Kept(k)', on' # k, shown = k
      PROVE  Guarding(k) \/ \E i \in Ids : records[i].guard /\ records[i].age + Lag < Delay + behind'
  <2>1. CASE on = k
    <3>1. Guarded /\ behind' \in Nat
      BY <1>4, <1>5, <2>1
    <3>2. PICK i \in Ids : records[i].guard /\ records[i].age + Lag < Delay
      BY <3>1 DEF Guarded
    <3>3. records[i].age \in Nat /\ Lag \in Nat /\ Delay \in Nat
      BY <1>0, <3>2, Numbers
    <3>4. records[i].age + Lag < Delay + behind'
      BY <3>1, <3>2, <3>3
    <3> QED
      BY <3>2, <3>4
  <2>2. CASE on # k
    <3>1. Guarding(k) \/ \E i \in Ids : records[i].guard /\ records[i].age + Lag < Delay + behind
      BY <1>0, <1>2, <1>5, <2>2 DEF GuardIsKept
    <3>2. behind' = behind
      <4>1. CASE LeavesLabel
        BY <4>1 DEF LeavesLabel
      <4>2. CASE ~LeavesLabel
        <5>1. PICK l \in Label : PutOn(l) /\ (l \in Request => l = asks + 1 /\ asks' = asks + 1)
          BY <4>2 DEF LabelGoes
        <5>2. k <= asks /\ asks \in Nat
          BY <1>0, <1>5, Numbers DEF Sighted
        <5>3. l # shown
          BY <1>5, <5>1, <5>2
        <5> QED
          BY <5>1, <5>3 DEF PutOn
      <4> QED
        BY <4>1, <4>2
    <3> QED
      BY <3>1, <3>2
  <2> QED
    BY <2>1, <2>2
<1>6. ASSUME NEW k \in Request, At("loop", "listed"), cycle["loop"].sees = k, continued[k] > 0, Kept(k)'
      PROVE  on' = k \/ Guarding(k) \/ Leaves("loop")
  <2>1. CASE on = k /\ on' # k
    <3>1. PICK i \in Ids : records[i].guard /\ records[i].age + Lag < Delay
      BY <1>4, <1>6, <2>1 DEF Guarded
    <3>2. records[i].age < Delay
      <4>1. records[i].age \in Nat /\ Lag \in Nat /\ Delay \in Nat
        BY <1>0, <3>1, Numbers
      <4> QED
        BY <3>1, <4>1
    <3>3. Lagging("loop", i)
      BY <1>0, <1>6, <3>1, <3>2 DEF Warned, Lagging
    <3> QED
      BY <3>1, <3>3 DEF Leaves
  <2>2. CASE on' = k
    BY <2>2
  <2>3. CASE on # k
    BY <1>0, <1>2, <1>6, <2>3 DEF Warned
  <2> QED
    BY <2>1, <2>2, <2>3
<1> QED
  BY <1>2, <1>3, <1>5, <1>6

(* People put labels on and take them off. *)
LEMMA LabelMoves ==
  ASSUME PollAssumption, IInv, TypeOK', Resting', LabelGoes, UNCHANGED <<records, lock, cycle, onItsWay>>
  PROVE  IInv'
<1>0. /\ TInv /\ Sighted /\ NoneOwed /\ OwedIsKept /\ GuardIsKept /\ Warned /\ FirstTime /\ AnswersOnce
      /\ UNCHANGED <<shown, continued, made>> /\ asks' \in Nat /\ asks <= asks' /\ lost \subseteq lost'
  BY DEF IInv, LabelGoes
<1>1. \A k \in Request : /\ Taken(k)' = Taken(k) /\ Sees(k)' = Sees(k)
                         /\ Guarding(k)' = Guarding(k) /\ Inserting(k)' = Inserting(k) /\ (Kept(k)' => Kept(k))
  BY <1>0, LabelLeaves DEF Taken, Sees, Guarding, Inserting, At
<1>2. asks \in Nat /\ \A k \in Request : k \in Nat /\ Taken(k) \in Nat
  BY <1>0, Numbers
<1>3. ASSUME NEW k \in Request, on' = k, on # k PROVE k <= asks' /\ ~(k <= asks)
  BY <1>2, <1>3, LabelLeaves
<1>4. Sighted'
  BY <1>0, <1>1, <1>2, <1>3 DEF Sighted
<1>5. Owed' = Owed /\ Leaves("loop")' = Leaves("loop") /\ Ids' = Ids
  BY DEF Owed, Ids, Leaves, Newer, Lagging
<1>6. NoneOwed'
  BY <1>0, <1>5 DEF NoneOwed, At
<1>7. OwedIsKept'
  <2>1. ASSUME NEW k \in Request, on' = k PROVE on = k \/ Taken(k) = 0
    <3>1. on # k => Taken(k) = 0
      BY <1>0, <1>2, <1>3, <2>1 DEF Sighted
    <3> QED
      BY <3>1
  <2>2. ASSUME NEW k \in Request, on' = k, Taken(k)' > 0, k \notin lost' PROVE (Owed \/ Inserting(k))'
    BY <1>0, <1>1, <1>2, <1>5, <2>1, <2>2 DEF OwedIsKept
  <2>3. ASSUME NEW c \in Cycle, NEW k \in Request, At(c, "confirm")', on' = k PROVE Taken(k)' = 0 \/ k \in lost'
    BY <1>0, <1>1, <1>2, <2>1, <2>3 DEF OwedIsKept, At
  <2>4. ASSUME cycle'["loop"].settles, NEW k \in Request, on' = k, Taken(k)' > 0, k \notin lost', NEW i \in Ids', records'[i].owed
        PROVE  Newer("loop", i)'
    BY <1>0, <1>1, <1>2, <1>5, <2>1, <2>4 DEF OwedIsKept, Newer
  <2> QED
    BY <2>2, <2>3, <2>4 DEF OwedIsKept
<1>8. GuardIsKept'
  BY <1>0, <1>1, <1>5, LabelLeaves DEF GuardIsKept
<1>9. Warned'
  BY <1>0, <1>1, <1>5, LabelLeaves DEF Warned, At
<1>10. FirstTime' /\ AnswersOnce'
  BY <1>0, <1>1 DEF FirstTime, AnswersOnce, Kept
<1> QED
  BY <1>0, <1>4, <1>6, <1>7, <1>8, <1>9, <1>10 DEF IInv, TInv

(* The index catches up. *)
LEMMA IndexMoves ==
  ASSUME PollAssumption, IInv, TypeOK', Resting', IndexShows
  PROVE  IInv'
<1>0. /\ TInv /\ Sighted /\ NoneOwed /\ OwedIsKept /\ GuardIsKept /\ Warned /\ FirstTime /\ AnswersOnce
      /\ shown # on /\ shown' = on
      /\ UNCHANGED <<on, records, lock, cycle, onItsWay, asks, made, continued, lost, outlived>>
  BY DEF IInv, IndexShows, ghosts
<1>1. \A k \in Request : /\ Taken(k)' = Taken(k) /\ Sees(k)' = Sees(k) /\ Guarding(k)' = Guarding(k)
                         /\ Inserting(k)' = Inserting(k) /\ Kept(k)' = Kept(k)
  BY <1>0 DEF Taken, Sees, Guarding, Inserting, At, Kept
<1>2. \A k \in Request : Taken(k) \in Nat /\ (continued[k] > 0 => Taken(k) > 0) /\ continued[k] \in Nat
  BY <1>0, Numbers
<1>3. Owed' = Owed /\ Leaves("loop")' = Leaves("loop") /\ Ids' = Ids
  BY <1>0 DEF Owed, Ids, Leaves, Newer, Lagging
<1>4. Sighted'
  BY <1>0, <1>1 DEF Sighted
<1>5. NoneOwed' /\ OwedIsKept' /\ Warned' /\ FirstTime' /\ AnswersOnce'
  BY <1>0, <1>1, <1>3 DEF NoneOwed, OwedIsKept, Warned, FirstTime, AnswersOnce, At, Newer
<1>6. GuardIsKept'
  <2>1. ASSUME NEW k \in Request, shown' = k PROVE continued[k] = 0 /\ cycle["old"].sees # k
    BY <1>0, <1>2, <2>1, Numbers DEF Sighted, Sees
  <2> QED
    BY <1>0, <1>2, <2>1 DEF GuardIsKept
<1> QED
  BY <1>0, <1>4, <1>5, <1>6 DEF IInv, TInv

(* Time passes: every record is a step older, and the index a step less behind. *)
LEMMA TimeMoves ==
  ASSUME PollAssumption, IInv, TypeOK', Resting', Tick
  PROVE  IInv'
<1>0. /\ TInv /\ Sighted /\ NoneOwed /\ OwedIsKept /\ GuardIsKept /\ Warned /\ FirstTime /\ AnswersOnce
      /\ UNCHANGED <<on, shown, lock, cycle, onItsWay, asks, made, continued, lost, outlived>>
      /\ lock = "free" /\ behind' = IF on = shown THEN 0 ELSE behind + 1
      /\ records' = [i \in Ids |-> [records[i] EXCEPT !.age = Older(@), !.clock = Older(@)]]
  BY DEF IInv, Tick, ghosts
<1>1. \A k \in Request : /\ Taken(k)' = Taken(k) /\ Sees(k)' = Sees(k) /\ Guarding(k)' = Guarding(k)
                         /\ Inserting(k)' = Inserting(k) /\ Kept(k)' = Kept(k)
  BY <1>0 DEF Taken, Sees, Guarding, Inserting, At, Kept
<1>2. Ids' = Ids
  BY <1>0 DEF Ids
<1>3. ASSUME NEW i \in Ids
      PROVE  /\ records'[i].owed = records[i].owed /\ records'[i].guard = records[i].guard
             /\ records[i].age \in Nat /\ records'[i].age \in Nat
             /\ records'[i].age <= records[i].age + 1 /\ (records'[i].age < Delay => records[i].age < Delay)
  <2>1. records[i] \in RecordType /\ Delay \in Nat
    BY <1>0, <1>3, TypeFacts DEF TInv, Recs
  <2>2. records'[i] = [records[i] EXCEPT !.age = Older(@), !.clock = Older(@)]
    BY <1>0, <1>3
  <2>3. records'[i].owed = records[i].owed /\ records'[i].guard = records[i].guard /\ records'[i].age = Older(records[i].age)
    BY <2>1, <2>2 DEF RecordType
  <2>4. records[i].age \in 0..Delay
    BY <2>1 DEF RecordType
  <2>5. Older(records[i].age) = Min({records[i].age + 1, Delay})
    BY <2>1, <2>4 DEF Older, NotStarted
  <2> DEFINE age == records[i].age
  <2>6. age \in Nat /\ age <= Delay /\ age + 1 \in Nat
    BY <2>1, <2>4
  <2> HIDE DEF age
  <2>7. Min({age + 1, Delay}) = IF age + 1 <= Delay THEN age + 1 ELSE Delay
    BY <2>1, <2>6, MinOfTwo
  <2>8. records'[i].age = IF age + 1 <= Delay THEN age + 1 ELSE Delay
    BY <2>3, <2>5, <2>7 DEF age
  <2>9. records'[i].age \in Nat /\ records'[i].age <= age + 1 /\ (records'[i].age < Delay => age < Delay)
    BY <2>1, <2>6, <2>8
  <2> QED
    BY <2>3, <2>6, <2>9 DEF age
<1>4. Owed' = Owed /\ Leaves("loop")' = Leaves("loop")
  BY <1>0, <1>2, <1>3 DEF Owed, Leaves, Newer, Lagging
<1>5. Sighted' /\ NoneOwed' /\ FirstTime' /\ AnswersOnce'
  BY <1>0, <1>1, <1>4 DEF Sighted, NoneOwed, FirstTime, AnswersOnce, At
<1>6. OwedIsKept'
  BY <1>0, <1>1, <1>2, <1>3, <1>4 DEF OwedIsKept, At, Newer
<1>7. GuardIsKept'
  <2>1. ASSUME NEW k \in Request, continued'[k] > 0, Kept(k)', on' # k, shown' = k
        PROVE  (Guarding(k) \/ \E i \in Ids : records[i].guard /\ records[i].age + Lag < Delay + behind)'
    <3>1. Guarding(k) \/ \E i \in Ids : records[i].guard /\ records[i].age + Lag < Delay + behind
      BY <1>0, <1>1, <2>1 DEF GuardIsKept
    <3>2. CASE Guarding(k)
      BY <1>1, <3>2
    <3>3. CASE \E i \in Ids : records[i].guard /\ records[i].age + Lag < Delay + behind
      <4>1. PICK i \in Ids : records[i].guard /\ records[i].age + Lag < Delay + behind
        BY <3>3
      <4>2. behind' = behind + 1 /\ behind \in Nat /\ Lag \in Nat /\ Delay \in Nat
        <5>1. behind \in 0..Lag /\ Lag \in Nat /\ Delay \in Nat
          BY <1>0, Numbers
        <5>2. on # shown
          BY <1>0, <2>1
        <5>3. behind' = behind + 1
          BY <5>2 DEF Tick
        <5> QED
          BY <5>1, <5>3
      <4>3. records'[i].guard /\ records'[i].age + Lag < Delay + behind'
        BY <1>3, <4>1, <4>2
      <4> QED
        BY <1>2, <4>3
    <3> QED
      BY <3>1, <3>2, <3>3
  <2> QED
    BY <1>0, <2>1 DEF GuardIsKept
<1>8. Warned'
  BY <1>0, <1>1, <1>2, <1>3, <1>4 DEF Warned, At
<1> QED
  BY <1>0, <1>5, <1>6, <1>7, <1>8 DEF IInv, TInv

-----------------------------------------------------------------------------
(* The steps of the cycles. *)

(* The loop is replaced: the old cycle goes on with the call that is on its way. *)
LEMMA LoopMoves ==
  ASSUME PollAssumption, IInv, TypeOK', Resting', LoopIsReplaced
  PROVE  IInv'
<1>0. /\ TInv /\ Sighted /\ NoneOwed /\ OwedIsKept /\ GuardIsKept /\ Warned /\ FirstTime /\ AnswersOnce
      /\ UNCHANGED <<on, shown, behind, records, asks, made, continued, lost, outlived>>
      /\ cycle["loop"].at \in Locked /\ At("old", "idle")
      /\ cycle' = [cycle EXCEPT !["loop"] = Idle, !["old"] = cycle["loop"]]
  BY DEF IInv, LoopIsReplaced, forge, ghosts, TInv, TypeOK, Cycle
<1>1. /\ Idle.at = "idle" /\ Idle.sees = NoLabel /\ ~Idle.settles
      /\ cycle'["loop"] = Idle /\ cycle'["old"] = cycle["loop"]
      /\ \A c \in Cycle : c = "loop" \/ c = "old"
  BY <1>0, Numbers DEF Idle, Cycle
<1>2. ~cycle["loop"].settles
  BY <1>0 DEF TInv, Resting, At, Locked, Cycle
<1>3. \A k \in Request : k # NoLabel
  BY <1>0, Numbers
<1>4. \A k \in Request : /\ Taken(k)' = Taken(k) /\ Kept(k)' = Kept(k) /\ (Sees(k)' => Sees(k))
                         /\ (Guarding(k) => Guarding(k)') /\ (Inserting(k) => Inserting(k)')
  BY <1>0, <1>1, <1>3 DEF Taken, Sees, Guarding, Inserting, At, Kept, Cycle
<1>5. Owed' = Owed /\ Ids' = Ids
  BY <1>0 DEF Owed, Ids
<1>6. Sighted'
  BY <1>0, <1>4 DEF Sighted
<1>7. NoneOwed'
  BY <1>0, <1>1, <1>5 DEF NoneOwed, At, Acting, Cycle
<1>8. OwedIsKept'
  BY <1>0, <1>1, <1>4, <1>5 DEF OwedIsKept, At, Cycle
<1>9. GuardIsKept' /\ Warned'
  BY <1>0, <1>1, <1>3, <1>4, <1>5 DEF GuardIsKept, Warned, At
<1>10. FirstTime' /\ AnswersOnce'
  BY <1>0, <1>1, <1>4 DEF FirstTime, AnswersOnce, Cycle
<1> QED
  BY <1>0, <1>6, <1>7, <1>8, <1>9, <1>10 DEF IInv, TInv

(* What a step of c alone changes of the cycles. *)
LEMMA OneMoves ==
  ASSUME PollAssumption, TInv, NEW c \in Cycle, NEW x \in CycleType, Becomes(c, x)
  PROVE  cycle'[c] = x /\ \A d \in Cycle \ {c} : cycle'[d] = cycle[d]
BY Numbers DEF Becomes

(* A quiet step of a cycle. *)
LEMMA QuietMoves ==
  ASSUME PollAssumption, IInv, TypeOK', Resting', NEW c \in Cycle, NEW x \in CycleType, Quiet(c, x),
         onItsWay' = (onItsWay /\ c # "old")
  PROVE  IInv'
<1>0. /\ TInv /\ Sighted /\ NoneOwed /\ OwedIsKept /\ GuardIsKept /\ Warned /\ FirstTime /\ AnswersOnce
      /\ UNCHANGED <<shown, records, made, continued, asks>> /\ lost \subseteq lost'
      /\ cycle'[c] = x /\ \A d \in Cycle \ {c} : cycle'[d] = cycle[d]
      /\ x.at \in Removing \cup {"idle", "settle"} /\ ~x.settles /\ x.sees \in {cycle[c].sees, NoLabel}
      /\ At(c, "insert") => cycle[c].sees \in lost'
  BY OneMoves DEF IInv, Quiet, LastSaw
<1>1. LabelGoes
  <2>1. asks \in Nat /\ NoLabel \in Label /\ NoLabel \notin Request
    BY <1>0, Numbers, TypeFacts DEF TInv
  <2> QED
    BY <1>0, <2>1 DEF LabelGoes, Quiet
<1>2. \A k \in Request : k # NoLabel /\ k \in Nat /\ Taken(k) \in Nat
  BY <1>0, Numbers
<1>3. /\ \A k \in Request : Kept(k)' => Kept(k)
      /\ on' = on \/ on' \notin Request
  <2>1. on' = on \/ on' = NoLabel
    BY DEF Quiet, LeavesLabel, PutOn
  <2> QED
    BY <1>1, <1>2, <2>1, LabelLeaves
<1>4. \A k \in Request : /\ Taken(k)' = Taken(k) /\ (Sees(k)' => Sees(k))
                         /\ (k \notin lost' => (Guarding(k) => Guarding(k)') /\ (Inserting(k) => Inserting(k)'))
  BY <1>0, <1>2 DEF Taken, Sees, Guarding, Inserting, At
<1>5. Owed' = Owed /\ Ids' = Ids
  BY <1>0 DEF Owed, Ids
<1>6. x.at \notin Acting \cup {"looked", "listed"}
  BY <1>0 DEF Acting, Removing
<1>7. Sighted'
  BY <1>0, <1>3, <1>4 DEF Sighted
<1>8. NoneOwed'
  BY <1>0, <1>5, <1>6 DEF NoneOwed, At
<1>9. OwedIsKept'
  <2>1. ASSUME NEW k \in Request, on' = k, Taken(k)' > 0, k \notin lost' PROVE (Owed \/ Inserting(k))'
    BY <1>0, <1>3, <1>4, <1>5, <2>1 DEF OwedIsKept
  <2>2. ASSUME NEW d \in Cycle, NEW k \in Request, At(d, "confirm")', on' = k PROVE Taken(k)' = 0 \/ k \in lost'
    <3>1. d # c
      BY <1>0, <1>2, <2>2 DEF Quiet, At
    <3> QED
      BY <1>0, <1>3, <1>4, <2>2, <3>1 DEF OwedIsKept, At
  <2>3. ASSUME cycle'["loop"].settles, NEW k \in Request, on' = k, Taken(k)' > 0, k \notin lost', NEW i \in Ids', records'[i].owed
        PROVE  Newer("loop", i)'
    <3>1. cycle'["loop"] = cycle["loop"]
      BY <1>0, <2>3 DEF Cycle
    <3> QED
      BY <1>0, <1>3, <1>4, <1>5, <2>3, <3>1 DEF OwedIsKept, Newer
  <2> QED
    BY <2>1, <2>2, <2>3 DEF OwedIsKept
<1>10. GuardIsKept'
  <2>1. ASSUME NEW k \in Request, continued'[k] > 0, Kept(k)', on' # k, shown' = k
        PROVE  (Guarding(k) \/ \E i \in Ids : records[i].guard /\ records[i].age + Lag < Delay + behind)'
    <3>1. Guarding(k) \/ \E i \in Ids : records[i].guard /\ records[i].age + Lag < Delay + behind'
      BY <1>0, <1>1, <2>1, LabelLeaves
    <3> QED
      BY <1>0, <1>4, <1>5, <2>1, <3>1 DEF Kept
  <2>2. ASSUME cycle'["loop"].settles, NEW k \in Request, shown' = k PROVE continued'[k] = 0 /\ cycle'["old"].sees # k
    <3>1. cycle'["loop"] = cycle["loop"] /\ c # "loop"
      BY <1>0, <2>2 DEF Cycle
    <3>2. continued[k] = 0 /\ cycle["old"].sees # k
      BY <1>0, <2>2, <3>1 DEF GuardIsKept
    <3>3. cycle'["old"].sees \in {cycle["old"].sees, NoLabel}
      BY <1>0, <3>1 DEF Cycle
    <3> QED
      BY <1>0, <1>2, <3>2, <3>3
  <2> QED
    BY <2>1, <2>2 DEF GuardIsKept
<1>11. Warned'
  <2>1. c = "loop" => cycle'["loop"].at \notin {"listed", "looked"}
    BY <1>0, <1>6
  <2>2. CASE c # "loop"
    <3>1. cycle'["loop"] = cycle["loop"]
      BY <1>0, <2>2 DEF Cycle
    <3>2. Leaves("loop")' = Leaves("loop")
      BY <1>0, <1>5, <3>1 DEF Leaves, Newer, Lagging
    <3> QED
      BY <1>0, <1>1, <1>3, <1>4, <1>5, <3>1, <3>2, LabelLeaves DEF Warned, At, Kept
  <2> QED
    BY <2>1, <2>2 DEF Warned, At
<1>12. FirstTime' /\ AnswersOnce'
  <2>1. ASSUME NEW d \in Cycle, NEW k \in Request, cycle'[d].at \in {"answer", "retry"}, d = "loop" \/ onItsWay', cycle'[d].sees = k
        PROVE  (continued[k] = 0 \/ ~Kept(k))'
    <3>1. d # c /\ cycle'[d] = cycle[d] /\ (onItsWay' => onItsWay)
      BY <1>0, <1>6, <2>1 DEF Acting
    <3> QED
      BY <1>0, <1>3, <2>1, <3>1 DEF FirstTime
  <2>2. AnswersOnce'
    BY <1>0, <1>3 DEF AnswersOnce, Kept
  <2> QED
    BY <2>1, <2>2 DEF FirstTime
<1> QED
  BY <1>0, <1>7, <1>8, <1>9, <1>10, <1>11, <1>12 DEF IInv, TInv

(* The rules choose to act: nothing is owed, and what was answered is gone from the issue or guarded. *)
LEMMA ChoosesMoves ==
  ASSUME PollAssumption, IInv, TypeOK', Resting', NEW c \in Cycle, NEW x \in CycleType, Chooses(c, x),
         onItsWay' = (onItsWay /\ c # "old")
  PROVE  IInv'
<1>0. /\ TInv /\ Sighted /\ NoneOwed /\ OwedIsKept /\ GuardIsKept /\ Warned /\ FirstTime /\ AnswersOnce
      /\ UNCHANGED <<on, shown, behind, records, made, continued, asks, lost, outlived>>
      /\ cycle'[c] = x /\ \A d \in Cycle \ {c} : cycle'[d] = cycle[d]
      /\ x.at \in {"answer", "retry", "create"} /\ ~x.settles /\ x.sees = cycle[c].sees
      /\ At(c, "looked") /\ ~cycle[c].owed /\ (x.at \in {"answer", "retry"} => ~Leaves(c))
  BY OneMoves DEF IInv, Chooses, forge, ghosts
<1>1. \A k \in Request : /\ Taken(k)' = Taken(k) /\ (Sees(k)' => Sees(k)) /\ Kept(k)' = Kept(k)
                         /\ (Guarding(k) => Guarding(k)') /\ (Inserting(k) => Inserting(k)')
  BY <1>0 DEF Taken, Sees, Guarding, Inserting, At, Kept
<1>2. Owed' = Owed /\ Ids' = Ids
  BY <1>0 DEF Owed, Ids
<1>3. Sighted'
  BY <1>0, <1>1 DEF Sighted
<1>4. NoneOwed'
  BY <1>0, <1>2 DEF NoneOwed, At
<1>5. c # "loop" => cycle'["loop"] = cycle["loop"] /\ Leaves("loop")' = Leaves("loop")
  BY <1>0, <1>2 DEF Leaves, Newer, Lagging, Cycle
<1>6. OwedIsKept'
  BY <1>0, <1>1, <1>2, <1>5 DEF OwedIsKept, At, Newer
<1>7. GuardIsKept'
  <2>1. cycle'["loop"].settles => c # "loop" /\ cycle["loop"].settles
    BY <1>0, <1>5
  <2>2. cycle'["old"].sees = cycle["old"].sees
    BY <1>0 DEF Cycle
  <2> QED
    BY <1>0, <1>1, <1>2, <2>1, <2>2 DEF GuardIsKept
<1>8. Warned'
  <2>1. c = "loop" => cycle'["loop"].at \notin {"listed", "looked"}
    BY <1>0
  <2> QED
    BY <1>0, <1>1, <1>2, <1>5, <2>1 DEF Warned, At
<1>9. FirstTime' /\ AnswersOnce'
  <2>1. ASSUME NEW d \in Cycle, NEW k \in Request, cycle'[d].at \in {"answer", "retry"}, d = "loop" \/ onItsWay', cycle'[d].sees = k
        PROVE  (continued[k] = 0 \/ ~Kept(k))'
    <3>1. CASE d = c
      <4>1. c = "loop"
        BY <2>1, <3>1 DEF Cycle
      <4>2. ~Leaves("loop") /\ ~cycle["loop"].owed /\ At("loop", "looked") /\ cycle["loop"].sees = k
        BY <1>0, <2>1, <3>1, <4>1
      <4>3. ~(continued[k] > 0 /\ Kept(k))
        BY <1>0, <4>2 DEF Warned
      <4>4. continued[k] \in Nat
        BY <1>0, Numbers
      <4> QED
        BY <1>0, <1>1, <4>3, <4>4
    <3>2. CASE d # c
      BY <1>0, <1>1, <2>1, <3>2 DEF FirstTime
    <3> QED
      BY <3>1, <3>2
  <2>2. AnswersOnce'
    BY <1>0 DEF AnswersOnce
  <2> QED
    BY <2>1, <2>2 DEF FirstTime
<1> QED
  BY <1>0, <1>3, <1>4, <1>6, <1>7, <1>8, <1>9 DEF IInv, TInv

(* The label is taken, for the first time that is kept. *)
LEMMA TakesMoves ==
  ASSUME PollAssumption, IInv, TypeOK', Resting', NEW c \in Cycle, NEW x \in CycleType, Takes(c, x),
         c = "loop" \/ onItsWay, onItsWay' = (onItsWay /\ c # "old")
  PROVE  IInv'
<1> DEFINE s == cycle[c].sees
<1>0. /\ TInv /\ Sighted /\ NoneOwed /\ OwedIsKept /\ GuardIsKept /\ Warned /\ FirstTime /\ AnswersOnce
      /\ UNCHANGED <<on, shown, behind, records, asks, lost, outlived>>
      /\ cycle'[c] = x /\ \A d \in Cycle \ {c} : cycle'[d] = cycle[d]
      /\ x.at = "insert" /\ ~x.settles /\ x.sees = s
      /\ cycle[c].at \in {"answer", "retry", "create"}
  BY OneMoves DEF IInv, Takes, forge
<1>1. /\ s \in Label /\ \A k \in Label : continued[k] \in Nat /\ made[k] \in Nat /\ Taken(k) \in Nat
      /\ \A k \in Request : k \in Label
      /\ continued \in [Label -> Nat] /\ made \in [Label -> Nat]
  BY <1>0, Numbers DEF CycleType
<1>2. cycle[c].at \in Locked /\ \A d \in Cycle \ {c} : cycle[d].at \notin Locked
  <2>1. cycle[c].at \in Locked
    BY <1>0 DEF Locked, Places
  <2> QED
    BY <1>0, <2>1, Numbers
<1>3. \A k \in Label : k # s => continued'[k] = continued[k] /\ made'[k] = made[k] /\ Taken(k)' = Taken(k)
  <2>1. \A k \in Label : k # s => continued'[k] = continued[k] /\ made'[k] = made[k]
    BY <1>1 DEF Takes
  <2> QED
    BY <2>1 DEF Taken
<1>4. \/ continued'[s] = continued[s]
      \/ cycle[c].at \in {"answer", "retry"} /\ x.guard /\ continued'[s] = Min({continued[s] + 1, 2})
  BY <1>1 DEF Takes
<1>5. ~Owed /\ Ids' = Ids /\ Owed' = Owed
  BY <1>0 DEF NoneOwed, Acting, Owed, Ids
<1>6. \A k \in Request : ~Inserting(k) /\ ~Guarding(k)
  <2>1. "insert" \in Locked
    BY DEF Locked, Places
  <2> QED
    BY <1>0, <1>2, <2>1 DEF Inserting, Guarding, At
<1>7. \A k \in Request : Kept(k)' = Kept(k) /\ Sees(k)' = Sees(k)
  BY <1>0 DEF Kept, Sees
<1>8. \A k \in Label : k = s => Inserting(k)' /\ Sees(k) /\ (x.guard => Guarding(k)')
  BY <1>0 DEF Inserting, Sees, Guarding, At
<1> HIDE DEF s
<1>9. Sighted'
  BY <1>0, <1>1, <1>3, <1>7, <1>8 DEF Sighted
<1>10. NoneOwed'
  BY <1>5 DEF NoneOwed
<1>11. OwedIsKept'
  <2>1. ASSUME NEW k \in Request, on' = k, Taken(k)' > 0, k \notin lost' PROVE (Owed \/ Inserting(k))'
    BY <1>0, <1>1, <1>3, <1>5, <1>6, <1>8, <2>1 DEF OwedIsKept
  <2>2. ASSUME NEW d \in Cycle, At(d, "confirm")' PROVE FALSE
    <3>1. "confirm" \in Locked
      BY DEF Locked, Places
    <3> QED
      BY <1>0, <1>2, <2>2, <3>1 DEF At
  <2>3. \A i \in Ids' : ~records'[i].owed
    BY <1>0, <1>5 DEF Owed
  <2> QED
    BY <2>1, <2>2, <2>3 DEF OwedIsKept
<1>12. GuardIsKept'
  <2>1. ASSUME NEW k \in Request, continued'[k] > 0, Kept(k)', on' # k, shown' = k
        PROVE  (Guarding(k) \/ \E i \in Ids : records[i].guard /\ records[i].age + Lag < Delay + behind)'
    <3>1. CASE continued'[k] = continued[k]
      BY <1>0, <1>5, <1>6, <1>7, <2>1, <3>1 DEF GuardIsKept
    <3>2. CASE continued'[k] # continued[k]
      BY <1>1, <1>3, <1>4, <1>8, <3>2
    <3> QED
      BY <3>1, <3>2
  <2>2. ASSUME cycle'["loop"].settles, NEW k \in Request, shown' = k PROVE continued'[k] = 0 /\ cycle'["old"].sees # k
    <3>1. c = "old" /\ cycle'["loop"] = cycle["loop"]
      BY <1>0, <2>2 DEF Cycle
    <3>2. continued[k] = 0 /\ cycle["old"].sees # k
      BY <1>0, <2>2, <3>1 DEF GuardIsKept
    <3> QED
      BY <1>0, <1>1, <1>3, <3>1, <3>2 DEF s
  <2> QED
    BY <2>1, <2>2 DEF GuardIsKept
<1>13. Warned'
  <2>1. cycle'["loop"].at # "looked"
    <3>1. "looked" \in Locked
      BY DEF Locked, Places
    <3> QED
      BY <1>0, <1>2, <3>1 DEF Cycle
  <2>2. CASE cycle'["loop"].at = "listed"
    <3>1. c = "old" /\ cycle'["loop"] = cycle["loop"]
      BY <1>0, <2>2 DEF Cycle
    <3>2. Leaves("loop")' = Leaves("loop")
      BY <1>0, <1>5, <3>1 DEF Leaves, Newer, Lagging
    <3>3. ASSUME NEW k \in Request, cycle'["loop"].sees = k, continued'[k] > 0, Kept(k)'
          PROVE  (on = k \/ Guarding(k) \/ Leaves("loop"))'
      <4>1. CASE continued'[k] = continued[k]
        BY <1>0, <1>6, <1>7, <2>2, <3>1, <3>2, <3>3, <4>1 DEF Warned, At
      <4>2. CASE continued'[k] # continued[k]
        BY <1>1, <1>3, <1>4, <1>8, <4>2
      <4> QED
        BY <4>1, <4>2
    <3> QED
      BY <1>0, <1>5, <2>1, <2>2, <3>1, <3>3 DEF Warned, At
  <2> QED
    BY <2>1, <2>2 DEF Warned, At
<1>14. FirstTime'
  <2>1. ASSUME NEW d \in Cycle, cycle'[d].at \in {"answer", "retry"} PROVE FALSE
    <3>1. "answer" \in Locked /\ "retry" \in Locked
      BY DEF Locked, Places
    <3> QED
      BY <1>0, <1>2, <2>1, <3>1
  <2> QED
    BY <2>1 DEF FirstTime
<1>15. AnswersOnce'
  <2>1. ASSUME NEW k \in Request, continued'[k] > 1 PROVE k \in lost \cup outlived
    <3>1. CASE continued'[k] = continued[k]
      BY <1>0, <2>1, <3>1 DEF AnswersOnce
    <3>2. CASE continued'[k] # continued[k]
      <4>1. k = s /\ cycle[c].at \in {"answer", "retry"} /\ continued'[k] = Min({continued[k] + 1, 2})
        BY <1>1, <1>3, <1>4, <3>2
      <4>2. continued[k] = 0 \/ ~Kept(k)
        BY <1>0, <4>1 DEF FirstTime, s
      <4>3. CASE continued[k] = 0
        <5>1. continued'[k] = 1
          BY <4>1, <4>3, MinOfTwo
        <5> QED
          BY <2>1, <5>1
      <4>4. CASE ~Kept(k)
        BY <4>4 DEF Kept
      <4> QED
        BY <4>2, <4>3, <4>4
    <3> QED
      BY <3>1, <3>2
  <2> QED
    BY <1>0, <2>1 DEF AnswersOnce
<1> QED
  BY <1>0, <1>9, <1>10, <1>11, <1>12, <1>13, <1>14, <1>15 DEF IInv, TInv

(* A step under the lock that may add a record, and does if the label was acted on and its record is not lost. *)
Records(c) ==
  /\ cycle[c].at \in {"insert", "owe"}
  /\ OthersGoOn(c) /\ ~cycle'[c].settles /\ cycle'[c].sees \in {cycle[c].sees, NoLabel}
  /\ cycle'[c].at \in {"remove", "idle", "settle"}
  /\ UNCHANGED <<on, shown, behind, asks, made, continued, outlived>> /\ lost \subseteq lost'
  /\ (\E guard \in BOOLEAN : Adds(guard)) \/ UNCHANGED records
  /\ At(c, "insert") => Adds(cycle[c].guard) \/ cycle[c].sees \in lost'

(* What was taken is recorded, or is lost. *)
LEMMA RecordsMoves ==
  ASSUME PollAssumption, IInv, TypeOK', Resting', NEW c \in Cycle, Records(c), onItsWay' = (onItsWay /\ c # "old")
  PROVE  IInv'
<1>0. /\ TInv /\ Sighted /\ NoneOwed /\ OwedIsKept /\ GuardIsKept /\ Warned /\ FirstTime /\ AnswersOnce
      /\ UNCHANGED <<on, shown, behind, asks, made, continued, outlived>> /\ lost \subseteq lost'
      /\ ~cycle'[c].settles /\ cycle'[c].sees \in {cycle[c].sees, NoLabel} /\ cycle'[c].at \in {"remove", "idle", "settle"}
      /\ \A d \in Cycle \ {c} : Recalls(d)
  BY DEF IInv, Records, OthersGoOn
<1>1. \A d \in Cycle \ {c} :
         /\ cycle'[d].at = cycle[d].at /\ cycle'[d].sees = cycle[d].sees /\ cycle'[d].settles = cycle[d].settles
         /\ cycle'[d].before = cycle[d].before /\ cycle'[d].owed = cycle[d].owed /\ cycle'[d].guard = cycle[d].guard
  BY <1>0 DEF Recalls, SameCycle
<1>2. cycle[c].at \in Locked /\ \A d \in Cycle \ {c} : cycle[d].at \notin Locked
  <2>1. cycle[c].at \in Locked
    BY DEF Records, Locked, Places
  <2> QED
    BY <1>0, <2>1, Numbers
<1>3. {"looked", "answer", "retry", "create", "insert", "confirm"} \subseteq Locked
  BY DEF Locked, Places
<1>4. \A d \in Cycle : cycle'[d].at \notin {"looked", "answer", "retry", "create", "insert", "confirm"}
  BY <1>0, <1>1, <1>2, <1>3
<1>5. /\ Ids \subseteq Ids' /\ \A i \in Ids : records'[i] = records[i]
      /\ \A i \in Ids' \ Ids : records'[i].owed
  BY DEF Records, Adds, Ids
<1>6. \A k \in Request : /\ k # NoLabel /\ Taken(k)' = Taken(k) /\ Taken(k) \in Nat /\ (Kept(k)' => Kept(k))
                         /\ (Sees(k)' => Sees(k))
                         /\ (Inserting(k) => At(c, "insert") /\ cycle[c].sees = k)
                         /\ (Guarding(k) => At(c, "insert") /\ cycle[c].sees = k /\ cycle[c].guard)
  <2>1. \A k \in Request : k # NoLabel /\ Taken(k) \in Nat
    BY <1>0, Numbers
  <2> QED
    BY <1>0, <1>1, <1>2, <1>3, <2>1 DEF Taken, Kept, Sees, Inserting, Guarding, At
<1>7. (Owed => Owed') /\ (Adds(cycle[c].guard) => Owed')
  BY <1>5 DEF Owed, Adds, Ids
<1>8. Sighted'
  BY <1>0, <1>6 DEF Sighted
<1>9. NoneOwed' /\ FirstTime'
  BY <1>4 DEF NoneOwed, FirstTime, Acting, At
<1>10. AnswersOnce'
  BY <1>0 DEF AnswersOnce
<1>11. OwedIsKept'
  <2>1. ASSUME NEW k \in Request, on' = k, Taken(k)' > 0, k \notin lost' PROVE (Owed \/ Inserting(k))'
    <3>1. Owed \/ Inserting(k)
      BY <1>0, <1>6, <2>1 DEF OwedIsKept
    <3>2. Inserting(k) => Adds(cycle[c].guard)
      BY <1>6, <2>1 DEF Records
    <3> QED
      BY <1>7, <3>1, <3>2
  <2>2. ASSUME cycle'["loop"].settles, NEW k \in Request, on' = k, Taken(k)' > 0, k \notin lost', NEW i \in Ids', records'[i].owed
        PROVE  Newer("loop", i)'
    <3>1. c # "loop" /\ "loop" \in Cycle \ {c} /\ cycle["loop"].settles
      BY <1>0, <1>1, <2>2 DEF Cycle
    <3>2. cycle'["loop"].before = cycle["loop"].before /\ (i \in cycle["loop"].since \/ i \notin Ids => i \in cycle'["loop"].since)
      BY <1>0, <1>1, <2>2, <3>1 DEF Recalls
    <3>3. CASE i \in Ids
      <4>1. Newer("loop", i)
        BY <1>0, <1>5, <1>6, <2>2, <3>1, <3>3 DEF OwedIsKept
      <4> QED
        BY <3>2, <4>1 DEF Newer
    <3>4. CASE i \notin Ids
      BY <3>2, <3>4 DEF Newer
    <3> QED
      BY <3>3, <3>4
  <2> QED
    BY <1>4, <2>1, <2>2 DEF OwedIsKept, At
<1>12. Adds(cycle[c].guard) /\ cycle[c].guard => \E i \in Ids' \ Ids : records'[i].guard /\ records'[i].age = 0
  BY DEF Adds, Ids
<1>13. GuardIsKept'
  <2>1. ASSUME NEW k \in Request, continued'[k] > 0, Kept(k)', on' # k, shown' = k
        PROVE  (Guarding(k) \/ \E i \in Ids : records[i].guard /\ records[i].age + Lag < Delay + behind)'
    <3>1. Guarding(k) \/ \E i \in Ids : records[i].guard /\ records[i].age + Lag < Delay + behind
      BY <1>0, <1>6, <2>1 DEF GuardIsKept
    <3>2. CASE Guarding(k)
      <4>1. Adds(cycle[c].guard) /\ cycle[c].guard
        BY <1>6, <2>1, <3>2 DEF Records, Kept
      <4>2. PICK i \in Ids' : records'[i].guard /\ records'[i].age = 0
        BY <1>12, <4>1
      <4>3. 0 + Lag < Delay + behind /\ behind' = behind
        BY <1>0, Numbers
      <4> QED
        BY <4>2, <4>3
    <3>3. CASE \E i \in Ids : records[i].guard /\ records[i].age + Lag < Delay + behind
      BY <1>0, <1>5, <3>3
    <3> QED
      BY <3>1, <3>2, <3>3
  <2>2. ASSUME cycle'["loop"].settles, NEW k \in Request, shown' = k PROVE continued'[k] = 0 /\ cycle'["old"].sees # k
    <3>1. c = "old" /\ cycle["loop"].settles
      BY <1>0, <1>1, <2>2 DEF Cycle
    <3>2. continued[k] = 0 /\ cycle["old"].sees # k
      BY <1>0, <2>2, <3>1 DEF GuardIsKept
    <3> QED
      BY <1>0, <1>6, <3>1, <3>2
  <2> QED
    BY <2>1, <2>2 DEF GuardIsKept
<1>14. Warned'
  <2>1. ASSUME cycle'["loop"].at = "listed"
        PROVE  /\ c # "loop" /\ At("loop", "listed") /\ Recalls("loop")
               /\ \A i \in Ids' : /\ i \in cycle["loop"].young => i \in cycle'["loop"].young
                                  /\ i \in cycle["loop"].since \/ i \notin Ids => i \in cycle'["loop"].since
    <3>1. c # "loop" /\ "loop" \in Cycle \ {c}
      BY <1>0, <2>1 DEF Cycle
    <3> QED
      BY <1>0, <1>1, <2>1, <3>1 DEF Recalls, At
  <2>2. ASSUME cycle'["loop"].at = "listed", NEW i \in Ids', records'[i].age < Delay
        PROVE  i \in cycle'["loop"].young \cup cycle'["loop"].since
    BY <1>0, <1>5, <2>1, <2>2 DEF Warned
  <2>3. ASSUME cycle'["loop"].at = "listed", NEW k \in Request, cycle'["loop"].sees = k, continued'[k] > 0, Kept(k)'
        PROVE  (on = k \/ Guarding(k) \/ Leaves("loop"))'
    <3>1. on = k \/ Guarding(k) \/ Leaves("loop")
      BY <1>0, <1>6, <2>1, <2>3 DEF Warned, Recalls, SameCycle
    <3>2. CASE Guarding(k)
      <4>1. Adds(cycle[c].guard) /\ cycle[c].guard
        BY <1>6, <2>3, <3>2 DEF Records, Kept
      <4>2. PICK i \in Ids' \ Ids : TRUE
        BY <1>12, <4>1
      <4>3. i \in cycle'["loop"].since
        BY <2>1, <2>3, <4>2
      <4> QED
        BY <4>2, <4>3 DEF Leaves, Newer
    <3>3. CASE Leaves("loop")
      <4>1. PICK i \in Ids : Newer("loop", i) \/ Lagging("loop", i)
        BY <3>3 DEF Leaves
      <4>2. i \in Ids' /\ records'[i] = records[i] /\ cycle'["loop"].before = cycle["loop"].before
        BY <1>5, <2>1, <2>3, <4>1 DEF Recalls, SameCycle
      <4>3. Newer("loop", i)' \/ Lagging("loop", i)'
        BY <2>1, <2>3, <4>1, <4>2 DEF Newer, Lagging
      <4> QED
        BY <4>2, <4>3 DEF Leaves
    <3> QED
      BY <1>0, <3>1, <3>2, <3>3
  <2> QED
    BY <1>0, <1>4, <2>2, <2>3, Numbers DEF Warned, At
<1> QED
  BY <1>0, <1>8, <1>9, <1>10, <1>11, <1>13, <1>14 DEF IInv, TInv

(* A removal that was seen to hold clears what is owed. *)
LEMMA ConfirmsMoves ==
  ASSUME PollAssumption, IInv, TypeOK', Resting', NEW c \in Cycle, Confirms(c), onItsWay' = (onItsWay /\ c # "old")
  PROVE  IInv'
<1>0. /\ TInv /\ Sighted /\ NoneOwed /\ OwedIsKept /\ GuardIsKept /\ Warned /\ FirstTime /\ AnswersOnce
      /\ UNCHANGED <<on, shown, behind, asks, made, continued, lost, outlived>>
      /\ At(c, "confirm") /\ records' = ClearOwed(records) /\ cycle' = [cycle EXCEPT ![c] = PastIssue]
  BY DEF IInv, Confirms, LeavesIssue, forge, ghosts
<1>1. /\ PastIssue.at = "settle" /\ ~PastIssue.settles /\ PastIssue.sees = NoLabel
      /\ cycle'[c] = PastIssue /\ \A d \in Cycle \ {c} : cycle'[d] = cycle[d]
  BY <1>0, Numbers DEF PastIssue, Idle
<1>2. Ids' = Ids /\ \A i \in Ids : ~records'[i].owed /\ records'[i].guard = records[i].guard /\ records'[i].age = records[i].age
  <2>1. \A i \in Ids : records[i] \in RecordType
    BY <1>0 DEF TInv, TypeOK
  <2> QED
    BY <1>0, <2>1 DEF Ids, ClearOwed, RecordType
<1>3. ~Owed'
  BY <1>2 DEF Owed
<1>4. "confirm" \in Locked /\ "looked" \in Locked
  BY DEF Locked, Places
<1>5. \A d \in Cycle \ {c} : cycle[d].at \notin Locked
  BY <1>0, <1>4, Numbers DEF At
<1>6. \A k \in Request : /\ k # NoLabel /\ Taken(k)' = Taken(k) /\ Taken(k) \in Nat /\ Kept(k)' = Kept(k)
                         /\ (Sees(k)' => Sees(k)) /\ (Guarding(k) => Guarding(k)')
  <2>1. \A k \in Request : k # NoLabel /\ Taken(k) \in Nat
    BY <1>0, Numbers
  <2> QED
    BY <1>0, <1>1, <2>1 DEF Taken, Kept, Sees, Guarding, At
<1>7. Sighted' /\ NoneOwed' /\ AnswersOnce'
  BY <1>0, <1>3, <1>6 DEF Sighted, NoneOwed, AnswersOnce
<1>8. OwedIsKept'
  <2>1. ASSUME NEW k \in Request, on' = k, Taken(k)' > 0, k \notin lost' PROVE FALSE
    BY <1>0, <1>6, <2>1 DEF OwedIsKept
  <2>2. ASSUME NEW d \in Cycle, At(d, "confirm")' PROVE FALSE
    BY <1>1, <1>4, <1>5, <2>2 DEF At
  <2> QED
    BY <1>2, <2>1, <2>2 DEF OwedIsKept
<1>9. GuardIsKept'
  <2>1. cycle'["loop"].settles => cycle["loop"].settles /\ cycle'["old"].sees \in {cycle["old"].sees, NoLabel}
    BY <1>1 DEF Cycle
  <2> QED
    BY <1>0, <1>2, <1>6, <2>1 DEF GuardIsKept
<1>10. Warned'
  <2>1. cycle'["loop"].at # "looked"
    BY <1>1, <1>4, <1>5 DEF Cycle
  <2>2. cycle'["loop"].at = "listed" => cycle'["loop"] = cycle["loop"]
    BY <1>1 DEF Cycle
  <2>3. cycle'["loop"].at = "listed" => Leaves("loop")' = Leaves("loop")
    BY <1>2, <2>2 DEF Leaves, Newer, Lagging
  <2> QED
    BY <1>0, <1>2, <1>6, <2>1, <2>2, <2>3 DEF Warned, At
<1>11. FirstTime'
  BY <1>0, <1>1, <1>6 DEF FirstTime
<1> QED
  BY <1>0, <1>7, <1>8, <1>9, <1>10, <1>11 DEF IInv, TInv

(* A guard that outlasts the index is younger than the delay, and is not dropped. *)
LEMMA GuardsStay ==
  ASSUME PollAssumption, TInv, KeepsOf(records, records'), behind' = behind,
         NEW i \in Ids, records[i].guard, records[i].age + Lag < Delay + behind
  PROVE  i \in Ids' /\ records'[i].guard /\ records'[i].age < Delay /\ records'[i].age + Lag < Delay + behind'
<1>1. records[i].age \in 0..Delay /\ behind \in 0..Lag /\ Lag \in Nat /\ Delay \in Nat
  BY Numbers
<1>2. records[i].age < Delay
  BY <1>1
<1>3. i \in Ids' /\ records'[i].guard
  BY <1>2 DEF KeepsOf, Ids
<1>4. records'[i].age = records[i].age
  BY <1>3 DEF KeepsOf, Ids
<1> QED
  BY <1>2, <1>3, <1>4

(* A settlement drops records: none that is owed for a label which is on, no guard that is young. *)
LEMMA SettlesMoves ==
  ASSUME PollAssumption, IInv, TypeOK', Resting', Settles("loop"), onItsWay' = onItsWay
  PROVE  IInv'
<1>0. /\ TInv /\ TypeOK /\ Sighted /\ NoneOwed /\ OwedIsKept /\ GuardIsKept /\ Warned /\ FirstTime /\ AnswersOnce
      /\ UNCHANGED <<on, shown, behind, asks, made, continued, lost, outlived>> /\ lock = "free"
      /\ "loop" \in Cycle
  BY DEF IInv, Settles, forge, ghosts, TInv, Cycle
<1>1. /\ OthersGoOn("loop") /\ cycle'["loop"] = Idle
      /\ Ids' \subseteq Ids
      /\ ~cycle["loop"].settles => KeepsOf(records, records')
      /\ ~cycle["loop"].settles \/ (\A i \in Ids : records[i].owed => Newer("loop", i)) => OwedStay(records, records')
  BY <1>0, SettlesIs
<1>2. /\ Idle.at = "idle" /\ ~Idle.settles /\ Idle.sees = NoLabel
      /\ SameCycle(cycle'["old"], cycle["old"])
  BY <1>1 DEF Idle, OthersGoOn, Recalls, Cycle
<1>3. \A c \in Cycle : cycle[c].at \notin Locked /\ cycle'[c].at \notin Locked
  <2>1. \A c \in Cycle : cycle[c].at \notin Locked
    BY <1>0, Numbers DEF Cycle
  <2> QED
    BY <1>1, <1>2, <2>1 DEF SameCycle, Cycle, Locked
<1>4. {"looked", "answer", "retry", "create", "insert", "confirm"} \subseteq Locked
  BY DEF Locked, Places
<1>5. \A k \in Request : /\ k # NoLabel /\ Taken(k)' = Taken(k) /\ Kept(k)' = Kept(k)
                         /\ (Sees(k)' => Sees(k)) /\ ~Inserting(k) /\ ~Guarding(k)
  <2>1. \A k \in Request : k # NoLabel
    BY <1>0, Numbers
  <2> QED
    BY <1>0, <1>1, <1>2, <1>3, <1>4, <2>1 DEF Taken, Kept, Sees, Inserting, Guarding, At, SameCycle, Cycle
<1>6. Sighted' /\ AnswersOnce'
  BY <1>0, <1>5 DEF Sighted, AnswersOnce
<1>7. NoneOwed' /\ FirstTime'
  BY <1>3, <1>4 DEF NoneOwed, FirstTime, At, Acting
<1>8. OwedIsKept'
  <2>1. ASSUME NEW k \in Request, on' = k, Taken(k)' > 0, k \notin lost' PROVE Owed'
    <3>1. Owed
      BY <1>0, <1>5, <2>1 DEF OwedIsKept
    <3>2. OwedStay(records, records')
      BY <1>0, <1>1, <1>5, <2>1 DEF OwedIsKept
    <3> QED
      BY <3>1, <3>2 DEF Owed, OwedStay, Ids
  <2> QED
    BY <1>1, <1>2, <1>3, <1>4, <2>1 DEF OwedIsKept, At
<1>9. GuardIsKept'
  <2>1. ASSUME NEW k \in Request, continued'[k] > 0, Kept(k)', on' # k, shown' = k
        PROVE  \E i \in Ids' : records'[i].guard /\ records'[i].age + Lag < Delay + behind'
    <3>1. PICK i \in Ids : records[i].guard /\ records[i].age + Lag < Delay + behind
      BY <1>0, <1>5, <2>1 DEF GuardIsKept
    <3>2. ~cycle["loop"].settles
      <4>1. cycle["loop"].settles => continued[k] = 0
        BY <1>0, <2>1 DEF GuardIsKept
      <4> QED
        BY <1>0, <2>1, <4>1
    <3> QED
      BY <1>0, <1>1, <3>1, <3>2, GuardsStay
  <2> QED
    BY <1>1, <1>2, <2>1 DEF GuardIsKept
<1>10. Warned'
  BY <1>1, <1>2 DEF Warned, At
<1> QED
  BY <1>0, <1>6, <1>7, <1>8, <1>9, <1>10 DEF IInv, TInv

(* The loop takes the lock and looks at the records: it is warned of what the listing did not know. *)
LEMMA LooksMoves ==
  ASSUME PollAssumption, IInv, TypeOK', Resting', Looks("loop"), onItsWay' = onItsWay
  PROVE  IInv'
<1>0. /\ TInv /\ TypeOK /\ Sighted /\ NoneOwed /\ OwedIsKept /\ GuardIsKept /\ Warned /\ FirstTime /\ AnswersOnce
      /\ UNCHANGED <<on, shown, behind, asks, made, continued, lost, outlived>> /\ lock = "free"
      /\ At("loop", "listed") /\ records' = Noted
  BY DEF IInv, Looks, forge, ghosts, TInv
<1>1. cycle' = [cycle EXCEPT !["loop"].at = "looked", !["loop"].owed = Owed]
  BY DEF Looks, Owed
<1>2. /\ cycle'["loop"].at = "looked" /\ cycle'["loop"].owed = Owed
      /\ cycle'["loop"].sees = cycle["loop"].sees /\ cycle'["loop"].settles = cycle["loop"].settles
      /\ cycle'["loop"].before = cycle["loop"].before /\ cycle'["loop"].since = cycle["loop"].since
      /\ cycle'["loop"].young = cycle["loop"].young
      /\ cycle'["old"] = cycle["old"]
  <2>1. cycle["loop"] \in CycleType
    BY <1>0, Numbers
  <2> QED
    BY <1>0, <1>1, <2>1, Numbers DEF CycleType
<1>3. Ids' = Ids
      /\ \A i \in Ids : /\ records'[i].owed = records[i].owed /\ records'[i].guard = records[i].guard
                        /\ records'[i].age = records[i].age
  BY <1>0, NotedKeeps DEF Ids
<1>4. \A c \in Cycle : cycle[c].at \notin Locked
  BY <1>0, Numbers DEF Cycle
<1>5. {"looked", "answer", "retry", "create", "insert", "confirm"} \subseteq Locked
  BY DEF Locked, Places
<1>6. cycle'["old"].at \notin {"looked", "answer", "retry", "create", "insert", "confirm"}
      /\ ~cycle'["loop"].settles
  BY <1>0, <1>2, <1>4, <1>5 DEF TInv, Resting, At, Cycle
<1>7. \A k \in Request : /\ Taken(k)' = Taken(k) /\ Kept(k)' = Kept(k)
                         /\ (Sees(k)' => Sees(k)) /\ ~Inserting(k) /\ ~Guarding(k)
  BY <1>0, <1>2, <1>4, <1>5 DEF Taken, Kept, Sees, Inserting, Guarding, At, Cycle
<1>8. Owed' = Owed /\ Leaves("loop")' = Leaves("loop")
  BY <1>2, <1>3 DEF Owed, Leaves, Newer, Lagging
<1>9. Sighted' /\ AnswersOnce'
  BY <1>0, <1>7 DEF Sighted, AnswersOnce
<1>10. NoneOwed' /\ FirstTime'
  BY <1>2, <1>6, <1>8 DEF NoneOwed, FirstTime, At, Acting, Cycle
<1>11. OwedIsKept'
  BY <1>0, <1>2, <1>6, <1>7, <1>8 DEF OwedIsKept, At, Cycle
<1>12. GuardIsKept'
  BY <1>0, <1>3, <1>6, <1>7 DEF GuardIsKept
<1>13. Warned'
  <2>1. ASSUME NEW k \in Request, cycle'["loop"].sees = k, continued'[k] > 0, Kept(k)'
        PROVE  cycle'["loop"].owed \/ Leaves("loop")'
    <3>1. on = k \/ Leaves("loop")
      BY <1>0, <1>2, <1>7, <2>1 DEF Warned
    <3>2. on = k => Owed
      BY <1>0, <1>7, <2>1, Numbers DEF OwedIsKept, Kept
    <3> QED
      BY <1>2, <1>8, <3>1, <3>2
  <2> QED
    BY <1>2, <2>1 DEF Warned, At
<1> QED
  BY <1>0, <1>9, <1>10, <1>11, <1>12, <1>13 DEF IInv, TInv

(* The loop lists what the index shows, after it dropped what is old. *)
LEMMA BeginsMoves ==
  ASSUME PollAssumption, IInv, TypeOK', Resting', Begins, onItsWay' = onItsWay
  PROVE  IInv'
<1>0. /\ TInv /\ TypeOK /\ Sighted /\ NoneOwed /\ OwedIsKept /\ GuardIsKept /\ Warned /\ FirstTime /\ AnswersOnce
      /\ UNCHANGED <<on, shown, behind, asks, made, continued, lost, outlived>>
      /\ At("loop", "idle")
  BY DEF IInv, Begins, forge, ghosts, TInv
<1>1. /\ OthersGoOn("loop") /\ KeepsOf(records, records') /\ OwedStay(records, records')
      /\ \/ /\ cycle'["loop"].at = "listed" /\ ~cycle'["loop"].settles /\ cycle'["loop"].sees = shown
            /\ cycle'["loop"].young = {i \in Ids' : records'[i].age < Delay}
         \/ /\ cycle'["loop"].at = "settle" /\ cycle'["loop"].sees = NoLabel
            /\ cycle'["loop"].settles => shown = NoLabel
  BY <1>0, BeginsIs
<1>2. SameCycle(cycle'["old"], cycle["old"])
  BY <1>1 DEF OthersGoOn, Recalls, Cycle
<1>3. \A k \in Request : k # NoLabel /\ (continued[k] > 0 => Taken(k) > 0)
  BY <1>0, Numbers
<1>4. \A k \in Request : /\ Taken(k)' = Taken(k) /\ Kept(k)' = Kept(k)
                         /\ (Sees(k)' => Sees(k) \/ k = shown)
                         /\ (Inserting(k) => Inserting(k)') /\ (Guarding(k) => Guarding(k)')
  BY <1>0, <1>1, <1>2, <1>3 DEF Taken, Kept, Sees, Inserting, Guarding, At, SameCycle, Cycle
<1>5. Owed' <=> Owed
  BY <1>1 DEF Owed, KeepsOf, OwedStay, Ids
<1>6. Sighted'
  BY <1>0, <1>4 DEF Sighted
<1>7. NoneOwed'
  BY <1>0, <1>1, <1>2, <1>5 DEF NoneOwed, At, Acting, SameCycle, Cycle
<1>8. OwedIsKept'
  <2>1. ASSUME NEW k \in Request, on' = k, Taken(k)' > 0, k \notin lost' PROVE (Owed \/ Inserting(k))'
    BY <1>0, <1>4, <1>5, <2>1 DEF OwedIsKept
  <2>2. ASSUME NEW c \in Cycle, NEW k \in Request, At(c, "confirm")', on' = k PROVE Taken(k)' = 0 \/ k \in lost'
    <3>1. At(c, "confirm")
      BY <1>1, <1>2, <2>2 DEF At, SameCycle, Cycle
    <3> QED
      BY <1>0, <1>4, <2>2, <3>1 DEF OwedIsKept
  <2>3. ASSUME cycle'["loop"].settles, NEW k \in Request, on' = k, Taken(k)' > 0 PROVE FALSE
    BY <1>0, <1>1, <1>3, <1>4, <2>3 DEF Sighted
  <2> QED
    BY <2>1, <2>2, <2>3 DEF OwedIsKept
<1>9. GuardIsKept'
  <2>1. ASSUME NEW k \in Request, continued'[k] > 0, Kept(k)', on' # k, shown' = k
        PROVE  (Guarding(k) \/ \E i \in Ids : records[i].guard /\ records[i].age + Lag < Delay + behind)'
    <3>1. Guarding(k) \/ \E i \in Ids : records[i].guard /\ records[i].age + Lag < Delay + behind
      BY <1>0, <1>4, <2>1 DEF GuardIsKept
    <3> QED
      BY <1>0, <1>1, <1>4, <3>1, GuardsStay
  <2>2. ASSUME cycle'["loop"].settles, NEW k \in Request, shown' = k PROVE FALSE
    BY <1>0, <1>1, <1>3, <2>2
  <2> QED
    BY <2>1, <2>2 DEF GuardIsKept
<1>10. Warned'
  <2>1. ASSUME cycle'["loop"].at = "listed", NEW k \in Request, cycle'["loop"].sees = k, continued'[k] > 0, Kept(k)'
        PROVE  (on = k \/ Guarding(k) \/ Leaves("loop"))'
    <3>1. shown = k
      BY <1>1, <2>1
    <3>2. on = k \/ Guarding(k) \/ \E i \in Ids : records[i].guard /\ records[i].age + Lag < Delay + behind
      BY <1>0, <1>4, <2>1, <3>1 DEF GuardIsKept
    <3>3. ASSUME NEW i \in Ids, records[i].guard, records[i].age + Lag < Delay + behind
          PROVE  Leaves("loop")'
      <4>1. i \in Ids' /\ records'[i].guard /\ records'[i].age < Delay
        BY <1>0, <1>1, <3>3, GuardsStay
      <4>2. i \in cycle'["loop"].young
        BY <1>1, <2>1, <4>1
      <4> QED
        BY <4>1, <4>2 DEF Leaves, Lagging
    <3> QED
      BY <1>0, <1>4, <3>2, <3>3
  <2>2. cycle'["loop"].at # "looked"
    BY <1>1
  <2>3. cycle'["loop"].at = "listed" => cycle'["loop"].young = {i \in Ids' : records'[i].age < Delay}
    BY <1>1
  <2> QED
    BY <2>1, <2>2, <2>3 DEF Warned, At
<1>11. FirstTime' /\ AnswersOnce'
  BY <1>0, <1>1, <1>2, <1>4 DEF FirstTime, AnswersOnce, SameCycle, Cycle
<1> QED
  BY <1>0, <1>6, <1>7, <1>8, <1>9, <1>10, <1>11 DEF IInv, TInv

(* So every step of a cycle keeps the invariant, *)
LEMMA CycleMoves ==
  ASSUME PollAssumption, IInv, TypeOK', Resting', NEW c \in Cycle, Goes(c) \/ Stops(c)
  PROVE  IInv'
<1>0. TypeOK /\ Resting
  BY DEF IInv, TInv
<1>1. Kind(c) /\ onItsWay' = (onItsWay /\ c # "old")
  BY <1>0, CycleKinds
<1>2. CASE \E x \in CycleType : Quiet(c, x) \/ Chooses(c, x) \/ (Takes(c, x) /\ (c = "loop" \/ onItsWay))
  BY <1>1, <1>2, QuietMoves, ChoosesMoves, TakesMoves
<1>3. CASE Inserts(c)
  <2>1. At(c, "insert") /\ ~cycle[c].settles /\ UNCHANGED <<forge, asks, made, continued, outlived>>
    BY <1>0, <1>3 DEF Inserts, Resting, At
  <2>2. /\ OthersGoOn(c) /\ ~cycle'[c].settles /\ cycle'[c].sees = cycle[c].sees /\ cycle'[c].at = "remove"
        /\ \/ Adds(cycle[c].guard) /\ UNCHANGED lost
           \/ UNCHANGED records /\ lost' = lost \cup {cycle[c].sees}
    BY <1>0, <1>3, <2>1, InsertsIs
  <2>3. cycle[c].guard \in BOOLEAN
    BY <1>0 DEF TypeOK, CycleType
  <2>4. Records(c)
    BY <2>1, <2>2, <2>3 DEF Records, At, forge
  <2> QED
    BY <1>1, <2>4, RecordsMoves
<1>4. CASE Owes(c)
  <2>1. At(c, "owe") /\ UNCHANGED <<forge, ghosts>>
    BY <1>4 DEF Owes
  <2>2. /\ OthersGoOn(c) /\ ~cycle'[c].settles /\ cycle'[c].sees = NoLabel /\ cycle'[c].at \in {"idle", "settle"}
        /\ Adds(FALSE) \/ UNCHANGED records
    BY <1>0, <1>4, OwesIs
  <2>3. Records(c)
    BY <2>1, <2>2 DEF Records, At, forge, ghosts
  <2> QED
    BY <1>1, <2>3, RecordsMoves
<1>5. CASE Confirms(c)
  BY <1>1, <1>5, ConfirmsMoves
<1>6. CASE c = "loop" /\ (Begins \/ Looks(c) \/ Settles(c))
  <2>1. onItsWay' = onItsWay
    BY <1>0, <1>1, <1>6 DEF TypeOK
  <2> QED
    BY <1>6, <2>1, BeginsMoves, LooksMoves, SettlesMoves
<1> QED
  BY <1>1, <1>2, <1>3, <1>4, <1>5, <1>6 DEF Kind

(* and every step of anyone. *)
LEMMA StepIInv == ASSUME PollAssumption PROVE IInv /\ [Next]_vars => IInv'
<1> SUFFICES ASSUME IInv, [Next]_vars PROVE IInv'
  OBVIOUS
<1>0. TypeOK' /\ Resting'
  BY TypeStep DEF IInv, TInv
<1>1. CASE \E c \in Cycle : Goes(c) \/ Stops(c)
  BY <1>0, <1>1, CycleMoves
<1>2. CASE LoopIsReplaced
  BY <1>0, <1>2, LoopMoves
<1>3. /\ asks \in Nat /\ asks + 1 \in Nat /\ NoLabel \in Label \ Request /\ PutBack \in Label \ Request /\ MaxAsks \in Nat
  BY Numbers, TypeFacts DEF IInv, TInv
<1>4. CASE PersonAsks
  <2>1. asks + 1 \in Label
    BY <1>3, <1>4 DEF PersonAsks, Label, NoLabel, PutBack
  <2>2. LabelGoes /\ UNCHANGED <<records, lock, cycle, onItsWay>>
    BY <1>3, <1>4, <2>1 DEF PersonAsks, LabelGoes
  <2> QED
    BY <1>0, <2>2, LabelMoves
<1>5. CASE PersonRemoves
  <2>1. LabelGoes /\ UNCHANGED <<records, lock, cycle, onItsWay>>
    BY <1>3, <1>5 DEF PersonRemoves, LabelGoes
  <2> QED
    BY <1>0, <2>1, LabelMoves
<1>6. CASE \E j \in JobNo : Layer(j)
  <2>1. PICK j \in JobNo : Layer(j)
    BY <1>6
  <2>2. (on = NoLabel /\ PutOn(PutBack)) \/ LeavesLabel
    BY <2>1 DEF Layer, RunnerReturns, TryOfCleanup
  <2>3. UNCHANGED <<shown, records, lock, cycle, onItsWay, asks, made, continued>> /\ lost \subseteq lost'
    BY <2>1 DEF Layer, RunnerReturns, TryOfCleanup, counts
  <2>4. LabelGoes
    BY <1>3, <2>2, <2>3 DEF LabelGoes
  <2> QED
    BY <1>0, <2>3, <2>4, LabelMoves
<1>7. CASE PersonCreates \/ \E j \in JobNo : AttemptEnds(j) \/ PersonContinues(j) \/ Cancels(j) \/ Purges(j)
  <2>1. JobOnly
    BY <1>7 DEF PersonCreates, AttemptEnds, PersonContinues, Cancels, Purges
  <2> QED
    BY <1>0, <2>1, JobsMove DEF JobOnly, forge
<1>8. CASE UNCHANGED vars
  BY <1>0, <1>8, JobsMove DEF vars, forge, ghosts
<1>9. CASE IndexShows
  BY <1>0, <1>9, IndexMoves
<1>10. CASE Tick
  BY <1>0, <1>10, TimeMoves
<1> QED
  BY <1>1, <1>2, <1>4, <1>5, <1>6, <1>7, <1>8, <1>9, <1>10 DEF Next

-----------------------------------------------------------------------------
(* What follows. *)

(* A request is answered or retried at most once for all the sightings of its label, for every delay and every lag *)
(* of the index below it, whatever two cycles, people, cancels and failures come between (handler.go consume).     *)
THEOREM AnsweredOnce == ASSUME PollAssumption PROVE Spec => []AnswersOnce
<1>1. Init => IInv
  BY InitIInv
<1>2. IInv /\ [Next]_vars => IInv'
  BY StepIInv
<1>3. IInv => AnswersOnce
  BY DEF IInv
<1> QED
  BY <1>1, <1>2, <1>3, PTL DEF Spec

(* A label that was taken and is on the issue is owed, and what is acted on is not. *)
LEMMA TakenAgain ==
  ASSUME PollAssumption
  PROVE  IInv /\ [Next]_vars => [\A k \in Request : Taken(k)' > Taken(k) /\ Taken(k) > 0 => k \in lost \/ on # k]_vars
<1> SUFFICES ASSUME IInv, [Next]_vars, NEW k \in Request, Taken(k)' > Taken(k), Taken(k) > 0, k \notin lost, on = k
             PROVE  FALSE
  OBVIOUS
<1>0. TInv /\ TypeOK /\ Resting /\ NoneOwed /\ OwedIsKept /\ Taken(k) \in Nat
  BY Numbers DEF IInv, TInv
<1>1. ~(made' = made /\ continued' = continued)
  BY <1>0 DEF Taken
<1>2. PICK c \in Cycle : Goes(c) \/ Stops(c)
  BY <1>1 DEF Next, vars, ghosts, counts, LoopIsReplaced, PersonAsks, PersonRemoves, PersonCreates, IndexShows, Tick, JobOnly,
              AttemptEnds, PersonContinues, Cancels, Layer, RunnerReturns, TryOfCleanup, Purges
<1>3. Kind(c)
  BY <1>0, <1>2, CycleKinds
<1>4. PICK x \in CycleType : Takes(c, x)
  BY <1>1, <1>3 DEF Kind, Quiet, Chooses, Inserts, Owes, Confirms, Begins, Looks, Settles, ghosts
<1>5. cycle[c].at \in {"answer", "retry", "create"}
  BY <1>4 DEF Takes
<1>6. ~Owed
  BY <1>0, <1>5 DEF NoneOwed, Acting
<1>7. ~Inserting(k)
  <2>1. {"answer", "retry", "create", "insert"} \subseteq Locked
    BY DEF Locked, Places
  <2> QED
    BY <1>0, <1>5, <2>1, Numbers DEF Inserting, At
<1> QED
  BY <1>0, <1>6, <1>7 DEF OwedIsKept

(* A label that was taken and is on the issue still is not taken again, however its removal failed, whatever crashed, *)
(* and whichever cycle looks at it (docs/architecture.md: "a label whose removal failed is never taken twice").       *)
THEOREM NotTakenTwice == ASSUME PollAssumption PROVE Spec => OwedIsNotTakenTwice
<1>1. Init => IInv
  BY InitIInv
<1>2. IInv /\ [Next]_vars => IInv'
  BY StepIInv
<1>3. IInv /\ [Next]_vars => [\A k \in Request : Taken(k)' > Taken(k) /\ Taken(k) > 0 => k \in lost \/ on # k]_vars
  BY TakenAgain
<1> QED
  BY <1>1, <1>2, <1>3, PTL DEF Spec, OwedIsNotTakenTwice

-----------------------------------------------------------------------------
(* The label that a cancel put back. *)

(* The job j may have put its label back, or may do so yet. *)
PutItBack(j) == jobs[j].state = "gone" \/ (jobs[j].state = "cancelled" /\ (jobs[j].inRunner \/ jobs[j].cleanup = "back"))
MayPutBack(j) ==
  jobs[j].label /\ (jobs[j].state \in {"open", "blocked", "failed"} \/ jobs[j].busy \/ jobs[j].cleanup = "pending")

(* The record i holds the label for the job j, unless the settlement that is being made ends its hold. *)
Has(i, j) == records[i].job = j /\ records[i].seen # "ended"
Falls(i) == cycle["loop"].settles /\ i \in cycle["loop"].ripe

(* The label of j is about to have its record, or has one: one that the settlement does not end, whose release clock *)
(* is no older than the index is behind, or has not started.                                                         *)
AtInsert(j) == \E c \in Cycle : At(c, "insert") /\ cycle[c].job = j
Known(j) == AtInsert(j) \/ \E i \in Ids : Has(i, j)
Stays(j) == AtInsert(j) \/ \E i \in Ids : Has(i, j) /\ ~Falls(i)
Early(j) == AtInsert(j) \/ \E i \in Ids : Has(i, j) /\ ~Falls(i) /\ records[i].clock <= behind
Fresh(j) == AtInsert(j) \/ \E i \in Ids : Has(i, j) /\ records[i].clock = NotStarted

(* A runner that is at work, or a cleanup that is pending, is of a cancelled job. *)
Cancelled ==
  \A j \in JobNo : /\ jobs[j].busy => jobs[j].inRunner /\ jobs[j].state = "cancelled"
                   /\ jobs[j].cleanup = "pending" => jobs[j].state = "cancelled"

(* What a settlement releases had its clock started; and the old cycle sees a label only under the lock. *)
RipeIs == cycle["loop"].settles => \A i \in cycle["loop"].ripe : i \in Ids /\ records[i].clock # NotStarted
OldRests == cycle["old"].at \notin Locked => cycle["old"].sees = NoLabel

(* A job put its label back, and holds it: on the issue, in the index, in the eyes of a cycle, and by the rules. *)
HeldOn == \E j \in JobNo : PutItBack(j) /\ Early(j)
HeldShown == \E j \in JobNo : PutItBack(j) /\ Stays(j)
HeldSeen == \E j \in JobNo : PutItBack(j) /\ Known(j)
HeldRuled == \E j \in JobNo : PutItBack(j) /\ \E i \in Ids : Has(i, j) /\ records[i].seen = "holding"

(* As long as no record was lost: a job that may put its label back has its record; a label that was put back is held, *)
(* be it on the issue, in the index or in the eyes of a cycle; the rules see the hold; and no job is made of it.       *)
Awaited == \A j \in JobNo : MayPutBack(j) => Fresh(j)
BackOn == on = PutBack /\ shown # PutBack => HeldOn
BackShown == shown = PutBack => HeldShown
BackSeen == \A c \in Cycle : cycle[c].sees = PutBack => HeldSeen
BackRuled == \A c \in Cycle : cycle[c].sees = PutBack => (At(c, "looked") => HeldRuled) /\ ~At(c, "create")
BackIsHeld == lost = {} => Awaited /\ BackOn /\ BackShown /\ BackSeen /\ BackRuled /\ made[PutBack] = 0

BInv == Cancelled /\ RipeIs /\ OldRests /\ BackIsHeld

-----------------------------------------------------------------------------
(* The jobs go on. *)

(* What was put back was; and a job that may put its label back might already, or was just made. *)
JobGoesOn(j) ==
  /\ PutItBack(j) => PutItBack(j)'
  /\ MayPutBack(j)' => MayPutBack(j) \/ AtInsert(j)'
JobsKeep == Cancelled' /\ \A j \in JobNo : JobGoesOn(j)

(* The steps that change the job k alone, and what they are to see to. *)
LEMMA OneJobGoesOn ==
  ASSUME PollAssumption, TypeOK, Cancelled, NEW k \in JobNo, NEW r \in JobType, jobs' = [jobs EXCEPT ![k] = r],
         r.busy => r.inRunner /\ r.state = "cancelled",
         r.cleanup = "pending" => r.state = "cancelled",
         PutItBack(k) => r.state = "gone" \/ (r.state = "cancelled" /\ (r.inRunner \/ r.cleanup = "back")),
         r.label /\ (r.state \in {"open", "blocked", "failed"} \/ r.busy \/ r.cleanup = "pending") => MayPutBack(k) \/ AtInsert(k)'
  PROVE  JobsKeep
<1>1. jobs \in [JobNo -> JobType]
  BY DEF TypeOK
<1>2. jobs'[k] = r /\ \A j \in JobNo \ {k} : jobs'[j] = jobs[j]
  BY <1>1
<1>3. JobGoesOn(k)
  BY <1>2 DEF JobGoesOn, PutItBack, MayPutBack
<1>4. ASSUME NEW j \in JobNo \ {k} PROVE JobGoesOn(j)
  BY <1>2 DEF JobGoesOn, PutItBack, MayPutBack
<1>5. Cancelled'
  BY <1>2 DEF Cancelled
<1> QED
  BY <1>3, <1>4, <1>5 DEF JobsKeep

(* So they do, all of them. *)
LEMMA JobsGoOn ==
  ASSUME PollAssumption, TypeOK, Cancelled, [Next]_vars
  PROVE  JobsKeep
<1>0. jobs \in [JobNo -> JobType]
  BY DEF TypeOK
<1>1. CASE UNCHANGED jobs
  BY <1>1 DEF JobsKeep, Cancelled, JobGoesOn, PutItBack, MayPutBack
<1>2. ASSUME NEW k \in JobNo, NEW to \in {"open", "blocked", "failed", "done"}, Moves(k, to),
             jobs[k].state \in {"open", "blocked", "failed"}
      PROVE  JobsKeep
  <2> DEFINE r == [jobs[k] EXCEPT !.state = to]
  <2>1. jobs[k] \in JobType /\ ~jobs[k].busy /\ jobs[k].cleanup # "pending" /\ ~PutItBack(k)
    BY <1>0, <1>2 DEF Cancelled, PutItBack
  <2>2. r \in JobType /\ r.busy = jobs[k].busy /\ r.cleanup = jobs[k].cleanup /\ r.label = jobs[k].label
    BY <2>1 DEF JobType
  <2>3. jobs' = [jobs EXCEPT ![k] = r]
    BY <1>2 DEF Moves
  <2> HIDE DEF r
  <2> QED
    BY <1>2, <2>1, <2>2, <2>3, OneJobGoesOn DEF MayPutBack
<1>3. ASSUME NEW k \in JobNo, jobs[k].state = "none", NEW label \in BOOLEAN, jobs' = [jobs EXCEPT ![k] = NewJob(label)],
             label => AtInsert(k)'
      PROVE  JobsKeep
  <2> DEFINE r == NewJob(label)
  <2>1. r \in JobType /\ ~r.busy /\ r.cleanup = "no" /\ r.label = label
    BY DEF NewJob, JobType
  <2>2. ~PutItBack(k) /\ jobs' = [jobs EXCEPT ![k] = r]
    BY <1>3 DEF PutItBack
  <2> HIDE DEF r
  <2> QED
    BY <1>3, <2>1, <2>2, OneJobGoesOn
<1>4. ASSUME NEW c \in Cycle, Answers(c) \/ Retries(c)
      PROVE  JobsKeep
  <2>1. CASE Absorbs(c)
    BY <1>1, <2>1 DEF Absorbs
  <2>2. CASE ~Absorbs(c)
    <3>1. Moves(cycle[c].job, "open") /\ jobs[cycle[c].job].state \in {"blocked", "failed"}
      BY <1>4, <2>2 DEF Answers, Retries, Continues
    <3>2. CASE cycle[c].job \in JobNo
      BY <1>2, <3>1, <3>2
    <3>3. CASE cycle[c].job \notin JobNo
      <4>1. jobs' = jobs
        BY <1>0, <3>1, <3>3 DEF Moves
      <4> QED
        BY <1>1, <4>1
    <3> QED
      BY <3>2, <3>3
  <2> QED
    BY <2>1, <2>2
<1>5. ASSUME NEW c \in Cycle, Creates(c)
      PROVE  JobsKeep
  <2>1. CASE UNCHANGED jobs
    BY <1>1, <2>1
  <2>2. CASE Absent # {} /\ jobs' = [jobs EXCEPT ![Min(Absent)] = NewJob(TRUE)] /\ Consumes(c, Min(Absent), FALSE)
    <3>1. Min(Absent) \in JobNo /\ jobs[Min(Absent)].state = "none"
      BY <2>2, JobNumbers DEF Absent
    <3>2. cycle'[c].at = "insert" /\ cycle'[c].job = Min(Absent)
      <4>1. cycle \in [Cycle -> CycleType] /\ cycle[c] \in CycleType
        BY DEF TypeOK
      <4> QED
        BY <2>2, <4>1 DEF Consumes, CycleType
    <3>3. \A k : k = Min(Absent) => AtInsert(k)'
      BY <3>2 DEF AtInsert, At
    <3> QED
      BY <1>3, <2>2, <3>1, <3>3
  <2> QED
    BY <1>5, <2>1, <2>2 DEF Creates, Absorbs
<1>6. ASSUME NEW k \in JobNo, AttemptEnds(k) \/ PersonContinues(k)
      PROVE  JobsKeep
  BY <1>2, <1>6 DEF AttemptEnds, PersonContinues
<1>7. ASSUME NEW k \in JobNo, Cancels(k)
      PROVE  JobsKeep
  <2>0. jobs[k] \in JobType /\ jobs[k].state \in {"open", "blocked"} /\ ~jobs[k].busy /\ ~PutItBack(k)
        /\ jobs[k].cleanup # "pending"
    BY <1>0, <1>7 DEF Cancels, OpenJobs, Open, Cancelled, PutItBack
  <2>1. ASSUME NEW owed \in {"no", "pending"}, jobs' = [jobs EXCEPT ![k].state = "cancelled", ![k].cleanup = owed]
        PROVE  JobsKeep
    <3> DEFINE r == [jobs[k] EXCEPT !.state = "cancelled", !.cleanup = owed]
    <3>1. r \in JobType /\ r.busy = jobs[k].busy /\ r.label = jobs[k].label /\ r.state = "cancelled"
      BY <2>0 DEF JobType
    <3>2. jobs' = [jobs EXCEPT ![k] = r]
      BY <1>0, <2>1
    <3> HIDE DEF r
    <3> QED
      BY <2>0, <3>1, <3>2, OneJobGoesOn DEF MayPutBack
  <2>2. ASSUME jobs' = [jobs EXCEPT ![k].state = "cancelled", ![k].inRunner = TRUE, ![k].busy = TRUE]
        PROVE  JobsKeep
    <3> DEFINE r == [jobs[k] EXCEPT !.state = "cancelled", !.inRunner = TRUE, !.busy = TRUE]
    <3>1. r \in JobType /\ r.inRunner /\ r.label = jobs[k].label /\ r.state = "cancelled"
      BY <2>0 DEF JobType
    <3>2. jobs' = [jobs EXCEPT ![k] = r]
      BY <1>0, <2>2
    <3> HIDE DEF r
    <3> QED
      BY <2>0, <3>1, <3>2, OneJobGoesOn DEF MayPutBack
  <2> QED
    BY <1>7, <2>1, <2>2 DEF Cancels
<1>8. ASSUME NEW k \in JobNo, RunnerReturns(k)
      PROVE  JobsKeep
  <2>0. jobs[k] \in JobType /\ jobs[k].busy /\ jobs[k].state = "cancelled" /\ jobs[k].inRunner
    BY <1>0, <1>8 DEF RunnerReturns, Cancelled
  <2>1. PICK owed \in {"no", "pending"} : jobs' = [jobs EXCEPT ![k].busy = FALSE, ![k].cleanup = owed]
    BY <1>8 DEF RunnerReturns
  <2> DEFINE r == [jobs[k] EXCEPT !.busy = FALSE, !.cleanup = owed]
  <2>2. r \in JobType /\ ~r.busy /\ r.inRunner /\ r.label = jobs[k].label /\ r.state = "cancelled"
    BY <2>0 DEF JobType
  <2>3. jobs' = [jobs EXCEPT ![k] = r]
    BY <1>0, <2>1
  <2> HIDE DEF r
  <2> QED
    BY <2>0, <2>2, <2>3, OneJobGoesOn DEF MayPutBack
<1>9. ASSUME NEW k \in JobNo, TryOfCleanup(k)
      PROVE  JobsKeep
  <2>0. jobs[k] \in JobType /\ ~jobs[k].busy /\ jobs[k].state = "cancelled" /\ jobs[k].cleanup = "pending"
    BY <1>0, <1>9 DEF TryOfCleanup, Cancelled
  <2>1. ASSUME NEW what \in {"back", "no"}, jobs' = [jobs EXCEPT ![k].cleanup = what]
        PROVE  JobsKeep
    <3> DEFINE r == [jobs[k] EXCEPT !.cleanup = what]
    <3>1. r \in JobType /\ r.busy = jobs[k].busy /\ r.inRunner = jobs[k].inRunner /\ r.label = jobs[k].label
          /\ r.state = "cancelled" /\ r.cleanup = what
      BY <2>0 DEF JobType
    <3>2. jobs' = [jobs EXCEPT ![k] = r]
      BY <1>0, <2>1
    <3> HIDE DEF r
    <3> QED
      BY <2>0, <2>1, <3>1, <3>2, OneJobGoesOn DEF PutItBack
  <2> QED
    BY <1>1, <1>9, <2>1 DEF TryOfCleanup
<1>10. ASSUME NEW k \in JobNo, Purges(k)
      PROVE  JobsKeep
  <2> DEFINE r == [NewJob(FALSE) EXCEPT !.state = "gone"]
  <2>1. r \in JobType /\ ~r.busy /\ ~r.label /\ r.state = "gone" /\ r.cleanup = "no"
    BY DEF NewJob, JobType
  <2>2. jobs' = [jobs EXCEPT ![k] = r]
    BY <1>10 DEF Purges
  <2> HIDE DEF r
  <2> QED
    BY <2>1, <2>2, OneJobGoesOn
<1>11. CASE PersonCreates
  <2>1. Min(Absent) \in JobNo /\ jobs[Min(Absent)].state = "none"
    BY <1>11, JobNumbers DEF PersonCreates, Absent
  <2> QED
    BY <1>3, <1>11, <2>1 DEF PersonCreates
<1>12. ASSUME NEW c \in Cycle, Goes(c) \/ Stops(c)
      PROVE  JobsKeep
  <2>1. CASE UNCHANGED jobs
    BY <1>1, <2>1
  <2> QED
    BY <1>4, <1>5, <1>12, <2>1
       DEF Goes, Step, Stops, Begins, Looks, Decides, Replies, Inserts, Removes, Confirms, Owes, Settles, RemovalFails
<1>13. CASE LoopIsReplaced \/ PersonAsks \/ PersonRemoves \/ IndexShows \/ Tick \/ UNCHANGED vars
  BY <1>1, <1>13 DEF LoopIsReplaced, PersonAsks, PersonRemoves, IndexShows, Tick, vars
<1> QED
  BY <1>6, <1>7, <1>8, <1>9, <1>10, <1>11, <1>12, <1>13 DEF Next, Layer

-----------------------------------------------------------------------------
(* The records hold on. *)

(* A record that is noted again holds for a job that put its label back, and waits with the one that may do so. *)
LEMMA NotedHolds ==
  ASSUME PollAssumption, TypeOK, Cancelled
  PROVE  \A i \in Ids, j \in JobNo :
           /\ Noted[i].job = records[i].job
           /\ records[i].clock # NotStarted => Noted[i].clock = records[i].clock
           /\ records[i].clock = NotStarted => Noted[i].clock \in {NotStarted, 0}
           /\ Has(i, j) /\ PutItBack(j) => Noted[i].seen = "holding"
           /\ Has(i, j) /\ MayPutBack(j) => Noted[i].seen # "ended" /\ Noted[i].clock = records[i].clock
<1>1. Recs(records) /\ Noted = [i \in Ids |-> Note(records[i])] /\ Ids = DOMAIN records
  BY DEF TypeOK, Recs, Ids, Noted
<1>2. ASSUME NEW r \in RecordType, NEW started \in BOOLEAN
      PROVE  /\ HoldFrom(r, started).job = r.job /\ HoldFrom(r, started).seen = "holding"
             /\ r.clock # NotStarted => HoldFrom(r, started).clock = r.clock
             /\ r.clock = NotStarted => HoldFrom(r, started).clock = IF started THEN 0 ELSE NotStarted
  BY <1>2 DEF HoldFrom, RecordType
<1>3. ASSUME NEW r \in RecordType
      PROVE  /\ Note(r).job = r.job
             /\ r.clock # NotStarted => Note(r).clock = r.clock
             /\ r.clock = NotStarted => Note(r).clock \in {NotStarted, 0}
             /\ r.job \in JobNo /\ r.seen # "ended" /\ PutItBack(r.job) => Note(r).seen = "holding"
             /\ r.job \in JobNo /\ r.seen # "ended" /\ MayPutBack(r.job) => Note(r).seen # "ended" /\ Note(r).clock = r.clock
  <2> DEFINE j == jobs[r.job]
             started == ~j.busy /\ j.cleanup # "pending"
             ended == [r EXCEPT !.seen = "ended"]
  <2>1. ended.job = r.job /\ ended.clock = r.clock
    BY <1>3 DEF RecordType
  <2>2. HoldFrom(r, TRUE).job = r.job /\ HoldFrom(r, TRUE).seen = "holding"
        /\ (r.clock # NotStarted => HoldFrom(r, TRUE).clock = r.clock) /\ (r.clock = NotStarted => HoldFrom(r, TRUE).clock = 0)
    BY <1>2, <1>3
  <2>3. HoldFrom(r, FALSE).job = r.job /\ HoldFrom(r, FALSE).seen = "holding" /\ HoldFrom(r, FALSE).clock = r.clock
    BY <1>2, <1>3
  <2>5. r.job \in JobNo /\ MayPutBack(r.job) => /\ j.state \in {"open", "blocked", "failed", "cancelled", "done"}
                                                /\ j.state \in {"done", "cancelled"} => j.state = "cancelled" /\ Holds(j) /\ ~started
    <3>1. CASE r.job \in JobNo /\ MayPutBack(r.job)
      <4>1. /\ j.state \in {"open", "blocked", "failed"} \/ j.busy \/ j.cleanup = "pending"
            /\ j.busy => j.inRunner /\ j.state = "cancelled"
            /\ j.cleanup = "pending" => j.state = "cancelled"
        BY <3>1 DEF MayPutBack, Cancelled
      <4> QED
        BY <4>1 DEF Holds
    <3> QED
      BY <3>1
  <2>6. r.job \in JobNo /\ PutItBack(r.job) => j.state = "gone" \/ (j.state = "cancelled" /\ Holds(j))
    BY DEF PutItBack, Holds
  <2>7. r.job \in JobNo => r.job # NoJob
    BY DEF JobNo, NoJob
  <2>8. CASE r.job = NoJob \/ r.seen = "ended"
    <3>1. Note(r) = r
      BY <2>8 DEF Note
    <3> QED
      BY <2>7, <2>8, <3>1
  <2>9. CASE ~(r.job = NoJob \/ r.seen = "ended") /\ j.state = "gone"
    <3>1. Note(r) = HoldFrom(r, TRUE)
      BY <2>9 DEF Note
    <3> QED
      BY <2>2, <2>5, <2>9, <3>1
  <2>10. CASE ~(r.job = NoJob \/ r.seen = "ended") /\ j.state = "cancelled" /\ Holds(j)
    <3>1. Note(r) = HoldFrom(r, started)
      BY <2>10 DEF Note
    <3>2. CASE started
      <4>1. Note(r) = HoldFrom(r, TRUE)
        BY <3>1, <3>2 DEF HoldFrom
      <4> QED
        BY <2>2, <2>5, <2>10, <3>2, <4>1
    <3>3. CASE ~started
      <4>1. Note(r) = HoldFrom(r, FALSE)
        BY <3>1, <3>3 DEF HoldFrom
      <4> QED
        BY <2>3, <4>1
    <3> QED
      BY <3>2, <3>3
  <2>11. CASE ~(r.job = NoJob \/ r.seen = "ended") /\ (j.state = "done" \/ (j.state = "cancelled" /\ ~Holds(j)))
    <3>1. Note(r) = ended
      BY <2>11 DEF Note
    <3> QED
      BY <2>1, <2>5, <2>6, <2>11, <3>1
  <2>12. CASE ~(r.job = NoJob \/ r.seen = "ended") /\ j.state \notin {"gone", "done", "cancelled"}
    <3>1. Note(r) = r
      BY <2>12 DEF Note
    <3> QED
      BY <2>6, <2>12, <3>1
  <2> QED
    BY <2>8, <2>9, <2>10, <2>11, <2>12
<1> QED
  BY <1>1, <1>3 DEF Recs, Has

(* Dropping the old records loses none that holds. *)
LEMMA DropHolds ==
  ASSUME PollAssumption, NEW rs, Recs(rs)
  PROVE  /\ DOMAIN Drop(rs) \subseteq DOMAIN rs
         /\ \A i \in DOMAIN Drop(rs) :
              Drop(rs)[i].job = rs[i].job /\ Drop(rs)[i].seen = rs[i].seen /\ Drop(rs)[i].clock = rs[i].clock
         /\ \A i \in DOMAIN rs : rs[i].job \in JobNo /\ rs[i].seen # "ended" => i \in DOMAIN Drop(rs)
<1> DEFINE ex == ExpireGuards(rs)
           kept == {i \in DOMAIN rs : Keeps(ex[i])}
<1>1. \A i \in DOMAIN rs : ex[i].job = rs[i].job /\ ex[i].seen = rs[i].seen /\ ex[i].clock = rs[i].clock
  BY DEF ExpireGuards, Recs, RecordType
<1>2. Drop(rs) = [i \in kept |-> ex[i]]
  BY DEF Drop
<1> HIDE DEF ex
<1>3. \A i \in DOMAIN rs : rs[i].job \in JobNo /\ rs[i].seen # "ended" => i \in kept
  BY <1>1 DEF Keeps, JobNo, NoJob
<1>4. kept \subseteq DOMAIN rs
  OBVIOUS
<1> HIDE DEF kept
<1> QED
  BY <1>1, <1>2, <1>3, <1>4

(* A settlement ends the holds that are ripe, and no other. *)
LEMMA SettledHolds ==
  ASSUME PollAssumption, TypeOK, NEW c \in Cycle
  PROVE  \A i \in Ids : /\ Settled(c)[i].job = records[i].job /\ Settled(c)[i].clock = records[i].clock
                        /\ i \notin cycle[c].ripe => Settled(c)[i].seen = records[i].seen
<1>1. Recs(records) /\ DOMAIN records = Ids
  BY TypeFacts
<1> DEFINE old == {i \in Ids : ~Newer(c, i)}
           cleared == IF \E i \in old : records[i].owed THEN ClearOwed(records) ELSE records
           released == IF \E i \in old : records[i].guard THEN ClearGuard(cleared) ELSE cleared
           ends(i) == i \in old /\ records[i].seen = "holding" /\ Ripe(c, i)
<1>2. Settled(c) = [i \in Ids |-> IF ends(i) THEN [released[i] EXCEPT !.seen = "ended"] ELSE released[i]]
  BY DEF Settled
<1>3. DOMAIN cleared = Ids /\ \A i \in Ids : /\ cleared[i] \in RecordType /\ cleared[i].job = records[i].job
                                             /\ cleared[i].seen = records[i].seen /\ cleared[i].clock = records[i].clock
  BY <1>1 DEF ClearOwed, Recs, RecordType
<1> HIDE DEF cleared
<1>4. \A i \in Ids : /\ released[i] \in RecordType /\ released[i].job = records[i].job
                     /\ released[i].seen = records[i].seen /\ released[i].clock = records[i].clock
  <2>1. ASSUME NEW i \in Ids
        PROVE  /\ ClearGuard(cleared)[i] \in RecordType /\ ClearGuard(cleared)[i].job = cleared[i].job
               /\ ClearGuard(cleared)[i].seen = cleared[i].seen /\ ClearGuard(cleared)[i].clock = cleared[i].clock
    <3>1. ClearGuard(cleared)[i] = [cleared[i] EXCEPT !.guard = FALSE]
      BY <1>3 DEF ClearGuard
    <3> QED
      BY <1>3, <3>1 DEF RecordType
  <2> QED
    BY <1>3, <2>1
<1> HIDE DEF released
<1>5. \A i \in Ids : ends(i) => i \in cycle[c].ripe
  BY DEF Ripe
<1> HIDE DEF ends
<1> QED
  BY <1>2, <1>4, <1>5 DEF RecordType

-----------------------------------------------------------------------------
(* What holds goes on to hold. *)

(* The records for j last: the one that awaits it awaits it, and what was early for the index still is. *)
Lasts(j) ==
  \A i \in Ids : Has(i, j) =>
    /\ i \in Ids' /\ records'[i].job = j /\ records'[i].seen # "ended"
    /\ MayPutBack(j) /\ records[i].clock = NotStarted => records'[i].clock = NotStarted
    /\ PutItBack(j) /\ records[i].seen = "holding" => records'[i].seen = "holding"
    /\ on' = PutBack /\ shown' # PutBack /\ records[i].clock <= behind => records'[i].clock <= behind'

(* Then so does the label that was put back, if no settlement is begun that ends what holds it. *)
LEMMA BackStays ==
  ASSUME PollAssumption, TypeOK, TypeOK', Cancelled, Awaited, JobsKeep,
         \A j \in JobNo : PutItBack(j) \/ MayPutBack(j) => Lasts(j) /\ (AtInsert(j) => Fresh(j)')
  PROVE  /\ Awaited'
         /\ HeldSeen => HeldSeen'
         /\ HeldRuled => HeldRuled'
         /\ RipeIs' /\ (\A i \in Ids : Falls(i)' => Falls(i)) => (HeldShown => HeldShown')
         /\ RipeIs' /\ (\A i \in Ids : Falls(i)' => Falls(i) \/ ~(records'[i].clock <= behind')) =>
              (HeldOn /\ on' = PutBack /\ shown' # PutBack => HeldOn')
         /\ RipeIs' => \A j \in JobNo : Fresh(j)' => Early(j)' /\ Stays(j)'
<1>1. ASSUME NEW j \in JobNo PROVE JobGoesOn(j)
  BY DEF JobsKeep
<1>2. Awaited'
  <2>1. ASSUME NEW j \in JobNo, MayPutBack(j)' PROVE Fresh(j)'
    <3>1. CASE AtInsert(j)'
      BY <3>1 DEF Fresh
    <3>2. CASE MayPutBack(j)
      <4>1. Fresh(j) /\ Lasts(j) /\ (AtInsert(j) => Fresh(j)')
        BY <3>2 DEF Awaited
      <4>2. CASE \E i \in Ids : Has(i, j) /\ records[i].clock = NotStarted
        BY <3>2, <4>1, <4>2 DEF Lasts, Fresh, Has
      <4> QED
        BY <4>1, <4>2 DEF Fresh
    <3> QED
      BY <1>1, <2>1, <3>1, <3>2 DEF JobGoesOn
  <2> QED
    BY <2>1 DEF Awaited
<1>3. \A j \in JobNo : Fresh(j)' => Known(j)'
  BY DEF Fresh, Known
<1>4. RipeIs' => \A j \in JobNo : Fresh(j)' => Early(j)' /\ Stays(j)'
  <2>1. behind' \in Nat
    BY DEF TypeOK, PollAssumption
  <2>2. NotStarted <= behind'
    BY <2>1 DEF NotStarted
  <2> QED
    BY <2>2 DEF Fresh, Early, Stays, RipeIs, Falls
<1>5. ASSUME NEW j \in JobNo, PutItBack(j)
      PROVE  /\ PutItBack(j)' /\ Lasts(j) /\ (AtInsert(j) => Fresh(j)')
             /\ Known(j) => Known(j)'
  <2>1. PutItBack(j)' /\ Lasts(j) /\ (AtInsert(j) => Fresh(j)')
    BY <1>1, <1>5 DEF JobGoesOn
  <2> QED
    BY <1>3, <2>1 DEF Known, Lasts, Has
<1>6. HeldSeen => HeldSeen'
  BY <1>5 DEF HeldSeen
<1>7. HeldRuled => HeldRuled'
  <2>1. ASSUME NEW j \in JobNo, PutItBack(j), NEW i \in Ids, Has(i, j), records[i].seen = "holding"
        PROVE  HeldRuled'
    <3>1. i \in Ids' /\ Has(i, j)' /\ records'[i].seen = "holding" /\ PutItBack(j)'
      BY <1>5, <2>1 DEF Lasts, Has
    <3> QED
      BY <3>1 DEF HeldRuled
  <2> QED
    BY <2>1 DEF HeldRuled
<1>8. ASSUME RipeIs', \A i \in Ids : Falls(i)' => Falls(i), HeldShown
      PROVE  HeldShown'
  <2>1. PICK j \in JobNo : PutItBack(j) /\ Stays(j)
    BY <1>8 DEF HeldShown
  <2>2. PutItBack(j)' /\ Lasts(j) /\ (AtInsert(j) => Stays(j)')
    BY <1>4, <1>5, <1>8, <2>1
  <2>3. ASSUME NEW i \in Ids, Has(i, j), ~Falls(i) PROVE Stays(j)'
    <3>1. i \in Ids' /\ Has(i, j)' /\ ~Falls(i)'
      BY <1>8, <2>2, <2>3 DEF Lasts, Has
    <3> QED
      BY <3>1 DEF Stays
  <2>4. Stays(j)'
    BY <2>1, <2>2, <2>3 DEF Stays
  <2> QED
    BY <2>2, <2>4 DEF HeldShown
<1>9. ASSUME RipeIs', \A i \in Ids : Falls(i)' => Falls(i) \/ ~(records'[i].clock <= behind'),
             HeldOn, on' = PutBack, shown' # PutBack
      PROVE  HeldOn'
  <2>1. PICK j \in JobNo : PutItBack(j) /\ Early(j)
    BY <1>9 DEF HeldOn
  <2>2. PutItBack(j)' /\ Lasts(j) /\ (AtInsert(j) => Early(j)')
    BY <1>4, <1>5, <1>9, <2>1
  <2>3. ASSUME NEW i \in Ids, Has(i, j), ~Falls(i), records[i].clock <= behind PROVE Early(j)'
    <3>1. i \in Ids' /\ Has(i, j)' /\ records'[i].clock <= behind'
      BY <1>9, <2>2, <2>3 DEF Lasts, Has
    <3>2. ~Falls(i)'
      BY <1>9, <2>3, <3>1
    <3> QED
      BY <3>1, <3>2 DEF Early
  <2>4. Early(j)'
    BY <2>1, <2>2, <2>3 DEF Early
  <2> QED
    BY <2>2, <2>4 DEF HeldOn
<1> QED
  BY <1>2, <1>4, <1>6, <1>7, <1>8, <1>9

-----------------------------------------------------------------------------
(* The steps, and the label that was put back. *)

(* People, the jobs layer and the index leave the records and the cycles alone. *)
LEMMA BackOutside ==
  ASSUME PollAssumption, TInv, BInv, TypeOK', JobsKeep, UNCHANGED <<records, cycle, made>>, lost \subseteq lost',
         on' = PutBack /\ shown' # PutBack => behind' = behind,
         on' = PutBack /\ shown' # PutBack /\ lost' = {} => on = PutBack \/ \E j \in JobNo : PutItBack(j)' /\ Fresh(j),
         shown' = shown \/ (shown' = on /\ on' = on)
  PROVE  BInv'
<1>0. TypeOK /\ Cancelled /\ RipeIs /\ OldRests /\ BackIsHeld
  BY DEF TInv, BInv
<1>1. Cancelled' /\ RipeIs' /\ OldRests'
  BY <1>0 DEF JobsKeep, RipeIs, OldRests, Ids
<1>2. \A j : AtInsert(j)' = AtInsert(j) /\ Fresh(j)' = Fresh(j)
  BY DEF AtInsert, At, Fresh, Has, Ids
<1>3. \A i : Falls(i)' = Falls(i)
  BY DEF Falls
<1>4. ASSUME lost' = {} PROVE (Awaited /\ BackOn /\ BackShown /\ BackSeen /\ BackRuled /\ made[PutBack] = 0)'
  <2>1. Awaited /\ BackOn /\ BackShown /\ BackSeen /\ BackRuled /\ made[PutBack] = 0
    BY <1>0, <1>4 DEF BackIsHeld
  <2>2. \A j \in JobNo : Lasts(j)
    BY DEF Lasts, Has, Ids
  <2>3. \A j \in JobNo : AtInsert(j) => Fresh(j)'
    BY <1>2 DEF Fresh
  <2>4. /\ Awaited' /\ (HeldSeen => HeldSeen') /\ (HeldRuled => HeldRuled') /\ (HeldShown => HeldShown')
        /\ HeldOn /\ on' = PutBack /\ shown' # PutBack => HeldOn'
        /\ \A j \in JobNo : Fresh(j)' => Early(j)'
    BY <1>0, <1>1, <1>3, <2>1, <2>2, <2>3, BackStays
  <2>5. HeldOn => HeldShown
    BY DEF HeldOn, HeldShown, Early, Stays
  <2>6. BackOn'
    <3>1. SUFFICES ASSUME on' = PutBack, shown' # PutBack PROVE HeldOn'
      BY DEF BackOn
    <3>2. CASE on = PutBack
      BY <2>1, <2>4, <3>1, <3>2 DEF BackOn
    <3>3. CASE \E j \in JobNo : PutItBack(j)' /\ Fresh(j)
      BY <1>2, <2>4, <3>3 DEF HeldOn
    <3> QED
      BY <1>4, <3>1, <3>2, <3>3
  <2>7. BackShown'
    BY <2>1, <2>4, <2>5 DEF BackShown, BackOn
  <2>8. BackSeen' /\ BackRuled' /\ made'[PutBack] = 0
    BY <2>1, <2>4 DEF BackSeen, BackRuled, At
  <2> QED
    BY <2>4, <2>6, <2>7, <2>8
<1> QED
  BY <1>1, <1>4 DEF BInv, BackIsHeld

(* The clocks go on, and the index with them. *)
LEMMA BackTick ==
  ASSUME PollAssumption, TInv, BInv, TypeOK', JobsKeep, Tick
  PROVE  BInv'
<1>0. /\ TypeOK /\ Cancelled /\ RipeIs /\ OldRests /\ BackIsHeld
      /\ UNCHANGED <<on, shown, cycle, made, lost>>
      /\ behind' = IF on = shown THEN 0 ELSE behind + 1
      /\ records' = [i \in Ids |-> [records[i] EXCEPT !.age = Older(@), !.clock = Older(@)]]
  BY DEF TInv, BInv, Tick, ghosts
<1>1. Ids' = Ids
  BY <1>0 DEF Ids
<1>2. ASSUME NEW i \in Ids
      PROVE  /\ records'[i].job = records[i].job /\ records'[i].seen = records[i].seen
             /\ records'[i].clock = NotStarted <=> records[i].clock = NotStarted
             /\ records[i].clock <= behind => records'[i].clock <= behind + 1
  <2>1. records[i] \in RecordType /\ Delay \in Nat /\ behind \in Nat
    <3>1. records[i] \in RecordType /\ behind \in 0..Lag
      BY <1>0, <1>2 DEF TypeOK
    <3>2. Delay \in Nat /\ Lag \in Nat
      BY <1>0, TypeFacts
    <3> QED
      BY <3>1, <3>2
  <2>2. records'[i] = [records[i] EXCEPT !.age = Older(@), !.clock = Older(@)]
    BY <1>0, <1>2
  <2>3. records'[i].job = records[i].job /\ records'[i].seen = records[i].seen /\ records'[i].clock = Older(records[i].clock)
    BY <2>1, <2>2 DEF RecordType
  <2> DEFINE clock == records[i].clock
  <2>4. clock \in NotStarted..Delay
    BY <2>1 DEF RecordType
  <2> HIDE DEF clock
  <2>5. CASE clock = NotStarted
    BY <2>1, <2>3, <2>5 DEF Older, NotStarted, clock
  <2>6. CASE clock # NotStarted
    <3>1. clock \in Nat /\ clock + 1 \in Nat
      BY <2>1, <2>4, <2>6 DEF NotStarted
    <3>2. Older(clock) = IF clock + 1 <= Delay THEN clock + 1 ELSE Delay
      BY <2>1, <2>6, <3>1, MinOfTwo DEF Older
    <3>3. Older(clock) \in Nat /\ Older(clock) <= clock + 1
      BY <2>1, <2>4, <3>1, <3>2
    <3> QED
      BY <2>1, <2>3, <2>6, <3>1, <3>3 DEF NotStarted, clock
  <2> QED
    BY <2>5, <2>6
<1>3. Cancelled' /\ RipeIs' /\ OldRests'
  BY <1>0, <1>1, <1>2 DEF JobsKeep, RipeIs, OldRests
<1>4. \A j : AtInsert(j)' = AtInsert(j)
  BY <1>0 DEF AtInsert, At
<1>5. \A i : Falls(i)' = Falls(i)
  BY <1>0 DEF Falls
<1>6. ASSUME lost' = {} PROVE (Awaited /\ BackOn /\ BackShown /\ BackSeen /\ BackRuled /\ made[PutBack] = 0)'
  <2>1. Awaited /\ BackOn /\ BackShown /\ BackSeen /\ BackRuled /\ made[PutBack] = 0
    BY <1>0, <1>6 DEF BackIsHeld
  <2>2. \A j \in JobNo : Lasts(j)
    BY <1>0, <1>1, <1>2 DEF Lasts, Has
  <2>3. \A j \in JobNo : AtInsert(j) => Fresh(j)'
    BY <1>4 DEF Fresh
  <2>4. /\ Awaited' /\ (HeldSeen => HeldSeen') /\ (HeldRuled => HeldRuled') /\ (HeldShown => HeldShown')
        /\ HeldOn /\ on' = PutBack /\ shown' # PutBack => HeldOn'
    BY <1>0, <1>3, <1>5, <2>1, <2>2, <2>3, BackStays
  <2> QED
    BY <1>0, <2>1, <2>4 DEF BackOn, BackShown, BackSeen, BackRuled, At
<1> QED
  BY <1>3, <1>6 DEF BInv, BackIsHeld

(* The loop is replaced: what it was about to record, the old cycle is. *)
LEMMA BackLoop ==
  ASSUME PollAssumption, TInv, BInv, TypeOK', JobsKeep, LoopIsReplaced
  PROVE  BInv'
<1>0. /\ TypeOK /\ Cancelled /\ RipeIs /\ OldRests /\ BackIsHeld
      /\ UNCHANGED <<on, shown, behind, records, made, lost>>
      /\ lock = "loop" /\ At("old", "idle")
      /\ cycle' = [cycle EXCEPT !["loop"] = Idle, !["old"] = cycle["loop"]]
  BY DEF TInv, BInv, LoopIsReplaced, forge, ghosts
<1>1. cycle'["loop"] = Idle /\ cycle'["old"] = cycle["loop"] /\ Cycle = {"loop", "old"}
  BY <1>0 DEF TypeOK, Cycle
<1>2. ~Idle.settles /\ Idle.sees = NoLabel /\ Idle.at = "idle" /\ NoLabel # PutBack
  BY <1>0, TypeFacts DEF Idle
<1>3. cycle["loop"].at \in Locked
  BY <1>0, <1>1 DEF TypeOK
<1>4. Cancelled' /\ RipeIs' /\ OldRests'
  BY <1>0, <1>1, <1>2, <1>3 DEF JobsKeep, RipeIs, OldRests
<1>5. \A j : AtInsert(j) => AtInsert(j)'
  BY <1>0, <1>1 DEF AtInsert, At
<1>6. \A i : ~Falls(i)'
  BY <1>1, <1>2 DEF Falls
<1>7. ASSUME lost' = {} PROVE (Awaited /\ BackOn /\ BackShown /\ BackSeen /\ BackRuled /\ made[PutBack] = 0)'
  <2>1. Awaited /\ BackOn /\ BackShown /\ BackSeen /\ BackRuled /\ made[PutBack] = 0
    BY <1>0, <1>7 DEF BackIsHeld
  <2>2. \A j \in JobNo : Lasts(j)
    BY <1>0 DEF Lasts, Has, Ids
  <2>3. \A j \in JobNo : AtInsert(j) => Fresh(j)'
    BY <1>5 DEF Fresh
  <2>4. /\ Awaited' /\ (HeldSeen => HeldSeen') /\ (HeldRuled => HeldRuled') /\ (HeldShown => HeldShown')
        /\ HeldOn /\ on' = PutBack /\ shown' # PutBack => HeldOn'
    BY <1>0, <1>4, <1>6, <2>1, <2>2, <2>3, BackStays
  <2>5. BackSeen' /\ BackRuled'
    BY <1>1, <1>2, <2>1, <2>4 DEF BackSeen, BackRuled, At
  <2> QED
    BY <1>0, <2>1, <2>4, <2>5 DEF BackOn, BackShown
<1> QED
  BY <1>4, <1>7 DEF BInv, BackIsHeld


(* People, the jobs layer and the index. *)
LEMMA BackPeople ==
  ASSUME PollAssumption, TInv, BInv, TypeOK', JobsKeep,
         \/ PersonAsks \/ PersonRemoves \/ IndexShows \/ JobOnly \/ UNCHANGED vars
         \/ \E j \in JobNo : Layer(j)
  PROVE  BInv'
<1>0. /\ NoLabel # PutBack /\ TypeOK /\ Cancelled /\ BackIsHeld /\ jobs \in [JobNo -> JobType]
  BY TypeFacts DEF TInv, BInv, TypeOK
<1>1. CASE PersonAsks
  <2>1. asks + 1 # PutBack
    BY <1>0, <1>1 DEF PersonAsks, PutBack, TypeOK, PollAssumption
  <2> QED
    BY <1>1, <2>1, BackOutside DEF PersonAsks, PutOn
<1>2. CASE PersonRemoves
  BY <1>0, <1>2, BackOutside DEF PersonRemoves, PutOn
<1>3. CASE IndexShows
  BY <1>3, BackOutside DEF IndexShows, ghosts
<1>4. CASE JobOnly \/ UNCHANGED vars
  BY <1>4, BackOutside DEF JobOnly, vars, forge, ghosts
<1>5. ASSUME NEW j \in JobNo, Layer(j)
      PROVE  BInv'
  <2>1. /\ UNCHANGED <<shown, records, cycle, made>> /\ lost \subseteq lost'
        /\ LeavesLabel \/ (on = NoLabel /\ PutOn(PutBack) /\ jobs[j].label)
    BY <1>5 DEF Layer, RunnerReturns, TryOfCleanup, counts
  <2>2. on' = PutBack /\ shown' # PutBack => behind' = behind
    BY <2>1 DEF LeavesLabel, PutOn
  <2>3. ASSUME on' = PutBack, on # PutBack, lost' = {} PROVE PutItBack(j)' /\ Fresh(j)
    <3>1. on = NoLabel /\ PutOn(PutBack) /\ jobs[j].label /\ ~LeavesLabel
      BY <2>1, <2>3 DEF LeavesLabel
    <3>2. Awaited
      BY <1>0, <2>1, <2>3 DEF BackIsHeld
    <3>3. CASE RunnerReturns(j)
      <4>1. jobs[j] \in JobType /\ jobs[j].busy /\ jobs[j].inRunner /\ jobs[j].state = "cancelled"
        BY <1>0, <3>3 DEF RunnerReturns, Cancelled
      <4>2. PICK owed \in {"no", "pending"} : jobs' = [jobs EXCEPT ![j].busy = FALSE, ![j].cleanup = owed]
        BY <3>3 DEF RunnerReturns
      <4>3. jobs'[j].inRunner /\ jobs'[j].state = "cancelled"
        BY <1>0, <4>1, <4>2 DEF JobType
      <4> QED
        BY <3>1, <3>2, <4>1, <4>3 DEF Awaited, MayPutBack, PutItBack
    <3>4. CASE TryOfCleanup(j)
      <4>1. jobs[j] \in JobType /\ jobs[j].cleanup = "pending" /\ jobs[j].state = "cancelled"
        BY <1>0, <3>4 DEF TryOfCleanup, Cancelled
      <4>2. jobs' = [jobs EXCEPT ![j].cleanup = "back"]
        BY <2>3, <3>1, <3>4 DEF TryOfCleanup
      <4>3. jobs'[j].cleanup = "back" /\ jobs'[j].state = "cancelled"
        BY <1>0, <4>1, <4>2 DEF JobType
      <4> QED
        BY <3>1, <3>2, <4>1, <4>3 DEF Awaited, MayPutBack, PutItBack
    <3> QED
      BY <1>5, <3>3, <3>4 DEF Layer
  <2> QED
    BY <2>1, <2>2, <2>3, BackOutside
<1> QED
  BY <1>1, <1>2, <1>3, <1>4, <1>5

(* A step of a cycle: what it must see to. *)
LEMMA BackCycle ==
  ASSUME PollAssumption, TInv, BInv, TypeOK', JobsKeep, lost \subseteq lost', RipeIs', OldRests',
         shown' = shown, on' = NoLabel \/ (on' = on /\ behind' = behind),
         shown = PutBack => \A i \in Ids : Falls(i)' => Falls(i),
         \A i \in Ids : Falls(i)' => Falls(i) \/ ~(records'[i].clock <= behind'),
         lost' = {} => \A j \in JobNo : PutItBack(j) \/ MayPutBack(j) => Lasts(j) /\ (AtInsert(j) => Fresh(j)'),
         \A d \in Cycle : cycle'[d].sees \in {cycle[d].sees, shown, NoLabel},
         lost' = {} => \A d \in Cycle : cycle'[d].sees = PutBack =>
           /\ At(d, "looked")' => HeldRuled' \/ (At(d, "looked") /\ cycle[d].sees = PutBack)
           /\ ~At(d, "create")',
         lost' = {} => made'[PutBack] = made[PutBack]
  PROVE  BInv'
<1>0. /\ NoLabel # PutBack /\ TypeOK /\ Cancelled /\ BackIsHeld /\ Cancelled'
  BY TypeFacts DEF TInv, BInv, JobsKeep
<1>1. ASSUME lost' = {} PROVE (Awaited /\ BackOn /\ BackShown /\ BackSeen /\ BackRuled /\ made[PutBack] = 0)'
  <2>1. Awaited /\ BackOn /\ BackShown /\ BackSeen /\ BackRuled /\ made[PutBack] = 0
    BY <1>0, <1>1 DEF BackIsHeld
  <2>2. \A j \in JobNo : PutItBack(j) \/ MayPutBack(j) => Lasts(j) /\ (AtInsert(j) => Fresh(j)')
    BY <1>1
  <2>3. /\ Awaited' /\ (HeldSeen => HeldSeen') /\ (HeldRuled => HeldRuled')
        /\ (\A i \in Ids : Falls(i)' => Falls(i)) => (HeldShown => HeldShown')
        /\ HeldOn /\ on' = PutBack /\ shown' # PutBack => HeldOn'
    BY <1>0, <2>1, <2>2, BackStays
  <2>4. BackOn'
    BY <1>0, <2>1, <2>3 DEF BackOn
  <2>5. BackShown'
    BY <2>1, <2>3 DEF BackShown
  <2>6. HeldShown' => HeldSeen'
    BY DEF HeldShown, HeldSeen, Stays, Known
  <2>7. BackSeen'
    BY <1>0, <2>1, <2>3, <2>5, <2>6 DEF BackSeen, BackShown
  <2>8. BackRuled'
    BY <1>1, <2>1, <2>3 DEF BackRuled
  <2> QED
    BY <1>1, <2>1, <2>3, <2>4, <2>5, <2>7, <2>8
<1> QED
  BY <1>0, <1>1 DEF BInv, BackIsHeld

(* A step of c that changes no record but for what is owed, or adds one. *)
LEMMA BackRecords ==
  ASSUME PollAssumption, TInv, BInv, TypeOK', JobsKeep, NEW c \in Cycle, lost \subseteq lost',
         shown' = shown, on' = NoLabel \/ (on' = on /\ behind' = behind),
         \A d \in Cycle \ {c} : SameCycle(cycle'[d], cycle[d]) /\ cycle'[d].ripe \subseteq cycle[d].ripe,
         \A i \in Ids : /\ i \in Ids' /\ records'[i].job = records[i].job
                        /\ records'[i].seen = records[i].seen /\ records'[i].clock = records[i].clock,
         ~cycle'[c].settles, cycle'[c].sees \in {cycle[c].sees, NoLabel}, cycle'[c].at # "looked",
         cycle'[c].at \notin Locked => cycle'[c].sees = NoLabel,
         lost' = {} /\ cycle'[c].sees = PutBack => cycle'[c].at # "create",
         lost' = {} /\ At(c, "insert") => \A j \in JobNo : j = cycle[c].job => Fresh(j)',
         lost' = {} => made'[PutBack] = made[PutBack]
  PROVE  BInv'
<1>0. /\ TypeOK /\ RipeIs /\ OldRests /\ BackIsHeld /\ Cycle = {"loop", "old"} /\ NoLabel # PutBack
  BY TypeFacts DEF TInv, BInv, Cycle
<1>1. RipeIs'
  BY <1>0 DEF RipeIs, SameCycle
<1>2. OldRests'
  BY <1>0 DEF OldRests, SameCycle
<1>3. \A i : Falls(i)' => Falls(i)
  BY <1>0 DEF Falls, SameCycle
<1>4. \A j \in JobNo : Lasts(j)
  BY <1>0 DEF Lasts, Has
<1>5. ASSUME lost' = {}, NEW j \in JobNo, AtInsert(j) PROVE Fresh(j)'
  <2>1. PICK d \in Cycle : At(d, "insert") /\ cycle[d].job = j
    BY <1>5 DEF AtInsert
  <2>2. CASE d = c
    BY <1>5, <2>1, <2>2
  <2>3. CASE d # c
    <3>1. cycle'[d].at = "insert" /\ cycle'[d].job = j
      BY <2>1, <2>3 DEF SameCycle, At
    <3> QED
      BY <3>1 DEF Fresh, AtInsert, At
  <2> QED
    BY <2>2, <2>3
<1>6. \A d \in Cycle : cycle'[d].sees \in {cycle[d].sees, shown, NoLabel}
  BY DEF SameCycle
<1>7. ASSUME lost' = {}, NEW d \in Cycle, cycle'[d].sees = PutBack
      PROVE  (At(d, "looked")' => At(d, "looked") /\ cycle[d].sees = PutBack) /\ ~At(d, "create")'
  <2>1. CASE d = c
    BY <1>7, <2>1 DEF At
  <2>2. CASE d # c
    <3>1. cycle'[d].sees = cycle[d].sees /\ cycle'[d].at = cycle[d].at
      BY <2>2 DEF SameCycle
    <3>2. BackRuled
      BY <1>0, <1>7 DEF BackIsHeld
    <3> QED
      BY <1>7, <3>1, <3>2 DEF BackRuled, At
  <2> QED
    BY <2>1, <2>2
<1> QED
  BY <1>1, <1>2, <1>3, <1>4, <1>5, <1>6, <1>7, BackCycle

(* A cycle that goes on with a removal, or gives up, or has chosen, or takes the label. *)
LEMMA BackBecomes ==
  ASSUME PollAssumption, TInv, BInv, TypeOK', JobsKeep, NEW c \in Cycle, NEW x \in CycleType,
         Quiet(c, x) \/ Chooses(c, x) \/ Takes(c, x)
  PROVE  BInv'
<1>0. /\ TypeOK /\ BackIsHeld /\ NoLabel # PutBack /\ cycle \in [Cycle -> CycleType] /\ made \in [Label -> Nat]
      /\ PutBack \in Label
  BY TypeFacts DEF TInv, BInv, TypeOK
<1>1. /\ cycle'[c] = x /\ \A d \in Cycle \ {c} : cycle'[d] = cycle[d]
      /\ ~x.settles /\ x.sees \in {cycle[c].sees, NoLabel} /\ x.at # "looked"
      /\ UNCHANGED <<shown, records>> /\ lost \subseteq lost'
  <2>1. cycle' = [cycle EXCEPT ![c] = x] /\ ~x.settles /\ x.sees \in {cycle[c].sees, NoLabel}
    BY DEF Quiet, Chooses, Takes, Becomes, LastSaw
  <2>2. x.at # "looked"
    BY DEF Quiet, Chooses, Takes, Removing
  <2>3. UNCHANGED <<shown, records>> /\ lost \subseteq lost'
    BY DEF Quiet, Chooses, Takes, forge, ghosts
  <2> QED
    BY <1>0, <2>1, <2>2, <2>3
<1>2. \A d \in Cycle \ {c} : SameCycle(cycle'[d], cycle[d]) /\ cycle'[d].ripe \subseteq cycle[d].ripe
  BY <1>1 DEF SameCycle
<1>3. \A i \in Ids : i \in Ids' /\ records'[i] = records[i]
  BY <1>1 DEF Ids
<1>4. on' = NoLabel \/ (on' = on /\ behind' = behind)
  BY DEF Quiet, Chooses, Takes, forge, PutOn, LeavesLabel
<1>5. x.at \notin Locked => x.sees = NoLabel
  BY DEF Quiet, Chooses, Takes, Locked, Places, Removing
<1>6. lost' = {} => ~At(c, "insert")
  BY DEF Quiet, Chooses, Takes, At
<1>7. ASSUME lost' = {}, x.sees = PutBack, x.at = "create"
      PROVE  FALSE
  <2>1. Chooses(c, x)
    BY <1>7 DEF Quiet, Takes, Removing
  <2>2. At(c, "looked") /\ cycle[c].sees = PutBack /\ ~Holding
    BY <1>7, <2>1 DEF Chooses
  <2>3. BackRuled
    BY <1>0, <1>1, <1>7 DEF BackIsHeld
  <2>4. HeldRuled
    BY <2>2, <2>3 DEF BackRuled
  <2> QED
    BY <2>2, <2>4 DEF HeldRuled, Holding
<1>8. ASSUME lost' = {}
      PROVE  made'[PutBack] = made[PutBack]
  <2>1. CASE UNCHANGED made
    BY <2>1
  <2>2. CASE cycle[c].at = "create" /\ made' = [made EXCEPT ![cycle[c].sees] = @ + 1]
    <3>1. BackRuled
      BY <1>0, <1>1, <1>8 DEF BackIsHeld
    <3>2. cycle[c].sees # PutBack
      BY <2>2, <3>1 DEF BackRuled, At
    <3> QED
      BY <1>0, <2>2, <3>2
  <2> QED
    BY <2>1, <2>2 DEF Quiet, Chooses, Takes, ghosts
<1> QED
  BY <1>1, <1>2, <1>3, <1>4, <1>5, <1>6, <1>7, <1>8, BackRecords

(* A cycle that writes the record, or owes a removal, or confirms one. *)
LEMMA BackWrites ==
  ASSUME PollAssumption, TInv, BInv, TypeOK', JobsKeep, NEW c \in Cycle, Inserts(c) \/ Owes(c) \/ Confirms(c)
  PROVE  BInv'
<1>0. /\ TypeOK /\ Resting /\ NoLabel # PutBack /\ cycle \in [Cycle -> CycleType] /\ Recs(records) /\ DOMAIN records = Ids
  BY TypeFacts DEF TInv, TypeOK
<1>1. CASE Inserts(c)
  <2>0. ~cycle[c].settles /\ UNCHANGED <<forge, made>>
    BY <1>0, <1>1 DEF Inserts, Resting, At
  <2>1. /\ OthersGoOn(c)
        /\ ~cycle'[c].settles /\ cycle'[c].sees = cycle[c].sees /\ cycle'[c].at = "remove"
        /\ \/ /\ Adds(cycle[c].guard) /\ UNCHANGED lost
              /\ cycle[c].job # NoJob =>
                   \E i \in Ids' : records'[i].job = cycle[c].job /\ records'[i].seen # "ended" /\ records'[i].clock = NotStarted
           \/ UNCHANGED records /\ lost' = lost \cup {cycle[c].sees}
    BY <1>0, <1>1, <2>0, InsertsIs
  <2>2. \A i \in Ids : i \in Ids' /\ records'[i] = records[i]
    BY <2>1 DEF Adds, Ids
  <2>3. ASSUME lost' = {}, NEW j \in JobNo, j = cycle[c].job PROVE Fresh(j)'
    <3>1. j # NoJob
      BY DEF JobNo, NoJob
    <3> QED
      BY <2>1, <2>3, <3>1 DEF Fresh, Has
  <2>4. lost \subseteq lost' /\ "remove" \in Locked
    BY <2>1 DEF Locked, Places
  <2> QED
    BY <2>0, <2>1, <2>2, <2>3, <2>4, BackRecords DEF OthersGoOn, Recalls, forge
<1>2. CASE Owes(c)
  <2>0. At(c, "owe") /\ UNCHANGED <<forge, made, lost>>
    BY <1>2 DEF Owes, ghosts
  <2>1. /\ OthersGoOn(c)
        /\ ~cycle'[c].settles /\ cycle'[c].sees = NoLabel /\ cycle'[c].at \in {"idle", "settle"}
        /\ Adds(FALSE) \/ UNCHANGED records
    BY <1>0, <1>2, OwesIs
  <2>2. \A i \in Ids : i \in Ids' /\ records'[i] = records[i]
    BY <2>1 DEF Adds, Ids
  <2> QED
    BY <1>0, <2>0, <2>1, <2>2, BackRecords DEF OthersGoOn, Recalls, forge, At
<1>3. CASE Confirms(c)
  <2>0. /\ At(c, "confirm") /\ UNCHANGED <<forge, made, lost>>
        /\ records' = ClearOwed(records) /\ cycle' = [cycle EXCEPT ![c] = PastIssue]
    BY <1>3 DEF Confirms, LeavesIssue, ghosts
  <2>1. PastIssue.at = "settle" /\ ~PastIssue.settles /\ PastIssue.sees = NoLabel
    BY DEF PastIssue, Idle
  <2>2. cycle'[c] = PastIssue /\ \A d \in Cycle \ {c} : cycle'[d] = cycle[d]
    BY <1>0, <2>0
  <2>3. \A i \in Ids : /\ i \in Ids' /\ records'[i].job = records[i].job
                       /\ records'[i].seen = records[i].seen /\ records'[i].clock = records[i].clock
    BY <1>0, <2>0 DEF ClearOwed, Ids, Recs, RecordType
  <2>4. \A d \in Cycle \ {c} : SameCycle(cycle'[d], cycle[d]) /\ cycle'[d].ripe \subseteq cycle[d].ripe
    BY <2>2 DEF SameCycle
  <2> QED
    BY <1>0, <2>0, <2>1, <2>2, <2>3, <2>4, BackRecords DEF forge, At
<1> QED
  BY <1>1, <1>2, <1>3

(* The loop looks at the records: it sees that the job holds the label. *)
LEMMA BackLooks ==
  ASSUME PollAssumption, TInv, BInv, TypeOK', JobsKeep, Looks("loop")
  PROVE  BInv'
<1>0. /\ TypeOK /\ Resting /\ Cancelled /\ RipeIs /\ OldRests /\ BackIsHeld /\ NoLabel # PutBack
      /\ lock = "free" /\ At("loop", "listed") /\ records' = Noted /\ UNCHANGED <<on, shown, behind, made, lost>>
      /\ Cycle = {"loop", "old"} /\ behind \in Nat
  BY TypeFacts DEF TInv, BInv, Looks, forge, ghosts, Cycle, TypeOK
<1>1. /\ cycle'["loop"].at = "looked" /\ cycle'["loop"].sees = cycle["loop"].sees
      /\ cycle'["loop"].settles = cycle["loop"].settles /\ cycle'["old"] = cycle["old"]
  <2>1. cycle \in [Cycle -> CycleType] /\ cycle["loop"] \in CycleType
    BY <1>0 DEF TypeOK
  <2> QED
    BY <1>0, <2>1 DEF Looks, CycleType
<1>2. ~cycle'["loop"].settles
  BY <1>0, <1>1 DEF Resting, At
<1>3. cycle["old"].at \notin Locked /\ {"looked", "create", "insert"} \subseteq Locked
  BY <1>0 DEF TypeOK, Locked, Places
<1>4. Ids' = Ids
  BY <1>0, NotedKeeps DEF Ids
<1>5. RipeIs' /\ OldRests'
  BY <1>0, <1>1, <1>2 DEF RipeIs, OldRests
<1>6. \A i : ~Falls(i)'
  BY <1>2 DEF Falls
<1>7. \A j : ~AtInsert(j)
  BY <1>0, <1>3 DEF AtInsert, At
<1>8. ASSUME NEW j \in JobNo, PutItBack(j) \/ MayPutBack(j) PROVE Lasts(j)
  <2>1. ASSUME NEW i \in Ids, Has(i, j)
        PROVE  /\ Noted[i].job = j /\ Noted[i].seen # "ended"
               /\ MayPutBack(j) /\ records[i].clock = NotStarted => Noted[i].clock = NotStarted
               /\ PutItBack(j) => Noted[i].seen = "holding"
               /\ records[i].clock <= behind => Noted[i].clock <= behind
    <3>1. /\ Noted[i].job = records[i].job
          /\ records[i].clock # NotStarted => Noted[i].clock = records[i].clock
          /\ records[i].clock = NotStarted => Noted[i].clock \in {NotStarted, 0}
          /\ PutItBack(j) => Noted[i].seen = "holding"
          /\ MayPutBack(j) => Noted[i].seen # "ended" /\ Noted[i].clock = records[i].clock
      BY <1>0, <2>1, NotedHolds
    <3>2. NotStarted <= behind /\ 0 <= behind
      BY <1>0 DEF NotStarted
    <3> QED
      BY <1>8, <2>1, <3>1, <3>2 DEF Has
  <2> QED
    BY <1>0, <1>4, <2>1 DEF Lasts
<1>9. ASSUME HeldSeen PROVE HeldRuled'
  <2>1. PICK j \in JobNo : PutItBack(j) /\ Known(j)
    BY <1>9 DEF HeldSeen
  <2>2. PICK i \in Ids : Has(i, j)
    BY <1>7, <2>1 DEF Known
  <2>3. i \in Ids' /\ records'[i].job = j /\ records'[i].seen = "holding"
    BY <1>0, <1>4, <2>1, <2>2, NotedHolds DEF Has
  <2>4. PutItBack(j)'
    BY <2>1 DEF JobsKeep, JobGoesOn
  <2> QED
    BY <2>3, <2>4 DEF HeldRuled, Has
<1>10. ASSUME lost' = {}, NEW d \in Cycle, cycle'[d].sees = PutBack
       PROVE  (At(d, "looked")' => HeldRuled') /\ ~At(d, "create")'
  <2>1. BackSeen
    BY <1>0, <1>10 DEF BackIsHeld
  <2>2. HeldSeen
    BY <1>0, <1>1, <1>10, <2>1 DEF BackSeen
  <2> QED
    BY <1>0, <1>1, <1>3, <1>9, <2>2 DEF At
<1> QED
  BY <1>0, <1>1, <1>5, <1>6, <1>7, <1>8, <1>10, BackCycle

(* The loop lists what the index shows, after it dropped what is old. *)
LEMMA BackBegins ==
  ASSUME PollAssumption, TInv, BInv, TypeOK', JobsKeep, Begins
  PROVE  BInv'
<1>0. /\ TypeOK /\ Resting /\ Cancelled /\ RipeIs /\ OldRests /\ BackIsHeld /\ NoLabel # PutBack
      /\ At("loop", "idle") /\ records' = Drop(Noted) /\ UNCHANGED <<on, shown, behind, made, lost>>
      /\ Cycle = {"loop", "old"} /\ Recs(Noted) /\ DOMAIN Noted = Ids
  BY TypeFacts, NotedKeeps DEF TInv, BInv, Begins, forge, ghosts, Cycle
<1>1. behind \in Nat /\ behind < Delay /\ Delay \in Nat
  BY <1>0, TypeFacts DEF TypeOK
<1>2. /\ OthersGoOn("loop")
      /\ \/ /\ cycle'["loop"].at = "listed" /\ ~cycle'["loop"].settles /\ cycle'["loop"].sees = shown
         \/ /\ cycle'["loop"].at = "settle" /\ cycle'["loop"].sees = NoLabel
            /\ cycle'["loop"].settles => shown = NoLabel /\ cycle'["loop"].ripe = {i \in Ids' : records'[i].clock >= Delay}
  BY <1>0, BeginsIs
<1>3. SameCycle(cycle'["old"], cycle["old"])
  BY <1>2 DEF OthersGoOn, Recalls, Cycle
<1>4. RipeIs'
  <2>1. ASSUME cycle'["loop"].settles, NEW i \in cycle'["loop"].ripe
        PROVE  i \in Ids' /\ records'[i].clock # NotStarted
    <3>1. i \in Ids' /\ records'[i].clock >= Delay
      BY <1>2, <2>1
    <3> QED
      BY <1>1, <3>1 DEF NotStarted
  <2> QED
    BY <2>1 DEF RipeIs
<1>5. OldRests'
  BY <1>0, <1>3 DEF OldRests, SameCycle
<1>6. shown = PutBack => \A i : ~Falls(i)'
  BY <1>0, <1>2 DEF Falls
<1>7. ASSUME NEW i \in Ids, Falls(i)' PROVE ~(records'[i].clock <= behind')
  <2>1. i \in Ids' /\ records'[i].clock >= Delay
    BY <1>2, <1>7 DEF Falls
  <2>2. records'[i].clock \in NotStarted..Delay
    BY <2>1 DEF TypeOK, RecordType
  <2>3. Delay <= records'[i].clock /\ records'[i].clock \in Int
    BY <1>1, <2>1, <2>2 DEF NotStarted
  <2> QED
    BY <1>0, <1>1, <2>3
<1>8. ASSUME NEW j \in JobNo, AtInsert(j) PROVE Fresh(j)'
  <2>1. At("old", "insert") /\ cycle["old"].job = j
    BY <1>0, <1>8 DEF AtInsert, At
  <2> QED
    BY <1>0, <1>3, <2>1 DEF Fresh, AtInsert, At, SameCycle
<1>9. ASSUME NEW j \in JobNo, PutItBack(j) \/ MayPutBack(j) PROVE Lasts(j)
  <2>1. ASSUME NEW i \in Ids, Has(i, j)
        PROVE  /\ i \in Ids' /\ records'[i].job = j /\ records'[i].seen # "ended"
               /\ MayPutBack(j) /\ records[i].clock = NotStarted => records'[i].clock = NotStarted
               /\ PutItBack(j) => records'[i].seen = "holding"
               /\ records[i].clock <= behind => records'[i].clock <= behind
    <3>1. /\ Noted[i].job = records[i].job
          /\ records[i].clock # NotStarted => Noted[i].clock = records[i].clock
          /\ records[i].clock = NotStarted => Noted[i].clock \in {NotStarted, 0}
          /\ PutItBack(j) => Noted[i].seen = "holding"
          /\ MayPutBack(j) => Noted[i].seen # "ended" /\ Noted[i].clock = records[i].clock
      BY <1>0, <2>1, NotedHolds
    <3>2. NotStarted <= behind /\ 0 <= behind
      BY <1>1 DEF NotStarted
    <3>3. records[i].job = j /\ Noted[i].seen # "ended"
      BY <1>9, <2>1, <3>1 DEF Has
    <3>4. i \in Ids'
      BY <1>0, <3>1, <3>3, DropHolds DEF Ids
    <3>5. records'[i].job = Noted[i].job /\ records'[i].seen = Noted[i].seen /\ records'[i].clock = Noted[i].clock
      BY <1>0, <3>4, DropHolds DEF Ids
    <3> QED
      BY <3>1, <3>2, <3>3, <3>4, <3>5
  <2> QED
    BY <1>0, <2>1 DEF Lasts
<1>10. \A d \in Cycle : cycle'[d].sees \in {cycle[d].sees, shown, NoLabel}
  BY <1>0, <1>2, <1>3 DEF SameCycle
<1>11. ASSUME lost' = {}, NEW d \in Cycle, cycle'[d].sees = PutBack
       PROVE  (At(d, "looked")' => At(d, "looked") /\ cycle[d].sees = PutBack) /\ ~At(d, "create")'
  <2>1. BackRuled
    BY <1>0, <1>11 DEF BackIsHeld
  <2> QED
    BY <1>0, <1>2, <1>3, <1>11, <2>1 DEF BackRuled, At, SameCycle
<1> QED
  BY <1>0, <1>4, <1>5, <1>6, <1>7, <1>8, <1>9, <1>10, <1>11, BackCycle

(* The loop settles: it ends the holds whose clock started a release delay before it listed, which the index, that *)
(* lags by less, cannot show any more.                                                                             *)
LEMMA BackSettles ==
  ASSUME PollAssumption, TInv, BInv, TypeOK', JobsKeep, Settles("loop")
  PROVE  BInv'
<1>0. /\ TypeOK /\ Resting /\ Cancelled /\ RipeIs /\ OldRests /\ BackIsHeld /\ NoLabel # PutBack
      /\ lock = "free" /\ UNCHANGED <<on, shown, behind, made, lost>>
      /\ Cycle = {"loop", "old"} /\ Recs(records) /\ DOMAIN records = Ids
      /\ "loop" \in Cycle /\ At("loop", "settle")
  BY TypeFacts DEF TInv, BInv, Settles, forge, ghosts, Cycle
<1> DEFINE mid == IF cycle["loop"].settles THEN Settled("loop") ELSE records
<1>1. records' = Drop(mid)
  BY DEF Settles
<1>2. OthersGoOn("loop") /\ cycle'["loop"] = Idle
  BY <1>0, SettlesIs
<1>3. SameCycle(cycle'["old"], cycle["old"]) /\ ~cycle'["loop"].settles /\ cycle'["loop"].sees = NoLabel
  BY <1>2 DEF OthersGoOn, Recalls, Cycle, Idle
<1>4. Recs(mid) /\ DOMAIN mid = Ids
  BY <1>0, SettledKeeps
<1>5. \A i \in Ids : mid[i].job = records[i].job /\ mid[i].clock = records[i].clock /\ (~Falls(i) => mid[i].seen = records[i].seen)
  BY <1>0, SettledHolds DEF Falls
<1> HIDE DEF mid
<1>6. ASSUME NEW j \in JobNo, NEW i \in Ids, Has(i, j), ~Falls(i)
      PROVE  i \in Ids' /\ Has(i, j)' /\ records'[i].clock = records[i].clock
  <2>1. mid[i].job = j /\ mid[i].seen # "ended" /\ mid[i].clock = records[i].clock
    BY <1>5, <1>6 DEF Has
  <2>2. i \in DOMAIN Drop(mid)
    BY <1>4, <2>1, DropHolds
  <2>3. Drop(mid)[i].job = mid[i].job /\ Drop(mid)[i].seen = mid[i].seen /\ Drop(mid)[i].clock = mid[i].clock
    BY <1>4, <2>2, DropHolds
  <2> QED
    BY <1>1, <2>1, <2>2, <2>3 DEF Has, Ids
<1>7. cycle["old"].at \notin Locked /\ cycle["loop"].at \notin Locked /\ "insert" \in Locked
  BY <1>0 DEF TypeOK, Locked, Places
<1>8. \A j : ~AtInsert(j)
  BY <1>0, <1>7 DEF AtInsert, At
<1>9. RipeIs' /\ OldRests' /\ Cancelled'
  BY <1>0, <1>3 DEF RipeIs, OldRests, SameCycle, JobsKeep
<1>10. \A d \in Cycle : cycle'[d].sees = NoLabel
  BY <1>0, <1>3, <1>7 DEF OldRests, SameCycle
<1>11. \A i : ~Falls(i)'
  BY <1>3 DEF Falls
<1>12. ASSUME lost' = {} PROVE (Awaited /\ BackOn /\ BackShown /\ BackSeen /\ BackRuled /\ made[PutBack] = 0)'
  <2>1. Awaited /\ BackOn /\ BackShown /\ made[PutBack] = 0
    BY <1>0, <1>12 DEF BackIsHeld
  <2>2. ASSUME NEW j \in JobNo, MayPutBack(j)' PROVE Fresh(j)'
    <3>1. AtInsert(j)' \/ MayPutBack(j)
      BY <2>2 DEF JobsKeep, JobGoesOn
    <3>2. CASE AtInsert(j)'
      BY <3>2 DEF Fresh
    <3>3. CASE MayPutBack(j)
      <4>1. PICK i \in Ids : Has(i, j) /\ records[i].clock = NotStarted
        BY <1>8, <2>1, <3>3 DEF Awaited, Fresh
      <4>2. ~Falls(i)
        BY <1>0, <4>1 DEF RipeIs, Falls
      <4> QED
        BY <1>6, <4>1, <4>2 DEF Fresh
    <3> QED
      BY <3>1, <3>2, <3>3
  <2>3. ASSUME HeldOn PROVE HeldOn'
    <3>1. PICK j \in JobNo : PutItBack(j) /\ Early(j)
      BY <2>3 DEF HeldOn
    <3>2. PICK i \in Ids : Has(i, j) /\ ~Falls(i) /\ records[i].clock <= behind
      BY <1>8, <3>1 DEF Early
    <3>3. i \in Ids' /\ Has(i, j)' /\ records'[i].clock <= behind' /\ ~Falls(i)'
      BY <1>0, <1>6, <1>11, <3>2
    <3>4. PutItBack(j)'
      BY <3>1 DEF JobsKeep, JobGoesOn
    <3> QED
      BY <3>3, <3>4 DEF HeldOn, Early
  <2>4. ASSUME HeldShown PROVE HeldShown'
    <3>1. PICK j \in JobNo : PutItBack(j) /\ Stays(j)
      BY <2>4 DEF HeldShown
    <3>2. PICK i \in Ids : Has(i, j) /\ ~Falls(i)
      BY <1>8, <3>1 DEF Stays
    <3>3. i \in Ids' /\ Has(i, j)' /\ ~Falls(i)'
      BY <1>6, <1>11, <3>2
    <3>4. PutItBack(j)'
      BY <3>1 DEF JobsKeep, JobGoesOn
    <3> QED
      BY <3>3, <3>4 DEF HeldShown, Stays
  <2>5. BackSeen' /\ BackRuled'
    BY <1>0, <1>10 DEF BackSeen, BackRuled
  <2> QED
    BY <1>0, <2>1, <2>2, <2>3, <2>4, <2>5 DEF Awaited, BackOn, BackShown
<1> QED
  BY <1>9, <1>12 DEF BInv, BackIsHeld

(* It holds when the service starts, *)
LEMMA InitBack == ASSUME PollAssumption PROVE Init => BInv
<1> SUFFICES ASSUME Init PROVE BInv
  OBVIOUS
<1>1. MaxAsks \in Nat /\ PutBack \in Label /\ NoLabel # PutBack
  BY DEF PollAssumption, PutBack, Label, NoLabel
<1>2. \A c \in Cycle : ~cycle[c].settles /\ cycle[c].sees = NoLabel
  BY DEF Init, Idle
<1>3. \A j \in JobNo : jobs[j].state = "none" /\ ~jobs[j].busy /\ ~jobs[j].label /\ jobs[j].cleanup = "no"
  BY DEF Init, NewJob
<1>4. Cancelled /\ RipeIs /\ OldRests
  BY <1>2, <1>3 DEF Cancelled, RipeIs, OldRests, Cycle
<1>5. Awaited
  BY <1>3 DEF Awaited, MayPutBack
<1>6. BackOn /\ BackShown /\ BackSeen /\ BackRuled
  BY <1>1, <1>2 DEF Init, BackOn, BackShown, BackSeen, BackRuled
<1>7. made[PutBack] = 0
  BY <1>1 DEF Init
<1> QED
  BY <1>4, <1>5, <1>6, <1>7 DEF BInv, BackIsHeld

(* and every step keeps it. *)
LEMMA StepBack == ASSUME PollAssumption PROVE TInv /\ BInv /\ [Next]_vars => BInv'
<1> SUFFICES ASSUME TInv, BInv, [Next]_vars PROVE BInv'
  OBVIOUS
<1>0. TypeOK /\ Resting /\ TypeOK' /\ Cancelled
  BY TypeStep DEF TInv, BInv
<1>1. JobsKeep
  BY <1>0, JobsGoOn
<1>2. ASSUME NEW c \in Cycle, Goes(c) \/ Stops(c)
      PROVE  BInv'
  <2>1. Kind(c)
    BY <1>0, <1>2, CycleKinds
  <2>2. CASE \E x \in CycleType : Quiet(c, x) \/ Chooses(c, x) \/ Takes(c, x)
    BY <1>0, <1>1, <2>2, BackBecomes
  <2>3. CASE Inserts(c) \/ Owes(c) \/ Confirms(c)
    BY <1>0, <1>1, <2>3, BackWrites
  <2>4. CASE c = "loop" /\ (Begins \/ Looks(c) \/ Settles(c))
    BY <1>0, <1>1, <2>4, BackBegins, BackLooks, BackSettles
  <2> QED
    BY <2>1, <2>2, <2>3, <2>4 DEF Kind
<1>3. CASE LoopIsReplaced
  BY <1>0, <1>1, <1>3, BackLoop
<1>4. CASE Tick
  BY <1>0, <1>1, <1>4, BackTick
<1>5. CASE \/ PersonAsks \/ PersonRemoves \/ PersonCreates \/ IndexShows \/ UNCHANGED vars
           \/ \E j \in JobNo : AttemptEnds(j) \/ PersonContinues(j) \/ Cancels(j) \/ Layer(j) \/ Purges(j)
  <2>1. \/ PersonAsks \/ PersonRemoves \/ IndexShows \/ JobOnly \/ UNCHANGED vars
        \/ \E j \in JobNo : Layer(j)
    BY <1>5 DEF PersonCreates, AttemptEnds, PersonContinues, Cancels, Purges
  <2> QED
    BY <1>0, <1>1, <2>1, BackPeople
<1> QED
  BY <1>2, <1>3, <1>4, <1>5 DEF Next

(* A label that a cancel put back makes no job, for every release delay and every lag of the index below it, as long *)
(* as no record of a label is lost: the record of the job holds it, from before the cancel until the index cannot    *)
(* show it any more (docs/architecture.md: "the forge may not yet list a label just put back, and the runner may     *)
(* still be writing it").                                                                                            *)
THEOREM NoJobOfPutBack == ASSUME PollAssumption PROVE Spec => []PutBackMakesNoJob
<1>1. Init => TInv /\ BInv
  BY InitIInv, InitBack DEF IInv
<1>2. TInv /\ BInv /\ [Next]_vars => (TInv /\ BInv)'
  <2>1. TInv /\ [Next]_vars => TInv'
    BY TypeStep DEF TInv
  <2> QED
    BY <2>1, StepBack
<1>3. BInv => PutBackMakesNoJob
  BY DEF BInv, BackIsHeld, PutBackMakesNoJob
<1> QED
  BY <1>1, <1>2, <1>3, PTL DEF Spec
=============================================================================
