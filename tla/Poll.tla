-------------------------------- MODULE Poll --------------------------------
(***************************************************************************)
(* The label poll (internal/service/poll): cycles that list the issues     *)
(* with a request label and turn each label into a job, an answer or a     *)
(* retry, once, against people who put the label on and take it off, jobs  *)
(* that move on their own, cancels that put the label back, and a forge    *)
(* whose index lags.                                                       *)
(*                                                                         *)
(* One workspace, one issue and one request label: the records, the lock   *)
(* and the rules of a label know nothing of another label's.  Times are    *)
(* ages, counted up to the release delay, so that time has no end.         *)
(*                                                                         *)
(* A label is known by the request it stands for: a person's, by number,   *)
(* or PutBack for one that a cancel put back.  The code sees only that the *)
(* label is there.                                                         *)
(*                                                                         *)
(* A definition marked VARIANT is the one after it with a mistake that     *)
(* would be easy to make.                                                  *)
(***************************************************************************)
EXTENDS Integers, FiniteSets, FiniteSetsExt

CONSTANTS
  Delay,      \* Config.ReleaseDelay, in ticks
  Lag,        \* how many ticks the forge's index may lag
  MaxAsks,    \* bound: how often a person puts the label on
  MaxJobs,    \* bound: the jobs of the issue
  MaxMoves,   \* bound: what people do, and what retention purges
  MaxRecords, \* bound: the records there are at once
  MaxFaults   \* bound: calls that fail, cycles that are cut, lists that are incomplete

PollAssumption ==
  /\ Lag \in Nat
  /\ Delay \in Nat
  /\ Lag < Delay
  /\ {MaxAsks, MaxJobs, MaxMoves, MaxRecords, MaxFaults} \subseteq Nat

(* The cycle of the workspace's loop, and what is left of the cycle of a loop that was taken away: the call that was *)
(* on its way.                                                                                                       *)
Cycle == {"loop", "old"}

JobNo == 1..MaxJobs
RecordId == 1..MaxRecords
Request == 1..MaxAsks
NoLabel == 0
PutBack == MaxAsks + 1
Label == NoLabel..PutBack
NotStarted == -1    \* a release clock that has not started
NoJob == 0

VARIABLES
  \* The forge.
  on,       \* the label on the issue
  shown,    \* the label that the forge's index shows on it
  behind,   \* how long the index has been behind, in ticks
  \* The jobs layer.
  jobs,     \* the jobs of the kind for the issue, by number, in the order they were made
  \* The state file, and the process.
  records,  \* af_poll_requests: the records there are, by id
  lock,     \* who holds the workspace's lock
  cycle,    \* where each cycle is, with what it keeps
  onItsWay, \* whether the call of the old cycle is on its way still
  \* Kept for the properties and the bounds.
  asks,     \* how often a person put the label on
  made,     \* how often each label became a job
  continued, \* how often each label became an answer or a retry
  lost,     \* the requests that were taken without a record
  moves,
  outlived, \* the requests whose label was removed when no guard would outlast the index any more
  faults

forge == <<on, shown, behind>>
ghosts == <<asks, moves, made, continued, lost, outlived>>
counts == <<asks, moves, made, continued, lost>>
vars == <<forge, jobs, records, lock, cycle, onItsWay, ghosts, faults>>

-----------------------------------------------------------------------------
(* The records.  Ids are rowids: the id after the greatest there is. *)

Ids == DOMAIN records
Last(rs) == Max({0} \cup DOMAIN rs)

Insert(rs, job, seen, guard) ==
  [i \in DOMAIN rs \cup {Last(rs) + 1} |->
    IF i \in DOMAIN rs THEN rs[i]
    ELSE [job |-> job, owed |-> TRUE, seen |-> seen, guard |-> guard, age |-> 0, clock |-> NotStarted]]
ClearOwed(rs) == [i \in DOMAIN rs |-> [rs[i] EXCEPT !.owed = FALSE]]
ClearGuard(rs) == [i \in DOMAIN rs |-> [rs[i] EXCEPT !.guard = FALSE]]
ExpireGuards(rs) == [i \in DOMAIN rs |-> [rs[i] EXCEPT !.guard = @ /\ rs[i].age < Delay]]

(* What keeps a record: a removal that is owed, a guard, or a job that has not ended. *)
Keeps(r) == r.owed \/ r.guard \/ (r.job # NoJob /\ r.seen # "ended")

Drop(rs) ==
  LET expired == ExpireGuards(rs)
      kept == {i \in DOMAIN rs : Keeps(expired[i])}
  IN [i \in kept |-> expired[i]]

(* VARIANT of Holds: only a cleanup that put the label back holds it. *)
HoldsOnceBack(j) == j.cleanup = "back"

(* A cancelled job holds its label if the cancel reached a runner, or its cleanup is pending or put the label back. *)
Holds(j) == j.inRunner \/ j.cleanup \in {"pending", "back"}

(* VARIANT of HoldFrom: the clock starts with the hold or not at all. *)
HoldFromStart(r, started) ==
  [r EXCEPT !.seen = "holding", !.clock = IF @ = NotStarted /\ started /\ r.seen = "open" THEN 0 ELSE @]

HoldFrom(r, started) == [r EXCEPT !.seen = "holding", !.clock = IF @ = NotStarted /\ started THEN 0 ELSE @]

(* The record as its job stands now. *)
Note(r) ==
  IF r.job = NoJob \/ r.seen = "ended" THEN r
  ELSE LET j == jobs[r.job] IN
       CASE j.state = "gone" -> HoldFrom(r, TRUE)
         [] j.state = "done" \/ (j.state = "cancelled" /\ ~Holds(j)) -> [r EXCEPT !.seen = "ended"]
         [] j.state = "cancelled" /\ Holds(j) -> HoldFrom(r, ~j.busy /\ j.cleanup # "pending")
         [] OTHER -> r
Noted == [i \in Ids |-> Note(records[i])]

-----------------------------------------------------------------------------
(* The jobs.  The jobs layer allows one open job of a kind for an issue. *)

Open == {"open", "blocked"}
OpenJobs == {j \in JobNo : jobs[j].state \in Open}
Present == {j \in JobNo : jobs[j].state \notin {"none", "gone"}}
Absent == {j \in JobNo : jobs[j].state = "none"}
Moves(j, to) == jobs' = [jobs EXCEPT ![j].state = to]
NewJob(label) == [state |-> "open", label |-> label, inRunner |-> FALSE, busy |-> FALSE, cleanup |-> "no"]

(* The cycles. *)
Idle == [at |-> "idle", sees |-> NoLabel, settles |-> FALSE, before |-> 0, since |-> {}, young |-> {}, ripe |-> {},
         owed |-> FALSE, job |-> NoJob, guard |-> FALSE, inserted |-> FALSE]

Places == {"idle", "listed", "looked", "answer", "retry", "create", "insert", "remove", "absorb",
           "retake", "confirm", "owe", "settle"}

(* The places at which a cycle holds the lock. *)
Locked == Places \ {"idle", "listed", "settle"}

At(c, where) == cycle[c].at = where
ToPlace(c, where) == cycle' = [cycle EXCEPT ![c].at = where]
Unlocks == lock' = "free"

(* The lock is given back, and the cycle goes on with the next issue, of which there is none. *)
PastIssue == [Idle EXCEPT !.at = "settle"]
LeavesIssue(c) == cycle' = [cycle EXCEPT ![c] = PastIssue] /\ Unlocks

(* The cycle ends where it is, and gives the lock back if it holds it. *)
Ends(c) == cycle' = [cycle EXCEPT ![c] = Idle] /\ lock' = IF lock = c THEN "free" ELSE lock

Init ==
  /\ on = NoLabel /\ shown = NoLabel /\ behind = 0
  /\ jobs = [j \in JobNo |-> [NewJob(FALSE) EXCEPT !.state = "none"]]
  /\ records = [i \in {} |-> 0]
  /\ lock = "free"
  /\ cycle = [c \in Cycle |-> Idle]
  /\ onItsWay = FALSE
  /\ asks = 0 /\ moves = 0
  /\ made = [l \in Label |-> 0]
  /\ continued = made
  /\ lost = {} /\ outlived = {}
  /\ faults = 0

Fault == faults < MaxFaults /\ faults' = faults + 1

-----------------------------------------------------------------------------
(* A cycle. *)

(* A record that is inserted is newer than every listing that was asked for; one that is dropped is no more. *)
Follows(rs, cs) ==
  LET Compares(c) == cs[c].at \in {"listed", "looked"} \/ cs[c].settles
      Since(c) == IF Compares(c) THEN (cs[c].since \cup (DOMAIN rs \ Ids)) \cap DOMAIN rs ELSE {}
  IN [c \in Cycle |-> [cs[c] EXCEPT !.since = Since(c), !.young = @ \cap DOMAIN rs, !.ripe = @ \cap DOMAIN rs]]

(* What the cycle keeps of the listing: for the rules if the issue is in it, and for the settlement if it is not and *)
(* the list is complete.  The listing's time and the last record are compared with the records later: which of them  *)
(* were younger than the release delay when it was asked for, and which holds were ripe.                             *)
Listed(rs, sees, complete) ==
  IF sees # NoLabel
  THEN [Idle EXCEPT !.at = "listed", !.sees = sees, !.before = Last(rs), !.young = {i \in DOMAIN rs : rs[i].age < Delay}]
  ELSE IF complete
  THEN [Idle EXCEPT !.at = "settle", !.settles = TRUE, !.before = Last(rs),
                    !.ripe = {i \in DOMAIN rs : rs[i].clock >= Delay}]
  ELSE [Idle EXCEPT !.at = "settle"]

(* The list comes from the index.  An incomplete one may leave the issue out. *)
Listing(rs) ==
  \E complete \in BOOLEAN, sees \in {shown, NoLabel} :
    /\ complete => sees = shown
    /\ IF complete THEN UNCHANGED faults ELSE Fault
    /\ cycle' = [Follows(rs, cycle) EXCEPT !["loop"] = Listed(rs, sees, complete)]

(* A cycle begins: the records are brought up to date with their jobs, and the issues with the label are listed. *)
Begins ==
  /\ At("loop", "idle")
  /\ records' = Drop(Noted)
  /\ Listing(Drop(Noted))
  /\ UNCHANGED <<forge, jobs, lock, ghosts>>

(* A record made at or after the listing was asked for: after the last record there was then, or at a later time. *)
Newer(c, i) == i > cycle[c].before \/ i \in cycle[c].since

(* VARIANT of Lagging: the guard is of no use against a listing that was asked for after the record. *)
LaggingNever(c, i) == FALSE

(* A guard of a record that was younger than the release delay when the listing was asked for. *)
Lagging(c, i) == records[i].guard /\ i \in cycle[c].young \cup cycle[c].since

Leaves(c) == \E i \in Ids : Newer(c, i) \/ Lagging(c, i)

(* Under the lock, the records of the label are read and brought up to date once more. *)
Looks(c) ==
  /\ At(c, "listed")
  /\ lock = "free"
  /\ lock' = c
  /\ records' = Noted
  /\ cycle' = [cycle EXCEPT ![c].at = "looked", ![c].owed = \E i \in Ids : records[i].owed]
  /\ UNCHANGED <<forge, jobs, ghosts, faults>>

Holding == \E i \in Ids : records[i].seen = "holding"

LatestFailed == Present # {} /\ jobs[Max(Present)].state = "failed"

(* VARIANT of Rule: a removal that is owed is looked at only when a job is open. *)
RuleWithoutRetake(c) ==
  IF OpenJobs # {} THEN
    IF (\E j \in OpenJobs : jobs[j].state = "open") \/ cycle[c].owed THEN "absorb"
    ELSE IF Leaves(c) THEN "settle" ELSE "answer"
  ELSE IF Holding \/ Leaves(c) THEN "settle"
  ELSE IF LatestFailed THEN "retry" ELSE "create"

(* The first rule that applies decides what is done with the label. *)
Rule(c) ==
  IF OpenJobs # {} THEN
    IF (\E j \in OpenJobs : jobs[j].state = "open") \/ cycle[c].owed THEN "absorb"
    ELSE IF Leaves(c) THEN "settle" ELSE "answer"
  ELSE IF Holding THEN "settle"
  ELSE IF cycle[c].owed THEN "retake"
  ELSE IF Leaves(c) THEN "settle"
  ELSE IF LatestFailed THEN "retry" ELSE "create"

JobOfRule(rule) ==
  IF OpenJobs # {} THEN Max(OpenJobs) ELSE IF rule = "retry" THEN Max(Present) ELSE NoJob

Decides(c) ==
  /\ At(c, "looked")
  /\ LET rule == Rule(c) IN
     IF rule = "settle" THEN LeavesIssue(c)
     ELSE /\ cycle' = [cycle EXCEPT ![c] = [Idle EXCEPT !.at = rule, !.sees = cycle[c].sees, !.job = JobOfRule(rule)]]
          /\ UNCHANGED lock
  /\ UNCHANGED <<forge, jobs, records, ghosts, faults>>

(* The label is to be consumed.  Its record names the job only if the label is the job's own, which a cancel puts back. *)
Owns(j) == IF jobs[j].label THEN j ELSE NoJob
Consumes(c, own, guard) == cycle' = [cycle EXCEPT ![c].at = "insert", ![c].job = own, ![c].guard = guard]

Absorbs(c) == ToPlace(c, "absorb") /\ UNCHANGED <<jobs, made, continued>>

(* The job is asked to go on: an answer if it is blocked, a retry if it failed and no other is open; else it moved. *)
Continues(c, from) ==
  LET j == cycle[c].job IN
  \/ /\ jobs[j].state = from /\ OpenJobs \subseteq {j}
     /\ Moves(j, "open")
     /\ continued' = [continued EXCEPT ![cycle[c].sees] = Min({@ + 1, 2})]
     /\ Consumes(c, Owns(j), TRUE)
     /\ UNCHANGED made
  \/ /\ jobs[j].state # from \/ ~(OpenJobs \subseteq {j})
     /\ Absorbs(c)

(* The thread is cut or has no answer: a reply says so, and the label is consumed without an attempt. *)
Replies(c) ==
  /\ At(c, "answer") \/ At(c, "retry")
  /\ cycle[c].job \in Present
  /\ Consumes(c, Owns(cycle[c].job), FALSE)
  /\ UNCHANGED <<forge, jobs, records, lock, ghosts, faults>>

Answers(c) ==
  /\ At(c, "answer") /\ Continues(c, "blocked")
  /\ UNCHANGED <<forge, records, lock, asks, moves, lost, outlived, faults>>

Retries(c) ==
  /\ At(c, "retry") /\ Continues(c, "failed")
  /\ UNCHANGED <<forge, records, lock, asks, moves, lost, outlived, faults>>

(* Another refusal of the jobs layer ends the cycle, and the label stays. *)
Creates(c) ==
  /\ At(c, "create")
  /\ \/ /\ OpenJobs = {} /\ Absent # {}
        /\ jobs' = [jobs EXCEPT ![Min(Absent)] = NewJob(TRUE)]
        /\ made' = [made EXCEPT ![cycle[c].sees] = @ + 1]
        /\ Consumes(c, Min(Absent), FALSE)
        /\ UNCHANGED <<continued, lock>>
     \/ /\ OpenJobs # {}
        /\ Absorbs(c) /\ UNCHANGED lock
     \/ /\ OpenJobs = {} /\ Absent = {}
        /\ Ends(c) /\ UNCHANGED <<jobs, made, continued>>
  /\ UNCHANGED <<forge, records, asks, moves, lost, outlived, faults>>

(* The record of a label that was acted on is written before the removal; if it cannot be, the removal goes ahead *)
(* all the same.                                                                                                  *)
Inserts(c) ==
  /\ At(c, "insert")
  /\ \/ /\ Last(records) < MaxRecords
        /\ LET own == cycle[c].job
               rs == Insert(records, own, IF own = NoJob THEN "ended" ELSE "open", cycle[c].guard)
           IN /\ records' = rs
              /\ cycle' = [Follows(rs, cycle) EXCEPT ![c].at = "remove", ![c].inserted = TRUE]
        /\ UNCHANGED <<lost, faults>>
     \/ /\ IF Last(records) < MaxRecords THEN Fault ELSE UNCHANGED faults
        /\ lost' = lost \cup {cycle[c].sees}
        /\ ToPlace(c, "remove")
        /\ UNCHANGED records
  /\ UNCHANGED <<forge, jobs, lock, asks, moves, made, continued, outlived>>

(* The index is behind only while it shows another label than there is. *)
Guarded == \E i \in Ids : records[i].guard /\ records[i].age + Lag < Delay
PutOn(l) ==
  /\ on' = l
  /\ behind' = IF l = shown THEN 0 ELSE behind
  /\ outlived' = IF l = NoLabel /\ continued[on] > 0 /\ ~Guarded THEN outlived \cup {on} ELSE outlived
LeavesLabel == UNCHANGED <<on, behind, outlived>>

(* The label is removed, or is found gone already; the removal may fail, and may have reached the forge all the *)
(* same.  A rejection lets the cycle go on, any other failure ends it.                                         *)
AtRemoval(c) == \E where \in {"remove", "absorb", "retake"} : At(c, where)

Removes(c) ==
  /\ AtRemoval(c)
  /\ PutOn(NoLabel)
  /\ IF At(c, "remove") /\ ~cycle[c].inserted THEN LeavesIssue(c) ELSE ToPlace(c, "confirm") /\ UNCHANGED lock
  /\ UNCHANGED <<shown, jobs, records, counts, faults>>

RemovalFails(c) ==
  /\ AtRemoval(c)
  /\ Fault
  /\ PutOn(NoLabel) \/ LeavesLabel
  /\ \/ At(c, "absorb") /\ ToPlace(c, "owe") /\ UNCHANGED lock
     \/ ~At(c, "absorb") /\ LeavesIssue(c)
     \/ ~At(c, "absorb") /\ Ends(c)
  /\ UNCHANGED <<shown, jobs, records, counts>>

(* The removal was confirmed: nothing is owed any more. *)
Confirms(c) ==
  /\ At(c, "confirm")
  /\ records' = ClearOwed(records)
  /\ LeavesIssue(c)
  /\ UNCHANGED <<forge, jobs, ghosts, faults>>

(* A removal of a label that was absorbed is owed, unless one is owed already. *)
Owes(c) ==
  /\ At(c, "owe")
  /\ LET kept == (\E i \in Ids : records[i].owed) \/ Last(records) = MaxRecords
         rs == IF kept THEN records ELSE Insert(records, NoJob, "ended", FALSE)
     IN /\ records' = rs
        /\ \E next \in {Idle, PastIssue} : cycle' = Follows(rs, [cycle EXCEPT ![c] = next])
        /\ Unlocks
  /\ UNCHANGED <<forge, jobs, ghosts, faults>>

(* The listing was asked for when the release delay had passed since the release clock started. *)
Ripe(c, i) == i \in cycle[c].ripe

(* What a complete listing without the issue settles: the records that are not newer. *)
Settled(c) ==
  LET old == {i \in Ids : ~Newer(c, i)}
      cleared == IF \E i \in old : records[i].owed THEN ClearOwed(records) ELSE records
      released == IF \E i \in old : records[i].guard THEN ClearGuard(cleared) ELSE cleared
  IN [i \in Ids |-> IF i \in old /\ records[i].seen = "holding" /\ Ripe(c, i)
                    THEN [released[i] EXCEPT !.seen = "ended"] ELSE released[i]]

Settles(c) ==
  /\ At(c, "settle")
  /\ lock = "free"
  /\ LET rs == Drop(IF cycle[c].settles THEN Settled(c) ELSE records) IN
     /\ records' = rs
     /\ cycle' = [Follows(rs, cycle) EXCEPT ![c] = Idle]
  /\ UNCHANGED <<forge, jobs, lock, ghosts, faults>>

(* A call fails and ends the cycle, the cycle is cut after its five minutes, its loop is taken away, or the *)
(* process ends: what the cycle did stands.                                                                *)
Stops(c) ==
  /\ ~At(c, "idle")
  /\ IF c = "old" THEN UNCHANGED faults ELSE Fault
  /\ onItsWay' = (onItsWay /\ c # "old")
  /\ lost' = IF At(c, "insert") THEN lost \cup {cycle[c].sees} ELSE lost
  /\ Ends(c)
  /\ UNCHANGED <<forge, jobs, records, asks, moves, made, continued, outlived>>

(* The workspace was unsubscribed and subscribed again: the loop of the cycle is taken away, and another starts.  *)
(* The context of the cycle is cancelled, which leaves it the call that is on its way.                            *)
LoopIsReplaced ==
  /\ lock = "loop" /\ At("old", "idle")
  /\ Fault
  /\ cycle' = [cycle EXCEPT !["loop"] = Idle, !["old"] = cycle["loop"]]
  /\ lock' = "old"
  /\ onItsWay' = TRUE
  /\ UNCHANGED <<forge, jobs, records, ghosts>>

Step(c) ==
  \/ Looks(c) \/ Decides(c)
  \/ Answers(c) \/ Retries(c) \/ Replies(c) \/ Creates(c)
  \/ Inserts(c) \/ Removes(c) \/ Confirms(c) \/ Owes(c) \/ Settles(c)
  \/ RemovalFails(c)

Goes(c) ==
  /\ (c = "loop" /\ Begins) \/ Step(c)
  /\ c = "loop" \/ onItsWay
  /\ onItsWay' = (onItsWay /\ c # "old")

-----------------------------------------------------------------------------
(* What else happens. *)

Move == moves < MaxMoves /\ moves' = moves + 1

(* A person puts the label on, or takes it off. *)
PersonAsks ==
  /\ on = NoLabel /\ asks < MaxAsks
  /\ Move /\ asks' = asks + 1
  /\ PutOn(asks + 1)
  /\ UNCHANGED <<shown, jobs, records, lock, cycle, onItsWay, made, continued, lost, faults>>

PersonRemoves ==
  /\ on # NoLabel
  /\ Move
  /\ PutOn(NoLabel)
  /\ UNCHANGED <<shown, jobs, records, lock, cycle, onItsWay, asks, made, continued, lost, faults>>

(* The index catches up. *)
IndexShows ==
  /\ shown # on
  /\ shown' = on /\ behind' = 0
  /\ UNCHANGED <<on, jobs, records, lock, cycle, onItsWay, ghosts, faults>>

(* An age goes up to the release delay. *)
Older(age) == IF age = NotStarted THEN NotStarted ELSE Min({age + 1, Delay})

(* The rules for an issue, which hold the lock, take less than a tick. *)
Tick ==
  /\ on = shown \/ behind < Lag
  /\ lock = "free"
  /\ behind' = IF on = shown THEN 0 ELSE behind + 1
  /\ records' = [i \in Ids |-> [records[i] EXCEPT !.age = Older(@), !.clock = Older(@)]]
  /\ UNCHANGED <<on, shown, jobs, lock, cycle, onItsWay, ghosts, faults>>

JobOnly == UNCHANGED <<forge, records, lock, cycle, onItsWay, asks, made, continued, lost, outlived, faults>>

(* An attempt ends, or a person answers or retries through the API. *)
AttemptEnds(j) ==
  /\ jobs[j].state = "open"
  /\ \E to \in {"blocked", "failed", "done"} : Moves(j, to)
  /\ JobOnly /\ UNCHANGED moves

PersonContinues(j) ==
  /\ jobs[j].state \in {"blocked", "failed"} /\ OpenJobs \subseteq {j}
  /\ Moves(j, "open")
  /\ Move /\ JobOnly

(* A job that no label made. *)
PersonCreates ==
  /\ OpenJobs = {} /\ Absent # {}
  /\ jobs' = [jobs EXCEPT ![Min(Absent)] = NewJob(FALSE)]
  /\ Move /\ JobOnly

(* A cancel of a job that waits, whose cleanup is owed if an attempt of it ran, or of one whose runner is at work. *)
Cancels(j) ==
  /\ j \in OpenJobs
  /\ \/ \E owed \in {"no", "pending"} :
          jobs' = [jobs EXCEPT ![j].state = "cancelled", ![j].cleanup = owed]
     \/ /\ jobs[j].state = "open"
        /\ jobs' = [jobs EXCEPT ![j].state = "cancelled", ![j].inRunner = TRUE, ![j].busy = TRUE]
  /\ Move /\ JobOnly

(* The runner of a cancelled attempt returns; the worker may have put the label back, or leaves it to the cleanup. *)
RunnerReturns(j) ==
  /\ jobs[j].busy
  /\ \E owed \in {"no", "pending"} : jobs' = [jobs EXCEPT ![j].busy = FALSE, ![j].cleanup = owed]
  /\ \/ jobs[j].label /\ on = NoLabel /\ PutOn(PutBack)
     \/ LeavesLabel
  /\ UNCHANGED <<shown, records, lock, cycle, onItsWay, counts, faults>>

(* A try of the cleanup: the label is put back if it is missing, or is not; what came of it may not be recorded, and *)
(* a try that may not read the issue ends the cleanup whatever an earlier one wrote.                                *)
TryOfCleanup(j) ==
  /\ jobs[j].cleanup = "pending" /\ ~jobs[j].busy
  /\ \/ /\ jobs[j].label
        /\ IF on = NoLabel THEN PutOn(PutBack) ELSE LeavesLabel
        /\ \/ jobs' = [jobs EXCEPT ![j].cleanup = "back"] /\ UNCHANGED <<faults, lost>>
           \/ Fault /\ lost' = lost \cup {PutBack} /\ UNCHANGED jobs
     \/ /\ on = NoLabel \/ ~jobs[j].label \/ PutBack \in lost
        /\ jobs' = [jobs EXCEPT ![j].cleanup = "no"] /\ LeavesLabel /\ UNCHANGED <<faults, lost>>
  /\ UNCHANGED <<shown, records, lock, cycle, onItsWay, asks, moves, made, continued>>

(* Retention purges a job that is over and has nothing in progress. *)
Purges(j) ==
  /\ jobs[j].state \in {"done", "failed", "cancelled"} /\ ~jobs[j].busy /\ jobs[j].cleanup # "pending"
  /\ jobs' = [jobs EXCEPT ![j] = [NewJob(FALSE) EXCEPT !.state = "gone"]]
  /\ Move /\ JobOnly

Layer(j) == RunnerReturns(j) \/ TryOfCleanup(j)

Next ==
  \/ \E c \in Cycle : Goes(c) \/ Stops(c)
  \/ LoopIsReplaced
  \/ PersonAsks \/ PersonRemoves \/ PersonCreates \/ IndexShows \/ Tick
  \/ \E j \in JobNo : AttemptEnds(j) \/ PersonContinues(j) \/ Cancels(j) \/ Layer(j) \/ Purges(j)

Spec == Init /\ [][Next]_vars

(* The cycles go on, time passes, the index catches up, runners return and cleanups end.  People need do nothing, *)
(* and a job may stay as it is.                                                                                    *)
Fairness ==
  /\ WF_vars(Goes("loop"))
  /\ WF_vars(Stops("old"))
  /\ SF_vars(Tick)
  /\ WF_vars(IndexShows)
  /\ \A j \in JobNo : WF_vars(Layer(j))

LiveSpec == Spec /\ Fairness

-----------------------------------------------------------------------------
(* The properties. *)

RecordType ==
  [job : JobNo \cup {NoJob}, owed : BOOLEAN, seen : {"open", "ended", "holding"}, guard : BOOLEAN,
   age : 0..Delay, clock : NotStarted..Delay]

JobType ==
  [state : {"none", "open", "blocked", "failed", "done", "cancelled", "gone"}, label : BOOLEAN,
   inRunner : BOOLEAN, busy : BOOLEAN, cleanup : {"no", "pending", "back"}]

CycleType ==
  [at : Places, sees : Label, settles : BOOLEAN, before : Nat, since : SUBSET RecordId, young : SUBSET RecordId,
   ripe : SUBSET RecordId, owed : BOOLEAN, job : JobNo \cup {NoJob}, guard : BOOLEAN, inserted : BOOLEAN]

(* The state has its types, and the lock is held by the one cycle that applies the rules. *)
TypeOK ==
  /\ on \in Label /\ shown \in Label /\ behind \in 0..Lag
  /\ jobs \in [JobNo -> JobType]
  /\ Ids \subseteq RecordId
  /\ \A i \in Ids : records[i] \in RecordType
  /\ cycle \in [Cycle -> CycleType]
  /\ onItsWay \in BOOLEAN
  /\ lock \in Cycle \cup {"free"}
  /\ asks \in 0..MaxAsks /\ moves \in 0..MaxMoves /\ faults \in 0..MaxFaults
  /\ made \in [Label -> Nat] /\ continued \in [Label -> Nat] /\ lost \cup outlived \subseteq Label
  /\ \A c \in Cycle : cycle[c].at \in Locked <=> lock = c

(* A request is answered or retried at most once for all the sightings of its label, the index lagging or not, and *)
(* whatever cycles run at once.  (handler.go consume: "kept as a guard".)                                          *)
AnswersOnce == \A k \in Request : continued[k] > 1 => k \in lost \cup outlived

(* The same of every request with a record, whenever its label was removed.  (docs/architecture.md: "a lagging index *)
(* cannot repeat the answer or the retry".)                                                                          *)
AnswersOnceWhenever == \A k \in Request : continued[k] > 1 => k \in lost

(* A label that was taken and is on the issue still, its removal having failed or not been made yet, is not taken *)
(* again.  (docs/architecture.md: "a label whose removal failed is never taken twice".)                            *)
Taken(k) == made[k] + continued[k]
OwedIsNotTakenTwice ==
  [][\A k \in Request : Taken(k)' > Taken(k) /\ Taken(k) > 0 => k \in lost \/ on # k]_vars

(* A label that is on the issue since a person put it there makes one job, whatever fails.  (docs/adr/10: "A label *)
(* must make one job, not two".)                                                                                   *)
OneJobPerLabel == [][\A k \in Request : made'[k] > made[k] /\ made[k] > 0 => on # k]_vars

(* The label that a cancel put back makes no job. *)
PutBackMakesNoJob == made[PutBack] > 0 => lost # {}

(* A removal that is owed is made, or found made, unless a hold keeps the label. *)
Owed == \E i \in Ids : records[i].owed
OwedEnds == Owed ~> (~Owed \/ Holding)

(* A label does not stay on the issue for ever, unless it is held. *)
NoMoreJobs == Absent = {} /\ OpenJobs = {} /\ ~LatestFailed    \* the bound
LabelIsSeenTo == (on # NoLabel) ~> (on = NoLabel \/ Holding \/ NoMoreJobs)

(* A hold ends once nobody has the label on the issue. *)
HoldEnds == Holding ~> (~Holding \/ on # NoLabel)

(* Whatever the cycles owe is settled in the end: the removals, the labels of people, and the holds of a cancel. *)
LabelsSettle == OwedEnds /\ LabelIsSeenTo /\ HoldEnds
=============================================================================
