----------------------------- MODULE WorkerProofs ----------------------------
(***************************************************************************)
(* What Worker keeps for any bounds, that is for any number of attempts,   *)
(* deliveries, cancels, failed calls and crashes.                          *)
(*                                                                         *)
(* A label is right at the end because somebody owes it till then: either  *)
(* the issue is as it should be, or the write that makes it so is still in *)
(* the list of the runner or of the try of a cleanup (Owed), or the row    *)
(* says that a try is to come.  For the request label of a cancelled job   *)
(* that is PutsBack.  For in-progress it is Owes, of one job or another,   *)
(* since any of them may take it off; RunUnmarks says that the runner will *)
(* do so, from what it knows of the issue at each stage.                   *)
(*                                                                         *)
(* Three facts let the writes be told from each other (CallsKeepJobs): no  *)
(* request label is ever taken off, in-progress is added only to mark, and *)
(* first, and the tries of a cleanup add but the request label.  And three *)
(* more keep the runner and the rows together (OneRun, CleanupOfCancel):   *)
(* the job in the runner runs or was cancelled there, no try sees to it,   *)
(* and a cleanup is of a cancelled job.                                    *)
(*                                                                         *)
(* What the worker foretells of the job, it foretells by the round and the *)
(* outcome that the jobs layer rules by, and neither changes between       *)
(* (Foretold).                                                             *)
(***************************************************************************)
EXTENDS Worker, TLAPS

AnyLabel == Labels \cup {"none"}
Stages == {"none", "resolve", "session", "mark", "clone", "loop", "finish", "mirror", "return"}
Stops == {"no", "cancel", "shutdown"}
Outs == Ends \cup Losses \cup {"none"}
Calls == [op : {"add", "remove", "comment"}, label : AnyLabel]
Runs == [job : Job \cup {NoJob}, n : Nat, pc : Stages, stop : Stops, how : Stops, known : SUBSET AnyLabel,
         initial : SUBSET AnyLabel, set : SUBSET AnyLabel, removed : SUBSET AnyLabel, todo : Seq(Calls), marked : BOOLEAN,
         session : BOOLEAN, out : Outs]
Tries == [pc : {"none", "issue", "writes", "pending", "done", "label_not_set"}, set : SUBSET AnyLabel,
          others : SUBSET AnyLabel, running : BOOLEAN, todo : Seq(Calls), wrote : SUBSET AnyLabel, back : BOOLEAN,
          kept : BOOLEAN]
States == [state : {"queued", "running", "blocked", "done", "failed", "cancelled"},
           att : {"queued", "running", "ended"}, n : Nat, round : Nat, transients : Nat, session : BOOLEAN,
           set : SUBSET AnyLabel, cleanup : {"no", "pending", "done", "label_not_set"}]
Reasons == {"write", "list", "refused", "panic", "late", "cut"}

(* A call is still to be made. *)
Owed(todo, call) == \E i \in 1 .. Len(todo) : todo[i] = call

-----------------------------------------------------------------------------
(* What is in a sequence of calls. *)

LEMMA WritesAreCalls ==
  ASSUME NEW op \in {"add", "remove", "comment"}, NEW label \in AnyLabel
  PROVE  /\ Write(op, label) \in Calls
         /\ Write(op, label).op = op /\ Write(op, label).label = label
BY DEF Write, Calls

LEMMA CallIsWrite == ASSUME NEW call \in Calls PROVE call = Write(call.op, call.label)
BY DEF Write, Calls

LEMMA OneWrite ==
  ASSUME NEW op1, NEW op2, NEW label1, NEW label2
  PROVE  Write(op1, label1) = Write(op2, label2) <=> op1 = op2 /\ label1 = label2
<1>1. Write(op1, label1).op = op1 /\ Write(op1, label1).label = label1
  BY DEF Write
<1>2. Write(op2, label2).op = op2 /\ Write(op2, label2).label = label2
  BY DEF Write
<1>3. QED
  BY <1>1, <1>2

LEMMA NoneOwed == <<>> \in Seq(Calls) /\ \A call : ~Owed(<<>>, call)
BY DEF Owed

LEMMA OneOwed ==
  ASSUME NEW call \in Calls
  PROVE  <<call>> \in Seq(Calls) /\ <<call>> # <<>> /\ \A other : Owed(<<call>>, other) <=> other = call
BY DEF Owed

LEMMA BothOwed ==
  ASSUME NEW first \in Seq(Calls), NEW second \in Seq(Calls)
  PROVE  first \o second \in Seq(Calls) /\ \A call : Owed(first \o second, call) <=> Owed(first, call) \/ Owed(second, call)
<1>1. first \o second \in Seq(Calls) /\ Len(first \o second) = Len(first) + Len(second)
  OBVIOUS
<1>2. ASSUME NEW call, Owed(first \o second, call) PROVE Owed(first, call) \/ Owed(second, call)
  <2>1. PICK i \in 1 .. Len(first) + Len(second) : (first \o second)[i] = call
    BY <1>1, <1>2 DEF Owed
  <2>2. CASE i <= Len(first)
    BY <2>1, <2>2 DEF Owed
  <2>3. CASE i > Len(first)
    <3>1. second[i - Len(first)] = call /\ i - Len(first) \in 1 .. Len(second)
      BY <2>1, <2>3
    <3>2. QED
      BY <3>1 DEF Owed
  <2>4. QED
    BY <2>1, <2>2, <2>3
<1>3. ASSUME NEW call, Owed(first, call) PROVE Owed(first \o second, call)
  <2>1. PICK i \in 1 .. Len(first) : first[i] = call
    BY <1>3 DEF Owed
  <2>2. i \in 1 .. Len(first \o second) /\ (first \o second)[i] = call
    BY <1>1, <2>1
  <2>3. QED
    BY <2>2 DEF Owed
<1>4. ASSUME NEW call, Owed(second, call) PROVE Owed(first \o second, call)
  <2>1. PICK i \in 1 .. Len(second) : second[i] = call
    BY <1>4 DEF Owed
  <2>2. i + Len(first) \in 1 .. Len(first \o second) /\ (first \o second)[i + Len(first)] = call
    BY <1>1, <2>1
  <2>3. QED
    BY <2>2 DEF Owed
<1>5. QED
  BY <1>1, <1>2, <1>3, <1>4

LEMMA HeadAndTail ==
  ASSUME NEW todo \in Seq(Calls), todo # <<>>
  PROVE  /\ Head(todo) \in Calls /\ Tail(todo) \in Seq(Calls)
         /\ \A call : Owed(todo, call) <=> call = Head(todo) \/ Owed(Tail(todo), call)
<1>1. Len(todo) \in Nat \ {0} /\ Head(todo) = todo[1] /\ Tail(todo) \in Seq(Calls) /\ Len(Tail(todo)) = Len(todo) - 1
  OBVIOUS
<1>2. ASSUME NEW call, Owed(todo, call), call # Head(todo) PROVE Owed(Tail(todo), call)
  <2>1. PICK i \in 1 .. Len(todo) : todo[i] = call
    BY <1>2 DEF Owed
  <2>2. i - 1 \in 1 .. Len(Tail(todo)) /\ Tail(todo)[i - 1] = call
    BY <1>1, <1>2, <2>1
  <2>3. QED
    BY <2>2 DEF Owed
<1>3. ASSUME NEW call, Owed(Tail(todo), call) PROVE Owed(todo, call)
  <2>1. PICK i \in 1 .. Len(Tail(todo)) : Tail(todo)[i] = call
    BY <1>3 DEF Owed
  <2>2. i + 1 \in 1 .. Len(todo) /\ todo[i + 1] = call
    BY <1>1, <2>1
  <2>3. QED
    BY <2>2 DEF Owed
<1>4. Owed(todo, Head(todo))
  BY <1>1 DEF Owed
<1>5. QED
  BY <1>1, <1>2, <1>3, <1>4

LEMMA HeadOfOne ==
  ASSUME NEW call \in Calls, NEW rest \in Seq(Calls)
  PROVE  <<call>> \o rest # <<>> /\ Head(<<call>> \o rest) = call /\ Tail(<<call>> \o rest) = rest
<1>1. <<call>> \o rest \in Seq(Calls) /\ Len(<<call>> \o rest) = 1 + Len(rest)
  OBVIOUS
<1>2. (<<call>> \o rest)[1] = call
  OBVIOUS
<1>3. Tail(<<call>> \o rest) \in Seq(Calls) /\ Len(Tail(<<call>> \o rest)) = Len(rest)
  BY <1>1
<1>4. ASSUME NEW i \in 1 .. Len(rest) PROVE Tail(<<call>> \o rest)[i] = rest[i]
  BY <1>1
<1>5. Tail(<<call>> \o rest) = rest
  BY <1>3, <1>4
<1>6. QED
  BY <1>1, <1>2, <1>5

(* The calls that remove labels. *)
LEMMA RemovalOwed ==
  ASSUME NEW label \in Statuses, NEW labels
  PROVE  /\ Removal(label, labels) \in Seq(Calls)
         /\ \A call : Owed(Removal(label, labels), call) <=> call = Write("remove", label) /\ label \in labels
<1>1. Write("remove", label) \in Calls
  BY WritesAreCalls DEF AnyLabel, Labels
<1>2. QED
  BY <1>1, NoneOwed, OneOwed DEF Removal

LEMMA RemovalsOwed ==
  ASSUME NEW labels
  PROVE  /\ Removals(labels) \in Seq(Calls)
         /\ \A call : Owed(Removals(labels), call) <=> \E label \in Statuses \cap labels : call = Write("remove", label)
<1> DEFINE A == Removal("in-progress", labels)
           B == Removal("ready", labels)
           C == Removal("needs-human", labels)
           D == Removal("landed", labels)
           E == Removal("failed", labels)
<1>1. \A label \in Statuses :
        /\ Removal(label, labels) \in Seq(Calls)
        /\ \A call : Owed(Removal(label, labels), call) <=> call = Write("remove", label) /\ label \in labels
  BY RemovalOwed
<1>2. A \in Seq(Calls) /\ B \in Seq(Calls) /\ C \in Seq(Calls) /\ D \in Seq(Calls) /\ E \in Seq(Calls)
  BY <1>1 DEF Statuses
<1>3. \A call :
        /\ Owed(A, call) <=> call = Write("remove", "in-progress") /\ "in-progress" \in labels
        /\ Owed(B, call) <=> call = Write("remove", "ready") /\ "ready" \in labels
        /\ Owed(C, call) <=> call = Write("remove", "needs-human") /\ "needs-human" \in labels
        /\ Owed(D, call) <=> call = Write("remove", "landed") /\ "landed" \in labels
        /\ Owed(E, call) <=> call = Write("remove", "failed") /\ "failed" \in labels
  BY <1>1 DEF Statuses
<1>4. Removals(labels) = A \o B \o C \o D \o E
  BY DEF Removals
<1> HIDE DEF A, B, C, D, E
<1>5. A \o B \in Seq(Calls) /\ \A call : Owed(A \o B, call) <=> Owed(A, call) \/ Owed(B, call)
  BY <1>2, BothOwed
<1>6. A \o B \o C \in Seq(Calls) /\ \A call : Owed(A \o B \o C, call) <=> Owed(A \o B, call) \/ Owed(C, call)
  BY <1>2, <1>5, BothOwed
<1>7. A \o B \o C \o D \in Seq(Calls) /\ \A call : Owed(A \o B \o C \o D, call) <=> Owed(A \o B \o C, call) \/ Owed(D, call)
  BY <1>2, <1>6, BothOwed
<1>8. /\ A \o B \o C \o D \o E \in Seq(Calls)
      /\ \A call : Owed(A \o B \o C \o D \o E, call) <=> Owed(A \o B \o C \o D, call) \/ Owed(E, call)
  BY <1>2, <1>7, BothOwed
<1>9. ASSUME NEW call
      PROVE  Owed(Removals(labels), call) <=> \E label \in Statuses \cap labels : call = Write("remove", label)
  <2>1. Owed(Removals(labels), call)
          <=> Owed(A, call) \/ Owed(B, call) \/ Owed(C, call) \/ Owed(D, call) \/ Owed(E, call)
    BY <1>4, <1>5, <1>6, <1>7, <1>8
  <2>2. QED
    BY <2>1, <1>3 DEF Statuses
<1>10. QED
  BY <1>4, <1>8, <1>9

(* What the actions compute with. *)
Types ==
  /\ job \in [Job -> States] /\ run \in Runs /\ try \in [Job -> Tries]
  /\ up \in BOOLEAN /\ onIssue \subseteq AnyLabel /\ comments \in [Job -> Nat] /\ excused \in [Job -> SUBSET Reasons]

(* What is in the runner: a job that runs or was cancelled there, whose labels no try sees to. *)
InRunner(j) ==
  /\ job[j].state \in {"running", "cancelled"} /\ job[j].cleanup \in {"no", "pending"} /\ try[j].pc = "none"
  /\ job[j].state = "running" => job[j].att = "running"
  /\ job[j].state = "cancelled" => run.stop = "cancel"
  /\ job[j].session => run.session
  /\ job[j].att = "ended" /\ job[j].cleanup = "no" => job[j].session
OneRun ==
  /\ run.job = NoJob <=> run.pc = "none"
  /\ run.stop = "shutdown" => ~up
  /\ run.how = "shutdown" => run.stop = "shutdown"
  /\ \A j \in Job : run.job = j => InRunner(j)

CleansUp(j) ==
  /\ try[j].pc # "none" => job[j].cleanup = "pending"
  /\ job[j].cleanup # "no" => job[j].state = "cancelled"
  /\ job[j].state = "cancelled" => job[j].att # "queued"
CleanupOfCancel == \A j \in Job : CleansUp(j)

(* No request label is taken off, and in-progress is added only to mark, and first. *)
RunCalls ==
  /\ \A call : Owed(run.todo, call) /\ call.op = "remove" => call.label \in Statuses
  /\ Owed(run.todo, Write("add", "in-progress")) => run.pc = "mark" /\ ~Owed(Tail(run.todo), Write("add", "in-progress"))
  /\ Owed(run.todo, Write("remove", "in-progress")) => run.pc # "mark"
TryCalls(j) ==
  \A call : Owed(try[j].todo, call) => call = Write("add", j) \/ \E label \in Statuses : call = Write("remove", label)
CallsKeepJobs == RunCalls /\ \A j \in Job : TryCalls(j)

(* The request label of a cancelled job is on the issue, or somebody still puts it there. *)
TryPutsBack(j) ==
  /\ job[j].cleanup = "done" \/ try[j].pc = "done" => j \in onIssue
  /\ try[j].pc = "writes" => j \in onIssue \/ Owed(try[j].todo, Write("add", j))
RunPutsBack(j) ==
  job[j].state = "cancelled" /\ job[j].cleanup = "no" /\ excused[j] = {} =>
    /\ run.job = j /\ run.pc \in {"mirror", "return"} => run.how = "cancel"
    /\ run.job = j /\ run.session /\ run.pc = "mirror" => j \in onIssue \/ Owed(run.todo, Write("add", j))
    /\ run.job = j /\ run.session /\ run.pc = "return" => j \in onIssue
    /\ run.job # j => j \in onIssue \/ (job[j].att = "running" /\ ~job[j].session)
PutsBack == \A j \in Job : TryPutsBack(j) /\ RunPutsBack(j)

LabelInv == Types /\ OneRun /\ CleanupOfCancel /\ CallsKeepJobs /\ PutsBack /\ CommentOnce

(* Who may leave in-progress on the issue, or takes it off yet. *)
Let(j) == ~(excused[j] \subseteq {"late"}) \/ job[j].cleanup = "label_not_set"
TryOwes(t) ==
  \/ t.pc \in {"none", "pending", "label_not_set"}
  \/ t.pc = "issue" /\ ~t.running
  \/ t.pc = "writes" /\ (t.kept \/ Owed(t.todo, Write("remove", "in-progress")))
Owes(j) ==
  \/ Let(j)
  \/ job[j].state = "running"
  \/ job[j].state = "cancelled" /\ run.job = j
  \/ job[j].state = "cancelled" /\ job[j].att = "running" /\ job[j].cleanup = "no" /\ ~job[j].session
  \/ job[j].cleanup = "pending" /\ TryOwes(try[j])

(* The runner takes in-progress off unless a shutdown stops it. *)
Marks(r) == r.session /\ r.marked /\ "in-progress" \in r.known
Unmarks ==
  /\ run.pc \in {"resolve", "session"} => ~run.session
  /\ run.pc = "mark" => run.session /\ (Marks(run) \/ Owed(run.todo, Write("add", "in-progress")))
  /\ run.pc \in {"clone", "loop"} => Marks(run)
  /\ run.pc = "finish" => Marks(run) \/ (~run.session /\ "in-progress" \notin onIssue)
  /\ run.pc = "mirror" /\ run.how # "shutdown" => "in-progress" \notin onIssue \/ Owed(run.todo, Write("remove", "in-progress"))
  /\ run.pc = "return" /\ run.how # "shutdown" => "in-progress" \notin onIssue
RunUnmarks == \A j \in Job : run.job = j => Let(j) \/ Unmarks
InProgressIsOwed == "in-progress" \in onIssue => \E j \in Job : Owes(j)

MarkInv == RunUnmarks /\ InProgressIsOwed

(* The issue says failed only after an attempt that no other follows, by the round that its job has. *)
NoneFollows(r) == r.out \in {"failure", "retryable"} /\ ~AutomaticFollows(r)
Foretold ==
  /\ "failed" \in run.set => run.pc \in {"mirror", "return"} /\ NoneFollows(run)
  /\ Owed(run.todo, Write("add", "failed")) => run.pc = "mirror" /\ NoneFollows(run)

(* The status is added first, and in-progress is removed by every other status. *)
LEMMA SetStatusOwed ==
  ASSUME NEW r, NEW status \in Statuses
  PROVE  /\ SetStatus(r, status) \in Seq(Calls) /\ SetStatus(r, status) # <<>>
         /\ Owed(SetStatus(r, status), Write("add", status))
         /\ \A call : Owed(SetStatus(r, status), call) =>
              call = Write("add", status) \/ \E label \in Statuses \ {status} : call = Write("remove", label)
         /\ \A call : Owed(Tail(SetStatus(r, status)), call) => \E label \in Statuses \ {status} : call = Write("remove", label)
         /\ status # "in-progress" /\ "in-progress" \in r.known => Owed(SetStatus(r, status), Write("remove", "in-progress"))
<1> DEFINE others == {other \in r.known \ {status} : ~KeepsReady(r.job, status, other)}
           off == Removals(others)
           call1 == Write("add", status)
<1>1. SetStatus(r, status) = <<call1>> \o off
  BY DEF SetStatus, Adds
<1>2. others \subseteq r.known \ {status}
  OBVIOUS
<1>3. status # "in-progress" /\ "in-progress" \in r.known => "in-progress" \in others
  BY DEF KeepsReady
<1>4. call1 \in Calls
  BY WritesAreCalls DEF AnyLabel, Labels
<1> HIDE DEF others, call1
<1>5. off \in Seq(Calls) /\ \A call : Owed(off, call) <=> \E label \in Statuses \cap others : call = Write("remove", label)
  BY RemovalsOwed
<1> HIDE DEF off
<1>6. <<call1>> \in Seq(Calls) /\ \A call : Owed(<<call1>>, call) <=> call = call1
  BY <1>4, OneOwed
<1>7. <<call1>> \o off \in Seq(Calls)
      /\ \A call : Owed(<<call1>> \o off, call) <=> Owed(<<call1>>, call) \/ Owed(off, call)
  BY <1>5, <1>6, BothOwed
<1>8. <<call1>> \o off # <<>> /\ Tail(<<call1>> \o off) = off
  BY <1>4, <1>5, HeadOfOne
<1>9. \A call : Owed(off, call) => \E label \in Statuses \ {status} : call = Write("remove", label)
  BY <1>2, <1>5
<1>10. "in-progress" \in others => Owed(off, Write("remove", "in-progress"))
  BY <1>5 DEF Statuses
<1>11. call1 = Write("add", status)
  BY DEF call1
<1>12. QED
  BY <1>1, <1>3, <1>6, <1>7, <1>8, <1>9, <1>10, <1>11

LEMMA UnmarkOwed ==
  ASSUME NEW r
  PROVE  /\ Unmark(r) \in Seq(Calls)
         /\ \A call : Owed(Unmark(r), call) => call = Write("remove", "in-progress")
         /\ r.marked => Owed(Unmark(r), Write("remove", "in-progress"))
<1>1. Removals({"in-progress"}) \in Seq(Calls)
      /\ \A call : Owed(Removals({"in-progress"}), call) <=> \E label \in Statuses \cap {"in-progress"} : call = Write("remove", label)
  BY RemovalsOwed
<1>2. \A call : Owed(Removals({"in-progress"}), call) <=> call = Write("remove", "in-progress")
  BY <1>1 DEF Statuses
<1>3. QED
  BY <1>1, <1>2, NoneOwed DEF Unmark

(* A mirror takes in-progress off and, after a cancel, puts the request label on. *)
LEMMA MirrorOwed ==
  ASSUME WorkerAssumption, NEW r, r.job \in Job
  PROVE  /\ Mirror(r) \in Seq(Calls)
         /\ \A call : Owed(Mirror(r), call) =>
              \/ call = Write("comment", "none")
              \/ \E label \in Labels \ {"in-progress"} : call = Write("add", label)
              \/ \E label \in Statuses : call = Write("remove", label)
         /\ r.session /\ r.how # "shutdown" /\ r.marked /\ "in-progress" \in r.known
              => Owed(Mirror(r), Write("remove", "in-progress"))
         /\ r.session /\ r.how = "cancel" => Owed(Mirror(r), Write("add", r.job))
<1> DEFINE Fits(todo) == \A call : Owed(todo, call) =>
              \/ call = Write("comment", "none")
              \/ \E label \in Labels \ {"in-progress"} : call = Write("add", label)
              \/ \E label \in Statuses : call = Write("remove", label)
<1>1. r.job \in Labels \ {"in-progress"}
  BY DEF WorkerAssumption, Labels
<1>2. Unmark(r) \in Seq(Calls) /\ Fits(Unmark(r))
  BY UnmarkOwed DEF Statuses
<1>3. CASE ~r.session \/ r.how = "shutdown"
  BY <1>3, NoneOwed DEF Mirror
<1>4. CASE r.session /\ r.how = "cancel"
  <2>1. Mirror(r) = Unmark(r) \o Adds(r.job)
    BY <1>4 DEF Mirror
  <2>2. Write("add", r.job) \in Calls
    BY <1>1, WritesAreCalls DEF AnyLabel
  <2>3. Adds(r.job) \in Seq(Calls) /\ \A call : Owed(Adds(r.job), call) <=> call = Write("add", r.job)
    BY <2>2, OneOwed DEF Adds
  <2>4. Mirror(r) \in Seq(Calls) /\ \A call : Owed(Mirror(r), call) <=> Owed(Unmark(r), call) \/ Owed(Adds(r.job), call)
    BY <1>2, <2>1, <2>3, BothOwed
  <2>5. r.marked => Owed(Unmark(r), Write("remove", "in-progress"))
    BY UnmarkOwed
  <2>6. Fits(Mirror(r))
    BY <1>1, <1>2, <2>3, <2>4
  <2>7. QED
    BY <1>4, <2>3, <2>4, <2>5, <2>6
<1>5. CASE r.session /\ r.how \notin {"shutdown", "cancel"} /\ r.out \in Losses
  <2>1. Mirror(r) = Unmark(r)
    BY <1>5 DEF Mirror
  <2>2. QED
    BY <1>2, <1>5, <2>1, UnmarkOwed
<1>6. CASE r.session /\ r.how \notin {"shutdown", "cancel"} /\ r.out \notin Losses
  <2> DEFINE says == IF PlanComment(r) THEN <<Write("comment", "none")>> ELSE <<>>
             shows == IF PlanStatus(r) # "none" THEN SetStatus(r, PlanStatus(r)) ELSE Unmark(r)
  <2>1. Mirror(r) = says \o shows
    BY <1>6 DEF Mirror, MirrorEnvelope
  <2>2. Write("comment", "none") \in Calls
    BY WritesAreCalls DEF AnyLabel
  <2>3. says \in Seq(Calls) /\ Fits(says)
    BY <2>2, OneOwed, NoneOwed
  <2>4. PlanStatus(r) \in {"none", "needs-human", "ready", "landed", "failed"}
    BY DEF PlanStatus
  <2>5. shows \in Seq(Calls) /\ Fits(shows)
        /\ (r.marked /\ "in-progress" \in r.known => Owed(shows, Write("remove", "in-progress")))
    <3>1. CASE PlanStatus(r) = "none"
      BY <1>2, <3>1, UnmarkOwed
    <3>2. CASE PlanStatus(r) # "none"
      <4>1. PlanStatus(r) \in Statuses \ {"in-progress"} /\ Statuses \subseteq Labels
        BY <2>4, <3>2 DEF Statuses, Labels
      <4>2. QED
        BY <3>2, <4>1, SetStatusOwed
    <3>3. QED
      BY <3>1, <3>2
  <2> HIDE DEF says, shows
  <2>6. Mirror(r) \in Seq(Calls) /\ \A call : Owed(Mirror(r), call) <=> Owed(says, call) \/ Owed(shows, call)
    BY <2>1, <2>3, <2>5, BothOwed
  <2>7. QED
    BY <1>6, <2>3, <2>5, <2>6
<1>7. QED
  BY <1>3, <1>4, <1>5, <1>6

-----------------------------------------------------------------------------
(* What is in a record that an action writes. *)

LEMMA NoRunTyped ==
  /\ NoRun \in Runs /\ NoTry \in Tries
  /\ NoRun.job = NoJob /\ NoRun.pc = "none" /\ NoRun.stop = "no" /\ NoRun.how = "no" /\ NoRun.todo = <<>> /\ ~NoRun.session
  /\ NoRun.set = {} /\ NoRun.removed = {}
  /\ NoTry.pc = "none" /\ NoTry.todo = <<>> /\ ~NoTry.kept
<1>1. <<>> \in Seq(Calls)
  OBVIOUS
<1>2. QED
  BY <1>1 DEF NoRun, NoTry, Runs, Tries, Stages, Stops, Outs

LEMMA NotedFields ==
  ASSUME NEW r \in Runs, NEW call \in Calls
  PROVE  LET noted == Noted(r, call) IN
         /\ noted \in Runs
         /\ noted.job = r.job /\ noted.pc = r.pc /\ noted.stop = r.stop /\ noted.how = r.how /\ noted.session = r.session
         /\ noted.todo = r.todo
         /\ call = Write("add", "in-progress") => noted.marked /\ "in-progress" \in noted.known
         /\ call # Write("remove", "in-progress") /\ Marks(r) => Marks(noted)
         /\ noted.out = r.out /\ ("failed" \in noted.set => "failed" \in r.set \/ call = Write("add", "failed"))
<1>1. call.label \in AnyLabel /\ call = Write(call.op, call.label)
  BY CallIsWrite DEF Calls
<1>2. CASE call.op = "add"
  <2> DEFINE back == call.label \in r.removed \cap r.initial
             removed == IF back THEN r.removed \ {call.label} ELSE r.removed
             set == IF back THEN r.set ELSE r.set \cup {call.label}
             marked == r.marked \/ call.label = "in-progress"
             known == r.known \cup {call.label}
  <2>1. Noted(r, call) = [r EXCEPT !.known = known, !.removed = removed, !.set = set, !.marked = marked]
    BY <1>2 DEF Noted
  <2>2. known \in SUBSET AnyLabel /\ removed \in SUBSET AnyLabel /\ set \in SUBSET AnyLabel /\ marked \in BOOLEAN
    BY <1>1 DEF Runs
  <2>3. call = Write("add", "in-progress") => marked /\ "in-progress" \in known
    BY DEF Write
  <2>6. "failed" \in set => "failed" \in r.set \/ call = Write("add", "failed")
    BY <1>1, <1>2
  <2>4. Marks(r) => r.session /\ marked /\ "in-progress" \in known
    BY DEF Marks
  <2> HIDE DEF known, removed, set, marked
  <2>5. QED
    BY <2>1, <2>2, <2>3, <2>4, <2>6 DEF Runs, Marks
<1>3. CASE call.op = "remove"
  <2> DEFINE known == r.known \ {call.label}
             set == r.set \ {call.label}
             removed == r.removed \cup {call.label}
             marked == r.marked /\ call.label # "in-progress"
  <2>1. Noted(r, call) = [r EXCEPT !.known = known, !.set = set, !.removed = removed, !.marked = marked]
    BY <1>3 DEF Noted
  <2>2. known \in SUBSET AnyLabel /\ removed \in SUBSET AnyLabel /\ set \in SUBSET AnyLabel /\ marked \in BOOLEAN
    BY <1>1 DEF Runs
  <2>3. call # Write("add", "in-progress")
    BY <1>3 DEF Write
  <2>6. set \subseteq r.set
    OBVIOUS
  <2>4. call # Write("remove", "in-progress") /\ Marks(r) => r.session /\ marked /\ "in-progress" \in known
    BY <1>1, <1>3 DEF Marks, Write
  <2> HIDE DEF known, removed, set, marked
  <2>5. QED
    BY <2>1, <2>2, <2>3, <2>4, <2>6 DEF Runs, Marks
<1>4. CASE call.op \notin {"add", "remove"}
  BY <1>1, <1>4 DEF Noted, Runs, Marks, Write
<1>5. QED
  BY <1>2, <1>3, <1>4

LEMMA AfterFields ==
  ASSUME NEW r \in Runs, r.todo # <<>>, NEW ok \in BOOLEAN
  PROVE  LET after == After(r, Head(r.todo), ok) IN
         /\ after \in Runs
         /\ after.job = r.job /\ after.pc = r.pc /\ after.stop = r.stop /\ after.how = r.how /\ after.session = r.session
         /\ ok => after.todo = Tail(r.todo)
         /\ after.todo \in {<<>>, Tail(r.todo)}
         /\ ok /\ Head(r.todo) = Write("add", "in-progress") => after.marked /\ "in-progress" \in after.known
         /\ ok /\ Head(r.todo) # Write("remove", "in-progress") /\ Marks(r) => Marks(after)
         /\ after.out = r.out /\ ("failed" \in after.set => "failed" \in r.set \/ Head(r.todo) = Write("add", "failed"))
<1> DEFINE noted == IF ok THEN Noted(r, Head(r.todo)) ELSE r
<1>1. Head(r.todo) \in Calls /\ Tail(r.todo) \in Seq(Calls) /\ <<>> \in Seq(Calls)
  BY HeadAndTail DEF Runs
<1>2. /\ noted \in Runs
      /\ noted.job = r.job /\ noted.pc = r.pc /\ noted.stop = r.stop /\ noted.how = r.how /\ noted.session = r.session
      /\ noted.todo = r.todo
      /\ ok /\ Head(r.todo) = Write("add", "in-progress") => noted.marked /\ "in-progress" \in noted.known
      /\ ok /\ Head(r.todo) # Write("remove", "in-progress") /\ Marks(r) => Marks(noted)
      /\ noted.out = r.out /\ ("failed" \in noted.set => "failed" \in r.set \/ Head(r.todo) = Write("add", "failed"))
  BY <1>1, NotedFields
<1>3. After(r, Head(r.todo), ok) = [noted EXCEPT !.todo = IF ~ok /\ Skips(r, Head(r.todo)) THEN <<>> ELSE Tail(@)]
  BY DEF After
<1> HIDE DEF noted
<1>4. PICK todo \in {<<>>, Tail(r.todo)} : (ok => todo = Tail(r.todo)) /\ After(r, Head(r.todo), ok) = [noted EXCEPT !.todo = todo]
  BY <1>2, <1>3
<1>5. QED
  BY <1>1, <1>2, <1>4 DEF Runs, Marks

-----------------------------------------------------------------------------
(* Each step keeps the types. *)

(* What the jobs layer makes of an attempt that ends. *)
LEMMA EndCancelledFields ==
  ASSUME NEW d \in States, NEW r \in Runs
  PROVE  LET end == EndCancelled(d, r) IN
         /\ end \in States /\ end.state = d.state /\ end.att = "ended" /\ end.session = d.session /\ end.round = d.round
         /\ end.cleanup = IF d.cleanup = "no" /\ ~d.session THEN "pending" ELSE d.cleanup
<1>1. PICK set \in SUBSET AnyLabel : Stores(d, r) = [d EXCEPT !.set = set]
  BY DEF Stores, Runs, States
<1>2. QED
  BY <1>1 DEF EndCancelled, States

LEMMA RequeuedFields ==
  ASSUME NEW d \in States, NEW round \in Nat
  PROVE  LET again == Requeued(d, round) IN
         again \in States /\ again.state = "queued" /\ again.att = "queued" /\ again.cleanup = d.cleanup /\ ~again.session
<1>1. PICK n \in Nat : n = d.n + 1
  BY DEF States
<1>2. Requeued(d, round) = [d EXCEPT !.state = "queued", !.att = "queued", !.n = n, !.round = round, !.transients = 0,
                                     !.session = FALSE]
  BY <1>1 DEF Requeued
<1>3. [d EXCEPT !.state = "queued", !.att = "queued", !.n = n, !.round = round, !.transients = 0, !.session = FALSE] \in States
  BY DEF States
<1>4. QED
  BY <1>2, <1>3 DEF States

LEMMA RulingFields ==
  ASSUME NEW d \in States, NEW r \in Runs
  PROVE  LET ruled == Ruling(Stores(d, r), r.out) IN
         /\ ruled \in States /\ ruled.state \in {"queued", "blocked", "done", "failed"} /\ ruled.cleanup = d.cleanup
         /\ ruled.att # "running"
<1>1. PICK set \in SUBSET AnyLabel : Stores(d, r) = [d EXCEPT !.set = set]
  BY DEF Stores, Runs, States
<1> DEFINE e == [d EXCEPT !.set = set]
<1>2. e \in States /\ e.cleanup = d.cleanup
  BY <1>1 DEF States
<1> HIDE DEF e
<1>3. ASSUME NEW state \in {"done", "failed", "blocked"}
      PROVE  EndsAs(e, state) \in States /\ EndsAs(e, state).state = state /\ EndsAs(e, state).cleanup = d.cleanup
             /\ EndsAs(e, state).att # "running"
  BY <1>2 DEF EndsAs, States
<1>4. LET again == Requeued(e, e.round + 1) IN
      again \in States /\ again.state = "queued" /\ again.att # "running" /\ again.cleanup = d.cleanup
  <2>1. e.round + 1 \in Nat
    BY <1>2 DEF States
  <2>2. QED
    BY <1>2, <2>1, RequeuedFields
<1>5. LET once == [e EXCEPT !.state = "queued", !.att = "queued", !.transients = @ + 1] IN
      once \in States /\ once.state = "queued" /\ once.att # "running" /\ once.cleanup = d.cleanup
  <2>1. PICK transients \in Nat : transients = e.transients + 1
    BY <1>2 DEF States
  <2>2. QED
    BY <1>2, <2>1 DEF States
<1>6. Ruling(e, r.out) \in {EndsAs(e, "done"), EndsAs(e, "blocked"), EndsAs(e, "failed"), Requeued(e, e.round + 1),
                            [e EXCEPT !.state = "queued", !.att = "queued", !.transients = @ + 1]}
  BY DEF Ruling
<1>7. Stores(d, r) = e
  BY <1>1 DEF e
<1>8. QED
  BY <1>3, <1>4, <1>5, <1>6, <1>7

LEMMA TypesStep ==
  ASSUME WorkerAssumption, Types, OneRun, [Next]_vars PROVE Types'
<1> USE DEF Types
<1>1. run.pc # "none" => run.job \in Job
  BY DEF OneRun, Runs
<1>2. CASE Resolve
  BY <1>2 DEF Resolve, Here, forge, Runs, Stages
<1>3. CASE OpenSession
  <2> DEFINE r == [run EXCEPT !.pc = "mark", !.session = TRUE]
  <2>1. SetStatus(r, "in-progress") \in Seq(Calls)
    BY SetStatusOwed DEF Statuses
  <2>2. r \in Runs
    BY DEF Runs, Stages
  <2>3. run' = [r EXCEPT !.todo = SetStatus(r, "in-progress")]
    BY <1>3 DEF OpenSession
  <2> HIDE DEF r
  <2>4. run' \in Runs
    BY <2>1, <2>2, <2>3 DEF Runs
  <2>5. run.job \in Job
    BY <1>1, <1>3 DEF OpenSession
  <2>6. PICK session \in BOOLEAN : job' = [job EXCEPT ![run.job] = [job[run.job] EXCEPT !.session = session]]
    BY <1>3, <2>5 DEF OpenSession, Running
  <2>7. job' \in [Job -> States]
    BY <2>5, <2>6 DEF States
  <2>8. QED
    BY <1>3, <2>4, <2>7 DEF OpenSession, forge, bounds
<1>4. CASE Marked \/ Prepare
  BY <1>4 DEF Marked, Prepare, Goes, Here, forge, Runs, Stages
<1>5. CASE LoopEnds
  BY <1>5 DEF LoopEnds, EndsWith, Here, forge, Runs, Stages, Outs
<1>6. CASE StageFails
  <2>1. run.job \in Job
    BY <1>1, <1>6 DEF StageFails
  <2>2. excused' \in [Job -> SUBSET Reasons]
    BY <1>6, <2>1 DEF StageFails, Excuse, Reasons
  <2>3. PICK out \in Outs : EndsWith(out)
    BY <1>6 DEF StageFails, Outs, Ends, Losses
  <2>4. run' \in Runs
    BY <2>3 DEF EndsWith, Runs, Stages
  <2>5. QED
    BY <1>6, <2>2, <2>4 DEF StageFails, Here, forge
<1>7. CASE Panics
  BY <1>1, <1>7 DEF Panics, Excuse, Here, Runs, Stages, Outs, Ends, Losses, Reasons
<1>8. CASE Writes
  <2>1. run.todo # <<>> /\ run.job \in Job
    BY <1>1, <1>8 DEF Writes
  <2>2. run' \in Runs
    BY <1>8, <2>1, AfterFields DEF Writes, WriteDone, WriteFails, ListFails
  <2>3. comments' \in [Job -> Nat]
    <3>1. comments' \in {comments, [comments EXCEPT ![run.job] = comments[run.job] + 1]}
      BY <1>8 DEF Writes, WriteDone, WriteFails, ListFails, Comments
    <3>2. comments[run.job] + 1 \in Nat
      BY <2>1
    <3>3. QED
      BY <3>1, <3>2
  <2>4. excused' \in [Job -> SUBSET Reasons]
    <3>1. \/ UNCHANGED excused
          \/ \E why \in Reasons : excused' = [excused EXCEPT ![run.job] = @ \cup {why}]
      BY <1>8 DEF Writes, WriteDone, WriteFails, ListFails, Excuse, Reasons
    <3>2. QED
      BY <2>1, <3>1
  <2>5. onIssue' \subseteq AnyLabel
    <3>1. Head(run.todo) \in Calls
      BY <2>1, HeadAndTail DEF Runs
    <3>2. UNCHANGED onIssue \/ Put(Head(run.todo))
      BY <1>8 DEF Writes, WriteDone, WriteFails, ListFails
    <3>3. QED
      BY <3>1, <3>2 DEF Put, Calls
  <2>6. QED
    BY <1>8, <2>2, <2>3, <2>4, <2>5 DEF Writes
<1>9. CASE Finish
  <2> DEFINE r == [run EXCEPT !.pc = "mirror", !.how = run.stop]
  <2>1. r \in Runs /\ r.job \in Job
    BY <1>1, <1>9 DEF Finish, Runs, Stages
  <2>2. run' = [r EXCEPT !.todo = Mirror(r)]
    BY <1>9 DEF Finish
  <2> HIDE DEF r
  <2>3. Mirror(r) \in Seq(Calls)
    BY <2>1, MirrorOwed
  <2>4. run' \in Runs
    BY <2>1, <2>2, <2>3 DEF Runs
  <2>5. QED
    BY <1>9, <2>4 DEF Finish, Here, forge
<1>10. CASE Mirrored
  BY <1>10 DEF Mirrored, Here, forge, Runs, Stages
<1>11. CASE Returns
  <2>1. run.job \in Job
    BY <1>1, <1>11 DEF Returns
  <2>2. job' \in [Job -> States]
    <3>1. job[run.job] \in States
      BY <2>1
    <3>2. EndCancelled(job[run.job], run) \in States /\ Ruling(Stores(job[run.job], run), run.out) \in States
      BY <3>1, EndCancelledFields, RulingFields
    <3>3. QED
      BY <1>11, <2>1, <3>1, <3>2 DEF Returns
  <2>3. comments' \in [Job -> Nat]
    BY <1>11, <2>1 DEF Returns
  <2>4. run' \in Runs
    BY <1>11, NoRunTyped DEF Returns
  <2>5. QED
    BY <1>11, <2>2, <2>3, <2>4 DEF Returns, bounds
<1>12. ASSUME NEW j \in Job, Deliver(j) PROVE Types'
  <2>1. job' \in [Job -> States]
    <3>1. job' = [job EXCEPT ![j] = [job[j] EXCEPT !.state = "running", !.att = "running", !.session = FALSE]]
      BY <1>12 DEF Deliver
    <3>2. QED
      BY <3>1 DEF States
  <2>2. job[j].n \in Nat
    BY DEF States
  <2>3. run' \in Runs
    BY <1>12, <2>2, NoRunTyped DEF Deliver, Runs, Stages
  <2>4. QED
    BY <1>12, <2>1, <2>3 DEF Deliver, forge
<1>13. ASSUME NEW j \in Job, AsksAgain(j) PROVE Types'
  BY <1>13, RequeuedFields DEF AsksAgain, forge, bounds
<1>14. ASSUME NEW j \in Job, Cancel(j) PROVE Types'
  <2>1. PICK att \in {"running", "ended"}, cleanup \in {"no", "pending", "done", "label_not_set"} :
          job' = [job EXCEPT ![j] = [job[j] EXCEPT !.state = "cancelled", !.att = att, !.cleanup = cleanup]]
    BY <1>14 DEF Cancel, States
  <2>2. [job[j] EXCEPT !.state = "cancelled", !.att = att, !.cleanup = cleanup] \in States
    BY DEF States
  <2>3. job' \in [Job -> States]
    BY <2>1, <2>2
  <2>4. run' \in Runs
    BY <1>14 DEF Cancel, Runs, Stops
  <2>5. excused' \in [Job -> SUBSET Reasons]
    BY <1>14 DEF Cancel, Excuse, Reasons
  <2>6. QED
    BY <1>14, <2>3, <2>4, <2>5 DEF Cancel, forge, bounds
<1>15. ASSUME NEW j \in Job, Overruns(j) \/ Reaps(j) PROVE Types'
  <2>1. EndCancelled(job[j], NoRun) \in States
    BY EndCancelledFields, NoRunTyped
  <2>2. QED
    BY <1>15, <2>1 DEF Overruns, Reaps, forge, bounds
<1>16. CASE ShutsDown
  BY <1>16 DEF ShutsDown, forge, Runs, Stops
<1>17. CASE Restarts
  <2>1. run' \in Runs /\ try' \in [Job -> Tries]
    BY <1>17, NoRunTyped DEF Restarts
  <2>2. excused' \in [Job -> SUBSET Reasons]
    BY <1>17 DEF Restarts, Excuse, Reasons
  <2>3. QED
    BY <1>17, <2>1, <2>2 DEF Restarts, forge
<1>18. ASSUME NEW j \in Job, TryStarts(j) PROVE Types'
  <2> DEFINE others == {k \in Job \ {j} : Open(k)}
  <2>1. job[j].set \in SUBSET AnyLabel /\ UNION {job[k].set : k \in others} \in SUBSET AnyLabel
    BY DEF States
  <2>2. (\E k \in others : job[k].state = "running") \in BOOLEAN
    OBVIOUS
  <2>3. try' \in [Job -> Tries]
    BY <1>18, <2>1, <2>2, NoRunTyped DEF TryStarts, TryGoes, Tries
  <2>4. QED
    BY <1>18, <2>3 DEF TryStarts, Trying
<1>19. ASSUME NEW j \in Job, TryReads(j) PROVE Types'
  <2>1. \A labels : Removals(labels) \in Seq(Calls)
    BY RemovalsOwed
  <2>2. Adds(j) \in Seq(Calls) /\ <<>> \in Seq(Calls)
    BY WritesAreCalls, OneOwed DEF Adds, AnyLabel, Labels
  <2>3. \A off \in Seq(Calls) : off \o (IF j \in onIssue THEN <<>> ELSE Adds(j)) \in Seq(Calls)
    BY <2>2
  <2>4. ASSUME NEW todo \in Seq(Calls), NEW back \in BOOLEAN
        PROVE  [try[j] EXCEPT !.pc = "writes", !.back = back, !.todo = todo] \in Tries
    BY DEF Tries
  <2>5. ASSUME NEW out \in {"pending", "label_not_set"} PROVE [try[j] EXCEPT !.pc = out] \in Tries
    BY DEF Tries
  <2>6. CASE \E out \in {"pending", "label_not_set"} : TryGoes(j, [try[j] EXCEPT !.pc = out])
    BY <1>19, <2>5, <2>6 DEF TryReads, TryGoes, Trying
  <2>7. CASE ~\E out \in {"pending", "label_not_set"} : TryGoes(j, [try[j] EXCEPT !.pc = out])
    <3> DEFINE todo == Removals({label \in onIssue : Accounts(try[j], label)}) \o IF j \in onIssue THEN <<>> ELSE Adds(j)
    <3>1. TryGoes(j, [try[j] EXCEPT !.pc = "writes", !.back = j \in onIssue, !.todo = todo])
      BY <1>19, <2>7 DEF TryReads
    <3>2. todo \in Seq(Calls)
      BY <2>1, <2>3
    <3>3. (j \in onIssue) \in BOOLEAN
      OBVIOUS
    <3> HIDE DEF todo
    <3>4. [try[j] EXCEPT !.pc = "writes", !.back = j \in onIssue, !.todo = todo] \in Tries
      BY <2>4, <3>2, <3>3
    <3>5. QED
      BY <1>19, <3>1, <3>4 DEF TryReads, TryGoes, Trying
  <2>8. QED
    BY <2>6, <2>7
<1>20. ASSUME NEW j \in Job, TryWrites(j) PROVE Types'
  <2>1. try[j] \in Tries /\ try[j].todo \in Seq(Calls) /\ try[j].todo # <<>>
    BY <1>20 DEF TryWrites, Tries
  <2>2. Head(try[j].todo) \in Calls /\ Tail(try[j].todo) \in Seq(Calls)
    BY <2>1, HeadAndTail
  <2>3. PICK next : try' = [try EXCEPT ![j] = next] /\ next \in Tries
    <3>1. try[j].wrote \cup {Head(try[j].todo).label} \in SUBSET AnyLabel
      BY <2>1, <2>2 DEF Tries, Calls
    <3>2. (try[j].back \/ Head(try[j].todo).op = "add") \in BOOLEAN
      OBVIOUS
    <3>3. \A wrote \in SUBSET AnyLabel, back \in BOOLEAN :
            [[try[j] EXCEPT !.todo = Tail(@)] EXCEPT !.wrote = wrote, !.back = back] \in Tries
      BY <2>1, <2>2 DEF Tries
    <3>4. [[try[j] EXCEPT !.todo = Tail(@)] EXCEPT !.kept = TRUE] \in Tries
      BY <2>1, <2>2 DEF Tries
    <3>5. [try[j] EXCEPT !.pc = "label_not_set"] \in Tries /\ [try[j] EXCEPT !.pc = "pending"] \in Tries
      BY <2>1 DEF Tries
    <3>6. \/ \E wrote \in SUBSET AnyLabel, back \in BOOLEAN :
               try' = [try EXCEPT ![j] = [[try[j] EXCEPT !.todo = Tail(@)] EXCEPT !.wrote = wrote, !.back = back]]
          \/ try' = [try EXCEPT ![j] = [[try[j] EXCEPT !.todo = Tail(@)] EXCEPT !.kept = TRUE]]
          \/ try' = [try EXCEPT ![j] = [try[j] EXCEPT !.pc = "label_not_set"]]
          \/ try' = [try EXCEPT ![j] = [try[j] EXCEPT !.pc = "pending"]]
      <4> DEFINE wrote == try[j].wrote \cup {Head(try[j].todo).label}
                 back == try[j].back \/ Head(try[j].todo).op = "add"
                 on == [try[j] EXCEPT !.todo = Tail(@)]
      <4>1. on.wrote = try[j].wrote /\ on.back = try[j].back
        BY <2>1 DEF Tries
      <4>2. \/ TryGoes(j, [on EXCEPT !.wrote = wrote, !.back = back])
            \/ TryGoes(j, [on EXCEPT !.kept = TRUE])
            \/ TryGoes(j, [try[j] EXCEPT !.pc = "label_not_set"])
            \/ TryGoes(j, [try[j] EXCEPT !.pc = "pending"])
        BY <1>20, <4>1 DEF TryWrites
      <4>3. QED
        BY <3>1, <3>2, <4>2 DEF TryGoes
    <3>7. QED
      BY <3>3, <3>4, <3>5, <3>6
  <2>4. onIssue' \subseteq AnyLabel
    BY <1>20, <2>2 DEF TryWrites, Put, Calls
  <2>5. QED
    BY <1>20, <2>3, <2>4 DEF TryWrites, Trying
<1>21. ASSUME NEW j \in Job, TryIsThrough(j) PROVE Types'
  <2>1. PICK out \in {"label_not_set", "done"} : try' = [try EXCEPT ![j] = [try[j] EXCEPT !.pc = out]]
    BY <1>21 DEF TryIsThrough, TryGoes
  <2>2. try' \in [Job -> Tries]
    BY <2>1 DEF Tries
  <2>3. QED
    BY <1>21, <2>2 DEF TryIsThrough, Trying
<1>22. ASSUME NEW j \in Job, TryEnds(j) PROVE Types'
  <2>1. try[j].pc \in {"pending", "done", "label_not_set"} /\ j \in AnyLabel
    BY <1>22 DEF TryEnds, AnyLabel, Labels
  <2>2. job' = job \/ \E set \in SUBSET AnyLabel :
          job' = [job EXCEPT ![j] = [job[j] EXCEPT !.cleanup = try[j].pc, !.set = set]]
    <3>1. job[j].set \in SUBSET AnyLabel /\ try[j].wrote \cap {j} \in SUBSET AnyLabel
      BY <2>1 DEF States
    <3>2. QED
      BY <1>22, <3>1 DEF TryEnds
  <2>3. ASSUME NEW set \in SUBSET AnyLabel PROVE [job[j] EXCEPT !.cleanup = try[j].pc, !.set = set] \in States
    BY <2>1 DEF States
  <2>4. job' \in [Job -> States]
    BY <2>2, <2>3
  <2>5. QED
    BY <1>22, <2>4, NoRunTyped DEF TryEnds, TryGoes, forge, bounds
<1>23. ASSUME NEW j \in Job, Abandons(j) PROVE Types'
  BY <1>23 DEF Abandons, forge, States
<1>24. CASE UNCHANGED vars
  BY <1>24 DEF vars, forge
<1>25. QED
  BY <1>2, <1>3, <1>4, <1>5, <1>6, <1>7, <1>8, <1>9, <1>10, <1>11, <1>12, <1>13, <1>14, <1>15, <1>16, <1>17, <1>18, <1>19,
     <1>20, <1>21, <1>22, <1>23, <1>24 DEF Next, Delivery, Cleanup
-----------------------------------------------------------------------------
(* What each step does to what the invariants speak of. *)

RunTo(j, pc, stop, how, session) ==
  run'.job = j /\ run'.pc = pc /\ run'.stop = stop /\ run'.how = how /\ run'.session = session
RunGoes(pc) == RunTo(run.job, pc, run.stop, run.how, run.session)
RunnerOnly == UNCHANGED <<job, up, try>>
JobTo(j, state, att, session, cleanup) ==
  /\ job'[j].state = state /\ job'[j].att = att /\ job'[j].session = session /\ job'[j].cleanup = cleanup
  /\ \A k \in Job \ {j} : job'[k] = job[k]
TryTo(j, pc) == try'[j].pc = pc /\ \A k \in Job \ {j} : try'[k] = try[k]

(* A stage of a delivery that writes nothing. *)
Stage(from, to) ==
  /\ run.pc = from /\ RunGoes(to) /\ run'.todo = run.todo /\ (to # "return" => Marks(run') = Marks(run))
  /\ RunnerOnly /\ UNCHANGED <<onIssue, comments>>

LEMMA StagesDo ==
  ASSUME Types
  PROVE  /\ Resolve => run.pc = "resolve" /\ RunGoes("session") /\ run'.todo = run.todo /\ RunnerOnly
                       /\ UNCHANGED <<onIssue, comments, excused>>
         /\ Marked => Stage("mark", "clone") /\ run.todo = <<>> /\ UNCHANGED excused
         /\ Prepare => Stage("clone", "loop") /\ UNCHANGED excused
         /\ LoopEnds => Stage("loop", "finish") /\ UNCHANGED excused
         /\ StageFails => \E from \in {"resolve", "session", "clone", "loop"} :
              /\ Stage(from, "finish")
              /\ IF ~run.session /\ "in-progress" \in onIssue THEN Excuse(run.job, "refused") ELSE UNCHANGED excused
         /\ Panics => \E from \in {"clone", "loop"} : Stage(from, "return") /\ Excuse(run.job, "panic")
         /\ Mirrored => Stage("mirror", "return") /\ run.todo = <<>> /\ UNCHANGED excused
<1> USE DEF Types, RunGoes, RunTo, RunnerOnly, Stage, Here, forge, Goes, EndsWith
<1>1. ASSUME Resolve PROVE run.pc = "resolve" /\ RunGoes("session") /\ run'.todo = run.todo /\ RunnerOnly
                       /\ UNCHANGED <<onIssue, comments, excused>>
  BY <1>1 DEF Resolve, Runs
<1>2. ASSUME NEW to \in Stages, run' = [run EXCEPT !.pc = to]
      PROVE  RunGoes(to) /\ run'.todo = run.todo /\ Marks(run') = Marks(run)
  BY <1>2 DEF Runs, Marks
<1>3. ASSUME NEW to \in Stages, NEW out, run' = [run EXCEPT !.pc = to, !.out = out]
      PROVE  RunGoes(to) /\ run'.todo = run.todo /\ Marks(run') = Marks(run)
  BY <1>3 DEF Runs, Marks
<1>4. Marked => Stage("mark", "clone") /\ run.todo = <<>> /\ UNCHANGED excused
  BY <1>2 DEF Marked, Stages
<1>5. Prepare => Stage("clone", "loop") /\ UNCHANGED excused
  BY <1>2 DEF Prepare, Stages
<1>6. LoopEnds => Stage("loop", "finish") /\ UNCHANGED excused
  BY <1>3 DEF LoopEnds, Stages
<1>7. ASSUME StageFails
      PROVE \E from \in {"resolve", "session", "clone", "loop"} :
              /\ Stage(from, "finish")
              /\ IF ~run.session /\ "in-progress" \in onIssue THEN Excuse(run.job, "refused") ELSE UNCHANGED excused
  <2>1. PICK out : EndsWith(out)
    BY <1>7 DEF StageFails
  <2>2. RunGoes("finish") /\ run'.todo = run.todo /\ Marks(run') = Marks(run)
    BY <1>3, <2>1 DEF Stages
  <2>3. Stage(run.pc, "finish")
    BY <1>7, <2>2 DEF StageFails
  <2>4. QED
    BY <1>7, <2>3 DEF StageFails
<1>8. ASSUME Panics PROVE \E from \in {"clone", "loop"} : Stage(from, "return") /\ Excuse(run.job, "panic")
  <2>1. RunGoes("return") /\ run'.todo = run.todo
    BY <1>3, <1>8 DEF Panics, Stages
  <2>2. Stage(run.pc, "return")
    BY <1>8, <2>1 DEF Panics
  <2>3. QED
    BY <1>8, <2>2 DEF Panics
<1>9. ASSUME Mirrored PROVE Stage("mirror", "return") /\ run.todo = <<>> /\ UNCHANGED excused
  BY <1>9 DEF Mirrored, Runs
<1>10. QED
  BY <1>1, <1>4, <1>5, <1>6, <1>7, <1>8, <1>9

LEMMA OpenSessionDoes ==
  ASSUME Types, OneRun, OpenSession
  PROVE  /\ run.pc = "session" /\ run.job \in Job /\ RunTo(run.job, "mark", run.stop, run.how, TRUE)
         /\ Owed(run'.todo, Write("add", "in-progress")) /\ ~Owed(Tail(run'.todo), Write("add", "in-progress"))
         /\ ~Owed(run'.todo, Write("remove", "in-progress"))
         /\ \A call : Owed(run'.todo, call) /\ call.op = "remove" => call.label \in Statuses
         /\ \E session \in BOOLEAN :
              (job[run.job].session => session) /\ JobTo(run.job, job[run.job].state, job[run.job].att, session, job[run.job].cleanup)
         /\ UNCHANGED <<up, try, onIssue, comments, excused>>
<1> DEFINE r == [run EXCEPT !.pc = "mark", !.session = TRUE]
<1>1. run.pc = "session" /\ run.job \in Job
  BY DEF OpenSession, OneRun, Types, Runs
<1>2. /\ r \in Runs /\ r.job = run.job /\ r.pc = "mark" /\ r.stop = run.stop /\ r.how = run.how /\ r.session = TRUE
  BY DEF Types, Runs, Stages
<1>3. run' = [r EXCEPT !.todo = SetStatus(r, "in-progress")]
  BY DEF OpenSession
<1> HIDE DEF r
<1>4. RunTo(run.job, "mark", run.stop, run.how, TRUE) /\ run'.todo = SetStatus(r, "in-progress")
  BY <1>2, <1>3 DEF Runs, RunTo
<1>5. /\ Owed(SetStatus(r, "in-progress"), Write("add", "in-progress"))
      /\ \A call : Owed(SetStatus(r, "in-progress"), call) =>
           call = Write("add", "in-progress") \/ \E label \in Statuses \ {"in-progress"} : call = Write("remove", label)
      /\ \A call : Owed(Tail(SetStatus(r, "in-progress")), call) =>
           \E label \in Statuses \ {"in-progress"} : call = Write("remove", label)
  BY SetStatusOwed DEF Statuses
<1>6. PICK session \in BOOLEAN :
        (job[run.job].session => session) /\ job' = [job EXCEPT ![run.job] = [job[run.job] EXCEPT !.session = session]]
  BY <1>1 DEF OpenSession, Running, Types
<1>7. job[run.job] \in States
  BY <1>1 DEF Types
<1>8. JobTo(run.job, job[run.job].state, job[run.job].att, session, job[run.job].cleanup)
  BY <1>1, <1>6, <1>7 DEF Types, States, JobTo
<1>16. \E kept \in BOOLEAN :
        (job[run.job].session => kept) /\ JobTo(run.job, job[run.job].state, job[run.job].att, kept, job[run.job].cleanup)
  BY <1>6, <1>8
<1>9. UNCHANGED <<up, try, onIssue, comments, excused>>
  BY DEF OpenSession, forge, bounds
<1>10. \A label : Write("remove", label).label = label /\ Write("add", label).op = "add"
  BY DEF Write
<1>11. \A call : Owed(run'.todo, call) /\ call.op = "remove" => call.label \in Statuses
  BY <1>4, <1>5, <1>10
<1>12. \A label \in Statuses \ {"in-progress"} :
         Write("remove", label) # Write("remove", "in-progress") /\ Write("remove", label) # Write("add", "in-progress")
  BY OneWrite
<1>13. Write("add", "in-progress") # Write("remove", "in-progress")
  BY OneWrite
<1>14. ~Owed(Tail(run'.todo), Write("add", "in-progress")) /\ ~Owed(run'.todo, Write("remove", "in-progress"))
  BY <1>4, <1>5, <1>12, <1>13
<1>15. QED
  BY <1>1, <1>4, <1>5, <1>9, <1>11, <1>14, <1>16

(* One write: of the head of what is to be written, if it is not lost. *)
LEMMA WritesDo ==
  ASSUME Types, OneRun, Writes
  PROVE  /\ run.pc \in {"mark", "mirror"} /\ run.todo # <<>> /\ run.job \in Job
         /\ RunGoes(run.pc) /\ RunnerOnly
         /\ Head(run.todo) \in Calls
         /\ UNCHANGED onIssue \/ Put(Head(run.todo))
         /\ run'.todo \in {<<>>, Tail(run.todo)}
         /\ \/ \E why \in {"write", "list"} : Excuse(run.job, why)
            \/ /\ UNCHANGED excused /\ Put(Head(run.todo)) /\ run'.todo = Tail(run.todo)
               /\ Head(run.todo) = Write("add", "in-progress") /\ run.session => Marks(run')
               /\ Head(run.todo) # Write("remove", "in-progress") /\ Marks(run) => Marks(run')
         /\ \A j \in Job : comments'[j] = comments[j] \/ comments'[j] = 1 \/ Excuse(j, "list")
<1>1. run.pc \in {"mark", "mirror"} /\ run.todo # <<>> /\ run.job \in Job /\ run \in Runs
  BY DEF Writes, OneRun, Types, Runs
<1>2. Head(run.todo) \in Calls
  BY <1>1, HeadAndTail DEF Runs
<1>3. \E ok \in BOOLEAN : run' = After(run, Head(run.todo), ok)
  BY DEF Writes, WriteDone, WriteFails, ListFails
<1>4. RunGoes(run.pc) /\ run'.todo \in {<<>>, Tail(run.todo)}
  BY <1>1, <1>3, AfterFields DEF RunGoes, RunTo
<1>5. UNCHANGED onIssue \/ Put(Head(run.todo))
  BY DEF Writes, WriteDone, WriteFails, ListFails
<1>6. ASSUME WriteDone
      PROVE  /\ UNCHANGED excused /\ Put(Head(run.todo)) /\ run'.todo = Tail(run.todo)
             /\ Head(run.todo) = Write("add", "in-progress") /\ run.session => Marks(run')
             /\ Head(run.todo) # Write("remove", "in-progress") /\ Marks(run) => Marks(run')
  BY <1>1, <1>6, AfterFields DEF WriteDone, Marks
<1>7. ASSUME WriteFails \/ ListFails PROVE \E why \in {"write", "list"} : Excuse(run.job, why)
  BY <1>7 DEF WriteFails, ListFails
<1>8. ASSUME NEW j \in Job PROVE comments'[j] = comments[j] \/ comments'[j] = 1 \/ Excuse(j, "list")
  <2>1. CASE ListFails
    BY <1>1, <2>1 DEF ListFails, Types
  <2>2. CASE WriteDone \/ WriteFails
    <3>1. comments' = comments \/ (comments[run.job] = 0 /\ comments' = [comments EXCEPT ![run.job] = @ + 1])
      BY <1>1, <2>2 DEF WriteDone, WriteFails, Comments, Posts
    <3>2. comments' = comments \/ comments' = [comments EXCEPT ![run.job] = 1]
      BY <1>1, <3>1 DEF Types
    <3>3. QED
      BY <1>1, <3>2 DEF Types
  <2>3. QED
    BY <2>1, <2>2 DEF Writes
<1>9. RunnerOnly
  BY DEF Writes, RunnerOnly
<1>10. QED
  BY <1>1, <1>2, <1>4, <1>5, <1>6, <1>7, <1>8, <1>9 DEF Writes

LEMMA FinishDoes ==
  ASSUME WorkerAssumption, Types, OneRun, Finish
  PROVE  /\ run.pc = "finish" /\ run.job \in Job /\ RunTo(run.job, "mirror", run.stop, run.stop, run.session)
         /\ \A call : Owed(run'.todo, call) =>
              \/ call = Write("comment", "none")
              \/ \E label \in Labels \ {"in-progress"} : call = Write("add", label)
              \/ \E label \in Statuses : call = Write("remove", label)
         /\ run.stop # "shutdown" /\ Marks(run) => Owed(run'.todo, Write("remove", "in-progress"))
         /\ run.session /\ run.stop = "cancel" => Owed(run'.todo, Write("add", run.job))
         /\ RunnerOnly /\ UNCHANGED <<onIssue, comments, excused>>
<1> DEFINE r == [run EXCEPT !.pc = "mirror", !.how = run.stop]
<1>1. run.pc = "finish" /\ run.job \in Job
  BY DEF Finish, OneRun, Types, Runs
<1>2. /\ r \in Runs /\ r.job = run.job /\ r.pc = "mirror" /\ r.stop = run.stop /\ r.how = run.stop /\ r.session = run.session
      /\ Marks(run) => r.session /\ r.marked /\ "in-progress" \in r.known
  BY DEF Types, Runs, Stages, Marks
<1>3. run' = [r EXCEPT !.todo = Mirror(r)]
  BY DEF Finish
<1> HIDE DEF r
<1>4. RunTo(run.job, "mirror", run.stop, run.stop, run.session) /\ run'.todo = Mirror(r)
  BY <1>2, <1>3 DEF Runs, RunTo
<1>5. RunnerOnly /\ UNCHANGED <<onIssue, comments, excused>>
  BY DEF Finish, Here, forge, RunnerOnly
<1>6. QED
  BY <1>1, <1>2, <1>4, <1>5, MirrorOwed

(* What an attempt of a cancelled job comes to when it ends. *)
Owing(d) == IF d.cleanup = "no" /\ ~d.session THEN "pending" ELSE d.cleanup
AttemptEnds(j) == JobTo(j, job[j].state, "ended", job[j].session, Owing(job[j]))

LEMMA ReturnsDo ==
  ASSUME Types, OneRun, Returns
  PROVE  /\ run.pc = "return" /\ run.job \in Job /\ RunTo(NoJob, "none", "no", "no", FALSE) /\ run'.todo = <<>>
         /\ \/ (~Running(run.job) \/ run.how = "shutdown") /\ UNCHANGED job
            \/ Running(run.job) /\ run.how # "shutdown" /\ job[run.job].state = "cancelled" /\ AttemptEnds(run.job)
            \/ /\ Running(run.job) /\ run.how # "shutdown" /\ job[run.job].state # "cancelled"
               /\ \E state \in {"queued", "blocked", "done", "failed"}, att \in {"queued", "ended"}, session \in BOOLEAN :
                    JobTo(run.job, state, att, session, job[run.job].cleanup)
         /\ \A j \in Job : comments'[j] \in {comments[j], 0}
         /\ UNCHANGED <<up, try, onIssue, excused>>
<1> DEFINE d == job[run.job]
<1>1. run.pc = "return" /\ run.job \in Job /\ run \in Runs /\ d \in States
  BY DEF Returns, OneRun, Types, Runs
<1>2. RunTo(NoJob, "none", "no", "no", FALSE) /\ run'.todo = <<>>
  BY NoRunTyped DEF Returns, RunTo, Runs
<1>3. \A j \in Job : comments'[j] \in {comments[j], 0}
  BY <1>1 DEF Returns, Types
<1>4. UNCHANGED <<up, try, onIssue, excused>>
  BY DEF Returns, bounds
<1>5. job' = [job EXCEPT ![run.job] =
         IF ~Running(run.job) \/ run.how = "shutdown" THEN d
         ELSE IF d.state = "cancelled" THEN EndCancelled(d, run)
         ELSE Ruling(Stores(d, run), run.out)]
  BY DEF Returns
<1> HIDE DEF d
<1>6. ASSUME NEW next \in States, job' = [job EXCEPT ![run.job] = next]
      PROVE  JobTo(run.job, next.state, next.att, next.session, next.cleanup)
  BY <1>1, <1>6 DEF Types, JobTo
<1>7. CASE ~Running(run.job) \/ run.how = "shutdown"
  BY <1>1, <1>2, <1>3, <1>4, <1>5, <1>7 DEF Types, d
<1>8. CASE Running(run.job) /\ run.how # "shutdown" /\ d.state = "cancelled"
  <2>1. job' = [job EXCEPT ![run.job] = EndCancelled(d, run)]
    BY <1>5, <1>8
  <2>2. JobTo(run.job, d.state, "ended", d.session, Owing(d))
    BY <1>1, <1>6, <2>1, EndCancelledFields DEF Owing
  <2>3. QED
    BY <1>1, <1>2, <1>3, <1>4, <1>8, <2>2 DEF d, AttemptEnds
<1>9. CASE Running(run.job) /\ run.how # "shutdown" /\ d.state # "cancelled"
  <2> DEFINE ruled == Ruling(Stores(d, run), run.out)
  <2>1. job' = [job EXCEPT ![run.job] = ruled]
    BY <1>5, <1>9
  <2>2. ruled \in States /\ ruled.state \in {"queued", "blocked", "done", "failed"} /\ ruled.cleanup = d.cleanup /\ ruled.att # "running"
    BY <1>1, RulingFields
  <2> HIDE DEF ruled
  <2>3. JobTo(run.job, ruled.state, ruled.att, ruled.session, d.cleanup)
    BY <1>6, <2>1, <2>2
  <2>4. ruled.att \in {"queued", "ended"} /\ ruled.session \in BOOLEAN
    BY <2>2 DEF States
  <2>5. \E state \in {"queued", "blocked", "done", "failed"}, att \in {"queued", "ended"}, session \in BOOLEAN :
          JobTo(run.job, state, att, session, d.cleanup)
    BY <2>2, <2>3, <2>4
  <2>6. QED
    BY <1>1, <1>2, <1>3, <1>4, <1>9, <2>5 DEF d
<1>10. QED
  BY <1>7, <1>8, <1>9

LEMMA DeliverDoes ==
  ASSUME Types, NEW j \in Job, Deliver(j)
  PROVE  /\ run.pc = "none" /\ job[j].state \in {"queued", "running"}
         /\ JobTo(j, "running", "running", FALSE, job[j].cleanup)
         /\ RunTo(j, "resolve", "no", "no", FALSE) /\ run'.todo = <<>>
         /\ UNCHANGED <<up, try, onIssue, comments, excused>>
<1>1. job' = [job EXCEPT ![j] = [job[j] EXCEPT !.state = "running", !.att = "running", !.session = FALSE]]
  BY DEF Deliver
<1>2. job[j] \in States
  BY DEF Types
<1>3. JobTo(j, "running", "running", FALSE, job[j].cleanup)
  BY <1>1, <1>2 DEF JobTo, States, Types
<1>4. RunTo(j, "resolve", "no", "no", FALSE) /\ run'.todo = <<>>
  BY NoRunTyped DEF Deliver, RunTo, Runs
<1>5. QED
  BY <1>3, <1>4 DEF Deliver, forge

LEMMA AsksAgainDoes ==
  ASSUME Types, NEW j \in Job, AsksAgain(j)
  PROVE  /\ job[j].state \in {"failed", "blocked"} /\ JobTo(j, "queued", "queued", FALSE, job[j].cleanup)
         /\ UNCHANGED <<up, run, try, onIssue, comments, excused>>
<1> DEFINE again == Requeued(job[j], 1)
<1>1. again.state = "queued" /\ again.att = "queued" /\ again.session = FALSE /\ again.cleanup = job[j].cleanup
  BY RequeuedFields DEF Types, States
<1>2. job' = [job EXCEPT ![j] = again]
  BY DEF AsksAgain
<1> HIDE DEF again
<1>3. QED
  BY <1>1, <1>2 DEF AsksAgain, JobTo, Types, forge, bounds

LEMMA CancelDoes ==
  ASSUME Types, NEW j \in Job, Cancel(j)
  PROVE  /\ up /\ Open(j)
         /\ JobTo(j, "cancelled", IF job[j].att = "running" THEN "running" ELSE "ended", job[j].session,
                  IF run.job # j THEN "pending" ELSE job[j].cleanup)
         /\ RunTo(run.job, run.pc, IF run.job = j /\ run.stop = "no" THEN "cancel" ELSE run.stop, run.how, run.session)
         /\ run'.todo = run.todo /\ Marks(run') = Marks(run)
         /\ IF run.job = j /\ run.pc \in {"mirror", "return"} THEN Excuse(j, "late") ELSE UNCHANGED excused
         /\ UNCHANGED <<up, try, onIssue, comments>>
<1>1. job[j] \in States
  BY DEF Types
<1>2. job' = [job EXCEPT ![j] = [job[j] EXCEPT !.state = "cancelled",
                !.att = IF job[j].att = "running" THEN "running" ELSE "ended",
                !.cleanup = IF run.job # j THEN "pending" ELSE job[j].cleanup]]
  BY <1>1 DEF Cancel, Types, States
<1>3. JobTo(j, "cancelled", IF job[j].att = "running" THEN "running" ELSE "ended", job[j].session,
                  IF run.job # j THEN "pending" ELSE job[j].cleanup)
  BY <1>1, <1>2 DEF JobTo, States, Types
<1>4. /\ RunTo(run.job, run.pc, IF run.job = j /\ run.stop = "no" THEN "cancel" ELSE run.stop, run.how, run.session)
      /\ run'.todo = run.todo /\ Marks(run') = Marks(run)
  BY DEF Cancel, RunTo, Types, Runs, Marks
<1>5. QED
  BY <1>3, <1>4 DEF Cancel, forge, bounds

LEMMA EndsUnattended ==
  ASSUME Types, NEW j \in Job, Overruns(j) \/ Reaps(j)
  PROVE  job[j].state = "cancelled" /\ Running(j) /\ AttemptEnds(j) /\ UNCHANGED <<up, run, try, onIssue, comments, excused>>
<1> DEFINE end == EndCancelled(job[j], NoRun)
<1>1. end.state = job[j].state /\ end.att = "ended" /\ end.session = job[j].session /\ end.cleanup = Owing(job[j])
  BY EndCancelledFields, NoRunTyped DEF Types, Owing
<1>2. job' = [job EXCEPT ![j] = end]
  BY DEF Overruns, Reaps
<1> HIDE DEF end
<1>3. QED
  BY <1>1, <1>2 DEF Overruns, Reaps, AttemptEnds, JobTo, Types, forge, bounds

LEMMA ShutsDownDoes ==
  ASSUME Types, ShutsDown
  PROVE  /\ up /\ ~up'
         /\ RunTo(run.job, run.pc, IF run.pc # "none" /\ run.stop = "no" THEN "shutdown" ELSE run.stop, run.how, run.session)
         /\ run'.todo = run.todo /\ Marks(run') = Marks(run)
         /\ UNCHANGED <<job, try, onIssue, comments, excused>>
<1>1. /\ RunTo(run.job, run.pc, IF run.pc # "none" /\ run.stop = "no" THEN "shutdown" ELSE run.stop, run.how, run.session)
      /\ run'.todo = run.todo /\ Marks(run') = Marks(run)
  BY DEF ShutsDown, RunTo, Types, Runs, Marks
<1>2. QED
  BY <1>1 DEF ShutsDown, forge

LEMMA RestartsDo ==
  ASSUME Types, Restarts
  PROVE  /\ up' /\ RunTo(NoJob, "none", "no", "no", FALSE) /\ run'.todo = <<>>
         /\ \A j \in Job : try'[j].pc = "none" /\ try'[j].todo = <<>>
         /\ IF run.session /\ job[run.job].state = "cancelled" THEN Excuse(run.job, "cut") ELSE UNCHANGED excused
         /\ UNCHANGED <<job, onIssue, comments>>
BY NoRunTyped DEF Restarts, RunTo, Runs, forge

LEMMA TryStartsDoes ==
  ASSUME Types, NEW j \in Job, TryStarts(j)
  PROVE  /\ job[j].cleanup = "pending" /\ try[j].pc = "none" /\ run.job # j
         /\ TryTo(j, "issue") /\ try'[j].todo = <<>>
         /\ try'[j].running => \E k \in Job \ {j} : job[k].state = "running"
         /\ UNCHANGED <<job, up, run, onIssue, comments, excused>>
<1> DEFINE others == {k \in Job \ {j} : Open(k)}
           owes == UNION {job[k].set : k \in others}
           running == \E k \in others : job[k].state = "running"
<1>1. try' = [try EXCEPT ![j] = [NoTry EXCEPT !.pc = "issue", !.set = job[j].set, !.others = owes, !.running = running]]
  BY DEF TryStarts, TryGoes
<1>2. running => \E k \in Job \ {j} : job[k].state = "running"
  OBVIOUS
<1> HIDE DEF owes, running
<1>3. TryTo(j, "issue") /\ try'[j].todo = <<>> /\ try'[j].running = running
  BY <1>1, NoRunTyped DEF TryTo, Tries, Types
<1>4. QED
  BY <1>2, <1>3 DEF TryStarts, Trying

LEMMA TryReadsDoes ==
  ASSUME Types, NEW j \in Job, TryReads(j)
  PROVE  /\ try[j].pc = "issue"
         /\ \/ /\ TryTo(j, "writes")
               /\ j \in onIssue \/ Owed(try'[j].todo, Write("add", j))
               /\ ~try[j].running /\ "in-progress" \in onIssue => Owed(try'[j].todo, Write("remove", "in-progress"))
               /\ \A call : Owed(try'[j].todo, call) =>
                    call = Write("add", j) \/ \E label \in Statuses : call = Write("remove", label)
            \/ (TryTo(j, "pending") \/ TryTo(j, "label_not_set")) /\ try'[j].todo = try[j].todo
         /\ UNCHANGED <<job, up, run, onIssue, comments, excused>>
<1> DEFINE t == try[j]
           gone == {label \in onIssue : Accounts(t, label)}
           off == Removals(gone)
           on == IF j \in onIssue THEN <<>> ELSE Adds(j)
<1>1. t \in Tries /\ t.pc = "issue"
  BY DEF TryReads, Types
<1>2. /\ off \in Seq(Calls)
      /\ \A call : Owed(off, call) <=> \E label \in Statuses \cap gone : call = Write("remove", label)
  BY RemovalsOwed
<1>3. ~t.running /\ "in-progress" \in onIssue => "in-progress" \in Statuses \cap gone
  BY DEF Accounts, Statuses
<1>4. Write("add", j) \in Calls
  BY WritesAreCalls DEF AnyLabel, Labels
<1>5. /\ on \in Seq(Calls)
      /\ \A call : Owed(on, call) <=> j \notin onIssue /\ call = Write("add", j)
  BY <1>4, NoneOwed, OneOwed DEF Adds
<1> HIDE DEF gone, off, on
<1>6. off \o on \in Seq(Calls) /\ \A call : Owed(off \o on, call) <=> Owed(off, call) \/ Owed(on, call)
  BY <1>2, <1>5, BothOwed
<1>7. UNCHANGED <<job, up, run, onIssue, comments, excused>>
  BY DEF TryReads, Trying
<1>8. CASE TryGoes(j, [t EXCEPT !.pc = "writes", !.back = j \in onIssue, !.todo = off \o on])
  <2>1. TryTo(j, "writes") /\ try'[j].todo = off \o on
    BY <1>1, <1>8 DEF TryGoes, TryTo, Tries, Types
  <2>2. QED
    BY <1>1, <1>2, <1>3, <1>5, <1>6, <1>7, <2>1
<1>9. ASSUME NEW out \in {"pending", "label_not_set"}, TryGoes(j, [t EXCEPT !.pc = out])
      PROVE  TryTo(j, out) /\ try'[j].todo = t.todo
  BY <1>1, <1>9 DEF TryGoes, TryTo, Tries, Types
<1>10. CASE \E out \in {"pending", "label_not_set"} : TryGoes(j, [t EXCEPT !.pc = out])
  BY <1>1, <1>7, <1>9, <1>10
<1>11. QED
  BY <1>8, <1>10 DEF TryReads, off, gone, on

LEMMA TryWritesDoes ==
  ASSUME Types, NEW j \in Job, TryWrites(j)
  PROVE  LET call == Head(try[j].todo) IN
         /\ try[j].pc = "writes" /\ try[j].todo # <<>> /\ call \in Calls
         /\ \/ Put(call) /\ TryTo(j, "writes") /\ try'[j].todo = Tail(try[j].todo) /\ try'[j].kept = try[j].kept
            \/ UNCHANGED onIssue /\ call.op # "add" /\ TryTo(j, "writes") /\ try'[j].todo = Tail(try[j].todo) /\ try'[j].kept
            \/ UNCHANGED onIssue /\ TryTo(j, "label_not_set") /\ try'[j].todo = try[j].todo
            \/ (Put(call) \/ UNCHANGED onIssue) /\ TryTo(j, "pending") /\ try'[j].todo = try[j].todo
         /\ UNCHANGED <<job, up, run, comments, excused>>
<1> DEFINE t == try[j]
           call == Head(t.todo)
           on == [t EXCEPT !.todo = Tail(@)]
           wrote == on.wrote \cup {call.label}
           back == on.back \/ call.op = "add"
<1>1. t \in Tries /\ t.pc = "writes" /\ t.todo # <<>> /\ t.todo \in Seq(Calls)
  BY DEF TryWrites, Types, Tries
<1>2. call \in Calls /\ Tail(t.todo) \in Seq(Calls)
  BY <1>1, HeadAndTail
<1>3. UNCHANGED <<job, up, run, comments, excused>>
  BY DEF TryWrites, Trying
<1>4. on \in Tries /\ on.pc = "writes" /\ on.todo = Tail(t.todo) /\ on.kept = t.kept
  BY <1>1, <1>2 DEF Tries
<1>5. \/ Put(call) /\ TryGoes(j, [on EXCEPT !.wrote = wrote, !.back = back])
      \/ UNCHANGED onIssue /\ call.op = "add" /\ TryGoes(j, [t EXCEPT !.pc = "label_not_set"])
      \/ UNCHANGED onIssue /\ call.op # "add" /\ TryGoes(j, [on EXCEPT !.kept = TRUE])
      \/ (Put(call) \/ UNCHANGED onIssue) /\ TryGoes(j, [t EXCEPT !.pc = "pending"])
  BY DEF TryWrites
<1> HIDE DEF on, wrote, back, call
<1>6. ASSUME TryGoes(j, [on EXCEPT !.wrote = wrote, !.back = back])
      PROVE  TryTo(j, "writes") /\ try'[j].todo = Tail(t.todo) /\ try'[j].kept = t.kept
  BY <1>4, <1>6 DEF TryGoes, TryTo, Tries, Types
<1>7. ASSUME TryGoes(j, [on EXCEPT !.kept = TRUE])
      PROVE  TryTo(j, "writes") /\ try'[j].todo = Tail(t.todo) /\ try'[j].kept
  BY <1>4, <1>7 DEF TryGoes, TryTo, Tries, Types
<1>8. ASSUME NEW out \in {"label_not_set", "pending"}, TryGoes(j, [t EXCEPT !.pc = out])
      PROVE  TryTo(j, out) /\ try'[j].todo = t.todo
  BY <1>1, <1>8 DEF TryGoes, TryTo, Tries, Types
<1>9. \/ Put(call) /\ TryTo(j, "writes") /\ try'[j].todo = Tail(t.todo) /\ try'[j].kept = t.kept
      \/ UNCHANGED onIssue /\ call.op # "add" /\ TryTo(j, "writes") /\ try'[j].todo = Tail(t.todo) /\ try'[j].kept
      \/ UNCHANGED onIssue /\ TryTo(j, "label_not_set") /\ try'[j].todo = t.todo
      \/ (Put(call) \/ UNCHANGED onIssue) /\ TryTo(j, "pending") /\ try'[j].todo = t.todo
  BY <1>5, <1>6, <1>7, <1>8
<1>10. QED
  BY <1>1, <1>2, <1>3, <1>9 DEF call

LEMMA TryIsThroughDoes ==
  ASSUME Types, NEW j \in Job, TryIsThrough(j)
  PROVE  /\ try[j].pc = "writes" /\ try[j].todo = <<>>
         /\ TryTo(j, IF try[j].kept THEN "label_not_set" ELSE "done") /\ try'[j].todo = <<>>
         /\ UNCHANGED <<job, up, run, onIssue, comments, excused>>
<1>1. try[j] \in Tries
  BY DEF Types
<1>2. TryTo(j, IF try[j].kept THEN "label_not_set" ELSE "done") /\ try'[j].todo = try[j].todo
  BY <1>1 DEF TryIsThrough, TryGoes, TryTo, Tries, Types
<1>3. QED
  BY <1>2 DEF TryIsThrough, Trying

LEMMA TryEndsDoes ==
  ASSUME Types, NEW j \in Job, TryEnds(j)
  PROVE  /\ try[j].pc \in {"pending", "done", "label_not_set"}
         /\ TryTo(j, "none") /\ try'[j].todo = <<>>
         /\ \/ UNCHANGED job
            \/ /\ job[j].cleanup = "pending" /\ try[j].pc # "pending"
               /\ JobTo(j, job[j].state, job[j].att, job[j].session, try[j].pc)
         /\ UNCHANGED <<up, run, onIssue, comments, excused>>
<1> DEFINE set == IF try[j].wrote = {} THEN job[j].set ELSE try[j].wrote \cap {j}
<1>1. job[j] \in States
  BY DEF Types
<1>2. TryTo(j, "none") /\ try'[j].todo = <<>>
  BY NoRunTyped DEF TryEnds, TryGoes, TryTo, Types
<1>3. \/ UNCHANGED job
      \/ /\ job[j].cleanup = "pending" /\ try[j].pc # "pending"
         /\ job' = [job EXCEPT ![j] = [job[j] EXCEPT !.cleanup = try[j].pc, !.set = set]]
  BY <1>1 DEF TryEnds, Types, States
<1> HIDE DEF set
<1>4. ASSUME job' = [job EXCEPT ![j] = [job[j] EXCEPT !.cleanup = try[j].pc, !.set = set]]
      PROVE  JobTo(j, job[j].state, job[j].att, job[j].session, try[j].pc)
  BY <1>1, <1>4 DEF JobTo, Types, States
<1>5. QED
  BY <1>2, <1>3, <1>4 DEF TryEnds, forge, bounds

LEMMA AbandonsDoes ==
  ASSUME Types, NEW j \in Job, Abandons(j)
  PROVE  /\ job[j].cleanup = "pending" /\ try[j].pc = "none" /\ run.job # j
         /\ JobTo(j, job[j].state, job[j].att, job[j].session, "label_not_set")
         /\ UNCHANGED <<up, run, try, onIssue, comments, excused>>
<1>1. job[j] \in States
  BY DEF Types
<1>2. JobTo(j, job[j].state, job[j].att, job[j].session, "label_not_set")
  BY <1>1 DEF Abandons, JobTo, Types, States
<1>3. QED
  BY <1>2 DEF Abandons, forge

-----------------------------------------------------------------------------
(* The jobs layer and the runner keep each other: the job in the runner is its own, and a cleanup is of a cancelled job. *)
LEMMA LifeStep ==
  ASSUME WorkerAssumption, Types, Types', OneRun, CleanupOfCancel, [Next]_vars
  PROVE  OneRun' /\ CleanupOfCancel'
<1> USE DEF OneRun, InRunner, CleanupOfCancel, CleansUp
<1>0. /\ NoJob \notin Job /\ run.job \in Job \cup {NoJob} /\ up \in BOOLEAN /\ run.stop \in {"no", "cancel", "shutdown"}
      /\ \A j \in Job : job[j].cleanup \in {"no", "pending", "done", "label_not_set"}
                      /\ job[j].session \in BOOLEAN /\ job[j].att \in {"queued", "running", "ended"}
  BY DEF WorkerAssumption, NoJob, Types, Runs, States, Stops
<1>1. CASE Resolve \/ Marked \/ Prepare \/ LoopEnds \/ StageFails \/ Panics \/ Mirrored
  BY <1>1, <1>0, StagesDo DEF RunGoes, RunTo, RunnerOnly, Stage
<1>2. CASE OpenSession
  <2>1. PICK session \in BOOLEAN : (job[run.job].session => session)
          /\ JobTo(run.job, job[run.job].state, job[run.job].att, session, job[run.job].cleanup)
    BY <1>2, OpenSessionDoes
  <2>2. run.job \in Job /\ run.pc = "session" /\ RunTo(run.job, "mark", run.stop, run.how, TRUE) /\ UNCHANGED <<up, try>>
    BY <1>2, OpenSessionDoes
  <2>3. OneRun'
    BY <1>0, <2>1, <2>2 DEF RunTo, JobTo
  <2>4. CleanupOfCancel'
    BY <1>0, <2>1, <2>2 DEF RunTo, JobTo
  <2>5. QED
    BY <2>3, <2>4
<1>3. CASE Writes
  BY <1>3, <1>0, WritesDo DEF RunGoes, RunTo, RunnerOnly
<1>4. CASE Finish
  BY <1>4, <1>0, FinishDoes DEF RunTo, RunnerOnly
<1>5. CASE Returns
  <2>1. run.pc = "return" /\ run.job \in Job /\ RunTo(NoJob, "none", "no", "no", FALSE) /\ UNCHANGED <<up, try>>
    BY <1>5, ReturnsDo
  <2>2. OneRun'
    BY <1>0, <2>1 DEF RunTo
  <2>3. \E state, att, session, cleanup :
          /\ JobTo(run.job, state, att, session, cleanup)
          /\ cleanup # "no" => state = "cancelled"
          /\ state = "cancelled" => att # "queued"
    <3>1. CASE UNCHANGED job
      BY <2>1, <3>1 DEF JobTo
    <3>2. CASE job[run.job].state = "cancelled" /\ AttemptEnds(run.job)
      BY <2>1, <3>2 DEF AttemptEnds
    <3>3. CASE /\ job[run.job].state # "cancelled"
               /\ \E state \in {"queued", "blocked", "done", "failed"}, att \in {"queued", "ended"}, session \in BOOLEAN :
                    JobTo(run.job, state, att, session, job[run.job].cleanup)
      <4>1. job[run.job].cleanup = "no"
        BY <2>1, <3>3
      <4>2. QED
        BY <3>3, <4>1
    <3>4. QED
      BY <1>5, <3>1, <3>2, <3>3, ReturnsDo
  <2>4. CleanupOfCancel'
    BY <2>1, <2>3 DEF JobTo
  <2>5. QED
    BY <2>2, <2>4
<1>6. ASSUME NEW j \in Job, Deliver(j) PROVE OneRun' /\ CleanupOfCancel'
  <2>1. run.pc = "none" /\ job[j].state \in {"queued", "running"} /\ JobTo(j, "running", "running", FALSE, job[j].cleanup)
          /\ RunTo(j, "resolve", "no", "no", FALSE) /\ UNCHANGED <<up, try>>
    BY <1>6, DeliverDoes
  <2>2. run'.job = NoJob <=> run'.pc = "none"
    BY <1>0, <2>1 DEF RunTo
  <2>3. (run'.stop = "shutdown" => ~up') /\ (run'.how = "shutdown" => run'.stop = "shutdown")
    BY <1>0, <2>1 DEF RunTo
  <2>4. (run'.job = j => InRunner(j)') /\ CleansUp(j)'
    BY <1>0, <2>1 DEF RunTo, JobTo
  <2>5. ASSUME NEW k \in Job \ {j} PROVE (run'.job = k => InRunner(k)') /\ CleansUp(k)'
    BY <1>0, <2>1 DEF RunTo, JobTo
  <2>6. QED
    BY <2>2, <2>3, <2>4, <2>5
<1>7. ASSUME NEW j \in Job, AsksAgain(j) PROVE OneRun' /\ CleanupOfCancel'
  <2>1. job[j].state \in {"failed", "blocked"} /\ JobTo(j, "queued", "queued", FALSE, job[j].cleanup) /\ UNCHANGED <<up, run, try>>
    BY <1>7, AsksAgainDoes
  <2>2. run'.job = NoJob <=> run'.pc = "none"
    BY <1>0, <2>1 DEF RunTo
  <2>3. (run'.stop = "shutdown" => ~up') /\ (run'.how = "shutdown" => run'.stop = "shutdown")
    BY <1>0, <2>1 DEF RunTo
  <2>4. (run'.job = j => InRunner(j)') /\ CleansUp(j)'
    BY <1>0, <2>1 DEF JobTo
  <2>5. ASSUME NEW k \in Job \ {j} PROVE (run'.job = k => InRunner(k)') /\ CleansUp(k)'
    BY <1>0, <2>1 DEF JobTo
  <2>6. QED
    BY <2>2, <2>3, <2>4, <2>5
<1>8. ASSUME NEW j \in Job, Cancel(j) PROVE OneRun' /\ CleanupOfCancel'
  <2>1. /\ up /\ Open(j)
          /\ JobTo(j, "cancelled", IF job[j].att = "running" THEN "running" ELSE "ended", job[j].session,
                  IF run.job # j THEN "pending" ELSE job[j].cleanup)
          /\ RunTo(run.job, run.pc, IF run.job = j /\ run.stop = "no" THEN "cancel" ELSE run.stop, run.how, run.session)
          /\ UNCHANGED <<up, try>>
    BY <1>8, CancelDoes
  <2>2. run'.job = NoJob <=> run'.pc = "none"
    BY <1>0, <2>1 DEF RunTo
  <2>3. (run'.stop = "shutdown" => ~up') /\ (run'.how = "shutdown" => run'.stop = "shutdown")
    BY <1>0, <2>1 DEF RunTo
  <2>4. (run'.job = j => InRunner(j)') /\ CleansUp(j)'
    BY <1>0, <2>1 DEF RunTo, JobTo, Open
  <2>5. ASSUME NEW k \in Job \ {j} PROVE (run'.job = k => InRunner(k)') /\ CleansUp(k)'
    BY <1>0, <2>1 DEF RunTo, JobTo, Open
  <2>6. QED
    BY <2>2, <2>3, <2>4, <2>5
<1>9. ASSUME NEW j \in Job, Overruns(j) \/ Reaps(j) PROVE OneRun' /\ CleanupOfCancel'
  BY <1>9, <1>0, EndsUnattended DEF JobTo, AttemptEnds, Owing, Running
<1>10. CASE ShutsDown
  BY <1>10, <1>0, ShutsDownDoes DEF RunTo
<1>11. CASE Restarts
  BY <1>11, <1>0, RestartsDo DEF RunTo
<1>12. ASSUME NEW j \in Job, TryStarts(j) PROVE OneRun' /\ CleanupOfCancel'
  BY <1>12, <1>0, TryStartsDoes DEF TryTo
<1>13. ASSUME NEW j \in Job, TryReads(j) PROVE OneRun' /\ CleanupOfCancel'
  BY <1>13, <1>0, TryReadsDoes DEF TryTo
<1>14. ASSUME NEW j \in Job, TryWrites(j) PROVE OneRun' /\ CleanupOfCancel'
  BY <1>14, <1>0, TryWritesDoes DEF TryTo
<1>15. ASSUME NEW j \in Job, TryIsThrough(j) PROVE OneRun' /\ CleanupOfCancel'
  BY <1>15, <1>0, TryIsThroughDoes DEF TryTo
<1>16. ASSUME NEW j \in Job, TryEnds(j) PROVE OneRun' /\ CleanupOfCancel'
  BY <1>16, <1>0, TryEndsDoes DEF TryTo, JobTo
<1>17. ASSUME NEW j \in Job, Abandons(j) PROVE OneRun' /\ CleanupOfCancel'
  BY <1>17, <1>0, AbandonsDoes DEF JobTo
<1>18. CASE UNCHANGED vars
  BY <1>18, <1>0 DEF vars, forge
<1>19. QED
  BY <1>1, <1>2, <1>3, <1>4, <1>5, <1>6, <1>7, <1>8, <1>9, <1>10, <1>11, <1>12,
      <1>13, <1>14, <1>15, <1>16, <1>17, <1>18 DEF Next, Delivery, Cleanup

LEMMA CallsStep ==
  ASSUME WorkerAssumption, Types, Types', OneRun, CallsKeepJobs, [Next]_vars
  PROVE  CallsKeepJobs'
<1>1. RunCalls /\ \A j \in Job : TryCalls(j)
  BY DEF CallsKeepJobs
<1>2. ASSUME run'.todo = <<>> PROVE RunCalls'
  BY <1>2, NoneOwed DEF RunCalls
<1>3. ASSUME run'.todo = run.todo, run'.pc = run.pc PROVE RunCalls'
  BY <1>1, <1>3 DEF RunCalls
<1>4. ASSUME UNCHANGED try PROVE \A j \in Job : TryCalls(j)'
  BY <1>1, <1>4 DEF TryCalls
<1>5. ASSUME NEW j \in Job, \A k \in Job \ {j} : try'[k] = try[k], TryCalls(j)' PROVE \A k \in Job : TryCalls(k)'
  <2>1. ASSUME NEW k \in Job \ {j} PROVE TryCalls(k)'
    BY <1>1, <1>5, <2>1 DEF TryCalls
  <2>2. QED
    BY <1>5, <2>1
<1>6. ASSUME NEW j \in Job, try'[j].todo \in {<<>>, try[j].todo} PROVE TryCalls(j)'
  BY <1>1, <1>6, NoneOwed DEF TryCalls
<1>7. CASE Resolve \/ Marked \/ Prepare \/ LoopEnds \/ StageFails \/ Panics \/ Mirrored
  <2>1. run'.todo = run.todo /\ RunnerOnly /\ (run.pc # "mark" \/ run.todo = <<>>) /\ run'.pc # "mark"
    BY <1>7, StagesDo DEF Stage, RunGoes, RunTo
  <2>2. CASE run.pc = "mark"
    BY <1>2, <1>4, <2>1, <2>2 DEF RunnerOnly, CallsKeepJobs
  <2>3. CASE run.pc # "mark"
    <3>1. RunCalls'
      BY <1>1, <2>1, <2>3 DEF RunCalls
    <3>2. QED
      BY <1>4, <2>1, <3>1 DEF RunnerOnly, CallsKeepJobs
  <2>4. QED
    BY <2>2, <2>3
<1>8. CASE OpenSession
  <2>1. RunCalls'
    BY <1>8, OpenSessionDoes DEF RunCalls, RunTo
  <2>2. QED
    BY <1>4, <1>8, <2>1, OpenSessionDoes DEF CallsKeepJobs
<1>9. CASE Writes
  <2>1. run.todo \in Seq(Calls) /\ run.todo # <<>> /\ run'.pc = run.pc /\ run'.todo \in {<<>>, Tail(run.todo)} /\ UNCHANGED try
    BY <1>9, WritesDo DEF Types, Runs, RunGoes, RunTo, RunnerOnly
  <2>2. \A call : Owed(Tail(run.todo), call) => Owed(run.todo, call)
    BY <2>1, HeadAndTail
  <2>3. CASE run'.todo = Tail(run.todo)
    <3>1. ~Owed(run'.todo, Write("add", "in-progress"))
      BY <1>1, <2>2, <2>3 DEF RunCalls
    <3>2. RunCalls'
      BY <1>1, <2>1, <2>2, <2>3, <3>1 DEF RunCalls
    <3>3. QED
      BY <1>4, <2>1, <3>2 DEF CallsKeepJobs
  <2>4. QED
    BY <1>2, <1>4, <2>1, <2>3 DEF CallsKeepJobs
<1>10. CASE Finish
  <2>1. /\ run'.pc = "mirror" /\ UNCHANGED try
        /\ \A call : Owed(run'.todo, call) =>
              \/ call = Write("comment", "none")
              \/ \E label \in Labels \ {"in-progress"} : call = Write("add", label)
              \/ \E label \in Statuses : call = Write("remove", label)
    BY <1>10, FinishDoes DEF RunTo, RunnerOnly
  <2>2. \A label \in Labels : Write("remove", label).label = label /\ Write("add", label).op = "add"
    BY DEF Write
  <2>3. Write("comment", "none").op = "comment" /\ Statuses \subseteq Labels
    BY DEF Write, Labels
  <2>4. \A call : Owed(run'.todo, call) /\ call.op = "remove" => call.label \in Statuses
    BY <2>1, <2>2, <2>3
  <2>5. /\ Write("comment", "none") # Write("add", "in-progress")
        /\ \A label \in Labels \ {"in-progress"} : Write("add", label) # Write("add", "in-progress")
        /\ \A label \in Statuses : Write("remove", label) # Write("add", "in-progress")
    BY OneWrite
  <2>6. ~Owed(run'.todo, Write("add", "in-progress"))
    BY <2>1, <2>5
  <2>7. RunCalls'
    BY <2>1, <2>4, <2>6 DEF RunCalls
  <2>8. QED
    BY <1>4, <2>1, <2>7 DEF CallsKeepJobs
<1>11. CASE Returns
  BY <1>2, <1>4, <1>11, ReturnsDo DEF CallsKeepJobs
<1>12. ASSUME NEW j \in Job, Deliver(j) PROVE CallsKeepJobs'
  <2>1. run'.todo = <<>> /\ UNCHANGED try
    BY <1>12, DeliverDoes
  <2>2. QED
    BY <1>2, <1>4, <2>1 DEF CallsKeepJobs
<1>13. ASSUME NEW j \in Job, AsksAgain(j) \/ Cancel(j) \/ Overruns(j) \/ Reaps(j) \/ Abandons(j) PROVE CallsKeepJobs'
  <2>1. run'.todo = run.todo /\ run'.pc = run.pc /\ UNCHANGED try
    BY <1>13, AsksAgainDoes, CancelDoes, EndsUnattended, AbandonsDoes DEF RunTo
  <2>2. QED
    BY <1>3, <1>4, <2>1 DEF CallsKeepJobs
<1>14. CASE ShutsDown
  BY <1>3, <1>4, <1>14, ShutsDownDoes DEF RunTo, CallsKeepJobs
<1>15. CASE Restarts
  BY <1>2, <1>6, <1>15, RestartsDo DEF CallsKeepJobs
<1>16. ASSUME NEW j \in Job, TryStarts(j) \/ TryIsThrough(j) \/ TryEnds(j) PROVE CallsKeepJobs'
  <2>1. try'[j].todo = <<>> /\ UNCHANGED run /\ \A k \in Job \ {j} : try'[k] = try[k]
    BY <1>16, TryStartsDoes, TryIsThroughDoes, TryEndsDoes DEF TryTo
  <2>2. QED
    BY <1>3, <1>5, <1>6, <2>1 DEF CallsKeepJobs
<1>17. ASSUME NEW j \in Job, TryReads(j) PROVE CallsKeepJobs'
  <2>1. UNCHANGED run /\ \A k \in Job \ {j} : try'[k] = try[k]
    BY <1>17, TryReadsDoes DEF TryTo
  <2>2. TryCalls(j)'
    <3>1. \/ try'[j].todo = try[j].todo
          \/ \A call : Owed(try'[j].todo, call) =>
               call = Write("add", j) \/ \E label \in Statuses : call = Write("remove", label)
      BY <1>17, TryReadsDoes
    <3>2. QED
      BY <1>6, <3>1 DEF TryCalls
  <2>3. QED
    BY <1>3, <1>5, <2>1, <2>2 DEF CallsKeepJobs
<1>18. ASSUME NEW j \in Job, TryWrites(j) PROVE CallsKeepJobs'
  <2>1. /\ UNCHANGED run /\ \A k \in Job \ {j} : try'[k] = try[k]
        /\ try[j].todo # <<>> /\ try'[j].todo \in {try[j].todo, Tail(try[j].todo)} /\ try[j].todo \in Seq(Calls)
    BY <1>18, TryWritesDoes DEF TryTo, Types, Tries
  <2>2. \A call : Owed(Tail(try[j].todo), call) => Owed(try[j].todo, call)
    BY <2>1, HeadAndTail
  <2>3. TryCalls(j)'
    BY <1>1, <2>1, <2>2 DEF TryCalls
  <2>4. QED
    BY <1>3, <1>5, <2>1, <2>3 DEF CallsKeepJobs
<1>19. CASE UNCHANGED vars
  BY <1>3, <1>4, <1>19 DEF vars, CallsKeepJobs
<1>20. QED
  BY <1>7, <1>8, <1>9, <1>10, <1>11, <1>12, <1>13, <1>14, <1>15, <1>16, <1>17, <1>18, <1>19 DEF Next, Delivery, Cleanup

(* A comment that is not there is posted once, unless the comments could not be listed. *)
LEMMA CommentsStep ==
  ASSUME WorkerAssumption, Types, Types', OneRun, CommentOnce, [Next]_vars
  PROVE  CommentOnce'
<1>1. ASSUME NEW j \in Job,
             \/ comments'[j] \in {comments[j], 0, 1} /\ (UNCHANGED excused \/ \E k \in Job, why \in Reasons : Excuse(k, why))
             \/ Excuse(j, "list")
      PROVE  "list" \notin excused'[j] => comments'[j] <= 1
  <2>1. "list" \notin excused'[j] => "list" \notin excused[j] /\ comments'[j] \in {comments[j], 0, 1}
    BY <1>1 DEF Excuse, Types
  <2>2. QED
    BY <2>1 DEF CommentOnce
<1>2. CASE Resolve \/ Marked \/ Prepare \/ LoopEnds \/ StageFails \/ Panics \/ Mirrored
  <2>1. UNCHANGED comments
    BY <1>2, StagesDo DEF Stage
  <2>2. run.pc # "none" => run.job \in Job
    BY DEF OneRun, Types, Runs
  <2>3. UNCHANGED excused \/ \E k \in Job, why \in Reasons : Excuse(k, why)
    BY <1>2, <2>2, StagesDo DEF Stage, Reasons
  <2>4. QED
    BY <1>1, <2>1, <2>3 DEF CommentOnce
<1>3. CASE Writes
  <2>1. UNCHANGED excused \/ \E k \in Job, why \in Reasons : Excuse(k, why)
    BY <1>3, WritesDo DEF Reasons
  <2>2. \A j \in Job : comments'[j] = comments[j] \/ comments'[j] = 1 \/ Excuse(j, "list")
    BY <1>3, WritesDo
  <2>3. QED
    BY <1>1, <2>1, <2>2 DEF CommentOnce
<1>4. CASE Returns
  BY <1>1, <1>4, ReturnsDo DEF CommentOnce
<1>5. CASE OpenSession \/ Finish \/ ShutsDown \/ UNCHANGED vars
  <2>1. UNCHANGED <<comments, excused>>
    BY <1>5, OpenSessionDoes, FinishDoes, ShutsDownDoes DEF vars, forge
  <2>2. QED
    BY <1>1, <2>1 DEF CommentOnce
<1>6. CASE Restarts
  <2>1. UNCHANGED comments /\ (UNCHANGED excused \/ (run.session /\ Excuse(run.job, "cut")))
    BY <1>6, RestartsDo
  <2>2. QED
    BY <2>1 DEF CommentOnce, Excuse, Types
<1>7. ASSUME NEW j \in Job, Next, UNCHANGED comments, UNCHANGED excused \/ Excuse(j, "late") PROVE CommentOnce'
  BY <1>1, <1>7 DEF CommentOnce, Reasons
<1>8. ASSUME NEW j \in Job,
             Deliver(j) \/ AsksAgain(j) \/ Cancel(j) \/ Overruns(j) \/ Reaps(j) \/ Cleanup(j) \/ Abandons(j)
      PROVE  UNCHANGED comments /\ (UNCHANGED excused \/ Excuse(j, "late"))
  BY <1>8, DeliverDoes, AsksAgainDoes, CancelDoes, EndsUnattended, AbandonsDoes, TryStartsDoes, TryReadsDoes, TryWritesDoes,
     TryIsThroughDoes, TryEndsDoes DEF Cleanup
<1>9. QED
  BY <1>2, <1>3, <1>4, <1>5, <1>6, <1>7, <1>8 DEF Next, Delivery

-----------------------------------------------------------------------------
(* The request label. *)

(* What the runner and a try write takes no request label off, and a call to add one puts it on. *)
LEMMA PutKeeps ==
  ASSUME WorkerAssumption, NEW call \in Calls, call.op = "remove" => call.label \in Statuses, UNCHANGED onIssue \/ Put(call),
         NEW j \in Job
  PROVE  (j \in onIssue => j \in onIssue') /\ (Put(call) /\ call = Write("add", j) => j \in onIssue')
<1>1. j \notin Statuses
  BY DEF WorkerAssumption, Statuses
<1>2. Write("add", j).op = "add" /\ Write("add", j).label = j
  BY DEF Write
<1>3. QED
  BY <1>1, <1>2 DEF Put, Calls

LEMMA TryPutsBackStep ==
  ASSUME WorkerAssumption, Types, Types', OneRun, CleanupOfCancel, CallsKeepJobs, PutsBack, [Next]_vars
  PROVE  \A j \in Job : TryPutsBack(j)'
<1>1. \A j \in Job : TryPutsBack(j)
  BY DEF PutsBack
(* A step of another actor keeps what the cleanup of a job promises. *)
<1>2. ASSUME NEW j \in Job, j \in onIssue => j \in onIssue', UNCHANGED try[j] \/ (try'[j].pc \notin {"writes", "done"}),
             job'[j].cleanup = "done" => job[j].cleanup = "done"
      PROVE  TryPutsBack(j)'
  BY <1>1, <1>2 DEF TryPutsBack
<1>3. ASSUME UNCHANGED onIssue, UNCHANGED try, \A j \in Job : job'[j].cleanup = "done" => job[j].cleanup = "done"
      PROVE  \A j \in Job : TryPutsBack(j)'
  BY <1>2, <1>3
<1>4. CASE Resolve \/ Marked \/ Prepare \/ LoopEnds \/ StageFails \/ Panics \/ Mirrored
  BY <1>3, <1>4, StagesDo DEF Stage, RunnerOnly
<1>5. CASE OpenSession
  <2>1. UNCHANGED <<onIssue, try>> /\ \A j \in Job : job'[j].cleanup = job[j].cleanup
    BY <1>5, OpenSessionDoes DEF JobTo
  <2>2. QED
    BY <1>3, <2>1
<1>6. CASE Writes
  <2>1. /\ Head(run.todo) \in Calls /\ (UNCHANGED onIssue \/ Put(Head(run.todo))) /\ RunnerOnly
        /\ run.todo # <<>> /\ run.todo \in Seq(Calls)
    BY <1>6, WritesDo DEF Types, Runs
  <2>2. Head(run.todo).op = "remove" => Head(run.todo).label \in Statuses
    BY <2>1, HeadAndTail DEF CallsKeepJobs, RunCalls
  <2>3. \A j \in Job : j \in onIssue => j \in onIssue'
    BY <2>1, <2>2, PutKeeps
  <2>4. QED
    BY <1>2, <2>1, <2>3 DEF RunnerOnly
<1>7. CASE Finish
  BY <1>3, <1>7, FinishDoes DEF RunnerOnly
<1>8. CASE Returns
  <2>1. UNCHANGED <<onIssue, try>>
    BY <1>8, ReturnsDo
  <2>2. ASSUME NEW j \in Job, job'[j].cleanup = "done" PROVE job[j].cleanup = "done"
    BY <1>8, <2>2, ReturnsDo DEF JobTo, AttemptEnds, Owing
  <2>3. QED
    BY <1>3, <2>1, <2>2
<1>9. ASSUME NEW j \in Job, Deliver(j) \/ AsksAgain(j) \/ Cancel(j) \/ Overruns(j) \/ Reaps(j) \/ Abandons(j)
      PROVE  \A k \in Job : TryPutsBack(k)'
  <2>1. UNCHANGED <<onIssue, try>>
    BY <1>9, DeliverDoes, AsksAgainDoes, CancelDoes, EndsUnattended, AbandonsDoes
  <2>2. \E state, att, session, cleanup : JobTo(j, state, att, session, cleanup) /\ (cleanup = "done" => job[j].cleanup = "done")
    <3>1. CASE Deliver(j) \/ AsksAgain(j)
      BY <3>1, DeliverDoes, AsksAgainDoes
    <3>2. CASE Cancel(j)
      <4>1. (IF run.job # j THEN "pending" ELSE job[j].cleanup) = "done" => job[j].cleanup = "done"
        OBVIOUS
      <4>2. QED
        BY <3>2, <4>1, CancelDoes
    <3>3. CASE Overruns(j) \/ Reaps(j)
      <4>1. Owing(job[j]) = "done" => job[j].cleanup = "done"
        BY DEF Owing
      <4>2. QED
        BY <3>3, <4>1, EndsUnattended DEF AttemptEnds
    <3>4. CASE Abandons(j)
      BY <3>4, AbandonsDoes
    <3>5. QED
      BY <1>9, <3>1, <3>2, <3>3, <3>4
  <2>3. ASSUME NEW k \in Job, job'[k].cleanup = "done" PROVE job[k].cleanup = "done"
    BY <2>2, <2>3 DEF JobTo
  <2>4. QED
    BY <1>3, <2>1, <2>3
<1>10. CASE ShutsDown
  BY <1>3, <1>10, ShutsDownDoes
<1>11. CASE Restarts
  BY <1>2, <1>11, RestartsDo
<1>12. ASSUME NEW j \in Job, UNCHANGED job, \A k \in Job \ {j} : try'[k] = try[k], TryPutsBack(j)',
              \A k \in Job : k \in onIssue => k \in onIssue'
       PROVE  \A k \in Job : TryPutsBack(k)'
  BY <1>2, <1>12
<1>13. ASSUME NEW j \in Job, TryStarts(j) PROVE \A k \in Job : TryPutsBack(k)'
  <2>1. UNCHANGED <<job, onIssue>> /\ TryTo(j, "issue")
    BY <1>13, TryStartsDoes
  <2>2. TryPutsBack(j)'
    BY <1>2, <2>1 DEF TryTo
  <2>3. QED
    BY <1>12, <2>1, <2>2 DEF TryTo
<1>14. ASSUME NEW j \in Job, TryReads(j) PROVE \A k \in Job : TryPutsBack(k)'
  <2>1. UNCHANGED <<job, onIssue>> /\ \A k \in Job \ {j} : try'[k] = try[k]
    BY <1>14, TryReadsDoes DEF TryTo
  <2>2. TryPutsBack(j)'
    BY <1>1, <1>14, TryReadsDoes DEF TryTo, TryPutsBack
  <2>3. QED
    BY <1>12, <2>1, <2>2
<1>15. ASSUME NEW j \in Job, TryWrites(j) PROVE \A k \in Job : TryPutsBack(k)'
  <2>1. PICK call \in Calls : call = Head(try[j].todo)
    BY <1>15, TryWritesDoes
  <2>8. /\ try[j].todo \in Seq(Calls) /\ try[j].todo # <<>> /\ (UNCHANGED onIssue \/ Put(call))
        /\ UNCHANGED job /\ try[j].pc = "writes" /\ \A k \in Job \ {j} : try'[k] = try[k]
    BY <1>15, <2>1, TryWritesDoes DEF TryTo, Types, Tries
  <2>2. \A label : Write("remove", label).label = label /\ Write("add", label).op = "add"
    BY DEF Write
  <2>3. call.op = "remove" => call.label \in Statuses
    <3>1. Owed(try[j].todo, call)
      BY <2>1, <2>8, HeadAndTail
    <3>2. call = Write("add", j) \/ \E label \in Statuses : call = Write("remove", label)
      BY <3>1 DEF CallsKeepJobs, TryCalls
    <3>3. QED
      BY <2>2, <3>2
  <2>4. \A k \in Job : (k \in onIssue => k \in onIssue') /\ (Put(call) /\ call = Write("add", k) => k \in onIssue')
    BY <2>1, <2>8, <2>3, PutKeeps
  <2>5. Owed(try[j].todo, Write("add", j)) => call = Write("add", j) \/ Owed(Tail(try[j].todo), Write("add", j))
    BY <2>1, <2>8, HeadAndTail
  <2>6. TryPutsBack(j)'
    <3>1. CASE Put(call) /\ TryTo(j, "writes") /\ try'[j].todo = Tail(try[j].todo)
      BY <1>1, <2>1, <2>8, <2>4, <2>5, <3>1 DEF TryTo, TryPutsBack
    <3>2. CASE call.op # "add" /\ TryTo(j, "writes") /\ try'[j].todo = Tail(try[j].todo)
      BY <1>1, <2>1, <2>8, <2>2, <2>4, <2>5, <3>2 DEF TryTo, TryPutsBack
    <3>3. CASE TryTo(j, "label_not_set") \/ TryTo(j, "pending")
      BY <1>2, <2>1, <2>8, <2>4, <3>3 DEF TryTo
    <3>4. QED
      BY <1>15, <2>1, <3>1, <3>2, <3>3, TryWritesDoes
  <2>7. QED
    BY <1>12, <2>1, <2>8, <2>4, <2>6
<1>16. ASSUME NEW j \in Job, TryIsThrough(j) PROVE \A k \in Job : TryPutsBack(k)'
  <2>1. /\ try[j].pc = "writes" /\ try[j].todo = <<>> /\ TryTo(j, IF try[j].kept THEN "label_not_set" ELSE "done")
        /\ UNCHANGED <<job, onIssue>>
    BY <1>16, TryIsThroughDoes
  <2>2. j \in onIssue
    BY <1>1, <2>1, NoneOwed DEF TryPutsBack
  <2>3. TryPutsBack(j)'
    BY <2>1, <2>2 DEF TryTo, TryPutsBack
  <2>4. QED
    BY <1>12, <2>1, <2>3 DEF TryTo
<1>17. ASSUME NEW j \in Job, TryEnds(j) PROVE \A k \in Job : TryPutsBack(k)'
  <2>1. /\ TryTo(j, "none") /\ UNCHANGED onIssue
        /\ UNCHANGED job \/ JobTo(j, job[j].state, job[j].att, job[j].session, try[j].pc)
    BY <1>17, TryEndsDoes
  <2>2. TryPutsBack(j)'
    BY <1>1, <2>1 DEF TryTo, JobTo, TryPutsBack
  <2>3. ASSUME NEW k \in Job \ {j} PROVE TryPutsBack(k)'
    <3>1. job'[k] = job[k] /\ try'[k] = try[k]
      BY <2>1 DEF TryTo, JobTo
    <3>2. QED
      BY <1>2, <2>1, <3>1
  <2>4. QED
    BY <2>2, <2>3
<1>18. CASE UNCHANGED vars
  BY <1>3, <1>18 DEF vars, forge
<1>19. QED
  BY <1>4, <1>5, <1>6, <1>7, <1>8, <1>9, <1>10, <1>11, <1>13, <1>14, <1>15, <1>16, <1>17, <1>18 DEF Next, Delivery, Cleanup

LEMMA RunPutsBackStep ==
  ASSUME WorkerAssumption, Types, Types', OneRun, CleanupOfCancel, CallsKeepJobs, PutsBack, [Next]_vars
  PROVE  \A j \in Job : RunPutsBack(j)'
<1>0. /\ NoJob \notin Job /\ run.job \in Job \cup {NoJob} /\ up \in BOOLEAN /\ run.stop \in {"no", "cancel", "shutdown"}
      /\ \A j \in Job : job[j].cleanup \in {"no", "pending", "done", "label_not_set"} /\ excused[j] \subseteq Reasons
                      /\ job[j].session \in BOOLEAN /\ job[j].att \in {"queued", "running", "ended"}
  BY DEF WorkerAssumption, NoJob, Types, Runs, States, Stops
<1>1. /\ \A j \in Job : RunPutsBack(j) /\ CleansUp(j) /\ (run.job = j => InRunner(j))
      /\ run.job = NoJob <=> run.pc = "none"
  BY DEF PutsBack, CleanupOfCancel, OneRun
<1>2. \A j \in Job : \A k, why : Excuse(k, why) /\ excused'[j] = {} => excused[j] = {} /\ (j = k => FALSE)
  BY DEF Excuse, Types
(* The runner is as it was. *)
<1>3. ASSUME NEW j \in Job, j \in onIssue => j \in onIssue', excused'[j] = {} => excused[j] = {},
             UNCHANGED <<run, job>> \/ (UNCHANGED run /\ job'[j] = job[j])
      PROVE  RunPutsBack(j)'
  BY <1>1, <1>3 DEF RunPutsBack
<1>4. CASE Resolve \/ Marked \/ Prepare \/ LoopEnds \/ StageFails \/ Mirrored
  <2>1. /\ UNCHANGED <<job, onIssue>> /\ (UNCHANGED excused \/ Excuse(run.job, "refused"))
        /\ run'.job = run.job /\ run'.session = run.session /\ run'.how = run.how
        /\ run'.pc # "mirror"
        /\ run'.pc = "return" => run.pc = "mirror" /\ run.todo = <<>>
    BY <1>4, StagesDo DEF Stage, RunGoes, RunTo, RunnerOnly
  <2>2. ASSUME NEW j \in Job PROVE RunPutsBack(j)'
    <3>1. excused'[j] = {} => excused[j] = {}
      BY <1>2, <2>1
    <3>2. ~Owed(<<>>, Write("add", j))
      BY NoneOwed
    <3>3. QED
      BY <1>1, <2>1, <3>1, <3>2 DEF RunPutsBack
  <2>3. QED
    BY <2>2
<1>5. CASE Panics
  <2>1. /\ UNCHANGED <<job, onIssue>> /\ Excuse(run.job, "panic") /\ run'.job = run.job
    BY <1>5, StagesDo DEF Stage, RunGoes, RunTo, RunnerOnly
  <2>2. ASSUME NEW j \in Job PROVE RunPutsBack(j)'
    BY <1>1, <1>2, <2>1 DEF RunPutsBack
  <2>3. QED
    BY <2>2
<1>6. CASE OpenSession
  <2>1. PICK session \in BOOLEAN : (job[run.job].session => session)
          /\ JobTo(run.job, job[run.job].state, job[run.job].att, session, job[run.job].cleanup)
    BY <1>6, OpenSessionDoes
  <2>2. run.job \in Job /\ RunTo(run.job, "mark", run.stop, run.how, TRUE) /\ UNCHANGED <<onIssue, excused>>
    BY <1>6, OpenSessionDoes
  <2>3. ASSUME NEW j \in Job PROVE RunPutsBack(j)'
    BY <1>1, <2>1, <2>2 DEF RunPutsBack, RunTo, JobTo
  <2>4. QED
    BY <2>3
<1>7. CASE Writes
  <2>1. PICK call \in Calls : call = Head(run.todo)
    BY <1>7, WritesDo
  <2>2. /\ UNCHANGED onIssue \/ Put(call)
        /\ run.todo # <<>> /\ run.todo \in Seq(Calls) /\ RunGoes(run.pc) /\ RunnerOnly /\ run.job \in Job
    BY <1>7, <2>1, WritesDo DEF Types, Runs
  <2>3. call.op = "remove" => call.label \in Statuses
    BY <2>1, <2>2, HeadAndTail DEF CallsKeepJobs, RunCalls
  <2>4. \A k \in Job : (k \in onIssue => k \in onIssue') /\ (Put(call) /\ call = Write("add", k) => k \in onIssue')
    BY <2>2, <2>3, PutKeeps
  <2>5. \A owed : Owed(run.todo, owed) => call = owed \/ Owed(Tail(run.todo), owed)
    BY <2>1, <2>2, HeadAndTail
  <2>6. CASE \E why \in {"write", "list"} : Excuse(run.job, why)
    <3>1. ASSUME NEW j \in Job PROVE RunPutsBack(j)'
      BY <1>1, <1>2, <2>2, <2>4, <2>6, <3>1 DEF RunPutsBack, RunGoes, RunTo, RunnerOnly
    <3>2. QED
      BY <3>1
  <2>7. CASE UNCHANGED excused /\ Put(call) /\ run'.todo = Tail(run.todo)
    <3>1. ASSUME NEW j \in Job PROVE RunPutsBack(j)'
      BY <1>1, <2>2, <2>4, <2>5, <2>7, <3>1 DEF RunPutsBack, RunGoes, RunTo, RunnerOnly
    <3>2. QED
      BY <3>1
  <2>8. QED
    BY <1>7, <2>1, <2>6, <2>7, WritesDo
<1>8. CASE Finish
  <2>1. /\ run.job \in Job /\ RunTo(run.job, "mirror", run.stop, run.stop, run.session)
        /\ run.session /\ run.stop = "cancel" => Owed(run'.todo, Write("add", run.job))
        /\ RunnerOnly /\ UNCHANGED <<onIssue, excused>>
    BY <1>8, FinishDoes
  <2>2. ASSUME NEW j \in Job PROVE RunPutsBack(j)'
    BY <1>1, <2>1 DEF RunPutsBack, RunTo, RunnerOnly, InRunner
  <2>3. QED
    BY <2>2
<1>9. CASE Returns
  <2>1. /\ run.pc = "return" /\ run.job \in Job /\ RunTo(NoJob, "none", "no", "no", FALSE) /\ UNCHANGED <<onIssue, excused>>
    BY <1>9, ReturnsDo
  <2>2. ASSUME NEW j \in Job \ {run.job} PROVE RunPutsBack(j)'
    <3>1. job'[j] = job[j]
      BY <1>9, ReturnsDo DEF JobTo, AttemptEnds
    <3>2. QED
      BY <1>0, <1>1, <2>1, <3>1 DEF RunPutsBack, RunTo
  <2>3. ASSUME NEW j \in Job, j = run.job PROVE RunPutsBack(j)'
    <3>1. RunPutsBack(j) /\ InRunner(j) /\ CleansUp(j)
      BY <1>1, <2>1, <2>3
    <3>2. CASE (~Running(j) \/ run.how = "shutdown") /\ UNCHANGED job
      BY <1>0, <2>1, <2>3, <3>1, <3>2 DEF RunPutsBack, RunTo, InRunner, CleansUp, Running
    <3>3. CASE job[run.job].state = "cancelled" /\ AttemptEnds(run.job)
      BY <1>0, <2>1, <2>3, <3>1, <3>3 DEF RunPutsBack, RunTo, InRunner, AttemptEnds, JobTo, Owing
    <3>4. CASE \E state \in {"queued", "blocked", "done", "failed"}, att \in {"queued", "ended"}, session \in BOOLEAN :
                 JobTo(run.job, state, att, session, job[run.job].cleanup)
      BY <2>3, <3>4 DEF RunPutsBack, JobTo
    <3>5. QED
      BY <1>9, <2>3, <3>2, <3>3, <3>4, ReturnsDo
  <2>4. QED
    BY <2>2, <2>3
<1>10. ASSUME NEW j \in Job, Deliver(j) PROVE \A k \in Job : RunPutsBack(k)'
  <2>1. /\ run.pc = "none" /\ JobTo(j, "running", "running", FALSE, job[j].cleanup) /\ RunTo(j, "resolve", "no", "no", FALSE)
        /\ UNCHANGED <<onIssue, excused>>
    BY <1>10, DeliverDoes
  <2>2. RunPutsBack(j)'
    BY <2>1 DEF RunPutsBack, JobTo
  <2>3. ASSUME NEW k \in Job \ {j} PROVE RunPutsBack(k)'
    BY <1>0, <1>1, <2>1, <2>3 DEF RunPutsBack, JobTo, RunTo
  <2>4. QED
    BY <2>2, <2>3
<1>11. ASSUME NEW j \in Job, AsksAgain(j) PROVE \A k \in Job : RunPutsBack(k)'
  <2>1. JobTo(j, "queued", "queued", FALSE, job[j].cleanup) /\ UNCHANGED <<run, onIssue, excused>>
    BY <1>11, AsksAgainDoes
  <2>2. RunPutsBack(j)'
    BY <2>1 DEF RunPutsBack, JobTo
  <2>3. ASSUME NEW k \in Job \ {j} PROVE RunPutsBack(k)'
    BY <1>3, <2>1, <2>3 DEF JobTo
  <2>4. QED
    BY <2>2, <2>3
<1>12. ASSUME NEW j \in Job, Cancel(j) PROVE \A k \in Job : RunPutsBack(k)'
  <2>1. /\ JobTo(j, "cancelled", IF job[j].att = "running" THEN "running" ELSE "ended", job[j].session,
                  IF run.job # j THEN "pending" ELSE job[j].cleanup)
        /\ RunTo(run.job, run.pc, IF run.job = j /\ run.stop = "no" THEN "cancel" ELSE run.stop, run.how, run.session)
        /\ run'.todo = run.todo
        /\ IF run.job = j /\ run.pc \in {"mirror", "return"} THEN Excuse(j, "late") ELSE UNCHANGED excused
        /\ UNCHANGED onIssue
    BY <1>12, CancelDoes
  <2>2. RunPutsBack(j)'
    BY <1>2, <2>1 DEF RunPutsBack, JobTo, RunTo
  <2>3. ASSUME NEW k \in Job \ {j} PROVE RunPutsBack(k)'
    BY <1>1, <1>2, <2>1, <2>3 DEF RunPutsBack, JobTo, RunTo
  <2>4. QED
    BY <2>2, <2>3
<1>13. ASSUME NEW j \in Job, Overruns(j) \/ Reaps(j) PROVE \A k \in Job : RunPutsBack(k)'
  <2>1. AttemptEnds(j) /\ Running(j) /\ UNCHANGED <<run, onIssue, excused>>
    BY <1>13, EndsUnattended
  <2>2. RunPutsBack(j)'
    BY <1>0, <1>1, <2>1 DEF RunPutsBack, JobTo, AttemptEnds, Owing, Running
  <2>3. ASSUME NEW k \in Job \ {j} PROVE RunPutsBack(k)'
    BY <1>3, <2>1, <2>3 DEF JobTo, AttemptEnds
  <2>4. QED
    BY <2>2, <2>3
<1>14. CASE ShutsDown
  <2>1. /\ RunTo(run.job, run.pc, IF run.pc # "none" /\ run.stop = "no" THEN "shutdown" ELSE run.stop, run.how, run.session)
        /\ run'.todo = run.todo /\ UNCHANGED <<job, onIssue, excused>>
    BY <1>14, ShutsDownDoes
  <2>2. ASSUME NEW j \in Job PROVE RunPutsBack(j)'
    BY <1>1, <2>1 DEF RunPutsBack, RunTo
  <2>3. QED
    BY <2>2
<1>15. CASE Restarts
  <2>1. /\ RunTo(NoJob, "none", "no", "no", FALSE) /\ UNCHANGED <<job, onIssue>>
        /\ IF run.session /\ job[run.job].state = "cancelled" THEN Excuse(run.job, "cut") ELSE UNCHANGED excused
    BY <1>15, RestartsDo
  <2>2. ASSUME NEW j \in Job, j # run.job PROVE RunPutsBack(j)'
    BY <1>0, <1>1, <1>2, <2>1, <2>2 DEF RunPutsBack, RunTo
  <2>3. ASSUME NEW j \in Job, j = run.job PROVE RunPutsBack(j)'
    BY <1>0, <1>1, <1>2, <2>1, <2>3 DEF RunPutsBack, RunTo, InRunner, CleansUp
  <2>4. QED
    BY <2>2, <2>3
<1>16. ASSUME NEW j \in Job, TryStarts(j) \/ TryReads(j) \/ TryIsThrough(j) PROVE \A k \in Job : RunPutsBack(k)'
  BY <1>3, <1>16, TryStartsDoes, TryReadsDoes, TryIsThroughDoes
<1>17. ASSUME NEW j \in Job, TryWrites(j) PROVE \A k \in Job : RunPutsBack(k)'
  <2>1. PICK call \in Calls : call = Head(try[j].todo)
    BY <1>17, TryWritesDoes
  <2>2. /\ try[j].todo \in Seq(Calls) /\ try[j].todo # <<>> /\ (UNCHANGED onIssue \/ Put(call))
        /\ UNCHANGED <<job, run, excused>>
    BY <1>17, <2>1, TryWritesDoes DEF Types, Tries
  <2>3. call.op = "remove" => call.label \in Statuses
    <3>1. Owed(try[j].todo, call)
      BY <2>1, <2>2, HeadAndTail
    <3>2. call = Write("add", j) \/ \E label \in Statuses : call = Write("remove", label)
      BY <3>1 DEF CallsKeepJobs, TryCalls
    <3>3. QED
      BY <3>2 DEF Write
  <2>4. \A k \in Job : k \in onIssue => k \in onIssue'
    BY <2>2, <2>3, PutKeeps
  <2>5. QED
    BY <1>3, <2>2, <2>4
<1>18. ASSUME NEW j \in Job, TryEnds(j) PROVE \A k \in Job : RunPutsBack(k)'
  <2>1. /\ UNCHANGED <<run, onIssue, excused>> /\ try[j].pc \in {"done", "pending", "label_not_set"}
        /\ UNCHANGED job \/ JobTo(j, job[j].state, job[j].att, job[j].session, try[j].pc)
    BY <1>18, TryEndsDoes
  <2>2. RunPutsBack(j)'
    BY <1>1, <2>1 DEF RunPutsBack, JobTo
  <2>3. ASSUME NEW k \in Job \ {j} PROVE RunPutsBack(k)'
    BY <1>3, <2>1, <2>3 DEF JobTo
  <2>4. QED
    BY <2>2, <2>3
<1>19. ASSUME NEW j \in Job, Abandons(j) PROVE \A k \in Job : RunPutsBack(k)'
  <2>1. JobTo(j, job[j].state, job[j].att, job[j].session, "label_not_set") /\ UNCHANGED <<run, onIssue, excused>>
    BY <1>19, AbandonsDoes
  <2>2. RunPutsBack(j)'
    BY <2>1 DEF RunPutsBack, JobTo
  <2>3. ASSUME NEW k \in Job \ {j} PROVE RunPutsBack(k)'
    BY <1>3, <2>1, <2>3 DEF JobTo
  <2>4. QED
    BY <2>2, <2>3
<1>20. CASE UNCHANGED vars
  BY <1>3, <1>20 DEF vars, forge
<1>21. QED
  BY <1>4, <1>5, <1>6, <1>7, <1>8, <1>9, <1>10, <1>11, <1>12, <1>13, <1>14, <1>15, <1>16, <1>17, <1>18, <1>19, <1>20
     DEF Next, Delivery, Cleanup

-----------------------------------------------------------------------------
(* In-progress. *)

(* What lets in-progress stay is not taken back. *)
LEMMA LetStays ==
  ASSUME WorkerAssumption, Types, Types', OneRun, CleanupOfCancel, [Next]_vars, NEW j \in Job
  PROVE  Let(j) => Let(j)'
<1>1. ASSUME excused[j] \subseteq excused'[j], job[j].cleanup = "label_not_set" => job'[j].cleanup = "label_not_set"
      PROVE  Let(j) => Let(j)'
  BY <1>1 DEF Let
<1>2. \A k, why : Excuse(k, why) => excused[j] \subseteq excused'[j]
  BY DEF Excuse, Types
<1>3. CASE Resolve \/ Marked \/ Prepare \/ LoopEnds \/ StageFails \/ Panics \/ Mirrored
  <2>1. UNCHANGED job /\ (UNCHANGED excused \/ \E why : Excuse(run.job, why))
    BY <1>3, StagesDo DEF Stage, RunnerOnly
  <2>2. QED
    BY <1>1, <1>2, <2>1
<1>4. CASE OpenSession
  BY <1>1, <1>4, OpenSessionDoes DEF JobTo
<1>5. CASE Writes \/ Finish
  <2>1. UNCHANGED job /\ (UNCHANGED excused \/ \E why : Excuse(run.job, why))
    BY <1>5, WritesDo, FinishDoes DEF RunnerOnly
  <2>2. QED
    BY <1>1, <1>2, <2>1
<1>6. CASE Returns
  <2>1. UNCHANGED excused
    BY <1>6, ReturnsDo
  <2>2. job[j].cleanup = "label_not_set" => job'[j].cleanup = "label_not_set"
    BY <1>6, ReturnsDo DEF JobTo, AttemptEnds, Owing
  <2>3. QED
    BY <1>1, <2>1, <2>2
<1>7. CASE ShutsDown \/ Restarts \/ UNCHANGED vars
  <2>1. UNCHANGED job /\ (UNCHANGED excused \/ \E why : Excuse(run.job, why))
    BY <1>7, ShutsDownDoes, RestartsDo DEF vars
  <2>2. QED
    BY <1>1, <1>2, <2>1
<1>8. ASSUME NEW k \in Job, Deliver(k) \/ AsksAgain(k) \/ Overruns(k) \/ Reaps(k) \/ Abandons(k) PROVE Let(j) => Let(j)'
  <2>1. UNCHANGED excused
    BY <1>8, DeliverDoes, AsksAgainDoes, EndsUnattended, AbandonsDoes
  <2>2. job[j].cleanup = "label_not_set" => job'[j].cleanup = "label_not_set"
    <3>1. CASE Deliver(k) \/ AsksAgain(k)
      BY <3>1, DeliverDoes, AsksAgainDoes DEF JobTo
    <3>2. CASE Overruns(k) \/ Reaps(k)
      BY <3>2, EndsUnattended DEF JobTo, AttemptEnds, Owing
    <3>3. CASE Abandons(k)
      BY <3>3, AbandonsDoes DEF JobTo
    <3>4. QED
      BY <1>8, <3>1, <3>2, <3>3
  <2>3. QED
    BY <1>1, <2>1, <2>2
<1>9. ASSUME NEW k \in Job, Cancel(k) PROVE Let(j) => Let(j)'
  <2>1. excused[j] \subseteq excused'[j]
    BY <1>2, <1>9, CancelDoes
  <2>2. job[j].cleanup = "label_not_set" => job'[j].cleanup = "label_not_set"
    BY <1>9, CancelDoes DEF JobTo, Open, CleanupOfCancel, CleansUp
  <2>3. QED
    BY <1>1, <2>1, <2>2
<1>10. ASSUME NEW k \in Job, TryStarts(k) \/ TryReads(k) \/ TryWrites(k) \/ TryIsThrough(k) PROVE Let(j) => Let(j)'
  <2>1. UNCHANGED <<job, excused>>
    BY <1>10, TryStartsDoes, TryReadsDoes, TryWritesDoes, TryIsThroughDoes
  <2>2. QED
    BY <1>1, <2>1
<1>11. ASSUME NEW k \in Job, TryEnds(k) PROVE Let(j) => Let(j)'
  <2>1. UNCHANGED excused
    BY <1>11, TryEndsDoes
  <2>2. job[j].cleanup = "label_not_set" => job'[j].cleanup = "label_not_set"
    BY <1>11, TryEndsDoes DEF JobTo
  <2>3. QED
    BY <1>1, <2>1, <2>2
<1>12. QED
  BY <1>3, <1>4, <1>5, <1>6, <1>7, <1>8, <1>9, <1>10, <1>11 DEF Next, Delivery, Cleanup

LEMMA ExcusedLet == ASSUME Types, NEW j \in Job, NEW why \in Reasons \ {"late"}, Excuse(j, why) PROVE Let(j)'
BY DEF Types, Excuse, Let

(* A request label is not in-progress, and a cleanup and a mirror add no other. *)
LEMMA PutAdds ==
  ASSUME NEW call \in Calls, call # Write("add", "in-progress"), UNCHANGED onIssue \/ Put(call)
  PROVE  "in-progress" \in onIssue' => "in-progress" \in onIssue /\ (Put(call) => call # Write("remove", "in-progress"))
<1>1. call = Write(call.op, call.label)
  BY CallIsWrite
<1>2. Write("remove", "in-progress").op = "remove" /\ Write("remove", "in-progress").label = "in-progress"
  BY DEF Write
<1>3. QED
  BY <1>1, <1>2 DEF Put

LEMMA RunUnmarksStep ==
  ASSUME WorkerAssumption, Types, Types', OneRun, CleanupOfCancel, CallsKeepJobs, RunUnmarks, [Next]_vars
  PROVE  RunUnmarks'
<1>0. /\ NoJob \notin Job /\ run.job \in Job \cup {NoJob} /\ run.stop \in Stops
      /\ run.job = NoJob <=> run.pc = "none"
  BY DEF WorkerAssumption, NoJob, Types, Runs, OneRun
<1>1. \A j \in Job : Let(j) => Let(j)'
  BY LetStays
<1>2. ASSUME run'.job = run.job, Unmarks => Unmarks' \/ \E why \in Reasons \ {"late"} : Excuse(run.job, why) PROVE RunUnmarks'
  BY <1>1, <1>2, ExcusedLet DEF RunUnmarks
<1>3. CASE Resolve \/ Marked \/ Prepare \/ LoopEnds \/ Mirrored
  <2>1. /\ UNCHANGED onIssue /\ run'.job = run.job /\ run'.session = run.session /\ run'.how = run.how
        /\ \/ run.pc = "resolve" /\ run'.pc = "session"
           \/ run.pc = "mark" /\ run.todo = <<>> /\ run'.pc = "clone" /\ Marks(run') = Marks(run)
           \/ run.pc = "clone" /\ run'.pc = "loop" /\ Marks(run') = Marks(run)
           \/ run.pc = "loop" /\ run'.pc = "finish" /\ Marks(run') = Marks(run)
           \/ run.pc = "mirror" /\ run.todo = <<>> /\ run'.pc = "return"
    BY <1>3, StagesDo DEF Stage, RunGoes, RunTo, RunnerOnly
  <2>2. \A call : ~Owed(<<>>, call)
    BY NoneOwed
  <2>3. Unmarks => Unmarks'
    BY <2>1, <2>2 DEF Unmarks
  <2>4. QED
    BY <1>2, <2>1, <2>3
<1>4. CASE StageFails
  <2>1. PICK from \in {"resolve", "session", "clone", "loop"} :
          /\ Stage(from, "finish")
          /\ IF ~run.session /\ "in-progress" \in onIssue THEN Excuse(run.job, "refused") ELSE UNCHANGED excused
    BY <1>4, StagesDo
  <2>2. /\ UNCHANGED onIssue /\ run'.job = run.job /\ run'.session = run.session /\ run'.pc = "finish"
        /\ run.pc \in {"resolve", "session", "clone", "loop"} /\ Marks(run') = Marks(run)
    BY <2>1 DEF Stage, RunGoes, RunTo
  <2>3. Unmarks => Unmarks' \/ Excuse(run.job, "refused")
    BY <2>1, <2>2 DEF Unmarks
  <2>4. QED
    BY <1>2, <2>2, <2>3 DEF Reasons
<1>5. CASE Panics
  <2>1. run'.job = run.job /\ Excuse(run.job, "panic")
    BY <1>5, StagesDo DEF Stage, RunGoes, RunTo
  <2>2. QED
    BY <1>2, <2>1 DEF Reasons
<1>6. CASE OpenSession
  <2>1. RunTo(run.job, "mark", run.stop, run.how, TRUE) /\ Owed(run'.todo, Write("add", "in-progress"))
    BY <1>6, OpenSessionDoes
  <2>2. Unmarks'
    BY <2>1 DEF Unmarks, RunTo
  <2>3. QED
    BY <1>2, <2>1, <2>2 DEF RunTo
<1>7. CASE Writes
  <2>1. PICK call \in Calls : call = Head(run.todo)
    BY <1>7, WritesDo
  <2>2. /\ run.pc \in {"mark", "mirror"} /\ run.todo # <<>> /\ run.todo \in Seq(Calls) /\ RunGoes(run.pc)
    BY <1>7, WritesDo DEF Types, Runs
  <2>3. \A owed : Owed(run.todo, owed) <=> call = owed \/ Owed(Tail(run.todo), owed)
    BY <2>1, <2>2, HeadAndTail
  <2>4. CASE \E why \in {"write", "list"} : Excuse(run.job, why)
    BY <1>2, <2>2, <2>4 DEF RunGoes, RunTo, Reasons
  <2>5. CASE /\ UNCHANGED excused /\ Put(call) /\ run'.todo = Tail(run.todo)
             /\ call = Write("add", "in-progress") /\ run.session => Marks(run')
             /\ call # Write("remove", "in-progress") /\ Marks(run) => Marks(run')
    <3>1. CASE run.pc = "mark"
      <4>1. call # Write("remove", "in-progress")
        BY <2>3, <3>1 DEF CallsKeepJobs, RunCalls
      <4>2. Unmarks => Unmarks'
        BY <2>2, <2>3, <2>5, <3>1, <4>1 DEF Unmarks, RunGoes, RunTo
      <4>3. QED
        BY <1>2, <2>2, <4>2 DEF RunGoes, RunTo
    <3>2. CASE run.pc = "mirror"
      <4>1. call # Write("add", "in-progress")
        BY <2>3, <3>2 DEF CallsKeepJobs, RunCalls
      <4>2. "in-progress" \in onIssue' => "in-progress" \in onIssue /\ call # Write("remove", "in-progress")
        BY <2>5, <4>1, PutAdds
      <4>3. Unmarks => Unmarks'
        BY <2>2, <2>3, <2>5, <3>2, <4>2 DEF Unmarks, RunGoes, RunTo
      <4>4. QED
        BY <1>2, <2>2, <4>3 DEF RunGoes, RunTo
    <3>3. QED
      BY <2>2, <3>1, <3>2
  <2>6. QED
    BY <1>7, <2>1, <2>4, <2>5, WritesDo
<1>8. CASE Finish
  <2>1. /\ run.pc = "finish" /\ RunTo(run.job, "mirror", run.stop, run.stop, run.session)
        /\ run.stop # "shutdown" /\ Marks(run) => Owed(run'.todo, Write("remove", "in-progress"))
        /\ UNCHANGED onIssue
    BY <1>8, FinishDoes
  <2>2. Unmarks => Unmarks'
    BY <2>1 DEF Unmarks, RunTo
  <2>3. QED
    BY <1>2, <2>1, <2>2 DEF RunTo
<1>9. CASE Returns \/ Restarts
  <2>1. run'.job = NoJob
    BY <1>9, ReturnsDo, RestartsDo DEF RunTo
  <2>2. QED
    BY <1>0, <2>1 DEF RunUnmarks
<1>10. ASSUME NEW j \in Job, Deliver(j) PROVE RunUnmarks'
  <2>1. RunTo(j, "resolve", "no", "no", FALSE)
    BY <1>10, DeliverDoes
  <2>2. Unmarks'
    BY <2>1 DEF Unmarks, RunTo
  <2>3. QED
    BY <2>2 DEF RunUnmarks
<1>11. ASSUME run'.job = run.job, run'.pc = run.pc, run'.how = run.how, run'.session = run.session, run'.todo = run.todo,
              Marks(run') = Marks(run), "in-progress" \in onIssue' => "in-progress" \in onIssue
       PROVE  RunUnmarks'
  <2>1. Unmarks => Unmarks'
    BY <1>11 DEF Unmarks
  <2>2. QED
    BY <1>2, <1>11, <2>1
<1>12. CASE ShutsDown
  BY <1>11, <1>12, ShutsDownDoes DEF RunTo
<1>13. ASSUME NEW j \in Job, Cancel(j) PROVE RunUnmarks'
  <2>1. /\ RunTo(run.job, run.pc, IF run.job = j /\ run.stop = "no" THEN "cancel" ELSE run.stop, run.how, run.session)
        /\ run'.todo = run.todo /\ Marks(run') = Marks(run) /\ UNCHANGED onIssue
    BY <1>13, CancelDoes
  <2>2. QED
    BY <1>11, <2>1 DEF RunTo
<1>14. ASSUME NEW j \in Job, AsksAgain(j) \/ Overruns(j) \/ Reaps(j) \/ Abandons(j) \/ TryStarts(j) \/ TryReads(j)
                             \/ TryIsThrough(j) \/ TryEnds(j)
       PROVE  RunUnmarks'
  <2>1. UNCHANGED <<run, onIssue>>
    BY <1>14, AsksAgainDoes, EndsUnattended, AbandonsDoes, TryStartsDoes, TryReadsDoes, TryIsThroughDoes, TryEndsDoes
  <2>2. QED
    BY <1>11, <2>1
<1>15. ASSUME NEW j \in Job, TryWrites(j) PROVE RunUnmarks'
  <2>1. PICK call \in Calls : call = Head(try[j].todo)
    BY <1>15, TryWritesDoes
  <2>2. /\ try[j].todo \in Seq(Calls) /\ try[j].todo # <<>> /\ (UNCHANGED onIssue \/ Put(call)) /\ UNCHANGED run
    BY <1>15, <2>1, TryWritesDoes DEF Types, Tries
  <2>3. call # Write("add", "in-progress")
    <3>1. Owed(try[j].todo, call)
      BY <2>1, <2>2, HeadAndTail
    <3>2. call = Write("add", j) \/ \E label \in Statuses : call = Write("remove", label)
      BY <3>1 DEF CallsKeepJobs, TryCalls
    <3>3. j # "in-progress"
      BY DEF WorkerAssumption
    <3>4. QED
      BY <3>2, <3>3, OneWrite
  <2>4. "in-progress" \in onIssue' => "in-progress" \in onIssue
    BY <2>2, <2>3, PutAdds
  <2>5. QED
    BY <1>11, <2>2, <2>4
<1>16. CASE UNCHANGED vars
  BY <1>11, <1>16 DEF vars, forge
<1>17. QED
  BY <1>3, <1>4, <1>5, <1>6, <1>7, <1>8, <1>9, <1>10, <1>12, <1>13, <1>14, <1>15, <1>16 DEF Next, Delivery, Cleanup

LEMMA OwedStep ==
  ASSUME WorkerAssumption, Types, Types', OneRun, OneRun', CleanupOfCancel, CleanupOfCancel', CallsKeepJobs, RunUnmarks,
         InProgressIsOwed, [Next]_vars
  PROVE  InProgressIsOwed'
<1>0. /\ NoJob \notin Job /\ run.job \in Job \cup {NoJob} /\ run'.job \in Job \cup {NoJob}
      /\ run.job = NoJob <=> run.pc = "none"
      /\ \A j \in Job : job[j].cleanup \in {"no", "pending", "done", "label_not_set"} /\ job[j].session \in BOOLEAN
                      /\ job[j].att \in {"queued", "running", "ended"} /\ try[j].running \in BOOLEAN /\ try[j].kept \in BOOLEAN
                      /\ CleansUp(j) /\ CleansUp(j)' /\ (run.job = j => InRunner(j))
  BY DEF WorkerAssumption, NoJob, Types, Runs, OneRun, CleanupOfCancel, States, Tries
<1>1. \A j \in Job : Let(j) => Let(j)'
  BY LetStays
(* Whoever has the runner owes it. *)
<1>2. CASE run'.job # NoJob
  <2>1. PICK j \in Job : run'.job = j
    BY <1>0, <1>2
  <2>2. Owes(j)'
    BY <2>1 DEF OneRun, InRunner, Owes
  <2>3. QED
    BY <2>2 DEF InProgressIsOwed
<1>3. ASSUME "in-progress" \in onIssue' => "in-progress" \in onIssue,
             \A j \in Job : Owes(j) => \E k \in Job : Owes(k)'
      PROVE  InProgressIsOwed'
  BY <1>3 DEF InProgressIsOwed
<1>4. ASSUME NEW j \in Job, UNCHANGED job[j], UNCHANGED try[j] \/ try'[j].pc = "none", run.job = NoJob, Owes(j) PROVE Owes(j)'
  BY <1>0, <1>1, <1>4 DEF Owes, TryOwes
<1>5. CASE Returns
  <2>1. /\ run.pc = "return" /\ run.job \in Job /\ UNCHANGED <<try, onIssue>> /\ RunTo(NoJob, "none", "no", "no", FALSE)
    BY <1>5, ReturnsDo
  <2>2. ASSUME "in-progress" \in onIssue PROVE \E j \in Job : Owes(j)'
    <3>1. PICK j \in Job : j = run.job
      BY <2>1
    <3>2. Let(j) \/ run.how = "shutdown"
      BY <2>1, <2>2, <3>1 DEF RunUnmarks, Unmarks
    <3>3. CASE Let(j)
      BY <1>1, <3>3 DEF Owes
    <3>4. CASE run.how = "shutdown"
      <4>1. UNCHANGED job
        BY <1>5, <3>4, ReturnsDo
      <4>2. job[j].state # "cancelled" /\ job[j].state \in {"running", "cancelled"}
        BY <1>0, <3>1, <3>4 DEF InRunner, OneRun
      <4>3. QED
        BY <4>1, <4>2 DEF Owes
    <3>5. QED
      BY <3>2, <3>3, <3>4
  <2>3. QED
    BY <2>1, <2>2 DEF InProgressIsOwed
<1>6. CASE Restarts
  <2>1. /\ run'.job = NoJob /\ UNCHANGED <<job, onIssue>> /\ \A j \in Job : try'[j].pc = "none"
        /\ IF run.session /\ job[run.job].state = "cancelled" THEN Excuse(run.job, "cut") ELSE UNCHANGED excused
    BY <1>6, RestartsDo DEF RunTo
  <2>2. ASSUME NEW j \in Job, run.job # j, Owes(j) PROVE Owes(j)'
    BY <1>1, <2>1, <2>2 DEF Owes, TryOwes
  <2>3. ASSUME NEW j \in Job, run.job = j PROVE Owes(j)'
    <3>1. InRunner(j) /\ CleansUp(j)
      BY <1>0, <2>3
    <3>2. CASE job[j].state = "running"
      BY <2>1, <3>2 DEF Owes
    <3>3. CASE job[j].state = "cancelled" /\ run.session
      <4>1. Excuse(j, "cut")
        BY <2>1, <2>3, <3>3
      <4>2. QED
        BY <4>1, ExcusedLet DEF Owes, Reasons
    <3>4. CASE job[j].state = "cancelled" /\ ~run.session
      <4>1. ~job[j].session /\ job[j].cleanup \in {"no", "pending"} /\ (job[j].cleanup = "pending" \/ job[j].att = "running")
        BY <1>0, <3>1, <3>4 DEF InRunner, CleansUp
      <4>2. QED
        BY <2>1, <3>4, <4>1 DEF Owes, TryOwes
    <3>5. QED
      BY <3>1, <3>2, <3>3, <3>4 DEF InRunner
  <2>4. QED
    BY <1>3, <2>1, <2>2, <2>3
<1>7. CASE Delivery /\ ~Returns
  <2>1. run'.job = run.job /\ run.pc # "none"
    <3>1. CASE Resolve \/ Marked \/ Prepare \/ LoopEnds \/ StageFails \/ Panics \/ Mirrored
      BY <3>1, StagesDo DEF Stage, RunGoes, RunTo
    <3>2. CASE OpenSession \/ Writes \/ Finish
      BY <3>2, OpenSessionDoes, WritesDo, FinishDoes DEF RunGoes, RunTo
    <3>3. QED
      BY <1>7, <3>1, <3>2 DEF Delivery
  <2>2. QED
    BY <1>0, <1>2, <2>1
<1>8. ASSUME NEW j \in Job, Deliver(j) PROVE InProgressIsOwed'
  BY <1>0, <1>2, <1>8, DeliverDoes DEF RunTo
<1>9. ASSUME NEW j \in Job, AsksAgain(j), run.job = NoJob PROVE InProgressIsOwed'
  <2>1. job[j].state \in {"failed", "blocked"} /\ JobTo(j, "queued", "queued", FALSE, job[j].cleanup) /\ UNCHANGED <<try, onIssue>>
    BY <1>9, AsksAgainDoes
  <2>2. ASSUME Owes(j) PROVE Owes(j)'
    BY <1>0, <1>1, <2>1, <2>2 DEF Owes, CleansUp
  <2>3. ASSUME NEW k \in Job \ {j}, Owes(k) PROVE Owes(k)'
    BY <1>4, <1>9, <2>1, <2>3 DEF JobTo
  <2>4. QED
    BY <1>3, <2>1, <2>2, <2>3
<1>10. ASSUME NEW j \in Job, Cancel(j), run.job = NoJob PROVE InProgressIsOwed'
  <2>1. /\ Open(j) /\ JobTo(j, "cancelled", IF job[j].att = "running" THEN "running" ELSE "ended", job[j].session, "pending")
        /\ UNCHANGED <<try, onIssue>>
    BY <1>0, <1>10, CancelDoes
  <2>2. Owes(j)'
    BY <1>0, <2>1 DEF Owes, TryOwes, JobTo, Open, CleansUp
  <2>3. QED
    BY <2>2 DEF InProgressIsOwed
<1>11. ASSUME NEW j \in Job, Overruns(j) \/ Reaps(j), run.job = NoJob PROVE InProgressIsOwed'
  <2>1. job[j].state = "cancelled" /\ Running(j) /\ AttemptEnds(j) /\ UNCHANGED <<try, onIssue>>
    BY <1>11, EndsUnattended
  <2>2. ASSUME Owes(j) PROVE Owes(j)'
    BY <1>0, <1>1, <1>11, <2>1, <2>2 DEF Owes, TryOwes, AttemptEnds, JobTo, Owing, CleansUp
  <2>3. ASSUME NEW k \in Job \ {j}, Owes(k) PROVE Owes(k)'
    BY <1>4, <1>11, <2>1, <2>3 DEF JobTo, AttemptEnds
  <2>4. QED
    BY <1>3, <2>1, <2>2, <2>3
<1>12. CASE ShutsDown /\ run.job = NoJob
  <2>1. UNCHANGED <<job, try, onIssue>>
    BY <1>12, ShutsDownDoes
  <2>2. QED
    BY <1>3, <1>4, <1>12, <2>1
<1>13. ASSUME NEW j \in Job, Abandons(j), run.job = NoJob PROVE InProgressIsOwed'
  <2>1. JobTo(j, job[j].state, job[j].att, job[j].session, "label_not_set") /\ UNCHANGED <<try, onIssue>>
    BY <1>13, AbandonsDoes
  <2>2. Owes(j)'
    BY <2>1 DEF Owes, Let, JobTo
  <2>3. QED
    BY <2>2 DEF InProgressIsOwed
(* A try of one job. *)
<1>14. ASSUME NEW j \in Job, \A k \in Job \ {j} : try'[k] = try[k], UNCHANGED job, run.job = NoJob,
              "in-progress" \in onIssue' => "in-progress" \in onIssue, Owes(j) => \E k \in Job : Owes(k)'
       PROVE  InProgressIsOwed'
  <2>1. ASSUME NEW k \in Job \ {j}, Owes(k) PROVE Owes(k)'
    BY <1>4, <1>14, <2>1
  <2>2. QED
    BY <1>3, <1>14, <2>1
<1>15. ASSUME NEW j \in Job, TryStarts(j), run.job = NoJob PROVE InProgressIsOwed'
  <2>1. /\ job[j].cleanup = "pending" /\ TryTo(j, "issue") /\ UNCHANGED <<job, onIssue>>
        /\ try'[j].running => \E k \in Job \ {j} : job[k].state = "running"
    BY <1>15, TryStartsDoes
  <2>2. CASE ~try'[j].running
    <3>1. Owes(j)'
      BY <2>1, <2>2 DEF TryTo, Owes, TryOwes
    <3>2. QED
      BY <3>1 DEF InProgressIsOwed
  <2>3. CASE try'[j].running
    <3>1. \E k \in Job : Owes(k)'
      BY <2>1, <2>3 DEF Owes
    <3>2. QED
      BY <3>1 DEF InProgressIsOwed
  <2>4. QED
    BY <2>2, <2>3
<1>16. ASSUME NEW j \in Job, TryReads(j), run.job = NoJob PROVE InProgressIsOwed'
  <2>1. try[j].pc = "issue" /\ UNCHANGED <<job, onIssue>> /\ job[j].cleanup = "pending" /\ \A k \in Job \ {j} : try'[k] = try[k]
    BY <1>0, <1>16, TryReadsDoes DEF CleansUp, TryTo
  <2>2. ASSUME Owes(j), "in-progress" \in onIssue PROVE Owes(j)'
    <3>1. CASE \/ Let(j) \/ job[j].state = "running"
               \/ job[j].state = "cancelled" /\ job[j].att = "running" /\ job[j].cleanup = "no" /\ ~job[j].session
      BY <1>1, <2>1, <3>1 DEF Owes
    <3>2. CASE TryOwes(try[j])
      <4>1. ~try[j].running
        BY <2>1, <3>2 DEF TryOwes
      <4>2. \/ try'[j].pc = "writes" /\ Owed(try'[j].todo, Write("remove", "in-progress"))
            \/ try'[j].pc \in {"pending", "label_not_set"}
        BY <1>16, <2>2, <4>1, TryReadsDoes DEF TryTo
      <4>3. QED
        BY <2>1, <4>2 DEF Owes, TryOwes
    <3>3. QED
      BY <1>0, <1>16, <2>2, <3>1, <3>2 DEF Owes
  <2>3. QED
    BY <1>14, <1>16, <2>1, <2>2 DEF InProgressIsOwed
<1>17. ASSUME NEW j \in Job, TryWrites(j), run.job = NoJob PROVE InProgressIsOwed'
  <2>1. PICK call \in Calls : call = Head(try[j].todo)
    BY <1>17, TryWritesDoes
  <2>2. /\ try[j].todo \in Seq(Calls) /\ try[j].todo # <<>> /\ (UNCHANGED onIssue \/ Put(call)) /\ UNCHANGED job
        /\ try[j].pc = "writes" /\ job[j].cleanup = "pending" /\ \A k \in Job \ {j} : try'[k] = try[k]
    BY <1>0, <1>17, <2>1, TryWritesDoes DEF Types, Tries, TryTo, CleansUp
  <2>3. call # Write("add", "in-progress")
    <3>1. Owed(try[j].todo, call)
      BY <2>1, <2>2, HeadAndTail
    <3>2. call = Write("add", j) \/ \E label \in Statuses : call = Write("remove", label)
      BY <3>1 DEF CallsKeepJobs, TryCalls
    <3>3. j # "in-progress"
      BY DEF WorkerAssumption
    <3>4. QED
      BY <3>2, <3>3, OneWrite
  <2>4. "in-progress" \in onIssue' => "in-progress" \in onIssue /\ (Put(call) => call # Write("remove", "in-progress"))
    BY <2>2, <2>3, PutAdds
  <2>5. ASSUME Owes(j), "in-progress" \in onIssue' PROVE Owes(j)'
    <3>1. CASE \/ Let(j) \/ job[j].state = "running"
               \/ job[j].state = "cancelled" /\ job[j].att = "running" /\ job[j].cleanup = "no" /\ ~job[j].session
      BY <1>1, <2>2, <3>1 DEF Owes
    <3>2. CASE TryOwes(try[j])
      <4>1. try[j].kept \/ Owed(try[j].todo, Write("remove", "in-progress"))
        BY <2>2, <3>2 DEF TryOwes
      <4>2. CASE Put(call) /\ TryTo(j, "writes") /\ try'[j].todo = Tail(try[j].todo) /\ try'[j].kept = try[j].kept
        <5>1. try[j].kept \/ Owed(Tail(try[j].todo), Write("remove", "in-progress"))
          BY <2>1, <2>2, <2>4, <2>5, <4>1, <4>2, HeadAndTail
        <5>2. QED
          BY <2>2, <4>2, <5>1 DEF Owes, TryOwes, TryTo
      <4>3. CASE TryTo(j, "writes") /\ try'[j].kept
        BY <2>2, <4>3 DEF Owes, TryOwes, TryTo
      <4>4. CASE TryTo(j, "label_not_set") \/ TryTo(j, "pending")
        BY <2>2, <4>4 DEF Owes, TryOwes, TryTo
      <4>5. QED
        BY <1>17, <2>1, <4>2, <4>3, <4>4, TryWritesDoes
    <3>3. QED
      BY <1>0, <1>17, <2>5, <3>1, <3>2 DEF Owes
  <2>6. QED
    BY <1>14, <1>17, <2>2, <2>4, <2>5 DEF InProgressIsOwed
<1>18. ASSUME NEW j \in Job, TryIsThrough(j), run.job = NoJob PROVE InProgressIsOwed'
  <2>1. /\ try[j].pc = "writes" /\ try[j].todo = <<>> /\ TryTo(j, IF try[j].kept THEN "label_not_set" ELSE "done")
        /\ UNCHANGED <<job, onIssue>>
    BY <1>18, TryIsThroughDoes
  <2>2. ASSUME Owes(j) PROVE Owes(j)'
    <3>1. ~Owed(try[j].todo, Write("remove", "in-progress"))
      BY <2>1, NoneOwed
    <3>2. QED
      BY <1>0, <1>1, <1>18, <2>1, <2>2, <3>1 DEF Owes, TryOwes, TryTo
  <2>3. QED
    BY <1>14, <1>18, <2>1, <2>2 DEF TryTo
<1>19. ASSUME NEW j \in Job, TryEnds(j), run.job = NoJob PROVE InProgressIsOwed'
  <2>1. /\ try[j].pc \in {"pending", "done", "label_not_set"} /\ TryTo(j, "none") /\ UNCHANGED onIssue
        /\ \/ UNCHANGED job
           \/ try[j].pc # "pending" /\ JobTo(j, job[j].state, job[j].att, job[j].session, try[j].pc)
    BY <1>19, TryEndsDoes
  <2>2. ASSUME Owes(j) PROVE Owes(j)'
    BY <1>0, <1>1, <1>19, <2>1, <2>2 DEF Owes, Let, TryOwes, TryTo, JobTo, CleansUp
  <2>3. ASSUME NEW k \in Job \ {j}, Owes(k) PROVE Owes(k)'
    <3>1. job'[k] = job[k] /\ try'[k] = try[k]
      BY <2>1 DEF TryTo, JobTo
    <3>2. QED
      BY <1>4, <1>19, <2>3, <3>1
  <2>4. QED
    BY <1>3, <2>1, <2>2, <2>3
<1>20. CASE UNCHANGED vars
  <2>1. UNCHANGED <<run, job, try, onIssue>>
    BY <1>20 DEF vars, forge
  <2>2. CASE run.job = NoJob
    BY <1>3, <1>4, <2>1, <2>2
  <2>3. QED
    BY <1>2, <2>1, <2>2
<1>21. ASSUME NEW j \in Job, AsksAgain(j) \/ Cancel(j) \/ Overruns(j) \/ Reaps(j) \/ Abandons(j) \/ Cleanup(j) PROVE run'.job = run.job
  BY <1>21, AsksAgainDoes, CancelDoes, EndsUnattended, AbandonsDoes, TryStartsDoes, TryReadsDoes, TryWritesDoes,
     TryIsThroughDoes, TryEndsDoes DEF Cleanup, RunTo
<1>22. ShutsDown => run'.job = run.job
  BY ShutsDownDoes DEF RunTo
<1>23. QED
  BY <1>2, <1>5, <1>6, <1>7, <1>8, <1>9, <1>10, <1>11, <1>12, <1>13, <1>15, <1>16, <1>17, <1>18, <1>19, <1>20, <1>21, <1>22
     DEF Next, Cleanup

-----------------------------------------------------------------------------
(* What the worker foretells of the job. *)

LEMMA MirrorForetells ==
  ASSUME WorkerAssumption, NEW r, r.job \in Job, Owed(Mirror(r), Write("add", "failed"))
  PROVE  NoneFollows(r)
<1> DEFINE call == Write("add", "failed")
<1>1. /\ call # Write("remove", "in-progress") /\ call # Write("comment", "none") /\ call # Write("add", r.job)
      /\ \A status : call = Write("add", status) => status = "failed"
      /\ \A label : call # Write("remove", label)
  BY OneWrite DEF WorkerAssumption
<1> HIDE DEF call
<1>2. Unmark(r) \in Seq(Calls) /\ ~Owed(Unmark(r), call)
  BY <1>1, UnmarkOwed
<1>3. Owed(Mirror(r), call)
  BY DEF call
<1>4. r.session /\ r.how # "shutdown"
  BY <1>3, NoneOwed DEF Mirror
<1>5. CASE r.how = "cancel"
  <2>1. Mirror(r) = Unmark(r) \o Adds(r.job)
    BY <1>4, <1>5 DEF Mirror
  <2>2. Write("add", r.job) \in Calls
    BY WritesAreCalls DEF AnyLabel, Labels
  <2>3. Adds(r.job) \in Seq(Calls) /\ ~Owed(Adds(r.job), call)
    BY <1>1, <2>2, OneOwed DEF Adds
  <2>4. QED
    BY <1>2, <1>3, <2>1, <2>3, BothOwed
<1>6. CASE r.how # "cancel" /\ r.out \in Losses
  BY <1>2, <1>3, <1>4, <1>6 DEF Mirror
<1>7. CASE r.how # "cancel" /\ r.out \notin Losses
  <2> DEFINE says == IF PlanComment(r) THEN <<Write("comment", "none")>> ELSE <<>>
             shows == IF PlanStatus(r) # "none" THEN SetStatus(r, PlanStatus(r)) ELSE Unmark(r)
  <2>1. Mirror(r) = says \o shows
    BY <1>4, <1>7 DEF Mirror, MirrorEnvelope
  <2>2. Write("comment", "none") \in Calls
    BY WritesAreCalls DEF AnyLabel
  <2>3. says \in Seq(Calls) /\ ~Owed(says, call)
    BY <1>1, <2>2, OneOwed, NoneOwed
  <2>4. PlanStatus(r) \in {"none", "needs-human", "ready", "landed", "failed"}
    BY DEF PlanStatus
  <2>5. shows \in Seq(Calls) /\ (Owed(shows, call) => PlanStatus(r) = "failed")
    <3>1. CASE PlanStatus(r) = "none"
      BY <1>2, <3>1
    <3>2. CASE PlanStatus(r) # "none"
      <4>1. PlanStatus(r) \in Statuses
        BY <2>4, <3>2 DEF Statuses
      <4>2. SetStatus(r, PlanStatus(r)) \in Seq(Calls)
            /\ (Owed(SetStatus(r, PlanStatus(r)), call) =>
                  call = Write("add", PlanStatus(r)) \/ \E label \in Statuses : call = Write("remove", label))
        BY <4>1, SetStatusOwed
      <4>3. call = Write("add", PlanStatus(r)) => PlanStatus(r) = "failed"
        BY <1>1
      <4>4. \A label \in Statuses : call # Write("remove", label)
        BY <1>1
      <4>5. Owed(SetStatus(r, PlanStatus(r)), call) => PlanStatus(r) = "failed"
        BY <4>2, <4>3, <4>4
      <4>6. QED
        BY <3>2, <4>2, <4>5
    <3>3. QED
      BY <3>1, <3>2
  <2> HIDE DEF says, shows
  <2>6. PlanStatus(r) = "failed"
    BY <1>3, <2>1, <2>3, <2>5, BothOwed
  <2>7. QED
    BY <2>6 DEF PlanStatus, NoneFollows
<1>8. QED
  BY <1>5, <1>6, <1>7

LEMMA ForetoldStep ==
  ASSUME WorkerAssumption, Types, Types', OneRun, OneRun', Foretold, [Next]_vars
  PROVE  Foretold'
<1>1. ASSUME run'.set = run.set, run'.out = run.out, run'.todo = run.todo, run'.pc = run.pc, run'.job = run.job,
             run'.pc \in {"mirror", "return"} => job'[run.job].round = job[run.job].round
      PROVE  Foretold'
  BY <1>1 DEF Foretold, NoneFollows, AutomaticFollows, Round
<1>2. ASSUME "failed" \notin run'.set, ~Owed(run'.todo, Write("add", "failed")) PROVE Foretold'
  BY <1>2 DEF Foretold
<1>3. run.pc \notin {"mirror", "return"} => "failed" \notin run.set /\ ~Owed(run.todo, Write("add", "failed"))
  BY DEF Foretold
<1>4. CASE Resolve \/ Marked \/ Prepare \/ LoopEnds \/ StageFails \/ Panics
  <2>1. run'.set = run.set
    BY <1>4 DEF Resolve, Marked, Prepare, LoopEnds, StageFails, Panics, Goes, EndsWith, Types, Runs
  <2>2. run'.todo = run.todo /\ run.pc \notin {"mirror", "return"}
    BY <1>4, StagesDo DEF Stage
  <2>3. QED
    BY <1>2, <1>3, <2>1, <2>2
<1>5. CASE OpenSession
  <2> DEFINE r == [run EXCEPT !.pc = "mark", !.session = TRUE]
  <2>1. r \in Runs /\ r.set = run.set /\ run' = [r EXCEPT !.todo = SetStatus(r, "in-progress")] /\ run.pc = "session"
    BY <1>5 DEF OpenSession, Types, Runs, Stages
  <2> HIDE DEF r
  <2>2. run'.set = run.set /\ run'.todo = SetStatus(r, "in-progress")
    BY <2>1 DEF Runs
  <2>3. Write("add", "failed") # Write("add", "in-progress") /\ \A label : Write("add", "failed") # Write("remove", label)
    BY OneWrite
  <2>4. ~Owed(SetStatus(r, "in-progress"), Write("add", "failed"))
    BY <2>3, SetStatusOwed DEF Statuses
  <2>5. QED
    BY <1>2, <1>3, <2>1, <2>2, <2>4
<1>6. CASE Writes
  <2>1. /\ run \in Runs /\ run.pc \in {"mark", "mirror"} /\ run.todo # <<>> /\ run.todo \in Seq(Calls) /\ UNCHANGED job
        /\ Head(run.todo) \in Calls /\ run'.todo \in {<<>>, Tail(run.todo)} /\ run'.pc = run.pc /\ run'.job = run.job
    BY <1>6, WritesDo DEF Types, Runs, RunnerOnly, RunGoes, RunTo
  <2>2. run'.out = run.out /\ ("failed" \in run'.set => "failed" \in run.set \/ Head(run.todo) = Write("add", "failed"))
    <3>1. PICK ok \in BOOLEAN : run' = After(run, Head(run.todo), ok)
      BY <1>6 DEF Writes, WriteDone, WriteFails, ListFails
    <3>2. QED
      BY <2>1, <3>1, AfterFields
  <2>3. \A call : Owed(run.todo, call) <=> call = Head(run.todo) \/ Owed(Tail(run.todo), call)
    BY <2>1, HeadAndTail
  <2>4. Owed(run'.todo, Write("add", "failed")) => Owed(run.todo, Write("add", "failed"))
    BY <2>1, <2>3, NoneOwed
  <2>5. NoneFollows(run)' = NoneFollows(run)
    BY <2>1, <2>2 DEF NoneFollows, AutomaticFollows, Round
  <2>6. QED
    BY <2>1, <2>2, <2>3, <2>4, <2>5 DEF Foretold
<1>7. CASE Finish
  <2> DEFINE r == [run EXCEPT !.pc = "mirror", !.how = run.stop]
  <2>1. /\ r \in Runs /\ r.job = run.job /\ r.out = run.out /\ r.set = run.set /\ run.job \in Job /\ run.pc = "finish"
        /\ run' = [r EXCEPT !.todo = Mirror(r)] /\ UNCHANGED job
    BY <1>7, FinishDoes DEF Finish, Types, Runs, Stages, Here
  <2> HIDE DEF r
  <2>2. run'.set = run.set /\ run'.todo = Mirror(r) /\ run'.out = run.out /\ run'.job = run.job /\ run'.pc = "mirror"
    BY <1>7, <2>1, FinishDoes DEF Runs, RunTo
  <2>3. Owed(Mirror(r), Write("add", "failed")) => NoneFollows(r)
    BY <2>1, MirrorForetells
  <2>4. NoneFollows(r) => NoneFollows(run)'
    BY <2>1, <2>2 DEF NoneFollows, AutomaticFollows, Round
  <2>5. QED
    BY <1>3, <2>1, <2>2, <2>3, <2>4 DEF Foretold
<1>8. CASE Mirrored
  <2>1. run'.set = run.set /\ run'.out = run.out /\ run'.job = run.job /\ run'.pc = "return"
        /\ run'.todo = <<>> /\ run.pc = "mirror" /\ UNCHANGED job
    BY <1>8 DEF Mirrored, Types, Runs, Here
  <2>2. NoneFollows(run)' = NoneFollows(run)
    BY <2>1 DEF NoneFollows, AutomaticFollows, Round
  <2>3. QED
    BY <2>1, <2>2, NoneOwed DEF Foretold
<1>9. CASE Returns \/ Restarts \/ \E j \in Job : Deliver(j)
  <2>1. run'.set = {} /\ run'.todo = <<>>
    BY <1>9, NoRunTyped DEF Returns, Restarts, Deliver, Runs
  <2>2. QED
    BY <1>2, <2>1, NoneOwed
<1>10. ASSUME NEW j \in Job, AsksAgain(j) \/ Overruns(j) \/ Reaps(j) \/ Abandons(j) \/ Cleanup(j) PROVE Foretold'
  <2>1. UNCHANGED run
    BY <1>10, AsksAgainDoes, EndsUnattended, AbandonsDoes, TryStartsDoes, TryReadsDoes, TryWritesDoes, TryIsThroughDoes,
       TryEndsDoes DEF Cleanup
  <2>2. ASSUME NEW k \in Job, run.job = k PROVE job'[k].round = job[k].round
    <3>1. CASE AsksAgain(j)
      BY <2>2, <3>1, AsksAgainDoes DEF JobTo, OneRun, InRunner
    <3>2. CASE Overruns(j) \/ Reaps(j)
      <4>1. EndCancelled(job[j], NoRun).round = job[j].round
        BY EndCancelledFields, NoRunTyped DEF Types
      <4>2. job' = [job EXCEPT ![j] = EndCancelled(job[j], NoRun)]
        BY <3>2 DEF Overruns, Reaps
      <4>3. QED
        BY <4>1, <4>2 DEF Types
    <3>3. CASE Abandons(j) \/ Cleanup(j)
      <4>1. job[k] \in States /\ job[j] \in States
        BY DEF Types
      <4>2. CASE Abandons(j)
        BY <4>1, <4>2 DEF Abandons, Types, States
      <4>3. CASE TryEnds(j)
        <5> DEFINE set == IF try[j].wrote = {} THEN job[j].set ELSE try[j].wrote \cap {j}
                   d == [job[j] EXCEPT !.cleanup = try[j].pc, !.set = set]
        <5>1. UNCHANGED job \/ job' = [job EXCEPT ![j] = d]
          BY <4>1, <4>3 DEF TryEnds, Types, States
        <5>2. d.round = job[j].round
          BY <4>1 DEF States
        <5> HIDE DEF set, d
        <5>3. CASE UNCHANGED job
          BY <5>3
        <5>4. CASE job' = [job EXCEPT ![j] = d]
          <6>1. job'[k] = IF k = j THEN d ELSE job[k]
            BY <5>4 DEF Types
          <6>2. QED
            BY <5>2, <6>1
        <5>5. QED
          BY <5>1, <5>3, <5>4
      <4>4. CASE TryStarts(j) \/ TryReads(j) \/ TryWrites(j) \/ TryIsThrough(j)
        BY <4>4 DEF TryStarts, TryReads, TryWrites, TryIsThrough, Trying
      <4>5. QED
        BY <3>3, <4>2, <4>3, <4>4 DEF Cleanup
    <3>4. QED
      BY <1>10, <3>1, <3>2, <3>3
  <2>3. run.pc \in {"mirror", "return"} => run.job \in Job
    BY DEF OneRun, Types, Runs
  <2>4. QED
    BY <1>1, <2>1, <2>2, <2>3
<1>11. ASSUME NEW j \in Job, Cancel(j) PROVE Foretold'
  <2>1. run'.set = run.set /\ run'.out = run.out
    BY <1>11 DEF Cancel, Types, Runs
  <2>2. \A k \in Job : job'[k].round = job[k].round
    BY <1>11 DEF Cancel, Types, States
  <2>3. run.pc \in {"mirror", "return"} => run.job \in Job
    BY DEF OneRun, Types, Runs
  <2>4. QED
    BY <1>1, <1>11, <2>1, <2>2, <2>3, CancelDoes DEF RunTo
<1>12. CASE ShutsDown
  <2>1. run'.set = run.set /\ run'.out = run.out
    BY <1>12 DEF ShutsDown, Types, Runs
  <2>2. QED
    BY <1>1, <1>12, <2>1, ShutsDownDoes DEF RunTo
<1>13. CASE UNCHANGED vars
  BY <1>1, <1>13 DEF vars
<1>14. QED
  BY <1>4, <1>5, <1>6, <1>7, <1>8, <1>9, <1>10, <1>11, <1>12, <1>13 DEF Next, Delivery

-----------------------------------------------------------------------------
(* The theorems. *)

LEMMA LabelInit == ASSUME WorkerAssumption, Init PROVE LabelInv /\ RunUnmarks
<1>1. Types
  <2>1. job \in [Job -> States]
    BY DEF Init, States
  <2>2. Before \subseteq AnyLabel
    BY DEF WorkerAssumption, AnyLabel
  <2>3. QED
    BY <2>1, <2>2, NoRunTyped DEF Init, Types
<1>2. \A j \in Job : /\ job[j].state = "queued" /\ job[j].cleanup = "no" /\ try[j].pc = "none" /\ try[j].todo = <<>>
                    /\ comments[j] = 0
  BY NoRunTyped DEF Init
<1>3. run.job = NoJob /\ run.pc = "none" /\ run.stop = "no" /\ run.how = "no" /\ run.todo = <<>> /\ NoJob \notin Job
  BY NoRunTyped DEF Init, WorkerAssumption, NoJob
<1>4. OneRun /\ CleanupOfCancel
  BY <1>2, <1>3 DEF OneRun, CleanupOfCancel, CleansUp
<1>5. CallsKeepJobs
  BY <1>2, <1>3, NoneOwed DEF CallsKeepJobs, RunCalls, TryCalls
<1>6. PutsBack /\ CommentOnce /\ RunUnmarks
  BY <1>2, <1>3 DEF PutsBack, TryPutsBack, RunPutsBack, CommentOnce, RunUnmarks
<1>7. QED
  BY <1>1, <1>4, <1>5, <1>6 DEF LabelInv

LEMMA LabelStep ==
  ASSUME WorkerAssumption, LabelInv, RunUnmarks, [Next]_vars PROVE LabelInv' /\ RunUnmarks'
<1> USE DEF LabelInv
<1>1. Types'
  BY TypesStep
<1>2. OneRun' /\ CleanupOfCancel' /\ CallsKeepJobs' /\ CommentOnce'
  BY <1>1, LifeStep, CallsStep, CommentsStep
<1>3. PutsBack'
  BY <1>1, TryPutsBackStep, RunPutsBackStep DEF PutsBack
<1>4. RunUnmarks'
  BY <1>1, RunUnmarksStep
<1>5. QED
  BY <1>1, <1>2, <1>3, <1>4

LEMMA PutsBackMeans == ASSUME LabelInv PROVE CancelPutsBack
<1> SUFFICES ASSUME NEW j \in Job, job[j].state = "cancelled", Settled(j), job[j].cleanup # "label_not_set", excused[j] = {}
             PROVE  j \in onIssue
  BY DEF CancelPutsBack, PutBack
<1>1. job[j].cleanup \in {"no", "done"}
  BY DEF LabelInv, Types, States, Settled
<1>2. QED
  BY <1>1 DEF LabelInv, PutsBack, TryPutsBack, RunPutsBack, Settled, Running

LEMMA OwedMeans == ASSUME InProgressIsOwed PROVE NotLeftInProgress
<1> SUFFICES ASSUME \A j \in Job : Settled(j) /\ job[j].state # "running" /\ job[j].cleanup # "label_not_set"
                                  /\ excused[j] \subseteq {"late"},
                    NEW j \in Job, Owes(j)
             PROVE  FALSE
  BY DEF InProgressIsOwed, NotLeftInProgress
<1>1. QED
  BY DEF Owes, Let, Settled, Running

(* mirror.go, the cancel, and labelcleanup: whatever labels the issue has at first, the request label of a cancelled job *)
(* is put back, and no attempt comments twice.                                                                          *)
THEOREM CancelsPutBack == ASSUME WorkerAssumption PROVE Spec => [](CancelPutsBack /\ CommentOnce)
<1>1. Init => LabelInv /\ RunUnmarks
  BY LabelInit
<1>2. LabelInv /\ RunUnmarks /\ [Next]_vars => LabelInv' /\ RunUnmarks'
  BY LabelStep
<1>3. LabelInv => CancelPutsBack /\ CommentOnce
  BY PutsBackMeans DEF LabelInv
<1>4. QED
  BY <1>1, <1>2, <1>3, PTL DEF Spec

(* mirror.go and labelcleanup: an issue that does not say at first that an attempt works tells people what became of its *)
(* jobs: request labels are put back, in-progress is not left when nothing is on its way, and no attempt comments twice. *)
THEOREM TellsTheJob ==
  ASSUME WorkerAssumption, "in-progress" \notin Before PROVE Spec => []IssueTellsTheJob
<1> DEFINE Inv == LabelInv /\ RunUnmarks /\ InProgressIsOwed
<1>1. Init => Inv
  BY LabelInit DEF Init, InProgressIsOwed
<1>2. Inv /\ [Next]_vars => Inv'
  <2> SUFFICES ASSUME Inv, [Next]_vars PROVE Inv'
    OBVIOUS
  <2>1. LabelInv' /\ RunUnmarks'
    BY LabelStep
  <2>2. InProgressIsOwed'
    BY <2>1, OwedStep DEF LabelInv
  <2>3. QED
    BY <2>1, <2>2
<1>3. Inv => IssueTellsTheJob
  BY PutsBackMeans, OwedMeans DEF LabelInv, IssueTellsTheJob
<1> HIDE DEF Inv
<1>4. QED
  BY <1>1, <1>2, <1>3, PTL DEF Spec

(* A job leaves the runner when it returns, or the process ends. *)
LEMMA OnlyReturns ==
  ASSUME WorkerAssumption, Types, OneRun, [Next]_vars, NEW j \in Job, run.job = j
  PROVE  run'.job = j \/ UNCHANGED job \/ Returns
<1>1. run.pc # "none"
  BY DEF OneRun, WorkerAssumption, NoJob
<1>2. CASE Resolve \/ Marked \/ Prepare \/ LoopEnds \/ StageFails \/ Panics \/ Mirrored
  BY <1>2, StagesDo DEF Stage, RunGoes, RunTo
<1>3. CASE OpenSession \/ Writes \/ Finish
  BY <1>3, OpenSessionDoes, WritesDo, FinishDoes DEF RunGoes, RunTo
<1>4. CASE ShutsDown \/ Restarts
  BY <1>4, ShutsDownDoes, RestartsDo DEF RunTo
<1>5. ASSUME NEW k \in Job, AsksAgain(k) \/ Cancel(k) \/ Overruns(k) \/ Reaps(k) \/ Abandons(k) \/ Cleanup(k)
      PROVE  run'.job = j
  BY <1>5, AsksAgainDoes, CancelDoes, EndsUnattended, AbandonsDoes, TryStartsDoes, TryReadsDoes, TryWritesDoes,
     TryIsThroughDoes, TryEndsDoes DEF Cleanup, RunTo
<1>6. ASSUME NEW k \in Job, Deliver(k) PROVE FALSE
  BY <1>1, <1>6, DeliverDoes
<1>7. QED
  BY <1>2, <1>3, <1>4, <1>5, <1>6 DEF Next, Delivery, vars

(* What a job comes to when the issue was told that no attempt follows. *)
LEMMA RulesAsForetold ==
  ASSUME Types, OneRun, Returns, run.how = "no", NoneFollows(run), NEW j \in Job, run.job = j
  PROVE  job'[j].state \in {"failed", "cancelled"}
<1>1. job[j] \in States /\ run \in Runs /\ InRunner(j)
  BY DEF Types, OneRun
<1>2. job'[j] = IF ~Running(j) \/ run.how = "shutdown" THEN job[j]
                ELSE IF job[j].state = "cancelled" THEN EndCancelled(job[j], run)
                ELSE Ruling(Stores(job[j], run), run.out)
  BY DEF Returns, Types
<1>3. CASE ~Running(j)
  BY <1>1, <1>2, <1>3 DEF InRunner, Running
<1>4. CASE Running(j) /\ job[j].state = "cancelled"
  BY <1>1, <1>2, <1>4, EndCancelledFields
<1>5. CASE Running(j) /\ job[j].state # "cancelled"
  <2>1. PICK set \in SUBSET AnyLabel : Stores(job[j], run) = [job[j] EXCEPT !.set = set]
    BY <1>1 DEF Stores, Runs, States
  <2> DEFINE d == [job[j] EXCEPT !.set = set]
  <2>2. d \in States /\ d.round = job[j].round
    BY <1>1 DEF States
  <2>3. d = Stores(job[j], run)
    BY <2>1
  <2> HIDE DEF d
  <2>4. run.out = "failure" \/ (run.out = "retryable" /\ ~(d.round < MaxRound))
    BY <2>2 DEF NoneFollows, AutomaticFollows, Round
  <2>5. Ruling(d, run.out) = EndsAs(d, "failed")
    BY <2>4 DEF Ruling
  <2>6. EndsAs(d, "failed").state = "failed"
    BY <2>2 DEF EndsAs, States
  <2>7. QED
    BY <1>2, <1>5, <2>3, <2>5, <2>6
<1>6. QED
  BY <1>3, <1>4, <1>5

(* mirror.go, planOf, and the jobs layer: an issue that says failed has a job that ends as failed, unless it is cancelled. *)
THEOREM ForetellsTheEnd == ASSUME WorkerAssumption PROVE Spec => FailedMeansFailed
<1> DEFINE Inv == LabelInv /\ RunUnmarks /\ Foretold
           Kept == \A j \in Job :
             run.job = j /\ run.pc = "return" /\ run.how = "no" /\ "failed" \in run.set /\ job'[j].att # "running"
               => job'[j].state \in {"failed", "cancelled"}
<1>1. Init => Inv
  <2>1. Init => run.set = {} /\ run.todo = <<>>
    BY NoRunTyped DEF Init, NoRun
  <2>2. QED
    BY <2>1, LabelInit, NoneOwed DEF Foretold
<1>2. Inv /\ [Next]_vars => Inv'
  BY LabelStep, ForetoldStep DEF LabelInv
<1>3. Inv /\ [Next]_vars => [Kept]_vars
  <2> SUFFICES ASSUME Inv, [Next]_vars, NEW j \in Job, run.job = j, run.pc = "return", run.how = "no", "failed" \in run.set,
                      job'[j].att # "running"
               PROVE  job'[j].state \in {"failed", "cancelled"}
    OBVIOUS
  <2>1. OneRun /\ OneRun' /\ Types
    BY <1>2 DEF LabelInv
  <2>2. CASE Returns
    BY <2>1, <2>2, RulesAsForetold DEF Foretold
  <2>3. CASE run'.job = j
    BY <2>1, <2>3 DEF OneRun, InRunner
  <2>4. CASE UNCHANGED job
    BY <2>1, <2>4 DEF OneRun, InRunner
  <2>5. run'.job = j \/ UNCHANGED job \/ Returns
    BY <2>1, OnlyReturns
  <2>6. QED
    BY <2>2, <2>3, <2>4, <2>5
<1>4. FailedMeansFailed <=> [][Kept]_vars
  BY DEF FailedMeansFailed
<1> HIDE DEF Inv, Kept
<1>5. QED
  BY <1>1, <1>2, <1>3, <1>4, PTL DEF Spec

====
