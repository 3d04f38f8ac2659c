-------------------------------- MODULE Fix --------------------------------
(***************************************************************************)
(* af fix (internal/fix, afcmd/fix.go): the rounds of a brain in a box     *)
(* that is held, the tree of a round applied to the checkout and measured  *)
(* in the box, and the end: a change lands, is parked, is discarded for a  *)
(* question, or stays where it is.  The run may be told to stop and its    *)
(* time may be over at any step, and a person may move the checkout.       *)
(*                                                                         *)
(* A tree is the change in it: the round that made it, whether it was      *)
(* applied whole, and whether protected paths are changed.  What a change, *)
(* a report and a message say, what a brain does within a round, and hooks *)
(* of the repository that write to the tree are left out.                  *)
(*                                                                         *)
(* A definition marked VARIANT is the one after it with a mistake that     *)
(* would be easy to make.                                                  *)
(***************************************************************************)
EXTENDS Naturals, FiniteSets

CONSTANTS
  Checks,     \* the checks of the gate
  MaxTurns,   \* the turns of the run; a round that comes to an end has used some
  MaxFaults   \* bound: calls that fail, and moves of a person

ASSUME FixAssumption == MaxTurns \in Nat \ {0} /\ MaxFaults \in Nat

VARIABLES
  pc,        \* where the run is
  mode,      \* --land: pr, branch or none
  noVerify,  \* --no-verify
  baseline,  \* the checks that passed on the tree as it was
  turns,     \* the turns that are left
  round,     \* the rounds that were started
  measured,  \* the last measurement
  why,       \* why the loop ended, or "none"
  time,      \* what is left until the deadline
  told,      \* whether a signal told the run to stop
  tree,      \* what the checkout holds beyond its commit
  head,      \* what is checked out: the base, the branch of the run, or something else
  box,       \* what the box holds beyond the base
  work,      \* the last tree that the run left in the checkout to be judged
  holds,     \* whether the loop found the tree changed when it ended
  commit,    \* the commit of the run
  pushed,    \* whether its branch is on origin
  result,    \* how the run ended
  warned,    \* the warnings
  faults

given == <<mode, noVerify, baseline>>
loop == <<turns, round, measured, box, work>>
clock == <<time, told>>
branch == <<commit, pushed>>
vars == <<pc, given, loop, why, clock, tree, head, holds, branch, result, warned, faults>>

Clean == [round |-> 0, whole |-> TRUE, protected |-> FALSE]
Verdicts == {"none", "no_change", "unverified", "regressed", "still_failing", "pass_was_already_failing", "pass"}
Trees == [round : 0 .. MaxTurns, whole : BOOLEAN, protected : BOOLEAN]
NoCommit == [tree |-> Clean, kind |-> "none", closes |-> FALSE]

Stopped == told \/ time = "over"
Goes(to) == pc' = to
Fault == faults < MaxFaults /\ faults' = faults + 1
NoFault == UNCHANGED faults
Fails == (Stopped /\ NoFault) \/ Fault   \* a call on the context of the run
Warns(code) == warned' = warned \cup {code}

Looping == UNCHANGED <<given, clock, head, holds, branch, result, warned>>
Ending == UNCHANGED <<given, loop, clock, holds>>

-----------------------------------------------------------------------------
(* The rounds. *)

(* The checks before a run end it with nothing changed; the baseline is the gate on the tree as it is. *)
Preflights ==
  /\ pc = "preflight"
  /\ \/ Goes("round") /\ NoFault /\ UNCHANGED result
     \/ Fails /\ Goes("done") /\ result' = "failed"
  /\ UNCHANGED <<loop, why, tree, head, branch, warned>> /\ Ending

LoopEnds(how) == Goes("loop ends") /\ why' = how
Errs == LoopEnds(IF Stopped THEN "stopped" ELSE "failed")

Continue == turns >= 1 /\ time = "enough"

(* Another round starts while there are turns and time for it, in a box that holds the tree that was refused. *)
StartsRound ==
  /\ pc = "round"
  /\ \/ Stopped /\ LoopEnds("stopped") /\ NoFault /\ UNCHANGED <<box, round>>
     \/ ~Stopped /\ round > 0 /\ ~Continue /\ LoopEnds("exhausted") /\ NoFault /\ UNCHANGED <<box, round>>
     \/ ~Stopped /\ round > 0 /\ Continue /\ Fault /\ LoopEnds("exhausted") /\ UNCHANGED <<box, round>>
     \/ /\ ~Stopped /\ (round = 0 \/ Continue) /\ NoFault
        /\ Goes("brain") /\ box' = tree /\ round' = round + 1 /\ UNCHANGED why
  /\ UNCHANGED <<turns, measured, work, tree>> /\ Looping

(* A round that came to something goes on once fix.json is written. *)
Written(next) == (next /\ NoFault) \/ (LoopEnds("failed") /\ Fault)
RoundFails == Fails /\ LoopEnds(IF Stopped THEN "stopped" ELSE "exhausted")

(* The brain ends with a report on the tree of the box, with a question, or with neither. *)
BrainEnds ==
  /\ pc = "brain"
  /\ turns' \in 0 .. turns - 1
  /\ \/ /\ box' \in {Clean} \cup [round : {round}, whole : {TRUE}, protected : BOOLEAN]
        /\ Goes("apply") /\ NoFault /\ UNCHANGED why
     \/ Written(LoopEnds("question")) /\ UNCHANGED box
     \/ RoundFails /\ UNCHANGED box
  /\ UNCHANGED <<round, measured, work, tree>> /\ Looping

Half == [round : {round}, whole : {FALSE}, protected : {box.protected, tree.protected}]

(* VARIANT of Applies: a tree that could not be applied whole is measured as it is. *)
AppliesAsItCan ==
  /\ pc = "apply"
  /\ \/ tree' = box /\ NoFault
     \/ tree' \in Half /\ Fails
  /\ work' = tree' /\ Goes("base") /\ UNCHANGED why
  /\ UNCHANGED <<turns, round, measured, box>> /\ Looping

(* Apply decides before it writes; a write that fails, or a stop, leaves some paths of each tree. *)
Applies ==
  /\ pc = "apply"
  /\ \/ tree' = box /\ Written(Goes("base") /\ UNCHANGED why)
     \/ (tree' = tree \/ tree' \in Half) /\ RoundFails
  /\ work' = tree'
  /\ UNCHANGED <<turns, round, measured, box>> /\ Looping

-----------------------------------------------------------------------------
(* The measuring. *)

Measures(of, verdict, lands, closes) ==
  measured' = [of |-> of, verdict |-> verdict, lands |-> lands, closes |-> closes]

(* The checkout must be where the run began; the protected paths are put back, and something must be left then. *)
MeasuresBase ==
  /\ pc = "base"
  /\ \/ ((head # "base" /\ NoFault) \/ Fails) /\ Errs /\ UNCHANGED <<tree, measured>>
     \/ /\ head = "base" /\ NoFault
        /\ tree' \in {Clean} \cup (IF tree = Clean THEN {} ELSE {[tree EXCEPT !.protected = FALSE]})
        /\ tree' = Clean => tree = Clean \/ tree.protected
        /\ CASE tree' = Clean -> Measures(tree', "no_change", FALSE, FALSE) /\ Goes("round") /\ UNCHANGED why
             [] tree' # Clean /\ noVerify -> Measures(tree', "unverified", TRUE, FALSE) /\ LoopEnds("landable")
             [] OTHER -> Goes("gate") /\ UNCHANGED <<measured, why>>
  /\ work' = tree'
  /\ UNCHANGED <<turns, round, box>> /\ Looping

Row(check, after) ==
  IF check \in after
  THEN IF check \in baseline THEN "pass" ELSE "pass_was_already_failing"
  ELSE IF check \in baseline THEN "regressed" ELSE "still_failing"

(* Compare: the worst row decides; with no check on a side, or other checks than before, nothing was measured. *)
Compare(after) ==
  LET rows == {Row(check, after) : check \in Checks}
  IN IF "regressed" \in rows THEN "regressed"
     ELSE IF "still_failing" \in rows THEN "still_failing"
     ELSE IF "pass_was_already_failing" \in rows THEN "pass_was_already_failing"
     ELSE "pass"
Landable(verdict) == verdict \in {"pass", "pass_was_already_failing"}

(* The checks run in the box, on the tree of the checkout. *)
Gates ==
  /\ pc = "gate"
  /\ box' = tree
  /\ \/ Fails /\ Errs /\ UNCHANGED measured
     \/ /\ \E verdict \in {Compare(after) : after \in SUBSET Checks} \cup {"unverified"} :
              /\ Measures(box', verdict, Landable(verdict), FALSE)
              /\ Goes(IF Landable(verdict) THEN "prove" ELSE "round")
        /\ NoFault /\ UNCHANGED why
  /\ UNCHANGED <<turns, round, work, tree>> /\ Looping

(* Only a change that the revert check proves closes the issue. *)
Proves ==
  /\ pc = "prove"
  /\ box' = tree
  /\ \/ Fails /\ Errs /\ UNCHANGED measured
     \/ \E proven \in BOOLEAN : measured' = [measured EXCEPT !.closes = proven] /\ LoopEnds("landable") /\ NoFault
  /\ UNCHANGED <<turns, round, work, tree>> /\ Looping

(* What the loop says of the tree when it ends: a tree that cannot be read is taken to hold nothing.  The box is closed *)
(* then, which may take its time.                                                                                        *)
HoldsChange ==
  /\ pc = "loop ends"
  /\ Goes("finish")
  /\ \/ holds' = (tree # Clean) /\ NoFault
     \/ holds' = FALSE /\ Fault
  /\ UNCHANGED <<given, loop, why, clock, tree, head, branch, result, warned>>

-----------------------------------------------------------------------------
(* The end of the run. *)

Done(how) == Goes("done") /\ result' = how

Finishes ==
  /\ pc = "finish" /\ why # "question"
  /\ CASE why = "stopped" -> Goes("park") /\ UNCHANGED result
       [] why = "landable" -> Goes("land") /\ UNCHANGED result
       [] why = "exhausted" /\ holds -> Goes("park") /\ UNCHANGED result
       [] OTHER -> Done("failed")
  /\ NoFault /\ UNCHANGED <<why, tree, head, branch, warned>> /\ Ending

(* A question: the change of an earlier round is discarded, in a checkout that is where the run began. *)
Discards ==
  /\ pc = "finish" /\ why = "question"
  /\ Done("needs_human")
  /\ \/ ~holds /\ NoFault /\ UNCHANGED <<tree, warned>>
     \/ holds /\ head = "base" /\ ~Stopped /\ NoFault /\ tree' = Clean /\ UNCHANGED warned
     \/ /\ holds /\ ((head # "base" /\ NoFault) \/ Fails)
        /\ Warns("question_tree_kept")
        /\ UNCHANGED tree
  /\ UNCHANGED <<why, head, branch>> /\ Ending

Interrupted == why = "stopped"
(* The context of an interrupted parking is one that the stop did not reach. *)
ParkCallFails == IF Interrupted THEN Fault ELSE Fails
ParkFails ==
  /\ Done("failed")
  /\ IF Interrupted THEN Warns("park_failed") ELSE UNCHANGED warned

ParkBegins ==
  /\ pc = "park"
  /\ \/ tree = Clean /\ NoFault /\ Done("failed") /\ UNCHANGED <<head, warned>>   \* nothing to park
     \/ tree # Clean /\ NoFault /\ (Interrupted \/ ~Stopped) /\ Goes("park commits") /\ head' = "branch" /\ UNCHANGED <<result, warned>>
     \/ ParkCallFails /\ ParkFails /\ UNCHANGED head
  /\ UNCHANGED <<why, tree, branch>> /\ Ending

Commits(kind, closes) == commit' = [tree |-> tree, kind |-> kind, closes |-> closes] /\ tree' = Clean

(* VARIANT of UndoBranch: the tree of the base is put back with the branch. *)
UndoBranchHard == head' = "base" /\ tree' = Clean /\ UNCHANGED branch

(* The change goes back to the base with the checkout, which may fail. *)
UndoBranch == head' \in {"base", "branch"} /\ UNCHANGED <<tree, branch>>

ParkCommits ==
  /\ pc = "park commits"
  /\ \/ (Interrupted \/ ~Stopped) /\ NoFault /\ Commits("parked", FALSE) /\ Goes("parked") /\ UNCHANGED <<head, pushed, result, warned>>
     \/ ParkCallFails /\ UndoBranch /\ ParkFails
  /\ UNCHANGED why /\ Ending

(* The push and the pull request of a parked change are tried, and a failure of either is a warning. *)
ParkPushes ==
  /\ pc = "parked"
  /\ \/ (Interrupted \/ mode = "none") /\ NoFault /\ UNCHANGED <<pushed, warned>>
     \/ ~Interrupted /\ mode # "none" /\ ~Stopped /\ NoFault /\ pushed' = TRUE /\ UNCHANGED warned
     \/ ~Interrupted /\ mode # "none" /\ Fails /\ Warns("push_failed") /\ pushed' \in BOOLEAN
     \/ ~Interrupted /\ mode = "pr" /\ Fails /\ Warns("pull_request_failed") /\ pushed' = TRUE
  /\ Goes("parked back")
  /\ UNCHANGED <<why, tree, head, commit, result>> /\ Ending

(* recordCommit and backToBase, on a context that nothing stops. *)
ParkEnds ==
  /\ pc = "parked back"
  /\ \/ NoFault /\ head' = "base" /\ Done(IF Interrupted THEN "failed" ELSE "parked") /\ Warns("fix_not_landed")
     \/ Fault /\ UNCHANGED head /\ ParkFails
  /\ UNCHANGED <<why, tree, branch>> /\ Ending

(* VARIANT of LandFails: a landing that was stopped is tried again. *)
LandFailsAgain ==
  IF Stopped THEN Goes("land") /\ UNCHANGED <<why, result>>
  ELSE Done("failed") /\ UNCHANGED why

(* A landing that was stopped is parked; one that failed otherwise is a failure. *)
LandFails ==
  IF Stopped THEN Goes("park") /\ why' = "stopped" /\ UNCHANGED result
  ELSE Done("failed") /\ UNCHANGED why

LandBegins ==
  /\ pc = "land"
  /\ \/ ~Stopped /\ NoFault /\ head' = "branch" /\ Goes("land commits") /\ UNCHANGED <<why, result>>
     \/ Fails /\ LandFails /\ UNCHANGED head
  /\ UNCHANGED <<tree, branch, warned>> /\ Ending

(* One commit, with the hooks of the repository; one that is refused is made without them, and parked. *)
LandCommits ==
  /\ pc = "land commits"
  /\ \/ ~Stopped /\ NoFault /\ Commits("landed", measured.closes) /\ Goes("landed") /\ UNCHANGED <<why, head, pushed, result, warned>>
     \/ ~Stopped /\ Fault /\ Commits("parked", FALSE) /\ Goes("parked") /\ Warns("commit_hook_failed") /\ UNCHANGED <<why, head, pushed, result>>
     \/ Fails /\ UndoBranch /\ LandFails /\ UNCHANGED warned
  /\ Ending

LandPushes ==
  /\ pc = "landed"
  /\ \/ (mode = "none" \/ ~Stopped) /\ NoFault /\ pushed' = (mode # "none") /\ Goes("landed back") /\ UNCHANGED warned
     \/ mode = "pr" /\ Fails /\ pushed' = TRUE /\ Goes("landed back") /\ Warns("pull_request_failed")
     \/ mode # "none" /\ Fails /\ pushed' \in BOOLEAN /\ Goes("unpushed back") /\ UNCHANGED warned
  /\ UNCHANGED <<why, tree, head, commit, result>> /\ Ending

LandEnds ==
  /\ pc \in {"landed back", "unpushed back"}
  /\ \/ NoFault /\ head' = "base" /\ (IF pc = "landed back" THEN Done("landed") /\ UNCHANGED why ELSE LandFails)
     \/ Fault /\ UNCHANGED head /\ LandFails
  /\ UNCHANGED <<tree, branch, warned>> /\ Ending

-----------------------------------------------------------------------------
TimePasses ==
  /\ pc # "done" /\ time # "over"
  /\ time' = IF time = "enough" THEN "late" ELSE "over"
  /\ UNCHANGED <<pc, given, loop, why, told, tree, head, holds, branch, result, warned, faults>>

Signal ==
  /\ pc # "done" /\ ~told /\ told' = TRUE
  /\ UNCHANGED <<pc, given, loop, why, time, tree, head, holds, branch, result, warned, faults>>

(* A person checks out something else while the rounds are made, and the change goes along. *)
PersonMoves ==
  /\ pc \in {"brain", "apply", "gate", "loop ends", "finish"} /\ head = "base" /\ head' = "away"
  /\ Fault
  /\ UNCHANGED <<pc, given, loop, why, clock, tree, holds, branch, result, warned>>

Init ==
  /\ pc = "preflight"
  /\ mode \in {"pr", "branch", "none"} /\ noVerify \in BOOLEAN /\ baseline \in SUBSET Checks
  /\ turns = MaxTurns /\ round = 0
  /\ measured = [of |-> Clean, verdict |-> "none", lands |-> FALSE, closes |-> FALSE]
  /\ why = "none" /\ time = "enough" /\ told = FALSE
  /\ tree = Clean /\ head = "base" /\ box = Clean /\ work = Clean /\ holds = FALSE
  /\ commit = NoCommit /\ pushed = FALSE /\ result = "none" /\ warned = {} /\ faults = 0

Rounds == StartsRound \/ BrainEnds \/ Applies \/ MeasuresBase \/ Gates \/ Proves \/ HoldsChange
Finish ==
  \/ Finishes \/ Discards \/ ParkBegins \/ ParkCommits \/ ParkPushes \/ ParkEnds
  \/ LandBegins \/ LandCommits \/ LandPushes \/ LandEnds
Run == Preflights \/ Rounds \/ Finish

Next == Run \/ TimePasses \/ Signal \/ PersonMoves

Spec == Init /\ [][Next]_vars

(* Every call of the run has a bound of time, the brain of a round too. *)
LiveSpec == Spec /\ WF_vars(Run)

-----------------------------------------------------------------------------
(* What every variable holds. *)
TypeOK ==
  /\ mode \in {"pr", "branch", "none"} /\ noVerify \in BOOLEAN /\ baseline \subseteq Checks
  /\ turns \in 0 .. MaxTurns /\ round \in 0 .. MaxTurns
  /\ tree \in Trees /\ box \in Trees /\ work \in Trees /\ head \in {"base", "branch", "away"}
  /\ measured \in [of : Trees, verdict : Verdicts, lands : BOOLEAN, closes : BOOLEAN]
  /\ commit \in [tree : Trees, kind : {"none", "landed", "parked"}, closes : BOOLEAN]

(* Land: the commit that lands is of the tree that the checks and the revert check ran on in the box, applied whole and *)
(* with no protected path, and closes the issue only if it was proven there.                                            *)
LandsWhatWasMeasured ==
  commit.kind = "landed" =>
    /\ measured.lands /\ commit.tree = measured.of
    /\ commit.tree # Clean /\ commit.tree.whole /\ ~commit.tree.protected
    /\ commit.closes => measured.closes /\ ~noVerify

(* Finish: what the last round left in the checkout is in it, or in a commit, however the run ends; only a question *)
(* discards it.                                                                                                      *)
WorkIsThere == pc = "done" => work = Clean \/ tree = work \/ commit.tree = work \/ result = "needs_human"

(* cli.md, "How a fix run ends": a run that landed or parked its change left the checkout on the base and clean, and so *)
(* did one that ended on a question, unless it said otherwise or could not read the tree.                               *)
EndsWhereItBegan ==
  pc = "done" =>
    /\ result \in {"landed", "parked"} => head = "base" /\ tree = Clean
    /\ result = "needs_human" => tree = Clean \/ ~holds \/ "question_tree_kept" \in warned

(* Finish: a run loses none of the work it leaves, and leaves it where it says. *)
WorkIsKept == WorkIsThere /\ EndsWhereItBegan

(* RunLoop, Continue: the run ends. *)
RunEnds == <>(pc = "done")

(* cli.md, "How a fix run ends": a run that a signal or the deadline ends has parked its change, or says that it could *)
(* not.  It does not hold: the change of a run whose rounds are used up is parked on the context of the run, and stays *)
(* in the checkout when the stop comes after the last round, while the box is closed or the change is parked.          *)
StoppedIsParked ==
  pc = "done" /\ result = "failed" /\ Stopped /\ why \in {"stopped", "exhausted"} => tree = Clean \/ "park_failed" \in warned

(* cli.md, "Rounds": a check that already failed is not held against the change.  It does not hold: a check that fails  *)
(* before and after is still_failing, which may not land.                                                               *)
OldFailuresDoNotCount == measured.verdict # "still_failing"
=============================================================================
