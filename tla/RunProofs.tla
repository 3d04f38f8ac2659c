------------------------------ MODULE RunProofs ------------------------------
(***************************************************************************)
(* What Fix keeps for any number of checks, turns and failed calls, Apply  *)
(* for any number of applies, and Shell for any number of reports.         *)
(*                                                                         *)
(* Fix: a tree that may land is whole when it is applied, loses its        *)
(* protected paths before it is measured, is measured as it is, and is not *)
(* touched until its commit (Lands); a commit that landed leaves nothing   *)
(* in the checkout, so that no parking that follows makes another          *)
(* (Landed).  What the rounds left is in the checkout until it is          *)
(* committed, and is all of the commit then (Kept).                        *)
(*                                                                         *)
(* Apply: until it is through, a path that the export has is as the export *)
(* has it, beyond a link, or still to be mirrored, and what git lists in   *)
(* the checkout is so too or to be deleted (Planned, Mirrored).  An        *)
(* ignored file is in no tracked path's way (WayIsFree), so that no        *)
(* directory is made in its place.                                         *)
(*                                                                         *)
(* Shell: each warning is an event while the stream is open (Told), and    *)
(* nobody reports before the command runs, or after it but one that was    *)
(* given up on (Speaks).                                                   *)
(***************************************************************************)
EXTENDS MCRun, Sequences, FiniteSetTheorems, TLAPS

(* A round that was started has used a turn when it ends. *)
Turns ==
  /\ pc # "brain" => turns + round <= MaxTurns
  /\ pc = "brain" => turns >= 1 /\ round >= 1 /\ turns + round <= MaxTurns + 1
  /\ round = 0 => turns = MaxTurns

Types == TypeOK /\ Turns

Unmarked(t) == t # Clean /\ t.whole /\ ~t.protected
MayLand == measured.lands /\ measured.of = tree /\ Unmarked(tree) /\ (measured.closes => ~noVerify)

Lands ==
  /\ pc = "apply" => box.whole
  /\ pc = "base" => tree.whole
  /\ pc \in {"gate", "prove"} => Unmarked(tree) /\ ~noVerify
  /\ pc = "prove" => measured.lands /\ measured.of = tree
  /\ pc \in {"loop ends", "finish"} /\ why = "landable" => MayLand
  /\ pc \in {"land", "land commits"} => MayLand

Landed ==
  /\ pc \in {"preflight", "round", "brain", "apply", "base", "gate", "prove", "loop ends", "finish", "land", "land commits", "park commits"}
       => commit.kind = "none"
  /\ pc = "park" => commit.kind = "none" \/ tree = Clean
  /\ pc \in {"landed", "landed back", "unpushed back"} => tree = Clean

Kept ==
  /\ pc # "done" => result = "none"
  /\ commit.kind = "none" => tree = work \/ (pc = "done" /\ result = "needs_human")
  /\ commit.kind # "none" => commit.tree = work /\ tree = Clean
  /\ pc \in {"parked", "parked back", "landed", "landed back", "unpushed back"} => commit.kind # "none"
  /\ EndsWhereItBegan

IInv == Types /\ Lands /\ Landed /\ LandsWhatWasMeasured /\ Kept

LEMMA CleanIsATree == Clean \in Trees /\ Clean.whole /\ ~Clean.protected
  BY FixAssumption DEF Clean, Trees

LEMMA TurnUsed ==
  ASSUME NEW max \in Nat, NEW was \in 0 .. max, NEW started \in 0 .. max, NEW left \in 0 .. was - 1, was + started <= max + 1
  PROVE  left \in 0 .. max /\ left + started <= max
  OBVIOUS

LEMMA InitIInv == Init => IInv
<1> SUFFICES ASSUME Init PROVE IInv
  OBVIOUS
<1>1. TypeOK
  <2>1. commit \in [tree : Trees, kind : {"none", "landed", "parked"}, closes : BOOLEAN]
    BY CleanIsATree DEF Init, NoCommit
  <2>2. measured \in [of : Trees, verdict : Verdicts, lands : BOOLEAN, closes : BOOLEAN]
    BY CleanIsATree DEF Init, Verdicts
  <2>3. QED
    BY <2>1, <2>2, CleanIsATree, FixAssumption DEF Init, TypeOK
<1>2. Turns
  BY FixAssumption DEF Init, Turns
<1>3. Lands /\ Landed /\ LandsWhatWasMeasured
  BY DEF Init, Lands, Landed, LandsWhatWasMeasured, NoCommit
<1>4. Kept
  BY DEF Init, Kept, EndsWhereItBegan, NoCommit
<1>5. QED
  BY <1>1, <1>2, <1>3, <1>4 DEF IInv, Types

(* The rounds: their trees. *)
LEMMA RoundTypes ==
  ASSUME Types, Rounds
  PROVE  Types'
<1>a. turns \in 0 .. MaxTurns /\ round \in 0 .. MaxTurns /\ MaxTurns \in Nat \ {0} /\ Turns
  BY FixAssumption DEF Types, TypeOK
<1>b. tree \in Trees /\ box \in Trees /\ work \in Trees /\ measured \in [of : Trees, verdict : Verdicts, lands : BOOLEAN, closes : BOOLEAN]
  BY DEF Types, TypeOK
<1>c. ASSUME UNCHANGED <<given, head, commit>>, Turns', turns' \in 0 .. MaxTurns, round' \in 0 .. MaxTurns,
             tree' \in Trees, box' \in Trees, work' \in Trees,
             measured' \in [of : Trees, verdict : Verdicts, lands : BOOLEAN, closes : BOOLEAN]
      PROVE  Types'
  BY <1>c DEF Types, TypeOK, given
<1>d. ASSUME UNCHANGED <<turns, round>>, pc # "brain", pc' # "brain"
      PROVE  Turns' /\ turns' \in 0 .. MaxTurns /\ round' \in 0 .. MaxTurns
  BY <1>a, <1>d DEF Turns
<1>1. CASE StartsRound
  <2>1. UNCHANGED <<turns, measured, work, tree, given, head, commit>> /\ box' \in {box, tree} /\ pc = "round"
    BY <1>1 DEF StartsRound, Looping, branch
  <2>2. \/ UNCHANGED round /\ pc' = "loop ends"
        \/ round' = round + 1 /\ pc' = "brain" /\ (round = 0 \/ turns >= 1)
    BY <1>1 DEF StartsRound, LoopEnds, Goes, Continue
  <2>3. Turns' /\ turns' \in 0 .. MaxTurns /\ round' \in 0 .. MaxTurns
    <3>1. turns' = turns /\ turns + round <= MaxTurns /\ (round = 0 => turns = MaxTurns)
      BY <1>a, <2>1 DEF Turns
    <3>2. CASE round' = round + 1 /\ pc' = "brain" /\ (round = 0 \/ turns >= 1)
      <4>1. turns >= 1 /\ round + 1 \in 1 .. MaxTurns /\ turns + (round + 1) <= MaxTurns + 1
        BY <1>a, <3>1, <3>2
      <4>2. QED
        BY <1>a, <3>1, <3>2, <4>1 DEF Turns
    <3>3. CASE UNCHANGED round /\ pc' = "loop ends"
      BY <1>a, <3>1, <3>3 DEF Turns
    <3>4. QED
      BY <2>2, <3>2, <3>3
  <2>4. QED
    BY <1>b, <1>c, <2>1, <2>3
<1>2. CASE BrainEnds
  <2>1. UNCHANGED <<round, measured, work, tree, given, head, commit>> /\ turns' \in 0 .. turns - 1 /\ pc = "brain"
    BY <1>2 DEF BrainEnds, Looping, branch
  <2>2. pc' \in {"apply", "loop ends"}
    BY <1>2 DEF BrainEnds, Written, RoundFails, LoopEnds, Goes
  <2>3. box' \in {box, Clean} \cup [round : {round}, whole : {TRUE}, protected : BOOLEAN]
    BY <1>2 DEF BrainEnds
  <2>4. box' \in Trees
    BY <1>a, <1>b, <2>3, CleanIsATree DEF Trees
  <2>5. Turns' /\ turns' \in 0 .. MaxTurns
    <3>1. turns >= 1 /\ round >= 1 /\ turns + round <= MaxTurns + 1
      BY <1>a, <2>1 DEF Turns
    <3>2. round' = round /\ turns' \in 0 .. turns - 1 /\ pc' # "brain"
      BY <2>1, <2>2
    <3>3. turns' \in 0 .. MaxTurns /\ turns' + round <= MaxTurns
      BY <1>a, <3>1, <3>2, TurnUsed
    <3>4. round # 0
      BY <1>a, <3>1
    <3>5. QED
      BY <3>2, <3>3, <3>4 DEF Turns
  <2>6. QED
    BY <1>a, <1>b, <1>c, <2>1, <2>4, <2>5
<1>3. CASE Applies
  <2>1. UNCHANGED <<turns, round, measured, box, given, head, commit>> /\ pc' # "brain" /\ pc # "brain" /\ work' = tree'
    BY <1>3 DEF Applies, Looping, branch, Written, RoundFails, LoopEnds, Goes
  <2>2. tree' \in {box, tree} \cup Half
    BY <1>3 DEF Applies, Written
  <2>3. Half \subseteq Trees
    BY <1>a, <1>b DEF Half, Trees
  <2>4. QED
    BY <1>b, <1>c, <1>d, <2>1, <2>2, <2>3
<1>4. CASE MeasuresBase
  <2>1. UNCHANGED <<turns, round, box, given, head, commit>> /\ pc' # "brain" /\ pc # "brain" /\ work' = tree'
    BY <1>4 DEF MeasuresBase, Looping, branch, Errs, LoopEnds, Goes
  <2>2. tree' \in {tree, Clean, [tree EXCEPT !.protected = FALSE]}
    BY <1>4 DEF MeasuresBase
  <2>3. tree' \in Trees
    BY <1>b, <2>2, CleanIsATree DEF Trees
  <2>4. UNCHANGED measured \/ measured' = [of |-> tree', verdict |-> "no_change", lands |-> FALSE, closes |-> FALSE]
          \/ measured' = [of |-> tree', verdict |-> "unverified", lands |-> TRUE, closes |-> FALSE]
    BY <1>4 DEF MeasuresBase, Measures
  <2>5. "no_change" \in Verdicts /\ "unverified" \in Verdicts
    BY DEF Verdicts
  <2>6. measured' \in [of : Trees, verdict : Verdicts, lands : BOOLEAN, closes : BOOLEAN]
    <3>1. CASE UNCHANGED measured
      BY <1>b, <3>1
    <3>2. CASE measured' = [of |-> tree', verdict |-> "no_change", lands |-> FALSE, closes |-> FALSE]
      BY <2>3, <2>5, <3>2
    <3>3. CASE measured' = [of |-> tree', verdict |-> "unverified", lands |-> TRUE, closes |-> FALSE]
      BY <2>3, <2>5, <3>3
    <3>4. QED
      BY <2>4, <3>1, <3>2, <3>3
  <2>7. QED
    BY <1>b, <1>c, <1>d, <2>1, <2>3, <2>6
<1>5. CASE Gates
  <2>1. UNCHANGED <<turns, round, work, tree, given, head, commit>> /\ pc' # "brain" /\ pc # "brain" /\ box' = tree
    BY <1>5 DEF Gates, Looping, branch, Errs, LoopEnds, Goes
  <2>2. \A after : Compare(after) \in Verdicts
    BY DEF Compare, Verdicts
  <2>3. \A verdict : Landable(verdict) \in BOOLEAN
    BY DEF Landable
  <2>4. UNCHANGED measured \/ \E verdict \in Verdicts : measured' = [of |-> tree, verdict |-> verdict, lands |-> Landable(verdict), closes |-> FALSE]
    BY <1>5, <2>1, <2>2 DEF Gates, Measures, Verdicts
  <2>5. measured' \in [of : Trees, verdict : Verdicts, lands : BOOLEAN, closes : BOOLEAN]
    <3>1. CASE UNCHANGED measured
      BY <1>b, <3>1
    <3>2. ASSUME NEW verdict \in Verdicts, measured' = [of |-> tree, verdict |-> verdict, lands |-> Landable(verdict), closes |-> FALSE]
          PROVE  measured' \in [of : Trees, verdict : Verdicts, lands : BOOLEAN, closes : BOOLEAN]
      <4>1. Landable(verdict) \in BOOLEAN
        BY <2>3
      <4>2. QED
        BY <1>b, <3>2, <4>1
    <3>3. QED
      BY <2>4, <3>1, <3>2
  <2>6. QED
    BY <1>b, <1>c, <1>d, <2>1, <2>5
<1>6. CASE Proves
  <2>1. UNCHANGED <<turns, round, work, tree, given, head, commit>> /\ pc' # "brain" /\ pc # "brain" /\ box' = tree
    BY <1>6 DEF Proves, Looping, branch, Errs, LoopEnds, Goes
  <2>2. UNCHANGED measured \/ \E proven \in BOOLEAN : measured' = [measured EXCEPT !.closes = proven]
    BY <1>6 DEF Proves
  <2>3. measured' \in [of : Trees, verdict : Verdicts, lands : BOOLEAN, closes : BOOLEAN]
    BY <1>b, <2>2
  <2>4. QED
    BY <1>b, <1>c, <1>d, <2>1, <2>3
<1>7. CASE HoldsChange
  BY <1>b, <1>c, <1>d, <1>7 DEF HoldsChange, loop, branch, Goes
<1>8. QED
  BY <1>1, <1>2, <1>3, <1>4, <1>5, <1>6, <1>7 DEF Rounds

(* The rounds: what they hand to the end of the run. *)
LEMMA RoundLands ==
  ASSUME Types, Lands, Landed, Rounds
  PROVE  Lands' /\ Landed'
<1>1. commit.kind = "none" /\ UNCHANGED <<commit, noVerify>>
  BY DEF Landed, Rounds, StartsRound, BrainEnds, Applies, MeasuresBase, Gates, Proves, HoldsChange, Looping, branch, given
<1>2. pc' \in {"round", "brain", "apply", "base", "gate", "prove", "loop ends", "finish"}
  BY DEF Rounds, StartsRound, BrainEnds, Applies, MeasuresBase, Gates, Proves, HoldsChange, LoopEnds, Goes, Written, RoundFails, Errs
<1>3. Landed'
  BY <1>1, <1>2 DEF Landed
<1>4. Lands'
  <2>1. CASE StartsRound
    BY <2>1 DEF StartsRound, LoopEnds, Goes, Lands
  <2>2. CASE BrainEnds
    <3>1. (pc' = "apply" /\ box'.whole) \/ (pc' = "loop ends" /\ why' # "landable")
      BY <2>2, CleanIsATree DEF BrainEnds, Written, RoundFails, LoopEnds, Goes
    <3>2. QED
      BY <3>1 DEF Lands
  <2>3. CASE Applies
    <3>1. (pc' = "base" /\ tree' = box /\ box.whole) \/ (pc' = "loop ends" /\ why' # "landable")
      BY <2>3 DEF Applies, Written, RoundFails, LoopEnds, Goes, Lands
    <3>2. QED
      BY <3>1 DEF Lands
  <2>4. CASE MeasuresBase
    <3>1. CASE UNCHANGED tree /\ Errs
      BY <3>1 DEF Errs, LoopEnds, Goes, Lands
    <3>2. CASE tree' = Clean /\ pc' = "round"
      BY <3>2 DEF Lands
    <3>3. CASE tree' = [tree EXCEPT !.protected = FALSE] /\ tree' # Clean
      <4>1. Unmarked(tree')
        BY <2>4, <3>3 DEF MeasuresBase, Lands, Unmarked, Types, TypeOK, Trees
      <4>2. \/ noVerify /\ measured' = [of |-> tree', verdict |-> "unverified", lands |-> TRUE, closes |-> FALSE] /\ pc' = "loop ends"
            \/ ~noVerify /\ pc' = "gate"
            \/ pc' = "loop ends" /\ why' # "landable"
        BY <2>4, <3>3 DEF MeasuresBase, Measures, LoopEnds, Goes, Errs
      <4>3. CASE measured' = [of |-> tree', verdict |-> "unverified", lands |-> TRUE, closes |-> FALSE] /\ pc' = "loop ends"
        <5>1. measured'.lands /\ measured'.of = tree' /\ ~measured'.closes
          BY <4>3
        <5>2. QED
          BY <4>1, <4>3, <5>1 DEF Lands, MayLand, Unmarked
      <4>4. QED
        BY <1>1, <4>1, <4>2, <4>3 DEF Lands, Unmarked
    <3>4. QED
      BY <2>4, <3>1, <3>2, <3>3 DEF MeasuresBase, Goes
  <2>5. CASE Gates
    <3>1. UNCHANGED tree /\ Unmarked(tree) /\ ~noVerify
      BY <2>5 DEF Gates, Lands
    <3>2. \/ pc' = "loop ends" /\ why' # "landable"
          \/ pc' = "round"
          \/ pc' = "prove" /\ measured'.lands /\ measured'.of = tree
      <4>1. CASE Errs
        BY <4>1 DEF Errs, LoopEnds, Goes
      <4>2. ASSUME NEW verdict, Measures(box', verdict, Landable(verdict), FALSE), Goes(IF Landable(verdict) THEN "prove" ELSE "round")
            PROVE  pc' = "round" \/ (pc' = "prove" /\ measured'.lands /\ measured'.of = box')
        BY <4>2 DEF Measures, Goes
      <4>3. QED
        BY <2>5, <4>1, <4>2 DEF Gates
    <3>3. QED
      BY <1>1, <3>1, <3>2 DEF Lands, Unmarked
  <2>6. CASE Proves
    <3>1. UNCHANGED tree /\ Unmarked(tree) /\ ~noVerify /\ measured.lands /\ measured.of = tree
      BY <2>6 DEF Proves, Lands
    <3>2. \/ pc' = "loop ends" /\ why' # "landable"
          \/ pc' = "loop ends" /\ measured'.lands = measured.lands /\ measured'.of = measured.of
      BY <2>6 DEF Proves, Errs, LoopEnds, Goes, Types, TypeOK
    <3>3. QED
      BY <1>1, <3>1, <3>2 DEF Lands, MayLand, Unmarked, Types, TypeOK
  <2>7. CASE HoldsChange
    BY <2>7 DEF HoldsChange, Goes, Lands, MayLand, Unmarked, loop, given
  <2>8. QED
    BY <2>1, <2>2, <2>3, <2>4, <2>5, <2>6, <2>7 DEF Rounds
<1>5. QED
  BY <1>3, <1>4

(* The rounds: what they leave in the checkout is the work of the run. *)
LEMMA RoundKeeps ==
  ASSUME Landed, Kept, Rounds
  PROVE  Kept'
<1>1. commit.kind = "none" /\ UNCHANGED <<commit, result>> /\ pc # "done"
  BY DEF Landed, Rounds, StartsRound, BrainEnds, Applies, MeasuresBase, Gates, Proves, HoldsChange, Looping, branch
<1>2. pc' \in {"round", "brain", "apply", "base", "gate", "prove", "loop ends", "finish"}
  BY DEF Rounds, StartsRound, BrainEnds, Applies, MeasuresBase, Gates, Proves, HoldsChange, LoopEnds, Goes, Written, RoundFails, Errs
<1>3. UNCHANGED <<tree, work>> \/ work' = tree'
  BY DEF Rounds, StartsRound, BrainEnds, Applies, MeasuresBase, Gates, Proves, HoldsChange, loop
<1>4. QED
  BY <1>1, <1>2, <1>3 DEF Kept, EndsWhereItBegan

(* The end: the work is in the checkout until the commit takes all of it, and a run that says that it landed or parked *)
(* is on the base.                                                                                                      *)
LEMMA FinishLosesNothing ==
  ASSUME Landed, Kept, Finish
  PROVE  Kept'
<1>0. UNCHANGED <<work, holds>> /\ result = "none" /\ pc # "done"
  BY DEF Finish, Finishes, Discards, ParkBegins, ParkCommits, ParkPushes, ParkEnds, LandBegins, LandCommits, LandPushes, LandEnds,
         Ending, loop, Kept
<1>1. CASE Finishes \/ ParkBegins \/ LandBegins
  <2>1. UNCHANGED <<tree, commit>> /\ pc' \in {"park", "park commits", "land", "land commits", "done"}
    BY <1>1 DEF Finishes, ParkBegins, LandBegins, Done, Goes, LandFails, ParkFails, branch
  <2>2. (UNCHANGED result /\ pc' # "done") \/ (result' = "failed" /\ pc' = "done")
    BY <1>1 DEF Finishes, ParkBegins, LandBegins, Done, Goes, LandFails, ParkFails
  <2>3. QED
    BY <1>0, <2>1, <2>2 DEF Kept, EndsWhereItBegan
<1>2. CASE Discards
  <2>1. UNCHANGED commit /\ commit.kind = "none" /\ pc' = "done" /\ result' = "needs_human"
    BY <1>2 DEF Discards, Landed, branch, Done, Goes
  <2>2. ~holds \/ tree' = Clean \/ "question_tree_kept" \in warned'
    BY <1>2 DEF Discards, Warns
  <2>3. QED
    BY <1>0, <2>1, <2>2 DEF Kept, EndsWhereItBegan
<1>3. CASE ParkCommits \/ LandCommits
  <2>1. commit.kind = "none" /\ tree = work
    BY <1>0, <1>3 DEF ParkCommits, LandCommits, Landed, Kept
  <2>2. \/ tree' = Clean /\ commit'.tree = tree /\ commit'.kind # "none" /\ pc' \in {"parked", "landed"} /\ UNCHANGED result
        \/ UNCHANGED <<tree, commit>> /\ pc' = "done" /\ result' = "failed"
        \/ UNCHANGED <<tree, commit>> /\ pc' = "park" /\ UNCHANGED result
    <3>1. ASSUME NEW kind \in {"parked", "landed"}, NEW closes, Commits(kind, closes)
          PROVE  tree' = Clean /\ commit'.tree = tree /\ commit'.kind # "none"
      BY <3>1 DEF Commits
    <3>2. CASE ParkCommits
      BY <3>1, <3>2 DEF ParkCommits, UndoBranch, branch, ParkFails, Done, Goes
    <3>3. CASE LandCommits
      BY <3>1, <3>3 DEF LandCommits, UndoBranch, branch, LandFails, Done, Goes
    <3>4. QED
      BY <1>3, <3>2, <3>3
  <2>3. QED
    BY <1>0, <2>1, <2>2 DEF Kept, EndsWhereItBegan
<1>4. CASE ParkPushes \/ ParkEnds \/ LandPushes \/ LandEnds
  <2>1. commit.kind # "none" /\ UNCHANGED <<tree, commit>>
    BY <1>4 DEF ParkPushes, ParkEnds, LandPushes, LandEnds, Kept, branch
  <2>2. \/ pc' # "done" /\ UNCHANGED result
        \/ pc' = "done" /\ result' = "failed"
        \/ pc' = "done" /\ result' \in {"landed", "parked"} /\ head' = "base"
    BY <1>4 DEF ParkPushes, ParkEnds, LandPushes, LandEnds, ParkFails, LandFails, Done, Goes
  <2>3. QED
    BY <1>0, <2>1, <2>2 DEF Kept, EndsWhereItBegan
<1>5. QED
  BY <1>1, <1>2, <1>3, <1>4 DEF Finish

(* The end: the change is committed, and neither measured nor changed again. *)
LEMMA FinishKeeps ==
  ASSUME IInv, Finish
  PROVE  IInv'
<1>0. Types /\ Lands /\ Landed /\ LandsWhatWasMeasured
  BY DEF IInv
<1>1. UNCHANGED <<given, loop, clock, holds>> /\ pc # "brain" /\ pc' # "brain"
  BY DEF Finish, Finishes, Discards, ParkBegins, ParkCommits, ParkPushes, ParkEnds, LandBegins, LandCommits, LandPushes, LandEnds,
         Ending, Done, Goes, LandFails, ParkFails
<1>2. tree' \in {tree, Clean} /\ head' \in {head, "base", "branch"}
  BY DEF Finish, Finishes, Discards, ParkBegins, ParkCommits, ParkPushes, ParkEnds, LandBegins, LandCommits, LandPushes, LandEnds,
         Commits, UndoBranch
<1>3. \/ UNCHANGED commit
      \/ ParkCommits /\ commit' = [tree |-> tree, kind |-> "parked", closes |-> FALSE] /\ pc' = "parked"
      \/ LandCommits /\ commit' = [tree |-> tree, kind |-> "parked", closes |-> FALSE] /\ pc' = "parked"
      \/ LandCommits /\ commit' = [tree |-> tree, kind |-> "landed", closes |-> measured.closes] /\ tree' = Clean /\ pc' = "landed"
  BY DEF Finish, Finishes, Discards, ParkBegins, ParkCommits, ParkPushes, ParkEnds, LandBegins, LandCommits, LandPushes, LandEnds,
         Commits, UndoBranch, branch, Goes
<1>4. Types'
  <2>1. tree' \in Trees /\ head' \in {"base", "branch", "away"}
    BY <1>0, <1>2, CleanIsATree DEF Types, TypeOK
  <2>2. commit' \in [tree : Trees, kind : {"none", "landed", "parked"}, closes : BOOLEAN]
    <3>1. commit \in [tree : Trees, kind : {"none", "landed", "parked"}, closes : BOOLEAN] /\ tree \in Trees /\ measured.closes \in BOOLEAN
      BY <1>0 DEF Types, TypeOK
    <3>2. \/ UNCHANGED commit
          \/ commit' = [tree |-> tree, kind |-> "parked", closes |-> FALSE]
          \/ commit' = [tree |-> tree, kind |-> "landed", closes |-> measured.closes]
      BY <1>3
    <3>3. CASE commit' = [tree |-> tree, kind |-> "parked", closes |-> FALSE]
      BY <3>1, <3>3
    <3>4. CASE commit' = [tree |-> tree, kind |-> "landed", closes |-> measured.closes]
      BY <3>1, <3>4
    <3>5. QED
      BY <3>1, <3>2, <3>3, <3>4
  <2>3. QED
    BY <1>0, <1>1, <2>1, <2>2 DEF Types, TypeOK, Turns, given, loop
<1>5. Lands'
  <2>1. pc' \in {"land", "land commits"} => UNCHANGED tree /\ MayLand
    BY <1>0 DEF Finish, Finishes, Discards, ParkBegins, ParkCommits, ParkPushes, ParkEnds, LandBegins, LandCommits, LandPushes, LandEnds,
                Done, Goes, LandFails, ParkFails, Lands
  <2>2. pc' \in {"land", "land commits", "park", "park commits", "parked", "parked back", "landed", "landed back", "unpushed back", "done"}
    BY DEF Finish, Finishes, Discards, ParkBegins, ParkCommits, ParkPushes, ParkEnds, LandBegins, LandCommits, LandPushes, LandEnds,
           Done, Goes, LandFails, ParkFails
  <2>3. UNCHANGED <<measured, noVerify>>
    BY <1>1 DEF given, loop
  <2>4. QED
    BY <2>1, <2>2, <2>3 DEF Lands, MayLand, Unmarked
<1>6. Landed'
  <2>1. CASE Finishes \/ Discards \/ ParkBegins \/ LandBegins
    <3>1. UNCHANGED commit /\ pc' \in {"park", "park commits", "land", "land commits", "done"}
      BY <2>1 DEF Finishes, Discards, ParkBegins, LandBegins, Done, Goes, LandFails, ParkFails, branch
    <3>2. pc \in {"finish", "land"} \/ (pc = "park" /\ (pc' = "done" \/ tree # Clean))
      BY <2>1 DEF Finishes, Discards, ParkBegins, LandBegins, Done, Goes, ParkFails
    <3>3. QED
      BY <1>0, <3>1, <3>2 DEF Landed
  <2>2. CASE ParkCommits \/ LandCommits
    <3>1. pc \in {"park commits", "land commits"}
      BY <2>2 DEF ParkCommits, LandCommits
    <3>2. \/ pc' = "parked" \/ pc' = "done"
          \/ pc' = "landed" /\ tree' = Clean
          \/ pc' = "park" /\ UNCHANGED commit
      BY <2>2 DEF ParkCommits, LandCommits, Commits, UndoBranch, branch, Done, Goes, LandFails, ParkFails
    <3>3. QED
      BY <1>0, <3>1, <3>2 DEF Landed
  <2>3. CASE ParkPushes \/ ParkEnds
    BY <2>3 DEF ParkPushes, ParkEnds, Goes, Done, ParkFails, Landed
  <2>4. CASE LandPushes \/ LandEnds
    <3>1. UNCHANGED tree /\ pc \in {"landed", "landed back", "unpushed back"} /\ pc' \in {"landed back", "unpushed back", "done", "park"}
      BY <2>4 DEF LandPushes, LandEnds, Done, Goes, LandFails
    <3>2. QED
      BY <1>0, <3>1 DEF Landed
  <2>5. QED
    BY <2>1, <2>2, <2>3, <2>4 DEF Finish
<1>7. LandsWhatWasMeasured'
  <2>1. CASE UNCHANGED commit
    BY <1>0, <1>1, <2>1 DEF LandsWhatWasMeasured, loop, given
  <2>2. CASE commit'.kind = "parked"
    BY <2>2 DEF LandsWhatWasMeasured
  <2>3. CASE LandCommits /\ commit' = [tree |-> tree, kind |-> "landed", closes |-> measured.closes]
    <3>1. MayLand
      BY <1>0, <2>3 DEF LandCommits, Lands
    <3>2. QED
      BY <1>1, <2>3, <3>1 DEF LandsWhatWasMeasured, MayLand, Unmarked, loop, given
  <2>4. QED
    BY <1>3, <2>1, <2>2, <2>3
<1>8. Kept'
  BY FinishLosesNothing DEF IInv
<1>9. QED
  BY <1>4, <1>5, <1>6, <1>7, <1>8 DEF IInv

LEMMA NextIInv == IInv /\ [Next]_vars => IInv'
<1> SUFFICES ASSUME IInv, [Next]_vars PROVE IInv'
  OBVIOUS
<1>1. CASE Rounds
  <2>1. Types' /\ Lands' /\ Landed'
    BY <1>1, RoundTypes, RoundLands DEF IInv
  <2>2. LandsWhatWasMeasured'
    BY <1>1 DEF IInv, Landed, LandsWhatWasMeasured, Rounds, StartsRound, BrainEnds, Applies, MeasuresBase, Gates, Proves, HoldsChange, Looping, branch
  <2>3. Kept'
    BY <1>1, RoundKeeps DEF IInv
  <2>4. QED
    BY <2>1, <2>2, <2>3 DEF IInv
<1>2. CASE Finish
  BY <1>2, FinishKeeps
<1>3. CASE Preflights
  <2>1. UNCHANGED <<loop, given, tree, head, commit>> /\ pc = "preflight" /\ pc' \in {"round", "done"}
    BY <1>3 DEF Preflights, Ending, Goes, branch
  <2>2. pc' = "done" => result' = "failed"
    BY <1>3 DEF Preflights, Goes
  <2>3. pc' # "done" => UNCHANGED result
    BY <1>3 DEF Preflights, Goes
  <2>4. Kept'
    BY <2>1, <2>2, <2>3 DEF IInv, Kept, EndsWhereItBegan, Landed, loop
  <2>5. Types' /\ Lands' /\ Landed' /\ LandsWhatWasMeasured'
    BY <2>1 DEF IInv, Types, TypeOK, Turns, Lands, Landed, LandsWhatWasMeasured, loop, given
  <2>6. QED
    BY <2>4, <2>5 DEF IInv
<1>4. CASE TimePasses \/ Signal \/ PersonMoves \/ UNCHANGED vars
  <2>1. UNCHANGED <<pc, why, tree, commit, loop, given>> /\ head' \in {head, "away"}
    BY <1>4 DEF TimePasses, Signal, PersonMoves, vars, branch
  <2>2. Types'
    BY <2>1 DEF IInv, Types, TypeOK, Turns, loop, given
  <2>3. Lands'
    BY <2>1 DEF IInv, Lands, MayLand, Unmarked, loop, given
  <2>4. Landed' /\ LandsWhatWasMeasured'
    BY <2>1 DEF IInv, Landed, LandsWhatWasMeasured, loop, given
  <2>5. Kept'
    <3>1. UNCHANGED <<holds, result, warned>> /\ (UNCHANGED head \/ pc # "done")
      BY <1>4 DEF TimePasses, Signal, PersonMoves, vars
    <3>2. QED
      BY <2>1, <3>1 DEF IInv, Kept, EndsWhereItBegan, loop
  <2>6. QED
    BY <2>2, <2>3, <2>4, <2>5 DEF IInv
<1>5. QED
  BY <1>1, <1>2, <1>3, <1>4 DEF Next, Run

(* What every variable holds, and that a run never starts more rounds than it has turns. *)
THEOREM FixTypes == Spec => []TypeOK
<1>1. IInv => TypeOK
  BY DEF IInv, Types
<1>2. QED
  BY <1>1, InitIInv, NextIInv, PTL DEF Spec

(* internal/fix, Land: the commit that lands is of the tree that was measured in the box, applied whole and without a    *)
(* protected path, for any checks, turns and failed calls, whenever the run is told to stop or the checkout is moved.    *)
THEOREM Measured == Spec => []LandsWhatWasMeasured
<1>1. IInv => LandsWhatWasMeasured
  BY DEF IInv
<1>2. QED
  BY <1>1, InitIInv, NextIInv, PTL DEF Spec

(* internal/fix, Finish: however the run ends, what its last round left in the checkout is there or all in its commit,   *)
(* unless a question discarded it; and a run that says that it landed or parked left the checkout clean and on the base. *)
THEOREM KeepsTheWork == Spec => []WorkIsKept
<1>1. IInv => WorkIsKept
  BY DEF IInv, Kept, WorkIsKept, WorkIsThere, Types, TypeOK
<1>2. QED
  BY <1>1, InitIInv, NextIInv, PTL DEF Spec
-----------------------------------------------------------------------------
WarningEvents(log) == {i \in DOMAIN log : log[i] = "warning"}
Counted(log, n) == IsFiniteSet(WarningEvents(log)) /\ Cardinality(WarningEvents(log)) = n

Events == {"run_start", "step", "warning", "run_end"}
Statuses == {"none", "usage", "failed", "outcome", "cancelled", "timeout"}

(* The variables that the facts below compute with. *)
ShellTypes ==
  /\ at \in {"parse", "prepare", "begin", "start", "running", "stopping", "copy", "end", "close", "done"}
  /\ command \in {"off", "running", "returned"} /\ stream \in {"off", "started", "dead", "closed"}
  /\ warnings \in Nat /\ events \in Seq(Events) /\ envelope \in [status : Statuses, warnings : Nat]

(* Nobody reports before the command runs, and nobody after it but one that was given up on. *)
Speaks ==
  /\ at \in {"parse", "prepare", "begin"} => stream = "off"
  /\ at \in {"parse", "prepare", "begin", "start"} => command = "off"
  /\ at \in {"parse", "prepare"} => warnings = 0
  /\ at = "begin" => warnings \in {0, 1}
  /\ at \in {"copy", "end", "close", "done"} /\ ~givenUp => command # "running"

Told ==
  /\ stream = "started" => Counted(events, warnings)
  /\ stream = "closed" => at = "done" /\ (~givenUp => Counted(events, warnings))
  /\ at = "done" /\ ~givenUp => stdout.warnings = warnings

ShellInv == ShellTypes /\ Speaks /\ Told /\ S!CopyIsTheOutput

LEMMA OneMoreWarning ==
  ASSUME NEW log \in Seq(Events), NEW n \in Nat, Counted(log, n)
  PROVE  Append(log, "warning") \in Seq(Events) /\ Counted(Append(log, "warning"), n + 1)
<1>1. WarningEvents(Append(log, "warning")) = WarningEvents(log) \cup {Len(log) + 1}
  BY DEF WarningEvents
<1>2. Len(log) + 1 \notin WarningEvents(log)
  BY DEF WarningEvents
<1>3. Append(log, "warning") \in Seq(Events)
  BY DEF Events
<1>4. IsFiniteSet(WarningEvents(log) \cup {Len(log) + 1}) /\ Cardinality(WarningEvents(log) \cup {Len(log) + 1}) = n + 1
  BY <1>2, FS_AddElement DEF Counted
<1>5. QED
  BY <1>1, <1>3, <1>4 DEF Counted

LEMMA NoMoreWarning ==
  ASSUME NEW log \in Seq(Events), NEW n, Counted(log, n), NEW type \in {"step", "run_end"}
  PROVE  Append(log, type) \in Seq(Events) /\ Counted(Append(log, type), n)
<1>1. WarningEvents(Append(log, type)) = WarningEvents(log)
  BY DEF WarningEvents
<1>2. Append(log, type) \in Seq(Events)
  BY DEF Events
<1>3. QED
  BY <1>1, <1>2 DEF Counted

LEMMA FirstWarnings ==
  ASSUME NEW n \in {0, 1}, NEW log, log = <<"run_start">> \o [i \in 1 .. n |-> "warning"]
  PROVE  log \in Seq(Events) /\ Counted(log, n)
<1>1. CASE n = 0
  <2>1. log \in Seq(Events) /\ Len(log) = 1 /\ log[1] = "run_start"
    BY <1>1 DEF Events
  <2>2. WarningEvents(log) = {}
    BY <2>1 DEF WarningEvents
  <2>3. QED
    BY <1>1, <2>1, <2>2, FS_EmptySet DEF Counted
<1>2. CASE n = 1
  <2>1. log \in Seq(Events) /\ Len(log) = 2 /\ log[1] = "run_start" /\ log[2] = "warning"
    BY <1>2 DEF Events
  <2>2. WarningEvents(log) = {2}
    BY <2>1 DEF WarningEvents
  <2>3. QED
    BY <1>2, <2>1, <2>2, FS_Singleton DEF Counted
<1>3. QED
  BY <1>1, <1>2

(* A report is an event while the stream is open. *)
LEMMA EmitsCounts ==
  ASSUME warnings \in Nat, events \in Seq(Events), stream \in {"off", "started", "dead", "closed"},
         stream = "started" => Counted(events, warnings),
         S!Emits("warning", warnings + 1) \/ S!Emits("step", warnings) \/ S!Emits("run_end", warnings)
  PROVE  /\ warnings' \in Nat /\ events' \in Seq(Events) /\ stream' \in {stream, "dead"}
         /\ stream' = "started" => Counted(events', warnings')
<1>1. CASE stream = "started"
  <2>1. Counted(events, warnings)
    BY <1>1
  <2>2. CASE stream' = "dead" /\ UNCHANGED events /\ (warnings' = warnings + 1 \/ warnings' = warnings + 2)
    BY <2>2
  <2>3. CASE events' = Append(events, "warning") /\ warnings' = warnings + 1 /\ UNCHANGED stream
    BY <1>1, <2>1, <2>3, OneMoreWarning
  <2>4. ASSUME NEW type \in {"step", "run_end"}, events' = Append(events, type), warnings' = warnings, UNCHANGED stream
        PROVE  events' \in Seq(Events) /\ Counted(events', warnings')
    BY <2>1, <2>4, NoMoreWarning
  <2>5. QED
    BY <1>1, <2>2, <2>3, <2>4 DEF S!Emits
<1>2. CASE stream # "started"
  BY <1>2 DEF S!Emits
<1>3. QED
  BY <1>1, <1>2

LEMMA EnvelopeIs ==
  ASSUME warnings \in Nat, envelope \in [status : Statuses, warnings : Nat], NEW status \in Statuses
  PROVE  [S!Status(status) EXCEPT !.warnings = warnings] \in [status : Statuses, warnings : Nat]
  BY DEF S!Status

LEMMA ShellInit == S!Init => ShellInv
<1> SUFFICES ASSUME S!Init PROVE ShellInv
  OBVIOUS
<1>1. ShellTypes
  BY DEF S!Init, ShellTypes, S!None, Events, Statuses
<1>2. QED
  BY <1>1 DEF S!Init, ShellInv, Speaks, Told, S!CopyIsTheOutput

LEMMA ShellNext == ShellInv /\ [S!Next]_(S!vars) => ShellInv'
<1> SUFFICES ASSUME ShellInv, [S!Next]_(S!vars) PROVE ShellInv'
  OBVIOUS
<1> USE DEF ShellInv
<1>1. CASE S!Parses \/ S!Starts \/ S!Returns \/ S!Told \/ S!GraceBegins \/ S!Abandons \/ S!Settles \/ UNCHANGED S!vars
  <2>1. UNCHANGED <<copy, stdout, warnings, events, stream>>
    BY <1>1 DEF S!Parses, S!Starts, S!Returns, S!Told, S!GraceBegins, S!Abandons, S!Settles, S!vars, S!runDirectory, S!raised
  <2>2. ShellTypes'
    BY <1>1 DEF ShellTypes, S!Parses, S!Starts, S!Returns, S!Told, S!GraceBegins, S!Abandons, S!Settles, S!vars, S!returned,
                S!raised, S!Refuses, S!Status, S!WhyStopped, Statuses
  <2>3. (at' = "done" => at = "done") /\ (at = "done" => at' = "done") /\ (givenUp => givenUp')
    BY <1>1 DEF S!Parses, S!Starts, S!Returns, S!Told, S!GraceBegins, S!Abandons, S!Settles, S!vars, S!Refuses
  <2>4. Speaks'
    BY <1>1 DEF ShellTypes, Speaks, S!Parses, S!Starts, S!Returns, S!Told, S!GraceBegins, S!Abandons, S!Settles, S!vars, S!returned,
                S!raised, S!Refuses
  <2>5. Told' /\ S!CopyIsTheOutput'
    BY <2>1, <2>3 DEF Told, S!CopyIsTheOutput
  <2>6. QED
    BY <2>2, <2>4, <2>5
<1>2. CASE S!Resolves
  <2>1. envelope' \in [status : Statuses, warnings : Nat]
    BY <1>2, EnvelopeIs DEF ShellTypes, S!Resolves, S!Refuses, Statuses
  <2>2. at = "prepare" /\ at' \in {"begin", "copy"} /\ warnings' \in {0, 1} /\ UNCHANGED <<command, copy, stdout, events, stream, givenUp>>
    BY <1>2 DEF Speaks, S!Resolves, S!Refuses, S!returned, S!runDirectory
  <2>3. QED
    BY <2>1, <2>2 DEF ShellTypes, Speaks, Told, S!CopyIsTheOutput
<1>3. CASE S!Prepares
  <2>1. at = "begin" /\ warnings \in {0, 1} /\ stream = "off" /\ command = "off" /\ UNCHANGED <<command, copy, stdout, givenUp>>
    BY <1>3 DEF Speaks, S!Prepares, S!returned
  <2>2. /\ at' \in {"start", "copy"} /\ stream' \in {"off", "started", "dead"} /\ warnings' \in Nat
        /\ events' \in Seq(Events) /\ envelope' \in [status : Statuses, warnings : Nat]
        /\ stream' = "started" => Counted(events', warnings')
    <3>1. CASE at' = "start" /\ stream' = "started" /\ events' = <<"run_start">> \o [i \in 1 .. warnings |-> "warning"] /\ UNCHANGED <<warnings, envelope>>
      BY <2>1, <3>1, FirstWarnings DEF ShellTypes
    <3>2. CASE at' \in {"start", "copy"} /\ stream' \in {"off", "dead"} /\ warnings' \in {warnings, warnings + 1} /\ UNCHANGED events
               /\ envelope' \in {envelope, [S!Status("failed") EXCEPT !.warnings = warnings]}
      <4>1. warnings \in Nat /\ events \in Seq(Events) /\ envelope \in [status : Statuses, warnings : Nat] /\ "failed" \in Statuses
        BY DEF ShellTypes, Statuses
      <4>2. envelope' \in [status : Statuses, warnings : Nat]
        BY <3>2, <4>1, EnvelopeIs
      <4>3. QED
        BY <3>2, <4>1, <4>2
    <3>3. QED
      BY <1>3, <2>1, <3>1, <3>2 DEF S!Prepares, S!Refuses
  <2>3. QED
    BY <2>1, <2>2 DEF ShellTypes, Speaks, Told, S!CopyIsTheOutput
<1>4. CASE S!Reports
  <2>1. command = "running" /\ UNCHANGED <<at, command, copy, stdout, envelope, givenUp>>
    BY <1>4 DEF S!Reports, S!returned, S!runDirectory
  <2>2. /\ warnings' \in Nat /\ events' \in Seq(Events) /\ stream' \in {stream, "dead"}
        /\ stream' = "started" => Counted(events', warnings')
    BY <1>4, EmitsCounts DEF ShellTypes, Told, S!Reports
  <2>3. QED
    BY <2>1, <2>2 DEF ShellTypes, Speaks, Told, S!CopyIsTheOutput
<1>5. CASE S!Copies
  <2>1. at = "copy" /\ at' = "end" /\ UNCHANGED <<command, stdout, givenUp>>
    BY <1>5 DEF S!Copies, S!returned
  <2>2. /\ warnings' \in Nat /\ events' \in Seq(Events) /\ stream' \in {stream, "dead"}
        /\ stream' = "started" => Counted(events', warnings')
    BY <1>5, EmitsCounts DEF ShellTypes, Told, S!Copies
  <2>3. envelope' \in [status : Statuses, warnings : Nat]
    BY <1>5, <2>2 DEF ShellTypes, S!Copies
  <2>4. QED
    BY <2>1, <2>2, <2>3 DEF ShellTypes, Speaks, Told, S!CopyIsTheOutput
<1>6. CASE S!EndsEvents
  <2>1. at = "end" /\ at' = "close" /\ UNCHANGED <<command, copy, stdout, envelope, givenUp>>
    BY <1>6 DEF S!EndsEvents, S!returned, S!runDirectory
  <2>2. /\ warnings' \in Nat /\ events' \in Seq(Events) /\ stream' \in {stream, "dead"}
        /\ stream' = "started" => Counted(events', warnings')
    BY <1>6, EmitsCounts DEF ShellTypes, Told, S!EndsEvents
  <2>3. QED
    BY <2>1, <2>2 DEF ShellTypes, Speaks, Told, S!CopyIsTheOutput
<1>7. CASE S!Closes
  <2>1. /\ at = "close" /\ at' = "done" /\ UNCHANGED <<command, warnings, events, givenUp>>
        /\ stream' = (IF stream = "started" THEN "closed" ELSE stream)
    BY <1>7 DEF S!Closes, S!returned
  <2>2. envelope' = S!Final /\ stdout' = S!Final /\ copy' \in {S!None, S!Final}
    BY <1>7 DEF S!Closes, S!Rewritten
  <2>3. S!Final \in [status : Statuses, warnings : Nat] /\ S!Final.warnings = warnings
    BY DEF S!Final, ShellTypes
  <2>4. ShellTypes' /\ Speaks' /\ S!CopyIsTheOutput'
    BY <2>1, <2>2, <2>3 DEF ShellTypes, Speaks, S!CopyIsTheOutput, S!None
  <2>5. Told'
    BY <2>1, <2>2, <2>3 DEF Told
  <2>6. QED
    BY <2>4, <2>5
<1>8. QED
  BY <1>1, <1>2, <1>3, <1>4, <1>5, <1>6, <1>7 DEF S!Next, S!Waits, S!Publishes

(* internal/toolio, app.go and events.go: the copy in the run directory is what stdout has, and every warning of a command *)
(* that was waited for is in both and is an event, whichever of the writes fails and whatever a command that was given up  *)
(* on reports, and for any number of its reports.                                                                          *)
THEOREM TellsItOnce == S!Spec => []TellsTheSame
<1>1. S!Init => ShellInv
  BY ShellInit
<1>2. ShellInv /\ [S!Next]_(S!vars) => ShellInv'
  BY ShellNext
<1>3. ShellInv => TellsTheSame
  <2>1. \A s : S!Cardinality(s) = Cardinality(s)
    BY DEF S!Cardinality, Cardinality
  <2>2. QED
    BY <2>1 DEF ShellInv, Told, Counted, WarningEvents, TellsTheSame, S!TellsTheSame, S!WarningsAreTold
<1>4. QED
  BY <1>1, <1>2, <1>3, PTL DEF S!Spec

-----------------------------------------------------------------------------
(* Apply: what a path of the export is owed. *)

(* What is not the apply's to change: what git ignores, and a submodule. *)
Named(p) == export[p] \in A!Entry /\ ~A!Ignored(p) /\ ~A!Submodule(p)
Listed(p) == p \notin ignores /\ ~A!Submodule(p) /\ files[p] \in A!Entry

ApplyTypes ==
  /\ files \in A!Trees /\ export \in A!Trees /\ rounds \in Nat
  /\ doing \in {"idle", "deletes", "judges", "mirrors", "failed"}
PlanKeeps ==
  /\ entries \subseteq {p \in A!Paths : export[p] \in A!Entry /\ ~A!Ignored(p)}
  /\ beyond \subseteq {p \in A!Paths : export[p] \in A!Entry}
  /\ deletes \subseteq {p \in A!Paths : ~A!Ignored(p)}
(* An ignored file is in no tracked path's way. *)
WayIsFree ==
  \A dir \in A!Dirs : A!Ignored(dir) /\ files[dir] \in A!Entry => A!Inside(dir) \cap tracked = {}
IgnoresAreClosed == \A dir \in A!Dirs \cap ignores : A!Inside(dir) \subseteq ignores

Planned ==
  doing \in {"deletes", "judges"} =>
    /\ \A p \in A!Paths : Named(p) => p \in entries \cup beyond
    /\ \A p \in A!Paths : Listed(p) => p \in entries \cup deletes
    /\ doing = "judges" => deletes = {}
Mirrored ==
  doing = "mirrors" \/ (doing = "idle" /\ rounds > 0) =>
    /\ \A p \in A!Paths : Named(p) => p \in entries \/ files[p] = export[p] \/ A!Beyond(p)
    /\ \A p \in A!Paths : Listed(p) => p \in entries \/ files[p] = export[p]
    /\ doing = "idle" => entries = {}

KeepsInv == ApplyTypes /\ PlanKeeps /\ WayIsFree /\ IgnoresAreClosed
ApplyInv == KeepsInv /\ Planned /\ Mirrored

(* The five paths. *)
LEMMA Places ==
  /\ A!Dirs \subseteq A!Paths /\ "link" \in A!Entry /\ "file" \in A!Entry /\ "dir" \notin A!Entry /\ "none" \notin A!Entry
  /\ \A p \in A!Paths : A!Inside(p) \subseteq A!Paths /\ A!Above(p) \subseteq A!Dirs /\ p \notin A!Inside(p) /\ p \notin A!Above(p)
  /\ \A p \in A!Paths : \A q \in A!Inside(p) : p \in A!Dirs /\ A!Above(q) = {p} /\ A!Inside(q) = {} /\ q \notin A!Dirs
  /\ \A p, dir \in A!Paths : dir \in A!Above(p) <=> p \in A!Inside(dir)
BY DEF A!Dirs, A!Paths, A!Entry, A!Inside, A!Above

LEMMA TreeMeans ==
  ASSUME NEW t \in A!Trees
  PROVE  /\ t \in [A!Paths -> {"none", "file", "link", "dir"}]
         /\ \A p \in A!Paths : (t[p] = "link" => p = "d") /\ (t[p] = "dir" => p \in A!Dirs)
         /\ \A p \in A!Paths : \A q \in A!Inside(p) : t[p] # "dir" => t[q] = "none"
BY Places DEF A!Trees

LEMMA RealMeans ==
  ASSUME ApplyTypes, NEW p \in A!Paths
  PROVE  /\ A!Real(p) \subseteq A!Paths
         /\ A!Real(p) = {p} \/ (files["d"] = "link" /\ files[p] = "none" /\ \A q \in A!Real(p) : q = "fx" /\ p = "dx")
         /\ A!Real(p) = {p} => A!Lstat(p) = files[p]
<1>1. CASE p \in A!Inside("d") /\ files["d"] = "link"
  <2>1. "d" \in A!Paths /\ files[p] = "none"
    BY <1>1, TreeMeans DEF ApplyTypes, A!Paths
  <2>2. A!Real(p) = IF p = "dx" THEN {"fx"} ELSE {}
    BY <1>1 DEF A!Real
  <2>3. A!Real(p) # {p}
    BY <2>2
  <2>4. QED
    BY <1>1, <2>1, <2>2, <2>3 DEF A!Paths
<1>2. CASE ~(p \in A!Inside("d") /\ files["d"] = "link")
  BY <1>2 DEF A!Real, A!Lstat
<1>3. QED
  BY <1>1, <1>2

LEMMA ApplyInit == A!Init => ApplyInv
<1> SUFFICES ASSUME A!Init PROVE ApplyInv
  OBVIOUS
<1>1. ApplyTypes
  BY DEF A!Init, ApplyTypes
<1>2. PlanKeeps /\ IgnoresAreClosed
  BY Places DEF A!Init, PlanKeeps, IgnoresAreClosed
<1>3. ASSUME NEW dir \in A!Dirs, files[dir] \in A!Entry PROVE A!Inside(dir) \cap tracked = {}
  <2>1. \A q \in A!Inside(dir) : files[q] = "none" /\ q \in A!Paths /\ q # "d"
    BY <1>1, <1>3, Places, TreeMeans DEF ApplyTypes, A!Dirs
  <2>2. \A q \in tracked : files[q] \in A!Entry \/ q = "d"
    BY DEF A!Init
  <2>3. QED
    BY <2>1, <2>2, Places
<1>4. WayIsFree
  BY <1>3 DEF WayIsFree
<1>5. Planned /\ Mirrored
  BY DEF A!Init, Planned, Mirrored
<1>6. QED
  BY <1>1, <1>2, <1>4, <1>5 DEF ApplyInv, KeepsInv

(* The rules of git are what they were. *)
LEMMA SameRules ==
  ASSUME UNCHANGED A!rules
  PROVE  /\ \A p : A!Ignored(p)' = A!Ignored(p) /\ A!Submodule(p)' = A!Submodule(p)
         /\ IgnoresAreClosed => IgnoresAreClosed'
         /\ tracked' = tracked /\ ignores' = ignores
BY DEF A!rules, A!Ignored, A!Submodule, IgnoresAreClosed

(* A write that puts nothing ignored into the tree leaves the way free. *)
LEMMA StaysFree ==
  ASSUME WayIsFree, UNCHANGED A!rules, \A dir \in A!Dirs : files'[dir] \in A!Entry /\ A!Ignored(dir) => files'[dir] = files[dir]
  PROVE  WayIsFree'
BY SameRules DEF WayIsFree

LEMMA PlanStep == ASSUME ApplyInv, A!PlanApply PROVE ApplyInv'
<1>1. UNCHANGED A!rules /\ UNCHANGED files /\ ApplyTypes /\ export' \in A!Trees
  BY DEF ApplyInv, KeepsInv, A!PlanApply
<1>2. ApplyTypes'
  BY <1>1 DEF ApplyTypes, A!PlanApply
<1> DEFINE candidates == {p \in A!Paths : export'[p] \in A!Entry /\ ~A!Submodule(p)}
<1>3. /\ beyond' = {p \in candidates : A!Beyond(p)}
      /\ entries' = {p \in candidates \ beyond' : ~A!Ignored(p)}
      /\ deletes' = {p \in A!FileView \ (entries' \cup A!KeptAsTheyAre) : ~A!Submodule(p)}
      /\ doing' \in {"failed", "deletes"}
  BY DEF A!PlanApply
<1>4. \A p \in A!FileView : ~A!Ignored(p) /\ p \in A!Paths
  BY DEF A!FileView, A!Ignored
<1>5. PlanKeeps'
  BY <1>1, <1>3, <1>4, SameRules DEF PlanKeeps
<1>6. WayIsFree' /\ IgnoresAreClosed'
  BY <1>1, SameRules, StaysFree DEF ApplyInv, KeepsInv
<1>7. ASSUME NEW p \in A!Paths, Named(p)' PROVE p \in entries' \cup beyond'
  BY <1>1, <1>3, <1>7, SameRules DEF Named
<1>8. ASSUME NEW p \in A!Paths, Listed(p)' PROVE p \in entries' \cup deletes'
  <2>1. p \notin ignores /\ ~A!Submodule(p) /\ files[p] \in A!Entry
    BY <1>1, <1>8, SameRules DEF Listed
  <2>2. A!Real(p) = {p} /\ A!Lstat(p) = files[p]
    BY <1>1, <2>1, RealMeans, Places
  <2>3. p \in A!FileView /\ p \notin A!KeptAsTheyAre
    BY <2>1, <2>2, Places DEF A!FileView, A!KeptAsTheyAre, A!Ignored
  <2>4. QED
    BY <1>3, <2>1, <2>3
<1>9. Planned' /\ Mirrored'
  BY <1>3, <1>7, <1>8 DEF Planned, Mirrored
<1>10. QED
  BY <1>2, <1>5, <1>6, <1>9 DEF ApplyInv, KeepsInv

(* A step that takes paths away, and no other, where all that is below them is away too. *)
Takes(paths) == files' = A!Without(files, paths) /\ \A dir \in A!Dirs \cap paths : files[dir] = "dir" => A!Empty(dir)
LEMMA TakesAway ==
  ASSUME ApplyTypes, NEW paths, Takes(paths)
  PROVE  /\ files' \in A!Trees
         /\ \A p \in A!Paths : files'[p] = IF p \in paths THEN "none" ELSE files[p]
<1>1. files \in [A!Paths -> {"none", "file", "link", "dir"}]
  BY TreeMeans DEF ApplyTypes
<1>2. \A p \in A!Paths : files'[p] = IF p \in paths THEN "none" ELSE files[p]
  BY DEF Takes, A!Without
<1>3. files' \in [A!Paths -> {"none", "file", "link", "dir"}]
  BY <1>1 DEF Takes, A!Without
<1>4. \A p \in A!Paths : (files'[p] = "link" => p = "d") /\ (files'[p] = "dir" => p \in A!Dirs)
  BY <1>2, TreeMeans DEF ApplyTypes
<1>5. ASSUME NEW dir \in A!Dirs, files'[dir] # "dir", NEW p \in A!Inside(dir) PROVE files'[p] = "none"
  <2>1. dir \in A!Paths /\ p \in A!Paths
    BY Places
  <2>2. CASE files[dir] = "dir"
    BY <1>2, <1>5, <2>1, <2>2 DEF Takes, A!Empty
  <2>3. CASE files[dir] # "dir"
    BY <1>2, <2>1, <2>3, TreeMeans DEF ApplyTypes
  <2>4. QED
    BY <2>2, <2>3
<1>6. QED
  BY <1>2, <1>3, <1>4, <1>5 DEF A!Trees

LEMMA DeletesStep == ASSUME ApplyInv, A!Deletes PROVE ApplyInv'
<1>1. PICK p \in deletes :
        IF A!Lstat(p) = "dir" /\ ~A!Empty(p)
        THEN doing' = "failed" /\ UNCHANGED <<files, deletes, deleted>>
        ELSE /\ files' = A!Without(files, A!Real(p))
             /\ deletes' = deletes \ {p} /\ deleted' = deleted \cup {p}
             /\ UNCHANGED doing
  BY DEF A!Deletes
<1>2. doing = "deletes" /\ UNCHANGED <<A!rules, export, beyond, entries, rounds>> /\ ApplyTypes /\ PlanKeeps /\ WayIsFree /\ p \in A!Paths
  BY DEF A!Deletes, A!plan, ApplyInv, KeepsInv, PlanKeeps
<1>3. CASE UNCHANGED <<files, deletes>> /\ doing' = "failed"
  BY <1>2, <1>3, SameRules, StaysFree DEF ApplyInv, KeepsInv, ApplyTypes, PlanKeeps, Planned, Mirrored
<1>4. CASE files' = A!Without(files, A!Real(p)) /\ ~(A!Lstat(p) = "dir" /\ ~A!Empty(p)) /\ deletes' = deletes \ {p} /\ doing' = doing
  <2>1. Takes(A!Real(p))
    <3>1. CASE A!Real(p) = {p}
      BY <1>2, <1>4, <3>1, RealMeans DEF Takes
    <3>2. CASE \A q \in A!Real(p) : q = "fx"
      BY <1>4, <3>2 DEF Takes, A!Dirs
    <3>3. QED
      BY <1>2, <3>1, <3>2, RealMeans
  <2>2. /\ files' \in A!Trees
        /\ \A q \in A!Paths : files'[q] = IF q \in A!Real(p) THEN "none" ELSE files[q]
    BY <1>2, <2>1, TakesAway
  <2>3. ApplyTypes' /\ PlanKeeps' /\ IgnoresAreClosed' /\ WayIsFree'
    BY <1>2, <1>4, <2>2, SameRules, StaysFree, Places DEF ApplyInv, KeepsInv, ApplyTypes, PlanKeeps
  <2>4. ASSUME NEW q \in A!Paths, Listed(q)' PROVE q \in entries' \cup deletes'
    <3>1. files'[q] = files[q] /\ Listed(q)
      BY <1>2, <2>2, <2>4, SameRules, Places DEF Listed
    <3>2. q # p
      BY <1>2, <2>2, <2>4, <3>1, RealMeans, Places DEF Listed
    <3>3. QED
      BY <1>2, <1>4, <3>1, <3>2 DEF ApplyInv, Planned
  <2>5. ASSUME NEW q \in A!Paths, Named(q)' PROVE q \in entries' \cup beyond'
    BY <1>2, <2>5, SameRules DEF ApplyInv, Planned, Named
  <2>6. Planned' /\ Mirrored'
    BY <1>2, <1>4, <2>4, <2>5 DEF Planned, Mirrored
  <2>7. QED
    BY <2>3, <2>6 DEF ApplyInv, KeepsInv
<1>5. QED
  BY <1>1, <1>3, <1>4

LEMMA PruneStep == ASSUME ApplyInv, A!PruneEmptied PROVE ApplyInv'
<1> DEFINE paths == {dir \in UNION {A!Above(p) : p \in deleted} : files[dir] = "link" \/ (files[dir] = "dir" /\ A!Empty(dir))}
<1>1. /\ doing = "deletes" /\ doing' = "judges" /\ deletes = {} /\ files' = A!Without(files, paths)
      /\ UNCHANGED <<A!rules, export, beyond, entries, deletes, rounds>> /\ ApplyTypes /\ PlanKeeps /\ WayIsFree
  BY DEF A!PruneEmptied, A!plan, ApplyInv, KeepsInv
<1>2. Takes(paths)
  BY <1>1 DEF Takes
<1> HIDE DEF paths
<1>3. /\ files' \in A!Trees
      /\ \A q \in A!Paths : files'[q] = IF q \in paths THEN "none" ELSE files[q]
  BY <1>1, <1>2, TakesAway
<1>4. ApplyTypes' /\ PlanKeeps' /\ IgnoresAreClosed' /\ WayIsFree'
  BY <1>1, <1>3, SameRules, StaysFree, Places DEF ApplyInv, KeepsInv, ApplyTypes, PlanKeeps
<1>5. ASSUME NEW q \in A!Paths, Listed(q)' PROVE q \in entries'
  <2>1. Listed(q)
    BY <1>1, <1>3, <1>5, SameRules, Places DEF Listed
  <2>2. QED
    BY <1>1, <2>1 DEF ApplyInv, Planned
<1>6. ASSUME NEW q \in A!Paths, Named(q)' PROVE q \in entries' \cup beyond'
  BY <1>1, <1>6, SameRules DEF ApplyInv, Planned, Named
<1>7. Planned' /\ Mirrored'
  BY <1>1, <1>5, <1>6 DEF Planned, Mirrored
<1>8. QED
  BY <1>4, <1>7 DEF ApplyInv, KeepsInv

LEMMA JudgeStep == ASSUME ApplyInv, A!JudgeBeyond PROVE ApplyInv'
<1>1. /\ doing = "judges" /\ doing' = "mirrors" /\ UNCHANGED <<files, A!rules, export, beyond, deletes, rounds>>
      /\ entries' = entries \cup {p \in beyond : ~A!Beyond(p) /\ ~A!Ignored(p)}
      /\ ApplyTypes /\ PlanKeeps /\ WayIsFree /\ Planned
  BY DEF A!JudgeBeyond, A!plan, ApplyInv, KeepsInv
<1>2. ApplyTypes' /\ PlanKeeps' /\ IgnoresAreClosed' /\ WayIsFree'
  BY <1>1, SameRules, StaysFree DEF ApplyInv, KeepsInv, ApplyTypes, PlanKeeps
<1>3. ASSUME NEW q \in A!Paths, Named(q)' PROVE q \in entries' \/ A!Beyond(q)'
  <2>1. Named(q) /\ A!Beyond(q)' = A!Beyond(q)
    BY <1>1, <1>3, SameRules DEF Named, A!Beyond
  <2>2. QED
    BY <1>1, <2>1 DEF Planned, Named
<1>4. ASSUME NEW q \in A!Paths, Listed(q)' PROVE q \in entries'
  <2>1. Listed(q)
    BY <1>1, <1>4, SameRules DEF Listed
  <2>2. QED
    BY <1>1, <2>1 DEF Planned
<1>5. Planned' /\ Mirrored'
  BY <1>1, <1>3, <1>4 DEF Planned, Mirrored
<1>6. QED
  BY <1>2, <1>5 DEF ApplyInv, KeepsInv

(* What the write of a path makes of the tree. *)
LEMMA WrittenTree ==
  ASSUME ApplyTypes, NEW p \in A!Paths, export[p] \in A!Entry, ~A!Beyond(p),
         files' = [q \in A!Paths |-> IF q \in A!Above(p) THEN "dir" ELSE A!MakeRoom(p)[q]]
  PROVE  /\ files' \in A!Trees /\ files'[p] = export[p]
         /\ \A q \in A!Above(p) : files'[q] = "dir" /\ files[q] # "link"
         /\ \A q \in A!Inside(p) : files'[q] = "none"
         /\ \A q \in A!Paths \ ({p} \cup A!Above(p) \cup A!Inside(p)) : files'[q] = files[q]
<1>1. files \in [A!Paths -> {"none", "file", "link", "dir"}] /\ export[p] \in {"file", "link"} /\ (export[p] = "link" => p = "d")
  BY TreeMeans DEF ApplyTypes, A!Entry
<1>2. \A q \in A!Paths : A!MakeRoom(p)[q] = IF q = p THEN export[p] ELSE IF q \in A!Inside(p) THEN "none" ELSE files[q]
  BY <1>1 DEF A!MakeRoom, A!Without
<1>3. /\ files'[p] = export[p]
      /\ \A q \in A!Above(p) : files'[q] = "dir" /\ files[q] # "link"
      /\ \A q \in A!Inside(p) : files'[q] = "none"
      /\ \A q \in A!Paths \ ({p} \cup A!Above(p) \cup A!Inside(p)) : files'[q] = files[q]
  BY <1>1, <1>2, Places DEF A!Beyond
<1>4. files' \in [A!Paths -> {"none", "file", "link", "dir"}]
  BY <1>1, <1>2
<1>5. \A q \in A!Paths : (files'[q] = "link" => q = "d") /\ (files'[q] = "dir" => q \in A!Dirs)
  BY <1>1, <1>2, Places, TreeMeans DEF ApplyTypes
<1>6. ASSUME NEW dir \in A!Dirs, files'[dir] # "dir", NEW q \in A!Inside(dir) PROVE files'[q] = "none"
  <2>1. dir \in A!Paths /\ q \in A!Paths /\ q \notin A!Dirs /\ dir \notin A!Above(p) /\ q # p /\ q \notin A!Above(p)
    BY <1>3, <1>6, Places
  <2>2. CASE dir = p
    BY <1>3, <1>6, <2>2
  <2>3. CASE dir # p
    <3>1. dir \notin A!Inside(p) /\ q \notin A!Inside(p)
      BY <1>6, <2>1, <2>3, Places
    <3>2. files[dir] # "dir" /\ files'[q] = files[q]
      BY <1>3, <1>6, <2>1, <2>3, <3>1
    <3>3. QED
      BY <2>1, <3>2, <1>6, TreeMeans DEF ApplyTypes
  <2>4. QED
    BY <2>2, <2>3
<1>7. QED
  BY <1>3, <1>4, <1>5, <1>6 DEF A!Trees

LEMMA MirrorsStep == ASSUME ApplyInv, A!Mirrors PROVE ApplyInv'
<1>1. PICK p \in entries :
        IF files[p] # export[p] /\ A!Beyond(p)
        THEN doing' = "failed" /\ UNCHANGED <<files, entries>>
        ELSE /\ files' = IF files[p] = export[p] THEN files
                            ELSE [q \in A!Paths |-> IF q \in A!Above(p) THEN "dir" ELSE A!MakeRoom(p)[q]]
             /\ entries' = entries \ {p}
             /\ UNCHANGED doing
  BY DEF A!Mirrors
<1>2. /\ doing = "mirrors" /\ UNCHANGED <<A!rules, export, beyond, deletes, rounds>>
      /\ ApplyTypes /\ PlanKeeps /\ WayIsFree /\ Mirrored /\ p \in A!Paths /\ export[p] \in A!Entry /\ ~A!Ignored(p)
  BY DEF A!Mirrors, A!plan, ApplyInv, KeepsInv, PlanKeeps
<1>3. CASE UNCHANGED <<files, entries>> /\ doing' = "failed"
  BY <1>2, <1>3, SameRules, StaysFree DEF ApplyInv, KeepsInv, ApplyTypes, PlanKeeps, Planned, Mirrored
<1>4. CASE UNCHANGED files /\ files[p] = export[p] /\ entries' = entries \ {p} /\ doing' = doing
  <2>1. ApplyTypes' /\ PlanKeeps' /\ IgnoresAreClosed' /\ WayIsFree'
    BY <1>2, <1>4, SameRules, StaysFree DEF ApplyInv, KeepsInv, ApplyTypes, PlanKeeps
  <2>2. \A q \in A!Paths : Named(q)' = Named(q) /\ Listed(q)' = Listed(q) /\ A!Beyond(q)' = A!Beyond(q)
    BY <1>2, <1>4, SameRules DEF Named, Listed, A!Beyond
  <2>3. Planned' /\ Mirrored'
    BY <1>2, <1>4, <2>2 DEF Planned, Mirrored
  <2>4. QED
    BY <2>1, <2>3 DEF ApplyInv, KeepsInv
<1>5. CASE ~A!Beyond(p) /\ files' = [q \in A!Paths |-> IF q \in A!Above(p) THEN "dir" ELSE A!MakeRoom(p)[q]]
           /\ entries' = entries \ {p} /\ doing' = doing
  <2>1. /\ files' \in A!Trees /\ files'[p] = export[p]
        /\ \A q \in A!Above(p) : files'[q] = "dir" /\ files[q] # "link"
        /\ \A q \in A!Inside(p) : files'[q] = "none"
        /\ \A q \in A!Paths \ ({p} \cup A!Above(p) \cup A!Inside(p)) : files'[q] = files[q]
    BY <1>2, <1>5, WrittenTree
  <2>2. \A dir \in A!Dirs : files'[dir] \in A!Entry /\ A!Ignored(dir) => files'[dir] = files[dir]
    BY <1>2, <2>1, Places
  <2>3. ApplyTypes' /\ PlanKeeps' /\ IgnoresAreClosed' /\ WayIsFree'
    BY <1>2, <1>5, <2>1, <2>2, SameRules, StaysFree DEF ApplyInv, KeepsInv, ApplyTypes, PlanKeeps
  <2>4. ASSUME NEW q \in A!Paths, Named(q)' PROVE q \in entries' \/ files'[q] = export'[q] \/ A!Beyond(q)'
    <3>1. Named(q) /\ export' = export /\ export[q] \in A!Entry
      BY <1>2, <2>4, SameRules DEF Named
    <3>2. q \notin A!Above(p) /\ q \notin A!Inside(p)
      BY <1>2, <3>1, Places, TreeMeans DEF ApplyTypes
    <3>3. q = p \/ files'[q] = files[q]
      BY <2>1, <3>2
    <3>4. ASSUME A!Beyond(q), q # p PROVE A!Beyond(q)'
      <4>1. PICK dir \in A!Above(q) : files[dir] = "link"
        BY <3>4 DEF A!Beyond
      <4>a. dir \in A!Paths /\ q \in A!Inside(dir)
        BY <4>1, Places
      <4>b. export[q] # "none" /\ export \in A!Trees
        BY <1>2, <3>1, Places DEF ApplyTypes
      <4>2. dir \in A!Paths /\ q \in A!Inside(dir) /\ export[dir] \notin A!Entry
        BY <4>a, <4>b, Places, TreeMeans
      <4>3. dir # p /\ dir \notin A!Above(p) /\ dir \notin A!Inside(p)
        BY <1>2, <2>1, <4>1, <4>2, Places
      <4>4. QED
        BY <2>1, <4>1, <4>2, <4>3 DEF A!Beyond
    <3>5. QED
      BY <1>2, <1>5, <2>1, <3>1, <3>3, <3>4 DEF Mirrored
  <2>5. ASSUME NEW q \in A!Paths, Listed(q)' PROVE q \in entries' \/ files'[q] = export'[q]
    <3>1. files'[q] \in A!Entry /\ export' = export
      BY <1>2, <2>5 DEF Listed
    <3>2. q \notin A!Above(p) /\ q \notin A!Inside(p)
      BY <2>1, <3>1, Places
    <3>3. CASE q = p
      BY <2>1, <3>1, <3>3
    <3>4. CASE q # p
      <4>1. files'[q] = files[q]
        BY <2>1, <3>2, <3>4
      <4>2. Listed(q)
        BY <1>2, <2>5, <4>1, SameRules DEF Listed
      <4>3. QED
        BY <1>2, <1>5, <3>1, <3>4, <4>1, <4>2 DEF Mirrored
    <3>5. QED
      BY <3>3, <3>4
  <2>6. Planned' /\ Mirrored'
    BY <1>2, <1>5, <2>4, <2>5 DEF Planned, Mirrored
  <2>7. QED
    BY <2>3, <2>6 DEF ApplyInv, KeepsInv
<1>6. QED
  BY <1>1, <1>3, <1>4, <1>5

LEMMA ApplyNext == ApplyInv /\ [A!Next]_(A!vars) => ApplyInv'
<1> SUFFICES ASSUME ApplyInv, [A!Next]_(A!vars) PROVE ApplyInv'
  OBVIOUS
<1>1. ASSUME UNCHANGED <<files, A!rules, export, entries, beyond, deletes, rounds>>, doing' = doing \/ doing' = "failed"
             \/ (doing = "mirrors" /\ entries = {} /\ doing' = "idle")
      PROVE  ApplyInv'
  <2>1. ApplyTypes' /\ PlanKeeps' /\ IgnoresAreClosed' /\ WayIsFree'
    BY <1>1, SameRules, StaysFree DEF ApplyInv, KeepsInv, ApplyTypes, PlanKeeps
  <2>2. \A q \in A!Paths : Named(q)' = Named(q) /\ Listed(q)' = Listed(q) /\ A!Beyond(q)' = A!Beyond(q)
    BY <1>1, SameRules DEF Named, Listed, A!Beyond
  <2>3. Planned' /\ Mirrored'
    BY <1>1, <2>2 DEF ApplyInv, Planned, Mirrored
  <2>4. QED
    BY <2>1, <2>3 DEF ApplyInv, KeepsInv
<1>2. CASE A!Applied \/ A!ApplyFails \/ UNCHANGED A!vars
  BY <1>1, <1>2 DEF A!Applied, A!ApplyFails, A!vars, A!plan
<1>3. QED
  BY <1>2, PlanStep, DeletesStep, PruneStep, JudgeStep, MirrorsStep DEF A!Next

(* Apply: the types hold at every step of every apply, the checkout and the export are trees. *)
THEOREM ApplyTyped == A!Spec => []A!TypeOK
<1>1. ApplyInv => A!TypeOK
  BY DEF ApplyInv, KeepsInv, ApplyTypes, PlanKeeps, A!TypeOK
<1>2. QED
  BY <1>1, ApplyInit, ApplyNext, PTL DEF A!Spec

(* Apply: when an apply is through, the checkout is the export, less what is ignored, a submodule's or beyond a link that *)
(* the checkout keeps, whatever each path was before and whatever the applies before it came to.                         *)
THEOREM AppliesTheExport == A!Spec => []IsTheExport
<1>1. ASSUME ApplyInv PROVE IsTheExport
  <2> SUFFICES ASSUME doing = "idle", rounds > 0 PROVE
        /\ \A p \in A!Paths : export[p] \in A!Entry /\ ~A!Ignored(p) /\ ~A!Submodule(p) /\ ~A!Beyond(p) => files[p] = export[p]
        /\ \A p \in A!FileView \ A!KeptAsTheyAre :
             ~A!Submodule(p) /\ ~A!Beyond(p) /\ files[p] # "dir" => files[p] = export[p]
    BY DEF IsTheExport, A!IsTheExport
  <2>1. Mirrored /\ entries = {} /\ ApplyTypes
    BY <1>1 DEF ApplyInv, KeepsInv, Mirrored
  <2>2. ASSUME NEW p \in A!FileView \ A!KeptAsTheyAre, ~A!Submodule(p), ~A!Beyond(p), files[p] # "dir"
        PROVE  files[p] = export[p]
    <3>1. p \in A!Paths /\ p \notin ignores
      BY <2>2 DEF A!FileView, A!KeptAsTheyAre, A!Ignored
    <3>2. A!Real(p) = {p}
      <4>1. ~(p \in A!Inside("d") /\ files["d"] = "link")
        BY <2>2, <3>1 DEF A!Beyond, A!Inside, A!Above, A!Paths, A!Dirs
      <4>2. QED
        BY <4>1 DEF A!Real
    <3>3. files[p] \in A!Entry
      <4>1. files[p] # "none"
        BY <2>1, <2>2, <3>1, <3>2, RealMeans, Places DEF A!FileView
      <4>2. QED
        BY <2>1, <2>2, <3>1, <4>1, TreeMeans DEF ApplyTypes, A!Entry
    <3>4. QED
      BY <2>1, <2>2, <3>1, <3>3 DEF Mirrored, Listed
  <2>3. QED
    BY <2>1, <2>2 DEF Mirrored, Named
<1>2. QED
  BY <1>1, ApplyInit, ApplyNext, PTL DEF A!Spec

(* Apply: what git ignores in the checkout is not touched at any step of any apply, but for a directory that the export *)
(* has something in place of, and what a link of the checkout leads to.                                                  *)
THEOREM IgnoredStays == A!Spec => KeepsIgnored
<1> DEFINE Spares == \A p \in A!Paths : A!Lost(p) => A!Replaced(p) \/ files["d"] = "link"
<1>1. ASSUME ApplyInv, [A!Next]_(A!vars) PROVE Spares
  <2> SUFFICES ASSUME NEW p \in A!Paths, A!Ignored(p), files[p] \in A!Entry, files'[p] # files[p], files["d"] # "link"
               PROVE  A!Replaced(p)
    BY DEF A!Lost
  <2>1. ApplyTypes /\ PlanKeeps /\ WayIsFree /\ IgnoresAreClosed
    BY <1>1 DEF ApplyInv, KeepsInv
  <2>2. CASE A!Deletes
    <3>1. PICK q \in deletes : UNCHANGED files \/ files' = A!Without(files, A!Real(q))
      BY <2>2 DEF A!Deletes
    <3>2. q \in A!Paths /\ q # p /\ A!Real(q) = {q}
      BY <2>1, <3>1, RealMeans DEF PlanKeeps
    <3>3. QED
      BY <3>1, <3>2 DEF A!Without
  <2>3. CASE A!PruneEmptied
    <3> DEFINE paths == {dir \in UNION {A!Above(q) : q \in deleted} :
                           files[dir] = "link" \/ (files[dir] = "dir" /\ A!Empty(dir))}
    <3>1. files' = A!Without(files, paths) /\ \A dir \in paths : files[dir] \in {"link", "dir"}
      BY <2>3 DEF A!PruneEmptied
    <3> HIDE DEF paths
    <3>2. p \in paths
      BY <3>1 DEF A!Without
    <3>3. files[p] = "link" => p = "d"
      BY <2>1, TreeMeans DEF ApplyTypes
    <3>4. QED
      BY <3>1, <3>2, <3>3, Places
  <2>4. CASE A!Mirrors
    <3>1. PICK q \in entries :
            UNCHANGED files \/
            (~A!Beyond(q) /\ files' = [r \in A!Paths |-> IF r \in A!Above(q) THEN "dir" ELSE A!MakeRoom(q)[r]])
      BY <2>4 DEF A!Mirrors
    <3>2. q \in A!Paths /\ q # p /\ export[q] \in A!Entry /\ ~A!Ignored(q)
      BY <2>1, <3>1 DEF PlanKeeps
    <3>3. p \in A!Above(q) \/ p \in A!Inside(q)
      BY <2>1, <3>1, <3>2, WrittenTree
    <3>4. CASE p \in A!Inside(q)
      BY <3>2, <3>4, Places DEF A!Replaced
    <3>5. CASE p \in A!Above(q)
      <4>1. p \in A!Dirs /\ q \in A!Inside(p)
        BY <3>2, <3>5, Places
      <4>2. q \in ignores /\ q \notin tracked
        BY <2>1, <4>1 DEF WayIsFree, IgnoresAreClosed, A!Ignored
      <4>3. QED
        BY <3>2, <4>2 DEF A!Ignored
    <3>6. QED
      BY <3>3, <3>4, <3>5
  <2>5. CASE A!PlanApply \/ A!JudgeBeyond \/ A!Applied \/ A!ApplyFails \/ UNCHANGED A!vars
    BY <2>5 DEF A!PlanApply, A!JudgeBeyond, A!Applied, A!ApplyFails, A!vars
  <2>6. QED
    BY <1>1, <2>2, <2>3, <2>4, <2>5 DEF A!Next
<1>2. KeepsIgnored <=> [][Spares]_(A!vars)
  BY DEF KeepsIgnored, A!KeepsIgnored
<1> HIDE DEF Spares
<1>3. QED
  BY <1>1, <1>2, ApplyInit, ApplyNext, PTL DEF A!Spec
=============================================================================
