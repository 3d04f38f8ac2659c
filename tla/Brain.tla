------------------------------- MODULE Brain -------------------------------
(***************************************************************************)
(* The attempts of a brain in one held box (internal/brain): the run's     *)
(* files are placed, the brain works and may submit, and the host decides  *)
(* from the submission file of the box alone.  The brain drives the tools  *)
(* from the host, or is a process of af in the box that does the same with *)
(* the same directory as its run directory (internal/afcmd/placed.go).     *)
(* A tree, and what a payload claims of it, is one of two.  The nonce of   *)
(* an attempt is its number.                                               *)
(*                                                                         *)
(* A definition marked VARIANT is the one after it with a mistake that     *)
(* would be easy to make.                                                  *)
(***************************************************************************)
EXTENDS Naturals

CONSTANTS
  MaxAttempts,  \* bound: the attempts of the run
  MaxScripts    \* bound: what the programs that the brain starts do to the files of af

BrainAssumption == MaxAttempts \in Nat /\ MaxScripts \in Nat

VARIABLES
  inBox,      \* whether the driver is a process in the box
  isolates,   \* whether the box keeps the brain's programs off the host
  doing,      \* where the attempt is
  attempt,
  runJson,    \* the nonce in run.json of the box; none is 0
  file,       \* the submission file of the box
  tree,       \* the tree of the box
  kept,       \* the submission of the run directory
  adopted,    \* the nonce of the process in the box
  accepted,   \* whether the submit core has accepted a payload of this attempt
  context,    \* what became of the time of the attempt
  outcome,    \* what the brain came to
  result,     \* what the attempt came to
  warned,     \* whether the attempt said that a submission was not removed
  standing,   \* whether what was accepted is as it was, and true
  fault,      \* whether the host could not read or write a submission
  scripts

config == <<inBox, isolates>>
brain == <<adopted, accepted, outcome>>
ghosts == <<standing, fault, scripts>>
vars == <<config, doing, attempt, runJson, file, tree, kept, brain, context, result, warned, ghosts>>

Trees == {"a", "b"}
Forged == MaxAttempts + 1
NoFile == [nonce |-> 0, by |-> 0, sound |-> FALSE, claim |-> "a"]
File(nonce, sound, claim) == [nonce |-> nonce, by |-> attempt, sound |-> sound, claim |-> claim]
NoSubmission == [of |-> 0, by |-> 0, claim |-> "a"]
Foreign == [of |-> Forged, by |-> attempt, claim |-> "a"]   \* what a program wrote on the host

(* The run directory loses its submission, or the run says that it could not be removed. *)
ClearHostSubmission ==
  \/ kept' = NoSubmission /\ UNCHANGED warned
  \/ kept # NoSubmission /\ kept' = kept /\ warned' = TRUE

Begins ==
  /\ doing \in {"idle", "decided"} /\ attempt < MaxAttempts /\ context # "cancelled"
  /\ attempt' = attempt + 1 /\ doing' = "place" /\ result' = "none"
  /\ context' = "running" /\ outcome' = "none" /\ accepted' = FALSE /\ adopted' = 0
  /\ standing' = FALSE /\ fault' = FALSE
  /\ \/ kept' = NoSubmission /\ warned' = FALSE
     \/ kept # NoSubmission /\ UNCHANGED kept /\ warned' = TRUE
  /\ UNCHANGED <<config, runJson, file, tree, scripts>>

(* The files go one after the other, and the first that fails ends the attempt: of these run.json is the third. *)
Places ==
  /\ doing = "place"
  /\ \/ runJson' = attempt /\ doing' = "brain" /\ UNCHANGED result
     \/ /\ runJson' \in {runJson, attempt} /\ doing' = "decided"
        /\ result' = IF context = "cancelled" THEN "cancelled" ELSE "unplaced"
  /\ UNCHANGED <<config, attempt, file, tree, kept, brain, context, warned, ghosts>>

(* The tools of the brain are there while the driver runs. *)
Drives == doing = "brain" /\ outcome = "none" /\ (inBox => adopted # 0)

Edits ==
  /\ Drives
  /\ tree' \in Trees \ {tree} /\ standing' = FALSE
  /\ UNCHANGED <<config, doing, attempt, runJson, file, kept, brain, context, result, warned, fault, scripts>>

(* A payload is accepted under a run.json that is one, and when it is right about the tree.  The file may not be written. *)
Submits ==
  /\ Drives /\ ~accepted /\ runJson # 0 /\ (inBox \/ context = "running")
  /\ accepted' = TRUE
  /\ file' = File(runJson, TRUE, tree)
  /\ standing' = (runJson = attempt)
  /\ UNCHANGED <<config, doing, attempt, runJson, tree, kept, adopted, context, outcome, result, warned, fault, scripts>>

(* A program of the brain writes or removes a file of af, where the guard of the tool calls does not see it. *)
Scripts ==
  /\ Drives /\ scripts < MaxScripts
  /\ scripts' = scripts + 1 /\ standing' = FALSE
  /\ \/ file' \in {NoFile} \cup {File(nonce, sound, claim) : nonce \in {runJson, Forged}, sound \in BOOLEAN, claim \in Trees}
        /\ UNCHANGED <<runJson, kept>>
     \/ runJson' \in {0, Forged} /\ UNCHANGED <<file, kept>>
     \/ ~isolates /\ ~inBox /\ kept' = Foreign /\ UNCHANGED <<file, runJson>>
  /\ UNCHANGED <<config, doing, attempt, tree, brain, context, result, warned, fault>>

(* VARIANT of Counts: any file that is sound and true counts. *)
CountsWhateverItsNonce(nonce) == file # NoFile /\ file.sound /\ file.claim = tree

(* A submission file of the box counts when it is this attempt's and right about the box's tree. *)
Counts(nonce) == file # NoFile /\ file.nonce = nonce /\ file.sound /\ file.claim = tree

(* The process in the box adopts the nonce that was placed, and clears its run directory, which is the box's. *)
ProcessBegins ==
  /\ doing = "brain" /\ outcome = "none" /\ inBox /\ adopted = 0 /\ runJson # 0
  /\ adopted' = runJson
  /\ file' = NoFile
  /\ UNCHANGED <<config, doing, attempt, runJson, tree, kept, accepted, context, outcome, result, warned, ghosts>>

(* It decides as the host will, and its claim is the result of its envelope. *)
ProcessDecides ==
  /\ Drives /\ inBox
  /\ file' = IF Counts(adopted) THEN file ELSE NoFile
  /\ outcome' \in IF Counts(adopted) THEN {"submitted"} ELSE {"error", "budget", "turns"}
  /\ UNCHANGED <<config, doing, attempt, runJson, tree, kept, adopted, accepted, context, result, warned, ghosts>>

(* The tool of the brain answers that its payload is accepted, and the brain ends with that, or as it ends: at a bound, *)
(* with an error, by a panic, or since its context is over.                                                            *)
Returns ==
  /\ doing = "brain" /\ outcome = "none" /\ ~inBox
  /\ outcome' \in IF accepted THEN {"submitted", "panic"} ELSE {"ended", "budget", "turns", "error", "panic"}
  /\ UNCHANGED <<config, doing, attempt, runJson, file, tree, kept, adopted, accepted, context, result, warned, ghosts>>

(* The process is not started: the box has no af that answers, or no home for it. *)
ProcessFails ==
  /\ doing = "brain" /\ outcome = "none" /\ inBox /\ adopted = 0
  /\ outcome' = "error"
  /\ UNCHANGED <<config, doing, attempt, runJson, file, tree, kept, adopted, accepted, context, result, warned, ghosts>>

(* The process ends wherever it is, killed when its time is over or by anything else.  Without an envelope that can be  *)
(* read, its outcome is made up from its exit code and from whether the submission file has the nonce.                  *)
ProcessExits ==
  /\ doing = "brain" /\ outcome = "none" /\ inBox
  /\ outcome' \in {"ended", "budget", "turns", "error"} \cup (IF file.nonce = attempt THEN {"submitted"} ELSE {})
  /\ UNCHANGED <<config, doing, attempt, runJson, file, tree, kept, adopted, accepted, context, result, warned, ghosts>>

Collects ==
  /\ doing = "brain" /\ outcome # "none"
  /\ doing' = "decide"
  /\ UNCHANGED <<config, attempt, runJson, file, tree, kept, brain, context, result, warned, ghosts>>

TimePasses ==
  /\ \/ doing \in {"place", "brain"} /\ context = "running" /\ context' = "timeout"
     \/ doing \in {"place", "brain", "decide"} /\ context # "cancelled" /\ context' = "cancelled"
  /\ UNCHANGED <<config, doing, attempt, runJson, file, tree, kept, brain, result, warned, ghosts>>

(* Why an attempt without a submission failed, the first that holds. *)
Failure ==
  IF outcome = "panic" THEN "brain"
  ELSE IF context # "running" THEN context
  ELSE CASE outcome = "error" -> "brain"
         [] outcome \in {"budget", "turns"} -> "budget"
         [] OTHER -> "no_result"

(* VARIANT of Readable: the host reads with the context of the run. *)
ReadableInTime == context = "running"

(* A context that is over does not end the read, which has 30 seconds of its own. *)
Readable == TRUE

NotAccepted(why) == result' = why /\ ClearHostSubmission

Decides ==
  /\ doing = "decide" /\ doing' = "decided"
  /\ \/ /\ Readable /\ Counts(attempt)
        /\ kept' = [of |-> attempt, by |-> file.by, claim |-> file.claim] /\ result' = "submitted"
        /\ UNCHANGED <<warned, fault>>
     \/ Readable /\ Counts(attempt) /\ NotAccepted("io") /\ fault' = TRUE
     \/ ~(Readable /\ Counts(attempt)) /\ NotAccepted(Failure) /\ UNCHANGED fault
     \/ NotAccepted(Failure) /\ fault' = TRUE
  /\ UNCHANGED <<config, attempt, runJson, file, tree, brain, context, standing, scripts>>

Init ==
  /\ inBox \in BOOLEAN /\ isolates \in BOOLEAN /\ (inBox => isolates)
  /\ doing = "idle" /\ attempt = 0 /\ runJson = 0 /\ file = NoFile /\ tree \in Trees
  /\ kept = NoSubmission /\ adopted = 0 /\ accepted = FALSE /\ context = "running"
  /\ outcome = "none" /\ result = "none" /\ warned = FALSE
  /\ standing = FALSE /\ fault = FALSE /\ scripts = 0

Next == \/ Begins \/ Places \/ Edits \/ Submits \/ Scripts \/ ProcessBegins \/ ProcessDecides
        \/ Returns \/ ProcessFails \/ ProcessExits \/ Collects \/ TimePasses \/ Decides

Spec == Init /\ [][Next]_vars
-----------------------------------------------------------------------------
(* What an attempt returns was made in it, under its nonce, and is right about the tree (decide.go, readSubmission). *)
OwnSubmission ==
  doing = "decided" /\ result = "submitted" => kept = [of |-> attempt, by |-> attempt, claim |-> tree]

(* An attempt that has no submission leaves none in the run directory, of an earlier attempt or of a program of the brain, *)
(* or says that it could not (decide.go, clearHostSubmission).                                                            *)
NoStraySubmission == doing = "decided" /\ result # "submitted" => kept = NoSubmission \/ warned

(* The submission that the host keeps is the one that the attempt made, or none. *)
SubmissionIsTheAttempts == OwnSubmission /\ NoStraySubmission

(* What the brain was told is accepted, and nobody has touched since, is the submission of the attempt, whatever became   *)
(* of the brain, its process, its time or the run (execute.go, decide.go, agentkit_process.go).                           *)
AcceptedCounts == doing = "decided" /\ standing => result = "submitted" \/ fault
=============================================================================
