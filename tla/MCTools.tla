------------------------------- MODULE MCTools ------------------------------
(* The revert check and the gate (Revert), the attempts of a brain (Brain), or runs of af triage (Triage): each *)
(* behaviour is one of the three parts'.                                                                        *)
EXTENDS Revert, TLC

CONSTANTS c1, c2, g, MaxAttempts, MaxScripts, Runs, MaxEdits

VARIABLES
  part,
  inBox, isolates, doing, attempt, runJson, file, boxTree, kept, adopted, accepted, context, cameTo, result, warned,
  standing, fault, scripts,
  body, edits, itsTree, comments, labelled, created, runs, raced, broken, held

brainVars == <<inBox, isolates, doing, attempt, runJson, file, boxTree, kept, adopted, accepted, context, cameTo, result,
               warned, standing, fault, scripts>>
triageVars == <<body, edits, itsTree, comments, labelled, created, runs, raced, broken, held>>

B == INSTANCE Brain WITH tree <- boxTree, outcome <- cameTo
T == INSTANCE Triage WITH tree <- itsTree

ASSUME B!BrainAssumption /\ T!TriageAssumption

\* A part that rests has one state.
Init1 ==
  /\ part \in {"revert", "brain", "triage"}
  /\ Init /\ B!Init /\ T!Init
  /\ part # "revert" => passes = [code \in Code |-> FALSE]
  /\ part # "brain" => inBox /\ boxTree = "a"
Next1 ==
  \/ part = "revert" /\ Next /\ UNCHANGED <<part, brainVars, triageVars>>
  \/ part = "brain" /\ B!Next /\ UNCHANGED <<part, vars, triageVars>>
  \/ part = "triage" /\ T!Next /\ UNCHANGED <<part, vars, brainVars>>
Spec1 == Init1 /\ [][Next1]_<<part, vars, brainVars, triageVars>>

Symmetry == Permutations(Check) \cup Permutations(Runs)

(* Brain: the submission that the host keeps is the one that the attempt made, or none. *)
SubmissionIsTheAttempts == B!SubmissionIsTheAttempts
(* Brain: what the brain was told is accepted, and nobody has touched since, is the submission of the attempt. *)
AcceptedCounts == B!AcceptedCounts
(* Triage: a landing changes nothing in the body but the diagnosis. *)
ReportIsKept == T!ReportIsKept
(* Triage: what is written to the forge is a diagnosis that was right after the box had ended. *)
LandsWhatHolds == T!LandsWhatHolds
=============================================================================
