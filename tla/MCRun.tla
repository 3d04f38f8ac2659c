-------------------------------- MODULE MCRun -------------------------------
(* A fix run (Fix), its applies to a checkout (Apply), or the shell of a command (Shell): each behaviour is one of *)
(* the three parts'.                                                                                              *)
EXTENDS Fix

CONSTANTS k1, k2, MaxRounds, MaxReports

VARIABLES
  part,
  files, tracked, ignores, gitlink, doing, export, entries, beyond, deletes, deleted, rounds,
  at, command, answer, stopped, runDir, copy, envelope, stdout, warnings, events, stream, reports, givenUp

applyVars == <<files, tracked, ignores, gitlink, doing, export, entries, beyond, deletes, deleted, rounds>>
shellVars == <<at, command, answer, stopped, runDir, copy, envelope, stdout, warnings, events, stream, reports, givenUp>>
A == INSTANCE Apply WITH checkout <- files
S == INSTANCE Shell WITH told <- stopped

ASSUME A!ApplyAssumption /\ S!ShellAssumption

\* The part that rests has one state.
Init1 ==
  /\ part \in {"fix", "apply", "shell"} /\ Init /\ A!Init /\ S!Init
  /\ part # "fix" => mode = "none" /\ noVerify /\ baseline = {}
  /\ part # "apply" => files = [p \in A!Paths |-> "none"] /\ ignores = {}
Next1 ==
  \/ part = "fix" /\ Next /\ UNCHANGED <<part, applyVars, shellVars>>
  \/ part = "apply" /\ A!Next /\ UNCHANGED <<part, vars, shellVars>>
  \/ part = "shell" /\ S!Next /\ UNCHANGED <<part, vars, applyVars>>

\* The fairness of the part that a behaviour is of.
Spec1 ==
  /\ Init1 /\ [][Next1]_<<part, vars, applyVars, shellVars>>
  /\ WF_vars(part = "fix" /\ Run)
  /\ WF_shellVars(part = "shell" /\ S!Waits) /\ WF_shellVars(part = "shell" /\ S!Publishes)

(* Fix: a run ends. *)
FixEnds == part = "fix" => RunEnds
(* Apply: when an apply is through, the checkout is the export, less what is to be left as it is. *)
IsTheExport == A!IsTheExport
(* Apply: what git ignores is not touched, but where the export has something in its place, or through a link. *)
KeepsIgnored == A!KeepsIgnored
(* Shell: what is printed is what is kept and what was reported. *)
TellsTheSame == S!TellsTheSame
(* Shell: a command that is told to stop ends with an envelope. *)
StopsWithAnEnvelope == S!StopsWithAnEnvelope
=============================================================================
