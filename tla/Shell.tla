------------------------------- MODULE Shell -------------------------------
(***************************************************************************)
(* One invocation of a command under the shell of af (internal/toolio):    *)
(* what the command is given, how it is told to stop and given up on, and  *)
(* how its envelope, the copy of it in the run directory and the events    *)
(* come out while a command that was given up on goes on.  What a warning  *)
(* or an event says is left out: warnings are counted.                     *)
(*                                                                         *)
(* A definition marked VARIANT is the one after it with a mistake that     *)
(* would be easy to make.                                                  *)
(***************************************************************************)
EXTENDS Naturals, Sequences, FiniteSets

CONSTANT MaxReports   \* bound: the warnings and events of the command

ShellAssumption == MaxReports \in Nat

VARIABLES
  at,        \* where the shell is
  command,   \* whether the command runs: "off", "running", "returned"
  answer,    \* what it returned
  told,      \* why it is told to stop
  runDir,    \* whether there is a run directory
  copy,      \* the envelope in the run directory
  envelope,  \* the envelope as it is made
  stdout,    \* the envelope that was written
  warnings,  \* the warnings raised
  events,    \* the events written
  stream,    \* the event stream: "off", "started", "dead", "closed"
  reports,   \* how often the command reported
  givenUp    \* whether the shell answered for the command

returned == <<command, answer>>
runDirectory == <<runDir, copy>>
raised == <<warnings, events, stream, reports>>
vars == <<at, returned, told, runDirectory, envelope, stdout, raised, givenUp>>

None == [status |-> "none", warnings |-> 0]
Status(s) == [envelope EXCEPT !.status = s]

(* An event is written while the stream is open.  A file that cannot be written is given up, with a warning the first time. *)
Emits(type, count) ==
  \/ /\ events' = IF stream = "started" THEN Append(events, type) ELSE events
     /\ warnings' = count /\ UNCHANGED stream
  \/ stream = "started" /\ stream' = "dead" /\ warnings' = count + 1 /\ UNCHANGED events

Refuses(status) == at' = "copy" /\ envelope' = [Status(status) EXCEPT !.warnings = warnings]

(* The words name a command and its flags, or they do not. *)
Parses ==
  /\ at = "parse"
  /\ \/ at' = "prepare" /\ UNCHANGED envelope
     \/ Refuses("usage")
  /\ UNCHANGED <<returned, told, runDirectory, stdout, raised, givenUp>>

(* The forge and the input are made out.  An input that was cut, or a thread that was, is a warning. *)
Resolves ==
  /\ at = "prepare"
  /\ \/ at' = "begin" /\ warnings' \in {0, 1} /\ UNCHANGED envelope
     \/ \E status \in {"usage", "failed"} : Refuses(status) /\ UNCHANGED warnings
  /\ UNCHANGED <<returned, told, runDirectory, stdout, events, stream, reports, givenUp>>

(* The run directory is made, and the events begin with the warnings there are. *)
Prepares ==
  /\ at = "begin"
  /\ \/ /\ at' = "start" /\ runDir' \in BOOLEAN
        /\ \/ stream' = "started" /\ events' = <<"run_start">> \o [i \in 1 .. warnings |-> "warning"] /\ UNCHANGED warnings
           \/ runDir' /\ stream' = "dead" /\ warnings' = warnings + 1 /\ UNCHANGED events
           \/ ~runDir' /\ UNCHANGED <<stream, events, warnings>>
        /\ UNCHANGED envelope
     \/ Refuses("failed") /\ UNCHANGED <<runDir, warnings, events, stream>>
  /\ UNCHANGED <<returned, told, copy, stdout, reports, givenUp>>

Starts ==
  /\ at = "start" /\ at' = "running" /\ command' = "running"
  /\ UNCHANGED <<answer, told, runDirectory, envelope, stdout, raised, givenUp>>

(* The command reports, for as long as it runs, whether or not the shell still waits for it. *)
Reports ==
  /\ command = "running" /\ reports < MaxReports
  /\ reports' = reports + 1
  /\ Emits("step", warnings) \/ Emits("warning", warnings + 1)
  /\ UNCHANGED <<at, returned, told, runDirectory, envelope, stdout, givenUp>>

Returns ==
  /\ command = "running" /\ command' = "returned"
  /\ answer' \in {"outcome", "inconsistent", "failure", "panic"}
  /\ UNCHANGED <<at, told, runDirectory, envelope, stdout, raised, givenUp>>

Told ==
  /\ \/ at # "done" /\ told' = told \cup {"signal"}
     \/ at \in {"running", "stopping"} /\ told' = told \cup {"deadline"}
  /\ told' # told
  /\ UNCHANGED <<at, returned, runDirectory, envelope, stdout, raised, givenUp>>

(* The grace begins when the command is told to stop. *)
GraceBegins ==
  /\ at = "running" /\ told # {} /\ at' = "stopping"
  /\ UNCHANGED <<returned, told, runDirectory, envelope, stdout, raised, givenUp>>

WhyStopped == IF "signal" \in told THEN "cancelled" ELSE "timeout"

(* VARIANT of Abandons: the shell waits for the command. *)
AbandonsNoOne ==
  /\ at = "stopping" /\ command = "returned" /\ answer = "none" /\ at' = "copy" /\ envelope' = Status(WhyStopped)
  /\ UNCHANGED <<returned, told, runDirectory, stdout, raised, givenUp>>

(* The grace is over: the shell answers for the command. *)
Abandons ==
  /\ at = "stopping"
  /\ at' = "copy" /\ envelope' = [Status(WhyStopped) EXCEPT !.warnings = warnings]
  /\ givenUp' = TRUE
  /\ UNCHANGED <<returned, told, runDirectory, stdout, raised>>

(* The envelope's status is that of the answer, unless the command was told to stop. *)
Settles ==
  /\ at \in {"running", "stopping"} /\ command = "returned"
  /\ LET failed == answer \in {"failure", "panic"}
         late == answer # "panic" /\ told # {} /\ (failed \/ "signal" \notin told)
         status == IF late THEN WhyStopped ELSE IF answer = "outcome" THEN "outcome" ELSE "failed"
     IN at' = "copy" /\ envelope' = [Status(status) EXCEPT !.warnings = warnings]
  /\ UNCHANGED <<returned, told, runDirectory, stdout, raised, givenUp>>

(* The copy is the first that is written, and one that cannot be is a warning. *)
Copies ==
  /\ at = "copy" /\ at' = "end"
  /\ \/ runDir /\ copy' = envelope /\ UNCHANGED <<warnings, events, stream>>
     \/ runDir /\ UNCHANGED copy /\ Emits("warning", warnings + 1)
     \/ ~runDir /\ UNCHANGED <<copy, warnings, events, stream>>
  /\ envelope' = [envelope EXCEPT !.warnings = warnings']
  /\ UNCHANGED <<returned, told, runDir, stdout, reports, givenUp>>

EndsEvents ==
  /\ at = "end" /\ at' = "close"
  /\ Emits("run_end", warnings)
  /\ UNCHANGED <<returned, told, runDirectory, envelope, stdout, reports, givenUp>>

Final == [envelope EXCEPT !.warnings = warnings]

(* VARIANT of Rewritten: a copy stays as it was written. *)
NotRewritten == copy

(* A copy that was written is written again when the envelope has changed. *)
Rewritten == IF copy = None THEN None ELSE Final

Closes ==
  /\ at = "close" /\ at' = "done"
  /\ stream' = IF stream = "started" THEN "closed" ELSE stream
  /\ envelope' = Final /\ copy' = Rewritten /\ stdout' = Final
  /\ UNCHANGED <<returned, told, runDir, warnings, events, reports, givenUp>>

Init ==
  /\ at = "parse" /\ command = "off" /\ answer = "none" /\ told = {} /\ runDir = FALSE
  /\ copy = None /\ envelope = None /\ stdout = None /\ warnings = 0 /\ events = <<>>
  /\ stream = "off" /\ reports = 0 /\ givenUp = FALSE

Waits == Resolves \/ Prepares \/ Starts \/ GraceBegins \/ Abandons \/ Settles
Publishes == Copies \/ EndsEvents \/ Closes
Next == Parses \/ Waits \/ Publishes \/ Reports \/ Returns \/ Told

(* The shell goes on, and its timers fire.  A command may run for ever. *)
Spec == Init /\ [][Next]_vars /\ WF_vars(Waits) /\ WF_vars(Publishes)
-----------------------------------------------------------------------------
(* The copy of the envelope in the run directory, when it was written, is the envelope on stdout, whatever the events and *)
(* a command that was given up on add meanwhile (app.go, publish).                                                        *)
CopyIsTheOutput == at = "done" /\ copy # None => copy = stdout

(* Every warning of a command that was waited for, and every one of the shell's own, is in the envelope, and is an event  *)
(* of its own while the events could be written (app.go, publish; events.go, begin).                                *)
WarningsAreTold ==
  at = "done" /\ ~givenUp =>
    /\ stdout.warnings = warnings
    /\ stream = "closed" => Cardinality({i \in DOMAIN events : events[i] = "warning"}) = warnings

(* What is printed is what is kept and what was reported. *)
TellsTheSame == CopyIsTheOutput /\ WarningsAreTold

(* A command that is told to stop ends with an envelope, whether it stops or not (run.go, execute).                       *)
StopsWithAnEnvelope == (at # "parse" /\ told # {}) ~> (at = "done")

(* docs/cli.md says of run_end that it is always last.                                                                    *)
RunEndIsLast == \A i \in DOMAIN events : events[i] = "run_end" => i = Len(events)
=============================================================================
