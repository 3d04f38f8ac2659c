------------------------------- MODULE Triage ------------------------------
(***************************************************************************)
(* Runs of af triage on one issue (internal/afcmd/triage.go and            *)
(* internal/triage), by one person or several, while people edit the issue *)
(* and the checkout: what is refused before the brain costs anything, what *)
(* becomes of the submission, and how it lands.  The tree of a checkout is *)
(* one of two, and a diagnosis is right about one of them.  A body holds   *)
(* what people wrote, each edit a number, and the diagnoses of runs.       *)
(*                                                                         *)
(* A definition marked VARIANT is the one after it with a mistake that     *)
(* would be easy to make.                                                  *)
(***************************************************************************)
EXTENDS Naturals

CONSTANTS
  Runs,      \* the runs
  MaxEdits   \* bound: the edits of people

TriageAssumption == MaxEdits \in Nat /\ "none" \notin Runs

VARIABLES
  body,      \* the body of the issue
  edits,     \* how often people wrote
  tree,      \* the tree of the checkout
  comments,  \* the runs whose diagnosis was posted as a comment
  labelled,  \* the runs whose labels the issue has
  created,   \* the runs that created an issue
  runs,      \* where each run is, with what it was given and what it knows
  raced,     \* what was written between the read of a landing and its write
  broken,    \* the diagnoses whose body people changed so that it is read no more
  held       \* the runs whose diagnosis was right about the checkout after the box ended

forge == <<body, comments, labelled, created>>
vars == <<forge, edits, tree, runs, raced, broken, held>>

Trees == {"a", "b"}
Report(words, inner) == [words |-> words, inner |-> inner]
NoReport == Report({}, {})

(* VARIANT of Extract: a body is wholly the report. *)
ExtractWhole(b) == Report(b.words \cup b.after, b.inner \cup ({b.run} \ {"none"}))

(* The report of a body that is ours is the one between the markers.  Any other body, and one of ours that cannot be read, is wholly the report. *)
Extract(b) ==
  IF b.shape = "ours" THEN Report(b.words, b.inner) ELSE Report(b.words \cup b.after, b.inner \cup ({b.run} \ {"none"}))

(* What the brief gives the brain of an issue: its report, and never an earlier diagnosis. *)
ReportOf(issue) == IF issue THEN Extract(body) ELSE NoReport

Render(r, report) == [shape |-> "ours", run |-> r, words |-> report.words, after |-> {}, inner |-> report.inner]

Fresh == [at |-> "idle", land |-> "issue", issue |-> TRUE, dry |-> FALSE, brief |-> NoReport, box |-> "a",
          submission |-> "none", original |-> NoReport, action |-> "none", failure |-> "none"]
Is(r, at) == runs[r].at = at
(* What a run knows after a change. *)
With(old, changes) == [f \in DOMAIN old |-> IF f \in DOMAIN changes THEN changes[f] ELSE old[f]]
Run(r, changes) == runs' = [runs EXCEPT ![r] = With(@, changes)]
Refused(why) == [at |-> "done", failure |-> why]
Landing(r) == Is(r, "write")

(* A run has read its input, which is an issue or is not, when its flags are looked at. *)
Starts(r) ==
  /\ Is(r, "idle")
  /\ \E land \in {"issue", "none"}, dry, issue \in BOOLEAN :
       \/ Run(r, [at |-> "preflight", land |-> land, dry |-> dry, issue |-> issue, brief |-> ReportOf(issue)])
       \/ Run(r, Refused("usage"))
  /\ UNCHANGED <<forge, edits, tree, raced, broken, held>>

(* The forge is asked whether the run may land, unless it lands nothing; a report too long to land whole is refused. *)
Preflights(r) ==
  /\ Is(r, "preflight")
  /\ \/ Run(r, [at |-> "brief"])
     \/ runs[r].land = "issue" /\ \E why \in {"usage", "auth", "forge"} : Run(r, Refused(why))
  /\ UNCHANGED <<forge, edits, tree, raced, broken, held>>

(* The brief is written, and the box is opened over the tree. *)
Briefs(r) ==
  /\ Is(r, "brief")
  /\ \/ Run(r, [at |-> "brain", box |-> tree])
     \/ \E why \in {"io", "sandbox", "cancelled"} : Run(r, Refused(why))
  /\ UNCHANGED <<forge, edits, tree, raced, broken, held>>

(* What the host took from the box. *)
BrainEnds(r) ==
  /\ Is(r, "brain")
  /\ \/ \E submission \in {"diagnosis", "question"} : Run(r, [at |-> "check", submission |-> submission])
     \/ \E why \in {"no_result", "brain", "budget", "timeout", "cancelled"} : Run(r, Refused(why))
  /\ UNCHANGED <<forge, edits, tree, raced, broken, held>>

(* VARIANT of Holds: that it held in the box is enough. *)
HoldsInTheBox(r) == TRUE

(* Each file that a diagnosis of this tree names is there, under the root, with the lines it says. *)
Resolves(box) == box = tree

(* Whether what the brain said of the files is so in the checkout. *)
Holds(r) == Resolves(runs[r].box)

Checks(r) ==
  /\ Is(r, "check")
  /\ IF Holds(r) THEN Run(r, [at |-> "land"]) ELSE Run(r, Refused("no_result"))
  /\ held' = IF runs[r].box = tree THEN held \cup {r} ELSE held
  /\ UNCHANGED <<forge, edits, tree, raced, broken>>

(* A question lands nothing.  The report is the one of the issue as it is now, or the one of the brief. *)
Lands(r) ==
  /\ Is(r, "land")
  /\ LET onIssue == runs[r].land = "issue" /\ runs[r].issue
         original == IF onIssue THEN Extract(body) ELSE runs[r].brief
     IN \/ ~Holds(r) /\ Run(r, Refused("no_result"))
        \/ Holds(r) /\ runs[r].submission = "question" /\ Run(r, [at |-> "done", action |-> "question"])
        \/ /\ Holds(r) /\ runs[r].submission = "diagnosis"
           /\ \/ runs[r].land = "none" /\ Run(r, [at |-> "done", action |-> "none"])
              \/ runs[r].land = "issue" /\ Run(r, [at |-> "write", original |-> original])
              \/ onIssue /\ \E why \in {"auth", "forge"} : Run(r, Refused(why))
              \/ Run(r, Refused("io"))
  /\ UNCHANGED <<forge, edits, tree, raced, broken, held>>

(* A dry run sends nothing.  A write that is answered with an error may have been made. *)
Writes(r) ==
  /\ Landing(r)
  /\ \/ runs[r].dry /\ Run(r, [at |-> IF runs[r].issue THEN "labels" ELSE "done", action |-> "planned"]) /\ UNCHANGED forge
     \/ /\ ~runs[r].dry
        /\ \/ ~runs[r].issue /\ created' = created \cup {r} /\ Run(r, [at |-> "done", action |-> "created"]) /\ UNCHANGED <<body, comments, labelled>>
           \/ runs[r].issue /\ body' = Render(r, runs[r].original) /\ Run(r, [at |-> "labels", action |-> "replaced"]) /\ UNCHANGED <<comments, labelled, created>>
           \/ runs[r].issue /\ comments' = comments \cup {r} /\ Run(r, [at |-> "labels", action |-> "commented"]) /\ UNCHANGED <<body, labelled, created>>
     \/ ~runs[r].issue /\ Run(r, Refused("usage")) /\ UNCHANGED forge   \* too long for an issue
     \/ /\ ~runs[r].dry /\ \E why \in {"auth", "forge"} : Run(r, Refused(why))
        /\ \/ UNCHANGED forge
           \/ ~runs[r].issue /\ created' = created \cup {r} /\ UNCHANGED <<body, comments, labelled>>
           \/ runs[r].issue /\ body' = Render(r, runs[r].original) /\ UNCHANGED <<comments, labelled, created>>
           \/ runs[r].issue /\ comments' = comments \cup {r} /\ UNCHANGED <<body, labelled, created>>
  /\ UNCHANGED <<edits, tree, raced, broken, held>>

(* A label that cannot be added is a warning. *)
AddsLabels(r) ==
  /\ Is(r, "labels") /\ Run(r, [at |-> "done"])
  /\ \/ UNCHANGED labelled
     \/ ~runs[r].dry /\ labelled' = labelled \cup {r}
  /\ UNCHANGED <<body, comments, created, edits, tree, raced, broken, held>>

(* People write in the report, or after it, or take our marker off the body. *)
PersonWrites ==
  /\ edits < MaxEdits
  /\ edits' = edits + 1
  /\ \/ body' = [body EXCEPT !.words = @ \cup {edits'}] /\ UNCHANGED broken
     \/ body.shape = "ours" /\ body' = [body EXCEPT !.after = @ \cup {edits'}, !.shape = "broken"] /\ broken' = broken \cup {body.run}
     \/ body.shape # "plain" /\ body' = [body EXCEPT !.words = @ \cup {edits'}, !.shape = "plain"] /\ broken' = broken \cup {body.run}
  /\ raced' = IF \E r \in Runs : Landing(r) THEN raced \cup {edits'} ELSE raced
  /\ UNCHANGED <<comments, labelled, created, tree, runs, held>>

TreeChanges ==
  /\ tree' \in Trees \ {tree} /\ UNCHANGED <<forge, edits, runs, raced, broken, held>>

Init ==
  /\ body = [shape |-> "plain", run |-> "none", words |-> {}, after |-> {}, inner |-> {}]
  /\ edits = 0 /\ tree = "a" /\ comments = {} /\ labelled = {} /\ created = {}
  /\ runs = [r \in Runs |-> Fresh] /\ raced = {} /\ broken = {} /\ held = {}

Next ==
  \/ \E r \in Runs : Starts(r) \/ Preflights(r) \/ Briefs(r) \/ BrainEnds(r) \/ Checks(r) \/ Lands(r) \/ Writes(r) \/ AddsLabels(r)
  \/ PersonWrites \/ TreeChanges

Spec == Init /\ [][Next]_vars
-----------------------------------------------------------------------------
(* What a person wrote in the report, or after it, stays in the body through every landing, unless it came between the    *)
(* read of a landing and its write (body.go, Extract and Render; land.go, original).                                      *)
WordsAreKept == 1 .. edits \subseteq body.words \cup body.after \cup raced

(* The diagnosis of an earlier run is replaced, and is in the report only when people changed its body so that it could   *)
(* not be read (body.go, Extract).                                                                                        *)
NotNested == body.inner \subseteq broken

(* A landing changes nothing in the body but the diagnosis. *)
ReportIsKept == WordsAreKept /\ NotNested

(* What is written to the forge is a diagnosis, of no dry run and of no run that lands nothing, and was right about the   *)
(* checkout after the box had ended (afcmd/triage.go, triageLoop; land.go, Land).                                         *)
LandsWhatHolds ==
  \A r \in Runs : r \in comments \cup labelled \cup created \cup ({body.run} \ {"none"}) \cup body.inner =>
    /\ r \in held
    /\ runs[r].submission = "diagnosis" /\ runs[r].land = "issue" /\ ~runs[r].dry
=============================================================================
