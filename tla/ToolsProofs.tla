---------------------------- MODULE ToolsProofs ----------------------------
(***************************************************************************)
(* What Brain keeps for any number of attempts and of files that programs  *)
(* write, Triage for any number of runs and of edits, and Revert for any   *)
(* number of checks and runs of the gate, writes of tests and failed       *)
(* calls.                                                                  *)
(*                                                                         *)
(* Brain: the submission that the host keeps is the attempt's own, and one *)
(* that was accepted is not lost.  The nonce carries both.  A file never   *)
(* has a nonce that was placed after it was written, unless it is a forged *)
(* one (Dated), so that a file with the nonce of the attempt was written   *)
(* in it.  And a process in the box reads run.json before the brain has a  *)
(* tool to change it with (Adopts), so that it keeps what the host will.   *)
(*                                                                         *)
(* Triage: a landing writes what it has read, so that what it has read     *)
(* must have every word that did not come between (ReadIsKept) and no      *)
(* diagnosis but one whose body people changed, which a body that is not   *)
(* ours any more is (AfterIsBroken).  And a run that the issue says        *)
(* something of, or that another has read of, has landed (Landings).       *)
(*                                                                         *)
(* Revert: the patch is what keeps two checks from each other: the check   *)
(* that wrote it is the only one that moves the change (OneWorks), and     *)
(* when it removes the patch the change is in the tree (InPlace).  That    *)
(* the tree is as it was would not be enough, since it may have been noted *)
(* while another check had the change out.                                 *)
(*                                                                         *)
(* What the gate keeps of a tree may be what the tests said of another, so *)
(* that a stored result says little of its own tree.  But a change whose   *)
(* tests fail with it is never taken out, and no run ever passes then; and *)
(* if the tests pass with it and without it, no run ever fails (Sound).    *)
(***************************************************************************)
EXTENDS MCTools, TLAPS

Nonces(n) == 0 .. n \cup {B!Forged}

(* The variables that the facts below compute with. *)
BrainTypes ==
  /\ attempt \in 0 .. MaxAttempts /\ (doing # "idle" => attempt >= 1)
  /\ doing \in {"idle", "place", "brain", "decide", "decided"}
  /\ runJson \in Nonces(attempt)
  /\ context \in {"running", "timeout", "cancelled"}

Dated == file.by \in 0 .. attempt /\ file.nonce \in Nonces(file.by)

Adopts ==
  /\ doing = "place" => adopted = 0
  /\ doing = "brain" /\ inBox /\ adopted = 0 => runJson = attempt /\ ~standing
  /\ doing = "brain" /\ inBox => adopted \in {0, attempt}

(* What stands is what will count. *)
Stands == standing /\ doing # "decided" => doing \in {"brain", "decide"} /\ B!Counts(attempt)

ClearedAtFirst == doing = "place" => kept = B!NoSubmission \/ warned

BrainInv == BrainTypes /\ Dated /\ Adopts /\ Stands /\ ClearedAtFirst /\ SubmissionIsTheAttempts /\ AcceptedCounts

LEMMA BrainInit == ASSUME B!BrainAssumption PROVE B!Init => BrainInv
<1> SUFFICES ASSUME B!Init PROVE BrainInv
  OBVIOUS
<1>1. BrainTypes /\ Dated
  BY DEF B!BrainAssumption, B!Init, BrainTypes, Dated, Nonces, B!NoFile
<1>2. Adopts /\ Stands /\ ClearedAtFirst
  BY DEF B!Init, Adopts, Stands, ClearedAtFirst
<1>3. SubmissionIsTheAttempts /\ AcceptedCounts
  BY DEF B!Init, SubmissionIsTheAttempts, B!SubmissionIsTheAttempts, B!OwnSubmission, B!NoStraySubmission, AcceptedCounts, B!AcceptedCounts
<1>4. QED
  BY <1>1, <1>2, <1>3 DEF BrainInv

(* What counts for an attempt was written in it. *)
LEMMA CountsIsOwn ==
  ASSUME B!BrainAssumption, BrainTypes, Dated, doing # "idle", B!Counts(attempt)
  PROVE  file.by = attempt /\ file.claim = boxTree
<1>1. attempt \in 1 .. MaxAttempts /\ MaxAttempts \in Nat /\ attempt # B!Forged
  BY DEF B!BrainAssumption, BrainTypes, B!Forged
<1>2. file.nonce = attempt /\ file.claim = boxTree
  BY DEF B!Counts
<1>3. file.by \in 0 .. attempt /\ (file.nonce \in 0 .. file.by \/ file.nonce = B!Forged)
  BY DEF Dated, Nonces
<1>4. QED
  BY <1>1, <1>2, <1>3

(* A file that is written now is dated. *)
LEMMA WrittenIsDated ==
  ASSUME BrainTypes, B!BrainAssumption, NEW nonce \in {runJson, B!Forged}, NEW sound, NEW c
  PROVE  LET f == B!File(nonce, sound, c) IN f.by \in 0 .. attempt /\ f.nonce \in Nonces(f.by)
<1>1. attempt \in 0 .. attempt
  BY DEF BrainTypes, B!BrainAssumption
<1>2. nonce \in Nonces(attempt)
  BY DEF BrainTypes, Nonces
<1>3. QED
  BY <1>1, <1>2 DEF B!File

LEMMA NoFileIsDated == ASSUME B!BrainAssumption, BrainTypes PROVE B!NoFile.by \in 0 .. attempt /\ B!NoFile.nonce \in Nonces(B!NoFile.by)
  BY DEF B!BrainAssumption, BrainTypes, B!NoFile, Nonces

(* BrainTypes, Dated and Adopts are kept by every step. *)
LEMMA TypesStep == ASSUME B!BrainAssumption, BrainTypes, B!Next PROVE BrainTypes'
<1>1. CASE B!Begins
  <2>1. attempt' = attempt + 1 /\ attempt < MaxAttempts /\ doing' = "place" /\ runJson' = runJson /\ context' = "running"
    BY <1>1 DEF B!Begins
  <2>2. attempt' \in 0 .. MaxAttempts /\ attempt' >= 1
    BY <2>1 DEF BrainTypes, B!BrainAssumption
  <2>3. runJson' \in Nonces(attempt')
    BY <2>1 DEF BrainTypes, Nonces, B!BrainAssumption
  <2>4. QED
    BY <2>1, <2>2, <2>3 DEF BrainTypes
<1>2. CASE B!Places
  <2>1. attempt' = attempt /\ doing = "place" /\ doing' \in {"brain", "decided"} /\ runJson' \in {runJson, attempt} /\ UNCHANGED context
    BY <1>2 DEF B!Places
  <2>2. attempt \in Nonces(attempt)
    BY DEF BrainTypes, Nonces, B!BrainAssumption
  <2>3. QED
    BY <2>1, <2>2 DEF BrainTypes
<1>3. CASE B!Scripts
  <2>1. UNCHANGED <<attempt, doing, context>> /\ runJson' \in {runJson, 0, B!Forged}
    BY <1>3 DEF B!Scripts
  <2>2. 0 \in Nonces(attempt) /\ B!Forged \in Nonces(attempt)
    BY DEF BrainTypes, Nonces, B!BrainAssumption
  <2>3. QED
    BY <2>1, <2>2 DEF BrainTypes
<1>4. CASE B!Collects \/ B!Decides
  BY <1>4 DEF B!Collects, B!Decides, BrainTypes
<1>5. CASE B!Edits \/ B!Submits \/ B!ProcessBegins \/ B!ProcessDecides \/ B!Returns \/ B!ProcessFails \/ B!ProcessExits \/ B!TimePasses
  BY <1>5 DEF B!Edits, B!Submits, B!ProcessBegins, B!ProcessDecides, B!Returns, B!ProcessFails, B!ProcessExits, B!TimePasses, BrainTypes
<1>6. QED
  BY <1>1, <1>2, <1>3, <1>4, <1>5 DEF B!Next

LEMMA DatedStep == ASSUME B!BrainAssumption, BrainTypes, Dated, B!Next PROVE Dated'
<1>1. CASE B!Begins
  <2>1. attempt' = attempt + 1 /\ UNCHANGED file
    BY <1>1 DEF B!Begins
  <2>2. file.by \in 0 .. attempt + 1
    BY DEF Dated, BrainTypes, B!BrainAssumption
  <2>3. QED
    BY <2>1, <2>2 DEF Dated
<1>2. CASE B!Submits
  BY <1>2, WrittenIsDated DEF B!Submits, Dated
<1>3. CASE B!Scripts
  <2>1. UNCHANGED attempt
    BY <1>3 DEF B!Scripts
  <2>2. \/ file' \in {file, B!NoFile}
        \/ \E nonce \in {runJson, B!Forged}, sound \in BOOLEAN, c \in B!Trees : file' = B!File(nonce, sound, c)
    BY <1>3 DEF B!Scripts
  <2>3. CASE file' \in {file, B!NoFile}
    BY <2>1, <2>3, NoFileIsDated DEF Dated
  <2>4. ASSUME NEW nonce \in {runJson, B!Forged}, NEW sound, NEW c, file' = B!File(nonce, sound, c) PROVE Dated'
    BY <2>1, <2>4, WrittenIsDated DEF Dated
  <2>5. QED
    BY <2>2, <2>3, <2>4
<1>4. CASE B!ProcessBegins \/ B!ProcessDecides
  <2>1. UNCHANGED attempt /\ file' \in {file, B!NoFile}
    BY <1>4 DEF B!ProcessBegins, B!ProcessDecides
  <2>2. QED
    BY <2>1, NoFileIsDated DEF Dated
<1>5. CASE B!Places \/ B!Edits \/ B!Returns \/ B!ProcessFails \/ B!ProcessExits \/ B!Collects \/ B!TimePasses \/ B!Decides
  BY <1>5 DEF B!Places, B!Edits, B!Returns, B!ProcessFails, B!ProcessExits, B!Collects, B!TimePasses, B!Decides, Dated
<1>6. QED
  BY <1>1, <1>2, <1>3, <1>4, <1>5 DEF B!Next

(* What the brain and its programs leave to the host and the process. *)
LEMMA ToolsLeave ==
  ASSUME B!Edits \/ B!Submits \/ B!Scripts
  PROVE  B!Drives /\ UNCHANGED <<inBox, doing, attempt, adopted>>
<1>1. CASE B!Edits
  BY <1>1 DEF B!Edits, B!config, B!brain
<1>2. CASE B!Submits
  BY <1>2 DEF B!Submits, B!config
<1>3. CASE B!Scripts
  <2>1. B!Drives
    BY <1>3 DEF B!Scripts
  <2>2. UNCHANGED <<B!config, doing, attempt, B!brain>>
    BY <1>3 DEF B!Scripts
  <2>3. QED
    BY <2>1, <2>2 DEF B!config, B!brain
<1>4. QED
  BY <1>1, <1>2, <1>3

LEMMA AdoptsStep == ASSUME BrainTypes, Adopts, Stands, B!Next PROVE Adopts'
<1>1. CASE B!Begins
  BY <1>1 DEF B!Begins, Adopts
<1>2. CASE B!Places
  BY <1>2 DEF B!Places, Adopts, Stands, B!config, B!brain, B!ghosts
<1>3. CASE B!Edits \/ B!Submits \/ B!Scripts
  BY <1>3, ToolsLeave DEF B!Drives, Adopts
<1>4. CASE B!ProcessBegins
  BY <1>4 DEF B!ProcessBegins, BrainTypes, Adopts, B!config
<1>5. CASE B!ProcessDecides \/ B!Returns \/ B!ProcessFails \/ B!ProcessExits \/ B!Collects \/ B!TimePasses \/ B!Decides
  BY <1>5 DEF B!ProcessDecides, B!Returns, B!ProcessFails, B!ProcessExits, B!Collects, B!TimePasses, B!Decides, Adopts, B!config, B!brain, B!ghosts
<1>6. QED
  BY <1>1, <1>2, <1>3, <1>4, <1>5 DEF B!Next

(* Only a step of the brain, its programs or its process disturbs a submission, and only one that nobody counts on. *)
LEMMA StandsStep == ASSUME B!BrainAssumption, BrainTypes, Adopts, Stands, B!Next PROVE Stands'
<1>1. CASE B!Begins \/ B!Edits \/ B!Scripts
  BY <1>1 DEF B!Begins, B!Edits, B!Scripts, Stands
<1>2. CASE B!Submits
  <2>1. UNCHANGED <<doing, attempt, boxTree, runJson>> /\ doing = "brain" /\ (standing' => runJson = attempt) /\ file' = B!File(runJson, TRUE, boxTree)
    BY <1>2 DEF B!Submits, B!Drives
  <2>2. attempt # 0
    BY <2>1 DEF BrainTypes, B!BrainAssumption
  <2>3. runJson = attempt => file'.nonce = attempt /\ file'.sound /\ file'.claim = boxTree /\ file' # B!NoFile
    BY <2>1, <2>2 DEF B!File, B!NoFile
  <2>4. QED
    BY <2>1, <2>3 DEF Stands, B!Counts
<1>3. CASE B!ProcessBegins
  BY <1>3 DEF B!ProcessBegins, Adopts, Stands, B!ghosts
<1>4. CASE B!ProcessDecides
  BY <1>4 DEF B!ProcessDecides, B!Drives, Adopts, Stands, B!Counts, B!ghosts
<1>5. CASE B!Places \/ B!Returns \/ B!ProcessFails \/ B!ProcessExits \/ B!Collects \/ B!TimePasses \/ B!Decides
  BY <1>5 DEF B!Places, B!Returns, B!ProcessFails, B!ProcessExits, B!Collects, B!TimePasses, B!Decides, Stands, B!Counts, B!ghosts
<1>6. QED
  BY <1>1, <1>2, <1>3, <1>4, <1>5 DEF B!Next

(* What the host keeps when it decides, and nothing before the next attempt. *)
LEMMA KeepsStep ==
  ASSUME B!BrainAssumption, BrainInv, B!Next
  PROVE  ClearedAtFirst' /\ SubmissionIsTheAttempts' /\ AcceptedCounts'
<1> USE DEF BrainInv, ClearedAtFirst, SubmissionIsTheAttempts, B!SubmissionIsTheAttempts, B!OwnSubmission, B!NoStraySubmission, AcceptedCounts, B!AcceptedCounts
<1>1. CASE B!Begins
  BY <1>1 DEF B!Begins
<1>2. CASE B!Places
  BY <1>2 DEF B!Places, Stands, B!ghosts
<1>3. CASE B!Edits \/ B!Submits \/ B!Scripts \/ B!ProcessBegins \/ B!ProcessDecides \/ B!Returns \/ B!ProcessFails \/ B!ProcessExits \/ B!Collects
  <2>1. doing' \in {"brain", "decide"}
    <3>1. CASE B!Edits \/ B!Submits \/ B!Scripts
      BY <3>1, ToolsLeave DEF B!Drives
    <3>2. CASE B!ProcessBegins \/ B!ProcessDecides \/ B!Returns \/ B!ProcessFails \/ B!ProcessExits \/ B!Collects
      BY <3>2 DEF B!ProcessBegins, B!ProcessDecides, B!Drives, B!Returns, B!ProcessFails, B!ProcessExits, B!Collects
    <3>3. QED
      BY <1>3, <3>1, <3>2
  <2>2. QED
    BY <2>1
<1>4. CASE B!TimePasses
  BY <1>4 DEF B!TimePasses, B!ghosts
<1>5. CASE B!Decides
  <2>1. doing = "decide" /\ doing' = "decided" /\ UNCHANGED <<attempt, boxTree, standing>>
    BY <1>5 DEF B!Decides
  <2>2. CASE B!Counts(attempt) /\ kept' = [of |-> attempt, by |-> file.by, claim |-> file.claim] /\ result' = "submitted"
    <3>1. file.by = attempt /\ file.claim = boxTree
      BY <2>1, <2>2, CountsIsOwn
    <3>2. QED
      BY <2>1, <2>2, <3>1
  <2>3. CASE (fault' \/ ~B!Counts(attempt)) /\ \E why \in {"io", B!Failure} : B!NotAccepted(why)
    <3>1. result' # "submitted" /\ (kept' = B!NoSubmission \/ warned')
      BY <2>1, <2>3 DEF B!NotAccepted, B!ClearHostSubmission, B!Failure, BrainTypes
    <3>2. QED
      BY <2>1, <2>3, <3>1 DEF Stands
  <2>4. QED
    BY <1>5, <2>2, <2>3 DEF B!Decides, B!Readable
<1>6. QED
  BY <1>1, <1>2, <1>3, <1>4, <1>5 DEF B!Next

LEMMA BrainNext == ASSUME B!BrainAssumption PROVE BrainInv /\ [B!Next]_(B!vars) => BrainInv'
<1> SUFFICES ASSUME BrainInv, [B!Next]_(B!vars) PROVE BrainInv'
  OBVIOUS
<1>1. CASE B!Next
  BY <1>1, TypesStep, DatedStep, AdoptsStep, StandsStep, KeepsStep DEF BrainInv
<1>2. CASE UNCHANGED B!vars
  BY <1>2 DEF B!vars, B!config, B!brain, B!ghosts, BrainInv, BrainTypes, Dated, Adopts, Stands, B!Counts, ClearedAtFirst, SubmissionIsTheAttempts, B!SubmissionIsTheAttempts,
              B!OwnSubmission, B!NoStraySubmission, AcceptedCounts, B!AcceptedCounts
<1>3. QED
  BY <1>1, <1>2

(* internal/brain, decide.go: the submission that the host keeps is the one that the attempt made, or none, however many *)
(* attempts a box is held for and whatever programs write there.                                                         *)
THEOREM KeepsItsOwn == ASSUME B!BrainAssumption PROVE B!Spec => []SubmissionIsTheAttempts
<1>1. B!Init => BrainInv
  BY BrainInit
<1>2. BrainInv /\ [B!Next]_(B!vars) => BrainInv'
  BY BrainNext
<1>3. BrainInv => SubmissionIsTheAttempts
  BY DEF BrainInv
<1>4. QED
  BY <1>1, <1>2, <1>3, PTL DEF B!Spec

(* internal/brain, execute.go and decide.go: what was accepted, and nobody has touched since, is the submission of the *)
(* attempt, whenever the brain, its process, its time or the run ends.                                                 *)
THEOREM NoneIsLost == ASSUME B!BrainAssumption PROVE B!Spec => []AcceptedCounts
<1>1. B!Init => BrainInv
  BY BrainInit
<1>2. BrainInv /\ [B!Next]_(B!vars) => BrainInv'
  BY BrainNext
<1>3. BrainInv => AcceptedCounts
  BY DEF BrainInv
<1>4. QED
  BY <1>1, <1>2, <1>3, PTL DEF B!Spec
-----------------------------------------------------------------------------
Reports == [words : SUBSET Nat, inner : SUBSET Runs]
States ==
  [at : {"idle", "preflight", "brief", "brain", "check", "land", "write", "labels", "done"},
   land : {"issue", "none"}, issue : BOOLEAN, dry : BOOLEAN, brief : Reports, box : T!Trees,
   submission : {"none", "diagnosis", "question"}, original : Reports,
   action : {"none", "question", "planned", "created", "replaced", "commented"},
   failure : {"none", "usage", "auth", "forge", "io", "sandbox", "cancelled", "no_result", "brain", "budget", "timeout"}]
Bodies ==
  [shape : {"plain", "ours", "broken"}, run : Runs \cup {"none"}, words : SUBSET Nat, after : SUBSET Nat, inner : SUBSET Runs]

TriageTypes == itsTree \in T!Trees /\ body \in Bodies /\ edits \in Nat /\ runs \in [Runs -> States] /\ raced \subseteq Nat

(* What is after the report is there because the body is not ours any more, and then people changed it. *)
AfterIsBroken ==
  /\ body.shape = "ours" => body.after = {}
  /\ body.shape # "ours" => body.run = "none" \/ body.run \in broken

(* What a landing on an issue has read is what it may write. *)
ReadIsKept ==
  \A r \in Runs : T!Landing(r) /\ runs[r].issue =>
    /\ 1 .. edits \subseteq runs[r].original.words \cup raced
    /\ runs[r].original.inner \subseteq broken

(* The issue, or a landing that has read it, says something of the run. *)
Told(r) ==
  \/ r \in comments \cup labelled \cup created \cup {body.run} \cup body.inner
  \/ \E q \in Runs : T!Landing(q) /\ runs[q].issue /\ r \in runs[q].original.inner

(* A run lands only after the box has ended and what it lands held, and is over but for its labels when it has. *)
Landed(r) == r \in held /\ runs[r].submission = "diagnosis" /\ runs[r].land = "issue"
Landings ==
  \A r \in Runs :
    /\ runs[r].at = "land" => r \in held
    /\ T!Landing(r) => Landed(r)
    /\ runs[r].at = "labels" /\ ~runs[r].dry => Landed(r)
    /\ Told(r) => Landed(r) /\ ~runs[r].dry /\ runs[r].at \in {"labels", "done"}

TriageInv == TriageTypes /\ AfterIsBroken /\ ReadIsKept /\ Landings /\ ReportIsKept

LEMMA TriageInit == ASSUME T!TriageAssumption PROVE T!Init => TriageInv
<1> SUFFICES ASSUME T!Init PROVE TriageInv
  OBVIOUS
<1>1. TriageTypes
  BY DEF T!Init, TriageTypes, Bodies, States, Reports, T!Fresh, T!NoReport, T!Report, T!Trees
<1>2. \A r \in Runs : runs[r].at = "idle"
  BY DEF T!Init, T!Fresh
<1>3. AfterIsBroken /\ ReadIsKept
  BY <1>2 DEF T!Init, AfterIsBroken, ReadIsKept, T!Landing, T!Is
<1>4. Landings
  BY <1>2 DEF T!Init, T!TriageAssumption, Landings, Told, T!Landing, T!Is
<1>5. 1 .. edits = {}
  BY DEF T!Init
<1>6. ReportIsKept
  BY <1>5 DEF T!Init, ReportIsKept, T!ReportIsKept, T!WordsAreKept, T!NotNested
<1>7. QED
  BY <1>1, <1>3, <1>4, <1>6 DEF TriageInv

(* A step of a run is its own. *)
LEMMA RunAlone ==
  ASSUME NEW r \in Runs, runs \in [Runs -> States], NEW changes, T!Run(r, changes), T!With(runs[r], changes) \in States
  PROVE  /\ runs' \in [Runs -> States]
         /\ runs'[r] = T!With(runs[r], changes)
         /\ \A q \in Runs \ {r} : runs'[q] = runs[q]
  BY DEF T!Run

(* What a run knows after a change. *)
LEMMA Refuses ==
  ASSUME NEW s \in States, NEW why \in {"usage", "auth", "forge", "io", "sandbox", "cancelled", "no_result", "brain", "budget", "timeout"}
  PROVE  LET new == T!With(s, T!Refused(why)) IN
         new \in States /\ new.at = "done" /\ new.dry = s.dry /\ new.submission = s.submission /\ new.land = s.land
  BY DEF T!With, T!Refused, States

(* A step of a run that the issue does not see. *)
Quiet(r) ==
  /\ runs' \in [Runs -> States] /\ \A q \in Runs \ {r} : runs'[q] = runs[q]
  /\ runs[r].at \in {"idle", "preflight", "brief", "brain", "check", "land"}
  /\ runs'[r].at \in {"preflight", "brief", "brain", "check", "land", "done"}
  /\ runs'[r].at = "land" => r \in held'
  /\ held \subseteq held' /\ itsTree' \in T!Trees /\ UNCHANGED <<T!forge, edits, raced, broken>>

LEMMA QuietKeeps == ASSUME TriageInv, NEW r \in Runs, Quiet(r) PROVE TriageInv'
<1>1. UNCHANGED <<body, comments, labelled, created, edits, raced, broken>>
  BY DEF Quiet, T!forge
<1>2. TriageTypes' /\ AfterIsBroken' /\ ReportIsKept'
  BY <1>1 DEF TriageInv, Quiet, TriageTypes, AfterIsBroken, ReportIsKept, T!ReportIsKept, T!WordsAreKept, T!NotNested
<1>3. \A q \in Runs : T!Landing(q)' => q # r /\ T!Landing(q) /\ runs'[q] = runs[q]
  BY DEF Quiet, T!Landing, T!Is
<1>4. ReadIsKept'
  BY <1>1, <1>3 DEF TriageInv, ReadIsKept
<1>5. \A q \in Runs : Told(q)' => Told(q)
  BY <1>1, <1>3 DEF Told
<1>6. ~Told(r)
  BY DEF Quiet, TriageInv, Landings
<1>7. Landings'
  <2> SUFFICES ASSUME NEW q \in Runs
               PROVE  /\ runs'[q].at = "land" => q \in held'
                      /\ T!Landing(q)' => Landed(q)'
                      /\ runs'[q].at = "labels" /\ ~runs'[q].dry => Landed(q)'
                      /\ Told(q)' => Landed(q)' /\ ~runs'[q].dry /\ runs'[q].at \in {"labels", "done"}
    BY DEF Landings
  <2>1. CASE q = r
    BY <2>1, <1>3, <1>5, <1>6 DEF Quiet
  <2>2. CASE q # r
    <3>1. runs'[q] = runs[q] /\ held \subseteq held'
      BY <2>2 DEF Quiet
    <3>2. Landed(q) => Landed(q)'
      BY <3>1 DEF Landed
    <3>3. T!Landing(q)' => T!Landing(q)
      BY <1>3
    <3>4. /\ runs[q].at = "land" => q \in held
          /\ T!Landing(q) => Landed(q)
          /\ runs[q].at = "labels" /\ ~runs[q].dry => Landed(q)
          /\ Told(q) => Landed(q) /\ ~runs[q].dry /\ runs[q].at \in {"labels", "done"}
      BY DEF TriageInv, Landings
    <3>5. QED
      BY <3>1, <3>2, <3>3, <3>4, <1>5
  <2>3. QED
    BY <2>1, <2>2
<1>8. QED
  BY <1>2, <1>4, <1>7 DEF TriageInv

LEMMA EarlyIsQuiet ==
  ASSUME TriageInv, NEW r \in Runs, T!Starts(r) \/ T!Preflights(r) \/ T!Briefs(r) \/ T!BrainEnds(r) \/ T!Checks(r)
  PROVE  Quiet(r)
<1>1. runs \in [Runs -> States] /\ runs[r] \in States
  BY DEF TriageInv, TriageTypes
<1>2. itsTree' \in T!Trees /\ UNCHANGED <<T!forge, edits, raced, broken>>
  BY DEF TriageInv, TriageTypes, T!Starts, T!Preflights, T!Briefs, T!BrainEnds, T!Checks
<1>3. ASSUME NEW changes, T!Run(r, changes), T!With(runs[r], changes) \in States,
             T!With(runs[r], changes).at \in {"preflight", "brief", "brain", "check", "done"},
             runs[r].at \in {"idle", "preflight", "brief", "brain", "check"}, held \subseteq held'
      PROVE  Quiet(r)
  BY <1>1, <1>2, <1>3, RunAlone DEF Quiet
<1>4. ASSUME NEW why \in {"usage", "auth", "forge", "io", "sandbox", "cancelled", "no_result", "brain", "budget", "timeout"},
             T!Run(r, T!Refused(why)), runs[r].at \in {"idle", "preflight", "brief", "brain", "check"}, held \subseteq held'
      PROVE  Quiet(r)
  BY <1>1, <1>3, <1>4, Refuses
<1>5. CASE T!Starts(r)
  <2>1. runs[r].at = "idle" /\ held' = held
    BY <1>5 DEF T!Starts, T!Is
  <2>2. ASSUME NEW land \in {"issue", "none"}, NEW dry \in BOOLEAN, NEW issue \in BOOLEAN,
               T!Run(r, [at |-> "preflight", land |-> land, dry |-> dry, issue |-> issue, brief |-> T!ReportOf(issue)])
        PROVE  Quiet(r)
    <3>1. body \in Bodies
      BY DEF TriageInv, TriageTypes
    <3>2. T!ReportOf(issue) \in Reports
      BY <3>1 DEF T!ReportOf, T!Extract, T!Report, T!NoReport, Bodies, Reports
    <3>3. PICK brief \in Reports : brief = T!ReportOf(issue)
      BY <3>2
    <3>4. /\ T!With(runs[r], [at |-> "preflight", land |-> land, dry |-> dry, issue |-> issue, brief |-> brief]) \in States
          /\ T!With(runs[r], [at |-> "preflight", land |-> land, dry |-> dry, issue |-> issue, brief |-> brief]).at = "preflight"
      BY <1>1 DEF T!With, States
    <3>5. QED
      BY <2>1, <2>2, <3>3, <3>4, <1>3
  <2>3. QED
    BY <1>5, <2>1, <2>2, <1>4 DEF T!Starts
<1>6. CASE T!Preflights(r)
  <2>1. runs[r].at = "preflight" /\ held' = held
    BY <1>6 DEF T!Preflights, T!Is
  <2>2. T!With(runs[r], [at |-> "brief"]) \in States /\ T!With(runs[r], [at |-> "brief"]).at = "brief"
    BY <1>1 DEF T!With, States
  <2>3. QED
    BY <1>6, <2>1, <2>2, <1>3, <1>4 DEF T!Preflights
<1>7. CASE T!Briefs(r)
  <2>1. runs[r].at = "brief" /\ held' = held
    BY <1>7 DEF T!Briefs, T!Is
  <2>2. itsTree \in T!Trees
    BY DEF TriageInv, TriageTypes
  <2>3. T!With(runs[r], [at |-> "brain", box |-> itsTree]) \in States /\ T!With(runs[r], [at |-> "brain", box |-> itsTree]).at = "brain"
    BY <1>1, <2>2 DEF T!With, States
  <2>4. QED
    BY <1>7, <2>1, <2>3, <1>3, <1>4 DEF T!Briefs
<1>8. CASE T!BrainEnds(r)
  <2>1. runs[r].at = "brain" /\ held' = held
    BY <1>8 DEF T!BrainEnds, T!Is
  <2>2. \A submission \in {"diagnosis", "question"} :
          /\ T!With(runs[r], [at |-> "check", submission |-> submission]) \in States
          /\ T!With(runs[r], [at |-> "check", submission |-> submission]).at = "check"
    BY <1>1 DEF T!With, States
  <2>3. QED
    BY <1>8, <2>1, <2>2, <1>3, <1>4 DEF T!BrainEnds
<1>9. CASE T!Checks(r)
  <2>1. runs[r].at = "check" /\ held \subseteq held'
    BY <1>9 DEF T!Checks, T!Is
  <2>2. CASE T!Holds(r)
    <3>1. T!Run(r, [at |-> "land"]) /\ r \in held'
      BY <1>9, <2>2 DEF T!Checks, T!Holds, T!Resolves
    <3>2. T!With(runs[r], [at |-> "land"]) \in States /\ T!With(runs[r], [at |-> "land"]).at = "land"
      BY <1>1 DEF T!With, States
    <3>3. QED
      BY <1>1, <1>2, <2>1, <3>1, <3>2, RunAlone DEF Quiet
  <2>3. CASE ~T!Holds(r)
    BY <1>9, <2>1, <2>3, <1>4 DEF T!Checks
  <2>4. QED
    BY <2>2, <2>3
<1>10. QED
  BY <1>5, <1>6, <1>7, <1>8, <1>9

(* The report of the issue has every word that the body has, and no diagnosis but one whose body people changed. *)
LEMMA ReportIsWhole ==
  ASSUME TriageInv, NEW report, report = T!Extract(body)
  PROVE  /\ report \in Reports
         /\ 1 .. edits \subseteq report.words \cup raced /\ report.inner \subseteq broken
         /\ \A q \in Runs : q \in report.inner => Told(q)
<1>1. /\ body \in Bodies /\ AfterIsBroken
      /\ 1 .. edits \subseteq body.words \cup body.after \cup raced /\ body.inner \subseteq broken
  BY DEF TriageInv, TriageTypes, ReportIsKept, T!ReportIsKept, T!WordsAreKept, T!NotNested
<1>2. CASE body.shape = "ours"
  BY <1>1, <1>2 DEF T!Extract, T!Report, Bodies, Reports, AfterIsBroken, Told
<1>3. CASE body.shape # "ours"
  <2>1. report.words = body.words \cup body.after /\ report.inner = body.inner \cup ({body.run} \ {"none"}) /\ report \in Reports
    BY <1>1, <1>3 DEF T!Extract, T!Report, Bodies, Reports
  <2>2. QED
    BY <1>1, <1>3, <2>1 DEF AfterIsBroken, Told
<1>4. QED
  BY <1>2, <1>3

(* A run that goes on to write has read what it may write. *)
LEMMA LandsKeeps == ASSUME TriageInv, NEW r \in Runs, T!Lands(r) PROVE TriageInv'
<1>1. runs \in [Runs -> States] /\ runs[r] \in States /\ r \in held /\ runs[r].at = "land"
  BY DEF TriageInv, TriageTypes, Landings, T!Lands, T!Is
<1>2. UNCHANGED <<T!forge, edits, itsTree, raced, broken, held>> /\ itsTree' \in T!Trees
  BY DEF T!Lands, TriageInv, TriageTypes
<1>3. ASSUME NEW changes, T!Run(r, changes), T!With(runs[r], changes) \in States, T!With(runs[r], changes).at = "done"
      PROVE  TriageInv'
  BY <1>1, <1>2, <1>3, RunAlone, QuietKeeps DEF Quiet
<1>4. ASSUME NEW why \in {"auth", "forge", "io", "no_result"}, T!Run(r, T!Refused(why)) PROVE TriageInv'
  BY <1>1, <1>3, <1>4, Refuses
<1>5. ASSUME NEW action \in {"question", "none"}, T!Run(r, [at |-> "done", action |-> action]) PROVE TriageInv'
  <2>1. T!With(runs[r], [at |-> "done", action |-> action]) \in States /\ T!With(runs[r], [at |-> "done", action |-> action]).at = "done"
    BY <1>1 DEF T!With, States
  <2>2. QED
    BY <1>3, <1>5, <2>1
<1>6. ASSUME NEW report, runs[r].issue => report = T!Extract(body), ~runs[r].issue => report = runs[r].brief,
             runs[r].submission = "diagnosis", runs[r].land = "issue", T!Run(r, [at |-> "write", original |-> report])
      PROVE  TriageInv'
  <2>1. report \in Reports
    BY <1>1, <1>6, ReportIsWhole DEF States
  <2>2. T!With(runs[r], [at |-> "write", original |-> report]) \in States
    BY <1>1, <2>1 DEF T!With, States
  <2>3. /\ runs' \in [Runs -> States] /\ \A q \in Runs \ {r} : runs'[q] = runs[q]
        /\ runs'[r] = T!With(runs[r], [at |-> "write", original |-> report])
    BY <1>1, <1>6, <2>2, RunAlone
  <2>4. /\ runs'[r].at = "write" /\ runs'[r].original = report /\ runs'[r].issue = runs[r].issue
        /\ runs'[r].submission = "diagnosis" /\ runs'[r].land = "issue"
    BY <1>1, <1>6, <2>3 DEF T!With, States
  <2>5. UNCHANGED <<body, comments, labelled, created, edits, raced, broken, held>>
    BY <1>2 DEF T!forge
  <2>6. TriageTypes' /\ AfterIsBroken' /\ ReportIsKept'
    BY <1>2, <2>3, <2>5 DEF TriageInv, TriageTypes, AfterIsBroken, ReportIsKept, T!ReportIsKept, T!WordsAreKept, T!NotNested
  <2>7. ReadIsKept'
    <3> SUFFICES ASSUME NEW q \in Runs, T!Landing(q)', runs'[q].issue
                 PROVE  1 .. edits \subseteq runs'[q].original.words \cup raced /\ runs'[q].original.inner \subseteq broken
      BY <2>5 DEF ReadIsKept
    <3>1. CASE q = r
      BY <3>1, <2>4, <1>6, ReportIsWhole
    <3>2. CASE q # r
      BY <3>2, <2>3 DEF TriageInv, ReadIsKept, T!Landing, T!Is
    <3>3. QED
      BY <3>1, <3>2
  <2>8. \A q \in Runs : Told(q)' => Told(q)
    <3> SUFFICES ASSUME NEW q \in Runs, NEW by \in Runs, T!Landing(by)', runs'[by].issue, q \in runs'[by].original.inner PROVE Told(q)
      BY <2>5 DEF Told
    <3>1. CASE by = r
      BY <3>1, <2>4, <1>6, ReportIsWhole
    <3>2. CASE by # r
      BY <3>2, <2>3 DEF Told, T!Landing, T!Is
    <3>3. QED
      BY <3>1, <3>2
  <2>9. ~Told(r)
    BY <1>1 DEF TriageInv, Landings
  <2>10. Landings'
    <3> SUFFICES ASSUME NEW q \in Runs
                 PROVE  /\ runs'[q].at = "land" => q \in held'
                        /\ T!Landing(q)' => Landed(q)'
                        /\ runs'[q].at = "labels" /\ ~runs'[q].dry => Landed(q)'
                        /\ Told(q)' => Landed(q)' /\ ~runs'[q].dry /\ runs'[q].at \in {"labels", "done"}
      BY DEF Landings
    <3>1. CASE q = r
      BY <3>1, <1>1, <2>4, <2>5, <2>8, <2>9 DEF Landed
    <3>2. CASE q # r
      BY <3>2, <2>3, <2>5, <2>8 DEF TriageInv, Landings, Landed, T!Landing, T!Is
    <3>3. QED
      BY <3>1, <3>2
  <2>11. QED
    BY <2>6, <2>7, <2>10 DEF TriageInv
<1>7. QED
  <2>1. CASE runs[r].land = "issue" /\ runs[r].issue
    BY <2>1, <1>4, <1>5, <1>6 DEF T!Lands
  <2>2. CASE ~(runs[r].land = "issue" /\ runs[r].issue)
    BY <2>2, <1>4, <1>5, <1>6 DEF T!Lands
  <2>3. QED
    BY <2>1, <2>2

(* People change what is in the body; the words of a landing's read come late for what they write now. *)
LEMMA PersonKeeps == ASSUME TriageInv, T!PersonWrites PROVE TriageInv'
<1>1. /\ body \in Bodies /\ edits \in Nat /\ edits' = edits + 1 /\ raced \subseteq Nat
      /\ UNCHANGED <<comments, labelled, created, itsTree, runs, held>>
  BY DEF TriageInv, TriageTypes, T!PersonWrites
<1>2. /\ raced' \in {raced, raced \cup {edits'}} /\ \A r \in Runs : T!Landing(r) => edits' \in raced'
  BY DEF T!PersonWrites
<1>3. PICK words, after, shape :
        /\ words \in {body.words, body.words \cup {edits'}} /\ after \in {body.after, body.after \cup {edits'}}
        /\ edits' \in words \cup after /\ shape \in {body.shape, "broken", "plain"}
        /\ shape = "ours" => body.shape = "ours" /\ after = body.after
        /\ body.shape = "ours" /\ shape # "ours" => broken' = broken \cup {body.run}
        /\ body' = [body EXCEPT !.words = words, !.after = after, !.shape = shape]
        /\ broken' \in {broken, broken \cup {body.run}}
  <2>1. CASE body' = [body EXCEPT !.words = @ \cup {edits'}] /\ UNCHANGED broken
    <3>1. body' = [body EXCEPT !.words = body.words \cup {edits'}, !.after = body.after, !.shape = body.shape]
      BY <1>1, <2>1 DEF Bodies
    <3>2. QED
      BY <2>1, <3>1
  <2>2. CASE /\ body.shape = "ours" /\ body' = [body EXCEPT !.after = @ \cup {edits'}, !.shape = "broken"]
             /\ broken' = broken \cup {body.run}
    <3>1. body' = [body EXCEPT !.words = body.words, !.after = body.after \cup {edits'}, !.shape = "broken"]
      BY <1>1, <2>2 DEF Bodies
    <3> WITNESS body.words, body.after \cup {edits'}, "broken"
    <3>2. QED
      BY <2>2, <3>1
  <2>3. CASE /\ body.shape # "plain" /\ body' = [body EXCEPT !.words = @ \cup {edits'}, !.shape = "plain"]
             /\ broken' = broken \cup {body.run}
    <3>1. body' = [body EXCEPT !.words = body.words \cup {edits'}, !.after = body.after, !.shape = "plain"]
      BY <1>1, <2>3 DEF Bodies
    <3>2. QED
      BY <2>3, <3>1
  <2>4. QED
    BY <2>1, <2>2, <2>3 DEF T!PersonWrites
<1>4. body'.words = words /\ body'.after = after /\ body'.shape = shape /\ body'.run = body.run /\ body'.inner = body.inner
  BY <1>1, <1>3 DEF Bodies
<1>5. edits' \in Nat /\ 1 .. edits' = 1 .. edits \cup {edits'}
  BY <1>1
<1>6. TriageTypes'
  <2>1. body' \in Bodies
    BY <1>1, <1>3, <1>5 DEF Bodies
  <2>2. QED
    BY <2>1, <1>1, <1>2, <1>5 DEF TriageInv, TriageTypes
<1>7. AfterIsBroken'
  BY <1>3, <1>4 DEF TriageInv, AfterIsBroken
<1>8. ReadIsKept'
  BY <1>1, <1>2, <1>3, <1>5 DEF TriageInv, ReadIsKept, T!Landing, T!Is
<1>9. Landings'
  BY <1>1, <1>4 DEF TriageInv, Landings, Told, Landed, T!Landing, T!Is
<1>10. ReportIsKept'
  BY <1>2, <1>3, <1>4, <1>5 DEF TriageInv, ReportIsKept, T!ReportIsKept, T!WordsAreKept, T!NotNested
<1>11. QED
  BY <1>6, <1>7, <1>8, <1>9, <1>10 DEF TriageInv

(* What a run that writes leaves of the issue: nothing of what it knew when it read the issue is lost. *)
Wrote(r) ==
  /\ runs[r].at = "write" /\ runs' \in [Runs -> States] /\ \A q \in Runs \ {r} : runs'[q] = runs[q]
  /\ runs'[r].at \in {"labels", "done"} /\ runs'[r].dry = runs[r].dry
  /\ runs'[r].land = runs[r].land /\ runs'[r].submission = runs[r].submission
  /\ UNCHANGED <<labelled, edits, itsTree, raced, broken, held>>
  /\ runs[r].dry => UNCHANGED <<body, comments, created>>
  /\ comments' \subseteq comments \cup {r} /\ created' \subseteq created \cup {r}
  /\ body' # body => runs[r].issue /\ body' = T!Render(r, runs[r].original)

LEMMA WroteKeeps == ASSUME TriageInv, NEW r \in Runs, Wrote(r) PROVE TriageInv'
<1>1. runs \in [Runs -> States] /\ runs[r] \in States /\ T!Landing(r) /\ Landed(r) /\ ~Told(r)
  BY DEF TriageInv, TriageTypes, Wrote, Landings, T!Landing, T!Is
<1>2. \A q \in Runs : T!Landing(q)' => q # r /\ T!Landing(q) /\ runs'[q] = runs[q]
  BY DEF Wrote, T!Landing, T!Is
<1>3. UNCHANGED <<labelled, edits, itsTree, raced, broken, held>>
  BY DEF Wrote
<1>4. /\ body' \in Bodies /\ AfterIsBroken' /\ ReportIsKept'
      /\ \A q \in Runs : q = body'.run \/ q \in body'.inner => Told(q) \/ (q = r /\ ~runs[r].dry)
  <2>1. CASE body' = body
    BY <1>3, <2>1 DEF TriageInv, TriageTypes, AfterIsBroken, ReportIsKept, T!ReportIsKept, T!WordsAreKept, T!NotNested, Told
  <2>2. CASE body' # body
    <3>1. runs[r].issue /\ ~runs[r].dry /\ body' = T!Render(r, runs[r].original) /\ runs[r].original \in Reports
      BY <1>1, <2>2 DEF Wrote, States
    <3>2. /\ body' \in Bodies /\ body'.shape = "ours" /\ body'.run = r /\ body'.after = {}
          /\ body'.words = runs[r].original.words /\ body'.inner = runs[r].original.inner
      BY <3>1 DEF T!Render, Bodies, Reports
    <3>3. 1 .. edits \subseteq runs[r].original.words \cup raced /\ runs[r].original.inner \subseteq broken
      BY <1>1, <3>1 DEF TriageInv, ReadIsKept
    <3>4. \A q \in Runs : q \in runs[r].original.inner => Told(q)
      BY <1>1, <3>1 DEF Told
    <3>5. AfterIsBroken' /\ ReportIsKept'
      BY <1>3, <3>2, <3>3 DEF AfterIsBroken, ReportIsKept, T!ReportIsKept, T!WordsAreKept, T!NotNested
    <3>6. QED
      BY <3>1, <3>2, <3>4, <3>5
  <2>3. QED
    BY <2>1, <2>2
<1>5. TriageTypes'
  BY <1>3, <1>4 DEF Wrote, TriageInv, TriageTypes
<1>6. ReadIsKept'
  BY <1>2, <1>3 DEF TriageInv, ReadIsKept
<1>7. ASSUME NEW q \in Runs, Told(q)' PROVE Told(q) \/ (q = r /\ ~runs[r].dry)
  <2>1. CASE \E by \in Runs : T!Landing(by)' /\ runs'[by].issue /\ q \in runs'[by].original.inner
    BY <1>2, <2>1 DEF Told
  <2>2. CASE q \in comments' \cup labelled' \cup created'
    BY <1>3, <2>2 DEF Told, Wrote
  <2>3. CASE q = body'.run \/ q \in body'.inner
    BY <1>4, <2>3
  <2>4. QED
    BY <1>7, <2>1, <2>2, <2>3 DEF Told
<1>8. Landed(r)'
  BY <1>1, <1>3 DEF Wrote, Landed
<1>9. Landings'
  <2> SUFFICES ASSUME NEW q \in Runs
               PROVE  /\ runs'[q].at = "land" => q \in held'
                      /\ T!Landing(q)' => Landed(q)'
                      /\ runs'[q].at = "labels" /\ ~runs'[q].dry => Landed(q)'
                      /\ Told(q)' => Landed(q)' /\ ~runs'[q].dry /\ runs'[q].at \in {"labels", "done"}
    BY DEF Landings
  <2>1. CASE q = r
    BY <2>1, <1>1, <1>2, <1>7, <1>8 DEF Wrote
  <2>2. CASE q # r
    <3>1. runs'[q] = runs[q]
      BY <2>2 DEF Wrote
    <3>2. Landed(q) => Landed(q)'
      BY <3>1, <1>3 DEF Landed
    <3>3. /\ runs[q].at = "land" => q \in held
          /\ T!Landing(q) => Landed(q)
          /\ runs[q].at = "labels" /\ ~runs[q].dry => Landed(q)
          /\ Told(q) => Landed(q) /\ ~runs[q].dry /\ runs[q].at \in {"labels", "done"}
      BY DEF TriageInv, Landings
    <3>4. QED
      BY <2>2, <3>1, <3>2, <3>3, <1>2, <1>3, <1>7
  <2>3. QED
    BY <2>1, <2>2
<1>10. QED
  BY <1>4, <1>5, <1>6, <1>9 DEF TriageInv

LEMMA WritesKeep == ASSUME TriageInv, NEW r \in Runs, T!Writes(r) PROVE TriageInv'
<1>1. /\ runs \in [Runs -> States] /\ runs[r] \in States /\ runs[r].at = "write"
      /\ UNCHANGED <<edits, itsTree, raced, broken, held>>
  BY DEF TriageInv, TriageTypes, T!Writes, T!Landing, T!Is
<1>2. /\ labelled' = labelled
      /\ runs[r].dry => UNCHANGED <<body, comments, created>>
      /\ comments' \subseteq comments \cup {r} /\ created' \subseteq created \cup {r}
      /\ body' # body => runs[r].issue /\ body' = T!Render(r, runs[r].original)
  BY DEF T!Writes, T!forge
<1>3. ASSUME NEW changes, T!Run(r, changes), T!With(runs[r], changes) \in States,
             T!With(runs[r], changes).at \in {"labels", "done"}, T!With(runs[r], changes).dry = runs[r].dry,
             T!With(runs[r], changes).land = runs[r].land, T!With(runs[r], changes).submission = runs[r].submission
      PROVE  TriageInv'
  BY <1>1, <1>2, <1>3, RunAlone, WroteKeeps DEF Wrote
<1>4. ASSUME NEW why \in {"auth", "forge", "usage"}, T!Run(r, T!Refused(why)) PROVE TriageInv'
  BY <1>1, <1>3, <1>4, Refuses
<1>5. ASSUME NEW at \in {"labels", "done"}, NEW action \in {"planned", "created", "replaced", "commented"},
             T!Run(r, [at |-> at, action |-> action])
      PROVE  TriageInv'
  <2> DEFINE new == T!With(runs[r], [at |-> at, action |-> action])
  <2>1. new \in States /\ new.at = at /\ new.dry = runs[r].dry /\ new.land = runs[r].land /\ new.submission = runs[r].submission
    BY <1>1 DEF T!With, States
  <2>2. QED
    BY <1>3, <1>5, <2>1
<1>6. runs[r].issue \in BOOLEAN /\ (IF runs[r].issue THEN "labels" ELSE "done") \in {"labels", "done"}
  BY <1>1 DEF States
<1>7. QED
  BY <1>4, <1>5, <1>6 DEF T!Writes

LEMMA LabelsKeep == ASSUME TriageInv, NEW r \in Runs, T!AddsLabels(r) PROVE TriageInv'
<1>1. /\ runs \in [Runs -> States] /\ runs[r] \in States /\ runs[r].at = "labels" /\ T!Run(r, [at |-> "done"])
      /\ UNCHANGED <<body, comments, created, edits, itsTree, raced, broken, held>>
      /\ labelled' \subseteq labelled \cup {r} /\ (runs[r].dry => labelled' = labelled)
  BY DEF TriageInv, TriageTypes, T!AddsLabels, T!Is
<1>2. T!With(runs[r], [at |-> "done"]) \in States
  BY <1>1 DEF T!With, States
<1>3. runs' \in [Runs -> States] /\ runs'[r] = T!With(runs[r], [at |-> "done"]) /\ \A q \in Runs \ {r} : runs'[q] = runs[q]
  BY <1>1, <1>2, RunAlone
<1>4. /\ runs'[r].at = "done" /\ runs'[r].dry = runs[r].dry /\ runs'[r].land = runs[r].land
      /\ runs'[r].submission = runs[r].submission
  BY <1>1, <1>3 DEF T!With, States
<1>5. \A q \in Runs : T!Landing(q)' => q # r /\ T!Landing(q) /\ runs'[q] = runs[q]
  BY <1>3, <1>4 DEF T!Landing, T!Is
<1>6. TriageTypes' /\ AfterIsBroken' /\ ReportIsKept'
  BY <1>1, <1>3 DEF TriageInv, TriageTypes, AfterIsBroken, ReportIsKept, T!ReportIsKept, T!WordsAreKept, T!NotNested
<1>7. ReadIsKept'
  BY <1>1, <1>5 DEF TriageInv, ReadIsKept
<1>8. \A q \in Runs : Told(q)' => Told(q) \/ (q = r /\ ~runs[r].dry)
  BY <1>1, <1>5 DEF Told
<1>9. Landings'
  <2> SUFFICES ASSUME NEW q \in Runs
               PROVE  /\ runs'[q].at = "land" => q \in held'
                      /\ T!Landing(q)' => Landed(q)'
                      /\ runs'[q].at = "labels" /\ ~runs'[q].dry => Landed(q)'
                      /\ Told(q)' => Landed(q)' /\ ~runs'[q].dry /\ runs'[q].at \in {"labels", "done"}
    BY DEF Landings
  <2>1. Landed(q)' = Landed(q)
    BY <1>1, <1>3, <1>4 DEF Landed
  <2>2. /\ runs[q].at = "land" => q \in held
        /\ T!Landing(q) => Landed(q)
        /\ runs[q].at = "labels" /\ ~runs[q].dry => Landed(q)
        /\ Told(q) => Landed(q) /\ ~runs[q].dry /\ runs[q].at \in {"labels", "done"}
    BY DEF TriageInv, Landings
  <2>3. CASE q = r
    BY <2>1, <2>2, <2>3, <1>1, <1>4, <1>5, <1>8
  <2>4. CASE q # r
    BY <2>1, <2>2, <2>4, <1>1, <1>3, <1>5, <1>8
  <2>5. QED
    BY <2>3, <2>4
<1>10. QED
  BY <1>6, <1>7, <1>9 DEF TriageInv

LEMMA TriageNext == TriageInv /\ [T!Next]_(T!vars) => TriageInv'
<1> SUFFICES ASSUME TriageInv, [T!Next]_(T!vars) PROVE TriageInv'
  OBVIOUS
<1>1. CASE T!TreeChanges \/ UNCHANGED T!vars
  <2>1. UNCHANGED <<body, comments, labelled, created, edits, runs, raced, broken, held>> /\ itsTree' \in T!Trees
    BY <1>1 DEF T!TreeChanges, T!vars, T!forge, TriageInv, TriageTypes
  <2>2. QED
    BY <2>1 DEF TriageInv, TriageTypes, AfterIsBroken, ReadIsKept, Landings, Landed, Told, ReportIsKept, T!ReportIsKept,
                T!WordsAreKept, T!NotNested, T!Landing, T!Is
<1>2. ASSUME NEW r \in Runs, T!Starts(r) \/ T!Preflights(r) \/ T!Briefs(r) \/ T!BrainEnds(r) \/ T!Checks(r) PROVE TriageInv'
  BY <1>2, EarlyIsQuiet, QuietKeeps
<1>3. QED
  BY <1>1, <1>2, LandsKeeps, WritesKeep, LabelsKeep, PersonKeeps DEF T!Next

(* internal/triage, body.go and land.go: what people write in a body, in the report or after it, stays through every      *)
(* landing unless it comes between the read of a landing and its write, and the report never has an earlier diagnosis but *)
(* one whose body people changed, for any number of runs and edits.                                                       *)
THEOREM KeepsTheReport == ASSUME T!TriageAssumption PROVE T!Spec => []ReportIsKept
<1>1. T!Init => TriageInv
  BY TriageInit
<1>2. TriageInv /\ [T!Next]_(T!vars) => TriageInv'
  BY TriageNext
<1>3. TriageInv => ReportIsKept
  BY DEF TriageInv
<1>4. QED
  BY <1>1, <1>2, <1>3, PTL DEF T!Spec

(* internal/afcmd, triage.go, and land.go: what a run writes to the forge is a diagnosis that held when its box had ended, *)
(* of no dry run and of no run that lands nothing, for any number of runs, edits and changes of the checkout.              *)
THEOREM LandsTheTruth == ASSUME T!TriageAssumption PROVE T!Spec => []LandsWhatHolds
<1>1. T!Init => TriageInv
  BY TriageInit
<1>2. TriageInv /\ [T!Next]_(T!vars) => TriageInv'
  BY TriageNext
<1>3. TriageInv => LandsWhatHolds
  BY DEF TriageInv, Landings, Landed, Told, LandsWhatHolds, T!LandsWhatHolds
<1>4. QED
  BY <1>1, <1>2, <1>3, PTL DEF T!Spec

-----------------------------------------------------------------------------
(* Revert: the change on its way into the patch and back, and what the gate says of it. *)

Places == {"begin", "gate", "notes", "claim", "revert", "tests", "apply", "index", "verify", "remove", "done", "killed"}
Outcomes ==
  Verdicts \cup {"none", "failed", "leftover", "no_code_changes", "nothing_to_revert", "after_not_green", "restore",
                "table_changed_by_revert", "proven", "inconclusive", "not_proven"}
Shape ==
  /\ pc \in [Process -> Places]
  /\ outcome \in [Process -> Outcomes]
  /\ passes \in [Code -> BOOLEAN]

Types == TypeOK /\ Shape

Working(c) == pc[c] \in {"revert", "tests", "apply", "index", "verify", "remove"}
OneWorks == \A c \in Check : Working(c) => owner = c /\ patch # "none"

AsPut(c) == pc[c] \in {"revert", "verify", "remove"} \/ (pc[c] = "index" /\ outcome[c] # "restore")
InPlace == \A c \in Check : AsPut(c) => tree.code = "in"

IInv == Types /\ ChangeIsKept /\ OneWorks /\ InPlace

Never(said) == (\A t \in Tree : stored[t] # said) /\ \A c \in Process : verdict[c] # said
NoneProven == \A c \in Check : outcome[c] # "proven"
NoneTried == tree.code = "in" /\ \A c \in Check : pc[c] \in {"begin", "gate", "done", "killed"}
Sound ==
  ~spoiled =>
    /\ tree.code # "other"
    /\ ~passes["in"] => NoneTried /\ NoneProven /\ Never("pass")
    /\ passes["in"] /\ passes["out"] => NoneProven /\ Never("fail")

LEMMA InitIInv == Init => IInv
<1> SUFFICES ASSUME Init PROVE IInv
  OBVIOUS
<1>1. Types
  <2>1. tree \in Tree /\ "none" \in Verdicts /\ "in" \in Code
    BY DEF Init, Tree, Code, Verdicts
  <2>2. Now \in [tree : Tree, index : {"first", "rewritten"}]
    BY <2>1 DEF Init, Now
  <2>a. stored \in [Tree -> Verdicts] /\ hash \in [Process -> Tree] /\ verdict \in [Process -> Verdicts]
    BY <2>1 DEF Init
  <2>b. diff \in [Process -> Code] /\ pre \in [Process -> [tree : Tree, index : {"first", "rewritten"}]]
    BY <2>1, <2>2 DEF Init
  <2>c. index \in {"first", "rewritten"} /\ patch \in Code \cup {"none"} /\ owner \in Check /\ spoiled \in BOOLEAN
    BY DEF Init
  <2>3. TypeOK
    BY <2>1, <2>a, <2>b, <2>c DEF TypeOK
  <2>4. Shape
    BY DEF Init, Shape, Places, Outcomes
  <2>5. QED
    BY <2>3, <2>4 DEF Types
<1>2. ChangeIsKept
  BY DEF Init, ChangeIsKept
<1>3. \A c \in Check : pc[c] = "begin"
  BY DEF Init, Process
<1>4. OneWorks /\ InPlace
  BY <1>3 DEF OneWorks, Working, InPlace, AsPut
<1>5. QED
  BY <1>1, <1>2, <1>4 DEF IInv

(* What a step of the gate, or of a check that reads only, leaves as it is. *)
QuietCheck(c) ==
  /\ UNCHANGED claim
  /\ tree.code # "out" => tree'.code = tree.code
  /\ \A d \in Process \ {c} : pc'[d] = pc[d] /\ outcome'[d] = outcome[d]

(* Where a step that is quiet may lead a check. *)
LEMMA QuietCheckKeeps ==
  ASSUME IInv, NEW c \in Process, QuietCheck(c), Types',
         c \in Check => (Working(c)' => Working(c)) /\ (AsPut(c)' => tree.code = "in")
  PROVE  IInv'
<1> USE DEF QuietCheck, claim
<1>1. tree \in Tree /\ tree' \in Tree
  BY DEF IInv, Types, TypeOK
<1>2. ChangeIsKept'
  BY DEF IInv, ChangeIsKept
<1>3. OneWorks'
  BY DEF IInv, OneWorks, Working, Process
<1>4. InPlace'
  BY DEF IInv, InPlace, AsPut, Process
<1>5. QED
  BY <1>2, <1>3, <1>4 DEF IInv

(* The runs of the gate: they write results, and a test may write to the tree. *)
LEMMA GateTypes ==
  ASSUME Types, NEW c \in Process, RunsGate(c)
  PROVE  Types' /\ QuietCheck(c) /\ UNCHANGED <<pc, outcome>>
<1> USE DEF Types, Shape, TypeOK, QuietCheck, claim, checkout, Same, bounds, GateIs, Running
<1>1. CASE GateHashes(c)
  BY <1>1 DEF GateHashes, TreeHash
<1>2. CASE GateExecutes(c)
  <2>1. \/ UNCHANGED <<tree, index, spoiled>>
        \/ index' = "rewritten" /\ UNCHANGED <<tree, spoiled>>
        \/ tree' = [tree EXCEPT !.rest = TRUE] /\ UNCHANGED <<index, spoiled>>
        \/ tree.code = "out" /\ tree' = [tree EXCEPT !.code = "other"] /\ spoiled' = TRUE /\ UNCHANGED index
    BY <1>2 DEF GateExecutes, TestsWrite, Fault
  <2>2. tree' \in Tree /\ (tree.code # "out" => tree'.code = tree.code)
    BY <2>1 DEF Tree, Code
  <2>3. index' \in {"first", "rewritten"} /\ spoiled' \in BOOLEAN
    BY <2>1
  <2>4. verdict' \in [Process -> Verdicts]
    BY <1>2 DEF GateExecutes, Verdicts
  <2>5. UNCHANGED <<patch, owner, stored, pc, hash, diff, pre, outcome, passes>>
    BY <1>2 DEF GateExecutes
  <2>6. QED
    BY <2>2, <2>3, <2>4, <2>5
<1>3. CASE GateStores(c)
  BY <1>3 DEF GateStores
<1>4. QED
  BY <1>1, <1>2, <1>3 DEF RunsGate

(* A step of a process that reads, and goes on or ends. *)
LEMMA Reads ==
  ASSUME Types, NEW c \in Process, Same, UNCHANGED <<hash, verdict>>,
         diff' \in [Process -> Code], pre' \in [Process -> [tree : Tree, index : {"first", "rewritten"}]],
         NEW to \in Places, Goes(c, to), NEW how \in Outcomes, outcome' = [outcome EXCEPT ![c] = how] \/ UNCHANGED outcome
  PROVE  Types' /\ QuietCheck(c) /\ pc'[c] = to
<1>1. TypeOK'
  BY DEF Types, TypeOK, Same, checkout, claim
<1>2. Shape'
  BY DEF Types, Shape, Same, Goes
<1>3. pc'[c] = to /\ \A d \in Process \ {c} : pc'[d] = pc[d] /\ outcome'[d] = outcome[d]
  BY DEF Types, Shape, Goes
<1>4. QuietCheck(c)
  BY <1>3 DEF QuietCheck, Same, checkout, claim
<1>5. QED
  BY <1>1, <1>2, <1>3, <1>4 DEF Types

(* Where a step that reads only may lead a check. *)
MayGo(c, to) ==
  \/ to \in {"done", "gate", "notes", "claim"}
  \/ to \in {"apply", "remove"} /\ (c \in Check => Working(c)) /\ (to = "remove" => tree.code = "in")

LEMMA ReadsKeep ==
  ASSUME IInv, NEW c \in Process, Same, UNCHANGED <<hash, verdict>>,
         diff' \in [Process -> Code], pre' \in [Process -> [tree : Tree, index : {"first", "rewritten"}]],
         NEW to \in Places, Goes(c, to), MayGo(c, to), NEW how \in Outcomes, outcome' = [outcome EXCEPT ![c] = how] \/ UNCHANGED outcome
  PROVE  IInv'
<1>1. Types' /\ QuietCheck(c) /\ pc'[c] = to
  BY Reads DEF IInv
<1>2. c \in Check => (Working(c)' => Working(c)) /\ (AsPut(c)' => tree.code = "in")
  BY <1>1 DEF Working, AsPut, MayGo
<1>3. QED
  BY <1>1, <1>2, QuietCheckKeeps

(* What a check does to the tree from its claim to its end: no other moves the change or the patch then. *)
LEMMA RevertsIInv == ASSUME IInv, NEW c \in Check, Reverts(c) PROVE IInv'
<1> USE DEF Process
<1>0. Types
  BY DEF IInv
<1>a. diff \in [Process -> Code] /\ pre \in [Process -> [tree : Tree, index : {"first", "rewritten"}]]
  BY <1>0 DEF Types, TypeOK
<1>b. tree \in Tree /\ patch \in Code \cup {"none"}
  BY <1>0 DEF Types, TypeOK
<1>c. Working(c) => \A d \in Check \ {c} : ~Working(d) /\ ~AsPut(d)
  BY DEF IInv, OneWorks, Working, AsPut
<1>1. CASE TakesOut(c)
  <2>1. tree.code = "in" /\ patch = "in" /\ Working(c)
    BY <1>1 DEF TakesOut, IInv, InPlace, AsPut, Working
  <2>2. tree' \in Tree /\ pc' \in [Process -> Places] /\ pc'[c] = "tests" /\ \A d \in Process \ {c} : pc'[d] = pc[d]
    BY <1>0, <1>b, <1>1 DEF TakesOut, Goes, Tree, Code, Types, Shape, Places
  <2>3. Types'
    BY <1>0, <1>1, <2>2 DEF TakesOut, claim, bounds, Types, TypeOK, Shape
  <2>4. OneWorks'
    BY <1>1, <2>1, <2>2 DEF TakesOut, claim, IInv, OneWorks, Working
  <2>5. InPlace'
    BY <1>1, <1>c, <2>1, <2>2 DEF TakesOut, InPlace, AsPut, Working
  <2>6. QED
    BY <1>1, <2>1, <2>3, <2>4, <2>5 DEF TakesOut, claim, IInv, ChangeIsKept
<1>2. CASE CannotTakeOut(c) \/ Removes(c)
  <2>1. tree.code = "in" /\ Working(c) /\ UNCHANGED <<checkout, stored, gate, hash, verdict, diff, pre, passes, spoiled>>
    BY <1>2 DEF CannotTakeOut, Removes, IInv, InPlace, AsPut, Working
  <2>2. Goes(c, "done") /\ (UNCHANGED outcome \/ \E how \in Outcomes : outcome' = [outcome EXCEPT ![c] = how])
    BY <1>2 DEF CannotTakeOut, Removes, Ends, Outcomes
  <2>3. Removed \/ Kept
    BY <1>2 DEF CannotTakeOut, Removes
  <2>4. pc' \in [Process -> Places] /\ pc'[c] = "done" /\ outcome' \in [Process -> Outcomes]
    BY <1>0, <2>2 DEF Goes, Types, Shape, Places
  <2>5. Types'
    BY <1>0, <2>1, <2>3, <2>4 DEF checkout, Removed, Kept, claim, Types, TypeOK, Shape
  <2>6. \A d \in Check : ~Working(d)'
    BY <1>0, <1>c, <2>1, <2>2, <2>4 DEF Working, Goes, Types, Shape
  <2>7. QED
    BY <2>1, <2>5, <2>6 DEF checkout, IInv, ChangeIsKept, OneWorks, InPlace
<1>3. CASE TableChanged(c) \/ Concludes(c)
  <2>1. Same /\ UNCHANGED <<hash, verdict, diff, pre>> /\ Goes(c, "apply") /\ Working(c)
    BY <1>3 DEF TableChanged, Concludes, Working
  <2>2. \E how \in Outcomes : outcome' = [outcome EXCEPT ![c] = how]
    BY <1>3 DEF TableChanged, Concludes, Outcomes
  <2>3. "apply" \in Places /\ MayGo(c, "apply")
    BY <2>1 DEF Places, MayGo
  <2>4. QED
    BY <1>a, <2>1, <2>2, <2>3, ReadsKeep
<1>4. CASE PutsBack(c)
  <2>1. Working(c) /\ UNCHANGED <<index, claim, stored, gate, hash, verdict, diff, pre, passes, spoiled>> /\ Goes(c, "index")
    BY <1>4 DEF PutsBack, Working
  <2>2. \/ tree' = [tree EXCEPT !.code = "in"] /\ UNCHANGED outcome
        \/ UNCHANGED tree /\ outcome' = [outcome EXCEPT ![c] = "restore"]
    BY <1>4 DEF PutsBack, IInv, ChangeIsKept
  <2>3. pc' \in [Process -> Places] /\ pc'[c] = "index" /\ \A d \in Process \ {c} : pc'[d] = pc[d]
    BY <1>0, <2>1 DEF Goes, Types, Shape, Places
  <2>4. outcome' \in [Process -> Outcomes] /\ tree' \in Tree /\ (tree'.code = "in" \/ (UNCHANGED tree /\ outcome'[c] = "restore"))
    BY <1>0, <1>b, <2>2 DEF Types, Shape, Outcomes, Tree, Code
  <2>5. Types'
    BY <1>0, <2>1, <2>3, <2>4 DEF claim, Types, TypeOK, Shape
  <2>6. OneWorks'
    BY <2>1, <2>3 DEF claim, IInv, OneWorks, Working
  <2>7. InPlace'
    BY <1>c, <2>1, <2>3, <2>4 DEF InPlace, AsPut, Working
  <2>8. QED
    BY <2>1, <2>4, <2>5, <2>6, <2>7 DEF claim, IInv, ChangeIsKept
<1>5. CASE RestoresIndex(c)
  <2>1. Working(c) /\ UNCHANGED <<tree, claim, stored, gate, hash, verdict, diff, pre, passes, spoiled>>
    BY <1>5 DEF RestoresIndex, Working
  <2>2. \E to \in {"done", "verify"} : Goes(c, to) /\ (to = "verify" => tree.code = "in")
    BY <1>5 DEF RestoresIndex, Ends, IInv, InPlace, AsPut
  <2>3. pc' \in [Process -> Places] /\ (\A d \in Process \ {c} : pc'[d] = pc[d]) /\ pc'[c] \in {"done", "verify"}
    BY <1>0, <2>2 DEF Goes, Types, Shape, Places
  <2>4. pc'[c] = "verify" => tree.code = "in"
    BY <1>0, <2>2 DEF Goes, Types, Shape
  <2>5. index' \in {"first", "rewritten"} /\ outcome' \in [Process -> Outcomes]
    BY <1>0, <1>a, <1>5 DEF RestoresIndex, Ends, Outcomes, Types, TypeOK, Shape
  <2>6. Types'
    BY <1>0, <2>1, <2>3, <2>5 DEF claim, Types, TypeOK, Shape
  <2>7. OneWorks'
    BY <2>1, <2>3 DEF claim, IInv, OneWorks, Working
  <2>8. InPlace'
    BY <1>c, <2>1, <2>3, <2>4 DEF InPlace, AsPut, Working
  <2>9. QED
    BY <2>1, <2>6, <2>7, <2>8 DEF claim, IInv, ChangeIsKept
<1>6. CASE Verifies(c)
  <2>1. Same /\ UNCHANGED <<hash, verdict, diff, pre>> /\ Working(c) /\ tree.code = "in"
    BY <1>6 DEF Verifies, Working, IInv, InPlace, AsPut
  <2>2. \/ Goes(c, "remove") /\ UNCHANGED outcome
        \/ Goes(c, "done") /\ outcome' = [outcome EXCEPT ![c] = "restore"]
    BY <1>6 DEF Verifies, Ends
  <2>3. "restore" \in Outcomes /\ "none" \in Outcomes /\ "remove" \in Places /\ "done" \in Places /\ MayGo(c, "remove") /\ MayGo(c, "done")
    BY <2>1 DEF Outcomes, Places, MayGo
  <2>4. QED
    BY <1>a, <2>1, <2>2, <2>3, ReadsKeep
<1>7. QED
  BY <1>1, <1>2, <1>3, <1>4, <1>5, <1>6 DEF Reverts

(* Every step keeps the invariant: those that read only, then those that move the change or the patch. *)
LEMMA NextIInv == IInv /\ [Next]_vars => IInv'
<1> SUFFICES ASSUME IInv, [Next]_vars PROVE IInv'
  OBVIOUS
<1> USE DEF Process
<1>0. Types
  BY DEF IInv
<1>a. diff \in [Process -> Code] /\ pre \in [Process -> [tree : Tree, index : {"first", "rewritten"}]]
  BY <1>0 DEF Types, TypeOK
<1>1. CASE UNCHANGED vars
  BY <1>1 DEF vars, checkout, claim, process, bounds, IInv, Types, Shape, TypeOK, ChangeIsKept, OneWorks, Working, InPlace, AsPut
<1>2. CASE PersonRestores
  <2>1. tree'.code = "in" /\ tree' \in Tree
    BY <1>0, <1>2 DEF PersonRestores, IInv, ChangeIsKept, Types, TypeOK, Tree
  <2>2. Types'
    BY <1>0, <1>2, <2>1 DEF PersonRestores, Removed, process, bounds, Types, TypeOK, Shape
  <2>3. \A c \in Check : ~Working(c)
    BY <1>2 DEF PersonRestores, Live, Working, IInv, OneWorks
  <2>4. OneWorks'
    BY <1>2, <2>3 DEF PersonRestores, OneWorks, Working, process
  <2>5. QED
    BY <2>1, <2>2, <2>4 DEF IInv, ChangeIsKept, InPlace
<1>3. ASSUME NEW c \in Process, RunsGate(c) PROVE IInv'
  BY <1>0, <1>3, GateTypes, QuietCheckKeeps DEF Working, AsPut, IInv, InPlace
<1>4. ASSUME NEW c \in Process, GateFails(c) PROVE IInv'
  <2>1. Same /\ UNCHANGED <<hash, verdict, diff, pre>>
    BY <1>4 DEF GateFails
  <2>2. CASE pc[c] = "tests"
    <3>1. Goes(c, "apply") /\ outcome' = [outcome EXCEPT ![c] = "failed"]
      BY <1>4, <2>2 DEF GateFails
    <3>2. "apply" \in Places /\ "failed" \in Outcomes /\ MayGo(c, "apply")
      BY <2>2 DEF Places, Outcomes, MayGo, Working
    <3>3. QED
      BY <1>a, <2>1, <3>1, <3>2, ReadsKeep
  <2>3. CASE pc[c] # "tests"
    <3>1. Goes(c, "done") /\ outcome' = [outcome EXCEPT ![c] = "failed"]
      BY <1>4, <2>3 DEF GateFails, Ends
    <3>2. "done" \in Places /\ "failed" \in Outcomes /\ MayGo(c, "done")
      BY DEF Places, Outcomes, MayGo
    <3>3. QED
      BY <1>a, <2>1, <3>1, <3>2, ReadsKeep
  <2>4. QED
    BY <2>2, <2>3
<1>5. ASSUME NEW c \in Process, GateEnds(c) PROVE IInv'
  <2>1. Same /\ UNCHANGED <<hash, verdict, diff, pre>> /\ Goes(c, "done") /\ outcome' = [outcome EXCEPT ![c] = verdict[c]]
    BY <1>5 DEF GateEnds, Ends
  <2>2. verdict[c] \in Outcomes /\ "done" \in Places /\ MayGo(c, "done")
    BY <1>0 DEF Types, TypeOK, Outcomes, Places, MayGo
  <2>3. QED
    BY <1>a, <2>1, <2>2, ReadsKeep
<1>6. ASSUME NEW c \in Process, Killed(c) PROVE IInv'
  <2>1. UNCHANGED <<tree, outcome>> /\ (\A d \in Process \ {c} : pc'[d] = pc[d]) /\ pc'[c] = "killed"
    BY <1>0, <1>6 DEF Killed, Goes, checkout, Types, Shape
  <2>2. \/ UNCHANGED claim
        \/ c \in Check /\ patch = "none" /\ patch' = "other" /\ pc[c] = "claim" /\ owner' = c
    BY <1>6 DEF Killed
  <2>3. Types'
    <3>1. pc' \in [Process -> Places]
      BY <1>0, <1>6 DEF Killed, Goes, Types, Shape, Places
    <3>2. patch' \in Code \cup {"none"} /\ owner' \in Check
      BY <1>0, <2>2 DEF claim, Types, TypeOK, Code
    <3>3. QED
      BY <1>0, <1>6, <3>1, <3>2 DEF Killed, checkout, Types, TypeOK, Shape
  <2>4. ChangeIsKept'
    BY <2>1, <2>2 DEF IInv, ChangeIsKept, claim
  <2>5. OneWorks'
    BY <2>1, <2>2 DEF IInv, OneWorks, Working, claim
  <2>6. InPlace'
    BY <2>1 DEF IInv, InPlace, AsPut
  <2>7. QED
    BY <2>3, <2>4, <2>5, <2>6 DEF IInv
<1>7. ASSUME NEW c \in Check, Begins(c) PROVE IInv'
  <2>1. Same /\ UNCHANGED <<hash, verdict, diff, pre>>
    BY <1>7 DEF Begins
  <2>2. "none" \in Outcomes /\ "gate" \in Places /\ "done" \in Places /\ MayGo(c, "gate") /\ MayGo(c, "done")
    BY DEF Outcomes, Places, MayGo
  <2>3. CASE Goes(c, "gate") /\ UNCHANGED outcome
    BY <1>a, <2>1, <2>2, <2>3, ReadsKeep
  <2>4. CASE Goes(c, "done") /\ \E how \in Outcomes : outcome' = [outcome EXCEPT ![c] = how]
    <3>1. PICK how \in Outcomes : outcome' = [outcome EXCEPT ![c] = how]
      BY <2>4
    <3>2. QED
      BY <1>a, <2>1, <2>2, <2>4, <3>1, ReadsKeep
  <2>5. QED
    BY <1>7, <2>3, <2>4 DEF Begins, Ends, Outcomes
<1>8. ASSUME NEW c \in Check, Diffs(c) PROVE IInv'
  <2>1. Same /\ UNCHANGED <<hash, verdict, pre>>
    BY <1>8 DEF Diffs
  <2>2. diff' \in [Process -> Code]
    BY <1>0, <1>8 DEF Diffs, Types, TypeOK, Tree
  <2>3. "none" \in Outcomes /\ "notes" \in Places /\ "done" \in Places /\ MayGo(c, "notes") /\ MayGo(c, "done")
    BY DEF Outcomes, Places, MayGo
  <2>4. CASE Goes(c, "notes") /\ UNCHANGED outcome
    BY <1>a, <2>1, <2>2, <2>3, <2>4, ReadsKeep
  <2>5. CASE Goes(c, "done") /\ \E how \in Outcomes : outcome' = [outcome EXCEPT ![c] = how]
    <3>1. PICK how \in Outcomes : outcome' = [outcome EXCEPT ![c] = how]
      BY <2>5
    <3>2. QED
      BY <1>a, <2>1, <2>2, <2>3, <2>5, <3>1, ReadsKeep
  <2>6. QED
    BY <1>8, <2>4, <2>5 DEF Diffs, Ends, Outcomes
<1>9. ASSUME NEW c \in Check, Notes(c) PROVE IInv'
  <2>1. Now \in [tree : Tree, index : {"first", "rewritten"}]
    BY <1>0 DEF Now, Types, TypeOK
  <2>2. Same /\ UNCHANGED <<hash, verdict, diff, outcome>> /\ Goes(c, "claim")
    BY <1>9 DEF Notes
  <2>3. pre' \in [Process -> [tree : Tree, index : {"first", "rewritten"}]]
    BY <1>9, <1>a, <2>1 DEF Notes
  <2>4. "none" \in Outcomes /\ "claim" \in Places /\ MayGo(c, "claim")
    BY DEF Outcomes, Places, MayGo
  <2>5. Goes(c, "claim") /\ Same /\ UNCHANGED <<hash, verdict>> /\ UNCHANGED outcome /\ diff' \in [Process -> Code]
    BY <1>a, <2>2
  <2>6. QED
    BY <2>3, <2>4, <2>5, ReadsKeep
<1>10. ASSUME NEW c \in Check, Claims(c) PROVE IInv'
  <2>1. CASE patch = "none" /\ patch' = diff[c] /\ owner' = c /\ Goes(c, "revert") /\ UNCHANGED outcome
    <3>1. UNCHANGED tree /\ tree.code = "in"
      BY <1>10, <2>1 DEF Claims, checkout, IInv, ChangeIsKept
    <3>2. patch' \in Code /\ patch' # "none"
      BY <1>0, <2>1 DEF Types, TypeOK, Code
    <3>3. (\A d \in Process \ {c} : pc'[d] = pc[d]) /\ pc' \in [Process -> Places]
      BY <1>0, <2>1 DEF Goes, Types, Shape, Places
    <3>4. Types'
      BY <1>0, <1>10, <2>1, <3>2, <3>3 DEF Claims, checkout, Types, TypeOK, Shape
    <3>5. OneWorks'
      BY <2>1, <3>2, <3>3 DEF IInv, OneWorks, Working
    <3>6. QED
      BY <3>1, <3>4, <3>5 DEF IInv, ChangeIsKept, InPlace
  <2>2. CASE UNCHANGED claim /\ (Ends(c, "leftover") \/ Ends(c, "failed"))
    <3>1. Same /\ UNCHANGED <<hash, verdict, diff, pre>> /\ Goes(c, "done")
      BY <1>10, <2>2 DEF Claims, Same, Ends
    <3>2. PICK how \in Outcomes : outcome' = [outcome EXCEPT ![c] = how]
      BY <2>2 DEF Ends, Outcomes
    <3>3. "done" \in Places /\ MayGo(c, "done")
      BY DEF Places, MayGo
    <3>4. QED
      BY <1>a, <3>1, <3>2, <3>3, ReadsKeep
  <2>3. QED
    BY <1>10, <2>1, <2>2 DEF Claims
<1>11. ASSUME NEW c \in Check, Reverts(c) PROVE IInv'
  BY <1>11, RevertsIInv
<1>12. QED
  BY <1>1, <1>2, <1>3, <1>4, <1>5, <1>6, <1>7, <1>8, <1>9, <1>10, <1>11 DEF Next

(* What every variable holds, however the processes run. *)
THEOREM RevertTypes == Spec => []TypeOK
<1>1. IInv => TypeOK
  BY DEF IInv, Types
<1>2. QED
  BY <1>1, InitIInv, NextIInv, PTL DEF Spec

(* internal/conform: the change is in the tree, or the patch on the disk puts it back, for any number of checks and *)
(* runs of the gate on the checkout, whichever of them is killed and whichever call fails.                          *)
THEOREM ChangeStays == Spec => []ChangeIsKept
<1>1. IInv => ChangeIsKept
  BY DEF IInv
<1>2. QED
  BY <1>1, InitIInv, NextIInv, PTL DEF Spec

LEMMA InitSound == Init => Sound
  BY DEF Init, Sound, Never, NoneProven, NoneTried, Process

(* The runs of the gate: what they keep, and what they say. *)
LEMMA GateSound ==
  ASSUME Types, Sound, NEW c \in Process, RunsGate(c)
  PROVE  Sound'
<1> SUFFICES ASSUME ~spoiled' PROVE Sound'
  BY DEF Sound
<1>0. UNCHANGED <<pc, outcome, passes>>
  BY GateTypes DEF RunsGate, GateHashes, GateExecutes, GateStores, Same
<1>1. ~spoiled /\ UNCHANGED spoiled
  BY DEF RunsGate, GateHashes, GateExecutes, GateStores, Same, TestsWrite, Types, TypeOK
<1>2. tree'.code = tree.code
  <2>1. CASE GateExecutes(c)
    <3>1. UNCHANGED tree \/ tree' = [tree EXCEPT !.rest = TRUE]
      BY <1>1, <2>1 DEF GateExecutes, TestsWrite, Types, TypeOK, checkout
    <3>2. QED
      BY <3>1 DEF Types, TypeOK, Tree
  <2>2. CASE GateHashes(c) \/ GateStores(c)
    BY <2>2 DEF GateHashes, GateStores, Same, checkout
  <2>3. QED
    BY <2>1, <2>2 DEF RunsGate
<1>3. tree \in Tree /\ stored \in [Tree -> Verdicts] /\ verdict \in [Process -> Verdicts] /\ hash \in [Process -> Tree]
  BY DEF Types, TypeOK
<1>4. \A t \in Tree : stored'[t] = stored[t] \/ stored'[t] = verdict[c]
  BY <1>3 DEF RunsGate, GateHashes, GateExecutes, GateStores, Same
<1>5. \A d \in Process : \/ verdict'[d] = verdict[d]
                        \/ verdict'[d] = stored[tree]
                        \/ verdict'[d] = "error"
                        \/ verdict'[d] = IF passes[tree.code] THEN "pass" ELSE "fail"
  <2>1. UNCHANGED verdict \/ \E said : verdict' = [verdict EXCEPT ![c] = said] /\
          (said = stored[tree] \/ said = (IF passes[tree.code] THEN "pass" ELSE "fail") \/ said = "error")
    <3>1. CASE GateHashes(c)
      BY <3>1 DEF GateHashes, TreeHash
    <3>2. CASE GateExecutes(c)
      BY <3>2 DEF GateExecutes
    <3>3. CASE GateStores(c)
      BY <3>3 DEF GateStores
    <3>4. QED
      BY <3>1, <3>2, <3>3 DEF RunsGate
  <2>2. QED
    BY <1>3, <2>1
<1>6. tree.code \in {"in", "out"}
  BY <1>1, <1>3 DEF Sound, Tree, Code
<1>7. ASSUME ~passes["in"] PROVE (NoneTried /\ NoneProven /\ Never("pass"))'
  <2>1. tree.code = "in" /\ Never("pass") /\ NoneTried /\ NoneProven
    BY <1>1, <1>7 DEF Sound, NoneTried
  <2>2. \A d \in Process : verdict'[d] # "pass"
    BY <1>3, <1>5, <1>7, <2>1 DEF Never
  <2>3. Never("pass")'
    BY <1>4, <2>1, <2>2 DEF Never
  <2>4. QED
    BY <1>0, <1>2, <2>1, <2>3 DEF NoneTried, NoneProven
<1>8. ASSUME passes["in"], passes["out"] PROVE (NoneProven /\ Never("fail"))'
  <2>1. Never("fail") /\ NoneProven /\ passes[tree.code]
    BY <1>1, <1>6, <1>8 DEF Sound
  <2>2. \A d \in Process : verdict'[d] # "fail"
    BY <1>3, <1>5, <2>1 DEF Never
  <2>3. QED
    BY <1>0, <1>4, <2>1, <2>2 DEF Never, NoneProven
<1>9. QED
  BY <1>0, <1>1, <1>2, <1>7, <1>8 DEF Sound

(* The other steps write no result: they move the change, or a process. *)
LEMMA QuietSound ==
  ASSUME Sound, UNCHANGED <<stored, verdict, passes, spoiled>>,
         NEW c \in Process, \A d \in Process \ {c} : pc'[d] = pc[d] /\ outcome'[d] = outcome[d],
         tree'.code # "other" \/ tree'.code = tree.code,
         (NoneTried /\ Never("pass")) => (tree'.code = "in" /\ (c \in Check => pc'[c] \in {"begin", "gate", "done", "killed"})),
         c \in Check /\ outcome'[c] = "proven" => outcome[c] = "proven" \/ (~NoneTried /\ ~Never("fail"))
  PROVE  Sound'
  BY DEF Sound, Never, NoneProven, NoneTried, Process

LEMMA NextSound == IInv /\ Sound /\ [Next]_vars => Sound'
<1> SUFFICES ASSUME IInv, Sound, [Next]_vars PROVE Sound'
  OBVIOUS
<1> USE DEF Process
<1>0. Types
  BY DEF IInv
<1>a. tree \in Tree /\ pc \in [Process -> Places] /\ outcome \in [Process -> Outcomes] /\ verdict \in [Process -> Verdicts]
  BY <1>0 DEF Types, TypeOK, Shape
<1>1. CASE UNCHANGED vars
  BY <1>1 DEF vars, checkout, process, Sound, Never, NoneProven, NoneTried
<1>2. CASE PersonRestores
  <2>1. tree'.code = "in" /\ UNCHANGED <<stored, process, passes, spoiled>>
    BY <1>a, <1>2 DEF PersonRestores, IInv, ChangeIsKept, Tree
  <2>2. QED
    BY <2>1 DEF process, Sound, Never, NoneProven, NoneTried
<1>3. ASSUME NEW c \in Process, RunsGate(c) PROVE Sound'
  BY <1>0, <1>3, GateSound
<1>4. ASSUME NEW c \in Process, GateFails(c) \/ GateEnds(c) \/ Killed(c) PROVE Sound'
  <2>1. UNCHANGED <<stored, verdict, passes, spoiled, tree>>
    BY <1>4 DEF GateFails, GateEnds, Killed, Same, checkout
  <2>2. \A d \in Process \ {c} : pc'[d] = pc[d] /\ outcome'[d] = outcome[d]
    BY <1>a, <1>4 DEF GateFails, GateEnds, Killed, Goes, Ends
  <2>3. pc'[c] \in {"done", "killed"} \/ (pc[c] = "tests" /\ pc'[c] = "apply")
    BY <1>a, <1>4 DEF GateFails, GateEnds, Killed, Goes, Ends
  <2>4. outcome'[c] # "proven" \/ outcome'[c] = outcome[c]
    BY <1>a, <1>4 DEF GateFails, GateEnds, Killed, Ends, Verdicts
  <2>5. (NoneTried /\ Never("pass")) => (tree'.code = "in" /\ (c \in Check => pc'[c] \in {"begin", "gate", "done", "killed"}))
    BY <2>1, <2>3 DEF NoneTried
  <2>6. QED
    BY <2>1, <2>2, <2>4, <2>5, QuietSound
<1>5. ASSUME NEW c \in Check, Begins(c) \/ Diffs(c) \/ Notes(c) \/ Claims(c) PROVE Sound'
  <2>1. UNCHANGED <<stored, verdict, passes, spoiled, tree>>
    BY <1>5 DEF Begins, Diffs, Notes, Claims, Same, checkout
  <2>2. \A d \in Process \ {c} : pc'[d] = pc[d] /\ outcome'[d] = outcome[d]
    BY <1>a, <1>5 DEF Begins, Diffs, Notes, Claims, Goes, Ends
  <2>3. pc'[c] \in {"gate", "done"} \/ pc[c] \in {"notes", "claim"} \/ (pc[c] = "gate" /\ verdict[c] = "pass")
    BY <1>a, <1>5 DEF Begins, Diffs, Notes, Claims, Goes, Ends
  <2>4. outcome'[c] # "proven" \/ outcome'[c] = outcome[c]
    BY <1>a, <1>5 DEF Begins, Diffs, Notes, Claims, Ends
  <2>5. (NoneTried /\ Never("pass")) => (tree'.code = "in" /\ (c \in Check => pc'[c] \in {"begin", "gate", "done", "killed"}))
    BY <2>1, <2>3 DEF NoneTried, Never
  <2>6. QED
    BY <2>1, <2>2, <2>4, <2>5, QuietSound
<1>6. ASSUME NEW c \in Check, Reverts(c) PROVE Sound'
  <2>1. UNCHANGED <<stored, verdict, passes, spoiled>> /\ Working(c)
    BY <1>6 DEF Reverts, TakesOut, CannotTakeOut, TableChanged, Concludes, PutsBack, RestoresIndex, Verifies, Removes, Same, Working
  <2>2. \A d \in Process \ {c} : pc'[d] = pc[d] /\ outcome'[d] = outcome[d]
    BY <1>a, <1>6 DEF Reverts, TakesOut, CannotTakeOut, TableChanged, Concludes, PutsBack, RestoresIndex, Verifies, Removes, Goes, Ends
  <2>3. tree'.code = tree.code \/ tree'.code = "out" \/ tree'.code = "in"
    BY <1>a, <1>6 DEF Reverts, TakesOut, CannotTakeOut, TableChanged, Concludes, PutsBack, RestoresIndex, Verifies, Removes, Same, checkout,
       IInv, ChangeIsKept, Tree
  <2>4. outcome'[c] # "proven" \/ outcome'[c] = outcome[c] \/ verdict[c] = "fail"
    BY <1>a, <1>6 DEF Reverts, TakesOut, CannotTakeOut, TableChanged, Concludes, PutsBack, RestoresIndex, Verifies, Removes, Ends
  <2>5. ~NoneTried
    BY <2>1 DEF NoneTried, Working
  <2>6. verdict[c] = "fail" => ~Never("fail")
    BY DEF Never
  <2>7. QED
    BY <2>1, <2>2, <2>3, <2>4, <2>5, <2>6, QuietSound
<1>7. QED
  BY <1>1, <1>2, <1>3, <1>4, <1>5, <1>6 DEF Next

(* internal/conform, Check: a change that is reported proven passes its tests with it and fails them without it, though *)
(* checks take it out under each other's runs and the cache keeps what was said of another tree.                         *)
THEOREM Proven == Spec => []ProvenIsTrue
<1>1. IInv /\ Sound => ProvenIsTrue
  BY DEF IInv, Types, Shape, Code, Sound, NoneProven, ProvenIsTrue
<1>2. QED
  BY <1>1, InitIInv, NextIInv, InitSound, NextSound, PTL DEF Spec

==============================================================================
