------------------------------- MODULE Revert -------------------------------
(***************************************************************************)
(* The revert check (internal/conform) and the gate with its cache         *)
(* (internal/checks), of several processes on one checkout: a check takes  *)
(* the change out of the tree, runs the tests and puts it back, while      *)
(* other checks and gate runs read the same tree, and any of them may be   *)
(* killed.  What a change is, its paths and the output of the tests are    *)
(* left out; the table of checks has tests only, so that every run of the  *)
(* gate on a tree has the same key, and the checks of it can all run.      *)
(*                                                                         *)
(* A definition marked VARIANT is the one after it with a mistake that     *)
(* would be easy to make.                                                  *)
(***************************************************************************)
EXTENDS Naturals, FiniteSets

CONSTANTS
  Check,       \* the revert checks that are made
  GateRun,     \* the runs of the gate alone
  MaxWrites,   \* bound: how often tests write to the checkout
  MaxFaults    \* bound: calls that fail

ASSUME RevertAssumption == Check \cap GateRun = {} /\ MaxWrites \in Nat /\ MaxFaults \in Nat

Code == {"in", "out", "other"}   \* the change in the tree, out of it, and the paths of it written by a test
Verdicts == {"none", "pass", "fail", "error"}

VARIABLES
  tree,      \* the checkout: the paths of the change, and whether a file was left beside them
  index,     \* the bytes of git's index
  patch,     \* .agent-fox/revert.patch: what it puts back, or "none"
  owner,     \* the check that wrote it
  stored,    \* the results of the gate, by tree
  pc,        \* where each process is
  gate,      \* where its run of the gate is
  hash,      \* the hash that its run of the gate began with
  verdict,   \* what that run said
  diff,      \* the change as the check read it
  pre,       \* the tree and the index as the check read them before it took the change out
  outcome,   \* how it ended
  passes,    \* what the tests say of a tree, by its code
  spoiled,   \* whether a test has written to a path of the change while it was out
  writes,
  faults

process == <<pc, gate, hash, verdict, diff, pre, outcome>>
checkout == <<tree, index>>
claim == <<patch, owner>>
bounds == <<writes, faults>>
vars == <<checkout, claim, stored, process, passes, spoiled, bounds>>

Process == Check \cup GateRun
Tree == [code : Code, rest : BOOLEAN]
Now == [tree |-> tree, index |-> index]
TreeHash == tree   \* of what the files hold, whatever the index and the commit are

Goes(c, to) == pc' = [pc EXCEPT ![c] = to]
Ends(c, how) == Goes(c, "done") /\ outcome' = [outcome EXCEPT ![c] = how]
Fault == faults < MaxFaults /\ faults' = faults + 1 /\ UNCHANGED writes
Same == UNCHANGED <<checkout, claim, stored, passes, spoiled>>

-----------------------------------------------------------------------------
(* A run of the gate: of the tree, for a revert check before it takes the  *)
(* change out and while it is out.                                         *)

GateIs(c, step) == gate' = [gate EXCEPT ![c] = step]
Running(c, step) == pc[c] \in {"gate", "tests"} /\ gate[c] = step

GateHashes(c) ==
  /\ Running(c, "hash")
  /\ hash' = [hash EXCEPT ![c] = TreeHash]
  /\ IF stored[TreeHash] # "none"
     THEN GateIs(c, "ran") /\ verdict' = [verdict EXCEPT ![c] = stored[TreeHash]]
     ELSE GateIs(c, "run") /\ UNCHANGED verdict
  /\ UNCHANGED <<pc, diff, pre, outcome, bounds>> /\ Same

(* The tests may write: to the index, to another file of the tree, or to a path of the change, which is only of account *)
(* while the change is out.                                                                                              *)
TestsWrite ==
  \/ UNCHANGED <<checkout, spoiled, bounds>>
  \/ /\ writes < MaxWrites /\ writes' = writes + 1 /\ UNCHANGED faults
     /\ \/ index' = "rewritten" /\ UNCHANGED <<tree, spoiled>>
        \/ tree' = [tree EXCEPT !.rest = TRUE] /\ UNCHANGED <<index, spoiled>>
        \/ tree.code = "out" /\ tree' = [tree EXCEPT !.code = "other"] /\ spoiled' = TRUE /\ UNCHANGED index

GateExecutes(c) ==
  /\ Running(c, "run")
  /\ GateIs(c, "store")
  /\ \/ verdict' = [verdict EXCEPT ![c] = IF passes[tree.code] THEN "pass" ELSE "fail"] /\ TestsWrite
     \/ verdict' = [verdict EXCEPT ![c] = "error"] /\ Fault /\ UNCHANGED <<checkout, spoiled>>
  /\ UNCHANGED <<claim, stored, pc, hash, diff, pre, outcome, passes>>

(* A result is kept under the hash that the run began with. *)
GateStores(c) ==
  /\ Running(c, "store")
  /\ GateIs(c, "ran")
  /\ stored' = [stored EXCEPT ![hash[c]] = verdict[c]]
  /\ UNCHANGED <<checkout, claim, pc, hash, verdict, diff, pre, outcome, passes, spoiled, bounds>>

RunsGate(c) == GateHashes(c) \/ GateExecutes(c) \/ GateStores(c)

(* A run that ends without a result, because it is told to stop or cannot be made. *)
GateFails(c) ==
  /\ \E step \in {"hash", "run", "store"} : Running(c, step)
  /\ Fault
  /\ IF pc[c] = "tests"
     THEN Goes(c, "apply") /\ outcome' = [outcome EXCEPT ![c] = "failed"]
     ELSE Ends(c, "failed")
  /\ UNCHANGED <<gate, hash, verdict, diff, pre>> /\ Same

GateEnds(g) ==
  /\ g \in GateRun /\ pc[g] = "gate" /\ gate[g] = "ran"
  /\ Ends(g, verdict[g])
  /\ UNCHANGED <<gate, hash, verdict, diff, pre, bounds>> /\ Same

-----------------------------------------------------------------------------
(* The revert check. *)

(* Check refuses while a patch is there, and lists what changed: a change that is out is not listed. *)
Begins(c) ==
  /\ c \in Check /\ pc[c] = "begin"
  /\ CASE patch # "none" -> Ends(c, "leftover")
       [] patch = "none" /\ tree.code = "out" -> Ends(c, "no_code_changes")
       [] OTHER -> Goes(c, "gate") /\ UNCHANGED outcome
  /\ UNCHANGED <<gate, hash, verdict, diff, pre, bounds>> /\ Same

(* VARIANT of Diffs: what the tests say with the change is not looked at. *)
DiffsWhateverRan(c) ==
  /\ c \in Check /\ pc[c] = "gate" /\ gate[c] = "ran"
  /\ IF tree.code = "out" THEN Ends(c, "nothing_to_revert") /\ UNCHANGED diff
     ELSE Goes(c, "notes") /\ diff' = [diff EXCEPT ![c] = tree.code] /\ UNCHANGED outcome
  /\ UNCHANGED <<gate, hash, verdict, pre, bounds>> /\ Same

Diffs(c) ==
  /\ c \in Check /\ pc[c] = "gate" /\ gate[c] = "ran"
  /\ IF verdict[c] # "pass" THEN Ends(c, "after_not_green") /\ UNCHANGED diff
     ELSE IF tree.code = "out" THEN Ends(c, "nothing_to_revert") /\ UNCHANGED diff
     ELSE Goes(c, "notes") /\ diff' = [diff EXCEPT ![c] = tree.code] /\ UNCHANGED outcome
  /\ UNCHANGED <<gate, hash, verdict, pre, bounds>> /\ Same

Notes(c) ==
  /\ pc[c] = "notes"
  /\ Goes(c, "claim")
  /\ pre' = [pre EXCEPT ![c] = Now]
  /\ UNCHANGED <<gate, hash, verdict, diff, outcome, bounds>> /\ Same

(* VARIANT of Claims: the patch is written whether or not there is one. *)
ClaimsAnyway(c) ==
  /\ pc[c] = "claim"
  /\ \/ /\ patch' = diff[c] /\ owner' = c
        /\ Goes(c, "revert")
        /\ UNCHANGED <<outcome, bounds>>
     \/ Fault /\ Ends(c, "failed") /\ UNCHANGED claim
  /\ UNCHANGED <<checkout, stored, gate, hash, verdict, diff, pre, passes, spoiled>>

(* The patch is written only where there is none; one that cannot be written whole is removed. *)
Claims(c) ==
  /\ pc[c] = "claim"
  /\ \/ patch # "none" /\ Ends(c, "leftover") /\ UNCHANGED <<claim, bounds>>
     \/ /\ patch = "none"
        /\ patch' = diff[c] /\ owner' = c
        /\ Goes(c, "revert")
        /\ UNCHANGED <<outcome, bounds>>
     \/ patch = "none" /\ Fault /\ Ends(c, "failed") /\ UNCHANGED claim
  /\ UNCHANGED <<checkout, stored, gate, hash, verdict, diff, pre, passes, spoiled>>

AsItWas(c) == Now = pre[c]
Kept == UNCHANGED claim
Removed == patch' = "none" /\ UNCHANGED owner

(* git apply --reverse changes every path or none. *)
TakesOut(c) ==
  /\ pc[c] = "revert"
  /\ tree.code = patch
  /\ tree' = [tree EXCEPT !.code = "out"]
  /\ Goes(c, "tests") /\ GateIs(c, "hash")
  /\ UNCHANGED <<index, claim, stored, hash, verdict, diff, pre, outcome, passes, spoiled, bounds>>

CannotTakeOut(c) ==
  /\ pc[c] = "revert"
  /\ Fault \/ (tree.code # patch /\ UNCHANGED bounds)
  /\ IF AsItWas(c) THEN Removed /\ Ends(c, "failed") ELSE Kept /\ Ends(c, "restore")
  /\ UNCHANGED <<checkout, stored, gate, hash, verdict, diff, pre, passes, spoiled>>

(* The table of checks, found again on the tree without the change, may be another. *)
TableChanged(c) ==
  /\ pc[c] = "tests" /\ gate[c] = "hash"
  /\ Goes(c, "apply") /\ outcome' = [outcome EXCEPT ![c] = "table_changed_by_revert"]
  /\ UNCHANGED <<gate, hash, verdict, diff, pre, bounds>> /\ Same

Concludes(c) ==
  /\ pc[c] = "tests" /\ gate[c] = "ran"
  /\ Goes(c, "apply")
  /\ outcome' = [outcome EXCEPT ![c] = CASE verdict[c] = "fail" -> "proven" [] verdict[c] = "error" -> "inconclusive" [] OTHER -> "not_proven"]
  /\ UNCHANGED <<gate, hash, verdict, diff, pre, bounds>> /\ Same

(* restore: the patch is applied again, which git refuses when a path of it was written to. *)
PutsBack(c) ==
  /\ pc[c] = "apply"
  /\ Goes(c, "index")
  /\ \/ /\ tree.code = "out" /\ patch # "none"
        /\ tree' = [tree EXCEPT !.code = patch]
        /\ UNCHANGED <<outcome, bounds>>
     \/ /\ Fault \/ (~(tree.code = "out" /\ patch # "none") /\ UNCHANGED bounds)
        /\ outcome' = [outcome EXCEPT ![c] = "restore"] /\ UNCHANGED tree
  /\ UNCHANGED <<index, claim, stored, gate, hash, verdict, diff, pre, passes, spoiled>>

(* The bytes of the index are written back, unless a git that is running holds its lock. *)
RestoresIndex(c) ==
  /\ pc[c] = "index"
  /\ \/ /\ index' = pre[c].index
        /\ Goes(c, IF outcome[c] = "restore" THEN "done" ELSE "verify")
        /\ UNCHANGED <<outcome, bounds>>
     \/ index # pre[c].index /\ Fault /\ Ends(c, "restore") /\ UNCHANGED index
  /\ UNCHANGED <<tree, claim, stored, gate, hash, verdict, diff, pre, passes, spoiled>>

Verifies(c) ==
  /\ pc[c] = "verify"
  /\ IF AsItWas(c) THEN Goes(c, "remove") /\ UNCHANGED outcome ELSE Ends(c, "restore")
  /\ UNCHANGED <<gate, hash, verdict, diff, pre, bounds>> /\ Same

Removes(c) ==
  /\ pc[c] = "remove"
  /\ \/ Removed /\ Goes(c, "done") /\ UNCHANGED <<outcome, bounds>>
     \/ Fault /\ Kept /\ Ends(c, "restore")
  /\ UNCHANGED <<checkout, stored, gate, hash, verdict, diff, pre, passes, spoiled>>

(* What a check does to the tree, from its claim to the end. *)
Reverts(c) ==
  \/ TakesOut(c) \/ CannotTakeOut(c) \/ TableChanged(c) \/ Concludes(c)
  \/ PutsBack(c) \/ RestoresIndex(c) \/ Verifies(c) \/ Removes(c)

-----------------------------------------------------------------------------
Live(c) == pc[c] \notin {"done", "killed"}

(* A process that is killed; one that is killed in the middle of its claim may leave a patch that is cut. *)
Killed(c) ==
  /\ Live(c)
  /\ Fault
  /\ Goes(c, "killed")
  /\ \/ UNCHANGED claim
     \/ c \in Check /\ pc[c] = "claim" /\ patch = "none" /\ patch' = "other" /\ owner' = c
  /\ UNCHANGED <<checkout, stored, gate, hash, verdict, diff, pre, outcome, passes, spoiled>>

(* A person who finds a patch that no check works with puts the change back, if it is out, and removes the patch. *)
PersonRestores ==
  /\ patch # "none" /\ ~Live(owner)
  /\ tree' = IF tree.code = "in" THEN tree ELSE [tree EXCEPT !.code = patch]
  /\ Removed
  /\ UNCHANGED <<index, stored, process, passes, spoiled, bounds>>

Init ==
  /\ tree = [code |-> "in", rest |-> FALSE] /\ index = "first"
  /\ patch = "none" /\ owner \in Check
  /\ stored = [t \in Tree |-> "none"]
  /\ pc = [c \in Process |-> IF c \in Check THEN "begin" ELSE "gate"]
  /\ gate = [c \in Process |-> "hash"]
  /\ hash = [c \in Process |-> tree]
  /\ verdict = [c \in Process |-> "none"]
  /\ diff = [c \in Process |-> "in"]
  /\ pre = [c \in Process |-> Now]
  /\ outcome = [c \in Process |-> "none"]
  /\ passes \in [Code -> BOOLEAN]
  /\ spoiled = FALSE /\ writes = 0 /\ faults = 0

Next ==
  \/ PersonRestores
  \/ \E c \in Process : RunsGate(c) \/ GateFails(c) \/ GateEnds(c) \/ Killed(c)
  \/ \E c \in Check : Begins(c) \/ Diffs(c) \/ Notes(c) \/ Claims(c) \/ Reverts(c)

Spec == Init /\ [][Next]_vars

-----------------------------------------------------------------------------
(* What every variable holds. *)
TypeOK ==
  /\ tree \in Tree /\ index \in {"first", "rewritten"}
  /\ patch \in Code \cup {"none"} /\ owner \in Check
  /\ stored \in [Tree -> Verdicts] /\ hash \in [Process -> Tree] /\ verdict \in [Process -> Verdicts]
  /\ diff \in [Process -> Code] /\ pre \in [Process -> [tree : Tree, index : {"first", "rewritten"}]]
  /\ spoiled \in BOOLEAN

(* revert.go and architecture.md: the change is in the tree, or the patch that puts it back is on the disk, wherever a *)
(* check is killed, whichever call fails and whatever other checks do.                                                 *)
ChangeIsKept == tree.code = "in" \/ patch = "in"

(* revert.go: a change that is reported proven is one whose tests pass with it and fail without it, though other *)
(* checks take it out and put results of the gate in the cache meanwhile; tests that write to the change itself  *)
(* are not answered for.                                                                                         *)
ProvenIsTrue ==
  \A c \in Check : pc[c] = "done" /\ outcome[c] = "proven" /\ ~spoiled => passes["in"] /\ ~passes["out"]

(* cli.md, "tests_pass_without_the_change": a change that is reported as not proven is one whose tests pass without it. *)
(* It does not hold: a run of the gate that hashed the tree while a check had the change out, and ran the tests when it *)
(* was back, keeps what they said for the tree without the change.                                                      *)
NotProvenIsTrue ==
  \A c \in Check : pc[c] = "done" /\ outcome[c] = "not_proven" /\ ~spoiled => passes["out"]
=============================================================================
