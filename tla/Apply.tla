------------------------------- MODULE Apply -------------------------------
(***************************************************************************)
(* The apply of a box's tree to the checkout (internal/fix/apply.go), one  *)
(* for each round of a run: what is decided before the first write, what   *)
(* is deleted, and what is written.  A tree is what each of five paths is, *)
(* where "link" is a link at "d" that leads to "f"; contents and modes are *)
(* left out, and so are the names under .git/ and .agent-fox/, which no    *)
(* apply looks at.  The rules of git do not change, nor does its index,    *)
(* since a run commits at its end.                                         *)
(*                                                                         *)
(* A definition marked VARIANT is the one after it with a mistake that     *)
(* would be easy to make.                                                  *)
(***************************************************************************)
EXTENDS Naturals, FiniteSets

CONSTANT MaxRounds   \* bound: the applies of a run

ApplyAssumption == MaxRounds \in Nat

Paths == {"d", "dx", "dy", "f", "fx"}
Inside(dir) == CASE dir = "d" -> {"dx", "dy"} [] dir = "f" -> {"fx"} [] OTHER -> {}
Dirs == {"d", "f"}
Above(p) == {dir \in Dirs : p \in Inside(dir)}
Entry == {"file", "link"}   \* what an export is mirrored by, and git lists

Trees ==
  {t \in [Paths -> {"none", "file", "link", "dir"}] :
     /\ \A p \in Paths : (t[p] = "link" => p = "d") /\ (t[p] = "dir" => p \in Dirs)
     /\ \A dir \in Dirs : t[dir] # "dir" => \A p \in Inside(dir) : t[p] = "none"}

VARIABLES
  checkout,  \* the working tree
  tracked,   \* the paths in git's index
  ignores,   \* the paths that a rule of git matches
  gitlink,   \* whether "d" is a submodule
  doing,     \* where the apply is
  export,    \* the tree of the box
  entries,   \* the paths to mirror
  beyond,    \* the paths of the export beyond a link of the checkout
  deletes,   \* the paths to delete
  deleted,   \* those of them that were
  rounds

rules == <<tracked, ignores, gitlink>>
plan == <<export, beyond, rounds>>
vars == <<checkout, rules, doing, export, entries, beyond, deletes, deleted, rounds>>

(* A look at a path follows the links of its directory. *)
Real(p) == IF p \in Inside("d") /\ checkout["d"] = "link" THEN IF p = "dx" THEN {"fx"} ELSE {} ELSE {p}
Lstat(p) == IF Real(p) = {} THEN "none" ELSE checkout[CHOOSE r \in Real(p) : TRUE]
Beyond(p) == \E dir \in Above(p) : checkout[dir] = "link"

Submodule(p) == gitlink /\ p \in {"d"} \cup Inside("d")
Ignored(p) == p \in ignores \ tracked
KeptAsTheyAre == tracked \cap ignores

(* VARIANT of FileView: what the rules ignore is listed too. *)
FileViewOfAll == {p \in Paths : IF p \in tracked THEN Lstat(p) # "none" ELSE checkout[p] \in Entry /\ ~Submodule(p)}

(* What git tracks, and what it does not and does not ignore, less what is not there. *)
FileView ==
  {p \in Paths : IF p \in tracked THEN Lstat(p) # "none" ELSE checkout[p] \in Entry /\ ~Ignored(p) /\ ~Submodule(p)}

(* Everything is decided before the first write, but for the paths beyond a link.  A tree with nothing to apply is refused. *)
PlanApply ==
  /\ doing = "idle" /\ rounds < MaxRounds
  /\ rounds' = rounds + 1
  /\ export' \in Trees
  /\ LET candidates == {p \in Paths : export'[p] \in Entry /\ ~Submodule(p)}
     IN /\ beyond' = {p \in candidates : Beyond(p)}
        /\ entries' = {p \in candidates \ beyond' : ~Ignored(p)}
  /\ deletes' = {p \in FileView \ (entries' \cup KeptAsTheyAre) : ~Submodule(p)}
  /\ deleted' = {}
  /\ doing' = IF entries' = {} THEN "failed" ELSE "deletes"
  /\ UNCHANGED <<checkout, rules>>

Empty(dir) == \A p \in Inside(dir) : checkout[p] = "none"
Without(t, paths) == [p \in Paths |-> IF p \in paths THEN "none" ELSE t[p]]

Deletes ==
  /\ doing = "deletes"
  /\ \E p \in deletes :
       IF Lstat(p) = "dir" /\ ~Empty(p)
       THEN doing' = "failed" /\ UNCHANGED <<checkout, deletes, deleted>>
       ELSE /\ checkout' = Without(checkout, Real(p))
            /\ deletes' = deletes \ {p} /\ deleted' = deleted \cup {p}
            /\ UNCHANGED doing
  /\ UNCHANGED <<rules, plan, entries>>

(* A directory that the deletions emptied goes, and so does a link in its place. *)
PruneEmptied ==
  /\ doing = "deletes" /\ deletes = {}
  /\ checkout' = Without(checkout, {dir \in UNION {Above(p) : p \in deleted} : checkout[dir] = "link" \/ (checkout[dir] = "dir" /\ Empty(dir))})
  /\ doing' = "judges"
  /\ UNCHANGED <<rules, plan, entries, deletes, deleted>>

(* VARIANT of JudgeBeyond: what was beyond a link is left out. *)
JudgeNone ==
  /\ doing = "judges" /\ doing' = "mirrors"
  /\ UNCHANGED <<checkout, rules, plan, entries, deletes, deleted>>

JudgeBeyond ==
  /\ doing = "judges" /\ doing' = "mirrors"
  /\ entries' = entries \cup {p \in beyond : ~Beyond(p) /\ ~Ignored(p)}
  /\ UNCHANGED <<checkout, rules, plan, deletes, deleted>>

(* What is in the way goes, a directory with all that is in it, and the directory above is made; nothing is written through a link. *)
MakeRoom(p) == [Without(checkout, {p} \cup Inside(p)) EXCEPT ![p] = export[p]]
Mirrors ==
  /\ doing = "mirrors"
  /\ \E p \in entries :
       IF checkout[p] # export[p] /\ Beyond(p)
       THEN doing' = "failed" /\ UNCHANGED <<checkout, entries>>
       ELSE /\ checkout' = IF checkout[p] = export[p] THEN checkout
                           ELSE [q \in Paths |-> IF q \in Above(p) THEN "dir" ELSE MakeRoom(p)[q]]
            /\ entries' = entries \ {p}
            /\ UNCHANGED doing
  /\ UNCHANGED <<rules, plan, deletes, deleted>>

Applied ==
  /\ doing = "mirrors" /\ entries = {}
  /\ doing' = "idle"
  /\ UNCHANGED <<checkout, rules, plan, entries, deletes, deleted>>

(* A write that fails, or a stop. *)
ApplyFails ==
  /\ doing \in {"deletes", "judges", "mirrors"} /\ doing' = "failed"
  /\ UNCHANGED <<checkout, rules, plan, entries, deletes, deleted>>

(* The run begins on a clean checkout: what is there is tracked, or ignored, or both. *)
Init ==
  /\ checkout \in Trees
  /\ ignores \in {s \in SUBSET Paths : \A dir \in Dirs \cap s : Inside(dir) \subseteq s}
  /\ gitlink \in {FALSE, checkout["d"] = "dir"}
  /\ LET there == {p \in Paths : checkout[p] \in Entry /\ ~Submodule(p)}
     IN \E more \in SUBSET (there \cap ignores) :
          tracked = (there \ ignores) \cup more \cup (IF gitlink THEN {"d"} ELSE {})
  /\ doing = "idle" /\ export = checkout
  /\ entries = {} /\ beyond = {} /\ deletes = {} /\ deleted = {} /\ rounds = 0

Next == PlanApply \/ Deletes \/ PruneEmptied \/ JudgeBeyond \/ Mirrors \/ Applied \/ ApplyFails

Spec == Init /\ [][Next]_vars

-----------------------------------------------------------------------------
(* What every variable holds. *)
TypeOK ==
  /\ checkout \in Trees /\ export \in Trees
  /\ doing \in {"idle", "deletes", "judges", "mirrors", "failed"}
  /\ entries \subseteq Paths /\ deletes \subseteq Paths /\ beyond \subseteq Paths

(* Apply: when an apply is through, the checkout is the export, less what is ignored, tracked and ignored, a submodule's *)
(* or beyond a link that the checkout keeps, whatever each path was before.                                              *)
IsTheExport ==
  doing = "idle" /\ rounds > 0 =>
    /\ \A p \in Paths : export[p] \in Entry /\ ~Ignored(p) /\ ~Submodule(p) /\ ~Beyond(p) => checkout[p] = export[p]
    /\ \A p \in FileView \ KeptAsTheyAre :
         ~Submodule(p) /\ ~Beyond(p) /\ checkout[p] # "dir" => checkout[p] = export[p]

Lost(p) == Ignored(p) /\ checkout[p] \in Entry /\ checkout'[p] # checkout[p]
Replaced(p) == \E dir \in Above(p) : export[dir] \in Entry

(* Apply: what git ignores in the checkout is not touched at any step, but for a directory that the export has a file   *)
(* or a link in place of, and what a link of the checkout leads to.                                                      *)
KeepsIgnored == [][\A p \in Paths : Lost(p) => Replaced(p) \/ checkout["d"] = "link"]_vars

(* apply_test.go:183-185: what the checkout ignores is left alone, and (apply.go) a link is never followed.  It does not *)
(* hold: in the round after one that put a link in place of a tracked directory, the files that git still tracks there   *)
(* are found through the link, and deleted through it.                                                                   *)
LinksAreNotFollowed == [][\A p \in Paths : Lost(p) => Replaced(p)]_vars
=============================================================================
