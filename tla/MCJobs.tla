------------------------------- MODULE MCJobs -------------------------------
(* Small instances of Jobs for TLC. *)
EXTENDS Jobs, TLC

CONSTANTS j1, j2, w1, w2, t1

\* The jobs of one workspace, or of two.
OneWorkspace  == [j \in Job |-> w1]
TwoWorkspaces == [j \in Job |-> IF j = j1 THEN w1 ELSE w2]
\* Jobs about one issue, or the second about a text.
OneTopic   == [j \in Job |-> t1]
TextSecond == [j \in Job |-> IF j = j1 THEN t1 ELSE NoTopic]
\* Two jobs of one workspace about one issue differ in nothing.
Twins == Permutations({j1, j2})
=============================================================================
