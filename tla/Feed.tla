-------------------------------- MODULE Feed --------------------------------
(***************************************************************************)
(* What one who follows a job is promised: its events in order, each once, *)
(* none that is not stored, until the following ends.                      *)
(***************************************************************************)
EXTENDS Naturals

VARIABLES
  stored,     \* how many events the log of the job has
  delivered,  \* the number of the last event that was delivered
  following   \* whether the following goes on

Init == stored \in Nat /\ delivered = 0 /\ following = TRUE

Store ==
  /\ stored' \in Nat
  /\ stored' > stored
  /\ UNCHANGED <<delivered, following>>

(* The next event, and no other. *)
Deliver ==
  /\ following
  /\ delivered < stored
  /\ delivered' = delivered + 1
  /\ UNCHANGED <<stored, following>>

End == following' = FALSE /\ UNCHANGED <<stored, delivered>>

Next == Store \/ Deliver \/ End

Spec == Init /\ [][Next]_<<stored, delivered, following>>
=============================================================================
