------------------------------ MODULE PasteLife ------------------------------
(***************************************************************************)
(* What CasPaste promises about the life of a paste, with no requests,     *)
(* databases or faults: an id is published at most once; a live paste is   *)
(* either withdrawn (expired, deleted) or claimed by one reader; the       *)
(* reader that claimed a one-use paste opens it at most once, and a claim  *)
(* whose answer never goes out is lost, never handed to anybody else.      *)
(***************************************************************************)
CONSTANT Id

VARIABLE phase

Phase == {"unborn", "live", "claimed", "opened", "gone"}

Init == phase = [id \in Id |-> "unborn"]

Move(S, from, to) ==
  /\ \A id \in S : phase[id] = from
  /\ phase' = [id \in Id |-> IF id \in S THEN to ELSE phase[id]]

Publish(id) == Move({id}, "unborn", "live")
Claim(id)   == Move({id}, "live", "claimed")
Open(id)    == Move({id}, "claimed", "opened")

\* A purge withdraws many pastes at once, a crash loses many claims at once.
Withdraw == \E S \in SUBSET Id : Move(S, "live", "gone")
Lose     == \E S \in SUBSET Id : Move(S, "claimed", "gone")

Next ==
  \/ \E id \in Id : Publish(id) \/ Claim(id) \/ Open(id)
  \/ Withdraw
  \/ Lose

Spec == Init /\ [][Next]_phase
=============================================================================
