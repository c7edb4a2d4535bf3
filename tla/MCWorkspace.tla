----------------------------- MODULE MCWorkspace ------------------------------
(***************************************************************************)
(* An instance of the temporary directories for TLC.                       *)
(***************************************************************************)
EXTENDS WorkspaceProps, TLC

CONSTANTS a, b, d1, d2

(* Reviews, and tools of any kind beside them. *)
ReviewAndAny == a :> {"review"} @@ b :> Tool

(* The names are interchangeable: what holds of one holds of all, and needs *)
(* fairness to that one only.  Where SNAP_USER_COMMON is set and no review *)
(* is run nobody sweeps what is left there. *)
OneIsSwept == ~userCommon => LeftIsSwept(d1)

FairToOne == Spec /\ Fairness({d1})
=============================================================================
