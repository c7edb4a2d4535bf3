------------------------------ MODULE InformOnce ------------------------------
(***************************************************************************)
(* What the update notices promise a publisher: "inform, not nag".  A      *)
(* ledger of what was told decides what a letter may name.  A letter names *)
(* only notices of revisions in the store that the ledger does not hold;   *)
(* it enters them; and the ledger forgets only revisions that have left    *)
(* the store.  Nothing is said here of files, scans or USN databases.      *)
(***************************************************************************)
EXTENDS Naturals

CONSTANTS
    Pkgs, Revs, Usns,
    MaxLetters      \* where the count of letters per notice saturates

Notice == Pkgs \X Revs \X Usns

VARIABLES
    listed,     \* the revisions in the store, when it was last looked at
    told,       \* the ledger
    letters     \* letters naming a notice since its revision was last listed

vars == <<listed, told, letters>>

TypeOK ==
    /\ listed \subseteq Pkgs \X Revs
    /\ told \subseteq Notice
    /\ letters \in [Notice -> Nat]

Init ==
    /\ listed = {}
    /\ told = {}
    /\ letters = [n \in Notice |-> 0]

About(n) == <<n[1], n[2]>>

(* The store is looked at; the count starts anew for what is new in it. *)
Look(L) ==
    /\ listed' = L
    /\ letters' = [n \in Notice |-> IF About(n) \in L \ listed
                                    THEN 0 ELSE letters[n]]
    /\ UNCHANGED told

(* What a letter to the publisher of p may name. *)
Tellable(p) == {n \in Notice \ told : n[1] = p /\ About(n) \in listed}

(* The publisher of p is told of N... *)
Tell(p, N) ==
    /\ told' = told \cup N
    /\ letters' = [n \in Notice |-> IF n \in N /\ letters[n] < MaxLetters
                                    THEN letters[n] + 1 ELSE letters[n]]
    /\ UNCHANGED listed

(* ...or the operator decides that the publisher is not. *)
Waive(p, N) ==
    /\ told' = told \cup N
    /\ UNCHANGED <<listed, letters>>

Forget(p) ==
    /\ told' = {n \in told : n[1] = p => About(n) \in listed}
    /\ UNCHANGED <<listed, letters>>

Next ==
    \/ \E L \in SUBSET (Pkgs \X Revs) : Look(L)
    \/ \E p \in Pkgs : \E N \in SUBSET Tellable(p) : Tell(p, N) \/ Waive(p, N)
    \/ \E p \in Pkgs : Forget(p)

Spec == Init /\ [][Next]_vars

-----------------------------------------------------------------------------
(* What was mailed about a revision since it was last listed is in the     *)
(* ledger for as long as the revision is listed. *)
LettersRecorded ==
    \A n \in Notice : About(n) \in listed /\ letters[n] > 0 => n \in told

(* No notice of a revision is named by two letters while the revision      *)
(* stays in the store: the publisher is informed, not nagged               *)
(* (bin/snap-updates-available). *)
AtMostOnce == \A n \in Notice : About(n) \in listed => letters[n] <= 1

IInv == TypeOK /\ LettersRecorded /\ AtMostOnce
=============================================================================
