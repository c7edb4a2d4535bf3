--------------------------- MODULE InformOnceProofs ---------------------------
(***************************************************************************)
(* The promise of the update notices holds of the abstract ledger, for     *)
(* every set of packages, revisions and USNs.                              *)
(***************************************************************************)
EXTENDS InformOnce, TLAPS

(* Looking at the store resets exactly the counts of what is new in it. *)
LEMMA LookStep ==
  ASSUME IInv, NEW L \in SUBSET (Pkgs \X Revs), Look(L)
  PROVE  IInv'
  <1>1. TypeOK'
    BY DEF IInv, TypeOK, Look
  <1>2. ASSUME NEW n \in Notice, About(n) \in L
        PROVE  /\ letters'[n] > 0 => n \in told'
               /\ letters'[n] <= 1
    <2>1. CASE About(n) \in listed
      BY <1>2, <2>1 DEF IInv, TypeOK, LettersRecorded, AtMostOnce, Look
    <2>2. CASE About(n) \notin listed
      BY <1>2, <2>2 DEF Look
    <2> QED
      BY <2>1, <2>2
  <1> QED
    BY <1>1, <1>2 DEF IInv, LettersRecorded, AtMostOnce, Look, About

(* A letter names only what the ledger does not hold, so nothing is named  *)
(* twice. *)
LEMMA TellStep ==
  ASSUME IInv, NEW p \in Pkgs, NEW N \in SUBSET Tellable(p), Tell(p, N)
  PROVE  IInv'
  <1>1. TypeOK'
    BY DEF IInv, TypeOK, Tell, Tellable
  <1>2. ASSUME NEW n \in Notice, About(n) \in listed
        PROVE  /\ letters'[n] > 0 => n \in told'
               /\ letters'[n] <= 1
    <2>1. CASE n \in N
      <3>1. n \notin told
        BY <2>1 DEF Tellable
      <3>2. letters[n] = 0
        BY <1>2, <3>1 DEF IInv, TypeOK, LettersRecorded
      <3> QED
        BY <2>1, <3>2 DEF Tell
    <2>2. CASE n \notin N
      BY <1>2, <2>2 DEF IInv, LettersRecorded, AtMostOnce, Tell
    <2> QED
      BY <2>1, <2>2
  <1> QED
    BY <1>1, <1>2 DEF IInv, LettersRecorded, AtMostOnce, Tell, About

(* The ledger and the counts agree after every step. *)
LEMMA LedgerStep == IInv /\ [Next]_vars => IInv'
  <1> SUFFICES ASSUME IInv, [Next]_vars PROVE IInv'
    OBVIOUS
  <1>1. ASSUME NEW p \in Pkgs, NEW N \in SUBSET Tellable(p), Waive(p, N)
        PROVE  IInv'
    BY <1>1 DEF IInv, TypeOK, LettersRecorded, AtMostOnce, Waive, Tellable, About
  <1>2. ASSUME NEW p \in Pkgs, Forget(p) PROVE IInv'
    BY <1>2 DEF IInv, TypeOK, LettersRecorded, AtMostOnce, Forget, About
  <1>3. CASE UNCHANGED vars
    BY <1>3 DEF vars, IInv, TypeOK, LettersRecorded, AtMostOnce, About
  <1> QED
    BY <1>1, <1>2, <1>3, LookStep, TellStep DEF Next

(* Informed, not nagged: no two letters name the same notice of a revision *)
(* while the revision stays in the store. *)
THEOREM InformedOnce == Spec => []AtMostOnce
  <1>1. Init => IInv
    BY DEF Init, IInv, TypeOK, LettersRecorded, AtMostOnce
  <1>2. IInv => AtMostOnce
    BY DEF IInv
  <1> QED
    BY <1>1, <1>2, LedgerStep, PTL DEF Spec
=============================================================================
