--------------------------- MODULE NoticeScanProofs ---------------------------
(***************************************************************************)
(* What holds of the notice scan for every set of packages, revisions,     *)
(* USNs and scanners, and every interleaving, crash and reply of the mail  *)
(* server.                                                                 *)
(***************************************************************************)
EXTENDS NoticeScanProps, TLAPS

(* The scan stops where it is: no item is left, or one cannot be loaded. *)
Ends(s) == Finish(s) \/ \E p \in Pkgs : LoadRaises(s, p)

(* A report consists of notices. *)
LEMMA ReportType ==
    \A d, u : Report(d, u) \subseteq Notice
  BY NoticeScanAssumption DEF Report

(* The letter about p names notices of its report only. *)
LEMMA FreshType ==
    \A s, p : /\ Fresh(s, p) \subseteq Of(p, Report(dump[s], usn[s]))
              /\ Of(p, Report(dump[s], usn[s])) \subseteq Fresh(s, p) \cup mem[s]
              /\ Fresh(s, p) \subseteq Notice
  BY ReportType DEF Fresh, Of

(* What _update_seen leaves in seen_db was there or is in the report. *)
LEMMA RecordedFrom ==
    \A s, p : Recorded(s, p) \subseteq mem[s] \cup Of(p, Report(dump[s], usn[s]))
  BY DEF Recorded

LEMMA OfType == \A p, N : Of(p, N) \subseteq N
  BY DEF Of

(* Delivering a letter keeps the counts of letters within their bound. *)
LEMMA DeliverType ==
  ASSUME TypeOK, NEW N \in SUBSET Notice, Deliver(N)
  PROVE  /\ letters' \in [Notice -> 0..MaxLetters]
         /\ sent' \subseteq Notice
  BY NoticeScanAssumption DEF TypeOK, Deliver

(* A process that ends leaves well-typed variables behind. *)
LEMMA ExitType ==
  ASSUME TypeOK, NEW s \in Scanners, Exit(s)
  PROVE  /\ pc' \in [Scanners -> Location]
         /\ scope' \in [Scanners -> SUBSET Pkgs]
         /\ dump' \in [Scanners -> [Listing -> Quality]]
         /\ usn' \in [Scanners -> SUBSET Usns]
         /\ mem' \in [Scanners -> SUBSET Notice]
         /\ todo' \in [Scanners -> SUBSET Pkgs]
         /\ cur' \in [Scanners -> SUBSET Pkgs]
         /\ errs' \in [Scanners -> SUBSET Pkgs]
  <1>1. Nothing \in [Listing -> Quality]
    BY DEF Nothing, Quality
  <1> QED
    BY <1>1 DEF TypeOK, Exit, Location

LEMMA ErrorsType ==
  ASSUME TypeOK, NEW s \in Scanners, NEW p \in Pkgs
  PROVE  ErrorsWith(s, p) \subseteq Pkgs
  BY DEF TypeOK, ErrorsWith

(* The types, kept by every step. *)
LEMMA TypeStep == TypeOK /\ [Next]_vars => TypeOK'
  <1> SUFFICES ASSUME TypeOK, [Next]_vars PROVE TypeOK'
    OBVIOUS
  <1> USE NoticeScanAssumption
  <1>1. ASSUME NEW u \in Usns, PublishUsn(u) PROVE TypeOK'
    BY <1>1 DEF TypeOK, PublishUsn, seenVars, scanVars, history
  <1>2. ASSUME NEW p \in Pkgs, NEW r \in Revs, NEW q \in Offered,
               ChangeStore(p, r, q)
        PROVE  TypeOK'
    BY <1>2 DEF TypeOK, ChangeStore, seenVars, scanVars, history, Listing
  <1>3. ASSUME NEW s \in Scanners, NEW sc \in Scopes, Start(s, sc)
        PROVE  TypeOK'
    <2>1. sc \subseteq Pkgs
      OBVIOUS
    <2>2. listed' \subseteq Listing
      BY <1>3 DEF TypeOK, Start, Relisted, Usable
    <2>3. letters' \in [Notice -> 0..MaxLetters]
      BY <1>3 DEF TypeOK, Start
    <2> QED
      BY <1>3, <2>1, <2>2, <2>3 DEF TypeOK, Start, seenVars, Location
  <1>4. ASSUME NEW s \in Scanners, LoadSeen(s) PROVE TypeOK'
    BY <1>4 DEF TypeOK, LoadSeen, scanVars, history, Location
  <1>5. ASSUME NEW s \in Scanners, MissSeen(s) PROVE TypeOK'
    BY <1>5 DEF TypeOK, MissSeen, seenVars, scanVars, history, Location
  <1>6. ASSUME NEW s \in Scanners, CreateSeen(s) PROVE TypeOK'
    BY <1>6 DEF TypeOK, CreateSeen, Whole, FileState, scanVars, history, Location
  <1>7. ASSUME NEW s \in Scanners, RefuseSeen(s) PROVE TypeOK'
    BY <1>7, ExitType DEF TypeOK, RefuseSeen, history
  <1>8. ASSUME NEW s \in Scanners, NEW p \in Pkgs, SkipItem(s, p)
        PROVE  TypeOK'
    BY <1>8, ErrorsType DEF TypeOK, SkipItem, seenVars, scanVars, history
  <1>9. ASSUME NEW s \in Scanners, NEW p \in Pkgs, Reported(s, p)
        PROVE  /\ pc' \in [Scanners -> Location]
               /\ cur' \in [Scanners -> SUBSET Pkgs]
               /\ errs' \in [Scanners -> SUBSET Pkgs]
               /\ UNCHANGED <<store, usnDb, seenVars, scanVars, todo, listed,
                              changes, faults>>
    BY <1>9, ErrorsType DEF TypeOK, Reported, Location
  <1>10. ASSUME NEW s \in Scanners, NEW p \in Pkgs, NothingNew(s, p)
         PROVE  TypeOK'
    BY <1>10, <1>9 DEF TypeOK, NothingNew, seenVars, scanVars, history
  <1>11. ASSUME NEW s \in Scanners, NEW p \in Pkgs, Send(s, p)
         PROVE  TypeOK'
    BY <1>11, <1>9, FreshType, DeliverType
       DEF TypeOK, Send, seenVars, scanVars
  <1>12. ASSUME NEW s \in Scanners, NEW p \in Pkgs, SendDeclined(s, p)
         PROVE  TypeOK'
    BY <1>12, <1>9, FreshType
       DEF TypeOK, SendDeclined, seenVars, scanVars
  <1>13. ASSUME NEW s \in Scanners, NEW p \in Pkgs, SendRaised(s, p)
         PROVE  TypeOK'
    BY <1>13 DEF TypeOK, SendRaised, GiveUp, seenVars, scanVars
  <1>14. ASSUME NEW s \in Scanners, NEW p \in Pkgs, SendRaisedLate(s, p)
         PROVE  TypeOK'
    <2>1. letters' \in [Notice -> 0..MaxLetters] /\ sent' \subseteq Notice
      BY <1>14, FreshType, DeliverType DEF SendRaisedLate
    <2> QED
      BY <1>14, <2>1 DEF TypeOK, SendRaisedLate, GiveUp, seenVars, scanVars
  <1>15. ASSUME NEW s \in Scanners, NoRecord(s) PROVE TypeOK'
    BY <1>15 DEF TypeOK, NoRecord, seenVars, scanVars, history, Location
  <1>16. ASSUME NEW s \in Scanners, NEW p \in Pkgs
         PROVE  Recorded(s, p) \subseteq Notice
    BY ReportType, OfType, RecordedFrom DEF TypeOK
  <1>17. ASSUME NEW s \in Scanners, UpdateSeen(s) PROVE TypeOK'
    <2>1. PICK p \in cur[s] :
             /\ mem' = [mem EXCEPT ![s] = Recorded(s, p)]
             /\ file' = Whole(Recorded(s, p))
             /\ todo' = [todo EXCEPT ![s] = @ \ {p}]
      BY <1>17 DEF UpdateSeen
    <2>2. p \in Pkgs
      BY DEF TypeOK
    <2> QED
      BY <1>17, <1>16, <2>1, <2>2
         DEF TypeOK, UpdateSeen, Whole, FileState, scanVars, history, Location
  <1>18. ASSUME NEW s \in Scanners, CopySeen(s) PROVE TypeOK'
    <2>1. PICK p \in cur[s] :
             /\ mem' = [mem EXCEPT ![s] = Recorded(s, p)]
             /\ todo' = [todo EXCEPT ![s] = @ \ {p}]
      BY <1>18 DEF CopySeen
    <2>2. p \in Pkgs
      BY DEF TypeOK
    <2> QED
      BY <1>18, <1>16, <2>1, <2>2
         DEF TypeOK, CopySeen, Torn, FileState, scanVars, history, Location
  <1>19. ASSUME NEW s \in Scanners, EndCopy(s) PROVE TypeOK'
    BY <1>19
       DEF TypeOK, EndCopy, Whole, Torn, FileState, scanVars, history, Location
  <1>20. ASSUME NEW s \in Scanners, Ends(s) PROVE TypeOK'
    BY <1>20, ExitType DEF TypeOK, Ends, Finish, LoadRaises, history
  <1>21. ASSUME NEW s \in Scanners, Crash(s) PROVE TypeOK'
    BY <1>21, ExitType DEF TypeOK, Crash, history
  <1>22. CASE UNCHANGED vars
    BY <1>22 DEF TypeOK, vars
  <1> QED
    BY <1>1, <1>2, <1>3, <1>4, <1>5, <1>6, <1>7, <1>8, <1>10, <1>11, <1>12,
       <1>13, <1>14, <1>15, <1>17, <1>18, <1>19, <1>20, <1>21, <1>22
       DEF Next, Environment, Proceed, Ends, Fault, OpenSeen, VisitItem, Record

(* The types of the notice scan's variables hold in every behaviour. *)
THEOREM TypeCorrect == Spec => []TypeOK
  <1>1. Init => TypeOK
    BY NoticeScanAssumption
       DEF Init, TypeOK, Nothing, Quality, FileState, Location
  <1> QED
    BY <1>1, TypeStep, PTL DEF Spec

-----------------------------------------------------------------------------
(* Reported once, reported for ever: history only grows. *)
LEMMA HistoryGrows ==
  ASSUME [Next]_vars
  PROVE  sent \cup waived \subseteq sent' \cup waived'
  <1>1. ASSUME UNCHANGED history PROVE sent \cup waived \subseteq sent' \cup waived'
    BY <1>1 DEF history
  <1>2. CASE Environment
    BY <1>1, <1>2 DEF Environment, PublishUsn, ChangeStore
  <1>3. ASSUME NEW s \in Scanners, NEW sc \in Scopes, Start(s, sc)
        PROVE  sent \cup waived \subseteq sent' \cup waived'
    BY <1>3 DEF Start
  <1>4. ASSUME NEW s \in Scanners,
               OpenSeen(s) \/ Record(s) \/ Ends(s) \/ Crash(s)
        PROVE  sent \cup waived \subseteq sent' \cup waived'
    BY <1>1, <1>4 DEF OpenSeen, LoadSeen, MissSeen, CreateSeen, RefuseSeen,
                      Record, NoRecord, UpdateSeen, CopySeen, EndCopy, Ends,
                      Finish, LoadRaises, Crash
  <1>5. ASSUME NEW s \in Scanners, VisitItem(s)
        PROVE  sent \cup waived \subseteq sent' \cup waived'
    BY <1>1, <1>5 DEF VisitItem, SkipItem, NothingNew, Visits, Send,
                      SendDeclined, Deliver
  <1>6. ASSUME NEW s \in Scanners, NEW p \in Pkgs,
               SendRaised(s, p) \/ SendRaisedLate(s, p)
        PROVE  sent \cup waived \subseteq sent' \cup waived'
    BY <1>6 DEF SendRaised, SendRaisedLate, GiveUp, Deliver
  <1>7. CASE UNCHANGED vars
    BY <1>7 DEF vars
  <1> QED
    BY <1>2, <1>3, <1>4, <1>5, <1>6, <1>7 DEF Next, Proceed, Ends, Fault

(* The invariant is inductive only together with what is known of a report *)
(* between its letter and its entry in the record. *)
Inv == TypeOK /\ RecordedWasReported /\ PendingWasReported

(* A scanner is between letter and entry about packages whose report is    *)
(* accounted for: kept when the scanner does not move to "update". *)
LEMMA PendingKept ==
  ASSUME PendingWasReported, sent \cup waived \subseteq sent' \cup waived',
         NEW s \in Scanners, TypeOK,
         UNCHANGED <<dump, usn>> \/ pc'[s] # "update",
         pc'[s] = "update" => pc[s] = "update" /\ cur'[s] = cur[s],
         \A t \in Scanners \ {s} :
            /\ pc'[t] = pc[t]
            /\ cur'[t] = cur[t]
            /\ dump'[t] = dump[t]
            /\ usn'[t] = usn[t]
  PROVE  PendingWasReported'
  <1> SUFFICES ASSUME NEW t \in Scanners, pc'[t] = "update", NEW p \in cur'[t]
               PROVE  Of(p, Report(dump'[t], usn'[t])) \subseteq sent' \cup waived'
    BY DEF PendingWasReported
  <1>1. /\ pc[t] = "update"
        /\ p \in cur[t]
        /\ dump'[t] = dump[t]
        /\ usn'[t] = usn[t]
    OBVIOUS
  <1>2. Of(p, Report(dump[t], usn[t])) \subseteq sent \cup waived
    BY <1>1 DEF PendingWasReported
  <1> QED
    BY <1>1, <1>2

(* The record and its copies in memory only take in what was reported. *)
LEMMA RecordStep ==
  ASSUME Inv, [Next]_vars
  PROVE  RecordedWasReported'
  <1> USE DEF Inv
  <1>0. sent \cup waived \subseteq sent' \cup waived'
    BY HistoryGrows
  <1>1. ASSUME UNCHANGED <<file, mem>> PROVE RecordedWasReported'
    BY <1>0, <1>1 DEF RecordedWasReported
  <1>2. ASSUME NEW s \in Scanners, Exit(s), UNCHANGED file
        PROVE  RecordedWasReported'
    BY <1>0, <1>2 DEF RecordedWasReported, Exit, TypeOK
  <1>3. ASSUME NEW s \in Scanners, LoadSeen(s) PROVE RecordedWasReported'
    BY <1>0, <1>3 DEF RecordedWasReported, LoadSeen, TypeOK
  <1>4. ASSUME NEW s \in Scanners, CreateSeen(s) PROVE RecordedWasReported'
    BY <1>0, <1>4 DEF RecordedWasReported, CreateSeen, Whole, TypeOK
  <1>5. ASSUME NEW s \in Scanners, pc[s] = "update", NEW p \in cur[s]
        PROVE  Recorded(s, p) \subseteq sent \cup waived
    BY <1>5, RecordedFrom DEF RecordedWasReported, PendingWasReported
  <1>6. ASSUME NEW s \in Scanners, UpdateSeen(s) PROVE RecordedWasReported'
    <2>1. PICK p \in cur[s] :
             /\ mem' = [mem EXCEPT ![s] = Recorded(s, p)]
             /\ file' = Whole(Recorded(s, p))
      BY <1>6 DEF UpdateSeen
    <2>2. Recorded(s, p) \subseteq sent \cup waived
      BY <1>5, <1>6 DEF UpdateSeen
    <2> QED
      BY <1>0, <2>1, <2>2 DEF RecordedWasReported, Whole, TypeOK
  <1>7. ASSUME NEW s \in Scanners, CopySeen(s) PROVE RecordedWasReported'
    <2>1. PICK p \in cur[s] : mem' = [mem EXCEPT ![s] = Recorded(s, p)]
      BY <1>7 DEF CopySeen
    <2>2. Recorded(s, p) \subseteq sent \cup waived
      BY <1>5, <1>7 DEF CopySeen
    <2>3. file' = Torn
      BY <1>7 DEF CopySeen
    <2> QED
      BY <1>0, <2>1, <2>2, <2>3 DEF RecordedWasReported, Torn, TypeOK
  <1>8. ASSUME NEW s \in Scanners, EndCopy(s) PROVE RecordedWasReported'
    BY <1>0, <1>8 DEF RecordedWasReported, EndCopy, Whole, Torn, TypeOK
  <1>9. CASE UNCHANGED vars
    BY <1>1, <1>9 DEF vars
  <1>10. CASE Environment
    BY <1>1, <1>10 DEF Environment, PublishUsn, ChangeStore, seenVars
  <1>11. ASSUME NEW s \in Scanners, NEW sc \in Scopes, Start(s, sc)
         PROVE  RecordedWasReported'
    BY <1>1, <1>11 DEF Start, seenVars
  <1>12. ASSUME NEW s \in Scanners, VisitItem(s) PROVE RecordedWasReported'
    BY <1>1, <1>12 DEF VisitItem, SkipItem, NothingNew, Visits, Send,
                       SendDeclined,
                       Reported, seenVars
  <1>13. ASSUME NEW s \in Scanners, Fault(s) PROVE RecordedWasReported'
    BY <1>1, <1>2, <1>13 DEF Fault, Crash, SendRaised, SendRaisedLate, GiveUp,
                             seenVars
  <1>14. ASSUME NEW s \in Scanners, OpenSeen(s) PROVE RecordedWasReported'
    BY <1>1, <1>2, <1>3, <1>4, <1>14 DEF OpenSeen, MissSeen, RefuseSeen, seenVars
  <1>15. ASSUME NEW s \in Scanners, Record(s) PROVE RecordedWasReported'
    BY <1>1, <1>6, <1>7, <1>8, <1>15 DEF Record, NoRecord, seenVars
  <1>16. ASSUME NEW s \in Scanners, Ends(s) PROVE RecordedWasReported'
    BY <1>2, <1>16 DEF Ends, Finish, LoadRaises
  <1> QED
    BY <1>9, <1>10, <1>11, <1>12, <1>13, <1>14, <1>15, <1>16
       DEF Next, Proceed, Ends

(* A report whose letter went out, or was declined, stays accounted for    *)
(* until it is recorded. *)
LEMMA PendingStep ==
  ASSUME Inv, [Next]_vars
  PROVE  PendingWasReported'
  <1> USE DEF Inv
  <1>0. sent \cup waived \subseteq sent' \cup waived'
    BY HistoryGrows
  <1>1. ASSUME UNCHANGED <<pc, cur, dump, usn>> PROVE PendingWasReported'
    BY <1>0, <1>1 DEF PendingWasReported
  <1>2. ASSUME NEW s \in Scanners, Exit(s) PROVE PendingWasReported'
    <2>1. pc'[s] = "idle"
      BY <1>2 DEF Exit, TypeOK
    <2> QED
      BY <1>0, <1>2, <2>1, PendingKept DEF Exit, TypeOK
  <1>3. ASSUME NEW s \in Scanners, pc'[s] # "update",
               \E l \in Location : pc' = [pc EXCEPT ![s] = l],
               UNCHANGED cur \/ cur' = [cur EXCEPT ![s] = {}],
               UNCHANGED <<dump, usn>>
        PROVE  PendingWasReported'
    BY <1>0, <1>3, PendingKept DEF TypeOK
  <1>4. ASSUME NEW s \in Scanners, NEW p \in Pkgs, Reported(s, p),
               Fresh(s, p) \subseteq sent' \cup waived'
        PROVE  PendingWasReported'
    <2> SUFFICES ASSUME NEW t \in Scanners, pc'[t] = "update", NEW q \in cur'[t]
                 PROVE  Of(q, Report(dump'[t], usn'[t])) \subseteq sent' \cup waived'
      BY DEF PendingWasReported
    <2>1. dump' = dump /\ usn' = usn
      BY <1>4 DEF Reported, scanVars
    <2>2. CASE t = s
      <3>1. q = p
        BY <1>4, <2>2 DEF Reported, TypeOK
      <3>2. Of(p, Report(dump[s], usn[s])) \subseteq Fresh(s, p) \cup mem[s]
        BY FreshType
      <3> QED
        BY <1>0, <1>4, <2>1, <2>2, <3>1, <3>2 DEF RecordedWasReported
    <2>3. CASE t # s
      <3>1. pc[t] = "update" /\ q \in cur[t]
        BY <1>4, <2>3 DEF Reported, TypeOK
      <3> QED
        BY <1>0, <2>1, <3>1 DEF PendingWasReported
    <2> QED
      BY <2>2, <2>3
  <1>5. CASE UNCHANGED vars
    BY <1>1, <1>5 DEF vars
  <1>6. CASE Environment
    BY <1>1, <1>6 DEF Environment, PublishUsn, ChangeStore, scanVars
  <1>7. ASSUME NEW s \in Scanners, NEW sc \in Scopes, Start(s, sc)
        PROVE  PendingWasReported'
    <2>1. pc'[s] = "open_seen"
      BY <1>7 DEF Start, TypeOK
    <2> QED
      BY <1>0, <1>7, <2>1, PendingKept DEF Start, TypeOK
  <1>8. ASSUME NEW s \in Scanners, VisitItem(s) PROVE PendingWasReported'
    <2>1. ASSUME NEW p \in Pkgs, SkipItem(s, p) PROVE PendingWasReported'
      BY <1>1, <2>1 DEF SkipItem, scanVars
    <2>2. ASSUME NEW p \in Pkgs, NothingNew(s, p) PROVE PendingWasReported'
      BY <1>4, <2>2 DEF NothingNew
    <2>3. ASSUME NEW p \in Pkgs, Send(s, p) PROVE PendingWasReported'
      BY <1>4, <2>3 DEF Send, Deliver
    <2>4. ASSUME NEW p \in Pkgs, SendDeclined(s, p) PROVE PendingWasReported'
      BY <1>4, <2>4 DEF SendDeclined
    <2> QED
      BY <1>8, <2>1, <2>2, <2>3, <2>4 DEF VisitItem
  <1>9. ASSUME NEW s \in Scanners, Fault(s) PROVE PendingWasReported'
    BY <1>1, <1>2, <1>9 DEF Fault, Crash, SendRaised, SendRaisedLate, GiveUp,
                            scanVars
  <1>10. ASSUME NEW s \in Scanners, OpenSeen(s) PROVE PendingWasReported'
    <2>1. CASE LoadSeen(s) \/ MissSeen(s) \/ CreateSeen(s)
      <3>1. pc'[s] # "update"
        BY <2>1 DEF LoadSeen, MissSeen, CreateSeen, TypeOK
      <3> QED
        BY <1>3, <2>1, <3>1
           DEF LoadSeen, MissSeen, CreateSeen, scanVars, Location
    <2>2. CASE RefuseSeen(s)
      BY <1>2, <2>2 DEF RefuseSeen
    <2> QED
      BY <1>10, <2>1, <2>2 DEF OpenSeen
  <1>11. ASSUME NEW s \in Scanners, Record(s) PROVE PendingWasReported'
    <2>1. pc'[s] # "update"
      BY <1>11 DEF Record, NoRecord, UpdateSeen, CopySeen, EndCopy, TypeOK
    <2> QED
      BY <1>3, <1>11, <2>1
         DEF Record, NoRecord, UpdateSeen, CopySeen, EndCopy, scanVars, Location
  <1>12. ASSUME NEW s \in Scanners, Ends(s) PROVE PendingWasReported'
    BY <1>2, <1>12 DEF Ends, Finish, LoadRaises
  <1> QED
    BY <1>5, <1>6, <1>7, <1>8, <1>9, <1>10, <1>11, <1>12 DEF Next, Proceed, Ends

LEMMA InvHolds == Spec => []Inv
  <1>1. Init => Inv
    BY NoticeScanAssumption
       DEF Init, Inv, TypeOK, Nothing, Quality, FileState, Location,
           RecordedWasReported, PendingWasReported
  <1>2. Inv /\ [Next]_vars => Inv'
    BY TypeStep, RecordStep, PendingStep DEF Inv
  <1> QED
    BY <1>1, <1>2, PTL DEF Spec

(* At-least-once: a notice enters the record only after a letter named it  *)
(* or send declined that letter, for any number of overlapping scans and   *)
(* any crashes. *)
THEOREM NothingLost == Spec => []RecordedWasReported
  <1>1. Inv => RecordedWasReported
    BY DEF Inv
  <1> QED
    BY <1>1, InvHolds, PTL

-----------------------------------------------------------------------------
(* A scanner that runs alone, with --seen-db.                              *)
Alone(a) ==
    /\ Scanners = {a}
    /\ Recorders = Scanners

(* Such a scanner's copy of the record is the record, and what it takes    *)
(* for usable is what was listed when it started. *)
AloneInv(a) ==
    /\ TypeOK
    /\ file.state # "whole" => file.rows = {}
    /\ SameFs => file.state # "torn" /\ pc[a] # "copying"
    /\ file.state = "torn" => pc[a] \in {"idle", "open_seen", "copying"}
    /\ pc[a] = "create_seen" => file.state = "absent"
    /\ pc[a] \in {"items", "update"} => mem[a] = file.rows
    /\ pc[a] = "update" => \E p \in todo[a] : cur[a] = {p}
    /\ pc[a] # "update" => cur[a] = {}
    /\ todo[a] \subseteq scope[a]
    /\ pc[a] # "idle" =>
         \A l \in Listing : l[1] \in scope[a] =>
            (l \in Usable(dump[a]) <=> l \in listed)

(* No step of a scanner that runs alone breaks this, not even its end.     *)
LEMMA AloneStep ==
  ASSUME NEW a, Alone(a), AloneInv(a), [Next]_vars
  PROVE  AloneInv(a)'
  <1> USE DEF Alone, AloneInv
  <1>0. TypeOK'
    BY TypeStep
  <1> USE <1>0
  <1>1. ASSUME UNCHANGED <<pc, file, mem, cur, todo, scope, dump, listed>>
        PROVE  AloneInv(a)'
    BY <1>1 DEF Usable
  <1>2. CASE Environment
    BY <1>1, <1>2 DEF Environment, PublishUsn, ChangeStore, seenVars, scanVars
  <1>3. ASSUME NEW sc \in Scopes, Start(a, sc) PROVE AloneInv(a)'
    <2>1. \A l \in Listing : l[1] \in scope'[a] =>
             (l \in Usable(dump'[a]) <=> l \in listed')
      BY <1>3 DEF Start, TypeOK, Relisted, Usable
    <2> QED
      BY <1>3, <2>1 DEF Start, TypeOK, seenVars, Usable
  <1>4. ASSUME Exit(a), UNCHANGED file PROVE AloneInv(a)'
    BY <1>4 DEF Exit, TypeOK
  <1>5. ASSUME OpenSeen(a) PROVE AloneInv(a)'
    <2>1. CASE LoadSeen(a)
      BY <2>1 DEF LoadSeen, TypeOK, scanVars, Usable
    <2>2. CASE MissSeen(a)
      BY <2>2 DEF MissSeen, TypeOK, seenVars, scanVars, Usable
    <2>3. CASE CreateSeen(a)
      BY <2>3 DEF CreateSeen, Whole, TypeOK, scanVars, Usable
    <2>4. CASE RefuseSeen(a)
      BY <1>4, <2>4 DEF RefuseSeen
    <2> QED
      BY <1>5, <2>1, <2>2, <2>3, <2>4 DEF OpenSeen
  <1>6. ASSUME NEW p \in Pkgs, p \in todo[a], pc[a] = "items", Reported(a, p)
        PROVE  AloneInv(a)'
    BY <1>6 DEF Reported, TypeOK, seenVars, scanVars, Usable
  <1>7. ASSUME VisitItem(a) PROVE AloneInv(a)'
    BY <1>6, <1>7 DEF VisitItem, SkipItem, NothingNew, Visits, Send,
                      SendDeclined, WritesTo, TypeOK, seenVars, scanVars, Usable
  <1>8. ASSUME Record(a) PROVE AloneInv(a)'
    <2>1. CASE UpdateSeen(a)
      <3>1. PICK p \in cur[a] :
               /\ mem' = [mem EXCEPT ![a] = Recorded(a, p)]
               /\ file' = Whole(Recorded(a, p))
               /\ todo' = [todo EXCEPT ![a] = @ \ {p}]
        BY <2>1 DEF UpdateSeen
      <3> QED
        BY <2>1, <3>1 DEF UpdateSeen, Whole, TypeOK, scanVars, Usable
    <2>2. CASE CopySeen(a)
      <3>1. PICK p \in cur[a] :
               /\ mem' = [mem EXCEPT ![a] = Recorded(a, p)]
               /\ todo' = [todo EXCEPT ![a] = @ \ {p}]
        BY <2>2 DEF CopySeen
      <3> QED
        BY <2>2, <3>1 DEF CopySeen, Torn, TypeOK, scanVars, Usable
    <2>3. CASE EndCopy(a)
      BY <2>3 DEF EndCopy, Whole, TypeOK, scanVars, Usable
    <2> QED
      BY <1>8, <2>1, <2>2, <2>3 DEF Record, NoRecord
  <1>9. ASSUME Fault(a) PROVE AloneInv(a)'
    <2>1. CASE Crash(a)
      BY <1>4, <2>1 DEF Crash
    <2>2. ASSUME NEW p \in Pkgs, SendRaised(a, p) \/ SendRaisedLate(a, p)
          PROVE  AloneInv(a)'
      BY <2>2 DEF SendRaised, SendRaisedLate, GiveUp, WritesTo, Visits, TypeOK,
                  seenVars, scanVars, Usable
    <2> QED
      BY <1>9, <2>1, <2>2 DEF Fault
  <1>10. CASE UNCHANGED vars
    BY <1>1, <1>10 DEF vars
  <1>11. ASSUME Ends(a) PROVE AloneInv(a)'
    BY <1>4, <1>11 DEF Ends, Finish, LoadRaises
  <1> QED
    BY <1>2, <1>3, <1>5, <1>7, <1>8, <1>9, <1>10, <1>11 DEF Next, Proceed, Ends

LEMMA AloneInit == ASSUME NEW a, Alone(a), Init PROVE AloneInv(a)
  BY NoticeScanAssumption
     DEF Init, Alone, AloneInv, TypeOK, Nothing, Quality, FileState,
         Location, Usable

(* Only the end of an item, or of a copy, changes what is on disk.         *)
LEMMA FileChanges ==
  ASSUME NEW a, Alone(a), AloneInv(a), [Next]_vars, file'.rows # file.rows
  PROVE  UpdateSeen(a) \/ CopySeen(a) \/ EndCopy(a)
  <1> USE DEF Alone, AloneInv
  <1>1. ~Environment
    BY DEF Environment, PublishUsn, ChangeStore, seenVars
  <1>2. \A sc \in Scopes : ~Start(a, sc)
    BY DEF Start, seenVars
  <1>3. ~OpenSeen(a)
    <2>1. CreateSeen(a) => file'.rows = {} /\ file.rows = {}
      BY DEF CreateSeen, Whole
    <2> QED
      BY <2>1 DEF OpenSeen, LoadSeen, MissSeen, RefuseSeen, seenVars
  <1>4. ~VisitItem(a)
    BY DEF VisitItem, SkipItem, NothingNew, Visits, Send, SendDeclined,
           Reported, seenVars
  <1>5. ~Fault(a) /\ ~Ends(a) /\ ~NoRecord(a)
    BY DEF Fault, Crash, SendRaised, SendRaisedLate, GiveUp, Ends, Finish,
           LoadRaises, NoRecord,
           seenVars
  <1>6. vars' # vars
    BY DEF vars
  <1> QED
    BY <1>1, <1>2, <1>3, <1>4, <1>5, <1>6 DEF Next, Proceed, Ends, Record

(* What the step that records the report of p writes.                      *)
LEMMA UpdateWrites ==
  ASSUME NEW a, Alone(a), AloneInv(a), UpdateSeen(a)
  PROVE  \E p \in todo[a] :
            /\ p \in scope[a]
            /\ p \in Pkgs
            /\ cur[a] = {p}
            /\ mem[a] = file.rows
            /\ file' = Whole(Recorded(a, p))
            /\ todo' = [todo EXCEPT ![a] = @ \ {p}]
            /\ mem' = [mem EXCEPT ![a] = Recorded(a, p)]
  <1>1. PICK p \in todo[a] : cur[a] = {p}
    BY DEF UpdateSeen, AloneInv
  <1>2. p \in scope[a] /\ p \in Pkgs
    BY DEF Alone, AloneInv, TypeOK
  <1>3. mem[a] = file.rows
    BY DEF UpdateSeen, AloneInv
  <1> QED
    BY <1>1, <1>2, <1>3 DEF UpdateSeen

(* A scan of one package leaves what is recorded of the others as it is,   *)
(* whatever fails: when the record is moved into place in one piece. *)
THEOREM SerialScopeRespected ==
  ASSUME NEW CONSTANT a, Alone(a), SameFs
  PROVE  Spec => ScopeRespected
  <1> DEFINE Respects == file'.state = "whole" =>
               \A s \in Scanners : pc[s] \in {"update", "copying"} =>
                 \A p \in Pkgs \ scope[s] : Of(p, file'.rows) = Of(p, file.rows)
  <1>1. AloneInv(a) /\ [Next]_vars => [Respects]_vars
    <2> SUFFICES ASSUME AloneInv(a), [Next]_vars, NEW p \in Pkgs \ scope[a]
                 PROVE  Of(p, file'.rows) = Of(p, file.rows)
      BY DEF Alone
    <2>1. CASE file'.rows = file.rows
      BY <2>1
    <2>2. CASE file'.rows # file.rows
      <3>1. UpdateSeen(a)
        BY <2>2, FileChanges DEF AloneInv, CopySeen, EndCopy
      <3>2. PICK q \in scope[a] :
               mem[a] = file.rows /\ file' = Whole(Recorded(a, q))
        BY <3>1, UpdateWrites DEF AloneInv
      <3> QED
        BY <3>2 DEF Of, Recorded, Whole
    <2> QED
      BY <2>1, <2>2
  <1> QED
    BY <1>1, AloneInit, AloneStep, PTL DEF Spec, ScopeRespected

(* A notice leaves the record only with its revision, whatever fails.      *)
THEOREM SerialForgetsOnlyDeparted ==
  ASSUME NEW CONSTANT a, Alone(a), SameFs
  PROVE  Spec => ForgetsOnlyDeparted
  <1> DEFINE Forgets == \A n \in file.rows \ file'.rows :
               \E s \in Scanners : /\ pc[s] # "idle"
                                   /\ <<n[1], n[2]>> \notin Usable(dump[s])
  <1>1. AloneInv(a) /\ [Next]_vars => [Forgets]_vars
    <2> SUFFICES ASSUME AloneInv(a), [Next]_vars, NEW n \in file.rows \ file'.rows
                 PROVE  pc[a] # "idle" /\ <<n[1], n[2]>> \notin Usable(dump[a])
      BY DEF Alone
    <2>1. UpdateSeen(a)
      BY FileChanges DEF AloneInv, CopySeen, EndCopy
    <2>2. PICK q \in scope[a] :
             mem[a] = file.rows /\ file' = Whole(Recorded(a, q))
      BY <2>1, UpdateWrites DEF AloneInv
    <2> QED
      BY <2>1, <2>2 DEF Recorded, Whole, UpdateSeen
  <1> QED
    BY <1>1, AloneInit, AloneStep, PTL DEF Spec, ForgetsOnlyDeparted

-----------------------------------------------------------------------------
(* Letters and faults.                                                     *)

(* What a scanner that runs alone takes for reported: its record, while it *)
(* is copied the one in memory, and the report that is to be recorded. *)
Ledger(a) ==
    (IF pc[a] = "copying" THEN mem[a] ELSE file.rows)
        \cup UNION {Of(p, Report(dump[a], usn[a])) : p \in cur[a]}

(* The copy was interrupted: no scan gets past the record any more.        *)
Stuck(a) == file.state = "torn" /\ pc[a] # "copying"

(* A notice is one letter ahead of the faults only while it is accounted   *)
(* for, or its revision has left, or the record is lost for good. *)
Counted(a) ==
    \A n \in Notice :
       /\ letters[n] <= 1 + faults
       /\ <<n[1], n[2]>> \in listed /\ ~Stuck(a) /\ n \notin Ledger(a)
             => letters[n] <= faults

(* A letter names only notices of listed revisions that are unaccounted.   *)
LEMMA FreshUnaccounted ==
  ASSUME NEW a, Alone(a), AloneInv(a), NEW p \in Pkgs, WritesTo(a, p),
         NEW n \in Fresh(a, p)
  PROVE  /\ n \in Notice
         /\ <<n[1], n[2]>> \in listed
         /\ ~Stuck(a)
         /\ n \notin Ledger(a)
  <1> USE DEF Alone, AloneInv
  <1>1. n \in Notice /\ n[1] = p /\ <<n[1], n[2]>> \in Usable(dump[a])
    BY NoticeScanAssumption DEF Fresh, Of, Report, Usable, Notice, Listing
  <1>2. <<n[1], n[2]>> \in Listing
    BY <1>1 DEF Usable
  <1>3. /\ p \in scope[a]
        /\ pc[a] = "items"
    BY DEF WritesTo, Visits
  <1>4. Ledger(a) = mem[a]
    BY <1>3 DEF Ledger
  <1> QED
    BY <1>1, <1>2, <1>3, <1>4 DEF Fresh, Stuck

(* A delivered letter costs each of its notices one.                       *)
LEMMA DeliverCounts ==
  ASSUME TypeOK, NEW N \in SUBSET Notice, Deliver(N), NEW n \in Notice
  PROVE  /\ letters'[n] \in Nat
         /\ letters[n] \in Nat
         /\ letters'[n] <= letters[n] + 1
         /\ letters[n] <= letters'[n]
         /\ n \notin N => letters'[n] = letters[n]
         /\ n \in N => letters'[n] > 0
  BY NoticeScanAssumption DEF TypeOK, Deliver

LEMMA CountedStep ==
  ASSUME NEW a, Alone(a), AloneInv(a), Counted(a), [Next]_vars
  PROVE  Counted(a)'
  <1> USE DEF Alone
  <1>0. TypeOK /\ AloneInv(a)'
    BY AloneStep DEF AloneInv
  <1>a. /\ faults \in Nat
        /\ \A n \in Notice : letters[n] \in Nat
    BY <1>0, NoticeScanAssumption DEF TypeOK
  <1>1. ASSUME UNCHANGED <<listed, letters, faults>>,
               ~Stuck(a)' => ~Stuck(a),
               \A n \in Notice : <<n[1], n[2]>> \in listed /\ ~Stuck(a)'
                                   /\ n \in Ledger(a) => n \in Ledger(a)'
        PROVE  Counted(a)'
    BY <1>1 DEF Counted
  <1>2. ASSUME UNCHANGED <<listed, letters, faults, pc, file, mem, cur>>,
               cur[a] # {} => UNCHANGED <<dump, usn>>
        PROVE  Counted(a)'
    <2>1. UNCHANGED <<Stuck(a), Ledger(a)>>
      BY <1>2 DEF Stuck, Ledger
    <2> QED
      BY <1>1, <1>2, <2>1
  <1>b. ASSUME UNCHANGED letters, faults' = faults + 1 PROVE Counted(a)'
    <2>1. \A n \in Notice : letters[n] <= 1 + faults
      BY DEF Counted
    <2>2. \A n \in Notice : letters'[n] <= faults' /\ letters'[n] <= 1 + faults'
      BY <1>a, <1>b, <2>1
    <2> QED
      BY <2>2 DEF Counted
  <1>3. ASSUME Crash(a) PROVE Counted(a)'
    BY <1>3, <1>b DEF Crash, history
  <1>4. CASE UNCHANGED vars
    BY <1>2, <1>4 DEF vars
  <1>5. CASE Environment
    BY <1>2, <1>5 DEF Environment, PublishUsn, ChangeStore, seenVars, scanVars,
                      history
  <1>6. ASSUME NEW sc \in Scopes, Start(a, sc) PROVE Counted(a)'
    <2>1. UNCHANGED <<Stuck(a), Ledger(a)>>
      BY <1>0, <1>6 DEF Start, seenVars, TypeOK, AloneInv, Stuck, Ledger
    <2>2. ASSUME NEW n \in Notice
          PROVE  /\ letters'[n] = letters[n] \/ letters'[n] = 0
                 /\ <<n[1], n[2]>> \in listed' /\ letters'[n] # 0
                       => <<n[1], n[2]>> \in listed
      BY <1>6 DEF Start
    <2>3. faults' = faults
      BY <1>6 DEF Start
    <2>4. /\ \A n \in Notice : letters[n] <= 1 + faults
          /\ 0 <= faults /\ 0 <= 1 + faults
      <3>1. \A n \in Notice : letters[n] <= 1 + faults
        BY DEF Counted
      <3>2. 0 <= faults /\ 0 <= 1 + faults
        BY <1>a
      <3> QED
        BY <3>1, <3>2
    <2>5. ASSUME NEW n \in Notice PROVE letters'[n] <= 1 + faults'
      <3>1. CASE letters'[n] = 0
        BY <2>3, <2>4, <3>1
      <3>2. CASE letters'[n] = letters[n]
        BY <2>3, <2>4, <3>2
      <3> QED
        BY <2>2, <3>1, <3>2
    <2>6. ASSUME NEW n \in Notice, <<n[1], n[2]>> \in listed', ~Stuck(a),
                 n \notin Ledger(a)
          PROVE  letters'[n] <= faults'
      <3>1. CASE letters'[n] = 0
        BY <1>a, <2>3, <3>1
      <3>2. CASE letters'[n] # 0
        BY <2>2, <2>3, <2>6, <3>2 DEF Counted
      <3> QED
        BY <3>1, <3>2
    <2> QED
      BY <2>1, <2>5, <2>6 DEF Counted
  <1>7. ASSUME OpenSeen(a) PROVE Counted(a)'
    <2>1. cur[a] = {} /\ cur'[a] = {} /\ pc[a] \in {"open_seen", "create_seen"}
      BY <1>0, <1>7 DEF OpenSeen, LoadSeen, MissSeen, CreateSeen, RefuseSeen,
                        Exit, AloneInv, TypeOK
    <2>2. pc'[a] # "copying"
      BY <1>0, <1>7 DEF OpenSeen, LoadSeen, MissSeen, CreateSeen, RefuseSeen,
                        Exit, TypeOK
    <2>3. file'.rows = file.rows /\ (file'.state # "torn" => file.state # "torn")
      <3>1. CASE CreateSeen(a)
        <4>1. file'.rows = {}
          BY <3>1 DEF CreateSeen, Whole
        <4>2. file.state = "absent"
          BY <3>1 DEF CreateSeen, AloneInv
        <4> QED
          BY <4>1, <4>2 DEF AloneInv
      <3> QED
        BY <1>7, <3>1 DEF OpenSeen, LoadSeen, MissSeen, RefuseSeen, seenVars
    <2>4. UNCHANGED <<listed, letters, faults>>
      BY <1>7 DEF OpenSeen, LoadSeen, MissSeen, CreateSeen, RefuseSeen, history
    <2> QED
      BY <1>1, <2>1, <2>2, <2>3, <2>4 DEF Stuck, Ledger
  <1>8. ASSUME NEW p \in Pkgs, pc[a] = "items", Reported(a, p)
        PROVE  /\ UNCHANGED <<listed, faults>>
               /\ Stuck(a)' = Stuck(a)
               /\ Ledger(a)' = Ledger(a) \cup Of(p, Report(dump[a], usn[a]))
    <2>1. cur[a] = {} /\ cur'[a] = {p} /\ pc'[a] = "update"
      BY <1>0, <1>8 DEF Reported, TypeOK, AloneInv
    <2>2. UNCHANGED <<dump, usn, file, mem, listed, faults>>
      BY <1>8 DEF Reported, scanVars, seenVars
    <2> QED
      BY <1>8, <2>1, <2>2 DEF Ledger, Stuck
  <1>9. ASSUME NEW p \in Pkgs, NothingNew(a, p) \/ SendDeclined(a, p)
        PROVE  Counted(a)'
    <2>1. pc[a] = "items" /\ Reported(a, p) /\ UNCHANGED letters
      BY <1>9 DEF NothingNew, SendDeclined, WritesTo, Visits, history
    <2> QED
      BY <1>1, <1>8, <2>1
  <1>10. ASSUME NEW p \in Pkgs, SkipItem(a, p) PROVE Counted(a)'
    BY <1>2, <1>10 DEF SkipItem, Visits, seenVars, scanVars, history
  <1>11. ASSUME NEW p \in Pkgs, Send(a, p) PROVE Counted(a)'
    <2>1. WritesTo(a, p) /\ pc[a] = "items" /\ Reported(a, p)
      BY <1>11 DEF Send, WritesTo, Visits
    <2>2. /\ Fresh(a, p) \in SUBSET Notice
          /\ Fresh(a, p) \subseteq Of(p, Report(dump[a], usn[a]))
          /\ Deliver(Fresh(a, p))
      BY <1>11, FreshType DEF Send
    <2>3. ASSUME NEW n \in Notice
          PROVE  /\ letters'[n] <= 1 + faults
                 /\ <<n[1], n[2]>> \in listed /\ ~Stuck(a) /\ n \notin Ledger(a)'
                       => letters'[n] <= faults
      <3>1. /\ letters'[n] \in Nat
            /\ letters'[n] <= letters[n] + 1
            /\ n \notin Fresh(a, p) => letters'[n] = letters[n]
        BY <1>0, <2>2, DeliverCounts
      <3>2. CASE n \in Fresh(a, p)
        <4>1. letters[n] <= faults
          BY <2>1, <3>2, FreshUnaccounted DEF Counted
        <4>2. n \in Ledger(a)'
          BY <1>8, <2>1, <2>2, <3>2
        <4> QED
          BY <1>a, <3>1, <4>1, <4>2
      <3>3. CASE n \notin Fresh(a, p)
        <4>1. n \notin Ledger(a)' => n \notin Ledger(a)
          BY <1>8, <2>1
        <4> QED
          BY <3>1, <3>3, <4>1 DEF Counted
      <3> QED
        BY <3>2, <3>3
    <2> QED
      BY <1>8, <2>1, <2>3 DEF Counted
  <1>12. ASSUME NEW p \in Pkgs, SendRaised(a, p) PROVE Counted(a)'
    BY <1>b, <1>12 DEF SendRaised, GiveUp
  <1>13. ASSUME NEW p \in Pkgs, SendRaisedLate(a, p) PROVE Counted(a)'
    <2>1. /\ WritesTo(a, p)
          /\ Fresh(a, p) \in SUBSET Notice
          /\ Deliver(Fresh(a, p))
          /\ faults' = faults + 1
      BY <1>13, FreshType DEF SendRaisedLate, GiveUp
    <2>2. ASSUME NEW n \in Notice PROVE letters'[n] <= faults'
      <3>1. /\ letters'[n] <= letters[n] + 1
            /\ letters'[n] \in Nat
            /\ n \notin Fresh(a, p) => letters'[n] = letters[n]
        BY <1>0, <2>1, DeliverCounts
      <3>2. n \in Fresh(a, p) => letters[n] <= faults
        BY <2>1, FreshUnaccounted DEF Counted
      <3>3. letters[n] <= 1 + faults
        BY DEF Counted
      <3> QED
        BY <1>a, <2>1, <3>1, <3>2, <3>3
    <2>3. \A n \in Notice : letters'[n] <= 1 + faults'
      <3>1. \A n \in Notice : letters'[n] \in Nat
        BY <1>0, <2>1, DeliverCounts
      <3> QED
        BY <1>a, <2>1, <2>2, <3>1
    <2> QED
      BY <2>2, <2>3 DEF Counted
  <1>14. ASSUME UpdateSeen(a) \/ CopySeen(a) PROVE Counted(a)'
    <2>1. PICK p \in todo[a] : cur[a] = {p}
      BY <1>14 DEF UpdateSeen, CopySeen, AloneInv
    <2>2. p \in Pkgs /\ p \in scope[a] /\ mem[a] = file.rows /\ pc[a] = "update"
      BY <1>0, <1>14 DEF UpdateSeen, CopySeen, AloneInv, TypeOK
    <2>3. Ledger(a) = file.rows \cup Of(p, Report(dump[a], usn[a]))
      BY <2>1, <2>2 DEF Ledger
    <2>4. cur'[a] = {}
      BY <1>0, <1>14 DEF UpdateSeen, CopySeen, TypeOK
    <2>5. Ledger(a)' = Recorded(a, p)
      <3>1. CASE UpdateSeen(a)
        <4>1. file' = Whole(Recorded(a, p)) /\ pc'[a] = "items"
          BY <1>0, <2>1, <3>1 DEF UpdateSeen, TypeOK
        <4> QED
          BY <2>4, <4>1 DEF Ledger, Whole
      <3>2. CASE CopySeen(a)
        <4>1. mem'[a] = Recorded(a, p) /\ pc'[a] = "copying"
          BY <1>0, <2>1, <3>2 DEF CopySeen, TypeOK
        <4> QED
          BY <2>4, <4>1 DEF Ledger
      <3> QED
        BY <1>14, <3>1, <3>2
    <2>6. ASSUME NEW n \in Notice, <<n[1], n[2]>> \in listed, n \in Ledger(a)
          PROVE  n \in Recorded(a, p)
      <3>1. <<n[1], n[2]>> \in Listing
        BY DEF Notice, Listing
      <3>2. n[1] = p => <<n[1], n[2]>> \in Usable(dump[a])
        BY <2>2, <2>6, <3>1 DEF AloneInv
      <3> QED
        BY <2>2, <2>3, <2>6, <3>2 DEF Recorded
    <2>7. ~Stuck(a)
      BY <2>2 DEF Stuck, AloneInv
    <2>8. UNCHANGED <<listed, letters, faults>>
      BY <1>14 DEF UpdateSeen, CopySeen, history
    <2> QED
      BY <1>1, <2>5, <2>6, <2>7, <2>8
  <1>15. ASSUME EndCopy(a) PROVE Counted(a)'
    <2>1. /\ pc[a] = "copying"
          /\ pc'[a] = "items"
          /\ file' = Whole(mem[a])
          /\ UNCHANGED <<cur, listed, letters, faults>>
      BY <1>0, <1>15 DEF EndCopy, history, TypeOK
    <2>2. cur[a] = {}
      BY <2>1 DEF AloneInv
    <2>3. Ledger(a)' = Ledger(a)
      BY <2>1, <2>2 DEF Ledger, Whole
    <2>4. ~Stuck(a)
      BY <2>1 DEF Stuck
    <2> QED
      BY <1>1, <2>1, <2>3, <2>4
  <1>16. ASSUME Ends(a) PROVE Counted(a)'
    <2>1. /\ pc[a] = "items" /\ pc'[a] = "idle"
          /\ cur[a] = {} /\ cur'[a] = {}
          /\ UNCHANGED <<file, listed, letters, faults>>
      BY <1>0, <1>16 DEF Ends, Finish, LoadRaises, Exit, history, AloneInv,
                         TypeOK
    <2> QED
      BY <1>1, <2>1 DEF Ledger, Stuck
  <1> QED
    BY <1>3, <1>4, <1>5, <1>6, <1>7, <1>9, <1>10, <1>11, <1>12, <1>13, <1>14,
       <1>15, <1>16
       DEF Next, Proceed, Ends, VisitItem, Record, NoRecord, Fault

(* For any number of faults, wherever they strike, and whether or not the  *)
(* record moves in one piece: each costs no notice more than one letter. *)
THEOREM FaultsCostOneLetter ==
  ASSUME NEW CONSTANT a, Alone(a)
  PROVE  Spec => []OneLetterPerFault
  <1>1. Init => Counted(a)
    BY NoticeScanAssumption DEF Init, Counted, Notice
  <1>2. AloneInv(a) /\ Counted(a) /\ [Next]_vars => Counted(a)'
    BY CountedStep
  <1>3. Counted(a) => OneLetterPerFault
    BY DEF Counted, OneLetterPerFault
  <1> QED
    BY <1>1, <1>2, <1>3, AloneInit, AloneStep, PTL DEF Spec

-----------------------------------------------------------------------------
(* A scanner that also meets no fault and moves its record in one piece.   *)
Serial(a) == Alone(a) /\ SameFs /\ MaxFaults = 0

LEMMA NoFault == ASSUME NEW a, MaxFaults = 0, TypeOK PROVE ~Fault(a)
  BY DEF Fault, Crash, SendRaised, SendRaisedLate, GiveUp, TypeOK

(* Every step of such a scanner is one of the promise, or none. *)
LEMMA PromiseStep ==
  ASSUME NEW a, Serial(a), AloneInv(a), [Next]_vars
  PROVE  [Promise!Next]_(Promise!vars)
  <1> USE DEF Serial, Alone, AloneInv
  <1> DEFINE R(p) == Of(p, Report(dump[a], usn[a]))
             R1(p) == Of(p, Report(dump'[a], usn'[a]))
  <1>0. /\ file.rows \cup Pending = file.rows \cup UNION {R(p) : p \in cur[a]}
        /\ (file.rows \cup Pending)' =
               file'.rows \cup UNION {R1(p) : p \in cur'[a]}
    BY DEF Pending
  <1>1. ASSUME UNCHANGED <<listed, letters, file>>,
               UNION {R1(p) : p \in cur'[a]} = UNION {R(p) : p \in cur[a]}
        PROVE  UNCHANGED Promise!vars
    BY <1>0, <1>1 DEF Promise!vars
  <1>2. ASSUME UNCHANGED <<listed, letters, file, cur, dump, usn>>
        PROVE  UNCHANGED Promise!vars
    BY <1>1, <1>2
  <1>3. ASSUME UNCHANGED <<listed, letters, file>>, Exit(a), cur[a] = {}
        PROVE  UNCHANGED Promise!vars
    BY <1>1, <1>3 DEF Exit, TypeOK
  <1>4. CASE UNCHANGED vars
    BY <1>2, <1>4 DEF vars
  <1>5. CASE Environment
    BY <1>2, <1>5 DEF Environment, PublishUsn, ChangeStore, seenVars, scanVars,
                      history
  <1>6. ASSUME NEW sc \in Scopes, Start(a, sc) PROVE Promise!Next
    <2>1. Relisted(sc) \in SUBSET (Pkgs \X Revs)
      BY DEF Relisted, Usable, Listing, TypeOK
    <2>2. UNCHANGED (file.rows \cup Pending)
      BY <1>0, <1>6 DEF Start, seenVars, TypeOK
    <2>3. Promise!Look(Relisted(sc))
      BY <1>6, <2>2 DEF Start, Promise!Look, Promise!About, Promise!Notice, Notice
    <2> QED
      BY <2>1, <2>3 DEF Promise!Next
  <1>7. ASSUME OpenSeen(a) PROVE UNCHANGED Promise!vars
    <2>1. CASE LoadSeen(a) \/ MissSeen(a)
      BY <1>2, <2>1 DEF LoadSeen, MissSeen, seenVars, scanVars, history
    <2>2. CASE CreateSeen(a)
      <3>1. file'.rows = file.rows
        BY <2>2 DEF CreateSeen, Whole
      <3>2. UNCHANGED <<listed, letters, cur, dump, usn>>
        BY <2>2 DEF CreateSeen, scanVars, history
      <3> QED
        BY <1>0, <3>1, <3>2 DEF Promise!vars
    <2> QED
      BY <1>7, <2>1, <2>2 DEF OpenSeen, RefuseSeen
  <1>8. ASSUME NEW p \in Pkgs, p \in todo[a], pc[a] = "items", Reported(a, p)
        PROVE  /\ file.rows \cup Pending = file.rows
               /\ (file.rows \cup Pending)' = file.rows \cup Fresh(a, p)
               /\ UNCHANGED listed
               /\ Fresh(a, p) \in SUBSET Promise!Tellable(p)
    <2>1. cur[a] = {} /\ cur'[a] = {p}
      BY <1>8 DEF Reported, TypeOK
    <2>2. UNCHANGED <<dump, usn, file, listed>>
      BY <1>8 DEF Reported, scanVars, seenVars
    <2>3. Fresh(a, p) = R(p) \ file.rows
      BY <1>8 DEF Fresh
    <2>4. file.rows \cup Pending = file.rows
      BY <1>0, <2>1
    <2>5. ASSUME NEW n \in Fresh(a, p) PROVE n \in Promise!Tellable(p)
      <3>1. /\ n \in Notice
            /\ n[1] = p
            /\ <<n[1], n[2]>> \in Usable(dump[a])
            /\ n \notin file.rows
        BY <2>3, NoticeScanAssumption DEF Of, Report, Usable, Notice, Listing
      <3>2. <<n[1], n[2]>> \in listed
        BY <1>8, <3>1 DEF Usable, Listing
      <3> QED
        BY <2>4, <3>1, <3>2
           DEF Promise!Tellable, Promise!Notice, Promise!About, Notice
    <2> QED
      BY <1>0, <2>1, <2>2, <2>3, <2>4, <2>5
  <1>9. ASSUME NEW p \in Pkgs, SkipItem(a, p) PROVE UNCHANGED Promise!vars
    BY <1>2, <1>9 DEF SkipItem, Visits, seenVars, scanVars, history
  <1>10. ASSUME NEW p \in Pkgs, NothingNew(a, p) PROVE UNCHANGED Promise!vars
    BY <1>8, <1>10 DEF NothingNew, Visits, history, Promise!vars
  <1>11. ASSUME NEW p \in Pkgs, Send(a, p) PROVE Promise!Next
    <2>1. Promise!Tell(p, Fresh(a, p))
      BY <1>8, <1>11
         DEF Send, WritesTo, Visits, Deliver, Promise!Tell, Promise!Notice,
             Notice
    <2> QED
      BY <1>8, <1>11, <2>1 DEF Send, WritesTo, Visits, Promise!Next
  <1>12. ASSUME NEW p \in Pkgs, SendDeclined(a, p) PROVE Promise!Next
    <2>1. Promise!Waive(p, Fresh(a, p))
      BY <1>8, <1>12 DEF SendDeclined, WritesTo, Visits, Promise!Waive
    <2> QED
      BY <1>8, <1>12, <2>1 DEF SendDeclined, WritesTo, Visits, Promise!Next
  <1>13. ASSUME Record(a) PROVE Promise!Next
    <2>1. UpdateSeen(a)
      BY <1>13 DEF Record, NoRecord, CopySeen, EndCopy
    <2>2. PICK p \in todo[a] : cur[a] = {p}
      BY <2>1 DEF UpdateSeen
    <2>3. /\ file' = Whole(Recorded(a, p))
          /\ cur'[a] = {}
          /\ UNCHANGED <<listed, letters, dump, usn>>
      BY <2>1, <2>2 DEF UpdateSeen, scanVars, history, TypeOK
    <2>4. file.rows \cup Pending = file.rows \cup R(p)
      BY <1>0, <2>2
    <2>5. (file.rows \cup Pending)' = Recorded(a, p)
      BY <1>0, <2>3 DEF Whole
    <2>6. p \in Pkgs /\ p \in scope[a]
      BY DEF TypeOK
    <2>7. ASSUME NEW n \in Notice, n[1] = p
          PROVE  <<n[1], n[2]>> \in Usable(dump[a]) <=> <<n[1], n[2]>> \in listed
      BY <2>1, <2>6, <2>7 DEF UpdateSeen, Notice, Listing
    <2>8. \A n \in R(p) : n \in Notice /\ n[1] = p /\ <<n[1], n[2]>> \in Usable(dump[a])
      BY NoticeScanAssumption DEF Of, Report, Usable, Notice, Listing
    <2>9. Recorded(a, p) = {n \in file.rows \cup R(p) :
                              n[1] = p => <<n[1], n[2]>> \in listed}
      BY <2>1, <2>7, <2>8 DEF Recorded, UpdateSeen, TypeOK
    <2>10. Promise!Forget(p)
      BY <2>3, <2>4, <2>5, <2>9 DEF Promise!Forget, Promise!About
    <2> QED
      BY <2>6, <2>10 DEF Promise!Next
  <1>14. ASSUME Ends(a) PROVE UNCHANGED Promise!vars
    BY <1>3, <1>14 DEF Ends, Finish, LoadRaises, history
  <1>15. ~Fault(a)
    BY NoFault
  <1> QED
    BY <1>4, <1>5, <1>6, <1>7, <1>9, <1>10, <1>11, <1>12, <1>13, <1>14, <1>15
       DEF Next, Proceed, Ends, VisitItem

(* A scanner that runs alone, records what it reports and meets no fault   *)
(* keeps the promise of InformOnce: it informs, and does not nag. *)
THEOREM SerialScanKeepsPromise ==
  ASSUME NEW CONSTANT a, Serial(a)
  PROVE  Spec => KeepsPromise
  <1>1. Init => AloneInv(a)
    BY AloneInit DEF Serial
  <1>2. AloneInv(a) /\ [Next]_vars => AloneInv(a)'
    BY AloneStep DEF Serial
  <1>3. Init => Promise!Init
    BY DEF Init, Serial, Alone, Promise!Init, Pending, Promise!Notice, Notice
  <1>4. AloneInv(a) /\ [Next]_vars => [Promise!Next]_(Promise!vars)
    BY PromiseStep
  <1> QED
    BY <1>1, <1>2, <1>3, <1>4, PTL DEF Spec, KeepsPromise, Promise!Spec

LedgerProofs == INSTANCE InformOnceProofs WITH told <- file.rows \cup Pending

(* Hence no two letters name the same notice while its revision stays in   *)
(* the store. *)
THEOREM SerialScanNeverNags ==
  ASSUME NEW CONSTANT a, Serial(a)
  PROVE  Spec => []NeverNagged
  <1>1. Spec => KeepsPromise
    BY SerialScanKeepsPromise
  <1>2. LedgerProofs!Spec => []LedgerProofs!AtMostOnce
    BY LedgerProofs!InformedOnce
  <1>3. LedgerProofs!Init <=> Promise!Init
    BY DEF LedgerProofs!Init, Promise!Init, LedgerProofs!Notice, Promise!Notice
  <1>4. [LedgerProofs!Next]_(LedgerProofs!vars) <=> [Promise!Next]_(Promise!vars)
    BY DEF LedgerProofs!Next, LedgerProofs!vars, LedgerProofs!Look,
           LedgerProofs!Tell, LedgerProofs!Waive, LedgerProofs!Forget,
           LedgerProofs!Tellable, LedgerProofs!About, LedgerProofs!Notice,
           Promise!Next, Promise!vars, Promise!Look,
           Promise!Tell, Promise!Waive, Promise!Forget,
           Promise!Tellable, Promise!About, Promise!Notice
  <1>5. LedgerProofs!AtMostOnce => NeverNagged
    BY DEF LedgerProofs!AtMostOnce, LedgerProofs!Notice, LedgerProofs!About,
           NeverNagged, Notice
  <1> QED
    BY <1>1, <1>2, <1>3, <1>4, <1>5, PTL
       DEF KeepsPromise, Promise!Spec, LedgerProofs!Spec

-----------------------------------------------------------------------------
(* What a scan that ends without an error has told.                        *)

Accounted(n) == letters[n] > 0 \/ n \in waived

HasUsable(d, p) == \E r \in Revs : <<p, r>> \in Usable(d)

Copy(a) == IF pc[a] = "copying" THEN mem[a] ELSE file.rows

(* Between scans the record has only listed revisions, and their notices   *)
(* were told since they were listed.  During a scan that may fail for the  *)
(* items still to visit: the record has what the last scan left of them,   *)
(* and only a visit that finds a usable revision makes it forget.          *)
Informed(a) ==
    /\ \A l \in listed : HasUsable(store, l[1])
    /\ \A n \in Copy(a) :
          /\ HasUsable(store, n[1])
          /\ <<n[1], n[2]>> \in listed => Accounted(n)
          /\ n[1] \notin todo[a] => <<n[1], n[2]>> \in listed
          /\ pc[a] # "idle" /\ n[1] \in scope[a] => HasUsable(dump[a], n[1])
    /\ \A p \in cur[a] \cup (scope[a] \ todo[a]) :
          \A n \in Of(p, Report(dump[a], usn[a])) : Accounted(n)
    /\ pc[a] = "idle" => todo[a] = {}

LEMMA InformedKept ==
  ASSUME NEW a, Informed(a), UNCHANGED <<Copy(a), listed, store, letters, waived>>,
         todo'[a] = todo[a], scope'[a] = scope[a], cur'[a] = cur[a],
         dump'[a] = dump[a], usn'[a] = usn[a],
         pc[a] # "idle", pc'[a] # "idle"
  PROVE  Informed(a)'
  BY DEF Informed, Accounted

LEMMA InformedExit ==
  ASSUME NEW a, Alone(a), TypeOK, Informed(a), Exit(a), UNCHANGED Copy(a),
         UNCHANGED <<listed, store, letters, waived>>,
         todo[a] = {} \/ Copy(a) = {}
  PROVE  Informed(a)'
  <1>1. /\ pc'[a] = "idle" /\ todo'[a] = {}
        /\ cur'[a] = {} /\ scope'[a] = {}
    BY DEF Exit, TypeOK, Alone
  <1>2. \A n \in Copy(a)' :
          /\ HasUsable(store', n[1])
          /\ <<n[1], n[2]>> \in listed' => Accounted(n)'
          /\ <<n[1], n[2]>> \in listed'
    BY DEF Informed, Accounted
  <1> QED
    BY <1>1, <1>2 DEF Informed

(* The notices of a report are of usable revisions of their package.       *)
LEMMA ReportUsable ==
  ASSUME NEW d, NEW u, NEW p, NEW n \in Of(p, Report(d, u))
  PROVE  /\ n \in Notice
         /\ n[1] = p
         /\ <<n[1], n[2]>> \in Usable(d)
         /\ HasUsable(d, p)
  <1>1. n \in Notice /\ n[1] = p /\ d[<<n[1], n[2]>>] = "usable"
    BY NoticeScanAssumption DEF Of, Report
  <1>2. <<n[1], n[2]>> \in Listing /\ n[2] \in Revs
    BY <1>1 DEF Notice, Listing
  <1> QED
    BY <1>1, <1>2 DEF Usable, HasUsable

(* A package that has a usable revision keeps one.                         *)
LEMMA ListingSteady ==
  ASSUME SteadyListing, TypeOK, NEW p \in Pkgs, NEW r \in Revs, NEW q \in Offered,
         ChangeStore(p, r, q), NEW x, HasUsable(store, x)
  PROVE  HasUsable(store', x)
  <1>1. PICK y \in Revs : <<x, y>> \in Usable(store)
    BY DEF HasUsable
  <1>2. x \in Pkgs /\ <<x, y>> \in Listing /\ store[<<x, y>>] = "usable"
    BY <1>1 DEF Usable, Listing
  <1>3. CASE x = p
    <2>1. PICK z \in Revs : (IF z = r THEN q ELSE store[<<p, z>>]) = "usable"
      BY <1>2, <1>3 DEF ChangeStore
    <2>2. <<p, z>> \in Listing /\ <<p, r>> \in Listing
      BY DEF Listing
    <2>3. store'[<<p, z>>] = "usable"
      BY <2>1, <2>2 DEF ChangeStore, TypeOK
    <2> QED
      BY <1>3, <2>2, <2>3 DEF HasUsable, Usable
  <1>4. CASE x # p
    <2>1. store'[<<x, y>>] = store[<<x, y>>]
      BY <1>2, <1>4 DEF ChangeStore, TypeOK
    <2> QED
      BY <1>2, <2>1 DEF HasUsable, Usable
  <1> QED
    BY <1>3, <1>4

LEMMA InformedStart ==
  ASSUME NEW a, Alone(a), AloneInv(a), Informed(a),
         NEW sc \in Scopes, Start(a, sc)
  PROVE  Informed(a)'
  <1> USE DEF Alone
  <1>1. TypeOK /\ pc[a] = "idle" /\ todo[a] = {} /\ cur[a] = {}
    BY DEF Start, Informed, AloneInv
  <1>2. /\ pc'[a] = "open_seen"
        /\ scope'[a] = sc /\ todo'[a] = sc
        /\ dump'[a] = store
        /\ UNCHANGED <<store, cur, file, mem, waived>>
    BY <1>1 DEF Start, seenVars, TypeOK
  <1>3. Copy(a)' = Copy(a) /\ Copy(a) = file.rows
    BY <1>1, <1>2 DEF Copy
  <1>4. listed' = Relisted(sc)
    BY DEF Start
  <1>5. ASSUME NEW l \in listed' PROVE HasUsable(store', l[1])
    <2>1. CASE l \in listed
      BY <1>2, <2>1 DEF Informed
    <2>2. CASE l \in Usable(store)
      <3>1. PICK x \in Pkgs, y \in Revs : l = <<x, y>>
        BY <2>2 DEF Usable, Listing
      <3> QED
        BY <1>2, <2>2, <3>1 DEF HasUsable
    <2> QED
      BY <1>4, <2>1, <2>2 DEF Relisted
  <1>6. ASSUME NEW n \in Copy(a)
        PROVE  /\ n \in Notice
               /\ HasUsable(store', n[1])
               /\ <<n[1], n[2]>> \in listed' => Accounted(n)'
               /\ n[1] \notin todo'[a] => <<n[1], n[2]>> \in listed'
               /\ HasUsable(dump'[a], n[1])
    <2>1. n \in Notice
      BY <1>1, <1>3 DEF TypeOK
    <2>2. HasUsable(store, n[1])
      BY DEF Informed
    <2>3. <<n[1], n[2]>> \in listed /\ Accounted(n)
      BY <1>1 DEF Informed
    <2>4. letters'[n] = letters[n]
      BY <2>1, <2>3 DEF Start
    <2>5. n[1] \notin sc => <<n[1], n[2]>> \in Relisted(sc)
      BY <2>3 DEF Relisted
    <2> QED
      BY <1>2, <1>4, <2>1, <2>2, <2>3, <2>4, <2>5 DEF Accounted
  <1>7. cur'[a] \cup (scope'[a] \ todo'[a]) = {}
    BY <1>1, <1>2
  <1> QED
    BY <1>2, <1>3, <1>5, <1>6, <1>7 DEF Informed

(* The visit of an item that has revisions accounts for its report.        *)
LEMMA InformedVisit ==
  ASSUME NEW a, Alone(a), AloneInv(a), Informed(a), NEW p \in Pkgs,
         p \in todo[a], pc[a] = "items", Reported(a, p),
         \A n \in Notice : Accounted(n) => Accounted(n)',
         \A n \in Fresh(a, p) : Accounted(n)'
  PROVE  Informed(a)'
  <1> USE DEF Alone
  <1>1. TypeOK
    BY DEF AloneInv
  <1>2. /\ pc'[a] = "update" /\ cur'[a] = {p} /\ cur[a] = {}
        /\ UNCHANGED <<todo, scope, dump, usn, store, listed, file, mem>>
    BY <1>1 DEF Reported, seenVars, scanVars, TypeOK, AloneInv
  <1>3. Copy(a)' = Copy(a) /\ Copy(a) = mem[a] /\ Copy(a) \subseteq Notice
    BY <1>1, <1>2 DEF Copy, AloneInv, TypeOK
  <1>4. ASSUME NEW n \in Of(p, Report(dump[a], usn[a])) PROVE Accounted(n)'
    <2>1. CASE n \in Fresh(a, p)
      BY <2>1
    <2>2. CASE n \notin Fresh(a, p)
      <3>1. n \in Copy(a)
        BY <1>3, <2>2 DEF Fresh
      <3>2. /\ n \in Notice /\ n[1] = p
            /\ <<n[1], n[2]>> \in Usable(dump[a])
        BY ReportUsable
      <3>3. <<n[1], n[2]>> \in listed
        BY <3>2 DEF AloneInv, Usable
      <3> QED
        BY <3>1, <3>2, <3>3 DEF Informed
    <2> QED
      BY <2>1, <2>2
  <1>5. ASSUME NEW q \in scope[a] \ todo[a],
               NEW n \in Of(q, Report(dump[a], usn[a]))
        PROVE  Accounted(n)'
    BY ReportUsable DEF Informed
  <1>6. \A n \in Copy(a) : Accounted(n) => Accounted(n)'
    BY <1>3
  <1>7. \A n \in Copy(a)' :
          /\ HasUsable(store', n[1])
          /\ <<n[1], n[2]>> \in listed' => Accounted(n)'
          /\ n[1] \notin todo'[a] => <<n[1], n[2]>> \in listed'
          /\ n[1] \in scope'[a] => HasUsable(dump'[a], n[1])
    BY <1>2, <1>3, <1>6 DEF Informed
  <1>8. \A l \in listed' : HasUsable(store', l[1])
    BY <1>2 DEF Informed
  <1> QED
    BY <1>2, <1>4, <1>5, <1>7, <1>8 DEF Informed

(* What is recorded of the item was accounted for by the visit.            *)
LEMMA InformedRecord ==
  ASSUME NEW a, Alone(a), AloneInv(a), Informed(a),
         UpdateSeen(a) \/ CopySeen(a)
  PROVE  Informed(a)'
  <1> USE DEF Alone
  <1>1. TypeOK /\ pc[a] = "update" /\ mem[a] = file.rows
    BY DEF AloneInv, UpdateSeen, CopySeen
  <1>2. PICK p \in todo[a] : cur[a] = {p}
    BY <1>1 DEF AloneInv
  <1>3. p \in Pkgs /\ p \in scope[a]
    BY <1>1 DEF AloneInv, TypeOK
  <1>4. /\ todo'[a] = todo[a] \ {p}
        /\ cur'[a] = {}
        /\ UNCHANGED <<scope, dump, usn, store, listed, letters, waived>>
        /\ pc'[a] # "idle"
    BY <1>1, <1>2 DEF UpdateSeen, CopySeen, scanVars, history, TypeOK
  <1>5. Copy(a)' = Recorded(a, p) /\ Copy(a) = mem[a]
    <2>1. CASE UpdateSeen(a)
      BY <1>1, <1>2, <2>1 DEF UpdateSeen, Copy, Whole, TypeOK
    <2>2. CASE CopySeen(a)
      BY <1>1, <1>2, <2>2 DEF CopySeen, Copy, TypeOK
    <2> QED
      BY <2>1, <2>2
  <1>6. ASSUME NEW n \in Recorded(a, p)
        PROVE  /\ HasUsable(store, n[1])
               /\ <<n[1], n[2]>> \in listed => Accounted(n)
               /\ n[1] \notin todo[a] \ {p} => <<n[1], n[2]>> \in listed
               /\ n[1] \in scope[a] => HasUsable(dump[a], n[1])
    <2>1. CASE n \in Of(p, Report(dump[a], usn[a]))
      <3>1. /\ n[1] = p /\ <<n[1], n[2]>> \in Usable(dump[a])
            /\ HasUsable(dump[a], p)
        BY <2>1, ReportUsable
      <3>2. <<n[1], n[2]>> \in Listing /\ <<n[1], n[2]>>[1] = p
        BY <3>1 DEF Usable
      <3>3. <<n[1], n[2]>> \in listed
        BY <1>1, <1>3, <3>1, <3>2 DEF AloneInv
      <3>4. HasUsable(store, n[1])
        BY <3>3 DEF Informed
      <3>5. Accounted(n)
        BY <1>2, <2>1 DEF Informed
      <3> QED
        BY <3>1, <3>3, <3>4, <3>5
    <2>2. CASE n \notin Of(p, Report(dump[a], usn[a]))
      <3>1. /\ n \in Copy(a)
            /\ n[1] = p => <<n[1], n[2]>> \in Usable(dump[a])
        BY <1>5, <2>2 DEF Recorded
      <3>2. n[1] = p => <<n[1], n[2]>> \in listed
        <4>1. n \in Notice
          BY <1>1, <1>5, <3>1 DEF TypeOK
        <4>2. n[1] = p => <<n[1], n[2]>> \in Listing /\ <<n[1], n[2]>>[1] = p
          BY <3>1 DEF Usable
        <4> QED
          BY <1>1, <1>3, <3>1, <4>2 DEF AloneInv
      <3> QED
        BY <1>1, <3>1, <3>2 DEF Informed
    <2> QED
      BY <2>1, <2>2
  <1>7. cur'[a] \cup (scope[a] \ (todo[a] \ {p})) = cur[a] \cup (scope[a] \ todo[a])
    BY <1>2, <1>3, <1>4
  <1>8. \A n : Accounted(n)' = Accounted(n)
    BY <1>4 DEF Accounted
  <1>9. \A q \in cur'[a] \cup (scope'[a] \ todo'[a]) :
           \A n \in Of(q, Report(dump'[a], usn'[a])) : Accounted(n)'
    BY <1>4, <1>7, <1>8 DEF Informed
  <1>10. \A n \in Copy(a)' :
           /\ HasUsable(store', n[1])
           /\ <<n[1], n[2]>> \in listed' => Accounted(n)'
           /\ n[1] \notin todo'[a] => <<n[1], n[2]>> \in listed'
           /\ n[1] \in scope'[a] => HasUsable(dump'[a], n[1])
    BY <1>4, <1>5, <1>6, <1>8
  <1>11. \A l \in listed' : HasUsable(store', l[1])
    BY <1>4 DEF Informed
  <1> QED
    BY <1>4, <1>9, <1>10, <1>11 DEF Informed

(* The store, and what the scan read of it, has no entry that ends a scan. *)
NoFatal(a) == Fatal(store) = {} /\ Fatal(dump[a]) = {}

LEMMA NoFatalStep ==
  ASSUME NEW a, Alone(a), AloneInv(a), "fatal" \notin Offered, NoFatal(a),
         [Next]_vars
  PROVE  NoFatal(a)'
  <1> USE DEF Alone
  <1>0. TypeOK
    BY DEF AloneInv
  <1>1. ASSUME UNCHANGED store, dump'[a] = dump[a] \/ Exit(a) PROVE NoFatal(a)'
    BY <1>0, <1>1 DEF NoFatal, Fatal, Exit, Nothing, TypeOK
  <1>2. CASE UNCHANGED vars
    BY <1>1, <1>2 DEF vars
  <1>3. CASE Environment
    BY <1>0, <1>3
       DEF Environment, PublishUsn, ChangeStore, scanVars, NoFatal, Fatal, TypeOK
  <1>4. ASSUME NEW sc \in Scopes, Start(a, sc) PROVE NoFatal(a)'
    BY <1>0, <1>4 DEF Start, NoFatal, Fatal, TypeOK
  <1>5. CASE OpenSeen(a)
    BY <1>1, <1>5
       DEF OpenSeen, LoadSeen, MissSeen, CreateSeen, RefuseSeen, scanVars
  <1>6. CASE VisitItem(a)
    BY <1>1, <1>6
       DEF VisitItem, SkipItem, NothingNew, Send, SendDeclined, Reported, scanVars
  <1>7. CASE Record(a)
    BY <1>1, <1>7
       DEF Record, NoRecord, UpdateSeen, CopySeen, EndCopy, scanVars
  <1>8. CASE Ends(a)
    BY <1>1, <1>8 DEF Ends, Finish, LoadRaises
  <1>9. CASE Fault(a)
    BY <1>1, <1>9
       DEF Fault, Crash, SendRaised, SendRaisedLate, GiveUp, scanVars
  <1> QED
    BY <1>2, <1>3, <1>4, <1>5, <1>6, <1>7, <1>8, <1>9 DEF Next, Proceed, Ends

LEMMA InformedStep ==
  ASSUME NEW a, Alone(a), MaxFaults = 0, SteadyListing, NoFatal(a),
         AloneInv(a), Informed(a), [Next]_vars
  PROVE  Informed(a)'
  <1> USE DEF Alone
  <1>0. TypeOK /\ AloneInv(a)' /\ ~Fault(a)
    BY AloneStep, NoFault DEF AloneInv
  <1>1. CASE UNCHANGED vars
    BY <1>1 DEF vars, Informed, Accounted, Copy
  <1>2. ASSUME NEW u \in Usns, PublishUsn(u) PROVE Informed(a)'
    BY <1>2 DEF PublishUsn, seenVars, scanVars, history, Informed, Accounted, Copy
  <1>3. ASSUME NEW p \in Pkgs, NEW r \in Revs, NEW q \in Offered,
               ChangeStore(p, r, q)
        PROVE  Informed(a)'
    <2>1. \A x : HasUsable(store, x) => HasUsable(store', x)
      BY <1>0, <1>3, ListingSteady
    <2>2. UNCHANGED <<usnDb, seenVars, pc, scanVars, todo, cur, listed, history>>
      BY <1>3 DEF ChangeStore
    <2> QED
      BY <2>1, <2>2 DEF seenVars, scanVars, history, Informed, Accounted, Copy
  <1>4. ASSUME NEW sc \in Scopes, Start(a, sc) PROVE Informed(a)'
    BY <1>4, InformedStart
  <1>5. ASSUME OpenSeen(a) PROVE Informed(a)'
    <2>1. UNCHANGED <<listed, store, letters, waived>>
      BY <1>5 DEF OpenSeen, LoadSeen, MissSeen, CreateSeen, RefuseSeen, history
    <2>2. /\ file'.rows = file.rows
          /\ pc[a] \in {"open_seen", "create_seen"} /\ pc'[a] # "copying"
      <3>1. CASE CreateSeen(a)
        <4>1. file'.rows = {} /\ pc[a] = "create_seen" /\ pc'[a] = "items"
          BY <1>0, <3>1 DEF CreateSeen, Whole, TypeOK
        <4> QED
          BY <4>1 DEF AloneInv
      <3>2. CASE LoadSeen(a) \/ MissSeen(a)
        BY <1>0, <3>2 DEF LoadSeen, MissSeen, seenVars, TypeOK
      <3>3. CASE RefuseSeen(a)
        BY <1>0, <3>3 DEF RefuseSeen, Exit, TypeOK
      <3> QED
        BY <1>5, <3>1, <3>2, <3>3 DEF OpenSeen
    <2>3. Copy(a)' = Copy(a) /\ Copy(a) = file.rows
      BY <2>2 DEF Copy
    <2>4. CASE RefuseSeen(a)
      <3>1. Copy(a) = {}
        BY <2>3, <2>4 DEF RefuseSeen, AloneInv
      <3> QED
        BY <1>0, <2>1, <2>3, <2>4, <3>1, InformedExit DEF RefuseSeen
    <2>5. CASE LoadSeen(a) \/ MissSeen(a) \/ CreateSeen(a)
      <3>1. pc'[a] # "idle" /\ UNCHANGED <<todo, scope, cur, dump, usn>>
        BY <1>0, <2>5 DEF LoadSeen, MissSeen, CreateSeen, scanVars, TypeOK
      <3> QED
        BY <2>1, <2>2, <2>3, <3>1, InformedKept
    <2> QED
      BY <1>5, <2>4, <2>5 DEF OpenSeen
  <1>6. ASSUME NEW p \in Pkgs, SkipItem(a, p) PROVE Informed(a)'
    <2>1. /\ p \in todo[a] /\ p \in scope[a] /\ pc[a] = "items"
          /\ todo'[a] = todo[a] \ {p}
          /\ UNCHANGED <<store, file, mem, pc, scope, dump, usn, cur, listed,
                         letters, waived>>
      BY <1>0, <1>6 DEF SkipItem, Visits, seenVars, scanVars, history,
                        TypeOK, AloneInv
    <2>2. ~HasUsable(dump[a], p)
      BY <1>6 DEF SkipItem, HasRevisions, HasUsable
    <2>3. \A n \in Copy(a) : n[1] # p
      BY <2>1, <2>2 DEF Informed
    <2>4. \A n : n \notin Of(p, Report(dump[a], usn[a]))
      BY <2>2, ReportUsable
    <2>5. /\ Copy(a)' = Copy(a)
          /\ \A n : Accounted(n)' = Accounted(n)
      BY <2>1 DEF Copy, Accounted
    <2>6. \A q \in cur'[a] \cup (scope'[a] \ todo'[a]) :
             \A n \in Of(q, Report(dump'[a], usn'[a])) : Accounted(n)'
      BY <2>1, <2>4, <2>5 DEF Informed
    <2>7. \A n \in Copy(a)' :
            /\ HasUsable(store', n[1])
            /\ <<n[1], n[2]>> \in listed' => Accounted(n)'
            /\ n[1] \notin todo'[a] => <<n[1], n[2]>> \in listed'
            /\ n[1] \in scope'[a] => HasUsable(dump'[a], n[1])
      BY <2>1, <2>3, <2>5 DEF Informed
    <2>8. \A l \in listed' : HasUsable(store', l[1])
      BY <2>1 DEF Informed
    <2> QED
      BY <2>1, <2>6, <2>7, <2>8 DEF Informed
  <1>7. ASSUME NEW p \in Pkgs, NothingNew(a, p) PROVE Informed(a)'
    <2>1. /\ p \in todo[a] /\ pc[a] = "items" /\ Reported(a, p)
          /\ Fresh(a, p) = {} /\ UNCHANGED <<letters, waived>>
      BY <1>7 DEF NothingNew, Visits, history
    <2> QED
      BY <2>1, InformedVisit DEF Accounted
  <1>8. ASSUME NEW p \in Pkgs, Send(a, p) PROVE Informed(a)'
    <2>1. /\ p \in todo[a] /\ pc[a] = "items" /\ Reported(a, p)
          /\ Fresh(a, p) \in SUBSET Notice /\ Deliver(Fresh(a, p))
          /\ waived' = waived
      BY <1>8, FreshType DEF Send, WritesTo, Visits
    <2>2. \A n \in Notice : /\ letters[n] > 0 => letters'[n] > 0
                            /\ n \in Fresh(a, p) => letters'[n] > 0
      BY <1>0, <2>1, DeliverCounts
    <2> QED
      BY <2>1, <2>2, InformedVisit DEF Accounted
  <1>9. ASSUME NEW p \in Pkgs, SendDeclined(a, p) PROVE Informed(a)'
    <2>1. /\ p \in todo[a] /\ pc[a] = "items" /\ Reported(a, p)
          /\ waived' = waived \cup Fresh(a, p) /\ letters' = letters
      BY <1>9 DEF SendDeclined, WritesTo, Visits
    <2> QED
      BY <2>1, InformedVisit DEF Accounted
  <1>10. ASSUME UpdateSeen(a) \/ CopySeen(a) PROVE Informed(a)'
    BY <1>10, InformedRecord
  <1>11. ASSUME EndCopy(a) PROVE Informed(a)'
    <2>1. /\ pc[a] = "copying" /\ pc'[a] = "items" /\ file' = Whole(mem[a])
          /\ UNCHANGED <<mem, scope, dump, usn, todo, cur, listed, store,
                         letters, waived>>
      BY <1>0, <1>11 DEF EndCopy, scanVars, history, TypeOK
    <2>2. Copy(a)' = Copy(a)
      BY <2>1 DEF Copy, Whole
    <2> QED
      BY <2>1, <2>2, InformedKept
  <1>12. ASSUME Ends(a) PROVE Informed(a)'
    <2>0. \A p \in Pkgs : Loads(a, p)
      BY DEF NoFatal, Loads
    <2>1. /\ todo[a] = {} /\ Exit(a) /\ pc[a] = "items"
          /\ UNCHANGED <<file, listed, store, letters, waived>>
      BY <1>12, <2>0 DEF Ends, Finish, LoadRaises, history
    <2>2. pc'[a] = "idle"
      BY <1>0, <2>1 DEF Exit, TypeOK
    <2>3. Copy(a)' = Copy(a)
      BY <2>1, <2>2 DEF Copy
    <2> QED
      BY <1>0, <2>1, <2>3, InformedExit
  <1> QED
    BY <1>0, <1>1, <1>2, <1>3, <1>4, <1>5, <1>6, <1>7, <1>8, <1>9, <1>10,
       <1>11, <1>12
       DEF Next, Environment, Proceed, Ends, VisitItem, Record, NoRecord

(* A scan that ends has told of every notice of a usable revision in its   *)
(* dump since that revision was last listed: where scans meet no fault, no *)
(* entry ends one, and a package that has a usable revision keeps one.     *)
(* (A scan cut short does not forget the revisions it has not come to.) *)
THEOREM FinishedScanInformed ==
  ASSUME NEW CONSTANT a, Alone(a), MaxFaults = 0, SteadyListing,
         "fatal" \notin Offered
  PROVE  Spec => []CleanExitInformed
  <1>1. Init => Informed(a) /\ NoFatal(a)
    BY DEF Init, Informed, Alone, Copy, NoFatal, Fatal, Nothing
  <1>2. /\ AloneInv(a) /\ NoFatal(a) /\ Informed(a) /\ [Next]_vars
        => Informed(a)' /\ NoFatal(a)'
    BY InformedStep, NoFatalStep
  <1>3. AloneInv(a) /\ Informed(a) => CleanExitInformed
    <2> SUFFICES ASSUME AloneInv(a), Informed(a), CleanExit(a),
                        NEW n \in Report(dump[a], usn[a]), n[1] \in scope[a]
                 PROVE  Accounted(n)
      BY DEF CleanExitInformed, Accounted, Alone
    <2>1. n \in Of(n[1], Report(dump[a], usn[a]))
      BY DEF Of
    <2> QED
      BY <2>1 DEF CleanExit, Informed
  <1> QED
    BY <1>1, <1>2, <1>3, AloneInit, AloneStep, PTL DEF Spec
=============================================================================
