------------------------------ MODULE NoticeScan ------------------------------
(***************************************************************************)
(* The store scan of snap-updates-available and rock-updates-available     *)
(* (reviewtools/available.py, with get_pkg_revisions of store.py and send  *)
(* of email.py).                                                           *)
(*                                                                         *)
(* A scan reads a USN database, a dump of the store and the "seen db" (the *)
(* record of the notices already reported), walks the items of the dump,   *)
(* mails for each the notices not yet recorded, and then rewrites the      *)
(* record.  The record is the only state that outlives a scan: whatever is *)
(* wrong in it is a notice lost for ever or a publisher nagged.            *)
(*                                                                         *)
(* A notice is a triple <<package, revision, USN>>.  Which USNs affect     *)
(* which revision (the comparison of package versions) is the constant     *)
(* Affects: the manifest of a published revision does not change.          *)
(***************************************************************************)
EXTENDS Naturals

CONSTANTS
    Pkgs,           \* names of store items
    Revs,           \* revision numbers
    Usns,           \* Ubuntu security notices
    Affects,        \* the notices that hold once their USN is published
    Scanners,       \* processes that run the tool
    Recorders,      \* the scanners given --seen-db
    Scopes,         \* sets of packages a scan may be limited to (--pkg-name)
    Replies,        \* what email.send may do, see Reply
    SameFs,         \* is the seen db on the file system of the temporary dir?
    SteadyListing,  \* does a package that has a usable revision keep one?
    Offered,        \* the qualities entries of the store take on, see Quality
    MaxChanges,     \* bound on changes of the store and of the USN db
    MaxFaults,      \* bound on kills and failed deliveries
    MaxLetters      \* where the count of letters per notice saturates

Listing == Pkgs \X Revs
Notice  == Pkgs \X Revs \X Usns

(* email.send returns True, returns False (the operator answers no, or an  *)
(* RT_EMAIL_* address does not parse), raises before delivery, or raises   *)
(* once the server has accepted the message (s.quit() fails).              *)
Reply == {"sent", "declined", "raised", "raised_late"}

(* How get_pkg_revisions takes an entry of the dump: absent; reported on;  *)
(* left out without an error (empty manifest, release without USNs); left  *)
(* out with an error; or it raises what nobody catches (one to report on   *)
(* without "channels" or "architectures" is a KeyError).  An item that     *)
(* fails as a whole (a required field or the publisher address is bad, or  *)
(* a list of channels or architectures cannot be printed) is one whose     *)
(* entries are all broken. *)
Quality == {"unlisted", "usable", "mute", "broken", "fatal"}

ASSUME NoticeScanAssumption ==
    /\ Affects \subseteq Notice
    /\ Recorders \subseteq Scanners
    /\ Scopes \subseteq SUBSET Pkgs
    /\ Replies \subseteq Reply
    /\ Offered \subseteq Quality
    /\ SameFs \in BOOLEAN
    /\ SteadyListing \in BOOLEAN
    /\ MaxChanges \in Nat
    /\ MaxFaults \in Nat
    /\ MaxLetters \in Nat \ {0}

VARIABLES
    store,    \* the store: quality of every listed revision
    usnDb,    \* the USNs published so far
    file,     \* the seen db on disk
    pc,       \* where each scanner is
    scope,    \* the packages its scan covers
    dump,     \* store_db as the scan read it
    usn,      \* secnot_db as the scan read it
    mem,      \* seen_db in memory
    todo,     \* the items still to visit
    cur,      \* the packages whose report went out and is not yet recorded
    errs,     \* the packages in the scan's errors
    \* history, and the bounded counters of the environment
    listed,   \* the revisions usable when their package was last scanned
    letters,  \* letters naming a notice since its revision was last listed
    sent,     \* the notices ever mailed
    waived,   \* the notices ever in a report whose send returned False
    changes,
    faults

seenVars == <<file, mem>>
scanVars == <<scope, dump, usn>>
history  == <<letters, sent, waived>>
vars == <<store, usnDb, file, pc, scope, dump, usn, mem, todo, cur, errs,
          listed, letters, sent, waived, changes, faults>>

FileState == {"absent", "whole", "torn"}
Location  == {"idle", "open_seen", "create_seen", "items", "update", "copying"}

TypeOK ==
    /\ store \in [Listing -> Quality]
    /\ usnDb \subseteq Usns
    /\ file \in [state: FileState, rows: SUBSET Notice]
    /\ pc \in [Scanners -> Location]
    /\ scope \in [Scanners -> SUBSET Pkgs]
    /\ dump \in [Scanners -> [Listing -> Quality]]
    /\ usn \in [Scanners -> SUBSET Usns]
    /\ mem \in [Scanners -> SUBSET Notice]
    /\ todo \in [Scanners -> SUBSET Pkgs]
    /\ cur \in [Scanners -> SUBSET Pkgs]
    /\ errs \in [Scanners -> SUBSET Pkgs]
    /\ listed \subseteq Listing
    /\ letters \in [Notice -> 0..MaxLetters]
    /\ sent \subseteq Notice
    /\ waived \subseteq Notice
    /\ changes \in 0..MaxChanges
    /\ faults \in 0..MaxFaults

-----------------------------------------------------------------------------
(* What a scan computes from a dump d and a USN database u.                *)

Nothing == [l \in Listing |-> "unlisted"]

Usable(d) == {l \in Listing : d[l] = "usable"}

(* The notices of the revisions get_pkg_revisions kept. *)
Report(d, u) == {n \in Affects : d[<<n[1], n[2]>>] = "usable" /\ n[3] \in u}

Of(p, N) == {n \in N : n[1] = p}

(* A faulty Fresh: one new notice brings back all the others. *)
RepeatsAll(s, p) ==
    IF Of(p, Report(dump[s], usn[s])) \subseteq mem[s]
    THEN {} ELSE Of(p, Report(dump[s], usn[s]))

(* The notices the next letter to p would name. *)
Fresh(s, p) == Of(p, Report(dump[s], usn[s])) \ mem[s]

HasRevisions(s, p) == \E r \in Revs : <<p, r>> \in Usable(dump[s])

(* The entries that end every scan that comes to them. *)
Fatal(d) == {l \in Listing : d[l] = "fatal"}

(* get_pkg_revisions returns, or raises what scan_store catches. *)
Loads(s, p) == \A r \in Revs : <<p, r>> \notin Fatal(dump[s])

(* The loop is at p, and its item loads. *)
Visits(s, p) ==
    /\ pc[s] = "items"
    /\ p \in todo[s]
    /\ Loads(s, p)

(* scan_store's errors once p's item has been loaded. *)
ErrorsWith(s, p) ==
    errs[s] \cup {q \in {p} : \E r \in Revs : dump[s][<<p, r>>] = "broken"}

(* Faulty variants of Recorded, for the mutants: the package is recorded   *)
(* in place of the notice; old revisions are kept; the other packages are  *)
(* dropped; the notices of this letter replace the earlier ones. *)
RecordsPackage(s, p) ==
    mem[s] \cup {<<n[1], n[2], n[1]>> : n \in Of(p, Report(dump[s], usn[s]))}

KeepsOldRevisions(s, p) == mem[s] \cup Of(p, Report(dump[s], usn[s]))

DropsOtherPackages(s, p) == Of(p, Report(dump[s], usn[s]))

ReplacesNotices(s, p) == {n \in mem[s] : n[1] # p} \cup Fresh(s, p)

(* seen_db once the report of p is recorded: the revisions that            *)
(* get_pkg_revisions did not keep are forgotten.                           *)
Recorded(s, p) ==
    {n \in mem[s] : n[1] = p => <<n[1], n[2]>> \in Usable(dump[s])}
        \cup Of(p, Report(dump[s], usn[s]))

Whole(rows) == [state |-> "whole", rows |-> rows]
Torn        == [state |-> "torn", rows |-> {}]

Init ==
    /\ store = Nothing
    /\ usnDb = {}
    /\ file = [state |-> "absent", rows |-> {}]
    /\ pc = [s \in Scanners |-> "idle"]
    /\ scope = [s \in Scanners |-> {}]
    /\ dump = [s \in Scanners |-> Nothing]
    /\ usn = [s \in Scanners |-> {}]
    /\ mem = [s \in Scanners |-> {}]
    /\ todo = [s \in Scanners |-> {}]
    /\ cur = [s \in Scanners |-> {}]
    /\ errs = [s \in Scanners |-> {}]
    /\ listed = {}
    /\ letters = [n \in Notice |-> 0]
    /\ sent = {}
    /\ waived = {}
    /\ changes = 0
    /\ faults = 0

-----------------------------------------------------------------------------
(* The environment.                                                        *)

(* The USN database only moves forward. *)
PublishUsn(u) ==
    /\ changes < MaxChanges
    /\ u \notin usnDb
    /\ usnDb' = usnDb \cup {u}
    /\ changes' = changes + 1
    /\ UNCHANGED <<store, seenVars, pc, scanVars, todo, cur, errs, listed,
                   history, faults>>

(* A revision enters a channel, leaves its last one, or its entry changes. *)
ChangeStore(p, r, q) ==
    /\ changes < MaxChanges
    /\ q # store[<<p, r>>]
    /\ SteadyListing /\ (\E x \in Revs : store[<<p, x>>] = "usable") =>
           \E x \in Revs : (IF x = r THEN q ELSE store[<<p, x>>]) = "usable"
    /\ store' = [store EXCEPT ![<<p, r>>] = q]
    /\ changes' = changes + 1
    /\ UNCHANGED <<usnDb, seenVars, pc, scanVars, todo, cur, errs, listed,
                   history, faults>>

-----------------------------------------------------------------------------
(* The scan.                                                               *)

(* The usable revisions, once the packages of a scan have been looked up  *)
(* in the store again. *)
Relisted(sc) == {l \in listed : l[1] \notin sc}
                    \cup {l \in Usable(store) : l[1] \in sc}

(* The tool starts and reads the USN db and the dump.  A revision usable   *)
(* in this dump and not in the one before is new in the raw store db: the  *)
(* letters about it are counted from here.                                 *)
Start(s, sc) ==
    /\ pc[s] = "idle"
    /\ pc' = [pc EXCEPT ![s] = "open_seen"]
    /\ scope' = [scope EXCEPT ![s] = sc]
    /\ usn' = [usn EXCEPT ![s] = usnDb]
    /\ dump' = [dump EXCEPT ![s] = store]
    /\ todo' = [todo EXCEPT ![s] = sc]
    /\ errs' = [errs EXCEPT ![s] = {}]
    /\ listed' = Relisted(sc)
    /\ letters' = [n \in Notice |->
                     IF <<n[1], n[2]>> \in Relisted(sc) \ listed
                     THEN 0 ELSE letters[n]]
    /\ UNCHANGED <<store, usnDb, seenVars, cur, sent, waived, changes, faults>>

(* The process ends, and its memory with it. *)
Exit(s) ==
    /\ pc' = [pc EXCEPT ![s] = "idle"]
    /\ scope' = [scope EXCEPT ![s] = {}]
    /\ dump' = [dump EXCEPT ![s] = Nothing]
    /\ usn' = [usn EXCEPT ![s] = {}]
    /\ mem' = [mem EXCEPT ![s] = {}]
    /\ todo' = [todo EXCEPT ![s] = {}]
    /\ cur' = [cur EXCEPT ![s] = {}]
    /\ errs' = [errs EXCEPT ![s] = {}]

(* A faulty LoadSeen: only the packages in scope are read. *)
LoadsScopeOnly(s) ==
    /\ pc[s] = "open_seen"
    /\ s \in Recorders => file.state = "whole"
    /\ mem' = [mem EXCEPT ![s] = IF s \in Recorders
                                THEN {n \in file.rows : n[1] \in scope[s]}
                                ELSE {}]
    /\ pc' = [pc EXCEPT ![s] = "items"]
    /\ UNCHANGED <<store, usnDb, file, scanVars, todo, cur, errs, listed,
                   history, changes, faults>>

(* read_seen_db finds a record and loads it; without --seen-db the scan    *)
(* goes on with an empty one. *)
LoadSeen(s) ==
    /\ pc[s] = "open_seen"
    /\ s \in Recorders => file.state = "whole"
    /\ mem' = [mem EXCEPT ![s] = IF s \in Recorders THEN file.rows ELSE {}]
    /\ pc' = [pc EXCEPT ![s] = "items"]
    /\ UNCHANGED <<store, usnDb, file, scanVars, todo, cur, errs, listed,
                   history, changes, faults>>

(* read_seen_db found no file... *)
MissSeen(s) ==
    /\ pc[s] = "open_seen"
    /\ s \in Recorders
    /\ file.state = "absent"
    /\ pc' = [pc EXCEPT ![s] = "create_seen"]
    /\ UNCHANGED <<store, usnDb, seenVars, scanVars, todo, cur, errs, listed,
                   history, changes, faults>>

(* ...and writes an empty one, over any that appeared in between. *)
CreateSeen(s) ==
    /\ pc[s] = "create_seen"
    /\ file' = Whole({})
    /\ mem' = [mem EXCEPT ![s] = {}]
    /\ pc' = [pc EXCEPT ![s] = "items"]
    /\ UNCHANGED <<store, usnDb, scanVars, todo, cur, errs, listed, history,
                   changes, faults>>

(* The record does not parse: read_file_as_json_dict raises and nothing on *)
(* the way to the top catches it. *)
RefuseSeen(s) ==
    /\ pc[s] = "open_seen"
    /\ s \in Recorders
    /\ file.state = "torn"
    /\ Exit(s)
    /\ UNCHANGED <<store, usnDb, file, listed, history, changes, faults>>

(* Faulty variants of SkipItem: the loop ends at such an item; the item is *)
(* never done with. *)
StopsAtItem(s, p) ==
    /\ Visits(s, p)
    /\ ~HasRevisions(s, p)
    /\ todo' = [todo EXCEPT ![s] = {}]
    /\ errs' = [errs EXCEPT ![s] = ErrorsWith(s, p)]
    /\ UNCHANGED <<store, usnDb, seenVars, pc, scanVars, cur, listed, history,
                   changes, faults>>

StaysAtItem(s, p) ==
    /\ Visits(s, p)
    /\ ~HasRevisions(s, p)
    /\ errs' = [errs EXCEPT ![s] = ErrorsWith(s, p)]
    /\ UNCHANGED <<store, usnDb, seenVars, pc, scanVars, todo, cur, listed,
                   history, changes, faults>>

(* An item with no revision to report on is passed over, and its record is *)
(* left as it is. *)
SkipItem(s, p) ==
    /\ Visits(s, p)
    /\ ~HasRevisions(s, p)
    /\ todo' = [todo EXCEPT ![s] = @ \ {p}]
    /\ errs' = [errs EXCEPT ![s] = ErrorsWith(s, p)]
    /\ UNCHANGED <<store, usnDb, seenVars, pc, scanVars, cur, listed, history,
                   changes, faults>>

(* The scan goes on to _update_seen for p. *)
Reported(s, p) ==
    /\ pc' = [pc EXCEPT ![s] = "update"]
    /\ cur' = [cur EXCEPT ![s] = {p}]
    /\ errs' = [errs EXCEPT ![s] = ErrorsWith(s, p)]
    /\ UNCHANGED <<store, usnDb, seenVars, scanVars, todo, listed, changes,
                   faults>>

(* Every notice is in the record: no letter, but the record is rewritten. *)
NothingNew(s, p) ==
    /\ Visits(s, p)
    /\ HasRevisions(s, p)
    /\ Fresh(s, p) = {}
    /\ Reported(s, p)
    /\ UNCHANGED history

WritesTo(s, p) ==
    /\ Visits(s, p)
    /\ HasRevisions(s, p)
    /\ Fresh(s, p) # {}

Deliver(N) ==
    /\ sent' = sent \cup N
    /\ letters' = [n \in Notice |-> IF n \in N /\ letters[n] < MaxLetters
                                    THEN letters[n] + 1 ELSE letters[n]]

(* email.send returned True. *)
Send(s, p) ==
    /\ "sent" \in Replies
    /\ WritesTo(s, p)
    /\ Deliver(Fresh(s, p))
    /\ Reported(s, p)
    /\ UNCHANGED waived

(* email.send returned False; the caller does not look. *)
SendDeclined(s, p) ==
    /\ "declined" \in Replies
    /\ WritesTo(s, p)
    /\ waived' = waived \cup Fresh(s, p)
    /\ Reported(s, p)
    /\ UNCHANGED <<letters, sent>>

(* The item is given up: its error is noted, its record left alone. *)
GiveUp(s, p) ==
    /\ faults < MaxFaults
    /\ faults' = faults + 1
    /\ todo' = [todo EXCEPT ![s] = @ \ {p}]
    /\ errs' = [errs EXCEPT ![s] = @ \cup {p}]
    /\ UNCHANGED <<store, usnDb, seenVars, pc, scanVars, cur, listed, waived,
                   changes>>

(* A faulty SendRaised: the error is noted and the report still recorded. *)
RecordsUnsent(s, p) ==
    /\ "raised" \in Replies
    /\ WritesTo(s, p)
    /\ pc' = [pc EXCEPT ![s] = "update"]
    /\ cur' = [cur EXCEPT ![s] = {p}]
    /\ errs' = [errs EXCEPT ![s] = @ \cup {p}]
    /\ UNCHANGED <<store, usnDb, seenVars, scanVars, todo, listed, history,
                   changes, faults>>

(* email.send raised before the server accepted the message... *)
SendRaised(s, p) ==
    /\ "raised" \in Replies
    /\ WritesTo(s, p)
    /\ GiveUp(s, p)
    /\ UNCHANGED <<letters, sent>>

(* ...or after. *)
SendRaisedLate(s, p) ==
    /\ "raised_late" \in Replies
    /\ WritesTo(s, p)
    /\ Deliver(Fresh(s, p))
    /\ GiveUp(s, p)

(* Without --seen-db there is nothing to record. *)
NoRecord(s) ==
    /\ pc[s] = "update"
    /\ s \notin Recorders
    /\ todo' = [todo EXCEPT ![s] = @ \ cur[s]]
    /\ cur' = [cur EXCEPT ![s] = {}]
    /\ pc' = [pc EXCEPT ![s] = "items"]
    /\ UNCHANGED <<store, usnDb, seenVars, scanVars, errs, listed, history,
                   changes, faults>>

(* _update_seen: the record is changed in memory, written to a temporary   *)
(* file and renamed over the seen db... *)
UpdateSeen(s) ==
    /\ pc[s] = "update"
    /\ s \in Recorders
    /\ SameFs
    /\ \E p \in cur[s] :
          /\ mem' = [mem EXCEPT ![s] = Recorded(s, p)]
          /\ file' = Whole(Recorded(s, p))
          /\ todo' = [todo EXCEPT ![s] = @ \ {p}]
    /\ cur' = [cur EXCEPT ![s] = {}]
    /\ pc' = [pc EXCEPT ![s] = "items"]
    /\ UNCHANGED <<store, usnDb, scanVars, errs, listed, history, changes,
                   faults>>

(* ...or, from another file system, copied over it: shutil.move empties    *)
(* the seen db first... *)
CopySeen(s) ==
    /\ pc[s] = "update"
    /\ s \in Recorders
    /\ ~SameFs
    /\ \E p \in cur[s] :
          /\ mem' = [mem EXCEPT ![s] = Recorded(s, p)]
          /\ todo' = [todo EXCEPT ![s] = @ \ {p}]
    /\ file' = Torn
    /\ cur' = [cur EXCEPT ![s] = {}]
    /\ pc' = [pc EXCEPT ![s] = "copying"]
    /\ UNCHANGED <<store, usnDb, scanVars, errs, listed, history, changes,
                   faults>>

(* ...and fills it; two copies at once may leave a file that no longer     *)
(* parses. *)
EndCopy(s) ==
    /\ pc[s] = "copying"
    /\ \/ file' = Whole(mem[s])
       \/ /\ \E t \in Scanners \ {s} : pc[t] = "copying"
          /\ file' = Torn
    /\ pc' = [pc EXCEPT ![s] = "items"]
    /\ UNCHANGED <<store, usnDb, mem, scanVars, todo, cur, errs, listed,
                   history, changes, faults>>

(* No item is left: the tool warns of the errors and exits, with status 1  *)
(* if there are any. *)
Finish(s) ==
    /\ pc[s] = "items"
    /\ todo[s] = {}
    /\ Exit(s)
    /\ UNCHANGED <<store, usnDb, file, listed, history, changes, faults>>

(* An entry of p raises what nobody catches: the scan ends there, as will  *)
(* every later one. *)
LoadRaises(s, p) ==
    /\ pc[s] = "items"
    /\ p \in todo[s]
    /\ ~Loads(s, p)
    /\ Exit(s)
    /\ UNCHANGED <<store, usnDb, file, listed, history, changes, faults>>

(* The scan is killed. *)
Crash(s) ==
    /\ pc[s] # "idle"
    /\ faults < MaxFaults
    /\ faults' = faults + 1
    /\ Exit(s)
    /\ UNCHANGED <<store, usnDb, file, listed, history, changes>>

-----------------------------------------------------------------------------
Environment ==
    \/ \E u \in Usns : PublishUsn(u)
    \/ \E p \in Pkgs, r \in Revs, q \in Offered : ChangeStore(p, r, q)

VisitItem(s) == \E p \in Pkgs : \/ SkipItem(s, p)
                                \/ NothingNew(s, p)
                                \/ Send(s, p)
                                \/ SendDeclined(s, p)

Fault(s) == \/ Crash(s)
            \/ \E p \in Pkgs : SendRaised(s, p) \/ SendRaisedLate(s, p)

OpenSeen(s) == LoadSeen(s) \/ MissSeen(s) \/ CreateSeen(s) \/ RefuseSeen(s)

Record(s) == NoRecord(s) \/ UpdateSeen(s) \/ CopySeen(s) \/ EndCopy(s)

Proceed(s) == \/ OpenSeen(s) \/ VisitItem(s) \/ Record(s) \/ Finish(s)
              \/ \E p \in Pkgs : LoadRaises(s, p)

Next ==
    \/ Environment
    \/ \E s \in Scanners, sc \in Scopes : Start(s, sc)
    \/ \E s \in Scanners : Proceed(s) \/ Fault(s)

Spec == Init /\ [][Next]_vars

(* A started process runs, and the tool is started again and again (a      *)
(* periodic job); nothing obliges the store, the USNs or a fault to occur. *)
FairSpec ==
    /\ Spec
    /\ \A s \in Scanners : /\ WF_vars(Proceed(s))
                           /\ WF_vars(\E sc \in Scopes : Start(s, sc))
=============================================================================
