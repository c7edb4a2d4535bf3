---------------------------- MODULE NoticeScanProps ----------------------------
(***************************************************************************)
(* The properties of the notice scan.                                      *)
(***************************************************************************)
EXTENDS NoticeScan

(* Nothing is lost.  Whatever the scans, however many run at once and      *)
(* wherever they die, a notice is in the record (on disk, or in the memory *)
(* that will be written there) only if a letter named it or send declined  *)
(* that letter: _update_seen runs after _email_report_for_pkg, and only if *)
(* that did not raise. *)
RecordedWasReported ==
    /\ file.rows \subseteq sent \cup waived
    /\ \A s \in Scanners : mem[s] \subseteq sent \cup waived

(* The report whose letter has gone out is already accounted for when      *)
(* _update_seen is about to record it. *)
PendingWasReported ==
    \A s \in Scanners : pc[s] = "update" =>
        \A p \in cur[s] : Of(p, Report(dump[s], usn[s])) \subseteq sent \cup waived

CleanExit(s) == pc[s] = "items" /\ todo[s] = {} /\ errs[s] = {}

(* A scan that exits with status 0 has informed: every notice of a usable  *)
(* revision in its dump was mailed since the revision was last listed (or  *)
(* its letter was declined).  In particular a revision that is reverted to *)
(* has all its USNs reported again (bin/snap-updates-available).  This is  *)
(* of scans that all run to their end: one that is cut short forgets none  *)
(* of the revisions whose item it has not come to. *)
CleanExitInformed ==
    \A s \in Scanners : CleanExit(s) =>
        \A n \in Report(dump[s], usn[s]) :
            n[1] \in scope[s] => letters[n] > 0 \/ n \in waived

(* "a new snap with no previous revisions will have all USNs that affect   *)
(* it reported" (bin/snap-updates-available): as above, and a letter that  *)
(* was declined does not count. *)
CleanExitMailed ==
    \A s \in Scanners : CleanExit(s) =>
        \A n \in Report(dump[s], usn[s]) : n[1] \in scope[s] => n \in sent

(* "inform, not nag" (bin/snap-updates-available): while a revision stays  *)
(* in the store no two letters name the same notice of it. *)
NeverNagged ==
    \A n \in Notice : <<n[1], n[2]>> \in listed => letters[n] <= 1

(* Every fault costs a publisher at most one more letter about a notice:   *)
(* a crash before the record is moved into place, or a delivery that       *)
(* raises after the server took the message. *)
OneLetterPerFault == \A n \in Notice : letters[n] <= 1 + faults

(* A scan limited to one package (--pkg-name) rewrites the whole record,   *)
(* yet never changes what is recorded of another package. *)
ScopeRespected ==
    [][file'.state = "whole" =>
         \A s \in Scanners : pc[s] \in {"update", "copying"} =>
           \A p \in Pkgs \ scope[s] : Of(p, file'.rows) = Of(p, file.rows)]_vars

(* A recorded notice is taken out of the record only for a revision that   *)
(* the dump of some scan under way does not offer as usable; never because *)
(* another item, another revision or a new USN was recorded. *)
ForgetsOnlyDeparted ==
    [][\A n \in file.rows \ file'.rows :
         \E s \in Scanners : /\ pc[s] # "idle"
                             /\ <<n[1], n[2]>> \notin Usable(dump[s])]_vars

(* A notice of a revision that stays usable is eventually recorded (and by *)
(* RecordedWasReported it has then been reported), whatever errors other   *)
(* revisions and items have, unless there is an entry that ends every      *)
(* scan: what the dump lists after that one is never reached (scan_store,  *)
(* get_pkg_revisions). *)
EventuallyRecorded ==
    \A n \in Affects :
        n \in Report(store, usnDb) ~>
            \/ n \in file.rows
            \/ n \notin Report(store, usnDb)
            \/ Fatal(store) # {}

(* A scan ends: no sequence of errors, skipped items or faults holds it. *)
ScanEnds == \A s \in Scanners : pc[s] # "idle" ~> pc[s] = "idle"

-----------------------------------------------------------------------------
(* The abstract promise, implemented by a scanner that runs alone.  Its    *)
(* ledger is the record on disk with the report whose letter has gone out. *)
Pending == UNION {UNION {Of(p, Report(dump[s], usn[s])) : p \in cur[s]}
                    : s \in Scanners}

Promise == INSTANCE InformOnce WITH told <- file.rows \cup Pending

KeepsPromise == Promise!Spec
=============================================================================
