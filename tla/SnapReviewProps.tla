--------------------------- MODULE SnapReviewProps ---------------------------
(***************************************************************************)
(* The properties of snap-review and of the state it keeps.                *)
(***************************************************************************)
EXTENDS SnapReview

(* No drift goes unreported.  Whatever a base snap once had on record (a   *)
(* file, its metadata, a symbol) is on record still, or a report has       *)
(* warned of it, or its file is one the overrides skip: over any sequence  *)
(* of builds of several architectures, of reviews while the snap is not    *)
(* approved, of nm failing, of modules raising, of writes failing and of   *)
(* processes killed (check_state_base_files, "since last review").         *)
DriftReported ==
    \A r \in ever : \/ r \in saved
                    \/ <<r[1], r[2], r[3]>> \in told
                    \/ r[2] \in Skipped

(* Each drift is reported once: when the store has kept the blob of a      *)
(* review, the same build reviewed again, with nm working, has no drift.   *)
KeptIsQuiet ==
    kept => Drift(OfArch(rev.build.arch, saved), RowsOf(rev.build)) = {}

(* The state on record changes only by the review of a base snap that is   *)
(* approved ("preserve previous state if not an approved snap"), only for  *)
(* the architecture reviewed, and only to what the build really has. *)
RecordsOnlyReviewed ==
    [][\A r \in Row : (r \in saved) # (r \in saved') =>
          /\ rev.build.base
          /\ rev.approved
          /\ r[1] = rev.build.arch
          /\ r \in saved' => r \in RowsOf(rev.build)]_vars

(* A review that finds nothing wrong, or only warnings, has written its    *)
(* state, whole: no stale or partial --state-output goes with it. *)
CleanExitWrites ==
    pc = "exited" /\ rc \in {0, 3} /\ rev.state => outfile = Whole(output)

(* "1 checks not run due to fatal error": a status other than 1 says that  *)
(* the report of every module was printed, although the loop over the      *)
(* modules goes on after one that raises. *)
StatusCoversAll ==
    pc = "exited" /\ rc \in {0, 2, 3} =>
        ModuleName \subseteq sections
=============================================================================
