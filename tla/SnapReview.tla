------------------------------ MODULE SnapReview ------------------------------
(***************************************************************************)
(* snap-review (bin/snap-review) and the state it keeps of base snaps      *)
(* (reviewtools/sr_functional.py).                                         *)
(*                                                                         *)
(* snap-review runs the review modules one after the other, each on its    *)
(* own report, writes the state blob (--state-output) and exits with a     *)
(* status.  The functional module records in the blob the files of a base  *)
(* snap, their metadata and their symbols, per architecture, and warns of  *)
(* what an earlier blob (--state-input) has and this snap has not.         *)
(*                                                                         *)
(* A fact is <<file, key, value>>: a key is a piece of metadata or a       *)
(* symbol.  A blob is a set of rows <<architecture, file, key, value>>; an *)
(* architecture without rows and one without an entry are read alike.      *)
(***************************************************************************)
EXTENDS Naturals, Sequences

CONSTANTS
    Archs,      \* architectures
    Files,
    Metadata,   \* the keys every file has: type, mode, owner
    Symbols,    \* the keys nm finds
    Values,
    Skipped,    \* the files func_base_state_files_overrides leaves out
    Reviews     \* the reviews of the snap: a build of it, and the options

Keys == Metadata \cup Symbols
Fact == Files \X Keys \X Values
Row  == Archs \X Files \X Keys \X Values

(* base: is it a base snap?  approved: is it one whose state is compared?  *)
(* state and sdk: the options --state-output (with --state-input) and --sdk. *)
Build  == [arch : Archs, base : BOOLEAN, facts : SUBSET Fact]
Review == [build : Build, approved : BOOLEAN, state : BOOLEAN, sdk : BOOLEAN]

ASSUME SnapReviewAssumption ==
    /\ Metadata \cap Symbols = {}
    /\ Reviews \subseteq Review
    /\ \A o \in Reviews : \A f, g \in o.build.facts :
          /\ f[1] = g[1] /\ f[2] = g[2] => f = g
          /\ \A k \in Metadata : \E h \in o.build.facts : h[1] = f[1] /\ h[2] = k

VARIABLES
    saved,      \* the blob the store keeps for the snap
    outfile,    \* the --state-output file
    pc,
    rev,        \* the review under way, or the last one
    input,      \* overrides["state_input"]
    output,     \* overrides["state_output"]
    curr,       \* the rows the functional module read
    step,       \* the position in Modules of the one to run
    sections,   \* the modules whose report there is
    findings,   \* the kinds of finding in them
    drift,      \* the rows the review warns of
    rc,         \* the exit status; 4 if the process was killed
    \* history
    ever,       \* the rows ever saved
    told,       \* <<architecture, file, key>> ever warned of in a report
    kept        \* did the store keep the state the last review recorded?

report == <<sections, findings, drift>>
vars == <<saved, outfile, pc, rev, input, output, curr, step, sections,
          findings, drift, rc, ever, told, kept>>

Modules  == <<"declaration", "functional", "lint", "security">>
ModuleName == {"declaration", "functional", "lint", "security"}
Section  == ModuleName \cup {"runtime-errors"}
Kinds    == {"error", "warn"}
Location == {"idle", "modules", "state", "write", "copy", "report", "exited"}
Killed   == 4

TypeOK ==
    /\ saved \subseteq Row
    /\ outfile \in [state : {"absent", "whole", "torn"}, rows : SUBSET Row]
    /\ pc \in Location
    /\ rev \in Reviews
    /\ input \subseteq Row
    /\ output \subseteq Row
    /\ curr \subseteq Row
    /\ step \in 1..5
    /\ sections \subseteq Section
    /\ findings \subseteq Kinds
    /\ drift \subseteq input
    /\ rc \in 0..4
    /\ ever \subseteq Row
    /\ told \subseteq Archs \X Files \X Keys
    /\ kept \in BOOLEAN

-----------------------------------------------------------------------------
(* The state of a base snap.                                               *)

RowsOf(b) == {r \in Row : r[1] = b.arch /\ <<r[2], r[3], r[4]>> \in b.facts}

OfArch(a, R) == {r \in R : r[1] = a}

(* The functional module keeps state of base snaps, given --state-output.  *)
Tracked == rev.build.base /\ rev.state

(* _find_symbols: nm fails on some files. *)
Readable(b, failed) ==
    {r \in RowsOf(b) : r[2] \in failed => r[3] \in Metadata}

Listed(R) == {r[2] : r \in R}
Keyed(R)  == {<<r[2], r[3]>> : r \in R}

(* A faulty Drift: only the files that are gone. *)
OnlyMissingFiles(prev, now) ==
    {r \in prev : r[2] \notin Listed(now) \cup Skipped}

(* A faulty Drift: what is new counts as well. *)
Differences(prev, now) == (prev \ now) \cup (now \ prev)

(* What check_state_base_files warns of: the files that are gone, unless   *)
(* they are to be skipped; in those that are left, the metadata and the    *)
(* symbols that are gone; and those that differ.  New ones are ignored.    *)
Drift(prev, now) ==
    LET missing   == {r \in prev : r[2] \notin Listed(now) \cup Skipped}
        lost      == {r \in prev : /\ r[2] \in Listed(now)
                                   /\ <<r[2], r[3]>> \notin Keyed(now)}
        different == {r \in prev : <<r[2], r[3]>> \in Keyed(now) /\ r \notin now}
    IN missing \cup lost \cup different

Whole(rows) == [state |-> "whole", rows |-> rows]
Absent      == [state |-> "absent", rows |-> {}]
Torn        == [state |-> "torn", rows |-> {}]

Init ==
    /\ saved = {}
    /\ outfile = Absent
    /\ pc = "idle"
    /\ rev \in Reviews
    /\ input = {}
    /\ output = {}
    /\ curr = {}
    /\ step = 1
    /\ sections = {}
    /\ findings = {}
    /\ drift = {}
    /\ rc = 0
    /\ ever = {}
    /\ told = {}
    /\ kept = FALSE

-----------------------------------------------------------------------------
(* snap-review.                                                            *)

(* The tool starts on a build, with the blob of the store as its input (an *)
(* empty one if there is none) and the output a copy of it. *)
Start(options) ==
    /\ pc = "idle"
    /\ rev' = options
    /\ input' = IF options.state THEN saved ELSE {}
    /\ output' = input'
    /\ curr' = {}
    /\ step' = 1
    /\ sections' = {}
    /\ findings' = {}
    /\ drift' = {}
    /\ rc' = 0
    /\ kept' = FALSE
    /\ pc' = "modules"
    /\ UNCHANGED <<saved, outfile, ever, told>>

AtModule(m) == pc = "modules" /\ step \in DOMAIN Modules /\ Modules[step] = m

(* A module ends, and its report is kept. *)
Reports(m, found) ==
    /\ sections' = sections \cup {m}
    /\ findings' = findings \cup found
    /\ step' = step + 1

(* A module other than the one that keeps state runs its checks. *)
RunChecks(m, found) ==
    /\ AtModule(m)
    /\ ~(m = "functional" /\ Tracked)
    /\ Reports(m, found)
    /\ UNCHANGED <<saved, outfile, pc, rev, input, output, curr, drift, rc,
                   ever, told, kept>>

(* A faulty ModuleRaises: the status is left alone. *)
RaisesUnnoticed(m) ==
    /\ AtModule(m)
    /\ step' = step + 1
    /\ UNCHANGED <<saved, outfile, pc, rev, input, output, curr, sections,
                   findings, drift, rc, ever, told, kept>>

(* A module raises, in its constructor or in a check: its report is lost,  *)
(* the status is 1, and the next module runs.                              *)
ModuleRaises(m) ==
    /\ AtModule(m)
    /\ rc' = 1
    /\ step' = step + 1
    /\ UNCHANGED <<saved, outfile, pc, rev, input, output, curr, sections,
                   findings, drift, ever, told, kept>>

(* error() raises SystemExit, which the loop over the modules does not     *)
(* catch: there is no report, and no output is written. *)
ModuleExits(m) ==
    /\ AtModule(m)
    /\ rc' = 1
    /\ pc' = "exited"
    /\ UNCHANGED <<saved, outfile, rev, input, output, curr, step, report,
                   ever, told, kept>>

(* A faulty ReadState: the earlier rows stay. *)
AddsState(failed) ==
    /\ AtModule("functional")
    /\ Tracked
    /\ curr' = Readable(rev.build, failed)
    /\ output' = output \cup curr'
    /\ pc' = "state"
    /\ UNCHANGED <<saved, outfile, rev, input, step, report, rc, ever, told, kept>>

(* The constructor of the functional module reads the snap, and its rows   *)
(* replace in the output those of its architecture. *)
ReadState(failed) ==
    /\ AtModule("functional")
    /\ Tracked
    /\ curr' = Readable(rev.build, failed)
    /\ output' = (output \ OfArch(rev.build.arch, output)) \cup curr'
    /\ pc' = "state"
    /\ UNCHANGED <<saved, outfile, rev, input, step, report, rc, ever, told, kept>>

(* A faulty CheckState: the output keeps what a snap that is not approved  *)
(* has. *)
RecordsUnapproved(found) ==
    /\ pc = "state"
    /\ drift' = IF rev.approved THEN Drift(OfArch(rev.build.arch, input), curr)
                ELSE {}
    /\ Reports("functional", found \cup {k \in {"warn"} : drift' # {}})
    /\ pc' = "modules"
    /\ UNCHANGED <<saved, outfile, rev, input, output, curr, rc, ever, told, kept>>

(* The last of its checks, check_state_base_files; found is what the       *)
(* checks before it report.  A snap that is not approved is not compared,  *)
(* and its earlier state is put back into the output.                      *)
CheckState(found) ==
    /\ pc = "state"
    /\ IF rev.approved
       THEN /\ drift' = Drift(OfArch(rev.build.arch, input), curr)
            /\ UNCHANGED output
       ELSE /\ output' = (output \ OfArch(rev.build.arch, output))
                             \cup OfArch(rev.build.arch, input)
            /\ UNCHANGED drift
    /\ Reports("functional", found \cup {k \in {"warn"} : drift' # {}})
    /\ pc' = "modules"
    /\ UNCHANGED <<saved, outfile, rev, input, curr, rc, ever, told, kept>>

(* The module raises once its rows are in the output, as when the earlier   *)
(* entry cannot be read (_deserialize) or a check before the last raises:  *)
(* the rows stay in the output, and nothing has been compared. *)
StateRaises ==
    /\ pc = "state"
    /\ rc' = 1
    /\ step' = step + 1
    /\ pc' = "modules"
    /\ UNCHANGED <<saved, outfile, rev, input, output, curr, report, ever,
                   told, kept>>

EndModules ==
    /\ pc = "modules"
    /\ step \notin DOMAIN Modules
    /\ pc' = IF rev.state THEN "write" ELSE "report"
    /\ UNCHANGED <<saved, outfile, rev, input, output, curr, step, report, rc,
                   ever, told, kept>>

(* The output file is removed, if there is one... *)
Unlink ==
    /\ pc = "write"
    /\ outfile' = Absent
    /\ pc' = "copy"
    /\ UNCHANGED <<saved, rev, input, output, curr, step, report, rc, ever,
                   told, kept>>

(* (unlink itself may fail, and nothing catches that) *)
UnlinkRaises ==
    /\ pc = "write"
    /\ outfile # Absent
    /\ rc' = 1
    /\ pc' = "exited"
    /\ UNCHANGED <<saved, outfile, rev, input, output, curr, step, report,
                   ever, told, kept>>

(* ...and a temporary file is copied to its place... *)
Copy ==
    /\ pc = "copy"
    /\ outfile' = Whole(output)
    /\ pc' = "report"
    /\ UNCHANGED <<saved, rev, input, output, curr, step, report, rc, ever,
                   told, kept>>

(* A faulty CopyFails: nobody hears of it. *)
FailsUnnoticed ==
    /\ pc = "copy"
    /\ outfile' \in {Absent, Torn}
    /\ pc' = "report"
    /\ UNCHANGED <<saved, rev, input, output, curr, step, report, rc, ever,
                   told, kept>>

(* ...or that fails: "state-output-write". *)
CopyFails ==
    /\ pc = "copy"
    /\ outfile' \in {Absent, Torn}
    /\ sections' = sections \cup {"runtime-errors"}
    /\ findings' = findings \cup {"error"}
    /\ pc' = "report"
    /\ UNCHANGED <<saved, rev, input, output, curr, step, drift, rc,
                   ever, told, kept>>

(* complete_report, and the exit: status 1 stays, and with --sdk any error *)
(* or warning makes it 1. *)
Report ==
    /\ pc = "report"
    /\ rc' = IF rc = 1 \/ (rev.sdk /\ findings # {}) THEN 1
             ELSE IF "error" \in findings THEN 2
             ELSE IF "warn" \in findings THEN 3
             ELSE 0
    /\ told' = told \cup {<<r[1], r[2], r[3]>> : r \in drift}
    /\ pc' = "exited"
    /\ UNCHANGED <<saved, outfile, rev, input, output, curr, step, report,
                   ever, kept>>

Kill ==
    /\ pc \notin {"idle", "exited"}
    /\ \/ UNCHANGED outfile
       \/ pc = "copy" /\ outfile' = Torn
    /\ rc' = Killed
    /\ pc' = "exited"
    /\ UNCHANGED <<saved, rev, input, output, curr, step, report, ever, told, kept>>

-----------------------------------------------------------------------------
(* The process is gone, and its memory with it. *)
Forget ==
    /\ pc' = "idle"
    /\ input' = {}
    /\ output' = {}
    /\ curr' = {}
    /\ step' = 1
    /\ sections' = {}
    /\ findings' = {}
    /\ drift' = {}
    /\ rc' = 0

(* The store, which is not in this repository.  It may keep the blob of a  *)
(* review that ended with a status other than 1, "checks not run due to    *)
(* fatal error"; it reviews the builds of a snap one at a time.            *)
StoreKeeps ==
    /\ pc = "exited"
    /\ rc \in {0, 2, 3}
    /\ rev.state
    /\ outfile.state = "whole"
    /\ saved' = outfile.rows
    /\ ever' = ever \cup outfile.rows
    /\ kept' = (rev.build.base /\ rev.approved)
    /\ Forget
    /\ UNCHANGED <<outfile, rev, told>>

StoreDiscards ==
    /\ pc = "exited"
    /\ Forget
    /\ UNCHANGED <<saved, outfile, rev, ever, told, kept>>

Next ==
    \/ \E options \in Reviews : Start(options)
    \/ \E m \in ModuleName : \/ \E found \in SUBSET Kinds : RunChecks(m, found)
                             \/ ModuleRaises(m)
                             \/ ModuleExits(m)
    \/ \E failed \in SUBSET Files : ReadState(failed)
    \/ \E found \in SUBSET {"error"} : CheckState(found)
    \/ StateRaises
    \/ EndModules
    \/ Unlink \/ UnlinkRaises \/ Copy \/ CopyFails
    \/ Report
    \/ Kill
    \/ StoreKeeps \/ StoreDiscards

Spec == Init /\ [][Next]_vars
=============================================================================
