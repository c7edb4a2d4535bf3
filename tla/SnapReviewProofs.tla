--------------------------- MODULE SnapReviewProofs ---------------------------
(***************************************************************************)
(* What holds of snap-review for every set of architectures, files, keys   *)
(* and values, every set of builds and options, and every way in which a   *)
(* module, nm, a write or the process may fail.                            *)
(***************************************************************************)
EXTENDS SnapReviewProps, TLAPS

(* While a review runs, its input is the blob of the store, and its output *)
(* differs from it only in rows of the architecture under review, by rows  *)
(* the build has; unless a module raises, once the state has been checked  *)
(* only if the snap is approved, and what has gone from the output is in   *)
(* the drift. *)
Merges ==
    /\ pc # "idle" => input = IF rev.state THEN saved ELSE {}
    /\ pc # "idle" => \A r \in Row : (r \in output) # (r \in input) =>
          /\ Tracked
          /\ r[1] = rev.build.arch
          /\ r \in output => r \in RowsOf(rev.build)
    /\ pc = "modules" /\ step <= 2 => output = input /\ drift = {}
    /\ pc = "state" => /\ Tracked
                       /\ step = 2
                       /\ drift = {}
                       /\ curr \subseteq RowsOf(rev.build)
                       /\ OfArch(rev.build.arch, output) = curr
    /\ pc \notin {"idle", "state"} /\ rc \notin {1, Killed} =>
          /\ ~rev.approved => output = input
          /\ \A r \in input : r \in output \/ r \in drift \/ r[2] \in Skipped
    /\ pc \notin {"idle", "state"} /\ Tracked /\ rev.approved /\ "functional" \in sections =>
          OfArch(rev.build.arch, output) \subseteq RowsOf(rev.build)

(* Until a module raises, the modules before the current one have their    *)
(* report. *)
Covers ==
    /\ pc \notin {"idle", "exited"} => rc \in {0, 1}
    /\ pc \in {"modules", "state"} /\ rc = 0 =>
          \A i \in 1..4 : i < step => Modules[i] \in sections
    /\ pc \in {"write", "copy", "report"} /\ rc = 0 => ModuleName \subseteq sections
    /\ StatusCoversAll

(* Once the output is written it is whole, or an error says that it is not. *)
Writes ==
    /\ pc \in {"write", "copy"} => rev.state
    /\ pc = "report" /\ rev.state =>
          outfile = Whole(output) \/ (outfile.state # "whole" /\ "error" \in findings)
    /\ pc = "exited" /\ rc \in {0, 2, 3} =>
          /\ rev.state => outfile = Whole(output) \/ (outfile.state # "whole" /\ rc = 2)
          /\ \A r \in drift : <<r[1], r[2], r[3]>> \in told

KeptIsTrue == kept => OfArch(rev.build.arch, saved) \subseteq RowsOf(rev.build)

IInv == TypeOK /\ Merges /\ Covers /\ Writes /\ DriftReported /\ KeptIsTrue

-----------------------------------------------------------------------------
(* Facts about the operators.                                              *)

LEMMA ReadableRows ==
    \A b, failed : Readable(b, failed) \subseteq RowsOf(b) /\ RowsOf(b) \subseteq Row
  BY DEF Readable, RowsOf

(* Drift looks at the earlier rows only... *)
LEMMA DriftOfEarlier == \A prev, now : Drift(prev, now) \subseteq prev
  BY DEF Drift

(* ...misses none but those of files that are skipped... *)
LEMMA DriftCovers ==
  ASSUME NEW prev, NEW now, NEW r \in prev, r \notin now
  PROVE  r \in Drift(prev, now) \/ r[2] \in Skipped
  <1>1. CASE r[2] \notin Listed(now)
    BY <1>1 DEF Drift
  <1>2. CASE r[2] \in Listed(now) /\ <<r[2], r[3]>> \notin Keyed(now)
    BY <1>2 DEF Drift
  <1>3. CASE <<r[2], r[3]>> \in Keyed(now)
    BY <1>3 DEF Drift
  <1> QED
    BY <1>1, <1>2, <1>3

(* ...and finds nothing when nothing is lost. *)
LEMMA NoDrift ==
  ASSUME NEW prev, NEW now, prev \subseteq now
  PROVE  Drift(prev, now) = {}
  BY DEF Drift, Listed, Keyed

LEMMA OfArchRows == \A a, R : OfArch(a, R) \subseteq R
  BY DEF OfArch

LEMMA AtFunctional ==
  ASSUME TypeOK, AtModule("functional")
  PROVE  step = 2
  BY DEF TypeOK, AtModule, Modules

LEMMA AtModuleType ==
  ASSUME TypeOK, NEW m, AtModule(m)
  PROVE  pc = "modules" /\ step \in 1..4 /\ step + 1 \in 1..5
  BY DEF TypeOK, AtModule, Modules

-----------------------------------------------------------------------------
(* The types.                                                              *)

LEMMA TypeInit == Init => TypeOK
  <1> SUFFICES ASSUME Init PROVE TypeOK
    OBVIOUS
  <1>1. kept \in BOOLEAN
    BY DEF Init
  <1> QED
    BY <1>1 DEF Init, TypeOK, Location, Absent

LEMMA TypeStep == TypeOK /\ Merges /\ [Next]_vars => TypeOK'
  <1> SUFFICES ASSUME TypeOK, Merges, [Next]_vars PROVE TypeOK'
    OBVIOUS
  <1> USE DEF TypeOK, Location, report, Section, Kinds
  <1>1. ASSUME NEW options \in Reviews, Start(options) PROVE TypeOK'
    <2>1. kept' \in BOOLEAN
      BY <1>1 DEF Start
    <2>2. input' \subseteq Row /\ output' \subseteq Row
      BY <1>1 DEF Start
    <2> QED
      BY <1>1, <2>1, <2>2 DEF Start
  <1>2. ASSUME NEW m \in ModuleName, NEW found \in SUBSET Kinds, RunChecks(m, found)
        PROVE TypeOK'
    BY <1>2, AtModuleType DEF RunChecks, Reports
  <1>3. ASSUME NEW m \in ModuleName, ModuleRaises(m) PROVE TypeOK'
    BY <1>3, AtModuleType DEF ModuleRaises
  <1>4. ASSUME NEW m \in ModuleName, ModuleExits(m) PROVE TypeOK'
    BY <1>4 DEF ModuleExits
  <1>5. ASSUME NEW failed \in SUBSET Files, ReadState(failed) PROVE TypeOK'
    BY <1>5, ReadableRows, OfArchRows DEF ReadState
  <1>6. ASSUME NEW found \in SUBSET {"error"}, CheckState(found) PROVE TypeOK'
    <2>1. drift' \subseteq input' /\ output' \subseteq Row
      BY <1>6, DriftOfEarlier, OfArchRows DEF CheckState
    <2>2. step' \in 1..5
      BY <1>6 DEF CheckState, Reports, Merges
    <2>3. findings' \subseteq Kinds /\ sections' \subseteq Section
      BY <1>6 DEF CheckState, Reports, ModuleName
    <2> QED
      BY <1>6, <2>1, <2>2, <2>3 DEF CheckState
  <1>7. CASE EndModules
    BY <1>7 DEF EndModules
  <1>8. CASE Unlink
    BY <1>8 DEF Unlink, Absent
  <1>9. CASE UnlinkRaises
    BY <1>9 DEF UnlinkRaises
  <1>10. CASE Copy
    BY <1>10 DEF Copy, Whole
  <1>11. CASE CopyFails
    BY <1>11 DEF CopyFails, Absent, Torn
  <1>12. CASE Report
    <2>1. {<<r[1], r[2], r[3]>> : r \in drift} \subseteq Archs \X Files \X Keys
      BY DEF Row
    <2> QED
      BY <1>12, <2>1 DEF Report
  <1>13. CASE Kill
    BY <1>13 DEF Kill, Torn, Killed
  <1>14. CASE StoreKeeps
    BY <1>14 DEF StoreKeeps, Forget
  <1>15. CASE StoreDiscards
    BY <1>15 DEF StoreDiscards, Forget
  <1>16. CASE UNCHANGED vars
    BY <1>16 DEF vars
  <1>17. CASE StateRaises
    BY <1>17 DEF StateRaises, Merges
  <1> QED
    BY <1>1, <1>2, <1>3, <1>4, <1>5, <1>6, <1>7, <1>8, <1>9, <1>10, <1>11,
       <1>12, <1>13, <1>14, <1>15, <1>16, <1>17 DEF Next

-----------------------------------------------------------------------------
(* The input, the output and the drift.                                    *)

LEMMA MergesStep == TypeOK /\ Merges /\ Covers /\ [Next]_vars => Merges'
  <1> SUFFICES ASSUME TypeOK, Merges, Covers, [Next]_vars PROVE Merges'
    OBVIOUS
  <1> USE DEF TypeOK, Merges, Tracked, Killed, report
  <1>1. ASSUME NEW options \in Reviews, Start(options) PROVE Merges'
    BY <1>1 DEF Start
  <1>2. ASSUME NEW m \in ModuleName, NEW found \in SUBSET Kinds, RunChecks(m, found)
        PROVE Merges'
    BY <1>2, AtModuleType DEF RunChecks, Reports
  <1>3. ASSUME NEW m \in ModuleName, ModuleRaises(m) PROVE Merges'
    BY <1>3, AtModuleType DEF ModuleRaises, Covers
  <1>4. ASSUME NEW m \in ModuleName, ModuleExits(m) PROVE Merges'
    BY <1>4, AtModuleType DEF ModuleExits, Covers
  <1>5. ASSUME NEW failed \in SUBSET Files, ReadState(failed) PROVE Merges'
    <2>1. /\ pc = "modules"
          /\ pc' = "state"
          /\ step = 2
          /\ output = input
          /\ drift = {}
      BY <1>5, AtModuleType, AtFunctional DEF ReadState
    <2>2. /\ curr' \subseteq RowsOf(rev.build)
          /\ OfArch(rev.build.arch, output') = curr'
      BY <1>5, ReadableRows DEF ReadState, OfArch, RowsOf
    <2>3. \A r \in Row : (r \in output') # (r \in input) =>
            r[1] = rev.build.arch /\ (r \in output' => r \in RowsOf(rev.build))
      BY <1>5, <2>1, <2>2 DEF ReadState, OfArch, RowsOf
    <2> QED
      BY <1>5, <2>1, <2>2, <2>3 DEF ReadState
  <1>6. ASSUME NEW found \in SUBSET {"error"}, CheckState(found) PROVE Merges'
    <2>1. /\ pc = "state"
          /\ pc' = "modules"
          /\ step' = 3
          /\ UNCHANGED <<saved, rev, input, curr>>
      BY <1>6 DEF CheckState, Reports
    <2>2. CASE rev.approved
      <3>1. output' = output /\ drift' = Drift(OfArch(rev.build.arch, input), curr)
        BY <1>6, <2>2 DEF CheckState
      <3>2. ASSUME NEW r \in input
            PROVE  r \in output \/ r \in drift' \/ r[2] \in Skipped
        <4>1. CASE r[1] # rev.build.arch
          BY <2>1, <4>1
        <4>2. CASE r[1] = rev.build.arch
          <5>1. r \in OfArch(rev.build.arch, input)
            BY <4>2 DEF OfArch
          <5>2. r \in curr \/ r \in Drift(OfArch(rev.build.arch, input), curr)
                  \/ r[2] \in Skipped
            BY <5>1, DriftCovers
          <5> QED
            BY <2>1, <3>1, <5>2, OfArchRows
        <4> QED
          BY <4>1, <4>2
      <3> QED
        BY <2>1, <2>2, <3>1, <3>2
    <2>3. CASE ~rev.approved
      <3>1. output' = (output \ OfArch(rev.build.arch, output))
                         \cup OfArch(rev.build.arch, input)
        BY <1>6, <2>3 DEF CheckState
      <3>2. output' = input
        BY <2>1, <3>1 DEF OfArch
      <3> QED
        BY <2>1, <2>3, <3>2
    <2> QED
      BY <2>2, <2>3
  <1>7. CASE EndModules
    BY <1>7 DEF EndModules
  <1>8. CASE Unlink
    BY <1>8 DEF Unlink
  <1>9. CASE UnlinkRaises
    BY <1>9 DEF UnlinkRaises, Covers
  <1>10. CASE Copy
    BY <1>10 DEF Copy
  <1>11. CASE CopyFails
    BY <1>11 DEF CopyFails
  <1>12. CASE Report
    BY <1>12 DEF Report, Covers
  <1>13. CASE Kill
    BY <1>13 DEF Kill
  <1>14. CASE StoreKeeps
    BY <1>14 DEF StoreKeeps, Forget
  <1>15. CASE StoreDiscards
    BY <1>15 DEF StoreDiscards, Forget
  <1>16. CASE UNCHANGED vars
    BY <1>16 DEF vars
  <1>17. CASE StateRaises
    BY <1>17 DEF StateRaises
  <1> QED
    BY <1>1, <1>2, <1>3, <1>4, <1>5, <1>6, <1>7, <1>8, <1>9, <1>10, <1>11,
       <1>12, <1>13, <1>14, <1>15, <1>16, <1>17 DEF Next

-----------------------------------------------------------------------------
(* The status and the reports of the modules.                              *)

LEMMA CoversStep == TypeOK /\ Merges /\ Covers /\ [Next]_vars => Covers'
  <1> SUFFICES ASSUME TypeOK, Merges, Covers, [Next]_vars PROVE Covers'
    OBVIOUS
  <1> USE DEF TypeOK, Covers, StatusCoversAll, Killed, report
  <1>0. ASSUME NEW m, AtModule(m)
        PROVE  \A i \in 1..4 : i < step + 1 => i < step \/ Modules[i] = m
    BY <1>0 DEF AtModule
  <1>1. ASSUME NEW options \in Reviews, Start(options) PROVE Covers'
    BY <1>1 DEF Start
  <1>2. ASSUME NEW m \in ModuleName, NEW found \in SUBSET Kinds, RunChecks(m, found)
        PROVE Covers'
    BY <1>0, <1>2, AtModuleType DEF RunChecks, Reports
  <1>3. ASSUME NEW m \in ModuleName, ModuleRaises(m) PROVE Covers'
    BY <1>3, AtModuleType DEF ModuleRaises
  <1>4. ASSUME NEW m \in ModuleName, ModuleExits(m) PROVE Covers'
    BY <1>4, AtModuleType DEF ModuleExits
  <1>5. ASSUME NEW failed \in SUBSET Files, ReadState(failed) PROVE Covers'
    BY <1>5, AtModuleType DEF ReadState
  <1>6. ASSUME NEW found \in SUBSET {"error"}, CheckState(found) PROVE Covers'
    <2>1. Modules[2] = "functional"
      BY DEF Modules
    <2>2. pc = "state" /\ pc' = "modules" /\ step = 2 /\ step' = 3 /\ rc' = rc
            /\ sections' = sections \cup {"functional"}
      BY <1>6 DEF CheckState, Reports, Merges
    <2>3. \A i \in 1..4 : i < 3 => i < 2 \/ i = 2
      OBVIOUS
    <2> QED
      BY <2>1, <2>2, <2>3
  <1>7. CASE EndModules
    <2>1. step = 5
      BY <1>7 DEF EndModules, Modules
    <2>2. rc = 0 => \A i \in 1..4 : Modules[i] \in sections
      BY <1>7, <2>1 DEF EndModules
    <2>3. rc = 0 => ModuleName \subseteq sections
      BY <2>2 DEF Modules, ModuleName
    <2> QED
      BY <1>7, <2>3 DEF EndModules
  <1>8. CASE Unlink
    BY <1>8 DEF Unlink
  <1>9. CASE UnlinkRaises
    BY <1>9 DEF UnlinkRaises
  <1>10. CASE Copy
    BY <1>10 DEF Copy
  <1>11. CASE CopyFails
    BY <1>11 DEF CopyFails
  <1>12. CASE Report
    BY <1>12 DEF Report
  <1>13. CASE Kill
    BY <1>13 DEF Kill
  <1>14. CASE StoreKeeps
    BY <1>14 DEF StoreKeeps, Forget
  <1>15. CASE StoreDiscards
    BY <1>15 DEF StoreDiscards, Forget
  <1>16. CASE UNCHANGED vars
    BY <1>16 DEF vars
  <1>17. CASE StateRaises
    BY <1>17 DEF StateRaises
  <1> QED
    BY <1>1, <1>2, <1>3, <1>4, <1>5, <1>6, <1>7, <1>8, <1>9, <1>10, <1>11,
       <1>12, <1>13, <1>14, <1>15, <1>16, <1>17 DEF Next

-----------------------------------------------------------------------------
(* The output file.                                                        *)

LEMMA WritesStep == TypeOK /\ Covers /\ Writes /\ [Next]_vars => Writes'
  <1> SUFFICES ASSUME TypeOK, Covers, Writes, [Next]_vars PROVE Writes'
    OBVIOUS
  <1> USE DEF TypeOK, Writes, Killed, report
  <1>1. ASSUME NEW options \in Reviews, Start(options) PROVE Writes'
    BY <1>1 DEF Start
  <1>2. ASSUME NEW m \in ModuleName, NEW found \in SUBSET Kinds, RunChecks(m, found)
        PROVE Writes'
    BY <1>2, AtModuleType DEF RunChecks
  <1>3. ASSUME NEW m \in ModuleName, ModuleRaises(m) PROVE Writes'
    BY <1>3, AtModuleType DEF ModuleRaises
  <1>4. ASSUME NEW m \in ModuleName, ModuleExits(m) PROVE Writes'
    BY <1>4 DEF ModuleExits
  <1>5. ASSUME NEW failed \in SUBSET Files, ReadState(failed) PROVE Writes'
    BY <1>5 DEF ReadState
  <1>6. ASSUME NEW found \in SUBSET {"error"}, CheckState(found) PROVE Writes'
    BY <1>6 DEF CheckState
  <1>7. CASE EndModules
    BY <1>7 DEF EndModules
  <1>8. CASE Unlink
    BY <1>8 DEF Unlink
  <1>9. CASE UnlinkRaises
    BY <1>9 DEF UnlinkRaises
  <1>10. CASE Copy
    BY <1>10 DEF Copy
  <1>11. CASE CopyFails
    BY <1>11 DEF CopyFails, Absent, Torn
  <1>12. CASE Report
    BY <1>12 DEF Report, Covers
  <1>13. CASE Kill
    BY <1>13 DEF Kill
  <1>14. CASE StoreKeeps
    BY <1>14 DEF StoreKeeps, Forget
  <1>15. CASE StoreDiscards
    BY <1>15 DEF StoreDiscards, Forget
  <1>16. CASE UNCHANGED vars
    BY <1>16 DEF vars
  <1>17. CASE StateRaises
    BY <1>17 DEF StateRaises
  <1> QED
    BY <1>1, <1>2, <1>3, <1>4, <1>5, <1>6, <1>7, <1>8, <1>9, <1>10, <1>11,
       <1>12, <1>13, <1>14, <1>15, <1>16, <1>17 DEF Next

-----------------------------------------------------------------------------
(* What the store keeps.                                                   *)

(* The only step that changes the blob of the store replaces it by the     *)
(* output of a review whose drift has been reported. *)
LEMMA KeepsOutput ==
  ASSUME TypeOK, Merges, Covers, Writes, StoreKeeps
  PROVE  /\ saved' = output
         /\ input = saved
         /\ ModuleName \subseteq sections
         /\ rc \notin {1, Killed}
         /\ \A r \in drift : <<r[1], r[2], r[3]>> \in told
  <1>1. outfile.state = "whole" /\ saved' = outfile.rows /\ pc = "exited"
          /\ rc \in {0, 2, 3} /\ rev.state
    BY DEF StoreKeeps
  <1>2. outfile = Whole(output)
    BY <1>1 DEF Writes
  <1> QED
    BY <1>1, <1>2 DEF Whole, Merges, Covers, StatusCoversAll, Writes, Killed

LEMMA LedgerStep ==
  ASSUME TypeOK, Merges, Covers, Writes, DriftReported, KeptIsTrue, [Next]_vars
  PROVE  DriftReported' /\ KeptIsTrue'
  <1>1. CASE StoreKeeps
    <2>1. ASSUME NEW r \in ever'
          PROVE  r \in saved' \/ <<r[1], r[2], r[3]>> \in told' \/ r[2] \in Skipped
      <3>1. r \in ever \/ r \in saved'
        BY <1>1 DEF StoreKeeps
      <3>2. told' = told
        BY <1>1 DEF StoreKeeps
      <3>3. r \in saved => r \in output \/ r \in drift \/ r[2] \in Skipped
        BY <1>1, KeepsOutput DEF Merges, StoreKeeps
      <3> QED
        BY <1>1, <3>1, <3>2, <3>3, KeepsOutput DEF DriftReported
    <2>2. kept' => OfArch(rev.build.arch, output) \subseteq RowsOf(rev.build)
      BY <1>1, KeepsOutput DEF StoreKeeps, Merges, Tracked, ModuleName
    <2>3. rev' = rev /\ saved' = output
      BY <1>1, KeepsOutput DEF StoreKeeps
    <2> QED
      BY <2>1, <2>2, <2>3 DEF DriftReported, KeptIsTrue
  <1>2. ASSUME NEW options \in Reviews, Start(options) PROVE DriftReported' /\ KeptIsTrue'
    BY <1>2 DEF Start, DriftReported, KeptIsTrue
  <1>3. CASE Report
    BY <1>3 DEF Report, DriftReported, KeptIsTrue
  <1>4. CASE UNCHANGED <<saved, rev, ever, told, kept>>
    BY <1>4 DEF DriftReported, KeptIsTrue
  <1> QED
    BY <1>1, <1>2, <1>3, <1>4
       DEF Next, vars, RunChecks, ModuleRaises, ModuleExits, ReadState, CheckState,
           StateRaises, EndModules, Unlink, UnlinkRaises, Copy, CopyFails, Kill, StoreDiscards,
           report

-----------------------------------------------------------------------------
(* The invariant.                                                          *)

LEMMA Invariance == Spec => []IInv
  <1>1. Init => IInv
    <2>1. Init => TypeOK
      BY TypeInit
    <2>2. Init => Merges /\ Covers /\ Writes /\ DriftReported /\ KeptIsTrue
      BY DEF Init, Merges, Covers, StatusCoversAll, Writes, DriftReported, KeptIsTrue
    <2> QED
      BY <2>1, <2>2 DEF IInv
  <1>2. IInv /\ [Next]_vars => IInv'
    BY TypeStep, MergesStep, CoversStep, WritesStep, LedgerStep DEF IInv
  <1> QED
    BY <1>1, <1>2, PTL DEF Spec

(* The variables of snap-review keep their types; in particular it warns   *)
(* only of rows that its input has. *)
THEOREM TypeCorrect == Spec => []TypeOK
  BY Invariance, PTL DEF IInv

(* Whatever the store ever had on record of a base snap it has still, or a *)
(* review has warned of it, or the overrides skip its file. *)
THEOREM NoSilentDrift == Spec => []DriftReported
  BY Invariance, PTL DEF IInv

(* A build whose state the store has kept shows no drift when it is        *)
(* reviewed again. *)
THEOREM WarnsOnce == Spec => []KeptIsQuiet
  <1>1. IInv => KeptIsQuiet
    BY NoDrift DEF IInv, KeptIsTrue, KeptIsQuiet
  <1> QED
    BY <1>1, Invariance, PTL

(* A status other than 1 comes with the report of every module. *)
THEOREM StatusIsSound == Spec => []StatusCoversAll
  BY Invariance, PTL DEF IInv, Covers

(* A review that ends without an error has written its state, whole. *)
THEOREM OutputIsWhole == Spec => []CleanExitWrites
  <1>1. IInv => CleanExitWrites
    BY DEF IInv, Writes, CleanExitWrites
  <1> QED
    BY <1>1, Invariance, PTL

(* The store's record changes only by, and only to, what an approved base  *)
(* snap of that architecture has. *)
THEOREM RecordIsGuarded == Spec => RecordsOnlyReviewed
  <1>1. IInv /\ [Next]_vars =>
          [\A r \in Row : (r \in saved) # (r \in saved') =>
              /\ rev.build.base
              /\ rev.approved
              /\ r[1] = rev.build.arch
              /\ r \in saved' => r \in RowsOf(rev.build)]_vars
    <2> SUFFICES ASSUME IInv, [Next]_vars, NEW r \in Row, (r \in saved) # (r \in saved')
                 PROVE  /\ rev.build.base
                        /\ rev.approved
                        /\ r[1] = rev.build.arch
                        /\ r \in saved' => r \in RowsOf(rev.build)
      OBVIOUS
    <2>1. StoreKeeps
      BY DEF Next, vars, Start, RunChecks, ModuleRaises, ModuleExits, ReadState,
             CheckState, StateRaises, EndModules, Unlink, UnlinkRaises, Copy,
             CopyFails, Report, Kill, StoreDiscards, report
    <2>2. /\ saved' = output
          /\ input = saved
          /\ rc \notin {1, Killed}
      BY <2>1, KeepsOutput DEF IInv
    <2>3. pc = "exited"
      BY <2>1 DEF StoreKeeps
    <2> QED
      BY <2>2, <2>3 DEF IInv, Merges, Tracked
  <1> QED
    BY <1>1, Invariance, PTL DEF Spec, RecordsOnlyReviewed
=============================================================================
