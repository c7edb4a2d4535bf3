# review-tools in TLA+

review-tools is what the Snap Store runs on every upload, and what tells
publishers that their snaps and rocks carry packages with security notices.
This directory holds TLA+ models of the parts whose correctness rests on state
kept between runs or shared between processes, on the order of steps, or on
rules that interact; the TLC
runs that check them on small instances; and theorems that TLAPS proves for
every value of the constants.

Run from this directory:

    tlc -config NoticeScanSerial.cfg MCNoticeScan
    tlapm NoticeScanProofs.tla

## 1. The system

| Part | Source | State it keeps | Operations |
|---|---|---|---|
| Notice scan | `reviewtools/available.py`, `email.py`, `bin/*-updates-available` | the seen db (file): package, revision, USNs reported | `scan_store`, `read_seen_db`, `_email_report_for_pkg`, `_update_seen`, `send` |
| Manifests and releases | `reviewtools/store.py` | none (pure) | `get_pkg_revisions`, `get_secnots_for_manifest`, `get_ubuntu_release_from_manifest_*` |
| USN database, versions | `reviewtools/usn.py`, `debversion.py` | none (pure) | `read_usn_db`, `DebVersion`, `compare` |
| Review driver | `bin/snap-review`, `reviewtools/modules.py` | reports, runtime errors, exit status; the `--state-output` file | `run_all_checks`, `_run_module_checks`, `complete_report`, `main` |
| State of base snaps | `reviewtools/sr_functional.py` | the state blob: per architecture, files, metadata, symbols | the constructor, `check_state_base_files` |
| Declaration review | `reviewtools/sr_declaration.py` | the declarations, results | `_verify_declaration`, `_ensure_snap_declaration_defaults`, `_verify_iface` and the chain of checks below it |
| Unpacking, temporary directories | `reviewtools/common.py` | `UNPACK_DIR`, `TMP_DIR`, cached file lists, directories under `/tmp` | `unpack_*`, `create_tempdir`, `cleanup_unpack` |
| Lint and security reviews | `sr_lint.py`, `sr_security.py` | results only | some hundred `check_*` methods, run in the order of their names; those of apps, plugs and slots assume what others found |
| Rock review | `rr_common.py` | results only | the files of a rock's manifest |
| Overrides | `overrides.py` | data | none |
| Tools | the rest of `bin/` | none | command lines, formatting, store requests |

How they interact.  A review tool unpacks the snap once per process; the
driver constructs each review module and runs its checks, all of them writing
to a report of their own; the functional module also writes into the overrides
that the driver passed in, and the driver writes these out as the state
output, which the store keeps and passes to the next review.  The notice scan
does not review anything: it joins a USN database and a dump of the store
(both produced elsewhere) through the manifest code, mails the publishers and
rewrites the seen db.  The seen db and the state blob are the only data of the
program that are meant to outlive a process.  Directories under `/tmp` or
`SNAP_USER_COMMON` outlive it when it is killed or fails, and every tool sweeps
such directories of the others at its own exit, going by their age alone.

Where it is hard:

* *Notice scan.*  Delivery and recording are two steps; several scans may run;
  each rewrites the whole record from memory; revisions come, go and come back;
  errors of one item must not touch another.  Correct means: nothing is
  recorded that was not reported, a scan that ends well has informed, nobody is
  told twice.
* *Declaration review.*  Two declarations, two sides, three types of
  constraint, allow and deny, scoping, defaults, alternatives that stop early
  in opposite senses, and exceptions.  Correct means: the "Review rules" that
  head `sr_declaration.py`.
* *Review driver and base-snap state.*  The loop goes on after a module that
  raises and stops at one that exits; state is absorbed before it is compared;
  the output is removed before it is rewritten.  Correct means: no drift goes
  unreported over any history of reviews, and the exit status tells the truth.
* *Temporary directories.*  Each process makes, moves and removes its own and
  sweeps those of others that look stale; any step may fail or be overtaken by a
  sweep.  Correct means: a tool leaves nothing but for a known reason, nobody
  loses a directory in use, and what is left is removed in the end.
* *Notices of a manifest.*  The release is guessed from several fields; the
  packages come from parts, `primed-stage-packages`, `dpkg.list` and overrides;
  the version of a notice may be that of the source package; kernels are versioned
  by their ABI.  Correct means: exactly the notices that concern what the
  package contains, each of them in the letter or the report.
* *Lint.*  A check reads values that another one has to have looked at, and an
  exception in one loses the findings of all; three reviews resolve a plug to an
  interface in three ways.  Correct means: a snap that passes is what every check
  took it for.

`PROJECT.json` lists the hazards one by one with the lines where they bite and
the properties that cover them.

## 2. Modules

| Module | Models |
|---|---|
| `InformOnce` | the abstract promise of the notices: a ledger decides what a letter may name |
| `NoticeScan`, `NoticeScanProps` | the scan step by step; its properties, and the refinement of `InformOnce` |
| `InformOnceProofs`, `NoticeScanProofs` | theorems of the two |
| `Declaration`, `DeclarationProps` | the declaration review; the review rules as properties |
| `DeclarationProofs` | theorems about all declarations |
| `SnapReview`, `SnapReviewProps` | the driver composed with the functional module; their properties |
| `SnapReviewProofs` | theorems about all histories of reviews |
| `Workspace`, `WorkspaceProps` | the temporary directories of several processes; their properties |
| `WorkspaceProofs` | theorems for any number of processes and directories |
| `DebVersion` | the comparison of Debian versions, as recursive functions |
| `DebVersionProps` | the order of versions in the words of the Debian policy |
| `DebVersionProofs` | the two are the same, and an order, for versions of any length |
| `Secnots`, `SecnotsProps` | from a manifest and the USN database to the letter or report; their properties |
| `SecnotsProofs` | theorems about all manifests |
| `Lint`, `LintProps` | how apps, hooks, plugs and slots of a `snap.yaml` are reviewed; what the checks guarantee together |
| `LintProofs` | theorems about all files |
| `MC*` | instances for TLC |

Operators named `A faulty ...` in their comment are not part of a model: each
is a variant of the definition after it with a plausible bug, used to see that
a property would notice.

### Notice scan

A *notice* is a package, a revision and a USN.  `file` is the seen db,
`mem[s]` the dictionary `seen_db` of scan `s`, `dump[s]` and `usn[s]` what it
read, `todo[s]` the items left, `cur[s]` the item whose report went out and is
not recorded yet, `errs[s]` the dictionary `errors`.  `listed`, `letters`,
`sent` and `waived` are history.

| Action | Code |
|---|---|
| `Start` | `scan_store` up to the loop, without the seen db |
| `LoadSeen`, `MissSeen`, `CreateSeen`, `RefuseSeen` | `read_seen_db`: found, absent, created, not JSON |
| `SkipItem` | an item without revisions (`continue` at 452), or that `get_pkg_revisions` refuses |
| `NothingNew`, `Send`, `SendDeclined` | `_email_report_for_pkg`: empty body, `send` true, `send` false |
| `SendRaised`, `SendRaisedLate` | `send` raises before, or after, the server took the letter |
| `NoRecord`, `UpdateSeen` | no `--seen-db`; `_update_seen` with a rename |
| `CopySeen`, `EndCopy` | `_update_seen` when `shutil.move` has to copy |
| `Finish`, `LoadRaises`, `Crash` | the end of the tool; an entry that `get_pkg_revisions` raises a `KeyError` on, which nothing catches; a kill |
| `PublishUsn`, `ChangeStore` | the environment |

Abstracted: how versions compare (the constant `Affects`: which USNs affect
which revision once published; a manifest never changes), which errors make an
entry unusable (`Quality`; an entry is "mute", "broken" or "fatal" according to
whether it is passed over in silence, counts as an error or ends the scan),
addresses and texts.  `_update_seen`'s dictionary
of lists is the set of its triples.  The order of the items is arbitrary.

### Declaration review

One behaviour is one review: `Verify`, `EnsureDefaults` (or `DefaultsRaise`),
then each plug, slot and reference once, in any order (`VerifyItem`,
`RejectItem`, `ItemRaises`), and `Finish`.  What one item yields is the pure
operator `Judgement` over `Constraint`, `CheckRule` and the four checks, each
named after the method it translates.  Alternatives are sequences, because the
walks stop early and what they reach matters (`Reached`, `NameUnchecked`).
An attribute value is the set of the strings in it, and a constraint on an
attribute a set of languages: that is what `_check_attrib` compares, with the
regular expressions taken for the sets they accept.  `short` has the plugs that
are given in the abbreviated form, which `_allowed_iface_reference` does not take
for plugs of their interface unless they are named like it.  `given` is the declaration
as handed in, kept to compare with `decl`, the one with the defaults added.

Left out: the formats `_verify_declaration` checks other than the keys each
constraint may have, `publisher-id` and `snap-id`-like keys, the conversion of
the strings "true" and "4", the two kinds of alternatives `_check_attrib` raises on
when it comes to them (lists in a list and unknown special values, 824-827 and
838-841), and the texts of the results.

### Review driver and state of base snaps

`saved` is what the store keeps, `outfile` the `--state-output` file, `input`
and `output` the two entries of the overrides, `curr` the state the functional
module read, `step` the module to run, `sections` the reports there are,
`findings` the kinds of result in them, `drift` what the review warns of.
`ever`, `told` and `kept` are history.  `told` is never reset: a row that was
warned of once, and comes back, may change again without `DriftReported`
noticing.

| Action | Code |
|---|---|
| `Start` | `main` up to `run_all_checks` |
| `RunChecks`, `ModuleRaises`, `ModuleExits` | `_run_module_checks`: a report, an exception, `error()` |
| `ReadState`, `CheckState`, `StateRaises` | the functional module on a base snap: its constructor, its last check, an exception in between |
| `EndModules`, `Unlink`, `UnlinkRaises`, `Copy`, `CopyFails` | writing the state output |
| `Report` | `complete_report` and the exit |
| `Kill`, `StoreKeeps`, `StoreDiscards` | the environment |

The store is not in this repository.  Its model is an assumption: it keeps the
output of a review only if the status is not 1 ("checks not run due to fatal
error"), and reviews the builds of one snap one after the other.  With two
reviews from the same blob the one kept last would drop the other's rows.
A symbol has one version per file, as in the code's dictionary.  The branch
for an output that does not verify is not modelled: no step of the program
produces such an output from an input that verifies.

### Temporary directories

`at` and `age` say where a directory is and how long ago its ctime changed,
counted up to where it is stale; `stuck` has those that `recursive_rm` cannot
remove, because what was unpacked into them holds a directory that is not empty
and may not be listed (`common.py:1130-1138`).  For each process, `unpackDir` and `tmpDir` are
the globals `UNPACK_DIR` and `TMP_DIR`, `work` and `dest` the locals of the
function that unpacks and of `get_*_manifest`, `todo` what its sweep has still
to look at, `cur` what it looks at or removes.  `excused` (left for a known
reason) and `overslept` (left its own directory alone for too long) are history.

| Action | Code |
|---|---|
| `Start`, `Refuse`, `MakeWork` | a tool starts; `unpack_pkg` refuses the file, or makes a directory |
| `Unpacked`, `UnpackFails`, `UnpackRaises`, `RockFails` | `_unpack_cmd`: done, `error()` after the removal, the directory gone; a rock, whose `error()` comes before the removal |
| `Rename`, `Copy`, `EndCopy`, `MoveRaises` | `move_dir_content` within, or across, file systems |
| `ReadManifest`, `ReadRaises` | `get_snap_manifest`, `get_rock_manifest` |
| `Resquash`, `EndResquash`, `EndChecks` | `check_squashfs_resquash`; the end of a review |
| `BeginRemove`, `EndRemove` with `Discard`, `RemoveOwn`, `RemoveStale` | `recursive_rm` and its three callers |
| `NothingToDiscard`, `OwnIsGone` | the directory is gone |
| `DiscardRaises`, `OwnRaises`, `SweepRaises` | `recursive_rm` raises (`RemovalRaises`): the directory is gone, another process is removing it, or it is stuck |
| `Glob`, `Look`, `Stat`, `StatRaises`, `EndSweep` | the sweep in `cleanup_unpack` |
| `Kill`, `Tick` | the environment |

A removal is two steps, so that two of them can get in each other's way; its
entries are not modelled one by one.  The working directory and the umask are
left out, and so is `ar x` in `raw_unpack_pkg`.

### Notices of a manifest

One behaviour is the work on one package: `DetermineRelease` or `NoRelease`
(`get_ubuntu_release_from_manifest`), `ListPackages`, `PackagesRaise` or
`PassOver` (`get_staged_and_build_packages_from_manifest`, `get_pkg_revisions`),
one `Match` or `MatchRaises` for each version (`get_secnots_for_manifest`), and
`Tell` (`_secnot_report_for_pkg`, or `scan_snap` and `scan_rock`).  What each
step computes is an operator: `BestVersion`, `WithEpoch`, `FixedIn` (`usn.py`),
`ReleaseOfSnap`, `Staged`, `KernelVersion` (`store.py`), `Merged`, `Template`
(`available.py`), `Compare` (`debversion.py`).  A scan is the record of what the
tool is given.  A version is an epoch, if it has one, and a body, a sequence of character
codes; the tables of the code are constants.

The assumptions of `Secnots` say what these constants look like.  Versions are
versions, in manifests, notices and overrides (`ManifestAssumption`,
`NoticesAssumption`, `OverridesAssumption`): the tool reads any text as one, and
whether `DebVersion` accepts it is `Valid`.  Those of the notices are
(`ValidAssumption`), since `read_usn_db` ends with an exception on any other,
before a package is looked at.  A notice has one entry for a
release, because both are keys of one JSON object.  The epochs of source
packages have one digit: `read_usn_db` sorts them as text, which is their order
as numbers only then, and the archive has no larger ones.  Of the versions that
`update_stage_packages` may ask for, "auto" is left out
(`convert_canonical_app_version`, `store.py:160-163`): no entry of the table has it.

`LetterListsNew` is about the letter on one revision, `ReleaseHasGrounds` about
there being some ground for a release, not about which of several wins.

`NoticeScan` takes its constant `Affects` for the outcome of this module on the
manifests of the dump, and its `Quality` for the errors.  A manifest never changes,
so the two meet in that constant only and are checked apart.

### Lint

One behaviour is the review of one file.  A value is a pair of its type and its
content.  There is one action for each `check_` method, in the order in which
`inspect` lists them (`Turn`: 1 to 16 are of the lint module, 17 and 18 of the
security module), and `Raise` for an exception, which loses the report of the
module; `Raises` says when, for the values the module's head admits.  Several of
the exceptions come from `_get_check_name`, which joins the value a result is about
to the name of the result before anything looks at its type (`NameRaises`), and
one from a blank `command-chain` (`Blanks`).  `reports` has the errors and warnings with
the check and the place they come from, not their texts.  Where a check depends on
the order of the apps, the order is that of `Names`.

The checks left out look at one value each and do not depend on others; which
forms of values are not fed in is said at the head of the module.

## 3. Runs

| Run | Question | Size |
|---|---|---|
| `NoticeScanSerial` | one recorder, all or one package, letters that may be declined, no fault and no entry that ends a scan | 2 packages, 2 revisions, 2 USNs, 4 notices |
| `NoticeScanCrash` | kills at every step, entries that end the scan, copy across file systems, late failures | as above, 2 faults |
| `NoticeScanRace` | two recorders, one record, kills | one revision each, 1 fault |
| `NoticeScanLive` | does every scan end, is every notice recorded? | one recorder, one scan without a record, 2 packages with one revision, one USN, 1 fault |
| `NoticeScanRevert` | *violation*: a revision that comes back is reported again | |
| `NoticeScanDeclined` | *violation*: a new snap has all its USNs reported | |
| `Declaration` | the review rules | 4 base and some 170 snap declarations, 4 devices, 4 snaps |
| `DeclarationScope` | *violation*: rules for other stores only count for nothing | |
| `SnapReview` | drift, status and output over any sequence of reviews | 2 architectures, 3 files, 8 kinds of review |
| `Workspace` | is anything left behind, taken away, or never removed? | a review and a tool of any kind, 2 directories, 1 kill, 1 stuck, with and without `SNAP_USER_COMMON` |
| `Secnots` | version order; the notices, release, report and letter of a manifest | all pairs of some 70 versions; 4602 scans |
| `Lint` | what the checks of one file guarantee together | 4659 files |

**Bounds.**  The scans and the reviews repeat without bound; only the
environment is bounded.  `MaxChanges` bounds the changes of the store and of the
USNs: 5 in `NoticeScanSerial` and `NoticeScanRevert`, which must publish, scan,
close, scan and bring back; 3 in the others,
where one change before a scan and one after it are enough.  `MaxFaults` bounds
kills and failed deliveries: 2 in `NoticeScanCrash`, so that a fault can hit
the recovery from the first, 1 in `NoticeScanRace` and `NoticeScanLive`, none
in the others.  `MaxLetters` is where the count of letters saturates: 4 in
`NoticeScanCrash`, 2 in `NoticeScanSerial` and `NoticeScanRace`, always above
what the property allows, and 1 in `NoticeScanLive`, `NoticeScanDeclined` and
`NoticeScanRevert`, whose properties do not read the count or ask only whether
it is zero.  Two packages are needed for one to spoil
the other, two revisions for forgetting.  In `NoticeScanRace` both scanners
record, with one revision per package: what is at stake there is the record as
a whole.  `NoticeScanLive` has one revision of each package and one USN, since what
is promised of a notice is promised of each alone and each package has the other to
suffer from.  An
entry that ends a scan is offered in `NoticeScanCrash` and `NoticeScanLive`.  The
properties of `NoticeScanSerial` are about scans that run to their end: a scan that
is cut short has not come to forget what left the store, and `CleanExitInformed`
would be false for the reason `NoticeScanRevert` shows.  In `Declaration` the
declarations have at most two constraints with at most two alternatives, which is where the early exits differ from a plain
quantifier; the four constraint types of an entry are pairwise combined.  The
third type, auto-connection, is not judged by the code and matters for the
defaults only.  `SnapReview` has a build that lacks two files (one of them
skipped) and changes a value, `nm` failing on any set of files, and a second
architecture that must not be touched; no counter is bounded.

`Workspace` needs two processes to interfere: a review, which keeps `UNPACK_DIR`
and makes `TMP_DIR`, and any tool beside it, another review or a scan of a snap or
rock, which moves its directory and may desert it when it fails.  There are two
names: a process that needs one has to wait for it, which only leaves out
behaviours.  Either process may hold both, in a copy across file systems or during a
resquash, or each of them one.  More than two directories at once, as when a
copy runs beside a resquash, are left to the theorems, which are about any number.  `MaxAge = 0` leaves two ages, not stale and stale,
which is all the code tells apart.  `MaxKills = 1` leaves what one process held;
failures are not bounded.  `MaxStuck = 1` leaves one directory that cannot be
removed, which stays: it takes one of the two names for good, and the other is the
one that has to be swept beside it.

`Secnots` has all versions of one or two characters over five that the order
tells apart (two digits, a letter, a dot, a tilde), longer ones with leading
zeros, carries and several tildes, and ones with epochs and dashes; scans of snaps
and rocks over all fields `Release` reads, and over lists with plain, malformed
and doubled entries, primed or not, in the dump or in a file; and kernels with
ABIs of one to three digits around those of the notices, with and without a
build number and a backport's suffix, and in forms that are not converted.  `Lint` has files with references by
name, by alias, by abbreviated alias and to nothing, for apps and for hooks;
pairs of dbus slots with two daemons; attributes of each type; and values
of a wrong type, true and false ones, in the entries of apps, hooks and plugs and in
their lists.

**Deadlock** is checked wherever the system runs for ever; `CHECK_DEADLOCK
FALSE` stands only in `Declaration`, `DeclarationScope`, `Secnots` and `Lint`,
where one behaviour is one review, or one scan, and ends.

**Fairness.**  `FairSpec` of the notice scan assumes that a started process
goes on (weak fairness of its steps, the processor's scheduling) and that the
tool is started again (a periodic job; weak fairness of `Start`, which is
enabled whenever it is not running).  Neither USNs, changes of the store, nor
success of a delivery is assumed: faults are bounded, which is the assumption
that a delivery does not fail for ever.  `EventuallyRecorded` is about one
recorder on one file system; a torn copy would stop later scans for good (see
the hazards).  It has one exception: an entry of the dump without "channels" or
"architectures" ends each scan that comes to it (`store.py:277-278`, not caught at
`available.py:444`), and the items listed after it are not reached while it is
there.

`Fairness` of `Workspace` assumes that time passes, that tools are started and
that each gets on with its work (weak fairness of `Tick` and, for each process, of
`Proceed` or `Start`); kills and failures may happen or not.  It also assumes strong fairness of
two steps.  `Looked(d)`: a directory that is there at every sweep is looked at by
some sweep.  A sweep ends early when `getctime` raises, but the listing is in no
order, so the same directories are not passed over for ever.  `Removed(d)`: a
directory whose removal is overtaken again and again is removed, since each
attempt leaves fewer entries to the next.  That says nothing of a directory that
is stuck: each attempt fails at the same entry, `EndRemove` is disabled for it, and
`OneIsSwept` is about the others, which must be swept beside it.  The names are interchangeable, so the
run states fairness and the property of one (`OneIsSwept`); without
`SNAP_USER_COMMON` only, because `get_*_manifest` unpack there with `MKDTEMP_DIR`
unset, and if no review is ever run no sweep looks there.

**SteadyListing.**  `CleanExitInformed` passes in `NoticeScanSerial` where a
package that has a usable revision keeps one, and fails in `NoticeScanRevert`
where it may lose all of them.  That condition is the exact difference between
the code and its header comment.

## 4. What is proved

Every theorem is about the specification of the run of the same name, for all
values of the constants that satisfy the assumptions of the module; no other
assumption is made except where a theorem states one.  Those beyond types are:
`AlternativesAssumption` (`Declaration`: the alternatives of a constraint are
numbered, being a list, or one rule made a list), `UnusedAssumption` (the attribute that is added is one no
declaration speaks of), and those of `Secnots` above.

*InformOnce.*  `InformedOnce`: no two letters name one notice of a revision
that stays.  Inductive: while a revision is listed, a counted letter's notice is
in the ledger (`LettersRecorded`), so no second letter can name it.

*NoticeScan.*
- `TypeCorrect`.
- `NothingLost` (`RecordedWasReported`), for any number of scanners, crashes and
  failures.  Alone it is not inductive: a record on its way (`cur`) has to have
  been reported too, hence `PendingWasReported`.
- The rest is about a scanner that runs alone and records (`Alone`).  That is the
  use the code is written for, a periodic job; `NoticeScanRace` shows what two
  scanners can still rely on.
- `SerialScopeRespected` (`ScopeRespected`) and `SerialForgetsOnlyDeparted`
  (`ForgetsOnlyDeparted`), with the record moved in one piece (`SameFs`), for any
  crashes and failed deliveries.  A copy across file systems that is cut short
  breaks both.  The invariant `AloneInv`: the memory of the scanner is the record,
  and what it takes for usable is what was listed when it started.
- `FaultsCostOneLetter` (`OneLetterPerFault`), for any number of faults, on one
  file system or two.  The bound is not inductive.  `Counted` says more: the
  letters that name a notice of a listed revision are at most the faults, and
  one more only if the notice is on record or on its way there, or if no scan gets
  past a torn record any more.  A fault pays for the letter it leaves unrecorded.
- `FinishedScanInformed` (`CleanExitInformed`), without faults, with a steady
  listing and where no entry ends a scan (`"fatal" \notin Offered`).  `Informed`: between scans the record has only listed revisions,
  and their notices were told since they were listed; during a scan that holds of
  the packages visited, and the record of the others is what the last scan left.
- `SerialScanKeepsPromise`: without faults and on one file system such a scanner
  implements `InformOnce`.  The ledger is the record on disk *with* the
  report whose letter is out: mapped that way `Send` is `Tell`, `UpdateSeen` is
  `Forget`, `Start` is `Look`, the rest stutters.  The hypothesis `Serial` is
  stated in the module: `Alone`, one file system, `MaxFaults = 0`.
- `SerialScanNeverNags`: by refinement, from `InformedOnce`.

*Declaration*, for all declarations, devices and snaps.
- `TypeCorrect`; `NoMerging` (`OnlySnapDeclarationConsulted`);
  `DefaultIsAllow` (`MissingTypeAllowed`); `OutOfScopeIsNoRule`
  (`OutOfScopeIsBase`).  The invariant says that the report is what `Judgement`
  says of the items visited (`Reported`), and that the declaration is the given
  one with defaults once these are added (`Stages`); the rest is about
  `Judgement`.
- `OrderOfAlternatives` (`AlternativesAreOr`): that the first alternative to settle
  a constraint decides it as any order would.  `Judgeable`: of an item that is done
  with no judgement raised.
- `ReservedReferences` (`ReservedNamesVetted`): the names that the walk over the
  installation rules has not reached are warned of, but for those of plugs in the
  abbreviated form.  `Vetting`: with the first plug
  whose name went unchecked, all references of its interface that are not vetted.
- `RaisesInScope` (`RaisesOnlyInScope`): `Raising`: a review that raised after the
  defaults did so over a judgement.
- `MoreAttributesStillFlagged` (`AddedAttributeStillFlagged`): one more attribute
  never clears a plug or slot, but for the installation the property names.

*SnapReview*, for all histories.
- `TypeCorrect`, `NoSilentDrift` (`DriftReported`), `WarnsOnce` (`KeptIsQuiet`),
  `StatusIsSound` (`StatusCoversAll`), `OutputIsWhole` (`CleanExitWrites`),
  `RecordIsGuarded` (`RecordsOnlyReviewed`).  The invariant: the output differs
  from the input only in rows of the architecture under review, and unless a
  module raised, only if approved and with what is gone in the drift (`Merges`);
  with status 0 so far the modules before this one have reported (`Covers`); an
  output that is not whole comes with an error (`Writes`).  `DriftReported`
  needs all three, because the store looks only at the status.

*Workspace*, for any processes, directories, ages and kills.
- `TypeCorrect`, `NothingIsLeft` (`NothingLeft`), `TouchedStays`
  (`TouchedIsKept`).  The invariant adds two parts.  `Tidy`: which of its four
  directories a process may hold at each step, without which an exit could drop
  one unnoticed.  `Kept`: what a process that did not oversleep holds is not
  stale, and nobody else holds it, *has found it stale*, or removes it; the middle
  part is what makes acting late on an old `stat` harmless.

*Secnots*, for all manifests, databases and tables.
- `TypeCorrect`, `SilenceIsForUntracked` (`SilentOnlyIfUntracked`),
  `ReleaseIsGrounded` (`ReleaseHasGrounds`), `UnprimedIsIgnored`
  (`NothingUnprimed`), `FileReportIsComplete` (`FileReportNamesAll`),
  `LetterIsComplete` (`LetterListsNew`).  The invariant `Known` says what `pending`
  and `told` are at each step; the rest is about the operators.
- `EpochsAreOfBinaries` (`EpochOfBinary`), from what `BestVersion` returns.
- `ComparisonIsPolicy` (`VersionsOrdered`): what a scan compares are versions, so
  `CompareIsPolicy` applies.
- `FoundIsExact` (`NoticesAreExact`), with it and `Matched`: `pending` is what the
  packages compared so far come to, each of them with a version that is one.  In
  the course of this proof `Notices` had to be narrowed to the releases that are
  read: the property was false of a snap of a release without long-term support.
- `EarliestVersionDecides`: of several versions of a package the earliest decides, in
  whatever order they are compared; from `FoundIsExact` and `CompareIsOrder`.
- `AbiDecidesAlone` (`AbiDecides`), for kernel versions with fields of any number of
  digits.  What the policy compares is the sequence of parts, numbers and texts in
  turn, which is defined by recursion from the first character on; what
  `KernelVersion` does is said by the places of the last separator.  `MarksFound`
  connects them: a version whose parts alternate as `Fielded` says has its
  separators at certain places, with digits only in between, and any sequence with
  digits and separators at such places has these fields as parts
  (`MarkedParts`, from the last field back).  So converting a version changes the
  places after the last separator only, and these become the number 999999
  (`SixNines`).  `FirstFourDecide`: the highest fifth field never makes a version
  earlier, so the first four decide; `FoundIsExact` does the rest.

*DebVersion*, for versions of any length.
- `CompareIsPolicy`: `Compare` is the order of the policy.  `_verrevcomp` walks over
  two strings at once and stops at the first difference; the policy reads each string
  by itself as parts and compares these.  The proof has three layers.  First, the
  recursive functions exist (`FromSteps`, `NumberSteps`, `PartsSteps`): TLA+ only
  says that they are *chosen* to obey their recursion.  Second, two runs of digits
  without leading zeros compare as the numbers they are (`NumbersCompared`), by
  length and then by the first difference.  Third, from every pair of places the
  loop agrees with the order of the parts that are left (`AllAgree`), by induction
  on what is left of both strings.  The library's induction theorems take an
  operator and cannot be used here; `MinIsLeast`, that every set of numbers that is
  not empty has a least one, comes from the well-foundedness of the numbers
  (`WFMin`), which is about sets, and `NatInduct` from it.
- `CompareIsOrder`: the comparison is an order of all versions.  That is shown of the
  policy, not of the loop: parts without an end are in a strict total order
  (`LessIsOrder`), a version is its epoch and two such keys (`EarlierByKeys`), and
  `CompareIsPolicy` carries it over.

*Lint*, for all files and tables.
- `TypeCorrect`, `NoReportLost` (`RaisesOnFlaw`), `ReferencesAreKnown`
  (`ReferencesResolve`), `ConflictsAreFound` (`NoConflict`), `ReadingsAreOne`
  (`ReadingsAgree`), `DaemonsAreServed` (`DbusDaemonsServed`),
  `ActivationIsWarned` (`ActivatableWarned`), `BrowserIsReported`
  (`BrowserSupportReported`).  The invariant `Kept`: what a check that has had
  its turn found is in the report of its module, unless that module raised.  So
  a report without errors speaks for each check by itself, and every property
  follows from what a few of the checks found nothing of.

The type invariants of `Declaration`, `Workspace`, `Secnots` and `Lint`,
`MissingTypeAllowed` and `SilentOnlyIfUntracked` are proved and have no run of
their own.

`NoReportLost` is about files that are `WellFormed`: every hook has an entry, and
what a name of a result is put together from is a string, if it is true.

Model-checked only: liveness (`EventuallyRecorded`, `ScanEnds`, `OneIsSwept`),
which TLAPS does not reach.  Every invariant and every action property of a
passing run is a theorem.

## 5. Disagreements between the code and its text

1. A revision that comes back after a scan that found the package without any
   usable revision is not reported again (`NoticeScanRevert`).
2. A letter that was not sent is recorded as seen (`NoticeScanDeclined`).
3. Rules of a snap declaration that are scoped to another store still switch
   off the base declaration for the types they leave out (`DeclarationScope`).

Met while modelling, and without a run of their own:

- With `--sdk` findings yield status 1 (`bin/snap-review:76-77`), which the
  usage text at 155 gives the meaning "checks not run due to fatal error".
- An integer attribute with a constraint raises "unknown type"
  (`sr_declaration.py:794`), although the declaration's side of the comparison
  is converted to one (the comment at 353-355).
- A plug of a reserved interface whose name no rule has checked is vetted by a
  fallback (the comment at `sr_declaration.py:1118-1119`), which passes over those in
  the abbreviated form, `foo: personal-files` (700-711).  `ReservedNamesVetted`
  names them as its exception.
- `TMP_DIR`, said to be "autocleaned" (`sr_security.py:263`), is not when the removal
  of `UNPACK_DIR` before it raises on what was unpacked (`common.py:147`).
  `NothingLeft` names that as one of its reasons.
- A hook without an entry is accepted (`sr_lint.py:469-470`, and a test says so),
  but `check_hooks_command_chain` raises on it (650-660).  `RaisesOnFlaw` asks nothing
  of such files.
- A reference, an `after` or `before`, or an `interface` that is no string is meant to
  be an error of the file, but the name of that result raises first
  (`common.py:235-236`); so does a blank `command-chain` (`sr_lint.py:609`).
  `WellFormed` leaves such files out.
- One revision without "channels" or "architectures" in the dump ends every scan
  (`store.py:277-278`), though errors of an item are meant to be collected.
- `has_activatable` is not reset from one app to the next (`sr_lint.py:986`):
  a daemon after one that may be activated is warned of as well.
  `ActivatableWarned` asks only that no warning is missing.
- An alias in the abbreviated form (`b: browser-support`) is not followed by
  `_plugref_is_interface`; an alias named like an interface is read by its name
  in the conflict check, in spite of the comment at `sr_lint.py:1339-1342`; the
  check for such names looks only at the slots of the base declaration.
  `ReadingsAgree`, `NoConflict` and `BrowserSupportReported` name these cases.
- `_uses_interface` does not look at hooks.
- `snap_to_release` has core22 (`store.py:46`), but `tracked_releases` does not
  have its release (`usn.py:22`): such snaps are left out in silence, and so is, in
  a scan of a store, a rock whose os-release is not known.
- `scan_snap` merges the groups of a package with `dict.update`, which drops
  the notices of one (`available.py:513`); `FileReportNamesAll` is what is left.
- `DebVersion` rejects `x-y-z-0`, taking the revision 0 for an empty one; epochs
  of the overrides are sorted as strings (`usn.py:150`).
- The conversion of a kernel version replaces what follows the last separator
  (`store.py:78-80`).  With more than one field after the ABI, or with text that
  is joined to the ABI (`4.4.0-161.5-6`, `4.4.0-161+a`), that is not the build
  number alone, and the ABI does not decide.  The comments at 50-63 and 70-78 name
  neither form; `AbiDecides` is about the ones it names.

## 6. Plan

In this order; the modules marked done are the ones above.

1. *done* Notice scan, its abstract promise, safety and refinement proofs.
2. *done* Declaration review, proofs about all declarations.
3. *done* Review driver with the state of base snaps.
4. *done* `Workspace`: the temporary directories of several processes.
5. *done* `DebVersion` and `Secnots`: the version order against the policy, the
   release of a manifest, its packages and notices.
6. *done* `Lint`: the checks of apps, hooks, plugs and slots.
7. *done* As theorems: the properties of a scanner that runs alone, those of the
   declaration review that were only checked, and the order of versions with
   what rests on it (`NoticesAreExact`, `EpochOfBinary`).
8. *done* Kernel versions as sequences of characters, with fields of any number
   of digits, and `AbiDecides` as a theorem.
9. *done* That the comparison is an order of all versions (`CompareIsOrder`), and
   what it does to a package with several versions.

**Not modelled**, and why:

- The other checks of the lint and security reviews look at one value each, keep
  no state and have unit tests.  The functional checks for execstack and mount
  points appear as what they may report.
- The formats that the verification of manifests and declarations accepts, other
  than what decides an outcome above.
- `overrides.py` is data; it enters as constants.
- `--with-cves`, JSON, letters' texts; the command-line front ends; the scripts
  that pack and compare; the parsing of `dpkg.query`.
- The lists of files that a process caches: each tool unpacks one package per
  process, so nothing reads a stale one.
- `init_object` returns nothing for a module whose main class is not found
  (`modules.py`): it takes a faulty plugin directory in `RT_EXTRAS_PATH`.
- Two reviews that start from one state blob: what the store does with the two
  outputs is not in this repository, and section 2 states the assumption.
- For deny-installation, an attribute added to a rule that was already checked
  makes the rule not match (`sr_declaration.py:929`); `AddedAttributeStillFlagged`
  is about allow rules.
