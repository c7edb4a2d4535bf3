----------------------------- MODULE SecnotsProps -----------------------------
(***************************************************************************)
(* The properties of the notices found for a manifest.                     *)
(***************************************************************************)
EXTENDS Secnots, DebVersionProps

CONSTANT Samples    \* versions to compare, besides those of the scans

ASSUME SamplesAssumption == Samples \subseteq Version

(* The state of a scan. *)
TypeOK ==
    /\ pc \in {"release", "packages", "match", "done", "skipped", "failed"}
    /\ rel = IF pc = "release" THEN None ELSE Release(scan)
    /\ rel = None => pc \in {"release", "failed"}
    /\ todo \subseteq Packages(scan)
    /\ pending \subseteq {<<e[1], e[2], n.usn>> : e \in Packages(scan), n \in scan.usns}
    /\ told \subseteq pending

-----------------------------------------------------------------------------
(* The versions that the scan of a manifest compares. *)
Compared(s) ==
    {e[3] : e \in {x \in Packages(s) : Valid(x[3])}}
    \cup UNION {{Needed(s, e[2], n) : n \in {m \in s.usns : FixedIn(m, e[2]) # None}} :
                   e \in Packages(s)}

SamplesOrdered == OrderIsPolicy({v \in Samples : Valid(v)})

(* A scan may rely on the order of the policy from its start, for what it  *)
(* compares and for any other versions: zeros, tildes, dashes and epochs   *)
(* (DebVersion.compare). *)
VersionsOrdered == pc = "release" => SamplesOrdered /\ OrderIsPolicy(Compared(scan))

(* In the order of the packages, whatever it is, exactly those notices are *)
(* found that have a version of the release for a package that the policy  *)
(* puts after one listed (get_secnots_for_manifest); and a revision that   *)
(* is passed over in silence has none (get_pkg_revisions). *)
NoticesAreExact ==
    pc \in {"done", "skipped"} =>
        \A e \in Packages(scan) : \A n \in Notices(scan, rel, e[2]) :
            <<e[1], e[2], n.usn>> \in pending <=>
                \E f \in Packages(scan) :
                    /\ f[1] = e[1] /\ f[2] = e[2]
                    /\ Earlier(f[3], Needed(scan, e[2], n))

(* What a part stages but does not prime is not in the snap, and no notice *)
(* on it is found, unless the overrides or dpkg.list name it too           *)
(* (get_staged_and_build_packages_from_manifest). *)
NothingUnprimed ==
    scan.kind = "snap" /\ scan.primed # None =>
        \A e \in pending : e[1] = "staged" =>
            \E x \in scan.primed \cup scan.faked \cup Listed(scan) : x.pkg = e[2]

(* A notice is compared with a version of the binary package: it has the   *)
(* epoch the binary has, where the overrides say that the source package's *)
(* differs (get_best_version). *)
EpochOfBinary ==
    \A n \in scan.usns : \A b \in {x \in DOMAIN Unmatched : x[1] = n.rel} :
        FixedIn(n, b[2]) # None => FixedIn(n, b[2]).epoch = Unmatched[b].binary.epoch

(* Numbers with separators between them. *)
Fielded(s, seps) ==
    /\ Len(Parts(s)) = 3 * Len(seps) + 2
    /\ \A n \in 0..Len(seps) : Parts(s)[3 * n + 1] = 0
    /\ \A n \in 1..Len(seps) : Parts(s)[3 * n] = Weight(seps[n])

Field(s, n) == Parts(s)[3 * n - 1]

Highest == 999999

(* The versions a kernel snap may have, MAJ.MIN.MIC-ABI with a build       *)
(* number or without, and that of a meta package, MAJ.MIN.MIC.ABI.NNN. *)
IsKernel(v) ==
    /\ v.epoch = None
    /\ \E build \in {<<>>, <<Dot>>, <<Dash>>} :
          Fielded(Untilded(v.body), <<Dot, Dot, Dash>> \o build)

IsMeta(v) ==
    /\ Epoch(v) = 0
    /\ Fielded(v.body, <<Dot, Dot, Dot, Dot>>)
    /\ Field(v.body, 5) <= Highest

LaterAbi(v, w) ==
    \E n \in 1..4 : /\ Field(Untilded(v.body), n) < Field(w.body, n)
                    /\ \A m \in 1..(n - 1) :
                          Field(Untilded(v.body), m) = Field(w.body, m)

(* The build number of a kernel does not decide: a kernel snap, which has  *)
(* its meta package from the overrides only, is reported if, and only if,  *)
(* a notice has a later MAJ.MIN.MIC.ABI                                    *)
(* (convert_canonical_kernel_version). *)
AbiDecides ==
    pc = "done" /\ scan.kind = "snap" /\ scan.stage # {} /\ IsKernel(scan.version) =>
        \A f \in scan.faked : \A n \in Notices(scan, rel, f.pkg) :
            /\ f.ver = AutoKernel /\ f.pkg \notin Ignored
            /\ \A x \in (UNION scan.stage) \cup Given(scan.primed) \cup Listed(scan) :
                  x.pkg # f.pkg
            /\ IsMeta(Needed(scan, f.pkg, n))
            => (<<"staged", f.pkg, n.usn>> \in pending
                  <=> LaterAbi(scan.version, Needed(scan, f.pkg, n)))

(* The release is one the manifest gives a ground for, and the default is  *)
(* taken only where there is no base, or none whose release is known       *)
(* (get_ubuntu_release_from_manifest_snap). *)
Grounds ==
    {Codename[c] : c \in {d \in DOMAIN Codename : d[2] = scan.osVersion}}
    \cup {SnapRelease[k] : k \in ({scan.base} \cup scan.installed) \cap DOMAIN SnapRelease}

ReleaseHasGrounds ==
    scan.kind = "snap" /\ rel # None =>
        \/ rel \in Grounds
        \/ rel = "xenial" /\ scan.base \notin DOMAIN SnapRelease

(* A revision is left out in silence only where its release has no notice  *)
(* at all (get_pkg_revisions, which drops the "not found in security       *)
(* notification database"). *)
SilentOnlyIfUntracked ==
    pc = "skipped" => \A n \in scan.usns : n.rel = rel => rel \notin Affected(scan)

(* The report on a file merges the groups: it names every package with a   *)
(* notice, with all the notices it has in one of the groups at least       *)
(* (scan_snap). *)
FileReportNamesAll ==
    pc = "done" /\ scan.file =>
        \A e \in pending : \E g \in Groups :
            /\ \E f \in pending : f[1] = g /\ f[2] = e[2]
            /\ \A f \in pending : f[1] = g /\ f[2] = e[2] => f \in told

(* The letter lists every notice that is new, whichever the groups and     *)
(* whatever the snap is (_secnot_report_for_pkg). *)
LetterListsNew ==
    pc = "done" /\ ~scan.file => told = {e \in pending : e[3] \notin scan.seen}
=============================================================================
