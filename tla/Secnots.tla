-------------------------------- MODULE Secnots --------------------------------
(***************************************************************************)
(* Which security notices concern one package: what store.py makes of a    *)
(* manifest and usn.py of the database of notices, for an entry of the     *)
(* store's dump (get_pkg_revisions) or for a file (scan_snap, scan_rock of *)
(* available.py), up to the letter that lists them.                        *)
(*                                                                         *)
(* A scan is a record of what the tool is given:                           *)
(*   kind, file    a "snap" or a "rock"; is it a file or from the dump?    *)
(*   type          the type of the snap: "app", "kernel"                   *)
(*   base, osId, osVersion   None where the manifest does not say          *)
(*   hasParts      does the manifest have parts, even if none?             *)
(*   stage         the entries of the stage-packages of its parts, a set   *)
(*                 for each part; of the one section of a rock             *)
(*   installed     the installed-snaps of its parts, all together          *)
(*   primed, dpkg  primed-stage-packages, dpkg.list, or None               *)
(*   snapcraft     the version of snapcraft, or None                       *)
(*   version       the version of the snap                                 *)
(*   faked         update_stage_packages for it                            *)
(*   usns          the notices of the raw database, a record for each      *)
(*                 notice and release                                      *)
(*   seen          the notices the record of seen notices has              *)
(* An entry of a list of packages is [pkg, ver, form]: "plain", without    *)
(* "=" ("malformed"), or with two of them ("doubled").                     *)
(***************************************************************************)
EXTENDS DebVersion

CONSTANTS
    Scans,
    Codename,        \* OS_RELEASE_MAP, as a function on <<id, version>>
    SnapRelease,     \* snap_to_release
    Tracked,         \* tracked_releases
    TrackedNonLts,   \* non_lts_tracked_releases
    Unmatched,       \* the override file of versions, on <<release, binary>>
    PackageVersion,  \* update_package_version
    AutoKernel,      \* the version "auto-kernel" of update_stage_packages
    Ignored          \* update_binaries_ignore

ASSUME ScansAssumption == \A s \in Scans : s.kind \in {"snap", "rock"}

Given(x) == IF x = None THEN {} ELSE x

(* The versions of a manifest, and of the overrides for its snap, which    *)
(* are the entries of a dictionary. *)
ASSUME ManifestAssumption ==
    \A s \in Scans :
        /\ s.version \in Version
        /\ {s.snapcraft} \subseteq Version \cup {None}
        /\ {f.ver : f \in s.faked} \subseteq Version \cup {AutoKernel}
        /\ \A f, g \in s.faked : f.pkg = g.pkg => f = g
        /\ {e.ver : e \in (UNION s.stage) \cup Given(s.primed) \cup Given(s.dpkg)}
              \subseteq Version

(* The keys of a JSON object are different: a notice has one entry for a   *)
(* release.  The epochs of the archive have one digit, so that their order *)
(* as text is that of the numbers. *)
ASSUME NoticesAssumption ==
    \A s \in Scans : \A n \in s.usns :
        /\ \A m \in s.usns : m.usn = n.usn /\ m.rel = n.rel => m = n
        /\ n.all # None => \A bin \in DOMAIN n.all : n.all[bin] \in Version
        /\ n.urls \in Seq([bin : STRING, body : Seq(Nat)])
        /\ n.sources \subseteq {v \in Version : Epoch(v) \in 0..9}

(* A version that is none in a notice ends read_usn_db with an error before *)
(* anything is scanned: the database has none. *)
ASSUME ValidAssumption ==
    \A s \in Scans : \A n \in s.usns :
        IF n.all # None THEN \A bin \in DOMAIN n.all : Valid(n.all[bin])
        ELSE \A i \in DOMAIN n.urls : Valid([epoch |-> None, body |-> n.urls[i].body])

ASSUME OverridesAssumption ==
    /\ \A p \in DOMAIN PackageVersion : PackageVersion[p] \in Version
    /\ \A b \in DOMAIN Unmatched : /\ b = <<b[1], b[2]>>
                                   /\ Unmatched[b].binary \in Version

ASSUME NoneAssumption == None \notin DOMAIN SnapRelease

VARIABLES
    scan,
    pc,
    rel,       \* the release found
    todo,      \* versions still to compare
    pending,   \* the notices found, as <<group, package, notice>>
    told       \* those in the report

vars == <<scan, pc, rel, todo, pending, told>>

Groups == {"staged", "build"}

-----------------------------------------------------------------------------
(* The database of notices (usn.py).                                       *)

Affected(s) ==
    Tracked \cup IF s.kind = "rock" THEN TrackedNonLts ELSE {}

(* A faulty BestVersion: the epoch of the source package is kept. *)
KeepsEpoch(r, bin, v) ==
    IF <<r, bin>> \notin DOMAIN Unmatched THEN v
    ELSE LET u == Unmatched[<<r, bin>>]
         IN  IF u.source.body = u.binary.body THEN v ELSE None

(* The version of the notice may be that of the source package: where the  *)
(* overrides say how the two differ by an epoch, that is put right; where  *)
(* they differ otherwise there is no telling. *)
BestVersion(r, bin, v) ==
    IF <<r, bin>> \notin DOMAIN Unmatched THEN v
    ELSE LET u == Unmatched[<<r, bin>>]
             same == u.source.body = u.binary.body
         IN  CASE same /\ u.source.epoch # None /\ u.binary.epoch = None ->
                    [v EXCEPT !.epoch = None]
               [] /\ same /\ u.source.epoch = None /\ u.binary.epoch # None
                  /\ v.epoch = None ->
                    [v EXCEPT !.epoch = u.binary.epoch]
               [] OTHER -> None

(* The file names of the archive have no epoch: it is taken from a source  *)
(* of that version, the highest if there are several. *)
WithEpoch(n, v) ==
    LET epochs == {w.epoch : w \in {x \in n.sources : x.body = v.body}} \ {None}
    IN  IF v \in n.sources \/ epochs = {} THEN v
        ELSE [v EXCEPT !.epoch = Max(epochs)]

(* The version that notice n has for binary bin: of those its file names   *)
(* give, the first that is one, as later ones find the notice known. *)
FixedIn(n, bin) ==
    IF n.all # None
    THEN IF bin \in DOMAIN n.all THEN BestVersion(n.rel, bin, n.all[bin]) ELSE None
    ELSE LET guess(i) ==
                 BestVersion(n.rel, bin,
                     WithEpoch(n, [epoch |-> None, body |-> n.urls[i].body]))
             good == {i \in DOMAIN n.urls : n.urls[i].bin = bin /\ guess(i) # None}
         IN  IF good = {} THEN None ELSE guess(Min(good))

(* The releases the database has, and its notices on a binary: only those  *)
(* that are tracked are read. *)
Releases(s) == {n.rel : n \in s.usns} \cap Affected(s)

Notices(s, r, bin) ==
    {n \in s.usns : n.rel = r /\ r \in Affected(s) /\ n.whole /\ FixedIn(n, bin) # None}

-----------------------------------------------------------------------------
(* The release of a manifest (store.py).                                   *)

ReleaseOfSnap(s) ==
    LET known == s.installed \cap DOMAIN SnapRelease
    IN  IF <<s.osId, s.osVersion>> \in DOMAIN Codename
        THEN Codename[<<s.osId, s.osVersion>>]
        ELSE IF s.base = None THEN "xenial"
        ELSE IF s.base \in DOMAIN SnapRelease THEN SnapRelease[s.base]
        ELSE IF Cardinality(known) = 1 THEN SnapRelease[CHOOSE k \in known : TRUE]
        ELSE IF <<"ubuntu", s.osVersion>> \in DOMAIN Codename
        THEN Codename[<<"ubuntu", s.osVersion>>]
        ELSE IF known = {} THEN "xenial" ELSE None

ReleaseOfRock(s) ==
    IF <<s.osId, s.osVersion>> \in DOMAIN Codename
    THEN Codename[<<s.osId, s.osVersion>>] ELSE "unknown"

(* A faulty Release: a snap that says nothing is taken for a bionic one. *)
ReleaseGuessed(s) ==
    IF s.kind = "snap" /\ s.base = None THEN "bionic"
    ELSE ReleaseOfRock(s)

(* None: the scan cannot go on without it. *)
Release(s) ==
    CASE s.kind = "snap" /\ s.hasParts -> ReleaseOfSnap(s)
      [] s.kind = "rock" /\ s.osId # None /\ s.osVersion # None -> ReleaseOfRock(s)
      [] OTHER -> None

-----------------------------------------------------------------------------
(* The packages of a manifest.                                             *)

Plain(p, v) == [pkg |-> p, ver |-> v, form |-> "plain"]

(* MAJ.MIN.MIC-ABI, and whatever may follow. *)
OfKernel(s) ==
    \E i, j, k \in 1..Len(s) :
        /\ 1 < i /\ i + 1 < j /\ j + 1 < k /\ k < Len(s)
        /\ s[i] = Dot /\ s[j] = Dot /\ s[k] = Dash
        /\ \A x \in (1..(k + 1)) \ {i, j, k} : s[x] \in Digits

Untilded(s) ==
    LET tildes == {i \in 1..Len(s) : s[i] = Tilde}
    IN  IF tildes = {} THEN s ELSE SubSeq(s, 1, Min(tildes) - 1)

(* A faulty KernelVersion: the version as the snap has it. *)
BuildVersion(v) == v

(* The build number of a kernel is made higher than any, and dashes are    *)
(* made dots as a meta package has them: MAJ.MIN.MIC.ABI.999999. *)
KernelVersion(v) ==
    LET s == Untilded(v.body)
        unbuilt == \A x \in 1..Len(s), y \in 1..Len(s) :
                      x < y /\ s[x] = Dash => s[y] \in Digits
        kept == IF unbuilt THEN Append(s, Dot)
                ELSE SubSeq(s, 1, Max({i \in 1..Len(s) : s[i] \in {Dot, Bar, Dash}}))
        named == [i \in 1..(Len(kept) + 6) |->
                     IF i > Len(kept) THEN Nine ELSE IF kept[i] = Dash THEN Dot ELSE kept[i]]
    IN  IF v.epoch = None /\ OfKernel(s) THEN [epoch |-> None, body |-> named] ELSE v

(* What the overrides add, if there are parts to add it to.  Left out is    *)
(* the version "auto", which no entry of update_stage_packages has. *)
FakedStage(s) ==
    IF s.stage = {} THEN {}
    ELSE {Plain(f.pkg, IF f.ver = AutoKernel THEN KernelVersion(s.version) ELSE f.ver) :
             f \in s.faked}

FakedBuild(s) ==
    IF s.stage = {} \/ s.snapcraft = None THEN {}
    ELSE IF Valid(s.snapcraft) THEN {Plain("snapcraft", s.snapcraft)} ELSE {}

(* The dpkg.list of a file. *)
Listed(s) == IF s.file THEN Given(s.dpkg) ELSE {}

(* A faulty Staged: of both. *)
StagedOrPrimed(s) ==
    FakedStage(s) \cup (UNION s.stage) \cup Given(s.primed)

(* What a snap stages but for its dpkg.list: what is listed as primed      *)
(* replaces what the parts stage.  Without a part nothing is read at all,  *)
(* and a dpkg.list makes one, even if it lists nothing. *)
Staged(s) ==
    FakedStage(s)
    \cup IF s.primed # None /\ (s.stage # {} \/ (s.file /\ s.dpkg # None))
         THEN s.primed ELSE UNION s.stage

Section(s, g) ==
    IF s.kind = "rock" THEN IF g = "staged" THEN UNION s.stage ELSE {}
    ELSE IF g = "staged" THEN Staged(s) \cup Listed(s) ELSE FakedBuild(s)

Counted(E) == {e \in E : e.form = "plain" /\ e.pkg \notin Ignored}

Packages(s) ==
    UNION {{<<g, e.pkg, e.ver>> : e \in Counted(Section(s, g))} : g \in Groups}

-----------------------------------------------------------------------------
(* The scan.                                                               *)

Init ==
    /\ scan \in Scans
    /\ pc = "release"
    /\ rel = None
    /\ todo = {}
    /\ pending = {}
    /\ told = {}

DetermineRelease ==
    /\ pc = "release"
    /\ Release(scan) # None
    /\ rel' = Release(scan)
    /\ pc' = "packages"
    /\ UNCHANGED <<scan, todo, pending, told>>

(* No parts, no os-release, or more than one release to guess from: the    *)
(* revision counts as an error. *)
NoRelease ==
    /\ pc = "release"
    /\ Release(scan) = None
    /\ pc' = "failed"
    /\ UNCHANGED <<scan, rel, todo, pending, told>>

(* An entry of a snap's list that cannot be taken apart is an error. *)
Doubled == /\ scan.kind = "snap"
           /\ \E g \in Groups : \E e \in Section(scan, g) : e.form = "doubled"

ListPackages ==
    /\ pc = "packages"
    /\ ~Doubled
    /\ rel \in Releases(scan)
    /\ todo' = Packages(scan)
    /\ pc' = "match"
    /\ UNCHANGED <<scan, rel, pending, told>>

PackagesRaise ==
    /\ pc = "packages"
    /\ Doubled
    /\ pc' = "failed"
    /\ UNCHANGED <<scan, rel, todo, pending, told>>

(* A release without notices: a revision is passed over without an error,  *)
(* for a file it is one. *)
PassOver ==
    /\ pc = "packages"
    /\ ~Doubled
    /\ rel \notin Releases(scan)
    /\ pc' = IF scan.file THEN "failed" ELSE "skipped"
    /\ UNCHANGED <<scan, rel, todo, pending, told>>

(* The version a notice asks for, or the override of the package where     *)
(* that is among the installed snaps. *)
Needed(s, p, n) ==
    IF s.kind = "snap" /\ p \in DOMAIN PackageVersion \cap s.installed
    THEN PackageVersion[p] ELSE FixedIn(n, p)

(* A faulty Concerned: what is just as new. *)
JustAsNew(s, p, v) == {n \in Notices(s, rel, p) : Compare(v, Needed(s, p, n)) <= 0}

Concerned(s, p, v) == {n \in Notices(s, rel, p) : Compare(v, Needed(s, p, n)) < 0}

(* One version of one package. *)
Match ==
    /\ pc = "match"
    /\ \E e \in todo :
          /\ Notices(scan, rel, e[2]) # {} => Valid(e[3])
          /\ todo' = todo \ {e}
          /\ pending' = pending \cup
                {<<e[1], e[2], n.usn>> : n \in Concerned(scan, e[2], e[3])}
    /\ UNCHANGED <<scan, pc, rel, told>>

(* A version that is none, of a package with notices. *)
MatchRaises ==
    /\ pc = "match"
    /\ \E e \in todo : Notices(scan, rel, e[2]) # {} /\ ~Valid(e[3])
    /\ pc' = "failed"
    /\ UNCHANGED <<scan, rel, todo, pending, told>>

-----------------------------------------------------------------------------
(* The report.                                                             *)

(* The groups of one package are merged, and the one listed last wins:     *)
(* that is "build", unless only dpkg.list staged something. *)
LastGroup(s) == IF s.kind = "snap" /\ Counted(Staged(s)) = {} THEN "staged" ELSE "build"

(* A faulty Merged: the last group wins as a whole. *)
LastOnly ==
    {e \in pending : e[1] = LastGroup(scan) \/ ~\E f \in pending : f[1] # e[1]}

Merged ==
    {e \in pending : e[1] = LastGroup(scan) \/ ~\E f \in pending : f[2] = e[2] /\ f[1] # e[1]}

New == {e \in pending : e[3] \notin scan.seen}

(* A faulty Template: a kernel is not said to have been built with anything. *)
TemplateOfKernel(s, G) ==
    IF s.type = "kernel" THEN "kernel"
    ELSE IF s.kind = "rock" \/ G = {"staged"} THEN "default"
    ELSE IF G = {"build"} THEN "build-pkgs-only" ELSE "build-and-stage-pkgs"

(* The letter, and which groups of packages it lists. *)
Template(s, G) ==
    IF s.type = "kernel"
    THEN IF G = {"build"} THEN "kernel-build-pkgs-only"
         ELSE IF G = {"staged"} THEN "kernel" ELSE "kernel-and-build-pkgs"
    ELSE IF s.kind = "rock" \/ G = {"staged"} THEN "default"
    ELSE IF G = {"build"} THEN "build-pkgs-only" ELSE "build-and-stage-pkgs"

Lists(t) ==
    CASE t \in {"kernel-and-build-pkgs", "build-and-stage-pkgs"} -> Groups
      [] t \in {"kernel-build-pkgs-only", "build-pkgs-only"} -> {"build"}
      [] OTHER -> {"staged"}

Letter == {e \in New : e[1] \in Lists(Template(scan, {f[1] : f \in New}))}

Tell ==
    /\ pc = "match"
    /\ todo = {}
    /\ told' = IF scan.file THEN Merged ELSE Letter
    /\ pc' = "done"
    /\ UNCHANGED <<scan, rel, todo, pending>>

Next ==
    \/ DetermineRelease \/ NoRelease
    \/ ListPackages \/ PackagesRaise \/ PassOver
    \/ Match \/ MatchRaises
    \/ Tell

Spec == Init /\ [][Next]_vars
=============================================================================
