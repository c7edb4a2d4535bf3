----------------------------- MODULE SecnotsProofs -----------------------------
(***************************************************************************)
(* Proofs about the notices found for a manifest, for any manifests,       *)
(* database and overrides.                                                 *)
(***************************************************************************)
EXTENDS SecnotsProps, DebVersionProofs, FiniteSetTheorems, TLAPS

-----------------------------------------------------------------------------
(* A version put right is a version, and has the epoch of the binary. *)
LEMMA BestIsVersion ==
    ASSUME NEW r, NEW bin, NEW v \in Version, BestVersion(r, bin, v) # None
    PROVE  /\ BestVersion(r, bin, v) \in Version
           /\ <<r, bin>> \in DOMAIN Unmatched =>
                 BestVersion(r, bin, v).epoch = Unmatched[<<r, bin>>].binary.epoch
<1> DEFINE u == Unmatched[<<r, bin>>]
           same == u.source.body = u.binary.body
           lost == same /\ u.source.epoch # None /\ u.binary.epoch = None
           gained == /\ same /\ u.source.epoch = None /\ u.binary.epoch # None
                     /\ v.epoch = None
<1>1. \A e \in Nat \cup {None} :
         [v EXCEPT !.epoch = e] \in Version /\ [v EXCEPT !.epoch = e].epoch = e
  BY DEF Version
<1>2. CASE <<r, bin>> \notin DOMAIN Unmatched
  BY <1>2 DEF BestVersion
<1>3. CASE <<r, bin>> \in DOMAIN Unmatched
  <2>1. BestVersion(r, bin, v) = CASE lost -> [v EXCEPT !.epoch = None]
                                   [] gained -> [v EXCEPT !.epoch = u.binary.epoch]
                                   [] OTHER -> None
    BY <1>3 DEF BestVersion
  <2>2. u.binary.epoch \in Nat \cup {None}
    BY <1>3, OverridesAssumption DEF Version
  <2>3. CASE lost
    <3>1. BestVersion(r, bin, v) = [v EXCEPT !.epoch = None]
      BY <2>1, <2>3
    <3> QED
      BY <1>1, <2>3, <3>1
  <2>4. CASE ~lost /\ gained
    <3>1. BestVersion(r, bin, v) = [v EXCEPT !.epoch = u.binary.epoch]
      BY <2>1, <2>4
    <3> QED
      BY <1>1, <2>2, <3>1
  <2> QED
    BY <2>1, <2>3, <2>4
<1> QED
  BY <1>2, <1>3

(* So is one guessed from a file name. *)
LEMMA WithEpochIsVersion ==
    ASSUME NEW s \in Scans, NEW n \in s.usns, NEW v \in Version
    PROVE  WithEpoch(n, v) \in Version
<1> DEFINE epochs == {w.epoch : w \in {x \in n.sources : x.body = v.body}} \ {None}
<1>1. epochs \in SUBSET (0..9)
  <2>1. \A w \in n.sources : w.epoch # None => w.epoch \in 0..9
    BY NoticesAssumption DEF Epoch
  <2> QED
    BY <2>1
<1>2. WithEpoch(n, v) = IF v \in n.sources \/ epochs = {} THEN v
                        ELSE [v EXCEPT !.epoch = Max(epochs)]
  BY DEF WithEpoch
<1> HIDE DEF epochs
<1>3. epochs # {} => Max(epochs) \in Nat
  <2>1. 9 \in Nat
    OBVIOUS
  <2>2. epochs # {} => Max(epochs) \in epochs
    BY <1>1, <2>1, MaxIsGreatest
  <2>3. \A x \in epochs : x \in Nat
    BY <1>1
  <2> QED
    BY <2>2, <2>3
<1> QED
  BY <1>2, <1>3 DEF Version

LEMMA FixedIsBest ==
    ASSUME NEW s \in Scans, NEW n \in s.usns, NEW bin, FixedIn(n, bin) # None
    PROVE  \E v \in Version : FixedIn(n, bin) = BestVersion(n.rel, bin, v)
<1>1. CASE n.all # None
  <2>1. bin \in DOMAIN n.all /\ FixedIn(n, bin) = BestVersion(n.rel, bin, n.all[bin])
    BY <1>1 DEF FixedIn
  <2> QED
    BY <1>1, <2>1, NoticesAssumption
<1>2. CASE n.all = None
  <2> DEFINE named(i) == [epoch |-> None, body |-> n.urls[i].body]
             guess(i) == BestVersion(n.rel, bin, WithEpoch(n, named(i)))
             good == {i \in DOMAIN n.urls : n.urls[i].bin = bin /\ guess(i) # None}
  <2>1. FixedIn(n, bin) = IF good = {} THEN None ELSE guess(Min(good))
    BY <1>2 DEF FixedIn
  <2>2. good \subseteq DOMAIN n.urls
    OBVIOUS
  <2>3. DOMAIN n.urls \subseteq Nat /\ \A i \in DOMAIN n.urls : n.urls[i].body \in Seq(Nat)
    <3> DEFINE Url == [bin : STRING, body : Seq(Nat)]
    <3>1. n.urls \in Seq(Url)
      BY NoticesAssumption
    <3>2. \A u \in Url : u.body \in Seq(Nat)
      OBVIOUS
    <3> HIDE DEF Url
    <3>3. DOMAIN n.urls = 1..Len(n.urls) /\ \A i \in DOMAIN n.urls : n.urls[i] \in Url
      BY <3>1
    <3> QED
      BY <3>2, <3>3
  <2> HIDE DEF guess, good
  <2>4. FixedIn(n, bin) = guess(Min(good)) /\ good # {}
    BY <2>1
  <2>5. Min(good) \in DOMAIN n.urls
    BY <2>2, <2>3, <2>4, MinIsLeast
  <2>6. named(Min(good)) \in Version
    BY <2>3, <2>5 DEF Version
  <2> QED
    BY <2>4, <2>6, WithEpochIsVersion DEF guess
<1> QED
  BY <1>1, <1>2

(* A kernel's version, put as that of its meta package, is a version. *)
LEMMA UntildedIsSeq ==
    ASSUME NEW s \in Seq(Nat) PROVE Untilded(s) \in Seq(Nat)
<1> DEFINE tildes == {i \in 1..Len(s) : s[i] = Tilde}
<1>1. tildes # {} => Min(tildes) \in 1..Len(s)
  <2>1. tildes \subseteq Nat /\ tildes \subseteq 1..Len(s)
    OBVIOUS
  <2> HIDE DEF tildes
  <2> QED
    BY <2>1, MinIsLeast
<1>2. tildes # {} => SubSeq(s, 1, Min(tildes) - 1) \in Seq(Nat)
  <2> HIDE DEF tildes
  <2> SUFFICES ASSUME tildes # {} PROVE SubSeq(s, 1, Min(tildes) - 1) \in Seq(Nat)
    OBVIOUS
  <2>1. 1 \in Int /\ Min(tildes) - 1 \in Int
    BY <1>1
  <2>2. \A i \in 1..(Min(tildes) - 1) : s[i] \in Nat
    BY <1>1
  <2> QED
    BY <2>1, <2>2, SubSeqProperties
<1>3. Untilded(s) = IF tildes = {} THEN s ELSE SubSeq(s, 1, Min(tildes) - 1)
  BY DEF Untilded
<1> HIDE DEF tildes
<1> QED
  BY <1>2, <1>3

(* The parts of KernelVersion. *)
Marks(s) == {i \in 1..Len(s) : s[i] \in {Dot, Bar, Dash}}

Unbuilt(s) == \A x \in 1..Len(s), y \in 1..Len(s) : x < y /\ s[x] = Dash => s[y] \in Digits

Kept(s) == IF Unbuilt(s) THEN Append(s, Dot) ELSE SubSeq(s, 1, Max(Marks(s)))

Named(t) == [i \in 1..(Len(t) + 6) |->
                IF i > Len(t) THEN Nine ELSE IF t[i] = Dash THEN Dot ELSE t[i]]

LEMMA KernelVersionIs ==
    ASSUME NEW v
    PROVE  KernelVersion(v) =
              IF v.epoch = None /\ OfKernel(Untilded(v.body))
              THEN [epoch |-> None, body |-> Named(Kept(Untilded(v.body)))] ELSE v
BY Zenon DEF KernelVersion, Named, Kept, Unbuilt, Marks

LEMMA LastMark ==
    ASSUME NEW s \in Seq(Nat), Marks(s) # {}
    PROVE  Max(Marks(s)) \in Marks(s) /\ \A i \in Marks(s) : i <= Max(Marks(s))
<1>1. Len(s) \in Nat /\ Marks(s) \in SUBSET (0..Len(s))
  BY DEF Marks
<1> QED
  BY <1>1, MaxIsGreatest

LEMMA KeptIsSeq ==
    ASSUME NEW s \in Seq(Nat), OfKernel(s) PROVE Kept(s) \in Seq(Nat)
<1>1. Marks(s) # {}
  BY DEF OfKernel, Marks
<1>2. Max(Marks(s)) \in 1..Len(s)
  BY <1>1, LastMark DEF Marks
<1>3. SubSeq(s, 1, Max(Marks(s))) \in Seq(Nat)
  <2>1. 1 \in Int /\ Max(Marks(s)) \in Int
    BY <1>2
  <2>2. \A i \in 1..Max(Marks(s)) : s[i] \in Nat
    BY <1>2
  <2> QED
    BY <2>1, <2>2, SubSeqProperties
<1>4. Append(s, Dot) \in Seq(Nat)
  BY DEF Dot
<1> QED
  BY <1>3, <1>4 DEF Kept

LEMMA NamedIsSeq ==
    ASSUME NEW t \in Seq(Nat)
    PROVE  /\ Named(t) \in Seq(Nat)
           /\ Len(Named(t)) = Len(t) + 6
           /\ \A i \in 1..(Len(t) + 6) :
                 Named(t)[i] = IF i > Len(t) THEN Nine ELSE IF t[i] = Dash THEN Dot ELSE t[i]
<1> DEFINE at(i) == IF i > Len(t) THEN Nine ELSE IF t[i] = Dash THEN Dot ELSE t[i]
<1>1. Len(t) + 6 \in Nat /\ \A i \in 1..Len(t) : t[i] \in Nat
  OBVIOUS
<1>2. \A i \in 1..(Len(t) + 6) : at(i) \in Nat
  BY <1>1 DEF Nine, Dot
<1>3. Named(t) = [i \in 1..(Len(t) + 6) |-> at(i)]
  BY DEF Named
<1> HIDE DEF at
<1>4. Named(t) \in Seq(Nat) /\ Len(Named(t)) = Len(t) + 6
  BY <1>1, <1>2, <1>3, IsASeq
<1>5. \A i \in 1..(Len(t) + 6) : Named(t)[i] = at(i)
  BY <1>3
<1> QED
  BY <1>4, <1>5 DEF at

LEMMA KernelIsVersion ==
    ASSUME NEW v \in Version PROVE KernelVersion(v) \in Version
<1> DEFINE s == Untilded(v.body)
<1>1. s \in Seq(Nat)
  BY UntildedIsSeq DEF Version
<1>2. OfKernel(s) => Named(Kept(s)) \in Seq(Nat)
  BY <1>1, KeptIsSeq, NamedIsSeq
<1> HIDE DEF s
<1>3. KernelVersion(v) = IF v.epoch = None /\ OfKernel(s)
                         THEN [epoch |-> None, body |-> Named(Kept(s))] ELSE v
  BY KernelVersionIs DEF s
<1> QED
  BY <1>2, <1>3 DEF Version

(* What a scan compares are versions. *)
LEMMA ListedAreVersions ==
    ASSUME NEW s \in Scans, NEW e \in Packages(s)
    PROVE  e[3] \in Version
<1>1. PICK g \in Groups : e \in {<<g, x.pkg, x.ver>> : x \in Counted(Section(s, g))}
  BY DEF Packages
<1>2. PICK x \in Counted(Section(s, g)) : e = <<g, x.pkg, x.ver>>
  BY <1>1
<1>3. x \in Section(s, g) /\ e[3] = x.ver
  BY <1>2 DEF Counted
<1>4. \A y \in (UNION s.stage) \cup Given(s.primed) \cup Given(s.dpkg) : y.ver \in Version
  BY ManifestAssumption
<1>5. \A y \in FakedStage(s) : y.ver \in Version
  <2> SUFFICES ASSUME NEW y \in FakedStage(s) PROVE y.ver \in Version
    OBVIOUS
  <2>1. PICK f \in s.faked :
            y = Plain(f.pkg, IF f.ver = AutoKernel THEN KernelVersion(s.version) ELSE f.ver)
    BY DEF FakedStage
  <2>2. y.ver = IF f.ver = AutoKernel THEN KernelVersion(s.version) ELSE f.ver
    BY <2>1 DEF Plain
  <2>3. f.ver \in Version \cup {AutoKernel}
    BY ManifestAssumption
  <2>4. s.version \in Version
    BY ManifestAssumption
  <2> QED
    BY <2>2, <2>3, <2>4, KernelIsVersion
<1>6. \A y \in FakedBuild(s) : y.ver \in Version
  BY ManifestAssumption DEF FakedBuild, Plain
<1>7. Section(s, g) \subseteq (UNION s.stage) \cup Given(s.primed) \cup Given(s.dpkg)
                              \cup FakedStage(s) \cup FakedBuild(s)
  BY DEF Section, Staged, Listed, Given
<1> QED
  BY <1>3, <1>4, <1>5, <1>6, <1>7

LEMMA ComparedAreVersions ==
    ASSUME NEW s \in Scans PROVE Compared(s) \in SUBSET Version
<1>1. ASSUME NEW e \in Packages(s), NEW n \in s.usns, FixedIn(n, e[2]) # None
      PROVE  Needed(s, e[2], n) \in Version
  <2>1. FixedIn(n, e[2]) \in Version
    <3>1. PICK v \in Version : FixedIn(n, e[2]) = BestVersion(n.rel, e[2], v)
      BY <1>1, FixedIsBest
    <3> QED
      BY <1>1, <3>1, BestIsVersion
  <2> QED
    BY <2>1, OverridesAssumption DEF Needed
<1>2. ASSUME NEW e \in Packages(s)
      PROVE  {Needed(s, e[2], n) : n \in {m \in s.usns : FixedIn(m, e[2]) # None}}
               \subseteq Version
  BY <1>1
<1>3. {e[3] : e \in {x \in Packages(s) : Valid(x[3])}} \subseteq Version
  BY ListedAreVersions
<1> QED
  BY <1>2, <1>3 DEF Compared

(* What is listed has a group; a rock has but one. *)
LEMMA PackagesHaveGroups ==
    ASSUME NEW s, NEW e \in Packages(s)
    PROVE  /\ e[1] \in Groups
           /\ s.kind = "rock" => e[1] = "staged"
<1>1. PICK g \in Groups : e \in {<<g, x.pkg, x.ver>> : x \in Counted(Section(s, g))}
  BY DEF Packages
<1>2. PICK x \in Counted(Section(s, g)) : e = <<g, x.pkg, x.ver>>
  BY <1>1
<1>3. e[1] = g
  BY <1>2
<1>4. s.kind = "rock" /\ g # "staged" => Section(s, g) = {}
  BY DEF Section
<1>5. x \in Section(s, g)
  BY DEF Counted
<1> QED
  BY <1>3, <1>4, <1>5

(* What is staged is named by what is primed, the overrides or dpkg.list,  *)
(* once anything is said to be primed. *)
LEMMA StagedIsNamed ==
    ASSUME NEW s, s.kind = "snap", s.primed # None,
           NEW e \in Packages(s), e[1] = "staged"
    PROVE  \E x \in s.primed \cup s.faked \cup Listed(s) : x.pkg = e[2]
<1>1. PICK g \in Groups : e \in {<<g, x.pkg, x.ver>> : x \in Counted(Section(s, g))}
  BY DEF Packages
<1>2. PICK x \in Counted(Section(s, g)) : e = <<g, x.pkg, x.ver>>
  BY <1>1
<1>3. g = "staged" /\ e[2] = x.pkg
  BY <1>2
<1>4. x \in Staged(s) \cup Listed(s)
  BY <1>3 DEF Counted, Section
<1>5. CASE x \in Listed(s)
  BY <1>3, <1>5
<1>6. CASE x \in FakedStage(s)
  <2>1. PICK f \in s.faked :
            x = Plain(f.pkg, IF f.ver = AutoKernel THEN KernelVersion(s.version) ELSE f.ver)
    BY <1>6 DEF FakedStage
  <2>2. x.pkg = f.pkg
    BY <2>1 DEF Plain
  <2> QED
    BY <1>3, <2>2
<1>7. CASE x \in s.primed
  BY <1>3, <1>7
<1>8. CASE s.stage = {} /\ x \in UNION s.stage
  BY <1>8
<1> DEFINE some == s.stage # {} \/ (s.file /\ s.dpkg # None)
<1>9. some => x \in FakedStage(s) \cup s.primed \cup Listed(s)
  BY <1>4 DEF Staged
<1>10. ~some => x \in FakedStage(s) \cup UNION s.stage
  BY <1>4 DEF Staged, Listed, Given
<1> QED
  BY <1>5, <1>6, <1>7, <1>8, <1>9, <1>10

(* The release guessed for a snap. *)
LEMMA GuessHasGrounds ==
    ASSUME NEW s, ReleaseOfSnap(s) # None
    PROVE  \/ ReleaseOfSnap(s) \in
                {Codename[c] : c \in {d \in DOMAIN Codename : d[2] = s.osVersion}}
                \cup {SnapRelease[k] : k \in ({s.base} \cup s.installed) \cap DOMAIN SnapRelease}
           \/ ReleaseOfSnap(s) = "xenial" /\ s.base \notin DOMAIN SnapRelease
<1> DEFINE known == s.installed \cap DOMAIN SnapRelease
<1>1. CASE <<s.osId, s.osVersion>> \in DOMAIN Codename
  <2>1. <<s.osId, s.osVersion>>[2] = s.osVersion
    OBVIOUS
  <2>2. ReleaseOfSnap(s) = Codename[<<s.osId, s.osVersion>>]
    BY <1>1 DEF ReleaseOfSnap
  <2> QED
    BY <1>1, <2>1, <2>2
<1>2. CASE <<s.osId, s.osVersion>> \notin DOMAIN Codename /\ s.base = None
  BY <1>2, NoneAssumption DEF ReleaseOfSnap
<1>3. CASE /\ <<s.osId, s.osVersion>> \notin DOMAIN Codename /\ s.base # None
           /\ s.base \in DOMAIN SnapRelease
  BY <1>3 DEF ReleaseOfSnap
<1>4. CASE /\ <<s.osId, s.osVersion>> \notin DOMAIN Codename /\ s.base # None
           /\ s.base \notin DOMAIN SnapRelease /\ Cardinality(known) = 1
  <2>1. known # {}
    BY <1>4, FS_EmptySet
  <2>2. (CHOOSE k \in known : TRUE) \in known
    BY <2>1
  <2>3. ReleaseOfSnap(s) = SnapRelease[CHOOSE k \in known : TRUE]
    BY <1>4 DEF ReleaseOfSnap
  <2> QED
    BY <2>2, <2>3
<1>5. CASE /\ <<s.osId, s.osVersion>> \notin DOMAIN Codename /\ s.base # None
           /\ s.base \notin DOMAIN SnapRelease /\ Cardinality(known) # 1
           /\ <<"ubuntu", s.osVersion>> \in DOMAIN Codename
  <2>1. <<"ubuntu", s.osVersion>>[2] = s.osVersion
    OBVIOUS
  <2>2. ReleaseOfSnap(s) = Codename[<<"ubuntu", s.osVersion>>]
    BY <1>5 DEF ReleaseOfSnap
  <2> QED
    BY <1>5, <2>1, <2>2
<1>6. CASE /\ <<s.osId, s.osVersion>> \notin DOMAIN Codename /\ s.base # None
           /\ s.base \notin DOMAIN SnapRelease /\ Cardinality(known) # 1
           /\ <<"ubuntu", s.osVersion>> \notin DOMAIN Codename
  BY <1>6 DEF ReleaseOfSnap
<1> QED
  BY <1>1, <1>2, <1>3, <1>4, <1>5, <1>6

(* The letter lists the groups that have something new. *)
LEMMA TemplateLists ==
    ASSUME NEW s, s.kind \in {"snap", "rock"}, NEW G \in SUBSET Groups,
           s.kind = "rock" => G \subseteq {"staged"}
    PROVE  G \subseteq Lists(Template(s, G))
<1>1. G \in {{}, {"staged"}, {"build"}, Groups}
  BY DEF Groups
<1>2. CASE G = {}
  BY <1>2
<1>3. CASE G = {"staged"}
  <2>1. Template(s, G) \in {"kernel", "default"}
    BY <1>3 DEF Template, Groups
  <2> QED
    BY <1>3, <2>1 DEF Lists
<1>4. CASE G = {"build"}
  <2>1. Template(s, G) \in {"kernel-build-pkgs-only", "build-pkgs-only"}
    BY <1>4 DEF Template, Groups
  <2> QED
    BY <1>4, <2>1 DEF Lists
<1>5. CASE G = Groups
  <2>1. Template(s, G) \in {"kernel-and-build-pkgs", "build-and-stage-pkgs"}
    BY <1>5 DEF Template, Groups
  <2> QED
    BY <1>5, <2>1 DEF Lists
<1> QED
  BY <1>1, <1>2, <1>3, <1>4, <1>5

-----------------------------------------------------------------------------
(* What the notices on the packages compared so far come to. *)
Found(s) == UNION {{<<e[1], e[2], n.usn>> : n \in Concerned(s, e[2], e[3])} :
                      e \in Packages(s) \ todo}

Matched ==
    pc \in {"match", "done"} =>
        /\ pending = Found(scan)
        /\ \A e \in Packages(scan) \ todo :
              Notices(scan, rel, e[2]) # {} => Valid(e[3])
        /\ pc = "done" => todo = {}

(* What is known of the scan once its release is: the strengthening the    *)
(* properties of the end follow from. *)
Known ==
    /\ scan \in Scans
    /\ pc = "skipped" => rel \notin Releases(scan)
    /\ pc \in {"release", "packages", "skipped"} => pending = {}
    /\ pc = "done" => told = IF scan.file THEN Merged ELSE Letter
    /\ pc # "done" => told = {}

IInv == TypeOK /\ Known /\ Matched

LEMMA InitIInv == Init => IInv
BY DEF Init, IInv, TypeOK, Known, Matched

LEMMA NextIInv == IInv /\ [Next]_vars => IInv'
<1> SUFFICES ASSUME IInv, [Next]_vars PROVE IInv'
  OBVIOUS
<1> USE DEF IInv
<1>1. CASE DetermineRelease
  BY <1>1 DEF DetermineRelease, TypeOK, Known, Matched
<1>2. CASE NoRelease
  BY <1>2 DEF NoRelease, TypeOK, Known, Matched
<1>3. CASE ListPackages
  <2>1. scan' = scan /\ rel' = rel /\ pending' = pending /\ told' = told
        /\ pc = "packages" /\ pc' = "match" /\ todo' = Packages(scan)
    BY <1>3 DEF ListPackages
  <2>2. TypeOK' /\ Known'
    BY <2>1 DEF TypeOK, Known
  <2>3. Packages(scan)' \ todo' = {}
    BY <2>1
  <2>4. Found(scan)' = {}
    BY <2>3 DEF Found
  <2> QED
    BY <2>1, <2>2, <2>3, <2>4 DEF Known, Matched
<1>4. CASE PackagesRaise
  BY <1>4 DEF PackagesRaise, TypeOK, Known, Matched
<1>5. CASE PassOver
  BY <1>5 DEF PassOver, TypeOK, Known, Matched
<1>6. CASE Match
  <2>1. PICK e \in todo :
            /\ Notices(scan, rel, e[2]) # {} => Valid(e[3])
            /\ todo' = todo \ {e}
            /\ pending' = pending \cup
                  {<<e[1], e[2], n.usn>> : n \in Concerned(scan, e[2], e[3])}
    BY <1>6 DEF Match
  <2>2. e \in Packages(scan)
    BY DEF TypeOK
  <2>3. Concerned(scan, e[2], e[3]) \subseteq scan.usns
    BY DEF Concerned, Notices
  <2>4. pending' \subseteq {<<f[1], f[2], n.usn>> : f \in Packages(scan), n \in scan.usns}
    BY <2>1, <2>2, <2>3 DEF TypeOK
  <2>5. scan' = scan /\ pc' = pc /\ rel' = rel /\ told' = told /\ pc = "match"
    BY <1>6 DEF Match
  <2>6. TypeOK'
    <3>1. todo' \subseteq Packages(scan)
      BY <2>1 DEF TypeOK
    <3>2. told' \subseteq pending'
      BY <2>1, <2>5 DEF TypeOK
    <3> QED
      BY <2>4, <2>5, <3>1, <3>2 DEF TypeOK
  <2>7. Known'
    BY <2>5 DEF Known
  <2>8. Packages(scan) \ todo' = (Packages(scan) \ todo) \cup {e}
    BY <2>1, <2>2
  <2>9. Found(scan)' = pending'
    <3>1. \A p, v : Concerned(scan, p, v)' = Concerned(scan, p, v)
      BY <2>5 DEF Concerned
    <3>2. Found(scan)' = UNION {{<<f[1], f[2], n.usn>> : n \in Concerned(scan, f[2], f[3])} :
                                   f \in Packages(scan) \ todo'}
      BY <2>5, <3>1 DEF Found
    <3>3. Found(scan)' = Found(scan) \cup
              {<<e[1], e[2], n.usn>> : n \in Concerned(scan, e[2], e[3])}
      BY <2>8, <3>2 DEF Found
    <3> QED
      BY <2>1, <2>5, <3>3 DEF Matched
  <2>10. Matched'
    BY <2>1, <2>5, <2>8, <2>9 DEF Matched
  <2> QED
    BY <2>6, <2>7, <2>10
<1>7. CASE MatchRaises
  BY <1>7 DEF MatchRaises, TypeOK, Known, Matched
<1>8. CASE Tell
  <2>1. Merged \subseteq pending /\ Letter \subseteq pending
    BY DEF Merged, Letter, New
  <2>2. Merged' = Merged /\ Letter' = Letter
    BY <1>8 DEF Tell, Merged, Letter, New
  <2>3. told' = IF scan.file THEN Merged ELSE Letter
    BY <1>8 DEF Tell
  <2>4. scan' = scan /\ pc' = "done" /\ rel' = rel /\ pending' = pending /\ todo' = todo
        /\ pc = "match" /\ todo = {}
    BY <1>8 DEF Tell
  <2>5. TypeOK' /\ Known'
    BY <2>1, <2>2, <2>3, <2>4 DEF TypeOK, Known
  <2>6. Found(scan)' = Found(scan)
    BY <2>4 DEF Found, Concerned
  <2>7. Matched'
    BY <2>4, <2>6 DEF Matched
  <2> QED
    BY <2>5, <2>7
<1>9. CASE UNCHANGED vars
  <2>1. Merged' = Merged /\ Letter' = Letter
    BY <1>9 DEF vars, Merged, Letter, New
  <2>2. Found(scan)' = Found(scan)
    BY <1>9 DEF vars, Found, Concerned
  <2>3. TypeOK' /\ Known'
    BY <1>9, <2>1 DEF vars, TypeOK, Known
  <2>4. Matched'
    BY <1>9, <2>2 DEF vars, Matched
  <2> QED
    BY <2>3, <2>4
<1> QED
  BY <1>1, <1>2, <1>3, <1>4, <1>5, <1>6, <1>7, <1>8, <1>9 DEF Next

LEMMA SpecIInv == Spec => []IInv
BY InitIInv, NextIInv, PTL DEF Spec

(* The scan of a manifest keeps its types: the release it goes by is the   *)
(* one the manifest gives, what it looks up are packages the manifest has, *)
(* and it tells nothing it has not found. *)
THEOREM TypeCorrect == Spec => []TypeOK
BY SpecIInv, PTL DEF IInv

-----------------------------------------------------------------------------
(* Only a release without notices is passed over in silence. *)
THEOREM SilenceIsForUntracked == Spec => []SilentOnlyIfUntracked
<1>1. IInv => SilentOnlyIfUntracked
  BY DEF IInv, Known, SilentOnlyIfUntracked, Releases
<1> QED
  BY <1>1, SpecIInv, PTL

(* The release of a snap is not taken from nowhere. *)
THEOREM ReleaseIsGrounded == Spec => []ReleaseHasGrounds
<1>1. IInv => ReleaseHasGrounds
  <2> SUFFICES ASSUME IInv, scan.kind = "snap", rel # None
               PROVE  \/ rel \in Grounds
                      \/ rel = "xenial" /\ scan.base \notin DOMAIN SnapRelease
    BY DEF ReleaseHasGrounds
  <2>1. rel = Release(scan)
    BY DEF IInv, TypeOK
  <2>2. rel = ReleaseOfSnap(scan)
    BY <2>1 DEF Release
  <2> QED
    BY <2>2, GuessHasGrounds DEF Grounds
<1> QED
  BY <1>1, SpecIInv, PTL

(* Nothing that a part stages but the snap does not prime is reported. *)
THEOREM UnprimedIsIgnored == Spec => []NothingUnprimed
<1>1. IInv => NothingUnprimed
  <2> SUFFICES ASSUME IInv, scan.kind = "snap", scan.primed # None,
                      NEW e \in pending, e[1] = "staged"
               PROVE  \E x \in scan.primed \cup scan.faked \cup Listed(scan) : x.pkg = e[2]
    BY DEF NothingUnprimed
  <2>1. PICK f \in Packages(scan), n \in scan.usns : e = <<f[1], f[2], n.usn>>
    BY DEF IInv, TypeOK
  <2>2. f[1] = "staged" /\ f[2] = e[2]
    BY <2>1
  <2> QED
    BY <2>2, StagedIsNamed
<1> QED
  BY <1>1, SpecIInv, PTL

(* The report on a file loses at most what the other group has on the same *)
(* package. *)
THEOREM FileReportIsComplete == Spec => []FileReportNamesAll
<1>1. IInv => FileReportNamesAll
  <2> SUFFICES ASSUME IInv, pc = "done", scan.file, NEW e \in pending
               PROVE  \E g \in Groups :
                         /\ \E f \in pending : f[1] = g /\ f[2] = e[2]
                         /\ \A f \in pending : f[1] = g /\ f[2] = e[2] => f \in told
    BY DEF FileReportNamesAll
  <2>1. told = Merged
    BY DEF IInv, Known
  <2>2. \A f \in pending : f[1] \in Groups
    <3> SUFFICES ASSUME NEW f \in pending PROVE f[1] \in Groups
      OBVIOUS
    <3>1. PICK h \in Packages(scan), n \in scan.usns : f = <<h[1], h[2], n.usn>>
      BY DEF IInv, TypeOK
    <3> QED
      BY <3>1, PackagesHaveGroups
  <2>3. LastGroup(scan) \in Groups
    BY DEF LastGroup, Groups
  <2>4. CASE \E f \in pending : f[1] = LastGroup(scan) /\ f[2] = e[2]
    BY <2>1, <2>3, <2>4 DEF Merged
  <2>5. CASE ~\E f \in pending : f[1] = LastGroup(scan) /\ f[2] = e[2]
    <3>1. \A f \in pending : f[2] = e[2] => f[1] = e[1]
      BY <2>2, <2>3, <2>5 DEF Groups
    <3>2. e[1] \in Groups
      BY <2>2
    <3> QED
      BY <2>1, <3>1, <3>2 DEF Merged
  <2> QED
    BY <2>4, <2>5
<1> QED
  BY <1>1, SpecIInv, PTL

(* The letter about a revision lists all that is new. *)
THEOREM LetterIsComplete == Spec => []LetterListsNew
<1>1. IInv => LetterListsNew
  <2> SUFFICES ASSUME IInv, pc = "done", ~scan.file
               PROVE  told = {e \in pending : e[3] \notin scan.seen}
    BY DEF LetterListsNew
  <2> DEFINE G == {f[1] : f \in New}
  <2>1. told = Letter
    BY DEF IInv, Known
  <2>2. \A f \in New : f[1] \in Groups /\ (scan.kind = "rock" => f[1] = "staged")
    <3> SUFFICES ASSUME NEW f \in New
                 PROVE  f[1] \in Groups /\ (scan.kind = "rock" => f[1] = "staged")
      OBVIOUS
    <3>1. f \in pending
      BY DEF New
    <3>2. PICK h \in Packages(scan), n \in scan.usns : f = <<h[1], h[2], n.usn>>
      BY <3>1 DEF IInv, TypeOK
    <3>3. f[1] = h[1]
      BY <3>2
    <3> QED
      BY <3>3, PackagesHaveGroups
  <2>3. G \in SUBSET Groups /\ (scan.kind = "rock" => G \subseteq {"staged"})
    BY <2>2
  <2>4. scan.kind \in {"snap", "rock"}
    BY ScansAssumption DEF IInv, Known
  <2>5. G \subseteq Lists(Template(scan, G))
    BY <2>3, <2>4, TemplateLists
  <2>6. \A f \in New : f[1] \in Lists(Template(scan, G))
    BY <2>5
  <2>7. Letter = New
    BY <2>6 DEF Letter
  <2> QED
    BY <2>1, <2>7 DEF New
<1> QED
  BY <1>1, SpecIInv, PTL
-----------------------------------------------------------------------------
(* A notice is compared with a version that has the epoch of the binary    *)
(* package, wherever the overrides say that the source package's differs. *)
THEOREM EpochsAreOfBinaries == Spec => []EpochOfBinary
<1>1. IInv => EpochOfBinary
  <2> SUFFICES ASSUME IInv, NEW n \in scan.usns, NEW b \in DOMAIN Unmatched,
                      b[1] = n.rel, FixedIn(n, b[2]) # None
               PROVE  FixedIn(n, b[2]).epoch = Unmatched[b].binary.epoch
    BY DEF EpochOfBinary
  <2>1. b = <<n.rel, b[2]>>
    BY OverridesAssumption
  <2>2. scan \in Scans
    BY DEF IInv, Known
  <2>3. PICK v \in Version : FixedIn(n, b[2]) = BestVersion(n.rel, b[2], v)
    BY <2>2, FixedIsBest
  <2> QED
    BY <2>1, <2>3, BestIsVersion
<1> QED
  BY <1>1, SpecIInv, PTL

(* All that a scan compares is compared as the policy has it. *)
THEOREM ComparisonIsPolicy == Spec => []VersionsOrdered
<1>1. SamplesOrdered
  BY SamplesAssumption, CompareIsPolicy DEF SamplesOrdered
<1>2. IInv => VersionsOrdered
  BY <1>1, ComparedAreVersions, CompareIsPolicy DEF IInv, Known, VersionsOrdered
<1> QED
  BY <1>2, SpecIInv, PTL

(* Whatever the order of the packages, exactly those notices are found     *)
(* that have a version the policy puts after one listed. *)
THEOREM FoundIsExact == Spec => []NoticesAreExact
<1>1. IInv => NoticesAreExact
  <2> SUFFICES ASSUME IInv, pc \in {"done", "skipped"},
                      NEW e \in Packages(scan), NEW n \in Notices(scan, rel, e[2])
               PROVE  <<e[1], e[2], n.usn>> \in pending <=>
                         \E f \in Packages(scan) :
                            /\ f[1] = e[1] /\ f[2] = e[2]
                            /\ Earlier(f[3], Needed(scan, e[2], n))
    BY DEF NoticesAreExact
  <2>1. scan \in Scans /\ n \in scan.usns /\ n.rel = rel /\ rel \in Affected(scan)
        /\ FixedIn(n, e[2]) # None
    BY DEF IInv, Known, Notices
  <2>2. pc = "done"
    <3>1. rel \in Releases(scan)
      BY <2>1 DEF Releases
    <3> QED
      BY <3>1 DEF IInv, Known
  <2>3. pending = Found(scan) /\ todo = {}
        /\ \A f \in Packages(scan) : Notices(scan, rel, f[2]) # {} => Valid(f[3])
    BY <2>2 DEF IInv, Matched
  <2>4. pending = UNION {{<<f[1], f[2], m.usn>> : m \in Concerned(scan, f[2], f[3])} :
                            f \in Packages(scan)}
    BY <2>3 DEF Found
  <2>5. \A f \in Packages(scan) : f[2] = e[2] =>
           (Compare(f[3], Needed(scan, e[2], n)) < 0 <=> Earlier(f[3], Needed(scan, e[2], n)))
    <3> SUFFICES ASSUME NEW f \in Packages(scan), f[2] = e[2]
                 PROVE  Compare(f[3], Needed(scan, e[2], n)) < 0 <=>
                          Earlier(f[3], Needed(scan, e[2], n))
      OBVIOUS
    <3>1. Valid(f[3])
      BY <2>3
    <3>2. f[3] \in Compared(scan)
      BY <3>1 DEF Compared
    <3>3. Needed(scan, e[2], n) \in Compared(scan)
      BY <2>1 DEF Compared
    <3>4. OrderIsPolicy(Compared(scan))
      BY <2>1, ComparedAreVersions, CompareIsPolicy
    <3> QED
      BY <3>2, <3>3, <3>4 DEF OrderIsPolicy
  <2>6. ASSUME <<e[1], e[2], n.usn>> \in pending
        PROVE  \E f \in Packages(scan) :
                  /\ f[1] = e[1] /\ f[2] = e[2]
                  /\ Earlier(f[3], Needed(scan, e[2], n))
    <3>0. PICK f \in Packages(scan) :
              <<e[1], e[2], n.usn>> \in {<<f[1], f[2], m.usn>> : m \in Concerned(scan, f[2], f[3])}
      BY <2>4, <2>6
    <3>1. PICK m \in Concerned(scan, f[2], f[3]) : <<e[1], e[2], n.usn>> = <<f[1], f[2], m.usn>>
      BY <3>0
    <3>2. f[1] = e[1] /\ f[2] = e[2] /\ m.usn = n.usn
      BY <3>1
    <3>3. m \in scan.usns /\ m.rel = rel
          /\ Compare(f[3], Needed(scan, f[2], m)) < 0
      BY DEF Concerned, Notices
    <3>4. m = n
      BY <2>1, <3>2, <3>3, NoticesAssumption
    <3> QED
      BY <2>5, <3>2, <3>3, <3>4
  <2>7. ASSUME NEW f \in Packages(scan), f[1] = e[1], f[2] = e[2],
               Earlier(f[3], Needed(scan, e[2], n))
        PROVE  <<e[1], e[2], n.usn>> \in pending
    <3>1. n \in Concerned(scan, f[2], f[3])
      BY <2>5, <2>7 DEF Concerned
    <3>2. <<f[1], f[2], n.usn>> \in pending
      BY <2>4, <3>1
    <3> QED
      BY <2>7, <3>2
  <2> QED
    BY <2>6, <2>7
<1> QED
  BY <1>1, SpecIInv, PTL

-----------------------------------------------------------------------------
(* Of several versions of a package the earliest decides: it is reported   *)
(* as if no other were listed, in whatever order they were compared.       *)
EarliestDecides ==
    pc = "done" =>
        \A e \in Packages(scan) : \A n \in Notices(scan, rel, e[2]) :
            (\A f \in Packages(scan) :
                f[1] = e[1] /\ f[2] = e[2] => Compare(e[3], f[3]) <= 0)
            => (<<e[1], e[2], n.usn>> \in pending
                  <=> Compare(e[3], Needed(scan, e[2], n)) < 0)

THEOREM EarliestVersionDecides == Spec => []EarliestDecides
<1>1. IInv /\ NoticesAreExact => EarliestDecides
  <2> SUFFICES ASSUME IInv, NoticesAreExact, pc = "done",
                      NEW e \in Packages(scan), NEW n \in Notices(scan, rel, e[2]),
                      \A f \in Packages(scan) :
                         f[1] = e[1] /\ f[2] = e[2] => Compare(e[3], f[3]) <= 0
               PROVE  <<e[1], e[2], n.usn>> \in pending
                         <=> Compare(e[3], Needed(scan, e[2], n)) < 0
    BY DEF EarliestDecides
  <2> DEFINE w == Needed(scan, e[2], n)
  <2>1. /\ scan \in Scans /\ n \in scan.usns /\ FixedIn(n, e[2]) # None
        /\ \A f \in Packages(scan) : Notices(scan, rel, f[2]) # {} => Valid(f[3])
    BY DEF IInv, Known, Matched, Notices
  <2>2. w \in Version
    <3>1. w \in Compared(scan)
      BY <2>1 DEF Compared
    <3> QED
      BY <2>1, <3>1, ComparedAreVersions
  <2>3. ASSUME NEW f \in Packages(scan), f[2] = e[2]
        PROVE  f[3] \in Version
    <3>1. Valid(f[3])
      BY <2>1, <2>3
    <3>2. f[3] \in Compared(scan)
      BY <3>1 DEF Compared
    <3> QED
      BY <2>1, <3>2, ComparedAreVersions
  <2> HIDE DEF w
  <2>4. ASSUME NEW f \in Packages(scan), f[2] = e[2]
        PROVE  Earlier(f[3], w) <=> Compare(f[3], w) < 0
    <3>1. f[3] \in Version
      BY <2>3, <2>4
    <3> QED
      BY <2>2, <3>1, CompareIsPolicy DEF OrderIsPolicy
  <2>5. <<e[1], e[2], n.usn>> \in pending <=>
           \E f \in Packages(scan) : f[1] = e[1] /\ f[2] = e[2] /\ Earlier(f[3], w)
    BY DEF NoticesAreExact, w
  <2>6. ASSUME NEW f \in Packages(scan), f[1] = e[1], f[2] = e[2], Compare(f[3], w) < 0
        PROVE  Compare(e[3], w) < 0
    <3>1. f[3] \in Version /\ e[3] \in Version /\ Compare(e[3], f[3]) <= 0
      BY <2>3, <2>6
    <3> QED
      BY <2>2, <2>6, <3>1, CompareIsOrder
  <2> QED
    BY <2>4, <2>5, <2>6 DEF w
<1> QED
  BY <1>1, SpecIInv, FoundIsExact, PTL

-----------------------------------------------------------------------------
(* Numbers with separators between them, by the places of these: at[n] is  *)
(* the place of the n-th, with the two ends of the string around them. *)
Separators == {Dot, Dash}

Between(s, i, j) ==
    /\ i \in 1..(Len(s) + 1) /\ j \in (i + 1)..(Len(s) + 1)
    /\ \A k \in i..(j - 1) : s[k] \in Digits

Marked(s, seps, at) ==
    /\ at \in [0..(Len(seps) + 1) -> 0..(Len(s) + 1)]
    /\ at[0] = 0
    /\ at[Len(seps) + 1] = Len(s) + 1
    /\ \A n \in 0..Len(seps) : Between(s, at[n] + 1, at[n + 1])
    /\ \A n \in 1..Len(seps) : at[n] <= Len(s) /\ s[at[n]] = seps[n]

LEMMA SeparatorWeights ==
    ASSUME NEW c \in Nat, NEW d \in Separators
    PROVE  d \in Nat /\ d \notin Digits /\ (Weight(c) = Weight(d) => c = d)
<1>1. d \in {45, 46}
  BY DEF Separators, Dot, Dash
<1>2. Weight(d) = 256 + d
  BY <1>1 DEF Weight, Letters, Tilde
<1>3. CASE c \in Letters
  <2>1. Weight(c) = c /\ c <= 122
    BY <1>3 DEF Weight, Letters, Tilde
  <2> QED
    BY <1>1, <1>2, <2>1 DEF Digits
<1>4. CASE c \notin Letters
  <2>1. Weight(c) = -1 \/ Weight(c) = 256 + c
    BY <1>4 DEF Weight
  <2> QED
    BY <1>1, <1>2, <2>1 DEF Digits
<1> QED
  BY <1>3, <1>4

(* A number, and what separates it from the rest. *)
FieldAhead(s, i, j) ==
    LET p == PartsFrom(s)[i]
        q == PartsFrom(s)[j + 1]
    IN  /\ p[1] = 0
        /\ p[2] = Number(s, i, j)
        /\ j = Len(s) + 1 => Len(p) = 2
        /\ j <= Len(s) => /\ p[3] = Weight(s[j])
                          /\ Len(p) = 3 + Len(q)
                          /\ \A x \in 1..Len(q) : p[3 + x] = q[x]

LEMMA FieldStep ==
    ASSUME NEW s \in Seq(Nat), NEW i, NEW j, Between(s, i, j),
           j <= Len(s) => s[j] \notin Digits
    PROVE  FieldAhead(s, i, j)
<1> DEFINE p == PartsFrom(s)[i]
           q == PartsFrom(s)[j + 1]
           r == PartsFrom(s)[j]
           n == Number(s, i, j)
           w == <<0, n>>
<1>1. Len(s) \in Nat /\ i \in 1..Len(s) /\ j \in 1..(Len(s) + 1) /\ i \in 1..(Len(s) + 1)
      /\ j \in i..(Len(s) + 1)
  BY DEF Between
<1>2. s[i] \in Digits
  BY <1>1 DEF Between
<1>3. Past(Digits, s, i) = j
  BY <1>1, PastIs DEF Between
<1>4. p = w \o r
  <2>1. p = Rest(s, PartsFrom(s), i)
    BY <1>1, PartsSteps
  <2>2. ~(i > Len(s))
    BY <1>1
  <2> QED
    BY <1>2, <1>3, <2>1, <2>2 DEF Rest
<1>5. n \in Int /\ r \in Seq(Int)
  BY <1>1, NumberSteps, PartsSteps
<1>6. w \in Seq(Int) /\ Len(w) = 2 /\ w[1] = 0 /\ w[2] = n
  BY <1>5
<1>7. /\ Len(p) = 2 + Len(r) /\ Len(r) \in Nat
      /\ \A x \in 1..(2 + Len(r)) : p[x] = IF x <= 2 THEN w[x] ELSE r[x - 2]
  <2> HIDE DEF p, r, w
  <2>1. Len(w \o r) = Len(w) + Len(r)
        /\ \A x \in 1..(Len(w) + Len(r)) :
              (w \o r)[x] = IF x <= Len(w) THEN w[x] ELSE r[x - Len(w)]
    BY <1>5, <1>6, ConcatProperties
  <2>2. Len(r) \in Nat
    BY <1>5
  <2> QED
    BY <1>4, <1>6, <2>1, <2>2
<1>8. p[1] = 0 /\ p[2] = n
  <2> HIDE DEF p, r, w, n
  <2> QED
    BY <1>6, <1>7
<1>9. j = Len(s) + 1 => Len(p) = 2
  <2> SUFFICES ASSUME j = Len(s) + 1 PROVE Len(p) = 2
    OBVIOUS
  <2>0. r = Rest(s, PartsFrom(s), j) /\ j > Len(s)
    BY <1>1, PartsSteps
  <2>1. r = <<>>
    BY <2>0 DEF Rest
  <2>2. Len(r) = 0
    BY <2>1
  <2> HIDE DEF p, r
  <2> QED
    BY <1>7, <2>2
<1>10. ASSUME j <= Len(s)
       PROVE  /\ p[3] = Weight(s[j])
              /\ Len(p) = 3 + Len(q)
              /\ \A x \in 1..Len(q) : p[3 + x] = q[x]
  <2> DEFINE v == <<Weight(s[j])>>
  <2>1. j + 1 \in 1..(Len(s) + 1) /\ j \in 1..Len(s) /\ s[j] \in Nat /\ ~(j > Len(s))
    BY <1>1, <1>10
  <2>2. r = v \o q
    <3>1. r = Rest(s, PartsFrom(s), j)
      BY <1>1, PartsSteps
    <3> QED
      BY <1>10, <2>1, <3>1 DEF Rest
  <2>3. q \in Seq(Int)
    BY <2>1, PartsSteps
  <2>4. v \in Seq(Int) /\ Len(v) = 1 /\ v[1] = Weight(s[j])
    BY <2>1, WeightIsInt
  <2> HIDE DEF p, q, r, v, w
  <2>5. Len(v \o q) = Len(v) + Len(q)
        /\ \A x \in 1..(Len(v) + Len(q)) :
              (v \o q)[x] = IF x <= Len(v) THEN v[x] ELSE q[x - Len(v)]
    BY <2>3, <2>4, ConcatProperties
  <2>6. Len(q) \in Nat
    BY <2>3
  <2>7. Len(r) = 1 + Len(q)
        /\ \A x \in 1..(1 + Len(q)) : r[x] = IF x <= 1 THEN v[x] ELSE q[x - 1]
    BY <2>2, <2>4, <2>5, <2>6
  <2>8. \A x \in 1..Len(q) : p[3 + x] = q[x]
    <3> SUFFICES ASSUME NEW x \in 1..Len(q) PROVE p[3 + x] = q[x]
      OBVIOUS
    <3>1. x \in Nat /\ 3 + x \in 1..(2 + Len(r)) /\ ~(3 + x <= 2) /\ (3 + x) - 2 = x + 1
      BY <2>6, <2>7
    <3>2. p[3 + x] = r[x + 1]
      BY <1>7, <3>1
    <3>3. x + 1 \in 1..(1 + Len(q)) /\ ~(x + 1 <= 1) /\ (x + 1) - 1 = x
      BY <2>6
    <3> QED
      BY <2>7, <3>2, <3>3
  <2>9. p[3] = Weight(s[j])
    <3>1. 3 \in 1..(2 + Len(r)) /\ 1 \in 1..(1 + Len(q))
      BY <2>6, <2>7
    <3>2. p[3] = r[1]
      BY <1>7, <3>1
    <3> QED
      BY <2>4, <2>7, <3>1, <3>2
  <2> QED
    BY <1>7, <2>6, <2>7, <2>8, <2>9
<1> QED
  BY <1>8, <1>9, <1>10 DEF FieldAhead

(* Where the parts go on with a number, the string does. *)
LEMMA FieldFound ==
    ASSUME NEW s \in Seq(Nat), NEW i \in 1..(Len(s) + 1),
           PartsFrom(s)[i] # <<>>, PartsFrom(s)[i][1] = 0
    PROVE  \E j : Between(s, i, j) /\ (j <= Len(s) => s[j] \notin Digits)
<1> DEFINE p == PartsFrom(s)[i]
           j == Past(Digits, s, i)
<1>1. p = Rest(s, PartsFrom(s), i)
  BY PartsSteps
<1>2. i <= Len(s)
  BY <1>1 DEF Rest
<1>3. s[i] \in Digits
  <2> SUFFICES ASSUME s[i] \notin Digits PROVE FALSE
    OBVIOUS
  <2>1. i \in 1..Len(s) /\ s[i] \in Nat
    BY <1>2
  <2>2. Key(p)[1] = Weight(s[i])
    BY <2>1, KeyOfCharacter
  <2>3. p \in Seq(Int) /\ 1 \in Positive
    BY PartsSteps DEF Positive
  <2>4. 1 <= Len(p)
    <3> HIDE DEF p
    <3> QED
      BY <2>3 DEF p
  <2>5. Key(p)[1] = p[1]
    BY <2>3, <2>4, KeyType
  <2>6. Weight(s[i]) # 0
    BY <2>1, OrderNonzero
  <2> QED
    BY <2>2, <2>5, <2>6
<1>4. j \in (i + 1)..(Len(s) + 1)
  BY <1>2, <1>3, PastAdvances
<1>5. (j <= Len(s) => s[j] \notin Digits) /\ \A k \in i..(j - 1) : s[k] \in Digits
  BY PastStops
<1> HIDE DEF j
<1> QED
  BY <1>4, <1>5 DEF Between
(* After the first m separators the parts go on as those of the rest. *)
GoesOn(s, at, m) ==
    LET p == PartsFrom(s)[at[m] + 1]
    IN  /\ Len(Parts(s)) = 3 * m + Len(p)
        /\ \A x \in 1..Len(p) : Parts(s)[3 * m + x] = p[x]

LEMMA GoesOnStart ==
    ASSUME NEW s \in Seq(Nat), NEW at, at[0] = 0 PROVE GoesOn(s, at, 0)
<1> DEFINE p == Parts(s)
<1>1. p = PartsFrom(s)[at[0] + 1] /\ p \in Seq(Int)
  <2>1. at[0] + 1 = 1 /\ 1 \in 1..(Len(s) + 1)
    OBVIOUS
  <2> QED
    BY <2>1, PartsIsPartsFrom, PartsSteps
<1> HIDE DEF p
<1>2. Len(p) = 3 * 0 + Len(p) /\ \A x \in 1..Len(p) : p[3 * 0 + x] = p[x]
  BY <1>1
<1> QED
  BY <1>1, <1>2 DEF GoesOn, p

LEMMA GoesOnStep ==
    ASSUME NEW s \in Seq(Nat), NEW at, NEW m \in Nat, GoesOn(s, at, m),
           Between(s, at[m] + 1, at[m + 1]), at[m + 1] <= Len(s),
           s[at[m + 1]] \notin Digits
    PROVE  /\ GoesOn(s, at, m + 1)
           /\ Parts(s)[3 * m + 1] = 0
           /\ Parts(s)[3 * m + 2] = Number(s, at[m] + 1, at[m + 1])
           /\ Parts(s)[3 * m + 3] = Weight(s[at[m + 1]])
<1> DEFINE P == Parts(s)
           i == at[m] + 1
           j == at[m + 1]
           p == PartsFrom(s)[i]
           q == PartsFrom(s)[j + 1]
<1>1. /\ p[1] = 0 /\ p[2] = Number(s, i, j) /\ p[3] = Weight(s[j])
      /\ Len(p) = 3 + Len(q) /\ \A x \in 1..Len(q) : p[3 + x] = q[x]
  <2>1. Between(s, i, j) /\ j <= Len(s) /\ s[j] \notin Digits
    OBVIOUS
  <2> HIDE DEF P, i, j
  <2>2. FieldAhead(s, i, j)
    BY <2>1, FieldStep, Zenon
  <2> QED
    BY <2>1, <2>2 DEF FieldAhead
<1>2. Len(P) = 3 * m + Len(p) /\ \A x \in 1..Len(p) : P[3 * m + x] = p[x]
  BY DEF GoesOn
<1>3. Len(q) \in Nat
  <2>1. j + 1 \in 1..(Len(s) + 1)
    BY DEF Between
  <2>2. q \in Seq(Int)
    BY <2>1, PartsSteps
  <2> HIDE DEF q
  <2> QED
    BY <2>2
<1> HIDE DEF P, p, q, i, j
<1>4. P[3 * m + 1] = 0 /\ P[3 * m + 2] = Number(s, i, j) /\ P[3 * m + 3] = Weight(s[j])
  <2>1. 1 \in 1..Len(p) /\ 2 \in 1..Len(p) /\ 3 \in 1..Len(p)
    BY <1>1, <1>3
  <2> QED
    BY <1>1, <1>2, <2>1
<1>5. Len(P) = 3 * (m + 1) + Len(q)
  BY <1>1, <1>2, <1>3
<1>6. ASSUME NEW x \in 1..Len(q) PROVE P[3 * (m + 1) + x] = q[x]
  <2>1. 3 + x \in 1..Len(p) /\ 3 * (m + 1) + x = 3 * m + (3 + x)
    BY <1>1, <1>3
  <2> QED
    BY <1>1, <1>2, <2>1
<1> QED
  BY <1>4, <1>5, <1>6 DEF GoesOn, P, i, j, q

LEMMA GoesOnEnd ==
    ASSUME NEW s \in Seq(Nat), NEW at, NEW m \in Nat, GoesOn(s, at, m),
           Between(s, at[m] + 1, at[m + 1]), at[m + 1] = Len(s) + 1
    PROVE  /\ Len(Parts(s)) = 3 * m + 2
           /\ Parts(s)[3 * m + 1] = 0
           /\ Parts(s)[3 * m + 2] = Number(s, at[m] + 1, at[m + 1])
<1> DEFINE p == PartsFrom(s)[at[m] + 1]
<1>1. p[1] = 0 /\ p[2] = Number(s, at[m] + 1, at[m + 1]) /\ Len(p) = 2
  <2>1. ~(at[m + 1] <= Len(s))
    OBVIOUS
  <2>2. FieldAhead(s, at[m] + 1, at[m + 1])
    BY <2>1, FieldStep, Zenon
  <2> QED
    BY <2>2 DEF FieldAhead
<1>2. Len(Parts(s)) = 3 * m + Len(p) /\ \A x \in 1..Len(p) : Parts(s)[3 * m + x] = p[x]
  BY DEF GoesOn
<1> HIDE DEF p
<1>3. 1 \in 1..Len(p) /\ 2 \in 1..Len(p)
  BY <1>1
<1> QED
  BY <1>1, <1>2, <1>3

(* The parts of a string whose separators are at these places. *)
LEMMA MarkedGoesOn ==
    ASSUME NEW s \in Seq(Nat), NEW seps \in Seq(Separators), NEW at, Marked(s, seps, at)
    PROVE  \A m \in 0..Len(seps) : GoesOn(s, at, m)
<1> DEFINE S == {m \in Nat : m <= Len(seps) => GoesOn(s, at, m)}
<1>1. 0 \in S /\ S \in SUBSET Nat
  BY GoesOnStart DEF Marked
<1>2. ASSUME NEW m \in S PROVE m + 1 \in S
  <2> SUFFICES ASSUME m + 1 <= Len(seps) PROVE GoesOn(s, at, m + 1)
    OBVIOUS
  <2>1. m \in 0..Len(seps) /\ m + 1 \in 1..Len(seps) /\ GoesOn(s, at, m)
    OBVIOUS
  <2>2. Between(s, at[m] + 1, at[m + 1]) /\ at[m + 1] <= Len(s)
        /\ s[at[m + 1]] = seps[m + 1] /\ seps[m + 1] \in Separators
    BY <2>1 DEF Marked
  <2>3. seps[m + 1] \notin Digits
    BY <2>2, SeparatorWeights DEF Separators, Dot
  <2> QED
    BY <2>1, <2>2, <2>3, GoesOnStep
<1> HIDE DEF S
<1>3. S = Nat
  BY <1>1, <1>2, NatInduct
<1>4. Len(seps) \in Nat
  OBVIOUS
<1> QED
  BY <1>3, <1>4 DEF S

LEMMA MarkedParts ==
    ASSUME NEW s \in Seq(Nat), NEW seps \in Seq(Separators), NEW at, Marked(s, seps, at)
    PROVE  /\ Fielded(s, seps)
           /\ \A n \in 0..Len(seps) :
                 Parts(s)[3 * n + 2] = Number(s, at[n] + 1, at[n + 1])
<1>1. Len(seps) \in Nat
  OBVIOUS
<1>2. ASSUME NEW n \in 0..Len(seps), n # Len(seps)
      PROVE  /\ Parts(s)[3 * n + 1] = 0
             /\ Parts(s)[3 * n + 2] = Number(s, at[n] + 1, at[n + 1])
             /\ Parts(s)[3 * n + 3] = Weight(seps[n + 1])
  <2>1. GoesOn(s, at, n) /\ n \in Nat /\ n + 1 \in 1..Len(seps)
    BY <1>1, <1>2, MarkedGoesOn
  <2>2. Between(s, at[n] + 1, at[n + 1]) /\ at[n + 1] <= Len(s)
        /\ s[at[n + 1]] = seps[n + 1] /\ seps[n + 1] \in Separators
    BY <2>1 DEF Marked
  <2>3. seps[n + 1] \notin Digits
    BY <2>2, SeparatorWeights DEF Separators, Dot
  <2> QED
    BY <2>1, <2>2, <2>3, GoesOnStep
<1>3. /\ Len(Parts(s)) = 3 * Len(seps) + 2
      /\ Parts(s)[3 * Len(seps) + 1] = 0
      /\ Parts(s)[3 * Len(seps) + 2] = Number(s, at[Len(seps)] + 1, at[Len(seps) + 1])
  <2>1. GoesOn(s, at, Len(seps)) /\ Len(seps) \in 0..Len(seps)
    BY <1>1, MarkedGoesOn
  <2>2. Between(s, at[Len(seps)] + 1, at[Len(seps) + 1]) /\ at[Len(seps) + 1] = Len(s) + 1
    BY <2>1 DEF Marked
  <2> QED
    BY <1>1, <2>1, <2>2, GoesOnEnd
<1>4. ASSUME NEW n \in 1..Len(seps) PROVE Parts(s)[3 * n] = Weight(seps[n])
  <2>1. n - 1 \in 0..Len(seps) /\ n - 1 # Len(seps) /\ (n - 1) + 1 = n
        /\ 3 * (n - 1) + 3 = 3 * n
    BY <1>1
  <2> QED
    BY <1>2, <2>1
<1> QED
  BY <1>2, <1>3, <1>4 DEF Fielded

(* A string whose parts are such numbers has the separators at some        *)
(* places. *)
MarkedUpTo(s, seps, at, m) ==
    /\ at \in [0..m -> 0..(Len(s) + 1)]
    /\ at[0] = 0
    /\ \A n \in 0..(m - 1) : Between(s, at[n] + 1, at[n + 1])
    /\ \A n \in 1..m : n <= Len(seps) => at[n] <= Len(s) /\ s[at[n]] = seps[n]
    /\ m <= Len(seps) => GoesOn(s, at, m)
    /\ m = Len(seps) + 1 => at[m] = Len(s) + 1

LEMMA OneMoreMark ==
    ASSUME NEW s \in Seq(Nat), NEW seps \in Seq(Separators), Fielded(s, seps),
           NEW m \in 0..Len(seps), NEW at, MarkedUpTo(s, seps, at, m)
    PROVE  \E h : MarkedUpTo(s, seps, h, m + 1)
<1> DEFINE i == at[m] + 1
           p == PartsFrom(s)[i]
<1>1. Len(seps) \in Nat /\ Len(s) \in Nat /\ m \in Nat /\ m <= Len(seps)
  OBVIOUS
<1>2. at[m] \in 0..Len(s) /\ i \in 1..(Len(s) + 1)
  <2>1. m = 0 => at[m] = 0
    BY DEF MarkedUpTo
  <2>2. m # 0 => m \in 1..m /\ at[m] <= Len(s)
    BY <1>1 DEF MarkedUpTo
  <2>3. m \in 0..m /\ at[m] \in 0..(Len(s) + 1)
    BY <1>1 DEF MarkedUpTo
  <2> QED
    BY <1>1, <2>1, <2>2, <2>3
<1>3. GoesOn(s, at, m)
  BY <1>1 DEF MarkedUpTo
<1>4. Len(p) = 3 * (Len(seps) - m) + 2 /\ p[1] = 0 /\ p # <<>>
  <2>1. Len(Parts(s)) = 3 * Len(seps) + 2 /\ Parts(s)[3 * m + 1] = 0
    BY DEF Fielded
  <2>2. Len(Parts(s)) = 3 * m + Len(p) /\ \A x \in 1..Len(p) : Parts(s)[3 * m + x] = p[x]
    BY <1>3 DEF GoesOn
  <2>3. p \in Seq(Int)
    BY <1>2, PartsSteps
  <2> HIDE DEF p
  <2>4. Len(p) \in Nat /\ Len(p) = 3 * (Len(seps) - m) + 2
    BY <1>1, <2>1, <2>2, <2>3
  <2>5. 1 \in 1..Len(p)
    BY <1>1, <2>4
  <2>6. p # <<>>
    BY <2>5
  <2> QED
    BY <2>1, <2>2, <2>4, <2>5, <2>6
<1>5. PICK j : Between(s, i, j) /\ (j <= Len(s) => s[j] \notin Digits)
  BY <1>2, <1>4, FieldFound
<1> DEFINE h == [n \in 0..(m + 1) |-> IF n = m + 1 THEN j ELSE at[n]]
<1>6. j \in 1..(Len(s) + 1)
  BY <1>2, <1>5 DEF Between
<1>7. (\A n \in 0..m : h[n] = at[n]) /\ h[m + 1] = j
  BY <1>1
<1>8. h \in [0..(m + 1) -> 0..(Len(s) + 1)]
  <2>1. \A n \in 0..m : at[n] \in 0..(Len(s) + 1)
    BY DEF MarkedUpTo
  <2> QED
    BY <1>1, <1>6, <2>1
<1> HIDE DEF h
<1>9. h[0] = 0 /\ \A n \in 0..m : Between(s, h[n] + 1, h[n + 1])
  <2>1. h[0] = 0
    BY <1>1, <1>7 DEF MarkedUpTo
  <2>2. ASSUME NEW n \in 0..m PROVE Between(s, h[n] + 1, h[n + 1])
    <3>1. CASE n = m
      BY <1>5, <1>7, <3>1
    <3>2. CASE n # m
      <4>1. n \in 0..(m - 1) /\ n + 1 \in 0..m
        BY <1>1, <3>2
      <4> QED
        BY <1>7, <4>1 DEF MarkedUpTo
    <3> QED
      BY <3>1, <3>2
  <2> QED
    BY <2>1, <2>2
<1>10. GoesOn(s, h, m)
  <2>1. h[m] = at[m]
    BY <1>1, <1>7
  <2> HIDE DEF i, p
  <2> QED
    BY <1>3, <2>1 DEF GoesOn
<1>11. h[m] + 1 = i
  BY <1>1, <1>7
<1>12. CASE m < Len(seps)
  <2>1. j <= Len(s)
    <3>1. j = Len(s) + 1 => Len(p) = 2
      <4> HIDE DEF i
      <4> QED
        BY <1>5, FieldStep DEF FieldAhead
    <3>2. Len(p) # 2
      BY <1>1, <1>4, <1>12
    <3> QED
      BY <1>1, <1>6, <3>1, <3>2
  <2>2. GoesOn(s, h, m + 1) /\ Parts(s)[3 * m + 3] = Weight(s[j])
    <3>1. Between(s, h[m] + 1, h[m + 1]) /\ h[m + 1] <= Len(s) /\ s[h[m + 1]] \notin Digits
      BY <1>5, <1>7, <1>11, <2>1
    <3> QED
      BY <1>1, <1>7, <1>10, <3>1, GoesOnStep
  <2>3. s[j] = seps[m + 1]
    <3>1. m + 1 \in 1..Len(seps) /\ 3 * (m + 1) = 3 * m + 3
      BY <1>1, <1>12
    <3>2. Weight(s[j]) = Weight(seps[m + 1])
      BY <2>2, <3>1 DEF Fielded
    <3>3. s[j] \in Nat /\ seps[m + 1] \in Separators
      BY <1>6, <2>1, <3>1
    <3> QED
      BY <3>2, <3>3, SeparatorWeights
  <2>4. \A n \in 1..(m + 1) : n <= Len(seps) => h[n] <= Len(s) /\ s[h[n]] = seps[n]
    <3> SUFFICES ASSUME NEW n \in 1..(m + 1), n <= Len(seps)
                 PROVE  h[n] <= Len(s) /\ s[h[n]] = seps[n]
      OBVIOUS
    <3>1. CASE n = m + 1
      BY <1>7, <2>1, <2>3, <3>1
    <3>2. CASE n # m + 1
      <4>1. n \in 1..m /\ n \in 0..m
        BY <1>1, <3>2
      <4> QED
        BY <1>7, <4>1 DEF MarkedUpTo
    <3> QED
      BY <3>1, <3>2
  <2>5. m + 1 # Len(seps) + 1 /\ (m + 1) - 1 = m
    BY <1>1, <1>12
  <2> QED
    BY <1>8, <1>9, <2>2, <2>4, <2>5 DEF MarkedUpTo
<1>13. CASE m = Len(seps)
  <2>1. j = Len(s) + 1
    <3>1. j <= Len(s) => Len(p) = 3 + Len(PartsFrom(s)[j + 1])
      <4> HIDE DEF i
      <4> QED
        BY <1>5, FieldStep DEF FieldAhead
    <3>2. j <= Len(s) => PartsFrom(s)[j + 1] \in Seq(Int)
      <4>1. j <= Len(s) => j + 1 \in 1..(Len(s) + 1)
        BY <1>1, <1>6
      <4> QED
        BY <4>1, PartsSteps
    <3>3. j <= Len(s) => Len(PartsFrom(s)[j + 1]) \in Nat
      BY <3>2
    <3>4. Len(p) = 2
      BY <1>1, <1>4, <1>13
    <3> QED
      BY <1>1, <1>6, <3>1, <3>3, <3>4
  <2>2. \A n \in 1..(m + 1) : n <= Len(seps) => h[n] <= Len(s) /\ s[h[n]] = seps[n]
    <3> SUFFICES ASSUME NEW n \in 1..(m + 1), n <= Len(seps)
                 PROVE  h[n] <= Len(s) /\ s[h[n]] = seps[n]
      OBVIOUS
    <3>1. n \in 1..m /\ n \in 0..m
      BY <1>1, <1>13
    <3> QED
      BY <1>7, <3>1 DEF MarkedUpTo
  <2>3. ~(m + 1 <= Len(seps)) /\ (m + 1) - 1 = m
    BY <1>1, <1>13
  <2> QED
    BY <1>7, <1>8, <1>9, <2>1, <2>2, <2>3 DEF MarkedUpTo
<1> QED
  BY <1>1, <1>12, <1>13

LEMMA MarksFound ==
    ASSUME NEW s \in Seq(Nat), NEW seps \in Seq(Separators), Fielded(s, seps)
    PROVE  \E at : Marked(s, seps, at)
<1> DEFINE S == {m \in Nat : m <= Len(seps) + 1 => \E at : MarkedUpTo(s, seps, at, m)}
<1>1. Len(seps) \in Nat /\ Len(s) \in Nat
  OBVIOUS
<1>2. 0 \in S /\ S \in SUBSET Nat
  <2> DEFINE at == [n \in 0..0 |-> 0]
  <2>1. at \in [0..0 -> 0..(Len(s) + 1)] /\ at[0] = 0
    BY <1>1
  <2> HIDE DEF at
  <2>2. GoesOn(s, at, 0)
    BY <2>1, GoesOnStart
  <2>3. 0 # Len(seps) + 1 /\ 0..(0 - 1) = {} /\ 1..0 = {}
    BY <1>1
  <2>4. MarkedUpTo(s, seps, at, 0)
    BY <2>1, <2>2, <2>3 DEF MarkedUpTo
  <2> QED
    BY <2>4
<1>3. ASSUME NEW m \in S PROVE m + 1 \in S
  <2> SUFFICES ASSUME m + 1 <= Len(seps) + 1 PROVE \E h : MarkedUpTo(s, seps, h, m + 1)
    OBVIOUS
  <2>1. m \in 0..Len(seps) /\ m <= Len(seps) + 1
    BY <1>1
  <2>2. PICK at : MarkedUpTo(s, seps, at, m)
    BY <2>1
  <2> QED
    BY <2>1, <2>2, OneMoreMark
<1> HIDE DEF S
<1>4. S = Nat
  BY <1>2, <1>3, NatInduct
<1>5. PICK at : MarkedUpTo(s, seps, at, Len(seps) + 1)
  <2>1. Len(seps) + 1 \in S
    BY <1>1, <1>4
  <2> QED
    BY <1>1, <2>1 DEF S
<1>6. (Len(seps) + 1) - 1 = Len(seps) /\ 1..Len(seps) \subseteq 1..(Len(seps) + 1)
      /\ \A n \in 1..Len(seps) : n <= Len(seps)
  BY <1>1
<1>7. Marked(s, seps, at)
  BY <1>5, <1>6 DEF MarkedUpTo, Marked
<1> QED
  BY <1>7

(* The digits of one number in two strings. *)
LEMMA SameNumber ==
    ASSUME NEW s \in Seq(Nat), NEW t \in Seq(Nat), NEW i, NEW j,
           Between(s, i, j), j <= Len(t) + 1, \A k \in i..(j - 1) : t[k] = s[k]
    PROVE  Between(t, i, j) /\ Number(t, i, j) = Number(s, i, j)
<1> DEFINE m == j - i
<1>1. /\ Len(s) \in Nat /\ Len(t) \in Nat
      /\ i \in 1..(Len(s) + 1) /\ i \in 1..(Len(t) + 1)
      /\ j \in (i + 1)..(Len(s) + 1) /\ j \in (i + 1)..(Len(t) + 1)
  BY DEF Between
<1>2. m \in Nat /\ i + m = j
  BY <1>1
<1>3. \A k \in 0..(m - 1) : i + k \in i..(j - 1)
  BY <1>1
<1>4. \A k \in i..(j - 1) : s[k] \in Digits /\ t[k] = s[k]
  BY DEF Between
<1> HIDE DEF m
<1>5. Run(s, i, m) /\ Run(t, i, m)
  <2>1. j <= Len(s) + 1 /\ j <= Len(t) + 1
    BY <1>1
  <2>2. i + m <= Len(s) + 1 /\ i + m <= Len(t) + 1
    BY <1>2, <2>1
  <2>3. \A k \in 0..(m - 1) : s[i + k] \in Digits /\ t[i + k] \in Digits
    BY <1>3, <1>4
  <2> QED
    BY <2>2, <2>3 DEF Run
<1>6. \A k \in 0..(m - 1) : t[i + k] = s[i + k]
  BY <1>3, <1>4
<1>7. Number(t, i, i + m) = Number(s, i, i + m)
  BY <1>1, <1>2, <1>5, <1>6, EqualDigits
<1> QED
  BY <1>1, <1>2, <1>4, <1>7 DEF Between

LEMMA SixNines ==
    ASSUME NEW s \in Seq(Nat), NEW i \in 1..(Len(s) + 1), i + 6 <= Len(s) + 1,
           \A k \in i..(i + 5) : s[k] = Nine
    PROVE  Between(s, i, i + 6) /\ Number(s, i, i + 6) = Highest
<1> DEFINE N(k) == Number(s, i, i + k)
<1>1. Len(s) \in Nat
  OBVIOUS
<1>2. N(0) = 0
  <2>1. i + 0 = i
    OBVIOUS
  <2> QED
    BY <2>1, NumberSteps
<1>3. \A k \in 0..5 : N(k + 1) = 10 * N(k) + 9
  <2> SUFFICES ASSUME NEW k \in 0..5 PROVE N(k + 1) = 10 * N(k) + 9
    OBVIOUS
  <2>1. i + k \in i..Len(s) /\ i + k \in i..(i + 5) /\ i + (k + 1) = (i + k) + 1
    BY <1>1
  <2>2. N(k + 1) = 10 * N(k) + s[i + k] - Zero
    BY <2>1, NumberSteps
  <2>3. N(k) \in Int
    <3>1. i + k \in i..(Len(s) + 1)
      BY <1>1, <2>1
    <3> QED
      BY <3>1, NumberSteps
  <2> HIDE DEF N
  <2> QED
    BY <2>1, <2>2, <2>3 DEF Nine, Zero
<1>4. N(1) = 9 /\ N(2) = 99 /\ N(3) = 999 /\ N(4) = 9999 /\ N(5) = 99999 /\ N(6) = Highest
  <2> HIDE DEF N
  <2>1. N(0 + 1) = 10 * N(0) + 9
    BY <1>3
  <2>2. N(1 + 1) = 10 * N(1) + 9
    BY <1>3
  <2>3. N(2 + 1) = 10 * N(2) + 9
    BY <1>3
  <2>4. N(3 + 1) = 10 * N(3) + 9
    BY <1>3
  <2>5. N(4 + 1) = 10 * N(4) + 9
    BY <1>3
  <2>6. N(5 + 1) = 10 * N(5) + 9
    BY <1>3
  <2>7. 0 + 1 = 1 /\ 1 + 1 = 2 /\ 2 + 1 = 3 /\ 3 + 1 = 4 /\ 4 + 1 = 5 /\ 5 + 1 = 6
    OBVIOUS
  <2>8. N(1) = 9
    BY <1>2, <2>1, <2>7
  <2>9. N(2) = 99
    BY <2>2, <2>7, <2>8
  <2>10. N(3) = 999
    BY <2>3, <2>7, <2>9
  <2>11. N(4) = 9999
    BY <2>4, <2>7, <2>10
  <2>12. N(5) = 99999
    BY <2>5, <2>7, <2>11
  <2>13. N(6) = Highest
    BY <2>6, <2>7, <2>12, SMT DEF Highest
  <2> QED
    BY <2>8, <2>9, <2>10, <2>11, <2>12, <2>13
<1>5. Between(s, i, i + 6)
  <2>1. i + 6 \in (i + 1)..(Len(s) + 1) /\ \A k \in i..((i + 6) - 1) : k \in i..(i + 5)
    BY <1>1
  <2>2. Nine \in Digits
    BY DEF Nine, Digits
  <2> QED
    BY <2>1, <2>2 DEF Between
<1> QED
  BY <1>4, <1>5

-----------------------------------------------------------------------------
(* A kernel's version as its meta package has it: the first four numbers,  *)
(* and the highest build number. *)
Dots == <<Dot, Dot, Dot, Dot>>

KernelSeps == {<<Dot, Dot, Dash>> \o build : build \in {<<>>, <<Dot>>, <<Dash>>}}

(* The places of the separators of such a version. *)
LEMMA KernelPlaces ==
    ASSUME NEW s \in Seq(Nat), NEW seps \in KernelSeps, NEW at, Marked(s, seps, at)
    PROVE  /\ Len(s) \in Nat /\ at[0] = 0
           /\ at[1] \in 2..Len(s) /\ at[2] \in (at[1] + 2)..Len(s)
           /\ at[3] \in (at[2] + 2)..Len(s) /\ at[4] \in (at[3] + 2)..(Len(s) + 1)
           /\ s[at[1]] = Dot /\ s[at[2]] = Dot /\ s[at[3]] = Dash
           /\ \A n \in 0..3 : Between(s, at[n] + 1, at[n + 1])
           /\ Len(seps) = 3 => at[4] = Len(s) + 1
           /\ Len(seps) = 4 => /\ at[4] <= Len(s) /\ s[at[4]] \in Separators
                               /\ Between(s, at[4] + 1, Len(s) + 1)
           /\ Len(seps) \in {3, 4}
<1>1. /\ Len(seps) \in {3, 4} /\ seps[1] = Dot /\ seps[2] = Dot /\ seps[3] = Dash
      /\ Len(seps) = 4 => seps[4] \in Separators
  <2> DEFINE first == <<Dot, Dot, Dash>>
  <2>1. PICK build \in {<<>>, <<Dot>>, <<Dash>>} : seps = first \o build
    BY DEF KernelSeps
  <2>2. /\ first \in Seq({Dot, Dash}) /\ Len(first) = 3
        /\ first[1] = Dot /\ first[2] = Dot /\ first[3] = Dash
    OBVIOUS
  <2>3. /\ build \in Seq({Dot, Dash}) /\ Len(build) \in {0, 1}
        /\ Len(build) = 1 => build[1] \in {Dot, Dash}
    <3>1. CASE build = <<>>
      BY <3>1
    <3>2. CASE build = <<Dot>>
      BY <3>2
    <3>3. CASE build = <<Dash>>
      BY <3>3
    <3> QED
      BY <3>1, <3>2, <3>3
  <2> HIDE DEF first
  <2>4. /\ Len(seps) = 3 + Len(build)
        /\ \A x \in 1..(3 + Len(build)) :
              seps[x] = IF x <= 3 THEN first[x] ELSE build[x - 3]
    <3>1. /\ Len(first \o build) = Len(first) + Len(build)
          /\ \A x \in 1..(Len(first) + Len(build)) :
                (first \o build)[x] = IF x <= Len(first) THEN first[x] ELSE build[x - Len(first)]
      <4> HIDE DEF first
      <4> QED
        BY <2>2, <2>3, ConcatProperties, ZenonT(30)
    <3> QED
      BY <2>1, <2>2, <3>1, Zenon
  <2>5. seps[1] = Dot /\ seps[2] = Dot /\ seps[3] = Dash
    <3>1. 1 \in 1..(3 + Len(build)) /\ 2 \in 1..(3 + Len(build)) /\ 3 \in 1..(3 + Len(build))
      BY <2>3
    <3> QED
      BY <2>2, <2>4, <3>1
  <2>6. Len(seps) = 4 => seps[4] = build[1] /\ Len(build) = 1
    <3>1. Len(seps) = 4 => Len(build) = 1 /\ 4 \in 1..(3 + Len(build))
      <4>1. CASE Len(build) = 0
        <5>1. Len(seps) = 3 + Len(build)
          BY <2>4
        <5>2. 3 + Len(build) = 3
          BY <4>1
        <5>3. Len(seps) = 3
          BY <5>1, <5>2, Zenon
        <5>4. Len(seps) # 4
          BY <5>3
        <5> QED
          BY <5>4, Zenon
      <4>2. CASE Len(build) = 1
        BY <4>2
      <4> QED
        BY <2>3, <4>1, <4>2
    <3>2. ~(4 <= 3) /\ 4 - 3 = 1
      OBVIOUS
    <3>3. 4 \in 1..(3 + Len(build)) => seps[4] = build[4 - 3]
      BY <2>4, <3>2
    <3> QED
      BY <3>1, <3>2, <3>3
  <2> QED
    BY <2>3, <2>4, <2>5, <2>6 DEF Separators
<1>2. 0..3 \subseteq 0..Len(seps) /\ 1..3 \subseteq 1..Len(seps) /\ Len(s) \in Nat
  BY <1>1
<1>3. /\ at[0] = 0 /\ at[Len(seps) + 1] = Len(s) + 1
      /\ \A n \in 0..Len(seps) : Between(s, at[n] + 1, at[n + 1])
      /\ \A n \in 1..Len(seps) : at[n] <= Len(s) /\ s[at[n]] = seps[n]
  BY DEF Marked
<1>4. \A n \in 0..3 : Between(s, at[n] + 1, at[n + 1])
  BY <1>2, <1>3
<1>5. /\ at[1] <= Len(s) /\ at[2] <= Len(s) /\ at[3] <= Len(s)
      /\ s[at[1]] = Dot /\ s[at[2]] = Dot /\ s[at[3]] = Dash
  <2>1. 1 \in 1..3 /\ 2 \in 1..3 /\ 3 \in 1..3
    OBVIOUS
  <2> QED
    BY <1>1, <1>2, <1>3, <2>1
<1>6. Len(seps) = 3 => at[4] = Len(s) + 1
  BY <1>3
<1>7. Len(seps) = 4 => /\ at[4] <= Len(s) /\ s[at[4]] \in Separators
                       /\ Between(s, at[4] + 1, Len(s) + 1)
  <2> SUFFICES ASSUME Len(seps) = 4
               PROVE  /\ at[4] <= Len(s) /\ s[at[4]] \in Separators
                      /\ Between(s, at[4] + 1, Len(s) + 1)
    OBVIOUS
  <2>1. 4 \in 1..Len(seps) /\ 4 \in 0..Len(seps) /\ 4 + 1 = Len(seps) + 1
    OBVIOUS
  <2> QED
    BY <1>1, <1>3, <2>1
<1>8. at[1] \in 2..Len(s)
  <2>1. 0 \in 0..3 /\ at[0 + 1] = at[1]
    OBVIOUS
  <2>2. Between(s, 0 + 1, at[1])
    BY <1>3, <1>4, <2>1
  <2>3. at[1] \in 2..(Len(s) + 1)
    BY <2>2 DEF Between
  <2> QED
    BY <1>2, <1>5, <2>3
<1>9. at[2] \in (at[1] + 2)..Len(s)
  <2>1. 1 \in 0..3 /\ at[1 + 1] = at[2]
    OBVIOUS
  <2>2. Between(s, at[1] + 1, at[2])
    BY <1>4, <2>1
  <2>3. at[2] \in ((at[1] + 1) + 1)..(Len(s) + 1)
    BY <2>2 DEF Between
  <2>4. Len(s) \in Nat /\ at[1] \in Int /\ at[2] <= Len(s)
    BY <1>2, <1>5, <1>8
  <2> QED
    BY <2>3, <2>4
<1>10. at[3] \in (at[2] + 2)..Len(s)
  <2>1. 2 \in 0..3 /\ at[2 + 1] = at[3]
    OBVIOUS
  <2>2. Between(s, at[2] + 1, at[3])
    BY <1>4, <2>1
  <2>3. at[3] \in ((at[2] + 1) + 1)..(Len(s) + 1)
    BY <2>2 DEF Between
  <2>4. Len(s) \in Nat /\ at[2] \in Int /\ at[3] <= Len(s)
    BY <1>2, <1>5, <1>8, <1>9
  <2> QED
    BY <2>3, <2>4
<1>11. at[4] \in (at[3] + 2)..(Len(s) + 1)
  <2>1. 3 \in 0..3 /\ at[3 + 1] = at[4]
    OBVIOUS
  <2>2. Between(s, at[3] + 1, at[4])
    BY <1>4, <2>1
  <2>3. at[4] \in ((at[3] + 1) + 1)..(Len(s) + 1)
    BY <2>2 DEF Between
  <2> QED
    BY <1>2, <1>8, <1>9, <1>10, <2>3
<1> QED
  BY <1>1, <1>2, <1>3, <1>4, <1>5, <1>6, <1>7, <1>8, <1>9, <1>10, <1>11

(* What is kept of it ends with the fourth separator. *)
LEMMA KernelKept ==
    ASSUME NEW s \in Seq(Nat), NEW seps \in KernelSeps, NEW at, Marked(s, seps, at)
    PROVE  /\ OfKernel(s)
           /\ Kept(s) \in Seq(Nat) /\ Len(Kept(s)) = at[4]
           /\ Kept(s)[at[4]] \in Separators
           /\ \A x \in 1..(at[4] - 1) : Kept(s)[x] = s[x]
<1> DEFINE i == at[1]
           j == at[2]
           k == at[3]
           l == at[4]
<1>1. /\ Len(s) \in Nat /\ i \in 2..Len(s) /\ j \in (i + 2)..Len(s)
      /\ k \in (j + 2)..Len(s) /\ l \in (k + 2)..(Len(s) + 1)
      /\ s[i] = Dot /\ s[j] = Dot /\ s[k] = Dash
      /\ Len(seps) = 3 => l = Len(s) + 1
      /\ Len(seps) = 4 => /\ l <= Len(s) /\ s[l] \in Separators
                          /\ Between(s, l + 1, Len(s) + 1)
      /\ Len(seps) \in {3, 4}
  BY KernelPlaces
<1>2. /\ \A x \in 1..(i - 1) : s[x] \in Digits
      /\ \A x \in (i + 1)..(j - 1) : s[x] \in Digits
      /\ \A x \in (j + 1)..(k - 1) : s[x] \in Digits
      /\ \A x \in (k + 1)..(l - 1) : s[x] \in Digits
  <2>1. at[0] = 0 /\ \A n \in 0..3 : Between(s, at[n] + 1, at[n + 1])
    BY KernelPlaces
  <2>2. Between(s, 0 + 1, at[0 + 1]) /\ Between(s, at[1] + 1, at[1 + 1])
        /\ Between(s, at[2] + 1, at[2 + 1]) /\ Between(s, at[3] + 1, at[3 + 1])
    BY <2>1
  <2>3. 0 + 1 = 1 /\ 1 + 1 = 2 /\ 2 + 1 = 3 /\ 3 + 1 = 4
    OBVIOUS
  <2> QED
    BY <2>2, <2>3 DEF Between
<1> HIDE DEF i, j, k, l
<1>3. \A x \in 1..(l - 1) : s[x] \in Digits \/ x \in {i, j, k}
  BY <1>1, <1>2
<1>4. Dot \notin Digits /\ Dash \notin Digits /\ Dot # Dash /\ Dot \in Nat /\ Dash \in Nat
      /\ Bar \notin Digits
  BY DEF Dot, Dash, Digits, Bar
<1>5. OfKernel(s)
  <2>1. /\ i \in 1..Len(s) /\ j \in 1..Len(s) /\ k \in 1..Len(s)
        /\ 1 < i /\ i + 1 < j /\ j + 1 < k /\ k < Len(s)
    BY <1>1
  <2>2. \A x \in (1..(k + 1)) \ {i, j, k} : s[x] \in Digits
    <3> SUFFICES ASSUME NEW x \in (1..(k + 1)) \ {i, j, k} PROVE s[x] \in Digits
      OBVIOUS
    <3>1. x \in 1..(l - 1)
      BY <1>1
    <3> QED
      BY <1>3, <3>1
  <2> QED
    BY <1>1, <2>1, <2>2 DEF OfKernel
<1>6. CASE Len(seps) = 3
  <2>1. l = Len(s) + 1
    BY <1>1, <1>6
  <2>2. ASSUME NEW x \in 1..Len(s), NEW y \in 1..Len(s), x < y, s[x] = Dash
        PROVE  s[y] \in Digits
    <3>1. x = k
      <4>1. x \in 1..(l - 1)
        BY <1>1, <2>1
      <4> QED
        BY <1>1, <1>3, <1>4, <2>2, <4>1
    <3>2. y \in (k + 1)..(l - 1)
      BY <1>1, <2>1, <2>2, <3>1
    <3> QED
      BY <1>2, <3>2
  <2>3. Kept(s) = Append(s, Dot)
    BY <2>2 DEF Kept, Unbuilt
  <2>4. Append(s, Dot) \in Seq(Nat) /\ Len(Append(s, Dot)) = Len(s) + 1
        /\ Append(s, Dot)[Len(s) + 1] = Dot
        /\ \A x \in 1..Len(s) : Append(s, Dot)[x] = s[x]
    BY <1>4
  <2>5. Dot \in Separators /\ l - 1 = Len(s)
    BY <1>1, <2>1 DEF Separators
  <2> QED
    BY <1>5, <2>1, <2>3, <2>4, <2>5 DEF l
<1>7. CASE Len(seps) = 4
  <2>1. l <= Len(s) /\ s[l] \in Separators /\ \A x \in (l + 1)..Len(s) : s[x] \in Digits
    <3>1. (Len(s) + 1) - 1 = Len(s)
      BY <1>1
    <3> QED
      BY <1>1, <1>7, <3>1 DEF Between
  <2>2. ~Unbuilt(s)
    <3>1. k \in 1..Len(s) /\ l \in 1..Len(s) /\ k < l /\ s[l] \notin Digits
      BY <1>1, <1>4, <2>1 DEF Separators
    <3> QED
      BY <1>1, <3>1 DEF Unbuilt
  <2>3. Max(Marks(s)) = l
    <3>1. l \in Marks(s)
      BY <1>1, <2>1 DEF Marks, Separators
    <3>2. \A x \in Marks(s) : x \in 1..Len(s) /\ s[x] \notin Digits
      BY <1>4 DEF Marks
    <3>3. ASSUME NEW x \in Marks(s) PROVE x <= l
      <4>1. x \in 1..Len(s) /\ s[x] \notin Digits
        BY <3>2
      <4>2. x \notin (l + 1)..Len(s)
        BY <2>1, <4>1, Zenon
      <4>3. Len(s) \in Nat /\ l \in Int
        BY <1>1
      <4> HIDE DEF l
      <4> QED
        BY <4>1, <4>2, <4>3
    <3>4. Max(Marks(s)) \in Marks(s) /\ l <= Max(Marks(s))
      BY <3>1, LastMark
    <3>5. Max(Marks(s)) \in Nat /\ Max(Marks(s)) <= l
      BY <3>2, <3>3, <3>4
    <3> QED
      BY <1>1, <3>4, <3>5
  <2>4. Kept(s) = SubSeq(s, 1, l)
    BY <2>2, <2>3 DEF Kept
  <2>5. SubSeq(s, 1, l) \in Seq(Nat) /\ Len(SubSeq(s, 1, l)) = l
        /\ \A x \in 1..l : SubSeq(s, 1, l)[x] = s[x]
    <3>1. l \in Nat /\ \A x \in 1..l : s[x] \in Nat
      <4>1. l \in Nat /\ l <= Len(s) /\ Len(s) \in Nat
        BY <1>1, <2>1
      <4> HIDE DEF l
      <4>2. \A x \in 1..l : x \in 1..Len(s)
        BY <4>1
      <4>3. \A x \in 1..Len(s) : s[x] \in Nat
        OBVIOUS
      <4> QED
        BY <4>1, <4>2, <4>3, Zenon
    <3>2. 1 \in Int /\ l \in Int
      BY <3>1
    <3>3. /\ SubSeq(s, 1, l) \in Seq(Nat)
          /\ Len(SubSeq(s, 1, l)) = IF 1 <= l THEN l - 1 + 1 ELSE 0
          /\ \A x \in 1..(l - 1 + 1) : SubSeq(s, 1, l)[x] = s[1 + x - 1]
      <4>1. \A x \in 1..l : s[x] \in Nat
        BY <3>1
      <4> HIDE DEF l
      <4> QED
        BY <3>2, <4>1, SubSeqProperties
    <3>4. 1 <= l /\ l - 1 + 1 = l
      BY <1>1, <3>1
    <3>5. ASSUME NEW x \in 1..l PROVE SubSeq(s, 1, l)[x] = s[x]
      <4>1. x \in 1..(l - 1 + 1) /\ 1 + x - 1 = x
        BY <3>1
      <4> HIDE DEF l
      <4> QED
        BY <3>3, <4>1, Zenon
    <3>6. Len(SubSeq(s, 1, l)) = l
      BY <3>3, <3>4
    <3> QED
      BY <3>3, <3>5, <3>6
  <2>6. l \in 1..l /\ \A x \in 1..(l - 1) : x \in 1..l
    BY <1>1, <2>1
  <2> QED
    BY <1>5, <2>1, <2>4, <2>5, <2>6 DEF l
<1> QED
  BY <1>1, <1>6, <1>7

LEMMA DotsAre ==
    /\ Dots \in Seq(Separators) /\ Len(Dots) = 4
    /\ \A n \in 1..4 : Dots[n] = Dot
BY DEF Dots, Separators

LEMMA SepsAreSeparators ==
    ASSUME NEW seps \in KernelSeps PROVE seps \in Seq(Separators)
<1>1. PICK build \in {<<>>, <<Dot>>, <<Dash>>} : seps = <<Dot, Dot, Dash>> \o build
  BY DEF KernelSeps
<1>2. <<Dot, Dot, Dash>> \in Seq(Separators)
  BY DEF Separators
<1>3. build \in Seq(Separators)
  <2>1. Dot \in Separators /\ Dash \in Separators
    BY DEF Separators
  <2>2. <<>> \in Seq(Separators) /\ <<Dot>> \in Seq(Separators) /\ <<Dash>> \in Seq(Separators)
    BY <2>1
  <2> QED
    BY <2>2, Zenon
<1> QED
  BY <1>1, <1>2, <1>3

(* The places of the separators of what is kept, with the nines added. *)
LEMMA NamedMarked ==
    ASSUME NEW s \in Seq(Nat), NEW seps \in KernelSeps, NEW at, Marked(s, seps, at)
    PROVE  LET K == Named(Kept(s))
               b == [n \in 0..5 |-> IF n = 5 THEN at[4] + 7 ELSE at[n]]
           IN  /\ K \in Seq(Nat)
               /\ Marked(K, Dots, b)
               /\ \A n \in 0..3 : Number(K, b[n] + 1, b[n + 1])
                                    = Number(s, at[n] + 1, at[n + 1])
               /\ Number(K, b[4] + 1, b[5]) = Highest
<1> DEFINE t == Kept(s)
           K == Named(t)
           b == [n \in 0..5 |-> IF n = 5 THEN at[4] + 7 ELSE at[n]]
<1>1. /\ Len(s) \in Nat /\ at[0] = 0
      /\ at[1] \in 2..Len(s) /\ at[2] \in (at[1] + 2)..Len(s)
      /\ at[3] \in (at[2] + 2)..Len(s) /\ at[4] \in (at[3] + 2)..(Len(s) + 1)
      /\ s[at[1]] = Dot /\ s[at[2]] = Dot /\ s[at[3]] = Dash
      /\ \A n \in 0..3 : Between(s, at[n] + 1, at[n + 1])
  BY KernelPlaces
<1>2. /\ t \in Seq(Nat) /\ Len(t) = at[4] /\ t[at[4]] \in Separators
      /\ \A x \in 1..(at[4] - 1) : t[x] = s[x]
  BY KernelKept
<1> HIDE DEF t
<1>3. /\ K \in Seq(Nat) /\ Len(K) = at[4] + 6
      /\ \A x \in 1..(at[4] + 6) :
            K[x] = IF x > at[4] THEN Nine ELSE IF t[x] = Dash THEN Dot ELSE t[x]
  BY <1>2, NamedIsSeq
<1> HIDE DEF K
<1>4. /\ b[0] = 0 /\ b[1] = at[1] /\ b[2] = at[2] /\ b[3] = at[3] /\ b[4] = at[4]
      /\ b[5] = at[4] + 7
      /\ \A n \in 0..3 : b[n] = at[n] /\ b[n + 1] = at[n + 1]
  BY <1>1, SMTT(20)
<1> DEFINE i == at[1]
           j == at[2]
           k == at[3]
           l == at[4]
<1>11. /\ i \in Nat /\ j \in Nat /\ k \in Nat /\ l \in Nat
       /\ 2 <= i /\ i + 2 <= j /\ j + 2 <= k /\ k + 2 <= l
  <2>1. /\ Len(s) \in Nat /\ i \in 2..Len(s) /\ j \in (i + 2)..Len(s)
        /\ k \in (j + 2)..Len(s) /\ l \in (k + 2)..(Len(s) + 1)
    BY <1>1
  <2> HIDE DEF i, j, k, l
  <2> QED
    BY <2>1
<1>12. Len(K) + 1 = l + 7 /\ Len(K) = l + 6
  <2>1. Len(K) = l + 6
    BY <1>3
  <2> HIDE DEF l
  <2> QED
    BY <1>11, <2>1
<1>13. \A n \in 0..4 : n = 0 \/ n = 1 \/ n = 2 \/ n = 3 \/ n = 4
  OBVIOUS
<1>14. /\ 0 <= i /\ i <= l /\ 0 <= j /\ j <= l /\ 0 <= k /\ k <= l /\ 0 <= l
       /\ i < l /\ j < l /\ k < l /\ 1 <= i /\ 1 <= j /\ 1 <= k /\ 1 <= l
  <2> HIDE DEF i, j, k, l
  <2> QED
    BY <1>11
<1>5. b \in [0..5 -> 0..(Len(K) + 1)]
  <2>1. \A n \in 0..4 : at[n] \in 0..at[4]
    <3>1. i \in 0..l /\ j \in 0..l /\ k \in 0..l /\ l \in 0..l /\ 0 \in 0..l
      <4> HIDE DEF i, j, k, l
      <4> QED
        BY <1>11, <1>14
    <3> QED
      BY <1>1, <1>13, <3>1
  <2>2. at[4] \in Nat /\ Len(K) + 1 = at[4] + 7
    BY <1>11, <1>12
  <2>3. \A n \in 0..5 : n # 5 => n \in 0..4
    OBVIOUS
  <2>4. ASSUME NEW n \in 0..5
        PROVE  (IF n = 5 THEN at[4] + 7 ELSE at[n]) \in 0..(at[4] + 7)
    <3>1. at[4] + 7 \in 0..(at[4] + 7) /\ 0..at[4] \subseteq 0..(at[4] + 7)
      BY <2>2
    <3>2. n # 5 => at[n] \in 0..at[4]
      BY <2>1, <2>3
    <3> QED
      BY <3>1, <3>2, Zenon
  <2> QED
    BY <2>2, <2>4
<1> HIDE DEF b
<1>6. Dash \notin Digits /\ Dot # Dash
  BY DEF Dash, Digits, Dot
<1>7. ASSUME NEW n \in 0..3
      PROVE  /\ Between(K, b[n] + 1, b[n + 1])
             /\ Number(K, b[n] + 1, b[n + 1]) = Number(s, at[n] + 1, at[n + 1])
  <2>1. Between(s, at[n] + 1, at[n + 1]) /\ b[n] = at[n] /\ b[n + 1] = at[n + 1]
    BY <1>1, <1>4
  <2>2. /\ at[n + 1] \in Nat /\ at[n] + 1 \in Nat /\ at[n] + 1 >= 1
        /\ at[n + 1] <= at[4] /\ at[4] \in Nat
    <3>1. n = 0 \/ n = 1 \/ n = 2 \/ n = 3
      OBVIOUS
    <3>2. 0 + 1 = 1 /\ 1 + 1 = 2 /\ 2 + 1 = 3 /\ 3 + 1 = 4
      OBVIOUS
    <3>3. /\ at[n + 1] = i \/ at[n + 1] = j \/ at[n + 1] = k \/ at[n + 1] = l
          /\ at[n] = 0 \/ at[n] = i \/ at[n] = j \/ at[n] = k
      BY <1>1, <3>1, <3>2
    <3>4. at[n + 1] \in Nat /\ at[n] \in Nat /\ at[n + 1] <= l /\ l \in Nat
      <4> HIDE DEF i, j, k, l
      <4> QED
        BY <1>11, <1>14, <3>3
    <3>5. at[n] + 1 \in Nat /\ at[n] + 1 >= 1
      BY <3>4
    <3> QED
      BY <3>4, <3>5
  <2>3. \A x \in (at[n] + 1)..(at[n + 1] - 1) : K[x] = s[x]
    <3> SUFFICES ASSUME NEW x \in (at[n] + 1)..(at[n + 1] - 1) PROVE K[x] = s[x]
      OBVIOUS
    <3>1. x \in 1..(at[4] - 1) /\ x \in 1..(at[4] + 6) /\ ~(x > at[4])
      BY <2>2
    <3>2. t[x] = s[x] /\ s[x] \in Digits
      BY <1>2, <2>1, <3>1 DEF Between
    <3> QED
      BY <1>3, <1>6, <3>1, <3>2
  <2>4. at[n + 1] <= Len(K) + 1
    BY <1>3, <2>2
  <2> QED
    BY <1>3, <2>1, <2>3, <2>4, SameNumber
<1>8. Between(K, b[4] + 1, b[5]) /\ Number(K, b[4] + 1, b[5]) = Highest
  <2>1. /\ b[4] + 1 \in 1..(Len(K) + 1) /\ (b[4] + 1) + 6 <= Len(K) + 1
        /\ (b[4] + 1) + 6 = b[5]
    <3>1. b[4] = l /\ b[5] = l + 7
      BY <1>4
    <3> HIDE DEF l
    <3> QED
      BY <1>11, <1>12, <3>1
  <2>2. \A x \in (b[4] + 1)..((b[4] + 1) + 5) : K[x] = Nine
    <3> SUFFICES ASSUME NEW x \in (b[4] + 1)..((b[4] + 1) + 5) PROVE K[x] = Nine
      OBVIOUS
    <3>1. b[4] = l
      BY <1>4
    <3>2. x \in 1..(l + 6) /\ x > l
      <4> HIDE DEF l
      <4> QED
        BY <1>11, <3>1
    <3> QED
      BY <1>3, <3>2
  <2>3. Between(K, b[4] + 1, (b[4] + 1) + 6) /\ Number(K, b[4] + 1, (b[4] + 1) + 6) = Highest
    BY <1>3, <2>1, <2>2, SixNines
  <2> QED
    BY <2>1, <2>3
<1>9. \A n \in 1..4 : b[n] <= Len(K) /\ K[b[n]] = Dot
  <2>1. /\ at[1] \in 1..(at[4] - 1) /\ at[2] \in 1..(at[4] - 1) /\ at[3] \in 1..(at[4] - 1)
        /\ at[4] \in 1..at[4] /\ at[4] \in Nat
    <3>1. i \in 1..(l - 1) /\ j \in 1..(l - 1) /\ k \in 1..(l - 1) /\ l \in 1..l /\ l \in Nat
      <4> HIDE DEF i, j, k, l
      <4> QED
        BY <1>11, <1>14
    <3> QED
      BY <3>1
  <2>2. /\ t[at[1]] = Dot /\ t[at[2]] = Dot /\ t[at[3]] = Dash
        /\ t[at[4]] \in {Dot, Dash}
    BY <1>1, <1>2, <2>1 DEF Separators
  <2>3. \A x \in 1..at[4] : x \in 1..(at[4] + 6) /\ ~(x > at[4]) /\ x <= Len(K)
    <3>1. \A x \in 1..l : x \in 1..(l + 6) /\ ~(x > l) /\ x <= Len(K)
      <4> HIDE DEF l
      <4> QED
        BY <1>11, <1>12
    <3> QED
      BY <3>1
  <2>4. \A x \in 1..at[4] : K[x] = IF t[x] = Dash THEN Dot ELSE t[x]
    BY <1>3, <2>3
  <2>5. at[1] \in 1..at[4] /\ at[2] \in 1..at[4] /\ at[3] \in 1..at[4]
    BY <2>1
  <2>6. K[at[1]] = Dot /\ K[at[2]] = Dot /\ K[at[3]] = Dot /\ K[at[4]] = Dot
    BY <1>6, <2>1, <2>2, <2>4, <2>5
  <2>7. \A n \in 1..4 : n = 1 \/ n = 2 \/ n = 3 \/ n = 4
    OBVIOUS
  <2>8. \A n \in 1..4 : b[n] \in 1..at[4] /\ K[b[n]] = Dot
    BY <1>4, <2>1, <2>5, <2>6, <2>7, Zenon
  <2> QED
    BY <2>3, <2>8, Zenon
<1>10. Marked(K, Dots, b)
  <2>1. \A n \in 0..4 : Between(K, b[n] + 1, b[n + 1])
    <3>1. \A n \in 0..4 : n \in 0..3 \/ n = 4
      OBVIOUS
    <3>2. 4 + 1 = 5
      OBVIOUS
    <3> QED
      BY <1>7, <1>8, <3>1, <3>2
  <2>2. b[5] = Len(K) + 1
    BY <1>1, <1>3, <1>4
  <2>3. Len(Dots) + 1 = 5 /\ Len(Dots) = 4
    BY DotsAre
  <2> QED
    BY <1>4, <1>5, <1>9, <2>1, <2>2, <2>3, DotsAre DEF Marked
<1> QED
  BY <1>3, <1>7, <1>8, <1>10 DEF K, b, t

(* Such a version has no debian revision. *)
LEMMA DottedHasNoRevision ==
    ASSUME NEW s \in Seq(Nat), Fielded(s, Dots) PROVE RevisionAt(s) = 0
<1>1. PICK at : Marked(s, Dots, at)
  BY DotsAre, MarksFound
<1> DEFINE i == at[1]
           j == at[2]
           k == at[3]
           l == at[4]
<1>2. /\ at[0] = 0 /\ at[5] = Len(s) + 1
      /\ \A n \in 0..4 : Between(s, at[n] + 1, at[n + 1])
      /\ \A n \in 1..4 : s[at[n]] = Dot
  <2>1. Len(Dots) = 4 /\ Len(Dots) + 1 = 5
    BY DotsAre
  <2> QED
    BY <1>1, <2>1, DotsAre DEF Marked
<1>3. /\ Between(s, 1, i) /\ Between(s, i + 1, j) /\ Between(s, j + 1, k)
      /\ Between(s, k + 1, l) /\ Between(s, l + 1, Len(s) + 1)
  <2>1. 0 + 1 = 1 /\ 1 + 1 = 2 /\ 2 + 1 = 3 /\ 3 + 1 = 4 /\ 4 + 1 = 5
    OBVIOUS
  <2>2. 0 \in 0..4 /\ 1 \in 0..4 /\ 2 \in 0..4 /\ 3 \in 0..4 /\ 4 \in 0..4
    OBVIOUS
  <2>3. /\ Between(s, at[0] + 1, at[0 + 1]) /\ Between(s, at[1] + 1, at[1 + 1])
        /\ Between(s, at[2] + 1, at[2 + 1]) /\ Between(s, at[3] + 1, at[3 + 1])
        /\ Between(s, at[4] + 1, at[4 + 1])
    BY <1>2, <2>2, Zenon
  <2> QED
    BY <1>2, <2>1, <2>3
<1>4. s[i] = Dot /\ s[j] = Dot /\ s[k] = Dot /\ s[l] = Dot
  BY <1>2
<1> HIDE DEF i, j, k, l
<1>5. /\ \A x \in 1..(i - 1) : s[x] \in Digits
      /\ \A x \in (i + 1)..(j - 1) : s[x] \in Digits
      /\ \A x \in (j + 1)..(k - 1) : s[x] \in Digits
      /\ \A x \in (k + 1)..(l - 1) : s[x] \in Digits
      /\ \A x \in (l + 1)..((Len(s) + 1) - 1) : s[x] \in Digits
  BY <1>3 DEF Between
<1>6. i \in Int /\ j \in Int /\ k \in Int /\ l \in Int /\ Len(s) \in Nat
  BY <1>3 DEF Between
<1>7. \A x \in 1..Len(s) : s[x] \in Digits \/ s[x] = Dot
  BY <1>4, <1>5, <1>6
<1>8. {x \in 1..Len(s) : s[x] = Dash} = {}
  <2>1. Dash \notin Digits /\ Dash # Dot
    BY DEF Dash, Dot, Digits
  <2> QED
    BY <1>7, <2>1, Zenon
<1> QED
  BY <1>8 DEF RevisionAt

LEMMA FieldIsInt ==
    ASSUME NEW s \in Seq(Nat), NEW seps \in Seq(Separators), Fielded(s, seps)
    PROVE  /\ Parts(s) \in Seq(Int)
           /\ \A n \in 1..(Len(seps) + 1) : Field(s, n) \in Int
<1>1. Parts(s) \in Seq(Int)
  <2>1. 1 \in 1..(Len(s) + 1)
    OBVIOUS
  <2> QED
    BY <2>1, PartsIsPartsFrom, PartsSteps
<1>2. Len(Parts(s)) = 3 * Len(seps) + 2 /\ Len(seps) \in Nat
  BY DEF Fielded
<1>3. \A n \in 1..(Len(seps) + 1) : 3 * n - 1 \in 1..(3 * Len(seps) + 2)
  BY <1>2
<1> QED
  BY <1>1, <1>2, <1>3 DEF Field

LEMMA KernelFields ==
    ASSUME NEW v \in Version, IsKernel(v)
    PROVE  LET w == KernelVersion(v)
           IN  /\ w.epoch = None /\ w.body \in Seq(Nat)
               /\ Fielded(w.body, Dots)
               /\ \A n \in 1..4 : /\ Field(w.body, n) = Field(Untilded(v.body), n)
                                  /\ Field(w.body, n) \in Int
               /\ Field(w.body, 5) = Highest
<1> DEFINE s == Untilded(v.body)
           K == Named(Kept(s))
<1>1. s \in Seq(Nat)
  BY UntildedIsSeq DEF Version
<1>2. PICK seps \in KernelSeps : Fielded(s, seps)
  BY DEF IsKernel, KernelSeps
<1>3. v.epoch = None
  BY DEF IsKernel
<1> HIDE DEF s
<1>4. seps \in Seq(Separators)
  BY SepsAreSeparators
<1>5. PICK at : Marked(s, seps, at)
  BY <1>1, <1>2, <1>4, MarksFound
<1> DEFINE b == [n \in 0..5 |-> IF n = 5 THEN at[4] + 7 ELSE at[n]]
<1>6. /\ K \in Seq(Nat)
      /\ Marked(K, Dots, b)
      /\ \A n \in 0..3 : Number(K, b[n] + 1, b[n + 1]) = Number(s, at[n] + 1, at[n + 1])
      /\ Number(K, b[4] + 1, b[5]) = Highest
  BY <1>1, <1>5, NamedMarked
<1>7. OfKernel(s) /\ Len(seps) \in {3, 4}
  BY <1>1, <1>5, KernelKept, KernelPlaces
<1> HIDE DEF b, K
<1>8. KernelVersion(v) = [epoch |-> None, body |-> K]
  BY <1>3, <1>7, KernelVersionIs DEF s, K
<1>9. /\ Fielded(K, Dots)
      /\ \A n \in 0..4 : Parts(K)[3 * n + 2] = Number(K, b[n] + 1, b[n + 1])
  <2>1. Len(Dots) = 4 /\ Dots \in Seq(Separators)
    BY DotsAre
  <2> QED
    BY <1>6, <2>1, MarkedParts
<1>10. \A n \in 0..3 : Parts(s)[3 * n + 2] = Number(s, at[n] + 1, at[n + 1])
  <2>1. \A n \in 0..3 : n \in 0..Len(seps)
    BY <1>7
  <2> QED
    BY <1>1, <1>4, <1>5, <2>1, MarkedParts
<1>11. \A n \in 1..4 : Field(K, n) = Field(s, n)
  <2> SUFFICES ASSUME NEW n \in 1..4 PROVE Field(K, n) = Field(s, n)
    OBVIOUS
  <2>1. n - 1 \in 0..3 /\ n - 1 \in 0..4 /\ 3 * (n - 1) + 2 = 3 * n - 1
    OBVIOUS
  <2> DEFINE m == n - 1
  <2>2. m \in 0..3 /\ m \in 0..4 /\ 3 * m + 2 = 3 * n - 1
    BY <2>1
  <2> HIDE DEF m
  <2>3. Parts(K)[3 * m + 2] = Parts(s)[3 * m + 2]
    BY <1>6, <1>9, <1>10, <2>2, Zenon
  <2> QED
    BY <2>2, <2>3 DEF Field
<1>12. Field(K, 5) = Highest
  <2>1. 4 \in 0..4 /\ 4 + 1 = 5 /\ 3 * 4 + 2 = 14 /\ 3 * 5 - 1 = 14
    OBVIOUS
  <2>2. Parts(K)[3 * 4 + 2] = Number(K, b[4] + 1, b[4 + 1])
    BY <1>9, <2>1, Zenon
  <2> QED
    BY <1>6, <2>1, <2>2 DEF Field
<1>13. \A n \in 1..4 : Field(K, n) \in Int
  <2>1. Len(Dots) + 1 = 5
    BY DotsAre
  <2>2. \A n \in 1..(Len(Dots) + 1) : Field(K, n) \in Int
    BY <1>6, <1>9, DotsAre, FieldIsInt
  <2>3. \A n \in 1..4 : n \in 1..5
    OBVIOUS
  <2> QED
    BY <2>1, <2>2, <2>3, Zenon
<1> QED
  BY <1>6, <1>8, <1>9, <1>11, <1>12, <1>13 DEF s

(* Of two such versions of which the first has the highest build number,   *)
(* the first four numbers decide. *)
LEMMA FirstFourDecide ==
    ASSUME NEW s \in Seq(Nat), NEW t \in Seq(Nat), Fielded(s, Dots), Fielded(t, Dots),
           Field(t, 5) <= Field(s, 5)
    PROVE  Before(s, t) <=>
              \E n \in 1..4 : /\ Field(s, n) < Field(t, n)
                              /\ \A m \in 1..(n - 1) : Field(s, m) = Field(t, m)
<1> DEFINE P == Parts(s)
           Q == Parts(t)
<1>1. /\ P \in Seq(Int) /\ Len(P) = 14 /\ Q \in Seq(Int) /\ Len(Q) = 14
  <2>1. Len(Dots) = 4 /\ Dots \in Seq(Separators)
    BY DotsAre
  <2>2. Len(P) = 3 * 4 + 2 /\ Len(Q) = 3 * 4 + 2
    BY <2>1 DEF Fielded
  <2> QED
    BY <2>1, <2>2, FieldIsInt
<1>2. \A n \in 1..5 : Field(s, n) = P[3 * n - 1] /\ Field(t, n) = Q[3 * n - 1]
  BY DEF Field
<1>3. \A x \in 1..14 : P[x] = Q[x] \/ \E n \in 1..5 : x = 3 * n - 1
  <2>1. Len(Dots) = 4
    BY DotsAre
  <2>2. /\ \A n \in 0..4 : P[3 * n + 1] = 0 /\ Q[3 * n + 1] = 0
        /\ \A n \in 1..4 : P[3 * n] = Q[3 * n]
    BY <2>1 DEF Fielded
  <2>3. ASSUME NEW x \in 1..14
        PROVE  \/ \E n \in 0..4 : x = 3 * n + 1
               \/ \E n \in 1..4 : x = 3 * n
               \/ \E n \in 1..5 : x = 3 * n - 1
    <3>1. x \in {1, 4, 7, 10, 13} \/ x \in {3, 6, 9, 12} \/ x \in {2, 5, 8, 11, 14}
      OBVIOUS
    <3>2. CASE x \in {1, 4, 7, 10, 13}
      <4>1. /\ 1 = 3 * 0 + 1 /\ 4 = 3 * 1 + 1 /\ 7 = 3 * 2 + 1 /\ 10 = 3 * 3 + 1
            /\ 13 = 3 * 4 + 1
        OBVIOUS
      <4>2. 0 \in 0..4 /\ 1 \in 0..4 /\ 2 \in 0..4 /\ 3 \in 0..4 /\ 4 \in 0..4
        OBVIOUS
      <4> QED
        BY <3>2, <4>1, <4>2, Zenon
    <3>3. CASE x \in {3, 6, 9, 12}
      <4>1. 3 = 3 * 1 /\ 6 = 3 * 2 /\ 9 = 3 * 3 /\ 12 = 3 * 4
        OBVIOUS
      <4>2. 1 \in 1..4 /\ 2 \in 1..4 /\ 3 \in 1..4 /\ 4 \in 1..4
        OBVIOUS
      <4> QED
        BY <3>3, <4>1, <4>2, Zenon
    <3>4. CASE x \in {2, 5, 8, 11, 14}
      <4>1. /\ 2 = 3 * 1 - 1 /\ 5 = 3 * 2 - 1 /\ 8 = 3 * 3 - 1 /\ 11 = 3 * 4 - 1
            /\ 14 = 3 * 5 - 1
        OBVIOUS
      <4>2. 1 \in 1..5 /\ 2 \in 1..5 /\ 3 \in 1..5 /\ 4 \in 1..5 /\ 5 \in 1..5
        OBVIOUS
      <4> QED
        BY <3>4, <4>1, <4>2, Zenon
    <3> QED
      BY <3>1, <3>2, <3>3, <3>4
  <2> HIDE DEF P, Q
  <2> QED
    BY <2>2, <2>3
<1> HIDE DEF P, Q
<1>4. /\ \A x \in 1..14 : /\ P[x] \in Int /\ Part(P, x) = P[x]
                          /\ Q[x] \in Int /\ Part(Q, x) = Q[x]
      /\ \A x \in Nat : x > 14 => Part(P, x) = 0 /\ Part(Q, x) = 0
  <2>1. \A x \in 1..14 : P[x] \in Int /\ Q[x] \in Int
    <3>1. \A x \in 1..Len(P) : P[x] \in Int
      <4>1. P \in Seq(Int)
        BY <1>1, Zenon
      <4> QED
        BY <4>1
    <3>2. \A x \in 1..Len(Q) : Q[x] \in Int
      <4>1. Q \in Seq(Int)
        BY <1>1, Zenon
      <4> QED
        BY <4>1
    <3> QED
      BY <1>1, <3>1, <3>2, Zenon
  <2>2. \A x \in 1..14 : x <= 14
    OBVIOUS
  <2>3. \A x \in Nat : x > 14 => ~(x <= 14)
    OBVIOUS
  <2> QED
    BY <1>1, <2>1, <2>2, <2>3, Zenon DEF Part
<1>5. \A n \in 1..5 : 3 * n - 1 \in 1..14
  OBVIOUS
<1>6. ASSUME Smaller(P, Q)
      PROVE  \E n \in 1..4 : /\ Field(s, n) < Field(t, n)
                             /\ \A m \in 1..(n - 1) : Field(s, m) = Field(t, m)
  <2>1. PICK x \in 1..28 : /\ Part(P, x) < Part(Q, x)
                           /\ \A y \in 1..(x - 1) : Part(P, y) = Part(Q, y)
    <3>1. Len(P) + Len(Q) = 28
      BY <1>1
    <3> QED
      BY <1>6, <3>1, Zenon DEF Smaller
  <2>2. x \in 1..14
    <3> SUFFICES ASSUME x \notin 1..14 PROVE FALSE
      OBVIOUS
    <3>1. x \in Nat /\ x > 14
      OBVIOUS
    <3>2. Part(P, x) = 0 /\ Part(Q, x) = 0
      BY <1>4, <3>1, Zenon
    <3> QED
      BY <2>1, <3>2
  <2>3. P[x] < Q[x] /\ P[x] # Q[x]
    <3>1. /\ P[x] \in Int /\ Part(P, x) = P[x]
          /\ Q[x] \in Int /\ Part(Q, x) = Q[x]
      BY <1>4, <2>2, Zenon
    <3> QED
      BY <2>1, <3>1
  <2>4. PICK n \in 1..5 : x = 3 * n - 1
    BY <1>3, <2>2, <2>3
  <2>5. Field(s, n) < Field(t, n)
    BY <1>2, <2>3, <2>4
  <2>6. n \in 1..4
    <3>1. Field(s, n) \in Int /\ Field(t, n) \in Int
      BY <1>2, <1>4, <1>5
    <3>2. n # 5
      BY <2>5, <3>1
    <3> QED
      BY <3>2
  <2>7. ASSUME NEW m \in 1..(n - 1) PROVE Field(s, m) = Field(t, m)
    <3>1. m \in 1..5 /\ 3 * m - 1 \in 1..(x - 1) /\ 3 * m - 1 \in 1..14
      BY <2>4, <2>6
    <3>2. P[3 * m - 1] = Q[3 * m - 1]
      BY <1>4, <2>1, <3>1
    <3> QED
      BY <1>2, <3>1, <3>2
  <2> QED
    BY <2>5, <2>6, <2>7
<1>7. ASSUME NEW n \in 1..4, Field(s, n) < Field(t, n),
             \A m \in 1..(n - 1) : Field(s, m) = Field(t, m)
      PROVE  Smaller(P, Q)
  <2> DEFINE x == 3 * n - 1
  <2>1. x \in 1..28 /\ x \in 1..14 /\ n \in 1..5
    OBVIOUS
  <2>2. Part(P, x) < Part(Q, x)
    BY <1>2, <1>4, <1>7, <2>1
  <2>3. ASSUME NEW y \in 1..(x - 1) PROVE Part(P, y) = Part(Q, y)
    <3>1. y \in 1..14 /\ y < x
      BY <2>1
    <3>2. P[y] = Q[y]
      <4> SUFFICES ASSUME NEW m \in 1..5, y = 3 * m - 1 PROVE P[y] = Q[y]
        BY <1>3, <3>1
      <4>1. m \in 1..(n - 1)
        BY <3>1
      <4> QED
        BY <1>2, <1>7, <4>1
    <3> QED
      BY <1>4, <3>1, <3>2
  <2> HIDE DEF x
  <2>4. x \in 1..(Len(P) + Len(Q))
    BY <1>1, <2>1
  <2> QED
    BY <2>2, <2>3, <2>4 DEF Smaller
<1> QED
  BY <1>6, <1>7 DEF Before, P, Q

LEMMA KernelEarlier ==
    ASSUME NEW v \in Version, IsKernel(v), NEW w \in Version, IsMeta(w)
    PROVE  Earlier(KernelVersion(v), w) <=> LaterAbi(v, w)
<1> DEFINE u == KernelVersion(v)
<1>1. /\ u.epoch = None /\ u.body \in Seq(Nat) /\ Fielded(u.body, Dots)
      /\ \A n \in 1..4 : Field(u.body, n) = Field(Untilded(v.body), n)
      /\ Field(u.body, 5) = Highest
  BY KernelFields
<1>2. w.body \in Seq(Nat) /\ Fielded(w.body, Dots) /\ Field(w.body, 5) <= Highest
      /\ Epoch(w) = 0
  BY DEF IsMeta, Dots, Version
<1> HIDE DEF u
<1>3. Epoch(u) = 0
  BY <1>1 DEF Epoch
<1>4. /\ Upstream(u) = u.body /\ Revision(u) = <<Zero>>
      /\ Upstream(w) = w.body /\ Revision(w) = <<Zero>>
  BY <1>1, <1>2, DottedHasNoRevision DEF Upstream, Revision
<1>5. ~Before(<<Zero>>, <<Zero>>)
  <2>1. <<Zero>> \in Seq(Nat) /\ 1 \in 1..(Len(<<Zero>>) + 1)
    BY DEF Zero
  <2>2. Parts(<<Zero>>) \in Seq(Int)
    BY <2>1, PartsIsPartsFrom, PartsSteps
  <2>3. Key(Parts(<<Zero>>)) \in [Positive -> Int]
    BY <2>2, KeyType
  <2>4. ~Less(Key(Parts(<<Zero>>)), Key(Parts(<<Zero>>)))
    BY <2>3 DEF Less
  <2> QED
    BY <2>2, <2>4, SmallerIsLess DEF Before
<1>6. Earlier(u, w) <=> Before(u.body, w.body)
  <2>1. ~(Epoch(u) < Epoch(w)) /\ Epoch(u) = Epoch(w)
    BY <1>2, <1>3
  <2> QED
    BY <1>4, <1>5, <2>1 DEF Earlier
<1>7. Before(u.body, w.body) <=>
         \E n \in 1..4 : /\ Field(u.body, n) < Field(w.body, n)
                         /\ \A m \in 1..(n - 1) : Field(u.body, m) = Field(w.body, m)
  BY <1>1, <1>2, FirstFourDecide
<1>8. \A n \in 1..4 : 1..(n - 1) \subseteq 1..4
  OBVIOUS
<1> QED
  BY <1>1, <1>6, <1>7, <1>8 DEF LaterAbi, u
-----------------------------------------------------------------------------
(* A kernel snap is reported if, and only if, a notice has a later ABI,    *)
(* whatever the build numbers and however many digits there are. *)
THEOREM AbiDecidesAlone == Spec => []AbiDecides
<1>1. IInv /\ NoticesAreExact => AbiDecides
  <2> SUFFICES ASSUME IInv, NoticesAreExact, pc = "done", scan.kind = "snap",
                      scan.stage # {}, IsKernel(scan.version),
                      NEW f \in scan.faked, NEW n \in Notices(scan, rel, f.pkg),
                      f.ver = AutoKernel, f.pkg \notin Ignored,
                      \A x \in (UNION scan.stage) \cup Given(scan.primed) \cup Listed(scan) :
                         x.pkg # f.pkg,
                      IsMeta(Needed(scan, f.pkg, n))
               PROVE  <<"staged", f.pkg, n.usn>> \in pending
                         <=> LaterAbi(scan.version, Needed(scan, f.pkg, n))
    BY DEF AbiDecides
  <2> DEFINE v == KernelVersion(scan.version)
             e == <<"staged", f.pkg, v>>
             w == Needed(scan, f.pkg, n)
  <2>1. scan \in Scans /\ n \in scan.usns /\ FixedIn(n, f.pkg) # None
    BY DEF IInv, Known, Notices
  <2>2. scan.version \in Version /\ \A g \in scan.faked : g.pkg = f.pkg => g = f
    BY <2>1, ManifestAssumption
  <2>3. e \in Packages(scan)
    <3>1. Plain(f.pkg, v) \in FakedStage(scan)
      BY DEF FakedStage
    <3>2. Plain(f.pkg, v) \in Section(scan, "staged")
      BY <3>1 DEF Section, Staged
    <3>3. Plain(f.pkg, v) \in Counted(Section(scan, "staged"))
      BY <3>2 DEF Counted, Plain
    <3>4. Plain(f.pkg, v).pkg = f.pkg /\ Plain(f.pkg, v).ver = v
      BY DEF Plain
    <3> HIDE DEF v
    <3>5. e \in {<<"staged", x.pkg, x.ver>> : x \in Counted(Section(scan, "staged"))}
      BY <3>3, <3>4
    <3>6. "staged" \in Groups
      BY DEF Groups
    <3> QED
      BY <3>5, <3>6 DEF Packages
  <2>4. ASSUME NEW g \in Packages(scan), g[1] = "staged", g[2] = f.pkg PROVE g[3] = v
    <3>1. PICK h \in Groups : g \in {<<h, x.pkg, x.ver>> : x \in Counted(Section(scan, h))}
      BY DEF Packages
    <3>2. PICK x \in Counted(Section(scan, h)) : g = <<h, x.pkg, x.ver>>
      BY <3>1
    <3>3. h = "staged" /\ x.pkg = f.pkg /\ g[3] = x.ver
      BY <2>4, <3>2
    <3>4. x \in Staged(scan) \cup Listed(scan)
      BY <3>3 DEF Counted, Section
    <3>5. x \in FakedStage(scan)
      BY <3>3, <3>4 DEF Staged, Given
    <3>6. PICK y \in scan.faked :
              x = Plain(y.pkg, IF y.ver = AutoKernel THEN KernelVersion(scan.version) ELSE y.ver)
      BY <3>5 DEF FakedStage
    <3>7. y.pkg = f.pkg
      BY <3>3, <3>6 DEF Plain
    <3>8. y = f
      BY <2>2, <3>7
    <3>9. x.ver = v
      BY <3>6, <3>8 DEF Plain
    <3> QED
      BY <3>3, <3>9
  <2>5. w \in Version
    <3>1. w \in Compared(scan)
      BY <2>1, <2>3 DEF Compared
    <3> QED
      BY <2>1, <3>1, ComparedAreVersions
  <2>6. Earlier(v, w) <=> LaterAbi(scan.version, w)
    BY <2>2, <2>5, KernelEarlier
  <2>7. <<"staged", f.pkg, n.usn>> \in pending <=>
           \E g \in Packages(scan) : g[1] = "staged" /\ g[2] = f.pkg /\ Earlier(g[3], w)
    <3>1. e[1] = "staged" /\ e[2] = f.pkg
      OBVIOUS
    <3> HIDE DEF e
    <3> QED
      BY <2>3, <3>1 DEF NoticesAreExact
  <2>8. e[1] = "staged" /\ e[2] = f.pkg /\ e[3] = v
    OBVIOUS
  <2> HIDE DEF e, v, w
  <2>9. <<"staged", f.pkg, n.usn>> \in pending <=> Earlier(v, w)
    BY <2>3, <2>4, <2>7, <2>8
  <2> QED
    BY <2>6, <2>9 DEF w
<1> QED
  BY <1>1, SpecIInv, FoundIsExact, PTL
=============================================================================
