--------------------------- MODULE DeclarationProofs ---------------------------
(***************************************************************************)
(* What holds of the declaration review for all declarations, devices and  *)
(* snaps.  The review is a loop whose report accumulates; the invariant    *)
(* says that the report so far is what Judgement makes of the items that   *)
(* are done with, by the declarations with their defaults.  The properties *)
(* are then facts about Judgement alone.                                   *)
(***************************************************************************)
EXTENDS DeclarationProps, WellFoundedInduction, TLAPS

(* The snap declaration as the items are judged by it.                     *)
Completed == [side \in Sides |->
                [i \in DOMAIN given[side] |-> WithDefaults(given[side][i])]]

Stages ==
    /\ pc \in {"verify", "defaults"} => decl = given
    /\ pc \in {"items", "done"} => decl = Completed
    /\ pc = "done" => todo = {}
    /\ decl \in {given, Completed}

Reported ==
    /\ \A x \in todo, ct \in Checked : <<x, ct>> \notin results
    /\ pc \in {"verify", "defaults"} => todo = Items(snap)
    /\ pc \in {"items", "done"} =>
          \A x \in Items(snap) \ todo, ct \in Checked :
             Known(x) => (<<x, ct>> \in results
                            <=> Judgement(base, decl, device, x, ct) = "flag")

Inv == TypeOK /\ Stages /\ Reported

(* The report only ever names plugs and slots of the snap.                 *)
THEOREM TypeCorrect == Spec => []TypeOK
<1>1. Init => TypeOK
  BY DEF Init, TypeOK, Locations
<1>2. TypeOK /\ [Next]_vars => TypeOK'
  <2> SUFFICES ASSUME TypeOK, [Next]_vars PROVE TypeOK'
    OBVIOUS
  <2>1. CASE Verify
    BY <2>1 DEF TypeOK, Verify, inputs, Locations, Accepted
  <2>2. CASE EnsureDefaults
    BY <2>2 DEF TypeOK, EnsureDefaults, inputs, Locations
  <2>3. CASE DefaultsRaise
    BY <2>3 DEF TypeOK, DefaultsRaise, inputs, Locations
  <2>4. CASE Finish
    BY <2>4 DEF TypeOK, Finish, inputs, Locations
  <2>5. ASSUME NEW x \in todo, RejectItem(x) PROVE TypeOK'
    BY <2>5 DEF TypeOK, RejectItem, inputs
  <2>6. ASSUME NEW x \in todo, VerifyItem(x) PROVE TypeOK'
    <3>1. Unvetted(x.iface) \subseteq Items(snap)
      BY DEF Unvetted, Items
    <3>2. results' \subseteq Items(snap) \X (Checked \cup {"unknown", "reference"})
      BY <2>6, <3>1 DEF TypeOK, VerifyItem
    <3> QED
      BY <2>6, <3>2 DEF TypeOK, VerifyItem, inputs
  <2>7. ASSUME NEW x \in todo, ItemRaises(x) PROVE TypeOK'
    BY <2>7 DEF TypeOK, ItemRaises, inputs, Locations
  <2>8. CASE UNCHANGED vars
    BY <2>8 DEF TypeOK, vars
  <2> QED
    BY <2>1, <2>2, <2>3, <2>4, <2>5, <2>6, <2>7, <2>8 DEF Next
<1> QED
  BY <1>1, <1>2, PTL DEF Spec

LEMMA StagesStep == TypeOK /\ Stages /\ [Next]_vars => Stages'
<1> SUFFICES ASSUME TypeOK, Stages, [Next]_vars PROVE Stages'
  OBVIOUS
<1>1. CASE Verify
  BY <1>1 DEF Stages, Verify, inputs, Completed
<1>2. CASE EnsureDefaults
  BY <1>2 DEF Stages, EnsureDefaults, inputs, Completed
<1>3. CASE DefaultsRaise
  BY <1>3 DEF Stages, DefaultsRaise, inputs, Completed
<1>4. CASE Finish
  BY <1>4 DEF Stages, Finish, inputs, Completed
<1>5. ASSUME NEW x \in todo, RejectItem(x) PROVE Stages'
  BY <1>5 DEF Stages, RejectItem, inputs, Completed
<1>6. ASSUME NEW x \in todo, VerifyItem(x) PROVE Stages'
  BY <1>6 DEF Stages, VerifyItem, inputs, Completed
<1>7. ASSUME NEW x \in todo, ItemRaises(x) PROVE Stages'
  BY <1>7 DEF Stages, ItemRaises, inputs, Completed
<1>8. CASE UNCHANGED vars
  BY <1>8 DEF Stages, vars, Completed
<1> QED
  BY <1>1, <1>2, <1>3, <1>4, <1>5, <1>6, <1>7, <1>8 DEF Next

(* What is judged is judged once: an item leaves todo with its findings,   *)
(* and nothing later adds to them or takes them back. *)
LEMMA ReportedStep == TypeOK /\ Reported /\ [Next]_vars => Reported'
<1> SUFFICES ASSUME TypeOK, Reported, [Next]_vars PROVE Reported'
  OBVIOUS
<1>1. CASE Verify
  BY <1>1 DEF Reported, Verify, inputs
<1>2. CASE EnsureDefaults
  BY <1>2 DEF Reported, EnsureDefaults, inputs
<1>3. CASE DefaultsRaise
  BY <1>3 DEF Reported, DefaultsRaise, inputs
<1>4. CASE Finish
  BY <1>4 DEF Reported, Finish, inputs, Known
<1>5. ASSUME NEW x \in todo, RejectItem(x) PROVE Reported'
  <2>1. \A y \in Items(snap), ct \in Checked :
          <<y, ct>> \in results' <=> <<y, ct>> \in results
    BY <1>5 DEF RejectItem, Checked
  <2> QED
    BY <1>5, <2>1 DEF Reported, TypeOK, RejectItem, inputs, Known
<1>6. ASSUME NEW x \in todo, VerifyItem(x) PROVE Reported'
  <2>1. \A y \in Items(snap), ct \in Checked :
          <<y, ct>> \in results' <=>
             \/ <<y, ct>> \in results
             \/ y = x /\ Judgement(base, decl, device, x, ct) = "flag"
    BY <1>6 DEF VerifyItem, Checked
  <2> QED
    BY <1>6, <2>1 DEF Reported, TypeOK, VerifyItem, inputs, Known
<1>7. ASSUME NEW x \in todo, ItemRaises(x) PROVE Reported'
  BY <1>7 DEF Reported, ItemRaises, inputs
<1>8. CASE UNCHANGED vars
  BY <1>8 DEF Reported, vars, Known
<1> QED
  BY <1>1, <1>2, <1>3, <1>4, <1>5, <1>6, <1>7, <1>8 DEF Next

LEMMA InvHolds == Spec => []Inv
<1>1. Init => Stages /\ Reported
  BY DEF Init, Stages, Reported
<1>2. Spec => [](Stages /\ Reported)
  BY <1>1, TypeCorrect, StagesStep, ReportedStep, PTL DEF Spec
<1> QED
  BY <1>2, TypeCorrect, PTL DEF Inv

(* At the end of the review the report is exactly what is flagged.         *)
LEMMA ReportIsJudgement ==
    ASSUME Inv, NEW x \in Judged, NEW ct \in Checked
    PROVE  <<x, ct>> \in results
             <=> Judgement(base, decl, device, x, ct) = "flag"
BY DEF Inv, Stages, Reported, Judged

(* The base declaration has no part in a judgement the snap declaration    *)
(* makes. *)
LEMMA SnapRules ==
    ASSUME NEW b, NEW c, NEW d, NEW dev, NEW x, NEW ct, SnapHasSay(d, dev, x, ct)
    PROVE  Judgement(b, d, dev, x, ct) = Judgement(c, d, dev, x, ct)
<1>1. /\ Whence(b, d, dev, x, ct) = "snap"
      /\ Whence(c, d, dev, x, ct) = "snap"
  BY DEF Whence
<1>2. Entry(b, d, x, "snap") = Entry(c, d, x, "snap")
  BY DEF Entry
<1> QED
  BY <1>1, <1>2 DEF Judgement

(* Where the snap declaration has a say no base declaration changes the    *)
(* report, whatever the rules: "there is no merging". *)
THEOREM NoMerging == Spec => []OnlySnapDeclarationConsulted
<1>1. Inv => OnlySnapDeclarationConsulted
  BY ReportIsJudgement, SnapRules DEF OnlySnapDeclarationConsulted
<1> QED
  BY <1>1, InvHolds, PTL

-----------------------------------------------------------------------------
(* Defaults and scope.                                                     *)

LEMMA KeyValues ==
    /\ Key["allow"]["installation"] = "allow-installation"
    /\ Key["allow"]["connection"] = "allow-connection"
    /\ Key["allow"]["auto-connection"] = "allow-auto-connection"
    /\ Key["deny"]["installation"] = "deny-installation"
    /\ Key["deny"]["connection"] = "deny-connection"
    /\ Key["deny"]["auto-connection"] = "deny-auto-connection"
BY DEF Key, Constraints, Checked

LEMMA SideOfItem == ASSUME Inv, NEW x \in Items(snap) PROVE x.side \in Sides
BY DeclarationAssumption DEF Inv, TypeOK, Items, Declared, Item

(* An entry that speaks of some type allows each it does not speak of, and *)
(* denies it nothing. *)
LEMMA Filled ==
    ASSUME NEW entry, NEW ct \in Constraints, Says(entry, ct) = {},
           NEW c \in Constraints, Says(entry, c) # {}
    PROVE  /\ Says(WithDefaults(entry), ct) = {"allow"}
           /\ WithDefaults(entry)[Key["allow"][ct]] = <<[bool |-> TRUE]>>
<1> DEFINE missing == {t \in Constraints : Says(entry, t) = {}}
           added   == {Key["allow"][t] : t \in missing}
<1>1. /\ missing # Constraints
      /\ ct \in missing
  OBVIOUS
<1>2. WithDefaults(entry) =
        [k \in DOMAIN entry \cup added |->
            IF k \in DOMAIN entry THEN entry[k] ELSE <<[bool |-> TRUE]>>]
  BY <1>1 DEF WithDefaults
<1>3. /\ Key["allow"][ct] \in added
      /\ Key["allow"][ct] \notin DOMAIN entry
      /\ Key["deny"][ct] \notin DOMAIN entry
  BY <1>1 DEF Says, Effects
<1>4. Key["deny"][ct] \notin added
  BY KeyValues DEF Constraints, Checked
<1> HIDE DEF missing, added
<1> QED
  BY <1>2, <1>3, <1>4 DEF Says, Effects

(* Such a type is judged by the one rule TRUE, which lets everything pass. *)
LEMMA DefaultPasses ==
    ASSUME NEW b, NEW d, NEW dev, NEW x, NEW ct \in Checked,
           x.iface \in DOMAIN d[x.side],
           Says(d[x.side][x.iface], ct) = {"allow"},
           d[x.side][x.iface][Key["allow"][ct]] = <<[bool |-> TRUE]>>
    PROVE  Judgement(b, d, dev, x, ct) = "pass"
<1> DEFINE entry == d[x.side][x.iface]
           yes   == <<[bool |-> TRUE]>>
<1>1. Active(yes, dev) = {1}
  BY DEF Active, Scoped
<1>2. /\ InScope(entry, ct, dev)
      /\ Whence(b, d, dev, x, ct) = "snap"
  BY <1>1 DEF InScope, SnapHasSay, Whence
<1>3. Entry(b, d, x, "snap") = entry
  BY DEF Entry
<1>4. /\ Alternatives(entry, "deny", ct, dev) = {}
      /\ Alternatives(entry, "allow", ct, dev) = {1}
  BY <1>1 DEF Alternatives
<1>5. CheckRule(x, entry[Key["allow"][ct]][1], "allow", ct, "snap") = "pass"
  <2>1. entry[Key["allow"][ct]][1] = [bool |-> TRUE]
    OBVIOUS
  <2>2. /\ "bool" \in DOMAIN [bool |-> TRUE]
        /\ [bool |-> TRUE]["bool"]
    OBVIOUS
  <2>3. ASSUME NEW r, "bool" \in DOMAIN r, r["bool"]
        PROVE  CheckRule(x, r, "allow", ct, "snap") = "pass"
    BY <2>3 DEF CheckRule
  <2> QED
    BY <2>1, <2>2, <2>3
<1>6. Constraint(x, entry, "deny", ct, dev, "snap") = "pass"
  <2>1. Decisive(x, entry, "deny", ct, dev, "snap") = {}
    BY <1>4 DEF Decisive
  <2> QED
    BY <2>1 DEF Constraint
<1>7. Constraint(x, entry, "allow", ct, dev, "snap") = "pass"
  <2>1. Decisive(x, entry, "allow", ct, dev, "snap") = {1}
    BY <1>4, <1>5 DEF Decisive
  <2>2. Least({1}) = 1
    BY DEF Least
  <2> QED
    BY <1>5, <2>1, <2>2 DEF Constraint
<1> QED
  BY <1>2, <1>3, <1>6, <1>7 DEF Judgement

(* An interface needs no more than one constraint in the snap declaration  *)
(* for the types that it leaves out to pass. *)
THEOREM DefaultIsAllow == Spec => []MissingTypeAllowed
<1>1. Inv => MissingTypeAllowed
  <2> SUFFICES ASSUME Inv, NEW x \in Judged, NEW ct \in Checked,
                      x.iface \in DOMAIN given[x.side],
                      Says(given[x.side][x.iface], ct) = {},
                      NEW c \in Constraints,
                      Says(given[x.side][x.iface], c) # {}
               PROVE  <<x, ct>> \notin results
    BY DEF MissingTypeAllowed
  <2>1. x \in Items(snap) /\ decl = Completed
    BY DEF Judged, Inv, Stages
  <2>2. /\ x.iface \in DOMAIN decl[x.side]
        /\ decl[x.side][x.iface] = WithDefaults(given[x.side][x.iface])
    BY <2>1, SideOfItem DEF Completed
  <2>3. ct \in Constraints
    BY DEF Constraints
  <2>4. /\ Says(decl[x.side][x.iface], ct) = {"allow"}
        /\ decl[x.side][x.iface][Key["allow"][ct]] = <<[bool |-> TRUE]>>
    BY <2>2, <2>3, Filled
  <2>5. Judgement(base, decl, device, x, ct) = "pass"
    BY <2>2, <2>4, DefaultPasses
  <2> QED
    BY <2>5, ReportIsJudgement
<1> QED
  BY <1>1, InvHolds, PTL

(* What an entry says of a type, the defaults leave alone.                 *)
LEMMA SaidIsKept ==
    ASSUME NEW entry, NEW ct \in Constraints, Says(entry, ct) # {}
    PROVE  /\ Says(WithDefaults(entry), ct) = Says(entry, ct)
           /\ \A e \in Says(entry, ct) :
                 WithDefaults(entry)[Key[e][ct]] = entry[Key[e][ct]]
<1> DEFINE missing == {t \in Constraints : Says(entry, t) = {}}
           added   == {Key["allow"][t] : t \in missing}
<1>1. missing # Constraints /\ ct \notin missing
  OBVIOUS
<1>2. WithDefaults(entry) =
        [k \in DOMAIN entry \cup added |->
            IF k \in DOMAIN entry THEN entry[k] ELSE <<[bool |-> TRUE]>>]
  BY <1>1 DEF WithDefaults
<1>3. \A e \in Effects : Key[e][ct] \notin added
  BY <1>1, KeyValues DEF Constraints, Checked, Effects
<1> HIDE DEF missing, added
<1> QED
  BY <1>2, <1>3 DEF Says

(* Two declarations without a say are as good as each other.               *)
LEMMA BaseRules ==
    ASSUME NEW b, NEW c, NEW d, NEW dev, NEW x, NEW ct,
           ~SnapHasSay(c, dev, x, ct), ~SnapHasSay(d, dev, x, ct)
    PROVE  Judgement(b, c, dev, x, ct) = Judgement(b, d, dev, x, ct)
<1>1. /\ Whence(b, c, dev, x, ct) = Whence(b, d, dev, x, ct)
      /\ Whence(b, c, dev, x, ct) # "snap"
  BY DEF Whence
<1>2. ASSUME NEW w, w # "snap" PROVE Entry(b, c, x, w) = Entry(b, d, x, w)
  BY <1>2 DEF Entry
<1> QED
  BY <1>1, <1>2 DEF Judgement

(* Rules for other devices only are as good as none, type by type.         *)
THEOREM OutOfScopeIsNoRule == Spec => []OutOfScopeIsBase
<1>1. Inv => OutOfScopeIsBase
  <2> SUFFICES ASSUME Inv, NEW x \in Judged, NEW ct \in Checked,
                      x.iface \in DOMAIN given[x.side],
                      Says(given[x.side][x.iface], ct) # {},
                      OutOfScope(given[x.side][x.iface], ct)
               PROVE  AsWithoutDeclaration(x, ct)
    BY DEF OutOfScopeIsBase
  <2>1. x \in Items(snap) /\ decl = Completed
    BY DEF Judged, Inv, Stages
  <2>2. decl[x.side][x.iface] = WithDefaults(given[x.side][x.iface])
    BY <2>1, SideOfItem DEF Completed
  <2>3. ct \in Constraints
    BY DEF Constraints
  <2>4. ~InScope(decl[x.side][x.iface], ct, device)
    BY <2>2, <2>3, SaidIsKept DEF InScope, OutOfScope, Alternatives
  <2>5. ~SnapHasSay(decl, device, x, ct)
    BY <2>4 DEF SnapHasSay
  <2>6. ~SnapHasSay(NoDecl, device, x, ct)
    BY <2>1, SideOfItem DEF SnapHasSay, NoDecl
  <2>7. Judgement(base, decl, device, x, ct) = Judgement(base, NoDecl, device, x, ct)
    BY <2>5, <2>6, BaseRules
  <2> QED
    BY <2>7, ReportIsJudgement DEF AsWithoutDeclaration
<1> QED
  BY <1>1, InvHolds, PTL

-----------------------------------------------------------------------------
(* The least alternative, and what the walk over the alternatives returns. *)

(* The least-number principle: the first of the decisive alternatives is   *)
(* one of them, and none comes before it. *)
LEMMA LeastIsFirst ==
    ASSUME NEW S, S \subseteq Nat, S # {}
    PROVE  Least(S) \in S /\ \A j \in S : Least(S) <= j
<1>1. PICK i \in S : \A j \in S : <<j, i>> \notin OpToRel(<, Nat)
  BY WFMin, NatLessThanWellFounded, Zenon
<1>2. \A j \in S : ~(j < i)
  BY <1>1, Zenon DEF OpToRel
<1>3. \A j \in S : i <= j
  BY <1>2
<1> QED
  BY <1>3 DEF Least

(* An entry whose constraints are lists of rules that do not name Unused.  *)
WellFormed(entry) ==
    \A e \in Effects, ct \in Constraints :
        Key[e][ct] \in DOMAIN entry =>
            /\ DOMAIN entry[Key[e][ct]] \subseteq Nat
            /\ \A i \in DOMAIN entry[Key[e][ct]] :
                  \A k \in AttributeKeys \cap DOMAIN entry[Key[e][ct]][i] :
                     Unused \notin DOMAIN entry[Key[e][ct]][i][k]

LEMMA DefaultsWellFormed ==
    ASSUME NEW entry, WellFormed(entry)
    PROVE  WellFormed(WithDefaults(entry))
<1> DEFINE missing == {t \in Constraints : Says(entry, t) = {}}
           added   == {Key["allow"][t] : t \in missing}
           yes     == <<[bool |-> TRUE]>>
<1>1. CASE missing = Constraints
  BY <1>1 DEF WithDefaults
<1>2. CASE missing # Constraints
  <2>1. WithDefaults(entry) =
          [k \in DOMAIN entry \cup added |->
              IF k \in DOMAIN entry THEN entry[k] ELSE yes]
    BY <1>2 DEF WithDefaults
  <2>2. /\ DOMAIN yes = {1}
        /\ DOMAIN yes[1] = {"bool"}
    OBVIOUS
  <2> HIDE DEF missing, added, yes
  <2>3. SUFFICES ASSUME NEW e \in Effects, NEW ct \in Constraints,
                        Key[e][ct] \in DOMAIN WithDefaults(entry)
                 PROVE  /\ DOMAIN WithDefaults(entry)[Key[e][ct]] \subseteq Nat
                        /\ \A i \in DOMAIN WithDefaults(entry)[Key[e][ct]] :
                             \A k \in AttributeKeys
                                  \cap DOMAIN WithDefaults(entry)[Key[e][ct]][i] :
                               Unused \notin DOMAIN WithDefaults(entry)[Key[e][ct]][i][k]
    BY DEF WellFormed
  <2>4. CASE Key[e][ct] \in DOMAIN entry
    <3>1. WithDefaults(entry)[Key[e][ct]] = entry[Key[e][ct]]
      BY <2>1, <2>3, <2>4
    <3> QED
      BY <2>4, <3>1 DEF WellFormed
  <2>5. CASE Key[e][ct] \notin DOMAIN entry
    <3>1. WithDefaults(entry)[Key[e][ct]] = yes
      BY <2>1, <2>3, <2>5
    <3> QED
      BY <2>2, <3>1 DEF AttributeKeys
  <2> QED
    BY <2>4, <2>5
<1> QED
  BY <1>1, <1>2

(* Whichever declaration has the word, its entry is well formed.           *)
LEMMA RulingWellFormed ==
    ASSUME Inv, NEW x \in Items(snap), NEW ct
    PROVE  WellFormed(Entry(base, decl, x, Whence(base, decl, device, x, ct)))
<1>1. \A d \in BaseDecls \cup SnapDecls, side \in Sides :
         \A iface \in DOMAIN d[side] : WellFormed(d[side][iface])
  BY AlternativesAssumption, UnusedAssumption DEF WellFormed
<1>2. x.side \in Sides /\ "slots" \in Sides
  BY SideOfItem DEF Sides
<1>3. /\ base \in BaseDecls
      /\ given \in SnapDecls
      /\ decl = given \/ decl = Completed
  BY DEF Inv, TypeOK, Stages, Locations
<1>4. ASSUME x.iface \in DOMAIN decl[x.side]
      PROVE  WellFormed(decl[x.side][x.iface])
  <2>1. CASE decl = given
    BY <1>1, <1>2, <1>3, <1>4, <2>1
  <2>2. CASE decl = Completed
    <3>1. /\ x.iface \in DOMAIN given[x.side]
          /\ decl[x.side][x.iface] = WithDefaults(given[x.side][x.iface])
      BY <1>2, <1>4, <2>2 DEF Completed
    <3>2. WellFormed(given[x.side][x.iface])
      BY <1>1, <1>2, <1>3, <3>1
    <3> QED
      BY <3>1, <3>2, DefaultsWellFormed
  <2> QED
    BY <1>3, <2>1, <2>2
<1>5. WellFormed([k \in {} |-> <<>>])
  BY DEF WellFormed
<1>6. CASE SnapHasSay(decl, device, x, ct)
  BY <1>4, <1>6 DEF SnapHasSay, Whence, Entry
<1>7. CASE ~SnapHasSay(decl, device, x, ct)
  BY <1>1, <1>2, <1>3, <1>5, <1>7 DEF Whence, Entry
<1> QED
  BY <1>6, <1>7

LEMMA RuleOutcome ==
    ASSUME NEW x, NEW rule, NEW e, NEW ct, NEW whence
    PROVE  CheckRule(x, rule, e, ct, whence) \in {"raise", "flag", "pass"}
BY DEF CheckRule

(* The walk ends at the first decisive alternative.                        *)
LEMMA FirstDecides ==
    ASSUME NEW x, NEW entry, WellFormed(entry), NEW e \in Effects,
           NEW ct \in Constraints, NEW dev, NEW whence,
           Decisive(x, entry, e, ct, dev, whence) # {}
    PROVE  \E i \in Alternatives(entry, e, ct, dev) :
              /\ i \in Decisive(x, entry, e, ct, dev, whence)
              /\ i \in Reached(x, entry, e, ct, dev, whence)
              /\ Constraint(x, entry, e, ct, dev, whence)
                   = CheckRule(x, entry[Key[e][ct]][i], e, ct, whence)
<1> DEFINE decisive == Decisive(x, entry, e, ct, dev, whence)
<1>1. decisive \subseteq Alternatives(entry, e, ct, dev)
  BY DEF Decisive
<1>2. Alternatives(entry, e, ct, dev) \subseteq Nat
  BY DEF Alternatives, Says, Active, WellFormed
<1>3. /\ Least(decisive) \in decisive
      /\ \A j \in decisive : Least(decisive) <= j
  <2> HIDE DEF decisive
  <2>1. decisive # {}
    BY DEF decisive
  <2> QED
    BY <1>1, <1>2, <2>1, LeastIsFirst
<1>4. Constraint(x, entry, e, ct, dev, whence)
        = CheckRule(x, entry[Key[e][ct]][Least(decisive)], e, ct, whence)
  BY DEF Constraint
<1>5. Least(decisive) \in Reached(x, entry, e, ct, dev, whence)
  BY <1>1, <1>3 DEF Reached
<1> QED
  BY <1>1, <1>3, <1>4, <1>5

(* A denial that does not raise: an OR over the rules.                     *)
LEMMA DenyIsOr ==
    ASSUME NEW x, NEW entry, WellFormed(entry), NEW ct \in Constraints,
           NEW dev, NEW whence,
           Constraint(x, entry, "deny", ct, dev, whence) # "raise"
    PROVE  /\ Constraint(x, entry, "deny", ct, dev, whence) \in {"flag", "pass"}
           /\ Constraint(x, entry, "deny", ct, dev, whence) = "flag" <=>
                \E i \in Alternatives(entry, "deny", ct, dev) :
                   CheckRule(x, entry[Key["deny"][ct]][i], "deny", ct, whence)
                      = "flag"
<1>1. CASE Decisive(x, entry, "deny", ct, dev, whence) = {}
  <2>1. Constraint(x, entry, "deny", ct, dev, whence) = "pass"
    BY <1>1 DEF Constraint
  <2>2. \A i \in Alternatives(entry, "deny", ct, dev) :
           CheckRule(x, entry[Key["deny"][ct]][i], "deny", ct, whence) = "pass"
    BY <1>1 DEF Decisive
  <2> QED
    BY <2>1, <2>2
<1>2. CASE Decisive(x, entry, "deny", ct, dev, whence) # {}
  <2>1. PICK i \in Alternatives(entry, "deny", ct, dev) :
           /\ i \in Decisive(x, entry, "deny", ct, dev, whence)
           /\ Constraint(x, entry, "deny", ct, dev, whence)
                = CheckRule(x, entry[Key["deny"][ct]][i], "deny", ct, whence)
    BY <1>2, FirstDecides DEF Effects
  <2>2. CheckRule(x, entry[Key["deny"][ct]][i], "deny", ct, whence) = "flag"
    BY <2>1, RuleOutcome DEF Decisive
  <2> QED
    BY <2>1, <2>2
<1> QED
  BY <1>1, <1>2

(* A permission that does not raise: none of the rules lets it pass.       *)
LEMMA AllowIsOr ==
    ASSUME NEW x, NEW entry, WellFormed(entry), NEW ct \in Constraints,
           NEW dev, NEW whence,
           Constraint(x, entry, "allow", ct, dev, whence) # "raise"
    PROVE  Constraint(x, entry, "allow", ct, dev, whence) = "flag" <=>
              /\ Alternatives(entry, "allow", ct, dev) # {}
              /\ \A i \in Alternatives(entry, "allow", ct, dev) :
                   CheckRule(x, entry[Key["allow"][ct]][i], "allow", ct, whence)
                      = "flag"
<1>1. CASE Decisive(x, entry, "allow", ct, dev, whence) = {}
  <2>1. \A i \in Alternatives(entry, "allow", ct, dev) :
           CheckRule(x, entry[Key["allow"][ct]][i], "allow", ct, whence) = "flag"
    BY <1>1 DEF Decisive
  <2> QED
    BY <1>1, <2>1 DEF Constraint
<1>2. CASE Decisive(x, entry, "allow", ct, dev, whence) # {}
  <2>1. PICK i \in Alternatives(entry, "allow", ct, dev) :
           /\ i \in Decisive(x, entry, "allow", ct, dev, whence)
           /\ Constraint(x, entry, "allow", ct, dev, whence)
                = CheckRule(x, entry[Key["allow"][ct]][i], "allow", ct, whence)
    BY <1>2, FirstDecides DEF Effects
  <2>2. CheckRule(x, entry[Key["allow"][ct]][i], "allow", ct, whence) # "flag"
    BY <2>1 DEF Decisive
  <2> QED
    BY <2>1, <2>2
<1> QED
  BY <1>1, <1>2

-----------------------------------------------------------------------------
(* What the report so far leaves out: items whose judgement raised, and    *)
(* references nobody vetted. *)

(* An item is done with only when neither of its judgements raised.        *)
Judgeable ==
    pc \in {"items", "done"} =>
        \A x \in Items(snap) \ todo, ct \in Checked :
            Known(x) => Judgement(base, decl, device, x, ct) # "raise"

(* The references of a reserved interface are warned of with the first     *)
(* plug whose name went unchecked. *)
Vetting ==
    pc \in {"items", "done"} =>
        \A x \in Items(snap) \ todo :
            /\ Known(x)
            /\ x.iface \in Reserved
            /\ NameUnchecked(base, decl, device, x)
            => \A y \in Unvetted(x.iface) : <<y, "reference">> \in results

(* A review that raised, after the defaults, did so over a judgement.      *)
Raising ==
    pc = "raised" /\ ~BooleanEntry(given) =>
        \E x \in todo, ct \in Checked :
            Known(x) /\ Judgement(base, decl, device, x, ct) = "raise"

LEMMA JudgeableStep == TypeOK /\ Reported /\ Judgeable /\ [Next]_vars => Judgeable'
<1> SUFFICES ASSUME TypeOK, Reported, Judgeable, [Next]_vars PROVE Judgeable'
  OBVIOUS
<1>1. CASE Verify
  BY <1>1 DEF Judgeable, Verify
<1>2. CASE EnsureDefaults
  BY <1>2 DEF Judgeable, EnsureDefaults, inputs, Reported
<1>3. CASE DefaultsRaise
  BY <1>3 DEF Judgeable, DefaultsRaise
<1>4. CASE Finish
  BY <1>4 DEF Judgeable, Finish, inputs, Known
<1>5. ASSUME NEW x \in todo, RejectItem(x) PROVE Judgeable'
  BY <1>5 DEF Judgeable, RejectItem, inputs, Known
<1>6. ASSUME NEW x \in todo, VerifyItem(x) PROVE Judgeable'
  BY <1>6 DEF Judgeable, VerifyItem, inputs, Known
<1>7. ASSUME NEW x \in todo, ItemRaises(x) PROVE Judgeable'
  BY <1>7 DEF Judgeable, ItemRaises
<1>8. CASE UNCHANGED vars
  BY <1>8 DEF Judgeable, vars, Known
<1> QED
  BY <1>1, <1>2, <1>3, <1>4, <1>5, <1>6, <1>7, <1>8 DEF Next

LEMMA VettingStep == TypeOK /\ Reported /\ Vetting /\ [Next]_vars => Vetting'
<1> SUFFICES ASSUME TypeOK, Reported, Vetting, [Next]_vars PROVE Vetting'
  OBVIOUS
<1>1. CASE Verify
  BY <1>1 DEF Vetting, Verify
<1>2. CASE EnsureDefaults
  BY <1>2 DEF Vetting, EnsureDefaults, inputs, Reported
<1>3. CASE DefaultsRaise
  BY <1>3 DEF Vetting, DefaultsRaise
<1>4. CASE Finish
  BY <1>4 DEF Vetting, Finish, inputs, Known, Unvetted
<1>5. ASSUME NEW x \in todo, RejectItem(x) PROVE Vetting'
  BY <1>5 DEF Vetting, RejectItem, inputs, Known, Unvetted
<1>6. ASSUME NEW x \in todo, VerifyItem(x) PROVE Vetting'
  <2>1. x.iface \in Reserved /\ NameUnchecked(base, decl, device, x) =>
          \A y \in Unvetted(x.iface) : <<y, "reference">> \in results'
    BY <1>6 DEF VerifyItem
  <2>2. results \subseteq results'
    BY <1>6 DEF VerifyItem
  <2>3. UNCHANGED <<base, decl, device, snap, pc>> /\ todo' = todo \ {x}
    BY <1>6 DEF VerifyItem, inputs
  <2> QED
    BY <2>1, <2>2, <2>3 DEF Vetting, Known, Unvetted
<1>7. ASSUME NEW x \in todo, ItemRaises(x) PROVE Vetting'
  BY <1>7 DEF Vetting, ItemRaises
<1>8. CASE UNCHANGED vars
  BY <1>8 DEF Vetting, vars, Known, Unvetted
<1> QED
  BY <1>1, <1>2, <1>3, <1>4, <1>5, <1>6, <1>7, <1>8 DEF Next

LEMMA RaisingStep == Stages /\ Raising /\ [Next]_vars => Raising'
<1> SUFFICES ASSUME Stages, Raising, [Next]_vars PROVE Raising'
  OBVIOUS
<1>1. CASE Verify
  BY <1>1 DEF Raising, Verify
<1>2. CASE EnsureDefaults
  BY <1>2 DEF Raising, EnsureDefaults
<1>3. CASE DefaultsRaise
  BY <1>3 DEF Raising, DefaultsRaise, inputs, Stages, BooleanEntry
<1>4. CASE Finish
  BY <1>4 DEF Raising, Finish
<1>5. ASSUME NEW x \in todo, RejectItem(x) PROVE Raising'
  BY <1>5 DEF Raising, RejectItem
<1>6. ASSUME NEW x \in todo, VerifyItem(x) PROVE Raising'
  BY <1>6 DEF Raising, VerifyItem
<1>7. ASSUME NEW x \in todo, ItemRaises(x) PROVE Raising'
  BY <1>7 DEF Raising, ItemRaises, inputs, Known
<1>8. CASE UNCHANGED vars
  BY <1>8 DEF Raising, vars, Known, BooleanEntry
<1> QED
  BY <1>1, <1>2, <1>3, <1>4, <1>5, <1>6, <1>7, <1>8 DEF Next

LEMMA FullInvHolds == Spec => [](Inv /\ Judgeable /\ Vetting /\ Raising)
<1>1. Init => Judgeable /\ Vetting /\ Raising
  BY DEF Init, Judgeable, Vetting, Raising
<1>2. Inv => TypeOK /\ Reported /\ Stages
  BY DEF Inv
<1> QED
  BY <1>1, <1>2, InvHolds, JudgeableStep, VettingStep, RaisingStep, PTL DEF Spec

(* The first rule that settles a constraint settles it as any order of the *)
(* rules would: denied by one of the deny rules, or let through by none of *)
(* the allow rules there are. *)
THEOREM OrderOfAlternatives == Spec => []AlternativesAreOr
<1>1. Inv /\ Judgeable => AlternativesAreOr
  <2> SUFFICES ASSUME Inv, Judgeable, NEW x \in Judged, NEW ct \in Checked
               PROVE  LET whence == Whence(base, decl, device, x, ct)
                          Flags(e, r) == CheckRule(x, r, e, ct, whence) = "flag"
                          denials == Rules(Ruling(x, ct), "deny", ct)
                          allows  == Rules(Ruling(x, ct), "allow", ct)
                      IN <<x, ct>> \in results <=>
                            \/ \E r \in denials : Flags("deny", r)
                            \/ allows # {} /\ \A r \in allows : Flags("allow", r)
    BY DEF AlternativesAreOr
  <2> DEFINE whence == Whence(base, decl, device, x, ct)
             entry  == Entry(base, decl, x, whence)
             denied == Constraint(x, entry, "deny", ct, device, whence)
             allow  == Constraint(x, entry, "allow", ct, device, whence)
             Flags(e, i) == CheckRule(x, entry[Key[e][ct]][i], e, ct, whence) = "flag"
             Alts(e) == Alternatives(entry, e, ct, device)
  <2>1. x \in Items(snap) \ todo /\ Known(x) /\ pc = "done"
    BY DEF Judged, Inv, Stages
  <2>2. ct \in Constraints
    BY DEF Constraints
  <2>3. WellFormed(entry)
    BY <2>1, RulingWellFormed
  <2>4. Judgement(base, decl, device, x, ct)
          = IF denied = "pass" THEN allow ELSE denied
    BY DEF Judgement
  <2>5. Judgement(base, decl, device, x, ct) # "raise"
    BY <2>1 DEF Judgeable
  <2> HIDE DEF entry, whence
  <2>6. /\ denied \in {"flag", "pass"}
        /\ denied = "flag" <=> \E i \in Alts("deny") : Flags("deny", i)
    BY <2>2, <2>3, <2>4, <2>5, DenyIsOr
  <2>7. denied = "pass" =>
          (allow = "flag" <=>
             Alts("allow") # {} /\ \A i \in Alts("allow") : Flags("allow", i))
    BY <2>2, <2>3, <2>4, <2>5, AllowIsOr
  <2>8. <<x, ct>> \in results <=>
          \/ \E i \in Alts("deny") : Flags("deny", i)
          \/ Alts("allow") # {} /\ \A i \in Alts("allow") : Flags("allow", i)
    <3>1. denied = "pass" \/ denied = "flag"
      BY <2>6
    <3>2. CASE denied = "flag"
      BY <2>4, <2>6, <3>2, ReportIsJudgement
    <3>3. CASE denied = "pass"
      BY <2>4, <2>6, <2>7, <3>3, ReportIsJudgement
    <3> QED
      BY <3>1, <3>2, <3>3
  <2> QED
    BY <2>8 DEF Rules, Ruling, entry, whence
<1> QED
  BY <1>1, FullInvHolds, PTL

(* A walk that has alternatives looks at one of them.                      *)
LEMMA SomeReached ==
    ASSUME NEW x, NEW entry, WellFormed(entry), NEW e \in Effects,
           NEW ct \in Constraints, NEW dev, NEW whence,
           Alternatives(entry, e, ct, dev) # {}
    PROVE  \E i \in Alternatives(entry, e, ct, dev) :
              i \in Reached(x, entry, e, ct, dev, whence)
<1>1. CASE Decisive(x, entry, e, ct, dev, whence) = {}
  BY <1>1 DEF Reached
<1>2. CASE Decisive(x, entry, e, ct, dev, whence) # {}
  BY <1>2, FirstDecides
<1> QED
  BY <1>1, <1>2

(* A plug of a reserved interface does not pass unseen because another     *)
(* alternative settled its installation, unless it is abbreviated. *)
THEOREM ReservedReferences == Spec => []ReservedNamesVetted
<1>1. Inv /\ Vetting => ReservedNamesVetted
  <2> DEFINE rules(x) ==
               UNION {Rules(Ruling(x, "installation"), e, "installation") :
                         e \in Effects}
  <2> SUFFICES ASSUME Inv, Vetting, NEW x \in Judged, Unnamed(x),
                      x.ref \in snap.short => x.ref = x.iface
               PROVE  <<x, "reference">> \in results
    BY DEF ReservedNamesVetted
  <2>0. /\ x \in Declared(snap) /\ x.side = "plugs"
        /\ x.iface \in Reserved /\ <<x.iface, x.ref>> \notin Vetted
        /\ rules(x) # {}
        /\ \A r \in rules(x) : {"bool", "plug-names"} \cap DOMAIN r = {}
    BY DEF Unnamed
  <2> DEFINE ct == "installation"
             whence == Whence(base, decl, device, x, ct)
             entry  == Entry(base, decl, x, whence)
             Alts(e) == Alternatives(entry, e, ct, device)
  <2>1. x \in Items(snap) \ todo /\ Known(x) /\ pc = "done"
    BY DEF Judged, Inv, Stages
  <2>2. WellFormed(entry) /\ ct \in Constraints
    BY <2>1, RulingWellFormed DEF Constraints, Checked
  <2>3. \A e \in Effects : \A i \in Alts(e) :
           entry[Key[e][ct]][i] \in rules(x)
    BY DEF Rules, Ruling
  <2>4. Alts("deny") # {} \/ Alts("allow") # {}
    BY <2>0 DEF Rules, Ruling, Effects
  <2> HIDE DEF entry, whence, rules
  <2>5. ASSUME NEW e \in Effects, Alts(e) # {}
        PROVE  \E i \in Reached(x, entry, e, ct, device, whence) :
                  {"bool", "plug-names"} \cap DOMAIN entry[Key[e][ct]][i] = {}
    <3>1. PICK i \in Alts(e) : i \in Reached(x, entry, e, ct, device, whence)
      BY <2>2, <2>5, SomeReached
    <3>2. entry[Key[e][ct]][i] \in rules(x)
      BY <2>3, <3>1
    <3> QED
      BY <2>0, <3>1, <3>2
  <2>6. Alts("deny") = {} =>
          Constraint(x, entry, "deny", ct, device, whence) = "pass"
    BY DEF Constraint, Decisive
  <2>7. NameUnchecked(base, decl, device, x)
    BY <2>0, <2>4, <2>5, <2>6 DEF NameUnchecked, Effects, entry, whence
  <2>8. x \in Unvetted(x.iface)
    BY <2>0 DEF Unvetted
  <2> QED
    BY <2>0, <2>1, <2>7, <2>8 DEF Vetting
<1> QED
  BY <1>1, FullInvHolds, PTL

(* A rule raises only over a name or an attribute.                         *)
LEMMA RaisingRule ==
    ASSUME NEW x, x.side \in Sides, NEW rule, NEW e, NEW ct, NEW whence,
           CheckRule(x, rule, e, ct, whence) = "raise"
    PROVE  Offends(rule, x)
<1>1. \/ CheckNames(x, rule, e) = "raise"
      \/ CheckAttributes(x, rule, e, ct, whence) = "raise"
  BY DEF CheckRule, CheckSnapType, CheckOnClassic, Judge
<1>2. CASE CheckNames(x, rule, e) = "raise"
  BY <1>2 DEF CheckNames, Judge, Offends
<1>3. CASE CheckAttributes(x, rule, e, ct, whence) = "raise"
  <2>1. PICK k \in AttributeRules(x, rule, ct, whence) :
           \E a \in DOMAIN rule[k] \cap DOMAIN x.attrs :
              x.attrs[a] \cap Numbers # {}
    BY <1>3 DEF CheckAttributes, Judge
  <2>2. k \in AttributeKeys \cap DOMAIN rule
    BY DEF AttributeRules
  <2> QED
    BY <2>1, <2>2 DEF Offends
<1> QED
  BY <1>1, <1>2, <1>3

(* A judgement that raises does so over a rule for this device.            *)
LEMMA RaisingJudgement ==
    ASSUME Inv, NEW x \in Items(snap), NEW ct \in Checked,
           Judgement(base, decl, device, x, ct) = "raise"
    PROVE  LET entry == Ruling(x, ct) IN
           \E k \in DOMAIN entry : \E i \in DOMAIN entry[k] :
              Scoped(entry[k][i], device) /\ Offends(entry[k][i], x)
<1> DEFINE whence == Whence(base, decl, device, x, ct)
           entry  == Entry(base, decl, x, whence)
<1>1. WellFormed(entry) /\ ct \in Constraints
  BY RulingWellFormed DEF Constraints
<1>2. PICK e \in Effects : Constraint(x, entry, e, ct, device, whence) = "raise"
  BY DEF Judgement, Effects
<1>3. entry = Ruling(x, ct)
  BY DEF Ruling
<1> HIDE DEF entry, whence
<1>4. Decisive(x, entry, e, ct, device, whence) # {}
  BY <1>2 DEF Constraint
<1>5. PICK i \in Alternatives(entry, e, ct, device) :
         CheckRule(x, entry[Key[e][ct]][i], e, ct, whence) = "raise"
  BY <1>1, <1>2, <1>4, FirstDecides
<1>6. /\ Key[e][ct] \in DOMAIN entry
      /\ i \in DOMAIN entry[Key[e][ct]]
      /\ Scoped(entry[Key[e][ct]][i], device)
  BY <1>5 DEF Alternatives, Says, Active
<1>7. Offends(entry[Key[e][ct]][i], x)
  BY <1>5, SideOfItem, RaisingRule
<1> QED
  BY <1>3, <1>6, <1>7

(* What a declaration has for other devices cannot end the review.         *)
THEOREM RaisesInScope == Spec => []RaisesOnlyInScope
<1>1. Inv /\ Raising => RaisesOnlyInScope
  <2> SUFFICES ASSUME Inv, Raising, pc = "raised", ~BooleanEntry(given)
               PROVE  \E x \in todo, d \in {base, decl}, side \in Sides :
                        /\ x.iface \in DOMAIN d[side]
                        /\ \E k \in DOMAIN d[side][x.iface] :
                              \E i \in DOMAIN d[side][x.iface][k] :
                                 /\ Scoped(d[side][x.iface][k][i], device)
                                 /\ Offends(d[side][x.iface][k][i], x)
    BY DEF RaisesOnlyInScope
  <2>1. PICK x \in todo, ct \in Checked :
           Judgement(base, decl, device, x, ct) = "raise"
    BY DEF Raising
  <2>2. x \in Items(snap)
    BY DEF Inv, TypeOK
  <2> DEFINE entry == Ruling(x, ct)
  <2>3. PICK k \in DOMAIN entry : \E i \in DOMAIN entry[k] :
           Scoped(entry[k][i], device) /\ Offends(entry[k][i], x)
    BY <2>1, <2>2, RaisingJudgement
  <2>4. \E d \in {base, decl}, side \in Sides :
           x.iface \in DOMAIN d[side] /\ entry = d[side][x.iface]
    <3>1. x.side \in Sides /\ "slots" \in Sides
      BY <2>2, SideOfItem DEF Sides
    <3>2. CASE SnapHasSay(decl, device, x, ct)
      BY <3>1, <3>2 DEF Ruling, Entry, Whence, SnapHasSay
    <3>3. CASE ~SnapHasSay(decl, device, x, ct) /\ x.iface \in DOMAIN base[x.side]
      BY <3>1, <3>3 DEF Ruling, Entry, Whence
    <3>4. CASE /\ ~SnapHasSay(decl, device, x, ct)
               /\ x.iface \notin DOMAIN base[x.side]
               /\ x.iface \in DOMAIN base["slots"]
      BY <3>1, <3>4 DEF Ruling, Entry, Whence
    <3>5. CASE /\ ~SnapHasSay(decl, device, x, ct)
               /\ x.iface \notin DOMAIN base[x.side]
               /\ x.iface \notin DOMAIN base["slots"]
      <4>1. entry = [j \in {} |-> <<>>]
        BY <3>5 DEF Ruling, Entry, Whence
      <4> QED
        BY <2>3, <4>1
    <3> QED
      BY <3>2, <3>3, <3>4, <3>5
  <2> HIDE DEF entry
  <2> QED
    BY <2>3, <2>4
<1> QED
  BY <1>1, FullInvHolds, PTL

-----------------------------------------------------------------------------
(* One more attribute.                                                     *)

More(x) == [x EXCEPT !.attrs = [a \in DOMAIN x.attrs \cup {Unused} |->
                                  IF a = Unused THEN {} ELSE x.attrs[a]]]

Named(rule) == \A k \in AttributeKeys \cap DOMAIN rule : Unused \notin DOMAIN rule[k]

LEMMA MoreFields ==
    ASSUME Inv, NEW x \in Items(snap)
    PROVE  /\ More(x).side = x.side
           /\ More(x).ref = x.ref
           /\ More(x).iface = x.iface
           /\ More(x).type = x.type
           /\ DOMAIN More(x).attrs = DOMAIN x.attrs \cup {Unused}
           /\ \A a \in DOMAIN x.attrs \ {Unused} : More(x).attrs[a] = x.attrs[a]
<1>1. PICK side, ref, iface, attrs, type :
         x = [side |-> side, ref |-> ref, iface |-> iface, attrs |-> attrs,
              type |-> type]
  BY DEF Items, Declared, Item
<1> QED
  BY <1>1 DEF More

(* The checks that do not look at the attributes.                          *)
LEMMA SameChecks ==
    ASSUME Inv, NEW x \in Items(snap), NEW rule, NEW e, NEW ct
    PROVE  /\ CheckNames(More(x), rule, e) = CheckNames(x, rule, e)
           /\ CheckSnapType(More(x), rule, e) = CheckSnapType(x, rule, e)
           /\ CheckOnClassic(More(x), rule, e, ct) = CheckOnClassic(x, rule, e, ct)
BY MoreFields DEF CheckNames, CheckSnapType, CheckOnClassic

LEMMA SameAttributeRules ==
    ASSUME Inv, NEW x \in Items(snap), NEW rule, NEW ct, NEW whence
    PROVE  /\ AttributeRules(More(x), rule, ct, whence)
                = AttributeRules(x, rule, ct, whence)
           /\ AttributeRules(x, rule, ct, whence) \subseteq AttributeKeys \cap DOMAIN rule
BY MoreFields DEF AttributeRules

(* Where no rule is refused at sight, only the attributes it names count.  *)
LEMMA SameAttributes ==
    ASSUME Inv, NEW x \in Items(snap), NEW rule, Named(rule), NEW e, NEW ct,
           NEW whence,
           \/ <<ct, whence>> # <<"installation", "snap">>
           \/ AttributeKeys \cap DOMAIN rule = {}
    PROVE  CheckAttributes(More(x), rule, e, ct, whence)
             = CheckAttributes(x, rule, e, ct, whence)
<1> DEFINE m == More(x)
           R == AttributeRules(x, rule, ct, whence)
<1>1. /\ AttributeRules(m, rule, ct, whence) = R
      /\ R \subseteq AttributeKeys \cap DOMAIN rule
  BY SameAttributeRules
<1>2. Refused(x, rule, ct, whence) = {} /\ Refused(m, rule, ct, whence) = {}
  BY <1>1 DEF Refused
<1>3. \A k \in R : /\ DOMAIN rule[k] \cap DOMAIN m.attrs
                        = DOMAIN rule[k] \cap DOMAIN x.attrs
                   /\ \A a \in DOMAIN rule[k] : a \in DOMAIN m.attrs <=> a \in DOMAIN x.attrs
                   /\ \A a \in DOMAIN rule[k] \cap DOMAIN x.attrs :
                        m.attrs[a] = x.attrs[a]
  BY <1>1, MoreFields DEF Named
<1> HIDE DEF m, R
<1>4. (\E k \in R : \E a \in DOMAIN rule[k] \cap DOMAIN m.attrs :
          rule[k][a] # {} /\ m.attrs[a] \cap Numbers # {})
      = (\E k \in R : \E a \in DOMAIN rule[k] \cap DOMAIN x.attrs :
          rule[k][a] # {} /\ x.attrs[a] \cap Numbers # {})
  BY <1>3
<1>5. (\E k \in R : DOMAIN rule[k] \cap DOMAIN m.attrs # {})
      = (\E k \in R : DOMAIN rule[k] \cap DOMAIN x.attrs # {})
  BY <1>3
<1>6. (\A k \in R : \A a \in DOMAIN rule[k] :
          a \in DOMAIN m.attrs /\ Matches(m.attrs[a], rule[k][a]))
      = (\A k \in R : \A a \in DOMAIN rule[k] :
          a \in DOMAIN x.attrs /\ Matches(x.attrs[a], rule[k][a]))
  BY <1>3
<1>7. AttributeRules(x, rule, ct, whence) \ {} = R
  BY DEF R
<1> QED
  BY <1>1, <1>2, <1>4, <1>5, <1>6, <1>7 DEF CheckAttributes, m

(* Where it may be, an allow rule that names attributes is refused: the    *)
(* check cannot raise any more, and it fails. *)
LEMMA RefusedAttributes ==
    ASSUME Inv, NEW x \in Items(snap), NEW rule, Named(rule)
    PROVE  CheckAttributes(More(x), rule, "allow", "installation", "snap") =
              IF AttributeRules(x, rule, "installation", "snap") = {}
              THEN "skip" ELSE "fail"
<1> DEFINE m == More(x)
           R == AttributeRules(x, rule, "installation", "snap")
<1>1. /\ AttributeRules(m, rule, "installation", "snap") = R
      /\ R \subseteq AttributeKeys \cap DOMAIN rule
  BY SameAttributeRules
<1>2. Unused \in DOMAIN m.attrs
  BY MoreFields
<1>3. Refused(m, rule, "installation", "snap") = R
  BY <1>1, <1>2 DEF Refused, Named
<1> HIDE DEF m, R
<1>4. R \ R = {}
  OBVIOUS
<1>5. CheckAttributes(m, rule, "allow", "installation", "snap")
        = Judge(R # {}, FALSE, "allow")
  BY <1>1, <1>3, <1>4 DEF CheckAttributes
<1> QED
  BY <1>5 DEF Judge, m, R

LEMMA AttributesFailed ==
    ASSUME NEW x, NEW rule, NEW ct, NEW whence,
           CheckAttributes(x, rule, "allow", ct, whence) = "fail"
    PROVE  AttributeRules(x, rule, ct, whence) # {}
BY DEF CheckAttributes, Refused, Judge

(* An allow rule that flags a plug flags it with one more attribute.       *)
LEMMA AllowStillFlags ==
    ASSUME Inv, NEW x \in Items(snap), NEW rule, Named(rule),
           NEW ct, NEW whence,
           CheckRule(x, rule, "allow", ct, whence) = "flag"
    PROVE  CheckRule(More(x), rule, "allow", ct, whence) = "flag"
<1> DEFINE Checks(y) == {CheckNames(y, rule, "allow"),
                         CheckAttributes(y, rule, "allow", ct, whence),
                         CheckSnapType(y, rule, "allow"),
                         CheckOnClassic(y, rule, "allow", ct)} \ {"skip"}
<1>1. More(x).side = x.side
  BY MoreFields
<1>2. CASE "bool" \in DOMAIN rule
  BY <1>1, <1>2 DEF CheckRule
<1>3. CASE "bool" \notin DOMAIN rule
  <2>1. "raise" \notin Checks(x) /\ "fail" \in Checks(x)
    BY <1>3 DEF CheckRule
  <2>2. "raise" \notin Checks(More(x)) /\ "fail" \in Checks(More(x))
    <3>1. CASE <<ct, whence>> # <<"installation", "snap">>
      <4>1. CheckAttributes(More(x), rule, "allow", ct, whence)
              = CheckAttributes(x, rule, "allow", ct, whence)
        BY <3>1, SameAttributes
      <4> QED
        BY <2>1, <4>1, SameChecks
    <3>2. CASE <<ct, whence>> = <<"installation", "snap">>
      <4>1. /\ CheckAttributes(More(x), rule, "allow", ct, whence) # "raise"
            /\ CheckAttributes(x, rule, "allow", ct, whence) = "fail" =>
                  CheckAttributes(More(x), rule, "allow", ct, whence) = "fail"
        BY <3>2, RefusedAttributes, AttributesFailed
      <4> QED
        BY <2>1, <4>1, SameChecks
    <3> QED
      BY <3>1, <3>2
  <2> QED
    BY <1>3, <2>2 DEF CheckRule
<1> QED
  BY <1>2, <1>3

(* A rule that does not look at attributes, or not at their number, makes  *)
(* the same of both. *)
LEMMA SameRule ==
    ASSUME Inv, NEW x \in Items(snap), NEW rule, Named(rule),
           NEW e, NEW ct, NEW whence,
           \/ <<ct, whence>> # <<"installation", "snap">>
           \/ AttributeKeys \cap DOMAIN rule = {}
    PROVE  CheckRule(More(x), rule, e, ct, whence) = CheckRule(x, rule, e, ct, whence)
<1>1. CheckAttributes(More(x), rule, e, ct, whence)
        = CheckAttributes(x, rule, e, ct, whence)
  BY SameAttributes
<1> QED
  BY <1>1, SameChecks, MoreFields DEF CheckRule

(* The walk is determined by what it makes of the alternatives.            *)
LEMMA SameConstraint ==
    ASSUME NEW x, NEW y, NEW entry, WellFormed(entry), NEW e \in Effects,
           NEW ct \in Constraints, NEW dev, NEW whence,
           \A i \in Alternatives(entry, e, ct, dev) :
              CheckRule(y, entry[Key[e][ct]][i], e, ct, whence)
                = CheckRule(x, entry[Key[e][ct]][i], e, ct, whence)
    PROVE  Constraint(y, entry, e, ct, dev, whence)
             = Constraint(x, entry, e, ct, dev, whence)
<1>1. Decisive(y, entry, e, ct, dev, whence) = Decisive(x, entry, e, ct, dev, whence)
  BY DEF Decisive
<1> DEFINE decisive == Decisive(x, entry, e, ct, dev, whence)
<1>2. CASE decisive = {}
  BY <1>1, <1>2 DEF Constraint
<1>3. CASE decisive # {}
  <2>1. Constraint(x, entry, e, ct, dev, whence)
          = CheckRule(x, entry[Key[e][ct]][Least(decisive)], e, ct, whence)
    BY <1>3 DEF Constraint
  <2>2. Constraint(y, entry, e, ct, dev, whence)
          = CheckRule(y, entry[Key[e][ct]][Least(decisive)], e, ct, whence)
    BY <1>1, <1>3 DEF Constraint
  <2>3. /\ decisive \subseteq Alternatives(entry, e, ct, dev)
        /\ Alternatives(entry, e, ct, dev) \subseteq Nat
    BY DEF Decisive, Alternatives, Says, Active, WellFormed
  <2> HIDE DEF decisive
  <2>4. Least(decisive) \in Alternatives(entry, e, ct, dev)
    BY <1>3, <2>3, LeastIsFirst
  <2> QED
    BY <2>1, <2>2, <2>4
<1> QED
  BY <1>2, <1>3

(* No plug or slot is cleared by an attribute no rule foresees.            *)
THEOREM MoreAttributesStillFlagged == Spec => []AddedAttributeStillFlagged
<1>1. Inv => AddedAttributeStillFlagged
  <2> DEFINE byAttribute(x, ct) ==
               \E r \in Rules(Ruling(x, ct), "deny", ct) :
                  AttributeKeys \cap DOMAIN r # {}
  <2> SUFFICES ASSUME Inv, NEW x \in Judged, NEW ct \in Checked,
                      <<x, ct>> \in results,
                      ~(byAttribute(x, ct) /\ ct = "installation")
               PROVE  Judgement(base, decl, device, More(x), ct) = "flag"
    BY DEF AddedAttributeStillFlagged, More
  <2> DEFINE whence == Whence(base, decl, device, x, ct)
             entry  == Entry(base, decl, x, whence)
             Alts(e) == Alternatives(entry, e, ct, device)
             Rule(e, i) == entry[Key[e][ct]][i]
             By(y, e) == Constraint(y, entry, e, ct, device, whence)
  <2>1. x \in Items(snap) /\ Judgement(base, decl, device, x, ct) = "flag"
    BY ReportIsJudgement DEF Judged
  <2>2. WellFormed(entry) /\ ct \in Constraints
    BY <2>1, RulingWellFormed DEF Constraints
  <2>3. /\ Whence(base, decl, device, More(x), ct) = whence
        /\ Entry(base, decl, More(x), whence) = entry
    BY <2>1, MoreFields DEF Whence, SnapHasSay, Entry
  <2>4. /\ Judgement(base, decl, device, x, ct)
             = IF By(x, "deny") = "pass" THEN By(x, "allow") ELSE By(x, "deny")
        /\ Judgement(base, decl, device, More(x), ct)
             = IF By(More(x), "deny") = "pass"
               THEN By(More(x), "allow") ELSE By(More(x), "deny")
    BY <2>3 DEF Judgement
  <2>5. \A i \in Alts("deny") :
           \/ ct # "installation"
           \/ AttributeKeys \cap DOMAIN Rule("deny", i) = {}
    BY DEF Rules, Ruling
  <2> HIDE DEF entry, whence
  <2>6. ASSUME NEW e \in Effects, NEW i \in Alts(e) PROVE Named(Rule(e, i))
    BY <2>2, <2>6 DEF Alternatives, Says, Active, WellFormed, Named
  <2>7. By(More(x), "deny") = By(x, "deny")
    <3>1. \A i \in Alts("deny") :
             CheckRule(More(x), Rule("deny", i), "deny", ct, whence)
               = CheckRule(x, Rule("deny", i), "deny", ct, whence)
      BY <2>1, <2>5, <2>6, SameRule DEF Effects
    <3> QED
      BY <2>2, <3>1, SameConstraint DEF Effects
  <2>8. CASE By(x, "deny") # "pass"
    BY <2>1, <2>4, <2>7, <2>8
  <2>9. CASE By(x, "deny") = "pass"
    <3>1. By(x, "allow") = "flag"
      BY <2>1, <2>4, <2>9
    <3>2. /\ Alts("allow") # {}
          /\ \A i \in Alts("allow") :
                CheckRule(x, Rule("allow", i), "allow", ct, whence) = "flag"
      BY <2>2, <3>1, AllowIsOr
    <3>3. \A i \in Alts("allow") :
             CheckRule(More(x), Rule("allow", i), "allow", ct, whence) = "flag"
      BY <2>1, <2>6, <3>2, AllowStillFlags DEF Effects
    <3>4. Decisive(More(x), entry, "allow", ct, device, whence) = {}
      BY <3>3 DEF Decisive
    <3>5. By(More(x), "allow") = "flag"
      BY <3>2, <3>4 DEF Constraint
    <3> QED
      BY <2>4, <2>7, <2>9, <3>5
  <2> QED
    BY <2>8, <2>9
<1> QED
  BY <1>1, InvHolds, PTL
=============================================================================
