------------------------------ MODULE Declaration ------------------------------
(***************************************************************************)
(* The declaration review (reviewtools/sr_declaration.py): does a plug or  *)
(* slot of a snap need a human review, given snapd's base declaration, the *)
(* snap declaration of the snap and the device scope (--on-store and       *)
(* --on-brand)?                                                            *)
(*                                                                         *)
(* A declaration maps each side, and on it some of the interfaces, to an   *)
(* entry.  An entry maps some of the six constraints ("allow-connection")  *)
(* to a sequence of alternative rules, and a rule maps constraint keys     *)
(* ("on-store", "plug-names") to what they accept.  A Boolean, for a rule  *)
(* or for an entry, is the function with the one key "bool".               *)
(*                                                                         *)
(* An attribute is the set of the strings (or the one Boolean or dict) in  *)
(* its value; a rule has for an attribute a set of alternatives, each the  *)
(* set of the values it accepts: the language of a regular expression.     *)
(* Left out are the alternatives that the review refuses when it comes to  *)
(* them, lists in a list and unknown special values.                       *)
(***************************************************************************)
EXTENDS Naturals

CONSTANTS
    BaseDecls,      \* base declarations of snapd
    SnapDecls,      \* snap declarations
    Devices,        \* records [store, brand]: --on-store and --on-brand
    Snaps,          \* records [type, top, refs, short], see Items, Unvetted
    Numbers,        \* the attribute values that are integers
    Reserved,       \* the interfaces that need a reference check
    Vetted          \* <<interface, reference>> pairs the overrides allow

Sides       == {"plugs", "slots"}
Effects     == {"allow", "deny"}
Checked     == {"installation", "connection"}
Constraints == Checked \cup {"auto-connection"}

(* The constraint of an effect and a type, and the keys of a side. *)
Key == [allow |-> [t \in Constraints |->
                     CASE t = "installation" -> "allow-installation"
                       [] t = "connection" -> "allow-connection"
                       [] OTHER -> "allow-auto-connection"],
        deny  |-> [t \in Constraints |->
                     CASE t = "installation" -> "deny-installation"
                       [] t = "connection" -> "deny-connection"
                       [] OTHER -> "deny-auto-connection"]]

NamesKey == [plugs |-> "plug-names", slots |-> "slot-names"]
TypeKey  == [plugs |-> "plug-snap-type", slots |-> "slot-snap-type"]
AttributeKeys == {"plug-attributes", "slot-attributes"}

ASSUME DeclarationAssumption ==
    \A s \in Snaps : \A i \in s.top \cup s.refs : i.side \in Sides

(* The alternatives of a constraint are a list, or one rule made a list.   *)
ASSUME AlternativesAssumption ==
    \A d \in BaseDecls \cup SnapDecls, side \in Sides :
        \A iface \in DOMAIN d[side] : \A e \in Effects, ct \in Constraints :
            Key[e][ct] \in DOMAIN d[side][iface] =>
                DOMAIN d[side][iface][Key[e][ct]] \subseteq Nat

VARIABLES
    pc,         \* where the review is
    base,       \* self.base_declaration
    given,      \* the snap declaration handed in (history)
    decl,       \* self.snap_declaration
    device,     \* self.on_store and self.on_brand
    snap,       \* self.snap_yaml
    todo,       \* the plugs, slots and references still to verify
    accepted,   \* has the snap declaration been verified without an error?
    results     \* the plugs and slots it flags, and for what

vars == <<pc, base, given, decl, device, snap, todo, accepted, results>>
inputs == <<base, given, device, snap>>

-----------------------------------------------------------------------------
(* The rules in effect.                                                    *)

(* _is_scoped: a rule applies to the device unless it names others. *)
Scoped(rule, dev) ==
    /\ "on-store" \in DOMAIN rule => dev.store \in rule["on-store"]
    /\ "on-brand" \in DOMAIN rule => dev.brand \in rule["on-brand"]

(* A faulty Active: nothing is left out. *)
ActiveAnyway(alts, dev) == DOMAIN alts

(* The alternatives of a list that _get_rules keeps. *)
Active(alts, dev) == {i \in DOMAIN alts : Scoped(alts[i], dev)}

Says(entry, ct) == {e \in Effects : Key[e][ct] \in DOMAIN entry}

(* A faulty InScope: rules scoped to other devices count. *)
InScopeAnyway(entry, ct, dev) == Says(entry, ct) # {}

(* What _get_rules calls scoped: each list there is keeps an alternative. *)
InScope(entry, ct, dev) ==
    /\ Says(entry, ct) # {}
    /\ \A e \in Says(entry, ct) : Active(entry[Key[e][ct]], dev) # {}

SnapHasSay(d, dev, x, ct) ==
    /\ x.iface \in DOMAIN d[x.side]
    /\ InScope(d[x.side][x.iface], ct, dev)

(* _get_decl and _check_side: the snap declaration if it has a say, else   *)
(* the base declaration, else the slots of the base declaration. *)
Whence(b, d, dev, x, ct) ==
    IF SnapHasSay(d, dev, x, ct)           THEN "snap"
    ELSE IF x.iface \in DOMAIN b[x.side]   THEN "base"
    ELSE IF x.iface \in DOMAIN b["slots"]  THEN "fallback"
    ELSE "none"

Entry(b, d, x, whence) ==
    CASE whence = "snap"     -> d[x.side][x.iface]
      [] whence = "base"     -> b[x.side][x.iface]
      [] whence = "fallback" -> b["slots"][x.iface]
      [] OTHER               -> [k \in {} |-> <<>>]

-----------------------------------------------------------------------------
(* One rule.  A check is skipped, passes, fails or raises.                 *)

Judge(checked, matched, e) ==
    IF ~checked THEN "skip"
    ELSE IF matched = (e = "deny") THEN "fail" ELSE "ok"

(* _check_names: a regular expression, or $INTERFACE, fits the reference. *)
CheckNames(x, rule, e) ==
    LET k == NamesKey[x.side] IN
    IF k \in DOMAIN rule /\ "$OTHER" \in rule[k] THEN "raise"
    ELSE Judge(k \in DOMAIN rule,
               \/ x.ref \in rule[k]
               \/ x.ref = x.iface /\ "$INTERFACE" \in rule[k],
               e)

(* The attributes of a rule that _check_attributes looks at... *)
AttributeRules(x, rule, ct, whence) ==
    {k \in AttributeKeys \cap DOMAIN rule :
        /\ DOMAIN rule[k] # {}
        /\ ~ /\ <<x.side, ct>> = <<"plugs", "connection">>
             /\ <<k, whence>> = <<"slot-attributes", "fallback">>}

(* ...and those it refuses at sight, for an installation and a snap        *)
(* declaration: the snap has no attribute, or one the rule does not name. *)
Refused(x, rule, ct, whence) ==
    {k \in AttributeRules(x, rule, ct, whence) :
        /\ <<ct, whence>> = <<"installation", "snap">>
        /\ DOMAIN x.attrs = {} \/ ~(DOMAIN x.attrs \subseteq DOMAIN rule[k])}

(* _check_attrib: all of the value, by one of the alternatives. *)
Matches(value, patterns) == \E a \in patterns : value \subseteq a

(* A faulty CheckAttributes: a rule refused at sight is not a check made.  *)
ForgetsRefused(x, rule, e, ct, whence) ==
    LET compared == AttributeRules(x, rule, ct, whence)
                        \ Refused(x, rule, ct, whence)
        Common(k) == DOMAIN rule[k] \cap DOMAIN x.attrs
    IN Judge(\E k \in compared : Common(k) # {},
             \A k \in compared : \A a \in DOMAIN rule[k] :
                 a \in DOMAIN x.attrs /\ Matches(x.attrs[a], rule[k][a]),
             e)

(* _check_attributes: every attribute the rule names has to match.         *)
CheckAttributes(x, rule, e, ct, whence) ==
    LET refused  == Refused(x, rule, ct, whence)
        compared == AttributeRules(x, rule, ct, whence) \ refused
        Common(k) == DOMAIN rule[k] \cap DOMAIN x.attrs
    IN
    IF \E k \in compared : \E a \in Common(k) :
          rule[k][a] # {} /\ x.attrs[a] \cap Numbers # {}
    THEN "raise"
    ELSE Judge(refused # {} \/ \E k \in compared : Common(k) # {},
               /\ compared # {}
               /\ \A k \in compared : \A a \in DOMAIN rule[k] :
                     a \in DOMAIN x.attrs /\ Matches(x.attrs[a], rule[k][a]),
               e)

CheckSnapType(x, rule, e) ==
    LET k == TypeKey[x.side] IN
    Judge(k \in DOMAIN rule, x.type \in rule[k], e)

(* _check_on_classic: an installation constraint fails at once, one on a   *)
(* connection for slots that are blocked on all-snaps systems. *)
CheckOnClassic(x, rule, e, ct) ==
    IF x.type # "app" \/ "on-classic" \notin DOMAIN rule THEN "skip"
    ELSE IF \/ ct = "installation"
            \/ x.side = "slots" /\ rule["on-classic"] = (e = "allow")
         THEN "fail" ELSE "ok"

(* _check_constraints1, with what it returns: does this rule flag x? *)
CheckRule(x, rule, e, ct, whence) ==
    LET checks == {CheckNames(x, rule, e),
                   CheckAttributes(x, rule, e, ct, whence),
                   CheckSnapType(x, rule, e),
                   CheckOnClassic(x, rule, e, ct)} \ {"skip"}
        boolean == "bool" \in DOMAIN rule
        flagged ==
            IF boolean
            THEN /\ rule["bool"] <=> e = "deny"
                 /\ <<x.side, ct, whence>> # <<"plugs", "connection", "fallback">>
            ELSE \/ e = "allow" /\ "fail" \in checks
                 \/ e = "deny" /\ checks = {"fail"}
                 \/ e = "deny" /\ checks = {} /\ whence = "snap"
    IN IF ~boolean /\ "raise" \in checks THEN "raise"
       ELSE IF flagged THEN "flag" ELSE "pass"

-----------------------------------------------------------------------------
(* The alternatives of a constraint, and the two constraints of a type.    *)

Least(S) == CHOOSE i \in S : \A j \in S : i <= j

Alternatives(entry, e, ct, dev) ==
    IF e \in Says(entry, ct) THEN Active(entry[Key[e][ct]], dev) ELSE {}

(* The alternatives that settle the constraint: an allow rule that passes, *)
(* a deny rule that flags, and any that raises. *)
Decisive(x, entry, e, ct, dev, whence) ==
    {i \in Alternatives(entry, e, ct, dev) :
        CheckRule(x, entry[Key[e][ct]][i], e, ct, whence)
            # (IF e = "allow" THEN "flag" ELSE "pass")}

(* A faulty Constraint: every allow rule has to pass, as if AND. *)
EveryAlternative(x, entry, e, ct, dev, whence) ==
    LET outcomes == {CheckRule(x, entry[Key[e][ct]][i], e, ct, whence) :
                        i \in Alternatives(entry, e, ct, dev)}
    IN IF "raise" \in outcomes THEN "raise"
       ELSE IF "flag" \in outcomes THEN "flag" ELSE "pass"

(* _check_constraints: the first decisive alternative has the last word.   *)
Constraint(x, entry, e, ct, dev, whence) ==
    LET decisive == Decisive(x, entry, e, ct, dev, whence) IN
    IF decisive # {}
    THEN CheckRule(x, entry[Key[e][ct]][Least(decisive)], e, ct, whence)
    ELSE IF e = "allow" /\ Alternatives(entry, e, ct, dev) # {}
         THEN "flag" ELSE "pass"

(* A faulty Judgement: what the snap declaration allows is put to the base *)
(* declaration as well. *)
MergesBase(b, d, dev, x, ct) ==
    LET none == [plugs |-> [i \in {} |-> <<>>], slots |-> [i \in {} |-> <<>>]]
        By(decls) ==
            LET whence == Whence(b, decls, dev, x, ct)
                entry  == Entry(b, decls, x, whence)
                denied == Constraint(x, entry, "deny", ct, dev, whence)
            IN IF denied = "pass"
               THEN Constraint(x, entry, "allow", ct, dev, whence) ELSE denied
    IN IF By(d) = "pass" THEN By(none) ELSE By(d)

(* _check_side with _check_rule: what the review makes of x, for an        *)
(* installation or a connection. *)
Judgement(b, d, dev, x, ct) ==
    LET whence == Whence(b, d, dev, x, ct)
        entry  == Entry(b, d, x, whence)
        denied == Constraint(x, entry, "deny", ct, dev, whence)
    IN IF denied = "pass"
       THEN Constraint(x, entry, "allow", ct, dev, whence) ELSE denied

(* The alternatives _check_constraints gets to look at. *)
Reached(x, entry, e, ct, dev, whence) ==
    {i \in Alternatives(entry, e, ct, dev) :
        \A j \in Decisive(x, entry, e, ct, dev, whence) : i <= j}

(* A faulty NameUnchecked: the deny rules settle it. *)
NameUndenied(b, d, dev, x) ==
    LET whence == Whence(b, d, dev, x, "installation")
        entry  == Entry(b, d, x, whence)
    IN /\ x.side = "plugs"
       /\ \E i \in Reached(x, entry, "deny", "installation", dev, whence) :
             {"bool", "plug-names"}
                 \cap DOMAIN entry["deny-installation"][i] = {}

(* Does some rule looked at for the installation of plug x leave its name  *)
(* unchecked?  Then _check_constraints1 falls back on the overrides. *)
NameUnchecked(b, d, dev, x) ==
    LET whence == Whence(b, d, dev, x, "installation")
        entry  == Entry(b, d, x, whence)
        Unnamed(e) ==
            \E i \in Reached(x, entry, e, "installation", dev, whence) :
                {"bool", "plug-names"}
                    \cap DOMAIN entry[Key[e]["installation"]][i] = {}
    IN /\ x.side = "plugs"
       /\ \/ Unnamed("deny")
          \/ /\ Constraint(x, entry, "deny", "installation", dev, whence) = "pass"
             /\ Unnamed("allow")

-----------------------------------------------------------------------------
(* The review.                                                             *)

(* _ensure_snap_declaration_defaults: an entry that speaks of one type of  *)
(* constraint allows the types it does not speak of. *)
WithDefaults(entry) ==
    LET missing == {ct \in Constraints : Says(entry, ct) = {}} IN
    IF missing = Constraints THEN entry
    ELSE [k \in DOMAIN entry \cup {Key["allow"][ct] : ct \in missing} |->
            IF k \in DOMAIN entry THEN entry[k] ELSE <<[bool |-> TRUE]>>]

(* The constraint keys _verify_declaration knows, of those modelled. *)
KnownKeys(side, e, ct) ==
    {"bool", "on-store", "on-brand", "on-classic", NamesKey[side]} \cup
    IF ct = "installation"
    THEN {TypeKey[side],
          IF side = "plugs" THEN "plug-attributes" ELSE "slot-attributes"}
    ELSE AttributeKeys \cup {NamesKey[s] : s \in Sides}
             \cup {TypeKey[s] : s \in Sides \ {side}}
             \cup {k \in {"slots-per-plug", "plugs-per-slot"} : e = "allow"}

Accepted(d) ==
    \A side \in Sides : \A iface \in DOMAIN d[side] : \A ct \in Constraints :
        \A e \in Says(d[side][iface], ct) :
            LET alts == d[side][iface][Key[e][ct]] IN
            \A i \in DOMAIN alts : DOMAIN alts[i] \subseteq KnownKeys(side, e, ct)

Item(snp, side, ref, iface, attrs) ==
    [side |-> side, ref |-> ref, iface |-> iface, attrs |-> attrs,
     type |-> IF snp.type = "os" THEN "core" ELSE snp.type]

(* The plugs and slots the snap declares... *)
Declared(snp) == {Item(snp, t.side, t.ref, t.iface, t.attrs) : t \in snp.top}

(* ...and all that _verify_iface looks at: an app or a hook may also name  *)
(* an interface, and is then itself the reference. *)
Items(snp) ==
    Declared(snp) \cup
    {Item(snp, r.side, r.user, r.ref, [a \in {} |-> {}]) :
        r \in {q \in snp.refs :
                 \A t \in snp.top : <<t.side, t.ref>> # <<q.side, q.ref>>}}

Locations == {"verify", "defaults", "items", "done", "raised"}

Init ==
    /\ pc = "verify"
    /\ base \in BaseDecls
    /\ given \in SnapDecls
    /\ device \in Devices
    /\ snap \in Snaps
    /\ decl = given
    /\ todo = Items(snap)
    /\ accepted = FALSE
    /\ results = {}

(* _verify_declaration reports what is malformed, and the review goes on.  *)
Verify ==
    /\ pc = "verify"
    /\ accepted' = Accepted(decl)
    /\ pc' = "defaults"
    /\ UNCHANGED <<inputs, decl, todo, results>>

BooleanEntry(d) ==
    \E side \in Sides : \E iface \in DOMAIN d[side] : "bool" \in DOMAIN d[side][iface]

EnsureDefaults ==
    /\ pc = "defaults"
    /\ ~BooleanEntry(decl)
    /\ decl' = [side \in Sides |->
                  [i \in DOMAIN decl[side] |-> WithDefaults(decl[side][i])]]
    /\ pc' = "items"
    /\ UNCHANGED <<inputs, todo, accepted, results>>

(* "key in True" is a TypeError. *)
DefaultsRaise ==
    /\ pc = "defaults"
    /\ BooleanEntry(decl)
    /\ pc' = "raised"
    /\ UNCHANGED <<inputs, decl, todo, accepted, results>>

Known(x) == x.iface \in DOMAIN base["plugs"] \cup DOMAIN base["slots"]

(* _verify_iface of an interface snapd does not know. *)
RejectItem(x) ==
    /\ pc = "items"
    /\ x \in todo
    /\ ~Known(x)
    /\ results' = results \cup {<<x, "unknown">>}
    /\ todo' = todo \ {x}
    /\ UNCHANGED <<inputs, pc, decl, accepted>>

(* The plugs _allowed_iface_reference reports.  It looks for the interface *)
(* in the entry of a plug, and so not at the plugs in snap.short, whose    *)
(* entry is but the name of the interface ("foo: personal-files"). *)
Unvetted(iface) ==
    {y \in Declared(snap) :
        /\ y.side = "plugs"
        /\ y.ref = iface \/ (y.iface = iface /\ y.ref \notin snap.short)
        /\ <<iface, y.ref>> \notin Vetted}

(* _verify_iface: the installation and the connection of x are judged.     *)
VerifyItem(x) ==
    /\ pc = "items"
    /\ x \in todo
    /\ Known(x)
    /\ \A ct \in Checked : Judgement(base, decl, device, x, ct) # "raise"
    /\ results' = results
         \cup {<<x, ct>> : ct \in {c \in Checked :
                    Judgement(base, decl, device, x, c) = "flag"}}
         \cup {<<y, "reference">> :
                 y \in {z \in Unvetted(x.iface) :
                          /\ x.iface \in Reserved
                          /\ NameUnchecked(base, decl, device, x)}}
    /\ todo' = todo \ {x}
    /\ UNCHANGED <<inputs, pc, decl, accepted>>

(* An exception ends the review of the declaration, and its report.        *)
ItemRaises(x) ==
    /\ pc = "items"
    /\ x \in todo
    /\ Known(x)
    /\ \E ct \in Checked : Judgement(base, decl, device, x, ct) = "raise"
    /\ pc' = "raised"
    /\ UNCHANGED <<inputs, decl, todo, accepted, results>>

Finish ==
    /\ pc = "items"
    /\ todo = {}
    /\ pc' = "done"
    /\ UNCHANGED <<inputs, decl, todo, accepted, results>>

Next ==
    \/ Verify \/ EnsureDefaults \/ DefaultsRaise \/ Finish
    \/ \E x \in todo : RejectItem(x) \/ VerifyItem(x) \/ ItemRaises(x)

Spec == Init /\ [][Next]_vars

TypeOK ==
    /\ pc \in Locations
    /\ base \in BaseDecls
    /\ given \in SnapDecls
    /\ device \in Devices
    /\ snap \in Snaps
    /\ todo \subseteq Items(snap)
    /\ accepted \in BOOLEAN
    /\ results \subseteq Items(snap) \X (Checked \cup {"unknown", "reference"})
=============================================================================
