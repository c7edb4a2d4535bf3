---------------------------- MODULE DeclarationProps ----------------------------
(***************************************************************************)
(* The properties of the declaration review, most of them from the "Review *)
(* rules" comment that heads reviewtools/sr_declaration.py.                *)
(***************************************************************************)
EXTENDS Declaration

CONSTANT Unused     \* an attribute that no rule names

ASSUME UnusedAssumption ==
    \A d \in BaseDecls \cup SnapDecls, side \in Sides :
        \A iface \in DOMAIN d[side] : \A e \in Effects, ct \in Constraints :
            Key[e][ct] \in DOMAIN d[side][iface] =>
                \A i \in DOMAIN d[side][iface][Key[e][ct]] :
                    LET rule == d[side][iface][Key[e][ct]][i] IN
                    \A k \in AttributeKeys \cap DOMAIN rule :
                        Unused \notin DOMAIN rule[k]

NoDecl == [side \in Sides |-> [i \in {} |-> <<>>]]

(* The plugs and slots whose constraints were judged, and by what entry.   *)
Judged == IF pc = "done" THEN {x \in Items(snap) : Known(x)} ELSE {}

Ruling(x, ct) == Entry(base, decl, x, Whence(base, decl, device, x, ct))

Rules(entry, e, ct) ==
    {entry[Key[e][ct]][i] : i \in Alternatives(entry, e, ct, device)}

(* "If the snap declaration has something to say for this constraint type, *)
(* only it is consulted": the result does not depend on the base           *)
(* declaration, whatever the snap declaration says and however it judges.  *)
OnlySnapDeclarationConsulted ==
    \A x \in Judged, ct \in Checked, b \in BaseDecls :
        SnapHasSay(decl, device, x, ct) =>
            (<<x, ct>> \in results
                <=> Judgement(b, decl, device, x, ct) = "flag")

(* "The missing type uses the constraint type's defaults.  The default is  *)
(* allow": an interface that is flagged for two constraints by the base    *)
(* declaration needs only one in the snap declaration to pass. *)
MissingTypeAllowed ==
    \A x \in Judged, ct \in Checked :
        /\ x.iface \in DOMAIN given[x.side]
        /\ Says(given[x.side][x.iface], ct) = {}
        /\ \E c \in Constraints : Says(given[x.side][x.iface], c) # {}
        => <<x, ct>> \notin results

OutOfScope(entry, ct) ==
    \A e \in Says(entry, ct) : Alternatives(entry, e, ct, device) = {}

AsWithoutDeclaration(x, ct) ==
    <<x, ct>> \in results <=> Judgement(base, NoDecl, device, x, ct) = "flag"

(* "If we have no scoped rules, then it is as if the snap decl wasn't      *)
(* specified for this constraint" (_check_side). *)
OutOfScopeIsBase ==
    \A x \in Judged, ct \in Checked :
        /\ x.iface \in DOMAIN given[x.side]
        /\ Says(given[x.side][x.iface], ct) # {}
        /\ OutOfScope(given[x.side][x.iface], ct)
        => AsWithoutDeclaration(x, ct)

(* "If there are no scoped rules or unscoped rules in the snap decl, use   *)
(* the base decl": an interface all of whose rules are scoped to other     *)
(* devices is judged as if it had none (_ensure_snap_declaration_defaults  *)
(* says this of all the types of constraint together). *)
OutOfScopeUsesBase ==
    \A x \in Judged, ct \in Checked :
        /\ x.iface \in DOMAIN given[x.side]
        /\ \A c \in Constraints : OutOfScope(given[x.side][x.iface], c)
        => AsWithoutDeclaration(x, ct)

(* "OR of alternative constraints" (_check_constraints): although the walk *)
(* over the alternatives stops at the first that settles it, what is       *)
(* flagged does not depend on their order: some deny rule flags it, or     *)
(* there are allow rules and none lets it pass. *)
AlternativesAreOr ==
    \A x \in Judged, ct \in Checked :
        LET whence == Whence(base, decl, device, x, ct)
            Flags(e, r) == CheckRule(x, r, e, ct, whence) = "flag"
            denials == Rules(Ruling(x, ct), "deny", ct)
            allows  == Rules(Ruling(x, ct), "allow", ct)
        IN <<x, ct>> \in results <=>
              \/ \E r \in denials : Flags("deny", r)
              \/ allows # {} /\ \A r \in allows : Flags("allow", r)

(* "If a snap adds another attribute at some later point, it is flagged    *)
(* for review" (_check_attributes): no plug or slot is cleared by one more *)
(* attribute.  Left out is an installation that a snap declaration denies  *)
(* by attributes: there the attribute that is not in the rule makes the    *)
(* rule not match. *)
AddedAttributeStillFlagged ==
    \A x \in Judged, ct \in Checked :
        LET more == [x EXCEPT !.attrs = [a \in DOMAIN x.attrs \cup {Unused} |->
                        IF a = Unused THEN {} ELSE x.attrs[a]]]
            byAttribute == \E r \in Rules(Ruling(x, ct), "deny", ct) :
                                AttributeKeys \cap DOMAIN r # {}
        IN /\ <<x, ct>> \in results
           /\ ~(byAttribute /\ ct = "installation")
           => Judgement(base, decl, device, more, ct) = "flag"

(* Plugs of reserved interfaces (personal-files, system-files) whose name  *)
(* no rule can have checked, and that are not in the overrides. *)
Unnamed(x) ==
    LET rules == UNION {Rules(Ruling(x, "installation"), e, "installation") :
                           e \in Effects} IN
    /\ x \in Declared(snap)
    /\ x.side = "plugs"
    /\ x.iface \in Reserved
    /\ <<x.iface, x.ref>> \notin Vetted
    /\ rules # {}
    /\ \A r \in rules : {"bool", "plug-names"} \cap DOMAIN r = {}

(* Such a plug does not pass without a warning, whichever alternative      *)
(* settled its installation, unless it is abbreviated under a name of its  *)
(* own (_check_constraints1, _allowed_iface_reference). *)
ReservedNamesVetted ==
    \A x \in Judged :
        Unnamed(x) /\ (x.ref \in snap.short => x.ref = x.iface)
            => <<x, "reference">> \in results

(* The exceptions of the review (a name "$OTHER", an attribute that is an  *)
(* integer in the snap) are due to a rule for this device: what a          *)
(* declaration has for other stores and brands cannot cost it its report   *)
(* (_get_rules, _check_attrib, _check_names). *)
Offends(r, x) ==
    \/ \E k \in {NamesKey[side] : side \in Sides} \cap DOMAIN r : "$OTHER" \in r[k]
    \/ \E k \in AttributeKeys \cap DOMAIN r :
          \E a \in DOMAIN r[k] \cap DOMAIN x.attrs : x.attrs[a] \cap Numbers # {}

RaisesOnlyInScope ==
    pc = "raised" /\ ~BooleanEntry(given) =>
        \E x \in todo, d \in {base, decl}, side \in Sides :
            /\ x.iface \in DOMAIN d[side]
            /\ \E k \in DOMAIN d[side][x.iface] :
                  \E i \in DOMAIN d[side][x.iface][k] :
                     /\ Scoped(d[side][x.iface][k][i], device)
                     /\ Offends(d[side][x.iface][k][i], x)
=============================================================================
