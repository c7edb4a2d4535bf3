----------------------------- MODULE MCDeclaration -----------------------------
(***************************************************************************)
(* Instances of the declaration review: one interface (and one that snapd  *)
(* does not know), two stores and brands, and declarations with one or two *)
(* constraints, each a rule or two alternatives.                           *)
(***************************************************************************)
EXTENDS DeclarationProps, TLC

Empty == [i \in {} |-> <<>>]

Yes == [bool |-> TRUE]
No  == [bool |-> FALSE]

Store(s)   == "on-store" :> {s}
Device(s, b) == Store(s) @@ "on-brand" :> {b}
Named(N)   == "plug-names" :> N
Typed      == "plug-snap-type" :> {"app"}
Classic(v) == "on-classic" :> v
Attr(v)    == "plug-attributes" :> ("path" :> {{v}, {v, "w"}})
Arity      == "slots-per-plug" :> "*"

(* An entry with one constraint, and one with two. *)
One(k, alts) == k :> alts
Two(j, a, k, b) == j :> a @@ k :> b

AllRules ==
    {Yes, No, Store("s1"), Device("s1", "b1"), Named({"ref"}),
     Named({"$INTERFACE"}), Typed, Classic(FALSE), Attr("v"),
     Attr("v") @@ Store("s1"), Attr("u") @@ Typed}

FewRules == {Yes, No, Store("s2"), Attr("v")}

Pairs == {<<r, q>> : r \in FewRules, q \in {Yes, Store("s1"), Attr("u")}}
Lists == {<<r>> : r \in AllRules} \cup Pairs
Few   == {<<r>> : r \in FewRules} \cup {<<No, Attr("v")>>}

Entries ==
    {One(k, l) : k \in {"allow-installation", "deny-installation",
                        "allow-connection", "deny-connection"}, l \in Lists}
    \cup {Two(p[1], l, p[2], m) : l \in Few, m \in Few,
             p \in {<<"allow-installation", "deny-installation">>,
                    <<"allow-installation", "allow-connection">>,
                    <<"allow-connection", "deny-connection">>,
                    <<"deny-installation", "allow-connection">>}}
    \cup {One("allow-auto-connection", <<Yes>>)}

PlugDecl(e) == [plugs |-> "i1" :> e, slots |-> Empty]
SlotDecl(e) == [plugs |-> Empty, slots |-> "i1" :> e]

(* A Boolean entry, a name that raises, a key in the wrong constraint.     *)
OddDecls ==
    {PlugDecl(Yes), PlugDecl(One("allow-installation", <<Arity>>)),
     PlugDecl(One("deny-connection", <<Named({"$OTHER"}), Yes>>))}

(* A gadget with a numbered slot, and rules for it, or for another store. *)
Numbered == "slot-attributes" :> ("number" :> {{"4"}})
NumberDecls == {SlotDecl(One("allow-connection", l)) :
                   l \in {<<Numbered>>, <<Numbered @@ Store("s2"), Yes>>}}

MCSnapDecls == {PlugDecl(e) : e \in Entries} \cup {NoDecl} \cup OddDecls
    \cup NumberDecls
    \cup {SlotDecl(One("deny-connection", <<r>>)) : r \in {Yes, Classic(FALSE)}}

MCBaseDecls ==
    {PlugDecl(Two("allow-installation", <<No>>, "deny-connection", <<Attr("v")>>)),
     PlugDecl(One("allow-installation", <<Typed, Attr("v")>>)),
     SlotDecl(Two("allow-installation", <<"slot-snap-type" :> {"core"}>>,
                  "deny-connection", <<Classic(FALSE)>>)),
     SlotDecl(One("deny-connection", <<"slot-attributes" :> ("path" :> {{"v"}})>>))}

MCDevices == {[store |-> s, brand |-> b] : s \in {"s1", "none"}, b \in {"b1", "none"}}

Plug(ref, attrs) == [side |-> "plugs", ref |-> ref, iface |-> "i1", attrs |-> attrs]
Slot(ref, attrs) == [side |-> "slots", ref |-> ref, iface |-> "i1", attrs |-> attrs]
NoAttrs == [a \in {} |-> {}]
Use(side, ref) == [side |-> side, user |-> "app", ref |-> ref]

MCSnaps ==
    {[type |-> "app", top |-> {Plug("ref", NoAttrs), Plug("i1", "path" :> {"v", "w"})},
      refs |-> {Use("plugs", "ref"), Use("plugs", "i2")}, short |-> {}],
     [type |-> "app", top |-> {Plug("ref", "path" :> {"v"}),
                               Plug("i1", "path" :> {"u"} @@ "mode" :> {"v"})},
      refs |-> {}, short |-> {}],
     [type |-> "app", top |-> {Plug("ref", NoAttrs),
                               [Plug("i1", NoAttrs) EXCEPT !.iface = "i2"]},
      refs |-> {}, short |-> {"ref"}],
     [type |-> "app", top |-> {Slot("i1", "path" :> {"v"})}, refs |-> {Use("plugs", "i1")},
      short |-> {}],
     [type |-> "gadget", top |-> {Slot("a", "number" :> {"4"})}, refs |-> {}, short |-> {}],
     [type |-> "os", top |-> {Slot("ref", NoAttrs)}, refs |-> {}, short |-> {}]}

(* The declarations scoped to a store that is not the device's. *)
ScopedDecls == {PlugDecl(One(k, <<Store("s2")>>)) :
                   k \in {"allow-installation", "allow-connection"}}
=============================================================================
