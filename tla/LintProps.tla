------------------------------- MODULE LintProps -------------------------------
(***************************************************************************)
(* What the reviews of a snap.yaml are to guarantee together.              *)
(***************************************************************************)
EXTENDS Lint

Done == turn = End
Errors(m) == {f \in reports[m] : f[1] = "error"}

(* The lint review has ended, and has found nothing that bars the snap. *)
Passed == Done /\ "lint" \notin raised /\ Errors("lint") = {}

(* The references of the apps and hooks: part, name, side, reference. *)
References(y) == UNION {UNION {UNION {
    {<<part, a, side, ref>> : ref \in Items(Field(y, part, a, side))} :
        a \in With(y, part, side)} : side \in Sides} : part \in Parts}

(* The interface of a reference as the declaration review finds it: a      *)
(* top-level plug or slot goes before the interface of that name. *)
DeclaredValue(y, side, ref) ==
    IF Content(ref) \in Entries(y, side)
    THEN InterfaceValue(Content(ref), Entry(y, side, Content(ref)))
    ELSE ref

(* A reference by a name that an interface has, though it means another. *)
Shadows(y, side, ref) ==
    Content(ref) \in Known /\ DeclaredValue(y, side, ref) # ref

(* The form an entry of the apps or hooks has: the types of its values,    *)
(* and a word in every command. *)
EntryFormed(e) ==
    /\ IsDict(e)
    /\ "environment" \in Key(e) => IsDict(Content(e)["environment"])
    /\ "aliases" \in Key(e) => IsList(Content(e)["aliases"])
    /\ \A key \in Key(e) \cap {"aliases", "plugs", "slots", "after", "before"} :
           \A item \in Items(Content(e)[key]) : IsStr(item)
    /\ "command-chain" \in Key(e) =>
           \A item \in Items(Content(e)["command-chain"]) :
               IsStr(item) => Content(item) \notin Blanks

(* The form a top-level plug or slot has: attributes, and an interface. *)
InterfacesFormed(y) ==
    \A side \in Sides : \A name \in Entries(y, side) :
        LET spec == Entry(y, side, name)
        IN  /\ IsStr(spec) \/ IsDict(spec)
            /\ IsStr(InterfaceValue(name, spec))
            /\ Content(InterfaceValue(name, spec)) \in Known

(* The form a snap.yaml has... *)
WellFormed(y) ==
    /\ \A part \in Parts \cap DOMAIN y :
           IsDict(y[part]) /\ \A a \in Key(y[part]) : EntryFormed(Entry(y, part, a))
    /\ InterfacesFormed(y)

-----------------------------------------------------------------------------
(* What the review keeps. *)
TypeOK ==
    /\ yaml \in Yamls
    /\ turn \in 1..End
    /\ raised \subseteq Modules
    /\ DOMAIN reports = Modules

(* No check ends the review of a well-formed file, whatever earlier checks *)
(* found in it: an exception in one check loses the findings of all.  (A   *)
(* hook without an entry is not well-formed here: check_hooks takes it,    *)
(* check_hooks_command_chain raises on it.) *)
RaisesOnFlaw == raised # {} => ~WellFormed(yaml)

(* In a snap that passes, each plug and slot an app or hook refers to      *)
(* stands for an interface of the base declaration: check_apps_plugs and   *)
(* its likes leave a name of the top level to check_plugs, which runs      *)
(* later. *)
ReferencesResolve == Passed =>
    \A r \in References(yaml) :
        IsStr(r[4]) /\ Content(DeclaredValue(yaml, r[3], r[4])) \in Known

(* Three checks read a reference in three ways: in a snap that passes, and *)
(* of which the security review has nothing to report, what the lint       *)
(* review looks at is what the declaration review judges, unless the       *)
(* alias is abbreviated or has the name of an interface without slots, or  *)
(* is vetted. *)
ReadingsAgree ==
    Passed /\ "security" \notin raised /\ reports["security"] = {} =>
    \A r \in References(yaml) :
        LET value == DeclaredValue(yaml, r[3], r[4])
        IN  \/ Content(ReferredValue(yaml, r[3], r[4])) = Content(value)
            \/ IsStr(Entry(yaml, r[3], Content(r[4])))
            \/ Content(r[4]) \notin BaseSides.slots
            \/ <<yaml.name, Content(value), Content(r[4])>> \in ShadowVetted

(* No app or hook of a snap that passes gets two conflicting interfaces,   *)
(* whether it names them, refers to a plug of the snap, or both, as long   *)
(* as no alias has the name of an interface. *)
NoConflict == Passed =>
    \A r, q \in References(yaml) :
        (/\ <<r[1], r[2], r[3]>> = <<q[1], q[2], q[3]>>
         /\ ~Shadows(yaml, r[3], r[4]) /\ ~Shadows(yaml, q[3], q[4]))
        => <<Content(DeclaredValue(yaml, r[3], r[4])),
             Content(DeclaredValue(yaml, q[3], q[4]))>> \notin Conflicting[r[3]]

(* In a snap that passes, a daemon that is started over D-Bus refers to a  *)
(* slot that owns its name on the system bus, and to none that is on the   *)
(* session bus, where it would not be found. *)
DbusDaemonsServed == Passed =>
    \A a \in Entries(yaml, "apps") : IsDbusDaemon(yaml, a) =>
        /\ \E name \in DbusSlots(yaml, a) :
               Owns(yaml, name, Field(yaml, "apps", a, "bus-name"))
        /\ \A name \in DbusSlots(yaml, a) : ~OnBus(yaml, name, "session")

(* Every daemon that may be activated over D-Bus but is of another kind is *)
(* warned of, whatever the daemons before it are. *)
ActivatableWarned == Done /\ "lint" \notin raised =>
    \A a \in With(yaml, "apps", "daemon") :
        Activatable(yaml, a) /\ ~IsDbusDaemon(yaml, a) =>
            <<"warn", Invalid, <<a, "dbus_activatable">>>> \in reports["lint"]

(* A daemon with browser-support is reported, by that name or through a    *)
(* plug of the snap that is written out, unless the snap is vetted: what   *)
(* the declaration review judges as browser-support, the security review   *)
(* takes for it. *)
BrowserSupportReported == Done /\ "security" \notin raised /\ yaml.name \notin BrowserVetted =>
    \A a \in With(yaml, "apps", "daemon") \cap With(yaml, "apps", "plugs") :
        (\E ref \in Items(Field(yaml, "apps", a, "plugs")) :
            /\ IsStr(ref)
            /\ DeclaredValue(yaml, "plugs", ref) = Str("browser-support")
            /\ \/ Content(ref) \notin Entries(yaml, "plugs")
               \/ ~IsStr(Entry(yaml, "plugs", Content(ref))))
        => <<"warn", "check_security_plugs_browser_support_with_daemon", <<a>>>>
               \in reports["security"]
=============================================================================
