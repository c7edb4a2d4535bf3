---------------------------------- MODULE Lint ----------------------------------
(***************************************************************************)
(* How the apps, hooks, plugs and slots of a snap.yaml are reviewed        *)
(* (reviewtools/sr_lint.py, and the two checks of sr_security.py that read *)
(* plugs).  A module runs its check_ methods in the order of their names;  *)
(* each adds to the module's report, and an exception in one of them loses *)
(* that report.  What is wrong in a file is so often found by one check    *)
(* and assumed away by another.                                            *)
(*                                                                         *)
(* A value of the file is a pair of its type and its content: "str" with a *)
(* string, "list" with a sequence of values, "dict" with a function from   *)
(* keys to values, "bool", "int", or "null".  Only the keys that are in    *)
(* the file are in the domain of yaml.                                     *)
(*                                                                         *)
(* What Python would make of a list or string where the apps, the hooks or *)
(* an entry of theirs are expected is left out: an entry is a dict or      *)
(* null, a top-level plug or slot a string, a dict or a list of other      *)
(* things than attributes, the plugs of an app are a list or a dict, and   *)
(* keys are strings.  So are the aliases that the characters of a string   *)
(* make, and commands with an open quote.                                  *)
(***************************************************************************)
EXTENDS Naturals, Sequences

CONSTANTS
    Yamls,          \* files, as SnapReview.__init__ leaves them
    Names,          \* the names of apps, in the order they have in a file
    BaseSides,      \* base_declaration: side -> the interfaces it declares
    Attributes,     \* interfaces_attribs: <<interface, attribute, side>> -> type
    Required,       \* interfaces_required: [interface, side, has, lacks]
    Conflicting,    \* interfaces_conflicting: side -> pairs of interfaces
    Daemons,        \* the values of daemon
    DaemonOptions,  \* apps_optional_daemon
    CliOptions,     \* apps_optional_cli
    OtherOptions,   \* apps_optional_shared
    HookOptions,    \* hooks_optional
    WellNamed,      \* the names _verify_appname and the pattern of aliases take
    Files,          \* the files of the snap
    Blanks,         \* the strings of white space
    BrowserVetted,  \* sec_browser_support_overrides
    ShadowVetted    \* sec_iface_ref_matches_base_decl_overrides

VARIABLES
    yaml,       \* self.snap_yaml
    turn,       \* the check to run next
    raised,     \* the modules that an exception has ended
    reports     \* per module, the errors and warnings so far

vars == <<yaml, turn, raised, reports>>

Sides == {"plugs", "slots"}
Parts == {"apps", "hooks"}

(* The order of the names; the checks not modelled only look at one value. *)
Turn == [check_apps |-> 1, check_apps_aliases |-> 2, check_apps_before_after |-> 3,
         check_apps_command_chain |-> 4, check_apps_daemon |-> 5,
         check_apps_environment |-> 6, check_apps_invalid_combinations |-> 7,
         check_apps_plugs |-> 8, check_apps_slots |-> 9, check_hooks |-> 10,
         check_hooks_command_chain |-> 11, check_hooks_environment |-> 12,
         check_hooks_plugs |-> 13, check_hooks_slots |-> 14,
         check_plugs |-> 15, check_slots |-> 16,
         check_interface_reference_matches_base_decl |-> 17,
         check_security_plugs_browser_support_with_daemon |-> 18]

FirstOfSecurity == 17
End == 19
Modules == {"lint", "security"}
ModuleOf(n) == IF n < FirstOfSecurity THEN "lint" ELSE "security"

-----------------------------------------------------------------------------
(* Values.                                                                 *)

Type(v)    == v[1]
Content(v) == v[2]
Str(s)     == <<"str", s>>
IsStr(v)   == Type(v) = "str"
IsDict(v)  == Type(v) = "dict"
IsList(v)  == Type(v) = "list"

(* The keys of a dict; nothing else has any. *)
Key(v) == IF IsDict(v) THEN DOMAIN Content(v) ELSE {}

(* isinstance: in Python True is an int as well. *)
IsA(v, type) == Type(v) = type \/ (Type(v) = "bool" /\ type = "int")

(* What "x in v" and a loop find: the items of a list, the keys of a dict. *)
Items(v) == IF IsList(v) THEN {Content(v)[k] : k \in DOMAIN Content(v)}
            ELSE {Str(k) : k \in Key(v)}
Iterable(v) == IsDict(v) \/ IsList(v)

(* What "if v" finds. *)
Truthy(v) == \/ Type(v) = "bool" /\ Content(v)
             \/ Type(v) = "str" /\ Content(v) # ""
             \/ Type(v) = "int" /\ Content(v) # 0
             \/ Iterable(v) /\ Items(v) # {}

(* What the iteration over a top-level key takes: nothing if it is absent. *)
Entries(y, key) == IF key \in DOMAIN y THEN Key(y[key]) ELSE {}
Entry(y, key, name) == Content(y[key])[name]
Field(y, part, name, key) == Content(Entry(y, part, name))[key]
HasField(y, part, name, key) == key \in Key(Entry(y, part, name))

With(y, part, key) == {a \in Entries(y, part) : HasField(y, part, a, key)}

(* _get_check_name joins the value to the name of the check, if it is true: *)
(* a TypeError for what is no string. *)
NameRaises(v) == ~IsStr(v) /\ Truthy(v)

ASSUME LintAssumption ==
    /\ "" \notin Blanks
    /\ DOMAIN BaseSides = Sides
    /\ DOMAIN Conflicting = Sides
    /\ \A y \in Yamls :
           /\ "name" \in DOMAIN y
           /\ \A side \in Sides \cap DOMAIN y : IsDict(y[side])
           /\ "apps" \in DOMAIN y /\ IsDict(y.apps) =>
                  Key(y.apps) \subseteq {Names[n] : n \in DOMAIN Names}

Flag(level, check, where) == {<<level, check, where>>}
If(condition, flags) == IF condition THEN flags ELSE {}

-----------------------------------------------------------------------------
(* Apps and hooks.                                                         *)

(* Most checks loop over the apps, or hooks, and look for a key in each. *)
LoopRaises(y, part) ==
    /\ part \in DOMAIN y
    /\ \/ ~IsDict(y[part])
       \/ \E a \in Key(y[part]) : ~IsDict(Entry(y, part, a))

EntryOptions(part) == IF part = "apps"
                      THEN DaemonOptions \cup CliOptions \cup OtherOptions
                      ELSE HookOptions

(* An entry of _verify_apps_and_hooks. *)
BadEntry(y, part, a) ==
    LET e == Entry(y, part, a)
    IN  IF ~IsDict(e) THEN ~(part = "hooks" /\ Type(e) = "null")
        ELSE (part = "apps" /\ Key(e) = {}) \/ a \notin WellNamed

VerifyAppsAndHooks(y, part, check) ==
    IF part \notin DOMAIN y THEN {}
    ELSE IF ~IsDict(y[part]) THEN Flag("error", check, <<part>>)
    ELSE IF Key(y[part]) = {} THEN Flag("error", check, <<part>>)
    ELSE UNION {
        IF BadEntry(y, part, a) THEN Flag("error", check, <<a>>)
        ELSE IF ~IsDict(Entry(y, part, a)) THEN {}
        ELSE If(part = "apps" /\ ~HasField(y, part, a, "command"), Flag("error", check, <<a>>))
             \cup If(~(Key(Entry(y, part, a)) \subseteq EntryOptions(part)),
                     Flag("warn", check, <<a>>)) : a \in Key(y[part])}

(* check_apps_aliases: an alias taken by an app before, or twice here. *)
Aliases(y, a) == Field(y, "apps", a, "aliases")

(* What is no list is flagged, and then iterated over all the same. *)
AliasesRaise(y) == \E a \in With(y, "apps", "aliases") :
    \/ ~Iterable(Aliases(y, a)) /\ ~IsStr(Aliases(y, a))
    \/ \E alias \in Items(Aliases(y, a)) : ~IsStr(alias)

Earlier(y, key, n) == {k \in 1..(n - 1) : Names[k] \in With(y, "apps", key)}

TakenBefore(y, n, alias) ==
    \E k \in Earlier(y, "aliases", n) : alias \in Items(Aliases(y, Names[k]))

Twice(v) == /\ IsList(v)
            /\ \E i, j \in DOMAIN Content(v) : i # j /\ Content(v)[i] = Content(v)[j]

VerifyAliases(y) == UNION {
    LET v == Aliases(y, Names[n])
    IN  If(\/ ~IsList(v)
           \/ Items(v) = {}
           \/ \E alias \in Items(v) : Content(alias) \notin WellNamed
           \/ Twice(v)
           \/ \E alias \in Items(v) : TakenBefore(y, n, alias),
           Flag("error", "check_apps_aliases", <<Names[n]>>)) :
    n \in {k \in DOMAIN Names : Names[k] \in With(y, "apps", "aliases")}}

(* check_apps_before_after: the apps named exist. *)
BeforeAfterRaises(y) ==
    \E key \in {"after", "before"} : \E a \in With(y, "apps", key) :
        LET v == Field(y, "apps", a, key)
        IN  IsList(v) /\ \E other \in Items(v) : NameRaises(other)

VerifyBeforeAfter(y) == UNION {
    LET v == Field(y, "apps", p[1], p[2])
    IN  If(\/ ~IsList(v)
           \/ Items(v) = {}
           \/ \E other \in Items(v) :
                  ~IsStr(other) \/ Content(other) \notin Key(y.apps),
           Flag("error", "check_apps_before_after", p)) :
    p \in {q \in Entries(y, "apps") \X {"after", "before"} :
              HasField(y, "apps", q[1], q[2])}}

(* shlex.split finds nothing in a blank command; the loop ends at one that *)
(* is no string or empty. *)
ChainRaises(v) == IsList(v) /\ \E k \in DOMAIN Content(v) :
    /\ IsStr(Content(v)[k]) /\ Content(Content(v)[k]) \in Blanks
    /\ \A j \in 1..(k - 1) :
           IsStr(Content(v)[j]) /\ Content(Content(v)[j]) # ""
CommandChainRaises(y, part) ==
    \E a \in With(y, part, "command-chain") :
        ChainRaises(Field(y, part, a, "command-chain"))

(* _verify_apps_hooks_command_chain *)
VerifyCommandChain(y, part, check) == UNION {
    LET v == Field(y, part, a, "command-chain")
    IN  If(\/ ~IsList(v)
           \/ Items(v) = {}
           \/ \E command \in Items(v) : ~IsStr(command) \/ Content(command) \notin Files,
           Flag("error", check, <<a>>)) : a \in With(y, part, "command-chain")}

(* _verify_env flags what is no dict, and then takes it for one; an empty  *)
(* list or string has nothing to look up. *)
EnvRaises(y, part) == \E a \in With(y, part, "environment") :
    LET v == Field(y, part, a, "environment")
    IN  ~IsDict(v) /\ (Truthy(v) \/ ~(IsList(v) \/ IsStr(v)))
VerifyEnv(y, part, check) == UNION {
    LET v == Field(y, part, a, "environment")
    IN  If(~IsDict(v) \/ \E key \in Key(v) : Type(Content(v)[key]) \notin {"str", "int", "bool"},
           Flag("error", check, <<a>>)) : a \in With(y, part, "environment")}

(* _verify_valid_values *)
VerifyDaemon(y) == UNION {
    LET v == Field(y, "apps", a, "daemon")
    IN  If(~IsStr(v) \/ Content(v) \notin Daemons, Flag("error", "check_apps_daemon", <<a>>)) :
    a \in With(y, "apps", "daemon")}

-----------------------------------------------------------------------------
(* Plugs and slots.                                                        *)

Known == BaseSides.plugs \cup BaseSides.slots

(* The value that names the interface of a top-level plug or slot. *)
InterfaceValue(name, spec) ==
    IF IsStr(spec) THEN spec
    ELSE IF "interface" \in Key(spec) THEN Content(spec)["interface"]
    ELSE Str(name)

VerifyAttributes(name, interface, side, spec, check) ==
    If(\/ IsList(spec) /\ Items(spec) # {}
       \/ \E attrib \in Key(spec) \ {"interface"} :
              \/ <<interface, attrib, side>> \notin DOMAIN Attributes
              \/ ~IsA(Content(spec)[attrib], Attributes[<<interface, attrib, side>>]),
       Flag("error", check, <<name, "attributes">>))

Combos(interface, side) == {r \in Required : r.interface = interface /\ r.side = side}

Fits(combo, keys) == combo.has \subseteq keys /\ combo.lacks \cap keys = {}

VerifyRequired(name, interface, side, spec, check) ==
    LET combos == Combos(interface, side)
    IN  If(combos # {} /\ \A c \in combos : ~Fits(c, Key(spec)), Flag("error", check, <<name>>))

(* _verify_conflicting_ifaces *)
VerifyConflicts(side, ifaces, check, where) ==
    If(\E p \in Conflicting[side] : {p[1], p[2]} \subseteq ifaces,
       Flag("error", check, <<where, side, "conflicting">>))

BadInterface(name, v) == v # Str(name) /\ (~IsStr(v) \/ Content(v) = "")

(* The interfaces that _verify_interfaces collects. *)
Collected(y, side) ==
    {Content(InterfaceValue(name, Entry(y, side, name))) : name \in
        {n \in Entries(y, side) :
            LET v == InterfaceValue(n, Entry(y, side, n))
            IN  ~BadInterface(n, v) /\ Content(v) \in Known}}

(* The interface, or an item of a list taken for an attribute, is joined to *)
(* the name of the check before its type is looked at. *)
InterfacesRaise(y, side) == \E name \in Entries(y, side) :
    LET spec == Entry(y, side, name)
        v    == InterfaceValue(name, spec)
    IN  \/ NameRaises(v)
        \/ /\ IsList(spec) /\ name \in Known
           /\ \E item \in Items(spec) : NameRaises(item)

(* A faulty VerifyOne: an interface that is not known is passed over. *)
VerifyOneIfKnown(y, side, name, check) ==
    LET spec == Entry(y, side, name)
        v    == InterfaceValue(name, spec)
    IN  IF BadInterface(name, v) THEN Flag("error", check, <<name>>)
        ELSE IF Content(v) \notin Known \/ IsStr(spec) THEN {}
        ELSE VerifyAttributes(name, Content(v), side, spec, check)
             \cup VerifyRequired(name, Content(v), side, spec, check)

VerifyOne(y, side, name, check) ==
    LET spec == Entry(y, side, name)
        v    == InterfaceValue(name, spec)
    IN  IF BadInterface(name, v) THEN Flag("error", check, <<name>>)
        ELSE IF Content(v) \notin Known THEN Flag("error", check, <<name>>)
        ELSE IF IsStr(spec) THEN {}
        ELSE VerifyAttributes(name, Content(v), side, spec, check)
             \cup VerifyRequired(name, Content(v), side, spec, check)

VerifyInterfaces(y, side, check) ==
    (UNION {VerifyOne(y, side, name, check) : name \in Entries(y, side)})
    \cup VerifyConflicts(side, Collected(y, side), check, side)

-----------------------------------------------------------------------------
(* The references of apps and hooks.                                       *)

(* A reference that check_apps_plugs, and its likes, can follow. *)
Followed(y, side, ref) ==
    IsStr(ref) /\ (Content(ref) \in Known \/ Content(ref) \in Entries(y, side))

(* A faulty ReferredValue: aliases are taken by their names. *)
ReferredByName(y, side, ref) == ref

(* The value taken for its interface: a known interface goes before an     *)
(* alias. *)
ReferredValue(y, side, ref) ==
    IF Content(ref) \in Known THEN ref
    ELSE LET spec == Entry(y, side, Content(ref))
         IN  IF "interface" \in Key(spec) THEN Content(spec)["interface"] ELSE spec

(* A faulty ReferenceRaises: also for a reference to nothing. *)
ReferenceToNothingRaises(y, side, ref) ==
    IsStr(ref) => IF Content(ref) \in Known \cup Entries(y, side)
                  THEN ~IsStr(ReferredValue(y, side, ref)) ELSE TRUE

(* The name of the check, a KeyError for a dict without "interface", and   *)
(* the assert. *)
ReferenceRaises(y, side, ref) ==
    \/ NameRaises(ref)
    \/ Followed(y, side, ref) /\ ~IsStr(ReferredValue(y, side, ref))

(* check_hooks_plugs passes over the hooks without an entry; the others do not. *)
Referring(y, part, side) ==
    IF part = "hooks" /\ side = "plugs"
    THEN {a \in Entries(y, part) : Type(Entry(y, part, a)) # "null"
                                   /\ HasField(y, part, a, side)}
    ELSE With(y, part, side)

ReferencesRaise(y, part, side) ==
    \E a \in Referring(y, part, side) :
        LET v == Field(y, part, a, side)
        IN  IsList(v) /\ \E ref \in Items(v) : ReferenceRaises(y, side, ref)

(* The interfaces of the references in v that can be followed. *)
Ifaces(y, side, v) == {Content(ReferredValue(y, side, ref)) :
                           ref \in {r \in Items(v) : Followed(y, side, r)}}

(* The references in one entry, whose value is v. *)
VerifyEntryReferences(y, side, a, v, check) ==
    IF ~IsList(v) \/ Items(v) = {} THEN Flag("error", check, <<a>>)
    ELSE (UNION {If(~Followed(y, side, ref), Flag("error", check, <<a, ref>>)) :
                 ref \in Items(v)})
         \cup VerifyConflicts(side, Ifaces(y, side, v), check, a)

(* _verify_app_and_hook_interfaces *)
VerifyReferences(y, part, side, check) ==
    UNION {VerifyEntryReferences(y, side, a, Field(y, part, a, side), check) :
           a \in Referring(y, part, side)}

-----------------------------------------------------------------------------
(* check_apps_invalid_combinations                                         *)

(* _uses_interface *)
Uses(y, side, interface) ==
    \/ \E name \in Entries(y, side) :
           LET spec == Entry(y, side, name)
           IN  IF IsStr(spec) THEN Content(spec) = interface
               ELSE /\ InterfaceValue(name, spec) = Str(interface)
                    /\ "interface" \in Key(spec) \/ (IsDict(spec) /\ Key(spec) = {})
    \/ \E a \in With(y, "apps", side) : Str(interface) \in Items(Field(y, "apps", a, side))

IsDbusSlot(y, name) ==
    LET spec == Entry(y, "slots", name)
    IN  IsDict(spec) /\ InterfaceValue(name, spec) = Str("dbus")

Attribute(y, name, attrib) == Content(Entry(y, "slots", name))[attrib]
HasAttribute(y, name, attrib) == attrib \in Key(Entry(y, "slots", name))

(* The dbus slots of an app; ref in ["slots"]. *)
DbusSlots(y, a) == {name \in Entries(y, "slots") :
                        /\ IsDbusSlot(y, name)
                        /\ HasField(y, "apps", a, "slots")
                        /\ Str(name) \in Items(Field(y, "apps", a, "slots"))}

OnBus(y, name, bus) == HasAttribute(y, name, "bus") /\ Attribute(y, name, "bus") = Str(bus)

(* The slot owns the name that the daemon waits for. *)
Owns(y, name, busName) == /\ OnBus(y, name, "system")
                          /\ HasAttribute(y, name, "name")
                          /\ Attribute(y, name, "name") = busName

IsDbusDaemon(y, a) == HasField(y, "apps", a, "daemon")
                      /\ Field(y, "apps", a, "daemon") = Str("dbus")

DaemonNeeded(y, a) == ~HasField(y, "apps", a, "daemon")
                      /\ Key(Entry(y, "apps", a)) \cap DaemonOptions # {}
CliNeeded(y, a) == HasField(y, "apps", a, "daemon")
                   /\ Key(Entry(y, "apps", a)) \cap CliOptions # {}

NoBusName(y, a) == ~HasField(y, "apps", a, "bus-name")
                   \/ ~IsStr(Field(y, "apps", a, "bus-name"))

(* A faulty NeedsSlot: any slot of the snap will do. *)
NeedsSlotOfSnap(y, a) ==
    \/ "slots" \notin DOMAIN y
    \/ ~Uses(y, "slots", "dbus")
    \/ \A name \in {n \in Entries(y, "slots") : IsDbusSlot(y, n)} :
           ~Owns(y, name, Field(y, "apps", a, "bus-name"))

NeedsSlot(y, a) ==
    \/ "slots" \notin DOMAIN y
    \/ ~Uses(y, "slots", "dbus")
    \/ \A name \in DbusSlots(y, a) : ~Owns(y, name, Field(y, "apps", a, "bus-name"))

Mixed(y, a) == \A bus \in {"system", "session"} :
                   \E name \in DbusSlots(y, a) : OnBus(y, name, bus)

Activatable(y, a) == \E name \in DbusSlots(y, a) :
    HasAttribute(y, name, "activatable") /\ Truthy(Attribute(y, name, "activatable"))

(* A faulty SeenActivatable: the flag is reset for each app, but too late. *)
SeenBefore(y, n) == \E k \in Earlier(y, "daemon", n) : Activatable(y, Names[k])

(* has_activatable is not reset from one app to the next. *)
SeenActivatable(y, n) ==
    \E k \in Earlier(y, "daemon", n) \cup {n} : Activatable(y, Names[k])

WarnsActivatable(y) ==
    {n \in DOMAIN Names : /\ Names[n] \in With(y, "apps", "daemon")
                          /\ ~IsDbusDaemon(y, Names[n])
                          /\ SeenActivatable(y, n)}

Invalid == "check_apps_invalid_combinations"

VerifyAppCombinations(y, a) ==
    If(DaemonNeeded(y, a), Flag("error", Invalid, <<a, "daemon_required">>))
    \cup If(CliNeeded(y, a), Flag("error", Invalid, <<a, "cli_required">>))
    \cup If(IsDbusDaemon(y, a) /\ NoBusName(y, a),
            Flag("error", Invalid, <<a, "dbus_bus-name_required">>))
    \cup If(IsDbusDaemon(y, a) /\ ~NoBusName(y, a) /\ NeedsSlot(y, a),
            Flag("error", Invalid, <<a, "dbus_slot_required">>))
    \cup If(Mixed(y, a), Flag("error", Invalid, <<a, "dbus_mixed_slots">>))

VerifyCombinations(y) ==
    (UNION {VerifyAppCombinations(y, a) : a \in Entries(y, "apps")})
    \cup {<<"warn", Invalid, <<Names[n], "dbus_activatable">>>> : n \in WarnsActivatable(y)}

-----------------------------------------------------------------------------
(* The checks of sr_security.                                              *)

(* A top-level name that is an interface, for what has another. *)
IsShadow(y, side, name) ==
    LET spec == Entry(y, side, name)
    IN  /\ IsDict(spec)
        /\ InterfaceValue(name, spec) # Str(name)
        /\ name \in BaseSides.slots
        /\ <<y.name, Content(InterfaceValue(name, spec)), name>> \notin ShadowVetted

(* A faulty VerifyShadows: the slots are not looked at. *)
VerifyPlugShadows(y) ==
    {<<"warn", "check_interface_reference_matches_base_decl", <<"plugs", name>>>> :
        name \in {n \in Entries(y, "plugs") : IsShadow(y, "plugs", n)}}

(* check_interface_reference_matches_base_decl *)
VerifyShadows(y) == UNION {
    {<<"warn", "check_interface_reference_matches_base_decl", <<side, name>>>> :
        name \in {n \in Entries(y, side) : IsShadow(y, side, n)}} : side \in Sides}

(* A faulty IsReference: no alias is followed. *)
IsName(y, ref, interface) == IsStr(ref) /\ Content(ref) = interface

(* _plugref_is_interface: an alias in the abbreviated form is not followed. *)
IsReference(y, ref, interface) ==
    /\ IsStr(ref)
    /\ \/ Content(ref) = interface
       \/ /\ Content(ref) \in Entries(y, "plugs")
          /\ LET spec == Entry(y, "plugs", Content(ref))
             IN  /\ "interface" \in Key(spec)
                 /\ Content(spec)["interface"] = Str(interface)

(* The plugs of an app: all of the snap where no app names any. *)
PlugsOf(y, a) ==
    IF HasField(y, "apps", a, "plugs") THEN Items(Field(y, "apps", a, "plugs"))
    ELSE IF With(y, "apps", "plugs") # {} THEN {}
    ELSE {Str(name) : name \in Entries(y, "plugs")}

VerifyBrowserSupport(y) == UNION {
    If(/\ y.name \notin BrowserVetted
       /\ \E ref \in PlugsOf(y, a) : IsReference(y, ref, "browser-support"),
       Flag("warn", "check_security_plugs_browser_support_with_daemon", <<a>>)) :
    a \in With(y, "apps", "daemon")}

-----------------------------------------------------------------------------
Init == /\ yaml \in Yamls
        /\ turn = 1
        /\ raised = {}
        /\ reports = [m \in Modules |-> {}]

(* What ends a module: nothing else in these checks raises. *)
Raises(y, n) ==
    \/ n = Turn.check_apps_aliases /\ (LoopRaises(y, "apps") \/ AliasesRaise(y))
    \/ n = Turn.check_apps_before_after /\ BeforeAfterRaises(y)
    \/ n = Turn.check_apps_command_chain /\ CommandChainRaises(y, "apps")
    \/ n = Turn.check_apps_environment /\ EnvRaises(y, "apps")
    \/ n = Turn.check_apps_plugs /\ ReferencesRaise(y, "apps", "plugs")
    \/ n = Turn.check_apps_slots /\ ReferencesRaise(y, "apps", "slots")
    \/ n = Turn.check_hooks_command_chain
           /\ (LoopRaises(y, "hooks") \/ CommandChainRaises(y, "hooks"))
    \/ n = Turn.check_hooks_environment /\ EnvRaises(y, "hooks")
    \/ n = Turn.check_hooks_plugs /\ ReferencesRaise(y, "hooks", "plugs")
    \/ n = Turn.check_hooks_slots /\ ReferencesRaise(y, "hooks", "slots")
    \/ n = Turn.check_plugs /\ InterfacesRaise(y, "plugs")
    \/ n = Turn.check_slots /\ InterfacesRaise(y, "slots")
    \/ n = Turn.check_security_plugs_browser_support_with_daemon
           /\ LoopRaises(y, "apps")

(* The driver drops the report of a module that raises, and takes the next. *)
Raise ==
    /\ turn < End
    /\ Raises(yaml, turn)
    /\ raised' = raised \cup {ModuleOf(turn)}
    /\ reports' = [reports EXCEPT ![ModuleOf(turn)] = {}]
    /\ turn' = IF ModuleOf(turn) = "lint" THEN FirstOfSecurity ELSE End
    /\ UNCHANGED yaml

(* One turn of do_checks. *)
Check(name, found) ==
    /\ turn = Turn[name]
    /\ ~Raises(yaml, turn)
    /\ reports' = [reports EXCEPT ![ModuleOf(turn)] = @ \cup found]
    /\ turn' = turn + 1
    /\ UNCHANGED <<yaml, raised>>

CheckApps == Check("check_apps", VerifyAppsAndHooks(yaml, "apps", "check_apps"))
CheckAppsAliases == Check("check_apps_aliases", VerifyAliases(yaml))
CheckAppsBeforeAfter == Check("check_apps_before_after", VerifyBeforeAfter(yaml))
CheckAppsCommandChain == Check("check_apps_command_chain",
    VerifyCommandChain(yaml, "apps", "check_apps_command_chain"))
CheckAppsDaemon == Check("check_apps_daemon", VerifyDaemon(yaml))
CheckAppsEnvironment == Check("check_apps_environment",
    VerifyEnv(yaml, "apps", "check_apps_environment"))
CheckAppsInvalidCombinations == Check(Invalid, VerifyCombinations(yaml))
CheckAppsPlugs == Check("check_apps_plugs",
    VerifyReferences(yaml, "apps", "plugs", "check_apps_plugs"))
CheckAppsSlots == Check("check_apps_slots",
    VerifyReferences(yaml, "apps", "slots", "check_apps_slots"))
CheckHooks == Check("check_hooks", VerifyAppsAndHooks(yaml, "hooks", "check_hooks"))
CheckHooksCommandChain == Check("check_hooks_command_chain",
    VerifyCommandChain(yaml, "hooks", "check_hooks_command_chain"))
CheckHooksEnvironment == Check("check_hooks_environment",
    VerifyEnv(yaml, "hooks", "check_hooks_environment"))
CheckHooksPlugs == Check("check_hooks_plugs",
    VerifyReferences(yaml, "hooks", "plugs", "check_hooks_plugs"))
CheckHooksSlots == Check("check_hooks_slots",
    VerifyReferences(yaml, "hooks", "slots", "check_hooks_slots"))
CheckPlugs == Check("check_plugs", VerifyInterfaces(yaml, "plugs", "check_plugs"))
CheckSlots == Check("check_slots", VerifyInterfaces(yaml, "slots", "check_slots"))
CheckShadows == Check("check_interface_reference_matches_base_decl",
    VerifyShadows(yaml))
CheckBrowserSupport == Check("check_security_plugs_browser_support_with_daemon",
    VerifyBrowserSupport(yaml))

Next ==
    \/ CheckApps
    \/ CheckAppsAliases
    \/ CheckAppsBeforeAfter
    \/ CheckAppsCommandChain
    \/ CheckAppsDaemon
    \/ CheckAppsEnvironment
    \/ CheckAppsInvalidCombinations
    \/ CheckAppsPlugs
    \/ CheckAppsSlots
    \/ CheckHooks
    \/ CheckHooksCommandChain
    \/ CheckHooksEnvironment
    \/ CheckHooksPlugs
    \/ CheckHooksSlots
    \/ CheckPlugs
    \/ CheckSlots
    \/ CheckShadows
    \/ CheckBrowserSupport
    \/ Raise

Spec == Init /\ [][Next]_vars
=============================================================================
