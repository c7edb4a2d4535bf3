------------------------------- MODULE LintProofs -------------------------------
(***************************************************************************)
(* The reviews of a snap.yaml, for all files, interfaces and attributes.   *)
(*                                                                         *)
(* The invariant says that whatever a check finds in the file is in the    *)
(* report of its module from then on, unless an exception ends the module. *)
(* What passes is therefore what none of the checks finds anything in, and *)
(* the properties follow from what the checks compute.                     *)
(***************************************************************************)
EXTENDS LintProps, TLAPS

(* What the check of a turn finds, for the checks the properties rest on.  *)
Found(y, n) ==
    CASE n = 7  -> VerifyCombinations(y)
      [] n = 8  -> VerifyReferences(y, "apps", "plugs", "check_apps_plugs")
      [] n = 9  -> VerifyReferences(y, "apps", "slots", "check_apps_slots")
      [] n = 13 -> VerifyReferences(y, "hooks", "plugs", "check_hooks_plugs")
      [] n = 14 -> VerifyReferences(y, "hooks", "slots", "check_hooks_slots")
      [] n = 15 -> VerifyInterfaces(y, "plugs", "check_plugs")
      [] n = 16 -> VerifyInterfaces(y, "slots", "check_slots")
      [] n = 17 -> VerifyShadows(y)
      [] n = 18 -> VerifyBrowserSupport(y)
      [] OTHER  -> {}

(* Nothing that was found is lost but with its module. *)
Kept == \A n \in 1..(turn - 1) :
            ModuleOf(n) \notin raised => Found(yaml, n) \subseteq reports[ModuleOf(n)]

IInv == TypeOK /\ Kept /\ RaisesOnFlaw

(* A turn of do_checks, as far as the invariant tells. *)
Step == /\ turn \in 1..(End - 1)
        /\ turn' = turn + 1
        /\ UNCHANGED <<yaml, raised>>
        /\ DOMAIN reports' = Modules
        /\ \A m \in Modules : reports[m] \subseteq reports'[m]
        /\ Found(yaml, turn) \subseteq reports'[ModuleOf(turn)]

LEMMA ModuleOfTurn == \A n : ModuleOf(n) \in Modules
    BY DEF ModuleOf, Modules

(* What an entry of a well-formed file has under a key. *)
LEMMA FieldFormed ==
    ASSUME NEW y, WellFormed(y), NEW part \in Parts, NEW key,
           NEW a \in With(y, part, key)
    PROVE  LET v == Field(y, part, a, key)
           IN  /\ key = "environment" => IsDict(v)
               /\ key = "aliases" => IsList(v)
               /\ key \in {"aliases", "plugs", "slots", "after", "before"} =>
                      \A item \in Items(v) : IsStr(item)
               /\ key = "command-chain" => \A item \in Items(v) :
                      IsStr(item) => Content(item) \notin Blanks
    <1>1. /\ part \in DOMAIN y
          /\ a \in Key(y[part])
          /\ key \in Key(Entry(y, part, a))
        BY DEF With, Entries, HasField
    <1>2. EntryFormed(Entry(y, part, a))
        BY <1>1 DEF WellFormed
    <1>3. Field(y, part, a, key) = Content(Entry(y, part, a))[key]
        BY DEF Field
    <1> QED BY <1>1, <1>2, <1>3 DEF EntryFormed

(* A well-formed file makes no check raise. *)
LEMMA WellFormedRaisesNot ==
    ASSUME NEW y, WellFormed(y), NEW n PROVE ~Raises(y, n)
    <1>1. ASSUME NEW part \in Parts PROVE ~LoopRaises(y, part)
        BY <1>1 DEF WellFormed, EntryFormed, LoopRaises
    <1>2. ~AliasesRaise(y)
        BY FieldFormed DEF AliasesRaise, Aliases, Iterable, Parts
    <1>3. ~BeforeAfterRaises(y)
        BY FieldFormed DEF BeforeAfterRaises, NameRaises, Parts
    <1>4. ASSUME NEW part \in Parts PROVE ~CommandChainRaises(y, part)
        <2> SUFFICES ASSUME NEW a \in With(y, part, "command-chain"),
                            ChainRaises(Field(y, part, a, "command-chain"))
                     PROVE  FALSE
            BY DEF CommandChainRaises
        <2> DEFINE v == Field(y, part, a, "command-chain")
        <2>1. PICK k \in DOMAIN Content(v) :
                  IsStr(Content(v)[k]) /\ Content(Content(v)[k]) \in Blanks
            BY DEF ChainRaises
        <2>2. Content(v)[k] \in Items(v)
            BY DEF ChainRaises, Items
        <2> QED BY <1>4, <2>1, <2>2, FieldFormed
    <1>5. ASSUME NEW part \in Parts PROVE ~EnvRaises(y, part)
        BY <1>5, FieldFormed DEF EnvRaises
    <1>6. ASSUME NEW side \in Sides, NEW name \in Entries(y, side)
          PROVE  LET spec == Entry(y, side, name)
                 IN  /\ IsStr(spec) \/ IsDict(spec)
                     /\ IsStr(InterfaceValue(name, spec))
                     /\ Content(InterfaceValue(name, spec)) \in Known
        BY <1>6 DEF WellFormed, InterfacesFormed
    <1>7. ASSUME NEW side \in Sides PROVE ~InterfacesRaise(y, side)
        <2>1. \A name \in Entries(y, side) :
                  /\ ~NameRaises(InterfaceValue(name, Entry(y, side, name)))
                  /\ ~IsList(Entry(y, side, name))
            BY <1>6, <1>7 DEF NameRaises, IsStr, IsDict, IsList
        <2> QED BY <2>1 DEF InterfacesRaise
    <1>8. ASSUME NEW side \in Sides, NEW ref, IsStr(ref)
          PROVE  ~ReferenceRaises(y, side, ref)
        <2> USE DEF IsStr, IsDict
        <2> SUFFICES ASSUME Followed(y, side, ref)
                     PROVE  IsStr(ReferredValue(y, side, ref))
            BY <1>8 DEF ReferenceRaises, NameRaises
        <2>1. CASE Content(ref) \in Known
            BY <2>1 DEF ReferredValue, Followed
        <2>2. CASE Content(ref) \notin Known
            <3> DEFINE name == Content(ref)
                       spec == Entry(y, side, name)
            <3>1. name \in Entries(y, side)
                BY <2>2 DEF Followed
            <3>2. /\ IsStr(spec) \/ IsDict(spec)
                  /\ IsStr(InterfaceValue(name, spec))
                  /\ Content(InterfaceValue(name, spec)) \in Known
                BY <1>6, <1>8, <3>1
            <3>3. ReferredValue(y, side, ref)
                  = IF "interface" \in Key(spec) THEN Content(spec)["interface"] ELSE spec
                BY <2>2 DEF ReferredValue
            <3>4. CASE IsStr(spec)
                BY <3>3, <3>4 DEF Key
            <3>5. CASE ~IsStr(spec)
                BY <3>2, <3>3, <3>5, <2>2 DEF InterfaceValue, Str, Content
            <3> QED BY <3>4, <3>5
        <2> QED BY <2>1, <2>2
    <1>9. ASSUME NEW side \in Sides, NEW part \in Parts
          PROVE  ~ReferencesRaise(y, part, side)
        <2>1. Referring(y, part, side) \subseteq With(y, part, side)
            BY DEF Referring, With
        <2>2. \A a \in Referring(y, part, side) :
                  \A ref \in Items(Field(y, part, a, side)) : IsStr(ref)
            BY <1>9, <2>1, FieldFormed DEF Sides
        <2> QED BY <1>8, <1>9, <2>2 DEF ReferencesRaise
    <1> QED
        BY <1>1, <1>2, <1>3, <1>4, <1>5, <1>7, <1>9 DEF Raises, Parts, Sides

LEMMA CheckIsStep ==
    ASSUME TypeOK, NEW name \in DOMAIN Turn, NEW found, Check(name, found),
           Found(yaml, Turn[name]) \subseteq found
    PROVE  Step
    <1>1. Turn[name] \in 1..(End - 1)
        BY DEF Turn, End
    <1>2. ModuleOf(turn) \in Modules
        BY ModuleOfTurn
    <1> QED BY <1>1, <1>2 DEF Check, Step, TypeOK

LEMMA NextIsStep ==
    ASSUME TypeOK, Next PROVE Step \/ Raise
    <1>1. ASSUME NEW name \in DOMAIN Turn, NEW found, Check(name, found),
                 Found(yaml, Turn[name]) \subseteq found
          PROVE  Step
        BY <1>1, CheckIsStep
    <1>2. CASE CheckApps
        BY <1>1, <1>2 DEF CheckApps, Found, Turn
    <1>3. CASE CheckAppsAliases
        BY <1>1, <1>3 DEF CheckAppsAliases, Found, Turn
    <1>4. CASE CheckAppsBeforeAfter
        BY <1>1, <1>4 DEF CheckAppsBeforeAfter, Found, Turn
    <1>5. CASE CheckAppsCommandChain
        BY <1>1, <1>5 DEF CheckAppsCommandChain, Found, Turn
    <1>6. CASE CheckAppsDaemon
        BY <1>1, <1>6 DEF CheckAppsDaemon, Found, Turn
    <1>7. CASE CheckAppsEnvironment
        BY <1>1, <1>7 DEF CheckAppsEnvironment, Found, Turn
    <1>8. CASE CheckAppsInvalidCombinations
        BY <1>1, <1>8 DEF CheckAppsInvalidCombinations, Invalid, Found, Turn
    <1>9. CASE CheckAppsPlugs
        BY <1>1, <1>9 DEF CheckAppsPlugs, Found, Turn
    <1>10. CASE CheckAppsSlots
        BY <1>1, <1>10 DEF CheckAppsSlots, Found, Turn
    <1>11. CASE CheckHooks
        BY <1>1, <1>11 DEF CheckHooks, Found, Turn
    <1>12. CASE CheckHooksCommandChain
        BY <1>1, <1>12 DEF CheckHooksCommandChain, Found, Turn
    <1>13. CASE CheckHooksEnvironment
        BY <1>1, <1>13 DEF CheckHooksEnvironment, Found, Turn
    <1>14. CASE CheckHooksPlugs
        BY <1>1, <1>14 DEF CheckHooksPlugs, Found, Turn
    <1>15. CASE CheckHooksSlots
        BY <1>1, <1>15 DEF CheckHooksSlots, Found, Turn
    <1>16. CASE CheckPlugs
        BY <1>1, <1>16 DEF CheckPlugs, Found, Turn
    <1>17. CASE CheckSlots
        BY <1>1, <1>17 DEF CheckSlots, Found, Turn
    <1>18. CASE CheckShadows
        BY <1>1, <1>18 DEF CheckShadows, Found, Turn
    <1>19. CASE CheckBrowserSupport
        BY <1>1, <1>19 DEF CheckBrowserSupport, Found, Turn
    <1> QED
        BY <1>2, <1>3, <1>4, <1>5, <1>6, <1>7, <1>8, <1>9, <1>10, <1>11, <1>12, <1>13,
           <1>14, <1>15, <1>16, <1>17, <1>18, <1>19 DEF Next

LEMMA StepPreserves == ASSUME IInv, Step PROVE IInv'
    <1>1. TypeOK'
        BY DEF IInv, TypeOK, Step, End
    <1>2. Kept'
        <2> SUFFICES ASSUME NEW n \in 1..turn, ModuleOf(n) \notin raised
                     PROVE  Found(yaml, n) \subseteq reports'[ModuleOf(n)]
            BY DEF Kept, Step
        <2>1. CASE n = turn
            BY <2>1 DEF Step
        <2>2. CASE n # turn
            <3>1. n \in 1..(turn - 1)
                BY <2>2 DEF Step, End
            <3>2. Found(yaml, n) \subseteq reports[ModuleOf(n)]
                BY <3>1 DEF IInv, Kept
            <3>3. reports[ModuleOf(n)] \subseteq reports'[ModuleOf(n)]
                BY ModuleOfTurn DEF Step
            <3> QED BY <3>2, <3>3
        <2> QED BY <2>1, <2>2
    <1>3. RaisesOnFlaw'
        BY DEF IInv, RaisesOnFlaw, WellFormed, InterfacesFormed, Step
    <1> QED BY <1>1, <1>2, <1>3 DEF IInv

LEMMA RaisePreserves == ASSUME IInv, Raise PROVE IInv'
    <1>1. TypeOK'
        BY ModuleOfTurn DEF IInv, TypeOK, Raise, End, FirstOfSecurity
    <1>2. Kept'
        <2> SUFFICES ASSUME NEW n \in 1..(turn' - 1), ModuleOf(n) \notin raised'
                     PROVE  Found(yaml, n) \subseteq reports'[ModuleOf(n)]
            BY DEF Kept, Raise
        <2>1. ModuleOf(n) # ModuleOf(turn) /\ ModuleOf(n) \notin raised
            BY DEF Raise
        <2>2. n \in 1..(turn - 1)
            BY <2>1 DEF IInv, TypeOK, Raise, ModuleOf, FirstOfSecurity, End
        <2>3. reports'[ModuleOf(n)] = reports[ModuleOf(n)]
            BY <2>1, ModuleOfTurn DEF IInv, TypeOK, Raise
        <2> QED BY <2>1, <2>2, <2>3 DEF IInv, Kept
    <1>3. RaisesOnFlaw'
        <2>1. ~WellFormed(yaml)
            BY WellFormedRaisesNot DEF Raise
        <2> QED BY <2>1 DEF RaisesOnFlaw, WellFormed, InterfacesFormed, Raise
    <1> QED BY <1>1, <1>2, <1>3 DEF IInv

LEMMA Invariance == Spec => []IInv
    <1>1. Init => IInv
        BY DEF Init, IInv, TypeOK, Kept, RaisesOnFlaw, Modules, End
    <1>2. IInv /\ [Next]_vars => IInv'
        <2> SUFFICES ASSUME IInv, [Next]_vars PROVE IInv'
            OBVIOUS
        <2>1. CASE Next
            BY <2>1, NextIsStep, StepPreserves, RaisePreserves DEF IInv
        <2>2. CASE UNCHANGED vars
            BY <2>2 DEF vars, IInv, TypeOK, Kept, RaisesOnFlaw, WellFormed, InterfacesFormed
        <2> QED BY <2>1, <2>2
    <1> QED BY <1>1, <1>2, PTL DEF Spec

(* The state of the review has its form. *)
THEOREM TypeCorrect == Spec => []TypeOK
    <1>1. IInv => TypeOK
        BY DEF IInv
    <1> QED BY <1>1, Invariance, PTL

(* Only a flaw in the file can make a check raise, and so lose a report:   *)
(* for any file that is well-formed no report is lost. *)
THEOREM NoReportLost == Spec => []RaisesOnFlaw
    <1>1. IInv => RaisesOnFlaw
        BY DEF IInv
    <1> QED BY <1>1, Invariance, PTL

-----------------------------------------------------------------------------
(* What a snap that passes is free of.                                     *)

LEMMA PassedFindsNothing ==
    ASSUME IInv, Passed, NEW n \in 1..16, NEW f \in Found(yaml, n)
    PROVE  f[1] # "error"
    <1>1. ModuleOf(n) = "lint"
        BY DEF ModuleOf, FirstOfSecurity
    <1>2. n \in 1..(turn - 1)
        BY DEF Passed, Done, End
    <1> QED BY <1>1, <1>2 DEF IInv, Kept, Passed, Errors

(* Each plug and slot of the top level names a known interface.            *)
LEMMA PassedInterfaces ==
    ASSUME IInv, Passed, NEW side \in Sides, NEW name \in Entries(yaml, side)
    PROVE  Content(InterfaceValue(name, Entry(yaml, side, name))) \in Known
    <1> DEFINE check == IF side = "plugs" THEN "check_plugs" ELSE "check_slots"
    <1>1. \A f \in VerifyInterfaces(yaml, side, check) : f[1] # "error"
        <2>1. CASE side = "plugs"
            BY <2>1, PassedFindsNothing, 15 \in 1..16 DEF Found
        <2>2. CASE side = "slots"
            BY <2>2, PassedFindsNothing, 16 \in 1..16 DEF Found
        <2> QED BY <2>1, <2>2 DEF Sides
    <1>2. \A f \in VerifyOne(yaml, side, name, check) : f[1] # "error"
        BY <1>1 DEF VerifyInterfaces
    <1> QED BY <1>2 DEF VerifyOne, Flag

LEMMA EntryFindings ==
    ASSUME NEW y, NEW side, NEW a, NEW v, NEW check,
           \A f \in VerifyEntryReferences(y, side, a, v, check) : f[1] # "error"
    PROVE  /\ \A ref \in Items(v) : Followed(y, side, ref)
           /\ \A p \in Conflicting[side] : ~({p[1], p[2]} \subseteq Ifaces(y, side, v))
    <1>1. ~(~IsList(v) \/ Items(v) = {})
        BY DEF VerifyEntryReferences, Flag
    <1>2. VerifyConflicts(side, Ifaces(y, side, v), check, a)
          \subseteq VerifyEntryReferences(y, side, a, v, check)
        BY <1>1 DEF VerifyEntryReferences
    <1>3. ASSUME NEW ref \in Items(v) PROVE Followed(y, side, ref)
        <2> DEFINE flags == If(~Followed(y, side, ref), Flag("error", check, <<a, ref>>))
        <2>1. \A f \in flags : f[1] # "error"
            BY <1>1 DEF VerifyEntryReferences
        <2> QED BY <2>1 DEF If, Flag
    <1>4. \A p \in Conflicting[side] : ~({p[1], p[2]} \subseteq Ifaces(y, side, v))
        BY <1>2 DEF VerifyConflicts, If, Flag
    <1> QED BY <1>3, <1>4

(* Each reference of an app or hook can be followed, and those of one app  *)
(* or hook do not conflict.                                                *)
LEMMA PassedReferences ==
    ASSUME IInv, Passed, NEW part \in Parts, NEW side \in Sides,
           NEW a \in With(yaml, part, side)
    PROVE  LET v == Field(yaml, part, a, side)
           IN  /\ \A ref \in Items(v) : Followed(yaml, side, ref)
               /\ \A p \in Conflicting[side] :
                      ~({p[1], p[2]} \subseteq Ifaces(yaml, side, v))
    <1> DEFINE check == IF part = "apps"
                        THEN IF side = "plugs" THEN "check_apps_plugs" ELSE "check_apps_slots"
                        ELSE IF side = "plugs" THEN "check_hooks_plugs" ELSE "check_hooks_slots"
               v     == Field(yaml, part, a, side)
    <1>1. \A f \in VerifyReferences(yaml, part, side, check) : f[1] # "error"
        <2>1. CASE part = "apps" /\ side = "plugs"
            BY <2>1, PassedFindsNothing, 8 \in 1..16 DEF Found
        <2>2. CASE part = "apps" /\ side = "slots"
            BY <2>2, PassedFindsNothing, 9 \in 1..16 DEF Found
        <2>3. CASE part = "hooks" /\ side = "plugs"
            BY <2>3, PassedFindsNothing, 13 \in 1..16 DEF Found
        <2>4. CASE part = "hooks" /\ side = "slots"
            BY <2>4, PassedFindsNothing, 14 \in 1..16 DEF Found
        <2> QED BY <2>1, <2>2, <2>3, <2>4 DEF Parts, Sides
    <1>2. a \in Referring(yaml, part, side)
        BY DEF Referring, With, HasField, Key, IsDict
    <1>3. \A f \in VerifyEntryReferences(yaml, side, a, v, check) : f[1] # "error"
        BY <1>1, <1>2 DEF VerifyReferences
    <1> QED BY <1>3, EntryFindings

(* A reference is read by its value, unless it shadows an interface.       *)
LEMMA SameReading ==
    ASSUME NEW y, NEW side, NEW ref, Followed(y, side, ref), ~Shadows(y, side, ref),
           Content(ref) \in Entries(y, side) => Content(DeclaredValue(y, side, ref)) \in Known
    PROVE  Content(ReferredValue(y, side, ref)) = Content(DeclaredValue(y, side, ref))
    <1> DEFINE name == Content(ref)
               spec == Entry(y, side, name)
    <1>1. CASE name \in Known
        BY <1>1 DEF Shadows, ReferredValue
    <1>2. CASE name \notin Known
        <2>1. name \in Entries(y, side)
            BY <1>2 DEF Followed
        <2>2. DeclaredValue(y, side, ref) = InterfaceValue(name, spec)
            BY <2>1 DEF DeclaredValue
        <2>3. ReferredValue(y, side, ref)
              = IF "interface" \in Key(spec) THEN Content(spec)["interface"] ELSE spec
            BY <1>2 DEF ReferredValue
        <2>4. CASE IsStr(spec)
            BY <2>2, <2>3, <2>4 DEF Key, IsDict, IsStr, InterfaceValue
        <2>5. CASE ~IsStr(spec) /\ "interface" \in Key(spec)
            BY <2>2, <2>3, <2>5 DEF InterfaceValue
        <2>6. CASE ~IsStr(spec) /\ "interface" \notin Key(spec)
            BY <2>1, <2>2, <2>6, <1>2 DEF InterfaceValue, Str, Content
        <2> QED BY <2>4, <2>5, <2>6
    <1> QED BY <1>1, <1>2

LEMMA ReferenceParts ==
    ASSUME NEW y, NEW r \in References(y)
    PROVE  /\ r[1] \in Parts /\ r[3] \in Sides
           /\ r[2] \in With(y, r[1], r[3])
           /\ r[4] \in Items(Field(y, r[1], r[2], r[3]))
    BY DEF References

LEMMA PassedReference ==
    ASSUME IInv, Passed, NEW r \in References(yaml)
    PROVE  /\ Followed(yaml, r[3], r[4])
           /\ Content(DeclaredValue(yaml, r[3], r[4])) \in Known
    <1>1. Followed(yaml, r[3], r[4])
        BY ReferenceParts, PassedReferences
    <1>2. CASE Content(r[4]) \in Entries(yaml, r[3])
        BY <1>1, <1>2, ReferenceParts, PassedInterfaces DEF DeclaredValue
    <1>3. CASE Content(r[4]) \notin Entries(yaml, r[3])
        BY <1>1, <1>3 DEF DeclaredValue, Followed
    <1> QED BY <1>1, <1>2, <1>3

(* In a snap that passes every reference stands for a known interface,     *)
(* although the check of references leaves the top level to a later one.   *)
THEOREM ReferencesAreKnown == Spec => []ReferencesResolve
    <1>1. IInv => ReferencesResolve
        BY PassedReference DEF ReferencesResolve, Followed
    <1> QED BY <1>1, Invariance, PTL

(* No app or hook of a snap that passes gets two conflicting interfaces,   *)
(* however it refers to them, unless an alias has an interface's name.     *)
THEOREM ConflictsAreFound == Spec => []NoConflict
    <1>1. ASSUME IInv, Passed, NEW r \in References(yaml), NEW q \in References(yaml),
                 r[1] = q[1], r[2] = q[2], r[3] = q[3],
                 ~Shadows(yaml, r[3], r[4]), ~Shadows(yaml, q[3], q[4])
          PROVE  <<Content(DeclaredValue(yaml, r[3], r[4])),
                   Content(DeclaredValue(yaml, q[3], q[4]))>> \notin Conflicting[r[3]]
        <2> DEFINE side == r[3]
                   v    == Field(yaml, r[1], r[2], side)
        <2>1. /\ r[4] \in Items(v) /\ Followed(yaml, side, r[4])
              /\ q[4] \in Items(v) /\ Followed(yaml, side, q[4])
            BY <1>1, ReferenceParts, PassedReference
        <2>2. /\ Content(DeclaredValue(yaml, side, r[4])) \in Ifaces(yaml, side, v)
              /\ Content(DeclaredValue(yaml, side, q[4])) \in Ifaces(yaml, side, v)
            BY <1>1, <2>1, PassedReference, SameReading DEF Ifaces
        <2>3. \A p \in Conflicting[side] : ~({p[1], p[2]} \subseteq Ifaces(yaml, side, v))
            BY <1>1, ReferenceParts, PassedReferences
        <2> QED BY <1>1, <2>2, <2>3
    <1>2. IInv => NoConflict
        BY <1>1 DEF NoConflict
    <1> QED BY <1>2, Invariance, PTL

-----------------------------------------------------------------------------
(* The security review, and the combinations of an app.                    *)

LEMMA NothingOfShadows ==
    ASSUME IInv, Done, "security" \notin raised, reports["security"] = {}
    PROVE  VerifyShadows(yaml) = {}
    <1>1. Found(yaml, 17) \subseteq reports[ModuleOf(17)]
        <2>1. 17 \in 1..(turn - 1)
            BY DEF Done, End
        <2>2. ModuleOf(17) = "security"
            BY DEF ModuleOf, FirstOfSecurity
        <2> QED BY <2>1, <2>2 DEF IInv, Kept
    <1>2. Found(yaml, 17) = VerifyShadows(yaml)
        BY DEF Found
    <1>3. ModuleOf(17) = "security"
        BY DEF ModuleOf, FirstOfSecurity
    <1> QED BY <1>1, <1>2, <1>3

LEMMA EveryShadow ==
    ASSUME NEW y, NEW side \in Sides, NEW name \in Entries(y, side),
           IsShadow(y, side, name)
    PROVE  VerifyShadows(y) # {}
    <1> DEFINE Warning(sd, nm) ==
                   <<"warn", "check_interface_reference_matches_base_decl", <<sd, nm>>>>
               Warnings(sd) ==
                   {Warning(sd, nm) : nm \in {n \in Entries(y, sd) : IsShadow(y, sd, n)}}
    <1>1. Warning(side, name) \in Warnings(side)
        OBVIOUS
    <1>2. VerifyShadows(y) = UNION {Warnings(sd) : sd \in Sides}
        BY DEF VerifyShadows
    <1> HIDE DEF Warnings
    <1> QED BY <1>1, <1>2

(* A reference whose interface the declaration review takes from the top   *)
(* level, and the others do not, is a shadow, but for the exceptions.      *)
LEMMA ReadingsDiffer ==
    ASSUME NEW y, NEW side \in Sides, NEW ref, Followed(y, side, ref),
           Content(DeclaredValue(y, side, ref)) \in Known,
           Content(ReferredValue(y, side, ref)) # Content(DeclaredValue(y, side, ref)),
           ~IsStr(Entry(y, side, Content(ref))),
           Content(ref) \in BaseSides.slots,
           <<y.name, Content(DeclaredValue(y, side, ref)), Content(ref)>> \notin ShadowVetted
    PROVE  Content(ref) \in Entries(y, side) /\ IsShadow(y, side, Content(ref))
    <1> DEFINE name == Content(ref)
               spec == Entry(y, side, name)
    <1>1. name \in Known
        BY DEF Known
    <1>2. ReferredValue(y, side, ref) = ref
        BY <1>1 DEF ReferredValue
    <1>3. name \in Entries(y, side)
        BY <1>2 DEF DeclaredValue
    <1>4. DeclaredValue(y, side, ref) = InterfaceValue(name, spec)
        BY <1>3 DEF DeclaredValue
    <1>5. InterfaceValue(name, spec) # Str(name)
        BY <1>2, <1>4 DEF Str, Content
    <1>6. IsDict(spec)
        BY <1>5 DEF InterfaceValue, Key
    <1> QED BY <1>3, <1>4, <1>5, <1>6 DEF IsShadow

(* What the lint review looks at in a snap that passes is what the         *)
(* declaration review judges, for all files, but for the exceptions named. *)
THEOREM ReadingsAreOne == Spec => []ReadingsAgree
    <1>1. ASSUME IInv, Passed, "security" \notin raised, reports["security"] = {},
                 NEW r \in References(yaml),
                 ~IsStr(Entry(yaml, r[3], Content(r[4]))),
                 Content(r[4]) \in BaseSides.slots,
                 <<yaml.name, Content(DeclaredValue(yaml, r[3], r[4])), Content(r[4])>>
                     \notin ShadowVetted
          PROVE  Content(ReferredValue(yaml, r[3], r[4]))
                 = Content(DeclaredValue(yaml, r[3], r[4]))
        <2>1. VerifyShadows(yaml) = {}
            BY <1>1, NothingOfShadows DEF Passed
        <2>2. r[3] \in Sides
            BY <1>1, ReferenceParts
        <2>3. /\ Followed(yaml, r[3], r[4])
              /\ Content(DeclaredValue(yaml, r[3], r[4])) \in Known
            BY <1>1, PassedReference
        <2> QED BY <1>1, <2>1, <2>2, <2>3, ReadingsDiffer, EveryShadow
    <1>2. IInv => ReadingsAgree
        BY <1>1 DEF ReadingsAgree
    <1> QED BY <1>2, Invariance, PTL

LEMMA NoFlag ==
    ASSUME NEW c, NEW where, NEW S, \A f \in S : f[1] # "error",
           If(c, Flag("error", Invalid, where)) \subseteq S
    PROVE  ~c
    <1>1. <<"error", Invalid, where>>[1] = "error"
        OBVIOUS
    <1> QED BY <1>1 DEF If, Flag

(* What an app without an error in its combinations is free of.            *)
LEMMA AppCombinations ==
    ASSUME NEW y, NEW a, \A f \in VerifyAppCombinations(y, a) : f[1] # "error"
    PROVE  /\ ~(IsDbusDaemon(y, a) /\ NoBusName(y, a))
           /\ ~(IsDbusDaemon(y, a) /\ ~NoBusName(y, a) /\ NeedsSlot(y, a))
           /\ ~Mixed(y, a)
    <1> DEFINE found == VerifyAppCombinations(y, a)
    <1>1. If(IsDbusDaemon(y, a) /\ NoBusName(y, a),
             Flag("error", Invalid, <<a, "dbus_bus-name_required">>)) \subseteq found
        BY DEF VerifyAppCombinations
    <1>2. If(IsDbusDaemon(y, a) /\ ~NoBusName(y, a) /\ NeedsSlot(y, a),
             Flag("error", Invalid, <<a, "dbus_slot_required">>)) \subseteq found
        BY DEF VerifyAppCombinations
    <1>3. If(Mixed(y, a), Flag("error", Invalid, <<a, "dbus_mixed_slots">>)) \subseteq found
        BY DEF VerifyAppCombinations
    <1> HIDE DEF found
    <1>4. \A f \in found : f[1] # "error"
        BY DEF found
    <1> QED BY <1>1, <1>2, <1>3, <1>4, NoFlag

(* A daemon started over D-Bus has its name on the system bus, and only    *)
(* there, in every snap that passes.                                       *)
THEOREM DaemonsAreServed == Spec => []DbusDaemonsServed
    <1>1. ASSUME IInv, Passed, NEW a \in Entries(yaml, "apps"), IsDbusDaemon(yaml, a)
          PROVE  /\ \E name \in DbusSlots(yaml, a) :
                        Owns(yaml, name, Field(yaml, "apps", a, "bus-name"))
                 /\ \A name \in DbusSlots(yaml, a) : ~OnBus(yaml, name, "session")
        <2>1. \A f \in VerifyCombinations(yaml) : f[1] # "error"
            BY <1>1, PassedFindsNothing, 7 \in 1..16 DEF Found
        <2>2. \A f \in VerifyAppCombinations(yaml, a) : f[1] # "error"
            BY <2>1 DEF VerifyCombinations
        <2>3. ~NoBusName(yaml, a)
            BY <1>1, <2>2, AppCombinations
        <2>4. ~NeedsSlot(yaml, a)
            BY <1>1, <2>2, <2>3, AppCombinations
        <2>5. ~Mixed(yaml, a)
            BY <2>2, AppCombinations
        <2>6. \E name \in DbusSlots(yaml, a) :
                  Owns(yaml, name, Field(yaml, "apps", a, "bus-name"))
            BY <2>4 DEF NeedsSlot
        <2> QED BY <2>5, <2>6 DEF Mixed, Owns
    <1>2. IInv => DbusDaemonsServed
        BY <1>1 DEF DbusDaemonsServed
    <1> QED BY <1>2, Invariance, PTL

(* Every daemon that may be activated but is of another kind is warned of, *)
(* for any number of apps in any order.                                    *)
THEOREM ActivationIsWarned == Spec => []ActivatableWarned
    <1>1. ASSUME IInv, Done, "lint" \notin raised, NEW a \in With(yaml, "apps", "daemon"),
                 Activatable(yaml, a), ~IsDbusDaemon(yaml, a)
          PROVE  <<"warn", Invalid, <<a, "dbus_activatable">>>> \in reports["lint"]
        <2>1. Found(yaml, 7) \subseteq reports["lint"]
            <3>1. 7 \in 1..(turn - 1) /\ ModuleOf(7) = "lint"
                BY <1>1 DEF Done, End, ModuleOf, FirstOfSecurity
            <3> QED BY <1>1, <3>1 DEF IInv, Kept
        <2>2. Found(yaml, 7) = VerifyCombinations(yaml)
            BY DEF Found
        <2>3. PICK n \in DOMAIN Names : Names[n] = a
            <3>1. "apps" \in DOMAIN yaml /\ a \in Key(yaml.apps) /\ IsDict(yaml.apps)
                BY <1>1 DEF With, Entries, Key
            <3> QED BY <1>1, <3>1, LintAssumption DEF IInv, TypeOK
        <2>4. n \in WarnsActivatable(yaml)
            BY <1>1, <2>3 DEF WarnsActivatable, SeenActivatable
        <2> QED BY <2>1, <2>2, <2>3, <2>4 DEF VerifyCombinations
    <1>2. IInv => ActivatableWarned
        BY <1>1 DEF ActivatableWarned
    <1> QED BY <1>2, Invariance, PTL

(* The security review follows a plug as far as the declaration review     *)
(* does, for all files: no daemon with browser-support stays unreported,   *)
(* unless its alias is abbreviated or the snap vetted.                     *)
THEOREM BrowserIsReported == Spec => []BrowserSupportReported
    <1> DEFINE check == "check_security_plugs_browser_support_with_daemon"
    <1>1. ASSUME IInv, Done, "security" \notin raised, yaml.name \notin BrowserVetted,
                 NEW a \in With(yaml, "apps", "daemon") \cap With(yaml, "apps", "plugs"),
                 NEW ref \in Items(Field(yaml, "apps", a, "plugs")),
                 IsStr(ref), DeclaredValue(yaml, "plugs", ref) = Str("browser-support"),
                 \/ Content(ref) \notin Entries(yaml, "plugs")
                 \/ ~IsStr(Entry(yaml, "plugs", Content(ref)))
          PROVE  <<"warn", check, <<a>>>> \in reports["security"]
        <2>1. Found(yaml, 18) \subseteq reports["security"]
            <3>1. 18 \in 1..(turn - 1) /\ ModuleOf(18) = "security"
                BY <1>1 DEF Done, End, ModuleOf, FirstOfSecurity
            <3> QED BY <1>1, <3>1 DEF IInv, Kept
        <2>2. Found(yaml, 18) = VerifyBrowserSupport(yaml)
            BY DEF Found
        <2>3. ref \in PlugsOf(yaml, a)
            BY <1>1 DEF PlugsOf, With
        <2>4. IsReference(yaml, ref, "browser-support")
            BY <1>1 DEF IsReference, DeclaredValue, InterfaceValue, Str, Content
        <2> QED BY <1>1, <2>1, <2>2, <2>3, <2>4 DEF VerifyBrowserSupport, If, Flag
    <1>2. IInv => BrowserSupportReported
        BY <1>1 DEF BrowserSupportReported
    <1> QED BY <1>2, Invariance, PTL
=============================================================================
