--------------------------------- MODULE MCLint ---------------------------------
(***************************************************************************)
(* Files to review: references that alias, dangle and conflict, the dbus   *)
(* slots of two daemons, attributes, and what breaks a review.             *)
(***************************************************************************)
EXTENDS LintProps, TLC

Dict(f)  == <<"dict", f>>
List(s)  == <<"list", s>>
Null     == <<"null", "none">>
One      == <<"int", 1>>
Zero     == <<"int", 0>>
Strs(s)  == List([n \in DOMAIN s |-> Str(s[n])])
Nothing  == [k \in {} |-> Null]
To(i)    == "interface" :> Str(i)

MCNames == <<"app1", "app2", "-">>
MCBaseSides ==
    [plugs |-> {"network", "support", "cups", "cups-control", "browser-support"},
     slots |-> {"network", "cups", "cups-control", "dbus", "content", "gpio"}]
MCConflicting == [plugs |-> {<<"cups", "cups-control">>}, slots |-> {}]

MCAttributes ==
    [k \in {<<"dbus", "name", "slots">>, <<"dbus", "bus", "slots">>} |-> "str"]
    @@ <<"dbus", "activatable", "slots">> :> "bool"
    @@ <<"content", "read", "slots">> :> "list"
    @@ <<"content", "write", "slots">> :> "list"
    @@ <<"content", "source", "slots">> :> "dict"
    @@ <<"content", "target", "plugs">> :> "str"
    @@ <<"gpio", "number", "slots">> :> "int"
    @@ <<"support", "flavor", "plugs">> :> "str"

Needs(i, s, has, lacks) == [interface |-> i, side |-> s, has |-> has, lacks |-> lacks]
MCRequired ==
    {Needs("content", "slots", {"read"}, {"source"}),
     Needs("content", "slots", {"write"}, {"source"}),
     Needs("content", "slots", {"read", "write"}, {"source"}),
     Needs("content", "slots", {"source"}, {"read", "write"}),
     Needs("content", "plugs", {"target"}, {}),
     Needs("gpio", "slots", {"number"}, {}),
     Needs("dbus", "slots", {"name", "bus"}, {})}

-----------------------------------------------------------------------------
App(fields)  == Dict("command" :> Str("run") @@ fields)
Plain        == App(Nothing)
Snap(fields) == "name" :> "snap" @@ fields
Apps(f)      == "apps" :> Dict(f)
OneApp(e)    == Apps("app1" :> e)

(* References: of an app or of a hook, to what is on the top level or not. *)
Specs == {Dict(Nothing), Str("cups"), Str(""), Dict(To("cups")),
          Dict(To("cups-control")), Dict(To("ghost")), Dict("interface" :> One),
          Dict("interface" :> Zero), Dict("flavor" :> Str("x")),
          List(<<Str("x")>>), List(<<One>>)}

Tops == {Nothing} \cup {n :> s : n \in {"alias", "network"}, s \in Specs}
        \cup {"alias" :> s @@ n :> t : n \in {"network", "support"}, s \in Specs,
                 t \in {Str("cups"), Dict(To("cups-control")), Dict("flavor" :> Str("x"))}}

Lists == {<<>>} \cup {<<n>> : n \in {"alias", "network", "cups", "ghost"}}
         \cup {<<"alias", n>> : n \in {"network", "cups", "cups-control"}}
         \cup {<<"network", "cups">>, <<"cups", "cups-control">>}

Lists2 == {Strs(l) : l \in Lists} \cup {Dict("alias" :> Null), List(<<One>>),
                                         List(<<Zero>>)}

References1 ==
    {Snap("plugs" :> Dict(t) @@ OneApp(App("plugs" :> l))) : t \in Tops, l \in Lists2}
References2 ==
    {Snap("plugs" :> Dict(t) @@ "hooks" :> Dict("hook" :> Dict("plugs" :> l))) :
        t \in Tops, l \in Lists2}
References3 ==
    {Snap("slots" :> Dict(n :> s) @@ part :> Dict("app1" :> App("slots" :> l))) :
        n \in {"alias", "network"}, s \in Specs, l \in Lists2, part \in Parts}

(* Two apps, the slots of the snap, and how they are told to use them. *)
Bus(b)  == "bus" :> Str(b) @@ "name" :> Str("org.x")
DbusSpecs == {Dict(Bus(b)) : b \in {"system", "session"}}
             \cup {Dict("activatable" :> <<"bool", TRUE>> @@ Bus("system")),
                   Dict("bus" :> Str("system")), Dict(Nothing)}
AliasSpecs == {Str("dbus")} \cup {Dict(To("dbus") @@ Content(s)) : s \in DbusSpecs}
DbusTops == {Nothing} \cup {"dbus" :> s : s \in DbusSpecs}
            \cup {"alias" :> s : s \in AliasSpecs}
            \cup {"dbus" :> s @@ "alias" :> t : s \in DbusSpecs, t \in AliasSpecs}

Slots(l) == "slots" :> Strs(l)
Waits(n) == "daemon" :> Str("dbus") @@ "bus-name" :> n
Daemon1 == {App(Waits(Str("org.x")) @@ Slots(l)) :
               l \in {<<"dbus">>, <<"alias">>, <<"dbus", "alias">>}}
           \cup {App(Waits(Str("org.x"))), App(Waits(Str("org.y")) @@ Slots(<<"dbus">>)),
                 App(Waits(One) @@ Slots(<<"dbus">>)),
                 App("daemon" :> Str("dbus") @@ Slots(<<"dbus">>)),
                 App(Slots(<<"dbus", "alias">>)),
                 App("daemon" :> Str("simple") @@ Slots(<<"dbus">>))}
Daemon2 == {Plain, App("daemon" :> Str("simple")),
            App("daemon" :> Str("simple") @@ Slots(<<"alias">>)),
            App("daemon" :> Str("simple") @@ Slots(<<"dbus">>))}

Daemons2 == {Snap("slots" :> Dict(t) @@ Apps("app1" :> d @@ "app2" :> e)) :
                t \in DbusTops, d \in Daemon1, e \in Daemon2}
            \cup {Snap(OneApp(d)) : d \in Daemon1}

(* Attributes of slots that must come together, or must not. *)
Fill == "read" :> List(<<>>) @@ "write" :> List(<<>>) @@ "source" :> Dict(Nothing)
        @@ "number" :> <<"bool", TRUE>> @@ "target" :> Str("t")
Attributes2 ==
    {Snap(side :> Dict(i :> Dict([k \in K |-> Fill[k]]))) :
        side \in Sides, i \in {"content", "gpio"}, K \in SUBSET DOMAIN Fill}

(* The plugs of daemons. *)
Browsers ==
    {Snap("plugs" :> Dict(t) @@ Apps("app1" :> App("daemon" :> Str("simple") @@ p)
                                     @@ "app2" :> e)) :
        t \in {"b" :> s : s \in {Str("browser-support"), Dict(To("browser-support")),
                                 Dict(To("network"))}}
              \cup {"browser-support" :> Dict(Nothing)},
        p \in {Nothing} \cup {"plugs" :> Strs(l) : l \in {<<"b">>, <<"browser-support">>,
                                                         <<"network", "b">>}},
        e \in {Plain, App("plugs" :> Strs(<<"network">>))}}
    \cup {"name" :> "vetted" @@ "plugs" :> Dict("network" :> Dict(To("cups")))
          @@ OneApp(App("daemon" :> Str("simple") @@ "plugs" :> Strs(l))) :
             l \in {<<"network">>, <<"browser-support">>}}

(* What else can be wrong with an app or a hook. *)
Env(v) == "environment" :> v
Oddities ==
    {Plain, Null, Dict(Nothing), Dict("aliases" :> Strs(<<"a1">>)),
     App("timer" :> Str("mon")), App("unknown" :> One),
     App("autostart" :> Str("x") @@ "daemon" :> Str("simple")),
     App("daemon" :> Str("none")), App("daemon" :> One),
     App("aliases" :> Strs(<<"a1", "a1">>)), App("aliases" :> Strs(<<>>)),
     App("aliases" :> Null), App("aliases" :> List(<<One>>)),
     App("aliases" :> Strs(<<"-">>)), App("aliases" :> Str("a1")),
     App(Env(Null)), App(Env(List(<<>>))), App(Env(Strs(<<"K">>))),
     App(Env(Dict("K" :> One))), App(Env(Dict("K" :> Null))),
     App("command-chain" :> Strs(<<"run">>)), App("command-chain" :> Strs(<<"lost">>)),
     App("command-chain" :> Strs(<<>>)), App("command-chain" :> Strs(<<" ">>)),
     App("command-chain" :> Strs(<<"", " ">>)), App("after" :> Strs(<<"app2">>)),
     App("daemon" :> Str("simple") @@ "before" :> Strs(<<"app3">>)),
     App("after" :> List(<<One>>)), App("after" :> List(<<Zero>>)),
     App("after" :> Null)}
HookOddities == {o \in Oddities : "aliases" \notin Key(o)}

Odd == {Snap(Apps("app1" :> d @@ "app2" :> e)) : d \in Oddities,
           e \in {Plain, App("aliases" :> Strs(<<"a1">>))}}
       \cup {Snap("hooks" :> Dict("hook" :> d)) : d \in HookOddities}
       \cup {Snap("hooks" :> Dict("-" :> Plain)), Snap(Apps("-" :> Plain)),
             Snap(Nothing)}
       \cup {Snap(part :> v) : part \in Parts, v \in {Null, Dict(Nothing)}}

MCShadowVetted == {<<"vetted", "cups", "network">>}

MCYamls == References1 \cup References2 \cup References3 \cup Daemons2
           \cup Attributes2 \cup Browsers \cup Odd
=============================================================================
