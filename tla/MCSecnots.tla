------------------------------- MODULE MCSecnots -------------------------------
(***************************************************************************)
(* Instances of the scan of a manifest: all pairs of short versions, and a *)
(* snap, a kernel and a rock with each of their fields varied.             *)
(***************************************************************************)
EXTENDS SecnotsProps, TLC

MCCodename ==
    <<"ubuntu", "16.04">> :> "xenial" @@ <<"ubuntu", "18.04">> :> "bionic"
    @@ <<"ubuntu", "21.04">> :> "hirsute" @@ <<"debian", "9">> :> "stretch"

MCSnapRelease == "core" :> "xenial" @@ "core18" :> "bionic" @@ "core22" :> "jammy"

V(e, b) == [epoch |-> e, body |-> b]

Num(n) == V(None, <<Zero + n>>)

(* "lib" has an epoch the source has not, "app" none though the source     *)
(* has, and "odd" another version altogether. *)
MCUnmatched ==
    <<"bionic", "lib">> :> [source |-> Num(3), binary |-> V(2, <<Zero + 3>>)]
    @@ <<"bionic", "app">> :> [source |-> V(1, <<Zero + 3>>), binary |-> Num(3)]
    @@ <<"bionic", "odd">> :> [source |-> Num(3), binary |-> Num(4)]

MCPackageVersion == "snapcraft" :> Num(4)

-----------------------------------------------------------------------------
Chars  == {Tilde, Dot, Zero, Zero + 1, 97}
Pairs  == UNION {[1..n -> Chars] : n \in 1..2}
Longer == {<<Zero, Zero, Zero + 1>>, <<Zero + 1, Zero, Zero>>, <<97, Zero, Zero>>,
           <<97, Dot, Zero>>, <<Zero + 1, Tilde, Tilde>>, <<Zero + 1, Tilde, 97>>,
           <<Zero + 1, Dot, Tilde>>, <<Zero + 9>>, <<Zero + 1, Dot, Zero + 9>>,
           <<Zero + 1, Dot, Zero + 1, Zero>>, <<Zero + 1, 97, Plus>>, <<Zero + 1, Plus>>}
Dashed == {<<Zero, Dash, Zero + 1>>, <<Zero, Dash, Tilde>>, <<Zero + 1, Dash>>,
           <<Zero, Dash, Zero, Zero>>, <<Dash, Zero>>, <<Zero, Dash, Dash, Zero>>,
           <<Zero + 1, Dot, Zero, Dash, Zero>>}

MCSamples == {V(None, b) : b \in Pairs \cup Longer}
             \cup {V(e, b) : e \in {None, 0, 1}, b \in Dashed \cup [1..1 -> Chars]}

-----------------------------------------------------------------------------
Notice(u, r, all) ==
    [usn |-> u, rel |-> r, whole |-> TRUE, all |-> all, urls |-> <<>>, sources |-> {}]

(* A notice without a list of its binaries: the file names are the guess. *)
Guessed(u, r, urls, sources) ==
    [Notice(u, r, None) EXCEPT !.urls = urls, !.sources = sources]

Url(p, v) == [bin |-> p, body |-> v.body]

App == [kind |-> "snap", file |-> FALSE, type |-> "app", base |-> "core18",
        osId |-> None, osVersion |-> None, hasParts |-> TRUE,
        stage |-> {{Plain("lib", V(2, <<Zero + 1>>))}}, installed |-> {},
        primed |-> None, dpkg |-> None, snapcraft |-> None,
        version |-> Num(1), faked |-> {},
        usns |-> {Notice("u1", "bionic", "lib" :> Num(3)
                                         @@ "snapcraft" :> Num(3) @@ "odd" :> Num(9)),
                  Notice("u2", "xenial", "lib" :> Num(2) @@ "app" :> Num(3))},
        seen |-> {}]

VersionScans ==
    LET few == {V(None, b) : b \in Pairs}
               \cup {V(e, b) : e \in {0, 1}, b \in Dashed}
    IN  {[App EXCEPT !.stage = {{Plain("app", v), Plain("app", Num(1))}},
                     !.usns = {Notice("u1", "bionic", "tool" :> w),
                               Guessed("u2", "bionic", <<Url("app", w)>>, {w})}] :
            v \in few, w \in {x \in few : Valid(x)}}

(* The fields the release is found from. *)
ReleaseScans ==
    {[App EXCEPT !.base = b, !.osId = os[1], !.osVersion = os[2], !.installed = i,
                 !.hasParts = h, !.file = f, !.seen = {"u2"}] :
        b \in {None, "core", "core18", "core22", "other"},
        os \in {<<None, None>>, <<"ubuntu", "18.04">>, <<"debian", "9">>,
                <<"suse", "18.04">>, <<None, "7">>},
        i \in SUBSET {"core", "core18", "snapcraft"}, h \in BOOLEAN, f \in BOOLEAN}

(* Only a rock is looked up in a release without long-term support. *)
NonLtsScans ==
    {[App EXCEPT !.osId = "ubuntu", !.osVersion = "21.04", !.file = f,
                 !.usns = @ \cup {Notice("u3", "hirsute", "lib" :> Num(3))}] :
        f \in BOOLEAN}

(* The places a package may be listed at, and how. *)
Lib(n) == Plain("lib", V(2, <<Zero + n>>))
Sections == {{}, {Lib(1)}, {Lib(3), Plain("odd", Num(1))},
             {Plain("snapcraft", Num(2)), Plain("headers", Num(1))},
             {[Lib(1) EXCEPT !.form = "malformed"]}, {[Lib(1) EXCEPT !.form = "doubled"]}}

PackageScans ==
    {[App EXCEPT !.stage = st, !.primed = p, !.dpkg = d, !.file = f] :
        st \in {{}, {{}}} \cup {{a, {Lib(3)}} : a \in Sections},
        p \in {None} \cup Sections, d \in {None, {}, {Lib(2)}, {Plain("snapcraft", Num(1))}},
        f \in BOOLEAN}
    \cup
    {[App EXCEPT !.stage = st, !.primed = p, !.file = f, !.snapcraft = c, !.faked = k,
                 !.seen = s, !.installed = i] :
        st \in {{}, {{}}, {{Lib(1)}}, {{Plain("snapcraft", Num(2)), Plain("app", Num(1))}}},
        p \in {None, {Lib(3)}}, f \in BOOLEAN, c \in {None, Num(1), Num(3), V(None, <<Dash>>)},
        k \in {{}, {Plain("lib", V(2, <<Zero>>))}}, s \in {{}, {"u1"}}, i \in {{}, {"snapcraft"}}}

(* Versions of kernels: two numbers, the separators of the others, the     *)
(* others, and what follows. *)
Decimal[n \in Nat] ==
    IF n < 10 THEN <<Zero + n>> ELSE Decimal[n \div 10] \o <<Zero + (n % 10)>>

Kernel(mic, dash, abi, rest) ==
    V(None, <<Zero + 4, Dot, Zero + 4, Dot>> \o Decimal[mic] \o <<dash>> \o Decimal[abi] \o rest)

Build(sep, n) == <<sep>> \o Decimal[n]
Backport == <<Tilde, Zero + 1, Dot, Dash, 97>>

KernelVersions ==
    {Kernel(c[1], Dash, c[2], r) :
        c \in {<<0, 161>>, <<0, 98>>, <<0, 99>>, <<0, 100>>, <<1, 9>>},
        r \in {<<>>, Build(Dot, 5), Build(Dash, 5), Build(Dot, 5) \o Backport, Backport}}
    \cup
    {Kernel(0, Dash, 161, <<Plus, 97>>), Kernel(0, Dash, 161, Build(Dot, 5) \o Build(Dash, 6)),
     Kernel(0, Dash, 161, <<Dot>>), Kernel(0, Dash, 161, Build(Bar, 5)),
     Kernel(0, Dot, 161, <<>>), Kernel(0, Dot, 161, Build(Dash, 5)), Kernel(0, Plus, 161, <<>>),
     V(0, Kernel(0, Dash, 161, <<>>).body), V(None, <<97>> \o Kernel(0, Dash, 161, <<>>).body),
     V(None, <<Zero + 4, Dot, Dot, Zero + 4, Dash, Zero + 1>>)}

KernelScans ==
    {[App EXCEPT !.type = t, !.version = v, !.snapcraft = c, !.file = f,
                 !.stage = {{}}, !.faked = {Plain("linux", AutoKernel)}, !.primed = p,
                 !.usns = {Notice("u1", "bionic",
                                  "linux" :> Kernel(0, Dot, 99, Build(Dot, 7))
                                  @@ "snapcraft" :> Num(3)),
                           Notice("u2", "bionic", "linux" :> Kernel(0, Dot, 161, Build(Dot, 189))),
                           Notice("u3", "bionic", "linux" :> Kernel(0, Dot, 161, <<>>))}] :
        t \in {"kernel", "app"}, v \in KernelVersions, c \in {None, Num(1)}, f \in BOOLEAN,
        p \in {None, {}, {Plain("linux", Kernel(0, Dot, 98, Build(Dot, 1)))}}}

(* Epochs of sources and binaries. *)
EpochScans ==
    {[App EXCEPT !.stage = {{Plain(p, V(e, <<Zero + 2>>))}},
                 !.usns = {Notice("u1", "bionic", p :> v),
                           Guessed("u2", "bionic", <<Url("tool", v), Url(p, v), Url(p, Num(1))>>,
                                   {v, V(1, <<Zero + 1>>)}),
                           [Notice("u3", "bionic", p :> v) EXCEPT !.whole = FALSE]}] :
        p \in {"lib", "app", "odd", "other"}, e \in {None, 1, 2},
        v \in {V(x, <<Zero + n>>) : x \in {None, 1, 2}, n \in 1..3}}

RockScans ==
    {[App EXCEPT !.kind = "rock", !.type = "oci", !.base = None, !.file = f,
                 !.osId = os[1], !.osVersion = os[2], !.stage = {a},
                 !.usns = @ \cup {Notice("u3", "hirsute", "lib" :> Num(3))}] :
        f \in BOOLEAN, a \in Sections,
        os \in {<<"ubuntu", "18.04">>, <<"ubuntu", "21.04">>, <<"alpine", "3">>, <<None, "9">>}}

MCScans == VersionScans \cup ReleaseScans \cup NonLtsScans \cup PackageScans
           \cup KernelScans \cup EpochScans \cup RockScans
=============================================================================
