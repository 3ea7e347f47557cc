---------------------------- MODULE MCAlgorithms ----------------------------
(***************************************************************************)
(* Algorithms and RateLimit for TLC.  A behaviour picks and judges inputs, *)
(* or counts requests; login sessions are interchangeable.                 *)
(***************************************************************************)
EXTENDS Algorithms, RateLimit

MCInit == AlgorithmsInit /\ Init

MCNext ==
    \/ Init /\ AlgorithmsNext /\ UNCHANGED vars
    \/ input.of = "none" /\ Next /\ UNCHANGED input

MCSpec == MCInit /\ [][MCNext]_<<input, vars>>

Symmetry == Permutations(Peer)

MCPeerLimit == [k \in Kind |-> IF k = "auth" THEN 1 ELSE 2]
MCGlobalLimit == [k \in Kind |-> IF k = "auth" THEN 2 ELSE 3]

MCRoot == "root"
MCNone == "none"

Upto(S, n) == UNION {[1 .. k -> S] : k \in 0 .. n}

\* Paths of at most five tokens behind the first slash.
MCPaths == {<<"/">> \o t : t \in Upto({"/", ".", "%2f", "%2e", "v"}, 5)}
MCPathPrefixes == {<<"/">>, <<"/", "v">>, <<"/", "v", "/">>, <<"/", ".">>, <<"/", "v", "%2e">>,
               <<"/", "v", "/", "v">>, <<"/", "v", "/", ".", ".">>}

\* Both ends of every block, and the addresses next to them.
MCIpv4 ==
    {<<a, 1, 1>> : a \in {0, 1, 9, 10, 11, 126, 127, 128, 223, 224, 239, 240, 255}}
    \cup {<<100, b, 1>> : b \in {63, 64, 127, 128}}
    \cup {<<169, b, 1>> : b \in {253, 254, 255}}
    \cup {<<172, b, 1>> : b \in {15, 16, 31, 32}}
    \cup {<<192, b, c>> : b \in {0, 88, 168, 169}, c \in {0, 1, 2, 3, 98, 99, 100}}
    \cup {<<198, b, c>> : b \in {17, 18, 19, 20, 51}, c \in {99, 100, 101}}
    \cup {<<203, b, c>> : b \in {0, 1}, c \in {112, 113, 114}}
MCIpv6 ==
    {<<a, b>> : a \in {0, 8191, 8192, 8194, 8195, 16382, 16383, 16384, 64511, 64512, 65023, 65024,
                       65151, 65152, 65215, 65216, 65279, 65280, 65535}, b \in {0, 4095, 4096}}
    \cup {<<8193, b>> : b \in {0, 511, 512, 3511, 3512, 3513}}

MCBodies == Upto({"percent", "json", "html", "base64", "base64url", "hex", "HEX", "slash"}, 4)
MCSizes == {<<>>, <<1, 2>>, <<1, 2, 1>>, <<3>>, <<4>>}

MCEntries ==
    {<<[name |-> <<"x">>, value |-> v]>> :
        v \in Upto({"dq", "sq", "bs", "#", "=", " ", "tab", "nl", "cr", "n", "x"}, 4)}
    \cup {<<[name |-> <<"x">>, value |-> v], [name |-> <<"n", "1">>, value |-> w]>> :
        v, w \in Upto({"dq", "bs", "#", "nl", "n"}, 2)}
    \cup {<<[name |-> <<"x">>, value |-> v], [name |-> <<"n", "1">>, value |-> <<>>],
            [name |-> <<"r">>, value |-> <<>>]>> : v \in Upto({"x"}, 1)}

-----------------------------------------------------------------------------
MCSegments == {<<"user">>, <<"user", "a">>, <<"user", "b">>, <<"user", "a", "b">>, <<"other", "a">>}
Rows(parents, kinds, paths) == [parent : parents, kind : kinds, path : paths]
First == Rows({"none"}, {0, 1}, {<<"user">>})
Second == Rows({"none", "s1", "s3"}, 0 .. 3, MCSegments)
Third == Rows({"none", "s1", "s2"}, 0 .. 3, MCSegments)
MCScopeTables ==
    {"s1" :> a : a \in First}
    \cup {"s1" :> a @@ "s2" :> b : a \in First, b \in Second}
    \cup {"s1" :> a @@ "s2" :> b @@ "s3" :> c : a \in First, b \in Second, c \in Third}

ProfileRow == [scope : {"s1", "s2", "s3"}, name : {"base", "other"}, starts : BOOLEAN]
MCProfileTables ==
    {"p1" :> a : a \in ProfileRow} \cup {"p1" :> a @@ "p2" :> b : a, b \in ProfileRow}

SecretRow == [scope : {"s1", "s2"}, name : {"k"}, status : {"active", "deleted"}, current : 0 .. 2,
              versions : {<<>>, <<1>>, <<1, 2>>, <<2, 1>>}]
OneVersion == [scope |-> "s1", name |-> "k", status |-> "active", current |-> 1, versions |-> <<1>>]
MCSecretTables ==
    {<<>>} \cup {"k1" :> a : a \in SecretRow} \cup {"k1" :> a @@ "k2" :> OneVersion : a \in SecretRow}

MCDestination ==
    [scopes |-> "root" :> [parent |-> "none", kind |-> 0, path |-> <<"user">>]
             @@ "d1" :> [parent |-> "root", kind |-> 1, path |-> <<"user", "profile", "d1">>]
             @@ "d2" :> [parent |-> "d1", kind |-> 3, path |-> <<"user", "profile", "d1", "a">>],
     profiles |-> "q0" :> [scope |-> "root", name |-> "first", starts |-> TRUE]
               @@ "q1" :> [scope |-> "d1", name |-> "second", starts |-> FALSE],
     secrets |-> "e1" :> [scope |-> "d2", name |-> "k", status |-> "active", current |-> 1, versions |-> <<1>>]]

MCNewScope == {"n1", "n2", "n3"}
MCLabels == {"a"}
=============================================================================
