----------------------------- MODULE MCPublicFeed -----------------------------
(***************************************************************************)
(* Instance of PublicFeed: three groups, two of which differ in case only, *)
(* two connects and a balancer.  A behaviour starts in one of three        *)
(* scenarios: the page and its saves, a feed while connects move, and a    *)
(* row that is synchronised from every kind of entry.                      *)
(***************************************************************************)
EXTENDS PublicFeed

MCNames == {"A", "a", "B"}
MCKey == [n \in MCNames |-> IF n = "B" THEN 2 ELSE 1]
MCRank == [c \in 1 .. 3 |-> 4 - c]
MCMemberships == {<<"A", "B">>, <<"B">>, <<"a", "A", "B">>}

MCSpecial == {"a/b", "100%", "::1", "a b"}
MCMalformed == {"100%"}
MCEnding == {"a/b"}
MCParted == {"::1"}
MCEscaped == {"a b"}
MCHostless == {"", "::1", "a b"}

-----------------------------------------------------------------------------
(* Entries of a subscription.                                              *)
T(w) == Plain(w)
Uri(scheme, id, pass, base64, port, query) ==
    [scheme |-> scheme, user |-> id, pass |-> pass, base64 |-> base64, host |-> T("h"),
     port |-> port, query |-> query]

WsTls == [type |-> T("ws"), path |-> <<"a/b", 1>>, host |-> T("h2"), security |-> T("tls"),
          sni |-> T("s"), fp |-> T("chrome"), alpn |-> T("h2,h3")]
GrpcReality == [type |-> T("grpc"), serviceName |-> T("g"), security |-> T("reality"),
                serverName |-> T("s"), pbk |-> T("k"), sid |-> T("1"), spx |-> T("/")]

Uris ==
    {Uri("vless", T("id"), Empty, FALSE, p, q) :
        p \in {NoPort, 8443},
        q \in {WsTls, GrpcReality, << >>, [headerType |-> T("http"), flow |-> T("vision")],
               [WsTls EXCEPT !.path = T("100%")], [WsTls EXCEPT !.path = <<"100%", 1>>]}}
    \cup {Uri("vmess", T("id"), Empty, FALSE, 443, q) :
        q \in {[net |-> T("ws"), path |-> T("a/b"), host |-> T("h2"), tls |-> T("tls"),
                sni |-> T("s")],
               [net |-> T("grpc"), path |-> T("g"), host |-> T("h2"), tls |-> T("tls")],
               [tls |-> Empty]}}
    \cup {Uri("trojan", <<"a/b", 1>>, Empty, FALSE, NoPort, WsTls)}
    \cup {Uri("ss", T("aes"), T(w), b, NoPort, << >>) :
        w \in {"pw", "pad", "slash"}, b \in BOOLEAN}
    \cup {Uri("hysteria", Empty, Empty, FALSE, 443, [auth |-> T("x"), upmbps |-> T("9"), sni |-> T("s")])}
    \cup {Uri(s, <<"a/b", 1>>, Empty, FALSE, 443, [obfs |-> T("o"), sni |-> T("s")]) :
        s \in {"hysteria2", "hy2"}}
    \cup {Uri("tuic", T("id"), <<"a/b", 1>>, FALSE, NoPort, [congestion |-> T("cubic")])}
    \cup {Uri("trojan", T(w), Empty, FALSE, 443, [security |-> T("tls")]) : w \in {"a/b", "a b"}}
    \cup {Uri("tuic", T("::1"), T("pw"), FALSE, 443, << >>), Uri("ss", T("aes"), T("a/b"), FALSE, 443, << >>),
           Uri("trojan", T("id"), Empty, FALSE, 65536, << >>)}
    \cup {[Uri("hysteria2", T("id"), Empty, FALSE, 443, << >>) EXCEPT !.host = T(h)] :
        h \in {"a/b", "::1"}}
    \cup {Uri("wireguard", T("id"), Empty, FALSE, 1, << >>)}

Config(o) == [kind |-> "config", outs |-> <<[tag |-> "direct", out |-> [protocol |-> "freedom"]],
                                            [tag |-> "proxy", out |-> o]>>]

(* Outbounds as Happ writes them, not as this code does.                   *)
Foreign ==
    {[protocol |-> "hysteria", address |-> T("h"), port |-> 443,
      cred |-> [streamAuth |-> T("a/b"), version |-> T("2")],
      stream |-> [network |-> T("hysteria"), security |-> T("tls"), sni |-> T("s")]],
     [protocol |-> "vmess", address |-> T("h"), port |-> NoPort, cred |-> [id |-> T("id")],
      stream |-> [network |-> T("ws"), security |-> T("tls"), path |-> T("100%")]],
     [protocol |-> "vmess", address |-> T("h"), port |-> 443, cred |-> [id |-> T("id")],
      stream |-> [network |-> T("tcp"), header |-> T("http")]],
     [protocol |-> "trojan", address |-> T("h"), port |-> 1, cred |-> [password |-> T("a/b")],
      stream |-> [network |-> T("httpupgrade"), path |-> <<"a/b", 1>>]],
     [protocol |-> "socks", address |-> T("h"), port |-> 1, cred |-> << >>, stream |-> << >>]}
    \cup {[protocol |-> "vless", address |-> T("h"), port |-> 443, cred |-> [id |-> i],
            stream |-> << >>] : i \in {T("100%"), T("a/b"), T("::1"), T("a b"), <<"a b", 1>>}}
    \cup {[protocol |-> p, address |-> T(a), port |-> 443,
            cred |-> IF p = "trojan" THEN [password |-> T("a b")] ELSE [id |-> T("a b")],
            stream |-> << >>] : p \in {"vmess", "trojan"}, a \in {"h", "a/b", "::1"}}
    \cup {[protocol |-> "trojan", address |-> T("h"), port |-> 65536, cred |-> [password |-> T("id")],
            stream |-> << >>]}

Outbounds == ({UriToOutbound(u) : u \in Uris} \ {NoOutbound}) \cup Foreign

First == [kind |-> "uri", uri |-> Uri("vless", T("id"), Empty, FALSE, 443, << >>)]

MCSources ==
    {[kind |-> "uri", uri |-> u] : u \in Uris}
        \cup {[kind |-> k, uri |-> First.uri] : k \in {"uri", "item", "link"}}
        \cup {[kind |-> "item", uri |-> Uri("wireguard", T("id"), Empty, FALSE, 1, << >>)]}
        \cup {Config(o) : o \in Outbounds}
        \cup {[kind |-> "bare", out |-> UriToOutbound(First.uri), tag |-> t] : t \in {"proxy", "fr"}}
        \cup {[kind |-> "bare", out |-> [protocol |-> "socks", address |-> T("h"), port |-> 1,
                                       cred |-> << >>, stream |-> << >>], tag |-> "fr"]}
        \cup {[kind |-> "config", outs |-> << >>]}

-----------------------------------------------------------------------------
Sourced == [c \in 1 .. 3 |-> IF c = 3 THEN [kind |-> "balancer", pool |-> {2}] ELSE First]
Tagged == [c \in 1 .. 3 |-> IF c = 1 THEN {"A", "B"} ELSE IF c = 2 THEN {"B"} ELSE {"A"}]
Settings == [n \in {"A", "B"} |-> IF n = "A" THEN {"announce"} ELSE {"interval", "title"}]
E(n, b) == [name |-> n, include |-> b]

Scenario(u, set, edits, loads, members, losses, calls, moves, entries) ==
    [user |-> u, rows |-> set, source |-> Sourced, tags |-> Tagged,
     budget |-> [edits |-> edits, loads |-> loads, members |-> members, losses |-> losses,
                 calls |-> calls, moves |-> moves, entries |-> entries]]

Chosen == {NoPrefs, <<E("B", TRUE), E("a", FALSE)>>, <<E("B", FALSE)>>,
           <<E("B", TRUE), E("A", TRUE)>>}

MCScenarios ==
    {Scenario([groups |-> <<"A", "B">>, prefs |-> p], Settings, 3, 1, 1, 1, 0, 0, 0) : p \in Chosen}
        \cup {Scenario([groups |-> m, prefs |-> p], s, 0, 0, 1, 0, 1, 1, 0) :
                 m \in MCMemberships, p \in Chosen,
                 s \in {Settings, [n \in {"B"} |-> {"announce"}], << >>}}
        \cup {Scenario([groups |-> <<"A", "B">>, prefs |-> NoPrefs], Settings, 0, 0, 0, 0, 1, 0, 2)}

MCSlots == 1 .. 2
=============================================================================
