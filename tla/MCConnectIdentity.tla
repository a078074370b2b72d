-------------------------- MODULE MCConnectIdentity --------------------------
(* URIs of each scheme, with a port and, where it may be missing, without; *)
(* words enough to move and renew every part.                              *)
EXTENDS ConnectIdentity

MCWords == {Empty, "none", "tcp", "true", "1", "false", "0", "a", "B/b"}
MCFresh == {"a", "B/b"}
MCTexts == {"B/b"}
MCUuids == {"a"}

MCUri(scheme, port, query) ==
    [scheme |-> scheme, user |-> "a", userUpper |-> FALSE, host |-> "a", hostUpper |-> FALSE,
     port |-> port, pathname |-> Empty, slash |-> FALSE, query |-> query]

MCUris ==
    {MCUri("vless", NoPort, <<Plain("type", "tcp"), Plain("sni", "a"), Plain("sid", "a")>>),
     MCUri("vless", 443, <<Plain("pbk", "a"), Plain("path", "B/b"), Plain("fp", "a")>>),
     MCUri("hysteria2", 1, <<Plain("insecure", "true"), Plain("auth", "B/b")>>),
     MCUri("hysteria2", NoPort, <<Plain("auth", "B/b")>>),
     MCUri("trojan", 1, <<Plain("security", "a"), Plain("sni", "B/b")>>),
     MCUri("trojan", 443, <<Plain("security", "a")>>),
     MCUri("ss", 1, <<Plain("type", "tcp")>>)}
=============================================================================
