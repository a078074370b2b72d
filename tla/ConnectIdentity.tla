--------------------------- MODULE ConnectIdentity ---------------------------
(***************************************************************************)
(* The keys by which a synchronisation recognises a node it has seen       *)
(* before.  A feed spells the same node differently from day to day and    *)
(* renews its credentials; the row of the node, with the groups and tags   *)
(* the operator gave it, must survive that, and must not pass to another   *)
(* node.  The keys are functions of a URI; the behaviour around them is    *)
(* that of a provider who respells, renews and moves one node between the  *)
(* fetches that look for its row.                                          *)
(*                                                                         *)
(* A URI is a record of its parts.  Of a text only its word is kept,       *)
(* whether it has capitals, and how often it is percent-encoded; the       *)
(* fragment (the name) is cut off first by every key and is left out, and  *)
(* so are parameters given twice.                                          *)
(***************************************************************************)
EXTENDS Naturals, Sequences, Functions

CONSTANTS
    FirstUris,     \* URIs the feed may start with
    Words,         \* words of values, hosts, paths, users
    Fresh,         \* those the provider renews and moves to
    Texts,         \* words with other characters than A-Z a-z 0-9 . _ ~ -
    Uuids,         \* words of users that are UUIDs
    Ports,
    Layers,        \* bound on percent-encoding laid over a text
    MaxParams,     \* bound on the parameters of a URI
    Changes        \* bound on what the provider does

Empty == ""
NoPort == 0
NullCore == [scheme |-> "none"]
Schemes == {"vless", "hysteria2", "trojan", "ss"}
Keys == {"type", "security", "sni", "servername", "sid", "pbk", "path",
         "encryption", "headertype", "fp", "insecure", "auth"}

BoolKeys == {"insecure"}                          \* of BOOLISH_PARAM_KEYS
CaselessKeys == {"sni", "servername", "path"}     \* lower-cased whatever they hold

(* Slip: pbk is forgotten.                                                 *)
CoreKeysWithoutPbk == {"type", "security", "sni", "servername", "path"}

(* of VLESS_CORE_QUERY_KEYS, SECRET_PARAMS                                 *)
CoreKeys == {"type", "security", "sni", "servername", "pbk", "path"}
SecretKeys == {"auth"}

ASSUME IdentityAssumption ==
    /\ {Empty, "none", "tcp", "true", "1", "false", "0"} \subseteq Words
    /\ Fresh \subseteq Words /\ Texts \subseteq Words /\ Uuids \subseteq Words
    /\ {Empty, "none", "tcp", "true", "1", "false", "0"} \cap Texts = {}
    /\ 443 \in Ports /\ Ports \subseteq Nat \ {NoPort}
    /\ Layers \in 0 .. 5 /\ MaxParams \in Nat /\ Changes \in Nat

Param == [key: Keys, capital: BOOLEAN, word: Words, upper: BOOLEAN, layers: 0 .. Layers]
Uri == [scheme: Schemes, user: Words, userUpper: BOOLEAN, host: Words, hostUpper: BOOLEAN,
        port: Ports \cup {NoPort}, pathname: Words, slash: BOOLEAN, query: Seq(Param)]

(* Schemes whose clients take a missing port for 443 (for ss it is 8388).  *)
PortOptional == {"vless", "trojan", "hysteria2"}

(* A word stands for its case where that matters.                          *)
Cased(p) == p.upper => p.word \notin Texts \/ p.key \in CaselessKeys

ASSUME FirstUrisAssumption ==
    /\ FirstUris \subseteq Uri
    /\ \A v \in FirstUris :
          /\ \A i \in DOMAIN v.query : Cased(v.query[i])
          /\ v.userUpper => v.user \in Uuids

VARIABLES
    uri,      \* the URI the feed lists for the node
    connect,  \* Connect: [raw, identityKey]; the key is missing in old rows
    births,   \* rows created in place of the first
    changes   \* what the provider may still do

identityVars == <<uri, connect, births, changes>>

-----------------------------------------------------------------------------
BoolWord(w) == CASE w \in {"true", "1"} -> "1"
                 [] w \in {"false", "0"} -> "0"
                 [] OTHER -> w

(* normalizeQueryValueForIdentity, after multiDecodeFormValue; the key is  *)
(* lower-cased.                                                            *)
Norm(p) ==
    [key |-> p.key,
     word |-> IF p.key \in BoolKeys THEN BoolWord(p.word) ELSE p.word,
     upper |-> p.upper /\ p.word \in Texts /\ p.key \notin CaselessKeys]

(* canonicalSearchFromUrlSearch: sorted, that is a set.                    *)
Canonical(query) == {Norm(p) : p \in {p \in Range(query) : p.word # Empty}}

(* stripRedundantVlessIdentityQuery                                        *)
StripRedundant(c) ==
    LET sni == {x \in c : x.key = "sni"}
        server == {[x EXCEPT !.key = "sni"] : x \in {x \in c : x.key = "servername"}}
        tcp == \E x \in c : x.key = "type" /\ x.word = "tcp"
    IN {x \in c :
            /\ ~ (x.key = "encryption" /\ x.word = "none")
            /\ ~ (x.key = "headertype" /\ x.word = "none" /\ tcp)
            /\ x.key # "sid"
            /\ x.key = "servername" => sni \notin {{}, server} }
       \cup (IF sni = {} THEN server ELSE {})

-----------------------------------------------------------------------------
(* Keys.                                                                   *)
DefaultPort(v) == IF v.port = NoPort THEN 443 ELSE v.port

(* normalizedConnectIdentity, buildIdentityFromUrl                         *)
FullKey(v) ==
    [scheme |-> v.scheme,
     user |-> v.user,
     userUpper |-> v.userUpper /\ v.user \notin Uuids,
     host |-> v.host,
     port |-> IF v.scheme \in {"vless", "trojan"} THEN DefaultPort(v) ELSE v.port,
     pathname |-> v.pathname,
     query |-> IF v.scheme = "vless" THEN StripRedundant(Canonical(v.query))
                                     ELSE Canonical(v.query)]

(* Slip: the port is taken as it is given.                                 *)
VlessCorePortGiven(v) ==
    [scheme |-> "vless", host |-> v.host, port |-> v.port, pathname |-> v.pathname,
     query |-> {x \in Canonical(v.query) : x.key \in CoreKeys \ {"sni", "servername", "sid"}}]

(* buildVlessCoreIdentityForMatching, with omitSniAndSid                   *)
VlessCore(v) ==
    [scheme |-> "vless", host |-> v.host, port |-> DefaultPort(v), pathname |-> v.pathname,
     query |-> {x \in Canonical(v.query) : x.key \in CoreKeys \ {"sni", "servername", "sid"}}]

(* buildServerOnlyStableIdentity                                           *)
ServerOnly(v) ==
    [scheme |-> v.scheme, host |-> v.host, port |-> v.port,
     query |-> {x \in Canonical(v.query) : x.key \notin SecretKeys}]

(* stableMatchIdentity                                                     *)
CoreKey(v) ==
    CASE v.scheme = "vless" -> VlessCore(v)
      [] v.scheme \in {"hysteria2", "trojan"} -> ServerOnly(v)
      [] OTHER -> NullCore

(* subscriptionIncomingDedupeKey                                           *)
IncomingKey(v) ==
    IF CoreKey(v) # NullCore THEN <<"stable", CoreKey(v)>> ELSE <<"full", FullKey(v)>>

-----------------------------------------------------------------------------
(* connectMatchesIdentity                                                  *)
Recognises(c, v) ==
    \/ FullKey(c.raw) = FullKey(v)
    \/ c.identityKey = <<FullKey(v)>>
    \/ CoreKey(c.raw) # NullCore /\ CoreKey(c.raw) = CoreKey(v)

IdentityInit ==
    /\ uri \in FirstUris
    /\ \E key \in {<<>>, <<FullKey(uri)>>} : connect = [raw |-> uri, identityKey |-> key]
    /\ births = 0
    /\ changes = Changes

(* Slip: the key stays as it was stored first.                             *)
FetchKeepingKey ==
    /\ births' = IF Recognises(connect, uri) THEN births ELSE births + 1
    /\ connect' = [raw |-> uri, identityKey |->
                       IF connect.identityKey # <<>> THEN connect.identityKey ELSE <<FullKey(uri)>>]
    /\ UNCHANGED <<uri, changes>>

(* A synchronisation: the row is updated, or replaced by a new one.        *)
Fetch ==
    /\ births' = IF Recognises(connect, uri) THEN births ELSE births + 1
    /\ connect' = [raw |-> uri, identityKey |-> <<FullKey(uri)>>]
    /\ UNCHANGED <<uri, changes>>

-----------------------------------------------------------------------------
(* The provider.                                                           *)
Provide(v) ==
    /\ changes > 0
    /\ changes' = changes - 1
    /\ uri' = v
    /\ UNCHANGED <<connect, births>>

Params == DOMAIN uri.query
Has(k) == \E i \in Params : uri.query[i].key = k
With(i, p) == [uri EXCEPT !.query[i] = p]
Added(p) == [uri EXCEPT !.query = Append(@, p)]
Plain(k, w) == [key |-> k, capital |-> FALSE, word |-> w, upper |-> FALSE, layers |-> 0]

(* Another spelling of a parameter; the case of a text matters, unless it  *)
(* is that of a name of a host or a path.                                  *)
Respelt(p) ==
    {[p EXCEPT !.capital = ~ @], [p EXCEPT !.layers = (@ + 1) % (Layers + 1)]} \cup
    {[p EXCEPT !.upper = ~ @] : x \in {x \in {p} : x.word \notin Texts \/ x.key \in CaselessKeys}} \cup
    {[p EXCEPT !.word = w] : w \in {w \in Words : /\ p.key \in BoolKeys
                                                /\ BoolWord(w) = BoolWord(p.word)}}

RespellParam(i) == \E p \in Respelt(uri.query[i]) : Provide(With(i, p))

SwapParams(i) ==
    /\ i + 1 \in Params
    /\ Provide([uri EXCEPT !.query[i] = uri.query[i + 1], !.query[i + 1] = uri.query[i]])

RespellHost == Provide([uri EXCEPT !.hostUpper = ~ @])
RespellPath == Provide([uri EXCEPT !.slash = ~ @])
RespellUser == uri.user \in Uuids /\ Provide([uri EXCEPT !.userUpper = ~ @])

RespellPort ==
    /\ uri.scheme \in PortOptional /\ uri.port \in {NoPort, 443}
    /\ Provide([uri EXCEPT !.port = IF @ = NoPort THEN 443 ELSE NoPort])

(* A parameter that says nothing.                                          *)
AddIdle(p) ==
    /\ Len(uri.query) < MaxParams /\ ~ Has(p.key)
    /\ \/ p.word = Empty
       \/ uri.scheme = "vless" /\ p.key = "encryption" /\ p.word = "none"
       \/ /\ uri.scheme = "vless" /\ p.key = "headertype" /\ p.word = "none"
          /\ \E i \in Params : uri.query[i].key = "type" /\ uri.query[i].word = "tcp"
    /\ Provide(Added(p))

(* Some clients write serverName for sni.                                  *)
RenameSni(i) ==
    LET p == uri.query[i] IN
    /\ uri.scheme = "vless"
    /\ \/ p.key = "sni" /\ ~ Has("servername") /\ Provide(With(i, [p EXCEPT !.key = "servername"]))
       \/ p.key = "servername" /\ ~ Has("sni") /\ Provide(With(i, [p EXCEPT !.key = "sni"]))
       \/ /\ p.key = "sni" /\ ~ Has("servername") /\ Len(uri.query) < MaxParams
          /\ Provide(Added([p EXCEPT !.key = "servername"]))

(* What a subscription may renew: the user, and what the core leaves out.  *)
RenewUser(w) == w \notin {Empty, uri.user} /\ Provide([uri EXCEPT !.user = w, !.userUpper = FALSE])

RenewParam(i, w) ==
    /\ uri.query[i].key \in IF uri.scheme = "vless" THEN {"sni", "servername", "sid", "fp"}
                                              ELSE SecretKeys
    /\ w # uri.query[i].word
    /\ Provide(With(i, [uri.query[i] EXCEPT !.word = w, !.upper = FALSE]))

(* What makes it another node.                                             *)
MoveHost(w) == w \notin {Empty, uri.host} /\ Provide([uri EXCEPT !.host = w])
MovePort(p) == p # uri.port /\ Provide([uri EXCEPT !.port = p])

MoveParam(i, w) ==
    /\ uri.query[i].key \in {"type", "security", "pbk", "path"}
    /\ w \notin {Empty, uri.query[i].word}
    /\ Provide(With(i, [uri.query[i] EXCEPT !.word = w, !.upper = FALSE]))

-----------------------------------------------------------------------------
Respell ==
    \/ \E i \in Params : RespellParam(i) \/ SwapParams(i) \/ RenameSni(i)
    \/ RespellHost \/ RespellPath \/ RespellUser \/ RespellPort
    \/ \E k \in Keys, w \in {Empty, "none"} : AddIdle(Plain(k, w))

Renew == \E w \in Fresh : RenewUser(w) \/ \E i \in Params : RenewParam(i, w)

Move ==
    \/ \E w \in Fresh : MoveHost(w) \/ \E i \in Params : MoveParam(i, w)
    \/ \E p \in Ports : MovePort(p)

IdentityNext == Fetch \/ Respell \/ Renew \/ Move

IdentitySpec == IdentityInit /\ [][IdentityNext]_identityVars

-----------------------------------------------------------------------------
IdentityTypeOK ==
    /\ uri \in Uri
    /\ connect.raw \in Uri /\ connect.identityKey \in {<<>>, <<FullKey(connect.raw)>>}
    /\ births \in Nat /\ changes \in Nat

(* What a client connects to, and as whom: the reference the keys are      *)
(* held against.                                                           *)
NodeOf(v) ==
    [scheme |-> v.scheme, host |-> v.host,
     port |-> IF v.scheme \in PortOptional THEN DefaultPort(v) ELSE v.port,
     params |-> [k \in {"type", "security", "pbk", "path"} |->
                    {p.word : p \in {p \in Range(v.query) : p.key = k}} \ {Empty}]]

CredentialsOf(v) ==
    <<v.user, {p.word : p \in {p \in Range(v.query) : p.key \in SecretKeys}} \ {Empty}>>

SameNode(v, w) ==
    /\ NodeOf(v) = NodeOf(w)
    /\ CoreKey(v) = NullCore => CredentialsOf(v) = CredentialsOf(w)

(* Of the keys that leave credentials out only that of vless takes a       *)
(* missing port for 443.                                                   *)
SamePort(v, w) == v.scheme = "vless" \/ (v.port = NoPort) = (w.port = NoPort)

(* A node is one entry of a list, however it is spelled and whatever its   *)
(* credentials: no sequence of respellings and renewals changes the key    *)
(* that removes duplicates (comments at the head of the file and on        *)
(* subscriptionIncomingDedupeKey).  Without a core, credentials count.     *)
(* Nor are there two entries with one full key, which would claim the same *)
(* row.  The one exception is a port that is written in one spelling and   *)
(* left out in the other: then there are always two, unless it is vless,   *)
(* although the head of the file promises one for trojan.                  *)
ListedOnce ==
    SameNode(uri, connect.raw) \/ FullKey(uri) = FullKey(connect.raw)
        => (IncomingKey(uri) = IncomingKey(connect.raw) <=> SamePort(uri, connect.raw))

(* A fetch keeps the row of a node that was only respelled and renewed,    *)
(* and never passes a row, with its groups and tags, to a node with        *)
(* another address or other settings (connectMatchesIdentity).  A port     *)
(* written out or left out makes a hysteria2 node new, and a trojan node   *)
(* if its credentials were renewed as well.                                *)
RowPerNode ==
    [][/\ births' # births /\ SameNode(uri, connect.raw) =>
              /\ ~ SamePort(uri, connect.raw)
              /\ uri.scheme = "trojan" => CredentialsOf(uri) # CredentialsOf(connect.raw)
       /\ NodeOf(connect'.raw) # NodeOf(connect.raw) => births' # births]_identityVars
=============================================================================
