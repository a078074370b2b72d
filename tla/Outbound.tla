------------------------------- MODULE Outbound -------------------------------
(***************************************************************************)
(* uri-to-outbound.util.ts: the conversions between a proxy URI, which the *)
(* BASE64 feed carries, and an outbound object, which the JSON feed        *)
(* carries.  Both feeds are built from one row, so the two forms must lead *)
(* to the same server.                                                     *)
(*                                                                         *)
(* A text is a word and the number of percent-encodings laid over it.      *)
(* User name, password and host are given as they are written in the URI,  *)
(* and what new URL makes of them is AsRead; parameters as they stand when *)
(* URLSearchParams has decoded them.  The body of a vmess link is JSON in  *)
(* base64 and is given by the same parts.  The fragment, which is the      *)
(* name, is left out, and that upper case does not count in a scheme;      *)
(* alterId, up and down are numbers.                                       *)
(***************************************************************************)
EXTENDS Naturals, Sequences, Functions

CONSTANTS
    Special,     \* words encodeURIComponent changes
    Malformed,   \* those on which decodeURIComponent throws as they stand
    Padded,      \* passwords for which base64(method:password) ends in =
    Slashed,     \* passwords for which it has a slash
    Ending,      \* words that end the authority of a URI: with / in them (what
                 \* ? and # take from the parameters besides is left out)
    Parted,      \* words with a colon
    Escaped,     \* words URL percent-encodes: a blank, @, letters beyond ASCII
    Hostless     \* words URL does not take for a host: none, a colon outside
                 \* brackets (an IPv6 address), a blank

ASSUME TextsAssumption ==
    /\ Malformed \cup Ending \cup Parted \cup Escaped \subseteq Special
    /\ "" \notin Special

Plain(w) == <<w, 0>>
Empty == Plain("")
Other == Plain("part")   \* some part of a text

Encode(t) == IF t[1] \in Special THEN <<t[1], t[2] + 1>> ELSE t
Decode(t) == IF t[2] > 0 THEN <<t[1], t[2] - 1>> ELSE t
Bare(t, words) == t[2] = 0 /\ t[1] \in words
Throws(t) == Bare(t, Malformed)

Or(t, other) == IF t = Empty THEN other ELSE t
Given(f) == Restrict(f, {k \in DOMAIN f : f[k] # Empty})
At(f, k, default) == IF k \in DOMAIN f THEN f[k] ELSE default
Over(f, g) == [k \in DOMAIN f \cup DOMAIN g |-> IF k \in DOMAIN f THEN f[k] ELSE g[k]]

NoPort == 0
PortOr(p, default) == IF p = NoPort THEN default ELSE p

NoOutbound == [protocol |-> "none"]
NoUri == [scheme |-> "none"]

Schemes == {"vless", "vmess", "trojan", "ss", "hysteria", "hysteria2", "hy2", "tuic"}

-----------------------------------------------------------------------------
(* URI -> outbound.  First what new URL reads.  In base64 the user name    *)
(* cannot be changed, but a slash in it ends the authority like any other: *)
(* what stands before is taken for the host.                               *)
MaxPort == 65535

NameEnds(u) == IF u.base64 THEN u.pass[1] \in Slashed ELSE Bare(u.user, Ending)
HostEnds(u) == Bare(u.host, Ending \ Hostless)

Authority(u) ==
    IF NameEnds(u) THEN [u EXCEPT !.user = Empty, !.pass = Empty, !.base64 = FALSE,
                                  !.host = Other, !.port = NoPort]
    ELSE IF HostEnds(u) THEN [u EXCEPT !.host = Other, !.port = NoPort]
    ELSE u

(* safeUrl returns null.                                                   *)
Rejected(u) ==
    LET a == Authority(u) IN
    \/ Bare(a.host, Hostless) \/ a.port > MaxPort
    \/ ~ a.base64 /\ Bare(a.pass, Ending)

(* A colon ends the user name, and URL writes in percent-encoding what it  *)
(* finds bare.  vmess is not read by URL.                                  *)
AsRead(u) ==
    LET a == Authority(u)
        percent(t, words) == IF Bare(t, words) THEN Encode(t) ELSE t
        parted == ~ a.base64 /\ Bare(a.user, Parted)
    IN IF u.scheme = "vmess" THEN u
       ELSE [scheme |-> u.scheme, base64 |-> a.base64, port |-> a.port, query |-> u.query,
             host |-> percent(a.host, Escaped),
             user |-> IF a.base64 THEN a.user
                      ELSE IF parted THEN Other ELSE percent(a.user, Escaped),
             pass |-> IF a.base64 THEN a.pass
                      ELSE IF parted THEN Other ELSE percent(a.pass, Escaped \cup Parted)]

Query(u, k) == At(u.query, k, Empty)

PathNetworks == {"ws", "h2", "http", "httpupgrade", "xhttp", "splithttp"}
HasPath(network) == \E n \in PathNetworks : network = Plain(n)

Network(u) == Or(Query(u, "type"), Plain("tcp"))

Transport(u) ==
    CASE HasPath(Network(u)) ->
            Given([path |-> Decode(Query(u, "path")), host |-> Query(u, "host")])
      [] Network(u) = Plain("grpc") -> Given([service |-> Query(u, "serviceName")])
      [] Network(u) = Plain("tcp") ->
            Given([header |-> IF Query(u, "headerType") = Plain("none") THEN Empty
                              ELSE Query(u, "headerType")])
      [] OTHER -> << >>

Tls(u) ==
    Given([sni |-> Or(Query(u, "sni"), Or(Query(u, "peer"), u.host)),
           fp |-> Query(u, "fp"), alpn |-> Query(u, "alpn")])

Reality(u) ==
    Given([sni |-> Or(Query(u, "sni"), Query(u, "serverName")),
           pbk |-> Or(Query(u, "pbk"), Query(u, "publicKey")),
           fp |-> Query(u, "fp"), sid |-> Query(u, "sid"), spx |-> Query(u, "spx")])

(* buildStreamSettings *)
StreamSettings(u) ==
    LET security == Or(Query(u, "security"), Plain("none")) IN
    Over([network |-> Network(u), security |-> security],
         Over(Transport(u), CASE security = Plain("tls") -> Tls(u)
                              [] security = Plain("reality") -> Reality(u)
                              [] OTHER -> << >>))

(* settings and streamSettings of schemes that are always TLS.             *)
TlsStream(network, sni, alpn) ==
    Given([network |-> Plain(network), security |-> Plain("tls"), sni |-> sni, alpn |-> alpn])

Made(protocol, u, port, cred, stream) ==
    [protocol |-> protocol, address |-> u.host, port |-> PortOr(u.port, port),
     cred |-> Given(cred), stream |-> stream]

ParseVless(u) ==
    Made("vless", u, 443,
         [id |-> u.user, encryption |-> Or(Query(u, "encryption"), Plain("none")),
          flow |-> Query(u, "flow")],
         StreamSettings(u))

(* Keys of the JSON body count when they are there, empty or not (??).     *)
ParseVmess(u) ==
    LET network == At(u.query, "net", Plain("tcp"))
        tls == At(u.query, "tls", Empty)
        transport ==
            CASE \E n \in {"ws", "h2", "http"} : network = Plain(n) ->
                    [path |-> At(u.query, "path", Plain("/")), host |-> Query(u, "host")]
              [] network = Plain("grpc") -> [service |-> Query(u, "path")]
              [] OTHER -> << >>
        security ==
            IF tls = Plain("tls")
            THEN [sni |-> At(u.query, "sni", At(u.query, "host", u.host)),
                  fp |-> Query(u, "fp"), alpn |-> Query(u, "alpn")]
            ELSE << >>
    IN Made("vmess", u, 443,
            [id |-> u.user, alterId |-> At(u.query, "aid", Plain("0")),
             scy |-> At(u.query, "scy", At(u.query, "security", Plain("auto")))],
            Over([network |-> network, security |-> Or(tls, Plain("none"))],
                 Over(Given(transport), Given(security))))

ParseTrojan(u) ==
    Made("trojan", u, 443, [password |-> Decode(u.user)], StreamSettings(u))

(* user:password, or both in base64.  URL writes the padding of base64 as  *)
(* %3D, whose digits Buffer.from decodes with the rest.                    *)
ParseShadowsocks(u) ==
    Made("shadowsocks", u, 8388,
         IF u.base64
         THEN [method |-> u.user, password |-> IF u.pass[1] \in Padded THEN Other ELSE u.pass]
         ELSE [method |-> Decode(u.user), password |-> Decode(u.pass)],
         StreamSettings(u))

ParseHysteria(u) ==
    LET auth == Or(Query(u, "auth"), u.user) IN
    Made("hysteria", u, 443,
         [auth |-> auth, streamAuth |-> auth,
          up |-> Query(u, "upmbps"), down |-> Query(u, "downmbps")],
         TlsStream("hysteria", Or(Query(u, "peer"), Or(Query(u, "sni"), u.host)), Plain("h3")))

ParseHysteria2(u) ==
    LET auth == Decode(Or(u.user, u.pass)) IN
    Made("hysteria2", u, 443,
         [auth |-> auth, streamAuth |-> auth, version |-> Plain("2"),
          obfs |-> Query(u, "obfs"), obfsPassword |-> Query(u, "obfs-password")],
         TlsStream("hysteria", Or(Query(u, "sni"), u.host), Plain("h3")))

ParseTuic(u) ==
    Made("tuic", u, 443,
         [uuid |-> Decode(u.user), password |-> Decode(u.pass),
          congestion |-> Or(Query(u, "congestion_control"),
                            Or(Query(u, "congestion"), Plain("bbr")))],
         TlsStream("quic", Or(Query(u, "sni"), u.host), Or(Query(u, "alpn"), Plain("h3"))))

(* No URL, or a decodeURIComponent that throws, which uriToOutbound        *)
(* catches.                                                                *)
Unreadable(u) ==
    LET a == Authority(u)
        path == HasPath(Network(u)) /\ Throws(Query(u, "path"))
    IN u.scheme # "vmess" /\
       \/ Rejected(u)
       \/ u.scheme \in {"vless", "trojan", "ss"} /\ path
       \/ u.scheme \in {"trojan", "tuic"} /\ Throws(a.user)
       \/ u.scheme = "tuic" /\ Throws(a.pass)
       \/ u.scheme = "ss" /\ ~ a.base64 /\ (Throws(a.user) \/ Throws(a.pass))
       \/ u.scheme \in {"hysteria2", "hy2"} /\ Throws(Or(a.user, a.pass))

UriToOutbound(u) ==
    IF u.scheme \notin Schemes \/ Unreadable(u) THEN NoOutbound
    ELSE LET r == AsRead(u) IN
         CASE u.scheme = "vless" -> ParseVless(r)
           [] u.scheme = "vmess" -> ParseVmess(r)
           [] u.scheme = "trojan" -> ParseTrojan(r)
           [] u.scheme = "ss" -> ParseShadowsocks(r)
           [] u.scheme = "hysteria" -> ParseHysteria(r)
           [] u.scheme \in {"hysteria2", "hy2"} -> ParseHysteria2(r)
           [] u.scheme = "tuic" -> ParseTuic(r)

-----------------------------------------------------------------------------
(* Outbound -> URI.                                                        *)
Cred(o, k) == At(o.cred, k, Empty)
Stream(o, k) == At(o.stream, k, Empty)

(* streamToQuery *)
StreamToQuery(o) ==
    LET network == Or(Stream(o, "network"), Plain("tcp"))
        security == Stream(o, "security")
        keys == (IF HasPath(network) THEN {"path", "host"} ELSE {})
                \cup (CASE security = Plain("tls") -> {"sni", "fp", "alpn"}
                        [] security = Plain("reality") -> {"sni", "pbk", "fp", "sid", "spx"}
                        [] OTHER -> {})
        transport ==
            CASE network = Plain("grpc") -> [serviceName |-> Stream(o, "service")]
              [] network = Plain("tcp") ->
                    [headerType |-> IF Stream(o, "header") = Plain("none") THEN Empty
                                    ELSE Stream(o, "header")]
              [] OTHER -> << >>
    IN Over([type |-> network],
            Over(Given([security |-> IF security = Plain("none") THEN Empty ELSE security]),
                 Over(Given(transport), Given([k \in keys |-> Stream(o, k)]))))

(* The address is written as it is, bare: an IPv6 address without its      *)
(* brackets.                                                               *)
Link(scheme, user, pass, base64, o, port, query) ==
    [scheme |-> scheme, user |-> user, pass |-> pass, base64 |-> base64,
     host |-> o.address, port |-> PortOr(o.port, port), query |-> query]

(* So is the id of vless, which the others encode.                         *)
VlessToUri(o) ==
    IF Cred(o, "id") = Empty THEN NoUri
    ELSE Link("vless", Cred(o, "id"), Empty, FALSE, o, 443,
              Over(Given([encryption |-> Or(Cred(o, "encryption"), Plain("none")),
                          flow |-> Cred(o, "flow")]),
                   StreamToQuery(o)))

(* Slip: the service of gRPC is not written.                               *)
VmessToUriNoService(o) ==
    LET network == Or(Stream(o, "network"), Plain("tcp"))
        tls == Stream(o, "security") = Plain("tls")
        path == \E n \in {"ws", "h2", "http"} : network = Plain(n)
        OfTls(k) == IF tls THEN Stream(o, k) ELSE Empty
    IN IF Cred(o, "id") = Empty THEN NoUri
       ELSE Link("vmess", Cred(o, "id"), Empty, FALSE, o, 443,
                 [aid |-> Or(Cred(o, "alterId"), Plain("0")),
                  scy |-> Or(Cred(o, "scy"), Plain("auto")),
                  net |-> network,
                  path |-> IF path THEN Stream(o, "path") ELSE Empty,
                  host |-> IF path THEN Stream(o, "host") ELSE Empty,
                  tls |-> IF tls THEN Plain("tls") ELSE Empty,
                  sni |-> OfTls("sni"), fp |-> OfTls("fp"), alpn |-> OfTls("alpn")])

VmessToUri(o) ==
    LET network == Or(Stream(o, "network"), Plain("tcp"))
        tls == Stream(o, "security") = Plain("tls")
        path == \E n \in {"ws", "h2", "http"} : network = Plain(n)
        OfTls(k) == IF tls THEN Stream(o, k) ELSE Empty
    IN IF Cred(o, "id") = Empty THEN NoUri
       ELSE Link("vmess", Cred(o, "id"), Empty, FALSE, o, 443,
                 [aid |-> Or(Cred(o, "alterId"), Plain("0")),
                  scy |-> Or(Cred(o, "scy"), Plain("auto")),
                  net |-> network,
                  path |-> IF path THEN Stream(o, "path")
                           ELSE IF network = Plain("grpc") THEN Stream(o, "service") ELSE Empty,
                  host |-> IF path THEN Stream(o, "host") ELSE Empty,
                  tls |-> IF tls THEN Plain("tls") ELSE Empty,
                  sni |-> OfTls("sni"), fp |-> OfTls("fp"), alpn |-> OfTls("alpn")])

TrojanToUri(o) ==
    IF Cred(o, "password") = Empty THEN NoUri
    ELSE Link("trojan", Encode(Cred(o, "password")), Empty, FALSE, o, 443, StreamToQuery(o))

(* The stream settings are not written.                                    *)
SsToUri(o) ==
    IF Empty \in {Cred(o, "method"), Cred(o, "password")} THEN NoUri
    ELSE Link("ss", Cred(o, "method"), Cred(o, "password"), TRUE, o, 8388, << >>)

HysteriaToUri(o) ==
    Link("hysteria", Empty, Empty, FALSE, o, 443,
         Given([peer |-> Or(Stream(o, "sni"), o.address),
                auth |-> At(o.cred, "auth", Cred(o, "streamAuth")),
                upmbps |-> Cred(o, "up"), downmbps |-> Cred(o, "down")]))

Hysteria2ToUri(o) ==
    LET auth == At(o.cred, "streamAuth", Cred(o, "auth")) IN
    Link("hysteria2", Encode(auth), Empty, FALSE, o, 443,
         Given(Over([k \in {"obfs-password"} |-> Cred(o, "obfsPassword")],
                    [sni |-> Or(Stream(o, "sni"), o.address), auth |-> auth,
                     obfs |-> Cred(o, "obfs")])))

TuicToUri(o) ==
    IF Cred(o, "uuid") = Empty THEN NoUri
    ELSE Link("tuic", Encode(Cred(o, "uuid")), Encode(Cred(o, "password")), FALSE, o, 443,
              [sni |-> Or(Stream(o, "sni"), o.address),
               alpn |-> Or(Stream(o, "alpn"), Plain("h3")),
               congestion_control |-> Or(Cred(o, "congestion"), Plain("bbr"))])

(* Happ calls hysteria2 "hysteria" with version 2.                         *)
Protocol(o) ==
    IF o.protocol = "hysteria" /\ Cred(o, "version") = Plain("2") THEN "hysteria2" ELSE o.protocol

OutboundToUri(o) ==
    IF o.address = Empty THEN NoUri
    ELSE CASE Protocol(o) = "vless" -> VlessToUri(o)
           [] Protocol(o) = "vmess" -> VmessToUri(o)
           [] Protocol(o) = "trojan" -> TrojanToUri(o)
           [] Protocol(o) = "shadowsocks" -> SsToUri(o)
           [] Protocol(o) = "hysteria" -> HysteriaToUri(o)
           [] Protocol(o) = "hysteria2" -> Hysteria2ToUri(o)
           [] Protocol(o) = "tuic" -> TuicToUri(o)
           [] OTHER -> NoUri

(* extractProxyOutbound, of the list of a config's outbounds: that tagged  *)
(* proxy, else the first that is not one of the client's own.              *)
ExtractProxyOutbound(outs) ==
    LET tagged == {i \in DOMAIN outs : outs[i].tag = "proxy"}
        others == {i \in DOMAIN outs :
                      outs[i].out.protocol \notin {"freedom", "blackhole", "dns"}}
        first(places) == outs[CHOOSE i \in places : \A j \in places : i <= j].out
    IN IF tagged # {} THEN first(tagged)
       ELSE IF others # {} THEN first(others)
       ELSE NoOutbound
=============================================================================
