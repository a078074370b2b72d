-------------------------- MODULE AccessLink_proofs --------------------------
(***************************************************************************)
(* For any number of users, codes, tokens and requests at once: types, that *)
(* a link with a token opens its owner's feed only, that stored links are   *)
(* current as long as no requests overlap, and that a request that makes a  *)
(* link, overlapped by none, leaves one that opens the feed.                *)
(*                                                                         *)
(* The argument: every token about is traced to the user it was drawn for; *)
(* a request overlapped by none is the only one, and what it has read of   *)
(* its user is still so.                                                   *)
(***************************************************************************)
EXTENDS AccessLink, TLAPS

Own(t, u, dr) == t # NoToken => t \in DOMAIN dr /\ dr[t] = u

(* What local variables may be at each call.                               *)
Shape(r) ==
    /\ r.kind = "create" => r.data = {} /\ r.pc \in {"fetch", "write"}
    /\ r.kind = "link" => r.data = {"link"} /\ r.pc \in {"token", "setToken", "read", "fetch", "write"}
    /\ r.kind = "edit" => /\ "code" \in r.data <=> "link" \in r.data
                          /\ r.pc \in {"taken", "token", "setToken", "fetch", "write"}
                          /\ r.pc # "write" => "link" \in r.data
                          /\ "link" \notin r.data => r.link = NoLink
    /\ r.kind = "feed" => /\ r.data = {} /\ r.link # NoLink
                          /\ r.pc \in {"token", "setToken", "serve"}
    /\ r.kind # "feed" => /\ r.owner = r.user
                          /\ r.pc # "write" => r.link = NoLink
                          /\ r.link # NoLink => r.link = Address(r.code, r.token, r.crypto)

Traced(r, dr) == Own(r.token, r.user, dr) /\ (r.link # NoLink => Own(r.link.token, r.owner, dr))

(* What a request has read is still so.                                    *)
Synced(r, usr) ==
    r.kind \in {"link", "edit"} =>
        /\ r.user \in DOMAIN usr
        /\ r.pc \in {"read", "fetch", "write"} /\ "link" \in r.data => r.token = usr[r.user].token
        /\ r.kind = "link" /\ r.pc \in {"fetch", "write"} =>
              r.code = usr[r.user].code /\ r.crypto = usr[r.user].cryptoOnly
        /\ r.kind = "edit" /\ "crypto" \notin r.data => r.crypto = usr[r.user].cryptoOnly

Fine(r, usr, dr) ==
    /\ RequestOK(r) /\ Shape(r) /\ Traced(r, dr)
    /\ r.solo => Synced(r, usr)

Requests ==
    /\ DOMAIN reqs \subseteq Slots
    /\ \A s \in DOMAIN reqs : Fine(reqs[s], user, drawn)
    /\ \A s, q \in DOMAIN reqs : reqs[s].solo => q = s
    /\ serial => \A s \in DOMAIN reqs : reqs[s].solo

Current(v) == v.link # NoLink => v.link.code = v.code /\ v.link.token = v.token

RowFine(u, v, dr) ==
    /\ v \in Row
    /\ Own(v.token, u, dr) /\ (v.link # NoLink => Own(v.link.token, u, dr))

Rows ==
    /\ \A u \in Live : RowFine(u, user[u], drawn)
    /\ serial => \A u \in Live : Current(user[u])

HeldTraced == \A h \in held : Own(h.link.token, h.owner, drawn)

IInv == Tables /\ Requests /\ Rows /\ HeldTraced

(* The user of a request has an id that is used.                           *)
Born == \A s \in DOMAIN reqs : reqs[s].user \notin unborn

(* Tokens drawn stay drawn for whom they were.                             *)
Grown == \A t \in DOMAIN drawn : t \in DOMAIN drawn' /\ drawn'[t] = drawn[t]

-----------------------------------------------------------------------------
(* Requests begin, go on and end.                                          *)
LEMMA Disturb ==
    ASSUME NEW r, NEW usr, NEW usr2, NEW dr, NEW dr2, Fine(r, usr, dr),
           \A t \in DOMAIN dr : t \in DOMAIN dr2 /\ dr2[t] = dr[t]
    PROVE  /\ Fine([r EXCEPT !.solo = FALSE], usr2, dr2)
           /\ ~ r.solo => Fine(r, usr2, dr2)
<1> DEFINE n == [r EXCEPT !.solo = FALSE]
<1>1. r \in LocalState
  BY DEF Fine, RequestOK
<1>2. /\ n \in LocalState /\ n.solo = FALSE
      /\ n.kind = r.kind /\ n.pc = r.pc /\ n.user = r.user /\ n.owner = r.owner /\ n.code = r.code
      /\ n.crypto = r.crypto /\ n.token = r.token /\ n.link = r.link /\ n.data = r.data
  BY <1>1 DEF LocalState
<1> HIDE DEF n
<1>3. RequestOK(n) /\ Shape(n)
  BY <1>2 DEF Fine, RequestOK, Shape
<1>4. Traced(r, dr2)
  BY DEF Fine, Traced, Own
<1>5. Traced(n, dr2)
  BY <1>2, <1>4 DEF Traced
<1>6. Fine(n, usr2, dr2)
  BY <1>2, <1>3, <1>5 DEF Fine
<1>7. ~ r.solo => Fine(r, usr2, dr2)
  BY <1>4 DEF Fine
<1> QED BY <1>6, <1>7 DEF n

LEMMA Begins ==
    ASSUME Requests, NEW s, NEW r, Begin(s, r), r.solo <=> Alone, Grown, Fine(r, user', drawn')
    PROVE  Requests'
<1>1. /\ s \in Slots \ DOMAIN reqs
      /\ DOMAIN reqs' = DOMAIN reqs \cup {s}
      /\ reqs'[s] = r
      /\ \A q \in DOMAIN reqs : reqs'[q] = [reqs[q] EXCEPT !.solo = FALSE]
      /\ serial' <=> serial /\ Alone
  BY DEF Begin, Disturbed
<1>2. \A q \in DOMAIN reqs : Fine(reqs'[q], user', drawn')
  BY <1>1, Disturb DEF Requests, Grown
<1>3. \A q \in DOMAIN reqs : ~ reqs'[q].solo
  <2>1. \A q \in DOMAIN reqs : reqs[q] \in LocalState
    BY DEF Requests, Fine, RequestOK
  <2> QED BY <1>1, <2>1 DEF LocalState
<1>4. DOMAIN reqs' \subseteq Slots /\ \A q \in DOMAIN reqs' : Fine(reqs'[q], user', drawn')
  BY <1>1, <1>2 DEF Requests
<1>5. \A p, q \in DOMAIN reqs' : reqs'[p].solo => q = p
  BY <1>1, <1>3 DEF Alone
<1>6. serial' => \A q \in DOMAIN reqs' : reqs'[q].solo
  BY <1>1 DEF Alone
<1> QED BY <1>4, <1>5, <1>6 DEF Requests

LEMMA GoesOn ==
    ASSUME Requests, NEW s \in DOMAIN reqs, NEW r, Goto(s, r), r.solo <=> reqs[s].solo, Grown,
           Fine(r, user', drawn')
    PROVE  Requests'
<1>1. /\ DOMAIN reqs' = DOMAIN reqs
      /\ reqs'[s] = r
      /\ \A q \in DOMAIN reqs \ {s} : reqs'[q] = reqs[q] /\ ~ reqs[q].solo
      /\ serial' = serial
  BY DEF Goto, Requests
<1>2. \A q \in DOMAIN reqs \ {s} : Fine(reqs'[q], user', drawn')
  BY <1>1, Disturb DEF Requests, Grown
<1> QED BY <1>1, <1>2 DEF Requests

LEMMA Ends ==
    ASSUME Requests, NEW s \in DOMAIN reqs, End(s), UNCHANGED drawn
    PROVE  Requests'
<1>1. /\ DOMAIN reqs' = DOMAIN reqs \ {s}
      /\ \A q \in DOMAIN reqs \ {s} : reqs'[q] = reqs[q] /\ ~ reqs[q].solo
      /\ serial' = serial
  BY DEF End, Restrict, Requests
<1>2. \A q \in DOMAIN reqs \ {s} : Fine(reqs'[q], user', drawn')
  BY <1>1, Disturb DEF Requests
<1>3. serial => \A q \in DOMAIN reqs' : reqs'[q].solo
  BY <1>1 DEF Requests
<1> QED BY <1>1, <1>2, <1>3 DEF Requests

LEMMA HappensAtOnce ==
    ASSUME Requests, AtOnce, UNCHANGED drawn
    PROVE  Requests'
<1>1. /\ DOMAIN reqs' = DOMAIN reqs
      /\ \A q \in DOMAIN reqs : reqs'[q] = [reqs[q] EXCEPT !.solo = FALSE]
      /\ serial' => DOMAIN reqs = {}
  BY DEF AtOnce, Disturbed, Alone
<1>2. \A q \in DOMAIN reqs : Fine(reqs'[q], user', drawn')
  BY <1>1, Disturb DEF Requests
<1>3. \A q \in DOMAIN reqs : ~ reqs'[q].solo
  <2>1. \A q \in DOMAIN reqs : reqs[q] \in LocalState
    BY DEF Requests, Fine, RequestOK
  <2> QED BY <1>1, <2>1 DEF LocalState
<1> QED BY <1>1, <1>2, <1>3 DEF Requests

-----------------------------------------------------------------------------
(* What an action does not touch.                                          *)
LEMMA Unmoved ==
    ASSUME IInv, UNCHANGED <<user, unborn, drawn, held>>, serial' \in BOOLEAN, serial' => serial
    PROVE  Tables' /\ Rows' /\ HeldTraced' /\ Grown
<1>1. Tables'
  BY DEF IInv, Tables, Live
<1>2. Rows'
  BY DEF IInv, Rows, Live
<1> QED BY <1>1, <1>2 DEF IInv, HeldTraced, Grown

LEMMA BeginSerial ==
    ASSUME IInv, NEW s, NEW r, Begin(s, r)
    PROVE  serial' \in BOOLEAN /\ (serial' => serial)
<1>1. (serial /\ Alone) \in BOOLEAN
  OBVIOUS
<1> QED BY <1>1 DEF Begin

LEMMA AtOnceSerial ==
    ASSUME IInv, AtOnce
    PROVE  serial' \in BOOLEAN /\ (serial' => serial)
<1>1. (serial /\ Alone) \in BOOLEAN
  OBVIOUS
<1> QED BY <1>1 DEF AtOnce

LEMMA StepSerial ==
    ASSUME IInv, UNCHANGED serial
    PROVE  serial' \in BOOLEAN /\ (serial' => serial)
BY DEF IInv, Tables

LEMMA DrawGrows ==
    ASSUME IInv, NEW t, NEW u \in Users, Draw(t, u)
    PROVE  /\ Grown /\ t \in Tokens /\ Own(t, u, drawn')
           /\ DOMAIN drawn' \subseteq Tokens /\ drawn' \in [DOMAIN drawn' -> Users]
BY DEF IInv, Tables, Draw, Grown, Own

(* Tokens drawn for others do not disturb what is traced.                  *)
LEMMA GrownTraces ==
    ASSUME IInv, Grown, UNCHANGED <<user, held>>, serial' => serial
    PROVE  Rows' /\ HeldTraced'
<1>1. \A u \in Live : RowFine(u, user[u], drawn')
  BY DEF IInv, Rows, RowFine, Grown, Own
<1>2. HeldTraced'
  BY DEF IInv, HeldTraced, Grown, Own
<1> QED BY <1>1, <1>2 DEF IInv, Rows, Live

LEMMA AddressType ==
    ASSUME NEW c \in Codes, NEW t \in Tokens \cup {NoToken}, NEW b \in BOOLEAN
    PROVE  Address(c, t, b) \in Link /\ Address(c, t, b) # NoLink
BY AccessAssumption DEF Address, Link

LEMMA InitIInv == Init => IInv
<1> SUFFICES ASSUME Init PROVE IInv
  OBVIOUS
<1>1. PICK code \in [OldUsers -> Codes], linked \in SUBSET OldUsers :
         /\ \A u, v \in OldUsers : code[u] = code[v] => u = v
         /\ user = [u \in OldUsers |->
                       [code |-> code[u], token |-> NoToken, cryptoOnly |-> FALSE,
                        link |-> IF u \in linked THEN Address(code[u], NoToken, FALSE) ELSE NoLink]]
  BY DEF Init
<1>2. \A u \in OldUsers : user[u] \in Row /\ user[u].code = code[u]
  BY <1>1, AddressType DEF Row
<1>3. \A u \in OldUsers : /\ user[u].token = NoToken
                          /\ user[u].link # NoLink => /\ user[u].link.token = NoToken
                                                     /\ user[u].link.code = user[u].code
  BY <1>1 DEF Address
<1>4. Live = OldUsers
  BY <1>1 DEF Live
<1>5. Tables
  <2>1. user \in [Live -> Row]
    BY <1>1, <1>2, <1>4
  <2>2. \A u, v \in Live : user[u].code = user[v].code => u = v
    BY <1>1, <1>2, <1>4
  <2>3. drawn \in [DOMAIN drawn -> Users] /\ DOMAIN drawn = {}
    BY DEF Init
  <2>4. Live \subseteq Users \ unborn /\ unborn \subseteq Users
    BY <1>4, AccessAssumption DEF Init
  <2> QED BY <2>1, <2>2, <2>3, <2>4 DEF Init, Tables
<1>6. Rows
  BY <1>2, <1>3, <1>4 DEF Rows, RowFine, Own, Current
<1>7. Requests /\ HeldTraced
  BY DEF Init, Requests, HeldTraced
<1> QED BY <1>5, <1>6, <1>7 DEF IInv

-----------------------------------------------------------------------------
(* One lemma per action.                                                   *)
LEMMA BeginCreateIInv ==
    ASSUME IInv, NEW s, NEW u \in Users, NEW code \in Codes, NEW cryptoOnly \in BOOLEAN,
           NEW t \in Tokens, BeginCreate(s, u, code, cryptoOnly, t)
    PROVE  IInv'
<1> DEFINE r == [kind |-> "create", pc |-> "fetch", user |-> u, owner |-> u,
                 code |-> code, crypto |-> cryptoOnly, token |-> t, link |-> NoLink,
                 data |-> {}, solo |-> Alone]
<1>1. Begin(s, r) /\ Draw(t, u)
  BY DEF BeginCreate
<1>2. r \in LocalState
  <2>1. Alone \in BOOLEAN
    BY DEF Alone
  <2> QED BY <2>1 DEF LocalState
<1>3. Grown /\ Own(t, u, drawn') /\ DOMAIN drawn' \subseteq Tokens /\ drawn' \in [DOMAIN drawn' -> Users]
  BY <1>1, DrawGrows
<1>4. Fine(r, user', drawn')
  <2>1. RequestOK(r) /\ Shape(r)
    BY <1>2 DEF RequestOK, Shape
  <2> QED BY <1>3, <2>1 DEF Fine, Traced, Synced
<1>5. r.solo <=> Alone
  OBVIOUS
<1> HIDE DEF r
<1>6. Requests'
  BY <1>1, <1>3, <1>4, <1>5, Begins DEF IInv
<1>7. serial' \in BOOLEAN /\ (serial' => serial)
  BY <1>1, BeginSerial
<1>8. Rows' /\ HeldTraced'
  BY <1>3, <1>7, GrownTraces DEF BeginCreate
<1>9. Tables'
  BY <1>3, <1>7 DEF BeginCreate, IInv, Tables, Live
<1> QED BY <1>6, <1>8, <1>9 DEF IInv

LEMMA BeginLinkIInv ==
    ASSUME IInv, NEW s, NEW u \in Users, BeginLink(s, u)
    PROVE  IInv'
<1> DEFINE r == [kind |-> "link", pc |-> "token", user |-> u, owner |-> u,
                 code |-> user[u].code, crypto |-> FALSE, token |-> NoToken, link |-> NoLink,
                 data |-> {"link"}, solo |-> Alone]
<1>1. Begin(s, r) /\ u \in Live /\ UNCHANGED <<user, unborn, drawn, held>>
  BY DEF BeginLink
<1>2. r \in LocalState
  <2>1. Alone \in BOOLEAN
    BY DEF Alone
  <2>2. user[u].code \in Codes
    BY <1>1 DEF IInv, Tables, Row
  <2> QED BY <2>1, <2>2 DEF LocalState
<1>3. Fine(r, user', drawn')
  <2>1. RequestOK(r) /\ Shape(r)
    BY <1>2 DEF RequestOK, Shape
  <2>2. Synced(r, user')
    BY <1>1 DEF Synced, Live
  <2>3. Traced(r, drawn')
    BY DEF Traced, Own
  <2> QED BY <2>1, <2>2, <2>3 DEF Fine
<1>4. r.solo <=> Alone
  OBVIOUS
<1> HIDE DEF r
<1>5. serial' \in BOOLEAN /\ (serial' => serial)
  BY <1>1, BeginSerial
<1>6. Tables' /\ Rows' /\ HeldTraced' /\ Grown
  BY <1>1, <1>5, Unmoved
<1> QED BY <1>1, <1>3, <1>4, <1>6, Begins DEF IInv

LEMMA BeginEditIInv ==
    ASSUME IInv, NEW s, NEW u \in Users, NEW code \in Codes,
           NEW given \in {{}, {TRUE}, {FALSE}}, BeginEdit(s, u, code, given)
    PROVE  IInv'
<1> DEFINE changed == u \in Live /\ code # user[u].code
           data == (IF changed THEN {"code", "link"} ELSE {})
                     \cup (IF given # {} THEN {"crypto"} ELSE {})
           pc == IF changed THEN "taken" ELSE "write"
           crypto == EffectiveCrypto(user[u], given)
           r == [kind |-> "edit", pc |-> pc, user |-> u, owner |-> u, code |-> code,
                 crypto |-> crypto, token |-> NoToken,
                 link |-> NoLink, data |-> data, solo |-> Alone]
<1>1. Begin(s, r) /\ u \in Live /\ UNCHANGED <<user, unborn, drawn, held>>
  BY DEF BeginEdit
<1>2. /\ data \subseteq {"code", "crypto", "link"} /\ pc \in {"taken", "write"}
      /\ "code" \in data <=> changed
      /\ "link" \in data <=> changed
      /\ "crypto" \in data <=> given # {}
      /\ pc = "write" <=> ~ changed
  OBVIOUS
<1>3. crypto \in BOOLEAN /\ ("crypto" \notin data => crypto = user[u].cryptoOnly)
  <2>1. user[u].cryptoOnly \in BOOLEAN
    BY <1>1 DEF IInv, Tables, Row
  <2>2. (TRUE \in given) \in BOOLEAN
    OBVIOUS
  <2> QED BY <1>2, <2>1, <2>2 DEF EffectiveCrypto
<1>4. Alone \in BOOLEAN
  BY DEF Alone
<1> HIDE DEF data, pc, crypto, changed
<1>5. r \in LocalState
  BY <1>2, <1>3, <1>4 DEF LocalState
<1>6. Fine(r, user', drawn')
  <2>1. RequestOK(r) /\ Shape(r)
    BY <1>2, <1>5 DEF RequestOK, Shape
  <2>2. Synced(r, user')
    BY <1>1, <1>2, <1>3 DEF Synced, Live
  <2>3. Traced(r, drawn')
    BY DEF Traced, Own
  <2> QED BY <2>1, <2>2, <2>3 DEF Fine
<1>7. r.solo <=> Alone
  OBVIOUS
<1> HIDE DEF r
<1>8. serial' \in BOOLEAN /\ (serial' => serial)
  BY <1>1, BeginSerial
<1>9. Tables' /\ Rows' /\ HeldTraced' /\ Grown
  BY <1>1, <1>8, Unmoved
<1> QED BY <1>1, <1>6, <1>7, <1>9, Begins DEF IInv

LEMMA BeginFeedIInv ==
    ASSUME IInv, NEW s, NEW owner \in Users, NEW l \in Link, Own(l.token, owner, drawn),
           BeginFeed(s, owner, l)
    PROVE  IInv'
<1>1. PICK u \in Live :
          Begin(s, [kind |-> "feed", pc |-> "token", user |-> u, owner |-> owner,
                    code |-> l.code, crypto |-> user[u].cryptoOnly, token |-> NoToken,
                    link |-> l, data |-> {}, solo |-> Alone])
  BY DEF BeginFeed
<1> DEFINE r == [kind |-> "feed", pc |-> "token", user |-> u, owner |-> owner,
                 code |-> l.code, crypto |-> user[u].cryptoOnly, token |-> NoToken,
                 link |-> l, data |-> {}, solo |-> Alone]
<1>2. UNCHANGED <<user, unborn, drawn, held>>
  BY DEF BeginFeed
<1>3. r \in LocalState
  <2>1. Alone \in BOOLEAN
    BY DEF Alone
  <2>2. user[u].cryptoOnly \in BOOLEAN /\ u \in Users
    BY <1>1 DEF IInv, Tables, Row
  <2> QED BY <2>1, <2>2 DEF LocalState, Link
<1>4. Fine(r, user', drawn')
  <2>1. RequestOK(r) /\ Shape(r)
    BY <1>3, AccessAssumption DEF RequestOK, Shape
  <2>2. Traced(r, drawn')
    BY <1>2 DEF Traced, Own
  <2> QED BY <2>1, <2>2 DEF Fine, Synced
<1>5. r.solo <=> Alone
  OBVIOUS
<1>6. Begin(s, r)
  BY <1>1
<1> HIDE DEF r
<1>7. serial' \in BOOLEAN /\ (serial' => serial)
  BY <1>6, BeginSerial
<1>8. Tables' /\ Rows' /\ HeldTraced' /\ Grown
  BY <1>2, <1>7, Unmoved
<1> QED BY <1>4, <1>5, <1>6, <1>8, Begins DEF IInv

(* A step that leaves the tables alone and goes on with r, or ends.        *)
LEMMA GoOnUnmoved ==
    ASSUME IInv, NEW s \in DOMAIN reqs, UNCHANGED <<user, unborn, drawn, held>>,
           NEW r, Goto(s, r), r.solo <=> reqs[s].solo, Fine(r, user, drawn)
    PROVE  IInv'
<1>1. serial' \in BOOLEAN /\ (serial' => serial)
  BY StepSerial DEF Goto
<1>2. Tables' /\ Rows' /\ HeldTraced' /\ Grown
  BY <1>1, Unmoved
<1> QED BY <1>2, GoesOn DEF IInv

LEMMA EndUnmoved ==
    ASSUME IInv, NEW s \in DOMAIN reqs, UNCHANGED <<user, unborn, drawn, held>>, End(s)
    PROVE  IInv'
<1>1. serial' \in BOOLEAN /\ (serial' => serial)
  BY StepSerial DEF End
<1>2. Tables' /\ Rows' /\ HeldTraced' /\ Grown
  BY <1>1, Unmoved
<1> QED BY <1>2, Ends DEF IInv

LEMMA LookForTakenIInv ==
    ASSUME IInv, NEW s \in DOMAIN reqs, LookForTaken(s)
    PROVE  IInv'
<1> DEFINE o == reqs[s]
           r == [o EXCEPT !.pc = "token"]
<1>1. Fine(o, user, drawn) /\ o \in LocalState
  BY DEF IInv, Requests, Fine, RequestOK
<1>2. o.pc = "taken" /\ UNCHANGED <<user, unborn, drawn, held>> /\ (Goto(s, r) \/ End(s))
  BY DEF LookForTaken
<1>3. /\ r \in LocalState /\ r.pc = "token" /\ r.kind = o.kind /\ r.user = o.user
      /\ r.owner = o.owner /\ r.code = o.code /\ r.crypto = o.crypto /\ r.token = o.token
      /\ r.link = o.link /\ r.data = o.data /\ r.solo = o.solo
  BY <1>1 DEF LocalState
<1> HIDE DEF r
<1>4. Fine(r, user, drawn)
  <2>1. RequestOK(r) /\ Shape(r)
    BY <1>1, <1>2, <1>3 DEF Fine, RequestOK, Shape
  <2>2. Traced(r, drawn)
    BY <1>1, <1>3 DEF Fine, Traced
  <2>3. o.solo => Synced(r, user)
    BY <1>1, <1>3 DEF Fine, Synced
  <2> QED BY <1>3, <2>1, <2>2, <2>3 DEF Fine
<1> QED BY <1>2, <1>3, <1>4, GoOnUnmoved, EndUnmoved

LEMMA AfterTokenIs ==
    ASSUME NEW k \in {"create", "link", "edit", "feed"}
    PROVE  /\ AfterToken(k) \in {"read", "fetch", "serve"}
           /\ k = "feed" => AfterToken(k) = "serve"
           /\ k = "link" => AfterToken(k) = "read"
           /\ k = "edit" => AfterToken(k) = "fetch"
BY DEF AfterToken

LEMMA ReadTokenIInv ==
    ASSUME IInv, NEW s \in DOMAIN reqs, ReadToken(s)
    PROVE  IInv'
<1> DEFINE o == reqs[s]
<1>1. Fine(o, user, drawn) /\ o \in LocalState /\ o.pc = "token"
  BY DEF IInv, Requests, Fine, RequestOK, ReadToken
<1>2. o.user \in Users /\ o.kind \in {"create", "link", "edit", "feed"} /\ o.kind # "create"
  BY <1>1 DEF LocalState, Fine, Shape
<1>3. CASE /\ o.user \in Live /\ user[o.user].token # NoToken
           /\ Goto(s, [o EXCEPT !.pc = AfterToken(o.kind), !.token = user[o.user].token])
           /\ UNCHANGED drawn
  <2> DEFINE pc == AfterToken(o.kind)
             t == user[o.user].token
             r == [o EXCEPT !.pc = pc, !.token = t]
  <2>1. t \in Tokens \cup {NoToken} /\ Own(t, o.user, drawn)
    BY <1>3 DEF IInv, Tables, Row, Rows, RowFine
  <2>2. pc \in {"read", "fetch", "serve"} /\ (o.kind = "feed" => pc = "serve")
        /\ (o.kind = "link" => pc = "read") /\ (o.kind = "edit" => pc = "fetch")
    BY <1>2, AfterTokenIs
  <2>3. Goto(s, r) /\ UNCHANGED <<user, unborn, drawn, held>>
    BY <1>3 DEF ReadToken
  <2> DEFINE tt == t
  <2> HIDE DEF pc
  <2>4. /\ r \in LocalState /\ r.pc = pc /\ r.kind = o.kind /\ r.user = o.user
        /\ r.owner = o.owner /\ r.code = o.code /\ r.crypto = o.crypto /\ r.token = t
        /\ r.link = o.link /\ r.data = o.data /\ r.solo = o.solo
    BY <1>1, <2>1, <2>2 DEF LocalState
  <2> HIDE DEF r
  <2>5. RequestOK(r) /\ Shape(r)
    BY <1>1, <1>2, <2>2, <2>4 DEF Fine, RequestOK, Shape
  <2>6. Traced(r, drawn)
    BY <1>1, <2>1, <2>4 DEF Fine, Traced
  <2>7. o.solo => Synced(r, user)
    BY <1>1, <2>2, <2>4 DEF Fine, Synced
  <2>8. Fine(r, user, drawn)
    BY <2>4, <2>5, <2>6, <2>7 DEF Fine
  <2> QED BY <2>3, <2>4, <2>8, GoOnUnmoved
<1>4. ASSUME NEW t \in Tokens, Draw(t, o.user),
             Goto(s, [o EXCEPT !.pc = "setToken", !.token = t])
      PROVE  IInv'
  <2> DEFINE r == [o EXCEPT !.pc = "setToken", !.token = t]
  <2>1. UNCHANGED <<user, unborn, held>> /\ Goto(s, r)
    BY <1>4 DEF ReadToken
  <2>2. Grown /\ Own(t, o.user, drawn') /\ DOMAIN drawn' \subseteq Tokens
        /\ drawn' \in [DOMAIN drawn' -> Users]
    BY <1>2, <1>4, DrawGrows
  <2>3. /\ r \in LocalState /\ r.pc = "setToken" /\ r.kind = o.kind /\ r.user = o.user
        /\ r.owner = o.owner /\ r.code = o.code /\ r.crypto = o.crypto /\ r.token = t
        /\ r.link = o.link /\ r.data = o.data /\ r.solo = o.solo
    BY <1>1 DEF LocalState
  <2> HIDE DEF r
  <2>4. RequestOK(r) /\ Shape(r)
    BY <1>1, <1>2, <2>3 DEF Fine, RequestOK, Shape
  <2>5. Traced(r, drawn')
    BY <1>1, <2>2, <2>3 DEF Fine, Traced, Own, Grown
  <2>6. o.solo => Synced(r, user)
    BY <1>1, <2>3 DEF Fine, Synced
  <2>7. Fine(r, user', drawn')
    BY <2>1, <2>3, <2>4, <2>5, <2>6 DEF Fine
  <2>8. serial' \in BOOLEAN /\ (serial' => serial)
    BY <2>1, StepSerial DEF Goto
  <2>9. Requests'
    BY <2>1, <2>2, <2>3, <2>7, GoesOn DEF IInv
  <2>10. Rows' /\ HeldTraced'
    BY <2>1, <2>2, <2>8, GrownTraces
  <2>11. Tables'
    BY <2>1, <2>2, <2>8 DEF IInv, Tables, Live
  <2> QED BY <2>9, <2>10, <2>11 DEF IInv
<1> QED BY <1>3, <1>4 DEF ReadToken

LEMMA ReadUserIInv ==
    ASSUME IInv, NEW s \in DOMAIN reqs, ReadUser(s)
    PROVE  IInv'
<1> DEFINE o == reqs[s]
           v == user[o.user]
           r == [o EXCEPT !.pc = "fetch", !.code = v.code, !.crypto = v.cryptoOnly]
<1>1. Fine(o, user, drawn) /\ o \in LocalState /\ o.pc = "read" /\ o.kind = "link"
  BY DEF IInv, Requests, Fine, RequestOK, ReadUser, Shape, LocalState
<1>2. UNCHANGED <<user, unborn, drawn, held>> /\ ((Goto(s, r) /\ o.user \in Live) \/ End(s))
  BY DEF ReadUser
<1>3. ASSUME o.user \in Live, Goto(s, r)
      PROVE  IInv'
  <2>1. v.code \in Codes /\ v.cryptoOnly \in BOOLEAN
    BY <1>3 DEF IInv, Tables, Row
  <2>2. /\ r \in LocalState /\ r.pc = "fetch" /\ r.kind = "link" /\ r.user = o.user
        /\ r.owner = o.owner /\ r.code = v.code /\ r.crypto = v.cryptoOnly /\ r.token = o.token
        /\ r.link = o.link /\ r.data = o.data /\ r.solo = o.solo
    BY <1>1, <2>1 DEF LocalState
  <2> HIDE DEF r
  <2>3. RequestOK(r) /\ Shape(r)
    BY <1>1, <2>2 DEF Fine, RequestOK, Shape
  <2>4. Traced(r, drawn)
    BY <1>1, <2>2 DEF Fine, Traced
  <2>5. o.solo => Synced(r, user)
    BY <1>1, <2>2 DEF Fine, Synced
  <2>6. Fine(r, user, drawn)
    BY <2>2, <2>3, <2>4, <2>5 DEF Fine
  <2> QED BY <1>2, <1>3, <2>2, <2>6, GoOnUnmoved
<1> QED BY <1>2, <1>3, EndUnmoved

LEMMA FetchLinkIInv ==
    ASSUME IInv, NEW s \in DOMAIN reqs, FetchLink(s)
    PROVE  IInv'
<1> DEFINE o == reqs[s]
           l == Address(o.code, o.token, o.crypto)
           r(x) == [o EXCEPT !.pc = "write", !.link = x]
<1>1. Fine(o, user, drawn) /\ o \in LocalState /\ o.pc = "fetch" /\ o.kind # "feed" /\ o.link = NoLink
  BY DEF IInv, Requests, Fine, RequestOK, FetchLink, Shape, LocalState
<1>2. l \in Link /\ l # NoLink /\ l.token = o.token
  <2>1. l \in Link /\ l # NoLink
    BY <1>1, AddressType DEF LocalState
  <2> QED BY <2>1 DEF Address
<1>3. UNCHANGED <<user, unborn, drawn, held>>
  BY DEF FetchLink
<1>4. [o EXCEPT !.pc = "write"] = r(NoLink)
  BY <1>1 DEF LocalState
<1>5. Goto(s, r(l)) \/ (o.kind = "create" /\ Goto(s, r(NoLink))) \/ End(s)
  BY <1>4 DEF FetchLink
<1> HIDE DEF l
<1>6. ASSUME NEW x \in {l, NoLink}, x = NoLink => o.kind = "create", Goto(s, r(x))
      PROVE  IInv'
  <2> DEFINE n == r(x)
  <2>1. /\ n \in LocalState /\ n.pc = "write" /\ n.kind = o.kind /\ n.user = o.user
        /\ n.owner = o.owner /\ n.code = o.code /\ n.crypto = o.crypto /\ n.token = o.token
        /\ n.link = x /\ n.data = o.data /\ n.solo = o.solo
    BY <1>1, <1>2 DEF LocalState
  <2>2. Goto(s, n)
    BY <1>6
  <2> HIDE DEF n
  <2>3. Shape(n)
    BY <1>1, <1>2, <1>6, <2>1 DEF Fine, Shape, l
  <2>4. RequestOK(n)
    BY <1>1, <1>6, <2>1, <2>3 DEF Fine, RequestOK, Shape, l
  <2>5. Traced(n, drawn)
    <3>1. o.owner = o.user
      BY <1>1 DEF Fine, Shape
    <3> QED BY <1>1, <1>2, <2>1, <3>1 DEF Fine, Traced
  <2>6. o.solo => Synced(n, user)
    BY <1>1, <2>1 DEF Fine, Synced
  <2>7. Fine(n, user, drawn)
    BY <2>1, <2>3, <2>4, <2>5, <2>6 DEF Fine
  <2> QED BY <1>3, <2>1, <2>2, <2>7, GoOnUnmoved
<1> QED BY <1>2, <1>3, <1>5, <1>6, EndUnmoved

LEMMA ServeIInv ==
    ASSUME IInv, NEW s \in DOMAIN reqs, Serve(s) \/ Throw(s)
    PROVE  IInv'
BY EndUnmoved DEF Serve, Throw

-----------------------------------------------------------------------------
(* Actions that write users.                                               *)
LEMMA RowWritten ==
    ASSUME IInv, NEW u \in Live, NEW v, RowFine(u, v, drawn), serial => Current(v),
           \A w \in Live \ {u} : user[w].code # v.code,
           user' = [user EXCEPT ![u] = v], UNCHANGED <<unborn, drawn, held>>,
           serial' \in BOOLEAN, serial' => serial
    PROVE  Tables' /\ Rows' /\ HeldTraced' /\ Grown
<1>1. /\ Live' = Live /\ user'[u] = v /\ \A w \in Live \ {u} : user'[w] = user[w]
      /\ user' \in [Live -> Row]
  BY DEF Live, IInv, Tables, RowFine
<1>2. \A w, x \in Live : user'[w].code = user'[x].code => w = x
  BY <1>1 DEF IInv, Tables
<1>3. Tables'
  BY <1>1, <1>2 DEF IInv, Tables
<1>4. Rows'
  BY <1>1 DEF IInv, Rows
<1> QED BY <1>3, <1>4 DEF IInv, HeldTraced, Grown

LEMMA SetTokenIInv ==
    ASSUME IInv, NEW s \in DOMAIN reqs, SetToken(s)
    PROVE  IInv'
<1> DEFINE o == reqs[s]
           u == o.user
           v == [user[u] EXCEPT !.token = o.token, !.link = NoLink]
           pc == AfterToken(o.kind)
           r == [o EXCEPT !.pc = pc]
<1>1. Fine(o, user, drawn) /\ o \in LocalState /\ o.pc = "setToken"
  BY DEF IInv, Requests, Fine, RequestOK, SetToken
<1>2. CASE u \notin Live
  <2>1. End(s) /\ UNCHANGED <<user, unborn, drawn, held>>
    BY <1>2 DEF SetToken
  <2> QED BY <2>1, EndUnmoved
<1>3. CASE u \in Live
  <2>1. user[u] \in Row /\ \A w \in Live \ {u} : user[w].code # user[u].code
    BY <1>3 DEF IInv, Tables
  <2>2. user' = [user EXCEPT ![u] = v]
    BY <1>3 DEF SetToken
  <2>3. Goto(s, r) /\ UNCHANGED <<unborn, drawn, held>>
    BY <1>3 DEF SetToken
  <2>4. /\ v \in Row /\ v.code = user[u].code /\ v.cryptoOnly = user[u].cryptoOnly
        /\ v.token = o.token /\ v.link = NoLink
    BY <1>1, <2>1 DEF Row, LocalState
  <2> HIDE DEF v
  <2>5. RowFine(u, v, drawn) /\ Current(v)
    BY <1>1, <2>4 DEF RowFine, Current, Fine, Traced
  <2>6. serial' \in BOOLEAN /\ (serial' => serial)
    BY <2>3, StepSerial DEF Goto
  <2>7. Tables' /\ Rows' /\ HeldTraced' /\ Grown
    BY <1>3, <2>1, <2>2, <2>3, <2>4, <2>5, <2>6, RowWritten
  <2>8. /\ o.kind # "create" /\ pc \in {"read", "fetch", "serve"} /\ (o.kind = "feed" => pc = "serve")
        /\ (o.kind = "link" => pc = "read") /\ (o.kind = "edit" => pc = "fetch")
    BY <1>1, AfterTokenIs DEF LocalState, Fine, Shape
  <2> HIDE DEF pc
  <2>9. /\ r \in LocalState /\ r.pc = pc /\ r.kind = o.kind /\ r.user = o.user
        /\ r.owner = o.owner /\ r.code = o.code /\ r.crypto = o.crypto /\ r.token = o.token
        /\ r.link = o.link /\ r.data = o.data /\ r.solo = o.solo
    BY <1>1, <2>8 DEF LocalState
  <2> HIDE DEF r
  <2>10. RequestOK(r) /\ Shape(r)
    BY <1>1, <2>8, <2>9 DEF Fine, RequestOK, Shape
  <2>11. Traced(r, drawn')
    BY <1>1, <2>3, <2>9 DEF Fine, Traced
  <2>12. user'[u] = v /\ DOMAIN user' = Live
    BY <1>3, <2>2 DEF Live
  <2>13. o.solo => Synced(r, user')
    BY <1>1, <1>3, <2>4, <2>8, <2>9, <2>12 DEF Fine, Synced
  <2>14. Fine(r, user', drawn')
    BY <2>9, <2>10, <2>11, <2>13 DEF Fine
  <2>15. Requests'
    BY <2>3, <2>7, <2>9, <2>14, GoesOn DEF IInv
  <2> QED BY <2>7, <2>15 DEF IInv
<1> QED BY <1>2, <1>3

LEMMA CreateIInv ==
    ASSUME IInv, Born, NEW s \in DOMAIN reqs, Create(s)
    PROVE  IInv'
<1> DEFINE o == reqs[s]
           v == [code |-> o.code, token |-> o.token, cryptoOnly |-> o.crypto, link |-> o.link]
<1>1. Fine(o, user, drawn) /\ o \in LocalState /\ o.pc = "write" /\ o.kind = "create"
  BY DEF IInv, Requests, Fine, RequestOK, Create
<1>2. End(s) /\ UNCHANGED <<unborn, drawn, held>>
  BY DEF Create
<1>3. CASE Taken(o.code, o.user)
  <2>1. UNCHANGED user
    BY <1>3 DEF Create
  <2> QED BY <1>2, <2>1, EndUnmoved
<1>4. CASE ~ Taken(o.code, o.user)
  <2>1. user' = [u \in Live \cup {o.user} |-> IF u = o.user THEN v ELSE user[u]]
    BY <1>4 DEF Create
  <2>2. v \in Row /\ v.code = o.code /\ v.token = o.token /\ v.link = o.link
    BY <1>1 DEF LocalState, Row
  <2>3. o.link # NoLink => o.link.code = o.code /\ o.link.token = o.token
    BY <1>1 DEF Fine, Shape, Address
  <2> HIDE DEF v
  <2>4. RowFine(o.user, v, drawn) /\ Current(v)
    BY <1>1, <2>2, <2>3 DEF RowFine, Current, Fine, Traced
  <2>5. /\ Live' = Live \cup {o.user} /\ user'[o.user] = v
        /\ \A u \in Live \ {o.user} : user'[u] = user[u]
    BY <2>1 DEF Live
  <2>6. serial' \in BOOLEAN /\ (serial' => serial)
    BY <1>2, StepSerial DEF End
  <2>7. Rows' /\ HeldTraced'
    BY <1>2, <2>4, <2>5, <2>6 DEF IInv, Rows, HeldTraced
  <2>8. \A u, w \in Live' : user'[u].code = user'[w].code => u = w
    BY <1>4, <2>2, <2>5 DEF IInv, Tables, Taken
  <2>9. user' \in [Live' -> Row] /\ Live' \subseteq Users
    BY <1>1, <2>1, <2>2, <2>5 DEF IInv, Tables, LocalState
  <2>10. o.user \notin unborn
    BY DEF Born
  <2>11. Tables'
    BY <1>2, <2>5, <2>6, <2>8, <2>9, <2>10 DEF IInv, Tables
  <2>12. Requests'
    BY <1>2, Ends DEF IInv
  <2> QED BY <2>7, <2>11, <2>12 DEF IInv
<1> QED BY <1>3, <1>4

LEMMA UpdateIInv ==
    ASSUME IInv, NEW s \in DOMAIN reqs, Update(s)
    PROVE  IInv'
<1> DEFINE o == reqs[s]
           u == o.user
           v == Written(user[u], o)
<1>1. Fine(o, user, drawn) /\ o \in LocalState /\ o.pc = "write" /\ o.kind # "create"
  BY DEF IInv, Requests, Fine, RequestOK, Update
<1>2. End(s) /\ UNCHANGED <<unborn, drawn, held>>
  BY DEF Update
<1>3. CASE UNCHANGED user
  BY <1>2, <1>3, EndUnmoved
<1>4. CASE u \in Live /\ ("code" \in o.data => ~ Taken(o.code, u))
  <2>1. user' = [user EXCEPT ![u] = v]
    BY <1>4 DEF Update
  <2>2. user[u] \in Row /\ RowFine(u, user[u], drawn) /\ (serial => Current(user[u]))
    BY <1>4 DEF IInv, Tables, Rows
  <2>3. /\ v \in Row /\ v.token = user[u].token
        /\ v.code = IF "code" \in o.data THEN o.code ELSE user[u].code
        /\ v.link = IF "link" \in o.data THEN o.link ELSE user[u].link
    BY <1>1, <2>2 DEF Written, Row, LocalState
  <2> HIDE DEF v
  <2>4. /\ o.owner = u
        /\ o.link # NoLink => o.link.code = o.code /\ o.link.token = o.token
    BY <1>1 DEF Fine, Shape, Address, LocalState
  <2>5. RowFine(u, v, drawn)
    BY <1>1, <2>2, <2>3, <2>4 DEF RowFine, Fine, Traced
  <2>6. ASSUME serial PROVE Current(v)
    <3>1. Synced(o, user)
      BY <1>1, <2>6 DEF IInv, Requests, Fine
    <3>2. CASE "link" \in o.data
      <4>1. o.token = user[u].token
        BY <1>1, <3>1, <3>2 DEF Synced, Fine, Shape, LocalState
      <4>2. v.code = o.code
        <5>1. CASE o.kind = "edit"
          BY <1>1, <2>3, <3>2, <5>1 DEF Fine, Shape
        <5>2. CASE o.kind = "link"
          BY <1>1, <2>3, <3>1, <5>2 DEF Fine, Shape, Synced
        <5> QED BY <1>1, <5>1, <5>2 DEF Fine, Shape, LocalState
      <4> QED BY <2>3, <2>4, <3>2, <4>1, <4>2 DEF Current
    <3>3. CASE "link" \notin o.data
      <4>1. "code" \notin o.data
        BY <1>1, <3>3 DEF Fine, Shape, LocalState
      <4> QED BY <2>2, <2>3, <2>6, <3>3, <4>1 DEF Current
    <3> QED BY <3>2, <3>3
  <2>7. \A w \in Live \ {u} : user[w].code # v.code
    BY <1>4, <2>3 DEF Taken, IInv, Tables
  <2>8. serial' \in BOOLEAN /\ (serial' => serial)
    BY <1>2, StepSerial DEF End
  <2>9. Tables' /\ Rows' /\ HeldTraced'
    BY <1>2, <1>4, <2>1, <2>5, <2>6, <2>7, <2>8, RowWritten
  <2> QED BY <1>2, <2>9, Ends DEF IInv
<1> QED BY <1>3, <1>4 DEF Update

LEMMA DeleteUserIInv ==
    ASSUME IInv, NEW u \in Users, DeleteUser(u)
    PROVE  IInv'
<1>1. /\ AtOnce /\ UNCHANGED <<unborn, drawn, held>>
      /\ Live' = Live \ {u} /\ \A w \in Live' : user'[w] = user[w]
      /\ user' = [w \in Live \ {u} |-> user[w]]
  BY DEF DeleteUser, Restrict, Live
<1>2. serial' \in BOOLEAN /\ (serial' => serial)
  BY <1>1, AtOnceSerial
<1>3. Tables'
  BY <1>1, <1>2 DEF IInv, Tables
<1>4. Rows' /\ HeldTraced'
  BY <1>1, <1>2 DEF IInv, Rows, HeldTraced
<1> QED BY <1>1, <1>3, <1>4, HappensAtOnce DEF IInv

LEMMA SetCryptoOnlyIInv ==
    ASSUME IInv, NEW u \in Users, NEW cryptoOnly \in BOOLEAN, SetCryptoOnly(u, cryptoOnly)
    PROVE  IInv'
<1> DEFINE v == [user[u] EXCEPT !.cryptoOnly = cryptoOnly]
<1>1. AtOnce /\ UNCHANGED <<unborn, drawn, held>> /\ u \in Live
  BY DEF SetCryptoOnly
<1>2. user' = [user EXCEPT ![u] = v]
  BY DEF SetCryptoOnly
<1>3. /\ user[u] \in Row /\ RowFine(u, user[u], drawn) /\ (serial => Current(user[u]))
      /\ \A w \in Live \ {u} : user[w].code # user[u].code
  BY <1>1 DEF IInv, Tables, Rows
<1>4. v \in Row /\ v.code = user[u].code /\ v.token = user[u].token /\ v.link = user[u].link
  BY <1>3 DEF Row
<1> HIDE DEF v
<1>5. RowFine(u, v, drawn) /\ (serial => Current(v))
  BY <1>3, <1>4 DEF RowFine, Current
<1>6. serial' \in BOOLEAN /\ (serial' => serial)
  BY <1>1, AtOnceSerial
<1>7. Tables' /\ Rows' /\ HeldTraced'
  BY <1>1, <1>2, <1>3, <1>4, <1>5, <1>6, RowWritten
<1> QED BY <1>1, <1>7, HappensAtOnce DEF IInv

LEMMA CopyIInv ==
    ASSUME IInv, NEW u \in Users, Copy(u)
    PROVE  IInv'
<1>1. /\ u \in Live /\ user[u].link # NoLink
      /\ held' = {[owner |-> u, link |-> user[u].link]}
      /\ UNCHANGED <<user, unborn, drawn, reqs, serial>>
  BY DEF Copy
<1>2. user[u].link \in Link /\ Own(user[u].link.token, u, drawn)
  BY <1>1 DEF IInv, Tables, Row, Rows, RowFine
<1>3. Tables'
  BY <1>1, <1>2 DEF IInv, Tables, Live
<1>4. HeldTraced'
  BY <1>1, <1>2 DEF HeldTraced
<1>5. Requests' /\ Rows'
  BY <1>1 DEF IInv, Requests, Rows, Live
<1> QED BY <1>3, <1>4, <1>5 DEF IInv

(* Requests keep their user.                                               *)
LEMMA BornStep ==
    ASSUME IInv, Born, [Next]_vars
    PROVE  Born'
<1> DEFINE Same == /\ DOMAIN reqs' \subseteq DOMAIN reqs
                   /\ \A s \in DOMAIN reqs' : reqs'[s].user = reqs[s].user
<1>0. \A s \in DOMAIN reqs : reqs[s] \in LocalState
  BY DEF IInv, Requests, Fine, RequestOK
<1>1. Same /\ UNCHANGED unborn => Born'
  BY DEF Born
<1>2. ASSUME NEW s, NEW r, Begin(s, r), unborn' \subseteq unborn, r.user \notin unborn'
      PROVE  Born'
  <2>1. /\ DOMAIN reqs' = DOMAIN reqs \cup {s} /\ reqs'[s] = r
        /\ \A q \in DOMAIN reqs \ {s} : reqs'[q] = [reqs[q] EXCEPT !.solo = FALSE]
    BY <1>2 DEF Begin, Disturbed
  <2>2. \A q \in DOMAIN reqs \ {s} : reqs'[q].user = reqs[q].user
    BY <1>0, <2>1 DEF LocalState
  <2> QED BY <1>2, <2>1, <2>2 DEF Born
<1>3. ASSUME NEW s \in Slots, Request(s)
      PROVE  Born'
  <2>1. \A u \in Live : u \notin unborn
    BY DEF IInv, Tables
  <2>2. ASSUME NEW u \in Users, NEW code \in Codes, NEW cryptoOnly \in BOOLEAN, NEW t \in Tokens,
               BeginCreate(s, u, code, cryptoOnly, t)
        PROVE  Born'
    BY <1>2, <2>2 DEF BeginCreate
  <2>3. ASSUME NEW u \in Users, BeginLink(s, u)
        PROVE  Born'
    BY <1>2, <2>1, <2>3 DEF BeginLink
  <2>4. ASSUME NEW u \in Users, NEW code \in Codes, NEW given \in {{}, {TRUE}, {FALSE}},
               BeginEdit(s, u, code, given)
        PROVE  Born'
    BY <1>2, <2>1, <2>4 DEF BeginEdit
  <2>5. ASSUME NEW owner, NEW l, BeginFeed(s, owner, l)
        PROVE  Born'
    BY <1>2, <2>1, <2>5 DEF BeginFeed
  <2> QED BY <1>3, <2>2, <2>3, <2>4, <2>5 DEF Request
<1>4. ASSUME NEW s \in DOMAIN reqs, NEW r, Goto(s, r), r.user = reqs[s].user
      PROVE  Same
  BY <1>4 DEF Goto
<1>5. ASSUME NEW s \in DOMAIN reqs, End(s)
      PROVE  Same
  BY <1>5 DEF End, Restrict
<1>6. ASSUME NEW s \in DOMAIN reqs, Step(s)
      PROVE  Born'
  <2>1. reqs[s] \in LocalState
    BY <1>0
  <2>2. UNCHANGED unborn
    BY <1>6 DEF Step, LookForTaken, ReadToken, SetToken, ReadUser, FetchLink, Create, Update, Serve
  <2>3. CASE LookForTaken(s)
    BY <1>1, <1>4, <1>5, <2>1, <2>2, <2>3 DEF LookForTaken, LocalState
  <2>4. CASE ReadToken(s)
    BY <1>1, <1>4, <2>1, <2>2, <2>4 DEF ReadToken, LocalState
  <2>5. CASE SetToken(s)
    BY <1>1, <1>4, <1>5, <2>1, <2>2, <2>5 DEF SetToken, LocalState
  <2>6. CASE ReadUser(s)
    BY <1>1, <1>4, <1>5, <2>1, <2>2, <2>6 DEF ReadUser, LocalState
  <2>7. CASE FetchLink(s)
    BY <1>1, <1>4, <1>5, <2>1, <2>2, <2>7 DEF FetchLink, LocalState
  <2>8. CASE Create(s) \/ Update(s) \/ Serve(s)
    BY <1>1, <1>5, <2>2, <2>8 DEF Create, Update, Serve
  <2> QED BY <1>6, <2>3, <2>4, <2>5, <2>6, <2>7, <2>8 DEF Step
<1>7. ASSUME NEW s \in DOMAIN reqs, Throw(s)
      PROVE  Born'
  BY <1>1, <1>5, <1>7 DEF Throw
<1>8. CASE Operator
  <2>1. AtOnce => Same
    BY <1>0 DEF AtOnce, Disturbed, LocalState
  <2>2. UNCHANGED unborn /\ (AtOnce \/ UNCHANGED reqs)
    BY <1>8 DEF Operator, DeleteUser, Copy, SetCryptoOnly
  <2> QED BY <1>1, <2>1, <2>2
<1>9. CASE UNCHANGED vars
  BY <1>1, <1>9 DEF vars
<1> QED BY <1>3, <1>6, <1>7, <1>8, <1>9 DEF Next, Step

LEMMA IInvStep ==
    ASSUME IInv, Born, [Next]_vars
    PROVE  IInv'
<1>1. ASSUME NEW s \in Slots, Request(s)
      PROVE  IInv'
  <2>1. ASSUME NEW h \in held, BeginFeed(s, h.owner, h.link)
        PROVE  IInv'
    <3>1. h.owner \in Users /\ h.link \in Link /\ Own(h.link.token, h.owner, drawn)
      BY <2>1 DEF IInv, Tables, HeldTraced
    <3> QED BY <2>1, <3>1, BeginFeedIInv
  <2>2. ASSUME NEW u \in Live, BeginFeed(s, u, Address(user[u].code, NoToken, FALSE))
        PROVE  IInv'
    <3> DEFINE l == Address(user[u].code, NoToken, FALSE)
    <3>1. u \in Users /\ user[u].code \in Codes
      BY <2>2 DEF IInv, Tables, Row
    <3>2. l \in Link /\ l.token = NoToken
      BY <3>1, AddressType DEF Address
    <3>3. BeginFeed(s, u, l)
      BY <2>2
    <3> HIDE DEF l
    <3> QED BY <3>1, <3>2, <3>3, BeginFeedIInv DEF Own
  <2> QED BY <1>1, <2>1, <2>2, BeginCreateIInv, BeginLinkIInv, BeginEditIInv DEF Request
<1>2. ASSUME NEW s \in DOMAIN reqs, Step(s)
      PROVE  IInv'
  BY <1>2, LookForTakenIInv, ReadTokenIInv, SetTokenIInv, ReadUserIInv, FetchLinkIInv,
     CreateIInv, UpdateIInv, ServeIInv DEF Step
<1>3. ASSUME NEW s \in DOMAIN reqs, Throw(s)
      PROVE  IInv'
  BY <1>3, ServeIInv
<1>4. CASE Operator
  BY <1>4, DeleteUserIInv, SetCryptoOnlyIInv, CopyIInv DEF Operator
<1>5. CASE UNCHANGED vars
  <2>1. Tables' /\ HeldTraced'
    BY <1>5 DEF IInv, vars, Tables, HeldTraced, Live
  <2>2. Requests' /\ Rows'
    BY <1>5 DEF IInv, vars, Requests, Rows, Live
  <2> QED BY <2>1, <2>2 DEF IInv
<1> QED BY <1>1, <1>2, <1>3, <1>4, <1>5 DEF Next, Step

LEMMA Invariance == Spec => [](IInv /\ Born)
<1>1. Init => Born
  BY DEF Init, Born
<1> QED BY <1>1, InitIInv, IInvStep, BornStep, PTL DEF Spec

(* A request that begins ends no other.                                    *)
LEMMA RequestAdds ==
    ASSUME NEW q \in Slots, Request(q)
    PROVE  DOMAIN reqs \subseteq DOMAIN reqs'
<1>1. ASSUME NEW r, Begin(q, r)
      PROVE  DOMAIN reqs \subseteq DOMAIN reqs'
  BY <1>1 DEF Begin
<1>2. ASSUME NEW u, NEW code, NEW cryptoOnly, NEW t, BeginCreate(q, u, code, cryptoOnly, t)
      PROVE  \E r : Begin(q, r)
  BY <1>2 DEF BeginCreate
<1>3. ASSUME NEW u, BeginLink(q, u)
      PROVE  \E r : Begin(q, r)
  BY <1>3 DEF BeginLink
<1>4. ASSUME NEW u, NEW code, NEW given, BeginEdit(q, u, code, given)
      PROVE  \E r : Begin(q, r)
  BY <1>4 DEF BeginEdit
<1>5. ASSUME NEW owner, NEW l, BeginFeed(q, owner, l)
      PROVE  \E r : Begin(q, r)
  BY <1>5 DEF BeginFeed
<1>6. \E r : Begin(q, r)
  BY <1>2, <1>3, <1>4, <1>5 DEF Request
<1> QED BY <1>1, <1>6

-----------------------------------------------------------------------------
(* Whatever requests interleave and wherever they stop, users, links and   *)
(* local variables keep their types, no two users share a code, and no     *)
(* code is changed without a link for it.                                  *)
THEOREM TypeCorrect == Spec => []TypeOK
<1>1. IInv => TypeOK
  BY DEF IInv, Requests, Fine, TypeOK
<1> QED BY <1>1, Invariance, PTL

(* A link with a token opens the feed of its owner only (the comparison in *)
(* getPublicSubscription), whoever has the code by now.                    *)
THEOREM OwnFeedOnlyCorrect == Spec => []OwnFeedOnly
<1>1. IInv => OwnFeedOnly
  BY DEF IInv, Requests, Fine, Traced, Shape, Own, Delivered, OwnFeedOnly
<1> QED BY <1>1, Invariance, PTL

(* Stored links are current as long as no two requests have overlapped,    *)
(* even if some stopped half-way (ensureSubscriptionAccessToken,           *)
(* updatePanelUser).                                                       *)
THEOREM SerialLinkCurrentCorrect == Spec => []SerialLinkCurrent
<1>1. IInv => SerialLinkCurrent
  BY DEF IInv, Rows, Current, SerialLinkCurrent
<1> QED BY <1>1, Invariance, PTL

(* A request that makes a link and is overlapped by none leaves one that   *)
(* opens the feed (createUser, createHappCryptoUrlForPanelUser,            *)
(* updatePanelUser).                                                       *)
THEOREM SoloRelinksCorrect == Spec => SoloRelinks
<1> DEFINE Relinks(s) == LET r == reqs[s] IN
              r.solo /\ r.link # NoLink /\ user' # user => Opens(user'[r.user], r.link)
<1>1. ASSUME IInv, Born, [Next]_vars, NEW s \in DOMAIN reqs \ DOMAIN reqs', reqs[s].solo,
             reqs[s].link # NoLink, user' # user
      PROVE  Opens(user'[reqs[s].user], reqs[s].link)
  <2> DEFINE o == reqs[s]
             u == o.user
  <2>1. Fine(o, user, drawn) /\ o \in LocalState /\ Synced(o, user) /\ DOMAIN reqs = {s}
    BY <1>1 DEF IInv, Requests, Fine, RequestOK
  <2>2. Create(s) \/ Update(s)
    <3>1. \A q \in Slots : ~ Request(q)
      BY <1>1, RequestAdds
    <3>2. ~ Operator
      BY <1>1 DEF Operator, DeleteUser, Copy, SetCryptoOnly, AtOnce, Disturbed
    <3>3. \A q \in DOMAIN reqs : q = s
      BY <2>1
    <3>4. ~ SetToken(s)
      BY <1>1 DEF SetToken, Goto
    <3> QED BY <1>1, <3>1, <3>2, <3>3, <3>4
            DEF Next, Step, vars, Throw, LookForTaken, ReadToken, ReadUser, FetchLink, Serve
  <2>3. CASE Create(s)
    <3>1. u \in Live \cup {u} /\ o.kind = "create"
      BY <2>3 DEF Create
    <3>2. user'[u] = [code |-> o.code, token |-> o.token, cryptoOnly |-> o.crypto, link |-> o.link]
      BY <1>1, <2>3 DEF Create
    <3>3. o.link = Address(o.code, o.token, o.crypto)
      BY <1>1, <2>1, <3>1 DEF Fine, Shape
    <3> QED BY <3>2, <3>3 DEF Opens, Address
  <2>4. CASE Update(s)
    <3>1. o.pc = "write" /\ o.kind \in {"link", "edit"}
      BY <2>1, <2>4 DEF Update, Fine, Shape, LocalState
    <3>2. u \in Live /\ user' = [user EXCEPT ![u] = Written(user[u], o)]
      BY <1>1, <2>4 DEF Update
    <3>3. user[u] \in Row /\ o.link = Address(o.code, o.token, o.crypto) /\ "link" \in o.data
      BY <1>1, <2>1, <3>1, <3>2 DEF IInv, Tables, Fine, Shape
    <3> DEFINE v == Written(user[u], o)
    <3>4. /\ v.code = IF "code" \in o.data THEN o.code ELSE user[u].code
          /\ v.cryptoOnly = IF "crypto" \in o.data THEN o.crypto ELSE user[u].cryptoOnly
          /\ v.token = user[u].token
      BY <3>3 DEF Written, Row
    <3> HIDE DEF v
    <3>5. v.token = o.token
      BY <2>1, <3>1, <3>3, <3>4 DEF Synced
    <3>6. v.code = o.code /\ v.cryptoOnly = o.crypto
      <4>1. CASE o.kind = "edit"
        BY <2>1, <3>3, <3>4, <4>1 DEF Fine, Shape, Synced
      <4>2. CASE o.kind = "link"
        BY <2>1, <3>1, <3>4, <4>2 DEF Fine, Shape, Synced
      <4> QED BY <3>1, <4>1, <4>2
    <3>7. user'[u] = v
      BY <3>2 DEF v, Live
    <3> QED BY <3>3, <3>5, <3>6, <3>7 DEF Opens, Address
  <2> QED BY <2>2, <2>3, <2>4
<1>2. IInv /\ Born /\ [Next]_vars => \A s \in DOMAIN reqs \ DOMAIN reqs' : Relinks(s)
  BY <1>1
<1>3. IInv /\ Born /\ [Next]_vars => [\A s \in DOMAIN reqs \ DOMAIN reqs' :
          LET r == reqs[s] IN
          r.solo /\ r.link # NoLink /\ user' # user => Opens(user'[r.user], r.link)]_vars
  BY <1>2
<1> QED BY <1>3, Invariance, PTL DEF Spec, SoloRelinks
=============================================================================
