------------------------------ MODULE FeedAccess ------------------------------
(***************************************************************************)
(* GET public/sub/:code for one panel user: who receives the feed, how its *)
(* devices are registered in the access log and counted against the limit, *)
(* and when a first access is announced.  A request reads the user once,   *)
(* counts the log later, writes its row to the log after that and looks at *)
(* the log again before it announces the device; other requests and the    *)
(* operator's edits come in between.                                       *)
(*                                                                         *)
(* What the feed contains is left out, and so is the token t=: a request   *)
(* with a wrong one is answered 403 before any of this.                    *)
(***************************************************************************)
EXTENDS Naturals, FiniteSets, Functions

CONSTANTS
    Hwids, NoHwid,   \* device identifiers; a request without one
    LogIds,          \* ObjectIds of log rows: bounds the number of rows
    Limits,          \* values of maxUniqueHwids
    Editable,        \* the switches of the user the operator edits
    Slots,           \* requests in progress at the same time
    CanFail          \* whether database, queue and process may fail

Switches == {"enabled", "cryptoOnly", "anyAgent", "requireHwid", "requireNoHwid"}

ASSUME LimitsAssumption ==
    /\ Limits \subseteq Nat /\ 0 \in Limits
    /\ NoHwid \notin Hwids
    /\ IsFiniteSet(Slots) /\ IsFiniteSet(Hwids)
    /\ Slots # {}
    /\ Editable \subseteq Switches \cup {"max"}
    /\ CanFail \in BOOLEAN

VARIABLES
    user,       \* the row of the panel user
    log,        \* PanelUserAccessLog: id -> [hwid, success]
    unused,     \* ids not handed out yet
    reqs,       \* slot -> local variables of the request
    announced,  \* ids of rows for which a notification was queued
    peak,       \* history: the highest limit a request was counted against
    free,       \* history: some request was let through without a count
    failed,     \* history: some step failed
    serial      \* history: no two requests have overlapped

vars == <<user, log, unused, reqs, announced, peak, free, failed, serial>>

-----------------------------------------------------------------------------
(* The devices of the user: distinct HWIDs of successful rows.             *)
Known == {log[i].hwid : i \in {i \in DOMAIN log : log[i].success}} \ {NoHwid}

(* Slip: one device more than the limit.                                   *)
ExceededByOne(h, max) ==
    IF h = NoHwid THEN Cardinality(Known) > max
                  ELSE h \notin Known /\ Cardinality(Known) > max

(* isUniqueHwidLimitExceeded                                               *)
Exceeded(h, max) ==
    IF h = NoHwid THEN Cardinality(Known) > max
                  ELSE h \notin Known /\ Cardinality(Known) + 1 > max

(* The answers of getPublicSubscription that depend on nothing but the     *)
(* user as read and the request.                                           *)
Refused(u, h, happ, viaCrypto) ==
    \/ ~ u.enabled
    \/ u.cryptoOnly /\ ~ viaCrypto
    \/ ~ u.anyAgent /\ ~ happ
    \/ u.requireNoHwid /\ h # NoHwid
    \/ u.requireHwid /\ h = NoHwid

Counted(u) == ~ u.requireNoHwid /\ u.max > 0

(* Slip: asking for one of the two switches leaves the other on.           *)
PatchedAlone(u, d) == [f \in DOMAIN u |-> IF f \in DOMAIN d THEN d[f] ELSE u[f]]

(* updatePanelUser and bulkUpdatePanelUsers: d holds the fields given.     *)
Patched(u, d) ==
    LET asks(f) == f \in DOMAIN d /\ d[f] IN
    [f \in DOMAIN u |->
        IF f = "requireHwid" /\ asks("requireNoHwid") THEN FALSE
        ELSE IF f = "requireNoHwid" /\ asks("requireHwid") THEN asks("requireNoHwid")
        ELSE IF f \in DOMAIN d THEN d[f] ELSE u[f]]

Patches == (UNION {[fs -> BOOLEAN] : fs \in SUBSET (Editable \ {"max"})})
             \cup {[f \in {"max"} \cap Editable |-> n] : n \in Limits}

-----------------------------------------------------------------------------
(* createUser with its defaults; the edits below reach the other settings. *)
Init ==
    /\ user = [enabled |-> TRUE, cryptoOnly |-> FALSE, anyAgent |-> FALSE,
               requireHwid |-> TRUE, requireNoHwid |-> FALSE, max |-> 0]
    /\ log = [i \in {} |-> 0]
    /\ unused = LogIds
    /\ reqs = [s \in {} |-> 0]
    /\ announced = {}
    /\ peak = 0
    /\ free = FALSE /\ failed = FALSE /\ serial = TRUE

Goto(s, r) == reqs' = [reqs EXCEPT ![s] = r] /\ UNCHANGED serial
End(s) == reqs' = Restrict(reqs, DOMAIN reqs \ {s}) /\ UNCHANGED serial

(* findPanelUserByCode and the answers that follow from it.                *)
Arrive(s, h, happ, viaCrypto) ==
    LET refused == Refused(user, h, happ, viaCrypto)
        counted == ~ refused /\ Counted(user)
        r == [pc |-> IF counted THEN "count" ELSE "log", hwid |-> h, max |-> user.max,
              success |-> ~ refused, row |-> {}]
    IN
    /\ s \in Slots \ DOMAIN reqs
    /\ unused # {}
    /\ reqs' = [q \in DOMAIN reqs \cup {s} |-> IF q = s THEN r ELSE reqs[q]]
    /\ serial' = (serial /\ DOMAIN reqs = {})
    /\ free' = (free \/ (~ refused /\ ~ counted /\ h # NoHwid))
    /\ UNCHANGED <<user, log, unused, announced, peak, failed>>

Count(s) ==
    LET r == reqs[s] IN
    /\ r.pc = "count"
    /\ Goto(s, [r EXCEPT !.pc = "log", !.success = ~ Exceeded(r.hwid, r.max)])
    /\ peak' = IF r.max > peak THEN r.max ELSE peak
    /\ UNCHANGED <<user, log, unused, announced, free, failed>>

(* logPanelUserSubscriptionAccess *)
WriteLog(s) ==
    LET r == reqs[s] IN
    /\ r.pc = "log"
    /\ \E i \in unused :
          /\ log' = [j \in DOMAIN log \cup {i} |->
                        IF j = i THEN [hwid |-> r.hwid, success |-> r.success] ELSE log[j]]
          /\ unused' = unused \ {i}
          /\ IF r.success /\ r.hwid # NoHwid
             THEN Goto(s, [r EXCEPT !.pc = "prior", !.row = {i}])
             ELSE End(s)
    /\ UNCHANGED <<user, announced, peak, free, failed>>

(* Slip: any row of the device, its own included, makes it a known one.    *)
LookForPriorOwn(s) ==
    LET r == reqs[s] IN
    /\ r.pc = "prior"
    /\ IF r.hwid \in Known THEN End(s) ELSE Goto(s, [r EXCEPT !.pc = "announce"])
    /\ UNCHANGED <<user, log, unused, announced, peak, free, failed>>

(* Slip: one other row is not enough.                                      *)
LookForTwoPrior(s) ==
    LET r == reqs[s]
        others == {i \in DOMAIN log \ r.row : log[i].success /\ log[i].hwid = r.hwid}
    IN
    /\ r.pc = "prior"
    /\ IF Cardinality(others) > 1 THEN End(s) ELSE Goto(s, [r EXCEPT !.pc = "announce"])
    /\ UNCHANGED <<user, log, unused, announced, peak, free, failed>>

(* Other successful rows of the same device.                               *)
LookForPrior(s) ==
    LET r == reqs[s] IN
    /\ r.pc = "prior"
    /\ IF \E i \in DOMAIN log \ r.row : log[i].success /\ log[i].hwid = r.hwid
       THEN End(s)
       ELSE Goto(s, [r EXCEPT !.pc = "announce"])
    /\ UNCHANGED <<user, log, unused, announced, peak, free, failed>>

Announce(s) ==
    /\ reqs[s].pc = "announce"
    /\ announced' = announced \cup reqs[s].row
    /\ End(s)
    /\ UNCHANGED <<user, log, unused, peak, free, failed>>

(* Building the feed throws, the row cannot be written (the feed is sent   *)
(* all the same), or the queue refuses the notification.                   *)
Fail(s) ==
    /\ CanFail
    /\ failed' = TRUE
    /\ End(s)
    /\ UNCHANGED <<user, log, unused, announced, peak, free>>

-----------------------------------------------------------------------------
(* The operator edits the user, or clears the log.                         *)
UpdateUser(d) ==
    /\ user' = Patched(user, d)
    /\ user' # user
    /\ UNCHANGED <<log, unused, reqs, announced, peak, free, failed, serial>>

DeleteLogs(hs) ==
    LET kept == {i \in DOMAIN log : log[i].hwid \notin hs} IN
    /\ kept # DOMAIN log
    /\ log' = Restrict(log, kept)
    /\ UNCHANGED <<user, unused, reqs, announced, peak, free, failed, serial>>

-----------------------------------------------------------------------------
Step(s) ==
    /\ s \in DOMAIN reqs
    /\ Count(s) \/ WriteLog(s) \/ LookForPrior(s) \/ Announce(s)

Next ==
    \/ \E s \in Slots, h \in Hwids \cup {NoHwid}, happ, viaCrypto \in BOOLEAN :
          Arrive(s, h, happ, viaCrypto)
    \/ \E s \in Slots : Step(s)
    \/ \E s \in DOMAIN reqs : Fail(s)
    \/ \E d \in Patches : UpdateUser(d)
    \/ \E h \in Hwids : DeleteLogs({h})
    \/ DeleteLogs(Hwids \cup {NoHwid})

Spec == Init /\ [][Next]_vars

-----------------------------------------------------------------------------
Request == [pc: {"count", "log", "prior", "announce"}, hwid: Hwids \cup {NoHwid},
            max: Limits, success: BOOLEAN, row: SUBSET LogIds]

(* Whatever is edited, a user is never asked to send an HWID and not to    *)
(* send one at once: nobody could receive the feed (updatePanelUser).      *)
Receivable == ~ (user.requireHwid /\ user.requireNoHwid)

TypeOK ==
    /\ Receivable
    /\ DOMAIN user = Switches \cup {"max"}
    /\ \A f \in Switches : user[f] \in BOOLEAN
    /\ user.max \in Limits
    /\ log \in [DOMAIN log -> [hwid: Hwids \cup {NoHwid}, success: BOOLEAN]]
    /\ DOMAIN log \subseteq LogIds \ unused
    /\ unused \subseteq LogIds
    /\ reqs \in [DOMAIN reqs -> Request]
    /\ DOMAIN reqs \subseteq Slots
    /\ announced \subseteq LogIds \ unused
    /\ peak \in Limits
    /\ free \in BOOLEAN /\ failed \in BOOLEAN /\ serial \in BOOLEAN

(* Requests in progress can exceed the limit only by their own number: the *)
(* count and the row it leads to are separate calls, and a refused request *)
(* must not take a place.  Without overlap the limit is exact              *)
(* (isUniqueHwidLimitExceeded).                                            *)
LimitKept ==
    ~ free => /\ Cardinality(Known) <= peak + Cardinality(Slots) - 1
              /\ serial => Cardinality(Known) <= peak

(* However requests of a device overlap, one row of it at most is          *)
(* announced (logPanelUserSubscriptionAccess looks for others after it has *)
(* written its own).                                                       *)
AnnouncedOnce ==
    \A i, j \in announced \cap DOMAIN log : log[i].hwid = log[j].hwid => i = j

(* Devices that came one at a time have been announced.                    *)
Heralded == \A h \in Known : \E i \in announced \cap DOMAIN log : log[i].hwid = h

SerialHeralded == serial /\ ~ failed /\ DOMAIN reqs = {} => Heralded
=============================================================================
