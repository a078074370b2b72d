-------------------------- MODULE FeedAccess_proofs --------------------------
(***************************************************************************)
(* Type correctness of module FeedAccess, and safety properties of         *)
(* requests that overlap in any way: the two switches about HWIDs are      *)
(* never both on, a device is announced once, and the limit of devices is  *)
(* exceeded by no more than the requests in progress.  Of requests that    *)
(* take turns: every device in the log has been announced.                 *)
(***************************************************************************)
EXTENDS FeedAccess, FiniteSetTheorems, TLAPS

Entry == [hwid: Hwids \cup {NoHwid}, success: BOOLEAN]

LogOK ==
    /\ log \in [DOMAIN log -> Entry]
    /\ DOMAIN log \subseteq LogIds \ unused
    /\ unused \subseteq LogIds
    /\ announced \subseteq LogIds \ unused

UserOK(u) ==
    /\ DOMAIN u = Switches \cup {"max"}
    /\ \A f \in Switches : u[f] \in BOOLEAN
    /\ u["max"] \in Limits

ReqsOK == reqs \in [DOMAIN reqs -> Request] /\ DOMAIN reqs \subseteq Slots

-----------------------------------------------------------------------------
(* Type correctness.                                                       *)
LEMMA GotoType ==
    ASSUME ReqsOK, NEW s \in DOMAIN reqs, NEW r \in Request, Goto(s, r)
    PROVE  ReqsOK'
  BY DEF ReqsOK, Goto

LEMMA EndType ==
    ASSUME ReqsOK, NEW s \in DOMAIN reqs, End(s)
    PROVE  ReqsOK'
  BY DEF ReqsOK, End, Restrict

LEMMA PatchedType ==
    ASSUME NEW u, UserOK(u), NEW d \in Patches
    PROVE  /\ UserOK(Patched(u, d))
           /\ ~ (u["requireHwid"] /\ u["requireNoHwid"])
                => ~ (Patched(u, d)["requireHwid"] /\ Patched(u, d)["requireNoHwid"])
  <1>1. DOMAIN d \subseteq Switches \cup {"max"}
    BY LimitsAssumption DEF Patches
  <1>2. \A f \in DOMAIN d \cap Switches : d[f] \in BOOLEAN
    BY LimitsAssumption DEF Patches, Switches
  <1>3. "max" \in DOMAIN d => d["max"] \in Limits
    BY LimitsAssumption DEF Patches, Switches
  <1> DEFINE asks(f) == f \in DOMAIN d /\ d[f]
             new == Patched(u, d)
  <1>4. /\ DOMAIN new = Switches \cup {"max"}
        /\ \A f \in Switches \cup {"max"} : new[f] =
              IF f = "requireHwid" /\ asks("requireNoHwid") THEN FALSE
              ELSE IF f = "requireNoHwid" /\ asks("requireHwid") THEN asks("requireNoHwid")
              ELSE IF f \in DOMAIN d THEN d[f] ELSE u[f]
    BY DEF Patched, UserOK
  <1> HIDE DEF new
  <1>5. asks("requireHwid") \in BOOLEAN /\ asks("requireNoHwid") \in BOOLEAN
    OBVIOUS
  <1>6. new["max"] \in Limits
    BY <1>3, <1>4 DEF UserOK
  <1>7. \A f \in Switches : new[f] \in BOOLEAN
    BY <1>2, <1>4, <1>5 DEF UserOK
  <1>8. ~ (u["requireHwid"] /\ u["requireNoHwid"])
           => ~ (new["requireHwid"] /\ new["requireNoHwid"])
    BY <1>2, <1>4 DEF UserOK, Switches
  <1> QED
    BY <1>4, <1>6, <1>7, <1>8 DEF UserOK, new

HistoryOK ==
    /\ peak \in Limits
    /\ free \in BOOLEAN /\ failed \in BOOLEAN /\ serial \in BOOLEAN

(* A request that has written its row knows which row that is.             *)
RowOK(r, l, un) ==
    r.pc \in {"prior", "announce"} =>
        \E i \in LogIds \ un :
            /\ r.row = {i}
            /\ i \in DOMAIN l => l[i].hwid = r.hwid /\ l[i].success

RowsOK == \A s \in DOMAIN reqs : RowOK(reqs[s], log, unused)

(* Rows are written under unused ids, never changed, and may be deleted.   *)
LogGrows ==
    /\ unused' \subseteq unused
    /\ \A i \in DOMAIN log' \ unused : i \in DOMAIN log /\ log'[i] = log[i]

TInv == LogOK /\ UserOK(user) /\ Receivable /\ ReqsOK /\ RowsOK /\ HistoryOK

LEMMA TypeInit == Init => TInv
  <1> SUFFICES ASSUME Init PROVE TInv
    OBVIOUS
  <1>1. UserOK(user) /\ Receivable
    BY LimitsAssumption DEF Init, UserOK, Switches, Receivable
  <1>2. LogOK /\ ReqsOK /\ RowsOK /\ HistoryOK
    BY LimitsAssumption DEF Init, LogOK, ReqsOK, RowsOK, HistoryOK
  <1> QED
    BY <1>1, <1>2 DEF TInv

LEMMA TypeImplied == TInv => TypeOK
  BY DEF TInv, TypeOK, LogOK, UserOK, ReqsOK, HistoryOK, Entry

LEMMA RowKept ==
    ASSUME LogGrows, NEW r, RowOK(r, log, unused)
    PROVE  RowOK(r, log', unused')
  BY DEF LogGrows, RowOK

LEMMA GotoRows ==
    ASSUME RowsOK, NEW s \in DOMAIN reqs, NEW r, Goto(s, r), LogGrows, RowOK(r, log', unused')
    PROVE  RowsOK'
  BY RowKept DEF RowsOK, Goto

LEMMA EndRows ==
    ASSUME RowsOK, NEW s \in DOMAIN reqs, End(s), LogGrows
    PROVE  RowsOK'
  BY RowKept DEF RowsOK, End, Restrict

LEMMA ArriveType ==
    ASSUME TInv, NEW s \in Slots, NEW h \in Hwids \cup {NoHwid},
           NEW happ \in BOOLEAN, NEW viaCrypto \in BOOLEAN, Arrive(s, h, happ, viaCrypto)
    PROVE  ReqsOK' /\ RowsOK'
  <1> DEFINE refused == Refused(user, h, happ, viaCrypto)
             pc == IF ~ refused /\ Counted(user) THEN "count" ELSE "log"
             r(b) == [pc |-> pc, hwid |-> h, max |-> user.max, success |-> b, row |-> {}]
  <1>1. pc \in {"count", "log", "prior", "announce"}
    OBVIOUS
  <1>2. user.max \in Limits
    BY DEF TInv, UserOK
  <1> HIDE DEF pc
  <1>3. \A b \in BOOLEAN : r(b) \in Request
    BY <1>1, <1>2 DEF Request
  <1>4. (~ refused) \in BOOLEAN
    OBVIOUS
  <1>5. reqs' = [q \in DOMAIN reqs \cup {s} |-> IF q = s THEN r(~ refused) ELSE reqs[q]]
    BY DEF Arrive, pc
  <1> HIDE DEF refused
  <1>6. r(~ refused) \in Request
    BY <1>3, <1>4
  <1>7. RowOK(r(~ refused), log', unused')
    BY DEF pc, RowOK
  <1> HIDE DEF r
  <1>8. ReqsOK'
    BY <1>5, <1>6 DEF TInv, ReqsOK
  <1>9. \A q \in DOMAIN reqs : RowOK(reqs[q], log', unused')
    BY DEF Arrive, TInv, RowsOK
  <1> QED
    BY <1>5, <1>7, <1>8, <1>9 DEF RowsOK

LEMMA TypeStep ==
    ASSUME TInv, [Next]_vars
    PROVE  TInv'
  <1> USE DEF TInv
  <1>1. ASSUME NEW s \in Slots, NEW h \in Hwids \cup {NoHwid}, NEW happ \in BOOLEAN,
               NEW viaCrypto \in BOOLEAN, Arrive(s, h, happ, viaCrypto)
        PROVE  TInv'
    <2>1. ReqsOK' /\ RowsOK'
      BY <1>1, ArriveType
    <2>2. LogOK' /\ UserOK(user)' /\ Receivable' /\ HistoryOK'
      BY <1>1 DEF Arrive, LogOK, UserOK, Receivable, HistoryOK
    <2> QED
      BY <2>1, <2>2
  <1>2. ASSUME NEW s \in DOMAIN reqs, Count(s)
        PROVE  TInv'
    <2> DEFINE ok == ~ Exceeded(reqs[s].hwid, reqs[s].max)
               r(b) == [reqs[s] EXCEPT !.pc = "log", !.success = b]
    <2>1. reqs[s] \in Request
      BY DEF ReqsOK
    <2>2. \A b \in BOOLEAN : r(b) \in Request /\ r(b).pc = "log"
      BY <2>1 DEF Request
    <2>3. ok \in BOOLEAN
      OBVIOUS
    <2>4. Goto(s, r(ok)) /\ UNCHANGED <<log, unused>>
      BY <1>2 DEF Count
    <2> HIDE DEF ok
    <2>5. r(ok) \in Request /\ r(ok).pc = "log"
      BY <2>2, <2>3
    <2> HIDE DEF r
    <2>6. ReqsOK' /\ RowsOK'
      <3>1. LogGrows
        BY <2>4 DEF LogGrows
      <3>2. RowOK(r(ok), log', unused')
        BY <2>5 DEF RowOK
      <3> QED
        BY <2>4, <2>5, <3>1, <3>2, GotoType, GotoRows
    <2>7. LogOK' /\ UserOK(user)' /\ Receivable'
      BY <1>2 DEF Count, LogOK, UserOK, Receivable
    <2>8. HistoryOK'
      BY <1>2, <2>1, <2>4 DEF Count, Goto, Request, HistoryOK
    <2> QED
      BY <2>6, <2>7, <2>8
  <1>3. ASSUME NEW s \in DOMAIN reqs, WriteLog(s)
        PROVE  TInv'
    <2> DEFINE r(i) == [reqs[s] EXCEPT !.pc = "prior", !.row = {i}]
    <2>1. reqs[s] \in Request
      BY DEF ReqsOK
    <2>2. PICK i \in unused :
            /\ log' = [j \in DOMAIN log \cup {i} |->
                          IF j = i THEN [hwid |-> reqs[s].hwid, success |-> reqs[s].success]
                                   ELSE log[j]]
            /\ unused' = unused \ {i}
            /\ \/ reqs[s].success /\ Goto(s, r(i))
               \/ End(s)
      BY <1>3 DEF WriteLog
    <2>3. i \in LogIds /\ i \notin DOMAIN log /\ i \notin unused'
      BY <2>2 DEF LogOK
    <2>4. [hwid |-> reqs[s].hwid, success |-> reqs[s].success] \in Entry
      BY <2>1 DEF Request, Entry
    <2>5. LogOK'
      <3>1. log' \in [DOMAIN log' -> Entry]
        BY <2>2, <2>4 DEF LogOK
      <3> QED
        BY <1>3, <2>2, <2>3, <3>1 DEF LogOK, WriteLog
    <2>6. r(i) \in Request /\ r(i).hwid = reqs[s].hwid /\ r(i).row = {i}
      BY <2>1, <2>3 DEF Request
    <2> HIDE DEF r
    <2>7. ReqsOK'
      BY <2>2, <2>6, GotoType, EndType
    <2>8. LogGrows
      BY <2>2, <2>3 DEF LogGrows
    <2>9. RowsOK'
      <3>1. CASE End(s)
        BY <2>8, <3>1, EndRows
      <3>2. CASE reqs[s].success /\ Goto(s, r(i))
        <4>1. RowOK(r(i), log', unused')
          BY <2>2, <2>3, <2>6, <3>2 DEF RowOK
        <4> QED
          BY <2>8, <3>2, <4>1, GotoRows
      <3> QED
        BY <2>2, <3>1, <3>2
    <2>10. UNCHANGED <<user, peak, free, failed, serial>>
      BY <1>3, <2>2 DEF WriteLog, Goto, End
    <2> QED
      BY <2>5, <2>7, <2>9, <2>10 DEF HistoryOK, UserOK, Receivable
  <1>4. ASSUME NEW s \in DOMAIN reqs, LookForPrior(s)
        PROVE  TInv'
    <2> DEFINE r == [reqs[s] EXCEPT !.pc = "announce"]
    <2>1. reqs[s] \in Request /\ RowOK(reqs[s], log, unused) /\ reqs[s].pc = "prior"
      BY <1>4 DEF ReqsOK, RowsOK, LookForPrior
    <2>2. r \in Request /\ r.row = reqs[s].row /\ r.hwid = reqs[s].hwid
      BY <2>1 DEF Request
    <2>3. /\ End(s) \/ Goto(s, r)
          /\ UNCHANGED <<user, log, unused, announced, peak, free, failed>>
      BY <1>4 DEF LookForPrior
    <2> HIDE DEF r
    <2>4. RowOK(r, log', unused')
      BY <2>1, <2>2, <2>3 DEF RowOK
    <2>5. LogGrows
      BY <2>3 DEF LogGrows
    <2>6. ReqsOK' /\ RowsOK' /\ serial' = serial
      BY <2>2, <2>3, <2>4, <2>5, GotoType, EndType, GotoRows, EndRows DEF Goto, End
    <2> QED
      BY <2>3, <2>6 DEF LogOK, UserOK, Receivable, HistoryOK
  <1>5. ASSUME NEW s \in DOMAIN reqs, Announce(s)
        PROVE  TInv'
    <2>1. reqs[s].row \subseteq LogIds \ unused
      BY <1>5 DEF Announce, RowsOK, RowOK
    <2>2. LogGrows
      BY <1>5 DEF LogGrows, Announce
    <2>3. ReqsOK' /\ RowsOK' /\ serial' = serial
      BY <1>5, <2>2, EndType, EndRows DEF Announce, End
    <2> QED
      BY <1>5, <2>1, <2>3 DEF Announce, LogOK, UserOK, Receivable, HistoryOK
  <1>6. ASSUME NEW s \in DOMAIN reqs, Fail(s)
        PROVE  TInv'
    <2>1. LogGrows
      BY <1>6 DEF LogGrows, Fail
    <2>2. ReqsOK' /\ RowsOK' /\ serial' = serial
      BY <1>6, <2>1, EndType, EndRows DEF Fail, End
    <2> QED
      BY <1>6, <2>2 DEF Fail, LogOK, UserOK, Receivable, HistoryOK
  <1>7. ASSUME NEW d \in Patches, UpdateUser(d)
        PROVE  TInv'
    <2>1. UserOK(user') /\ Receivable'
      BY <1>7, PatchedType DEF UpdateUser, Receivable
    <2> QED
      BY <1>7, <2>1 DEF UpdateUser, LogOK, ReqsOK, RowsOK, HistoryOK
  <1>8. ASSUME NEW hs, DeleteLogs(hs)
        PROVE  TInv'
    <2>1. LogGrows
      BY <1>8 DEF LogGrows, DeleteLogs, Restrict
    <2>2. ReqsOK' /\ RowsOK'
      BY <1>8, <2>1, RowKept DEF DeleteLogs, ReqsOK, RowsOK
    <2>3. LogOK'
      BY <1>8 DEF DeleteLogs, Restrict, LogOK
    <2> QED
      BY <1>8, <2>2, <2>3 DEF DeleteLogs, UserOK, Receivable, HistoryOK
  <1>9. CASE UNCHANGED vars
    BY <1>9 DEF vars, LogOK, UserOK, Receivable, ReqsOK, RowsOK, HistoryOK
  <1> QED
    BY <1>1, <1>2, <1>3, <1>4, <1>5, <1>6, <1>7, <1>8, <1>9 DEF Next, Step

(* Whatever requests, edits and failures interleave, the collections and   *)
(* the local variables of requests keep their types, and no sequence of    *)
(* edits leaves a user who must send an HWID and must not.                 *)
THEOREM TypeCorrect == Spec => []TypeOK
  <1>1. Spec => []TInv
    BY TypeInit, TypeStep, PTL DEF Spec
  <1> QED
    BY <1>1, TypeImplied, PTL

-----------------------------------------------------------------------------
(* Rows that have been announced, or are about to be.                      *)
Elected ==
    announced \cup UNION {reqs[s].row : s \in {s \in DOMAIN reqs : reqs[s].pc = "announce"}}

ElectedOnce ==
    /\ \A i \in Elected \cap DOMAIN log : log[i].success
    /\ \A i, j \in Elected \cap DOMAIN log : log[i].hwid = log[j].hwid => i = j

LEMMA ElectedWritten ==
    ASSUME TInv
    PROVE  Elected \cap unused = {}
  BY DEF TInv, LogOK, RowsOK, RowOK, Elected

(* No step but the one that decides adds a row to Elected.                 *)
LEMMA NoneElected ==
    ASSUME TInv, ElectedOnce, LogGrows, Elected' \subseteq Elected
    PROVE  ElectedOnce'
  BY ElectedWritten DEF ElectedOnce, LogGrows

LEMMA EndElects ==
    ASSUME NEW s \in DOMAIN reqs, End(s)
    PROVE  Elected' \subseteq announced' \cup Elected
  BY DEF Elected, End, Restrict

LEMMA ElectedStep ==
    ASSUME TInv, ElectedOnce, [Next]_vars
    PROVE  ElectedOnce'
  <1>1. ASSUME NEW s \in Slots, NEW h, NEW happ, NEW viaCrypto, Arrive(s, h, happ, viaCrypto)
        PROVE  ElectedOnce'
    <2>1. /\ s \notin DOMAIN reqs /\ DOMAIN reqs' = DOMAIN reqs \cup {s}
          /\ \A q \in DOMAIN reqs : reqs'[q] = reqs[q]
          /\ reqs'[s].pc # "announce"
      <3> DEFINE refused == Refused(user, h, happ, viaCrypto)
                 pc == IF ~ refused /\ Counted(user) THEN "count" ELSE "log"
                 r(b) == [pc |-> pc, hwid |-> h, max |-> user.max, success |-> b, row |-> {}]
      <3>1. /\ s \notin DOMAIN reqs
            /\ reqs' = [q \in DOMAIN reqs \cup {s} |-> IF q = s THEN r(~ refused) ELSE reqs[q]]
        BY <1>1 DEF Arrive
      <3>2. pc # "announce"
        OBVIOUS
      <3> HIDE DEF pc, refused
      <3>3. r(~ refused).pc = pc
        OBVIOUS
      <3> HIDE DEF r
      <3> QED
        BY <3>1, <3>2, <3>3
    <2>2. UNCHANGED <<log, unused, announced>>
      BY <1>1 DEF Arrive
    <2>3. Elected' \subseteq Elected
      BY <2>1, <2>2 DEF Elected
    <2> QED
      BY <2>2, <2>3, NoneElected DEF LogGrows
  <1>2. ASSUME NEW s \in DOMAIN reqs, Count(s)
        PROVE  ElectedOnce'
    <2>1. reqs[s].pc = "count" /\ reqs[s] \in Request
      BY <1>2 DEF Count, TInv, ReqsOK
    <2>2. /\ DOMAIN reqs' = DOMAIN reqs
          /\ \A q \in DOMAIN reqs \ {s} : reqs'[q] = reqs[q]
          /\ reqs'[s].pc = "log"
      <3> DEFINE ok == ~ Exceeded(reqs[s].hwid, reqs[s].max)
                 r(b) == [reqs[s] EXCEPT !.pc = "log", !.success = b]
      <3>1. reqs' = [reqs EXCEPT ![s] = r(ok)]
        BY <1>2 DEF Count, Goto
      <3> HIDE DEF ok
      <3>2. r(ok).pc = "log"
        BY <2>1 DEF Request
      <3> HIDE DEF r
      <3> QED
        BY <3>1, <3>2
    <2>3. UNCHANGED <<log, unused, announced>>
      BY <1>2 DEF Count
    <2>4. Elected' \subseteq Elected
      BY <2>2, <2>3 DEF Elected
    <2> QED
      BY <2>3, <2>4, NoneElected DEF LogGrows
  <1>3. ASSUME NEW s \in DOMAIN reqs, WriteLog(s)
        PROVE  ElectedOnce'
    <2>1. reqs[s] \in Request
      BY DEF TInv, ReqsOK
    <2>2. PICK i \in unused :
            /\ DOMAIN log' = DOMAIN log \cup {i}
            /\ \A j \in DOMAIN log \ {i} : log'[j] = log[j]
            /\ unused' = unused \ {i}
            /\ \/ Goto(s, [reqs[s] EXCEPT !.pc = "prior", !.row = {i}])
               \/ End(s)
      BY <1>3 DEF WriteLog
    <2>3. LogGrows
      BY <2>2 DEF LogGrows
    <2>4. UNCHANGED announced
      BY <1>3 DEF WriteLog
    <2>5. CASE End(s)
      <3>1. Elected' \subseteq Elected
        BY <2>4, <2>5, EndElects DEF Elected
      <3> QED
        BY <2>3, <3>1, NoneElected
    <2>6. CASE Goto(s, [reqs[s] EXCEPT !.pc = "prior", !.row = {i}])
      <3>1. /\ DOMAIN reqs' = DOMAIN reqs
            /\ \A q \in DOMAIN reqs \ {s} : reqs'[q] = reqs[q]
            /\ reqs'[s].pc = "prior"
        BY <2>1, <2>6 DEF Goto, Request
      <3>2. Elected' \subseteq Elected
        BY <2>4, <3>1 DEF Elected
      <3> QED
        BY <2>3, <3>2, NoneElected
    <2> QED
      BY <2>2, <2>5, <2>6
  <1>4. ASSUME NEW s \in DOMAIN reqs, LookForPrior(s)
        PROVE  ElectedOnce'
    <2>1. reqs[s] \in Request /\ RowOK(reqs[s], log, unused) /\ reqs[s].pc = "prior"
      BY <1>4 DEF TInv, ReqsOK, RowsOK, LookForPrior
    <2>2. UNCHANGED <<log, unused, announced>>
      BY <1>4 DEF LookForPrior
    <2>3. CASE \E i \in DOMAIN log \ reqs[s].row : log[i].success /\ log[i].hwid = reqs[s].hwid
      <3>1. End(s)
        BY <1>4, <2>3 DEF LookForPrior
      <3>2. Elected' \subseteq Elected
        BY <2>2, <3>1, EndElects DEF Elected
      <3> QED
        BY <2>2, <3>2, NoneElected DEF LogGrows
    <2>4. CASE \A i \in DOMAIN log \ reqs[s].row :
                  ~ (log[i].success /\ log[i].hwid = reqs[s].hwid)
      <3>1. Goto(s, [reqs[s] EXCEPT !.pc = "announce"])
        BY <1>4, <2>4 DEF LookForPrior
      <3>2. PICK n : /\ reqs[s].row = {n}
                     /\ n \in DOMAIN log => log[n].hwid = reqs[s].hwid /\ log[n].success
        BY <2>1 DEF RowOK
      <3>3. /\ DOMAIN reqs' = DOMAIN reqs
            /\ \A q \in DOMAIN reqs \ {s} : reqs'[q] = reqs[q]
            /\ reqs'[s].row = {n}
        BY <2>1, <3>1, <3>2 DEF Goto, Request
      <3>4. Elected' \subseteq Elected \cup {n}
        BY <2>2, <3>3 DEF Elected
      <3>5. \A j \in Elected \cap DOMAIN log : n \in DOMAIN log /\ log[j].hwid = log[n].hwid => j = n
        BY <2>4, <3>2 DEF ElectedOnce
      <3>6. /\ \A i \in Elected' \cap DOMAIN log : log[i].success
            /\ \A i, j \in Elected' \cap DOMAIN log : log[i].hwid = log[j].hwid => i = j
        BY <3>2, <3>4, <3>5 DEF ElectedOnce
      <3> QED
        BY <2>2, <3>6 DEF ElectedOnce
    <2> QED
      BY <2>3, <2>4
  <1>5. ASSUME NEW s \in DOMAIN reqs, Announce(s)
        PROVE  ElectedOnce'
    <2>1. announced' \subseteq Elected /\ End(s)
      BY <1>5 DEF Announce, Elected
    <2>2. Elected' \subseteq Elected
      BY <2>1, EndElects
    <2> QED
      BY <1>5, <2>2, NoneElected DEF Announce, LogGrows
  <1>6. ASSUME NEW s \in DOMAIN reqs, Fail(s)
        PROVE  ElectedOnce'
    <2>1. announced' \subseteq Elected /\ End(s)
      BY <1>6 DEF Fail, Elected
    <2>2. Elected' \subseteq Elected
      BY <2>1, EndElects
    <2> QED
      BY <1>6, <2>2, NoneElected DEF Fail, LogGrows
  <1>7. ASSUME NEW d, UpdateUser(d)
        PROVE  ElectedOnce'
    BY <1>7 DEF UpdateUser, ElectedOnce, Elected
  <1>8. ASSUME NEW hs, DeleteLogs(hs)
        PROVE  ElectedOnce'
    <2>1. Elected' = Elected
      BY <1>8 DEF DeleteLogs, Elected
    <2>2. LogGrows
      BY <1>8 DEF DeleteLogs, Restrict, LogGrows
    <2> QED
      BY <2>1, <2>2, NoneElected
  <1>9. CASE UNCHANGED vars
    BY <1>9 DEF vars, ElectedOnce, Elected
  <1> QED
    BY <1>1, <1>2, <1>3, <1>4, <1>5, <1>6, <1>7, <1>8, <1>9 DEF Next, Step

(* However many requests of a device overlap, and wherever they stop, one  *)
(* row of it at most is announced (logPanelUserSubscriptionAccess).        *)
THEOREM AnnouncedOnceCorrect == Spec => []AnnouncedOnce
  <1>1. Init => ElectedOnce
    BY DEF Init, ElectedOnce
  <1>2. ElectedOnce => AnnouncedOnce
    BY DEF ElectedOnce, AnnouncedOnce, Elected
  <1> QED
    BY <1>1, <1>2, TypeInit, TypeStep, ElectedStep, PTL DEF Spec
-----------------------------------------------------------------------------
(* Devices that were let through and whose rows are not written yet.  They *)
(* are as many as the requests in progress, one as long as these have      *)
(* never overlapped.                                                       *)
Promised ==
    {reqs[s].hwid : s \in {s \in DOMAIN reqs : reqs[s].pc = "log" /\ reqs[s].success}}
    \ {NoHwid}

Room == IF serial THEN 1 ELSE Cardinality(Slots)

Alone == serial => \A s, t \in DOMAIN reqs : s = t

WithinRoom ==
    /\ Alone
    /\ ~ free => Cardinality(Known \cup Promised) <= peak + Room - 1

LEMMA SlotsSize == Cardinality(Slots) \in Nat /\ Cardinality(Slots) >= 1
  BY LimitsAssumption, FS_CardinalityType, FS_EmptySet

LEMMA KnownFinite ==
    ASSUME TInv
    PROVE  IsFiniteSet(Known) /\ Known \subseteq Hwids
  <1>1. Known \subseteq Hwids
    BY DEF TInv, LogOK, Entry, Known
  <1> QED
    BY <1>1, LimitsAssumption, FS_Subset

LEMMA PromisedSmall ==
    TInv /\ Alone => IsFiniteSet(Promised) /\ Cardinality(Promised) <= Room
  <1> SUFFICES ASSUME TInv, Alone
               PROVE  IsFiniteSet(Promised) /\ Cardinality(Promised) <= Room
    OBVIOUS
  <1> DEFINE P == {s \in DOMAIN reqs : reqs[s].pc = "log" /\ reqs[s].success}
             f == [s \in P |-> reqs[s].hwid]
             T == {reqs[s].hwid : s \in P}
  <1>1. P \subseteq Slots
    BY DEF TInv, ReqsOK
  <1>2. IsFiniteSet(P) /\ Cardinality(P) <= Cardinality(Slots)
    BY <1>1, LimitsAssumption, FS_Subset
  <1>3. f \in Surjection(P, T)
    BY DEF Surjection
  <1>4. IsFiniteSet(T) /\ Cardinality(T) <= Cardinality(P)
    BY <1>2, <1>3, FS_Surjection
  <1>5. Promised \subseteq T
    BY DEF Promised
  <1>6. IsFiniteSet(Promised) /\ Cardinality(Promised) <= Cardinality(T)
    BY <1>4, <1>5, FS_Subset
  <1>7. /\ Cardinality(Promised) \in Nat /\ Cardinality(T) \in Nat
        /\ Cardinality(P) \in Nat
    BY <1>2, <1>4, <1>6, FS_CardinalityType
  <1>8. CASE serial
    <2>1. PICK s : P \subseteq {s}
      BY <1>8 DEF Alone
    <2> HIDE DEF P
    <2>2. IsFiniteSet({s}) /\ Cardinality({s}) = 1
      BY FS_Singleton
    <2>3. P \in SUBSET {s}
      BY <2>1
    <2>4. Cardinality(P) <= 1
      BY <2>2, <2>3, FS_Subset
    <2> QED
      BY <1>4, <1>6, <1>7, <1>8, <2>4 DEF Room
  <1>9. CASE ~ serial
    BY <1>2, <1>4, <1>6, <1>7, <1>9, SlotsSize DEF Room
  <1> QED
    BY <1>6, <1>8, <1>9
(* A step that lets no device through.                                     *)
LEMMA NoneLetThrough ==
    ASSUME TInv, TInv', WithinRoom, Alone', Known' \cup Promised' \subseteq Known \cup Promised,
           peak' = peak, free \in BOOLEAN, free => free', serial' => serial
    PROVE  WithinRoom'
  <1> SUFFICES ASSUME ~ free'
               PROVE  Cardinality(Known' \cup Promised') <= peak' + Room' - 1
    BY DEF WithinRoom
  <1> DEFINE S == Known \cup Promised
             T == Known' \cup Promised'
  <1>1. IsFiniteSet(S)
    BY KnownFinite, PromisedSmall, FS_Union DEF WithinRoom
  <1>2. T \in SUBSET S
    OBVIOUS
  <1> HIDE DEF S, T
  <1>3. Cardinality(T) <= Cardinality(S) /\ IsFiniteSet(T)
    BY <1>1, <1>2, FS_Subset
  <1>4. Cardinality(S) \in Nat /\ Cardinality(T) \in Nat
    BY <1>1, <1>3, FS_CardinalityType
  <1>5. Cardinality(S) <= peak + Room - 1
    BY DEF WithinRoom, S
  <1>6. Room \in Nat /\ Room' \in Nat /\ Room <= Room'
    BY SlotsSize DEF Room
  <1>7. peak \in Nat
    BY LimitsAssumption DEF TInv, HistoryOK
  <1> QED
    BY <1>3, <1>4, <1>5, <1>6, <1>7 DEF T
LEMMA AloneKept ==
    ASSUME Alone, DOMAIN reqs' \subseteq DOMAIN reqs, serial' = serial
    PROVE  Alone'
  BY DEF Alone

LEMMA ArriveWithin ==
    ASSUME TInv, TInv', WithinRoom, NEW s \in Slots, NEW h, NEW happ \in BOOLEAN,
           NEW viaCrypto \in BOOLEAN, Arrive(s, h, happ, viaCrypto)
    PROVE  WithinRoom'
  <1> DEFINE refused == Refused(user, h, happ, viaCrypto)
             counted == ~ refused /\ Counted(user)
             pc == IF counted THEN "count" ELSE "log"
             r(b) == [pc |-> pc, hwid |-> h, max |-> user.max, success |-> b, row |-> {}]
  <1>1. /\ s \notin DOMAIN reqs
        /\ reqs' = [q \in DOMAIN reqs \cup {s} |-> IF q = s THEN r(~ refused) ELSE reqs[q]]
        /\ serial' = (serial /\ DOMAIN reqs = {})
        /\ free' = (free \/ (~ refused /\ ~ counted /\ h # NoHwid))
        /\ UNCHANGED <<log, peak>>
    BY DEF Arrive
  <1>2. Alone'
    BY <1>1 DEF Alone
  <1>3. /\ counted => pc # "log"
        /\ refused \in BOOLEAN
    BY DEF Refused
  <1>4. Known' = Known /\ peak' = peak /\ (free => free') /\ (serial' => serial)
    BY <1>1 DEF Known
  <1>5. free' \/ refused \/ counted \/ h = NoHwid
    BY <1>1
  <1> HIDE DEF counted, refused, pc
  <1>6. r(~ refused).pc = pc /\ r(~ refused).hwid = h /\ r(~ refused).success = ~ refused
    BY <1>3
  <1> HIDE DEF r
  <1>7. free' \/ Promised' \subseteq Promised
    BY <1>1, <1>3, <1>5, <1>6 DEF Promised
  <1>8. CASE free'
    BY <1>2, <1>8 DEF WithinRoom
  <1>9. CASE Promised' \subseteq Promised
    BY <1>2, <1>4, <1>9, NoneLetThrough DEF TInv, HistoryOK
  <1> QED
    BY <1>7, <1>8, <1>9

LEMMA CountWithin ==
    ASSUME TInv, TInv', WithinRoom, NEW s \in DOMAIN reqs, Count(s)
    PROVE  WithinRoom'
  <1> DEFINE h == reqs[s].hwid
             max == reqs[s].max
             ok == ~ Exceeded(h, max)
             r(b) == [reqs[s] EXCEPT !.pc = "log", !.success = b]
  <1>1. reqs[s] \in Request
    BY DEF TInv, ReqsOK
  <1>2. max \in Nat /\ peak \in Nat
    BY <1>1, LimitsAssumption DEF Request, TInv, HistoryOK
  <1>3. /\ reqs' = [reqs EXCEPT ![s] = r(ok)]
        /\ peak' = IF max > peak THEN max ELSE peak
        /\ UNCHANGED <<log, free, serial>>
    BY DEF Count, Goto
  <1>4. Known' = Known /\ peak' \in Nat /\ peak' >= peak /\ peak' >= max
    BY <1>2, <1>3 DEF Known
  <1>5. Alone'
    BY <1>3, AloneKept DEF WithinRoom
  <1>6. ok \in BOOLEAN
    OBVIOUS
  <1> HIDE DEF ok, max
  <1>7. r(ok).pc = "log" /\ r(ok).hwid = h /\ r(ok).success = ok
    BY <1>1, <1>6 DEF Request
  <1> HIDE DEF r, h
  <1>8. Promised' \subseteq Promised \cup (IF ok THEN {h} \ {NoHwid} ELSE {})
    BY <1>3, <1>7 DEF Promised
  <1>9. IsFiniteSet(Known) /\ Cardinality(Known) \in Nat
    BY KnownFinite, FS_CardinalityType
  <1>10. /\ IsFiniteSet(Promised') /\ Cardinality(Promised') <= Room'
         /\ Cardinality(Promised') \in Nat
    <2>1. (TInv /\ Alone => IsFiniteSet(Promised) /\ Cardinality(Promised) <= Room)'
      BY PromisedSmall, PTL
    <2>2. IsFiniteSet(Promised') /\ Cardinality(Promised') <= Room'
      BY <1>5, <2>1
    <2> QED
      BY <2>2, FS_CardinalityType
  <1>11. /\ Room' = Room /\ Room \in Nat
    BY <1>3, SlotsSize DEF Room
  <1>12. CASE ok /\ h # NoHwid /\ h \notin Known
    <2>1. Cardinality(Known) + 1 <= max
      BY <1>2, <1>9, <1>12 DEF ok, Exceeded
    <2>2. /\ IsFiniteSet(Known \cup Promised')
          /\ Cardinality(Known \cup Promised')
               = Cardinality(Known) + Cardinality(Promised') - Cardinality(Known \cap Promised')
      BY <1>9, <1>10, FS_Union
    <2>3. Cardinality(Known \cap Promised') \in Nat
      BY <1>9, FS_Subset, FS_CardinalityType
    <2>4. Cardinality(Known \cup Promised') <= peak' + Room' - 1
      BY <1>2, <1>4, <1>9, <1>10, <1>11, <2>1, <2>2, <2>3
    <2> QED
      BY <1>4, <1>5, <2>4 DEF WithinRoom
  <1>13. CASE ~ ok \/ h = NoHwid \/ h \in Known
    <2> DEFINE S == Known \cup Promised
               T == Known \cup Promised'
    <2>1. T \in SUBSET S
      BY <1>8, <1>13
    <2>2. IsFiniteSet(S)
      BY KnownFinite, PromisedSmall, FS_Union DEF WithinRoom
    <2> HIDE DEF S, T
    <2>3. /\ Cardinality(T) <= Cardinality(S)
          /\ Cardinality(T) \in Nat /\ Cardinality(S) \in Nat
      BY <2>1, <2>2, FS_Subset, FS_CardinalityType
    <2>4. ~ free => Cardinality(S) <= peak + Room - 1
      BY DEF WithinRoom, S
    <2>5. ~ free => Cardinality(T) <= peak' + Room' - 1
      BY <1>2, <1>4, <1>11, <2>3, <2>4
    <2> QED
      BY <1>3, <1>4, <1>5, <2>5 DEF WithinRoom, T
  <1> QED
    BY <1>12, <1>13
LEMMA WithinStep ==
    ASSUME TInv, TInv', WithinRoom, [Next]_vars
    PROVE  WithinRoom'
  <1>0. free \in BOOLEAN /\ Alone
    BY DEF TInv, HistoryOK, WithinRoom
  <1>1. ASSUME NEW s \in DOMAIN reqs, WriteLog(s)
        PROVE  WithinRoom'
    <2> DEFINE h == reqs[s].hwid
    <2>1. reqs[s] \in Request /\ reqs[s].pc = "log"
      BY <1>1 DEF TInv, ReqsOK, WriteLog
    <2>2. PICK i \in unused :
            /\ DOMAIN log' = DOMAIN log \cup {i}
            /\ log'[i].hwid = h /\ log'[i].success = reqs[s].success
            /\ \A j \in DOMAIN log \ {i} : log'[j] = log[j]
            /\ \/ Goto(s, [reqs[s] EXCEPT !.pc = "prior", !.row = {i}])
               \/ End(s)
      <3>1. PICK i \in unused :
              /\ log' = [j \in DOMAIN log \cup {i} |->
                            IF j = i THEN [hwid |-> h, success |-> reqs[s].success]
                                     ELSE log[j]]
              /\ \/ Goto(s, [reqs[s] EXCEPT !.pc = "prior", !.row = {i}])
                 \/ End(s)
        BY <1>1 DEF WriteLog
      <3> DEFINE e == [hwid |-> h, success |-> reqs[s].success]
      <3>2. e.hwid = h /\ e.success = reqs[s].success
        OBVIOUS
      <3>3. log' = [j \in DOMAIN log \cup {i} |-> IF j = i THEN e ELSE log[j]]
        BY <3>1
      <3> HIDE DEF e
      <3> QED
        BY <3>1, <3>2, <3>3
    <2>3. /\ peak' = peak /\ free' = free /\ serial' = serial
          /\ DOMAIN reqs' \subseteq DOMAIN reqs
          /\ \A q \in DOMAIN reqs' \ {s} : reqs'[q] = reqs[q]
          /\ s \in DOMAIN reqs' => reqs'[s].pc = "prior"
      <3>1. peak' = peak /\ free' = free
        BY <1>1 DEF WriteLog
      <3>2. CASE Goto(s, [reqs[s] EXCEPT !.pc = "prior", !.row = {i}])
        BY <2>1, <3>1, <3>2 DEF Goto, Request
      <3>3. CASE End(s)
        BY <3>1, <3>3 DEF End, Restrict
      <3> QED
        BY <2>2, <3>2, <3>3
    <2>4. Promised' \subseteq Promised
      BY <2>3 DEF Promised
    <2>5. i \notin DOMAIN log
      BY <2>2 DEF TInv, LogOK
    <2>6. Known' \subseteq Known \cup (IF reqs[s].success THEN {h} \ {NoHwid} ELSE {})
      BY <2>2, <2>5 DEF Known
    <2>7. reqs[s].success => {h} \ {NoHwid} \subseteq Promised
      BY <2>1 DEF Promised
    <2>8. Alone'
      BY <1>0, <2>3, AloneKept
    <2>9. Known' \cup Promised' \subseteq Known \cup Promised
      BY <2>4, <2>6, <2>7
    <2> QED
      BY <1>0, <2>3, <2>8, <2>9, NoneLetThrough
  <1>2. ASSUME NEW s \in DOMAIN reqs, LookForPrior(s) \/ Announce(s) \/ Fail(s)
        PROVE  WithinRoom'
    <2>1. /\ UNCHANGED <<log, peak, free>>
          /\ \/ End(s)
             \/ Goto(s, [reqs[s] EXCEPT !.pc = "announce"])
      BY <1>2 DEF LookForPrior, Announce, Fail
    <2>2. reqs[s] \in Request
      BY DEF TInv, ReqsOK
    <2>3. /\ serial' = serial
          /\ DOMAIN reqs' \subseteq DOMAIN reqs
          /\ \A q \in DOMAIN reqs' \ {s} : reqs'[q] = reqs[q]
          /\ s \in DOMAIN reqs' => reqs'[s].pc = "announce"
      BY <2>1, <2>2 DEF Goto, End, Restrict, Request
    <2>4. Known' = Known /\ Promised' \subseteq Promised
      BY <2>1, <2>3 DEF Known, Promised
    <2>5. Alone'
      BY <1>0, <2>3, AloneKept
    <2> QED
      BY <1>0, <2>1, <2>3, <2>4, <2>5, NoneLetThrough
  <1>3. ASSUME NEW d, UpdateUser(d)
        PROVE  WithinRoom'
    BY <1>3 DEF UpdateUser, WithinRoom, Alone, Known, Promised, Room
  <1>4. ASSUME NEW hs, DeleteLogs(hs)
        PROVE  WithinRoom'
    <2>1. Known' \subseteq Known
      BY <1>4 DEF DeleteLogs, Restrict, Known
    <2>2. UNCHANGED <<reqs, peak, free, serial>>
      BY <1>4 DEF DeleteLogs
    <2>3. Promised' = Promised /\ Alone'
      BY <1>0, <2>2 DEF Promised, Alone
    <2> QED
      BY <1>0, <2>1, <2>2, <2>3, NoneLetThrough
  <1>5. CASE UNCHANGED vars
    BY <1>5 DEF vars, WithinRoom, Alone, Known, Promised, Room
  <1> QED
    BY <1>1, <1>2, <1>3, <1>4, <1>5, ArriveWithin, CountWithin DEF Next, Step

LEMMA WithinInit == Init => WithinRoom
  <1> SUFFICES ASSUME Init PROVE WithinRoom
    OBVIOUS
  <1>1. Known \cup Promised = {} /\ Alone
    BY DEF Init, Known, Promised, Alone
  <1>2. Room \in Nat /\ Room >= 1 /\ peak = 0
    BY SlotsSize DEF Room, Init
  <1> QED
    BY <1>1, <1>2, FS_EmptySet DEF WithinRoom

LEMMA WithinImplied == TInv /\ WithinRoom => LimitKept
  <1> SUFFICES ASSUME TInv, WithinRoom, ~ free
               PROVE  /\ Cardinality(Known) <= peak + Cardinality(Slots) - 1
                      /\ serial => Cardinality(Known) <= peak
    BY DEF LimitKept
  <1>1. IsFiniteSet(Known \cup Promised)
    BY KnownFinite, PromisedSmall, FS_Union DEF WithinRoom
  <1>2. /\ Cardinality(Known) <= Cardinality(Known \cup Promised)
        /\ Cardinality(Known) \in Nat /\ Cardinality(Known \cup Promised) \in Nat
    BY <1>1, KnownFinite, FS_Subset, FS_CardinalityType
  <1>3. Cardinality(Known \cup Promised) <= peak + Room - 1
    BY DEF WithinRoom
  <1>4. peak \in Nat
    BY LimitsAssumption DEF TInv, HistoryOK
  <1>5. (serial => Room = 1) /\ Room <= Cardinality(Slots) /\ Room \in Nat
    BY SlotsSize DEF Room
  <1> QED
    BY <1>2, <1>3, <1>4, <1>5, SlotsSize

(* However many requests there are and however they overlap, the limit of  *)
(* devices is exceeded at most by the other requests in progress, and is   *)
(* exact as long as no two have overlapped (isUniqueHwidLimitExceeded,     *)
(* then logPanelUserSubscriptionAccess).                                   *)
THEOREM LimitKeptCorrect == Spec => []LimitKept
  BY TypeInit, TypeStep, WithinInit, WithinStep, WithinImplied, PTL DEF Spec
-----------------------------------------------------------------------------
(* As long as requests take turns and none fails, a device with a row in   *)
(* the log has been announced, unless that row is the one of the request   *)
(* in progress, which has still to look for others.                        *)
Accepted(i) == log[i].success /\ log[i].hwid # NoHwid

Announced(i) == \E j \in announced \cap DOMAIN log : log[j].hwid = log[i].hwid

Own(s, i) == reqs[s].pc \in {"prior", "announce"} /\ i \in reqs[s].row

Pending(i) == \E s \in DOMAIN reqs : Own(s, i)

Heard ==
    serial /\ ~ failed => \A i \in DOMAIN log : Accepted(i) => Announced(i) \/ Pending(i)

HeardInv == TInv /\ WithinRoom /\ Heard

LEMMA HeardStep ==
    ASSUME HeardInv, TInv', WithinRoom', [Next]_vars
    PROVE  Heard'
  <1> USE DEF HeardInv
  <1> SUFFICES ASSUME serial', ~ failed', NEW i \in DOMAIN log', Accepted(i)'
               PROVE  Announced(i)' \/ Pending(i)'
    BY DEF Heard
  <1>1. ASSUME NEW s \in Slots, NEW h, NEW happ, NEW viaCrypto, Arrive(s, h, happ, viaCrypto)
        PROVE  Announced(i)' \/ Pending(i)'
    <2>1. /\ serial /\ ~ failed /\ UNCHANGED <<log, announced>>
          /\ s \notin DOMAIN reqs /\ DOMAIN reqs' = DOMAIN reqs \cup {s}
          /\ \A q \in DOMAIN reqs : reqs'[q] = reqs[q]
      BY <1>1 DEF Arrive
    <2>2. Announced(i) \/ Pending(i)
      BY <2>1 DEF Heard, Accepted
    <2> QED
      BY <2>1, <2>2 DEF Announced, Pending, Own
  <1>2. ASSUME NEW s \in DOMAIN reqs, Count(s)
        PROVE  Announced(i)' \/ Pending(i)'
    <2>1. /\ serial /\ ~ failed /\ UNCHANGED <<log, announced>>
          /\ DOMAIN reqs' = DOMAIN reqs /\ reqs[s].pc = "count"
          /\ \A q \in DOMAIN reqs \ {s} : reqs'[q] = reqs[q]
      BY <1>2 DEF Count, Goto
    <2>2. Announced(i) \/ Pending(i)
      BY <2>1 DEF Heard, Accepted
    <2> QED
      BY <2>1, <2>2 DEF Announced, Pending, Own
  <1>3. ASSUME NEW s \in DOMAIN reqs, WriteLog(s)
        PROVE  Announced(i)' \/ Pending(i)'
    <2>1. reqs[s] \in Request /\ reqs[s].pc = "log"
      BY <1>3 DEF TInv, ReqsOK, WriteLog
    <2> DEFINE e == [hwid |-> reqs[s].hwid, success |-> reqs[s].success]
               r(k) == [reqs[s] EXCEPT !.pc = "prior", !.row = {k}]
    <2>2. PICK k \in unused :
            /\ log' = [j \in DOMAIN log \cup {k} |-> IF j = k THEN e ELSE log[j]]
            /\ IF reqs[s].success /\ reqs[s].hwid # NoHwid THEN Goto(s, r(k)) ELSE End(s)
      BY <1>3 DEF WriteLog
    <2>3. r(k).pc = "prior" /\ r(k).row = {k}
      BY <2>1 DEF Request
    <2>4. /\ k \notin DOMAIN log /\ UNCHANGED <<announced, serial, failed>>
          /\ e.hwid = reqs[s].hwid /\ e.success = reqs[s].success
      BY <1>3, <2>2 DEF TInv, LogOK, WriteLog, Goto, End
    <2> HIDE DEF e, r
    <2>5. CASE i = k
      <3>1. Goto(s, r(k))
        BY <2>2, <2>4, <2>5 DEF Accepted
      <3> QED
        BY <2>3, <2>5, <3>1 DEF Goto, Pending, Own
    <2>6. CASE i # k
      <3>1. i \in DOMAIN log /\ log'[i] = log[i]
        BY <2>2, <2>6
      <3>2. Announced(i) \/ Pending(i)
        BY <2>4, <3>1 DEF Heard, Accepted
      <3>3. Announced(i) => Announced(i)'
        BY <2>2, <2>4, <3>1 DEF Announced
      <3>4. Pending(i) => Pending(i)'
        BY <2>1, <2>2 DEF Pending, Own, Goto, End, Restrict
      <3> QED
        BY <3>2, <3>3, <3>4
    <2> QED
      BY <2>5, <2>6
  <1>4. ASSUME NEW s \in DOMAIN reqs, LookForPrior(s)
        PROVE  Announced(i)' \/ Pending(i)'
    <2>1. /\ reqs[s] \in Request /\ RowOK(reqs[s], log, unused) /\ reqs[s].pc = "prior"
          /\ serial /\ ~ failed /\ UNCHANGED <<log, announced>>
      BY <1>4 DEF TInv, ReqsOK, RowsOK, LookForPrior, Goto, End
    <2>2. \A q \in DOMAIN reqs : q = s
      BY <2>1 DEF WithinRoom, Alone
    <2>3. Announced(i) \/ Pending(i)
      BY <2>1 DEF Heard, Accepted
    <2>4. CASE Goto(s, [reqs[s] EXCEPT !.pc = "announce"])
      BY <2>1, <2>3, <2>4 DEF Goto, Request, Announced, Pending, Own
    <2>5. CASE /\ \E j \in DOMAIN log \ reqs[s].row :
                        log[j].success /\ log[j].hwid = reqs[s].hwid
               /\ Pending(i)
      <3>1. i \in reqs[s].row /\ log[i].hwid = reqs[s].hwid
        BY <2>1, <2>2, <2>5 DEF Pending, Own, RowOK
      <3>2. PICK j \in DOMAIN log \ reqs[s].row : log[j].success /\ log[j].hwid = reqs[s].hwid
        BY <2>5
      <3>3. Accepted(j) /\ ~ Pending(j)
        BY <2>1, <2>2, <3>1, <3>2 DEF Accepted, Pending, Own
      <3>4. Announced(j)
        BY <2>1, <3>2, <3>3 DEF Heard
      <3> QED
        BY <2>1, <3>1, <3>2, <3>4 DEF Announced
    <2>6. Announced(i) => Announced(i)'
      BY <2>1 DEF Announced
    <2> QED
      BY <1>4, <2>3, <2>4, <2>5, <2>6 DEF LookForPrior
  <1>5. ASSUME NEW s \in DOMAIN reqs, Announce(s)
        PROVE  Announced(i)' \/ Pending(i)'
    <2>1. /\ serial /\ ~ failed /\ UNCHANGED log
          /\ announced' = announced \cup reqs[s].row
      BY <1>5 DEF Announce, End
    <2>2. \A q \in DOMAIN reqs : q = s
      BY <2>1 DEF WithinRoom, Alone
    <2>3. Announced(i) \/ Pending(i)
      BY <2>1 DEF Heard, Accepted
    <2> QED
      BY <2>1, <2>2, <2>3 DEF Announced, Pending, Own
  <1>6. ASSUME NEW s, Fail(s)
        PROVE  FALSE
    BY <1>6 DEF Fail
  <1>7. ASSUME NEW d, UpdateUser(d)
        PROVE  Announced(i)' \/ Pending(i)'
    BY <1>7 DEF UpdateUser, Heard, Accepted, Announced, Pending, Own
  <1>8. ASSUME NEW hs, DeleteLogs(hs)
        PROVE  Announced(i)' \/ Pending(i)'
    <2>1. /\ UNCHANGED <<reqs, announced, serial, failed>>
          /\ \A j : j \in DOMAIN log' <=> j \in DOMAIN log /\ log[j].hwid \notin hs
          /\ \A j \in DOMAIN log' : log'[j] = log[j]
      BY <1>8 DEF DeleteLogs, Restrict
    <2>2. Announced(i) \/ Pending(i)
      BY <2>1 DEF Heard, Accepted
    <2>3. Announced(i) => Announced(i)'
      BY <2>1 DEF Announced
    <2>4. Pending(i) => Pending(i)'
      BY <2>1 DEF Pending, Own
    <2> QED
      BY <2>2, <2>3, <2>4
  <1>9. CASE UNCHANGED vars
    BY <1>9 DEF vars, Heard, Accepted, Announced, Pending, Own
  <1> QED
    BY <1>1, <1>2, <1>3, <1>4, <1>5, <1>6, <1>7, <1>8, <1>9 DEF Next, Step

LEMMA HeardImplied == HeardInv => SerialHeralded
  <1> SUFFICES ASSUME HeardInv, serial, ~ failed, DOMAIN reqs = {}, NEW h \in Known
               PROVE  \E i \in announced \cap DOMAIN log : log[i].hwid = h
    BY DEF SerialHeralded, Heralded
  <1>1. PICK i \in DOMAIN log : log[i].success /\ log[i].hwid = h /\ h # NoHwid
    BY DEF Known
  <1>2. Announced(i) \/ Pending(i)
    BY <1>1 DEF HeardInv, Heard, Accepted
  <1> QED
    BY <1>1, <1>2 DEF Announced, Pending

(* As long as no two requests have overlapped and nothing has failed,      *)
(* every device in the log has been announced, whatever rows the operator  *)
(* deleted in between (logPanelUserSubscriptionAccess).                    *)
THEOREM SerialHeraldedCorrect == Spec => []SerialHeralded
  <1>1. Init => Heard
    BY DEF Init, Heard
  <1>2. HeardInv /\ [Next]_vars => HeardInv'
    BY TypeStep, WithinStep, HeardStep DEF HeardInv
  <1>3. Init => HeardInv
    BY <1>1, TypeInit, WithinInit DEF HeardInv
  <1> QED
    BY <1>2, <1>3, HeardImplied, PTL DEF Spec
=============================================================================
