-------------------------- MODULE FetchCycle_proofs --------------------------
(***************************************************************************)
(* Type correctness of module FetchCycle, that stored marks tell the truth *)
(* however fetches overlap, fail and stop, and that of fetches that take   *)
(* turns no two warn of the same end.                                      *)
(***************************************************************************)
EXTENDS FetchCycle, SequenceTheorems, TLAPS

(* The warnings a mark may stand for.                                      *)
Settled == told \cup quiet

Truthful(s, d, T) == d # Null => <<s, d>> \in T

Good(run, T) ==
    /\ run \in Run
    /\ run.kind = "tick" <=> run.pc = "enqueue"
    /\ run.kind = "tick" <=> run.sub = Tick
    /\ run.pc = "send" => run.end # Null
    /\ Truthful(run.sub, run.marker, T)
    /\ Truthful(run.sub, run.next, T)

RunsOK ==
    /\ DOMAIN runs \subseteq Slots
    /\ runs = [o \in DOMAIN runs |-> runs[o]]
    /\ \A o \in DOMAIN runs : Good(runs[o], Settled)

SubsOK ==
    /\ DOMAIN subs \subseteq Subs
    /\ subs \in [DOMAIN subs -> [auto: BOOLEAN, due: BOOLEAN, marker: Mark]]
    /\ \A s \in DOMAIN subs : Truthful(s, subs[s].marker, Settled)

QueueOK ==
    /\ waiting \in Seq(Jobs \cup {Tick})
    /\ delayed \in [Jobs -> Nat]
    /\ failed \subseteq Subs

RestOK ==
    /\ feed \in [Subs -> Mark] /\ now \in Nat /\ chat \in BOOLEAN /\ budget \in Nat

HistoryOK ==
    /\ told \subseteq Subs \X Ends /\ again \subseteq told /\ quiet \subseteq Subs \X Ends
    /\ serial \in BOOLEAN /\ cut \in BOOLEAN /\ back \in BOOLEAN

IInv == SubsOK /\ RestOK /\ QueueOK /\ RunsOK /\ HistoryOK

LEMMA Implied == IInv => TypeOK /\ MarkTruthful
  <1> SUFFICES ASSUME IInv PROVE TypeOK /\ MarkTruthful
    OBVIOUS
  <1>1. runs \in [DOMAIN runs -> Run]
    BY DEF IInv, RunsOK, Good
  <1>2. \A o \in DOMAIN runs : /\ runs[o].kind = "tick" <=> runs[o].pc = "enqueue"
                               /\ runs[o].kind = "tick" <=> runs[o].sub = Tick
    BY DEF IInv, RunsOK, Good
  <1>3. MarkTruthful
    BY DEF IInv, SubsOK, MarkTruthful, Truthful, Settled
  <1> QED
    BY <1>1, <1>2, <1>3 DEF IInv, SubsOK, RestOK, QueueOK, RunsOK, HistoryOK, TypeOK

-----------------------------------------------------------------------------
(* Runs under an action that lets warnings be added.                       *)
LEMMA GoodKept ==
    ASSUME NEW run, NEW T, NEW U, T \subseteq U, Good(run, T)
    PROVE  Good(run, U)
  BY DEF Good, Truthful

LEMMA GotoOK ==
    ASSUME RunsOK, NEW o \in DOMAIN runs, NEW run, Goto(o, run),
           Settled \subseteq Settled', Good(run, Settled')
    PROVE  RunsOK'
  BY ZenonT(40), GoodKept DEF RunsOK, Goto

LEMMA EndOK ==
    ASSUME RunsOK, NEW o \in DOMAIN runs, End(o), Settled \subseteq Settled'
    PROVE  RunsOK'
  BY GoodKept DEF RunsOK, End, Restrict

LEMMA StartOK ==
    ASSUME RunsOK, NEW o \in Slots \ DOMAIN runs, NEW run, Start(o, run),
           Settled \subseteq Settled', Good(run, Settled')
    PROVE  RunsOK'
  BY GoodKept DEF RunsOK, Start

LEMMA SameOK ==
    ASSUME RunsOK, UNCHANGED runs, Settled \subseteq Settled'
    PROVE  RunsOK'
  BY GoodKept DEF RunsOK

LEMMA SubsKept ==
    ASSUME SubsOK, UNCHANGED subs, Settled \subseteq Settled'
    PROVE  SubsOK'
  BY DEF SubsOK, Truthful

LEMMA SpendOK ==
    ASSUME budget \in Nat, Spend
    PROVE  budget' \in Nat
  BY DEF Spend

LEMMA RetriedOK ==
    ASSUME QueueOK, NEW s \in Subs, NEW k \in 0 .. Attempts - 1, Retried(s, k)
    PROVE  delayed' \in [Jobs -> Nat] /\ failed' \subseteq Subs
  <1> DEFINE j == <<s, k + 1>>
  <1>1. k + 1 < Attempts => j \in Jobs
    BY FetchAssumption DEF Jobs
  <1>2. \/ j \in Jobs /\ delayed' = [delayed EXCEPT ![j] = @ + 1] /\ UNCHANGED failed
        \/ failed' = failed \cup {s} /\ UNCHANGED delayed
    BY <1>1 DEF Retried
  <1> HIDE DEF j
  <1>3. \A i \in Jobs : delayed[i] \in Nat /\ delayed[i] + 1 \in Nat
    BY DEF QueueOK
  <1>4. CASE j \in Jobs /\ delayed' = [delayed EXCEPT ![j] = @ + 1] /\ UNCHANGED failed
    BY <1>3, <1>4 DEF QueueOK
  <1>5. CASE failed' = failed \cup {s} /\ UNCHANGED delayed
    BY <1>5 DEF QueueOK
  <1> QED
    BY <1>2, <1>4, <1>5

LEMMA ThrowOK ==
    ASSUME IInv, NEW o \in DOMAIN runs, Throw(o), Settled \subseteq Settled'
    PROVE  delayed' \in [Jobs -> Nat] /\ failed' \subseteq Subs /\ RunsOK'
  <1>1. Good(runs[o], Settled)
    BY DEF IInv, RunsOK
  <1>2. runs[o].kind = "job" => runs[o].sub \in Subs /\ runs[o].made \in 0 .. Attempts - 1
    BY <1>1 DEF Good, Run
  <1>3. CASE runs[o].kind = "job"
    BY <1>2, <1>3, RetriedOK, EndOK DEF IInv, Throw
  <1>4. CASE runs[o].kind # "job"
    BY <1>4, EndOK DEF IInv, Throw, QueueOK
  <1> QED
    BY <1>3, <1>4

LEMMA AppendOK ==
    ASSUME NEW j \in Jobs \cup {Tick}, waiting \in Seq(Jobs \cup {Tick})
    PROVE  Append(waiting, j) \in Seq(Jobs \cup {Tick})
  OBVIOUS

-----------------------------------------------------------------------------
(* One lemma per action that does more than leave things alone.            *)
LEMMA TickComesOK == ASSUME IInv, TickComes PROVE IInv'
  <1>1. Settled' = Settled
    BY DEF TickComes, Settled, history
  <1>2. QueueOK'
    BY AppendOK DEF IInv, QueueOK, TickComes
  <1>3. RunsOK' /\ SubsOK'
    BY <1>1, SameOK, SubsKept DEF IInv, TickComes
  <1> QED
    BY <1>2, <1>3 DEF IInv, RestOK, HistoryOK, TickComes, history

LEMMA PromoteOK == ASSUME IInv, NEW j \in Jobs, Promote(j) PROVE IInv'
  <1>1. Settled' = Settled
    BY DEF Promote, Settled, history
  <1>2. QueueOK'
    BY AppendOK DEF IInv, QueueOK, Promote
  <1>3. RunsOK' /\ SubsOK'
    BY <1>1, SameOK, SubsKept DEF IInv, Promote
  <1> QED
    BY <1>2, <1>3 DEF IInv, RestOK, HistoryOK, Promote, history

LEMMA BeginFetchOK ==
    ASSUME IInv, NEW o \in Slots \ DOMAIN runs, NEW kind \in {"job", "request"},
           NEW s \in DOMAIN subs, NEW k \in 0 .. Attempts - 1, BeginFetch(o, kind, s, k),
           UNCHANGED subs
    PROVE  RunsOK' /\ SubsOK' /\ HistoryOK' /\ delayed' \in [Jobs -> Nat] /\ failed' \subseteq Subs
  <1> DEFINE run == [NewRun(kind, s, k) EXCEPT !.marker = subs[s].marker]
  <1>1. Settled' = Settled
    BY DEF BeginFetch, Settled
  <1>2. s \in Subs /\ s # Tick /\ subs[s].marker \in Mark /\ Truthful(s, subs[s].marker, Settled)
    BY FetchAssumption DEF IInv, SubsOK
  <1>3. NewRun(kind, s, k) \in Run
    BY <1>2, FetchAssumption DEF NewRun, Run, Mark
  <1>4. run \in Run
    BY <1>2, <1>3 DEF Run
  <1>5. Good(run, Settled')
    BY <1>1, <1>2, <1>4 DEF Good, Truthful, NewRun
  <1>6. RunsOK'
    BY <1>1, <1>5, StartOK DEF IInv, BeginFetch
  <1>7. SubsOK'
    BY <1>1, SubsKept DEF IInv
  <1>8. HistoryOK'
    BY DEF IInv, HistoryOK, BeginFetch
  <1> QED
    BY <1>6, <1>7, <1>8 DEF IInv, QueueOK, BeginFetch

LEMMA BeginTickOK ==
    ASSUME IInv, NEW o \in Slots \ DOMAIN runs, BeginTick(o), UNCHANGED subs
    PROVE  RunsOK' /\ SubsOK' /\ HistoryOK' /\ delayed' \in [Jobs -> Nat] /\ failed' \subseteq Subs
  <1> DEFINE todo == {s \in DOMAIN subs : subs[s].auto /\ subs[s].due}
             run == [NewRun("tick", Tick, 0) EXCEPT !.pc = "enqueue", !.todo = todo]
  <1>1. Settled' = Settled
    BY DEF BeginTick, Settled, history
  <1>2. todo \subseteq Subs
    BY DEF IInv, SubsOK
  <1> HIDE DEF todo
  <1>3. NewRun("tick", Tick, 0) \in Run
    BY FetchAssumption DEF NewRun, Run, Mark
  <1>4. run \in Run
    BY <1>2, <1>3 DEF Run
  <1>5. Good(run, Settled')
    BY <1>4 DEF Good, Truthful, NewRun
  <1>6. RunsOK'
    BY <1>1, <1>5, StartOK DEF IInv, BeginTick, todo
  <1>7. SubsOK'
    BY <1>1, SubsKept DEF IInv
  <1>8. HistoryOK'
    BY DEF IInv, HistoryOK, BeginTick, history
  <1> QED
    BY <1>6, <1>7, <1>8 DEF IInv, QueueOK, BeginTick

LEMMA TakeOK == ASSUME IInv, NEW o \in Workers, Take(o) PROVE IInv'
  <1> DEFINE j == Head(waiting)
  <1>1. j \in Jobs \cup {Tick} /\ waiting' \in Seq(Jobs \cup {Tick})
    BY DEF IInv, QueueOK, Take
  <1>2. o \in Slots \ DOMAIN runs /\ UNCHANGED <<subs, feed, now, chat, budget>>
    BY DEF Take, Slots
  <1>3. j # Tick => j[1] \in Subs /\ j[2] \in 0 .. Attempts - 1
    BY <1>1 DEF Jobs
  <1>4. RunsOK' /\ SubsOK' /\ HistoryOK' /\ delayed' \in [Jobs -> Nat] /\ failed' \subseteq Subs
    <2>1. CASE j = Tick
      BY <1>2, <2>1, BeginTickOK DEF Take
    <2>2. CASE j # Tick /\ j[1] \in DOMAIN subs
      <3>1. BeginFetch(o, "job", j[1], j[2])
        BY <2>2 DEF Take
      <3> HIDE DEF j
      <3> QED
        BY <1>2, <1>3, <2>2, <3>1, BeginFetchOK
    <2>3. CASE j # Tick /\ j[1] \notin DOMAIN subs
      <3>1. Retried(j[1], j[2]) /\ UNCHANGED <<runs, history>>
        BY <2>3 DEF Take
      <3> HIDE DEF j
      <3>2. Settled' = Settled
        BY <3>1 DEF Settled, history
      <3>3. delayed' \in [Jobs -> Nat] /\ failed' \subseteq Subs
        BY <1>3, <2>3, <3>1, RetriedOK DEF IInv
      <3> QED
        BY <1>2, <3>1, <3>2, <3>3, SameOK, SubsKept DEF IInv, HistoryOK, history
    <2> QED
      BY <2>1, <2>2, <2>3
  <1> QED
    BY <1>1, <1>2, <1>4 DEF IInv, RestOK, QueueOK

LEMMA RequestOK == ASSUME IInv, NEW o \in Requests, NEW s \in Subs, Request(o, s) PROVE IInv'
  <1>1. o \in Slots \ DOMAIN runs /\ s \in DOMAIN subs /\ BeginFetch(o, "request", s, 0)
    BY DEF Request, Slots
  <1>2. 0 \in 0 .. Attempts - 1
    BY FetchAssumption
  <1>3. RunsOK' /\ SubsOK' /\ HistoryOK' /\ delayed' \in [Jobs -> Nat] /\ failed' \subseteq Subs
    BY <1>1, <1>2, BeginFetchOK DEF Request
  <1>4. RestOK'
    BY SpendOK DEF IInv, RestOK, Request
  <1> QED
    BY <1>3, <1>4 DEF IInv, QueueOK, Request

(* What a step of the queue leaves of the rest.                            *)
LEMMA EnqueueOK ==
    ASSUME IInv, NEW o \in DOMAIN runs, NEW s, Enqueue(o, s) \/ EnqueueFails(o, s)
    PROVE  IInv'
  <1> DEFINE run == [runs[o] EXCEPT !.todo = @ \ {s}]
  <1>1. Settled' = Settled
    BY DEF Enqueue, EnqueueFails, Settled, history
  <1>2. Good(runs[o], Settled) /\ s \in runs[o].todo
    BY DEF IInv, RunsOK, Enqueue, EnqueueFails
  <1>3. Good(run, Settled')
    BY <1>1, <1>2 DEF Good, Run
  <1>4. Goto(o, run)
    BY DEF Enqueue, EnqueueFails
  <1>5. RunsOK' /\ SubsOK'
    BY <1>1, <1>3, <1>4, GotoOK, SubsKept DEF IInv, Enqueue, EnqueueFails
  <1>6. <<s, 0>> \in Jobs
    BY <1>2, FetchAssumption DEF Good, Run, Jobs
  <1>7. QueueOK'
    BY <1>6, AppendOK DEF IInv, QueueOK, Enqueue, EnqueueFails, queue
  <1>8. RestOK' /\ HistoryOK'
    BY SpendOK DEF IInv, RestOK, HistoryOK, Enqueue, EnqueueFails, history
  <1> QED
    BY <1>5, <1>7, <1>8 DEF IInv

LEMMA TickDoneOK ==
    ASSUME IInv, NEW o \in DOMAIN runs, TickDone(o) \/ Report(o)
    PROVE  IInv'
  <1>1. Settled' = Settled
    BY DEF TickDone, Report, Settled, history
  <1>2. RunsOK' /\ SubsOK'
    BY <1>1, EndOK, SubsKept DEF IInv, TickDone, Report
  <1> QED
    BY <1>2 DEF IInv, RestOK, QueueOK, HistoryOK, TickDone, Report, queue, history

-----------------------------------------------------------------------------
(* The steps of a fetch.                                                   *)
LEMMA SubOf ==
    ASSUME IInv, NEW o \in DOMAIN runs, runs[o].pc # "enqueue"
    PROVE  Good(runs[o], Settled) /\ runs[o].sub \in Subs /\ runs[o].kind # "tick"
  BY DEF IInv, RunsOK, Good, Run

LEMMA ReceiveOK == ASSUME IInv, NEW o \in DOMAIN runs, Receive(o) PROVE IInv'
  <1> DEFINE run == [runs[o] EXCEPT !.pc = "check", !.end = feed[runs[o].sub]]
  <1>1. Settled' = Settled
    BY DEF Receive, Settled, history
  <1>2. Good(runs[o], Settled) /\ runs[o].sub \in Subs /\ runs[o].kind # "tick"
    BY SubOf DEF Receive
  <1>3. feed[runs[o].sub] \in Mark
    BY <1>2 DEF IInv, RestOK
  <1>4. Good(run, Settled')
    BY <1>1, <1>2, <1>3 DEF Good, Run
  <1>5. RunsOK' /\ SubsOK'
    BY <1>1, <1>4, GotoOK, SubsKept DEF IInv, Receive
  <1> QED
    BY <1>5 DEF IInv, RestOK, QueueOK, HistoryOK, Receive, queue, history

(* The mark to be written is truthful if the warning is settled.           *)
LEMMA ToWriteOK ==
    ASSUME IInv, NEW o \in DOMAIN runs, runs[o].pc # "enqueue", NEW next \in Mark,
           ToWrite(o, next), Settled \subseteq Settled', Truthful(runs[o].sub, next, Settled')
    PROVE  RunsOK'
  <1> DEFINE run == [runs[o] EXCEPT !.pc = "write", !.next = next,
                        !.marker = Null, !.end = Null, !.try = 1]
  <1>1. Good(runs[o], Settled) /\ runs[o].kind # "tick"
    BY SubOf
  <1>2. 1 \in 1 .. SendAttempts /\ Null \in Mark
    BY FetchAssumption DEF Mark
  <1>3. run \in Run
    BY <1>1, <1>2 DEF Good, Run
  <1>4. Good(run, Settled')
    BY <1>1, <1>3 DEF Good, Truthful, Run
  <1> QED
    BY <1>4, GotoOK DEF IInv, ToWrite

LEMMA CheckOK == ASSUME IInv, NEW o \in DOMAIN runs, Check(o) PROVE IInv'
  <1> DEFINE s == runs[o].sub
             d == runs[o].end
             new == Soon(d) /\ runs[o].marker # d
  <1>1. Good(runs[o], Settled) /\ s \in Subs /\ runs[o].kind # "tick" /\ runs[o].pc # "enqueue"
    BY SubOf DEF Check
  <1>2. d \in Mark /\ (Soon(d) => d \in Ends /\ d # Null)
    BY <1>1 DEF Good, Run, Mark, Soon
  <1>3. Settled \subseteq Settled' /\ quiet' \subseteq Subs \X Ends
    BY <1>1, <1>2 DEF Check, IInv, HistoryOK, Settled
  <1>4. RunsOK'
    <2>1. CASE new /\ chat
      <3> DEFINE run == [runs[o] EXCEPT !.pc = "send"]
      <3>1. Goto(o, run)
        BY <2>1 DEF Check
      <3>2. Good(run, Settled)
        BY <1>1, <1>2, <2>1 DEF Good, Run
      <3> QED
        BY <1>3, <3>1, <3>2, GoodKept, GotoOK DEF IInv
    <2>2. CASE ~ (new /\ chat)
      <3> DEFINE next == IF Soon(d) THEN d ELSE Null
      <3>1. ToWrite(o, next)
        BY <2>2 DEF Check
      <3>2. next \in Mark
        BY <1>2 DEF Mark
      <3>3. Truthful(s, next, Settled')
        <4>1. CASE ~ Soon(d)
          BY <4>1 DEF Truthful
        <4>2. CASE Soon(d) /\ runs[o].marker = d
          BY <1>1, <1>3, <4>2 DEF Good, Truthful
        <4>3. CASE Soon(d) /\ runs[o].marker # d
          BY <2>2, <4>3 DEF Check, Truthful, Settled
        <4> QED
          BY <4>1, <4>2, <4>3
      <3> QED
        BY <1>1, <1>3, <3>1, <3>2, <3>3, ToWriteOK
    <2> QED
      BY <2>1, <2>2
  <1>5. SubsOK'
    BY <1>3, SubsKept DEF IInv, Check
  <1> QED
    BY <1>3, <1>4, <1>5 DEF IInv, RestOK, QueueOK, HistoryOK, Check, queue

LEMMA ArrivesOK ==
    ASSUME IInv, NEW o \in DOMAIN runs, runs[o].pc = "send",
           Arrives(runs[o].sub, runs[o].end), UNCHANGED quiet
    PROVE  /\ Settled \subseteq Settled'
           /\ <<runs[o].sub, runs[o].end>> \in Settled'
           /\ told' \subseteq Subs \X Ends /\ again' \subseteq told'
  <1>1. Good(runs[o], Settled) /\ runs[o].sub \in Subs
    BY SubOf
  <1>2. runs[o].end \in Ends
    BY <1>1 DEF Good, Run, Mark
  <1> QED
    BY <1>1, <1>2 DEF Arrives, Settled, IInv, HistoryOK

LEMMA SendOK == ASSUME IInv, NEW o \in DOMAIN runs, Send(o) PROVE IInv'
  <1>1. runs[o].pc = "send" /\ runs[o].pc # "enqueue"
    BY DEF Send
  <1>2. /\ Settled \subseteq Settled'
        /\ <<runs[o].sub, runs[o].end>> \in Settled'
        /\ told' \subseteq Subs \X Ends /\ again' \subseteq told'
    BY ArrivesOK DEF Send
  <1>3. runs[o].end \in Mark
    BY <1>1, SubOf DEF Good, Run
  <1>4. RunsOK'
    BY <1>1, <1>2, <1>3, ToWriteOK DEF Send, Truthful
  <1>5. SubsOK'
    BY <1>2, SubsKept DEF IInv, Send
  <1> QED
    BY <1>2, <1>4, <1>5 DEF IInv, RestOK, QueueOK, HistoryOK, Send, queue

(* Another attempt, or none: then the mark stays as read.                  *)
LEMMA SendAgainOK ==
    ASSUME IInv, NEW o \in DOMAIN runs, runs[o].pc = "send", Settled \subseteq Settled',
           \/ runs[o].try < SendAttempts /\ Goto(o, [runs[o] EXCEPT !.try = @ + 1])
           \/ ToWrite(o, runs[o].marker)
    PROVE  RunsOK'
  <1>1. Good(runs[o], Settled) /\ runs[o].pc # "enqueue"
    BY SubOf
  <1>2. CASE runs[o].try < SendAttempts /\ Goto(o, [runs[o] EXCEPT !.try = @ + 1])
    <2> DEFINE run == [runs[o] EXCEPT !.try = @ + 1]
    <2>1. runs[o].try + 1 \in 1 .. SendAttempts
      BY <1>1, <1>2, FetchAssumption DEF Good, Run
    <2>2. Good(run, Settled)
      BY <1>1, <2>1 DEF Good, Run
    <2> QED
      BY <1>2, <2>2, GoodKept, GotoOK DEF IInv
  <1>3. CASE ToWrite(o, runs[o].marker)
    <2>1. runs[o].marker \in Mark /\ Truthful(runs[o].sub, runs[o].marker, Settled')
      BY <1>1 DEF Good, Run, Truthful
    <2> QED
      BY <1>1, <1>3, <2>1, ToWriteOK
  <1> QED
    BY <1>2, <1>3

LEMMA SendFailsOK ==
    ASSUME IInv, NEW o \in DOMAIN runs, NEW retryable \in BOOLEAN, SendFails(o, retryable)
    PROVE  IInv'
  <1>1. Settled' = Settled
    BY DEF SendFails, Settled, history
  <1>2. RunsOK'
    BY <1>1, SendAgainOK DEF SendFails
  <1>3. SubsOK'
    BY <1>1, SubsKept DEF IInv, SendFails
  <1>4. RestOK'
    BY SpendOK DEF IInv, RestOK, SendFails
  <1> QED
    BY <1>2, <1>3, <1>4 DEF IInv, QueueOK, HistoryOK, SendFails, queue, history

LEMMA AnswerLostOK == ASSUME IInv, NEW o \in DOMAIN runs, AnswerLost(o) PROVE IInv'
  <1>1. /\ Settled \subseteq Settled'
        /\ told' \subseteq Subs \X Ends /\ again' \subseteq told'
    BY ArrivesOK DEF AnswerLost
  <1>2. RunsOK'
    BY <1>1, SendAgainOK DEF AnswerLost
  <1>3. SubsOK'
    BY <1>1, SubsKept DEF IInv, AnswerLost
  <1>4. RestOK'
    BY SpendOK DEF IInv, RestOK, AnswerLost
  <1> QED
    BY <1>1, <1>2, <1>3, <1>4 DEF IInv, QueueOK, HistoryOK, AnswerLost, queue

LEMMA WriteOK == ASSUME IInv, NEW o \in DOMAIN runs, Write(o) PROVE IInv'
  <1> DEFINE s == runs[o].sub
             run == [runs[o] EXCEPT !.pc = "report", !.next = Null]
  <1>1. Settled' = Settled
    BY DEF Write, Settled, history
  <1>2. Good(runs[o], Settled) /\ runs[o].kind # "tick"
    BY SubOf DEF Write
  <1>3. waiting' = waiting /\ RestOK' /\ HistoryOK'
    BY DEF IInv, RestOK, HistoryOK, Write, history
  <1>4. CASE s \in DOMAIN subs
    <2>1. subs' = [subs EXCEPT ![s].due = FALSE, ![s].marker = runs[o].next] /\ Goto(o, run)
      BY <1>4 DEF Write
    <2>2. runs[o].next \in Mark /\ Truthful(s, runs[o].next, Settled)
      BY <1>2 DEF Good, Run
    <2>3. SubsOK'
      BY <1>1, <1>4, <2>1, <2>2 DEF IInv, SubsOK
    <2>4. run \in Run
      BY <1>2 DEF Good, Run, Mark
    <2>5. Good(run, Settled')
      BY <1>1, <1>2, <2>4 DEF Good, Truthful, Run
    <2>6. RunsOK'
      BY <1>1, <2>1, <2>5, GotoOK DEF IInv
    <2> QED
      BY <1>3, <1>4, <2>3, <2>6 DEF IInv, QueueOK, Write
  <1>5. CASE s \notin DOMAIN subs
    <2>1. Throw(o) /\ UNCHANGED subs
      BY <1>5 DEF Write
    <2>2. SubsOK'
      BY <1>1, <2>1, SubsKept DEF IInv
    <2> QED
      BY <1>1, <1>3, <2>1, <2>2, ThrowOK DEF IInv, QueueOK
  <1> QED
    BY <1>4, <1>5

LEMMA FailOK == ASSUME IInv, NEW o \in DOMAIN runs, Fail(o) PROVE IInv'
  <1>1. Settled' = Settled
    BY DEF Fail, Settled
  <1>2. delayed' \in [Jobs -> Nat] /\ failed' \subseteq Subs /\ RunsOK'
    BY <1>1, ThrowOK DEF Fail
  <1>3. SubsOK'
    BY <1>1, SubsKept DEF IInv, Fail
  <1>4. RestOK'
    BY SpendOK DEF IInv, RestOK, Fail
  <1> QED
    BY <1>2, <1>3, <1>4 DEF IInv, QueueOK, HistoryOK, Fail

LEMMA StopOK == ASSUME IInv, NEW o \in DOMAIN runs, Stop(o) PROVE IInv'
  <1>1. Settled' = Settled
    BY DEF Stop, Settled
  <1>2. Good(runs[o], Settled)
    BY DEF IInv, RunsOK
  <1>3. runs[o].kind = "job" => <<runs[o].sub, runs[o].made>> \in Jobs /\ runs[o].sub \in Subs
    BY <1>2 DEF Good, Run, Jobs
  <1>4. QueueOK'
    BY <1>3, AppendOK DEF IInv, QueueOK, Stop
  <1>5. RunsOK' /\ SubsOK'
    BY <1>1, EndOK, SubsKept DEF IInv, Stop
  <1>6. RestOK'
    BY SpendOK DEF IInv, RestOK, Stop
  <1> QED
    BY <1>4, <1>5, <1>6 DEF IInv, HistoryOK, Stop

-----------------------------------------------------------------------------
(* The environment.                                                        *)
LEMMA PassOK == ASSUME IInv, Pass \/ SetChat PROVE IInv'
  <1>1. Settled' = Settled
    BY DEF Pass, SetChat, Settled, history
  <1>2. RunsOK' /\ SubsOK'
    BY <1>1, SameOK, SubsKept DEF IInv, Pass, SetChat
  <1>3. chat' \in BOOLEAN
    BY DEF IInv, RestOK, Pass, SetChat
  <1>4. RestOK'
    BY <1>3, SpendOK DEF IInv, RestOK, Pass, SetChat
  <1> QED
    BY <1>2, <1>4 DEF IInv, QueueOK, HistoryOK, Pass, SetChat, queue, history

LEMMA FeedChangesOK ==
    ASSUME IInv, NEW s \in Subs, NEW d \in Ends \cup {Null}, FeedChanges(s, d)
    PROVE  IInv'
  <1>1. Settled' = Settled
    BY DEF FeedChanges, Settled
  <1>2. RunsOK' /\ SubsOK'
    BY <1>1, SameOK, SubsKept DEF IInv, FeedChanges
  <1>3. RestOK'
    BY SpendOK DEF IInv, RestOK, FeedChanges, Mark
  <1> QED
    BY <1>2, <1>3 DEF IInv, QueueOK, HistoryOK, FeedChanges, queue

LEMMA EditOK ==
    ASSUME IInv, NEW s \in Subs, NEW auto \in BOOLEAN, NEW due \in BOOLEAN,
           Update(s, auto, due) \/ DueAgain(s) \/ Remove(s)
    PROVE  IInv'
  <1>1. Settled' = Settled
    BY DEF Update, DueAgain, Remove, Settled, history
  <1>2. SubsOK'
    <2>1. CASE Update(s, auto, due)
      BY <1>1, <2>1 DEF IInv, SubsOK, Update
    <2>2. CASE DueAgain(s)
      BY <1>1, <2>2 DEF IInv, SubsOK, DueAgain
    <2>3. CASE Remove(s)
      BY <1>1, <2>3 DEF IInv, SubsOK, Remove, Restrict
    <2> QED
      BY <2>1, <2>2, <2>3
  <1>3. RunsOK'
    BY <1>1, SameOK DEF IInv, Update, DueAgain, Remove
  <1>4. RestOK'
    BY SpendOK DEF IInv, RestOK, Update, DueAgain, Remove
  <1> QED
    BY <1>2, <1>3, <1>4 DEF IInv, QueueOK, HistoryOK, Update, DueAgain, Remove, queue, history

-----------------------------------------------------------------------------
LEMMA InitOK == Init => IInv
  <1> SUFFICES ASSUME Init PROVE IInv
    OBVIOUS
  <1>1. SubsOK
    BY FetchAssumption DEF Init, SubsOK, Mark, Truthful
  <1>2. RestOK
    BY FetchAssumption DEF Init, RestOK, Mark
  <1>3. QueueOK
    BY DEF Init, QueueOK
  <1>4. RunsOK
    BY DEF Init, RunsOK, None
  <1>5. HistoryOK
    BY DEF Init, HistoryOK
  <1> QED
    BY <1>1, <1>2, <1>3, <1>4, <1>5 DEF IInv

LEMMA NextOK == IInv /\ [Next]_vars => IInv'
  <1> SUFFICES ASSUME IInv, [Next]_vars PROVE IInv'
    OBVIOUS
  <1>1. CASE TickComes
    BY <1>1, TickComesOK
  <1>2. ASSUME NEW j \in Jobs, Promote(j) PROVE IInv'
    BY <1>2, PromoteOK
  <1>3. ASSUME NEW o \in Workers, Take(o) PROVE IInv'
    BY <1>3, TakeOK
  <1>4. ASSUME NEW o \in Requests, NEW s \in Subs, Request(o, s) PROVE IInv'
    BY <1>4, RequestOK
  <1>5. ASSUME NEW o \in Slots, Step(o) PROVE IInv'
    BY <1>5, EnqueueOK, TickDoneOK, ReceiveOK, CheckOK, SendOK, WriteOK DEF Step
  <1>6. ASSUME NEW o \in Slots, Fault(o) PROVE IInv'
    BY <1>6, EnqueueOK, SendFailsOK, AnswerLostOK, FailOK, StopOK DEF Fault
  <1>7. CASE Pass \/ SetChat
    BY <1>7, PassOK
  <1>8. ASSUME NEW s \in Subs, DueAgain(s) \/ Remove(s) PROVE IInv'
    BY <1>8, EditOK
  <1>9. ASSUME NEW s \in Subs, NEW d \in Ends \cup {Null}, FeedChanges(s, d) PROVE IInv'
    BY <1>9, FeedChangesOK
  <1>10. ASSUME NEW s \in Subs, NEW auto \in BOOLEAN, NEW due \in BOOLEAN, Update(s, auto, due)
         PROVE  IInv'
    BY <1>10, EditOK
  <1>11. CASE UNCHANGED vars
    <2>1. Settled' = Settled
      BY <1>11 DEF vars, history, Settled
    <2> QED
      BY <1>11, <2>1, SameOK, SubsKept
         DEF IInv, RestOK, QueueOK, HistoryOK, vars, queue, history
  <1> QED
    BY <1>1, <1>2, <1>3, <1>4, <1>5, <1>6, <1>7, <1>8, <1>9, <1>10, <1>11 DEF Next

LEMMA Inductive == Spec => []IInv
  BY InitOK, NextOK, PTL DEF Spec

(* Tables, queue, runs and history keep their types, for any number of     *)
(* subscriptions, worker slots, requests, attempts and faults.             *)
THEOREM TypeCorrect == Spec => []TypeOK
  BY Inductive, Implied, PTL

(* The mark of a subscription never claims a warning that neither arrived  *)
(* nor was skipped for want of a chat (fetchConnects, subscription.update).*)
THEOREM MarkTruthfulCorrect == Spec => []MarkTruthful
  BY Inductive, Implied, PTL
-----------------------------------------------------------------------------
(* One warning per end.  A warning that has arrived is out of the question *)
(* once its end has passed or the feed has reported a later one; until     *)
(* then it is kept by the mark, as stored or as read.                      *)
Turns == serial /\ ~ cut /\ ~ back

Past(s, d, n, f) == d <= n \/ d < f[s]

Fit(run, T, n, f) ==
    /\ run.pc \in {"check", "send"} => run.end <= f[run.sub]
    /\ run.pc = "send" => run.end < n + Warn
    /\ \A d \in Ends : <<run.sub, d>> \in T =>
          /\ run.pc = "fetch" => Past(run.sub, d, n, f) \/ run.marker = d
          /\ run.pc = "check" => /\ d <= run.end
                                 /\ d <= n \/ d < run.end \/ run.marker = d
          /\ run.pc = "send" => d < run.end
          /\ run.pc = "write" => Past(run.sub, d, n, f) \/ run.next = d

Reported(T, n, f) ==
    \A s \in Subs, d \in Ends : <<s, d>> \in T => d <= f[s] /\ d < n + Warn

Single == \A o, q \in Fetching : o = q

Fits == \A o \in Fetching : Fit(runs[o], told, now, feed)

Writing(s) == \E o \in Fetching : runs[o].sub = s /\ runs[o].pc = "write"

Marked ==
    \A s \in DOMAIN subs, d \in Ends : <<s, d>> \in told =>
        Past(s, d, now, feed) \/ subs[s].marker = d \/ Writing(s)

Once == Single /\ Reported(told, now, feed) /\ Fits /\ Marked /\ again = {}

WInv == Turns => Once

LEMMA Numbers == Ends \subseteq Nat /\ Mark \subseteq Nat /\ Warn \in Nat /\ Null = 0
  BY FetchAssumption DEF Mark, Null

(* Time passes and the feed moves on.                                      *)
LEMMA FitKept ==
    ASSUME IInv, NEW run \in Run, run.sub \in Subs, Fit(run, told, now, feed),
           now' \in Nat, now <= now', feed' \in [Subs -> Mark],
           \A s \in Subs : feed[s] <= feed'[s]
    PROVE  Fit(run, told, now', feed')
  <1>1. feed[run.sub] \in Nat /\ feed'[run.sub] \in Nat /\ feed[run.sub] <= feed'[run.sub]
    BY Numbers DEF IInv, RestOK
  <1>2. run.end \in Nat /\ now \in Nat
    BY Numbers DEF Run, IInv, RestOK
  <1>3. \A d \in Ends : Past(run.sub, d, now, feed) => Past(run.sub, d, now', feed')
    BY <1>1, <1>2, Numbers DEF Past
  <1>4. run.end <= feed[run.sub] => run.end <= feed'[run.sub]
    BY <1>1, <1>2
  <1>5. run.end < now + Warn => run.end < now' + Warn
    BY <1>2, Numbers
  <1>6. \A d \in Ends : d <= now => d <= now'
    BY <1>2, Numbers
  <1> QED
    BY <1>3, <1>4, <1>5, <1>6 DEF Fit

(* A day within the window of an earlier one is within that of a later.   *)
LEMMA Sooner ==
    ASSUME NEW d \in Int, NEW m \in Int, NEW n \in Int, NEW w \in Int, m <= n, d < m + w
    PROVE  d < n + w
  OBVIOUS

(* Neither the passing of time nor a feed that only prolongs brings back an *)
(* end that was warned of.                                                 *)
LEMMA ReportedKept ==
    ASSUME IInv, Reported(told, now, feed),
           now' \in Nat, now <= now', feed' \in [Subs -> Mark],
           \A s \in Subs : feed[s] <= feed'[s]
    PROVE  Reported(told, now', feed')
  <1>1. \A s \in Subs : feed[s] \in Nat /\ feed'[s] \in Nat
    BY Numbers DEF IInv, RestOK
  <1>2. now \in Nat
    BY DEF IInv, RestOK
  <1>3. ASSUME NEW s \in Subs, NEW d \in Ends, <<s, d>> \in told
        PROVE  d <= feed'[s] /\ d < now' + Warn
    <2>1. d <= feed[s] /\ d < now + Warn
      BY <1>3 DEF Reported
    <2>2. d \in Nat /\ feed[s] \in Nat /\ feed'[s] \in Nat /\ feed[s] <= feed'[s]
      BY <1>1, Numbers
    <2>3. d <= feed'[s]
      BY <2>1, <2>2
    <2>4. Warn \in Int /\ d \in Int /\ now \in Int /\ now' \in Int
      BY <1>2, <2>2, Numbers
    <2>5. d < now' + Warn
      BY <2>1, <2>4, Sooner
    <2> QED
      BY <2>3, <2>5
  <1> QED
    BY <1>3 DEF Reported

(* A step that is none of a fetch's own: it may end, but if it was about   *)
(* to write the mark of a subscription then that one is gone.              *)
LEMMA Aside ==
    ASSUME IInv, Once, told' = told, again' = again,
           now' \in Nat, now <= now', feed' \in [Subs -> Mark],
           \A s \in Subs : feed[s] <= feed'[s],
           DOMAIN subs' \subseteq DOMAIN subs,
           \A s \in DOMAIN subs' : subs'[s].marker = subs[s].marker,
           Fetching' \subseteq Fetching, \A o \in Fetching' : runs'[o] = runs[o],
           \A o \in Fetching \ Fetching' : runs[o].pc = "write" => runs[o].sub \notin DOMAIN subs'
    PROVE  Once'
  <1>1. \A o \in Fetching : runs[o] \in Run /\ runs[o].sub \in Subs
    BY DEF IInv, RunsOK, Good, Run, Fetching
  <1>2. Fits'
    BY <1>1, FitKept DEF Once, Fits
  <1>3. Reported(told', now', feed')
    BY ReportedKept DEF Once
  <1>4. ASSUME NEW s \in DOMAIN subs', NEW d \in Ends, <<s, d>> \in told
        PROVE  Past(s, d, now', feed') \/ subs'[s].marker = d \/ Writing(s)'
    <2>1. s \in Subs /\ s \in DOMAIN subs
      BY DEF IInv, SubsOK
    <2>2. Past(s, d, now, feed) \/ subs[s].marker = d \/ Writing(s)
      BY <1>4, <2>1 DEF Once, Marked
    <2>3. feed[s] \in Nat /\ feed'[s] \in Nat /\ now \in Nat
      BY <2>1, Numbers DEF IInv, RestOK
    <2>4. Past(s, d, now, feed) => Past(s, d, now', feed')
      BY <2>1, <2>3, Numbers DEF Past
    <2>5. Writing(s) => Writing(s)'
      BY DEF Writing
    <2> QED
      BY <2>2, <2>4, <2>5
  <1>5. Single' /\ again' = {}
    BY DEF Once, Single
  <1>6. Marked'
    BY <1>4 DEF Marked
  <1> QED
    BY <1>2, <1>3, <1>5, <1>6 DEF Once

(* The only fetch makes a step, and no subscription is written.            *)
LEMMA Stepped ==
    ASSUME IInv, Once, NEW o \in Fetching, NEW run, Goto(o, run), run.kind # "tick",
           run.sub = runs[o].sub,
           UNCHANGED <<now, feed, subs>>, again' = {},
           Fit(run, told', now, feed), Reported(told', now, feed),
           told' = told \/ (told' = told \cup {<<run.sub, run.next>>} /\ run.pc = "write"),
           runs[o].pc # "write"
    PROVE  Once'
  <1>1. Fetching' = {o} /\ Fetching = {o} /\ runs'[o] = run
    BY DEF Once, Single, Fetching, Goto
  <1>2. Single' /\ Fits'
    BY <1>1 DEF Single, Fits
  <1>3. ASSUME NEW s \in DOMAIN subs, NEW d \in Ends, <<s, d>> \in told'
        PROVE  Past(s, d, now, feed) \/ subs[s].marker = d \/ Writing(s)'
    <2>1. CASE <<s, d>> \in told
      BY <1>1, <2>1 DEF Once, Marked, Writing
    <2>2. CASE s = run.sub /\ run.pc = "write"
      BY <1>1, <2>2 DEF Writing
    <2> QED
      BY <1>3, <2>1, <2>2
  <1>4. Marked'
    BY <1>3 DEF Marked
  <1> QED
    BY <1>2, <1>4 DEF Once

LEMMA FetchType ==
    ASSUME IInv, NEW o \in Fetching
    PROVE  /\ o \in DOMAIN runs /\ runs[o] \in Run /\ runs[o].sub \in Subs
           /\ runs[o].kind # "tick" /\ runs[o].pc # "enqueue"
           /\ feed[runs[o].sub] \in Mark /\ now \in Nat
  BY DEF IInv, RunsOK, Good, Run, Fetching, RestOK

(* A fetch that is done with the warning holds the mark to be written.     *)
LEMMA ToWriteFits ==
    ASSUME IInv, Once, NEW o \in Fetching, NEW next, ToWrite(o, next),
           UNCHANGED <<now, feed, subs>>, again' = {}, runs[o].pc # "write",
           Reported(told', now, feed),
           told' = told \/ told' = told \cup {<<runs[o].sub, next>>},
           \A d \in Ends : <<runs[o].sub, d>> \in told
                => Past(runs[o].sub, d, now, feed) \/ next = d
    PROVE  Once'
  <1> DEFINE run == [runs[o] EXCEPT !.pc = "write", !.next = next,
                        !.marker = Null, !.end = Null, !.try = 1]
  <1>1. runs[o] \in Run /\ runs[o].kind # "tick"
    BY FetchType
  <1>2. /\ run.pc = "write" /\ run.next = next /\ run.kind # "tick"
        /\ run.sub = runs[o].sub /\ Goto(o, run)
    BY <1>1 DEF Run, ToWrite
  <1> HIDE DEF run
  <1>3. Fit(run, told', now, feed)
    BY <1>2 DEF Fit
  <1> QED
    BY <1>2, <1>3, Stepped

LEMMA ReceiveOnce == ASSUME IInv, Once, NEW o \in DOMAIN runs, Receive(o) PROVE Once'
  <1> DEFINE s == runs[o].sub
             run == [runs[o] EXCEPT !.pc = "check", !.end = feed[s]]
  <1>1. o \in Fetching /\ runs[o].pc = "fetch"
    BY SubOf DEF Receive, Fetching
  <1>2. runs[o] \in Run /\ s \in Subs /\ feed[s] \in Nat /\ now \in Nat /\ runs[o].kind # "tick"
    BY <1>1, FetchType, Numbers
  <1>3. /\ run.pc = "check" /\ run.end = feed[s] /\ run.marker = runs[o].marker
        /\ run.kind # "tick" /\ run.sub = s /\ Goto(o, run)
    BY <1>2 DEF Receive, Run
  <1>4. UNCHANGED <<now, feed, subs, told, again>>
    BY DEF Receive, history
  <1> HIDE DEF run
  <1>5. Fit(runs[o], told, now, feed) /\ Reported(told, now, feed) /\ again = {}
    BY <1>1 DEF Once, Fits
  <1>6. ASSUME NEW d \in Ends, <<s, d>> \in told
        PROVE  d <= feed[s] /\ (d <= now \/ d < feed[s] \/ runs[o].marker = d)
    BY <1>1, <1>2, <1>5, <1>6 DEF Fit, Reported, Past
  <1>7. Fit(run, told, now, feed)
    BY <1>2, <1>3, <1>6 DEF Fit
  <1> QED
    BY <1>1, <1>3, <1>4, <1>5, <1>7, Stepped

LEMMA CheckOnce == ASSUME IInv, Once, NEW o \in DOMAIN runs, Check(o) PROVE Once'
  <1> DEFINE s == runs[o].sub
             e == runs[o].end
             new == Soon(e) /\ runs[o].marker # e
  <1>1. o \in Fetching /\ runs[o].pc = "check"
    BY SubOf DEF Check, Fetching
  <1>2. /\ runs[o] \in Run /\ s \in Subs /\ feed[s] \in Nat /\ now \in Nat
        /\ runs[o].kind # "tick" /\ e \in Nat
    BY <1>1, FetchType, Numbers DEF Run
  <1>3. UNCHANGED <<now, feed, subs, told, again>>
    BY DEF Check
  <1>4. Fit(runs[o], told, now, feed) /\ Reported(told, now, feed) /\ again = {}
    BY <1>1 DEF Once, Fits
  <1>5. e <= feed[s]
    BY <1>1, <1>4 DEF Fit
  <1>6. ASSUME NEW d \in Ends, <<s, d>> \in told
        PROVE  /\ d \in Nat /\ d <= e /\ (d <= now \/ d < e \/ runs[o].marker = d)
               /\ d < now + Warn /\ d # Null
    BY <1>1, <1>2, <1>4, <1>6, Numbers, FetchAssumption DEF Fit, Reported
  <1>7. CASE new /\ chat
    <2> DEFINE run == [runs[o] EXCEPT !.pc = "send"]
    <2>1. /\ run.pc = "send" /\ run.end = e /\ run.kind # "tick" /\ run.sub = s /\ Goto(o, run)
      BY <1>2, <1>7 DEF Check, Run
    <2> HIDE DEF run
    <2>2. e < now + Warn /\ now < e
      BY <1>7 DEF Soon
    <2>3. ASSUME NEW d \in Ends, <<s, d>> \in told PROVE d < e
      BY <1>2, <1>6, <1>7, <2>2, <2>3
    <2>4. Fit(run, told, now, feed)
      BY <1>5, <2>1, <2>2, <2>3 DEF Fit
    <2> QED
      BY <1>1, <1>3, <1>4, <2>1, <2>4, Stepped
  <1>8. CASE ~ (new /\ chat)
    <2> DEFINE next == IF Soon(e) THEN e ELSE Null
    <2>1. ToWrite(o, next)
      BY <1>8 DEF Check
    <2>2. ASSUME NEW d \in Ends, <<s, d>> \in told
          PROVE  Past(s, d, now, feed) \/ next = d
      <3>1. CASE d < e
        BY <1>2, <1>5, <1>6, <2>2, <3>1 DEF Past
      <3>2. CASE d = e /\ Soon(e)
        BY <3>2
      <3>3. CASE d = e /\ ~ Soon(e)
        BY <1>2, <1>6, <2>2, <3>3 DEF Past, Soon
      <3> QED
        BY <1>2, <1>6, <2>2, <3>1, <3>2, <3>3
    <2> HIDE DEF next
    <2> QED
      BY <1>1, <1>3, <1>4, <2>1, <2>2, ToWriteFits
  <1> QED
    BY <1>7, <1>8

LEMMA SendOnce == ASSUME IInv, Once, NEW o \in DOMAIN runs, Send(o) PROVE Once'
  <1> DEFINE s == runs[o].sub
             e == runs[o].end
  <1>1. o \in Fetching /\ runs[o].pc = "send"
    BY SubOf DEF Send, Fetching
  <1>2. runs[o] \in Run /\ s \in Subs /\ feed[s] \in Nat /\ now \in Nat /\ e \in Nat
    BY <1>1, FetchType, Numbers DEF Run
  <1>3. e \in Ends
    BY <1>1, <1>2 DEF Run, Mark, IInv, RunsOK, Good
  <1>4. /\ UNCHANGED <<now, feed, subs>> /\ ToWrite(o, e)
        /\ told' = told \cup {<<s, e>>} /\ again' = again \cup (told \cap {<<s, e>>})
    BY DEF Send, Arrives
  <1>5. Fit(runs[o], told, now, feed) /\ Reported(told, now, feed) /\ again = {}
    BY <1>1 DEF Once, Fits
  <1>6. e <= feed[s] /\ e < now + Warn /\ \A d \in Ends : <<s, d>> \in told => d < e
    BY <1>1, <1>5 DEF Fit
  <1>7. again' = {}
    BY <1>2, <1>3, <1>4, <1>5, <1>6
  <1>8. Reported(told', now, feed)
    BY <1>4, <1>5, <1>6 DEF Reported
  <1>9. \A d \in Ends : <<s, d>> \in told => Past(s, d, now, feed)
    BY <1>2, <1>6, Numbers DEF Past
  <1> QED
    BY <1>1, <1>4, <1>7, <1>8, <1>9, ToWriteFits

LEMMA SendFailsOnce ==
    ASSUME IInv, Once, NEW o \in DOMAIN runs, NEW retryable \in BOOLEAN, SendFails(o, retryable)
    PROVE  Once'
  <1> DEFINE s == runs[o].sub
             e == runs[o].end
             run == [runs[o] EXCEPT !.try = @ + 1]
  <1>1. o \in Fetching /\ runs[o].pc = "send"
    BY SubOf DEF SendFails, Fetching
  <1>2. /\ runs[o] \in Run /\ s \in Subs /\ feed[s] \in Nat /\ now \in Nat
        /\ runs[o].kind # "tick" /\ e \in Nat
    BY <1>1, FetchType, Numbers DEF Run
  <1>3. UNCHANGED <<now, feed, subs, told, again>>
    BY DEF SendFails, history
  <1>4. Fit(runs[o], told, now, feed) /\ Reported(told, now, feed) /\ again = {}
    BY <1>1 DEF Once, Fits
  <1>5. CASE Goto(o, run)
    <2>1. run.pc = "send" /\ run.end = e /\ run.kind # "tick" /\ run.sub = s
      BY <1>1, <1>2 DEF Run
    <2> HIDE DEF run
    <2>2. Fit(run, told, now, feed)
      BY <1>1, <1>4, <2>1 DEF Fit
    <2> QED
      BY <1>1, <1>3, <1>4, <1>5, <2>1, <2>2, Stepped
  <1>6. CASE ToWrite(o, runs[o].marker)
    <2>1. e <= feed[s] /\ \A d \in Ends : <<s, d>> \in told => d < e
      BY <1>1, <1>4 DEF Fit
    <2>2. \A d \in Ends : <<s, d>> \in told => Past(s, d, now, feed)
      BY <1>2, <2>1, Numbers DEF Past
    <2> QED
      BY <1>1, <1>3, <1>4, <1>6, <2>2, ToWriteFits
  <1> QED
    BY <1>5, <1>6 DEF SendFails

LEMMA WriteOnce == ASSUME IInv, Once, NEW o \in DOMAIN runs, Write(o) PROVE Once'
  <1> DEFINE s == runs[o].sub
             run == [runs[o] EXCEPT !.pc = "report", !.next = Null]
  <1>1. o \in Fetching /\ runs[o].pc = "write"
    BY SubOf DEF Write, Fetching
  <1>2. /\ runs[o] \in Run /\ s \in Subs /\ now \in Nat /\ runs[o].kind # "tick"
        /\ feed \in [Subs -> Mark] /\ \A q \in Subs : feed[q] \in Nat
    BY <1>1, FetchType, Numbers DEF IInv, RestOK
  <1>3. UNCHANGED <<now, feed, told, again>> /\ Fetching = {o}
    BY <1>1 DEF Write, history, Once, Single
  <1>4. CASE s \in DOMAIN subs
    <2>1. /\ subs' = [subs EXCEPT ![s].due = FALSE, ![s].marker = runs[o].next]
          /\ Goto(o, run)
      BY <1>4 DEF Write
    <2>2. run.pc = "report" /\ run.kind # "tick"
      BY <1>2 DEF Run
    <2> HIDE DEF run
    <2>3. Fetching' = {o} /\ runs'[o] = run
      BY <1>1, <1>3, <2>1, <2>2 DEF Fetching, Goto
    <2>4. Single' /\ Fits'
      BY <2>2, <2>3 DEF Single, Fits, Fit
    <2>5. /\ DOMAIN subs' = DOMAIN subs /\ subs'[s].marker = runs[o].next
          /\ \A q \in DOMAIN subs \ {s} : subs'[q] = subs[q]
      BY <1>4, <2>1 DEF IInv, SubsOK
    <2>6. ASSUME NEW q \in DOMAIN subs, NEW d \in Ends, <<q, d>> \in told
          PROVE  Past(q, d, now, feed) \/ subs'[q].marker = d
      <3>1. CASE q = s
        BY <1>1, <2>5, <2>6, <3>1 DEF Once, Fits, Fit
      <3>2. CASE q # s
        BY <1>3, <2>5, <2>6, <3>2 DEF Once, Marked, Writing
      <3> QED
        BY <3>1, <3>2
    <2>7. Marked'
      BY <1>3, <2>5, <2>6 DEF Marked
    <2> QED
      BY <1>3, <2>4, <2>7 DEF Once
  <1>5. CASE s \notin DOMAIN subs
    <2>1. Fetching' = {} /\ subs' = subs
      BY <1>3, <1>5 DEF Write, Throw, End, Fetching, Restrict
    <2> QED
      BY <1>1, <1>2, <1>3, <1>5, <2>1, Aside
  <1> QED
    BY <1>4, <1>5

LEMMA BeginFetchOnce ==
    ASSUME IInv, Once, NEW o \in Slots \ DOMAIN runs, NEW kind \in {"job", "request"},
           NEW s \in DOMAIN subs, NEW k \in 0 .. Attempts - 1, BeginFetch(o, kind, s, k),
           UNCHANGED <<now, feed, subs>>, Fetching = {}
    PROVE  Once'
  <1> DEFINE run == [NewRun(kind, s, k) EXCEPT !.marker = subs[s].marker]
  <1>1. /\ run.pc = "fetch" /\ run.sub = s /\ run.kind = kind
        /\ run.marker = subs[s].marker
    BY DEF NewRun
  <1>2. Start(o, run) /\ UNCHANGED <<told, again>>
    BY DEF BeginFetch
  <1> HIDE DEF run
  <1>3. Fetching' = {o} /\ runs'[o] = run
    BY <1>1, <1>2 DEF Fetching, Start
  <1>4. \A q \in DOMAIN subs, d \in Ends :
           <<q, d>> \in told => Past(q, d, now, feed) \/ subs[q].marker = d
    BY DEF Once, Marked, Writing
  <1>5. Single' /\ Fits'
    BY <1>1, <1>2, <1>3, <1>4 DEF Single, Fits, Fit
  <1>6. Marked'
    BY <1>2, <1>4 DEF Marked
  <1> QED
    BY <1>2, <1>5, <1>6 DEF Once

LEMMA TakeOnce ==
    ASSUME IInv, Once, NEW o \in Workers, Take(o), serial' PROVE Once'
  <1> DEFINE j == Head(waiting)
  <1>1. /\ o \in Slots \ DOMAIN runs /\ UNCHANGED <<subs, feed, now, chat, budget>>
        /\ now \in Nat /\ feed \in [Subs -> Mark] /\ \A q \in Subs : feed[q] \in Nat
    BY Numbers DEF Take, Slots, IInv, RestOK
  <1>2. j \in Jobs \cup {Tick} /\ (j # Tick => j[2] \in 0 .. Attempts - 1)
    BY DEF IInv, QueueOK, Take, Jobs
  <1>3. CASE j = Tick
    <2> DEFINE run == [NewRun("tick", Tick, 0) EXCEPT !.pc = "enqueue",
                          !.todo = {s \in DOMAIN subs : subs[s].auto /\ subs[s].due}]
    <2>1. Start(o, run) /\ UNCHANGED history /\ run.kind = "tick"
      BY <1>3 DEF Take, BeginTick, NewRun
    <2> HIDE DEF run
    <2>2. Fetching' = Fetching /\ \A q \in Fetching : runs'[q] = runs[q]
      BY <1>1, <2>1 DEF Start, Fetching
    <2> QED
      BY <1>1, <2>1, <2>2, Aside DEF history
  <1>4. CASE j # Tick /\ j[1] \in DOMAIN subs
    <2>1. BeginFetch(o, "job", j[1], j[2])
      BY <1>4 DEF Take
    <2> HIDE DEF j
    <2>2. Fetching = {}
      BY <2>1 DEF BeginFetch
    <2> QED
      BY <1>1, <1>2, <1>4, <2>1, <2>2, BeginFetchOnce
  <1>5. CASE j # Tick /\ j[1] \notin DOMAIN subs
    <2>1. UNCHANGED <<runs, history>>
      BY <1>5 DEF Take
    <2> HIDE DEF j
    <2>2. Fetching' = Fetching
      BY <2>1 DEF Fetching
    <2> QED
      BY <1>1, <2>1, <2>2, Aside DEF history
  <1> QED
    BY <1>3, <1>4, <1>5

LEMMA RequestOnce ==
    ASSUME IInv, Once, NEW o \in Requests, NEW s \in Subs, Request(o, s), serial' PROVE Once'
  <1>1. /\ o \in Slots \ DOMAIN runs /\ s \in DOMAIN subs /\ BeginFetch(o, "request", s, 0)
        /\ UNCHANGED <<now, feed, subs>>
    BY DEF Request, Slots
  <1>2. 0 \in 0 .. Attempts - 1
    BY FetchAssumption
  <1>3. Fetching = {}
    BY <1>1 DEF BeginFetch
  <1> QED
    BY <1>1, <1>2, <1>3, BeginFetchOnce

(* Steps of the queue, ends of runs and the environment.                   *)
LEMMA OthersOnce ==
    ASSUME IInv, Once, Turns',
           \/ TickComes \/ Pass \/ SetChat \/ UNCHANGED vars
           \/ \E j \in Jobs : Promote(j)
           \/ \E o \in DOMAIN runs : \/ \E s \in runs[o].todo : Enqueue(o, s) \/ EnqueueFails(o, s)
                                     \/ TickDone(o) \/ Report(o) \/ Fail(o) \/ Stop(o)
           \/ \E s \in Subs : \/ DueAgain(s) \/ Remove(s)
                              \/ \E d \in Ends \cup {Null} : FeedChanges(s, d)
                              \/ \E auto, due \in BOOLEAN : Update(s, auto, due)
    PROVE  Once'
  <1>0. /\ now \in Nat /\ feed \in [Subs -> Mark] /\ \A q \in Subs : feed[q] \in Nat
        /\ \A o \in DOMAIN runs : runs[o] \in Run
    BY Numbers DEF IInv, RestOK, RunsOK, Good
  <1>1. CASE \/ TickComes \/ Pass \/ SetChat \/ UNCHANGED vars \/ \E j \in Jobs : Promote(j)
    <2>1. UNCHANGED <<runs, subs, feed, told, again>> /\ now' \in Nat /\ now <= now'
      BY <1>0, <1>1 DEF TickComes, Pass, SetChat, vars, Promote, history
    <2>2. Fetching' = Fetching
      BY <2>1 DEF Fetching
    <2> QED
      BY <1>0, <2>1, <2>2, Aside
  <1>2. ASSUME NEW o \in DOMAIN runs, NEW s \in runs[o].todo, Enqueue(o, s) \/ EnqueueFails(o, s)
        PROVE  Once'
    <2> DEFINE run == [runs[o] EXCEPT !.todo = @ \ {s}]
    <2>1. /\ UNCHANGED <<subs, feed, now, told, again>>
          /\ runs[o].pc = "enqueue" /\ Goto(o, run)
      BY <1>2 DEF Enqueue, EnqueueFails, history
    <2>2. runs[o].kind = "tick" /\ run.kind = "tick"
      BY <1>0, <2>1 DEF IInv, RunsOK, Good, Run
    <2> HIDE DEF run
    <2>3. Fetching' = Fetching /\ \A q \in Fetching : runs'[q] = runs[q]
      BY <2>1, <2>2 DEF Fetching, Goto
    <2> QED
      BY <1>0, <2>1, <2>3, Aside
  <1>3. ASSUME NEW o \in DOMAIN runs, TickDone(o) \/ Report(o) \/ Fail(o) \/ Stop(o)
        PROVE  Once'
    <2>1. /\ UNCHANGED <<subs, feed, now, told, again>> /\ End(o)
          /\ runs[o].pc # "write"
      BY <1>3 DEF TickDone, Report, Fail, Stop, Throw, history, Turns
    <2>2. /\ Fetching' = Fetching \ {o} /\ \A q \in Fetching' : runs'[q] = runs[q]
      BY <2>1 DEF Fetching, End, Restrict
    <2> QED
      BY <1>0, <2>1, <2>2, Aside
  <1>4. ASSUME NEW s \in Subs, NEW auto \in BOOLEAN, NEW due \in BOOLEAN,
               DueAgain(s) \/ Remove(s) \/ Update(s, auto, due)
        PROVE  Once'
    <2>1. UNCHANGED <<runs, feed, now, told, again>>
      BY <1>4 DEF DueAgain, Remove, Update, history
    <2>2. DOMAIN subs' \subseteq DOMAIN subs /\ \A q \in DOMAIN subs' : subs'[q].marker = subs[q].marker
      BY <1>4 DEF DueAgain, Remove, Update, Restrict, IInv, SubsOK
    <2>3. Fetching' = Fetching
      BY <2>1 DEF Fetching
    <2> QED
      BY <1>0, <2>1, <2>2, <2>3, Aside
  <1>5. ASSUME NEW s \in Subs, NEW d \in Ends \cup {Null}, FeedChanges(s, d)
        PROVE  Once'
    <2>1. UNCHANGED <<runs, subs, now, told, again>> /\ feed' = [feed EXCEPT ![s] = d] /\ ~ (d < feed[s])
      BY <1>5 DEF FeedChanges, Turns
    <2>2. d \in Mark /\ d \in Nat
      BY Numbers DEF Mark
    <2>3. feed' \in [Subs -> Mark] /\ \A q \in Subs : feed[q] <= feed'[q]
      BY <1>0, <2>1, <2>2
    <2>4. Fetching' = Fetching
      BY <2>1 DEF Fetching
    <2> QED
      BY <1>0, <2>1, <2>3, <2>4, Aside
  <1> QED
    BY <1>1, <1>2, <1>3, <1>4, <1>5

LEMMA TurnsBefore ==
    ASSUME IInv, [Next]_vars, Turns'
    PROVE  Turns
  BY ZenonT(40) DEF IInv, HistoryOK, Turns, Next, vars, history, TickComes, Promote, Take, BeginTick,
         BeginFetch, Request, Step, Fault, Enqueue, EnqueueFails, TickDone, Receive, Check, Send,
         Write, Report, SendFails, AnswerLost, Fail, Stop, Pass, SetChat, DueAgain, Remove,
         FeedChanges, Update

LEMMA WarnedStep ==
    ASSUME IInv, WInv, [Next]_vars
    PROVE  WInv'
  <1> SUFFICES ASSUME Turns' PROVE Once'
    BY DEF WInv
  <1>1. Once /\ serial'
    BY TurnsBefore DEF WInv, Turns
  <1>2. ASSUME NEW o \in DOMAIN runs, AnswerLost(o) PROVE FALSE
    BY <1>2 DEF AnswerLost, Turns
  <1>3. ASSUME NEW o \in Slots, Step(o) \/ Fault(o) PROVE Once'
    BY <1>1, <1>2, <1>3, OthersOnce, ReceiveOnce, CheckOnce, SendOnce, SendFailsOnce, WriteOnce
       DEF Step, Fault
  <1> QED
    BY <1>1, <1>3, TakeOnce, RequestOnce, OthersOnce DEF Next

(* No end is warned of twice, over any number of fetches that take turns,  *)
(* as long as none fails between a warning and its mark and the feed only  *)
(* prolongs (resolveTelegramSubscriptionExpiryWarning).                    *)
THEOREM SerialWarnedOnceCorrect == Spec => []SerialWarnedOnce
  <1>1. Init => WInv
    BY DEF Init, WInv, Once, Single, Reported, Fits, Marked, Fetching, None
  <1>2. WInv => SerialWarnedOnce
    BY DEF WInv, Turns, Once, SerialWarnedOnce
  <1> QED
    BY <1>1, <1>2, Inductive, WarnedStep, PTL DEF Spec
=============================================================================
