------------------------------ MODULE FetchCycle ------------------------------
(***************************************************************************)
(* The queue that keeps subscriptions fresh, and the warning that a        *)
(* subscription is about to end.  A tick repeated every minute looks for   *)
(* subscriptions whose interval has passed and adds a job for each; worker *)
(* slots run SubscriptionsService.fetchConnects, of which this module has  *)
(* what concerns lastFetchedAt and telegramExpiryWarningSentForExpiresAt:  *)
(* both are read when a fetch starts and written when it ends, with the    *)
(* remote answer, the rows (module ConnectSync) and Telegram in between.   *)
(* POST /subscriptions/:id/fetch runs the same code outside the queue.     *)
(*                                                                         *)
(* Instants are numbers; of the interval only whether it has passed is     *)
(* kept.  The message about changed connects has no part in this and is    *)
(* left out, as is the wording of the other.                               *)
(***************************************************************************)
EXTENDS Naturals, Sequences, Functions

CONSTANTS
    Subs,          \* subscriptions
    Ends,          \* instants a subscription may end at
    Warn,          \* SUBSCRIPTION_EXPIRY_TELEGRAM_WARN_MS
    Horizon,       \* bound on the clock
    Workers,       \* concurrency of the worker
    Requests,      \* requests in progress at the same time
    Attempts,      \* attempts of a job
    SendAttempts,  \* maxAttempts of sendMessage
    MaxJobs,       \* bound on jobs waiting when a tick comes
    Budget,        \* bound on faults, changes of feeds, operators' actions
    Tick           \* the job SUBSCRIPTION_FETCH_SCHEDULER_JOB

Null == 0
Slots == Workers \cup Requests
Jobs == Subs \X (0 .. Attempts - 1)   \* SUBSCRIPTION_FETCH_CONNECTS_JOB, attempts made

ASSUME FetchAssumption ==
    /\ Ends \subseteq Nat \ {Null}
    /\ Warn \in Nat /\ Horizon \in Nat /\ MaxJobs \in Nat /\ Budget \in Nat
    /\ Attempts \in Nat \ {0} /\ SendAttempts \in Nat \ {0}
    /\ Workers \cap Requests = {}
    /\ Tick \notin Jobs /\ Tick \notin Subs

VARIABLES
    subs,     \* live subscription -> [auto, due, marker]
    feed,     \* subscription -> the end its feed reports, or Null
    now,
    chat,     \* telegramBotSecret and telegramGroupId are set
    waiting,  \* Redis: jobs in the order they will be taken
    delayed,  \* Redis: job -> how many of it await their next attempt
    failed,   \* Redis: subscriptions of failed jobs kept (removeOnFail)
    runs,     \* slot -> local variables
    budget,
    told,     \* history: <<s, d>> of the warnings that arrived
    again,    \* history: those that arrived more than once
    quiet,    \* history: those skipped for want of a chat
    serial,   \* history: no two fetches have overlapped
    cut,      \* history: a fetch failed between a warning and its mark
    back      \* history: a feed has reported an earlier end, or none any more

queue == <<waiting, delayed, failed>>
history == <<told, again, quiet, serial, cut, back>>
vars == <<subs, feed, now, chat, queue, runs, budget, history>>

-----------------------------------------------------------------------------
(* resolveTelegramSubscriptionExpiryWarning: 0 < left < Warn.              *)
Soon(d) == d # Null /\ now < d /\ d < now + Warn

None == [s \in {} |-> TRUE]

NewRun(kind, s, made) ==
    [kind |-> kind,      \* "tick", "job", "request"
     pc |-> "fetch",
     todo |-> {},        \* subscriptions to be added to the queue
     sub |-> s, made |-> made,
     marker |-> Null,    \* the mark as read
     end |-> Null,       \* remoteExpiresAt
     next |-> Null,      \* nextTelegramExpiryMarker
     try |-> 1]          \* attempt of sendMessage

Fetching == {o \in DOMAIN runs : runs[o].kind # "tick"}

Init ==
    /\ subs = [s \in Subs |-> [auto |-> TRUE, due |-> TRUE, marker |-> Null]]
    /\ feed \in [Subs -> Ends \cup {Null}]
    /\ now = 0
    /\ chat \in BOOLEAN
    /\ waiting = <<>>
    /\ delayed = [j \in Jobs |-> 0]
    /\ failed = {}
    /\ runs = None
    /\ budget = Budget
    /\ told = {} /\ again = {} /\ quiet = {}
    /\ serial = TRUE /\ cut = FALSE /\ back = FALSE

Goto(o, run) == runs' = [runs EXCEPT ![o] = run]
End(o) == runs' = Restrict(runs, DOMAIN runs \ {o})
Start(o, run) == runs' = [q \in DOMAIN runs \cup {o} |-> IF q = o THEN run ELSE runs[q]]

(* What is left of the local variables when the subscription is written.   *)
ToWrite(o, next) ==
    Goto(o, [runs[o] EXCEPT !.pc = "write", !.next = next,
                !.marker = Null, !.end = Null, !.try = 1])

Spend == budget > 0 /\ budget' = budget - 1

(* BullMQ: a job that throws waits for its next attempt, if it has one.    *)
Retried(s, made) ==
    IF made + 1 < Attempts
    THEN delayed' = [delayed EXCEPT ![<<s, made + 1>>] = @ + 1] /\ UNCHANGED failed
    ELSE failed' = failed \cup {s} /\ UNCHANGED delayed

(* The run throws.                                                         *)
Throw(o) ==
    /\ IF runs[o].kind = "job" THEN Retried(runs[o].sub, runs[o].made)
                               ELSE UNCHANGED <<delayed, failed>>
    /\ End(o)

-----------------------------------------------------------------------------
(* The repeated job; no second one waits beside it.                        *)
TickComes ==
    /\ Len(waiting) < MaxJobs /\ \A j \in Jobs : delayed[j] < MaxJobs
    /\ \A i \in DOMAIN waiting : waiting[i] # Tick
    /\ waiting' = Append(waiting, Tick)
    /\ UNCHANGED <<subs, feed, now, chat, delayed, failed, runs, budget, history>>

(* The backoff of a job has passed.                                        *)
Promote(j) ==
    /\ delayed[j] > 0
    /\ delayed' = [delayed EXCEPT ![j] = @ - 1]
    /\ waiting' = Append(waiting, j)
    /\ UNCHANGED <<subs, feed, now, chat, failed, runs, budget, history>>

(* fetchConnects reads the subscription.                                   *)
BeginFetch(o, kind, s, made) ==
    /\ Start(o, [NewRun(kind, s, made) EXCEPT !.marker = subs[s].marker])
    /\ serial' = (serial /\ Fetching = {})
    /\ UNCHANGED <<delayed, failed, told, again, quiet, cut, back>>

(* enqueueDueSubscriptions reads the subscriptions.                        *)
BeginTick(o) ==
    /\ Start(o, [NewRun("tick", Tick, 0) EXCEPT !.pc = "enqueue",
                    !.todo = {s \in DOMAIN subs : subs[s].auto /\ subs[s].due}])
    /\ UNCHANGED <<delayed, failed, history>>

Take(o) ==
    /\ o \in Workers \ DOMAIN runs
    /\ waiting # <<>>
    /\ waiting' = Tail(waiting)
    /\ LET j == Head(waiting) IN
          IF j = Tick THEN BeginTick(o)
          ELSE IF j[1] \in DOMAIN subs THEN BeginFetch(o, "job", j[1], j[2])
          ELSE Retried(j[1], j[2]) /\ UNCHANGED <<runs, history>>
    /\ UNCHANGED <<subs, feed, now, chat, budget>>

Request(o, s) ==
    /\ o \in Requests \ DOMAIN runs
    /\ s \in DOMAIN subs
    /\ Spend
    /\ BeginFetch(o, "request", s, 0)
    /\ UNCHANGED <<subs, feed, now, chat, waiting>>

(* Slip: jobs get the id of the subscription, and a failed one is in the   *)
(* way.                                                                    *)
EnqueueById(o, s) ==
    LET run == runs[o] IN
    /\ run.pc = "enqueue" /\ s \in run.todo
    /\ Goto(o, [run EXCEPT !.todo = @ \ {s}])
    /\ waiting' = IF s \in failed THEN waiting ELSE Append(waiting, <<s, 0>>)
    /\ UNCHANGED <<subs, feed, now, chat, delayed, failed, budget, history>>

(* queue.add, without a jobId.                                             *)
Enqueue(o, s) ==
    LET run == runs[o] IN
    /\ run.pc = "enqueue" /\ s \in run.todo
    /\ Goto(o, [run EXCEPT !.todo = @ \ {s}])
    /\ waiting' = Append(waiting, <<s, 0>>)
    /\ UNCHANGED <<subs, feed, now, chat, delayed, failed, budget, history>>

(* queue.add fails: noted, and passed over.                                *)
EnqueueFails(o, s) ==
    LET run == runs[o] IN
    /\ run.pc = "enqueue" /\ s \in run.todo
    /\ Spend
    /\ Goto(o, [run EXCEPT !.todo = @ \ {s}])
    /\ UNCHANGED <<subs, feed, now, chat, queue, history>>

TickDone(o) ==
    /\ runs[o].pc = "enqueue" /\ runs[o].todo = {}
    /\ End(o)
    /\ UNCHANGED <<subs, feed, now, chat, queue, budget, history>>

-----------------------------------------------------------------------------
Receive(o) ==
    LET run == runs[o] IN
    /\ run.pc = "fetch"
    /\ Goto(o, [run EXCEPT !.pc = "check", !.end = feed[run.sub]])
    /\ UNCHANGED <<subs, feed, now, chat, queue, budget, history>>

(* Slip: any mark counts.                                                  *)
CheckAnyMark(o) ==
    LET run == runs[o] IN
    /\ run.pc = "check"
    /\ \/ /\ Soon(run.end) /\ run.marker = Null /\ chat
          /\ Goto(o, [run EXCEPT !.pc = "send"])
          /\ UNCHANGED quiet
       \/ /\ Soon(run.end) /\ run.marker = Null /\ ~ chat
          /\ ToWrite(o, run.end)
          /\ quiet' = quiet \cup {<<run.sub, run.end>>}
       \/ /\ ~ Soon(run.end) \/ run.marker # Null
          /\ ToWrite(o, IF Soon(run.end) THEN run.marker ELSE Null)
          /\ UNCHANGED quiet
    /\ UNCHANGED <<subs, feed, now, chat, queue, budget, told, again, serial, cut, back>>

(* Slip: the mark is not looked at.                                        *)
CheckNoMark(o) ==
    LET run == runs[o] IN
    /\ run.pc = "check"
    /\ IF Soon(run.end) /\ chat
       THEN Goto(o, [run EXCEPT !.pc = "send"])
       ELSE ToWrite(o, IF Soon(run.end) THEN run.end ELSE Null)
    /\ quiet' = IF Soon(run.end) /\ ~ chat THEN quiet \cup {<<run.sub, run.end>>} ELSE quiet
    /\ UNCHANGED <<subs, feed, now, chat, queue, budget, told, again, serial, cut, back>>

(* resolveTelegramSubscriptionExpiryWarning up to the message.  Without a  *)
(* chat the warning counts as sent.                                        *)
Check(o) ==
    LET run == runs[o]
        new == Soon(run.end) /\ run.marker # run.end
    IN
    /\ run.pc = "check"
    /\ IF new /\ chat
       THEN Goto(o, [run EXCEPT !.pc = "send"])
       ELSE ToWrite(o, IF Soon(run.end) THEN run.end ELSE Null)
    /\ quiet' = IF new /\ ~ chat THEN quiet \cup {<<run.sub, run.end>>} ELSE quiet
    /\ UNCHANGED <<subs, feed, now, chat, queue, budget, told, again, serial, cut, back>>

Arrives(s, d) ==
    /\ told' = told \cup {<<s, d>>}
    /\ again' = again \cup (told \cap {<<s, d>>})

Send(o) ==
    LET run == runs[o] IN
    /\ run.pc = "send"
    /\ Arrives(run.sub, run.end)
    /\ ToWrite(o, run.end)
    /\ UNCHANGED <<subs, feed, now, chat, queue, budget, quiet, serial, cut, back>>

(* Slip: a message that could not be sent is marked all the same.          *)
SendFailsMarked(o, retryable) ==
    LET run == runs[o] IN
    /\ run.pc = "send"
    /\ Spend
    /\ IF retryable /\ run.try < SendAttempts
       THEN Goto(o, [run EXCEPT !.try = @ + 1])
       ELSE ToWrite(o, run.end)
    /\ UNCHANGED <<subs, feed, now, chat, queue, history>>

(* Slip: one attempt too many.                                             *)
SendFailsOnceMore(o, retryable) ==
    LET run == runs[o] IN
    /\ run.pc = "send"
    /\ Spend
    /\ IF retryable /\ run.try <= SendAttempts
       THEN Goto(o, [run EXCEPT !.try = @ + 1])
       ELSE ToWrite(o, run.marker)
    /\ UNCHANGED <<subs, feed, now, chat, queue, history>>

(* sendMessage: repeated after an error of the network, else given up; the *)
(* mark stays as it was read.                                              *)
SendFails(o, retryable) ==
    LET run == runs[o] IN
    /\ run.pc = "send"
    /\ Spend
    /\ IF retryable /\ run.try < SendAttempts
       THEN Goto(o, [run EXCEPT !.try = @ + 1])
       ELSE ToWrite(o, run.marker)
    /\ UNCHANGED <<subs, feed, now, chat, queue, history>>

(* The message arrives, the answer of Telegram does not.                   *)
AnswerLost(o) ==
    LET run == runs[o] IN
    /\ run.pc = "send"
    /\ Spend
    /\ Arrives(run.sub, run.end)
    /\ cut' = TRUE
    /\ IF run.try < SendAttempts
       THEN Goto(o, [run EXCEPT !.try = @ + 1])
       ELSE ToWrite(o, run.marker)
    /\ UNCHANGED <<subs, feed, now, chat, queue, quiet, serial, back>>

(* subscription.update; it throws when the subscription is gone.           *)
Write(o) ==
    LET run == runs[o] IN
    /\ run.pc = "write"
    /\ IF run.sub \in DOMAIN subs
       THEN /\ subs' = [subs EXCEPT ![run.sub].due = FALSE, ![run.sub].marker = run.next]
            /\ Goto(o, [run EXCEPT !.pc = "report", !.next = Null])
            /\ UNCHANGED <<delayed, failed>>
       ELSE Throw(o) /\ UNCHANGED subs
    /\ UNCHANGED <<feed, now, chat, waiting, budget, history>>

(* What follows, the message about changed connects included, changes      *)
(* nothing of this.                                                        *)
Report(o) ==
    /\ runs[o].pc = "report"
    /\ End(o)
    /\ UNCHANGED <<subs, feed, now, chat, queue, budget, history>>

(* A call is rejected: the feed does not answer, or answers with an error  *)
(* or an empty list, or the database fails.                                *)
Fail(o) ==
    /\ Spend
    /\ Throw(o)
    /\ cut' = (cut \/ runs[o].pc \in {"send", "write"})
    /\ UNCHANGED <<subs, feed, now, chat, waiting, told, again, quiet, serial, back>>

(* The process stops.  BullMQ finds the job stalled and lets it run again, *)
(* or counts it as failed.                                                 *)
Stop(o) ==
    LET run == runs[o] IN
    /\ Spend
    /\ End(o)
    /\ \/ run.kind = "job" /\ waiting' = Append(waiting, <<run.sub, run.made>>) /\ UNCHANGED failed
       \/ run.kind = "job" /\ failed' = failed \cup {run.sub} /\ UNCHANGED waiting
       \/ run.kind # "job" /\ UNCHANGED <<waiting, failed>>
    /\ cut' = (cut \/ run.pc \in {"send", "write"})
    /\ UNCHANGED <<subs, feed, now, chat, delayed, told, again, quiet, serial, back>>

-----------------------------------------------------------------------------
Pass ==
    /\ now < Horizon
    /\ now' = now + 1
    /\ UNCHANGED <<subs, feed, chat, queue, runs, budget, history>>

(* fetchIntervalMinutes have passed since lastFetchedAt.                   *)
DueAgain(s) ==
    /\ s \in DOMAIN subs /\ subs[s].auto /\ ~ subs[s].due
    /\ subs' = [subs EXCEPT ![s].due = TRUE]
    /\ UNCHANGED <<feed, now, chat, queue, runs, budget, history>>

(* The feed reports another end: prolonged, corrected, or left out.        *)
FeedChanges(s, d) ==
    /\ d # feed[s]
    /\ Spend
    /\ feed' = [feed EXCEPT ![s] = d]
    /\ back' = (back \/ d < feed[s])
    /\ UNCHANGED <<subs, now, chat, queue, runs, told, again, quiet, serial, cut>>

(* SubscriptionsService.update: the interval.                              *)
Update(s, auto, due) ==
    /\ s \in DOMAIN subs
    /\ Spend
    /\ subs' = [subs EXCEPT ![s].auto = auto, ![s].due = due]
    /\ UNCHANGED <<feed, now, chat, queue, runs, history>>

(* SubscriptionsService.remove, its last call.                             *)
Remove(s) ==
    /\ s \in DOMAIN subs
    /\ Spend
    /\ subs' = Restrict(subs, DOMAIN subs \ {s})
    /\ UNCHANGED <<feed, now, chat, queue, runs, history>>

(* updatePanelGlobalSettings.                                              *)
SetChat ==
    /\ Spend
    /\ chat' = ~ chat
    /\ UNCHANGED <<subs, feed, now, queue, runs, history>>

-----------------------------------------------------------------------------
Step(o) ==
    /\ o \in DOMAIN runs
    /\ \/ \E s \in runs[o].todo : Enqueue(o, s)
       \/ TickDone(o)
       \/ Receive(o) \/ Check(o) \/ Send(o) \/ Write(o) \/ Report(o)

Fault(o) ==
    /\ o \in DOMAIN runs
    /\ \/ \E s \in runs[o].todo : EnqueueFails(o, s)
       \/ \E retryable \in BOOLEAN : SendFails(o, retryable)
       \/ AnswerLost(o) \/ Fail(o) \/ Stop(o)

Next ==
    \/ TickComes
    \/ \E j \in Jobs : Promote(j)
    \/ \E o \in Workers : Take(o)
    \/ \E o \in Requests, s \in Subs : Request(o, s)
    \/ \E o \in Slots : Step(o) \/ Fault(o)
    \/ Pass \/ SetChat
    \/ \E s \in Subs : \/ DueAgain(s) \/ Remove(s)
                       \/ \E d \in Ends \cup {Null} : FeedChanges(s, d)
                       \/ \E auto, due \in BOOLEAN : Update(s, auto, due)

Spec == Init /\ [][Next]_vars

(* Awaited calls end; the repeated job, delayed jobs and waiting jobs get  *)
(* their turn; intervals pass.  Faults are bounded by Budget.              *)
Fairness ==
    /\ WF_vars(TickComes)
    /\ \A j \in Jobs : WF_vars(Promote(j))
    /\ WF_vars(\E o \in Workers : Take(o))
    /\ \A o \in Slots : WF_vars(Step(o))
    /\ \A s \in Subs : WF_vars(DueAgain(s))

FairSpec == Spec /\ Fairness

-----------------------------------------------------------------------------
Mark == Ends \cup {Null}

Run == [kind: {"tick", "job", "request"},
        pc: {"enqueue", "fetch", "check", "send", "write", "report"},
        todo: SUBSET Subs, sub: Subs \cup {Tick}, made: 0 .. Attempts - 1,
        marker: Mark, end: Mark, next: Mark, try: 1 .. SendAttempts]

TypeOK ==
    /\ DOMAIN subs \subseteq Subs
    /\ subs \in [DOMAIN subs -> [auto: BOOLEAN, due: BOOLEAN, marker: Mark]]
    /\ feed \in [Subs -> Mark]
    /\ now \in Nat
    /\ chat \in BOOLEAN
    /\ waiting \in Seq(Jobs \cup {Tick})
    /\ delayed \in [Jobs -> Nat]
    /\ failed \subseteq Subs
    /\ DOMAIN runs \subseteq Slots
    /\ runs \in [DOMAIN runs -> Run]
    /\ \A o \in DOMAIN runs : runs[o].kind = "tick" <=> runs[o].pc = "enqueue"
    /\ \A o \in DOMAIN runs : runs[o].kind = "tick" <=> runs[o].sub = Tick
    /\ budget \in Nat
    /\ told \subseteq Subs \X Ends /\ again \subseteq told /\ quiet \subseteq Subs \X Ends
    /\ serial \in BOOLEAN /\ cut \in BOOLEAN /\ back \in BOOLEAN

(* However fetches of a subscription overlap and fail, a stored mark says  *)
(* the truth: its warning has arrived, or there was no chat to send it to  *)
(* (telegramExpiryWarningSentForExpiresAt in schema.prisma).               *)
MarkTruthful ==
    \A s \in DOMAIN subs :
        subs[s].marker # Null => <<s, subs[s].marker>> \in told \cup quiet

(* One warning per end, as long as fetches do not overlap, none fails      *)
(* between the warning and its mark, and the feed only prolongs ("one-     *)
(* shot", resolveTelegramSubscriptionExpiryWarning).                       *)
SerialWarnedOnce == serial /\ ~ cut /\ ~ back => again = {}

(* A subscription that is due is fetched in the end, whatever failed       *)
(* before: no failed job stands in the way (comment on queue.add).  The    *)
(* jobs of one that is gone leave the queue.                               *)
Concerns(s) ==
    \/ \E i \in DOMAIN waiting : waiting[i] # Tick /\ waiting[i][1] = s
    \/ \E k \in 0 .. Attempts - 1 : delayed[<<s, k>>] > 0
    \/ \E o \in DOMAIN runs : runs[o].sub = s

Refreshed ==
    \A s \in Subs :
        /\ s \in DOMAIN subs /\ subs[s].auto /\ subs[s].due
               ~> ~ (s \in DOMAIN subs /\ subs[s].auto /\ subs[s].due)
        /\ s \notin DOMAIN subs ~> ~ Concerns(s)

(* When the end of a subscription that is fetched comes near, the warning  *)
(* arrives, unless the clock or the feed moves on first: marks left by     *)
(* earlier ends and fetches that overlapped or failed do not prevent it.   *)
Warnable(s, d) ==
    /\ s \in DOMAIN subs /\ subs[s].auto
    /\ feed[s] = d /\ Soon(d)
    /\ <<s, d>> \notin told \cup quiet

SoonWarned == \A s \in Subs, d \in Ends : Warnable(s, d) ~> ~ Warnable(s, d)
=============================================================================
