------------------------------ MODULE Pipeline ------------------------------
(***************************************************************************)
(* The SMS data plane of atmsgfwd: from a +CMT indication of the modem to  *)
(* a call of notifier.Notify.                                              *)
(*                                                                         *)
(*   +CMT handler --events--> session loop --important--> sender worker    *)
(*                --rawLines->             --raw-------->                  *)
(*                            watchdog     --important--> (Notify)         *)
(*                                                                         *)
(* Goroutines: the indication handlers of modem.NewAT, the goroutine of    *)
(* Run with its reconnect loop and the session that runs                   *)
(* (internal/forwarder/forwarder.go), the sender worker, and the watchdog  *)
(* seen only as a second producer of alerts.                               *)
(* A Go channel is a bounded sequence; one channel operation is one step.  *)
(* An SMS is identified by its acceptance number: the n-th event that      *)
(* emitSMSEvent put on an events channel.  Raw lines are only counted.     *)
(***************************************************************************)
EXTENDS Naturals, Sequences, FiniteSets

CONSTANTS
  EventsCap,     \* capacity of a session's events channel (8)
  RawLinesCap,   \* capacity of a session's rawLines channel (32)
  ImportantCap,  \* notifyImportantBuffer (64)
  RawCap,        \* notifyRawBuffer (16)
  InitModem,     \* cfg.InitModem
  TelegramRaw,   \* cfg.TelegramRaw
  MaxSms,        \* bound: SMS accepted or being handled
  MaxSession     \* bound: sessions opened

ASSUME PipelineAssumption ==
  /\ EventsCap \in Nat \ {0}
  /\ RawLinesCap \in Nat \ {0}
  /\ ImportantCap \in Nat \ {0}
  /\ RawCap \in Nat \ {0}
  /\ InitModem \in BOOLEAN
  /\ TelegramRaw \in BOOLEAN
  /\ MaxSms \in Nat
  /\ MaxSession \in Nat

VARIABLES
  cancelled,  \* ctx.Err() # nil: SIGINT or SIGTERM was received
  loop,       \* where the goroutine of Run and runReconnectLoop is
  session,    \* number of sessions opened so far
  link,       \* "none"; "up"; "down": AT.Closed() fired, port still held
  handlers,   \* +CMT handlers of this session about to parse and emit
  events,     \* the session's events channel
  rawLines,   \* the number of lines in the session's rawLines channel
  inLoop,     \* the event held inside EnqueueSMS, or 0
  watchdog,   \* "idle", "stopped" (not running), or "alert": in EnqueueWatchdog
  important,  \* sender.important
  raw,        \* the number of lines in sender.raw
  worker,     \* Selecting, Returned, or the item passed to Notify
  accepted,   \* history: events accepted so far
  notified    \* history: SMS and closed alerts passed to Notify, in order

vars == <<cancelled, loop, session, link, handlers, events, rawLines, inLoop,
          watchdog, important, raw, worker, accepted, notified>>
sessionVars == <<loop, session, link, inLoop>>
chanVars    == <<handlers, events, rawLines>>
senderVars  == <<important, raw, worker, notified>>

-----------------------------------------------------------------------------
(* Outbound items (sendItem).                                              *)

SmsItem(n)    == [kind |-> "sms",    id |-> n]
ClosedItem(s) == [kind |-> "closed", id |-> s]  \* "serial connection closed"
ProbeItem     == [kind |-> "probe",  id |-> 0]  \* "watchdog probe failed"
RawItem       == [kind |-> "raw",    id |-> 0]

\* The worker outside Notify: in its select, or not running: not started yet,
\* or returned.
Selecting == [kind |-> "select", id |-> 0]
Returned  == [kind |-> "done",   id |-> 0]

ImportantItem == [kind : {"sms", "closed", "probe"}, id : Nat]

Saturate(n, cap) == IF n > cap THEN cap ELSE n
Elements(s)      == {s[i] : i \in DOMAIN s}

\* "start" is Run before its goroutines; "stopped" its deferred functions,
\* down to the call of bot.Close; "exited": Run has returned.
LoopStates == {"start", "check", "open", "init", "listen", "sms", "alert",
               "close", "judge", "wait", "stopped", "exited"}
InSession  == {"init", "listen", "sms", "alert", "close"}

\* The context of the watchdog is done: cancelWatchdog is deferred by Run.
WatchdogDone == cancelled \/ loop \in {"stopped", "exited"}

Init ==
  /\ cancelled = FALSE
  /\ loop = "start"
  /\ session = 0
  /\ link = "none"
  /\ handlers = 0
  /\ events = <<>>
  /\ rawLines = 0
  /\ inLoop = 0
  /\ watchdog = "stopped"
  /\ important = <<>>
  /\ raw = 0
  /\ worker = Returned
  /\ accepted = 0
  /\ notified = <<>>

-----------------------------------------------------------------------------
(* The modem and the signal handler: the environment.                      *)

\* signal.NotifyContext cancels the root context.
Cancel ==
  /\ ~cancelled
  /\ cancelled' = TRUE
  /\ UNCHANGED <<sessionVars, chanVars, senderVars, watchdog, accepted>>

\* The reader of the AT object meets EOF or a read error: Closed() fires.
LinkDrops ==
  /\ link = "up"
  /\ link' = "down"
  /\ UNCHANGED <<cancelled, loop, session, inLoop, chanVars, senderVars,
                 watchdog, accepted>>

\* emitRawLines: each line goes to rawLines unless it is full.
EmitRawLines(n) == rawLines' = Saturate(rawLines + n, RawLinesCap)

\* A +CMT indication and its trailing line: the handler emits both lines
\* raw, then parses.
IndicateCMT ==
  /\ link = "up"
  /\ accepted + handlers < MaxSms
  /\ EmitRawLines(2)
  /\ handlers' = handlers + 1
  /\ UNCHANGED <<cancelled, sessionVars, events, senderVars, watchdog, accepted>>

\* A +CMTI indication (one line) or +CDS (two): raw lines only.
IndicateOther ==
  /\ link = "up"
  /\ \E n \in {1, 2} : EmitRawLines(n)
  /\ UNCHANGED <<cancelled, sessionVars, handlers, events, senderVars,
                 watchdog, accepted>>

\* Mutation: a full channel makes room by dropping its oldest event.
EmitEvictingOldest ==
  /\ handlers > 0
  /\ handlers' = handlers - 1
  /\ accepted' = accepted + 1
  /\ events' = Append(IF Len(events) < EventsCap THEN events ELSE Tail(events),
                      accepted + 1)
  /\ UNCHANGED <<cancelled, sessionVars, rawLines, senderVars, watchdog>>

\* emitSMSEvent: a non-blocking send; the event is dropped when events is full.
EmitSMSEvent ==
  /\ handlers > 0
  /\ handlers' = handlers - 1
  /\ IF Len(events) < EventsCap
       THEN /\ events' = Append(events, accepted + 1)
            /\ accepted' = accepted + 1
       ELSE UNCHANGED <<events, accepted>>
  /\ UNCHANGED <<cancelled, sessionVars, rawLines, senderVars, watchdog>>

\* sms.ParseCMTIndication returned an error: logged, nothing is emitted.
ParseFails ==
  /\ handlers > 0
  /\ handlers' = handlers - 1
  /\ UNCHANGED <<cancelled, sessionVars, events, rawLines, senderVars,
                 watchdog, accepted>>

-----------------------------------------------------------------------------
(* The sender's queues, as their producers use them.                       *)

\* Mutations: the item is dropped when the queue is full; ctx is not watched.
EnqueueOrDrop(item, done) ==
  important' = IF Len(important) < ImportantCap THEN Append(important, item)
               ELSE important

EnqueueOrWait(item, done) ==
  /\ Len(important) < ImportantCap
  /\ important' = Append(important, item)

\* enqueueImportant: wait for room, or give up once the producer's ctx is done.
EnqueueImportant(item, done) ==
  \/ /\ Len(important) < ImportantCap
     /\ important' = Append(important, item)
  \/ /\ done
     /\ UNCHANGED important

\* EnqueueRaw: a non-blocking send; the line is dropped when raw is full.
EnqueueRaw == raw' = Saturate(raw + 1, RawCap)

-----------------------------------------------------------------------------
(* Run, before and after the reconnect loop.                               *)

\* The token, the chat id or telegram.New is refused.
RefuseConfig ==
  /\ loop = "start"
  /\ loop' = "exited"
  /\ UNCHANGED <<cancelled, session, link, inLoop, chanVars, senderVars,
                 watchdog, accepted>>

\* bot.Initialize, a call to Telegram under ctx, fails; bot.Close follows.
InitializeFails ==
  /\ loop = "start"
  /\ loop' = "stopped"
  /\ UNCHANGED <<cancelled, session, link, inLoop, chanVars, senderVars,
                 watchdog, accepted>>

\* bot.Initialize succeeds; the worker and the watchdog are started.  If
\* newTransport fails the loop is never entered.
Start ==
  /\ loop = "start"
  /\ loop' \in {"check", "stopped"}
  /\ worker' = Selecting
  /\ watchdog' = "idle"
  /\ UNCHANGED <<cancelled, session, link, inLoop, chanVars, important, raw,
                 notified, accepted>>

\* bot.Close(context.Background()) returns, a call to Telegram that nothing
\* cancels, and with it Run.
BotCloses ==
  /\ loop = "stopped"
  /\ loop' = "exited"
  /\ UNCHANGED <<cancelled, session, link, inLoop, chanVars, senderVars,
                 watchdog, accepted>>

-----------------------------------------------------------------------------
(* The reconnect loop and the session it runs.                             *)

Check ==
  /\ loop = "check"
  /\ loop' = IF cancelled THEN "stopped" ELSE "open"
  /\ UNCHANGED <<cancelled, session, link, inLoop, chanVars, senderVars,
                 watchdog, accepted>>

\* tr.Open succeeds; fresh events and rawLines channels, a new AT object.
OpenSucceeds ==
  /\ loop = "open"
  /\ session < MaxSession
  /\ session' = session + 1
  /\ link' = "up"
  /\ loop' = IF InitModem THEN "init" ELSE "listen"
  /\ UNCHANGED <<cancelled, inLoop, chanVars, senderVars, watchdog, accepted>>

OpenFails ==
  /\ loop = "open"
  /\ loop' = "judge"
  /\ UNCHANGED <<cancelled, session, link, inLoop, chanVars, senderVars,
                 watchdog, accepted>>

\* modem.Init never looks at ctx and nobody drains events meanwhile.  The
\* link may drop after the last answer.
InitSucceeds ==
  /\ loop = "init"
  /\ loop' = "listen"
  /\ UNCHANGED <<cancelled, session, link, inLoop, chanVars, senderVars,
                 watchdog, accepted>>

\* Mutation: a failed initialisation returns without the deferred close.
InitFailsKeepingPort ==
  /\ loop = "init"
  /\ loop' = "judge"
  /\ UNCHANGED <<cancelled, session, link, inLoop, chanVars, senderVars,
                 watchdog, accepted>>

InitFails ==
  /\ loop = "init"
  /\ loop' = "close"
  /\ UNCHANGED <<cancelled, session, link, inLoop, chanVars, senderVars,
                 watchdog, accepted>>

\* The four branches of the session's select.
ListenDone ==
  /\ loop = "listen"
  /\ cancelled
  /\ loop' = "close"
  /\ UNCHANGED <<cancelled, session, link, inLoop, chanVars, senderVars,
                 watchdog, accepted>>

ListenClosed ==
  /\ loop = "listen"
  /\ link = "down"
  /\ loop' = "alert"
  /\ UNCHANGED <<cancelled, session, link, inLoop, chanVars, senderVars,
                 watchdog, accepted>>

ListenRaw ==
  /\ loop = "listen"
  /\ rawLines > 0
  /\ rawLines' = rawLines - 1
  /\ IF TelegramRaw THEN EnqueueRaw ELSE UNCHANGED raw
  /\ UNCHANGED <<cancelled, sessionVars, handlers, events, important, worker,
                 notified, watchdog, accepted>>

ListenEvent ==
  /\ loop = "listen"
  /\ events # <<>>
  /\ inLoop' = Head(events)
  /\ events' = Tail(events)
  /\ loop' = "sms"
  /\ UNCHANGED <<cancelled, session, link, handlers, rawLines, senderVars,
                 watchdog, accepted>>

EnqueueSMS ==
  /\ loop = "sms"
  /\ EnqueueImportant(SmsItem(inLoop), cancelled)
  /\ inLoop' = 0
  /\ loop' = "listen"
  /\ UNCHANGED <<cancelled, session, link, chanVars, raw, worker, notified,
                 watchdog, accepted>>

\* Mutations: no return after the alert; no alert at a full queue.
AlertAndListen ==
  /\ loop = "alert"
  /\ EnqueueImportant(ClosedItem(session), cancelled)
  /\ loop' = "listen"
  /\ UNCHANGED <<cancelled, session, link, inLoop, chanVars, raw, worker,
                 notified, watchdog, accepted>>

AlertOrDrop ==
  /\ loop = "alert"
  /\ EnqueueOrDrop(ClosedItem(session), cancelled)
  /\ loop' = "close"
  /\ UNCHANGED <<cancelled, session, link, inLoop, chanVars, raw, worker,
                 notified, watchdog, accepted>>

EnqueueClosedAlert ==
  /\ loop = "alert"
  /\ EnqueueImportant(ClosedItem(session), cancelled)
  /\ loop' = "close"
  /\ UNCHANGED <<cancelled, session, link, inLoop, chanVars, raw, worker,
                 notified, watchdog, accepted>>

\* Mutation: the deferred function only clears the executor.
CloseSessionKeepingPort ==
  /\ loop = "close"
  /\ loop' = "judge"
  /\ handlers' = 0
  /\ events' = <<>>
  /\ rawLines' = 0
  /\ UNCHANGED <<cancelled, session, link, inLoop, senderVars, watchdog, accepted>>

\* The deferred function: executor.Clear and port.Close.  The session's
\* channels are unreachable afterwards, with whatever they hold.  A handler
\* still running can only emit on those channels, or find them full: it changes
\* nothing any more and leaves the model with them.
CloseSession ==
  /\ loop = "close"
  /\ loop' = "judge"
  /\ link' = "none"
  /\ handlers' = 0
  /\ events' = <<>>
  /\ rawLines' = 0
  /\ UNCHANGED <<cancelled, session, inLoop, senderVars, watchdog, accepted>>

Judge ==
  /\ loop = "judge"
  /\ loop' = IF cancelled THEN "stopped" ELSE "wait"
  /\ UNCHANGED <<cancelled, session, link, inLoop, chanVars, senderVars,
                 watchdog, accepted>>

\* waitBackoff: the timer, or ctx.
Wait ==
  /\ loop = "wait"
  /\ \/ loop' = "check"
     \/ cancelled /\ loop' = "stopped"
  /\ UNCHANGED <<cancelled, session, link, inLoop, chanVars, senderVars,
                 watchdog, accepted>>

-----------------------------------------------------------------------------
(* The watchdog as a producer of alerts: runSerialWatchdog without the     *)
(* probes that make it fire.                                               *)

WatchdogFires ==
  /\ watchdog = "idle"
  /\ watchdog' = "alert"
  /\ UNCHANGED <<cancelled, sessionVars, chanVars, senderVars, accepted>>

EnqueueProbeAlert ==
  /\ watchdog = "alert"
  /\ EnqueueImportant(ProbeItem, WatchdogDone)
  /\ watchdog' = "idle"
  /\ UNCHANGED <<cancelled, sessionVars, chanVars, raw, worker, notified, accepted>>

WatchdogStops ==
  /\ watchdog = "idle"
  /\ WatchdogDone
  /\ watchdog' = "stopped"
  /\ UNCHANGED <<cancelled, sessionVars, chanVars, senderVars, accepted>>

-----------------------------------------------------------------------------
(* The sender's worker: sender.Run and sender.send.                        *)

\* Mutation: the worker drains the raw lines first.
TakeImportantAfterRaw ==
  /\ worker = Selecting
  /\ raw = 0
  /\ important # <<>>
  /\ worker' = Head(important)
  /\ important' = Tail(important)
  /\ notified' = IF Head(important) = ProbeItem THEN notified
                 ELSE Append(notified, Head(important))
  /\ UNCHANGED <<cancelled, sessionVars, chanVars, raw, watchdog, accepted>>

TakeImportant ==
  /\ worker = Selecting
  /\ important # <<>>
  /\ worker' = Head(important)
  /\ important' = Tail(important)
  /\ notified' = IF Head(important) = ProbeItem THEN notified
                 ELSE Append(notified, Head(important))
  /\ UNCHANGED <<cancelled, sessionVars, chanVars, raw, watchdog, accepted>>

TakeRaw ==
  /\ worker = Selecting
  /\ raw > 0
  /\ worker' = RawItem
  /\ raw' = raw - 1
  /\ UNCHANGED <<cancelled, sessionVars, chanVars, important, notified,
                 watchdog, accepted>>

\* Mutation: a failed item goes back to the end of its queue.
NotifyReturnsRequeueing ==
  /\ worker \notin {Selecting, Returned}
  /\ worker' = Selecting
  /\ \/ UNCHANGED important
     \/ /\ worker # RawItem
        /\ Len(important) < ImportantCap
        /\ important' = Append(important, worker)
  /\ UNCHANGED <<cancelled, sessionVars, chanVars, raw, notified, watchdog, accepted>>

\* Notify returns.  An error is logged; the item is not sent again.
NotifyReturns ==
  /\ worker \notin {Selecting, Returned}
  /\ worker' = Selecting
  /\ UNCHANGED <<cancelled, sessionVars, chanVars, important, raw, notified,
                 watchdog, accepted>>

WorkerStops ==
  /\ worker = Selecting
  /\ cancelled
  /\ worker' = Returned
  /\ UNCHANGED <<cancelled, sessionVars, chanVars, important, raw, notified,
                 watchdog, accepted>>

-----------------------------------------------------------------------------
Startup     == RefuseConfig \/ InitializeFails \/ Start
Environment == Cancel \/ LinkDrops \/ IndicateCMT \/ IndicateOther
Handler     == EmitSMSEvent \/ ParseFails
Loop        == \/ Check \/ OpenSucceeds \/ OpenFails \/ InitSucceeds \/ InitFails
               \/ ListenDone \/ ListenClosed \/ ListenRaw \/ ListenEvent
               \/ EnqueueSMS \/ EnqueueClosedAlert \/ CloseSession \/ Judge \/ Wait
Watchdog    == WatchdogFires \/ EnqueueProbeAlert \/ WatchdogStops
Worker      == TakeImportant \/ TakeRaw \/ NotifyReturns \/ WorkerStops

\* Run has returned: the process exits and may do nothing more.
Exited == loop = "exited" /\ UNCHANGED vars

Next == \/ Startup \/ Environment \/ Handler \/ Loop \/ Watchdog \/ Worker
        \/ BotCloses \/ Exited

Spec == Init /\ [][Next]_vars
(***************************************************************************)
(* Fairness.  Every goroutine runs; a blocked channel sender is served in  *)
(* FIFO order, and a select picks at random among its ready branches, so   *)
(* a branch that is ready again and again is eventually taken.  The modem  *)
(* and the signals owe nothing.  FairSpec leaves the calls to Telegram     *)
(* out, which may hang: Notify, bot.Initialize until ctx is cancelled, and *)
(* bot.Close.  NotifierFairness is the hypothesis of the properties that   *)
(* need the worker to get on.                                              *)
(***************************************************************************)
FairSpec ==
  /\ Spec
  /\ WF_vars(Handler)
  /\ WF_vars(Loop)
  /\ WF_vars(cancelled /\ InitializeFails)
  /\ SF_vars(ListenDone)
  /\ SF_vars(ListenEvent)
  /\ SF_vars(EnqueueSMS)
  /\ SF_vars(EnqueueClosedAlert)

NotifierFairness ==
  /\ SF_vars(TakeImportant)
  /\ SF_vars(EnqueueProbeAlert)
  /\ WF_vars(NotifyReturns)

-----------------------------------------------------------------------------
(* Properties.                                                             *)

\* Every variable has its type, and no channel exceeds its capacity.
TypeOK ==
  /\ cancelled \in BOOLEAN
  /\ loop \in LoopStates
  /\ session \in Nat
  /\ link \in {"none", "up", "down"}
  /\ handlers \in Nat
  /\ events \in Seq(Nat) /\ Len(events) <= EventsCap
  /\ rawLines \in 0..RawLinesCap
  /\ inLoop \in Nat
  /\ watchdog \in {"idle", "alert", "stopped"}
  /\ important \in Seq(ImportantItem) /\ Len(important) <= ImportantCap
  /\ raw \in 0..RawCap
  /\ worker \in {Selecting, Returned, RawItem} \cup ImportantItem
  /\ accepted \in Nat
  /\ notified \in Seq(ImportantItem)

\* Of two items of one kind, the one of smaller number comes first.
Before(a, b) == (a.kind = b.kind /\ a.kind # "probe") => a.id < b.id
InOrder(s)   == \A i, j \in DOMAIN s : i < j => Before(s[i], s[j])
Ascending(s) == \A i, j \in DOMAIN s : i < j => s[i] < s[j]

\* Across sessions, queues and failed sends, no SMS is passed to Notify twice
\* and none before an SMS accepted earlier; the same holds for the alerts
\* that report closed sessions.
NotifiedInOrder == InOrder(notified)

\* A port is held exactly while a session runs: discovery never probes a port
\* the forwarder itself still has open, and no way out of a session leaks it.
LinkHeldInSession == (link # "none") <=> (loop \in InSession)

\* "serial connection closed" is only reported of a session that has stopped
\* listening.
NoFalseClosedAlert ==
  \A item \in Elements(important) \cup Elements(notified) :
    item.kind = "closed" =>
      /\ item.id <= session
      /\ item.id = session => loop \notin {"init", "listen", "sms", "alert"}

\* The strengthening that makes the invariants above inductive: the numbers
\* grow from what was notified, through the queue and the loop, to the events
\* channel; a channel belongs to the session that is running.
QueueOrder ==
  /\ InOrder(notified)
  /\ InOrder(important)
  /\ \A a \in Elements(notified), b \in Elements(important) : Before(a, b)
  /\ Ascending(events)

Upstream ==
  /\ inLoop <= accepted
  /\ \A n \in Elements(events) : inLoop < n /\ n <= accepted
  /\ \A item \in Elements(notified) \cup Elements(important) :
        item.kind = "sms" =>
          /\ item.id <= accepted
          /\ inLoop # 0 => item.id < inLoop
          /\ \A n \in Elements(events) : item.id < n

IndInv ==
  /\ TypeOK
  /\ LinkHeldInSession
  /\ NoFalseClosedAlert
  /\ QueueOrder
  /\ Upstream
  /\ (inLoop # 0) <=> (loop = "sms")
  /\ accepted + handlers <= MaxSms

\* The SMS accepted and neither passed to Notify nor lost.
SmsIds(s)   == {item.id : item \in {i \in Elements(s) : i.kind = "sms"}}
Pending     == Elements(events) \cup ({inLoop} \ {0}) \cup SmsIds(important)
NotifiedSms == SmsIds(notified)

\* A step gives up an accepted SMS only by closing the session whose events
\* channel still held it, or, after cancellation, at the sender's queue.
LossStep ==
  \A n \in Pending : n \notin Pending' =>
    \/ n \in NotifiedSms'
    \/ loop = "close" /\ n \in Elements(events)
    \/ loop = "sms" /\ cancelled
NoSilentLoss == [][LossStep]_vars

\* The data plane implements the promise of module SmsFeed.
Feed == INSTANCE SmsFeed WITH
          pending <- Pending, sent <- NotifiedSms, stopping <- cancelled
ImplementsFeed == Feed!Spec

\* After the context is cancelled the reconnect loop returns whatever Telegram
\* does, and Run gets to its deferred functions: no wait before them ignores ctx
\* for ever.  Run itself returns if bot.Close does, the last of them: a call to
\* Telegram that nothing can cancel.
ShutdownCompletes ==
  /\ cancelled ~> loop \in {"stopped", "exited"}
  /\ WF_vars(BotCloses) => (cancelled ~> loop = "exited")

\* If Notify returns, a dead link is always given up, so that the loop can open
\* another one, even when the sender's queue is full.
DeadLinkReleased == NotifierFairness => (link = "down" ~> link # "down")

\* Unless the process is told to stop, and if Notify returns, an accepted SMS is
\* passed to it or its session ends; raw lines and probe alerts cannot starve it.
SmsResolved ==
  NotifierFairness =>
    \A n \in 1..MaxSms : (n \in Pending) ~> (n \notin Pending \/ cancelled)

\* If Notify returns, every session that saw its connection close is reported.
ClosedReported ==
  NotifierFairness =>
    \A s \in 1..MaxSession :
      (loop = "alert" /\ session = s)
        ~> (ClosedItem(s) \in Elements(notified) \/ cancelled)
=============================================================================
