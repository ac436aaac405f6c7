------------------------------- MODULE Control -------------------------------
(***************************************************************************)
(* The control plane of atmsgfwd: who may run an AT command on which       *)
(* modem, and when the watchdog raises an alert.                           *)
(*                                                                         *)
(*   Telegram handlers --ExecuteAT--> reconnectableExecutor --> AT object  *)
(*   watchdog          --ExecuteAT-->        ^                             *)
(*                     --EnqueueWatchdog     |Set, Clear                   *)
(*                                    modem sessions                       *)
(*                                                                         *)
(* The sessions come and go under the clients: a client reads e.modem      *)
(* under stateMu and runs its command after the unlock, on an AT object    *)
(* whose port may be closed meanwhile.  An AT object is identified by the  *)
(* number of its session.  A step is one lock, one read or write of shared *)
(* state, or one return.                                                   *)
(***************************************************************************)
EXTENDS Naturals, FiniteSets

CONSTANTS
  Handlers,    \* goroutines that serve Telegram updates
  Watchdog,    \* the goroutine of runSerialWatchdog
  Threshold,   \* serialWatchdogThreshold
  InitModem,   \* cfg.InitModem
  MaxCommands, \* bound: AT commands of one Telegram action
  MaxSession,  \* bound: sessions opened
  Nobody       \* no client

Clients == Handlers \cup {Watchdog}

ASSUME ControlAssumption ==
  /\ Watchdog \notin Handlers
  /\ Nobody \notin Clients
  /\ Threshold \in Nat \ {0}
  /\ InitModem \in BOOLEAN
  /\ MaxCommands \in Nat
  /\ MaxSession \in Nat

VARIABLES
  cancelled,  \* ctx.Err() # nil
  loop,       \* where the session goroutine is
  session,    \* number of sessions opened so far
  link,       \* "none"; "up"; "down": AT.Closed() fired, port still held
  executor,   \* e.modem: the session of the AT object, or 0 for nil
  commandMu,  \* the client that holds e.commandMu, or Nobody
  pc,         \* where each client is
  atModem,    \* ExecuteAT's local copy of e.modem, per client
  ok,         \* per client: its last ExecuteAT returned no error
  remaining,  \* per handler: commands of its action still to run
  failures,   \* the watchdog's counter, saturated at Threshold
  alerted,    \* the watchdog's flag
  silence,    \* history: probes failed in a row, saturated at Threshold
  reported    \* history: alerts enqueued since the last answered probe

vars == <<cancelled, loop, session, link, executor, commandMu, pc, atModem, ok,
          remaining, failures, alerted, silence, reported>>
sessionVars  == <<loop, session, link, executor>>
watchdogVars == <<failures, alerted, silence, reported>>

Phases   == {"idle", "init", "set", "ready", "clear", "close", "stopped"}
ClientPC == {"idle", "lock", "check", "read", "command", "returned", "alert", "stopped"}
Locked   == {"check", "read", "command"}

Init ==
  /\ cancelled = FALSE
  /\ loop = "idle"
  /\ session = 0
  /\ link = "none"
  /\ executor = 0
  /\ commandMu = Nobody
  /\ pc = [c \in Clients |-> "idle"]
  /\ atModem = [c \in Clients |-> 0]
  /\ ok = [c \in Clients |-> FALSE]
  /\ remaining = [h \in Handlers |-> 0]
  /\ failures = 0
  /\ alerted = FALSE
  /\ silence = 0
  /\ reported = 0

-----------------------------------------------------------------------------
(* The environment.                                                        *)

Cancel ==
  /\ ~cancelled
  /\ cancelled' = TRUE
  /\ UNCHANGED <<sessionVars, commandMu, pc, atModem, ok, remaining, watchdogVars>>

LinkDrops ==
  /\ link = "up"
  /\ link' = "down"
  /\ UNCHANGED <<cancelled, loop, session, executor, commandMu, pc, atModem, ok,
                 remaining, watchdogVars>>

-----------------------------------------------------------------------------
(* The modem sessions: runOpenedModemSession between an Open and a Close.  *)
(* A failed Open changes nothing here.                                     *)

SessionStep ==
  UNCHANGED <<cancelled, commandMu, pc, atModem, ok, remaining, watchdogVars>>

\* Mutation: the AT object is published before it is initialised.
OpenAndSet ==
  /\ loop = "idle"
  /\ session < MaxSession
  /\ session' = session + 1
  /\ link' = "up"
  /\ loop' = IF InitModem THEN "init" ELSE "set"
  /\ executor' = session + 1
  /\ SessionStep

OpenSession ==
  /\ loop = "idle"
  /\ session < MaxSession
  /\ session' = session + 1
  /\ link' = "up"
  /\ loop' = IF InitModem THEN "init" ELSE "set"
  /\ UNCHANGED executor
  /\ SessionStep

\* modem.Init runs its commands on the new AT object without commandMu.
InitReturns ==
  /\ loop = "init"
  /\ loop' \in {"set", "clear"}
  /\ UNCHANGED <<session, link, executor>>
  /\ SessionStep

Set ==
  /\ loop = "set"
  /\ executor' = session
  /\ loop' = "ready"
  /\ UNCHANGED <<session, link>>
  /\ SessionStep

\* The select loop ends: ctx is done, or the AT object is closed.
ListenEnds ==
  /\ loop = "ready"
  /\ cancelled \/ link = "down"
  /\ loop' = "clear"
  /\ UNCHANGED <<session, link, executor>>
  /\ SessionStep

\* Mutation: the executor keeps the AT object of the session that ended.
ClearNothing ==
  /\ loop = "clear"
  /\ loop' = "close"
  /\ UNCHANGED <<session, link, executor>>
  /\ SessionStep

\* Clear only forgets the session's own AT object.
Clear ==
  /\ loop = "clear"
  /\ executor' = IF executor = session THEN 0 ELSE executor
  /\ loop' = "close"
  /\ UNCHANGED <<session, link>>
  /\ SessionStep

ClosePort ==
  /\ loop = "close"
  /\ link' = "none"
  /\ loop' = "idle"
  /\ UNCHANGED <<session, executor>>
  /\ SessionStep

LoopReturns ==
  /\ loop = "idle"
  /\ cancelled
  /\ loop' = "stopped"
  /\ UNCHANGED <<session, link, executor>>
  /\ SessionStep

-----------------------------------------------------------------------------
(* reconnectableExecutor.ExecuteAT, run by client c.                       *)

Goto(c, label) == pc' = [pc EXCEPT ![c] = label]

Lock(c) ==
  /\ pc[c] = "lock"
  /\ commandMu = Nobody
  /\ commandMu' = c
  /\ Goto(c, "check")
  /\ UNCHANGED <<cancelled, sessionVars, atModem, ok, remaining, watchdogVars>>

\* Mutation: an error path leaves commandMu locked.
ReturnLocked(c, success) ==
  /\ commandMu' = IF success THEN Nobody ELSE commandMu
  /\ Goto(c, "returned")
  /\ atModem' = [atModem EXCEPT ![c] = 0]
  /\ ok' = [ok EXCEPT ![c] = success]
  /\ IF c # Watchdog THEN UNCHANGED <<silence, reported>>
     ELSE IF success THEN silence' = 0 /\ reported' = 0
     ELSE /\ silence' = IF silence < Threshold THEN silence + 1 ELSE silence
          /\ UNCHANGED reported
  /\ UNCHANGED <<cancelled, sessionVars, remaining, failures, alerted>>

\* ExecuteAT returns and unlocks.  The histories note what a probe met.
Return(c, success) ==
  /\ commandMu' = Nobody
  /\ Goto(c, "returned")
  /\ atModem' = [atModem EXCEPT ![c] = 0]
  /\ ok' = [ok EXCEPT ![c] = success]
  /\ IF c # Watchdog THEN UNCHANGED <<silence, reported>>
     ELSE IF success THEN silence' = 0 /\ reported' = 0
     ELSE /\ silence' = IF silence < Threshold THEN silence + 1 ELSE silence
          /\ UNCHANGED reported
  /\ UNCHANGED <<cancelled, sessionVars, remaining, failures, alerted>>

CheckContext(c) ==
  /\ pc[c] = "check"
  /\ \/ /\ cancelled
        /\ Return(c, FALSE)
     \/ /\ ~cancelled
        /\ Goto(c, "read")
        /\ UNCHANGED <<cancelled, sessionVars, commandMu, atModem, ok, remaining,
                       watchdogVars>>

\* Mutation: commandMu covers the read of e.modem only.
ReadModemAndUnlock(c) ==
  /\ pc[c] = "read"
  /\ \/ /\ executor = 0
        /\ Return(c, FALSE)
     \/ /\ executor # 0
        /\ atModem' = [atModem EXCEPT ![c] = executor]
        /\ Goto(c, "command")
        /\ commandMu' = Nobody
        /\ UNCHANGED <<cancelled, sessionVars, ok, remaining, watchdogVars>>

ReadModem(c) ==
  /\ pc[c] = "read"
  /\ \/ /\ executor = 0
        /\ Return(c, FALSE)
     \/ /\ executor # 0
        /\ atModem' = [atModem EXCEPT ![c] = executor]
        /\ Goto(c, "command")
        /\ UNCHANGED <<cancelled, sessionVars, commandMu, ok, remaining, watchdogVars>>

\* AT.Command: an answer needs the link of that very AT object; an ERROR, the
\* 5 s timeout or ErrClosed may come at any time.
CommandReturns(c) ==
  /\ pc[c] = "command"
  /\ \/ atModem[c] = session /\ link = "up" /\ Return(c, TRUE)
     \/ Return(c, FALSE)

ExecuteAT(c) == Lock(c) \/ CheckContext(c) \/ ReadModem(c) \/ CommandReturns(c)

-----------------------------------------------------------------------------
(* Telegram: handleAction and runCommands.                                 *)

ClientStep == UNCHANGED <<cancelled, sessionVars, commandMu, atModem, ok>>

HandleAction(h) ==
  /\ pc[h] = "idle"
  /\ \E n \in 1..MaxCommands : remaining' = [remaining EXCEPT ![h] = n]
  /\ Goto(h, "lock")
  /\ ClientStep
  /\ UNCHANGED watchdogVars

\* The next command, unless the last one failed or ctx is done; then the
\* reply with the results so far.
NextCommand(h) ==
  /\ pc[h] = "returned"
  /\ IF remaining[h] > 1 /\ ok[h] /\ ~cancelled
       THEN /\ remaining' = [remaining EXCEPT ![h] = @ - 1]
            /\ Goto(h, "lock")
       ELSE /\ remaining' = [remaining EXCEPT ![h] = 0]
            /\ Goto(h, "idle")
  /\ ClientStep
  /\ UNCHANGED watchdogVars

-----------------------------------------------------------------------------
(* runSerialWatchdog.                                                      *)

Tick ==
  /\ pc[Watchdog] = "idle"
  /\ Goto(Watchdog, "lock")
  /\ ClientStep
  /\ UNCHANGED <<remaining, watchdogVars>>

WatchdogStops ==
  /\ pc[Watchdog] = "idle"
  /\ cancelled
  /\ Goto(Watchdog, "stopped")
  /\ ClientStep
  /\ UNCHANGED <<remaining, watchdogVars>>

\* Mutations: an answer does not reset the counter; or not the flag.
AnswerKeepsFailures ==
  /\ pc[Watchdog] = "returned"
  /\ ok[Watchdog]
  /\ alerted' = FALSE
  /\ Goto(Watchdog, "idle")
  /\ ClientStep
  /\ UNCHANGED <<remaining, failures, silence, reported>>

AnswerKeepsAlerted ==
  /\ pc[Watchdog] = "returned"
  /\ ok[Watchdog]
  /\ failures' = 0
  /\ Goto(Watchdog, "idle")
  /\ ClientStep
  /\ UNCHANGED <<remaining, alerted, silence, reported>>

ProbeAnswered ==
  /\ pc[Watchdog] = "returned"
  /\ ok[Watchdog]
  /\ failures' = 0
  /\ alerted' = FALSE
  /\ Goto(Watchdog, "idle")
  /\ ClientStep
  /\ UNCHANGED <<remaining, silence, reported>>

ProbeFailed ==
  /\ pc[Watchdog] = "returned"
  /\ ~ok[Watchdog]
  /\ failures' = IF failures < Threshold THEN failures + 1 ELSE failures
  /\ IF failures' < Threshold \/ alerted
       THEN UNCHANGED alerted /\ Goto(Watchdog, "idle")
       ELSE alerted' = TRUE /\ Goto(Watchdog, "alert")
  /\ ClientStep
  /\ UNCHANGED <<remaining, silence, reported>>

\* EnqueueWatchdog: module Pipeline has the queue and its blocking.
EnqueueAlert ==
  /\ pc[Watchdog] = "alert"
  /\ \/ reported' = reported + 1
     \/ cancelled /\ UNCHANGED reported
  /\ Goto(Watchdog, "idle")
  /\ ClientStep
  /\ UNCHANGED <<remaining, failures, alerted, silence>>

-----------------------------------------------------------------------------
Environment == Cancel \/ LinkDrops
Session     == \/ OpenSession \/ InitReturns \/ Set \/ ListenEnds \/ Clear
               \/ ClosePort \/ LoopReturns
Handler(h)  == HandleAction(h) \/ NextCommand(h) \/ ExecuteAT(h)
Probing     == \/ Tick \/ WatchdogStops \/ ProbeAnswered \/ ProbeFailed
               \/ EnqueueAlert \/ ExecuteAT(Watchdog)

Next == Environment \/ Session \/ Probing \/ \E h \in Handlers : Handler(h)

Spec == Init /\ [][Next]_vars
(***************************************************************************)
(* Fairness.  Every goroutine runs, the ticker ticks, AT.Command returns   *)
(* within its timeout, and sync.Mutex in its starvation mode is FIFO.  A   *)
(* select whose ctx is done takes that branch sooner or later.  Users owe  *)
(* no action, and the modem owes no answer.                                *)
(***************************************************************************)
Fairness ==
  /\ WF_vars(Session)
  /\ WF_vars(Probing)
  /\ SF_vars(Lock(Watchdog))
  /\ SF_vars(WatchdogStops)
  /\ \A h \in Handlers :
       /\ SF_vars(Lock(h))
       /\ WF_vars(NextCommand(h) \/ ExecuteAT(h))

FairSpec == Spec /\ Fairness

-----------------------------------------------------------------------------
(* Properties.                                                             *)

\* Every variable has its type.
TypeOK ==
  /\ cancelled \in BOOLEAN
  /\ loop \in Phases
  /\ session \in Nat
  /\ link \in {"none", "up", "down"}
  /\ executor \in Nat
  /\ commandMu \in Clients \cup {Nobody}
  /\ pc \in [Clients -> ClientPC]
  /\ atModem \in [Clients -> Nat]
  /\ ok \in [Clients -> BOOLEAN]
  /\ remaining \in [Handlers -> Nat]
  /\ failures \in 0..Threshold
  /\ alerted \in BOOLEAN
  /\ silence \in 0..Threshold
  /\ reported \in Nat

\* At most one client runs a command, whatever the number of AT objects that
\* sessions have left behind in ExecuteAT.
OneCommandAtATime ==
  \A c, d \in Clients : (pc[c] = "command" /\ pc[d] = "command") => c = d

\* No client talks to a modem that modem.Init is still setting up.
NoCommandDuringInit ==
  \A c \in Clients : pc[c] = "command" /\ atModem[c] = session => loop # "init"

\* The executor never offers an AT object whose port has been closed: a
\* client that starts after a session's end gets errSerialNotConnected, and
\* does not wait for a timeout on the dead link.
ExecutorOffersOpenPort ==
  executor # 0 => executor = session /\ link # "none" /\ loop \in {"ready", "clear"}

\* The watchdog alerts after Threshold probes failed in a row, and once per
\* outage.
AlertsJustified == reported > 0 => reported = 1 /\ silence = Threshold

\* The strengthening that makes these inductive.
Mutex == \A c \in Clients : pc[c] \in Locked <=> commandMu = c

\* A client in AT.Command holds an AT object that Set has published.
Published ==
  \A c \in Clients : pc[c] = "command" =>
    /\ atModem[c] \in 1..session
    /\ atModem[c] = session => loop \notin {"init", "set"}

\* The watchdog's variables against the history of its probes.
Counted ==
  IF pc[Watchdog] = "returned"
    THEN IF ok[Watchdog] THEN silence = 0 /\ reported = 0
         ELSE /\ silence = IF failures < Threshold THEN failures + 1 ELSE failures
              /\ reported > 0 => alerted
    ELSE /\ silence = failures
         /\ alerted <=> failures = Threshold
         /\ reported > 0 => alerted
         /\ pc[Watchdog] = "alert" => alerted /\ reported = 0

IndInv ==
  /\ TypeOK
  /\ Mutex
  /\ ExecutorOffersOpenPort
  /\ Published
  /\ Counted
  /\ reported <= 1
  /\ alerted => failures = Threshold
  /\ link # "none" <=> loop \in {"init", "set", "ready", "clear", "close"}

\* Whoever asks for an action gets a reply, though the watchdog and other
\* handlers compete for commandMu and the modem may never answer.
ActionAnswered == \A h \in Handlers : pc[h] = "lock" ~> pc[h] = "idle"

\* Every outage is reported, not only the first one.
OutageReported ==
  silence = Threshold ~> (reported = 1 \/ silence < Threshold \/ cancelled)
=============================================================================
