---------------------------- MODULE ControlProofs ----------------------------
(***************************************************************************)
(* Proofs about the control plane, for every set of handlers, every        *)
(* threshold and every number of commands and sessions.                    *)
(***************************************************************************)
EXTENDS Control, TLAPS

\* The watchdog is a client, and Nobody is none.
LEMMA ClientFacts ==
  /\ Watchdog \in Clients /\ Handlers \subseteq Clients /\ Watchdog \notin Handlers
  /\ Nobody \notin Clients
  /\ Threshold \in Nat \ {0}
  BY ControlAssumption DEF Clients

\* The session's steps leave the clients where they are, and never put a
\* command in flight on an AT object that is being set up.
LEMMA SessionKeepsIndInv ==
  ASSUME IndInv, Session
  PROVE  IndInv'
<1> USE DEF IndInv, SessionStep, watchdogVars
<1>1. /\ UNCHANGED <<cancelled, commandMu, pc, atModem, ok, remaining>>
      /\ UNCHANGED <<failures, alerted, silence, reported>>
  BY DEF Session, OpenSession, InitReturns, Set, ListenEnds, Clear, ClosePort, LoopReturns
<1>2. TypeOK'
  BY <1>1 DEF Session, OpenSession, InitReturns, Set, ListenEnds, Clear, ClosePort,
              LoopReturns, TypeOK, Phases
<1>3. Mutex' /\ Counted'
  BY <1>1 DEF Mutex, Counted
<1>4. ExecutorOffersOpenPort'
  BY DEF Session, OpenSession, InitReturns, Set, ListenEnds, Clear, ClosePort,
         LoopReturns, TypeOK, ExecutorOffersOpenPort
<1>5. link' # "none" <=> loop' \in {"init", "set", "ready", "clear", "close"}
  BY DEF Session, OpenSession, InitReturns, Set, ListenEnds, Clear, ClosePort, LoopReturns
<1>6. Published'
  <2> SUFFICES ASSUME NEW c \in Clients, pc[c] = "command"
               PROVE  /\ atModem[c] \in 1..session'
                      /\ atModem[c] = session' => loop' \notin {"init", "set"}
    BY <1>1 DEF Published
  <2>1. /\ session \in Nat /\ atModem[c] \in 1..session
        /\ atModem[c] = session => loop \notin {"init", "set"}
    BY DEF Published, TypeOK
  <2>2. \/ session' = session + 1
        \/ session' = session /\ (loop' \in {"init", "set"} => loop \in {"init", "set"})
    BY DEF Session, OpenSession, InitReturns, Set, ListenEnds, Clear, ClosePort, LoopReturns
  <2> QED BY <2>1, <2>2
<1> QED BY <1>1, <1>2, <1>3, <1>4, <1>5, <1>6

\* The environment's steps.
LEMMA EnvironmentKeepsIndInv ==
  ASSUME IndInv, Environment
  PROVE  IndInv'
<1> USE DEF IndInv, sessionVars, watchdogVars
<1>1. CASE Cancel
  BY <1>1 DEF Cancel, TypeOK, Mutex, ExecutorOffersOpenPort, Published, Counted
<1>2. CASE LinkDrops
  BY <1>2 DEF LinkDrops, TypeOK, Mutex, ExecutorOffersOpenPort, Published, Counted
<1> QED BY <1>1, <1>2 DEF Environment

\* A return from ExecuteAT unlocks commandMu and counts the probe.
LEMMA ReturnKeepsIndInv ==
  ASSUME IndInv, NEW c \in Clients, NEW success \in BOOLEAN,
         pc[c] \in Locked, Return(c, success)
  PROVE  IndInv'
<1> USE DEF IndInv, sessionVars
<1>1. /\ commandMu = c /\ commandMu' = Nobody
      /\ pc' = [pc EXCEPT ![c] = "returned"]
      /\ UNCHANGED <<cancelled, loop, session, link, executor, remaining, failures, alerted>>
      /\ atModem' = [atModem EXCEPT ![c] = 0] /\ ok' = [ok EXCEPT ![c] = success]
  BY DEF Return, Goto, Mutex
<1>2. TypeOK'
  BY <1>1, ClientFacts DEF Return, TypeOK, ClientPC
<1>3. Mutex'
  BY <1>1, ClientFacts DEF Mutex, TypeOK, Locked
<1>4. ExecutorOffersOpenPort' /\ Published'
  BY <1>1 DEF ExecutorOffersOpenPort, Published, TypeOK
<1>5. Counted' /\ reported' <= 1
  <2>1. CASE c # Watchdog
    BY <2>1, <1>1, ClientFacts DEF Return, Counted, TypeOK
  <2>2. CASE c = Watchdog
    BY <2>2, <1>1, ClientFacts DEF Return, Counted, TypeOK, Locked
  <2> QED BY <2>1, <2>2
<1> QED BY <1>1, <1>2, <1>3, <1>4, <1>5

\* The steps of ExecuteAT.
LEMMA ExecuteKeepsIndInv ==
  ASSUME IndInv, NEW c \in Clients, ExecuteAT(c)
  PROVE  IndInv'
<1> USE DEF IndInv, sessionVars, watchdogVars
<1>1. CASE Lock(c)
  <2>1. TypeOK' /\ ExecutorOffersOpenPort' /\ Published'
    BY <1>1 DEF Lock, Goto, TypeOK, ClientPC, ExecutorOffersOpenPort, Published
  <2>2. Mutex'
    BY <1>1, ClientFacts DEF Lock, Goto, TypeOK, Mutex, Locked
  <2>3. Counted'
    BY <1>1, ClientFacts DEF Lock, Goto, TypeOK, Counted
  <2> QED BY <1>1, <2>1, <2>2, <2>3 DEF Lock
<1>2. CASE CheckContext(c)
  <2>1. CASE Return(c, FALSE)
    BY <2>1, <1>2, ReturnKeepsIndInv DEF CheckContext, Locked
  <2>2. CASE Goto(c, "read") /\ UNCHANGED <<cancelled, sessionVars, commandMu, atModem, ok,
                                            remaining, watchdogVars>>
    <3>1. TypeOK' /\ ExecutorOffersOpenPort' /\ Published'
      BY <2>2 DEF Goto, TypeOK, ClientPC, ExecutorOffersOpenPort, Published
    <3>2. Mutex'
      BY <1>2, <2>2 DEF CheckContext, Goto, TypeOK, Mutex, Locked
    <3>3. Counted'
      BY <1>2, <2>2, ClientFacts DEF CheckContext, Goto, TypeOK, Counted
    <3> QED BY <2>2, <3>1, <3>2, <3>3
  <2> QED BY <1>2, <2>1, <2>2 DEF CheckContext
<1>3. CASE ReadModem(c)
  <2>1. CASE Return(c, FALSE)
    BY <2>1, <1>3, ReturnKeepsIndInv DEF ReadModem, Locked
  <2>2. CASE /\ executor # 0
             /\ atModem' = [atModem EXCEPT ![c] = executor]
             /\ Goto(c, "command")
             /\ UNCHANGED <<cancelled, sessionVars, commandMu, ok, remaining, watchdogVars>>
    <3>1. TypeOK' /\ ExecutorOffersOpenPort'
      BY <2>2 DEF Goto, TypeOK, ClientPC, ExecutorOffersOpenPort
    <3>2. Published'
      BY <2>2 DEF Goto, TypeOK, ExecutorOffersOpenPort, Published
    <3>3. Mutex'
      BY <1>3, <2>2 DEF ReadModem, Goto, TypeOK, Mutex, Locked
    <3>4. Counted'
      BY <1>3, <2>2, ClientFacts DEF ReadModem, Goto, TypeOK, Counted
    <3> QED BY <2>2, <3>1, <3>2, <3>3, <3>4
  <2> QED BY <1>3, <2>1, <2>2 DEF ReadModem
<1>4. CASE CommandReturns(c)
  <2>1. \E success \in BOOLEAN : Return(c, success)
    BY <1>4 DEF CommandReturns
  <2> QED BY <1>4, <2>1, ReturnKeepsIndInv DEF CommandReturns, Locked
<1> QED BY <1>1, <1>2, <1>3, <1>4 DEF ExecuteAT

\* The handlers' own steps, outside ExecuteAT.
LEMMA HandlerKeepsIndInv ==
  ASSUME IndInv, NEW h \in Handlers, HandleAction(h) \/ NextCommand(h)
  PROVE  IndInv'
<1> USE DEF IndInv, sessionVars, watchdogVars, ClientStep
<1>1. PICK label \in {"idle", "lock"} : pc' = [pc EXCEPT ![h] = label]
  BY DEF HandleAction, NextCommand, Goto
<1>2. /\ pc[h] \in {"idle", "returned"} /\ h \in Clients /\ h # Watchdog
      /\ UNCHANGED <<cancelled, loop, session, link, executor, commandMu, atModem, ok>>
      /\ UNCHANGED <<failures, alerted, silence, reported>>
  BY ClientFacts DEF HandleAction, NextCommand
<1>3. remaining' \in [Handlers -> Nat]
  <2>1. CASE HandleAction(h)
    BY <2>1, ControlAssumption DEF HandleAction, TypeOK
  <2>2. CASE NextCommand(h)
    BY <2>2 DEF NextCommand, TypeOK
  <2> QED BY <2>1, <2>2
<1>4. TypeOK'
  BY <1>1, <1>2, <1>3 DEF TypeOK, ClientPC
<1>5. Mutex' /\ Published' /\ ExecutorOffersOpenPort'
  BY <1>1, <1>2 DEF TypeOK, Mutex, Locked, Published, ExecutorOffersOpenPort
<1>6. Counted'
  BY <1>1, <1>2, ClientFacts DEF TypeOK, Counted
<1> QED BY <1>2, <1>4, <1>5, <1>6

\* The watchdog's own steps, outside ExecuteAT.
LEMMA WatchdogKeepsIndInv ==
  ASSUME IndInv, Tick \/ WatchdogStops \/ ProbeAnswered \/ ProbeFailed \/ EnqueueAlert
  PROVE  IndInv'
<1> USE DEF IndInv, sessionVars, watchdogVars, ClientStep
<1>1. PICK label \in {"idle", "lock", "alert", "stopped"} :
        pc' = [pc EXCEPT ![Watchdog] = label]
  BY DEF Tick, WatchdogStops, ProbeAnswered, ProbeFailed, EnqueueAlert, Goto
<1>2. /\ pc[Watchdog] \in {"idle", "returned", "alert"}
      /\ UNCHANGED <<cancelled, loop, session, link, executor, commandMu, atModem, ok,
                     remaining, silence>>
  BY DEF Tick, WatchdogStops, ProbeAnswered, ProbeFailed, EnqueueAlert
<1>3. Mutex' /\ Published' /\ ExecutorOffersOpenPort'
  BY <1>1, <1>2, ClientFacts DEF TypeOK, Mutex, Locked, Published, ExecutorOffersOpenPort
<1>4. /\ failures' \in 0..Threshold /\ alerted' \in BOOLEAN
      /\ reported' \in Nat /\ reported' <= 1 /\ Counted'
      /\ alerted' => failures' = Threshold
  <2>1. CASE Tick
    BY <2>1, ClientFacts DEF Tick, Goto, TypeOK, Counted
  <2>2. CASE WatchdogStops
    BY <2>2, ClientFacts DEF WatchdogStops, Goto, TypeOK, Counted
  <2>3. CASE ProbeAnswered
    <3>1. /\ pc[Watchdog] = "returned" /\ ok[Watchdog] /\ pc'[Watchdog] = "idle"
          /\ failures' = 0 /\ alerted' = FALSE /\ UNCHANGED <<silence, reported>>
      BY <2>3, ClientFacts DEF ProbeAnswered, Goto, TypeOK
    <3>2. silence = 0 /\ reported = 0 /\ 0 # Threshold /\ 0 \in 0..Threshold
      BY <3>1, ClientFacts DEF Counted
    <3>3. Counted'
      BY <3>1, <3>2 DEF Counted
    <3>4. reported' \in Nat /\ reported' <= 1 /\ ~alerted' /\ alerted' \in BOOLEAN
      BY <3>1, <3>2
    <3> QED BY <3>1, <3>2, <3>3, <3>4
  <2>4. CASE ProbeFailed
    <3>1. /\ pc[Watchdog] = "returned" /\ ~ok[Watchdog] /\ UNCHANGED <<silence, reported>>
          /\ failures' = IF failures < Threshold THEN failures + 1 ELSE failures
          /\ failures \in 0..Threshold /\ Threshold \in Nat \ {0}
          /\ silence = failures' /\ (reported > 0 => alerted)
          /\ reported \in Nat /\ reported <= 1 /\ alerted \in BOOLEAN
      BY <2>4, ClientFacts DEF ProbeFailed, TypeOK, Counted
    <3>2. CASE failures' < Threshold \/ alerted
      <4>1. alerted' = alerted /\ pc'[Watchdog] = "idle"
        BY <2>4, <3>2, ClientFacts DEF ProbeFailed, Goto, TypeOK
      <4>2. alerted <=> failures' = Threshold
        BY <3>1, <3>2
      <4> QED BY <3>1, <4>1, <4>2 DEF Counted
    <3>3. CASE ~(failures' < Threshold \/ alerted)
      <4>1. alerted' = TRUE /\ pc'[Watchdog] = "alert"
        BY <2>4, <3>3, ClientFacts DEF ProbeFailed, Goto, TypeOK
      <4>2. failures' = Threshold /\ reported = 0
        BY <3>1, <3>3
      <4> QED BY <3>1, <4>1, <4>2 DEF Counted
    <3> QED BY <3>2, <3>3
  <2>5. CASE EnqueueAlert
    <3>1. /\ pc[Watchdog] = "alert" /\ pc'[Watchdog] = "idle"
          /\ UNCHANGED <<failures, alerted, silence>>
          /\ reported' = reported + 1 \/ reported' = reported
      BY <2>5, ClientFacts DEF EnqueueAlert, Goto, TypeOK
    <3>2. /\ silence = failures /\ alerted /\ reported = 0
          /\ (alerted <=> failures = Threshold)
          /\ failures \in 0..Threshold
      BY <3>1 DEF Counted, TypeOK
    <3> QED BY <3>1, <3>2 DEF Counted, TypeOK
  <2> QED BY <2>1, <2>2, <2>3, <2>4, <2>5
<1>5. TypeOK'
  BY <1>1, <1>2, <1>4 DEF TypeOK, ClientPC
<1> QED BY <1>2, <1>3, <1>4, <1>5

\* Init establishes the invariant and every step keeps it.
THEOREM ControlInvariant == Spec => []IndInv
<1>1. Init => IndInv
  <2> SUFFICES ASSUME Init PROVE IndInv
    OBVIOUS
  <2>1. TypeOK
    <3>1. /\ pc \in [Clients -> ClientPC] /\ atModem \in [Clients -> Nat]
          /\ ok \in [Clients -> BOOLEAN] /\ remaining \in [Handlers -> Nat]
      BY DEF Init, ClientPC
    <3>2. commandMu \in Clients \cup {Nobody} /\ 0 \in 0..Threshold
      BY ClientFacts DEF Init
    <3> QED BY <3>1, <3>2 DEF Init, TypeOK, Phases
  <2>2. Mutex /\ ExecutorOffersOpenPort /\ Published
    BY ClientFacts DEF Init, Mutex, Locked, ExecutorOffersOpenPort, Published
  <2>3. Counted /\ reported <= 1 /\ (alerted => failures = Threshold)
    BY ClientFacts DEF Init, Counted
  <2>4. link # "none" <=> loop \in {"init", "set", "ready", "clear", "close"}
    BY DEF Init
  <2> QED BY <2>1, <2>2, <2>3, <2>4 DEF IndInv
<1>2. IndInv /\ [Next]_vars => IndInv'
  <2> SUFFICES ASSUME IndInv, [Next]_vars PROVE IndInv'
    OBVIOUS
  <2>1. CASE Environment
    BY <2>1, EnvironmentKeepsIndInv
  <2>2. CASE Session
    BY <2>2, SessionKeepsIndInv
  <2>3. CASE Probing
    BY <2>3, ClientFacts, ExecuteKeepsIndInv, WatchdogKeepsIndInv DEF Probing
  <2>4. ASSUME NEW h \in Handlers, Handler(h) PROVE IndInv'
    BY <2>4, ClientFacts, ExecuteKeepsIndInv, HandlerKeepsIndInv DEF Handler
  <2>5. CASE UNCHANGED vars
    BY <2>5 DEF vars, IndInv, TypeOK, Mutex, ExecutorOffersOpenPort, Published, Counted
  <2> QED BY <2>1, <2>2, <2>3, <2>4, <2>5 DEF Next
<1> QED BY <1>1, <1>2, PTL DEF Spec

\* Every client is at a place of ExecuteAT, with an AT object of some session, and
\* the watchdog's counter stays within its threshold.
THEOREM ControlTypes == Spec => []TypeOK
<1>1. IndInv => TypeOK
  BY DEF IndInv
<1> QED BY <1>1, ControlInvariant, PTL

\* No two clients are inside AT.Command at the same time.
THEOREM CommandsExclusive == Spec => []OneCommandAtATime
<1>1. IndInv => OneCommandAtATime
  BY DEF IndInv, Mutex, Locked, OneCommandAtATime
<1> QED BY <1>1, ControlInvariant, PTL

\* modem.Init has the modem to itself, although it does not take commandMu.
THEOREM InitUndisturbed == Spec => []NoCommandDuringInit
<1>1. IndInv => NoCommandDuringInit
  BY DEF IndInv, Published, NoCommandDuringInit
<1> QED BY <1>1, ControlInvariant, PTL

\* The executor's AT object always belongs to an open port.
THEOREM OfferedPortOpen == Spec => []ExecutorOffersOpenPort
<1>1. IndInv => ExecutorOffersOpenPort
  BY DEF IndInv
<1> QED BY <1>1, ControlInvariant, PTL

\* An alert follows Threshold failed probes, and only once per outage.
THEOREM AlertsAreJustified == Spec => []AlertsJustified
<1>1. IndInv => AlertsJustified
  <2> SUFFICES ASSUME IndInv, reported > 0
               PROVE  reported = 1 /\ silence = Threshold
    BY DEF AlertsJustified
  <2>1. reported = 1
    BY DEF IndInv, TypeOK
  <2>2. silence = Threshold
    BY ClientFacts DEF IndInv, TypeOK, Counted
  <2> QED BY <2>1, <2>2
<1> QED BY <1>1, ControlInvariant, PTL
=============================================================================
