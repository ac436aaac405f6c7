------------------------------- MODULE Startup -------------------------------
(***************************************************************************)
(* How long the modem stays away: the reconnect loop with the inside of a  *)
(* session's setup, on a clock.  Open, the commands of modem.Init and the  *)
(* retries of waitForCPINReady take time; each step advances the clock by  *)
(* its duration, and a cancellation falls before it.  An outage ends at    *)
(* readyAt: a step that begins earlier may fail, a later one succeeds.     *)
(***************************************************************************)
EXTENDS Reconnect

CONSTANTS
  InitModem,       \* cfg.InitModem
  TimeoutOption,   \* cfg.SIMReadyTimeoutSeconds; 0 or less stands for the default
  TimeoutDefault,  \* cpinReadyTimeout
  RetryDelay,      \* cpinRetryDelay
  OpenTimes,       \* what a call of Open may take
  CommandTimes,    \* what a command may take, answered or timed out
  Outages          \* what an outage may last

SimTimeout == IF TimeoutOption <= 0 THEN TimeoutDefault ELSE TimeoutOption

\* The longest of a set of durations.
Longest(S) == CHOOSE d \in S : \A e \in S : e <= d
O == Longest(OpenTimes)
C == Longest(CommandTimes)

ASSUME StartupAssumption ==
  /\ InitModem \in BOOLEAN
  /\ TimeoutOption \in Int /\ TimeoutDefault \in Nat \ {0}
  /\ RetryDelay \in 0..MaxBackoff
  /\ OpenTimes \subseteq Nat /\ \E d \in OpenTimes : \A e \in OpenTimes : e <= d
  /\ CommandTimes \subseteq Nat /\ \E d \in CommandTimes : \A e \in CommandTimes : e <= d
  /\ Outages \subseteq Nat

\* modem.Init sends six commands; the third is +CPIN?.
Cpin == 3
Last == 6

VARIABLES
  place,       \* inside a session: "open", "command", "sleep", "gaveUp", "listen"
  step,        \* the next command of modem.Init
  deadline,    \* waitForCPINReady's
  now,         \* the time since the outage began
  readyAt,     \* the end of the outage
  sinceCancel  \* the time since the cancellation

setup == <<place, step, deadline>>
clock == <<now, readyAt, sinceCancel>>
setupVars == <<vars, setup, clock>>

SetupInit ==
  /\ Init
  /\ place = "none" /\ step = 1 /\ deadline = 0
  /\ now = 0 /\ readyAt \in Outages /\ sinceCancel = 0

Elapse(d) ==
  /\ now' = now + d
  /\ sinceCancel' = IF cancelled THEN sinceCancel + d ELSE 0
  /\ UNCHANGED readyAt

\* The session returns an error of the kind e.
EndSession(e) == RunSession /\ err' = e /\ place' = "none" /\ UNCHANGED <<step, deadline>>

\* A step that began within the outage may end the session.
Fails == now < readyAt /\ EndSession("failed")

SetupCancel == Cancel /\ UNCHANGED <<setup, clock>>

SetupCheck ==
  /\ Check
  /\ place' = IF cancelled THEN "none" ELSE "open"
  /\ UNCHANGED <<step, deadline, clock>>

Open ==
  /\ place = "open"
  /\ \E d \in OpenTimes : Elapse(d)
  /\ \/ Fails
     \/ /\ place' = IF InitModem THEN "command" ELSE "listen"
        /\ step' = 1
        /\ UNCHANGED <<vars, deadline>>

\* A command has been answered as modem.Init wants it; before +CPIN? the deadline
\* of its retries is set.
Answered ==
  /\ IF step < Last THEN step' = step + 1 /\ UNCHANGED place
     ELSE step' = 1 /\ place' = "listen"
  /\ deadline' = IF step' = Cpin THEN now' + SimTimeout ELSE deadline
  /\ UNCHANGED vars

Command ==
  /\ place = "command" /\ step # Cpin
  /\ \E d \in CommandTimes : Elapse(d)
  /\ Answered \/ Fails

\* Mutation: no retries.
CpinOnce ==
  /\ place = "command" /\ step = Cpin
  /\ \E d \in CommandTimes : Elapse(d)
  /\ \/ Answered
     \/ Fails
     \/ /\ now < readyAt
        /\ place' = "gaveUp"
        /\ UNCHANGED <<vars, step, deadline>>

\* Mutation: every error sets the deadline anew.
CpinRearming ==
  /\ place = "command" /\ step = Cpin
  /\ \E d \in CommandTimes : Elapse(d)
  /\ \/ Answered
     \/ Fails
     \/ /\ now < readyAt
        /\ place' = IF now' + RetryDelay > deadline THEN "gaveUp" ELSE "sleep"
        /\ deadline' = now' + SimTimeout
        /\ UNCHANGED <<vars, step>>

\* waitForCPINReady: any status but READY ends the session at once, an error is
\* retried while the next try begins before the deadline.
CpinCommand ==
  /\ place = "command" /\ step = Cpin
  /\ \E d \in CommandTimes : Elapse(d)
  /\ \/ Answered
     \/ Fails
     \/ /\ now < readyAt
        /\ place' = IF now' + RetryDelay > deadline THEN "gaveUp" ELSE "sleep"
        /\ UNCHANGED <<vars, step, deadline>>

\* time.Sleep does not look at the context.
Sleep ==
  /\ place = "sleep"
  /\ Elapse(RetryDelay)
  /\ place' = "command"
  /\ UNCHANGED <<vars, step, deadline>>

GiveUp ==
  /\ place = "gaveUp"
  /\ EndSession("failed")
  /\ UNCHANGED clock

\* The session's select: a cancelled context, or the end of the link, which
\* begins the next outage.
Listen ==
  /\ place = "listen"
  /\ \/ cancelled /\ EndSession("nil") /\ UNCHANGED clock
     \/ EndSession("closed") /\ now' = 0 /\ readyAt' \in Outages /\ UNCHANGED sinceCancel

SetupJudge == Judge /\ UNCHANGED <<setup, clock>>

\* The backoff passes, unless the context is done.
SetupWait ==
  /\ Wait
  /\ Elapse(IF cancelled THEN 0 ELSE waitDelay)
  /\ UNCHANGED setup

SetupStopped == Stopped /\ UNCHANGED <<setup, clock>>

SetupNext ==
  \/ SetupCancel \/ SetupCheck \/ SetupJudge \/ SetupWait \/ SetupStopped
  \/ Open \/ Command \/ CpinCommand \/ Sleep \/ GiveUp \/ Listen
SetupSpec == SetupInit /\ [][SetupNext]_setupVars

-----------------------------------------------------------------------------
(* Properties.                                                             *)

\* Every variable of this module has its type; a session has a place.
SetupTypeOK ==
  /\ place \in {"none", "open", "command", "sleep", "gaveUp", "listen"}
  /\ place # "none" <=> pc = "session"
  /\ step \in 1..Last
  /\ deadline \in Nat
  /\ now \in Nat /\ readyAt \in Outages /\ sinceCancel \in Nat

Longer(a, b) == IF a > b THEN a ELSE b

\* Once the modem can answer, the program listens soon, however long the outage
\* was and wherever it caught the loop: a step that straddles the end of the
\* outage, the longest backoff, one Open and the commands of modem.Init.
ConnectsInTime == now <= readyAt + Longer(O, C) + MaxBackoff + O + Last * C

\* The program gives up on a SIM only if it was not ready shortly before the
\* configured timeout: the last try leaves out RetryDelay and its own duration.
TimeoutHonoured == place = "gaveUp" => readyAt + RetryDelay + C > deadline

\* The loop returns in a bounded time after Ctrl-C.  modem.Init does not see the
\* context, so the bound has its commands and the whole timeout of the SIM.
StopsInTime == sinceCancel <= O + Last * C + SimTimeout
=============================================================================
