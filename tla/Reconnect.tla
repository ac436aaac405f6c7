------------------------------ MODULE Reconnect ------------------------------
(***************************************************************************)
(* The reconnect loop of internal/forwarder: runReconnectLoopWithOptions,  *)
(* waitBackoff and nextBackoff.  A session is one step with one of the     *)
(* outcomes of runModemSession; module Pipeline looks inside it.           *)
(* Durations are integers in a unit that the constants choose.             *)
(***************************************************************************)
EXTENDS Integers

CONSTANTS
  InitialOption,   \* opts.initialBackoff; 0 or less stands for the default
  MaxOption,       \* opts.maxBackoff; 0 or less stands for the default
  InitialDefault,  \* reconnectInitialBackoff (2 s)
  MaxDefault,      \* reconnectMaxBackoff (30 s)
  MaxFailures      \* bound: failed sessions in a row that are told apart

InitialBackoff == IF InitialOption <= 0 THEN InitialDefault ELSE InitialOption
MaxBackoff     == IF MaxOption <= 0 THEN MaxDefault ELSE MaxOption

ASSUME ReconnectAssumption ==
  /\ InitialOption \in Int /\ MaxOption \in Int
  /\ InitialDefault \in Nat \ {0} /\ MaxDefault \in Nat \ {0}
  /\ InitialBackoff <= MaxBackoff
  /\ MaxFailures \in Nat

VARIABLES
  cancelled,  \* ctx.Err() # nil
  pc,         \* where the loop is
  err,        \* the last session's error: nil, errSerialSessionClosed, other
  backoff,    \* the loop's backoff
  waitDelay,  \* the delay passed to wait
  failed      \* history: sessions that failed since the last one that was
              \* connected and closed, saturated at MaxFailures

vars == <<cancelled, pc, err, backoff, waitDelay, failed>>

Init ==
  /\ cancelled = FALSE
  /\ pc = "check"
  /\ err = "nil"
  /\ backoff = InitialBackoff
  /\ waitDelay = 0
  /\ failed = 0

Cancel ==
  /\ ~cancelled
  /\ cancelled' = TRUE
  /\ UNCHANGED <<pc, err, backoff, waitDelay, failed>>

Check ==
  /\ pc = "check"
  /\ pc' = IF cancelled THEN "stopped" ELSE "session"
  /\ UNCHANGED <<cancelled, err, backoff, waitDelay, failed>>

\* runSession: nil only when ctx is done; errSerialSessionClosed when an open
\* link closes; another error when the port or the modem cannot be set up.
RunSession ==
  /\ pc = "session"
  /\ err' \in {"closed", "failed"} \cup (IF cancelled THEN {"nil"} ELSE {})
  /\ failed' = CASE err' = "closed" -> 0
                 [] err' = "failed" /\ failed < MaxFailures -> failed + 1
                 [] OTHER -> failed
  /\ pc' = "judge"
  /\ UNCHANGED <<cancelled, backoff, waitDelay>>

Judge ==
  /\ pc = "judge"
  /\ IF cancelled
       THEN pc' = "stopped" /\ UNCHANGED waitDelay
       ELSE /\ pc' = "wait"
            /\ waitDelay' = IF err = "closed" THEN InitialBackoff ELSE backoff
  /\ UNCHANGED <<cancelled, err, backoff, failed>>

\* Mutation: no cap.
nextBackoffUncapped(current) == current * 2

nextBackoff(current) == IF current * 2 > MaxBackoff THEN MaxBackoff ELSE current * 2

\* Mutation: a closed session does not reset the backoff.
WaitWithoutReset ==
  /\ pc = "wait"
  /\ \/ /\ cancelled
        /\ pc' = "stopped"
        /\ UNCHANGED backoff
     \/ /\ pc' = "check"
        /\ backoff' = nextBackoff(waitDelay)
  /\ UNCHANGED <<cancelled, err, waitDelay, failed>>

\* waitBackoff returns: ctx is done, or the timer fired.
Wait ==
  /\ pc = "wait"
  /\ \/ /\ cancelled
        /\ pc' = "stopped"
        /\ UNCHANGED backoff
     \/ /\ pc' = "check"
        /\ backoff' = IF err = "closed" THEN InitialBackoff ELSE nextBackoff(waitDelay)
  /\ UNCHANGED <<cancelled, err, waitDelay, failed>>

Stopped == pc = "stopped" /\ UNCHANGED vars

Next == Cancel \/ Check \/ RunSession \/ Judge \/ Wait \/ Stopped
Spec == Init /\ [][Next]_vars

-----------------------------------------------------------------------------
(* Properties.                                                             *)

\* Every variable has its type; the loop never waits less than the initial
\* backoff (no hot loop on a missing modem) nor more than the maximum.
TypeOK ==
  /\ cancelled \in BOOLEAN
  /\ pc \in {"check", "session", "judge", "wait", "stopped"}
  /\ err \in {"nil", "closed", "failed"}
  /\ backoff \in InitialBackoff..MaxBackoff
  /\ pc = "wait" => waitDelay \in InitialBackoff..MaxBackoff
  /\ waitDelay \in 0..MaxBackoff
  /\ failed \in 0..MaxFailures

\* The delay after the k-th failure in a row: doubled k - 1 times, capped.
Doubled[n \in Nat] == IF n = 0 THEN InitialBackoff ELSE 2 * Doubled[n - 1]
Delay(k) == IF Doubled[k - 1] > MaxBackoff THEN MaxBackoff ELSE Doubled[k - 1]

\* The bound on failures in a row leaves no delay out: it is where they end.
ASSUME FailuresAssumption == MaxFailures > 0 /\ Delay(MaxFailures) = MaxBackoff

\* After a connection that was lost, the loop retries at the initial delay;
\* after the k-th failure in a row it waits Delay(k), whatever sessions came
\* before: neither the history nor an earlier outage slows a retry down.
DelayDoubles ==
  pc = "wait" =>
    waitDelay = IF err = "closed" THEN InitialBackoff ELSE Delay(failed)
=============================================================================
