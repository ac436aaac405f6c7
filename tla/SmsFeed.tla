------------------------------- MODULE SmsFeed -------------------------------
(***************************************************************************)
(* What the forwarder promises about SMS, whatever its goroutines and      *)
(* queues are: an accepted SMS is passed to the notifier at most once and  *)
(* in the order of acceptance.  While the process runs, the only SMS it    *)
(* gives up are the newest ones, when the modem session ends.              *)
(***************************************************************************)
EXTENDS Naturals

CONSTANT MaxSms  \* bound: SMS accepted

VARIABLES
  accepted,  \* the number of SMS accepted so far
  pending,   \* accepted, neither passed to the notifier nor given up
  sent,      \* passed to the notifier
  stopping   \* the process was told to stop

feedVars == <<accepted, pending, sent, stopping>>

Init ==
  /\ accepted = 0
  /\ pending = {}
  /\ sent = {}
  /\ stopping = FALSE

Accept ==
  /\ accepted < MaxSms
  /\ accepted' = accepted + 1
  /\ pending' = pending \cup {accepted + 1}
  /\ UNCHANGED <<sent, stopping>>

\* The oldest pending SMS is passed on, after every SMS older than it.
Send ==
  \E n \in pending :
    /\ \A m \in pending : n <= m
    /\ \A m \in sent : m < n
    /\ pending' = pending \ {n}
    /\ sent' = sent \cup {n}
    /\ UNCHANGED <<accepted, stopping>>

\* A modem session ends: the SMS newer than some k are given up.
Disconnect ==
  /\ \E k \in 0..accepted : pending' = {n \in pending : n <= k}
  /\ UNCHANGED <<accepted, sent, stopping>>

Stop ==
  /\ stopping' = TRUE
  /\ UNCHANGED <<accepted, pending, sent>>

\* While stopping, any SMS may be given up.
Abandon ==
  /\ stopping
  /\ \E n \in pending : pending' = pending \ {n}
  /\ UNCHANGED <<accepted, sent, stopping>>

Next == Accept \/ Send \/ Disconnect \/ Stop \/ Abandon

Spec == Init /\ [][Next]_feedVars
=============================================================================
