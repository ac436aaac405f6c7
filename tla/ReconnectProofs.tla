--------------------------- MODULE ReconnectProofs ---------------------------
(***************************************************************************)
(* Proofs about the reconnect loop and the setup of its sessions, for all  *)
(* options, defaults and durations: the bounds of the backoff, of the way  *)
(* back to a session, of the wait for the SIM and of the shutdown.         *)
(***************************************************************************)
EXTENDS Startup, WellFoundedInduction, TLAPS

\* Whatever the options, the effective bounds are positive durations.
LEMMA Bounds ==
  /\ InitialBackoff \in Nat \ {0} /\ MaxBackoff \in Nat \ {0}
  /\ InitialBackoff <= MaxBackoff
  BY ReconnectAssumption DEF InitialBackoff, MaxBackoff

\* Doubling a delay within the bounds gives one within the bounds.
LEMMA NextBackoffBounded ==
  ASSUME NEW d \in InitialBackoff..MaxBackoff
  PROVE  nextBackoff(d) \in InitialBackoff..MaxBackoff
  BY Bounds DEF nextBackoff

LEMMA LoopTypes == TypeOK /\ [Next]_vars => TypeOK'
<1> USE Bounds, ReconnectAssumption DEF TypeOK
<1> SUFFICES ASSUME TypeOK, [Next]_vars PROVE TypeOK'
  OBVIOUS
<1>1. CASE Cancel
  BY <1>1 DEF Cancel
<1>2. CASE Check
  BY <1>2 DEF Check
<1>3. CASE RunSession
  BY <1>3 DEF RunSession
<1>4. CASE Judge
  BY <1>4 DEF Judge
<1>5. CASE Wait
  BY <1>5, NextBackoffBounded DEF Wait
<1>6. CASE UNCHANGED vars \/ Stopped
  BY <1>6 DEF vars, Stopped
<1> QED BY <1>1, <1>2, <1>3, <1>4, <1>5, <1>6 DEF Next

LEMMA LoopInit == Init => TypeOK
<1>1. InitialBackoff \in InitialBackoff..MaxBackoff /\ 0 \in 0..MaxBackoff
  BY Bounds
<1>2. 0 \in 0..MaxFailures
  BY ReconnectAssumption
<1> QED BY <1>1, <1>2 DEF Init, TypeOK

\* Every wait lasts at least the initial and at most the maximal backoff, so
\* a missing modem neither makes the loop spin nor keeps it away for long.
THEOREM BackoffBounded == Spec => []TypeOK
BY LoopInit, LoopTypes, PTL DEF Spec

-----------------------------------------------------------------------------
(* The delays.  That there is a function such as Doubled is shown by the   *)
(* least number for which there would be none.                             *)

\* A set of numbers has a least element: the natural numbers are well founded.
LEMMA LeastNumber ==
  ASSUME NEW T \in SUBSET Nat, T # {}
  PROVE  \E n \in T : \A m \in T : n <= m
<1> DEFINE R == {ss \in Nat \X Nat : ss[1] < ss[2]}
<1>1. IsWellFoundedOn(R, Nat)
  <2>1. R = OpToRel(<, Nat)
    BY DEF OpToRel
  <2> QED  BY <2>1, NatLessThanWellFounded
<1>2. \A m, n \in Nat : m < n => <<m, n>> \in R
  <2> SUFFICES ASSUME NEW m \in Nat, NEW n \in Nat, m < n PROVE <<m, n>> \in R
    OBVIOUS
  <2>1. <<m, n>> \in Nat \X Nat /\ <<m, n>>[1] = m /\ <<m, n>>[2] = n
    OBVIOUS
  <2> QED  BY <2>1
<1> HIDE DEF R
<1>3. PICK n \in T : \A m \in T : <<m, n>> \notin R
  BY <1>1, WFMin
<1>4. \A m \in T : m \in Nat /\ n \in Nat /\ ~(m < n)
  BY <1>2, <1>3
<1> QED  BY <1>4

\* g doubles from first on, up to its place n.
Doubles(g, first, n) == g \in [0..n -> Nat] /\ g[0] = first /\ \A k \in 1..n : g[k] = 2 * g[k - 1]

LEMMA DoublesOnce ==
  ASSUME NEW first \in Nat, NEW n \in Nat, NEW m \in Nat, n <= m, NEW g, NEW h,
         Doubles(g, first, n), Doubles(h, first, m)
  PROVE  \A k \in 0..n : g[k] = h[k]
<1> DEFINE T == {k \in 0..n : g[k] # h[k]}
<1> SUFFICES ASSUME T # {} PROVE FALSE
  OBVIOUS
<1>1. PICK k \in T : \A j \in T : k <= j
  <2>1. T \in SUBSET Nat
    OBVIOUS
  <2> QED  BY <2>1, LeastNumber
<1>2. k # 0 /\ k \in 1..n /\ k \in 1..m
  BY DEF Doubles
<1>3. g[k - 1] = h[k - 1]
  BY <1>1, <1>2
<1> QED  BY <1>2, <1>3 DEF Doubles

LEMMA DoublesSome ==
  ASSUME NEW first \in Nat
  PROVE  \A n \in Nat : \E g : Doubles(g, first, n)
<1> DEFINE T == {n \in Nat : ~ \E g : Doubles(g, first, n)}
<1> SUFFICES ASSUME T # {} PROVE FALSE
  OBVIOUS
<1>1. PICK n \in T : \A j \in T : n <= j
  BY LeastNumber
<1>2. n # 0
  <2>1. Doubles([k \in 0..0 |-> first], first, 0)
    BY DEF Doubles
  <2> QED  BY <2>1
<1>3. n - 1 \in Nat /\ n - 1 \notin T
  BY <1>1, <1>2
<1>4. PICK g : Doubles(g, first, n - 1)
  BY <1>3
<1> DEFINE h == [k \in 0..n |-> IF k = n THEN 2 * g[n - 1] ELSE g[k]]
<1>5. Doubles(h, first, n)
  BY <1>2, <1>4 DEF Doubles
<1> QED  BY <1>5

\* Doubled does what its definition says.
LEMMA DoubledIs ==
  /\ Doubled[0] = InitialBackoff
  /\ \A n \in Nat : Doubled[n] \in Nat /\ Doubled[n + 1] = 2 * Doubled[n]
<1> DEFINE I == InitialBackoff
           up(n) == CHOOSE g : Doubles(g, I, n)
           f == [n \in Nat |-> up(n)[n]]
<1>1. I \in Nat
  BY Bounds
<1> HIDE DEF I
<1>2. \A n \in Nat : Doubles(up(n), I, n)
  BY <1>1, DoublesSome
<1> HIDE DEF up
<1>3. f[0] = I
  BY <1>2 DEF Doubles
<1>4. ASSUME NEW n \in Nat PROVE f[n + 1] = 2 * f[n]
  <2>1. f[n + 1] = 2 * up(n + 1)[n]
    BY <1>2 DEF Doubles
  <2>2. up(n)[n] = up(n + 1)[n]
    BY <1>1, <1>2, DoublesOnce
  <2> QED  BY <2>1, <2>2
<1>5. f = [n \in Nat |-> IF n = 0 THEN I ELSE 2 * f[n - 1]]
  <2> SUFFICES ASSUME NEW n \in Nat PROVE f[n] = IF n = 0 THEN I ELSE 2 * f[n - 1]
    OBVIOUS
  <2> HIDE DEF f
  <2>1. CASE n = 0
    BY <1>3, <2>1
  <2>2. CASE n # 0
    <3>1. n - 1 \in Nat /\ (n - 1) + 1 = n
      BY <2>2
    <3> QED  BY <1>4, <2>2, <3>1
  <2> QED  BY <2>1, <2>2
<1> HIDE DEF f
<1>6. Doubled = [n \in Nat |-> IF n = 0 THEN I ELSE 2 * Doubled[n - 1]]
  BY <1>5 DEF Doubled, I
<1>7. Doubled[0] = I /\ \A n \in Nat : Doubled[n + 1] = 2 * Doubled[n]
  <2> DEFINE d == [n \in Nat |-> IF n = 0 THEN I ELSE 2 * Doubled[n - 1]]
  <2>1. d[0] = I /\ \A n \in Nat : d[n + 1] = 2 * Doubled[n]
    OBVIOUS
  <2> QED  BY <1>6, <2>1
<1>8. \A n \in Nat : Doubled[n] \in Nat
  <2> DEFINE T == {n \in Nat : Doubled[n] \notin Nat}
  <2> SUFFICES ASSUME T # {} PROVE FALSE
    OBVIOUS
  <2>1. PICK n \in T : \A j \in T : n <= j
    BY LeastNumber
  <2>2. n # 0
    BY <1>1, <1>7
  <2>3. n - 1 \in Nat /\ (n - 1) + 1 = n /\ Doubled[n - 1] \in Nat
    BY <2>1, <2>2
  <2>4. Doubled[(n - 1) + 1] = 2 * Doubled[n - 1]
    BY <1>7, <2>3
  <2> QED  BY <2>3, <2>4
<1> QED  BY <1>7, <1>8 DEF I

\* nextBackoff takes one delay to the next, and the last is the longest.
LEMMA DelaySteps ==
  /\ Delay(1) = InitialBackoff
  /\ \A k \in Nat \ {0} : Delay(k) \in Nat /\ nextBackoff(Delay(k)) = Delay(k + 1)
  /\ Delay(MaxFailures + 1) = Delay(MaxFailures)
<1>1. Delay(1) = InitialBackoff
  BY Bounds, DoubledIs DEF Delay
<1>2. ASSUME NEW k \in Nat \ {0}
      PROVE  Delay(k) \in Nat /\ nextBackoff(Delay(k)) = Delay(k + 1)
  <2>1. /\ k - 1 \in Nat /\ (k + 1) - 1 = (k - 1) + 1 /\ Doubled[k - 1] \in Nat
        /\ Doubled[(k - 1) + 1] = 2 * Doubled[k - 1]
    BY DoubledIs
  <2>2. Doubled[(k + 1) - 1] = 2 * Doubled[k - 1]
    BY <2>1
  <2> HIDE DEF Doubled
  <2> QED  BY <2>1, <2>2, Bounds DEF Delay, nextBackoff
<1>3. Delay(MaxFailures + 1) = Delay(MaxFailures)
  <2>1. nextBackoff(Delay(MaxFailures)) = MaxBackoff
    BY FailuresAssumption, Bounds DEF nextBackoff
  <2>2. MaxFailures \in Nat \ {0}
    BY FailuresAssumption, ReconnectAssumption
  <2> QED  BY <1>2, <2>1, <2>2, FailuresAssumption
<1> QED  BY <1>1, <1>2, <1>3

\* The backoff is the delay after the failures so far.
Backoffs ==
  /\ pc \in {"check", "session"} => backoff = Delay(failed + 1)
  /\ pc \in {"judge", "wait"} /\ err = "failed" => failed # 0 /\ backoff = Delay(failed)
  /\ err = "closed" => failed = 0
  /\ pc = "judge" /\ err = "nil" => cancelled
  /\ pc = "wait" => err # "nil"

DelayInv == TypeOK /\ Backoffs /\ DelayDoubles

LEMMA BackoffStep == ASSUME DelayInv, [Next]_vars PROVE DelayInv'
<1> USE DEF DelayInv
<1>1. TypeOK'
  BY LoopTypes
<1>2. MaxFailures \in Nat \ {0} /\ failed \in Nat /\ failed <= MaxFailures
  BY FailuresAssumption, ReconnectAssumption DEF TypeOK
<1> HIDE DEF TypeOK, Delay, nextBackoff
<1>3. CASE Cancel \/ Stopped \/ UNCHANGED vars
  BY <1>1, <1>3 DEF Cancel, Stopped, vars, Backoffs, DelayDoubles
<1>4. CASE Check
  BY <1>1, <1>4 DEF Check, Backoffs, DelayDoubles
<1>5. CASE RunSession
  <2>1. CASE err' = "failed" /\ failed < MaxFailures
    BY <1>1, <1>2, <1>5, <2>1 DEF RunSession, Backoffs, DelayDoubles
  <2>2. CASE err' = "failed" /\ failed = MaxFailures
    BY <1>1, <1>2, <1>5, <2>2, DelaySteps DEF RunSession, Backoffs, DelayDoubles
  <2>3. CASE err' = "closed"
    BY <1>1, <1>5, <2>3 DEF RunSession, Backoffs, DelayDoubles
  <2>4. CASE err' = "nil"
    BY <1>1, <1>5, <2>4 DEF RunSession, Backoffs, DelayDoubles
  <2> QED  BY <1>2, <1>5, <2>1, <2>2, <2>3, <2>4 DEF RunSession
<1>6. CASE Judge
  <2>1. err \in {"nil", "closed", "failed"}
    BY DEF TypeOK
  <2> QED  BY <1>1, <1>6, <2>1 DEF Judge, Backoffs, DelayDoubles
<1>7. CASE Wait
  <2>1. err \in {"closed", "failed"}
    BY <1>7 DEF TypeOK, Wait, Backoffs
  <2>2. CASE err = "closed"
    BY <1>1, <1>7, <2>2, DelaySteps DEF Wait, Backoffs, DelayDoubles
  <2>3. CASE err = "failed"
    <3>1. failed \in Nat \ {0} /\ waitDelay = Delay(failed)
      BY <1>2, <1>7, <2>3 DEF Wait, Backoffs, DelayDoubles
    <3> QED  BY <1>1, <1>7, <2>3, <3>1, DelaySteps DEF Wait, Backoffs, DelayDoubles
  <2> QED  BY <2>1, <2>2, <2>3
<1> QED  BY <1>3, <1>4, <1>5, <1>6, <1>7 DEF Next

\* Each wait is the delay that the failures in a row call for, or the initial one
\* after a connection that was lost, for all options and all outages.
THEOREM DelaysDouble == Spec => []DelayDoubles
<1>1. Init => DelayInv
  BY LoopInit, DelaySteps DEF Init, DelayInv, Backoffs, DelayDoubles
<1>2. DelayInv /\ [Next]_vars => DelayInv'
  BY BackoffStep
<1> QED  BY <1>1, <1>2, PTL DEF Spec, DelayInv

-----------------------------------------------------------------------------
(* The clock.                                                              *)

\* The longest durations bound the others.
LEMMA LongestBounds ==
  ASSUME NEW S, S \subseteq Nat, \E d \in S : \A e \in S : e <= d
  PROVE  Longest(S) \in Nat /\ \A d \in S : d \in Nat /\ d <= Longest(S)
BY DEF Longest

LEMMA Durations ==
  /\ O \in Nat /\ \A d \in OpenTimes : d \in Nat /\ d <= O
  /\ C \in Nat /\ \A d \in CommandTimes : d \in Nat /\ d <= C
BY LongestBounds, StartupAssumption DEF O, C

LEMMA Timeouts ==
  /\ SimTimeout \in Nat \ {0} /\ RetryDelay \in Nat /\ RetryDelay <= MaxBackoff
  /\ Outages \subseteq Nat
BY StartupAssumption, Bounds DEF SimTimeout

\* What n commands take at most.
Commands(n) == n * C
LEMMA CommandsAdd ==
  /\ \A n \in 0..Last : Commands(n) \in Nat /\ Commands(n) <= Commands(Last)
  /\ \A n \in 0..(Last - 1) : Commands(n + 1) = Commands(n) + C
  /\ Commands(Last) = Last * C
<1>1. Commands(0) = 0 /\ Commands(1) = C /\ Commands(2) = C + C /\ Commands(3) = C + C + C
      /\ Commands(4) = C + C + C + C /\ Commands(5) = C + C + C + C + C
      /\ Commands(6) = C + C + C + C + C + C
  BY Durations DEF Commands
<1>2. \A n \in 0..Last : n \in {0, 1, 2, 3, 4, 5, 6}
  BY DEF Last
<1>3. \A n \in 0..(Last - 1) : n \in {0, 1, 2, 3, 4, 5}
  BY DEF Last
<1> QED  BY <1>1, <1>2, <1>3, Durations DEF Last, Commands

\* The time at which each place of the setup is reached at the latest.
Straddle == Longer(O, C)
LEMMA StraddleBounds == Straddle \in Nat /\ O <= Straddle /\ C <= Straddle
BY Durations DEF Straddle, Longer

Late(t) == now <= readyAt + Straddle + t
OnTime ==
  /\ (pc \in {"judge", "wait"} /\ err = "failed") \/ place \in {"sleep", "gaveUp"} => Late(0)
  /\ pc = "check" \/ place = "open" => Late(MaxBackoff)
  /\ place = "command" => Late(MaxBackoff + O + Commands(step - 1))
  /\ Late(MaxBackoff + O + Commands(Last))
LostLinkIsNew == pc \in {"judge", "wait"} /\ err = "closed" => now = 0
NilIsCancelled == err = "nil" => pc # "wait" /\ (pc = "judge" => cancelled)

SleepsAtCpin == place \in {"sleep", "gaveUp"} => step = Cpin

\* While the wait for the SIM goes on, its deadline has not passed.
Deadlines ==
  place = "sleep" \/ (place = "command" /\ step = Cpin)
    => /\ now + (IF place = "sleep" THEN RetryDelay ELSE 0) <= deadline
       /\ deadline <= now + SimTimeout

\* How much of its bound a shutdown has used up at each place; in the wait for
\* the SIM, what is left until the deadline is still to come.
Spent(t) == sinceCancel <= O + t
Stopping ==
  /\ ~cancelled \/ place = "open" => sinceCancel = 0
  /\ place = "command" /\ step < Cpin => Spent(Commands(step - 1))
  /\ place = "sleep" \/ (place = "command" /\ step = Cpin)
       => Spent(Commands(Cpin - 1) + SimTimeout + now - deadline)
  /\ place = "command" /\ step > Cpin => Spent(Commands(step - 1) + SimTimeout)
  /\ Spent(Commands(Last) + SimTimeout)

SetupInv ==
  TypeOK /\ SetupTypeOK /\ OnTime /\ LostLinkIsNew /\ NilIsCancelled /\ SleepsAtCpin
  /\ Deadlines /\ TimeoutHonoured /\ Stopping

-----------------------------------------------------------------------------
\* The setup refines the loop: each of its steps is one of the loop's or none.
LEMMA SetupRefines == SetupNext => [Next]_vars
BY DEF SetupNext, Next, SetupCancel, SetupCheck, SetupJudge, SetupWait, SetupStopped,
       Open, Command, CpinCommand, Sleep, GiveUp, Listen, Answered, Fails, EndSession

LEMMA SetupInitHolds == SetupInit => SetupInv
<1> SUFFICES ASSUME SetupInit PROVE SetupInv
  OBVIOUS
<1>1. TypeOK
  BY LoopInit DEF SetupInit
<1>2. SetupTypeOK
  BY Timeouts DEF SetupInit, Init, SetupTypeOK, Last
<1>3. OnTime
  <2>1. now = 0 /\ readyAt \in Nat /\ pc = "check" /\ place = "none"
    BY Timeouts DEF SetupInit, Init
  <2>2. MaxBackoff \in Nat /\ Commands(Last) \in Nat
    BY Bounds, CommandsAdd DEF Last
  <2> HIDE DEF Commands
  <2> QED  BY <2>1, <2>2, Durations, StraddleBounds DEF OnTime, Late
<1>4. Stopping
  BY Durations, Timeouts, CommandsAdd DEF SetupInit, Init, Stopping, Spent, Last
<1> QED
  BY <1>1, <1>2, <1>3, <1>4
  DEF SetupInit, Init, SetupInv, LostLinkIsNew, NilIsCancelled, SleepsAtCpin, Deadlines, TimeoutHonoured

LEMMA SetupCancelStep == ASSUME SetupInv, SetupCancel PROVE SetupInv'
<1>1. TypeOK'
  BY LoopTypes DEF SetupInv, SetupCancel, Next
<1>2. Stopping'
  BY Durations, Timeouts, CommandsAdd
  DEF SetupInv, SetupCancel, Cancel, Stopping, Spent, setup, clock
<1> QED
  BY <1>1, <1>2
  DEF SetupInv, SetupCancel, Cancel, SetupTypeOK, OnTime, Late, LostLinkIsNew,
      NilIsCancelled, SleepsAtCpin, Deadlines, TimeoutHonoured, setup, clock

LEMMA LoopStep == ASSUME SetupInv, SetupCheck \/ SetupJudge \/ SetupWait PROVE SetupInv'
<1> USE Durations, Timeouts, Bounds, CommandsAdd, StraddleBounds
<1>1. TypeOK'
  BY LoopTypes DEF SetupInv, SetupCheck, SetupJudge, SetupWait, Next
<1>2. CASE SetupCheck
  <2>1. SetupTypeOK' /\ OnTime'
    BY <1>2 DEF SetupInv, SetupCheck, Check, SetupTypeOK, OnTime, Late, clock
  <2>2. Stopping'
    BY <1>2 DEF SetupInv, SetupCheck, Check, SetupTypeOK, Stopping, Spent, clock
  <2> QED
    BY <1>1, <1>2, <2>1, <2>2
    DEF SetupInv, SetupCheck, Check, SetupTypeOK, LostLinkIsNew, NilIsCancelled, SleepsAtCpin, Deadlines,
        TimeoutHonoured, clock
<1>3. CASE SetupJudge
  BY <1>1, <1>3
  DEF SetupInv, SetupJudge, Judge, SetupTypeOK, OnTime, Late,
      LostLinkIsNew, NilIsCancelled, SleepsAtCpin, Deadlines, TimeoutHonoured, Stopping, Spent, setup, clock
<1>4. CASE SetupWait
  <2>1. SetupTypeOK'
    BY <1>4 DEF SetupInv, TypeOK, SetupWait, Wait, Elapse, SetupTypeOK, setup
  <2>2. OnTime'
    <3>1. now <= readyAt + Straddle /\ now' \in now..(now + MaxBackoff) /\ readyAt' = readyAt
      BY <1>4 DEF SetupInv, TypeOK, SetupWait, Wait, Elapse, SetupTypeOK, OnTime, Late,
                  LostLinkIsNew, NilIsCancelled
    <3>2. place' = "none" /\ pc' \in {"check", "stopped"}
      BY <1>4 DEF SetupInv, SetupTypeOK, SetupWait, Wait, setup
    <3>3. now \in Nat /\ readyAt \in Nat /\ Commands(Last) \in Nat
      BY DEF SetupInv, SetupTypeOK, Last
    <3> QED  BY <3>1, <3>2, <3>3 DEF OnTime, Late
  <2>3. Stopping'
    BY <1>4 DEF SetupInv, SetupWait, Wait, Elapse, SetupTypeOK, Stopping, Spent, setup
  <2> QED
    BY <1>1, <1>4, <2>1, <2>2, <2>3
    DEF SetupInv, SetupWait, Wait, SetupTypeOK, LostLinkIsNew, NilIsCancelled, SleepsAtCpin,
        Deadlines, TimeoutHonoured, setup
<1> QED  BY <1>2, <1>3, <1>4

\* What the clock of a step says about its duration.
LEMMA Elapsed ==
  ASSUME SetupInv, NEW d \in Nat, Elapse(d)
  PROVE  /\ now' = now + d /\ now' \in Nat /\ readyAt' = readyAt /\ sinceCancel' \in Nat
         /\ sinceCancel' <= sinceCancel + d
         /\ ~cancelled => sinceCancel' = 0
BY DEF SetupInv, SetupTypeOK, Elapse, Stopping

\* A step within the outage that ends the session leaves the loop on time.
LEMMA FailsStep ==
  ASSUME SetupInv, NEW d \in Nat, Elapse(d), d <= Straddle, Fails,
         sinceCancel + d <= O + Commands(Last) + SimTimeout
  PROVE  SetupInv'
<1> USE Durations, Timeouts, Bounds, CommandsAdd, StraddleBounds, Elapsed
<1>1. TypeOK'
  BY LoopTypes DEF SetupInv, Fails, EndSession, Next
<1>2. pc' = "judge" /\ err' = "failed" /\ place' = "none" /\ cancelled' = cancelled
      /\ UNCHANGED <<step, deadline>> /\ now < readyAt
  BY DEF Fails, EndSession, RunSession
<1>3. SetupTypeOK'
  BY <1>2 DEF SetupInv, SetupTypeOK
<1>4. OnTime'
  BY <1>2, Last \in 0..Last DEF SetupInv, SetupTypeOK, OnTime, Late, Last
<1>5. Stopping'
  <2>1. /\ Commands(Last) \in Nat /\ sinceCancel' \in Nat /\ sinceCancel' <= sinceCancel + d
        /\ sinceCancel \in Nat /\ (~cancelled => sinceCancel' = 0)
    BY DEF SetupInv, SetupTypeOK, Last
  <2> HIDE DEF Commands
  <2> QED  BY <1>2, <2>1 DEF Stopping, Spent
<1> QED
  BY <1>1, <1>2, <1>3, <1>4, <1>5
  DEF SetupInv, LostLinkIsNew, NilIsCancelled, SleepsAtCpin, Deadlines, TimeoutHonoured

\* A step within the session leaves the loop alone.
LEMMA LoopAlone ==
  ASSUME SetupInv, UNCHANGED vars, pc = "session"
  PROVE  TypeOK' /\ LostLinkIsNew' /\ NilIsCancelled'
BY LoopTypes DEF SetupInv, vars, LostLinkIsNew, NilIsCancelled

LEMMA OpenStep == ASSUME SetupInv, Open PROVE SetupInv'
<1> USE Durations, Timeouts, Bounds, CommandsAdd, StraddleBounds
<1>1. PICK d \in OpenTimes : Elapse(d)
  BY DEF Open
<1>2. d \in Nat /\ d <= O /\ pc = "session" /\ sinceCancel = 0
  BY <1>1 DEF SetupInv, SetupTypeOK, Stopping, Open
<1>3. CASE Fails
  BY <1>1, <1>2, <1>3, FailsStep, Last \in 0..Last DEF Last
<1>4. CASE /\ place' = IF InitModem THEN "command" ELSE "listen"
           /\ step' = 1
           /\ UNCHANGED <<vars, deadline>>
  <2>1. /\ now' = now + d /\ readyAt' = readyAt /\ now' \in Nat /\ sinceCancel' \in Nat
        /\ sinceCancel' <= d /\ (~cancelled => sinceCancel' = 0)
    BY <1>1, <1>2, Elapsed DEF SetupInv, SetupTypeOK
  <2>2. TypeOK' /\ LostLinkIsNew' /\ NilIsCancelled' /\ SetupTypeOK'
    BY <1>2, <1>4, <2>1, LoopAlone DEF SetupInv, SetupTypeOK, vars, Last
  <2>3. Commands(0) \in Nat /\ Commands(Last) \in Nat
    BY DEF Last
  <2>4. OnTime'
    BY <1>2, <1>4, <2>1, <2>3 DEF SetupInv, SetupTypeOK, OnTime, Late, Open, vars
  <2>5. Stopping'
    BY <1>2, <1>4, <2>1, <2>3 DEF SetupInv, SetupTypeOK, Stopping, Spent, Cpin, vars
  <2>6. Deadlines' /\ TimeoutHonoured' /\ SleepsAtCpin'
    BY <1>4 DEF SleepsAtCpin, Deadlines, TimeoutHonoured, Cpin
  <2> QED  BY <2>2, <2>4, <2>5, <2>6 DEF SetupInv
<1> QED  BY <1>3, <1>4 DEF Open

\* Within modem.Init, a command that is answered uses up its share of the bounds.
LEMMA CommandStep == ASSUME SetupInv, Command \/ CpinCommand PROVE SetupInv'
<1> USE Durations, Timeouts, Bounds, CommandsAdd, StraddleBounds
<1>1. PICK d \in CommandTimes : Elapse(d)
  BY DEF Command, CpinCommand
<1>2. /\ d \in Nat /\ d <= C /\ pc = "session" /\ place = "command"
      /\ step \in 1..6 /\ deadline \in Nat /\ now \in Nat /\ readyAt \in Nat
      /\ sinceCancel \in Nat
  BY <1>1 DEF SetupInv, SetupTypeOK, Command, CpinCommand, Last
<1>3. /\ now' = now + d /\ readyAt' = readyAt /\ now' \in Nat /\ sinceCancel' \in Nat
      /\ sinceCancel' <= sinceCancel + d /\ (~cancelled => sinceCancel' = 0)
  BY <1>1, <1>2, Elapsed
<1>4. /\ Commands(step - 1) \in Nat /\ Commands(step) = Commands(step - 1) + C
      /\ Commands(step) <= Commands(Last) /\ Commands(step) \in Nat
      /\ Commands(2) \in Nat /\ Commands(Last) \in Nat
  <2>1. step - 1 \in 0..5 /\ step - 1 \in 0..6 /\ step \in 0..6 /\ (step - 1) + 1 = step
    BY <1>2
  <2> HIDE DEF Commands
  <2> QED  BY <2>1 DEF Last
<1>5. /\ now <= readyAt + Straddle + MaxBackoff + O + Commands(step - 1)
      /\ step < 3 => sinceCancel <= O + Commands(step - 1)
      /\ step = 3 => /\ sinceCancel <= O + Commands(2) + SimTimeout + now - deadline
                     /\ now <= deadline /\ deadline <= now + SimTimeout
      /\ step > 3 => sinceCancel <= O + Commands(step - 1) + SimTimeout
  <2> HIDE DEF Commands
  <2>1. now <= readyAt + Straddle + (MaxBackoff + O + Commands(step - 1))
    BY <1>2 DEF SetupInv, OnTime, Late
  <2>2. step < 3 => sinceCancel <= O + Commands(step - 1)
    BY <1>2 DEF SetupInv, Stopping, Spent, Cpin
  <2>3. step > 3 => sinceCancel <= O + (Commands(step - 1) + SimTimeout)
    BY <1>2 DEF SetupInv, Stopping, Spent, Cpin
  <2>4. step = 3 => /\ sinceCancel <= O + (Commands(3 - 1) + SimTimeout + now - deadline)
                    /\ now + 0 <= deadline /\ deadline <= now + SimTimeout
    BY <1>2 DEF SetupInv, Stopping, Spent, Deadlines, Cpin
  <2> QED  BY <1>2, <1>4, <2>1, <2>2, <2>3, <2>4
<1> HIDE DEF Commands
<1>6. sinceCancel + d <= O + Commands(Last) + SimTimeout
  BY <1>2, <1>4, <1>5
<1>7. CASE Fails
  BY <1>1, <1>2, <1>6, <1>7, FailsStep
<1>8. CASE Answered
  <2>1. UNCHANGED vars
    BY <1>8 DEF Answered
  <2>2. \/ /\ step' = step + 1 /\ step < 6 /\ place' = "command"
        \/ /\ step' = 1 /\ step = 6 /\ place' = "listen"
    BY <1>2, <1>8 DEF Answered, Last
  <2>3. deadline' = IF step' = 3 THEN now' + SimTimeout ELSE deadline
    BY <1>8 DEF Answered, Cpin
  <2>4. TypeOK' /\ LostLinkIsNew' /\ NilIsCancelled'
    BY <1>2, <2>1, LoopAlone
  <2>5. SetupTypeOK'
    BY <1>2, <1>3, <2>1, <2>2, <2>3 DEF SetupInv, SetupTypeOK, Last, vars
  <2>6. OnTime'
    BY <1>2, <1>3, <1>4, <1>5, <2>1, <2>2 DEF OnTime, Late, vars
  <2>7. Stopping'
    BY <1>2, <1>3, <1>4, <1>5, <2>1, <2>2, <2>3 DEF SetupInv, Stopping, Spent, Cpin, vars
  <2>8. Deadlines' /\ TimeoutHonoured' /\ SleepsAtCpin'
    BY <1>2, <1>3, <2>2, <2>3 DEF SleepsAtCpin, Deadlines, TimeoutHonoured, Cpin
  <2> QED  BY <2>4, <2>5, <2>6, <2>7, <2>8 DEF SetupInv
<1>9. CASE /\ step = 3
           /\ now < readyAt
           /\ place' = IF now' + RetryDelay > deadline THEN "gaveUp" ELSE "sleep"
           /\ UNCHANGED <<vars, step, deadline>>
  <2>1. TypeOK' /\ LostLinkIsNew' /\ NilIsCancelled'
    BY <1>2, <1>9, LoopAlone
  <2>2. SetupTypeOK'
    BY <1>2, <1>3, <1>9 DEF SetupInv, SetupTypeOK, vars
  <2>3. OnTime'
    BY <1>2, <1>3, <1>4, <1>9 DEF OnTime, Late, vars
  <2>4. Stopping'
    BY <1>2, <1>3, <1>4, <1>5, <1>6, <1>9 DEF SetupInv, Stopping, Spent, Cpin, vars
  <2>5. Deadlines' /\ TimeoutHonoured' /\ SleepsAtCpin'
    BY <1>2, <1>3, <1>5, <1>9 DEF SleepsAtCpin, Deadlines, TimeoutHonoured, Cpin
  <2> QED  BY <2>1, <2>2, <2>3, <2>4, <2>5 DEF SetupInv
<1> QED  BY <1>7, <1>8, <1>9 DEF Command, CpinCommand, Cpin

LEMMA SleepStep == ASSUME SetupInv, Sleep PROVE SetupInv'
<1> USE Durations, Timeouts, Bounds, CommandsAdd, StraddleBounds
<1>1. /\ pc = "session" /\ place = "sleep" /\ place' = "command"
      /\ UNCHANGED vars /\ step' = step /\ deadline' = deadline
      /\ deadline \in Nat /\ now \in Nat /\ readyAt \in Nat /\ sinceCancel \in Nat
  BY DEF SetupInv, SetupTypeOK, Sleep
<1>2. /\ now' = now + RetryDelay /\ readyAt' = readyAt /\ now' \in Nat /\ sinceCancel' \in Nat
      /\ sinceCancel' <= sinceCancel + RetryDelay /\ (~cancelled => sinceCancel' = 0)
  BY Elapsed DEF Sleep
<1>3. TypeOK' /\ LostLinkIsNew' /\ NilIsCancelled'
  BY <1>1, LoopAlone
<1>4. SetupTypeOK'
  BY <1>1, <1>2 DEF SetupInv, SetupTypeOK, vars
<1>5. step = Cpin /\ Commands(2) \in Nat /\ Commands(Last) \in Nat /\ Commands(2) <= Commands(Last)
  BY DEF SetupInv, SleepsAtCpin, Sleep, Last
<1> HIDE DEF Commands
<1>6. OnTime'
  BY <1>1, <1>2, <1>5 DEF SetupInv, OnTime, Late, vars, Cpin
<1>7. Stopping'
  BY <1>1, <1>2, <1>5 DEF SetupInv, Deadlines, Stopping, Spent, vars, Cpin
<1>8. Deadlines' /\ TimeoutHonoured'
  BY <1>1, <1>2 DEF SetupInv, Deadlines, TimeoutHonoured
<1> QED  BY <1>1, <1>3, <1>4, <1>5, <1>6, <1>7, <1>8 DEF SetupInv, SleepsAtCpin

LEMMA EndStep == ASSUME SetupInv, GiveUp \/ Listen PROVE SetupInv'
<1> USE Timeouts, Bounds, StraddleBounds, Durations
<1>1. TypeOK'
  BY LoopTypes DEF SetupInv, GiveUp, Listen, EndSession, Next
<1>2. /\ pc' = "judge" /\ place' = "none" /\ cancelled' = cancelled /\ pc = "session"
      /\ UNCHANGED <<step, deadline, sinceCancel>>
      /\ \/ place = "gaveUp" /\ err' = "failed" /\ UNCHANGED <<now, readyAt>>
         \/ cancelled /\ err' = "nil" /\ UNCHANGED <<now, readyAt>>
         \/ err' = "closed" /\ now' = 0 /\ readyAt' \in Outages
  BY DEF GiveUp, Listen, EndSession, RunSession, clock
<1>3. SetupTypeOK'
  BY <1>2 DEF SetupInv, SetupTypeOK
<1>4. Commands(Last) \in Nat
  BY CommandsAdd DEF Last
<1> HIDE DEF Commands
<1>5. OnTime'
  <2>1. now' \in Nat /\ readyAt' \in Nat /\ now \in Nat /\ readyAt \in Nat
    BY <1>3 DEF SetupInv, SetupTypeOK
  <2>2. /\ now <= readyAt + Straddle + (MaxBackoff + O + Commands(Last))
        /\ place = "gaveUp" => now <= readyAt + Straddle + 0
    BY DEF SetupInv, OnTime, Late
  <2>3. /\ now' <= readyAt' + Straddle + (MaxBackoff + O + Commands(Last))
        /\ err' = "failed" => now' <= readyAt' + Straddle + 0
    <3>1. CASE err' = "closed" /\ now' = 0
      BY <1>4, <2>1, <3>1
    <3>2. CASE UNCHANGED <<now, readyAt>> /\ (err' = "failed" => place = "gaveUp")
      BY <1>4, <2>2, <3>2
    <3> QED  BY <1>2, <3>1, <3>2
  <2> QED  BY <1>2, <2>3 DEF OnTime, Late
<1>6. Stopping'
  BY <1>2 DEF SetupInv, Stopping, Spent
<1> QED
  BY <1>1, <1>2, <1>3, <1>5, <1>6
  DEF SetupInv, LostLinkIsNew, NilIsCancelled, SleepsAtCpin, Deadlines, TimeoutHonoured

LEMMA SetupStep == ASSUME SetupInv, [SetupNext]_setupVars PROVE SetupInv'
<1>1. CASE UNCHANGED setupVars \/ SetupStopped
  <2>1. UNCHANGED vars /\ UNCHANGED setup /\ UNCHANGED clock
    BY <1>1 DEF setupVars, SetupStopped, Stopped
  <2>2. TypeOK'
    BY <2>1, LoopTypes DEF SetupInv
  <2> QED
    BY <2>1, <2>2
    DEF vars, setup, clock, SetupInv, SetupTypeOK, OnTime, Late, LostLinkIsNew,
        NilIsCancelled, SleepsAtCpin, Deadlines, TimeoutHonoured, Stopping, Spent
<1> QED
  BY <1>1, SetupCancelStep, LoopStep, OpenStep, CommandStep, SleepStep, EndStep
  DEF SetupNext

LEMMA SetupInvariant == SetupSpec => []SetupInv
BY SetupInitHolds, SetupStep, PTL DEF SetupSpec

\* The types of the setup's state.
THEOREM SetupTypes == SetupSpec => []SetupTypeOK
BY SetupInvariant, PTL DEF SetupInv

\* With the setup inside, the loop still behaves as module Reconnect says.
THEOREM SetupImplementsLoop == SetupSpec => Spec
<1>1. SetupInit => Init
  BY DEF SetupInit
<1>2. [SetupNext]_setupVars => [Next]_vars
  BY SetupRefines DEF setupVars
<1> QED  BY <1>1, <1>2, PTL DEF SetupSpec, Spec

\* So the delays are those of the program whose sessions module Startup describes.
COROLLARY SetupDelaysDouble == SetupSpec => []DelayDoubles
BY SetupImplementsLoop, DelaysDouble

\* The way back to a session is bounded, for every outage and all durations:
\* OnTime bounds the arrival at each place of the loop and the setup.
THEOREM ConnectsSoon == SetupSpec => []ConnectsInTime
<1>1. SetupInv => ConnectsInTime
  BY Bounds, Durations, StraddleBounds, CommandsAdd, Timeouts
  DEF SetupInv, SetupTypeOK, OnTime, Late, ConnectsInTime, Straddle, Last
<1> QED  BY <1>1, SetupInvariant, PTL

\* The program waits for the SIM as long as it was told to, less one retry.
THEOREM SimAwaited == SetupSpec => []TimeoutHonoured
BY SetupInvariant, PTL DEF SetupInv

\* A shutdown takes a bounded time, wherever Ctrl-C falls.
THEOREM StopsSoon == SetupSpec => []StopsInTime
<1>1. SetupInv => StopsInTime
  BY Durations, CommandsAdd, Timeouts
  DEF SetupInv, SetupTypeOK, Stopping, Spent, StopsInTime, Last
<1> QED  BY <1>1, SetupInvariant, PTL
=============================================================================
