--------------------------- MODULE PipelineProofs ---------------------------
(***************************************************************************)
(* Proofs about the data plane, for every capacity, bound and setting.     *)
(***************************************************************************)
EXTENDS Pipeline, SequenceTheorems, TLAPS

-----------------------------------------------------------------------------
(* What the channel operations do to the elements of a channel.            *)

\* An empty channel holds nothing.
LEMMA ElementsEmpty == Elements(<<>>) = {}
  BY DEF Elements

\* A send adds the sent element and nothing else.
LEMMA ElementsAppend ==
  ASSUME NEW S, NEW s \in Seq(S), NEW x \in S
  PROVE  Elements(Append(s, x)) = Elements(s) \cup {x}
<1>1. /\ Len(Append(s, x)) = Len(s) + 1
      /\ \A i \in 1..Len(s) : Append(s, x)[i] = s[i]
      /\ Append(s, x)[Len(s) + 1] = x
  OBVIOUS
<1>2. DOMAIN s = 1..Len(s) /\ DOMAIN Append(s, x) = 1..(Len(s) + 1) /\ Len(s) \in Nat
  BY <1>1
<1>3. \A y \in Elements(s) \cup {x} : y \in Elements(Append(s, x))
  BY <1>1, <1>2 DEF Elements
<1>4. \A y \in Elements(Append(s, x)) : y \in Elements(s) \cup {x}
  BY <1>1, <1>2 DEF Elements
<1> QED BY <1>3, <1>4

\* A receive takes the head and leaves the rest.
LEMMA ElementsTail ==
  ASSUME NEW S, NEW s \in Seq(S), s # <<>>
  PROVE  /\ Head(s) \in S
         /\ Tail(s) \in Seq(S)
         /\ Len(Tail(s)) = Len(s) - 1
         /\ Elements(s) = {Head(s)} \cup Elements(Tail(s))
<1>1. /\ Head(s) \in S /\ Tail(s) \in Seq(S) /\ Len(Tail(s)) = Len(s) - 1
      /\ \A i \in 1..Len(Tail(s)) : Tail(s)[i] = s[i + 1]
  BY HeadTailProperties
<1>2. /\ DOMAIN s = 1..Len(s) /\ DOMAIN Tail(s) = 1..(Len(s) - 1)
      /\ Len(s) \in Nat \ {0} /\ Head(s) = s[1]
  BY <1>1, EmptySeq, LenProperties
<1>3. \A y \in Elements(s) : y \in {Head(s)} \cup Elements(Tail(s))
  <2> SUFFICES ASSUME NEW i \in 1..Len(s)
               PROVE  s[i] \in {Head(s)} \cup Elements(Tail(s))
    BY <1>2 DEF Elements
  <2>1. CASE i = 1
    BY <2>1, <1>2
  <2>2. CASE i # 1
    <3>1. i - 1 \in 1..Len(Tail(s)) /\ Tail(s)[i - 1] = s[i]
      BY <2>2, <1>1, <1>2
    <3> QED BY <3>1, <1>1, <1>2 DEF Elements
  <2> QED BY <2>1, <2>2
<1>4. \A y \in {Head(s)} \cup Elements(Tail(s)) : y \in Elements(s)
  BY <1>1, <1>2 DEF Elements
<1> QED BY <1>1, <1>3, <1>4

\* Only elements of the channel's type are in it.
LEMMA ElementsType ==
  ASSUME NEW S, NEW s \in Seq(S)
  PROVE  Elements(s) \subseteq S
  BY LenProperties DEF Elements

-----------------------------------------------------------------------------
(* Type correctness.                                                       *)

\* The three outcomes of a blocking send keep the queue well typed.
LEMMA EnqueueImportantType ==
  ASSUME important \in Seq(ImportantItem), Len(important) <= ImportantCap,
         NEW item \in ImportantItem, NEW done, EnqueueImportant(item, done)
  PROVE  important' \in Seq(ImportantItem) /\ Len(important') <= ImportantCap
  BY PipelineAssumption DEF EnqueueImportant

\* The items that producers enqueue are well typed.
LEMMA ItemTypes ==
  /\ \A n \in Nat : SmsItem(n) \in ImportantItem /\ ClosedItem(n) \in ImportantItem
  /\ ProbeItem \in ImportantItem
  BY DEF SmsItem, ClosedItem, ProbeItem, ImportantItem

\* What is queued or notified carries a number.
LEMMA ItemIds ==
  ASSUME TypeOK
  PROVE  \A item \in Elements(notified) \cup Elements(important) : item.id \in Nat
<1>1. Elements(notified) \cup Elements(important) \subseteq ImportantItem
  BY ElementsType DEF TypeOK
<1>2. \A item \in ImportantItem : item.id \in Nat
  BY DEF ImportantItem
<1> QED BY <1>1, <1>2

\* Saturating a channel's count keeps it within its capacity.
LEMMA SaturateType ==
  ASSUME NEW n \in Nat, NEW cap \in Nat
  PROVE  Saturate(n, cap) \in 0..cap
  BY DEF Saturate

\* Every step keeps every variable in its type.
LEMMA TypeStep ==
  ASSUME TypeOK, [Next]_vars
  PROVE  TypeOK'
<1> USE PipelineAssumption DEF TypeOK, LoopStates, sessionVars, chanVars, senderVars
<1>1. CASE Environment
  <2>1. CASE Cancel BY <2>1 DEF Cancel
  <2>2. CASE LinkDrops BY <2>2 DEF LinkDrops
  <2>3. CASE IndicateCMT
    BY <2>3, SaturateType DEF IndicateCMT, EmitRawLines
  <2>4. CASE IndicateOther
    <3>1. PICK n \in {1, 2} : rawLines' = Saturate(rawLines + n, RawLinesCap)
      BY <2>4 DEF IndicateOther, EmitRawLines
    <3>2. RawLinesCap \in Nat /\ rawLines + n \in Nat
      OBVIOUS
    <3>3. rawLines' \in 0..RawLinesCap
      BY <3>1, <3>2, SaturateType
    <3> QED BY <2>4, <3>3 DEF IndicateOther
  <2> QED BY <1>1, <2>1, <2>2, <2>3, <2>4 DEF Environment
<1>2. CASE Handler
  <2>1. CASE EmitSMSEvent
    <3>1. CASE Len(events) < EventsCap
      <4>1. /\ Append(events, accepted + 1) \in Seq(Nat)
            /\ Len(Append(events, accepted + 1)) = Len(events) + 1
        BY AppendProperties
      <4>2. events' \in Seq(Nat) /\ Len(events') <= EventsCap
        <5>1. events' = Append(events, accepted + 1)
          BY <2>1, <3>1 DEF EmitSMSEvent
        <5>2. Len(events) \in Nat
          BY LenProperties
        <5> QED BY ONLY <3>1, <4>1, <5>1, <5>2, PipelineAssumption
      <4>3. accepted' \in Nat /\ handlers' \in Nat
        BY <2>1, <3>1 DEF EmitSMSEvent
      <4>4. UNCHANGED <<cancelled, sessionVars, rawLines, senderVars, watchdog>>
        BY <2>1 DEF EmitSMSEvent
      <4> QED BY <4>2, <4>3, <4>4
    <3>2. CASE ~(Len(events) < EventsCap)
      BY <2>1, <3>2 DEF EmitSMSEvent
    <3> QED BY <3>1, <3>2
  <2>2. CASE ParseFails BY <2>2 DEF ParseFails
  <2> QED BY <1>2, <2>1, <2>2 DEF Handler
<1>3. CASE Loop
  <2>1. CASE Check BY <2>1 DEF Check
  <2>2. CASE OpenSucceeds BY <2>2 DEF OpenSucceeds
  <2>3. CASE OpenFails BY <2>3 DEF OpenFails
  <2>4. CASE InitSucceeds BY <2>4 DEF InitSucceeds
  <2>5. CASE InitFails BY <2>5 DEF InitFails
  <2>6. CASE ListenDone BY <2>6 DEF ListenDone
  <2>7. CASE ListenClosed BY <2>7 DEF ListenClosed
  <2>8. CASE ListenRaw
    <3>1. raw' \in 0..RawCap
      <4>1. RawCap \in Nat /\ raw + 1 \in Nat
        OBVIOUS
      <4>2. Saturate(raw + 1, RawCap) \in 0..RawCap
        BY <4>1, SaturateType
      <4>3. raw' = Saturate(raw + 1, RawCap) \/ raw' = raw
        BY <2>8 DEF ListenRaw, EnqueueRaw
      <4> QED BY <4>2, <4>3
    <3>2. rawLines' \in 0..RawLinesCap
      BY <2>8 DEF ListenRaw
    <3> QED BY <2>8, <3>1, <3>2 DEF ListenRaw
  <2>9. CASE ListenEvent
    <3>1. Head(events) \in Nat /\ Tail(events) \in Seq(Nat)
          /\ Len(Tail(events)) = Len(events) - 1
      BY <2>9, ElementsTail DEF ListenEvent
    <3> QED BY <3>1, <2>9, LenProperties DEF ListenEvent
  <2>10. CASE EnqueueSMS
    BY <2>10, EnqueueImportantType, ItemTypes DEF EnqueueSMS
  <2>11. CASE EnqueueClosedAlert
    BY <2>11, EnqueueImportantType, ItemTypes DEF EnqueueClosedAlert
  <2>12. CASE CloseSession BY <2>12, EmptySeq DEF CloseSession
  <2>13. CASE Judge BY <2>13 DEF Judge
  <2>14. CASE Wait BY <2>14 DEF Wait
  <2> QED BY <1>3, <2>1, <2>2, <2>3, <2>4, <2>5, <2>6, <2>7, <2>8, <2>9,
             <2>10, <2>11, <2>12, <2>13, <2>14 DEF Loop
<1>4. CASE Watchdog
  <2>1. CASE WatchdogFires BY <2>1 DEF WatchdogFires
  <2>2. CASE EnqueueProbeAlert
    BY <2>2, EnqueueImportantType, ItemTypes DEF EnqueueProbeAlert
  <2>3. CASE WatchdogStops BY <2>3 DEF WatchdogStops
  <2> QED BY <1>4, <2>1, <2>2, <2>3 DEF Watchdog
<1>5. CASE Worker
  <2>1. CASE TakeImportant
    <3>1. /\ Head(important) \in ImportantItem
          /\ Tail(important) \in Seq(ImportantItem)
          /\ Len(Tail(important)) = Len(important) - 1
      BY <2>1, ElementsTail DEF TakeImportant
    <3> QED BY <3>1, <2>1, LenProperties DEF TakeImportant
  <2>2. CASE TakeRaw BY <2>2 DEF TakeRaw
  <2>3. CASE NotifyReturns BY <2>3 DEF NotifyReturns
  <2>4. CASE WorkerStops BY <2>4 DEF WorkerStops
  <2> QED BY <1>5, <2>1, <2>2, <2>3, <2>4 DEF Worker
<1>6. CASE Startup
  <2>1. CASE RefuseConfig BY <2>1 DEF RefuseConfig
  <2>2. CASE InitializeFails BY <2>2 DEF InitializeFails
  <2>3. CASE Start BY <2>3 DEF Start
  <2> QED BY <1>6, <2>1, <2>2, <2>3 DEF Startup
<1>7. CASE BotCloses BY <1>7 DEF BotCloses
<1>8. CASE UNCHANGED vars \/ Exited
  BY <1>8 DEF vars, Exited
<1> QED BY <1>1, <1>2, <1>3, <1>4, <1>5, <1>6, <1>7, <1>8 DEF Next

\* The initial state is well typed.
LEMMA InitType ==
  ASSUME Init
  PROVE  TypeOK
<1>1. <<>> \in Seq(Nat) /\ <<>> \in Seq(ImportantItem) /\ Len(<<>>) = 0
  OBVIOUS
<1>2. 0 \in 0..RawLinesCap /\ 0 \in 0..RawCap /\ 0 <= EventsCap /\ 0 <= ImportantCap
  BY PipelineAssumption
<1> QED BY <1>1, <1>2 DEF Init, TypeOK, LoopStates

\* No state of the data plane leaves the types of TypeOK; in particular no
\* channel ever holds more than its capacity.
THEOREM TypeCorrect == Spec => []TypeOK
<1>1. Init => TypeOK
  BY InitType
<1>2. TypeOK /\ [Next]_vars => TypeOK'
  BY TypeStep
<1> QED BY <1>1, <1>2, PTL DEF Spec

-----------------------------------------------------------------------------
(* Order.                                                                  *)

\* A send keeps a channel in order when what is sent comes after the rest.
LEMMA InOrderAppend ==
  ASSUME NEW S, NEW s \in Seq(S), NEW x \in S, InOrder(s),
         \A y \in Elements(s) : Before(y, x)
  PROVE  InOrder(Append(s, x))
<1>1. /\ Append(s, x) \in Seq(S) /\ Len(Append(s, x)) = Len(s) + 1
      /\ \A i \in 1..Len(s) : Append(s, x)[i] = s[i]
      /\ Append(s, x)[Len(s) + 1] = x
  OBVIOUS
<1>2. DOMAIN s = 1..Len(s) /\ DOMAIN Append(s, x) = 1..(Len(s) + 1) /\ Len(s) \in Nat
  BY <1>1
<1> SUFFICES ASSUME NEW i \in 1..(Len(s) + 1), NEW j \in 1..(Len(s) + 1), i < j
             PROVE  Before(Append(s, x)[i], Append(s, x)[j])
  BY <1>2 DEF InOrder
<1>3. i \in 1..Len(s) /\ s[i] \in Elements(s)
  BY <1>2 DEF Elements
<1>4. CASE j = Len(s) + 1
  BY <1>1, <1>3, <1>4
<1>5. CASE j # Len(s) + 1
  <2>1. j \in 1..Len(s)
    BY <1>5, <1>2
  <2>2. Before(s[i], s[j])
    BY <1>2, <1>3, <2>1 DEF InOrder
  <2> QED BY <1>1, <1>3, <2>1, <2>2
<1> QED BY <1>4, <1>5

\* A receive keeps a channel in order, and takes what comes before the rest.
LEMMA InOrderTail ==
  ASSUME NEW S, NEW s \in Seq(S), s # <<>>, InOrder(s)
  PROVE  /\ InOrder(Tail(s))
         /\ \A y \in Elements(Tail(s)) : Before(Head(s), y)
<1>1. /\ Tail(s) \in Seq(S) /\ Len(Tail(s)) = Len(s) - 1
      /\ \A i \in 1..Len(Tail(s)) : Tail(s)[i] = s[i + 1]
  BY HeadTailProperties
<1>2. /\ DOMAIN s = 1..Len(s) /\ DOMAIN Tail(s) = 1..(Len(s) - 1)
      /\ Len(s) \in Nat \ {0} /\ Head(s) = s[1]
  BY <1>1, EmptySeq, LenProperties
<1>3. InOrder(Tail(s))
  BY <1>1, <1>2 DEF InOrder
<1>4. \A y \in Elements(Tail(s)) : Before(Head(s), y)
  BY <1>1, <1>2 DEF InOrder, Elements
<1> QED BY <1>3, <1>4

\* The same for an events channel: a send of a greater number.
LEMMA AscendingAppend ==
  ASSUME NEW s \in Seq(Nat), NEW x \in Nat, Ascending(s),
         \A y \in Elements(s) : y < x
  PROVE  Ascending(Append(s, x))
<1>1. /\ Append(s, x) \in Seq(Nat) /\ Len(Append(s, x)) = Len(s) + 1
      /\ \A i \in 1..Len(s) : Append(s, x)[i] = s[i]
      /\ Append(s, x)[Len(s) + 1] = x
  OBVIOUS
<1>2. DOMAIN s = 1..Len(s) /\ DOMAIN Append(s, x) = 1..(Len(s) + 1) /\ Len(s) \in Nat
  BY <1>1
<1> SUFFICES ASSUME NEW i \in 1..(Len(s) + 1), NEW j \in 1..(Len(s) + 1), i < j
             PROVE  Append(s, x)[i] < Append(s, x)[j]
  BY <1>2 DEF Ascending
<1>3. i \in 1..Len(s) /\ s[i] \in Elements(s)
  BY <1>2 DEF Elements
<1>4. CASE j = Len(s) + 1
  BY <1>1, <1>3, <1>4
<1>5. CASE j # Len(s) + 1
  <2>1. j \in 1..Len(s)
    BY <1>5, <1>2
  <2>2. s[i] < s[j]
    BY <1>2, <1>3, <2>1 DEF Ascending
  <2> QED BY <1>1, <1>3, <2>1, <2>2
<1> QED BY <1>4, <1>5

\* A receive from an events channel takes the smallest number.
LEMMA AscendingTail ==
  ASSUME NEW s \in Seq(Nat), s # <<>>, Ascending(s)
  PROVE  /\ Ascending(Tail(s))
         /\ \A y \in Elements(Tail(s)) : Head(s) < y
<1>1. /\ Tail(s) \in Seq(Nat) /\ Len(Tail(s)) = Len(s) - 1
      /\ \A i \in 1..Len(Tail(s)) : Tail(s)[i] = s[i + 1]
  BY HeadTailProperties
<1>2. /\ DOMAIN s = 1..Len(s) /\ DOMAIN Tail(s) = 1..(Len(s) - 1)
      /\ Len(s) \in Nat \ {0} /\ Head(s) = s[1]
  BY <1>1, EmptySeq, LenProperties
<1>3. Ascending(Tail(s))
  BY <1>1, <1>2 DEF Ascending
<1>4. \A y \in Elements(Tail(s)) : Head(s) < y
  BY <1>1, <1>2 DEF Ascending, Elements
<1> QED BY <1>3, <1>4
-----------------------------------------------------------------------------
(* The inductive invariant.  Its order parts read five variables only.     *)

\* A step that leaves the channels of SMS alone keeps their order.
LEMMA QueuesUntouched ==
  ASSUME QueueOrder, Upstream,
         UNCHANGED <<events, inLoop, important, notified, accepted>>
  PROVE  QueueOrder' /\ Upstream'
  BY DEF QueueOrder, Upstream

\* The steps that touch no channel of SMS keep the invariant.
LEMMA QuietStep ==
  ASSUME IndInv, TypeOK',
         UNCHANGED <<events, inLoop, important, notified, accepted>>,
         \/ UNCHANGED <<loop, session, link, handlers>>
         \/ LinkDrops \/ IndicateCMT \/ ParseFails \/ Check \/ OpenSucceeds
         \/ OpenFails \/ InitSucceeds \/ InitFails \/ ListenDone \/ ListenClosed
         \/ Judge \/ Wait \/ RefuseConfig \/ InitializeFails \/ Start \/ BotCloses
  PROVE  IndInv'
<1> USE DEF IndInv
<1>1. QueueOrder' /\ Upstream'
  BY QueuesUntouched
<1>2. LinkHeldInSession'
  BY DEF LinkHeldInSession, InSession, TypeOK, LinkDrops, IndicateCMT, ParseFails, Check,
         OpenSucceeds, OpenFails, InitSucceeds, InitFails, ListenDone, ListenClosed,
         Judge, Wait, RefuseConfig, InitializeFails, Start, BotCloses, sessionVars
<1>3. NoFalseClosedAlert'
  <2> SUFFICES ASSUME NEW item \in Elements(important) \cup Elements(notified),
                      item.kind = "closed"
               PROVE  /\ item.id <= session'
                      /\ item.id = session'
                           => loop' \notin {"init", "listen", "sms", "alert"}
    BY DEF NoFalseClosedAlert
  <2>1. item \in ImportantItem
    BY ElementsType DEF TypeOK
  <2>2. /\ item.id \in Nat /\ session \in Nat /\ item.id <= session
        /\ item.id = session => loop \notin {"init", "listen", "sms", "alert"}
    BY <2>1 DEF NoFalseClosedAlert, TypeOK, ImportantItem
  <2>3. \/ session' = session + 1
        \/ /\ session' = session
           /\ \/ loop' = loop
              \/ loop' \notin {"init", "listen", "sms", "alert"}
              \/ loop \in {"init", "listen", "sms", "alert"}
    BY DEF LinkDrops, IndicateCMT, ParseFails, Check,
           OpenSucceeds, OpenFails, InitSucceeds, InitFails, ListenDone, ListenClosed,
           Judge, Wait, RefuseConfig, InitializeFails, Start, BotCloses, sessionVars
  <2> QED BY <2>2, <2>3
<1>4. (inLoop' # 0) <=> (loop' = "sms")
  BY DEF LinkDrops, IndicateCMT, ParseFails, Check,
         OpenSucceeds, OpenFails, InitSucceeds, InitFails, ListenDone, ListenClosed,
         Judge, Wait, RefuseConfig, InitializeFails, Start, BotCloses, sessionVars
<1>5. accepted' + handlers' <= MaxSms
  <2>1. \/ handlers' = handlers
        \/ handlers' = handlers + 1 /\ accepted + handlers < MaxSms
        \/ handlers' = handlers - 1
    BY DEF LinkDrops, IndicateCMT, ParseFails, Check,
           OpenSucceeds, OpenFails, InitSucceeds, InitFails, ListenDone, ListenClosed,
           Judge, Wait, RefuseConfig, InitializeFails, Start, BotCloses, chanVars
  <2>2. /\ handlers \in Nat /\ accepted \in Nat /\ MaxSms \in Nat
        /\ accepted + handlers <= MaxSms /\ accepted' = accepted
    BY PipelineAssumption DEF TypeOK
  <2> QED BY <2>1, <2>2
<1> QED BY <1>1, <1>2, <1>3, <1>4, <1>5

\* Enqueueing an item that comes after all others keeps the sender's queue
\* in order.
LEMMA SendKeepsOrder ==
  ASSUME TypeOK, QueueOrder, NEW item \in ImportantItem,
         important' = Append(important, item), UNCHANGED <<notified, events>>,
         \A y \in Elements(notified) \cup Elements(important) : Before(y, item)
  PROVE  /\ QueueOrder'
         /\ Elements(important') = Elements(important) \cup {item}
<1>1. important \in Seq(ImportantItem)
  BY DEF TypeOK
<1>2. Elements(important') = Elements(important) \cup {item}
  BY <1>1, ElementsAppend
<1>3. InOrder(important')
  BY <1>1, InOrderAppend DEF QueueOrder
<1>4. \A a \in Elements(notified), b \in Elements(important') : Before(a, b)
  BY <1>2 DEF QueueOrder
<1> QED BY <1>2, <1>3, <1>4 DEF QueueOrder

\* A handler that emits its SMS keeps the invariant: the SMS is the newest.
LEMMA EmitStep ==
  ASSUME IndInv, TypeOK', EmitSMSEvent
  PROVE  IndInv'
<1> USE DEF IndInv
<1>1. CASE UNCHANGED <<events, accepted>>
  <2>1. handlers' = handlers - 1 /\ UNCHANGED <<loop, session, link, inLoop, important, notified>>
    BY DEF EmitSMSEvent, sessionVars, senderVars
  <2>2. QueueOrder' /\ Upstream'
    BY <1>1, <2>1, QueuesUntouched
  <2>3. LinkHeldInSession' /\ NoFalseClosedAlert' /\ ((inLoop' # 0) <=> (loop' = "sms"))
    BY <2>1 DEF LinkHeldInSession, NoFalseClosedAlert
  <2>4. accepted' + handlers' <= MaxSms
    BY <1>1, <2>1, PipelineAssumption DEF TypeOK
  <2> QED BY <2>2, <2>3, <2>4
<1>2. CASE events' = Append(events, accepted + 1) /\ accepted' = accepted + 1
  <2>1. handlers' = handlers - 1 /\ UNCHANGED <<loop, session, link, inLoop, important, notified>>
    BY DEF EmitSMSEvent, sessionVars, senderVars
  <2>2. events \in Seq(Nat) /\ accepted \in Nat /\ inLoop \in Nat /\ handlers \in Nat
    BY DEF TypeOK
  <2>3. Elements(events') = Elements(events) \cup {accepted + 1}
    BY <1>2, <2>2, ElementsAppend
  <2>4. \A n \in Elements(events) : n \in Nat /\ n < accepted + 1
    BY <2>2, ElementsType DEF Upstream
  <2>5. Ascending(events')
    BY <1>2, <2>2, <2>4, AscendingAppend DEF QueueOrder
  <2>6. QueueOrder'
    BY <2>1, <2>5 DEF QueueOrder
  <2>7. \A item \in Elements(notified) \cup Elements(important) : item.id \in Nat
    BY ItemIds
  <2>8. Upstream'
    <3>1. inLoop' <= accepted' /\ \A n \in Elements(events') : inLoop' < n /\ n <= accepted'
      BY <1>2, <2>1, <2>2, <2>3, <2>4 DEF Upstream
    <3>2. ASSUME NEW item \in Elements(notified) \cup Elements(important), item.kind = "sms"
          PROVE  /\ item.id <= accepted'
                 /\ inLoop' # 0 => item.id < inLoop'
                 /\ \A n \in Elements(events') : item.id < n
      BY <3>2, <1>2, <2>1, <2>2, <2>3, <2>7 DEF Upstream
    <3> QED BY <3>1, <3>2, <2>1 DEF Upstream
  <2>9. LinkHeldInSession' /\ NoFalseClosedAlert' /\ ((inLoop' # 0) <=> (loop' = "sms"))
    BY <2>1 DEF LinkHeldInSession, NoFalseClosedAlert
  <2>10. accepted' + handlers' <= MaxSms
    BY <1>2, <2>1, <2>2, PipelineAssumption
  <2> QED BY <2>6, <2>8, <2>9, <2>10
<1> QED BY <1>1, <1>2 DEF EmitSMSEvent

\* The loop takes the oldest event of its channel.
LEMMA ListenEventStep ==
  ASSUME IndInv, TypeOK', ListenEvent
  PROVE  IndInv'
<1> USE DEF IndInv
<1>1. /\ inLoop' = Head(events) /\ events' = Tail(events) /\ loop' = "sms" /\ loop = "listen"
      /\ UNCHANGED <<session, link, handlers, important, notified, accepted>>
      /\ events \in Seq(Nat) /\ events # <<>>
  BY DEF ListenEvent, senderVars, TypeOK
<1>2. /\ Head(events) \in Nat
      /\ Elements(events) = {Head(events)} \cup Elements(Tail(events))
  BY <1>1, ElementsTail
<1>3. Ascending(Tail(events)) /\ \A y \in Elements(Tail(events)) : Head(events) < y
  BY <1>1, AscendingTail DEF QueueOrder
<1>4. QueueOrder'
  BY <1>1, <1>3 DEF QueueOrder
<1>5. inLoop = 0 /\ Head(events) # 0
  BY <1>1, <1>2 DEF Upstream
<1>6. Upstream'
  BY <1>1, <1>2, <1>3, <1>5 DEF Upstream
<1>7. LinkHeldInSession' /\ NoFalseClosedAlert'
  BY <1>1 DEF LinkHeldInSession, NoFalseClosedAlert, InSession
<1> QED BY <1>1, <1>4, <1>5, <1>6, <1>7

\* The SMS in the loop is newer than those in the queue and older than those
\* in the events channel, whether it is enqueued or given up.
LEMMA EnqueueSMSStep ==
  ASSUME IndInv, TypeOK', EnqueueSMS
  PROVE  IndInv'
<1> USE DEF IndInv
<1>1. /\ inLoop' = 0 /\ loop = "sms" /\ loop' = "listen"
      /\ UNCHANGED <<session, link, handlers, events, notified, accepted>>
      /\ inLoop # 0 /\ inLoop \in Nat
  BY DEF EnqueueSMS, chanVars, TypeOK
<1>2. CASE UNCHANGED important
  <2>1. QueueOrder'
    BY <1>1, <1>2 DEF QueueOrder
  <2>2. \A n \in Elements(events) : n \in Nat /\ 0 < n
    BY <1>1, ElementsType DEF Upstream, TypeOK
  <2>3. Upstream'
    BY <1>1, <1>2, <2>2 DEF Upstream, TypeOK
  <2>4. LinkHeldInSession' /\ NoFalseClosedAlert'
    BY <1>1, <1>2 DEF LinkHeldInSession, NoFalseClosedAlert, InSession
  <2> QED BY <1>1, <2>1, <2>3, <2>4
<1>3. CASE important' = Append(important, SmsItem(inLoop))
  <2> DEFINE item == SmsItem(inLoop)
  <2>1. item \in ImportantItem /\ item.kind = "sms" /\ item.id = inLoop
    BY <1>1 DEF SmsItem, ImportantItem
  <2>2. \A y \in Elements(notified) \cup Elements(important) : Before(y, item)
    BY <1>1, <2>1 DEF Before, Upstream
  <2> HIDE DEF item
  <2>3. important' = Append(important, item)
    BY <1>3 DEF item
  <2>4. QueueOrder' /\ Elements(important') = Elements(important) \cup {item}
    BY <1>1, <2>1, <2>2, <2>3, SendKeepsOrder
  <2>5. \A n \in Elements(events) : n \in Nat /\ inLoop < n /\ n <= accepted
    BY <1>1, ElementsType DEF Upstream, TypeOK
  <2>6. \A y \in Elements(notified) \cup Elements(important) :
          y.kind = "sms" => /\ y.id <= accepted
                            /\ \A n \in Elements(events) : y.id < n
    BY DEF Upstream
  <2>7. Upstream'
    BY <1>1, <2>1, <2>4, <2>5, <2>6 DEF Upstream, TypeOK
  <2>8. LinkHeldInSession'
    BY <1>1 DEF LinkHeldInSession, InSession
  <2>9. NoFalseClosedAlert'
    BY <1>1, <2>1, <2>4 DEF NoFalseClosedAlert
  <2> QED BY <1>1, <2>4, <2>7, <2>8, <2>9
<1> QED BY <1>2, <1>3 DEF EnqueueSMS, EnqueueImportant

\* The alert that a session's connection closed is the newest of its kind.
LEMMA EnqueueClosedAlertStep ==
  ASSUME IndInv, TypeOK', EnqueueClosedAlert
  PROVE  IndInv'
<1> USE DEF IndInv
<1>1. /\ loop = "alert" /\ loop' = "close"
      /\ UNCHANGED <<session, link, handlers, events, inLoop, notified, accepted>>
      /\ session \in Nat
  BY DEF EnqueueClosedAlert, chanVars, TypeOK
<1>2. LinkHeldInSession' /\ ((inLoop' # 0) <=> (loop' = "sms"))
  BY <1>1 DEF LinkHeldInSession, InSession
<1>3. CASE UNCHANGED important
  <2>1. QueueOrder' /\ Upstream'
    BY <1>1, <1>3, QueuesUntouched
  <2>2. NoFalseClosedAlert'
    BY <1>1, <1>3 DEF NoFalseClosedAlert
  <2> QED BY <1>1, <1>2, <2>1, <2>2
<1>4. CASE important' = Append(important, ClosedItem(session))
  <2> DEFINE item == ClosedItem(session)
  <2>1. item \in ImportantItem /\ item.kind = "closed" /\ item.id = session
    BY <1>1 DEF ClosedItem, ImportantItem
  <2>2. \A y \in Elements(notified) \cup Elements(important) : Before(y, item)
    BY <1>1, <2>1, ItemIds DEF Before, NoFalseClosedAlert
  <2> HIDE DEF item
  <2>3. important' = Append(important, item)
    BY <1>4 DEF item
  <2>4. QueueOrder' /\ Elements(important') = Elements(important) \cup {item}
    BY <1>1, <2>1, <2>2, <2>3, SendKeepsOrder
  <2>5. Upstream'
    BY <1>1, <2>1, <2>4 DEF Upstream
  <2>6. NoFalseClosedAlert'
    BY <1>1, <2>1, <2>4, ItemIds DEF NoFalseClosedAlert
  <2> QED BY <1>1, <1>2, <2>4, <2>5, <2>6
<1> QED BY <1>3, <1>4 DEF EnqueueClosedAlert, EnqueueImportant

\* A probe alert may come at any place.
LEMMA EnqueueProbeAlertStep ==
  ASSUME IndInv, TypeOK', EnqueueProbeAlert
  PROVE  IndInv'
<1> USE DEF IndInv
<1>1. UNCHANGED <<loop, session, link, handlers, events, inLoop, notified, accepted>>
  BY DEF EnqueueProbeAlert, sessionVars, chanVars
<1>2. LinkHeldInSession'
  BY <1>1 DEF LinkHeldInSession
<1>3. CASE UNCHANGED important
  <2>1. QueueOrder' /\ Upstream'
    BY <1>1, <1>3, QueuesUntouched
  <2>2. NoFalseClosedAlert'
    BY <1>1, <1>3 DEF NoFalseClosedAlert
  <2> QED BY <1>1, <1>2, <2>1, <2>2
<1>4. CASE important' = Append(important, ProbeItem)
  <2>1. ProbeItem \in ImportantItem /\ ProbeItem.kind = "probe"
    BY DEF ProbeItem, ImportantItem
  <2>2. \A y \in Elements(notified) \cup Elements(important) : Before(y, ProbeItem)
    BY <2>1 DEF Before
  <2>3. QueueOrder' /\ Elements(important') = Elements(important) \cup {ProbeItem}
    BY <1>1, <1>4, <2>1, <2>2, SendKeepsOrder
  <2>4. Upstream' /\ NoFalseClosedAlert'
    BY <1>1, <2>1, <2>3 DEF Upstream, NoFalseClosedAlert
  <2> QED BY <1>1, <1>2, <2>3, <2>4
<1> QED BY <1>3, <1>4 DEF EnqueueProbeAlert, EnqueueImportant

\* Closing the session empties its events channel.
LEMMA CloseSessionStep ==
  ASSUME IndInv, TypeOK', CloseSession
  PROVE  IndInv'
<1> USE DEF IndInv
<1>1. /\ loop = "close" /\ loop' = "judge" /\ link' = "none" /\ handlers' = 0 /\ events' = <<>>
      /\ UNCHANGED <<session, inLoop, important, notified, accepted>>
  BY DEF CloseSession, senderVars
<1>2. Elements(events') = {}
  BY <1>1, ElementsEmpty
<1>3. Ascending(events')
  BY <1>1 DEF Ascending
<1>4. QueueOrder' /\ Upstream'
  BY <1>1, <1>2, <1>3 DEF QueueOrder, Upstream
<1>5. LinkHeldInSession' /\ NoFalseClosedAlert'
  BY <1>1 DEF LinkHeldInSession, NoFalseClosedAlert, InSession
<1>6. accepted' + handlers' <= MaxSms
  <2>1. accepted \in Nat /\ handlers \in Nat /\ MaxSms \in Nat /\ accepted + handlers <= MaxSms
    BY PipelineAssumption DEF TypeOK
  <2> QED BY <1>1, <2>1
<1> QED BY <1>1, <1>4, <1>5, <1>6

\* The worker passes on what comes before the rest of the queue and after all
\* that was passed on before.
LEMMA TakeImportantStep ==
  ASSUME IndInv, TypeOK', TakeImportant
  PROVE  IndInv'
<1> USE DEF IndInv
<1> DEFINE item == Head(important)
<1>1. /\ important # <<>> /\ important' = Tail(important)
      /\ UNCHANGED <<loop, session, link, handlers, events, inLoop, accepted>>
      /\ important \in Seq(ImportantItem) /\ notified \in Seq(ImportantItem)
      /\ notified' = notified \/ notified' = Append(notified, item)
  BY DEF TakeImportant, sessionVars, chanVars, TypeOK
<1>2. /\ item \in ImportantItem
      /\ Elements(important) = {item} \cup Elements(important')
  BY <1>1, ElementsTail
<1>3. InOrder(important') /\ \A y \in Elements(important') : Before(item, y)
  BY <1>1, InOrderTail DEF QueueOrder
<1>4. \A y \in Elements(notified) : Before(y, item)
  BY <1>2 DEF QueueOrder
<1> HIDE DEF item
<1>5. /\ Elements(notified') \subseteq Elements(notified) \cup {item}
      /\ InOrder(notified')
  <2>1. CASE notified' = notified
    BY <2>1 DEF QueueOrder
  <2>2. CASE notified' = Append(notified, item)
    BY <2>2, <1>1, <1>2, <1>4, ElementsAppend, InOrderAppend DEF QueueOrder
  <2> QED BY <1>1, <2>1, <2>2
<1>6. QueueOrder'
  BY <1>1, <1>2, <1>3, <1>5 DEF QueueOrder
<1>7. Elements(notified') \cup Elements(important')
        \subseteq Elements(notified) \cup Elements(important)
  BY <1>2, <1>5
<1>8. Upstream' /\ NoFalseClosedAlert'
  BY <1>1, <1>7 DEF Upstream, NoFalseClosedAlert
<1>9. LinkHeldInSession'
  BY <1>1 DEF LinkHeldInSession
<1> QED BY <1>1, <1>6, <1>8, <1>9

\* Init establishes the invariant and every step keeps it.
THEOREM IndInvariant == Spec => []IndInv
<1>1. Init => IndInv
  <2> SUFFICES ASSUME Init PROVE IndInv
    OBVIOUS
  <2>1. Elements(events) = {} /\ Elements(important) = {} /\ Elements(notified) = {}
    BY ElementsEmpty DEF Init
  <2>2. QueueOrder
    BY <2>1 DEF Init, QueueOrder, InOrder, Ascending
  <2>3. Upstream /\ NoFalseClosedAlert /\ LinkHeldInSession
    BY <2>1 DEF Init, Upstream, NoFalseClosedAlert, LinkHeldInSession, InSession
  <2>4. accepted + handlers <= MaxSms /\ ((inLoop # 0) <=> (loop = "sms"))
    BY PipelineAssumption DEF Init
  <2>5. TypeOK
    BY InitType
  <2> QED BY <2>2, <2>3, <2>4, <2>5 DEF IndInv
<1>2. IndInv /\ [Next]_vars => IndInv'
  <2> SUFFICES ASSUME IndInv, [Next]_vars PROVE IndInv'
    OBVIOUS
  <2> USE DEF sessionVars, chanVars, senderVars
  <2>0. TypeOK'
    BY TypeStep DEF IndInv
  <2>1. CASE Environment
    <3>1. CASE Cancel BY <2>0, <3>1, QuietStep DEF Cancel
    <3>2. CASE LinkDrops BY <2>0, <3>2, QuietStep DEF LinkDrops
    <3>3. CASE IndicateCMT BY <2>0, <3>3, QuietStep DEF IndicateCMT
    <3>4. CASE IndicateOther BY <2>0, <3>4, QuietStep DEF IndicateOther
    <3> QED BY <2>1, <3>1, <3>2, <3>3, <3>4 DEF Environment
  <2>2. CASE Handler
    <3>1. CASE EmitSMSEvent BY <2>0, <3>1, EmitStep
    <3>2. CASE ParseFails BY <2>0, <3>2, QuietStep DEF ParseFails
    <3> QED BY <2>2, <3>1, <3>2 DEF Handler
  <2>3. CASE Loop
    <3>1. CASE Check BY <2>0, <3>1, QuietStep DEF Check
    <3>2. CASE OpenSucceeds BY <2>0, <3>2, QuietStep DEF OpenSucceeds
    <3>3. CASE OpenFails BY <2>0, <3>3, QuietStep DEF OpenFails
    <3>4. CASE InitSucceeds BY <2>0, <3>4, QuietStep DEF InitSucceeds
    <3>5. CASE InitFails BY <2>0, <3>5, QuietStep DEF InitFails
    <3>6. CASE ListenDone BY <2>0, <3>6, QuietStep DEF ListenDone
    <3>7. CASE ListenClosed BY <2>0, <3>7, QuietStep DEF ListenClosed
    <3>8. CASE ListenRaw BY <2>0, <3>8, QuietStep DEF ListenRaw
    <3>9. CASE ListenEvent BY <2>0, <3>9, ListenEventStep
    <3>10. CASE EnqueueSMS BY <2>0, <3>10, EnqueueSMSStep
    <3>11. CASE EnqueueClosedAlert BY <2>0, <3>11, EnqueueClosedAlertStep
    <3>12. CASE CloseSession BY <2>0, <3>12, CloseSessionStep
    <3>13. CASE Judge BY <2>0, <3>13, QuietStep DEF Judge
    <3>14. CASE Wait BY <2>0, <3>14, QuietStep DEF Wait
    <3> QED BY <2>3, <3>1, <3>2, <3>3, <3>4, <3>5, <3>6, <3>7, <3>8, <3>9,
               <3>10, <3>11, <3>12, <3>13, <3>14 DEF Loop
  <2>4. CASE Watchdog
    <3>1. CASE WatchdogFires BY <2>0, <3>1, QuietStep DEF WatchdogFires
    <3>2. CASE EnqueueProbeAlert BY <2>0, <3>2, EnqueueProbeAlertStep
    <3>3. CASE WatchdogStops BY <2>0, <3>3, QuietStep DEF WatchdogStops
    <3> QED BY <2>4, <3>1, <3>2, <3>3 DEF Watchdog
  <2>5. CASE Worker
    <3>1. CASE TakeImportant BY <2>0, <3>1, TakeImportantStep
    <3>2. CASE TakeRaw BY <2>0, <3>2, QuietStep DEF TakeRaw
    <3>3. CASE NotifyReturns BY <2>0, <3>3, QuietStep DEF NotifyReturns
    <3>4. CASE WorkerStops BY <2>0, <3>4, QuietStep DEF WorkerStops
    <3> QED BY <2>5, <3>1, <3>2, <3>3, <3>4 DEF Worker
  <2>6. CASE Startup
    <3>1. CASE RefuseConfig BY <2>0, <3>1, QuietStep DEF RefuseConfig
    <3>2. CASE InitializeFails BY <2>0, <3>2, QuietStep DEF InitializeFails
    <3>3. CASE Start BY <2>0, <3>3, QuietStep DEF Start
    <3> QED BY <2>6, <3>1, <3>2, <3>3 DEF Startup
  <2>7. CASE BotCloses BY <2>0, <2>7, QuietStep DEF BotCloses
  <2>8. CASE UNCHANGED vars \/ Exited
    BY <2>0, <2>8, QuietStep DEF vars, Exited
  <2> QED BY <2>1, <2>2, <2>3, <2>4, <2>5, <2>6, <2>7, <2>8 DEF Next
<1> QED BY <1>1, <1>2, PTL DEF Spec

\* No SMS and no closed-session alert is passed to Notify twice or out of
\* order, whatever the capacities, the number of sessions and their ends.
THEOREM InOrderDelivery == Spec => []NotifiedInOrder
<1>1. IndInv => NotifiedInOrder
  BY DEF IndInv, QueueOrder, NotifiedInOrder
<1> QED BY <1>1, IndInvariant, PTL

\* The port is open exactly while a session runs.
THEOREM PortHeldInSession == Spec => []LinkHeldInSession
<1>1. IndInv => LinkHeldInSession
  BY DEF IndInv
<1> QED BY <1>1, IndInvariant, PTL

\* No queued or sent alert reports a session that still listens as closed.
THEOREM ClosedAlertsTrue == Spec => []NoFalseClosedAlert
<1>1. IndInv => NoFalseClosedAlert
  BY DEF IndInv
<1> QED BY <1>1, IndInvariant, PTL

-----------------------------------------------------------------------------
(* No silent loss, and the refinement of SmsFeed.                          *)

SmsId(item) == IF item.kind = "sms" THEN {item.id} ELSE {}

\* The SMS of a queue after a send and before a receive.
LEMMA SmsIdsOfQueue ==
  ASSUME NEW s \in Seq(ImportantItem)
  PROVE  /\ \A x \in ImportantItem : SmsIds(Append(s, x)) = SmsIds(s) \cup SmsId(x)
         /\ s # <<>> => SmsIds(s) = SmsId(Head(s)) \cup SmsIds(Tail(s))
<1>1. ASSUME NEW x \in ImportantItem
      PROVE  SmsIds(Append(s, x)) = SmsIds(s) \cup SmsId(x)
  <2>1. Elements(Append(s, x)) = Elements(s) \cup {x}
    BY ElementsAppend
  <2> QED BY <2>1 DEF SmsIds, SmsId
<1>2. ASSUME s # <<>>
      PROVE  SmsIds(s) = SmsId(Head(s)) \cup SmsIds(Tail(s))
  <2>1. Elements(s) = {Head(s)} \cup Elements(Tail(s))
    BY <1>2, ElementsTail
  <2> QED BY <2>1 DEF SmsIds, SmsId
<1> QED BY <1>1, <1>2

\* What the invariant says of the SMS by number: those notified come before
\* those queued, before the one in the loop, before those in the channel.
LEMMA SmsOrder ==
  ASSUME IndInv
  PROVE  /\ \A m \in NotifiedSms, n \in SmsIds(important) : m < n
         /\ \A n \in NotifiedSms \cup SmsIds(important) :
              /\ n \in Nat /\ n <= accepted
              /\ inLoop # 0 => n < inLoop
              /\ \A k \in Elements(events) : n < k
         /\ \A k \in Elements(events) : k \in Nat /\ inLoop < k /\ k <= accepted
         /\ inLoop \in Nat /\ inLoop <= accepted /\ accepted \in Nat
<1> USE DEF IndInv
<1>1. \A m \in NotifiedSms, n \in SmsIds(important) : m < n
  BY DEF NotifiedSms, SmsIds, QueueOrder, Before
<1>2. \A n \in NotifiedSms \cup SmsIds(important) :
        /\ n \in Nat /\ n <= accepted
        /\ inLoop # 0 => n < inLoop
        /\ \A k \in Elements(events) : n < k
  BY ItemIds DEF NotifiedSms, SmsIds, Upstream
<1>3. \A k \in Elements(events) : k \in Nat /\ inLoop < k /\ k <= accepted
  BY ElementsType DEF Upstream, TypeOK
<1>4. inLoop \in Nat /\ inLoop <= accepted /\ accepted \in Nat
  BY DEF Upstream, TypeOK
<1> QED BY <1>1, <1>2, <1>3, <1>4

\* The steps that move no SMS: at most a cancellation for SmsFeed.
LEMMA QuietMaps ==
  ASSUME UNCHANGED <<events, inLoop, SmsIds(important), SmsIds(notified), accepted>>,
         cancelled' = cancelled \/ cancelled' = TRUE
  PROVE  LossStep /\ [Feed!Next]_(Feed!feedVars)
<1>1. UNCHANGED <<Pending, NotifiedSms, accepted>>
  BY DEF Pending, NotifiedSms
<1>2. LossStep
  BY <1>1 DEF LossStep
<1>3. CASE cancelled' = cancelled
  BY <1>1, <1>2, <1>3 DEF Feed!feedVars
<1>4. CASE cancelled' = TRUE
  BY <1>1, <1>2, <1>4 DEF Feed!Next, Feed!Stop
<1> QED BY <1>3, <1>4

\* A handler's SMS is accepted, or dropped before it was.
LEMMA EmitMaps ==
  ASSUME IndInv, EmitSMSEvent
  PROVE  LossStep /\ [Feed!Next]_(Feed!feedVars)
<1>1. UNCHANGED <<cancelled, inLoop, important, notified>>
  BY DEF EmitSMSEvent, sessionVars, senderVars
<1>2. CASE UNCHANGED <<events, accepted>>
  BY <1>1, <1>2, QuietMaps
<1>3. CASE events' = Append(events, accepted + 1) /\ accepted' = accepted + 1
  <2>1. Elements(events') = Elements(events) \cup {accepted + 1}
    BY <1>3, ElementsAppend DEF IndInv, TypeOK
  <2>2. Pending' = Pending \cup {accepted + 1} /\ NotifiedSms' = NotifiedSms
    BY <1>1, <2>1 DEF Pending, NotifiedSms
  <2>3. accepted < MaxSms
    <3>1. /\ accepted \in Nat /\ handlers \in Nat /\ handlers > 0
          /\ MaxSms \in Nat /\ accepted + handlers <= MaxSms
      BY PipelineAssumption DEF EmitSMSEvent, IndInv, TypeOK
    <3> QED BY <3>1
  <2>4. Feed!Accept
    BY <1>1, <1>3, <2>2, <2>3 DEF Feed!Accept
  <2>5. LossStep
    BY <2>2 DEF LossStep
  <2> QED BY <2>4, <2>5 DEF Feed!Next
<1> QED BY <1>2, <1>3 DEF EmitSMSEvent

\* Taking an event from the channel leaves it pending.
LEMMA ListenEventMaps ==
  ASSUME IndInv, ListenEvent
  PROVE  LossStep /\ [Feed!Next]_(Feed!feedVars)
<1>1. /\ inLoop = 0 /\ inLoop' = Head(events) /\ events' = Tail(events)
      /\ events \in Seq(Nat) /\ events # <<>>
      /\ UNCHANGED <<cancelled, important, notified, accepted>>
  BY DEF ListenEvent, senderVars, IndInv, TypeOK
<1>2. Elements(events) = {Head(events)} \cup Elements(events')
  BY <1>1, ElementsTail
<1>3. Head(events) # 0
  BY <1>1, <1>2, SmsOrder
<1>4. UNCHANGED <<Pending, NotifiedSms>>
  BY <1>1, <1>2, <1>3 DEF Pending, NotifiedSms
<1> QED BY <1>1, <1>4 DEF LossStep, Feed!feedVars

\* The SMS in the loop stays pending, or is abandoned after cancellation.
LEMMA EnqueueSMSMaps ==
  ASSUME IndInv, EnqueueSMS
  PROVE  LossStep /\ [Feed!Next]_(Feed!feedVars)
<1>1. /\ inLoop' = 0 /\ loop = "sms" /\ inLoop # 0 /\ inLoop \in Nat
      /\ UNCHANGED <<cancelled, events, notified, accepted>>
  BY DEF EnqueueSMS, chanVars, IndInv, TypeOK
<1>2. CASE important' = Append(important, SmsItem(inLoop))
  <2>1. SmsItem(inLoop) \in ImportantItem /\ SmsId(SmsItem(inLoop)) = {inLoop}
    BY <1>1 DEF SmsItem, ImportantItem, SmsId
  <2>2. SmsIds(important') = SmsIds(important) \cup {inLoop}
    BY <1>2, <2>1, SmsIdsOfQueue DEF IndInv, TypeOK
  <2>3. UNCHANGED <<Pending, NotifiedSms>>
    BY <1>1, <2>2 DEF Pending, NotifiedSms
  <2> QED BY <1>1, <2>3 DEF LossStep, Feed!feedVars
<1>3. CASE cancelled /\ UNCHANGED important
  <2>1. inLoop \notin Elements(events) /\ inLoop \notin SmsIds(important)
    BY <1>1, SmsOrder
  <2>2. Pending' = Pending \ {inLoop} /\ NotifiedSms' = NotifiedSms /\ inLoop \in Pending
    BY <1>1, <1>3, <2>1 DEF Pending, NotifiedSms
  <2>3. Feed!Abandon
    BY <1>1, <1>3, <2>2 DEF Feed!Abandon
  <2>4. LossStep
    BY <1>1, <1>3, <2>2 DEF LossStep
  <2> QED BY <2>3, <2>4 DEF Feed!Next
<1> QED BY <1>2, <1>3 DEF EnqueueSMS, EnqueueImportant

\* Alerts are no SMS.
LEMMA EnqueueAlertMaps ==
  ASSUME IndInv, EnqueueClosedAlert \/ EnqueueProbeAlert
  PROVE  LossStep /\ [Feed!Next]_(Feed!feedVars)
<1>1. PICK item \in {ClosedItem(session), ProbeItem}, done \in {cancelled, WatchdogDone} :
             EnqueueImportant(item, done)
  BY DEF EnqueueClosedAlert, EnqueueProbeAlert
<1>2. item \in ImportantItem /\ SmsId(item) = {}
  BY DEF ClosedItem, ProbeItem, ImportantItem, SmsId, IndInv, TypeOK
<1>3. SmsIds(important') = SmsIds(important)
  <2>1. important \in Seq(ImportantItem)
    BY DEF IndInv, TypeOK
  <2>2. SmsIds(Append(important, item)) = SmsIds(important) \cup SmsId(item)
    BY <1>2, <2>1, SmsIdsOfQueue
  <2>3. important' = Append(important, item) \/ important' = important
    BY <1>1 DEF EnqueueImportant
  <2> QED BY <1>2, <2>2, <2>3
<1>4. UNCHANGED <<cancelled, events, inLoop, notified, accepted>>
  BY DEF EnqueueClosedAlert, EnqueueProbeAlert, sessionVars, chanVars
<1> QED BY <1>3, <1>4, QuietMaps

\* The end of a session gives up the newest SMS: those still in its channel.
LEMMA CloseSessionMaps ==
  ASSUME IndInv, CloseSession
  PROVE  LossStep /\ [Feed!Next]_(Feed!feedVars)
<1>1. /\ loop = "close" /\ inLoop = 0 /\ events \in Seq(Nat) /\ Elements(events') = {}
      /\ UNCHANGED <<cancelled, inLoop, important, notified, accepted>>
  BY ElementsEmpty DEF CloseSession, senderVars, IndInv, TypeOK
<1>2. /\ Pending = Elements(events) \cup SmsIds(important)
      /\ Pending' = SmsIds(important)
      /\ NotifiedSms' = NotifiedSms
  BY <1>1 DEF Pending, NotifiedSms
<1>3. LossStep
  BY <1>1, <1>2 DEF LossStep
<1>4. \E k \in 0..accepted : Pending' = {n \in Pending : n <= k}
  <2>1. CASE events = <<>>
    <3>1. Pending' = {n \in Pending : n <= accepted} /\ accepted \in 0..accepted
      BY <2>1, <1>2, ElementsEmpty, SmsOrder
    <3> QED BY <3>1
  <2>2. CASE events # <<>>
    <3>1. /\ Head(events) \in Elements(events)
          /\ Head(events) \in Nat \ {0} /\ Head(events) <= accepted
          /\ \A k \in Elements(events) : k \in Nat /\ Head(events) <= k
      <4>1. Elements(events) = {Head(events)} \cup Elements(Tail(events))
        BY <1>1, <2>2, ElementsTail
      <4>2. \A y \in Elements(Tail(events)) : Head(events) < y
        BY <1>1, <2>2, AscendingTail DEF IndInv, QueueOrder
      <4> QED BY <4>1, <4>2, <1>1, SmsOrder
    <3>2. Head(events) - 1 \in 0..accepted
      BY <3>1, SmsOrder
    <3>3. \A n \in SmsIds(important) : n \in Nat /\ n < Head(events)
      BY <3>1, SmsOrder
    <3>4. Pending' = {n \in Pending : n <= Head(events) - 1}
      BY <1>2, <3>1, <3>3
    <3> QED BY <3>2, <3>4
  <2> QED BY <2>1, <2>2
<1>5. Feed!Disconnect
  BY <1>1, <1>2, <1>4 DEF Feed!Disconnect
<1> QED BY <1>3, <1>5 DEF Feed!Next

\* The worker takes the oldest pending SMS, or an alert.
LEMMA TakeImportantMaps ==
  ASSUME IndInv, TakeImportant
  PROVE  LossStep /\ [Feed!Next]_(Feed!feedVars)
<1> DEFINE item == Head(important)
<1>1. /\ important # <<>> /\ important' = Tail(important)
      /\ UNCHANGED <<cancelled, events, inLoop, accepted>>
      /\ important \in Seq(ImportantItem) /\ notified \in Seq(ImportantItem)
      /\ item \in ImportantItem
      /\ notified' = IF item = ProbeItem THEN notified ELSE Append(notified, item)
  BY ElementsTail DEF TakeImportant, sessionVars, chanVars, IndInv, TypeOK
<1>2. SmsIds(important) = SmsId(item) \cup SmsIds(important')
  BY <1>1, SmsIdsOfQueue
<1>3. \A y \in Elements(important') : Before(item, y)
  BY <1>1, InOrderTail DEF IndInv, QueueOrder
<1> HIDE DEF item
<1>4. SmsIds(notified') = SmsIds(notified) \cup SmsId(item)
  <2>1. CASE item = ProbeItem
    BY <2>1, <1>1 DEF ProbeItem, SmsId
  <2>2. CASE item # ProbeItem
    BY <2>2, <1>1, SmsIdsOfQueue
  <2> QED BY <2>1, <2>2
<1>5. CASE item.kind # "sms"
  <2>1. SmsId(item) = {}
    BY <1>5 DEF SmsId
  <2> QED BY <2>1, <1>1, <1>2, <1>4, QuietMaps
<1>6. CASE item.kind = "sms"
  <2> DEFINE n == item.id
  <2>1. SmsId(item) = {n}
    BY <1>6 DEF SmsId
  <2>2. \A m \in SmsIds(important') : n < m
    BY <1>3, <1>6 DEF SmsIds, Before
  <2>3. n \in SmsIds(important)
    BY <1>2, <2>1
  <2>4. /\ \A m \in NotifiedSms : m < n
        /\ n \in Nat
        /\ inLoop # 0 => n < inLoop
        /\ \A k \in Elements(events) : n < k
        /\ \A m \in SmsIds(important) : m \in Nat
        /\ \A k \in Elements(events) : k \in Nat
        /\ inLoop \in Nat
    BY <2>3, SmsOrder
  <2> HIDE DEF n
  <2>6. n \in Pending
    BY <2>3 DEF Pending
  <2>7. Pending' = Pending \ {n}
    <3>1. n \notin Elements(events) /\ n \notin {inLoop} \ {0} /\ n \notin SmsIds(important')
      BY <1>2, <2>2, <2>4
    <3> QED BY <3>1, <1>1, <1>2, <2>1 DEF Pending
  <2>8. \A m \in Pending : n <= m
    BY <1>2, <2>1, <2>2, <2>4 DEF Pending
  <2>9. NotifiedSms' = NotifiedSms \cup {n}
    BY <1>4, <2>1 DEF NotifiedSms
  <2>10. Feed!Send
    BY <1>1, <2>4, <2>6, <2>7, <2>8, <2>9 DEF Feed!Send
  <2>11. LossStep
    BY <2>7, <2>9 DEF LossStep
  <2> QED BY <2>10, <2>11 DEF Feed!Next
<1> QED BY <1>5, <1>6

\* Every step of the data plane loses no SMS silently, and is a step or a
\* stutter of SmsFeed.
LEMMA StepMaps ==
  ASSUME IndInv, [Next]_vars
  PROVE  LossStep /\ [Feed!Next]_(Feed!feedVars)
<1> USE DEF sessionVars, chanVars, senderVars
<1>1. CASE Environment
  <2>1. CASE Cancel BY <2>1, QuietMaps DEF Cancel
  <2>2. CASE LinkDrops BY <2>2, QuietMaps DEF LinkDrops
  <2>3. CASE IndicateCMT BY <2>3, QuietMaps DEF IndicateCMT
  <2>4. CASE IndicateOther BY <2>4, QuietMaps DEF IndicateOther
  <2> QED BY <1>1, <2>1, <2>2, <2>3, <2>4 DEF Environment
<1>2. CASE Handler
  <2>1. CASE ParseFails BY <2>1, QuietMaps DEF ParseFails
  <2> QED BY <1>2, <2>1, EmitMaps DEF Handler
<1>3. CASE Loop
  <2>1. CASE Check BY <2>1, QuietMaps DEF Check
  <2>2. CASE OpenSucceeds BY <2>2, QuietMaps DEF OpenSucceeds
  <2>3. CASE OpenFails BY <2>3, QuietMaps DEF OpenFails
  <2>4. CASE InitSucceeds BY <2>4, QuietMaps DEF InitSucceeds
  <2>5. CASE InitFails BY <2>5, QuietMaps DEF InitFails
  <2>6. CASE ListenDone BY <2>6, QuietMaps DEF ListenDone
  <2>7. CASE ListenClosed BY <2>7, QuietMaps DEF ListenClosed
  <2>8. CASE ListenRaw BY <2>8, QuietMaps DEF ListenRaw
  <2>9. CASE Judge BY <2>9, QuietMaps DEF Judge
  <2>10. CASE Wait BY <2>10, QuietMaps DEF Wait
  <2>11. CASE ListenEvent BY <2>11, ListenEventMaps
  <2>12. CASE EnqueueSMS BY <2>12, EnqueueSMSMaps
  <2>13. CASE EnqueueClosedAlert BY <2>13, EnqueueAlertMaps
  <2>14. CASE CloseSession BY <2>14, CloseSessionMaps
  <2> QED BY <1>3, <2>1, <2>2, <2>3, <2>4, <2>5, <2>6, <2>7, <2>8, <2>9, <2>10,
             <2>11, <2>12, <2>13, <2>14 DEF Loop
<1>4. CASE Watchdog
  <2>1. CASE WatchdogFires BY <2>1, QuietMaps DEF WatchdogFires
  <2>2. CASE EnqueueProbeAlert BY <2>2, EnqueueAlertMaps
  <2>3. CASE WatchdogStops BY <2>3, QuietMaps DEF WatchdogStops
  <2> QED BY <1>4, <2>1, <2>2, <2>3 DEF Watchdog
<1>5. CASE Worker
  <2>1. CASE TakeImportant BY <2>1, TakeImportantMaps
  <2>2. CASE TakeRaw BY <2>2, QuietMaps DEF TakeRaw
  <2>3. CASE NotifyReturns BY <2>3, QuietMaps DEF NotifyReturns
  <2>4. CASE WorkerStops BY <2>4, QuietMaps DEF WorkerStops
  <2> QED BY <1>5, <2>1, <2>2, <2>3, <2>4 DEF Worker
<1>6. CASE Startup
  <2>1. CASE RefuseConfig BY <2>1, QuietMaps DEF RefuseConfig
  <2>2. CASE InitializeFails BY <2>2, QuietMaps DEF InitializeFails
  <2>3. CASE Start BY <2>3, QuietMaps DEF Start
  <2> QED BY <1>6, <2>1, <2>2, <2>3 DEF Startup
<1>7. CASE BotCloses BY <1>7, QuietMaps DEF BotCloses
<1>8. CASE UNCHANGED vars \/ Exited
  BY <1>8, QuietMaps DEF vars, Exited
<1> QED BY <1>1, <1>2, <1>3, <1>4, <1>5, <1>6, <1>7, <1>8 DEF Next

\* An accepted SMS is given up only by the end of its session, or after
\* cancellation at the sender's full queue.
THEOREM LossIsBounded == Spec => NoSilentLoss
<1>1. IndInv /\ [Next]_vars => [LossStep]_vars
  BY StepMaps
<1> QED BY <1>1, IndInvariant, PTL DEF Spec, NoSilentLoss

\* The data plane implements the promise of SmsFeed.
THEOREM Refinement == Spec => ImplementsFeed
<1>1. Init => Feed!Init
  <2> SUFFICES ASSUME Init PROVE Feed!Init
    OBVIOUS
  <2>1. Elements(events) = {} /\ Elements(important) = {} /\ Elements(notified) = {}
    BY ElementsEmpty DEF Init
  <2> QED BY <2>1 DEF Init, Feed!Init, Pending, NotifiedSms, SmsIds
<1>2. IndInv /\ [Next]_vars => [Feed!Next]_(Feed!feedVars)
  BY StepMaps
<1> QED BY <1>1, <1>2, IndInvariant, PTL DEF Spec, ImplementsFeed, Feed!Spec

=============================================================================
