--------------------------- MODULE ModemModesProofs ---------------------------
(***************************************************************************)
(* Proofs about ModemModes, for every set of handlers and actions and all  *)
(* bounds.                                                                 *)
(***************************************************************************)
EXTENDS ModemModes, TLAPS

USE DEF Booted, Pushing, Lists

\* Behind +CMGF=1 of modem.Init the modem is in text mode.
InitProgress == loop = "init" /\ ~bootedHere /\ step > 5 => modem.text

\* A storage action under way, even one from an earlier session, is asked for.
StorageTracked ==
  \A h \in Handlers : running[h] = "enable_sms_storage" => storageAsked

\* Where a handler is in its action, and what it knows of the modem.
Placed(h) ==
  IF running[h] = None THEN next[h] = 1 /\ outcome[h] = "none" /\ ~rebooted[h]
  ELSE next[h] <= Len(Commands(h)) + 1

TextModeSet(h) ==
  running[h] # None /\ next[h] = 2 /\ Commands(h)[1] = "CMGF_text" /\ ~rebooted[h]
    => modem.text

IndInv ==
  /\ TypeOK
  /\ InitProgress
  /\ PushWhileListening
  /\ StorageTracked
  /\ \A h \in Handlers : Placed(h) /\ TextModeSet(h)
  /\ ListingsReadable

-----------------------------------------------------------------------------
\* What the table of actions guarantees: a listing and a storage command come
\* second, right behind +CMGF=1.
LEMMA ActionTable ==
  ASSUME NEW id \in DOMAIN actionsByID
  PROVE  /\ Len(actionsByID[id]) \in 1..6
         /\ actionsByID[id][1] = "CMGF_text" => Len(actionsByID[id]) = 2
         /\ \A i \in 1..Len(actionsByID[id]) :
              /\ actionsByID[id][i] \in Lists => i = 2 /\ actionsByID[id][1] = "CMGF_text"
              /\ actionsByID[id][i] = "CNMI_store" => id = "enable_sms_storage"
<1>1. id \in {"status_summary", "signal", "registration", "operator", "sim", "module",
              "sms_unread", "sms_all", "sms_storage", "enable_sms_storage",
              "function_mode", "enable_sms_push", "reset"}
  BY DEF actionsByID
<1>2. CASE id \in {"status_summary", "signal", "registration", "operator", "sim"}
  BY <1>2 DEF actionsByID
<1>3. CASE id \in {"module", "sms_unread", "sms_all", "sms_storage"}
  BY <1>3 DEF actionsByID
<1>4. CASE id \in {"enable_sms_storage", "function_mode", "enable_sms_push", "reset"}
  BY <1>4 DEF actionsByID
<1> QED  BY <1>1, <1>2, <1>3, <1>4

-----------------------------------------------------------------------------
LEMMA InitLength == Len(InitCommands) = 6
BY DEF InitCommands

LEMMA InitHolds == Init => IndInv
<1> SUFFICES ASSUME Init PROVE IndInv
  OBVIOUS
<1>1. TypeOK
  <2>1. 1 \in 1..Len(InitCommands) /\ 1 \in 1..7
    BY InitLength
  <2>2. 0 \in 0..MaxFaults
    BY ModesAssumption
  <2>3. /\ modem \in [text : BOOLEAN, route : {"none", "store", "push"}]
        /\ place \in [Sms -> {"air", "pushed", "unread", "read"}]
        /\ listing \in [Handlers -> SUBSET Sms]
        /\ shown \subseteq Sms
    BY DEF Init
  <2>4. /\ running \in [Handlers -> ActionIDs \cup {None}]
        /\ next \in [Handlers -> 1..7]
        /\ outcome \in [Handlers -> {"none", "ok", "garbled", "failed"}]
        /\ rebooted \in [Handlers -> BOOLEAN]
    BY <2>1 DEF Init
  <2> QED  BY <2>1, <2>2, <2>3, <2>4 DEF Init, TypeOK
<1>2. InitProgress /\ PushWhileListening
  BY DEF Init, InitProgress, PushWhileListening
<1>3. StorageTracked /\ ListingsReadable
  BY ModesAssumption DEF Init, StorageTracked, ListingsReadable, actionsByID
<1>4. \A h \in Handlers : Placed(h) /\ TextModeSet(h)
  BY DEF Init, Placed, TextModeSet
<1> QED  BY <1>1, <1>2, <1>3, <1>4 DEF IndInv

\* The types of the variables that commands and reboots change.
ModemTypes ==
  /\ place \in [Sms -> {"air", "pushed", "unread", "read"}]
  /\ modem \in [text : BOOLEAN, route : {"none", "store", "push"}]
  /\ link \in BOOLEAN
  /\ rebooted \in [Handlers -> BOOLEAN]
  /\ bootedHere \in BOOLEAN

\* A command that does not boot the modem leaves the histories alone.
Kept(cmd) == UNCHANGED <<bootedHere, rebooted>> /\ modem' \in {modem, After(cmd)}

\* The modes that a command keeps, and those that it sets.
LEMMA AfterModes ==
  ASSUME TypeOK, NEW cmd
  PROVE  /\ After(cmd) \in [text : BOOLEAN, route : {"none", "store", "push"}]
         /\ modem.text \/ cmd = "CMGF_text" => After(cmd).text
         /\ cmd # "CNMI_store" /\ modem.route = "push" => After(cmd).route = "push"
         /\ cmd = "CNMI_push" => After(cmd).route = "push"
BY DEF TypeOK, After

LEMMA PushingModes ==
  ASSUME modem \in [text : BOOLEAN, route : {"none", "store", "push"}]
  PROVE  modem = Pushing <=> modem.text /\ modem.route = "push"
OBVIOUS

LEMMA BootType == ASSUME TypeOK, Boot, UNCHANGED place PROVE ModemTypes'
BY DEF TypeOK, Boot, ModemTypes

\* What a command may do to the modem, heard or not.
LEMMA Effect ==
  ASSUME TypeOK, NEW cmd, Obey(cmd) \/ Ignore
  PROVE  ModemTypes' /\ (Boot \/ Kept(cmd))
<1>1. CASE Ignore
  BY <1>1 DEF Ignore, Kept, ModemTypes, TypeOK
<1>2. CASE Obey(cmd)
  <2>1. place' \in [Sms -> {"air", "pushed", "unread", "read"}]
    <3>1. place' = [s \in Sms |-> IF s \in Listed(cmd) THEN "read" ELSE place[s]]
      BY <1>2 DEF Obey
    <3>2. \A s \in Sms : place[s] \in {"air", "pushed", "unread", "read"}
      BY DEF TypeOK
    <3> QED  BY <3>1, <3>2
  <2>2. CASE Boot
    BY <2>1, <2>2 DEF TypeOK, Boot, ModemTypes
  <2>3. CASE modem' = After(cmd) /\ UNCHANGED <<link, rebooted, bootedHere>>
    BY <2>1, <2>3, AfterModes DEF TypeOK, Kept, ModemTypes
  <2> QED  BY <1>2, <2>2, <2>3 DEF Obey
<1> QED  BY <1>1, <1>2

LEMMA AnsweredEffect ==
  ASSUME TypeOK, NEW cmd, Answered(cmd)
  PROVE  /\ ModemTypes' /\ faults' \in 0..MaxFaults
         /\ Boot \/ (Kept(cmd) /\ modem' = After(cmd))
<1>1. Obey(cmd) /\ faults' \in 0..MaxFaults
  BY ModesAssumption DEF Answered, Fault, TypeOK
<1>2. ModemTypes'
  BY <1>1, Effect
<1> QED  BY <1>1, <1>2 DEF Obey, Kept

LEMMA FailedEffect ==
  ASSUME TypeOK, NEW cmd, NEW connected \in BOOLEAN, Failed(cmd, connected)
  PROVE  ModemTypes' /\ faults' \in 0..MaxFaults /\ (Boot \/ Kept(cmd))
<1>1. faults' \in 0..MaxFaults /\ (Ignore \/ Obey(cmd))
  BY ModesAssumption DEF Failed, Fault, TypeOK, Ignore
<1> QED  BY <1>1, Effect

-----------------------------------------------------------------------------
\* A handler that takes no step keeps its invariants, whatever a command does.
LEMMA ClientKept ==
  ASSUME IndInv, NEW cmd, Boot \/ Kept(cmd), NEW g \in Handlers,
         running'[g] = running[g], next'[g] = next[g], outcome'[g] = outcome[g]
  PROVE  /\ Placed(g)' /\ TextModeSet(g)'
         /\ outcome'[g] = "garbled" => rebooted'[g]
<1>1. /\ Placed(g) /\ TextModeSet(g) /\ TypeOK
      /\ outcome[g] = "garbled" => rebooted[g]
  BY DEF IndInv, ListingsReadable
<1>2. CASE Boot
  <2>1. rebooted'[g] = (running[g] # None)
    BY <1>2 DEF Boot
  <2> QED  BY <1>1, <2>1 DEF Placed, TextModeSet, Commands
<1>3. CASE Kept(cmd)
  <2>1. rebooted' = rebooted /\ (modem.text => modem'.text)
    BY <1>1, <1>3, AfterModes DEF Kept
  <2> QED  BY <1>1, <2>1 DEF Placed, TextModeSet, Commands
<1> QED  BY <1>2, <1>3

\* So do all of them together.
LEMMA ClientsKept ==
  ASSUME IndInv, NEW cmd, Boot \/ Kept(cmd), UNCHANGED clientVars
  PROVE  (\A g \in Handlers : Placed(g) /\ TextModeSet(g))' /\ ListingsReadable'
BY ClientKept DEF clientVars, ListingsReadable

\* The session's invariants under anything but a storage command.
LEMMA SessionKept ==
  ASSUME IndInv, NEW cmd, Boot \/ Kept(cmd), ModemTypes', UNCHANGED sessionVars,
         cmd = "CNMI_store" => storageAsked, storageAsked => storageAsked'
  PROVE  InitProgress' /\ PushWhileListening'
<1>1. CASE Boot
  BY <1>1 DEF Boot, InitProgress, PushWhileListening
<1>2. CASE Kept(cmd)
  <2>1. (modem.text => modem'.text) /\ bootedHere' = bootedHere
    BY <1>2, AfterModes DEF Kept, IndInv
  <2>2. InitProgress'
    BY <2>1 DEF IndInv, InitProgress, sessionVars
  <2>3. ASSUME modem = Pushing, cmd # "CNMI_store" PROVE modem' = Pushing
    <3>1. After(cmd).text /\ After(cmd).route = "push"
      BY <2>3, AfterModes DEF IndInv
    <3>2. After(cmd) \in [text : BOOLEAN, route : {"none", "store", "push"}]
      BY AfterModes DEF IndInv
    <3> QED  BY <1>2, <2>3, <3>1, <3>2 DEF Kept
  <2> QED  BY <2>1, <2>2, <2>3 DEF IndInv, PushWhileListening, sessionVars
<1> QED  BY <1>1, <1>2

LEMMA OpenSessionStep == ASSUME IndInv, OpenSession PROVE IndInv'
<1>1. TypeOK'
  <2>1. loop' \in {"idle", "init", "listen"} /\ bootedHere' \in BOOLEAN
    BY DEF OpenSession
  <2>2. step' \in 1..Len(InitCommands)
    BY InitLength DEF OpenSession
  <2>3. storageAsked' \in BOOLEAN
    BY DEF OpenSession
  <2> QED  BY <2>1, <2>2, <2>3 DEF IndInv, TypeOK, OpenSession, clientVars
<1>2. InitProgress' /\ PushWhileListening'
  BY DEF OpenSession, InitProgress, PushWhileListening
<1>3. StorageTracked'
  BY DEF OpenSession, StorageTracked, clientVars
<1>4. (\A g \in Handlers : Placed(g) /\ TextModeSet(g))' /\ ListingsReadable'
  BY DEF IndInv, OpenSession, Placed, TextModeSet, Commands, ListingsReadable, clientVars
<1> QED  BY <1>1, <1>2, <1>3, <1>4 DEF IndInv

\* The last two commands of modem.Init establish direct push in text mode.
LEMMA InitCommandStep == ASSUME IndInv, InitCommand PROVE IndInv'
<1> DEFINE cmd == InitCommands[step]
<1>1. step \in 1..6 /\ step' \in 1..6 /\ loop' \in {"idle", "init", "listen"}
  <2>1. step \in 1..6
    BY InitLength DEF IndInv, TypeOK
  <2>2. \/ step < 6 /\ step' = step + 1 /\ loop' = loop
        \/ step' = 1 /\ loop' \in {"idle", "listen"}
    BY InitLength DEF InitCommand
  <2> QED  BY <2>1, <2>2 DEF InitCommand
<1>2. ModemTypes' /\ faults' \in 0..MaxFaults /\ (Boot \/ Kept(cmd))
  BY AnsweredEffect, FailedEffect DEF IndInv, InitCommand
<1>3. TypeOK'
  BY <1>1, <1>2, InitLength DEF IndInv, TypeOK, ModemTypes, InitCommand, clientVars
<1>4. InitProgress' /\ PushWhileListening'
  <2>1. CASE loop' = "idle"
    BY <2>1 DEF InitProgress, PushWhileListening
  <2>2. CASE Boot
    BY <2>2 DEF Boot, InitProgress, PushWhileListening
  <2>3. CASE loop' # "idle" /\ ~Boot
    <3>1. Answered(cmd) /\ modem' = After(cmd) /\ bootedHere' = bootedHere
      BY <2>3, AnsweredEffect DEF IndInv, InitCommand, Kept
    <3>2. loop = "init"
          /\ IF step < 6 THEN step' = step + 1 /\ loop' = "init"
             ELSE step' = 1 /\ loop' = "listen"
      BY <2>3, InitLength DEF InitCommand
    <3>3. step = 5 => cmd = "CMGF_text"
      BY DEF InitCommands
    <3>4. step = 6 => cmd = "CNMI_push"
      BY DEF InitCommands
    <3>5. InitProgress'
      BY <1>1, <3>1, <3>2, <3>3, AfterModes DEF IndInv, InitProgress
    <3>6. ASSUME step = 6, ~bootedHere PROVE modem' = Pushing
      <4>1. After(cmd).text /\ After(cmd).route = "push"
        BY <3>2, <3>4, <3>6, AfterModes DEF IndInv, InitProgress
      <4> QED  BY <3>1, <4>1, AfterModes DEF IndInv
    <3> QED  BY <1>1, <3>1, <3>2, <3>5, <3>6 DEF PushWhileListening
  <2> QED  BY <2>1, <2>2, <2>3
<1>5. StorageTracked'
  BY DEF IndInv, InitCommand, StorageTracked, clientVars
<1>6. (\A g \in Handlers : Placed(g) /\ TextModeSet(g))' /\ ListingsReadable'
  BY <1>2, ClientsKept DEF InitCommand
<1> QED  BY <1>3, <1>4, <1>5, <1>6 DEF IndInv

LEMMA SessionEndsStep == ASSUME IndInv, SessionEnds PROVE IndInv'
BY DEF IndInv, SessionEnds, TypeOK, InitProgress, PushWhileListening, StorageTracked,
       Placed, TextModeSet, Commands, ListingsReadable, clientVars, histories

\* Only the modes, the session, the clients and the histories matter to IndInv.
LEMMA Untouched ==
  ASSUME IndInv, TypeOK', UNCHANGED <<sessionVars, modem, clientVars, histories>>
  PROVE  IndInv'
<1>1. InitProgress' /\ PushWhileListening' /\ StorageTracked' /\ ListingsReadable'
  BY DEF IndInv, InitProgress, PushWhileListening, StorageTracked, ListingsReadable,
         sessionVars, clientVars, histories
<1>2. (\A g \in Handlers : Placed(g) /\ TextModeSet(g))'
  BY DEF IndInv, Placed, TextModeSet, Commands, clientVars, histories
<1> QED  BY <1>1, <1>2 DEF IndInv

LEMMA ModemStep == ASSUME IndInv, Modem PROVE IndInv'
<1>1. ASSUME NEW s \in Sms, Arrive(s) PROVE IndInv'
  <2>1. place' \in [Sms -> {"air", "pushed", "unread", "read"}]
    BY <1>1 DEF IndInv, TypeOK, Arrive
  <2> QED  BY <1>1, <2>1, Untouched
    DEF IndInv, TypeOK, Arrive, sessionVars, clientVars, histories
<1>2. CASE Reboot
  <2>1. ModemTypes' /\ (Boot \/ Kept("RESET"))
    BY <1>2, BootType DEF IndInv, Reboot
  <2>2. TypeOK'
    BY <1>2, <2>1, ModesAssumption
    DEF IndInv, TypeOK, ModemTypes, Reboot, Fault, sessionVars, clientVars
  <2>3. InitProgress' /\ PushWhileListening'
    BY <1>2 DEF Reboot, Boot, InitProgress, PushWhileListening
  <2>4. StorageTracked'
    BY <1>2 DEF IndInv, Reboot, StorageTracked, clientVars
  <2>5. (\A g \in Handlers : Placed(g) /\ TextModeSet(g))' /\ ListingsReadable'
    BY <1>2, <2>1, ClientsKept DEF Reboot
  <2> QED  BY <2>2, <2>3, <2>4, <2>5 DEF IndInv
<1>3. CASE LinkDrops \/ LinkReturns
  <2>1. UNCHANGED <<sessionVars, modem, place, clientVars, shown, histories>>
    BY <1>3 DEF LinkDrops, LinkReturns
  <2>2. link' \in BOOLEAN /\ faults' \in 0..MaxFaults
    <3>1. CASE LinkDrops
      <4>1. link' = FALSE /\ faults < MaxFaults /\ faults' = faults + 1
        BY <3>1 DEF LinkDrops, Fault
      <4>2. faults \in 0..MaxFaults
        BY DEF IndInv, TypeOK
      <4>3. faults' \in 0..MaxFaults
        BY <4>1, <4>2, ModesAssumption
      <4> QED  BY <4>1, <4>3
    <3>2. CASE LinkReturns
      BY <3>2 DEF LinkReturns, IndInv, TypeOK
    <3> QED  BY <1>3, <3>1, <3>2
  <2> QED  BY <2>1, <2>2, Untouched DEF IndInv, TypeOK, sessionVars, clientVars, histories
<1> QED  BY <1>1, <1>2, <1>3 DEF Modem

-----------------------------------------------------------------------------
LEMMA HandleActionStep ==
  ASSUME IndInv, NEW h \in Handlers, NEW id \in ActionIDs, HandleAction(h, id)
  PROVE  IndInv'
<1>1. TypeOK'
  <2>1. running' \in [Handlers -> ActionIDs \cup {None}] /\ storageAsked' \in BOOLEAN
    BY DEF IndInv, TypeOK, HandleAction
  <2> QED  BY <2>1 DEF IndInv, TypeOK, HandleAction, sessionVars
<1>2. InitProgress' /\ PushWhileListening'
  BY DEF IndInv, HandleAction, InitProgress, PushWhileListening, sessionVars
<1>3. StorageTracked'
  BY DEF IndInv, TypeOK, HandleAction, StorageTracked
<1>4. ASSUME NEW g \in Handlers PROVE Placed(g)' /\ TextModeSet(g)'
  <2>1. CASE g = h
    <3>1. running'[g] = id /\ id # None /\ next'[g] = 1
      BY <2>1, ModesAssumption DEF IndInv, TypeOK, Placed, HandleAction
    <3>2. Len(actionsByID[id]) \in 1..6
      BY ActionTable, ModesAssumption
    <3> QED  BY <3>1, <3>2 DEF Placed, TextModeSet, Commands
  <2>2. CASE g # h
    <3>1. running'[g] = running[g]
      BY <2>2 DEF IndInv, TypeOK, HandleAction
    <3> QED  BY <3>1 DEF IndInv, HandleAction, Placed, TextModeSet, Commands
  <2> QED  BY <2>1, <2>2
<1>5. ListingsReadable'
  BY DEF IndInv, HandleAction, ListingsReadable
<1> QED  BY <1>1, <1>2, <1>3, <1>4, <1>5 DEF IndInv

LEMMA ReplyStep == ASSUME IndInv, NEW h \in Handlers, Reply(h) PROVE IndInv'
<1>1. /\ running' = [running EXCEPT ![h] = None]
      /\ next' = [next EXCEPT ![h] = 1]
      /\ outcome' = [outcome EXCEPT ![h] = "none"]
      /\ listing' = [listing EXCEPT ![h] = {}]
      /\ rebooted' = [rebooted EXCEPT ![h] = FALSE]
      /\ UNCHANGED <<sessionVars, link, modem, place, bootedHere, storageAsked>>
  BY DEF Reply
<1>2. shown' \subseteq Sms /\ faults' \in 0..MaxFaults
  <2>1. FirstListed(listing[h]) \subseteq Sms
    BY DEF IndInv, TypeOK, FirstListed
  <2> QED  BY <2>1, ModesAssumption DEF Reply, Fault, IndInv, TypeOK
<1>3. TypeOK'
  <2>1. /\ running' \in [Handlers -> ActionIDs \cup {None}]
        /\ next' \in [Handlers -> 1..7]
        /\ outcome' \in [Handlers -> {"none", "ok", "garbled", "failed"}]
        /\ listing' \in [Handlers -> SUBSET Sms]
        /\ rebooted' \in [Handlers -> BOOLEAN]
    BY <1>1 DEF IndInv, TypeOK
  <2> QED  BY <1>1, <1>2, <2>1 DEF IndInv, TypeOK, sessionVars
<1>4. InitProgress' /\ PushWhileListening'
  BY <1>1 DEF IndInv, InitProgress, PushWhileListening, sessionVars
<1>5. StorageTracked'
  BY <1>1, ModesAssumption DEF IndInv, TypeOK, StorageTracked, actionsByID
<1>6. ASSUME NEW g \in Handlers
      PROVE  Placed(g)' /\ TextModeSet(g)' /\ (outcome'[g] = "garbled" => rebooted'[g])
  <2>1. CASE g = h
    <3>1. running'[g] = None /\ next'[g] = 1 /\ outcome'[g] = "none" /\ ~rebooted'[g]
      BY <1>1, <2>1 DEF IndInv, TypeOK
    <3> QED  BY <3>1 DEF Placed, TextModeSet
  <2>2. CASE g # h
    <3>1. /\ running'[g] = running[g] /\ next'[g] = next[g]
          /\ outcome'[g] = outcome[g] /\ rebooted'[g] = rebooted[g]
      BY <1>1, <2>2 DEF IndInv, TypeOK
    <3> QED  BY <1>1, <3>1 DEF IndInv, Placed, TextModeSet, Commands, ListingsReadable
  <2> QED  BY <2>1, <2>2
<1> QED  BY <1>3, <1>4, <1>5, <1>6 DEF IndInv, ListingsReadable

\* A listing is the second command, behind the +CMGF=1 that TextModeSet remembers.
LEMMA RunCommandStep == ASSUME IndInv, NEW h \in Handlers, RunCommand(h) PROVE IndInv'
<1> DEFINE cmd == Commands(h)[next[h]]
           last == Len(Commands(h))
<1>1. /\ running[h] \in ActionIDs /\ running[h] # None
      /\ next[h] \in 1..last /\ last \in 1..6
      /\ Commands(h)[1] = "CMGF_text" => last = 2
      /\ cmd \in Lists => next[h] = 2 /\ Commands(h)[1] = "CMGF_text"
      /\ cmd = "CNMI_store" => running[h] = "enable_sms_storage"
  <2>1. running[h] \in ActionIDs /\ running[h] # None /\ next[h] \in 1..7
    BY DEF IndInv, TypeOK, RunCommand
  <2>2. running[h] \in DOMAIN actionsByID
    BY <2>1, ModesAssumption
  <2>3. next[h] \in 1..last
    BY <2>1, <2>2, ActionTable DEF RunCommand, Commands
  <2> QED  BY <2>1, <2>2, <2>3, ActionTable DEF Commands
<1>2. ModemTypes' /\ faults' \in 0..MaxFaults /\ (Boot \/ Kept(cmd))
  BY AnsweredEffect, FailedEffect DEF IndInv, RunCommand
<1>3. \/ /\ Boot \/ (Kept(cmd) /\ modem' = After(cmd))
         /\ next' = [next EXCEPT ![h] = @ + 1]
         /\ outcome' = [outcome EXCEPT ![h] = Result(cmd)]
         /\ listing' = [listing EXCEPT ![h] = IF modem.text THEN Listed(cmd) ELSE {}]
      \/ /\ next' = [next EXCEPT ![h] = last + 1]
         /\ outcome' = [outcome EXCEPT ![h] = "failed"]
         /\ UNCHANGED listing
  BY AnsweredEffect DEF IndInv, RunCommand
<1>4. UNCHANGED <<sessionVars, running, shown, storageAsked>>
  BY DEF RunCommand
<1>5. TypeOK'
  <2>1. Listed(cmd) \subseteq Sms
    BY DEF Listed, Stored
  <2>2. Result(cmd) \in {"ok", "garbled"}
    BY DEF Result
  <2>3. next[h] + 1 \in 1..7 /\ last + 1 \in 1..7
    <3> HIDE DEF last
    <3> QED  BY <1>1
  <2>4. /\ next' \in [Handlers -> 1..7]
        /\ outcome' \in [Handlers -> {"none", "ok", "garbled", "failed"}]
        /\ listing' \in [Handlers -> SUBSET Sms]
    BY <1>3, <2>1, <2>2, <2>3 DEF IndInv, TypeOK
  <2> QED  BY <1>2, <1>4, <2>4 DEF IndInv, TypeOK, ModemTypes, sessionVars
<1>6. InitProgress' /\ PushWhileListening'
  <2>1. cmd = "CNMI_store" => storageAsked
    BY <1>1 DEF IndInv, StorageTracked
  <2> HIDE DEF cmd
  <2> QED  BY <1>2, <1>4, <2>1, SessionKept
<1>7. StorageTracked'
  BY <1>4 DEF IndInv, StorageTracked
<1>8. ASSUME NEW g \in Handlers
      PROVE  Placed(g)' /\ TextModeSet(g)' /\ (outcome'[g] = "garbled" => rebooted'[g])
  <2>1. CASE g # h
    <3>1. running'[g] = running[g] /\ next'[g] = next[g] /\ outcome'[g] = outcome[g]
      BY <1>3, <1>4, <2>1 DEF IndInv, TypeOK
    <3> HIDE DEF cmd
    <3> QED  BY <1>2, <3>1, ClientKept
  <2>2. CASE g = h
    <3>1. /\ running'[h] = running[h] /\ Commands(h)' = Commands(h)
          /\ next'[h] \in {next[h] + 1, last + 1}
      BY <1>3, <1>4 DEF IndInv, TypeOK, Commands
    <3>2. Placed(h)'
      BY <1>1, <3>1 DEF Placed
    <3>3. TextModeSet(h)'
      <4>1. SUFFICES ASSUME next'[h] = 2, Commands(h)[1] = "CMGF_text", ~rebooted'[h]
                     PROVE  modem'.text
        BY <3>1 DEF TextModeSet
      <4>2. last = 2 /\ next[h] = 1 /\ cmd = "CMGF_text" /\ ~Boot
        <5>1. last = 2 /\ ~Boot
          BY <1>1, <4>1 DEF Boot
        <5>2. next[h] = 1
          <6> HIDE DEF last, cmd
          <6> QED  BY <1>1, <3>1, <4>1, <5>1
        <5> QED  BY <4>1, <5>1, <5>2
      <4>3. modem' = After(cmd)
        BY <1>1, <1>3, <4>1, <4>2 DEF IndInv, TypeOK
      <4> QED  BY <4>2, <4>3, AfterModes DEF IndInv
    <3>4. outcome'[h] = "garbled" => rebooted'[h]
      <4>1. SUFFICES ASSUME outcome'[h] = "garbled" PROVE rebooted'[h]
        OBVIOUS
      <4>2. cmd \in Lists /\ ~modem.text
        BY <1>3, <4>1 DEF IndInv, TypeOK, Result
      <4>3. rebooted[h]
        BY <1>1, <4>2 DEF IndInv, TextModeSet
      <4> QED  BY <1>1, <1>2, <4>3 DEF Boot, Kept
    <3> QED  BY <2>2, <3>2, <3>3, <3>4
  <2> QED  BY <2>1, <2>2
<1> QED  BY <1>5, <1>6, <1>7, <1>8 DEF IndInv, ListingsReadable

LEMMA StepPreserves == ASSUME IndInv, [Next]_vars PROVE IndInv'
<1>1. CASE Next
  BY <1>1, ModemStep, OpenSessionStep, InitCommandStep, SessionEndsStep,
     HandleActionStep, RunCommandStep, ReplyStep DEF Next, Session, Handler
<1>2. CASE UNCHANGED vars
  BY <1>2
  DEF vars, IndInv, TypeOK, InitProgress, PushWhileListening, StorageTracked, Placed,
      TextModeSet, Commands, ListingsReadable, sessionVars, clientVars, histories
<1> QED  BY <1>1, <1>2

LEMMA Inductive == Spec => []IndInv
<1>1. Init => IndInv
  BY InitHolds
<1>2. IndInv /\ [Next]_vars => IndInv'
  BY StepPreserves
<1> QED  BY <1>1, <1>2, PTL DEF Spec

\* Types, for every set of handlers and actions and all bounds.
THEOREM TypeCorrect == Spec => []TypeOK
<1>1. IndInv => TypeOK
  BY DEF IndInv
<1> QED  BY <1>1, Inductive, PTL

\* A session that listens has direct push in text mode, however many users,
\* actions and failures there are: what InitProgress and StorageTracked give.
THEOREM PushHeld == Spec => []PushWhileListening
<1>1. IndInv => PushWhileListening
  BY DEF IndInv
<1> QED  BY <1>1, Inductive, PTL

\* However many actions, reconnects and failures interleave with the commands of
\* a listing, only a reboot makes it unreadable: what TextModeSet gives.
THEOREM ListingsHeld == Spec => []ListingsReadable
<1>1. IndInv => ListingsReadable
  BY DEF IndInv
<1> QED  BY <1>1, Inductive, PTL
=============================================================================
