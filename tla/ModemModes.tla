------------------------------ MODULE ModemModes ------------------------------
(***************************************************************************)
(* The modem's SMS modes under everything that changes them: modem.Init at *)
(* the start of a session, the actions of the Telegram menu command by     *)
(* command, and reboots.  The modes decide where an SMS goes (pushed to    *)
(* the program, or stored) and whether a listing of the stored ones can be *)
(* read; nothing in the program keeps or checks them.                      *)
(*                                                                         *)
(* An ExecuteAT is one step: module Control shows that commands exclude    *)
(* each other and modem.Init.  An SMS is a number, its index on the modem. *)
(***************************************************************************)
EXTENDS Actions, Naturals, FiniteSets, Sequences

CONSTANTS
  Handlers,   \* goroutines that serve Telegram updates
  ActionIDs,  \* the actions that users choose from actionsByID
  InitModem,  \* cfg.InitModem
  MaxSms,     \* bound: SMS that arrive
  ListMax,    \* listed SMS that fit in one reply (maxText)
  MaxFaults,  \* bound: failed commands and replies, lost links, reboots
  None        \* no action

\* Mutation: the last command is missing.
InitCommandsWithoutPush == <<"AT", "E0", "CPIN", "CSQ", "CMGF_text">>

InitCommands == <<"AT", "E0", "CPIN", "CSQ", "CMGF_text", "CNMI_push">>

ASSUME ModesAssumption ==
  /\ ActionIDs \subseteq DOMAIN actionsByID
  /\ None \notin DOMAIN actionsByID
  /\ InitModem \in BOOLEAN
  /\ MaxSms \in Nat /\ ListMax \in Nat /\ MaxFaults \in Nat

Sms == 1..MaxSms

VARIABLES
  loop,          \* the session: "idle" (no port), "init", "listen"
  step,          \* the next command of modem.Init
  link,          \* the port is there, and alive if a session has it
  modem,         \* the modem's modes
  place,         \* per SMS: "air", "pushed", "unread" or "read" on the modem
  running,       \* per handler: its action, or None
  next,          \* per handler: the next command of its action
  outcome,       \* per handler: what its last command came to
  listing,       \* per handler: the SMS that its listing has
  shown,         \* SMS that a listing in the chat has shown
  faults,
  rebooted,      \* history, per handler: a reboot since its action began
  bootedHere,    \* history: a reboot since the session began
  storageAsked   \* history: storage mode asked for, or still under way, since then

sessionVars == <<loop, step>>
clientVars  == <<running, next, outcome, listing>>
histories   == <<rebooted, bootedHere, storageAsked>>
vars == <<sessionVars, link, modem, place, clientVars, shown, faults, histories>>

\* The modes after a boot, and those that modem.Init asks for.
Booted  == [text |-> FALSE, route |-> "none"]
Pushing == [text |-> TRUE, route |-> "push"]

Init ==
  /\ loop = "idle" /\ step = 1
  /\ link = TRUE
  /\ modem = Booted
  /\ place = [s \in Sms |-> "air"]
  /\ running = [h \in Handlers |-> None]
  /\ next = [h \in Handlers |-> 1]
  /\ outcome = [h \in Handlers |-> "none"]
  /\ listing = [h \in Handlers |-> {}]
  /\ shown = {}
  /\ faults = 0
  /\ rebooted = [h \in Handlers |-> FALSE]
  /\ bootedHere = FALSE
  /\ storageAsked = FALSE

-----------------------------------------------------------------------------
(* The modem.                                                              *)

Stored == {s \in Sms : place[s] \in {"unread", "read"}}
Listed(cmd) == CASE cmd = "CMGL_all" -> Stored
                 [] cmd = "CMGL_unread" -> {s \in Sms : place[s] = "unread"}
                 [] OTHER -> {}
Lists == {"CMGL_all", "CMGL_unread"}

Fault == faults < MaxFaults /\ faults' = faults + 1

\* A boot forgets the modes; a port over USB goes away meanwhile, one behind a
\* serial adapter stays.
Boot ==
  /\ modem' = Booted
  /\ link' \in {link, FALSE}
  /\ rebooted' = [h \in Handlers |-> running[h] # None]
  /\ bootedHere' = TRUE

\* The modes behind a command.
After(cmd) == CASE cmd = "CMGF_text" -> [modem EXCEPT !.text = TRUE]
                [] cmd = "CNMI_push" -> [modem EXCEPT !.route = "push"]
                [] cmd = "CNMI_store" -> [modem EXCEPT !.route = "store"]
                [] OTHER -> modem

\* What a command does to the modem.  Listing an SMS marks it as read.  A reset
\* beyond the bound on faults does nothing.
Obey(cmd) ==
  /\ place' = [s \in Sms |-> IF s \in Listed(cmd) THEN "read" ELSE place[s]]
  /\ IF cmd = "RESET" /\ faults < MaxFaults THEN Boot
     ELSE modem' = After(cmd) /\ UNCHANGED <<link, rebooted, bootedHere>>

Ignore == UNCHANGED <<modem, place, link, rebooted, bootedHere>>

Answered(cmd) ==
  /\ link
  /\ Obey(cmd)
  /\ IF cmd = "RESET" /\ faults < MaxFaults THEN Fault ELSE UNCHANGED faults

\* An error: no port, or a modem that refuses, or one that obeys unheard.
Failed(cmd, connected) ==
  \/ ~(connected /\ link) /\ Ignore /\ UNCHANGED faults
  \/ connected /\ link /\ Fault /\ (Ignore \/ Obey(cmd))

\* An SMS is pushed to the program's +CMT handler or stored; a modem that pushes
\* keeps it back while nobody listens.
Arrive(s) ==
  /\ place[s] = "air"
  /\ \A t \in Sms : t < s => place[t] # "air"
  /\ modem.route = "push" => link /\ loop # "idle"
  /\ place' = [place EXCEPT ![s] = IF modem.route = "push" THEN "pushed" ELSE "unread"]
  /\ UNCHANGED <<sessionVars, link, modem, clientVars, shown, faults, histories>>

Reboot ==
  /\ Fault
  /\ Boot
  /\ UNCHANGED <<sessionVars, place, clientVars, shown, storageAsked>>

LinkDrops ==
  /\ link
  /\ Fault
  /\ link' = FALSE
  /\ UNCHANGED <<sessionVars, modem, place, clientVars, shown, histories>>

\* The port is there again once the dead one has been given up.
LinkReturns ==
  /\ ~link /\ loop = "idle"
  /\ link' = TRUE
  /\ UNCHANGED <<sessionVars, modem, place, clientVars, shown, faults, histories>>

-----------------------------------------------------------------------------
(* The session: runOpenedModemSession and modem.Init.                      *)

OpenSession ==
  /\ loop = "idle" /\ link
  /\ loop' = IF InitModem THEN "init" ELSE "listen"
  /\ step' = 1
  /\ bootedHere' = FALSE
  /\ storageAsked' = \E h \in Handlers : running[h] = "enable_sms_storage"
  /\ UNCHANGED <<link, modem, place, clientVars, shown, faults, rebooted>>

\* Mutation: an error of a command does not end the initialisation.
InitCommandCarriesOn ==
  /\ loop = "init"
  /\ \/ Answered(InitCommands[step])
     \/ Failed(InitCommands[step], TRUE)
  /\ IF step < Len(InitCommands) THEN step' = step + 1 /\ UNCHANGED loop
     ELSE step' = 1 /\ loop' = "listen"
  /\ UNCHANGED <<clientVars, shown, storageAsked>>

\* Any error ends the initialisation and with it the session.
InitCommand ==
  /\ loop = "init"
  /\ \/ /\ Answered(InitCommands[step])
        /\ IF step < Len(InitCommands) THEN step' = step + 1 /\ UNCHANGED loop
           ELSE step' = 1 /\ loop' = "listen"
     \/ /\ Failed(InitCommands[step], TRUE)
        /\ step' = 1 /\ loop' = "idle"
  /\ UNCHANGED <<clientVars, shown, storageAsked>>

SessionEnds ==
  /\ loop = "listen" /\ ~link
  /\ loop' = "idle"
  /\ UNCHANGED <<step, link, modem, place, clientVars, shown, faults, histories>>

-----------------------------------------------------------------------------
(* Telegram: handleAction, runCommands and the reply.                      *)

HandleAction(h, id) ==
  /\ running[h] = None
  /\ running' = [running EXCEPT ![h] = id]
  /\ storageAsked' = (storageAsked \/ id = "enable_sms_storage")
  /\ UNCHANGED <<sessionVars, link, modem, place, next, outcome, listing, shown,
                 faults, rebooted, bootedHere>>

Commands(h) == actionsByID[running[h]]

\* A listing in PDU mode is not what parseCMGL expects.
Result(cmd) == IF cmd \in Lists /\ ~modem.text THEN "garbled" ELSE "ok"

\* Mutation: the loop carries on behind a failed command.
RunCommandCarryingOn(h) ==
  /\ running[h] # None /\ next[h] <= Len(Commands(h))
  /\ LET cmd == Commands(h)[next[h]] IN
     /\ \/ /\ loop = "listen" /\ Answered(cmd)
           /\ outcome' = [outcome EXCEPT ![h] = Result(cmd)]
           /\ listing' = [listing EXCEPT ![h] = IF modem.text THEN Listed(cmd) ELSE {}]
        \/ /\ Failed(cmd, loop = "listen")
           /\ outcome' = [outcome EXCEPT ![h] = "failed"]
           /\ UNCHANGED listing
     /\ next' = [next EXCEPT ![h] = @ + 1]
  /\ UNCHANGED <<sessionVars, running, shown, storageAsked>>

\* The next command, on the modem of the session that there is now; an error
\* ends the loop.
RunCommand(h) ==
  /\ running[h] # None /\ next[h] <= Len(Commands(h))
  /\ LET cmd == Commands(h)[next[h]] IN
       \/ /\ loop = "listen" /\ Answered(cmd)
          /\ next' = [next EXCEPT ![h] = @ + 1]
          /\ outcome' = [outcome EXCEPT ![h] = Result(cmd)]
          /\ listing' = [listing EXCEPT ![h] = IF modem.text THEN Listed(cmd) ELSE {}]
       \/ /\ Failed(cmd, loop = "listen")
          /\ next' = [next EXCEPT ![h] = Len(Commands(h)) + 1]
          /\ outcome' = [outcome EXCEPT ![h] = "failed"]
          /\ UNCHANGED listing
  /\ UNCHANGED <<sessionVars, running, shown, storageAsked>>

\* Mutation: off by one.
FirstListedButOne(S) == {s \in S : Cardinality({t \in S : t <= s}) < ListMax}

\* formatCommandResult appends what fits, in the order of the listing.
FirstListed(S) == {s \in S : Cardinality({t \in S : t <= s}) <= ListMax}

Reply(h) ==
  /\ running[h] # None /\ next[h] > Len(Commands(h))
  /\ \/ shown' = shown \cup FirstListed(listing[h]) /\ UNCHANGED faults
     \/ Fault /\ UNCHANGED shown
  /\ running' = [running EXCEPT ![h] = None]
  /\ next' = [next EXCEPT ![h] = 1]
  /\ outcome' = [outcome EXCEPT ![h] = "none"]
  /\ listing' = [listing EXCEPT ![h] = {}]
  /\ rebooted' = [rebooted EXCEPT ![h] = FALSE]
  /\ UNCHANGED <<sessionVars, link, modem, place, bootedHere, storageAsked>>

-----------------------------------------------------------------------------
Modem   == (\E s \in Sms : Arrive(s)) \/ Reboot \/ LinkDrops \/ LinkReturns
Session == OpenSession \/ InitCommand \/ SessionEnds
Handler(h) == (\E id \in ActionIDs : HandleAction(h, id)) \/ RunCommand(h) \/ Reply(h)

Next == Modem \/ Session \/ \E h \in Handlers : Handler(h)
Spec == Init /\ [][Next]_vars

(***************************************************************************)
(* Fairness.  The program runs, its commands return, and a lost port comes *)
(* back.  SmsAskedFor is a hypothesis about the users: they ask for the    *)
(* stored SMS again and again.  Faults come to an end (MaxFaults).         *)
(***************************************************************************)
SmsAskedFor ==
  \A id \in ActionIDs \cap {"sms_all", "sms_unread"} :
    SF_vars(\E h \in Handlers : HandleAction(h, id))
Fairness ==
  /\ WF_vars(LinkReturns)
  /\ WF_vars(Session)
  /\ \A h \in Handlers : WF_vars(RunCommand(h) \/ Reply(h))
  /\ SmsAskedFor
FairSpec == Spec /\ Fairness

-----------------------------------------------------------------------------
(* Properties.                                                             *)

\* Every variable has its type.
TypeOK ==
  /\ loop \in {"idle", "init", "listen"} /\ step \in 1..Len(InitCommands)
  /\ link \in BOOLEAN
  /\ modem \in [text : BOOLEAN, route : {"none", "store", "push"}]
  /\ place \in [Sms -> {"air", "pushed", "unread", "read"}]
  /\ running \in [Handlers -> ActionIDs \cup {None}]
  /\ next \in [Handlers -> 1..7]
  /\ outcome \in [Handlers -> {"none", "ok", "garbled", "failed"}]
  /\ listing \in [Handlers -> SUBSET Sms]
  /\ shown \subseteq Sms
  /\ faults \in 0..MaxFaults
  /\ rebooted \in [Handlers -> BOOLEAN]
  /\ bootedHere \in BOOLEAN /\ storageAsked \in BOOLEAN

\* A session that listens pushes SMS in text mode, unless the modem rebooted
\* behind its back or storage mode was asked for since it began.  Actions that
\* list, query or straddle the sessions do not change that, except a storage
\* action that began before the session and changes the mode within it.
PushWhileListening ==
  InitModem /\ loop = "listen" /\ ~bootedHere /\ ~storageAsked => modem = Pushing

\* Whatever other actions, reconnects and failures come between the commands of
\* a listing, it is answered in text mode, as parseCMGL needs it: only a reboot
\* in between can prevent that.
ListingsReadable ==
  \A h \in Handlers : outcome[h] = "garbled" => rebooted[h]

\* A modem that went away comes back to a session with direct push (in PDU mode
\* if it rebooted right before the last command of modem.Init).
PushReturns == InitModem /\ ~link ~> loop = "listen" /\ modem.route = "push"

\* Whoever asks for the stored SMS gets to see each of them, though failures
\* mark some as read that no reply has shown.
StoredIsReadable == \A s \in Sms : s \in Stored ~> s \in shown
=============================================================================
