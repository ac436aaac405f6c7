-------------------------------- MODULE Chat --------------------------------
(***************************************************************************)
(* The messages of the Telegram chat: pushed SMS, raw lines and alerts,    *)
(* menus, and the replies to actions, each with its keyboard.  Handlers    *)
(* keep no state, so a message depends on the button and on the modem      *)
(* only; module ModemModes has what the commands of an action do, module   *)
(* Control how they compete.                                               *)
(***************************************************************************)
EXTENDS Replies, Actions

CONSTANTS
  Senders,   \* the senders of pushed SMS, as texts
  Listings   \* the contents of the modem's SMS storage, as sequences of SMS

ASSUME ChatAssumption == Senders \subseteq Seq(Characters) /\ Listings \subseteq Seq(StoredSms)

VARIABLES
  sent,      \* the last message to the chat
  action,    \* the action it replies to, or "none"
  stored,    \* the SMS that its listing was made from
  listed     \* the SMS that parseCMGL found there
vars == <<sent, action, stored, listed>>

-----------------------------------------------------------------------------
(* Messages and keyboards.                                                 *)

menuButton(id)   == [route |-> "menu", id |-> id]
actionButton(id) == [route |-> "act", id |-> id]
actionButtons(ids) == {actionButton(id) : id \in ids}

smsMenu ==
  actionButtons({"sms_unread", "sms_all", "sms_storage", "enable_sms_storage"})
    \cup {menuButton("main")}

\* The keyboards of the menus that handleMenu knows.
menus ==
  [ main   |-> {menuButton(id) : id \in {"status", "sms", "device", "help"}},
    status |-> actionButtons({"status_summary", "signal", "registration", "operator", "sim",
                              "module"}) \cup {menuButton("main")},
    sms    |-> smsMenu,
    device |-> actionButtons({"function_mode", "enable_sms_push"})
                 \cup {menuButton("reset_confirm"), menuButton("main")},
    help   |-> {menuButton("main")},
    reset_confirm |-> {actionButton("reset"), menuButton("device")} ]

actionResultKeyboard(menu) ==
  IF menu = "main" THEN {menuButton("main")} ELSE {menuButton(menu), menuButton("main")}

\* A text has a size, may be cut, and may say so.
Message(text, html, keyboard) ==
  [size |-> text.size, html |-> html, cut |-> text.cut, told |-> text.told, keyboard |-> keyboard]
Whole(size) == [size |-> size, cut |-> FALSE, told |-> FALSE]

\* sendMessage truncates what is pushed, tags and all.
Pushed(size, html, keyboard) ==
  LET over == size > maxText
  IN  Message([size |-> truncatePlainText(size, maxText), cut |-> over, told |-> over],
              html, keyboard)

smsMessages ==
  {Pushed(Escaped(text, smsBodyMax) + Escaped(from, fromPreviewMax) + Frame, TRUE, {}) :
     text \in Texts, from \in Senders}
watchdogAlerts ==
  {Pushed(Escaped(reason, watchdogReasonMax) + Frame, TRUE,
          {actionButton("reset"), menuButton("device")}) : reason \in Texts}
rawMessages == {Pushed(Label + size, FALSE, {}) : size \in {1, maxText, maxText + 1}}
notifications == smsMessages \cup watchdogAlerts \cup rawMessages

\* The lines of the results of a sequence of commands; an error ends it.
explainFailure == explainSingleValue
More(before, results) == {lines \o more : lines \in before, more \in results}
Explained(cmds) ==
  LET lines == Rounds(Len(cmds), {<<>>}, LAMBDA before, k :
                 More(before, explainCommandResult(cmds[k])))
  IN  lines[Len(cmds)] \cup UNION {More(lines[k - 1], explainFailure) : k \in 1..Len(cmds)}

Reply(id, lines) ==
  Message(formatCommandResult(lines), TRUE, actionResultKeyboard(parent(id)))

listingActions == {"sms_unread", "sms_all"}

\* The replies to the other actions.
repliesByID ==
  [id \in DOMAIN actionsByID \ listingActions |->
     {Reply(id, lines) : lines \in Explained(actionsByID[id])}]

-----------------------------------------------------------------------------
Menu(id) == Message(Whole(Label), FALSE, menus[id])

\* Initialize sends the menu.
Init == sent = Menu("main") /\ action = "none" /\ stored = <<>> /\ listed = <<>>

Send(message) == sent' = message /\ action' = "none" /\ stored' = <<>> /\ listed' = <<>>

Notify == \E message \in notifications : Send(message)

\* /start, /menu and whatever has no route.
showMainMenu == Send(Menu("main"))

\* A button of this message, or one of an older program.
Tap(route) == {b.id : b \in {c \in sent.keyboard : c.route = route}} \cup {"gone"}

handleMenu ==
  \E id \in Tap("menu") : Send(IF id \in DOMAIN menus THEN Menu(id) ELSE Menu("main"))

UnknownAction ==
  \E id \in Tap("act") \ DOMAIN actionsByID : Send(Message(Whole(Label), FALSE, {menuButton("main")}))

handleAction ==
  \E id \in Tap("act") \cap DOMAIN repliesByID :
    /\ sent' \in repliesByID[id]
    /\ action' = id /\ stored' = <<>> /\ listed' = <<>>

\* Nothing is listed: +CMGF=1 fails, or, behind its line, +CMGL does, or the modem's
\* answer holds a line ERROR that the AT library did not take for the end.
ListingFails ==
  \E id \in Tap("act") \cap listingActions :
    /\ \E lines \in explainFailure \cup More({<<Label>>}, explainFailure) :
         sent' = Reply(id, lines)
    /\ action' = id /\ stored' = <<>> /\ listed' = <<>>

ListingRefused ==
  \E id \in Tap("act") \cap listingActions : \E listing \in Listings :
    /\ \E lines \in HandedOn(listing) : hasErrorLine(lines)
    /\ sent' = Reply(id, <<Label, Label>>)
    /\ action' = id /\ stored' = <<>> /\ listed' = <<>>

\* A listing, behind the line of +CMGF=1.
handleListing ==
  \E id \in Tap("act") \cap listingActions : \E listing \in Listings : \E lines \in HandedOn(listing) :
    /\ ~hasErrorLine(lines)
    /\ stored' = listing
    /\ listed' = parseCMGL(lines)
    /\ action' = id
    /\ sent' = Reply(id, <<Label>> \o explainCMGL(listed'))

Next ==
  \/ Notify \/ showMainMenu \/ handleMenu \/ UnknownAction \/ handleAction
  \/ ListingFails \/ ListingRefused \/ handleListing
Spec == Init /\ [][Next]_vars

-----------------------------------------------------------------------------
(* Properties.                                                             *)

\* Telegram takes every message: whatever the modem says and however a text grows
\* by escaping, none is empty or too long, and none with markup is cut by
\* sendMessage, which knows no tags.  A message that is refused is lost, and an
\* SMS with it.
MessageAccepted ==
  /\ 0 < sent.size /\ sent.size <= maxText
  /\ sent.html /\ action = "none" => ~sent.cut

\* A reply that has no room for all of its lines, and a message that sendMessage
\* truncates, say so, and there is room to say it.  This says nothing of
\* what parseCMGL leaves out of a text (parse.go:116-121), which no reply tells.
TruncationIsTold == sent.cut => sent.told

\* A line of a text that looks like one of the modem's own.
Protocol(line) == line.lead \in {"OK", "ERROR", "+CME ERROR:", "+CMGL:"}
Plain(sms) == \A i \in 1..Len(sms.body) : ~Protocol(sms.body[i])

\* What a listing has to show of an SMS.
ShownText(body) == IF body # <<>> /\ body[1].lead = "plain" THEN TrimSpace(body[1].text) ELSE <<>>
Shown(sms) ==
  [index |-> sms.index, status |-> sms.status, from |-> sms.from, at |-> sms.at,
   text |-> ShownText(sms.body)]

\* A listing shows the stored SMS in their order, each with its own fields and the
\* first line of its own text, if that is text: commas, names and several lines
\* never mix up two SMS.  Only a text with a line that looks like one of the modem's
\* can do so, and it spoils no more than the SMS behind it.
ListFaithful ==
  /\ \A k \in 1..Len(stored) :
       (\A j \in 1..(k - 1) : Plain(stored[j])) => Len(listed) >= k /\ listed[k] = Shown(stored[k])
  /\ (\A j \in 1..Len(stored) : Plain(stored[j])) => Len(listed) = Len(stored)

\* No way through the menus ends: each button leads to a menu or an action that
\* there is, and behind an action "Back" leads to a menu that offers the action
\* again, itself or by one of its menus.
NoDeadEnd ==
  /\ \A b \in sent.keyboard :
       b.id \in (IF b.route = "menu" THEN DOMAIN menus ELSE DOMAIN actionsByID)
  /\ action # "none" =>
       \E b \in sent.keyboard :
         /\ b.route = "menu" /\ b.id # "main"
         /\ \/ actionButton(action) \in menus[b.id]
            \/ \E c \in menus[b.id] :
                 c.route = "menu" /\ c.id # "main" /\ actionButton(action) \in menus[c.id]
=============================================================================
