# TLA+ model of at-message-forward

`atmsgfwd` reads SMS from a cellular modem over AT commands and forwards them to a
Telegram chat; the same chat can run a menu of AT commands. This directory holds
TLA+ specifications of its Go code, TLC configurations that check them on small
instances, and TLAPS proofs for every value of the constants. Line numbers refer
to the repository; `forwarder.go` is `internal/forwarder/forwarder.go`.

## 1. Inventory

| Component | State | Operations | Talks to |
|---|---|---|---|
| Indication handlers (`modem.NewAT`) | none of their own | emit raw lines, parse, emit SMS, each without blocking | `events` and `rawLines` channels of the session |
| Session loop (`runOpenedModemSession`) | the port, the AT object, two channels | open, initialise, publish, select on four sources, deferred clear and close | handlers, sender, executor |
| Sender (`sender`) | queues `important` (64) and `raw` (16), the item being sent | blocking and droppable enqueue, take, `Notify` | session loop, watchdog, Telegram |
| Reconnect loop (`runReconnectLoopWithOptions`) | backoff | check, run a session, judge its error, wait, double or reset | session loop |
| Executor (`reconnectableExecutor`) | `modem` under `stateMu`, `commandMu` | `Set`, `Clear`, `ExecuteAT` | session loop, Telegram handlers, watchdog |
| Watchdog (`runSerialWatchdog`) | `failures`, `alerted` | probe each minute, alert | executor, sender |
| Telegram service (`notifier/telegram`) | chat id | menus, actions of one to six commands, notifications, explanations of answers | executor, Telegram |
| Modem initialisation (`modem.Init`) | a deadline | probe, echo off, wait for the SIM, text mode, direct push | AT object |
| SMS decoding (`sms`) | none | text mode, PDU framing, GSM 7-bit, 8-bit, UCS2 | handlers |
| Serial discovery (`transport/serial`) | none kept | rank, probe, select, open | reconnect loop |
| USB transport (`transport/usb`) | context, device, configuration, interface, staged bytes | open, probe, read, close | reconnect loop |
| Configuration, command line | none | parse | start-up |

The goroutines are: one per indication, the main goroutine (reconnect loop and
the session inside it), the sender's worker, the watchdog, one per Telegram
update, and the AT library's own. They share four channels, the context, and
the executor's two locks.

What is hard to test here, and what makes each part correct:

* **Data plane.** Four sources are ready at once and `select` picks at random;
  queues fill up while Telegram is slow; a session ends with events buffered;
  cancellation races with everything. Correct means: at most once and in order,
  loss only at named points, no leaked port, no wait that ignores cancellation
  but the last call to Telegram.
* **Control plane.** A client copies `e.modem`, unlocks, and uses an object
  whose port may close or be replaced meanwhile, while `modem.Init` talks to
  the next one outside `commandMu`. Correct means: one command at a time, none
  during initialisation, no closed port on offer, a reply to every action.
* **Watchdog.** Counter and flag live across outages and recoveries. Correct
  means: no early alert, one per outage, and one for *every* outage.
* **Setup and backoff.** A session's setup takes time of its own: an opening, six
  commands and the retries of `+CPIN?`, none of which sees the context. Correct
  means: the backoff is bounded, doubles and is reset; a modem that is back is
  soon in a session; the SIM gets its timeout; a cancelled session, and the loop
  with it, ends in a bounded time.
* **Modes of the modem.** Text mode and direct push live in the modem. `Init` and
  five menu actions set them command by command, and other actions, failures,
  reconnects and reboots come between. Correct means: a listening session has
  its SMS pushed, a listing is answered in text mode, stored SMS can be read.
* **Replies.** Escaping makes texts grow while they are cut to Telegram's limit;
  listings are parsed line by line; buttons, menus and actions agree by strings.
  Correct means: no message is refused, no truncation untold, no SMS mixed up with
  another, no button without effect.
* **SMS decoding.** Bit packing, lengths that count septets or octets, headers,
  validity periods; the serial line loses and inserts characters. Correct means:
  what was sent is reported; what is damaged in PDU mode is rejected.
* **Serial discovery.** Answers come in pieces, ports are silent or never stop,
  devices come and go between listing, probing and opening. Correct means: the
  best port that answered, no port left open, an end in any case.
* **USB transport.** Four kinds of resources, acquired in turn and released in
  reverse, on a dozen ways out; a closer that races with the reader. Correct
  means: nothing leaked, the modem's bytes intact, the reader released.

`PROJECT.json` lists each hazard at its line with the properties that cover it.

## 2. Modules

```
SmsFeed        what the data plane promises          (abstract)
  ^ implements
Pipeline       the data plane                        MCPipeline      PipelineProofs
Control        executor, watchdog, Telegram actions  MCControl       ControlProofs
Reconnect      the loop's backoff                    (abstract for Startup)
  ^ implements
Startup        the loop and the setup, on a clock    MCStartup       ReconnectProofs
Actions        the table of Telegram actions         (used by the next two)
ModemModes     modes of the modem, listings          MCModemModes    ModemModesProofs
Chat, Replies  messages, texts, menus                MCChat          ChatProofs
SerialDetect   opening a serial port                 MCSerialDetect  SerialDetectProofs
UsbLink        the USB calls and their resources     MCUsbLink       UsbProofs
UsbStream      reading the USB link                  MCUsbStream     UsbProofs
SmsPdu         decoding an indication                MCSmsPdu        SmsPduProofs
```

They meet where the code's packages do. Pipeline's `OpenSucceeds` and
`OpenFails` are the two results of SerialDetect's `Open` or UsbLink's `openLink`;
its `CloseSession` is their `Close`; Reconnect makes the calls one after the
other; UsbStream's `Read` feeds the AT library, whose indications are Pipeline's
handlers; and `EmitSMSEvent` or `ParseFails` is the result of SmsPdu's `Parse`.
Startup's steps from `Open` to `Listen` are Pipeline's `OpenSucceeds`,
`InitSucceeds` and `ListenDone` or `ListenClosed` on a clock. Control,
ModemModes and Chat see the same Telegram action from three sides: as a client
of the executor, by its effect on the modem, and by the reply.

### Pipeline

A Go channel is a bounded sequence (or a count, for raw lines, whose contents
nothing depends on), and one channel operation is one step. `loop` is the
program counter of the main goroutine: `check`, `open`, `init`, `listen` (the
select), `sms` and `alert` (inside `EnqueueSMS` and `EnqueueWatchdog`, where it
may block), `close` (the deferred function), `judge`, `wait`. Around them are
`Run`'s own: `start` (the configuration is checked and Telegram initialised, before
there is a worker or a watchdog), `stopped` (the loop has returned, or the start
failed, and `Run` is in its deferred functions) and `exited`. The last of these
functions is `bot.Close(context.Background())` (`forwarder.go:180`), a call to
Telegram that nothing can cancel: `BotCloses` is its return.
`handlers` counts +CMT handlers between their raw lines and their SMS event:
the AT library starts a goroutine per indication, so they may be several. An
SMS is known by its acceptance number, an alert about a lost connection by its
session. `accepted` and `notified` are history variables; probe alerts are not
recorded in `notified`, which keeps it finite. When a session closes, its
channels become unreachable, so the model empties them and forgets the
handlers that still run: they write to the closed session's own channels, which
nobody reads. The watchdog appears only as a second producer of
alerts; when it fires is module Control's business.

`EnqueueImportant(item)` is both branches of the code's select: room, or a
cancelled context. The model lets either win when both are ready, as Go does.

### SmsFeed

Four variables: accepted, pending, sent, stopping. An SMS is accepted, the
oldest pending one is sent, a session's end gives up the newest ones (those
above some number), and once stopping any one may be abandoned. Pipeline
implements it with `pending` = SMS in `events`, in the loop and in `important`.

### Control

Clients are the Telegram handlers and the watchdog. Each goes through
`ExecuteAT`: `lock`, `check` (the context), `read` (`e.modem`), `command`,
`returned`. An AT object is known by its session's number. The session
goroutine is reduced to what touches the executor: open, initialise, `Set`,
listen, `Clear`, close. A command is answered only by the AT object of the
current session while its link is up; an error may come at any time.
`silence` and `reported` are histories of what probes met and which alerts were
enqueued, kept apart from the code's `failures` and `alerted` so that the
properties do not restate them. `failures` is saturated at the threshold: the
code only compares it with the threshold and with zero. After `Run` has
returned the process exits; the model lets clients go on, which only adds
behaviours.

### Reconnect

One step per statement group of the loop. A session is one step with an
outcome: connected and then closed (`errSerialSessionClosed`), failed, or nil,
which the code returns only after cancellation. Startup puts the inside of that
step in its place. `failed` counts the failures in a row up to `MaxFailures`, and
`Doubled[k]` is the initial backoff doubled `k` times, the closed form that
`DelayDoubles` compares a delay with.

### Startup

Startup extends Reconnect, keeps its variables, and refines `RunSession`: `place`
walks through the opening, the six commands of `initModem`, the sleep between
two tries of `+CPIN?`, and the select. Each step advances `now` by its duration.
An outage lasts until `readyAt`: a step that begins before it may fail (or
succeed, as when only the SIM is late), a step that begins later succeeds. The
clock starts again when a session loses its link. A `+CPIN?` that is answered
with anything but READY ends the session at once, as in the code; one that fails
is retried against the deadline. `modem.Init` gets no context, so cancellation
shows only in the select and in the backoff.

### Actions and ModemModes

`actionsByID` is the table of `actions.go` with symbolic commands. The modem of
ModemModes has the two modes that the program sets: text or PDU (`+CMGF`) and
where new SMS go (`+CNMI`: `push`, `store`, or nowhere right after a boot). It
obeys a command, refuses it, or obeys unheard (the answer is lost); it reboots,
with or without taking the port along; the port drops. All of these are faults,
at most `MaxFaults`. The session runs `Init` command by command; handlers run
their actions command by command, on whatever session there is at the moment,
and a command without one fails (the executor's "serial session is not
connected"). The commands of two clients interleave in any way, which is what
`commandMu` allows (Control has the lock itself). `place` says for each SMS whether
it was pushed, stored unread or stored read; listing marks as read. `outcome` is
what a handler has seen last; a listing that the modem makes in PDU mode is
`garbled`. `rebooted`, `bootedHere` and `storageAsked` are histories.

### Replies and Chat

A text is a sequence of kinds of characters: plain, markup (escaped to an
entity), wide, and a byte that is no UTF-8, which Go ranges as a rune of three
bytes although it is one: `escapeAndTruncate` looks ahead with `utf8.RuneLen`,
so the difference could matter. An assembled reply is a sequence of line sizes.
A listing's header line is a sequence of tokens, so that `splitCSV`, the trimming and
the quotes can go wrong; the modem's side (`Answer`) is written from 3GPP 27.005 for
the SMS of `StoredSms`: quotes only around a field, no commas in an index, and a
body of any lines. A line of a body is known by how it begins: like any text, with a
plus sign, or like one of the modem's own lines (`+CMGL:`, `OK`, `ERROR`,
`+CME ERROR:`). `HandedOn` is what the AT library makes of that: the first line that
is a final result ends the answer, so the rest is missing, or the command fails. A
line ERROR with blanks around it gets through and is the explanation's
(`ListingRefused`). A loop of the code is a function from
the number of its rounds to its state (`Rounds`, and `Sums` where it adds up
sizes); an early exit is the least round at which its condition holds.
Chat sends any notification, any menu that a button of the last message (or of an
older program) leads to, and any reply that the modem's answers, failures included,
may lead to. `cut` says that a reply has no room for one of its lines or that
`sendMessage` truncated a message, `told` that the text says so.
Handlers keep no state between updates, so the last message is all of it.

### SerialDetect

One variable per thing that `Transport.Open` knows: what was found, the ranked
candidates, which of them is probed and the answers so far; `attached` is the
environment's. A name contributes to the score through three features (a vendor
marker, `if03` or `if05`, `ttyACM`), which `MCSerialDetect` gives each port. The
ports' names are compared as numbers. `ProbeRead` hands the probe any piece of the
port's reply; `ProbeFails` is the deadline or an error. Writing `AT`
(`ProbeWrite`, `ProbeWriteFails`) comes before the deadline is set
(`serial.go:258-264`) and has none, nor has the opening. The code's listings are
one step (`Scan`); the probes are not. `ProbeCandidates` sorts those that answered
to the front and the selection takes the first that answered, so the model leaves
out the sort; the sort of `RankCandidates` is `Sorted`, the one order of the
candidates in which each is `Before` the next. `BestChosen` and `AnswerIsLine`
restate the result in other terms than the code: evidence for a port, and lines
between newlines.

### UsbLink and UsbStream

UsbLink's `held` is what libusb has open. The model's `Close...` operators refuse,
as gousb does, to close what something open depends on, and the code ignores that
error, so a wrong order leaks. openLink and List share the steps from the
configuration on; `op` says which of them runs. `todo` is the rest of the sorted
candidate interfaces, as a set of which `Current` is the least. Of `probeAT`'s
accumulated bytes the model keeps the last one: the rest cannot matter to the next
search for `OK`.

UsbStream follows the code's slice `pending` as two indices into the staging
buffer, so that a transfer overwrites what `pending` refers to. Bytes are numbered
as the modem sends them. A transfer ends by `Close`, by unplugging, or for a
reason of its own (`TransferFaults`, kept in the history `faulted`). `CloseStream`
is the cancellation; UsbLink's `Close` has the releases, which the code makes at
once, while a transfer may still be in flight: whether that is safe is gousb's
business (see the hazards).

### SmsPdu

A hex line is a sequence of digits (0 to 15; anything above stands for other
characters, two of them blanks). `ParseCMTIndication` gets the header and one line
behind it, the first line of what arrives (`WithTrailingLine`), and trims it. The
modem's side, `EncodeTPDU` and its helpers, is written from the standard,
independently of the decoder: it packs septets behind fill bits and counts them
with the header. The line delivers a body intact, without one run of characters,
or with one run inserted. `DecodeFields` is what the code repeats in
`decodeDeliverTPDU` and `decodeSubmitTPDU`. A GSM 7-bit character is its position
in the default alphabet, 128 and above in the extension table. `FromBits` is the
octet that has the given bits, where the code shifts and joins parts of two
octets. `Decodable` says which messages the decoder is meant to understand: any
sender (of fewer than 255 digits, where the byte that counts them overflows), any
service centre, any text of GSM 7-bit characters or 8-bit data without a user data
header, any UCS2 text with or without one, and in text mode any plain text of one
line, without blanks at its ends, that does not look like UCS2 in hex. What is
inserted on the way (`Junk`) has no line break: `MessageAssumption` says so, and
the run and the proofs rest on it. A line break would end the body there.

## 3. Runs

| Run | Question | Bounds |
|---|---|---|
| `pipeline_safety` | order, loss, port, truth of alerts, refinement of SmsFeed | `events`, `rawLines`, `important` of 2, `raw` of 1, 3 SMS, 2 sessions, `InitModem` on |
| `pipeline_live` | shutdown up to `bot.Close`; dead link released, SMS resolved, lost connections reported | all channels of 1, 1 SMS, 2 sessions, `InitModem` on |
| `control_races` | exclusion, initialisation, open ports, justified alerts; replies, alerts for every outage | 1 handler and the watchdog, threshold 3, 2 commands, 3 sessions |
| `startup_delays` | delays against their closed form; time to connect, to give up on the SIM, to stop | 2 s and 30 s, 7 failures in a row, SIM timeout 20 s, outages of 0 and 130 s, openings of 3 s, commands of 0 or 5 s |
| `modes_session` | push and text mode kept and restored, listings, stored SMS read | 2 handlers, 3 actions, 1 SMS, 2 faults |
| `modes_list` | finding: stored SMS that no listing shows | 1 handler, 3 actions, 2 SMS, room for 1 |
| `chat` | messages that Telegram takes, truncations told, listings, ways through the menus | limits scaled (32 for a message), texts of up to 5 characters, 2 stored SMS |
| `serial_open` | the port chosen, ports left open, answers in pieces, an end | 3 ports, 2 calls of Open, 1 port plugged or unplugged |
| `usb_calls` | leaks, the first interface that answers, what List reports, return | 2 devices with forced, missing, busy and silent interfaces, 2 calls |
| `usb_read` | bytes in order, true failures, release of the reader | stage of 3, reads of 1 or 2, 6 bytes |
| `sms_decode` | round trip; lost and inserted runs | 13 messages, every cut and 6 runs at every place |
| `sms_header` | finding: a kind of message that is misread | 1 message |

**Bounds.** `MaxSms` bounds SMS accepted or in a handler, `MaxSession` sessions
opened, `MaxCommands` the commands of an action, `MaxFailures` the failures told
apart, `MaxLen` the characters of a text in `Chat`. Nothing distinguishes a full
channel of 64 from one of 1 or 2 except how long it takes to fill: with 3 SMS,
alerts and capacity 2 every queue is met empty, partly filled and full. Two
sessions suffice for anything carried over from one session to the next. After the
bounds are used up the system still runs (opens fail, indications stop), so no run
ends in an artificial deadlock; deadlock checking stays on. The stage of 3 and
reads of at most 2 make every relation of packet to buffer occur. The messages of
`sms_decode` cover each alphabet, odd, even and no digits, no service centre and
one that looks like a length, every validity period and a text that crosses the
point where septets and octets meet again. The proofs remove the bounds
altogether: three clients and more, which `control_races` leaves out for the sake
of its liveness properties, are covered by the theorems of ControlProofs.

`MaxFaults` of 2 lets a fault hit the recovery from another one, the case in
which a mode is lost twice. `startup_delays` has an outage that outlasts two SIM
timeouts and the whole growth of the backoff, and commands that take their full
5 s or nothing. The scaled limits of `chat` keep the program's relations
(`LimitsAssumption`, which its real limits 3900, 3000, 256, 1200 and 600 satisfy
as well) and let a text of five characters pass each limit by one or by many.
`Label` is the size of a line of fixed wording, `ValueSizes` the sizes of lines
that quote the modem (around the limit of a message in the run), `Tokens` what a
header is made of.

Limits of what the other runs show. `DetectionEnds` supposes that opening a port
and writing three bytes to it return, for which the code has no deadline.
`BestChosen` speaks of the answers that the probes got: a port that was unplugged
since is found out when it is opened. `ListFaithful` speaks of the SMS up to and
including the first whose text has a line like one of the modem's own.
`AnswerIsLine` is checked, and proved, for replies in which no line merely begins
with OK (`PlainReplies`): of such a line ("OKAY") the probe may read just the
first two characters, and it then accepts the port. And `RoundTrip` is checked,
and proved, for `Decodable` messages: without the features of the finding below,
for text bodies of one trimmed line that do not happen to be hex (see the limits
of the code, below), and without the extension table of GSM 7-bit, which
`gsm7Rune` (`sms.go:361`) does not have: the euro sign arrives as an escape
character and an `e`. TLC evaluates that every message of the run is `Decodable`
(`MCAssumption`).

**Fairness.** Every goroutine runs (weak fairness). Strong fairness stands for
three guarantees of the Go runtime: `select` chooses at random among its ready
branches (`ListenEvent`, `ListenDone`, `TakeImportant`, `WatchdogStops`), blocked
channel senders are served first come first served (`EnqueueSMS`,
`EnqueueClosedAlert`, `EnqueueProbeAlert`), and `sync.Mutex` in its starvation
mode is FIFO (`Lock`). `modem.Init` and `AT.Command` return because each command
has a 5 s timeout and the CPIN wait a deadline. The modem, the signals and the
users owe nothing. The fairness of `pipeline_live` assumes nothing of Telegram.
That the reconnect loop returns after cancellation needs nothing of it
(`ShutdownCompletes`, first part); that `Run` itself returns needs `bot.Close` to
(second part); that `Notify` returns is a hypothesis (`NotifierFairness`) of the
other three properties. In SerialDetect, UsbLink and UsbStream the code runs and
its timers fire, however much or little the device sends; a cancelled or
impossible transfer ends; nothing is ever sent by force. In ModemModes the session
and the handlers run, commands return, a lost port comes back, and faults come to
an end; that users ask for the stored SMS (`SmsAskedFor`, strong fairness of the
listing actions) is a hypothesis of `StoredIsReadable`. In Control the alert is
always enqueued in the end, which is what `pipeline_live` shows of the queue.

**Mutations.** Definitions under a comment that begins with "Mutation" are
plausible bugs of the definition that follows (a missing unlock, a dropped
`ctx.Done` branch, a missing reset, a swapped order). No specification uses
them: each property of a passing run is violated when the mutation that
`PROJECT.json` names takes the place of the original.

### Findings

* `RoundTrip` is violated by a GSM 7-bit message with a user data header
  (`sms_header`): `decodeGSM7` starts right behind the header although septets
  begin at a septet boundary, and decodes as many septets as a length that counts
  the header too (`sms.go:302-307`). The text of every part of a concatenated SMS
  is wrong. `README.md:46` and `:52` promise GSM 7-bit by the standard.
* `StoredIsReadable` is violated when more SMS are stored than fit into one
  message (`modes_list`): a listing starts with the first, the reply is cut at
  3900 characters (`format.go:57`), a listing marks all as read, and no action
  deletes any. `explain.go:46` tells the user to read stored SMS by these actions.
  The run has room for one SMS in a reply; with the program's limits it is five or
  more, depending on their texts. `modes_session` shows that the property holds
  as long as the replies have room.

Limits of the code that the models show and no run states:

* The worker's `select` (`forwarder.go:107-113`) may take a raw line while an SMS
  waits, although a comment (`:89-90`) calls the queue of SMS and alerts a
  priority queue. `SmsResolved` holds: the SMS gets its turn.
* A readable text body of 4, 8, ... hex digits, such as a code `1234`, is decoded
  as UCS2 (`sms.go:70`).
* A modem that reboots and keeps its port leaves the session without push until a
  user enables it again: the exception `bootedHere` of `PushWhileListening`. So
  does the choice of storage mode, which a reconnect reverts.
* A reboot right before `Init`'s last command leaves push in PDU mode, which is
  why `PushReturns` speaks of `route` alone. The decoder handles both.
* `Init` does not see the context: `StopsInTime` has the whole SIM timeout in it,
  two minutes by default.
* A listing shows the first line of an SMS only, and none that begins with `+`
  (`parse.go:116-121`). The reply does not say that something is missing, although the
  listing has marked the SMS as read: `TruncationIsTold` speaks of what is cut for want
  of room, not of this, and `ListFaithful` of the first line.
* In a listing, a line of a text that begins with `+CMGL:` is taken for an SMS
  (`parse.go:99`), a line `OK` ends the answer early, so that what is behind it is
  not shown, and a line `ERROR` or `+CME ERROR:...` makes the whole listing fail.
  `ListFaithful` says that nothing before such a line is harmed.
* In text mode only the first line of an SMS is pushed, without the blanks at its
  ends (`sms.go:42-43`, `modem.go:36`). PDU mode, which a reboot may leave the modem
  in, does not have this limit.
* `Run` ends with `bot.Close` on a context that nothing cancels (`forwarder.go:180`):
  after Ctrl-C the process waits for that call as long as it takes.
* The probe of a serial port writes before it sets its deadline (`serial.go:258`): a
  port that takes no bytes holds the detection up.
* The watchdog's alert has a button that restarts the modem without the
  confirmation that the menu asks for (`menu.go:95`).

## 4. Proofs

The proofs hold for all capacities, bounds, settings, handler sets, thresholds
and delays that satisfy the named assumptions (`PipelineAssumption`,
`ControlAssumption`, `ReconnectAssumption`, `FailuresAssumption`,
`StartupAssumption`, `ModesAssumption`, `DetectAssumption`, `UsbAssumption`,
`StreamAssumption`, `MessageAssumption`, `LimitsAssumption`, `ChatAssumption`); TLC
evaluates these in every run.

* **PipelineProofs.** Lemmas say what a send and a receive do to the elements
  and the order of a channel. `NotifiedInOrder` alone is not inductive: the next
  item taken must be newer than all notified ones, so `IndInv` says that
  numbers grow along the whole path: notified, `important`, the SMS in the
  loop, `events`, and are at most `accepted`; alerts carry sessions at most the
  current one, and equal to it only once it has stopped listening. From
  `IndInvariant` follow `InOrderDelivery`, `PortHeldInSession` and
  `ClosedAlertsTrue`. `StepMaps` shows that each step loses no SMS silently and
  is a step or a stutter of SmsFeed, which gives `LossIsBounded` and
  `Refinement`. The order of the numbers is what makes a session's end a
  `Disconnect` (the lost SMS are the newest) and a receive a `Send` (the oldest).
* **ControlProofs.** `IndInv` relates each client's place to the holder of
  `commandMu`, each AT object in use to the sessions that published it, and the
  watchdog's variables to its histories. It gives `CommandsExclusive`,
  `ControlTypes`, `InitUndisturbed`, `OfferedPortOpen` and `AlertsAreJustified`.
* **ReconnectProofs.** `BackoffBounded`: every wait lies between the initial and
  the maximal backoff whatever options are given. `SetupImplementsLoop`: Startup
  implements Reconnect, each step of the setup being a stutter or the session's
  one step. `DelaysDouble`: after k failures in a row the delay is the initial
  backoff doubled k - 1 times, or the maximum; the invariant is that the next
  backoff is the next of these, and a capped one stays capped. `SetupDelaysDouble`
  carries it to Startup by the refinement. `SetupInv` bounds the clock at every
  place of the loop by what may still have to pass before it: a step that began
  within the outage ends at most one step behind it (`Straddle`), a failure adds
  one backoff, and a setup that begins later does not fail. It gives
  `ConnectsSoon`, `SimAwaited` and `StopsSoon`, for all sets of durations that
  have a longest one.
* **ModemModesProofs.** `PushWhileListening` is not inductive: what matters is
  which commands of `Init` have been answered by a modem that has not rebooted
  since, and whether an action that asks for storage is under way. `ListingsReadable`
  needs that no command ever leaves text mode, and that a handler whose `+CMGF=1`
  was answered meets text mode until a reboot. From `Inductive` follow
  `TypeCorrect`, `PushHeld` and `ListingsHeld`, for any set of handlers and actions.
* **SerialDetectProofs.** `PortsReleased`: for all ports, replies and failures the
  ports open are the one probed or the one in use. `BestPortChosen` needs that
  `Sorted` is a permutation without repetition in which everyone is before those
  behind it, that a port's best evidence is what `RankCandidates` keeps of it, and
  that the answers are those of the ports probed so far, in that order.
  `AnswersAreLines` relates what `responseHasATLine` finds in a piece of a reply to
  the lines of the whole reply; its hypothesis `PlainReplies` is what makes an OK at
  the end of a piece a whole line, see the limits above.
* **UsbProofs**, the calls. `NothingLeaked` speaks only of the idle state; the
  invariant says for every place in a call what is held (`Owned`), and the lemmas
  compute each acquisition and release on such a record. From it follow
  `NoResourceLeaks` and `OneInterfaceClaimed`, for all descriptors. A second
  invariant (`ProbeInvariant`) follows the probing: the candidates left and those
  given up make up all candidates, those given up are lower and have been tried, and
  List has noted the devices whose probes are over. It gives `LowestAnswering` and
  `ListsRightly`.
* **UsbProofs**, the stream. The invariant adds to `StreamIntact` that the pending
  slice holds the numbers after those delivered. It gives `StreamTypes`,
  `BytesInOrder` and `FailuresTrue`, for all sizes.
* **ChatProofs.** The invariant of the chat is its properties themselves: a
  message depends on nothing before it. What there is to prove is what the loops
  of the code compute, for inputs of any length. `EscapedFits`:
  `escapeAndTruncate` returns at most `limit` runes and at least one. Where it
  stops, the look-ahead of the last round made sure of the suffix; it is skipped
  for the last character, and, by the `RuneLen` of three for a byte that is no
  UTF-8, up to two characters earlier (`ShortTail`): then there is left that one
  and at most two characters of five runes, and these fit because the suffix is
  longer than ten (`suffixLen > 10`; "\n[truncated]" has twelve). With a suffix of
  ten runes or less, a text could be returned without its suffix and above the
  limit. `ReplyFits`: a reply of any lines has between one and `maxText` runes and
  its suffix if it lacks a line. `HeaderRead`: `splitCSV` takes any header apart
  into the five fields it was made of, token by token (`EndOf`, `WordRead`,
  `QuotedRead`), trimmed (`Trimmed`, `TrimNothing`). `LinesOf` says where the
  lines of each SMS are in an answer, `HandedIs` that the AT library hands on
  those before the first final result, `NotYet` that this is neither a header nor
  in a plain SMS. `HeaderParsed`: what `parseCMGL` takes from behind a header is
  its own first line or none, whatever lines the texts have. `Reached` counts the
  SMS found up to there, `ParsedGrows` that they stay, so `Listed` and `AllListed`
  say that the k-th SMS listed is the k-th stored, for any number of them. From
  these, `MessagesAccepted`, `TruncationsAreTold` and `ListingsFaithful`;
  `NoWayEnds` goes through the tables.
* **SmsPduProofs.** `PartialReads`: in PDU mode no run that is lost or inserted,
  of any length, anywhere in any message, makes the decoder report something else.
  The count of octets in the header line decides it. A run behind the first octet
  leaves the service centre's length as it was, so the count differs. A run that
  changes the first octet is accepted only if the new length makes up for it
  exactly, and then it lies before the TPDU, which is decoded unharmed. Half an
  octet is caught by the even length. The proof needs nothing of how a TPDU is
  decoded, only that equal TPDUs are decoded alike. `MessagesArrive`: a
  `Decodable` message (in text mode: plain text of one line that trimming leaves
  alone, which its first line then is) that arrives intact is reported with its
  sender and its text (`RoundTrip`), whatever its length. The two sides are
  written independently, so the proof is about their arithmetic, layer by layer.
  `FlattenPlaces` says where each piece ends up when sequences are joined one
  after the other, which is all the proofs need of the recursion in `FlattenSeq`.
  GSM 7-bit: `PackedBits` has bit k of the text in octet k \div 8, and two octets
  with the same bits are equal (`SameBits`), so `Unpacks` compares bits. UCS2: a
  pair of surrogates joins to the character it was made of (`Surrogates`), and the
  decoder never mistakes the second half of one for the first half of another
  (`RunesOfWords`); with the order of the bytes this gives `Utf16Decodes` and
  `Ucs2Decodes`, behind a user data header or not. The digits of the sender are
  swapped back and lose their filler (`SemiOctetsDecode`). `FieldsPlaces` and
  `FieldsDecode` show that every field is read where it was written, past an
  address and a validity period of any length, and `FirstOctetBits` that the first
  octet announces that period.

The type invariants (`TypeOK`, `SetupTypeOK`) are theorems: `TypeCorrect` in
PipelineProofs and ModemModesProofs, `ControlTypes`, `BackoffBounded`, `SetupTypes`,
`StreamTypes`. The runs therefore leave them out and check what relates several
parts of a state or several states. `OneInterface` is a theorem only, too.

The provers cannot use the induction theorems of the library, whose parameter is an
operator. Where a proof goes over the rounds of a loop or the length of a sequence
it takes the least counterexample instead: `LeastNumber` (from the well-founded
order of the numbers) and `UpTo` (a set that holds 0 and, with i - 1, i holds 0..n);
`RunExists` shows that a loop has its states for any number of rounds.

Only model-checked: the liveness properties (TLAPS does not reason about
fairness and ENABLED here). Every invariant and every action property of the passing
runs is a theorem.

## 5. Not modelled

* Wording: the tables by which `explain.go` translates values, labels, HTML tags
  other than by their size, and logs.
* JSON configuration and flags: constants stand for the flags that matter
  (`InitModem`, `TelegramRaw`, the SIM timeout, the backoffs).
* The check that an update comes from the configured chat, which changes no state.
* The inside of the AT and Telegram libraries, which appear as external actions
  (`LinkDrops`, `CommandReturns`, `NotifyReturns`) or as the shape of an answer.
* USB `Write`, which has no state, and the stub for builds without USB.
* The release of the USB interface while a transfer is in flight: whether that is
  safe is gousb's business. The items left in the queues at shutdown: the code
  promises nothing for them.
* What else a text does to the AT library in a listing: a line such as `+CMT:` in it
  would be taken for an indication, and the line behind it for its body.

## 6. Plan

What this development has: Pipeline with SmsFeed, Control, Reconnect and Startup,
ModemModes, Chat with Replies, SerialDetect, UsbLink, UsbStream and SmsPdu, each with
its runs and its proofs. What would come next is a module that joins Pipeline and
Control on the session they share, so that the watchdog's alerts compete with SMS
for the real queue, and a common abstraction of the session's life that Startup,
Control and Pipeline implement.
