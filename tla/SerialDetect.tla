----------------------------- MODULE SerialDetect -----------------------------
(***************************************************************************)
(* Opening the modem's serial port (internal/transport/serial/serial.go):  *)
(* Transport.Open ranks the ports it finds, probes each with AT, selects   *)
(* one and opens it.  Ports come and go meanwhile.  A port's name is a     *)
(* number, compared as the code compares strings.                          *)
(***************************************************************************)
EXTENDS Integers, Sequences, FiniteSets

CONSTANTS
  Ports,       \* device names, as numbers
  Linux,       \* runtime.GOOS = "linux"
  PortName,    \* Ports -> the features of the name that score, see Name
  Links,       \* Ports -> the names of its /dev/serial/by-id links
  TTYInfo,     \* Ports -> what sysfs says of it, see Info
  Reply,       \* Ports -> what it sends after AT, see Char
  Configured,  \* values of Transport.Port; 0 stands for the empty one
  MaxCalls,    \* bound: calls of Open
  MaxChanges   \* bound: ports plugged or unplugged

Name == [marker: BOOLEAN, interface: {"if03", "if05", "none"}, acm: BOOLEAN]
Info == [marker: BOOLEAN, air780: BOOLEAN, interface: {"at", "log", "ppp", "other"},
         number: Nat]
Char == {"O", "K", "ERROR", "other", "blank", "newline"}

ASSUME DetectAssumption ==
  /\ Ports \subseteq Nat \ {0} /\ IsFiniteSet(Ports) /\ Linux \in BOOLEAN
  /\ PortName \in [Ports -> Name] /\ TTYInfo \in [Ports -> Info]
  /\ \A p \in Ports : Links[p] \subseteq Name /\ Reply[p] \in Seq(Char)
  /\ Configured \subseteq Ports \cup {0}
  /\ MaxCalls \in Nat /\ MaxChanges \in Nat

VARIABLES
  attached,   \* the ports that exist
  pc,         \* where Open is; "linked" when it has returned a port
  found,      \* the ports whose links and names Candidates has read
  ranked,     \* the ranked candidates of this call
  next,       \* which of them is probed
  answers,    \* ProbeOK of those before it
  heard,      \* how much of its reply the probe has read
  port,       \* portName
  opened,     \* ports this process has open
  calls, changes

vars == <<attached, pc, found, ranked, next, answers, heard, port, opened, calls, changes>>

-----------------------------------------------------------------------------
(* Scores and ranks.                                                       *)

Points(b, n) == IF b THEN n ELSE 0

ScorePortName(name) ==
  Points(name.marker, 100) + Points(name.interface = "if03", 30)
  + Points(name.interface = "if05", 10) + Points(name.acm, 10)

scoreLinuxTTYInfo(info) ==
  Points(info.marker, 100) + Points(info.air780, 150)
  + Points(info.interface = "at", 40) - Points(info.interface = "log", 30)
  - Points(info.interface = "ppp", 50)
  + (CASE info.number = 3 -> 30 [] info.number = 5 -> 10
       [] info.number > 5 -> 0 - info.number [] OTHER -> 0)

scoreLinuxTTY(p) == IF Linux THEN scoreLinuxTTYInfo(TTYInfo[p]) ELSE 0

\* What one name or link of port p says of it.
LinkScore(p, link) == ScorePortName(link) + scoreLinuxTTY(p) + 50
ListScore(p) == 10 + ScorePortName(PortName[p]) + scoreLinuxTTY(p)

linuxSerialByIDCandidates(linked) ==
  UNION {{[port |-> p, score |-> LinkScore(p, l)] : l \in Links[p]} : p \in linked}

serialLibraryCandidates(listed) == {[port |-> p, score |-> ListScore(p)] : p \in listed}

Before(a, b) == a.score > b.score \/ (a.score = b.score /\ a.port < b.port)

Sorted(candidates) ==
  CHOOSE s \in [1..Cardinality(candidates) -> candidates] :
    \A i, j \in DOMAIN s : i < j => Before(s[i], s[j])

\* Mutation: a later candidate of the same port replaces a better one.
RankLastOfPort(candidates) ==
  Sorted({c \in candidates : \A d \in candidates : d.port = c.port => c.score <= d.score})

\* The best candidate of each port, by score and then by name.
RankCandidates(candidates) ==
  Sorted({c \in candidates : \A d \in candidates : d.port = c.port => c.score >= d.score})

Candidates(f) ==
  RankCandidates(serialLibraryCandidates(f.listed)
                 \cup (IF Linux THEN linuxSerialByIDCandidates(f.linked) ELSE {}))

-----------------------------------------------------------------------------
(* The probe's reading of a reply.                                         *)

\* Mutation: the target anywhere in the response.
HasSubstring(response, target) == \E i, j \in 1..Len(response) :
  i <= j /\ SubSeq(response, i, j) = target

\* A line, without the blanks around it, is the target: responseHasATLine.
responseHasATLine(response, target) == \E i, j \in 1..Len(response) :
  /\ i <= j /\ SubSeq(response, i, j) = target
  /\ \E a \in 0..(i - 1) :
       /\ a = 0 \/ response[a] = "newline"
       /\ \A k \in (a + 1)..(i - 1) : response[k] = "blank"
  /\ \E b \in (j + 1)..(Len(response) + 1) :
       /\ b = Len(response) + 1 \/ response[b] = "newline"
       /\ \A k \in (j + 1)..(b - 1) : response[k] = "blank"

OKLine(response) == responseHasATLine(response, <<"O", "K">>)
ErrorLine(response) == responseHasATLine(response, <<"ERROR">>)

-----------------------------------------------------------------------------
Init ==
  /\ attached \in SUBSET Ports
  /\ pc = "idle"
  /\ found = [linked |-> {}, listed |-> {}]
  /\ ranked = <<>> /\ next = 1 /\ answers = <<>> /\ heard = 0
  /\ port = 0 /\ opened = {}
  /\ calls = 0 /\ changes = 0

Change ==
  /\ changes < MaxChanges
  /\ changes' = changes + 1
  /\ \E p \in Ports : attached' = IF p \in attached THEN attached \ {p} ELSE attached \cup {p}
  /\ UNCHANGED <<pc, found, ranked, next, answers, heard, port, opened, calls>>

\* Transport.Open is called.
Open ==
  /\ pc = "idle" /\ calls < MaxCalls
  /\ calls' = calls + 1
  /\ port' \in Configured
  /\ pc' = IF port' = 0 THEN "scan" ELSE "open"
  /\ ranked' = <<>> /\ next' = 1 /\ answers' = <<>>
  /\ UNCHANGED <<attached, found, heard, opened, changes>>

\* AutoDetectWithBaud lists the candidates, or without the library's when it
\* fails; without any, Open fails.
Scan ==
  /\ pc = "scan"
  /\ \E listed \in {attached, {}} : found' = [linked |-> attached, listed |-> listed]
  /\ ranked' = Candidates(found')
  /\ pc' = IF ranked' = <<>> THEN "idle" ELSE "probe"
  /\ UNCHANGED <<attached, next, answers, heard, port, opened, calls, changes>>

Probed == ranked[next].port

ProbeOpens ==
  /\ pc = "probe" /\ next <= Len(ranked)
  /\ Probed \in attached \ opened
  /\ opened' = opened \cup {Probed}
  /\ heard' = 0
  /\ pc' = "write"
  /\ UNCHANGED <<attached, found, ranked, next, answers, port, calls, changes>>

\* The port is gone or busy.
ProbeOpenFails ==
  /\ pc = "probe" /\ next <= Len(ranked)
  /\ answers' = Append(answers, FALSE)
  /\ next' = next + 1
  /\ UNCHANGED <<attached, found, pc, ranked, heard, port, opened, calls, changes>>

\* Mutation: a probe that fails leaves its port open.
ReturnHolding(ok) ==
  /\ answers' = Append(answers, ok)
  /\ opened' = IF ok THEN opened \ {Probed} ELSE opened
  /\ next' = next + 1
  /\ pc' = "probe"

\* probeOpenedATPort returns, and ProbeAT's deferred close runs.
Return(ok) ==
  /\ answers' = Append(answers, ok)
  /\ opened' = opened \ {Probed}
  /\ next' = next + 1
  /\ pc' = "probe"

\* Before the deadline is set: the buffers are reset and AT is written.
ProbeWrite ==
  /\ pc = "write"
  /\ pc' = "read"
  /\ UNCHANGED <<attached, found, ranked, next, answers, heard, port, opened, calls, changes>>

\* The read timeout is refused, or the write fails or is short.
ProbeWriteFails ==
  /\ pc = "write"
  /\ Return(FALSE)
  /\ UNCHANGED <<attached, found, ranked, heard, port, calls, changes>>

\* A read returns a piece of the reply.
ProbeRead ==
  /\ pc = "read"
  /\ \E k \in 1..(Len(Reply[Probed]) - heard) :
       LET response == SubSeq(Reply[Probed], 1, heard + k)
       IN  /\ heard' = heard + k
           /\ IF OKLine(response) THEN Return(TRUE)
              ELSE IF ErrorLine(response) THEN Return(FALSE)
              ELSE UNCHANGED <<answers, opened, next, pc>>
  /\ UNCHANGED <<attached, found, ranked, port, calls, changes>>

\* Mutation: only an error ends the probe of a silent port.
ProbeFailsUntimed ==
  /\ pc = "read" /\ Probed \notin attached
  /\ Return(FALSE)
  /\ UNCHANGED <<attached, found, ranked, heard, port, calls, changes>>

\* The deadline has passed, or the read timeout is refused or a read fails.
ProbeFails ==
  /\ pc = "read"
  /\ Return(FALSE)
  /\ UNCHANGED <<attached, found, ranked, heard, port, calls, changes>>

\* The first that answered, or else the first.
SelectAutoDetectCandidate(order) ==
  IF \E i \in order : answers[i]
    THEN CHOOSE i \in order : answers[i] /\ \A j \in order : answers[j] => i <= j
    ELSE 1

\* ProbeCandidates' stable sort moves those that answered to the front, which
\* the selection does not need.
Select ==
  /\ pc = "probe" /\ next > Len(ranked)
  /\ port' = ranked[SelectAutoDetectCandidate(DOMAIN ranked)].port
  /\ pc' = "open"
  /\ UNCHANGED <<attached, found, ranked, next, answers, heard, opened, calls, changes>>

OpenPort ==
  /\ pc = "open"
  /\ port \in attached \ opened
  /\ opened' = opened \cup {port}
  /\ pc' = "linked"
  /\ UNCHANGED <<attached, found, ranked, next, answers, heard, port, calls, changes>>

\* The port is gone, busy, or the baud rate is invalid.
OpenPortFails ==
  /\ pc = "open"
  /\ pc' = "idle"
  /\ UNCHANGED <<attached, found, ranked, next, answers, heard, port, opened, calls, changes>>

\* The session is over and closes its link.
Close ==
  /\ pc = "linked"
  /\ opened' = opened \ {port}
  /\ pc' = "idle"
  /\ UNCHANGED <<attached, found, ranked, next, answers, heard, port, calls, changes>>

Done == pc = "idle" /\ calls = MaxCalls /\ UNCHANGED vars

Work == \/ Scan \/ ProbeOpens \/ ProbeOpenFails \/ ProbeWrite \/ ProbeWriteFails
        \/ Select \/ OpenPort \/ OpenPortFails
Next == Change \/ Open \/ Work \/ ProbeRead \/ ProbeFails \/ Close \/ Done
Spec == Init /\ [][Next]_vars
\* Open runs, and the deadline of a probe passes however much the port sends.
\* Opening a port and writing the three bytes of AT have no deadline: that they
\* return is a hypothesis on the serial library and its driver.
FairSpec == Spec /\ WF_vars(Work) /\ WF_vars(ProbeFails)

-----------------------------------------------------------------------------
(* Properties.                                                             *)

\* The program has no port open but the one it is probing or the one it uses:
\* a failed probe gives its port back, or the selected one would be found busy.
OnlyLinkOpen ==
  opened = CASE pc \in {"write", "read"} -> {Probed}
             [] pc = "linked" -> {port}
             [] OTHER -> {}

\* What the names found say of p, and the order this puts the ports in.
Evidence(p) ==
  {ListScore(p) : q \in {p} \cap found.listed}
  \cup {LinkScore(p, l) : l \in {k \in Links[p] : Linux /\ p \in found.linked}}
Outranks(p, q) ==
  \E s \in Evidence(p) : \A t \in Evidence(q) : s > t \/ (s = t /\ p < q)
AnsweredOK(p) == \E i \in 1..Len(answers) : answers[i] /\ ranked[i].port = p

\* Detection takes a port that answered if any did, and of those, or else of
\* all, the one its name, links and sysfs entries speak for most.
BestChosen ==
  pc \in {"open", "linked"} /\ ranked # <<>> =>
    /\ Evidence(port) # {}
    /\ \A p \in Ports \ {port} :
         /\ AnsweredOK(p) => AnsweredOK(port)
         /\ (AnsweredOK(p) <=> AnsweredOK(port)) => ~Outranks(p, port)

\* A line of a reply, what lies between newlines, is OK with blanks around it.
IsLine(r, a, b) ==
  /\ a = 1 \/ r[a - 1] = "newline"
  /\ b = Len(r) \/ r[b + 1] = "newline"
  /\ \A k \in a..b : r[k] # "newline"
SaysOK(r) == \E a, b \in 1..Len(r) :
  /\ IsLine(r, a, b)
  /\ \E i \in a..(b - 1) :
       /\ r[i] = "O" /\ r[i + 1] = "K"
       /\ \A k \in (a..b) \ {i, i + 1} : r[k] = "blank"

\* However the reads cut a reply, a port passes its probe only when one of its
\* lines is OK, never for an OK inside a word or a log line; and the whole reply
\* with such a line never leaves the probe waiting.
AnswerIsLine ==
  /\ \A i \in 1..Len(answers) : answers[i] => SaysOK(Reply[ranked[i].port])
  /\ pc = "read" /\ heard = Len(Reply[Probed]) => ~SaysOK(Reply[Probed])

\* What AnswerIsLine supposes of the replies: a line that begins with OK is OK.  A
\* read that ends behind the OK of another line would pass for one.
BeginsLine(r, i) == \E a \in 1..i :
  (a = 1 \/ r[a - 1] = "newline") /\ \A k \in a..(i - 1) : r[k] = "blank"
PlainReplies == \A p \in Ports : \A i, k \in 1..Len(Reply[p]) :
  BeginsLine(Reply[p], i) /\ i + 1 < k /\ Reply[p][i] = "O" /\ Reply[p][i + 1] = "K"
    => Reply[p][k] = "blank" \/ \E l \in (i + 2)..k : Reply[p][l] = "newline"

\* Open comes to an end although ports are silent, or send without end.
DetectionEnds == (pc # "idle") ~> (pc \in {"idle", "linked"})
=============================================================================
