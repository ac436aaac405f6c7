-------------------------------- MODULE SmsPdu --------------------------------
(***************************************************************************)
(* Decoding of SMS (internal/sms/sms.go): a modem puts a message into the  *)
(* two lines of a +CMT indication, the serial line may lose or insert a    *)
(* run of characters, and ParseCMTIndication reads what arrives.           *)
(*                                                                         *)
(* A character of a body is a number: 0..15 are the hex digits, then come  *)
(* Space, LineBreak and all others.  A text is a record of its coding and  *)
(* its characters, for GSM 7-bit the positions in the default alphabet.    *)
(***************************************************************************)
EXTENDS Integers, Sequences, FiniteSets, SequencesExt, FiniteSetsExt

CONSTANTS
  Messages,  \* what the modem may have to deliver, see Message
  Junk       \* runs of characters that the line may insert

Digit == 0..15
Octet == 0..255
Space == 16
LineBreak == 17
Blank == {Space, LineBreak}

VARIABLES
  pc,       \* "idle", "sent", "received" or "parsed"
  message,  \* the message on its way
  header,   \* the first line
  sent,     \* what the modem wrote after the first line
  body,     \* the second line as the handler gets it
  event     \* what ParseCMTIndication returned

vars == <<pc, message, header, sent, body, event>>

Bit(n, b) == (n \div 2^b) % 2
\* The octet whose bits are bits[0], bits[1], ..., and 0 from there on.
FromBits(bits) ==
  CHOOSE n \in Octet : \A b \in 0..7 : Bit(n, b) = IF b \in DOMAIN bits THEN bits[b] ELSE 0

Octets(hex) == [i \in 1..(Len(hex) \div 2) |-> 16 * hex[2*i - 1] + hex[2*i]]
Fail == [ok |-> FALSE]

-----------------------------------------------------------------------------
(* User data.                                                              *)

Text(coding, chars) == [ok |-> TRUE, coding |-> coding, chars |-> chars]
Padded(data, i) == IF i <= Len(data) THEN data[i] ELSE 0

\* The octets of the user data header, its length octet included.
HeaderBytes(data, hasUDH) == IF hasUDH THEN data[1] + 1 ELSE 0
HeaderCut(data, hasUDH) == hasUDH /\ (data = <<>> \/ data[1] + 1 > Len(data))

decodeGSM7(data, septets, hasUDH) ==
  LET Value(first) == FromBits([b \in 0..6 |->
        Bit(Padded(data, (first + b) \div 8 + 1), (first + b) % 8)])
  IN  IF HeaderCut(data, hasUDH) THEN Fail
      ELSE Text("gsm7", [n \in 1..septets |-> Value(HeaderBytes(data, hasUDH) * 8 + (n - 1) * 7)])

High(w) == w \in 55296..56319
Low(w) == w \in 56320..57343

\* utf16.Decode: pairs of surrogates are joined, single ones replaced.
utf16Decode(words) ==
  LET Pair(i) == i \in 1..(Len(words) - 1) /\ High(words[i]) /\ Low(words[i + 1])
      Rune(i) == IF Pair(i) THEN <<65536 + (words[i] - 55296) * 1024 + (words[i + 1] - 56320)>>
                 ELSE IF Pair(i - 1) THEN <<>>
                 ELSE IF High(words[i]) \/ Low(words[i]) THEN <<65533>>
                 ELSE <<words[i]>>
  IN  FlattenSeq([i \in 1..Len(words) |-> Rune(i)])

decodeUCS2(data, hasUDH) ==
  LET rest == SubSeq(data, HeaderBytes(data, hasUDH) + 1, Len(data))
  IN  IF HeaderCut(data, hasUDH) \/ Len(rest) % 2 # 0 THEN Fail
      ELSE Text("ucs2", utf16Decode([i \in 1..(Len(rest) \div 2) |->
                                      256 * rest[2*i - 1] + rest[2*i]]))

decodeUserData(dcs, hasUDH, userDataLen, data) ==
  CASE dcs = 0 -> decodeGSM7(data, userDataLen, hasUDH)
    [] dcs = 8 -> decodeUCS2(data, hasUDH)
    [] dcs = 4 -> Text("8bit", data)
    [] OTHER   -> Text("unsupported", data)

-----------------------------------------------------------------------------
(* The TPDU.                                                               *)

\* Digits come in pairs, the first in the low half; F fills an odd number up.
decodeSemiOctets(raw, digits) ==
  LET all == [i \in 1..(2 * Len(raw)) |->
               IF i % 2 = 1 THEN raw[(i + 1) \div 2] % 16 ELSE raw[i \div 2] \div 16]
      out == SubSeq(all, 1, Max({i \in DOMAIN all : all[i] # 15} \cup {0}))
  IN  IF digits > 0 /\ Len(out) > digits THEN SubSeq(out, 1, digits) ELSE out

\* Mutation: every validity period is a single octet.
skipValidityShort(first) == IF Bit(first, 3) = 1 \/ Bit(first, 4) = 1 THEN 1 ELSE 0

skipSubmitValidityPeriod(first) ==
  IF Bit(first, 3) = 1 THEN 7 ELSE IF Bit(first, 4) = 1 THEN 1 ELSE 0

\* What decodeDeliverTPDU and decodeSubmitTPDU share: the address begins at
\* octet a, and skip octets lie between the data coding scheme and the length
\* of the user data.  The length of the address is added to in a byte.
DecodeFields(o, a, skip) ==
  LET after == a + 2 + ((o[a] + 1) % 256) \div 2
      udl   == after + 2 + skip
      text  == decodeUserData(o[after + 1], Bit(o[1], 6) = 1, o[udl],
                              SubSeq(o, udl + 1, Len(o)))
  IN  IF Len(o) < a \/ Len(o) < udl \/ ~text.ok THEN Fail
      ELSE [ok   |-> TRUE,
            from |-> [plus   |-> o[a + 1] = 145,
                      digits |-> decodeSemiOctets(SubSeq(o, a + 2, after - 1), o[a])],
            text |-> [coding |-> text.coding, chars |-> text.chars]]

decodeDeliverTPDU(o) == DecodeFields(o, 2, 7)
decodeSubmitTPDU(o) == DecodeFields(o, 3, skipSubmitValidityPeriod(o[1]))

DecodeTPDU(o) ==
  IF o = <<>> THEN Fail
  ELSE CASE o[1] % 4 = 0 -> decodeDeliverTPDU(o)
         [] o[1] % 4 = 1 -> decodeSubmitTPDU(o)
         [] OTHER        -> Fail

\* Mutation: a TPDU that is too long passes.
DecodePDULong(pdu, expectedTPDULength) ==
  LET o == Octets(pdu)
  IN  IF \/ Len(pdu) % 2 # 0
         \/ o = <<>>
         \/ Len(o) < o[1] + 1
         \/ Len(o) - 1 - o[1] < expectedTPDULength
        THEN Fail
        ELSE DecodeTPDU(SubSeq(o, o[1] + 2, Len(o)))

\* The address of the service centre is skipped by its length, the first octet.
DecodePDU(pdu, expectedTPDULength) ==
  LET o == Octets(pdu)
  IN  IF \/ Len(pdu) % 2 # 0
         \/ o = <<>>
         \/ Len(o) < o[1] + 1
         \/ Len(o) - 1 - o[1] # expectedTPDULength
        THEN Fail
        ELSE DecodeTPDU(SubSeq(o, o[1] + 2, Len(o)))

-----------------------------------------------------------------------------
(* The indication.                                                         *)

\* strings.TrimSpace.
TrimSpace(line) ==
  LET kept == {i \in DOMAIN line : line[i] \notin Blank}
  IN  SubSeq(line, Min(kept \cup {Len(line) + 1}), Max(kept \cup {0}))

IsHex(line) == line # <<>> /\ \A i \in 1..Len(line) : line[i] \in Digit

\* What a body in text mode has to look like to be taken for UCS2.
UCS2Hex(line) == Len(line) >= 4 /\ Len(line) % 4 = 0 /\ IsHex(line)

decodeTextModeBody(line) ==
  IF UCS2Hex(line) THEN decodeUCS2(Octets(line), FALSE)
    ELSE Text("plain", line)

\* The first line is what the two expressions for a header find in it, blanks
\* around it or not.
ParseCMTIndication(lines) ==
  LET first  == lines[1]
      second == TrimSpace(lines[2])
      text   == decodeTextModeBody(second)
  IN  CASE Len(lines) < 2       -> Fail
        [] first.mode = "pdu"   ->
             IF IsHex(second) THEN DecodePDU(second, first.length) ELSE Fail
        [] first.mode = "text"  ->
             [ok |-> TRUE, from |-> first.from,
              text |-> [coding |-> text.coding, chars |-> text.chars]]
        [] OTHER -> Fail

-----------------------------------------------------------------------------
(* The modem's side: the wire form of a message by 3GPP TS 23.040.         *)

Address == [plus: BOOLEAN, digits: Seq(0..14)]
Message == [mode: {"deliver", "submit", "text"}, smsc: Seq(Octet), from: Address,
            validity: {"none", "relative", "enhanced", "absolute"}, udh: Seq(Octet),
            coding: {"gsm7", "ucs2", "8bit", "plain"}, chars: Seq(Nat)]

Nibbles(o) == [i \in 1..(2 * Len(o)) |->
                IF i % 2 = 1 THEN o[(i + 1) \div 2] \div 16 ELSE o[i \div 2] % 16]
SemiOctets(digits) == [i \in 1..((Len(digits) + 1) \div 2) |->
  digits[2*i - 1] + 16 * (IF 2*i <= Len(digits) THEN digits[2*i] ELSE 15)]
Zeros(n) == [i \in 1..n |-> 0]

\* The characters of the extension table, here 128 and above, follow an escape.
Septets(chars) ==
  FlattenSeq([i \in 1..Len(chars) |->
    IF chars[i] >= 128 THEN <<27, chars[i] - 128>> ELSE <<chars[i]>>])
Pack(septets, fill) ==
  [i \in 1..((fill + 7 * Len(septets) + 7) \div 8) |->
    FromBits([b \in 0..7 |->
      LET k == 8 * (i - 1) + b - fill
      IN  IF k \in 0..(7 * Len(septets) - 1) THEN Bit(septets[k \div 7 + 1], k % 7) ELSE 0])]

Utf16(chars) ==
  FlattenSeq([i \in 1..Len(chars) |->
    IF chars[i] < 65536 THEN <<chars[i]>>
    ELSE <<55296 + ((chars[i] - 65536) \div 1024), 56320 + ((chars[i] - 65536) % 1024)>>])
BigEndian(words) == [i \in 1..(2 * Len(words)) |->
  IF i % 2 = 1 THEN words[(i + 1) \div 2] \div 256 ELSE words[i \div 2] % 256]

\* The user data and its length, which counts septets or octets.  Septets
\* begin at a septet boundary after the header.
UserData(m) ==
  LET head == IF m.udh = <<>> THEN <<>> ELSE <<Len(m.udh)>> \o m.udh
      fill == (7 - ((8 * Len(head)) % 7)) % 7
      data == CASE m.coding = "gsm7" -> Pack(Septets(m.chars), fill)
                [] m.coding = "ucs2" -> BigEndian(Utf16(m.chars))
                [] OTHER             -> m.chars
  IN  [length |-> IF m.coding = "gsm7"
                    THEN (8 * Len(head) + fill) \div 7 + Len(Septets(m.chars))
                    ELSE Len(head \o data),
       octets |-> head \o data]

EncodeTPDU(m) ==
  LET udhi    == IF m.udh = <<>> THEN 0 ELSE 64
      address == <<Len(m.from.digits), IF m.from.plus THEN 145 ELSE 129>>
                 \o SemiOctets(m.from.digits)
      dcs     == CASE m.coding = "gsm7" -> 0 [] m.coding = "ucs2" -> 8 [] OTHER -> 4
      data    == <<UserData(m).length>> \o UserData(m).octets
      bits    == CASE m.validity = "none" -> 0 [] m.validity = "relative" -> 16
                   [] m.validity = "enhanced" -> 8 [] m.validity = "absolute" -> 24
      period  == CASE m.validity = "none" -> 0 [] m.validity = "relative" -> 1 [] OTHER -> 7
  IN  IF m.mode = "deliver"
        THEN <<udhi>> \o address \o <<0, dcs>> \o Zeros(7) \o data
        ELSE <<1 + udhi + bits, 7>> \o address \o <<0, dcs>> \o Zeros(period) \o data

\* The lines of the indication.  In text mode the modem writes what it cannot
\* represent as UCS2 in hex.
HeaderLine(m) == IF m.mode = "text" THEN [mode |-> "text", from |-> m.from]
                 ELSE [mode |-> "pdu", length |-> Len(EncodeTPDU(m))]
BodyLine(m) ==
  IF m.mode # "text" THEN Nibbles(<<Len(m.smsc)>> \o m.smsc \o EncodeTPDU(m))
  ELSE IF m.coding = "plain" THEN m.chars
  ELSE Nibbles(BigEndian(Utf16(m.chars)))

ASSUME MessageAssumption ==
  /\ Junk \subseteq Seq(Nat \ {LineBreak}) \ {<<>>}
  /\ \A m \in Messages :
       IF m.mode = "text" THEN BodyLine(m) \in Seq(Nat)
       ELSE /\ m.smsc \in Seq(Octet) /\ Len(m.smsc) <= 255
            /\ EncodeTPDU(m) \in Seq(Octet)

-----------------------------------------------------------------------------
Init ==
  /\ pc = "idle"
  /\ message \in Messages
  /\ header = [mode |-> "none"] /\ sent = <<>> /\ body = <<>>
  /\ event = Fail

Send ==
  /\ pc = "idle"
  /\ header' = HeaderLine(message)
  /\ sent' = BodyLine(message)
  /\ pc' = "sent"
  /\ UNCHANGED <<message, body, event>>

\* What the serial line makes of the body: k characters are missing after the
\* first a, or a run of junk comes between.
Without(line, a, k) ==
  [i \in 1..(Len(line) - k) |-> IF i <= a THEN line[i] ELSE line[i + k]]
With(line, a, junk) ==
  [i \in 1..(Len(line) + Len(junk)) |->
    IF i <= a THEN line[i]
    ELSE IF i <= a + Len(junk) THEN junk[i - a] ELSE line[i - Len(junk)]]

\* The handler of +CMT is given one line behind the header: WithTrailingLine.
FirstLine(chars) ==
  SubSeq(chars, 1, Min({i \in DOMAIN chars : chars[i] = LineBreak} \cup {Len(chars) + 1}) - 1)

Arrive(chars) ==
  /\ pc = "sent"
  /\ body' = FirstLine(chars)
  /\ pc' = "received"
  /\ UNCHANGED <<message, header, sent, event>>

ArriveIntact == Arrive(sent)
ArriveCut == \E a \in 0..Len(sent) : \E k \in 1..(Len(sent) - a) : Arrive(Without(sent, a, k))
ArriveShifted == \E a \in 0..Len(sent), junk \in Junk : Arrive(With(sent, a, junk))

Parse ==
  /\ pc = "received"
  /\ event' = ParseCMTIndication(<<header, body>>)
  /\ pc' = "parsed"
  /\ UNCHANGED <<message, header, sent, body>>

Done == pc = "parsed" /\ UNCHANGED vars

Next == Send \/ ArriveIntact \/ ArriveCut \/ ArriveShifted \/ Parse \/ Done
Spec == Init /\ [][Next]_vars

-----------------------------------------------------------------------------
(* Properties.                                                             *)

\* A message that arrives intact is reported with its sender and its text:
\* README.md, "decodes GSM 7-bit, UCS2, and 8-bit SMS PDU payloads".
RoundTrip ==
  pc = "parsed" /\ body = FirstLine(sent) =>
    event = [ok |-> TRUE, from |-> message.from,
             text |-> [coding |-> message.coding, chars |-> message.chars]]

\* The messages that RoundTrip is about.  A user data header shifts the septets of
\* a GSM 7-bit text and is reported as part of 8-bit data; a character of the
\* extension table comes out as the two septets that stand for it.  Plain text in
\* text mode is one line without blanks around it, for of several lines only the
\* first is read, and trimmed, and does not look like UCS2 in hex.  The standard
\* has at most 20 digits; 255 overflow the byte in which the program rounds their
\* number.
Scalar(c) == c <= 1114111 /\ ~High(c) /\ ~Low(c)
Decodable(m) ==
  /\ m \in Message /\ Len(m.from.digits) <= 254
  /\ \/ m.mode # "text" /\ m.coding = "gsm7" /\ m.udh = <<>> /\ m.chars \in Seq(0..127)
     \/ m.mode # "text" /\ m.coding = "8bit" /\ m.udh = <<>>
     \/ /\ m.coding = "ucs2" /\ \A i \in 1..Len(m.chars) : Scalar(m.chars[i])
        /\ m.mode = "text" => m.chars # <<>>
     \/ /\ m.mode = "text" /\ m.coding = "plain" /\ ~UCS2Hex(m.chars)
        /\ TrimSpace(m.chars) = m.chars /\ \A i \in 1..Len(m.chars) : m.chars[i] # LineBreak

\* In PDU mode a body from which a run of characters is missing, or into which
\* one without a line break was inserted, is rejected or yields the message all the same, never a
\* wrong one: README.md, "a shifted or partial serial read is rejected instead
\* of producing a wrong SMS".
PartialReadSafe ==
  pc = "parsed" /\ header.mode = "pdu" /\ event.ok =>
    event = ParseCMTIndication(<<header, sent>>)
=============================================================================
