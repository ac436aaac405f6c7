------------------------------- MODULE Replies -------------------------------
(***************************************************************************)
(* What the program makes of texts and of the modem's answers before they  *)
(* go to Telegram: escaping and truncation, the parsing of a listing of    *)
(* SMS, and the assembly of a reply from whole lines of HTML.  Wording is  *)
(* left out: a line is its size in runes, a text its kinds of characters.  *)
(***************************************************************************)
EXTENDS Integers, Sequences, FiniteSetsExt

CONSTANTS
  maxText, smsBodyMax, fromPreviewMax, watchdogReasonMax, cmglItemMax,
  suffixLen,   \* of truncationSuffix
  Frame,       \* the markup, labels and times around the texts of a message
  Label,       \* a line of fixed wording
  ValueSizes,  \* lines that quote the modem
  MaxLen,      \* bound: characters in a text
  Tokens       \* of the header of a listed SMS, commas, quotes and blanks among them

\* The limits of the program (3900; 3000, 256, 1200, 600; 12) leave room for Frame.
\* The suffix is longer than one character and two entities, see ShortTail.
ASSUME LimitsAssumption ==
  /\ {maxText, smsBodyMax, fromPreviewMax, watchdogReasonMax, cmglItemMax,
      suffixLen, Frame, MaxLen} \subseteq Nat
  /\ smsBodyMax + fromPreviewMax + Frame <= maxText
  /\ watchdogReasonMax + Frame <= maxText
  /\ \A limit \in {smsBodyMax, fromPreviewMax, watchdogReasonMax, cmglItemMax} : suffixLen <= limit
  /\ suffixLen > 10
  /\ Label \in 1..maxText /\ ValueSizes \subseteq Nat \ {0}
  /\ {"comma", "quote", "blank"} \subseteq Tokens

Smaller(a, b) == IF a < b THEN a ELSE b

\* The state of a loop after 0, 1, ..., n rounds.
Rounds(n, start, Body(_, _)) ==
  LET state[i \in 0..n] == IF i = 0 THEN start ELSE Body(state[i - 1], i)
  IN  state

\* What the first 0, 1, 2, ... of these sizes add up to.
Sums(sizes) == Rounds(Len(sizes), 0, LAMBDA sum, i : sum + sizes[i])

\* strings.Trim: what lies between the first and the last member that is kept.
Trim(seq, what) ==
  LET kept == {i \in 1..Len(seq) : seq[i] # what}
  IN  IF kept = {} THEN <<>> ELSE SubSeq(seq, Min(kept), Max(kept))
TrimSpace(seq) == Trim(seq, "blank")

-----------------------------------------------------------------------------
(* Texts.  A byte that is no UTF-8 ranges as the rune U+FFFD, of three     *)
(* bytes; html.EscapeString makes an entity of markup.                     *)

Characters == {"plain", "blank", "markup", "wide", "invalid"}
Bytes(c)   == IF c = "wide" THEN 3 ELSE 1
RuneLen(c) == IF c \in {"wide", "invalid"} THEN 3 ELSE 1
Width(c)   == IF c = "markup" THEN 5 ELSE 1

Texts == UNION {[1..n -> Characters] : n \in 0..MaxLen}

\* Mutation: the look-ahead forgets the suffix.
TruncatesAtForgetful(used, at, c, size, limit) ==
  \/ at + RuneLen(c) < size /\ used + Width(c) > limit
  \/ used + Width(c) > limit

\* The loop of escapeAndTruncate stops before c: there would be no room for the
\* suffix, or none for the last character.  size is the text's length in bytes.
TruncatesAt(used, at, c, size, limit) ==
  \/ at + RuneLen(c) < size /\ used + Width(c) + suffixLen > limit
  \/ used + Width(c) > limit

\* The size of what escapeAndTruncate returns.
escapeAndTruncate(text, limit) ==
  LET used  == Sums([i \in 1..Len(text) |-> Width(text[i])])
      at    == Sums([i \in 1..Len(text) |-> Bytes(text[i])])
      all   == used[Len(text)]
      stops == {i \in 1..Len(text) :
                  TruncatesAt(used[i - 1], at[i - 1], text[i], at[Len(text)], limit)}
  IN  IF all <= limit \/ stops = {} THEN all ELSE used[Min(stops) - 1] + suffixLen

\* defaultText: a text of nothing but blanks has a fallback, all of it plain.
Escaped(text, limit) == IF TrimSpace(text) = <<>> THEN 1 ELSE escapeAndTruncate(text, limit)

truncatePlainText(size, limit) == Smaller(size, limit)

-----------------------------------------------------------------------------
(* Listings.  A header is a sequence of tokens; a line of a body is known  *)
(* by how it begins, blanks aside.                                         *)

\* Mutation: a comma within quotes separates, too.
SeparatesAnywhere(token, inQuote) == token = "comma"

Separates(token, inQuote) == token = "comma" /\ ~inQuote

ReadToken(s, token) ==
  IF Separates(token, s.inQuote)
  THEN [s EXCEPT !.fields = Append(@, TrimSpace(s.field)), !.field = <<>>]
  ELSE [s EXCEPT !.field = Append(@, token), !.inQuote = (@ # (token = "quote"))]

Scan(s, tokens) == Rounds(Len(tokens), s, LAMBDA t, i : ReadToken(t, tokens[i]))

splitCSV(tokens) ==
  LET end == Scan([fields |-> <<>>, field |-> <<>>, inQuote |-> FALSE], tokens)[Len(tokens)]
  IN  Append(end.fields, TrimSpace(end.field))

unquote(field) == Trim(TrimSpace(field), "quote")

\* What parseCMGL takes for the text of a header: neither a line that begins with
\* "+", which could be the next header, nor a final result, nor blanks.
IsText(line) == line.lead = "plain" /\ TrimSpace(line.text) # <<>>

ParseHeader(lines, i) ==
  LET values == splitCSV(lines[i].tokens)
      Field(n, default) == IF Len(values) >= n THEN unquote(values[n]) ELSE default
  IN  [index |-> values[1], status |-> Field(2, <<"unknown">>), from |-> Field(3, <<"unknown">>),
       at |-> Field(5, <<>>),
       text |-> IF i < Len(lines) /\ IsText(lines[i + 1]) THEN TrimSpace(lines[i + 1].text)
                ELSE <<>>]

Parsed(lines) ==
  Rounds(Len(lines), <<>>, LAMBDA messages, i :
    IF lines[i].lead = "+CMGL:" THEN Append(messages, ParseHeader(lines, i)) ELSE messages)
parseCMGL(lines) == Parsed(lines)[Len(lines)]

hasErrorLine(lines) == \E i \in 1..Len(lines) : lines[i].lead = "ERROR"

\* What the modem may have stored: quotes only around a field, no commas or blanks
\* in an index, and any text, protocol-like or not.  Of OK and ERROR, text is the
\* blanks around them.
BodyLines ==
  [lead: {"plain", "+", "+CME ERROR:"}, text: Seq(Characters)]
    \cup [lead: {"OK", "ERROR"}, text: Seq({"blank"})]
    \cup [lead: {"+CMGL:"}, tokens: Seq(Tokens)]
Value == Seq(Tokens \ {"quote"})
StoredSms ==
  [index: Seq(Tokens \ {"quote", "comma", "blank"}), status: Value, from: Value, alpha: Value,
   at: Value, body: Seq(BodyLines)]

\* The modem's answer to +CMGL in text mode: +CMGL: index,"stat","from",alpha,"at"
\* and the lines of the body, for each SMS; and OK.
Quoted(field) == <<"quote">> \o field \o <<"quote">>
Header(sms) ==
  <<"blank">> \o sms.index \o <<"comma">> \o Quoted(sms.status) \o <<"comma">>
    \o Quoted(sms.from) \o <<"comma">>
    \o (IF sms.alpha = <<>> THEN <<>> ELSE Quoted(sms.alpha)) \o <<"comma">> \o Quoted(sms.at)
HeaderLine(sms) == [lead |-> "+CMGL:", tokens |-> Header(sms)]
Answers(stored) ==
  Rounds(Len(stored), <<>>, LAMBDA lines, k :
    Append(lines, HeaderLine(stored[k])) \o stored[k].body)
Answer(stored) == Answers(stored)[Len(stored)]
Final == [lead |-> "OK", text |-> <<>>]

\* The AT library takes the first line that is a final result, be it of a body,
\* for the end of the answer, and may hand on that OK.  A failure is an error.
EndsAnswer(line) ==
  line.lead = "+CME ERROR:" \/ (line.lead \in {"OK", "ERROR"} /\ line.text = <<>>)
HandedOn(stored) ==
  LET lines == Append(Answer(stored), Final)
      end   == Min({i \in 1..Len(lines) : EndsAnswer(lines[i])})
  IN  IF lines[end].lead = "OK" THEN {SubSeq(lines, 1, n) : n \in {end - 1, end}} ELSE {}

-----------------------------------------------------------------------------
(* Replies.  A result of a command is explained in lines; a reply has as   *)
(* many of them as fit.                                                    *)

\* The groups of three values that explainCPMS shows.
storages(values) == Smaller(3, values \div 3)

explainCPMS(values) == IF values < 3 THEN <<Label>> ELSE [i \in 1..storages(values) |-> Label]

explainCMGL(messages) ==
  <<Label>> \o [k \in 1..Len(messages) |-> Frame + Escaped(messages[k].text, cmglItemMax)]

explainSingleValue == {<<n>> : n \in ValueSizes}
explainCPIN         == explainSingleValue
explainRegistration == explainSingleValue
explainCFUN         == explainSingleValue
explainCSQ  == {<<Label>>, <<Label, Label>>}
explainCOPS == {<<Label>>} \cup {<<Label, n>> : n \in ValueSizes}
                 \cup {<<Label, n, Label>> : n \in ValueSizes}

\* A command that the modem refuses with a line ERROR has a line of its own.
explainCommandResult(cmd) ==
  {<<Label>>} \cup
  CASE cmd = "CPIN"               -> explainCPIN
    [] cmd \in {"CREG", "CEREG"}  -> explainRegistration
    [] cmd = "CFUN"               -> explainCFUN
    [] cmd \in {"CCID", "CGMI", "CGMM", "CGMR", "CGSN"} -> explainSingleValue
    [] cmd = "CSQ"        -> explainCSQ
    [] cmd = "COPS"       -> explainCOPS
    [] cmd = "CPMS"       -> {explainCPMS(values) : values \in 0..10}
    [] cmd = "CNMI_store" -> {<<Label, Label, Label>>}
    [] OTHER              -> {<<Label>>}

\* Mutation: a line may take the room of the suffix.
FitsWithoutSuffix(used, chunk) == used + chunk <= maxText

\* appendHTMLChunk keeps a chunk only if the suffix would still fit behind it.
Fits(used, chunk) == used + chunk + suffixLen <= maxText

\* formatCommandResult: the lines, each with a newline, up to the first that does
\* not fit, which the suffix stands for; the text is trimmed.  It is cut if it has
\* no room for a line; what the lines themselves leave out is none of its concern.
formatCommandResult(lines) ==
  LET used == Sums([i \in 1..Len(lines) |-> lines[i] + 1])
      over == {i \in 1..Len(lines) : ~Fits(used[i - 1], lines[i] + 1)}
      kept == IF over = {} THEN used[Len(lines)] ELSE used[Min(over) - 1]
      told == over # {} /\ kept + suffixLen <= maxText
      raw  == kept + (IF told THEN suffixLen ELSE 0)
      trim == IF raw = 0 \/ (told /\ kept > 0) THEN 0 ELSE 1
  IN  [size |-> raw - trim, cut |-> over # {}, told |-> told]
=============================================================================
