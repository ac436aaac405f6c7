---------------------------- MODULE MCSerialDetect ----------------------------
(* Model checking of SerialDetect with three ports.                        *)
EXTENDS SerialDetect

Plain == [marker |-> FALSE, interface |-> "none", acm |-> FALSE]
ACM == [Plain EXCEPT !.acm = TRUE]
Modem(i) == [marker |-> TRUE, interface |-> i, acm |-> FALSE]

\* Port 1 is a board's debug port, 2 a modem's AT port of which only the links
\* speak, and 3 the log port of another modem.
MCPortName == <<ACM, Plain, Plain>>
MCLinks == <<{}, {Modem("if03"), Modem("if05")}, {Modem("none")}>>
MCTTYInfo ==
  << [marker |-> FALSE, air780 |-> FALSE, interface |-> "at", number |-> 0],
     [marker |-> FALSE, air780 |-> FALSE, interface |-> "other", number |-> 3],
     [marker |-> TRUE, air780 |-> TRUE, interface |-> "log", number |-> 7] >>

\* An answer after blanks and after noise, without an end of line; an echo, an
\* empty line and the answer; log lines with OK inside.
MCReply ==
  << <<"ERROR", "other", "newline", "blank", "O", "K">>,
     <<"other", "newline", "newline", "O", "K", "newline">>,
     <<"other", "O", "K", "other", "newline", "other", "O", "K", "newline">> >>

\* The replies are among those that AnswerIsLine is about.
ASSUME MCAssumption == PlainReplies
=============================================================================
