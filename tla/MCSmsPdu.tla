------------------------------ MODULE MCSmsPdu ------------------------------
(* Model checking of SmsPdu with chosen messages.                          *)
EXTENDS SmsPdu

From(plus, digits) == [plus |-> plus, digits |-> digits]
Plain == [mode |-> "deliver", smsc |-> <<145, 104>>, from |-> From(TRUE, <<8, 6, 1>>),
          validity |-> "none", udh |-> <<>>, coding |-> "gsm7", chars |-> <<72, 105>>]
Concatenated == <<0, 3, 7, 2, 1>>

\* A text that crosses the octet where septets and octets meet again; even, odd
\* and no digits; no service centre, and one whose digits look like a length;
\* UCS2 with a surrogate pair and with a header; every validity period.
MCMessages ==
  { [Plain EXCEPT !.chars = <<72, 101, 108, 108, 111, 0, 127, 64, 1>>],
    [Plain EXCEPT !.smsc = <<>>, !.from = From(FALSE, <<1, 0, 6, 5>>)],
    [Plain EXCEPT !.smsc = <<1, 0, 0>>, !.from = From(FALSE, <<>>), !.chars = <<>>],
    [Plain EXCEPT !.coding = "ucs2", !.chars = <<20320, 128512, 33>>],
    [Plain EXCEPT !.coding = "ucs2", !.chars = <<20320, 33>>, !.udh = Concatenated],
    [Plain EXCEPT !.coding = "8bit", !.chars = <<1, 255>>],
    [Plain EXCEPT !.mode = "text", !.coding = "plain", !.chars = <<1, 2, 3, 4, 5, 6>>],
    [Plain EXCEPT !.mode = "text", !.coding = "plain", !.chars = <<10, 16, 12, 99>>],
    [Plain EXCEPT !.mode = "text", !.coding = "ucs2", !.chars = <<20320, 22909>>] }
  \cup [mode: {"submit"}, smsc: {<<145>>}, from: {From(TRUE, <<8, 6>>)}, udh: {<<>>},
        validity: {"none", "relative", "enhanced", "absolute"},
        coding: {"gsm7"}, chars: {<<72, 105>>}]

\* Parts of a PDU and of another line, with blanks and without.
MCJunk == {<<0>>, <<0, 7>>, <<1, 3>>, <<16, 16>>, <<16, 0, 7>>, <<0, 2, 9, 1>>}

\* A part of a concatenated message in GSM 7-bit.
HeaderMessages == {[Plain EXCEPT !.udh = Concatenated]}

\* All but the parts of concatenated messages are among those that RoundTrip is about.
ASSUME MCAssumption == \A m \in MCMessages : Decodable(m)
=============================================================================
