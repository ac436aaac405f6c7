------------------------------- MODULE MCChat -------------------------------
(* Model checking of Chat: listings of up to two SMS with names and times   *)
(* that have commas and blanks, texts of several lines, with blanks, like   *)
(* the modem's own lines, and texts that get too long.                      *)
EXTENDS Chat

Line(lead, text) == [lead |-> lead, text |-> text]
Long == <<"markup", "markup", "markup", "markup", "markup">>
Bodies ==
  {<<>>} \cup {<<l>> : l \in {Line("plain", Long), Line("plain", <<"blank">>), Line("+", <<"plain">>),
                             Line("+CME ERROR:", <<>>), Line("OK", <<"blank">>), Line("OK", <<>>),
                             Line("ERROR", <<"blank">>), Line("ERROR", <<>>),
                             [lead |-> "+CMGL:", tokens |-> <<"blank", "a">>]}}
    \cup {<<Line("plain", <<"blank", "plain", "blank", "wide", "blank">>), l>> :
            l \in {Line("plain", Long), Line("OK", <<>>), [lead |-> "+CMGL:", tokens |-> <<>>]}}

SomeSms(index) ==
  [index : {<<index>>}, status : {<<"read">>},
   from : {<<>>, <<"a", "comma", "blank", index>>, <<"blank", index, "blank">>},
   alpha : {<<>>, <<"b", "comma", "c">>}, at : {<<"day", "comma", "hour">>}, body : Bodies]

AllListings ==
  {<<>>} \cup {<<a>> : a \in SomeSms("1")} \cup {<<a, b>> : a \in SomeSms("1"), b \in SomeSms("2")}
SomeTokens == {"1", "2", "read", "a", "b", "c", "day", "hour", "comma", "quote", "blank"}
\* Around the limit of a message.
SomeSizes == {Label, maxText - suffixLen - 1, maxText - suffixLen, maxText, maxText + 1}
SomeSenders == {<<>>, <<"plain">>, Long}
=============================================================================
