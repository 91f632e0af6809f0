----------------------------- MODULE MCCommandLine -----------------------------
(***************************************************************************)
(* Command lines for CommandLine.                                          *)
(***************************************************************************)
EXTENDS CommandLine

MCNumerals == {"502", "0502", "1"}
MCWords    == {"plc"} \cup MCNumerals
MCValueOf  == [w \in MCNumerals |-> IF w = "1" THEN 1 ELSE 502]
MCDecimalOf == [n \in {1, 502} |-> IF n = 1 THEN "1" ELSE "502"]

\* Texts of up to n tokens.
Texts(n) == {t \in UNION {[1..k -> Tokens] : k \in 0..n} :
               \A j \in 1..(Len(t) - 1) : ~({t[j], t[j + 1]} \subseteq Words)}

\* plc, plc:1, plc:, :1, [::1]:502 cut to its tokens, a target among blanks, a
\* blank line, a comment, and two that are refused, one of them a target with a
\* comment behind it.
Samples == { <<>>, <<"plc">>, <<"plc", ":", "1">>, <<"plc", ":">>, <<":", "1">>,
             <<"blank">>, <<"blank", "plc", "blank", ":", "blank", "1", "blank">>,
             <<"[", ":", ":", "1", "]", ":", "502">>, <<"blank", "#", "plc">>,
             <<"plc", ":", "plc">>, <<"plc", ":", "502", "#">> }

Probe(authorized, target, file, lines) ==
  [ sub |-> "probe", authorized |-> authorized, target |-> target, file |-> file,
    lines |-> lines ]

Feeds(sub, action, ids) == [sub |-> sub, action |-> action, ids |-> ids]

UpTo2(S) == UNION {[1..k -> S] : k \in 0..2}

MCFeedIds == <<"feodo", "threatfox">>
MCCatalog == {"feodo", "threatfox", "kev"}
Ids       == MCCatalog \cup {"typo"}

MCInvocations ==
  {[sub |-> "none"]}
  \cup {Probe(TRUE, <<t>>, "none", <<>>) : t \in Texts(4)}
  \cup {Probe(TRUE, <<>>, "read", <<t>>) : t \in Texts(4)}
  \cup {Probe(a, t, f, <<>>) : a \in BOOLEAN, t \in UpTo2(Samples),
                               f \in {"none", "unreadable", "undecodable"}}
  \cup {Probe(TRUE, t, "read", l) : t \in {<<>>, <<<<"plc">>>>, <<<<>>>>}, l \in UpTo2(Samples)}
  \cup {Feeds(s, a, <<>>) : s \in {"feeds", "datafeeds"}, a \in {"none", "list"}}
  \cup {Feeds("datafeeds", "snapshot", <<>>)}
  \cup {Feeds(s, "update", i) : s \in {"feeds", "datafeeds"}, i \in UpTo2(Ids)}
  \cup {Feeds(s, "get", <<i>>) : s \in {"feeds", "datafeeds"}, i \in Ids}

\* Scope files a user would write.
SampleFiles == {Probe(TRUE, <<>>, "read", l) : l \in UpTo2(Samples)}
=============================================================================
