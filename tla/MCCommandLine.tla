--------------------------- MODULE MCCommandLine ---------------------------
(* Values for CommandLine: a few words behind a beginning that is complete, or   *)
(* lacks the version, or is empty; two operands may stand before it.               *)
EXTENDS CommandLine, TLC

Plain(t) == [letters |-> <<>>, name |-> "", value |-> Absent, text |-> t]
Short(ls) == [letters |-> ls, name |-> "", value |-> Absent, text |-> "word"]
Long(n, v) == [letters |-> <<"-">>, name |-> n, value |-> v, text |-> "word"]

MCWords == {Plain("word"), Plain("1"), Plain(""), Short(<<"-">>), Short(<<"p">>), Short(<<"d", "word">>),
            Short(<<"z">>), Long("details", Absent), Long("hook", Absent), Long("pids", "2GB"), Long("int", "0"),
            [Short(<<"h", "-">>) EXCEPT !.name = "restart-after-fail"]}

MCRequired == <<Short(<<"b", "https">>), Short(<<"a", "word">>), Short(<<"e", "word">>), Short(<<"v", "1">>)>>
MCBeginnings == {<<>>, MCRequired, <<Plain("word"), Plain("1")>> \o MCRequired, Front(MCRequired),
                 <<Long("details", "word")>> \o MCRequired, Append(MCRequired, Long("details", "word")) \o <<Long("hook-dir", "word")>>}
MCLines == {b \o t : b \in MCBeginnings, t \in UNION {[1..n -> MCWords] : n \in 0..3}}

MCAbbreviation ==
    [n \in {w.name : w \in MCWords} \cup {Table[i].long : i \in Entries} |->
        CASE n = "" -> {Table[i].long : i \in Entries}
          [] n = "hook" -> {"hook-prompt", "hook-dir"}
          [] n = "int" -> {"interactive"}
          [] OTHER -> {}]
=============================================================================
