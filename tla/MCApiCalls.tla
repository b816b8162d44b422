----------------------------- MODULE MCApiCalls -----------------------------
(* Small instances of ApiCalls for TLC. *)
EXTENDS ApiCalls

Pairs(fp, invite) ==
    <<<<"v", "1">>>> \o (IF fp = Absent THEN <<>> ELSE <<<<"fp", fp>>>>)
                     \o (IF invite = Absent THEN <<>> ELSE <<<<"invite", invite>>>>)

\* Card texts: both schemes, with and without what each of them needs, every
\* kind of host, ports that are and are not a default, and the malformed texts.
Text(scheme, host, port, query) ==
    [scheme |-> scheme, extra |-> FALSE, host |-> host, port |-> port, query |-> query]
Texts ==
    {Text(s, "name", "443", Pairs(fp, Absent)) :
        s \in {"zephyrvox", "zephyrvoxs", "http"}, fp \in {Absent, "good", "bad"}}
    \cup {Text("zephyrvox", h, p, Pairs(Absent, "")) :
            h \in {"name", "bad host"}, p \in {"0", Absent, "80"}}
    \cup {[Text("zephyrvox", "name", "443", Pairs(Absent, Absent)) EXCEPT !.extra = TRUE],
          Text("zephyrvox", "v4", "443", Pairs(Absent, "code")),
          Text("zephyrvoxs", "[v6]", "443", Pairs("good", Absent)),
          Text("zephyrvoxs", "name", "7000", Pairs("good", "code")),
          Text("zephyrvox", "name", "443", <<>>),
          Text("zephyrvox", "name", "443", <<<<"v", "2">>>>),
          Text("zephyrvox", "name", "443", <<<<"v", "not a u8">>>>),
          Text("zephyrvox", "name", "443", <<<<"v", "1">>, <<"v", "1">>>>),
          Text("zephyrvox", "name", "443", <<<<"v", "1">>, <<"q", "">>>>)}
==============================================================================
