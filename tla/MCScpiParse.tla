---------------------------- MODULE MCScpiParse -----------------------------
(* Instances of ScpiParse for TLC: what the client sends. *)
EXTENDS ScpiParse

U(root, path, query, args) == [root |-> root, short |-> FALSE, path |-> path, query |-> query, args |-> args]
Shortened(u) == [u EXCEPT !.short = TRUE]
Query(path) == U(FALSE, path, TRUE, << >>)
Set(path, args) == U(FALSE, path, FALSE, args)

\* Units that answer, full and relative to a path.
Queries ==
    {Query(<<"*IDN">>), Query(<<"GET", "DAC", "OUTput", "AC">>), Query(<<"BD">>),
     Shortened(Query(<<"SYSTem", "ERRor">>)), Query(<<"COUNt">>),
     Shortened(U(TRUE, <<"MEASure", "TEMPerature", "AC">>, TRUE, << >>))}

\* Commands with every kind of parameter, good ones and bad ones.
SetUnits ==
    {Set(<<"*CLS">>, << >>), Set(<<"*ESE">>, <<(<<"1", "V">>)>>),
     Set(<<"SET", "DAC", "OUTput", "BD">>, <<(<<"1">>)>>), Set(<<"AC">>, <<(<<"9">>)>>),
     Set(<<"SET", "DAC", "OUTput", "AC">>, <<(<<"FOO">>), <<"1">>>>),
     Set(<<"SET", "ATTEnuation">>, <<(<<"1", "FOO">>)>>), Set(<<"ATTEnuation">>, << >>),
     Set(<<"SET", "TEMPControl", "AUTOmatic">>, <<(<<"ON">>), <<"1">>>>),
     Set(<<"SET", "IPAddr">>, << >>), Set(<<"SET", "IPAddr">>, <<(<<"'address'">>)>>),
     Set(<<"IPAddr">>, <<(<<"1", "1", "1">>)>>), Set(<<"DHCPMode">>, <<(<<"'text'">>)>>),
     Set(<<"BD">>, <<(<<"1", "V">>)>>)}

Unknown == {U(TRUE, <<"FOO">>, FALSE, << >>), U(FALSE, <<"*FOO">>, TRUE, << >>)}

Messages(units, n) == UNION {[1..k -> units] : k \in 1..n}
AnswersLast(request) ==
    Meaning(request) # << >> /\ Last(Meaning(request)).query /\ Last(request).query
        /\ Named(Last(request), PathAfter(request)[Len(request) - 1]) # {}
Silent(request) == \A i \in DOMAIN Meaning(request) : ~Meaning(request)[i].query

\* An unknown header that gets a path spoils the line for relative ones after it.
Spoils(request, i) ==
    LET u == request[i] path == PathAfter(request)[i - 1]
    IN  WellFormed(u) /\ Named(u, path) = {} /\ ~u.root /\ u.path[1] \notin Commons /\ path # << >>
Unspoilt(request) == \A i \in 1..(Len(request) - 1) : ~Spoils(request, i)

\* Requests whose last unit answers, or that have no answer at all.
Proper == {r \in Messages(Queries \cup SetUnits \cup Unknown, 3) : (AnswersLast(r) \/ Silent(r)) /\ Unspoilt(r)}

\* What the other configurations add.
Spoilt == {<<Query(<<"GET", "DAC", "OUTput", "AC">>), Query(<<"FOO">>), Query(<<"BD">>)>>}
EndsInCommand == {<<Query(<<"*IDN">>), Set(<<"*CLS">>, << >>)>>}
Unheard == {<<Set(<<"SET", "IPAddr">>, <<(<<"'text'">>)>>)>>, <<Set(<<"SET", "ATTEnuation">>, <<(<<"MIN">>)>>)>>}
SetsDac == {<<Set(<<"SET", "DAC", "OUTput", "AC">>, <<(<<"1">>)>>)>>}
SetsIp == {set_ip}
SetsTd == {<<Shortened(Set(<<"SET", "PID", "Td", "AC">>, <<(<<"1">>)>>))>>}

\* Whatever a request leaves behind, one of these would pick up.
Probes == {<<Query(<<"*IDN">>)>>, <<Set(<<"*ESE">>, <<(<<"1">>)>>)>>}
=============================================================================
