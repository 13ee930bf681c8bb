------------------------------ MODULE ScpiParse ------------------------------
(***************************************************************************)
(* Program messages: how SCPI_Parse takes a line apart, finds and runs the *)
(* commands in it and writes their answers, for one client, which is       *)
(* written like the class RFFEControllerBoard of rffe_nuttx_lib.py.        *)
(* A line is a sequence of cells: a keyword or its short form, a number, a *)
(* quoted string, or a mark.  Letters of either case are the same cell;    *)
(* the values of numbers and settings belong to other modules.             *)
(***************************************************************************)
EXTENDS Integers, Sequences, SequencesExt

CONSTANTS
    Requests,     \* what the client may send: sequences of units, see Text
    Followers,    \* those it may send after the first: a bound
    DacFound,     \* whether /dev/dac0 and
    SensorFound,  \* the temperature sensors can be opened
    Patient       \* the client's 5 s never end before the answer is there

Marks    == {"?", ":", "SEMI", "COMMA", "SP", "NL"}   \* "SP" is white space
Numbers  == {"1", "9"}                               \* 9 is above 3.3 V
Texts    == {"'address'", "'text'"}                  \* inet_pton accepts one
Commons  == {"*CLS", "*OPC", "*RST", "*WAI", "*ESE", "*SRE", "*ESR", "*IDN", "*STB", "*TST", "*FOO"}
UnitNames == {"V"}                                   \* scpi_units_def
Specials == {"MIN"}                                  \* scpi_special_numbers_def
Bools    == {"ON"}                                   \* scpi_bool_def
IsWord(c) == c \notin Marks \cup Numbers \cup Texts \cup Commons \cup {"EOS"}

-----------------------------------------------------------------------------
(* The command table, in its order, and how a header is matched.            *)

\* The upper-case part of a keyword is its short form.
Short ==
    [SYSTem |-> "SYST", ERRor |-> "ERR", COUNt |-> "COUN", VERSion |-> "VERS", STATus |-> "STAT",
     QUEStionable |-> "QUES", EVENt |-> "EVEN", ENABle |-> "ENAB", PRESet |-> "PRES",
     MEASure |-> "MEAS", TEMPerature |-> "TEMP", ATTEnuation |-> "ATTE", SETPoint |-> "SETP",
     Kc |-> "K", Ti |-> "T", Td |-> "T", TEMPControl |-> "TEMPC", AUTOmatic |-> "AUTO",
     OUTput |-> "OUT", IPAddr |-> "IPA", GATEwayaddr |-> "GATE", NETMask |-> "NETM",
     DHCPMode |-> "DHCPM", VERsion |-> "VER", RESet |-> "RES"]
ShortForm(w) == IF w \in DOMAIN Short THEN Short[w] ELSE w

C(path, query, does) == [path |-> path, query |-> query, does |-> does]
OnBoth(path, query, does) == <<C(Append(path, "AC"), query, does), C(Append(path, "BD"), query, does)>>
PidCommands(verb, query, does) ==
    LET k == <<"Kc", "Ti", "Td">>
    IN  [i \in 1..6 |-> C(<<verb, "PID", k[((i - 1) % 3) + 1], IF i <= 3 THEN "AC" ELSE "BD">>, query, does)]
SetAndGet(path, does) == <<C(<<"SET">> \o path, FALSE, does), C(<<"GET">> \o path, TRUE, "answer")>>

Commands ==
    <<C(<<"*CLS">>, FALSE, "act"), C(<<"*ESE">>, FALSE, "integer"), C(<<"*ESE">>, TRUE, "answer"),
      C(<<"*ESR">>, TRUE, "answer"), C(<<"*IDN">>, TRUE, "answer"), C(<<"*OPC">>, FALSE, "act"),
      C(<<"*OPC">>, TRUE, "answer"), C(<<"*RST">>, FALSE, "act"), C(<<"*SRE">>, FALSE, "integer"),
      C(<<"*SRE">>, TRUE, "answer"), C(<<"*STB">>, TRUE, "answer"), C(<<"*TST">>, TRUE, "answer"),
      C(<<"*WAI">>, FALSE, "act"),
      C(<<"SYSTem", "ERRor", "NEXT">>, TRUE, "answer"), C(<<"SYSTem", "ERRor", "COUNt">>, TRUE, "answer"),
      C(<<"SYSTem", "VERSion">>, TRUE, "answer"),
      C(<<"STATus", "QUEStionable", "EVENt">>, TRUE, "answer"),
      C(<<"STATus", "QUEStionable", "ENABle">>, FALSE, "integer"),
      C(<<"STATus", "QUEStionable", "ENABle">>, TRUE, "answer"), C(<<"STATus", "PRESet">>, FALSE, "act")>>
    \o OnBoth(<<"MEASure", "TEMPerature">>, TRUE, "measure")
    \o SetAndGet(<<"ATTEnuation">>, "attenuation")
    \o OnBoth(<<"SET", "TEMPerature", "SETPoint">>, FALSE, "number")
    \o OnBoth(<<"GET", "TEMPerature", "SETPoint">>, TRUE, "answer")
    \o PidCommands("SET", FALSE, "number") \o PidCommands("GET", TRUE, "answer")
    \o SetAndGet(<<"TEMPControl", "AUTOmatic">>, "bool")
    \o OnBoth(<<"SET", "DAC", "OUTput">>, FALSE, "dac") \o OnBoth(<<"GET", "DAC", "OUTput">>, TRUE, "answer")
    \o SetAndGet(<<"IPAddr">>, "address") \o SetAndGet(<<"GATEwayaddr">>, "address")
    \o SetAndGet(<<"NETMask">>, "address") \o SetAndGet(<<"DHCPMode">>, "bool")
    \o <<C(<<"GET", "VERsion">>, TRUE, "answer"), C(<<"SYSTem", "RESet">>, FALSE, "act")>>
NoCommand == C(<< >>, FALSE, "nothing")

\* Optional keywords: SYSTem:ERRor[:NEXT]? and STATus:QUEStionable[:EVENt]?
OptionalEnd(path) == Last(path) \in {"NEXT", "EVENt"}

Colons(path) == [i \in 1..(2 * Len(path) - 1) |-> IF i % 2 = 1 THEN path[(i + 1) \div 2] ELSE ":"]
QueryMark(query) == IF query THEN <<"?">> ELSE << >>
Pattern(cmd) ==
    (IF OptionalEnd(cmd.path) THEN Colons(Front(cmd.path)) \o <<"[", ":", Last(cmd.path), "]">>
     ELSE Colons(cmd.path)) \o QueryMark(cmd.query)

PatternMarks == {"?", ":", "[", "]"}
At(d, i) == IF i \in DOMAIN d THEN d[i] ELSE "EOS"

\* What separates two keywords of a pattern, and how an optional one ends.
Separators == {<<":">>, <<"[", ":">>, <<"]", ":">>, <<"]", "[", ":">>}
OptionalEnds == {s \in Separators : s[1] = "]"}

\* A keyword at a position of a pattern or of a header, and what follows it.
KeywordAt(d, i) == At(d, i) \notin PatternMarks \cup {"EOS"}
After(d, i)     == IF KeywordAt(d, i) THEN i + 1 ELSE i
Skips(pattern, p, seps) == {s \in seps : \A j \in DOMAIN s : At(pattern, p + j - 1) = s[j]}
Brackets(pattern, i) ==
    Cardinality({k \in 1..i : pattern[k] = "["}) - Cardinality({k \in 1..i : pattern[k] = "]"})

\* One turn of the loop of matchCommand: the two keywords, then the rest, if the
\* header goes on, or an optional keyword that the header does not have.  from[p]
\* is where in the header what the pattern says from p on may begin.
MatchFrom(pattern, header, from, p, c) ==
    LET p1 == After(pattern, p)
        c1 == After(header, c)
        same == IF KeywordAt(pattern, p) THEN At(header, c) \in {pattern[p], ShortForm(pattern[p])}
                ELSE ~KeywordAt(header, c)
    IN  IF ~same THEN \E s \in Skips(pattern, p1, OptionalEnds) : c \in from[p1 + Len(s)]
        ELSE IF c1 > Len(header) THEN \A k \in p1..Len(pattern) : KeywordAt(pattern, k) => Brackets(pattern, k) > 0
        ELSE header[c1] = ":" /\ \E s \in Skips(pattern, p1, Separators) : c1 + 1 \in from[p1 + Len(s)]

\* A header may begin with a colon, but not before a common command.
HeaderMatches(pattern, header) ==
    LET from[p \in 1..(Len(pattern) + 1)] == {c \in 1..(Len(header) + 1) : MatchFrom(pattern, header, from, p, c)}
        first == IF Len(header) >= 2 /\ header[1] = ":" THEN 2 ELSE 1
    IN  ~(first = 2 /\ header[2] \in Commons) /\ first \in from[1]

\* A query matches queries only, and the walk is that of what is before the marks.
matchCommand(cmd, cells) ==
    LET query == cmd.query /\ Last(cells) = "?"
    IN  /\ cmd.query => query
        /\ IF query THEN HeaderMatches(Front(Pattern(cmd)), Front(cells)) ELSE HeaderMatches(Pattern(cmd), cells)

-----------------------------------------------------------------------------
(* The lexer, on the cells d from position p on. *)

WhiteSpaceEnd(d, p) == Min({q \in p..(Len(d) + 1) : At(d, q) # "SP"})

\* scpiLex_ProgramHeader: a header that ends with a colon is incomplete, and a
\* header all the same.
HeaderEnd(d, p) ==
    LET first == IF At(d, p) = ":" THEN p + 1 ELSE p
        words == {n \in 0..Len(d) : \A j \in 0..(n - 1) :
                    IsWord(At(d, first + 2 * j)) /\ (j > 0 => At(d, first + 2 * j - 1) = ":")}
        end == first + 2 * Max(words) - 1
    IN  IF At(d, p) \in Commons THEN p + (IF At(d, p + 1) = "?" THEN 2 ELSE 1)
        ELSE IF Max(words) = 0 THEN first
        ELSE IF At(d, end) \in {":", "?"} THEN end + 1 ELSE end

\* scpiParser_parseProgramData: one parameter, white space around it, and a
\* word after a number as its suffix.
ProgramData(d, p) ==
    LET s == WhiteSpaceEnd(d, p)
        c == At(d, s)
        w == WhiteSpaceEnd(d, s + 1)
        suffixed == c \in Numbers /\ IsWord(At(d, w))
        kind == IF suffixed THEN IF At(d, w) \in UnitNames THEN "unit" ELSE "suffix"
                ELSE IF c \in Numbers THEN "number" ELSE IF c \in Texts THEN "text"
                ELSE IF IsWord(c) THEN "word" ELSE "none"
    IN  [kind |-> kind, cell |-> c,
         next |-> IF kind = "none" THEN s ELSE IF suffixed THEN WhiteSpaceEnd(d, w + 1) ELSE w]

\* scpiParser_parseAllProgramData: a list that breaks off counts as empty.  from
\* is what the parameters from each later cell on come to.
DataFrom(d, p, from, q) ==
    LET a == ProgramData(d, q)
    IN  IF a.kind = "none" THEN [len |-> 0, next |-> a.next]
        ELSE IF At(d, a.next) # "COMMA" THEN [len |-> a.next - p, next |-> a.next]
        ELSE LET rest == from[a.next + 1]
             IN  [len |-> IF rest.len = 0 THEN 0 ELSE rest.next - p, next |-> rest.next]

AllProgramData(d, p) ==
    LET from[q \in p..(Len(d) + 1)] == DataFrom(d, p, from, q)
    IN  from[p]

\* A unit that does not end where its parameters do is invalid; one cell is
\* skipped and the rest of it is read as a unit.
detectProgramMessageUnit(d, p) ==
    LET s == WhiteSpaceEnd(d, p)
        h == HeaderEnd(d, s)
        w == WhiteSpaceEnd(d, h)
        all == IF w > h THEN AllProgramData(d, w) ELSE [len |-> 0, next |-> w]
        ends == At(d, all.next) \in {"NL", "SEMI", "EOS"}
    IN  [invalid |-> ~ends,
         header |-> [ptr |-> s, len |-> IF ends THEN h - s ELSE 1],
         data |-> [ptr |-> w, len |-> all.len],
         next |-> IF At(d, all.next) = "EOS" THEN all.next ELSE all.next + 1]

Cells(d, token) == SubSeq(d, token.ptr, token.ptr + token.len - 1)

\* Mutant: the path ends at the first colon.
composeToFirstColon(d, prev, cur) ==
    LET colons == {k \in 1..prev.len : d[prev.ptr + k - 1] = ":"}
        i == IF colons = {} THEN 0 ELSE Min(colons)
        to == cur.ptr - i
    IN  IF prev.len = 0 \/ d[cur.ptr] \in Commons \cup {":"} \/ d[prev.ptr] \in Commons
        THEN [data |-> d, header |-> cur]
        ELSE [data |-> [j \in DOMAIN d |-> IF j \in to..(cur.ptr - 1) THEN d[prev.ptr + j - to] ELSE d[j]],
              header |-> [ptr |-> to, len |-> cur.len + i]]

\* The header of the unit gets the path of the previous one written before it,
\* in the line itself.
composeCompoundCommand(d, prev, cur) ==
    LET i == Max({0} \cup {k \in 1..prev.len : d[prev.ptr + k - 1] = ":"})
        to == cur.ptr - i
    IN  IF prev.len = 0 \/ d[cur.ptr] \in Commons \cup {":"} \/ d[prev.ptr] \in Commons
        THEN [data |-> d, header |-> cur]
        ELSE [data |-> [j \in DOMAIN d |-> IF j \in to..(cur.ptr - 1) THEN d[prev.ptr + j - to] ELSE d[j]],
              header |-> [ptr |-> to, len |-> cur.len + i]]

-----------------------------------------------------------------------------
(* Parameters and handlers.  a is the first parameter, of kind "none" when   *)
(* there is none; handlers read one at most.                                 *)

\* What reading a parameter comes to: the errors it pushed, whether it succeeded.
Read(errs, ok) == [errs |-> errs, ok |-> ok]
Missing(mandatory) == Read(IF mandatory THEN <<-109>> ELSE << >>, FALSE)

\* A string is refused without an error; a special name is accepted.
ParamNumber(a) ==
    CASE a.kind = "none" -> Missing(TRUE)
      [] a.kind \in {"number", "unit"} -> Read(<< >>, TRUE)
      [] a.kind = "suffix" -> Read(<<-131>>, FALSE)
      [] a.kind = "word" -> IF a.cell \in Specials THEN Read(<< >>, TRUE) ELSE Read(<<-224>>, FALSE)
      [] a.kind = "text" -> Read(<< >>, FALSE)

ParamInt32(a) ==
    CASE a.kind = "none" -> Missing(TRUE)
      [] a.kind = "number" -> Read(<< >>, TRUE)
      [] a.kind \in {"unit", "suffix"} -> Read(<<-138>>, FALSE)
      [] a.kind \in {"word", "text"} -> Read(<<-104>>, FALSE)

ParamBool(a) ==
    CASE a.kind = "none" -> Missing(TRUE)
      [] a.kind = "number" -> Read(<< >>, TRUE)
      [] a.kind = "word" -> IF a.cell \in Bools THEN Read(<< >>, TRUE) ELSE Read(<<-224>>, FALSE)
      [] a.kind \in {"unit", "suffix", "text"} -> Read(<<-104>>, FALSE)

ParamCopyText(a) ==
    CASE a.kind = "none" -> Missing(FALSE)
      [] a.kind = "text" -> Read(<< >>, TRUE)
      [] a.kind \notin {"none", "text"} -> Read(<<-104>>, FALSE)

\* What a handler comes to: its errors, whether it returned SCPI_RES_OK,
\* whether it wrote a result, whether it did what it was asked, whether it read
\* its parameter.  A special name leaves garbage in the value; high says whether
\* that is above 3.3.
Done(errs, ok, out, done, reads) ==
    [errs |-> errs, ok |-> ok, out |-> out, done |-> done, reads |-> reads]
Sets(r, valid) == Done(r.errs, r.ok, FALSE, r.ok /\ valid, TRUE)
Absent == Done(<<-241>>, FALSE, TRUE, FALSE, FALSE)

Handler(cmd, a, high) ==
    LET n == ParamNumber(a)
        meant == a.kind # "word"
    IN  CASE cmd.does = "act" -> Done(<< >>, TRUE, FALSE, TRUE, FALSE)
          [] cmd.does = "answer" -> Done(<< >>, TRUE, TRUE, TRUE, FALSE)
          [] cmd.does = "measure" -> IF SensorFound THEN Done(<< >>, TRUE, TRUE, TRUE, FALSE) ELSE Absent
          [] cmd.does = "number" -> Sets(n, meant)
          [] cmd.does = "attenuation" ->
                Sets(IF n.ok THEN n ELSE Read(Append(n.errs, -109), FALSE), meant)
          [] cmd.does = "dac" ->
                IF ~DacFound THEN Absent
                ELSE Sets(IF n.ok /\ (a.cell = "9" \/ (~meant /\ high)) THEN Read(<<-224>>, FALSE) ELSE n, meant)
          [] cmd.does = "integer" -> Sets(ParamInt32(a), TRUE)
          [] cmd.does = "bool" -> Sets(ParamBool(a), TRUE)
          [] cmd.does = "address" -> Sets(ParamCopyText(a), a.cell = "'address'")

\* Mutant: a handler that fails without an error is not reported.
ErrorsPushed(h, unread) == IF unread /\ h.errs = << >> THEN <<-108>> ELSE h.errs

\* Errors of a unit: those of its handler, at least -200 if that failed, and
\* -108 for a parameter nobody read, after the command has run.
ErrorsOf(h, unread) ==
    LET errs == IF ~h.ok /\ h.errs = << >> THEN <<-200>> ELSE h.errs
    IN  IF unread /\ errs = << >> THEN <<-108>> ELSE errs
-----------------------------------------------------------------------------
(* The parser and its client.                                                *)

VARIABLES
    data, pos,     \* the line, and where the next unit starts in it
    prev,          \* cmd_prev
    output_count,  \* 1 while the last unit run has written a result
    log,           \* for each unit so far: the command run, its errors, ...
    executed,      \* the commands run so far
    inbox,         \* written by the device, not yet read by the client
    asked,         \* the client's last request
    waiting,       \* it reads a line
    line           \* the line it has read since then

parseVars == <<data, pos, prev, output_count, log, executed, inbox, asked, waiting, line>>

NoToken == [ptr |-> 1, len |-> 0]
Running == pos <= Len(data)
Idle == ~Running /\ data = << >>

\* A unit of a request, in cells: parameters are separated by commas, units by
\* semicolons.
Spelt(u) == [i \in DOMAIN u.path |-> IF u.short THEN ShortForm(u.path[i]) ELSE u.path[i]]
HeaderCells(root, words, query) == (IF root THEN <<":">> ELSE << >>) \o Colons(words) \o QueryMark(query)
ArgsText(args) ==
    LET text[i \in 0..Len(args)] ==
            IF i = 0 THEN << >> ELSE text[i - 1] \o (IF i = 1 THEN <<"SP">> ELSE <<"COMMA">>) \o args[i]
    IN  text
UnitText(u) == HeaderCells(u.root, Spelt(u), u.query) \o ArgsText(u.args)[Len(u.args)]
UnitsText(request) ==
    LET text[i \in 0..Len(request)] ==
            IF i = 0 THEN << >>
            ELSE (IF i = 1 THEN << >> ELSE Append(text[i - 1], "SEMI")) \o UnitText(request[i])
    IN  text
Text(request) == UnitsText(request)[Len(request)]

ParseInit ==
    /\ data = << >> /\ pos = 1 /\ prev = NoToken /\ output_count = 0 /\ log = << >> /\ executed = << >>
    /\ inbox = << >> /\ asked = << >> /\ waiting = FALSE /\ line = << >>

\* Mutant: SCPI_Parse does not clear output_count.
RequestCounted(request) ==
    /\ Idle /\ ~waiting /\ (asked = << >> \/ request \in Followers)
    /\ asked' = request
    /\ waiting' = (Last(Text(request)) = "?")
    /\ data' = Append(Text(request), "NL") /\ pos' = 1 /\ prev' = NoToken
    /\ log' = << >> /\ executed' = << >> /\ line' = << >>
    /\ UNCHANGED <<inbox, output_count>>

\* __scpi_request__: the client waits for a line when its request ends in "?".
\* SCPI_Input hands the whole line to SCPI_Parse.  The request after one that
\* is not waited for may be sent earlier, but lines are parsed in order.
Request(request) ==
    /\ Idle /\ ~waiting /\ (asked = << >> \/ request \in Followers)
    /\ asked' = request
    /\ waiting' = (Last(Text(request)) = "?")
    /\ data' = Append(Text(request), "NL") /\ pos' = 1 /\ prev' = NoToken
    /\ output_count' = 0 /\ log' = << >> /\ executed' = << >> /\ line' = << >>
    /\ UNCHANGED inbox

Log(cmd, errs, done) == log' = Append(log, [cmd |-> cmd, errs |-> errs, done |-> done])

\* processCommand, with the unit's header h.
processCommand(cmd, d, u, h, high) ==
    LET a == IF u.data.len > 0 THEN ProgramData(d, u.data.ptr) ELSE [kind |-> "none", cell |-> "EOS", next |-> u.data.ptr]
        r == Handler(cmd, a, high)
        unread == (IF r.reads THEN a.next ELSE u.data.ptr) < u.data.ptr + u.data.len
    IN  /\ inbox' = inbox \o (IF output_count > 0 THEN <<(<<"SEMI">>)>> ELSE << >>)
                          \o (IF r.out THEN <<cmd.path>> ELSE << >>)
        /\ output_count' = IF r.out THEN 1 ELSE 0
        /\ Log(cmd, ErrorsOf(r, unread), r.done)
        /\ executed' = Append(executed, cmd)
        /\ prev' = h

\* findCommandHeader: the first pattern that matches.
findCommandHeader(cells) ==
    LET found == {i \in DOMAIN Commands : matchCommand(Commands[i], cells)}
    IN  IF found = {} THEN NoCommand ELSE Commands[Min(found)]

\* One turn of the loop of SCPI_Parse, with the unit u it detects.
Invalid(u) ==
    /\ u.invalid
    /\ Log(NoCommand, <<-101>>, FALSE)
    /\ UNCHANGED <<data, prev, output_count, executed, inbox>>

Empty(u) ==
    /\ ~u.invalid /\ u.header.len = 0
    /\ UNCHANGED <<data, prev, output_count, executed, inbox, log>>

Command(u) ==
    /\ ~u.invalid /\ u.header.len > 0
    /\ \E composed \in {composeCompoundCommand(data, prev, u.header)} :
         /\ data' = composed.data
         /\ \E c \in {findCommandHeader(Cells(composed.data, composed.header))} :
              \/ /\ c = NoCommand
                 /\ Log(NoCommand, <<-113>>, FALSE)
                 /\ UNCHANGED <<prev, output_count, executed, inbox>>
              \/ c # NoCommand /\ \E high \in BOOLEAN :
                    processCommand(c, composed.data, u, composed.header, high)

ParseUnit ==
    /\ Running
    /\ \E u \in {detectProgramMessageUnit(data, pos)} :
         /\ Invalid(u) \/ Empty(u) \/ Command(u)
         /\ pos' = u.next
    /\ UNCHANGED <<asked, waiting, line>>

\* The new line at the end, if the last unit run has written a result.
EndOfMessage ==
    /\ ~Running /\ data # << >>
    /\ inbox' = IF output_count > 0 THEN Append(inbox, <<"NL">>) ELSE inbox
    /\ data' = << >> /\ pos' = 1 /\ prev' = NoToken
    /\ UNCHANGED <<output_count, log, executed, asked, waiting, line>>

\* __sock_recv_line__
ReadLine ==
    /\ waiting /\ Contains(inbox, <<"NL">>)
    /\ LET n == Min({i \in DOMAIN inbox : inbox[i] = <<"NL">>})
       IN  line' = SubSeq(inbox, 1, n) /\ inbox' = SubSeq(inbox, n + 1, Len(inbox))
    /\ waiting' = FALSE
    /\ UNCHANGED <<data, pos, prev, output_count, log, executed, asked>>

\* The socket's timeout of 5 s; what had come of the line is lost.
GiveUp ==
    /\ waiting /\ ~Contains(inbox, <<"NL">>) /\ (Patient => Idle)
    /\ waiting' = FALSE /\ inbox' = << >>
    /\ UNCHANGED <<data, pos, prev, output_count, log, executed, asked, line>>

ParseNext == (\E request \in Requests : Request(request)) \/ ParseUnit \/ EndOfMessage \/ ReadLine \/ GiveUp

ParseSpec == ParseInit /\ [][ParseNext]_parseVars

-----------------------------------------------------------------------------
(* What a message means: its units one by one, without the buffer.           *)

WellFormed(u) == \A i \in DOMAIN u.args : Len(u.args[i]) = 1 \/ (Len(u.args[i]) = 2 /\ IsWord(u.args[i][2]))
Full(u, path) == IF u.root \/ u.path[1] \in Commons THEN u.path ELSE path \o u.path
Spellings(cmd) == {cmd.path} \cup IF OptionalEnd(cmd.path) THEN {Front(cmd.path)} ELSE {}
Named(u, path) ==
    IF WellFormed(u) THEN {c \in Range(Commands) : c.query = u.query /\ Full(u, path) \in Spellings(c)} ELSE {}

\* The path that unit i + 1 starts from: that of the last command before it.
PathAfter(request) ==
    LET path[i \in 0..Len(request)] ==
            IF i = 0 THEN << >>
            ELSE IF Named(request[i], path[i - 1]) = {} THEN path[i - 1]
            ELSE IF request[i].path[1] \in Commons THEN << >>
            ELSE Front(Full(request[i], path[i - 1]))
    IN  path

\* The commands the first units name, and what these answer.
MeaningOf(request) ==
    LET cmds[i \in 0..Len(request)] ==
            IF i = 0 THEN << >> ELSE cmds[i - 1] \o SetToSeq(Named(request[i], PathAfter(request)[i - 1]))
    IN  cmds
Meaning(request) == MeaningOf(request)[Len(request)]

Answering == {"answer", "measure"}
AnswersOf(cmds) ==
    LET text[i \in 0..Len(cmds)] ==
            IF i = 0 THEN << >>
            ELSE IF cmds[i].does \notin Answering THEN text[i - 1]
            ELSE text[i - 1] \o (IF text[i - 1] = << >> THEN << >> ELSE <<(<<"SEMI">>)>>) \o <<cmds[i].path>>
    IN  text[Len(cmds)]
Answers(request) ==
    LET text == AnswersOf(Meaning(request)) IN IF text = << >> THEN << >> ELSE Append(text, <<"NL">>)

\* The request of set_ip: the address without quotes, where the lexer finds one
\* number after another.
set_ip == <<[root |-> FALSE, short |-> FALSE, path |-> <<"SET", "IPAddr">>, query |-> FALSE, args |-> <<(<<"1", "1", "1">>)>>]>>

-----------------------------------------------------------------------------
(* Properties. *)

\* The commands run are those the message names, in its order, each relative to
\* the command before it, whatever was written over the line meanwhile
\* (utils.c:678-712).
\* The code does not keep this after an unknown header (README.md, section 5).
RunsWhatTheMessageSays == Idle /\ asked # << >> => executed = Meaning(asked)

\* A client that has asked reads exactly the answers to its request, on one
\* line, and nothing is left for the next one (parser.c:95-126).
\* The code does not keep this when a command ends the message (README.md, section 5).
AnswersTheRequest ==
    /\ line # << >> => line = Answers(asked)
    /\ Idle /\ ~waiting => inbox = << >>

\* "Sets the IP Address. The value is passed as a string" (rffe_nuttx_lib.py:257):
\* once its request is done the address is set.
\* The code does not keep this (README.md, section 5).
SetIpArrives == Idle /\ asked = set_ip => \E i \in DOMAIN log : log[i].cmd.path = <<"SET", "IPAddr">> /\ log[i].done

\* A unit that was not done has pushed an error: a client that asks for errors
\* learns of it (parser.c:142, 154).
\* The code does not keep this for special names and bad addresses (README.md, section 5).
FailuresAreReported == \A i \in DOMAIN log : log[i].done \/ log[i].errs # << >>
=============================================================================
