----------------------------- MODULE ScpiInput ------------------------------
(***************************************************************************)
(* From TCP bytes to command lines: recv of scpi_server.c reads at most    *)
(* Chunk bytes at a time, SCPI_Input (parser.c) collects them in a buffer  *)
(* of Length bytes and runs every line that has become complete.  Bytes    *)
(* are numbered from 1 in the order the client sends them; newlines is the *)
(* set of those that end a line.  What the buffer holds is always a run of *)
(* consecutive bytes, start + 1 .. taken, so positions say everything.     *)
(***************************************************************************)
EXTENDS Integers, FiniteSets

CONSTANTS
    Chunk,        \* sizeof(tcp_buff)
    Length,       \* SCPI_INPUT_BUFFER_LENGTH
    LineLengths,  \* lengths of the client's lines, newline included
    MaxBytes      \* bytes a client sends (bound)

ASSUME InputAssumption ==
    /\ Chunk \in Nat \ {0} /\ Length \in Nat \ {0} /\ MaxBytes \in Nat
    /\ LineLengths \subseteq Nat \ {0}

VARIABLES
    sent,      \* bytes the client has sent
    newlines,  \* those that are newlines
    taken,     \* bytes read from the socket
    start,     \* taken bytes that are no longer in the buffer
    ran,       \* command lines run, as pairs <<byte before the first, newline>>
    overruns   \* -363 pushed to the error queue

vars == <<sent, newlines, taken, start, ran, overruns>>

Position == taken - start

\* The newlines among bytes lo + 1 .. hi.
Between(lo, hi) == {e \in newlines : lo < e /\ e <= hi}

\* A stretch from the end of one line to the end of the next.
IsPiece(p) == p[1] < p[2] /\ Between(p[1], p[2]) = {p[2]}

Init ==
    /\ sent = 0 /\ newlines = {} /\ taken = 0 /\ start = 0
    /\ ran = {} /\ overruns = 0

\* The client sends a line of n bytes.
SendLine(n) ==
    /\ sent + n <= MaxBytes
    /\ sent' = sent + n
    /\ newlines' = newlines \cup {sent + n}
    /\ UNCHANGED <<taken, start, ran, overruns>>

\* Mutants: the byte of the terminating zero is not reserved, or twice, and
\* complete lines are passed on as one.
FitsWithoutZero(n) == n <= Length - Position
FitsTooTight(n) == n <= Length - Position - 2
AllAsOne(ends) == {p \in {start} \X ends : \A e \in ends : e <= p[2]}

Fits(n) == n <= Length - Position - 1
Complete(ends) == {p \in ({start} \cup ends) \X ends : IsPiece(p)}

\* recv returns n bytes, however the lines are cut, and SCPI_Input either runs
\* the lines they complete and keeps the rest, or drops everything.
Input(n) ==
    /\ n <= sent - taken
    /\ taken' = taken + n
    /\ IF Fits(n)
       THEN LET ends == Between(start, taken + n)
            IN  /\ ran' = ran \cup Complete(ends)
                /\ \E last \in {start} \cup ends :
                      Between(last, taken + n) = {} /\ start' = last
                /\ UNCHANGED overruns
       ELSE start' = taken + n /\ overruns' = overruns + 1 /\ UNCHANGED ran
    /\ UNCHANGED <<sent, newlines>>

Next == (\E n \in LineLengths : SendLine(n)) \/ (\E n \in 1..Chunk : Input(n))

Spec == Init /\ [][Next]_vars

-----------------------------------------------------------------------------
(* Properties. *)

\* The terminating zero always has room: no chunk is copied past the buffer
\* (parser.c:320-330).
BufferHolds == Position < Length

\* However TCP cuts the stream, each complete line is run, and nothing else is
\* run, as long as no overrun has been reported to the client; what an overrun
\* leaves behind is at most the tail of one line: bytes of two lines are never run
\* as one command, and no byte is run twice (parser.c:308-351).
RunsTheLines ==
    /\ overruns = 0 =>
         /\ \A p \in ran : p[1] \in {0} \cup newlines
         /\ \A e \in newlines : e <= taken => \E p \in ran : p[2] = e
    /\ \A p \in ran : IsPiece(p) /\ \A q \in ran : p[2] = q[2] => p = q

\* An overrun is only ever the fault of a line of more than Length - Chunk bytes,
\* 48 here: an incomplete line below that leaves room for a whole chunk, however
\* the lines before it were cut.
OnlyLongLinesOverrun ==
    [][overruns' # overruns => Between(start, start + (Length - Chunk)) = {}]_vars
=============================================================================
