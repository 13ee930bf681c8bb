-------------------------- MODULE ScpiInputProofs ---------------------------
(***************************************************************************)
(* The input buffer for every buffer length, chunk size and set of line    *)
(* lengths.  The invariant says that the buffer holds no newline, because  *)
(* complete lines leave it at once, and that with short lines a newline is *)
(* never further ahead than Length - Chunk bytes.  Together they bound     *)
(* what the buffer holds when a chunk arrives.  The second invariant says  *)
(* that every line that was run has left the buffer.                       *)
(*                                                                         *)
(* The rest of the module is about what is done with such a line: the      *)
(* parser tells the client of every unit it has not done, runs what the    *)
(* message names, and the client reads the answers to what it asked.       *)
(***************************************************************************)
EXTENDS ScpiInput, ScpiParse, TLAPS, WellFoundedInduction, FiniteSetTheorems, SequenceTheorems

ShortLines == \A n \in LineLengths : n <= Length - Chunk

Counters ==
    /\ sent \in Nat /\ taken \in Nat /\ start \in Nat /\ overruns \in Nat
    /\ start <= taken /\ taken <= sent
    /\ newlines \subseteq 1..sent

\* Lines that leave room for a chunk are never dropped.
ShortLinesFit == ShortLines => overruns = 0

NoLineWaits == \A e \in newlines : ~(start < e /\ e <= taken)

NewlineAhead ==
    ShortLines => \A p \in Nat : p < sent =>
                \E e \in newlines : p < e /\ e <= p + (Length - Chunk)

Inv == Counters /\ NoLineWaits /\ NewlineAhead /\ BufferHolds /\ ShortLinesFit

LEMMA SendKeepsInv ==
    ASSUME InputAssumption, Inv, NEW n \in LineLengths, SendLine(n)
    PROVE  Inv'
<1>1. /\ n \in Nat /\ n > 0 /\ sent' = sent + n /\ newlines' = newlines \cup {sent + n}
      /\ taken' = taken /\ start' = start /\ overruns' = overruns
  BY DEF SendLine, InputAssumption
<1>2. Counters'
  BY <1>1 DEF Inv, Counters
<1>3. NoLineWaits'
  BY <1>1 DEF Inv, Counters, NoLineWaits, Between
<1>4. NewlineAhead'
  <2> SUFFICES ASSUME ShortLines, NEW p \in Nat, p < sent'
               PROVE  \E e \in newlines' : p < e /\ e <= p + (Length - Chunk)
    BY DEF NewlineAhead, ShortLines
  <2>1. CASE p < sent
    BY <1>1, <2>1 DEF Inv, NewlineAhead
  <2>2. CASE p >= sent
    <3>1. n <= Length - Chunk BY DEF ShortLines
    <3>2. p < sent + n /\ sent + n <= p + (Length - Chunk)
      BY <1>1, <2>2, <3>1 DEF Inv, Counters, InputAssumption
    <3> QED BY <1>1, <3>2
  <2> QED BY <2>1, <2>2 DEF Inv, Counters
<1>5. BufferHolds' /\ ShortLinesFit'
  BY <1>1 DEF Inv, BufferHolds, Position, ShortLinesFit
<1> QED BY <1>2, <1>3, <1>4, <1>5 DEF Inv

\* With short lines a chunk always fits.
LEMMA ShortFits ==
    ASSUME InputAssumption, Inv, ShortLines, NEW n \in 1..Chunk, n <= sent - taken
    PROVE  Fits(n)
<1>1. start < sent /\ start \in Nat /\ taken \in Nat /\ sent \in Nat /\ start <= taken
  BY DEF Inv, Counters, InputAssumption
<1>2. PICK e \in newlines : start < e /\ e <= start + (Length - Chunk)
  BY <1>1 DEF Inv, NewlineAhead
<1>3. e \in Nat /\ ~(e <= taken)
  BY <1>1, <1>2 DEF Inv, NoLineWaits, Between, Counters
<1> QED BY <1>1, <1>2, <1>3 DEF Fits, Position, InputAssumption

LEMMA InputKeepsInv ==
    ASSUME InputAssumption, Inv, NEW n \in 1..Chunk, Input(n)
    PROVE  Inv'
<1>1. /\ n <= sent - taken /\ taken' = taken + n /\ sent' = sent /\ newlines' = newlines
      /\ n \in Nat
  BY DEF Input, InputAssumption
<1>2. NewlineAhead'
  BY <1>1 DEF Inv, NewlineAhead, ShortLines
<1>3. CASE Fits(n)
  <2>1. PICK last \in {start} \cup Between(start, taken + n) :
           Between(last, taken + n) = {} /\ start' = last /\ overruns' = overruns
    BY <1>3 DEF Input
  <2>2. last \in Nat /\ start <= last /\ last <= taken + n
    BY <1>1, <2>1 DEF Inv, Counters, Between
  <2>3. Counters'
    BY <1>1, <2>1, <2>2 DEF Inv, Counters
  <2>4. NoLineWaits'
    <3>1. \A e \in newlines : ~(last < e /\ e <= taken + n)
      BY <2>1 DEF Between
    <3>2. \A e \in newlines' : ~(start' < e /\ e <= taken')
      BY <1>1, <2>1, <3>1
    <3> QED BY <3>2 DEF NoLineWaits
  <2>5. BufferHolds'
    BY <1>1, <1>3, <2>1, <2>2 DEF Inv, Counters, BufferHolds, Position, Fits, InputAssumption
  <2>6. ShortLinesFit'
    BY <2>1 DEF Inv, ShortLinesFit
  <2> QED BY <1>2, <2>3, <2>4, <2>5, <2>6 DEF Inv
<1>4. CASE ~Fits(n)
  <2>1. start' = taken + n /\ overruns' = overruns + 1
    BY <1>4 DEF Input
  <2>2. Counters'
    BY <1>1, <2>1 DEF Inv, Counters
  <2>3. NoLineWaits'
    BY <1>1, <2>1 DEF Inv, Counters, NoLineWaits, Between
  <2>4. BufferHolds'
    BY <1>1, <2>1 DEF Inv, Counters, BufferHolds, Position, InputAssumption
  <2>5. ~ShortLines
    BY <1>1, <1>4, ShortFits
  <2>6. ShortLinesFit'
    BY <2>5, <1>1 DEF ShortLinesFit, ShortLines
  <2> QED BY <1>2, <2>2, <2>3, <2>4, <2>6 DEF Inv
<1> QED BY <1>3, <1>4

LEMMA InitInv == ASSUME InputAssumption PROVE Init => Inv
BY DEF InputAssumption, Init, Inv, Counters, NoLineWaits, Between, NewlineAhead, BufferHolds, Position, ShortLinesFit

LEMMA NextInv == ASSUME InputAssumption PROVE Inv /\ [Next]_vars => Inv'
<1>1. Inv /\ Next => Inv'
  BY SendKeepsInv, InputKeepsInv DEF Next
<1>2. Inv /\ UNCHANGED vars => Inv'
  BY DEF vars, Inv, Counters, NoLineWaits, Between, NewlineAhead, ShortLines, BufferHolds, Position, ShortLinesFit
<1> QED BY <1>1, <1>2

\* No cut of the stream by TCP makes the buffer overflow, and when all lines
\* have at most Length - Chunk bytes (48 here: 64 of the buffer, 16 of recv)
\* none is lost.
THEOREM ShortLinesAreSafe == Spec => []BufferHolds /\ []ShortLinesFit
<1>1. Inv => BufferHolds /\ ShortLinesFit
  BY DEF Inv
<1> QED BY <1>1, InputAssumption, InitInv, NextInv, PTL DEF Spec

\* An overrun finds more than Length - Chunk bytes of one line in the buffer.
LEMMA OverrunStep ==
    ASSUME InputAssumption, Inv, NEW n \in 1..Chunk, Input(n), overruns' # overruns
    PROVE  Between(start, start + (Length - Chunk)) = {}
<1>1. ~Fits(n)
  BY DEF Input
<1>2. taken >= start + (Length - Chunk)
  BY <1>1 DEF Fits, Position, Inv, Counters, InputAssumption
<1>3. ASSUME NEW e \in newlines, start < e, e <= start + (Length - Chunk) PROVE FALSE
  BY <1>2, <1>3 DEF Inv, Counters, NoLineWaits, InputAssumption
<1> QED BY <1>3 DEF Between

\* Whatever the client sends, only a line that leaves no room for a chunk is
\* answered with an overrun.
THEOREM OverrunsNeedLongLines == Spec => OnlyLongLinesOverrun
<1>1. Inv /\ [Next]_vars =>
        [overruns' # overruns => Between(start, start + (Length - Chunk)) = {}]_vars
  BY InputAssumption, OverrunStep DEF Next, SendLine, vars
<1> QED BY <1>1, InputAssumption, InitInv, NextInv, PTL DEF Spec, OnlyLongLinesOverrun
(***************************************************************************)
(* The lines that are run.                                                 *)
(***************************************************************************)
LEMMA Smallest ==
    ASSUME NEW T, T \subseteq Nat, T # {}
    PROVE  \E x \in T : \A y \in T : x <= y
<1>1. \E x \in T : \A y \in T : ~ (<<y, x>> \in OpToRel(<, Nat))
  BY WFMin, NatLessThanWellFounded, Zenon
<1>2. PICK x \in T : \A y \in T : ~ (<<y, x>> \in OpToRel(<, Nat))
  BY <1>1
<1>3. ASSUME NEW y \in T PROVE x <= y
  <2>1. y < x => <<y, x>> \in OpToRel(<, Nat)
    BY DEF OpToRel
  <2>2. ~(y < x)
    BY <2>1, <1>2, Zenon
  <2>3. x \in Nat /\ y \in Nat
    OBVIOUS
  <2> QED BY <2>2, <2>3
<1> QED BY <1>3

LEMMA Largest ==
    ASSUME NEW n \in Nat, NEW S, S \subseteq Nat, S # {}, \A x \in S : x < n
    PROVE  \E x \in S : \A y \in S : y <= x
<1> DEFINE T == {n - x : x \in S}
<1>1. T \subseteq Nat /\ T # {}
  OBVIOUS
<1>2. PICK t \in T : \A y \in T : t <= y
  BY <1>1, Smallest
<1>3. PICK x \in S : t = n - x
  OBVIOUS
<1>4. ASSUME NEW y \in S PROVE y <= x
  <2>1. n - x <= n - y
    BY <1>2, <1>3
  <2>2. x \in Nat /\ y \in Nat
    OBVIOUS
  <2> QED BY <2>1, <2>2
<1> QED BY <1>4

\* What was run has left the buffer, and nothing is run twice.
RanOnce ==
    /\ ran \subseteq Nat \X newlines
    /\ \A p \in ran : p[2] <= start /\ IsPiece(p)
    /\ \A p, q \in ran : p[2] = q[2] => p = q

\* Without an overrun the buffer starts after a newline, and so did every line.
RanAll ==
    overruns = 0 =>
        /\ start \in {0} \cup newlines
        /\ \A p \in ran : p[1] \in {0} \cup newlines
        /\ \A e \in newlines : e <= start => \E p \in ran : p[2] = e

LEMMA Positions ==
    ASSUME Inv
    PROVE  /\ start \in Nat /\ taken \in Nat /\ sent \in Nat /\ overruns \in Nat
           /\ start <= taken /\ taken <= sent /\ newlines \subseteq Nat
<1>1. newlines \subseteq 1..sent /\ sent \in Nat
  BY DEF Inv, Counters
<1>2. 1..sent \subseteq Nat
  BY <1>1
<1> QED BY <1>1, <1>2 DEF Inv, Counters

LEMMA RanPositions ==
    ASSUME Inv, RanOnce, NEW p \in ran
    PROVE  p[1] \in Nat /\ p[2] \in Nat /\ p[2] <= start /\ IsPiece(p)
<1>1. p \in Nat \X newlines /\ newlines \subseteq Nat
  BY Positions DEF RanOnce
<1> QED BY <1>1 DEF RanOnce

LEMMA SendKeepsRan ==
    ASSUME InputAssumption, Inv, RanOnce, RanAll, NEW n \in LineLengths, SendLine(n)
    PROVE  RanOnce' /\ RanAll'
<1>1. /\ n \in Nat /\ n > 0 /\ newlines' = newlines \cup {sent + n}
      /\ start' = start /\ overruns' = overruns /\ ran' = ran
      /\ start \in Nat /\ sent \in Nat /\ start <= sent
  BY DEF SendLine, InputAssumption, Inv, Counters
<1>2. ASSUME NEW p \in ran PROVE IsPiece(p)'
  <2>1. IsPiece(p) /\ p[1] \in Nat /\ p[2] \in Nat /\ p[2] <= start
    BY RanPositions
  <2>2. ~(sent + n <= p[2])
    BY <1>1, <2>1
  <2> QED BY <1>1, <2>1, <2>2 DEF IsPiece, Between
<1>3. RanOnce'
  BY <1>1, <1>2 DEF RanOnce
<1>4. RanAll'
  BY <1>1 DEF RanAll
<1> QED BY <1>3, <1>4

\* Of two stretches up to the same newline neither can start within the other.
LEMMA OnePiece ==
    ASSUME Inv, NEW hi, NEW p \in Complete(Between(start, hi)), NEW q \in Complete(Between(start, hi)),
           p[2] = q[2]
    PROVE  p = q
<1> DEFINE ends == Between(start, hi)
<1>1. /\ p \in ({start} \cup ends) \X ends /\ q \in ({start} \cup ends) \X ends
      /\ IsPiece(p) /\ IsPiece(q)
  BY DEF Complete
<1>2. start \in Nat /\ ends \subseteq Nat /\ ends \subseteq newlines /\ \A e \in ends : start < e
  BY Positions DEF Between
<1>3. ~(p[1] < q[1]) /\ ~(q[1] < p[1])
  BY <1>1, <1>2 DEF IsPiece, Between
<1> QED BY <1>1, <1>2, <1>3

\* Every newline ends a stretch.
LEMMA SomePiece ==
    ASSUME Inv, NEW hi \in Nat, NEW e \in Between(start, hi)
    PROVE  \E p \in Complete(Between(start, hi)) : p[2] = e
<1> DEFINE ends == Between(start, hi)
           before == {x \in {start} \cup ends : x < e}
<1>1. start \in Nat /\ ends \subseteq Nat /\ e \in Nat /\ start < e /\ e <= hi /\ e \in newlines /\ newlines \subseteq Nat
  BY Positions DEF Between
<1>2. before \subseteq Nat /\ before # {} /\ \A x \in before : x < e
  BY <1>1
<1>3. PICK a \in before : \A y \in before : y <= a
  BY <1>1, <1>2, Largest
<1>4. ASSUME NEW x \in newlines, a < x, x <= e PROVE x = e
  <2>1. x \in ends
    BY <1>1, <1>3, <1>4 DEF Between
  <2> QED BY <1>1, <1>3, <1>4, <2>1
<1>5. Between(a, e) = {e} /\ a < e
  <2>1. a < e /\ e <= e
    BY <1>1, <1>3
  <2>2. e \in Between(a, e) /\ Between(a, e) \subseteq {e}
    BY <1>1, <1>4, <2>1 DEF Between
  <2> QED BY <2>1, <2>2
<1>6. <<a, e>> \in Complete(ends)
  BY <1>3, <1>5 DEF Complete, IsPiece
<1> QED BY <1>6

LEMMA InputKeepsRan ==
    ASSUME InputAssumption, Inv, RanOnce, RanAll, NEW n \in 1..Chunk, Input(n)
    PROVE  RanOnce' /\ RanAll'
<1>1. /\ newlines' = newlines /\ n \in Nat /\ start \in Nat /\ taken \in Nat /\ start <= taken
      /\ overruns \in Nat /\ newlines \subseteq Nat
  BY DEF Input, InputAssumption, Inv, Counters
<1>2. CASE Fits(n)
  <2> DEFINE ends == Between(start, taken + n)
             new == Complete(ends)
  <2>1. PICK last \in {start} \cup ends :
           Between(last, taken + n) = {} /\ start' = last /\ overruns' = overruns /\ ran' = ran \cup new
    BY <1>2 DEF Input
  <2>2. ends \subseteq newlines /\ \A e \in ends : start < e /\ e <= taken + n
    BY DEF Between
  <2>3. \A e \in ends : e <= last
    BY <1>1, <2>1, <2>2 DEF Between
  <2>4. last \in Nat /\ start <= last /\ last \in {start} \cup newlines
    BY <1>1, <2>1, <2>2
  <2>5. \A p \in new : /\ p \in ({start} \cup ends) \X ends /\ IsPiece(p)
                       /\ p[2] <= last /\ start < p[2]
    BY <2>2, <2>3 DEF Complete
  <2>6. new \subseteq Nat \X newlines
    BY <1>1, <2>2, <2>5
  <2>7. \A p, q \in new : p[2] = q[2] => p = q
    BY OnePiece
  <2>8. ASSUME NEW p \in ran, NEW q \in new PROVE p[2] # q[2]
    <3>1. p[2] \in Nat /\ p[2] <= start
      BY RanPositions
    <3>2. start < q[2]
      BY <2>5
    <3> QED BY <1>1, <3>1, <3>2
  <2>9. RanOnce'
    <3>1. ran' \subseteq Nat \X newlines'
      BY <1>1, <2>1, <2>6 DEF RanOnce
    <3>2. \A p \in ran' : p[2] <= start' /\ IsPiece(p)'
      <4>1. ASSUME NEW p \in ran PROVE p[2] <= last /\ IsPiece(p)
        <5>1. p[2] \in Nat /\ p[2] <= start /\ IsPiece(p)
          BY RanPositions
        <5> QED BY <1>1, <2>4, <5>1
      <4> QED BY <1>1, <2>1, <2>5, <4>1 DEF IsPiece, Between
    <3>3. \A p, q \in ran' : p[2] = q[2] => p = q
      BY <2>1, <2>7, <2>8 DEF RanOnce
    <3> QED BY <3>1, <3>2, <3>3 DEF RanOnce
  <2>10. RanAll'
    <3> SUFFICES ASSUME overruns = 0
                 PROVE  /\ start' \in {0} \cup newlines
                        /\ \A p \in ran' : p[1] \in {0} \cup newlines
                        /\ \A e \in newlines : e <= start' => \E p \in ran' : p[2] = e
      BY <1>1, <2>1 DEF RanAll
    <3>1. start \in {0} \cup newlines
      BY DEF RanAll
    <3>2. \A p \in ran' : p[1] \in {0} \cup newlines
      BY <2>1, <2>2, <2>5, <3>1 DEF RanAll
    <3>3. ASSUME NEW e \in newlines, e <= start' PROVE \E p \in ran' : p[2] = e
      <4>1. CASE e <= start
        BY <2>1, <4>1 DEF RanAll
      <4>2. CASE start < e
        <5>1. e \in ends
          BY <1>1, <2>1, <2>2, <3>3, <4>2 DEF Between
        <5>2. taken + n \in Nat
          BY <1>1
        <5> QED BY <2>1, <5>1, <5>2, SomePiece
      <4> QED BY <1>1, <4>1, <4>2
    <3> QED BY <2>1, <2>4, <3>1, <3>2, <3>3
  <2> QED BY <2>9, <2>10
<1>3. CASE ~Fits(n)
  <2>1. start' = taken + n /\ overruns' = overruns + 1 /\ ran' = ran
    BY <1>3 DEF Input
  <2>2. start <= start' /\ start' \in Nat /\ overruns' # 0
    BY <1>1, <2>1
  <2>3. ASSUME NEW p \in ran PROVE p[2] <= start' /\ IsPiece(p)'
    <3>1. p[2] \in Nat /\ p[2] <= start /\ IsPiece(p)
      BY RanPositions
    <3>2. p[2] <= start'
      BY <1>1, <2>2, <3>1
    <3> QED BY <1>1, <3>1, <3>2 DEF IsPiece, Between
  <2> QED BY <1>1, <2>1, <2>2, <2>3 DEF RanOnce, RanAll
<1> QED BY <1>2, <1>3

\* However TCP cuts the stream, and whatever was dropped before: what is run is
\* a line, or the tail of one after an overrun, and each is run once; without
\* an overrun every line is run (parser.c:308-351).
THEOREM LinesAreRun == Spec => []RunsTheLines
<1>1. Init => RanOnce /\ RanAll
  BY DEF Init, RanOnce, RanAll
<1>2. Inv /\ RanOnce /\ RanAll /\ [Next]_vars => (RanOnce /\ RanAll)'
  <2>1. Inv /\ RanOnce /\ RanAll /\ Next => (RanOnce /\ RanAll)'
    BY InputAssumption, SendKeepsRan, InputKeepsRan DEF Next
  <2>2. RanOnce /\ RanAll /\ UNCHANGED vars => (RanOnce /\ RanAll)'
    BY DEF vars, RanOnce, RanAll, IsPiece, Between
  <2> QED BY <2>1, <2>2
<1>3. Inv /\ RanOnce /\ RanAll => RunsTheLines
  <2> SUFFICES ASSUME Inv, RanOnce, RanAll PROVE RunsTheLines
    OBVIOUS
  <2>1. \A e \in newlines : e <= taken => e <= start
    BY DEF Inv, Counters, NoLineWaits
  <2> QED BY <2>1 DEF RanOnce, RanAll, RunsTheLines
<1> QED BY <1>1, <1>2, <1>3, InputAssumption, InitInv, NextInv, PTL DEF Spec

-----------------------------------------------------------------------------
(***************************************************************************)
(* The parser that runs the lines.  A unit that is not done is reported,   *)
(* whatever the line holds: the lexer and the paths written over the line  *)
(* stay within it, so no parameter has a cell the client did not send.     *)
(***************************************************************************)
(* The lexer stays in the line.                                            *)

\* A cell is one of the line, or its end.
LEMMA CellAt ==
    ASSUME NEW S, NEW d \in Seq(S), NEW i
    PROVE  /\ At(d, i) \in S \cup {"EOS"}
           /\ At(d, i) # "EOS" => i \in 1..Len(d)
  BY DEF At

LEMMA WhiteSpaceBounds ==
    ASSUME NEW S, NEW d \in Seq(S), NEW p \in 1..(Len(d) + 1)
    PROVE  WhiteSpaceEnd(d, p) \in p..(Len(d) + 1)
<1> DEFINE ends == {q \in p..(Len(d) + 1) : At(d, q) # "SP"}
<1>1. Len(d) \in Nat /\ p \in Nat /\ p <= Len(d) + 1
  OBVIOUS
<1>2. ends \subseteq Nat
  <2>1. ends \subseteq p..(Len(d) + 1)
    BY Zenon
  <2>2. p..(Len(d) + 1) \subseteq Nat
    BY <1>1
  <2> QED BY <2>1, <2>2, Zenon
<1>3. Len(d) + 1 \notin 1..Len(d) /\ Len(d) + 1 \in p..(Len(d) + 1)
  BY <1>1
<1>4. Len(d) + 1 \in ends
  <2>1. At(d, Len(d) + 1) = "EOS"
    BY <1>3, CellAt
  <2>2. At(d, Len(d) + 1) # "SP"
    BY <2>1
  <2> QED BY <1>3, <2>2, Zenon
<1>5. WhiteSpaceEnd(d, p) = CHOOSE x \in ends : \A y \in ends : x <= y
  BY DEF WhiteSpaceEnd, Min
<1>6. \A x \in ends : x \in p..(Len(d) + 1)
  OBVIOUS
<1>7. \E x \in ends : \A y \in ends : x <= y
  <2> HIDE DEF ends
  <2> QED BY <1>2, <1>4, Smallest
<1> HIDE DEF ends
<1>8. (CHOOSE x \in ends : \A y \in ends : x <= y) \in ends
  BY <1>7
<1> QED BY <1>5, <1>6, <1>8

\* A header ends in the line, or where it ends.
LEMMA HeaderBounds ==
    ASSUME NEW S, NEW d \in Seq(S), NEW p \in 1..(Len(d) + 1)
    PROVE  HeaderEnd(d, p) \in p..(Len(d) + 1)
<1> DEFINE first == IF At(d, p) = ":" THEN p + 1 ELSE p
           words == {n \in 0..Len(d) : \A j \in 0..(n - 1) :
                       IsWord(At(d, first + 2 * j)) /\ (j > 0 => At(d, first + 2 * j - 1) = ":")}
           most  == Max(words)
           end   == first + 2 * most - 1
<1>1. Len(d) \in Nat /\ p \in Nat /\ first \in p..(Len(d) + 1)
  BY CellAt
<1>2. 0 \in words /\ words \subseteq Nat /\ \A n \in words : n < Len(d) + 1
  BY <1>1
<1>3. \E x \in words : \A y \in words : x >= y
  <2> HIDE DEF words
  <2>1. Len(d) + 1 \in Nat /\ words # {}
    BY <1>1, <1>2
  <2>2. \E x \in words : \A y \in words : y <= x
    BY <1>2, <2>1, Largest
  <2> QED BY <1>2, <2>2
<1>4. most \in words
  <2> HIDE DEF words
  <2> QED BY <1>2, <1>3 DEF Max
<1>5. most \in 0..Len(d) /\ \A j \in 0..(most - 1) : IsWord(At(d, first + 2 * j))
  <2> HIDE DEF most
  <2> QED BY <1>4
<1>6. CASE At(d, p) \in Commons
  <2>1. p \in 1..Len(d)
    BY <1>6, CellAt DEF Commons
  <2>2. At(d, p + 1) = "?" => p + 1 \in 1..Len(d)
    BY CellAt
  <2>3. HeaderEnd(d, p) = p + (IF At(d, p + 1) = "?" THEN 2 ELSE 1)
    BY <1>6 DEF HeaderEnd
  <2> QED BY <2>1, <2>2, <2>3, <1>1
<1>7. CASE At(d, p) \notin Commons /\ most = 0
  <2>1. HeaderEnd(d, p) = first
    BY <1>7 DEF HeaderEnd
  <2> QED BY <2>1, <1>1
<1>8. CASE At(d, p) \notin Commons /\ most # 0
  <2>1. most \in 1..Len(d) /\ IsWord(At(d, first + 2 * (most - 1)))
    <3> HIDE DEF most, first
    <3>1. most - 1 \in 0..(most - 1)
      BY <1>1, <1>5, <1>8
    <3> QED BY <1>1, <1>5, <1>8, <3>1
  <2>2. At(d, first + 2 * (most - 1)) # "EOS"
    BY <2>1 DEF IsWord
  <2>3. first + 2 * (most - 1) \in 1..Len(d)
    BY <2>2, CellAt
  <2>4. end \in p..(Len(d) + 1)
    <3> HIDE DEF most, first
    <3> QED BY <1>1, <2>1, <2>3
  <2>5. At(d, end) \in {":", "?"} => end \in 1..Len(d)
    BY CellAt
  <2>6. HeaderEnd(d, p) = IF At(d, end) \in {":", "?"} THEN end + 1 ELSE end
    BY <1>8 DEF HeaderEnd
  <2> HIDE DEF end
  <2> QED BY <1>1, <2>4, <2>5, <2>6
<1> QED BY <1>6, <1>7, <1>8

\* What a parameter can look like to the lexer.
Kinds == {"none", "number", "unit", "suffix", "text", "word"}

\* So does a parameter, and what a word or a text is has been in the line.
LEMMA ParameterBounds ==
    ASSUME NEW S, NEW d \in Seq(S), NEW p \in 1..(Len(d) + 1)
    PROVE  LET a == ProgramData(d, p)
           IN  /\ a.next \in p..(Len(d) + 1) /\ a.kind \in Kinds
               /\ a.kind \in {"word", "text"} => a.cell \in S
               /\ a.kind = "text" => a.cell \in Texts
<1> DEFINE s == WhiteSpaceEnd(d, p)
           c == At(d, s)
           w == WhiteSpaceEnd(d, s + 1)
           suffixed == c \in Numbers /\ IsWord(At(d, w))
           a == ProgramData(d, p)
<1>1. Len(d) \in Nat /\ p \in Nat /\ s \in p..(Len(d) + 1)
  BY WhiteSpaceBounds
<1>2. c # "EOS" => c \in S /\ s \in 1..Len(d) /\ w \in (s + 1)..(Len(d) + 1)
  <2> SUFFICES ASSUME c # "EOS" PROVE c \in S /\ s \in 1..Len(d) /\ w \in (s + 1)..(Len(d) + 1)
    OBVIOUS
  <2> HIDE DEF s
  <2>1. c \in S /\ s \in 1..Len(d)
    BY CellAt
  <2>2. s + 1 \in 1..(Len(d) + 1)
    BY <1>1, <2>1
  <2> QED BY <2>1, <2>2, WhiteSpaceBounds
<1>3. a.kind = (IF suffixed THEN IF At(d, w) \in UnitNames THEN "unit" ELSE "suffix"
                ELSE IF c \in Numbers THEN "number" ELSE IF c \in Texts THEN "text"
                ELSE IF IsWord(c) THEN "word" ELSE "none")
      /\ a.cell = c
      /\ a.next = (IF a.kind = "none" THEN s
                   ELSE IF suffixed THEN WhiteSpaceEnd(d, w + 1) ELSE w)
  BY DEF ProgramData
<1>4. c = "EOS" => a.kind = "none"
  BY <1>3 DEF Numbers, Texts, IsWord
<1>5. a.kind \in Kinds
  BY <1>3 DEF Kinds
<1>6. /\ a.kind \in {"word", "text"} => a.cell \in S
      /\ a.kind = "text" => a.cell \in Texts
  <2> HIDE DEF c, w, s, a
  <2>1. a.kind \in {"word", "text"} => a.cell = c /\ c # "EOS"
    BY <1>3, <1>4
  <2>2. a.kind = "text" => c \in Texts
    BY <1>3
  <2> QED BY <1>2, <1>3, <2>1, <2>2
<1>7. a.next \in p..(Len(d) + 1)
  <2>1. CASE a.kind = "none"
    BY <1>1, <1>3, <2>1
  <2>2. CASE a.kind # "none" /\ ~suffixed
    <3> HIDE DEF c, w, s, a
    <3> QED BY <1>1, <1>2, <1>3, <1>4, <2>2
  <2>3. CASE a.kind # "none" /\ suffixed
    <3>1. At(d, w) # "EOS"
      BY <2>3 DEF IsWord
    <3>2. w \in 1..Len(d)
      BY <3>1, CellAt
    <3>3. w \in (s + 1)..(Len(d) + 1)
      BY <1>2, <1>4, <2>3
    <3> HIDE DEF c, w, s, a
    <3>4. w + 1 \in 1..(Len(d) + 1)
      BY <1>1, <3>2
    <3>5. WhiteSpaceEnd(d, w + 1) \in (w + 1)..(Len(d) + 1)
      BY <3>4, WhiteSpaceBounds
    <3>6. a.next = WhiteSpaceEnd(d, w + 1)
      BY <1>3, <2>3
    <3> HIDE DEF suffixed
    <3> QED BY <1>1, <3>2, <3>3, <3>5, <3>6
  <2> QED BY <2>1, <2>2, <2>3
<1> QED BY <1>5, <1>6, <1>7

\* What a list of parameters comes to only depends on what follows.
LEMMA ListLooksAhead ==
    ASSUME NEW S, NEW d \in Seq(S), NEW p, NEW q \in 1..(Len(d) + 1), NEW f, NEW g,
           \A r \in (q + 1)..(Len(d) + 1) : f[r] = g[r]
    PROVE  DataFrom(d, p, f, q) = DataFrom(d, p, g, q)
<1> DEFINE a == ProgramData(d, q)
<1>1. a.next \in q..(Len(d) + 1) /\ Len(d) \in Nat /\ q \in Nat
  BY ParameterBounds
<1> HIDE DEF a
<1>2. CASE At(d, a.next) = "COMMA"
  <2>1. At(d, a.next) # "EOS"
    BY <1>2
  <2>2. a.next \in 1..Len(d)
    BY <2>1, CellAt
  <2>3. a.next + 1 \in (q + 1)..(Len(d) + 1)
    BY <1>1, <2>2
  <2>4. f[a.next + 1] = g[a.next + 1]
    BY <2>3
  <2> QED BY <2>4 DEF DataFrom, a
<1>3. CASE At(d, a.next) # "COMMA"
  BY <1>3 DEF DataFrom, a
<1> QED BY <1>2, <1>3

\* So the recursion is well defined,
LEMMA ListExists ==
    ASSUME NEW S, NEW d \in Seq(S), NEW p \in 1..(Len(d) + 1)
    PROVE  \E f : f = [q \in p..(Len(d) + 1) |-> DataFrom(d, p, f, q)]
<1> DEFINE N == Len(d) + 1
           Exists(k) == \E f : f = [q \in k..N |-> DataFrom(d, p, f, q)]
           Bad == {k \in p..N : ~Exists(k)}
<1>1. N \in Nat /\ p \in Nat /\ p \in p..N
  OBVIOUS
<1> HIDE DEF N
<1>2. SUFFICES ASSUME Bad # {} PROVE FALSE
  BY <1>1 DEF N
<1> HIDE DEF Exists
<1>3. Bad \subseteq Nat /\ \A k \in Bad : k < N + 1
  BY <1>1
<1>4. PICK k \in Bad : \A j \in Bad : j <= k
  <2> HIDE DEF Bad
  <2>1. N + 1 \in Nat
    BY <1>1
  <2> QED BY <1>2, <1>3, <2>1, Largest
<1>5. k \in p..N /\ ~Exists(k) /\ k \in Nat
  BY <1>1
<1>6. Exists(k + 1)
  <2>1. CASE k = N
    <3>1. (k + 1)..N = {}
      BY <1>1, <2>1
    <3> DEFINE e == [q \in (k + 1)..N |-> 0]
    <3>2. e = [q \in (k + 1)..N |-> DataFrom(d, p, e, q)]
      BY <3>1
    <3> QED BY <3>2 DEF Exists
  <2>2. CASE k # N
    <3>1. k + 1 \in p..N /\ ~(k + 1 <= k)
      BY <1>1, <1>5, <2>2
    <3>2. k + 1 \notin Bad
      BY <1>4, <3>1
    <3> QED BY <3>1, <3>2
  <2> QED BY <2>1, <2>2
<1>7. PICK g : g = [q \in (k + 1)..N |-> DataFrom(d, p, g, q)]
  BY <1>6 DEF Exists
<1> DEFINE f == [q \in k..N |-> IF q = k THEN DataFrom(d, p, g, k) ELSE g[q]]
<1>8. ASSUME NEW q \in k..N PROVE f[q] = DataFrom(d, p, f, q)
  <2>1. q \in 1..N /\ q \in Nat
    BY <1>1, <1>5
  <2>2. ASSUME NEW r \in (q + 1)..N PROVE g[r] = f[r]
    BY <1>1, <1>5, <2>1
  <2>3. DataFrom(d, p, g, q) = DataFrom(d, p, f, q)
    <3> HIDE DEF f
    <3> QED BY <2>1, <2>2, ListLooksAhead DEF N
  <2>4. f[q] = DataFrom(d, p, g, q)
    <3>1. CASE q = k
      BY <3>1
    <3>2. CASE q # k
      <4>1. q \in (k + 1)..N
        BY <1>1, <1>5, <2>1, <3>2
      <4>2. g[q] = DataFrom(d, p, g, q)
        BY <1>7, <4>1
      <4> QED BY <3>2, <4>2
    <3> QED BY <3>1, <3>2
  <2> QED BY <2>3, <2>4
<1>9. f = [q \in k..N |-> DataFrom(d, p, f, q)]
  <2> DEFINE h == [q \in k..N |-> DataFrom(d, p, f, q)]
  <2>1. \A q \in k..N : f[q] = h[q]
    <3> HIDE DEF f
    <3> QED BY <1>8
  <2>2. f = [q \in k..N |-> f[q]] /\ h = [q \in k..N |-> h[q]]
    OBVIOUS
  <2> HIDE DEF f, h
  <2>3. f = h
    BY <2>1, <2>2
  <2> QED BY <2>3 DEF h
<1> QED BY <1>5, <1>9 DEF Exists

\* and ends no earlier than it begins.
LEMMA ListBounds ==
    ASSUME NEW S, NEW d \in Seq(S), NEW p \in 1..(Len(d) + 1)
    PROVE  AllProgramData(d, p).next \in p..(Len(d) + 1)
<1> DEFINE N == Len(d) + 1
           f == CHOOSE f : f = [q \in p..N |-> DataFrom(d, p, f, q)]
           Bad == {q \in p..N : f[q].next \notin q..N}
<1>1. N \in Nat /\ p \in Nat /\ p \in p..N
  OBVIOUS
<1>2. f = [q \in p..N |-> DataFrom(d, p, f, q)]
  <2>1. \E g : g = [q \in p..N |-> DataFrom(d, p, g, q)]
    BY ListExists
  <2> QED BY <2>1
<1>3. AllProgramData(d, p) = f[p]
  BY DEF AllProgramData
<1> HIDE DEF N, f
<1>4. \A q \in p..N : f[q] = DataFrom(d, p, f, q)
  BY <1>2
<1>5. SUFFICES ASSUME Bad # {} PROVE FALSE
  BY <1>1, <1>3 DEF N
<1>6. PICK k \in Bad : \A j \in Bad : j <= k
  <2>1. Bad \subseteq Nat /\ \A k \in Bad : k < N + 1
    BY <1>1
  <2> HIDE DEF Bad
  <2>2. N + 1 \in Nat
    BY <1>1
  <2> QED BY <1>5, <2>1, <2>2, Largest
<1>7. k \in p..N /\ f[k].next \notin k..N /\ k \in Nat /\ k \in 1..N
  BY <1>1
<1> DEFINE a == ProgramData(d, k)
<1>8. a.next \in k..N
  BY <1>7, ParameterBounds DEF N
<1>9. f[k] = IF a.kind = "none" THEN [len |-> 0, next |-> a.next]
             ELSE IF At(d, a.next) # "COMMA" THEN [len |-> a.next - p, next |-> a.next]
             ELSE [len |-> IF f[a.next + 1].len = 0 THEN 0 ELSE f[a.next + 1].next - p,
                   next |-> f[a.next + 1].next]
  <2>1. f[k] = DataFrom(d, p, f, k)
    BY <1>4, <1>7
  <2> QED BY <2>1 DEF DataFrom
<1> HIDE DEF a
<1>10. CASE a.kind # "none" /\ At(d, a.next) = "COMMA"
  <2>1. At(d, a.next) # "EOS"
    BY <1>10
  <2>2. a.next \in 1..Len(d)
    BY <2>1, CellAt
  <2>3. a.next + 1 \in p..N /\ a.next + 1 > k
    BY <1>1, <1>7, <1>8, <2>2 DEF N
  <2>4. a.next + 1 \notin Bad
    BY <1>6, <1>7, <2>3
  <2>5. f[a.next + 1].next \in (a.next + 1)..N
    BY <2>3, <2>4
  <2>6. f[k].next = f[a.next + 1].next
    <3>1. f[k] = [len |-> IF f[a.next + 1].len = 0 THEN 0 ELSE f[a.next + 1].next - p,
                  next |-> f[a.next + 1].next]
      BY <1>9, <1>10, Zenon
    <3> QED BY <3>1
  <2> QED BY <1>1, <1>7, <2>3, <2>5, <2>6
<1>11. CASE ~(a.kind # "none" /\ At(d, a.next) = "COMMA")
  <2>1. f[k] = [len |-> 0, next |-> a.next] \/ f[k] = [len |-> a.next - p, next |-> a.next]
    BY <1>9, <1>11, Zenon
  <2>2. f[k].next = a.next
    BY <2>1
  <2> QED BY <1>7, <1>8, <2>2
<1> QED BY <1>10, <1>11

-----------------------------------------------------------------------------
(* Units and headers. *)

\* The unit found is in the line, its header at its beginning, and the next one
\* comes after the header.
LEMMA UnitBounds ==
    ASSUME NEW S, NEW d \in Seq(S), NEW p \in 1..Len(d)
    PROVE  LET u == detectProgramMessageUnit(d, p)
           IN  /\ u.header.ptr \in p..(Len(d) + 1) /\ u.header.len \in Nat
               /\ u.header.ptr + (IF u.invalid THEN 0 ELSE u.header.len) <= Len(d) + 1
               /\ u.data.ptr \in 1..(Len(d) + 1)
               /\ u.next \in Nat /\ u.next >= p
               /\ u.next >= u.header.ptr + (IF u.invalid THEN 0 ELSE u.header.len)
<1> DEFINE s == WhiteSpaceEnd(d, p)
           h == HeaderEnd(d, s)
           w == WhiteSpaceEnd(d, h)
           all == IF w > h THEN AllProgramData(d, w) ELSE [len |-> 0, next |-> w]
           ends == At(d, all.next) \in {"NL", "SEMI", "EOS"}
           u == detectProgramMessageUnit(d, p)
<1>1. Len(d) \in Nat /\ p \in Nat /\ p \in 1..(Len(d) + 1)
  OBVIOUS
<1>2. s \in p..(Len(d) + 1) /\ s \in 1..(Len(d) + 1)
  <2>1. s \in p..(Len(d) + 1)
    BY <1>1, WhiteSpaceBounds
  <2> QED BY <1>1, <2>1
<1>3. h \in s..(Len(d) + 1) /\ h \in 1..(Len(d) + 1)
  <2> HIDE DEF s
  <2>1. h \in s..(Len(d) + 1)
    BY <1>2, HeaderBounds
  <2> QED BY <1>1, <1>2, <2>1
<1>4. w \in h..(Len(d) + 1) /\ w \in 1..(Len(d) + 1)
  <2> HIDE DEF h
  <2>1. w \in h..(Len(d) + 1)
    BY <1>3, WhiteSpaceBounds
  <2> QED BY <1>1, <1>3, <2>1
<1>5. all.next \in w..(Len(d) + 1)
  <2> HIDE DEF w, h
  <2>1. AllProgramData(d, w).next \in w..(Len(d) + 1)
    BY <1>4, ListBounds
  <2>2. w \in w..(Len(d) + 1)
    BY <1>1, <1>4
  <2> QED BY <2>1, <2>2
<1>6. u = [invalid |-> ~ends,
           header |-> [ptr |-> s, len |-> IF ends THEN h - s ELSE 1],
           data |-> [ptr |-> w, len |-> all.len],
           next |-> IF At(d, all.next) = "EOS" THEN all.next ELSE all.next + 1]
  BY DEF detectProgramMessageUnit
<1>7. /\ u.invalid = ~ends /\ u.header.ptr = s /\ u.header.len = (IF ends THEN h - s ELSE 1)
      /\ u.data.ptr = w
      /\ u.next = IF At(d, all.next) = "EOS" THEN all.next ELSE all.next + 1
  <2> HIDE DEF s, h, w, all, ends, u
  <2> QED BY <1>6
<1> HIDE DEF s, h, w, all, ends, u
<1>8. u.next \in Nat /\ u.next >= w
  BY <1>1, <1>4, <1>5, <1>7
<1>9. u.header.len \in Nat /\ s + (IF ~ends THEN 0 ELSE u.header.len) <= h
  BY <1>1, <1>2, <1>3, <1>7
<1>10. /\ s \in p..(Len(d) + 1) /\ u.header.len \in Nat
       /\ s + (IF ~ends THEN 0 ELSE u.header.len) <= Len(d) + 1
       /\ w \in 1..(Len(d) + 1)
       /\ u.next \in Nat /\ u.next >= p
       /\ u.next >= s + (IF ~ends THEN 0 ELSE u.header.len)
  BY <1>1, <1>2, <1>3, <1>4, <1>8, <1>9
<1>11. /\ u.header.ptr \in p..(Len(d) + 1) /\ u.header.len \in Nat
       /\ u.header.ptr + (IF u.invalid THEN 0 ELSE u.header.len) <= Len(d) + 1
       /\ u.data.ptr \in 1..(Len(d) + 1)
       /\ u.next \in Nat /\ u.next >= p
       /\ u.next >= u.header.ptr + (IF u.invalid THEN 0 ELSE u.header.len)
  BY <1>7, <1>10, Zenon
<1> QED BY <1>11, Zenon DEF u

\* A header in the line d that ends before the cell p.
Token(t, d, p) ==
    /\ t \in [ptr : Nat \ {0}, len : Nat]
    /\ t.ptr + t.len <= Len(d) + 1 /\ t.ptr + t.len <= p

\* The path of the previous header is written before a header within the line,
\* from cells of the line.
LEMMA ComposeBounds ==
    ASSUME NEW S, NEW d \in Seq(S), NEW p \in Nat, NEW before, Token(before, d, p),
           NEW cur, NEW n \in Nat, Token(cur, d, n), p <= cur.ptr
    PROVE  LET c == composeCompoundCommand(d, before, cur)
           IN  c.data \in Seq(S) /\ Len(c.data) = Len(d) /\ Token(c.header, c.data, n)
<1> DEFINE colons == {0} \cup {k \in 1..before.len : d[before.ptr + k - 1] = ":"}
           i  == Max(colons)
           to == cur.ptr - i
           c  == composeCompoundCommand(d, before, cur)
           new == [j \in DOMAIN d |-> IF j \in to..(cur.ptr - 1) THEN d[before.ptr + j - to] ELSE d[j]]
<1>1. /\ Len(d) \in Nat /\ DOMAIN d = 1..Len(d)
      /\ before.ptr \in Nat /\ before.ptr > 0 /\ before.len \in Nat
      /\ before.ptr + before.len <= Len(d) + 1 /\ before.ptr + before.len <= p
      /\ cur.ptr \in Nat /\ cur.len \in Nat /\ cur.ptr + cur.len <= Len(d) + 1 /\ cur.ptr + cur.len <= n
  BY DEF Token
<1>2. i \in 0..before.len
  <2>1. colons \subseteq 0..before.len /\ 0 \in colons
    BY <1>1
  <2>2. \A x \in colons : x < before.len + 1
    BY <1>1, <2>1
  <2> HIDE DEF colons
  <2>3. colons \subseteq Nat /\ before.len + 1 \in Nat
    BY <1>1, <2>1
  <2>4. \E x \in colons : \A y \in colons : y <= x
    BY <2>1, <2>2, <2>3, Largest
  <2>5. \E x \in colons : \A y \in colons : x >= y
    BY <2>3, <2>4
  <2>6. i \in colons
    BY <2>5 DEF Max
  <2> QED BY <2>1, <2>6
<1>21. i \in Nat /\ i <= before.len /\ to \in Nat /\ to >= before.ptr /\ to + i = cur.ptr
  <2> HIDE DEF i
  <2>1. \A x, y, z, a, b \in Nat : x <= y /\ a + y <= b /\ b <= z => z - x \in Nat /\ z - x >= a /\ z - x + x = z
    OBVIOUS
  <2>2. i \in Nat /\ i <= before.len
    BY <1>1, <1>2
  <2> QED BY <1>1, <2>1, <2>2
<1>3. c = [data |-> d, header |-> cur] \/ c = [data |-> new, header |-> [ptr |-> to, len |-> cur.len + i]]
  BY DEF composeCompoundCommand
<1>4. new \in Seq(S) /\ Len(new) = Len(d)
  <2> HIDE DEF i
  <2>1. ASSUME NEW j \in DOMAIN d PROVE new[j] \in S
    <3>1. CASE j \in to..(cur.ptr - 1)
      <4> HIDE DEF to
      <4>1. j \in Nat /\ to <= j /\ j < cur.ptr
        BY <1>1, <1>21, <3>1
      <4>2. \A b, n1, n2, x, y, z, m \in Nat :
                b > 0 /\ b + n1 <= m + 1 /\ n2 <= n1 /\ x <= y /\ y < z /\ x + n2 = z
                  => b + y - x \in 1..m
        OBVIOUS
      <4>3. before.ptr + j - to \in 1..Len(d)
        BY <1>1, <1>21, <4>1, <4>2
      <4> QED BY <3>1, <4>3
    <3>2. CASE j \notin to..(cur.ptr - 1)
      BY <3>2
    <3> QED BY <3>1, <3>2
  <2>2. DOMAIN new = 1..Len(d)
    BY <1>1
  <2>3. new \in [1..Len(d) -> S]
    BY <1>1, <2>1
  <2> QED BY <1>1, <2>2, <2>3
<1>5. Token([ptr |-> to, len |-> cur.len + i], new, n)
  <2> HIDE DEF i, new, to
  <2>1. to \in Nat /\ to > 0 /\ cur.len + i \in Nat /\ to + (cur.len + i) = cur.ptr + cur.len
    <3>1. \A x, y, z, a, b \in Nat : x > 0 /\ y >= x /\ y + z = a =>
              y > 0 /\ b + z \in Nat /\ y + (b + z) = a + b
      OBVIOUS
    <3>2. /\ before.ptr \in Nat /\ to \in Nat /\ i \in Nat /\ cur.ptr \in Nat /\ cur.len \in Nat
          /\ before.ptr > 0 /\ to >= before.ptr /\ to + i = cur.ptr
      BY <1>1, <1>21
    <3> HIDE DEF colons, c
    <3> QED BY <3>1, <3>2, Z3
  <2> QED BY <1>1, <1>4, <2>1 DEF Token
<1> HIDE DEF c, new, i, to
<1>6. CASE c = [data |-> d, header |-> cur]
  BY <1>6 DEF c
<1>7. CASE c = [data |-> new, header |-> [ptr |-> to, len |-> cur.len + i]]
  <2>1. c.data = new /\ c.header = [ptr |-> to, len |-> cur.len + i]
    BY <1>7
  <2> QED BY <1>4, <1>5, <2>1 DEF c
<1> QED BY <1>3, <1>6, <1>7

-----------------------------------------------------------------------------
(* Commands and what their handlers report. *)

\* What the commands of the table do.
Tasks == {"act", "answer", "measure", "number", "attenuation", "dac", "integer", "bool", "address"}
\* The keywords of the table.
Words ==
  {"*CLS", "*ESE", "*ESR", "*IDN", "*OPC", "*RST", "*SRE", "*STB", "*TST", "*WAI",
   "SYSTem", "ERRor", "NEXT", "COUNt", "VERSion", "STATus", "QUEStionable", "EVENt", "ENABle",
   "PRESet", "MEASure", "TEMPerature", "ATTEnuation", "SETPoint", "TEMPControl", "AUTOmatic",
   "OUTput", "IPAddr", "GATEwayaddr", "NETMask", "DHCPMode", "VERsion", "RESet",
   "SET", "GET", "PID", "DAC", "Kc", "Ti", "Td", "AC", "BD"}
Entry == [path : Seq(Words), query : BOOLEAN, does : Tasks]

LEMMA EntryMade ==
    ASSUME NEW path \in Seq(Words), NEW query \in BOOLEAN, NEW does \in Tasks
    PROVE  /\ C(path, query, does) \in Entry
           /\ OnBoth(path, query, does) \in Seq(Entry)
<1>1. \A p \in Seq(Words) : C(p, query, does) \in Entry
  BY DEF C, Entry
<1>2. Append(path, "AC") \in Seq(Words) /\ Append(path, "BD") \in Seq(Words)
  <2>1. "AC" \in Words /\ "BD" \in Words
    BY DEF Words
  <2> QED BY <2>1
<1>3. C(Append(path, "AC"), query, does) \in Entry /\ C(Append(path, "BD"), query, does) \in Entry
  BY <1>1, <1>2
<1>4. \A x, y \in Entry : <<x, y>> \in Seq(Entry)
  OBVIOUS
<1> QED BY <1>1, <1>3, <1>4 DEF OnBoth

LEMMA SetAndGetMade ==
    ASSUME NEW path \in Seq(Words), NEW does \in Tasks
    PROVE  SetAndGet(path, does) \in Seq(Entry)
<1>1. <<"SET">> \o path \in Seq(Words) /\ <<"GET">> \o path \in Seq(Words)
  <2>1. "SET" \in Words /\ "GET" \in Words
    BY DEF Words
  <2>2. <<"SET">> \in Seq(Words) /\ <<"GET">> \in Seq(Words)
    BY <2>1
  <2> QED BY <2>2
<1>2. C(<<"SET">> \o path, FALSE, does) \in Entry /\ C(<<"GET">> \o path, TRUE, "answer") \in Entry
  BY <1>1, EntryMade DEF Tasks
<1>3. \A x, y \in Entry : <<x, y>> \in Seq(Entry)
  OBVIOUS
<1> QED BY <1>2, <1>3 DEF SetAndGet

LEMMA PidCommandsMade ==
    ASSUME NEW verb \in Words, NEW query \in BOOLEAN, NEW does \in Tasks
    PROVE  PidCommands(verb, query, does) \in Seq(Entry)
<1> DEFINE k == <<"Kc", "Ti", "Td">>
           entry(i) == C(<<verb, "PID", k[((i - 1) % 3) + 1], IF i <= 3 THEN "AC" ELSE "BD">>, query, does)
<1>1. ASSUME NEW i \in 1..6 PROVE entry(i) \in Entry
  <2>1. ((i - 1) % 3) + 1 \in 1..3
    OBVIOUS
  <2>2. k[((i - 1) % 3) + 1] \in Words
    <3> DEFINE m == ((i - 1) % 3) + 1
    <3>1. m = 1 \/ m = 2 \/ m = 3
      BY <2>1
    <3> HIDE DEF m
    <3>2. k[m] \in Words
      BY <3>1 DEF Words
    <3> QED BY <3>2 DEF m
  <2> HIDE DEF k
  <2>3. \A x, y \in Words : <<verb, "PID", x, y>> \in Seq(Words)
    <3>1. "PID" \in Words
      BY DEF Words
    <3> QED BY <3>1
  <2>4. (IF i <= 3 THEN "AC" ELSE "BD") \in Words
    BY DEF Words
  <2>5. <<verb, "PID", k[((i - 1) % 3) + 1], IF i <= 3 THEN "AC" ELSE "BD">> \in Seq(Words)
    BY <2>2, <2>3, <2>4
  <2> QED BY <2>5, EntryMade
<1> HIDE DEF entry
<1>2. [i \in 1..6 |-> entry(i)] \in Seq(Entry)
  BY <1>1
<1>3. PidCommands(verb, query, does) = [i \in 1..6 |-> entry(i)]
  BY DEF PidCommands, entry
<1> QED BY <1>2, <1>3

LEMMA CommandTable == Commands \in Seq(Entry)
<1>1. \A w \in {"*CLS", "*ESE", "*ESR", "*IDN", "*OPC", "*RST",
               "*SRE", "*STB", "*TST", "*WAI", "SYSTem", "ERRor",
               "NEXT", "COUNt", "VERSion", "STATus", "QUEStionable", "EVENt",
               "ENABle", "PRESet", "MEASure", "TEMPerature", "ATTEnuation", "SETPoint",
               "TEMPControl", "AUTOmatic", "OUTput", "IPAddr", "GATEwayaddr", "NETMask",
               "DHCPMode", "VERsion", "RESet", "SET", "GET", "DAC"} : w \in Words
  BY DEF Words
<1>2. \A t \in {"act", "answer", "measure", "number", "attenuation", "dac", "integer", "bool", "address"} : t \in Tasks
  BY DEF Tasks
<1>3. ASSUME NEW path \in Seq(Words), NEW q \in BOOLEAN, NEW t \in Tasks
      PROVE  /\ C(path, q, t) \in Entry /\ OnBoth(path, q, t) \in Seq(Entry)
             /\ SetAndGet(path, t) \in Seq(Entry)
  BY EntryMade, SetAndGetMade
<1>4. /\ \A x \in Words : <<x>> \in Seq(Words)
      /\ \A x, y \in Words : <<x, y>> \in Seq(Words)
      /\ \A x, y, z \in Words : <<x, y, z>> \in Seq(Words)
  OBVIOUS
<1>5. /\ C(<<"*CLS">>, FALSE, "act") \in Entry
      /\ C(<<"*ESE">>, FALSE, "integer") \in Entry
      /\ C(<<"*ESE">>, TRUE, "answer") \in Entry
      /\ C(<<"*ESR">>, TRUE, "answer") \in Entry
      /\ C(<<"*IDN">>, TRUE, "answer") \in Entry
      /\ C(<<"*OPC">>, FALSE, "act") \in Entry
      /\ C(<<"*OPC">>, TRUE, "answer") \in Entry
      /\ C(<<"*RST">>, FALSE, "act") \in Entry
      /\ C(<<"*SRE">>, FALSE, "integer") \in Entry
      /\ C(<<"*SRE">>, TRUE, "answer") \in Entry
      /\ C(<<"*STB">>, TRUE, "answer") \in Entry
      /\ C(<<"*TST">>, TRUE, "answer") \in Entry
      /\ C(<<"*WAI">>, FALSE, "act") \in Entry
  BY <1>1, <1>2, <1>3, <1>4, Zenon
<1>6. /\ C(<<"SYSTem", "ERRor", "NEXT">>, TRUE, "answer") \in Entry
      /\ C(<<"SYSTem", "ERRor", "COUNt">>, TRUE, "answer") \in Entry
      /\ C(<<"SYSTem", "VERSion">>, TRUE, "answer") \in Entry
      /\ C(<<"STATus", "QUEStionable", "EVENt">>, TRUE, "answer") \in Entry
      /\ C(<<"STATus", "QUEStionable", "ENABle">>, FALSE, "integer") \in Entry
      /\ C(<<"STATus", "QUEStionable", "ENABle">>, TRUE, "answer") \in Entry
      /\ C(<<"STATus", "PRESet">>, FALSE, "act") \in Entry
      /\ C(<<"GET", "VERsion">>, TRUE, "answer") \in Entry
      /\ C(<<"SYSTem", "RESet">>, FALSE, "act") \in Entry
  BY <1>1, <1>2, <1>3, <1>4, Zenon
<1>7. PidCommands("SET", FALSE, "number") \in Seq(Entry) /\ PidCommands("GET", TRUE, "answer") \in Seq(Entry)
  BY <1>1, <1>2, PidCommandsMade
<1>8. /\ \A s, t \in Seq(Entry) : s \o t \in Seq(Entry)
      /\ \A a, b \in Entry : <<a, b>> \in Seq(Entry)
  OBVIOUS
<1>9. ASSUME NEW a1 \in Entry, NEW a2 \in Entry, NEW a3 \in Entry, NEW a4 \in Entry, NEW a5 \in Entry,
              NEW a6 \in Entry, NEW a7 \in Entry, NEW a8 \in Entry, NEW a9 \in Entry, NEW a10 \in Entry,
              NEW a11 \in Entry, NEW a12 \in Entry, NEW a13 \in Entry, NEW a14 \in Entry, NEW a15 \in Entry,
              NEW a16 \in Entry, NEW a17 \in Entry, NEW a18 \in Entry, NEW a19 \in Entry, NEW a20 \in Entry
       PROVE  <<a1, a2, a3, a4, a5, a6, a7, a8, a9, a10, a11, a12, a13, a14, a15, a16, a17, a18, a19, a20>> \in Seq(Entry)
  OBVIOUS
<1> DEFINE own == <<
       C(<<"*CLS">>, FALSE, "act"),
       C(<<"*ESE">>, FALSE, "integer"), C(<<"*ESE">>, TRUE, "answer"),
       C(<<"*ESR">>, TRUE, "answer"), C(<<"*IDN">>, TRUE, "answer"), C(<<"*OPC">>, FALSE, "act"),
       C(<<"*OPC">>, TRUE, "answer"), C(<<"*RST">>, FALSE, "act"), C(<<"*SRE">>, FALSE, "integer"),
       C(<<"*SRE">>, TRUE, "answer"), C(<<"*STB">>, TRUE, "answer"), C(<<"*TST">>, TRUE, "answer"),
       C(<<"*WAI">>, FALSE, "act"),
       C(<<"SYSTem", "ERRor", "NEXT">>, TRUE, "answer"), C(<<"SYSTem", "ERRor", "COUNt">>, TRUE, "answer"),
       C(<<"SYSTem", "VERSion">>, TRUE, "answer"),
       C(<<"STATus", "QUEStionable", "EVENt">>, TRUE, "answer"),
       C(<<"STATus", "QUEStionable", "ENABle">>, FALSE, "integer"),
       C(<<"STATus", "QUEStionable", "ENABle">>, TRUE, "answer"), C(<<"STATus", "PRESet">>, FALSE, "act")>>
           x1 == OnBoth(<<"MEASure", "TEMPerature">>, TRUE, "measure")
           x2 == SetAndGet(<<"ATTEnuation">>, "attenuation")
           x3 == OnBoth(<<"SET", "TEMPerature", "SETPoint">>, FALSE, "number")
           x4 == OnBoth(<<"GET", "TEMPerature", "SETPoint">>, TRUE, "answer")
           x5 == PidCommands("SET", FALSE, "number")
           x6 == PidCommands("GET", TRUE, "answer")
           x7 == SetAndGet(<<"TEMPControl", "AUTOmatic">>, "bool")
           x8 == OnBoth(<<"SET", "DAC", "OUTput">>, FALSE, "dac")
           x9 == OnBoth(<<"GET", "DAC", "OUTput">>, TRUE, "answer")
           x10 == SetAndGet(<<"IPAddr">>, "address")
           x11 == SetAndGet(<<"GATEwayaddr">>, "address")
           x12 == SetAndGet(<<"NETMask">>, "address")
           x13 == SetAndGet(<<"DHCPMode">>, "bool")
           x14 == <<C(<<"GET", "VERsion">>, TRUE, "answer"), C(<<"SYSTem", "RESet">>, FALSE, "act")>>
<1>10. own \in Seq(Entry)
  BY <1>5, <1>6, <1>9, Zenon
<1>11. /\ x1 \in Seq(Entry) /\ x2 \in Seq(Entry) /\ x3 \in Seq(Entry) /\ x4 \in Seq(Entry)
       /\ x5 \in Seq(Entry) /\ x6 \in Seq(Entry) /\ x7 \in Seq(Entry) /\ x8 \in Seq(Entry)
       /\ x9 \in Seq(Entry) /\ x10 \in Seq(Entry) /\ x11 \in Seq(Entry) /\ x12 \in Seq(Entry)
       /\ x13 \in Seq(Entry) /\ x14 \in Seq(Entry)
  BY <1>1, <1>2, <1>3, <1>4, <1>6, <1>7, <1>8, Zenon
<1>12. Commands = own \o x1 \o x2 \o x3 \o x4 \o x5 \o x6 \o x7 \o x8 \o x9 \o x10 \o x11 \o x12 \o x13 \o x14
  BY DEF Commands
<1> HIDE DEF own, x1, x2, x3, x4, x5, x6, x7, x8, x9, x10, x11, x12, x13, x14
<1> QED BY <1>8, <1>10, <1>11, <1>12

-----------------------------------------------------------------------------
(* What was not done is reported. *)

\* Parameters that are neither refused nor acted upon: the special names, and
\* a text that is no address.
Unheard == Specials \cup (Texts \ {"'address'"})

\* The others.
Parameter(a) ==
    /\ a.kind \in Kinds
    /\ a.kind = "word" => a.cell \notin Specials
    /\ a.kind = "text" => a.cell = "'address'"

LEMMA HandlersReport ==
    ASSUME NEW cmd \in Entry, NEW a, Parameter(a), NEW high, NEW unread
    PROVE  LET r == Handler(cmd, a, high)
           IN  r.done \/ ErrorsOf(r, unread) # << >>
<1> DEFINE n == ParamNumber(a)
           r == Handler(cmd, a, high)
<1>1. cmd.does \in Tasks
  BY DEF Entry
<1>2. SUFFICES ~r.ok \/ r.done
  <2>1. ~r.ok => ErrorsOf(r, unread) # << >>
    <3> HIDE DEF r
    <3> QED BY DEF ErrorsOf
  <2> QED BY <2>1
<1>3. n.ok => a.kind # "word"
  BY DEF Parameter, Kinds, ParamNumber, Read, Missing
<1>4. ParamCopyText(a).ok => a.cell = "'address'"
  BY DEF Parameter, Kinds, ParamCopyText, Read, Missing
<1>5. \A m, v : (m.ok => v) => ~Sets(m, v).ok \/ Sets(m, v).done
  BY DEF Sets, Done
<1>6. CASE cmd.does \in {"act", "answer"}
  BY <1>6 DEF Handler, Done
<1>7. CASE cmd.does = "measure"
  BY <1>7 DEF Handler, Done, Absent
<1>8. CASE cmd.does = "number"
  <2>1. r = Sets(n, a.kind # "word")
    BY <1>8 DEF Handler
  <2> HIDE DEF n, r
  <2> QED BY <1>3, <1>5, <2>1
<1>9. CASE cmd.does = "attenuation"
  <2>1. r = Sets(IF n.ok THEN n ELSE Read(Append(n.errs, -109), FALSE), a.kind # "word")
    BY <1>9 DEF Handler
  <2>2. ~Read(Append(n.errs, -109), FALSE).ok
    BY DEF Read
  <2> HIDE DEF n, r
  <2> QED BY <1>3, <1>5, <2>1, <2>2
<1>10. CASE cmd.does = "dac"
  <2>1. CASE ~DacFound
    BY <1>10, <2>1 DEF Handler, Done, Absent
  <2>2. CASE DacFound
    <3>1. r = Sets(IF n.ok /\ (a.cell = "9" \/ (a.kind = "word" /\ high)) THEN Read(<<-224>>, FALSE) ELSE n,
                          a.kind # "word")
      BY <1>10, <2>2 DEF Handler
    <3>2. ~Read(<<-224>>, FALSE).ok
      BY DEF Read
    <3> HIDE DEF n, r
    <3> QED BY <1>3, <1>5, <3>1, <3>2
  <2> QED BY <2>1, <2>2
<1>11. CASE cmd.does \in {"integer", "bool"}
  <2>1. \E m : r = Sets(m, TRUE)
    BY <1>11 DEF Handler
  <2> HIDE DEF r
  <2> QED BY <1>5, <2>1
<1>12. CASE cmd.does = "address"
  <2>1. r = Sets(ParamCopyText(a), a.cell = "'address'")
    BY <1>12 DEF Handler
  <2> HIDE DEF r
  <2> QED BY <1>4, <1>5, <2>1
<1> QED BY <1>1, <1>6, <1>7, <1>8, <1>9, <1>10, <1>11, <1>12 DEF Tasks

\* A command that is found is in the table.
LEMMA FoundInTable ==
    ASSUME NEW cells, findCommandHeader(cells) # NoCommand
    PROVE  findCommandHeader(cells) \in Entry
<1> DEFINE found == {i \in DOMAIN Commands : matchCommand(Commands[i], cells)}
<1>1. found # {} /\ findCommandHeader(cells) = Commands[Min(found)]
  BY DEF findCommandHeader
<1>2. found \subseteq DOMAIN Commands
  OBVIOUS
<1> HIDE DEF found
<1>3. found \subseteq Nat
  <2>1. DOMAIN Commands \subseteq Nat
    BY CommandTable
  <2> QED BY <1>2, <2>1
<1>4. \E x \in found : \A y \in found : x <= y
  BY <1>1, <1>3, Smallest
<1>5. Min(found) \in found
  BY <1>4 DEF Min
<1> QED BY <1>1, <1>2, <1>5, CommandTable

\* The line has the cells the client sent, and the previous header is in it.
ParseInv(L) ==
    /\ data \in Seq(L) /\ pos \in Nat \ {0}
    /\ Token(prev, data, pos)
    /\ \E U : log \in Seq(U)
    /\ FailuresAreReported

\* One more unit in the log.
LEMMA OneMore ==
    ASSUME NEW cmd, NEW errs, NEW done, \E U : log \in Seq(U), FailuresAreReported,
           Log(cmd, errs, done), done \/ errs # << >>
    PROVE  (\E U : log' \in Seq(U)) /\ FailuresAreReported'
<1> DEFINE e == [cmd |-> cmd, errs |-> errs, done |-> done]
<1>1. log' = Append(log, e)
  BY DEF Log
<1>2. e.done \/ e.errs # << >>
  OBVIOUS
<1> HIDE DEF e
<1>3. PICK U : log \in Seq(U)
  OBVIOUS
<1>4. log \in Seq(U \cup {e})
  BY <1>3
<1>5. log' \in Seq(U \cup {e})
  BY <1>1, <1>4
<1>6. ASSUME NEW i \in DOMAIN log' PROVE log'[i].done \/ log'[i].errs # << >>
  <2>1. DOMAIN log' = 1..(Len(log) + 1) /\ Len(log) \in Nat /\ DOMAIN log = 1..Len(log)
    BY <1>1, <1>4
  <2>2. CASE i \in DOMAIN log
    <3>1. log'[i] = log[i]
      BY <1>1, <1>4, <2>2
    <3> QED BY <2>2, <3>1 DEF FailuresAreReported
  <2>3. CASE i \notin DOMAIN log
    <3>1. i = Len(log) + 1
      BY <1>6, <2>1, <2>3
    <3>2. log'[i] = e
      BY <1>1, <1>4, <3>1
    <3> QED BY <1>2, <3>2
  <2> QED BY <2>2, <2>3
<1> QED BY <1>5, <1>6 DEF FailuresAreReported

LEMMA CommandKeepsInv ==
    ASSUME NEW L, L \cap Unheard = {}, ParseInv(L), NEW u, Running,
           u = detectProgramMessageUnit(data, pos), Command(u), pos' = u.next
    PROVE  ParseInv(L)'
<1> DEFINE composed == composeCompoundCommand(data, prev, u.header)
           d == composed.data
           h == composed.header
           c == findCommandHeader(Cells(d, h))
<1>1. /\ data \in Seq(L) /\ pos \in Nat /\ pos > 0 /\ pos \in 1..Len(data)
      /\ Token(prev, data, pos) /\ (\E U : log \in Seq(U)) /\ FailuresAreReported
  BY DEF ParseInv, Running
<1>2. ~u.invalid /\ u.header.len > 0
  BY DEF Command
<1>3. /\ u.header.ptr \in pos..(Len(data) + 1) /\ u.header.len \in Nat
      /\ u.header.ptr + u.header.len <= Len(data) + 1
      /\ u.data.ptr \in 1..(Len(data) + 1)
      /\ u.next \in Nat /\ u.next >= pos /\ u.next >= u.header.ptr + u.header.len
  BY <1>1, <1>2, UnitBounds
<1>4. Token(u.header, data, u.next)
  <2>1. u.header = [ptr |-> u.header.ptr, len |-> u.header.len]
    BY DEF detectProgramMessageUnit
  <2> QED BY <1>1, <1>3, <2>1 DEF Token
<1>5. d \in Seq(L) /\ Len(d) = Len(data) /\ Token(h, d, u.next)
  BY <1>1, <1>3, <1>4, ComposeBounds
<1>6. Token(prev, d, u.next)
  <2> HIDE DEF d
  <2> QED BY <1>1, <1>3, <1>5 DEF Token
<1>7. /\ data' = d
      /\ \/ /\ c = NoCommand /\ Log(NoCommand, <<-113>>, FALSE) /\ prev' = prev
         \/ c # NoCommand /\ \E high \in BOOLEAN : processCommand(c, d, u, h, high)
  BY DEF Command
<1> HIDE DEF d, h, c, composed
<1>8. CASE c = NoCommand /\ Log(NoCommand, <<-113>>, FALSE) /\ prev' = prev
  <2>1. (\E U : log' \in Seq(U)) /\ FailuresAreReported'
    BY <1>1, <1>8, OneMore
  <2>2. data' \in Seq(L) /\ pos' \in Nat \ {0}
    BY <1>1, <1>3, <1>5, <1>7
  <2>3. Token(prev, data, pos)'
    <3>1. prev' = prev /\ data' = d /\ pos' = u.next
      BY <1>7, <1>8
    <3> QED BY <1>6, <3>1 DEF Token
  <2> QED BY <2>1, <2>2, <2>3 DEF ParseInv
<1>9. CASE c # NoCommand /\ \E high \in BOOLEAN : processCommand(c, d, u, h, high)
  <2>1. PICK high \in BOOLEAN : processCommand(c, d, u, h, high)
    BY <1>9
  <2> DEFINE a == IF u.data.len > 0 THEN ProgramData(d, u.data.ptr)
                  ELSE [kind |-> "none", cell |-> "EOS", next |-> u.data.ptr]
             r == Handler(c, a, high)
             unread == (IF r.reads THEN a.next ELSE u.data.ptr) < u.data.ptr + u.data.len
  <2>2. Log(c, ErrorsOf(r, unread), r.done) /\ prev' = h
    BY <2>1 DEF processCommand
  <2>3. c \in Entry
    BY <1>9, FoundInTable DEF c
  <2>4. Parameter(a)
    <3>1. CASE u.data.len > 0
      <4> DEFINE x == ProgramData(d, u.data.ptr)
      <4>1. /\ x.kind \in Kinds /\ (x.kind \in {"word", "text"} => x.cell \in L)
            /\ (x.kind = "text" => x.cell \in Texts)
        BY <1>3, <1>5, ParameterBounds
      <4>2. a = x
        BY <3>1
      <4> HIDE DEF a, x
      <4> QED BY <4>1, <4>2 DEF Parameter, Unheard
    <3>2. CASE ~(u.data.len > 0)
      BY <3>2 DEF Parameter, Kinds
    <3> QED BY <3>1, <3>2
  <2>5. r.done \/ ErrorsOf(r, unread) # << >>
    <3> HIDE DEF a, unread
    <3> QED BY <2>3, <2>4, HandlersReport
  <2> HIDE DEF a, r, unread
  <2>6. (\E U : log' \in Seq(U)) /\ FailuresAreReported'
    BY <1>1, <2>2, <2>5, OneMore
  <2>7. data' \in Seq(L) /\ pos' \in Nat \ {0}
    BY <1>1, <1>3, <1>5, <1>7
  <2>8. Token(prev, data, pos)'
    <3>1. prev' = h /\ data' = d /\ pos' = u.next
      BY <1>7, <2>2
    <3> QED BY <1>5, <3>1 DEF Token
  <2> QED BY <2>6, <2>7, <2>8 DEF ParseInv
<1> QED BY <1>7, <1>8, <1>9

LEMMA UnitKeepsInv ==
    ASSUME NEW L, L \cap Unheard = {}, ParseInv(L), ParseUnit
    PROVE  ParseInv(L)'
<1> DEFINE u == detectProgramMessageUnit(data, pos)
<1>1. Running /\ (Invalid(u) \/ Empty(u) \/ Command(u)) /\ pos' = u.next
  BY DEF ParseUnit
<1>2. data \in Seq(L) /\ pos \in 1..Len(data) /\ pos \in Nat /\ Token(prev, data, pos)
      /\ (\E U : log \in Seq(U)) /\ FailuresAreReported
  BY <1>1 DEF ParseInv, Running
<1>3. u.next \in Nat /\ u.next >= pos
  BY <1>2, UnitBounds
<1> HIDE DEF u
<1>4. Token(prev, data, u.next)
  BY <1>2, <1>3 DEF Token
<1>5. CASE Invalid(u)
  <2>1. data' = data /\ prev' = prev /\ Log(NoCommand, <<-101>>, FALSE)
    BY <1>5 DEF Invalid
  <2>2. (\E U : log' \in Seq(U)) /\ FailuresAreReported'
    BY <1>2, <2>1, OneMore
  <2> QED BY <1>1, <1>2, <1>3, <1>4, <2>1, <2>2 DEF ParseInv, Token
<1>6. CASE Empty(u)
  <2>1. data' = data /\ prev' = prev /\ log' = log
    BY <1>6 DEF Empty
  <2> QED BY <1>1, <1>2, <1>3, <1>4, <2>1 DEF ParseInv, Token, FailuresAreReported
<1>7. CASE Command(u)
  BY <1>1, <1>7, CommandKeepsInv DEF u
<1> QED BY <1>1, <1>5, <1>6, <1>7

\* What a client asked for and was not done has pushed an error, however its
\* lines are cut up, misread and written over: for any requests without a
\* special name and without a text that is no address (parser.c:142, 154).
THEOREM FailuresAreHeardOf ==
    ASSUME NEW CONSTANT Alphabet, Alphabet \cap Unheard = {},
           \A request \in Requests : Text(request) \in Seq(Alphabet)
    PROVE  ParseSpec => []FailuresAreReported
<1> DEFINE L == Alphabet \cup {"NL"}
<1>1. L \cap Unheard = {}
  BY DEF Unheard, Specials, Texts
<1>2. \A d : d = << >> => d \in Seq(L)
  OBVIOUS
<1>3. ParseInit => ParseInv(L)
  <2> SUFFICES ASSUME ParseInit PROVE ParseInv(L)
    OBVIOUS
  <2>1. data = << >> /\ pos = 1 /\ prev = [ptr |-> 1, len |-> 0] /\ log = << >>
    BY DEF ParseInit, NoToken
  <2>2. Token(prev, data, pos)
    BY <2>1 DEF Token
  <2>3. log \in Seq({})
    BY <2>1
  <2> QED BY <1>2, <2>1, <2>2, <2>3 DEF ParseInv, FailuresAreReported
<1>4. ParseInv(L) /\ [ParseNext]_parseVars => ParseInv(L)'
  <2> SUFFICES ASSUME ParseInv(L), [ParseNext]_parseVars PROVE ParseInv(L)'
    OBVIOUS
  <2>1. CASE \E request \in Requests : Request(request)
    <3>1. PICK request \in Requests : Request(request)
      BY <2>1
    <3>2. data' = Append(Text(request), "NL") /\ pos' = 1 /\ prev' = [ptr |-> 1, len |-> 0] /\ log' = << >>
      BY <3>1 DEF Request, NoToken
    <3>3. data' \in Seq(L)
      <4>1. Text(request) \in Seq(L)
        OBVIOUS
      <4> QED BY <3>2, <4>1
    <3>4. Token(prev, data, pos)'
      BY <3>2, <3>3 DEF Token
    <3>5. log' \in Seq({})
      BY <3>2
    <3> QED BY <3>2, <3>3, <3>4, <3>5 DEF ParseInv, FailuresAreReported
  <2>2. CASE ParseUnit
    <3> HIDE DEF L
    <3> QED BY <1>1, <2>2, UnitKeepsInv
  <2>3. CASE EndOfMessage
    <3>1. data' = << >> /\ pos' = 1 /\ prev' = [ptr |-> 1, len |-> 0] /\ log' = log
      BY <2>3 DEF EndOfMessage, NoToken
    <3>2. Token(prev, data, pos)'
      BY <3>1 DEF Token
    <3> QED BY <1>2, <3>1, <3>2 DEF ParseInv, FailuresAreReported
  <2>4. CASE ReadLine \/ GiveUp \/ UNCHANGED parseVars
    <3>1. UNCHANGED <<data, pos, prev, log>>
      BY <2>4 DEF ReadLine, GiveUp, parseVars
    <3> QED BY <3>1 DEF ParseInv, Token, FailuresAreReported
  <2> QED BY <2>1, <2>2, <2>3, <2>4 DEF ParseNext
<1>5. ParseInv(L) => FailuresAreReported
  BY DEF ParseInv
<1> QED BY <1>3, <1>4, <1>5, PTL DEF ParseSpec

-----------------------------------------------------------------------------
(***************************************************************************)
(* The commands that run are those the message names, and the client reads *)
(* their answers.  The argument follows a message through the parser: how  *)
(* the client writes its units, where the lexer finds them in a line that  *)
(* is being written over, what the header is once the path of the one      *)
(* before it stands in front of it, which commands of the table match such *)
(* a header, and so that each turn of the loop of SCPI_Parse runs what one *)
(* unit names.                                                             *)
(***************************************************************************)
(* The lexer finds a unit that is laid out as the client does.             *)

\* The cells of two sequences together.
LEMMA CatAt ==
    ASSUME NEW S, NEW s \in Seq(S), NEW t \in Seq(S)
    PROVE  /\ s \o t \in Seq(S) /\ Len(s \o t) = Len(s) + Len(t)
           /\ \A i \in 1..Len(s) : (s \o t)[i] = s[i]
           /\ \A i \in 1..Len(t) : (s \o t)[Len(s) + i] = t[i]
<1>1. Len(s) \in Nat /\ Len(t) \in Nat
  OBVIOUS
<1>2. \A i \in 1..(Len(s) + Len(t)) : (s \o t)[i] = IF i <= Len(s) THEN s[i] ELSE t[i - Len(s)]
  BY ConcatProperties
<1>3. ASSUME NEW i \in 1..Len(s) PROVE (s \o t)[i] = s[i]
  BY <1>1, <1>2
<1>4. ASSUME NEW i \in 1..Len(t) PROVE (s \o t)[Len(s) + i] = t[i]
  <2>1. Len(s) + i \in 1..(Len(s) + Len(t)) /\ ~(Len(s) + i <= Len(s)) /\ Len(s) + i - Len(s) = i
    BY <1>1
  <2> QED BY <1>2, <2>1
<1> QED BY <1>3, <1>4, ConcatProperties

\* Words with colons between them.
LEMMA ColonsCells ==
    ASSUME NEW S, Marks \subseteq S, NEW words \in Seq(S), words # << >>
    PROVE  /\ Colons(words) \in Seq(S) /\ Len(Colons(words)) = 2 * Len(words) - 1
           /\ \A k \in 1..Len(words) : Colons(words)[2 * k - 1] = words[k]
           /\ \A k \in 1..(Len(words) - 1) : Colons(words)[2 * k] = ":"
<1> DEFINE n == Len(words)
<1>1. n \in Nat /\ n > 0 /\ 2 * n - 1 \in Nat
  OBVIOUS
<1>2. ASSUME NEW i \in 1..(2 * n - 1) PROVE i % 2 = 1 => (i + 1) \div 2 \in 1..n
  BY <1>1
<1>3. ":" \in S
  BY DEF Marks
<1>4. Colons(words) = [i \in 1..(2 * n - 1) |-> IF i % 2 = 1 THEN words[(i + 1) \div 2] ELSE ":"]
  BY DEF Colons
<1>5. ASSUME NEW k \in 1..n
      PROVE  2 * k - 1 \in 1..(2 * n - 1) /\ (2 * k - 1) % 2 = 1 /\ (2 * k - 1 + 1) \div 2 = k
  BY <1>1
<1>6. ASSUME NEW k \in 1..(n - 1)
      PROVE  2 * k \in 1..(2 * n - 1) /\ (2 * k) % 2 # 1
  BY <1>1
<1>7. \A j \in 1..n : words[j] \in S
  OBVIOUS
<1> HIDE DEF n
<1>8. \A i \in 1..(2 * n - 1) : (IF i % 2 = 1 THEN words[(i + 1) \div 2] ELSE ":") \in S
  BY <1>2, <1>3, <1>7
<1>9. Colons(words) \in [1..(2 * n - 1) -> S]
  BY <1>4, <1>8
<1>10. Colons(words) \in Seq(S) /\ Len(Colons(words)) = 2 * n - 1
  BY <1>1, <1>9
<1>11. \A k \in 1..n : Colons(words)[2 * k - 1] = words[k]
  BY <1>4, <1>5
<1>12. \A k \in 1..(n - 1) : Colons(words)[2 * k] = ":"
  BY <1>4, <1>6
<1> QED BY <1>10, <1>11, <1>12 DEF n

Bit(b) == IF b THEN 1 ELSE 0

\* The cells of a header.
Header(h, root, words, query) ==
    LET r == Bit(root)
        n == Len(words)
    IN  /\ Len(h) = r + 2 * n - 1 + Bit(query)
        /\ root => h[1] = ":"
        /\ \A k \in 1..n : h[r + 2 * k - 1] = words[k]
        /\ \A k \in 1..(n - 1) : h[r + 2 * k] = ":"
        /\ query => h[r + 2 * n] = "?"

\* The client writes its headers so.
LEMMA HeaderShape ==
    ASSUME NEW S, Marks \subseteq S, NEW root \in BOOLEAN, NEW words \in Seq(S), words # << >>, NEW query \in BOOLEAN
    PROVE  HeaderCells(root, words, query) \in Seq(S) /\ Header(HeaderCells(root, words, query), root, words, query)
<1> DEFINE r == Bit(root)
           n == Len(words)
           lead == IF root THEN <<":">> ELSE << >>
           mid == Colons(words)
           mark == QueryMark(query)
           q == Bit(query)
           h == HeaderCells(root, words, query)
<1>1. n \in Nat /\ n > 0
  OBVIOUS
<1>0. ":" \in S /\ "?" \in S
  BY DEF Marks
<1>2. /\ lead \in Seq(S) /\ Len(lead) = r /\ r \in 0..1 /\ (root => lead[1] = ":")
      /\ root => r = 1
  <2>1. CASE root
    BY <1>0, <2>1 DEF Bit
  <2>2. CASE ~root
    BY <2>2 DEF Bit
  <2> QED BY <2>1, <2>2
<1>3. /\ mark \in Seq(S) /\ Len(mark) = q /\ q \in 0..1 /\ (query => mark[1] = "?")
      /\ query => q = 1
  <2>1. CASE query
    BY <1>0, <2>1 DEF Bit, QueryMark, q
  <2>2. CASE ~query
    BY <2>2 DEF Bit, QueryMark, q
  <2> QED BY <2>1, <2>2
<1>4. /\ mid \in Seq(S) /\ Len(mid) = 2 * n - 1
      /\ \A k \in 1..n : mid[2 * k - 1] = words[k]
      /\ \A k \in 1..(n - 1) : mid[2 * k] = ":"
  BY ColonsCells
<1>5. h = (lead \o mid) \o mark
  BY DEF HeaderCells
<1> HIDE DEF lead, mid, mark, n, h, r, q
<1> DEFINE lm == lead \o mid
<1>6. /\ lm \in Seq(S) /\ Len(lm) = r + (2 * n - 1)
      /\ \A i \in 1..r : lm[i] = lead[i]
      /\ \A i \in 1..(2 * n - 1) : lm[r + i] = mid[i]
  <2>0. lead \in Seq(S) /\ mid \in Seq(S)
    BY <1>2, <1>4
  <2>1. /\ lm \in Seq(S) /\ Len(lm) = Len(lead) + Len(mid)
        /\ \A i \in 1..Len(lead) : lm[i] = lead[i]
        /\ \A i \in 1..Len(mid) : lm[Len(lead) + i] = mid[i]
    <3>1. \A s, t \in Seq(S) :
             /\ s \o t \in Seq(S) /\ Len(s \o t) = Len(s) + Len(t)
             /\ \A i \in 1..Len(s) : (s \o t)[i] = s[i]
             /\ \A i \in 1..Len(t) : (s \o t)[Len(s) + i] = t[i]
      BY CatAt
    <3> QED BY <2>0, <3>1, Zenon
  <2> HIDE DEF lm
  <2>2. Len(lead) = r /\ Len(mid) = 2 * n - 1
    BY <1>2, <1>4
  <2> QED BY <2>1, <2>2
<1> HIDE DEF lm
<1> DEFINE z == r + (2 * n - 1)
<1>7. z \in Nat /\ z > r
  BY <1>1, <1>2
<1>8. /\ h \in Seq(S) /\ Len(h) = z + q
      /\ \A i \in 1..z : h[i] = lm[i]
      /\ \A i \in 1..q : h[z + i] = mark[i]
  BY <1>3, <1>5, <1>6, CatAt DEF lm
<1>9. root => h[1] = ":"
  <2>1. 1 \in 1..z
    BY <1>2, <1>7
  <2> HIDE DEF z
  <2> QED BY <1>2, <1>6, <1>8, <2>1
<1>10. ASSUME NEW k \in 1..n PROVE h[r + 2 * k - 1] = words[k]
  <2>1. r + (2 * k - 1) \in 1..z /\ 2 * k - 1 \in 1..(2 * n - 1) /\ r + 2 * k - 1 = r + (2 * k - 1)
    BY <1>1, <1>2
  <2> HIDE DEF z
  <2>2. h[r + (2 * k - 1)] = lm[r + (2 * k - 1)]
    BY <1>8, <2>1
  <2>3. lm[r + (2 * k - 1)] = mid[2 * k - 1]
    BY <1>6, <2>1
  <2>4. mid[2 * k - 1] = words[k]
    BY <1>4
  <2> QED BY <2>1, <2>2, <2>3, <2>4
<1>11. ASSUME NEW k \in 1..(n - 1) PROVE h[r + 2 * k] = ":"
  <2>1. r + 2 * k \in 1..z /\ 2 * k \in 1..(2 * n - 1)
    BY <1>1, <1>2
  <2> HIDE DEF z
  <2> QED BY <1>4, <1>6, <1>8, <2>1
<1>12. ASSUME query PROVE h[r + 2 * n] = "?"
  <2>1. r + 2 * n = z + 1
    BY <1>1, <1>2
  <2>2. 1 \in 1..q
    BY <1>3, <1>12
  <2> HIDE DEF z
  <2> QED BY <1>3, <1>8, <1>12, <2>1, <2>2
<1>13. z = r + 2 * n - 1
  BY <1>1, <1>2
<1>14. Len(h) = r + 2 * n - 1 + q
  BY <1>8, <1>13
<1> QED BY <1>8, <1>9, <1>10, <1>11, <1>12, <1>14 DEF h, r, n, q, Header

\* The cells of a header, in a line d from p on.
HeaderLen(root, words, query) == Bit(root) + 2 * Len(words) - 1 + Bit(query)
HeaderIn(d, p, root, words, query) ==
    /\ p + HeaderLen(root, words, query) <= Len(d) + 1
    /\ root => d[p] = ":"
    /\ \A k \in 1..Len(words) : d[p + Bit(root) + 2 * k - 2] = words[k]
    /\ \A k \in 1..(Len(words) - 1) : d[p + Bit(root) + 2 * k - 1] = ":"
    /\ query => d[p + Bit(root) + 2 * Len(words) - 1] = "?"

\* Within the line there is a cell.
LEMMA InLine ==
    ASSUME NEW S, NEW d \in Seq(S), NEW i \in 1..Len(d)
    PROVE  At(d, i) = d[i]
  BY DEF At

\* The lexer finds a whole header.
LEMMA HeaderFound ==
    ASSUME NEW S, NEW d \in Seq(S), NEW p \in Nat \ {0}, NEW root \in BOOLEAN,
           NEW words \in Seq(S), words # << >>, NEW query \in BOOLEAN,
           \/ \A k \in 1..Len(words) : IsWord(words[k])
           \/ ~root /\ Len(words) = 1 /\ words[1] \in Commons,
           HeaderIn(d, p, root, words, query),
           At(d, p + HeaderLen(root, words, query)) \in {"SP", "SEMI", "NL"}
    PROVE  HeaderEnd(d, p) = p + HeaderLen(root, words, query)
<1> DEFINE n == Len(words)
           r == Bit(root)
           q == Bit(query)
           e == p + HeaderLen(root, words, query)
           b == p + r
<1>1. n \in Nat /\ n > 0 /\ Len(d) \in Nat /\ p \in Nat /\ p > 0
  OBVIOUS
<1>2. r \in 0..1 /\ q \in 0..1 /\ (root => r = 1) /\ (~root => r = 0) /\ (query => q = 1) /\ (~query => q = 0)
  BY DEF Bit
<1>3. /\ e = b + 2 * n - 1 + q /\ e \in 1..(Len(d) + 1) /\ b \in Nat /\ b > 0
  <2>1. e <= Len(d) + 1
    BY DEF HeaderIn
  <2>2. e = b + 2 * n - 1 + q
    BY <1>1, <1>2 DEF HeaderLen
  <2> HIDE DEF e, r, q, n
  <2> QED BY <1>1, <1>2, <2>1, <2>2
<1>4. At(d, e) \in {"SP", "SEMI", "NL"}
  OBVIOUS
<1>5. /\ root => d[p] = ":"
      /\ \A k \in 1..n : d[b + 2 * k - 2] = words[k]
      /\ \A k \in 1..(n - 1) : d[b + 2 * k - 1] = ":"
      /\ query => d[b + 2 * n - 1] = "?"
  BY DEF HeaderIn
<1> HIDE DEF n, r, q, e, b
<1>6. \A i \in 1..Len(d) : At(d, i) = d[i]
  BY InLine
<1>7. ASSUME NEW k \in 1..n PROVE At(d, b + 2 * k - 2) = words[k]
  <2>1. b + 2 * k - 2 \in 1..Len(d)
    BY <1>1, <1>2, <1>3
  <2> QED BY <1>5, <1>6, <2>1
<1>8. ASSUME NEW k \in 1..(n - 1) PROVE At(d, b + 2 * k - 1) = ":"
  <2>1. b + 2 * k - 1 \in 1..Len(d)
    BY <1>1, <1>2, <1>3
  <2> QED BY <1>5, <1>6, <2>1
<1>9. query => At(d, b + 2 * n - 1) = "?"
  <2> SUFFICES ASSUME query PROVE At(d, b + 2 * n - 1) = "?"
    OBVIOUS
  <2>1. b + 2 * n - 1 \in 1..Len(d)
    BY <1>1, <1>2, <1>3
  <2> QED BY <1>5, <1>6, <2>1
<1>10. At(d, b) = words[1]
  <2>1. 1 \in 1..n /\ b + 2 * 1 - 2 = b
    BY <1>1, <1>3
  <2> QED BY <1>7, <2>1
<1>11. CASE ~root /\ n = 1 /\ words[1] \in Commons
  <2>1. b = p /\ b + 2 * n - 1 = p + 1
    BY <1>1, <1>2, <1>11 DEF b
  <2>2. At(d, p) \in Commons
    BY <1>10, <1>11, <2>1
  <2>3. HeaderEnd(d, p) = p + (IF At(d, p + 1) = "?" THEN 2 ELSE 1)
    BY <2>2 DEF HeaderEnd
  <2>4. CASE query
    <3>1. e = p + 2
      BY <1>1, <1>2, <1>3, <2>1, <2>4
    <3>2. HeaderEnd(d, p) = p + 2
      BY <1>9, <2>1, <2>3, <2>4
    <3> QED BY <3>1, <3>2 DEF e
  <2>5. CASE ~query
    <3>1. e = p + 1
      BY <1>1, <1>2, <1>3, <2>1, <2>5
    <3> QED BY <1>1, <1>4, <2>3, <3>1 DEF e
  <2> QED BY <2>4, <2>5
<1>12. CASE \A k \in 1..n : IsWord(words[k])
  <2> DEFINE first == IF At(d, p) = ":" THEN p + 1 ELSE p
             found == {m \in 0..Len(d) : \A j \in 0..(m - 1) :
                         IsWord(At(d, first + 2 * j)) /\ (j > 0 => At(d, first + 2 * j - 1) = ":")}
             end == first + 2 * Max(found) - 1
  <2>1. IsWord(words[1])
    BY <1>1, <1>12
  <2>2. At(d, p) \notin Commons /\ first = b
    <3>1. CASE root
      <4>1. p \in 1..Len(d)
        BY <1>1, <1>2, <1>3, <3>1 DEF b
      <4> QED BY <1>2, <1>5, <1>6, <3>1, <4>1 DEF b, Commons
    <3>2. CASE ~root
      <4>1. b = p
        BY <1>1, <1>2, <3>2 DEF b
      <4> QED BY <1>10, <2>1, <4>1 DEF IsWord, Marks
    <3> QED BY <3>1, <3>2
  <2>3. HeaderEnd(d, p) = IF Max(found) = 0 THEN first
                          ELSE IF At(d, end) \in {":", "?"} THEN end + 1 ELSE end
    BY <2>2 DEF HeaderEnd
  <2> HIDE DEF first
  <2>4. n \in found
    <3>1. n \in 0..Len(d)
      BY <1>1, <1>2, <1>3
    <3>2. ASSUME NEW j \in 0..(n - 1) PROVE IsWord(At(d, first + 2 * j))
      <4>1. j + 1 \in 1..n /\ first + 2 * j = b + 2 * (j + 1) - 2
        BY <1>1, <1>3, <2>2
      <4> QED BY <1>7, <1>12, <4>1
    <3>3. ASSUME NEW j \in 0..(n - 1), j > 0 PROVE At(d, first + 2 * j - 1) = ":"
      <4>1. j \in 1..(n - 1)
        BY <1>1, <3>3
      <4> QED BY <1>8, <2>2, <4>1
    <3> QED BY <3>1, <3>2, <3>3
  <2>5. At(d, b + 2 * n - 1) # ":"
    <3>1. CASE query
      BY <1>9, <3>1
    <3>2. CASE ~query
      <4>1. b + 2 * n - 1 = e
        BY <1>1, <1>2, <1>3, <3>2
      <4> QED BY <1>4, <4>1
    <3> QED BY <3>1, <3>2
  <2>6. ASSUME NEW m \in found PROVE m <= n
    <3> SUFFICES ASSUME m > n PROVE FALSE
      BY <1>1
    <3>1. n \in 0..(m - 1) /\ n > 0 /\ m \in Nat
      BY <1>1
    <3>2. At(d, first + 2 * n - 1) = ":"
      BY <3>1
    <3> QED BY <2>2, <2>5, <3>2
  <2>7. found \subseteq Nat
    BY <1>1
  <2> HIDE DEF found
  <2>8. Max(found) = n
    <3>1. \A y \in found : n >= y
      BY <1>1, <2>6, <2>7
    <3> DEFINE mx == CHOOSE x \in found : \A y \in found : x >= y
    <3>2. mx \in found /\ \A y \in found : mx >= y
      BY <2>4, <3>1
    <3> HIDE DEF mx
    <3>3. mx >= n /\ n >= mx /\ mx \in Nat
      BY <2>4, <2>7, <3>1, <3>2
    <3>4. mx = n
      BY <1>1, <3>3
    <3> QED BY <3>4 DEF Max, mx
  <2>9. end = b + 2 * n - 1
    BY <2>2, <2>8
  <2> HIDE DEF end
  <2>10. HeaderEnd(d, p) = IF At(d, end) \in {":", "?"} THEN end + 1 ELSE end
    BY <1>1, <2>3, <2>8
  <2>11. CASE query
    <3>1. end + 1 = e
      BY <1>1, <1>2, <1>3, <2>9, <2>11
    <3> QED BY <1>9, <2>9, <2>10, <2>11, <3>1 DEF e
  <2>12. CASE ~query
    <3>1. end = e
      BY <1>1, <1>2, <1>3, <2>9, <2>12
    <3> QED BY <1>4, <2>10, <3>1 DEF e
  <2> QED BY <2>11, <2>12
<1> QED BY <1>11, <1>12 DEF n

\* No white space, nothing skipped.
LEMMA NoSpace ==
    ASSUME NEW S, NEW d \in Seq(S), NEW p \in 1..(Len(d) + 1), At(d, p) # "SP"
    PROVE  WhiteSpaceEnd(d, p) = p
<1> DEFINE ends == {q \in p..(Len(d) + 1) : At(d, q) # "SP"}
<1>1. Len(d) \in Nat /\ p \in Nat /\ p \in p..(Len(d) + 1)
  OBVIOUS
<1>2. p \in ends /\ \A y \in ends : y \in Nat /\ p <= y
  BY <1>1
<1> HIDE DEF ends
<1> DEFINE m == CHOOSE x \in ends : \A y \in ends : x <= y
<1>3. m \in ends /\ \A y \in ends : m <= y
  BY <1>2
<1> HIDE DEF m
<1>4. m = p
  BY <1>1, <1>2, <1>3
<1> QED BY <1>4 DEF m, ends, WhiteSpaceEnd, Min

\* One space is skipped.
LEMMA OneSpace ==
    ASSUME NEW S, NEW d \in Seq(S), NEW p \in 1..Len(d), At(d, p) = "SP", At(d, p + 1) # "SP"
    PROVE  WhiteSpaceEnd(d, p) = p + 1
<1> DEFINE ends == {q \in p..(Len(d) + 1) : At(d, q) # "SP"}
<1>1. Len(d) \in Nat /\ p \in Nat /\ p + 1 \in p..(Len(d) + 1)
  OBVIOUS
<1>2. p + 1 \in ends /\ \A y \in ends : y \in Nat /\ p <= y /\ y # p
  BY <1>1
<1>3. \A y \in ends : y \in Nat /\ p + 1 <= y
  <2> HIDE DEF ends
  <2> QED BY <1>1, <1>2
<1> HIDE DEF ends
<1> DEFINE m == CHOOSE x \in ends : \A y \in ends : x <= y
<1>4. m \in ends /\ \A y \in ends : m <= y
  BY <1>2, <1>3
<1> HIDE DEF m
<1>5. m = p + 1
  BY <1>1, <1>2, <1>3, <1>4
<1> QED BY <1>5 DEF m, ends, WhiteSpaceEnd, Min

\* A parameter of one cell, or a number with a suffix.
PlainArg(a) ==
    \/ Len(a) = 1 /\ (a[1] \in Numbers \cup Texts \/ IsWord(a[1]))
    \/ Len(a) = 2 /\ a[1] \in Numbers /\ IsWord(a[2])

\* The lexer finds such a parameter, and where it ends.
LEMMA ParameterFound ==
    ASSUME NEW S, NEW d \in Seq(S), NEW q \in Nat \ {0}, NEW a \in Seq(S), PlainArg(a),
           q + Len(a) <= Len(d), \A j \in 1..Len(a) : d[q + j - 1] = a[j],
           At(d, q + Len(a)) \in {"COMMA", "SEMI", "NL"}
    PROVE  ProgramData(d, q).kind # "none" /\ ProgramData(d, q).next = q + Len(a)
<1> DEFINE n == Len(a)
           s == WhiteSpaceEnd(d, q)
           c == At(d, s)
           w == WhiteSpaceEnd(d, s + 1)
           suffixed == c \in Numbers /\ IsWord(At(d, w))
           x == ProgramData(d, q)
<1>1. n \in 1..2 /\ Len(d) \in Nat /\ q \in Nat /\ q > 0 /\ q + n <= Len(d)
  BY DEF PlainArg
<1>2. At(d, q + n) \in {"COMMA", "SEMI", "NL"}
  OBVIOUS
<1>3. \A j \in 1..n : d[q + j - 1] = a[j]
  OBVIOUS
<1>4. /\ a[1] \in Numbers \cup Texts \/ IsWord(a[1])
      /\ n = 2 => a[1] \in Numbers /\ IsWord(a[2])
  <2>1. CASE n = 1 /\ (a[1] \in Numbers \cup Texts \/ IsWord(a[1]))
    BY <2>1
  <2>2. CASE n = 2 /\ a[1] \in Numbers /\ IsWord(a[2])
    BY <2>2, Zenon
  <2> QED BY <2>1, <2>2 DEF PlainArg
<1>5. x.kind = (IF suffixed THEN IF At(d, w) \in UnitNames THEN "unit" ELSE "suffix"
                ELSE IF c \in Numbers THEN "number" ELSE IF c \in Texts THEN "text"
                ELSE IF IsWord(c) THEN "word" ELSE "none")
      /\ x.next = (IF x.kind = "none" THEN s
                   ELSE IF suffixed THEN WhiteSpaceEnd(d, w + 1) ELSE w)
  BY DEF ProgramData
<1> HIDE DEF n, x
<1>6. At(d, q) = a[1] /\ (n = 2 => At(d, q + 1) = a[2])
  <2>1. q \in 1..Len(d) /\ 1 \in 1..n /\ q + 1 - 1 = q
    BY <1>1
  <2>2. At(d, q) = a[1]
    BY <1>3, <2>1, InLine
  <2>3. ASSUME n = 2 PROVE At(d, q + 1) = a[2]
    <3>1. q + 1 \in 1..Len(d) /\ 2 \in 1..n /\ q + 2 - 1 = q + 1
      BY <1>1, <2>3
    <3> QED BY <1>3, <3>1, InLine
  <2> QED BY <2>2, <2>3
<1>7. s = q /\ c = a[1]
  <2>1. At(d, q) # "SP"
    BY <1>4, <1>6 DEF IsWord, Marks, Numbers, Texts
  <2>2. q \in 1..(Len(d) + 1)
    BY <1>1
  <2>3. s = q
    BY <2>1, <2>2, NoSpace
  <2> QED BY <1>6, <2>3
<1>8. w = q + 1
  <2>1. At(d, q + 1) # "SP"
    <3>1. CASE n = 1
      BY <1>2, <3>1
    <3>2. CASE n = 2
      BY <1>4, <1>6, <3>2 DEF IsWord, Marks
    <3> QED BY <1>1, <3>1, <3>2
  <2>2. q + 1 \in 1..(Len(d) + 1)
    BY <1>1
  <2>3. WhiteSpaceEnd(d, q + 1) = q + 1
    BY <2>1, <2>2, NoSpace
  <2> QED BY <1>7, <2>3
<1> HIDE DEF s, c, w
<1>9. CASE n = 1
  <2>1. ~suffixed
    BY <1>2, <1>8, <1>9 DEF IsWord, Marks
  <2>2. x.kind # "none"
    BY <1>4, <1>5, <1>7, <2>1
  <2> HIDE DEF suffixed
  <2>3. x.next = w
    BY <1>5, <2>1, <2>2
  <2> QED BY <1>8, <1>9, <2>2, <2>3 DEF n, x
<1>10. CASE n = 2
  <2>1. suffixed
    BY <1>4, <1>6, <1>7, <1>8, <1>10
  <2>2. x.kind # "none"
    BY <1>5, <2>1
  <2> HIDE DEF suffixed
  <2>3. x.next = WhiteSpaceEnd(d, w + 1)
    BY <1>5, <2>1, <2>2
  <2>4. w + 1 = q + n
    BY <1>1, <1>8, <1>10
  <2>5. At(d, q + n) # "SP"
    BY <1>2
  <2>6. q + n \in 1..(Len(d) + 1)
    BY <1>1
  <2>7. WhiteSpaceEnd(d, q + n) = q + n
    BY <2>5, <2>6, NoSpace
  <2> QED BY <2>2, <2>3, <2>4, <2>7 DEF n, x
<1> QED BY <1>1, <1>9, <1>10

\* The parameters of a unit in a line d; at[k] is the cell after the k-th.
ArgsIn(d, args, at) ==
    /\ at \in [0..Len(args) -> 1..Len(d)]
    /\ \A k \in 1..Len(args) :
         /\ at[k] = at[k - 1] + 1 + Len(args[k]) /\ at[0] <= at[k - 1]
         /\ d[at[k - 1]] = IF k = 1 THEN "SP" ELSE "COMMA"
         /\ \A j \in 1..Len(args[k]) : d[at[k - 1] + j] = args[k][j]

ArgsBetween(d, args, h, e) == \E at : at[0] = h /\ at[Len(args)] = e /\ ArgsIn(d, args, at)

\* The lexer finds all of them.
LEMMA ListFound ==
    ASSUME NEW S, NEW d \in Seq(S), NEW args \in Seq(Seq(S)), args # << >>,
           \A k \in 1..Len(args) : PlainArg(args[k]),
           NEW at, ArgsIn(d, args, at), At(d, at[Len(args)]) \in {"SEMI", "NL"}
    PROVE  AllProgramData(d, at[0] + 1).next = at[Len(args)]
<1> DEFINE n == Len(args)
           N == Len(d) + 1
           p == at[0] + 1
           f == CHOOSE f : f = [q \in p..N |-> DataFrom(d, p, f, q)]
           startOf(k) == at[k - 1] + 1
           Bad == {k \in 1..n : f[startOf(k)].next # at[n]}
<1>1. n \in Nat /\ n > 0 /\ N \in Nat /\ Len(d) \in Nat
  OBVIOUS
<1>2. /\ at \in [0..n -> 1..Len(d)]
      /\ \A k \in 1..n :
         /\ at[k] = at[k - 1] + 1 + Len(args[k]) /\ at[0] <= at[k - 1]
         /\ d[at[k - 1]] = IF k = 1 THEN "SP" ELSE "COMMA"
         /\ \A j \in 1..Len(args[k]) : d[at[k - 1] + j] = args[k][j]
  BY DEF ArgsIn
<1>3. \A k \in 1..n : args[k] \in Seq(S) /\ PlainArg(args[k]) /\ Len(args[k]) \in Nat
  OBVIOUS
<1>4. At(d, at[n]) \in {"SEMI", "NL"}
  OBVIOUS
<1>5. at[0] \in 1..Len(d) /\ p \in 1..N
  <2>1. at[0] \in 1..Len(d)
    <3>1. 0 \in 0..n
      BY <1>1
    <3> QED BY <1>2, <3>1
  <2> QED BY <1>1, <2>1
<1>6. f = [q \in p..N |-> DataFrom(d, p, f, q)]
  <2>1. \E g : g = [q \in p..N |-> DataFrom(d, p, g, q)]
    BY <1>5, ListExists
  <2> QED BY <2>1
<1>7. AllProgramData(d, p) = f[p]
  BY DEF AllProgramData
<1> HIDE DEF n, N, f, p
<1>8. \A q \in p..N : f[q] = DataFrom(d, p, f, q)
  BY <1>6
<1>9. SUFFICES ASSUME Bad # {} PROVE FALSE
  <2>1. 1 \in 1..n /\ startOf(1) = p
    BY <1>1 DEF p
  <2> QED BY <1>7, <2>1 DEF n, p
<1>10. PICK k \in Bad : \A j \in Bad : j <= k
  <2>1. Bad \subseteq Nat /\ \A k \in Bad : k < n + 1
    BY <1>1
  <2> HIDE DEF Bad
  <2>2. n + 1 \in Nat
    BY <1>1
  <2> QED BY <1>9, <2>1, <2>2, Largest
<1>11. k \in 1..n /\ k \in Nat /\ f[startOf(k)].next # at[n]
  BY <1>1
<1> DEFINE q == startOf(k)
           a == args[k]
           x == ProgramData(d, q)
<1>12. at[k - 1] \in 1..Len(d) /\ at[k] \in 1..Len(d) /\ at[0] <= at[k - 1]
  <2>1. k - 1 \in 0..n /\ k \in 0..n
    BY <1>1, <1>11
  <2> QED BY <1>2, <1>11, <2>1
<1>13. at[k] = q + Len(a) /\ q \in p..N /\ q \in Nat \ {0} /\ q + Len(a) <= Len(d)
  <2>1. at[k] = at[k - 1] + 1 + Len(a) /\ Len(a) \in Nat
    BY <1>2, <1>3, <1>11
  <2> DEFINE l == Len(a)
             before == at[k - 1]
             first == at[0]
             after == at[k]
  <2>2. /\ before \in 1..Len(d) /\ after \in 1..Len(d) /\ first <= before /\ first \in 1..Len(d)
        /\ after = before + 1 + l /\ l \in Nat /\ q = before + 1 /\ p = first + 1
    BY <1>5, <1>12, <2>1 DEF p
  <2> HIDE DEF a, l, before, first, after, q
  <2>3. after = q + l /\ q \in p..N /\ q \in Nat \ {0} /\ q + l <= Len(d)
    BY <1>1, <2>2 DEF N
  <2> QED BY <2>3 DEF l, after
<1>14. x.kind # "none" /\ x.next = at[k]
  <2>1. \A j \in 1..Len(a) : d[q + j - 1] = a[j]
    <3>1. \A j \in 1..Len(a) : q + j - 1 = at[k - 1] + j
      BY <1>3, <1>11, <1>12
    <3> HIDE DEF q
    <3> QED BY <1>2, <1>11, <3>1
  <2>2. At(d, at[k]) \in {"COMMA", "SEMI", "NL"}
    <3>1. CASE k = n
      BY <1>4, <3>1
    <3>2. CASE k # n
      <4>1. k + 1 \in 1..n /\ k + 1 - 1 = k /\ k + 1 # 1
        BY <1>1, <1>11, <3>2
      <4>2. d[at[k]] = "COMMA"
        BY <1>2, <4>1
      <4> QED BY <1>12, <4>2, InLine
    <3> QED BY <3>1, <3>2
  <2>3. a \in Seq(S) /\ PlainArg(a)
    BY <1>3, <1>11
  <2> HIDE DEF q, a
  <2> QED BY <1>13, <2>1, <2>2, <2>3, ParameterFound DEF x
<1>15. f[q] = DataFrom(d, p, f, q)
  BY <1>8, <1>13
<1>16. f[q].next = IF At(d, at[k]) # "COMMA" THEN at[k] ELSE f[at[k] + 1].next
  <2> HIDE DEF q
  <2>1. f[q] = IF x.kind = "none" THEN [len |-> 0, next |-> x.next]
               ELSE IF At(d, x.next) # "COMMA" THEN [len |-> x.next - p, next |-> x.next]
               ELSE [len |-> IF f[x.next + 1].len = 0 THEN 0 ELSE f[x.next + 1].next - p,
                     next |-> f[x.next + 1].next]
    BY <1>15 DEF DataFrom
  <2> HIDE DEF x
  <2>2. f[q] = IF At(d, at[k]) # "COMMA" THEN [len |-> at[k] - p, next |-> at[k]]
               ELSE [len |-> IF f[at[k] + 1].len = 0 THEN 0 ELSE f[at[k] + 1].next - p,
                     next |-> f[at[k] + 1].next]
    BY <1>14, <2>1, Zenon
  <2> QED BY <2>2
<1>17. CASE k = n
  BY <1>4, <1>11, <1>16, <1>17
<1>18. CASE k # n
  <2>1. k + 1 \in 1..n /\ k + 1 - 1 = k /\ k + 1 # 1 /\ ~(k + 1 <= k)
    BY <1>1, <1>11, <1>18
  <2>2. d[at[k]] = "COMMA"
    BY <1>2, <2>1
  <2>3. At(d, at[k]) = "COMMA"
    BY <1>12, <2>2, InLine
  <2>4. k + 1 \notin Bad
    BY <1>10, <2>1
  <2>5. startOf(k + 1) = at[k] + 1
    BY <2>1
  <2>6. f[at[k] + 1].next = at[n]
    BY <2>1, <2>4, <2>5
  <2> QED BY <1>11, <1>16, <2>3, <2>6
<1> QED BY <1>17, <1>18

\* The cells of a unit in a line d from p on; e is the cell after it.
UnitIn(d, p, e, root, words, query, args) ==
    /\ HeaderIn(d, p, root, words, query)
    /\ e \in 1..Len(d)
    /\ args = << >> => e = p + HeaderLen(root, words, query)
    /\ args # << >> => ArgsBetween(d, args, p + HeaderLen(root, words, query), e)

\* The words of a header, as far as the lexer is concerned.
Readable(root, words) ==
    \/ \A k \in 1..Len(words) : IsWord(words[k])
    \/ ~root /\ Len(words) = 1 /\ words[1] \in Commons

\* What the lexer makes of a unit that is well formed.
LEMMA UnitFound ==
    ASSUME NEW S, NEW d \in Seq(S), NEW p \in Nat \ {0}, NEW e, NEW root \in BOOLEAN,
           NEW words \in Seq(S), words # << >>, NEW query \in BOOLEAN, NEW args \in Seq(Seq(S)),
           Readable(root, words), \A k \in 1..Len(args) : PlainArg(args[k]),
           UnitIn(d, p, e, root, words, query, args), At(d, e) \in {"SEMI", "NL"}
    PROVE  LET x == detectProgramMessageUnit(d, p)
           IN  /\ ~x.invalid /\ x.next = e + 1
               /\ x.header = [ptr |-> p, len |-> HeaderLen(root, words, query)]
<1> DEFINE l == HeaderLen(root, words, query)
           s == WhiteSpaceEnd(d, p)
           h == HeaderEnd(d, s)
           w == WhiteSpaceEnd(d, h)
           all == IF w > h THEN AllProgramData(d, w) ELSE [len |-> 0, next |-> w]
           ends == At(d, all.next) \in {"NL", "SEMI", "EOS"}
           x == detectProgramMessageUnit(d, p)
<1>1. /\ HeaderIn(d, p, root, words, query) /\ e \in 1..Len(d)
      /\ args = << >> => e = p + l
      /\ args # << >> => \E at : at[0] = p + l /\ at[Len(args)] = e /\ ArgsIn(d, args, at)
  BY DEF UnitIn, ArgsBetween
<1>2. /\ Len(words) \in Nat /\ Len(words) > 0 /\ p \in Nat /\ p > 0 /\ Len(d) \in Nat
      /\ Bit(root) \in 0..1 /\ Bit(query) \in 0..1
  BY DEF Bit
<1>3. l \in Nat /\ l > 0 /\ p + l <= Len(d) + 1
  BY <1>1, <1>2 DEF HeaderLen, HeaderIn
<1>4. At(d, e) \in {"SEMI", "NL"}
  OBVIOUS
<1>5. x = [invalid |-> ~ends,
           header |-> [ptr |-> s, len |-> IF ends THEN h - s ELSE 1],
           data |-> [ptr |-> w, len |-> all.len],
           next |-> IF At(d, all.next) = "EOS" THEN all.next ELSE all.next + 1]
  BY DEF detectProgramMessageUnit
<1> HIDE DEF l, x
<1>6. At(d, p) # "SP"
  <2>1. p \in 1..Len(d)
    BY <1>2, <1>3
  <2>2. At(d, p) = d[p]
    BY <2>1, InLine
  <2>3. CASE root
    BY <1>1, <2>2, <2>3 DEF HeaderIn
  <2>4. CASE ~root
    <3>1. 1 \in 1..Len(words) /\ p + Bit(root) + 2 * 1 - 2 = p
      BY <1>2, <2>4 DEF Bit
    <3>2. d[p] = words[1]
      BY <1>1, <3>1 DEF HeaderIn
    <3>3. IsWord(words[1]) \/ words[1] \in Commons
      BY <3>1 DEF Readable
    <3> QED BY <2>2, <3>2, <3>3 DEF IsWord, Marks, Commons
  <2> QED BY <2>3, <2>4
<1>7. s = p
  <2>1. p \in 1..(Len(d) + 1)
    BY <1>2, <1>3
  <2> QED BY <1>6, <2>1, NoSpace
<1> HIDE DEF s
<1> SUFFICES all.next = e /\ h = p + l
  <2> HIDE DEF h, w, all
  <2>1. ends
    BY <1>4
  <2>2. At(d, all.next) # "EOS"
    BY <1>4
  <2>3. h - s = l
    BY <1>2, <1>3, <1>7
  <2>4. x.invalid = ~ends /\ x.header = [ptr |-> s, len |-> IF ends THEN h - s ELSE 1]
        /\ x.next = IF At(d, all.next) = "EOS" THEN all.next ELSE all.next + 1
    <3> HIDE DEF ends
    <3> QED BY <1>5
  <2> HIDE DEF ends
  <2> QED BY <1>7, <2>1, <2>2, <2>3, <2>4 DEF x, l
<1>8. ASSUME At(d, p + l) \in {"SP", "SEMI", "NL"} PROVE h = p + l
  BY <1>1, <1>7, <1>8, HeaderFound DEF l, Readable
<1>9. CASE args = << >>
  <2>1. p + l = e
    BY <1>1, <1>9
  <2>2. h = e
    BY <1>4, <1>8, <2>1
  <2> HIDE DEF h
  <2>3. e \in 1..(Len(d) + 1) /\ At(d, e) # "SP" /\ e \in Nat
    BY <1>1, <1>2, <1>4
  <2>4. w = e
    BY <2>2, <2>3, NoSpace
  <2> HIDE DEF w
  <2>5. ~(w > h)
    BY <2>2, <2>3, <2>4
  <2> QED BY <2>1, <2>2, <2>4, <2>5
<1>10. CASE args # << >>
  <2>1. PICK at : at[0] = p + l /\ at[Len(args)] = e /\ ArgsIn(d, args, at)
    BY <1>1, <1>10
  <2>2. Len(args) \in Nat /\ Len(args) > 0
    BY <1>10
  <2>3. 0 \in 0..Len(args) /\ 1 \in 1..Len(args) /\ 1 \in 0..Len(args) /\ 1 - 1 = 0
    BY <2>2
  <2>4. /\ at \in [0..Len(args) -> 1..Len(d)]
        /\ at[1] = at[0] + 1 + Len(args[1]) /\ d[at[0]] = "SP"
        /\ \A j \in 1..Len(args[1]) : d[at[0] + j] = args[1][j]
    <3>1. /\ at \in [0..Len(args) -> 1..Len(d)]
          /\ \A k \in 1..Len(args) :
               /\ at[k] = at[k - 1] + 1 + Len(args[k]) /\ at[0] <= at[k - 1]
               /\ d[at[k - 1]] = IF k = 1 THEN "SP" ELSE "COMMA"
               /\ \A j \in 1..Len(args[k]) : d[at[k - 1] + j] = args[k][j]
      BY <2>1 DEF ArgsIn
    <3>2. /\ at[1] = at[1 - 1] + 1 + Len(args[1])
          /\ d[at[1 - 1]] = IF 1 = 1 THEN "SP" ELSE "COMMA"
          /\ \A j \in 1..Len(args[1]) : d[at[1 - 1] + j] = args[1][j]
      BY <2>3, <3>1, Zenon
    <3> QED BY <2>3, <3>1, <3>2
  <2>5. at[0] \in 1..Len(d) /\ at[1] \in 1..Len(d)
    BY <2>3, <2>4
  <2>6. At(d, p + l) = "SP"
    BY <2>1, <2>4, <2>5, InLine
  <2>7. h = p + l
    BY <1>8, <2>6
  <2> HIDE DEF h
  <2>8. PlainArg(args[1]) /\ args[1] \in Seq(S)
    BY <2>3
  <2>9. 1 \in 1..Len(args[1]) /\ Len(args[1]) \in Nat /\ args[1][1] # "SP"
    <3>1. Len(args[1]) \in {1, 2}
      BY <2>8 DEF PlainArg
    <3>2. args[1][1] # "SP"
      BY <2>8 DEF PlainArg, IsWord, Marks, Numbers, Texts
    <3> QED BY <3>1, <3>2
  <2>10. At(d, p + l + 1) # "SP"
    <3>1. d[at[0] + 1] = args[1][1]
      BY <2>4, <2>9
    <3>2. at[0] + 1 \in 1..Len(d)
      BY <1>2, <2>4, <2>5, <2>9
    <3> QED BY <2>1, <2>9, <3>1, <3>2, InLine
  <2>11. w = p + l + 1
    <3>1. p + l \in 1..Len(d)
      BY <2>1, <2>5
    <3> QED BY <2>6, <2>7, <2>10, <3>1, OneSpace
  <2> HIDE DEF w
  <2>12. w > h
    BY <1>2, <1>3, <2>7, <2>11
  <2>13. AllProgramData(d, w).next = e
    <3>1. At(d, at[Len(args)]) \in {"SEMI", "NL"}
      BY <1>4, <2>1
    <3>2. w = at[0] + 1
      BY <2>1, <2>11
    <3> QED BY <1>10, <2>1, <3>1, <3>2, ListFound
  <2> QED BY <2>7, <2>12, <2>13
<1> QED BY <1>9, <1>10

-----------------------------------------------------------------------------
(* Requests as they are written, and where in their line each unit is.     *)

\* Induction over a range, up
LEMMA Climb ==
    ASSUME NEW n \in Nat, NEW P, 0 \in P, \A i \in 1..n : i - 1 \in P => i \in P
    PROVE  \A i \in 0..n : i \in P
<1> DEFINE Bad == {i \in 0..n : i \notin P}
<1>1. SUFFICES ASSUME Bad # {} PROVE FALSE
  OBVIOUS
<1>2. PICK k \in Bad : \A j \in Bad : k <= j
  <2>1. Bad \subseteq Nat
    OBVIOUS
  <2> HIDE DEF Bad
  <2> QED BY <1>1, <2>1, Smallest
<1>3. k \in 1..n /\ k - 1 \in 0..n /\ ~(k <= k - 1)
  <2>1. k \in 0..n /\ k # 0
    OBVIOUS
  <2> QED BY <2>1
<1>4. k - 1 \notin Bad
  BY <1>2, <1>3
<1> QED BY <1>3, <1>4

\* and down.
LEMMA Descend ==
    ASSUME NEW m \in Nat, NEW n \in Nat, NEW P, n \in P, \A i \in m..(n - 1) : i + 1 \in P => i \in P
    PROVE  \A i \in m..n : i \in P
<1> DEFINE Bad == {i \in m..n : i \notin P}
<1>1. SUFFICES ASSUME Bad # {} PROVE FALSE
  OBVIOUS
<1>2. PICK k \in Bad : \A j \in Bad : j <= k
  <2>1. Bad \subseteq Nat /\ (\A j \in Bad : j < n + 1) /\ n + 1 \in Nat
    OBVIOUS
  <2> HIDE DEF Bad
  <2> QED BY <1>1, <2>1, Largest
<1>3. k \in m..(n - 1) /\ k + 1 \in m..n /\ ~(k + 1 <= k)
  <2>1. k \in m..n /\ k # n
    OBVIOUS
  <2> QED BY <2>1
<1>4. k + 1 \notin Bad
  BY <1>2, <1>3
<1> QED BY <1>3, <1>4

\* A function defined by recursion on a range.
Iteration(f, n, X, x0, G) == f \in [0..n -> X] /\ f[0] = x0 /\ \A i \in 1..n : f[i] = G[i][f[i - 1]]
Steps(G, n, X) == G \in [1..n -> [X -> X]]

\* There is one.
LEMMA Iterates ==
    ASSUME NEW n \in Nat, NEW X, NEW x0 \in X, NEW G, Steps(G, n, X)
    PROVE  \E f : Iteration(f, n, X, x0, G)
<1>0. G \in [1..n -> [X -> X]]
  BY DEF Steps
<1> DEFINE Is(f, k) == f \in [0..k -> X] /\ f[0] = x0 /\ \A i \in 1..k : f[i] = G[i][f[i - 1]]
           P == {k \in 0..n : \E f : Is(f, k)}
<1>1. 0 \in P
  <2> DEFINE f == [i \in 0..0 |-> x0]
  <2>1. Is(f, 0)
    OBVIOUS
  <2>2. 0 \in 0..n
    OBVIOUS
  <2> HIDE DEF f
  <2> QED BY <2>1, <2>2
<1>2. ASSUME NEW k \in 1..n, k - 1 \in P PROVE k \in P
  <2>1. PICK g : Is(g, k - 1)
    BY <1>2
  <2> DEFINE f == [i \in 0..k |-> IF i = k THEN G[k][g[k - 1]] ELSE g[i]]
  <2>2. k - 1 \in 0..(k - 1) /\ k \in Nat
    OBVIOUS
  <2>3. g[k - 1] \in X /\ G[k] \in [X -> X]
    BY <1>0, <2>1, <2>2
  <2>4. f \in [0..k -> X]
    <3>1. G[k][g[k - 1]] \in X
      BY <2>3
    <3>2. \A i \in 0..k : i # k => i \in 0..(k - 1)
      BY <2>2
    <3>3. \A i \in 0..(k - 1) : g[i] \in X
      BY <2>1
    <3> QED BY <3>1, <3>2, <3>3
  <2>5. f[0] = x0
    <3>1. 0 \in 0..k /\ 0 # k
      BY <2>2
    <3> QED BY <2>1, <3>1
  <2>6. ASSUME NEW i \in 1..k PROVE f[i] = G[i][f[i - 1]]
    <3>1. i \in 0..k /\ i - 1 \in 0..k /\ i - 1 # k
      BY <2>2
    <3>2. f[i - 1] = g[i - 1]
      BY <3>1
    <3>3. CASE i = k
      BY <3>1, <3>2, <3>3
    <3>4. CASE i # k
      <4>1. i \in 1..(k - 1)
        BY <2>2, <3>4
      <4> QED BY <2>1, <3>1, <3>2, <3>4, <4>1
    <3> QED BY <3>3, <3>4
  <2> HIDE DEF f
  <2>7. Is(f, k)
    BY <2>4, <2>5, <2>6
  <2> QED BY <2>7
<1> HIDE DEF P
<1>3. n \in P
  <2>1. \A i \in 0..n : i \in P
    BY <1>1, <1>2, Climb
  <2> QED BY <2>1
<1>4. PICK f : Is(f, n)
  BY <1>3 DEF P
<1>5. Iteration(f, n, X, x0, G)
  BY <1>4 DEF Iteration
<1> QED BY <1>5

\* Sequences each of which goes on where the one before ends.
StartsWith(t, s) == Len(s) <= Len(t) /\ \A i \in 1..Len(s) : t[i] = s[i]

\* The last of them begins with each.
LEMMA GoesOn ==
    ASSUME NEW S, NEW n \in Nat, NEW f \in [0..n -> Seq(S)], \A k \in 1..n : StartsWith(f[k], f[k - 1])
    PROVE  \A k \in 0..n : StartsWith(f[n], f[k])
<1>0. \A k \in 1..n : /\ Len(f[k - 1]) <= Len(f[k])
                      /\ \A i \in 1..Len(f[k - 1]) : f[k][i] = f[k - 1][i]
  BY DEF StartsWith
<1> DEFINE P == {k \in 0..n : /\ Len(f[k]) <= Len(f[n])
                              /\ \A i \in 1..Len(f[k]) : f[n][i] = f[k][i]}
<1>1. n \in P
  OBVIOUS
<1>2. ASSUME NEW k \in 0..(n - 1), k + 1 \in P PROVE k \in P
  <2>1. k + 1 \in 1..n /\ k + 1 - 1 = k /\ k \in 0..n /\ k + 1 \in 0..n
    OBVIOUS
  <2>2. Len(f[k]) \in Nat /\ Len(f[k + 1]) \in Nat /\ Len(f[n]) \in Nat
    BY <2>1
  <2>3. Len(f[k]) <= Len(f[k + 1]) /\ \A i \in 1..Len(f[k]) : f[k + 1][i] = f[k][i]
    BY <1>0, <2>1
  <2>4. Len(f[k + 1]) <= Len(f[n]) /\ \A i \in 1..Len(f[k + 1]) : f[n][i] = f[k + 1][i]
    BY <1>2
  <2>5. \A i \in 1..Len(f[k]) : i \in 1..Len(f[k + 1])
    BY <2>2, <2>3
  <2> QED BY <2>1, <2>2, <2>3, <2>4, <2>5
<1>3. 0 \in Nat
  OBVIOUS
<1> HIDE DEF P
<1>4. \A k \in 0..n : k \in P
  BY <1>1, <1>2, <1>3, Descend
<1> QED BY <1>4 DEF P, StartsWith

Unit(S) == [root : BOOLEAN, short : BOOLEAN, path : Seq(S) \ {<< >>}, query : BOOLEAN, args : Seq(Seq(S))]

\* All the cells a client may use.
Cellular(S) == Marks \subseteq S /\ \A w \in DOMAIN Short : Short[w] \in S

\* The words of a unit as they are written.
LEMMA SpeltShape ==
    ASSUME NEW S, Cellular(S), NEW u \in Unit(S)
    PROVE  /\ Spelt(u) \in Seq(S) /\ Spelt(u) # << >> /\ Len(Spelt(u)) = Len(u.path)
           /\ \A k \in 1..Len(u.path) : Spelt(u)[k] = IF u.short THEN ShortForm(u.path[k]) ELSE u.path[k]
<1>1. u.path \in Seq(S) /\ u.path # << >>
  BY DEF Unit
<1> DEFINE n == Len(u.path)
           s == Spelt(u)
<1>2. n \in Nat /\ n > 0 /\ DOMAIN u.path = 1..n
  BY <1>1
<1>3. ASSUME NEW k \in 1..n PROVE ShortForm(u.path[k]) \in S /\ u.path[k] \in S
  <2>1. u.path[k] \in S
    BY <1>1, <1>3
  <2>2. \A w \in S : ShortForm(w) \in S
    BY DEF ShortForm, Cellular
  <2> QED BY <2>1, <2>2
<1>4. s = [i \in 1..n |-> IF u.short THEN ShortForm(u.path[i]) ELSE u.path[i]]
  BY <1>2 DEF Spelt
<1> HIDE DEF n, s
<1>5. s \in [1..n -> S]
  BY <1>3, <1>4, Zenon
<1>6. s \in Seq(S) /\ Len(s) = n /\ s # << >>
  BY <1>2, <1>5
<1>7. \A k \in 1..n : s[k] = IF u.short THEN ShortForm(u.path[k]) ELSE u.path[k]
  BY <1>4
<1> QED BY <1>6, <1>7 DEF n, s

\* The parameters one after another,
LEMMA ArgsTextIs ==
    ASSUME NEW S, Marks \subseteq S, NEW args \in Seq(Seq(S))
    PROVE  LET t == ArgsText(args)
           IN  /\ t \in [0..Len(args) -> Seq(S)] /\ t[0] = << >>
               /\ \A k \in 1..Len(args) : t[k] = (t[k - 1] \o (IF k = 1 THEN <<"SP">> ELSE <<"COMMA">>)) \o args[k]
<1> DEFINE n == Len(args)
           sep(i) == IF i = 1 THEN <<"SP">> ELSE <<"COMMA">>
           G == [i \in 1..n |-> [x \in Seq(S) |-> (x \o sep(i)) \o args[i]]]
           Is(g) == g = [i \in 0..n |-> IF i = 0 THEN << >> ELSE (g[i - 1] \o sep(i)) \o args[i]]
           t == CHOOSE g : Is(g)
<1>1. n \in Nat /\ << >> \in Seq(S) /\ \A i \in 1..n : args[i] \in Seq(S)
  OBVIOUS
<1>2. \A i : sep(i) \in Seq(S)
  BY DEF Marks
<1>3. ArgsText(args) = t
  BY DEF ArgsText
<1> HIDE DEF n, sep
<1>4. \A x \in Seq(S) : \A i \in 1..n : (x \o sep(i)) \o args[i] \in Seq(S)
  BY <1>1, <1>2
<1>5. Steps(G, n, Seq(S))
  BY <1>4 DEF Steps
<1>6. PICK f : f \in [0..n -> Seq(S)] /\ f[0] = << >> /\ \A i \in 1..n : f[i] = G[i][f[i - 1]]
  <2> HIDE DEF G
  <2>1. \E f : Iteration(f, n, Seq(S), << >>, G)
    BY <1>1, <1>5, Iterates
  <2> QED BY <2>1 DEF Iteration
<1>7. Is(f)
  <2> DEFINE b == [i \in 0..n |-> IF i = 0 THEN << >> ELSE (f[i - 1] \o sep(i)) \o args[i]]
  <2>1. ASSUME NEW i \in 0..n PROVE f[i] = b[i]
    <3>1. CASE i = 0
      BY <1>6, <3>1
    <3>2. CASE i # 0
      <4>1. i \in 1..n /\ i - 1 \in 0..n
        BY <1>1, <3>2
      <4>2. f[i - 1] \in Seq(S)
        BY <1>6, <4>1
      <4> QED BY <1>6, <3>2, <4>1, <4>2
    <3> QED BY <3>1, <3>2
  <2>2. f = [i \in 0..n |-> f[i]] /\ b = [i \in 0..n |-> b[i]]
    BY <1>6
  <2> HIDE DEF b
  <2>3. f = b
    BY <2>1, <2>2
  <2> QED BY <2>3 DEF b
<1>8. Is(t)
  <2> HIDE DEF Is
  <2> QED BY <1>7
<1> HIDE DEF t
<1>9. t[0] = << >> /\ \A k \in 1..n : t[k] = (t[k - 1] \o sep(k)) \o args[k]
  <2>1. \A i \in 0..n : t[i] = IF i = 0 THEN << >> ELSE (t[i - 1] \o sep(i)) \o args[i]
    BY <1>8, Zenon
  <2>2. 0 \in 0..n /\ \A k \in 1..n : k \in 0..n /\ k # 0
    BY <1>1
  <2> QED BY <2>1, <2>2, Zenon
<1>10. t \in [0..n -> Seq(S)]
  <2> DEFINE P == {i \in 0..n : t[i] \in Seq(S)}
  <2>1. 0 \in P
    <3>1. 0 \in 0..n
      BY <1>1
    <3>2. t[0] \in Seq(S)
      BY <1>1, <1>9, Zenon
    <3> QED BY <3>1, <3>2, Zenon
  <2>2. ASSUME NEW i \in 1..n, i - 1 \in P PROVE i \in P
    <3>1. i \in 0..n
      BY <1>1
    <3>2. t[i - 1] \in Seq(S)
      BY <2>2, Zenon
    <3>3. t[i] \in Seq(S)
      BY <1>4, <1>9, <3>2, Zenon
    <3> QED BY <3>1, <3>3, Zenon
  <2> HIDE DEF P
  <2>3. \A i \in 0..n : i \in P
    BY <1>1, <2>1, <2>2, Climb
  <2>4. \A i \in 0..n : t[i] \in Seq(S)
    BY <2>3 DEF P
  <2>5. t = [i \in 0..n |-> t[i]]
    BY <1>8
  <2> QED BY <2>4, <2>5
<1> QED BY <1>3, <1>9, <1>10 DEF n, sep

\* and a whole unit.
LEMMA UnitTextIs ==
    ASSUME NEW S, Cellular(S), NEW u \in Unit(S)
    PROVE  UnitText(u) \in Seq(S)
<1>1. /\ u.root \in BOOLEAN /\ u.query \in BOOLEAN /\ u.args \in Seq(Seq(S)) /\ Marks \subseteq S
      /\ Spelt(u) \in Seq(S) /\ Spelt(u) # << >>
  BY SpeltShape DEF Unit, Cellular
<1>2. HeaderCells(u.root, Spelt(u), u.query) \in Seq(S)
  BY <1>1, HeaderShape
<1>3. ArgsText(u.args)[Len(u.args)] \in Seq(S)
  <2>1. Len(u.args) \in 0..Len(u.args)
    BY <1>1
  <2>2. ArgsText(u.args) \in [0..Len(u.args) -> Seq(S)]
    BY <1>1, ArgsTextIs
  <2> QED BY <2>1, <2>2
<1> QED BY <1>2, <1>3 DEF UnitText

\* The units of a request.
LEMMA UnitsTextIs ==
    ASSUME NEW S, Cellular(S), NEW request \in Seq(Unit(S))
    PROVE  LET t == UnitsText(request)
           IN  /\ t \in [0..Len(request) -> Seq(S)] /\ t[0] = << >>
               /\ \A k \in 1..Len(request) :
                    t[k] = (IF k = 1 THEN << >> ELSE Append(t[k - 1], "SEMI")) \o UnitText(request[k])
<1> DEFINE n == Len(request)
           X == Seq(S)
           lead(i, x) == IF i = 1 THEN << >> ELSE Append(x, "SEMI")
           G == [i \in 1..n |-> [x \in X |-> lead(i, x) \o UnitText(request[i])]]
           Is(g) == g = [i \in 0..n |-> IF i = 0 THEN << >> ELSE lead(i, g[i - 1]) \o UnitText(request[i])]
           t == CHOOSE g : Is(g)
<1>1. n \in Nat /\ << >> \in X
  OBVIOUS
<1>2. \A x \in X : \A i \in 1..n : lead(i, x) \o UnitText(request[i]) \in X
  <2>1. \A i \in 1..n : UnitText(request[i]) \in Seq(S)
    BY UnitTextIs
  <2>2. "SEMI" \in S
    BY DEF Cellular, Marks
  <2>3. \A x \in Seq(S) : \A i : lead(i, x) \in Seq(S)
    BY <2>2
  <2> HIDE DEF lead, n
  <2> QED BY <2>1, <2>3
<1>3. UnitsText(request) = t
  BY DEF UnitsText
<1> HIDE DEF n, lead, X
<1>4. Steps(G, n, X)
  BY <1>2 DEF Steps
<1>5. PICK f : f \in [0..n -> X] /\ f[0] = << >> /\ \A i \in 1..n : f[i] = G[i][f[i - 1]]
  <2> HIDE DEF G
  <2>1. \E f : Iteration(f, n, X, << >>, G)
    BY <1>1, <1>4, Iterates
  <2> QED BY <2>1 DEF Iteration
<1>6. Is(f)
  <2> DEFINE b == [i \in 0..n |-> IF i = 0 THEN << >> ELSE lead(i, f[i - 1]) \o UnitText(request[i])]
  <2>1. ASSUME NEW i \in 0..n PROVE f[i] = b[i]
    <3>1. CASE i = 0
      BY <1>5, <3>1
    <3>2. CASE i # 0
      <4>1. i \in 1..n /\ i - 1 \in 0..n
        BY <1>1, <3>2
      <4>2. f[i - 1] \in X
        BY <1>5, <4>1
      <4> QED BY <1>5, <3>2, <4>1, <4>2
    <3> QED BY <3>1, <3>2
  <2>2. f = [i \in 0..n |-> f[i]] /\ b = [i \in 0..n |-> b[i]]
    BY <1>5
  <2> HIDE DEF b
  <2>3. f = b
    BY <2>1, <2>2
  <2> QED BY <2>3 DEF b
<1>7. Is(t)
  <2> HIDE DEF Is
  <2> QED BY <1>6
<1> HIDE DEF t
<1>8. t[0] = << >> /\ \A k \in 1..n : t[k] = lead(k, t[k - 1]) \o UnitText(request[k])
  <2>1. \A i \in 0..n : t[i] = IF i = 0 THEN << >> ELSE lead(i, t[i - 1]) \o UnitText(request[i])
    BY <1>7, Zenon
  <2>2. 0 \in 0..n /\ \A k \in 1..n : k \in 0..n /\ k # 0
    BY <1>1
  <2> QED BY <2>1, <2>2, Zenon
<1>9. t \in [0..n -> X]
  <2> DEFINE P == {i \in 0..n : t[i] \in X}
  <2>1. 0 \in P
    <3>1. 0 \in 0..n
      BY <1>1
    <3> QED BY <1>1, <1>8, <3>1, Zenon
  <2>2. ASSUME NEW i \in 1..n, i - 1 \in P PROVE i \in P
    <3>1. i \in 0..n
      BY <1>1
    <3>2. t[i - 1] \in X
      BY <2>2, Zenon
    <3>3. t[i] \in X
      BY <1>2, <1>8, <3>2, Zenon
    <3> QED BY <3>1, <3>3, Zenon
  <2> HIDE DEF P
  <2>3. \A i \in 0..n : i \in P
    BY <1>1, <2>1, <2>2, Climb
  <2>4. \A i \in 0..n : t[i] \in X
    BY <2>3 DEF P
  <2>5. t = [i \in 0..n |-> t[i]]
    BY <1>7
  <2> QED BY <2>4, <2>5
<1> QED BY <1>3, <1>8, <1>9 DEF n, lead, X

IsCat(w, s, t) ==
    /\ Len(w) = Len(s) + Len(t)
    /\ \A i \in 1..Len(s) : w[i] = s[i]
    /\ \A i \in 1..Len(t) : w[Len(s) + i] = t[i]

\* Two sequences one after the other.
LEMMA Cats ==
    ASSUME NEW S, NEW s \in Seq(S), NEW t \in Seq(S)
    PROVE  s \o t \in Seq(S) /\ IsCat(s \o t, s, t)
  BY CatAt DEF IsCat

\* Two sequences with a cell between them.
IsCat3(w, s, c, t) ==
    /\ Len(w) = Len(s) + 1 + Len(t)
    /\ \A i \in 1..Len(s) : w[i] = s[i]
    /\ w[Len(s) + 1] = c
    /\ \A i \in 1..Len(t) : w[Len(s) + 1 + i] = t[i]

\* They are sequences of the same cells.
LEMMA CatCells ==
    ASSUME NEW S, NEW s \in Seq(S), NEW c \in S, NEW t \in Seq(S)
    PROVE  (s \o <<c>>) \o t \in Seq(S) /\ IsCat3((s \o <<c>>) \o t, s, c, t)
<1> DEFINE x == s \o <<c>>
           w == x \o t
<1>1. x \in Seq(S) /\ Len(x) = Len(s) + 1 /\ (\A i \in 1..Len(s) : x[i] = s[i]) /\ x[Len(s) + 1] = c
  OBVIOUS
<1>2. Len(s) \in Nat /\ Len(t) \in Nat
  OBVIOUS
<1> HIDE DEF x
<1>3. /\ w \in Seq(S) /\ Len(w) = Len(x) + Len(t)
      /\ \A i \in 1..Len(x) : w[i] = x[i]
      /\ \A i \in 1..Len(t) : w[Len(x) + i] = t[i]
  <2>1. w \in Seq(S) /\ IsCat(w, x, t)
    BY <1>1, Cats
  <2> QED BY <2>1 DEF IsCat
<1> HIDE DEF w
<1>4. (\A i \in 1..Len(s) : i \in 1..Len(x)) /\ Len(s) + 1 \in 1..Len(x)
  BY <1>1, <1>2
<1>5. Len(w) = Len(s) + 1 + Len(t)
  BY <1>1, <1>3
<1>6. /\ \A i \in 1..Len(s) : w[i] = s[i]
      /\ w[Len(s) + 1] = c
  BY <1>1, <1>3, <1>4
<1>7. \A i \in 1..Len(t) : w[Len(s) + 1 + i] = t[i]
  BY <1>1, <1>3
<1> QED BY <1>3, <1>5, <1>6, <1>7 DEF w, x, IsCat3

\* Where the parameters of a unit are in a line that holds them.
LEMMA ArgsLie ==
    ASSUME NEW S, Marks \subseteq S, NEW args \in Seq(Seq(S)), NEW d \in Seq(S), NEW h \in Nat \ {0},
           NEW t, t = ArgsText(args)[Len(args)],
           h + Len(t) <= Len(d), \A i \in 1..Len(t) : d[h + i - 1] = t[i]
    PROVE  ArgsBetween(d, args, h, h + Len(t))
<1> DEFINE n == Len(args)
           f == ArgsText(args)
           sep(k) == IF k = 1 THEN "SP" ELSE "COMMA"
           at == [k \in 0..n |-> h + Len(f[k])]
<1>1. n \in Nat /\ h \in Nat /\ h > 0 /\ Len(d) \in Nat
  OBVIOUS
<1>2. /\ f \in [0..n -> Seq(S)] /\ f[0] = << >>
      /\ \A k \in 1..n : f[k] = (f[k - 1] \o (IF k = 1 THEN <<"SP">> ELSE <<"COMMA">>)) \o args[k]
  BY ArgsTextIs
<1>3. t = f[n] /\ h + Len(t) <= Len(d) /\ \A i \in 1..Len(t) : d[h + i - 1] = t[i]
  OBVIOUS
<1>4. \A k \in 1..n : args[k] \in Seq(S) /\ Len(args[k]) \in Nat
  OBVIOUS
<1> HIDE DEF f, n
<1>5. ASSUME NEW k \in 1..n
      PROVE  /\ Len(f[k]) = Len(f[k - 1]) + 1 + Len(args[k]) /\ Len(f[k - 1]) \in Nat
             /\ \A i \in 1..Len(f[k - 1]) : f[k][i] = f[k - 1][i]
             /\ f[k][Len(f[k - 1]) + 1] = sep(k)
             /\ \A j \in 1..Len(args[k]) : f[k][Len(f[k - 1]) + 1 + j] = args[k][j]
  <2>1. f[k - 1] \in Seq(S)
    BY <1>1, <1>2
  <2>2. args[k] \in Seq(S)
    BY <1>4
  <2>3. sep(k) \in S
    BY DEF Marks
  <2>4. f[k] = (f[k - 1] \o <<sep(k)>>) \o args[k]
    BY <1>2
  <2> HIDE DEF sep
  <2>5. Len(f[k - 1]) \in Nat
    BY <2>1
  <2>6. IsCat3(f[k], f[k - 1], sep(k), args[k])
    BY <2>1, <2>2, <2>3, <2>4, CatCells
  <2> QED BY <2>5, <2>6 DEF IsCat3
<1>6. \A k \in 0..n : /\ Len(f[k]) <= Len(f[n])
                      /\ \A i \in 1..Len(f[k]) : f[n][i] = f[k][i]
  <2>1. ASSUME NEW k \in 1..n PROVE StartsWith(f[k], f[k - 1])
    <3> DEFINE m == Len(f[k - 1])
               l == Len(args[k])
    <3>1. Len(f[k]) = m + 1 + l /\ m \in Nat /\ l \in Nat
      BY <1>4, <1>5
    <3>2. m <= Len(f[k])
      <4> HIDE DEF m, l
      <4> QED BY <3>1
    <3> QED BY <1>5, <3>2 DEF StartsWith
  <2>2. \A k \in 0..n : StartsWith(f[n], f[k])
    BY <1>1, <1>2, <2>1, GoesOn
  <2> QED BY <2>2 DEF StartsWith
<1>7. \A k \in 0..n : Len(f[k]) \in Nat
  BY <1>2
<1>8. at[0] = h /\ at[n] = h + Len(t)
  <2>1. 0 \in 0..n /\ n \in 0..n /\ Len(f[0]) = 0
    BY <1>1, <1>2
  <2>2. at[0] = h + Len(f[0]) /\ at[n] = h + Len(f[n])
    BY <2>1, Zenon
  <2>3. h + 0 = h
    BY <1>1
  <2> HIDE DEF at
  <2> QED BY <1>3, <2>1, <2>2, <2>3
<1>9. at \in [0..n -> 1..Len(d)]
  <2>1. ASSUME NEW k \in 0..n PROVE h + Len(f[k]) \in 1..Len(d)
    <3> DEFINE x == Len(f[k])
               y == Len(f[n])
    <3>1. x \in Nat /\ y \in Nat /\ x <= y /\ h + y <= Len(d)
      <4>1. n \in 0..n
        BY <1>1
      <4> QED BY <1>3, <1>6, <1>7, <4>1
    <3> HIDE DEF x, y
    <3>2. h + x \in 1..Len(d)
      BY <1>1, <3>1
    <3> QED BY <3>2 DEF x
  <2> QED BY <2>1
<1>10. ASSUME NEW k \in 1..n
       PROVE  /\ at[k] = at[k - 1] + 1 + Len(args[k]) /\ at[0] <= at[k - 1]
              /\ d[at[k - 1]] = sep(k)
              /\ \A j \in 1..Len(args[k]) : d[at[k - 1] + j] = args[k][j]
  <2>1. k \in 0..n /\ k - 1 \in 0..n
    BY <1>1
  <2> DEFINE m == Len(f[k - 1])
             l == Len(args[k])
             M == Len(f[k])
  <2>2. at[k] = h + M /\ at[k - 1] = h + m
    BY <2>1
  <2>3. m \in Nat /\ l \in Nat /\ M = m + 1 + l
    BY <1>4, <1>5
  <2>4. /\ f[k][m + 1] = sep(k)
        /\ \A j \in 1..l : f[k][m + 1 + j] = args[k][j]
    BY <1>5
  <2>5. ASSUME NEW i \in 1..M PROVE d[h + i - 1] = f[k][i]
    <3>1. i \in 1..Len(t)
      <4> DEFINE y == Len(t)
      <4>1. M <= y /\ y \in Nat
        <5>1. n \in 0..n
          BY <1>1
        <5> QED BY <1>3, <1>6, <1>7, <2>1, <5>1
      <4> HIDE DEF M, m, l, y
      <4>2. i \in 1..y
        BY <2>3, <4>1
      <4> QED BY <4>2 DEF y
    <3> QED BY <1>3, <1>6, <2>1, <3>1
  <2> HIDE DEF m, l, M, at
  <2>6. at[k] = at[k - 1] + 1 + l /\ at[0] <= at[k - 1]
    BY <1>1, <1>8, <2>2, <2>3
  <2>7. d[at[k - 1]] = sep(k)
    <3>1. m + 1 \in 1..M /\ at[k - 1] = h + (m + 1) - 1
      BY <1>1, <2>2, <2>3
    <3> HIDE DEF sep
    <3> QED BY <2>4, <2>5, <3>1
  <2>8. ASSUME NEW j \in 1..l PROVE d[at[k - 1] + j] = args[k][j]
    <3>1. m + 1 + j \in 1..M /\ at[k - 1] + j = h + (m + 1 + j) - 1
      BY <1>1, <2>2, <2>3
    <3> QED BY <2>4, <2>5, <3>1
  <2> HIDE DEF sep
  <2> QED BY <2>6, <2>7, <2>8 DEF l
<1>11. ArgsIn(d, args, at)
  <2> HIDE DEF at
  <2> QED BY <1>9, <1>10 DEF ArgsIn, n
<1> HIDE DEF at
<1> QED BY <1>8, <1>11 DEF n, ArgsBetween

\* Where the parts of a unit are in a line that holds it.
LEMMA UnitLies ==
    ASSUME NEW S, Cellular(S), NEW u \in Unit(S), NEW d \in Seq(S), NEW p \in Nat \ {0},
           p + Len(UnitText(u)) <= Len(d),
           \A i \in 1..Len(UnitText(u)) : d[p + i - 1] = UnitText(u)[i]
    PROVE  UnitIn(d, p, p + Len(UnitText(u)), u.root, Spelt(u), u.query, u.args)
<1> DEFINE words == Spelt(u)
           n == Len(words)
           r == Bit(u.root)
           q == Bit(u.query)
           hc == HeaderCells(u.root, words, u.query)
           t == ArgsText(u.args)[Len(u.args)]
           w == UnitText(u)
           l == HeaderLen(u.root, words, u.query)
           h == p + l
<1>1. /\ u.root \in BOOLEAN /\ u.query \in BOOLEAN /\ u.args \in Seq(Seq(S)) /\ Marks \subseteq S
      /\ words \in Seq(S) /\ words # << >> /\ n \in Nat /\ n > 0
      /\ p \in Nat /\ p > 0 /\ Len(d) \in Nat
  <2>1. words \in Seq(S) /\ words # << >>
    BY SpeltShape
  <2> HIDE DEF words
  <2> QED BY <2>1 DEF Unit, Cellular
<1>2. r \in 0..1 /\ q \in 0..1 /\ (u.root => r = 1) /\ (u.query => q = 1)
  BY DEF Bit
<1>3. /\ hc \in Seq(S) /\ Len(hc) = r + 2 * n - 1 + q
      /\ u.root => hc[1] = ":"
      /\ \A k \in 1..n : hc[r + 2 * k - 1] = words[k]
      /\ \A k \in 1..(n - 1) : hc[r + 2 * k] = ":"
      /\ u.query => hc[r + 2 * n] = "?"
  <2>1. hc \in Seq(S) /\ Header(hc, u.root, words, u.query)
    BY <1>1, HeaderShape
  <2> HIDE DEF hc, words
  <2> QED BY <2>1 DEF Header
<1>4. l = r + 2 * n - 1 + q
  BY DEF HeaderLen
<1>5. ArgsText(u.args) \in [0..Len(u.args) -> Seq(S)] /\ ArgsText(u.args)[0] = << >>
  BY <1>1, ArgsTextIs
<1>6. t \in Seq(S) /\ Len(t) \in Nat
  <2>1. Len(u.args) \in 0..Len(u.args)
    BY <1>1
  <2>2. t \in Seq(S)
    BY <1>5, <2>1
  <2> HIDE DEF t
  <2> QED BY <2>2
<1>7. w = hc \o t
  BY DEF UnitText
<1> HIDE DEF words, n, r, q, hc, t, l
<1>8. /\ Len(w) = l + Len(t)
      /\ \A i \in 1..l : w[i] = hc[i]
      /\ \A i \in 1..Len(t) : w[l + i] = t[i]
  <2>1. IsCat(w, hc, t)
    BY <1>3, <1>6, <1>7, Cats
  <2> QED BY <1>3, <1>4, <2>1 DEF IsCat
<1>9. p + Len(w) <= Len(d) /\ \A i \in 1..Len(w) : d[p + i - 1] = w[i]
  OBVIOUS
<1> HIDE DEF w
<1>10. l \in Nat /\ l > 0 /\ h \in Nat /\ h + Len(t) <= Len(d) /\ p + Len(w) = h + Len(t)
  <2>1. l \in Nat /\ l > 0
    BY <1>1, <1>2, <1>4
  <2> QED BY <1>1, <1>6, <1>8, <1>9, <2>1
<1>11. ASSUME NEW i \in 1..l PROVE d[p + i - 1] = hc[i]
  <2>1. i \in 1..Len(w)
    BY <1>6, <1>8, <1>10
  <2> QED BY <1>8, <1>9, <2>1
<1>12. ASSUME NEW i \in 1..Len(t) PROVE d[h + i - 1] = t[i]
  <2>1. l + i \in 1..Len(w) /\ h + i - 1 = p + (l + i) - 1
    BY <1>1, <1>6, <1>8, <1>10
  <2> QED BY <1>8, <1>9, <2>1
<1>13. HeaderIn(d, p, u.root, words, u.query)
  <2>1. p + l <= Len(d) + 1
    BY <1>1, <1>6, <1>10
  <2>2. ASSUME u.root PROVE d[p] = ":"
    <3>1. 1 \in 1..l /\ p + 1 - 1 = p
      BY <1>1, <1>10
    <3> QED BY <1>3, <1>11, <2>2, <3>1
  <2>3. ASSUME NEW k \in 1..n PROVE d[p + r + 2 * k - 2] = words[k]
    <3>1. r + 2 * k - 1 \in 1..l /\ p + (r + 2 * k - 1) - 1 = p + r + 2 * k - 2
      BY <1>1, <1>2, <1>4
    <3> QED BY <1>3, <1>11, <3>1
  <2>4. ASSUME NEW k \in 1..(n - 1) PROVE d[p + r + 2 * k - 1] = ":"
    <3>1. r + 2 * k \in 1..l /\ p + (r + 2 * k) - 1 = p + r + 2 * k - 1
      BY <1>1, <1>2, <1>4
    <3> QED BY <1>3, <1>11, <3>1
  <2>5. ASSUME u.query PROVE d[p + r + 2 * n - 1] = "?"
    <3>1. r + 2 * n \in 1..l /\ p + (r + 2 * n) - 1 = p + r + 2 * n - 1
      BY <1>1, <1>2, <1>4, <2>5
    <3> QED BY <1>3, <1>11, <2>5, <3>1
  <2> QED BY <2>1, <2>2, <2>3, <2>4, <2>5 DEF HeaderIn, l, r, n
<1>14. h + Len(t) \in 1..Len(d)
  BY <1>1, <1>6, <1>10
<1>15. ASSUME u.args = << >> PROVE h + Len(t) = h
  <2>1. Len(u.args) = 0
    BY <1>15
  <2>2. t = << >>
    BY <1>5, <2>1 DEF t
  <2> QED BY <1>10, <2>2
<1>16. ArgsBetween(d, u.args, h, h + Len(t))
  <2>1. h \in Nat \ {0}
    BY <1>1, <1>10
  <2> HIDE DEF h
  <2> QED BY <1>1, <1>10, <1>12, <2>1, ArgsLie DEF t
<1> QED BY <1>10, <1>13, <1>14, <1>15, <1>16 DEF UnitIn, w, l, words

\* Where unit k of a request begins in its line, and the cell after it.
UnitStart(request, k) == IF k = 1 THEN 1 ELSE Len(UnitsText(request)[k - 1]) + 2
UnitEnd(request, k) == Len(UnitsText(request)[k]) + 1
Whole(request) == Append(Text(request), "NL")

\* Each unit is where it should be, in any line that is the whole one from there on.
LEMMA UnitsLie ==
    ASSUME NEW S, Cellular(S), NEW request \in Seq(Unit(S)), NEW k \in 1..Len(request),
           NEW d \in Seq(S), Len(d) = Len(Whole(request)),
           \A j \in UnitStart(request, k)..Len(d) : d[j] = Whole(request)[j]
    PROVE  LET u == request[k]
           IN  /\ UnitStart(request, k) \in Nat \ {0} /\ UnitEnd(request, k) \in Nat
               /\ UnitStart(request, k) <= UnitEnd(request, k) /\ UnitEnd(request, k) <= Len(d)
               /\ UnitIn(d, UnitStart(request, k), UnitEnd(request, k), u.root, Spelt(u), u.query, u.args)
               /\ d[UnitEnd(request, k)] = IF k = Len(request) THEN "NL" ELSE "SEMI"
               /\ k = Len(request) => UnitEnd(request, k) = Len(d)
<1> DEFINE n == Len(request)
           f == UnitsText(request)
           u == request[k]
           w == UnitText(u)
           s == UnitStart(request, k)
           e == UnitEnd(request, k)
           whole == Whole(request)
<1>1. n \in Nat /\ n > 0 /\ k \in Nat /\ k > 0 /\ k <= n /\ u \in Unit(S) /\ Len(d) \in Nat /\ k \in 1..n
  OBVIOUS
<1>2. \A i \in 1..n : UnitText(request[i]) \in Seq(S)
  BY UnitTextIs
<1>3. /\ f \in [0..n -> Seq(S)] /\ f[0] = << >>
      /\ \A i \in 1..n : f[i] = (IF i = 1 THEN << >> ELSE Append(f[i - 1], "SEMI")) \o UnitText(request[i])
  BY UnitsTextIs
<1>4. whole = Append(f[n], "NL")
  BY DEF Whole, Text
<1>5. Len(d) = Len(whole) /\ \A j \in s..Len(d) : d[j] = whole[j]
  OBVIOUS
<1>6. /\ s = IF k = 1 THEN 1 ELSE Len(f[k - 1]) + 2
      /\ e = Len(f[k]) + 1
  BY DEF UnitStart, UnitEnd
<1> HIDE DEF n, f, u, w, s, e, whole
<1>7. ASSUME NEW i \in 0..n PROVE f[i] \in Seq(S) /\ Len(f[i]) \in Nat
  <2>1. f[i] \in Seq(S)
    BY <1>3
  <2> QED BY <2>1
<1>8. ASSUME NEW i \in 1..n, i # 1
      PROVE  IsCat3(f[i], f[i - 1], "SEMI", UnitText(request[i]))
  <2>1. i - 1 \in 0..n
    BY <1>1
  <2>3. "SEMI" \in S
    BY DEF Cellular, Marks
  <2>2. f[i] = (f[i - 1] \o <<"SEMI">>) \o UnitText(request[i])
    <3>1. Append(f[i - 1], "SEMI") = f[i - 1] \o <<"SEMI">>
      <4> DEFINE x == f[i - 1]
      <4>1. x \in Seq(S)
        BY <1>7, <2>1
      <4> HIDE DEF x
      <4>2. Append(x, "SEMI") = x \o <<"SEMI">>
        BY <2>3, <4>1, AppendIsConcat
      <4> QED BY <4>2 DEF x
    <3> QED BY <1>3, <1>8, <3>1
  <2> QED BY <1>2, <1>7, <2>1, <2>2, <2>3, CatCells
<1>9. f[1] = UnitText(request[1]) /\ Len(f[0]) = 0
  <2>1. 1 \in 1..n
    BY <1>1
  <2>2. f[1] = << >> \o UnitText(request[1])
    BY <1>3, <2>1
  <2>3. UnitText(request[1]) \in Seq(S)
    BY <1>2, <2>1
  <2> QED BY <1>3, <2>2, <2>3
<1>10. \A i \in 0..n : Len(f[i]) <= Len(f[n]) /\ \A j \in 1..Len(f[i]) : f[n][j] = f[i][j]
  <2>1. ASSUME NEW i \in 1..n PROVE StartsWith(f[i], f[i - 1])
    <3>1. CASE i = 1
      <4> DEFINE y == Len(f[1])
      <4>1. y \in Nat /\ Len(f[0]) = 0
        <5>1. 1 \in 0..n
          BY <1>1
        <5> QED BY <1>7, <1>9, <5>1
      <4> HIDE DEF y
      <4>2. 0 <= y
        BY <4>1
      <4> QED BY <3>1, <4>1, <4>2 DEF StartsWith, y
    <3>2. CASE i # 1
      <4> DEFINE x == Len(f[i - 1])
                 y == Len(UnitText(request[i]))
      <4>1. Len(f[i]) = x + 1 + y /\ \A j \in 1..x : f[i][j] = f[i - 1][j]
        BY <1>8, <3>2 DEF IsCat3
      <4>2. x \in Nat /\ y \in Nat
        <5>1. i - 1 \in 0..n
          BY <1>1
        <5>2. UnitText(request[i]) \in Seq(S)
          BY <1>2
        <5> QED BY <1>7, <5>1, <5>2
      <4> HIDE DEF x, y
      <4>3. x <= Len(f[i])
        BY <4>1, <4>2
      <4> QED BY <4>1, <4>3 DEF StartsWith, x
    <3> QED BY <3>1, <3>2
  <2>2. \A i \in 0..n : StartsWith(f[n], f[i])
    BY <1>1, <1>3, <2>1, GoesOn
  <2> QED BY <2>2 DEF StartsWith
<1>11. /\ Len(whole) = Len(f[n]) + 1 /\ whole[Len(f[n]) + 1] = "NL"
       /\ \A j \in 1..Len(f[n]) : whole[j] = f[n][j]
  <2>1. f[n] \in Seq(S)
    BY <1>1, <1>7
  <2> QED BY <1>4, <2>1
<1> DEFINE L == Len(f[n])
           M == Len(f[k])
           m == Len(w)
<1>12. L \in Nat /\ M \in Nat /\ m \in Nat /\ M <= L /\ Len(d) = L + 1
  <2>1. w \in Seq(S)
    BY <1>1, <1>2 DEF w, u
  <2>2. n \in 0..n /\ k \in 0..n
    BY <1>1
  <2> QED BY <1>5, <1>7, <1>10, <1>11, <2>1, <2>2
<1>13. s \in Nat /\ s > 0 /\ M + 1 = s + m /\ \A i \in 1..m : f[k][s + i - 1] = w[i]
  <2>1. CASE k = 1
    <3>1. s = 1 /\ M = m /\ f[k] = w
      BY <1>6, <1>9, <2>1 DEF w, u
    <3>2. \A i \in 1..m : 1 + i - 1 = i
      BY <1>12
    <3> HIDE DEF M, m
    <3>3. \A i \in 1..m : f[k][s + i - 1] = w[i]
      BY <3>1, <3>2
    <3> QED BY <1>12, <3>1, <3>3
  <2>2. CASE k # 1
    <3> DEFINE x == Len(f[k - 1])
    <3>1. x \in Nat /\ s = x + 2
      <4>1. k - 1 \in 0..n
        BY <1>1
      <4> QED BY <1>6, <1>7, <2>2, <4>1
    <3>2. M = x + 1 + m /\ \A i \in 1..m : f[k][x + 1 + i] = w[i]
      BY <1>1, <1>8, <2>2 DEF IsCat3, w, u
    <3> HIDE DEF x, M, m
    <3>3. \A i \in 1..m : s + i - 1 = x + 1 + i
      BY <1>12, <3>1
    <3> QED BY <1>12, <3>1, <3>2, <3>3
  <2> QED BY <2>1, <2>2
<1>14. e = s + m /\ e = M + 1
  BY <1>6, <1>13
<1>15. \A j \in s..L : d[j] = f[n][j]
  <2>1. \A j \in s..L : j \in s..Len(d) /\ j \in 1..L
    <3> HIDE DEF L, M, m
    <3> QED BY <1>12, <1>13
  <2> QED BY <1>5, <1>11, <2>1
<1>16. \A i \in 1..m : d[s + i - 1] = w[i]
  <2> SUFFICES ASSUME NEW i \in 1..m PROVE d[s + i - 1] = w[i]
    OBVIOUS
  <2>1. s + i - 1 \in s..L /\ s + i - 1 \in 1..M
    <3> HIDE DEF L, M, m
    <3> QED BY <1>12, <1>13
  <2>2. k \in 0..n
    BY <1>1
  <2>3. f[n][s + i - 1] = f[k][s + i - 1]
    BY <1>10, <2>1, <2>2
  <2> QED BY <1>13, <1>15, <2>1, <2>3
<1>17. d[e] = IF k = n THEN "NL" ELSE "SEMI"
  <2>1. CASE k = n
    <3>1. e = L + 1 /\ e \in s..Len(d)
      <4>1. M = L
        BY <2>1
      <4> HIDE DEF L, M, m
      <4> QED BY <1>12, <1>13, <1>14, <4>1
    <3>2. whole[e] = "NL"
      BY <1>11, <3>1
    <3> QED BY <1>5, <2>1, <3>1, <3>2
  <2>2. CASE k # n
    <3>1. k + 1 \in 1..n /\ k + 1 # 1 /\ k + 1 - 1 = k /\ k + 1 \in 0..n
      BY <1>1, <2>2
    <3> DEFINE y == Len(UnitText(request[k + 1]))
               K == Len(f[k + 1])
    <3>2. f[k + 1][M + 1] = "SEMI" /\ K = M + 1 + y
      <4>1. IsCat3(f[k + 1], f[k + 1 - 1], "SEMI", UnitText(request[k + 1]))
        BY <1>8, <3>1
      <4> QED BY <3>1, <4>1 DEF IsCat3
    <3>3. y \in Nat /\ K <= L /\ f[n][M + 1] = f[k + 1][M + 1]
      <4>1. UnitText(request[k + 1]) \in Seq(S)
        BY <1>2, <3>1
      <4>2. y \in Nat
        BY <4>1
      <4>3. K <= L /\ \A j \in 1..K : f[n][j] = f[k + 1][j]
        BY <1>10, <3>1
      <4>4. M + 1 \in 1..K
        <5> HIDE DEF y, K, M, L, m
        <5> QED BY <1>12, <3>2, <4>2
      <4> HIDE DEF y, K, M, L, m
      <4> QED BY <4>2, <4>3, <4>4
    <3>4. M + 1 \in s..L
      <4> HIDE DEF y, K, M, L, m
      <4> QED BY <1>12, <1>13, <3>2, <3>3
    <3> QED BY <1>14, <1>15, <2>2, <3>2, <3>3, <3>4
  <2> QED BY <2>1, <2>2
<1> HIDE DEF L, M, m
<1>18. e \in Nat /\ s <= e /\ e <= Len(d) /\ s + m <= Len(d)
  BY <1>12, <1>13, <1>14
<1>19. k = n => e = Len(d)
  BY <1>12, <1>14 DEF M, L
<1>20. UnitIn(d, s, s + m, u.root, Spelt(u), u.query, u.args)
  BY <1>1, <1>13, <1>16, <1>18, UnitLies DEF w, m
<1> QED BY <1>13, <1>14, <1>17, <1>18, <1>19, <1>20 DEF s, e, u, n

-----------------------------------------------------------------------------
(* The path of the previous header, written over the line.                 *)

\* The words of the previous header without the last, and those of the header.
Joins(xs, vs, ws) ==
    /\ Len(xs) = Len(vs) - 1 + Len(ws)
    /\ \A k \in 1..(Len(vs) - 1) : xs[k] = vs[k]
    /\ \A k \in 1..Len(ws) : xs[Len(vs) - 1 + k] = ws[k]

\* The header h of a line, and where it is.
HeaderAt(d, h, root, words, query) ==
    h.len = HeaderLen(root, words, query) /\ HeaderIn(d, h.ptr, root, words, query)

\* A header that continues the path of the one before it, and the two as one.
Follows(d, before, root, vs, asks, cur, ws, query) ==
    /\ HeaderAt(d, before, root, vs, asks) /\ vs[1] \notin Commons /\ vs[Len(vs)] # ":"
    /\ HeaderAt(d, cur, FALSE, ws, query) /\ ws[1] \notin Commons \cup {":"}
Ordered(before, cur) ==
    /\ before.ptr \in Nat \ {0} /\ before.len \in Nat /\ cur.ptr \in Nat \ {0} /\ cur.len \in Nat
    /\ before.ptr + before.len <= cur.ptr
Composition(d, cur, c, root, xs, query) ==
    /\ \A j \in cur.ptr..Len(d) : c.data[j] = d[j]
    /\ HeaderAt(c.data, c.header, root, xs, query)

\* The path of the previous header is written before a header, and the rest of
\* the line stays as it was.
LEMMA ComposedHeader ==
    ASSUME NEW S, NEW d \in Seq(S), NEW before, NEW cur, Ordered(before, cur),
           NEW root \in BOOLEAN, NEW vs \in Seq(S), vs # << >>, NEW asks \in BOOLEAN,
           NEW ws \in Seq(S), ws # << >>, NEW query \in BOOLEAN, NEW xs \in Seq(S), Joins(xs, vs, ws),
           Follows(d, before, root, vs, asks, cur, ws, query)
    PROVE  LET c == composeCompoundCommand(d, before, cur)
           IN  Composition(d, cur, c, root, xs, query)
<1> DEFINE n == Len(vs)
           m == n - 1
           l == Len(ws)
           r == Bit(root)
           a == Bit(asks)
           q == Bit(query)
           b == before.ptr
           p == cur.ptr
           colons == {0} \cup {k \in 1..before.len : d[before.ptr + k - 1] = ":"}
           i == Max(colons)
           to == p - i
           new == [j \in DOMAIN d |-> IF j \in to..(p - 1) THEN d[b + j - to] ELSE d[j]]
           c == composeCompoundCommand(d, before, cur)
<1>1. /\ n \in Nat /\ n > 0 /\ l \in Nat /\ l > 0 /\ Len(d) \in Nat /\ DOMAIN d = 1..Len(d)
      /\ b \in Nat /\ b > 0 /\ before.len \in Nat /\ p \in Nat /\ p > 0 /\ cur.len \in Nat
      /\ b + before.len <= p
  BY DEF Ordered
<1>2. /\ r \in 0..1 /\ q \in 0..1 /\ a \in 0..1 /\ (root => r = 1) /\ (~root => r = 0)
      /\ (query => q = 1) /\ (asks => a = 1) /\ Bit(FALSE) = 0
  BY DEF Bit
<1>3. /\ before.len = r + 2 * n - 1 + a /\ b + (r + 2 * n - 1 + a) <= Len(d) + 1
      /\ root => d[b] = ":"
      /\ \A k \in 1..n : d[b + r + 2 * k - 2] = vs[k]
      /\ \A k \in 1..(n - 1) : d[b + r + 2 * k - 1] = ":"
      /\ asks => d[b + r + 2 * n - 1] = "?"
  BY DEF Follows, HeaderAt, HeaderIn, HeaderLen
<1>4. /\ cur.len = 2 * l - 1 + q /\ p + (2 * l - 1 + q) <= Len(d) + 1
      /\ \A k \in 1..l : d[p + 2 * k - 2] = ws[k]
      /\ \A k \in 1..(l - 1) : d[p + 2 * k - 1] = ":"
      /\ query => d[p + 2 * l - 1] = "?"
  <2>1. /\ cur.len = 0 + 2 * l - 1 + q /\ p + (0 + 2 * l - 1 + q) <= Len(d) + 1
        /\ \A k \in 1..l : d[p + 0 + 2 * k - 2] = ws[k]
        /\ \A k \in 1..(l - 1) : d[p + 0 + 2 * k - 1] = ":"
        /\ query => d[p + 0 + 2 * l - 1] = "?"
    BY <1>2 DEF Follows, HeaderAt, HeaderIn, HeaderLen
  <2>2. 0 + 2 * l = 2 * l /\ p + 0 = p
    BY <1>1
  <2> QED BY <2>1, <2>2
<1>5. /\ Len(xs) = m + l
      /\ \A k \in 1..m : xs[k] = vs[k]
      /\ \A k \in 1..l : xs[m + k] = ws[k]
  BY DEF Joins
<1>6. vs[1] \notin Commons /\ vs[n] # ":" /\ ws[1] \notin Commons \cup {":"}
  BY DEF Follows
<1> HIDE DEF n, m, l, r, a, q, b, p, c
<1>7. m = n - 1 /\ m \in Nat
  BY <1>1 DEF m
<1>8. i = r + 2 * m
  <2>1. r + 2 * m \in Nat /\ r + 2 * m <= before.len
    BY <1>1, <1>2, <1>3, <1>7
  <2>2. r + 2 * m \in colons
    <3>1. CASE m = 0 /\ ~root
      <4>1. r + 2 * m = 0
        BY <1>2, <3>1
      <4> QED BY <4>1
    <3>2. CASE m = 0 /\ root
      <4>1. r + 2 * m = 1 /\ b + 1 - 1 = b
        BY <1>1, <1>2, <3>2
      <4>2. 1 \in 1..before.len
        BY <1>1, <2>1, <4>1
      <4> QED BY <1>3, <3>2, <4>1, <4>2 DEF b
    <3>3. CASE m # 0
      <4>1. m \in 1..(n - 1) /\ b + (r + 2 * m) - 1 = b + r + 2 * m - 1 /\ r + 2 * m \in 1..before.len
        BY <1>1, <1>2, <1>7, <2>1, <3>3
      <4>2. d[b + (r + 2 * m) - 1] = ":"
        BY <1>3, <4>1
      <4> QED BY <4>1, <4>2 DEF b
    <3> QED BY <3>1, <3>2, <3>3
  <2>3. ASSUME NEW y \in colons PROVE y <= r + 2 * m
    <3>1. CASE y = 0
      BY <1>2, <1>7, <3>1
    <3>2. CASE y \in 1..before.len /\ d[b + y - 1] = ":"
      <4>1. y \in Nat
        BY <3>2
      <4>2. y # r + 2 * m + 1
        <5>1. SUFFICES ASSUME y = r + 2 * m + 1 PROVE FALSE
          OBVIOUS
        <5>2. b + y - 1 = b + r + 2 * n - 2 /\ n \in 1..n
          BY <1>1, <1>2, <1>7, <5>1
        <5> QED BY <1>3, <1>6, <3>2, <5>2
      <4>3. y # r + 2 * m + 2
        <5>1. SUFFICES ASSUME y = r + 2 * m + 2 PROVE FALSE
          OBVIOUS
        <5>2. CASE asks
          <6>1. b + y - 1 = b + r + 2 * n - 1
            BY <1>1, <1>2, <1>7, <5>1
          <6> QED BY <1>3, <3>2, <5>2, <6>1
        <5>3. CASE ~asks
          <6>1. a = 0
            BY <5>3 DEF a, Bit
          <6> QED BY <1>1, <1>2, <1>3, <1>7, <3>2, <5>1, <6>1
        <5> QED BY <5>2, <5>3
      <4> QED BY <1>1, <1>2, <1>3, <1>7, <3>2, <4>1, <4>2, <4>3
    <3> QED BY <3>1, <3>2 DEF b
  <2>4. colons \subseteq Nat
    BY <1>1
  <2> HIDE DEF colons
  <2> DEFINE x == CHOOSE x \in colons : \A y \in colons : x >= y
  <2>5. x \in colons /\ \A y \in colons : x >= y
    BY <2>1, <2>2, <2>3, <2>4
  <2> HIDE DEF x
  <2>6. x = r + 2 * m
    BY <2>1, <2>2, <2>3, <2>4, <2>5
  <2> QED BY <2>6 DEF Max, x
<1> HIDE DEF i
<1>9. to \in Nat /\ to > 0 /\ to + r + 2 * m = p /\ to >= b
  BY <1>1, <1>2, <1>3, <1>7, <1>8
<1>10. c = [data |-> new, header |-> [ptr |-> to, len |-> cur.len + i]]
  <2>1. d[p] = ws[1]
    <3>1. 1 \in 1..l /\ p + 2 * 1 - 2 = p
      BY <1>1
    <3> QED BY <1>4, <3>1
  <2>2. d[b] \notin Commons
    <3>1. CASE root
      BY <1>3, <3>1 DEF Commons
    <3>2. CASE ~root
      <4>1. 1 \in 1..n /\ b + r + 2 * 1 - 2 = b
        BY <1>1, <1>2, <3>2
      <4> QED BY <1>3, <1>6, <4>1
    <3> QED BY <3>1, <3>2
  <2>3. before.len # 0
    BY <1>1, <1>2, <1>3
  <2>4. ~(before.len = 0 \/ d[cur.ptr] \in Commons \cup {":"} \/ d[before.ptr] \in Commons)
    BY <1>6, <2>1, <2>2, <2>3 DEF b, p
  <2>5. c = IF before.len = 0 \/ d[cur.ptr] \in Commons \cup {":"} \/ d[before.ptr] \in Commons
            THEN [data |-> d, header |-> cur]
            ELSE [data |-> new, header |-> [ptr |-> to, len |-> cur.len + i]]
    BY DEF c, composeCompoundCommand, i, p, b
  <2> HIDE DEF new
  <2> QED BY <2>4, <2>5, Zenon
<1>11. c.data = new /\ c.header.ptr = to /\ c.header.len = cur.len + i
  <2> HIDE DEF new, to
  <2> QED BY <1>10
<1>12. ASSUME NEW j \in 1..Len(d), j >= p PROVE new[j] = d[j]
  <2>1. j \notin to..(p - 1)
    BY <1>1, <1>9, <1>12
  <2> HIDE DEF to
  <2> QED BY <1>1, <2>1
<1>13. ASSUME NEW x \in 0..(r + 2 * m - 1) PROVE new[to + x] = d[b + x]
  <2>1. to + x \in 1..Len(d) /\ to + x \in to..(p - 1) /\ b + (to + x) - to = b + x
    <3> HIDE DEF to
    <3>1. p <= Len(d) /\ x \in Nat /\ x < r + 2 * m
      BY <1>1, <1>2, <1>4, <1>7
    <3> QED BY <1>1, <1>2, <1>7, <1>9, <3>1
  <2> HIDE DEF to
  <2>2. new[to + x] = d[b + (to + x) - to]
    BY <1>1, <2>1
  <2> QED BY <2>1, <2>2
<1>14. DOMAIN new = 1..Len(d)
  BY <1>1
<1> HIDE DEF new, to
<1>15. ASSUME NEW j \in p..Len(d) PROVE new[j] = d[j]
  <2>1. j \in 1..Len(d) /\ j >= p
    BY <1>1
  <2> QED BY <1>12, <2>1
<1>16. Len(new) = Len(d)
  BY <1>1, <1>14
<1>17. HeaderIn(new, to, root, xs, query)
  <2> DEFINE N == Len(xs)
  <2>0. N = m + l
    BY <1>5
  <2>1. to + (r + 2 * N - 1 + q) <= Len(new) + 1
    BY <1>1, <1>2, <1>4, <1>7, <1>9, <1>16, <2>0
  <2>2. ASSUME root PROVE new[to] = ":"
    <3>1. CASE m = 0
      <4>1. 0 \in 0..(r + 2 * m - 1) /\ to + 0 = to /\ b + 0 = b
        BY <1>1, <1>2, <1>9, <2>2, <3>1
      <4> QED BY <1>3, <1>13, <2>2, <4>1
    <3>2. CASE m # 0
      <4>1. 0 \in 0..(r + 2 * m - 1) /\ to + 0 = to /\ b + 0 = b
        BY <1>1, <1>2, <1>7, <1>9, <3>2
      <4> QED BY <1>3, <1>13, <2>2, <4>1
    <3> QED BY <3>1, <3>2
  <2>3. ASSUME NEW k \in 1..N PROVE new[to + r + 2 * k - 2] = xs[k]
    <3>1. CASE k <= m
      <4>1. k \in 1..m /\ k \in 1..n /\ r + 2 * k - 2 \in 0..(r + 2 * m - 1)
        BY <1>1, <1>2, <1>7, <2>0, <3>1
      <4>2. to + (r + 2 * k - 2) = to + r + 2 * k - 2 /\ b + (r + 2 * k - 2) = b + r + 2 * k - 2
        BY <1>1, <1>2, <1>9, <4>1
      <4>3. new[to + (r + 2 * k - 2)] = d[b + (r + 2 * k - 2)]
        BY <1>13, <4>1
      <4>4. d[b + r + 2 * k - 2] = vs[k]
        BY <1>3, <4>1
      <4>5. xs[k] = vs[k]
        BY <1>5, <4>1
      <4> QED BY <4>2, <4>3, <4>4, <4>5
    <3>2. CASE k > m
      <4> DEFINE y == k - m
      <4>1. y \in 1..l /\ m + y = k /\ to + r + 2 * k - 2 = p + 2 * y - 2 /\ p + 2 * y - 2 \in p..Len(d)
        BY <1>1, <1>2, <1>4, <1>7, <1>9, <2>0, <3>2
      <4> HIDE DEF y
      <4>2. d[p + 2 * y - 2] = ws[y] /\ xs[m + y] = ws[y]
        BY <1>4, <1>5, <4>1
      <4> QED BY <1>15, <4>1, <4>2
    <3> QED BY <1>7, <2>0, <3>1, <3>2
  <2>4. ASSUME NEW k \in 1..(N - 1) PROVE new[to + r + 2 * k - 1] = ":"
    <3>1. CASE k <= m
      <4>1. k \in 1..(n - 1) /\ r + 2 * k - 1 \in 0..(r + 2 * m - 1)
        BY <1>1, <1>2, <1>7, <2>0, <3>1
      <4>2. to + (r + 2 * k - 1) = to + r + 2 * k - 1 /\ b + (r + 2 * k - 1) = b + r + 2 * k - 1
        BY <1>1, <1>2, <1>9, <4>1
      <4> QED BY <1>3, <1>13, <4>1, <4>2
    <3>2. CASE k > m
      <4> DEFINE y == k - m
      <4>0. k \in Nat /\ y \in 1..(l - 1) /\ k = m + y
        BY <1>1, <1>7, <2>0, <3>2
      <4>1. y \in 1..(l - 1) /\ to + r + 2 * k - 1 = p + 2 * y - 1 /\ p + 2 * y - 1 \in p..Len(d)
        <5> HIDE DEF y
        <5>1. p + (2 * l - 1) <= Len(d) + 1
          BY <1>1, <1>2, <1>4
        <5>2. to + r + 2 * k = p + 2 * y
          BY <1>1, <1>2, <1>7, <1>9, <4>0
        <5> QED BY <1>1, <1>2, <1>7, <1>9, <4>0, <5>1, <5>2
      <4> HIDE DEF y
      <4>2. d[p + 2 * y - 1] = ":"
        BY <1>4, <4>1
      <4> QED BY <1>15, <4>1, <4>2
    <3> QED BY <1>7, <2>0, <3>1, <3>2
  <2>5. ASSUME query PROVE new[to + r + 2 * N - 1] = "?"
    <3>1. to + r + 2 * N - 1 = p + 2 * l - 1 /\ p + 2 * l - 1 \in p..Len(d)
      BY <1>1, <1>2, <1>4, <1>7, <1>9, <2>0, <2>5
    <3> QED BY <1>4, <1>15, <2>5, <3>1
  <2> QED BY <2>1, <2>2, <2>3, <2>4, <2>5 DEF HeaderIn, HeaderLen, r, q
<1>18. cur.len + i = HeaderLen(root, xs, query)
  <2>1. cur.len + i = r + 2 * (m + l) - 1 + q
    BY <1>1, <1>2, <1>4, <1>7, <1>8
  <2> QED BY <1>5, <2>1 DEF HeaderLen, r, q
<1>19. HeaderAt(c.data, c.header, root, xs, query)
  BY <1>11, <1>17, <1>18 DEF HeaderAt
<1> QED BY <1>11, <1>15, <1>19 DEF c, p, Composition

-----------------------------------------------------------------------------
(* The headers that the pattern of a command matches.                      *)

\* The loop of matchCommand ends: what the rest of a pattern matches depends only
\* on what comes after it.
LEMMA SkipsForward ==
    ASSUME NEW T, NEW pattern \in Seq(T), NEW p \in Nat \ {0}, NEW seps, seps \subseteq Separators,
           NEW s \in Skips(pattern, p, seps)
    PROVE  Len(s) \in Nat /\ Len(s) > 0 /\ p + Len(s) \in 1..(Len(pattern) + 1)
<1>1. s \in Separators /\ \A j \in DOMAIN s : At(pattern, p + j - 1) = s[j]
  BY DEF Skips
<1>2. Len(pattern) \in Nat /\ DOMAIN pattern = 1..Len(pattern)
  OBVIOUS
<1>3. \A i \in Nat : At(pattern, i) # "EOS" => i \in 1..Len(pattern)
  BY <1>2 DEF At
<1>4. CASE s = <<":">>
  <2>1. 1 \in DOMAIN s /\ Len(s) = 1 /\ s[1] = ":"
    BY <1>4
  <2>2. At(pattern, p + 1 - 1) = ":" /\ p + 1 - 1 = p
    BY <1>1, <2>1
  <2>3. p \in 1..Len(pattern)
    BY <1>3, <2>2
  <2> QED BY <1>2, <2>1, <2>3
<1>5. CASE s \in {<<"[", ":">>, <<"]", ":">>}
  <2>1. 2 \in DOMAIN s /\ Len(s) = 2 /\ s[2] = ":"
    BY <1>5
  <2>2. At(pattern, p + 2 - 1) = ":" /\ p + 2 - 1 = p + 1
    BY <1>1, <2>1
  <2>3. p + 1 \in 1..Len(pattern)
    BY <1>3, <2>2
  <2> QED BY <1>2, <2>1, <2>3
<1>6. CASE s = <<"]", "[", ":">>
  <2>1. 3 \in DOMAIN s /\ Len(s) = 3 /\ s[3] = ":"
    BY <1>6
  <2>2. At(pattern, p + 3 - 1) = ":" /\ p + 3 - 1 = p + 2
    BY <1>1, <2>1
  <2>3. p + 2 \in 1..Len(pattern)
    BY <1>3, <2>2
  <2> QED BY <1>2, <2>1, <2>3
<1> QED BY <1>1, <1>4, <1>5, <1>6 DEF Separators

\* Nothing before a position matters for what may be matched from there on.
LEMMA MatchesForward ==
    ASSUME NEW T, NEW pattern \in Seq(T), NEW header, NEW p \in 1..(Len(pattern) + 1), NEW c,
           NEW f, NEW g, \A x \in (p + 1)..(Len(pattern) + 1) : f[x] = g[x]
    PROVE  MatchFrom(pattern, header, f, p, c) <=> MatchFrom(pattern, header, g, p, c)
<1> DEFINE p1 == After(pattern, p)
           c1 == After(header, c)
           same == IF KeywordAt(pattern, p) THEN At(header, c) \in {pattern[p], ShortForm(pattern[p])}
                   ELSE ~KeywordAt(header, c)
           tail == \A k \in p1..Len(pattern) : KeywordAt(pattern, k) => Brackets(pattern, k) > 0
<1>1. p \in Nat \ {0} /\ Len(pattern) \in Nat
  OBVIOUS
<1>2. p1 \in Nat \ {0} /\ p1 >= p
  BY <1>1 DEF After
<1>3. OptionalEnds \subseteq Separators /\ Separators \subseteq Separators
  BY DEF OptionalEnds
<1>4. ASSUME NEW seps, seps \subseteq Separators, NEW s \in Skips(pattern, p1, seps)
      PROVE  f[p1 + Len(s)] = g[p1 + Len(s)]
  <2>1. Len(s) \in Nat /\ Len(s) > 0 /\ p1 + Len(s) \in 1..(Len(pattern) + 1)
    BY <1>2, <1>4, SkipsForward
  <2> HIDE DEF p1
  <2>2. p1 + Len(s) \in (p + 1)..(Len(pattern) + 1)
    BY <1>1, <1>2, <2>1
  <2> QED BY <2>2
<1>5. /\ \A s \in Skips(pattern, p1, OptionalEnds) : f[p1 + Len(s)] = g[p1 + Len(s)]
      /\ \A s \in Skips(pattern, p1, Separators) : f[p1 + Len(s)] = g[p1 + Len(s)]
  BY <1>3, <1>4
<1>6. MatchFrom(pattern, header, f, p, c) <=>
        IF ~same THEN \E s \in Skips(pattern, p1, OptionalEnds) : c \in f[p1 + Len(s)]
        ELSE IF c1 > Len(header) THEN tail
        ELSE header[c1] = ":" /\ \E s \in Skips(pattern, p1, Separators) : c1 + 1 \in f[p1 + Len(s)]
  BY DEF MatchFrom
<1>7. MatchFrom(pattern, header, g, p, c) <=>
        IF ~same THEN \E s \in Skips(pattern, p1, OptionalEnds) : c \in g[p1 + Len(s)]
        ELSE IF c1 > Len(header) THEN tail
        ELSE header[c1] = ":" /\ \E s \in Skips(pattern, p1, Separators) : c1 + 1 \in g[p1 + Len(s)]
  BY DEF MatchFrom
<1> HIDE DEF p1, c1, same, tail
<1> QED BY <1>5, <1>6, <1>7

\* So the function that says where the header may go on exists.
Walk(f, pattern, header) ==
    f = [p \in 1..(Len(pattern) + 1) |-> {c \in 1..(Len(header) + 1) : MatchFrom(pattern, header, f, p, c)}]

\* There is such a function.
LEMMA WalkExists ==
    ASSUME NEW T, NEW pattern \in Seq(T), NEW header \in Seq(T)
    PROVE  \E f : Walk(f, pattern, header)
<1> DEFINE N == Len(pattern)
           X == 1..(Len(header) + 1)
           Is(f, k) == /\ f \in [1..(N + 1) -> SUBSET X]
                       /\ \A p \in k..(N + 1) : f[p] = {c \in X : MatchFrom(pattern, header, f, p, c)}
           P == {k \in 1..(N + 2) : \E f : Is(f, k)}
<1>1. N \in Nat /\ N + 2 \in Nat /\ N + 1 \in Nat /\ 1 \in Nat
  OBVIOUS
<1> HIDE DEF N, X
<1>2. N + 2 \in P
  <2> DEFINE f == [p \in 1..(N + 1) |-> {}]
  <2>1. Is(f, N + 2)
    <3>1. (N + 2)..(N + 1) = {}
      BY <1>1
    <3> QED BY <3>1
  <2>2. N + 2 \in 1..(N + 2)
    BY <1>1
  <2> HIDE DEF f
  <2> QED BY <2>1, <2>2
<1>3. ASSUME NEW k \in 1..(N + 2 - 1), k + 1 \in P PROVE k \in P
  <2>1. PICK g : Is(g, k + 1)
    BY <1>3
  <2> DEFINE s == {c \in X : MatchFrom(pattern, header, g, k, c)}
             f == [g EXCEPT ![k] = s]
  <2>2. k \in 1..(N + 1) /\ k \in 1..(N + 2) /\ s \in SUBSET X
    BY <1>1
  <2>3. f \in [1..(N + 1) -> SUBSET X] /\ f[k] = s /\ \A x \in 1..(N + 1) : x # k => f[x] = g[x]
    <3> HIDE DEF s
    <3> QED BY <2>1, <2>2
  <2>4. ASSUME NEW p \in k..(N + 1) PROVE f[p] = {c \in X : MatchFrom(pattern, header, f, p, c)}
    <3>1. p \in 1..(N + 1) /\ \A x \in (p + 1)..(N + 1) : x \in 1..(N + 1) /\ x # k
      BY <1>1
    <3>2. \A x \in (p + 1)..(N + 1) : f[x] = g[x]
      BY <2>3, <3>1
    <3> HIDE DEF f
    <3>3. \A c \in X : MatchFrom(pattern, header, f, p, c) <=> MatchFrom(pattern, header, g, p, c)
      BY <3>1, <3>2, MatchesForward DEF N
    <3>4. CASE p = k
      BY <2>3, <3>3, <3>4
    <3>5. CASE p # k
      <4>1. p \in (k + 1)..(N + 1)
        BY <1>1, <3>5
      <4>2. g[p] = {c \in X : MatchFrom(pattern, header, g, p, c)}
        BY <2>1, <4>1
      <4>3. f[p] = g[p]
        BY <2>3, <3>1, <3>5
      <4> QED BY <3>3, <4>2, <4>3
    <3> QED BY <3>4, <3>5
  <2> HIDE DEF f, s
  <2>5. Is(f, k)
    BY <2>3, <2>4
  <2> QED BY <2>2, <2>5
<1> HIDE DEF P
<1>4. 1 \in P
  <2> DEFINE n == N + 2
  <2>3. n \in Nat /\ n \in P /\ \A k \in 1..(n - 1) : k + 1 \in P => k \in P
    BY <1>1, <1>2, <1>3
  <2> HIDE DEF n
  <2>1. \A k \in 1..n : k \in P
    BY <1>1, <2>3, Descend
  <2>2. 1 \in 1..n
    BY <1>1 DEF n
  <2> QED BY <2>1, <2>2
<1>5. PICK f : Is(f, 1)
  BY <1>4 DEF P
<1>6. Walk(f, pattern, header)
  BY <1>5 DEF Walk, N, X
<1> QED BY <1>6

\* What matchCommand finds is what that function says of the start.
LEMMA MatchIsWalk ==
    ASSUME NEW T, NEW pattern \in Seq(T), NEW header \in Seq(T)
    PROVE  \E f : /\ Walk(f, pattern, header)
                  /\ LET first == IF Len(header) >= 2 /\ header[1] = ":" THEN 2 ELSE 1
                     IN  HeaderMatches(pattern, header) <=> ~(first = 2 /\ header[2] \in Commons) /\ first \in f[1]
<1> DEFINE f == CHOOSE g : Walk(g, pattern, header)
<1>1. Walk(f, pattern, header)
  BY WalkExists, Zenon
<1>2. f = CHOOSE g : g = [p \in 1..(Len(pattern) + 1) |->
                            {c \in 1..(Len(header) + 1) : MatchFrom(pattern, header, g, p, c)}]
  BY DEF Walk
<1> HIDE DEF f
<1> DEFINE first == IF Len(header) >= 2 /\ header[1] = ":" THEN 2 ELSE 1
<1>3. HeaderMatches(pattern, header) <=> ~(first = 2 /\ header[2] \in Commons) /\ first \in f[1]
  BY <1>2 DEF HeaderMatches
<1> QED BY <1>1, <1>3

\* What separates two keywords, by the cells it begins with.
LEMMA SkipsThere ==
    ASSUME NEW pattern, NEW p \in Nat
    PROVE  /\ Skips(pattern, p, Separators) =
                {s \in Separators :
                   \/ s = <<":">> /\ At(pattern, p) = ":"
                   \/ s = <<"[", ":">> /\ At(pattern, p) = "[" /\ At(pattern, p + 1) = ":"
                   \/ s = <<"]", ":">> /\ At(pattern, p) = "]" /\ At(pattern, p + 1) = ":"
                   \/ s = <<"]", "[", ":">> /\ At(pattern, p) = "]" /\ At(pattern, p + 1) = "[" /\ At(pattern, p + 2) = ":"}
           /\ Skips(pattern, p, OptionalEnds) = Skips(pattern, p, Separators) \cap OptionalEnds
<1> DEFINE There(s) == \A j \in DOMAIN s : At(pattern, p + j - 1) = s[j]
           x == At(pattern, p)
           y == At(pattern, p + 1)
           z == At(pattern, p + 2)
<1>1. At(pattern, p + 1 - 1) = x /\ At(pattern, p + 2 - 1) = y /\ At(pattern, p + 3 - 1) = z
  <2>1. p + 1 - 1 = p /\ p + 2 - 1 = p + 1 /\ p + 3 - 1 = p + 2
    OBVIOUS
  <2> QED BY <2>1
<1>2. There(<<":">>) <=> x = ":"
  <2>1. DOMAIN <<":">> = 1..1
    OBVIOUS
  <2>2. There(<<":">>) <=> At(pattern, p + 1 - 1) = ":"
    BY <2>1
  <2> QED BY <1>1, <2>2
<1>3. There(<<"[", ":">>) <=> x = "[" /\ y = ":"
  <2>1. DOMAIN <<"[", ":">> = {1, 2}
    OBVIOUS
  <2>2. There(<<"[", ":">>) <=> At(pattern, p + 1 - 1) = "[" /\ At(pattern, p + 2 - 1) = ":"
    BY <2>1
  <2> QED BY <1>1, <2>2
<1>4. There(<<"]", ":">>) <=> x = "]" /\ y = ":"
  <2>1. DOMAIN <<"]", ":">> = {1, 2}
    OBVIOUS
  <2>2. There(<<"]", ":">>) <=> At(pattern, p + 1 - 1) = "]" /\ At(pattern, p + 2 - 1) = ":"
    BY <2>1
  <2> QED BY <1>1, <2>2
<1>5. There(<<"]", "[", ":">>) <=> x = "]" /\ y = "[" /\ z = ":"
  <2>1. DOMAIN <<"]", "[", ":">> = {1, 2, 3}
    OBVIOUS
  <2>2. There(<<"]", "[", ":">>) <=> At(pattern, p + 1 - 1) = "]" /\ At(pattern, p + 2 - 1) = "[" /\ At(pattern, p + 3 - 1) = ":"
    BY <2>1
  <2> QED BY <1>1, <2>2
<1>6. Skips(pattern, p, Separators) = {s \in Separators : There(s)}
  BY DEF Skips
<1>7. Skips(pattern, p, OptionalEnds) = {s \in OptionalEnds : There(s)} /\ OptionalEnds \subseteq Separators
  BY DEF Skips, OptionalEnds
<1> DEFINE Begins(s) == \/ s = <<":">> /\ x = ":"
                        \/ s = <<"[", ":">> /\ x = "[" /\ y = ":"
                        \/ s = <<"]", ":">> /\ x = "]" /\ y = ":"
                        \/ s = <<"]", "[", ":">> /\ x = "]" /\ y = "[" /\ z = ":"
<1> HIDE DEF There, x, y, z
<1>8. \A s \in Separators : There(s) <=> Begins(s)
  <2> TAKE s \in Separators
  <2>1. s = <<":">> \/ s = <<"[", ":">> \/ s = <<"]", ":">> \/ s = <<"]", "[", ":">>
    BY DEF Separators
  <2>2. <<":">> # <<"[", ":">> /\ <<":">> # <<"]", ":">> /\ <<":">> # <<"]", "[", ":">>
    OBVIOUS
  <2>3. <<"[", ":">> # <<"]", ":">> /\ <<"[", ":">> # <<"]", "[", ":">> /\ <<"]", ":">> # <<"]", "[", ":">>
    OBVIOUS
  <2>4. CASE s = <<":">>
    BY <1>2, <2>2, <2>4, Zenon
  <2>5. CASE s = <<"[", ":">>
    BY <1>3, <2>2, <2>3, <2>5, Zenon
  <2>6. CASE s = <<"]", ":">>
    BY <1>4, <2>2, <2>3, <2>6, Zenon
  <2>7. CASE s = <<"]", "[", ":">>
    BY <1>5, <2>2, <2>3, <2>7, Zenon
  <2> QED BY <2>1, <2>4, <2>5, <2>6, <2>7
<1>9. Skips(pattern, p, Separators) = {s \in Separators : Begins(s)}
  <2> HIDE DEF Begins
  <2> QED BY <1>6, <1>8
<1>10. Skips(pattern, p, OptionalEnds) = Skips(pattern, p, Separators) \cap OptionalEnds
  BY <1>6, <1>7
<1> QED BY <1>9, <1>10 DEF x, y, z

\* The loop has at most one way on.
LEMMA SkipsOne ==
    ASSUME NEW pattern, NEW p \in Nat
    PROVE  /\ At(pattern, p) = ":" => Skips(pattern, p, Separators) = {<<":">>}
           /\ At(pattern, p) = "[" /\ At(pattern, p + 1) = ":" => Skips(pattern, p, Separators) = {<<"[", ":">>}
           /\ At(pattern, p) = "EOS" => Skips(pattern, p, Separators) = {}
           /\ At(pattern, p + 1) = "EOS" /\ At(pattern, p) # ":" => Skips(pattern, p, Separators) = {}
           /\ At(pattern, p) # "]" \/ At(pattern, p + 1) = "EOS" => Skips(pattern, p, OptionalEnds) = {}
<1> DEFINE x == At(pattern, p)
           y == At(pattern, p + 1)
           z == At(pattern, p + 2)
           Begins(s) == \/ s = <<":">> /\ x = ":"
                        \/ s = <<"[", ":">> /\ x = "[" /\ y = ":"
                        \/ s = <<"]", ":">> /\ x = "]" /\ y = ":"
                        \/ s = <<"]", "[", ":">> /\ x = "]" /\ y = "[" /\ z = ":"
           ss == Skips(pattern, p, Separators)
<1>1. ss = {s \in Separators : Begins(s)} /\ Skips(pattern, p, OptionalEnds) = ss \cap OptionalEnds
  BY SkipsThere
<1>2. <<":">> \in Separators /\ <<"[", ":">> \in Separators
  BY DEF Separators
<1>3. \A s \in OptionalEnds : s # <<":">> /\ s # <<"[", ":">>
  <2>1. \A s \in OptionalEnds : s[1] = "]"
    BY DEF OptionalEnds
  <2>2. <<":">>[1] = ":" /\ <<"[", ":">>[1] = "["
    OBVIOUS
  <2>3. "]" # ":" /\ "]" # "["
    OBVIOUS
  <2> QED BY <2>1, <2>2, <2>3
<1> HIDE DEF x, y, z, ss
<1>4. x = ":" => ss = {<<":">>}
  <2>1. ":" # "[" /\ ":" # "]"
    OBVIOUS
  <2>2. SUFFICES ASSUME x = ":" PROVE ss = {<<":">>}
    OBVIOUS
  <2>3. \A s \in Separators : Begins(s) <=> s = <<":">>
    BY <2>1, <2>2, Zenon
  <2> HIDE DEF Begins
  <2> QED BY <1>1, <1>2, <2>3
<1>5. x = "[" /\ y = ":" => ss = {<<"[", ":">>}
  <2>1. "[" # ":" /\ "[" # "]"
    OBVIOUS
  <2>2. SUFFICES ASSUME x = "[" /\ y = ":" PROVE ss = {<<"[", ":">>}
    OBVIOUS
  <2>3. \A s \in Separators : Begins(s) <=> s = <<"[", ":">>
    BY <2>1, <2>2, Zenon
  <2> HIDE DEF Begins
  <2> QED BY <1>1, <1>2, <2>3
<1>6. x = "EOS" \/ (y = "EOS" /\ x # ":") => ss = {}
  <2>1. "EOS" # ":" /\ "EOS" # "[" /\ "EOS" # "]"
    OBVIOUS
  <2>2. SUFFICES ASSUME x = "EOS" \/ (y = "EOS" /\ x # ":") PROVE ss = {}
    OBVIOUS
  <2>3. \A s \in Separators : ~Begins(s)
    BY <2>1, <2>2, Zenon
  <2> HIDE DEF Begins
  <2> QED BY <1>1, <2>3
<1>7. x # "]" \/ y = "EOS" => ss \cap OptionalEnds = {}
  <2>1. "EOS" # ":" /\ "EOS" # "["
    OBVIOUS
  <2>2. SUFFICES ASSUME x # "]" \/ y = "EOS" PROVE ss \cap OptionalEnds = {}
    OBVIOUS
  <2>3. \A s \in Separators : Begins(s) => s = <<":">> \/ s = <<"[", ":">>
    BY <2>1, <2>2, Zenon
  <2> HIDE DEF Begins
  <2> QED BY <1>1, <1>3, <2>3
<1> QED BY <1>1, <1>4, <1>5, <1>6, <1>7 DEF x, y, ss

\* The cells of a pattern without its question mark, and where its keywords are.
Body(path) ==
    IF OptionalEnd(path) THEN Colons(Front(path)) \o <<"[", ":", Last(path), "]">> ELSE Colons(path)
Laid(pattern, path, opt) ==
    LET n == Len(path)
    IN  /\ Len(pattern) = IF opt THEN 2 * n + 1 ELSE 2 * n - 1
        /\ \A k \in 1..(n - 1) : pattern[2 * k - 1] = path[k]
        /\ \A k \in 1..(n - 2) : pattern[2 * k] = ":"
        /\ ~opt => pattern[2 * n - 1] = path[n] /\ (n > 1 => pattern[2 * n - 2] = ":")
        /\ opt => /\ pattern[2 * n - 2] = "[" /\ pattern[2 * n - 1] = ":"
                  /\ pattern[2 * n] = path[n] /\ pattern[2 * n + 1] = "]"
Place(n, opt, k) == IF opt /\ k = n THEN 2 * k ELSE 2 * k - 1

\* A pattern is laid out so.
LEMMA BodyLaid ==
    ASSUME NEW T, Marks \cup PatternMarks \subseteq T, NEW path \in Seq(T), path # << >>,
           OptionalEnd(path) => Len(path) >= 2
    PROVE  Body(path) \in Seq(T) /\ Laid(Body(path), path, OptionalEnd(path))
<1> DEFINE n == Len(path)
           opt == OptionalEnd(path)
           pattern == Body(path)
<1>0. Marks \subseteq T
  OBVIOUS
<1>1. n \in Nat /\ n > 0
  OBVIOUS
<1>2. CASE ~opt
  <2>1. pattern = Colons(path)
    BY <1>2 DEF Body
  <2>2. /\ pattern \in Seq(T) /\ Len(pattern) = 2 * n - 1
        /\ \A k \in 1..n : pattern[2 * k - 1] = path[k]
        /\ \A k \in 1..(n - 1) : pattern[2 * k] = ":"
    BY <1>0, <2>1, ColonsCells
  <2> HIDE DEF n, opt, pattern
  <2>3. n \in 1..n /\ (\A k \in 1..(n - 1) : k \in 1..n) /\ (\A k \in 1..(n - 2) : k \in 1..(n - 1))
    BY <1>1
  <2>4. n > 1 => n - 1 \in 1..(n - 1) /\ 2 * (n - 1) = 2 * n - 2
    BY <1>1
  <2>5. pattern[2 * n - 1] = path[n] /\ (n > 1 => pattern[2 * n - 2] = ":")
    BY <2>2, <2>3, <2>4
  <2>6. /\ Len(pattern) = IF opt THEN 2 * n + 1 ELSE 2 * n - 1
        /\ \A k \in 1..(n - 1) : pattern[2 * k - 1] = path[k]
        /\ \A k \in 1..(n - 2) : pattern[2 * k] = ":"
    BY <1>2, <2>2, <2>3
  <2> QED BY <1>2, <2>2, <2>5, <2>6 DEF Laid, n, opt, pattern
<1>3. CASE opt
  <2> DEFINE f == Front(path)
             e == <<"[", ":", Last(path), "]">>
             c == Colons(f)
  <2>1. n >= 2
    BY <1>3
  <2>2. f \in Seq(T) /\ Len(f) = n - 1 /\ \A k \in 1..(n - 1) : f[k] = path[k]
    BY <1>1, <2>1 DEF Front
  <2>3. f # << >>
    BY <2>1, <2>2
  <2> HIDE DEF f
  <2>4. /\ c \in Seq(T) /\ Len(c) = 2 * (n - 1) - 1
        /\ \A k \in 1..(n - 1) : c[2 * k - 1] = f[k]
        /\ \A k \in 1..(n - 1 - 1) : c[2 * k] = ":"
    BY <1>0, <2>2, <2>3, ColonsCells
  <2>5. e \in Seq(T) /\ Len(e) = 4 /\ e[1] = "[" /\ e[2] = ":" /\ e[3] = path[n] /\ e[4] = "]"
    <3>1. "[" \in T /\ ":" \in T /\ "]" \in T
      BY DEF PatternMarks
    <3>2. Last(path) = path[n] /\ path[n] \in T
      BY <1>1 DEF Last
    <3>3. \A x, y, z, w \in T : <<x, y, z, w>> \in Seq(T) /\ Len(<<x, y, z, w>>) = 4
      OBVIOUS
    <3> QED BY <3>1, <3>2, <3>3
  <2>6. pattern = c \o e
    BY <1>3 DEF Body, f
  <2> HIDE DEF c, e, pattern
  <2>7. /\ pattern \in Seq(T) /\ Len(pattern) = Len(c) + Len(e)
        /\ \A i \in 1..Len(c) : pattern[i] = c[i]
        /\ \A i \in 1..Len(e) : pattern[Len(c) + i] = e[i]
    <3>1. c \in Seq(T) /\ e \in Seq(T)
      BY <2>4, <2>5
    <3>2. /\ c \o e \in Seq(T) /\ Len(c \o e) = Len(c) + Len(e)
          /\ \A i \in 1..Len(c) : (c \o e)[i] = c[i]
          /\ \A i \in 1..Len(e) : (c \o e)[Len(c) + i] = e[i]
      BY <3>1, CatAt
    <3> QED BY <2>6, <3>2
  <2> HIDE DEF n, opt
  <2>8. Len(pattern) = 2 * n + 1
    BY <1>1, <2>4, <2>5, <2>7
  <2>9. ASSUME NEW k \in 1..(n - 1) PROVE pattern[2 * k - 1] = path[k]
    <3>1. 2 * k - 1 \in 1..Len(c)
      BY <1>1, <2>4
    <3>2. pattern[2 * k - 1] = c[2 * k - 1]
      BY <2>7, <3>1
    <3> QED BY <2>2, <2>4, <3>2
  <2>10. ASSUME NEW k \in 1..(n - 2) PROVE pattern[2 * k] = ":"
    <3>1. 2 * k \in 1..Len(c) /\ k \in 1..(n - 1 - 1)
      BY <1>1, <2>4
    <3> QED BY <2>4, <2>7, <3>1
  <2>11. /\ pattern[2 * n - 2] = "[" /\ pattern[2 * n - 1] = ":"
         /\ pattern[2 * n] = path[n] /\ pattern[2 * n + 1] = "]"
    <3>1. /\ 1 \in 1..Len(e) /\ 2 \in 1..Len(e) /\ 3 \in 1..Len(e) /\ 4 \in 1..Len(e)
          /\ Len(c) + 1 = 2 * n - 2 /\ Len(c) + 2 = 2 * n - 1 /\ Len(c) + 3 = 2 * n /\ Len(c) + 4 = 2 * n + 1
      BY <1>1, <2>4, <2>5
    <3>2. /\ pattern[Len(c) + 1] = e[1] /\ pattern[Len(c) + 2] = e[2]
          /\ pattern[Len(c) + 3] = e[3] /\ pattern[Len(c) + 4] = e[4]
      BY <2>7, <3>1
    <3> QED BY <2>5, <3>1, <3>2
  <2> QED BY <1>3, <2>7, <2>8, <2>9, <2>10, <2>11 DEF Laid, n, opt, pattern
<1> QED BY <1>2, <1>3

\* The body is what matchCommand walks through.
LEMMA PatternIs ==
    ASSUME NEW T, Marks \cup PatternMarks \subseteq T, NEW cmd, cmd.path \in Seq(T), cmd.path # << >>,
           cmd.query \in BOOLEAN, OptionalEnd(cmd.path) => Len(cmd.path) >= 2
    PROVE  Body(cmd.path) = IF cmd.query THEN Front(Pattern(cmd)) ELSE Pattern(cmd)
<1> DEFINE b == Body(cmd.path)
<1>1. b \in Seq(T)
  BY BodyLaid
<1>2. Pattern(cmd) = b \o QueryMark(cmd.query)
  BY DEF Pattern, Body
<1> HIDE DEF b
<1>3. CASE cmd.query
  <2>1. "?" \in T
    BY DEF Marks
  <2>2. Pattern(cmd) = b \o <<"?">>
    BY <1>2, <1>3 DEF QueryMark
  <2>3. Front(b \o <<"?">>) = b
    <3>1. <<"?">> \in Seq(T) /\ Len(<<"?">>) = 1 /\ Len(b) \in Nat
      BY <1>1, <2>1
    <3>2. /\ b \o <<"?">> \in Seq(T) /\ Len(b \o <<"?">>) = Len(b) + 1
          /\ \A i \in 1..Len(b) : (b \o <<"?">>)[i] = b[i]
      BY <1>1, <3>1, CatAt
    <3> DEFINE s == b \o <<"?">>
    <3> HIDE DEF s
    <3>3. Len(s) - 1 = Len(b)
      BY <3>1, <3>2 DEF s
    <3>4. SubSeq(s, 1, Len(s) - 1) = b
      BY <1>1, <3>1, <3>2, <3>3 DEF s
    <3> QED BY <3>4 DEF s, Front
  <2> QED BY <1>3, <2>2, <2>3 DEF b
<1>4. CASE ~cmd.query
  <2>1. Pattern(cmd) = b \o << >>
    BY <1>2, <1>4 DEF QueryMark
  <2> QED BY <1>1, <1>4, <2>1 DEF b
<1> QED BY <1>3, <1>4

Keywords(path) == \A k \in 1..Len(path) : path[k] \notin PatternMarks \cup {"EOS"}

\* Where the loop finds itself at keyword k of a pattern.
AtKeyword(pattern, path, opt, k) ==
    LET n == Len(path)
        p == Place(n, opt, k)
    IN  /\ p \in 1..Len(pattern) /\ pattern[p] = path[k] /\ KeywordAt(pattern, p)
        /\ Skips(pattern, p + 1, OptionalEnds) = {}
        /\ k = n => Skips(pattern, p + 1, Separators) = {}
        /\ k < n => \E s : Skips(pattern, p + 1, Separators) = {s} /\ p + 1 + Len(s) = Place(n, opt, k + 1)
        /\ (\A j \in (p + 1)..Len(pattern) : KeywordAt(pattern, j) => Brackets(pattern, j) > 0)
             <=> k = n \/ (opt /\ k = n - 1)

\* Every cell of a pattern is a keyword, a colon or one of two brackets.
LEMMA CellOfPattern ==
    ASSUME NEW T, NEW pattern \in Seq(T), NEW path \in Seq(T), path # << >>, NEW opt \in BOOLEAN,
           opt => Len(path) >= 2, Laid(pattern, path, opt)
    PROVE  LET n == Len(path)
           IN  /\ \A k \in 1..n : /\ Place(n, opt, k) \in 1..Len(pattern)
                                  /\ pattern[Place(n, opt, k)] = path[k]
               /\ \A i \in 1..Len(pattern) :
                    \/ \E k \in 1..n : i = Place(n, opt, k)
                    \/ pattern[i] = ":"
                    \/ opt /\ i = 2 * n - 2 /\ pattern[i] = "["
                    \/ opt /\ i = 2 * n + 1 /\ pattern[i] = "]"
<1> DEFINE n == Len(path)
           N == Len(pattern)
<1>1. n \in Nat /\ n > 0 /\ N \in Nat
  OBVIOUS
<1>2. /\ N = IF opt THEN 2 * n + 1 ELSE 2 * n - 1
      /\ \A k \in 1..(n - 1) : pattern[2 * k - 1] = path[k]
      /\ \A k \in 1..(n - 2) : pattern[2 * k] = ":"
      /\ ~opt => pattern[2 * n - 1] = path[n] /\ (n > 1 => pattern[2 * n - 2] = ":")
      /\ opt => /\ pattern[2 * n - 2] = "[" /\ pattern[2 * n - 1] = ":"
                /\ pattern[2 * n] = path[n] /\ pattern[2 * n + 1] = "]"
  BY DEF Laid
<1>3. opt => n >= 2
  OBVIOUS
<1> HIDE DEF n, N
<1>4. ASSUME NEW k \in 1..n PROVE Place(n, opt, k) \in 1..N /\ pattern[Place(n, opt, k)] = path[k]
  <2>1. CASE k # n
    <3>1. Place(n, opt, k) = 2 * k - 1 /\ k \in 1..(n - 1)
      BY <1>1, <2>1 DEF Place
    <3> QED BY <1>1, <1>2, <3>1
  <2>2. CASE k = n /\ opt
    <3>1. Place(n, opt, k) = 2 * n
      BY <2>2 DEF Place
    <3>2. 2 * n \in 1..N
      BY <1>1, <1>2, <2>2
    <3>3. pattern[2 * n] = path[n]
      BY <1>2, <2>2
    <3> QED BY <2>2, <3>1, <3>2, <3>3
  <2>3. CASE k = n /\ ~opt
    <3>1. Place(n, opt, k) = 2 * n - 1
      BY <2>3 DEF Place
    <3> QED BY <1>1, <1>2, <2>3, <3>1
  <2> QED BY <2>1, <2>2, <2>3
<1>5. ASSUME NEW i \in 1..N
      PROVE  \/ \E k \in 1..n : i = Place(n, opt, k)
             \/ pattern[i] = ":"
             \/ opt /\ i = 2 * n - 2 /\ pattern[i] = "["
             \/ opt /\ i = 2 * n + 1 /\ pattern[i] = "]"
  <2>1. \E k \in Nat : i = 2 * k - 1 \/ i = 2 * k
    <3>1. (i + 1) \div 2 \in Nat /\ (i = 2 * ((i + 1) \div 2) - 1 \/ i = 2 * ((i + 1) \div 2))
      BY <1>1
    <3> QED BY <3>1
  <2>2. PICK k \in Nat : i = 2 * k - 1 \/ i = 2 * k
    BY <2>1
  <2>3. k > 0 /\ k <= n + 1 /\ (k = n + 1 => opt)
    BY <1>1, <1>2, <2>2
  <2>4. CASE i = 2 * k - 1 /\ k < n
    <3>1. k \in 1..n /\ Place(n, opt, k) = i
      BY <1>1, <2>3, <2>4 DEF Place
    <3> QED BY <3>1
  <2>5. CASE i = 2 * k - 1 /\ k = n /\ ~opt
    <3>1. k \in 1..n /\ Place(n, opt, k) = i
      BY <1>1, <2>3, <2>5 DEF Place
    <3> QED BY <3>1
  <2>6. CASE i = 2 * k - 1 /\ k = n /\ opt
    BY <1>2, <2>6
  <2>7. CASE i = 2 * k - 1 /\ k = n + 1
    <3>1. i = 2 * n + 1
      BY <1>1, <2>7
    <3> QED BY <1>2, <2>3, <2>7, <3>1
  <2>8. CASE i = 2 * k /\ k < n - 1
    <3>1. k \in 1..(n - 2)
      BY <1>1, <2>3, <2>8
    <3> QED BY <1>2, <2>8, <3>1
  <2>9. CASE i = 2 * k /\ k = n - 1
    <3>1. i = 2 * n - 2 /\ n > 1
      BY <1>1, <2>3, <2>9
    <3> QED BY <1>2, <3>1
  <2>10. CASE i = 2 * k /\ k >= n
    <3>1. opt /\ k = n
      BY <1>1, <1>2, <2>10
    <3>2. k \in 1..n /\ Place(n, opt, k) = i
      BY <1>1, <2>10, <3>1 DEF Place
    <3> QED BY <3>2
  <2> QED BY <1>1, <2>2, <2>3, <2>4, <2>5, <2>6, <2>7, <2>8, <2>9, <2>10
<1> QED BY <1>4, <1>5 DEF n, N

\* The loop comes from each keyword to the next, and may stop before the optional one.
LEMMA PatternWalk ==
    ASSUME NEW T, NEW pattern \in Seq(T), NEW path \in Seq(T), path # << >>, NEW opt \in BOOLEAN,
           opt => Len(path) >= 2, Laid(pattern, path, opt), Keywords(path), NEW k \in 1..Len(path)
    PROVE  AtKeyword(pattern, path, opt, k)
<1> DEFINE n == Len(path)
           N == Len(pattern)
           place(y) == Place(n, opt, y)
           p == place(k)
<1>1. n \in Nat /\ n > 0 /\ N \in Nat /\ k \in Nat /\ k > 0 /\ k <= n /\ (opt => n >= 2)
  OBVIOUS
<1>2. /\ N = IF opt THEN 2 * n + 1 ELSE 2 * n - 1
      /\ \A y \in 1..(n - 2) : pattern[2 * y] = ":"
      /\ ~opt => (n > 1 => pattern[2 * n - 2] = ":")
      /\ opt => pattern[2 * n - 2] = "[" /\ pattern[2 * n - 1] = ":" /\ pattern[2 * n + 1] = "]"
  BY DEF Laid
<1>3. /\ \A y \in 1..n : place(y) \in 1..N /\ pattern[place(y)] = path[y]
      /\ \A i \in 1..N :
            \/ \E y \in 1..n : i = place(y)
            \/ pattern[i] = ":"
            \/ opt /\ i = 2 * n - 2 /\ pattern[i] = "["
            \/ opt /\ i = 2 * n + 1 /\ pattern[i] = "]"
  BY CellOfPattern
<1>4. \A y \in 1..n : path[y] \notin {"?", ":", "[", "]", "EOS"}
  BY DEF Keywords, PatternMarks
<1>5. \A i \in Nat : At(pattern, i) = IF i \in 1..N THEN pattern[i] ELSE "EOS"
  BY DEF At
<1>6. \A y \in Nat : place(y) = IF opt /\ y = n THEN 2 * y ELSE 2 * y - 1
  BY DEF Place
<1> HIDE DEF n, N, place
<1>7. ASSUME NEW y \in 1..n PROVE KeywordAt(pattern, place(y)) /\ place(y) \in Nat
  <2>1. place(y) \in 1..N /\ place(y) \in Nat
    BY <1>1, <1>3
  <2>2. At(pattern, place(y)) = path[y]
    BY <1>3, <1>5, <2>1
  <2> QED BY <1>4, <2>1, <2>2 DEF KeywordAt, PatternMarks
<1>8. ASSUME NEW i \in 1..N, KeywordAt(pattern, i) PROVE \E y \in 1..n : i = place(y)
  <2>1. At(pattern, i) = pattern[i]
    BY <1>1, <1>5
  <2>2. pattern[i] \notin {"?", ":", "[", "]", "EOS"}
    BY <1>8, <2>1 DEF KeywordAt, PatternMarks
  <2> QED BY <1>3, <2>2
<1>9. \A i \in 1..N : /\ pattern[i] = "[" <=> opt /\ i = 2 * n - 2
                      /\ pattern[i] = "]" <=> opt /\ i = 2 * n + 1
  <2> TAKE i \in 1..N
  <2>1. ASSUME NEW y \in 1..n, i = place(y)
        PROVE  pattern[i] \notin {"[", "]"} /\ (opt => i # 2 * n - 2 /\ i # 2 * n + 1)
    <3>1. pattern[i] \notin {"[", "]"}
      BY <1>3, <1>4, <2>1
    <3>2. place(y) = IF opt /\ y = n THEN 2 * y ELSE 2 * y - 1
      BY <1>1, <1>6
    <3> QED BY <1>1, <2>1, <3>1, <3>2
  <2>2. ":" # "[" /\ ":" # "]" /\ "[" # "]"
    OBVIOUS
  <2>3. CASE \E y \in 1..n : i = place(y)
    BY <2>1, <2>3
  <2>4. CASE ~\E y \in 1..n : i = place(y)
    <3>1. 2 * n - 2 # 2 * n + 1
      BY <1>1
    <3> QED BY <1>2, <1>3, <2>2, <2>4, <3>1
  <2> QED BY <2>3, <2>4
<1>10. ASSUME NEW y \in 1..n PROVE Brackets(pattern, place(y)) = IF opt /\ y = n THEN 1 ELSE 0
  <2> DEFINE q == place(y)
             opens == {j \in 1..q : pattern[j] = "["}
             closes == {j \in 1..q : pattern[j] = "]"}
  <2>1. q \in 1..N /\ q = IF opt /\ y = n THEN 2 * y ELSE 2 * y - 1
    <3>1. y \in Nat /\ y \in 1..n
      BY <1>1
    <3>2. q = IF opt /\ y = n THEN 2 * y ELSE 2 * y - 1
      BY <1>6, <3>1, Zenon
    <3>3. q \in 1..N
      BY <1>3, <3>1, Zenon
    <3> QED BY <3>2, <3>3
  <2>2. Brackets(pattern, q) = Cardinality(opens) - Cardinality(closes)
    BY DEF Brackets
  <2> HIDE DEF q
  <2>3. \A j \in 1..q : j \in 1..N
    BY <1>1, <2>1
  <2>4. closes = {}
    <3>1. \A j \in 1..q : ~(opt /\ j = 2 * n + 1)
      BY <1>1, <1>2, <2>1
    <3> QED BY <1>9, <2>3, <3>1
  <2>5. CASE opt /\ y = n
    <3>1. 2 * n - 2 \in 1..q
      BY <1>1, <2>1, <2>5
    <3>2. opens = {2 * n - 2}
      BY <1>9, <2>3, <2>5, <3>1
    <3>3. Cardinality(opens) = 1 /\ Cardinality(closes) = 0
      BY <2>4, <3>2, FS_Singleton, FS_EmptySet
    <3> QED BY <2>2, <2>5, <3>3 DEF q
  <2>6. CASE ~(opt /\ y = n)
    <3>1. \A j \in 1..q : ~(opt /\ j = 2 * n - 2)
      BY <1>1, <2>1, <2>6
    <3>2. opens = {}
      BY <1>9, <2>3, <3>1
    <3>3. Cardinality(opens) = 0 /\ Cardinality(closes) = 0
      BY <2>4, <3>2, FS_EmptySet
    <3> QED BY <2>2, <2>6, <3>3 DEF q
  <2> QED BY <2>5, <2>6
<1>11. k \in 1..n
  BY <1>1
<1> DEFINE p1 == p + 1
<1>12. p \in 1..N /\ p1 \in Nat /\ p = IF opt /\ k = n THEN 2 * k ELSE 2 * k - 1
  <2>1. p = IF opt /\ k = n THEN 2 * k ELSE 2 * k - 1
    BY <1>1, <1>6, Zenon
  <2>2. p \in 1..N
    BY <1>3, <1>11, Zenon
  <2> HIDE DEF p
  <2>3. p + 1 \in Nat
    BY <1>1, <2>2
  <2> QED BY <2>1, <2>2, <2>3 DEF p
<1>13. At(pattern, p1) # "]" \/ At(pattern, p1 + 1) = "EOS"
  <2>1. CASE p1 \in 1..N
    <3>1. At(pattern, p1) = pattern[p1]
      BY <1>5, <1>12, <2>1
    <3>2. pattern[p1] = "]" => p1 = N
      BY <1>2, <1>9, <2>1
    <3>3. p1 = N => p1 + 1 \in Nat /\ p1 + 1 \notin 1..N
      BY <1>1, <1>12
    <3> QED BY <1>5, <3>1, <3>2, <3>3
  <2>2. CASE p1 \notin 1..N
    <3>1. At(pattern, p1) = "EOS"
      BY <1>5, <1>12, <2>2
    <3> QED BY <3>1
  <2> QED BY <2>1, <2>2
<1>14. Skips(pattern, p1, OptionalEnds) = {}
  BY <1>12, <1>13, SkipsOne
<1>15. ASSUME k = n PROVE Skips(pattern, p1, Separators) = {}
  <2>1. CASE opt
    <3>1. p1 = 2 * n + 1 /\ p1 \in 1..N /\ p1 + 1 \notin 1..N /\ p1 + 1 \in Nat
      BY <1>1, <1>2, <1>12, <1>15, <2>1
    <3>2. At(pattern, p1) = "]" /\ At(pattern, p1 + 1) = "EOS"
      BY <1>2, <1>5, <1>12, <2>1, <3>1
    <3> QED BY <1>12, <3>2, SkipsOne
  <2>2. CASE ~opt
    <3>1. p1 \notin 1..N
      BY <1>1, <1>2, <1>12, <1>15, <2>2
    <3>2. At(pattern, p1) = "EOS"
      BY <1>5, <1>12, <3>1
    <3> QED BY <1>12, <3>2, SkipsOne
  <2> QED BY <2>1, <2>2
<1>16. ASSUME k < n
       PROVE  \E s : Skips(pattern, p1, Separators) = {s} /\ p1 + Len(s) = place(k + 1)
  <2>1. p1 = 2 * k /\ p1 \in 1..N /\ k + 1 \in Nat
    BY <1>1, <1>2, <1>12, <1>16
  <2>2. At(pattern, p1) = pattern[p1]
    BY <1>5, <1>12, <2>1
  <2>3. place(k + 1) = IF opt /\ k + 1 = n THEN 2 * (k + 1) ELSE 2 * (k + 1) - 1
    BY <1>6, <2>1
  <2>4. CASE opt /\ k = n - 1
    <3>1. p1 = 2 * n - 2 /\ p1 + 1 = 2 * n - 1 /\ p1 + 1 \in 1..N /\ p1 + 1 \in Nat
      BY <1>1, <1>2, <2>1, <2>4
    <3>2. At(pattern, p1) = "[" /\ At(pattern, p1 + 1) = ":"
      BY <1>2, <1>5, <2>2, <2>4, <3>1
    <3>3. Skips(pattern, p1, Separators) = {<<"[", ":">>}
      BY <1>12, <3>2, SkipsOne
    <3>4. p1 + 2 = place(k + 1)
      BY <1>1, <2>1, <2>3, <2>4
    <3>5. Len(<<"[", ":">>) = 2
      OBVIOUS
    <3> HIDE DEF p1
    <3> QED BY <3>3, <3>4, <3>5
  <2>5. CASE ~(opt /\ k = n - 1)
    <3>1. pattern[p1] = ":"
      <4>1. CASE k = n - 1
        <5>1. ~opt /\ p1 = 2 * n - 2 /\ n > 1
          BY <1>1, <2>1, <2>5, <4>1
        <5> QED BY <1>2, <5>1
      <4>2. CASE k # n - 1
        <5>1. k \in 1..(n - 2)
          BY <1>1, <1>16, <4>2
        <5> QED BY <1>2, <2>1, <5>1
      <4> QED BY <4>1, <4>2
    <3>2. Skips(pattern, p1, Separators) = {<<":">>}
      BY <1>12, <2>2, <3>1, SkipsOne
    <3>3. p1 + 1 = place(k + 1)
      BY <1>1, <2>1, <2>3, <2>5
    <3>4. Len(<<":">>) = 1
      OBVIOUS
    <3> HIDE DEF p1
    <3> QED BY <3>2, <3>3, <3>4
  <2> QED BY <2>4, <2>5
<1>17. (\A j \in p1..N : KeywordAt(pattern, j) => Brackets(pattern, j) > 0) <=> k = n \/ (opt /\ k = n - 1)
  <2>1. CASE k = n \/ (opt /\ k = n - 1)
    <3>1. ASSUME NEW j \in p1..N, KeywordAt(pattern, j) PROVE Brackets(pattern, j) > 0
      <4>1. j \in 1..N
        BY <1>1, <1>12
      <4>2. PICK y \in 1..n : j = place(y)
        BY <1>8, <3>1, <4>1
      <4>3. place(y) = IF opt /\ y = n THEN 2 * y ELSE 2 * y - 1
        BY <1>1, <1>6
      <4>4. opt /\ y = n
        BY <1>1, <1>12, <2>1, <4>2, <4>3
      <4>5. Brackets(pattern, place(y)) = 1
        BY <1>10, <4>4
      <4> QED BY <4>2, <4>5
    <3> QED BY <2>1, <3>1
  <2>2. CASE ~(k = n \/ (opt /\ k = n - 1))
    <3>1. k + 1 \in 1..n /\ k + 1 \in Nat /\ ~(opt /\ k + 1 = n)
      BY <1>1, <2>2
    <3>2. place(k + 1) = 2 * (k + 1) - 1
      BY <1>6, <3>1
    <3>3. place(k + 1) \in p1..N
      <4>1. place(k + 1) \in 1..N
        BY <1>3, <3>1
      <4> QED BY <1>1, <1>12, <2>2, <3>2, <4>1
    <3>4. KeywordAt(pattern, place(k + 1)) /\ Brackets(pattern, place(k + 1)) = 0
      BY <1>7, <1>10, <3>1
    <3>5. ~(0 > 0)
      OBVIOUS
    <3> QED BY <2>2, <3>3, <3>4, <3>5
  <2> QED BY <2>1, <2>2
<1>18. pattern[p] = path[k] /\ KeywordAt(pattern, p)
  BY <1>3, <1>7, <1>11
<1> QED BY <1>12, <1>14, <1>15, <1>16, <1>17, <1>18 DEF AtKeyword, n, N, place

\* A turn of the loop, at keyword k of the pattern and word j of the header.
LEMMA OneTurn ==
    ASSUME NEW T, NEW pattern \in Seq(T), NEW path \in Seq(T), NEW opt \in BOOLEAN, NEW k \in 1..Len(path),
           AtKeyword(pattern, path, opt, k),
           NEW h \in Seq(T), NEW root \in BOOLEAN, NEW ws \in Seq(T), NEW query \in BOOLEAN,
           Header(h, root, ws, query), Keywords(ws), NEW j \in 1..Len(ws),
           NEW f, Walk(f, pattern, h)
    PROVE  LET n == Len(path)
               c == Bit(root) + 2 * j - 1
           IN  c \in f[Place(n, opt, k)] <=>
                 /\ ws[j] \in {path[k], ShortForm(path[k])}
                 /\ IF j < Len(ws) THEN k < n /\ c + 2 \in f[Place(n, opt, k + 1)]
                    ELSE ~query /\ (k = n \/ (opt /\ k = n - 1))
<1> DEFINE n == Len(path)
           l == Len(ws)
           r == Bit(root)
           q == Bit(query)
           c == r + 2 * j - 1
           p == Place(n, opt, k)
           N == Len(pattern)
           M == Len(h)
<1>1. /\ n \in Nat /\ l \in Nat /\ N \in Nat /\ M \in Nat /\ r \in 0..1 /\ q \in 0..1
      /\ k \in Nat /\ k > 0 /\ k <= n /\ j \in Nat /\ j > 0 /\ j <= l
      /\ (query => q = 1) /\ (~query => q = 0)
  BY DEF Bit
<1>2. /\ M = r + 2 * l - 1 + q
      /\ \A y \in 1..l : h[r + 2 * y - 1] = ws[y]
      /\ \A y \in 1..(l - 1) : h[r + 2 * y] = ":"
      /\ query => h[r + 2 * l] = "?"
  BY DEF Header
<1>3. /\ p \in 1..N /\ pattern[p] = path[k] /\ KeywordAt(pattern, p)
      /\ Skips(pattern, p + 1, OptionalEnds) = {}
      /\ k = n => Skips(pattern, p + 1, Separators) = {}
      /\ k < n => \E s : Skips(pattern, p + 1, Separators) = {s} /\ p + 1 + Len(s) = Place(n, opt, k + 1)
      /\ (\A i \in (p + 1)..N : KeywordAt(pattern, i) => Brackets(pattern, i) > 0) <=> k = n \/ (opt /\ k = n - 1)
  BY DEF AtKeyword
<1>4. ws[j] \notin PatternMarks \cup {"EOS"}
  BY DEF Keywords
<1>5. \A x \in 1..(N + 1) : f[x] = {y \in 1..(M + 1) : MatchFrom(pattern, h, f, x, y)}
  BY DEF Walk
<1>6. \A y \in 1..M : At(h, y) = h[y]
  BY DEF At
<1> DEFINE p1 == After(pattern, p)
           c1 == After(h, c)
           same == IF KeywordAt(pattern, p) THEN At(h, c) \in {pattern[p], ShortForm(pattern[p])}
                   ELSE ~KeywordAt(h, c)
           tail == \A i \in p1..N : KeywordAt(pattern, i) => Brackets(pattern, i) > 0
<1>7. MatchFrom(pattern, h, f, p, c) <=>
        IF ~same THEN \E s \in Skips(pattern, p1, OptionalEnds) : c \in f[p1 + Len(s)]
        ELSE IF c1 > M THEN tail
        ELSE h[c1] = ":" /\ \E s \in Skips(pattern, p1, Separators) : c1 + 1 \in f[p1 + Len(s)]
  BY DEF MatchFrom
<1>8. p1 = p + 1
  BY <1>3 DEF After
<1> HIDE DEF n, l, r, q, N, M, p, p1, c1, same, tail
<1>9. c \in 1..M /\ c \in 1..(M + 1) /\ h[c] = ws[j] /\ c \in Nat
  BY <1>1, <1>2
<1>10. At(h, c) = ws[j]
  BY <1>6, <1>9
<1>11. c1 = c + 1
  <2> HIDE DEF c
  <2> QED BY <1>4, <1>10 DEF c1, After, KeywordAt
<1>12. same <=> ws[j] \in {path[k], ShortForm(path[k])}
  <2> HIDE DEF c
  <2> QED BY <1>3, <1>10 DEF same
<1>13. tail <=> k = n \/ (opt /\ k = n - 1)
  BY <1>3, <1>8 DEF tail
<1>14. p \in 1..(N + 1)
  BY <1>1, <1>3
<1>15. c \in f[p] <=> MatchFrom(pattern, h, f, p, c)
  <2> HIDE DEF c
  <2> QED BY <1>5, <1>9, <1>14
<1>16. c \in f[p] <=> /\ ws[j] \in {path[k], ShortForm(path[k])}
                      /\ IF c1 > M THEN tail
                         ELSE h[c1] = ":" /\ \E s \in Skips(pattern, p1, Separators) : c1 + 1 \in f[p1 + Len(s)]
  <2> HIDE DEF c
  <2>1. ~\E s \in Skips(pattern, p1, OptionalEnds) : c \in f[p1 + Len(s)]
    BY <1>3, <1>8
  <2> QED BY <1>7, <1>12, <1>15, <2>1, Zenon
<1>17. CASE j < l
  <2>1. c1 = r + 2 * j /\ ~(c1 > M) /\ j \in 1..(l - 1) /\ c1 + 1 = c + 2
    BY <1>1, <1>2, <1>11, <1>17
  <2>2. h[c1] = ":"
    BY <1>2, <2>1
  <2>3. (\E s \in Skips(pattern, p1, Separators) : c1 + 1 \in f[p1 + Len(s)]) <=>
          k < n /\ c + 2 \in f[Place(n, opt, k + 1)]
    <3> HIDE DEF c
    <3>1. CASE k = n
      <4>1. ~(k < n)
        BY <1>1, <3>1
      <4> QED BY <1>3, <1>8, <3>1, <4>1
    <3>2. CASE k # n
      <4>1. k < n
        BY <1>1, <3>2
      <4>2. PICK s : Skips(pattern, p1, Separators) = {s} /\ p1 + Len(s) = Place(n, opt, k + 1)
        BY <1>3, <1>8, <4>1
      <4> QED BY <2>1, <4>1, <4>2
    <3> QED BY <3>1, <3>2
  <2> HIDE DEF c
  <2>4. c \in f[p] <=> /\ ws[j] \in {path[k], ShortForm(path[k])}
                       /\ k < n /\ c + 2 \in f[Place(n, opt, k + 1)]
    BY <1>16, <2>1, <2>2, <2>3, Zenon
  <2> QED BY <1>17, <2>4 DEF n, l, p, c, r
<1>18. CASE ~(j < l)
  <2>1. j = l
    BY <1>1, <1>18
  <2>2. ~query => c1 > M
    BY <1>1, <1>2, <1>11, <2>1
  <2>3. query => ~(c1 > M) /\ h[c1] # ":"
    <3>1. ASSUME query PROVE c1 = r + 2 * l /\ ~(c1 > M)
      BY <1>1, <1>2, <1>11, <2>1, <3>1
    <3>2. "?" # ":"
      OBVIOUS
    <3> QED BY <1>2, <3>1, <3>2
  <2> HIDE DEF c
  <2>4. c \in f[p] <=> /\ ws[j] \in {path[k], ShortForm(path[k])}
                       /\ ~query /\ (k = n \/ (opt /\ k = n - 1))
    BY <1>13, <1>16, <2>2, <2>3, Zenon
  <2> QED BY <1>18, <2>4 DEF n, l, p, c, r
<1> QED BY <1>17, <1>18

\* A header's words are those of the pattern, or their short forms, and it may
\* lack the last if that is optional.
Alike(path, opt, ws) ==
    /\ Len(ws) = Len(path) \/ (opt /\ Len(ws) = Len(path) - 1)
    /\ \A k \in 1..Len(ws) : ws[k] \in {path[k], ShortForm(path[k])}

\* A pattern matches the headers that are alike to it, and no query.
LEMMA PatternMatches ==
    ASSUME NEW T, NEW pattern \in Seq(T), NEW path \in Seq(T), path # << >>, NEW opt \in BOOLEAN,
           opt => Len(path) >= 2, Laid(pattern, path, opt), Keywords(path),
           NEW h \in Seq(T), NEW root \in BOOLEAN, NEW ws \in Seq(T), ws # << >>, NEW query \in BOOLEAN,
           Header(h, root, ws, query), Keywords(ws), root => ws[1] \notin Commons
    PROVE  HeaderMatches(pattern, h) <=> ~query /\ Alike(path, opt, ws)
<1> DEFINE n == Len(path)
           l == Len(ws)
           r == Bit(root)
           first == IF Len(h) >= 2 /\ h[1] = ":" THEN 2 ELSE 1
<1>1. n \in Nat /\ n > 0 /\ l \in Nat /\ l > 0 /\ r \in 0..1 /\ (root => r = 1) /\ (~root => r = 0) /\ (opt => n >= 2)
  BY DEF Bit
<1>2. PICK f : /\ Walk(f, pattern, h)
               /\ HeaderMatches(pattern, h) <=> ~(first = 2 /\ h[2] \in Commons) /\ first \in f[1]
  BY MatchIsWalk
<1>3. ASSUME NEW k \in 1..n, NEW j \in 1..l
      PROVE  LET c == r + 2 * j - 1
             IN  c \in f[Place(n, opt, k)] <=>
                 /\ ws[j] \in {path[k], ShortForm(path[k])}
                 /\ IF j < l THEN k < n /\ c + 2 \in f[Place(n, opt, k + 1)]
                    ELSE ~query /\ (k = n \/ (opt /\ k = n - 1))
  <2>1. AtKeyword(pattern, path, opt, k)
    BY PatternWalk
  <2> QED BY <1>2, <2>1, OneTurn
<1>4. /\ first = r + 1 /\ ~(first = 2 /\ h[2] \in Commons)
  <2>1. Header(h, root, ws, query)
    OBVIOUS
  <2>2. Len(h) = r + 2 * l - 1 + Bit(query) /\ (root => h[1] = ":") /\ \A k \in 1..l : h[r + 2 * k - 1] = ws[k]
    BY <2>1 DEF Header
  <2>3. Bit(query) \in 0..1 /\ 1 \in 1..l /\ r + 2 * 1 - 1 = r + 1
    BY <1>1 DEF Bit
  <2>4. h[r + 1] = ws[1]
    BY <2>2, <2>3
  <2>5. ws[1] # ":"
    BY <2>3 DEF Keywords, PatternMarks
  <2> HIDE DEF l, r
  <2>6. CASE root
    <3>1. Len(h) >= 2 /\ h[1] = ":" /\ h[2] = ws[1]
      BY <1>1, <2>2, <2>3, <2>4, <2>6
    <3> QED BY <1>1, <2>6, <3>1
  <2>7. CASE ~root
    <3>1. h[1] = ws[1]
      BY <1>1, <2>4, <2>7
    <3> QED BY <1>1, <2>5, <2>7, <3>1
  <2> QED BY <2>6, <2>7
<1>5. Place(n, opt, 1) = 1
  <2>1. 2 * 1 - 1 = 1 /\ ~(1 >= 2)
    OBVIOUS
  <2>2. opt => n >= 2
    BY <1>1
  <2> HIDE DEF n
  <2>3. ~(opt /\ 1 = n)
    BY <2>1, <2>2, Zenon
  <2> QED BY <2>1, <2>3 DEF Place
<1>6. HeaderMatches(pattern, h) <=> r + 1 \in f[Place(n, opt, 1)]
  BY <1>2, <1>4, <1>5, Zenon
<1> DEFINE m == IF n <= l THEN n ELSE l
           ends == ~query /\ (l = n \/ (opt /\ l = n - 1))
           like(k) == ws[k] \in {path[k], ShortForm(path[k])}
           P == {k \in 1..m : r + 2 * k - 1 \in f[Place(n, opt, k)] <=> ends /\ \A j \in k..l : like(j)}
<1> HIDE DEF n, l, r, like
<1>7. m \in 1..n /\ m \in 1..l /\ 1 \in Nat /\ m \in Nat /\ (m < l => m = n)
  BY <1>1
<1>8. ASSUME NEW k \in 1..m
      PROVE  r + 2 * k - 1 \in f[Place(n, opt, k)] <=>
               like(k) /\ IF k < l THEN k < n /\ r + 2 * (k + 1) - 1 \in f[Place(n, opt, k + 1)]
                          ELSE ~query /\ (k = n \/ (opt /\ k = n - 1))
  <2>1. k \in 1..n /\ k \in 1..l
    BY <1>1
  <2>2. r + 2 * k - 1 + 2 = r + 2 * (k + 1) - 1
    BY <1>1, <2>1
  <2>3. r + 2 * k - 1 \in f[Place(n, opt, k)] <=>
               like(k) /\ IF k < l THEN k < n /\ r + 2 * k - 1 + 2 \in f[Place(n, opt, k + 1)]
                          ELSE ~query /\ (k = n \/ (opt /\ k = n - 1))
    BY <1>3, <2>1, Zenon DEF like
  <2> QED BY <2>2, <2>3, Zenon
<1>9. m \in P
  <2>1. m \in 1..m
    BY <1>7
  <2>2. CASE m = l
    <3>1. ~(m < l) /\ \A j \in m..l : j = m
      BY <1>1, <1>7, <2>2
    <3>2. m \in m..l
      BY <1>1, <1>7, <2>2
    <3>3. r + 2 * m - 1 \in f[Place(n, opt, m)] <=> like(m) /\ ~query /\ (m = n \/ (opt /\ m = n - 1))
      BY <1>8, <2>1, <3>1, Zenon
    <3> HIDE DEF m
    <3>4. (\A j \in m..l : like(j)) <=> like(m)
      BY <3>1, <3>2, Zenon
    <3>5. (r + 2 * m - 1 \in f[Place(n, opt, m)]) <=> (ends /\ \A j \in m..l : like(j))
      BY <2>2, <3>3, <3>4
    <3> QED BY <2>1, <3>5
  <2>3. CASE m # l
    <3>1. m < l /\ m = n /\ ~(m < n) /\ ~ends
      BY <1>1, <1>7, <2>3
    <3>2. r + 2 * m - 1 \notin f[Place(n, opt, m)]
      BY <1>8, <2>1, <3>1, Zenon
    <3> HIDE DEF m, ends
    <3> QED BY <2>1, <3>1, <3>2
  <2> QED BY <2>2, <2>3
<1>10. ASSUME NEW k \in 1..(m - 1), k + 1 \in P PROVE k \in P
  <2>1. k \in 1..m /\ k < l /\ k < n /\ k + 1 \in 1..m
    BY <1>1, <1>7
  <2>2. r + 2 * k - 1 \in f[Place(n, opt, k)] <=> like(k) /\ r + 2 * (k + 1) - 1 \in f[Place(n, opt, k + 1)]
    BY <1>8, <2>1, Zenon
  <2>3. r + 2 * (k + 1) - 1 \in f[Place(n, opt, k + 1)] <=> ends /\ \A j \in (k + 1)..l : like(j)
    BY <1>10
  <2>4. (\A j \in k..l : like(j)) <=> like(k) /\ \A j \in (k + 1)..l : like(j)
    <3>1. \A j : j \in k..l <=> j = k \/ j \in (k + 1)..l
      BY <1>1, <2>1
    <3> QED BY <3>1, Zenon
  <2> HIDE DEF m, ends
  <2>5. (r + 2 * k - 1 \in f[Place(n, opt, k)]) <=> (ends /\ \A j \in k..l : like(j))
    BY <2>2, <2>3, <2>4, Zenon
  <2> QED BY <2>1, <2>5
<1>11. 1 \in P
  <2>1. 1 \in 1..m
    BY <1>7
  <2> HIDE DEF m, P
  <2> QED BY <1>7, <1>9, <1>10, <2>1, Descend
<1>12. r + 2 * 1 - 1 = r + 1
  BY <1>1
<1>13. r + 1 \in f[Place(n, opt, 1)] <=> ends /\ \A j \in 1..l : like(j)
  BY <1>11, <1>12
<1>14. Alike(path, opt, ws) <=> (l = n \/ (opt /\ l = n - 1)) /\ \A j \in 1..l : like(j)
  BY DEF Alike, l, n, like
<1> QED BY <1>6, <1>13, <1>14

\* A command matches a header that has its keywords and asks if it does.
LEMMA CommandMatches ==
    ASSUME NEW T, Marks \cup PatternMarks \subseteq T, NEW cmd, cmd.path \in Seq(T), cmd.path # << >>,
           cmd.query \in BOOLEAN, OptionalEnd(cmd.path) => Len(cmd.path) >= 2, Keywords(cmd.path),
           NEW h \in Seq(T), NEW root \in BOOLEAN, NEW ws \in Seq(T), ws # << >>, NEW query \in BOOLEAN,
           Header(h, root, ws, query), Keywords(ws), root => ws[1] \notin Commons
    PROVE  matchCommand(cmd, h) <=> cmd.query = query /\ Alike(cmd.path, OptionalEnd(cmd.path), ws)
<1> DEFINE b == Body(cmd.path)
           opt == OptionalEnd(cmd.path)
           l == Len(ws)
           r == Bit(root)
           M == Len(h)
<1>1. b \in Seq(T) /\ Laid(b, cmd.path, opt)
  BY BodyLaid
<1>2. b = IF cmd.query THEN Front(Pattern(cmd)) ELSE Pattern(cmd)
  BY PatternIs
<1>3. /\ l \in Nat /\ l > 0 /\ r \in 0..1 /\ M \in Nat
      /\ M = r + 2 * l - 1 + (IF query THEN 1 ELSE 0)
  <2>1. M = r + 2 * l - 1 + Bit(query)
    BY DEF Header
  <2>2. Bit(query) = IF query THEN 1 ELSE 0
    BY DEF Bit
  <2>3. r \in 0..1
    BY DEF Bit
  <2> QED BY <2>1, <2>2, <2>3
<1>4. /\ \A y \in 1..l : h[r + 2 * y - 1] = ws[y]
      /\ \A y \in 1..(l - 1) : h[r + 2 * y] = ":"
      /\ query => h[r + 2 * l] = "?"
      /\ root => h[1] = ":"
  BY DEF Header
<1>5. opt \in BOOLEAN
  BY DEF OptionalEnd
<1>6. Last(h) = "?" <=> query
  <2>1. Last(h) = h[M]
    BY DEF Last
  <2>2. ws[l] # "?"
    <3>1. l \in 1..l
      BY <1>3
    <3> QED BY <3>1 DEF Keywords, PatternMarks
  <2> HIDE DEF l, r, M
  <2>3. CASE query
    <3>1. M = r + 2 * l
      BY <1>3, <2>3
    <3> QED BY <1>4, <2>1, <2>3, <3>1
  <2>4. CASE ~query
    <3>1. M = r + 2 * l - 1 /\ l \in 1..l
      BY <1>3, <2>4
    <3> QED BY <1>4, <2>1, <2>2, <2>4, <3>1
  <2> QED BY <2>3, <2>4
<1>7. matchCommand(cmd, h) <=>
        /\ cmd.query => cmd.query /\ Last(h) = "?"
        /\ IF cmd.query /\ Last(h) = "?" THEN HeaderMatches(Front(Pattern(cmd)), Front(h))
           ELSE HeaderMatches(Pattern(cmd), h)
  BY DEF matchCommand
<1>8. CASE ~cmd.query
  <2>1. matchCommand(cmd, h) <=> HeaderMatches(b, h)
    BY <1>2, <1>7, <1>8
  <2> HIDE DEF b, opt
  <2>2. opt => Len(cmd.path) >= 2
    BY DEF opt
  <2>3. HeaderMatches(b, h) <=> ~query /\ Alike(cmd.path, opt, ws)
    BY <1>1, <1>5, <2>2, PatternMatches
  <2> QED BY <1>8, <2>1, <2>3 DEF opt
<1>9. CASE cmd.query /\ ~query
  BY <1>6, <1>7, <1>9
<1>10. CASE cmd.query /\ query
  <2> DEFINE g == Front(h)
  <2>1. matchCommand(cmd, h) <=> HeaderMatches(b, g)
    BY <1>2, <1>6, <1>7, <1>10
  <2>2. g \in Seq(T) /\ Len(g) = M - 1 /\ \A i \in 1..(M - 1) : g[i] = h[i]
    BY <1>3, <1>10 DEF Front
  <2> HIDE DEF g, b, opt
  <2>3. Header(g, root, ws, FALSE)
    <3>1. Bit(FALSE) = 0
      BY DEF Bit
    <3> HIDE DEF l, r, M
    <3>2. Len(g) = r + 2 * l - 1 + 0
      BY <1>3, <1>10, <2>2
    <3>3. root => g[1] = ":"
      <4>1. 1 \in 1..(M - 1)
        BY <1>3, <1>10
      <4> QED BY <1>4, <2>2, <4>1
    <3>4. \A y \in 1..l : g[r + 2 * y - 1] = ws[y]
      <4>1. \A y \in 1..l : r + 2 * y - 1 \in 1..(M - 1)
        BY <1>3, <1>10
      <4> QED BY <1>4, <2>2, <4>1
    <3>5. \A y \in 1..(l - 1) : g[r + 2 * y] = ":"
      <4>1. \A y \in 1..(l - 1) : r + 2 * y \in 1..(M - 1)
        BY <1>3, <1>10
      <4> QED BY <1>4, <2>2, <4>1
    <3> QED BY <3>1, <3>2, <3>3, <3>4, <3>5 DEF Header, l, r
  <2>4. opt => Len(cmd.path) >= 2
    BY DEF opt
  <2> DEFINE asks == FALSE
  <2>5. asks \in BOOLEAN /\ Header(g, root, ws, asks)
    BY <2>3
  <2> HIDE DEF asks
  <2>6. HeaderMatches(b, g) <=> ~asks /\ Alike(cmd.path, opt, ws)
    BY <1>1, <1>5, <2>2, <2>4, <2>5, PatternMatches
  <2> QED BY <1>10, <2>1, <2>6 DEF opt, asks
<1> QED BY <1>8, <1>9, <1>10

\* The cells of a header in a line.
LEMMA CellsOfHeader ==
    ASSUME NEW T, NEW d \in Seq(T), NEW tok, tok.ptr \in Nat \ {0}, NEW root \in BOOLEAN,
           NEW ws \in Seq(T), ws # << >>, NEW query \in BOOLEAN, HeaderAt(d, tok, root, ws, query)
    PROVE  Cells(d, tok) \in Seq(T) /\ Header(Cells(d, tok), root, ws, query)
<1> DEFINE l == Len(ws)
           r == Bit(root)
           q == Bit(query)
           p == tok.ptr
           m == r + 2 * l - 1 + q
           h == Cells(d, tok)
<1>1. /\ l \in Nat /\ l > 0 /\ r \in 0..1 /\ q \in 0..1 /\ (query => q = 1) /\ p \in Nat /\ p > 0
      /\ Len(d) \in Nat
  BY DEF Bit
<1>2. /\ tok.len = m /\ p + m <= Len(d) + 1
      /\ root => d[p] = ":"
      /\ \A k \in 1..l : d[p + r + 2 * k - 2] = ws[k]
      /\ \A k \in 1..(l - 1) : d[p + r + 2 * k - 1] = ":"
      /\ query => d[p + r + 2 * l - 1] = "?"
  BY DEF HeaderAt, HeaderIn, HeaderLen
<1> HIDE DEF l, r, q, p
<1>3. m \in Nat /\ m > 0
  BY <1>1
<1> HIDE DEF m
<1>4. h \in Seq(T) /\ Len(h) = m /\ \A i \in 1..m : h[i] = d[p + i - 1]
  <2>1. h = SubSeq(d, p, p + m - 1)
    BY <1>2 DEF Cells, p
  <2> HIDE DEF h
  <2> DEFINE e == p + m - 1
  <2>2. p \in 1..(Len(d) + 1) /\ e \in (p - 1)..Len(d) /\ e - p + 1 = m
    BY <1>1, <1>2, <1>3
  <2>5. e \in Int /\ p <= e /\ 1 <= p /\ e <= Len(d)
    BY <1>1, <1>2, <1>3
  <2> HIDE DEF e
  <2>3. SubSeq(d, p, e) \in Seq(T)
    BY <1>1, <2>2, <2>5
  <2>4. Len(SubSeq(d, p, e)) = m /\ \A i \in 1..m : SubSeq(d, p, e)[i] = d[p + i - 1]
    BY <1>1, <1>3, <2>2, <2>5
  <2> QED BY <2>1, <2>3, <2>4 DEF e
<1> HIDE DEF h
<1>5. root => h[1] = ":"
  <2>1. 1 \in 1..m /\ p + 1 - 1 = p
    BY <1>1, <1>3
  <2> QED BY <1>2, <1>4, <2>1
<1>6. ASSUME NEW k \in 1..l PROVE h[r + 2 * k - 1] = ws[k]
  <2>1. r + 2 * k - 1 \in 1..m /\ p + (r + 2 * k - 1) - 1 = p + r + 2 * k - 2
    BY <1>1 DEF m
  <2>2. h[r + 2 * k - 1] = d[p + (r + 2 * k - 1) - 1]
    BY <1>4, <2>1
  <2> QED BY <1>2, <2>1, <2>2
<1>7. ASSUME NEW k \in 1..(l - 1) PROVE h[r + 2 * k] = ":"
  <2>1. r + 2 * k \in 1..m /\ p + (r + 2 * k) - 1 = p + r + 2 * k - 1
    BY <1>1 DEF m
  <2>2. h[r + 2 * k] = d[p + (r + 2 * k) - 1]
    BY <1>4, <2>1
  <2> QED BY <1>2, <2>1, <2>2
<1>8. query => h[r + 2 * l] = "?"
  <2>1. SUFFICES ASSUME query PROVE h[r + 2 * l] = "?"
    OBVIOUS
  <2>2. r + 2 * l \in 1..m /\ p + (r + 2 * l) - 1 = p + r + 2 * l - 1
    BY <1>1, <2>1 DEF m
  <2>3. h[r + 2 * l] = d[p + (r + 2 * l) - 1]
    BY <1>4, <2>2
  <2> QED BY <1>2, <2>1, <2>2, <2>3
<1>9. Header(h, root, ws, query)
  BY <1>4, <1>5, <1>6, <1>7, <1>8 DEF Header, l, r, q, m
<1> QED BY <1>4, <1>9 DEF h

-----------------------------------------------------------------------------
(* The commands of the table, and which of them a unit names.              *)

\* What a command does, by its keywords.
DoesOf(path, query) ==
    IF query THEN IF path[1] = "MEASure" THEN "measure" ELSE "answer"
    ELSE IF path[1] \in Commons THEN IF path[1] \in {"*ESE", "*SRE"} THEN "integer" ELSE "act"
    ELSE IF path[1] # "SET" THEN IF path[2] = "QUEStionable" THEN "integer" ELSE "act"
    ELSE IF path[2] = "ATTEnuation" THEN "attenuation"
    ELSE IF path[2] = "DAC" THEN "dac"
    ELSE IF path[2] \in {"TEMPControl", "DHCPMode"} THEN "bool"
    ELSE IF path[2] \in {"TEMPerature", "PID"} THEN "number" ELSE "address"

\* What is true of every command of the table: queries answer and the others do
\* not, two commands do not share a spelling, and a keyword of its own is a
\* common command.
Regular(c) ==
    /\ c.path # << >>
    /\ c.query <=> c.does \in Answering
    /\ c.does = DoesOf(c.path, c.query)
    /\ Len(c.path) = 1 <=> c.path[1] \in Commons
    /\ c.path # <<"SYSTem", "ERRor">> /\ c.path # <<"STATus", "QUEStionable">>
    /\ OptionalEnd(c.path) => c.path = <<"SYSTem", "ERRor", "NEXT">> \/ c.path = <<"STATus", "QUEStionable", "EVENt">>
Regulars == {c \in Entry : Regular(c)}

\* A common command is as the table has it.
LEMMA RegularOne ==
    ASSUME NEW a \in Words, a \in Commons, NEW query \in BOOLEAN, NEW does \in Tasks,
           query <=> does \in Answering,
           does = IF query THEN "answer" ELSE IF a \in {"*ESE", "*SRE"} THEN "integer" ELSE "act"
    PROVE  C(<<a>>, query, does) \in Regulars
<1> DEFINE path == <<a>>
           c == C(path, query, does)
<1>1. path \in Seq(Words) /\ Len(path) = 1 /\ path[1] = a
  OBVIOUS
<1>2. path # << >> /\ path # <<"SYSTem", "ERRor">> /\ path # <<"STATus", "QUEStionable">>
  OBVIOUS
<1>3. a # "MEASure" /\ a # "NEXT" /\ a # "EVENt"
  BY DEF Commons
<1> HIDE DEF path
<1>4. c \in Entry /\ c.path = path /\ c.query = query /\ c.does = does
  BY <1>1, EntryMade DEF C
<1> HIDE DEF c
<1>5. does = DoesOf(path, query)
  BY <1>1, <1>3 DEF DoesOf
<1>6. ~OptionalEnd(path)
  BY <1>1, <1>3 DEF OptionalEnd, Last
<1>7. Regular(c)
  BY <1>1, <1>2, <1>4, <1>5, <1>6, Zenon DEF Regular
<1> QED BY <1>4, <1>7 DEF Regulars, c, path

\* The rest of the table, by the first two keywords.
DoesTwo(a, b, query) ==
    IF query THEN IF a = "MEASure" THEN "measure" ELSE "answer"
    ELSE IF a # "SET" THEN IF b = "QUEStionable" THEN "integer" ELSE "act"
    ELSE IF b = "ATTEnuation" THEN "attenuation"
    ELSE IF b = "DAC" THEN "dac"
    ELSE IF b \in {"TEMPControl", "DHCPMode"} THEN "bool"
    ELSE IF b \in {"TEMPerature", "PID"} THEN "number" ELSE "address"

\* So is a path of several keywords,
LEMMA RegularMore ==
    ASSUME NEW path \in Seq(Words), Len(path) \in 2..4, path[1] \notin Commons,
           NEW query \in BOOLEAN, NEW does \in Tasks, query <=> does \in Answering,
           does = DoesTwo(path[1], path[2], query),
           path # <<"SYSTem", "ERRor">>, path # <<"STATus", "QUEStionable">>,
           path[Len(path)] \in {"NEXT", "EVENt"} =>
              path = <<"SYSTem", "ERRor", "NEXT">> \/ path = <<"STATus", "QUEStionable", "EVENt">>
    PROVE  C(path, query, does) \in Regulars
<1> DEFINE c == C(path, query, does)
<1>1. path # << >> /\ Len(path) # 1
  OBVIOUS
<1>2. c \in Entry /\ c.path = path /\ c.query = query /\ c.does = does
  BY EntryMade DEF C
<1> HIDE DEF c
<1>3. does = DoesOf(path, query)
  BY DEF DoesOf, DoesTwo
<1>4. OptionalEnd(path) => path = <<"SYSTem", "ERRor", "NEXT">> \/ path = <<"STATus", "QUEStionable", "EVENt">>
  BY DEF OptionalEnd, Last
<1>5. Regular(c)
  BY <1>1, <1>2, <1>3, <1>4, Zenon DEF Regular
<1> QED BY <1>2, <1>5 DEF Regulars, c

\* of two,
LEMMA RegularTwo ==
    ASSUME NEW a \in Words, NEW b \in Words, a \notin Commons, b \notin {"ERRor", "QUEStionable", "NEXT", "EVENt"},
           NEW query \in BOOLEAN, NEW does \in Tasks, query <=> does \in Answering,
           does = DoesTwo(a, b, query)
    PROVE  C(<<a, b>>, query, does) \in Regulars
<1> DEFINE path == <<a, b>>
<1>1. /\ path \in Seq(Words) /\ Len(path) = 2 /\ path[1] = a /\ path[2] = b
      /\ path # <<"SYSTem", "ERRor">> /\ path # <<"STATus", "QUEStionable">>
  OBVIOUS
<1>2. 2 \in 2..4
  OBVIOUS
<1> HIDE DEF path
<1>3. C(path, query, does) \in Regulars
  BY <1>1, <1>2, RegularMore
<1> QED BY <1>3 DEF path

\* of three,
LEMMA RegularThree ==
    ASSUME NEW a \in Words, NEW b \in Words, NEW z \in Words, a \notin Commons,
           NEW query \in BOOLEAN, NEW does \in Tasks, query <=> does \in Answering,
           does = DoesTwo(a, b, query),
           \/ z \notin {"NEXT", "EVENt"}
           \/ a = "SYSTem" /\ b = "ERRor" /\ z = "NEXT"
           \/ a = "STATus" /\ b = "QUEStionable" /\ z = "EVENt"
    PROVE  C(<<a, b, z>>, query, does) \in Regulars
<1> DEFINE path == <<a, b, z>>
<1>1. /\ path \in Seq(Words) /\ Len(path) = 3 /\ path[1] = a /\ path[2] = b /\ path[3] = z
      /\ path # <<"SYSTem", "ERRor">> /\ path # <<"STATus", "QUEStionable">>
  OBVIOUS
<1>2. 3 \in 2..4
  OBVIOUS
<1>3. z \in {"NEXT", "EVENt"} => path = <<"SYSTem", "ERRor", "NEXT">> \/ path = <<"STATus", "QUEStionable", "EVENt">>
  OBVIOUS
<1> HIDE DEF path
<1>4. C(path, query, does) \in Regulars
  BY <1>1, <1>2, <1>3, RegularMore
<1> QED BY <1>4 DEF path

\* and of four.
LEMMA RegularFour ==
    ASSUME NEW a \in Words, NEW b \in Words, NEW y \in Words, NEW z \in Words, a \notin Commons,
           NEW query \in BOOLEAN, NEW does \in Tasks, query <=> does \in Answering,
           does = DoesTwo(a, b, query), z \notin {"NEXT", "EVENt"}
    PROVE  C(<<a, b, y, z>>, query, does) \in Regulars
<1> DEFINE path == <<a, b, y, z>>
<1>1. /\ path \in Seq(Words) /\ Len(path) = 4 /\ path[1] = a /\ path[2] = b /\ path[4] = z
      /\ path # <<"SYSTem", "ERRor">> /\ path # <<"STATus", "QUEStionable">>
  OBVIOUS
<1>2. 4 \in 2..4
  OBVIOUS
<1> HIDE DEF path
<1>3. C(path, query, does) \in Regulars
  BY <1>1, <1>2, RegularMore
<1> QED BY <1>3 DEF path

\* Tuples one longer.
Longer(a, b, y, z) ==
    /\ Append(<<a, b>>, z) = <<a, b, z>> /\ Append(<<a, b, y>>, z) = <<a, b, y, z>>
    /\ <<a>> \o <<b>> = <<a, b>> /\ <<a>> \o <<b, y>> = <<a, b, y>>

\* They are sequences, of which the first two keywords and the last are these.
LEMMA LongerTuples == ASSUME NEW S, NEW a \in S, NEW b \in S, NEW y \in S, NEW z \in S PROVE Longer(a, b, y, z)
<1>1. Append(<<a, b>>, z) = <<a, b, z>>
  <2> DEFINE s == <<a, b>>
             t == Append(s, z)
             u == <<a, b, z>>
  <2>1. s \in Seq(S) /\ Len(s) = 2 /\ s[1] = a /\ s[2] = b
    OBVIOUS
  <2>2. u \in Seq(S) /\ Len(u) = 3 /\ u[1] = a /\ u[2] = b /\ u[3] = z
    OBVIOUS
  <2> HIDE DEF s, u
  <2>3. t \in Seq(S) /\ Len(t) = Len(s) + 1 /\ (\A i \in 1..Len(s) : t[i] = s[i]) /\ t[Len(s) + 1] = z
    <3>1. s \in Seq(S) /\ z \in S
      BY <2>1
    <3> QED BY <3>1, AppendProperties
  <2> HIDE DEF t
  <2>4. Len(t) = 3 /\ t[1] = a /\ t[2] = b /\ t[3] = z
    BY <2>1, <2>3
  <2>5. \A i \in 1..Len(t) : t[i] = u[i]
    <3>1. \A i \in 1..Len(t) : i = 1 \/ i = 2 \/ i = 3
      BY <2>4
    <3> QED BY <2>2, <2>4, <3>1
  <2>6. t = u
    BY <2>2, <2>3, <2>4, <2>5, SeqEqual
  <2> QED BY <2>6 DEF s, t, u
<1>2. Append(<<a, b, y>>, z) = <<a, b, y, z>>
  <2> DEFINE s == <<a, b, y>>
             t == Append(s, z)
             u == <<a, b, y, z>>
  <2>1. s \in Seq(S) /\ Len(s) = 3 /\ s[1] = a /\ s[2] = b /\ s[3] = y
    OBVIOUS
  <2>2. u \in Seq(S) /\ Len(u) = 4 /\ u[1] = a /\ u[2] = b /\ u[3] = y /\ u[4] = z
    OBVIOUS
  <2> HIDE DEF s, u
  <2>3. t \in Seq(S) /\ Len(t) = Len(s) + 1 /\ (\A i \in 1..Len(s) : t[i] = s[i]) /\ t[Len(s) + 1] = z
    BY <2>1, AppendProperties
  <2> HIDE DEF t
  <2>4. Len(t) = 4 /\ t[1] = a /\ t[2] = b /\ t[3] = y /\ t[4] = z
    BY <2>1, <2>3
  <2>5. \A i \in 1..Len(t) : t[i] = u[i]
    <3>1. \A i \in 1..Len(t) : i = 1 \/ i = 2 \/ i = 3 \/ i = 4
      BY <2>4
    <3> QED BY <2>2, <2>4, <3>1
  <2>6. t = u
    BY <2>2, <2>3, <2>4, <2>5, SeqEqual
  <2> QED BY <2>6 DEF s, t, u
<1>3. <<a>> \o <<b>> = <<a, b>>
  <2> DEFINE s == <<a>>
             e == <<b>>
             t == s \o e
             u == <<a, b>>
  <2>1. s \in Seq(S) /\ Len(s) = 1 /\ s[1] = a /\ e \in Seq(S) /\ Len(e) = 1 /\ e[1] = b
    OBVIOUS
  <2>2. u \in Seq(S) /\ Len(u) = 2 /\ u[1] = a /\ u[2] = b
    OBVIOUS
  <2> HIDE DEF s, u, e
  <2>3. /\ t \in Seq(S) /\ Len(t) = Len(s) + Len(e) /\ (\A i \in 1..Len(s) : t[i] = s[i])
        /\ \A i \in 1..Len(e) : t[Len(s) + i] = e[i]
    BY <2>1, CatAt
  <2> HIDE DEF t
  <2>4. Len(t) = 2 /\ t[1] = a /\ t[2] = b
    <3>1. Len(s) + 1 = 2 /\ 1 \in 1..Len(s) /\ 1 \in 1..Len(e)
      BY <2>1
    <3> QED BY <2>1, <2>3, <3>1
  <2>5. \A i \in 1..Len(t) : t[i] = u[i]
    <3>1. \A i \in 1..Len(t) : i = 1 \/ i = 2
      BY <2>4
    <3> QED BY <2>2, <2>4, <3>1
  <2>6. t = u
    BY <2>2, <2>3, <2>4, <2>5, SeqEqual
  <2> QED BY <2>6 DEF s, t, u, e
<1>4. <<a>> \o <<b, y>> = <<a, b, y>>
  <2> DEFINE s == <<a>>
             e == <<b, y>>
             t == s \o e
             u == <<a, b, y>>
  <2>1. s \in Seq(S) /\ Len(s) = 1 /\ s[1] = a /\ e \in Seq(S) /\ Len(e) = 2 /\ e[1] = b /\ e[2] = y
    OBVIOUS
  <2>2. u \in Seq(S) /\ Len(u) = 3 /\ u[1] = a /\ u[2] = b /\ u[3] = y
    OBVIOUS
  <2> HIDE DEF s, u, e
  <2>3. /\ t \in Seq(S) /\ Len(t) = Len(s) + Len(e) /\ (\A i \in 1..Len(s) : t[i] = s[i])
        /\ \A i \in 1..Len(e) : t[Len(s) + i] = e[i]
    BY <2>1, CatAt
  <2> HIDE DEF t
  <2>4. Len(t) = 3 /\ t[1] = a /\ t[2] = b /\ t[3] = y
    <3>1. Len(s) + 1 = 2 /\ Len(s) + 2 = 3 /\ 1 \in 1..Len(s) /\ 1 \in 1..Len(e) /\ 2 \in 1..Len(e)
      BY <2>1
    <3> QED BY <2>1, <2>3, <3>1
  <2>5. \A i \in 1..Len(t) : t[i] = u[i]
    <3>1. \A i \in 1..Len(t) : i = 1 \/ i = 2 \/ i = 3
      BY <2>4
    <3> QED BY <2>2, <2>4, <3>1
  <2>6. t = u
    BY <2>2, <2>3, <2>4, <2>5, SeqEqual
  <2> QED BY <2>6 DEF s, t, u, e
<1> QED BY <1>1, <1>2, <1>3, <1>4 DEF Longer

\* Commands for both RFFEs
LEMMA RegularOnBoth ==
    ASSUME NEW a \in Words, NEW b \in Words, NEW y \in Words, a \notin Commons,
           NEW query \in BOOLEAN, NEW does \in Tasks, query <=> does \in Answering, does = DoesTwo(a, b, query)
    PROVE  OnBoth(<<a, b>>, query, does) \in Seq(Regulars) /\ OnBoth(<<a, b, y>>, query, does) \in Seq(Regulars)
<1>1. "AC" \in Words /\ "BD" \in Words /\ "AC" \notin {"NEXT", "EVENt"} /\ "BD" \notin {"NEXT", "EVENt"}
  BY DEF Words
<1>2. \A z \in {"AC", "BD"} : Append(<<a, b>>, z) = <<a, b, z>> /\ Append(<<a, b, y>>, z) = <<a, b, y, z>>
  <2>1. ASSUME NEW z \in Words PROVE Append(<<a, b>>, z) = <<a, b, z>> /\ Append(<<a, b, y>>, z) = <<a, b, y, z>>
    <3>1. Longer(a, b, y, z)
      BY LongerTuples
    <3> QED BY <3>1, Zenon DEF Longer
  <2> QED BY <1>1, <2>1
<1>3. \A z \in {"AC", "BD"} : C(<<a, b, z>>, query, does) \in Regulars /\ C(<<a, b, y, z>>, query, does) \in Regulars
  BY <1>1, RegularThree, RegularFour
<1>4. \A u, v \in Regulars : <<u, v>> \in Seq(Regulars)
  OBVIOUS
<1>5. \A z \in {"AC", "BD"} : C(Append(<<a, b>>, z), query, does) \in Regulars /\ C(Append(<<a, b, y>>, z), query, does) \in Regulars
  BY <1>2, <1>3
<1> QED BY <1>4, <1>5 DEF OnBoth

\* and commands that set, and ask for, the same thing.
LEMMA RegularSetAndGet ==
    ASSUME NEW b \in Words, NEW y \in Words, b \notin {"ERRor", "QUEStionable", "NEXT", "EVENt"},
           y \notin {"NEXT", "EVENt"}, NEW does \in Tasks, does \notin Answering, does = DoesTwo("SET", b, FALSE)
    PROVE  SetAndGet(<<b>>, does) \in Seq(Regulars) /\ SetAndGet(<<b, y>>, does) \in Seq(Regulars)
<1>1. "SET" \in Words /\ "GET" \in Words /\ "SET" \notin Commons /\ "GET" \notin Commons /\ "GET" # "MEASure"
  BY DEF Words, Commons
<1>2. \A x \in {"SET", "GET"} : <<x>> \o <<b>> = <<x, b>> /\ <<x>> \o <<b, y>> = <<x, b, y>>
  <2>1. ASSUME NEW x \in Words PROVE <<x>> \o <<b>> = <<x, b>> /\ <<x>> \o <<b, y>> = <<x, b, y>>
    <3>1. Longer(x, b, y, y)
      BY LongerTuples
    <3> QED BY <3>1, Zenon DEF Longer
  <2> QED BY <1>1, <2>1
<1>3. "answer" \in Tasks /\ "answer" \in Answering /\ "answer" = DoesTwo("GET", b, TRUE)
  BY <1>1 DEF Tasks, Answering, DoesTwo
<1>4. /\ C(<<"SET", b>>, FALSE, does) \in Regulars /\ C(<<"SET", b, y>>, FALSE, does) \in Regulars
  <2> DEFINE no == FALSE
  <2>1. no \in BOOLEAN /\ (no <=> does \in Answering) /\ does = DoesTwo("SET", b, no)
    OBVIOUS
  <2> HIDE DEF no
  <2>2. C(<<"SET", b>>, no, does) \in Regulars /\ C(<<"SET", b, y>>, no, does) \in Regulars
    BY <1>1, <2>1, RegularTwo, RegularThree
  <2> QED BY <2>2 DEF no
<1>5. /\ C(<<"GET", b>>, TRUE, "answer") \in Regulars /\ C(<<"GET", b, y>>, TRUE, "answer") \in Regulars
  <2> DEFINE yes == TRUE
  <2>1. yes \in BOOLEAN /\ (yes <=> "answer" \in Answering) /\ "answer" = DoesTwo("GET", b, yes)
    BY <1>3
  <2> HIDE DEF yes
  <2>2. C(<<"GET", b>>, yes, "answer") \in Regulars /\ C(<<"GET", b, y>>, yes, "answer") \in Regulars
    BY <1>1, <1>3, <2>1, RegularTwo, RegularThree
  <2> QED BY <2>2 DEF yes
<1>6. /\ C(<<"SET">> \o <<b>>, FALSE, does) \in Regulars /\ C(<<"SET">> \o <<b, y>>, FALSE, does) \in Regulars
      /\ C(<<"GET">> \o <<b>>, TRUE, "answer") \in Regulars /\ C(<<"GET">> \o <<b, y>>, TRUE, "answer") \in Regulars
  BY <1>2, <1>4, <1>5
<1>7. \A u, v \in Regulars : <<u, v>> \in Seq(Regulars)
  OBVIOUS
<1> QED BY <1>6, <1>7 DEF SetAndGet

\* The commands for the parameters of the PID.
LEMMA RegularPid ==
    ASSUME NEW verb \in {"SET", "GET"}, NEW query \in BOOLEAN, NEW does \in Tasks,
           query <=> does \in Answering, does = DoesTwo(verb, "PID", query)
    PROVE  PidCommands(verb, query, does) \in Seq(Regulars)
<1> DEFINE k == <<"Kc", "Ti", "Td">>
           entry(i) == C(<<verb, "PID", k[((i - 1) % 3) + 1], IF i <= 3 THEN "AC" ELSE "BD">>, query, does)
<1>1. /\ verb \in Words /\ verb \notin Commons /\ "PID" \in Words
      /\ \A y \in {"Kc", "Ti", "Td"} : y \in Words
      /\ \A z \in {"AC", "BD"} : z \in Words /\ z \notin {"NEXT", "EVENt"}
  BY DEF Words, Commons
<1>2. ASSUME NEW i \in 1..6 PROVE entry(i) \in Regulars
  <2> DEFINE m == ((i - 1) % 3) + 1
             z == IF i <= 3 THEN "AC" ELSE "BD"
  <2>1. m = 1 \/ m = 2 \/ m = 3
    OBVIOUS
  <2> HIDE DEF m
  <2>2. k[m] \in {"Kc", "Ti", "Td"}
    BY <2>1
  <2>3. z \in {"AC", "BD"}
    OBVIOUS
  <2> HIDE DEF k, z
  <2>4. C(<<verb, "PID", k[m], z>>, query, does) \in Regulars
    <3>1. k[m] \in Words /\ z \in Words /\ z \notin {"NEXT", "EVENt"}
      BY <1>1, <2>2, <2>3
    <3> QED BY <1>1, <3>1, RegularFour
  <2> QED BY <2>4 DEF m, z
<1> HIDE DEF entry
<1>3. [i \in 1..6 |-> entry(i)] \in Seq(Regulars)
  BY <1>2
<1>4. PidCommands(verb, query, does) = [i \in 1..6 |-> entry(i)]
  BY DEF PidCommands, entry
<1> QED BY <1>3, <1>4

\* Every command of the table is as it should be.
LEMMA TableRegular == Commands \in Seq(Regulars)
<1>1. \A w \in {"SYSTem", "ERRor", "NEXT", "COUNt", "VERSion", "STATus", "QUEStionable", "EVENt",
               "ENABle", "PRESet", "MEASure", "TEMPerature", "ATTEnuation", "SETPoint",
               "TEMPControl", "AUTOmatic", "OUTput", "IPAddr", "GATEwayaddr", "NETMask",
               "DHCPMode", "VERsion", "RESet", "SET", "GET", "DAC", "PID"} : w \in Words /\ w \notin Commons
  BY DEF Words, Commons
<1>2. \A w \in {"*CLS", "*ESE", "*ESR", "*IDN", "*OPC", "*RST", "*SRE", "*STB", "*TST", "*WAI"} : w \in Words /\ w \in Commons
  BY DEF Words, Commons
<1>3. \A t \in {"act", "answer", "measure", "number", "attenuation", "dac", "integer", "bool", "address"} : t \in Tasks
  BY DEF Tasks
<1>4. \A t \in {"act", "number", "attenuation", "dac", "integer", "bool", "address"} : t \notin Answering
  BY DEF Answering
<1>5. "answer" \in Answering /\ "measure" \in Answering
  BY DEF Answering
<1> DEFINE yes == TRUE
           no == FALSE
<1>6. yes \in BOOLEAN /\ no \in BOOLEAN /\ yes /\ ~no
  OBVIOUS
<1> HIDE DEF yes, no
<1>7. ASSUME NEW w \in {"*ESE", "*ESR", "*IDN", "*OPC", "*SRE", "*STB", "*TST"}
      PROVE  C(<<w>>, yes, "answer") \in Regulars
  <2>1. w \in Words /\ w \in Commons
    BY <1>2
  <2> QED BY <1>3, <1>5, <1>6, <2>1, RegularOne
<1>8. ASSUME NEW w \in {"*CLS", "*OPC", "*RST", "*WAI"}
      PROVE  C(<<w>>, no, "act") \in Regulars
  <2>1. w \in Words /\ w \in Commons /\ w \notin {"*ESE", "*SRE"}
    BY <1>2
  <2> QED BY <1>3, <1>4, <1>6, <2>1, RegularOne
<1>9. ASSUME NEW w \in {"*ESE", "*SRE"}
      PROVE  C(<<w>>, no, "integer") \in Regulars
  <2>1. w \in Words /\ w \in Commons
    BY <1>2
  <2> QED BY <1>3, <1>4, <1>6, <2>1, RegularOne
<1>10. /\ C(<<"*CLS">>, no, "act") \in Regulars
       /\ C(<<"*ESE">>, no, "integer") \in Regulars
       /\ C(<<"*ESE">>, yes, "answer") \in Regulars
       /\ C(<<"*ESR">>, yes, "answer") \in Regulars
       /\ C(<<"*IDN">>, yes, "answer") \in Regulars
       /\ C(<<"*OPC">>, no, "act") \in Regulars
       /\ C(<<"*OPC">>, yes, "answer") \in Regulars
       /\ C(<<"*RST">>, no, "act") \in Regulars
       /\ C(<<"*SRE">>, no, "integer") \in Regulars
       /\ C(<<"*SRE">>, yes, "answer") \in Regulars
       /\ C(<<"*STB">>, yes, "answer") \in Regulars
       /\ C(<<"*TST">>, yes, "answer") \in Regulars
       /\ C(<<"*WAI">>, no, "act") \in Regulars
  BY <1>7, <1>8, <1>9
<1>11. \A a, b \in {"SYSTem", "STATus", "ERRor", "QUEStionable", "VERSion", "PRESet", "VERsion", "RESet", "GET"} :
          /\ a # "MEASure" => "answer" = DoesTwo(a, b, yes)
          /\ a # "SET" /\ b # "QUEStionable" => "act" = DoesTwo(a, b, no)
          /\ a # "SET" /\ b = "QUEStionable" => "integer" = DoesTwo(a, b, no)
  BY <1>6 DEF DoesTwo
<1>12. ASSUME NEW z \in {"NEXT", "COUNt"} PROVE C(<<"SYSTem", "ERRor", z>>, yes, "answer") \in Regulars
  <2>1. "answer" = DoesTwo("SYSTem", "ERRor", yes)
    BY <1>11
  <2> QED BY <1>1, <1>3, <1>5, <1>6, <2>1, RegularThree
<1>13. ASSUME NEW z \in {"EVENt", "ENABle"} PROVE C(<<"STATus", "QUEStionable", z>>, yes, "answer") \in Regulars
  <2>1. "answer" = DoesTwo("STATus", "QUEStionable", yes)
    BY <1>11
  <2> QED BY <1>1, <1>3, <1>5, <1>6, <2>1, RegularThree
<1>14. C(<<"STATus", "QUEStionable", "ENABle">>, no, "integer") \in Regulars
  <2>1. "integer" = DoesTwo("STATus", "QUEStionable", no)
    BY <1>11
  <2> QED BY <1>1, <1>3, <1>4, <1>6, <2>1, RegularThree
<1>15. C(<<"SYSTem", "VERSion">>, yes, "answer") \in Regulars /\ C(<<"GET", "VERsion">>, yes, "answer") \in Regulars
  <2>1. "answer" = DoesTwo("SYSTem", "VERSion", yes) /\ "answer" = DoesTwo("GET", "VERsion", yes)
    BY <1>11
  <2> QED BY <1>1, <1>3, <1>5, <1>6, <2>1, RegularTwo
<1>16. C(<<"STATus", "PRESet">>, no, "act") \in Regulars /\ C(<<"SYSTem", "RESet">>, no, "act") \in Regulars
  <2>1. "act" = DoesTwo("STATus", "PRESet", no) /\ "act" = DoesTwo("SYSTem", "RESet", no)
    BY <1>11
  <2> QED BY <1>1, <1>3, <1>4, <1>6, <2>1, RegularTwo
<1>17. /\ "measure" = DoesTwo("MEASure", "TEMPerature", yes)
       /\ "number" = DoesTwo("SET", "TEMPerature", no)
       /\ "answer" = DoesTwo("GET", "TEMPerature", yes)
       /\ "number" = DoesTwo("SET", "PID", no)
       /\ "answer" = DoesTwo("GET", "PID", yes)
       /\ "dac" = DoesTwo("SET", "DAC", no)
       /\ "answer" = DoesTwo("GET", "DAC", yes)
  BY <1>6 DEF DoesTwo
<1>18. /\ "attenuation" = DoesTwo("SET", "ATTEnuation", FALSE)
       /\ "bool" = DoesTwo("SET", "TEMPControl", FALSE)
       /\ "bool" = DoesTwo("SET", "DHCPMode", FALSE)
       /\ \A b \in {"IPAddr", "GATEwayaddr", "NETMask"} : "address" = DoesTwo("SET", b, FALSE)
  BY DEF DoesTwo
<1> DEFINE x1 == OnBoth(<<"MEASure", "TEMPerature">>, yes, "measure")
           x2 == SetAndGet(<<"ATTEnuation">>, "attenuation")
           x3 == OnBoth(<<"SET", "TEMPerature", "SETPoint">>, no, "number")
           x4 == OnBoth(<<"GET", "TEMPerature", "SETPoint">>, yes, "answer")
           x5 == PidCommands("SET", no, "number")
           x6 == PidCommands("GET", yes, "answer")
           x7 == SetAndGet(<<"TEMPControl", "AUTOmatic">>, "bool")
           x8 == OnBoth(<<"SET", "DAC", "OUTput">>, no, "dac")
           x9 == OnBoth(<<"GET", "DAC", "OUTput">>, yes, "answer")
           x10 == SetAndGet(<<"IPAddr">>, "address")
           x11 == SetAndGet(<<"GATEwayaddr">>, "address")
           x12 == SetAndGet(<<"NETMask">>, "address")
           x13 == SetAndGet(<<"DHCPMode">>, "bool")
           x14 == <<C(<<"GET", "VERsion">>, yes, "answer"), C(<<"SYSTem", "RESet">>, no, "act")>>
<1>19. x1 \in Seq(Regulars)
  BY <1>1, <1>3, <1>5, <1>6, <1>17, RegularOnBoth
<1>20. x3 \in Seq(Regulars)
  BY <1>1, <1>3, <1>4, <1>6, <1>17, RegularOnBoth
<1>21. x4 \in Seq(Regulars)
  BY <1>1, <1>3, <1>5, <1>6, <1>17, RegularOnBoth
<1>22. x8 \in Seq(Regulars)
  BY <1>1, <1>3, <1>4, <1>6, <1>17, RegularOnBoth
<1>23. x9 \in Seq(Regulars)
  BY <1>1, <1>3, <1>5, <1>6, <1>17, RegularOnBoth
<1>24. x5 \in Seq(Regulars) /\ x6 \in Seq(Regulars)
  BY <1>3, <1>4, <1>5, <1>6, <1>17, RegularPid
<1>25. /\ x2 \in Seq(Regulars) /\ x7 \in Seq(Regulars) /\ x10 \in Seq(Regulars) /\ x11 \in Seq(Regulars)
       /\ x12 \in Seq(Regulars) /\ x13 \in Seq(Regulars)
  <2>1. ASSUME NEW b \in {"ATTEnuation", "TEMPControl", "DHCPMode", "IPAddr", "GATEwayaddr", "NETMask"},
               NEW t \in {"attenuation", "bool", "address"}, t = DoesTwo("SET", b, FALSE)
        PROVE  SetAndGet(<<b>>, t) \in Seq(Regulars) /\ SetAndGet(<<b, "AUTOmatic">>, t) \in Seq(Regulars)
    <3>1. /\ b \in Words /\ "AUTOmatic" \in Words /\ b \notin {"ERRor", "QUEStionable", "NEXT", "EVENt"}
          /\ "AUTOmatic" \notin {"NEXT", "EVENt"} /\ t \in Tasks /\ t \notin Answering
      BY <1>1, <1>3, <1>4
    <3> QED BY <2>1, <3>1, RegularSetAndGet
  <2> QED BY <1>18, <2>1
<1>26. x14 \in Seq(Regulars)
  <2>1. \A u, v \in Regulars : <<u, v>> \in Seq(Regulars)
    OBVIOUS
  <2> QED BY <1>15, <1>16, <2>1
<1> DEFINE own == <<
       C(<<"*CLS">>, no, "act"),
       C(<<"*ESE">>, no, "integer"), C(<<"*ESE">>, yes, "answer"),
       C(<<"*ESR">>, yes, "answer"), C(<<"*IDN">>, yes, "answer"), C(<<"*OPC">>, no, "act"),
       C(<<"*OPC">>, yes, "answer"), C(<<"*RST">>, no, "act"), C(<<"*SRE">>, no, "integer"),
       C(<<"*SRE">>, yes, "answer"), C(<<"*STB">>, yes, "answer"), C(<<"*TST">>, yes, "answer"),
       C(<<"*WAI">>, no, "act"),
       C(<<"SYSTem", "ERRor", "NEXT">>, yes, "answer"), C(<<"SYSTem", "ERRor", "COUNt">>, yes, "answer"),
       C(<<"SYSTem", "VERSion">>, yes, "answer"),
       C(<<"STATus", "QUEStionable", "EVENt">>, yes, "answer"),
       C(<<"STATus", "QUEStionable", "ENABle">>, no, "integer"),
       C(<<"STATus", "QUEStionable", "ENABle">>, yes, "answer"), C(<<"STATus", "PRESet">>, no, "act")>>
<1>27. ASSUME NEW a1 \in Regulars, NEW a2 \in Regulars, NEW a3 \in Regulars, NEW a4 \in Regulars, NEW a5 \in Regulars,
              NEW a6 \in Regulars, NEW a7 \in Regulars, NEW a8 \in Regulars, NEW a9 \in Regulars, NEW a10 \in Regulars,
              NEW a11 \in Regulars, NEW a12 \in Regulars, NEW a13 \in Regulars, NEW a14 \in Regulars, NEW a15 \in Regulars,
              NEW a16 \in Regulars, NEW a17 \in Regulars, NEW a18 \in Regulars, NEW a19 \in Regulars, NEW a20 \in Regulars
       PROVE  <<a1, a2, a3, a4, a5, a6, a7, a8, a9, a10, a11, a12, a13, a14, a15, a16, a17, a18, a19, a20>> \in Seq(Regulars)
  OBVIOUS
<1>28. /\ C(<<"SYSTem", "ERRor", "NEXT">>, yes, "answer") \in Regulars
       /\ C(<<"SYSTem", "ERRor", "COUNt">>, yes, "answer") \in Regulars
       /\ C(<<"STATus", "QUEStionable", "EVENt">>, yes, "answer") \in Regulars
       /\ C(<<"STATus", "QUEStionable", "ENABle">>, yes, "answer") \in Regulars
  BY <1>12, <1>13
<1>29. own \in Seq(Regulars)
  BY <1>10, <1>14, <1>15, <1>16, <1>27, <1>28, Zenon
<1>30. \A s, t \in Seq(Regulars) : s \o t \in Seq(Regulars)
  OBVIOUS
<1>31. Commands = own \o x1 \o x2 \o x3 \o x4 \o x5 \o x6 \o x7 \o x8 \o x9 \o x10 \o x11 \o x12 \o x13 \o x14
  BY DEF Commands, yes, no
<1> HIDE DEF own, x1, x2, x3, x4, x5, x6, x7, x8, x9, x10, x11, x12, x13, x14
<1> QED BY <1>19, <1>20, <1>21, <1>22, <1>23, <1>24, <1>25, <1>26, <1>29, <1>30, <1>31

\* The keyword that a short form is of; of Ti and Td neither.
Long(v) ==
    CASE v = "SYST" -> "SYSTem" [] v = "ERR" -> "ERRor" [] v = "COUN" -> "COUNt" [] v = "VERS" -> "VERSion"
      [] v = "STAT" -> "STATus" [] v = "QUES" -> "QUEStionable" [] v = "EVEN" -> "EVENt" [] v = "ENAB" -> "ENABle"
      [] v = "PRES" -> "PRESet" [] v = "MEAS" -> "MEASure" [] v = "TEMP" -> "TEMPerature" [] v = "ATTE" -> "ATTEnuation"
      [] v = "SETP" -> "SETPoint" [] v = "K" -> "Kc" [] v = "T" -> "" [] v = "TEMPC" -> "TEMPControl"
      [] v = "AUTO" -> "AUTOmatic" [] v = "OUT" -> "OUTput" [] v = "IPA" -> "IPAddr" [] v = "GATE" -> "GATEwayaddr"
      [] v = "NETM" -> "NETMask" [] v = "DHCPM" -> "DHCPMode" [] v = "VER" -> "VERsion" [] v = "RES" -> "RESet"
Keys == {"SYSTem", "ERRor", "COUNt", "VERSion", "STATus", "QUEStionable", "EVENt", "ENABle", "PRESet", "MEASure",
         "TEMPerature", "ATTEnuation", "SETPoint", "Kc", "Ti", "Td", "TEMPControl", "AUTOmatic", "OUTput",
         "IPAddr", "GATEwayaddr", "NETMask", "DHCPMode", "VERsion", "RESet"}
Shorts == {"SYST", "ERR", "COUN", "VERS", "STAT", "QUES", "EVEN", "ENAB", "PRES", "MEAS", "TEMP", "ATTE", "SETP", "K",
           "T", "TEMPC", "AUTO", "OUT", "IPA", "GATE", "NETM", "DHCPM", "VER", "RES"}

\* No two keywords have the same short form, but for Ti and Td.
LEMMA ShortForms ==
    /\ DOMAIN Short = Keys /\ Range(Short) = Shorts
    /\ \A w \in Keys \ {"Ti", "Td"} : Long(Short[w]) = w
    /\ Long(Short["Ti"]) = "" /\ Long(Short["Td"]) = ""
<1>1. DOMAIN Short = Keys
  BY DEF Short, Keys
<1>2. /\ Short["SYSTem"] = "SYST" /\ Short["ERRor"] = "ERR" /\ Short["COUNt"] = "COUN" /\ Short["VERSion"] = "VERS"
      /\ Short["STATus"] = "STAT" /\ Short["QUEStionable"] = "QUES" /\ Short["EVENt"] = "EVEN"
      /\ Short["ENABle"] = "ENAB" /\ Short["PRESet"] = "PRES" /\ Short["MEASure"] = "MEAS"
      /\ Short["TEMPerature"] = "TEMP" /\ Short["ATTEnuation"] = "ATTE" /\ Short["SETPoint"] = "SETP"
      /\ Short["Kc"] = "K" /\ Short["Ti"] = "T" /\ Short["Td"] = "T" /\ Short["TEMPControl"] = "TEMPC"
      /\ Short["AUTOmatic"] = "AUTO" /\ Short["OUTput"] = "OUT" /\ Short["IPAddr"] = "IPA"
      /\ Short["GATEwayaddr"] = "GATE" /\ Short["NETMask"] = "NETM" /\ Short["DHCPMode"] = "DHCPM"
      /\ Short["VERsion"] = "VER" /\ Short["RESet"] = "RES"
  BY DEF Short
<1>3. Range(Short) = {Short[w] : w \in Keys}
  BY <1>1 DEF Range
<1>4. Range(Short) = Shorts
  BY <1>2, <1>3 DEF Keys, Shorts
<1>5. \A w \in Keys \ {"Ti", "Td"} : Long(Short[w]) = w
  <2>1. /\ Long("SYST") = "SYSTem" /\ Long("ERR") = "ERRor" /\ Long("COUN") = "COUNt" /\ Long("VERS") = "VERSion"
      /\ Long("STAT") = "STATus" /\ Long("QUES") = "QUEStionable" /\ Long("EVEN") = "EVENt" /\ Long("ENAB") = "ENABle"
      /\ Long("PRES") = "PRESet" /\ Long("MEAS") = "MEASure" /\ Long("TEMP") = "TEMPerature" /\ Long("ATTE") = "ATTEnuation"
      /\ Long("SETP") = "SETPoint" /\ Long("K") = "Kc" /\ Long("TEMPC") = "TEMPControl" /\ Long("AUTO") = "AUTOmatic"
      /\ Long("OUT") = "OUTput" /\ Long("IPA") = "IPAddr" /\ Long("GATE") = "GATEwayaddr" /\ Long("NETM") = "NETMask"
      /\ Long("DHCPM") = "DHCPMode" /\ Long("VER") = "VERsion" /\ Long("RES") = "RESet"
    BY DEF Long
  <2> QED BY <1>2, <2>1 DEF Keys
<1>6. Long(Short["Ti"]) = "" /\ Long(Short["Td"]) = ""
  BY <1>2 DEF Long
<1> QED BY <1>1, <1>4, <1>5, <1>6

\* A word that is neither a mark nor a short form, and one way to write it.
Sayable(w) == w \notin PatternMarks \cup {"EOS"} \cup Range(Short)
Said(w, v) == Sayable(w) /\ (v = w \/ (v = ShortForm(w) /\ w \notin {"Ti", "Td"}))

\* The words of the table are no short forms of others.
LEMMA WordsSayable == \A w \in Words : Sayable(w)
<1>1. \A w \in Words : w \notin PatternMarks \cup {"EOS"}
  BY DEF Words, PatternMarks
<1>2. \A w \in Words : w \notin Shorts
  BY DEF Words, Shorts
<1> QED BY <1>1, <1>2, ShortForms DEF Sayable

\* A word that is said is alike to the keyword it is of and to no other.
LEMMA SaidWords ==
    ASSUME NEW w, NEW v, Said(w, v)
    PROVE  /\ v \notin PatternMarks \cup {"EOS"}
           /\ \A p \in Words : v \in {p, ShortForm(p)} <=> w = p
<1>1. v = w \/ (w \in Keys /\ v = Short[w] /\ w \notin {"Ti", "Td"})
  BY ShortForms DEF Said, ShortForm
<1>2. w \notin PatternMarks \cup {"EOS"} /\ w \notin Shorts
  BY ShortForms DEF Said, Sayable
<1>3. \A x \in Keys : Short[x] \in Shorts
  BY ShortForms DEF Range
<1>4. \A s \in Shorts : s \notin PatternMarks \cup {"EOS"}
  BY DEF Shorts, PatternMarks
<1>5. v \notin PatternMarks \cup {"EOS"}
  BY <1>1, <1>2, <1>3, <1>4
<1>6. ASSUME NEW p \in Words PROVE v \in {p, ShortForm(p)} <=> w = p
  <2>1. p \notin Shorts
    BY WordsSayable, ShortForms DEF Sayable
  <2>2. ShortForm(p) = p \/ (p \in Keys /\ ShortForm(p) = Short[p])
    BY ShortForms DEF ShortForm
  <2>3. w = p => v \in {p, ShortForm(p)}
    BY DEF Said
  <2>4. ASSUME v = p PROVE w = p
    BY <1>1, <1>3, <2>1, <2>4
  <2>5. ASSUME p \in Keys, v = Short[p] PROVE w = p
    <3>1. v \in Shorts
      BY <1>3, <2>5
    <3>2. v # w
      BY <1>2, <3>1
    <3>3. w \in Keys /\ v = Short[w] /\ w \notin {"Ti", "Td"}
      BY <1>1, <3>2
    <3>4. Long(v) = w
      BY <3>3, ShortForms
    <3>5. CASE p \in {"Ti", "Td"}
      <4>1. Long(v) = ""
        BY <2>5, <3>5, ShortForms
      <4>2. "" \notin Keys
        BY DEF Keys
      <4> QED BY <3>3, <3>4, <4>1, <4>2
    <3>6. CASE p \notin {"Ti", "Td"}
      <4>1. Long(v) = p
        BY <2>5, <3>6, ShortForms
      <4> QED BY <3>4, <4>1
    <3> QED BY <3>5, <3>6
  <2> QED BY <2>2, <2>3, <2>4, <2>5
<1> QED BY <1>5, <1>6

\* What the table gives of a command of it.
LEMMA TableEntry ==
    ASSUME NEW c \in Range(Commands)
    PROVE  /\ c \in Regulars /\ c.path \in Seq(Words) /\ c.path # << >> /\ c.query \in BOOLEAN
           /\ Keywords(c.path) /\ (OptionalEnd(c.path) => Len(c.path) = 3)
           /\ c # NoCommand
<1>1. c \in Regulars
  <2>1. PICK i \in DOMAIN Commands : c = Commands[i]
    BY DEF Range
  <2> QED BY <2>1, TableRegular
<1>2. c.path \in Seq(Words) /\ c.query \in BOOLEAN /\ Regular(c)
  BY <1>1 DEF Regulars, Entry
<1>3. Keywords(c.path)
  <2>1. \A k \in 1..Len(c.path) : c.path[k] \in Words
    BY <1>2
  <2> QED BY <2>1, WordsSayable DEF Keywords, Sayable
<1>4. OptionalEnd(c.path) => Len(c.path) = 3
  <2>1. OptionalEnd(c.path) => c.path = <<"SYSTem", "ERRor", "NEXT">> \/ c.path = <<"STATus", "QUEStionable", "EVENt">>
    BY <1>2 DEF Regular
  <2> QED BY <2>1
<1>5. c.path # << >>
  BY <1>2 DEF Regular
<1>6. c # NoCommand
  BY <1>5 DEF NoCommand, C
<1> QED BY <1>1, <1>2, <1>3, <1>4, <1>5, <1>6

\* The ways to write a path.
Spelling(vs, full) == Len(vs) = Len(full) /\ \A k \in 1..Len(full) : Said(full[k], vs[k])

\* A spelling is alike to the paths of the commands that the path names.
LEMMA AlikeIsNamed ==
    ASSUME NEW c \in Range(Commands), NEW S, NEW full \in Seq(S), full # << >>, NEW vs \in Seq(S), Spelling(vs, full)
    PROVE  Alike(c.path, OptionalEnd(c.path), vs) <=> full \in Spellings(c)
<1> DEFINE path == c.path
           opt == OptionalEnd(path)
           n == Len(path)
           l == Len(full)
           f == Front(path)
<1>1. path \in Seq(Words) /\ path # << >> /\ (opt => n = 3)
  BY TableEntry
<1>2. l = Len(vs) /\ \A k \in 1..l : Said(full[k], vs[k])
  BY DEF Spelling
<1>3. n \in Nat /\ n > 0 /\ l \in Nat
  BY <1>1
<1>4. \A k \in 1..n : path[k] \in Words
  BY <1>1
<1>5. ASSUME NEW k \in 1..l, k \in 1..n
      PROVE  vs[k] \in {path[k], ShortForm(path[k])} <=> full[k] = path[k]
  BY <1>2, <1>4, <1>5, SaidWords
<1>6. f \in Seq(Words) /\ Len(f) = n - 1 /\ \A k \in 1..(n - 1) : f[k] = path[k]
  BY <1>1, <1>3 DEF Front
<1>7. full = path <=> l = n /\ \A k \in 1..l : full[k] = path[k]
  <2>1. full \in Seq(S \cup Words) /\ path \in Seq(S \cup Words)
    BY <1>1
  <2> QED BY <2>1, SeqEqual
<1>8. full = f <=> l = n - 1 /\ \A k \in 1..l : full[k] = f[k]
  <2>1. full \in Seq(S \cup Words) /\ f \in Seq(S \cup Words)
    BY <1>6
  <2> HIDE DEF f
  <2> QED BY <1>6, <2>1, SeqEqual
<1>9. full \in Spellings(c) <=> full = path \/ (opt /\ full = f)
  BY DEF Spellings
<1>10. Alike(path, opt, vs) <=> /\ l = n \/ (opt /\ l = n - 1)
                                /\ \A k \in 1..l : vs[k] \in {path[k], ShortForm(path[k])}
  BY <1>2 DEF Alike
<1> HIDE DEF path, opt, n, l, f
<1>11. CASE l = n
  <2>1. l # n - 1
    BY <1>3, <1>11
  <2>2. (\A k \in 1..l : vs[k] \in {path[k], ShortForm(path[k])}) <=> \A k \in 1..l : full[k] = path[k]
    BY <1>5, <1>11
  <2>3. Alike(path, opt, vs) <=> full \in Spellings(c)
    BY <1>7, <1>8, <1>9, <1>10, <1>11, <2>1, <2>2
  <2> QED BY <2>3 DEF path, opt
<1>12. CASE l = n - 1
  <2>1. l # n /\ \A k \in 1..l : k \in 1..n
    BY <1>3, <1>12
  <2>2. (\A k \in 1..l : vs[k] \in {path[k], ShortForm(path[k])}) <=> \A k \in 1..l : full[k] = f[k]
    BY <1>5, <1>6, <1>12, <2>1
  <2>3. Alike(path, opt, vs) <=> full \in Spellings(c)
    BY <1>7, <1>8, <1>9, <1>10, <1>12, <2>1, <2>2
  <2> QED BY <2>3 DEF path, opt
<1>13. CASE l # n /\ l # n - 1
  <2>1. Alike(path, opt, vs) <=> full \in Spellings(c)
    BY <1>7, <1>8, <1>9, <1>10, <1>13
  <2> QED BY <2>1 DEF path, opt
<1> QED BY <1>11, <1>12, <1>13

\* The commands of the table that a path names: one or none.
NamedBy(full, query) == {c \in Range(Commands) : c.query = query /\ full \in Spellings(c)}

\* A path names one command at most.
LEMMA NamesOne ==
    ASSUME NEW full, NEW query, NEW c \in NamedBy(full, query), NEW e \in NamedBy(full, query)
    PROVE  c = e
<1> DEFINE Two == {<<"SYSTem", "ERRor", "NEXT">>, <<"STATus", "QUEStionable", "EVENt">>}
<1>1. c \in Range(Commands) /\ e \in Range(Commands) /\ c.query = e.query /\ full \in Spellings(c) /\ full \in Spellings(e)
  BY DEF NamedBy
<1>2. c \in Entry /\ e \in Entry /\ Regular(c) /\ Regular(e)
  BY <1>1, TableEntry DEF Regulars
<1>3. \A x \in {c, e} : /\ x.path # <<"SYSTem", "ERRor">> /\ x.path # <<"STATus", "QUEStionable">>
                        /\ OptionalEnd(x.path) => x.path \in Two
                        /\ x.does = DoesOf(x.path, x.query)
                        /\ full = x.path \/ (OptionalEnd(x.path) /\ full = Front(x.path))
  BY <1>1, <1>2 DEF Regular, Spellings
<1>4. /\ Front(<<"SYSTem", "ERRor", "NEXT">>) = <<"SYSTem", "ERRor">>
      /\ Front(<<"STATus", "QUEStionable", "EVENt">>) = <<"STATus", "QUEStionable">>
      /\ <<"SYSTem", "ERRor">> # <<"STATus", "QUEStionable">>
  <2>1. ASSUME NEW a \in Words, NEW b \in Words, NEW z \in Words PROVE Front(<<a, b, z>>) = <<a, b>>
    <3> DEFINE s == <<a, b, z>>
               u == <<a, b>>
    <3>1. /\ s \in Seq(Words) /\ Len(s) = 3 /\ s[1] = a /\ s[2] = b
          /\ u \in Seq(Words) /\ Len(u) = 2 /\ u[1] = a /\ u[2] = b
      OBVIOUS
    <3> HIDE DEF s, u
    <3>2. Len(s) - 1 = 2
      BY <3>1
    <3>3. Front(s) = SubSeq(s, 1, 2)
      BY <3>2 DEF Front
    <3>4. SubSeq(s, 1, 2) \in Seq(Words) /\ Len(SubSeq(s, 1, 2)) = 2 /\ \A i \in 1..2 : SubSeq(s, 1, 2)[i] = s[i]
      BY <3>1
    <3>5. \A i \in 1..2 : SubSeq(s, 1, 2)[i] = u[i]
      <4>1. \A i \in 1..2 : i = 1 \/ i = 2
        OBVIOUS
      <4> QED BY <3>1, <3>4, <4>1
    <3>6. SubSeq(s, 1, 2) = u
      BY <3>1, <3>4, <3>5, SeqEqual
    <3> QED BY <3>3, <3>6 DEF s, u
  <2>2. "SYSTem" \in Words /\ "ERRor" \in Words /\ "NEXT" \in Words /\ "STATus" \in Words /\ "QUEStionable" \in Words /\ "EVENt" \in Words
    BY DEF Words
  <2>3. <<"SYSTem", "ERRor">> # <<"STATus", "QUEStionable">>
    OBVIOUS
  <2> QED BY <2>1, <2>2, <2>3
<1>5. c.path = e.path
  <2>1. CASE full = c.path /\ full = e.path
    BY <2>1
  <2>2. CASE OptionalEnd(c.path) /\ full = Front(c.path) /\ full = e.path
    BY <1>3, <1>4, <2>2
  <2>3. CASE OptionalEnd(e.path) /\ full = Front(e.path) /\ full = c.path
    BY <1>3, <1>4, <2>3
  <2>4. CASE OptionalEnd(c.path) /\ full = Front(c.path) /\ OptionalEnd(e.path) /\ full = Front(e.path)
    BY <1>3, <1>4, <2>4
  <2> QED BY <1>3, <2>1, <2>2, <2>3, <2>4
<1>6. c.does = e.does
  BY <1>1, <1>3, <1>5
<1> QED BY <1>1, <1>2, <1>5, <1>6 DEF Entry

\* A set of one element, or of none, as a sequence.
LEMMA ListOfOne == SetToSeq({}) = << >> /\ \A c : SetToSeq({c}) = <<c>>
<1>1. SetToSeq({}) = << >>
  <2>1. Cardinality({}) = 0 /\ 1..0 = {}
    BY FS_EmptySet
  <2>2. \A f : f \in [1..0 -> {}] <=> f = << >>
    <3>1. ASSUME NEW f \in [1..0 -> {}] PROVE f = << >>
      <4>1. f \in Seq({}) /\ Len(f) = 0
        OBVIOUS
      <4> QED BY <4>1, EmptySeq
    <3>2. << >> \in [1..0 -> {}]
      <4>1. << >> \in Seq({}) /\ Len(<< >>) = 0
        OBVIOUS
      <4> QED BY <4>1, LenProperties
    <3> QED BY <3>1, <3>2
  <2>3. IsInjective(<< >>)
    BY DEF IsInjective
  <2> DEFINE P(f) == f \in [1..Cardinality({}) -> {}] /\ IsInjective(f)
  <2>4. \A f : P(f) <=> f = << >>
    BY <2>1, <2>2, <2>3
  <2>5. SetToSeq({}) = CHOOSE f : P(f)
    BY Zenon DEF SetToSeq
  <2>6. P(CHOOSE f : P(f))
    <3> HIDE DEF P
    <3>1. P(<< >>)
      BY <2>4
    <3> QED BY <3>1, Zenon
  <2> HIDE DEF P
  <2> QED BY <2>4, <2>5, <2>6, Zenon
<1>2. ASSUME NEW c PROVE SetToSeq({c}) = <<c>>
  <2>1. Cardinality({c}) = 1
    BY FS_Singleton
  <2>2. \A f : f \in [1..1 -> {c}] <=> f = <<c>>
    <3>1. \A f \in [1..1 -> {c}] : f = <<c>>
      OBVIOUS
    <3>2. <<c>> \in [1..1 -> {c}]
      OBVIOUS
    <3> QED BY <3>1, <3>2
  <2>3. IsInjective(<<c>>)
    BY DEF IsInjective
  <2> DEFINE P(f) == f \in [1..Cardinality({c}) -> {c}] /\ IsInjective(f)
  <2>4. \A f : P(f) <=> f = <<c>>
    BY <2>1, <2>2, <2>3
  <2>5. SetToSeq({c}) = CHOOSE f : P(f)
    BY Zenon DEF SetToSeq
  <2>6. P(CHOOSE f : P(f))
    <3> HIDE DEF P
    <3>1. P(<<c>>)
      BY <2>4
    <3> QED BY <3>1, Zenon
  <2> HIDE DEF P
  <2> QED BY <2>4, <2>5, <2>6, Zenon
<1> QED BY <1>1, <1>2

\* The parser finds the command that a header names, or none.
Finds(found, named) ==
    /\ found = NoCommand <=> named = {}
    /\ found # NoCommand => found \in named /\ found \in Regulars
    /\ SetToSeq(named) = IF found = NoCommand THEN << >> ELSE <<found>>

\* So does findCommandHeader.
LEMMA FoundIsNamed ==
    ASSUME NEW S, NEW h \in Seq(S), NEW root \in BOOLEAN, NEW full \in Seq(S), full # << >>, NEW vs \in Seq(S),
           NEW query \in BOOLEAN, Header(h, root, vs, query), Spelling(vs, full), root => vs[1] \notin Commons
    PROVE  Finds(findCommandHeader(h), NamedBy(full, query))
<1> DEFINE T == S \cup Words \cup Marks \cup PatternMarks
           named == NamedBy(full, query)
           found == {i \in DOMAIN Commands : matchCommand(Commands[i], h)}
           c == findCommandHeader(h)
<1>1. /\ Marks \cup PatternMarks \subseteq T /\ h \in Seq(T) /\ vs \in Seq(T) /\ vs # << >>
      /\ Seq(Words) \subseteq Seq(T)
  <2>1. vs # << >>
    BY DEF Spelling
  <2> QED BY <2>1
<1>2. Keywords(vs)
  BY SaidWords DEF Spelling, Keywords
<1>3. ASSUME NEW e \in Range(Commands) PROVE matchCommand(e, h) <=> e \in named
  <2>1. /\ e.path \in Seq(T) /\ e.path # << >> /\ e.query \in BOOLEAN /\ Keywords(e.path)
        /\ OptionalEnd(e.path) => Len(e.path) >= 2
    <3>1. /\ e.path \in Seq(Words) /\ e.path # << >> /\ e.query \in BOOLEAN /\ Keywords(e.path)
          /\ OptionalEnd(e.path) => Len(e.path) = 3
      BY TableEntry
    <3>2. 3 >= 2
      OBVIOUS
    <3> HIDE DEF T
    <3> QED BY <1>1, <3>1, <3>2
  <2> HIDE DEF T
  <2>2. matchCommand(e, h) <=> e.query = query /\ Alike(e.path, OptionalEnd(e.path), vs)
    BY <1>1, <1>2, <2>1, CommandMatches
  <2>3. Alike(e.path, OptionalEnd(e.path), vs) <=> full \in Spellings(e)
    BY AlikeIsNamed
  <2> QED BY <2>2, <2>3 DEF NamedBy
<1>4. named \subseteq Range(Commands)
  BY DEF NamedBy
<1>5. Range(Commands) = {Commands[i] : i \in DOMAIN Commands}
  BY DEF Range
<1>6. found = {} <=> named = {}
  <2> HIDE DEF named
  <2> QED BY <1>3, <1>4, <1>5
<1>7. CASE named = {}
  <2>1. c = NoCommand
    BY <1>6, <1>7 DEF findCommandHeader
  <2>2. SetToSeq(named) = << >>
    BY <1>7, ListOfOne
  <2> QED BY <1>7, <2>1, <2>2 DEF Finds
<1>8. CASE named # {}
  <2>1. found # {} /\ c = Commands[Min(found)]
    BY <1>6, <1>8 DEF findCommandHeader
  <2>2. found \subseteq Nat /\ found \subseteq DOMAIN Commands
    <3>1. DOMAIN Commands \subseteq Nat
      BY CommandTable
    <3> QED BY <3>1
  <2>3. \A i \in found : matchCommand(Commands[i], h)
    OBVIOUS
  <2> HIDE DEF found, named
  <2>4. \E x \in found : \A y \in found : x <= y
    BY <2>1, <2>2, Smallest
  <2>5. Min(found) \in found
    BY <2>4 DEF Min
  <2>6. c \in Range(Commands) /\ matchCommand(c, h)
    BY <1>5, <2>1, <2>2, <2>3, <2>5
  <2>7. c \in named /\ c \in Regulars /\ c # NoCommand
    BY <1>3, <2>6, TableEntry
  <2>8. named = {c}
    BY <2>7, NamesOne DEF named
  <2>9. SetToSeq(named) = <<c>>
    BY <2>8, ListOfOne
  <2>10. Finds(c, named)
    BY <1>8, <2>7, <2>9 DEF Finds
  <2> QED BY <2>10 DEF named
<1> QED BY <1>7, <1>8

\* A unit that the client writes as it should: words that are no short forms, or
\* the short forms of all but Ti and Td, and simple parameters.
Word(w) == IsWord(w) /\ Sayable(w)
Plain(u) ==
    /\ \/ Len(u.path) = 1 /\ u.path[1] \in Commons /\ ~u.root
       \/ \A k \in 1..Len(u.path) : Word(u.path[k]) /\ (u.short => u.path[k] \notin {"Ti", "Td"})
    /\ \A k \in 1..Len(u.args) : PlainArg(u.args[k])

\* How such a unit is written.
LEMMA PlainIsSpelt ==
    ASSUME NEW S, Cellular(S), NEW u \in Unit(S), Plain(u)
    PROVE  /\ Spelling(Spelt(u), u.path) /\ Readable(u.root, Spelt(u)) /\ WellFormed(u)
           /\ Spelt(u)[1] \in Commons <=> u.path[1] \in Commons
           /\ Spelt(u)[1] # ":"
           /\ u.path[1] \in Commons => ~u.root /\ Len(u.path) = 1
           /\ u.path[1] \notin Commons => \A k \in 1..Len(u.path) : u.path[k] \notin Commons
<1> DEFINE v == Spelt(u)
           w == u.path
           n == Len(w)
<1>1. w \in Seq(S) /\ w # << >> /\ n \in Nat /\ n > 0 /\ 1 \in 1..n /\ u.root \in BOOLEAN /\ u.args \in Seq(Seq(S))
  BY DEF Unit
<1>2. /\ v \in Seq(S) /\ Len(v) = n
      /\ \A k \in 1..n : v[k] = IF u.short THEN ShortForm(w[k]) ELSE w[k]
  BY SpeltShape
<1>3. \A s \in Shorts : IsWord(s) /\ s \notin Commons /\ s # ":"
  BY DEF Shorts, IsWord, Marks, Numbers, Texts, Commons
<1>4. \A s \in Commons : s \notin Keys /\ s \notin Shorts /\ s \notin PatternMarks \cup {"EOS"} /\ s # ":"
  BY DEF Commons, Keys, Shorts, PatternMarks
<1>5. \A s : ShortForm(s) = s \/ (s \in Keys /\ ShortForm(s) \in Shorts)
  BY ShortForms DEF ShortForm, Range
<1>6. \A s : IsWord(s) => s \notin Commons /\ s # ":"
  BY DEF IsWord, Marks
<1>7. WellFormed(u)
  <2>1. \A k \in 1..Len(u.args) : PlainArg(u.args[k])
    BY DEF Plain
  <2>2. DOMAIN u.args = 1..Len(u.args)
    BY <1>1
  <2> QED BY <2>1, <2>2 DEF PlainArg, WellFormed
<1> HIDE DEF v, w, n
<1>8. CASE n = 1 /\ w[1] \in Commons /\ ~u.root
  <2>1. v[1] = w[1]
    BY <1>1, <1>2, <1>4, <1>5, <1>8
  <2>2. Said(w[1], v[1])
    BY <1>4, <1>8, <2>1, ShortForms DEF Said, Sayable
  <2>3. \A k \in 1..n : k = 1
    BY <1>8
  <2>4. Spelling(v, w)
    BY <1>2, <2>2, <2>3 DEF Spelling, n
  <2>5. Readable(u.root, v) /\ v[1] \in Commons /\ v[1] # ":"
    BY <1>2, <1>4, <1>8, <2>1 DEF Readable
  <2> QED BY <1>7, <1>8, <2>4, <2>5 DEF v, w, n
<1>9. CASE \A k \in 1..n : Word(w[k]) /\ (u.short => w[k] \notin {"Ti", "Td"})
  <2>1. ASSUME NEW k \in 1..n PROVE Said(w[k], v[k]) /\ IsWord(v[k]) /\ w[k] \notin Commons
    <3>1. IsWord(w[k]) /\ Sayable(w[k]) /\ (u.short => w[k] \notin {"Ti", "Td"})
      BY <1>9 DEF Word
    <3>2. v[k] = w[k] \/ (v[k] = ShortForm(w[k]) /\ w[k] \notin {"Ti", "Td"})
      BY <1>2, <3>1
    <3>3. IsWord(v[k])
      BY <1>3, <1>5, <3>1, <3>2
    <3> QED BY <1>6, <3>1, <3>2, <3>3 DEF Said
  <2>2. Spelling(v, w)
    BY <1>2, <2>1 DEF Spelling, n
  <2>3. Readable(u.root, v)
    BY <1>2, <2>1 DEF Readable
  <2>4. v[1] \notin Commons /\ v[1] # ":" /\ w[1] \notin Commons
    BY <1>1, <1>6, <2>1
  <2> QED BY <1>7, <2>1, <2>2, <2>3, <2>4 DEF v, w, n
<1> QED BY <1>8, <1>9 DEF Plain, w, n

\* The commands of a unit, at most one.
LEMMA NamedUnit ==
    ASSUME NEW u, WellFormed(u), NEW path
    PROVE  /\ Named(u, path) = NamedBy(Full(u, path), u.query)
           /\ SetToSeq(Named(u, path)) \in Seq(Regulars)
<1>1. Named(u, path) = NamedBy(Full(u, path), u.query)
  BY DEF Named, NamedBy
<1> DEFINE N == Named(u, path)
<1>2. \A c, e \in N : c = e
  BY <1>1, NamesOne
<1>3. \A c \in N : c \in Regulars
  <2>1. \A c \in N : c \in Range(Commands)
    BY <1>1 DEF NamedBy
  <2> HIDE DEF N
  <2> QED BY <2>1, TableEntry
<1> HIDE DEF N
<1>4. CASE N = {}
  <2>1. SetToSeq(N) = << >>
    BY <1>4, ListOfOne
  <2> QED BY <1>1, <2>1 DEF N
<1>5. CASE N # {}
  <2>1. PICK c : c \in N
    BY <1>5
  <2>2. N = {c}
    BY <1>2, <2>1
  <2>3. SetToSeq(N) = <<c>>
    BY <2>2, ListOfOne
  <2>4. <<c>> \in Seq(Regulars)
    BY <1>3, <2>1
  <2> QED BY <1>1, <2>3, <2>4 DEF N
<1> QED BY <1>4, <1>5

\* The paths the units of a request start from,
LEMMA PathAfterIs ==
    ASSUME NEW S, NEW request \in Seq(Unit(S))
    PROVE  LET t == PathAfter(request)
           IN  /\ t \in [0..Len(request) -> Seq(S)] /\ t[0] = << >>
               /\ \A k \in 1..Len(request) :
                    t[k] = IF Named(request[k], t[k - 1]) = {} THEN t[k - 1]
                           ELSE IF request[k].path[1] \in Commons THEN << >>
                           ELSE Front(Full(request[k], t[k - 1]))
<1> DEFINE n == Len(request)
           X == Seq(S)
           on(i, x) == IF Named(request[i], x) = {} THEN x
                       ELSE IF request[i].path[1] \in Commons THEN << >>
                       ELSE Front(Full(request[i], x))
           G == [i \in 1..n |-> [x \in X |-> on(i, x)]]
           Is(g) == g = [i \in 0..n |-> IF i = 0 THEN << >> ELSE on(i, g[i - 1])]
           t == CHOOSE g : Is(g)
<1>1. n \in Nat /\ << >> \in X
  OBVIOUS
<1>2. \A x \in X : \A i \in 1..n : on(i, x) \in X
  <2>1. ASSUME NEW x \in X, NEW i \in 1..n PROVE Front(Full(request[i], x)) \in X
    <3>1. request[i].path \in Seq(S) \ {<< >>}
      <4>1. request[i] \in Unit(S)
        OBVIOUS
      <4>2. \A v \in Unit(S) : v.path \in Seq(S) \ {<< >>}
        BY DEF Unit
      <4> QED BY <4>1, <4>2
    <3>2. x \o request[i].path \in Seq(S) /\ x \o request[i].path # << >>
      <4>1. x \in Seq(S) /\ request[i].path \in Seq(S) /\ request[i].path # << >>
        BY <3>1
      <4> QED BY <4>1, ConcatProperties, ConcatEqualIffEmpty
    <3>3. Full(request[i], x) \in Seq(S) /\ Full(request[i], x) # << >>
      BY <3>1, <3>2 DEF Full
    <3> DEFINE s == Full(request[i], x)
    <3> HIDE DEF s
    <3>4. s \in Seq(S) /\ s # << >>
      BY <3>3 DEF s
    <3>5. Front(s) \in Seq(S)
      BY <3>4 DEF Front
    <3> QED BY <3>5 DEF s
  <2> QED BY <2>1
<1>3. PathAfter(request) = t
  BY DEF PathAfter
<1> HIDE DEF n, on, X
<1>4. Steps(G, n, X)
  BY <1>2 DEF Steps
<1>5. PICK f : f \in [0..n -> X] /\ f[0] = << >> /\ \A i \in 1..n : f[i] = G[i][f[i - 1]]
  <2> HIDE DEF G
  <2>1. \E f : Iteration(f, n, X, << >>, G)
    BY <1>1, <1>4, Iterates
  <2> QED BY <2>1 DEF Iteration
<1>6. Is(f)
  <2> DEFINE b == [i \in 0..n |-> IF i = 0 THEN << >> ELSE on(i, f[i - 1])]
  <2>1. ASSUME NEW i \in 0..n PROVE f[i] = b[i]
    <3>1. CASE i = 0
      BY <1>5, <3>1
    <3>2. CASE i # 0
      <4>1. i \in 1..n /\ i - 1 \in 0..n
        BY <1>1, <3>2
      <4>2. f[i - 1] \in X
        BY <1>5, <4>1
      <4> QED BY <1>5, <3>2, <4>1, <4>2
    <3> QED BY <3>1, <3>2
  <2>2. f = [i \in 0..n |-> f[i]] /\ b = [i \in 0..n |-> b[i]]
    BY <1>5
  <2> HIDE DEF b
  <2>3. f = b
    BY <2>1, <2>2
  <2> QED BY <2>3 DEF b
<1>7. Is(t)
  <2> HIDE DEF Is
  <2> QED BY <1>6
<1> HIDE DEF t
<1>8. t[0] = << >> /\ \A k \in 1..n : t[k] = on(k, t[k - 1])
  <2>1. \A i \in 0..n : t[i] = IF i = 0 THEN << >> ELSE on(i, t[i - 1])
    BY <1>7, Zenon
  <2>2. 0 \in 0..n /\ \A k \in 1..n : k \in 0..n /\ k # 0
    BY <1>1
  <2> QED BY <2>1, <2>2, Zenon
<1>9. t \in [0..n -> X]
  <2> DEFINE P == {i \in 0..n : t[i] \in X}
  <2>1. 0 \in P
    <3>1. 0 \in 0..n
      BY <1>1
    <3> QED BY <1>1, <1>8, <3>1, Zenon
  <2>2. ASSUME NEW i \in 1..n, i - 1 \in P PROVE i \in P
    <3>1. i \in 0..n
      BY <1>1
    <3>2. t[i - 1] \in X
      BY <2>2, Zenon
    <3>3. t[i] \in X
      BY <1>2, <1>8, <3>2, Zenon
    <3> QED BY <3>1, <3>3, Zenon
  <2> HIDE DEF P
  <2>3. \A i \in 0..n : i \in P
    BY <1>1, <2>1, <2>2, Climb
  <2>4. \A i \in 0..n : t[i] \in X
    BY <2>3 DEF P
  <2>5. t = [i \in 0..n |-> t[i]]
    BY <1>7
  <2> QED BY <2>4, <2>5
<1> QED BY <1>3, <1>8, <1>9 DEF n, on, X

\* and the commands they name.
LEMMA MeaningIs ==
    ASSUME NEW S, NEW request \in Seq(Unit(S)), \A k \in 1..Len(request) : WellFormed(request[k])
    PROVE  LET t == MeaningOf(request)
           IN  /\ t \in [0..Len(request) -> Seq(Regulars)] /\ t[0] = << >>
               /\ \A k \in 1..Len(request) :
                    t[k] = t[k - 1] \o SetToSeq(Named(request[k], PathAfter(request)[k - 1]))
<1> DEFINE n == Len(request)
           X == Seq(Regulars)
           on(i, x) == x \o SetToSeq(Named(request[i], PathAfter(request)[i - 1]))
           G == [i \in 1..n |-> [x \in X |-> on(i, x)]]
           Is(g) == g = [i \in 0..n |-> IF i = 0 THEN << >> ELSE on(i, g[i - 1])]
           t == CHOOSE g : Is(g)
<1>1. n \in Nat /\ << >> \in X
  OBVIOUS
<1>2. \A x \in X : \A i \in 1..n : on(i, x) \in X
  <2>1. \A i \in 1..n : SetToSeq(Named(request[i], PathAfter(request)[i - 1])) \in Seq(Regulars)
    BY NamedUnit
  <2>2. \A x, y \in Seq(Regulars) : x \o y \in Seq(Regulars)
    OBVIOUS
  <2> QED BY <2>1, <2>2, Zenon
<1>3. MeaningOf(request) = t
  BY DEF MeaningOf
<1> HIDE DEF n, on, X
<1>4. Steps(G, n, X)
  BY <1>2 DEF Steps
<1>5. PICK f : f \in [0..n -> X] /\ f[0] = << >> /\ \A i \in 1..n : f[i] = G[i][f[i - 1]]
  <2> HIDE DEF G
  <2>1. \E f : Iteration(f, n, X, << >>, G)
    BY <1>1, <1>4, Iterates
  <2> QED BY <2>1 DEF Iteration
<1>6. Is(f)
  <2> DEFINE b == [i \in 0..n |-> IF i = 0 THEN << >> ELSE on(i, f[i - 1])]
  <2>1. ASSUME NEW i \in 0..n PROVE f[i] = b[i]
    <3>1. CASE i = 0
      BY <1>5, <3>1
    <3>2. CASE i # 0
      <4>1. i \in 1..n /\ i - 1 \in 0..n
        BY <1>1, <3>2
      <4>2. f[i - 1] \in X
        BY <1>5, <4>1
      <4> QED BY <1>5, <3>2, <4>1, <4>2
    <3> QED BY <3>1, <3>2
  <2>2. f = [i \in 0..n |-> f[i]] /\ b = [i \in 0..n |-> b[i]]
    BY <1>5
  <2> HIDE DEF b
  <2>3. f = b
    BY <2>1, <2>2
  <2> QED BY <2>3 DEF b
<1>7. Is(t)
  <2> HIDE DEF Is
  <2> QED BY <1>6
<1> HIDE DEF t
<1>8. t[0] = << >> /\ \A k \in 1..n : t[k] = on(k, t[k - 1])
  <2>1. \A i \in 0..n : t[i] = IF i = 0 THEN << >> ELSE on(i, t[i - 1])
    BY <1>7, Zenon
  <2>2. 0 \in 0..n /\ \A k \in 1..n : k \in 0..n /\ k # 0
    BY <1>1
  <2> QED BY <2>1, <2>2, Zenon
<1>9. t \in [0..n -> X]
  <2> DEFINE P == {i \in 0..n : t[i] \in X}
  <2>1. 0 \in P
    <3>1. 0 \in 0..n
      BY <1>1
    <3> QED BY <1>1, <1>8, <3>1, Zenon
  <2>2. ASSUME NEW i \in 1..n, i - 1 \in P PROVE i \in P
    <3>1. i \in 0..n
      BY <1>1
    <3>2. t[i - 1] \in X
      BY <2>2, Zenon
    <3>3. t[i] \in X
      BY <1>2, <1>8, <3>2, Zenon
    <3> QED BY <3>1, <3>3, Zenon
  <2> HIDE DEF P
  <2>3. \A i \in 0..n : i \in P
    BY <1>1, <2>1, <2>2, Climb
  <2>4. \A i \in 0..n : t[i] \in X
    BY <2>3 DEF P
  <2>5. t = [i \in 0..n |-> t[i]]
    BY <1>7
  <2> QED BY <2>4, <2>5
<1> QED BY <1>3, <1>8, <1>9 DEF n, on, X

-----------------------------------------------------------------------------
(* The parser, unit by unit.                                               *)

\* What the previous header h of a line says of the path a unit starts from: it
\* has one word more, or there is no path to take from it.
Carries(S, d, h, path) ==
    \/ path = << >> /\ (h.len = 0 \/ d[h.ptr] \in Commons)
    \/ /\ path # << >> /\ \A k \in 1..Len(path) : path[k] \notin Commons
       /\ \E root \in BOOLEAN, vs \in Seq(S), asks \in BOOLEAN :
            /\ HeaderAt(d, h, root, vs, asks)
            /\ Len(vs) = Len(path) + 1 /\ vs[1] \notin Commons /\ vs[Len(vs)] # ":"
            /\ \A k \in 1..Len(path) : Said(path[k], vs[k])

\* The header h in the line d: it spells the whole path of the unit.
Spells(S, d, h, full, u) ==
    \E root \in BOOLEAN, xs \in Seq(S) :
        /\ HeaderAt(d, h, root, xs, u.query)
        /\ Spelling(xs, full) /\ (root => xs[1] \notin Commons)
        /\ xs[1] \in Commons <=> u.path[1] \in Commons

\* Every unit gets its whole path.
LEMMA Composed ==
    ASSUME NEW S, Cellular(S), NEW u \in Unit(S), Plain(u), NEW d \in Seq(S), NEW path \in Seq(S),
           NEW before, NEW cur, Ordered(before, cur),
           HeaderAt(d, cur, u.root, Spelt(u), u.query), Carries(S, d, before, path)
    PROVE  LET c == composeCompoundCommand(d, before, cur)
               full == Full(u, path)
           IN  /\ full \in Seq(S) /\ full # << >>
               /\ \A j \in cur.ptr..Len(d) : c.data[j] = d[j]
               /\ Spells(S, c.data, c.header, full, u)
               /\ u.path[1] \notin Commons => \A k \in 1..Len(full) : full[k] \notin Commons
               /\ path = << >> \/ u.root \/ u.path[1] \in Commons => c.data = d /\ full = u.path
<1> DEFINE c == composeCompoundCommand(d, before, cur)
           full == Full(u, path)
           ws == Spelt(u)
           l == Len(ws)
<1>1. /\ ws \in Seq(S) /\ ws # << >> /\ l \in Nat /\ l > 0 /\ Len(u.path) = l
      /\ u.path \in Seq(S) /\ u.path # << >> /\ u.root \in BOOLEAN /\ u.query \in BOOLEAN
  <2>1. ws \in Seq(S) /\ ws # << >> /\ l = Len(u.path)
    BY SpeltShape
  <2> HIDE DEF ws
  <2>2. l \in Nat /\ l > 0
    BY <2>1
  <2> QED BY <2>1, <2>2 DEF Unit
<1>2. /\ Spelling(ws, u.path) /\ (ws[1] \in Commons <=> u.path[1] \in Commons) /\ ws[1] # ":"
      /\ u.path[1] \in Commons => ~u.root
      /\ u.path[1] \notin Commons => \A k \in 1..Len(u.path) : u.path[k] \notin Commons
  BY PlainIsSpelt
<1>3. HeaderAt(d, cur, u.root, ws, u.query)
  OBVIOUS
<1> HIDE DEF c, full, ws
<1>4. d[cur.ptr] = IF u.root THEN ":" ELSE ws[1]
  <2>1. /\ u.root => d[cur.ptr] = ":"
        /\ \A k \in 1..l : d[cur.ptr + Bit(u.root) + 2 * k - 2] = ws[k]
    BY <1>3 DEF HeaderAt, HeaderIn
  <2>2. CASE u.root
    BY <2>1, <2>2
  <2>3. CASE ~u.root
    <3>1. 1 \in 1..l /\ cur.ptr + Bit(u.root) + 2 * 1 - 2 = cur.ptr
      BY <1>1, <2>3 DEF Bit, Ordered
    <3> QED BY <2>1, <2>3, <3>1
  <2> QED BY <2>2, <2>3
<1>5. CASE path = << >> \/ u.root \/ u.path[1] \in Commons
  <2>1. c.data = d /\ c.header = cur
    <3>1. before.len = 0 \/ d[cur.ptr] \in Commons \cup {":"} \/ d[before.ptr] \in Commons
      <4>1. CASE path = << >>
        BY <4>1 DEF Carries
      <4>2. CASE u.root
        BY <1>4, <4>2
      <4>3. CASE u.path[1] \in Commons
        BY <1>2, <1>4, <4>3
      <4> QED BY <1>5, <4>1, <4>2, <4>3
    <3>2. c = [data |-> d, header |-> cur]
      BY <3>1 DEF c, composeCompoundCommand
    <3> QED BY <3>2
  <2>2. full = u.path
    <3>1. << >> \o u.path = u.path
      BY <1>1
    <3> QED BY <1>5, <3>1 DEF Full, full
  <2>3. u.root => ws[1] \notin Commons
    BY <1>2
  <2>4. Spells(S, c.data, c.header, full, u)
    BY <1>1, <1>2, <1>3, <2>1, <2>2, <2>3, Zenon DEF Spells
  <2> QED BY <1>1, <1>2, <2>1, <2>2, <2>4 DEF c, full
<1>6. CASE path # << >> /\ ~u.root /\ u.path[1] \notin Commons
  <2> DEFINE n == Len(path)
  <2>1. PICK root \in BOOLEAN, vs \in Seq(S), asks \in BOOLEAN :
            /\ HeaderAt(d, before, root, vs, asks)
            /\ Len(vs) = n + 1 /\ vs[1] \notin Commons /\ vs[Len(vs)] # ":"
            /\ \A k \in 1..n : Said(path[k], vs[k])
    BY <1>6 DEF Carries
  <2>2. n \in Nat /\ n > 0 /\ vs # << >> /\ Len(vs) - 1 = n
    BY <1>6, <2>1
  <2> DEFINE vf == SubSeq(vs, 1, n)
             xs == vf \o ws
  <2>3. vf \in Seq(S) /\ Len(vf) = n /\ \A k \in 1..n : vf[k] = vs[k]
    BY <2>1, <2>2
  <2> HIDE DEF vf
  <2>4. /\ xs \in Seq(S) /\ Len(xs) = n + l
        /\ \A k \in 1..n : xs[k] = vs[k]
        /\ \A k \in 1..l : xs[n + k] = ws[k]
    <3>1. IsCat(xs, vf, ws)
      BY <1>1, <2>3, Cats
    <3> QED BY <1>1, <2>3, <3>1 DEF IsCat
  <2>5. /\ full = path \o u.path /\ full \in Seq(S) /\ Len(full) = n + l
        /\ \A k \in 1..n : full[k] = path[k]
        /\ \A k \in 1..l : full[n + k] = u.path[k]
    <3>1. full = path \o u.path
      BY <1>6 DEF full, Full
    <3>2. IsCat(path \o u.path, path, u.path)
      BY <1>1, Cats
    <3> QED BY <1>1, <3>1, <3>2 DEF IsCat
  <2> HIDE DEF n, xs
  <2>6. Joins(xs, vs, ws)
    BY <2>2, <2>4 DEF Joins
  <2>7. ws[1] \notin Commons \cup {":"}
    BY <1>2, <1>6
  <2> DEFINE no == FALSE
  <2>8. no = u.root
    BY <1>1, <1>6
  <2>9. HeaderAt(d, cur, FALSE, ws, u.query)
    BY <1>3, <2>8
  <2>10. /\ \A j \in cur.ptr..Len(d) : c.data[j] = d[j]
         /\ HeaderAt(c.data, c.header, root, xs, u.query)
    <3>1. xs \in Seq(S) /\ ws \in Seq(S) /\ ws # << >> /\ vs # << >> /\ vs \in Seq(S) /\ u.query \in BOOLEAN
      BY <1>1, <2>2, <2>4
    <3>2. Follows(d, before, root, vs, asks, cur, ws, u.query)
      BY <2>1, <2>7, <2>9 DEF Follows
    <3>3. Composition(d, cur, c, root, xs, u.query)
      BY <2>1, <2>6, <3>1, <3>2, ComposedHeader DEF c
    <3> QED BY <3>3 DEF Composition
  <2>11. ASSUME NEW k \in 1..(n + l), k > n PROVE k - n \in 1..l /\ n + (k - n) = k
    BY <1>1, <2>2, <2>11
  <2>12. Spelling(xs, full)
    <3>1. ASSUME NEW k \in 1..(n + l) PROVE Said(full[k], xs[k])
      <4>1. CASE k <= n
        <5>1. k \in 1..n
          BY <2>2, <4>1
        <5> QED BY <2>1, <2>4, <2>5, <5>1
      <4>2. CASE k > n
        <5>1. k - n \in 1..l /\ n + (k - n) = k
          BY <2>11, <4>2
        <5>2. full[k] = u.path[k - n] /\ xs[k] = ws[k - n]
          BY <2>4, <2>5, <5>1
        <5> QED BY <1>1, <1>2, <5>1, <5>2 DEF Spelling
      <4> QED BY <1>1, <2>2, <4>1, <4>2
    <3> QED BY <2>4, <2>5, <3>1 DEF Spelling
  <2>13. xs[1] \notin Commons
    <3>1. 1 \in 1..n
      BY <2>2
    <3> QED BY <2>1, <2>4, <3>1
  <2>14. ASSUME NEW k \in 1..(n + l) PROVE full[k] \notin Commons
    <3>1. CASE k <= n
      <4>1. k \in 1..n
        BY <2>2, <3>1
      <4>2. path[k] \notin Commons
        BY <1>6, <4>1 DEF Carries, n
      <4> QED BY <2>5, <4>1, <4>2
    <3>2. CASE k > n
      <4>1. k - n \in 1..l /\ n + (k - n) = k
        BY <2>11, <3>2
      <4>2. u.path[k - n] \notin Commons
        BY <1>1, <1>2, <1>6, <4>1
      <4>3. full[n + (k - n)] = u.path[k - n]
        BY <2>5, <4>1
      <4> QED BY <4>1, <4>2, <4>3
    <3> QED BY <1>1, <2>2, <3>1, <3>2
  <2>15. Spells(S, c.data, c.header, full, u)
    BY <1>6, <2>4, <2>10, <2>12, <2>13, Zenon DEF Spells
  <2>16. full # << >>
    BY <1>1, <2>2, <2>5
  <2> QED BY <1>6, <2>5, <2>10, <2>14, <2>15, <2>16 DEF c, full
<1> QED BY <1>5, <1>6

\* The header of a command that was found is what the next unit goes on from.
LEMMA CarriesOn ==
    ASSUME NEW S, NEW d, NEW h, h.ptr \in Nat \ {0}, NEW full \in Seq(S), full # << >>, NEW u \in Unit(S),
           Spells(S, d, h, full, u), NEW c \in NamedBy(full, u.query),
           u.path[1] \notin Commons => \A k \in 1..Len(full) : full[k] \notin Commons
    PROVE  Carries(S, d, h, IF u.path[1] \in Commons THEN << >> ELSE Front(full))
<1> DEFINE n == Len(full)
<1>1. PICK root \in BOOLEAN, xs \in Seq(S) :
        /\ HeaderAt(d, h, root, xs, u.query)
        /\ Spelling(xs, full) /\ (root => xs[1] \notin Commons)
        /\ xs[1] \in Commons <=> u.path[1] \in Commons
  BY DEF Spells
<1>2. n \in Nat /\ n > 0 /\ Len(xs) = n /\ \A k \in 1..n : Said(full[k], xs[k])
  BY <1>1 DEF Spelling
<1>3. u.query \in BOOLEAN
  BY DEF Unit
<1> HIDE DEF n
<1>4. CASE u.path[1] \in Commons
  <2>1. ~root /\ xs[1] \in Commons
    BY <1>1, <1>4
  <2>2. \A k \in 1..n : d[h.ptr + Bit(root) + 2 * k - 2] = xs[k]
    BY <1>1, <1>2 DEF HeaderAt, HeaderIn
  <2>3. 1 \in 1..n /\ h.ptr + Bit(root) + 2 * 1 - 2 = h.ptr
    BY <1>2, <2>1 DEF Bit
  <2>4. d[h.ptr] \in Commons
    BY <2>1, <2>2, <2>3
  <2> QED BY <1>4, <2>4 DEF Carries
<1>5. CASE u.path[1] \notin Commons
  <2> DEFINE f == Front(full)
  <2>1. \A k \in 1..n : full[k] \notin Commons
    BY <1>5 DEF n
  <2>2. c \in Range(Commands) /\ full \in Spellings(c)
    BY DEF NamedBy
  <2>3. c \in Entry /\ Regular(c) /\ (OptionalEnd(c.path) => Len(c.path) = 3)
    BY <2>2, TableEntry DEF Regulars
  <2>4. n # 1
    <3>1. full = c.path \/ (OptionalEnd(c.path) /\ full = Front(c.path))
      BY <2>2 DEF Spellings
    <3>2. CASE full = c.path
      <4>1. 1 \in 1..n
        BY <1>2
      <4> QED BY <2>1, <2>3, <3>2, <4>1 DEF Regular, n
    <3>3. CASE OptionalEnd(c.path) /\ full = Front(c.path)
      <4>1. Len(c.path) = 3 /\ c.path \in Seq(Words)
        BY <2>3, <3>3 DEF Entry
      <4> DEFINE p == c.path
      <4>2. full = SubSeq(p, 1, 2)
        <5>1. 3 - 1 = 2
          OBVIOUS
        <5> QED BY <3>3, <4>1, <5>1 DEF Front
      <4> HIDE DEF p
      <4>3. Len(SubSeq(p, 1, 2)) = 2
        <5>1. p \in Seq(Words) /\ Len(p) = 3
          BY <4>1 DEF p
        <5> QED BY <5>1
      <4> QED BY <4>2, <4>3 DEF n
    <3> QED BY <3>1, <3>2, <3>3
  <2>5. n >= 2 /\ n - 1 \in Nat /\ n - 1 > 0 /\ 1 \in 1..n /\ n \in 1..n
    BY <1>2, <2>4
  <2>6. f \in Seq(S) /\ Len(f) = n - 1 /\ f # << >> /\ \A k \in 1..(n - 1) : f[k] = full[k]
    <3>1. f = SubSeq(full, 1, n - 1)
      BY DEF Front, n
    <3> HIDE DEF f
    <3>2. SubSeq(full, 1, n - 1) \in Seq(S) /\ Len(SubSeq(full, 1, n - 1)) = n - 1
          /\ \A k \in 1..(n - 1) : SubSeq(full, 1, n - 1)[k] = full[k]
      BY <2>5 DEF n
    <3> QED BY <2>5, <3>1, <3>2
  <2> HIDE DEF f
  <2>7. \A k \in 1..Len(f) : k \in 1..n /\ f[k] = full[k]
    BY <2>5, <2>6
  <2>8. \A k \in 1..Len(f) : f[k] \notin Commons /\ Said(f[k], xs[k])
    BY <1>2, <2>1, <2>7
  <2>9. xs[Len(xs)] # ":"
    <3>1. Said(full[n], xs[n])
      BY <1>2, <2>5
    <3>2. xs[n] \notin PatternMarks \cup {"EOS"}
      BY <3>1, SaidWords
    <3> QED BY <1>2, <3>2 DEF PatternMarks
  <2>10. Len(xs) = Len(f) + 1
    BY <1>2, <2>5, <2>6
  <2>11. xs[1] \notin Commons
    BY <1>1, <1>5
  <2>12. Carries(S, d, h, f)
    BY <1>1, <1>3, <2>6, <2>8, <2>9, <2>10, <2>11, Zenon DEF Carries
  <2> QED BY <1>5, <2>12 DEF f
<1> QED BY <1>4, <1>5

\* Handlers write a result if they are asked to, and else only when the DAC is
\* missing.
LEMMA HandlersAnswer ==
    ASSUME DacFound, NEW c \in Entry, NEW a, NEW high
    PROVE  Handler(c, a, high).out <=> c.does \in Answering
<1>1. c.does \in Tasks
  BY DEF Entry
<1>2. \A errs, ok, out, done, reads : Done(errs, ok, out, done, reads).out = out
  BY DEF Done
<1>3. \A r, valid : ~Sets(r, valid).out
  BY DEF Sets, Done
<1>4. Absent.out
  BY DEF Absent, Done
<1>5. CASE c.does \in {"act", "answer"}
  BY <1>5 DEF Handler, Answering, Done
<1>6. CASE c.does = "measure"
  <2>1. Handler(c, a, high) = IF SensorFound THEN Done(<< >>, TRUE, TRUE, TRUE, FALSE) ELSE Absent
    BY <1>6 DEF Handler
  <2>2. Handler(c, a, high).out
    BY <1>4, <2>1 DEF Done
  <2> QED BY <1>6, <2>2 DEF Answering
<1>7. CASE c.does \in {"number", "attenuation", "dac", "integer", "bool", "address"}
  <2>1. \E r, valid : Handler(c, a, high) = Sets(r, valid)
    BY <1>7 DEF Handler
  <2> QED BY <1>3, <1>7, <2>1 DEF Answering
<1> QED BY <1>1, <1>5, <1>6, <1>7 DEF Tasks

\* A client that knows the device: no header that the parser does not know is
\* followed by one that takes its path from the one before.
Unspoilt(request) ==
    \A i \in 1..(Len(request) - 1) :
        LET u == request[i]
            path == PathAfter(request)[i - 1]
        IN  Named(u, path) = {} => u.root \/ u.path[1] \in Commons \/ path = << >>
Fine(S, request) ==
    /\ request \in Seq(Unit(S)) /\ request # << >>
    /\ \A k \in 1..Len(request) : Plain(request[k])
    /\ Unspoilt(request)

\* What the parser knows after k units: the rest of the line is as it was, the
\* previous header says what the path is, and the commands run are those of the
\* units.
Reads(S, request, k) ==
    /\ data \in Seq(S) /\ Len(data) = Len(Whole(request)) /\ prev.ptr \in Nat \ {0}
    /\ k = Len(request) => pos = Len(data) + 1
    /\ k < Len(request) =>
         /\ pos = UnitStart(request, k + 1) /\ Token(prev, data, pos)
         /\ \A j \in pos..Len(data) : data[j] = Whole(request)[j]
         /\ Carries(S, data, prev, PathAfter(request)[k])
    /\ executed = MeaningOf(request)[k]

\* A command run, and whether it wrote a result.
Ran(c, out) ==
    /\ executed' = Append(executed, c)
    /\ inbox' = inbox \o (IF output_count > 0 THEN <<(<<"SEMI">>)>> ELSE << >>)
                      \o (IF out THEN <<c.path>> ELSE << >>)
    /\ output_count' = IF out THEN 1 ELSE 0
Runs ==
    \/ UNCHANGED <<executed, inbox, output_count>>
    \/ \E c \in Regulars, out \in BOOLEAN : Ran(c, out) /\ (DacFound => (out <=> c.does \in Answering))

\* The parser reads the next unit as it is, and runs the command that it names.
LEMMA UnitRuns ==
    ASSUME NEW S, Cellular(S), NEW request, Fine(S, request), NEW k \in Nat, k < Len(request),
           Reads(S, request, k), ParseUnit
    PROVE  Reads(S, request, k + 1)' /\ Runs
<1> DEFINE n == Len(request)
           u == request[k + 1]
           s == UnitStart(request, k + 1)
           e == UnitEnd(request, k + 1)
           whole == Whole(request)
           x == detectProgramMessageUnit(data, pos)
           path == PathAfter(request)[k]
           full == Full(u, path)
           composed == composeCompoundCommand(data, prev, x.header)
           d == composed.data
           h == composed.header
           c == findCommandHeader(Cells(d, h))
           named == Named(u, path)
<1>1. /\ n \in Nat /\ k \in Nat /\ k + 1 \in 1..n /\ k + 1 - 1 = k /\ k \in 0..n /\ request \in Seq(Unit(S))
      /\ u \in Unit(S) /\ Plain(u)
  <2>1. request \in Seq(Unit(S)) /\ \A i \in 1..n : Plain(request[i])
    BY DEF Fine
  <2>2. n \in Nat /\ k + 1 \in 1..n
    BY <2>1
  <2> QED BY <2>1, <2>2
<1>2. /\ data \in Seq(S) /\ Len(data) = Len(whole) /\ pos = s /\ Token(prev, data, pos)
      /\ \A j \in s..Len(data) : data[j] = whole[j]
      /\ Carries(S, data, prev, path) /\ executed = MeaningOf(request)[k]
  BY DEF Reads
<1>3. /\ s \in Nat \ {0} /\ e \in Nat /\ s <= e /\ e <= Len(data)
      /\ UnitIn(data, s, e, u.root, Spelt(u), u.query, u.args)
      /\ data[e] = IF k + 1 = n THEN "NL" ELSE "SEMI"
      /\ k + 1 = n => e = Len(data)
  BY <1>1, <1>2, UnitsLie
<1>4. /\ WellFormed(u) /\ Readable(u.root, Spelt(u)) /\ \A i \in 1..Len(u.args) : PlainArg(u.args[i])
      /\ Spelt(u) \in Seq(S) /\ Spelt(u) # << >>
  <2>1. WellFormed(u) /\ Readable(u.root, Spelt(u))
    BY <1>1, PlainIsSpelt
  <2>2. Spelt(u) \in Seq(S) /\ Spelt(u) # << >>
    BY <1>1, SpeltShape
  <2> QED BY <1>1, <2>1, <2>2 DEF Plain
<1>5. u.root \in BOOLEAN /\ u.query \in BOOLEAN /\ u.args \in Seq(Seq(S)) /\ u.path \in Seq(S)
  <2>1. \A v \in Unit(S) : v.root \in BOOLEAN /\ v.query \in BOOLEAN /\ v.args \in Seq(Seq(S)) /\ v.path \in Seq(S)
    BY DEF Unit
  <2> QED BY <1>1, <2>1
<1> HIDE DEF u, s, e, whole, n
<1>6. ~x.invalid /\ x.next = e + 1 /\ x.header = [ptr |-> s, len |-> HeaderLen(u.root, Spelt(u), u.query)]
  <2>1. At(data, e) \in {"SEMI", "NL"}
    <3>1. e \in 1..Len(data)
      BY <1>2, <1>3
    <3>2. At(data, e) = data[e]
      BY <1>2, <3>1, InLine
    <3> QED BY <1>3, <3>2
  <2> DEFINE root == u.root
             ws == Spelt(u)
             query == u.query
             args == u.args
  <2>2. root \in BOOLEAN /\ ws \in Seq(S) /\ ws # << >> /\ query \in BOOLEAN /\ args \in Seq(Seq(S))
    BY <1>4, <1>5
  <2>3. /\ Readable(root, ws) /\ UnitIn(data, s, e, root, ws, query, args)
        /\ \A i \in 1..Len(args) : PlainArg(args[i])
    BY <1>3, <1>4
  <2> HIDE DEF root, ws, query, args
  <2> DEFINE y == detectProgramMessageUnit(data, s)
  <2>4. ~y.invalid /\ y.next = e + 1 /\ y.header = [ptr |-> s, len |-> HeaderLen(root, ws, query)]
    BY <1>2, <1>3, <2>1, <2>2, <2>3, UnitFound
  <2>5. y = x
    BY <1>2
  <2> HIDE DEF x, y
  <2> QED BY <2>4, <2>5 DEF root, ws, query
<1>7. x.header.ptr = s /\ x.header.len = HeaderLen(u.root, Spelt(u), u.query)
  BY <1>6
<1> HIDE DEF x
<1>8. x.header.len \in Nat /\ x.header.len > 0
  <2> DEFINE w == Len(Spelt(u))
             a == Bit(u.root)
             b == Bit(u.query)
  <2>1. w \in Nat /\ w > 0 /\ a \in 0..1 /\ b \in 0..1
    BY <1>4 DEF Bit
  <2>2. x.header.len = a + 2 * w - 1 + b
    BY <1>7 DEF HeaderLen
  <2> HIDE DEF w, a, b
  <2> QED BY <2>1, <2>2
<1>9. Command(x) /\ pos' = e + 1
  <2>1. (Invalid(x) \/ Empty(x) \/ Command(x)) /\ pos' = x.next
    BY DEF ParseUnit, x
  <2>2. (Invalid(x) => x.invalid) /\ (Empty(x) => x.header.len = 0)
    BY Zenon DEF Invalid, Empty
  <2> QED BY <1>6, <1>8, <2>1, <2>2
<1>10. HeaderAt(data, x.header, u.root, Spelt(u), u.query)
  BY <1>3, <1>7 DEF HeaderAt, UnitIn
<1>11. Ordered(prev, x.header)
  BY <1>2, <1>3, <1>7, <1>8 DEF Ordered, Token
<1>12. path \in Seq(S)
  <2>1. PathAfter(request) \in [0..n -> Seq(S)]
    BY <1>1, PathAfterIs DEF n
  <2> QED BY <1>1, <2>1
<1>13. /\ full \in Seq(S) /\ full # << >>
       /\ \A j \in x.header.ptr..Len(data) : d[j] = data[j]
       /\ Spells(S, d, h, full, u)
       /\ u.path[1] \notin Commons => \A i \in 1..Len(full) : full[i] \notin Commons
       /\ path = << >> \/ u.root \/ u.path[1] \in Commons => d = data
  <2> HIDE DEF path
  <2> QED BY <1>1, <1>2, <1>10, <1>11, <1>12, Composed
<1>14. /\ d \in Seq(S) /\ Len(d) = Len(data) /\ Token(h, d, e + 1) /\ Token(prev, d, e + 1)
  <2>1. Token(x.header, data, e + 1)
    <3>1. x.header \in [ptr : Nat \ {0}, len : Nat]
      BY <1>3, <1>6, <1>7, <1>8
    <3>2. pos \in 1..Len(data)
      BY <1>2, <1>3
    <3>3. x.header.ptr + x.header.len <= Len(data) + 1 /\ x.next >= x.header.ptr + x.header.len
      BY <1>2, <1>6, <3>2, UnitBounds DEF x
    <3> QED BY <1>6, <3>1, <3>3 DEF Token
  <2>2. e + 1 \in Nat /\ pos \in Nat /\ pos <= x.header.ptr /\ pos <= e + 1
    BY <1>2, <1>3, <1>7
  <2>3. d \in Seq(S) /\ Len(d) = Len(data) /\ Token(h, d, e + 1)
    BY <1>2, <2>1, <2>2, ComposeBounds
  <2> HIDE DEF d
  <2>4. Token(prev, d, e + 1)
    BY <1>2, <2>2, <2>3 DEF Token
  <2> QED BY <2>3, <2>4
<1>15. /\ data' = d
       /\ \/ c = NoCommand /\ UNCHANGED <<prev, output_count, executed, inbox>>
          \/ c # NoCommand /\ \E high \in BOOLEAN : processCommand(c, d, x, h, high)
  BY <1>9 DEF Command
<1>16. Finds(c, named)
  <2>1. named = NamedBy(full, u.query)
    BY <1>4, NamedUnit
  <2>2. PICK root \in BOOLEAN, xs \in Seq(S) :
            HeaderAt(d, h, root, xs, u.query) /\ Spelling(xs, full) /\ (root => xs[1] \notin Commons)
    BY <1>13 DEF Spells
  <2>3. xs # << >>
    BY <1>13, <2>2 DEF Spelling
  <2> DEFINE cells == Cells(d, h)
  <2>4. h.ptr \in Nat \ {0}
    BY <1>14 DEF Token
  <2> HIDE DEF d, h, full, named
  <2>5. cells \in Seq(S) /\ Header(cells, root, xs, u.query)
    BY <1>5, <1>14, <2>2, <2>3, <2>4, CellsOfHeader
  <2> HIDE DEF cells
  <2>6. Finds(findCommandHeader(cells), NamedBy(full, u.query))
    BY <1>5, <1>13, <2>2, <2>5, FoundIsNamed
  <2> QED BY <2>1, <2>6 DEF cells
<1> HIDE DEF d, h, c, composed
<1>17. /\ MeaningOf(request)[k + 1] = executed \o (IF c = NoCommand THEN << >> ELSE <<c>>)
       /\ executed \in Seq(Regulars)
  <2>1. \A i \in 1..Len(request) : WellFormed(request[i])
    <3>1. ASSUME NEW i \in 1..Len(request) PROVE WellFormed(request[i])
      <4>1. request[i] \in Unit(S) /\ Plain(request[i])
        BY <1>1 DEF Fine
      <4> QED BY <4>1, PlainIsSpelt
    <3> QED BY <3>1
  <2>2. /\ MeaningOf(request) \in [0..n -> Seq(Regulars)]
        /\ \A i \in 1..n : MeaningOf(request)[i]
                = MeaningOf(request)[i - 1] \o SetToSeq(Named(request[i], PathAfter(request)[i - 1]))
    BY <1>1, <2>1, MeaningIs DEF n
  <2>3. MeaningOf(request)[k + 1] = MeaningOf(request)[k] \o SetToSeq(named)
    <3> DEFINE t == MeaningOf(request)
               p == PathAfter(request)
    <3>1. \A i \in 1..n : \A m : m = i - 1 => t[i] = t[m] \o SetToSeq(Named(request[i], p[m]))
      BY <2>2
    <3> HIDE DEF t, p
    <3>2. t[k + 1] = t[k] \o SetToSeq(Named(request[k + 1], p[k]))
      <4> DEFINE i == k + 1
      <4>1. i \in 1..n /\ k = i - 1
        BY <1>1
      <4> HIDE DEF i
      <4>2. t[i] = t[k] \o SetToSeq(Named(request[i], p[k]))
        BY <3>1, <4>1, Zenon
      <4> QED BY <4>2 DEF i
    <3> QED BY <3>2 DEF u, t, p
  <2> QED BY <1>1, <1>2, <1>16, <2>2, <2>3 DEF Finds
<1>18. PathAfter(request)[k + 1] = IF named = {} THEN path
                                   ELSE IF u.path[1] \in Commons THEN << >> ELSE Front(full)
  <2> DEFINE p == PathAfter(request)
  <2>1. \A i \in 1..n : p[i] = IF Named(request[i], p[i - 1]) = {} THEN p[i - 1]
                              ELSE IF request[i].path[1] \in Commons THEN << >>
                              ELSE Front(Full(request[i], p[i - 1]))
    BY <1>1, PathAfterIs DEF n
  <2>2. \A i \in 1..n : \A m : m = i - 1 =>
            p[i] = IF Named(request[i], p[m]) = {} THEN p[m]
                   ELSE IF request[i].path[1] \in Commons THEN << >> ELSE Front(Full(request[i], p[m]))
    BY <2>1
  <2> HIDE DEF p
  <2>3. p[k + 1] = IF Named(request[k + 1], p[k]) = {} THEN p[k]
                   ELSE IF request[k + 1].path[1] \in Commons THEN << >> ELSE Front(Full(request[k + 1], p[k]))
    <3> DEFINE i == k + 1
    <3>1. i \in 1..n /\ k = i - 1
      BY <1>1
    <3> HIDE DEF i
    <3>2. p[i] = IF Named(request[i], p[k]) = {} THEN p[k]
                 ELSE IF request[i].path[1] \in Commons THEN << >> ELSE Front(Full(request[i], p[k]))
      BY <2>2, <3>1, Zenon
    <3> QED BY <3>2 DEF i
  <2> QED BY <2>3 DEF u, p
<1>19. /\ k + 1 = n => e + 1 = Len(d) + 1
       /\ k + 1 < n => e + 1 = UnitStart(request, k + 2)
       /\ \A j \in (e + 1)..Len(d) : d[j] = whole[j]
  <2>1. UnitStart(request, k + 2) = e + 1
    <3>1. k + 2 # 1 /\ k + 2 - 1 = k + 1
      BY <1>1
    <3>2. UnitStart(request, k + 2) = Len(UnitsText(request)[k + 1]) + 2 /\ e = Len(UnitsText(request)[k + 1]) + 1
      BY <3>1 DEF UnitStart, e, UnitEnd
    <3> QED BY <1>3, <3>2
  <2>2. ASSUME NEW j \in (e + 1)..Len(d) PROVE d[j] = whole[j]
    <3>1. j \in s..Len(data) /\ j \in x.header.ptr..Len(data)
      BY <1>2, <1>3, <1>7, <1>14
    <3> QED BY <1>2, <1>13, <3>1
  <2> QED BY <1>3, <1>14, <2>1, <2>2
<1>20. CASE c = NoCommand
  <2>1. /\ UNCHANGED <<prev, output_count, executed, inbox>> /\ data' = d
    BY <1>15, <1>20
  <2>2. named = {}
    BY <1>16, <1>20 DEF Finds
  <2>3. executed' = MeaningOf(request)[k + 1]
    BY <1>17, <1>20, <2>1
  <2>4. k + 1 < n => Carries(S, data', prev', PathAfter(request)[k + 1])
    <3> SUFFICES ASSUME k + 1 < n PROVE Carries(S, data', prev', PathAfter(request)[k + 1])
      OBVIOUS
    <3>1. k + 1 \in 1..(n - 1)
      BY <1>1
    <3>2. u.root \/ u.path[1] \in Commons \/ path = << >>
      BY <1>1, <2>2, <3>1 DEF Fine, Unspoilt, u, n
    <3>3. data' = data
      BY <1>13, <2>1, <3>2
    <3> QED BY <1>2, <1>18, <2>1, <2>2, <3>3
  <2>5. Reads(S, request, k + 1)'
    <3>1. prev'.ptr \in Nat \ {0} /\ Token(prev, data, pos)'
      BY <1>9, <1>14, <2>1 DEF Token
    <3> QED BY <1>1, <1>2, <1>9, <1>14, <1>19, <2>1, <2>3, <2>4, <3>1 DEF Reads, n, whole
  <2>6. Runs
    BY <2>1 DEF Runs
  <2> QED BY <2>5, <2>6
<1>21. CASE c # NoCommand
  <2>1. PICK high \in BOOLEAN : processCommand(c, d, x, h, high)
    BY <1>15, <1>21
  <2> DEFINE a == IF x.data.len > 0 THEN ProgramData(d, x.data.ptr)
                  ELSE [kind |-> "none", cell |-> "EOS", next |-> x.data.ptr]
             out == Handler(c, a, high).out
  <2>2. /\ executed' = Append(executed, c) /\ prev' = h
        /\ inbox' = inbox \o (IF output_count > 0 THEN <<(<<"SEMI">>)>> ELSE << >>)
                          \o (IF out THEN <<c.path>> ELSE << >>)
        /\ output_count' = IF out THEN 1 ELSE 0
    BY <2>1 DEF processCommand
  <2>3. c \in Regulars /\ c \in Entry /\ c \in named /\ named # {}
    <3>1. c \in Regulars /\ c \in named
      BY <1>16, <1>21 DEF Finds
    <3> QED BY <3>1 DEF Regulars
  <2>4. DacFound => (out <=> c.does \in Answering)
    <3> HIDE DEF a
    <3> QED BY <2>3, HandlersAnswer
  <2> HIDE DEF out
  <2>5. Runs
    <3> DEFINE o == IF out THEN TRUE ELSE FALSE
    <3>1. o \in BOOLEAN /\ (o <=> out)
      OBVIOUS
    <3> HIDE DEF o
    <3>2. Ran(c, o)
      BY <2>2, <3>1 DEF Ran
    <3> QED BY <2>3, <2>4, <3>1, <3>2 DEF Runs
  <2>6. executed' = MeaningOf(request)[k + 1]
    BY <1>17, <1>21, <2>2, <2>3
  <2>7. Carries(S, data', prev', PathAfter(request)[k + 1])
    <3>1. c \in NamedBy(full, u.query)
      BY <1>4, <2>3, NamedUnit
    <3>2. h.ptr \in Nat \ {0}
      BY <1>14 DEF Token
    <3> HIDE DEF full, named, path
    <3>3. Carries(S, d, h, IF u.path[1] \in Commons THEN << >> ELSE Front(full))
      BY <1>1, <1>13, <3>1, <3>2, CarriesOn
    <3> QED BY <1>15, <1>18, <2>2, <2>3, <3>3
  <2>8. Reads(S, request, k + 1)'
    <3>1. prev'.ptr \in Nat \ {0} /\ Token(prev, data, pos)'
      BY <1>9, <1>14, <1>15, <2>2 DEF Token
    <3> QED BY <1>1, <1>2, <1>9, <1>14, <1>15, <1>19, <2>6, <2>7, <3>1 DEF Reads, n, whole
  <2> QED BY <2>5, <2>8
<1> QED BY <1>20, <1>21

\* Between messages the commands of the last one have run; within one, those of
\* the units so far.
Understands(S) ==
    /\ data = << >> => pos = 1 /\ (asked # << >> => executed = Meaning(asked))
    /\ data # << >> => asked \in Requests /\ \E k \in 0..Len(asked) : Reads(S, asked, k)

\* Before the first unit nothing has run.
LEMMA RequestUnderstood ==
    ASSUME NEW S, Cellular(S), NEW request, Fine(S, request), request \in Requests, Request(request)
    PROVE  Understands(S)' /\ data' # << >>
<1> DEFINE whole == Whole(request)
           n == Len(request)
<1>1. /\ asked' = request /\ data' = whole /\ pos' = 1 /\ prev' = [ptr |-> 1, len |-> 0] /\ executed' = << >>
  BY DEF Request, NoToken, Whole
<1>2. request \in Seq(Unit(S)) /\ request # << >> /\ n \in Nat /\ n > 0 /\ 0 \in 0..n
  BY DEF Fine
<1>3. whole \in Seq(S) /\ whole # << >>
  <2> DEFINE t == Text(request)
  <2>1. t \in Seq(S)
    <3>1. UnitsText(request) \in [0..n -> Seq(S)]
      BY <1>2, UnitsTextIs
    <3>2. n \in 0..n
      BY <1>2
    <3> HIDE DEF n
    <3>3. UnitsText(request)[n] \in Seq(S)
      BY <3>1, <3>2
    <3> QED BY <3>3 DEF Text, n
  <2>2. "NL" \in S /\ whole = Append(t, "NL")
    BY DEF Cellular, Marks, Whole
  <2> HIDE DEF t, whole
  <2> QED BY <2>1, <2>2
<1> HIDE DEF whole, n
<1>4. Token(prev, data, pos)'
  BY <1>1, <1>3 DEF Token
<1>5. PathAfter(request)[0] = << >>
  BY <1>2, PathAfterIs
<1>6. Carries(S, data', prev', PathAfter(request)[0])
  BY <1>1, <1>5 DEF Carries
<1>7. MeaningOf(request)[0] = << >>
  <2>1. \A i \in 1..Len(request) : WellFormed(request[i])
    <3>1. ASSUME NEW i \in 1..Len(request) PROVE WellFormed(request[i])
      <4>1. request[i] \in Unit(S) /\ Plain(request[i])
        BY <1>2 DEF Fine
      <4> QED BY <4>1, PlainIsSpelt
    <3> QED BY <3>1
  <2> QED BY <1>2, <2>1, MeaningIs
<1>8. UnitStart(request, 0 + 1) = 1
  BY DEF UnitStart
<1>9. Reads(S, request, 0)'
  <2>1. prev'.ptr \in Nat \ {0}
    BY <1>1
  <2>2. (0 = Len(request)) = FALSE
    BY <1>2 DEF n
  <2> QED BY <1>1, <1>3, <1>4, <1>6, <1>7, <1>8, <2>1, <2>2 DEF Reads, whole
<1> QED BY <1>1, <1>2, <1>3, <1>9 DEF Understands, n

\* Each unit of a message is read in turn,
LEMMA UnitUnderstood ==
    ASSUME NEW S, Cellular(S), \A request \in Requests : Fine(S, request), Understands(S), ParseUnit
    PROVE  Understands(S)' /\ Runs /\ data # << >> /\ data' # << >>
<1>1. Running /\ asked' = asked
  BY DEF ParseUnit
<1>2. data # << >>
  <2> SUFFICES ASSUME data = << >> PROVE FALSE
    OBVIOUS
  <2>1. pos = 1 /\ Len(data) = 0
    BY DEF Understands
  <2> QED BY <1>1, <2>1 DEF Running
<1>3. PICK k \in 0..Len(asked) : Reads(S, asked, k)
  BY <1>2 DEF Understands
<1>4. asked \in Requests /\ Fine(S, asked) /\ Len(asked) \in Nat
  <2>1. asked \in Requests /\ Fine(S, asked)
    BY <1>2 DEF Understands
  <2> QED BY <2>1 DEF Fine
<1>5. k # Len(asked)
  <2> SUFFICES ASSUME k = Len(asked) PROVE FALSE
    OBVIOUS
  <2>1. pos = Len(data) + 1 /\ Len(data) \in Nat
    BY <1>3 DEF Reads
  <2> QED BY <1>1, <2>1 DEF Running
<1>6. k \in Nat /\ k < Len(asked) /\ k + 1 \in 0..Len(asked)
  BY <1>4, <1>5
<1>7. Reads(S, asked, k + 1)' /\ Runs
  BY <1>1, <1>3, <1>4, <1>6, UnitRuns
<1>8. data' # << >>
  <2>1. data' \in Seq(S) /\ Len(data') = Len(data) /\ data \in Seq(S)
    BY <1>1, <1>3, <1>7 DEF Reads
  <2> QED BY <1>2, <2>1
<1> QED BY <1>1, <1>2, <1>4, <1>6, <1>7, <1>8 DEF Understands

\* When the parser has come to the end of the line all the commands have run.
LEMMA EndUnderstood ==
    ASSUME NEW S, Cellular(S), \A request \in Requests : Fine(S, request), Understands(S),
           data # << >>, ~Running
    PROVE  asked \in Requests /\ executed = Meaning(asked)
<1>1. PICK k \in 0..Len(asked) : Reads(S, asked, k)
  BY DEF Understands
<1>2. asked \in Requests /\ Fine(S, asked)
  BY DEF Understands
<1>3. asked \in Seq(Unit(S)) /\ Len(asked) \in Nat
  BY <1>2 DEF Fine
<1>4. k = Len(asked)
  <2> SUFFICES ASSUME k # Len(asked) PROVE FALSE
    OBVIOUS
  <2>1. k < Len(asked) /\ k + 1 \in 1..Len(asked)
    BY <1>3
  <2>2. /\ data \in Seq(S) /\ Len(data) = Len(Whole(asked)) /\ pos = UnitStart(asked, k + 1)
        /\ \A j \in UnitStart(asked, k + 1)..Len(data) : data[j] = Whole(asked)[j]
    BY <1>1, <2>1 DEF Reads
  <2>3. /\ UnitStart(asked, k + 1) \in Nat /\ UnitEnd(asked, k + 1) \in Nat
        /\ UnitStart(asked, k + 1) <= UnitEnd(asked, k + 1) /\ UnitEnd(asked, k + 1) <= Len(data)
    BY <1>3, <2>1, <2>2, UnitsLie
  <2>4. Len(data) \in Nat
    BY <2>2
  <2> QED BY <2>2, <2>3, <2>4 DEF Running
<1> QED BY <1>1, <1>2, <1>4 DEF Reads, Meaning

\* and no other action touches what was run.
LEMMA NextUnderstood ==
    ASSUME NEW S, Cellular(S), \A request \in Requests : Fine(S, request)
    PROVE  Understands(S) /\ [ParseNext]_parseVars => Understands(S)'
<1> SUFFICES ASSUME Understands(S), [ParseNext]_parseVars PROVE Understands(S)'
  OBVIOUS
<1>1. CASE \E request \in Requests : Request(request)
  BY <1>1, RequestUnderstood
<1>2. CASE ParseUnit
  BY <1>2, UnitUnderstood
<1>3. CASE EndOfMessage
  <2>1. executed = Meaning(asked)
    BY <1>3, EndUnderstood DEF EndOfMessage
  <2>2. data' = << >> /\ pos' = 1 /\ UNCHANGED <<executed, asked>>
    BY <1>3 DEF EndOfMessage
  <2> QED BY <2>1, <2>2 DEF Understands
<1>4. CASE ReadLine \/ GiveUp \/ UNCHANGED parseVars
  <2>1. UNCHANGED <<data, pos, prev, executed, asked>>
    BY <1>4 DEF ReadLine, GiveUp, parseVars
  <2> QED BY <2>1 DEF Understands, Reads, Token
<1> QED BY <1>1, <1>2, <1>3, <1>4 DEF ParseNext

\* However often the parser writes over the line, the commands it runs are those
\* that the message names: for any messages of well-formed units in which no
\* unknown header is followed by one that takes its path from the one before
\* (utils.c:678-712).
THEOREM MessagesAreUnderstood ==
    ASSUME NEW CONSTANT S, Cellular(S), \A request \in Requests : Fine(S, request)
    PROVE  ParseSpec => []RunsWhatTheMessageSays
<1>1. ParseInit => Understands(S)
  BY DEF ParseInit, Understands
<1>2. Understands(S) /\ [ParseNext]_parseVars => Understands(S)'
  BY NextUnderstood
<1>3. Understands(S) => RunsWhatTheMessageSays
  BY DEF Understands, RunsWhatTheMessageSays, Idle
<1> QED BY <1>1, <1>2, <1>3, PTL DEF ParseSpec

-----------------------------------------------------------------------------
(* The answers, and the client that reads them.                            *)

\* The answers of some commands, and of one more.
Piece == Seq(Words \cup {"SEMI"})
WithAnswer(text, c) ==
    IF c.does \notin Answering THEN text
    ELSE text \o (IF text = << >> THEN << >> ELSE <<(<<"SEMI">>)>>) \o <<c.path>>
AnswerTexts(t, cmds) ==
    /\ t \in [0..Len(cmds) -> Seq(Piece)] /\ t[0] = << >>
    /\ \A k \in 1..Len(cmds) : t[k] = WithAnswer(t[k - 1], cmds[k])

\* Answers are sequences of paths and separators.
LEMMA AnsweredPieces ==
    ASSUME NEW text \in Seq(Piece), NEW c \in Regulars
    PROVE  WithAnswer(text, c) \in Seq(Piece)
<1>1. c.path \in Piece
  <2>1. c.path \in Seq(Words)
    BY DEF Regulars, Entry
  <2> QED BY <2>1 DEF Piece
<1>2. <<"SEMI">> \in Piece
  BY DEF Piece
<1> HIDE DEF Piece
<1> DEFINE a == IF text = << >> THEN << >> ELSE <<(<<"SEMI">>)>>
           b == <<c.path>>
<1>3. a \in Seq(Piece) /\ b \in Seq(Piece)
  BY <1>1, <1>2
<1> HIDE DEF a, b
<1>4. text \o a \o b \in Seq(Piece)
  BY <1>3
<1> QED BY <1>4 DEF WithAnswer, a, b

\* They come from the commands one by one.
LEMMA AnswersAre ==
    ASSUME NEW cmds \in Seq(Regulars)
    PROVE  \E t : AnswerTexts(t, cmds) /\ AnswersOf(cmds) = t[Len(cmds)]
<1> DEFINE n == Len(cmds)
           X == Seq(Piece)
           on(i, x) == IF cmds[i].does \notin Answering THEN x
                       ELSE x \o (IF x = << >> THEN << >> ELSE <<(<<"SEMI">>)>>) \o <<cmds[i].path>>
           G == [i \in 1..n |-> [x \in X |-> on(i, x)]]
           Is(g) == g = [i \in 0..n |-> IF i = 0 THEN << >> ELSE on(i, g[i - 1])]
           t == CHOOSE g : Is(g)
<1>1. n \in Nat /\ << >> \in X
  OBVIOUS
<1>2. \A x \in X : \A i \in 1..n : on(i, x) \in X
  <2>1. ASSUME NEW x \in X, NEW i \in 1..n PROVE on(i, x) \in X
    <3>1. cmds[i] \in Regulars
      OBVIOUS
    <3>2. WithAnswer(x, cmds[i]) \in X
      BY <3>1, AnsweredPieces
    <3> QED BY <3>2 DEF WithAnswer
  <2> QED BY <2>1
<1>3. AnswersOf(cmds) = t[n]
  BY DEF AnswersOf
<1>31. \A i, x : on(i, x) = WithAnswer(x, cmds[i])
  BY DEF WithAnswer
<1> HIDE DEF n, on, X
<1>4. Steps(G, n, X)
  BY <1>2 DEF Steps
<1>5. PICK f : f \in [0..n -> X] /\ f[0] = << >> /\ \A i \in 1..n : f[i] = G[i][f[i - 1]]
  <2> HIDE DEF G
  <2>1. \E f : Iteration(f, n, X, << >>, G)
    BY <1>1, <1>4, Iterates
  <2> QED BY <2>1 DEF Iteration
<1>6. Is(f)
  <2> DEFINE b == [i \in 0..n |-> IF i = 0 THEN << >> ELSE on(i, f[i - 1])]
  <2>1. ASSUME NEW i \in 0..n PROVE f[i] = b[i]
    <3>1. CASE i = 0
      BY <1>5, <3>1
    <3>2. CASE i # 0
      <4>1. i \in 1..n /\ i - 1 \in 0..n
        BY <1>1, <3>2
      <4>2. f[i - 1] \in X
        BY <1>5, <4>1
      <4> QED BY <1>5, <3>2, <4>1, <4>2
    <3> QED BY <3>1, <3>2
  <2>2. f = [i \in 0..n |-> f[i]] /\ b = [i \in 0..n |-> b[i]]
    BY <1>5
  <2> HIDE DEF b
  <2>3. f = b
    BY <2>1, <2>2
  <2> QED BY <2>3 DEF b
<1>7. Is(t)
  <2> HIDE DEF Is
  <2> QED BY <1>6
<1> HIDE DEF t
<1>8. t[0] = << >> /\ \A k \in 1..n : t[k] = on(k, t[k - 1])
  <2>1. \A i \in 0..n : t[i] = IF i = 0 THEN << >> ELSE on(i, t[i - 1])
    BY <1>7, Zenon
  <2>2. 0 \in 0..n /\ \A k \in 1..n : k \in 0..n /\ k # 0
    BY <1>1
  <2> QED BY <2>1, <2>2, Zenon
<1>9. t \in [0..n -> X]
  <2> DEFINE P == {i \in 0..n : t[i] \in X}
  <2>1. 0 \in P
    <3>1. 0 \in 0..n
      BY <1>1
    <3> QED BY <1>1, <1>8, <3>1, Zenon
  <2>2. ASSUME NEW i \in 1..n, i - 1 \in P PROVE i \in P
    <3>1. i \in 0..n
      BY <1>1
    <3>2. t[i - 1] \in X
      BY <2>2, Zenon
    <3>3. t[i] \in X
      BY <1>2, <1>8, <3>2, Zenon
    <3> QED BY <3>1, <3>3, Zenon
  <2> HIDE DEF P
  <2>3. \A i \in 0..n : i \in P
    BY <1>1, <2>1, <2>2, Climb
  <2>4. \A i \in 0..n : t[i] \in X
    BY <2>3 DEF P
  <2>5. t = [i \in 0..n |-> t[i]]
    BY <1>7
  <2> QED BY <2>4, <2>5
<1>10. \A k \in 1..n : t[k] = WithAnswer(t[k - 1], cmds[k])
  BY <1>8, <1>31, Zenon
<1>11. AnswerTexts(t, cmds)
  BY <1>8, <1>9, <1>10 DEF AnswerTexts, n, X
<1> QED BY <1>3, <1>11 DEF n

\* One more command adds its own answer.
LEMMA OneMoreAnswer ==
    /\ AnswersOf(<< >>) = << >>
    /\ \A cmds \in Seq(Regulars), c \in Regulars :
         AnswersOf(cmds) \in Seq(Piece) /\ AnswersOf(Append(cmds, c)) = WithAnswer(AnswersOf(cmds), c)
<1>1. AnswersOf(<< >>) = << >>
  <2>1. << >> \in Seq(Regulars) /\ Len(<< >>) = 0
    OBVIOUS
  <2>2. PICK t : AnswerTexts(t, << >>) /\ AnswersOf(<< >>) = t[Len(<< >>)]
    BY <2>1, AnswersAre
  <2> QED BY <2>1, <2>2 DEF AnswerTexts
<1>2. ASSUME NEW cmds \in Seq(Regulars), NEW c \in Regulars
      PROVE  AnswersOf(cmds) \in Seq(Piece) /\ AnswersOf(Append(cmds, c)) = WithAnswer(AnswersOf(cmds), c)
  <2> DEFINE n == Len(cmds)
             more == Append(cmds, c)
  <2>1. n \in Nat /\ more \in Seq(Regulars) /\ Len(more) = n + 1 /\ more[n + 1] = c /\ \A k \in 1..n : more[k] = cmds[k]
    OBVIOUS
  <2> HIDE DEF more
  <2>2. PICK t : AnswerTexts(t, cmds) /\ AnswersOf(cmds) = t[n]
    BY AnswersAre
  <2>3. PICK s : AnswerTexts(s, more) /\ AnswersOf(more) = s[n + 1]
    BY <2>1, AnswersAre
  <2>4. /\ t \in [0..n -> Seq(Piece)] /\ t[0] = << >> /\ \A k \in 1..n : t[k] = WithAnswer(t[k - 1], cmds[k])
    BY <2>2 DEF AnswerTexts
  <2>5. /\ s[0] = << >> /\ \A k \in 1..(n + 1) : s[k] = WithAnswer(s[k - 1], more[k])
    BY <2>1, <2>3 DEF AnswerTexts
  <2> HIDE DEF n
  <2> DEFINE P == {i \in 0..n : s[i] = t[i]}
  <2>6. 0 \in P
    <3>1. 0 \in 0..n
      BY <2>1
    <3> QED BY <2>4, <2>5, <3>1
  <2>7. ASSUME NEW i \in 1..n, i - 1 \in P PROVE i \in P
    <3>1. i \in 0..n /\ i \in 1..(n + 1)
      BY <2>1
    <3>2. s[i] = WithAnswer(s[i - 1], cmds[i]) /\ t[i] = WithAnswer(t[i - 1], cmds[i]) /\ s[i - 1] = t[i - 1]
      BY <2>1, <2>4, <2>5, <2>7, <3>1
    <3> QED BY <3>1, <3>2
  <2> HIDE DEF P
  <2>8. n \in P
    <3>1. \A i \in 0..n : i \in P
      BY <2>1, <2>6, <2>7, Climb
    <3>2. n \in 0..n
      BY <2>1
    <3> QED BY <3>1, <3>2
  <2>9. s[n] = t[n]
    BY <2>8 DEF P
  <2>10. s[n + 1] = WithAnswer(s[n], c)
    <3>1. \A k \in 1..(n + 1) : \A m : m = k - 1 => s[k] = WithAnswer(s[m], more[k])
      BY <2>5
    <3> DEFINE k == n + 1
    <3>2. k \in 1..(n + 1) /\ n = k - 1
      BY <2>1
    <3>3. more[k] = c
      BY <2>1
    <3> HIDE DEF k
    <3>4. s[k] = WithAnswer(s[n], more[k])
      BY <3>1, <3>2, Zenon
    <3> QED BY <3>3, <3>4 DEF k
  <2>11. n \in 0..n
    BY <2>1
  <2>12. t[n] \in Seq(Piece)
    BY <2>4, <2>11
  <2> QED BY <2>2, <2>3, <2>9, <2>10, <2>12 DEF more, n
<1> QED BY <1>1, <1>2

\* What the device has written while it parses a message: the answers of the
\* commands run, and the separator that a command after an answer writes.
Answered(cmds) == cmds # << >> /\ cmds[Len(cmds)].does \in Answering
Wrote ==
    /\ executed \in Seq(Regulars)
    /\ output_count = IF Answered(executed) THEN 1 ELSE 0
    /\ AnswersOf(executed) # << >> => \E i \in 1..Len(executed) : executed[i].does \in Answering
    /\ Answered(executed) => AnswersOf(executed) # << >>
    /\ inbox = IF Answered(executed) \/ AnswersOf(executed) = << >> THEN AnswersOf(executed)
               ELSE AnswersOf(executed) \o <<(<<"SEMI">>)>>

\* A command that runs writes its answer after those before it.
LEMMA RunWrites == ASSUME DacFound, Wrote, Runs PROVE Wrote'
<1> DEFINE A == AnswersOf(executed)
           B == AnswersOf(executed')
           semi == <<(<<"SEMI">>)>>
<1>1. CASE UNCHANGED <<executed, inbox, output_count>>
  BY <1>1 DEF Wrote
<1>2. CASE \E c \in Regulars, out \in BOOLEAN : Ran(c, out) /\ (DacFound => (out <=> c.does \in Answering))
  <2>1. PICK c \in Regulars : \E out \in BOOLEAN : Ran(c, out) /\ (out <=> c.does \in Answering)
    BY <1>2
  <2>2. /\ executed' = Append(executed, c)
        /\ inbox' = inbox \o (IF output_count > 0 THEN semi ELSE << >>)
                          \o (IF c.does \in Answering THEN <<c.path>> ELSE << >>)
        /\ output_count' = IF c.does \in Answering THEN 1 ELSE 0
    BY <2>1 DEF Ran
  <2>3. executed \in Seq(Regulars)
    BY DEF Wrote
  <2> DEFINE x == executed
             y == executed'
  <2>4. /\ y \in Seq(Regulars) /\ y # << >> /\ Len(y) = Len(x) + 1 /\ Len(x) \in Nat
        /\ y[Len(y)] = c /\ \A i \in 1..Len(x) : y[i] = x[i]
    BY <2>2, <2>3
  <2>5. A \in Seq(Piece) /\ B = WithAnswer(A, c)
    BY <2>2, <2>3, OneMoreAnswer
  <2>6. Answered(y) <=> c.does \in Answering
    BY <2>4 DEF Answered
  <2>7. /\ output_count = IF Answered(x) THEN 1 ELSE 0
        /\ A # << >> => \E i \in 1..Len(x) : x[i].does \in Answering
        /\ Answered(x) => A # << >>
        /\ inbox = IF Answered(x) \/ A = << >> THEN A ELSE A \o semi
    BY DEF Wrote
  <2> DEFINE paths == <<c.path>>
  <2>8. semi \in Seq(Piece) /\ paths \in Seq(Piece) /\ Len(paths) = 1
    <3>1. c.path \in Piece
      <4>1. c.path \in Seq(Words)
        BY DEF Regulars, Entry
      <4> QED BY <4>1 DEF Piece
    <3>2. <<"SEMI">> \in Piece
      BY DEF Piece
    <3> HIDE DEF Piece
    <3> QED BY <3>1, <3>2
  <2>9. B = IF c.does \notin Answering THEN A
            ELSE A \o (IF A = << >> THEN << >> ELSE semi) \o paths
    BY <2>5 DEF WithAnswer
  <2>10. inbox' = A \o (IF A = << >> THEN << >> ELSE semi) \o (IF c.does \in Answering THEN paths ELSE << >>)
    <3> HIDE DEF A, semi, paths
    <3>1. CASE Answered(x)
      <4>1. inbox = A /\ A # << >> /\ output_count > 0
        BY <2>7, <3>1
      <4> QED BY <2>2, <4>1 DEF semi, paths
    <3>2. CASE ~Answered(x)
      <4>1. inbox = (A \o (IF A = << >> THEN << >> ELSE semi)) /\ ~(output_count > 0)
        <5>1. A \o << >> = A
          BY <2>5
        <5>2. ~(output_count > 0)
          BY <2>7, <3>2
        <5>3. CASE A = << >>
          <6>1. inbox = A
            BY <2>7, <5>3
          <6> QED BY <5>1, <5>2, <5>3, <6>1, Zenon
        <5>4. CASE A # << >>
          <6>1. inbox = A \o semi
            BY <2>7, <3>2, <5>4
          <6> QED BY <5>2, <5>4, <6>1
        <5> QED BY <5>3, <5>4
      <4>2. inbox \in Seq(Piece)
        BY <2>5, <2>8, <4>1
      <4>3. inbox \o << >> = inbox
        BY <4>2
      <4> QED BY <2>2, <4>1, <4>3 DEF semi, paths
    <3> QED BY <3>1, <3>2
  <2> HIDE DEF A, B, semi, paths, x, y
  <2>11. CASE c.does \in Answering
    <3>1. B = A \o (IF A = << >> THEN << >> ELSE semi) \o paths /\ inbox' = B
      BY <2>9, <2>10, <2>11
    <3>2. B # << >>
      <4> DEFINE z == A \o (IF A = << >> THEN << >> ELSE semi)
      <4>1. z \in Seq(Piece)
        BY <2>5, <2>8
      <4>2. B = z \o paths
        BY <3>1
      <4> HIDE DEF z
      <4>3. Len(z \o paths) = Len(z) + 1 /\ Len(z) \in Nat
        <5>1. Len(z) \in Nat
          BY <4>1
        <5>2. Len(z \o paths) = Len(z) + Len(paths)
          BY <2>8, <4>1, ConcatProperties, Zenon
        <5> QED BY <2>8, <5>1, <5>2
      <4>4. Len(B) # 0
        BY <4>2, <4>3
      <4> QED BY <4>4
    <3>3. \E i \in 1..Len(y) : y[i].does \in Answering
      <4>1. Len(y) \in 1..Len(y)
        BY <2>4
      <4> QED BY <2>4, <2>11, <4>1
    <3>4. Answered(y) /\ output_count' = 1
      BY <2>2, <2>6, <2>11
    <3> QED BY <2>4, <3>1, <3>2, <3>3, <3>4 DEF Wrote, B, y
  <2>12. CASE c.does \notin Answering
    <3>1. B = A /\ ~Answered(y) /\ output_count' = 0
      BY <2>2, <2>6, <2>9, <2>12
    <3>2. inbox' = IF A = << >> THEN A ELSE A \o semi
      <4>1. (A \o (IF A = << >> THEN << >> ELSE semi)) \o << >> = IF A = << >> THEN A ELSE A \o semi
        BY <2>5, <2>8
      <4> QED BY <2>10, <2>12, <4>1
    <3>3. B # << >> => \E i \in 1..Len(y) : y[i].does \in Answering
      <4>1. \A i \in 1..Len(x) : i \in 1..Len(y) /\ y[i] = x[i]
        BY <2>4
      <4> QED BY <2>7, <3>1, <4>1
    <3> QED BY <2>4, <3>1, <3>2, <3>3 DEF Wrote, B, y, semi
  <2> QED BY <2>11, <2>12
<1> QED BY <1>1, <1>2 DEF Runs

\* A request whose last header asks and has no parameter ends in "?".
LEMMA EndsInQuery ==
    ASSUME NEW S, Cellular(S), NEW request \in Seq(Unit(S)), request # << >>,
           Last(request).query, Last(request).args = << >>
    PROVE  Last(Text(request)) = "?"
<1> DEFINE n == Len(request)
           u == request[n]
           t == Text(request)
           whole == Whole(request)
           s == UnitStart(request, n)
           w == Len(Spelt(u))
           a == Bit(u.root)
<1>1. n \in Nat /\ n > 0 /\ n \in 1..n /\ n \in 0..n
  OBVIOUS
<1>2. u \in Unit(S) /\ u.query /\ u.args = << >>
  BY <1>1 DEF Last
<1>3. t \in Seq(S)
  <2>1. UnitsText(request) \in [0..n -> Seq(S)]
    BY UnitsTextIs
  <2> HIDE DEF n
  <2>2. UnitsText(request)[n] \in Seq(S)
    BY <1>1, <2>1
  <2> QED BY <2>2 DEF Text, n
<1> HIDE DEF t
<1>4. /\ whole \in Seq(S) /\ Len(whole) = Len(t) + 1 /\ Len(t) \in Nat
      /\ \A i \in 1..Len(t) : whole[i] = t[i]
  <2>1. "NL" \in S /\ whole = Append(t, "NL")
    BY DEF Cellular, Marks, Whole, t
  <2> HIDE DEF whole
  <2> QED BY <1>3, <2>1
<1>5. /\ s \in Nat \ {0} /\ UnitIn(whole, s, Len(whole), u.root, Spelt(u), u.query, u.args)
  <2>1. \A j \in s..Len(whole) : whole[j] = Whole(request)[j]
    OBVIOUS
  <2> HIDE DEF n
  <2>2. /\ s \in Nat \ {0} /\ UnitIn(whole, s, UnitEnd(request, n), u.root, Spelt(u), u.query, u.args)
        /\ UnitEnd(request, n) = Len(whole)
    BY <1>1, <1>4, <2>1, UnitsLie DEF n
  <2> QED BY <2>2
<1>6. w \in Nat /\ w > 0 /\ a \in 0..1
  <2>1. Spelt(u) \in Seq(S) /\ Spelt(u) # << >>
    BY <1>2, SpeltShape
  <2> QED BY <2>1 DEF Bit
<1>7. /\ Len(whole) = s + (a + 2 * w - 1 + 1) /\ whole[s + a + 2 * w - 1] = "?"
  <2>1. Bit(u.query) = 1
    BY <1>2 DEF Bit
  <2> QED BY <1>2, <1>5, <2>1 DEF UnitIn, HeaderIn, HeaderLen
<1> HIDE DEF whole, s, w, a, u, n
<1>8. s + a + 2 * w - 1 = Len(t) /\ Len(t) \in 1..Len(t)
  BY <1>4, <1>5, <1>6, <1>7
<1>9. t[Len(t)] = "?"
  BY <1>4, <1>7, <1>8
<1> QED BY <1>9 DEF Last, t

\* A request that no command answers, and one that ends in a query that is
\* answered and has no parameter.
Quiet(request) == \A i \in 1..Len(Meaning(request)) : Meaning(request)[i].does \notin Answering
Asks(request) == Answered(Meaning(request)) /\ Last(request).query /\ Last(request).args = << >>

\* The client's side: before the end of a message it waits if the request ends
\* in "?"; after it the answers are there, or have been read.
Arriving ==
    \/ /\ waiting /\ line = << >>
       /\ inbox # << >> => LET text == AnswersOf(Meaning(asked))
                           IN  text \in Seq(Piece) /\ text # << >> /\ inbox = Append(text, <<"NL">>)
    \/ ~waiting /\ inbox = << >> /\ (line # << >> => line = Answers(asked))
Arrives ==
    /\ data # << >> => Wrote /\ line = << >> /\ waiting = (Last(Text(asked)) = "?")
    /\ data = << >> => Arriving

\* The answers have no end of line in them,
LEMMA NoLineThere == ASSUME NEW text \in Seq(Piece) PROVE ~Contains(text, <<"NL">>)
<1> SUFFICES ASSUME NEW i \in 1..Len(text), text[i] = <<"NL">> PROVE FALSE
  BY DEF Contains
<1>1. text[i] \in Piece
  OBVIOUS
<1>2. \A x \in Piece : x = <<"NL">> => x[1] \in Words \cup {"SEMI"}
  BY DEF Piece
<1>3. "NL" \in Words \cup {"SEMI"}
  BY <1>1, <1>2
<1> QED BY <1>3 DEF Words

\* nor has what was written so far.
LEMMA WrotePieces == ASSUME Wrote PROVE inbox \in Seq(Piece) /\ AnswersOf(executed) \in Seq(Piece)
<1>1. AnswersOf(executed) \in Seq(Piece)
  <2>1. executed \in Seq(Regulars)
    BY DEF Wrote
  <2>2. PICK t : AnswerTexts(t, executed) /\ AnswersOf(executed) = t[Len(executed)]
    BY <2>1, AnswersAre
  <2>3. Len(executed) \in 0..Len(executed)
    BY <2>1
  <2> QED BY <2>2, <2>3 DEF AnswerTexts
<1>2. <<(<<"SEMI">>)>> \in Seq(Piece)
  <2>1. <<"SEMI">> \in Piece
    BY DEF Piece
  <2> QED BY <2>1
<1>3. AnswersOf(executed) \o <<(<<"SEMI">>)>> \in Seq(Piece)
  BY <1>1, <1>2
<1> QED BY <1>1, <1>3 DEF Wrote

\* The end of the message ends the line, if there was an answer.
LEMMA EndWrites ==
    ASSUME Wrote, line = << >>, executed = Meaning(asked), EndOfMessage, waiting = (Last(Text(asked)) = "?"),
           Quiet(asked) \/ (Asks(asked) /\ Last(Text(asked)) = "?")
    PROVE  Arrives'
<1> DEFINE A == AnswersOf(executed)
<1>1. /\ inbox' = (IF output_count > 0 THEN Append(inbox, <<"NL">>) ELSE inbox)
      /\ data' = << >> /\ UNCHANGED <<executed, asked, waiting, line>>
  BY DEF EndOfMessage
<1>2. A \in Seq(Piece) /\ A = AnswersOf(Meaning(asked))
  BY WrotePieces
<1>3. CASE Quiet(asked)
  <2>1. executed \in Seq(Regulars) /\ \A i \in 1..Len(executed) : executed[i].does \notin Answering
    BY <1>3 DEF Quiet, Wrote
  <2>2. A = << >>
    BY <2>1 DEF Wrote
  <2>3. ~Answered(executed)
    <3> SUFFICES ASSUME Answered(executed) PROVE FALSE
      OBVIOUS
    <3>1. Len(executed) \in 1..Len(executed)
      BY <2>1 DEF Answered
    <3> QED BY <2>1, <3>1 DEF Answered
  <2>4. output_count = 0 /\ inbox = << >>
    BY <2>2, <2>3 DEF Wrote
  <2>5. inbox' = << >>
    BY <1>1, <2>4
  <2>6. Arriving'
    BY <1>1, <2>5 DEF Arriving
  <2> QED BY <1>1, <2>6 DEF Arrives
<1>4. CASE Asks(asked) /\ Last(Text(asked)) = "?"
  <2>1. Answered(executed) /\ waiting
    BY <1>4 DEF Asks
  <2>2. output_count = 1 /\ inbox = A /\ A # << >>
    BY <2>1 DEF Wrote
  <2>3. inbox' = Append(A, <<"NL">>)
    BY <1>1, <2>2
  <2>4. Arriving'
    BY <1>1, <1>2, <2>1, <2>2, <2>3 DEF Arriving
  <2> QED BY <1>1, <2>4 DEF Arrives
<1> QED BY <1>3, <1>4

\* What the client reads is the line that the message has made.
LEMMA ReadArrives ==
    ASSUME Arriving, ReadLine
    PROVE  Arriving'
<1> DEFINE text == AnswersOf(Meaning(asked))
           nl == <<"NL">>
           n == Min({i \in DOMAIN inbox : inbox[i] = nl})
<1>1. /\ waiting /\ Contains(inbox, nl) /\ line' = SubSeq(inbox, 1, n) /\ inbox' = SubSeq(inbox, n + 1, Len(inbox))
      /\ waiting' = FALSE /\ asked' = asked
  BY DEF ReadLine
<1>2. inbox # << >>
  BY <1>1 DEF Contains
<1>3. text \in Seq(Piece) /\ text # << >> /\ inbox = Append(text, nl)
  BY <1>1, <1>2 DEF Arriving
<1> HIDE DEF text, n
<1> DEFINE S == Piece \cup {nl}
           m == Len(text)
           found == {i \in DOMAIN inbox : inbox[i] = nl}
<1>4. text \in Seq(S) /\ nl \in S /\ m \in Nat
  BY <1>3
<1> HIDE DEF S
<1>5. inbox \in Seq(S) /\ Len(inbox) = m + 1 /\ inbox[m + 1] = nl /\ \A i \in 1..m : inbox[i] = text[i]
  <2> HIDE DEF nl
  <2> QED BY <1>3, <1>4
<1>6. \A i \in 1..m : text[i] # nl
  BY <1>3, NoLineThere DEF Contains
<1>7. found = {m + 1}
  <2> HIDE DEF nl, m
  <2> QED BY <1>4, <1>5, <1>6
<1>8. n = m + 1
  <2> HIDE DEF found, m
  <2>1. \A x \in Nat : Min({x}) = x
    BY DEF Min
  <2> QED BY <1>4, <1>7, <2>1 DEF n, found
<1>9. line' = inbox /\ inbox' = << >>
  <2> HIDE DEF m, nl
  <2>1. line' = SubSeq(inbox, 1, m + 1) /\ inbox' = SubSeq(inbox, m + 2, m + 1)
    BY <1>1, <1>4, <1>5, <1>8
  <2>2. SubSeq(inbox, 1, m + 1) = inbox
    <3>1. SubSeq(inbox, 1, Len(inbox)) = inbox
      BY <1>5
    <3> QED BY <1>5, <3>1
  <2>3. SubSeq(inbox, m + 2, m + 1) = << >>
    BY <1>4, <1>5
  <2> QED BY <2>1, <2>2, <2>3
<1>10. Answers(asked) = inbox
  BY <1>3 DEF Answers, text
<1>11. Answers(asked') = inbox
  BY <1>1, <1>10
<1> QED BY <1>1, <1>9, <1>11 DEF Arriving

\* A client that waits long enough, and asks by the last header of its message
\* or not at all, reads exactly the answers to its request and leaves nothing
\* for the next one (parser.c:95-126), on a board with its DAC.
THEOREM AnswersArrive ==
    ASSUME NEW CONSTANT S, Cellular(S), \A request \in Requests : Fine(S, request) /\ (Quiet(request) \/ Asks(request)),
           Patient, DacFound
    PROVE  ParseSpec => []AnswersTheRequest
<1>1. \A request \in Requests : Fine(S, request)
  OBVIOUS
<1>2. \A request \in Requests : Quiet(request) \/ (Asks(request) /\ Last(Text(request)) = "?")
  <2> SUFFICES ASSUME NEW request \in Requests, Asks(request) PROVE Last(Text(request)) = "?"
    OBVIOUS
  <2>1. request \in Seq(Unit(S)) /\ request # << >> /\ Last(request).query /\ Last(request).args = << >>
    BY DEF Fine, Asks
  <2> QED BY <2>1, EndsInQuery
<1>3. ParseInit => Understands(S) /\ Arrives
  BY DEF ParseInit, Understands, Arrives, Arriving
<1>4. Understands(S) /\ Arrives /\ [ParseNext]_parseVars => Understands(S)' /\ Arrives'
  <2> SUFFICES ASSUME Understands(S), Arrives, [ParseNext]_parseVars PROVE Arrives'
    BY <1>1, NextUnderstood
  <2>1. CASE \E request \in Requests : Request(request)
    <3>1. PICK request \in Requests : Request(request)
      BY <2>1
    <3>2. data' # << >>
      BY <1>1, <3>1, RequestUnderstood
    <3>3. /\ data = << >> /\ ~waiting /\ asked' = request /\ waiting' = (Last(Text(request)) = "?")
          /\ output_count' = 0 /\ executed' = << >> /\ line' = << >> /\ inbox' = inbox
      BY <3>1 DEF Request, Idle
    <3>4. inbox = << >>
      BY <3>3 DEF Arrives, Arriving
    <3>5. Wrote'
      <4>1. << >> \in Seq(Regulars) /\ ~Answered(<< >>) /\ AnswersOf(<< >>) = << >>
        BY OneMoreAnswer DEF Answered
      <4> QED BY <3>3, <3>4, <4>1 DEF Wrote
    <3> QED BY <3>2, <3>3, <3>5 DEF Arrives
  <2>2. CASE ParseUnit
    <3>1. Runs /\ data # << >> /\ data' # << >>
      BY <1>1, <2>2, UnitUnderstood
    <3>2. UNCHANGED <<asked, waiting, line>>
      BY <2>2 DEF ParseUnit
    <3>3. Wrote'
      BY <3>1, RunWrites DEF Arrives
    <3> QED BY <3>1, <3>2, <3>3 DEF Arrives
  <2>3. CASE EndOfMessage
    <3>1. ~Running /\ data # << >>
      BY <2>3 DEF EndOfMessage
    <3>2. asked \in Requests /\ executed = Meaning(asked)
      BY <1>1, <3>1, EndUnderstood
    <3> QED BY <1>2, <2>3, <3>1, <3>2, EndWrites DEF Arrives
  <2>4. CASE ReadLine
    <3>1. UNCHANGED data
      BY <2>4 DEF ReadLine
    <3>2. data = << >>
      <4> SUFFICES ASSUME data # << >> PROVE FALSE
        OBVIOUS
      <4>1. inbox \in Seq(Piece)
        BY WrotePieces DEF Arrives
      <4> QED BY <2>4, <4>1, NoLineThere DEF ReadLine
    <3> QED BY <2>4, <3>1, <3>2, ReadArrives DEF Arrives
  <2>5. CASE GiveUp
    <3>1. data = << >> /\ waiting /\ waiting' = FALSE /\ inbox' = << >> /\ UNCHANGED <<data, asked, line>>
      BY <2>5 DEF GiveUp, Idle
    <3> QED BY <3>1 DEF Arrives, Arriving
  <2>6. CASE UNCHANGED parseVars
    <3>1. UNCHANGED <<data, executed, output_count, inbox, line, waiting, asked>>
      BY <2>6 DEF parseVars
    <3> QED BY <3>1 DEF Arrives, Arriving, Wrote
  <2> QED BY <2>1, <2>2, <2>3, <2>4, <2>5, <2>6 DEF ParseNext
<1>5. Arrives => AnswersTheRequest
  <2> SUFFICES ASSUME Arrives PROVE AnswersTheRequest
    OBVIOUS
  <2>1. CASE data # << >>
    BY <2>1 DEF Arrives, AnswersTheRequest, Idle
  <2>2. CASE data = << >>
    BY <2>2 DEF Arrives, Arriving, AnswersTheRequest
  <2> QED BY <2>1, <2>2
<1> QED BY <1>3, <1>4, <1>5, PTL DEF ParseSpec
=============================================================================
