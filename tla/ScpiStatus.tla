----------------------------- MODULE ScpiStatus -----------------------------
(***************************************************************************)
(* Errors and status of one SCPI client: the ring buffer of fifo.c, the    *)
(* error queue of error.c on top of it, and the registers of ieee488.c,    *)
(* where every write of a register updates the ones that summarise it.     *)
(* A register is the set of its bits.  The condition and operation         *)
(* registers are left out: no command of this device writes them.          *)
(***************************************************************************)
EXTENDS Integers, Sequences

CONSTANTS
    Errors,   \* codes the commands and the parser push
    Size,     \* SCPI_ERROR_QUEUE_SIZE
    SreMasks, EseMasks, QueseMasks  \* parameters of *SRE, *ESE, STAT:QUES:ENAB

Overflow == -350  \* SCPI_ERROR_QUEUE_OVERFLOW
EsrBits  == {"CER", "EER", "DER", "QER", "PON", "URQ", "REQ", "OPC"}
StbBits  == {"QMA", "QES", "ESR", "SRQ"}
QuesBits == {"questionable"}
Bits     == EsrBits \cup StbBits \cup QuesBits
Registers == {"STB", "SRE", "ESR", "ESE", "QUES", "QUESE"}

ASSUME StatusAssumption ==
    /\ Size \in Nat \ {0}
    /\ Errors \subseteq Int
    /\ SreMasks \subseteq SUBSET StbBits
    /\ EseMasks \subseteq SUBSET EsrBits
    /\ QueseMasks \subseteq SUBSET QuesBits

VARIABLES
    data, wr, rd, count,  \* scpi_fifo_t
    reg                   \* context->registers

fifo == <<data, wr, rd, count>>
vars == <<fifo, reg>>

-----------------------------------------------------------------------------
(* Registers: SCPI_RegSet and the updates it makes. *)

SetSTB(r, val) ==
    [r EXCEPT !["STB"] =
        IF val \cap (r["SRE"] \ {"SRQ"}) # {} THEN val \cup {"SRQ"} ELSE val \ {"SRQ"}]

SetSRE(r, val) == SetSTB([r EXCEPT !["SRE"] = val], r["STB"])

\* An event register, its enable register and its bit in the status byte.
Enable(event)  == IF event = "ESR" THEN "ESE" ELSE "QUESE"
Summary(event) == IF event = "ESR" THEN "ESR" ELSE "QES"

SetEvent(r, event, val) ==
    SetSTB([r EXCEPT ![event] = val],
           IF val \cap r[Enable(event)] # {}
           THEN r["STB"] \cup {Summary(event)}
           ELSE r["STB"] \ {Summary(event)})

\* Mutant: the summary is left as it was.
SetEnableOnly(r, event, val) == [r EXCEPT ![Enable(event)] = val]

SetEnable(r, event, val) == SetEvent([r EXCEPT ![Enable(event)] = val], event, r[event])

-----------------------------------------------------------------------------
(* The error queue. *)

\* errs, with the ranges as they are tested: err <= from and err >= to.
ErrorDefs ==
    { [from |-> -100, to |-> -199, bit |-> "CER"], [from |-> -200, to |-> -299, bit |-> "EER"],
      [from |-> -300, to |-> -399, bit |-> "DER"], [from |-> 1, to |-> 32767, bit |-> "DER"],
      [from |-> -400, to |-> -499, bit |-> "QER"], [from |-> -500, to |-> -599, bit |-> "PON"],
      [from |-> -600, to |-> -699, bit |-> "URQ"], [from |-> -700, to |-> -799, bit |-> "REQ"],
      [from |-> -800, to |-> -899, bit |-> "OPC"] }

ClassBits(err) == {d.bit : d \in {d \in ErrorDefs : err <= d.from /\ err >= d.to}}

\* SCPI_ErrorEmitEmpty
EmitEmpty(r, n) == IF n = 0 /\ "QMA" \in r["STB"] THEN SetSTB(r, r["STB"] \ {"QMA"}) ELSE r

TypeOK ==
    /\ data \in [0..(Size - 1) -> Errors \cup {0, Overflow}]
    /\ wr \in 0..(Size - 1) /\ rd \in 0..(Size - 1) /\ count \in 0..Size
    /\ reg \in [Registers -> SUBSET Bits]

Init ==
    /\ data = [i \in 0..(Size - 1) |-> 0]
    /\ wr = 0 /\ rd = 0 /\ count = 0
    /\ reg = [n \in Registers |-> {}]

\* Mutants: the mark is written where the next error would have gone, and a
\* read of an empty queue counts down.
MarkOldest(err) ==
    /\ data' = [data EXCEPT ![wr] = IF count # Size THEN err ELSE Overflow]
    /\ wr' = (wr + 1) % Size
    /\ count' = IF count # Size THEN count + 1 ELSE count
    /\ LET r == SetEvent(reg, "ESR", reg["ESR"] \cup ClassBits(err))
       IN  reg' = SetSTB(r, r["STB"] \cup {"QMA"})
    /\ UNCHANGED rd

\* SCPI_ErrorPushEx.  A full queue gives up its last entry for the mark: the
\* write index goes back by one and forward again.
ErrorPush(err) ==
    /\ IF count # Size
       THEN /\ data' = [data EXCEPT ![wr] = err]
            /\ wr' = (wr + 1) % Size
            /\ count' = count + 1
       ELSE LET last == (wr + Size - 1) % Size
            IN  /\ data' = [data EXCEPT ![last] = Overflow]
                /\ wr' = (last + 1) % Size
                /\ UNCHANGED count
    /\ LET r == IF ClassBits(err) # {} THEN SetEvent(reg, "ESR", reg["ESR"] \cup ClassBits(err)) ELSE reg
       IN  reg' = SetSTB(r, r["STB"] \cup {"QMA"})
    /\ UNCHANGED rd

\* SYSTem:ERRor[:NEXT]?
SystemErrorNextQ ==
    /\ IF count > 0
       THEN rd' = (rd + 1) % Size /\ count' = count - 1
       ELSE UNCHANGED <<rd, count>>
    /\ reg' = EmitEmpty(reg, count')
    /\ UNCHANGED <<data, wr>>

\* *CLS
CoreCls ==
    /\ wr' = 0 /\ rd' = 0 /\ count' = 0
    /\ reg' = SetEvent(EmitEmpty(SetEvent(reg, "ESR", {}), 0), "QUES", {})
    /\ UNCHANGED data

\* *ESR?, which clears what it has read
CoreEsrQ == reg' = SetEvent(reg, "ESR", {}) /\ UNCHANGED fifo

CoreEse(mask) == reg' = SetEnable(reg, "ESR", mask) /\ UNCHANGED fifo
CoreSre(mask) == reg' = SetSRE(reg, mask) /\ UNCHANGED fifo
CoreOpc       == reg' = SetEvent(reg, "ESR", reg["ESR"] \cup {"OPC"}) /\ UNCHANGED fifo

StatusQuestionableEnable(mask) == reg' = SetEnable(reg, "QUES", mask) /\ UNCHANGED fifo

\* STATus:QUEStionable[:EVENt]? and STATus:PRESet
StatusQuestionableClear == reg' = SetEvent(reg, "QUES", {}) /\ UNCHANGED fifo

Next ==
    \/ \E err \in Errors : ErrorPush(err)
    \/ SystemErrorNextQ \/ CoreCls \/ CoreEsrQ \/ CoreOpc \/ StatusQuestionableClear
    \/ \E mask \in EseMasks : CoreEse(mask)
    \/ \E mask \in SreMasks : CoreSre(mask)
    \/ \E mask \in QueseMasks : StatusQuestionableEnable(mask)

Spec == Init /\ [][Next]_vars

-----------------------------------------------------------------------------
(* Properties. *)

\* The ring buffer read as a sequence, oldest error first.
Queue == [i \in 1..count |-> data[(rd + i - 1) % Size]]

EL == INSTANCE ErrorLog WITH log <- Queue

\* Through every wrap of the indices, every overflow and every *CLS, the ring
\* buffer is the abstract log: errors are reported once, in order, and an error
\* is dropped only where the reader finds -350 (fifo.c, error.c:127-147).
ImplementsErrorLog == EL!Spec

\* The status byte is at all times the summary the registers call for,
\* whichever of them was written last: a client that polls *STB? or waits for
\* a service request misses nothing and sees nothing stale (ieee488.c:112-178).
StatusByteIsSummary ==
    LET stb == reg["STB"]
    IN  /\ "QMA" \in stb <=> count > 0
        /\ "ESR" \in stb <=> reg["ESR"] \cap reg["ESE"] # {}
        /\ "QES" \in stb <=> reg["QUES"] \cap reg["QUESE"] # {}
        /\ "SRQ" \in stb <=> (stb \cap reg["SRE"]) \ {"SRQ"} # {}

\* "Device specific error -300, -399" (error.c:160): when an error of that
\* class enters the queue, the device error bit is set.
\* The code does not keep this (README.md, section 5).
NewestErrorHasItsClass ==
    [][count' > 0 /\ Queue' # Queue /\ count' >= count => ClassBits(Queue'[count']) \subseteq reg'["ESR"]]_vars
=============================================================================
