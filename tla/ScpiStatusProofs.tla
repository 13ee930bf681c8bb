-------------------------- MODULE ScpiStatusProofs --------------------------
(***************************************************************************)
(* For every queue size and every set of errors and masks: the status byte *)
(* is the summary of the registers, and the ring buffer implements the     *)
(* abstract log.                                                           *)
(***************************************************************************)
EXTENDS ScpiStatus, TLAPS

\* The write index is the read index plus the entries in between.
IndicesAgree == wr = (rd + count) % Size

Inv == TypeOK /\ IndicesAgree /\ StatusByteIsSummary

LEMMA Modulo ==
    ASSUME NEW n \in Nat \ {0}, NEW a \in Nat, a < 2 * n
    PROVE  a % n = IF a < n THEN a ELSE a - n
<1>1. CASE a < n  BY <1>1, Z3
<1>2. CASE a >= n BY <1>2, Z3
<1> QED BY <1>1, <1>2

-----------------------------------------------------------------------------
(* The registers. *)

RegOK(r) == r \in [Registers -> SUBSET Bits]

\* What the status byte must say of the event registers and of itself.
Summarised(r) ==
    /\ "ESR" \in r["STB"] <=> r["ESR"] \cap r["ESE"] # {}
    /\ "QES" \in r["STB"] <=> r["QUES"] \cap r["QUESE"] # {}
    /\ "SRQ" \in r["STB"] <=> (r["STB"] \cap r["SRE"]) \ {"SRQ"} # {}

Good(r) == RegOK(r) /\ Summarised(r)

\* Writing the status byte repairs its service request bit, whatever it was.
LEMMA SetSTBLemma ==
    ASSUME NEW r, RegOK(r), NEW val \in SUBSET Bits
    PROVE  LET s == SetSTB(r, val)
           IN  /\ RegOK(s)
               /\ \A n \in Registers \ {"STB"} : s[n] = r[n]
               /\ \A b \in Bits \ {"SRQ"} : b \in s["STB"] <=> b \in val
               /\ "SRQ" \in s["STB"] <=> (s["STB"] \cap s["SRE"]) \ {"SRQ"} # {}
<1> DEFINE s == SetSTB(r, val)
<1>1. RegOK(s) /\ \A n \in Registers \ {"STB"} : s[n] = r[n]
  BY DEF RegOK, SetSTB, Registers, Bits, StbBits
<1>2. s["STB"] = IF val \cap (r["SRE"] \ {"SRQ"}) # {} THEN val \cup {"SRQ"} ELSE val \ {"SRQ"}
  BY DEF RegOK, SetSTB, Registers
<1>3. s["SRE"] = r["SRE"]
  BY <1>1 DEF Registers
<1> HIDE DEF s
<1>4. "SRQ" \in s["STB"] <=> (s["STB"] \cap s["SRE"]) \ {"SRQ"} # {}
  BY <1>2, <1>3
<1>5. \A b \in Bits \ {"SRQ"} : b \in s["STB"] <=> b \in val
  BY <1>2
<1> QED BY <1>1, <1>4, <1>5 DEF s

\* Writing an event register repairs its summary bit and disturbs no other.
LEMMA SetEventLemma ==
    ASSUME NEW r, RegOK(r), NEW event \in {"ESR", "QUES"}, NEW val \in SUBSET Bits
    PROVE  LET s == SetEvent(r, event, val)
           IN  /\ RegOK(s)
               /\ s[event] = val
               /\ \A n \in Registers \ {"STB", event} : s[n] = r[n]
               /\ Summary(event) \in s["STB"] <=> val \cap r[Enable(event)] # {}
               /\ \A b \in Bits \ {"SRQ", Summary(event)} : b \in s["STB"] <=> b \in r["STB"]
               /\ "SRQ" \in s["STB"] <=> (s["STB"] \cap s["SRE"]) \ {"SRQ"} # {}
<1> DEFINE q == [r EXCEPT ![event] = val]
           stb == IF val \cap r[Enable(event)] # {}
                  THEN r["STB"] \cup {Summary(event)} ELSE r["STB"] \ {Summary(event)}
           s == SetSTB(q, stb)
<1>1. RegOK(q) /\ q[event] = val /\ \A n \in Registers \ {event} : q[n] = r[n]
  BY DEF RegOK, Registers
<1>2. Summary(event) \in Bits \ {"SRQ"}
  BY DEF Summary, Bits, StbBits
<1>3. stb \in SUBSET Bits
  BY <1>2 DEF RegOK, Registers
<1>4. SetEvent(r, event, val) = s
  BY DEF SetEvent
<1>5. /\ RegOK(s)
      /\ \A n \in Registers \ {"STB"} : s[n] = q[n]
      /\ \A b \in Bits \ {"SRQ"} : b \in s["STB"] <=> b \in stb
      /\ "SRQ" \in s["STB"] <=> (s["STB"] \cap s["SRE"]) \ {"SRQ"} # {}
  <2> HIDE DEF q, stb
  <2> QED BY <1>1, <1>3, SetSTBLemma
<1>6. Summary(event) \in stb <=> val \cap r[Enable(event)] # {}
  OBVIOUS
<1>7. \A b \in Bits \ {Summary(event)} : b \in stb <=> b \in r["STB"]
  OBVIOUS
<1> HIDE DEF q, stb, s
<1> QED BY <1>1, <1>2, <1>4, <1>5, <1>6, <1>7 DEF Registers

\* So each write of an event register keeps a good file of registers good.
LEMMA SetEventGood ==
    ASSUME NEW r, Good(r), NEW event \in {"ESR", "QUES"}, NEW val \in SUBSET Bits
    PROVE  /\ Good(SetEvent(r, event, val))
           /\ "QMA" \in SetEvent(r, event, val)["STB"] <=> "QMA" \in r["STB"]
           /\ SetEvent(r, event, val)[event] = val
<1> DEFINE s == SetEvent(r, event, val)
<1>1. RegOK(r) BY DEF Good
<1>2. /\ RegOK(s)
      /\ s[event] = val
      /\ \A n \in Registers \ {"STB", event} : s[n] = r[n]
      /\ Summary(event) \in s["STB"] <=> val \cap r[Enable(event)] # {}
      /\ \A b \in Bits \ {"SRQ", Summary(event)} : b \in s["STB"] <=> b \in r["STB"]
      /\ "SRQ" \in s["STB"] <=> (s["STB"] \cap s["SRE"]) \ {"SRQ"} # {}
  BY <1>1, SetEventLemma
<1> HIDE DEF s
<1>3. "QMA" \in s["STB"] <=> "QMA" \in r["STB"]
  BY <1>2 DEF Summary, Bits, StbBits
<1>4. Summarised(s)
  <2>1. CASE event = "ESR"
    BY <1>2, <2>1 DEF Good, Summarised, Summary, Enable, Registers, Bits, StbBits
  <2>2. CASE event = "QUES"
    BY <1>2, <2>2 DEF Good, Summarised, Summary, Enable, Registers, Bits, StbBits
  <2> QED BY <2>1, <2>2
<1> QED BY <1>2, <1>3, <1>4 DEF Good, s

\* The same for writing an enable register, which updates its event register.
LEMMA SetEnableGood ==
    ASSUME NEW r, Good(r), NEW event \in {"ESR", "QUES"}, NEW val \in SUBSET Bits
    PROVE  /\ Good(SetEnable(r, event, val))
           /\ "QMA" \in SetEnable(r, event, val)["STB"] <=> "QMA" \in r["STB"]
<1> DEFINE q == [r EXCEPT ![Enable(event)] = val]
           s == SetEvent(q, event, r[event])
<1>1. /\ RegOK(q) /\ q[Enable(event)] = val
      /\ \A n \in Registers \ {Enable(event)} : q[n] = r[n]
      /\ r[event] \in SUBSET Bits
  BY DEF Good, RegOK, Registers, Enable
<1>2. /\ RegOK(s)
      /\ s[event] = r[event]
      /\ \A n \in Registers \ {"STB", event} : s[n] = q[n]
      /\ Summary(event) \in s["STB"] <=> r[event] \cap q[Enable(event)] # {}
      /\ \A b \in Bits \ {"SRQ", Summary(event)} : b \in s["STB"] <=> b \in q["STB"]
      /\ "SRQ" \in s["STB"] <=> (s["STB"] \cap s["SRE"]) \ {"SRQ"} # {}
  <2> HIDE DEF q
  <2> QED BY <1>1, SetEventLemma
<1>3. SetEnable(r, event, val) = s
  BY DEF SetEnable
<1> HIDE DEF q, s
<1>4. CASE event = "ESR"
  BY <1>1, <1>2, <1>3, <1>4 DEF Good, Summarised, Summary, Enable, Registers, Bits, StbBits
<1>5. CASE event = "QUES"
  BY <1>1, <1>2, <1>3, <1>5 DEF Good, Summarised, Summary, Enable, Registers, Bits, StbBits
<1> QED BY <1>4, <1>5

\* And for the status byte itself, when only the error bit changes.
LEMMA SetErrorBitGood ==
    ASSUME NEW r, Good(r), NEW val \in SUBSET Bits,
           \A b \in Bits \ {"SRQ", "QMA"} : b \in val <=> b \in r["STB"]
    PROVE  /\ Good(SetSTB(r, val))
           /\ "QMA" \in SetSTB(r, val)["STB"] <=> "QMA" \in val
<1> DEFINE s == SetSTB(r, val)
<1>1. /\ RegOK(s)
      /\ \A n \in Registers \ {"STB"} : s[n] = r[n]
      /\ \A b \in Bits \ {"SRQ"} : b \in s["STB"] <=> b \in val
      /\ "SRQ" \in s["STB"] <=> (s["STB"] \cap s["SRE"]) \ {"SRQ"} # {}
  BY SetSTBLemma DEF Good
<1> HIDE DEF s
<1>2. Summarised(s)
  BY <1>1 DEF Good, Summarised, Registers, Bits, StbBits
<1>3. "QMA" \in s["STB"] <=> "QMA" \in val
  BY <1>1 DEF Bits, StbBits
<1> QED BY <1>1, <1>2, <1>3 DEF Good, s

LEMMA SetSREGood ==
    ASSUME NEW r, Good(r), NEW val \in SUBSET Bits
    PROVE  /\ Good(SetSRE(r, val))
           /\ "QMA" \in SetSRE(r, val)["STB"] <=> "QMA" \in r["STB"]
<1> DEFINE q == [r EXCEPT !["SRE"] = val]
           s == SetSTB(q, r["STB"])
<1>1. RegOK(q) /\ r["STB"] \in SUBSET Bits /\ \A n \in Registers \ {"SRE"} : q[n] = r[n]
  BY DEF Good, RegOK, Registers
<1>2. /\ RegOK(s)
      /\ \A n \in Registers \ {"STB"} : s[n] = q[n]
      /\ \A b \in Bits \ {"SRQ"} : b \in s["STB"] <=> b \in r["STB"]
      /\ "SRQ" \in s["STB"] <=> (s["STB"] \cap s["SRE"]) \ {"SRQ"} # {}
  <2> HIDE DEF q
  <2> QED BY <1>1, SetSTBLemma
<1>3. SetSRE(r, val) = s
  BY DEF SetSRE
<1> HIDE DEF q, s
<1> QED
  BY <1>1, <1>2, <1>3 DEF Good, Summarised, Registers, Bits, StbBits

LEMMA EmitEmptyGood ==
    ASSUME NEW r, Good(r), NEW n \in Nat, n > 0 => "QMA" \in r["STB"]
    PROVE  /\ Good(EmitEmpty(r, n))
           /\ "QMA" \in EmitEmpty(r, n)["STB"] <=> n > 0
<1>1. CASE n = 0 /\ "QMA" \in r["STB"]
  <2>1. r["STB"] \ {"QMA"} \in SUBSET Bits BY DEF Good, RegOK, Registers
  <2> QED BY <1>1, <2>1, SetErrorBitGood DEF EmitEmpty
<1>2. CASE ~(n = 0 /\ "QMA" \in r["STB"])
  BY <1>2 DEF EmitEmpty
<1> QED BY <1>1, <1>2

-----------------------------------------------------------------------------
(* The ring buffer. *)

Wrap(i) == IF i < Size THEN i ELSE i - Size

\* The ring read as a sequence, for any contents and indices.
Ring(d, r, n) == [i \in 1..n |-> d[(r + i - 1) % Size]]
Entries == Errors \cup {0, Overflow}

LEMMA WrapLemma ==
    ASSUME StatusAssumption, NEW i \in 0..(2 * Size - 1)
    PROVE  i % Size = Wrap(i) /\ Wrap(i) \in 0..(Size - 1)
<1>1. i \in Nat /\ i < 2 * Size /\ Size \in Nat \ {0}
  BY DEF StatusAssumption
<1>2. i % Size = Wrap(i)
  BY <1>1, Modulo DEF Wrap
<1> QED BY <1>1, <1>2 DEF Wrap

LEMMA RingLemma ==
    ASSUME StatusAssumption, NEW d \in [0..(Size - 1) -> Entries],
           NEW r \in 0..(Size - 1), NEW n \in 0..Size
    PROVE  /\ Len(Ring(d, r, n)) = n
           /\ Ring(d, r, n) \in Seq(Entries)
           /\ DOMAIN Ring(d, r, n) = 1..n
           /\ \A i \in 1..n : /\ Ring(d, r, n)[i] = d[Wrap(r + i - 1)]
                              /\ Wrap(r + i - 1) \in 0..(Size - 1)
<1>1. ASSUME NEW i \in 1..n
      PROVE  (r + i - 1) % Size = Wrap(r + i - 1) /\ Wrap(r + i - 1) \in 0..(Size - 1)
  <2>1. r + i - 1 \in 0..(2 * Size - 1) BY DEF StatusAssumption
  <2> QED BY <2>1, WrapLemma
<1>2. \A i \in 1..n : Ring(d, r, n)[i] = d[Wrap(r + i - 1)] /\ Ring(d, r, n)[i] \in Entries
  BY <1>1 DEF Ring
<1>3. n \in Nat BY DEF StatusAssumption
<1>4. Ring(d, r, n) \in [1..n -> Entries]
  BY <1>2 DEF Ring
<1>5. Ring(d, r, n) \in Seq(Entries) /\ Len(Ring(d, r, n)) = n
  BY <1>3, <1>4
<1>6. DOMAIN Ring(d, r, n) = 1..n
  BY <1>4
<1> QED BY <1>1, <1>2, <1>5, <1>6

\* A write past the last entry appends.
LEMMA RingAppend ==
    ASSUME StatusAssumption, NEW d \in [0..(Size - 1) -> Entries],
           NEW r \in 0..(Size - 1), NEW n \in 0..(Size - 1), NEW e \in Entries
    PROVE  Ring([d EXCEPT ![(r + n) % Size] = e], r, n + 1) = Append(Ring(d, r, n), e)
<1> DEFINE w == (r + n) % Size
           d2 == [d EXCEPT ![w] = e]
<1>1. w = Wrap(r + n) /\ w \in 0..(Size - 1)
  <2>1. r + n \in 0..(2 * Size - 1) BY DEF StatusAssumption
  <2> QED BY <2>1, WrapLemma
<1>2. d2 \in [0..(Size - 1) -> Entries] /\ d2[w] = e
      /\ \A j \in 0..(Size - 1) : j # w => d2[j] = d[j]
  BY <1>1
<1> HIDE DEF w, d2
<1>3. n \in 0..Size /\ n + 1 \in 0..Size BY DEF StatusAssumption
<1>4. \A i \in 1..n : Ring(d, r, n)[i] = d[Wrap(r + i - 1)] /\ Wrap(r + i - 1) \in 0..(Size - 1)
  BY <1>3, RingLemma
<1>5. \A i \in 1..(n + 1) : /\ Ring(d2, r, n + 1)[i] = d2[Wrap(r + i - 1)]
                           /\ Wrap(r + i - 1) \in 0..(Size - 1)
  BY <1>2, <1>3, RingLemma
<1>6. ASSUME NEW i \in 1..n PROVE Wrap(r + i - 1) # w
  BY <1>1 DEF Wrap, StatusAssumption
<1>7. \A i \in 1..n : Ring(d2, r, n + 1)[i] = Ring(d, r, n)[i]
  BY <1>2, <1>4, <1>5, <1>6
<1>8. Ring(d2, r, n + 1)[n + 1] = e
  BY <1>1, <1>2, <1>5
<1>9. /\ Ring(d, r, n) \in Seq(Entries) /\ Len(Ring(d, r, n)) = n
      /\ Ring(d2, r, n + 1) \in Seq(Entries) /\ Len(Ring(d2, r, n + 1)) = n + 1
  BY <1>2, <1>3, RingLemma
<1>10. /\ Append(Ring(d, r, n), e) \in Seq(Entries)
       /\ Len(Append(Ring(d, r, n), e)) = n + 1
       /\ \A i \in 1..n : Append(Ring(d, r, n), e)[i] = Ring(d, r, n)[i]
       /\ Append(Ring(d, r, n), e)[n + 1] = e
  BY <1>9
<1>11. \A i \in 1..(n + 1) : Ring(d2, r, n + 1)[i] = Append(Ring(d, r, n), e)[i]
  BY <1>7, <1>8, <1>10
<1>12. Ring(d2, r, n + 1) = Append(Ring(d, r, n), e)
  BY <1>9, <1>10, <1>11
<1> QED BY <1>12 DEF w, d2

\* A write over the last entry of a full ring replaces it.
LEMMA RingReplace ==
    ASSUME StatusAssumption, NEW d \in [0..(Size - 1) -> Entries],
           NEW r \in 0..(Size - 1), NEW e \in Entries
    PROVE  Ring([d EXCEPT ![Wrap(r + Size - 1)] = e], r, Size) = [Ring(d, r, Size) EXCEPT ![Size] = e]
<1> DEFINE w == Wrap(r + Size - 1)
           d2 == [d EXCEPT ![w] = e]
<1>0. Size \in 1..Size /\ Size \in 0..Size BY DEF StatusAssumption
<1>1. w \in 0..(Size - 1) BY DEF Wrap, StatusAssumption
<1>2. d2 \in [0..(Size - 1) -> Entries] /\ d2[w] = e
      /\ \A j \in 0..(Size - 1) : j # w => d2[j] = d[j]
  BY <1>1
<1>w. w = Wrap(r + Size - 1) OBVIOUS
<1> HIDE DEF w, d2
<1>3. \A i \in 1..Size : Ring(d, r, Size)[i] = d[Wrap(r + i - 1)] /\ Wrap(r + i - 1) \in 0..(Size - 1)
  BY <1>0, RingLemma
<1>4. \A i \in 1..Size : Ring(d2, r, Size)[i] = d2[Wrap(r + i - 1)]
  BY <1>0, <1>2, RingLemma
<1>5. ASSUME NEW i \in 1..Size, i # Size PROVE Wrap(r + i - 1) # w
  <2>1. i \in Int /\ r \in Int /\ Size \in Int /\ 1 <= i /\ i < Size /\ 0 <= r /\ r < Size
    BY <1>5 DEF StatusAssumption
  <2> QED BY <1>w, <2>1 DEF Wrap
<1>6. \A i \in 1..Size : Ring(d2, r, Size)[i] = IF i = Size THEN e ELSE Ring(d, r, Size)[i]
  BY <1>2, <1>3, <1>4, <1>5, <1>w
<1>7. DOMAIN Ring(d2, r, Size) = 1..Size /\ DOMAIN Ring(d, r, Size) = 1..Size
  BY DEF Ring
<1>8. Ring(d2, r, Size) = [Ring(d, r, Size) EXCEPT ![Size] = e]
  BY <1>6, <1>7 DEF Ring
<1> QED BY <1>8 DEF w, d2

\* A step of the read index takes the head off.
LEMMA RingTail ==
    ASSUME StatusAssumption, NEW d \in [0..(Size - 1) -> Entries],
           NEW r \in 0..(Size - 1), NEW n \in 1..Size
    PROVE  Ring(d, (r + 1) % Size, n - 1) = Tail(Ring(d, r, n))
<1> DEFINE r2 == (r + 1) % Size
<1>1. r2 = Wrap(r + 1) /\ r2 \in 0..(Size - 1)
  <2>1. r + 1 \in 0..(2 * Size - 1) BY DEF StatusAssumption
  <2> QED BY <2>1, WrapLemma
<1> HIDE DEF r2
<1>2. n - 1 \in 0..Size /\ n \in 0..Size BY DEF StatusAssumption
<1>3. \A i \in 1..(n - 1) : /\ Ring(d, r2, n - 1)[i] = d[Wrap(r2 + i - 1)]
                           /\ Wrap(r2 + i - 1) \in 0..(Size - 1)
  BY <1>1, <1>2, RingLemma
<1>4. \A i \in 1..n : Ring(d, r, n)[i] = d[Wrap(r + i - 1)] /\ Wrap(r + i - 1) \in 0..(Size - 1)
  BY <1>2, RingLemma
<1>5. ASSUME NEW i \in 1..(n - 1) PROVE Wrap(r2 + i - 1) = Wrap(r + (i + 1) - 1)
  BY <1>1 DEF Wrap, StatusAssumption
<1>6. /\ Ring(d, r, n) \in Seq(Entries) /\ Len(Ring(d, r, n)) = n
      /\ Ring(d, r2, n - 1) \in Seq(Entries) /\ Len(Ring(d, r2, n - 1)) = n - 1
  BY <1>1, <1>2, RingLemma
<1>7. /\ Tail(Ring(d, r, n)) \in Seq(Entries) /\ Len(Tail(Ring(d, r, n))) = n - 1
      /\ \A i \in 1..(n - 1) : Tail(Ring(d, r, n))[i] = Ring(d, r, n)[i + 1]
  BY <1>6
<1>8. \A i \in 1..(n - 1) : i + 1 \in 1..n OBVIOUS
<1>9. \A i \in 1..(n - 1) : Ring(d, r2, n - 1)[i] = Tail(Ring(d, r, n))[i]
  BY <1>3, <1>4, <1>5, <1>7, <1>8
<1>10. Ring(d, r2, n - 1) = Tail(Ring(d, r, n))
  BY <1>6, <1>7, <1>9
<1> QED BY <1>10 DEF r2

-----------------------------------------------------------------------------
(* The steps.  Each is split into what it does to the ring and what it     *)
(* does to the registers.                                                  *)

QmaAgrees == "QMA" \in reg["STB"] <=> count > 0

LEMMA SummaryParts == StatusByteIsSummary <=> Summarised(reg) /\ QmaAgrees
BY DEF StatusByteIsSummary, Summarised, QmaAgrees

FifoOK ==
    /\ data \in [0..(Size - 1) -> Entries]
    /\ wr \in 0..(Size - 1) /\ rd \in 0..(Size - 1) /\ count \in 0..Size
    /\ IndicesAgree

LEMMA InvParts == Inv <=> FifoOK /\ Good(reg) /\ QmaAgrees
BY SummaryParts DEF Inv, TypeOK, FifoOK, Good, RegOK, Entries

LEMMA QueueIsRing == Queue = Ring(data, rd, count)
BY DEF Queue, Ring

LEMMA PushFifo ==
    ASSUME StatusAssumption, FifoOK, NEW err \in Errors, ErrorPush(err)
    PROVE  FifoOK' /\ EL!Push(err) /\ count' > 0
<1>1. CASE count # Size
  <2>1. /\ data' = [data EXCEPT ![(rd + count) % Size] = err] /\ rd' = rd /\ count' = count + 1
        /\ wr' = (wr + 1) % Size
    BY <1>1 DEF ErrorPush, FifoOK, IndicesAgree
  <2>2. count \in 0..(Size - 1) /\ count \in 0..Size /\ err \in Entries
    BY <1>1 DEF FifoOK, Entries, StatusAssumption
  <2>3. Queue' = Append(Queue, err)
    <3>1. Ring(data', rd, count + 1) = Append(Ring(data, rd, count), err)
      BY <2>1, <2>2, RingAppend DEF FifoOK
    <3> QED BY <3>1, <2>1, QueueIsRing DEF Queue, Ring
  <2>4. Len(Queue) = count
    BY <2>2, RingLemma, QueueIsRing DEF FifoOK
  <2>5. rd + count \in 0..(2 * Size - 1) /\ wr + 1 \in 0..(2 * Size - 1) /\ rd + count + 1 \in 0..(2 * Size - 1)
    BY <2>2 DEF FifoOK, StatusAssumption
  <2>6. /\ wr = Wrap(rd + count) /\ wr' = Wrap(wr + 1) /\ wr' \in 0..(Size - 1)
        /\ (rd + count + 1) % Size = Wrap(rd + count + 1)
    BY <2>1, <2>5, WrapLemma DEF FifoOK, IndicesAgree
  <2>7. Wrap(rd + count + 1) = Wrap(wr + 1)
    BY <2>2, <2>6 DEF Wrap, FifoOK, StatusAssumption
  <2>8. IndicesAgree'
    BY <2>1, <2>2, <2>6, <2>7 DEF IndicesAgree, FifoOK, StatusAssumption
  <2>9. data' \in [0..(Size - 1) -> Entries]
    BY <2>1, <2>2 DEF FifoOK
  <2>10. count' \in 0..Size /\ count' > 0
    BY <2>1, <2>2 DEF StatusAssumption
  <2>11. EL!Push(err)
    BY <2>2, <2>3, <2>4 DEF EL!Push, StatusAssumption
  <2> QED BY <2>1, <2>6, <2>8, <2>9, <2>10, <2>11 DEF FifoOK
<1>2. CASE count = Size
  <2> DEFINE last == (wr + Size - 1) % Size
  <2>1. /\ data' = [data EXCEPT ![last] = Overflow] /\ wr' = (last + 1) % Size
        /\ count' = Size /\ rd' = rd
    BY <1>2 DEF ErrorPush
  <2>2. /\ wr + Size - 1 \in 0..(2 * Size - 1) /\ rd + Size \in 0..(2 * Size - 1)
        /\ rd + Size - 1 \in 0..(2 * Size - 1)
    BY DEF FifoOK, StatusAssumption
  <2>3. /\ last = Wrap(wr + Size - 1) /\ last \in 0..(Size - 1) /\ wr = Wrap(rd + Size)
    BY <1>2, <2>2, WrapLemma DEF FifoOK, IndicesAgree
  <2> HIDE DEF last
  <2>4. wr = rd
    BY <2>3 DEF Wrap, FifoOK, StatusAssumption
  <2>5. last + 1 \in 0..(2 * Size - 1)
    BY <2>3 DEF StatusAssumption
  <2>6. wr' = Wrap(last + 1)
    BY <2>1, <2>5, WrapLemma
  <2>7. wr' = wr
    BY <2>3, <2>4, <2>6 DEF Wrap, FifoOK, StatusAssumption
  <2>8. IndicesAgree'
    BY <1>2, <2>1, <2>7 DEF IndicesAgree, FifoOK
  <2>9. data' \in [0..(Size - 1) -> Entries]
    BY <2>1, <2>3 DEF FifoOK, Entries
  <2>10. Queue' = [Queue EXCEPT ![Size] = Overflow]
    <3>1. Overflow \in Entries BY DEF Entries
    <3>2. Ring([data EXCEPT ![Wrap(rd + Size - 1)] = Overflow], rd, Size) = [Ring(data, rd, Size) EXCEPT ![Size] = Overflow]
      BY <3>1, RingReplace DEF FifoOK
    <3>3. Ring(data', rd', count') = [Ring(data, rd, count) EXCEPT ![Size] = Overflow]
      BY <1>2, <2>1, <2>3, <2>4, <3>2
    <3> QED BY <3>3 DEF Queue, Ring
  <2>11. Len(Queue) = Size
    BY <1>2, RingLemma, QueueIsRing DEF FifoOK
  <2>12. EL!Push(err)
    BY <2>10, <2>11 DEF EL!Push, StatusAssumption
  <2> QED BY <2>1, <2>7, <2>8, <2>9, <2>12 DEF FifoOK, StatusAssumption
<1> QED BY <1>1, <1>2

LEMMA PopFifo ==
    ASSUME StatusAssumption, FifoOK, SystemErrorNextQ
    PROVE  FifoOK' /\ (EL!Pop \/ Queue' = Queue)
<1>1. CASE count > 0
  <2>1. rd' = (rd + 1) % Size /\ count' = count - 1 /\ data' = data /\ wr' = wr
    BY <1>1 DEF SystemErrorNextQ
  <2>2. count \in 1..Size /\ count \in 0..Size
    BY <1>1 DEF FifoOK, StatusAssumption
  <2>3. Queue' = Tail(Queue)
    <3>1. Ring(data, (rd + 1) % Size, count - 1) = Tail(Ring(data, rd, count))
      BY <2>2, RingTail DEF FifoOK
    <3> QED BY <2>1, <3>1, QueueIsRing DEF Queue, Ring
  <2>4. Len(Queue) = count
    BY <2>2, RingLemma, QueueIsRing DEF FifoOK
  <2>5. Queue # << >>
    BY <2>2, <2>4
  <2>6. rd + 1 \in 0..(2 * Size - 1) /\ rd + count \in 0..(2 * Size - 1)
    BY <2>2 DEF FifoOK, StatusAssumption
  <2>7. rd' = Wrap(rd + 1) /\ rd' \in 0..(Size - 1) /\ wr = Wrap(rd + count)
    BY <2>1, <2>6, WrapLemma DEF FifoOK, IndicesAgree
  <2>8. rd' + count' \in 0..(2 * Size - 1)
    BY <2>1, <2>2, <2>7 DEF StatusAssumption
  <2>9. (rd' + count') % Size = Wrap(rd' + count')
    BY <2>8, WrapLemma
  <2>10. Wrap(rd' + count') = Wrap(rd + count)
    BY <2>1, <2>2, <2>7 DEF Wrap, FifoOK, StatusAssumption
  <2>11. IndicesAgree'
    BY <2>1, <2>7, <2>9, <2>10 DEF IndicesAgree
  <2> QED BY <2>1, <2>2, <2>3, <2>5, <2>7, <2>11 DEF FifoOK, EL!Pop, StatusAssumption
<1>2. CASE ~(count > 0)
  BY <1>2 DEF SystemErrorNextQ, FifoOK, IndicesAgree, Queue
<1> QED BY <1>1, <1>2

LEMMA ClearFifo ==
    ASSUME StatusAssumption, FifoOK, CoreCls
    PROVE  FifoOK' /\ EL!Clear
<1>1. data' = data /\ wr' = 0 /\ rd' = 0 /\ count' = 0
  BY DEF CoreCls
<1>2. 0 % Size = 0
  <2>1. 0 \in 0..(2 * Size - 1) BY DEF StatusAssumption
  <2> QED BY <2>1, WrapLemma DEF Wrap, StatusAssumption
<1>3. FifoOK'
  BY <1>1, <1>2 DEF FifoOK, IndicesAgree, StatusAssumption
<1>4. Queue' = << >>
  BY <1>1 DEF Queue
<1> QED BY <1>3, <1>4 DEF EL!Clear

LEMMA ClassesAreBits == ASSUME NEW err PROVE ClassBits(err) \in SUBSET Bits
<1>1. \A d \in ErrorDefs : d.bit \in Bits
  BY DEF ErrorDefs, Bits, EsrBits
<1> QED BY <1>1 DEF ClassBits

LEMMA NextInv == ASSUME StatusAssumption, Inv, Next PROVE Inv' /\ [EL!Next]_Queue
<1> USE DEF StatusAssumption
<1>i. FifoOK /\ Good(reg) /\ QmaAgrees
  BY InvParts
<1>r. reg["ESR"] \in SUBSET Bits /\ reg["STB"] \in SUBSET Bits /\ "QMA" \in Bits /\ "OPC" \in Bits
  BY <1>i DEF Good, RegOK, Registers, Bits, StbBits, EsrBits
<1>f. ASSUME UNCHANGED fifo, Good(reg'), "QMA" \in reg'["STB"] <=> "QMA" \in reg["STB"]
      PROVE  FifoOK' /\ Good(reg)' /\ QmaAgrees' /\ Queue' = Queue
  BY <1>i, <1>f DEF fifo, FifoOK, IndicesAgree, QmaAgrees, Queue
<1>q. SUFFICES FifoOK' /\ Good(reg') /\ QmaAgrees' /\ (EL!Next \/ Queue' = Queue)
  <2>1. Inv' <=> FifoOK' /\ Good(reg)' /\ QmaAgrees'
    BY InvParts, PTL
  <2> QED BY <2>1
<1>1. ASSUME NEW err \in Errors, ErrorPush(err)
      PROVE  FifoOK' /\ Good(reg') /\ QmaAgrees' /\ EL!Next
  <2> DEFINE r == IF ClassBits(err) # {} THEN SetEvent(reg, "ESR", reg["ESR"] \cup ClassBits(err)) ELSE reg
  <2>1. Good(r)
    BY <1>i, <1>r, ClassesAreBits, SetEventGood
  <2>2. reg' = SetSTB(r, r["STB"] \cup {"QMA"})
    BY <1>1 DEF ErrorPush
  <2> HIDE DEF r
  <2>3. r["STB"] \cup {"QMA"} \in SUBSET Bits
    BY <2>1, <1>r DEF Good, RegOK, Registers
  <2>4. Good(reg') /\ "QMA" \in reg'["STB"]
    BY <2>1, <2>2, <2>3, SetErrorBitGood
  <2>5. FifoOK' /\ EL!Push(err) /\ count' > 0
    BY <1>1, <1>i, PushFifo
  <2> QED BY <2>4, <2>5 DEF QmaAgrees, EL!Next
<1>2. CASE SystemErrorNextQ
  <2>1. FifoOK' /\ (EL!Pop \/ Queue' = Queue)
    BY <1>2, <1>i, PopFifo
  <2>2. reg' = EmitEmpty(reg, count')
    BY <1>2 DEF SystemErrorNextQ
  <2>3. count' \in Nat /\ (count' > 0 => count > 0)
    BY <1>2, <1>i, <2>1 DEF SystemErrorNextQ, FifoOK
  <2>4. Good(reg') /\ ("QMA" \in reg'["STB"] <=> count' > 0)
    BY <1>i, <2>2, <2>3, EmitEmptyGood DEF QmaAgrees
  <2> QED BY <2>1, <2>4 DEF QmaAgrees, EL!Next
<1>3. CASE CoreCls
  <2> DEFINE r1 == SetEvent(reg, "ESR", {})
             r2 == EmitEmpty(r1, 0)
  <2>1. Good(r1)
    BY <1>i, SetEventGood
  <2>2. Good(r2) /\ "QMA" \notin r2["STB"]
    <3> HIDE DEF r1
    <3> QED BY <2>1, EmitEmptyGood
  <2>3. reg' = SetEvent(r2, "QUES", {}) /\ count' = 0
    BY <1>3 DEF CoreCls
  <2> HIDE DEF r1, r2
  <2>4. Good(reg') /\ "QMA" \notin reg'["STB"]
    BY <2>2, <2>3, SetEventGood
  <2>5. FifoOK' /\ EL!Clear
    BY <1>3, <1>i, ClearFifo
  <2> QED BY <2>3, <2>4, <2>5 DEF QmaAgrees, EL!Next
<1>4. CASE CoreEsrQ
  <2>1. Good(reg') /\ ("QMA" \in reg'["STB"] <=> "QMA" \in reg["STB"])
    BY <1>4, <1>i, SetEventGood DEF CoreEsrQ
  <2> QED BY <2>1, <1>4, <1>f DEF CoreEsrQ
<1>5. CASE CoreOpc
  <2>1. reg["ESR"] \cup {"OPC"} \in SUBSET Bits BY <1>r
  <2>2. Good(reg') /\ ("QMA" \in reg'["STB"] <=> "QMA" \in reg["STB"])
    BY <1>5, <1>i, <2>1, SetEventGood DEF CoreOpc
  <2> QED BY <2>2, <1>5, <1>f DEF CoreOpc
<1>6. CASE StatusQuestionableClear
  <2>1. Good(reg') /\ ("QMA" \in reg'["STB"] <=> "QMA" \in reg["STB"])
    BY <1>6, <1>i, SetEventGood DEF StatusQuestionableClear
  <2> QED BY <2>1, <1>6, <1>f DEF StatusQuestionableClear
<1>7. ASSUME NEW mask \in EseMasks, CoreEse(mask)
      PROVE  FifoOK' /\ Good(reg') /\ QmaAgrees' /\ Queue' = Queue
  <2>1. mask \in SUBSET Bits BY DEF Bits
  <2>2. Good(reg') /\ ("QMA" \in reg'["STB"] <=> "QMA" \in reg["STB"])
    BY <1>7, <1>i, <2>1, SetEnableGood DEF CoreEse
  <2> QED BY <2>2, <1>7, <1>f DEF CoreEse
<1>8. ASSUME NEW mask \in SreMasks, CoreSre(mask)
      PROVE  FifoOK' /\ Good(reg') /\ QmaAgrees' /\ Queue' = Queue
  <2>1. mask \in SUBSET Bits BY DEF Bits
  <2>2. Good(reg') /\ ("QMA" \in reg'["STB"] <=> "QMA" \in reg["STB"])
    BY <1>8, <1>i, <2>1, SetSREGood DEF CoreSre
  <2> QED BY <2>2, <1>8, <1>f DEF CoreSre
<1>9. ASSUME NEW mask \in QueseMasks, StatusQuestionableEnable(mask)
      PROVE  FifoOK' /\ Good(reg') /\ QmaAgrees' /\ Queue' = Queue
  <2>1. mask \in SUBSET Bits BY DEF Bits
  <2>2. Good(reg') /\ ("QMA" \in reg'["STB"] <=> "QMA" \in reg["STB"])
    BY <1>9, <1>i, <2>1, SetEnableGood DEF StatusQuestionableEnable
  <2> QED BY <2>2, <1>9, <1>f DEF StatusQuestionableEnable
<1> QED
  BY <1>1, <1>2, <1>3, <1>4, <1>5, <1>6, <1>7, <1>8, <1>9 DEF Next

LEMMA InitInv == ASSUME StatusAssumption, Init PROVE Inv /\ EL!Init
<1>1. 0 % Size = 0
  <2>1. 0 \in 0..(2 * Size - 1) BY DEF StatusAssumption
  <2> QED BY <2>1, WrapLemma DEF Wrap, StatusAssumption
<1>2. TypeOK /\ IndicesAgree
  BY <1>1 DEF Init, TypeOK, IndicesAgree, StatusAssumption
<1>3. StatusByteIsSummary
  BY DEF Init, StatusByteIsSummary, Registers
<1>4. Queue = << >>
  BY DEF Init, Queue
<1> QED BY <1>2, <1>3, <1>4 DEF Inv, EL!Init

LEMMA Invariance == Spec => []Inv
<1>1. Init => Inv BY StatusAssumption, InitInv
<1>2. Inv /\ [Next]_vars => Inv'
  <2>1. Inv /\ UNCHANGED vars => Inv'
    BY DEF vars, fifo, Inv, TypeOK, IndicesAgree, StatusByteIsSummary
  <2> QED BY <2>1, StatusAssumption, NextInv
<1> QED BY <1>1, <1>2, PTL DEF Spec

\* No sequence of errors and status commands leaves a stale summary bit
\* (ieee488.c:112-178, error.c:64-82): not for any masks, nor any queue size.
THEOREM SummaryIsExact == Spec => []StatusByteIsSummary
BY Invariance, PTL DEF Inv

\* fifo.c and error.c implement the log of errors, through every wrap and
\* overflow.
THEOREM QueueRefinement == Spec => ImplementsErrorLog
<1>1. Init => EL!Init BY StatusAssumption, InitInv
<1>2. Inv /\ [Next]_vars => [EL!Next]_Queue
  <2>1. UNCHANGED vars => UNCHANGED Queue BY DEF vars, fifo, Queue
  <2> QED BY <2>1, StatusAssumption, NextInv
<1> QED BY <1>1, <1>2, Invariance, PTL DEF Spec, EL!Spec, ImplementsErrorLog
=============================================================================
