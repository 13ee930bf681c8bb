-------------------------- MODULE ScpiServerProofs --------------------------
(***************************************************************************)
(* ScpiServer keeps its types and its descriptors, for any number of       *)
(* threads and descriptors.  OwnedOnce is inductive once the types are     *)
(* known: each step moves a descriptor from one owner to the next.         *)
(* Where no update of the counter is cut in two, it is exact.              *)
(***************************************************************************)
EXTENDS ScpiServer, FiniteSetTheorems, TLAPS

Inv == TypeOK /\ OwnedOnce

LEMMA InitInv == ASSUME ServerAssumption PROVE Init => Inv
BY ServerAssumption DEF ServerAssumption, Init, Inv, TypeOK, OwnedOnce, Holds, MainHolds

\* One step of the accepting task, a client or a thread keeps the types.
LEMMA NextTypes == ASSUME ServerAssumption, TypeOK, Next PROVE TypeOK'
<1> USE DEF ServerAssumption, TypeOK, netVars, mainVars, Goto, Idle, Free
<1>1. CASE Accept      BY <1>1 DEF Accept
<1>2. CASE Admit       BY <1>2 DEF Admit
<1>3. CASE Reject      BY <1>3 DEF Reject, Close
<1>4. CASE Create      BY <1>4 DEF Create
<1>5. CASE CreateFails BY <1>5 DEF CreateFails
<1>6. CASE Connect     BY <1>6 DEF Connect
<1>7. ASSUME NEW f \in Descriptors, Send(f) PROVE TypeOK'
  BY <1>7 DEF Send
<1>8. ASSUME NEW f \in Descriptors, Leave(f) PROVE TypeOK'
  BY <1>8 DEF Leave
<1>9. ASSUME NEW f \in Descriptors, Window(f) PROVE TypeOK'
  BY <1>9 DEF Window
<1>10. ASSUME NEW t \in Threads, Thread(t) PROVE TypeOK'
  <2>1. CASE LedOn(t)        BY <2>1 DEF LedOn
  <2>2. CASE CountIn(t)      BY <2>2 DEF CountIn
  <2>3. CASE Input(t)        BY <2>3 DEF Input
  <2>4. CASE EndOfInput(t)   BY <2>4 DEF EndOfInput
  <2>5. CASE CloseAndFree(t) BY <2>5 DEF CloseAndFree, Close
  <2>6. CASE CountOut(t)     BY <2>6 DEF CountOut
  <2>7. CASE LastOut(t)      BY <2>7 DEF LastOut
  <2>8. CASE LedOff(t)       BY <2>8 DEF LedOff
  <2>9. CASE Answer(t)       BY <2>9 DEF Answer
  <2> QED BY <1>10, <2>1, <2>2, <2>3, <2>4, <2>5, <2>6, <2>7, <2>8, <2>9 DEF Thread
<1> QED BY <1>1, <1>2, <1>3, <1>4, <1>5, <1>6, <1>7, <1>8, <1>9, <1>10 DEF Next, Task, Clients

\* A step that moves no thread across a border of ownership.
LEMMA SameOwners ==
    ASSUME TypeOK, TypeOK', OwnedOnce,
           \A f \in Descriptors : peer'[f] = "none" <=> peer[f] = "none",
           \A f \in Descriptors : MainHolds(f)' <=> MainHolds(f),
           \A t \in Threads, f \in Descriptors : Holds(t, f)' <=> Holds(t, f),
           lost' = lost,
           \A t \in Threads :
              pc'[t] # "hung" =>
                 (t \in contexts' <=> pc'[t] \notin {"none", "dec", "decStore", "test", "ledOff"})
    PROVE  OwnedOnce'
BY DEF OwnedOnce

\* The same for the descriptors, for every step.
LEMMA NextOwners == ASSUME ServerAssumption, Inv, Next PROVE OwnedOnce'
<1>t. TypeOK /\ TypeOK' /\ OwnedOnce BY NextTypes DEF Inv
<1>1. CASE Accept
  BY <1>1, <1>t DEF ServerAssumption, TypeOK, OwnedOnce, Accept, Holds, MainHolds, Free
<1>2. CASE Admit
  BY <1>2, <1>t DEF TypeOK, OwnedOnce, Admit, Holds, MainHolds, netVars
<1>3. CASE Reject
  BY <1>3, <1>t DEF ServerAssumption, TypeOK, OwnedOnce, Reject, Close, Holds, MainHolds
<1>4. CASE Create
  BY <1>4, <1>t DEF ServerAssumption, TypeOK, OwnedOnce, Create, Idle, Goto, Holds, MainHolds, netVars
<1>5. CASE CreateFails
  BY <1>5, <1>t DEF ServerAssumption, TypeOK, OwnedOnce, CreateFails, Holds, MainHolds, netVars
<1>6. CASE Connect
  BY <1>6, <1>t, SameOwners DEF Connect, Holds, MainHolds, mainVars, OwnedOnce
<1>7. ASSUME NEW f \in Descriptors, Send(f) PROVE OwnedOnce'
  BY <1>7, <1>t, SameOwners DEF Send, Holds, MainHolds, mainVars, OwnedOnce
<1>8. ASSUME NEW f \in Descriptors, Leave(f) PROVE OwnedOnce'
  BY <1>8, <1>t, SameOwners DEF Leave, Holds, MainHolds, mainVars, OwnedOnce, TypeOK
<1>9. ASSUME NEW f \in Descriptors, Window(f) PROVE OwnedOnce'
  BY <1>9, <1>t, SameOwners DEF Window, Holds, MainHolds, mainVars, OwnedOnce
<1>10. ASSUME NEW t \in Threads, Thread(t) PROVE OwnedOnce'
  <2> USE <1>t DEF netVars, mainVars, Goto, TypeOK
  <2>1. CASE LedOn(t)        BY <2>1 DEF LedOn, OwnedOnce, Holds, MainHolds
  <2>2. CASE CountIn(t)      BY <2>2 DEF CountIn, OwnedOnce, Holds, MainHolds
  <2>3. CASE Input(t)        BY <2>3 DEF Input, OwnedOnce, Holds, MainHolds
  <2>4. CASE EndOfInput(t)   BY <2>4 DEF EndOfInput, OwnedOnce, Holds, MainHolds
  <2>5. CASE CloseAndFree(t)
    BY <2>5, ServerAssumption DEF CloseAndFree, Close, OwnedOnce, Holds, MainHolds, ServerAssumption
  <2>6. CASE CountOut(t)     BY <2>6 DEF CountOut, OwnedOnce, Holds, MainHolds
  <2>7. CASE LastOut(t)      BY <2>7 DEF LastOut, OwnedOnce, Holds, MainHolds
  <2>8. CASE LedOff(t)       BY <2>8 DEF LedOff, OwnedOnce, Holds, MainHolds
  <2>9. CASE Answer(t)       BY <2>9 DEF Answer, OwnedOnce, Holds, MainHolds
  <2> QED BY <1>10, <2>1, <2>2, <2>3, <2>4, <2>5, <2>6, <2>7, <2>8, <2>9 DEF Thread
<1> QED BY <1>1, <1>2, <1>3, <1>4, <1>5, <1>6, <1>7, <1>8, <1>9, <1>10 DEF Next, Task, Clients

LEMMA Invariance == Spec => []Inv
<1>1. Init => Inv BY ServerAssumption, InitInv
<1>2. Inv /\ [Next]_vars => Inv'
  <2> SUFFICES ASSUME Inv, [Next]_vars PROVE Inv' OBVIOUS
  <2>1. CASE Next BY <2>1, ServerAssumption, NextTypes, NextOwners DEF Inv
  <2>2. CASE UNCHANGED vars
    BY <2>2 DEF vars, netVars, mainVars, Inv, TypeOK, OwnedOnce, Holds, MainHolds
  <2> QED BY <2>1, <2>2
<1> QED BY <1>1, <1>2, PTL DEF Spec

\* No schedule of clients, threads and failures of pthread_create closes a
\* descriptor twice, forgets one that has an owner, or lets a thread read
\* through a context it has freed (scpi_server.c:96-101, 179-198).
THEOREM EveryDescriptorHasOneOwner == Spec => []OwnedOnce
BY Invariance, PTL DEF Inv

(***************************************************************************)
(* The counter, where no update of it is cut in two.  A thread that hangs  *)
(* in its second lock stays counted for ever.                              *)
(***************************************************************************)
In == {t \in Threads : pc[t] \in {"recv", "write", "close", "dec"} \/ (pc[t] = "hung" /\ t \notin contexts)}

CountInv ==
    /\ active = Cardinality(In)
    /\ \A t \in Threads : pc[t] \notin {"incStore", "decStore"}
    /\ led # 0 => \E t \in Threads : pc[t] # "none"

\* The number of threads counted in follows who comes and goes.
LEMMA CountIsSize ==
    ASSUME ServerAssumption
    PROVE  /\ Cardinality(In) \in Nat /\ Cardinality(In)' \in Nat
           /\ IsFiniteSet(Threads \ Idle) /\ Cardinality(Threads \ Idle) \in Nat
           /\ In \subseteq Threads \ Idle => Cardinality(In) <= Cardinality(Threads \ Idle)
           /\ In' = In => Cardinality(In)' = Cardinality(In)
           /\ \A t \in Threads : t \notin In /\ In' = In \cup {t} => Cardinality(In)' = Cardinality(In) + 1
           /\ \A t \in Threads : t \in In /\ In' = In \ {t} => Cardinality(In)' = Cardinality(In) - 1
           /\ Cardinality(In) # 0 => In # {}
           /\ Cardinality(In) = 0 => In = {}
<1>1. IsFiniteSet(Threads) /\ In \subseteq Threads /\ In' \subseteq Threads /\ Threads \ Idle \subseteq Threads
  BY DEF ServerAssumption, In
<1>2. IsFiniteSet(In) /\ IsFiniteSet(In') /\ IsFiniteSet(Threads \ Idle)
  BY <1>1, FS_Subset
<1>3. /\ Cardinality(In) \in Nat /\ Cardinality(In') \in Nat /\ Cardinality(Threads \ Idle) \in Nat
  BY <1>2, FS_CardinalityType
<1>4. In \subseteq Threads \ Idle => Cardinality(In) <= Cardinality(Threads \ Idle)
  BY <1>2, FS_Subset
<1>5. \A t \in Threads : t \notin In /\ In' = In \cup {t} => Cardinality(In') = Cardinality(In) + 1
  BY <1>2, FS_AddElement
<1>6. \A t \in Threads : t \in In /\ In' = In \ {t} => Cardinality(In') = Cardinality(In) - 1
  BY <1>2, FS_RemoveElement
<1>7. Cardinality(In) = 0 <=> In = {}
  BY <1>2, FS_EmptySet
<1> QED BY <1>2, <1>3, <1>4, <1>5, <1>6, <1>7

\* Every step but those of the counter leaves it and the threads it counts.
LEMMA SameCount ==
    ASSUME ServerAssumption, CountInv, In' = In, active' = active,
           \A t \in Threads : pc'[t] \notin {"incStore", "decStore"},
           led' # 0 => \E t \in Threads : pc'[t] # "none"
    PROVE  CountInv'
BY CountIsSize DEF CountInv

LEMMA CountStep ==
    ASSUME ServerAssumption, ~Preempts, Inv, CountInv, [Next]_vars
    PROVE  CountInv'
<1> USE DEF Inv, TypeOK, CountInv, Goto, netVars, mainVars
<1>1. CASE UNCHANGED vars
  BY <1>1, SameCount DEF vars, In
<1>2. CASE Accept \/ Admit \/ Reject \/ CreateFails
  BY <1>2, SameCount DEF Accept, Admit, Reject, CreateFails, In
<1>3. CASE Create
  <2>1. In' = In
    BY <1>3 DEF Create, Idle, In
  <2> QED BY <1>3, <2>1, SameCount DEF Create
<1>4. CASE Clients
  BY <1>4, SameCount DEF Clients, Connect, Send, Window, Leave, In
<1>5. ASSUME NEW t \in Threads, Thread(t) PROVE CountInv'
  <2>1. CASE LedOn(t)
    <3>1. t \in contexts
      BY <2>1 DEF LedOn, OwnedOnce
    <3>2. In' = In /\ pc'[t] # "none"
      BY <2>1, <3>1 DEF LedOn, In
    <3> QED BY <2>1, <3>2, SameCount DEF LedOn
  <2>2. CASE CountIn(t)
    <3>1. pc[t] = "inc" /\ pc' = [pc EXCEPT ![t] = "recv"] /\ active' = active + 1 /\ led' = led /\ contexts' = contexts
      BY <2>2 DEF CountIn
    <3>2. t \notin In /\ In' = In \cup {t}
      BY <3>1 DEF In
    <3>3. active' = Cardinality(In)'
      BY <3>1, <3>2, CountIsSize
    <3> QED BY <3>1, <3>3
  <2>3. CASE Input(t)
    <3>1. In' = In
      BY <2>3 DEF Input, In
    <3> QED BY <2>3, <3>1, SameCount DEF Input
  <2>4. CASE Answer(t)
    <3>1. In' = In
      BY <2>4 DEF Answer, In
    <3> QED BY <2>4, <3>1, SameCount DEF Answer
  <2>5. CASE EndOfInput(t)
    <3>1. In' = In
      BY <2>5 DEF EndOfInput, In
    <3> QED BY <2>5, <3>1, SameCount DEF EndOfInput
  <2>6. CASE CloseAndFree(t)
    <3>1. In' = In
      <4>1. \A u \in Threads : u # t => pc'[u] = pc[u] /\ (u \in contexts' <=> u \in contexts)
        BY <2>6 DEF CloseAndFree
      <4>2. pc[t] = "close" /\ pc'[t] \in {"dec", "hung"} /\ t \notin contexts'
        BY <2>6 DEF CloseAndFree
      <4> QED BY <4>1, <4>2 DEF In
    <3> QED BY <2>6, <3>1, SameCount DEF CloseAndFree
  <2>7. CASE CountOut(t)
    <3>1. pc[t] = "dec" /\ pc' = [pc EXCEPT ![t] = "test"] /\ active' = active - 1 /\ led' = led /\ contexts' = contexts
      BY <2>7 DEF CountOut
    <3>2. t \in In /\ In' = In \ {t}
      BY <3>1 DEF In
    <3>3. active' = Cardinality(In)'
      BY <3>1, <3>2, CountIsSize
    <3> QED BY <3>1, <3>3
  <2>8. CASE LastOut(t)
    <3>1. In' = In /\ active' = active
      BY <2>8 DEF LastOut, In
    <3>2. \E u \in Threads : pc'[u] # "none"
      <4>1. CASE active < 1
        BY <2>8, <4>1 DEF LastOut
      <4>2. CASE active >= 1
        <5>1. PICK u \in In : TRUE
          BY <4>2, CountIsSize
        <5> QED BY <2>8, <5>1 DEF LastOut, In
      <4> QED BY <4>1, <4>2, CountIsSize
    <3> QED BY <2>8, <3>1, <3>2, SameCount DEF LastOut
  <2>9. CASE LedOff(t)
    <3>1. In' = In
      BY <2>9 DEF LedOff, In
    <3> QED BY <2>9, <3>1, SameCount DEF LedOff
  <2> QED BY <1>5, <2>1, <2>2, <2>3, <2>4, <2>5, <2>6, <2>7, <2>8, <2>9 DEF Thread
<1> QED BY <1>1, <1>2, <1>3, <1>4, <1>5 DEF Next, Task

LEMMA CountInvariance ==
    ASSUME ~Preempts
    PROVE  Spec => [](Inv /\ CountInv)
<1>1. Init => CountInv
  <2> SUFFICES ASSUME Init PROVE CountInv
    OBVIOUS
  <2>1. In = {}
    BY DEF Init, In
  <2> QED BY <2>1, FS_EmptySet DEF Init, CountInv
<1>2. Inv /\ CountInv /\ [Next]_vars => CountInv'
  BY ServerAssumption, CountStep
<1> QED BY <1>1, <1>2, Invariance, PTL DEF Spec

\* Where no update of the counter is preempted it is exact, whatever the order
\* in which threads come, go and hang: clients are turned away only when there
\* are MaxActive threads (scpi_server.c:179, 196).
THEOREM CounterIsExact ==
    ASSUME ~Preempts
    PROVE  Spec => []RejectedOnlyWhenFull
<1>1. Inv /\ CountInv => RejectedOnlyWhenFull
  <2>1. In \subseteq Threads \ Idle
    BY DEF In, Idle
  <2> QED BY <2>1, ServerAssumption, CountIsSize DEF RejectedOnlyWhenFull, CountInv, ServerAssumption
<1> QED BY <1>1, CountInvariance, PTL

\* Under the same condition a server whose threads have all ended has its counter
\* at 0 and its LED dark (scpi_server.c:65, 104-112).
THEOREM EndedThreadsLeaveNothing ==
    ASSUME ~Preempts
    PROVE  Spec => []QuietMeansIdle
<1>1. Inv /\ CountInv => QuietMeansIdle
  <2> SUFFICES ASSUME Inv, CountInv, Idle = Threads PROVE active = 0 /\ led = 0
    BY DEF QuietMeansIdle
  <2>1. In = {}
    BY DEF In, Idle
  <2> QED BY <2>1, ServerAssumption, CountIsSize DEF CountInv, Idle
<1> QED BY <1>1, CountInvariance, PTL
=============================================================================
