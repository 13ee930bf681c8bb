----------------------------- MODULE ScpiServer -----------------------------
(***************************************************************************)
(* The SCPI server, rffe-app/scpi_server.c: one task accepts connections   *)
(* and starts a detached thread for each; the threads share one counter,   *)
(* active_threads, and the status LED.                                     *)
(*                                                                         *)
(* counter_lock is an uninitialised local of each thread (line 58).  It    *)
(* excludes nobody, whatever its bytes are; locking it may return, or wait *)
(* for ever on the garbage (LockMayHang).  The counter's update is then a  *)
(* plain load and store, and the round robin scheduler the defconfig       *)
(* selects may end a thread's slice anywhere in it (Preempts).             *)
(***************************************************************************)
EXTENDS Integers, FiniteSets

CONSTANTS
    Threads,      \* client threads that can exist at once (bound)
    Descriptors,  \* socket descriptors of the task group
    MaxActive,    \* the 4 of line 179
    Backlog,      \* connections the stack keeps for accept, listen(sockfd, 4)
    MaxChunks,    \* received and unread pieces of 16 bytes (bound)
    MaxDrift,     \* how far below 0 lost updates may take the counter (bound)
    NoDescriptor, \* the -1 of a failed accept
    Preempts,     \* a slice may end between the load and the store
    LockMayHang,  \* locking uninitialised memory may never return
    CreateMayFail \* pthread_create may find no memory for the stack

ASSUME ServerAssumption ==
    /\ IsFiniteSet(Threads) /\ IsFiniteSet(Descriptors)
    /\ MaxActive \in Nat /\ Backlog \in Nat /\ MaxChunks \in Nat /\ MaxDrift \in Nat
    /\ NoDescriptor \notin Descriptors
    /\ {Preempts, LockMayHang, CreateMayFail} \subseteq BOOLEAN

VARIABLES
    backlog,  \* connections that wait for accept
    peer,     \* each descriptor: not in use, or its client is up or has left
    unread,   \* each descriptor: pieces received and not read
    deaf,     \* descriptors whose client takes no answers: its window is closed
    mainPc,   \* the accepting task
    newsockfd,\* the descriptor it has accepted and not yet passed on
    active,   \* active_threads
    lost,     \* descriptors of clients whose thread could not be created
    pc, sockfd, \* each thread: where it is, its copy of context->sockfd
    reg,      \* each thread: the counter it has loaded
    contexts, \* threads whose user_data_t is allocated
    led       \* the status LED: 0 off, 2 green

mainVars == <<mainPc, newsockfd, lost>>
netVars  == <<backlog, peer, unread, deaf>>
vars == <<netVars, mainVars, active, pc, sockfd, reg, contexts, led>>

Idle     == {t \in Threads : pc[t] = "none"}
Free     == {f \in Descriptors : peer[f] = "none"}
Counted  == {t \in Threads : pc[t] \in {"recv", "write", "close", "dec"}}
Goto(t, l) == pc' = [pc EXCEPT ![t] = l]

TypeOK ==
    /\ backlog \in 0..Backlog
    /\ peer \in [Descriptors -> {"none", "up", "left"}]
    /\ unread \in [Descriptors -> 0..MaxChunks]
    /\ deaf \subseteq Descriptors
    /\ mainPc \in {"accept", "check", "create"}
    /\ newsockfd \in Descriptors \cup {NoDescriptor}
    /\ active \in Int
    /\ lost \subseteq Descriptors
    /\ pc \in [Threads -> {"none", "led", "inc", "incStore", "recv", "write", "close",
                           "dec", "decStore", "test", "ledOff", "hung"}]
    /\ sockfd \in [Threads -> Descriptors \cup {NoDescriptor}]
    /\ reg \in [Threads -> Int]
    /\ contexts \subseteq Threads
    /\ led \in {0, 2}

Init ==
    /\ backlog = 0
    /\ peer = [f \in Descriptors |-> "none"]
    /\ unread = [f \in Descriptors |-> 0]
    /\ deaf = {}
    /\ mainPc = "accept" /\ newsockfd = NoDescriptor /\ lost = {}
    /\ active = 0
    /\ pc = [t \in Threads |-> "none"]
    /\ sockfd = [t \in Threads |-> NoDescriptor]
    /\ reg = [t \in Threads |-> 0]
    /\ contexts = {}
    /\ led = 0

-----------------------------------------------------------------------------
(* The clients and the network stack. *)

Connect ==
    /\ backlog < Backlog
    /\ backlog' = backlog + 1
    /\ UNCHANGED <<peer, unread, deaf, mainVars, active, pc, sockfd, reg, contexts, led>>

Send(f) ==
    /\ peer[f] = "up" /\ unread[f] < MaxChunks
    /\ unread' = [unread EXCEPT ![f] = @ + 1]
    /\ UNCHANGED <<backlog, peer, deaf, mainVars, active, pc, sockfd, reg, contexts, led>>

\* The client stops to take answers, or takes them again.
Window(f) ==
    /\ peer[f] = "up"
    /\ deaf' = (deaf \ {f}) \cup ({f} \ deaf)
    /\ UNCHANGED <<backlog, peer, unread, mainVars, active, pc, sockfd, reg, contexts, led>>

Leave(f) ==
    /\ peer[f] = "up"
    /\ peer' = [peer EXCEPT ![f] = "left"]
    /\ UNCHANGED <<backlog, unread, deaf, mainVars, active, pc, sockfd, reg, contexts, led>>

\* close: what was received and not read is dropped; -1 is no descriptor.
Close(f) ==
    /\ peer' = [d \in Descriptors |-> IF d = f THEN "none" ELSE peer[d]]
    /\ unread' = [d \in Descriptors |-> IF d = f THEN 0 ELSE unread[d]]
    /\ deaf' = deaf \ {f}
    /\ UNCHANGED backlog

-----------------------------------------------------------------------------
(* Mutants: defects the properties must notice. *)

\* the accepting task counts the client as well
CreateCounts ==
    /\ mainPc = "create"
    /\ \E t \in Idle :
          /\ contexts' = contexts \cup {t}
          /\ sockfd' = [sockfd EXCEPT ![t] = newsockfd]
          /\ Goto(t, "led")
    /\ active' = active + 1
    /\ mainPc' = "accept" /\ newsockfd' = NoDescriptor
    /\ UNCHANGED <<netVars, lost, reg, led>>

\* a thread that ends does not count itself out
EndUncounted(t) ==
    /\ pc[t] = "dec"
    /\ Goto(t, "test")
    /\ UNCHANGED <<netVars, mainVars, active, sockfd, reg, contexts, led>>

\* the last one out does not see that it is
LastOutMissed(t) ==
    /\ pc[t] = "test"
    /\ Goto(t, IF active < 0 THEN "ledOff" ELSE "none")
    /\ UNCHANGED <<netVars, mainVars, active, sockfd, reg, contexts, led>>

\* no receive timeout: only a client that leaves ends the loop
EndOnlyWhenLeft(t) ==
    /\ pc[t] = "recv"
    /\ sockfd[t] \in Descriptors => unread[sockfd[t]] = 0 /\ peer[sockfd[t]] = "left"
    /\ Goto(t, "close")
    /\ UNCHANGED <<netVars, mainVars, active, sockfd, reg, contexts, led>>

\* the accepting task closes its copy of the descriptor, as after a fork
CreateAndClose ==
    /\ mainPc = "create"
    /\ \E t \in Idle :
          /\ contexts' = contexts \cup {t}
          /\ sockfd' = [sockfd EXCEPT ![t] = newsockfd]
          /\ Goto(t, "led")
    /\ Close(newsockfd)
    /\ mainPc' = "accept" /\ newsockfd' = NoDescriptor
    /\ UNCHANGED <<lost, active, reg, led>>

-----------------------------------------------------------------------------
(* The accepting task. *)

\* accept: with no descriptor left it fails at once, and nobody looks at that.
Accept ==
    /\ mainPc = "accept" /\ active >= -MaxDrift
    /\ \/ /\ backlog > 0
          /\ \E f \in Free :
                /\ newsockfd' = f
                /\ peer' = [peer EXCEPT ![f] = "up"]
          /\ backlog' = backlog - 1
       \/ /\ Free = {}
          /\ newsockfd' = NoDescriptor
          /\ UNCHANGED <<peer, backlog>>
    /\ mainPc' = "check"
    /\ UNCHANGED <<unread, deaf, lost, active, pc, sockfd, reg, contexts, led>>

Admit ==
    /\ mainPc = "check" /\ active < MaxActive
    /\ mainPc' = "create"
    /\ UNCHANGED <<netVars, newsockfd, lost, active, pc, sockfd, reg, contexts, led>>

Reject ==
    /\ mainPc = "check" /\ active >= MaxActive
    /\ Close(newsockfd)
    /\ mainPc' = "accept" /\ newsockfd' = NoDescriptor
    /\ UNCHANGED <<lost, active, pc, sockfd, reg, contexts, led>>

Create ==
    /\ mainPc = "create"
    /\ \E t \in Idle :
          /\ contexts' = contexts \cup {t}
          /\ sockfd' = [sockfd EXCEPT ![t] = newsockfd]
          /\ Goto(t, "led")
    /\ mainPc' = "accept" /\ newsockfd' = NoDescriptor
    /\ UNCHANGED <<netVars, lost, active, reg, led>>

\* The result of pthread_create is ignored: nobody owns the descriptor now.
CreateFails ==
    /\ mainPc = "create" /\ CreateMayFail
    /\ lost' = lost \cup ({newsockfd} \cap Descriptors)
    /\ mainPc' = "accept" /\ newsockfd' = NoDescriptor
    /\ UNCHANGED <<netVars, active, pc, sockfd, reg, contexts, led>>

-----------------------------------------------------------------------------
(* A client's thread, handle_client. *)

\* the LED, and the first lock of the garbage mutex
LedOn(t) ==
    /\ pc[t] = "led"
    /\ led' = 2
    /\ Goto(t, "inc") \/ (LockMayHang /\ Goto(t, "hung"))
    /\ UNCHANGED <<netVars, mainVars, active, sockfd, reg, contexts>>

\* (*active_threads)++ and SCPI_Init
CountIn(t) ==
    /\ \/ /\ pc[t] = "inc" /\ Preempts
          /\ reg' = [reg EXCEPT ![t] = active]
          /\ Goto(t, "incStore")
          /\ UNCHANGED active
       \/ /\ pc[t] = "inc" /\ ~Preempts
          /\ active' = active + 1
          /\ Goto(t, "recv")
          /\ UNCHANGED reg
       \/ /\ pc[t] = "incStore"
          /\ active' = reg[t] + 1
          /\ reg' = [reg EXCEPT ![t] = 0]
          /\ Goto(t, "recv")
    /\ UNCHANGED <<netVars, mainVars, sockfd, contexts, led>>

\* recv gives a piece, which SCPI_Input consumes; it answers what it asks.
Input(t) ==
    /\ pc[t] = "recv" /\ sockfd[t] \in Descriptors
    /\ unread[sockfd[t]] > 0
    /\ unread' = [unread EXCEPT ![sockfd[t]] = @ - 1]
    /\ Goto(t, "recv") \/ Goto(t, "write")
    /\ UNCHANGED <<backlog, peer, deaf, mainVars, active, sockfd, reg, contexts, led>>

\* write waits for the client to take the answer, with no timeout of its own;
\* it fails, which nobody looks at, when the client has left.
Answer(t) ==
    /\ pc[t] = "write"
    /\ sockfd[t] \in deaf => peer[sockfd[t]] = "left"
    /\ Goto(t, "recv")
    /\ UNCHANGED <<netVars, mainVars, active, sockfd, reg, contexts, led>>

\* recv gives 0 when the client has left, and an error when 30 s have passed
\* with nothing to read or the descriptor is -1.  Each ends the loop.
EndOfInput(t) ==
    /\ pc[t] = "recv"
    /\ sockfd[t] \in Descriptors => unread[sockfd[t]] = 0
    /\ Goto(t, "close")
    /\ UNCHANGED <<netVars, mainVars, active, sockfd, reg, contexts, led>>

\* close, free(context), and the second lock.  sockfd is not used again.
CloseAndFree(t) ==
    /\ pc[t] = "close"
    /\ Close(sockfd[t])
    /\ contexts' = contexts \ {t}
    /\ sockfd' = [sockfd EXCEPT ![t] = NoDescriptor]
    /\ Goto(t, "dec") \/ (LockMayHang /\ Goto(t, "hung"))
    /\ UNCHANGED <<mainVars, active, reg, led>>

\* (*active_threads)--
CountOut(t) ==
    /\ \/ /\ pc[t] = "dec" /\ Preempts
          /\ reg' = [reg EXCEPT ![t] = active]
          /\ Goto(t, "decStore")
          /\ UNCHANGED active
       \/ /\ pc[t] = "dec" /\ ~Preempts
          /\ active' = active - 1
          /\ Goto(t, "test")
          /\ UNCHANGED reg
       \/ /\ pc[t] = "decStore"
          /\ active' = reg[t] - 1
          /\ reg' = [reg EXCEPT ![t] = 0]
          /\ Goto(t, "test")
    /\ UNCHANGED <<netVars, mainVars, sockfd, contexts, led>>

\* if (*active_threads < 1), a second look at the counter
LastOut(t) ==
    /\ pc[t] = "test"
    /\ Goto(t, IF active < 1 THEN "ledOff" ELSE "none")
    /\ UNCHANGED <<netVars, mainVars, active, sockfd, reg, contexts, led>>

LedOff(t) ==
    /\ pc[t] = "ledOff"
    /\ led' = 0
    /\ Goto(t, "none")
    /\ UNCHANGED <<netVars, mainVars, active, sockfd, reg, contexts>>

Task == Accept \/ Admit \/ Reject \/ Create \/ CreateFails
Thread(t) ==
    \/ LedOn(t) \/ CountIn(t) \/ Input(t) \/ Answer(t) \/ EndOfInput(t) \/ CloseAndFree(t)
    \/ CountOut(t) \/ LastOut(t) \/ LedOff(t)
Clients == Connect \/ \E f \in Descriptors : Send(f) \/ Window(f) \/ Leave(f)

Next == Task \/ Clients \/ \E t \in Threads : Thread(t)

\* The scheduler runs every thread that is ready; a client owes nothing.
Fairness == WF_vars(Task) /\ \A t \in Threads : WF_vars(Thread(t))

Spec == Init /\ [][Next]_vars
FairSpec == Spec /\ Fairness

-----------------------------------------------------------------------------
(* Properties. *)

\* A hung thread has kept its context or has already freed it.
Holds(t, f) ==
    /\ sockfd[t] = f
    /\ pc[t] \in {"led", "inc", "incStore", "recv", "write", "close"}
       \/ (pc[t] = "hung" /\ t \in contexts)
MainHolds(f) == mainPc # "accept" /\ newsockfd = f

\* Descriptor numbers are reused at once, so a second close would cut off some
\* other client, and a forgotten one would eat the table.  Every open
\* descriptor has exactly one owner: one thread that will still close it, or
\* the accepting task, or it is lost to a failed pthread_create; no thread
\* reads after its close or runs commands on a freed context.
OwnedOnce ==
    /\ \A f \in Descriptors :
          /\ peer[f] # "none" <=> (f \in lost \/ MainHolds(f) \/ \E t \in Threads : Holds(t, f))
          /\ MainHolds(f) => f \notin lost
          /\ \A t \in Threads :
                Holds(t, f) => /\ ~MainHolds(f) /\ f \notin lost
                               /\ \A u \in Threads : Holds(u, f) => u = t
    /\ \A t \in Threads :
          pc[t] # "hung" =>
             (t \in contexts <=> pc[t] \notin {"none", "dec", "decStore", "test", "ledOff"})

\* "Connection rejected, maximum active connections reached!" (line 196): when
\* a client is turned away, MaxActive threads do exist.
RejectedOnlyWhenFull ==
    mainPc = "check" /\ active >= MaxActive => Cardinality(Threads \ Idle) >= MaxActive

\* The same message says that MaxActive is a maximum: no more clients than
\* that are counted in and served.
\* The code does not keep this (README.md, section 5).
AtMostMaxActive == Cardinality(Counted) <= MaxActive

\* When every client thread has ended the counter is back at 0 and the LED is
\* dark, in whatever order the threads came and went.
QuietMeansIdle == Idle = Threads => active = 0 /\ led = 0

\* The thread of f's client hangs in its first lock, before it reads anything.
HangsWith(f) == \E t \in contexts : pc[t] = "hung" /\ sockfd[t] = f

\* A client that has left, or one that is silent for good and takes its
\* answers, gives its descriptor back (the receive timeout of line 166 is what
\* frees the second), unless no thread could be created for it (line 191) or
\* its thread hangs in the lock of line 64.
DescriptorsComeBack ==
    \A f \in Descriptors :
        <>[][unread'[f] <= unread[f]]_vars /\ <>[](f \in deaf => peer[f] = "left")
            => (peer[f] # "none" ~> peer[f] = "none" \/ f \in lost \/ HangsWith(f))

\* "Receive timeout: 30s" (line 164): a client that stays silent is let go,
\* whether it takes its answers or not.
\* The code does not keep this (README.md, section 5).
SilentClientsAreLetGo ==
    \A f \in Descriptors :
        <>[][unread'[f] <= unread[f]]_vars => (peer[f] # "none" ~> peer[f] = "none")

\* Threads that hang in the lock of line 103 have been counted in and not out.
CountedForEver == {t \in Threads \ contexts : pc[t] = "hung"}

\* When no client comes any more, the server forgets them all, but for the
\* threads that hang in the lock of line 103: they stay counted.  The LED goes
\* dark if no thread hangs in either lock.  When lost and hanging clients have
\* taken every descriptor, accept fails at once and the server never rests.
ServerGoesQuiet ==
    <>[](backlog = 0 /\ \A f \in Descriptors : peer[f] # "up") =>
        <>[](Free # {} => /\ active = Cardinality(CountedForEver)
                          /\ (\A t \in Threads : pc[t] # "hung") => led = 0)
=============================================================================
