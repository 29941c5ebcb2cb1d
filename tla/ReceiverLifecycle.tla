-------------------------- MODULE ReceiverLifecycle -------------------------
(***************************************************************************)
(* rx_core.c: the owner of a receiver calls st2110rx_start, st2110rx_stop  *)
(* and st2110rx_destroy; between a start and the join of the stop that     *)
(* follows it a receive thread runs beside the owner.  On Windows (Iocp)   *)
(* the thread works a pool of buffers posted to the kernel, whose          *)
(* completions arrive at a completion port; on Linux it blocks in          *)
(* recvfrom.                                                               *)
(***************************************************************************)
EXTENDS Integers, Sequences

CONSTANTS Iocp,        \* TRUE: the _WIN32 build
          NumBuffers,  \* RX_IOCP_NUM_BUFFERS
          BatchSize,   \* RX_IOCP_BATCH
          SocketQueue, \* datagrams SO_RCVBUF holds, on Linux
          Faults       \* the calls to the system that may fail

ASSUME IocpAssumption == Iocp \in BOOLEAN
ASSUME NumBuffersAssumption == NumBuffers \in Nat \ {0}
ASSUME BatchSizeAssumption == BatchSize \in Nat \ {0}
ASSUME SocketQueueAssumption == SocketQueue \in Nat \ {0}
ASSUME FaultsAssumption ==
    Faults \subseteq {"init", "socket", "pool", "port", "thread", "prime",
                      "dequeue", "repost", "wakeup"}

Buffers == 1 .. NumBuffers

\* What the port queues: a buffer and whether bytes were put into it (none if
\* the receive was cancelled, failed, or took an empty datagram), or the
\* wake-up of a stop, which has no buffer.
Wake == [buffer |-> 0, filled |-> FALSE]
Completions == [buffer : Buffers, filled : BOOLEAN] \cup {Wake}

VARIABLES owner,          \* next step of the owner's call; "idle" between two
          destroying,     \* the stop is called by st2110rx_destroy
          running, threadStarted, socketsInit,  \* fields of st2110rx
          sock,           \* the socket is valid: bound, a member, and open
          pool,           \* iocp_buffers is allocated
          iocp,           \* the completion port is open
          libraryRefs,    \* WSAStartups not yet undone by a WSACleanup
          posted,         \* buffers the kernel may write to
          orphaned,       \* the kernel may write to a pool that was freed
          port,           \* completions not yet dequeued
          queued,         \* datagrams in the socket, on Linux (on Windows
                          \* ReceiveCompletes stands for the queue as well)
          thread,         \* next step of the receive thread
          primed,         \* i: buffers posted by the thread's first loop
          batch           \* entries[j ..]: completions not yet handled

fields == <<threadStarted, socketsInit, pool, iocp, libraryRefs>>
ownerVars == <<owner, destroying, fields>>
threadVars == <<thread, primed, batch>>
kernelVars == <<posted, orphaned, port, queued>>
vars == <<ownerVars, running, sock, kernelVars, threadVars>>

StartSteps == {"init", "socket", "pool", "port", "thread", "mark"}
StopSteps == {"wake", "close", "join", "free"}
ThreadSteps == {"prime", "loop", "wait", "woken", "entry", "process",
                "recheck", "repost", "recv", "blocked", "failed"}
\* Those of the Windows loop in which it uses the port or its pool.
IocpSteps == {"prime", "wait", "woken", "entry", "recheck", "repost"}

TypeOK ==
    /\ owner \in StartSteps \cup StopSteps \cup {"idle", "destroyed"}
    /\ destroying \in BOOLEAN
    /\ running \in BOOLEAN /\ threadStarted \in BOOLEAN
    /\ socketsInit \in BOOLEAN
    /\ sock \in BOOLEAN /\ pool \in BOOLEAN /\ iocp \in BOOLEAN
    /\ libraryRefs \in {0, 1}
    /\ posted \subseteq Buffers
    /\ orphaned \in BOOLEAN
    /\ port \in Seq(Completions)
    /\ queued \in 0 .. SocketQueue
    /\ thread \in ThreadSteps \cup {"none", "exited"}
    /\ primed \in 0 .. NumBuffers
    /\ batch \in Seq(Completions)

Init ==
    /\ owner = "idle" /\ destroying = FALSE
    /\ running = FALSE /\ threadStarted = FALSE /\ socketsInit = FALSE
    /\ sock = FALSE /\ pool = FALSE /\ iocp = FALSE
    /\ libraryRefs = 0
    /\ posted = {} /\ orphaned = FALSE /\ port = <<>> /\ queued = 0
    /\ thread = "none" /\ primed = 0 /\ batch = <<>>
-----------------------------------------------------------------------------
(* st2110rx_start.  Nothing else touches the receiver's fields until the   *)
(* thread exists, so a failing call and the branch that undoes what came   *)
(* before it are one step.                                                 *)

StartBegins ==
    /\ owner = "idle" /\ ~running
    /\ owner' = "init"
    /\ UNCHANGED <<destroying, fields, running, sock, kernelVars, threadVars>>

\* The call on a receiver that runs returns at once.
StartAgain ==
    /\ owner = "idle" /\ running
    /\ UNCHANGED vars

\* rx_socket_init.
InitSockets ==
    /\ owner = "init"
    /\ \/ /\ socketsInit' = TRUE
          /\ libraryRefs' = libraryRefs + 1
          /\ owner' = "socket"
       \/ /\ "init" \in Faults /\ Iocp
          /\ owner' = "idle"
          /\ UNCHANGED <<socketsInit, libraryRefs>>
    /\ UNCHANGED <<destroying, threadStarted, pool, iocp, running,
                   sock, kernelVars, threadVars>>

\* rx_socket_cleanup, and the flag.
CleanUpSockets ==
    /\ libraryRefs' = libraryRefs - 1
    /\ socketsInit' = FALSE

\* rx_udp_destroy: the group is left and the socket closed.  That begins to
\* cancel the posted receives, which end one by one afterwards (see
\* CancelReceive), and drops what is queued, except that a recvfrom that is
\* blocked holds the socket until it returns.
CloseSocket ==
    /\ sock' = FALSE
    /\ queued' = IF thread = "blocked" THEN queued ELSE 0
    /\ UNCHANGED <<posted, orphaned, port>>

\* rx_udp_create, which closes a socket it cannot bind or join with.
\* Mutant: the failure does not undo rx_socket_init.
OpenSocketFails_KeepsLibrary ==
    /\ "socket" \in Faults
    /\ owner' = "idle"
    /\ UNCHANGED <<socketsInit, libraryRefs, sock>>

OpenSocketFails ==
    /\ "socket" \in Faults
    /\ owner' = "idle"
    /\ CleanUpSockets
    /\ UNCHANGED sock

OpenSocket ==
    /\ owner = "socket"
    /\ \/ /\ sock' = TRUE
          /\ owner' = IF Iocp THEN "pool" ELSE "thread"
          /\ UNCHANGED <<socketsInit, libraryRefs>>
       \/ OpenSocketFails
    /\ UNCHANGED <<destroying, threadStarted, pool, iocp, running, kernelVars,
                   threadVars>>

AllocatePool ==
    /\ owner = "pool"
    /\ \/ /\ pool' = TRUE
          /\ owner' = "port"
          /\ UNCHANGED <<socketsInit, libraryRefs, sock, kernelVars>>
       \/ /\ "pool" \in Faults
          /\ owner' = "idle"
          /\ CloseSocket
          /\ CleanUpSockets
          /\ UNCHANGED pool
    /\ UNCHANGED <<destroying, threadStarted, iocp, running, threadVars>>

\* Mutant: the failure leaves the pool to the next start, which allocates
\* another.
CreatePortFails_KeepsPool ==
    /\ "port" \in Faults
    /\ owner' = "idle"
    /\ CloseSocket
    /\ CleanUpSockets
    /\ UNCHANGED <<pool, iocp>>

CreatePortFails ==
    /\ "port" \in Faults
    /\ owner' = "idle"
    /\ pool' = FALSE
    /\ CloseSocket
    /\ CleanUpSockets
    /\ UNCHANGED iocp

CreatePort ==
    /\ owner = "port"
    /\ \/ /\ iocp' = TRUE
          /\ owner' = "thread"
          /\ UNCHANGED <<socketsInit, libraryRefs, sock, pool, kernelVars>>
       \/ CreatePortFails
    /\ UNCHANGED <<destroying, threadStarted, running, threadVars>>

\* running is 1 before the thread can look at it.
SetRunning ==
    /\ owner = "thread" /\ ~running
    /\ running' = TRUE
    /\ UNCHANGED <<ownerVars, sock, kernelVars, threadVars>>

\* Mutant: the failure leaves running at 1.
CreateThreadFails_KeepsRunning ==
    /\ "thread" \in Faults
    /\ owner' = "idle"
    /\ iocp' = FALSE /\ pool' = FALSE
    /\ CloseSocket
    /\ CleanUpSockets
    /\ UNCHANGED <<running, thread, primed>>

CreateThreadFails ==
    /\ "thread" \in Faults
    /\ owner' = "idle"
    /\ running' = FALSE
    /\ iocp' = FALSE /\ pool' = FALSE
    /\ CloseSocket
    /\ CleanUpSockets
    /\ UNCHANGED <<thread, primed>>

CreateThread ==
    /\ owner = "thread" /\ running
    /\ \/ /\ thread' = IF Iocp THEN "prime" ELSE "loop"
          /\ primed' = 0
          /\ owner' = "mark"
          /\ UNCHANGED <<socketsInit, libraryRefs, sock, pool, iocp,
                         running, kernelVars>>
       \/ CreateThreadFails
    /\ UNCHANGED <<destroying, threadStarted, batch>>

\* Mutant: the flag is forgotten.
SetThreadStarted_Forgotten == UNCHANGED threadStarted

SetThreadStarted == threadStarted' = TRUE

MarkThreadStarted ==
    /\ owner = "mark"
    /\ SetThreadStarted
    /\ owner' = "idle"
    /\ UNCHANGED <<destroying, socketsInit, pool, iocp, libraryRefs, running,
                   sock, kernelVars, threadVars>>

StartStep ==
    \/ InitSockets
    \/ OpenSocket
    \/ AllocatePool
    \/ CreatePort
    \/ SetRunning
    \/ CreateThread
    \/ MarkThreadStarted
-----------------------------------------------------------------------------
(* st2110rx_stop and st2110rx_destroy.                                     *)

\* Mutant: running stays 1.
ClearRunning_Forgotten == UNCHANGED running

ClearRunning == running' = FALSE

StopBegins(destroys) ==
    /\ owner = "idle"
    /\ destroying' = destroys
    /\ ClearRunning
    /\ owner' = "wake"
    /\ UNCHANGED <<fields, sock, kernelVars, threadVars>>

\* The result of the call is ignored.
PostWakeup ==
    \/ port' = IF iocp THEN Append(port, Wake) ELSE port
    \/ "wakeup" \in Faults /\ UNCHANGED port

WakeThread ==
    /\ owner = "wake"
    /\ PostWakeup
    /\ owner' = "close"
    /\ UNCHANGED <<destroying, fields, running, sock, posted, orphaned, queued,
                   threadVars>>

\* Mutant: only a receiver that runs is thought to have a socket.
HasSocket_IfRunning == sock /\ running

HasSocket == sock

StopCloses ==
    /\ owner = "close"
    /\ IF HasSocket THEN CloseSocket ELSE UNCHANGED <<sock, kernelVars>>
    /\ owner' = "join"
    /\ UNCHANGED <<destroying, fields, running, threadVars>>

\* Mutant: the thread is left to end by itself.
JoinThread_Detaches == UNCHANGED thread

JoinThread ==
    IF threadStarted
    THEN thread = "exited" /\ thread' = "none"
    ELSE UNCHANGED thread

Join ==
    /\ owner = "join"
    /\ JoinThread
    /\ threadStarted' = FALSE
    /\ owner' = "free"
    /\ UNCHANGED <<destroying, socketsInit, pool, iocp, libraryRefs, running,
                   sock, kernelVars, primed, batch>>

\* The port goes with what it queues.  The pool goes whether or not the
\* receives posted from it have ended: nobody collects their completions once
\* the thread has left its loop.  A destroy goes on to free the rest.
Free ==
    /\ owner = "free"
    /\ iocp' = FALSE /\ port' = <<>>
    /\ pool' = FALSE
    /\ posted' = {}
    /\ orphaned' = (orphaned \/ posted # {})
    /\ IF socketsInit
       THEN CleanUpSockets
       ELSE UNCHANGED <<socketsInit, libraryRefs>>
    /\ owner' = IF destroying THEN "destroyed" ELSE "idle"
    /\ UNCHANGED <<destroying, threadStarted, running, sock, queued,
                   threadVars>>

StopStep ==
    \/ WakeThread
    \/ StopCloses
    \/ Join
    \/ Free
-----------------------------------------------------------------------------
(* rx_receiver_loop, the Windows one.                                      *)

\* rx_iocp_post: WSARecvFrom fails on a socket that is closed, and may fail
\* on one that is not.
Post(b) == sock /\ posted' = posted \cup {b}
PostFails(fault) == (~sock \/ fault \in Faults) /\ UNCHANGED posted

Prime ==
    /\ thread = "prime"
    /\ \/ /\ Post(primed + 1)
          /\ primed' = primed + 1
          /\ thread' = IF primed + 1 = NumBuffers THEN "loop" ELSE "prime"
       \/ /\ PostFails("prime")
          /\ thread' = "exited"
          /\ UNCHANGED primed
    /\ UNCHANGED <<ownerVars, running, sock, orphaned, port, queued, batch>>

\* The condition of the while of either loop.
Loop ==
    /\ thread = "loop"
    /\ thread' = IF ~running THEN "exited" ELSE IF Iocp THEN "wait" ELSE "recv"
    /\ UNCHANGED <<ownerVars, running, sock, kernelVars, primed, batch>>

\* GetQueuedCompletionStatusEx, with no timeout.
Dequeue ==
    LET n == IF Len(port) < BatchSize THEN Len(port) ELSE BatchSize IN
    /\ thread = "wait"
    /\ port # <<>>
    /\ batch' = SubSeq(port, 1, n)
    /\ port' = SubSeq(port, n + 1, Len(port))
    /\ thread' = "woken"
    /\ UNCHANGED <<ownerVars, running, sock, posted, orphaned, queued, primed>>

\* If it fails, the thread goes on as with an empty batch.
DequeueFails ==
    /\ thread = "wait"
    /\ "dequeue" \in Faults
    /\ thread' = "woken"
    /\ UNCHANGED <<ownerVars, running, sock, kernelVars, primed, batch>>

Woken ==
    /\ thread = "woken"
    /\ thread' = IF running THEN "entry" ELSE "exited"
    /\ batch' = IF running THEN batch ELSE <<>>
    /\ UNCHANGED <<ownerVars, running, sock, kernelVars, primed>>

\* Mutant: every completion with nothing in it is taken for the wake-up.
IsWakeup_Empty(entry) == ~entry.filled

IsWakeup(entry) == entry = Wake

\* Mutant: the buffer is posted again before the packet in it is processed.
Handle_PostsFirst(entry) ==
    /\ thread' = IF entry.filled THEN "process" ELSE "recheck"
    /\ posted' = posted \cup {entry.buffer}

Handle(entry) ==
    /\ thread' = IF entry.filled THEN "process" ELSE "recheck"
    /\ UNCHANGED posted

\* The head of the loop over the entries.
Entry ==
    /\ thread = "entry"
    /\ IF batch = <<>>
       THEN thread' = "loop" /\ UNCHANGED <<posted, batch>>
       ELSE IF IsWakeup(Head(batch))
       THEN batch' = Tail(batch) /\ UNCHANGED <<posted, thread>>
       ELSE Handle(Head(batch)) /\ UNCHANGED batch
    /\ UNCHANGED <<ownerVars, running, sock, orphaned, port, queued, primed>>

\* rx_process_packet, and the owner's callback within it, return.
Processed ==
    /\ thread = "process"
    /\ thread' = IF Iocp THEN "recheck" ELSE "loop"
    /\ UNCHANGED <<ownerVars, running, sock, kernelVars, primed, batch>>

Recheck ==
    /\ thread = "recheck"
    /\ thread' = IF running THEN "repost" ELSE "entry"
    /\ batch' = IF running THEN batch ELSE Tail(batch)
    /\ UNCHANGED <<ownerVars, running, sock, kernelVars, primed>>

\* The result of the call is ignored.
Repost ==
    /\ thread = "repost"
    /\ Post(Head(batch).buffer) \/ PostFails("repost")
    /\ batch' = Tail(batch)
    /\ thread' = "entry"
    /\ UNCHANGED <<ownerVars, running, sock, orphaned, port, queued, primed>>
-----------------------------------------------------------------------------
(* rx_receiver_loop, the Linux one.                                        *)

CallRecvfrom ==
    /\ thread = "recv"
    /\ thread' = IF sock THEN "blocked" ELSE "failed"
    /\ UNCHANGED <<ownerVars, running, sock, kernelVars, primed, batch>>

\* When recvfrom returns from a socket that has been closed, the socket goes,
\* and what it queues with it.
LeftInSocket(n) == IF sock THEN n ELSE 0

TakeDatagram ==
    /\ thread = "blocked"
    /\ queued > 0
    /\ queued' = LeftInSocket(queued - 1)
    /\ thread' = "process"
    /\ UNCHANGED <<ownerVars, running, sock, posted, orphaned, port, primed,
                   batch>>

\* n <= 0.
RecvfromFailed ==
    /\ thread = "failed"
    /\ thread' = IF running THEN "loop" ELSE "exited"
    /\ UNCHANGED <<ownerVars, running, sock, kernelVars, primed, batch>>

ReceiveThread ==
    \/ Prime
    \/ Loop
    \/ Dequeue
    \/ Woken
    \/ Entry
    \/ Processed
    \/ Recheck
    \/ Repost
    \/ CallRecvfrom
    \/ TakeDatagram
    \/ RecvfromFailed
-----------------------------------------------------------------------------
(* The kernel.  Nothing says that a datagram ever comes.                   *)

\* A posted receive ends: with a datagram in its buffer, or with nothing.
ReceiveCompletes(b, filled) ==
    /\ b \in posted
    /\ posted' = posted \ {b}
    /\ port' = Append(port, [buffer |-> b, filled |-> filled])
    /\ UNCHANGED <<ownerVars, running, sock, orphaned, queued, threadVars>>

\* What becomes of the receives of a socket that was closed: not at once, but
\* in the end.
CancelReceive == ~sock /\ \E b \in posted : ReceiveCompletes(b, FALSE)

\* The last of the receives that outlived their pool ends.  Its port is gone
\* as well, so nobody learns of it.
OrphansEnd ==
    /\ orphaned
    /\ orphaned' = FALSE
    /\ UNCHANGED <<ownerVars, running, sock, posted, port, queued, threadVars>>

\* The socket takes datagrams while it is open, and while a recvfrom holds it:
\* close() does not end a call that is blocked.  When full it drops them.
DatagramArrives ==
    /\ ~Iocp
    /\ sock \/ thread = "blocked"
    /\ queued < SocketQueue
    /\ queued' = queued + 1
    /\ UNCHANGED <<ownerVars, running, sock, posted, orphaned, port,
                   threadVars>>

\* A signal, or an error reported for the socket.
RecvfromInterrupted ==
    /\ thread = "blocked"
    /\ queued' = LeftInSocket(queued)
    /\ thread' = "failed"
    /\ UNCHANGED <<ownerVars, running, sock, posted, orphaned, port, primed,
                   batch>>

Next ==
    \/ StartBegins
    \/ StartAgain
    \/ StartStep
    \/ \E destroys \in BOOLEAN : StopBegins(destroys)
    \/ StopStep
    \/ ReceiveThread
    \/ \E b \in Buffers, filled \in BOOLEAN : ReceiveCompletes(b, filled)
    \/ OrphansEnd
    \/ DatagramArrives
    \/ RecvfromInterrupted
    \/ DequeueFails

\* A call goes on once made, the thread is scheduled, and a receive that is
\* being cancelled ends; calls, datagrams and errors that would wake the thread
\* may stay away.
Fairness ==
    /\ WF_vars(StartStep)
    /\ WF_vars(StopStep)
    /\ WF_vars(ReceiveThread)
    /\ WF_vars(CancelReceive)

Spec == Init /\ [][Next]_vars /\ Fairness
-----------------------------------------------------------------------------
(* Properties.                                                             *)

InStop == owner \in StopSteps

\* A start that failed and a stop that has returned leave nothing behind,
\* whichever call to the system failed: no socket, no group membership, no
\* port, no pool, no reference to the sockets library, and no thread.  The one
\* exception is what KernelOwnsItsBuffers denies: receives being cancelled.
QuiescentIsClean ==
    owner \in {"idle", "destroyed"} /\ ~threadStarted =>
        /\ ~running
        /\ ~sock /\ ~pool /\ ~iocp
        /\ libraryRefs = 0 /\ ~socketsInit
        /\ port = <<>> /\ queued = 0
        /\ thread = "none"

\* While the thread can take another step, what it reads is there: the
\* receiver itself, which a destroy frees; and, wherever the Windows loop
\* uses them or has a batch of buffers in hand, the pool and the port, which
\* a stop frees.
ThreadOwnsItsMemory ==
    thread \in ThreadSteps =>
        /\ owner # "destroyed"
        /\ thread \in IocpSteps \/ batch # <<>> => pool /\ iocp

\* A pool is freed only when its thread has ended and its socket is closed:
\* nobody reads it any more, and the receives that are still posted, if any,
\* are being cancelled.
PoolIsFreedLast ==
    [][pool /\ ~pool' => ~sock' /\ thread \in {"none", "exited"}]_vars

\* What st2110rx_stop takes the closing of the socket to do (rx_core.c:420):
\* the pool is not freed while the kernel may write to a buffer of it.
KernelOwnsItsBuffers == ~orphaned /\ (posted # {} => pool)

\* The buffers of the completions in a sequence.
BuffersOf(completions) ==
    {completions[i].buffer : i \in DOMAIN completions} \ {0}

\* No two entries of a sequence of completions are about the same buffer.
Distinct(completions) ==
    \A i, j \in DOMAIN completions :
        completions[i].buffer = completions[j].buffer =>
            i = j \/ completions[i] = Wake

\* A buffer has one holder: the kernel, one entry of the port, or one entry of
\* the batch.  So a datagram is never overwritten while the callback reads it,
\* and no buffer is posted twice.
BufferHasOneHolder ==
    /\ Distinct(port) /\ Distinct(batch)
    /\ posted \cap BuffersOf(port) = {}
    /\ posted \cap BuffersOf(batch) = {}
    /\ BuffersOf(port) \cap BuffersOf(batch) = {}

InUse == posted \cup BuffersOf(port) \cup BuffersOf(batch)

\* While the receiver runs, a buffer goes out of use only where its own post
\* fails: none is lost to an empty completion, to the wake-up of an earlier
\* stop or to a batch that ends early.
BuffersStayInUse ==
    [][running /\ thread \in ThreadSteps =>
           InUse \ InUse' \subseteq
               IF thread = "repost" THEN {Head(batch).buffer} ELSE {}]_vars

\* A receiver whose start has returned, and which has not been stopped, has
\* a thread that receives, unless its first posts failed.
RunningMeansReceiving ==
    owner = "idle" /\ running =>
        \/ thread \in ThreadSteps
        \/ pool /\ thread = "exited" /\ primed < NumBuffers

\* A stop, once called, returns.
StopReturns == InStop ~> ~InStop

\* The thread waits, and nothing the stop has done will end that: on Linux
\* recvfrom has no datagram; on Windows the port has nothing queued and no
\* buffer is left to complete, since every repost has failed, and then the
\* posting of the wake-up as well.
ThreadWaits ==
    \/ thread = "blocked" /\ queued = 0
    \/ thread = "wait" /\ InUse = {}

\* A stop returns, or waits for a thread that waits for what may never come.
StopReturnsOrThreadWaits ==
    InStop ~> ~InStop \/ (owner = "join" /\ ThreadWaits)

\* Where posting the wake-up does not fail, a stop never leaves the thread at
\* an empty port.
WakeupIsQueued ==
    owner \in {"close", "join"} /\ thread = "wait" => port # <<>>

\* Where the owner is, as the owner of any receiver sees it.
Service ==
    CASE owner \in StartSteps -> "starting"
      [] owner \in StopSteps -> IF destroying THEN "destroying" ELSE "stopping"
      [] owner = "idle" -> IF threadStarted THEN "started" ELSE "stopped"
      [] owner = "destroyed" -> "destroyed"

\* The promise of the API: see ReceiverService.
Promise == INSTANCE ReceiverService
           WITH service <- Service, calling <- (thread = "process"),
                open <- (owner \in StartSteps \/ threadStarted)

KeepsPromise == Promise!Spec
=============================================================================
