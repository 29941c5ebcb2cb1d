----------------------- MODULE ReceiverLifecycleProofs ----------------------
(***************************************************************************)
(* Theorems about ReceiverLifecycle, on either platform, for every number  *)
(* of buffers, size of batch and of socket queue, and for every set of     *)
(* calls to the system that may fail.                                      *)
(***************************************************************************)
EXTENDS ReceiverLifecycle, SequenceTheorems, TLAPS

ConstantAssumptions ==
    /\ Iocp \in BOOLEAN
    /\ NumBuffers \in Nat \ {0}
    /\ BatchSize \in Nat \ {0}
    /\ SocketQueue \in Nat \ {0}

LEMMA Constants == ConstantAssumptions
BY IocpAssumption, NumBuffersAssumption, BatchSizeAssumption,
   SocketQueueAssumption DEF ConstantAssumptions
-----------------------------------------------------------------------------
(* The inductive invariant, in three parts: the types of the flags; where  *)
(* the owner and the thread are and what they hold; the port and the       *)
(* batch.                                                                  *)

Flags ==
    /\ destroying \in BOOLEAN
    /\ running \in BOOLEAN /\ threadStarted \in BOOLEAN
    /\ socketsInit \in BOOLEAN
    /\ sock \in BOOLEAN /\ pool \in BOOLEAN /\ iocp \in BOOLEAN
    /\ orphaned \in BOOLEAN

ControlType ==
    /\ owner \in StartSteps \cup StopSteps \cup {"idle", "destroyed"}
    /\ libraryRefs \in {0, 1}
    /\ posted \subseteq Buffers
    /\ queued \in 0 .. SocketQueue
    /\ thread \in ThreadSteps \cup {"none", "exited"}
    /\ primed \in 0 .. NumBuffers

\* What is held, and on behalf of what.
Building == {"init", "socket", "pool", "port", "thread"}

Holdings ==
    /\ socketsInit => libraryRefs = 1
    /\ ~socketsInit => libraryRefs = 0
    /\ posted # {} => iocp /\ owner \notin Building
    /\ iocp => pool
    /\ pool => Iocp
    /\ queued > 0 => sock \/ thread = "blocked"

\* The thread, where it is.
ThreadPlace ==
    /\ thread \in {"prime", "wait", "woken", "entry", "recheck", "repost"} =>
           Iocp
    /\ thread \in {"recv", "blocked", "failed"} => ~Iocp
    /\ thread = "prime" => primed < NumBuffers
    /\ thread = "exited" /\ running => Iocp /\ primed < NumBuffers

\* The thread and what it needs exist from its creation to the join.
ThreadLife ==
    /\ thread # "none" <=> threadStarted \/ owner = "mark"
    /\ thread # "none" => socketsInit /\ (Iocp => pool /\ iocp)
    /\ threadStarted => owner \in {"idle", "wake", "close", "join"}
    /\ threadStarted /\ owner = "idle" => running

\* What the owner has built or released, where it is in its call.
OwnerPlace ==
    /\ owner \in StopSteps \cup
                   {"destroyed", "init", "socket", "pool", "port"} =>
           ~running
    /\ owner = "mark" => running
    /\ owner \in {"join", "free"} => ~sock
    /\ owner \in {"idle", "destroyed", "init", "wake", "close", "join"}
           /\ ~threadStarted =>
           ~running /\ ~sock /\ ~pool /\ ~socketsInit
    /\ owner = "socket" => socketsInit /\ ~sock /\ ~pool
    /\ owner = "pool" => socketsInit /\ sock /\ ~pool /\ Iocp
    /\ owner = "port" => socketsInit /\ sock /\ pool /\ ~iocp /\ Iocp
    /\ owner = "thread" => socketsInit /\ sock /\ (Iocp => pool /\ iocp)

Control ==
    /\ ControlType
    /\ Holdings
    /\ ThreadPlace
    /\ ThreadLife
    /\ OwnerPlace

\* The port and the batch; where the thread works on an entry of the batch,
\* there is one, and it has a buffer.
Queues ==
    /\ port \in Seq(Completions)
    /\ batch \in Seq(Completions)
    /\ port # <<>> => iocp
    /\ owner \in Building => port = <<>>
    /\ Iocp /\ thread \in {"process", "recheck", "repost"} =>
           batch # <<>> /\ Head(batch) # Wake

LifeInvariant == Control /\ Queues

LEMMA LifeInvariantInit == Init => LifeInvariant
<1> SUFFICES ASSUME Init PROVE LifeInvariant
  OBVIOUS
<1>1. Control
  BY Constants
     DEF ConstantAssumptions, Init, Control, ControlType, Holdings,
         ThreadPlace, ThreadLife, OwnerPlace, StartSteps, StopSteps, Building
<1>2. Queues
  BY DEF Init, Queues, Building
<1> QED
  BY <1>1, <1>2 DEF LifeInvariant

LEMMA CleanUpEffect ==
    ASSUME Control, socketsInit, CleanUpSockets
    PROVE  libraryRefs' = 0 /\ ~socketsInit'
<1>1. libraryRefs = 1
  BY DEF Control, Holdings
<1>2. libraryRefs' = 0
  BY <1>1 DEF CleanUpSockets
<1> QED
  BY <1>2 DEF CleanUpSockets

LEMMA CloseSocketEffect ==
    ASSUME Control, CloseSocket
    PROVE  /\ ~sock'
           /\ UNCHANGED <<posted, orphaned, port>>
           /\ queued' \in {queued, 0}
           /\ thread # "blocked" => queued' = 0
BY DEF CloseSocket

\* The entry the thread works on.
LEMMA EntryHasBuffer ==
    ASSUME Queues, Iocp, thread \in {"process", "recheck", "repost"}
    PROVE  /\ batch \in Seq(Completions) /\ batch # <<>>
           /\ Head(batch) \in [buffer : Buffers, filled : BOOLEAN]
           /\ Tail(batch) \in Seq(Completions)
<1>1. batch \in Seq(Completions) /\ batch # <<>> /\ Head(batch) # Wake
  BY DEF Queues
<1>2. Head(batch) \in Completions /\ Tail(batch) \in Seq(Completions)
  BY <1>1
<1> QED
  BY <1>1, <1>2 DEF Completions

LEMMA ControlStep ==
    LifeInvariant /\ [Next]_vars => Control'
<1> SUFFICES ASSUME Control, Queues, [Next]_vars
             PROVE  Control'
  BY DEF LifeInvariant
<1> USE Constants
    DEF ConstantAssumptions, Control, ControlType, Holdings, ThreadPlace,
        ThreadLife, OwnerPlace, StartSteps, StopSteps, ThreadSteps, Building,
        vars, ownerVars, fields, threadVars, kernelVars
<1>1. CASE StartBegins
  BY <1>1 DEF StartBegins
<1>2. CASE InitSockets
  BY <1>2 DEF InitSockets, CleanUpSockets
<1>3. CASE OpenSocket
  <2>1. CASE owner' = "idle"
    <3>1. /\ owner = "socket" /\ CleanUpSockets
          /\ UNCHANGED <<threadStarted, pool, iocp, running, sock, posted,
                         queued, thread, primed>>
      BY <1>3, <2>1 DEF OpenSocket, OpenSocketFails
    <3>2. libraryRefs' = 0 /\ ~socketsInit'
      BY <3>1, CleanUpEffect
    <3> QED
      BY <2>1, <3>1, <3>2
  <2>2. CASE owner' # "idle"
    <3>1. /\ owner = "socket" /\ sock'
          /\ owner' = IF Iocp THEN "pool" ELSE "thread"
          /\ UNCHANGED <<fields, running, posted, queued, thread, primed>>
      BY <1>3, <2>2 DEF OpenSocket, OpenSocketFails
    <3> QED
      BY <3>1
  <2> QED
    BY <2>1, <2>2
<1>4. CASE AllocatePool
  <2>1. CASE CloseSocket
    <3>1. /\ ~sock' /\ posted' = posted /\ queued' \in {queued, 0}
          /\ thread # "blocked" => queued' = 0
      BY <2>1, CloseSocketEffect
    <3>2. libraryRefs' = 0 /\ ~socketsInit'
      BY <1>4, <3>1, CleanUpEffect DEF AllocatePool
    <3>3. /\ owner = "pool" /\ owner' = "idle"
          /\ UNCHANGED <<threadStarted, pool, iocp, running, thread, primed>>
      BY <1>4, <3>1 DEF AllocatePool
    <3> QED
      BY <3>1, <3>2, <3>3
  <2>2. CASE ~CloseSocket
    BY <1>4, <2>2 DEF AllocatePool
  <2> QED
    BY <2>1, <2>2
<1>5. CASE CreatePort
  <2>1. CASE CloseSocket
    <3>1. /\ ~sock' /\ posted' = posted /\ queued' \in {queued, 0}
          /\ thread # "blocked" => queued' = 0
      BY <2>1, CloseSocketEffect
    <3>2. libraryRefs' = 0 /\ ~socketsInit'
      BY <1>5, <3>1, CleanUpEffect DEF CreatePort, CreatePortFails
    <3>3. /\ owner = "port" /\ owner' = "idle" /\ ~pool'
          /\ UNCHANGED <<threadStarted, iocp, running, thread, primed>>
      BY <1>5, <3>1 DEF CreatePort, CreatePortFails
    <3> QED
      BY <3>1, <3>2, <3>3
  <2>2. CASE ~CloseSocket
    BY <1>5, <2>2 DEF CreatePort, CreatePortFails
  <2> QED
    BY <2>1, <2>2
<1>6. CASE SetRunning
  BY <1>6 DEF SetRunning
<1>7. CASE CreateThread
  <2>1. CASE owner' = "idle"
    <3>1. /\ owner = "thread" /\ CloseSocket /\ CleanUpSockets
          /\ ~running' /\ ~pool' /\ ~iocp'
          /\ UNCHANGED <<threadStarted, thread, primed>>
      BY <1>7, <2>1 DEF CreateThread, CreateThreadFails
    <3>2. /\ ~sock' /\ posted' = posted /\ queued' \in {queued, 0}
          /\ thread # "blocked" => queued' = 0
      BY <3>1, CloseSocketEffect
    <3>3. libraryRefs' = 0 /\ ~socketsInit'
      BY <3>1, CleanUpEffect
    <3> QED
      BY <2>1, <3>1, <3>2, <3>3
  <2>2. CASE owner' = "mark"
    <3>1. /\ owner = "thread" /\ running /\ primed' = 0
          /\ thread' = IF Iocp THEN "prime" ELSE "loop"
          /\ UNCHANGED <<fields, running, sock, posted, queued>>
      BY <1>7, <2>2 DEF CreateThread, CreateThreadFails
    <3> QED
      BY <2>2, <3>1
  <2> QED
    BY <1>7, <2>1, <2>2 DEF CreateThread, CreateThreadFails
<1>8. CASE MarkThreadStarted
  BY <1>8 DEF MarkThreadStarted, SetThreadStarted
<1>9. ASSUME NEW destroys \in BOOLEAN, StopBegins(destroys)
      PROVE  Control'
  BY <1>9 DEF StopBegins, ClearRunning
<1>10. CASE WakeThread
  BY <1>10 DEF WakeThread, PostWakeup
<1>11. CASE StopCloses
  <2>1. CASE CloseSocket
    <3>1. /\ ~sock' /\ posted' = posted /\ queued' \in {queued, 0}
          /\ thread # "blocked" => queued' = 0
      BY <2>1, CloseSocketEffect
    <3>2. /\ owner = "close" /\ owner' = "join"
          /\ UNCHANGED <<fields, running, thread, primed>>
      BY <1>11, <2>1 DEF StopCloses
    <3> QED
      BY <3>1, <3>2
  <2>2. CASE ~CloseSocket
    BY <1>11, <2>2 DEF StopCloses, HasSocket
  <2> QED
    BY <2>1, <2>2
<1>12. CASE Join
  BY <1>12 DEF Join, JoinThread
<1>13. CASE Free
  <2>1. /\ socketsInit => libraryRefs' = 0 /\ ~socketsInit'
        /\ ~socketsInit => libraryRefs' = libraryRefs /\ ~socketsInit'
    BY <1>13, CleanUpEffect DEF Free
  <2>2. /\ owner' \in {"idle", "destroyed"} /\ ~pool' /\ ~iocp'
        /\ owner = "free" /\ posted' = {}
        /\ UNCHANGED <<threadStarted, running, sock, queued, thread, primed>>
    BY <1>13 DEF Free
  <2> QED
    BY <2>1, <2>2
<1>14. CASE Prime
  <2>1. /\ primed \in 0 .. NumBuffers /\ primed < NumBuffers
        /\ primed + 1 \in Buffers
    BY <1>14 DEF Prime, Buffers
  <2>2. /\ thread = "prime"
        /\ UNCHANGED <<ownerVars, running, sock, queued>>
    BY <1>14 DEF Prime
  <2>3. CASE posted' = posted \cup {primed + 1} /\ primed' = primed + 1
    <3>1. sock
      BY <1>14, <2>3 DEF Prime, Post, PostFails
    <3>2. posted' \subseteq Buffers
      BY <2>1, <2>3
    <3>3. /\ primed' \in 0 .. NumBuffers
          /\ thread' \in {"prime", "loop"}
          /\ thread' = "prime" => primed' < NumBuffers
      BY <1>14, <2>1, <2>3 DEF Prime
    <3> QED
      BY <2>2, <3>1, <3>2, <3>3
  <2>4. CASE thread' = "exited" /\ UNCHANGED <<posted, primed>>
    BY <2>1, <2>2, <2>4
  <2> QED
    BY <1>14, <2>3, <2>4 DEF Prime, Post, PostFails
<1>15. CASE Loop
  BY <1>15 DEF Loop
<1>16. CASE Dequeue
  BY <1>16 DEF Dequeue
<1>17. CASE Woken
  BY <1>17 DEF Woken
<1>18. CASE Entry
  BY <1>18 DEF Entry, IsWakeup, Handle
<1>19. CASE Processed
  BY <1>19 DEF Processed
<1>20. CASE Recheck
  BY <1>20 DEF Recheck
<1>21. CASE Repost
  <2>1. thread = "repost" /\ Iocp
    BY <1>21 DEF Repost
  <2>2. Head(batch).buffer \in Buffers
    BY <2>1, EntryHasBuffer
  <2>3. /\ posted' \subseteq Buffers
        /\ posted' # posted => sock
        /\ thread' = "entry"
    BY <1>21, <2>2 DEF Repost, Post, PostFails
  <2>4. UNCHANGED <<ownerVars, running, sock, queued, primed>>
    BY <1>21 DEF Repost
  <2> QED
    BY <2>1, <2>3, <2>4
<1>22. CASE CallRecvfrom
  BY <1>22 DEF CallRecvfrom
<1>23. CASE TakeDatagram
  BY <1>23 DEF TakeDatagram, LeftInSocket
<1>24. CASE RecvfromFailed
  BY <1>24 DEF RecvfromFailed
<1>25. ASSUME NEW b \in Buffers, NEW filled \in BOOLEAN,
             ReceiveCompletes(b, filled)
      PROVE  Control'
  BY <1>25 DEF ReceiveCompletes
<1>26. CASE DatagramArrives
  BY <1>26 DEF DatagramArrives
<1>27. CASE RecvfromInterrupted
  BY <1>27 DEF RecvfromInterrupted, LeftInSocket
<1>28. CASE DequeueFails
  BY <1>28 DEF DequeueFails
<1>29. CASE UNCHANGED vars
  BY <1>29
<1>30. CASE OrphansEnd
  BY <1>30 DEF OrphansEnd
<1> QED
  BY <1>1, <1>2, <1>3, <1>4, <1>5, <1>6, <1>7, <1>8, <1>9, <1>10, <1>11,
     <1>12, <1>13, <1>14, <1>15, <1>16, <1>17, <1>18, <1>19, <1>20, <1>21,
     <1>22, <1>23, <1>24, <1>25, <1>26, <1>27, <1>28, <1>29, <1>30
     DEF Next, StartAgain, StartStep, StopStep, ReceiveThread

AtEntry == thread \in {"process", "recheck", "repost"}

\* A step that leaves the port and the batch alone, and does not begin to work
\* on an entry or to build a receiver.
LEMMA QueuesUntouched ==
    ASSUME Queues, UNCHANGED <<port, batch>>, iocp => iocp',
           Iocp /\ AtEntry' => AtEntry,
           owner' \in Building => owner \in Building \/ ~iocp
    PROVE  Queues'
BY DEF Queues, AtEntry

LEMMA QueuesStep ==
    LifeInvariant /\ [Next]_vars => Queues'
<1> SUFFICES ASSUME Control, Queues, [Next]_vars
             PROVE  Queues'
  BY DEF LifeInvariant
<1> USE DEF vars, ownerVars, fields, threadVars, kernelVars
<1>1. CASE StartBegins
  <2>1. /\ UNCHANGED <<port, batch>> /\ (iocp => iocp')
        /\ Iocp /\ AtEntry' => AtEntry
        /\ owner' \in Building => owner \in Building \/ ~iocp
    BY <1>1 DEF StartBegins, Control, Holdings, ThreadLife, OwnerPlace,
                AtEntry, Building
  <2> QED
    BY <2>1, QueuesUntouched
<1>2. CASE InitSockets
  <2>1. /\ UNCHANGED <<port, batch>> /\ (iocp => iocp')
        /\ Iocp /\ AtEntry' => AtEntry
        /\ owner' \in Building => owner \in Building \/ ~iocp
    BY <1>2 DEF InitSockets, AtEntry, Building
  <2> QED
    BY <2>1, QueuesUntouched
<1>3. CASE OpenSocket
  <2>1. /\ UNCHANGED <<port, batch>> /\ (iocp => iocp')
        /\ Iocp /\ AtEntry' => AtEntry
        /\ owner' \in Building => owner \in Building \/ ~iocp
    BY <1>3 DEF OpenSocket, OpenSocketFails, AtEntry, Building
  <2> QED
    BY <2>1, QueuesUntouched
<1>4. CASE AllocatePool
  <2>1. CASE CloseSocket
    <3>1. port = <<>> /\ posted = {}
      BY <1>4 DEF AllocatePool, Queues, Control, Holdings, Building
    <3>2. port' = <<>>
      BY <2>1, <3>1, CloseSocketEffect
    <3>3. UNCHANGED batch /\ thread' \in {thread, "prime", "loop"}
      BY <1>4 DEF AllocatePool
    <3>4. Iocp /\ AtEntry' => AtEntry
      BY <3>3 DEF AtEntry
    <3> QED
      BY <3>1, <3>2, <3>3, <3>4 DEF Queues, AtEntry
  <2>2. CASE ~CloseSocket
    <3>1. /\ UNCHANGED <<port, batch>> /\ (iocp => iocp')
          /\ Iocp /\ AtEntry' => AtEntry
          /\ owner' \in Building => owner \in Building
      BY <1>4, <2>2 DEF AllocatePool, AtEntry, Building
    <3> QED
      BY <3>1, QueuesUntouched
  <2> QED
    BY <2>1, <2>2
<1>5. CASE CreatePort
  <2>1. CASE CloseSocket
    <3>1. port = <<>> /\ posted = {}
      BY <1>5 DEF CreatePort, Queues, Control, Holdings, Building
    <3>2. port' = <<>>
      BY <2>1, <3>1, CloseSocketEffect
    <3>3. UNCHANGED batch /\ thread' \in {thread, "prime", "loop"}
      BY <1>5 DEF CreatePort, CreatePortFails
    <3>4. Iocp /\ AtEntry' => AtEntry
      BY <3>3 DEF AtEntry
    <3> QED
      BY <3>1, <3>2, <3>3, <3>4 DEF Queues, AtEntry
  <2>2. CASE ~CloseSocket
    <3>1. /\ UNCHANGED <<port, batch>> /\ (iocp => iocp')
          /\ Iocp /\ AtEntry' => AtEntry
          /\ owner' \in Building => owner \in Building
      BY <1>5, <2>2 DEF CreatePort, CreatePortFails, AtEntry, Building
    <3> QED
      BY <3>1, QueuesUntouched
  <2> QED
    BY <2>1, <2>2
<1>6. CASE SetRunning
  <2>1. /\ UNCHANGED <<port, batch>> /\ (iocp => iocp')
        /\ Iocp /\ AtEntry' => AtEntry
        /\ owner' \in Building => owner \in Building \/ ~iocp
    BY <1>6 DEF SetRunning, AtEntry, Building
  <2> QED
    BY <2>1, QueuesUntouched
<1>7. CASE CreateThread
  <2>1. CASE CloseSocket
    <3>1. port = <<>> /\ posted = {}
      BY <1>7 DEF CreateThread, Queues, Control, Holdings, Building
    <3>2. port' = <<>>
      BY <2>1, <3>1, CloseSocketEffect
    <3>3. UNCHANGED batch /\ thread' \in {thread, "prime", "loop"}
      BY <1>7 DEF CreateThread, CreateThreadFails
    <3>4. Iocp /\ AtEntry' => AtEntry
      BY <3>3 DEF AtEntry
    <3> QED
      BY <3>1, <3>2, <3>3, <3>4 DEF Queues, AtEntry
  <2>2. CASE ~CloseSocket
    <3>1. /\ owner' = "mark" /\ thread' \in {"prime", "loop"}
          /\ UNCHANGED <<iocp, port, batch>>
      BY <1>7, <2>2 DEF CreateThread, CreateThreadFails
    <3>2. ~AtEntry' /\ owner' \notin Building
      BY <3>1 DEF AtEntry, Building
    <3> QED
      BY <3>1, <3>2, QueuesUntouched
  <2> QED
    BY <2>1, <2>2
<1>8. CASE MarkThreadStarted
  <2>1. /\ UNCHANGED <<port, batch>> /\ (iocp => iocp')
        /\ Iocp /\ AtEntry' => AtEntry
        /\ owner' \in Building => owner \in Building \/ ~iocp
    BY <1>8 DEF MarkThreadStarted, SetThreadStarted, AtEntry, Building
  <2> QED
    BY <2>1, QueuesUntouched
<1>9. ASSUME NEW destroys \in BOOLEAN, StopBegins(destroys)
      PROVE  Queues'
  <2>1. /\ UNCHANGED <<port, batch>> /\ (iocp => iocp')
        /\ Iocp /\ AtEntry' => AtEntry
        /\ owner' \in Building => owner \in Building \/ ~iocp
    BY <1>9 DEF StopBegins, ClearRunning, AtEntry, Building
  <2> QED
    BY <2>1, QueuesUntouched
<1>10. CASE WakeThread
  <2>1. /\ owner' = "close" /\ UNCHANGED <<iocp, thread, batch>>
        /\ (iocp /\ port' = Append(port, Wake)) \/ UNCHANGED port
    BY <1>10 DEF WakeThread, PostWakeup
  <2>2. port \in Seq(Completions) /\ Wake \in Completions
    BY DEF Queues, Completions
  <2>3. port' \in Seq(Completions)
    BY <2>1, <2>2
  <2> QED
    BY <2>1, <2>3 DEF Queues, Building
<1>11. CASE StopCloses
  <2>1. /\ owner' = "join" /\ UNCHANGED <<iocp, thread, port, batch>>
    BY <1>11 DEF StopCloses, CloseSocket
  <2> QED
    BY <2>1 DEF Queues, Building
<1>12. CASE Join
  <2>1. /\ UNCHANGED <<port, batch>> /\ (iocp => iocp')
        /\ Iocp /\ AtEntry' => AtEntry
        /\ owner' \in Building => owner \in Building \/ ~iocp
    BY <1>12 DEF Join, JoinThread, AtEntry, Building
  <2> QED
    BY <2>1, QueuesUntouched
<1>13. CASE Free
  <2>1. /\ owner' \in {"idle", "destroyed"} /\ port' = <<>>
        /\ UNCHANGED <<thread, batch>>
    BY <1>13 DEF Free
  <2> QED
    BY <2>1 DEF Queues, Building
<1>14. CASE Prime
  <2>1. /\ UNCHANGED <<port, batch>> /\ (iocp => iocp')
        /\ Iocp /\ AtEntry' => AtEntry
        /\ owner' \in Building => owner \in Building \/ ~iocp
    BY <1>14 DEF Prime, Post, PostFails, AtEntry, Building
  <2> QED
    BY <2>1, QueuesUntouched
<1>15. CASE Loop
  <2>1. /\ UNCHANGED <<port, batch>> /\ (iocp => iocp')
        /\ Iocp /\ AtEntry' => AtEntry
        /\ owner' \in Building => owner \in Building \/ ~iocp
    BY <1>15 DEF Loop, AtEntry, Building
  <2> QED
    BY <2>1, QueuesUntouched
<1>16. CASE Dequeue
  <2>1. /\ port \in Seq(Completions) /\ port # <<>>
        /\ thread' = "woken" /\ UNCHANGED <<owner, iocp>>
    BY <1>16 DEF Dequeue, Queues
  <2>2. /\ batch' \in Seq(Completions)
        /\ port' \in Seq(Completions)
    <3> DEFINE n == IF Len(port) < BatchSize THEN Len(port) ELSE BatchSize
    <3>1. n \in Nat /\ n <= Len(port)
      BY <2>1, Constants DEF ConstantAssumptions
    <3>2. batch' = SubSeq(port, 1, n) /\ port' = SubSeq(port, n + 1, Len(port))
      BY <1>16 DEF Dequeue
    <3> HIDE DEF n
    <3>3. \A i \in 1 .. Len(port) : port[i] \in Completions
      BY <2>1
    <3>4. SubSeq(port, 1, n) \in Seq(Completions)
      BY <2>1, <3>1, <3>3
    <3>5. SubSeq(port, n + 1, Len(port)) \in Seq(Completions)
      BY <2>1, <3>1, <3>3
    <3> QED
      BY <3>2, <3>4, <3>5
  <2>3. owner \notin Building /\ iocp
    BY <2>1 DEF Queues
  <2> QED
    BY <2>1, <2>2, <2>3 DEF Queues
<1>17. CASE Woken
  <2>1. /\ UNCHANGED <<owner, iocp, port>> /\ thread' \in {"entry", "exited"}
        /\ batch' \in {batch, <<>>}
    BY <1>17 DEF Woken
  <2>2. batch \in Seq(Completions) /\ <<>> \in Seq(Completions)
    BY DEF Queues
  <2>3. batch' \in Seq(Completions)
    BY <2>1, <2>2
  <2> QED
    BY <2>1, <2>3 DEF Queues
<1>18. CASE Entry
  <2>1. UNCHANGED <<owner, iocp, port>>
    BY <1>18 DEF Entry
  <2>2. CASE thread' \in {"process", "recheck"}
    <3>1. batch # <<>> /\ Head(batch) # Wake /\ batch' = batch
      BY <1>18, <2>2 DEF Entry, IsWakeup, Handle
    <3> QED
      BY <2>1, <3>1 DEF Queues
  <2>3. CASE thread' \notin {"process", "recheck"}
    <3>1. /\ thread' \in {"loop", "entry"}
          /\ batch' = batch \/ (batch # <<>> /\ batch' = Tail(batch))
      BY <1>18, <2>3 DEF Entry, IsWakeup, Handle
    <3>2. batch \in Seq(Completions)
      BY DEF Queues
    <3>3. batch # <<>> => Tail(batch) \in Seq(Completions)
      BY <3>2
    <3>4. batch' \in Seq(Completions)
      BY <3>1, <3>2, <3>3
    <3> QED
      BY <2>1, <3>1, <3>4 DEF Queues
  <2> QED
    BY <2>2, <2>3
<1>19. CASE Processed
  <2>1. /\ UNCHANGED <<port, batch>> /\ (iocp => iocp')
        /\ Iocp /\ AtEntry' => AtEntry
        /\ owner' \in Building => owner \in Building \/ ~iocp
    BY <1>19 DEF Processed, AtEntry, Building
  <2> QED
    BY <2>1, QueuesUntouched
<1>20. CASE Recheck
  <2>1. /\ UNCHANGED <<owner, iocp, port>>
        /\ thread = "recheck" /\ Iocp
    BY <1>20 DEF Recheck, Control, ThreadPlace
  <2>2. Tail(batch) \in Seq(Completions)
    BY <2>1, EntryHasBuffer
  <2>3. \/ thread' = "repost" /\ batch' = batch
        \/ thread' = "entry" /\ batch' = Tail(batch)
    BY <1>20 DEF Recheck
  <2> QED
    BY <2>1, <2>2, <2>3 DEF Queues
<1>21. CASE Repost
  <2>1. /\ UNCHANGED <<owner, iocp, port>> /\ thread' = "entry"
        /\ thread = "repost" /\ Iocp /\ batch' = Tail(batch)
    BY <1>21 DEF Repost, Control, ThreadPlace
  <2>2. Tail(batch) \in Seq(Completions)
    BY <2>1, EntryHasBuffer
  <2> QED
    BY <2>1, <2>2 DEF Queues
<1>22. CASE CallRecvfrom
  <2>1. /\ UNCHANGED <<port, batch>> /\ (iocp => iocp')
        /\ Iocp /\ AtEntry' => AtEntry
        /\ owner' \in Building => owner \in Building \/ ~iocp
    BY <1>22 DEF CallRecvfrom, Control, ThreadPlace, AtEntry, Building
  <2> QED
    BY <2>1, QueuesUntouched
<1>23. CASE TakeDatagram
  <2>1. /\ UNCHANGED <<port, batch>> /\ (iocp => iocp')
        /\ Iocp /\ AtEntry' => AtEntry
        /\ owner' \in Building => owner \in Building \/ ~iocp
    BY <1>23 DEF TakeDatagram, LeftInSocket, Control, ThreadPlace,
                 AtEntry, Building
  <2> QED
    BY <2>1, QueuesUntouched
<1>24. CASE RecvfromFailed
  <2>1. /\ UNCHANGED <<port, batch>> /\ (iocp => iocp')
        /\ Iocp /\ AtEntry' => AtEntry
        /\ owner' \in Building => owner \in Building \/ ~iocp
    BY <1>24 DEF RecvfromFailed, Control, ThreadPlace, AtEntry, Building
  <2> QED
    BY <2>1, QueuesUntouched
<1>25. ASSUME NEW b \in Buffers, NEW filled \in BOOLEAN,
             ReceiveCompletes(b, filled)
      PROVE  Queues'
  <2>1. /\ port' = Append(port, [buffer |-> b, filled |-> filled])
        /\ UNCHANGED <<owner, iocp, thread, batch>>
        /\ b \in posted
    BY <1>25 DEF ReceiveCompletes
  <2>2. [buffer |-> b, filled |-> filled] \in Completions
    BY DEF Completions
  <2>3. port' \in Seq(Completions)
    BY <2>1, <2>2 DEF Queues
  <2>4. iocp /\ owner \notin Building
    BY <2>1 DEF Control, Holdings
  <2> QED
    BY <2>1, <2>3, <2>4 DEF Queues
<1>26. CASE DatagramArrives
  <2>1. /\ UNCHANGED <<port, batch>> /\ (iocp => iocp')
        /\ Iocp /\ AtEntry' => AtEntry
        /\ owner' \in Building => owner \in Building \/ ~iocp
    BY <1>26 DEF DatagramArrives, AtEntry, Building
  <2> QED
    BY <2>1, QueuesUntouched
<1>27. CASE RecvfromInterrupted
  <2>1. /\ UNCHANGED <<port, batch>> /\ (iocp => iocp')
        /\ Iocp /\ AtEntry' => AtEntry
        /\ owner' \in Building => owner \in Building \/ ~iocp
    BY <1>27 DEF RecvfromInterrupted, LeftInSocket, Control, ThreadPlace,
                 AtEntry, Building
  <2> QED
    BY <2>1, QueuesUntouched
<1>28. CASE DequeueFails
  <2>1. /\ UNCHANGED <<port, batch>> /\ (iocp => iocp')
        /\ Iocp /\ AtEntry' => AtEntry
        /\ owner' \in Building => owner \in Building \/ ~iocp
    BY <1>28 DEF DequeueFails, AtEntry, Building
  <2> QED
    BY <2>1, QueuesUntouched
<1>29. CASE UNCHANGED vars
  BY <1>29 DEF Queues
<1>30. CASE OrphansEnd
  <2>1. /\ UNCHANGED <<port, batch>> /\ (iocp => iocp')
        /\ Iocp /\ AtEntry' => AtEntry
        /\ owner' \in Building => owner \in Building \/ ~iocp
    BY <1>30 DEF OrphansEnd, AtEntry, Building
  <2> QED
    BY <2>1, QueuesUntouched
<1> QED
  BY <1>1, <1>2, <1>3, <1>4, <1>5, <1>6, <1>7, <1>8, <1>9, <1>10, <1>11,
     <1>12, <1>13, <1>14, <1>15, <1>16, <1>17, <1>18, <1>19, <1>20, <1>21,
     <1>22, <1>23, <1>24, <1>25, <1>26, <1>27, <1>28, <1>29, <1>30
     DEF Next, StartAgain, StartStep, StopStep, ReceiveThread

\* The types of the flags.
LEMMA FlagsStep ==
    Flags /\ [Next]_vars => Flags'
<1> SUFFICES ASSUME Flags, [Next]_vars
             PROVE  Flags'
  OBVIOUS
<1> USE DEF Flags, vars, ownerVars, fields, threadVars, kernelVars
<1>1. CASE StartBegins
  BY <1>1 DEF StartBegins
<1>2. CASE InitSockets
  BY <1>2 DEF InitSockets, CleanUpSockets
<1>3. CASE OpenSocket
  BY <1>3 DEF OpenSocket, OpenSocketFails, CleanUpSockets
<1>4. CASE AllocatePool
  BY <1>4 DEF AllocatePool, CloseSocket, CleanUpSockets
<1>5. CASE CreatePort
  BY <1>5 DEF CreatePort, CreatePortFails, CloseSocket, CleanUpSockets
<1>6. CASE SetRunning
  BY <1>6 DEF SetRunning
<1>7. CASE CreateThread
  BY <1>7 DEF CreateThread, CreateThreadFails, CloseSocket, CleanUpSockets
<1>8. CASE MarkThreadStarted
  BY <1>8 DEF MarkThreadStarted, SetThreadStarted
<1>9. ASSUME NEW destroys \in BOOLEAN, StopBegins(destroys)
      PROVE  Flags'
  BY <1>9 DEF StopBegins, ClearRunning
<1>10. CASE WakeThread
  BY <1>10 DEF WakeThread
<1>11. CASE StopCloses
  BY <1>11 DEF StopCloses, CloseSocket
<1>12. CASE Join
  BY <1>12 DEF Join
<1>13. CASE Free
  BY <1>13 DEF Free, CleanUpSockets
<1>14. CASE Prime
  BY <1>14 DEF Prime
<1>15. CASE Loop
  BY <1>15 DEF Loop
<1>16. CASE Dequeue
  BY <1>16 DEF Dequeue
<1>17. CASE Woken
  BY <1>17 DEF Woken
<1>18. CASE Entry
  BY <1>18 DEF Entry
<1>19. CASE Processed
  BY <1>19 DEF Processed
<1>20. CASE Recheck
  BY <1>20 DEF Recheck
<1>21. CASE Repost
  BY <1>21 DEF Repost
<1>22. CASE CallRecvfrom
  BY <1>22 DEF CallRecvfrom
<1>23. CASE TakeDatagram
  BY <1>23 DEF TakeDatagram
<1>24. CASE RecvfromFailed
  BY <1>24 DEF RecvfromFailed
<1>25. ASSUME NEW b \in Buffers, NEW filled \in BOOLEAN,
             ReceiveCompletes(b, filled)
      PROVE  Flags'
  BY <1>25 DEF ReceiveCompletes
<1>26. CASE DatagramArrives
  BY <1>26 DEF DatagramArrives
<1>27. CASE RecvfromInterrupted
  BY <1>27 DEF RecvfromInterrupted
<1>28. CASE DequeueFails
  BY <1>28 DEF DequeueFails
<1>29. CASE UNCHANGED vars
  BY <1>29
<1>30. CASE OrphansEnd
  BY <1>30 DEF OrphansEnd
<1> QED
  BY <1>1, <1>2, <1>3, <1>4, <1>5, <1>6, <1>7, <1>8, <1>9, <1>10, <1>11,
     <1>12, <1>13, <1>14, <1>15, <1>16, <1>17, <1>18, <1>19, <1>20, <1>21,
     <1>22, <1>23, <1>24, <1>25, <1>26, <1>27, <1>28, <1>29, <1>30
     DEF Next, StartAgain, StartStep, StopStep, ReceiveThread

LEMMA InvariantHolds == Spec => [](Flags /\ LifeInvariant)
<1>1. Init => Flags
  BY DEF Init, Flags
<1>2. Flags /\ LifeInvariant /\ [Next]_vars => (Flags /\ LifeInvariant)'
  BY FlagsStep, ControlStep, QueuesStep DEF LifeInvariant
<1> QED
  BY <1>1, <1>2, LifeInvariantInit, PTL DEF Spec
-----------------------------------------------------------------------------
(* What the invariant says of the receiver.                                *)

\* The variables keep their types: among them, a WSACleanup never comes
\* without the WSAStartup it undoes.
THEOREM LifecycleTyping == Spec => []TypeOK
<1>1. Flags /\ LifeInvariant => TypeOK
  BY DEF Flags, LifeInvariant, Control, ControlType, Queues, TypeOK
<1> QED
  BY <1>1, InvariantHolds, PTL

\* A start that fails and a stop that returns (st2110rx_start,
\* st2110rx_stop) leave nothing behind, whatever fails.
THEOREM NothingIsLeftBehind == Spec => []QuiescentIsClean
<1>1. LifeInvariant => QuiescentIsClean
  <2> SUFFICES ASSUME LifeInvariant, owner \in {"idle", "destroyed"},
                      ~threadStarted
               PROVE  /\ ~running
                      /\ ~sock /\ ~pool /\ ~iocp
                      /\ libraryRefs = 0 /\ ~socketsInit
                      /\ port = <<>> /\ queued = 0
                      /\ thread = "none"
    BY DEF QuiescentIsClean
  <2>1. /\ ~running /\ ~sock /\ ~pool /\ ~socketsInit
        /\ thread = "none"
    BY DEF LifeInvariant, Control, ThreadLife, OwnerPlace
  <2>2. ~iocp /\ libraryRefs = 0
    BY <2>1 DEF LifeInvariant, Control, Holdings
  <2>3. queued = 0
    BY <2>1, Constants
       DEF ConstantAssumptions, LifeInvariant, Control, ControlType, Holdings
  <2>4. port = <<>>
    BY <2>2 DEF LifeInvariant, Queues
  <2> QED
    BY <2>1, <2>2, <2>3, <2>4
<1> QED
  BY <1>1, InvariantHolds, PTL

\* A pool is freed, by a start that fails or by a stop, when nobody can post a
\* receive from it or read it any more: the thread has ended and the socket is
\* closed.
THEOREM PoolGoesLast == Spec => PoolIsFreedLast
<1>1. LifeInvariant /\ [Next]_vars =>
          (pool /\ ~pool' => ~sock' /\ thread \in {"none", "exited"})
  <2> SUFFICES ASSUME Control, [Next]_vars, pool, ~pool'
               PROVE  ~sock' /\ thread \in {"none", "exited"}
    BY DEF LifeInvariant
  <2>1. CreatePort \/ CreateThread \/ Free
    BY DEF Next, StartBegins, StartAgain, StartStep, StopStep, ReceiveThread,
           InitSockets, OpenSocket, OpenSocketFails, AllocatePool, SetRunning,
           MarkThreadStarted, StopBegins, WakeThread, StopCloses, Join, Prime,
           Loop, Dequeue, Woken, Entry, Processed, Recheck, Repost,
           CallRecvfrom, TakeDatagram, RecvfromFailed, ReceiveCompletes,
           OrphansEnd, DatagramArrives, RecvfromInterrupted, DequeueFails,
           vars, ownerVars, fields
  <2>2. ASSUME CreatePort \/ CreateThread
        PROVE  ~sock' /\ thread = "none"
    <3>1. owner \in Building /\ CloseSocket
      BY <2>2 DEF CreatePort, CreatePortFails, CreateThread,
                  CreateThreadFails, Building
    <3> QED
      BY <3>1 DEF Control, ThreadLife, Building, CloseSocket
  <2>3. CASE Free
    <3>1. ~sock /\ owner = "free"
      BY <2>3 DEF Free, Control, OwnerPlace
    <3>2. thread = "none"
      BY <3>1 DEF Control, ThreadLife
    <3> QED
      BY <2>3, <3>1, <3>2 DEF Free
  <2> QED
    BY <2>1, <2>2, <2>3
<1>2. LifeInvariant /\ [Next]_vars =>
          [pool /\ ~pool' => ~sock' /\ thread \in {"none", "exited"}]_vars
  BY <1>1
<1> QED
  BY <1>2, InvariantHolds, PTL DEF Spec, PoolIsFreedLast

\* Between a start that succeeded and the next stop there is a thread that
\* receives, unless it could not post its buffers.
THEOREM RunningReceives == Spec => []RunningMeansReceiving
<1>1. LifeInvariant => RunningMeansReceiving
  BY DEF LifeInvariant, Control, ControlType, ThreadLife, ThreadPlace,
         OwnerPlace, RunningMeansReceiving, StopSteps
<1> QED
  BY <1>1, InvariantHolds, PTL
-----------------------------------------------------------------------------
(* The receiver keeps the promise of its API.                              *)

\* A step of the thread, or of the kernel, that is not seen from outside.
LEMMA ThreadStepIsHidden ==
    ASSUME UNCHANGED <<owner, destroying, threadStarted>>,
           (thread' = "process") = (thread = "process")
    PROVE  UNCHANGED Promise!vars
BY DEF Promise!vars, Service

\* The handler begins only while the thread is not yet joined.
LEMMA CallbackBegins ==
    ASSUME Control, thread \notin {"none", "process"}, thread' = "process",
           UNCHANGED <<owner, destroying, threadStarted>>
    PROVE  Promise!CallbackBegins
<1>1. owner \in {"mark", "idle", "wake", "close", "join"}
  BY DEF Control, ThreadLife
<1>2. owner = "idle" => threadStarted
  BY DEF Control, ThreadLife
<1>3. owner \in StartSteps \/ threadStarted
  BY <1>1, <1>2 DEF Control, ThreadLife, StartSteps
<1>4. UNCHANGED Service
  BY DEF Service
<1> QED
  BY <1>3, <1>4 DEF Promise!CallbackBegins

\* A start goes on, and its thread has no packet yet.
LEMMA StartGoesOn ==
    ASSUME owner \in StartSteps, owner' \in StartSteps,
           thread # "process", thread' # "process"
    PROVE  UNCHANGED Promise!vars
<1>1. Service = "starting" /\ Service' = "starting"
  BY DEF Service, StartSteps, StopSteps
<1> QED
  BY <1>1 DEF Promise!vars

\* A start fails before there is a thread.
LEMMA StartFails ==
    ASSUME Control, owner \in StartSteps \ {"mark"}, owner' = "idle",
           UNCHANGED <<threadStarted, thread>>
    PROVE  Promise!StartReturns
<1>1. ~threadStarted /\ thread = "none"
  BY DEF Control, ControlType, ThreadLife, StartSteps
<1>2. Service = "starting" /\ Service' = "stopped"
  BY <1>1 DEF Service, StartSteps, StopSteps
<1>3. ~(owner' \in StartSteps \/ threadStarted')
  BY <1>1 DEF StartSteps
<1>4. /\ (thread = "process") = FALSE
      /\ UNCHANGED (thread = "process")
  BY <1>1
<1> QED
  BY <1>2, <1>3, <1>4 DEF Promise!StartReturns

\* A stop goes on.
LEMMA StopGoesOn ==
    ASSUME owner \in StopSteps, owner' \in StopSteps,
           UNCHANGED <<destroying, threadStarted>>,
           (thread' = "process") = (thread = "process")
    PROVE  UNCHANGED Promise!vars
BY DEF Promise!vars, Service, StopSteps, StartSteps

LEMMA PromiseStep ==
    Flags /\ LifeInvariant /\ [Next]_vars => [Promise!Next]_(Promise!vars)
<1> SUFFICES ASSUME Flags, Control, [Next]_vars
             PROVE  Promise!Next \/ UNCHANGED Promise!vars
  BY DEF LifeInvariant
<1> USE DEF vars, ownerVars, fields, threadVars, kernelVars
<1>1. CASE StartBegins
  <2>1. /\ owner = "idle" /\ owner' = "init" /\ UNCHANGED thread
        /\ ~threadStarted
    BY <1>1 DEF StartBegins, Control, ThreadLife
  <2>2. Service = "stopped" /\ Service' = "starting"
    BY <2>1 DEF Service, StartSteps, StopSteps
  <2>3. owner' \in StartSteps
    BY <2>1 DEF StartSteps
  <2> QED
    BY <2>1, <2>2, <2>3 DEF Promise!Next, Promise!Enter
<1>2. CASE InitSockets
  <2>1. /\ owner = "init" /\ owner' \in {"idle", "socket"}
        /\ UNCHANGED <<threadStarted, thread>>
    BY <1>2 DEF InitSockets
  <2>2. thread # "process"
    BY <2>1 DEF Control, ControlType, ThreadLife
  <2>3. CASE owner' = "idle"
    BY <2>1, <2>3, StartFails DEF StartSteps, Promise!Next
  <2>4. CASE owner' # "idle"
    BY <2>1, <2>2, <2>4, StartGoesOn DEF StartSteps
  <2> QED
    BY <2>3, <2>4
<1>3. CASE OpenSocket
  <2>1. /\ owner = "socket" /\ owner' \in {"idle", "pool", "thread"}
        /\ UNCHANGED <<threadStarted, thread>>
    BY <1>3 DEF OpenSocket, OpenSocketFails
  <2>2. thread # "process"
    BY <2>1 DEF Control, ControlType, ThreadLife
  <2>3. CASE owner' = "idle"
    BY <2>1, <2>3, StartFails DEF StartSteps, Promise!Next
  <2>4. CASE owner' # "idle"
    BY <2>1, <2>2, <2>4, StartGoesOn DEF StartSteps
  <2> QED
    BY <2>3, <2>4
<1>4. CASE AllocatePool
  <2>1. /\ owner = "pool" /\ owner' \in {"idle", "port"}
        /\ UNCHANGED <<threadStarted, thread>>
    BY <1>4 DEF AllocatePool
  <2>2. thread # "process"
    BY <2>1 DEF Control, ControlType, ThreadLife
  <2>3. CASE owner' = "idle"
    BY <2>1, <2>3, StartFails DEF StartSteps, Promise!Next
  <2>4. CASE owner' # "idle"
    BY <2>1, <2>2, <2>4, StartGoesOn DEF StartSteps
  <2> QED
    BY <2>3, <2>4
<1>5. CASE CreatePort
  <2>1. /\ owner = "port" /\ owner' \in {"idle", "thread"}
        /\ UNCHANGED <<threadStarted, thread>>
    BY <1>5 DEF CreatePort, CreatePortFails
  <2>2. thread # "process"
    BY <2>1 DEF Control, ControlType, ThreadLife
  <2>3. CASE owner' = "idle"
    BY <2>1, <2>3, StartFails DEF StartSteps, Promise!Next
  <2>4. CASE owner' # "idle"
    BY <2>1, <2>2, <2>4, StartGoesOn DEF StartSteps
  <2> QED
    BY <2>3, <2>4
<1>6. CASE SetRunning
  BY <1>6, ThreadStepIsHidden DEF SetRunning
<1>7. CASE CreateThread
  <2>1. CASE owner' = "idle"
    <3>1. owner = "thread" /\ UNCHANGED <<threadStarted, thread>>
      BY <1>7, <2>1 DEF CreateThread, CreateThreadFails
    <3> QED
      BY <2>1, <3>1, StartFails DEF StartSteps, Promise!Next
  <2>2. CASE owner' # "idle"
    <3>1. /\ owner = "thread" /\ owner' = "mark"
          /\ thread' \in {"prime", "loop"}
      BY <1>7, <2>2 DEF CreateThread, CreateThreadFails
    <3>2. thread # "process"
      BY <3>1 DEF Control, ControlType, ThreadLife
    <3> QED
      BY <3>1, <3>2, StartGoesOn DEF StartSteps
  <2> QED
    BY <2>1, <2>2
<1>8. CASE MarkThreadStarted
  <2>1. /\ owner = "mark" /\ owner' = "idle" /\ threadStarted'
        /\ UNCHANGED thread
    BY <1>8 DEF MarkThreadStarted, SetThreadStarted
  <2>2. Service = "starting" /\ Service' = "started"
    BY <2>1 DEF Service, StartSteps, StopSteps
  <2> QED
    BY <2>1, <2>2 DEF Promise!Next, Promise!StartReturns
<1>9. ASSUME NEW destroys \in BOOLEAN, StopBegins(destroys)
      PROVE  Promise!Next
  <2>1. /\ owner = "idle" /\ owner' = "wake" /\ destroying' = destroys
        /\ UNCHANGED <<thread, threadStarted>>
    BY <1>9 DEF StopBegins
  <2>2. /\ Service \in {"stopped", "started"}
        /\ Service' = IF destroys THEN "destroying" ELSE "stopping"
    BY <2>1 DEF Service, StartSteps, StopSteps
  <2>3. ~(owner \in StartSteps) /\ ~(owner' \in StartSteps)
    BY <2>1 DEF StartSteps
  <2>4. /\ UNCHANGED (thread = "process")
        /\ (owner' \in StartSteps \/ threadStarted') =
               (owner \in StartSteps \/ threadStarted)
    BY <2>1, <2>3
  <2>5. CASE destroys
    <3>1. Promise!Enter("destroying", {"stopped", "started"})
      BY <2>2, <2>4, <2>5 DEF Promise!Enter
    <3> QED
      BY <3>1 DEF Promise!Next
  <2>6. CASE ~destroys
    <3>1. Promise!Enter("stopping", {"stopped", "started"})
      BY <2>2, <2>4, <2>6 DEF Promise!Enter
    <3> QED
      BY <3>1 DEF Promise!Next
  <2> QED
    BY <2>5, <2>6
<1>10. CASE WakeThread
  BY <1>10, StopGoesOn DEF WakeThread, StopSteps
<1>11. CASE StopCloses
  BY <1>11, StopGoesOn DEF StopCloses, StopSteps
<1>12. CASE Join
  <2>1. /\ owner = "join" /\ owner' = "free" /\ UNCHANGED destroying
        /\ ~threadStarted'
    BY <1>12 DEF Join
  <2>2. CASE threadStarted
    <3>1. thread = "exited" /\ thread' = "none"
      BY <1>12, <2>2 DEF Join, JoinThread
    <3>2. /\ Service = IF destroying THEN "destroying" ELSE "stopping"
          /\ UNCHANGED Service
      BY <2>1 DEF Service, StartSteps, StopSteps
    <3>3. ~(owner' \in StartSteps)
      BY <2>1 DEF StartSteps
    <3> QED
      BY <2>1, <2>2, <3>1, <3>2, <3>3 DEF Promise!Next, Promise!ThreadEnds
  <2>3. CASE ~threadStarted
    <3>1. UNCHANGED <<thread, threadStarted>>
      BY <1>12, <2>1, <2>3 DEF Join, JoinThread, Flags
    <3> QED
      BY <2>1, <3>1, StopGoesOn DEF StopSteps
  <2> QED
    BY <2>2, <2>3
<1>13. CASE Free
  <2>1. /\ owner = "free" /\ UNCHANGED <<thread, threadStarted>>
        /\ owner' = IF destroying THEN "destroyed" ELSE "idle"
    BY <1>13 DEF Free
  <2>2. thread = "none" /\ ~threadStarted
    BY <2>1 DEF Control, ControlType, ThreadLife
  <2>3. /\ Service = IF destroying THEN "destroying" ELSE "stopping"
        /\ Service' = IF destroying THEN "destroyed" ELSE "stopped"
    BY <2>1, <2>2 DEF Service, StartSteps, StopSteps
  <2>4. ~(owner \in StartSteps) /\ ~(owner' \in StartSteps)
    BY <2>1 DEF StartSteps, StopSteps
  <2>5. /\ UNCHANGED (thread = "process")
        /\ (owner \in StartSteps \/ threadStarted) = FALSE
        /\ (owner' \in StartSteps \/ threadStarted') = FALSE
    BY <2>1, <2>2, <2>4
  <2> QED
    BY <2>3, <2>5
       DEF Promise!Next, Promise!StopReturns, Promise!DestroyReturns
<1>14. CASE Prime
  BY <1>14, ThreadStepIsHidden DEF Prime
<1>15. CASE Loop
  BY <1>15, ThreadStepIsHidden DEF Loop
<1>16. CASE Dequeue
  BY <1>16, ThreadStepIsHidden DEF Dequeue
<1>17. CASE Woken
  BY <1>17, ThreadStepIsHidden DEF Woken
<1>18. CASE Entry
  <2>1. /\ thread = "entry"
        /\ thread' \in {"loop", "entry", "process", "recheck"}
        /\ UNCHANGED <<owner, destroying, threadStarted>>
    BY <1>18 DEF Entry, Handle
  <2>2. CASE thread' = "process"
    BY <2>1, <2>2, CallbackBegins DEF Promise!Next
  <2>3. CASE thread' # "process"
    BY <2>1, <2>3, ThreadStepIsHidden
  <2> QED
    BY <2>2, <2>3
<1>19. CASE Processed
  <2>1. /\ thread = "process" /\ thread' \in {"recheck", "loop"}
        /\ UNCHANGED <<owner, destroying, threadStarted>>
    BY <1>19 DEF Processed
  <2> QED
    BY <2>1 DEF Promise!Next, Promise!CallbackEnds, Service
<1>20. CASE Recheck
  BY <1>20, ThreadStepIsHidden DEF Recheck
<1>21. CASE Repost
  BY <1>21, ThreadStepIsHidden DEF Repost
<1>22. CASE CallRecvfrom
  BY <1>22, ThreadStepIsHidden DEF CallRecvfrom
<1>23. CASE TakeDatagram
  <2>1. /\ thread = "blocked" /\ thread' = "process"
        /\ UNCHANGED <<owner, destroying, threadStarted>>
    BY <1>23 DEF TakeDatagram
  <2> QED
    BY <2>1, CallbackBegins DEF Promise!Next
<1>24. CASE RecvfromFailed
  BY <1>24, ThreadStepIsHidden DEF RecvfromFailed
<1>25. ASSUME NEW b \in Buffers, NEW filled \in BOOLEAN,
             ReceiveCompletes(b, filled)
      PROVE  UNCHANGED Promise!vars
  BY <1>25, ThreadStepIsHidden DEF ReceiveCompletes
<1>26. CASE DatagramArrives
  BY <1>26, ThreadStepIsHidden DEF DatagramArrives
<1>27. CASE RecvfromInterrupted
  BY <1>27, ThreadStepIsHidden DEF RecvfromInterrupted
<1>28. CASE DequeueFails
  BY <1>28, ThreadStepIsHidden DEF DequeueFails
<1>29. CASE UNCHANGED vars
  BY <1>29, ThreadStepIsHidden
<1>30. CASE OrphansEnd
  BY <1>30, ThreadStepIsHidden DEF OrphansEnd
<1> QED
  BY <1>1, <1>2, <1>3, <1>4, <1>5, <1>6, <1>7, <1>8, <1>9, <1>10, <1>11,
     <1>12, <1>13, <1>14, <1>15, <1>16, <1>17, <1>18, <1>19, <1>20, <1>21,
     <1>22, <1>23, <1>24, <1>25, <1>26, <1>27, <1>28, <1>29, <1>30
     DEF Next, StartAgain, StartStep, StopStep, ReceiveThread

\* No packet is processed, and so no callback of the owner runs, but between
\* the beginning of a start and the return of the stop or destroy after it:
\* the receiver implements ReceiverService.
THEOREM ReceiverKeepsPromise == Spec => KeepsPromise
<1>1. Init => Promise!Init
  BY DEF Init, Promise!Init, Service, StartSteps, StopSteps
<1> QED
  BY <1>1, PromiseStep, InvariantHolds, PTL
     DEF Spec, KeepsPromise, Promise!Spec
-----------------------------------------------------------------------------
(* Sequences of completions: which buffers they are about.                 *)

\* Only the wake-up has no buffer.
LEMMA CompletionBuffer ==
    ASSUME NEW c \in Completions
    PROVE  /\ c.buffer \in Buffers \cup {0}
           /\ c = Wake <=> c.buffer = 0
<1>1. 0 \notin Buffers
  BY DEF Buffers
<1> QED
  BY <1>1 DEF Completions, Wake

LEMMA BuffersOfAny ==
    ASSUME NEW s \in Seq(Completions), NEW b
    PROVE  b \in BuffersOf(s) <=>
               b # 0 /\ \E i \in 1 .. Len(s) : s[i].buffer = b
BY DEF BuffersOf

LEMMA NoBuffers == BuffersOf(<<>>) = {} /\ Distinct(<<>>)
BY DEF BuffersOf, Distinct

\* A sequence that holds one set of completions after another.
LEMMA JoinedBuffers ==
    ASSUME NEW s \in Seq(Completions), NEW t \in Seq(Completions)
    PROVE  /\ BuffersOf(s \o t) = BuffersOf(s) \cup BuffersOf(t)
           /\ Distinct(s) /\ Distinct(t) /\ BuffersOf(s) \cap BuffersOf(t) = {}
                  => Distinct(s \o t)
           /\ Distinct(s \o t) =>
                  /\ Distinct(s) /\ Distinct(t)
                  /\ BuffersOf(s) \cap BuffersOf(t) = {}
<1> DEFINE u == s \o t
<1>1. /\ u \in Seq(Completions)
      /\ Len(s) \in Nat /\ Len(t) \in Nat
      /\ Len(u) = Len(s) + Len(t)
      /\ \A i \in 1 .. Len(s) : u[i] = s[i]
      /\ \A i \in 1 .. Len(t) : u[i + Len(s)] = t[i]
  OBVIOUS
<1>2. /\ DOMAIN s = 1 .. Len(s)
      /\ DOMAIN t = 1 .. Len(t)
      /\ DOMAIN u = 1 .. Len(u)
  BY <1>1
<1>3. /\ \A i \in 1 .. Len(s) : s[i] \in Completions
      /\ \A i \in 1 .. Len(t) : t[i] \in Completions
  OBVIOUS
<1> HIDE DEF u
<1>4. \A i \in 1 .. Len(u) :
          \/ i \in 1 .. Len(s) /\ u[i] = s[i]
          \/ i - Len(s) \in 1 .. Len(t) /\ u[i] = t[i - Len(s)]
  <2> TAKE i \in 1 .. Len(u)
  <2>1. CASE i <= Len(s)
    BY <1>1, <2>1
  <2>2. CASE i > Len(s)
    <3>1. i - Len(s) \in 1 .. Len(t) /\ (i - Len(s)) + Len(s) = i
      BY <1>1, <2>2
    <3> QED
      BY <1>1, <3>1
  <2> QED
    BY <1>1, <2>1, <2>2
<1>5. /\ 1 .. Len(s) \subseteq 1 .. Len(u)
      /\ \A i \in 1 .. Len(t) : i + Len(s) \in 1 .. Len(u)
  BY <1>1
<1>6. BuffersOf(u) = BuffersOf(s) \cup BuffersOf(t)
  <2>1. ASSUME NEW b, b \in BuffersOf(u)
        PROVE  b \in BuffersOf(s) \cup BuffersOf(t)
    <3>1. PICK i \in 1 .. Len(u) : b # 0 /\ u[i].buffer = b
      BY <1>1, <2>1, BuffersOfAny
    <3> QED
      BY <1>4, <3>1, BuffersOfAny
  <2>2. ASSUME NEW b, b \in BuffersOf(s) PROVE b \in BuffersOf(u)
    <3>1. PICK i \in 1 .. Len(s) : b # 0 /\ s[i].buffer = b
      BY <2>2, BuffersOfAny
    <3> QED
      BY <1>1, <1>5, <3>1, BuffersOfAny
  <2>3. ASSUME NEW b, b \in BuffersOf(t) PROVE b \in BuffersOf(u)
    <3>1. PICK i \in 1 .. Len(t) : b # 0 /\ t[i].buffer = b
      BY <2>3, BuffersOfAny
    <3>2. u[i + Len(s)].buffer = b /\ i + Len(s) \in 1 .. Len(u)
      BY <1>1, <1>5, <3>1
    <3> QED
      BY <1>1, <3>1, <3>2, BuffersOfAny
  <2> QED
    BY <2>1, <2>2, <2>3
<1>7. ASSUME Distinct(s), Distinct(t), BuffersOf(s) \cap BuffersOf(t) = {}
      PROVE  Distinct(u)
  <2> SUFFICES ASSUME NEW i \in 1 .. Len(u), NEW j \in 1 .. Len(u),
                      u[i].buffer = u[j].buffer, u[i] # Wake
               PROVE  i = j
    BY <1>2 DEF Distinct
  <2>1. u[i] \in Completions /\ u[i].buffer # 0
    BY <1>3, <1>4, CompletionBuffer
  <2>2. CASE i \in 1 .. Len(s) /\ u[i] = s[i]
    <3>1. u[i].buffer \in BuffersOf(s)
      BY <2>1, <2>2, BuffersOfAny
    <3>2. ASSUME j - Len(s) \in 1 .. Len(t), u[j] = t[j - Len(s)]
          PROVE  FALSE
      <4>1. u[i].buffer \in BuffersOf(t)
        BY <2>1, <3>2, BuffersOfAny
      <4> QED
        BY <1>7, <3>1, <4>1
    <3>3. j \in 1 .. Len(s) /\ u[j] = s[j]
      BY <1>4, <3>2
    <3> QED
      BY <1>2, <1>7, <2>2, <3>3 DEF Distinct
  <2>3. CASE i - Len(s) \in 1 .. Len(t) /\ u[i] = t[i - Len(s)]
    <3>1. u[i].buffer \in BuffersOf(t)
      BY <2>1, <2>3, BuffersOfAny
    <3>2. ASSUME j \in 1 .. Len(s), u[j] = s[j] PROVE FALSE
      <4>1. u[i].buffer \in BuffersOf(s)
        BY <2>1, <3>2, BuffersOfAny
      <4> QED
        BY <1>7, <3>1, <4>1
    <3>3. j - Len(s) \in 1 .. Len(t) /\ u[j] = t[j - Len(s)]
      BY <1>4, <3>2
    <3>4. i - Len(s) = j - Len(s)
      BY <1>2, <1>7, <2>3, <3>3 DEF Distinct
    <3> QED
      BY <1>1, <3>4
  <2> QED
    BY <1>4, <2>2, <2>3
<1>8. ASSUME Distinct(u) PROVE Distinct(s)
  <2> SUFFICES ASSUME NEW i \in 1 .. Len(s), NEW j \in 1 .. Len(s),
                      s[i].buffer = s[j].buffer
               PROVE  i = j \/ s[i] = Wake
    BY <1>2 DEF Distinct
  <2>1. i \in 1 .. Len(u) /\ j \in 1 .. Len(u) /\ u[i] = s[i] /\ u[j] = s[j]
    BY <1>1, <1>5
  <2> QED
    BY <1>2, <1>8, <2>1 DEF Distinct
<1>9. ASSUME Distinct(u) PROVE Distinct(t)
  <2> SUFFICES ASSUME NEW i \in 1 .. Len(t), NEW j \in 1 .. Len(t),
                      t[i].buffer = t[j].buffer
               PROVE  i = j \/ t[i] = Wake
    BY <1>2 DEF Distinct
  <2>1. /\ i + Len(s) \in 1 .. Len(u) /\ j + Len(s) \in 1 .. Len(u)
        /\ u[i + Len(s)] = t[i] /\ u[j + Len(s)] = t[j]
    BY <1>1, <1>5
  <2>2. i + Len(s) = j + Len(s) \/ t[i] = Wake
    BY <1>2, <1>9, <2>1 DEF Distinct
  <2> QED
    BY <1>1, <2>2
<1>10. ASSUME Distinct(u), NEW b, b \in BuffersOf(s), b \in BuffersOf(t)
       PROVE  FALSE
  <2>1. PICK i \in 1 .. Len(s) : b # 0 /\ s[i].buffer = b
    BY <1>10, BuffersOfAny
  <2>2. PICK j \in 1 .. Len(t) : t[j].buffer = b
    BY <1>10, BuffersOfAny
  <2>3. /\ i \in 1 .. Len(u) /\ j + Len(s) \in 1 .. Len(u)
        /\ u[i] = s[i] /\ u[j + Len(s)] = t[j]
    BY <1>1, <1>5, <2>1, <2>2
  <2>4. s[i] # Wake
    BY <2>1 DEF Wake
  <2>5. i = j + Len(s)
    BY <1>2, <1>10, <2>1, <2>2, <2>3, <2>4 DEF Distinct
  <2> QED
    BY <1>1, <2>1, <2>2, <2>5
<1> QED
  BY <1>6, <1>7, <1>8, <1>9, <1>10 DEF u

\* A queue of one entry.
LEMMA OneBuffer ==
    ASSUME NEW c \in Completions, NEW s, s = <<c>>
    PROVE  /\ s \in Seq(Completions)
           /\ BuffersOf(s) = {c.buffer} \ {0}
           /\ Distinct(s)
<1>1. s \in Seq(Completions) /\ Len(s) = 1 /\ s[1] = c
  OBVIOUS
<1>2. DOMAIN s = 1 .. 1
  BY <1>1
<1>3. ASSUME NEW i \in 1 .. 1 PROVE i = 1
  OBVIOUS
<1>4. {s[i].buffer : i \in 1 .. 1} = {s[1].buffer}
  BY <1>3
<1> QED
  BY <1>1, <1>2, <1>3, <1>4 DEF Distinct, BuffersOf

\* A completion queued behind others.
LEMMA QueuedBuffer ==
    ASSUME NEW s \in Seq(Completions), NEW c \in Completions,
           Distinct(s), c = Wake \/ c.buffer \notin BuffersOf(s)
    PROVE  /\ BuffersOf(Append(s, c)) = BuffersOf(s) \cup ({c.buffer} \ {0})
           /\ Distinct(Append(s, c))
<1> DEFINE one == <<c>>
<1>1. Append(s, c) = s \o one
  OBVIOUS
<1>2. /\ one \in Seq(Completions) /\ Distinct(one)
      /\ BuffersOf(one) = {c.buffer} \ {0}
  BY OneBuffer
<1> HIDE DEF one
<1>3. BuffersOf(s) \cap BuffersOf(one) = {}
  BY <1>2, CompletionBuffer
<1> QED
  BY <1>1, <1>2, <1>3, JoinedBuffers

\* The entries behind the first one.
LEMMA RestBuffers ==
    ASSUME NEW s \in Seq(Completions), s # <<>>, Distinct(s)
    PROVE  /\ Head(s) \in Completions /\ Tail(s) \in Seq(Completions)
           /\ BuffersOf(s) = BuffersOf(Tail(s)) \cup ({Head(s).buffer} \ {0})
           /\ Distinct(Tail(s))
           /\ Head(s).buffer \notin BuffersOf(Tail(s))
<1> DEFINE one  == <<Head(s)>>
           rest == Tail(s)
<1>1. /\ s = one \o rest
      /\ Head(s) \in Completions /\ rest \in Seq(Completions)
  OBVIOUS
<1>2. /\ one \in Seq(Completions)
      /\ BuffersOf(one) = {Head(s).buffer} \ {0}
  BY <1>1, OneBuffer
<1> HIDE DEF one, rest
<1>3. /\ BuffersOf(s) = BuffersOf(one) \cup BuffersOf(rest)
      /\ Distinct(rest)
      /\ BuffersOf(one) \cap BuffersOf(rest) = {}
  BY <1>1, <1>2, JoinedBuffers
<1>4. 0 \notin BuffersOf(rest)
  BY DEF BuffersOf
<1>5. /\ BuffersOf(s) = BuffersOf(rest) \cup ({Head(s).buffer} \ {0})
      /\ Head(s).buffer \notin BuffersOf(rest)
  BY <1>2, <1>3, <1>4
<1> QED
  BY <1>1, <1>3, <1>5 DEF rest

\* The entries up to a place, and those behind it.
LEMMA SplitBuffers ==
    ASSUME NEW s \in Seq(Completions), NEW n \in 0 .. Len(s), Distinct(s)
    PROVE  /\ BuffersOf(s) = BuffersOf(SubSeq(s, 1, n)) \cup
                                 BuffersOf(SubSeq(s, n + 1, Len(s)))
           /\ BuffersOf(SubSeq(s, 1, n)) \cap
                  BuffersOf(SubSeq(s, n + 1, Len(s))) = {}
           /\ Distinct(SubSeq(s, 1, n))
           /\ Distinct(SubSeq(s, n + 1, Len(s)))
<1> DEFINE front == SubSeq(s, 1, n)
           back  == SubSeq(s, n + 1, Len(s))
<1>1. Len(s) \in Nat /\ \A i \in 1 .. Len(s) : s[i] \in Completions
  OBVIOUS
<1>2. front \in Seq(Completions)
  BY <1>1
<1>3. back \in Seq(Completions)
  BY <1>1
<1>4. s = front \o back
  <2>1. SubSeq(s, 1, n) \o SubSeq(s, n + 1, Len(s)) = SubSeq(s, 1, Len(s))
    <3>1. /\ 1 \in 1 .. Len(s) + 1 /\ n \in 1 - 1 .. Len(s)
          /\ Len(s) \in n .. Len(s)
      BY <1>1
    <3> QED
      BY <3>1, ConcatAdjacentSubSeq
  <2>2. SubSeq(s, 1, Len(s)) = s
    BY SubSeqFull
  <2> QED
    BY <2>1, <2>2
<1> HIDE DEF front, back
<1>5. /\ BuffersOf(s) = BuffersOf(front) \cup BuffersOf(back)
      /\ BuffersOf(front) \cap BuffersOf(back) = {}
      /\ Distinct(front) /\ Distinct(back)
  BY <1>2, <1>3, <1>4, JoinedBuffers
<1> QED
  BY <1>5 DEF front, back
-----------------------------------------------------------------------------
(* Who holds the buffers.                                                  *)

WorkingSteps == {"woken", "entry", "process", "recheck", "repost"}

\* The property, and what makes it inductive: the thread has a batch only
\* between its wake-up and the end of the loop over it, and the buffers its
\* first loop has yet to post are in nobody's hands.
Holders ==
    /\ BufferHasOneHolder
    /\ batch # <<>> => Iocp /\ thread \in WorkingSteps
    /\ thread = "prime" => InUse \subseteq 1 .. primed

\* What a step of a running receiver may take out of use.
KeepsInUse ==
    running /\ thread \in ThreadSteps =>
        InUse \ InUse' \subseteq
            IF thread = "repost" THEN {Head(batch).buffer} ELSE {}

\* A step that moves no buffer.
LEMMA HoldersUntouched ==
    ASSUME Holders, UNCHANGED <<posted, port, batch>>,
           Iocp /\ thread \in WorkingSteps => thread' \in WorkingSteps,
           thread' = "prime" => thread = "prime" /\ primed' = primed
    PROVE  Holders' /\ KeepsInUse
<1>1. InUse' = InUse
  BY DEF InUse, BuffersOf
<1> QED
  BY <1>1 DEF Holders, KeepsInUse, BufferHasOneHolder, BuffersOf, Distinct

\* A start before its thread: nothing is in use.
LEMMA NothingInUse ==
    ASSUME Control, Queues, Holders, owner \in Building
    PROVE  /\ port = <<>> /\ posted = {} /\ batch = <<>> /\ InUse = {}
           /\ thread = "none"
<1>1. thread = "none"
  BY DEF Control, ThreadLife, Building
<1>2. port = <<>> /\ posted = {}
  BY DEF Control, Holdings, Queues
<1>3. batch = <<>>
  BY <1>1 DEF Holders, WorkingSteps
<1> QED
  BY <1>1, <1>2, <1>3, NoBuffers DEF InUse

\* A start that fails leaves nothing in use.
LEMMA FailureHolds ==
    ASSUME Control, Queues, Holders, owner \in Building, CloseSocket,
           UNCHANGED <<thread, batch>>
    PROVE  Holders' /\ KeepsInUse
<1>1. /\ port = <<>> /\ posted = {} /\ batch = <<>>
      /\ thread = "none"
  BY NothingInUse
<1>2. port' = <<>> /\ posted' = {} /\ batch' = <<>> /\ thread' = "none"
  BY <1>1 DEF CloseSocket
<1>3. BuffersOf(port)' = {} /\ BuffersOf(batch)' = {}
  BY <1>2, NoBuffers DEF BuffersOf
<1>4. Distinct(port)' /\ Distinct(batch)'
  BY <1>2, NoBuffers DEF Distinct
<1>5. BufferHasOneHolder'
  BY <1>2, <1>3, <1>4 DEF BufferHasOneHolder
<1> QED
  BY <1>1, <1>2, <1>5 DEF Holders, KeepsInUse, ThreadSteps

\* How the steps that move buffers do.
LEMMA WakeThreadHolds ==
    ASSUME Control, Queues, Holders, WakeThread
    PROVE  Holders' /\ KeepsInUse
<1>1. UNCHANGED <<posted, thread, primed, batch>>
  BY DEF WakeThread, threadVars
<1>2. port' = Append(port, Wake) \/ UNCHANGED port
  BY DEF WakeThread, PostWakeup
<1>3. CASE UNCHANGED port
  BY <1>1, <1>3, HoldersUntouched
<1>4. CASE port' = Append(port, Wake)
  <2>1. port \in Seq(Completions) /\ Wake \in Completions /\ Wake.buffer = 0
    BY DEF Queues, Completions, Wake
  <2>2. Distinct(port)
    BY DEF Holders, BufferHasOneHolder
  <2>3. BuffersOf(port') = BuffersOf(port) /\ Distinct(port')
    <3>1. /\ BuffersOf(Append(port, Wake)) =
                 BuffersOf(port) \cup ({Wake.buffer} \ {0})
          /\ Distinct(Append(port, Wake))
      BY <2>1, <2>2, QueuedBuffer
    <3>2. {Wake.buffer} \ {0} = {}
      BY <2>1
    <3> QED
      BY <1>4, <3>1, <3>2
  <2>4. InUse' = InUse
    BY <1>1, <2>3 DEF InUse, BuffersOf
  <2>5. BufferHasOneHolder'
    BY <1>1, <2>3 DEF Holders, BufferHasOneHolder, BuffersOf, Distinct
  <2> QED
    BY <1>1, <2>4, <2>5 DEF Holders, KeepsInUse
<1> QED
  BY <1>2, <1>3, <1>4

LEMMA StopClosesHolds ==
    ASSUME Holders, StopCloses
    PROVE  Holders' /\ KeepsInUse
<1>1. UNCHANGED <<posted, port, thread, primed, batch>>
  BY DEF StopCloses, CloseSocket, kernelVars, threadVars
<1> QED
  BY <1>1, HoldersUntouched

LEMMA FreeHolds ==
    ASSUME Control, Queues, Holders, Free
    PROVE  Holders' /\ KeepsInUse
<1>1. /\ UNCHANGED <<running, thread, primed, batch>>
      /\ ~running /\ posted' = {} /\ port' = <<>>
  BY DEF Free, threadVars, Control, OwnerPlace, StopSteps
<1>2. BuffersOf(port') = {} /\ Distinct(port')
  BY <1>1, NoBuffers
<1>3. InUse' \subseteq InUse
  BY <1>1, <1>2 DEF InUse, BuffersOf
<1>4. BufferHasOneHolder'
  BY <1>1, <1>2 DEF Holders, BufferHasOneHolder, BuffersOf, Distinct
<1> QED
  BY <1>1, <1>3, <1>4 DEF Holders, KeepsInUse

LEMMA PrimeHolds ==
    ASSUME Control, Queues, Holders, Prime
    PROVE  Holders' /\ KeepsInUse
<1>1. thread = "prime" /\ UNCHANGED <<port, batch>> /\ batch = <<>>
  BY DEF Prime, Holders, WorkingSteps
<1>2. primed \in Nat /\ InUse \subseteq 1 .. primed
  BY <1>1 DEF Holders, Control, ControlType
<1>3. CASE UNCHANGED posted /\ thread' = "exited"
  BY <1>1, <1>3, HoldersUntouched DEF WorkingSteps
<1>4. CASE /\ posted' = posted \cup {primed + 1} /\ primed' = primed + 1
           /\ thread' \in {"prime", "loop"}
  <2>1. primed + 1 \notin InUse
    BY <1>2
  <2>2. InUse' = InUse \cup {primed + 1}
    BY <1>1, <1>4 DEF InUse, BuffersOf
  <2>3. InUse' \subseteq 1 .. primed'
    BY <1>2, <1>4, <2>2
  <2>4. BufferHasOneHolder'
    <3>1. /\ (posted \cup {primed + 1}) \cap BuffersOf(port) = {}
          /\ (posted \cup {primed + 1}) \cap BuffersOf(batch) = {}
      BY <2>1 DEF Holders, BufferHasOneHolder, InUse
    <3> QED
      BY <1>1, <1>4, <3>1
         DEF Holders, BufferHasOneHolder, BuffersOf, Distinct
  <2> QED
    BY <1>1, <2>2, <2>3, <2>4 DEF Holders, KeepsInUse
<1> QED
  BY <1>3, <1>4 DEF Prime, Post, PostFails

LEMMA DequeueHolds ==
    ASSUME Control, Queues, Holders, Dequeue
    PROVE  Holders' /\ KeepsInUse
<1> DEFINE n == IF Len(port) < BatchSize THEN Len(port) ELSE BatchSize
<1>1. /\ thread = "wait" /\ thread' = "woken" /\ UNCHANGED posted
      /\ batch' = SubSeq(port, 1, n)
      /\ port' = SubSeq(port, n + 1, Len(port))
  BY DEF Dequeue
<1>2. port \in Seq(Completions) /\ n \in 0 .. Len(port)
  BY Constants DEF ConstantAssumptions, Queues
<1> HIDE DEF n
<1>3. batch = <<>> /\ BuffersOf(batch) = {} /\ Iocp
  BY <1>1, NoBuffers DEF Holders, WorkingSteps, Control, ThreadPlace
<1>4. Distinct(port) /\ posted \cap BuffersOf(port) = {}
  BY DEF Holders, BufferHasOneHolder
<1>5. /\ BuffersOf(port) = BuffersOf(batch') \cup BuffersOf(port')
      /\ BuffersOf(batch') \cap BuffersOf(port') = {}
      /\ Distinct(batch') /\ Distinct(port')
  BY <1>1, <1>2, <1>4, SplitBuffers
<1>6. BufferHasOneHolder'
  <2>1. /\ posted \cap BuffersOf(port') = {}
        /\ posted \cap BuffersOf(batch') = {}
        /\ BuffersOf(port') \cap BuffersOf(batch') = {}
    BY <1>4, <1>5
  <2> QED
    BY <1>1, <1>5, <2>1 DEF BufferHasOneHolder, BuffersOf, Distinct
<1>7. InUse' = InUse
  <2>1. InUse' = posted' \cup BuffersOf(port') \cup BuffersOf(batch')
    BY DEF InUse, BuffersOf
  <2> QED
    BY <1>1, <1>3, <1>5, <2>1 DEF InUse
<1> QED
  BY <1>1, <1>3, <1>6, <1>7 DEF Holders, KeepsInUse, WorkingSteps

\* A step that ends the work on the first entry of the batch, or leaves the
\* whole of it.
LEMMA BatchShrinks ==
    ASSUME Queues, Holders, batch' = <<>> \/ batch' = Tail(batch),
           batch # <<>>, UNCHANGED <<posted, port>>
    PROVE  /\ BufferHasOneHolder'
           /\ InUse' \subseteq InUse
           /\ batch' = Tail(batch) =>
                  InUse \subseteq InUse' \cup ({Head(batch).buffer} \ {0})
<1>1. batch \in Seq(Completions) /\ Distinct(batch)
  BY DEF Queues, Holders, BufferHasOneHolder
<1>2. /\ BuffersOf(batch) =
             BuffersOf(Tail(batch)) \cup ({Head(batch).buffer} \ {0})
      /\ Distinct(Tail(batch))
  BY <1>1, RestBuffers
<1>3. BuffersOf(batch') \subseteq BuffersOf(batch) /\ Distinct(batch')
  BY <1>2, NoBuffers
<1>4. InUse' = posted \cup BuffersOf(port) \cup BuffersOf(batch')
  BY DEF InUse, BuffersOf
<1>5. BufferHasOneHolder'
  <2>1. /\ posted \cap BuffersOf(port) = {} /\ Distinct(port)
        /\ posted \cap BuffersOf(batch') = {}
        /\ BuffersOf(port) \cap BuffersOf(batch') = {}
    BY <1>3 DEF Holders, BufferHasOneHolder
  <2> QED
    BY <1>3, <2>1 DEF BufferHasOneHolder, BuffersOf, Distinct
<1>6. batch' = Tail(batch) =>
          InUse \subseteq InUse' \cup ({Head(batch).buffer} \ {0})
  BY <1>2, <1>4 DEF InUse
<1> QED
  BY <1>3, <1>4, <1>5, <1>6 DEF InUse

LEMMA WokenHolds ==
    ASSUME Control, Queues, Holders, Woken
    PROVE  Holders' /\ KeepsInUse
<1>1. /\ thread = "woken" /\ UNCHANGED <<posted, port>>
      /\ thread' = IF running THEN "entry" ELSE "exited"
      /\ batch' = IF running THEN batch ELSE <<>>
  BY DEF Woken, kernelVars
<1>2. CASE running \/ batch = <<>>
  BY <1>1, <1>2, HoldersUntouched DEF Holders, KeepsInUse, WorkingSteps,
     BufferHasOneHolder, InUse, BuffersOf, Distinct
<1>3. CASE ~running /\ batch # <<>>
  <2>1. BufferHasOneHolder'
    BY <1>1, <1>3, BatchShrinks
  <2> QED
    BY <1>1, <1>3, <2>1 DEF Holders, KeepsInUse
<1> QED
  BY <1>2, <1>3

LEMMA EntryHolds ==
    ASSUME Control, Queues, Holders, Entry
    PROVE  Holders' /\ KeepsInUse
<1>1. /\ thread = "entry" /\ UNCHANGED <<posted, port>>
      /\ thread' \in {"loop", "entry", "process", "recheck"}
      /\ thread' = "loop" => batch = <<>>
      /\ batch' = batch \/ (batch # <<>> /\ Head(batch) = Wake
                                /\ thread' = "entry" /\ batch' = Tail(batch))
  BY DEF Entry, IsWakeup, Handle
<1>2. CASE batch' = batch
  <2>1. InUse' = InUse /\ BufferHasOneHolder'
    BY <1>1, <1>2 DEF Holders, BufferHasOneHolder, InUse, BuffersOf, Distinct
  <2> QED
    BY <1>1, <1>2, <2>1 DEF Holders, KeepsInUse, WorkingSteps
<1>3. CASE batch' # batch
  <2>1. BufferHasOneHolder' /\
        InUse \subseteq InUse' \cup ({Head(batch).buffer} \ {0})
    BY <1>1, <1>3, BatchShrinks
  <2>2. Head(batch).buffer = 0
    BY <1>1, <1>3 DEF Wake
  <2>3. Iocp
    BY <1>1 DEF Control, ThreadPlace
  <2> QED
    BY <1>1, <1>3, <2>1, <2>2, <2>3 DEF Holders, KeepsInUse, WorkingSteps
<1> QED
  BY <1>2, <1>3

LEMMA RecheckHolds ==
    ASSUME Control, Queues, Holders, Recheck
    PROVE  Holders' /\ KeepsInUse
<1>1. /\ thread = "recheck" /\ UNCHANGED <<posted, port>>
      /\ thread' = IF running THEN "repost" ELSE "entry"
      /\ batch' = IF running THEN batch ELSE Tail(batch)
      /\ Iocp /\ batch # <<>>
  BY DEF Recheck, kernelVars, Control, ThreadPlace, Queues
<1>2. CASE running
  BY <1>1, <1>2, HoldersUntouched DEF WorkingSteps
<1>3. CASE ~running
  <2>1. BufferHasOneHolder'
    BY <1>1, <1>3, BatchShrinks
  <2> QED
    BY <1>1, <1>3, <2>1 DEF Holders, KeepsInUse, WorkingSteps
<1> QED
  BY <1>2, <1>3

LEMMA RepostHolds ==
    ASSUME Control, Queues, Holders, Repost
    PROVE  Holders' /\ KeepsInUse
<1> DEFINE b == Head(batch).buffer
<1>1. /\ thread = "repost" /\ thread' = "entry" /\ UNCHANGED port
      /\ batch' = Tail(batch)
      /\ posted' = posted \cup {b} \/ posted' = posted
      /\ Iocp /\ batch # <<>>
  BY DEF Repost, Post, PostFails, Control, ThreadPlace, Queues
<1>2. batch \in Seq(Completions) /\ Distinct(batch)
  BY DEF Queues, Holders, BufferHasOneHolder
<1>3. b \in Buffers /\ b # 0
  <2>1. Head(batch) \in [buffer : Buffers, filled : BOOLEAN]
    BY <1>1, EntryHasBuffer
  <2> QED
    BY <2>1 DEF Buffers
<1> HIDE DEF b
<1>4. /\ BuffersOf(batch) = BuffersOf(batch') \cup {b}
      /\ Distinct(batch') /\ b \notin BuffersOf(batch')
  <2>1. /\ BuffersOf(batch) = BuffersOf(Tail(batch)) \cup ({b} \ {0})
        /\ Distinct(Tail(batch)) /\ b \notin BuffersOf(Tail(batch))
    BY <1>1, <1>2, RestBuffers DEF b
  <2> QED
    BY <1>1, <1>3, <2>1
<1>5. /\ Distinct(port)
      /\ posted \cap BuffersOf(port) = {}
      /\ posted \cap BuffersOf(batch) = {}
      /\ BuffersOf(port) \cap BuffersOf(batch) = {}
  BY DEF Holders, BufferHasOneHolder
<1>6. BufferHasOneHolder'
  <2>1. /\ posted' \cap BuffersOf(port) = {}
        /\ posted' \cap BuffersOf(batch') = {}
        /\ BuffersOf(port) \cap BuffersOf(batch') = {}
    BY <1>1, <1>4, <1>5
  <2>2. port' = port /\ Distinct(port) /\ Distinct(batch')
    BY <1>1, <1>4, <1>5
  <2> QED
    BY <2>1, <2>2 DEF BufferHasOneHolder, BuffersOf, Distinct
<1>7. InUse \subseteq InUse' \cup {b}
  <2>1. InUse' = posted' \cup BuffersOf(port) \cup BuffersOf(batch')
    BY <1>1 DEF InUse, BuffersOf
  <2> QED
    BY <1>1, <1>4, <2>1 DEF InUse
<1> QED
  BY <1>1, <1>6, <1>7 DEF Holders, KeepsInUse, WorkingSteps, b

LEMMA ReceiveCompletesHolds ==
    ASSUME Control, Queues, Holders, NEW b \in Buffers,
           NEW filled \in BOOLEAN, ReceiveCompletes(b, filled)
    PROVE  Holders' /\ KeepsInUse
<1> DEFINE c == [buffer |-> b, filled |-> filled]
<1>1. /\ b \in posted /\ posted' = posted \ {b}
      /\ port' = Append(port, c)
      /\ UNCHANGED <<thread, primed, batch>>
  BY DEF ReceiveCompletes, threadVars
<1>2. c \in Completions /\ c.buffer = b /\ b # 0
  BY DEF Completions, Buffers
<1> HIDE DEF c
<1>3. /\ port \in Seq(Completions) /\ Distinct(port) /\ Distinct(batch)
      /\ posted \cap BuffersOf(port) = {}
      /\ posted \cap BuffersOf(batch) = {}
      /\ BuffersOf(port) \cap BuffersOf(batch) = {}
  BY DEF Queues, Holders, BufferHasOneHolder
<1>4. BuffersOf(port') = BuffersOf(port) \cup {b} /\ Distinct(port')
  <2>1. b \notin BuffersOf(port)
    BY <1>1, <1>3
  <2>2. /\ BuffersOf(Append(port, c)) = BuffersOf(port) \cup ({b} \ {0})
        /\ Distinct(Append(port, c))
    BY <1>2, <1>3, <2>1, QueuedBuffer
  <2> QED
    BY <1>1, <1>2, <2>2
<1>5. BufferHasOneHolder'
  <2>1. /\ posted' \cap BuffersOf(port') = {}
        /\ posted' \cap BuffersOf(batch) = {}
        /\ BuffersOf(port') \cap BuffersOf(batch) = {}
    BY <1>1, <1>3, <1>4
  <2> QED
    BY <1>1, <1>3, <1>4, <2>1 DEF BufferHasOneHolder, BuffersOf, Distinct
<1>6. InUse' = InUse
  <2>1. InUse' = posted' \cup BuffersOf(port') \cup BuffersOf(batch)
    BY <1>1 DEF InUse, BuffersOf
  <2> QED
    BY <1>1, <1>4, <2>1 DEF InUse
<1> QED
  BY <1>1, <1>5, <1>6 DEF Holders, KeepsInUse

LEMMA CreateThreadHolds ==
    ASSUME Control, Queues, Holders, CreateThread
    PROVE  Holders' /\ KeepsInUse
<1>1. owner \in Building
  BY DEF CreateThread, Building
<1>2. CASE CloseSocket
  <2>1. UNCHANGED batch /\ thread' \in {thread, "prime", "loop"}
    BY DEF CreateThread, CreateThreadFails
  <2>2. CASE UNCHANGED thread
    BY <1>1, <1>2, <2>1, <2>2, FailureHolds
  <2>3. CASE ~UNCHANGED thread
    <3>1. UNCHANGED kernelVars
      BY <2>1, <2>3 DEF CreateThread, CreateThreadFails
    <3> QED
      BY <1>1, <2>1, <2>3, <3>1, NothingInUse
         DEF kernelVars, Holders, KeepsInUse, BufferHasOneHolder, InUse,
             BuffersOf, Distinct, ThreadSteps
  <2> QED
    BY <2>2, <2>3
<1>3. CASE ~CloseSocket
  <2>1. UNCHANGED kernelVars /\ UNCHANGED batch
    BY <1>3 DEF CreateThread, CreateThreadFails
  <2> QED
    BY <1>1, <2>1, NothingInUse
       DEF kernelVars, Holders, KeepsInUse, BufferHasOneHolder, InUse,
           BuffersOf, Distinct, ThreadSteps
<1> QED
  BY <1>2, <1>3

LEMMA HoldersStep ==
    LifeInvariant /\ Holders /\ [Next]_vars => Holders' /\ KeepsInUse
<1> SUFFICES ASSUME Control, Queues, Holders, [Next]_vars
             PROVE  Holders' /\ KeepsInUse
  BY DEF LifeInvariant
<1> USE DEF vars, ownerVars, fields, threadVars, kernelVars
<1>1. CASE StartBegins
  BY <1>1, HoldersUntouched DEF StartBegins
<1>2. CASE InitSockets
  BY <1>2, HoldersUntouched DEF InitSockets
<1>3. CASE OpenSocket
  BY <1>3, HoldersUntouched DEF OpenSocket, OpenSocketFails
<1>4. CASE AllocatePool
  <2>1. owner \in Building /\ UNCHANGED <<thread, primed, batch>>
    BY <1>4 DEF AllocatePool, Building
  <2>2. CASE CloseSocket
    BY <2>1, <2>2, FailureHolds
  <2>3. CASE UNCHANGED kernelVars
    BY <2>1, <2>3, HoldersUntouched
  <2> QED
    BY <1>4, <2>2, <2>3 DEF AllocatePool
<1>5. CASE CreatePort
  <2>1. owner \in Building /\ UNCHANGED <<thread, primed, batch>>
    BY <1>5 DEF CreatePort, Building
  <2>2. CASE CloseSocket
    BY <2>1, <2>2, FailureHolds
  <2>3. CASE UNCHANGED kernelVars
    BY <2>1, <2>3, HoldersUntouched
  <2> QED
    BY <1>5, <2>2, <2>3 DEF CreatePort, CreatePortFails
<1>6. CASE SetRunning
  BY <1>6, HoldersUntouched DEF SetRunning
<1>7. CASE CreateThread
  BY <1>7, CreateThreadHolds
<1>8. CASE MarkThreadStarted
  BY <1>8, HoldersUntouched DEF MarkThreadStarted, SetThreadStarted
<1>9. ASSUME NEW destroys \in BOOLEAN, StopBegins(destroys)
      PROVE  Holders' /\ KeepsInUse
  BY <1>9, HoldersUntouched DEF StopBegins, ClearRunning
<1>10. CASE WakeThread
  BY <1>10, WakeThreadHolds
<1>11. CASE StopCloses
  BY <1>11, StopClosesHolds
<1>12. CASE Join
  BY <1>12, HoldersUntouched DEF Join, JoinThread, WorkingSteps
<1>13. CASE Free
  BY <1>13, FreeHolds
<1>14. CASE Prime
  BY <1>14, PrimeHolds
<1>15. CASE Loop
  BY <1>15, HoldersUntouched DEF Loop, WorkingSteps
<1>16. CASE Dequeue
  BY <1>16, DequeueHolds
<1>17. CASE Woken
  BY <1>17, WokenHolds
<1>18. CASE Entry
  BY <1>18, EntryHolds
<1>19. CASE Processed
  BY <1>19, HoldersUntouched DEF Processed, WorkingSteps
<1>20. CASE Recheck
  BY <1>20, RecheckHolds
<1>21. CASE Repost
  BY <1>21, RepostHolds
<1>22. CASE CallRecvfrom
  BY <1>22, HoldersUntouched DEF CallRecvfrom, WorkingSteps, Control,
                                 ThreadPlace
<1>23. CASE TakeDatagram
  BY <1>23, HoldersUntouched DEF TakeDatagram, WorkingSteps, Control,
                                 ThreadPlace
<1>24. CASE RecvfromFailed
  BY <1>24, HoldersUntouched DEF RecvfromFailed, WorkingSteps, Control,
                                 ThreadPlace
<1>25. ASSUME NEW b \in Buffers, NEW filled \in BOOLEAN,
             ReceiveCompletes(b, filled)
      PROVE  Holders' /\ KeepsInUse
  BY <1>25, ReceiveCompletesHolds
<1>26. CASE DatagramArrives
  BY <1>26, HoldersUntouched DEF DatagramArrives
<1>27. CASE RecvfromInterrupted
  BY <1>27, HoldersUntouched DEF RecvfromInterrupted, WorkingSteps, Control,
                                 ThreadPlace
<1>28. CASE DequeueFails
  BY <1>28, HoldersUntouched DEF DequeueFails, WorkingSteps
<1>29. CASE UNCHANGED vars
  BY <1>29, HoldersUntouched
<1>30. CASE OrphansEnd
  BY <1>30, HoldersUntouched DEF OrphansEnd
<1> QED
  BY <1>1, <1>2, <1>3, <1>4, <1>5, <1>6, <1>7, <1>8, <1>9, <1>10, <1>11,
     <1>12, <1>13, <1>14, <1>15, <1>16, <1>17, <1>18, <1>19, <1>20, <1>21,
     <1>22, <1>23, <1>24, <1>25, <1>26, <1>27, <1>28, <1>29, <1>30
     DEF Next, StartAgain, StartStep, StopStep, ReceiveThread

LEMMA HoldersInit == Init => Holders
BY NoBuffers DEF Init, Holders, BufferHasOneHolder

\* The thread never reads a receiver, a port or a pool that st2110rx_stop or
\* st2110rx_destroy has freed: both join it first.
THEOREM ThreadMemoryLives == Spec => []ThreadOwnsItsMemory
<1>1. LifeInvariant /\ Holders /\ [Next]_vars => Holders'
  BY HoldersStep
<1>2. LifeInvariant /\ Holders => ThreadOwnsItsMemory
  <2> SUFFICES ASSUME Control, Holders, thread \in ThreadSteps
               PROVE  /\ owner # "destroyed"
                      /\ thread \in IocpSteps \/ batch # <<>> =>
                             pool /\ iocp
    BY DEF LifeInvariant, ThreadOwnsItsMemory
  <2>1. thread # "none"
    BY DEF ThreadSteps
  <2>2. owner # "destroyed" /\ (Iocp => pool /\ iocp)
    BY <2>1 DEF Control, ThreadLife
  <2>3. thread \in IocpSteps \/ batch # <<>> => Iocp
    BY DEF Control, ThreadPlace, IocpSteps, Holders
  <2> QED
    BY <2>2, <2>3
<1> QED
  BY <1>1, <1>2, HoldersInit, InvariantHolds, PTL DEF Spec

\* A buffer of the pool is with the kernel, in one completion at the port, or
\* in one entry of the thread's batch, and with one of them only: no datagram
\* is overwritten while the callback reads it, and no buffer is posted twice.
THEOREM OneHolder == Spec => []BufferHasOneHolder
<1>1. LifeInvariant /\ Holders /\ [Next]_vars => Holders'
  BY HoldersStep
<1>2. Holders => BufferHasOneHolder
  BY DEF Holders
<1> QED
  BY <1>1, <1>2, HoldersInit, InvariantHolds, PTL DEF Spec

\* While the receiver runs, no buffer goes out of use but one whose post
\* fails: neither an empty completion, nor the wake-up of an earlier stop, nor
\* the end of a batch loses one.
THEOREM NoBufferIsLost == Spec => BuffersStayInUse
<1>1. LifeInvariant /\ Holders /\ [Next]_vars =>
          Holders' /\ [KeepsInUse]_vars
  BY HoldersStep
<1> QED
  BY <1>1, HoldersInit, InvariantHolds, PTL
     DEF Spec, BuffersStayInUse, KeepsInUse
-----------------------------------------------------------------------------
(* What the stop does to wake the thread.                                  *)

\* If PostQueuedCompletionStatus does not fail, the thread is never left
\* waiting at an empty port once a stop has posted its wake-up, whatever else
\* fails.  (If it fails, only a buffer that is still in use can end the wait.)
THEOREM WakeupArrives ==
    ASSUME "wakeup" \notin Faults
    PROVE  Spec => []WakeupIsQueued
<1>1. Init => WakeupIsQueued
  BY DEF Init, WakeupIsQueued
<1>2. LifeInvariant /\ WakeupIsQueued /\ [Next]_vars => WakeupIsQueued'
  <2> SUFFICES ASSUME Control, Queues, WakeupIsQueued, [Next]_vars,
                      owner' \in {"close", "join"}, thread' = "wait"
               PROVE  port' # <<>>
    BY DEF LifeInvariant, WakeupIsQueued
  <2>1. CASE WakeThread
    <3>1. thread = "wait"
      BY <2>1 DEF WakeThread, threadVars
    <3>2. iocp
      BY <3>1 DEF Control, ThreadPlace, ThreadLife
    <3>3. port \in Seq(Completions) /\ port' = Append(port, Wake)
      BY <2>1, <3>2 DEF WakeThread, PostWakeup, Queues
    <3> QED
      BY <3>3
  <2>2. CASE StopCloses
    <3>1. owner = "close" /\ UNCHANGED <<thread, port>>
      BY <2>2 DEF StopCloses, CloseSocket, kernelVars, threadVars
    <3> QED
      BY <3>1 DEF WakeupIsQueued
  <2>3. CASE ReceiveThread
    <3>1. owner \in {"close", "join"} /\ ~running
      <4>1. UNCHANGED owner
        BY <2>3 DEF ReceiveThread, Prime, Loop, Dequeue, Woken, Entry,
                    Processed, Recheck, Repost, CallRecvfrom, TakeDatagram,
                    RecvfromFailed, ownerVars
      <4> QED
        BY <4>1 DEF Control, OwnerPlace, StopSteps
    <3>2. thread' # "wait"
      BY <2>3, <3>1
         DEF ReceiveThread, Prime, Loop, Dequeue, Woken, Entry, Processed,
             Recheck, Repost, CallRecvfrom, TakeDatagram, RecvfromFailed,
             IsWakeup, Handle
    <3> QED
      BY <3>2
  <2>4. ASSUME NEW b \in Buffers, NEW filled \in BOOLEAN,
               ReceiveCompletes(b, filled)
        PROVE  port' # <<>>
    <3>1. /\ port \in Seq(Completions)
          /\ port' = Append(port, [buffer |-> b, filled |-> filled])
      BY <2>4 DEF ReceiveCompletes, Queues
    <3> QED
      BY <3>1
  <2>5. CASE /\ owner = owner' /\ thread = thread' /\ port = port'
    BY <2>5 DEF WakeupIsQueued
  <2>6. CASE StartBegins \/ StartStep \/ Join \/ Free
    BY <2>6 DEF StartBegins, StartStep, InitSockets, OpenSocket,
                OpenSocketFails, AllocatePool, CreatePort, CreatePortFails,
                SetRunning, CreateThread, CreateThreadFails,
                MarkThreadStarted, Join, Free, ownerVars
  <2>7. ASSUME NEW destroys \in BOOLEAN, StopBegins(destroys)
        PROVE  FALSE
    BY <2>7 DEF StopBegins
  <2>8. OrphansEnd \/ DatagramArrives \/ RecvfromInterrupted
            \/ DequeueFails \/ StartAgain \/ UNCHANGED vars =>
        \/ owner = owner' /\ thread = thread' /\ port = port'
        \/ thread' # "wait"
    BY DEF OrphansEnd, DatagramArrives, RecvfromInterrupted, DequeueFails,
           StartAgain, vars, ownerVars, threadVars, kernelVars
  <2> QED
    BY <2>1, <2>2, <2>3, <2>4, <2>5, <2>6, <2>7, <2>8 DEF Next, StopStep
<1> QED
  BY <1>1, <1>2, InvariantHolds, PTL DEF Spec
=============================================================================
