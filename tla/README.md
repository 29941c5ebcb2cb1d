# obs-st2110: specifications

TLA+ specifications of the receiver library `libst2110rx`, of the two programs
that use it, the OBS source and the command-line receiver, and of the test
sender beside it. The modules are translated from the C sources. TLC checks
them on small instances. TLAPS proves every safety property that a passing run
checks, and both refinements, for every value of the constants that section 4
names; liveness is left to TLC. `PROJECT.json` maps every definition to the
lines it models and lists the hazards of the code with the properties about
them.

## 1. The system

An ST 2110-20 sender multicasts uncompressed video as RTP packets in the
RFC 4175 layout. The library joins the group, puts the packets of a frame
together and hands each frame to a callback.

| component | source | state | operations |
|---|---|---|---|
| receiver lifecycle | `rx_core.c` | `running`, `thread_started`, `sockets_initialized`, socket, buffer pool, completion port | `st2110rx_start`, `_stop`, `_destroy`; the receive thread |
| creation and frame callback | `rx_core.c`, `rx_rfc4175.c` | the configuration, five blocks of memory | `st2110rx_create`, `rx_assembler_init`, `rx_internal_frame_cb` |
| frame assembler | `rx_rfc4175.c` | two frame buffers, last sequence number and timestamp, `frame_incomplete`, `frame_delivered`, frame number | `rx_assembler_process_packet`, `deliver_frame`, `rx_assembler_init` and `_free` |
| packet parser | `rx_rfc4175.c` | read position, up to eight segment headers | `parse_rtp_header`, the header loop, the payload loop |
| statistics | `rx_stats.c` | four atomic counters; jitter and mean gap under a seqlock; the previous packet | `rx_stats_packet`, `_lost`, `_frame`, `_snapshot` |
| socket set-up | `rx_socket.c` | none | `rx_udp_create`, `rx_udp_destroy` |
| pixel conversion | `rx_convert.c` | none | `rx_convert_be10_to_uyvy` |
| platform shim | `rx_platform.h` | none | atomics, threads, sleeping |
| OBS source | `obs-st2110-source.c` | the receiver, cached dimensions, counters | create, update, destroy, frame callback |
| module registration | `obs-st2110-plugin.c` | none | registers the source with OBS |
| command-line receiver | `st2110rx-cli.c` | `frames_seen`, `stop_requested`, the output file | main loop, frame callback, signal handler |
| test sender | `st2110tx-test.c` | sequence number, timestamp, place in the picture | cuts colour bars into packets and sends them |
| logging | `rx_core.c`, `rx_socket.c` | none | formats messages |

**How they interact.** The owner of a receiver (an OBS thread, or the CLI's
main thread) calls start, stop and destroy. Start creates one receive thread,
which runs until stop joins it. The thread calls the packet handler for every
datagram; the handler calls the assembler, the assembler calls
`rx_internal_frame_cb`, and that calls the owner's frame callback, all on the
receive thread. Owner and thread share the atomic `running`, and, without
synchronization other than thread creation and join, the socket, the pool and
the port. The statistics are shared with any thread that asks for a snapshot.

**What is hard.** Packets are lost, late, duplicated and cut off, and the only
evidence is a 16-bit number and a marker bit that may itself be lost. Stop
closes the socket under a thread that may be about to use it, or be blocked
in it. A start has up to six calls that may fail, each of which must undo
exactly what came before it, differently on the two platforms. The kernel
writes to a buffer pool that stop frees, and a receive that is cancelled ends
in its own time. A snapshot is taken without a lock.
Both frame callbacks use state that another thread is about to tear down, the
receiver itself included, and nothing but the join in stop holds that back.

**What makes each part correct.**

- *Assembler*: a frame that is not flagged incomplete shows pixels of one sent
  frame and has no hole; a flag has a cause; losses are counted once; no frame
  is shown twice, out of order or not at all.
- *Parser*: it never leaves the datagram or the frame buffer, and it copies
  the segments from where RFC 4175 puts them.
- *Statistics*: the pair of averages is not torn; the counters are consistent
  with each other; a snapshot returns.
- *Lifecycle*: nothing is leaked, freed while the thread or the kernel uses it
  or shared between the two; a stop returns; no callback comes before a start
  or after a stop. Two of these have exceptions in the code, which section 3
  shows.
- *Creation*: a creation that fails frees exactly what it allocated, and no
  receiver comes into being whose strides have wrapped.
- *OBS source*: what a callback uses exists while it runs; a frame is shown
  under the size OBS is told; failing settings leave a source that the next
  update can use.
- *Command-line receiver*: it ends when the limit is reached and not before,
  its last statistics count every frame, and its file outlives its callback.
- *Test sender and conversion*: packets are numbered and cut as the receiver
  assumes; unpacking gives back what was packed.

## 2. The modules

| module | what it is |
|---|---|
| `RtpVideo` | what a conforming sender puts into packets (external) |
| `RtpLink` | a UDP path that loses, delays and duplicates (external) |
| `FrameAssembler` | `rx_frame_assembler_t` and `rx_assembler_process_packet`, no scheduler of its own |
| `FrameReception` | `rx_process_packet` over the link: assembler and counters together |
| `MCFrameReception` | its constants for TLC |
| `FrameReceptionProofs` | its theorems |
| `InOrderReceptionProofs` | those about a link that does not reorder |
| `PacketWalk` | the parser of one datagram, byte position by byte position |
| `MCPacketWalk`, `PacketWalkProofs` | its constants, its theorems |
| `ConsistentStats` | abstract: what a snapshot promises about the pair |
| `StatsSeqlock` | `rx_stats.c`, one step per access to shared memory |
| `StatsSeqlockProofs` | its theorems |
| `ReceiverService` | abstract: when the owner may be called back |
| `ReceiverLifecycle` | start, stop, destroy and the receive thread, on Windows (`Iocp`) or on Linux |
| `ReceiverBuilds` | the same for a process that has either build of the library, to check both in one run |
| `ReceiverLifecycleProofs` | its theorems |
| `ReceiverLibrary` | the library as a program sees it: creation with its failures, the calls, frames and counters |
| `ObsSource`, `ReceiverCli` | the two programs over `ReceiverLibrary` |
| `ReceiverPrograms`, `MCReceiverPrograms` | a process that is one of them, with fairness; its constants |
| `ObsSourceProofs`, `ReceiverCliProofs` | their theorems |
| `PictureLayout` | where a segment lies in the fill buffer |
| `PixelGroups` | packing, unpacking and conversion of 10-bit pixel groups |
| `TestSender` | the sender of the repository, packet by packet |
| `TestSenderProofs` | theorems about both |

`FrameReception` composes `FrameAssembler`, `RtpLink` and `RtpVideo`.
`ReceiverLifecycle` implements `ReceiverService`, and `ReceiverLibrary` uses
only `ReceiverService`, so what holds of the programs holds over either
platform's receiver as far as that refinement goes. `StatsSeqlock` implements
`ConsistentStats`. `TestSender` and `PacketWalk` share `PictureLayout`.

### Frame reception

A packet is named by its position in the stream; the sequence number,
timestamp, marker bit and the one slot of the picture it fills are derived
from it. A slot of a buffer holds the timestamp of the frame whose pixels were
copied there, or `Blank` where `memset` has cleared it. So a picture is whole
if all its slots hold one timestamp, and mixed or holed otherwise.

`ProcessPacket` has one disjunct per way through
`rx_assembler_process_packet`: the header cannot be read (`IgnorePacket`); the
first packet of a new timestamp delivers an undelivered frame
(`FlushPrevious`); the packet only adds (`AddToFrame`); the marker delivers
(`CompleteFrame`). `Gap` is the 16-bit difference of the code. `garbled`
stands for a packet that passes the sequence check and then has no segment
copied. `last`, `arrived`, `shown` and `flagged` are history variables that
only properties read.

A stop followed by a start leaves the assembler as it is, so to the assembler
it is one more burst of losses, which the link already has.

### Packet walk

The fields of the headers are chosen when they are read, from small sets.
`examined` records how far the parser has looked, `copies` the copies it has
made; `StaysInBounds` and `CopiesFollowTheLayout` are about these.
`FrameAssembler` uses only the outcome: the packet is readable or not, and
which slots it fills.

### Statistics

The counters wrap at `CounterMod` (2^64 in the code). `jitter` and `gap` hold
the number of the update that wrote them, so a pair is torn if they differ;
the arithmetic of the averages and the clock are left out. `LoadsInOrder` is
TRUE where the two atomic loads of `seq` keep the plain loads between them:
`Interlocked*` on Windows, and x86-64. It is FALSE where the second, an
acquire load, may be performed before them.

### Lifecycle

`owner` is the step the owner's call has reached and `thread` that of the
receive thread. The steps are cut where the other thread can see the
difference: start's calls before the thread exists, with the branch that
undoes them, are one step each; in stop, clearing `running`, posting the
wake-up, closing the socket, joining and freeing are separate. In the thread,
every load of `running` is a step of its own, apart from the post or the
processing that follows it.

On Windows `posted` is the set of buffers the kernel may write to, `port` the
queue of completions and `batch` the entries the thread has dequeued and not
handled. `CloseSocket` only begins to cancel what is posted: each such receive
ends in a step of its own, before or after the steps of the stop
(`CancelReceive`, or still with a datagram, `ReceiveCompletes`). The thread
leaves its loop at the first look at `running` (`rx_core.c:218`), and `Free`
frees the pool (`rx_core.c:437`) whether or not anything is posted; if so,
`orphaned` remembers that the kernel may write to memory that was freed, until
the last of those receives has ended (`OrphansEnd`). Their completions go with
the port. On Linux `queued` counts the datagrams in the socket, and a thread
that is `blocked` in recvfrom keeps the socket alive: `close()` does not wake
it.

`Faults` names the calls to the system that may fail: those of a start, a
first post, a repost, the wait for completions, and the posting of a stop's
wake-up, whose result the code ignores (`rx_core.c:415`). Leaving the group,
closing and joining do not fail.

Modelled as the code behaves, though its comments suggest otherwise: a repost
that fails is ignored (`rx_core.c:238`; the comment at `rx_core.c:354` has all
buffers "posted at all times"), and a first post that fails ends the thread
with `running` still 1 (`rx_core.c:205`). `BuffersStayInUse` and
`RunningMeansReceiving` name these two exceptions and allow no others.

`ReceiverService` has the state of the service, whether a callback is running,
and `open`: whether callbacks may begin. Start opens; the join in stop, seen
from outside, is the step `ThreadEnds`, and only after it may stop and destroy
return.

### The programs

`ReceiverLibrary` adds to the service what the programs can tell apart: the
blocks that are allocated, the configuration, the frame in the callback and
the two frame counters. `CreateFails` has one case per failing branch of
`st2110rx_create`, with what was allocated before it and what it frees;
strides and sizes are computed modulo `UintMod`. `FrameOf` is the choice
`rx_internal_frame_cb` makes between the conversion buffer and the assembler's
own. `step` is where the receive thread is: out of the callback, at one of the
callback's steps, or at the counting that follows it (`rx_core.c:146-150`).

In `ObsSource`, `caller` is the step of the OBS thread within create, update
or destroy, with the receiver's teardown and set-up cut wherever the callback
can see the difference; `rx`, `width` and `height` are the fields of the
source. The two readings of `ctx->rx` in the callback are steps of their own.
In `ReceiverCli`, `main` is the step of main; `Interrupt` is the signal
handler, possible at any moment while it is installed. OBS makes one call for
a source at a time, and main is one thread, so neither program calls the
library twice at once.

### Test sender and conversion

`TestSender` is main of `st2110tx-test.c` with one step per packet made, sent,
left out or failed. `picture` is a history variable: what a receiver would
have if it put each segment where the sender's header says. `SegmentRead` is
what the library reads from those bytes instead. Bytes and samples are
integers, so packing is arithmetic and not a relabelling.

## 3. The runs

| run | question | result |
|---|---|---|
| `lossy_in_order` | losses, garbled packets and strays without reordering: what the flag, the counters and the order of deliveries promise | holds |
| `any_order` | losses, late packets and duplicates: is an unflagged frame still a tail of one sent frame | holds |
| `burst_over_boundary` | is a frame that is not flagged whole | violated |
| `packet_walk` | bounds, layout and end of the parser | holds |
| `seqlock` | pair, counters and refinement of `ConsistentStats` in all interleavings; does a snapshot return even if the writer stops in mid-update | holds |
| `seqlock_relaxed_loads` | is the pair whole where plain loads may pass the second load of `seq` | violated |
| `lifecycle` | on either platform, all calls failing at will: leaks, use after free by the thread, sharing of buffers, termination of stop but for a thread that waits for what may never come, refinement of `ReceiverService` | holds |
| `pool_freed` | on Windows, has the kernel finished with the pool when a stop frees it | violated |
| `linux_stop` | does a stop return on Linux without that exception | violated |
| `test_sender` | numbering, cut and conversion of the test sender's frames | holds |
| `sender_and_parser` | does the library read the segment headers the test sender writes | violated |
| `programs` | both programs beside their receive thread, every set-up step failing at will | holds |

**Bounds.** Frames are of three packets: a first, a middle and a last one, so
that losing each kind is a case of its own. Sequence numbers are modulo 16 and
start at 12, so they wrap inside the second frame; a burst passes over up to
eight packets, more than two frames. `any_order` displaces packets by four
positions either way, over a frame boundary and more than a frame; seven
datagrams are enough to receive two frames with a late packet in either. The
parser's picture is two lines of two pgroups, with lines and offsets inside
and outside of it, room for three headers so that a fourth is one too many,
and lengths that end inside every kind of header and payload. The seqlock has
three packets (two updates: enough for an update during each half of an
attempt) and two attempts, after which a snapshot gives up as the code does
after its own limit. In `lifecycle`
the Windows pool has three buffers and batches of two: a batch that fills, one
that does not, and a buffer left to the kernel; the Linux socket queues up to
three datagrams, and the first step chooses the build. (Its `Iocp = TRUE` only
gives the constant of the extended module a value: the actions are those of
the instances `Windows` and `Linux`, and the properties do not ask which build
it is.) `pool_freed` has no failing calls, and `linux_stop` none during a stop.
The test sender's picture is two lines of twenty pixels, three packets to a
line of which the last is shorter, sent three times: sequence numbers modulo 8
wrap in the second frame and timestamps modulo 16 in the third. In `programs`
pictures are limited to 4 by 2 and 32-bit products wrap at 32, so that there
are sizes at the limit, above it, and above it with strides that wrap to 0 or
to a small value; three frames per receiver allow a report on the second one
and limits of one and of three. That a receiver has at most three frames also
means that no callback can be followed by another for ever; that a stop is
not held off by frames that never end is what `lifecycle` checks.

**Fairness.** `ReceiverLifecycle` assumes that a call of the owner, once made,
goes on, that the operating system runs the receive thread when it can run, and
that a receive that is being cancelled ends (at some time: the stop may be long
over); not that calls are made, that datagrams come, or that a wait fails or is
interrupted. The frame callback is assumed to return: `Processed` is a fair
step. `ReceiverPrograms` assumes the same of both threads of either program,
the return of the library's calls included: a start, and a stop that
`ReceiverLifecycle` shows to return but for the exceptions of
`StopReturnsOrThreadWaits`. On Windows that takes the failure of every repost
and of the wake-up. On Linux it is what `linux_stop` shows, so
`CallsReturn` and `ReachesTheCount` hold there only if one more datagram comes.
main's poll sleeps for 100 ms and so looks again and again. `StatsSeqlock` assumes only that a snapshot that has been called goes
on; the receive thread may stop anywhere. `PacketWalk` is sequential code, and
any enabled step is taken.

**What the violated runs show.**

- `burst_over_boundary`: the gap in front of the first packet of a frame is
  charged to the frame that is flushed, and `deliver_frame` then clears
  `frame_incomplete`. A frame whose first packets were lost together with the
  marker before them is delivered as complete, while
  `obs-st2110-source.c:84-85` says the flag is set if any packet was dropped.
  The weaker `CompleteFrameIsATail` is what the flag does promise.
- `seqlock_relaxed_loads`: the plain loads of the pair are not ordered before
  the second load of `seq`.
- `pool_freed`: a receiver that runs is stopped while a receive is posted. The
  socket is closed, the thread sees that `running` is 0 and ends, and the pool
  is freed before the cancelled receive has ended, so that the kernel may still
  write to it. No call need fail. `rx_core.c:420-422` takes the close to have
  cancelled the receives and leaves their completions to a loop that is no
  longer there. What does hold is `PoolIsFreedLast`: the thread has ended and
  the socket is closed, so no receive is posted any more and those that are
  left are being cancelled.
- `linux_stop`: closing the socket does not end a blocked recvfrom. Since the
  group has been left too, a stop waits for a datagram that may never come,
  and the update of the OBS source with it (`obs-st2110-source.c:219`).
- `sender_and_parser`: the test sender writes no extended sequence number in
  front of its segment header, and sets the continuation bit although no
  header follows. The parser skips two bytes, so it takes the line number for
  the length.

Three more things the models show are weaker than one might expect. A packet
that the parser drops for its segments has already passed the sequence check,
and nothing flags its frame: `UnflaggedLacksAtMostItsFront` counts such a
packet as one that came. On Windows a stop may wait for ever as well: where
every repost has failed and the wake-up then fails too, nothing ends the
thread's wait for a completion. `StopReturnsOrThreadWaits` allows this case
(`ThreadWaits`) and no other on Windows. And the
command-line receiver stops up to one poll after its limit, so `--count 60` may print more than the `frames=60` that `BUILDING.md:90` expects;
`StopsForAReason` demands at least the limit.

## 4. The proofs

All theorems are about the unchanged specifications and hold for every value
of the constants the named assumptions allow. Where a property is not
inductive, the invariant that is was first checked by TLC on the runs of its
module.

`FrameReceptionProofs`:

- `Typing`, `StatsMatch`: for every link and condition of the packets.
- `PictureInvariance`, `UnflaggedFramesAreTails`: `CompleteFrameIsATail` is
  not inductive, since nothing in it speaks of the frame being filled.
  `PictureInvariant` adds that the assembler remembers the packet it read
  last, within reach of the furthest one, and that while no gap is flagged the
  fill buffer is a run of consecutive packets ending there. The key lemma,
  `NoGapIsSuccessor`, is that inside the window of the link (`MaxSkip + Reach <
  SeqMod`) a 16-bit gap of zero means the very next packet. Assumes that no
  packet is garbled.
- `DeliveriesInOrder`: assumes `Reach = 0`, no reordering. The invariant
  `DeliveryOrder` says when `frame_delivered` is set and which frame the last
  delivery was.

`InOrderReceptionProofs`, for `Reach = 0`, garbled packets and strays
included. With reordering TLC finds each of the four false: a late packet is
counted as a loss of nearly the whole range of numbers, raises the flag of a
frame that is whole, or begins an old frame anew. Without it, `ReadInOrder` says that the last packet read is the
furthest one, so that the gap of the code is the distance to the next
(`GapIsDistance`, from the bound on a burst), and lemma `Reading` reduces
`rx_process_packet` to three cases about positions in the stream: it flushes
the frame before, extends a frame or completes one.

- `FramesDoNotVanish`: needs `MarkersAreShown`, that `frame_delivered` is set
  only when the frame of the last packet has been handed over.
- `FlaggedFramesLackPackets`: `FlagsHaveCauses` says the same of the frame
  being filled, and that the missing packet lies behind the last one read, so
  that it stays missing.
- `UnflaggedFramesLackTheirFront`: `FrontsAtMost`, again for the frame being
  filled as well. Here the flaw that `burst_over_boundary` shows is the case
  that must be allowed: a flush clears the flag under a frame whose front is
  missing.
- `LossesAreCounted`: the losses up to a packet are those up to the packet
  before it and those in between (`LossesUpTo`).

`PacketWalkProofs`:

- `ParserStaysInBounds`, `ParserTyping`: from an invariant that ties the read
  position to what has been examined and bounds it while headers are read.
- `CopiesTheLayout`: the reference, `RfcStart`, adds the lengths of the
  segments up; the parser moves on from one to the next and may stop early.
  `LayoutInvariant` says that the walk stands where the reference starts the
  segment, and has made the copies of the usable segments before it. Where it
  stops because a segment runs over the end of the datagram, every later one
  does too, because starts only grow (`StartsGrow`). That the recursive
  function `RfcStart` has its defining equation is shown for lists of every
  length by taking the least length for which it fails (`UpTo`), since the
  library's induction theorems cannot be used here.

`ReceiverLifecycleProofs`, for both platforms, every number of buffers, every
batch and queue size and every set of failing calls:

- the inductive invariant `LifeInvariant` says what the owner has built or
  released at each of its steps (`OwnerPlace`), that the thread and what it
  needs exist from its creation to the join (`ThreadLife`), what is held on
  behalf of what (`Holdings`), where the thread can be (`ThreadPlace`), and
  that the port and the batch are queues of completions (`Queues`).
- `LifecycleTyping`, `NothingIsLeftBehind` and `RunningReceives` follow from
  it.
- `PoolGoesLast`: the action property `PoolIsFreedLast`, over the steps that
  free the pool: two failures of a start, before there is a thread, and `Free`,
  where the invariant says that the thread was joined and the socket closed.
- `WakeupArrives`: if posting the wake-up cannot fail, a thread that waits
  while a stop closes or joins has something to dequeue (`WakeupIsQueued`). The
  wake-up stays queued until the thread takes it, and the thread does not come
  back to wait once `running` is 0. This is the safety half of the return of a
  stop on Windows.
- `OneHolder`: beside `LifeInvariant`, the invariant `Holders` adds that the
  thread has a batch only while it works on it, and that the buffers its first
  loop has yet to post are in nobody's hands. Dequeuing is the step that
  matters: a queue without duplicates, cut in two, gives two parts that share
  nothing. `ThreadMemoryLives` uses it too: outside the steps at which the
  Windows loop uses the port, the thread has a batch only while it works on it.
- `NoBufferIsLost`: the action property `BuffersStayInUse`, from the same
  invariant, step by step.
- `ReceiverKeepsPromise`: the receiver implements `ReceiverService`. Every step
  maps to one of the service or to a stutter; the invariant is needed where
  the packet handler begins, to show that the owner is then neither before a
  start nor past the join, and where a stop returns, to show that the thread
  has ended.

`ObsSourceProofs`, for every size limit, width of the products, number of
frames and set of settings (`LimitsAssumption`: four times the largest width
does not wrap):

- the inductive invariant `SourceInvariant` says what receiver and memory
  there are at each step of the OBS thread, that the receive thread is in the
  callback only between a start and a join, and that the cached size is that
  of the receiver while there is one. None of the three properties is
  inductive alone: that the callback finds its receiver rests on where the
  OBS thread can then be.
- `CallbackKeepsItsSource`, `ShownFramesAreSound`, `SourceLeaksNothing`.

`ReceiverCliProofs`: the inductive invariant `CliInvariant` ties main's step
to the service, the memory and the output file, a request to stop to its
reason, and the library's counters to the callback's, which lead by one while
a callback runs. `StatsFollow`, `OutputOutlives` and `EndsForAReason` follow.
In both modules the receiver is `ReceiverService`.

`StatsSeqlockProofs`: `SeqlockTyping` needs no assumption; counters may wrap
and loads be relaxed. The rest is under `LoadsInOrder` and while no counter
wraps around (`MaxPackets < CounterMod`; in the code 2^64):

- the inductive invariant `SeqlockInvariant`. Its first half is the receive
  thread's alone: `seq` is twice the number of updates, and while it is odd,
  first `jitter` and then `gap` is one ahead; each packet is counted before
  its update and its frame. Its second half says what a snapshot knows of each
  value it has loaded (`Loaded`): not older than the call, not beyond the
  update under way, and, if `seq` is still what it was when the attempt began,
  and even, the value of that update. The receive thread disturbs none of it,
  since it only makes `seq` and the packets grow (`Forward`).
- `FramesNeedPackets`, `PairIsWhole`, and `SnapshotsKeepPromise`:
  `StatsSeqlock` implements `ConsistentStats`. `seqlock_relaxed_loads` shows
  that `PairIsWhole` needs its assumption on the loads.

`TestSenderProofs`:

- `PackedIntoBytes` and `UnpackInvertsPack`, for all 2^40 pixel groups, by
  quotient and remainder.
- `SenderInvariant`, for every picture, size of a datagram and number of
  frames: the sender is at a whole number of segments in its line (`InLine`),
  it has made so many packets as this place says, and `picture` holds exactly
  the bytes of the frame in front of the place, but for what was left out
  (`PictureUpTo`). All its sizes are symbols to the provers, so the arithmetic
  is in lemmas: what a quotient and a remainder are (`Quotient`), that a sum
  may be reduced at once or term by term (`SumReduced`), how many packets a
  line needs (`LineNeeds`), where the next segment ends (`NextSegment`), and
  that a packet's number gives back its frame and its place (`Numbering`).
- `SenderTyping`, `SenderKeepsTheContract` and `FrameArrivesWhole` follow
  from it. The second ties the two halves of the project together: what
  `RtpVideo` takes a sender to do, and `FrameReceptionProofs` rest on, this
  sender does, for its headers at least (`sender_and_parser` shows what it
  does not do).
- `BarsAreShown`: from a whole picture, `UnpackInvertsPack` and the places to
  which the loops of the conversion write.

Only model-checked: liveness (`StopReturnsOrThreadWaits`,
`SnapshotReturns`, `WalkEnds`, `CallsReturn`, `ReachesTheCount`), which needs
fairness and ENABLED, out of reach of this prover. Neither checked nor
proved: `FramesHavePackets` and `KeepsPromise` where a counter wraps around,
and the properties of frame reception outside the links named above.

## 5. Not modelled

- Socket options, address parsing, thread priorities, logging, the build and
  the registration of the plugin: no state the other parts depend on.
- The syntax of the options of both tools, the property pages and defaults of
  the source, the text of reports, the pacing of the test sender.
- The arithmetic of jitter and mean gap on doubles, and with it the unsigned
  difference of two timestamps at `rx_stats.c:38`.
- The contents of a frame in the programs: what a frame shows is the matter of
  `FrameReception` and `PixelGroups`.
- The strings of the configuration, which the library does not copy
  (`rx_core.c:297`): both programs start a receiver once, while the strings
  live.
- The reuse of a file number between the close and a recvfrom on it, and a stop
  called from the frame callback: the owner is another thread, and the process
  has no other files.

## 6. Plan

Done: frame reception, the parser, the statistics, the lifecycle with its
refinement, creation and the two programs, conversion and the test sender; a
proof of every safety property that a passing run checks. Left, by what it
would say about the code:

1. `PictureInvariance` with garbled packets. An unflagged frame may then have
   holes: the theorem would have to say that a tail lacks at most the slots of
   its garbled packets.
2. What reordering costs: a bound on the losses counted per late packet in
   place of `LossAccounting`, which is exact only in order.
3. A sequential model of two starts and stops over one assembler, so that the
   stream after a restart need not be taken for a burst of losses.
