---------------------------- MODULE StatsSeqlock ----------------------------
(***************************************************************************)
(* rx_stats.c: the receive thread adds to four atomic counters and updates *)
(* the pair of jitter and mean gap under a seqlock; another thread takes   *)
(* snapshots (st2110rx_get_stats).  Each access to shared memory is a step.*)
(*                                                                         *)
(* The arithmetic of the two averages is left out: `jitter' and `gap' hold *)
(* the number of the update that wrote them, and a pair is torn if the two *)
(* numbers differ.                                                         *)
(***************************************************************************)
EXTENDS Integers, Sequences

CONSTANTS CounterMod,   \* the counters wrap here: 2^64
          MaxPackets,   \* bound on packets_received
          MaxAttempts,  \* attempts before a snapshot gives up: 1000
          LoadsInOrder  \* TRUE where the two atomic loads of `seq' keep the
                        \* plain loads between them: full barriers on Windows
                        \* (Interlocked*), x86-64.  FALSE where the second,
                        \* an acquire load, may be performed before them.

ASSUME CounterModAssumption == CounterMod \in Nat \ {0}
ASSUME MaxPacketsAssumption == MaxPackets \in Nat
ASSUME MaxAttemptsAssumption == MaxAttempts \in Nat
ASSUME LoadsInOrderAssumption == LoadsInOrder \in BOOLEAN

VARIABLES frames, dropped, packets, lost,  \* the atomic counters
          seq, jitter, gap,                \* the seqlock and its pair
          hasPrev,                         \* has_prev
          writer,                          \* next step of the receive thread
          reader,                          \* next step of the snapshot
          out,                             \* *out of the snapshot
          seq1, seq2, attempts,            \* its local variables
          outstanding,                     \* loads of this attempt not done
          since      \* history: version of the pair when the call began

counters == <<frames, dropped, packets, lost>>
writerVars == <<counters, seq, jitter, gap, hasPrev, writer>>
readerVars == <<reader, out, seq1, seq2, attempts, outstanding, since>>
vars == <<writerVars, readerVars>>

Counters == 0 .. CounterMod - 1

Fields == {"frames", "dropped", "packets", "lost", "jitter", "gap"}

Snapshots == [Fields -> Counters]

TypeOK ==
    /\ frames \in Counters /\ dropped \in Counters
    /\ packets \in Counters /\ lost \in Counters
    /\ seq \in 0 .. 2 * CounterMod - 1
    /\ jitter \in Counters /\ gap \in Counters
    /\ hasPrev \in BOOLEAN
    /\ writer \in {"count", "odd", "jitter", "gap", "even", "lost", "frame",
                   "drop"}
    /\ reader \in {"call", "counters", "seq1", "pair", "decide"}
    /\ out \in Snapshots
    /\ seq1 \in 0 .. 2 * CounterMod - 1
    /\ seq2 \in 0 .. 2 * CounterMod - 1
    /\ attempts \in 0 .. MaxAttempts + 1
    /\ outstanding \in Seq(Fields \cup {"seq2"})
    /\ since \in Counters

NoSnapshot == [f \in Fields |-> 0]

Init ==
    /\ frames = 0 /\ dropped = 0 /\ packets = 0 /\ lost = 0
    /\ seq = 0 /\ jitter = 0 /\ gap = 0
    /\ hasPrev = FALSE
    /\ writer = "count"
    /\ reader = "call"
    /\ out = NoSnapshot
    /\ seq1 = 0 /\ seq2 = 0
    /\ attempts = 0
    /\ outstanding = <<>>
    /\ since = 0

Plus(counter, n) == (counter + n) % CounterMod

\* Version of the pair that is current: the number of updates completed.
Version == seq \div 2
-----------------------------------------------------------------------------
(* The receive thread: rx_stats_packet, then what rx_process_packet adds.  *)

CountPacket ==
    /\ writer = "count"
    /\ packets < MaxPackets
    /\ packets' = Plus(packets, 1)
    /\ writer' = IF hasPrev THEN "odd" ELSE "lost"
    /\ hasPrev' = TRUE
    /\ UNCHANGED <<frames, dropped, lost, seq, jitter, gap, readerVars>>

BumpSeq(from, to) ==
    /\ writer = from
    /\ seq' = (seq + 1) % (2 * CounterMod)
    /\ writer' = to
    /\ UNCHANGED <<counters, jitter, gap, hasPrev, readerVars>>

WriteJitter ==
    /\ writer = "jitter"
    /\ jitter' = Plus(jitter, 1)
    /\ writer' = "gap"
    /\ UNCHANGED <<counters, seq, gap, hasPrev, readerVars>>

WriteGap ==
    /\ writer = "gap"
    /\ gap' = Plus(gap, 1)
    /\ writer' = "even"
    /\ UNCHANGED <<counters, seq, jitter, hasPrev, readerVars>>

\* The assembler has found a gap or not, and delivered a frame or not.
AddLost ==
    /\ writer = "lost"
    /\ \E n \in {0, 1} : lost' = Plus(lost, n)
    /\ writer' \in {"count", "frame"}
    /\ UNCHANGED <<frames, dropped, packets, seq, jitter, gap, hasPrev,
                   readerVars>>

AddFrame ==
    /\ writer = "frame"
    /\ frames' = Plus(frames, 1)
    /\ writer' \in {"count", "drop"}
    /\ UNCHANGED <<dropped, packets, lost, seq, jitter, gap, hasPrev,
                   readerVars>>

AddDrop ==
    /\ writer = "drop"
    /\ dropped' = Plus(dropped, 1)
    /\ writer' = "count"
    /\ UNCHANGED <<frames, packets, lost, seq, jitter, gap, hasPrev,
                   readerVars>>

ReceiveThread ==
    \/ CountPacket
    \/ BumpSeq("odd", "jitter")
    \/ WriteJitter
    \/ WriteGap
    \/ BumpSeq("even", "lost")
    \/ AddLost
    \/ AddFrame
    \/ AddDrop
-----------------------------------------------------------------------------
(* rx_stats_snapshot.                                                      *)

\* Mutant: the packets are loaded before the frames they complete.
CounterLoads_PacketsFirst == <<"packets", "lost", "frames", "dropped">>

CounterLoads == <<"frames", "dropped", "packets", "lost">>

PairLoads == <<"jitter", "gap", "seq2">>

Shared(field) ==
    CASE field = "frames"  -> frames
      [] field = "dropped" -> dropped
      [] field = "packets" -> packets
      [] field = "lost"    -> lost
      [] field = "jitter"  -> jitter
      [] field = "gap"     -> gap

StartSnapshot ==
    /\ reader = "call"
    /\ reader' = "counters"
    /\ out' = NoSnapshot
    /\ outstanding' = CounterLoads
    /\ attempts' = 0
    /\ since' = Version
    /\ UNCHANGED <<writerVars, seq1, seq2>>

LoadCounter ==
    /\ reader = "counters"
    /\ out' = [out EXCEPT ![Head(outstanding)] = Shared(Head(outstanding))]
    /\ outstanding' = Tail(outstanding)
    /\ reader' = IF Len(outstanding) = 1 THEN "seq1" ELSE "counters"
    /\ UNCHANGED <<writerVars, seq1, seq2, attempts, since>>

LoadSeq1 ==
    /\ reader = "seq1"
    /\ seq1' = seq
    /\ outstanding' = PairLoads
    /\ reader' = "pair"
    /\ UNCHANGED <<writerVars, out, seq2, attempts, since>>

\* The loads between the two of `seq', and the second of these.
LoadPair(k) ==
    /\ reader = "pair"
    /\ k \in DOMAIN outstanding
    /\ LoadsInOrder => k = 1
    /\ IF outstanding[k] = "seq2"
       THEN seq2' = seq /\ UNCHANGED out
       ELSE /\ out' = [out EXCEPT ![outstanding[k]] = Shared(outstanding[k])]
            /\ UNCHANGED seq2
    /\ outstanding' =
           SubSeq(outstanding, 1, k - 1) \o
           SubSeq(outstanding, k + 1, Len(outstanding))
    /\ reader' = IF Len(outstanding) = 1 THEN "decide" ELSE "pair"
    /\ UNCHANGED <<writerVars, seq1, attempts, since>>

\* Mutant: a write in progress is not noticed.
Torn_IgnoresOdd == seq1 # seq2

Torn == seq1 # seq2 \/ seq1 % 2 = 1

\* Mutant: the attempt is not counted.
NextAttempt_NotCounted == attempts

NextAttempt == attempts + 1

\* Mutant: there is no bound on the attempts.
GivesUp_Never == FALSE

GivesUp == NextAttempt > MaxAttempts

\* `attempts' keeps the number of attempts the snapshot took.
ReturnSnapshot ==
    /\ reader = "decide"
    /\ GivesUp \/ ~Torn
    /\ reader' = "call"
    /\ attempts' = NextAttempt
    /\ seq1' = 0 /\ seq2' = 0 /\ since' = 0
    /\ UNCHANGED <<writerVars, out, outstanding>>

Retry ==
    /\ reader = "decide"
    /\ ~GivesUp
    /\ Torn
    /\ reader' = "seq1"
    /\ attempts' = NextAttempt
    /\ UNCHANGED <<writerVars, out, seq1, seq2, outstanding, since>>

Snapshot ==
    \/ StartSnapshot
    \/ LoadCounter
    \/ LoadSeq1
    \/ \E k \in 1 .. Len(PairLoads) : LoadPair(k)
    \/ ReturnSnapshot
    \/ Retry
-----------------------------------------------------------------------------
Next == ReceiveThread \/ Snapshot

Spec == Init /\ [][Next]_vars

\* Nobody has to ask for a snapshot, but a call that has begun goes on.  The
\* receive thread may be preempted anywhere for as long as one likes.
Fairness == WF_vars(reader # "call" /\ Snapshot)

FairSpec == Spec /\ Fairness
-----------------------------------------------------------------------------
\* A snapshot that has not used up its attempts has a pair of one update.
PairNotTorn ==
    reader = "call" /\ attempts <= MaxAttempts => out["jitter"] = out["gap"]

\* No snapshot shows more frames than packets, although the counters are read
\* one by one while the receive thread goes on counting: each frame counted
\* was completed by a packet counted before it.
FramesHavePackets == reader = "call" => out["frames"] <= out["packets"]

\* The mapping to ConsistentStats.
Promise == INSTANCE ConsistentStats WITH
    version <- Version,
    calling <- (reader # "call"),
    result  <- IF reader = "call"
               THEN [jitter |-> out["jitter"], gap |-> out["gap"],
                     sure   |-> attempts \in 1 .. MaxAttempts]
               ELSE [jitter |-> 0, gap |-> 0, sure |-> FALSE]

\* The pair of a snapshot is not only untorn but was current during the call,
\* and where the attempts were used up neither value is older than the call:
\* StatsSeqlock implements ConsistentStats.
KeepsPromise == Promise!Spec

\* A call of rx_stats_snapshot returns, whatever the receive thread does: also
\* if that thread stops for good between the two increments of `seq'.
SnapshotReturns == reader # "call" ~> reader = "call"
=============================================================================
