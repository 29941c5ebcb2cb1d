------------------------- MODULE StatsSeqlockProofs -------------------------
(***************************************************************************)
(* Theorems about StatsSeqlock, for any number of packets short of a       *)
(* counter that wraps around, any number of attempts and any number of     *)
(* snapshots.  What is said of the pair assumes that the loads of an       *)
(* attempt are performed in order.                                         *)
(***************************************************************************)
EXTENDS StatsSeqlock, SequenceTheorems, TLAPS
-----------------------------------------------------------------------------
(* The receive thread alone.  `seq' is twice the number of updates; while  *)
(* it is odd, first jitter and then gap is one ahead.                      *)

Updating == {"jitter", "gap", "even"}

Pair ==
    /\ writer = "jitter" => seq = 2 * jitter + 1 /\ gap = jitter
    /\ writer = "gap" => seq = 2 * gap + 1 /\ jitter = gap + 1
    /\ writer = "even" => seq + 1 = 2 * jitter /\ gap = jitter
    /\ writer \notin Updating => seq = 2 * jitter /\ gap = jitter

\* Every packet is counted before its update and before its frame.
Ahead ==
    /\ frames <= packets /\ packets <= MaxPackets
    /\ writer \notin {"count", "drop"} => frames < packets
    /\ jitter <= packets
    /\ writer \in {"odd", "jitter"} => jitter < packets

WriterInvariant ==
    /\ frames \in Nat /\ dropped \in Nat
    /\ packets \in Nat /\ lost \in Nat
    /\ seq \in Nat /\ jitter \in Nat /\ gap \in Nat
    /\ writer \in {"count", "odd", "lost", "frame", "drop"} \cup Updating
    /\ Pair
    /\ Ahead
-----------------------------------------------------------------------------
(* The snapshot.                                                           *)

LoadingCounters ==
    {CounterLoads, <<"dropped", "packets", "lost">>, <<"packets", "lost">>,
     <<"lost">>}

LoadingPair == {PairLoads, <<"gap", "seq2">>, <<"seq2">>}

\* A value of the pair that has been loaded in this attempt: none older than
\* the call, none from beyond the update under way, and, if `seq' is still
\* what it was when the attempt began, and even, the value of that update.
Loaded(value, seen) ==
    /\ since <= value /\ 2 * value <= seq + 1
    /\ seen = seq1 /\ seq1 % 2 = 0 => 2 * value = seq1

Attempt ==
    /\ reader = "pair" => outstanding \in LoadingPair
    /\ reader \in {"pair", "decide"} => 2 * since <= seq1 /\ seq1 <= seq
    /\ reader = "pair" /\ Len(outstanding) <= 2 => Loaded(out["jitter"], seq)
    /\ reader = "pair" /\ Len(outstanding) <= 1 => Loaded(out["gap"], seq)
    /\ reader = "decide" =>
           /\ seq1 <= seq2 /\ seq2 <= seq
           /\ Loaded(out["jitter"], seq2)
           /\ Loaded(out["gap"], seq2)

Result ==
    /\ reader = "counters" => outstanding \in LoadingCounters
    /\ out["frames"] <= packets
    /\ reader # "counters" \/ Len(outstanding) <= 1 =>
           out["frames"] <= out["packets"]
    /\ reader = "call" /\ attempts <= MaxAttempts =>
           out["jitter"] = out["gap"]

ReaderInvariant ==
    /\ reader \in {"call", "counters", "seq1", "pair", "decide"}
    /\ out \in [Fields -> Nat]
    /\ seq1 \in Nat /\ seq2 \in Nat /\ attempts \in Nat /\ since \in Nat
    /\ reader # "call" => 2 * since <= seq
    /\ Attempt
    /\ Result

SeqlockInvariant == WriterInvariant /\ ReaderInvariant
-----------------------------------------------------------------------------
LEMMA LoadsAreSequences ==
    /\ Len(CounterLoads) = 4
    /\ Head(CounterLoads) = "frames"
    /\ Tail(CounterLoads) = <<"dropped", "packets", "lost">>
    /\ Len(<<"dropped", "packets", "lost">>) = 3
    /\ Head(<<"dropped", "packets", "lost">>) = "dropped"
    /\ Tail(<<"dropped", "packets", "lost">>) = <<"packets", "lost">>
    /\ Len(<<"packets", "lost">>) = 2
    /\ Head(<<"packets", "lost">>) = "packets"
    /\ Tail(<<"packets", "lost">>) = <<"lost">>
    /\ Len(<<"lost">>) = 1
    /\ Head(<<"lost">>) = "lost"
    /\ Len(PairLoads) = 3 /\ PairLoads[1] = "jitter"
    /\ Len(<<"gap", "seq2">>) = 2 /\ <<"gap", "seq2">>[1] = "gap"
    /\ Len(<<"seq2">>) = 1 /\ <<"seq2">>[1] = "seq2"
BY DEF CounterLoads, PairLoads

\* What LoadPair leaves of the loads when it performs the first.
LEMMA WithoutFirst ==
    ASSUME NEW s \in Seq(Fields \cup {"seq2"}), s # <<>>
    PROVE  SubSeq(s, 1, 1 - 1) \o SubSeq(s, 1 + 1, Len(s)) = Tail(s)
<1>1. Tail(s) \in Seq(Fields \cup {"seq2"}) /\ Tail(s) = SubSeq(s, 2, Len(s))
  BY HeadTailProperties, TailIsSubSeq
<1>2. SubSeq(s, 1, 0) = <<>>
  BY SubSeqEmpty
<1> QED
  BY <1>1, <1>2, ConcatEmptySeq

LEMMA PairIsLoadedInOrder ==
    /\ outstanding = PairLoads =>
           SubSeq(outstanding, 1, 1 - 1) \o
           SubSeq(outstanding, 1 + 1, Len(outstanding)) = <<"gap", "seq2">>
    /\ outstanding = <<"gap", "seq2">> =>
           SubSeq(outstanding, 1, 1 - 1) \o
           SubSeq(outstanding, 1 + 1, Len(outstanding)) = <<"seq2">>
<1> DEFINE Loads == Fields \cup {"seq2"}
<1>1. PairLoads \in Seq(Loads) /\ PairLoads # <<>>
      /\ Tail(PairLoads) = <<"gap", "seq2">>
  BY DEF PairLoads, Fields
<1>2. <<"gap", "seq2">> \in Seq(Loads) /\ <<"gap", "seq2">> # <<>>
      /\ Tail(<<"gap", "seq2">>) = <<"seq2">>
  BY DEF Fields
<1>3. CASE outstanding = PairLoads
  BY <1>1, <1>3, WithoutFirst, LoadsAreSequences
<1>4. CASE outstanding = <<"gap", "seq2">>
  BY <1>2, <1>4, WithoutFirst, LoadsAreSequences
<1> QED
  BY <1>3, <1>4

LEMMA SeqlockInitially == Init => SeqlockInvariant
BY MaxPacketsAssumption
   DEF Init, SeqlockInvariant, WriterInvariant, Pair, Ahead, Updating,
       ReaderInvariant, Attempt, Result, NoSnapshot, Fields

-----------------------------------------------------------------------------
\* The sum does not wrap.
LEMMA PlusOne ==
    ASSUME MaxPackets < CounterMod, NEW n \in Nat, n < MaxPackets
    PROVE  Plus(n, 1) = n + 1
BY MaxPacketsAssumption, CounterModAssumption DEF Plus

LEMMA PlusIsNumber ==
    ASSUME NEW n \in Nat, NEW m \in {0, 1}
    PROVE  Plus(n, m) \in Nat
BY CounterModAssumption DEF Plus

LEMMA SeqPlusOne ==
    ASSUME MaxPackets < CounterMod, NEW n \in Nat, n < 2 * MaxPackets
    PROVE  (n + 1) % (2 * CounterMod) = n + 1
BY MaxPacketsAssumption, CounterModAssumption

Forward == seq <= seq' /\ packets <= packets' /\ UNCHANGED readerVars

LEMMA WriterStep ==
    ASSUME MaxPackets < CounterMod, WriterInvariant, ReceiveThread
    PROVE  WriterInvariant' /\ Forward
<1> USE MaxPacketsAssumption
    DEF WriterInvariant, Pair, Ahead, Updating, Forward, counters
<1>1. CASE CountPacket
  <2>1. packets' = packets + 1
    BY <1>1, PlusOne DEF CountPacket
  <2> QED
    BY <1>1, <2>1 DEF CountPacket
<1>2. CASE BumpSeq("odd", "jitter")
  <2>1. seq' = seq + 1
    BY <1>2, SeqPlusOne DEF BumpSeq
  <2> QED
    BY <1>2, <2>1 DEF BumpSeq
<1>3. CASE WriteJitter
  <2>1. jitter' = jitter + 1
    BY <1>3, PlusOne DEF WriteJitter
  <2> QED
    BY <1>3, <2>1 DEF WriteJitter
<1>4. CASE WriteGap
  <2>1. gap' = gap + 1
    BY <1>4, PlusOne DEF WriteGap
  <2> QED
    BY <1>4, <2>1 DEF WriteGap
<1>5. CASE BumpSeq("even", "lost")
  <2>1. seq' = seq + 1
    BY <1>5, SeqPlusOne DEF BumpSeq
  <2> QED
    BY <1>5, <2>1 DEF BumpSeq
<1>6. CASE AddLost
  BY <1>6, PlusIsNumber DEF AddLost
<1>7. CASE AddFrame
  <2>1. frames' = frames + 1
    BY <1>7, PlusOne DEF AddFrame
  <2> QED
    BY <1>7, <2>1 DEF AddFrame
<1>8. CASE AddDrop
  BY <1>8, PlusIsNumber DEF AddDrop
<1> QED
  BY <1>1, <1>2, <1>3, <1>4, <1>5, <1>6, <1>7, <1>8 DEF ReceiveThread

\* What is known of a snapshot stays true while `seq' and the packets grow.
LEMMA BoundGrows ==
    \A v, a, b \in Nat : 2 * v <= a + 1 /\ a <= b => 2 * v <= b + 1
OBVIOUS

LEMMA LoadedStays ==
    ASSUME NEW value \in Nat, seq \in Nat, seq' \in Nat, seq1 \in Nat,
           Loaded(value, seq), seq1 <= seq, seq <= seq',
           UNCHANGED <<seq1, since>>
    PROVE  since' <= value /\ 2 * value <= seq' + 1
           /\ (seq' = seq1' /\ seq1' % 2 = 0 => 2 * value = seq1')
<1>1. since' <= value /\ 2 * value <= seq + 1
  BY DEF Loaded
<1>2. 2 * value <= seq' + 1
  BY <1>1, BoundGrows
<1>3. seq' = seq1' => seq = seq1
  OBVIOUS
<1> QED
  BY <1>1, <1>2, <1>3 DEF Loaded

LEMMA ReaderUndisturbed ==
    ASSUME WriterInvariant, WriterInvariant', ReaderInvariant, Forward
    PROVE  ReaderInvariant'
<1>1. seq \in Nat /\ seq' \in Nat /\ packets \in Nat /\ packets' \in Nat
  BY DEF WriterInvariant
<1>2. seq1 \in Nat /\ out["jitter"] \in Nat /\ out["gap"] \in Nat
      /\ seq2 \in Nat /\ since \in Nat /\ out["frames"] \in Nat
  BY DEF ReaderInvariant, Fields
<1>3. seq <= seq' /\ packets <= packets' /\ UNCHANGED readerVars
  BY DEF Forward
<1>4. Attempt'
  <2>1. reader = "pair" /\ Len(outstanding) <= 2 => Loaded(out["jitter"], seq)'
    BY <1>1, <1>2, <1>3, LoadedStays
       DEF ReaderInvariant, Attempt, Loaded, readerVars
  <2>2. reader = "pair" /\ Len(outstanding) <= 1 => Loaded(out["gap"], seq)'
    BY <1>1, <1>2, <1>3, LoadedStays
       DEF ReaderInvariant, Attempt, Loaded, readerVars
  <2>3. reader = "decide" =>
            /\ seq1' <= seq2' /\ seq2' <= seq'
            /\ Loaded(out["jitter"], seq2)'
            /\ Loaded(out["gap"], seq2)'
    BY <1>1, <1>2, <1>3 DEF ReaderInvariant, Attempt, Loaded, readerVars
  <2>4. reader \in {"pair", "decide"} => 2 * since' <= seq1' /\ seq1' <= seq'
    BY <1>1, <1>2, <1>3 DEF ReaderInvariant, Attempt, readerVars
  <2> QED
    BY <1>3, <2>1, <2>2, <2>3, <2>4 DEF ReaderInvariant, Attempt, readerVars
<1>5. Result'
  BY <1>1, <1>2, <1>3 DEF ReaderInvariant, Result, readerVars
<1> QED
  BY <1>1, <1>2, <1>3, <1>4, <1>5 DEF ReaderInvariant, readerVars
-----------------------------------------------------------------------------
\* What a load of the pair finds.
LEMMA CurrentValues ==
    ASSUME WriterInvariant, since \in Nat, 2 * since <= seq
    PROVE  /\ since <= jitter /\ 2 * jitter <= seq + 1
           /\ seq % 2 = 0 => 2 * jitter = seq
           /\ since <= gap /\ 2 * gap <= seq + 1
           /\ seq % 2 = 0 => 2 * gap = seq
BY DEF WriterInvariant, Pair, Updating

LEMMA StartStep ==
    ASSUME WriterInvariant, ReaderInvariant, StartSnapshot
    PROVE  ReaderInvariant'
<1>1. reader' = "counters" /\ out' = NoSnapshot /\ attempts' = 0
      /\ outstanding' = CounterLoads /\ UNCHANGED <<seq1, seq2, seq, packets>>
  BY DEF StartSnapshot, writerVars, counters
<1>2. since' \in Nat /\ 2 * since' <= seq'
  BY DEF StartSnapshot, Version, WriterInvariant, writerVars
<1>3. out' \in [Fields -> Nat] /\ out'["frames"] = 0
  BY <1>1 DEF NoSnapshot, Fields
<1>4. Result'
  BY <1>1, <1>3, LoadsAreSequences
     DEF Result, LoadingCounters, WriterInvariant
<1> QED
  BY <1>1, <1>2, <1>3, <1>4 DEF ReaderInvariant, Attempt

LEMMA LoadCounterStep ==
    ASSUME WriterInvariant, ReaderInvariant, LoadCounter
    PROVE  ReaderInvariant'
<1>1. reader = "counters" /\ outstanding \in LoadingCounters
      /\ out \in [Fields -> Nat] /\ out["frames"] <= packets
      /\ UNCHANGED <<seq1, seq2, attempts, since, seq, packets>>
  BY DEF LoadCounter, ReaderInvariant, Result, writerVars, counters
<1>2. outstanding' = Tail(outstanding)
      /\ out' = [out EXCEPT ![Head(outstanding)] = Shared(Head(outstanding))]
      /\ reader' = IF Len(outstanding) = 1 THEN "seq1" ELSE "counters"
  BY DEF LoadCounter
<1>3. frames \in Nat /\ dropped \in Nat /\ packets \in Nat /\ lost \in Nat
      /\ frames <= packets
  BY DEF WriterInvariant, Ahead
<1>4. CASE outstanding = CounterLoads
  <2>1. out' = [out EXCEPT !["frames"] = frames]
    BY <1>2, <1>4, LoadsAreSequences DEF Shared
  <2>2. out' \in [Fields -> Nat] /\ out'["frames"] = frames
    BY <1>1, <1>3, <2>1 DEF Fields
  <2>4. reader' = "counters" /\ Len(outstanding') = 3
        /\ outstanding' = <<"dropped", "packets", "lost">>
    BY <1>2, <1>4, LoadsAreSequences
  <2>3. Result'
    BY <1>1, <1>3, <2>2, <2>4 DEF Result, LoadingCounters
  <2> QED
    BY <1>1, <1>2, <1>4, <2>2, <2>3, LoadsAreSequences
       DEF ReaderInvariant, Attempt
<1>5. CASE outstanding = <<"dropped", "packets", "lost">>
  <2>1. out' = [out EXCEPT !["dropped"] = dropped]
    BY <1>2, <1>5, LoadsAreSequences DEF Shared
  <2>2. out' \in [Fields -> Nat] /\ out'["frames"] = out["frames"]
        /\ out'["dropped"] = dropped
    BY <1>1, <1>3, <2>1 DEF Fields
  <2>3. Result'
    BY <1>1, <1>2, <1>3, <1>5, <2>2, LoadsAreSequences
       DEF Result, LoadingCounters
  <2> QED
    BY <1>1, <1>2, <1>5, <2>2, <2>3, LoadsAreSequences
       DEF ReaderInvariant, Attempt
<1>6. CASE outstanding = <<"packets", "lost">>
  <2>1. out' = [out EXCEPT !["packets"] = packets]
    BY <1>2, <1>6, LoadsAreSequences DEF Shared
  <2>2. out' \in [Fields -> Nat] /\ out'["frames"] = out["frames"]
        /\ out'["packets"] = packets
    BY <1>1, <1>3, <2>1 DEF Fields
  <2>3. Result'
    BY <1>1, <1>2, <1>3, <1>6, <2>2, LoadsAreSequences
       DEF Result, LoadingCounters
  <2> QED
    BY <1>1, <1>2, <1>6, <2>2, <2>3, LoadsAreSequences
       DEF ReaderInvariant, Attempt
<1>7. CASE outstanding = <<"lost">>
  <2>1. out' = [out EXCEPT !["lost"] = lost]
    BY <1>2, <1>7, LoadsAreSequences DEF Shared
  <2>2. out' \in [Fields -> Nat] /\ out'["frames"] = out["frames"]
        /\ out'["packets"] = out["packets"]
    BY <1>1, <1>3, <2>1 DEF Fields
  <2>3. out["frames"] <= out["packets"]
    BY <1>1, <1>7, LoadsAreSequences DEF ReaderInvariant, Result
  <2>4. Result'
    BY <1>1, <1>2, <1>7, <2>2, <2>3, LoadsAreSequences DEF Result
  <2> QED
    BY <1>1, <1>2, <1>7, <2>2, <2>4, LoadsAreSequences
       DEF ReaderInvariant, Attempt
<1> QED
  BY <1>1, <1>4, <1>5, <1>6, <1>7 DEF LoadingCounters

LEMMA LoadSeq1Step ==
    ASSUME WriterInvariant, ReaderInvariant, LoadSeq1
    PROVE  ReaderInvariant'
<1>1. reader = "seq1" /\ reader' = "pair" /\ outstanding' = PairLoads
      /\ seq1' = seq
      /\ UNCHANGED <<seq2, out, attempts, since, seq, packets>>
  BY DEF LoadSeq1, writerVars, counters
<1>2. Len(outstanding') = 3 /\ outstanding' \in LoadingPair
  BY <1>1, LoadsAreSequences DEF LoadingPair
<1>3. seq \in Nat /\ 2 * since <= seq
  BY <1>1 DEF WriterInvariant, ReaderInvariant
<1>4. Attempt'
  BY <1>1, <1>2, <1>3 DEF Attempt
<1>5. Result'
  BY <1>1 DEF ReaderInvariant, Result
<1> QED
  BY <1>1, <1>3, <1>4, <1>5 DEF ReaderInvariant

\* LoadPair, where it performs the first of the loads.
LEMMA LoadPairStep ==
    ASSUME LoadsInOrder, WriterInvariant, ReaderInvariant,
           NEW k \in 1 .. Len(PairLoads), LoadPair(k)
    PROVE  ReaderInvariant'
<1>1. reader = "pair" /\ k = 1 /\ outstanding \in LoadingPair
      /\ UNCHANGED <<seq1, attempts, since, seq, packets>>
  BY DEF LoadPair, ReaderInvariant, Attempt, writerVars, counters
<1>2. outstanding' = SubSeq(outstanding, 1, 1 - 1) \o
                     SubSeq(outstanding, 1 + 1, Len(outstanding))
      /\ reader' = IF Len(outstanding) = 1 THEN "decide" ELSE "pair"
  BY <1>1 DEF LoadPair
<1>3. IF outstanding[1] = "seq2"
      THEN seq2' = seq /\ UNCHANGED out
      ELSE /\ out' = [out EXCEPT ![outstanding[1]] = Shared(outstanding[1])]
           /\ UNCHANGED seq2
  BY <1>1 DEF LoadPair
<1>4. /\ seq \in Nat /\ seq1 \in Nat /\ seq2 \in Nat /\ since \in Nat
      /\ jitter \in Nat /\ gap \in Nat /\ out \in [Fields -> Nat]
      /\ 2 * since <= seq /\ 2 * since <= seq1 /\ seq1 <= seq
      /\ out["frames"] <= packets /\ out["frames"] <= out["packets"]
  BY <1>1 DEF WriterInvariant, ReaderInvariant, Attempt, Result
<1>5. CASE outstanding = PairLoads
  <2>1. out' = [out EXCEPT !["jitter"] = jitter] /\ UNCHANGED seq2
    BY <1>3, <1>5, LoadsAreSequences DEF Shared
  <2>2. outstanding' = <<"gap", "seq2">> /\ reader' = "pair"
    BY <1>2, <1>5, PairIsLoadedInOrder, LoadsAreSequences
  <2>3. out' \in [Fields -> Nat] /\ out'["jitter"] = jitter
        /\ out'["frames"] = out["frames"] /\ out'["packets"] = out["packets"]
    BY <1>4, <2>1 DEF Fields
  <2>4. Loaded(out["jitter"], seq)'
    BY <1>1, <1>4, <2>3, CurrentValues DEF Loaded
  <2>5. Attempt'
    BY <1>1, <1>4, <2>2, <2>4, LoadsAreSequences DEF Attempt, LoadingPair
  <2>6. Result'
    BY <1>1, <1>4, <2>2, <2>3 DEF Result
  <2> QED
    BY <1>1, <1>4, <2>1, <2>2, <2>3, <2>5, <2>6 DEF ReaderInvariant
<1>6. CASE outstanding = <<"gap", "seq2">>
  <2>1. out' = [out EXCEPT !["gap"] = gap] /\ UNCHANGED seq2
    BY <1>3, <1>6, LoadsAreSequences DEF Shared
  <2>2. outstanding' = <<"seq2">> /\ reader' = "pair"
    BY <1>2, <1>6, PairIsLoadedInOrder, LoadsAreSequences
  <2>3. out' \in [Fields -> Nat] /\ out'["gap"] = gap
        /\ out'["jitter"] = out["jitter"]
        /\ out'["frames"] = out["frames"] /\ out'["packets"] = out["packets"]
    BY <1>4, <2>1 DEF Fields
  <2>4. Loaded(out["gap"], seq)'
    BY <1>1, <1>4, <2>3, CurrentValues DEF Loaded
  <2>5. Loaded(out["jitter"], seq)'
    BY <1>1, <1>6, <2>3, LoadsAreSequences
       DEF ReaderInvariant, Attempt, Loaded
  <2>6. Attempt'
    BY <1>1, <1>4, <2>2, <2>4, <2>5, LoadsAreSequences
       DEF Attempt, LoadingPair
  <2>7. Result'
    BY <1>1, <1>4, <2>2, <2>3 DEF Result
  <2> QED
    BY <1>1, <1>4, <2>1, <2>2, <2>3, <2>6, <2>7 DEF ReaderInvariant
<1>7. CASE outstanding = <<"seq2">>
  <2>1. seq2' = seq /\ UNCHANGED out /\ reader' = "decide"
    BY <1>2, <1>3, <1>7, LoadsAreSequences
  <2>2. Loaded(out["jitter"], seq) /\ Loaded(out["gap"], seq)
    BY <1>1, <1>7, LoadsAreSequences DEF ReaderInvariant, Attempt
  <2>3. Attempt'
    BY <1>1, <1>4, <2>1, <2>2 DEF Attempt, Loaded
  <2>4. Result'
    BY <1>1, <1>4, <2>1 DEF Result
  <2> QED
    BY <1>1, <1>4, <2>1, <2>3, <2>4 DEF ReaderInvariant
<1> QED
  BY <1>1, <1>5, <1>6, <1>7 DEF LoadingPair

\* A snapshot that returns before its last attempt has seen `seq' even and
\* unchanged, and so both values of that update.
LEMMA NotTorn ==
    ASSUME ReaderInvariant, reader = "decide", ~Torn
    PROVE  /\ seq1 % 2 = 0 /\ 2 * since <= seq1 /\ seq1 <= seq
           /\ 2 * out["jitter"] = seq1 /\ 2 * out["gap"] = seq1
<1>1. seq1 \in Nat /\ seq1 = seq2 /\ seq1 % 2 = 0
  BY DEF ReaderInvariant, Torn
<1> QED
  BY <1>1 DEF ReaderInvariant, Attempt, Loaded

LEMMA DecideStep ==
    ASSUME WriterInvariant, ReaderInvariant, ReturnSnapshot \/ Retry
    PROVE  ReaderInvariant'
<1>1. reader = "decide" /\ attempts' = attempts + 1 /\ attempts \in Nat
      /\ UNCHANGED <<out, seq, packets>>
  BY DEF ReturnSnapshot, Retry, NextAttempt, ReaderInvariant, writerVars,
         counters
<1>2. out["frames"] <= packets /\ out["frames"] <= out["packets"]
      /\ out["jitter"] \in Nat /\ out["gap"] \in Nat
  BY <1>1 DEF ReaderInvariant, Result, Fields
<1>3. CASE ReturnSnapshot
  <2>1. reader' = "call" /\ seq1' = 0 /\ seq2' = 0 /\ since' = 0
    BY <1>3 DEF ReturnSnapshot
  <2>2. CASE GivesUp
    <3>1. ~(attempts' <= MaxAttempts)
      BY <1>1, <2>2, MaxAttemptsAssumption DEF GivesUp, NextAttempt
    <3> QED
      BY <1>1, <1>2, <2>1, <3>1 DEF ReaderInvariant, Attempt, Result
  <2>3. CASE ~Torn
    <3>1. out["jitter"] = out["gap"]
      BY <1>1, <1>2, <2>3, NotTorn
    <3> QED
      BY <1>1, <1>2, <2>1, <3>1 DEF ReaderInvariant, Attempt, Result
  <2> QED
    BY <1>3, <2>2, <2>3 DEF ReturnSnapshot
<1>4. CASE Retry
  <2>1. reader' = "seq1" /\ UNCHANGED <<seq1, seq2, since>>
    BY <1>4 DEF Retry
  <2> QED
    BY <1>1, <1>2, <2>1 DEF ReaderInvariant, Attempt, Result
<1> QED
  BY <1>3, <1>4

LEMMA SeqlockStep ==
    ASSUME MaxPackets < CounterMod, LoadsInOrder,
           SeqlockInvariant, [Next]_vars
    PROVE  SeqlockInvariant'
<1> USE DEF SeqlockInvariant
<1>1. CASE ReceiveThread
  BY <1>1, WriterStep, ReaderUndisturbed
<1>2. CASE Snapshot
  <2>1. WriterInvariant'
    <3>1. UNCHANGED writerVars
      BY <1>2 DEF Snapshot, StartSnapshot, LoadCounter, LoadSeq1, LoadPair,
                  ReturnSnapshot, Retry
    <3> QED
      BY <3>1 DEF WriterInvariant, Pair, Ahead, writerVars, counters
  <2>2. ReaderInvariant'
    BY <1>2, StartStep, LoadCounterStep, LoadSeq1Step, LoadPairStep,
       DecideStep DEF Snapshot
  <2> QED
    BY <2>1, <2>2
<1>3. CASE UNCHANGED vars
  <2>1. UNCHANGED writerVars /\ UNCHANGED readerVars
    BY <1>3 DEF vars
  <2>2. WriterInvariant'
    BY <2>1 DEF WriterInvariant, Pair, Ahead, writerVars, counters
  <2>3. ReaderInvariant'
    BY <2>1, <2>2, ReaderUndisturbed
       DEF Forward, writerVars, counters, WriterInvariant
  <2> QED
    BY <2>2, <2>3
<1> QED
  BY <1>1, <1>2, <1>3 DEF Next

LEMMA SeqlockInvariance ==
    ASSUME MaxPackets < CounterMod, LoadsInOrder
    PROVE  Spec => []SeqlockInvariant
<1>1. SeqlockInvariant /\ [Next]_vars => SeqlockInvariant'
  BY SeqlockStep
<1> QED
  BY <1>1, SeqlockInitially, PTL DEF Spec
-----------------------------------------------------------------------------
\* While no counter has wrapped around, no snapshot shows more frames than
\* packets.
THEOREM FramesNeedPackets ==
    ASSUME MaxPackets < CounterMod, LoadsInOrder
    PROVE  Spec => []FramesHavePackets
<1>1. SeqlockInvariant => FramesHavePackets
  BY DEF SeqlockInvariant, ReaderInvariant, Result, FramesHavePackets
<1> QED
  BY <1>1, SeqlockInvariance, PTL

\* A snapshot that has not used up its attempts is not torn, if the loads of
\* an attempt are performed in order.
THEOREM PairIsWhole ==
    ASSUME MaxPackets < CounterMod, LoadsInOrder
    PROVE  Spec => []PairNotTorn
<1>1. SeqlockInvariant => PairNotTorn
  BY DEF SeqlockInvariant, ReaderInvariant, Result, PairNotTorn
<1> QED
  BY <1>1, SeqlockInvariance, PTL
-----------------------------------------------------------------------------
(* StatsSeqlock implements ConsistentStats.                                *)

\* What ConsistentStats sees as the result.
ResultSeen ==
    IF reader = "call"
    THEN [jitter |-> out["jitter"], gap |-> out["gap"],
          sure   |-> attempts \in 1 .. MaxAttempts]
    ELSE [jitter |-> 0, gap |-> 0, sure |-> FALSE]

LEMMA Stutters ==
    ASSUME Version' = Version, UNCHANGED since,
           (reader' # "call") = (reader # "call"), ResultSeen' = ResultSeen
    PROVE  UNCHANGED Promise!vars
BY DEF Promise!vars, ResultSeen

LEMMA WriterRefines ==
    ASSUME MaxPackets < CounterMod, WriterInvariant, ReceiveThread
    PROVE  [Promise!Next]_(Promise!vars)
<1>1. UNCHANGED readerVars
  BY WriterStep DEF Forward
<1>2. UNCHANGED since /\ (reader' # "call") = (reader # "call")
      /\ ResultSeen' = ResultSeen
  BY <1>1 DEF readerVars, ResultSeen
<1>3. CASE UNCHANGED seq
  <2>1. Version' = Version
    BY <1>3 DEF Version
  <2> QED
    BY <1>2, <2>1, Stutters
<1>4. CASE BumpSeq("odd", "jitter")
  <2>1. seq' = seq + 1 /\ seq = 2 * jitter /\ jitter \in Nat
    BY <1>4, SeqPlusOne, MaxPacketsAssumption
       DEF BumpSeq, WriterInvariant, Pair, Ahead, Updating
  <2>2. Version' = Version
    BY <2>1 DEF Version
  <2> QED
    BY <1>2, <2>2, Stutters
<1>5. CASE BumpSeq("even", "lost")
  <2>1. seq' = seq + 1 /\ seq + 1 = 2 * jitter /\ jitter \in Nat
        /\ seq \in Nat
    BY <1>5, SeqPlusOne, MaxPacketsAssumption
       DEF BumpSeq, WriterInvariant, Pair, Ahead, Updating
  <2>2. Version' = Version + 1
    BY <2>1 DEF Version
  <2>3. Promise!Update
    BY <1>2, <2>2 DEF Promise!Update, ResultSeen
  <2> QED
    BY <2>3 DEF Promise!Next
<1> QED
  BY <1>3, <1>4, <1>5
     DEF ReceiveThread, CountPacket, WriteJitter, WriteGap, AddLost,
         AddFrame, AddDrop, counters

LEMMA SnapshotRefines ==
    ASSUME LoadsInOrder, SeqlockInvariant, Snapshot
    PROVE  [Promise!Next]_(Promise!vars)
<1>1. UNCHANGED writerVars
  BY DEF Snapshot, StartSnapshot, LoadCounter, LoadSeq1, LoadPair,
         ReturnSnapshot, Retry
<1>2. Version' = Version
  BY <1>1 DEF writerVars, Version
<1>3. CASE StartSnapshot
  <2>1. Promise!Call
    BY <1>2, <1>3 DEF StartSnapshot, Promise!Call, Promise!NoResult
  <2> QED
    BY <2>1 DEF Promise!Next
<1>4. CASE LoadCounter \/ LoadSeq1 \/ Retry
           \/ \E k \in 1 .. Len(PairLoads) : LoadPair(k)
  <2>1. reader # "call" /\ reader' # "call" /\ UNCHANGED since
    BY <1>4 DEF LoadCounter, LoadSeq1, LoadPair, Retry
  <2>2. ResultSeen' = ResultSeen
    BY <2>1 DEF ResultSeen
  <2> QED
    BY <1>2, <2>1, <2>2, Stutters
<1>5. CASE ReturnSnapshot
  <2> DEFINE j == out["jitter"]
             g == out["gap"]
  <2>1. reader = "decide" /\ reader' = "call" /\ since' = 0
        /\ UNCHANGED out /\ attempts' = attempts + 1
    BY <1>5 DEF ReturnSnapshot, NextAttempt
  <2>2. attempts \in Nat /\ since \in Nat /\ j \in Nat /\ g \in Nat
        /\ seq \in Nat
    BY DEF SeqlockInvariant, WriterInvariant, ReaderInvariant, Fields
  <2>3. CASE GivesUp
    <3>1. j \in since .. Version + 1 /\ g \in since .. Version + 1
      <4>1. since <= j /\ 2 * j <= seq + 1 /\ since <= g /\ 2 * g <= seq + 1
        BY <2>1, <2>2 DEF SeqlockInvariant, WriterInvariant,
                          ReaderInvariant, Attempt, Loaded
      <4> QED
        BY <2>2, <4>1 DEF Version
    <3>2. ~(attempts' \in 1 .. MaxAttempts)
      BY <2>1, <2>2, <2>3, MaxAttemptsAssumption DEF GivesUp, NextAttempt
    <3>4. (attempts' \in 1 .. MaxAttempts) = FALSE
      BY <3>2
    <3>5. (attempts \in 1 .. MaxAttempts)' = FALSE
      BY <3>4
    <3>6. ResultSeen' = [jitter |-> j, gap |-> g, sure |-> FALSE]
      BY <2>1, <3>5, Zenon DEF ResultSeen
    <3>3. Promise!GiveUp
      BY <1>2, <2>1, <3>1, <3>6 DEF Promise!GiveUp, ResultSeen
    <3> QED
      BY <3>3 DEF Promise!Next
  <2>4. CASE ~GivesUp /\ ~Torn
    <3>1. 2 * j = seq1 /\ 2 * g = seq1 /\ 2 * since <= seq1 /\ seq1 <= seq
          /\ seq1 \in Nat
      BY <2>1, <2>4, NotTorn DEF SeqlockInvariant, ReaderInvariant
    <3>2. j = g /\ j \in since .. Version
      BY <2>2, <3>1 DEF Version
    <3>3. attempts' \in 1 .. MaxAttempts
      BY <2>1, <2>2, <2>4, MaxAttemptsAssumption DEF GivesUp, NextAttempt
    <3>4. Promise!Return
      BY <1>2, <2>1, <3>2, <3>3 DEF Promise!Return
    <3> QED
      BY <3>4 DEF Promise!Next
  <2> QED
    BY <1>5, <2>3, <2>4 DEF ReturnSnapshot
<1> QED
  BY <1>3, <1>4, <1>5 DEF Snapshot

\* A snapshot is sure only of a pair that was current during the call, and one
\* that gives up is no older than the call: StatsSeqlock implements
\* ConsistentStats, if the loads of an attempt are performed in order.
THEOREM SnapshotsKeepPromise ==
    ASSUME MaxPackets < CounterMod, LoadsInOrder
    PROVE  Spec => KeepsPromise
<1>1. Init => Promise!Init
  <2> SUFFICES ASSUME Init PROVE Promise!Init
    OBVIOUS
  <2>1. (attempts \in 1 .. MaxAttempts) = FALSE
    BY MaxAttemptsAssumption DEF Init
  <2>2. out["jitter"] = 0 /\ out["gap"] = 0 /\ reader = "call" /\ since = 0
    BY DEF Init, NoSnapshot, Fields
  <2>3. Version = 0
    BY DEF Init, Version
  <2> QED
    BY <2>1, <2>2, <2>3, Zenon DEF Promise!Init, Promise!NoResult
<1>2. SeqlockInvariant /\ [Next]_vars => [Promise!Next]_(Promise!vars)
  <2>1. UNCHANGED vars => UNCHANGED Promise!vars
    BY DEF vars, writerVars, readerVars, Promise!vars, Version
  <2> QED
    BY <2>1, WriterRefines, SnapshotRefines DEF Next, SeqlockInvariant
<1> QED
  BY <1>1, <1>2, SeqlockInvariance, PTL DEF Spec, KeepsPromise, Promise!Spec
-----------------------------------------------------------------------------
(* Types, whatever wraps around and in whatever order the loads of an      *)
(* attempt are performed.                                                  *)

PairFields == {"jitter", "gap", "seq2"}

\* What a type alone does not say: which loads an attempt still has to do, and
\* that an attempt only begins where the snapshot has not given up.
Typed ==
    /\ TypeOK
    /\ reader = "counters" => outstanding \in LoadingCounters
    /\ reader = "pair" => outstanding \in Seq(PairFields)
    /\ reader # "call" => attempts <= MaxAttempts

\* A counter stays one where it wraps around.
LEMMA PlusStays ==
    ASSUME NEW counter \in Counters, NEW n \in {0, 1}
    PROVE  Plus(counter, n) \in Counters
BY CounterModAssumption DEF Counters, Plus

LEMMA SeqStays ==
    ASSUME NEW s \in 0 .. 2 * CounterMod - 1
    PROVE  /\ (s + 1) % (2 * CounterMod) \in 0 .. 2 * CounterMod - 1
           /\ s \div 2 \in Counters
BY CounterModAssumption DEF Counters

\* The rest of a sequence that one element was taken out of.
LEMMA Without ==
    ASSUME NEW S, NEW s \in Seq(S), NEW k \in DOMAIN s
    PROVE  SubSeq(s, 1, k - 1) \o SubSeq(s, k + 1, Len(s)) \in Seq(S)
<1>1. k \in 1 .. Len(s) /\ Len(s) \in Nat
  OBVIOUS
<1>2. \A i \in 1 .. Len(s) : s[i] \in S
  BY ElementOfSeq
<1>3. SubSeq(s, 1, k - 1) \in Seq(S)
  BY <1>1, <1>2, SubSeqProperties
<1>4. SubSeq(s, k + 1, Len(s)) \in Seq(S)
  BY <1>1, <1>2, SubSeqProperties
<1> QED
  BY <1>3, <1>4, ConcatProperties

LEMMA WriterTyping ==
    ASSUME Typed, ReceiveThread
    PROVE  Typed'
<1>1. UNCHANGED <<reader, out, seq1, seq2, attempts, outstanding, since>>
  BY DEF ReceiveThread, CountPacket, BumpSeq, WriteJitter, WriteGap, AddLost,
         AddFrame, AddDrop, readerVars
<1>2. /\ frames' \in Counters /\ dropped' \in Counters
      /\ packets' \in Counters /\ lost' \in Counters
      /\ jitter' \in Counters /\ gap' \in Counters
      /\ seq' \in 0 .. 2 * CounterMod - 1
  BY PlusStays, SeqStays
     DEF Typed, TypeOK, ReceiveThread, CountPacket, BumpSeq, WriteJitter,
         WriteGap, AddLost, AddFrame, AddDrop, counters
<1>3. hasPrev' \in BOOLEAN
      /\ writer' \in {"count", "odd", "jitter", "gap", "even", "lost",
                      "frame", "drop"}
  BY DEF Typed, TypeOK, ReceiveThread, CountPacket, BumpSeq, WriteJitter,
         WriteGap, AddLost, AddFrame, AddDrop
<1> QED
  BY <1>1, <1>2, <1>3 DEF Typed, TypeOK

LEMMA LoadCounterTyping ==
    ASSUME Typed, LoadCounter
    PROVE  Typed'
<1>1. reader = "counters" /\ outstanding \in LoadingCounters
  BY DEF Typed, LoadCounter
<1>2. UNCHANGED <<frames, dropped, packets, lost, seq, jitter, gap, hasPrev,
                  writer, seq1, seq2, attempts, since>>
  BY DEF LoadCounter, writerVars, counters
<1>3. out' = [out EXCEPT ![Head(outstanding)] = Shared(Head(outstanding))]
      /\ outstanding' = Tail(outstanding)
      /\ reader' = IF Len(outstanding) = 1 THEN "seq1" ELSE "counters"
  BY DEF LoadCounter
<1>4. Head(outstanding) \in {"frames", "dropped", "packets", "lost"}
  BY <1>1, LoadsAreSequences DEF LoadingCounters
<1>5. Shared(Head(outstanding)) \in Counters
  BY <1>4 DEF Shared, Typed, TypeOK
<1>6. out' \in Snapshots
  BY <1>3, <1>5 DEF Typed, TypeOK, Snapshots
<1>7. outstanding' \in Seq(Fields \cup {"seq2"})
      /\ reader' \in {"seq1", "counters"}
      /\ (reader' = "counters" => outstanding' \in LoadingCounters)
  <2>1. <<"dropped", "packets", "lost">> \in Seq(Fields \cup {"seq2"})
        /\ <<"packets", "lost">> \in Seq(Fields \cup {"seq2"})
        /\ <<"lost">> \in Seq(Fields \cup {"seq2"})
    BY DEF Fields
  <2>2. <<"dropped", "packets", "lost">> \in LoadingCounters
        /\ <<"packets", "lost">> \in LoadingCounters
        /\ <<"lost">> \in LoadingCounters
    BY DEF LoadingCounters
  <2>3. Tail(<<"lost">>) \in Seq(Fields \cup {"seq2"})
    BY DEF Fields
  <2>4. CASE outstanding = CounterLoads
    BY <1>3, <2>1, <2>2, <2>4, LoadsAreSequences
  <2>5. CASE outstanding = <<"dropped", "packets", "lost">>
    BY <1>3, <2>1, <2>2, <2>5, LoadsAreSequences
  <2>6. CASE outstanding = <<"packets", "lost">>
    BY <1>3, <2>1, <2>2, <2>6, LoadsAreSequences
  <2>7. CASE outstanding = <<"lost">>
    BY <1>3, <2>3, <2>7, LoadsAreSequences
  <2> QED
    BY <1>1, <2>4, <2>5, <2>6, <2>7 DEF LoadingCounters
<1> QED
  BY <1>1, <1>2, <1>6, <1>7 DEF Typed, TypeOK

LEMMA LoadPairTyping ==
    ASSUME Typed, NEW k \in 1 .. Len(PairLoads), LoadPair(k)
    PROVE  Typed'
<1>1. reader = "pair" /\ outstanding \in Seq(PairFields)
      /\ k \in DOMAIN outstanding /\ reader' \in {"pair", "decide"}
      /\ UNCHANGED <<frames, dropped, packets, lost, seq, jitter, gap,
                     hasPrev, writer, seq1, attempts, since>>
  BY DEF Typed, LoadPair, writerVars, counters
<1>2. outstanding[k] \in PairFields
  BY <1>1, ElementOfSeq
<1>3. outstanding[k] # "seq2" =>
          outstanding[k] \in Fields /\ Shared(outstanding[k]) \in Counters
  BY <1>2 DEF PairFields, Fields, Shared, Typed, TypeOK
<1>4. out' \in Snapshots /\ seq2' \in 0 .. 2 * CounterMod - 1
  BY <1>3 DEF LoadPair, Typed, TypeOK, Snapshots
<1>5. outstanding' \in Seq(PairFields)
  BY <1>1, Without DEF LoadPair
<1>6. outstanding' \in Seq(Fields \cup {"seq2"})
  BY <1>5 DEF PairFields, Fields
<1> QED
  BY <1>1, <1>4, <1>5, <1>6 DEF Typed, TypeOK

LEMMA SnapshotTyping ==
    ASSUME Typed, Snapshot
    PROVE  Typed'
<1>1. CASE StartSnapshot
  <2>1. CounterLoads \in Seq(Fields \cup {"seq2"})
        /\ CounterLoads \in LoadingCounters
    BY DEF CounterLoads, Fields, LoadingCounters
  <2>2. NoSnapshot \in Snapshots
    BY CounterModAssumption DEF NoSnapshot, Snapshots, Counters
  <2> QED
    BY <1>1, <2>1, <2>2, SeqStays, MaxAttemptsAssumption
       DEF StartSnapshot, Typed, TypeOK, Version, writerVars, counters
<1>2. CASE LoadCounter
  BY <1>2, LoadCounterTyping
<1>3. CASE LoadSeq1
  <2>1. PairLoads \in Seq(PairFields)
        /\ PairLoads \in Seq(Fields \cup {"seq2"})
    BY DEF PairLoads, PairFields, Fields
  <2> QED
    BY <1>3, <2>1 DEF LoadSeq1, Typed, TypeOK, writerVars, counters
<1>4. CASE \E k \in 1 .. Len(PairLoads) : LoadPair(k)
  BY <1>4, LoadPairTyping
<1>5. CASE ReturnSnapshot \/ Retry
  <2>1. reader = "decide" /\ attempts' = attempts + 1
        /\ reader' \in {"call", "seq1"}
        /\ (reader' = "seq1" => attempts' <= MaxAttempts)
    BY <1>5, MaxAttemptsAssumption
       DEF ReturnSnapshot, Retry, GivesUp, NextAttempt, Typed, TypeOK
  <2>2. attempts' \in 0 .. MaxAttempts + 1
    BY <2>1, MaxAttemptsAssumption DEF Typed, TypeOK
  <2>3. since' \in Counters /\ seq1' \in 0 .. 2 * CounterMod - 1
        /\ seq2' \in 0 .. 2 * CounterMod - 1
    BY <1>5, CounterModAssumption
       DEF ReturnSnapshot, Retry, Typed, TypeOK, Counters
  <2>4. UNCHANGED <<writerVars, out, outstanding>>
    BY <1>5 DEF ReturnSnapshot, Retry
  <2> QED
    BY <2>1, <2>2, <2>3, <2>4 DEF Typed, TypeOK, writerVars, counters
<1> QED
  BY <1>1, <1>2, <1>3, <1>4, <1>5 DEF Snapshot

\* Every variable keeps its type although the counters wrap around: a snapshot
\* loads what it has a place for, and it is over after MaxAttempts + 1
\* attempts at the latest.
THEOREM SeqlockTyping == Spec => []TypeOK
<1>1. Init => Typed
  <2>1. 0 \in Counters /\ 0 \in 0 .. 2 * CounterMod - 1
        /\ 0 \in 0 .. MaxAttempts + 1
    BY CounterModAssumption, MaxAttemptsAssumption DEF Counters
  <2>2. NoSnapshot \in Snapshots
    BY <2>1 DEF NoSnapshot, Snapshots
  <2>3. <<>> \in Seq(Fields \cup {"seq2"})
    OBVIOUS
  <2> QED
    BY <2>1, <2>2, <2>3 DEF Init, Typed, TypeOK
<1>2. Typed /\ [Next]_vars => Typed'
  <2>1. Typed /\ UNCHANGED vars => Typed'
    BY DEF Typed, TypeOK, vars, writerVars, readerVars, counters
  <2> QED
    BY <2>1, WriterTyping, SnapshotTyping DEF Next
<1>3. Typed => TypeOK
  BY DEF Typed
<1> QED
  BY <1>1, <1>2, <1>3, PTL DEF Spec
=============================================================================
