--------------------------- MODULE LoopbackProofs ---------------------------
(***************************************************************************)
(* Proofs about an encoder and a decoder in one process, where a packet    *)
(* and the ack it causes may arrive in the middle of the commit that sends *)
(* it: whatever is lost, and although identifiers of repairs wrap around,  *)
(* a repair always has something to encode.                                *)
(***************************************************************************)
EXTENDS Loopback, EncoderLemmas, DecoderLemmas, SequenceTheorems

-----------------------------------------------------------------------------
(***************************************************************************)
(* The inductive invariant.                                                *)
(***************************************************************************)

(* How many sources have entered the window: the one being committed has.  *)
Begun == IF committing THEN enc.m_current_source_id + 1 ELSE enc.m_current_source_id

EncoderReady ==
  /\ enc \in Encoders
  /\ enc.sent = <<>>
  /\ enc.fault = "none"
  /\ committing \in BOOLEAN
  /\ enc.m_sources \subseteq 0 .. (Begun - 1)
  /\ Begun <= MaxSource + 1
  /\ enc.m_current_repair_id \in RepairIds

DecoderReady == Tidy(dec) /\ AtRest(dec)

(* The sources that a packet names.                                        *)
IsSource(p) == p.kind = "source"
IsRepair(p) == p.kind = "repair"
Named(p)    == IF IsRepair(p) THEN p.source_ids ELSE {p.id}

(* A repair starts at or before the head of the window.                    *)
Carries(p) ==
  /\ \A i \in Named(p) : i < Begun
  /\ IsRepair(p) => \A w \in enc.m_sources : Min(p.source_ids) <= w

AckPackets == {AckPacket(ids, nb) : ids \in SUBSET SourceId, nb \in Nat}

LinksInRange ==
  /\ data \in Seq(DataPackets)
  /\ \A j \in DOMAIN data : Carries(data[j])
  /\ acks \in Seq(AckPackets)

LastIdBehind ==
  /\ \A w \in enc.m_sources : dec.m_last_id <= w
  /\ dec.m_last_id <= enc.m_current_source_id

(* A source is sent before the repairs that encode it.                     *)
SourcesComeFirst ==
  \A j \in DOMAIN data : IsSource(data[j]) =>
    /\ data[j].id \notin DOMAIN dec.m_missing_sources
    /\ \A i \in DOMAIN data : IsRepair(data[i]) /\ i < j => data[j].id \notin data[i].source_ids

(* What is lacking, each repair on its way and the window follow one       *)
(* another, and their first sources never go back.                         *)
FollowsRepair(j) ==
  \A i \in DOMAIN data : IsRepair(data[i]) /\ i < j =>
    /\ Follows(dec, data[i].source_ids, data[j].source_ids)
    /\ \A s \in data[j].source_ids : Min(data[i].source_ids) <= s

RepairsFollow ==
  \A j \in DOMAIN data : IsRepair(data[j]) =>
    /\ Follows(dec, DOMAIN dec.m_missing_sources, data[j].source_ids)
    /\ Follows(dec, data[j].source_ids, enc.m_sources)
    /\ \A s \in data[j].source_ids : dec.m_last_id <= s
    /\ FollowsRepair(j)

WindowFollows == Follows(dec, DOMAIN dec.m_missing_sources, enc.m_sources)

(* The decoder knows of nothing that has not entered the window.           *)
OnlyBegun == \A i \in dec.m_sources \cup DOMAIN dec.m_missing_sources : i < Begun

(* What is acked is settled.                                               *)
AckedIsSettled == \A j \in DOMAIN acks : \A i \in acks[j].source_ids : Settled(dec, i)

Flow ==
  /\ SourcesComeFirst
  /\ RepairsFollow
  /\ WindowFollows
  /\ OnlyBegun
  /\ AckedIsSettled

(* The source being committed is in the window, no ack names it, and the   *)
(* decoder can only hear of it from the last packet of its link.           *)
CurrentIsKept ==
  committing =>
    /\ enc.m_current_source_id \in enc.m_sources
    /\ \A j \in DOMAIN acks : enc.m_current_source_id \notin acks[j].source_ids
    /\ \A j \in DOMAIN data : enc.m_current_source_id \in Named(data[j]) => j = Len(data)
    /\ data # <<>> =>
         enc.m_current_source_id \notin dec.m_sources \cup DOMAIN dec.m_missing_sources

ProcessInv ==
  /\ EncoderReady
  /\ DecoderReady
  /\ LinksInRange
  /\ LastIdBehind
  /\ Flow
  /\ CurrentIsKept

-----------------------------------------------------------------------------
(***************************************************************************)
(* Links.                                                                  *)
(***************************************************************************)

(* The next packet of a link is taken.                                     *)
LEMMA TailIs ==
  ASSUME NEW S, NEW s \in Seq(S), s # <<>>
  PROVE  /\ Head(s) = s[1] /\ 1 \in DOMAIN s
         /\ Tail(s) \in Seq(S)
         /\ Len(s) \in Nat /\ Len(Tail(s)) = Len(s) - 1
         /\ \A j \in DOMAIN Tail(s) :
              j \in Nat /\ j >= 1 /\ j + 1 \in DOMAIN s /\ Tail(s)[j] = s[j + 1]
<1>1. /\ Tail(s) \in Seq(S)
      /\ Len(Tail(s)) = Len(s) - 1
      /\ \A j \in 1 .. Len(Tail(s)) : Tail(s)[j] = s[j + 1]
  BY HeadTailProperties
<1>2. /\ Len(s) \in Nat /\ DOMAIN s = 1 .. Len(s)
      /\ Len(Tail(s)) \in Nat /\ DOMAIN Tail(s) = 1 .. Len(Tail(s))
  BY <1>1, LenProperties
<1>3. Len(s) # 0
  BY EmptySeq
<1>4. 1 \in DOMAIN s /\ Head(s) = s[1]
  BY <1>2, <1>3
<1>5. QED
  BY <1>1, <1>2, <1>4

(* A packet is sent.                                                       *)
LEMMA SentIs ==
  ASSUME NEW S, NEW s \in Seq(S), NEW p \in S
  PROVE  /\ s \o Append(<<>>, p) \in Seq(S)
         /\ Len(s) \in Nat /\ Len(s \o Append(<<>>, p)) = Len(s) + 1
         /\ \A j \in DOMAIN (s \o Append(<<>>, p)) :
              \/ j \in DOMAIN s /\ j <= Len(s) /\ j \in Nat /\ (s \o Append(<<>>, p))[j] = s[j]
              \/ j = Len(s) + 1 /\ (s \o Append(<<>>, p))[j] = p
<1> DEFINE t == s \o Append(<<>>, p)
<1>1. t = Append(s, p)
  <2>1. Append(s, p) = s \o <<p>>
    BY AppendIsConcat
  <2>2. Append(<<>>, p) = <<p>>
    OBVIOUS
  <2>3. QED
    BY <2>1, <2>2
<1>2. /\ Append(s, p) \in Seq(S)
      /\ Len(Append(s, p)) = Len(s) + 1
      /\ \A j \in 1 .. Len(s) : Append(s, p)[j] = s[j]
      /\ Append(s, p)[Len(s) + 1] = p
  BY AppendProperties
<1> HIDE DEF t
<1>3. /\ Len(s) \in Nat /\ DOMAIN s = 1 .. Len(s)
      /\ DOMAIN t = 1 .. Len(t)
  BY <1>1, <1>2, LenProperties
<1>4. \A j \in DOMAIN t : \/ j \in DOMAIN s /\ j <= Len(s) /\ j \in Nat /\ t[j] = s[j]
                          \/ j = Len(s) + 1 /\ t[j] = p
  BY <1>1, <1>2, <1>3
<1>5. t \in Seq(S) /\ Len(t) = Len(s) + 1
  BY <1>1, <1>2
<1>6. QED
  BY <1>3, <1>4, <1>5 DEF t

(* At most one ack is sent, the answer to a call.                          *)
LEMMA AnswerIs ==
  ASSUME NEW S, NEW s \in Seq(S), NEW T, T = {} \/ \E a \in S : T = {a}
  PROVE  /\ s \o SetToSeq(T) \in Seq(S)
         /\ \A j \in DOMAIN (s \o SetToSeq(T)) :
              \/ \E i \in DOMAIN s : (s \o SetToSeq(T))[j] = s[i]
              \/ (s \o SetToSeq(T))[j] \in T
<1> DEFINE f == SetToSeq(T)
<1>1. T \subseteq S /\ Cardinality(T) \in Nat /\ \E g \in [1 .. Cardinality(T) -> T] : IsInjective(g)
  <2>1. CASE T = {}
    <3>1. Cardinality(T) = 0
      BY <2>1, FS_EmptySet
    <3> DEFINE g == [i \in 1 .. 0 |-> i]
    <3>2. g \in [1 .. 0 -> T] /\ IsInjective(g)
      BY <2>1 DEF IsInjective
    <3> HIDE DEF g
    <3>3. g \in [1 .. Cardinality(T) -> T]
      BY <3>1, <3>2
    <3>4. T \subseteq S /\ Cardinality(T) \in Nat
      BY <2>1, <3>1
    <3>5. QED
      BY <3>2, <3>3, <3>4
  <2>2. ASSUME NEW a \in S, T = {a}
        PROVE  T \subseteq S /\ Cardinality(T) \in Nat
                 /\ \E g \in [1 .. Cardinality(T) -> T] : IsInjective(g)
    <3>1. Cardinality(T) = 1
      BY <2>2, FS_Singleton
    <3> DEFINE g == [i \in 1 .. 1 |-> a]
    <3>2. g \in [1 .. 1 -> T] /\ IsInjective(g)
      BY <2>2 DEF IsInjective
    <3> HIDE DEF g
    <3>3. g \in [1 .. Cardinality(T) -> T]
      BY <3>1, <3>2
    <3>4. T \subseteq S /\ Cardinality(T) \in Nat
      BY <2>2, <3>1
    <3>5. QED
      BY <3>2, <3>3, <3>4
  <2>3. QED
    BY <2>1, <2>2
<1>2. f \in [1 .. Cardinality(T) -> T]
  BY <1>1 DEF SetToSeq
<1> HIDE DEF f
<1>3. f \in Seq(T)
  BY <1>1, <1>2
<1>4. f \in Seq(S)
  BY <1>1, <1>3, SeqMonotonic
<1>5. /\ s \o f \in Seq(S)
      /\ Len(s \o f) = Len(s) + Len(f)
      /\ \A j \in 1 .. Len(s) + Len(f) : (s \o f)[j] = IF j <= Len(s) THEN s[j] ELSE f[j - Len(s)]
  BY <1>4, ConcatProperties
<1>6. /\ Len(s) \in Nat /\ DOMAIN s = 1 .. Len(s)
      /\ Len(f) \in Nat /\ DOMAIN f = 1 .. Len(f) /\ f \in [1 .. Len(f) -> T]
  BY <1>3, LenProperties
<1>7. DOMAIN (s \o f) = 1 .. Len(s) + Len(f)
  BY <1>5, LenProperties
<1>8. ASSUME NEW j \in DOMAIN (s \o f)
      PROVE  (\E i \in DOMAIN s : (s \o f)[j] = s[i]) \/ (s \o f)[j] \in T
  <2>1. CASE j <= Len(s)
    BY <1>5, <1>6, <1>7, <2>1
  <2>2. CASE ~(j <= Len(s))
    <3>1. j - Len(s) \in 1 .. Len(f) /\ (s \o f)[j] = f[j - Len(s)]
      BY <1>5, <1>6, <1>7, <2>2
    <3>2. QED
      BY <1>6, <3>1
  <2>3. QED
    BY <2>1, <2>2
<1>9. QED
  BY <1>5, <1>8 DEF f

(* What a packet is, as the properties of Flow name it.                    *)
LEMMA DataPacketIs ==
  ASSUME NEW p \in DataPackets
  PROVE  /\ IsSource(p) => /\ p = SourcePacket(p.id) /\ p.id \in SourceId
                           /\ Named(p) = {p.id}
         /\ IsRepair(p) => /\ \E r \in RepairId : p = RepairPacket(r, p.source_ids)
                           /\ p.source_ids \in (SUBSET SourceId) \ {{}}
                           /\ Named(p) = p.source_ids
         /\ IsSource(p) \/ IsRepair(p)
         /\ ~(IsSource(p) /\ IsRepair(p))
         /\ Named(p) \in SUBSET SourceId
<1>1. ASSUME NEW s \in SourceId, p = SourcePacket(s)
      PROVE  /\ IsSource(p) /\ ~IsRepair(p) /\ p.id = s /\ Named(p) = {s}
  BY <1>1 DEF SourcePacket, IsSource, IsRepair, Named
<1>2. ASSUME NEW r \in RepairId, NEW ids \in (SUBSET SourceId) \ {{}}, p = RepairPacket(r, ids)
      PROVE  /\ ~IsSource(p) /\ IsRepair(p) /\ p.source_ids = ids /\ Named(p) = ids
  BY <1>2 DEF RepairPacket, IsSource, IsRepair, Named
<1>3. QED
  BY <1>1, <1>2 DEF DataPackets

LEMMA AckPacketIs ==
  ASSUME NEW a \in AckPackets
  PROVE  /\ a.source_ids \in SUBSET SourceId
         /\ \E nb \in Nat : a = AckPacket(a.source_ids, nb)
BY DEF AckPackets, AckPacket

(* Both ends in numbers.                                                   *)
LEMMA ProcessNumbers ==
  ASSUME ProcessInv
  PROVE  /\ enc \in Encoders
         /\ enc.m_current_source_id \in Nat
         /\ Begun \in Nat /\ Begun <= MaxSource + 1
         /\ Begun = IF committing THEN enc.m_current_source_id + 1 ELSE enc.m_current_source_id
         /\ enc.m_sources \in SUBSET Nat
         /\ \A w \in enc.m_sources : w < Begun
         /\ SourceId \subseteq Nat
         /\ dec \in Decoders
         /\ dec.m_last_id \in Nat
         /\ dec.m_sources \in SUBSET SourceId
         /\ DOMAIN dec.m_missing_sources \in SUBSET SourceId
<1>1. EncoderReady /\ DecoderReady
  BY DEF ProcessInv
<1>2. enc \in Encoders /\ enc.m_current_source_id \in Nat
  BY <1>1 DEF EncoderReady, Encoders
<1>3. Begun = IF committing THEN enc.m_current_source_id + 1 ELSE enc.m_current_source_id
  BY DEF Begun
<1>4. Begun \in Nat /\ Begun <= MaxSource + 1
  BY <1>1, <1>2, <1>3 DEF EncoderReady
<1>5. enc.m_sources \in SUBSET Nat /\ \A w \in enc.m_sources : w < Begun
  BY <1>1, <1>4 DEF EncoderReady
<1>6. Orderly(dec)
  BY <1>1 DEF DecoderReady, Tidy
<1>7. QED
  BY <1>2, <1>3, <1>4, <1>5, <1>6, OrderlyFacts

(* A packet on its way to the decoder.                                     *)
LEMMA LinkedPacketIs ==
  ASSUME ProcessInv, NEW j \in DOMAIN data
  PROVE  /\ j \in Nat /\ j >= 1 /\ j <= Len(data) /\ Len(data) \in Nat
         /\ data[j] \in DataPackets
         /\ Carries(data[j])
         /\ Named(data[j]) \in SUBSET Nat
         /\ \A i \in Named(data[j]) : i < Begun
         /\ IsRepair(data[j]) =>
              /\ Named(data[j]) = data[j].source_ids
              /\ data[j].source_ids \in (SUBSET SourceId) \ {{}}
              /\ Min(data[j].source_ids) \in data[j].source_ids
              /\ \A w \in enc.m_sources : Min(data[j].source_ids) <= w
<1>1. data \in Seq(DataPackets) /\ Carries(data[j])
  BY DEF ProcessInv, LinksInRange
<1>2. DOMAIN data = 1 .. Len(data) /\ Len(data) \in Nat /\ data[j] \in DataPackets
  BY <1>1, LenProperties, ElementOfSeq
<1>3. Named(data[j]) \in SUBSET Nat /\ \A i \in Named(data[j]) : i < Begun
  BY <1>1, <1>2, ProcessNumbers, DataPacketIs DEF Carries
<1>4. ASSUME IsRepair(data[j])
      PROVE  /\ Named(data[j]) = data[j].source_ids
             /\ data[j].source_ids \in (SUBSET SourceId) \ {{}}
             /\ Min(data[j].source_ids) \in data[j].source_ids
             /\ \A w \in enc.m_sources : Min(data[j].source_ids) <= w
  <2>1. /\ Named(data[j]) = data[j].source_ids
        /\ data[j].source_ids \in (SUBSET SourceId) \ {{}}
    BY <1>2, <1>4, DataPacketIs
  <2>2. data[j].source_ids \in SUBSET Nat /\ data[j].source_ids # {}
    BY <1>3, <2>1
  <2>3. Min(data[j].source_ids) \in data[j].source_ids
    BY <2>2, MinIs
  <2>4. QED
    BY <1>1, <1>4, <2>1, <2>3 DEF Carries
<1>5. QED
  BY <1>1, <1>2, <1>3, <1>4

-----------------------------------------------------------------------------
(***************************************************************************)
(* At first.                                                               *)
(***************************************************************************)
LEMMA ProcessInit == Init => ProcessInv
<1> SUFFICES ASSUME Init PROVE ProcessInv
  OBVIOUS
<1>1. PICK type \in CodeTypes, order \in Orders :
        /\ enc = [NewEncoder EXCEPT !.m_rate = Rate, !.m_window_size = WindowSize,
                                    !.systematic = type]
        /\ dec = NewDecoder(order)
  BY DEF Init
<1>2. data = <<>> /\ acks = <<>> /\ committing = FALSE
  BY DEF Init
<1>3. type \in BOOLEAN /\ order \in BOOLEAN /\ Rate \in Nat \ {0} /\ WindowSize \in Nat \ {0}
  BY LoopbackAssumption
<1>4. EncoderReady
  <2>1. NewEncoder \in Encoders
    BY NewEncoderIs
  <2>2. enc \in Encoders
    BY <1>1, <1>3, <2>1 DEF Encoders
  <2>3. /\ enc.sent = <<>> /\ enc.fault = "none" /\ enc.m_sources = {}
        /\ enc.m_current_source_id = 0 /\ enc.m_current_repair_id = 0
    BY <1>1 DEF NewEncoder
  <2>4. 0 \in RepairIds
    BY EncoderAssumption DEF RepairIds
  <2>5. Begun = 0 /\ 0 <= MaxSource + 1
    BY <1>2, <2>3, PacketsAssumption DEF Begun
  <2>6. QED
    BY <1>2, <2>2, <2>3, <2>4, <2>5 DEF EncoderReady
<1>5. /\ Sound(dec) /\ AtRest(dec)
      /\ dec.fault = "none"
      /\ dec.m_last_id = 0
      /\ dec.m_first_missing = 0
      /\ dec.m_sources = {}
      /\ dec.m_ordered_sources = {}
      /\ DOMAIN dec.m_repairs = {}
      /\ DOMAIN dec.m_missing_sources = {}
  <2>1. dec.m_ack_frequency \in BOOLEAN /\ SetAckFrequency(dec, dec.m_ack_frequency) = dec
    BY <1>1 DEF NewDecoder, SetAckFrequency
  <2>2. QED
    BY <1>1, <1>3, <2>1, NewDecoderIs
<1>6. DecoderReady
  BY <1>5, NewIsTidy DEF DecoderReady
<1>7. LinksInRange
  <2>1. <<>> \in Seq(DataPackets) /\ <<>> \in Seq(AckPackets) /\ DOMAIN <<>> = {}
    OBVIOUS
  <2>2. QED
    BY <1>2, <2>1 DEF LinksInRange
<1>8. LastIdBehind
  <2>1. enc.m_sources = {} /\ enc.m_current_source_id = 0
    BY <1>1 DEF NewEncoder
  <2>2. QED
    BY <1>5, <2>1 DEF LastIdBehind
<1>9. Flow
  BY <1>2, <1>5
  DEF Flow, SourcesComeFirst, RepairsFollow, WindowFollows, Follows, OnlyBegun, AckedIsSettled
<1>10. CurrentIsKept
  BY <1>2 DEF CurrentIsKept
<1>11. QED
  BY <1>4, <1>6, <1>7, <1>8, <1>9, <1>10 DEF ProcessInv

-----------------------------------------------------------------------------
(***************************************************************************)
(* The encoder's side: each step sends one packet at most.                 *)
(***************************************************************************)

(* The window becomes V: n may enter it, and only its oldest sources leave *)
(* it.                                                                     *)
WindowBecomes(V, n) ==
  /\ V \subseteq enc.m_sources \cup {n}
  /\ \A s \in enc.m_sources \ V : \A k \in V : s < k

(* The packet is the source that enters the window, or a repair of it.     *)
IsOf(p, V, n) ==
  /\ p \in DataPackets
  /\ IsSource(p) => p.id = n
  /\ IsRepair(p) => p.source_ids = V

LEMMA SendKeeps ==
  ASSUME ProcessInv, NEW V, NEW p, WindowBecomes(V, Begun), IsOf(p, V, Begun),
         data' = data \o Append(<<>>, p), dec' = dec, acks' = acks,
         EncoderReady', enc'.m_sources = V,
         Begun' = Begun \/ Begun' = Begun + 1,
         IsSource(p) => Begun' = Begun + 1,
         enc.m_current_source_id <= enc'.m_current_source_id
  PROVE  LinksInRange' /\ LastIdBehind' /\ Flow'
<1> DEFINE X == DOMAIN dec.m_missing_sources
           n == Begun
<1>1. /\ LinksInRange /\ LastIdBehind /\ SourcesComeFirst /\ RepairsFollow /\ WindowFollows
      /\ OnlyBegun /\ AckedIsSettled
  BY DEF ProcessInv, Flow
<1>2. /\ enc \in Encoders /\ enc.m_current_source_id \in Nat
      /\ n \in Nat /\ n <= Begun' /\ enc.m_current_source_id <= n
      /\ enc.m_sources \in SUBSET Nat /\ \A w \in enc.m_sources : w < n
      /\ SourceId \subseteq Nat
      /\ dec.m_last_id \in Nat
      /\ dec.m_sources \in SUBSET SourceId /\ X \in SUBSET SourceId
  BY ProcessNumbers
<1>3. /\ enc' \in Encoders /\ enc'.m_current_source_id \in Nat
      /\ Begun' \in Nat /\ \A v \in V : v < Begun'
  <2>1. enc' \in Encoders /\ V \subseteq 0 .. (Begun' - 1)
    BY DEF EncoderReady
  <2>2. enc'.m_current_source_id \in Nat
    BY <2>1 DEF Encoders
  <2>3. Begun' \in Nat
    BY <1>2
  <2>4. \A b \in Nat : \A v \in 0 .. (b - 1) : v < b
    OBVIOUS
  <2>5. \A v \in V : v < Begun'
    BY <2>1, <2>3, <2>4
  <2>6. QED
    BY <2>1, <2>2, <2>3, <2>5
<1>4. /\ data' \in Seq(DataPackets)
      /\ \A j \in DOMAIN data' :
           \/ j \in DOMAIN data /\ data'[j] = data[j] /\ j <= Len(data) /\ j \in Nat
           \/ j = Len(data) + 1 /\ data'[j] = p
      /\ Len(data) \in Nat
  BY <1>1, SentIs DEF LinksInRange, IsOf
<1>5. /\ IsSource(p) => p.id = n /\ Named(p) = {n} /\ Begun' = n + 1
      /\ IsRepair(p) => p.source_ids = V /\ Named(p) = V /\ V # {}
      /\ ~(IsSource(p) /\ IsRepair(p))
      /\ IsSource(p) \/ IsRepair(p)
  BY DataPacketIs DEF IsOf
<1>6. /\ V \subseteq enc.m_sources \cup {n}
      /\ \A s \in enc.m_sources \ V : \A k \in V : s < k
  BY DEF WindowBecomes
<1>7. V \in SUBSET Nat /\ \A w \in V : w <= n
  BY <1>2, <1>6
<1>8. \A v \in V : dec.m_last_id <= v
  BY <1>1, <1>2, <1>6 DEF LastIdBehind
<1>9. \A i \in dec.m_sources \cup X : i \in Nat /\ i < n
  BY <1>1, <1>2 DEF OnlyBegun
<1>10. Follows(dec, X, V)
  <2>1. X \in SUBSET Nat /\ \A i \in X : i < n
    BY <1>9
  <2>2. Follows(dec, X, enc.m_sources)
    BY <1>1 DEF WindowFollows
  <2>3. QED
    BY <1>6, <2>1, <2>2, StillFollows
<1>11. ASSUME NEW j \in DOMAIN data
       PROVE  /\ Carries(data[j])
              /\ Named(data[j]) \in SUBSET Nat
              /\ \A i \in Named(data[j]) : i < n
              /\ IsRepair(data[j]) =>
                   /\ Named(data[j]) = data[j].source_ids
                   /\ Follows(dec, data[j].source_ids, V)
                   /\ \A w \in V : Min(data[j].source_ids) <= w
  <2>1. /\ Carries(data[j])
        /\ Named(data[j]) \in SUBSET Nat
        /\ \A i \in Named(data[j]) : i < n
        /\ IsRepair(data[j]) =>
             /\ Named(data[j]) = data[j].source_ids
             /\ Min(data[j].source_ids) \in data[j].source_ids
             /\ \A w \in enc.m_sources : Min(data[j].source_ids) <= w
    BY LinkedPacketIs
  <2>2. ASSUME IsRepair(data[j])
        PROVE  Follows(dec, data[j].source_ids, V)
    <3>1. Follows(dec, data[j].source_ids, enc.m_sources)
      BY <1>1, <2>2 DEF RepairsFollow
    <3>2. data[j].source_ids \in SUBSET Nat /\ \A i \in data[j].source_ids : i < n
      BY <2>1, <2>2
    <3>3. QED
      BY <1>6, <3>1, <3>2, StillFollows
  <2>3. ASSUME IsRepair(data[j])
        PROVE  \A w \in V : Min(data[j].source_ids) <= w
    <3>1. Min(data[j].source_ids) \in Nat /\ Min(data[j].source_ids) < n
      BY <2>1, <2>3
    <3>2. QED
      BY <1>2, <1>6, <2>1, <2>3, <3>1
  <2>4. QED
    BY <2>1, <2>2, <2>3
<1>12. IsRepair(p) => \A w \in V : Min(V) <= w
  <2>1. V # {} => \A w \in V : Min(V) <= w
    BY <1>7, MinIs
  <2>2. QED
    BY <1>5, <2>1
<1> HIDE DEF X, n
<1>13. LinksInRange'
  <2>1. SUFFICES ASSUME NEW j \in DOMAIN data'
                 PROVE  /\ \A i \in Named(data'[j]) : i < Begun'
                        /\ IsRepair(data'[j]) => \A w \in V : Min(data'[j].source_ids) <= w
    BY <1>1, <1>4 DEF LinksInRange, Carries, Named, IsRepair
  <2>2. CASE j \in DOMAIN data /\ data'[j] = data[j]
    BY <1>2, <1>3, <1>11, <2>2
  <2>3. CASE data'[j] = p
    <3>1. \A i \in Named(p) : i < Begun'
      <4>1. CASE IsSource(p)
        BY <1>2, <1>5, <4>1
      <4>2. CASE IsRepair(p)
        BY <1>3, <1>5, <4>2
      <4>3. QED
        BY <1>5, <4>1, <4>2
    <3>2. QED
      BY <1>5, <1>12, <2>3, <3>1
  <2>4. QED
    BY <1>4, <2>2, <2>3
<1>14. LastIdBehind'
  <2>1. dec.m_last_id <= enc.m_current_source_id
    BY <1>1 DEF LastIdBehind
  <2>2. dec.m_last_id <= enc'.m_current_source_id
    BY <1>2, <1>3, <2>1
  <2>3. QED
    BY <1>8, <2>2 DEF LastIdBehind
<1>15. SourcesComeFirst'
  <2>1. SUFFICES ASSUME NEW j \in DOMAIN data', IsSource(data'[j])
                 PROVE  /\ data'[j].id \notin X
                        /\ \A i \in DOMAIN data' : IsRepair(data'[i]) /\ i < j =>
                             data'[j].id \notin data'[i].source_ids
    BY DEF SourcesComeFirst, IsSource, IsRepair, X
  <2>2. CASE j \in DOMAIN data /\ data'[j] = data[j] /\ j <= Len(data) /\ j \in Nat
    <3>1. data[j].id \notin X
      BY <1>1, <2>1, <2>2 DEF SourcesComeFirst, X
    <3>2. ASSUME NEW i \in DOMAIN data', IsRepair(data'[i]), i < j
          PROVE  data[j].id \notin data'[i].source_ids
      <4>1. i \in DOMAIN data /\ data'[i] = data[i]
        BY <1>4, <2>2, <3>2
      <4>2. QED
        BY <1>1, <2>1, <2>2, <3>2, <4>1 DEF SourcesComeFirst
    <3>3. QED
      BY <2>2, <3>1, <3>2
  <2>3. CASE j = Len(data) + 1 /\ data'[j] = p
    <3>1. p.id = n /\ ~IsRepair(p)
      BY <1>5, <2>1, <2>3
    <3>2. n \notin X
      BY <1>2, <1>9
    <3>3. ASSUME NEW i \in DOMAIN data', IsRepair(data'[i])
          PROVE  n \notin data'[i].source_ids
      <4>1. i \in DOMAIN data /\ data'[i] = data[i]
        BY <1>4, <3>1, <3>3
      <4>2. data[i].source_ids \in SUBSET Nat /\ \A k \in data[i].source_ids : k < n
        BY <1>11, <3>3, <4>1
      <4>3. QED
        BY <1>2, <4>1, <4>2
    <3>4. QED
      BY <2>3, <3>1, <3>2, <3>3
  <2>4. QED
    BY <1>4, <2>2, <2>3
<1>16. ASSUME NEW j \in DOMAIN data', IsRepair(data'[j])
       PROVE  /\ Follows(dec, X, data'[j].source_ids)
              /\ Follows(dec, data'[j].source_ids, V)
              /\ \A s \in data'[j].source_ids : dec.m_last_id <= s
              /\ \A i \in DOMAIN data' : IsRepair(data'[i]) /\ i < j =>
                   /\ Follows(dec, data'[i].source_ids, data'[j].source_ids)
                   /\ \A s \in data'[j].source_ids : Min(data'[i].source_ids) <= s
  <2>1. CASE j \in DOMAIN data /\ data'[j] = data[j] /\ j <= Len(data) /\ j \in Nat
    <3>1. /\ Follows(dec, X, data[j].source_ids)
          /\ \A s \in data[j].source_ids : dec.m_last_id <= s
          /\ FollowsRepair(j)
      BY <1>1, <1>16, <2>1 DEF RepairsFollow, X
    <3>2. \A i \in DOMAIN data' : i < j => i \in DOMAIN data /\ data'[i] = data[i]
      BY <1>4, <2>1
    <3>3. Follows(dec, data[j].source_ids, V)
      BY <1>11, <1>16, <2>1
    <3>4. QED
      BY <2>1, <3>1, <3>2, <3>3 DEF FollowsRepair
  <2>2. CASE data'[j] = p
    <3>1. p.source_ids = V
      BY <1>5, <1>16, <2>2
    <3>2. Follows(dec, V, V)
      BY DEF Follows
    <3>3. ASSUME NEW i \in DOMAIN data', IsRepair(data'[i])
          PROVE  /\ Follows(dec, data'[i].source_ids, V)
                 /\ \A s \in V : Min(data'[i].source_ids) <= s
      <4>1. CASE i \in DOMAIN data /\ data'[i] = data[i]
        BY <1>11, <3>3, <4>1
      <4>2. CASE data'[i] = p
        BY <1>5, <1>12, <3>2, <3>3, <4>2
      <4>3. QED
        BY <1>4, <4>1, <4>2
    <3>4. QED
      BY <1>8, <1>10, <2>2, <3>1, <3>2, <3>3
  <2>3. QED
    BY <1>4, <2>1, <2>2
<1>17. RepairsFollow'
  BY <1>16 DEF RepairsFollow, FollowsRepair, IsRepair, X, Follows, Settled
<1>18. WindowFollows'
  BY <1>10 DEF WindowFollows, Follows, Settled, X
<1>19. OnlyBegun'
  <2>1. \A i \in dec.m_sources \cup X : i < Begun'
    BY <1>2, <1>3, <1>9
  <2>2. QED
    BY <2>1 DEF OnlyBegun, X
<1>20. AckedIsSettled'
  BY <1>1 DEF AckedIsSettled, Settled
<1>21. QED
  BY <1>13, <1>14, <1>15, <1>17, <1>18, <1>19, <1>20 DEF Flow

(* What a step of the encoder leaves.                                      *)
LEMMA StepLeaves ==
  ASSUME NEW c \in Encoders, EncoderSends(c)
  PROVE  /\ enc' \in Encoders
         /\ enc'.sent = <<>>
         /\ enc'.fault = c.fault
         /\ enc'.m_sources = c.m_sources
         /\ enc'.m_current_source_id = c.m_current_source_id
         /\ enc'.m_current_repair_id = c.m_current_repair_id
         /\ data' = data \o c.sent /\ dec' = dec /\ acks' = acks
BY SettleEncoderIs DEF EncoderSends, SameSettings

(* A repair that can be sent: its identifier is one the model has.         *)
LEMMA RepairIsOf ==
  ASSUME NEW r \in RepairIds, NEW V \in (SUBSET SourceId) \ {{}}, NEW n
  PROVE  IsOf(RepairPacket(r, V), V, n)
<1> DEFINE p == RepairPacket(r, V)
<1>1. r \in RepairId
  <2>1. r \in Int /\ 0 <= r /\ r <= 2 ^ RepairWidth - 1 /\ 2 ^ RepairWidth \in Int
    BY EncoderAssumption DEF RepairIds
  <2>2. QED
    BY <2>1, LoopbackAssumption, PacketsAssumption DEF RepairId
<1>2. p \in DataPackets
  BY <1>1 DEF DataPackets
<1>3. p.kind = "repair" /\ p.source_ids = V
  BY DEF RepairPacket
<1>4. QED
  BY <1>2, <1>3 DEF IsOf, IsSource

(* The window and what is on its way name nothing but identifiers.         *)
LEMMA BelowIsSource ==
  ASSUME NEW B \in Nat, B <= MaxSource + 1, NEW V, V \subseteq 0 .. (B - 1)
  PROVE  V \in SUBSET SourceId
<1>1. 0 .. (B - 1) \subseteq 0 .. MaxSource
  BY PacketsAssumption
<1>2. QED
  BY <1>1 DEF SourceId

LEMMA BeginCommitKeeps == ProcessInv /\ BeginCommit => ProcessInv'
<1> SUFFICES ASSUME ProcessInv, BeginCommit PROVE ProcessInv'
  OBVIOUS
<1> DEFINE c   == CommitSource(enc)
           n   == enc.m_current_source_id
           V   == Kept(enc) \cup {n}
           p   == IF enc.systematic THEN SourcePacket(n) ELSE RepairPacket(enc.m_current_repair_id, V)
<1>1. EncoderReady /\ DecoderReady /\ OnlyBegun /\ AckedIsSettled /\ LastIdBehind /\ LinksInRange
  BY DEF ProcessInv, Flow
<1>2. ~committing /\ committing' = TRUE /\ EncoderSends(c) /\ n <= MaxSource
  BY DEF BeginCommit
<1>3. /\ Begun = n /\ n \in Nat
      /\ enc \in Encoders /\ enc.m_sources \in SUBSET Nat
      /\ \A w \in enc.m_sources : w < n
      /\ dec.m_last_id \in Nat
      /\ dec.m_sources \in SUBSET SourceId
      /\ DOMAIN dec.m_missing_sources \in SUBSET SourceId
      /\ SourceId \subseteq Nat
  BY <1>2, ProcessNumbers
<1>4. Committed(enc) /\ enc.sent = <<>> /\ enc.fault = "none" /\ enc.m_current_repair_id \in RepairIds
  BY <1>1, <1>3 DEF EncoderReady, Committed
<1>5. /\ SameSettings(enc, c)
      /\ c.m_sources = V
      /\ c.m_current_source_id = n
      /\ c.fault = "none"
      /\ c.sent = Append(<<>>, p)
      /\ c.m_current_repair_id \in RepairIds
  BY <1>3, <1>4, CommitSourceIs
<1>6. /\ Kept(enc) \subseteq enc.m_sources
      /\ \A s \in enc.m_sources \ Kept(enc) : \A k \in Kept(enc) : s < k
  BY <1>3, <1>4, KeptIs
<1> HIDE DEF c
<1>7. /\ enc' \in Encoders /\ enc'.sent = <<>> /\ enc'.fault = "none"
      /\ enc'.m_sources = V /\ enc'.m_current_source_id = n
      /\ enc'.m_current_repair_id \in RepairIds
      /\ data' = data \o Append(<<>>, p) /\ dec' = dec /\ acks' = acks
  <2>1. c \in Encoders
    BY <1>5 DEF SameSettings
  <2>2. QED
    BY <1>2, <1>5, <2>1, StepLeaves
<1>8. Begun' = n + 1 /\ Begun' <= MaxSource + 1
  BY <1>2, <1>3, <1>7, PacketsAssumption DEF Begun
<1>9. V \subseteq 0 .. n /\ n \in V
  BY <1>3, <1>6
<1>10. V \in (SUBSET SourceId) \ {{}}
  <2>1. n + 1 \in Nat /\ n + 1 <= MaxSource + 1 /\ (n + 1) - 1 = n
    BY <1>2, <1>3, PacketsAssumption
  <2>2. QED
    BY <1>9, <2>1, BelowIsSource
<1>11. WindowBecomes(V, Begun)
  BY <1>3, <1>6 DEF WindowBecomes
<1> HIDE DEF V
<1>12. IsOf(p, V, n)
  <2>1. CASE enc.systematic
    <3>1. n \in SourceId
      BY <1>9, <1>10
    <3>2. SourcePacket(n) \in DataPackets
      BY <3>1 DEF DataPackets
    <3>3. SourcePacket(n).kind = "source" /\ SourcePacket(n).id = n
      BY DEF SourcePacket
    <3>4. IsOf(SourcePacket(n), V, n)
      BY <3>2, <3>3 DEF IsOf, IsRepair
    <3>5. QED
      BY <2>1, <3>4
  <2>2. CASE ~enc.systematic
    <3>1. IsOf(RepairPacket(enc.m_current_repair_id, V), V, n)
      BY <1>4, <1>10, RepairIsOf
    <3>2. QED
      BY <2>2, <3>1
  <2>3. QED
    BY <2>1, <2>2
<1> HIDE DEF p, n
<1>13. EncoderReady'
  <2>1. enc'.m_sources \subseteq 0 .. (Begun' - 1)
    BY <1>3, <1>7, <1>8, <1>9
  <2>2. QED
    BY <1>2, <1>7, <1>8, <2>1 DEF EncoderReady
<1>14. LinksInRange' /\ LastIdBehind' /\ Flow'
  <2>1. /\ Begun' = Begun + 1 /\ IsOf(p, V, Begun)
        /\ enc.m_current_source_id <= enc'.m_current_source_id
    BY <1>3, <1>7, <1>8, <1>12 DEF n
  <2>2. QED
    BY <1>7, <1>11, <1>13, <2>1, SendKeeps
<1>15. DecoderReady'
  BY <1>1, <1>7 DEF DecoderReady
<1>16. CurrentIsKept'
  <2>1. ASSUME NEW j \in DOMAIN acks
        PROVE  n \notin acks[j].source_ids
    <3>1. ~Settled(dec, n)
      BY <1>1, <1>3 DEF Settled, OnlyBegun, LastIdBehind, n
    <3>2. QED
      BY <1>1, <3>1 DEF AckedIsSettled
  <2>2. /\ \A j \in DOMAIN data' :
             \/ j \in DOMAIN data /\ data'[j] = data[j]
             \/ j = Len(data) + 1 /\ data'[j] = p
        /\ Len(data') = Len(data) + 1
    BY <1>1, <1>7, <1>12, SentIs DEF LinksInRange, IsOf
  <2>3. ASSUME NEW j \in DOMAIN data', n \in Named(data'[j])
        PROVE  j = Len(data')
    <3>1. ASSUME j \in DOMAIN data, data'[j] = data[j]
          PROVE  FALSE
      BY <1>3, <2>3, <3>1, LinkedPacketIs
    <3>2. QED
      BY <2>2, <3>1
  <2>4. n \notin dec.m_sources \cup DOMAIN dec.m_missing_sources
    BY <1>1, <1>3 DEF OnlyBegun
  <2>5. QED
    BY <1>7, <1>9, <2>1, <2>3, <2>4 DEF CurrentIsKept, Named, IsRepair
<1>17. QED
  BY <1>13, <1>14, <1>15, <1>16 DEF ProcessInv

(* A step sends nothing and tells the decoder nothing: sources that it has *)
(* settled may leave the window.                                           *)
LEMMA QuietKeeps ==
  ASSUME ProcessInv, data' = data, SameMembers(dec, dec'), Begun' = Begun,
         NEW ids, \A i \in ids : Settled(dec, i), enc'.m_sources = enc.m_sources \ ids,
         enc'.m_current_source_id \in Nat,
         enc.m_current_source_id <= enc'.m_current_source_id,
         acks' \in Seq(AckPackets),
         \A j \in DOMAIN acks' : \A i \in acks'[j].source_ids : Settled(dec, i)
  PROVE  LinksInRange' /\ LastIdBehind' /\ Flow'
<1> DEFINE X == DOMAIN dec.m_missing_sources
           V == enc.m_sources \ ids
<1>1. /\ LinksInRange /\ LastIdBehind /\ SourcesComeFirst /\ RepairsFollow /\ WindowFollows
      /\ OnlyBegun /\ AckedIsSettled
  BY DEF ProcessInv, Flow
<1>2. /\ dec'.m_last_id = dec.m_last_id /\ dec'.m_sources = dec.m_sources
      /\ dec'.m_missing_sources = dec.m_missing_sources
  BY DEF SameMembers
<1>3. ASSUME NEW Y, Follows(dec, Y, enc.m_sources)
      PROVE  Follows(dec, Y, V)
  BY <1>3, AckedFollows
<1> HIDE DEF X, V
<1>4. LinksInRange'
  <2>1. \A j \in DOMAIN data : Carries(data[j])
    BY <1>1 DEF LinksInRange
  <2>2. ASSUME NEW j \in DOMAIN data
        PROVE  /\ \A i \in Named(data[j]) : i < Begun
               /\ IsRepair(data[j]) => \A w \in V : Min(data[j].source_ids) <= w
    BY <2>1 DEF Carries, V
  <2>3. ASSUME NEW j \in DOMAIN data'
        PROVE  Carries(data[j])'
    BY <2>2, <2>3 DEF Carries, Named, IsRepair, V
  <2>4. QED
    BY <1>1, <2>3 DEF LinksInRange
<1>5. LastIdBehind'
  <2>1. /\ \A w \in enc.m_sources : dec.m_last_id <= w
        /\ dec.m_last_id <= enc.m_current_source_id
    BY <1>1 DEF LastIdBehind
  <2>2. dec.m_last_id <= enc'.m_current_source_id
    BY <2>1, ProcessNumbers
  <2>3. QED
    BY <1>2, <2>1, <2>2 DEF LastIdBehind
<1>6. SourcesComeFirst'
  BY <1>1, <1>2 DEF SourcesComeFirst, IsSource, IsRepair
<1>7. RepairsFollow'
  <2>1. SUFFICES ASSUME NEW j \in DOMAIN data, IsRepair(data[j])
                 PROVE  /\ Follows(dec, X, data[j].source_ids)
                        /\ Follows(dec, data[j].source_ids, V)
                        /\ \A s \in data[j].source_ids : dec.m_last_id <= s
                        /\ FollowsRepair(j)
    BY <1>2 DEF RepairsFollow, FollowsRepair, IsRepair, X, V, Follows, Settled
  <2>2. /\ Follows(dec, X, data[j].source_ids)
        /\ Follows(dec, data[j].source_ids, enc.m_sources)
        /\ \A s \in data[j].source_ids : dec.m_last_id <= s
        /\ FollowsRepair(j)
    BY <1>1, <2>1 DEF RepairsFollow, X
  <2>3. QED
    BY <1>3, <2>2
<1>8. WindowFollows'
  <2>1. Follows(dec, X, V)
    BY <1>1, <1>3 DEF WindowFollows, X
  <2>2. QED
    BY <1>2, <2>1 DEF WindowFollows, Follows, Settled, X, V
<1>9. OnlyBegun' /\ AckedIsSettled'
  BY <1>1, <1>2 DEF OnlyBegun, AckedIsSettled, Settled
<1>10. QED
  BY <1>4, <1>5, <1>6, <1>7, <1>8, <1>9 DEF Flow

(* The source being committed is in the window, so that a repair of it has *)
(* something to encode.                                                    *)
LEMMA EndCommitKeeps == ProcessInv /\ EndCommit => ProcessInv'
<1> SUFFICES ASSUME ProcessInv, EndCommit PROVE ProcessInv'
  OBVIOUS
<1> DEFINE c == CommitRepair(enc)
           n == enc.m_current_source_id
           W == enc.m_sources
           p == RepairPacket(enc.m_current_repair_id, W)
<1>1. EncoderReady /\ DecoderReady /\ LinksInRange /\ AckedIsSettled /\ CurrentIsKept
  BY DEF ProcessInv, Flow
<1>2. committing /\ committing' = FALSE /\ EncoderSends(c)
  BY DEF EndCommit
<1>3. /\ Begun = n + 1 /\ n \in Nat /\ Begun \in Nat /\ Begun <= MaxSource + 1
      /\ enc \in Encoders
  BY <1>2, ProcessNumbers
<1>4. /\ enc.sent = <<>> /\ enc.fault = "none" /\ enc.m_current_repair_id \in RepairIds
      /\ W \subseteq 0 .. (Begun - 1)
  BY <1>1 DEF EncoderReady
<1>5. n \in W
  BY <1>1, <1>2 DEF CurrentIsKept
<1>6. /\ SameSettings(enc, c)
      /\ c.m_sources = W
      /\ c.m_current_source_id = n + 1
      /\ c.fault = "none"
      /\ c.sent = IF RepairDue(enc) THEN Append(<<>>, p) ELSE <<>>
      /\ c.m_current_repair_id \in RepairIds
  BY <1>3, <1>4, <1>5, CommitRepairIs
<1> HIDE DEF c
<1>7. /\ enc' \in Encoders /\ enc'.sent = <<>> /\ enc'.fault = "none"
      /\ enc'.m_sources = W /\ enc'.m_current_source_id = n + 1
      /\ enc'.m_current_repair_id \in RepairIds
      /\ data' = data \o c.sent /\ dec' = dec /\ acks' = acks
  <2>1. c \in Encoders
    BY <1>6 DEF SameSettings
  <2>2. QED
    BY <1>2, <1>6, <2>1, StepLeaves
<1>8. Begun' = Begun
  BY <1>2, <1>3, <1>7 DEF Begun
<1>9. EncoderReady'
  BY <1>2, <1>3, <1>4, <1>7, <1>8 DEF EncoderReady
<1>10. CASE RepairDue(enc)
  <2>1. W \in (SUBSET SourceId) \ {{}}
    BY <1>3, <1>4, <1>5, BelowIsSource
  <2>2. IsOf(p, W, Begun) /\ ~IsSource(p)
    BY <1>4, <2>1, RepairIsOf DEF RepairPacket, IsSource
  <2>3. WindowBecomes(W, Begun)
    BY DEF WindowBecomes
  <2>4. data' = data \o Append(<<>>, p) /\ enc.m_current_source_id <= enc'.m_current_source_id
    BY <1>3, <1>6, <1>7, <1>10
  <2> HIDE DEF p, W
  <2>5. LinksInRange' /\ LastIdBehind' /\ Flow'
    BY <1>7, <1>8, <1>9, <2>2, <2>3, <2>4, SendKeeps
  <2>6. QED
    BY <1>1, <1>2, <1>7, <1>9, <2>5 DEF ProcessInv, DecoderReady, CurrentIsKept
<1>11. CASE ~RepairDue(enc)
  <2>1. data' = data
    BY <1>1, <1>6, <1>7, <1>11, ConcatEmptySeq DEF LinksInRange
  <2>2. SameMembers(dec, dec')
    BY <1>7, ProcessNumbers DEF SameMembers
  <2>3. /\ acks' \in Seq(AckPackets)
        /\ \A j \in DOMAIN acks' : \A i \in acks'[j].source_ids : Settled(dec, i)
    BY <1>1, <1>7 DEF LinksInRange, AckedIsSettled
  <2> DEFINE none == {}
  <2>4. enc'.m_sources = enc.m_sources \ none /\ \A i \in none : Settled(dec, i)
    BY <1>7
  <2> HIDE DEF none
  <2>5. enc'.m_current_source_id \in Nat /\ enc.m_current_source_id <= enc'.m_current_source_id
    BY <1>3, <1>7
  <2>6. LinksInRange' /\ LastIdBehind' /\ Flow'
    BY <1>8, <2>1, <2>2, <2>3, <2>4, <2>5, QuietKeeps
  <2>7. DecoderReady'
    BY <1>1, <1>7 DEF DecoderReady
  <2>8. CurrentIsKept'
    BY <1>2 DEF CurrentIsKept
  <2>9. QED
    BY <1>9, <2>6, <2>7, <2>8 DEF ProcessInv
<1>12. QED
  BY <1>10, <1>11

LEMMA AppGenerateRepairKeeps == ProcessInv /\ AppGenerateRepair => ProcessInv'
<1> SUFFICES ASSUME ProcessInv, AppGenerateRepair PROVE ProcessInv'
  OBVIOUS
<1> DEFINE c == GenerateRepair(enc)
           n == enc.m_current_source_id
           W == enc.m_sources
           p == RepairPacket(enc.m_current_repair_id, W)
<1>1. EncoderReady /\ DecoderReady /\ CurrentIsKept
  BY DEF ProcessInv
<1>2. ~committing /\ committing' = committing /\ W # {} /\ EncoderSends(c)
  BY DEF AppGenerateRepair
<1>3. /\ Begun = n /\ n \in Nat /\ Begun <= MaxSource + 1
      /\ enc \in Encoders
  BY <1>2, ProcessNumbers
<1>4. /\ enc.sent = <<>> /\ enc.fault = "none" /\ enc.m_current_repair_id \in RepairIds
      /\ W \subseteq 0 .. (Begun - 1)
  BY <1>1 DEF EncoderReady
<1>5. /\ SameSettings(enc, c)
      /\ c.m_sources = W
      /\ c.m_current_source_id = n
      /\ c.fault = "none"
      /\ c.sent = Append(<<>>, p)
      /\ c.m_current_repair_id \in RepairIds
  BY <1>2, <1>3, <1>4, GenerateRepairIs
<1> HIDE DEF c
<1>6. /\ enc' \in Encoders /\ enc'.sent = <<>> /\ enc'.fault = "none"
      /\ enc'.m_sources = W /\ enc'.m_current_source_id = n
      /\ enc'.m_current_repair_id \in RepairIds
      /\ data' = data \o Append(<<>>, p) /\ dec' = dec /\ acks' = acks
  <2>1. c \in Encoders
    BY <1>5 DEF SameSettings
  <2>2. QED
    BY <1>2, <1>5, <2>1, StepLeaves
<1>7. Begun' = Begun
  BY <1>2, <1>3, <1>6 DEF Begun
<1>8. EncoderReady'
  BY <1>1, <1>2, <1>3, <1>4, <1>6, <1>7 DEF EncoderReady
<1>9. W \in (SUBSET SourceId) \ {{}}
  BY <1>2, <1>3, <1>4, BelowIsSource
<1>10. IsOf(p, W, Begun) /\ ~IsSource(p)
  BY <1>4, <1>9, RepairIsOf DEF RepairPacket, IsSource
<1>11. WindowBecomes(W, Begun) /\ enc.m_current_source_id <= enc'.m_current_source_id
  BY <1>3, <1>6 DEF WindowBecomes
<1> HIDE DEF p, W
<1>12. LinksInRange' /\ LastIdBehind' /\ Flow'
  BY <1>6, <1>7, <1>8, <1>10, <1>11, SendKeeps
<1>13. QED
  BY <1>1, <1>2, <1>6, <1>8, <1>12 DEF ProcessInv, DecoderReady, CurrentIsKept

-----------------------------------------------------------------------------
(***************************************************************************)
(* Acks.                                                                   *)
(***************************************************************************)
LEMMA LoseAckKeeps == ProcessInv /\ LoseAck => ProcessInv'
<1> SUFFICES ASSUME ProcessInv, LoseAck PROVE ProcessInv'
  OBVIOUS
<1>1. EncoderReady /\ DecoderReady /\ LinksInRange /\ AckedIsSettled /\ CurrentIsKept
  BY DEF ProcessInv, Flow
<1>2. /\ acks # <<>> /\ acks' = Tail(acks)
      /\ enc' = enc /\ dec' = dec /\ data' = data /\ committing' = committing
  BY DEF LoseAck
<1>3. /\ acks' \in Seq(AckPackets)
      /\ \A j \in DOMAIN acks' : j + 1 \in DOMAIN acks /\ acks'[j] = acks[j + 1]
  BY <1>1, <1>2, TailIs DEF LinksInRange
<1>4. \A j \in DOMAIN acks' : \A i \in acks'[j].source_ids : Settled(dec, i)
  BY <1>1, <1>3 DEF AckedIsSettled
<1>5. SameMembers(dec, dec') /\ Begun' = Begun
  BY <1>2, ProcessNumbers DEF SameMembers, Begun
<1> DEFINE none == {}
<1>6. enc'.m_sources = enc.m_sources \ none /\ \A i \in none : Settled(dec, i)
  BY <1>2
<1> HIDE DEF none
<1>7. enc'.m_current_source_id \in Nat /\ enc.m_current_source_id <= enc'.m_current_source_id
  BY <1>2, ProcessNumbers
<1>8. LinksInRange' /\ LastIdBehind' /\ Flow'
  BY <1>2, <1>3, <1>4, <1>5, <1>6, <1>7, QuietKeeps
<1>9. EncoderReady'
  <2>1. /\ enc \in Encoders /\ enc.sent = <<>> /\ enc.fault = "none"
        /\ enc.m_sources \subseteq 0 .. (Begun - 1) /\ Begun <= MaxSource + 1
        /\ enc.m_current_repair_id \in RepairIds
        /\ committing \in BOOLEAN
    BY <1>1 DEF EncoderReady
  <2>2. QED
    BY <1>2, <1>5, <2>1 DEF EncoderReady
<1>10. DecoderReady'
  BY <1>1, <1>2 DEF DecoderReady
<1>11. CurrentIsKept'
  BY <1>1, <1>2, <1>3 DEF CurrentIsKept, Named, IsRepair
<1>12. QED
  BY <1>8, <1>9, <1>10, <1>11 DEF ProcessInv

(* An ack that comes during a commit does not name its source.             *)
LEMMA TakeAckKeeps == ProcessInv /\ TakeAck => ProcessInv'
<1> SUFFICES ASSUME ProcessInv, TakeAck PROVE ProcessInv'
  OBVIOUS
<1> DEFINE a == Head(acks)
           ids == a.source_ids
<1>1. EncoderReady /\ DecoderReady /\ LinksInRange /\ AckedIsSettled /\ CurrentIsKept
  BY DEF ProcessInv, Flow
<1>2. /\ acks # <<>> /\ acks' = Tail(acks) /\ enc' = Notify(enc, a)
      /\ dec' = dec /\ data' = data /\ committing' = committing
  BY DEF TakeAck
<1>3. /\ acks' \in Seq(AckPackets)
      /\ \A j \in DOMAIN acks' : j + 1 \in DOMAIN acks /\ acks'[j] = acks[j + 1]
      /\ 1 \in DOMAIN acks /\ a = acks[1]
  BY <1>1, <1>2, TailIs DEF LinksInRange
<1>4. a \in AckPackets
  BY <1>1, <1>3, LenProperties, ElementOfSeq DEF LinksInRange
<1>5. PICK nb \in Nat : a = AckPacket(ids, nb)
  BY <1>4, AckPacketIs
<1> HIDE DEF a
<1>6. /\ enc' \in Encoders
      /\ enc'.sent = enc.sent /\ enc'.fault = enc.fault
      /\ enc'.m_sources = enc.m_sources \ ids
      /\ enc'.m_current_source_id = enc.m_current_source_id
      /\ enc'.m_current_repair_id = enc.m_current_repair_id
  BY <1>2, <1>5, ProcessNumbers, NotifyIs
<1>7. /\ \A j \in DOMAIN acks' : \A i \in acks'[j].source_ids : Settled(dec, i)
      /\ \A i \in ids : Settled(dec, i)
  BY <1>1, <1>3 DEF AckedIsSettled
<1> HIDE DEF ids
<1>8. SameMembers(dec, dec') /\ Begun' = Begun
  BY <1>2, <1>6, ProcessNumbers DEF SameMembers, Begun
<1>9. enc'.m_current_source_id \in Nat /\ enc.m_current_source_id <= enc'.m_current_source_id
  BY <1>6, ProcessNumbers
<1>10. LinksInRange' /\ LastIdBehind' /\ Flow'
  BY <1>2, <1>3, <1>6, <1>7, <1>8, <1>9, QuietKeeps
<1>11. EncoderReady' /\ DecoderReady'
  BY <1>1, <1>2, <1>6, <1>8 DEF EncoderReady, DecoderReady
<1>12. CurrentIsKept'
  BY <1>1, <1>2, <1>3, <1>6 DEF CurrentIsKept, Named, IsRepair, ids
<1>13. QED
  BY <1>10, <1>11, <1>12 DEF ProcessInv

(* The decoder acks what it stores.                                        *)
LEMMA AskAckKeeps == ProcessInv /\ AskAck => ProcessInv'
<1> SUFFICES ASSUME ProcessInv, AskAck PROVE ProcessInv'
  OBVIOUS
<1> DEFINE e == GenerateAck(dec, dec.m_sources)
           a == AckPacket(dec.m_sources, dec.nb_packets)
<1>1. /\ EncoderReady /\ DecoderReady /\ LinksInRange /\ AckedIsSettled
      /\ Tidy(dec) /\ AtRest(dec) /\ dec \in Decoders
  BY ProcessNumbers DEF ProcessInv, Flow, DecoderReady
<1>2. /\ ~committing /\ DecoderReturns(e) /\ data' = data
  BY DEF AskAck
<1>3. /\ SameMembers(dec, e) /\ SameFault(dec, e) /\ e.ack = {a} /\ a \in AckPackets
  <2>1. dec.m_sources \in SUBSET SourceId /\ dec.ack = {} /\ dec.nb_packets \in Nat
    BY <1>1 DEF Decoders, AtRest
  <2>2. a \in AckPackets
    BY <2>1 DEF AckPackets
  <2>3. QED
    BY <1>1, <2>1, <2>2, GenerateAckIs
<1> HIDE DEF e
<1>4. e \in Decoders
  BY <1>3 DEF SameMembers
<1>5. /\ dec' = SettleDecoder(e) /\ acks' = acks \o SetToSeq(e.ack)
      /\ enc' = enc /\ committing' = committing
  BY <1>2 DEF DecoderReturns
<1>6. RestedTo(e, dec')
  BY <1>4, <1>5, SettleDecoderIs
<1>7. SameMembers(dec, dec') /\ SameFault(dec, dec') /\ AtRest(dec')
  BY <1>3, <1>6 DEF RestedTo, SameMembers, SameFault
<1>8. DecoderReady'
  BY <1>1, <1>7, SameTidy DEF DecoderReady
<1>9. /\ acks' \in Seq(AckPackets)
      /\ \A j \in DOMAIN acks' : (\E i \in DOMAIN acks : acks'[j] = acks[i]) \/ acks'[j] \in e.ack
  <2>1. acks \in Seq(AckPackets)
    BY <1>1 DEF LinksInRange
  <2>2. e.ack = {} \/ \E b \in AckPackets : e.ack = {b}
    BY <1>3
  <2>3. QED
    BY <1>5, <2>1, <2>2, AnswerIs
<1>10. \A j \in DOMAIN acks' : \A i \in acks'[j].source_ids : Settled(dec, i)
  <2>1. a.source_ids = dec.m_sources
    BY DEF AckPacket
  <2> HIDE DEF a
  <2>2. \A i \in a.source_ids : Settled(dec, i)
    BY <2>1 DEF Settled
  <2>3. QED
    BY <1>1, <1>3, <1>9, <2>2 DEF AckedIsSettled
<1> DEFINE none == {}
<1>11. enc'.m_sources = enc.m_sources \ none /\ \A i \in none : Settled(dec, i)
  BY <1>5
<1> HIDE DEF none, a
<1>12. /\ enc'.m_current_source_id \in Nat /\ enc.m_current_source_id <= enc'.m_current_source_id
       /\ Begun' = Begun
  BY <1>5, ProcessNumbers DEF Begun
<1>13. LinksInRange' /\ LastIdBehind' /\ Flow'
  BY <1>2, <1>7, <1>9, <1>10, <1>11, <1>12, QuietKeeps
<1>14. EncoderReady'
  <2>1. /\ enc \in Encoders /\ enc.sent = <<>> /\ enc.fault = "none"
        /\ enc.m_sources \subseteq 0 .. (Begun - 1) /\ Begun <= MaxSource + 1
        /\ enc.m_current_repair_id \in RepairIds
        /\ committing \in BOOLEAN
    BY <1>1 DEF EncoderReady
  <2>2. QED
    BY <1>5, <1>12, <2>1 DEF EncoderReady
<1>15. CurrentIsKept'
  BY <1>2, <1>5 DEF CurrentIsKept
<1>16. QED
  BY <1>8, <1>13, <1>14, <1>15 DEF ProcessInv

-----------------------------------------------------------------------------
(***************************************************************************)
(* The decoder's side: a packet is lost or received.                       *)
(***************************************************************************)

(* The most that the decoder can lack and know of, once it has received p. *)
Encoded(p) == IF IsRepair(p) THEN p.source_ids ELSE {}
MayLack(p) == DOMAIN dec.m_missing_sources \cup Encoded(p)
MayKnow(p) == dec.m_sources \cup DOMAIN dec.m_missing_sources \cup Named(p)

Heard(p, d) ==
  /\ dec.m_last_id <= d.m_last_id
  /\ d.m_last_id = dec.m_last_id \/ (IsRepair(p) /\ d.m_last_id = Min(p.source_ids))
  /\ \A i \in SourceId : Settled(dec, i) => Settled(d, i)
  /\ DOMAIN d.m_missing_sources \subseteq MayLack(p)
  /\ d.m_sources \subseteq MayKnow(p)

(* The rest of the link goes on as before.                                 *)
LEMMA HeardKeeps ==
  ASSUME ProcessInv, data # <<>>, data' = Tail(data), enc' = enc, committing' = committing,
         Heard(data[1], dec'), dec'.m_last_id \in Nat,
         acks' \in Seq(AckPackets),
         \A j \in DOMAIN acks' : \A i \in acks'[j].source_ids : Settled(dec', i)
  PROVE  LinksInRange' /\ LastIdBehind' /\ Flow'
<1> DEFINE X == DOMAIN dec.m_missing_sources
           W == enc.m_sources
           p == data[1]
<1>1. /\ LinksInRange /\ LastIdBehind /\ SourcesComeFirst /\ RepairsFollow /\ WindowFollows
      /\ OnlyBegun
  BY DEF ProcessInv, Flow
<1>2. /\ data' \in Seq(DataPackets)
      /\ 1 \in DOMAIN data
      /\ \A j \in DOMAIN data' : j \in Nat /\ j >= 1 /\ j + 1 \in DOMAIN data /\ data'[j] = data[j + 1]
  BY <1>1, TailIs DEF LinksInRange
<1>3. Begun' = Begun
  BY DEF Begun
<1>4. /\ dec.m_last_id <= dec'.m_last_id
      /\ dec'.m_last_id = dec.m_last_id \/ (IsRepair(p) /\ dec'.m_last_id = Min(p.source_ids))
      /\ \A i \in SourceId : Settled(dec, i) => Settled(dec', i)
      /\ DOMAIN dec'.m_missing_sources \subseteq MayLack(p)
      /\ dec'.m_sources \subseteq MayKnow(p)
  BY DEF Heard
<1>5. /\ enc.m_current_source_id \in Nat
      /\ Begun \in Nat /\ Begun <= enc.m_current_source_id + 1
      /\ X \in SUBSET SourceId /\ SourceId \subseteq Nat
      /\ W \in SUBSET Nat
  BY ProcessNumbers
<1>6. /\ p \in DataPackets /\ Named(p) \in SUBSET SourceId
      /\ \A i \in Named(p) : i < Begun
      /\ IsRepair(p) => /\ Named(p) = p.source_ids
                        /\ Min(p.source_ids) \in p.source_ids
                        /\ \A w \in W : Min(p.source_ids) <= w
  BY <1>2, LinkedPacketIs, DataPacketIs
<1>7. MayLack(p) \in SUBSET SourceId /\ Encoded(p) \subseteq Named(p)
  BY <1>5, <1>6 DEF MayLack, Encoded
<1> HIDE DEF p
<1>8. ASSUME NEW Y, Follows(dec, MayLack(p), Y)
      PROVE  Follows(dec', DOMAIN dec'.m_missing_sources, Y)
  <2>1. Follows(dec', MayLack(p), Y)
    BY <1>4, <1>7, <1>8, FollowsMore
  <2>2. QED
    BY <1>4, <2>1 DEF Follows
<1> HIDE DEF X, W
<1>9. LinksInRange'
  <2>1. \A j \in DOMAIN data : Carries(data[j])
    BY <1>1 DEF LinksInRange
  <2>2. ASSUME NEW j \in DOMAIN data'
        PROVE  Carries(data[j])'
    <3>1. Carries(data[j + 1]) /\ data'[j] = data[j + 1]
      BY <1>2, <2>1, <2>2
    <3>2. QED
      BY <1>3, <3>1 DEF Carries, Named, IsRepair
  <2>3. QED
    BY <1>2, <2>2 DEF LinksInRange
<1>10. LastIdBehind'
  <2>1. /\ \A w \in W : dec.m_last_id <= w
        /\ dec.m_last_id <= enc.m_current_source_id
    BY <1>1 DEF LastIdBehind, W
  <2>2. CASE dec'.m_last_id = dec.m_last_id
    BY <2>1, <2>2 DEF LastIdBehind, W
  <2>3. CASE IsRepair(p) /\ dec'.m_last_id = Min(p.source_ids)
    <3>1. Min(p.source_ids) < Begun
      BY <1>6, <2>3
    <3>2. dec'.m_last_id <= enc.m_current_source_id
      BY <1>5, <2>3, <3>1
    <3>3. \A w \in W : dec'.m_last_id <= w
      BY <1>6, <2>3
    <3>4. QED
      BY <3>2, <3>3 DEF LastIdBehind, W
  <2>4. QED
    BY <1>4, <2>2, <2>3
<1>11. ASSUME NEW j \in DOMAIN data'
       PROVE  /\ j + 1 \in DOMAIN data /\ data'[j] = data[j + 1]
              /\ 1 \in DOMAIN data /\ 1 < j + 1
              /\ \A i \in DOMAIN data' : i < j =>
                   i + 1 \in DOMAIN data /\ i + 1 < j + 1 /\ data'[i] = data[i + 1]
  BY <1>2, <1>11
<1>12. SourcesComeFirst'
  <2>1. SUFFICES ASSUME NEW j \in DOMAIN data', IsSource(data'[j])
                 PROVE  /\ data'[j].id \notin DOMAIN dec'.m_missing_sources
                        /\ \A i \in DOMAIN data' : IsRepair(data'[i]) /\ i < j =>
                             data'[j].id \notin data'[i].source_ids
    BY DEF SourcesComeFirst, IsSource, IsRepair
  <2>2. /\ data[j + 1].id \notin X
        /\ \A i \in DOMAIN data : IsRepair(data[i]) /\ i < j + 1 =>
             data[j + 1].id \notin data[i].source_ids
    BY <1>1, <1>11, <2>1 DEF SourcesComeFirst, X
  <2>3. data[j + 1].id \notin Encoded(p)
    BY <1>11, <2>1, <2>2 DEF Encoded, p
  <2>4. data[j + 1].id \notin DOMAIN dec'.m_missing_sources
    BY <1>4, <2>2, <2>3 DEF MayLack, X
  <2>5. QED
    BY <1>11, <2>1, <2>2, <2>4
<1>13. ASSUME NEW j \in DOMAIN data', IsRepair(data'[j])
       PROVE  /\ Follows(dec', DOMAIN dec'.m_missing_sources, data'[j].source_ids)
              /\ Follows(dec', data'[j].source_ids, W)
              /\ \A s \in data'[j].source_ids : dec'.m_last_id <= s
              /\ \A i \in DOMAIN data' : IsRepair(data'[i]) /\ i < j =>
                   /\ Follows(dec', data'[i].source_ids, data'[j].source_ids)
                   /\ \A s \in data'[j].source_ids : Min(data'[i].source_ids) <= s
  <2> DEFINE q == data[j + 1]
  <2>1. data'[j] = q /\ j + 1 \in DOMAIN data /\ IsRepair(q)
    BY <1>11, <1>13
  <2>2. /\ Follows(dec, X, q.source_ids)
        /\ Follows(dec, q.source_ids, W)
        /\ \A s \in q.source_ids : dec.m_last_id <= s
        /\ FollowsRepair(j + 1)
    BY <1>1, <2>1 DEF RepairsFollow, X, W
  <2>3. \A i \in DOMAIN data : IsRepair(data[i]) => data[i].source_ids \in SUBSET SourceId
    BY LinkedPacketIs
  <2>4. \A i \in DOMAIN data : IsRepair(data[i]) /\ i < j + 1 =>
          /\ Follows(dec, data[i].source_ids, q.source_ids)
          /\ \A s \in q.source_ids : Min(data[i].source_ids) <= s
    BY <2>2 DEF FollowsRepair
  <2>5. IsRepair(p) => /\ Follows(dec, p.source_ids, q.source_ids)
                       /\ \A s \in q.source_ids : Min(p.source_ids) <= s
    BY <1>11, <2>4 DEF p
  <2> HIDE DEF q
  <2>6. Follows(dec', DOMAIN dec'.m_missing_sources, q.source_ids)
    <3>1. Follows(dec, Encoded(p), q.source_ids)
      BY <2>5 DEF Encoded, Follows
    <3>2. Follows(dec, MayLack(p), q.source_ids)
      BY <2>2, <3>1 DEF MayLack, Follows, X
    <3>3. QED
      BY <1>8, <3>2
  <2>7. Follows(dec', q.source_ids, W)
    BY <1>4, <2>1, <2>2, <2>3, FollowsMore DEF q
  <2>8. \A s \in q.source_ids : dec'.m_last_id <= s
    BY <1>4, <2>2, <2>5
  <2>9. ASSUME NEW i \in DOMAIN data', IsRepair(data'[i]), i < j
        PROVE  /\ Follows(dec', data'[i].source_ids, q.source_ids)
               /\ \A s \in q.source_ids : Min(data'[i].source_ids) <= s
    <3>1. i + 1 \in DOMAIN data /\ i + 1 < j + 1 /\ data'[i] = data[i + 1]
      BY <1>11, <2>9
    <3>2. /\ Follows(dec, data'[i].source_ids, q.source_ids)
          /\ \A s \in q.source_ids : Min(data'[i].source_ids) <= s
          /\ data'[i].source_ids \in SUBSET SourceId
      BY <2>3, <2>4, <2>9, <3>1
    <3>3. QED
      BY <1>4, <3>2, FollowsMore
  <2>10. QED
    BY <2>1, <2>6, <2>7, <2>8, <2>9
<1>14. RepairsFollow'
  BY <1>13 DEF RepairsFollow, FollowsRepair, IsRepair, Follows, Settled, W
<1>15. WindowFollows'
  <2>1. Follows(dec, X, W)
    BY <1>1 DEF WindowFollows, X, W
  <2>2. Follows(dec, Encoded(p), W)
    BY <1>1, <1>2 DEF RepairsFollow, Encoded, Follows, W, p
  <2>3. Follows(dec, MayLack(p), W)
    BY <2>1, <2>2 DEF MayLack, Follows, X
  <2>4. Follows(dec', DOMAIN dec'.m_missing_sources, W)
    BY <1>8, <2>3
  <2>5. QED
    BY <2>4 DEF WindowFollows, Follows, Settled, W
<1>16. OnlyBegun'
  <2>1. \A i \in dec.m_sources \cup X : i < Begun
    BY <1>1 DEF OnlyBegun, X
  <2>2. \A i \in MayLack(p) \cup MayKnow(p) : i < Begun
    BY <1>6, <1>7, <2>1 DEF MayLack, MayKnow, X
  <2>3. QED
    BY <1>3, <1>4, <2>2 DEF OnlyBegun
<1>17. AckedIsSettled'
  BY DEF AckedIsSettled, Settled
<1>18. QED
  BY <1>9, <1>10, <1>12, <1>14, <1>15, <1>16, <1>17 DEF Flow

(* The packet that names the source being committed is the last of its     *)
(* link: while there is another, the decoder has not heard of the source.  *)
LEMMA HeardKeepsCurrent ==
  ASSUME ProcessInv, data # <<>>, data' = Tail(data), enc' = enc, committing' = committing,
         Heard(data[1], dec'),
         committing => \A j \in DOMAIN acks' : enc.m_current_source_id \notin acks'[j].source_ids
  PROVE  CurrentIsKept'
<1> SUFFICES ASSUME committing
             PROVE  /\ \A j \in DOMAIN data' :
                         enc.m_current_source_id \in Named(data'[j]) => j = Len(data')
                    /\ data' # <<>> =>
                         enc.m_current_source_id
                           \notin dec'.m_sources \cup DOMAIN dec'.m_missing_sources
  BY DEF ProcessInv, CurrentIsKept, Named, IsRepair
<1> DEFINE n == enc.m_current_source_id
<1>1. /\ \A j \in DOMAIN data : n \in Named(data[j]) => j = Len(data)
      /\ n \notin dec.m_sources \cup DOMAIN dec.m_missing_sources
      /\ data \in Seq(DataPackets)
  BY DEF ProcessInv, CurrentIsKept, LinksInRange
<1>2. /\ 1 \in DOMAIN data
      /\ data' \in Seq(DataPackets)
      /\ Len(data) \in Nat /\ Len(data') = Len(data) - 1
      /\ \A j \in DOMAIN data' : j \in Nat /\ j >= 1 /\ j + 1 \in DOMAIN data /\ data'[j] = data[j + 1]
  BY <1>1, TailIs
<1>3. ASSUME NEW j \in DOMAIN data', n \in Named(data'[j])
      PROVE  j = Len(data')
  <2>1. j + 1 = Len(data)
    BY <1>1, <1>2, <1>3
  <2>2. QED
    BY <1>2, <2>1
<1>4. ASSUME data' # <<>>
      PROVE  n \notin dec'.m_sources \cup DOMAIN dec'.m_missing_sources
  <2>1. Len(data') # 0
    BY <1>2, <1>4, EmptySeq
  <2>2. n \notin Named(data[1])
    BY <1>1, <1>2, <2>1
  <2>3. dec'.m_sources \cup DOMAIN dec'.m_missing_sources
          \subseteq dec.m_sources \cup DOMAIN dec.m_missing_sources \cup Named(data[1])
    BY DEF Heard, MayLack, MayKnow, Encoded, Named
  <2>4. QED
    BY <1>1, <2>2, <2>3
<1>5. QED
  BY <1>3, <1>4

(* The packet and what comes of it.                                        *)
LEMMA FirstPacketIs ==
  ASSUME ProcessInv, data # <<>>
  PROVE  /\ 1 \in DOMAIN data /\ Head(data) = data[1]
         /\ data[1] \in DataPackets
         /\ Named(data[1]) \in SUBSET SourceId
         /\ \A s \in SourceId : data[1] = SourcePacket(s) =>
              s \notin DOMAIN dec.m_missing_sources /\ s \in Named(data[1])
         /\ \A r \in RepairId, ids \in (SUBSET SourceId) \ {{}} : data[1] = RepairPacket(r, ids) =>
              /\ IsRepair(data[1]) /\ data[1].source_ids = ids
              /\ Named(data[1]) = ids /\ Encoded(data[1]) = ids
              /\ \A i \in ids : dec.m_last_id <= i
              /\ Follows(dec, DOMAIN dec.m_missing_sources, ids)
<1>1. LinksInRange /\ SourcesComeFirst /\ RepairsFollow
  BY DEF ProcessInv, Flow
<1>2. 1 \in DOMAIN data /\ Head(data) = data[1]
  BY <1>1, TailIs DEF LinksInRange
<1>3. data[1] \in DataPackets /\ Named(data[1]) \in SUBSET SourceId
  BY <1>2, LinkedPacketIs, DataPacketIs
<1>4. ASSUME NEW s \in SourceId, data[1] = SourcePacket(s)
      PROVE  s \notin DOMAIN dec.m_missing_sources /\ s \in Named(data[1])
  <2>1. IsSource(data[1]) /\ data[1].id = s
    BY <1>4 DEF IsSource, SourcePacket
  <2>2. s \notin DOMAIN dec.m_missing_sources
    BY <1>1, <1>2, <2>1 DEF SourcesComeFirst
  <2>3. Named(data[1]) = {s}
    BY <1>3, <2>1, DataPacketIs
  <2>4. QED
    BY <2>2, <2>3
<1>5. ASSUME NEW r \in RepairId, NEW ids \in (SUBSET SourceId) \ {{}}, data[1] = RepairPacket(r, ids)
      PROVE  /\ IsRepair(data[1]) /\ data[1].source_ids = ids
             /\ Named(data[1]) = ids /\ Encoded(data[1]) = ids
             /\ \A i \in ids : dec.m_last_id <= i
             /\ Follows(dec, DOMAIN dec.m_missing_sources, ids)
  <2>1. IsRepair(data[1]) /\ data[1].source_ids = ids
    BY <1>5 DEF IsRepair, RepairPacket
  <2>2. Named(data[1]) = ids /\ Encoded(data[1]) = ids
    BY <2>1 DEF Named, Encoded
  <2>3. /\ \A i \in ids : dec.m_last_id <= i
        /\ Follows(dec, DOMAIN dec.m_missing_sources, ids)
    BY <1>1, <1>2, <2>1 DEF RepairsFollow
  <2>4. QED
    BY <2>1, <2>2, <2>3
<1>6. QED
  BY <1>2, <1>3, <1>4, <1>5

LEMMA LoseDataKeeps == ProcessInv /\ LoseData => ProcessInv'
<1> SUFFICES ASSUME ProcessInv, LoseData PROVE ProcessInv'
  OBVIOUS
<1>1. EncoderReady /\ DecoderReady /\ LinksInRange /\ AckedIsSettled /\ CurrentIsKept
  BY DEF ProcessInv, Flow
<1>2. /\ data # <<>> /\ data' = Tail(data)
      /\ enc' = enc /\ dec' = dec /\ acks' = acks /\ committing' = committing
  BY DEF LoseData
<1>3. dec'.m_last_id = dec.m_last_id /\ dec.m_last_id \in Nat
  BY <1>2, ProcessNumbers
<1>4. Heard(data[1], dec')
  BY <1>2, <1>3 DEF Heard, MayLack, MayKnow
<1>5. /\ acks' \in Seq(AckPackets)
      /\ \A j \in DOMAIN acks' : \A i \in acks'[j].source_ids : Settled(dec', i)
  BY <1>1, <1>2 DEF LinksInRange, AckedIsSettled
<1>6. LinksInRange' /\ LastIdBehind' /\ Flow'
  BY <1>2, <1>3, <1>4, <1>5, HeardKeeps
<1>7. committing => \A j \in DOMAIN acks' : enc.m_current_source_id \notin acks'[j].source_ids
  BY <1>1, <1>2 DEF CurrentIsKept
<1>8. CurrentIsKept'
  BY <1>2, <1>4, <1>7, HeardKeepsCurrent
<1>9. EncoderReady'
  <2>1. /\ enc \in Encoders /\ enc.sent = <<>> /\ enc.fault = "none"
        /\ enc.m_sources \subseteq 0 .. (Begun - 1) /\ Begun <= MaxSource + 1
        /\ enc.m_current_repair_id \in RepairIds
        /\ committing \in BOOLEAN
    BY <1>1 DEF EncoderReady
  <2>2. Begun' = Begun
    BY <1>2 DEF Begun
  <2>3. QED
    BY <1>2, <2>1, <2>2 DEF EncoderReady
<1>10. DecoderReady'
  BY <1>1, <1>2 DEF DecoderReady
<1>11. QED
  BY <1>6, <1>8, <1>9, <1>10 DEF ProcessInv

(* What the call that receives a packet gives back.                        *)
LEMMA PacketReceived ==
  ASSUME ProcessInv, data # <<>>, NEW e, ReceivedTo(dec, data[1], e)
  PROVE  /\ Tidy(e)
         /\ Heard(data[1], e)
         /\ Answers(dec.m_sources, e)
<1> DEFINE p == data[1]
           X == DOMAIN dec.m_missing_sources
<1>1. Tidy(dec) /\ AtRest(dec) /\ HasPlace(dec) /\ dec.out = {} /\ dec \in Decoders
  BY ProcessNumbers DEF ProcessInv, DecoderReady, Tidy, Orderly, AtRest
<1>2. /\ p \in DataPackets /\ Named(p) \in SUBSET SourceId
      /\ \A s \in SourceId : p = SourcePacket(s) => s \notin X /\ s \in Named(p)
      /\ \A r \in RepairId, ids \in (SUBSET SourceId) \ {{}} : p = RepairPacket(r, ids) =>
           /\ IsRepair(p) /\ p.source_ids = ids /\ Named(p) = ids /\ Encoded(p) = ids
           /\ \A i \in ids : dec.m_last_id <= i
           /\ Follows(dec, X, ids)
  BY FirstPacketIs
<1>3. X \subseteq MayLack(p) /\ dec.m_sources \subseteq MayKnow(p)
  BY DEF MayLack, MayKnow
<1>4. Named(p) \subseteq MayKnow(p) /\ Encoded(p) \subseteq MayLack(p)
  BY DEF MayLack, MayKnow
<1> HIDE DEF p
<1>5. /\ \A s \in SourceId : p = SourcePacket(s) => s \notin X /\ s \in MayKnow(p)
      /\ \A r \in RepairId, ids \in (SUBSET SourceId) \ {{}} : p = RepairPacket(r, ids) =>
           /\ \A i \in ids : dec.m_last_id <= i
           /\ Follows(dec, X, ids)
           /\ ids \subseteq MayLack(p) /\ ids \subseteq MayKnow(p)
  BY <1>2, <1>4
<1>6. ReceivedTo(dec, p, e)
  BY DEF p
<1>7. Tidy(e) /\ Advances(dec, MayLack(p), MayKnow(p), e)
  BY <1>1, <1>3, <1>5, <1>6, ReceivedTidy
<1>8. e.m_last_id = dec.m_last_id \/ (IsRepair(p) /\ e.m_last_id = Min(p.source_ids))
  <2>1. MovedTo(dec, p, e)
    BY <1>6, ReceivedMoves
  <2>2. QED
    BY <1>2, <2>1 DEF MovedTo
<1>9. Heard(p, e)
  BY <1>7, <1>8 DEF Heard, Advances
<1>10. Answers(dec.m_sources, e)
  <2>1. ~dec.m_in_order => dec.m_ordered_sources = {}
    BY <1>1 DEF HasPlace
  <2>2. QED
    BY <1>1, <1>6, <2>1, ReceivedAnswers
<1>11. QED
  BY <1>7, <1>9, <1>10 DEF p

(* Its ack does not name the source being committed.                       *)
LEMMA CurrentIsNotAcked ==
  ASSUME ProcessInv, committing, data # <<>>, NEW e, ReceivedTo(dec, data[1], e),
         NEW a \in e.ack
  PROVE  enc.m_current_source_id \notin a.source_ids
<1> DEFINE n == enc.m_current_source_id
           p == data[1]
<1>1. /\ n \notin dec.m_sources \cup DOMAIN dec.m_missing_sources
      /\ Tidy(dec) /\ AtRest(dec)
  BY DEF ProcessInv, CurrentIsKept, DecoderReady
<1>2. /\ p \in DataPackets /\ Named(p) \in SUBSET SourceId
      /\ \A r \in RepairId, ids \in (SUBSET SourceId) \ {{}} : p = RepairPacket(r, ids) =>
           \A i \in ids : dec.m_last_id <= i
  BY FirstPacketIs
<1>3. Heard(p, e) /\ Answers(dec.m_sources, e) /\ ReceivedTo(dec, p, e)
  BY PacketReceived
<1> HIDE DEF n, p
<1>4. CASE n \in Named(p)
  <2>1. n \in SourceId
    BY <1>2, <1>4
  <2>2. Names(p, n)
    <3>1. CASE IsSource(p)
      BY <1>2, <1>4, <3>1, DataPacketIs DEF Names
    <3>2. CASE IsRepair(p)
      BY <1>2, <1>4, <3>2, DataPacketIs DEF Names
    <3>3. QED
      BY <1>2, <3>1, <3>2, DataPacketIs
  <2>3. QED
    BY <1>1, <1>2, <1>3, <2>1, <2>2, NewIsNotAcked DEF n
<1>5. CASE n \notin Named(p)
  <2>1. n \notin MayKnow(p)
    BY <1>1, <1>5 DEF MayKnow
  <2>2. e.m_sources \subseteq MayKnow(p) /\ dec.m_sources \subseteq MayKnow(p)
    BY <1>3 DEF Heard, MayKnow
  <2>3. PICK known \in SUBSET SourceId, nb \in Nat :
          a = AckPacket(known, nb) /\ known \subseteq dec.m_sources \cup e.m_sources
    BY <1>3 DEF Answers
  <2>4. a.source_ids = known
    BY <2>3 DEF AckPacket
  <2>5. QED
    BY <2>1, <2>2, <2>3, <2>4 DEF n
<1>6. QED
  BY <1>4, <1>5

LEMMA TakeDataKeeps ==
  ASSUME ProcessInv, NEW luck \in BOOLEAN, TakeData(luck)
  PROVE  ProcessInv'
<1>1. /\ EncoderReady /\ DecoderReady /\ LinksInRange /\ AckedIsSettled /\ CurrentIsKept
      /\ Tidy(dec) /\ dec \in Decoders
  BY ProcessNumbers DEF ProcessInv, Flow, DecoderReady
<1>2. data # <<>> /\ data' = Tail(data)
  BY DEF TakeData
<1>3. PICK e \in Receive(dec, Head(data), luck) : DecoderReturns(e)
  BY DEF TakeData
<1>4. /\ dec' = SettleDecoder(e) /\ acks' = acks \o SetToSeq(e.ack)
      /\ enc' = enc /\ committing' = committing
  BY <1>3 DEF DecoderReturns
<1>5. ReceivedTo(dec, data[1], e)
  <2>1. Head(data) = data[1] /\ data[1] \in DataPackets
    BY <1>2, FirstPacketIs
  <2>2. Sound(dec) /\ dec.fault = "none"
    BY <1>1 DEF Tidy, Orderly
  <2>3. QED
    BY <1>3, <2>1, <2>2, ReceiveIs
<1>6. Tidy(e) /\ Heard(data[1], e) /\ Answers(dec.m_sources, e)
  BY <1>2, <1>5, PacketReceived
<1>7. RestedTo(e, dec')
  BY <1>4, <1>6, SettleDecoderIs DEF Tidy, Orderly, Sound
<1>8. DecoderReady'
  <2>1. SameMembers(e, dec') /\ SameFault(e, dec') /\ AtRest(dec')
    BY <1>7 DEF RestedTo
  <2>2. QED
    BY <1>6, <2>1, SameTidy DEF DecoderReady
<1>9. /\ dec'.m_last_id = e.m_last_id /\ dec'.m_sources = e.m_sources
      /\ dec'.m_missing_sources = e.m_missing_sources
  BY <1>7 DEF RestedTo, SameMembers
<1>10. dec'.m_last_id \in Nat
  BY <1>6, <1>9, OrderlyFacts DEF Tidy
<1>11. Heard(data[1], dec')
  BY <1>6, <1>9 DEF Heard, Settled
<1>12. /\ e.ack = {} \/ \E a \in AckPackets : e.ack = {a}
       /\ \A a \in e.ack : a.source_ids \subseteq dec.m_sources \cup e.m_sources
                             /\ a.source_ids \subseteq SourceId
  <2>1. CASE e.ack = {}
    BY <2>1
  <2>2. ASSUME NEW known \in SUBSET SourceId, NEW nb \in Nat,
               e.ack = {AckPacket(known, nb)}, known \subseteq dec.m_sources \cup e.m_sources
        PROVE  /\ \E a \in AckPackets : e.ack = {a}
               /\ \A a \in e.ack : a.source_ids \subseteq dec.m_sources \cup e.m_sources
                                     /\ a.source_ids \subseteq SourceId
    <3>1. AckPacket(known, nb) \in AckPackets
      BY DEF AckPackets
    <3>2. AckPacket(known, nb).source_ids = known
      BY DEF AckPacket
    <3>3. QED
      BY <2>2, <3>1, <3>2
  <2>3. QED
    BY <1>6, <2>1, <2>2 DEF Answers
<1>13. /\ acks' \in Seq(AckPackets)
       /\ \A j \in DOMAIN acks' : (\E i \in DOMAIN acks : acks'[j] = acks[i]) \/ acks'[j] \in e.ack
  <2>1. acks \in Seq(AckPackets)
    BY <1>1 DEF LinksInRange
  <2>2. QED
    BY <1>4, <1>12, <2>1, AnswerIs
<1>14. ASSUME NEW j \in DOMAIN acks', NEW i \in acks'[j].source_ids
       PROVE  Settled(dec', i)
  <2>1. ASSUME NEW k \in DOMAIN acks, acks'[j] = acks[k]
        PROVE  Settled(dec', i)
    <3>1. Settled(dec, i)
      BY <1>1, <1>14, <2>1 DEF AckedIsSettled
    <3>2. i \in SourceId
      <4>1. acks[k] \in AckPackets
        BY <1>1, LenProperties, ElementOfSeq DEF LinksInRange
      <4>2. QED
        BY <1>14, <2>1, <4>1, AckPacketIs
    <3>3. QED
      BY <1>11, <3>1, <3>2 DEF Heard
  <2>2. ASSUME acks'[j] \in e.ack
        PROVE  Settled(dec', i)
    <3>1. i \in SourceId /\ (i \in dec.m_sources \/ i \in e.m_sources)
      BY <1>12, <1>14, <2>2
    <3>2. Settled(dec, i) \/ Settled(dec', i)
      BY <1>9, <3>1 DEF Settled
    <3>3. QED
      BY <1>11, <3>1, <3>2 DEF Heard
  <2>3. QED
    BY <1>13, <2>1, <2>2
<1>15. LinksInRange' /\ LastIdBehind' /\ Flow'
  BY <1>2, <1>4, <1>10, <1>11, <1>13, <1>14, HeardKeeps
<1>16. ASSUME committing, NEW j \in DOMAIN acks'
       PROVE  enc.m_current_source_id \notin acks'[j].source_ids
  <2>1. ASSUME NEW i \in DOMAIN acks, acks'[j] = acks[i]
        PROVE  enc.m_current_source_id \notin acks'[j].source_ids
    BY <1>1, <1>16, <2>1 DEF CurrentIsKept
  <2>2. ASSUME acks'[j] \in e.ack
        PROVE  enc.m_current_source_id \notin acks'[j].source_ids
    BY <1>2, <1>5, <1>16, <2>2, CurrentIsNotAcked
  <2>3. QED
    BY <1>13, <2>1, <2>2
<1>17. CurrentIsKept'
  BY <1>2, <1>4, <1>11, <1>16, HeardKeepsCurrent
<1>18. EncoderReady'
  <2>1. /\ enc \in Encoders /\ enc.sent = <<>> /\ enc.fault = "none"
        /\ enc.m_sources \subseteq 0 .. (Begun - 1) /\ Begun <= MaxSource + 1
        /\ enc.m_current_repair_id \in RepairIds
        /\ committing \in BOOLEAN
    BY <1>1 DEF EncoderReady
  <2>2. Begun' = Begun
    BY <1>4 DEF Begun
  <2>3. QED
    BY <1>4, <2>1, <2>2 DEF EncoderReady
<1>19. QED
  BY <1>8, <1>15, <1>17, <1>18 DEF ProcessInv

-----------------------------------------------------------------------------
(***************************************************************************)
(* The theorems.                                                           *)
(***************************************************************************)
LEMMA NextKeeps == ProcessInv /\ Next => ProcessInv'
<1> SUFFICES ASSUME ProcessInv, Next PROVE ProcessInv'
  OBVIOUS
<1>1. CASE BeginCommit
  BY <1>1, BeginCommitKeeps
<1>2. CASE EndCommit
  BY <1>2, EndCommitKeeps
<1>3. CASE AppGenerateRepair
  BY <1>3, AppGenerateRepairKeeps
<1>4. CASE AskAck
  BY <1>4, AskAckKeeps
<1>5. CASE LoseData
  BY <1>5, LoseDataKeeps
<1>6. ASSUME NEW luck \in BOOLEAN, TakeData(luck)
      PROVE  ProcessInv'
  BY <1>6, TakeDataKeeps
<1>7. CASE LoseAck
  BY <1>7, LoseAckKeeps
<1>8. CASE TakeAck
  BY <1>8, TakeAckKeeps
<1>9. QED
  BY <1>1, <1>2, <1>3, <1>4, <1>5, <1>6, <1>7, <1>8 DEF Next, MoveData, MoveAck

LEMMA StutterKeeps == ProcessInv /\ UNCHANGED vars => ProcessInv'
<1> SUFFICES ASSUME ProcessInv, UNCHANGED vars PROVE ProcessInv'
  OBVIOUS
<1>1. enc' = enc /\ dec' = dec /\ data' = data /\ acks' = acks /\ committing' = committing
  BY DEF vars
<1>2. Begun' = Begun
  BY <1>1 DEF Begun
<1>3. EncoderReady'
  <2>1. /\ enc \in Encoders /\ enc.sent = <<>> /\ enc.fault = "none"
        /\ enc.m_sources \subseteq 0 .. (Begun - 1) /\ Begun <= MaxSource + 1
        /\ enc.m_current_repair_id \in RepairIds
        /\ committing \in BOOLEAN
    BY DEF ProcessInv, EncoderReady
  <2>2. QED
    BY <1>1, <1>2, <2>1 DEF EncoderReady
<1>4. DecoderReady'
  BY <1>1 DEF ProcessInv, DecoderReady
<1>5. LinksInRange' /\ LastIdBehind' /\ Flow'
  <2> DEFINE none == {}
  <2>1. enc'.m_sources = enc.m_sources \ none /\ \A i \in none : Settled(dec, i)
    BY <1>1
  <2> HIDE DEF none
  <2>2. SameMembers(dec, dec')
    BY <1>1, ProcessNumbers DEF SameMembers
  <2>3. /\ acks' \in Seq(AckPackets)
        /\ \A j \in DOMAIN acks' : \A i \in acks'[j].source_ids : Settled(dec, i)
    BY <1>1 DEF ProcessInv, Flow, LinksInRange, AckedIsSettled
  <2>4. enc'.m_current_source_id \in Nat /\ enc.m_current_source_id <= enc'.m_current_source_id
    BY <1>1, ProcessNumbers
  <2>5. QED
    BY <1>1, <1>2, <2>1, <2>2, <2>3, <2>4, QuietKeeps
<1>6. CurrentIsKept'
  BY <1>1 DEF ProcessInv, CurrentIsKept, Named, IsRepair
<1>7. QED
  BY <1>3, <1>4, <1>5, <1>6 DEF ProcessInv

(* The links deliver in order what they do not lose, and no ack names the  *)
(* source of a commit that is still running.                               *)
THEOREM ProcessSoundness == Spec => []ProcessInv
<1>1. Init => ProcessInv
  BY ProcessInit
<1>2. ProcessInv /\ [Next]_vars => ProcessInv'
  BY NextKeeps, StutterKeeps
<1>3. QED
  BY <1>1, <1>2, PTL DEF Spec

(* A repair always has something to encode (assertion encoder.hh:327),     *)
(* whatever is lost, and whenever the acks come.                           *)
THEOREM AlwaysEncodesSomething == Spec => []EncodesSomething
<1>1. ProcessInv => EncodesSomething
  BY DEF ProcessInv, EncoderReady, EncodesSomething
<1>2. QED
  BY <1>1, ProcessSoundness, PTL

(* No assertion of the decoder fails, no iterator is misused and no wrong  *)
(* data is handed over in one process, although a repair may come with the *)
(* identifier of one that is stored.                                       *)
THEOREM NeverFaults == Spec => []NoFault
<1>1. ProcessInv => NoFault
  BY DEF ProcessInv, DecoderReady, Tidy, Orderly, NoFault
<1>2. QED
  BY <1>1, ProcessSoundness, PTL
=============================================================================
