---------------------------- MODULE TunnelProofs ----------------------------
(***************************************************************************)
(* Proofs about an encoder and a decoder joined by a network.  Over any at *)
(* all, which may lose, repeat and reorder packets: the decoder never runs *)
(* ahead of the window, and the encoder forgets nothing that was not       *)
(* handed over.  Over one that loses packets and keeps the order of the    *)
(* others: the decoder meets none of its faults, every source is handed    *)
(* over once and, if asked, in order, and the pair keeps the promise       *)
(* Delivery makes of it.                                                   *)
(***************************************************************************)
EXTENDS Tunnel, EncoderLemmas, DecoderLemmas

-----------------------------------------------------------------------------
(***************************************************************************)
(* The inductive invariant.                                                *)
(***************************************************************************)
EncoderReady ==
  /\ enc \in Encoders
  /\ Committed(enc)
  /\ enc.m_current_source_id <= MaxSource + 1
  /\ enc.sent = <<>>

DecoderReady == Sound(dec) /\ AtRest(dec) /\ dec.m_in_order \in Orders

HistoriesInRange == delivered \in [SourceId -> 0 .. 2]

(* The sources that have been handed over.                                 *)
GivenSoFar == {s \in SourceId : delivered[s] > 0}

(* A packet that e may have sent: it names committed sources only, and a   *)
(* repair starts at or before the head of the window, however late it is.  *)
CarriesSource(e, p) ==
  \E s \in SourceId : p = SourcePacket(s) /\ s < e.m_current_source_id

CarriesRepair(e, p) ==
  \E r \in RepairId, ids \in (SUBSET SourceId) \ {{}} :
    /\ p = RepairPacket(r, ids)
    /\ \A i \in ids : i < e.m_current_source_id
    /\ \A w \in e.m_sources : Min(ids) <= w

DataInRange == \A m \in data : CarriesSource(enc, m.packet) \/ CarriesRepair(enc, m.packet)

AcksInRange ==
  \A m \in acks : \E ids \in SUBSET SourceId, nb \in Nat : m.packet = AckPacket(ids, nb)

(* m_last_id stays behind the window and what is still to be committed.    *)
LastIdBehind == WindowAhead /\ dec.m_last_id <= enc.m_current_source_id

(* Not in order: what is stored, hence what is named by an ack, hence what *)
(* the window forgets, has been handed over.                               *)
OthersRemembered ==
  ~dec.m_in_order =>
    /\ dec.m_ordered_sources = {}
    /\ dec.m_sources \subseteq GivenSoFar
    /\ \A m \in acks : m.packet.source_ids \subseteq GivenSoFar
    /\ \A s \in 0 .. (enc.m_current_source_id - 1) :
         s \in enc.m_sources \cup evicted \/ s \in GivenSoFar

InRange == EncoderReady /\ DecoderReady /\ HistoriesInRange /\ DataInRange /\ AcksInRange

NetInv == InRange /\ LastIdBehind /\ OthersRemembered

LEMMA InitHolds == Init => NetInv
<1> SUFFICES ASSUME Init PROVE NetInv
  OBVIOUS
<1>1. EncoderReady /\ enc.m_sources = {} /\ enc.m_current_source_id = 0
  <2>1. PICK type \in CodeTypes, adaptive \in Adaptives :
          enc = [NewEncoder EXCEPT !.m_rate = Rate, !.m_window_size = WindowSize,
                                   !.systematic = type, !.m_adaptive = adaptive]
    BY DEF Init
  <2>2. type \in BOOLEAN /\ adaptive \in BOOLEAN /\ Rate \in Nat \ {0} /\ WindowSize \in Nat \ {0}
    BY TunnelAssumption
  <2>3. NewEncoder \in Encoders
    BY NewEncoderIs
  <2>4. enc \in Encoders
    <3> HIDE DEF NewEncoder
    <3>1. QED
      BY <2>1, <2>2, <2>3 DEF Encoders
  <2>5. enc.m_sources = {} /\ enc.m_current_source_id = 0 /\ enc.sent = <<>>
    BY <2>1 DEF NewEncoder
  <2>6. QED
    BY <2>4, <2>5, PacketsAssumption DEF EncoderReady, Committed
<1>2. /\ DecoderReady
      /\ dec.m_last_id = 0 /\ dec.m_sources = {} /\ dec.m_ordered_sources = {}
  <2>1. PICK order \in Orders, on \in AckTimers, nb \in AckCounts :
          dec = SetAckNbPackets(SetAckFrequency(NewDecoder(order), on), nb)
    BY DEF Init
  <2>2. order \in BOOLEAN /\ on \in BOOLEAN /\ nb \in Nat
    BY TunnelAssumption
  <2> DEFINE d == SetAckFrequency(NewDecoder(order), on)
  <2>3. /\ Sound(d) /\ AtRest(d)
        /\ d.m_last_id = 0 /\ d.m_sources = {} /\ d.m_ordered_sources = {}
    BY <2>2, NewDecoderIs
  <2> HIDE DEF d
  <2>4. SameMembers(d, dec) /\ SameFault(d, dec) /\ AtRest(dec)
    BY <2>1, <2>2, <2>3, AckPolicyIs DEF Sound, d
  <2>5. Sound(dec)
    BY <2>3, <2>4, SameMembersSound DEF SameFault
  <2>6. d.m_in_order = order
    BY DEF d, SetAckFrequency, NewDecoder
  <2>7. dec.m_in_order \in Orders
    BY <2>4, <2>6 DEF SameMembers
  <2>8. QED
    BY <2>3, <2>4, <2>5, <2>7 DEF DecoderReady, SameMembers
<1>3. HistoriesInRange /\ data = {} /\ acks = {}
  BY DEF Init, HistoriesInRange
<1>4. LastIdBehind
  BY <1>1, <1>2 DEF LastIdBehind, WindowAhead
<1>5. OthersRemembered
  BY <1>1, <1>2, <1>3 DEF OthersRemembered
<1>6. QED
  BY <1>1, <1>2, <1>3, <1>4, <1>5 DEF NetInv, InRange, DataInRange, AcksInRange

-----------------------------------------------------------------------------
(***************************************************************************)
(* The encoder's side.                                                     *)
(***************************************************************************)

(* c is what a call makes of the encoder e: the window gains the source    *)
(* that is committed, if one is; what is sent is that source or encodes    *)
(* the new window.                                                         *)
SendsFrom(e, c) ==
  /\ c \in Encoders
  /\ Committed(c)
  /\ c.m_sources # {}
  /\ c.m_sources \subseteq e.m_sources \cup {e.m_current_source_id}
  /\ \/ c.m_current_source_id = e.m_current_source_id
     \/ c.m_current_source_id = e.m_current_source_id + 1
  /\ \A i \in DOMAIN c.sent :
       \/ /\ c.sent[i] = SourcePacket(e.m_current_source_id)
          /\ c.m_current_source_id = e.m_current_source_id + 1
       \/ \E r \in Nat : c.sent[i] = RepairPacket(r, c.m_sources)

LEMMA CommitSends ==
  ASSUME EncoderReady
  PROVE  /\ SendsFrom(enc, Commit(enc))
         /\ Commit(enc).m_sources = Kept(enc) \cup {enc.m_current_source_id}
         /\ Commit(enc).m_current_source_id = enc.m_current_source_id + 1
<1> DEFINE c == Commit(enc)
<1>1. /\ SameSettings(enc, c)
      /\ c.m_sources = Kept(enc) \cup {enc.m_current_source_id}
      /\ c.m_current_source_id = enc.m_current_source_id + 1
      /\ SentByCall(enc, c)
  BY CommitIs DEF EncoderReady
<1> HIDE DEF c
<1>2. Kept(enc) \subseteq enc.m_sources
  BY KeptIs DEF EncoderReady
<1>3. enc.m_current_source_id \in Nat /\ enc.m_sources \subseteq 0 .. (enc.m_current_source_id - 1)
  BY DEF EncoderReady, Committed, Encoders
<1>4. Committed(c)
  <2>1. 0 .. (enc.m_current_source_id - 1) \subseteq 0 .. enc.m_current_source_id
    BY <1>3
  <2>2. enc.m_current_source_id \in 0 .. enc.m_current_source_id
    BY <1>3
  <2>3. c.m_current_source_id - 1 = enc.m_current_source_id
    BY <1>1, <1>3
  <2>4. QED
    BY <1>1, <1>2, <1>3, <2>1, <2>2, <2>3 DEF Committed
<1>5. SendsFrom(enc, c)
  BY <1>1, <1>2, <1>4 DEF SendsFrom, SentByCall, SameSettings
<1>6. QED
  BY <1>1, <1>5 DEF c

LEMMA GenerateRepairSends ==
  ASSUME EncoderReady, enc.m_sources # {}
  PROVE  /\ SendsFrom(enc, GenerateRepair(enc))
         /\ GenerateRepair(enc).m_sources = enc.m_sources
         /\ GenerateRepair(enc).m_current_source_id = enc.m_current_source_id
<1> DEFINE c == GenerateRepair(enc)
           p == RepairPacket(enc.m_current_repair_id, enc.m_sources)
<1>1. /\ SameSettings(enc, c)
      /\ c.sent = Append(enc.sent, p)
      /\ c.m_current_source_id = enc.m_current_source_id
      /\ c.m_sources = enc.m_sources
  BY GenerateRepairIs DEF EncoderReady
<1> HIDE DEF c
<1>2. c.sent = <<p>>
  BY <1>1 DEF EncoderReady
<1>3. enc.m_current_repair_id \in Nat
  BY DEF EncoderReady, Encoders
<1>4. \A i \in DOMAIN c.sent : \E r \in Nat : c.sent[i] = RepairPacket(r, c.m_sources)
  BY <1>1, <1>2, <1>3
<1>5. SendsFrom(enc, c)
  BY <1>1, <1>4 DEF SendsFrom, SameSettings, EncoderReady, Committed
<1>6. QED
  BY <1>1, <1>5 DEF c

(* What is on its way stays as early as the window.                        *)
LEMMA StillCarried ==
  ASSUME EncoderReady, NEW c, c \in Encoders,
         c.m_sources \subseteq enc.m_sources \cup {enc.m_current_source_id},
         c.m_current_source_id >= enc.m_current_source_id,
         NEW p
  PROVE  /\ CarriesSource(enc, p) => CarriesSource(c, p)
         /\ CarriesRepair(enc, p) => CarriesRepair(c, p)
<1>1. /\ enc.m_current_source_id \in Nat /\ c.m_current_source_id \in Nat
      /\ SourceId \subseteq Nat
  BY PacketsAssumption DEF EncoderReady, Encoders, SourceId
<1>2. CarriesSource(enc, p) => CarriesSource(c, p)
  BY <1>1 DEF CarriesSource
<1>3. ASSUME NEW r \in RepairId, NEW ids \in (SUBSET SourceId) \ {{}},
             p = RepairPacket(r, ids),
             \A i \in ids : i < enc.m_current_source_id,
             \A w \in enc.m_sources : Min(ids) <= w
      PROVE  CarriesRepair(c, p)
  <2>1. ids \in SUBSET Nat
    BY <1>1
  <2>2. Min(ids) \in ids /\ Min(ids) \in Nat
    BY <2>1, MinIs
  <2>3. Min(ids) <= enc.m_current_source_id
    BY <1>1, <1>3, <2>2
  <2>4. \A w \in c.m_sources : Min(ids) <= w
    BY <1>3, <2>3
  <2>5. \A i \in ids : i < c.m_current_source_id
    BY <1>1, <1>3, <2>1
  <2>6. QED
    BY <1>3, <2>4, <2>5 DEF CarriesRepair
<1>4. QED
  BY <1>2, <1>3 DEF CarriesRepair

LEMMA EncoderSendsKeeps ==
  ASSUME InRange, LastIdBehind, NEW c, SendsFrom(enc, c), EncoderSends(c)
  PROVE  InRange' /\ LastIdBehind' /\ enc'.m_sources = c.m_sources
         /\ enc'.m_current_source_id = c.m_current_source_id
<1> DEFINE f == SettleEncoder(c)
<1>1. enc' = f /\ data' = data \cup Stamped(c.sent, clock.data)
  BY DEF EncoderSends
<1>2. /\ f \in Encoders /\ f.sent = <<>>
      /\ f.m_sources = c.m_sources /\ f.m_current_source_id = c.m_current_source_id
  BY SettleEncoderIs DEF SendsFrom, SameSettings
<1> HIDE DEF f
<1>3. /\ enc.m_current_source_id \in Nat /\ c.m_current_source_id \in Nat
      /\ SourceId \subseteq Nat /\ dec.m_last_id \in Nat
      /\ c.m_current_source_id >= enc.m_current_source_id
  BY PacketsAssumption
  DEF InRange, EncoderReady, DecoderReady, Sound, Decoders, SendsFrom, Encoders, SourceId
<1>4. c.m_current_source_id <= MaxSource + 1
  BY DEF EncoderSends, Fits
<1>5. EncoderReady'
  BY <1>1, <1>2, <1>4 DEF SendsFrom, EncoderReady, Committed
<1>6. DecoderReady' /\ HistoriesInRange' /\ AcksInRange'
  BY DEF InRange, EncoderSends, DecoderReady, HistoriesInRange, AcksInRange, Sound, AtRest,
         HasValidPointers, HasLiveLinks, HasNothingOutdated, HasFlushedQueue
<1>7. ASSUME NEW i \in DOMAIN c.sent
      PROVE  CarriesSource(f, c.sent[i]) \/ CarriesRepair(f, c.sent[i])
  <2>1. CASE /\ c.sent[i] = SourcePacket(enc.m_current_source_id)
             /\ c.m_current_source_id = enc.m_current_source_id + 1
    <3>1. enc.m_current_source_id \in SourceId
      BY <1>3, <1>4, <2>1, PacketsAssumption DEF SourceId
    <3>2. enc.m_current_source_id < f.m_current_source_id
      BY <1>2, <1>3, <2>1
    <3>3. QED
      BY <2>1, <3>1, <3>2 DEF CarriesSource
  <2>2. ASSUME NEW r \in Nat, c.sent[i] = RepairPacket(r, c.m_sources)
        PROVE  CarriesRepair(f, c.sent[i])
    <3>1. r \in RepairId
      <4>1. c.sent[i].kind = "repair" /\ c.sent[i].id = r
        BY <2>2 DEF RepairPacket
      <4>2. QED
        BY <4>1 DEF EncoderSends, Fits
    <3>2. \A k \in c.m_sources : k \in Nat /\ k < c.m_current_source_id
      BY <1>3 DEF SendsFrom, Committed
    <3>3. c.m_sources \in (SUBSET SourceId) \ {{}}
      BY <1>3, <1>4, <3>2, PacketsAssumption DEF SendsFrom, SourceId
    <3>4. \A w \in c.m_sources : Min(c.m_sources) <= w
      <4>1. c.m_sources \in SUBSET Nat /\ c.m_sources # {}
        BY <3>2, <3>3
      <4>2. QED
        BY <4>1, MinIs
    <3>5. QED
      BY <1>2, <2>2, <3>1, <3>2, <3>3, <3>4 DEF CarriesRepair
  <2>3. QED
    BY <2>1, <2>2 DEF SendsFrom
<1>8. DataInRange'
  <2>1. SUFFICES ASSUME NEW m \in data'
                 PROVE  CarriesSource(f, m.packet) \/ CarriesRepair(f, m.packet)
    BY <1>1 DEF DataInRange
  <2>2. CASE m \in data
    <3>1. CarriesSource(enc, m.packet) \/ CarriesRepair(enc, m.packet)
      BY <2>2 DEF InRange, DataInRange
    <3>2. EncoderReady /\ f.m_sources \subseteq enc.m_sources \cup {enc.m_current_source_id}
      BY <1>2 DEF InRange, SendsFrom
    <3>3. QED
      BY <1>2, <1>3, <3>1, <3>2, StillCarried
  <2>3. CASE m \in Stamped(c.sent, clock.data)
    BY <1>7, <2>3 DEF Stamped
  <2>4. QED
    BY <1>1, <2>1, <2>2, <2>3
<1>9. LastIdBehind'
  <2>1. dec' = dec
    BY DEF EncoderSends
  <2>2. \A w \in enc.m_sources : dec.m_last_id <= w
    BY DEF LastIdBehind, WindowAhead
  <2>3. dec.m_last_id <= enc.m_current_source_id
    BY DEF LastIdBehind
  <2>4. \A w \in c.m_sources : dec.m_last_id <= w
    BY <2>2, <2>3 DEF SendsFrom
  <2>5. dec.m_last_id <= c.m_current_source_id
    BY <1>3, <2>3
  <2>6. QED
    BY <1>1, <1>2, <2>1, <2>4, <2>5 DEF LastIdBehind, WindowAhead
<1>10. QED
  BY <1>1, <1>2, <1>5, <1>6, <1>8, <1>9 DEF InRange

LEMMA ReceiveAckKeeps ==
  ASSUME InRange, LastIdBehind, NEW m \in acks, ReceiveAck(m)
  PROVE  /\ InRange' /\ LastIdBehind'
         /\ enc'.m_sources = enc.m_sources \ m.packet.source_ids
         /\ enc'.m_current_source_id = enc.m_current_source_id
<1>1. PICK ids \in SUBSET SourceId, nb \in Nat : m.packet = AckPacket(ids, nb)
  BY DEF InRange, AcksInRange
<1>2. enc' = Notify(enc, m.packet) /\ acks' \subseteq acks
  BY DEF ReceiveAck, Consume
<1>3. /\ enc' \in Encoders
      /\ enc'.m_sources = enc.m_sources \ ids
      /\ enc'.m_current_source_id = enc.m_current_source_id
      /\ enc'.sent = enc.sent
  BY <1>1, <1>2, NotifyIs DEF InRange, EncoderReady
<1>4. ids = m.packet.source_ids
  BY <1>1 DEF AckPacket
<1>5. EncoderReady'
  BY <1>3 DEF InRange, EncoderReady, Committed
<1>6. DecoderReady' /\ HistoriesInRange' /\ AcksInRange'
  BY <1>2
  DEF InRange, ReceiveAck, DecoderReady, HistoriesInRange, AcksInRange, Sound, AtRest,
      HasValidPointers, HasLiveLinks, HasNothingOutdated, HasFlushedQueue
<1>7. DataInRange'
  <2>1. EncoderReady /\ data' = data
    BY DEF InRange, ReceiveAck
  <2>2. enc'.m_current_source_id >= enc.m_current_source_id
    BY <1>3, <2>1 DEF EncoderReady, Encoders
  <2>3. \A p : /\ CarriesSource(enc, p) => CarriesSource(enc', p)
               /\ CarriesRepair(enc, p) => CarriesRepair(enc', p)
    BY <1>3, <2>1, <2>2, StillCarried
  <2>4. QED
    BY <2>1, <2>3 DEF InRange, DataInRange
<1>8. LastIdBehind'
  BY <1>3 DEF LastIdBehind, WindowAhead, ReceiveAck
<1>9. QED
  BY <1>3, <1>4, <1>5, <1>6, <1>7, <1>8 DEF InRange

-----------------------------------------------------------------------------
(***************************************************************************)
(* The decoder's side.                                                     *)
(***************************************************************************)

(* A packet on its way is one that the decoder handles, and moves          *)
(* m_last_id to the head of the window at most.                            *)
LEMMA DataIsHandled ==
  ASSUME InRange, LastIdBehind, dec.fault = "none",
         NEW m \in data, NEW luck \in BOOLEAN, NEW e \in Receive(dec, m.packet, luck)
  PROVE  /\ ReceivedTo(dec, m.packet, e)
         /\ Sound(e)
         /\ e.m_in_order = dec.m_in_order
         /\ e.m_last_id <= enc.m_current_source_id
         /\ \A w \in enc.m_sources : e.m_last_id <= w
<1>1. CarriesSource(enc, m.packet) \/ CarriesRepair(enc, m.packet)
  BY DEF InRange, DataInRange
<1>2. m.packet \in DataPackets
  BY <1>1 DEF CarriesSource, CarriesRepair, DataPackets
<1>3. Sound(dec)
  BY DEF InRange, DecoderReady
<1>4. ReceivedTo(dec, m.packet, e)
  BY <1>2, <1>3, ReceiveIs
<1>5. Sound(e)
  BY <1>3, <1>4, ReceivedSound
<1>6. MovedTo(dec, m.packet, e)
  BY <1>4, ReceivedMoves
<1>7. CASE e.m_last_id = dec.m_last_id
  BY <1>4, <1>5, <1>6, <1>7 DEF MovedTo, LastIdBehind, WindowAhead
<1>8. ASSUME NEW r \in RepairId, NEW ids \in (SUBSET SourceId) \ {{}},
             m.packet = RepairPacket(r, ids), e.m_last_id = Min(ids)
      PROVE  /\ e.m_last_id <= enc.m_current_source_id
             /\ \A w \in enc.m_sources : e.m_last_id <= w
  <2>1. \A s \in SourceId : m.packet # SourcePacket(s)
    BY <1>8 DEF RepairPacket, SourcePacket
  <2>2. PICK r2 \in RepairId, ids2 \in (SUBSET SourceId) \ {{}} :
          /\ m.packet = RepairPacket(r2, ids2)
          /\ \A i \in ids2 : i < enc.m_current_source_id
          /\ \A w \in enc.m_sources : Min(ids2) <= w
    BY <1>1, <2>1 DEF CarriesSource, CarriesRepair
  <2>3. ids2 = ids
    BY <1>8, <2>2 DEF RepairPacket
  <2>4. ids \in SUBSET Nat /\ enc.m_current_source_id \in Nat
    BY PacketsAssumption DEF SourceId, InRange, EncoderReady, Encoders
  <2>5. Min(ids) \in ids
    BY <2>4, MinIs
  <2>6. Min(ids) \in Nat /\ Min(ids) < enc.m_current_source_id
    BY <2>2, <2>3, <2>4, <2>5
  <2>7. \A w \in enc.m_sources : Min(ids) <= w
    BY <2>2, <2>3
  <2>8. QED
    BY <1>8, <2>4, <2>6, <2>7
<1>9. QED
  BY <1>4, <1>5, <1>6, <1>7, <1>8 DEF MovedTo

(* A call that ends in e.                                                  *)
LEMMA DecoderReturnsKeeps ==
  ASSUME InRange, NEW e, Sound(e), e.m_in_order = dec.m_in_order,
         Answers(dec.m_sources, e),
         e.m_last_id <= enc.m_current_source_id,
         \A w \in enc.m_sources : e.m_last_id <= w,
         DecoderReturns(e), data' \subseteq data
  PROVE  /\ InRange' /\ LastIdBehind'
         /\ RestedTo(e, dec')
         /\ GivenSoFar' = GivenSoFar \cup e.out
<1>1. RestedTo(e, dec')
  BY SettleDecoderIs DEF DecoderReturns, Sound
<1>2. Sound(dec') /\ AtRest(dec') /\ SameMembers(e, dec')
  BY <1>1, RestedSound DEF RestedTo
<1>3. DecoderReady'
  <2>1. dec'.m_in_order \in Orders
    BY <1>2 DEF InRange, DecoderReady, SameMembers
  <2>2. QED
    BY <1>2, <2>1 DEF DecoderReady, Sound, AtRest, HasValidPointers, HasLiveLinks,
                      HasNothingOutdated, HasFlushedQueue
<1>4. /\ delivered' = [s \in SourceId |-> IF s \in e.out /\ delivered[s] < 2
                                          THEN delivered[s] + 1 ELSE delivered[s]]
      /\ delivered \in [SourceId -> 0 .. 2]
  BY DEF DecoderReturns, Tally, InRange, HistoriesInRange
<1>5. HistoriesInRange'
  BY <1>4 DEF HistoriesInRange
<1>6. GivenSoFar' = GivenSoFar \cup e.out
  <2>1. \A s \in SourceId : delivered'[s] > 0 <=> delivered[s] > 0 \/ s \in e.out
    BY <1>4
  <2>2. e.out \in SUBSET SourceId
    BY DEF Sound, Decoders
  <2>3. QED
    BY <2>1, <2>2 DEF GivenSoFar
<1>7. EncoderReady' /\ DataInRange'
  BY DEF InRange, EncoderReady, Committed, DataInRange, DecoderReturns
<1>8. AcksInRange'
  <2>1. SUFFICES ASSUME NEW m \in acks'
                 PROVE  \E ids \in SUBSET SourceId, nb \in Nat : m.packet = AckPacket(ids, nb)
    BY DEF AcksInRange
  <2>2. CASE m \in acks
    BY <2>2 DEF InRange, AcksInRange
  <2>3. CASE m \notin acks
    <3>1. PICK a \in e.ack : m.packet = a
      BY <2>1, <2>3 DEF DecoderReturns
    <3>2. QED
      BY <3>1 DEF Answers
  <2>4. QED
    BY <2>2, <2>3
<1>9. LastIdBehind'
  BY <1>2 DEF LastIdBehind, WindowAhead, SameMembers, DecoderReturns
<1>10. QED
  BY <1>1, <1>3, <1>5, <1>6, <1>7, <1>8, <1>9 DEF InRange

(* Not in order, the new ack names what has been given by now.             *)
LEMMA DecoderReturnsRemembers ==
  ASSUME InRange, OthersRemembered, NEW e, Answers(dec.m_sources, e),
         e.m_in_order = dec.m_in_order,
         DecoderReturns(e), RestedTo(e, dec'), GivenSoFar' = GivenSoFar \cup e.out
  PROVE  OthersRemembered'
<1>1. SUFFICES ASSUME ~dec'.m_in_order
               PROVE  /\ dec'.m_ordered_sources = {}
                      /\ dec'.m_sources \subseteq GivenSoFar'
                      /\ \A m \in acks' : m.packet.source_ids \subseteq GivenSoFar'
                      /\ \A s \in 0 .. (enc'.m_current_source_id - 1) :
                           s \in enc'.m_sources \cup evicted' \/ s \in GivenSoFar'
  BY DEF OthersRemembered
<1>2. /\ ~dec.m_in_order /\ ~e.m_in_order
      /\ dec'.m_ordered_sources = e.m_ordered_sources
      /\ dec'.m_sources = e.m_sources
  BY <1>1 DEF RestedTo, SameMembers
<1>3. /\ dec.m_sources \subseteq GivenSoFar
      /\ \A m \in acks : m.packet.source_ids \subseteq GivenSoFar
      /\ \A s \in 0 .. (enc.m_current_source_id - 1) :
           s \in enc.m_sources \cup evicted \/ s \in GivenSoFar
  BY <1>2 DEF OthersRemembered
<1>4. e.m_ordered_sources = {} /\ e.m_sources \subseteq GivenSoFar'
  BY <1>2, <1>3 DEF Answers
<1>5. ASSUME NEW m \in acks', m \notin acks
      PROVE  m.packet.source_ids \subseteq GivenSoFar'
  <2>1. PICK a \in e.ack : m.packet = a
    BY <1>5 DEF DecoderReturns
  <2>2. PICK known \in SUBSET SourceId, nb \in Nat :
          e.ack = {AckPacket(known, nb)} /\ known \subseteq dec.m_sources \cup e.m_sources
    BY <2>1 DEF Answers
  <2>3. m.packet.source_ids = known
    BY <2>1, <2>2 DEF AckPacket
  <2>4. QED
    BY <1>3, <1>4, <2>2, <2>3
<1>6. QED
  BY <1>2, <1>3, <1>4, <1>5 DEF DecoderReturns

(* A new policy changes nothing else.                                      *)
LEMMA SetAckPolicyKeeps ==
  ASSUME NetInv, NEW d, SameMembers(dec, d), SameFault(dec, d), AtRest(d), SetAckPolicy(d)
  PROVE  NetInv'
<1>1. dec' = d
  BY DEF SetAckPolicy
<1>2. Sound(d)
  BY SameMembersSound DEF NetInv, InRange, DecoderReady, SameFault
<1>3. DecoderReady'
  <2>1. d.m_in_order \in Orders
    BY DEF NetInv, InRange, DecoderReady, SameMembers
  <2>2. QED
    BY <1>1, <1>2, <2>1 DEF DecoderReady, Sound, AtRest, HasValidPointers, HasLiveLinks,
                            HasNothingOutdated, HasFlushedQueue
<1>4. EncoderReady' /\ HistoriesInRange' /\ DataInRange' /\ AcksInRange'
  BY DEF NetInv, InRange, EncoderReady, Committed, HistoriesInRange, DataInRange, AcksInRange,
         SetAckPolicy
<1>5. LastIdBehind'
  BY <1>1 DEF NetInv, LastIdBehind, WindowAhead, SetAckPolicy, SameMembers
<1>6. OthersRemembered'
  BY <1>1 DEF NetInv, OthersRemembered, GivenSoFar, SetAckPolicy, SameMembers
<1>7. QED
  BY <1>3, <1>4, <1>5, <1>6 DEF NetInv, InRange

-----------------------------------------------------------------------------
(***************************************************************************)
(* Every step.                                                             *)
(***************************************************************************)
LEMMA NextKeeps == NetInv /\ Next => NetInv'
<1> SUFFICES ASSUME NetInv, Next PROVE NetInv'
  OBVIOUS
<1> USE DEF NetInv
<1>1. CASE AppCommit
  <2> DEFINE c == Commit(enc)
  <2>1. EncoderSends(c) /\ evicted' = evicted \cup (enc.m_sources \ c.m_sources)
    BY <1>1 DEF AppCommit
  <2>2. /\ SendsFrom(enc, c)
        /\ enc.m_current_source_id \in c.m_sources
        /\ c.m_current_source_id = enc.m_current_source_id + 1
    BY CommitSends DEF InRange
  <2> HIDE DEF c
  <2>3. /\ InRange' /\ LastIdBehind' /\ enc'.m_sources = c.m_sources
        /\ enc'.m_current_source_id = c.m_current_source_id
    BY <2>1, <2>2, EncoderSendsKeeps
  <2>4. enc.m_current_source_id \in Nat
    BY DEF InRange, EncoderReady, Encoders
  <2>5. \A s \in 0 .. (c.m_current_source_id - 1) :
          s \in 0 .. (enc.m_current_source_id - 1) \/ s = enc.m_current_source_id
    BY <2>2, <2>4
  <2>6. OthersRemembered'
    BY <2>1, <2>2, <2>3, <2>5 DEF OthersRemembered, GivenSoFar, EncoderSends
  <2>7. QED
    BY <2>3, <2>6
<1>2. CASE AppGenerateRepair
  <2> DEFINE c == GenerateRepair(enc)
  <2>1. EncoderSends(c) /\ evicted' = evicted /\ enc.m_sources # {}
    BY <1>2 DEF AppGenerateRepair
  <2>2. /\ SendsFrom(enc, c)
        /\ c.m_sources = enc.m_sources
        /\ c.m_current_source_id = enc.m_current_source_id
    BY <2>1, GenerateRepairSends DEF InRange
  <2> HIDE DEF c
  <2>3. /\ InRange' /\ LastIdBehind' /\ enc'.m_sources = c.m_sources
        /\ enc'.m_current_source_id = c.m_current_source_id
    BY <2>1, <2>2, EncoderSendsKeeps
  <2>4. OthersRemembered'
    BY <2>1, <2>2, <2>3 DEF OthersRemembered, GivenSoFar, EncoderSends
  <2>5. QED
    BY <2>3, <2>4
<1>3. CASE AskAck
  <2> DEFINE e == GenerateAck(dec, dec.m_sources)
  <2>1. DecoderReturns(e) /\ data' = data
    BY <1>3 DEF AskAck
  <2>2. /\ Sound(dec) /\ AtRest(dec)
        /\ dec \in Decoders /\ dec.m_sources \in SUBSET SourceId /\ dec.nb_packets \in Nat
    BY DEF InRange, DecoderReady, Sound, Decoders
  <2>3. /\ SameMembers(dec, e) /\ SameFault(dec, e)
        /\ e.ack = {AckPacket(dec.m_sources, dec.nb_packets)}
    BY <2>2, GenerateAckIs DEF AtRest
  <2> HIDE DEF e
  <2>4. Sound(e)
    BY <2>2, <2>3, SameMembersSound DEF SameFault
  <2>5. Answers(dec.m_sources, e)
    BY <2>2, <2>3 DEF Answers, SameMembers, OthersRemembered
  <2>6. /\ e.m_in_order = dec.m_in_order
        /\ e.m_last_id <= enc.m_current_source_id
        /\ \A w \in enc.m_sources : e.m_last_id <= w
    BY <2>3 DEF SameMembers, LastIdBehind, WindowAhead
  <2>7. /\ InRange' /\ LastIdBehind' /\ RestedTo(e, dec')
        /\ GivenSoFar' = GivenSoFar \cup e.out
    BY <2>1, <2>4, <2>5, <2>6, DecoderReturnsKeeps
  <2>8. QED
    BY <2>1, <2>5, <2>6, <2>7, DecoderReturnsRemembers
<1>4. CASE SetFrequency
  <2>1. PICK on \in AckTimers : SetAckPolicy(SetAckFrequency(dec, on))
    BY <1>4 DEF SetFrequency
  <2>2. on \in BOOLEAN /\ dec \in Decoders /\ AtRest(dec)
    BY TunnelAssumption DEF InRange, DecoderReady, Sound
  <2>3. QED
    BY <2>1, <2>2, AckPolicyIs, SetAckPolicyKeeps
<1>5. CASE SetCount
  <2>1. PICK nb \in AckCounts : SetAckPolicy(SetAckNbPackets(dec, nb))
    BY <1>5 DEF SetCount
  <2>2. nb \in Nat /\ dec \in Decoders /\ AtRest(dec)
    BY TunnelAssumption DEF InRange, DecoderReady, Sound
  <2>3. QED
    BY <2>1, <2>2, AckPolicyIs, SetAckPolicyKeeps
<1>6. ASSUME NEW m \in data, ReceiveData(m)
      PROVE  NetInv'
  <2>1. PICK luck \in BOOLEAN : \E e \in Receive(dec, m.packet, luck) : DecoderReturns(e)
    BY <1>6 DEF ReceiveData
  <2>2. PICK e \in Receive(dec, m.packet, luck) : DecoderReturns(e)
    BY <2>1
  <2>3. dec.fault = "none" /\ data' \subseteq data
    BY <1>6 DEF ReceiveData, Running, Consume
  <2>4. /\ ReceivedTo(dec, m.packet, e)
        /\ Sound(e)
        /\ e.m_in_order = dec.m_in_order
        /\ e.m_last_id <= enc.m_current_source_id
        /\ \A w \in enc.m_sources : e.m_last_id <= w
    BY <2>2, <2>3, DataIsHandled
  <2>5. /\ dec \in Decoders /\ AtRest(dec)
        /\ ~dec.m_in_order => dec.m_ordered_sources = {}
    BY DEF InRange, DecoderReady, Sound, OthersRemembered
  <2>6. Answers(dec.m_sources, e)
    BY <2>4, <2>5, ReceivedAnswers
  <2>7. /\ InRange' /\ LastIdBehind' /\ RestedTo(e, dec')
        /\ GivenSoFar' = GivenSoFar \cup e.out
    BY <2>2, <2>3, <2>4, <2>6, DecoderReturnsKeeps
  <2>8. QED
    BY <2>2, <2>4, <2>6, <2>7, DecoderReturnsRemembers
<1>7. ASSUME NEW m \in acks, ReceiveAck(m)
      PROVE  NetInv'
  <2>1. /\ InRange' /\ LastIdBehind'
        /\ enc'.m_sources = enc.m_sources \ m.packet.source_ids
        /\ enc'.m_current_source_id = enc.m_current_source_id
    BY <1>7, ReceiveAckKeeps
  <2>2. acks' \subseteq acks
    BY <1>7 DEF ReceiveAck, Consume
  <2>3. OthersRemembered'
    BY <1>7, <2>1, <2>2 DEF OthersRemembered, GivenSoFar, ReceiveAck
  <2>4. QED
    BY <2>1, <2>3
<1>8. QED
  BY <1>1, <1>2, <1>3, <1>4, <1>5, <1>6, <1>7 DEF Next

LEMMA StutterKeeps == NetInv /\ UNCHANGED vars => NetInv'
BY DEF vars, NetInv, InRange, EncoderReady, Committed, DecoderReady, Sound, AtRest,
       HasValidPointers, HasLiveLinks, HasNothingOutdated, HasFlushedQueue, HistoriesInRange,
       DataInRange, AcksInRange, LastIdBehind, WindowAhead, OthersRemembered, GivenSoFar

THEOREM NetSoundness == Spec => []NetInv
<1>1. NetInv /\ [Next]_vars => NetInv'
  BY NextKeeps, StutterKeeps
<1>2. QED
  BY <1>1, InitHolds, PTL DEF Spec

-----------------------------------------------------------------------------
(***************************************************************************)
(* The theorems.                                                           *)
(***************************************************************************)

(* Whatever the network loses, repeats or reorders, the decoder never      *)
(* considers outdated a source that the encoder still repairs.             *)
THEOREM WindowAlwaysAhead == Spec => []WindowAhead
<1>1. NetInv => WindowAhead
  BY DEF NetInv, LastIdBehind
<1>2. QED
  BY <1>1, NetSoundness, PTL

(* Whatever the network loses, repeats or reorders, and whatever acks are  *)
(* late, the encoder of a decoder that is not in order forgets no source,  *)
(* but those it evicts, before it has been handed to the user.             *)
THEOREM ForgottenAlwaysDelivered ==
  ASSUME Orders \subseteq {FALSE}
  PROVE  Spec => []ForgottenWasDelivered
<1>1. NetInv => ForgottenWasDelivered
  <2> SUFFICES ASSUME NetInv,
                      NEW s \in 0 .. (enc.m_current_source_id - 1), s \notin enc.m_sources \cup evicted
               PROVE  delivered[s] > 0
    BY DEF ForgottenWasDelivered
  <2>1. ~dec.m_in_order
    BY DEF NetInv, InRange, DecoderReady
  <2>2. QED
    BY <2>1 DEF NetInv, OthersRemembered, GivenSoFar
<1>2. QED
  BY <1>1, NetSoundness, PTL

-----------------------------------------------------------------------------
(***************************************************************************)
(* The inductive invariant: what is on its way over a network that keeps   *)
(* the order, and what each end may rely on about the other.               *)
(***************************************************************************)
IsSource(m) == m.packet.kind = "source"
IsRepair(m) == m.packet.kind = "repair"

(* Messages are numbered in sending order.                                 *)
StampsInOrder ==
  /\ clock \in [data : Nat, acks : Nat]
  /\ \A m \in data : m.stamp \in Nat /\ m.stamp <= clock.data

(* A source is sent before the repairs that encode it.                     *)
SourcesComeFirst ==
  \A m \in data : IsSource(m) =>
    /\ m.packet.id \notin DOMAIN dec.m_missing_sources
    /\ \A q \in data : IsRepair(q) /\ q.stamp < m.stamp => m.packet.id \notin q.packet.source_ids

(* What is lacking, each repair on its way and the window follow one       *)
(* another, and their first sources never go back.                         *)
FollowsRepair(q) ==
  \A p \in data : IsRepair(p) /\ p.stamp < q.stamp =>
    /\ Follows(dec, p.packet.source_ids, q.packet.source_ids)
    /\ \A i \in q.packet.source_ids : Min(p.packet.source_ids) <= i

RepairsFollow ==
  \A q \in data : IsRepair(q) =>
    /\ Follows(dec, DOMAIN dec.m_missing_sources, q.packet.source_ids)
    /\ Follows(dec, q.packet.source_ids, enc.m_sources)
    /\ \A i \in q.packet.source_ids : dec.m_last_id <= i
    /\ FollowsRepair(q)

WindowFollows == Follows(dec, DOMAIN dec.m_missing_sources, enc.m_sources)

(* The decoder knows of nothing that was not committed.                    *)
OnlyCommitted ==
  \A i \in dec.m_sources \cup DOMAIN dec.m_missing_sources : i < enc.m_current_source_id

(* What is acked, and what the encoder forgets, is settled.                *)
AckedIsSettled == \A m \in acks : \A i \in m.packet.source_ids : Settled(dec, i)

ForgottenIsSettled ==
  \A s \in 0 .. (enc.m_current_source_id - 1) :
    s \in enc.m_sources \cup evicted \/ Settled(dec, s)

(* What has been handed over, and when in order, what was passed over.     *)
GivenIsSettled ==
  \A s \in SourceId : delivered[s] > 0 =>
    delivered[s] = 1 /\ Settled(dec, s) /\ s < enc.m_current_source_id

GivenInOrder ==
  dec.m_in_order =>
    \A s \in SourceId : IF s < dec.m_first_missing THEN delivered[s] = 1 \/ s \in evicted
                                                   ELSE delivered[s] = 0

Flow ==
  /\ StampsInOrder
  /\ SourcesComeFirst
  /\ RepairsFollow
  /\ WindowFollows
  /\ OnlyCommitted
  /\ AckedIsSettled
  /\ ForgottenIsSettled
  /\ GivenIsSettled
  /\ GivenInOrder

OrderedInv == NetInv /\ Tidy(dec) /\ Flow

(* What a message is, as the properties of Flow name it.                   *)
LEMMA MessageIs ==
  ASSUME NetInv, NEW m \in data
  PROVE  /\ IsSource(m) => /\ m.packet = SourcePacket(m.packet.id)
                           /\ m.packet.id \in SourceId
                           /\ m.packet.id < enc.m_current_source_id
         /\ IsRepair(m) => /\ \E r \in RepairId : m.packet = RepairPacket(r, m.packet.source_ids)
                           /\ m.packet.source_ids \in (SUBSET SourceId) \ {{}}
                           /\ \A i \in m.packet.source_ids : i < enc.m_current_source_id
                           /\ \A w \in enc.m_sources : Min(m.packet.source_ids) <= w
         /\ IsSource(m) \/ IsRepair(m)
         /\ ~(IsSource(m) /\ IsRepair(m))
<1>1. CASE CarriesSource(enc, m.packet)
  BY <1>1 DEF CarriesSource, SourcePacket, IsSource, IsRepair
<1>2. CASE CarriesRepair(enc, m.packet)
  <2>1. PICK r \in RepairId, ids \in (SUBSET SourceId) \ {{}} :
          /\ m.packet = RepairPacket(r, ids)
          /\ \A i \in ids : i < enc.m_current_source_id
          /\ \A w \in enc.m_sources : Min(ids) <= w
    BY <1>2 DEF CarriesRepair
  <2>2. m.packet.source_ids = ids /\ m.packet.kind = "repair"
    BY <2>1 DEF RepairPacket
  <2>3. QED
    BY <2>1, <2>2 DEF IsSource, IsRepair
<1>3. QED
  BY <1>1, <1>2 DEF NetInv, InRange, DataInRange

(* Both ends in numbers.                                                   *)
LEMMA NetNumbers ==
  ASSUME NetInv
  PROVE  /\ enc.m_current_source_id \in Nat
         /\ enc.m_current_source_id <= MaxSource + 1
         /\ 0 .. (enc.m_current_source_id - 1) \subseteq SourceId
         /\ enc.m_sources \subseteq 0 .. (enc.m_current_source_id - 1)
         /\ enc.m_sources \subseteq Nat
         /\ SourceId \subseteq Nat
         /\ dec.m_last_id \in Nat
         /\ dec.m_first_missing \in Nat
         /\ dec.m_sources \in SUBSET SourceId
         /\ DOMAIN dec.m_missing_sources \in SUBSET SourceId
         /\ delivered \in [SourceId -> 0 .. 2]
         /\ \A m \in acks : m.packet.source_ids \in SUBSET SourceId
<1>1. /\ enc.m_current_source_id \in Nat
      /\ enc.m_current_source_id <= MaxSource + 1
      /\ enc.m_sources \subseteq 0 .. (enc.m_current_source_id - 1)
      /\ delivered \in [SourceId -> 0 .. 2]
      /\ dec \in Decoders
  BY DEF NetInv, InRange, EncoderReady, Encoders, Committed, HistoriesInRange, DecoderReady, Sound
<1>2. 0 .. (enc.m_current_source_id - 1) \subseteq SourceId
  BY <1>1, PacketsAssumption DEF SourceId
<1>3. /\ SourceId \subseteq Nat
      /\ dec.m_last_id \in Nat
      /\ dec.m_first_missing \in Nat
      /\ dec.m_sources \in SUBSET SourceId
      /\ DOMAIN dec.m_missing_sources \in SUBSET SourceId
  BY <1>1, DecoderNumbers, DecoderMaps, PacketsAssumption DEF SourceId
<1>4. \A m \in acks : m.packet.source_ids \in SUBSET SourceId
  <2>1. SUFFICES ASSUME NEW m \in acks
                 PROVE  m.packet.source_ids \in SUBSET SourceId
    OBVIOUS
  <2>2. PICK ids \in SUBSET SourceId, nb \in Nat : m.packet = AckPacket(ids, nb)
    BY DEF NetInv, InRange, AcksInRange
  <2>3. QED
    BY <2>2 DEF AckPacket
<1>5. QED
  BY <1>1, <1>2, <1>3, <1>4

LEMMA OrderedInit == Init => OrderedInv
<1> SUFFICES ASSUME Init PROVE OrderedInv
  OBVIOUS
<1>1. NetInv
  BY InitHolds
<1>2. /\ Sound(dec)
      /\ dec.fault = "none"
      /\ dec.m_last_id = 0
      /\ dec.m_first_missing = 0
      /\ dec.m_sources = {}
      /\ dec.m_ordered_sources = {}
      /\ DOMAIN dec.m_repairs = {}
      /\ DOMAIN dec.m_missing_sources = {}
  <2>1. PICK order \in Orders, on \in AckTimers, nb \in AckCounts :
          dec = SetAckNbPackets(SetAckFrequency(NewDecoder(order), on), nb)
    BY DEF Init
  <2>2. order \in BOOLEAN /\ on \in BOOLEAN /\ nb \in Nat
    BY TunnelAssumption
  <2> DEFINE d == SetAckFrequency(NewDecoder(order), on)
  <2>3. /\ Sound(d)
        /\ d.fault = "none"
        /\ d.m_last_id = 0
        /\ d.m_first_missing = 0
        /\ d.m_sources = {}
        /\ d.m_ordered_sources = {}
        /\ DOMAIN d.m_repairs = {}
        /\ DOMAIN d.m_missing_sources = {}
    BY <2>2, NewDecoderIs
  <2> HIDE DEF d
  <2>4. SameMembers(d, dec) /\ SameFault(d, dec)
    BY <2>1, <2>2, <2>3, AckPolicyIs DEF Sound, d
  <2>5. Sound(dec)
    BY <1>1 DEF NetInv, InRange, DecoderReady
  <2>6. QED
    BY <2>3, <2>4, <2>5 DEF SameMembers, SameFault
<1>3. Tidy(dec)
  BY <1>2, NewIsTidy
<1>4. /\ data = {} /\ acks = {} /\ clock = [data |-> 0, acks |-> 0]
      /\ delivered = [s \in SourceId |-> 0]
      /\ enc.m_current_source_id = 0
  BY DEF Init, NewEncoder
<1>5. StampsInOrder /\ SourcesComeFirst /\ RepairsFollow /\ WindowFollows /\ OnlyCommitted /\ AckedIsSettled
  BY <1>2, <1>4
  DEF StampsInOrder, SourcesComeFirst, RepairsFollow, WindowFollows, Follows, OnlyCommitted, AckedIsSettled
<1>6. ForgottenIsSettled
  BY <1>4 DEF ForgottenIsSettled
<1>7. GivenIsSettled /\ GivenInOrder
  <2>1. \A s \in SourceId : ~(s < 0) /\ delivered[s] = 0
    BY <1>4, PacketsAssumption DEF SourceId
  <2>2. QED
    BY <1>2, <2>1 DEF GivenIsSettled, GivenInOrder
<1>8. QED
  BY <1>1, <1>3, <1>5, <1>6, <1>7 DEF OrderedInv, Flow

-----------------------------------------------------------------------------
(***************************************************************************)
(* The encoder's side.                                                     *)
(***************************************************************************)

(* Only the oldest sources leave the window.                               *)
Advanced(e, c) ==
  /\ \A s \in e.m_sources \ c.m_sources : \A k \in c.m_sources : s < k
  /\ c.m_current_source_id = e.m_current_source_id \/ e.m_current_source_id \in c.m_sources

(* What is new on the network.                                             *)
IsNew(m, e, c) ==
  /\ m.stamp \in Nat
  /\ clock.data < m.stamp /\ m.stamp <= clock.data + Len(c.sent)
  /\ \/ IsSource(m) /\ ~IsRepair(m) /\ m.packet.id = e.m_current_source_id /\ m.stamp = clock.data + 1
     \/ IsRepair(m) /\ ~IsSource(m) /\ m.packet.source_ids = c.m_sources

LEMMA NewMessages ==
  ASSUME Reorder = FALSE, StampsInOrder, NEW e, NEW c, SentByCall(e, c), EncoderSends(c)
  PROVE  /\ \A m \in data' : m \in data \/ IsNew(m, e, c)
         /\ data \subseteq data'
         /\ clock' \in [data : Nat, acks : Nat]
         /\ clock'.data = clock.data + Len(c.sent)
         /\ Len(c.sent) \in Nat
<1>1. clock.data \in Nat /\ clock \in [data : Nat, acks : Nat]
  BY DEF StampsInOrder
<1>2. Len(c.sent) \in Nat /\ DOMAIN c.sent = 1 .. Len(c.sent)
  BY DEF SentByCall
<1>3. ASSUME NEW m \in data', m \notin data
      PROVE  IsNew(m, e, c)
  <2>1. PICK i \in DOMAIN c.sent : m = [stamp |-> clock.data + i, packet |-> c.sent[i]]
    BY <1>3 DEF EncoderSends, Stamped, Stamp
  <2>2. i \in Nat /\ 1 <= i /\ i <= Len(c.sent)
    BY <1>2
  <2>3. m.stamp = clock.data + i /\ m.packet = c.sent[i]
    BY <2>1
  <2>4. \/ i = 1 /\ c.sent[i] = SourcePacket(e.m_current_source_id)
        \/ \E r \in Nat : c.sent[i] = RepairPacket(r, c.m_sources)
    BY DEF SentByCall
  <2>5. \/ IsSource(m) /\ ~IsRepair(m) /\ m.packet.id = e.m_current_source_id /\ i = 1
        \/ IsRepair(m) /\ ~IsSource(m) /\ m.packet.source_ids = c.m_sources
    <3>1. CASE i = 1 /\ c.sent[i] = SourcePacket(e.m_current_source_id)
      <4>1. m.packet.kind = "source" /\ m.packet.id = e.m_current_source_id
        BY <2>3, <3>1 DEF SourcePacket
      <4>2. QED
        BY <3>1, <4>1 DEF IsSource, IsRepair
    <3>2. CASE \E r \in Nat : c.sent[i] = RepairPacket(r, c.m_sources)
      <4>1. m.packet.kind = "repair" /\ m.packet.source_ids = c.m_sources
        BY <2>3, <3>2 DEF RepairPacket
      <4>2. QED
        BY <4>1 DEF IsSource, IsRepair
    <3>3. QED
      BY <2>4, <3>1, <3>2
  <2>6. QED
    BY <1>1, <1>2, <2>2, <2>3, <2>5 DEF IsNew
<1>4. clock' = [clock EXCEPT !.data = clock.data + Len(c.sent)]
  BY DEF EncoderSends, Stamp
<1>5. QED
  BY <1>1, <1>2, <1>3, <1>4 DEF EncoderSends

(* A call of the encoder keeps the flow.                                   *)
LEMMA SendsFlow ==
  ASSUME Reorder = FALSE, OrderedInv, NEW c,
         SendsFrom(enc, c), SentByCall(enc, c), Advanced(enc, c), EncoderSends(c),
         NetInv', enc'.m_sources = c.m_sources,
         enc'.m_current_source_id = c.m_current_source_id,
         evicted \subseteq evicted', enc.m_sources \ c.m_sources \subseteq evicted'
  PROVE  Flow'
<1> DEFINE W   == enc.m_sources
           cur == enc.m_current_source_id
           X   == DOMAIN dec.m_missing_sources
<1>1. /\ NetInv /\ StampsInOrder /\ SourcesComeFirst /\ RepairsFollow /\ WindowFollows
      /\ OnlyCommitted /\ AckedIsSettled /\ ForgottenIsSettled /\ GivenIsSettled /\ GivenInOrder
  BY DEF OrderedInv, Flow
<1>2. dec' = dec /\ acks' = acks /\ delivered' = delivered
  BY DEF EncoderSends
<1>3. /\ cur \in Nat /\ 0 .. (cur - 1) \subseteq SourceId /\ SourceId \subseteq Nat
      /\ dec.m_last_id \in Nat /\ dec.m_first_missing \in Nat
      /\ dec.m_sources \in SUBSET SourceId /\ X \in SUBSET SourceId
      /\ W \subseteq 0 .. (cur - 1)
  BY <1>1, NetNumbers
<1>4. /\ c.m_sources \subseteq W \cup {cur}
      /\ c.m_current_source_id = cur \/ c.m_current_source_id = cur + 1
      /\ c.m_current_source_id = cur \/ cur \in c.m_sources
  BY DEF SendsFrom, Advanced
<1>5. /\ \A m \in data' : m \in data \/ IsNew(m, enc, c)
      /\ clock' \in [data : Nat, acks : Nat]
      /\ clock'.data = clock.data + Len(c.sent)
      /\ Len(c.sent) \in Nat
  BY <1>1, NewMessages
<1>6. clock.data \in Nat /\ \A m \in data : m.stamp \in Nat /\ m.stamp <= clock.data
  BY <1>1 DEF StampsInOrder
<1>7. \A m \in data' :
        m \in data \/ (m.stamp \in Nat /\ clock.data < m.stamp /\ m.stamp <= clock.data + Len(c.sent))
  BY <1>5 DEF IsNew
<1>8. ASSUME NEW m \in data', m \notin data
      PROVE  \/ IsSource(m) /\ ~IsRepair(m) /\ m.packet.id = cur /\ m.stamp = clock.data + 1
             \/ IsRepair(m) /\ ~IsSource(m) /\ m.packet.source_ids = c.m_sources
  <2>1. IsNew(m, enc, c)
    BY <1>5, <1>8
  <2>2. QED
    BY <2>1 DEF IsNew
<1>9. StampsInOrder'
  BY <1>5, <1>6, <1>7 DEF StampsInOrder
<1>10. Follows(dec, X, c.m_sources)
  <2>1. X \in SUBSET Nat /\ \A i \in X : i < cur
    BY <1>1, <1>3 DEF OnlyCommitted
  <2>2. Follows(dec, X, W)
    BY <1>1 DEF WindowFollows
  <2>3. QED
    BY <1>4, <2>1, <2>2, StillFollows DEF Advanced
<1>11. ASSUME NEW q \in data, IsRepair(q)
       PROVE  /\ q.packet.source_ids \in SUBSET Nat
              /\ \A i \in q.packet.source_ids : i < cur
              /\ Follows(dec, q.packet.source_ids, c.m_sources)
  <2>1. /\ q.packet.source_ids \in SUBSET Nat
        /\ \A i \in q.packet.source_ids : i < cur
    BY <1>1, <1>3, <1>11, MessageIs
  <2>2. Follows(dec, q.packet.source_ids, W)
    BY <1>1, <1>11 DEF RepairsFollow
  <2>3. QED
    BY <1>4, <2>1, <2>2, StillFollows DEF Advanced
<1> HIDE DEF W, cur, X
<1>12. SourcesComeFirst'
  <2>1. SUFFICES ASSUME NEW m \in data', IsSource(m)
                 PROVE  /\ m.packet.id \notin X
                        /\ \A q \in data' : IsRepair(q) /\ q.stamp < m.stamp =>
                             m.packet.id \notin q.packet.source_ids
    BY <1>2 DEF SourcesComeFirst, IsSource, IsRepair, X
  <2>2. CASE m \in data
    <3>1. m.packet.id \notin X
      BY <1>1, <2>1, <2>2 DEF SourcesComeFirst, X
    <3>2. ASSUME NEW q \in data', IsRepair(q), q.stamp < m.stamp
          PROVE  m.packet.id \notin q.packet.source_ids
      <4>1. q \in data
        BY <1>6, <1>7, <2>2, <3>2
      <4>2. QED
        BY <1>1, <2>1, <2>2, <3>2, <4>1 DEF SourcesComeFirst
    <3>3. QED
      BY <3>1, <3>2
  <2>3. CASE m \notin data
    <3>1. ~IsRepair(m) /\ m.packet.id = cur /\ m.stamp = clock.data + 1
      BY <1>8, <2>1, <2>3
    <3>2. cur \notin X
      BY <1>1, <1>3 DEF OnlyCommitted, X, cur
    <3>3. ASSUME NEW q \in data', IsRepair(q), q.stamp < m.stamp
          PROVE  cur \notin q.packet.source_ids
      <4>1. q \in data
        BY <1>6, <1>7, <3>1, <3>3
      <4>2. \A i \in q.packet.source_ids : i < cur
        BY <1>11, <3>3, <4>1
      <4>3. QED
        BY <1>3, <4>2
    <3>4. QED
      BY <3>1, <3>2, <3>3
  <2>4. QED
    BY <2>2, <2>3
<1>13. ASSUME NEW q \in data', IsRepair(q)
       PROVE  /\ Follows(dec, X, q.packet.source_ids)
              /\ Follows(dec, q.packet.source_ids, c.m_sources)
              /\ \A i \in q.packet.source_ids : dec.m_last_id <= i
              /\ \A p \in data' : IsRepair(p) /\ p.stamp < q.stamp =>
                   /\ Follows(dec, p.packet.source_ids, q.packet.source_ids)
                   /\ \A i \in q.packet.source_ids : Min(p.packet.source_ids) <= i
  <2>1. CASE q \in data
    <3>1. /\ Follows(dec, X, q.packet.source_ids)
          /\ \A i \in q.packet.source_ids : dec.m_last_id <= i
          /\ FollowsRepair(q)
      BY <1>1, <1>13, <2>1 DEF RepairsFollow, X
    <3>2. \A p \in data' : p.stamp < q.stamp => p \in data
      BY <1>6, <1>7, <2>1
    <3>3. QED
      BY <1>11, <1>13, <2>1, <3>1, <3>2 DEF FollowsRepair
  <2>2. CASE q \notin data
    <3>1. q.packet.source_ids = c.m_sources
      BY <1>8, <1>13, <2>2
    <3>2. Follows(dec, c.m_sources, c.m_sources)
      BY DEF Follows
    <3>3. \A i \in c.m_sources : dec.m_last_id <= i
      BY <1>2 DEF NetInv, LastIdBehind, WindowAhead
    <3>4. ASSUME NEW p \in data', IsRepair(p)
          PROVE  /\ Follows(dec, p.packet.source_ids, c.m_sources)
                 /\ \A i \in c.m_sources : Min(p.packet.source_ids) <= i
      <4>1. Follows(dec, p.packet.source_ids, c.m_sources)
        <5>1. CASE p \in data
          BY <1>11, <3>4, <5>1
        <5>2. CASE p \notin data
          <6>1. p.packet.source_ids = c.m_sources
            BY <1>8, <3>4, <5>2
          <6>2. QED
            BY <3>2, <6>1
        <5>3. QED
          BY <5>1, <5>2
      <4>2. \A i \in c.m_sources : Min(p.packet.source_ids) <= i
        <5>1. CarriesSource(enc', p.packet) \/ CarriesRepair(enc', p.packet)
          <6>1. DataInRange'
            BY DEF NetInv, InRange
          <6>2. QED
            BY <3>4, <6>1 DEF DataInRange
        <5>2. ~CarriesSource(enc', p.packet)
          <6>1. p.packet.kind = "repair"
            BY <3>4 DEF IsRepair
          <6>2. \A s \in SourceId : p.packet # SourcePacket(s)
            BY <6>1 DEF SourcePacket
          <6>3. QED
            BY <6>2 DEF CarriesSource
        <5>3. PICK r \in RepairId, ids \in (SUBSET SourceId) \ {{}} :
                p.packet = RepairPacket(r, ids) /\ \A w \in enc'.m_sources : Min(ids) <= w
          BY <5>1, <5>2 DEF CarriesRepair
        <5>4. p.packet.source_ids = ids
          BY <5>3 DEF RepairPacket
        <5>5. QED
          BY <5>3, <5>4
      <4>3. QED
        BY <4>1, <4>2
    <3>5. QED
      BY <1>10, <3>1, <3>2, <3>3, <3>4
  <2>3. QED
    BY <2>1, <2>2
<1>14. RepairsFollow'
  <2>1. SUFFICES ASSUME NEW q \in data', IsRepair(q)
                 PROVE  /\ Follows(dec, X, q.packet.source_ids)
                        /\ Follows(dec, q.packet.source_ids, c.m_sources)
                        /\ \A i \in q.packet.source_ids : dec.m_last_id <= i
                        /\ \A p \in data' : IsRepair(p) /\ p.stamp < q.stamp =>
                             /\ Follows(dec, p.packet.source_ids, q.packet.source_ids)
                             /\ \A i \in q.packet.source_ids : Min(p.packet.source_ids) <= i
    BY <1>2 DEF RepairsFollow, FollowsRepair, IsRepair, X, Follows, Settled
  <2>2. QED
    BY <1>13, <2>1
<1>15. WindowFollows'
  BY <1>2, <1>10 DEF WindowFollows, Follows, Settled, X
<1>16. OnlyCommitted'
  <2>1. \A i \in dec.m_sources \cup X : i < cur /\ i \in Nat
    BY <1>1, <1>3 DEF OnlyCommitted, X, cur
  <2>2. \A i \in dec.m_sources \cup X : i < c.m_current_source_id
    BY <1>3, <1>4, <2>1 DEF cur
  <2>3. QED
    BY <1>2, <2>2 DEF OnlyCommitted, X
<1>17. AckedIsSettled'
  BY <1>1, <1>2 DEF AckedIsSettled, Settled
<1>18. ForgottenIsSettled'
  <2>1. SUFFICES ASSUME NEW s \in 0 .. (c.m_current_source_id - 1)
                 PROVE  s \in c.m_sources \cup evicted' \/ Settled(dec, s)
    BY <1>2 DEF ForgottenIsSettled, Settled
  <2>2. CASE s \in 0 .. (cur - 1)
    <3>1. s \in W \cup evicted \/ Settled(dec, s)
      BY <1>1, <2>2 DEF ForgottenIsSettled, W, cur
    <3>2. QED
      BY <3>1 DEF W
  <2>3. CASE s \notin 0 .. (cur - 1)
    <3>1. c.m_current_source_id = cur + 1 /\ s = cur
      BY <1>3, <1>4, <2>1, <2>3 DEF cur
    <3>2. c.m_current_source_id # cur
      BY <1>3, <3>1 DEF cur
    <3>3. QED
      BY <1>4, <3>1, <3>2 DEF cur
  <2>4. QED
    BY <2>2, <2>3
<1>19. GivenIsSettled'
  <2>1. SUFFICES ASSUME NEW s \in SourceId, delivered[s] > 0
                 PROVE  delivered[s] = 1 /\ Settled(dec, s) /\ s < c.m_current_source_id
    BY <1>2 DEF GivenIsSettled, Settled
  <2>2. delivered[s] = 1 /\ Settled(dec, s) /\ s < cur /\ s \in Nat
    BY <1>1, <1>3, <2>1 DEF GivenIsSettled, cur
  <2>3. QED
    BY <1>3, <1>4, <2>2 DEF cur
<1>20. GivenInOrder'
  BY <1>1, <1>2 DEF GivenInOrder
<1>21. QED
  BY <1>9, <1>12, <1>14, <1>15, <1>16, <1>17, <1>18, <1>19, <1>20 DEF Flow

LEMMA AckFlow ==
  ASSUME OrderedInv, NEW m \in acks, ReceiveAck(m)
  PROVE  Flow'
<1> DEFINE ids == m.packet.source_ids
           X   == DOMAIN dec.m_missing_sources
<1>1. /\ NetInv /\ StampsInOrder /\ SourcesComeFirst /\ RepairsFollow /\ WindowFollows
      /\ OnlyCommitted /\ AckedIsSettled /\ ForgottenIsSettled /\ GivenIsSettled /\ GivenInOrder
  BY DEF OrderedInv, Flow
<1>2. /\ dec' = dec /\ data' = data /\ clock' = clock
      /\ delivered' = delivered /\ evicted' = evicted /\ acks' \subseteq acks
  BY DEF ReceiveAck, Consume
<1>3. /\ enc'.m_sources = enc.m_sources \ ids
      /\ enc'.m_current_source_id = enc.m_current_source_id
  BY <1>1, ReceiveAckKeeps DEF NetInv
<1>4. \A i \in ids : Settled(dec, i)
  BY <1>1 DEF AckedIsSettled
<1>5. ASSUME NEW Y, Follows(dec, Y, enc.m_sources)
      PROVE  Follows(dec, Y, enc.m_sources \ ids)
  BY <1>4, <1>5, AckedFollows
<1> HIDE DEF ids, X
<1>6. StampsInOrder' /\ SourcesComeFirst' /\ GivenInOrder'
  BY <1>1, <1>2 DEF StampsInOrder, SourcesComeFirst, GivenInOrder, IsSource, IsRepair
<1>7. RepairsFollow'
  <2>1. SUFFICES ASSUME NEW q \in data, IsRepair(q)
                 PROVE  /\ Follows(dec, X, q.packet.source_ids)
                        /\ Follows(dec, q.packet.source_ids, enc.m_sources \ ids)
                        /\ \A i \in q.packet.source_ids : dec.m_last_id <= i
                        /\ FollowsRepair(q)
    BY <1>2, <1>3 DEF RepairsFollow, FollowsRepair, IsRepair, X, Follows, Settled
  <2>2. /\ Follows(dec, X, q.packet.source_ids)
        /\ Follows(dec, q.packet.source_ids, enc.m_sources)
        /\ \A i \in q.packet.source_ids : dec.m_last_id <= i
        /\ FollowsRepair(q)
    BY <1>1, <2>1 DEF RepairsFollow, X
  <2>3. QED
    BY <1>5, <2>2
<1>8. WindowFollows'
  <2>1. Follows(dec, X, enc.m_sources \ ids)
    BY <1>1, <1>5 DEF WindowFollows, X
  <2>2. QED
    BY <1>2, <1>3, <2>1 DEF WindowFollows, Follows, Settled, X
<1>9. OnlyCommitted' /\ AckedIsSettled' /\ GivenIsSettled'
  BY <1>1, <1>2, <1>3 DEF OnlyCommitted, AckedIsSettled, GivenIsSettled, Settled
<1>10. ForgottenIsSettled'
  <2>1. SUFFICES ASSUME NEW s \in 0 .. (enc.m_current_source_id - 1)
                 PROVE  s \in (enc.m_sources \ ids) \cup evicted \/ Settled(dec, s)
    BY <1>2, <1>3 DEF ForgottenIsSettled, Settled
  <2>2. s \in enc.m_sources \cup evicted \/ Settled(dec, s)
    BY <1>1 DEF ForgottenIsSettled
  <2>3. QED
    BY <1>4, <2>2
<1>11. QED
  BY <1>6, <1>7, <1>8, <1>9, <1>10 DEF Flow

-----------------------------------------------------------------------------
(***************************************************************************)
(* The decoder's side.                                                     *)
(***************************************************************************)

(* What a message makes the decoder lack, and know, at most.               *)
Encoded(m) == IF IsRepair(m) THEN m.packet.source_ids ELSE {}
Named(m)   == IF IsRepair(m) THEN m.packet.source_ids ELSE {m.packet.id}
MayLack(m) == DOMAIN dec.m_missing_sources \cup Encoded(m)
MayKnow(m) == dec.m_sources \cup DOMAIN dec.m_missing_sources \cup Named(m)

(* What the call that receives m has done.                                 *)
Handled(m, e) ==
  /\ Sound(e)
  /\ Tidy(e)
  /\ Advances(dec, MayLack(m), MayKnow(m), e)
  /\ MovedTo(dec, m.packet, e)
  /\ Answers(dec.m_sources, e)
  /\ e.m_in_order = dec.m_in_order
  /\ e.m_last_id <= enc.m_current_source_id
  /\ \A w \in enc.m_sources : e.m_last_id <= w

LEMMA MessageHandled ==
  ASSUME OrderedInv, dec.fault = "none",
         NEW m \in data, NEW luck \in BOOLEAN, NEW e \in Receive(dec, m.packet, luck)
  PROVE  Handled(m, e)
<1>1. NetInv /\ InRange /\ LastIdBehind /\ OthersRemembered
      /\ Tidy(dec) /\ SourcesComeFirst /\ RepairsFollow
  BY DEF OrderedInv, Flow, NetInv
<1>2. /\ ReceivedTo(dec, m.packet, e)
      /\ Sound(e)
      /\ e.m_in_order = dec.m_in_order
      /\ e.m_last_id <= enc.m_current_source_id
      /\ \A w \in enc.m_sources : e.m_last_id <= w
  BY <1>1, DataIsHandled
<1>3. MovedTo(dec, m.packet, e)
  BY <1>2, ReceivedMoves
<1>4. /\ dec \in Decoders /\ AtRest(dec) /\ dec.out = {}
      /\ ~dec.m_in_order => dec.m_ordered_sources = {}
  BY <1>1 DEF InRange, DecoderReady, Sound, AtRest, OthersRemembered
<1>5. Answers(dec.m_sources, e)
  BY <1>2, <1>4, ReceivedAnswers
<1>6. ASSUME NEW s \in SourceId, m.packet = SourcePacket(s)
      PROVE  s \notin DOMAIN dec.m_missing_sources /\ s \in MayKnow(m)
  <2>1. m.packet.kind = "source" /\ m.packet.id = s
    BY <1>6 DEF SourcePacket
  <2>2. IsSource(m) /\ ~IsRepair(m)
    BY <2>1 DEF IsSource, IsRepair
  <2>3. QED
    BY <1>1, <2>1, <2>2 DEF SourcesComeFirst, MayKnow, Named
<1>7. ASSUME NEW r \in RepairId, NEW ids \in (SUBSET SourceId) \ {{}}, m.packet = RepairPacket(r, ids)
      PROVE  /\ \A i \in ids : dec.m_last_id <= i
             /\ Follows(dec, DOMAIN dec.m_missing_sources, ids)
             /\ ids \subseteq MayLack(m) /\ ids \subseteq MayKnow(m)
  <2>1. m.packet.kind = "repair" /\ m.packet.source_ids = ids
    BY <1>7 DEF RepairPacket
  <2>2. IsRepair(m)
    BY <2>1 DEF IsRepair
  <2>3. QED
    BY <1>1, <2>1, <2>2 DEF RepairsFollow, MayLack, MayKnow, Encoded, Named
<1>8. DOMAIN dec.m_missing_sources \subseteq MayLack(m) /\ dec.m_sources \subseteq MayKnow(m)
  BY DEF MayLack, MayKnow
<1>9. Tidy(e) /\ Advances(dec, MayLack(m), MayKnow(m), e)
  BY <1>1, <1>2, <1>4, <1>6, <1>7, <1>8, ReceivedTidy
<1>10. QED
  BY <1>2, <1>3, <1>5, <1>9 DEF Handled

(* What a message names has been committed.                                *)
LEMMA NamedIsCommitted ==
  ASSUME OrderedInv, NEW m \in data
  PROVE  /\ MayLack(m) \subseteq SourceId /\ MayKnow(m) \subseteq SourceId
         /\ \A i \in MayLack(m) \cup MayKnow(m) : i < enc.m_current_source_id
<1>1. NetInv /\ OnlyCommitted
  BY DEF OrderedInv, Flow
<1>2. /\ Encoded(m) \subseteq SourceId /\ Named(m) \subseteq SourceId
      /\ \A i \in Encoded(m) \cup Named(m) : i < enc.m_current_source_id
  BY <1>1, MessageIs DEF Encoded, Named
<1>3. QED
  BY <1>1, <1>2, NetNumbers DEF OnlyCommitted, MayLack, MayKnow

(* What the call hands over is committed, was never handed over, and in    *)
(* order comes next.                                                       *)
ComesAfterAll(out) ==
  \A s \in out : \A t \in SourceId :
    /\ t < s /\ t \notin out => delivered[t] = 1 \/ t \in evicted
    /\ t > s => delivered[t] = 0

(* What the call passes over has been evicted.                             *)
PassedOver(e) ==
  \A t \in SourceId :
    dec.m_first_missing <= t /\ t < e.m_first_missing => t \in e.out \/ t \in evicted

LEMMA PassedIsEvicted ==
  ASSUME OrderedInv, NEW m \in data, NEW e, Handled(m, e), dec.m_in_order
  PROVE  PassedOver(e)
<1>1. NetInv /\ ForgottenIsSettled /\ GivesInOrder(dec, e)
  BY DEF OrderedInv, Flow, Handled, Advances, GivesNew
<1>2. SUFFICES ASSUME NEW t \in SourceId,
                      dec.m_first_missing <= t /\ t < e.m_first_missing, t \notin e.out
               PROVE  t \in evicted
  BY DEF PassedOver
<1>3. t < e.m_last_id /\ ~Settled(dec, t)
  BY <1>1, <1>2 DEF GivesInOrder
<1>4. e.m_last_id <= enc.m_current_source_id /\ \A w \in enc.m_sources : e.m_last_id <= w
  BY DEF Handled
<1>5. /\ t \in Nat /\ e.m_last_id \in Nat /\ enc.m_current_source_id \in Nat
      /\ enc.m_sources \subseteq Nat
  <2>1. Orderly(e)
    BY DEF Handled, Tidy
  <2>2. QED
    BY <1>1, <2>1, NetNumbers, OrderlyFacts
<1>6. t \in 0 .. (enc.m_current_source_id - 1) /\ t \notin enc.m_sources
  BY <1>3, <1>4, <1>5
<1>7. QED
  BY <1>1, <1>3, <1>6 DEF ForgottenIsSettled

LEMMA GivesWhatComesNext ==
  ASSUME OrderedInv, NEW m \in data, NEW e, Handled(m, e)
  PROVE  /\ e.out \subseteq SourceId
         /\ \A s \in e.out : s < enc.m_current_source_id /\ delivered[s] = 0 /\ Settled(e, s)
         /\ dec.m_in_order => ComesAfterAll(e.out)
<1>1. NetInv /\ GivenIsSettled /\ GivenInOrder /\ GivesNew(dec, e) /\ e.out \subseteq MayKnow(m)
  BY DEF OrderedInv, Flow, Handled, Advances
<1>2. e.out \subseteq SourceId /\ \A s \in e.out : s < enc.m_current_source_id
  BY <1>1, NamedIsCommitted
<1>3. \A s \in SourceId : s \in Nat /\ delivered[s] \in 0 .. 2
  BY <1>1, NetNumbers
<1>4. dec.m_first_missing \in Nat /\ e.m_first_missing \in Nat
  BY <1>1, NetNumbers, OrderlyFacts DEF Handled, Tidy
<1>5. CASE ~dec.m_in_order
  <2>1. \A s \in e.out : ~Settled(dec, s) /\ Settled(e, s)
    BY <1>1, <1>5 DEF GivesNew
  <2>2. \A s \in e.out : ~(delivered[s] > 0)
    BY <1>1, <1>2, <2>1 DEF GivenIsSettled
  <2>3. \A s \in e.out : delivered[s] = 0
    BY <1>2, <1>3, <2>2
  <2>4. QED
    BY <1>2, <1>5, <2>1, <2>3
<1>6. CASE dec.m_in_order
  <2>1. \A n \in e.out : dec.m_first_missing <= n /\ n < e.m_first_missing
    BY <1>1, <1>6 DEF GivesNew, GivesInOrder
  <2>2. \A s \in SourceId : IF s < dec.m_first_missing THEN delivered[s] = 1 \/ s \in evicted
                                                      ELSE delivered[s] = 0
    BY <1>1, <1>6 DEF GivenInOrder
  <2>3. \A s \in e.out : delivered[s] = 0
    BY <1>2, <1>3, <1>4, <2>1, <2>2
  <2>4. \A s \in e.out : Settled(e, s)
    <3>1. HasPlaceInOrder(e)
      BY <1>6 DEF Handled, Tidy, Orderly, HasPlace
    <3>2. QED
      BY <1>2, <2>1, <3>1 DEF HasPlaceInOrder
  <2>5. ComesAfterAll(e.out)
    <3>1. SUFFICES ASSUME NEW s \in e.out, NEW t \in SourceId
                   PROVE  /\ t < s /\ t \notin e.out => delivered[t] = 1 \/ t \in evicted
                          /\ t > s => delivered[t] = 0
      BY DEF ComesAfterAll
    <3>2. s \in Nat /\ t \in Nat /\ dec.m_first_missing <= s /\ s < e.m_first_missing
      BY <1>2, <1>3, <2>1
    <3>3. ASSUME t < s, t \notin e.out
          PROVE  delivered[t] = 1 \/ t \in evicted
      <4>1. CASE t < dec.m_first_missing
        BY <2>2, <4>1
      <4>2. CASE ~(t < dec.m_first_missing)
        <5>1. dec.m_first_missing <= t /\ t < e.m_first_missing
          BY <1>4, <3>2, <3>3, <4>2
        <5>2. PassedOver(e)
          BY <1>6, PassedIsEvicted
        <5>3. QED
          BY <3>3, <5>1, <5>2 DEF PassedOver
      <4>3. QED
        BY <4>1, <4>2
    <3>4. ASSUME t > s
          PROVE  delivered[t] = 0
      <4>1. ~(t < dec.m_first_missing)
        BY <1>4, <3>2, <3>4
      <4>2. QED
        BY <2>2, <4>1
    <3>5. QED
      BY <3>3, <3>4
  <2>6. QED
    BY <1>2, <2>3, <2>4, <2>5
<1>7. QED
  BY <1>5, <1>6

LEMMA ReceiveFlow ==
  ASSUME Reorder = FALSE, OrderedInv, NEW m \in data, NEW e, Handled(m, e),
         data' = Consume(data, m), DecoderReturns(e), RestedTo(e, dec')
  PROVE  Flow'
<1> DEFINE X == DOMAIN dec.m_missing_sources
           W == enc.m_sources
<1>1. /\ NetInv /\ StampsInOrder /\ SourcesComeFirst /\ RepairsFollow /\ WindowFollows
      /\ OnlyCommitted /\ AckedIsSettled /\ ForgottenIsSettled /\ GivenIsSettled /\ GivenInOrder
  BY DEF OrderedInv, Flow
<1>2. enc' = enc /\ evicted' = evicted
  BY DEF DecoderReturns
<1>3. data' = {n \in data : n.stamp > m.stamp}
  BY DEF Consume
<1>4. \A n \in data' : n \in data /\ m.stamp < n.stamp
  BY <1>1, <1>3 DEF StampsInOrder
<1>5. /\ dec'.m_in_order = e.m_in_order /\ dec'.m_last_id = e.m_last_id
      /\ dec'.m_sources = e.m_sources
      /\ DOMAIN dec'.m_missing_sources = DOMAIN e.m_missing_sources
      /\ dec'.m_first_missing = e.m_first_missing
  BY DEF RestedTo, SameMembers
<1>6. /\ e.m_in_order = dec.m_in_order
      /\ dec.m_last_id <= e.m_last_id
      /\ \A i \in SourceId : Settled(dec, i) => Settled(e, i)
      /\ DOMAIN e.m_missing_sources \subseteq MayLack(m)
      /\ e.m_sources \subseteq MayKnow(m)
  BY DEF Handled, Advances
<1>7. /\ MayLack(m) \subseteq SourceId /\ MayKnow(m) \subseteq SourceId
      /\ \A i \in MayLack(m) \cup MayKnow(m) : i < enc.m_current_source_id
  BY NamedIsCommitted
<1>8. \A i \in SourceId : Settled(dec, i) => Settled(dec', i)
  BY <1>5, <1>6 DEF Settled
<1>9. \A i \in SourceId : Settled(e, i) => Settled(dec', i)
  BY <1>5 DEF Settled
<1>10. DOMAIN dec'.m_missing_sources \subseteq MayLack(m) /\ MayLack(m) \in SUBSET SourceId
  BY <1>5, <1>6, <1>7
<1>11. ASSUME NEW Y, Follows(dec, MayLack(m), Y)
       PROVE  Follows(dec', DOMAIN dec'.m_missing_sources, Y)
  <2>1. Follows(dec', MayLack(m), Y)
    BY <1>8, <1>10, <1>11, FollowsMore
  <2>2. QED
    BY <1>10, <2>1 DEF Follows
<1> HIDE DEF X, W
<1>12. StampsInOrder'
  <2>1. clock \in [data : Nat, acks : Nat] /\ \A n \in data : n.stamp \in Nat /\ n.stamp <= clock.data
    BY <1>1 DEF StampsInOrder
  <2>2. Cardinality(e.ack) \in Nat
    <3>1. CASE e.ack = {}
      <4>1. Cardinality({}) = 0
        BY FS_EmptySet
      <4>2. QED
        BY <3>1, <4>1
    <3>2. ASSUME NEW a, e.ack = {a}
          PROVE  Cardinality(e.ack) \in Nat
      <4>1. Cardinality({a}) = 1
        BY FS_Singleton
      <4>2. QED
        BY <3>2, <4>1
    <3>3. Answers(dec.m_sources, e)
      BY DEF Handled
    <3>4. e.ack = {} \/ \E a : e.ack = {a}
      BY <3>3 DEF Answers
    <3>5. QED
      BY <3>1, <3>2, <3>4
  <2>3. clock' = [clock EXCEPT !.acks = clock.acks + Cardinality(e.ack)]
    BY DEF DecoderReturns, Stamp
  <2>4. clock' \in [data : Nat, acks : Nat] /\ clock'.data = clock.data
    <3> HIDE DEF Handled
    <3>1. clock.acks + Cardinality(e.ack) \in Nat
      BY <2>1, <2>2
    <3>2. QED
      BY <2>1, <2>3, <3>1
  <2>5. QED
    BY <1>4, <2>1, <2>4 DEF StampsInOrder
<1>13. SourcesComeFirst'
  <2>1. SUFFICES ASSUME NEW n \in data', IsSource(n)
                 PROVE  /\ n.packet.id \notin DOMAIN dec'.m_missing_sources
                        /\ \A q \in data' : IsRepair(q) /\ q.stamp < n.stamp =>
                             n.packet.id \notin q.packet.source_ids
    BY DEF SourcesComeFirst, IsSource, IsRepair
  <2>2. /\ n.packet.id \notin X
        /\ \A q \in data : IsRepair(q) /\ q.stamp < n.stamp => n.packet.id \notin q.packet.source_ids
    BY <1>1, <1>4, <2>1 DEF SourcesComeFirst, X
  <2>3. n.packet.id \notin Encoded(m)
    BY <1>4, <2>2 DEF Encoded
  <2>4. QED
    BY <1>4, <1>10, <2>2, <2>3 DEF MayLack, X
<1>14. ASSUME NEW q \in data', IsRepair(q)
       PROVE  /\ Follows(dec, MayLack(m), q.packet.source_ids)
              /\ Follows(dec, q.packet.source_ids, W)
              /\ \A i \in q.packet.source_ids : e.m_last_id <= i
              /\ FollowsRepair(q)
              /\ q.packet.source_ids \in SUBSET SourceId
  <2>1. /\ Follows(dec, X, q.packet.source_ids)
        /\ Follows(dec, q.packet.source_ids, W)
        /\ \A i \in q.packet.source_ids : dec.m_last_id <= i
        /\ FollowsRepair(q)
    BY <1>1, <1>4, <1>14 DEF RepairsFollow, X, W
  <2>2. q.packet.source_ids \in SUBSET SourceId
    BY <1>1, <1>4, <1>14, MessageIs
  <2>3. IsRepair(m) => /\ Follows(dec, m.packet.source_ids, q.packet.source_ids)
                       /\ \A i \in q.packet.source_ids : Min(m.packet.source_ids) <= i
    BY <1>4, <2>1 DEF FollowsRepair
  <2>4. Follows(dec, Encoded(m), q.packet.source_ids)
    BY <2>3 DEF Encoded, Follows
  <2>5. Follows(dec, MayLack(m), q.packet.source_ids)
    BY <2>1, <2>4 DEF MayLack, Follows, X
  <2>6. \A i \in q.packet.source_ids : e.m_last_id <= i
    <3>1. CASE e.m_last_id = dec.m_last_id
      BY <2>1, <3>1
    <3>2. ASSUME NEW r \in RepairId, NEW ids \in (SUBSET SourceId) \ {{}},
                 m.packet = RepairPacket(r, ids), e.m_last_id = Min(ids)
          PROVE  \A i \in q.packet.source_ids : e.m_last_id <= i
      <4>1. m.packet.kind = "repair" /\ m.packet.source_ids = ids
        BY <3>2 DEF RepairPacket
      <4>2. QED
        BY <2>3, <3>2, <4>1 DEF IsRepair
    <3>3. MovedTo(dec, m.packet, e)
      BY DEF Handled
    <3>4. QED
      BY <3>1, <3>2, <3>3 DEF MovedTo
  <2>7. QED
    BY <2>1, <2>2, <2>5, <2>6
<1>15. ASSUME NEW q \in data', IsRepair(q)
       PROVE  /\ Follows(dec', DOMAIN dec'.m_missing_sources, q.packet.source_ids)
              /\ Follows(dec', q.packet.source_ids, W)
              /\ \A i \in q.packet.source_ids : dec'.m_last_id <= i
              /\ \A p \in data' : IsRepair(p) /\ p.stamp < q.stamp =>
                   /\ Follows(dec', p.packet.source_ids, q.packet.source_ids)
                   /\ \A i \in q.packet.source_ids : Min(p.packet.source_ids) <= i
  <2>1. Follows(dec', DOMAIN dec'.m_missing_sources, q.packet.source_ids)
    BY <1>11, <1>14, <1>15
  <2>2. Follows(dec', q.packet.source_ids, W)
    BY <1>8, <1>14, <1>15, FollowsMore
  <2>3. \A i \in q.packet.source_ids : dec'.m_last_id <= i
    BY <1>5, <1>14, <1>15
  <2>4. ASSUME NEW p \in data', IsRepair(p), p.stamp < q.stamp
        PROVE  /\ Follows(dec', p.packet.source_ids, q.packet.source_ids)
               /\ \A i \in q.packet.source_ids : Min(p.packet.source_ids) <= i
    <3>1. /\ Follows(dec, p.packet.source_ids, q.packet.source_ids)
          /\ \A i \in q.packet.source_ids : Min(p.packet.source_ids) <= i
      BY <1>4, <1>14, <1>15, <2>4 DEF FollowsRepair
    <3>2. p.packet.source_ids \in SUBSET SourceId
      BY <1>14, <2>4
    <3>3. QED
      BY <1>8, <3>1, <3>2, FollowsMore
  <2>5. QED
    BY <2>1, <2>2, <2>3, <2>4
<1>16. RepairsFollow'
  BY <1>2, <1>15 DEF RepairsFollow, FollowsRepair, IsRepair, Follows, Settled, W
<1>17. WindowFollows'
  <2>1. Follows(dec, X, W)
    BY <1>1 DEF WindowFollows, X, W
  <2>2. Follows(dec, Encoded(m), W)
    BY <1>1 DEF RepairsFollow, Encoded, Follows, W
  <2>3. Follows(dec, MayLack(m), W)
    BY <2>1, <2>2 DEF MayLack, Follows, X
  <2>4. Follows(dec', DOMAIN dec'.m_missing_sources, W)
    BY <1>11, <2>3
  <2>5. QED
    BY <1>2, <2>4 DEF WindowFollows, Follows, Settled, W
<1>18. OnlyCommitted'
  BY <1>2, <1>5, <1>6, <1>7 DEF OnlyCommitted
<1>19. AckedIsSettled'
  <2>1. SUFFICES ASSUME NEW n \in acks', NEW i \in n.packet.source_ids
                 PROVE  Settled(dec', i)
    BY DEF AckedIsSettled, Settled
  <2>2. CASE n \in acks
    <3>1. i \in SourceId /\ Settled(dec, i)
      BY <1>1, <2>1, <2>2, NetNumbers DEF AckedIsSettled
    <3>2. QED
      BY <1>8, <3>1
  <2>3. CASE n \notin acks
    <3>1. PICK a \in e.ack : n.packet = a
      BY <2>1, <2>3 DEF DecoderReturns
    <3>2. PICK known \in SUBSET SourceId, nb \in Nat :
            e.ack = {AckPacket(known, nb)} /\ known \subseteq dec.m_sources \cup e.m_sources
      BY <3>1 DEF Handled, Answers
    <3>3. n.packet.source_ids = known
      BY <3>1, <3>2 DEF AckPacket
    <3>4. i \in SourceId /\ (i \in dec.m_sources \/ i \in e.m_sources)
      BY <2>1, <3>2, <3>3
    <3>5. Settled(dec, i) \/ Settled(e, i)
      BY <3>4 DEF Settled
    <3>6. QED
      BY <1>8, <1>9, <3>4, <3>5
  <2>4. QED
    BY <2>2, <2>3
<1>20. ForgottenIsSettled'
  <2>1. SUFFICES ASSUME NEW s \in 0 .. (enc.m_current_source_id - 1)
                 PROVE  s \in enc.m_sources \cup evicted \/ Settled(dec', s)
    BY <1>2 DEF ForgottenIsSettled, Settled
  <2>2. s \in SourceId
    BY <1>1, NetNumbers
  <2>3. QED
    BY <1>1, <1>8, <2>2 DEF ForgottenIsSettled
<1>21. /\ e.out \subseteq SourceId
       /\ \A s \in e.out : s < enc.m_current_source_id /\ delivered[s] = 0 /\ Settled(e, s)
  BY GivesWhatComesNext
<1>22. \A s \in SourceId : delivered'[s] = IF s \in e.out THEN 1 ELSE delivered[s]
  <2>1. \A s \in SourceId : delivered'[s] = IF s \in e.out /\ delivered[s] < 2
                                            THEN delivered[s] + 1 ELSE delivered[s]
    BY DEF DecoderReturns, Tally
  <2>2. QED
    BY <1>21, <2>1
<1>23. GivenIsSettled'
  <2>1. SUFFICES ASSUME NEW s \in SourceId, delivered'[s] > 0
                 PROVE  delivered'[s] = 1 /\ Settled(dec', s) /\ s < enc.m_current_source_id
    BY <1>2 DEF GivenIsSettled, Settled
  <2>2. CASE s \in e.out
    BY <1>9, <1>21, <1>22, <2>2
  <2>3. CASE s \notin e.out
    <3>1. delivered[s] > 0 /\ delivered'[s] = delivered[s]
      BY <1>22, <2>1, <2>3
    <3>2. delivered[s] = 1 /\ Settled(dec, s) /\ s < enc.m_current_source_id
      BY <1>1, <3>1 DEF GivenIsSettled
    <3>3. QED
      BY <1>8, <3>1, <3>2
  <2>4. QED
    BY <2>2, <2>3
<1>24. GivenInOrder'
  <2>1. SUFFICES ASSUME dec.m_in_order, NEW s \in SourceId
                 PROVE  IF s < e.m_first_missing THEN delivered'[s] = 1 \/ s \in evicted
                                                 ELSE delivered'[s] = 0
    BY <1>2, <1>5, <1>6 DEF GivenInOrder
  <2>2. GivesInOrder(dec, e)
    BY <2>1 DEF Handled, Advances, GivesNew
  <2>3. /\ dec.m_first_missing <= e.m_first_missing
        /\ \A n \in e.out : dec.m_first_missing <= n /\ n < e.m_first_missing
    BY <2>2 DEF GivesInOrder
  <2>4. s \in Nat /\ dec.m_first_missing \in Nat /\ e.m_first_missing \in Nat
    BY <1>1, NetNumbers, OrderlyFacts DEF Handled, Tidy
  <2>5. IF s < dec.m_first_missing THEN delivered[s] = 1 \/ s \in evicted ELSE delivered[s] = 0
    BY <1>1, <2>1 DEF GivenInOrder
  <2>6. CASE s \in e.out
    BY <1>22, <2>3, <2>6
  <2>7. CASE s \notin e.out /\ s < dec.m_first_missing
    BY <1>22, <2>3, <2>4, <2>5, <2>7
  <2>8. CASE s \notin e.out /\ ~(s < dec.m_first_missing)
    <3>1. CASE s < e.m_first_missing
      <4>1. PassedOver(e)
        BY <2>1, PassedIsEvicted
      <4>2. s \in evicted
        BY <2>4, <2>8, <3>1, <4>1 DEF PassedOver
      <4>3. QED
        BY <3>1, <4>2
    <3>2. CASE ~(s < e.m_first_missing)
      BY <1>22, <2>5, <2>8, <3>2
    <3>3. QED
      BY <3>1, <3>2
  <2>9. QED
    BY <2>6, <2>7, <2>8
<1>25. QED
  BY <1>12, <1>13, <1>16, <1>17, <1>18, <1>19, <1>20, <1>23, <1>24 DEF Flow

(* A call that receives nothing changes nothing of this.                   *)
LEMMA SameFlow ==
  ASSUME OrderedInv, SameMembers(dec, dec'), enc' = enc, data' = data, evicted' = evicted,
         delivered' = delivered, clock' \in [data : Nat, acks : Nat], clock'.data = clock.data,
         \A n \in acks' : n \in acks \/ n.packet.source_ids \subseteq dec.m_sources
  PROVE  Flow'
<1>1. /\ StampsInOrder /\ SourcesComeFirst /\ RepairsFollow /\ WindowFollows
      /\ OnlyCommitted /\ AckedIsSettled /\ ForgottenIsSettled /\ GivenIsSettled /\ GivenInOrder
  BY DEF OrderedInv, Flow
<1>2. /\ dec'.m_in_order = dec.m_in_order /\ dec'.m_last_id = dec.m_last_id
      /\ dec'.m_sources = dec.m_sources
      /\ dec'.m_missing_sources = dec.m_missing_sources
      /\ dec'.m_first_missing = dec.m_first_missing
  BY DEF SameMembers
<1>3. StampsInOrder' /\ SourcesComeFirst' /\ OnlyCommitted' /\ GivenInOrder'
  BY <1>1, <1>2
  DEF StampsInOrder, SourcesComeFirst, OnlyCommitted, GivenInOrder, IsSource, IsRepair
<1>4. RepairsFollow' /\ WindowFollows'
  BY <1>1, <1>2 DEF RepairsFollow, FollowsRepair, WindowFollows, Follows, Settled, IsRepair
<1>5. ForgottenIsSettled' /\ GivenIsSettled'
  BY <1>1, <1>2 DEF ForgottenIsSettled, GivenIsSettled, Settled
<1>6. AckedIsSettled'
  BY <1>1, <1>2 DEF AckedIsSettled, Settled
<1>7. QED
  BY <1>1, <1>3, <1>4, <1>5, <1>6 DEF Flow

-----------------------------------------------------------------------------
(***************************************************************************)
(* Every step.                                                             *)
(***************************************************************************)
LEMMA CommitFlow ==
  ASSUME Reorder = FALSE, OrderedInv, AppCommit, NetInv'
  PROVE  Flow'
<1> DEFINE c == Commit(enc)
<1>1. EncoderSends(c) /\ evicted' = evicted \cup (enc.m_sources \ c.m_sources)
  BY DEF AppCommit
<1>2. NetInv /\ InRange /\ LastIdBehind /\ EncoderReady
  BY DEF OrderedInv, NetInv, InRange
<1>3. /\ SendsFrom(enc, c)
      /\ c.m_sources = Kept(enc) \cup {enc.m_current_source_id}
  BY <1>2, CommitSends
<1>4. SentByCall(enc, c)
  BY <1>2, CommitIs DEF EncoderReady
<1> HIDE DEF c
<1>5. /\ enc'.m_sources = c.m_sources
      /\ enc'.m_current_source_id = c.m_current_source_id
  BY <1>1, <1>2, <1>3, EncoderSendsKeeps
<1>6. \A s \in enc.m_sources \ Kept(enc) : \A k \in Kept(enc) : s < k
  BY <1>2, KeptIs DEF EncoderReady
<1>7. \A s \in enc.m_sources : s < enc.m_current_source_id
  <2>1. enc.m_current_source_id \in Nat /\ enc.m_sources \subseteq 0 .. (enc.m_current_source_id - 1)
    BY <1>2, NetNumbers
  <2>2. QED
    BY <2>1
<1>8. Advanced(enc, c)
  BY <1>3, <1>6, <1>7 DEF Advanced
<1>9. evicted \subseteq evicted' /\ enc.m_sources \ c.m_sources \subseteq evicted'
  BY <1>1
<1>10. QED
  BY <1>1, <1>3, <1>4, <1>5, <1>8, <1>9, SendsFlow

LEMMA GenerateRepairFlow ==
  ASSUME Reorder = FALSE, OrderedInv, AppGenerateRepair, NetInv'
  PROVE  Flow'
<1> DEFINE c == GenerateRepair(enc)
           p == RepairPacket(enc.m_current_repair_id, enc.m_sources)
<1>1. EncoderSends(c) /\ evicted' = evicted /\ enc.m_sources # {}
  BY DEF AppGenerateRepair
<1>2. NetInv /\ InRange /\ LastIdBehind /\ EncoderReady
  BY DEF OrderedInv, NetInv, InRange
<1>3. /\ SendsFrom(enc, c)
      /\ c.m_sources = enc.m_sources
      /\ c.m_current_source_id = enc.m_current_source_id
  BY <1>1, <1>2, GenerateRepairSends
<1>4. SentByCall(enc, c)
  <2>1. enc \in Encoders /\ enc.sent = <<>>
    BY <1>2 DEF EncoderReady
  <2>2. SameSettings(enc, c) /\ c.sent = Append(enc.sent, p)
    BY <1>1, <2>1, GenerateRepairIs
  <2> HIDE DEF c
  <2>3. c.sent = <<p>>
    BY <2>1, <2>2
  <2>4. enc.m_current_repair_id \in Nat /\ c.sent \in Seq(Sendable)
    BY <2>1, <2>2 DEF SameSettings, Encoders
  <2>5. \A i \in DOMAIN c.sent : \E r \in Nat : c.sent[i] = RepairPacket(r, c.m_sources)
    BY <1>3, <2>3, <2>4
  <2>6. QED
    BY <2>4, <2>5 DEF SentByCall
<1> HIDE DEF c
<1>5. /\ enc'.m_sources = c.m_sources
      /\ enc'.m_current_source_id = c.m_current_source_id
  BY <1>1, <1>2, <1>3, EncoderSendsKeeps
<1>6. Advanced(enc, c)
  BY <1>3 DEF Advanced
<1>7. evicted \subseteq evicted' /\ enc.m_sources \ c.m_sources \subseteq evicted'
  BY <1>1, <1>3
<1>8. QED
  BY <1>1, <1>3, <1>4, <1>5, <1>6, <1>7, SendsFlow

LEMMA AskAckOrdered ==
  ASSUME Reorder = FALSE, OrderedInv, AskAck
  PROVE  /\ Tidy(dec') /\ Flow'
         /\ enc' = enc /\ evicted' = evicted /\ delivered' = delivered
         /\ dec'.m_in_order = dec.m_in_order
<1> DEFINE e == GenerateAck(dec, dec.m_sources)
           a == AckPacket(dec.m_sources, dec.nb_packets)
<1>1. NetInv /\ Sound(dec) /\ AtRest(dec) /\ dec \in Decoders /\ StampsInOrder /\ Tidy(dec)
  BY DEF OrderedInv, Flow, NetInv, InRange, DecoderReady, Sound
<1>2. DecoderReturns(e) /\ data' = data
  BY DEF AskAck
<1>3. /\ SameMembers(dec, e) /\ SameFault(dec, e)
      /\ e.out = {} /\ e.ack = {a}
  <2>1. dec.m_sources \in SUBSET SourceId /\ dec.out = {} /\ dec.ack = {}
    BY <1>1 DEF Decoders, AtRest
  <2>2. QED
    BY <1>1, <2>1, GenerateAckIs
<1> HIDE DEF e
<1>4. e \in Decoders
  BY <1>3 DEF SameMembers
<1>5. RestedTo(e, dec')
  BY <1>2, <1>4, SettleDecoderIs DEF DecoderReturns
<1>6. SameMembers(dec, dec') /\ SameFault(dec, dec')
  BY <1>3, <1>5 DEF RestedTo, SameMembers, SameFault
<1>7. Tidy(dec')
  BY <1>1, <1>6, SameTidy
<1>8. enc' = enc /\ evicted' = evicted
  BY <1>2 DEF DecoderReturns
<1>9. delivered' = delivered
  <2>1. delivered \in [SourceId -> 0 .. 2]
    BY <1>1, NetNumbers
  <2>2. delivered' = [s \in SourceId |-> delivered[s]]
    BY <1>2, <1>3 DEF DecoderReturns, Tally
  <2>3. QED
    BY <2>1, <2>2
<1>10. clock' \in [data : Nat, acks : Nat] /\ clock'.data = clock.data
  <2>1. clock \in [data : Nat, acks : Nat]
    BY <1>1 DEF StampsInOrder
  <2>2. Cardinality(e.ack) = 1
    BY <1>3, FS_Singleton
  <2>3. clock' = [clock EXCEPT !.acks = clock.acks + Cardinality(e.ack)]
    BY <1>2 DEF DecoderReturns, Stamp
  <2>4. clock.acks + Cardinality(e.ack) \in Nat
    BY <2>1, <2>2
  <2>5. QED
    BY <2>1, <2>3, <2>4
<1>11. \A n \in acks' : n \in acks \/ n.packet.source_ids \subseteq dec.m_sources
  <2>1. ASSUME NEW n \in acks', n \notin acks
        PROVE  n.packet = a
    BY <1>2, <1>3, <2>1 DEF DecoderReturns
  <2>2. a.source_ids = dec.m_sources
    BY DEF AckPacket
  <2>3. QED
    BY <2>1, <2>2
<1>12. Flow'
  BY <1>2, <1>6, <1>8, <1>9, <1>10, <1>11, SameFlow
<1>13. QED
  BY <1>6, <1>7, <1>8, <1>9, <1>12 DEF SameMembers

LEMMA SetAckPolicyOrdered ==
  ASSUME OrderedInv, NEW d, SameMembers(dec, d), SameFault(dec, d), SetAckPolicy(d)
  PROVE  Tidy(dec') /\ Flow'
<1>1. /\ dec' = d /\ enc' = enc /\ data' = data /\ acks' = acks /\ clock' = clock
      /\ delivered' = delivered /\ evicted' = evicted
  BY DEF SetAckPolicy
<1>2. clock \in [data : Nat, acks : Nat]
  BY DEF OrderedInv, Flow, StampsInOrder
<1>3. Flow'
  BY <1>1, <1>2, SameFlow
<1>4. QED
  BY <1>1, <1>3, SameTidy DEF OrderedInv

LEMMA ReceiveDataOrdered ==
  ASSUME Reorder = FALSE, OrderedInv, NEW m \in data, ReceiveData(m)
  PROVE  /\ Tidy(dec') /\ Flow'
         /\ enc' = enc /\ evicted' = evicted
         /\ dec'.m_in_order = dec.m_in_order
         /\ \E out \in SUBSET SourceId :
              /\ delivered' = [s \in SourceId |-> IF s \in out THEN 1 ELSE delivered[s]]
              /\ \A s \in out : s < enc.m_current_source_id /\ delivered[s] = 0
              /\ dec.m_in_order => ComesAfterAll(out)
<1>1. PICK luck \in BOOLEAN : \E e \in Receive(dec, m.packet, luck) : DecoderReturns(e)
  BY DEF ReceiveData
<1>2. PICK e \in Receive(dec, m.packet, luck) : DecoderReturns(e)
  BY <1>1
<1>3. dec.fault = "none" /\ data' = Consume(data, m)
  BY DEF ReceiveData, Running
<1>4. Handled(m, e)
  BY <1>2, <1>3, MessageHandled
<1>5. RestedTo(e, dec') /\ Tidy(e) /\ e.m_in_order = dec.m_in_order
  BY <1>2, <1>4, SettleDecoderIs DEF Handled, Sound, DecoderReturns
<1>6. Flow'
  BY <1>2, <1>3, <1>4, <1>5, ReceiveFlow
<1>7. Tidy(dec') /\ dec'.m_in_order = dec.m_in_order
  BY <1>5, SameTidy DEF RestedTo, SameMembers
<1>8. /\ e.out \subseteq SourceId
      /\ \A s \in e.out : s < enc.m_current_source_id /\ delivered[s] = 0
      /\ dec.m_in_order => ComesAfterAll(e.out)
  BY <1>4, GivesWhatComesNext
<1>9. delivered' = [s \in SourceId |-> IF s \in e.out THEN 1 ELSE delivered[s]]
  <2>1. delivered' = [s \in SourceId |-> IF s \in e.out /\ delivered[s] < 2
                                         THEN delivered[s] + 1 ELSE delivered[s]]
    BY <1>2 DEF DecoderReturns, Tally
  <2>2. \A s \in SourceId : (IF s \in e.out /\ delivered[s] < 2 THEN delivered[s] + 1 ELSE delivered[s])
                             = IF s \in e.out THEN 1 ELSE delivered[s]
    BY <1>8
  <2>3. QED
    BY <2>1, <2>2
<1>10. enc' = enc /\ evicted' = evicted
  BY <1>2 DEF DecoderReturns
<1>11. QED
  BY <1>6, <1>7, <1>8, <1>9, <1>10

LEMMA OrderedNext ==
  ASSUME Reorder = FALSE, OrderedInv, Next
  PROVE  OrderedInv'
<1>1. NetInv /\ Tidy(dec) /\ dec \in Decoders
  BY DEF OrderedInv, NetInv, InRange, DecoderReady, Sound
<1>2. NetInv'
  BY <1>1, NextKeeps
<1>3. ASSUME dec' = dec, Flow'
      PROVE  OrderedInv'
  BY <1>1, <1>2, <1>3 DEF OrderedInv
<1>4. CASE AppCommit
  <2>1. dec' = dec
    BY <1>4 DEF AppCommit, EncoderSends
  <2>2. QED
    BY <1>2, <1>3, <1>4, <2>1, CommitFlow
<1>5. CASE AppGenerateRepair
  <2>1. dec' = dec
    BY <1>5 DEF AppGenerateRepair, EncoderSends
  <2>2. QED
    BY <1>2, <1>3, <1>5, <2>1, GenerateRepairFlow
<1>6. CASE AskAck
  BY <1>2, <1>6, AskAckOrdered DEF OrderedInv
<1>7. CASE SetFrequency
  <2>1. PICK on \in AckTimers : SetAckPolicy(SetAckFrequency(dec, on))
    BY <1>7 DEF SetFrequency
  <2>2. on \in BOOLEAN
    BY TunnelAssumption
  <2>3. SameMembers(dec, SetAckFrequency(dec, on)) /\ SameFault(dec, SetAckFrequency(dec, on))
    BY <1>1, <2>2, AckPolicyIs
  <2>4. Tidy(dec') /\ Flow'
    BY <2>1, <2>3, SetAckPolicyOrdered
  <2>5. QED
    BY <1>2, <2>4 DEF OrderedInv
<1>8. CASE SetCount
  <2>1. PICK nb \in AckCounts : SetAckPolicy(SetAckNbPackets(dec, nb))
    BY <1>8 DEF SetCount
  <2>2. nb \in Nat
    BY TunnelAssumption
  <2>3. SameMembers(dec, SetAckNbPackets(dec, nb)) /\ SameFault(dec, SetAckNbPackets(dec, nb))
    BY <1>1, <2>2, AckPolicyIs
  <2>4. Tidy(dec') /\ Flow'
    BY <2>1, <2>3, SetAckPolicyOrdered
  <2>5. QED
    BY <1>2, <2>4 DEF OrderedInv
<1>9. ASSUME NEW m \in data, ReceiveData(m)
      PROVE  OrderedInv'
  <2>1. Tidy(dec') /\ Flow'
    BY <1>9, ReceiveDataOrdered
  <2>2. QED
    BY <1>2, <2>1 DEF OrderedInv
<1>10. ASSUME NEW m \in acks, ReceiveAck(m)
       PROVE  OrderedInv'
  <2>1. dec' = dec
    BY <1>10 DEF ReceiveAck
  <2>2. Flow'
    BY <1>10, AckFlow
  <2>3. QED
    BY <1>3, <2>1, <2>2
<1>11. QED
  BY <1>4, <1>5, <1>6, <1>7, <1>8, <1>9, <1>10 DEF Next

LEMMA OrderedStutter == OrderedInv /\ UNCHANGED vars => OrderedInv'
<1> SUFFICES ASSUME OrderedInv, UNCHANGED vars
             PROVE  OrderedInv'
  OBVIOUS
<1>1. /\ dec' = dec /\ enc' = enc /\ data' = data /\ acks' = acks /\ clock' = clock
      /\ delivered' = delivered /\ evicted' = evicted
  BY DEF vars
<1>2. NetInv'
  BY StutterKeeps DEF OrderedInv
<1>3. SameMembers(dec, dec') /\ clock \in [data : Nat, acks : Nat]
  BY <1>1 DEF SameMembers, OrderedInv, Flow, StampsInOrder, NetInv, InRange, DecoderReady, Sound
<1>4. Flow'
  BY <1>1, <1>3, SameFlow
<1>5. QED
  BY <1>1, <1>2, <1>4 DEF OrderedInv

THEOREM OrderedSoundness ==
  ASSUME Reorder = FALSE
  PROVE  Spec => []OrderedInv
<1>1. OrderedInv /\ [Next]_vars => OrderedInv'
  BY OrderedNext, OrderedStutter
<1>2. QED
  BY <1>1, OrderedInit, PTL DEF Spec

-----------------------------------------------------------------------------
(***************************************************************************)
(* The theorems.                                                           *)
(***************************************************************************)

(* No assertion of the decoder fails, no iterator is misused and no wrong  *)
(* data is handed over, while packets are lost but not reordered.          *)
THEOREM NeverAFault ==
  ASSUME Reorder = FALSE
  PROVE  Spec => []NoFault
<1>1. OrderedInv => NoFault
  BY DEF OrderedInv, Tidy, Orderly, NoFault
<1>2. QED
  BY <1>1, OrderedSoundness, PTL

(* While packets are lost but not reordered, no repair is left encoding a  *)
(* source that has been received or rebuilt in the meantime.               *)
THEOREM NeverAStaleRepair ==
  ASSUME Reorder = FALSE
  PROVE  Spec => []NoStaleRepair
<1>1. OrderedInv => NoStaleRepair
  BY DEF OrderedInv, Tidy, Orderly, HasNoStaleRepair, NoStaleRepair
<1>2. QED
  BY <1>1, OrderedSoundness, PTL

(* While packets are lost but not reordered, there are fewer repairs than  *)
(* missing sources when a call returns: the assertion of attempt_full_     *)
(* decoding holds, and nothing that could be decoded is left.              *)
THEOREM AlwaysFewerRepairs ==
  ASSUME Reorder = FALSE
  PROVE  Spec => []FewerRepairsThanMissing
<1>1. OrderedInv => FewerRepairsThanMissing
  <2> SUFFICES ASSUME OrderedInv PROVE FewerRepairsThanMissing
    OBVIOUS
  <2>1. Tidy(dec) /\ dec \in Decoders
    BY DEF OrderedInv, NetInv, InRange, DecoderReady, Sound
  <2>2. NbRepairs(dec) = 0 \/ NbRepairs(dec) < NbMissing(dec)
    BY <2>1, FewerRepairs
  <2>3. IsFiniteSet(DOMAIN dec.m_repairs)
    BY <2>1, NumbersOfMembers
  <2>4. NbRepairs(dec) = 0 => DOMAIN dec.m_repairs = {}
    BY <2>3, FS_EmptySet DEF NbRepairs
  <2>5. QED
    BY <2>2, <2>4 DEF FewerRepairsThanMissing, NbRepairs, NbMissing
<1>2. QED
  BY <1>1, OrderedSoundness, PTL

(* While packets are lost but not reordered, an in-order decoder never     *)
(* holds the source that comes next: flush_ordered has handed over all     *)
(* that was waiting for it.                                                *)
THEOREM NothingEverWithheld ==
  ASSUME Reorder = FALSE
  PROVE  Spec => []NothingWithheld
<1>1. OrderedInv => NothingWithheld
  <2> SUFFICES ASSUME OrderedInv, dec.m_in_order
               PROVE  dec.m_first_missing \notin dec.m_sources
    BY DEF NothingWithheld
  <2>1. Orderly(dec)
    BY DEF OrderedInv, Tidy
  <2>2. HasPlaceInOrder(dec)
    BY <2>1 DEF Orderly, HasPlace
  <2>3. dec.m_first_missing \in Nat
    BY <2>1, OrderlyFacts
  <2>4. ~(dec.m_first_missing < dec.m_first_missing)
    BY <2>3
  <2>5. dec.m_first_missing \notin dec.m_ordered_sources
    BY <2>2, <2>4 DEF HasPlaceInOrder
  <2>6. QED
    BY <2>2, <2>4, <2>5 DEF HasPlaceInOrder
<1>2. QED
  BY <1>1, OrderedSoundness, PTL

(* While packets are lost but not reordered, the encoder forgets no        *)
(* source, but those it evicts, that the decoder has not handed over or    *)
(* holds for in-order delivery: whichever the order asked for.             *)
THEOREM ForgottenDeliveredInOrder ==
  ASSUME Reorder = FALSE
  PROVE  Spec => []ForgottenWasDelivered
<1>1. OrderedInv => ForgottenWasDelivered
  <2> SUFFICES ASSUME OrderedInv, NEW s \in 0 .. (enc.m_current_source_id - 1),
                      s \notin enc.m_sources \cup evicted \cup dec.m_ordered_sources
               PROVE  delivered[s] > 0
    BY DEF ForgottenWasDelivered
  <2>1. /\ NetInv /\ Orderly(dec) /\ LastIdBehind /\ OthersRemembered
        /\ ForgottenIsSettled /\ GivenInOrder
    BY DEF OrderedInv, NetInv, Tidy, Flow
  <2>2. s \in SourceId /\ s \in Nat /\ dec.m_first_missing \in Nat
    BY <2>1, NetNumbers
  <2>3. CASE ~dec.m_in_order
    BY <2>1, <2>3 DEF OthersRemembered, GivenSoFar
  <2>4. CASE dec.m_in_order
    <3>1. HasPlaceInOrder(dec) /\ Settled(dec, s)
      BY <2>1, <2>4 DEF Orderly, HasPlace, ForgottenIsSettled
    <3>2. s < dec.m_first_missing
      <4>1. CASE s \in dec.m_sources
        BY <3>1, <4>1 DEF HasPlaceInOrder
      <4>2. CASE s < dec.m_last_id
        <5>1. dec.m_last_id <= dec.m_first_missing /\ dec.m_last_id \in Nat
          BY <2>1, <3>1, NetNumbers DEF HasPlaceInOrder
        <5>2. QED
          BY <2>2, <4>2, <5>1
      <4>3. QED
        BY <3>1, <4>1, <4>2 DEF Settled
    <3>3. delivered[s] = 1 \/ s \in evicted
      BY <2>1, <2>2, <2>4, <3>2 DEF GivenInOrder
    <3>4. QED
      BY <3>3
  <2>5. QED
    BY <2>3, <2>4
<1>2. QED
  BY <1>1, OrderedSoundness, PTL

(* While packets are lost but not reordered, no source is handed to the    *)
(* user twice: m_last_id never moves back, and what it has not passed is   *)
(* known.  Such a network meets no fault (NeverAFault), so that the        *)
(* condition of DeliveredOnce excludes nothing.                            *)
THEOREM AlwaysDeliveredOnce ==
  ASSUME Reorder = FALSE
  PROVE  Spec => []DeliveredOnce
<1>1. OrderedInv => DeliveredOnce
  <2> SUFFICES ASSUME OrderedInv, NEW s \in SourceId
               PROVE  delivered[s] <= 1
    BY DEF DeliveredOnce
  <2>1. delivered[s] \in 0 .. 2 /\ (delivered[s] > 0 => delivered[s] = 1)
    BY NetNumbers DEF OrderedInv, Flow, GivenIsSettled
  <2>2. QED
    BY <2>1
<1>2. QED
  BY <1>1, OrderedSoundness, PTL

(* The steps of the abstract specification.                                *)
LEMMA PromiseInit == Init => Promise!Init
<1> SUFFICES ASSUME Init PROVE Promise!Init
  OBVIOUS
<1>1. OrderedInv
  BY OrderedInit
<1>2. dec.m_in_order \in BOOLEAN
  BY <1>1 DEF OrderedInv, NetInv, InRange, DecoderReady, Sound, Decoders
<1>3. enc.m_current_source_id = 0
  BY DEF Init, NewEncoder
<1>4. QED
  BY <1>2, <1>3 DEF Init, Promise!Init

LEMMA CommitIsPromised ==
  ASSUME OrderedInv, AppCommit
  PROVE  Promise!Commit
<1> DEFINE c == Commit(enc)
           D == (enc.m_sources \ c.m_sources) \ evicted
<1>1. EncoderSends(c) /\ evicted' = evicted \cup (enc.m_sources \ c.m_sources)
  BY DEF AppCommit
<1>2. NetInv /\ InRange /\ LastIdBehind /\ EncoderReady
  BY DEF OrderedInv, NetInv, InRange
<1>3. SendsFrom(enc, c) /\ c.m_current_source_id = enc.m_current_source_id + 1
  BY <1>2, CommitSends
<1> HIDE DEF c
<1>4. enc'.m_current_source_id = enc.m_current_source_id + 1
  BY <1>1, <1>2, <1>3, EncoderSendsKeeps
<1>5. enc.m_sources \subseteq 0 .. (enc.m_current_source_id - 1)
  BY <1>2, NetNumbers
<1>6. D \in SUBSET (Promise!Known \ evicted) /\ evicted' = evicted \cup D
  BY <1>1, <1>5 DEF Promise!Known
<1>7. dec' = dec /\ delivered' = delivered
  BY <1>1 DEF EncoderSends
<1> HIDE DEF D
<1>8. QED
  BY <1>4, <1>6, <1>7 DEF Promise!Commit

LEMMA ReceiveIsPromised ==
  ASSUME Reorder = FALSE, OrderedInv, NEW m \in data, ReceiveData(m)
  PROVE  Promise!Next \/ UNCHANGED Promise!vars
<1>1. /\ enc' = enc /\ evicted' = evicted /\ dec'.m_in_order = dec.m_in_order
      /\ \E out \in SUBSET SourceId :
           /\ delivered' = [s \in SourceId |-> IF s \in out THEN 1 ELSE delivered[s]]
           /\ \A s \in out : s < enc.m_current_source_id /\ delivered[s] = 0
           /\ dec.m_in_order => ComesAfterAll(out)
  BY ReceiveDataOrdered
<1>2. PICK out \in SUBSET SourceId :
        /\ delivered' = [s \in SourceId |-> IF s \in out THEN 1 ELSE delivered[s]]
        /\ \A s \in out : s < enc.m_current_source_id /\ delivered[s] = 0
        /\ dec.m_in_order => ComesAfterAll(out)
  BY <1>1
<1>3. /\ enc.m_current_source_id \in Nat /\ SourceId \subseteq Nat
      /\ 0 .. (enc.m_current_source_id - 1) \subseteq SourceId
      /\ delivered \in [SourceId -> 0 .. 2]
  BY NetNumbers DEF OrderedInv
<1>4. CASE out = {}
  <2>1. delivered' = delivered
    BY <1>2, <1>3, <1>4
  <2>2. QED
    BY <1>1, <2>1 DEF Promise!vars
<1>5. CASE out # {}
  <2>1. out \in (SUBSET Promise!Known) \ {{}}
    <3>1. \A s \in out : s \in Nat /\ s < enc.m_current_source_id
      BY <1>2, <1>3
    <3>2. \A s \in out : s \in 0 .. (enc.m_current_source_id - 1)
      BY <1>3, <3>1
    <3>3. QED
      BY <1>5, <3>2 DEF Promise!Known
  <2>2. dec.m_in_order => Promise!ComesNext(out)
    <3>1. SUFFICES ASSUME dec.m_in_order, NEW s \in out, NEW t \in Promise!Known \ out
                   PROVE  IF t < s THEN delivered[t] = 1 \/ t \in evicted ELSE delivered[t] = 0
      BY DEF Promise!ComesNext
    <3>2. t \in SourceId /\ t \in Nat /\ s \in Nat /\ t # s
      BY <1>3, <3>1 DEF Promise!Known
    <3>3. ComesAfterAll(out)
      BY <1>2, <3>1
    <3>4. CASE t < s
      BY <3>1, <3>2, <3>3, <3>4 DEF ComesAfterAll
    <3>5. CASE ~(t < s)
      <4>1. t > s
        BY <3>2, <3>5
      <4>2. QED
        BY <3>1, <3>2, <3>3, <3>5, <4>1 DEF ComesAfterAll
    <3>6. QED
      BY <3>4, <3>5
  <2>3. Promise!Deliver(out)
    BY <1>1, <1>2, <2>2 DEF Promise!Deliver
  <2>4. QED
    BY <2>1, <2>3 DEF Promise!Next
<1>6. QED
  BY <1>4, <1>5

LEMMA StepIsPromised ==
  ASSUME Reorder = FALSE, OrderedInv, [Next]_vars
  PROVE  [Promise!Next]_(Promise!vars)
<1>1. CASE AppCommit
  BY <1>1, CommitIsPromised DEF Promise!Next
<1>2. CASE AppGenerateRepair
  <2> DEFINE c == GenerateRepair(enc)
  <2>1. EncoderSends(c) /\ evicted' = evicted /\ enc.m_sources # {}
    BY <1>2 DEF AppGenerateRepair
  <2>2. InRange /\ LastIdBehind /\ EncoderReady
    BY DEF OrderedInv, NetInv, InRange
  <2>3. SendsFrom(enc, c) /\ c.m_current_source_id = enc.m_current_source_id
    BY <2>1, <2>2, GenerateRepairSends
  <2> HIDE DEF c
  <2>4. enc'.m_current_source_id = enc.m_current_source_id
    BY <2>1, <2>2, <2>3, EncoderSendsKeeps
  <2>5. QED
    BY <2>1, <2>4 DEF EncoderSends, Promise!vars
<1>3. CASE AskAck
  BY <1>3, AskAckOrdered DEF Promise!vars
<1>4. ASSUME NEW d, SameMembers(dec, d), SetAckPolicy(d)
      PROVE  UNCHANGED Promise!vars
  BY <1>4 DEF SetAckPolicy, SameMembers, Promise!vars
<1>5. CASE SetFrequency \/ SetCount
  <2>1. dec \in Decoders
    BY DEF OrderedInv, NetInv, InRange, DecoderReady, Sound
  <2>2. /\ \A on \in AckTimers : SameMembers(dec, SetAckFrequency(dec, on))
        /\ \A nb \in AckCounts : SameMembers(dec, SetAckNbPackets(dec, nb))
    BY <2>1, AckPolicyIs, TunnelAssumption
  <2>3. QED
    BY <1>4, <1>5, <2>2 DEF SetFrequency, SetCount
<1>6. ASSUME NEW m \in data, ReceiveData(m)
      PROVE  Promise!Next \/ UNCHANGED Promise!vars
  BY <1>6, ReceiveIsPromised
<1>7. ASSUME NEW m \in acks, ReceiveAck(m)
      PROVE  UNCHANGED Promise!vars
  <2>1. enc'.m_current_source_id = enc.m_current_source_id
    BY <1>7, ReceiveAckKeeps DEF OrderedInv, NetInv
  <2>2. QED
    BY <1>7, <2>1 DEF ReceiveAck, Promise!vars
<1>8. CASE UNCHANGED vars
  BY <1>8 DEF vars, Promise!vars
<1>9. QED
  BY <1>1, <1>2, <1>3, <1>5, <1>6, <1>7, <1>8 DEF Next

(* While packets are lost but not reordered, an encoder and a decoder      *)
(* keep what Delivery promises: each source is handed over once at most,   *)
(* and in order with no hole but what the window has dropped.              *)
THEOREM KeepsThePromise ==
  ASSUME Reorder = FALSE
  PROVE  Spec => ImplementsDelivery
<1>1. Init => Promise!Init
  BY PromiseInit
<1>2. OrderedInv /\ [Next]_vars => [Promise!Next]_(Promise!vars)
  BY StepIsPromised
<1>3. QED
  BY <1>1, <1>2, OrderedSoundness, PTL DEF Spec, ImplementsDelivery, Promise!Spec
=============================================================================
