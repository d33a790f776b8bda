------------------------------- MODULE Tunnel -------------------------------
(***************************************************************************)
(* An encoder and a decoder joined by a network in each direction, as in   *)
(* the examples: sources and repairs go one way, acks come back.  Packets  *)
(* may be lost; with Reorder the network also delivers them in any order   *)
(* and any number of times, without it each direction is first in, first   *)
(* out.  The network is not code of the library: it is what UDP is to      *)
(* examples/accelerator/transcoder.hh.                                     *)
(***************************************************************************)
EXTENDS EncoderObject, DecoderObject

CONSTANTS
  Reorder,       \* the discipline of both directions of the network
  Rate,          \* set_rate
  WindowSize,    \* set_window_size
  CodeTypes,     \* arguments of set_code_type: systematic or not
  Adaptives,     \* arguments of set_adaptive
  Orders,        \* arguments of the decoder's constructor
  AckTimers,     \* arguments of set_ack_frequency: enabled or not
  AckCounts,     \* arguments of set_ack_nb_packets
  MaxAcks        \* bound: how many acks the application asks for

ASSUME TunnelAssumption ==
  /\ Reorder \in BOOLEAN
  /\ Rate \in Nat \ {0}
  /\ WindowSize \in Nat \ {0}
  /\ CodeTypes \subseteq BOOLEAN
  /\ Adaptives \subseteq BOOLEAN
  /\ Orders \subseteq BOOLEAN
  /\ AckTimers \subseteq BOOLEAN
  /\ AckCounts \subseteq Nat \ {0}
  /\ MaxAcks \in Nat

VARIABLES
  enc,        \* the encoder object
  dec,        \* the decoder object
  data,       \* the packets on their way to the decoder
  acks,       \* the packets on their way to the encoder
  clock,      \* the next stamp of each direction
  asked,      \* how many acks the application has asked for
  delivered,  \* history: how many times each source was handed to the user
  evicted     \* history: the sources the window dropped to make room

vars == <<enc, dec, data, acks, clock, asked, delivered, evicted>>

Init ==
  /\ \E type \in CodeTypes, adaptive \in Adaptives :
       enc = [NewEncoder EXCEPT !.m_rate = Rate, !.m_window_size = WindowSize,
                                !.systematic = type, !.m_adaptive = adaptive]
  /\ \E order \in Orders, on \in AckTimers, nb \in AckCounts :
       dec = SetAckNbPackets(SetAckFrequency(NewDecoder(order), on), nb)
  /\ data = {}
  /\ acks = {}
  /\ clock = [data |-> 0, acks |-> 0]
  /\ asked = 0
  /\ delivered = [s \in SourceId |-> 0]
  /\ evicted = {}

-----------------------------------------------------------------------------
(***************************************************************************)
(* The network.  Messages are stamped in sending order; delivering one     *)
(* without Reorder loses whatever was sent before it and is still there.   *)
(* With Reorder nothing ever leaves and stamps are all the same.           *)
(***************************************************************************)
Stamp(start, i) == IF Reorder THEN 0 ELSE start + i

Stamped(packets, start) ==
  {[stamp |-> Stamp(start, i), packet |-> packets[i]] : i \in DOMAIN packets}

Consume(net, m) == IF Reorder THEN net ELSE {n \in net : n.stamp > m.stamp}

Running == dec.fault = "none" /\ enc.fault = "none"

-----------------------------------------------------------------------------
(* The encoder's side: the packet handler gives packets to the network.    *)
EncoderSends(e) ==
  /\ Fits(e)
  /\ enc' = SettleEncoder(e)
  /\ data' = data \cup Stamped(e.sent, clock.data)
  /\ clock' = [clock EXCEPT !.data = Stamp(@, Len(e.sent))]
  /\ UNCHANGED <<dec, acks, asked, delivered>>

AppCommit ==
  LET e == Commit(enc)
  IN  /\ Running
      /\ EncoderSends(e)
      /\ evicted' = evicted \cup (enc.m_sources \ e.m_sources)

AppGenerateRepair ==
  /\ Running
  /\ enc.m_sources # {}
  /\ EncoderSends(GenerateRepair(enc))
  /\ UNCHANGED evicted

ReceiveAck(m) ==
  /\ Running
  /\ acks' = Consume(acks, m)
  /\ enc' = Notify(enc, m.packet)
  /\ UNCHANGED <<dec, data, clock, asked, delivered, evicted>>

(* The decoder's side.                                                     *)
DecoderReturns(d) ==
  /\ dec' = SettleDecoder(d)
  /\ delivered' = Tally(delivered, d.out)
  /\ acks' = acks \cup {[stamp |-> Stamp(clock.acks, 1), packet |-> a] : a \in d.ack}
  /\ clock' = [clock EXCEPT !.acks = Stamp(@, Cardinality(d.ack))]
  /\ UNCHANGED <<enc, evicted>>

ReceiveData(m) ==
  /\ Running
  /\ data' = Consume(data, m)
  /\ \E luck \in BOOLEAN : \E d \in Receive(dec, m.packet, luck) : DecoderReturns(d)
  /\ UNCHANGED asked

(* The application may change the ack policy at any time.                  *)
SetAckPolicy(d) ==
  /\ Running
  /\ dec' = d
  /\ UNCHANGED <<enc, data, acks, clock, asked, delivered, evicted>>

SetFrequency == \E on \in AckTimers : SetAckPolicy(SetAckFrequency(dec, on))
SetCount     == \E nb \in AckCounts : SetAckPolicy(SetAckNbPackets(dec, nb))

AskAck ==
  /\ Running
  /\ asked < MaxAcks
  /\ asked' = asked + 1
  /\ DecoderReturns(GenerateAck(dec, dec.m_sources))
  /\ UNCHANGED data

Next ==
  \/ AppCommit
  \/ AppGenerateRepair
  \/ AskAck
  \/ SetFrequency
  \/ SetCount
  \/ \E m \in data : ReceiveData(m)
  \/ \E m \in acks : ReceiveAck(m)

Spec == Init /\ [][Next]_vars

-----------------------------------------------------------------------------
(***************************************************************************)
(* Properties over any network.                                            *)
(***************************************************************************)

(* The decoder never considers outdated a source that the encoder still    *)
(* repairs, however acks and evictions have moved the window and however   *)
(* late the repairs are: m_last_id stays behind the head of the window     *)
(* (decoder.cc:36 and 60 drop what is below it).                           *)
WindowAhead == \A s \in enc.m_sources : dec.m_last_id <= s

(* The encoder forgets a source before its eviction only once the decoder  *)
(* has handed it to the user, or holds it for in-order delivery: an ack    *)
(* that is late, repeated or reordered never drops undelivered data.       *)
ForgottenWasDelivered ==
  \A s \in 0 .. (enc.m_current_source_id - 1) :
    s \in enc.m_sources \cup evicted \cup dec.m_ordered_sources \/ delivered[s] > 0

(***************************************************************************)
(* Properties over a network that keeps the order.                         *)
(***************************************************************************)

(* No assertion of the decoder fails, no iterator is misused and no wrong  *)
(* data is handed over.                                                    *)
NoFault == dec.fault = "none"

(* Every repair is linked from each source it still encodes: none is left  *)
(* with a source that has been rebuilt in the meantime.                    *)
NoStaleRepair ==
  \A r \in DOMAIN dec.m_repairs : dec.m_repairs[r] \subseteq DOMAIN dec.m_missing_sources

(* When a call returns, what could be decoded has been: there are always   *)
(* fewer repairs than missing sources (assertion decoder.cc:426).          *)
FewerRepairsThanMissing ==
  Cardinality(DOMAIN dec.m_repairs) < Cardinality(DOMAIN dec.m_missing_sources)
    \/ DOMAIN dec.m_repairs = {}

(* No source is handed to the user twice, by a program none of whose       *)
(* assertions has failed: what comes back after it was handed over is      *)
(* known, or older than m_last_id (decoder.cc:36-46).  Evictions and acks  *)
(* let m_last_id advance, late repairs must not take it back.              *)
DeliveredOnce == NoFault => \A s \in SourceId : delivered[s] <= 1

(* The user is promised this much, with or without in_order, by an encoder *)
(* and a decoder that only the network connects: once each, and in order   *)
(* with no hole but what the window has dropped (encoder.hh:258-262 and    *)
(* decoder.cc:370-389 decide it together).                                 *)
Promise == INSTANCE Delivery WITH
  Sources   <- SourceId,
  committed <- enc.m_current_source_id,
  dropped   <- evicted,
  given     <- delivered,
  inOrder   <- dec.m_in_order

ImplementsDelivery == Promise!Spec

(* With in_order, a source is held back only because an earlier one is     *)
(* missing: the first one not yet given is never held (decoder.hh:150).    *)
NothingWithheld == dec.m_in_order => dec.m_first_missing \notin dec.m_sources

-----------------------------------------------------------------------------
(***************************************************************************)
(* What the source says of itself and a reordering network refutes.        *)
(***************************************************************************)

(* "Trying to create a matrix for only one missing source."                *)
(* (assertion decoder.cc:427).                                             *)
NoMatrixForOneSource == dec.fault # "matrix_for_one_source"
=============================================================================
