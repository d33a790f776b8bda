------------------------------ MODULE Packets ------------------------------
(***************************************************************************)
(* What travels between an encoder and a decoder, as the packetizer gives  *)
(* it once read: sources and repairs one way, acks the other way           *)
(* (netcode/detail/packet_type.hh, source.hh, repair.hh, ack.hh).          *)
(***************************************************************************)
EXTENDS Integers

CONSTANTS
  MaxSource,     \* bound: the greatest source identifier
  MaxRepair      \* bound: the greatest repair identifier

ASSUME PacketsAssumption == MaxSource \in Nat /\ MaxRepair \in Nat

SourceId == 0 .. MaxSource
RepairId == 0 .. MaxRepair

SourcePacket(s)      == [kind |-> "source", id |-> s]
RepairPacket(r, ids) == [kind |-> "repair", id |-> r, source_ids |-> ids]
AckPacket(ids, nb)   == [kind |-> "ack", source_ids |-> ids, nb_packets |-> nb]

(* A repair encodes at least one source (assertion decoder.cc:57).         *)
DataPackets ==
       {SourcePacket(s) : s \in SourceId}
  \cup {RepairPacket(r, ids) : r \in RepairId, ids \in (SUBSET SourceId) \ {{}}}
=============================================================================
