------------------------------ MODULE Decoder ------------------------------
(***************************************************************************)
(* A decoder alone, facing any packets whatever in any order: the weakest  *)
(* environment, in which everything the decoder promises by itself must    *)
(* hold.                                                                   *)
(***************************************************************************)
EXTENDS DecoderObject

CONSTANTS
  Orders,      \* arguments of the constructor: with in-order delivery or not
  AckTimers    \* whether the periodic ack is enabled

ASSUME PolicyAssumption == Orders \subseteq BOOLEAN /\ AckTimers \subseteq BOOLEAN

VARIABLES
  dec,        \* the decoder object
  delivered,  \* history: how many times each source was handed to the user
  high        \* history: the greatest value m_last_id has had

vars == <<dec, delivered, high>>

Init ==
  /\ \E order \in Orders, on \in AckTimers : dec = SetAckFrequency(NewDecoder(order), on)
  /\ delivered = [s \in SourceId |-> 0]
  /\ high = 0

Return(d) ==
  /\ dec' = SettleDecoder(d)
  /\ delivered' = Tally(delivered, d.out)
  /\ high' = IF d.m_last_id > high THEN d.m_last_id ELSE high

Notify(p) ==
  /\ dec.fault = "none"
  /\ \E luck \in BOOLEAN : \E d \in Receive(dec, p, luck) : Return(d)

AskAck ==
  /\ dec.fault = "none"
  /\ Return(GenerateAck(dec, dec.m_sources))

Next == AskAck \/ \E p \in DataPackets : Notify(p)

Spec == Init /\ [][Next]_vars

-----------------------------------------------------------------------------
(***************************************************************************)
(* Properties, whatever the packets and their order.                       *)
(***************************************************************************)

(* The members of the object stay in range, and so do the histories.       *)
TypeOK ==
  /\ dec \in Decoders
  /\ delivered \in [SourceId -> 0 .. 2]
  /\ high \in SourceId

(* m_ordered_sources holds raw pointers into m_sources (decoder.hh:157):   *)
(* each of them must point to a source that is still stored, or            *)
(* drop_outdated and flush_ordered_sources read freed memory.              *)
PointersValid == HasValidPointers(dec)

(* m_missing_sources holds iterators into m_repairs: each of them must     *)
(* designate a stored repair that encodes the missing source, or the next  *)
(* erase or remove_source_from_repair (assertion decoder.cc:189) goes      *)
(* through an invalid iterator.                                            *)
LinksLive == HasLiveLinks(dec)

(* Nothing older than m_last_id survives anywhere (drop_outdated,          *)
(* decoder.cc:341-389; assertion decoder.cc:296), and a stored repair      *)
(* always encodes something (assertion decoder.cc:352).                    *)
NothingOutdated == dec.fault = "none" => HasNothingOutdated(dec)

(* In-order delivery never leaves deliverable data in the queue: the first *)
(* source not yet given is not itself waiting in m_ordered_sources (the    *)
(* assertion of flush_ordered_sources, decoder.cc:580, and its two calls). *)
QueueFlushed == HasFlushedQueue(dec)

(* A source is never handed to the user twice unless m_last_id has been    *)
(* past it and has come back: the duplicate suppression of decoder.cc:36   *)
(* and 42 relies on m_last_id for what it no longer stores.                *)
RecentOnce ==
  dec.fault = "none" => \A s \in SourceId : delivered[s] = 2 => s < high

(* With in_order, a source that was never outdated is handed over after    *)
(* every source with a smaller identifier that is handed over at all: no   *)
(* later source has been given before it (decoder.hh:150).                 *)
InOrderStep ==
  (dec.m_in_order /\ dec'.fault = "none") =>
    \A n, o \in SourceId :
      (n >= high /\ delivered'[n] > delivered[n] /\ delivered[o] > 0) => o < n

RecentInOrder == [][InOrderStep]_vars
=============================================================================
