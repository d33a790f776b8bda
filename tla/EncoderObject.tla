--------------------------- MODULE EncoderObject ---------------------------
(***************************************************************************)
(* The encoder of the library, ntc::encoder (netcode/encoder.hh), with its *)
(* window of sources (netcode/detail/source_list.hh) and the list of       *)
(* identifiers that detail::encoder puts in a repair                       *)
(* (netcode/detail/encoder.cc).                                            *)
(*                                                                         *)
(* An encoder object is a record and every method an operator on it, as in *)
(* Decoder.  `sent' is what the running call has given to the packet       *)
(* handler, in order.  The window is the set of its identifiers: the list  *)
(* is sorted, being appended with a growing counter, so that its front is  *)
(* the least one.                                                          *)
(***************************************************************************)
EXTENDS Packets, Sequences, FiniteSets, FiniteSetsExt

CONSTANTS
  CounterWidth,  \* bits of m_nb_sent_packets (16 in the code)
  RepairWidth    \* bits of m_current_repair_id (32 in the code)

(* The powers are positive, which proofs cannot find by themselves.        *)
ASSUME EncoderAssumption ==
  /\ CounterWidth \in Nat /\ 2 ^ CounterWidth > 0
  /\ RepairWidth \in Nat /\ 2 ^ RepairWidth > 0

-----------------------------------------------------------------------------
(* The window is unlimited by default: no run of this model reaches the    *)
(* value below.                                                            *)
Unlimited == MaxSource + 2

NewEncoder ==
  [ systematic          |-> TRUE,
    m_rate              |-> 5,
    m_window_size       |-> Unlimited,
    m_adaptive          |-> FALSE,
    m_current_source_id |-> 0,
    m_current_repair_id |-> 0,
    m_sources           |-> {},
    m_nb_sent_packets   |-> 0,
    sent                |-> <<>>,
    fault               |-> "none" ]

(* A slip: the counter is wider than its type.                             *)
IncrementWithoutWrap(n) == n + 1

Increment(n) == (n + 1) % 2 ^ CounterWidth

(* write_source and write_repair end in the user's packet handler.         *)
Send(e, p) ==
  [e EXCEPT !.sent = Append(@, p), !.m_nb_sent_packets = Increment(@)]

(***************************************************************************)
(* generate_repair and mk_repair: a repair encodes the whole window.       *)
(***************************************************************************)

(* A slip: the iteration starts after the head of the window.              *)
EncodeWithoutHead(repair_id, sources) ==
  RepairPacket(repair_id, IF Cardinality(sources) = 1 THEN sources ELSE sources \ {Min(sources)})

Encode(repair_id, sources) == RepairPacket(repair_id, sources)

GenerateRepair(e) ==
  IF e.m_sources = {}
  THEN [e EXCEPT !.fault = "empty_source_list"]
  ELSE [Send(e, Encode(e.m_current_repair_id, e.m_sources)) EXCEPT
          !.m_current_repair_id = (@ + 1) % 2 ^ RepairWidth]

(***************************************************************************)
(* commit_impl, up to the return of the packet handler and from there on:  *)
(* the handler may deliver the packet, and the ack it causes, in between.  *)
(***************************************************************************)
(* A slip: an off-by-one.                                                  *)
WindowOverfull(e) == Cardinality(e.m_sources) > e.m_window_size

WindowFull(e) == Cardinality(e.m_sources) = e.m_window_size

(* A slip: the newest source leaves the window instead of the oldest.      *)
PopBack(e) == [e EXCEPT !.m_sources = @ \ {Max(@)}]

PopFront(e) == [e EXCEPT !.m_sources = @ \ {Min(@)}]

Emplace(e) ==
  LET e1 == IF WindowFull(e) THEN PopFront(e) ELSE e
  IN  [e1 EXCEPT !.m_sources = @ \cup {e.m_current_source_id}]

(* A slip: one source too many between two repairs.                        *)
RepairDueLate(e) == (e.m_current_source_id + 1) % (e.m_rate + 1) = 0

RepairDue(e) == (e.m_current_source_id + 1) % e.m_rate = 0

CommitSource(e) ==
  IF e.systematic THEN Send(Emplace(e), SourcePacket(e.m_current_source_id))
                  ELSE GenerateRepair(Emplace(e))

CommitRepair(e) ==
  [(IF RepairDue(e) THEN GenerateRepair(e) ELSE e) EXCEPT !.m_current_source_id = @ + 1]

Commit(e) == CommitRepair(CommitSource(e))

(***************************************************************************)
(* notify_impl.  The loss rate is computed in floating point from two      *)
(* 16-bit counters; it is negative when the ack counts more packets than   *)
(* were sent since the last one.  rate_for_loss(lost / sent) is            *)
(* ceil(sent / (2 * lost)), or 50 below one percent.                       *)
(***************************************************************************)
(* A slip: the division rounds down.                                       *)
RateForLossRoundedDown(lost, sent) ==
  IF 100 * lost < sent THEN 50 ELSE sent \div (2 * lost)

RateForLoss(lost, sent) ==
  IF 100 * lost < sent THEN 50 ELSE (sent + 2 * lost - 1) \div (2 * lost)

AdaptedRate(e, nb) ==
  IF e.m_nb_sent_packets > 0
  THEN RateForLoss(e.m_nb_sent_packets - nb, e.m_nb_sent_packets)
  ELSE RateForLoss(0, 1)

(* source_list::erase.  A slip before it: an ack is taken as cumulative.   *)
EraseUpTo(sources, ids) == {s \in sources : \A i \in ids : s > i}

Erase(sources, ids) == sources \ ids

(* Any other packet makes notify_impl throw before it changes anything.    *)
Notify(e, p) ==
  IF p.kind # "ack" THEN e
  ELSE [e EXCEPT
          !.m_rate            = IF e.m_adaptive THEN AdaptedRate(e, p.nb_packets) ELSE @,
          !.m_nb_sent_packets = 0,
          !.m_sources         = Erase(@, p.source_ids)]

(* Bounds: the identifiers the model has room for.                         *)
Fits(e) ==
  /\ e.m_current_source_id <= MaxSource + 1
  /\ \A i \in DOMAIN e.sent : e.sent[i].kind = "repair" => e.sent[i].id \in RepairId

SettleEncoder(e) == [e EXCEPT !.sent = <<>>]
=============================================================================
