------------------------------ MODULE Loopback ------------------------------
(***************************************************************************)
(* An encoder and a decoder in one process, without a network, as in       *)
(* tests/end_to_end.cc and tests/netcode/test_decoder.cc: what one gives   *)
(* to its packet handler is given to the other or lost, and the loop goes  *)
(* on for ever.  A handler may give it at once: a commit is then still     *)
(* running when the decoder receives what it has sent so far, and when the *)
(* ack that this causes comes back.  Identifiers of repairs wrap around,   *)
(* so that repairs never run out.                                          *)
(***************************************************************************)
EXTENDS EncoderObject, DecoderObject, SequencesExt

CONSTANTS
  Rate,          \* set_rate
  WindowSize,    \* set_window_size
  CodeTypes,     \* arguments of set_code_type: systematic or not
  Orders,        \* arguments of the decoder's constructor
  DataRoom,      \* bound: how many packets are on their way to the decoder
  AckRoom        \* bound: and how many to the encoder

ASSUME LoopbackAssumption ==
  /\ Rate \in Nat \ {0}
  /\ WindowSize \in Nat \ {0}
  /\ CodeTypes \subseteq BOOLEAN
  /\ Orders \subseteq BOOLEAN
  /\ DataRoom \in Nat \ {0} /\ AckRoom \in Nat \ {0}
  /\ 2 ^ RepairWidth <= MaxRepair + 1   \* room for every identifier of a repair

VARIABLES
  enc,         \* the encoder object
  dec,         \* the decoder object
  data,        \* the packets on their way to the decoder
  acks,        \* the acks on their way to the encoder
  committing,  \* whether commit_impl runs, its source being sent
  delivered,   \* history: the sources handed to the user
  evicted      \* history: the sources the window dropped to make room

vars == <<enc, dec, data, acks, committing, delivered, evicted>>

Init ==
  /\ \E type \in CodeTypes :
       enc = [NewEncoder EXCEPT !.m_rate = Rate, !.m_window_size = WindowSize,
                                !.systematic = type]
  /\ \E order \in Orders : dec = NewDecoder(order)
  /\ data = <<>>
  /\ acks = <<>>
  /\ committing = FALSE
  /\ delivered = {}
  /\ evicted = {}

Running == enc.fault = "none" /\ dec.fault = "none"

-----------------------------------------------------------------------------
(***************************************************************************)
(* The encoder's side.  Nothing but the network's steps comes between the  *)
(* two halves of a commit.                                                 *)
(***************************************************************************)
EncoderSends(e) ==
  /\ Running
  /\ Len(data \o e.sent) <= DataRoom
  /\ enc' = SettleEncoder(e)
  /\ data' = data \o e.sent
  /\ evicted' = evicted \cup (enc.m_sources \ e.m_sources)
  /\ UNCHANGED <<dec, acks, delivered>>

BeginCommit ==
  /\ ~committing
  /\ enc.m_current_source_id <= MaxSource
  /\ EncoderSends(CommitSource(enc))
  /\ committing' = TRUE

EndCommit ==
  /\ committing
  /\ EncoderSends(CommitRepair(enc))
  /\ committing' = FALSE

(* The application asks for a repair while there is a source.              *)
AppGenerateRepair ==
  /\ ~committing
  /\ enc.m_sources # {}
  /\ EncoderSends(GenerateRepair(enc))
  /\ UNCHANGED committing

-----------------------------------------------------------------------------
(* The decoder's side.                                                     *)
DecoderReturns(d) ==
  /\ Len(acks) + Cardinality(d.ack) <= AckRoom
  /\ dec' = SettleDecoder(d)
  /\ delivered' = delivered \cup d.out
  /\ acks' = acks \o SetToSeq(d.ack)
  /\ UNCHANGED <<enc, committing, evicted>>

(* The application's timer asks for an ack by calling generate_ack.        *)
AskAck ==
  /\ Running
  /\ ~committing
  /\ DecoderReturns(GenerateAck(dec, dec.m_sources))
  /\ UNCHANGED data

-----------------------------------------------------------------------------
(* The network.                                                            *)
TakeData(luck) ==
  /\ Running
  /\ data # <<>>
  /\ \E d \in Receive(dec, Head(data), luck) : DecoderReturns(d)
  /\ data' = Tail(data)

LoseData ==
  /\ data # <<>>
  /\ data' = Tail(data)
  /\ UNCHANGED <<enc, dec, acks, committing, delivered, evicted>>

TakeAck ==
  /\ Running
  /\ acks # <<>>
  /\ enc' = Notify(enc, Head(acks))
  /\ acks' = Tail(acks)
  /\ UNCHANGED <<dec, data, committing, delivered, evicted>>

LoseAck ==
  /\ acks # <<>>
  /\ acks' = Tail(acks)
  /\ UNCHANGED <<enc, dec, data, committing, delivered, evicted>>

MoveData == LoseData \/ \E luck \in BOOLEAN : TakeData(luck)
MoveAck  == LoseAck \/ TakeAck

Next == BeginCommit \/ EndCommit \/ AppGenerateRepair \/ AskAck \/ MoveData \/ MoveAck

-----------------------------------------------------------------------------
(***************************************************************************)
(* A call that has begun ends, the application keeps asking for acks       *)
(* (transcoder.hh:208-224 does) and for repairs (the interface is there;   *)
(* without it the end of a stream has no repair), and no link keeps a      *)
(* packet for ever.  The network loses packets but not all of them: an ack *)
(* gets through now and then, and so does a repair that the decoder does   *)
(* not have, in a position to help (InvertMatrix!FailureNotFinal).  The    *)
(* last conjunct is the strong fairness of that step, which is possible    *)
(* exactly when the repair is first of the link.                           *)
(***************************************************************************)
FreshRepair ==
  data # <<>> /\ Head(data).kind = "repair" /\ Head(data).id \notin DOMAIN dec.m_repairs

Fairness ==
  /\ WF_vars(EndCommit)
  /\ WF_vars(AppGenerateRepair)
  /\ WF_vars(AskAck)
  /\ WF_vars(MoveData)
  /\ WF_vars(MoveAck)
  /\ SF_vars(TakeAck)
  /\ []<>FreshRepair => []<><<FreshRepair /\ TakeData(TRUE)>>_vars

Spec == Init /\ [][Next]_vars /\ Fairness

-----------------------------------------------------------------------------
(* A repair always has something to encode (assertion encoder.hh:327),     *)
(* although the ack of all the rest may come while commit_impl waits for   *)
(* the handler: that of the source it has just sent cannot, as the decoder *)
(* acks before it stores what it hands over (decoder.cc:253 and 327).      *)
EncodesSomething == enc.fault = "none"

(* No assertion of the decoder fails, no iterator is misused and no wrong  *)
(* data is handed over, although identifiers of repairs wrap around: one   *)
(* that comes again while the decoder stores a repair of that name is      *)
(* ignored (decoder.cc:66-70).                                             *)
NoFault == dec.fault = "none"

(* Every committed source is handed to the user in the end, unless the     *)
(* window has dropped it or, in order, one before it: a repair that cannot *)
(* be used is given up (decoder.cc:450-467), never one too many.           *)
GoneBy(s) == s \in evicted \/ (dec.m_in_order /\ \E e \in evicted : e < s)

EventuallyRecovered ==
  \A s \in SourceId : s < enc.m_current_source_id ~> (s \in delivered \/ GoneBy(s))

(* Every source leaves the window in the end, because the application's    *)
(* timer acks even when the decoder, stuck on missing sources, hands       *)
(* nothing over and so does not ack by itself (decoder.hh:299).            *)
WindowDrains == \A s \in SourceId : s \in enc.m_sources ~> s \notin enc.m_sources
=============================================================================
