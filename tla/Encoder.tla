------------------------------ MODULE Encoder ------------------------------
(***************************************************************************)
(* An encoder alone: an application that commits data, asks for repairs    *)
(* and sets parameters, and acks that name any committed sources, whatever *)
(* the decoder, the network and their order made of them.                  *)
(***************************************************************************)
EXTENDS EncoderObject

CONSTANTS
  Rates,         \* arguments the application gives to set_rate
  WindowSizes    \* arguments the application gives to set_window_size

(* Both setters assert that their argument is positive (encoder.hh:202 and *)
(* 221).                                                                   *)
ASSUME ApplicationAssumption ==
  /\ Rates \subseteq Nat \ {0}
  /\ WindowSizes \subseteq Nat \ {0}

VARIABLES
  enc,      \* the encoder object
  acked,    \* history: the sources named by a received ack
  evicted,  \* history: the sources the window dropped to make room
  since,    \* history: the sources committed since the last repair
  settled   \* history: no setter has been called after the first commit

vars == <<enc, acked, evicted, since, settled>>

Init ==
  /\ enc = NewEncoder
  /\ acked = {}
  /\ evicted = {}
  /\ since = 0
  /\ settled = TRUE

HasRepair(sent) == \E i \in DOMAIN sent : sent[i].kind = "repair"

AppCommit ==
  LET e == Commit(enc)
  IN  /\ Fits(e)
      /\ enc' = SettleEncoder(e)
      /\ evicted' = evicted \cup (enc.m_sources \ e.m_sources)
      /\ since' = IF HasRepair(e.sent) THEN 0 ELSE since + 1
      /\ UNCHANGED <<acked, settled>>

(* The application asks for a repair only when there is something to       *)
(* repair: mk_repair asserts it.                                           *)
AppGenerateRepair ==
  LET e == GenerateRepair(enc)
  IN  /\ enc.m_sources # {}
      /\ Fits(e)
      /\ enc' = SettleEncoder(e)
      /\ since' = 0
      /\ UNCHANGED <<acked, evicted, settled>>

ReceiveAck ==
  \E ids \in SUBSET (0 .. (enc.m_current_source_id - 1)), nb \in 0 .. (2 ^ CounterWidth - 1) :
    /\ enc' = Notify(enc, AckPacket(ids, nb))
    /\ acked' = acked \cup ids
    /\ UNCHANGED <<evicted, since, settled>>

Configure(e) ==
  /\ enc' = e
  /\ settled' = (settled /\ enc.m_current_source_id = 0)
  /\ UNCHANGED <<acked, evicted, since>>

SetRate       == \E n \in Rates : Configure([enc EXCEPT !.m_rate = n])
SetWindowSize == \E n \in WindowSizes : Configure([enc EXCEPT !.m_window_size = n])
SetCodeType   == \E b \in BOOLEAN : Configure([enc EXCEPT !.systematic = b])
SetAdaptive   == \E b \in BOOLEAN : Configure([enc EXCEPT !.m_adaptive = b])

Next ==
  \/ AppCommit
  \/ AppGenerateRepair
  \/ ReceiveAck
  \/ SetRate
  \/ SetWindowSize
  \/ SetCodeType
  \/ SetAdaptive

Spec == Init /\ [][Next]_vars

-----------------------------------------------------------------------------
(* Type of the object and of the histories.                                *)
TypeOK ==
  /\ enc.systematic \in BOOLEAN
  /\ enc.m_rate \in Nat
  /\ enc.m_window_size \in Nat \ {0}
  /\ enc.m_adaptive \in BOOLEAN
  /\ enc.m_current_source_id \in 0 .. (MaxSource + 1)
  /\ enc.m_current_repair_id \in 0 .. (MaxRepair + 1)
  /\ enc.m_sources \subseteq SourceId
  /\ enc.m_nb_sent_packets \in 0 .. (2 ^ CounterWidth - 1)
  /\ enc.sent = <<>>
  /\ enc.fault = "none"
  /\ acked \subseteq SourceId
  /\ evicted \subseteq SourceId
  /\ since \in Nat
  /\ settled \in BOOLEAN

(* The window is exactly what has been committed and neither acknowledged  *)
(* nor evicted: a source is never dropped for another reason, nor kept     *)
(* after its ack (source_list.hh:32-60, encoder.hh:258-264).               *)
WindowExact ==
  enc.m_sources = (0 .. (enc.m_current_source_id - 1)) \ (acked \cup evicted)

(* The window drops its oldest sources: whatever it dropped is older than  *)
(* whatever it still repairs, acks having made holes in between            *)
(* (source_list.hh:86-92).  The decoder's drop_outdated relies on it.      *)
EvictsOldest == \A e \in evicted, s \in enc.m_sources : e < s

(* commit_impl divides by m_rate (encoder.hh:279), which the adaptive mode *)
(* computes from counters of two machines: it must never be 0, and no ack  *)
(* may silence repairs for longer than every 50 sources.                   *)
RateUsable ==
  enc.m_rate >= 1 /\ (enc.m_rate <= 50 \/ enc.m_rate \in Rates)

(* "Set how many sources are sent before a repair is generated"            *)
(* (encoder.hh:196): at a constant rate, set before the first commit,      *)
(* never as many without a repair, whatever the acks in between.           *)
RepairCadence == (settled /\ ~enc.m_adaptive) => since < enc.m_rate

WindowLimit == Cardinality(enc.m_sources) <= enc.m_window_size

(* The limit is kept when it is set before the first commit, although      *)
(* commit_impl only compares for equality (encoder.hh:258) and acks empty  *)
(* the window at any time.                                                 *)
LimitKept == settled => WindowLimit

(* "Set the maximal permitted size of the encoder's window"                *)
(* (encoder.hh:215): whenever the limit is set, no commit after that makes *)
(* the window grow past it.  A window that is larger when the limit is set *)
(* may stay so; the code compares for equality and drops nothing from it   *)
(* (encoder.hh:258).                                                       *)
NeverGrowsPastLimit ==
  [][Cardinality(enc'.m_sources) > Cardinality(enc.m_sources) => WindowLimit']_vars
=============================================================================
