---------------------------- MODULE EncoderProofs ----------------------------
(***************************************************************************)
(* Proofs, for any bounds and any arguments of the setters, that an        *)
(* encoder keeps its window, its rate and its limit as Encoder says.       *)
(***************************************************************************)
EXTENDS Encoder, EncoderLemmas

(***************************************************************************)
(* The inductive invariant: what Encoder states, and the two facts that    *)
(* the cadence of repairs and the limit of the window rest on.             *)
(***************************************************************************)

(* The members are in range, and the call is over.                         *)
ObjectInRange ==
  /\ enc \in Encoders
  /\ enc.sent = <<>>
  /\ enc.fault = "none"
  /\ enc.m_current_source_id <= MaxSource + 1
  /\ enc.m_current_repair_id <= MaxRepair + 1

(* Only what has been committed has been acknowledged or evicted.          *)
HistoriesInRange ==
  /\ acked \subseteq 0 .. (enc.m_current_source_id - 1)
  /\ evicted \subseteq 0 .. (enc.m_current_source_id - 1)
  /\ since \in Nat
  /\ settled \in BOOLEAN

(* A setter called before the first commit finds a fresh object.           *)
FreshAtFirst == enc.m_current_source_id = 0 => since = 0

(* Repairs are due when the count of commits is a multiple of the rate.    *)
SinceTheLastMultiple ==
  (settled /\ ~enc.m_adaptive) => since <= enc.m_current_source_id % enc.m_rate

IInv ==
  /\ ObjectInRange
  /\ HistoriesInRange
  /\ WindowExact
  /\ EvictsOldest
  /\ RateUsable
  /\ FreshAtFirst
  /\ SinceTheLastMultiple
  /\ LimitKept

LEMMA InitHolds == Init => IInv
<1> SUFFICES ASSUME Init
             PROVE  IInv
  OBVIOUS
<1>1. /\ enc = NewEncoder
      /\ acked = {} /\ evicted = {} /\ since = 0 /\ settled = TRUE
  BY DEF Init
<1>2. /\ enc \in Encoders
      /\ enc.sent = <<>> /\ enc.fault = "none"
      /\ enc.m_rate = 5
      /\ enc.m_window_size \in Nat
      /\ enc.m_current_source_id = 0 /\ enc.m_current_repair_id = 0
      /\ enc.m_sources = {}
  BY <1>1, NewEncoderIs, PacketsAssumption DEF NewEncoder, Unlimited
<1>3. 0 .. (0 - 1) = {} /\ 0 % 5 = 0
  OBVIOUS
<1>4. ObjectInRange /\ HistoriesInRange /\ FreshAtFirst
  BY <1>1, <1>2, PacketsAssumption DEF ObjectInRange, HistoriesInRange, FreshAtFirst
<1>5. WindowExact /\ EvictsOldest /\ RateUsable
  BY <1>1, <1>2, <1>3 DEF WindowExact, EvictsOldest, RateUsable
<1>6. SinceTheLastMultiple
  BY <1>1, <1>2, <1>3 DEF SinceTheLastMultiple
<1>7. LimitKept
  BY <1>2, FS_EmptySet DEF LimitKept, WindowLimit
<1>8. QED
  BY <1>4, <1>5, <1>6, <1>7 DEF IInv

(* What the invariant says, member by member.                              *)
LEMMA Facts ==
  ASSUME IInv
  PROVE  /\ enc \in Encoders
         /\ enc.sent = <<>> /\ enc.fault = "none"
         /\ enc.m_current_source_id \in Nat /\ enc.m_current_repair_id \in Nat
         /\ enc.m_rate \in Nat \ {0} /\ enc.m_window_size \in Nat \ {0}
         /\ enc.m_sources \in SUBSET Nat
         /\ Committed(enc)
         /\ acked \in SUBSET Nat /\ evicted \in SUBSET Nat
BY DEF IInv, ObjectInRange, HistoriesInRange, WindowExact, Committed, Encoders

(* A commit keeps the invariant.                                           *)
LEMMA AppCommitHolds ==
  ASSUME IInv, AppCommit
  PROVE  IInv'
<1> DEFINE c == Commit(enc)
           n == enc.m_current_source_id
<1>1. /\ Fits(c)
      /\ enc' = SettleEncoder(c)
      /\ evicted' = evicted \cup (enc.m_sources \ c.m_sources)
      /\ since' = IF HasRepair(c.sent) THEN 0 ELSE since + 1
      /\ acked' = acked /\ settled' = settled
  BY DEF AppCommit
<1>2. /\ SameSettings(enc, c)
      /\ c.m_sources = Kept(enc) \cup {n}
      /\ c.m_current_source_id = n + 1
      /\ c.fault = enc.fault
      /\ \/ c.m_current_repair_id = enc.m_current_repair_id
         \/ \E i \in DOMAIN c.sent : /\ c.sent[i].kind = "repair"
                                     /\ c.m_current_repair_id <= c.sent[i].id + 1
      /\ RepairDue(enc) => \E i \in DOMAIN c.sent : c.sent[i].kind = "repair"
      /\ SentByCall(enc, c)
  BY Facts, CommitIs
<1> HIDE DEF c
<1>3. c \in Encoders
  BY <1>2 DEF SameSettings
<1>4. /\ SameSettings(c, enc')
      /\ enc'.m_current_source_id = c.m_current_source_id
      /\ enc'.m_current_repair_id = c.m_current_repair_id
      /\ enc'.m_sources = c.m_sources
      /\ enc'.sent = <<>>
      /\ enc'.fault = c.fault
  BY <1>1, <1>3, SettleEncoderIs
<1>5. /\ enc' \in Encoders
      /\ enc'.m_rate = enc.m_rate
      /\ enc'.m_window_size = enc.m_window_size
      /\ enc'.m_adaptive = enc.m_adaptive
  BY <1>2, <1>4 DEF SameSettings
<1>6. n \in Nat /\ n + 1 \in Nat /\ n \notin enc.m_sources
  BY Facts DEF Committed
<1>7. ObjectInRange'
  <2>1. c.m_current_source_id <= MaxSource + 1
    BY <1>1 DEF Fits
  <2>2. c.m_current_repair_id <= MaxRepair + 1
    <3>1. CASE c.m_current_repair_id = enc.m_current_repair_id
      BY <3>1 DEF IInv, ObjectInRange
    <3>2. CASE \E i \in DOMAIN c.sent : /\ c.sent[i].kind = "repair"
                                        /\ c.m_current_repair_id <= c.sent[i].id + 1
      <4>1. PICK i \in DOMAIN c.sent : /\ c.sent[i].kind = "repair"
                                       /\ c.m_current_repair_id <= c.sent[i].id + 1
        BY <3>2
      <4>2. c.sent[i].id \in 0 .. MaxRepair
        BY <1>1, <4>1 DEF Fits, RepairId
      <4>3. c.m_current_repair_id \in Nat
        BY <1>3 DEF Encoders
      <4>4. QED
        BY <4>1, <4>2, <4>3, PacketsAssumption
    <3>3. QED
      BY <1>2, <3>1, <3>2
  <2>3. QED
    BY <1>2, <1>4, <1>5, <2>1, <2>2, Facts DEF ObjectInRange
<1>8. Kept(enc) \subseteq enc.m_sources /\ \A s \in enc.m_sources \ Kept(enc) : \A k \in Kept(enc) : s < k
  BY Facts, KeptIs
<1>9. evicted' = evicted \cup (enc.m_sources \ Kept(enc))
  BY <1>1, <1>2, <1>6
<1>10. /\ acked' \subseteq 0 .. (n - 1)
       /\ evicted' \subseteq 0 .. (n - 1)
  BY <1>1, <1>9, Facts DEF IInv, HistoriesInRange, Committed
<1>11. HistoriesInRange'
  <2>1. 0 .. (n - 1) \subseteq 0 .. ((n + 1) - 1)
    BY <1>6
  <2>2. since' \in Nat
    BY <1>1 DEF IInv, HistoriesInRange
  <2>3. QED
    BY <1>1, <1>2, <1>4, <1>10, <2>1, <2>2 DEF IInv, HistoriesInRange
<1>12. WindowExact'
  <2>1. Kept(enc) = (0 .. (n - 1)) \ (acked' \cup evicted')
    BY <1>1, <1>8, <1>9 DEF IInv, WindowExact
  <2>2. 0 .. ((n + 1) - 1) = (0 .. (n - 1)) \cup {n}
    BY <1>6
  <2>3. n \notin acked' \cup evicted'
    BY <1>6, <1>10
  <2>4. enc'.m_sources = (0 .. ((n + 1) - 1)) \ (acked' \cup evicted')
    BY <1>2, <1>4, <2>1, <2>2, <2>3
  <2>5. QED
    BY <1>2, <1>4, <2>4 DEF WindowExact
<1>13. EvictsOldest'
  <2>1. SUFFICES ASSUME NEW o \in evicted', NEW s \in enc'.m_sources
                 PROVE  o < s
    BY DEF EvictsOldest
  <2>2. CASE s = n
    BY <1>10, <1>6, <2>2
  <2>3. CASE s \in Kept(enc) /\ o \in evicted
    BY <1>8, <2>3 DEF IInv, EvictsOldest
  <2>4. CASE s \in Kept(enc) /\ o \in enc.m_sources \ Kept(enc)
    BY <1>8, <2>4
  <2>5. QED
    BY <1>2, <1>4, <1>9, <2>2, <2>3, <2>4
<1>14. RateUsable' /\ FreshAtFirst'
  BY <1>2, <1>4, <1>5, <1>6 DEF IInv, RateUsable, FreshAtFirst
<1>15. SinceTheLastMultiple'
  <2>1. SUFFICES ASSUME settled, ~enc.m_adaptive
                 PROVE  since' <= (n + 1) % enc.m_rate
    BY <1>1, <1>2, <1>4, <1>5 DEF SinceTheLastMultiple
  <2>2. since <= n % enc.m_rate /\ since \in Nat
    BY <2>1 DEF IInv, SinceTheLastMultiple, HistoriesInRange
  <2>3. (n + 1) % enc.m_rate \in 0 .. (n + 1)
    BY <1>6, Facts, RemainderIs
  <2>4. CASE HasRepair(c.sent)
    BY <1>1, <2>3, <2>4
  <2>5. CASE ~HasRepair(c.sent)
    <3>1. (n + 1) % enc.m_rate # 0
      BY <1>2, <2>5 DEF HasRepair, RepairDue
    <3>2. (n + 1) % enc.m_rate = (n % enc.m_rate) + 1
      BY <1>6, <3>1, Facts, NextRemainder
    <3>3. n % enc.m_rate \in 0 .. n
      BY <1>6, Facts, RemainderIs
    <3>4. QED
      BY <1>1, <2>2, <2>5, <3>2, <3>3
  <2>6. QED
    BY <2>4, <2>5
<1>16. LimitKept'
  <2>1. SUFFICES ASSUME settled
                 PROVE  Cardinality(Kept(enc) \cup {n}) <= enc.m_window_size
    BY <1>1, <1>2, <1>4, <1>5 DEF LimitKept, WindowLimit
  <2>2. Cardinality(Kept(enc)) + 1 <= enc.m_window_size
    BY <2>1, Facts, KeptIs DEF IInv, LimitKept, WindowLimit
  <2>3. IsFiniteSet(Kept(enc))
    BY <1>8, Facts, CommittedIsFinite, FS_Subset
  <2>4. n \notin Kept(enc)
    BY <1>6, <1>8
  <2>5. QED
    BY <2>2, <2>3, <2>4, FS_AddElement
<1>17. QED
  BY <1>7, <1>11, <1>12, <1>13, <1>14, <1>15, <1>16 DEF IInv

(* A repair that the application asks for keeps the invariant.             *)
LEMMA AppGenerateRepairHolds ==
  ASSUME IInv, AppGenerateRepair
  PROVE  IInv'
<1> DEFINE c == GenerateRepair(enc)
           p == RepairPacket(enc.m_current_repair_id, enc.m_sources)
<1>1. /\ enc.m_sources # {}
      /\ Fits(c)
      /\ enc' = SettleEncoder(c)
      /\ since' = 0
      /\ acked' = acked /\ evicted' = evicted /\ settled' = settled
  BY DEF AppGenerateRepair
<1>2. /\ SameSettings(enc, c)
      /\ c.sent = Append(enc.sent, p)
      /\ c.m_current_source_id = enc.m_current_source_id
      /\ c.m_current_repair_id <= enc.m_current_repair_id + 1
      /\ c.m_sources = enc.m_sources
      /\ c.fault = enc.fault
  BY <1>1, Facts, GenerateRepairIs
<1> HIDE DEF c
<1>3. c \in Encoders
  BY <1>2 DEF SameSettings
<1>4. /\ SameSettings(c, enc')
      /\ enc'.m_current_source_id = enc.m_current_source_id
      /\ enc'.m_current_repair_id = c.m_current_repair_id
      /\ enc'.m_sources = enc.m_sources
      /\ enc'.sent = <<>>
      /\ enc'.fault = enc.fault
  BY <1>1, <1>2, <1>3, SettleEncoderIs
<1>5. /\ enc' \in Encoders
      /\ enc'.m_rate = enc.m_rate
      /\ enc'.m_window_size = enc.m_window_size
      /\ enc'.m_adaptive = enc.m_adaptive
  BY <1>2, <1>4 DEF SameSettings
<1>6. c.m_current_repair_id <= MaxRepair + 1
  <2>1. p \in Sendable /\ p.kind = "repair" /\ p.id = enc.m_current_repair_id
    <3>1. enc.m_current_repair_id \in Nat /\ enc.m_sources \in SUBSET Nat
      BY Facts
    <3>2. p \in Sendable
      BY <3>1 DEF Sendable
    <3>3. QED
      BY <3>2 DEF RepairPacket
  <2>2. /\ DOMAIN c.sent = DOMAIN enc.sent \cup {Len(enc.sent) + 1}
        /\ c.sent[Len(enc.sent) + 1] = p
    <3>1. enc.sent \in Seq(Sendable)
      BY Facts DEF Encoders
    <3> HIDE DEF p
    <3>2. QED
      BY <1>2, <2>1, <3>1, AppendIs
  <2>3. enc.m_current_repair_id \in 0 .. MaxRepair
    BY <1>1, <2>1, <2>2 DEF Fits, RepairId
  <2>4. c.m_current_repair_id \in Nat
    BY <1>3 DEF Encoders
  <2>5. QED
    BY <1>2, <2>3, <2>4, PacketsAssumption
<1>7. ObjectInRange' /\ HistoriesInRange'
  BY <1>1, <1>4, <1>5, <1>6, Facts DEF IInv, ObjectInRange, HistoriesInRange
<1>8. WindowExact' /\ EvictsOldest' /\ RateUsable'
  BY <1>1, <1>4, <1>5 DEF IInv, WindowExact, EvictsOldest, RateUsable
<1>9. FreshAtFirst' /\ SinceTheLastMultiple'
  <2>1. enc.m_current_source_id % enc.m_rate \in 0 .. enc.m_current_source_id
    BY Facts, RemainderIs
  <2>2. QED
    BY <1>1, <1>4, <1>5, <2>1 DEF FreshAtFirst, SinceTheLastMultiple
<1>10. LimitKept'
  BY <1>1, <1>4, <1>5 DEF IInv, LimitKept, WindowLimit
<1>11. QED
  BY <1>7, <1>8, <1>9, <1>10 DEF IInv

(* An ack keeps the invariant, whatever the counts it carries.             *)
LEMMA ReceiveAckHolds ==
  ASSUME IInv, ReceiveAck
  PROVE  IInv'
<1>1. PICK ids \in SUBSET (0 .. (enc.m_current_source_id - 1)), nb \in 0 .. (2 ^ CounterWidth - 1) :
        /\ enc' = Notify(enc, AckPacket(ids, nb))
        /\ acked' = acked \cup ids
        /\ evicted' = evicted /\ since' = since /\ settled' = settled
  BY DEF ReceiveAck
<1>2. nb \in Nat
  BY CountsIs DEF Counts
<1>3. /\ enc' \in Encoders
      /\ enc'.m_rate = enc.m_rate \/ (enc.m_adaptive /\ enc'.m_rate \in 1 .. 50)
      /\ enc'.m_window_size = enc.m_window_size
      /\ enc'.m_adaptive = enc.m_adaptive
      /\ enc'.m_current_source_id = enc.m_current_source_id
      /\ enc'.m_current_repair_id = enc.m_current_repair_id
      /\ enc'.m_sources = enc.m_sources \ ids
      /\ enc'.sent = enc.sent
      /\ enc'.fault = enc.fault
  BY <1>1, <1>2, Facts, NotifyIs
<1>4. ObjectInRange' /\ HistoriesInRange'
  BY <1>1, <1>3 DEF IInv, ObjectInRange, HistoriesInRange
<1>5. WindowExact' /\ EvictsOldest'
  BY <1>1, <1>3 DEF IInv, WindowExact, EvictsOldest
<1>6. RateUsable'
  BY <1>3 DEF IInv, RateUsable
<1>7. FreshAtFirst' /\ SinceTheLastMultiple'
  BY <1>1, <1>3 DEF IInv, FreshAtFirst, SinceTheLastMultiple
<1>8. LimitKept'
  <2>1. SUFFICES ASSUME settled
                 PROVE  Cardinality(enc.m_sources \ ids) <= enc.m_window_size
    BY <1>1, <1>3 DEF LimitKept, WindowLimit
  <2>2. Cardinality(enc.m_sources) <= enc.m_window_size
    BY <2>1 DEF IInv, LimitKept, WindowLimit
  <2>3. IsFiniteSet(enc.m_sources) /\ Cardinality(enc.m_sources) \in Nat
    BY Facts, CommittedIsFinite
  <2>4. /\ IsFiniteSet(enc.m_sources \ ids)
        /\ Cardinality(enc.m_sources \ ids) <= Cardinality(enc.m_sources)
    BY <2>3, FS_Subset
  <2>5. Cardinality(enc.m_sources \ ids) \in Nat
    BY <2>4, FS_CardinalityType
  <2>6. enc.m_window_size \in Nat
    BY Facts
  <2>7. QED
    BY <2>2, <2>3, <2>4, <2>5, <2>6
<1>9. QED
  BY <1>4, <1>5, <1>6, <1>7, <1>8 DEF IInv

(* A setter keeps the invariant: it changes at most the rate, the window   *)
(* size, the type of code or the adaptive mode, to what it accepts.        *)
LEMMA ConfigureHolds ==
  ASSUME IInv, NEW e \in Encoders, Configure(e),
         e.m_rate = enc.m_rate \/ e.m_rate \in Rates,
         e.m_current_source_id = enc.m_current_source_id,
         e.m_current_repair_id = enc.m_current_repair_id,
         e.m_sources = enc.m_sources, e.sent = enc.sent, e.fault = enc.fault
  PROVE  IInv'
<1>1. /\ enc' = e
      /\ settled' = (settled /\ enc.m_current_source_id = 0)
      /\ acked' = acked /\ evicted' = evicted /\ since' = since
  BY DEF Configure
<1>2. ObjectInRange' /\ HistoriesInRange'
  BY <1>1 DEF IInv, ObjectInRange, HistoriesInRange
<1>3. WindowExact' /\ EvictsOldest' /\ FreshAtFirst'
  BY <1>1 DEF IInv, WindowExact, EvictsOldest, FreshAtFirst
<1>4. RateUsable'
  <2>1. e.m_rate \in Nat \ {0}
    BY DEF Encoders
  <2>2. QED
    BY <1>1, <2>1, ApplicationAssumption DEF IInv, RateUsable
<1>5. SinceTheLastMultiple'
  <2>1. SUFFICES ASSUME enc.m_current_source_id = 0
                 PROVE  since <= 0 % e.m_rate
    BY <1>1 DEF SinceTheLastMultiple
  <2>2. since = 0
    BY <2>1 DEF IInv, FreshAtFirst
  <2>3. 0 % e.m_rate \in 0 .. 0
    BY RemainderIs DEF Encoders
  <2>4. QED
    BY <2>2, <2>3
<1>6. LimitKept'
  <2>1. SUFFICES ASSUME enc.m_current_source_id = 0
                 PROVE  Cardinality(enc.m_sources) <= e.m_window_size
    BY <1>1 DEF LimitKept, WindowLimit
  <2>2. enc.m_sources = {}
    BY <2>1, Facts DEF Committed
  <2>3. e.m_window_size \in Nat
    BY DEF Encoders
  <2>4. QED
    BY <2>2, <2>3, FS_EmptySet
<1>7. QED
  BY <1>2, <1>3, <1>4, <1>5, <1>6 DEF IInv

LEMMA SetRateHolds ==
  ASSUME IInv, SetRate
  PROVE  IInv'
<1>1. PICK n \in Rates : Configure([enc EXCEPT !.m_rate = n])
  BY DEF SetRate
<1> DEFINE e == [enc EXCEPT !.m_rate = n]
<1>2. n \in Nat \ {0}
  BY ApplicationAssumption
<1>3. /\ e \in Encoders /\ e.m_rate = n
      /\ e.m_current_source_id = enc.m_current_source_id
      /\ e.m_current_repair_id = enc.m_current_repair_id
      /\ e.m_sources = enc.m_sources /\ e.sent = enc.sent /\ e.fault = enc.fault
  BY <1>2, Facts DEF Encoders
<1> HIDE DEF e
<1>4. Configure(e)
  BY <1>1 DEF e
<1>5. QED
  BY <1>3, <1>4, ConfigureHolds

LEMMA SetWindowSizeHolds ==
  ASSUME IInv, SetWindowSize
  PROVE  IInv'
<1>1. PICK n \in WindowSizes : Configure([enc EXCEPT !.m_window_size = n])
  BY DEF SetWindowSize
<1> DEFINE e == [enc EXCEPT !.m_window_size = n]
<1>2. n \in Nat \ {0}
  BY ApplicationAssumption
<1>3. /\ e \in Encoders /\ e.m_rate = enc.m_rate
      /\ e.m_current_source_id = enc.m_current_source_id
      /\ e.m_current_repair_id = enc.m_current_repair_id
      /\ e.m_sources = enc.m_sources /\ e.sent = enc.sent /\ e.fault = enc.fault
  BY <1>2, Facts DEF Encoders
<1> HIDE DEF e
<1>4. Configure(e)
  BY <1>1 DEF e
<1>5. QED
  BY <1>3, <1>4, ConfigureHolds

LEMMA SetCodeTypeHolds ==
  ASSUME IInv, SetCodeType
  PROVE  IInv'
<1>1. PICK b \in BOOLEAN : Configure([enc EXCEPT !.systematic = b])
  BY DEF SetCodeType
<1> DEFINE e == [enc EXCEPT !.systematic = b]
<1>2. /\ e \in Encoders /\ e.m_rate = enc.m_rate
      /\ e.m_current_source_id = enc.m_current_source_id
      /\ e.m_current_repair_id = enc.m_current_repair_id
      /\ e.m_sources = enc.m_sources /\ e.sent = enc.sent /\ e.fault = enc.fault
  BY Facts DEF Encoders
<1> HIDE DEF e
<1>3. Configure(e)
  BY <1>1 DEF e
<1>4. QED
  BY <1>2, <1>3, ConfigureHolds

LEMMA SetAdaptiveHolds ==
  ASSUME IInv, SetAdaptive
  PROVE  IInv'
<1>1. PICK b \in BOOLEAN : Configure([enc EXCEPT !.m_adaptive = b])
  BY DEF SetAdaptive
<1> DEFINE e == [enc EXCEPT !.m_adaptive = b]
<1>2. /\ e \in Encoders /\ e.m_rate = enc.m_rate
      /\ e.m_current_source_id = enc.m_current_source_id
      /\ e.m_current_repair_id = enc.m_current_repair_id
      /\ e.m_sources = enc.m_sources /\ e.sent = enc.sent /\ e.fault = enc.fault
  BY Facts DEF Encoders
<1> HIDE DEF e
<1>3. Configure(e)
  BY <1>1 DEF e
<1>4. QED
  BY <1>2, <1>3, ConfigureHolds

LEMMA StepHolds == IInv /\ [Next]_vars => IInv'
<1> SUFFICES ASSUME IInv, [Next]_vars
             PROVE  IInv'
  OBVIOUS
<1>1. CASE AppCommit
  BY <1>1, AppCommitHolds
<1>2. CASE AppGenerateRepair
  BY <1>2, AppGenerateRepairHolds
<1>3. CASE ReceiveAck
  BY <1>3, ReceiveAckHolds
<1>4. CASE SetRate
  BY <1>4, SetRateHolds
<1>5. CASE SetWindowSize
  BY <1>5, SetWindowSizeHolds
<1>6. CASE SetCodeType
  BY <1>6, SetCodeTypeHolds
<1>7. CASE SetAdaptive
  BY <1>7, SetAdaptiveHolds
<1>8. CASE UNCHANGED vars
  BY <1>8 DEF vars, IInv, ObjectInRange, HistoriesInRange, WindowExact, EvictsOldest,
              RateUsable, FreshAtFirst, SinceTheLastMultiple, LimitKept, WindowLimit
<1>9. QED
  BY <1>1, <1>2, <1>3, <1>4, <1>5, <1>6, <1>7, <1>8 DEF Next

-----------------------------------------------------------------------------
(* An encoder that commits, repairs, is configured and hears any acks      *)
(* whatever keeps all that IInv names.                                     *)
THEOREM EncoderSoundness == Spec => []IInv
BY InitHolds, StepHolds, PTL DEF Spec

(* The members of the encoder and the histories stay in range: no call     *)
(* leaves packets unsent or runs mk_repair on an empty window              *)
(* (encoder.hh:252-300).                                                   *)
THEOREM EncoderTypeCorrect == Spec => []TypeOK
<1>1. ASSUME IInv
      PROVE  TypeOK
  <2>1. 0 .. (enc.m_current_source_id - 1) \subseteq SourceId
    BY <1>1, Facts, PacketsAssumption DEF IInv, ObjectInRange, SourceId
  <2>2. acked \subseteq SourceId /\ evicted \subseteq SourceId /\ enc.m_sources \subseteq SourceId
    BY <1>1, <2>1, Facts DEF IInv, HistoriesInRange, Committed
  <2>3. /\ enc.m_current_source_id \in 0 .. (MaxSource + 1)
        /\ enc.m_current_repair_id \in 0 .. (MaxRepair + 1)
    BY <1>1, Facts, PacketsAssumption DEF IInv, ObjectInRange
  <2>4. enc.m_nb_sent_packets \in 0 .. (2 ^ CounterWidth - 1)
    BY <1>1, Facts DEF Encoders, Counts
  <2>5. enc.systematic \in BOOLEAN /\ enc.m_adaptive \in BOOLEAN
    BY <1>1, Facts DEF Encoders
  <2>6. QED
    BY <1>1, <2>2, <2>3, <2>4, <2>5, Facts DEF TypeOK, IInv, HistoriesInRange
<1>2. QED
  BY <1>1, EncoderSoundness, PTL

(* The window is exactly what is committed and neither acknowledged nor    *)
(* evicted (source_list.hh:32-60, encoder.hh:258-264).                     *)
THEOREM WindowAlwaysExact == Spec => []WindowExact
<1>1. IInv => WindowExact
  BY DEF IInv
<1>2. QED
  BY <1>1, EncoderSoundness, PTL

(* What the window dropped is older than what it still repairs             *)
(* (source_list.hh:86-92).                                                 *)
THEOREM OldestAlwaysEvicted == Spec => []EvictsOldest
<1>1. IInv => EvictsOldest
  BY DEF IInv
<1>2. QED
  BY <1>1, EncoderSoundness, PTL

(* The rate never becomes 0, whatever the acks count (encoder.hh:279).     *)
THEOREM RateAlwaysUsable == Spec => []RateUsable
<1>1. IInv => RateUsable
  BY DEF IInv
<1>2. QED
  BY <1>1, EncoderSoundness, PTL

(* At a rate set before the first commit, never as many sources without a  *)
(* repair (encoder.hh:196).                                                *)
THEOREM RepairsOnTime == Spec => []RepairCadence
<1>1. ASSUME IInv
      PROVE  RepairCadence
  <2>1. enc.m_current_source_id % enc.m_rate \in 0 .. (enc.m_rate - 1)
    BY <1>1, Facts
  <2>2. QED
    BY <1>1, <2>1, Facts DEF IInv, RepairCadence, SinceTheLastMultiple, HistoriesInRange
<1>2. QED
  BY <1>1, EncoderSoundness, PTL

(* A limit set before the first commit is kept, although commit_impl only  *)
(* compares for equality (encoder.hh:258).                                 *)
THEOREM LimitAlwaysKept == Spec => []LimitKept
<1>1. IInv => LimitKept
  BY DEF IInv
<1>2. QED
  BY <1>1, EncoderSoundness, PTL
=============================================================================
