---------------------------- MODULE EncoderLemmas ----------------------------
(***************************************************************************)
(* What the methods of an encoder object return, for the proofs about an   *)
(* encoder alone and about an encoder joined to a decoder.                 *)
(***************************************************************************)
EXTENDS EncoderObject, SetLemmas, TLAPS

-----------------------------------------------------------------------------
(***************************************************************************)
(* Numbers.                                                                *)
(***************************************************************************)

(* Counting on, a remainder grows by one or starts again.                  *)
LEMMA NextRemainder ==
  ASSUME NEW n \in Nat, NEW k \in Nat \ {0}
  PROVE  (n + 1) % k = 0 \/ (n + 1) % k = (n % k) + 1
<1> DEFINE q == n \div k
           r == n % k
<1>1. q \in Int /\ r \in 0 .. (k - 1) /\ n = k * q + r
  OBVIOUS
<1> HIDE DEF q, r
<1>2. CASE r + 1 < k
  <2>1. n + 1 = k * q + (r + 1) /\ r + 1 \in 0 .. (k - 1)
    BY <1>1, <1>2
  <2>2. (n + 1) % k = r + 1
    BY <1>1, <2>1
  <2>3. QED
    BY <2>2 DEF r
<1>3. CASE r + 1 = k
  <2>1. n + 1 = k * (q + 1)
    BY <1>1, <1>3
  <2>2. (n + 1) % k = 0
    BY <1>1, <2>1
  <2>3. QED
    BY <2>2
<1>4. QED
  BY <1>1, <1>2, <1>3

LEMMA RemainderIs ==
  ASSUME NEW n \in Nat, NEW k \in Nat \ {0}
  PROVE  (n % k) \in 0 .. n
<1> DEFINE q == n \div k
           r == n % k
<1>1. q \in Nat /\ r \in 0 .. (k - 1) /\ n = k * q + r
  OBVIOUS
<1> HIDE DEF q, r
<1>2. k * q \in Nat
  BY <1>1
<1>3. r \in 0 .. n
  BY <1>1, <1>2
<1>4. QED
  BY <1>3 DEF r

(* The rate for a loss is a positive divisor, and at most 50.              *)
LEMMA RateForLossIs ==
  ASSUME NEW lost \in Int, NEW sent \in Nat \ {0}
  PROVE  RateForLoss(lost, sent) \in 1 .. 50
<1>1. CASE 100 * lost < sent
  BY <1>1 DEF RateForLoss
<1>2. CASE 100 * lost >= sent
  <2>1. lost \in Nat
    BY <1>2
  <2>2. (sent + 2 * lost - 1) \div (2 * lost) \in 1 .. 50
    BY <1>2, <2>1
  <2>3. QED
    BY <1>2, <2>2 DEF RateForLoss
<1>3. QED
  BY <1>1, <1>2

(* Appending to a sequence.                                                *)
LEMMA AppendIs ==
  ASSUME NEW S, NEW s \in Seq(S), NEW p \in S
  PROVE  /\ Append(s, p) \in Seq(S)
         /\ DOMAIN Append(s, p) = DOMAIN s \cup {Len(s) + 1}
         /\ \A i \in DOMAIN s : Append(s, p)[i] = s[i]
         /\ Append(s, p)[Len(s) + 1] = p
         /\ Len(Append(s, p)) = Len(s) + 1
OBVIOUS

-----------------------------------------------------------------------------
(***************************************************************************)
(* Objects.                                                                *)
(***************************************************************************)

(* What the packet handler may be given.                                   *)
Sendable ==
       {SourcePacket(s) : s \in Nat}
  \cup {RepairPacket(r, ids) : r \in Nat, ids \in SUBSET Nat}

(* The values of the counter of sent packets.                              *)
Counts == 0 .. (2 ^ CounterWidth - 1)

(* The values of the counter of repairs.                                   *)
RepairIds == 0 .. (2 ^ RepairWidth - 1)

LEMMA CountsIs ==
  /\ 0 \in Counts
  /\ \A n \in Counts : n \in Nat /\ Increment(n) \in Counts
<1>1. 2 ^ CounterWidth \in Nat \ {0}
  BY EncoderAssumption
<1>2. QED
  BY <1>1 DEF Counts, Increment

(* The objects whose members are in range, whatever the bounds.            *)
Encoders ==
  [ systematic          : BOOLEAN,
    m_rate              : Nat \ {0},
    m_window_size       : Nat \ {0},
    m_adaptive          : BOOLEAN,
    m_current_source_id : Nat,
    m_current_repair_id : Nat,
    m_sources           : SUBSET Nat,
    m_nb_sent_packets   : Counts,
    sent                : Seq(Sendable),
    fault               : {"none", "empty_source_list"} ]

(* f differs from e by what it has sent and by its counters, at most.      *)
SameSettings(e, f) ==
  /\ f \in Encoders
  /\ f.systematic = e.systematic
  /\ f.m_rate = e.m_rate
  /\ f.m_window_size = e.m_window_size
  /\ f.m_adaptive = e.m_adaptive

LEMMA NewEncoderIs == NewEncoder \in Encoders
<1>1. <<>> \in Seq(Sendable)
  OBVIOUS
<1>2. QED
  BY <1>1, CountsIs, PacketsAssumption DEF NewEncoder, Encoders, Unlimited

LEMMA SendIs ==
  ASSUME NEW e \in Encoders, NEW p \in Sendable
  PROVE  /\ SameSettings(e, Send(e, p))
         /\ Send(e, p).sent = Append(e.sent, p)
         /\ Send(e, p).m_current_source_id = e.m_current_source_id
         /\ Send(e, p).m_current_repair_id = e.m_current_repair_id
         /\ Send(e, p).m_sources = e.m_sources
         /\ Send(e, p).fault = e.fault
<1>1. Append(e.sent, p) \in Seq(Sendable)
  BY AppendIs DEF Encoders
<1>2. Increment(e.m_nb_sent_packets) \in Counts
  BY CountsIs DEF Encoders
<1>3. QED
  BY <1>1, <1>2 DEF Send, SameSettings, Encoders

(* A repair encodes the whole window.                                      *)
LEMMA GenerateRepairIs ==
  ASSUME NEW e \in Encoders, e.m_sources # {}
  PROVE  /\ SameSettings(e, GenerateRepair(e))
         /\ GenerateRepair(e).sent
              = Append(e.sent, RepairPacket(e.m_current_repair_id, e.m_sources))
         /\ GenerateRepair(e).m_current_source_id = e.m_current_source_id
         /\ GenerateRepair(e).m_current_repair_id <= e.m_current_repair_id + 1
         /\ GenerateRepair(e).m_current_repair_id \in RepairIds
         /\ GenerateRepair(e).m_sources = e.m_sources
         /\ GenerateRepair(e).fault = e.fault
<1> DEFINE p == RepairPacket(e.m_current_repair_id, e.m_sources)
           f == Send(e, p)
<1>1. p \in Sendable
  BY DEF Sendable, Encoders
<1>2. /\ SameSettings(e, f)
      /\ f.sent = Append(e.sent, p)
      /\ f.m_current_source_id = e.m_current_source_id
      /\ f.m_current_repair_id = e.m_current_repair_id
      /\ f.m_sources = e.m_sources
      /\ f.fault = e.fault
  BY <1>1, SendIs
<1>3. /\ (f.m_current_repair_id + 1) % 2 ^ RepairWidth \in 0 .. (f.m_current_repair_id + 1)
      /\ (f.m_current_repair_id + 1) % 2 ^ RepairWidth \in RepairIds
  <2>1. 2 ^ RepairWidth \in Nat \ {0} /\ f.m_current_repair_id \in Nat
    BY <1>2, EncoderAssumption DEF SameSettings, Encoders
  <2>2. QED
    BY <2>1, RemainderIs DEF RepairIds
<1>4. GenerateRepair(e) = [f EXCEPT !.m_current_repair_id = (@ + 1) % 2 ^ RepairWidth]
  BY DEF GenerateRepair, Encode
<1> DEFINE next == (f.m_current_repair_id + 1) % 2 ^ RepairWidth
           g    == GenerateRepair(e)
<1>5. f \in Encoders /\ e.m_current_repair_id \in Nat
  BY <1>2 DEF SameSettings, Encoders
<1>6. next \in Nat /\ next <= e.m_current_repair_id + 1 /\ next \in RepairIds
  BY <1>2, <1>3, <1>5
<1>7. g = [f EXCEPT !.m_current_repair_id = next]
  BY <1>4
<1> HIDE DEF f, next, g
<1>8. g \in Encoders /\ g.m_current_repair_id = next
  BY <1>5, <1>6, <1>7 DEF Encoders
<1>9. /\ SameSettings(f, g)
      /\ g.sent = f.sent
      /\ g.m_current_source_id = f.m_current_source_id
      /\ g.m_sources = f.m_sources
      /\ g.fault = f.fault
  BY <1>5, <1>7, <1>8 DEF SameSettings, Encoders
<1>10. SameSettings(e, g)
  BY <1>2, <1>9 DEF SameSettings
<1>11. QED
  BY <1>2, <1>6, <1>8, <1>9, <1>10 DEF g, p

-----------------------------------------------------------------------------
(***************************************************************************)
(* A commit.                                                               *)
(***************************************************************************)

(* The window is made of what has been committed.                          *)
Committed(e) == e.m_sources \subseteq 0 .. (e.m_current_source_id - 1)

LEMMA CommittedIsFinite ==
  ASSUME NEW e \in Encoders, Committed(e)
  PROVE  IsFiniteSet(e.m_sources) /\ Cardinality(e.m_sources) \in Nat
<1>1. e.m_current_source_id - 1 \in Int
  BY DEF Encoders
<1>2. QED
  BY <1>1, BoundedIsFinite DEF Committed

(* What stays in the window of a commit, before its source enters.         *)
Kept(e) == IF WindowFull(e) THEN e.m_sources \ {Min(e.m_sources)} ELSE e.m_sources

(* The window loses its oldest source or nothing, and does so when full.   *)
LEMMA KeptIs ==
  ASSUME NEW e \in Encoders, Committed(e)
  PROVE  /\ Kept(e) \subseteq e.m_sources
         /\ \A s \in e.m_sources \ Kept(e) : \A k \in Kept(e) : s < k
         /\ Cardinality(e.m_sources) <= e.m_window_size
              => Cardinality(Kept(e)) + 1 <= e.m_window_size
<1>1. /\ IsFiniteSet(e.m_sources)
      /\ Cardinality(e.m_sources) \in Nat
      /\ e.m_sources \in SUBSET Nat
      /\ e.m_window_size \in Nat \ {0}
  BY CommittedIsFinite DEF Encoders
<1>2. CASE WindowFull(e)
  <2>1. e.m_sources # {}
    BY <1>1, <1>2, FS_EmptySet DEF WindowFull
  <2>2. Min(e.m_sources) \in e.m_sources /\ \A m \in e.m_sources : Min(e.m_sources) <= m
    BY <1>1, <2>1, MinIs
  <2>3. Cardinality(Kept(e)) = Cardinality(e.m_sources) - 1
    BY <1>1, <1>2, <2>2, FS_RemoveElement DEF Kept
  <2>4. \A s \in e.m_sources \ Kept(e) : \A k \in Kept(e) : s < k
    <3>1. TAKE s \in e.m_sources \ Kept(e)
    <3>2. TAKE k \in Kept(e)
    <3>3. s = Min(e.m_sources) /\ k \in e.m_sources /\ k # Min(e.m_sources)
      BY <1>2 DEF Kept
    <3>4. QED
      BY <1>1, <2>2, <3>3
  <2>5. QED
    BY <1>1, <1>2, <2>3, <2>4 DEF WindowFull, Kept
<1>3. CASE ~WindowFull(e)
  BY <1>1, <1>3 DEF WindowFull, Kept
<1>4. QED
  BY <1>2, <1>3

LEMMA EmplaceIs ==
  ASSUME NEW e \in Encoders, Committed(e)
  PROVE  /\ SameSettings(e, Emplace(e))
         /\ Emplace(e).sent = e.sent
         /\ Emplace(e).m_current_source_id = e.m_current_source_id
         /\ Emplace(e).m_current_repair_id = e.m_current_repair_id
         /\ Emplace(e).m_sources = Kept(e) \cup {e.m_current_source_id}
         /\ Emplace(e).fault = e.fault
<1>1. Kept(e) \in SUBSET Nat
  BY DEF Kept, Encoders
<1>2. CASE WindowFull(e)
  BY <1>1, <1>2 DEF Emplace, PopFront, Kept, SameSettings, Encoders
<1>3. CASE ~WindowFull(e)
  BY <1>1, <1>3 DEF Emplace, Kept, SameSettings, Encoders
<1>4. QED
  BY <1>2, <1>3

(* The first half sends the new source, or a repair that encodes it.       *)
LEMMA CommitSourceIs ==
  ASSUME NEW e \in Encoders, Committed(e)
  PROVE  LET c == CommitSource(e)
         IN  /\ SameSettings(e, c)
             /\ c.m_sources = Kept(e) \cup {e.m_current_source_id}
             /\ c.m_current_source_id = e.m_current_source_id
             /\ c.fault = e.fault
             /\ c.sent = Append(e.sent,
                           IF e.systematic
                           THEN SourcePacket(e.m_current_source_id)
                           ELSE RepairPacket(e.m_current_repair_id, c.m_sources))
             /\ IF e.systematic THEN c.m_current_repair_id = e.m_current_repair_id
                                ELSE c.m_current_repair_id <= e.m_current_repair_id + 1
             /\ e.m_current_repair_id \in RepairIds => c.m_current_repair_id \in RepairIds
<1> DEFINE f == Emplace(e)
<1>1. /\ SameSettings(e, f)
      /\ f.sent = e.sent
      /\ f.m_current_source_id = e.m_current_source_id
      /\ f.m_current_repair_id = e.m_current_repair_id
      /\ f.m_sources = Kept(e) \cup {e.m_current_source_id}
      /\ f.fault = e.fault
  BY EmplaceIs
<1>2. f \in Encoders
  BY <1>1 DEF SameSettings
<1>3. CASE e.systematic
  <2>1. CommitSource(e) = Send(f, SourcePacket(e.m_current_source_id))
    BY <1>3 DEF CommitSource
  <2> DEFINE p == SourcePacket(e.m_current_source_id)
             c == Send(f, p)
  <2>2. p \in Sendable
    BY DEF Sendable, Encoders
  <2> HIDE DEF f, p
  <2>3. /\ SameSettings(f, c)
        /\ c.sent = Append(f.sent, p)
        /\ c.m_current_source_id = f.m_current_source_id
        /\ c.m_current_repair_id = f.m_current_repair_id
        /\ c.m_sources = f.m_sources
        /\ c.fault = f.fault
    BY <1>2, <2>2, SendIs
  <2> HIDE DEF c
  <2>4. SameSettings(e, c)
    BY <1>1, <2>3 DEF SameSettings
  <2>5. CommitSource(e) = c
    BY <2>1 DEF c, p
  <2>6. QED
    BY <1>1, <1>3, <2>3, <2>4, <2>5 DEF p
<1>4. CASE ~e.systematic
  <2>1. CommitSource(e) = GenerateRepair(f)
    BY <1>4 DEF CommitSource
  <2> HIDE DEF f
  <2>2. f.m_sources # {}
    BY <1>1
  <2>3. QED
    BY <1>1, <1>2, <1>4, <2>1, <2>2, GenerateRepairIs DEF SameSettings
<1>5. QED
  BY <1>3, <1>4

(* The second half sends a repair of the whole window when one is due.     *)
LEMMA CommitRepairIs ==
  ASSUME NEW e \in Encoders, e.m_sources # {}
  PROVE  LET c == CommitRepair(e)
         IN  /\ SameSettings(e, c)
             /\ c.m_sources = e.m_sources
             /\ c.m_current_source_id = e.m_current_source_id + 1
             /\ c.fault = e.fault
             /\ c.sent = IF RepairDue(e)
                         THEN Append(e.sent, RepairPacket(e.m_current_repair_id, e.m_sources))
                         ELSE e.sent
             /\ c.m_current_repair_id <= e.m_current_repair_id + 1
             /\ ~RepairDue(e) => c.m_current_repair_id = e.m_current_repair_id
             /\ e.m_current_repair_id \in RepairIds => c.m_current_repair_id \in RepairIds
<1> DEFINE f == IF RepairDue(e) THEN GenerateRepair(e) ELSE e
<1>1. /\ SameSettings(e, f)
      /\ f.m_sources = e.m_sources
      /\ f.m_current_source_id = e.m_current_source_id
      /\ f.fault = e.fault
      /\ f.sent = IF RepairDue(e)
                  THEN Append(e.sent, RepairPacket(e.m_current_repair_id, e.m_sources))
                  ELSE e.sent
      /\ f.m_current_repair_id <= e.m_current_repair_id + 1
      /\ ~RepairDue(e) => f.m_current_repair_id = e.m_current_repair_id
      /\ e.m_current_repair_id \in RepairIds => f.m_current_repair_id \in RepairIds
  <2>1. e.m_current_repair_id \in Nat /\ e.m_current_repair_id <= e.m_current_repair_id + 1
    BY DEF Encoders
  <2>2. CASE RepairDue(e)
    BY <2>2, GenerateRepairIs
  <2>3. CASE ~RepairDue(e)
    BY <2>1, <2>3 DEF SameSettings
  <2>4. QED
    BY <2>2, <2>3
<1> DEFINE c == CommitRepair(e)
<1>2. c = [f EXCEPT !.m_current_source_id = f.m_current_source_id + 1]
  BY DEF CommitRepair
<1> HIDE DEF f, c
<1>3. /\ SameSettings(f, c)
      /\ c.m_sources = f.m_sources
      /\ c.m_current_source_id = f.m_current_source_id + 1
      /\ c.m_current_repair_id = f.m_current_repair_id
      /\ c.fault = f.fault
      /\ c.sent = f.sent
  <2>1. f \in Encoders
    BY <1>1 DEF SameSettings
  <2>2. c \in Encoders
    <3>1. f.m_current_source_id + 1 \in Nat
      BY <2>1 DEF Encoders
    <3>2. QED
      BY <1>2, <2>1, <3>1 DEF Encoders
  <2>3. QED
    BY <1>2, <2>1, <2>2 DEF SameSettings, Encoders
<1>4. SameSettings(e, c)
  BY <1>1, <1>3 DEF SameSettings
<1>5. QED
  BY <1>1, <1>3, <1>4 DEF c

(* What one call gives to the packet handler: possibly the new source,     *)
(* first, then repairs that encode the window as it is when it returns.    *)
SentByCall(e, c) ==
  /\ c.sent \in Seq(Sendable)
  /\ \A i \in DOMAIN c.sent :
       \/ i = 1 /\ c.sent[i] = SourcePacket(e.m_current_source_id)
       \/ \E r \in Nat : c.sent[i] = RepairPacket(r, c.m_sources)

(* The whole call.                                                         *)
LEMMA CommitIs ==
  ASSUME NEW e \in Encoders, Committed(e), e.sent = <<>>
  PROVE  LET c == Commit(e)
         IN  /\ SameSettings(e, c)
             /\ c.m_sources = Kept(e) \cup {e.m_current_source_id}
             /\ c.m_current_source_id = e.m_current_source_id + 1
             /\ c.fault = e.fault
             /\ SentByCall(e, c)
             /\ \/ c.m_current_repair_id = e.m_current_repair_id
                \/ \E i \in DOMAIN c.sent : /\ c.sent[i].kind = "repair"
                                            /\ c.m_current_repair_id <= c.sent[i].id + 1
             /\ RepairDue(e) => \E i \in DOMAIN c.sent : c.sent[i].kind = "repair"
<1> DEFINE f == CommitSource(e)
           c == Commit(e)
           p == IF e.systematic THEN SourcePacket(e.m_current_source_id)
                                ELSE RepairPacket(e.m_current_repair_id, f.m_sources)
           r == RepairPacket(f.m_current_repair_id, f.m_sources)
<1>1. /\ SameSettings(e, f)
      /\ f.m_sources = Kept(e) \cup {e.m_current_source_id}
      /\ f.m_current_source_id = e.m_current_source_id
      /\ f.fault = e.fault
      /\ f.sent = Append(<<>>, p)
      /\ IF e.systematic THEN f.m_current_repair_id = e.m_current_repair_id
                         ELSE f.m_current_repair_id <= e.m_current_repair_id + 1
  BY CommitSourceIs
<1> HIDE DEF f
<1>2. f \in Encoders /\ f.m_sources # {} /\ (RepairDue(e) <=> RepairDue(f))
  BY <1>1 DEF SameSettings, RepairDue
<1>3. /\ SameSettings(f, c)
      /\ c.m_sources = f.m_sources
      /\ c.m_current_source_id = f.m_current_source_id + 1
      /\ c.fault = f.fault
      /\ c.sent = IF RepairDue(f) THEN Append(f.sent, r) ELSE f.sent
      /\ c.m_current_repair_id <= f.m_current_repair_id + 1
      /\ ~RepairDue(f) => c.m_current_repair_id = f.m_current_repair_id
  BY <1>2, CommitRepairIs DEF Commit, f
<1> HIDE DEF c
<1>4. /\ p \in Sendable /\ r \in Sendable
      /\ e.m_current_repair_id \in Nat /\ f.m_current_repair_id \in Nat
  BY <1>2 DEF Sendable, Encoders
<1>5. /\ f.sent \in Seq(Sendable)
      /\ DOMAIN f.sent = {1}
      /\ f.sent[1] = p
      /\ Len(f.sent) = 1
  <2>1. <<>> \in Seq(Sendable) /\ Len(<<>>) = 0 /\ DOMAIN <<>> = {}
    OBVIOUS
  <2> HIDE DEF p
  <2>2. QED
    BY <1>1, <1>4, <2>1, AppendIs
<1>6. p = SourcePacket(e.m_current_source_id) \/ \E k \in Nat : p = RepairPacket(k, c.m_sources)
  BY <1>3, <1>4
<1>7. \E k \in Nat : r = RepairPacket(k, c.m_sources)
  BY <1>3, <1>4
<1>8. /\ r.kind = "repair" /\ r.id = f.m_current_repair_id
      /\ ~e.systematic => p.kind = "repair" /\ p.id = e.m_current_repair_id
  BY DEF RepairPacket
<1> HIDE DEF p, r
<1>9. CASE RepairDue(f)
  <2>1. /\ c.sent \in Seq(Sendable)
        /\ DOMAIN c.sent = {1, 2}
        /\ c.sent[1] = p
        /\ c.sent[2] = r
    BY <1>3, <1>4, <1>5, <1>9, AppendIs
  <2>2. SentByCall(e, c)
    BY <1>6, <1>7, <2>1 DEF SentByCall
  <2>3. QED
    BY <1>1, <1>3, <1>8, <2>1, <2>2 DEF SameSettings, c
<1>10. CASE ~RepairDue(f)
  <2>1. SentByCall(e, c)
    BY <1>3, <1>5, <1>6, <1>10 DEF SentByCall
  <2>2. \/ c.m_current_repair_id = e.m_current_repair_id
        \/ \E i \in DOMAIN c.sent : /\ c.sent[i].kind = "repair"
                                    /\ c.m_current_repair_id <= c.sent[i].id + 1
    <3>1. c.m_current_repair_id = f.m_current_repair_id /\ c.sent = f.sent
      BY <1>3, <1>10
    <3>2. CASE e.systematic
      BY <1>1, <3>1, <3>2
    <3>3. CASE ~e.systematic
      BY <1>1, <1>5, <1>8, <3>1, <3>3
    <3>4. QED
      BY <3>2, <3>3
  <2>3. QED
    BY <1>1, <1>2, <1>3, <1>10, <2>1, <2>2 DEF SameSettings, c
<1>11. QED
  BY <1>9, <1>10

-----------------------------------------------------------------------------
(***************************************************************************)
(* An ack.                                                                 *)
(***************************************************************************)
LEMMA NotifyIs ==
  ASSUME NEW e \in Encoders, NEW ids, NEW nb \in Nat
  PROVE  LET n == Notify(e, AckPacket(ids, nb))
         IN  /\ n \in Encoders
             /\ n.systematic = e.systematic
             /\ n.m_rate = e.m_rate \/ (e.m_adaptive /\ n.m_rate \in 1 .. 50)
             /\ n.m_window_size = e.m_window_size
             /\ n.m_adaptive = e.m_adaptive
             /\ n.m_current_source_id = e.m_current_source_id
             /\ n.m_current_repair_id = e.m_current_repair_id
             /\ n.m_sources = e.m_sources \ ids
             /\ n.sent = e.sent
             /\ n.fault = e.fault
<1> DEFINE rate == AdaptedRate(e, nb)
           n    == Notify(e, AckPacket(ids, nb))
<1>1. rate \in 1 .. 50
  <2>1. CASE e.m_nb_sent_packets > 0
    <3>1. e.m_nb_sent_packets \in Counts
      BY DEF Encoders
    <3>2. /\ e.m_nb_sent_packets \in Nat \ {0}
          /\ e.m_nb_sent_packets - nb \in Int
      BY <2>1, <3>1, CountsIs
    <3>3. QED
      BY <2>1, <3>2, RateForLossIs DEF AdaptedRate
  <2>2. CASE ~(e.m_nb_sent_packets > 0)
    <3>1. RateForLoss(0, 1) \in 1 .. 50
      BY RateForLossIs
    <3>2. QED
      BY <2>2, <3>1 DEF AdaptedRate
  <2>3. QED
    BY <2>1, <2>2
<1>2. n =
        [e EXCEPT !.m_rate            = IF e.m_adaptive THEN rate ELSE @,
                  !.m_nb_sent_packets = 0,
                  !.m_sources         = @ \ ids]
  BY DEF Notify, AckPacket, Erase
<1> HIDE DEF rate
<1> DEFINE window == e.m_sources \ ids
           none   == 0
<1>3. none \in Counts /\ window \in SUBSET Nat /\ rate \in Nat \ {0}
  BY <1>1, CountsIs DEF Encoders
<1>4. /\ n \in Encoders
      /\ n.systematic = e.systematic
      /\ n.m_rate = e.m_rate \/ (e.m_adaptive /\ n.m_rate \in 1 .. 50)
      /\ n.m_window_size = e.m_window_size
      /\ n.m_adaptive = e.m_adaptive
      /\ n.m_current_source_id = e.m_current_source_id
      /\ n.m_current_repair_id = e.m_current_repair_id
      /\ n.m_sources = e.m_sources \ ids
      /\ n.sent = e.sent
      /\ n.fault = e.fault
  <2>1. CASE e.m_adaptive
    <3>1. n = [e EXCEPT !.m_rate = rate, !.m_nb_sent_packets = none, !.m_sources = window]
      BY <1>2, <2>1
    <3> HIDE DEF window, none
    <3>2. n \in Encoders
      BY <1>3, <3>1 DEF Encoders
    <3>3. QED
      BY <1>1, <2>1, <3>1, <3>2 DEF Encoders, window
  <2>2. CASE ~e.m_adaptive
    <3>1. n = [e EXCEPT !.m_nb_sent_packets = none, !.m_sources = window]
      BY <1>2, <2>2 DEF Encoders
    <3> HIDE DEF window, none
    <3>2. n \in Encoders
      BY <1>3, <3>1 DEF Encoders
    <3>3. QED
      BY <2>2, <3>1, <3>2 DEF Encoders, window
  <2>3. QED
    BY <2>1, <2>2
<1>5. QED
  BY <1>4 DEF n

LEMMA SettleEncoderIs ==
  ASSUME NEW e \in Encoders
  PROVE  LET f == SettleEncoder(e)
         IN  /\ SameSettings(e, f)
             /\ f.m_current_source_id = e.m_current_source_id
             /\ f.m_current_repair_id = e.m_current_repair_id
             /\ f.m_sources = e.m_sources
             /\ f.sent = <<>>
             /\ f.fault = e.fault
<1>1. <<>> \in Seq(Sendable)
  OBVIOUS
<1>2. QED
  BY <1>1 DEF SettleEncoder, SameSettings, Encoders
=============================================================================
