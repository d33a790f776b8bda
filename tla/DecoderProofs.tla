--------------------------- MODULE DecoderProofs ---------------------------
(***************************************************************************)
(* Proofs about a decoder facing any packets whatever.  DecoderLemmas says *)
(* what each method returns and that it keeps the object sound; here is    *)
(* what a call does to the histories of what was handed over, then the     *)
(* inductive invariant and the theorems.                                   *)
(***************************************************************************)
EXTENDS Decoder, DecoderLemmas

-----------------------------------------------------------------------------
(***************************************************************************)
(* What has been handed over, and what m_last_id has not been past.        *)
(***************************************************************************)

(* The greatest value of m_last_id, h before the call.                     *)
HighOf(h, e) == IF e.m_last_id > h THEN e.m_last_id ELSE h

(* In the course of a call on an object that waited for f, whose m_last_id *)
(* had been up to h and which had given D.  In order: recent sources only  *)
(* wait behind a hole, everything recent before the hole is still stored   *)
(* and thus recognised, and what is given follows what was.  Otherwise:    *)
(* nothing waits, and everything recent that was given is still stored.    *)
RecentInOrderCall(f, h, e) ==
  /\ f <= e.m_first_missing
  /\ \A k \in e.m_ordered_sources : k > e.m_first_missing \/ k < HighOf(h, e)
  /\ \A t \in SourceId : t < e.m_first_missing /\ t >= HighOf(h, e) => t \in e.m_sources
  /\ \A n \in e.out : n < e.m_first_missing /\ (n >= f \/ n < h)

RecentAnyOrderCall(D, h, e) ==
  /\ e.m_ordered_sources = {}
  /\ \A s \in D \cup e.out : s >= HighOf(h, e) => s \in e.m_sources
  /\ \A n \in e.out : n \notin D \/ n < HighOf(h, e)

Recent(D, f, h, e) ==
  IF e.m_in_order THEN RecentInOrderCall(f, h, e) ELSE RecentAnyOrderCall(D, h, e)

(* Nothing of it depends on links, repairs and acks.                       *)
LEMMA SameRecent ==
  ASSUME NEW D, NEW f, NEW h, NEW d, Recent(D, f, h, d), NEW e,
         e.m_in_order = d.m_in_order, e.m_last_id = d.m_last_id, e.m_sources = d.m_sources,
         e.m_ordered_sources = d.m_ordered_sources, e.m_first_missing = d.m_first_missing,
         e.out = d.out
  PROVE  Recent(D, f, h, e)
BY DEF Recent, RecentInOrderCall, RecentAnyOrderCall, HighOf

LEMMA DroppedRecent ==
  ASSUME NEW D \in SUBSET SourceId, NEW f \in 0 .. (MaxSource + 1), NEW h \in SourceId,
         NEW d, Sound(d), d.m_last_id <= h, Recent(D, f, h, d),
         NEW id \in SourceId, NEW e, DroppedTo(d, id, e)
  PROVE  Recent(D, f, h, e)
<1> DEFINE first == DropFirst(d, id)
           gap   == DropGap(d, id)
           given == DropGiven(d, id)
<1>1. /\ d \in Decoders
      /\ d.m_ordered_sources \subseteq d.m_sources
      /\ d.m_sources \in SUBSET Nat
      /\ d.m_last_id \in Nat /\ d.m_first_missing \in Nat
      /\ d.m_ordered_sources \in SUBSET Nat
      /\ h \in Nat /\ f \in Nat /\ id \in Nat
      /\ SourceId \subseteq Nat
  BY DecoderNumbers, PacketsAssumption DEF Sound, HasValidPointers, SourceId
<1>2. /\ first \in Nat /\ gap \in Nat /\ first <= gap
      /\ gap \notin d.m_ordered_sources
      /\ given \subseteq d.m_ordered_sources
      /\ \A n \in given : n < id \/ (first <= n /\ n < gap)
      /\ \A n \in d.m_ordered_sources \ given : ~(n < id) /\ (n < first \/ n > gap)
  <2>1. /\ first \in 0 .. (MaxSource + 1)
        /\ gap \in first .. (MaxSource + 1)
        /\ gap \notin d.m_ordered_sources
        /\ given \subseteq d.m_ordered_sources
    BY <1>1, DropGivenIs
  <2>2. given = LateOrdered(d, id) \cup (first .. (gap - 1))
    BY DEF DropGiven
  <2> HIDE DEF first, gap, given
  <2>3. first \in Nat /\ gap \in Nat /\ first <= gap
    BY <2>1, PacketsAssumption
  <2>4. \A n \in Nat : n \in first .. (gap - 1) <=> first <= n /\ n < gap
    BY <2>3
  <2>5. \A n \in given : n < id \/ (first <= n /\ n < gap)
    BY <1>1, <2>1, <2>2, <2>4 DEF LateOrdered
  <2>6. ASSUME NEW n \in d.m_ordered_sources, n \notin given
        PROVE  ~(n < id) /\ (n < first \/ n > gap)
    <3>1. n \in Nat /\ n # gap /\ ~(n < id) /\ ~(first <= n /\ n < gap)
      BY <1>1, <2>1, <2>2, <2>4, <2>6 DEF LateOrdered
    <3>2. QED
      BY <2>3, <3>1
  <2>7. QED
    BY <2>1, <2>3, <2>5, <2>6
<1>3. /\ e.m_in_order = d.m_in_order
      /\ e.m_last_id = id
      /\ e.m_sources = {s \in d.m_sources : s >= id}
      /\ e.m_ordered_sources = d.m_ordered_sources \ given
      /\ e.m_first_missing = gap
      /\ e.out = d.out \cup given
  BY DEF DroppedTo
<1> DEFINE now == HighOf(h, e)
<1>4. /\ HighOf(h, d) = h
      /\ now \in Nat /\ h <= now /\ id <= now
  BY <1>1, <1>3 DEF HighOf
<1> HIDE DEF given, gap, now
<1>5. CASE d.m_in_order
  <2>1. /\ f <= d.m_first_missing
        /\ \A k \in d.m_ordered_sources : k > d.m_first_missing \/ k < h
        /\ \A t \in SourceId : t < d.m_first_missing /\ t >= h => t \in d.m_sources
        /\ \A n \in d.out : n < d.m_first_missing /\ (n >= f \/ n < h)
    BY <1>4, <1>5 DEF Recent, RecentInOrderCall
  <2>2. /\ d.m_first_missing < id => first = id
        /\ ~(d.m_first_missing < id) => first = d.m_first_missing
    BY <1>5 DEF DropFirst
  <2> HIDE DEF first
  <2>3. /\ d.m_first_missing <= first /\ id <= first
        /\ first = id \/ first = d.m_first_missing
    BY <1>1, <1>2, <2>2
  <2>4. f <= gap
    BY <1>1, <1>2, <2>1, <2>3
  <2>5. ASSUME NEW k \in e.m_ordered_sources
        PROVE  k > gap \/ k < now
    <3>1. k \in d.m_ordered_sources /\ ~(k < id) /\ (k < first \/ k > gap)
      BY <1>2, <1>3, <2>5
    <3>2. k \in Nat /\ (k > d.m_first_missing \/ k < h)
      BY <1>1, <2>1, <3>1
    <3>3. QED
      BY <1>1, <1>2, <1>4, <2>3, <3>1, <3>2
  <2>6. ASSUME NEW t \in SourceId, t < gap, t >= now
        PROVE  t \in e.m_sources
    <3>1. t \in Nat /\ t >= id /\ t >= h
      BY <1>1, <1>4, <2>6
    <3>2. CASE t < first
      <4>1. t < d.m_first_missing
        BY <1>1, <1>2, <2>3, <3>1, <3>2
      <4>2. QED
        BY <1>3, <2>1, <3>1, <4>1
    <3>3. CASE ~(t < first)
      <4>1. t \in first .. (gap - 1)
        BY <1>2, <2>6, <3>1, <3>3
      <4>2. t \in d.m_ordered_sources
        BY <1>2, <4>1 DEF given, DropGiven, gap, first
      <4>3. QED
        BY <1>1, <1>3, <3>1, <4>2
    <3>4. QED
      BY <3>2, <3>3
  <2>7. ASSUME NEW n \in e.out
        PROVE  n < gap /\ (n >= f \/ n < h)
    <3>1. CASE n \in d.out
      <4>1. n \in Nat
        BY <1>1, <3>1 DEF Decoders
      <4>2. QED
        BY <1>1, <1>2, <2>1, <2>3, <3>1, <4>1
    <3>2. CASE n \in given
      <4>1. n \in Nat /\ n \in d.m_ordered_sources
        BY <1>1, <1>2, <3>2
      <4>2. n < id \/ (first <= n /\ n < gap)
        BY <1>2, <3>2
      <4>3. n > d.m_first_missing \/ n < h
        BY <2>1, <4>1
      <4>4. QED
        BY <1>1, <1>2, <2>1, <2>3, <4>1, <4>2, <4>3
    <3>3. QED
      BY <1>3, <2>7, <3>1, <3>2
  <2>8. QED
    BY <1>3, <1>5, <2>4, <2>5, <2>6, <2>7 DEF Recent, RecentInOrderCall, now
<1>6. CASE ~d.m_in_order
  <2>1. /\ d.m_ordered_sources = {}
        /\ \A s \in D \cup d.out : s >= h => s \in d.m_sources
        /\ \A n \in d.out : n \notin D \/ n < h
    BY <1>4, <1>6 DEF Recent, RecentAnyOrderCall
  <2>2. e.m_ordered_sources = {} /\ e.out = d.out
    BY <1>2, <1>3, <2>1
  <2>3. D \cup d.out \subseteq Nat
    BY <1>1 DEF Decoders
  <2>4. ASSUME NEW s \in D \cup d.out, s >= now
        PROVE  s \in e.m_sources
    <3>1. s \in Nat /\ s >= h /\ s >= id
      BY <1>1, <1>4, <2>3, <2>4
    <3>2. QED
      BY <1>3, <2>1, <3>1
  <2>5. ASSUME NEW n \in d.out, n \in D
        PROVE  n < now
    BY <1>1, <1>4, <2>1, <2>3, <2>5
  <2>6. QED
    BY <1>3, <1>6, <2>2, <2>4, <2>5 DEF Recent, RecentAnyOrderCall, now
<1>7. QED
  BY <1>5, <1>6

(* The source is new: nothing the object would recognise is given twice.   *)
LEMMA AddedRecent ==
  ASSUME NEW D \in SUBSET SourceId, NEW f \in 0 .. (MaxSource + 1), NEW h \in SourceId,
         NEW d, Sound(d), Recent(D, f, h, d),
         NEW s \in SourceId, s \notin d.m_sources,
         NEW e, AddedTo(d, s, e), e.fault = "none"
  PROVE  Recent(D, f, h, e)
<1> DEFINE ready == ReadySources(d, s)
           gap   == AddGap(d, s)
           given == AddGiven(d, s)
           now   == HighOf(h, d)
<1>1. /\ d \in Decoders
      /\ d.m_first_missing \in Nat
      /\ d.m_ordered_sources \in SUBSET Nat
      /\ h \in Nat /\ f \in Nat /\ now \in Nat
      /\ SourceId \subseteq Nat
  BY DecoderNumbers, PacketsAssumption DEF Sound, SourceId, HighOf
<1>2. d.m_ordered_sources \subseteq d.m_sources
  BY DEF Sound, HasValidPointers
<1>3. /\ ready \in SUBSET SourceId
      /\ gap \in d.m_first_missing .. (MaxSource + 1)
      /\ d.m_in_order => gap \notin d.m_ordered_sources
      /\ given \subseteq d.m_ordered_sources \cup ready \cup {s}
  BY <1>1, AddPartsAre, AddGivenIs
<1>4. ready \cap d.m_sources = {}
  BY DEF AddedTo, AddIsFresh
<1>5. /\ e.m_in_order = d.m_in_order
      /\ e.m_last_id = d.m_last_id
      /\ e.m_sources = d.m_sources \cup ready \cup {s}
      /\ e.m_ordered_sources =
           IF d.m_in_order THEN (d.m_ordered_sources \ given) \cup {k \in ready \cup {s} : k > gap}
                           ELSE d.m_ordered_sources
      /\ e.m_first_missing = gap
      /\ e.out = d.out \cup given
  BY DEF AddedTo
<1>6. HighOf(h, e) = now
  BY <1>5 DEF HighOf
<1>7. /\ d.m_in_order => given = d.m_first_missing .. (gap - 1)
      /\ ~d.m_in_order => given = ready \cup {s}
  BY DEF AddGiven
<1>8. h <= now
  BY <1>1 DEF HighOf, Sound, Decoders, SourceId
<1> HIDE DEF ready, gap, given, now
<1>9. gap \in Nat /\ d.m_first_missing <= gap
  BY <1>1, <1>3, PacketsAssumption
<1>10. CASE d.m_in_order
  <2>1. /\ f <= d.m_first_missing
        /\ \A k \in d.m_ordered_sources : k > d.m_first_missing \/ k < now
        /\ \A t \in SourceId : t < d.m_first_missing /\ t >= now => t \in d.m_sources
        /\ \A n \in d.out : n < d.m_first_missing /\ (n >= f \/ n < h)
    BY <1>10 DEF Recent, RecentInOrderCall, now
  <2>2. \A n \in Nat : n \in given <=> d.m_first_missing <= n /\ n < gap
    BY <1>1, <1>7, <1>9, <1>10
  <2>3. ASSUME NEW k \in e.m_ordered_sources
        PROVE  k > gap \/ k < now
    <3>1. CASE k \in d.m_ordered_sources /\ k \notin given
      <4>1. k \in Nat /\ k # gap
        BY <1>1, <1>3, <1>10, <3>1
      <4>2. k > d.m_first_missing \/ k < now
        BY <2>1, <3>1
      <4>3. ~(d.m_first_missing <= k /\ k < gap)
        BY <2>2, <3>1, <4>1
      <4>4. QED
        BY <1>1, <1>9, <4>1, <4>2, <4>3
    <3>2. CASE k > gap
      BY <3>2
    <3>3. QED
      BY <1>5, <1>10, <2>3, <3>1, <3>2
  <2>4. ASSUME NEW t \in SourceId, t < gap, t >= now
        PROVE  t \in e.m_sources
    <3>1. t \in Nat
      BY <1>1
    <3>2. CASE t < d.m_first_missing
      BY <1>5, <2>1, <2>4, <3>2
    <3>3. CASE ~(t < d.m_first_missing)
      <4>1. t \in given
        BY <1>1, <2>2, <2>4, <3>1, <3>3
      <4>2. QED
        BY <1>2, <1>3, <1>5, <4>1
    <3>4. QED
      BY <3>2, <3>3
  <2>5. ASSUME NEW n \in e.out
        PROVE  n < gap /\ (n >= f \/ n < h)
    <3>1. CASE n \in d.out
      <4>1. n \in Nat
        BY <1>1, <3>1 DEF Decoders
      <4>2. QED
        BY <1>1, <1>9, <2>1, <3>1, <4>1
    <3>2. CASE n \in given
      <4>1. n \in Nat
        BY <1>1, <1>7, <1>9, <1>10, <3>2
      <4>2. QED
        BY <1>1, <2>1, <2>2, <3>2, <4>1
    <3>3. QED
      BY <1>5, <2>5, <3>1, <3>2
  <2>6. f <= gap
    BY <1>1, <1>9, <2>1
  <2>7. QED
    BY <1>5, <1>6, <1>10, <2>3, <2>4, <2>5, <2>6 DEF Recent, RecentInOrderCall
<1>11. CASE ~d.m_in_order
  <2>1. /\ d.m_ordered_sources = {}
        /\ \A k \in D \cup d.out : k >= now => k \in d.m_sources
        /\ \A n \in d.out : n \notin D \/ n < now
    BY <1>11 DEF Recent, RecentAnyOrderCall, now
  <2>2. e.m_ordered_sources = {} /\ given = ready \cup {s}
    BY <1>5, <1>7, <1>11, <2>1
  <2>3. \A k \in D \cup e.out : k >= now => k \in e.m_sources
    BY <1>5, <2>1, <2>2
  <2>4. ASSUME NEW n \in given, n \in D
        PROVE  n < now
    <3>1. n \notin d.m_sources /\ n \in Nat
      BY <1>1, <1>3, <1>4, <2>2, <2>4
    <3>2. QED
      BY <1>1, <2>1, <2>4, <3>1
  <2>5. \A n \in e.out : n \notin D \/ n < now
    BY <1>5, <2>1, <2>4
  <2>6. QED
    BY <1>5, <1>6, <1>11, <2>2, <2>3, <2>5 DEF Recent, RecentAnyOrderCall
<1>12. QED
  BY <1>10, <1>11

LEMMA DecodedRecent ==
  ASSUME NEW D \in SUBSET SourceId, NEW f \in 0 .. (MaxSource + 1), NEW h \in SourceId,
         NEW d, Sound(d), Recent(D, f, h, d),
         NEW e, DecodedTo(d, e), e.fault = "none"
  PROVE  Recent(D, f, h, e)
<1> DEFINE missing == DOMAIN d.m_missing_sources
           gap     == DecodeGap(d)
           given   == DecodeGiven(d)
           now     == HighOf(h, d)
<1>1. /\ d \in Decoders
      /\ d.m_first_missing \in Nat
      /\ h \in Nat /\ f \in Nat /\ now \in Nat
      /\ SourceId \subseteq Nat
  BY DecoderNumbers, PacketsAssumption DEF Sound, SourceId, HighOf
<1>2. d.m_ordered_sources \subseteq d.m_sources
  BY DEF Sound, HasValidPointers
<1>3. /\ Available(d) = d.m_ordered_sources \cup missing
      /\ Available(d) \in SUBSET SourceId
      /\ gap \in d.m_first_missing .. (MaxSource + 1)
      /\ d.m_in_order => gap \notin Available(d)
      /\ given \subseteq Available(d)
  BY <1>1, DecodeGivenIs DEF Sound, Available
<1>4. missing \cap d.m_sources = {}
  BY DEF DecodedTo, DecodeIsFresh
<1>5. /\ e.m_in_order = d.m_in_order
      /\ e.m_last_id = d.m_last_id
      /\ e.m_sources = d.m_sources \cup missing
      /\ e.m_ordered_sources = IF d.m_in_order THEN Available(d) \ given ELSE d.m_ordered_sources
      /\ e.m_first_missing = gap
      /\ e.out = d.out \cup given
  BY DEF DecodedTo
<1>6. HighOf(h, e) = now
  BY <1>5 DEF HighOf
<1>7. /\ d.m_in_order => given = d.m_first_missing .. (gap - 1)
      /\ ~d.m_in_order => given = missing
  BY DEF DecodeGiven
<1> HIDE DEF missing, gap, given, now
<1>8. gap \in Nat /\ d.m_first_missing <= gap
  BY <1>1, <1>3, PacketsAssumption
<1>9. CASE d.m_in_order
  <2>1. /\ f <= d.m_first_missing
        /\ \A k \in d.m_ordered_sources : k > d.m_first_missing \/ k < now
        /\ \A t \in SourceId : t < d.m_first_missing /\ t >= now => t \in d.m_sources
        /\ \A n \in d.out : n < d.m_first_missing /\ (n >= f \/ n < h)
    BY <1>9 DEF Recent, RecentInOrderCall, now
  <2>2. \A n \in Nat : n \in given <=> d.m_first_missing <= n /\ n < gap
    BY <1>1, <1>7, <1>8, <1>9
  <2>3. ASSUME NEW k \in e.m_ordered_sources
        PROVE  k > gap \/ k < now
    <3>1. k \in Available(d) /\ k \notin given /\ k \in SourceId /\ k \in Nat /\ k # gap
      BY <1>1, <1>3, <1>5, <1>9, <2>3
    <3>2. ~(d.m_first_missing <= k /\ k < gap)
      BY <2>2, <3>1
    <3>3. k > gap \/ k < d.m_first_missing
      BY <1>1, <1>8, <3>1, <3>2
    <3>4. CASE k \in d.m_ordered_sources
      BY <1>1, <1>8, <2>1, <3>1, <3>3, <3>4
    <3>5. CASE k \in missing
      <4>1. ~(k < d.m_first_missing /\ k >= now)
        BY <1>4, <2>1, <3>1, <3>5
      <4>2. QED
        BY <1>1, <3>1, <3>3, <4>1
    <3>6. QED
      BY <1>3, <3>1, <3>4, <3>5
  <2>4. ASSUME NEW t \in SourceId, t < gap, t >= now
        PROVE  t \in e.m_sources
    <3>1. t \in Nat
      BY <1>1
    <3>2. CASE t < d.m_first_missing
      BY <1>5, <2>1, <2>4, <3>2
    <3>3. CASE ~(t < d.m_first_missing)
      <4>1. t \in given
        BY <1>1, <2>2, <2>4, <3>1, <3>3
      <4>2. QED
        BY <1>2, <1>3, <1>5, <4>1
    <3>4. QED
      BY <3>2, <3>3
  <2>5. ASSUME NEW n \in e.out
        PROVE  n < gap /\ (n >= f \/ n < h)
    <3>1. CASE n \in d.out
      <4>1. n \in Nat
        BY <1>1, <3>1 DEF Decoders
      <4>2. QED
        BY <1>1, <1>8, <2>1, <3>1, <4>1
    <3>2. CASE n \in given
      <4>1. n \in Nat
        BY <1>1, <1>7, <1>8, <1>9, <3>2
      <4>2. QED
        BY <1>1, <2>1, <2>2, <3>2, <4>1
    <3>3. QED
      BY <1>5, <2>5, <3>1, <3>2
  <2>6. f <= gap
    BY <1>1, <1>8, <2>1
  <2>7. QED
    BY <1>5, <1>6, <1>9, <2>3, <2>4, <2>5, <2>6 DEF Recent, RecentInOrderCall
<1>10. CASE ~d.m_in_order
  <2>1. /\ d.m_ordered_sources = {}
        /\ \A k \in D \cup d.out : k >= now => k \in d.m_sources
        /\ \A n \in d.out : n \notin D \/ n < now
    BY <1>10 DEF Recent, RecentAnyOrderCall, now
  <2>2. e.m_ordered_sources = {} /\ given = missing
    BY <1>5, <1>7, <1>10, <2>1
  <2>3. \A k \in D \cup e.out : k >= now => k \in e.m_sources
    BY <1>5, <2>1, <2>2
  <2>4. ASSUME NEW n \in given, n \in D
        PROVE  n < now
    <3>1. n \notin d.m_sources /\ n \in Nat
      BY <1>1, <1>3, <1>4, <2>2, <2>4
    <3>2. QED
      BY <1>1, <2>1, <2>4, <3>1
  <2>5. \A n \in e.out : n \notin D \/ n < now
    BY <1>5, <2>1, <2>4
  <2>6. QED
    BY <1>5, <1>6, <1>10, <2>2, <2>3, <2>5 DEF Recent, RecentAnyOrderCall
<1>11. QED
  BY <1>9, <1>10

LEMMA AttemptedRecent ==
  ASSUME NEW D \in SUBSET SourceId, NEW f \in 0 .. (MaxSource + 1), NEW h \in SourceId,
         NEW d, Sound(d), Recent(D, f, h, d),
         NEW e, AttemptedTo(d, e), e.fault = "none"
  PROVE  Recent(D, f, h, e)
<1>1. CASE e = d
  BY <1>1
<1>2. CASE DecodedTo(d, e)
  BY <1>2, DecodedRecent
<1>3. ASSUME NEW faulty, GivenUpTo(d, faulty, e)
      PROVE  Recent(D, f, h, e)
  BY <1>3, SameRecent DEF GivenUpTo, OnlyRelinked
<1>4. QED
  BY <1>1, <1>2, <1>3 DEF AttemptedTo, FailedTo

(* A whole call.                                                           *)
LEMMA ReceivedRecent ==
  ASSUME NEW D \in SUBSET SourceId, NEW f \in 0 .. (MaxSource + 1), NEW h \in SourceId,
         NEW d, Sound(d), d.fault = "none", d.m_last_id <= h, Recent(D, f, h, d),
         NEW p, NEW e, ReceivedTo(d, p, e), e.fault = "none"
  PROVE  Recent(D, f, h, e)
<1>1. PICK c, m : CountedTo(d, c) /\ UsedPacket(c, p, m) /\ AckedTo(m, e)
  BY DEF ReceivedTo
<1>2. Sound(c) /\ c.fault = "none"
  BY <1>1, CountedSound
<1>3. c.m_last_id <= h /\ c.out = d.out
  BY <1>1 DEF CountedTo, Gives, SameMembers
<1>4. Recent(D, f, h, c)
  BY <1>1, <1>3, SameRecent DEF CountedTo, Gives, SameMembers
<1>5. m.fault = "none"
  BY <1>1 DEF AckedTo, SameFault
<1>6. ASSUME NEW s \in SourceId, SourceTo(c, s, m)
      PROVE  Recent(D, f, h, m)
  <2>1. CASE m = c
    BY <1>4, <2>1
  <2>2. ASSUME ~KnownSource(c, s), NEW a, AddedTo(c, s, a), ThenAttempted(a, m)
        PROVE  Recent(D, f, h, m)
    <3>1. s \notin c.m_sources /\ s >= c.m_last_id
      BY <1>2, <2>2, PacketsAssumption DEF KnownSource, Sound, Decoders, SourceId
    <3>2. a.fault = "none"
      BY <1>5, <2>2 DEF ThenAttempted
    <3>3. Sound(a)
      BY <1>2, <2>2, <3>1, AddedSound
    <3>4. Recent(D, f, h, a)
      BY <1>2, <1>4, <2>2, <3>1, <3>2, AddedRecent
    <3>5. QED
      BY <1>5, <2>2, <3>2, <3>3, <3>4, AttemptedRecent DEF ThenAttempted
  <2>3. QED
    BY <1>6, <2>1, <2>2 DEF SourceTo
<1>7. ASSUME NEW r \in RepairId, NEW ids \in (SUBSET SourceId) \ {{}}, RepairTo(c, r, ids, m)
      PROVE  Recent(D, f, h, m)
  <2>1. CASE m = c
    BY <1>4, <2>1
  <2>2. ASSUME r \notin DOMAIN c.m_repairs, NEW x, DroppedTo(c, Min(ids), x),
               \/ m = x
               \/ /\ x.fault = "none" /\ LeftToDecode(x, ids) # {}
                  /\ UsedTo(x, r, LeftToDecode(x, ids), m)
        PROVE  Recent(D, f, h, m)
    <3> DEFINE left == LeftToDecode(x, ids)
    <3>1. /\ Min(ids) \in SourceId
          /\ left \in SUBSET SourceId
          /\ \A i \in left : i >= x.m_last_id
      BY <2>2, LeftIs
    <3>2. Sound(x)
      BY <1>2, <2>2, <3>1, DroppedSound
    <3>3. Recent(D, f, h, x)
      BY <1>2, <1>3, <1>4, <2>2, <3>1, DroppedRecent
    <3>4. r \notin DOMAIN x.m_repairs /\ left \cap x.m_sources = {}
      BY <2>2 DEF DroppedTo, LeftToDecode
    <3> HIDE DEF left
    <3>5. ASSUME x.fault = "none", NEW s \in left, NEW u, UnmissedTo(x, s, u), AddedTo(u, s, m)
          PROVE  Recent(D, f, h, m)
      <4>1. Sound(u)
        BY <3>2, <3>5, UnmissedSound
      <4>2. Recent(D, f, h, u)
        BY <3>3, <3>5, SameRecent DEF UnmissedTo, OnlyRelinked
      <4>3. s \in SourceId /\ s \notin u.m_sources
        BY <3>1, <3>4, <3>5 DEF UnmissedTo, OnlyRelinked
      <4>4. QED
        BY <1>5, <3>5, <4>1, <4>2, <4>3, AddedRecent
    <3>6. ASSUME x.fault = "none", left # {}, NEW k, LinkedTo(x, r, left, k), AttemptedTo(k, m)
          PROVE  Recent(D, f, h, m)
      <4>1. Sound(k)
        BY <3>1, <3>2, <3>4, <3>6, LinkedSound
      <4>2. Recent(D, f, h, k)
        BY <3>3, <3>6, SameRecent DEF LinkedTo, OnlyRelinked
      <4>3. QED
        BY <1>5, <3>6, <4>1, <4>2, AttemptedRecent
    <3>7. QED
      BY <2>2, <3>3, <3>5, <3>6 DEF UsedTo, left
  <2>3. QED
    BY <1>7, <2>1, <2>2 DEF RepairTo
<1>8. Recent(D, f, h, m)
  BY <1>1, <1>6, <1>7 DEF UsedPacket
<1>9. QED
  BY <1>1, <1>8, SameRecent DEF AckedTo, SameMembers

-----------------------------------------------------------------------------
(***************************************************************************)
(* The inductive invariant.                                                *)
(***************************************************************************)

(* The sources that have been handed over.                                 *)
GivenSoFar == {s \in SourceId : delivered[s] > 0}

HistoriesInRange == delivered \in [SourceId -> 0 .. 2] /\ high \in SourceId

(* In order, everything given is before the source that is waited for.     *)
GivenBeforeMissing ==
  dec.m_in_order => \A o \in GivenSoFar : o < dec.m_first_missing

(* What the object remembers of what it has given.                         *)
Remembers ==
  /\ Recent(GivenSoFar, dec.m_first_missing, high, dec)
  /\ GivenBeforeMissing

IInv ==
  /\ Sound(dec)
  /\ AtRest(dec)
  /\ HistoriesInRange
  /\ dec.m_last_id <= high
  /\ RecentOnce
  /\ dec.fault = "none" => Remembers

LEMMA InitHolds == Init => IInv
<1> SUFFICES ASSUME Init PROVE IInv
  OBVIOUS
<1>1. PICK order \in Orders, on \in AckTimers : dec = SetAckFrequency(NewDecoder(order), on)
  BY DEF Init
<1>2. order \in BOOLEAN /\ on \in BOOLEAN
  BY PolicyAssumption
<1>3. /\ Sound(dec)
      /\ AtRest(dec)
      /\ dec.m_last_id = 0
      /\ dec.m_first_missing = 0
      /\ dec.m_ordered_sources = {}
  BY <1>1, <1>2, NewDecoderIs
<1>4. delivered = [s \in SourceId |-> 0] /\ high = 0
  BY DEF Init
<1>5. HistoriesInRange
  BY <1>4, PacketsAssumption DEF HistoriesInRange, SourceId
<1>6. GivenSoFar = {} /\ RecentOnce
  BY <1>4 DEF GivenSoFar, RecentOnce
<1>7. HighOf(high, dec) = 0
  BY <1>3, <1>4 DEF HighOf
<1>8. Recent(GivenSoFar, dec.m_first_missing, high, dec)
  <2>1. \A t \in SourceId : ~(t < 0)
    BY PacketsAssumption DEF SourceId
  <2>2. QED
    BY <1>3, <1>6, <1>7, <2>1 DEF Recent, RecentInOrderCall, RecentAnyOrderCall, AtRest
<1>9. QED
  BY <1>3, <1>4, <1>5, <1>6, <1>8 DEF IInv, Remembers, GivenBeforeMissing

(* A call that ends in e.                                                  *)
LEMMA CallKeeps ==
  ASSUME IInv, dec.fault = "none",
         NEW e, Sound(e), e.m_in_order = dec.m_in_order,
         e.fault = "none" => Recent(GivenSoFar, dec.m_first_missing, high, e),
         Return(e)
  PROVE  IInv' /\ InOrderStep
<1> DEFINE D == GivenSoFar
           f == dec.m_first_missing
           now == HighOf(high, e)
<1>1. RestedTo(e, dec')
  BY SettleDecoderIs DEF Return, Sound
<1>2. Sound(dec') /\ AtRest(dec') /\ SameMembers(e, dec') /\ dec'.fault = e.fault
  BY <1>1, RestedSound DEF RestedTo, SameFault
<1>3. /\ delivered' = [s \in SourceId |-> IF s \in e.out /\ delivered[s] < 2
                                          THEN delivered[s] + 1 ELSE delivered[s]]
      /\ high' = now
  BY DEF Return, Tally, HighOf
<1>4. /\ high \in Nat /\ f \in Nat
      /\ SourceId \subseteq Nat
      /\ e.out \in SUBSET SourceId
      /\ e.m_last_id \in SourceId
      /\ delivered \in [SourceId -> 0 .. 2]
  BY DecoderNumbers, PacketsAssumption DEF IInv, Sound, Decoders, SourceId, HistoriesInRange
<1>5. HistoriesInRange'
  <2>1. delivered' \in [SourceId -> 0 .. 2]
    BY <1>3, <1>4
  <2>2. high' \in SourceId
    BY <1>3, <1>4 DEF IInv, HistoriesInRange, HighOf
  <2>3. QED
    BY <2>1, <2>2 DEF HistoriesInRange
<1>6. dec'.m_last_id <= high' /\ high' \in Nat /\ high <= high'
  <2>1. e.m_last_id \in Nat
    BY <1>4
  <2>2. QED
    BY <1>2, <1>3, <1>4, <2>1 DEF HighOf, SameMembers
<1>7. GivenSoFar' = D \cup e.out
  <2>1. \A s \in SourceId : delivered'[s] > 0 <=> delivered[s] > 0 \/ s \in e.out
    BY <1>3, <1>4
  <2>2. QED
    BY <1>4, <2>1 DEF GivenSoFar
<1>8. \A s \in SourceId : delivered'[s] = 2 => delivered[s] = 2 \/ (s \in D /\ s \in e.out)
  BY <1>3, <1>4 DEF GivenSoFar
<1>9. \A s \in SourceId : delivered'[s] > delivered[s] => s \in e.out
  BY <1>3, <1>4
<1>10. CASE dec'.fault # "none"
  BY <1>2, <1>5, <1>6, <1>10 DEF IInv, RecentOnce, InOrderStep
<1>11. CASE dec'.fault = "none"
  <2>1. /\ Recent(D, f, high, e)
        /\ RecentOnce
        /\ dec.m_in_order => \A o \in D : o < f
    BY <1>2, <1>11 DEF IInv, Remembers, GivenBeforeMissing
  <2>2. \A s \in SourceId : delivered[s] = 2 => s < high
    BY <2>1 DEF RecentOnce, IInv
  <2>3. HighOf(high', dec') = now
    BY <1>2, <1>3 DEF HighOf, SameMembers
  <2>4. /\ dec'.m_in_order = dec.m_in_order
        /\ dec'.m_sources = e.m_sources
        /\ dec'.m_ordered_sources = e.m_ordered_sources
        /\ dec'.m_first_missing = e.m_first_missing
        /\ dec'.out = {}
    BY <1>2 DEF SameMembers, AtRest
  <2>5. e.m_first_missing \in Nat
    BY DecoderNumbers DEF Sound
  <2> HIDE DEF D, f, now
  <2>6. CASE dec.m_in_order
    <3>1. /\ f <= e.m_first_missing
          /\ \A k \in e.m_ordered_sources : k > e.m_first_missing \/ k < now
          /\ \A t \in SourceId : t < e.m_first_missing /\ t >= now => t \in e.m_sources
          /\ \A n \in e.out : n < e.m_first_missing /\ (n >= f \/ n < high)
          /\ \A o \in D : o < f
      BY <2>1, <2>6 DEF Recent, RecentInOrderCall, now
    <3>2. RecentInOrderCall(dec'.m_first_missing, high', dec')
      BY <2>3, <2>4, <2>5, <3>1 DEF RecentInOrderCall
    <3>3. \A o \in D \cup e.out : o < e.m_first_missing
      <4>1. D \cup e.out \subseteq Nat
        BY <1>4 DEF D, GivenSoFar
      <4>2. QED
        BY <1>4, <2>5, <3>1, <4>1 DEF f
    <3>4. ASSUME NEW s \in SourceId, delivered'[s] = 2
          PROVE  s < high'
      <4>1. s \in Nat
        BY <1>4
      <4>2. CASE delivered[s] = 2
        BY <1>4, <1>6, <2>2, <4>1, <4>2
      <4>3. CASE s \in D /\ s \in e.out
        <5>1. s < f /\ (s >= f \/ s < high)
          BY <3>1, <4>3
        <5>2. QED
          BY <1>4, <1>6, <4>1, <5>1 DEF f
      <4>4. QED
        BY <1>8, <3>4, <4>2, <4>3 DEF D
    <3>5. InOrderStep
      <4>1. SUFFICES ASSUME NEW n \in SourceId, NEW o \in SourceId,
                            n >= high, delivered'[n] > delivered[n], delivered[o] > 0
                     PROVE  o < n
        BY DEF InOrderStep
      <4>2. o < f /\ (n >= f \/ n < high)
        BY <1>9, <3>1, <4>1 DEF D, GivenSoFar
      <4>3. n \in Nat /\ o \in Nat
        BY <1>4
      <4>4. QED
        BY <1>4, <4>1, <4>2, <4>3 DEF f
    <3>6. Recent(D \cup e.out, dec'.m_first_missing, high', dec')
      BY <2>4, <2>6, <3>2 DEF Recent
    <3>7. RecentOnce' /\ Remembers'
      BY <1>7, <2>4, <3>3, <3>4, <3>6 DEF RecentOnce, Remembers, GivenBeforeMissing, D
    <3>8. QED
      BY <1>2, <1>5, <1>6, <3>5, <3>7 DEF IInv
  <2>7. CASE ~dec.m_in_order
    <3>1. /\ e.m_ordered_sources = {}
          /\ \A s \in D \cup e.out : s >= now => s \in e.m_sources
          /\ \A n \in e.out : n \notin D \/ n < now
      BY <2>1, <2>7 DEF Recent, RecentAnyOrderCall, now
    <3>2. RecentAnyOrderCall(D \cup e.out, high', dec')
      BY <2>3, <2>4, <3>1 DEF RecentAnyOrderCall
    <3>3. ASSUME NEW s \in SourceId, delivered'[s] = 2
          PROVE  s < high'
      <4>1. s \in Nat
        BY <1>4
      <4>2. CASE delivered[s] = 2
        BY <1>4, <1>6, <2>2, <4>1, <4>2
      <4>3. CASE s \in D /\ s \in e.out
        BY <1>3, <3>1, <4>3 DEF now
      <4>4. QED
        BY <1>8, <3>3, <4>2, <4>3 DEF D
    <3>4. Recent(D \cup e.out, dec'.m_first_missing, high', dec')
      BY <2>4, <2>7, <3>2 DEF Recent
    <3>5. RecentOnce' /\ Remembers' /\ InOrderStep
      BY <1>7, <2>4, <2>7, <3>3, <3>4
      DEF RecentOnce, Remembers, GivenBeforeMissing, InOrderStep, D
    <3>6. QED
      BY <1>2, <1>5, <1>6, <3>5 DEF IInv
  <2>8. QED
    BY <2>6, <2>7
<1>12. QED
  BY <1>10, <1>11

LEMMA NextKeeps == IInv /\ Next => IInv' /\ InOrderStep
<1> SUFFICES ASSUME IInv, Next PROVE IInv' /\ InOrderStep
  OBVIOUS
<1>1. CASE AskAck
  <2> DEFINE e == GenerateAck(dec, dec.m_sources)
  <2>1. dec.fault = "none" /\ Return(e)
    BY <1>1 DEF AskAck
  <2>2. dec \in Decoders /\ dec.m_sources \in SUBSET SourceId
    BY DEF IInv, Sound, Decoders
  <2>3. SameMembers(dec, e) /\ SameFault(dec, e) /\ e.out = dec.out
    BY <2>2, GenerateAckIs
  <2> HIDE DEF e
  <2>4. Sound(e)
    BY <2>3, SameMembersSound DEF IInv, SameFault
  <2>5. Recent(GivenSoFar, dec.m_first_missing, high, e)
    <3>1. Recent(GivenSoFar, dec.m_first_missing, high, dec)
      BY <2>1 DEF IInv, Remembers
    <3>2. QED
      BY <2>3, <3>1, SameRecent DEF SameMembers
  <2>6. e.m_in_order = dec.m_in_order
    BY <2>3 DEF SameMembers
  <2>7. QED
    BY <2>1, <2>4, <2>5, <2>6, CallKeeps
<1>2. ASSUME NEW p \in DataPackets, Notify(p)
      PROVE  IInv' /\ InOrderStep
  <2>1. PICK luck \in BOOLEAN : \E d \in Receive(dec, p, luck) : Return(d)
    BY <1>2 DEF Notify
  <2>2. PICK e \in Receive(dec, p, luck) : Return(e)
    BY <2>1
  <2>3. Sound(dec) /\ dec.fault = "none"
    BY <1>2 DEF Notify, IInv
  <2>4. ReceivedTo(dec, p, e)
    BY <2>2, <2>3, ReceiveIs
  <2>5. Sound(e)
    BY <2>3, <2>4, ReceivedSound
  <2>6. e.m_in_order = dec.m_in_order
    BY <2>4, ReceivedMoves DEF MovedTo
  <2>7. e.fault = "none" => Recent(GivenSoFar, dec.m_first_missing, high, e)
    <3>1. /\ GivenSoFar \in SUBSET SourceId
          /\ dec.m_first_missing \in 0 .. (MaxSource + 1)
          /\ high \in SourceId
          /\ dec.m_last_id <= high
          /\ Recent(GivenSoFar, dec.m_first_missing, high, dec)
      BY <2>3 DEF IInv, Sound, Decoders, HistoriesInRange, GivenSoFar, Remembers
    <3>2. QED
      BY <2>3, <2>4, <3>1, ReceivedRecent
  <2>8. QED
    BY <2>2, <2>3, <2>5, <2>6, <2>7, CallKeeps
<1>3. QED
  BY <1>1, <1>2 DEF Next

LEMMA StutterKeeps == IInv /\ UNCHANGED vars => IInv'
BY DEF vars, IInv, Sound, AtRest, HasValidPointers, HasLiveLinks, HasNothingOutdated,
       HasFlushedQueue, HistoriesInRange, RecentOnce, Remembers, GivenBeforeMissing, GivenSoFar,
       Recent, RecentInOrderCall, RecentAnyOrderCall, HighOf

THEOREM Soundness == Spec => []IInv
<1>1. IInv /\ [Next]_vars => IInv'
  BY NextKeeps, StutterKeeps
<1>2. QED
  BY <1>1, InitHolds, PTL DEF Spec

-----------------------------------------------------------------------------
(***************************************************************************)
(* The theorems.                                                           *)
(***************************************************************************)

(* Whatever is received, the members of a decoder stay in range.           *)
THEOREM TypeCorrect == Spec => []TypeOK
<1>1. IInv => TypeOK
  BY DEF IInv, Sound, HistoriesInRange, TypeOK
<1>2. QED
  BY <1>1, Soundness, PTL

(* Whatever is received, the pointers of m_ordered_sources, which          *)
(* flush_ordered_sources dereferences, point to stored sources.            *)
THEOREM PointersAlwaysValid == Spec => []PointersValid
<1>1. IInv => PointersValid
  BY DEF IInv, Sound, PointersValid
<1>2. QED
  BY <1>1, Soundness, PTL

(* Whatever is received, the iterators of m_missing_sources designate      *)
(* stored repairs that encode the missing source.                          *)
THEOREM LinksAlwaysLive == Spec => []LinksLive
<1>1. IInv => LinksLive
  BY DEF IInv, Sound, LinksLive
<1>2. QED
  BY <1>1, Soundness, PTL

(* Whatever is received, nothing older than m_last_id survives             *)
(* drop_outdated, and no stored repair is empty.                           *)
THEOREM NothingOutdatedStays == Spec => []NothingOutdated
<1>1. IInv => NothingOutdated
  BY DEF IInv, Sound, NothingOutdated
<1>2. QED
  BY <1>1, Soundness, PTL

(* Whatever is received, an in-order decoder does not leave in its queue   *)
(* the source it waits for.                                                *)
THEOREM QueueAlwaysFlushed == Spec => []QueueFlushed
<1>1. IInv => QueueFlushed
  BY DEF IInv, Sound, QueueFlushed
<1>2. QED
  BY <1>1, Soundness, PTL

(* Whatever is received, in whatever order and however often, a source is  *)
(* handed to the user twice only if m_last_id has been past it.            *)
THEOREM RecentAlwaysOnce == Spec => []RecentOnce
<1>1. IInv => RecentOnce
  BY DEF IInv
<1>2. QED
  BY <1>1, Soundness, PTL

(* Whatever is received, a decoder in order hands over no source after a   *)
(* later one, unless m_last_id has been past it.                           *)
THEOREM RecentAlwaysInOrder == Spec => RecentInOrder
<1>1. IInv /\ [Next]_vars => [InOrderStep]_vars
  BY NextKeeps
<1>2. QED
  BY <1>1, Soundness, PTL DEF Spec, RecentInOrder
=============================================================================
