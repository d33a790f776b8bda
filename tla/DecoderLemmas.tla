--------------------------- MODULE DecoderLemmas ---------------------------
(***************************************************************************)
(* What the methods of a decoder object return, for the proofs about a     *)
(* decoder alone and about a decoder joined to an encoder: first every     *)
(* member of the object that an operator returns, then what a whole call   *)
(* preserves, last what it preserves when packets come in order.           *)
(***************************************************************************)
EXTENDS DecoderObject, SetLemmas

-----------------------------------------------------------------------------
(***************************************************************************)
(* Maps and scans.                                                         *)
(***************************************************************************)

(* A scan of consecutive identifiers stops in range, outside the set, with *)
(* everything it passed inside.                                            *)
LEMMA NextGapIs ==
  ASSUME NEW S \in SUBSET SourceId, NEW f \in 0 .. (MaxSource + 1)
  PROVE  /\ NextGap(S, f) \in f .. (MaxSource + 1)
         /\ NextGap(S, f) \notin S
         /\ f .. (NextGap(S, f) - 1) \subseteq S
<1> DEFINE T == {n \in f .. (MaxSource + 1) : n \notin S}
<1>1. MaxSource + 1 \in T
  BY PacketsAssumption DEF SourceId
<1>2. PICK n \in T : \A m \in T : n <= m
  <2>1. T \in SUBSET Nat /\ T # {}
    BY <1>1, PacketsAssumption
  <2> HIDE DEF T
  <2>2. QED
    BY <2>1, LeastElement
<1>3. n \in f .. (MaxSource + 1) /\ n \notin S /\ (f .. (n - 1)) \subseteq S
  BY <1>2, PacketsAssumption
<1>4. QED
  BY <1>3 DEF NextGap

LEMMA PartialIs ==
  ASSUME NEW S, NEW T, NEW f
  PROVE  f \in Partial(S, T) <=> DOMAIN f \subseteq S /\ f \in [DOMAIN f -> T]
BY DEF Partial

LEMMA RestrictIs ==
  ASSUME NEW f, NEW D
  PROVE  /\ DOMAIN Restrict(f, D) = D
         /\ \A x \in D : Restrict(f, D)[x] = f[x]
BY DEF Restrict

LEMMA RestrictPartial ==
  ASSUME NEW S, NEW T, NEW f \in Partial(S, T), NEW D \in SUBSET DOMAIN f
  PROVE  Restrict(f, D) \in Partial(S, T)
BY PartialIs DEF Restrict, Partial

(* The shape of the maps of an object.                                     *)
LEMMA DecoderMaps ==
  ASSUME NEW d \in Decoders
  PROVE  /\ DOMAIN d.m_repairs \subseteq RepairId
         /\ d.m_repairs \in [DOMAIN d.m_repairs -> SUBSET SourceId]
         /\ DOMAIN d.m_missing_sources \subseteq SourceId
         /\ d.m_missing_sources \in [DOMAIN d.m_missing_sources -> SUBSET RepairId]
<1>1. d.m_repairs \in Partial(RepairId, SUBSET SourceId)
  BY DEF Decoders
<1>2. d.m_missing_sources \in Partial(SourceId, SUBSET RepairId)
  BY DEF Decoders
<1>3. QED
  BY <1>1, <1>2, PartialIs

-----------------------------------------------------------------------------
(***************************************************************************)
(* Assertions and callbacks.                                               *)
(***************************************************************************)

(* e differs from d by what the running call has produced, at most.        *)
SameMembers(d, e) ==
  /\ e \in Decoders
  /\ e.m_last_id = d.m_last_id
  /\ e.m_in_order = d.m_in_order
  /\ e.m_sources = d.m_sources
  /\ e.m_repairs = d.m_repairs
  /\ e.m_missing_sources = d.m_missing_sources
  /\ e.m_ordered_sources = d.m_ordered_sources
  /\ e.m_first_missing = d.m_first_missing

(* The acks that the call may end with name nothing but sources of X.      *)
MayAck(d, X) ==
  /\ d.out # {} => d.first \subseteq X
  /\ \A known \in d.seen : known \subseteq X

(* The acks of e name nothing but what those of d name, and S.             *)
NamesMore(d, e, S) == \A X : MayAck(d, X) /\ S \subseteq X => MayAck(e, X)

(* The sources of ids have been given on the way from d to e.              *)
Gives(d, e, ids) ==
  /\ SameMembers(d, e)
  /\ e.out = d.out \cup ids
  /\ e.ack = d.ack

(* No assertion has failed on the way from d to e.                         *)
SameFault(d, e) == e.fault = d.fault

(* An assertion changes nothing but the fault.                             *)
LEMMA RequireIs ==
  ASSUME NEW d \in Decoders, NEW holds \in BOOLEAN,
         NEW name \in Faults \ {"none"}
  PROVE  /\ Gives(d, Require(d, holds, name), {})
         /\ NamesMore(d, Require(d, holds, name), {})
         /\ Require(d, holds, name).fault = "none" <=> d.fault = "none" /\ holds
<1>1. CASE d.fault = "none" /\ ~holds
  BY <1>1 DEF Require, Decoders, Gives, SameMembers, MayAck, NamesMore
<1>2. CASE ~(d.fault = "none" /\ ~holds)
  BY <1>2 DEF Require, Decoders, Gives, SameMembers, MayAck, NamesMore
<1>3. QED
  BY <1>1, <1>2

(* A callback changes nothing but what the call has produced.              *)
LEMMA CallbackIs ==
  ASSUME NEW d \in Decoders, NEW ids \in SUBSET SourceId,
         NEW first \in SUBSET SourceId, NEW held \in SUBSET (SUBSET SourceId)
  PROVE  /\ Gives(d, Callback(d, ids, first, held), ids)
         /\ SameFault(d, Callback(d, ids, first, held))
<1>1. CASE ids = {}
  BY <1>1 DEF Callback, Gives, SameMembers, SameFault
<1>2. CASE ids # {}
  BY <1>2 DEF Callback, Decoders, Gives, SameMembers, SameFault
<1>3. QED
  BY <1>1, <1>2

LEMMA CallbackNames ==
  ASSUME NEW d \in Decoders, NEW ids, NEW first, NEW held,
         NEW S, first \subseteq S, \A known \in held : known \subseteq S
  PROVE  NamesMore(d, Callback(d, ids, first, held), S)
<1>1. CASE ids = {}
  BY <1>1 DEF Callback, NamesMore
<1>2. CASE ids # {}
  BY <1>2 DEF Callback, Decoders, MayAck, NamesMore
<1>3. QED
  BY <1>1, <1>2

-----------------------------------------------------------------------------
(***************************************************************************)
(* drop_outdated.                                                          *)
(***************************************************************************)
DroppedRepairs(d, id) == {r \in DOMAIN d.m_repairs : Outdated(d.m_repairs[r], id)}

(* The assertion on the links of the dropped repairs.                      *)
DropIsLinked(d, id) ==
  \A r \in DroppedRepairs(d, id) : d.m_repairs[r] \subseteq DOMAIN d.m_missing_sources

(* Where in-order delivery starts again, where it stops, what it gives.    *)
DropFirst(d, id) == IF d.m_in_order /\ d.m_first_missing < id THEN id ELSE d.m_first_missing
DropGap(d, id)   == NextGap(d.m_ordered_sources, DropFirst(d, id))
DropGiven(d, id) == LateOrdered(d, id) \cup (DropFirst(d, id) .. (DropGap(d, id) - 1))

(* What is given was queued, and the scan ends on what is not.             *)
LEMMA DropGivenIs ==
  ASSUME NEW d \in Decoders, NEW id \in SourceId
  PROVE  /\ DropFirst(d, id) \in 0 .. (MaxSource + 1)
         /\ DropGap(d, id) \in DropFirst(d, id) .. (MaxSource + 1)
         /\ DropGap(d, id) \notin d.m_ordered_sources
         /\ DropGiven(d, id) \subseteq d.m_ordered_sources
<1>1. /\ d.m_ordered_sources \in SUBSET SourceId
      /\ DropFirst(d, id) \in 0 .. (MaxSource + 1)
  BY PacketsAssumption DEF Decoders, SourceId, DropFirst
<1>2. /\ DropGap(d, id) \in DropFirst(d, id) .. (MaxSource + 1)
      /\ DropGap(d, id) \notin d.m_ordered_sources
      /\ DropFirst(d, id) .. (DropGap(d, id) - 1) \subseteq d.m_ordered_sources
  BY <1>1, NextGapIs DEF DropGap
<1>3. QED
  BY <1>1, <1>2 DEF DropGiven, LateOrdered

(* e is what drop_outdated leaves of d.                                    *)
DroppedTo(d, id, e) ==
  /\ e \in Decoders
  /\ e.m_in_order = d.m_in_order
  /\ e.m_last_id = id
  /\ DOMAIN e.m_repairs = DOMAIN d.m_repairs \ DroppedRepairs(d, id)
  /\ \A r \in DOMAIN e.m_repairs : e.m_repairs[r] = d.m_repairs[r]
  /\ DOMAIN e.m_missing_sources = {k \in DOMAIN d.m_missing_sources : k >= id}
  /\ \A m \in DOMAIN e.m_missing_sources :
       e.m_missing_sources[m] = d.m_missing_sources[m] \ DroppedRepairs(d, id)
  /\ e.m_sources = {s \in d.m_sources : s >= id}
  /\ e.m_ordered_sources = d.m_ordered_sources \ DropGiven(d, id)
  /\ e.m_first_missing = DropGap(d, id)
  /\ e.out = d.out \cup DropGiven(d, id)
  /\ e.ack = d.ack
  /\ NamesMore(d, e, d.m_sources)
  /\ e.fault = "none" <=> d.fault = "none" /\ DropIsLinked(d, id)

LEMMA DropOutdatedIs ==
  ASSUME NEW d \in Decoders, NEW id \in SourceId
  PROVE  DroppedTo(d, id, DropOutdated(d, id))
<1> DEFINE
      dropped == DroppedRepairs(d, id)
      kept    == DOMAIN d.m_repairs \ dropped
      recent  == {k \in DOMAIN d.m_missing_sources : k >= id}
      gap     == DropGap(d, id)
      given   == DropGiven(d, id)
      links   == [m \in recent |-> d.m_missing_sources[m] \ dropped]
      repairs == Restrict(d.m_repairs, kept)
      linked  == DropIsLinked(d, id)
      d0      == Require(d, linked, "end_dereference")
      d1      == Callback(d0, given, d.m_sources, {d.m_sources})
      e       == DropOutdated(d, id)
<1>1. /\ d.m_sources \in SUBSET SourceId
      /\ given \in SUBSET SourceId
      /\ gap \in 0 .. (MaxSource + 1)
  <2>1. d.m_sources \in SUBSET SourceId /\ d.m_ordered_sources \in SUBSET SourceId
    BY DEF Decoders
  <2>2. given \subseteq d.m_ordered_sources
    BY DropGivenIs
  <2>3. DropFirst(d, id) \in 0 .. (MaxSource + 1) /\ gap \in DropFirst(d, id) .. (MaxSource + 1)
    BY DropGivenIs
  <2>4. gap \in 0 .. (MaxSource + 1)
    BY <2>3, PacketsAssumption
  <2>5. QED
    BY <2>1, <2>2, <2>4
<1>2. /\ Gives(d, d0, {})
      /\ NamesMore(d, d0, {})
      /\ d0.fault = "none" <=> d.fault = "none" /\ linked
  <2>1. linked \in BOOLEAN
    BY DEF DropIsLinked
  <2> HIDE DEF linked
  <2>2. QED
    BY <2>1, RequireIs DEF Faults
<1>3. /\ Gives(d, d1, given)
      /\ NamesMore(d, d1, d.m_sources)
      /\ d1.fault = "none" <=> d.fault = "none" /\ linked
  <2> HIDE DEF d0, given, linked
  <2>1. /\ d0 \in Decoders
        /\ given \in SUBSET SourceId
        /\ d.m_sources \in SUBSET SourceId
        /\ {d.m_sources} \in SUBSET (SUBSET SourceId)
    <3>1. d0 \in Decoders
      BY <1>2 DEF Gives, SameMembers
    <3>2. {d.m_sources} \in SUBSET (SUBSET SourceId)
      BY <1>1, Zenon
    <3>3. QED
      BY <1>1, <3>1, <3>2, Zenon
  <2>2. Gives(d0, d1, given) /\ SameFault(d0, d1)
    BY <2>1, CallbackIs
  <2>3. NamesMore(d0, d1, d.m_sources)
    BY <2>1, CallbackNames
  <2> HIDE DEF d1
  <2>4. NamesMore(d, d1, d.m_sources)
    BY <1>2, <2>3 DEF NamesMore
  <2>5. QED
    BY <1>2, <2>2, <2>4 DEF Gives, SameMembers, SameFault
<1>4. e = [d1 EXCEPT
             !.m_last_id         = id,
             !.m_repairs         = repairs,
             !.m_missing_sources = links,
             !.m_sources         = {s \in @ : s >= id},
             !.m_ordered_sources = @ \ given,
             !.m_first_missing   = gap]
  BY DEF DropOutdated, Unlinked, DroppedRepairs, DropFirst, DropGap, DropGiven, DropIsLinked
<1>5. /\ repairs \in Partial(RepairId, SUBSET SourceId)
      /\ links \in Partial(SourceId, SUBSET RepairId)
  <2>1. d.m_repairs \in Partial(RepairId, SUBSET SourceId)
    BY DEF Decoders
  <2>2. recent \subseteq SourceId
    BY DecoderMaps
  <2>3. links \in [recent -> SUBSET RepairId]
    BY DecoderMaps
  <2>4. QED
    BY <2>1, <2>2, <2>3, RestrictPartial, PartialIs
<1>6. /\ e \in Decoders
      /\ e.m_in_order = d.m_in_order
      /\ e.m_last_id = id
      /\ e.m_repairs = repairs
      /\ e.m_missing_sources = links
      /\ e.m_sources = {s \in d.m_sources : s >= id}
      /\ e.m_ordered_sources = d.m_ordered_sources \ given
      /\ e.m_first_missing = gap
      /\ e.out = d1.out /\ e.ack = d1.ack /\ e.first = d1.first /\ e.seen = d1.seen
      /\ e.fault = d1.fault
  <2> HIDE DEF d1, e, repairs, links, given, gap
  <2>1. QED
    BY <1>1, <1>3, <1>4, <1>5 DEF Decoders, Gives, SameMembers
<1>7. NamesMore(d, e, d.m_sources)
  <2> HIDE DEF d1, e
  <2>1. \A X : MayAck(d1, X) => MayAck(e, X)
    BY <1>6 DEF MayAck
  <2>2. QED
    BY <1>3, <2>1 DEF NamesMore
<1>8. /\ DOMAIN e.m_repairs = kept
      /\ \A r \in kept : e.m_repairs[r] = d.m_repairs[r]
      /\ DOMAIN e.m_missing_sources = recent
      /\ \A m \in recent : e.m_missing_sources[m] = d.m_missing_sources[m] \ dropped
  <2> HIDE DEF e, kept
  <2>1. QED
    BY <1>6, RestrictIs
<1> HIDE DEF d1, e
<1>9. QED
  BY <1>3, <1>6, <1>7, <1>8 DEF e, Gives, DroppedTo

-----------------------------------------------------------------------------
(***************************************************************************)
(* add_source_recursive.                                                   *)
(***************************************************************************)

(* Removing a source from repairs leaves them in range.                    *)
LEMMA RemoveSourceIs ==
  ASSUME NEW repairs \in Partial(RepairId, SUBSET SourceId), NEW refs, NEW s
  PROVE  RemoveSourceFromRepairs(repairs, refs, s) \in Partial(RepairId, SUBSET SourceId)
<1>1. DOMAIN repairs \subseteq RepairId /\ repairs \in [DOMAIN repairs -> SUBSET SourceId]
  BY PartialIs
<1>2. RemoveSourceFromRepairs(repairs, refs, s) \in [DOMAIN repairs -> SUBSET SourceId]
  BY <1>1 DEF RemoveSourceFromRepairs
<1>3. QED
  BY <1>1, <1>2, PartialIs

(* Where in-order delivery stops, and what it has passed.                  *)
LEMMA InOrderGapIs ==
  ASSUME NEW d \in Decoders, NEW s \in SourceId, NEW ready \in SUBSET SourceId
  PROVE  /\ InOrderGap(d, s, ready) \in d.m_first_missing .. (MaxSource + 1)
         /\ InOrderGap(d, s, ready) \notin d.m_ordered_sources
         /\ d.m_first_missing .. (InOrderGap(d, s, ready) - 1)
              \subseteq d.m_ordered_sources \cup ready \cup {s}
<1> DEFINE known == d.m_ordered_sources \cup ready
           avail == IF s = d.m_first_missing THEN known \cup {s} ELSE known
<1>1. /\ avail \in SUBSET SourceId
      /\ d.m_first_missing \in 0 .. (MaxSource + 1)
      /\ d.m_ordered_sources \subseteq avail
      /\ avail \subseteq d.m_ordered_sources \cup ready \cup {s}
  BY DEF Decoders
<1>2. InOrderGap(d, s, ready) = NextGap(avail, d.m_first_missing)
  BY DEF InOrderGap
<1> HIDE DEF avail
<1>3. QED
  BY <1>1, <1>2, NextGapIs

(* The repairs that encode s, the links of the other missing sources, the  *)
(* repairs without s, the sources that the recursion rebuilds and the      *)
(* repairs it rebuilds them from.                                          *)
SourceLinks(d, s) == IF s \in DOMAIN d.m_missing_sources THEN d.m_missing_sources[s] ELSE {}
OtherLinks(d, s)  == Restrict(d.m_missing_sources, DOMAIN d.m_missing_sources \ {s})
ReducedRepairs(d, s) == RemoveSourceFromRepairs(d.m_repairs, SourceLinks(d, s), s)
ReadySources(d, s)   == Ready(OtherLinks(d, s), ReducedRepairs(d, s))
UsedRepairs(d, s)    == UNION {OtherLinks(d, s)[m] : m \in ReadySources(d, s)}

(* Where in-order delivery stops, and what is given.                       *)
AddGap(d, s)   == IF d.m_in_order THEN InOrderGap(d, s, ReadySources(d, s)) ELSE d.m_first_missing
AddGiven(d, s) == IF d.m_in_order THEN d.m_first_missing .. (AddGap(d, s) - 1)
                                  ELSE ReadySources(d, s) \cup {s}

(* What the code asserts, or must hold for its behaviour to be defined.    *)
AddLeavesSome(d, s) == \A r \in SourceLinks(d, s) : ReducedRepairs(d, s)[r] # {}
AddIsFresh(d, s)    == ReadySources(d, s) \cap d.m_sources = {}
AddIsStable(d, s)   == ~ErasesNext(OtherLinks(d, s), ReadySources(d, s))

LEMMA AddPartsAre ==
  ASSUME NEW d \in Decoders, NEW s \in SourceId
  PROVE  /\ OtherLinks(d, s) \in Partial(SourceId, SUBSET RepairId)
         /\ DOMAIN OtherLinks(d, s) = DOMAIN d.m_missing_sources \ {s}
         /\ \A m \in DOMAIN OtherLinks(d, s) : OtherLinks(d, s)[m] = d.m_missing_sources[m]
         /\ ReducedRepairs(d, s) \in Partial(RepairId, SUBSET SourceId)
         /\ DOMAIN ReducedRepairs(d, s) = DOMAIN d.m_repairs
         /\ \A r \in DOMAIN d.m_repairs :
              ReducedRepairs(d, s)[r] = IF r \in SourceLinks(d, s) THEN d.m_repairs[r] \ {s}
                                                                    ELSE d.m_repairs[r]
         /\ ReadySources(d, s) \subseteq DOMAIN d.m_missing_sources \ {s}
         /\ ReadySources(d, s) \in SUBSET SourceId
<1>1. /\ d.m_missing_sources \in Partial(SourceId, SUBSET RepairId)
      /\ d.m_repairs \in Partial(RepairId, SUBSET SourceId)
  BY DEF Decoders
<1>2. /\ OtherLinks(d, s) \in Partial(SourceId, SUBSET RepairId)
      /\ DOMAIN OtherLinks(d, s) = DOMAIN d.m_missing_sources \ {s}
      /\ \A m \in DOMAIN OtherLinks(d, s) : OtherLinks(d, s)[m] = d.m_missing_sources[m]
  BY <1>1, RestrictPartial, RestrictIs DEF OtherLinks
<1>3. /\ ReducedRepairs(d, s) \in Partial(RepairId, SUBSET SourceId)
      /\ DOMAIN ReducedRepairs(d, s) = DOMAIN d.m_repairs
      /\ \A r \in DOMAIN d.m_repairs :
           ReducedRepairs(d, s)[r] = IF r \in SourceLinks(d, s) THEN d.m_repairs[r] \ {s}
                                                                 ELSE d.m_repairs[r]
  <2>1. ReducedRepairs(d, s) \in Partial(RepairId, SUBSET SourceId)
    BY <1>1, RemoveSourceIs DEF ReducedRepairs
  <2>2. QED
    BY <2>1 DEF ReducedRepairs, RemoveSourceFromRepairs
<1>4. ReadySources(d, s) \subseteq DOMAIN OtherLinks(d, s)
  BY DEF ReadySources, Ready
<1>5. DOMAIN OtherLinks(d, s) \subseteq SourceId
  BY <1>2, PartialIs
<1>6. QED
  BY <1>2, <1>3, <1>4, <1>5

LEMMA AddGivenIs ==
  ASSUME NEW d \in Decoders, NEW s \in SourceId
  PROVE  /\ AddGap(d, s) \in d.m_first_missing .. (MaxSource + 1)
         /\ d.m_in_order => AddGap(d, s) \notin d.m_ordered_sources
         /\ AddGiven(d, s) \subseteq d.m_ordered_sources \cup ReadySources(d, s) \cup {s}
         /\ AddGiven(d, s) \in SUBSET SourceId
<1>1. /\ d.m_first_missing \in 0 .. (MaxSource + 1)
      /\ d.m_ordered_sources \in SUBSET SourceId
  BY DEF Decoders
<1>2. ReadySources(d, s) \in SUBSET SourceId
  BY AddPartsAre
<1>3. CASE d.m_in_order
  <2>1. /\ AddGap(d, s) \in d.m_first_missing .. (MaxSource + 1)
        /\ AddGap(d, s) \notin d.m_ordered_sources
        /\ d.m_first_missing .. (AddGap(d, s) - 1)
             \subseteq d.m_ordered_sources \cup ReadySources(d, s) \cup {s}
    BY <1>2, <1>3, InOrderGapIs DEF AddGap
  <2>2. AddGiven(d, s) \subseteq d.m_ordered_sources \cup ReadySources(d, s) \cup {s}
    BY <1>3, <2>1 DEF AddGiven
  <2>3. QED
    BY <1>1, <1>2, <2>1, <2>2
<1>4. CASE ~d.m_in_order
  <2>1. AddGap(d, s) = d.m_first_missing /\ AddGiven(d, s) = ReadySources(d, s) \cup {s}
    BY <1>4 DEF AddGap, AddGiven
  <2>2. d.m_first_missing \in d.m_first_missing .. (MaxSource + 1)
    BY <1>1, PacketsAssumption
  <2>3. QED
    BY <1>2, <1>4, <2>1, <2>2
<1>5. QED
  BY <1>3, <1>4

(* e is what add_source_recursive leaves of d.                             *)
AddedTo(d, s, e) ==
  /\ e \in Decoders
  /\ e.m_in_order = d.m_in_order
  /\ e.m_last_id = d.m_last_id
  /\ DOMAIN e.m_repairs = DOMAIN d.m_repairs \ UsedRepairs(d, s)
  /\ \A r \in DOMAIN e.m_repairs : e.m_repairs[r] = ReducedRepairs(d, s)[r]
  /\ DOMAIN e.m_missing_sources = (DOMAIN d.m_missing_sources \ {s}) \ ReadySources(d, s)
  /\ \A m \in DOMAIN e.m_missing_sources : e.m_missing_sources[m] = d.m_missing_sources[m]
  /\ e.m_sources = d.m_sources \cup ReadySources(d, s) \cup {s}
  /\ e.m_ordered_sources =
       IF d.m_in_order
       THEN (d.m_ordered_sources \ AddGiven(d, s))
              \cup {k \in ReadySources(d, s) \cup {s} : k > AddGap(d, s)}
       ELSE d.m_ordered_sources
  /\ e.m_first_missing = AddGap(d, s)
  /\ e.out = d.out \cup AddGiven(d, s)
  /\ e.ack = d.ack
  /\ NamesMore(d, e, d.m_sources)
  /\ e.fault = "none" <=> d.fault = "none" /\ AddLeavesSome(d, s) /\ AddIsFresh(d, s) /\ AddIsStable(d, s)

LEMMA AddSourceIs ==
  ASSUME NEW d \in Decoders, NEW s \in SourceId
  PROVE  AddedTo(d, s, AddSource(d, s))
<1> DEFINE
      missing == OtherLinks(d, s)
      repairs == ReducedRepairs(d, s)
      ready   == ReadySources(d, s)
      used    == UsedRepairs(d, s)
      new     == ready \cup {s}
      gap     == AddGap(d, s)
      given   == AddGiven(d, s)
      full    == AddLeavesSome(d, s)
      fresh   == AddIsFresh(d, s)
      stable  == AddIsStable(d, s)
      d1      == Require(d, full, "last_source_of_repair")
      d2      == Require(d1, fresh, "ready_already_known")
      d3      == Require(d2, stable, "dangling_iterator")
      d4      == Callback(d3, given, d.m_sources, {d.m_sources})
      links1   == Restrict(missing, DOMAIN missing \ ready)
      repairs1 == Restrict(repairs, DOMAIN repairs \ used)
      queue    == IF d.m_in_order THEN (d.m_ordered_sources \ given) \cup {k \in new : k > gap}
                                  ELSE d.m_ordered_sources
      e        == AddSource(d, s)
<1>1. /\ d.m_sources \in SUBSET SourceId
      /\ d.m_ordered_sources \in SUBSET SourceId
      /\ d.m_first_missing \in 0 .. (MaxSource + 1)
  BY DEF Decoders
<1>2. /\ new \in SUBSET SourceId
      /\ given \in SUBSET SourceId
      /\ gap \in 0 .. (MaxSource + 1)
  <2>1. ready \in SUBSET SourceId /\ given \in SUBSET SourceId
    BY AddPartsAre, AddGivenIs
  <2>2. gap \in d.m_first_missing .. (MaxSource + 1)
    BY AddGivenIs
  <2> HIDE DEF gap, given, ready
  <2>3. gap \in 0 .. (MaxSource + 1)
    BY <1>1, <2>2, PacketsAssumption
  <2>4. QED
    BY <2>1, <2>3
<1>3. /\ Gives(d, d3, {})
      /\ NamesMore(d, d3, {})
      /\ d3.fault = "none" <=> d.fault = "none" /\ full /\ fresh /\ stable
  <2>1. full \in BOOLEAN /\ fresh \in BOOLEAN /\ stable \in BOOLEAN
    BY DEF AddLeavesSome, AddIsFresh, AddIsStable, ErasesNext
  <2> HIDE DEF full, fresh, stable
  <2>2. /\ Gives(d, d1, {}) /\ NamesMore(d, d1, {})
        /\ d1.fault = "none" <=> d.fault = "none" /\ full
    BY <2>1, RequireIs DEF Faults
  <2> HIDE DEF d1
  <2>3. d1 \in Decoders
    BY <2>2 DEF Gives, SameMembers
  <2>4. /\ Gives(d1, d2, {}) /\ NamesMore(d1, d2, {})
        /\ d2.fault = "none" <=> d1.fault = "none" /\ fresh
    BY <2>1, <2>3, RequireIs DEF Faults
  <2> HIDE DEF d2
  <2>5. d2 \in Decoders
    BY <2>4 DEF Gives, SameMembers
  <2>6. /\ Gives(d2, d3, {}) /\ NamesMore(d2, d3, {})
        /\ d3.fault = "none" <=> d2.fault = "none" /\ stable
    BY <2>1, <2>5, RequireIs DEF Faults
  <2> HIDE DEF d3
  <2>7. Gives(d, d3, {})
    BY <2>2, <2>4, <2>6 DEF Gives, SameMembers
  <2>8. NamesMore(d, d3, {})
    BY <2>2, <2>4, <2>6 DEF NamesMore
  <2>9. QED
    BY <2>2, <2>4, <2>6, <2>7, <2>8
<1>4. /\ Gives(d, d4, given)
      /\ NamesMore(d, d4, d.m_sources)
      /\ d4.fault = "none" <=> d.fault = "none" /\ full /\ fresh /\ stable
  <2> HIDE DEF d3, given, full, fresh, stable
  <2>1. /\ d3 \in Decoders
        /\ given \in SUBSET SourceId
        /\ d.m_sources \in SUBSET SourceId
        /\ {d.m_sources} \in SUBSET (SUBSET SourceId)
    <3>1. d3 \in Decoders
      BY <1>3 DEF Gives, SameMembers
    <3>2. {d.m_sources} \in SUBSET (SUBSET SourceId)
      BY <1>1, Zenon
    <3>3. QED
      BY <1>1, <1>2, <3>1, <3>2, Zenon
  <2>2. Gives(d3, d4, given) /\ SameFault(d3, d4)
    BY <2>1, CallbackIs
  <2>3. NamesMore(d3, d4, d.m_sources)
    BY <2>1, CallbackNames
  <2> HIDE DEF d4
  <2>4. NamesMore(d, d4, d.m_sources)
    BY <1>3, <2>3 DEF NamesMore
  <2>5. QED
    BY <1>3, <2>2, <2>4 DEF Gives, SameMembers, SameFault
<1>5. /\ links1 \in Partial(SourceId, SUBSET RepairId)
      /\ repairs1 \in Partial(RepairId, SUBSET SourceId)
  <2>1. /\ missing \in Partial(SourceId, SUBSET RepairId)
        /\ repairs \in Partial(RepairId, SUBSET SourceId)
    BY AddPartsAre
  <2> HIDE DEF missing, repairs
  <2>2. QED
    BY <2>1, RestrictPartial
<1>6. queue \in SUBSET SourceId
  <2> HIDE DEF given, gap, new
  <2>1. QED
    BY <1>1, <1>2
<1>7. e = [d4 EXCEPT
             !.m_repairs         = repairs1,
             !.m_missing_sources = links1,
             !.m_sources         = @ \cup new,
             !.m_ordered_sources = IF d.m_in_order THEN (@ \ given) \cup {k \in new : k > gap} ELSE @,
             !.m_first_missing   = gap]
  BY DEF AddSource, HandedOver, OtherLinks, SourceLinks, ReducedRepairs, ReadySources, UsedRepairs,
         AddGap, AddGiven, AddLeavesSome, AddIsFresh, AddIsStable
<1>8. /\ e \in Decoders
      /\ e.m_in_order = d.m_in_order
      /\ e.m_last_id = d.m_last_id
      /\ e.m_repairs = repairs1
      /\ e.m_missing_sources = links1
      /\ e.m_sources = d.m_sources \cup new
      /\ e.m_ordered_sources = queue
      /\ e.m_first_missing = gap
      /\ e.out = d4.out /\ e.ack = d4.ack /\ e.first = d4.first /\ e.seen = d4.seen
      /\ e.fault = d4.fault
  <2>1. /\ d4 \in Decoders
        /\ d4.m_ordered_sources = d.m_ordered_sources
        /\ d4.m_sources = d.m_sources
        /\ d4.m_in_order = d.m_in_order
        /\ d4.m_last_id = d.m_last_id
    BY <1>4 DEF Gives, SameMembers
  <2> DEFINE sources == d.m_sources \cup new
  <2>2. sources \in SUBSET SourceId
    BY <1>1, <1>2
  <2>3. e = [d4 EXCEPT !.m_repairs = repairs1, !.m_missing_sources = links1, !.m_sources = sources,
                       !.m_ordered_sources = queue, !.m_first_missing = gap]
    <3> HIDE DEF d4, e, repairs1, links1, new, gap, given
    <3>1. QED
      BY <1>7, <2>1 DEF Decoders
  <2> HIDE DEF d4, e, repairs1, links1, queue, gap, sources
  <2>4. QED
    BY <1>2, <1>5, <1>6, <2>1, <2>2, <2>3 DEF Decoders, sources
<1>9. NamesMore(d, e, d.m_sources)
  <2> HIDE DEF d4, e
  <2>1. \A X : MayAck(d4, X) => MayAck(e, X)
    BY <1>8 DEF MayAck
  <2>2. QED
    BY <1>4, <2>1 DEF NamesMore
<1>10. /\ DOMAIN e.m_repairs = DOMAIN d.m_repairs \ used
       /\ \A r \in DOMAIN e.m_repairs : e.m_repairs[r] = repairs[r]
       /\ DOMAIN e.m_missing_sources = (DOMAIN d.m_missing_sources \ {s}) \ ready
       /\ \A m \in DOMAIN e.m_missing_sources : e.m_missing_sources[m] = d.m_missing_sources[m]
  <2>1. /\ DOMAIN missing = DOMAIN d.m_missing_sources \ {s}
        /\ \A m \in DOMAIN missing : missing[m] = d.m_missing_sources[m]
        /\ DOMAIN repairs = DOMAIN d.m_repairs
    BY AddPartsAre
  <2> HIDE DEF e, missing, repairs, used, ready
  <2>2. QED
    BY <1>8, <2>1, RestrictIs
<1> HIDE DEF d4, e
<1>11. QED
  BY <1>4, <1>8, <1>9, <1>10 DEF AddedTo, Gives, e

-----------------------------------------------------------------------------
(***************************************************************************)
(* attempt_full_decoding.                                                  *)
(***************************************************************************)

(* e has the links and the repairs of d but for those that change; nothing *)
(* else of the object has changed, and nothing has been given.             *)
OnlyRelinked(d, e) ==
  /\ e \in Decoders
  /\ e.m_in_order = d.m_in_order
  /\ e.m_last_id = d.m_last_id
  /\ e.m_sources = d.m_sources
  /\ e.m_ordered_sources = d.m_ordered_sources
  /\ e.m_first_missing = d.m_first_missing
  /\ e.out = d.out
  /\ e.ack = d.ack
  /\ NamesMore(d, e, {})
  /\ e.fault = d.fault

Relinked(d, repairs, missing) ==
  [d EXCEPT !.m_repairs = repairs, !.m_missing_sources = missing]

RelinkedTo(d, repairs, missing, e) ==
  OnlyRelinked(d, e) /\ e.m_repairs = repairs /\ e.m_missing_sources = missing

LEMMA RelinkIs ==
  ASSUME NEW d \in Decoders,
         NEW repairs \in Partial(RepairId, SUBSET SourceId),
         NEW missing \in Partial(SourceId, SUBSET RepairId)
  PROVE  RelinkedTo(d, repairs, missing, Relinked(d, repairs, missing))
<1> DEFINE e == Relinked(d, repairs, missing)
<1>1. e = [d EXCEPT !.m_repairs = repairs, !.m_missing_sources = missing]
  BY DEF Relinked
<1> HIDE DEF e
<1>2. /\ e \in Decoders
      /\ e.m_repairs = repairs /\ e.m_missing_sources = missing
      /\ e.m_in_order = d.m_in_order
      /\ e.m_last_id = d.m_last_id
      /\ e.m_sources = d.m_sources
      /\ e.m_ordered_sources = d.m_ordered_sources
      /\ e.m_first_missing = d.m_first_missing
      /\ e.out = d.out /\ e.ack = d.ack /\ e.first = d.first /\ e.seen = d.seen
      /\ e.fault = d.fault
  BY <1>1 DEF Decoders
<1>3. NamesMore(d, e, {})
  BY <1>2 DEF NamesMore, MayAck
<1>4. QED
  BY <1>2, <1>3 DEF OnlyRelinked, RelinkedTo, e

(* e is d without one of its repairs; its sources that were not missing    *)
(* are now.                                                                *)
GivenUpTo(d, faulty, e) ==
  /\ faulty \in DOMAIN d.m_repairs
  /\ OnlyRelinked(d, e)
  /\ DOMAIN e.m_repairs = DOMAIN d.m_repairs \ {faulty}
  /\ \A r \in DOMAIN e.m_repairs : e.m_repairs[r] = d.m_repairs[r]
  /\ DOMAIN e.m_missing_sources = DOMAIN d.m_missing_sources \cup d.m_repairs[faulty]
  /\ \A m \in DOMAIN e.m_missing_sources :
       e.m_missing_sources[m] = IF m \in DOMAIN d.m_missing_sources
                                THEN IF m \in d.m_repairs[faulty]
                                     THEN d.m_missing_sources[m] \ {faulty}
                                     ELSE d.m_missing_sources[m]
                                ELSE {}

LEMMA RemoveFaultyRepairIs ==
  ASSUME NEW d \in Decoders, DOMAIN d.m_repairs # {}
  PROVE  GivenUpTo(d, Max(DOMAIN d.m_repairs), RemoveFaultyRepair(d))
<1> DEFINE
      faulty  == Max(DOMAIN d.m_repairs)
      ids     == d.m_repairs[faulty]
      links   == d.m_missing_sources
      left(m) == IF m \in ids THEN links[m] \ {faulty} ELSE links[m]
      repairs == Restrict(d.m_repairs, DOMAIN d.m_repairs \ {faulty})
      missing == [m \in DOMAIN links \cup ids |-> IF m \in DOMAIN links THEN left(m) ELSE {}]
      e       == RemoveFaultyRepair(d)
<1>1. /\ DOMAIN d.m_repairs \subseteq RepairId
      /\ d.m_repairs \in [DOMAIN d.m_repairs -> SUBSET SourceId]
      /\ DOMAIN links \subseteq SourceId
      /\ links \in [DOMAIN links -> SUBSET RepairId]
  BY DecoderMaps
<1>2. faulty \in DOMAIN d.m_repairs
  BY <1>1, MaxIs, PacketsAssumption DEF RepairId
<1> HIDE DEF faulty
<1>3. ids \in SUBSET SourceId
  BY <1>1, <1>2
<1>4. /\ repairs \in Partial(RepairId, SUBSET SourceId)
      /\ missing \in Partial(SourceId, SUBSET RepairId)
  <2>1. d.m_repairs \in Partial(RepairId, SUBSET SourceId)
    BY DEF Decoders
  <2>2. missing \in [DOMAIN links \cup ids -> SUBSET RepairId]
    BY <1>1
  <2>3. QED
    BY <1>1, <1>3, <2>1, <2>2, RestrictPartial, PartialIs
<1>5. e = Relinked(d, repairs, missing)
  BY DEF RemoveFaultyRepair, Relinked, faulty
<1>6. OnlyRelinked(d, e) /\ e.m_repairs = repairs /\ e.m_missing_sources = missing
  <2> HIDE DEF e, repairs, missing
  <2>1. RelinkedTo(d, repairs, missing, Relinked(d, repairs, missing))
    BY <1>4, RelinkIs
  <2>2. QED
    BY <1>5, <2>1 DEF RelinkedTo
<1>7. DOMAIN repairs = DOMAIN d.m_repairs \ {faulty} /\ \A r \in DOMAIN repairs : repairs[r] = d.m_repairs[r]
  BY RestrictIs
<1> HIDE DEF e, repairs
<1>8. GivenUpTo(d, faulty, e)
  BY <1>2, <1>6, <1>7 DEF GivenUpTo
<1>9. QED
  BY <1>8 DEF e, faulty

(* Where in-order delivery stops when all that is missing is known, and    *)
(* what is given.                                                          *)
Available(d) == d.m_ordered_sources \cup DOMAIN d.m_missing_sources
DecodeGap(d) == IF d.m_in_order /\ d.m_first_missing \in DOMAIN d.m_missing_sources
                THEN NextGap(Available(d), d.m_first_missing) ELSE d.m_first_missing
DecodeGiven(d) == IF d.m_in_order THEN d.m_first_missing .. (DecodeGap(d) - 1)
                                  ELSE DOMAIN d.m_missing_sources

(* What must hold for the data to be right, and what the code asserts.     *)
DecodeIsClean(d) == \A r \in DOMAIN d.m_repairs : d.m_repairs[r] \subseteq DOMAIN d.m_missing_sources
DecodeIsFresh(d) == DOMAIN d.m_missing_sources \cap d.m_sources = {}

LEMMA DecodeGivenIs ==
  ASSUME NEW d \in Decoders, HasFlushedQueue(d)
  PROVE  /\ DecodeGap(d) \in d.m_first_missing .. (MaxSource + 1)
         /\ d.m_in_order => DecodeGap(d) \notin Available(d)
         /\ DecodeGiven(d) \subseteq Available(d)
         /\ Available(d) \in SUBSET SourceId
<1>1. /\ Available(d) \in SUBSET SourceId
      /\ DOMAIN d.m_missing_sources \in SUBSET SourceId
      /\ d.m_first_missing \in 0 .. (MaxSource + 1)
  BY DecoderMaps DEF Decoders, Available
<1>2. CASE d.m_in_order /\ d.m_first_missing \in DOMAIN d.m_missing_sources
  <2>1. /\ DecodeGap(d) \in d.m_first_missing .. (MaxSource + 1)
        /\ DecodeGap(d) \notin Available(d)
        /\ d.m_first_missing .. (DecodeGap(d) - 1) \subseteq Available(d)
    BY <1>1, <1>2, NextGapIs DEF DecodeGap
  <2>2. QED
    BY <1>1, <1>2, <2>1 DEF DecodeGiven
<1>3. CASE ~(d.m_in_order /\ d.m_first_missing \in DOMAIN d.m_missing_sources)
  <2>1. DecodeGap(d) = d.m_first_missing
    BY <1>3 DEF DecodeGap
  <2>2. d.m_in_order => DecodeGap(d) \notin Available(d)
    BY <1>3, <2>1 DEF HasFlushedQueue, Available
  <2>3. d.m_first_missing \in d.m_first_missing .. (MaxSource + 1)
    BY <1>1, PacketsAssumption
  <2>4. d.m_in_order => DecodeGiven(d) = {}
    BY <1>1, <2>1, PacketsAssumption DEF DecodeGiven
  <2>5. ~d.m_in_order => DecodeGiven(d) = DOMAIN d.m_missing_sources
    BY DEF DecodeGiven
  <2>6. QED
    BY <1>1, <2>1, <2>2, <2>3, <2>4, <2>5 DEF Available
<1>4. QED
  BY <1>2, <1>3

(* e is what a successful inversion leaves of d.                           *)
DecodedTo(d, e) ==
  /\ e \in Decoders
  /\ e.m_in_order = d.m_in_order
  /\ e.m_last_id = d.m_last_id
  /\ DOMAIN e.m_repairs = {}
  /\ DOMAIN e.m_missing_sources = {}
  /\ e.m_sources = d.m_sources \cup DOMAIN d.m_missing_sources
  /\ e.m_ordered_sources = IF d.m_in_order THEN Available(d) \ DecodeGiven(d) ELSE d.m_ordered_sources
  /\ e.m_first_missing = DecodeGap(d)
  /\ e.out = d.out \cup DecodeGiven(d)
  /\ e.ack = d.ack
  /\ NamesMore(d, e, d.m_sources \cup DOMAIN d.m_missing_sources)
  /\ e.fault = "none" <=> d.fault = "none" /\ DecodeIsClean(d) /\ DecodeIsFresh(d)

LEMMA DecodeAllIs ==
  ASSUME NEW d \in Decoders, HasFlushedQueue(d)
  PROVE  DecodedTo(d, DecodeAll(d))
<1> DEFINE
      missing == DOMAIN d.m_missing_sources
      avail   == Available(d)
      gap     == DecodeGap(d)
      given   == DecodeGiven(d)
      upto(g) == d.m_sources \cup {m \in missing : m <= g}
      turns   == given \cap missing
      first   == d.m_sources \cup {m \in missing : \A g \in turns : m <= g}
      held    == {upto(g) : g \in turns}
      known   == d.m_sources \cup missing
      clean   == DecodeIsClean(d)
      fresh   == DecodeIsFresh(d)
      d1      == Require(d, clean, "garbage_decoded")
      d2      == Require(d1, fresh, "source_already_added")
      d3      == Callback(d2, given, first, held)
      queue   == IF d.m_in_order THEN avail \ given ELSE d.m_ordered_sources
      e       == DecodeAll(d)
<1>1. /\ missing \in SUBSET SourceId
      /\ d.m_sources \in SUBSET SourceId
      /\ d.m_ordered_sources \in SUBSET SourceId
      /\ d.m_first_missing \in 0 .. (MaxSource + 1)
  BY DecoderMaps DEF Decoders
<1>2. /\ avail \in SUBSET SourceId
      /\ given \in SUBSET SourceId
      /\ gap \in 0 .. (MaxSource + 1)
  <2>1. /\ avail \in SUBSET SourceId /\ given \subseteq avail
        /\ gap \in d.m_first_missing .. (MaxSource + 1)
    BY DecodeGivenIs
  <2> HIDE DEF avail, given, gap
  <2>2. gap \in 0 .. (MaxSource + 1)
    BY <1>1, <2>1, PacketsAssumption
  <2>3. QED
    BY <2>1, <2>2
<1>3. /\ first \in SUBSET SourceId
      /\ held \in SUBSET (SUBSET SourceId)
      /\ first \subseteq known
      /\ \A k \in held : k \subseteq known
  <2> HIDE DEF missing, given
  <2>1. QED
    BY <1>1, <1>2
<1>4. /\ Gives(d, d2, {})
      /\ NamesMore(d, d2, {})
      /\ d2.fault = "none" <=> d.fault = "none" /\ clean /\ fresh
  <2>1. clean \in BOOLEAN /\ fresh \in BOOLEAN
    BY DEF DecodeIsClean, DecodeIsFresh
  <2> HIDE DEF clean, fresh
  <2>2. /\ Gives(d, d1, {}) /\ NamesMore(d, d1, {})
        /\ d1.fault = "none" <=> d.fault = "none" /\ clean
    BY <2>1, RequireIs DEF Faults
  <2> HIDE DEF d1
  <2>3. d1 \in Decoders
    BY <2>2 DEF Gives, SameMembers
  <2>4. /\ Gives(d1, d2, {}) /\ NamesMore(d1, d2, {})
        /\ d2.fault = "none" <=> d1.fault = "none" /\ fresh
    BY <2>1, <2>3, RequireIs DEF Faults
  <2> HIDE DEF d2
  <2>5. Gives(d, d2, {})
    BY <2>2, <2>4 DEF Gives, SameMembers
  <2>6. NamesMore(d, d2, {})
    BY <2>2, <2>4 DEF NamesMore
  <2>7. QED
    BY <2>2, <2>4, <2>5, <2>6
<1>5. /\ Gives(d, d3, given)
      /\ NamesMore(d, d3, known)
      /\ d3.fault = "none" <=> d.fault = "none" /\ clean /\ fresh
  <2> HIDE DEF d2, given, clean, fresh, first, held, known
  <2>1. d2 \in Decoders
    BY <1>4 DEF Gives, SameMembers
  <2>2. Gives(d2, d3, given) /\ SameFault(d2, d3)
    BY <1>2, <1>3, <2>1, CallbackIs
  <2>3. NamesMore(d2, d3, known)
    BY <1>3, <2>1, CallbackNames
  <2> HIDE DEF d3
  <2>4. NamesMore(d, d3, known)
    BY <1>4, <2>3 DEF NamesMore
  <2>5. QED
    BY <1>4, <2>2, <2>4 DEF Gives, SameMembers, SameFault
<1>6. e = [d3 EXCEPT
             !.m_repairs         = EmptyMap,
             !.m_missing_sources = EmptyMap,
             !.m_sources         = @ \cup missing,
             !.m_ordered_sources = IF d.m_in_order THEN avail \ given ELSE @,
             !.m_first_missing   = gap]
  BY DEF DecodeAll, HandedOver, Available, DecodeGap, DecodeGiven, DecodeIsClean, DecodeIsFresh
<1>7. /\ EmptyMap \in Partial(RepairId, SUBSET SourceId)
      /\ EmptyMap \in Partial(SourceId, SUBSET RepairId)
      /\ DOMAIN EmptyMap = {}
  BY PartialIs DEF EmptyMap
<1>8. /\ e \in Decoders
      /\ e.m_in_order = d.m_in_order
      /\ e.m_last_id = d.m_last_id
      /\ e.m_repairs = EmptyMap
      /\ e.m_missing_sources = EmptyMap
      /\ e.m_sources = known
      /\ e.m_ordered_sources = queue
      /\ e.m_first_missing = gap
      /\ e.out = d3.out /\ e.ack = d3.ack /\ e.first = d3.first /\ e.seen = d3.seen
      /\ e.fault = d3.fault
  <2>1. /\ d3 \in Decoders
        /\ d3.m_ordered_sources = d.m_ordered_sources
        /\ d3.m_sources = d.m_sources
        /\ d3.m_in_order = d.m_in_order
        /\ d3.m_last_id = d.m_last_id
    BY <1>5 DEF Gives, SameMembers
  <2>2. known \in SUBSET SourceId /\ queue \in SUBSET SourceId
    <3> HIDE DEF missing, avail, given
    <3>1. QED
      BY <1>1, <1>2
  <2>3. e = [d3 EXCEPT !.m_repairs = EmptyMap, !.m_missing_sources = EmptyMap, !.m_sources = known,
                       !.m_ordered_sources = queue, !.m_first_missing = gap]
    <3> HIDE DEF d3, e, missing, avail, given, gap, EmptyMap
    <3>1. QED
      BY <1>6, <2>1 DEF Decoders
  <2> HIDE DEF d3, e, queue, known, gap, EmptyMap
  <2>4. QED
    BY <1>2, <1>7, <2>1, <2>2, <2>3 DEF Decoders
<1>9. NamesMore(d, e, known)
  <2> HIDE DEF d3, e, known
  <2>1. \A X : MayAck(d3, X) => MayAck(e, X)
    BY <1>8 DEF MayAck
  <2>2. QED
    BY <1>5, <2>1 DEF NamesMore
<1> HIDE DEF d3, e
<1>10. QED
  BY <1>5, <1>7, <1>8, <1>9 DEF DecodedTo, Gives, e

(* How many repairs are stored, and how many sources are missing.          *)
NbRepairs(d) == Cardinality(DOMAIN d.m_repairs)
NbMissing(d) == Cardinality(DOMAIN d.m_missing_sources)

LEMMA NumbersOfMembers ==
  ASSUME NEW d \in Decoders
  PROVE  /\ IsFiniteSet(DOMAIN d.m_repairs) /\ NbRepairs(d) \in Nat
         /\ IsFiniteSet(DOMAIN d.m_missing_sources) /\ NbMissing(d) \in Nat
<1>1. /\ DOMAIN d.m_repairs \in SUBSET (0 .. MaxRepair)
      /\ DOMAIN d.m_missing_sources \in SUBSET (0 .. MaxSource)
      /\ MaxRepair \in Int /\ MaxSource \in Int
  BY DecoderMaps, PacketsAssumption DEF RepairId, SourceId
<1>2. QED
  BY <1>1, BoundedIsFinite DEF NbRepairs, NbMissing

(* e is what an attempt to decode everything leaves of d: nothing has      *)
(* changed, an assertion has failed, everything has been decoded, or a     *)
(* repair has been given up.                                               *)
FailedTo(d, e) == Gives(d, e, {}) /\ NamesMore(d, e, {}) /\ e.fault # "none"

AttemptedTo(d, e) ==
  \/ e = d /\ (NbRepairs(d) = 0 \/ NbMissing(d) = 0 \/ NbMissing(d) > NbRepairs(d))
  \/ FailedTo(d, e) /\ NbRepairs(d) # 0 /\ (NbMissing(d) < NbRepairs(d) \/ NbMissing(d) = 1)
  \/ DecodedTo(d, e) /\ NbRepairs(d) # 0 /\ NbMissing(d) = NbRepairs(d)
  \/ /\ NbRepairs(d) # 0 /\ NbMissing(d) = NbRepairs(d)
     /\ \E faulty : GivenUpTo(d, faulty, e)

LEMMA AttemptIs ==
  ASSUME NEW d \in Decoders, HasFlushedQueue(d), d.fault = "none", NEW luck \in BOOLEAN
  PROVE  AttemptedTo(d, AttemptFullDecoding(d, luck))
<1> DEFINE e == AttemptFullDecoding(d, luck)
<1>1. NbRepairs(d) \in Nat /\ NbMissing(d) \in Nat
  BY NumbersOfMembers
<1>2. CASE TooFewRepairs(NbRepairs(d), NbMissing(d))
  BY <1>2 DEF AttemptFullDecoding, TooFewRepairs, NbRepairs, NbMissing, AttemptedTo
<1>3. CASE ~TooFewRepairs(NbRepairs(d), NbMissing(d))
  <2>1. NbRepairs(d) # 0 /\ ~(NbMissing(d) > NbRepairs(d))
    BY <1>3 DEF TooFewRepairs
  <2>2. ASSUME NEW name \in Faults \ {"none"}
        PROVE  FailedTo(d, Require(d, FALSE, name))
    BY RequireIs DEF FailedTo
  <2>3. CASE NbMissing(d) < NbRepairs(d)
    <3>1. e = Require(d, FALSE, "more_repairs_than_missing")
      BY <1>3, <2>3 DEF AttemptFullDecoding, NbRepairs, NbMissing
    <3>2. FailedTo(d, e)
      BY <2>2, <3>1 DEF Faults
    <3>3. QED
      BY <2>1, <2>3, <3>2 DEF AttemptedTo
  <2>4. CASE NbMissing(d) = 1 /\ ~(NbMissing(d) < NbRepairs(d))
    <3>1. e = Require(d, FALSE, "matrix_for_one_source")
      BY <1>3, <2>4 DEF AttemptFullDecoding, NbRepairs, NbMissing
    <3>2. FailedTo(d, e)
      BY <2>2, <3>1 DEF Faults
    <3>3. QED
      BY <2>1, <2>4, <3>2 DEF AttemptedTo
  <2>5. CASE NbMissing(d) # 1 /\ ~(NbMissing(d) < NbRepairs(d))
    <3>1. NbMissing(d) = NbRepairs(d)
      BY <1>1, <2>1, <2>5
    <3>2. e = IF Invertible(d, luck) THEN DecodeAll(d) ELSE RemoveFaultyRepair(d)
      BY <1>3, <2>5 DEF AttemptFullDecoding, NbRepairs, NbMissing
    <3>3. DecodedTo(d, DecodeAll(d))
      BY DecodeAllIs
    <3>4. DOMAIN d.m_repairs # {}
      BY <2>1, FS_EmptySet DEF NbRepairs
    <3>5. GivenUpTo(d, Max(DOMAIN d.m_repairs), RemoveFaultyRepair(d))
      BY <3>4, RemoveFaultyRepairIs
    <3>6. DecodedTo(d, e) \/ \E faulty : GivenUpTo(d, faulty, e)
      BY <3>2, <3>3, <3>5
    <3>7. QED
      BY <2>1, <3>1, <3>6 DEF AttemptedTo
  <2>6. QED
    BY <2>3, <2>4, <2>5
<1>4. QED
  BY <1>2, <1>3

-----------------------------------------------------------------------------
(***************************************************************************)
(* Repairs that are received.                                              *)
(***************************************************************************)

(* The links of s are erased before it is rebuilt.                         *)
Unmissed(d, s) ==
  [d EXCEPT !.m_missing_sources = Restrict(@, DOMAIN @ \ {s})]

UnmissedTo(d, s, e) ==
  /\ OnlyRelinked(d, e)
  /\ e.m_repairs = d.m_repairs
  /\ DOMAIN e.m_missing_sources = DOMAIN d.m_missing_sources \ {s}
  /\ \A m \in DOMAIN e.m_missing_sources : e.m_missing_sources[m] = d.m_missing_sources[m]

LEMMA UnmissedIs ==
  ASSUME NEW d \in Decoders, NEW s
  PROVE  UnmissedTo(d, s, Unmissed(d, s)) /\ RebuildSource(d, s) = AddSource(Unmissed(d, s), s)
<1> DEFINE links == Restrict(d.m_missing_sources, DOMAIN d.m_missing_sources \ {s})
           e     == Unmissed(d, s)
<1>1. /\ d.m_missing_sources \in Partial(SourceId, SUBSET RepairId)
      /\ d.m_repairs \in Partial(RepairId, SUBSET SourceId)
  BY DEF Decoders
<1>2. /\ links \in Partial(SourceId, SUBSET RepairId)
      /\ DOMAIN links = DOMAIN d.m_missing_sources \ {s}
      /\ \A m \in DOMAIN links : links[m] = d.m_missing_sources[m]
  BY <1>1, RestrictPartial, RestrictIs
<1>3. e = [d EXCEPT !.m_missing_sources = links]
  BY DEF Unmissed
<1> HIDE DEF e, links
<1>4. [d EXCEPT !.m_missing_sources = links] = Relinked(d, d.m_repairs, links)
  BY DEF Relinked, Decoders
<1>5. OnlyRelinked(d, e) /\ e.m_repairs = d.m_repairs /\ e.m_missing_sources = links
  <2>1. RelinkedTo(d, d.m_repairs, links, Relinked(d, d.m_repairs, links))
    BY <1>1, <1>2, RelinkIs
  <2>2. QED
    BY <1>3, <1>4, <2>1 DEF RelinkedTo
<1>6. UnmissedTo(d, s, e)
  BY <1>2, <1>5 DEF UnmissedTo
<1>7. QED
  BY <1>6 DEF e, RebuildSource, Unmissed

(* e is d with one repair more, linked from what it encodes.               *)
LinkedTo(d, r, left, e) ==
  /\ OnlyRelinked(d, e)
  /\ DOMAIN e.m_repairs = DOMAIN d.m_repairs \cup {r}
  /\ \A q \in DOMAIN e.m_repairs : e.m_repairs[q] = IF q = r THEN left ELSE d.m_repairs[q]
  /\ DOMAIN e.m_missing_sources = DOMAIN d.m_missing_sources \cup left
  /\ \A m \in DOMAIN e.m_missing_sources : \A q \in e.m_missing_sources[m] :
       \/ q = r /\ m \in left
       \/ m \in DOMAIN d.m_missing_sources /\ q \in d.m_missing_sources[m]

LEMMA LinkRepairIs ==
  ASSUME NEW d \in Decoders, NEW r \in RepairId, NEW left \in SUBSET SourceId
  PROVE  LinkedTo(d, r, left, LinkRepair(d, r, left))
<1> DEFINE
      links   == d.m_missing_sources
      old(m)  == IF m \in DOMAIN links THEN links[m] ELSE {}
      repairs == [q \in DOMAIN d.m_repairs \cup {r} |-> IF q = r THEN left ELSE d.m_repairs[q]]
      missing == [m \in DOMAIN links \cup left |-> IF m \in left THEN old(m) \cup {r} ELSE old(m)]
      e       == LinkRepair(d, r, left)
<1>1. /\ DOMAIN d.m_repairs \subseteq RepairId
      /\ d.m_repairs \in [DOMAIN d.m_repairs -> SUBSET SourceId]
      /\ DOMAIN links \subseteq SourceId
      /\ links \in [DOMAIN links -> SUBSET RepairId]
  BY DecoderMaps
<1>2. /\ repairs \in Partial(RepairId, SUBSET SourceId)
      /\ missing \in Partial(SourceId, SUBSET RepairId)
  <2>1. repairs \in [DOMAIN d.m_repairs \cup {r} -> SUBSET SourceId]
    BY <1>1
  <2>2. missing \in [DOMAIN links \cup left -> SUBSET RepairId]
    BY <1>1
  <2>3. QED
    BY <1>1, <2>1, <2>2, PartialIs
<1>3. e = Relinked(d, repairs, missing)
  BY DEF LinkRepair, Relinked
<1>4. OnlyRelinked(d, e) /\ e.m_repairs = repairs /\ e.m_missing_sources = missing
  <2> HIDE DEF e, repairs, missing
  <2>1. RelinkedTo(d, repairs, missing, Relinked(d, repairs, missing))
    BY <1>2, RelinkIs
  <2>2. QED
    BY <1>3, <2>1 DEF RelinkedTo
<1> HIDE DEF e
<1>5. LinkedTo(d, r, left, e)
  BY <1>4 DEF LinkedTo
<1>6. QED
  BY <1>5 DEF e

-----------------------------------------------------------------------------
(***************************************************************************)
(* Soundness: what every method preserves, whatever it is given.           *)
(***************************************************************************)

(* The four ties between the members; the third only as long as no fault   *)
(* has occurred.                                                           *)
Sound(d) ==
  /\ d \in Decoders
  /\ HasValidPointers(d)
  /\ HasLiveLinks(d)
  /\ d.fault = "none" => HasNothingOutdated(d)
  /\ HasFlushedQueue(d)

(* Members that are compared as numbers.                                   *)
LEMMA DecoderNumbers ==
  ASSUME NEW d \in Decoders
  PROVE  /\ d.m_last_id \in Nat
         /\ d.m_first_missing \in Nat
         /\ d.m_sources \in SUBSET Nat
         /\ d.m_ordered_sources \in SUBSET Nat
         /\ d.m_ordered_sources \in SUBSET SourceId
         /\ d.m_sources \in SUBSET SourceId
         /\ DOMAIN d.m_missing_sources \in SUBSET Nat
<1>1. /\ d.m_last_id \in SourceId
      /\ d.m_first_missing \in 0 .. (MaxSource + 1)
      /\ d.m_sources \in SUBSET SourceId
      /\ d.m_ordered_sources \in SUBSET SourceId
  BY DEF Decoders
<1>2. DOMAIN d.m_missing_sources \subseteq SourceId
  BY DecoderMaps
<1>3. SourceId \subseteq Nat /\ 0 .. (MaxSource + 1) \subseteq Nat
  BY PacketsAssumption DEF SourceId
<1>4. d.m_last_id \in Nat /\ d.m_first_missing \in Nat
  BY <1>1, <1>3
<1>5. \A S \in SUBSET SourceId : S \in SUBSET Nat
  BY <1>3
<1>6. DOMAIN d.m_missing_sources \in SUBSET Nat
  BY <1>2, <1>3
<1>7. QED
  BY <1>1, <1>4, <1>5, <1>6

LEMMA DroppedSound ==
  ASSUME NEW d, Sound(d), d.fault = "none", NEW id \in SourceId, NEW e, DroppedTo(d, id, e)
  PROVE  Sound(e)
<1>1. /\ d \in Decoders
      /\ HasValidPointers(d) /\ HasLiveLinks(d) /\ HasNothingOutdated(d)
  BY DEF Sound
<1>2. e \in Decoders /\ HasLiveLinks(e)
  BY <1>1 DEF DroppedTo, HasLiveLinks
<1>3. HasValidPointers(e)
  <2>1. ASSUME NEW s \in d.m_ordered_sources, s \notin DropGiven(d, id)
        PROVE  s \in d.m_sources /\ s >= id
    <3>1. ~(s < id)
      BY <2>1 DEF DropGiven, LateOrdered
    <3>2. s \in Nat /\ id \in Nat
      BY <1>1, DecoderNumbers, PacketsAssumption DEF SourceId
    <3>3. QED
      BY <1>1, <2>1, <3>1, <3>2 DEF HasValidPointers
  <2>2. QED
    BY <2>1 DEF DroppedTo, HasValidPointers
<1>4. HasNothingOutdated(e)
  BY <1>1 DEF DroppedTo, DroppedRepairs, HasNothingOutdated
<1>5. HasFlushedQueue(e)
  <2>1. DropGap(d, id) \notin d.m_ordered_sources
    BY <1>1, DropGivenIs
  <2>2. QED
    BY <2>1 DEF DroppedTo, HasFlushedQueue
<1>6. QED
  BY <1>2, <1>3, <1>4, <1>5 DEF Sound

LEMMA AddedSound ==
  ASSUME NEW d, Sound(d), d.fault = "none", NEW s \in SourceId, s >= d.m_last_id,
         NEW e, AddedTo(d, s, e)
  PROVE  Sound(e)
<1> DEFINE ready   == ReadySources(d, s)
           repairs == ReducedRepairs(d, s)
<1>1. /\ d \in Decoders
      /\ HasValidPointers(d) /\ HasLiveLinks(d) /\ HasNothingOutdated(d)
  BY DEF Sound
<1>2. /\ DOMAIN OtherLinks(d, s) = DOMAIN d.m_missing_sources \ {s}
      /\ \A m \in DOMAIN OtherLinks(d, s) : OtherLinks(d, s)[m] = d.m_missing_sources[m]
      /\ DOMAIN repairs = DOMAIN d.m_repairs
      /\ \A r \in DOMAIN d.m_repairs :
           repairs[r] = IF r \in SourceLinks(d, s) THEN d.m_repairs[r] \ {s} ELSE d.m_repairs[r]
      /\ ready \subseteq DOMAIN d.m_missing_sources \ {s}
      /\ ready \in SUBSET SourceId
  BY <1>1, AddPartsAre
<1> HIDE DEF repairs
<1>3. HasValidPointers(e)
  BY <1>1 DEF AddedTo, HasValidPointers
<1>4. HasLiveLinks(e)
  <2>1. SUFFICES ASSUME NEW m \in (DOMAIN d.m_missing_sources \ {s}) \ ready,
                        NEW r \in d.m_missing_sources[m]
                 PROVE  r \in DOMAIN d.m_repairs \ UsedRepairs(d, s) /\ m \in repairs[r]
    BY DEF AddedTo, HasLiveLinks, repairs
  <2>2. r \in DOMAIN d.m_repairs /\ m \in repairs[r]
    BY <1>1, <1>2, <2>1 DEF HasLiveLinks
  <2>3. ASSUME NEW k \in ready, r \in OtherLinks(d, s)[k]
        PROVE  FALSE
    <3>1. OtherLinks(d, s)[k] = {r} /\ repairs[r] = {k}
      BY <2>3 DEF Ready, ReadySources, repairs
    <3>2. QED
      BY <2>1, <2>2, <3>1
  <2>4. QED
    BY <2>2, <2>3 DEF UsedRepairs
<1>5. ASSUME e.fault = "none"
      PROVE  HasNothingOutdated(e)
  <2>1. AddLeavesSome(d, s)
    BY <1>5 DEF AddedTo
  <2>2. \A r \in DOMAIN d.m_repairs : repairs[r] # {} /\ ~Outdated(repairs[r], d.m_last_id)
    BY <1>1, <1>2, <2>1 DEF HasNothingOutdated, Outdated, AddLeavesSome, repairs
  <2>3. \A k \in e.m_sources \cup DOMAIN e.m_missing_sources : k >= d.m_last_id
    BY <1>1, <1>2 DEF HasNothingOutdated, AddedTo
  <2>4. QED
    BY <2>2, <2>3 DEF HasNothingOutdated, AddedTo, repairs
<1>6. HasFlushedQueue(e)
  <2>1. d.m_in_order => AddGap(d, s) \notin d.m_ordered_sources
    BY <1>1, AddGivenIs
  <2>2. \A k \in SourceId : ~(k > k)
    BY PacketsAssumption DEF SourceId
  <2>3. QED
    BY <1>2, <2>1, <2>2 DEF HasFlushedQueue, AddedTo
<1>7. QED
  BY <1>3, <1>4, <1>5, <1>6 DEF Sound, AddedTo

LEMMA DecodedSound ==
  ASSUME NEW d, Sound(d), d.fault = "none", NEW e, DecodedTo(d, e)
  PROVE  Sound(e)
<1>1. /\ d \in Decoders
      /\ HasValidPointers(d) /\ HasFlushedQueue(d) /\ HasNothingOutdated(d)
  BY DEF Sound
<1>2. HasValidPointers(e)
  BY <1>1 DEF DecodedTo, HasValidPointers, Available
<1>3. HasLiveLinks(e)
  BY DEF DecodedTo, HasLiveLinks
<1>4. HasNothingOutdated(e)
  BY <1>1 DEF DecodedTo, HasNothingOutdated
<1>5. HasFlushedQueue(e)
  BY <1>1, DecodeGivenIs DEF DecodedTo, HasFlushedQueue
<1>6. QED
  BY <1>2, <1>3, <1>4, <1>5 DEF Sound, DecodedTo

(* A change of links and repairs leaves the rest as it was.                *)
LEMMA OnlyRelinkedSound ==
  ASSUME NEW d, Sound(d), NEW e, OnlyRelinked(d, e), HasLiveLinks(e),
         e.fault = "none" => HasNothingOutdated(e)
  PROVE  Sound(e)
BY DEF Sound, OnlyRelinked, HasValidPointers, HasFlushedQueue

LEMMA GivenUpSound ==
  ASSUME NEW d, Sound(d), d.fault = "none", NEW faulty, NEW e, GivenUpTo(d, faulty, e)
  PROVE  Sound(e)
<1>1. /\ d \in Decoders /\ faulty \in DOMAIN d.m_repairs
      /\ HasLiveLinks(d) /\ HasNothingOutdated(d)
  BY DEF Sound, GivenUpTo
<1>2. HasLiveLinks(e)
  <2>1. SUFFICES ASSUME NEW m \in DOMAIN e.m_missing_sources, NEW r \in e.m_missing_sources[m]
                 PROVE  r \in DOMAIN e.m_repairs /\ m \in e.m_repairs[r]
    BY DEF HasLiveLinks
  <2>2. /\ m \in DOMAIN d.m_missing_sources
        /\ r \in d.m_missing_sources[m]
        /\ m \in d.m_repairs[faulty] => r # faulty
    BY <2>1 DEF GivenUpTo
  <2>3. r \in DOMAIN d.m_repairs /\ m \in d.m_repairs[r]
    BY <1>1, <2>2 DEF HasLiveLinks
  <2>4. QED
    BY <2>2, <2>3 DEF GivenUpTo
<1>3. HasNothingOutdated(e)
  <2>1. ASSUME NEW i \in d.m_repairs[faulty]
        PROVE  i >= d.m_last_id
    <3>1. ~(i < d.m_last_id)
      BY <1>1 DEF HasNothingOutdated, Outdated
    <3>2. i \in SourceId
      BY <1>1, DecoderMaps
    <3>3. i \in Nat /\ d.m_last_id \in Nat
      BY <1>1, <3>2, DecoderNumbers, PacketsAssumption DEF SourceId
    <3>4. QED
      BY <3>1, <3>3
  <2>2. QED
    BY <1>1, <2>1 DEF HasNothingOutdated, GivenUpTo, OnlyRelinked
<1>4. QED
  BY <1>2, <1>3, OnlyRelinkedSound DEF GivenUpTo

LEMMA UnmissedSound ==
  ASSUME NEW d, Sound(d), NEW s, NEW e, UnmissedTo(d, s, e)
  PROVE  Sound(e)
<1>1. HasLiveLinks(e)
  BY DEF Sound, HasLiveLinks, UnmissedTo
<1>2. e.fault = "none" => HasNothingOutdated(e)
  BY DEF Sound, HasNothingOutdated, UnmissedTo, OnlyRelinked
<1>3. QED
  BY <1>1, <1>2, OnlyRelinkedSound DEF UnmissedTo

LEMMA LinkedSound ==
  ASSUME NEW d, Sound(d), d.fault = "none",
         NEW r, r \notin DOMAIN d.m_repairs,
         NEW left \in SUBSET SourceId, left # {}, \A i \in left : i >= d.m_last_id,
         NEW e, LinkedTo(d, r, left, e)
  PROVE  Sound(e)
<1>1. d \in Decoders /\ HasLiveLinks(d) /\ HasNothingOutdated(d)
  BY DEF Sound
<1>2. HasLiveLinks(e)
  BY <1>1 DEF HasLiveLinks, LinkedTo
<1>3. HasNothingOutdated(e)
  <2>1. ~Outdated(left, d.m_last_id)
    BY <1>1, PacketsAssumption DEF Outdated, Decoders, SourceId
  <2>2. QED
    BY <1>1, <2>1 DEF HasNothingOutdated, LinkedTo, OnlyRelinked
<1>4. QED
  BY <1>2, <1>3, OnlyRelinkedSound DEF LinkedTo

(* A failed assertion, or an ack, changes nothing that soundness is about. *)
LEMMA SameMembersSound ==
  ASSUME NEW d, Sound(d), NEW e, SameMembers(d, e), e.fault = "none" => d.fault = "none"
  PROVE  Sound(e)
BY DEF Sound, SameMembers, HasValidPointers, HasLiveLinks, HasNothingOutdated, HasFlushedQueue

LEMMA AttemptedSound ==
  ASSUME NEW d, Sound(d), d.fault = "none", NEW e, AttemptedTo(d, e)
  PROVE  Sound(e)
<1>1. CASE e = d
  BY <1>1
<1>2. CASE FailedTo(d, e)
  BY <1>2, SameMembersSound DEF FailedTo, Gives
<1>3. CASE DecodedTo(d, e)
  BY <1>3, DecodedSound
<1>4. ASSUME NEW faulty, GivenUpTo(d, faulty, e)
      PROVE  Sound(e)
  BY <1>4, GivenUpSound
<1>5. QED
  BY <1>1, <1>2, <1>3, <1>4 DEF AttemptedTo

-----------------------------------------------------------------------------
(***************************************************************************)
(* A whole call, step by step.                                             *)
(***************************************************************************)

(* Decoding is attempted unless something has gone wrong.                  *)
ThenAttempted(d, e) == IF d.fault = "none" THEN AttemptedTo(d, e) ELSE e = d

(* A source: it is known, or it is added and decoding is attempted.        *)
SourceTo(d, s, e) ==
  \/ KnownSource(d, s) /\ e = d
  \/ ~KnownSource(d, s) /\ \E a : AddedTo(d, s, a) /\ ThenAttempted(a, e)

LEMMA ReceiveSourceIs ==
  ASSUME NEW d, Sound(d), d.fault = "none", NEW s \in SourceId, NEW luck \in BOOLEAN
  PROVE  SourceTo(d, s, ReceiveSource(d, s, luck))
<1> DEFINE a == AddSource(d, s)
<1>1. CASE KnownSource(d, s)
  BY <1>1 DEF ReceiveSource, SourceTo
<1>2. CASE ~KnownSource(d, s)
  <2>1. d \in Decoders /\ s >= d.m_last_id
    BY <1>2, PacketsAssumption DEF KnownSource, Sound, Decoders, SourceId
  <2>2. AddedTo(d, s, a)
    BY <2>1, AddSourceIs
  <2>3. ReceiveSource(d, s, luck) = IF a.fault # "none" THEN a ELSE AttemptFullDecoding(a, luck)
    BY <1>2 DEF ReceiveSource
  <2> HIDE DEF a
  <2>4. Sound(a)
    BY <2>1, <2>2, AddedSound
  <2>5. a.fault = "none" => AttemptedTo(a, AttemptFullDecoding(a, luck))
    BY <2>4, AttemptIs DEF Sound
  <2>6. ThenAttempted(a, ReceiveSource(d, s, luck))
    BY <2>3, <2>5 DEF ThenAttempted
  <2>7. QED
    BY <1>2, <2>2, <2>6 DEF SourceTo
<1>3. QED
  BY <1>1, <1>2

(* A repair which is neither outdated nor known: what is outdated by it is *)
(* dropped; it is of no use, or its last source is rebuilt, or it is       *)
(* stored and decoding is attempted.                                       *)
UsedTo(d, r, left, e) ==
  \/ \E s \in left : left = {s} /\ \E u : UnmissedTo(d, s, u) /\ AddedTo(u, s, e)
  \/ (\A s \in left : left # {s}) /\ \E k : LinkedTo(d, r, left, k) /\ AttemptedTo(k, e)

RepairTo(d, r, ids, e) ==
  \/ (OutdatedRepair(d, ids) \/ r \in DOMAIN d.m_repairs) /\ e = d
  \/ /\ ~OutdatedRepair(d, ids) /\ r \notin DOMAIN d.m_repairs
     /\ \E c : /\ DroppedTo(d, Min(ids), c)
               /\ \/ (c.fault # "none" \/ LeftToDecode(c, ids) = {}) /\ e = c
                  \/ /\ c.fault = "none" /\ LeftToDecode(c, ids) # {}
                     /\ UsedTo(c, r, LeftToDecode(c, ids), e)

(* What is left of a repair is recent, and fits to be stored.              *)
LEMMA LeftIs ==
  ASSUME NEW ids \in SUBSET SourceId, ids # {}, NEW d, NEW c, DroppedTo(d, Min(ids), c)
  PROVE  /\ Min(ids) \in SourceId
         /\ Min(ids) \in ids
         /\ \A i \in ids : Min(ids) <= i
         /\ LeftToDecode(c, ids) \in SUBSET SourceId
         /\ \A i \in LeftToDecode(c, ids) : i >= c.m_last_id
<1>1. ids \in SUBSET Nat
  BY PacketsAssumption DEF SourceId
<1>2. Min(ids) \in ids /\ \A i \in ids : Min(ids) <= i
  BY <1>1, MinIs
<1>3. \A i \in ids : i >= Min(ids)
  BY <1>1, <1>2
<1>4. QED
  BY <1>2, <1>3 DEF LeftToDecode, DroppedTo

LEMMA UseRepairIs ==
  ASSUME NEW d, Sound(d), d.fault = "none",
         NEW r \in RepairId, r \notin DOMAIN d.m_repairs,
         NEW left \in SUBSET SourceId, left # {}, \A i \in left : i >= d.m_last_id,
         NEW luck \in BOOLEAN
  PROVE  UsedTo(d, r, left, UseRepair(d, r, left, luck))
<1>1. d \in Decoders
  BY DEF Sound
<1>2. CASE \E s \in left : left = {s}
  <2> DEFINE s == CHOOSE t \in left : TRUE
             u == Unmissed(d, s)
  <2>1. s \in left /\ left = {s}
    BY <1>2
  <2>2. UseRepair(d, r, left, luck) = RebuildSource(d, s)
    BY <1>2 DEF UseRepair
  <2> HIDE DEF s
  <2>3. UnmissedTo(d, s, u) /\ RebuildSource(d, s) = AddSource(u, s)
    BY <1>1, UnmissedIs
  <2> HIDE DEF u
  <2>4. u \in Decoders /\ s \in SourceId
    BY <2>1, <2>3 DEF UnmissedTo, OnlyRelinked
  <2>5. AddedTo(u, s, AddSource(u, s))
    BY <2>4, AddSourceIs
  <2>6. QED
    BY <2>1, <2>2, <2>3, <2>5 DEF UsedTo
<1>3. CASE ~\E s \in left : left = {s}
  <2> DEFINE k == LinkRepair(d, r, left)
  <2>1. UseRepair(d, r, left, luck) = AttemptFullDecoding(k, luck)
    BY <1>3 DEF UseRepair
  <2>2. LinkedTo(d, r, left, k)
    BY <1>1, LinkRepairIs
  <2> HIDE DEF k
  <2>3. Sound(k)
    BY <2>2, LinkedSound
  <2>4. k.fault = "none"
    BY <2>2 DEF LinkedTo, OnlyRelinked
  <2>5. AttemptedTo(k, AttemptFullDecoding(k, luck))
    BY <2>3, <2>4, AttemptIs DEF Sound
  <2>6. QED
    BY <1>3, <2>1, <2>2, <2>5 DEF UsedTo
<1>4. QED
  BY <1>2, <1>3

LEMMA ReceiveRepairIs ==
  ASSUME NEW d, Sound(d), d.fault = "none", NEW r \in RepairId,
         NEW ids \in SUBSET SourceId, ids # {}, NEW luck \in BOOLEAN
  PROVE  RepairTo(d, r, ids, ReceiveRepair(d, r, ids, luck))
<1> DEFINE c    == DropOutdated(d, Min(ids))
           left == LeftToDecode(c, ids)
           e    == ReceiveRepair(d, r, ids, luck)
<1>1. CASE OutdatedRepair(d, ids) \/ r \in DOMAIN d.m_repairs
  BY <1>1 DEF ReceiveRepair, RepairTo
<1>2. CASE ~(OutdatedRepair(d, ids) \/ r \in DOMAIN d.m_repairs)
  <2>1. ids \in SUBSET Nat
    BY PacketsAssumption DEF SourceId
  <2>2. Min(ids) \in SourceId /\ d \in Decoders
    BY <2>1, MinIs DEF Sound
  <2>3. DroppedTo(d, Min(ids), c)
    BY <2>2, DropOutdatedIs
  <2>4. e = IF c.fault # "none" \/ left = {} THEN c ELSE UseRepair(c, r, left, luck)
    BY <1>2 DEF ReceiveRepair
  <2> HIDE DEF c, e
  <2>5. Sound(c)
    BY <2>2, <2>3, DroppedSound
  <2>6. /\ left \in SUBSET SourceId
        /\ \A i \in left : i >= c.m_last_id
    BY <2>3, LeftIs
  <2>7. r \notin DOMAIN c.m_repairs
    BY <1>2, <2>3 DEF DroppedTo
  <2> HIDE DEF left
  <2>8. c.fault = "none" /\ left # {} => UsedTo(c, r, left, UseRepair(c, r, left, luck))
    BY <2>5, <2>6, <2>7, UseRepairIs
  <2>9. QED
    BY <1>2, <2>3, <2>4, <2>8 DEF RepairTo, e, left
<1>3. QED
  BY <1>1, <1>2

LEMMA SourceSound ==
  ASSUME NEW d, Sound(d), d.fault = "none", NEW s \in SourceId, NEW e, SourceTo(d, s, e)
  PROVE  Sound(e)
<1>1. CASE KnownSource(d, s) /\ e = d
  BY <1>1
<1>2. CASE ~KnownSource(d, s)
  <2>1. PICK a : AddedTo(d, s, a) /\ ThenAttempted(a, e)
    BY <1>2 DEF SourceTo
  <2>2. s >= d.m_last_id
    BY <1>2, PacketsAssumption DEF KnownSource, Sound, Decoders, SourceId
  <2>3. Sound(a)
    BY <2>1, <2>2, AddedSound
  <2>4. QED
    BY <2>1, <2>3, AttemptedSound DEF ThenAttempted
<1>3. QED
  BY <1>1, <1>2 DEF SourceTo

LEMMA UsedSound ==
  ASSUME NEW d, Sound(d), d.fault = "none",
         NEW r, r \notin DOMAIN d.m_repairs,
         NEW left \in SUBSET SourceId, left # {}, \A i \in left : i >= d.m_last_id,
         NEW e, UsedTo(d, r, left, e)
  PROVE  Sound(e)
<1>1. ASSUME NEW s \in left, NEW u, UnmissedTo(d, s, u), AddedTo(u, s, e)
      PROVE  Sound(e)
  <2>1. Sound(u)
    BY <1>1, UnmissedSound
  <2>2. u.fault = "none" /\ s >= u.m_last_id
    BY <1>1 DEF UnmissedTo, OnlyRelinked
  <2>3. QED
    BY <1>1, <2>1, <2>2, AddedSound
<1>2. ASSUME NEW k, LinkedTo(d, r, left, k), AttemptedTo(k, e)
      PROVE  Sound(e)
  <2>1. Sound(k)
    BY <1>2, LinkedSound
  <2>2. k.fault = "none"
    BY <1>2 DEF LinkedTo, OnlyRelinked
  <2>3. QED
    BY <1>2, <2>1, <2>2, AttemptedSound
<1>3. QED
  BY <1>1, <1>2 DEF UsedTo

LEMMA RepairSound ==
  ASSUME NEW d, Sound(d), d.fault = "none", NEW r,
         NEW ids \in SUBSET SourceId, ids # {}, NEW e, RepairTo(d, r, ids, e)
  PROVE  Sound(e)
<1>1. CASE e = d
  BY <1>1
<1>2. ASSUME r \notin DOMAIN d.m_repairs, NEW c, DroppedTo(d, Min(ids), c),
             \/ e = c
             \/ /\ c.fault = "none" /\ LeftToDecode(c, ids) # {}
                /\ UsedTo(c, r, LeftToDecode(c, ids), e)
      PROVE  Sound(e)
  <2>1. /\ Min(ids) \in SourceId
        /\ LeftToDecode(c, ids) \in SUBSET SourceId
        /\ \A i \in LeftToDecode(c, ids) : i >= c.m_last_id
    BY <1>2, LeftIs
  <2>2. Sound(c)
    BY <1>2, <2>1, DroppedSound
  <2>3. r \notin DOMAIN c.m_repairs
    BY <1>2 DEF DroppedTo
  <2>4. CASE c.fault = "none" /\ LeftToDecode(c, ids) # {}
             /\ UsedTo(c, r, LeftToDecode(c, ids), e)
    BY <2>1, <2>2, <2>3, <2>4, UsedSound
  <2>5. QED
    BY <1>2, <2>2, <2>4
<1>3. QED
  BY <1>1, <1>2 DEF RepairTo

-----------------------------------------------------------------------------
(***************************************************************************)
(* The calls of ntc::decoder: the packet is counted, used, and possibly    *)
(* answered by an ack.                                                     *)
(***************************************************************************)

(* Nothing is on its way to the user, and no ack is.                       *)
AtRest(d) == d.out = {} /\ d.first = {} /\ d.seen = {} /\ d.ack = {}

(* The packet is counted.                                                  *)
CountedTo(d, c) == Gives(d, c, {}) /\ NamesMore(d, c, {}) /\ SameFault(d, c)

LEMMA CountPacketIs ==
  ASSUME NEW d \in Decoders
  PROVE  CountedTo(d, CountPacket(d))
<1> DEFINE n == (d.nb_packets + 1) % 2 ^ AckWidth
<1>1. n \in Nat
  <2>1. 2 ^ AckWidth \in Nat \ {0} /\ d.nb_packets \in Nat
    BY DecoderAssumption DEF Decoders
  <2>2. QED
    BY <2>1
<1>2. CountPacket(d) = [d EXCEPT !.nb_packets = n]
  BY DEF CountPacket
<1> HIDE DEF n
<1>3. QED
  BY <1>1, <1>2 DEF Decoders, SameMembers, Gives, MayAck, NamesMore, SameFault, CountedTo

(* At most one ack ends the call, of what it may name.                     *)
AckedTo(m, e) ==
  /\ SameMembers(m, e)
  /\ SameFault(m, e)
  /\ e.out = m.out
  /\ \/ e.ack = m.ack
     \/ \E known \in SUBSET SourceId, nb \in Nat :
          /\ e.ack = m.ack \cup {AckPacket(known, nb)}
          /\ \A X : MayAck(m, X) => known \subseteq X

LEMMA GenerateAckIs ==
  ASSUME NEW d \in Decoders, NEW known \in SUBSET SourceId
  PROVE  LET e == GenerateAck(d, known)
         IN  /\ SameMembers(d, e)
             /\ SameFault(d, e)
             /\ e.out = d.out
             /\ e.ack = d.ack \cup {AckPacket(known, d.nb_packets)}
<1>1. AckPacket(known, d.nb_packets)
        \in [kind : {"ack"}, source_ids : SUBSET SourceId, nb_packets : Nat]
  BY DEF AckPacket, Decoders
<1>2. QED
  BY <1>1 DEF GenerateAck, Decoders, SameMembers, SameFault

LEMMA MaybeAckIs ==
  ASSUME NEW m \in Decoders, NEW e \in MaybeAck(m)
  PROVE  AckedTo(m, e)
<1>1. CASE e = m
  BY <1>1 DEF AckedTo, SameMembers, SameFault
<1>2. ASSUME NEW known \in SUBSET SourceId, \A X : MayAck(m, X) => known \subseteq X,
             e = GenerateAck(m, known)
      PROVE  AckedTo(m, e)
  <2>1. m.nb_packets \in Nat
    BY DEF Decoders
  <2>2. /\ SameMembers(m, e) /\ SameFault(m, e)
        /\ e.out = m.out
        /\ e.ack = m.ack \cup {AckPacket(known, m.nb_packets)}
    BY <1>2, GenerateAckIs
  <2>3. QED
    BY <1>2, <2>1, <2>2 DEF AckedTo
<1>3. CASE m.out # {} /\ e = GenerateAck(m, m.first)
  <2>1. m.first \in SUBSET SourceId
    BY DEF Decoders
  <2>2. \A X : MayAck(m, X) => m.first \subseteq X
    BY <1>3 DEF MayAck
  <2>3. QED
    BY <1>2, <1>3, <2>1, <2>2
<1>4. ASSUME NEW known \in m.seen, e = GenerateAck(m, known)
      PROVE  AckedTo(m, e)
  <2>1. known \in SUBSET SourceId
    BY DEF Decoders
  <2>2. \A X : MayAck(m, X) => known \subseteq X
    BY <1>4 DEF MayAck
  <2>3. QED
    BY <1>2, <1>4, <2>1, <2>2
<1>5. QED
  BY <1>1, <1>3, <1>4 DEF MaybeAck, LateAcks

(* A packet is one or the other.                                           *)
UsedPacket(c, p, m) ==
  \/ \E s \in SourceId : p = SourcePacket(s) /\ SourceTo(c, s, m)
  \/ \E r \in RepairId, ids \in (SUBSET SourceId) \ {{}} :
       p = RepairPacket(r, ids) /\ RepairTo(c, r, ids, m)

ReceivedTo(d, p, e) ==
  \E c, m : CountedTo(d, c) /\ UsedPacket(c, p, m) /\ AckedTo(m, e)

LEMMA ReceiveIs ==
  ASSUME NEW d, Sound(d), d.fault = "none",
         NEW p \in DataPackets, NEW luck \in BOOLEAN, NEW e \in Receive(d, p, luck)
  PROVE  ReceivedTo(d, p, e)
<1> DEFINE c == CountPacket(d)
<1>1. CountedTo(d, c)
  BY CountPacketIs DEF Sound
<1>2. Sound(c) /\ c.fault = "none"
  BY <1>1, SameMembersSound DEF CountedTo, Gives, SameFault
<1>3. ASSUME NEW s \in SourceId, p = SourcePacket(s)
      PROVE  ReceivedTo(d, p, e)
  <2> DEFINE m == ReceiveSource(c, s, luck)
  <2>1. e \in MaybeAck(m)
    BY <1>3 DEF Receive, SourcePacket
  <2> HIDE DEF c
  <2>2. SourceTo(c, s, m)
    BY <1>2, ReceiveSourceIs
  <2> HIDE DEF m
  <2>3. m \in Decoders
    BY <1>2, <2>2, SourceSound DEF Sound
  <2>4. AckedTo(m, e)
    BY <2>1, <2>3, MaybeAckIs
  <2>5. QED
    BY <1>1, <1>3, <2>2, <2>4 DEF ReceivedTo, UsedPacket
<1>4. ASSUME NEW r \in RepairId, NEW ids \in (SUBSET SourceId) \ {{}}, p = RepairPacket(r, ids)
      PROVE  ReceivedTo(d, p, e)
  <2> DEFINE m == ReceiveRepair(c, r, ids, luck)
  <2>1. e \in MaybeAck(m)
    BY <1>4 DEF Receive, RepairPacket
  <2> HIDE DEF c
  <2>2. RepairTo(c, r, ids, m)
    BY <1>2, ReceiveRepairIs
  <2> HIDE DEF m
  <2>3. m \in Decoders
    BY <1>2, <2>2, RepairSound DEF Sound
  <2>4. AckedTo(m, e)
    BY <2>1, <2>3, MaybeAckIs
  <2>5. QED
    BY <1>1, <1>4, <2>2, <2>4 DEF ReceivedTo, UsedPacket
<1>5. QED
  BY <1>3, <1>4 DEF DataPackets

(* Whatever is received, the object stays sound.                           *)
LEMMA CountedSound ==
  ASSUME NEW d, Sound(d), d.fault = "none", NEW c, CountedTo(d, c)
  PROVE  Sound(c) /\ c.fault = "none"
BY SameMembersSound DEF CountedTo, Gives, SameFault

LEMMA UsedPacketSound ==
  ASSUME NEW c, Sound(c), c.fault = "none", NEW p, NEW m, UsedPacket(c, p, m)
  PROVE  Sound(m)
BY SourceSound, RepairSound DEF UsedPacket

LEMMA ReceivedSound ==
  ASSUME NEW d, Sound(d), d.fault = "none", NEW p, NEW e, ReceivedTo(d, p, e)
  PROVE  Sound(e)
<1>1. PICK c, m : CountedTo(d, c) /\ UsedPacket(c, p, m) /\ AckedTo(m, e)
  BY DEF ReceivedTo
<1>2. Sound(c) /\ c.fault = "none"
  BY <1>1, CountedSound
<1>3. Sound(m)
  BY <1>1, <1>2, UsedPacketSound
<1>4. QED
  BY <1>1, <1>3, SameMembersSound DEF AckedTo, SameFault

(* A call does not change the order, and m_last_id is only ever moved to   *)
(* the first source of a repair.                                           *)
MovedTo(d, p, e) ==
  /\ e.m_in_order = d.m_in_order
  /\ \/ e.m_last_id = d.m_last_id
     \/ \E r \in RepairId, ids \in (SUBSET SourceId) \ {{}} :
          p = RepairPacket(r, ids) /\ e.m_last_id = Min(ids)

LEMMA AttemptedMembers ==
  ASSUME NEW d, NEW e, AttemptedTo(d, e)
  PROVE  e.m_in_order = d.m_in_order /\ e.m_last_id = d.m_last_id
BY DEF AttemptedTo, FailedTo, Gives, SameMembers, DecodedTo, GivenUpTo, OnlyRelinked

LEMMA ReceivedMoves ==
  ASSUME NEW d, NEW p, NEW e, ReceivedTo(d, p, e)
  PROVE  MovedTo(d, p, e)
<1>1. PICK c, m : CountedTo(d, c) /\ UsedPacket(c, p, m) /\ AckedTo(m, e)
  BY DEF ReceivedTo
<1>2. /\ c.m_in_order = d.m_in_order /\ c.m_last_id = d.m_last_id
      /\ e.m_in_order = m.m_in_order /\ e.m_last_id = m.m_last_id
  BY <1>1 DEF CountedTo, Gives, AckedTo, SameMembers
<1>3. ASSUME NEW s \in SourceId, SourceTo(c, s, m)
      PROVE  m.m_in_order = c.m_in_order /\ m.m_last_id = c.m_last_id
  <2>1. CASE m = c
    BY <2>1
  <2>2. ASSUME NEW a, AddedTo(c, s, a), ThenAttempted(a, m)
        PROVE  m.m_in_order = c.m_in_order /\ m.m_last_id = c.m_last_id
    BY <2>2, AttemptedMembers DEF AddedTo, ThenAttempted
  <2>3. QED
    BY <1>3, <2>1, <2>2 DEF SourceTo
<1>4. ASSUME NEW r \in RepairId, NEW ids \in (SUBSET SourceId) \ {{}}, RepairTo(c, r, ids, m)
      PROVE  m.m_in_order = c.m_in_order /\ (m.m_last_id = c.m_last_id \/ m.m_last_id = Min(ids))
  <2>1. CASE m = c
    BY <2>1
  <2>2. ASSUME NEW x, DroppedTo(c, Min(ids), x)
        PROVE  x.m_in_order = c.m_in_order /\ x.m_last_id = Min(ids)
    BY <2>2 DEF DroppedTo
  <2>3. ASSUME NEW x, UsedTo(x, r, LeftToDecode(x, ids), m)
        PROVE  m.m_in_order = x.m_in_order /\ m.m_last_id = x.m_last_id
    <3>1. ASSUME NEW s, NEW u, UnmissedTo(x, s, u), AddedTo(u, s, m)
          PROVE  m.m_in_order = x.m_in_order /\ m.m_last_id = x.m_last_id
      BY <3>1 DEF UnmissedTo, OnlyRelinked, AddedTo
    <3>2. ASSUME NEW k, LinkedTo(x, r, LeftToDecode(x, ids), k), AttemptedTo(k, m)
          PROVE  m.m_in_order = x.m_in_order /\ m.m_last_id = x.m_last_id
      BY <3>2, AttemptedMembers DEF LinkedTo, OnlyRelinked
    <3>3. QED
      BY <2>3, <3>1, <3>2 DEF UsedTo
  <2>4. QED
    BY <1>4, <2>1, <2>2, <2>3 DEF RepairTo
<1>5. QED
  BY <1>1, <1>2, <1>3, <1>4 DEF UsedPacket, MovedTo

(* What a call has produced is gone when it has returned.                  *)
RestedTo(d, e) == SameMembers(d, e) /\ SameFault(d, e) /\ AtRest(e)

LEMMA SettleDecoderIs ==
  ASSUME NEW d \in Decoders
  PROVE  RestedTo(d, SettleDecoder(d))
BY DEF SettleDecoder, Decoders, SameMembers, SameFault, AtRest, RestedTo

LEMMA RestedSound ==
  ASSUME NEW d, Sound(d), NEW e, RestedTo(d, e)
  PROVE  Sound(e)
BY SameMembersSound DEF RestedTo, SameFault

(* A new object, whatever its policy.                                      *)
LEMMA NewDecoderIs ==
  ASSUME NEW order \in BOOLEAN, NEW on \in BOOLEAN
  PROVE  LET d == SetAckFrequency(NewDecoder(order), on)
         IN  /\ Sound(d)
             /\ AtRest(d)
             /\ d.fault = "none"
             /\ d.m_last_id = 0
             /\ d.m_first_missing = 0
             /\ d.m_sources = {}
             /\ d.m_ordered_sources = {}
             /\ DOMAIN d.m_repairs = {}
             /\ DOMAIN d.m_missing_sources = {}
<1> DEFINE d == SetAckFrequency(NewDecoder(order), on)
<1>1. /\ EmptyMap \in Partial(RepairId, SUBSET SourceId)
      /\ EmptyMap \in Partial(SourceId, SUBSET RepairId)
      /\ DOMAIN EmptyMap = {}
  BY PartialIs DEF EmptyMap
<1>2. /\ d \in Decoders
      /\ AtRest(d)
      /\ d.fault = "none"
      /\ d.m_last_id = 0
      /\ d.m_first_missing = 0
      /\ d.m_sources = {}
      /\ d.m_ordered_sources = {}
      /\ d.m_repairs = EmptyMap
      /\ d.m_missing_sources = EmptyMap
  <2> HIDE DEF EmptyMap
  <2>1. QED
    BY <1>1, PacketsAssumption
    DEF NewDecoder, SetAckFrequency, Decoders, SourceId, Faults, AtRest
<1> HIDE DEF d
<1>3. Sound(d)
  BY <1>1, <1>2 DEF Sound, HasLiveLinks, HasNothingOutdated, HasValidPointers, HasFlushedQueue
<1>4. QED
  BY <1>1, <1>2, <1>3 DEF d

-----------------------------------------------------------------------------
(***************************************************************************)
(* What a call gives and names in its ack, X being stored before it: only  *)
(* what was or is now stored; not in order, everything stored was stored   *)
(* or has just been given.                                                 *)
(***************************************************************************)
InCall(X, e) ==
  /\ e.ack = {}
  /\ MayAck(e, X \cup e.m_sources)
  /\ ~e.m_in_order => e.m_ordered_sources = {} /\ e.m_sources \subseteq X \cup e.out

LEMMA MayAckMore ==
  ASSUME NEW d, NEW X, NEW Y, MayAck(d, X), X \subseteq Y
  PROVE  MayAck(d, Y)
BY DEF MayAck

LEMMA SameInCall ==
  ASSUME NEW X, NEW d, InCall(X, d), NEW e, NamesMore(d, e, {}),
         e.ack = d.ack, e.out = d.out, e.m_in_order = d.m_in_order,
         e.m_sources = d.m_sources, e.m_ordered_sources = d.m_ordered_sources
  PROVE  InCall(X, e)
<1>1. MayAck(e, X \cup d.m_sources)
  BY DEF InCall, NamesMore
<1>2. QED
  BY <1>1 DEF InCall

LEMMA DroppedInCall ==
  ASSUME NEW X, NEW d \in Decoders, d.m_sources \subseteq X, InCall(X, d),
         NEW id \in SourceId, NEW e, DroppedTo(d, id, e)
  PROVE  InCall(X, e)
<1>1. MayAck(d, X)
  <2>1. X \cup d.m_sources \subseteq X
    OBVIOUS
  <2>2. QED
    BY <2>1, MayAckMore DEF InCall
<1>2. MayAck(e, X)
  BY <1>1 DEF DroppedTo, NamesMore
<1>3. MayAck(e, X \cup e.m_sources)
  BY <1>2, MayAckMore
<1>4. DropGiven(d, id) \subseteq d.m_ordered_sources
  BY DropGivenIs
<1>5. ~d.m_in_order => e.m_ordered_sources = {} /\ e.m_sources \subseteq X \cup e.out
  BY <1>4 DEF DroppedTo, InCall
<1>6. QED
  BY <1>3, <1>5 DEF DroppedTo, InCall

LEMMA AddedInCall ==
  ASSUME NEW X, NEW d, InCall(X, d), NEW s, NEW e, AddedTo(d, s, e)
  PROVE  InCall(X, e)
<1>1. d.m_sources \subseteq e.m_sources
  BY DEF AddedTo
<1>2. MayAck(d, X \cup e.m_sources)
  BY <1>1, MayAckMore DEF InCall
<1>3. MayAck(e, X \cup e.m_sources)
  BY <1>1, <1>2 DEF AddedTo, NamesMore
<1>4. ~d.m_in_order => e.m_ordered_sources = {} /\ e.m_sources \subseteq X \cup e.out
  <2>1. ~d.m_in_order => AddGiven(d, s) = ReadySources(d, s) \cup {s}
    BY DEF AddGiven
  <2>2. QED
    BY <2>1 DEF AddedTo, InCall
<1>5. QED
  BY <1>3, <1>4 DEF AddedTo, InCall

LEMMA DecodedInCall ==
  ASSUME NEW X, NEW d, InCall(X, d), NEW e, DecodedTo(d, e)
  PROVE  InCall(X, e)
<1>1. e.m_sources = d.m_sources \cup DOMAIN d.m_missing_sources
  BY DEF DecodedTo
<1>2. MayAck(d, X \cup e.m_sources)
  BY <1>1, MayAckMore DEF InCall
<1>3. MayAck(e, X \cup e.m_sources)
  BY <1>1, <1>2 DEF DecodedTo, NamesMore
<1>4. ~d.m_in_order => e.m_ordered_sources = {} /\ e.m_sources \subseteq X \cup e.out
  BY DEF DecodedTo, DecodeGiven, InCall
<1>5. QED
  BY <1>3, <1>4 DEF DecodedTo, InCall

LEMMA AttemptedInCall ==
  ASSUME NEW X, NEW d, InCall(X, d), NEW e, AttemptedTo(d, e)
  PROVE  InCall(X, e)
<1>1. CASE e = d
  BY <1>1
<1>2. CASE FailedTo(d, e)
  BY <1>2, SameInCall DEF FailedTo, Gives, SameMembers
<1>3. CASE DecodedTo(d, e)
  BY <1>3, DecodedInCall
<1>4. ASSUME NEW faulty, GivenUpTo(d, faulty, e)
      PROVE  InCall(X, e)
  BY <1>4, SameInCall DEF GivenUpTo, OnlyRelinked
<1>5. QED
  BY <1>1, <1>2, <1>3, <1>4 DEF AttemptedTo

LEMMA UsedPacketInCall ==
  ASSUME NEW d \in Decoders, InCall(d.m_sources, d), NEW p, NEW e, UsedPacket(d, p, e)
  PROVE  InCall(d.m_sources, e)
<1> DEFINE X == d.m_sources
<1>1. ASSUME NEW s \in SourceId, SourceTo(d, s, e)
      PROVE  InCall(X, e)
  BY <1>1, AddedInCall, AttemptedInCall DEF SourceTo, ThenAttempted
<1>2. ASSUME NEW r \in RepairId, NEW ids \in (SUBSET SourceId) \ {{}}, RepairTo(d, r, ids, e)
      PROVE  InCall(X, e)
  <2>1. CASE e = d
    BY <2>1
  <2>2. ASSUME NEW x, DroppedTo(d, Min(ids), x)
        PROVE  InCall(X, x)
    <3>1. Min(ids) \in SourceId
      BY <2>2, LeftIs
    <3>2. QED
      BY <2>2, <3>1, DroppedInCall
  <2>3. ASSUME NEW x, InCall(X, x), UsedTo(x, r, LeftToDecode(x, ids), e)
        PROVE  InCall(X, e)
    <3>1. ASSUME NEW s, NEW u, UnmissedTo(x, s, u), AddedTo(u, s, e)
          PROVE  InCall(X, e)
      <4>1. InCall(X, u)
        BY <2>3, <3>1, SameInCall DEF UnmissedTo, OnlyRelinked
      <4>2. QED
        BY <3>1, <4>1, AddedInCall
    <3>2. ASSUME NEW k, LinkedTo(x, r, LeftToDecode(x, ids), k), AttemptedTo(k, e)
          PROVE  InCall(X, e)
      <4>1. InCall(X, k)
        BY <2>3, <3>2, SameInCall DEF LinkedTo, OnlyRelinked
      <4>2. QED
        BY <3>2, <4>1, AttemptedInCall
    <3>3. QED
      BY <2>3, <3>1, <3>2 DEF UsedTo
  <2>4. QED
    BY <1>2, <2>1, <2>2, <2>3 DEF RepairTo
<1>3. QED
  BY <1>1, <1>2 DEF UsedPacket

(* The ack of a call, if there is one, names what was or is stored.        *)
Answers(X, e) ==
  /\ \/ e.ack = {}
     \/ \E known \in SUBSET SourceId, nb \in Nat :
          e.ack = {AckPacket(known, nb)} /\ known \subseteq X \cup e.m_sources
  /\ ~e.m_in_order => e.m_ordered_sources = {} /\ e.m_sources \subseteq X \cup e.out

LEMMA ReceivedAnswers ==
  ASSUME NEW d \in Decoders, AtRest(d), ~d.m_in_order => d.m_ordered_sources = {},
         NEW p, NEW e, ReceivedTo(d, p, e)
  PROVE  Answers(d.m_sources, e)
<1>1. PICK c, m : CountedTo(d, c) /\ UsedPacket(c, p, m) /\ AckedTo(m, e)
  BY DEF ReceivedTo
<1>2. InCall(d.m_sources, d)
  BY DEF InCall, AtRest, MayAck
<1>3. /\ c \in Decoders /\ c.m_sources = d.m_sources
      /\ InCall(d.m_sources, c)
  BY <1>1, <1>2, SameInCall DEF CountedTo, Gives, SameMembers
<1>4. InCall(d.m_sources, m)
  BY <1>1, <1>3, UsedPacketInCall
<1>5. /\ e.m_sources = m.m_sources /\ e.m_ordered_sources = m.m_ordered_sources
      /\ e.m_in_order = m.m_in_order /\ e.out = m.out
  BY <1>1 DEF AckedTo, SameMembers
<1>6. \/ e.ack = {}
      \/ \E known \in SUBSET SourceId, nb \in Nat :
           e.ack = {AckPacket(known, nb)} /\ known \subseteq d.m_sources \cup e.m_sources
  BY <1>1, <1>4, <1>5 DEF AckedTo, InCall
<1>7. QED
  BY <1>4, <1>5, <1>6 DEF Answers, InCall

(* The ack policy has nothing to do with the rest.                         *)
LEMMA AckPolicyIs ==
  ASSUME NEW d \in Decoders
  PROVE  /\ \A on \in BOOLEAN : SameMembers(d, SetAckFrequency(d, on))
         /\ \A on \in BOOLEAN : SameFault(d, SetAckFrequency(d, on))
         /\ \A on \in BOOLEAN : AtRest(d) => AtRest(SetAckFrequency(d, on))
         /\ \A nb \in Nat : SameMembers(d, SetAckNbPackets(d, nb))
         /\ \A nb \in Nat : SameFault(d, SetAckNbPackets(d, nb))
         /\ \A nb \in Nat : AtRest(d) => AtRest(SetAckNbPackets(d, nb))
<1>1. ASSUME NEW on \in BOOLEAN
      PROVE  /\ SameMembers(d, SetAckFrequency(d, on)) /\ SameFault(d, SetAckFrequency(d, on))
             /\ AtRest(d) => AtRest(SetAckFrequency(d, on))
  BY DEF SetAckFrequency, Decoders, SameMembers, SameFault, AtRest
<1>2. ASSUME NEW nb \in Nat
      PROVE  /\ SameMembers(d, SetAckNbPackets(d, nb)) /\ SameFault(d, SetAckNbPackets(d, nb))
             /\ AtRest(d) => AtRest(SetAckNbPackets(d, nb))
  <2> DEFINE n == IF nb < 128 THEN nb ELSE 128
             e == [d EXCEPT !.m_ack_nb_packets = n]
  <2>1. n \in Nat /\ SetAckNbPackets(d, nb) = e
    BY DEF SetAckNbPackets
  <2> HIDE DEF n
  <2>2. SameMembers(d, e) /\ SameFault(d, e) /\ (AtRest(d) => AtRest(e))
    BY <2>1 DEF Decoders, SameMembers, SameFault, AtRest
  <2>3. QED
    BY <2>1, <2>2
<1>3. QED
  BY <1>1, <1>2

-----------------------------------------------------------------------------
(***************************************************************************)
(* A tidy decoder, one whose packets come in the order in which they were  *)
(* sent: the repairs it stores encode exactly what it lacks, are nested in *)
(* one another, and are too few for the sources of any of them.  Nothing   *)
(* is said of the network: what the packets must satisfy are hypotheses.   *)
(***************************************************************************)

(* The decoder need not hear of i again: it stores it, or has moved on.    *)
Settled(d, i) == i \in d.m_sources \/ i < d.m_last_id

HasNoStaleRepair(d) ==
  \A r \in DOMAIN d.m_repairs : d.m_repairs[r] \subseteq DOMAIN d.m_missing_sources

HasNestedRepairs(d) ==
  \A q, r \in DOMAIN d.m_repairs :
    d.m_repairs[q] \subseteq d.m_repairs[r] \/ d.m_repairs[r] \subseteq d.m_repairs[q]

(* The repairs that encode nothing but what r encodes.                     *)
Within(d, r) == {q \in DOMAIN d.m_repairs : d.m_repairs[q] \subseteq d.m_repairs[r]}

HasTooFewRepairs(d) ==
  \A r \in DOMAIN d.m_repairs : Cardinality(Within(d, r)) < Cardinality(d.m_repairs[r])

(* Where in-order delivery stands among what is stored and missing.        *)
HasPlaceInOrder(d) ==
  /\ d.m_last_id <= d.m_first_missing
  /\ \A s \in d.m_sources : s < d.m_first_missing \/ s \in d.m_ordered_sources
  /\ \A k \in d.m_ordered_sources : k > d.m_first_missing
  /\ \A m \in DOMAIN d.m_missing_sources : m >= d.m_first_missing
  /\ \A t \in SourceId : t < d.m_first_missing => Settled(d, t)

HasPlace(d) == IF d.m_in_order THEN HasPlaceInOrder(d) ELSE d.m_ordered_sources = {}

(* All of it but the numbers.                                              *)
Orderly(d) ==
  /\ Sound(d)
  /\ d.fault = "none"
  /\ HasNoStaleRepair(d)
  /\ HasNestedRepairs(d)
  /\ DOMAIN d.m_missing_sources \cap d.m_sources = {}
  /\ HasPlace(d)

Tidy(d) == Orderly(d) /\ HasTooFewRepairs(d)

(* What is stored of an orderly decoder is made of finite sets.            *)
LEMMA OrderlyFacts ==
  ASSUME NEW d, Orderly(d)
  PROVE  /\ d \in Decoders
         /\ d.m_last_id \in Nat
         /\ d.m_first_missing \in Nat
         /\ SourceId \subseteq Nat
         /\ d.m_sources \in SUBSET SourceId
         /\ d.m_ordered_sources \subseteq d.m_sources
         /\ DOMAIN d.m_missing_sources \in SUBSET SourceId
         /\ \A s \in d.m_sources \cup DOMAIN d.m_missing_sources : s >= d.m_last_id
         /\ \A r \in DOMAIN d.m_repairs : d.m_repairs[r] \in SUBSET SourceId
<1>1. d \in Decoders /\ HasValidPointers(d) /\ HasNothingOutdated(d)
  BY DEF Orderly, Sound
<1>2. QED
  BY <1>1, DecoderNumbers, DecoderMaps, PacketsAssumption
  DEF HasValidPointers, HasNothingOutdated, SourceId

LEMMA SourcesAreFinite ==
  ASSUME NEW T \in SUBSET SourceId
  PROVE  IsFiniteSet(T) /\ Cardinality(T) \in Nat
<1>1. MaxSource \in Int /\ T \in SUBSET (0 .. MaxSource)
  BY PacketsAssumption DEF SourceId
<1>2. QED
  BY <1>1, BoundedIsFinite

LEMMA WithinIs ==
  ASSUME NEW d \in Decoders, NEW r
  PROVE  /\ Within(d, r) \subseteq DOMAIN d.m_repairs
         /\ IsFiniteSet(Within(d, r)) /\ Cardinality(Within(d, r)) \in Nat
         /\ Cardinality(Within(d, r)) <= NbRepairs(d)
<1>1. Within(d, r) \in SUBSET (DOMAIN d.m_repairs)
  BY DEF Within
<1>2. IsFiniteSet(DOMAIN d.m_repairs) /\ NbRepairs(d) = Cardinality(DOMAIN d.m_repairs)
  BY NumbersOfMembers DEF NbRepairs
<1>3. QED
  BY <1>1, <1>2, FS_Subset, FS_CardinalityType

(* No repair of a tidy decoder is left with a single source.               *)
LEMMA RepairsOfTwo ==
  ASSUME NEW d, Tidy(d), NEW r \in DOMAIN d.m_repairs
  PROVE  \A s : ~(d.m_repairs[r] \subseteq {s})
<1> SUFFICES ASSUME NEW s, d.m_repairs[r] \subseteq {s}
             PROVE  FALSE
  OBVIOUS
<1>1. d \in Decoders /\ d.m_repairs[r] \in SUBSET SourceId
  BY OrderlyFacts DEF Tidy
<1>2. Cardinality(Within(d, r)) < Cardinality(d.m_repairs[r])
  BY DEF Tidy, HasTooFewRepairs
<1>3. IsFiniteSet(Within(d, r)) /\ Cardinality(Within(d, r)) \in Nat
  BY <1>1, WithinIs
<1>4. r \in Within(d, r)
  BY DEF Within
<1>5. Cardinality(Within(d, r)) # 0
  BY <1>3, <1>4, FS_EmptySet
<1>6. Cardinality(d.m_repairs[r]) \in Nat
  BY <1>1, SourcesAreFinite
<1>7. Cardinality(d.m_repairs[r]) <= 1
  <2>1. IsFiniteSet({s}) /\ Cardinality({s}) = 1
    BY FS_Singleton
  <2>2. QED
    BY <2>1, FS_Subset
<1>8. QED
  BY <1>2, <1>3, <1>5, <1>6, <1>7

(* Among nested repairs one encodes all that the others do.                *)
LEMMA GreatestRepair ==
  ASSUME NEW d, Orderly(d), DOMAIN d.m_repairs # {}
  PROVE  \E r \in DOMAIN d.m_repairs : Within(d, r) = DOMAIN d.m_repairs
<1> DEFINE size(r) == Cardinality(d.m_repairs[r])
           room(r) == MaxSource + 1 - size(r)
<1>1. /\ \A r \in DOMAIN d.m_repairs : d.m_repairs[r] \in SUBSET SourceId
      /\ HasNestedRepairs(d)
  BY OrderlyFacts DEF Orderly
<1>2. \A r \in DOMAIN d.m_repairs : size(r) \in Nat /\ IsFiniteSet(d.m_repairs[r])
  BY <1>1, SourcesAreFinite
<1>3. \A r \in DOMAIN d.m_repairs : room(r) \in Nat
  <2>1. Cardinality(0 .. MaxSource) = MaxSource + 1 /\ IsFiniteSet(0 .. MaxSource)
    BY FS_Interval, PacketsAssumption
  <2>2. \A r \in DOMAIN d.m_repairs : size(r) <= MaxSource + 1
    BY <1>1, <2>1, FS_Subset DEF SourceId
  <2>3. QED
    BY <1>2, <2>2, PacketsAssumption
<1> DEFINE rooms == {room(r) : r \in DOMAIN d.m_repairs}
<1>4. PICK k \in rooms : \A n \in rooms : k <= n
  <2>1. rooms \in SUBSET Nat /\ rooms # {}
    BY <1>3
  <2> HIDE DEF rooms
  <2>2. QED
    BY <2>1, LeastElement
<1>5. PICK r \in DOMAIN d.m_repairs : k = room(r)
  BY <1>4
<1>6. ASSUME NEW q \in DOMAIN d.m_repairs
      PROVE  d.m_repairs[q] \subseteq d.m_repairs[r]
  <2>1. room(r) <= room(q)
    BY <1>4, <1>5
  <2>2. size(q) <= size(r)
    BY <1>2, <2>1, PacketsAssumption
  <2>3. CASE d.m_repairs[r] \subseteq d.m_repairs[q]
    <3>1. size(r) <= size(q) /\ (size(q) = size(r) => d.m_repairs[q] = d.m_repairs[r])
      BY <1>2, <2>3, FS_Subset
    <3>2. size(q) = size(r)
      BY <1>2, <2>2, <3>1
    <3>3. QED
      BY <3>1, <3>2
  <2>4. QED
    BY <1>1, <2>3 DEF HasNestedRepairs
<1>7. QED
  BY <1>6 DEF Within

(* A tidy decoder can decode nothing.                                      *)
LEMMA FewerRepairs ==
  ASSUME NEW d, Tidy(d)
  PROVE  NbRepairs(d) = 0 \/ NbRepairs(d) < NbMissing(d)
<1>1. d \in Decoders /\ Orderly(d)
  BY OrderlyFacts DEF Tidy
<1>2. /\ IsFiniteSet(DOMAIN d.m_repairs) /\ NbRepairs(d) \in Nat
      /\ IsFiniteSet(DOMAIN d.m_missing_sources) /\ NbMissing(d) \in Nat
  BY <1>1, NumbersOfMembers
<1>3. CASE DOMAIN d.m_repairs = {}
  BY <1>3, FS_EmptySet DEF NbRepairs
<1>4. CASE DOMAIN d.m_repairs # {}
  <2>1. PICK r \in DOMAIN d.m_repairs : Within(d, r) = DOMAIN d.m_repairs
    BY <1>1, <1>4, GreatestRepair
  <2>2. NbRepairs(d) < Cardinality(d.m_repairs[r])
    BY <2>1 DEF Tidy, HasTooFewRepairs, NbRepairs
  <2>3. d.m_repairs[r] \subseteq DOMAIN d.m_missing_sources
    BY <1>1 DEF Orderly, HasNoStaleRepair
  <2>4. Cardinality(d.m_repairs[r]) <= NbMissing(d) /\ Cardinality(d.m_repairs[r]) \in Nat
    BY <1>2, <2>3, FS_Subset, FS_CardinalityType DEF NbMissing
  <2>5. QED
    BY <1>2, <2>2, <2>4
<1>5. QED
  BY <1>3, <1>4

LEMMA AttemptedStays ==
  ASSUME NEW d, Tidy(d), NEW e, AttemptedTo(d, e)
  PROVE  e = d
<1>1. NbRepairs(d) = 0 \/ NbRepairs(d) < NbMissing(d)
  BY FewerRepairs
<1>2. d \in Decoders
  BY OrderlyFacts DEF Tidy
<1>3. NbRepairs(d) \in Nat /\ NbMissing(d) \in Nat
  BY <1>2, NumbersOfMembers
<1>4. NbMissing(d) # 1 \/ NbRepairs(d) = 0
  BY <1>1, <1>3
<1>5. QED
  BY <1>1, <1>3, <1>4 DEF AttemptedTo

(* An object that has received nothing is tidy.                            *)
LEMMA NewIsTidy ==
  ASSUME NEW d, Sound(d), d.fault = "none", d.m_last_id = 0, d.m_first_missing = 0,
         d.m_sources = {}, d.m_ordered_sources = {},
         DOMAIN d.m_repairs = {}, DOMAIN d.m_missing_sources = {}
  PROVE  Tidy(d)
<1>1. \A t \in SourceId : ~(t < 0)
  BY PacketsAssumption DEF SourceId
<1>2. HasPlace(d)
  BY <1>1 DEF HasPlace, HasPlaceInOrder
<1>3. HasNoStaleRepair(d) /\ HasNestedRepairs(d) /\ HasTooFewRepairs(d)
  BY DEF HasNoStaleRepair, HasNestedRepairs, HasTooFewRepairs
<1>4. QED
  BY <1>2, <1>3 DEF Tidy, Orderly

-----------------------------------------------------------------------------
(***************************************************************************)
(* What drop_outdated leaves of a tidy decoder is tidy, when m_last_id     *)
(* does not move backwards.                                                *)
(***************************************************************************)
LEMMA DroppedPlace ==
  ASSUME NEW d, Orderly(d), NEW id \in SourceId, id >= d.m_last_id,
         NEW e, DroppedTo(d, id, e)
  PROVE  HasPlace(e)
<1> DEFINE first == DropFirst(d, id)
           gap   == DropGap(d, id)
           given == DropGiven(d, id)
<1>1. /\ d \in Decoders
      /\ d.m_first_missing \in Nat /\ d.m_last_id \in Nat
      /\ SourceId \subseteq Nat
      /\ d.m_sources \in SUBSET SourceId
      /\ d.m_ordered_sources \subseteq d.m_sources
      /\ DOMAIN d.m_missing_sources \in SUBSET SourceId
      /\ DOMAIN d.m_missing_sources \cap d.m_sources = {}
  BY OrderlyFacts DEF Orderly
<1>2. /\ e.m_in_order = d.m_in_order
      /\ e.m_last_id = id
      /\ e.m_sources = {s \in d.m_sources : s >= id}
      /\ e.m_ordered_sources = d.m_ordered_sources \ given
      /\ e.m_first_missing = gap
      /\ DOMAIN e.m_missing_sources = {k \in DOMAIN d.m_missing_sources : k >= id}
  BY DEF DroppedTo
<1>3. /\ first \in 0 .. (MaxSource + 1)
      /\ gap \in first .. (MaxSource + 1)
      /\ gap \notin d.m_ordered_sources
      /\ given \subseteq d.m_ordered_sources
  BY <1>1, DropGivenIs
<1>4. /\ first \in Nat /\ gap \in Nat /\ id \in Nat /\ first <= gap
  BY <1>1, <1>3, PacketsAssumption
<1>5. given = LateOrdered(d, id) \cup (first .. (gap - 1))
  BY DEF DropGiven
<1>6. first = IF d.m_in_order /\ d.m_first_missing < id THEN id ELSE d.m_first_missing
  BY DEF DropFirst
<1> HIDE DEF first, gap, given
<1>7. CASE ~d.m_in_order
  BY <1>2, <1>3, <1>7 DEF Orderly, HasPlace
<1>8. CASE d.m_in_order
  <2>1. /\ \A s \in d.m_sources : s < d.m_first_missing \/ s \in d.m_ordered_sources
        /\ \A k \in d.m_ordered_sources : k > d.m_first_missing
        /\ \A m \in DOMAIN d.m_missing_sources : m >= d.m_first_missing
        /\ \A t \in SourceId : t < d.m_first_missing => Settled(d, t)
    BY <1>8 DEF Orderly, HasPlace, HasPlaceInOrder
  <2>2. first >= id /\ first >= d.m_first_missing
    BY <1>1, <1>4, <1>6, <1>8
  <2>3. \A n \in Nat : first <= n /\ n < gap => n \in d.m_ordered_sources /\ n \in given
    BY <1>3, <1>4, <1>5
  <2>4. ASSUME NEW k \in d.m_ordered_sources, k \notin given
        PROVE  k > gap
    <3>1. k \in Nat /\ k # gap /\ k > d.m_first_missing
      BY <1>1, <1>3, <2>1, <2>4
    <3>2. ~(k < id)
      BY <1>5, <2>4 DEF LateOrdered
    <3>3. k >= first
      BY <1>1, <1>4, <1>6, <3>1, <3>2
    <3>4. QED
      BY <1>4, <2>3, <2>4, <3>1, <3>3
  <2>5. ASSUME NEW s \in e.m_sources
        PROVE  s < gap \/ s \in e.m_ordered_sources
    <3>1. s \in d.m_sources /\ s \in Nat
      BY <1>1, <1>2, <2>5
    <3>2. CASE s < d.m_first_missing
      BY <1>1, <1>4, <2>2, <3>1, <3>2
    <3>3. CASE s \in d.m_ordered_sources
      <4>1. CASE s \in given
        <5>1. ~(s < id)
          BY <1>2, <1>4, <2>5, <3>1
        <5>2. s \in first .. (gap - 1)
          BY <1>5, <4>1, <5>1 DEF LateOrdered
        <5>3. QED
          BY <1>4, <5>2
      <4>2. CASE s \notin given
        BY <1>2, <3>3, <4>2
      <4>3. QED
        BY <4>1, <4>2
    <3>4. QED
      BY <2>1, <3>1, <3>2, <3>3
  <2>6. ASSUME NEW m \in DOMAIN e.m_missing_sources
        PROVE  m >= gap
    <3>1. m \in DOMAIN d.m_missing_sources /\ m >= id /\ m \in Nat /\ m >= d.m_first_missing
      BY <1>1, <1>2, <2>1, <2>6
    <3>2. m >= first /\ m \notin d.m_ordered_sources
      BY <1>1, <1>4, <1>6, <3>1
    <3>3. QED
      BY <1>4, <2>3, <3>1, <3>2
  <2>7. ASSUME NEW t \in SourceId, t < gap
        PROVE  Settled(e, t)
    <3>1. t \in Nat
      BY <1>1
    <3>2. CASE t < id
      BY <1>2, <3>2 DEF Settled
    <3>3. CASE t >= id
      <4>1. t \in d.m_sources
        <5>1. CASE t < first
          <6>1. t < d.m_first_missing
            BY <1>1, <1>4, <1>6, <3>1, <3>3, <5>1
          <6>2. t \in d.m_sources \/ t < d.m_last_id
            BY <2>1, <6>1 DEF Settled
          <6>3. QED
            BY <1>1, <1>4, <3>1, <3>3, <6>2
        <5>2. CASE first <= t
          BY <1>1, <2>3, <2>7, <3>1, <5>2
        <5>3. QED
          BY <1>4, <3>1, <5>1, <5>2
      <4>2. QED
        BY <1>2, <3>3, <4>1 DEF Settled
    <3>4. QED
      BY <1>4, <3>1, <3>2, <3>3
  <2>8. id <= gap
    BY <1>4, <2>2
  <2>9. \A k \in e.m_ordered_sources : k > gap
    BY <1>2, <2>4
  <2>10. HasPlaceInOrder(e)
    BY <1>2, <2>5, <2>6, <2>7, <2>8, <2>9 DEF HasPlaceInOrder
  <2>11. QED
    BY <1>2, <1>8, <2>10 DEF HasPlace
<1>9. QED
  BY <1>7, <1>8

LEMMA DroppedTidy ==
  ASSUME NEW d, Tidy(d), NEW id \in SourceId, id >= d.m_last_id,
         NEW e, DroppedTo(d, id, e)
  PROVE  Tidy(e)
<1>1. Orderly(d) /\ Sound(d) /\ d.fault = "none" /\ HasNoStaleRepair(d) /\ HasNestedRepairs(d)
  BY DEF Tidy, Orderly
<1>2. /\ d \in Decoders
      /\ SourceId \subseteq Nat
      /\ DOMAIN d.m_missing_sources \cap d.m_sources = {}
      /\ \A r \in DOMAIN d.m_repairs : d.m_repairs[r] \in SUBSET SourceId
  BY <1>1, OrderlyFacts DEF Orderly
<1>3. /\ DOMAIN e.m_repairs = DOMAIN d.m_repairs \ DroppedRepairs(d, id)
      /\ \A r \in DOMAIN e.m_repairs : e.m_repairs[r] = d.m_repairs[r]
      /\ DOMAIN e.m_missing_sources = {k \in DOMAIN d.m_missing_sources : k >= id}
      /\ e.m_sources = {s \in d.m_sources : s >= id}
      /\ e.fault = "none" <=> d.fault = "none" /\ DropIsLinked(d, id)
  BY DEF DroppedTo
<1>4. e.fault = "none"
  BY <1>1, <1>3 DEF DropIsLinked, DroppedRepairs, HasNoStaleRepair
<1>5. Sound(e) /\ HasPlace(e)
  BY <1>1, DroppedSound, DroppedPlace
<1>6. HasNoStaleRepair(e)
  <2>1. SUFFICES ASSUME NEW r \in DOMAIN e.m_repairs, NEW i \in e.m_repairs[r]
                 PROVE  i \in DOMAIN e.m_missing_sources
    BY DEF HasNoStaleRepair
  <2>2. r \in DOMAIN d.m_repairs /\ e.m_repairs[r] = d.m_repairs[r] /\ r \notin DroppedRepairs(d, id)
    BY <1>3
  <2>3. i \in DOMAIN d.m_missing_sources /\ i \in Nat /\ id \in Nat
    BY <1>1, <1>2, <2>2 DEF HasNoStaleRepair
  <2>4. ~(i < id)
    BY <2>2 DEF DroppedRepairs, Outdated
  <2>5. QED
    BY <1>3, <2>3, <2>4
<1>7. HasNestedRepairs(e)
  BY <1>1, <1>3 DEF HasNestedRepairs
<1>8. HasTooFewRepairs(e)
  <2>1. SUFFICES ASSUME NEW r \in DOMAIN e.m_repairs
                 PROVE  Cardinality(Within(e, r)) < Cardinality(e.m_repairs[r])
    BY DEF HasTooFewRepairs
  <2>2. r \in DOMAIN d.m_repairs /\ e.m_repairs[r] = d.m_repairs[r]
    BY <1>3
  <2>3. Within(e, r) \subseteq Within(d, r)
    BY <1>3 DEF Within
  <2>4. /\ IsFiniteSet(Within(d, r)) /\ Cardinality(Within(d, r)) \in Nat
    BY <1>2, WithinIs
  <2>5. Cardinality(Within(e, r)) <= Cardinality(Within(d, r)) /\ Cardinality(Within(e, r)) \in Nat
    BY <2>3, <2>4, FS_Subset, FS_CardinalityType
  <2>6. Cardinality(Within(d, r)) < Cardinality(d.m_repairs[r])
    BY <2>2 DEF Tidy, HasTooFewRepairs
  <2>7. Cardinality(d.m_repairs[r]) \in Nat
    BY <1>2, <2>2, SourcesAreFinite
  <2>8. QED
    BY <2>2, <2>4, <2>5, <2>6, <2>7
<1>9. DOMAIN e.m_missing_sources \cap e.m_sources = {}
  BY <1>2, <1>3
<1>10. QED
  BY <1>4, <1>5, <1>6, <1>7, <1>8, <1>9 DEF Tidy, Orderly

-----------------------------------------------------------------------------
(***************************************************************************)
(* A source that nothing stored encodes triggers no recursion.             *)
(***************************************************************************)

(* e is d, which lacked nothing that s could solve, with s.                *)
KeptTo(d, s, e) ==
  /\ e \in Decoders
  /\ e.fault = "none"
  /\ e.m_in_order = d.m_in_order
  /\ e.m_last_id = d.m_last_id
  /\ e.m_repairs = d.m_repairs
  /\ DOMAIN e.m_missing_sources = DOMAIN d.m_missing_sources
  /\ e.m_sources = d.m_sources \cup {s}
  /\ e.m_ordered_sources =
       IF d.m_in_order THEN (d.m_ordered_sources \ AddGiven(d, s)) \cup {k \in {s} : k > AddGap(d, s)}
                       ELSE d.m_ordered_sources
  /\ e.m_first_missing = AddGap(d, s)
  /\ e.out = d.out \cup AddGiven(d, s)
  /\ AddGiven(d, s) \subseteq d.m_ordered_sources \cup {s}
  /\ AddGap(d, s) \in d.m_first_missing .. (MaxSource + 1)
  /\ d.m_in_order => AddGap(d, s) = InOrderGap(d, s, {})
  /\ AddGiven(d, s) = IF d.m_in_order THEN d.m_first_missing .. (AddGap(d, s) - 1) ELSE {s}

LEMMA AddedKept ==
  ASSUME NEW d, Tidy(d), NEW s \in SourceId, s \notin DOMAIN d.m_missing_sources,
         NEW e, AddedTo(d, s, e)
  PROVE  KeptTo(d, s, e)
<1>1. d \in Decoders /\ d.fault = "none" /\ Orderly(d)
  BY OrderlyFacts DEF Tidy, Orderly
<1>2. SourceLinks(d, s) = {}
  BY DEF SourceLinks
<1>3. /\ DOMAIN OtherLinks(d, s) = DOMAIN d.m_missing_sources \ {s}
      /\ \A m \in DOMAIN OtherLinks(d, s) : OtherLinks(d, s)[m] = d.m_missing_sources[m]
      /\ DOMAIN ReducedRepairs(d, s) = DOMAIN d.m_repairs
      /\ \A r \in DOMAIN d.m_repairs : ReducedRepairs(d, s)[r] = d.m_repairs[r]
  <2>1. /\ DOMAIN OtherLinks(d, s) = DOMAIN d.m_missing_sources \ {s}
        /\ \A m \in DOMAIN OtherLinks(d, s) : OtherLinks(d, s)[m] = d.m_missing_sources[m]
        /\ DOMAIN ReducedRepairs(d, s) = DOMAIN d.m_repairs
        /\ \A r \in DOMAIN d.m_repairs :
             ReducedRepairs(d, s)[r] = IF r \in SourceLinks(d, s) THEN d.m_repairs[r] \ {s}
                                                                   ELSE d.m_repairs[r]
    BY <1>1, AddPartsAre
  <2>2. \A r \in DOMAIN d.m_repairs : ReducedRepairs(d, s)[r] = d.m_repairs[r]
    BY <1>2, <2>1
  <2>3. QED
    BY <2>1, <2>2
<1>4. ReadySources(d, s) = {}
  <2>1. SUFFICES ASSUME NEW m \in ReadySources(d, s)
                 PROVE  FALSE
    OBVIOUS
  <2>2. m \in DOMAIN OtherLinks(d, s) /\ \E r \in OtherLinks(d, s)[m] : ReducedRepairs(d, s)[r] = {m}
    BY DEF ReadySources, Ready
  <2>3. PICK r \in d.m_missing_sources[m] : ReducedRepairs(d, s)[r] = {m}
    BY <1>3, <2>2
  <2>4. m \in DOMAIN d.m_missing_sources
    BY <1>3, <2>2
  <2>5. r \in DOMAIN d.m_repairs
    BY <1>1, <2>3, <2>4 DEF Orderly, Sound, HasLiveLinks
  <2>6. d.m_repairs[r] \subseteq {m}
    BY <1>3, <2>3, <2>5
  <2>7. QED
    BY <2>5, <2>6, RepairsOfTwo
<1>5. UsedRepairs(d, s) = {}
  BY <1>4 DEF UsedRepairs
<1>6. AddLeavesSome(d, s) /\ AddIsFresh(d, s) /\ AddIsStable(d, s)
  BY <1>2, <1>4 DEF AddLeavesSome, AddIsFresh, AddIsStable, ErasesNext
<1>7. e \in Decoders /\ e.fault = "none"
  BY <1>1, <1>6 DEF AddedTo
<1>8. e.m_repairs = d.m_repairs
  <2>1. DOMAIN e.m_repairs = DOMAIN d.m_repairs
    BY <1>5 DEF AddedTo
  <2>2. \A r \in DOMAIN d.m_repairs : e.m_repairs[r] = d.m_repairs[r]
    BY <1>3, <2>1 DEF AddedTo
  <2>3. /\ e.m_repairs \in [DOMAIN e.m_repairs -> SUBSET SourceId]
        /\ d.m_repairs \in [DOMAIN d.m_repairs -> SUBSET SourceId]
    BY <1>1, <1>7, DecoderMaps
  <2>4. QED
    BY <2>1, <2>2, <2>3
<1>9. /\ DOMAIN e.m_missing_sources = DOMAIN d.m_missing_sources
      /\ e.m_sources = d.m_sources \cup {s}
  BY <1>4 DEF AddedTo
<1>10. /\ AddGiven(d, s) \subseteq d.m_ordered_sources \cup {s}
       /\ AddGap(d, s) \in d.m_first_missing .. (MaxSource + 1)
  BY <1>1, <1>4, AddGivenIs
<1>11. /\ d.m_in_order => AddGap(d, s) = InOrderGap(d, s, {})
       /\ AddGiven(d, s) = IF d.m_in_order THEN d.m_first_missing .. (AddGap(d, s) - 1) ELSE {s}
  BY <1>4 DEF AddGap, AddGiven
<1>12. /\ e.m_in_order = d.m_in_order
       /\ e.m_last_id = d.m_last_id
       /\ e.m_first_missing = AddGap(d, s)
       /\ e.out = d.out \cup AddGiven(d, s)
       /\ e.m_ordered_sources =
            IF d.m_in_order THEN (d.m_ordered_sources \ AddGiven(d, s)) \cup {k \in {s} : k > AddGap(d, s)}
                            ELSE d.m_ordered_sources
  BY <1>4 DEF AddedTo
<1>13. QED
  BY <1>7, <1>8, <1>9, <1>10, <1>11, <1>12 DEF KeptTo

-----------------------------------------------------------------------------
(***************************************************************************)
(* Sources that become known, one received or all those decoded, and what  *)
(* in-order delivery makes of them.                                        *)
(***************************************************************************)
Passed(d, e) == d.m_first_missing .. (e.m_first_missing - 1)

(* e is d with the sources of X, of which it knew nothing.                 *)
GrownInOrder(d, X, e) ==
  /\ e.m_first_missing \in d.m_first_missing .. (MaxSource + 1)
  /\ e.m_first_missing \notin d.m_ordered_sources \cup X
  /\ Passed(d, e) \subseteq d.m_ordered_sources \cup X
  /\ e.m_ordered_sources = (d.m_ordered_sources \cup X) \ Passed(d, e)
  /\ e.out = d.out \cup Passed(d, e)

GrownTo(d, X, e) ==
  /\ e.m_in_order = d.m_in_order
  /\ e.m_last_id = d.m_last_id
  /\ e.m_sources = d.m_sources \cup X
  /\ X \in SUBSET SourceId
  /\ \A x \in X : ~Settled(d, x)
  /\ DOMAIN e.m_missing_sources \subseteq DOMAIN d.m_missing_sources
  /\ DOMAIN e.m_missing_sources \cap X = {}
  /\ IF d.m_in_order THEN GrownInOrder(d, X, e)
     ELSE e.m_ordered_sources = d.m_ordered_sources /\ e.out = d.out \cup X

LEMMA KeptGrows ==
  ASSUME NEW d, Orderly(d), NEW s \in SourceId, ~KnownSource(d, s),
         s \notin DOMAIN d.m_missing_sources, NEW e, KeptTo(d, s, e)
  PROVE  GrownTo(d, {s}, e)
<1> DEFINE gap   == AddGap(d, s)
           given == AddGiven(d, s)
<1>1. /\ d \in Decoders
      /\ d.m_first_missing \in Nat /\ d.m_last_id \in Nat
      /\ SourceId \subseteq Nat
      /\ d.m_ordered_sources \in SUBSET SourceId
      /\ d.m_first_missing \in 0 .. (MaxSource + 1)
  <2>1. /\ d \in Decoders
        /\ d.m_first_missing \in Nat /\ d.m_last_id \in Nat
        /\ SourceId \subseteq Nat
    BY OrderlyFacts
  <2>2. d.m_ordered_sources \in SUBSET SourceId /\ d.m_first_missing \in 0 .. (MaxSource + 1)
    BY <2>1 DEF Decoders
  <2>3. QED
    BY <2>1, <2>2
<1>2. ~Settled(d, s)
  BY DEF KnownSource, Settled
<1>3. /\ gap \in d.m_first_missing .. (MaxSource + 1)
      /\ e.m_first_missing = gap
      /\ d.m_in_order => given = d.m_first_missing .. (gap - 1)
      /\ e.out = d.out \cup given
      /\ e.m_ordered_sources =
           IF d.m_in_order THEN (d.m_ordered_sources \ given) \cup {k \in {s} : k > gap}
                           ELSE d.m_ordered_sources
  BY DEF KeptTo
<1>4. gap \in Nat /\ s \in Nat /\ d.m_first_missing <= gap
  BY <1>1, <1>3, PacketsAssumption
<1>5. ASSUME d.m_in_order
      PROVE  /\ gap \notin d.m_ordered_sources /\ gap # s
             /\ d.m_first_missing .. (gap - 1) \subseteq d.m_ordered_sources \cup {s}
             /\ s < gap \/ s > gap
             /\ s >= d.m_first_missing
  <2>1. s >= d.m_first_missing
    <3>1. \A t \in SourceId : t < d.m_first_missing => Settled(d, t)
      BY <1>5 DEF Orderly, HasPlace, HasPlaceInOrder
    <3>2. QED
      BY <1>1, <1>2, <1>4, <3>1
  <2>2. d.m_first_missing \notin d.m_ordered_sources
    BY <1>1, <1>5 DEF Orderly, HasPlace, HasPlaceInOrder
  <2> DEFINE avail == IF s = d.m_first_missing THEN d.m_ordered_sources \cup {s}
                                               ELSE d.m_ordered_sources
  <2>3. gap = NextGap(avail, d.m_first_missing)
    <3>1. gap = InOrderGap(d, s, {})
      BY <1>5 DEF KeptTo
    <3>2. d.m_ordered_sources \cup {} = d.m_ordered_sources
      OBVIOUS
    <3>3. QED
      BY <3>1, <3>2 DEF InOrderGap
  <2>4. avail \in SUBSET SourceId
    BY <1>1
  <2> HIDE DEF avail
  <2>5. gap \notin avail /\ d.m_first_missing .. (gap - 1) \subseteq avail
    BY <1>1, <2>3, <2>4, NextGapIs
  <2>6. CASE s = d.m_first_missing
    BY <1>1, <1>4, <2>1, <2>5, <2>6 DEF avail
  <2>7. CASE s # d.m_first_missing
    <3>1. gap = d.m_first_missing
      <4>1. ~(d.m_first_missing <= gap - 1)
        BY <1>1, <1>4, <2>2, <2>5, <2>7 DEF avail
      <4>2. QED
        BY <1>1, <1>4, <4>1
    <3>2. s > gap
      BY <1>1, <1>4, <2>1, <2>7, <3>1
    <3>3. QED
      BY <1>4, <2>1, <2>5, <2>7, <3>2 DEF avail
  <2>8. QED
    BY <2>6, <2>7
<1> HIDE DEF gap, given
<1>6. ASSUME d.m_in_order
      PROVE  GrownInOrder(d, {s}, e)
  <2>1. Passed(d, e) = given
    BY <1>3, <1>6 DEF Passed
  <2>2. s \in given <=> s < gap
    BY <1>1, <1>3, <1>4, <1>5, <1>6
  <2>3. (d.m_ordered_sources \ given) \cup {k \in {s} : k > gap}
          = (d.m_ordered_sources \cup {s}) \ given
    <3>1. s \in given <=> ~(s > gap)
      BY <1>4, <1>5, <1>6, <2>2
    <3>2. QED
      BY <3>1
  <2>4. given \subseteq d.m_ordered_sources \cup {s}
    BY <1>3, <1>5, <1>6
  <2>5. QED
    BY <1>3, <1>5, <1>6, <2>1, <2>3, <2>4 DEF GrownInOrder
<1>7. ASSUME ~d.m_in_order
      PROVE  e.m_ordered_sources = d.m_ordered_sources /\ e.out = d.out \cup {s}
  BY <1>7 DEF KeptTo
<1>8. QED
  BY <1>2, <1>6, <1>7 DEF GrownTo, KeptTo

(* What is decoded is decoded right, and only then known.                  *)
LEMMA DecodedGrows ==
  ASSUME NEW d, Orderly(d), NEW e, DecodedTo(d, e)
  PROVE  e.fault = "none" /\ GrownTo(d, DOMAIN d.m_missing_sources, e)
<1> DEFINE missing == DOMAIN d.m_missing_sources
           gap     == DecodeGap(d)
           given   == DecodeGiven(d)
<1>1. /\ d \in Decoders
      /\ d.m_first_missing \in Nat /\ d.m_last_id \in Nat
      /\ SourceId \subseteq Nat
      /\ missing \in SUBSET SourceId
      /\ missing \cap d.m_sources = {}
      /\ \A m \in missing : m >= d.m_last_id
      /\ HasFlushedQueue(d)
      /\ d.fault = "none"
      /\ HasNoStaleRepair(d)
  BY OrderlyFacts DEF Orderly, Sound
<1>2. /\ Available(d) = d.m_ordered_sources \cup missing
      /\ gap \in d.m_first_missing .. (MaxSource + 1)
      /\ d.m_in_order => gap \notin Available(d)
      /\ given \subseteq Available(d)
  BY <1>1, DecodeGivenIs DEF Available
<1>3. /\ e.m_first_missing = gap
      /\ e.out = d.out \cup given
      /\ e.m_ordered_sources = IF d.m_in_order THEN Available(d) \ given ELSE d.m_ordered_sources
      /\ e.m_in_order = d.m_in_order
      /\ e.m_last_id = d.m_last_id
      /\ e.m_sources = d.m_sources \cup missing
      /\ DOMAIN e.m_missing_sources = {}
      /\ e.fault = "none" <=> d.fault = "none" /\ DecodeIsClean(d) /\ DecodeIsFresh(d)
  BY DEF DecodedTo
<1>4. /\ d.m_in_order => given = d.m_first_missing .. (gap - 1)
      /\ ~d.m_in_order => given = missing
  BY DEF DecodeGiven
<1>5. e.fault = "none"
  BY <1>1, <1>3 DEF DecodeIsClean, DecodeIsFresh, HasNoStaleRepair
<1> HIDE DEF missing, gap, given
<1>6. \A m \in missing : ~Settled(d, m)
  <2>1. TAKE m \in missing
  <2>2. m \in Nat /\ m >= d.m_last_id /\ m \notin d.m_sources
    BY <1>1
  <2>3. QED
    BY <1>1, <2>2 DEF Settled
<1>7. ASSUME d.m_in_order
      PROVE  GrownInOrder(d, missing, e)
  BY <1>2, <1>3, <1>4, <1>7 DEF GrownInOrder, Passed
<1>8. GrownTo(d, missing, e)
  BY <1>1, <1>3, <1>4, <1>6, <1>7 DEF GrownTo
<1>9. QED
  BY <1>5, <1>8 DEF missing

(* In-order delivery keeps its place.                                      *)
LEMMA GrownPlace ==
  ASSUME NEW d, Orderly(d), NEW X, NEW e, GrownTo(d, X, e)
  PROVE  HasPlace(e) /\ DOMAIN e.m_missing_sources \cap e.m_sources = {}
<1>1. /\ d.m_first_missing \in Nat /\ d.m_last_id \in Nat
      /\ SourceId \subseteq Nat
      /\ d.m_sources \in SUBSET SourceId
      /\ d.m_ordered_sources \subseteq d.m_sources
      /\ DOMAIN d.m_missing_sources \in SUBSET SourceId
      /\ DOMAIN d.m_missing_sources \cap d.m_sources = {}
  BY OrderlyFacts DEF Orderly
<1>2. /\ e.m_in_order = d.m_in_order
      /\ e.m_last_id = d.m_last_id
      /\ e.m_sources = d.m_sources \cup X
      /\ X \in SUBSET SourceId
      /\ \A x \in X : ~Settled(d, x)
      /\ DOMAIN e.m_missing_sources \subseteq DOMAIN d.m_missing_sources
      /\ DOMAIN e.m_missing_sources \cap X = {}
  BY DEF GrownTo
<1>3. DOMAIN e.m_missing_sources \cap e.m_sources = {}
  BY <1>1, <1>2
<1>4. CASE ~d.m_in_order
  BY <1>2, <1>3, <1>4 DEF Orderly, HasPlace, GrownTo
<1>5. CASE d.m_in_order
  <2> DEFINE gap == e.m_first_missing
  <2>1. /\ d.m_last_id <= d.m_first_missing
        /\ \A s \in d.m_sources : s < d.m_first_missing \/ s \in d.m_ordered_sources
        /\ \A k \in d.m_ordered_sources : k > d.m_first_missing
        /\ \A m \in DOMAIN d.m_missing_sources : m >= d.m_first_missing
        /\ \A t \in SourceId : t < d.m_first_missing => Settled(d, t)
    BY <1>5 DEF Orderly, HasPlace, HasPlaceInOrder
  <2>2. /\ gap \in d.m_first_missing .. (MaxSource + 1)
        /\ gap \notin d.m_ordered_sources \cup X
        /\ Passed(d, e) \subseteq d.m_ordered_sources \cup X
        /\ e.m_ordered_sources = (d.m_ordered_sources \cup X) \ Passed(d, e)
    BY <1>5 DEF GrownTo, GrownInOrder
  <2>3. gap \in Nat /\ d.m_first_missing <= gap
    BY <1>1, <2>2, PacketsAssumption
  <2>4. \A n \in Nat : n \in Passed(d, e) <=> d.m_first_missing <= n /\ n < gap
    BY <1>1, <2>3 DEF Passed
  <2>5. \A x \in X : x >= d.m_first_missing
    BY <1>1, <1>2, <2>1
  <2> HIDE DEF gap
  <2>6. \A s \in e.m_sources : s < gap \/ s \in e.m_ordered_sources
    <3>1. TAKE s \in e.m_sources
    <3>2. s \in Nat /\ (s < d.m_first_missing \/ s \in d.m_ordered_sources \cup X)
      BY <1>1, <1>2, <2>1
    <3>3. CASE s < d.m_first_missing
      BY <1>1, <2>3, <3>2, <3>3
    <3>4. CASE s \in Passed(d, e)
      BY <2>4, <3>2, <3>4
    <3>5. CASE s \in d.m_ordered_sources \cup X /\ s \notin Passed(d, e)
      BY <2>2, <3>5
    <3>6. QED
      BY <3>2, <3>3, <3>4, <3>5
  <2>7. ASSUME NEW k \in d.m_ordered_sources \cup X, k \notin Passed(d, e)
        PROVE  k > gap
    <3>1. k \in Nat /\ k # gap
      BY <1>1, <1>2, <2>2, <2>7
    <3>2. k >= d.m_first_missing
      BY <1>1, <2>1, <2>5, <2>7, <3>1
    <3>3. QED
      BY <1>1, <2>3, <2>4, <2>7, <3>1, <3>2
  <2>8. \A k \in e.m_ordered_sources : k > gap
    BY <2>2, <2>7
  <2>9. \A m \in DOMAIN e.m_missing_sources : m >= gap
    <3>1. TAKE m \in DOMAIN e.m_missing_sources
    <3>2. m \in Nat /\ m >= d.m_first_missing /\ m \notin d.m_ordered_sources \cup X
      BY <1>1, <1>2, <1>3, <2>1
    <3>3. m \notin Passed(d, e)
      BY <2>2, <3>2
    <3>4. QED
      BY <2>3, <2>4, <3>2, <3>3
  <2>10. \A t \in SourceId : t < gap => Settled(e, t)
    <3>1. SUFFICES ASSUME NEW t \in SourceId, t < gap
                   PROVE  Settled(e, t)
      OBVIOUS
    <3>2. t \in Nat
      BY <1>1
    <3>3. CASE t < d.m_first_missing
      BY <1>2, <2>1, <3>3 DEF Settled
    <3>4. CASE d.m_first_missing <= t
      <4>1. t \in d.m_ordered_sources \cup X
        BY <2>2, <2>4, <3>1, <3>2, <3>4
      <4>2. QED
        BY <1>1, <1>2, <4>1 DEF Settled
    <3>5. QED
      BY <1>1, <3>2, <3>3, <3>4
  <2>11. e.m_last_id <= gap
    BY <1>1, <1>2, <2>1, <2>3
  <2>12. HasPlaceInOrder(e)
    BY <2>6, <2>8, <2>9, <2>10, <2>11 DEF HasPlaceInOrder, gap
  <2>13. QED
    BY <1>2, <1>3, <1>5, <2>12 DEF HasPlace
<1>6. QED
  BY <1>4, <1>5

LEMMA AddedTidy ==
  ASSUME NEW d, Tidy(d), NEW s \in SourceId, ~KnownSource(d, s),
         s \notin DOMAIN d.m_missing_sources, NEW e, AddedTo(d, s, e)
  PROVE  Tidy(e) /\ GrownTo(d, {s}, e)
<1>1. Orderly(d) /\ Sound(d) /\ d.fault = "none" /\ HasNoStaleRepair(d) /\ HasNestedRepairs(d)
  BY DEF Tidy, Orderly
<1>2. KeptTo(d, s, e)
  BY AddedKept
<1>3. GrownTo(d, {s}, e)
  BY <1>1, <1>2, KeptGrows
<1>4. /\ e.fault = "none"
      /\ e.m_repairs = d.m_repairs
      /\ DOMAIN e.m_missing_sources = DOMAIN d.m_missing_sources
  BY <1>2 DEF KeptTo
<1>5. s >= d.m_last_id
  <2>1. d.m_last_id \in Nat /\ s \in Nat
    BY <1>1, OrderlyFacts
  <2>2. QED
    BY <2>1 DEF KnownSource
<1>6. Sound(e)
  BY <1>1, <1>5, AddedSound
<1>7. HasPlace(e) /\ DOMAIN e.m_missing_sources \cap e.m_sources = {}
  BY <1>1, <1>3, GrownPlace
<1>8. HasNoStaleRepair(e) /\ HasNestedRepairs(e)
  BY <1>1, <1>4 DEF HasNoStaleRepair, HasNestedRepairs
<1>9. HasTooFewRepairs(e)
  BY <1>4 DEF Tidy, HasTooFewRepairs, Within
<1>10. QED
  BY <1>3, <1>4, <1>6, <1>7, <1>8, <1>9 DEF Tidy, Orderly

LEMMA DecodedTidy ==
  ASSUME NEW d, Orderly(d), NEW e, DecodedTo(d, e)
  PROVE  Tidy(e) /\ GrownTo(d, DOMAIN d.m_missing_sources, e)
<1>1. e.fault = "none" /\ GrownTo(d, DOMAIN d.m_missing_sources, e)
  BY DecodedGrows
<1>2. HasPlace(e) /\ DOMAIN e.m_missing_sources \cap e.m_sources = {}
  BY <1>1, GrownPlace
<1>3. Sound(e)
  BY DecodedSound DEF Orderly
<1>4. DOMAIN e.m_repairs = {}
  BY DEF DecodedTo
<1>5. HasNoStaleRepair(e) /\ HasNestedRepairs(e) /\ HasTooFewRepairs(e)
  BY <1>4 DEF HasNoStaleRepair, HasNestedRepairs, HasTooFewRepairs
<1>6. QED
  BY <1>1, <1>2, <1>3, <1>5 DEF Tidy, Orderly

-----------------------------------------------------------------------------
(***************************************************************************)
(* A repair that encodes all that is missing.                              *)
(***************************************************************************)

(* Links that change move nothing that in-order delivery depends on.       *)
LEMMA RelinkedPlace ==
  ASSUME NEW d, Orderly(d), NEW e, OnlyRelinked(d, e),
         \A m \in DOMAIN e.m_missing_sources : m \in SourceId /\ ~Settled(d, m)
  PROVE  /\ HasPlace(e)
         /\ DOMAIN e.m_missing_sources \cap e.m_sources = {}
         /\ e.fault = "none"
<1>1. /\ e.m_in_order = d.m_in_order
      /\ e.m_last_id = d.m_last_id
      /\ e.m_sources = d.m_sources
      /\ e.m_ordered_sources = d.m_ordered_sources
      /\ e.m_first_missing = d.m_first_missing
      /\ e.fault = d.fault
  BY DEF OnlyRelinked
<1>2. d.m_first_missing \in Nat /\ SourceId \subseteq Nat
  BY OrderlyFacts
<1>3. CASE d.m_in_order
  <2>1. HasPlaceInOrder(d)
    BY <1>3 DEF Orderly, HasPlace
  <2>2. \A m \in DOMAIN e.m_missing_sources : m >= d.m_first_missing
    <3>1. \A t \in SourceId : t < d.m_first_missing => Settled(d, t)
      BY <2>1 DEF HasPlaceInOrder
    <3>2. TAKE m \in DOMAIN e.m_missing_sources
    <3>3. m \in SourceId /\ m \in Nat /\ ~(m < d.m_first_missing)
      BY <1>2, <3>1
    <3>4. QED
      BY <1>2, <3>3
  <2>3. \A t : Settled(d, t) <=> Settled(e, t)
    BY <1>1 DEF Settled
  <2>4. HasPlaceInOrder(e)
    BY <1>1, <2>1, <2>2, <2>3 DEF HasPlaceInOrder
  <2>5. QED
    BY <1>1, <1>3, <2>4 DEF HasPlace, Settled, Orderly
<1>4. CASE ~d.m_in_order
  BY <1>1, <1>4 DEF HasPlace, Settled, Orderly
<1>5. QED
  BY <1>3, <1>4

(* The last source of such a repair: nothing else was missing, so nothing  *)
(* was stored.                                                             *)
LEMMA UnmissedTidy ==
  ASSUME NEW d, Tidy(d), NEW s \in SourceId, DOMAIN d.m_missing_sources \subseteq {s},
         NEW u, UnmissedTo(d, s, u)
  PROVE  Tidy(u) /\ DOMAIN u.m_missing_sources = {}
<1>1. Orderly(d) /\ Sound(d) /\ HasNoStaleRepair(d)
  BY DEF Tidy, Orderly
<1>2. /\ OnlyRelinked(d, u)
      /\ u.m_repairs = d.m_repairs
      /\ DOMAIN u.m_missing_sources = {}
  BY DEF UnmissedTo
<1>3. DOMAIN d.m_repairs = {}
  <2>1. SUFFICES ASSUME NEW r \in DOMAIN d.m_repairs
                 PROVE  FALSE
    OBVIOUS
  <2>2. d.m_repairs[r] \subseteq {s}
    BY <1>1 DEF HasNoStaleRepair
  <2>3. QED
    BY <2>2, RepairsOfTwo
<1>4. Sound(u)
  BY <1>1, UnmissedSound
<1>5. /\ HasPlace(u)
      /\ DOMAIN u.m_missing_sources \cap u.m_sources = {}
      /\ u.fault = "none"
  BY <1>1, <1>2, RelinkedPlace
<1>6. HasNoStaleRepair(u) /\ HasNestedRepairs(u) /\ HasTooFewRepairs(u)
  BY <1>2, <1>3 DEF HasNoStaleRepair, HasNestedRepairs, HasTooFewRepairs
<1>7. QED
  BY <1>2, <1>4, <1>5, <1>6 DEF Tidy, Orderly

(* One repair from being tidy: those that encode all that is missing may   *)
(* be as many as it.                                                       *)
NearlyTidy(d) ==
  /\ Orderly(d)
  /\ NbMissing(d) >= 2
  /\ NbRepairs(d) <= NbMissing(d)
  /\ \A q \in DOMAIN d.m_repairs :
       \/ d.m_repairs[q] = DOMAIN d.m_missing_sources
       \/ Cardinality(Within(d, q)) < Cardinality(d.m_repairs[q])

LEMMA LinkedOrderly ==
  ASSUME NEW d, Tidy(d), NEW r, r \notin DOMAIN d.m_repairs,
         NEW left \in SUBSET SourceId, left # {}, \A i \in left : ~Settled(d, i),
         DOMAIN d.m_missing_sources \subseteq left,
         NEW e, LinkedTo(d, r, left, e)
  PROVE  Orderly(e) /\ DOMAIN e.m_missing_sources = left
<1>1. Orderly(d) /\ Sound(d) /\ d.fault = "none" /\ HasNoStaleRepair(d) /\ HasNestedRepairs(d)
  BY DEF Tidy, Orderly
<1>2. /\ OnlyRelinked(d, e)
      /\ DOMAIN e.m_repairs = DOMAIN d.m_repairs \cup {r}
      /\ \A q \in DOMAIN e.m_repairs : e.m_repairs[q] = IF q = r THEN left ELSE d.m_repairs[q]
      /\ DOMAIN e.m_missing_sources = left
  BY DEF LinkedTo
<1>3. \A i \in left : i >= d.m_last_id
  <2>1. d.m_last_id \in Nat /\ SourceId \subseteq Nat
    BY <1>1, OrderlyFacts
  <2>2. QED
    BY <2>1 DEF Settled
<1>4. Sound(e)
  BY <1>1, <1>3, LinkedSound
<1>5. /\ HasPlace(e)
      /\ DOMAIN e.m_missing_sources \cap e.m_sources = {}
      /\ e.fault = "none"
  BY <1>1, <1>2, RelinkedPlace
<1>6. \A q \in DOMAIN d.m_repairs : d.m_repairs[q] \subseteq left
  BY <1>1 DEF HasNoStaleRepair
<1>7. HasNoStaleRepair(e)
  BY <1>2, <1>6 DEF HasNoStaleRepair
<1>8. HasNestedRepairs(e)
  <2>1. SUFFICES ASSUME NEW p \in DOMAIN e.m_repairs, NEW q \in DOMAIN e.m_repairs
                 PROVE  e.m_repairs[p] \subseteq e.m_repairs[q] \/ e.m_repairs[q] \subseteq e.m_repairs[p]
    BY DEF HasNestedRepairs
  <2>2. CASE p = r
    BY <1>2, <1>6, <2>2
  <2>3. CASE q = r
    BY <1>2, <1>6, <2>3
  <2>4. CASE p # r /\ q # r
    BY <1>1, <1>2, <2>4 DEF HasNestedRepairs
  <2>5. QED
    BY <2>2, <2>3, <2>4
<1>9. QED
  BY <1>2, <1>4, <1>5, <1>7, <1>8 DEF Orderly

LEMMA LinkedNearlyTidy ==
  ASSUME NEW d, Tidy(d), NEW r, r \notin DOMAIN d.m_repairs,
         NEW left \in SUBSET SourceId, left # {}, \A s \in left : left # {s},
         \A i \in left : ~Settled(d, i),
         DOMAIN d.m_missing_sources \subseteq left,
         NEW e, LinkedTo(d, r, left, e)
  PROVE  NearlyTidy(e)
<1>1. Orderly(e) /\ DOMAIN e.m_missing_sources = left
  BY LinkedOrderly
<1>2. /\ DOMAIN e.m_repairs = DOMAIN d.m_repairs \cup {r}
      /\ \A q \in DOMAIN e.m_repairs : e.m_repairs[q] = IF q = r THEN left ELSE d.m_repairs[q]
  BY DEF LinkedTo
<1>3. Orderly(d) /\ d \in Decoders /\ e \in Decoders
  BY <1>1, OrderlyFacts DEF Tidy
<1>4. IsFiniteSet(left) /\ NbMissing(e) = Cardinality(left) /\ NbMissing(e) \in Nat
  BY <1>1, SourcesAreFinite DEF NbMissing
<1>5. NbMissing(e) >= 2
  <2>1. Cardinality(left) # 0
    BY <1>4, FS_EmptySet
  <2>2. Cardinality(left) # 1
    BY <1>4, FS_Singleton
  <2>3. QED
    BY <1>4, <2>1, <2>2
<1>6. /\ IsFiniteSet(DOMAIN d.m_repairs) /\ NbRepairs(d) \in Nat
      /\ NbMissing(d) \in Nat
  BY <1>3, NumbersOfMembers
<1>7. NbRepairs(e) <= NbMissing(e)
  <2>1. NbRepairs(e) = NbRepairs(d) + 1
    BY <1>2, <1>6, FS_AddElement DEF NbRepairs
  <2>2. NbMissing(d) <= NbMissing(e)
    BY <1>4, FS_Subset DEF NbMissing
  <2>3. NbRepairs(d) = 0 \/ NbRepairs(d) < NbMissing(d)
    BY FewerRepairs
  <2>4. QED
    BY <1>4, <1>5, <1>6, <2>1, <2>2, <2>3
<1>8. ASSUME NEW q \in DOMAIN e.m_repairs, e.m_repairs[q] # left
      PROVE  Cardinality(Within(e, q)) < Cardinality(e.m_repairs[q])
  <2>1. q # r /\ q \in DOMAIN d.m_repairs /\ e.m_repairs[q] = d.m_repairs[q]
    BY <1>2, <1>8
  <2>2. d.m_repairs[q] \subseteq left
    BY <1>3, <2>1 DEF Orderly, HasNoStaleRepair
  <2>3. Within(e, q) = Within(d, q)
    <3>1. ~(left \subseteq d.m_repairs[q])
      BY <1>8, <2>1, <2>2
    <3>2. \A p \in DOMAIN e.m_repairs :
            e.m_repairs[p] \subseteq e.m_repairs[q]
              <=> p \in DOMAIN d.m_repairs /\ d.m_repairs[p] \subseteq d.m_repairs[q]
      BY <1>2, <2>1, <3>1
    <3>3. QED
      BY <1>2, <3>2 DEF Within
  <2>4. QED
    BY <2>1, <2>3 DEF Tidy, HasTooFewRepairs
<1>9. QED
  BY <1>1, <1>5, <1>7, <1>8 DEF NearlyTidy

(* A repair given up leaves as many missing sources, and one repair less.  *)
LEMMA GivenUpTidy ==
  ASSUME NEW d, NearlyTidy(d), NbMissing(d) = NbRepairs(d), NEW faulty, NEW e, GivenUpTo(d, faulty, e)
  PROVE  Tidy(e) /\ DOMAIN e.m_missing_sources = DOMAIN d.m_missing_sources
<1>1. /\ Orderly(d) /\ Sound(d) /\ d.fault = "none"
      /\ HasNoStaleRepair(d) /\ HasNestedRepairs(d)
      /\ DOMAIN d.m_missing_sources \cap d.m_sources = {}
  BY DEF NearlyTidy, Orderly
<1>2. /\ faulty \in DOMAIN d.m_repairs
      /\ OnlyRelinked(d, e)
      /\ DOMAIN e.m_repairs = DOMAIN d.m_repairs \ {faulty}
      /\ \A r \in DOMAIN e.m_repairs : e.m_repairs[r] = d.m_repairs[r]
      /\ DOMAIN e.m_missing_sources = DOMAIN d.m_missing_sources \cup d.m_repairs[faulty]
  BY DEF GivenUpTo
<1>3. DOMAIN e.m_missing_sources = DOMAIN d.m_missing_sources
  BY <1>1, <1>2 DEF HasNoStaleRepair
<1>4. Sound(e)
  BY <1>1, GivenUpSound
<1>5. /\ d \in Decoders /\ e \in Decoders
      /\ d.m_last_id \in Nat /\ SourceId \subseteq Nat
      /\ DOMAIN d.m_missing_sources \in SUBSET SourceId
      /\ \A s \in DOMAIN d.m_missing_sources : s >= d.m_last_id
      /\ \A r \in DOMAIN d.m_repairs : d.m_repairs[r] \in SUBSET SourceId
  BY <1>1, <1>4, OrderlyFacts DEF Sound
<1>6. /\ HasPlace(e)
      /\ DOMAIN e.m_missing_sources \cap e.m_sources = {}
      /\ e.fault = "none"
  <2>1. ASSUME NEW m \in DOMAIN e.m_missing_sources
        PROVE  m \in SourceId /\ ~Settled(d, m)
    <3>1. m \in SourceId /\ m \in Nat /\ m >= d.m_last_id /\ m \notin d.m_sources
      BY <1>1, <1>3, <1>5
    <3>2. QED
      BY <1>5, <3>1 DEF Settled
  <2>2. QED
    BY <1>1, <1>2, <2>1, RelinkedPlace
<1>7. HasNoStaleRepair(e) /\ HasNestedRepairs(e)
  BY <1>1, <1>2, <1>3 DEF HasNoStaleRepair, HasNestedRepairs
<1>8. /\ IsFiniteSet(DOMAIN d.m_repairs) /\ NbRepairs(d) \in Nat /\ NbMissing(d) \in Nat
      /\ NbRepairs(e) \in Nat
  BY <1>5, NumbersOfMembers
<1>9. NbRepairs(e) < NbMissing(d)
  <2>1. NbRepairs(e) = NbRepairs(d) - 1
    BY <1>2, <1>8, FS_RemoveElement DEF NbRepairs
  <2>2. QED
    BY <1>8, <2>1
<1>10. HasTooFewRepairs(e)
  <2>1. SUFFICES ASSUME NEW q \in DOMAIN e.m_repairs
                 PROVE  Cardinality(Within(e, q)) < Cardinality(e.m_repairs[q])
    BY DEF HasTooFewRepairs
  <2>2. q \in DOMAIN d.m_repairs /\ e.m_repairs[q] = d.m_repairs[q]
    BY <1>2
  <2>3. /\ Cardinality(Within(e, q)) \in Nat /\ Cardinality(Within(e, q)) <= NbRepairs(e)
        /\ IsFiniteSet(Within(d, q)) /\ Cardinality(Within(d, q)) \in Nat
    BY <1>5, WithinIs
  <2>4. CASE d.m_repairs[q] = DOMAIN d.m_missing_sources
    BY <1>8, <1>9, <2>2, <2>3, <2>4 DEF NbMissing
  <2>5. CASE Cardinality(Within(d, q)) < Cardinality(d.m_repairs[q])
    <3>1. Within(e, q) \subseteq Within(d, q)
      BY <1>2 DEF Within
    <3>2. Cardinality(Within(e, q)) <= Cardinality(Within(d, q))
      BY <2>3, <3>1, FS_Subset
    <3>3. Cardinality(d.m_repairs[q]) \in Nat
      BY <1>5, <2>2, SourcesAreFinite
    <3>4. QED
      BY <2>2, <2>3, <2>5, <3>2, <3>3
  <2>6. QED
    BY <2>2, <2>4, <2>5 DEF NearlyTidy
<1>11. QED
  BY <1>3, <1>4, <1>6, <1>7, <1>10 DEF Tidy, Orderly

(* What an attempt makes of a decoder that is one repair from being tidy.  *)
SolvedTo(d, e) ==
  \/ e = d
  \/ GrownTo(d, DOMAIN d.m_missing_sources, e)
  \/ OnlyRelinked(d, e) /\ DOMAIN e.m_missing_sources = DOMAIN d.m_missing_sources

LEMMA AttemptedTidy ==
  ASSUME NEW d, NearlyTidy(d), NEW e, AttemptedTo(d, e)
  PROVE  Tidy(e) /\ SolvedTo(d, e)
<1>1. Orderly(d) /\ d \in Decoders
  BY OrderlyFacts DEF NearlyTidy
<1>2. NbRepairs(d) \in Nat /\ NbMissing(d) \in Nat /\ NbMissing(d) >= 2 /\ NbRepairs(d) <= NbMissing(d)
  BY <1>1, NumbersOfMembers DEF NearlyTidy
<1>3. CASE e = d /\ NbRepairs(d) < NbMissing(d)
  <2>1. ASSUME NEW q \in DOMAIN d.m_repairs
        PROVE  Cardinality(Within(d, q)) < Cardinality(d.m_repairs[q])
    <3>1. CASE d.m_repairs[q] = DOMAIN d.m_missing_sources
      <4>1. Cardinality(Within(d, q)) \in Nat /\ Cardinality(Within(d, q)) <= NbRepairs(d)
        BY <1>1, WithinIs
      <4>2. QED
        BY <1>2, <1>3, <3>1, <4>1 DEF NbMissing
    <3>2. QED
      BY <3>1 DEF NearlyTidy
  <2>2. QED
    BY <1>1, <1>3, <2>1 DEF Tidy, HasTooFewRepairs, SolvedTo
<1>4. CASE DecodedTo(d, e)
  BY <1>1, <1>4, DecodedTidy DEF SolvedTo
<1>5. ASSUME NbMissing(d) = NbRepairs(d), NEW faulty, GivenUpTo(d, faulty, e)
      PROVE  Tidy(e) /\ SolvedTo(d, e)
  BY <1>5, GivenUpTidy DEF SolvedTo, GivenUpTo
<1>6. QED
  <2>1. ~(NbRepairs(d) # 0 /\ (NbMissing(d) < NbRepairs(d) \/ NbMissing(d) = 1))
    BY <1>2
  <2>2. NbRepairs(d) = 0 \/ NbMissing(d) = 0 \/ NbMissing(d) > NbRepairs(d) => NbRepairs(d) < NbMissing(d)
    BY <1>2
  <2>3. QED
    BY <1>3, <1>4, <1>5, <2>1, <2>2 DEF AttemptedTo

-----------------------------------------------------------------------------
(***************************************************************************)
(* How far a call has taken the object b: what is settled stays settled,   *)
(* no more than M is missing, no more than N is known, and what is handed  *)
(* over had not been.  In order, what is neither handed over nor was       *)
(* settled is passed over because it is outdated.                          *)
(***************************************************************************)
GivesInOrder(b, e) ==
  /\ b.m_first_missing <= e.m_first_missing
  /\ \A n \in e.out : b.m_first_missing <= n /\ n < e.m_first_missing
  /\ \A t \in SourceId : b.m_first_missing <= t /\ t < e.m_first_missing =>
       t \in e.out \/ (t < e.m_last_id /\ ~Settled(b, t))

GivesNew(b, e) ==
  IF b.m_in_order THEN GivesInOrder(b, e) ELSE \A n \in e.out : ~Settled(b, n) /\ Settled(e, n)

Advances(b, M, N, e) ==
  /\ e.m_in_order = b.m_in_order
  /\ b.m_last_id <= e.m_last_id
  /\ \A i \in SourceId : Settled(b, i) => Settled(e, i)
  /\ DOMAIN e.m_missing_sources \subseteq M
  /\ e.m_sources \cup e.out \subseteq N
  /\ GivesNew(b, e)

(* Nothing has happened yet.                                               *)
LEMMA AdvancesAtFirst ==
  ASSUME NEW b, Orderly(b), b.out = {}, NEW M, NEW N,
         DOMAIN b.m_missing_sources \subseteq M, b.m_sources \subseteq N
  PROVE  Advances(b, M, N, b)
<1>1. b.m_last_id \in Nat /\ b.m_first_missing \in Nat /\ SourceId \subseteq Nat
  BY OrderlyFacts
<1>2. GivesInOrder(b, b)
  <2>1. \A t \in SourceId : ~(b.m_first_missing <= t /\ t < b.m_first_missing)
    BY <1>1
  <2>2. b.m_first_missing <= b.m_first_missing
    BY <1>1
  <2>3. QED
    BY <2>1, <2>2 DEF GivesInOrder
<1>3. GivesNew(b, b)
  BY <1>2 DEF GivesNew
<1>4. QED
  BY <1>1, <1>3 DEF Advances

(* Links, repairs and counts tell nothing.                                 *)
LEMMA StillAdvances ==
  ASSUME NEW b, NEW M, NEW N, NEW d, Advances(b, M, N, d), NEW e,
         e.m_in_order = d.m_in_order, e.m_last_id = d.m_last_id,
         e.m_sources = d.m_sources, e.m_first_missing = d.m_first_missing,
         e.out = d.out, DOMAIN e.m_missing_sources \subseteq M
  PROVE  Advances(b, M, N, e)
<1>1. \A i : Settled(e, i) <=> Settled(d, i)
  BY DEF Settled
<1>2. GivesInOrder(b, d) => GivesInOrder(b, e)
  BY DEF GivesInOrder
<1>3. GivesNew(b, e)
  BY <1>1, <1>2 DEF GivesNew, Advances
<1>4. QED
  BY <1>1, <1>3 DEF Advances

LEMMA GrownAdvances ==
  ASSUME NEW b, Orderly(b), NEW M, NEW N, NEW d, Orderly(d), Advances(b, M, N, d),
         NEW X, X \subseteq N, NEW e, GrownTo(d, X, e)
  PROVE  Advances(b, M, N, e)
<1>1. /\ b.m_first_missing \in Nat
      /\ d \in Decoders /\ d.m_first_missing \in Nat /\ d.m_last_id \in Nat
      /\ SourceId \subseteq Nat
      /\ d.m_ordered_sources \subseteq d.m_sources
      /\ d.m_sources \in SUBSET SourceId
  BY OrderlyFacts
<1>2. d.out \in SUBSET SourceId
  BY <1>1 DEF Decoders
<1>3. /\ e.m_in_order = d.m_in_order
      /\ e.m_last_id = d.m_last_id
      /\ e.m_sources = d.m_sources \cup X
      /\ X \in SUBSET SourceId
      /\ \A x \in X : ~Settled(d, x)
      /\ DOMAIN e.m_missing_sources \subseteq DOMAIN d.m_missing_sources
  BY DEF GrownTo
<1>4. /\ d.m_in_order = b.m_in_order
      /\ b.m_last_id <= d.m_last_id
      /\ \A i \in SourceId : Settled(b, i) => Settled(d, i)
      /\ DOMAIN d.m_missing_sources \subseteq M
      /\ d.m_sources \cup d.out \subseteq N
  BY DEF Advances
<1>5. \A i : Settled(d, i) => Settled(e, i)
  BY <1>3 DEF Settled
<1>6. CASE ~d.m_in_order
  <2>1. e.out = d.out \cup X
    BY <1>6 DEF GrownTo
  <2>2. \A n \in d.out : ~Settled(b, n) /\ Settled(d, n)
    BY <1>4, <1>6 DEF Advances, GivesNew
  <2>3. \A x \in X : ~Settled(b, x) /\ Settled(e, x)
    BY <1>3, <1>4 DEF Settled
  <2>4. GivesNew(b, e)
    BY <1>4, <1>5, <1>6, <2>1, <2>2, <2>3 DEF GivesNew
  <2>5. QED
    BY <1>3, <1>4, <1>5, <2>1, <2>4 DEF Advances
<1>7. CASE d.m_in_order
  <2>1. /\ e.m_first_missing \in d.m_first_missing .. (MaxSource + 1)
        /\ Passed(d, e) \subseteq d.m_ordered_sources \cup X
        /\ e.out = d.out \cup Passed(d, e)
    BY <1>7 DEF GrownTo, GrownInOrder
  <2>2. e.m_first_missing \in Nat /\ d.m_first_missing <= e.m_first_missing
    BY <1>1, <2>1, PacketsAssumption
  <2>3. \A n \in Nat : n \in Passed(d, e) <=> d.m_first_missing <= n /\ n < e.m_first_missing
    BY <1>1, <2>2 DEF Passed
  <2>4. Passed(d, e) \subseteq SourceId
    BY <1>1, <1>3, <2>1
  <2>5. /\ b.m_first_missing <= d.m_first_missing
        /\ \A n \in d.out : b.m_first_missing <= n /\ n < d.m_first_missing
        /\ \A t \in SourceId : b.m_first_missing <= t /\ t < d.m_first_missing =>
             t \in d.out \/ (t < d.m_last_id /\ ~Settled(b, t))
    BY <1>4, <1>7 DEF Advances, GivesNew, GivesInOrder
  <2>6. \A n \in e.out : b.m_first_missing <= n /\ n < e.m_first_missing
    <3>1. TAKE n \in e.out
    <3>2. n \in Nat
      BY <1>1, <1>2, <2>1, <2>4
    <3>3. CASE n \in d.out
      BY <1>1, <2>2, <2>5, <3>2, <3>3
    <3>4. CASE n \in Passed(d, e)
      BY <1>1, <2>2, <2>3, <2>5, <3>2, <3>4
    <3>5. QED
      BY <2>1, <3>3, <3>4
  <2>7. ASSUME NEW t \in SourceId, b.m_first_missing <= t, t < e.m_first_missing
        PROVE  t \in e.out \/ (t < e.m_last_id /\ ~Settled(b, t))
    <3>1. t \in Nat
      BY <1>1
    <3>2. CASE t < d.m_first_missing
      BY <1>3, <2>1, <2>5, <2>7, <3>2
    <3>3. CASE d.m_first_missing <= t
      BY <2>1, <2>3, <2>7, <3>1, <3>3
    <3>4. QED
      BY <1>1, <3>1, <3>2, <3>3
  <2>8. b.m_first_missing <= e.m_first_missing
    BY <1>1, <2>2, <2>5
  <2>9. GivesNew(b, e)
    BY <1>4, <1>7, <2>6, <2>7, <2>8 DEF GivesNew, GivesInOrder
  <2>10. e.m_sources \cup e.out \subseteq N
    BY <1>1, <1>3, <1>4, <2>1
  <2>11. QED
    BY <1>3, <1>4, <1>5, <2>9, <2>10 DEF Advances
<1>8. QED
  BY <1>6, <1>7

LEMMA DroppedAdvances ==
  ASSUME NEW b, Orderly(b), NEW M, NEW N, NEW d, Orderly(d), Advances(b, M, N, d),
         NEW id \in SourceId, id >= d.m_last_id, NEW e, DroppedTo(d, id, e)
  PROVE  Advances(b, M, N, e)
<1> DEFINE first == DropFirst(d, id)
           gap   == DropGap(d, id)
           given == DropGiven(d, id)
<1>1. /\ b.m_first_missing \in Nat /\ b.m_last_id \in Nat
      /\ d \in Decoders /\ d.m_first_missing \in Nat /\ d.m_last_id \in Nat
      /\ SourceId \subseteq Nat
      /\ d.m_ordered_sources \subseteq d.m_sources
      /\ d.m_sources \in SUBSET SourceId
  BY OrderlyFacts
<1>2. d.out \in SUBSET SourceId
  BY <1>1 DEF Decoders
<1>3. /\ e.m_in_order = d.m_in_order
      /\ e.m_last_id = id
      /\ e.m_sources = {s \in d.m_sources : s >= id}
      /\ e.m_first_missing = gap
      /\ e.out = d.out \cup given
      /\ DOMAIN e.m_missing_sources \subseteq DOMAIN d.m_missing_sources
  BY DEF DroppedTo
<1>4. /\ d.m_in_order = b.m_in_order
      /\ b.m_last_id <= d.m_last_id
      /\ \A i \in SourceId : Settled(b, i) => Settled(d, i)
      /\ DOMAIN d.m_missing_sources \subseteq M
      /\ d.m_sources \cup d.out \subseteq N
  BY DEF Advances
<1>5. /\ first \in 0 .. (MaxSource + 1)
      /\ gap \in first .. (MaxSource + 1)
      /\ given \subseteq d.m_ordered_sources
  BY <1>1, DropGivenIs
<1>6. /\ first \in Nat /\ gap \in Nat /\ id \in Nat /\ first <= gap
  BY <1>1, <1>5, PacketsAssumption
<1>7. given = LateOrdered(d, id) \cup (first .. (gap - 1))
  BY DEF DropGiven
<1>8. first = IF d.m_in_order /\ d.m_first_missing < id THEN id ELSE d.m_first_missing
  BY DEF DropFirst
<1> HIDE DEF first, gap, given
<1>9. \A i \in SourceId : Settled(d, i) => Settled(e, i)
  <2>1. TAKE i \in SourceId
  <2>2. i \in Nat
    BY <1>1
  <2>3. QED
    BY <1>1, <1>3, <1>6, <2>2 DEF Settled
<1>10. b.m_last_id <= id
  BY <1>1, <1>4, <1>6
<1>11. e.m_sources \cup e.out \subseteq N
  BY <1>1, <1>3, <1>4, <1>5
<1>12. CASE ~d.m_in_order
  <2>1. given = {}
    BY <1>5, <1>12 DEF Orderly, HasPlace
  <2>2. \A n \in d.out : ~Settled(b, n) /\ Settled(d, n)
    BY <1>4, <1>12 DEF Advances, GivesNew
  <2>3. GivesNew(b, e)
    BY <1>2, <1>3, <1>4, <1>9, <1>12, <2>1, <2>2 DEF GivesNew
  <2>4. QED
    BY <1>3, <1>4, <1>9, <1>10, <1>11, <2>3 DEF Advances
<1>13. CASE d.m_in_order
  <2>1. \A k \in d.m_ordered_sources : k > d.m_first_missing
    BY <1>13 DEF Orderly, HasPlace, HasPlaceInOrder
  <2>2. first >= id /\ first >= d.m_first_missing
    BY <1>1, <1>6, <1>8, <1>13
  <2>3. \A n \in Nat : first <= n /\ n < gap => n \in given
    BY <1>6, <1>7
  <2>4. /\ b.m_first_missing <= d.m_first_missing
        /\ \A n \in d.out : b.m_first_missing <= n /\ n < d.m_first_missing
        /\ \A t \in SourceId : b.m_first_missing <= t /\ t < d.m_first_missing =>
             t \in d.out \/ (t < d.m_last_id /\ ~Settled(b, t))
    BY <1>4, <1>13 DEF Advances, GivesNew, GivesInOrder
  <2>5. \A n \in e.out : b.m_first_missing <= n /\ n < gap
    <3>1. TAKE n \in e.out
    <3>2. n \in Nat
      BY <1>1, <1>2, <1>3, <1>5
    <3>3. CASE n \in d.out
      BY <1>1, <1>6, <2>2, <2>4, <3>2, <3>3
    <3>4. CASE n \in given
      <4>1. n > d.m_first_missing
        BY <1>5, <2>1, <3>4
      <4>2. n < id \/ n < gap
        BY <1>6, <1>7, <3>2, <3>4 DEF LateOrdered
      <4>3. QED
        BY <1>1, <1>6, <2>2, <2>4, <3>2, <4>1, <4>2
    <3>5. QED
      BY <1>3, <3>3, <3>4
  <2>6. ASSUME NEW t \in SourceId, b.m_first_missing <= t, t < gap
        PROVE  t \in e.out \/ (t < id /\ ~Settled(b, t))
    <3>1. t \in Nat
      BY <1>1
    <3>2. CASE t < d.m_first_missing
      <4>1. t \in d.out \/ (t < d.m_last_id /\ ~Settled(b, t))
        BY <2>4, <2>6, <3>2
      <4>2. t < d.m_last_id => t < id
        BY <1>1, <1>6, <3>1
      <4>3. QED
        BY <1>3, <4>1, <4>2
    <3>3. CASE first <= t
      BY <1>3, <2>3, <2>6, <3>1, <3>3
    <3>4. CASE d.m_first_missing <= t /\ t < first
      <4>1. t < id
        BY <1>1, <1>6, <1>8, <3>1, <3>4
      <4>2. CASE t \in d.m_ordered_sources
        BY <1>3, <1>7, <4>1, <4>2 DEF LateOrdered
      <4>3. CASE t \notin d.m_ordered_sources
        <5>1. t \notin d.m_sources /\ d.m_last_id <= d.m_first_missing
          BY <1>1, <1>13, <3>1, <3>4, <4>3 DEF Orderly, HasPlace, HasPlaceInOrder
        <5>2. ~Settled(d, t)
          BY <1>1, <3>1, <3>4, <5>1 DEF Settled
        <5>3. QED
          BY <1>4, <4>1, <5>2
      <4>4. QED
        BY <4>2, <4>3
    <3>5. QED
      BY <1>1, <1>6, <3>1, <3>2, <3>3, <3>4
  <2>7. b.m_first_missing <= gap
    BY <1>1, <1>6, <2>2, <2>4
  <2>8. GivesNew(b, e)
    BY <1>3, <1>4, <1>13, <2>5, <2>6, <2>7 DEF GivesNew, GivesInOrder
  <2>9. QED
    BY <1>3, <1>4, <1>9, <1>10, <1>11, <2>8 DEF Advances
<1>14. QED
  BY <1>12, <1>13

-----------------------------------------------------------------------------
(***************************************************************************)
(* A whole call of a tidy decoder.                                         *)
(***************************************************************************)
LEMMA SourceTidy ==
  ASSUME NEW b, Orderly(b), NEW M, NEW N, NEW d, Tidy(d), Advances(b, M, N, d),
         NEW s \in SourceId, s \notin DOMAIN d.m_missing_sources, s \in N,
         NEW e, SourceTo(d, s, e)
  PROVE  Tidy(e) /\ Advances(b, M, N, e)
<1>1. CASE e = d
  BY <1>1
<1>2. ASSUME ~KnownSource(d, s), NEW a, AddedTo(d, s, a), ThenAttempted(a, e)
      PROVE  Tidy(e) /\ Advances(b, M, N, e)
  <2>1. Tidy(a) /\ GrownTo(d, {s}, a)
    BY <1>2, AddedTidy
  <2>2. a.fault = "none"
    BY <2>1 DEF Tidy, Orderly
  <2>3. e = a
    BY <1>2, <2>1, <2>2, AttemptedStays DEF ThenAttempted
  <2>4. Orderly(d) /\ {s} \subseteq N
    BY DEF Tidy
  <2>5. Advances(b, M, N, a)
    BY <2>1, <2>4, GrownAdvances
  <2>6. QED
    BY <2>1, <2>3, <2>5
<1>3. QED
  BY <1>1, <1>2 DEF SourceTo

LEMMA UsedTidy ==
  ASSUME NEW b, Orderly(b), NEW M, NEW N, NEW d, Tidy(d), Advances(b, M, N, d),
         NEW r, r \notin DOMAIN d.m_repairs,
         NEW left \in SUBSET SourceId, left # {}, \A i \in left : ~Settled(d, i),
         DOMAIN d.m_missing_sources \subseteq left, left \subseteq M, left \subseteq N,
         NEW e, UsedTo(d, r, left, e)
  PROVE  Tidy(e) /\ Advances(b, M, N, e)
<1>1. Orderly(d)
  BY DEF Tidy
<1>2. ASSUME NEW s \in left, left = {s}, NEW u, UnmissedTo(d, s, u), AddedTo(u, s, e)
      PROVE  Tidy(e) /\ Advances(b, M, N, e)
  <2>1. s \in SourceId /\ DOMAIN d.m_missing_sources \subseteq {s} /\ {s} \subseteq N
    BY <1>2
  <2>2. Tidy(u) /\ DOMAIN u.m_missing_sources = {}
    BY <1>2, <2>1, UnmissedTidy
  <2>3. Advances(b, M, N, u)
    BY <1>2, <2>2, StillAdvances DEF UnmissedTo, OnlyRelinked
  <2>4. ~KnownSource(u, s)
    BY <1>2 DEF UnmissedTo, OnlyRelinked, KnownSource, Settled
  <2>5. Tidy(e) /\ GrownTo(u, {s}, e)
    BY <1>2, <2>1, <2>2, <2>4, AddedTidy
  <2>6. Orderly(u)
    BY <2>2 DEF Tidy
  <2>7. QED
    BY <2>1, <2>3, <2>5, <2>6, GrownAdvances
<1>3. ASSUME \A s \in left : left # {s}, NEW k, LinkedTo(d, r, left, k), AttemptedTo(k, e)
      PROVE  Tidy(e) /\ Advances(b, M, N, e)
  <2>1. NearlyTidy(k)
    BY <1>3, LinkedNearlyTidy
  <2>2. Orderly(k)
    BY <2>1 DEF NearlyTidy
  <2>3. DOMAIN k.m_missing_sources = left
    BY <1>3, LinkedOrderly
  <2>4. Advances(b, M, N, k)
    BY <1>3, <2>3, StillAdvances DEF LinkedTo, OnlyRelinked
  <2>5. Tidy(e) /\ SolvedTo(k, e)
    BY <1>3, <2>1, AttemptedTidy
  <2>6. CASE GrownTo(k, DOMAIN k.m_missing_sources, e)
    BY <2>2, <2>3, <2>4, <2>5, <2>6, GrownAdvances
  <2>7. CASE OnlyRelinked(k, e) /\ DOMAIN e.m_missing_sources = DOMAIN k.m_missing_sources
    BY <2>3, <2>4, <2>5, <2>7, StillAdvances DEF OnlyRelinked
  <2>8. QED
    BY <2>4, <2>5, <2>6, <2>7 DEF SolvedTo
<1>4. QED
  BY <1>2, <1>3 DEF UsedTo

(* Whatever of X the decoder d still lacks, Y encodes, or starts after.    *)
Follows(d, X, Y) == \A i \in X : i \in Y \/ (\A y \in Y : i < y) \/ Settled(d, i)

LEMMA RepairTidy ==
  ASSUME NEW b, Orderly(b), NEW M, NEW N, NEW d, Tidy(d), Advances(b, M, N, d),
         NEW r, NEW ids \in SUBSET SourceId, ids # {},
         \A i \in ids : d.m_last_id <= i,
         Follows(d, DOMAIN d.m_missing_sources, ids),
         ids \subseteq M, ids \subseteq N,
         NEW e, RepairTo(d, r, ids, e)
  PROVE  Tidy(e) /\ Advances(b, M, N, e)
<1>1. CASE e = d
  BY <1>1
<1>2. ASSUME r \notin DOMAIN d.m_repairs,
             NEW c, DroppedTo(d, Min(ids), c),
             \/ e = c
             \/ LeftToDecode(c, ids) # {} /\ UsedTo(c, r, LeftToDecode(c, ids), e)
      PROVE  Tidy(e) /\ Advances(b, M, N, e)
  <2> DEFINE left == LeftToDecode(c, ids)
  <2>1. Orderly(d)
    BY DEF Tidy
  <2>2. /\ d.m_last_id \in Nat /\ SourceId \subseteq Nat
        /\ DOMAIN d.m_missing_sources \in SUBSET SourceId
        /\ DOMAIN d.m_missing_sources \cap d.m_sources = {}
        /\ \A s \in DOMAIN d.m_missing_sources : s >= d.m_last_id
    BY <2>1, OrderlyFacts DEF Orderly
  <2>3. /\ Min(ids) \in SourceId /\ Min(ids) \in ids
        /\ \A i \in ids : Min(ids) <= i
        /\ left \in SUBSET SourceId
        /\ \A i \in left : i >= c.m_last_id
    BY <1>2, LeftIs
  <2>4. Min(ids) >= d.m_last_id
    BY <2>2, <2>3
  <2>5. Tidy(c) /\ Advances(b, M, N, c)
    BY <1>2, <2>1, <2>3, <2>4, DroppedTidy, DroppedAdvances
  <2>6. /\ DOMAIN c.m_missing_sources = {k \in DOMAIN d.m_missing_sources : k >= Min(ids)}
        /\ c.m_sources = {s \in d.m_sources : s >= Min(ids)}
        /\ c.m_last_id = Min(ids)
        /\ DOMAIN c.m_repairs \subseteq DOMAIN d.m_repairs
    BY <1>2 DEF DroppedTo
  <2>7. \A i \in left : ~Settled(c, i)
    <3>1. TAKE i \in left
    <3>2. i \notin c.m_sources /\ i \in Nat /\ i >= c.m_last_id /\ c.m_last_id \in Nat
      BY <2>2, <2>3, <2>6 DEF LeftToDecode
    <3>3. QED
      BY <3>2 DEF Settled
  <2>8. DOMAIN c.m_missing_sources \subseteq left
    <3>1. SUFFICES ASSUME NEW m \in DOMAIN c.m_missing_sources
                   PROVE  m \in left
      OBVIOUS
    <3>2. /\ m \in DOMAIN d.m_missing_sources /\ m \in Nat /\ m >= Min(ids) /\ Min(ids) \in Nat
          /\ m \notin d.m_sources /\ m >= d.m_last_id
      BY <2>2, <2>3, <2>6
    <3>3. ~Settled(d, m)
      BY <2>2, <3>2 DEF Settled
    <3>4. ~(\A y \in ids : m < y)
      BY <2>3, <3>2
    <3>5. m \in ids
      BY <3>2, <3>3, <3>4 DEF Follows
    <3>6. QED
      BY <2>6, <3>2, <3>5 DEF LeftToDecode
  <2>9. left \subseteq ids
    BY DEF LeftToDecode
  <2>10. CASE e = c
    BY <2>5, <2>10
  <2>11. CASE left # {} /\ UsedTo(c, r, left, e)
    <3>1. r \notin DOMAIN c.m_repairs /\ left \subseteq M /\ left \subseteq N
      BY <1>2, <2>6, <2>9
    <3> HIDE DEF left
    <3>2. QED
      BY <2>3, <2>5, <2>7, <2>8, <2>11, <3>1, UsedTidy
  <2>12. QED
    BY <1>2, <2>10, <2>11
<1>3. QED
  BY <1>1, <1>2 DEF RepairTo

(* What surrounds a call changes nothing of this.                          *)
LEMMA SameTidy ==
  ASSUME NEW d, Tidy(d), NEW e, SameMembers(d, e), SameFault(d, e)
  PROVE  Tidy(e)
<1>1. Sound(e)
  BY SameMembersSound DEF Tidy, Orderly, SameFault
<1>2. /\ e.m_in_order = d.m_in_order
      /\ e.m_last_id = d.m_last_id
      /\ e.m_sources = d.m_sources
      /\ e.m_repairs = d.m_repairs
      /\ e.m_missing_sources = d.m_missing_sources
      /\ e.m_ordered_sources = d.m_ordered_sources
      /\ e.m_first_missing = d.m_first_missing
      /\ e.fault = d.fault
  BY DEF SameMembers, SameFault
<1>3. HasPlace(e)
  <2>1. HasPlace(d)
    BY DEF Tidy, Orderly
  <2>2. QED
    BY <1>2, <2>1 DEF HasPlace, HasPlaceInOrder, Settled
<1>4. HasNoStaleRepair(e) /\ HasNestedRepairs(e) /\ HasTooFewRepairs(e)
  BY <1>2 DEF Tidy, Orderly, HasNoStaleRepair, HasNestedRepairs, HasTooFewRepairs, Within
<1>5. QED
  BY <1>1, <1>2, <1>3, <1>4 DEF Tidy, Orderly

LEMMA SameAdvances ==
  ASSUME NEW b, NEW M, NEW N, NEW d, Advances(b, M, N, d),
         NEW e, SameMembers(d, e), e.out = d.out
  PROVE  Advances(b, M, N, e)
BY StillAdvances DEF SameMembers, Advances

LEMMA ReceivedTidy ==
  ASSUME NEW d, Tidy(d), d.out = {}, NEW M, NEW N,
         DOMAIN d.m_missing_sources \subseteq M, d.m_sources \subseteq N,
         NEW p,
         \A s \in SourceId : p = SourcePacket(s) => s \notin DOMAIN d.m_missing_sources /\ s \in N,
         \A r \in RepairId, ids \in (SUBSET SourceId) \ {{}} : p = RepairPacket(r, ids) =>
           /\ \A i \in ids : d.m_last_id <= i
           /\ Follows(d, DOMAIN d.m_missing_sources, ids)
           /\ ids \subseteq M /\ ids \subseteq N,
         NEW e, ReceivedTo(d, p, e)
  PROVE  Tidy(e) /\ Advances(d, M, N, e)
<1>1. PICK c, m : CountedTo(d, c) /\ UsedPacket(c, p, m) /\ AckedTo(m, e)
  BY DEF ReceivedTo
<1>2. SameMembers(d, c) /\ SameFault(d, c) /\ c.out = d.out
  BY <1>1 DEF CountedTo, Gives
<1>3. Orderly(d)
  BY DEF Tidy
<1>4. Tidy(c) /\ Advances(d, M, N, c)
  <2>1. Advances(d, M, N, d)
    BY <1>3, AdvancesAtFirst
  <2>2. QED
    BY <1>2, <2>1, SameTidy, SameAdvances
<1>5. /\ DOMAIN c.m_missing_sources = DOMAIN d.m_missing_sources
      /\ c.m_sources = d.m_sources /\ c.m_last_id = d.m_last_id
  BY <1>2 DEF SameMembers
<1>6. ASSUME NEW s \in SourceId, p = SourcePacket(s), SourceTo(c, s, m)
      PROVE  Tidy(m) /\ Advances(d, M, N, m)
  BY <1>3, <1>4, <1>5, <1>6, SourceTidy
<1>7. ASSUME NEW r \in RepairId, NEW ids \in (SUBSET SourceId) \ {{}},
             p = RepairPacket(r, ids), RepairTo(c, r, ids, m)
      PROVE  Tidy(m) /\ Advances(d, M, N, m)
  <2>1. /\ \A i \in ids : d.m_last_id <= i
        /\ Follows(d, DOMAIN d.m_missing_sources, ids)
        /\ ids \subseteq M /\ ids \subseteq N
    BY <1>7
  <2>2. Follows(c, DOMAIN c.m_missing_sources, ids)
    BY <1>5, <2>1 DEF Follows, Settled
  <2>3. QED
    BY <1>3, <1>4, <1>5, <1>7, <2>1, <2>2, RepairTidy
<1>8. Tidy(m) /\ Advances(d, M, N, m)
  BY <1>1, <1>6, <1>7 DEF UsedPacket
<1>9. QED
  BY <1>1, <1>8, SameTidy, SameAdvances DEF AckedTo

-----------------------------------------------------------------------------
(***************************************************************************)
(* What follows what, while the window and the decoder move on.            *)
(***************************************************************************)

(* What followed the window still does when its oldest sources have left   *)
(* it and n, which is new, has entered it.                                 *)
LEMMA StillFollows ==
  ASSUME NEW d, NEW X \in SUBSET Nat, NEW W, NEW V, NEW n,
         V \subseteq W \cup {n}, \A s \in W \ V : \A k \in V : s < k,
         \A i \in X : i < n,
         Follows(d, X, W)
  PROVE  Follows(d, X, V)
<1> SUFFICES ASSUME NEW i \in X
             PROVE  i \in V \/ (\A y \in V : i < y) \/ Settled(d, i)
  BY DEF Follows
<1>1. CASE i \in W
  BY <1>1
<1>2. CASE \A y \in W : i < y
  BY <1>2
<1>3. QED
  BY <1>1, <1>2 DEF Follows

(* What followed the window still does when an ack has taken from it what  *)
(* is settled.                                                             *)
LEMMA AckedFollows ==
  ASSUME NEW d, NEW X, NEW W, NEW ids, Follows(d, X, W), \A i \in ids : Settled(d, i)
  PROVE  Follows(d, X, W \ ids)
BY DEF Follows

(* What is settled stays so: what followed still does.                     *)
LEMMA FollowsMore ==
  ASSUME NEW d, NEW e, NEW X \in SUBSET SourceId, NEW Y, Follows(d, X, Y),
         \A i \in SourceId : Settled(d, i) => Settled(e, i)
  PROVE  Follows(e, X, Y)
BY DEF Follows

-----------------------------------------------------------------------------
(***************************************************************************)
(* The ack of a call names nothing that the packet it answers has told the *)
(* decoder of: an ack is written before what is handed over is stored, and *)
(* only the inversion of a matrix hands over several sources in one call,  *)
(* which the repair that brings a new one never allows.                    *)
(***************************************************************************)

(* So far the call has ended with no ack, and may with nothing but X.      *)
Unanswered(X, d) == d.ack = {} /\ MayAck(d, X)

LEMMA StillUnanswered ==
  ASSUME NEW X, NEW d, Unanswered(X, d), NEW e, e.ack = d.ack,
         NEW S, S \subseteq X, NamesMore(d, e, S)
  PROVE  Unanswered(X, e)
BY DEF Unanswered, NamesMore

(* A source that is not missing.                                           *)
LEMMA SourceUnanswered ==
  ASSUME NEW d, Tidy(d), Unanswered(d.m_sources, d),
         NEW s \in SourceId, s \notin DOMAIN d.m_missing_sources,
         NEW e, SourceTo(d, s, e)
  PROVE  Unanswered(d.m_sources, e)
<1>1. CASE e = d
  BY <1>1
<1>2. ASSUME ~KnownSource(d, s), NEW a, AddedTo(d, s, a), ThenAttempted(a, e)
      PROVE  Unanswered(d.m_sources, e)
  <2>1. Tidy(a)
    BY <1>2, AddedTidy
  <2>2. a.fault = "none"
    BY <2>1 DEF Tidy, Orderly
  <2>3. e = a
    BY <1>2, <2>1, <2>2, AttemptedStays DEF ThenAttempted
  <2>4. a.ack = d.ack /\ NamesMore(d, a, d.m_sources)
    BY <1>2 DEF AddedTo
  <2>5. QED
    BY <2>3, <2>4, StillUnanswered
<1>3. QED
  BY <1>1, <1>2 DEF SourceTo

(* A repair that is left with a source of which nothing was known, and     *)
(* with another, brings more missing sources than it is repairs.           *)
LEMMA LinkedStays ==
  ASSUME NEW d, Tidy(d), NEW r, NEW left \in SUBSET SourceId, \A t \in left : left # {t},
         NEW s \in left, s \notin DOMAIN d.m_missing_sources,
         NEW k, LinkedTo(d, r, left, k), NEW e, AttemptedTo(k, e)
  PROVE  e = k
<1>1. d \in Decoders /\ k \in Decoders
  BY DEF Tidy, Orderly, Sound, LinkedTo, OnlyRelinked
<1>2. /\ IsFiniteSet(DOMAIN d.m_repairs) /\ NbRepairs(d) \in Nat
      /\ IsFiniteSet(DOMAIN d.m_missing_sources) /\ NbMissing(d) \in Nat
      /\ IsFiniteSet(DOMAIN k.m_repairs) /\ NbRepairs(k) \in Nat
      /\ IsFiniteSet(DOMAIN k.m_missing_sources) /\ NbMissing(k) \in Nat
  BY <1>1, NumbersOfMembers
<1>3. /\ DOMAIN k.m_repairs = DOMAIN d.m_repairs \cup {r}
      /\ DOMAIN k.m_missing_sources = DOMAIN d.m_missing_sources \cup left
  BY DEF LinkedTo
<1>4. NbRepairs(k) <= NbRepairs(d) + 1
  <2>1. Cardinality(DOMAIN d.m_repairs \cup {r})
          = IF r \in DOMAIN d.m_repairs THEN NbRepairs(d) ELSE NbRepairs(d) + 1
    BY <1>2, FS_AddElement DEF NbRepairs
  <2>2. NbRepairs(k) = IF r \in DOMAIN d.m_repairs THEN NbRepairs(d) ELSE NbRepairs(d) + 1
    BY <1>3, <2>1 DEF NbRepairs
  <2>3. QED
    BY <1>2, <2>2
<1>5. NbMissing(k) >= NbMissing(d) + 1
  <2> DEFINE T == DOMAIN d.m_missing_sources \cup {s}
  <2>1. IsFiniteSet(T) /\ Cardinality(T) = NbMissing(d) + 1
    BY <1>2, FS_AddElement DEF NbMissing
  <2>2. T \subseteq DOMAIN k.m_missing_sources
    BY <1>3
  <2> HIDE DEF T
  <2>3. Cardinality(T) <= NbMissing(k)
    BY <1>2, <2>2, FS_Subset DEF NbMissing
  <2>4. QED
    BY <2>1, <2>3
<1>6. NbMissing(k) >= 2
  <2>1. PICK t \in left : t # s
    OBVIOUS
  <2>2. IsFiniteSet({s}) /\ Cardinality({s}) = 1
    BY FS_Singleton
  <2>3. Cardinality({s} \cup {t}) = 2
    <3>1. Cardinality({s} \cup {t}) = IF t \in {s} THEN Cardinality({s}) ELSE Cardinality({s}) + 1
      BY <2>2, FS_AddElement
    <3>2. QED
      BY <2>1, <2>2, <3>1
  <2>4. {s} \cup {t} \subseteq DOMAIN k.m_missing_sources
    BY <1>3, <2>1
  <2>5. Cardinality({s} \cup {t}) <= NbMissing(k)
    BY <1>2, <2>4, FS_Subset DEF NbMissing
  <2>6. QED
    BY <2>3, <2>5
<1>7. NbRepairs(d) = 0 \/ NbRepairs(d) < NbMissing(d)
  BY FewerRepairs
<1>8. NbRepairs(k) < NbMissing(k)
  BY <1>2, <1>4, <1>5, <1>6, <1>7
<1>9. QED
  BY <1>2, <1>6, <1>8 DEF AttemptedTo

LEMMA RepairUnanswered ==
  ASSUME NEW d, Tidy(d), Unanswered(d.m_sources, d),
         NEW r, NEW ids \in (SUBSET SourceId) \ {{}}, \A i \in ids : d.m_last_id <= i,
         NEW s \in ids, s \notin d.m_sources \cup DOMAIN d.m_missing_sources,
         NEW e, RepairTo(d, r, ids, e)
  PROVE  Unanswered(d.m_sources, e)
<1>1. CASE e = d
  BY <1>1
<1>2. ASSUME NEW c, DroppedTo(d, Min(ids), c),
             e = c \/ UsedTo(c, r, LeftToDecode(c, ids), e)
      PROVE  Unanswered(d.m_sources, e)
  <2>1. /\ Min(ids) \in SourceId /\ Min(ids) \in ids
        /\ LeftToDecode(c, ids) \in SUBSET SourceId
    BY <1>2, LeftIs
  <2>2. Min(ids) >= d.m_last_id
    BY <2>1, PacketsAssumption, OrderlyFacts DEF Tidy, SourceId
  <2>3. Tidy(c)
    BY <1>2, <2>1, <2>2, DroppedTidy
  <2>4. /\ c.m_sources \subseteq d.m_sources
        /\ s \in LeftToDecode(c, ids)
        /\ s \notin DOMAIN c.m_missing_sources
    BY <1>2 DEF DroppedTo, LeftToDecode
  <2>5. Unanswered(d.m_sources, c)
    <3>1. c.ack = d.ack /\ NamesMore(d, c, d.m_sources)
      BY <1>2 DEF DroppedTo
    <3>2. QED
      BY <3>1, StillUnanswered
  <2>6. ASSUME NEW t, NEW u, UnmissedTo(c, t, u), AddedTo(u, t, e)
        PROVE  Unanswered(d.m_sources, e)
    <3>1. u.ack = c.ack /\ NamesMore(c, u, {}) /\ u.m_sources = c.m_sources
      BY <2>6 DEF UnmissedTo, OnlyRelinked
    <3>2. Unanswered(d.m_sources, u)
      BY <2>5, <3>1, StillUnanswered
    <3>3. e.ack = u.ack /\ NamesMore(u, e, u.m_sources)
      BY <2>6 DEF AddedTo
    <3>4. QED
      BY <2>4, <3>1, <3>2, <3>3, StillUnanswered
  <2>7. ASSUME \A t \in LeftToDecode(c, ids) : LeftToDecode(c, ids) # {t},
               NEW k, LinkedTo(c, r, LeftToDecode(c, ids), k), AttemptedTo(k, e)
        PROVE  Unanswered(d.m_sources, e)
    <3>1. e = k
      BY <2>1, <2>3, <2>4, <2>7, LinkedStays
    <3>2. k.ack = c.ack /\ NamesMore(c, k, {})
      BY <2>7 DEF LinkedTo, OnlyRelinked
    <3>3. QED
      BY <2>5, <3>1, <3>2, StillUnanswered
  <2>8. QED
    BY <1>2, <2>5, <2>6, <2>7 DEF UsedTo
<1>3. QED
  BY <1>1, <1>2 DEF RepairTo

(* The packet names s, of which the decoder knew nothing: its ack does not.*)
Names(p, s) ==
  \/ p = SourcePacket(s)
  \/ \E r \in RepairId, ids \in (SUBSET SourceId) \ {{}} : p = RepairPacket(r, ids) /\ s \in ids

LEMMA NewIsNotAcked ==
  ASSUME NEW d, Tidy(d), AtRest(d), NEW s \in SourceId,
         s \notin d.m_sources \cup DOMAIN d.m_missing_sources,
         NEW p, Names(p, s),
         \A r \in RepairId, ids \in (SUBSET SourceId) \ {{}} : p = RepairPacket(r, ids) =>
           \A i \in ids : d.m_last_id <= i,
         NEW e, ReceivedTo(d, p, e), NEW a \in e.ack
  PROVE  s \notin a.source_ids
<1>1. PICK c, m : CountedTo(d, c) /\ UsedPacket(c, p, m) /\ AckedTo(m, e)
  BY DEF ReceivedTo
<1>2. /\ SameMembers(d, c) /\ SameFault(d, c)
      /\ c.ack = d.ack /\ NamesMore(d, c, {})
  BY <1>1 DEF CountedTo, Gives
<1>3. Tidy(c)
  BY <1>2, SameTidy
<1>4. /\ c.m_sources = d.m_sources /\ c.m_last_id = d.m_last_id
      /\ DOMAIN c.m_missing_sources = DOMAIN d.m_missing_sources
  BY <1>2 DEF SameMembers
<1>5. Unanswered(c.m_sources, c)
  <2>1. Unanswered(c.m_sources, d)
    BY DEF AtRest, Unanswered, MayAck
  <2>2. QED
    BY <1>2, <2>1, StillUnanswered
<1>6. ASSUME NEW t \in SourceId, p = SourcePacket(t), SourceTo(c, t, m)
      PROVE  Unanswered(c.m_sources, m)
  <2>1. t = s
    BY <1>6 DEF Names, SourcePacket, RepairPacket
  <2>2. QED
    BY <1>3, <1>4, <1>5, <1>6, <2>1, SourceUnanswered
<1>7. ASSUME NEW r \in RepairId, NEW ids \in (SUBSET SourceId) \ {{}},
             p = RepairPacket(r, ids), RepairTo(c, r, ids, m)
      PROVE  Unanswered(c.m_sources, m)
  <2>1. s \in ids
    BY <1>7 DEF Names, SourcePacket, RepairPacket
  <2>2. \A i \in ids : c.m_last_id <= i
    BY <1>4, <1>7
  <2>3. QED
    BY <1>3, <1>4, <1>5, <1>7, <2>1, <2>2, RepairUnanswered
<1>8. Unanswered(d.m_sources, m)
  BY <1>1, <1>4, <1>6, <1>7 DEF UsedPacket
<1>9. PICK known \in SUBSET SourceId, nb \in Nat :
        a = AckPacket(known, nb) /\ known \subseteq d.m_sources
  BY <1>1, <1>8 DEF AckedTo, Unanswered
<1>10. a.source_ids = known
  BY <1>9 DEF AckPacket
<1>11. QED
  BY <1>9, <1>10
=============================================================================
