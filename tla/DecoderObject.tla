--------------------------- MODULE DecoderObject ---------------------------
(***************************************************************************)
(* The decoder of the library: ntc::decoder (netcode/decoder.hh), which    *)
(* dispatches packets, hands data to the user and produces acks, around    *)
(* ntc::detail::decoder (netcode/detail/decoder.cc), which stores sources  *)
(* and repairs and rebuilds what is missing.                               *)
(*                                                                         *)
(* A decoder object is a record; every method is an operator from a record *)
(* to a record, so that Tunnel composes it with an encoder by calling the  *)
(* same operators.  A source's bytes are abstracted to its identifier and  *)
(* a repair's symbol to the set of sources still mixed into it, which the  *)
(* code keeps equal to the repair's list of identifiers.                   *)
(*                                                                         *)
(* `fault' names the first assertion the code fails, undefined behaviour   *)
(* it runs into, or wrong data it hands to the user.  What a build does    *)
(* afterwards is not modelled: the object takes no further step.           *)
(***************************************************************************)
EXTENDS Packets, FiniteSets, FiniteSetsExt, Functions

CONSTANT
  AckWidth   \* bits of nb_packets of an ack (16 in the code; 0: not counted)

(* The power is positive, which proofs cannot find by themselves.          *)
ASSUME DecoderAssumption == AckWidth \in Nat /\ 2 ^ AckWidth > 0

-----------------------------------------------------------------------------
(***************************************************************************)
(* The object.  m_last_id starts at boost::none, which no comparison tells *)
(* from 0; m_ack_frequency is whether it differs from 0.  `out', `first',  *)
(* `seen' and `ack' are what the running call has produced so far: the     *)
(* sources given to the callback, the keys of m_sources when it was first  *)
(* called and each time it was called, and the acks written.               *)
(***************************************************************************)
EmptyMap == [x \in {} |-> {}]

NewDecoder(order) ==
  [ m_in_order        |-> order,
    m_last_id         |-> 0,
    m_sources         |-> {},
    m_repairs         |-> EmptyMap,
    m_missing_sources |-> EmptyMap,
    m_ordered_sources |-> {},
    m_first_missing   |-> 0,
    m_ack_frequency   |-> TRUE,
    m_ack_nb_packets  |-> 50,
    nb_packets        |-> 0,
    out               |-> {},
    first             |-> {},
    seen              |-> {},
    ack               |-> {},
    fault             |-> "none" ]

Partial(S, T) == UNION {[D -> T] : D \in SUBSET S}

(* What the running program can have come to.                              *)
Faults ==
  { "none",
    "end_dereference",            \* erase(end()) or a read through it, decoder.cc:360
    "last_source_of_repair",      \* assertion decoder.cc:397
    "ready_already_known",        \* assertion decoder.cc:298
    "dangling_iterator",          \* a read through an erased element, decoder.cc:311
    "garbage_decoded",            \* a source rebuilt from a repair that mixes others in
    "source_already_added",       \* assertion decoder.cc:539
    "more_repairs_than_missing",  \* assertion decoder.cc:426
    "matrix_for_one_source" }     \* assertion decoder.cc:427

(* The objects whose members hold identifiers in range.                    *)
Decoders ==
  [ m_in_order        : BOOLEAN,
    m_last_id         : SourceId,
    m_sources         : SUBSET SourceId,
    m_repairs         : Partial(RepairId, SUBSET SourceId),
    m_missing_sources : Partial(SourceId, SUBSET RepairId),
    m_ordered_sources : SUBSET SourceId,
    m_first_missing   : 0 .. (MaxSource + 1),
    m_ack_frequency   : BOOLEAN,
    m_ack_nb_packets  : Nat,
    nb_packets        : Nat,
    out               : SUBSET SourceId,
    first             : SUBSET SourceId,
    seen              : SUBSET (SUBSET SourceId),
    ack               : SUBSET [kind : {"ack"}, source_ids : SUBSET SourceId, nb_packets : Nat],
    fault             : Faults ]

(* An assertion, or a condition whose negation is undefined behaviour.     *)
Require(d, holds, name) ==
  IF d.fault = "none" /\ ~holds THEN [d EXCEPT !.fault = name] ELSE d

(* m_callback for the sources of ids, m_sources holding `first' when the   *)
(* first of them is handed over, and one of `held' for each.               *)
Callback(d, ids, first, held) ==
  IF ids = {} THEN d
  ELSE [d EXCEPT !.out   = @ \cup ids,
                 !.first = IF d.out = {} THEN first ELSE @,
                 !.seen  = @ \cup held]

(* The first identifier from f on which is not in S: where a scan of       *)
(* consecutive identifiers stops.                                          *)
NextGap(S, f) ==
  CHOOSE n \in f .. (MaxSource + 1) : n \notin S /\ (f .. (n - 1)) \subseteq S

(* The sources handed over when `new' ones are known and in-order delivery *)
(* now stops at `gap'.  Two slips before it: a gap given too, and an order *)
(* not kept.                                                               *)
HandedOverWithGap(d, new, gap) == IF d.m_in_order THEN d.m_first_missing .. gap ELSE new
HandedOverAtOnce(d, new, gap)  == new

HandedOver(d, new, gap) == IF d.m_in_order THEN d.m_first_missing .. (gap - 1) ELSE new

-----------------------------------------------------------------------------
(***************************************************************************)
(* drop_outdated, with the flush_ordered_sources it ends with.             *)
(***************************************************************************)
(* A slip: a repair is kept as long as one of its sources is recent.       *)
OutdatedAltogether(ids, id) == \A i \in ids : i < id

Outdated(ids, id) == \E i \in ids : i < id

(* A slip: the last outdated source is left in the queue.                  *)
LateOrderedButLast(d, id) == {s \in d.m_ordered_sources : s + 1 < id}

LateOrdered(d, id) == {s \in d.m_ordered_sources : s < id}

(* A slip: the missing sources keep their iterators to dropped repairs.    *)
StillLinked(missing, dropped, id) ==
  [m \in {k \in DOMAIN missing : k >= id} |-> missing[m]]

Unlinked(missing, dropped, id) ==
  [m \in {k \in DOMAIN missing : k >= id} |-> missing[m] \ dropped]

DropOutdated(d, id) ==
  LET dropped == {r \in DOMAIN d.m_repairs : Outdated(d.m_repairs[r], id)}
      kept    == DOMAIN d.m_repairs \ dropped
      first   == IF d.m_in_order /\ d.m_first_missing < id THEN id ELSE d.m_first_missing
      gap     == NextGap(d.m_ordered_sources, first)
      given   == LateOrdered(d, id) \cup (first .. (gap - 1))
      linked  == \A r \in dropped : d.m_repairs[r] \subseteq DOMAIN d.m_missing_sources
      d1      == Callback(Require(d, linked, "end_dereference"),
                          given, d.m_sources, {d.m_sources})
  IN  [d1 EXCEPT
         !.m_last_id         = id,
         !.m_repairs         = Restrict(d.m_repairs, kept),
         !.m_missing_sources = Unlinked(d.m_missing_sources, dropped, id),
         !.m_sources         = {s \in @ : s >= id},
         !.m_ordered_sources = @ \ given,
         !.m_first_missing   = gap]

(***************************************************************************)
(* add_source_recursive.  The missing sources left with a single repair    *)
(* that encodes nothing else are rebuilt by the recursion, in increasing   *)
(* order; every callback precedes every insertion into m_sources, because  *)
(* each call inserts its own source last.                                  *)
(***************************************************************************)
RemoveSourceFromRepairs(repairs, refs, s) ==
  [r \in DOMAIN repairs |-> IF r \in refs THEN repairs[r] \ {s} ELSE repairs[r]]

Ready(missing, repairs) ==
  {m \in DOMAIN missing : \E r \in missing[m] : missing[m] = {r} /\ repairs[r] = {m}}

(* Two rebuilt sources that are neighbours in m_missing_sources: the       *)
(* recursion erases the element the caller's iterator stands on.           *)
ErasesNext(missing, ready) ==
  \E a, b \in ready : a < b /\ \A m \in DOMAIN missing : ~(a < m /\ m < b)

(* Where in-order delivery stops once the recursion has handed over what   *)
(* it can: s counts only if it is the first missing one on entry.          *)
(* Two slips before it: the queue is not flushed, and one source too many  *)
(* is counted.                                                             *)
InOrderGapWithoutFlush(d, s, ready) ==
  IF s = d.m_first_missing THEN s + 1 ELSE d.m_first_missing
InOrderGapPlusOne(d, s, ready) == NextGap(d.m_ordered_sources \cup {s}, s) + 1

InOrderGap(d, s, ready) ==
  LET known == d.m_ordered_sources \cup ready
      avail == IF s = d.m_first_missing THEN known \cup {s} ELSE known
  IN  NextGap(avail, d.m_first_missing)

AddSource(d, s) ==
  LET links   == d.m_missing_sources
      refs    == IF s \in DOMAIN links THEN links[s] ELSE {}
      missing == Restrict(links, DOMAIN links \ {s})
      repairs == RemoveSourceFromRepairs(d.m_repairs, refs, s)
      ready   == Ready(missing, repairs)
      used    == UNION {missing[m] : m \in ready}
      new     == ready \cup {s}
      gap     == IF d.m_in_order THEN InOrderGap(d, s, ready) ELSE d.m_first_missing
      given   == HandedOver(d, new, gap)
      d1      == Require(d, \A r \in refs : repairs[r] # {}, "last_source_of_repair")
      d2      == Require(d1, ready \cap d.m_sources = {}, "ready_already_known")
      d3      == Require(d2, ~ErasesNext(missing, ready), "dangling_iterator")
  IN  [Callback(d3, given, d.m_sources, {d.m_sources}) EXCEPT
         !.m_repairs         = Restrict(repairs, DOMAIN repairs \ used),
         !.m_missing_sources = Restrict(missing, DOMAIN missing \ ready),
         !.m_sources         = @ \cup new,
         !.m_ordered_sources =
            IF d.m_in_order THEN (@ \ given) \cup {k \in new : k > gap} ELSE @,
         !.m_first_missing   = gap]

-----------------------------------------------------------------------------
(***************************************************************************)
(* attempt_full_decoding.                                                  *)
(*                                                                         *)
(* Whether the matrix can be inverted depends on the coefficients of the   *)
(* Galois field, abstracted to what its non-zero pattern allows: without a *)
(* choice of one distinct missing source per repair the determinant is 0,  *)
(* with exactly one such choice it is a product of non-zero coefficients,  *)
(* and with several it may be either (`luck').                             *)
(***************************************************************************)
Transversals(d) ==
  {f \in Injection(DOMAIN d.m_repairs, DOMAIN d.m_missing_sources) :
     \A r \in DOMAIN d.m_repairs : f[r] \in d.m_repairs[r]}

Invertible(d, luck) ==
  LET choices == Transversals(d)
  IN  choices # {} /\ (luck \/ Cardinality(choices) = 1)

(* Gauss-Jordan reports the last column, so the repair given up is the one *)
(* with the greatest identifier.  operator[] creates the missing sources   *)
(* it does not find.                                                       *)
RemoveFaultyRepair(d) ==
  LET faulty == Max(DOMAIN d.m_repairs)
      ids    == d.m_repairs[faulty]
      links  == d.m_missing_sources
      left(m) == IF m \in ids THEN links[m] \ {faulty} ELSE links[m]
  IN  [d EXCEPT
         !.m_repairs         = Restrict(@, DOMAIN @ \ {faulty}),
         !.m_missing_sources = [m \in DOMAIN links \cup ids |->
                                  IF m \in DOMAIN links THEN left(m) ELSE {}]]

(* Every missing source is rebuilt, from repairs that must not encode any  *)
(* other source.  In increasing order, each is inserted into m_sources,    *)
(* then handed over, unless in-order delivery holds it back, with what it  *)
(* releases from the queue.                                                *)
DecodeAll(d) ==
  LET missing == DOMAIN d.m_missing_sources
      avail   == d.m_ordered_sources \cup missing
      gap     == IF d.m_in_order /\ d.m_first_missing \in missing
                 THEN NextGap(avail, d.m_first_missing) ELSE d.m_first_missing
      given   == HandedOver(d, missing, gap)
      upto(g) == d.m_sources \cup {m \in missing : m <= g}
      turns   == given \cap missing
      first   == {m \in missing : \A g \in turns : m <= g}
      clean   == \A r \in DOMAIN d.m_repairs : d.m_repairs[r] \subseteq missing
      d1      == Require(d, clean, "garbage_decoded")
      d2      == Require(d1, missing \cap d.m_sources = {}, "source_already_added")
  IN  [Callback(d2, given, d.m_sources \cup first, {upto(g) : g \in turns}) EXCEPT
         !.m_repairs         = EmptyMap,
         !.m_missing_sources = EmptyMap,
         !.m_sources         = @ \cup missing,
         !.m_ordered_sources = IF d.m_in_order THEN avail \ given ELSE @,
         !.m_first_missing   = gap]

(* Two early returns.  A slip before them: one repair too many is awaited. *)
AwaitsSpareRepair(repairs, missing) == repairs = 0 \/ missing = 0 \/ missing >= repairs

TooFewRepairs(repairs, missing) == repairs = 0 \/ missing = 0 \/ missing > repairs

AttemptFullDecoding(d, luck) ==
  LET repairs == Cardinality(DOMAIN d.m_repairs)
      missing == Cardinality(DOMAIN d.m_missing_sources)
  IN  IF TooFewRepairs(repairs, missing) THEN d
      ELSE IF missing < repairs          THEN Require(d, FALSE, "more_repairs_than_missing")
      ELSE IF missing = 1                THEN Require(d, FALSE, "matrix_for_one_source")
      ELSE IF Invertible(d, luck)        THEN DecodeAll(d)
      ELSE RemoveFaultyRepair(d)

-----------------------------------------------------------------------------
(***************************************************************************)
(* operator()(decoder_source&&).                                           *)
(***************************************************************************)
(* A slip: only outdated sources are recognised.                           *)
KnownIfOutdated(d, s) == s < d.m_last_id

KnownSource(d, s) == s < d.m_last_id \/ s \in d.m_sources

ReceiveSource(d, s, luck) ==
  LET d1 == AddSource(d, s)
  IN  IF KnownSource(d, s)      THEN d
      ELSE IF d1.fault # "none" THEN d1
      ELSE AttemptFullDecoding(d1, luck)

(***************************************************************************)
(* operator()(decoder_repair&&).  `left' is what the repair encodes once   *)
(* the known sources are removed from it.  A repair left with one source   *)
(* is consumed at once: that source is no longer missing, but the other    *)
(* repairs that encode it are not updated.                                 *)
(***************************************************************************)
OutdatedRepair(d, ids) == \A i \in ids : i < d.m_last_id

RebuildSource(d, s) ==
  AddSource([d EXCEPT !.m_missing_sources = Restrict(@, DOMAIN @ \ {s})], s)

LinkRepair(d, r, left) ==
  LET links   == d.m_missing_sources
      old(m)  == IF m \in DOMAIN links THEN links[m] ELSE {}
  IN  [d EXCEPT
         !.m_repairs         = [q \in DOMAIN @ \cup {r} |-> IF q = r THEN left ELSE @[q]],
         !.m_missing_sources = [m \in DOMAIN links \cup left |->
                                  IF m \in left THEN old(m) \cup {r} ELSE old(m)]]

(* A slip: the known sources stay in the repair.                           *)
LeftUntouched(d, ids) == ids

LeftToDecode(d, ids) == ids \ d.m_sources

UseRepair(d, r, left, luck) ==
  IF \E s \in left : left = {s}
  THEN RebuildSource(d, CHOOSE s \in left : TRUE)
  ELSE AttemptFullDecoding(LinkRepair(d, r, left), luck)

ReceiveRepair(d, r, ids, luck) ==
  LET d1   == DropOutdated(d, Min(ids))
      left == LeftToDecode(d1, ids)
  IN  IF OutdatedRepair(d, ids) \/ r \in DOMAIN d.m_repairs THEN d
      ELSE IF d1.fault # "none" \/ left = {}               THEN d1
      ELSE UseRepair(d1, r, left, luck)

-----------------------------------------------------------------------------
(***************************************************************************)
(* ntc::decoder.                                                           *)
(***************************************************************************)

(* generate_ack: the ack names the sources known when it is written.       *)
(* Three slips before it: the missing ones are named as well; those above  *)
(* a gap are not; the ones being handed over are.                          *)
GenerateAckOfMissing(d, known) ==
  [d EXCEPT !.ack = @ \cup {AckPacket(known \cup DOMAIN d.m_missing_sources, d.nb_packets)},
            !.nb_packets = 0]
GenerateCumulativeAck(d, known) ==
  [d EXCEPT !.ack = @ \cup {AckPacket({s \in known : 0 .. s \subseteq known}, d.nb_packets)},
            !.nb_packets = 0]

GenerateAckOfGiven(d, known) ==
  [d EXCEPT !.ack = @ \cup {AckPacket(known \cup d.out, d.nb_packets)}, !.nb_packets = 0]

GenerateAck(d, known) ==
  [d EXCEPT !.ack = @ \cup {AckPacket(known, d.nb_packets)}, !.nb_packets = 0]

(* maybe_ack, run by handle_source at each callback, hence only by a call  *)
(* that delivers something.  The first callback meets the count of packets *)
(* due, if any of them does: it only changes by an ack.  The period may    *)
(* have elapsed at any of them (the period is longer than a call: once).   *)
CountDue(d) == d.nb_packets >= d.m_ack_nb_packets

LateAcks(d) == IF d.m_ack_frequency THEN {GenerateAck(d, known) : known \in d.seen} ELSE {}

(* The objects that the callbacks of a call may leave.                     *)
MaybeAck(d) ==
  IF d.out = {}       THEN {d}
  ELSE IF CountDue(d) THEN {GenerateAck(d, d.first)}
  ELSE {d} \cup LateAcks(d)

(* operator()(packet&&): any other type of packet makes it throw.          *)
CountPacket(d) == [d EXCEPT !.nb_packets = (@ + 1) % 2 ^ AckWidth]

Receive(d, p, luck) ==
  CASE p.kind = "source" -> MaybeAck(ReceiveSource(CountPacket(d), p.id, luck))
    [] p.kind = "repair" -> MaybeAck(ReceiveRepair(CountPacket(d), p.id, p.source_ids, luck))
    [] OTHER -> {d}

(* The setters of the ack policy; the second caps its argument.            *)
SetAckFrequency(d, on) == [d EXCEPT !.m_ack_frequency = on]

SetAckNbPackets(d, nb) == [d EXCEPT !.m_ack_nb_packets = IF nb < 128 THEN nb ELSE 128]

(* What stays in the object once the call has returned.                    *)
SettleDecoder(d) == [d EXCEPT !.out = {}, !.first = {}, !.seen = {}, !.ack = {}]

(* How many times each source has been handed to the user, once those of   *)
(* `out' have been: more than twice is remembered as twice.                *)
Tally(count, out) ==
  [s \in SourceId |-> IF s \in out /\ count[s] < 2 THEN count[s] + 1 ELSE count[s]]

-----------------------------------------------------------------------------
(***************************************************************************)
(* What ties the members of an object together.                            *)
(***************************************************************************)

(* Each pointer of m_ordered_sources designates a stored source.           *)
HasValidPointers(d) == d.m_ordered_sources \subseteq d.m_sources

(* Each iterator of m_missing_sources designates a stored repair that      *)
(* encodes the missing source.                                             *)
HasLiveLinks(d) ==
  \A m \in DOMAIN d.m_missing_sources : \A r \in d.m_missing_sources[m] :
    r \in DOMAIN d.m_repairs /\ m \in d.m_repairs[r]

(* Nothing stored is older than m_last_id, and every repair encodes        *)
(* something.                                                              *)
HasNothingOutdated(d) ==
  /\ \A s \in d.m_sources \cup DOMAIN d.m_missing_sources : s >= d.m_last_id
  /\ \A r \in DOMAIN d.m_repairs :
       d.m_repairs[r] # {} /\ ~Outdated(d.m_repairs[r], d.m_last_id)

(* The source that in-order delivery waits for is not in its own queue.    *)
HasFlushedQueue(d) == d.m_in_order => d.m_first_missing \notin d.m_ordered_sources
=============================================================================
