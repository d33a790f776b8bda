# A TLA+ development of netcode

netcode is a C++11 library for network coding over lossy links.  An *encoder*
turns the data of an application into *sources*, and every few sources into a
*repair*: a linear combination, over a Galois field, of all the sources in its
window.  A *decoder* hands the sources it receives to its user and rebuilds the
missing ones from repairs.  *Acks* come back and let the encoder shrink its
window.  All the code is single-threaded and driven by calls; concurrency is in
the network between the two objects, and in callbacks.

Line numbers below refer to `src/netcode/` unless a path says otherwise.

## Inventory

| Component | State | Operations | Talks to |
|---|---|---|---|
| encoder, `encoder.hh`, `detail/encoder.cc` | code type, rate, window size, adaptive mode, next source and repair identifiers, window, 16-bit count of packets sent since the last ack | give data, receive an ack, `generate_repair`, four setters | its packet handler, for each packet |
| window, `detail/source_list.hh` | list of sources, sorted because appended | `emplace`, `erase`, `pop_front` | encoder |
| public decoder, `decoder.hh` | ack being filled, date of the last ack, ack policy | receive a packet, `generate_ack`, `maybe_ack` | detail::decoder (calls), packet handler, data handler |
| detail::decoder, `detail/decoder.cc` | received sources, repairs, missing sources with iterators to the repairs that encode them, `m_last_id`, in-order position and queue of raw pointers | receive a source, receive a repair, `drop_outdated`, `add_source_recursive`, `attempt_full_decoding`, `flush_ordered_sources` | public decoder, by the callback for each delivered source |
| packetizer, `detail/packetizer.hh` | scratch buffers | write and read acks, repairs, sources; run-length coding of identifiers | packet handler |
| Galois field and matrices, `detail/galois_field.hh`, `detail/invert_matrix.cc` | none | coefficients, multiplication, Gauss-Jordan | encoder, detail::decoder |
| packets and buffers, `packet.hh`, `data.hh`, `detail/*.hh` | bytes | moves and alignment | all |
| dispatch, `dispatch.hh` | none | gives a packet to an encoder or a decoder by its type | both |
| C interface, `c/` | none | one function per method | both |
| transcoder, `src/examples/accelerator/` | an encoder, a decoder, sockets, timers | handlers for datagrams, application data, a periodic ack | everything |
| in-process pair, `src/tests/end_to_end.cc` | an encoder, a decoder, buffers between them | the loop of the test | both |
| lossy proxy, `src/tools/` | loss automata | drop or forward | sockets |

What makes the system hard to test:

* the five members of detail::decoder refer to each other by iterators and raw
  pointers, and each call may drop, rebuild, deliver and solve in a cascade;
* which packets are lost, late or repeated decides the path, and one test fixes
  one order;
* acks are written *inside* the callback of the source being handled;
* eviction, acks and `m_last_id` must agree although each of them acts on
  information of another time;
* counters of two machines are subtracted and the result becomes a divisor.

What makes each component correct: the **encoder**'s window is exactly what is
neither acknowledged nor evicted, bounded, evicted oldest first, and the rate
is kept.  The **decoder** keeps its references valid, hands each source over
once, in order if asked to, and only what is right; it forgets nothing the
encoder still repairs.  **Together**: the encoder forgets nothing that neither
was delivered nor evicted, for any behaviour of the network.

## Modules

| Module | Models |
|---|---|
| `Packets` | the three kinds of packets and the range of identifiers |
| `DecoderObject` | both decoder classes: a record for the object, an operator for each method |
| `Decoder` | a decoder facing any packets in any order |
| `EncoderObject` | the encoder and its window, in the same style |
| `Encoder` | an encoder facing any application and any acks |
| `Tunnel` | an encoder, a decoder and a network in each direction |
| `Delivery` | what the user of the pair is promised; `Tunnel` implements it when the order is kept |
| `Loopback` | an encoder and a decoder in one process, with handlers that deliver in the middle of a call, and its liveness |
| `SourceList` | the list behind the window, and the loop of its `erase` step by step |
| `Window` | the abstract window: the set that `EncoderObject` works with |
| `IdCodec` | the coding of lists of identifiers, with the widths of its fields; `SourceList` receives its acks through it |
| `GaloisField` | coefficients, products and sizes over the field of 16 elements |
| `Symbols` | the bytes and sizes of sources and repairs: mixing, removing, rebuilding |
| `InvertMatrix` | the matrix of a full decoding, its elimination column by column, what is rebuilt with it |
| `SetLemmas` | least and greatest elements of sets of identifiers, and counting up by induction |
| `EncoderLemmas`, `DecoderLemmas` | what each method of an object returns and keeps, for any caller; and what a decoder keeps when its packets come in the order in which they were sent |
| `EncoderProofs`, `DecoderProofs` | theorems about `Encoder` and `Decoder` |
| `TunnelProofs` | theorems about `Tunnel`, over any network and over one that keeps the order |
| `LoopbackProofs` | theorems about `Loopback` |
| `SourceListProofs` | theorems about `SourceList`, and about `IdCodec` through it |

`Tunnel` and the two stand-alone modules call the same operators, as
`transcoder.hh` and the tests call the same methods.

`EncoderObject` takes the window for a set from which an ack removes what it
names; `SourceList` implements `Window`, that set, by a refinement mapping in
which `erase` takes effect when it begins.  Packets carry identifiers as sets;
`IdCodec` says when what is read back is what was written.
`DecoderObject` takes from a matrix only which of its coefficients are not zero;
`InvertMatrix` shows that the elimination does what it allows (`OutcomeAllowed`)
and that what is rebuilt is right (`RebuildsAll`, `RebuildsLast`), which is why a
source's bytes can be its identifier in `DecoderObject`.

### From the code to the state

* A source's bytes are its identifier.  A repair's symbol is the set of sources
  still mixed into it; the code keeps that equal to `source_ids()` of the stored
  repair, so that the map `m_repairs` gives both.  What is rebuilt from a matrix
  is right exactly when its repairs encode no source outside the matrix; the
  contrary is the fault `garbage_decoded`.
* `m_missing_sources` maps a source to the set of repairs its iterators
  designate.  An iterator to an erased repair would be a repair outside the
  domain of `m_repairs`: `LinksLive`.
* `m_ordered_sources` is a set of identifiers, its pointers being valid as long
  as it is a subset of `m_sources`: `PointersValid`.
* `m_last_id` starts at 0 rather than `boost::none`; the code never tells the
  two apart.
* A call is one step, and a cascade inside it is a closed form: in
  `AddSource`, the sources rebuilt by the recursion are those with a single
  repair that encodes nothing else *after* the first removal, because each
  level of the recursion can only touch its own source.  The closed forms were
  compared with the compiled decoder on some three thousand random traces
  (forty thousand calls) of this model, assertions and an address sanitizer
  enabled: same members after each call, same deliveries, and each fault
  of the model at the place named below.
* `m_in_order` and the ack policy are members of the record, so that one run
  covers every mode; which modes, the constants `Orders`, `AckTimers` and
  `AckCounts` say.
* `fault` names the first assertion that fails, undefined behaviour met or wrong
  data delivered.  The object takes no step after it, for nothing can be said
  of a program after undefined behaviour.
* The matrix is abstracted to the pattern of its non-zero coefficients.  With
  no choice of one distinct missing source per repair its determinant is zero,
  with exactly one it is a product of non-zero coefficients, with several it
  may be either: `luck`.  A failure always reports the last column
  (`detail/invert_matrix.cc:47`), so the repair given up is the greatest.
* `out`, `first`, `seen` and `ack` are what the running call has produced: the
  sources handed over, the keys of `m_sources` when the callback was first called
  and each time it was, and the acks written.  The count of packets is due at
  the first callback or at none; the period of acks may have elapsed at any one
  of them: `MaybeAck` is the set of what these choices leave.
* `m_nb_sent_packets` keeps its wrap-around, with `CounterWidth` bits (16 in the
  code), and the loss rate its arithmetic on integers: `ceil` of a quotient.
  So does `nb_packets`, with `AckWidth` bits (16 in the code).
* The product of identifiers from which a coefficient is made keeps its
  wrap-around too, with `IdWidth` bits (32 in the code).

### Actions

| Action | Code |
|---|---|
| `Decoder!Notify` / `Tunnel!ReceiveData` | `decoder::operator()(packet&&)`, all it calls, the callbacks and the acks written in them |
| `AskAck` | `generate_ack` called by the application's timer (`transcoder.hh:208-224`), or the public `maybe_ack` (`tests/netcode/test_decoder.cc:114`) when it is due |
| `AppCommit` | `encoder::operator()(data&&)`: eviction, source, due repair |
| `BeginCommit`, `EndCommit` | the same call, up to the return of the packet handler it calls for the source, and after it |
| `Eliminate`, `Fail`, `Substitute` | one turn of the loops of `invert` |
| `AppGenerateRepair` | `generate_repair` called by the application |
| `ReceiveAck` | `encoder::operator()(packet&&)` with an ack |
| `SetRate`, `SetWindowSize`, `SetCodeType`, `SetAdaptive` | the encoder's setters |
| `SetFrequency`, `SetCount` | the decoder's `set_ack_frequency` and `set_ack_nb_packets` |

`Init` stands for a constructor and the setters called right after it, as the
constructor of `transcoder` does.

The network is not code of the library.  In `Tunnel` a packet may always be
lost.  Without `Reorder` a link is first in, first out.  With `Reorder` packets
may also arrive in any order and any number of times.  Tests of the repository
take late sources as normal (`src/tests/netcode/detail/test_decoder.cc:604` and
`:756`), and so does the transport of the examples, UDP.

## Runs

| Run | Question | Bounds |
|---|---|---|
| `decoder_any_packets` | do a decoder's references, its queue and its deliveries stay right for *any* packets, with and without in-order delivery? | 4 sources, 3 repairs encoding any of them, any number of calls |
| `encoder_any_calls` | is the window exact and bounded, the rate usable and the cadence kept, whatever is acked and set, and when? | 5 commits, 4 repairs, rates of 1, 3 or what the adaptive mode makes, windows of 1, 3 or the default, 2-bit counter |
| `tunnel_ordered` | is everything right over links that lose packets but keep the order? | adaptive, systematic or not, in order or not; 4 commits, 5 repairs, window 3, 2-bit counter, acks every packet, every 3, or by the clock, the policy changing at any time |
| `tunnel_reorder` | do both ends agree on what may be forgotten, whatever the network does? | 3 commits, 3 repairs, window 2, rate 2, acks every 3 packets (their count wraps on 2 bits) and one asked for |
| `loopback` | does every source get delivered and leave the window, when nothing is lost for ever? can an ack that comes in the middle of a commit empty what the commit is about to encode? does the decoder stay free of faults when identifiers of repairs come again? | systematic or not, in order or not; 4 commits, window 2, rate 2, repair identifiers on 2 bits, links of 2 packets and 1 ack |
| `source_list` | does an ack erase from the window what the decoder named, and does `erase` return? | 7 sources, acks that name anything, one source not yet sent included; differences, lengths of runs and count on 2 bits each |
| `invert_matrix` | is what a full decoding rebuilds right, and does it fail only when it must? | every pattern of 2 or 3 repairs out of 5 and as many sources out of 4, two pairs of them equal modulo 15; field of 4 bits, products of identifiers on 8, so that some wrap, sizes on 8, up to 19 |
| `encoder_window_shrunk`, `tunnel_matrix_of_one`, `tunnel_withheld`, `tunnel_twice`, `wide_field` (expected violations) | see *Findings* | the smallest that show the trace |

Why the bounds are enough to be interesting: 3 repairs and 4 sources are the
least with which a 2x2 matrix is inverted or fails while a third repair is
stored, links are shared between repairs, and the window moves twice past what
is stored; with a window of 3, evictions, acks and repairs overlap; a
2-bit counter wraps several times.  `nb_packets` is not counted in
`decoder_any_packets` and `loopback` (`AckWidth = 0`): in the former acks do not come
back, in the latter they are due by the clock, at any callback or at none.
No run needs a deadlock check: a call that fails an assertion stops the
program, and the bounds stop the others.

Properties, by hazard:

* *references*: `PointersValid`, `LinksLive`, `NothingOutdated`;
* *delivery by any decoder*: `QueueFlushed`, `RecentOnce`, `RecentInOrder`.
  Their exceptions are as narrow as the code allows: what `m_last_id` has been
  past may come back;
* *encoder*: `WindowExact`, `EvictsOldest`, `RateUsable`, and `LimitKept` and
  `RepairCadence`, which hold until a setter is called after the first commit:
  the history `settled` says so; without it `WindowLimit` fails at the setter
  already, and `NeverGrowsPastLimit`, which only speaks of the steps that make the
  window grow, fails at the next commit;
* *agreement over any network*: `WindowAhead`, and, not in order, `ForgottenWasDelivered`;
* *representation*: `ImplementsWindow`, `EraseReturns`, `RoundTrip`,
  `WithinWritten`;
* *algebra*: `InverseIsRight`, `FailsOnlyIfSingular`, `OutcomeAllowed`,
  `FailureNotFinal`, `RebuildsAll`, `RebuildsLast`;
* *in one process*: `EncodesSomething`, `NoFault`, `EventuallyRecovered`, `WindowDrains`;
* *over links that keep the order*: `NoFault`, `NoStaleRepair`,
  `FewerRepairsThanMissing`, `NothingWithheld`, `ImplementsDelivery`.

Definitions introduced by *A slip* are variants of the definition that follows
them, with the mistake the comment names.  No specification uses them; put in
the place of that definition, each makes TLC find a property violated
(`PROJECT.json`, "mutants", pairs them), which shows that the property and the
bounds can tell.

### Fairness

In `SourceList` the loop of `erase` goes on as long as it can, being a loop of
one thread.

In `Loopback`:

* a commit that has begun ends, the handlers being called by it;
* the application asks for acks again and again, as `transcoder.hh:208-224` and
  `examples/accelerator-oneway/receiver.cc` do with a timer.  `WindowDrains` needs it:
  a decoder that is stuck hands nothing over, so it never acks by itself;
* the application asks for repairs again and again.  The interface offers
  `generate_repair`, and *no example of the repository calls it*: their repairs
  come with later commits.  Without this assumption neither liveness property
  holds of the end of a stream;
* what is on a link arrives or is lost;
* an ack arrives now and then (strong fairness), and so does, with a matrix that
  can be inverted, a repair the decoder does not have.  That losses are not for
  ever is an assumption on the network.  That the matrix can be inverted now and
  then is `FailureNotFinal`: after a failure on two sources some other repair
  solves them with the one kept, unless the identifiers are equal modulo
  2^w - 1; then no repair does before products of identifiers wrap around, a
  limit of the library that only a window as long as that can meet.

The last assumption is written `[]<>P => []<><<P /\ A>>_vars`: it is the strong
fairness of `P /\ A`, `P` being when that step is possible.  Nothing is assumed of
commits, which may stop.

`EventuallyRecovered` gives up, in order, what follows an evicted source: sources
queued behind it are released by a later repair only, and if acks empty the
window first none comes (`detail/decoder.cc:370`).  Every other property is a
safety property.

A list of identifiers with a hole of 2^16 or more, which takes as many losses
or acks in a row, is not read back as it was written: `RoundTrip` excludes it,
and `WithinWritten` says what remains true.  Both assume that the number of runs fits
its field of 16 bits (`CountFits`).

## Findings

Over links that keep the order the decoder is right on all these points.  Once
a source may arrive after a repair that encodes it, or a repair after a later
one, it is not:

1. `detail/decoder.cc:140`: a repair left with one source rebuilds it, but other
   stored repairs keep encoding it, stale.  Assertions fail
   (`tunnel_matrix_of_one`), wrong data is delivered (the fault
   `garbage_decoded`), or `drop_outdated` goes through `end()` (the fault
   `end_dereference`).
2. `detail/decoder.cc:332`: the source that triggers a cascade may be neither
   delivered nor queued, although nothing before it is missing
   (`tunnel_withheld`).
3. `detail/decoder.cc:346`, with the test of `:60`: `m_last_id` may move backwards,
   and a source be delivered a second time, no assertion having failed
   (`tunnel_twice`).  The window is of two sources and evicts source 0; the
   repair of 1 and 2 makes the decoder forget source 0, and the earlier repair of 0
   and 1, late, makes it rebuild source 0 again.  No packet needs to be duplicated.
4. `detail/decoder.cc:311` and `:286`: the faults `dangling_iterator`, a loop that
   stands on an element its recursive call has erased, and
   `last_source_of_repair`, the assertion of `decoder.cc:397`, are reachable in the
   same way.

Over any network:

5. `encoder.hh:258`: a window size set below the current size is not applied by the
   commits that follow.  With two sources in the window and a size set to 1, the
   next commit makes three (`encoder_window_shrunk`); a test for `>=` would keep
   two.  The limit applies again if acks bring the size back to it exactly.
6. `detail/galois_field.hh:118`: in the field of 32 bits the product of a size and a
   coefficient is cut to 16 bits, and the size rebuilt is wrong (`wide_field`).
   Repair 0 made of source 63 alone, of 1024 bytes, has the coefficient 65; the
   decoder rebuilds 59276 bytes.  The tests run with this field, with sizes of a
   few bytes and identifiers near 0, where nothing is cut.
7. `detail/invert_matrix.cc:47`: a failure reports the last column whatever the
   dependent ones are, although `invert_matrix.hh:18` says "the value is the column
   which made the inversion fail" and `detail/decoder.cc:451` "remove the faulty
   repair".  Repairs 0 and 15 in the field of 16 elements are proportional; with
   repair 16 stored the latter is given up, and the two stay.  No run is
   devoted to it: the models have it in `RemoveFaultyRepair`.

The comment of `detail/decoder.hh:173` ("All sources that have not been yet received, but
which are referenced by a repair") does not hold after a failed inversion that
gives up the only repair of a source.  In the field of 16 elements the repairs 1
and 3 of sources 0 and 1 are proportional: received with repair 4 of sources 0, 1 and
2 between them, they leave source 2 among the missing ones without a repair
until it arrives or is outdated (`NothingOutdated`), and two repairs of the two
others do not suffice meanwhile.  It needs repairs out of order: over links that keep
it, what is stored is nested (see *Proofs*).

The comment of `detail/decoder.hh:170` ("All sources with an identifier smaller
than this value were received or decoded in the past") does not hold of sources
that were lost and evicted from the window; no code relies on it.

## Proofs

Everything below is proved for every value of the constants that satisfies the
assumptions of the modules.  These say only that bounds, widths and counts are
natural numbers, that modes and policies are booleans, that rates, window
sizes and counts given to the setters are positive, and in one process that the
bound of a repair's identifier leaves room for all those of its width:
`PacketsAssumption`, `DecoderAssumption`, `PolicyAssumption`, `EncoderAssumption`,
`ApplicationAssumption`, `TunnelAssumption`, `LoopbackAssumption`,
`CodecAssumption`.  Where a theorem
assumes more, the table says so.

| Module | Proved | Assuming besides |
|---|---|---|
| `DecoderProofs` | `TypeOK`, `PointersValid`, `LinksLive`, `NothingOutdated`, `QueueFlushed`, `RecentOnce`; the action property `RecentInOrder` | |
| `EncoderProofs` | `TypeOK`, `WindowExact`, `EvictsOldest`, `RateUsable`, `RepairCadence`, `LimitKept` | |
| `TunnelProofs` | `WindowAhead` | |
| | `ForgottenWasDelivered` | no in-order delivery: `Orders \subseteq {FALSE}` |
| | `NoFault`, `NoStaleRepair`, `FewerRepairsThanMissing`, `NothingWithheld`, `ForgottenWasDelivered`, `DeliveredOnce`; the refinement `ImplementsDelivery` | the network keeps the order: `Reorder = FALSE` |
| `LoopbackProofs` | `EncodesSomething`, `NoFault` | |
| `SourceListProofs` | `TypeOK`, `RoundTrip`, `WithinWritten`; the refinement `ImplementsWindow` | |

The last assumption is needed: when the network reorders, `tunnel_matrix_of_one`
refutes `NoFault`, `tunnel_withheld` refutes `NothingWithheld`, and `tunnel_twice`
refutes `DeliveredOnce`, hence the refinement.  Of an in-order decoder over a network that
reorders, `ForgottenWasDelivered` is neither checked nor claimed: what is withheld
there may never be handed over.

The lemma modules are the foundation.  For each method there is a lemma that
gives every member of the object it returns; the object is then an opaque name,
and the proofs above never expand a method again.  Acks written in the middle of
a call are followed in the same way: `NamesMore(d, e, S)` says that between `d`
and `e` no ack was written that names more than what `d` had and `S`.  The lemmas
on least and greatest elements rest on the well-foundedness of inclusion between
finite sets.

**Decoder.**  An object is `Sound` when its members are in range, its pointers
and iterators valid, its queue flushed and, as long as no fault has occurred,
nothing outdated stored and no repair empty.  The conjuncts are inductive
together and not apart: iterators are followed to repairs that must not be
empty for `AddSource`, dropping repairs needs the links, a failed inversion
creates missing sources whose age comes from the repairs, the queue stays
within `m_sources` only because what is truncated left it.
`HasNothingOutdated` must be excused after a fault: a failed assertion of
`decoder.cc:397` leaves an empty repair.  `RecentOnce` and `RecentInOrder` add
`Remembers` and `GivenBeforeMissing`: what was handed over and not been passed by
`m_last_id` is still in `m_sources`, so that `operator()` refuses it, and, in order,
lies before `m_first_missing`.

**Encoder.**  `IInv` joins the properties with two facts that they rest on.
`SinceTheLastMultiple`: the number of sources since the last repair is at most the
remainder of the count of commits by the rate; `RepairCadence` is that, plus
the bound of a remainder.  `FreshAtFirst`: a setter called before the first
commit finds nothing sent, which is what `settled` counts on.  The loss rate is
computed from counters that wrapped, for any width.

**Any network.**  `NetInv` takes the two objects in range, with what is on the
way: each packet of data is a source already committed or a repair that encodes
only what was committed.  `LastIdBehind`: `m_last_id` is not past the window, nor is the
oldest source of any repair on the way, however late it arrives.  `OthersRemembered`, not in
order: what the decoder stores has been handed over, so has what an ack on the way
names, and so has what is neither in the window nor evicted.

**A network that keeps the order.**  `OrderedInv` is `NetInv` with two more parts,
`Tidy(dec)` about the decoder and `Flow` about the links.

`Tidy` is what makes a decoder correct in spite of the hazards listed above.  No stored
repair encodes a source that is known (`HasNoStaleRepair`); of any two
repairs one encodes all that the other does (`HasNestedRepairs`); and there are
fewer repairs within a repair than sources in it (`HasTooFewRepairs`).  It is the
nesting that makes `FewerRepairsThanMissing` hold, and neither of the two is
inductive without the other.  With it, a repair that arrives encodes every missing source; if it is left with a
single source nothing else is missing, and otherwise a full decoding has a matrix
that encodes all that is missing and nothing else, and leaves what is nested again
when it fails.  A source that arrives is never a missing one.  So the cascade of
`add_source_recursive`, where the assertions are, has nothing to go through.

`Flow` says why a network in order delivers packets on which that holds.  The stamps of
a link grow; a source comes before the repairs that encode it; the missing
sources, the repairs on the way and the window *follow* one another: a source of
the former is in the latter, or is older than all of it, or has been settled
(received, rebuilt or passed over).  What an ack names is settled, and so is what the encoder
has forgotten; what was handed over is settled, and in order precedes what
is to come.  TLC checked `OrderedInv` on the constants of `tunnel_ordered` before it was
proved.

**Refinement.**  `KeepsThePromise` proves that `Tunnel` implements `Delivery` with the
histories `delivered` and `evicted` as the mapping: `AppCommit` is the
`Commit` of the promise, `ReceiveData` is `Deliver` of what the call handed over or
a stutter, and the other actions are stutters.  The guard of `Deliver` (new,
committed, after all that was delivered, with no hole but what the window
dropped) is what the last two conjuncts of `Flow` are for.

**In one process.**  The links of `Loopback` keep the order, so that `ProcessInv` is again
`Tidy(dec)` with a `Flow`, stated with positions in the two sequences instead of stamps;
the part of `DecoderLemmas` about a tidy decoder mentions no link and serves both.  Two things differ.  Identifiers of repairs
wrap, so that nothing may be said of a repair by its identifier: `RepairsFollow`
compares what repairs encode.  And a commit may be interrupted between its source and its
repair: `Begun`, how many sources have entered the window, is then one more than
the encoder's counter, and it is what the packets on their way are compared with.

`EncodesSomething` rests on `CurrentIsKept`: the source being committed is in the
window until the commit ends.  An ack could take it away, and the decoder may hear of it before the
commit ends, so two facts are needed.  While there is any packet on its way the
decoder has not heard of the source, because only the last one names it.  And
the ack of the call that receives that last packet does not name it
(`NewIsNotAcked`): a source is acked before it is stored, a source rebuilt from a repair alone too,
and the repair is not the one that completes a matrix, because a source of which nothing
was known adds one missing source for the one repair it adds, and there were fewer
repairs than missing sources before.  No second call can tell the decoder of it, and the
application's own `AskAck` does not come in the middle of a commit.  TLC checked the conjuncts of
`ProcessInv` with links of 3 packets and 2 acks, window 3, rate 2 and repair identifiers on one bit,
158,638 distinct states, before it was proved.

**Coded lists and the loop of `erase`.**  A list of identifiers is written with one fold
and read with another, and the induction theorems of the library cannot be
instantiated.  `UpTo` replaces them: a set that contains 0 and is closed under the
successor contains every count up to a bound, by its least counterexample.  With it
`IteratesExists` shows that the function behind `FoldLeft` exists, and `SumsFold` and
`RunsFold` give each fold a *history*, its value after every element; what is said of a
fold is then an induction on its history.  `SortedIs`: the sorted list of a set enumerates it, because
the ranks of its elements are as many as they are.  `RunsOfList`: reading the runs
of a list gives its identifiers, whether a difference starts a run or
lengthens the last one.  `FieldIs`: the length of a run always fits its field, for runs are cut
before it is full, and a value fits when the gap does.  These make `RoundTrip`.
`ReadsWithin` compares two histories, one over the runs and one over fewer pairs with
values no larger, as reduced fields are: sums are no larger either, which is why what is read lies
between the first and the last identifier whatever the holes, provided that the
number of runs fits its field (`WithinWritten`).

The invariant of the loop has the list in increasing order, and `Passed`: every source
that the first iterator has passed is older than everything the second one has yet
to deal with.  By the order, a source that is erased occurs once; by `Passed`, an
identifier that is ignored is not that of a source already passed, and nothing that is
left when the list ends is in the list.  So the sources, less what is pending, do not change during
the loop, and `ErasesAtOnce` maps each of its steps to a stutter and its beginning to
`Erase` of what was read.  TLC checked this invariant on the constants of
`source_list`, 132,528 distinct states.

Out of the prover's reach, and only model-checked:

* liveness: `EventuallyRecovered` and `WindowDrains` in `Loopback`, `EraseReturns` in
  `SourceList`;
* `InvertMatrix`, with `GaloisField` and `Symbols`: products of the field are made of
  the operators of `Bitwise`.

## Not modelled

The headers of packets and their alignment, statistics, sockets, the C
interface, which forwards calls, debugging dumps, the lossy proxy, which loses
packets like the networks of the models, and vendored libraries
(`src/ext/`, most of the repository's lines: asio, boost and catch).  Identifiers
of sources do not wrap in the models; in the code they do after 2^32 commits,
and every comparison assumes that they do not.  The second direction of the tunnel
shares nothing with the first but the socket.  Fields larger than 16 elements
are gf-complete's; the ratio between a size and an element is what
`GaloisField` keeps of them.  `PROJECT.json` lists every component with the
reason.
