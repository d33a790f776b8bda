------------------------------ MODULE IdCodec ------------------------------
(***************************************************************************)
(* How the packetizer writes and reads a list of source identifiers, in a  *)
(* repair and in an ack (netcode/detail/packetizer.hh:258-352): the first  *)
(* one, then the differences between neighbours, equal ones being counted, *)
(* each field on its own width.                                            *)
(***************************************************************************)
EXTENDS Integers, Sequences, SequencesExt

CONSTANTS
  MaxId,        \* bound: the greatest identifier in a list
  DiffWidth,    \* bits of a difference (16 in the code)
  RunWidth,     \* bits of the length of a run (8)
  CountWidth    \* bits of the number of elements (16)

ASSUME CodecAssumption ==
  /\ MaxId \in Nat
  /\ DiffWidth \in Nat
  /\ RunWidth \in Nat \ {0}
  /\ CountWidth \in Nat
  /\ 2 ^ DiffWidth > 0 /\ 2 ^ RunWidth > 1 /\ 2 ^ CountWidth > 0

-----------------------------------------------------------------------------
(***************************************************************************)
(* write(const source_id_list&).                                           *)
(***************************************************************************)
(* The identifiers in increasing order, as a flat_set keeps them.          *)
Sorted(S) ==
  [i \in 1 .. Cardinality(S) |-> CHOOSE s \in S : Cardinality({t \in S : t < s}) = i - 1]

(* A slip: the first identifier is not skipped.                            *)
DifferencesFromZero(list) ==
  [i \in 1 .. Len(list) |-> IF i = 1 THEN list[1] ELSE list[i] - list[i - 1]]

Differences(list) == [i \in 1 .. (Len(list) - 1) |-> list[i + 1] - list[i]]

(* A slip: the length of a run may not fit.                                *)
ExtendsTooFar(run, diff) == run.value = diff /\ run.length < 2 ^ RunWidth

Extends(run, diff) == run.value = diff /\ run.length < 2 ^ RunWidth - 1

AddToRuns(runs, diff) ==
  IF runs # <<>> /\ Extends(Last(runs), diff)
  THEN [runs EXCEPT ![Len(runs)].length = @ + 1]
  ELSE Append(runs, [length |-> 1, value |-> diff])

Runs(list) == FoldLeft(AddToRuns, <<>>, Differences(list))

(* The conversions to the widths of the fields.                            *)
Field(run) == [length |-> run.length % 2 ^ RunWidth, value |-> run.value % 2 ^ DiffWidth]

Written(S) ==
  LET list == Sorted(S)
      runs == Runs(list)
  IN  IF S = {}
      THEN [nb_elements |-> 0, first |-> 0, pairs |-> <<>>]
      ELSE [nb_elements |-> (Len(runs) + 1) % 2 ^ CountWidth,
            first       |-> Head(list),
            pairs       |-> [i \in DOMAIN runs |-> Field(runs[i])]]

(***************************************************************************)
(* read_ids: partial sums, as many pairs as announced.                     *)
(***************************************************************************)
AddRun(sum, run) ==
  [last |-> sum.last + run.length * run.value,
   ids  |-> sum.ids \cup {sum.last + j * run.value : j \in 1 .. run.length}]

ReadBack(w) ==
  IF w.nb_elements = 0 THEN {}
  ELSE FoldLeft(AddRun, [last |-> w.first, ids |-> {w.first}],
                SubSeq(w.pairs, 1, w.nb_elements - 1)).ids

-----------------------------------------------------------------------------
(* The lists the widths are made for: no hole of 2^DiffWidth, and a number *)
(* of elements that fits its field.                                        *)
GapsFit(S)   == \A i \in S : i = Max(S) \/ \E j \in S : i < j /\ j - i < 2 ^ DiffWidth
CountFits(S) == Len(Runs(Sorted(S))) + 1 < 2 ^ CountWidth
=============================================================================
