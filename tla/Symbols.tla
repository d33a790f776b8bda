------------------------------ MODULE Symbols ------------------------------
(***************************************************************************)
(* The bytes of sources and repairs, and their sizes: how an encoder mixes *)
(* sources of different sizes into a repair (netcode/detail/encoder.cc),   *)
(* and how a decoder takes known sources out of it and rebuilds the others *)
(* (netcode/detail/decoder.cc).  A byte is an element of the field.        *)
(***************************************************************************)
EXTENDS GaloisField, SequencesExt

CONSTANT MaxSize    \* bound: the greatest size of a source

ASSUME SizeAssumption == MaxSize \in 1 .. (2 ^ SizeWidth - 1)

(* Sources whose sizes differ, longer ones before and after shorter ones.  *)
Size(s) == 1 + ((8 * s) % MaxSize)

Source(s) == [k \in 1 .. Size(s) |-> 1 + ((s + 7 * k) % 15)]

-----------------------------------------------------------------------------
(* multiply_add, of a region into another one at least as long.            *)
MultiplyAdd(src, dst, c) ==
  [k \in DOMAIN dst |-> IF k \in DOMAIN src THEN dst[k] ^^ Times(c, src[k]) ELSE dst[k]]

Zeros(n) == [k \in 1 .. n |-> 0]

(***************************************************************************)
(* detail::encoder::operator().  The one encoder_repair of the encoder is  *)
(* used again for each repair, and reset does not touch encoded_size:      *)
(* `left' is what the previous repair left there.                          *)
(***************************************************************************)
(* A slip: the symbol is resized to each source, the shorter ones too.     *)
ResizedToEach(symbol, n) == [k \in 1 .. n |-> IF k \in DOMAIN symbol THEN symbol[k] ELSE 0]

Resized(symbol, n) == IF n > Len(symbol) THEN symbol \o Zeros(n - Len(symbol)) ELSE symbol

MixIn(repair, s) ==
  LET c == Coefficient(repair.id, s)
  IN  [repair EXCEPT
         !.symbol       = MultiplyAdd(Source(s), Resized(@, Size(s)), c),
         !.encoded_size = MultiplySize(Size(s), c) ^^ @]

(* The first source sets the size instead of adding to it.  A slip: it     *)
(* adds like the others.                                                   *)
ResetWithoutSize(id, left) == [id |-> id, encoded_size |-> left, symbol |-> <<>>]

ResetRepair(id, left) == [id |-> id, encoded_size |-> 0, symbol |-> <<>>]

EncodeRepair(id, ids, left) ==
  FoldLeft(MixIn, ResetRepair(id, left), SetToSortSeq(ids, <))

-----------------------------------------------------------------------------
(* remove_source_data_from_repair; the symbol keeps its length.            *)
RemoveData(repair, s) ==
  LET c == Coefficient(repair.id, s)
  IN  [repair EXCEPT
         !.symbol       = MultiplyAdd(Source(s), @, c),
         !.encoded_size = MultiplySize(Size(s), c) ^^ @]

RemoveAll(repair, ids) == FoldLeft(RemoveData, repair, SetToSeq(ids))

(* create_source_from_repair: the first bytes of the symbol, as many as    *)
(* the size says.  A slip: all of them.                                    *)
CreateWholeSymbol(repair, s) ==
  [k \in DOMAIN repair.symbol |->
     Times(Reciprocal(Coefficient(repair.id, s)), repair.symbol[k])]

CreateSource(repair, s) ==
  LET c == Reciprocal(Coefficient(repair.id, s))
  IN  [k \in 1 .. MultiplySize(repair.encoded_size, c) |-> Times(c, repair.symbol[k])]

(* The same from the repairs of a matrix and a row of its inverse: each    *)
(* repair gives as many bytes as it has.                                   *)
Combine(stored, weights) ==
  LET size == FoldLeft(LAMBDA sum, k : sum ^^ MultiplySize(stored[k].encoded_size, weights[k]),
                       0, [k \in DOMAIN stored |-> k])
  IN  FoldLeft(LAMBDA bytes, k : MultiplyAdd(stored[k].symbol, bytes, weights[k]),
               Zeros(size), [k \in DOMAIN stored |-> k])
=============================================================================
