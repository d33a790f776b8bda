---------------------------- MODULE InvertMatrix ----------------------------
(***************************************************************************)
(* How a full decoding solves its equations: the matrix of coefficients    *)
(* that attempt_full_decoding builds (netcode/detail/decoder.cc:429-444),  *)
(* the elimination of netcode/detail/invert_matrix.cc, one column per      *)
(* step, and the sources it rebuilds from the bytes of the repairs         *)
(* (decoder.cc:470-535).                                                   *)
(*                                                                         *)
(* DecoderObject abstracts all this to the non-zero pattern of the matrix, *)
(* with `luck' for what the pattern does not decide: OutcomeAllowed below  *)
(* is what makes that abstraction right.                                   *)
(***************************************************************************)
EXTENDS DecoderObject, Symbols

CONSTANTS
  Missing,      \* the missing sources to choose from
  Repairs,      \* the repairs to choose from
  Dimensions    \* how many of each: attempt_full_decoding asserts more than one

ASSUME MatrixAssumption ==
  Missing \subseteq SourceId /\ Repairs \subseteq RepairId /\ Dimensions \subseteq Nat \ {0, 1}

VARIABLES
  repairs,    \* the stored repairs: the missing sources each of them encodes
  missing,    \* the missing sources
  mat,        \* the matrix, one row per repair (a column of square_matrix)
  inv,        \* the inverse, in the making
  i,          \* the column in hand
  stage       \* "down", "up", then "inverted" or "failed"

vars == <<repairs, missing, mat, inv, i, stage>>

-----------------------------------------------------------------------------
Scale(c, row) == [k \in DOMAIN row |-> Times(c, row[k])]
Plus(a, b)    == [k \in DOMAIN a |-> a[k] ^^ b[k]]

(* The matrix, repairs and missing sources each in increasing order.       *)
CoefficientMatrix(encoded, sources) ==
  LET rs == SetToSortSeq(DOMAIN encoded, <)
      ms == SetToSortSeq(sources, <)
  IN  [row \in DOMAIN rs |-> [col \in DOMAIN ms |->
         IF ms[col] \in encoded[rs[row]] THEN Coefficient(rs[row], ms[col]) ELSE 0]]

Identity(n) == [row \in 1 .. n |-> [col \in 1 .. n |-> IF row = col THEN 1 ELSE 0]]

-----------------------------------------------------------------------------
Init ==
  \E n \in Dimensions :
    /\ missing \in kSubset(n, Missing)
    /\ \E rs \in kSubset(n, Repairs) : repairs \in [rs -> (SUBSET missing) \ {{}}]
    /\ mat = CoefficientMatrix(repairs, missing)
    /\ inv = Identity(n)
    /\ i = 1
    /\ stage = "down"

Rows == DOMAIN mat

(* The row to bring up: the first one from i on with something in its      *)
(* column.  A slip: only the diagonal is looked at.                        *)
PivotsOnDiagonal == {j \in {i} : mat[j][i] # 0}

Pivots == {j \in Rows : j >= i /\ mat[j][i] # 0}

SwapRows(m, j) == [m EXCEPT ![i] = m[j], ![j] = m[i]]

(* Row i, once brought up and divided by its pivot, is added to the rows   *)
(* below it.                                                               *)
Eliminate ==
  /\ stage = "down"
  /\ Pivots # {}
  /\ LET m     == SwapRows(mat, Min(Pivots))
         v     == SwapRows(inv, Min(Pivots))
         c     == Reciprocal(m[i][i])
         clear(w) == [k \in Rows |->
            IF k < i THEN w[k]
            ELSE IF k = i THEN Scale(c, w[i])
            ELSE Plus(w[k], Scale(m[k][i], Scale(c, w[i])))]
     IN  mat' = clear(m) /\ inv' = clear(v)
  /\ IF i = Len(mat) THEN stage' = "up" /\ i' = i ELSE stage' = stage /\ i' = i + 1
  /\ UNCHANGED <<repairs, missing>>

(* The elimination stops; the column it reports is the last one (`j - 1').  *)
Fail ==
  /\ stage = "down"
  /\ Pivots = {}
  /\ stage' = "failed"
  /\ UNCHANGED <<repairs, missing, mat, inv, i>>

(* Column i of the triangular matrix is cleared above the diagonal, from   *)
(* the last column to the first.  A slip: an off-by-one in the rows.       *)
AboveButOne == 1 .. (i - 2)

Above == 1 .. (i - 1)

Substitute ==
  /\ stage = "up"
  /\ mat' = [k \in Rows |-> IF k \in Above THEN [mat[k] EXCEPT ![i] = 0] ELSE mat[k]]
  /\ inv' = [k \in Rows |->
               IF k \in Above THEN Plus(inv[k], Scale(mat[k][i], inv[i])) ELSE inv[k]]
  /\ IF i = 1 THEN stage' = "inverted" /\ i' = i ELSE stage' = stage /\ i' = i - 1
  /\ UNCHANGED <<repairs, missing>>

Next == Eliminate \/ Fail \/ Substitute

Spec == Init /\ [][Next]_vars

-----------------------------------------------------------------------------
(* Sum, over the field, of the rows of m weighted by x.                    *)
Combination(x, m) ==
  FoldLeft(LAMBDA sum, k : Plus(sum, Scale(x[k], m[k])),
           [col \in DOMAIN m |-> 0], [k \in DOMAIN m |-> k])

(* The ways in which the rows depend on each other.                        *)
Relations(m) ==
  {x \in [DOMAIN m -> 0 .. 15] : \A col \in DOMAIN m : Combination(x, m)[col] = 0}

Singular(m) == \E x \in Relations(m) : \E k \in DOMAIN m : x[k] # 0

(* What invert was given.                                                  *)
Given == CoefficientMatrix(repairs, missing)

(* The ordinary case: every repair encodes all that is missing.            *)
FullRepairs == \A r \in DOMAIN repairs : repairs[r] = missing

(* An inverse that is announced is one, whatever rows were swapped.        *)
InverseIsRight ==
  stage = "inverted" => [row \in Rows |-> Combination(inv[row], Given)] = Identity(Len(mat))

(* Inversion fails only when the repairs do not determine the sources.     *)
FailsOnlyIfSingular == stage = "failed" => Singular(Given)

(* The outcomes are those that DecoderObject allows from the pattern of    *)
(* the matrix: an inverse needs a choice of a distinct missing source for  *)
(* each repair, and exactly one such choice excludes a failure.            *)
Problem == [m_repairs |-> repairs, m_missing_sources |-> [m \in missing |-> {}]]

OutcomeAllowed ==
  /\ stage = "inverted" => Invertible(Problem, TRUE)
  /\ stage = "failed"   => ~Invertible(Problem, FALSE)

(* A failure on two sources is not final: once the last repair has been    *)
(* given up (decoder.cc:450-467), some other repair of both solves them    *)
(* with the one kept, unless their identifiers are equal modulo 15, the    *)
(* number of different coefficients: then no repair does before products   *)
(* of identifiers wrap around (galois_field.hh:156; the code's do from     *)
(* identifiers near 2^16 on).                                              *)
Kept == DOMAIN repairs \ {Max(DOMAIN repairs)}

SolvesWithKept(r) == ~Singular(CoefficientMatrix([q \in Kept \cup {r} |-> missing], missing))

NoWrap(r) == \A s \in missing, q \in Kept \cup {r} : IdProduct(q, s) < 2 ^ IdWidth

FailureNotFinal ==
  (stage = "failed" /\ Len(mat) = 2 /\ FullRepairs) =>
    IF \E a, b \in missing : a % 15 # b % 15
    THEN \E r \in (0 .. 15) \ DOMAIN repairs : SolvesWithKept(r)
    ELSE \A r \in (0 .. 15) \ DOMAIN repairs : NoWrap(r) => ~SolvesWithKept(r)

(* The repairs as the decoder stores them: encoded with a source that it   *)
(* knows, which it has removed.                                            *)
KnownSourceId == CHOOSE s \in SourceId \ Missing : TRUE

StoredRepair(r) ==
  RemoveAll(EncodeRepair(r, repairs[r] \cup {KnownSourceId}, 5), {KnownSourceId})

(* The bytes rebuilt with a row of the inverse.                            *)
Rebuilt(row) ==
  LET rs == SetToSortSeq(DOMAIN repairs, <)
  IN  Combine([k \in Rows |-> StoredRepair(rs[k])], inv[row])

MissingAt(row) == SetToSortSeq(missing, <)[row]

(* What is rebuilt with an inverse is what the encoder was given, size and *)
(* bytes, although the repairs are as long as the longest source they were *)
(* made of and none of them needs to be as long as the one rebuilt         *)
(* (decoder.cc:516-534).                                                   *)
RebuildsAll ==
  stage = "inverted" => \A row \in Rows : Rebuilt(row) = Source(MissingAt(row))

(* And so is the only source left in a repair (decoder.cc:156-178), once   *)
(* all the others have been taken out of it.                               *)
RebuildsLast ==
  (stage = "down" /\ i = 1) =>
    \A r \in DOMAIN repairs : \A s \in repairs[r] :
      CreateSource(RemoveAll(StoredRepair(r), repairs[r] \ {s}), s) = Source(s)

(* "First, decode the size of the source" (decoder.cc:484): the size       *)
(* decoded is the one encoded, as test_reconstruction.cc:48-50 and 251-267 *)
(* require of small sources in every field of the library.                 *)
SizesRebuilt ==
  (stage = "inverted" /\ FullRepairs) => \A row \in Rows : Len(Rebuilt(row)) = Size(MissingAt(row))
=============================================================================
