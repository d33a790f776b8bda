-------------------------- MODULE SourceListProofs --------------------------
(***************************************************************************)
(* Proofs, for any widths of the fields and any identifiers, that a list   *)
(* of identifiers is read back as IdCodec says, and that the loop of erase *)
(* implements the set difference that the encoder expects of its window.   *)
(***************************************************************************)
EXTENDS SourceList, SetLemmas, SequenceTheorems

-----------------------------------------------------------------------------
(***************************************************************************)
(* Folds.  A fold is what a function on the sets of positions gives; that  *)
(* such a function exists is an induction on the length of the sequence.   *)
(***************************************************************************)

(* One step of a fold, g, as a function; the values on every set of the    *)
(* first n positions, the last of them first.                              *)
Iterates(n, b, g, it) ==
  \A s \in SUBSET (1 .. n) :
    it[s] = IF s = {} THEN b ELSE g[<<it[s \ {Max(s)}], Max(s)>>]

LEMMA LastOfPositions ==
  ASSUME NEW n \in Nat, NEW s \in SUBSET (1 .. n), s # {}
  PROVE  Max(s) \in s /\ \A m \in s : m <= Max(s)
<1>1. s \in SUBSET (0 .. n)
  OBVIOUS
<1>2. QED
  BY <1>1, MaxIs

LEMMA LastAdded ==
  ASSUME NEW n \in Nat, NEW s \in SUBSET (1 .. (n + 1)), n + 1 \in s
  PROVE  Max(s) = n + 1 /\ s \ {Max(s)} \in SUBSET (1 .. n)
<1>1. Max(s) \in s /\ \A m \in s : m <= Max(s)
  <2>1. n + 1 \in Nat /\ s # {}
    OBVIOUS
  <2>2. QED
    BY <2>1, LastOfPositions
<1>2. Max(s) = n + 1
  <2>1. Max(s) \in 1 .. (n + 1) /\ n + 1 <= Max(s)
    BY <1>1
  <2>2. QED
    BY <2>1
<1>3. QED
  BY <1>2

LEMMA IteratesOneMore ==
  ASSUME NEW A, NEW b \in A, NEW n \in Nat, NEW N \in Nat, n + 1 <= N,
         NEW g \in [A \X (1 .. N) -> A],
         NEW it \in [SUBSET (1 .. n) -> A], Iterates(n, b, g, it)
  PROVE  \E e \in [SUBSET (1 .. (n + 1)) -> A] : Iterates(n + 1, b, g, e)
<1> DEFINE
      e == [s \in SUBSET (1 .. (n + 1)) |->
              IF n + 1 \in s THEN g[<<it[s \ {n + 1}], n + 1>>] ELSE it[s]]
<1>1. ASSUME NEW s \in SUBSET (1 .. (n + 1)), n + 1 \in s
      PROVE  /\ e[s] \in A
             /\ e[s] = IF s = {} THEN b ELSE g[<<e[s \ {Max(s)}], Max(s)>>]
  <2>1. Max(s) = n + 1 /\ s \ {n + 1} \in SUBSET (1 .. n)
    BY <1>1, LastAdded
  <2>2. n + 1 \in 1 .. N /\ it[s \ {n + 1}] \in A
    BY <2>1
  <2>3. e[s] = g[<<it[s \ {n + 1}], n + 1>>]
    BY <1>1
  <2>4. e[s \ {n + 1}] = it[s \ {n + 1}]
    BY <2>1
  <2>5. QED
    BY <1>1, <2>1, <2>2, <2>3, <2>4
<1>2. ASSUME NEW s \in SUBSET (1 .. (n + 1)), n + 1 \notin s
      PROVE  /\ e[s] \in A
             /\ e[s] = IF s = {} THEN b ELSE g[<<e[s \ {Max(s)}], Max(s)>>]
  <2>1. s \in SUBSET (1 .. n)
    BY <1>2
  <2>2. e[s] = it[s] /\ e[s] \in A
    BY <1>2, <2>1
  <2>3. e[s \ {Max(s)}] = it[s \ {Max(s)}]
    BY <1>2, <2>1
  <2>4. it[s] = IF s = {} THEN b ELSE g[<<it[s \ {Max(s)}], Max(s)>>]
    BY <2>1 DEF Iterates
  <2>5. QED
    BY <2>2, <2>3, <2>4
<1>3. e \in [SUBSET (1 .. (n + 1)) -> A]
  <2>1. \A s \in SUBSET (1 .. (n + 1)) : e[s] \in A
    BY <1>1, <1>2
  <2>2. QED
    BY <2>1
<1> HIDE DEF e
<1>4. Iterates(n + 1, b, g, e)
  BY <1>1, <1>2 DEF Iterates
<1>5. QED
  BY <1>3, <1>4

LEMMA IteratesExists ==
  ASSUME NEW A, NEW b \in A, NEW n \in Nat, NEW g \in [A \X (1 .. n) -> A]
  PROVE  \E it \in [SUBSET (1 .. n) -> A] : Iterates(n, b, g, it)
<1> DEFINE T == {k \in 0 .. n : \E it \in [SUBSET (1 .. k) -> A] : Iterates(k, b, g, it)}
<1>1. 0 \in T
  <2> DEFINE it == [s \in SUBSET (1 .. 0) |-> b]
  <2>1. it \in [SUBSET (1 .. 0) -> A]
    OBVIOUS
  <2>2. Iterates(0, b, g, it)
    BY DEF Iterates
  <2>3. QED
    BY <2>1, <2>2
<1>2. ASSUME NEW k \in 0 .. (n - 1), k \in T
      PROVE  k + 1 \in T
  <2>1. PICK it \in [SUBSET (1 .. k) -> A] : Iterates(k, b, g, it)
    BY <1>2
  <2>2. \E e \in [SUBSET (1 .. (k + 1)) -> A] : Iterates(k + 1, b, g, e)
    <3>1. k \in Nat /\ k + 1 <= n
      OBVIOUS
    <3>2. QED
      BY <2>1, <3>1, IteratesOneMore
  <2>3. k + 1 \in 0 .. n
    OBVIOUS
  <2>4. QED
    BY <2>2, <2>3
<1>3. n \in T
  <2> HIDE DEF T
  <2>1. QED
    BY <1>1, <1>2, UpTo
<1>4. QED
  BY <1>3

LEMMA LastOfPrefix ==
  ASSUME NEW n \in Nat, NEW k \in 1 .. n
  PROVE  /\ 1 .. k \in SUBSET (1 .. n) /\ 1 .. k # {}
         /\ Max(1 .. k) = k /\ (1 .. k) \ {k} = 1 .. (k - 1)
<1>1. 1 .. k \in SUBSET (1 .. n) /\ 1 .. k # {} /\ k \in 1 .. k
  OBVIOUS
<1>2. Max(1 .. k) \in 1 .. k /\ \A m \in 1 .. k : m <= Max(1 .. k)
  BY <1>1, LastOfPositions
<1>3. Max(1 .. k) = k
  BY <1>1, <1>2
<1>4. (1 .. k) \ {k} = 1 .. (k - 1)
  OBVIOUS
<1>5. QED
  BY <1>1, <1>3, <1>4

-----------------------------------------------------------------------------
(***************************************************************************)
(* read_ids: a fold over the pairs, each of which adds to what was read.   *)
(***************************************************************************)
Pairs == [length : Nat, value : Nat]
Sums  == [last : Nat, ids : SUBSET Nat]

(* What is read after each of the pairs.                                   *)
SumHistory(b, q, h) ==
  /\ h \in [0 .. Len(q) -> Sums]
  /\ h[0] = b
  /\ \A k \in 1 .. Len(q) : h[k] = AddRun(h[k - 1], q[k])

LEMMA ProductIsNat ==
  ASSUME NEW j \in Nat, NEW v \in Nat
  PROVE  j * v \in Nat
OBVIOUS

LEMMA AddRunIsSum ==
  ASSUME NEW sum \in Sums, NEW run \in Pairs
  PROVE  AddRun(sum, run) \in Sums
<1>1. /\ sum.last \in Nat /\ sum.ids \in SUBSET Nat
      /\ run.length \in Nat /\ run.value \in Nat
  BY DEF Sums, Pairs
<1>2. \A j \in Nat : sum.last + j * run.value \in Nat
  BY <1>1, ProductIsNat
<1>3. {sum.last + j * run.value : j \in 1 .. run.length} \in SUBSET Nat
  BY <1>1, <1>2
<1>4. sum.last + run.length * run.value \in Nat
  BY <1>1, <1>2
<1>5. QED
  BY <1>1, <1>3, <1>4 DEF AddRun, Sums

LEMMA SumsFold ==
  ASSUME NEW b \in Sums, NEW q \in Seq(Pairs)
  PROVE  \E h : SumHistory(b, q, h) /\ FoldLeft(AddRun, b, q) = h[Len(q)]
<1> DEFINE
      n    == Len(q)
      g    == [p \in Sums \X (1 .. n) |-> AddRun(p[1], q[p[2]])]
      it   == CHOOSE i : i = [s \in SUBSET DOMAIN q |->
                               IF s = {} THEN b ELSE AddRun(i[s \ {Max(s)}], q[Max(s)])]
      h    == [k \in 0 .. n |-> it[1 .. k]]
<1>1. n \in Nat /\ DOMAIN q = 1 .. n /\ \A k \in 1 .. n : q[k] \in Pairs
  BY LenProperties, ElementOfSeq
<1>2. g \in [Sums \X (1 .. n) -> Sums]
  BY <1>1, AddRunIsSum
<1> HIDE DEF n
<1>3. \E i : i = [s \in SUBSET DOMAIN q |->
                   IF s = {} THEN b ELSE AddRun(i[s \ {Max(s)}], q[Max(s)])]
  <2> HIDE DEF g
  <2>1. PICK i \in [SUBSET (1 .. n) -> Sums] : Iterates(n, b, g, i)
    BY <1>1, <1>2, IteratesExists
  <2>2. ASSUME NEW s \in SUBSET (1 .. n)
        PROVE  i[s] = IF s = {} THEN b ELSE AddRun(i[s \ {Max(s)}], q[Max(s)])
    <3>1. CASE s = {}
      BY <2>1, <3>1 DEF Iterates
    <3>2. CASE s # {}
      <4>1. Max(s) \in 1 .. n
        BY <1>1, <3>2, LastOfPositions
      <4>2. <<i[s \ {Max(s)}], Max(s)>> \in Sums \X (1 .. n)
        BY <4>1, <2>1
      <4>3. i[s] = g[<<i[s \ {Max(s)}], Max(s)>>]
        BY <2>1, <3>2 DEF Iterates
      <4>4. QED
        BY <3>2, <4>2, <4>3 DEF g
    <3>3. QED
      BY <3>1, <3>2
  <2>3. QED
    BY <1>1, <2>1, <2>2
<1>4. it = [s \in SUBSET (1 .. n) |->
             IF s = {} THEN b ELSE AddRun(it[s \ {Max(s)}], q[Max(s)])]
  BY <1>1, <1>3
<1>5. FoldLeft(AddRun, b, q) = it[1 .. n]
  BY <1>1 DEF FoldLeft, MapThenFoldSet
<1> HIDE DEF it
<1>6. h[0] = b /\ \A k \in 1 .. n : h[k] = AddRun(h[k - 1], q[k])
  <2>1. it[1 .. 0] = b
    <3>1. 1 .. 0 = {} /\ {} \in SUBSET (1 .. n)
      OBVIOUS
    <3>2. it[{}] = b
      BY <1>4, <3>1
    <3>3. QED
      BY <3>1, <3>2
  <2>2. ASSUME NEW k \in 1 .. n
        PROVE  it[1 .. k] = AddRun(it[1 .. (k - 1)], q[k])
    <3>1. /\ 1 .. k \in SUBSET (1 .. n) /\ 1 .. k # {}
          /\ Max(1 .. k) = k /\ (1 .. k) \ {k} = 1 .. (k - 1)
      BY <1>1, LastOfPrefix
    <3>2. it[1 .. k] = AddRun(it[(1 .. k) \ {Max(1 .. k)}], q[Max(1 .. k)])
      BY <1>4, <3>1
    <3>3. QED
      BY <3>1, <3>2
  <2>3. QED
    BY <1>1, <2>1, <2>2
<1> HIDE DEF g, h
<1>7. h \in [0 .. n -> Sums]
  <2> DEFINE T == {k \in 0 .. n : h[k] \in Sums}
  <2>1. 0 \in T
    BY <1>1, <1>6
  <2>2. ASSUME NEW k \in 0 .. (n - 1), k \in T
        PROVE  k + 1 \in T
    <3>1. k + 1 \in 1 .. n /\ (k + 1) - 1 = k
      BY <1>1
    <3>2. h[k + 1] = AddRun(h[k], q[k + 1])
      BY <3>1, <1>6
    <3>3. QED
      BY <1>1, <2>2, <3>1, <3>2, AddRunIsSum
  <2>3. \A k \in 0 .. n : k \in T
    <3> HIDE DEF T
    <3>1. QED
      BY <1>1, <2>1, <2>2, UpTo
  <2>4. QED
    BY <2>3 DEF h
<1>8. SumHistory(b, q, h)
  BY <1>6, <1>7 DEF SumHistory, n
<1>9. FoldLeft(AddRun, b, q) = h[Len(q)]
  BY <1>1, <1>5 DEF h, n
<1>10. QED
  BY <1>8, <1>9

(* There is one history, so any of them tells what the fold returns.       *)
LEMMA SumsAre ==
  ASSUME NEW b \in Sums, NEW q \in Seq(Pairs), NEW h, SumHistory(b, q, h)
  PROVE  FoldLeft(AddRun, b, q) = h[Len(q)]
<1>1. PICK e : SumHistory(b, q, e) /\ FoldLeft(AddRun, b, q) = e[Len(q)]
  BY SumsFold
<1> DEFINE T == {k \in 0 .. Len(q) : e[k] = h[k]}
<1>2. Len(q) \in Nat
  BY LenProperties
<1>3. 0 \in T
  BY <1>1, <1>2 DEF SumHistory
<1>4. ASSUME NEW k \in 0 .. (Len(q) - 1), k \in T
      PROVE  k + 1 \in T
  <2>1. k + 1 \in 1 .. Len(q) /\ (k + 1) - 1 = k
    BY <1>2
  <2>2. e[k + 1] = AddRun(e[k], q[k + 1]) /\ h[k + 1] = AddRun(h[k], q[k + 1])
    BY <1>1, <2>1 DEF SumHistory
  <2>3. QED
    BY <1>2, <1>4, <2>1, <2>2
<1>5. Len(q) \in T
  <2> HIDE DEF T
  <2>1. \A k \in 0 .. Len(q) : k \in T
    BY <1>2, <1>3, <1>4, UpTo
  <2>2. QED
    BY <1>2, <2>1
<1>6. QED
  BY <1>1, <1>5

(* What is read of no pair, and of one pair more.                          *)
LEMMA SumsOfNone ==
  ASSUME NEW b \in Sums
  PROVE  FoldLeft(AddRun, b, <<>>) = b
<1>1. <<>> \in Seq(Pairs) /\ Len(<<>>) = 0
  BY EmptySeq
<1>2. PICK h : SumHistory(b, <<>>, h) /\ FoldLeft(AddRun, b, <<>>) = h[Len(<<>>)]
  BY <1>1, SumsFold
<1>3. QED
  BY <1>1, <1>2 DEF SumHistory

LEMMA SumsOfOneMore ==
  ASSUME NEW b \in Sums, NEW q \in Seq(Pairs), NEW run \in Pairs
  PROVE  /\ FoldLeft(AddRun, b, q) \in Sums
         /\ FoldLeft(AddRun, b, Append(q, run)) = AddRun(FoldLeft(AddRun, b, q), run)
<1> DEFINE
      n == Len(q)
      p == Append(q, run)
<1>1. /\ n \in Nat
      /\ p \in Seq(Pairs)
      /\ Len(p) = n + 1
      /\ \A k \in 1 .. n : p[k] = q[k]
      /\ p[n + 1] = run
  BY LenProperties, AppendProperties
<1> HIDE DEF p
<1>2. PICK h : SumHistory(b, p, h) /\ FoldLeft(AddRun, b, p) = h[n + 1]
  BY <1>1, SumsFold
<1> DEFINE e == [k \in 0 .. n |-> h[k]]
<1>3. SumHistory(b, q, e)
  <2>1. e \in [0 .. n -> Sums] /\ e[0] = b
    BY <1>1, <1>2 DEF SumHistory
  <2>2. ASSUME NEW k \in 1 .. n
        PROVE  e[k] = AddRun(e[k - 1], q[k])
    <3>1. k \in 1 .. (n + 1) /\ k \in 0 .. n /\ k - 1 \in 0 .. n
      BY <1>1
    <3>2. h[k] = AddRun(h[k - 1], p[k])
      BY <1>1, <1>2, <3>1 DEF SumHistory
    <3>3. QED
      BY <1>1, <3>1, <3>2
  <2>3. QED
    BY <2>1, <2>2 DEF SumHistory
<1>4. e[n] = h[n] /\ e[n] \in Sums
  BY <1>1, <1>3 DEF SumHistory
<1> HIDE DEF e
<1>5. FoldLeft(AddRun, b, q) = h[n]
  BY <1>3, <1>4, SumsAre
<1>6. h[n + 1] = AddRun(h[n], run)
  <2>1. n + 1 \in 1 .. (n + 1) /\ (n + 1) - 1 = n
    BY <1>1
  <2>2. QED
    BY <1>1, <1>2, <2>1 DEF SumHistory
<1>7. QED
  BY <1>2, <1>4, <1>5, <1>6 DEF p

-----------------------------------------------------------------------------
(***************************************************************************)
(* write: a fold over the differences, into runs of equal ones.            *)
(***************************************************************************)
RunsWritten == [length : 1 .. (2 ^ RunWidth - 1), value : Nat]

(* The runs after each of the differences.                                 *)
RunHistory(d, h) ==
  /\ h \in [0 .. Len(d) -> Seq(RunsWritten)]
  /\ h[0] = <<>>
  /\ \A k \in 1 .. Len(d) : h[k] = AddToRuns(h[k - 1], d[k])

(* A run stays within its field.                                           *)
LEMMA RunFits ==
  ASSUME NEW runs \in Seq(RunsWritten), NEW diff \in Nat,
         runs # <<>>, Extends(Last(runs), diff)
  PROVE  [Last(runs) EXCEPT !.length = @ + 1] \in RunsWritten
<1> DEFINE run == Last(runs)
<1>1. run \in RunsWritten
  <2>1. Len(runs) \in 1 .. Len(runs)
    BY LenProperties, EmptySeq
  <2>2. QED
    BY <2>1, ElementOfSeq DEF Last
<1>2. run.length < 2 ^ RunWidth - 1
  BY DEF Extends
<1> HIDE DEF run
<1>3. [run EXCEPT !.length = @ + 1] \in RunsWritten
  <2>1. run.length + 1 \in 1 .. (2 ^ RunWidth - 1)
    BY <1>1, <1>2, CodecAssumption DEF RunsWritten
  <2>2. QED
    BY <1>1, <2>1 DEF RunsWritten
<1>4. QED
  BY <1>3 DEF run

LEMMA LongerIs ==
  ASSUME NEW run \in RunsWritten
  PROVE  [run EXCEPT !.length = @ + 1] = [length |-> run.length + 1, value |-> run.value]
BY DEF RunsWritten

LEMMA AddToRunsWritten ==
  ASSUME NEW runs \in Seq(RunsWritten), NEW diff \in Nat
  PROVE  AddToRuns(runs, diff) \in Seq(RunsWritten)
<1>1. CASE runs # <<>> /\ Extends(Last(runs), diff)
  <2>1. Len(runs) \in 1 .. Len(runs)
    BY <1>1, LenProperties, EmptySeq
  <2>2. AddToRuns(runs, diff)
          = [runs EXCEPT ![Len(runs)] = [Last(runs) EXCEPT !.length = @ + 1]]
    BY <1>1 DEF AddToRuns, Last
  <2>3. QED
    BY <1>1, <2>1, <2>2, RunFits, ExceptSeq
<1>2. CASE ~(runs # <<>> /\ Extends(Last(runs), diff))
  <2>1. [length |-> 1, value |-> diff] \in RunsWritten
    BY CodecAssumption DEF RunsWritten
  <2>2. QED
    BY <1>2, <2>1, AppendProperties DEF AddToRuns
<1>3. QED
  BY <1>1, <1>2

LEMMA RunsFold ==
  ASSUME NEW d \in Seq(Nat)
  PROVE  \E h : RunHistory(d, h) /\ FoldLeft(AddToRuns, <<>>, d) = h[Len(d)]
<1> DEFINE
      n    == Len(d)
      g    == [p \in Seq(RunsWritten) \X (1 .. n) |-> AddToRuns(p[1], d[p[2]])]
      it   == CHOOSE i : i = [s \in SUBSET DOMAIN d |->
                               IF s = {} THEN <<>> ELSE AddToRuns(i[s \ {Max(s)}], d[Max(s)])]
      h    == [k \in 0 .. n |-> it[1 .. k]]
<1>1. n \in Nat /\ DOMAIN d = 1 .. n /\ \A k \in 1 .. n : d[k] \in Nat
  BY LenProperties, ElementOfSeq
<1>0. <<>> \in Seq(RunsWritten)
  BY EmptySeq
<1>2. g \in [Seq(RunsWritten) \X (1 .. n) -> Seq(RunsWritten)]
  BY <1>1, AddToRunsWritten
<1> HIDE DEF n
<1>3. \E i : i = [s \in SUBSET DOMAIN d |->
                   IF s = {} THEN <<>> ELSE AddToRuns(i[s \ {Max(s)}], d[Max(s)])]
  <2> HIDE DEF g
  <2>1. PICK i \in [SUBSET (1 .. n) -> Seq(RunsWritten)] : Iterates(n, <<>>, g, i)
    BY <1>0, <1>1, <1>2, IteratesExists
  <2>2. ASSUME NEW s \in SUBSET (1 .. n)
        PROVE  i[s] = IF s = {} THEN <<>> ELSE AddToRuns(i[s \ {Max(s)}], d[Max(s)])
    <3>1. CASE s = {}
      BY <2>1, <3>1 DEF Iterates
    <3>2. CASE s # {}
      <4>1. Max(s) \in 1 .. n
        BY <1>1, <3>2, LastOfPositions
      <4>2. <<i[s \ {Max(s)}], Max(s)>> \in Seq(RunsWritten) \X (1 .. n)
        BY <4>1, <2>1
      <4>3. i[s] = g[<<i[s \ {Max(s)}], Max(s)>>]
        BY <2>1, <3>2 DEF Iterates
      <4>4. QED
        BY <3>2, <4>2, <4>3 DEF g
    <3>3. QED
      BY <3>1, <3>2
  <2>3. QED
    BY <1>1, <2>1, <2>2
<1>4. it = [s \in SUBSET (1 .. n) |->
             IF s = {} THEN <<>> ELSE AddToRuns(it[s \ {Max(s)}], d[Max(s)])]
  BY <1>1, <1>3
<1>5. FoldLeft(AddToRuns, <<>>, d) = it[1 .. n]
  BY <1>1 DEF FoldLeft, MapThenFoldSet
<1> HIDE DEF it
<1>6. h[0] = <<>> /\ \A k \in 1 .. n : h[k] = AddToRuns(h[k - 1], d[k])
  <2>1. it[1 .. 0] = <<>>
    <3>1. 1 .. 0 = {} /\ {} \in SUBSET (1 .. n)
      OBVIOUS
    <3>2. it[{}] = <<>>
      BY <1>4, <3>1
    <3>3. QED
      BY <3>1, <3>2
  <2>2. ASSUME NEW k \in 1 .. n
        PROVE  it[1 .. k] = AddToRuns(it[1 .. (k - 1)], d[k])
    <3>1. /\ 1 .. k \in SUBSET (1 .. n) /\ 1 .. k # {}
          /\ Max(1 .. k) = k /\ (1 .. k) \ {k} = 1 .. (k - 1)
      BY <1>1, LastOfPrefix
    <3>2. it[1 .. k] = AddToRuns(it[(1 .. k) \ {Max(1 .. k)}], d[Max(1 .. k)])
      BY <1>4, <3>1
    <3>3. QED
      BY <3>1, <3>2
  <2>3. QED
    BY <1>1, <2>1, <2>2
<1> HIDE DEF g, h
<1>7. h \in [0 .. n -> Seq(RunsWritten)]
  <2> DEFINE T == {k \in 0 .. n : h[k] \in Seq(RunsWritten)}
  <2>1. 0 \in T
    <3>1. h[0] = <<>> /\ 0 \in 0 .. n
      BY <1>1, <1>6
    <3>2. h[0] \in Seq(RunsWritten)
      BY <1>0, <3>1
    <3>3. QED
      BY <3>1, <3>2
  <2>2. ASSUME NEW k \in 0 .. (n - 1), k \in T
        PROVE  k + 1 \in T
    <3>1. k + 1 \in 1 .. n /\ (k + 1) - 1 = k
      BY <1>1
    <3>2. h[k + 1] = AddToRuns(h[k], d[k + 1])
      BY <3>1, <1>6
    <3>3. h[k] \in Seq(RunsWritten) /\ d[k + 1] \in Nat
      BY <1>1, <2>2, <3>1
    <3>4. h[k + 1] \in Seq(RunsWritten)
      BY <3>2, <3>3, AddToRunsWritten
    <3>5. QED
      BY <3>1, <3>4
  <2>3. \A k \in 0 .. n : k \in T
    <3> HIDE DEF T
    <3>1. QED
      BY <1>1, <2>1, <2>2, UpTo
  <2>4. QED
    BY <2>3 DEF h
<1>8. RunHistory(d, h)
  BY <1>6, <1>7 DEF RunHistory, n
<1>9. FoldLeft(AddToRuns, <<>>, d) = h[Len(d)]
  BY <1>1, <1>5 DEF h, n
<1>10. QED
  BY <1>8, <1>9

-----------------------------------------------------------------------------
(***************************************************************************)
(* Reading the runs gives the identifiers that they were made of.          *)
(***************************************************************************)
From(first)          == [last |-> first, ids |-> {first}]
Decoded(first, runs) == FoldLeft(AddRun, From(first), runs)
OneMore(sum, diff)   == [last |-> sum.last + diff, ids |-> sum.ids \cup {sum.last + diff}]

LEMMA FromIsSum ==
  ASSUME NEW first \in Nat
  PROVE  From(first) \in Sums
BY DEF From, Sums

LEMMA WrittenIsRead ==
  /\ RunsWritten \subseteq Pairs
  /\ \A runs \in Seq(RunsWritten) : runs \in Seq(Pairs)
<1>1. RunsWritten \subseteq Pairs
  <2>1. 1 .. (2 ^ RunWidth - 1) \subseteq Nat
    BY CodecAssumption
  <2>2. QED
    BY <2>1 DEF RunsWritten, Pairs
<1>2. ASSUME NEW runs \in Seq(RunsWritten)
      PROVE  runs \in Seq(Pairs)
  BY <1>1, SeqMonotonic, Zenon
<1>3. QED
  BY <1>1, <1>2

(* A run of one more difference, and a new run.                            *)
LEMMA LongerRunIs ==
  ASSUME NEW sum \in Sums, NEW run \in Pairs
  PROVE  AddRun(sum, [length |-> run.length + 1, value |-> run.value])
           = OneMore(AddRun(sum, run), run.value)
<1> DEFINE
      n == run.length
      v == run.value
      b == sum.last
      old == {b + j * v : j \in 1 .. n}
      all == {b + j * v : j \in 1 .. (n + 1)}
<1>1. n \in Nat /\ v \in Nat /\ b \in Nat /\ sum.ids \in SUBSET Nat
  BY DEF Sums, Pairs
<1> HIDE DEF n, v, b
<1>2. b + (n + 1) * v = (b + n * v) + v
  BY <1>1
<1>3. all = old \cup {(b + n * v) + v}
  <2>1. 1 .. (n + 1) = (1 .. n) \cup {n + 1}
    BY <1>1
  <2>2. all = old \cup {b + (n + 1) * v}
    BY <2>1
  <2>3. QED
    BY <1>2, <2>2
<1> HIDE DEF old, all
<1>4. AddRun(sum, run) = [last |-> b + n * v, ids |-> sum.ids \cup old]
  BY DEF AddRun, old, b, n, v
<1>5. AddRun(sum, [length |-> run.length + 1, value |-> run.value])
        = [last |-> b + (n + 1) * v, ids |-> sum.ids \cup all]
  BY DEF AddRun, all, b, n, v
<1>6. OneMore(AddRun(sum, run), v)
        = [last |-> (b + n * v) + v, ids |-> (sum.ids \cup old) \cup {(b + n * v) + v}]
  BY <1>4 DEF OneMore
<1>7. QED
  BY <1>2, <1>3, <1>5, <1>6 DEF v

LEMMA NewRunIs ==
  ASSUME NEW sum \in Sums, NEW diff \in Nat
  PROVE  AddRun(sum, [length |-> 1, value |-> diff]) = OneMore(sum, diff)
<1>1. sum.last \in Nat
  BY DEF Sums
<1>2. {sum.last + j * diff : j \in 1 .. 1} = {sum.last + diff}
  <2>1. 1 .. 1 = {1} /\ 1 * diff = diff
    OBVIOUS
  <2>2. QED
    BY <2>1
<1>3. AddRun(sum, [length |-> 1, value |-> diff])
        = [last |-> sum.last + 1 * diff,
           ids  |-> sum.ids \cup {sum.last + j * diff : j \in 1 .. 1}]
  BY DEF AddRun
<1>4. sum.last + 1 * diff = sum.last + diff
  BY <1>1
<1>5. QED
  BY <1>2, <1>3, <1>4 DEF OneMore

LEMMA ReadsOneMore ==
  ASSUME NEW first \in Nat, NEW runs \in Seq(RunsWritten), NEW diff \in Nat
  PROVE  Decoded(first, AddToRuns(runs, diff)) = OneMore(Decoded(first, runs), diff)
<1>1. From(first) \in Sums
  BY FromIsSum
<1>2. CASE runs # <<>> /\ Extends(Last(runs), diff)
  <2>1. PICK front \in Seq(RunsWritten), run \in RunsWritten : runs = Append(front, run)
    BY <1>2, SequenceEmptyOrAppend
  <2> DEFINE longer == [length |-> run.length + 1, value |-> run.value]
  <2>2. Len(runs) = Len(front) + 1 /\ Last(runs) = run /\ Len(front) \in Nat
    <3>1. Len(runs) = Len(front) + 1 /\ runs[Len(front) + 1] = run
      BY <2>1, AppendProperties
    <3>2. QED
      BY <3>1, LenProperties DEF Last
  <2>3. run.value = diff /\ longer \in RunsWritten
    <3>1. run.value = diff
      BY <1>2, <2>2 DEF Extends
    <3>2. [run EXCEPT !.length = @ + 1] \in RunsWritten
      BY <1>2, <2>2, RunFits
    <3>3. [run EXCEPT !.length = @ + 1] = longer
      BY LongerIs
    <3>4. longer \in RunsWritten
      BY <3>2, <3>3, Zenon
    <3>5. QED
      BY <3>1, <3>4
  <2>4. AddToRuns(runs, diff) = Append(front, longer)
    <3>1. AddToRuns(runs, diff) = [runs EXCEPT ![Len(runs)] = longer]
      <4>1. AddToRuns(runs, diff)
              = [runs EXCEPT ![Len(runs)] = [runs[Len(runs)] EXCEPT !.length = @ + 1]]
        BY <1>2 DEF AddToRuns
      <4>2. runs[Len(runs)] = run
        BY <2>2 DEF Last
      <4>3. [run EXCEPT !.length = @ + 1] = longer
        BY LongerIs
      <4>4. QED
        BY <4>1, <4>2, <4>3, Zenon
    <3>2. Len(runs) \in 1 .. Len(runs)
      BY <2>2
    <3> HIDE DEF longer
    <3>3. /\ AddToRuns(runs, diff) \in Seq(RunsWritten)
          /\ Len(AddToRuns(runs, diff)) = Len(runs)
          /\ \A j \in 1 .. Len(runs) :
               AddToRuns(runs, diff)[j] = IF j = Len(runs) THEN longer ELSE runs[j]
      BY <2>3, <3>1, <3>2, ExceptSeq
    <3>4. /\ Append(front, longer) \in Seq(RunsWritten)
          /\ Len(Append(front, longer)) = Len(front) + 1
          /\ \A j \in 1 .. Len(front) : Append(front, longer)[j] = front[j]
          /\ Append(front, longer)[Len(front) + 1] = longer
      BY <2>3, AppendProperties
    <3>5. \A j \in 1 .. Len(front) : runs[j] = front[j]
      BY <2>1, AppendProperties
    <3>6. \A j \in 1 .. Len(runs) : AddToRuns(runs, diff)[j] = Append(front, longer)[j]
      BY <2>2, <3>3, <3>4, <3>5
    <3>7. QED
      BY <2>2, <3>3, <3>4, <3>6, SeqEqual
  <2>5. Decoded(first, Append(front, longer)) = AddRun(Decoded(first, front), longer)
    <3> HIDE DEF longer
    <3>1. QED
      BY <1>1, <2>3, WrittenIsRead, SumsOfOneMore DEF Decoded
  <2>6. /\ Decoded(first, front) \in Sums
        /\ Decoded(first, runs) = AddRun(Decoded(first, front), run)
    BY <1>1, <2>1, WrittenIsRead, SumsOfOneMore DEF Decoded
  <2>7. AddRun(Decoded(first, front), longer) = OneMore(AddRun(Decoded(first, front), run), run.value)
    BY <2>6, WrittenIsRead, LongerRunIs
  <2>8. QED
    BY <2>3, <2>4, <2>5, <2>6, <2>7
<1>3. CASE ~(runs # <<>> /\ Extends(Last(runs), diff))
  <2> DEFINE run == [length |-> 1, value |-> diff]
  <2>1. run \in RunsWritten
    BY CodecAssumption DEF RunsWritten
  <2>2. AddToRuns(runs, diff) = Append(runs, run)
    BY <1>3 DEF AddToRuns
  <2>3. Decoded(first, runs) \in Sums
    BY <1>1, WrittenIsRead, SumsOfOneMore, <2>1 DEF Decoded
  <2>4. AddRun(Decoded(first, runs), run) = OneMore(Decoded(first, runs), diff)
    BY <2>3, NewRunIs
  <2> HIDE DEF run
  <2>5. Decoded(first, Append(runs, run)) = AddRun(Decoded(first, runs), run)
    BY <1>1, <2>1, WrittenIsRead, SumsOfOneMore DEF Decoded
  <2>6. QED
    BY <2>2, <2>4, <2>5
<1>4. QED
  BY <1>2, <1>3

-----------------------------------------------------------------------------
(***************************************************************************)
(* A whole list.                                                           *)
(***************************************************************************)
Lists == {seq \in Seq(Nat) : /\ seq # <<>>
                              /\ \A i, j \in 1 .. Len(seq) : i < j => seq[i] < seq[j]}

FirstOnes(seq, k) == {seq[i] : i \in 1 .. k}

LEMMA ListIs ==
  ASSUME NEW seq \in Lists
  PROVE  /\ seq \in Seq(Nat)
         /\ Len(seq) \in Nat \ {0}
         /\ \A i \in 1 .. Len(seq) : seq[i] \in Nat
         /\ \A i, j \in 1 .. Len(seq) : i < j => seq[i] < seq[j]
<1>1. seq \in Seq(Nat) /\ seq # <<>>
  BY DEF Lists
<1>2. Len(seq) \in Nat \ {0}
  BY <1>1, LenProperties, EmptySeq
<1>3. \A i \in 1 .. Len(seq) : seq[i] \in Nat
  BY <1>1, ElementOfSeq
<1>4. QED
  BY <1>1, <1>2, <1>3 DEF Lists

LEMMA DifferencesAre ==
  ASSUME NEW seq \in Lists
  PROVE  /\ Differences(seq) \in Seq(Nat)
         /\ Len(Differences(seq)) = Len(seq) - 1
         /\ \A k \in 1 .. (Len(seq) - 1) : Differences(seq)[k] = seq[k + 1] - seq[k]
<1> DEFINE n == Len(seq) - 1
           d == Differences(seq)
<1>1. n \in Nat
  BY ListIs
<1>2. \A k \in 1 .. n : seq[k + 1] - seq[k] \in Nat
  <2>1. TAKE k \in 1 .. n
  <2>2. /\ k \in 1 .. Len(seq) /\ k + 1 \in 1 .. Len(seq) /\ k < k + 1
    BY ListIs
  <2>3. seq[k] \in Nat /\ seq[k + 1] \in Nat /\ seq[k] < seq[k + 1]
    BY <2>2, ListIs
  <2>4. QED
    BY <2>3
<1>3. d = [k \in 1 .. n |-> seq[k + 1] - seq[k]]
  BY DEF Differences
<1> HIDE DEF n, d
<1>4. d \in [1 .. n -> Nat]
  BY <1>2, <1>3
<1>5. d \in Seq(Nat)
  BY <1>1, <1>4, SeqDef
<1>6. Len(d) = n
  <2>1. DOMAIN d = 1 .. n /\ DOMAIN d = 1 .. Len(d) /\ Len(d) \in Nat
    BY <1>4, <1>5, LenProperties
  <2>2. QED
    BY <1>1, <2>1
<1>7. QED
  BY <1>3, <1>5, <1>6 DEF n, d

(* The runs of a list decode to the list.                                  *)
LEMMA RunsOfList ==
  ASSUME NEW seq \in Lists
  PROVE  /\ Runs(seq) \in Seq(RunsWritten)
         /\ Decoded(seq[1], Runs(seq))
              = [last |-> seq[Len(seq)], ids |-> FirstOnes(seq, Len(seq))]
<1> DEFINE n == Len(seq) - 1
           d == Differences(seq)
<1>1. /\ d \in Seq(Nat) /\ Len(d) = n /\ n \in Nat
      /\ \A k \in 1 .. n : d[k] = seq[k + 1] - seq[k]
      /\ \A k \in 1 .. n : d[k] \in Nat
  <2>1. /\ d \in Seq(Nat) /\ Len(d) = n
        /\ \A k \in 1 .. n : d[k] = seq[k + 1] - seq[k]
    BY DifferencesAre
  <2>2. n \in Nat
    BY ListIs
  <2> HIDE DEF d
  <2>3. \A k \in 1 .. n : d[k] \in Nat
    BY <2>1, ElementOfSeq
  <2>4. QED
    BY <2>1, <2>2, <2>3
<1> HIDE DEF d
<1>2. PICK h : RunHistory(d, h) /\ FoldLeft(AddToRuns, <<>>, d) = h[n]
  BY <1>1, RunsFold
<1>3. \A k \in 0 .. n : h[k] \in Seq(RunsWritten)
  BY <1>1, <1>2 DEF RunHistory
<1> DEFINE
      upTo(k) == [last |-> seq[k + 1], ids |-> FirstOnes(seq, k + 1)]
      T == {k \in 0 .. n : Decoded(seq[1], h[k]) = upTo(k)}
<1>4. seq[1] \in Nat
  BY ListIs
<1>5. 0 \in T
  <2>1. h[0] = <<>> /\ 0 \in 0 .. n
    BY <1>1, <1>2 DEF RunHistory
  <2>2. Decoded(seq[1], <<>>) = From(seq[1])
    BY <1>4, FromIsSum, SumsOfNone DEF Decoded
  <2>3. upTo(0) = From(seq[1])
    <3>1. 1 .. (0 + 1) = {1} /\ 0 + 1 = 1
      OBVIOUS
    <3>2. FirstOnes(seq, 0 + 1) = {seq[1]}
      BY <3>1 DEF FirstOnes
    <3>3. QED
      BY <3>1, <3>2 DEF From
  <2>4. Decoded(seq[1], h[0]) = upTo(0)
    BY <2>1, <2>2, <2>3
  <2>5. QED
    BY <2>1, <2>4
<1>6. ASSUME NEW k \in 0 .. (n - 1), k \in T
      PROVE  k + 1 \in T
  <2>1. k + 1 \in 1 .. n /\ (k + 1) - 1 = k /\ k + 1 \in 0 .. n /\ k \in 0 .. n
    BY <1>1
  <2>2. h[k + 1] = AddToRuns(h[k], d[k + 1])
    BY <1>1, <1>2, <2>1 DEF RunHistory
  <2>3. Decoded(seq[1], h[k + 1]) = OneMore(Decoded(seq[1], h[k]), d[k + 1])
    BY <1>1, <1>3, <1>4, <2>1, <2>2, ReadsOneMore
  <2>4. seq[k + 1] + d[k + 1] = seq[(k + 1) + 1]
    <3>1. d[k + 1] = seq[(k + 1) + 1] - seq[k + 1]
      BY <1>1, <2>1
    <3>2. k + 1 \in 1 .. Len(seq) /\ (k + 1) + 1 \in 1 .. Len(seq)
      BY <2>1, ListIs
    <3>3. seq[k + 1] \in Nat /\ seq[(k + 1) + 1] \in Nat
      BY <3>2, ListIs
    <3>4. QED
      BY <3>1, <3>3
  <2>5. FirstOnes(seq, (k + 1) + 1) = FirstOnes(seq, k + 1) \cup {seq[(k + 1) + 1]}
    <3>1. 1 .. ((k + 1) + 1) = (1 .. (k + 1)) \cup {(k + 1) + 1}
      BY <2>1
    <3>2. QED
      BY <3>1 DEF FirstOnes
  <2>6. OneMore(upTo(k), d[k + 1]) = upTo(k + 1)
    BY <2>4, <2>5 DEF OneMore
  <2>7. Decoded(seq[1], h[k + 1]) = upTo(k + 1)
    BY <1>6, <2>3, <2>6
  <2>8. QED
    BY <2>1, <2>7
<1>7. n \in T
  <2> HIDE DEF T
  <2>1. \A k \in 0 .. n : k \in T
    BY <1>1, <1>5, <1>6, UpTo
  <2>2. QED
    BY <1>1, <2>1
<1>8. Runs(seq) = h[n]
  BY <1>2 DEF Runs, d
<1>9. n + 1 = Len(seq)
  BY ListIs
<1>10. QED
  BY <1>1, <1>3, <1>7, <1>8, <1>9

(* The values of the runs are differences of the list.                     *)
ValuesBelow(runs, m) == \A i \in 1 .. Len(runs) : runs[i].value < m

LEMMA ValuesStayBelow ==
  ASSUME NEW runs \in Seq(RunsWritten), NEW diff \in Nat, NEW m \in Nat,
         ValuesBelow(runs, m), diff < m
  PROVE  ValuesBelow(AddToRuns(runs, diff), m)
<1>1. CASE runs # <<>> /\ Extends(Last(runs), diff)
  <2> DEFINE run == runs[Len(runs)]
  <2>1. Len(runs) \in 1 .. Len(runs)
    BY <1>1, LenProperties, EmptySeq
  <2>2. run \in RunsWritten /\ run.value < m
    BY <2>1, ElementOfSeq DEF ValuesBelow
  <2> DEFINE longer == [length |-> run.length + 1, value |-> run.value]
  <2> HIDE DEF run
  <2>3. longer \in RunsWritten
    <3>1. [run EXCEPT !.length = @ + 1] \in RunsWritten
      BY <1>1, RunFits DEF Last, run
    <3>2. QED
      BY <2>2, <3>1, LongerIs
  <2>4. AddToRuns(runs, diff) = [runs EXCEPT ![Len(runs)] = longer]
    <3>1. AddToRuns(runs, diff) = [runs EXCEPT ![Len(runs)] = [run EXCEPT !.length = @ + 1]]
      BY <1>1 DEF AddToRuns, run
    <3>2. [run EXCEPT !.length = @ + 1] = longer
      BY <2>2, LongerIs
    <3>3. QED
      BY <3>1, <3>2, Zenon
  <2>5. longer.value < m
    BY <2>2
  <2> HIDE DEF longer
  <2>6. /\ Len(AddToRuns(runs, diff)) = Len(runs)
        /\ \A i \in 1 .. Len(runs) :
             AddToRuns(runs, diff)[i] = IF i = Len(runs) THEN longer ELSE runs[i]
    BY <2>1, <2>3, <2>4, ExceptSeq
  <2>7. QED
    BY <2>5, <2>6 DEF ValuesBelow
<1>2. CASE ~(runs # <<>> /\ Extends(Last(runs), diff))
  <2> DEFINE run == [length |-> 1, value |-> diff]
  <2>1. run \in RunsWritten /\ run.value < m
    BY CodecAssumption DEF RunsWritten
  <2>2. AddToRuns(runs, diff) = Append(runs, run)
    BY <1>2 DEF AddToRuns
  <2> HIDE DEF run
  <2>3. /\ Len(Append(runs, run)) = Len(runs) + 1 /\ Len(runs) \in Nat
        /\ \A i \in 1 .. Len(runs) : Append(runs, run)[i] = runs[i]
        /\ Append(runs, run)[Len(runs) + 1] = run
    BY <2>1, AppendProperties, LenProperties
  <2>4. ASSUME NEW i \in 1 .. (Len(runs) + 1)
        PROVE  Append(runs, run)[i].value < m
    <3>1. CASE i = Len(runs) + 1
      BY <2>1, <2>3, <3>1
    <3>2. CASE i \in 1 .. Len(runs)
      BY <2>3, <3>2 DEF ValuesBelow
    <3>3. QED
      BY <2>3, <3>1, <3>2
  <2>5. QED
    BY <2>2, <2>3, <2>4 DEF ValuesBelow
<1>3. QED
  BY <1>1, <1>2

LEMMA ValuesOfList ==
  ASSUME NEW seq \in Lists, NEW m \in Nat,
         \A k \in 1 .. (Len(seq) - 1) : seq[k + 1] - seq[k] < m
  PROVE  ValuesBelow(Runs(seq), m)
<1> DEFINE n == Len(seq) - 1
           d == Differences(seq)
<1>1. /\ d \in Seq(Nat) /\ Len(d) = n /\ n \in Nat
      /\ \A k \in 1 .. n : d[k] < m
  BY ListIs, DifferencesAre
<1> HIDE DEF d, n
<1>2. \A k \in 1 .. n : d[k] \in Nat
  BY <1>1, ElementOfSeq
<1>3. PICK h : RunHistory(d, h) /\ FoldLeft(AddToRuns, <<>>, d) = h[n]
  BY <1>1, RunsFold
<1> DEFINE T == {k \in 0 .. n : ValuesBelow(h[k], m)}
<1>4. 0 \in T
  <2>1. h[0] = <<>>
    BY <1>3 DEF RunHistory
  <2>2. Len(<<>>) = 0 /\ 0 \in 0 .. n
    BY <1>1, EmptySeq
  <2>3. ValuesBelow(<<>>, m)
    BY <2>2 DEF ValuesBelow
  <2>4. QED
    BY <2>1, <2>2, <2>3
<1>5. ASSUME NEW k \in 0 .. (n - 1), k \in T
      PROVE  k + 1 \in T
  <2>1. k + 1 \in 1 .. n /\ (k + 1) - 1 = k /\ k + 1 \in 0 .. n /\ k \in 0 .. n
    BY <1>1
  <2>2. h[k + 1] = AddToRuns(h[k], d[k + 1]) /\ h[k] \in Seq(RunsWritten)
    BY <1>1, <1>3, <2>1 DEF RunHistory
  <2>3. ValuesBelow(h[k], m) /\ d[k + 1] \in Nat /\ d[k + 1] < m
    BY <1>1, <1>2, <1>5, <2>1
  <2>4. ValuesBelow(h[k + 1], m)
    BY <2>2, <2>3, ValuesStayBelow
  <2>5. QED
    BY <2>1, <2>4
<1>6. n \in T
  <2> HIDE DEF T
  <2>1. \A k \in 0 .. n : k \in T
    BY <1>1, <1>4, <1>5, UpTo
  <2>2. QED
    BY <1>1, <2>1
<1>7. Runs(seq) = h[n]
  BY <1>3 DEF Runs, d
<1>8. QED
  BY <1>6, <1>7

-----------------------------------------------------------------------------
(***************************************************************************)
(* The conversions to the widths of the fields, and what they do to the    *)
(* sums: nothing when the values fit, and they never make them larger.     *)
(***************************************************************************)
LEMMA FieldIs ==
  ASSUME NEW run \in RunsWritten
  PROVE  /\ Field(run) \in Pairs
         /\ Field(run).length = run.length
         /\ Field(run).value <= run.value
         /\ run.value < 2 ^ DiffWidth => Field(run) = run
<1> DEFINE l == run.length
           v == run.value
           w == 2 ^ RunWidth
           u == 2 ^ DiffWidth
<1>1. w \in Nat /\ w > 1 /\ u \in Nat /\ u > 0
  BY CodecAssumption
<1>2. l \in 1 .. (w - 1) /\ v \in Nat /\ run = [length |-> l, value |-> v]
  BY DEF RunsWritten
<1>3. Field(run) = [length |-> l % w, value |-> v % u]
  BY DEF Field
<1> HIDE DEF l, v, w, u
<1>4. l \in Nat /\ l % w = l
  BY <1>1, <1>2
<1>5. v % u \in Nat /\ v % u <= v
  BY <1>1, <1>2
<1>6. v < u => v % u = v
  BY <1>1, <1>2
<1>7. QED
  BY <1>2, <1>3, <1>4, <1>5, <1>6 DEF Pairs, u

LEMMA FieldsAre ==
  ASSUME NEW runs \in Seq(RunsWritten)
  PROVE  LET pairs == [i \in DOMAIN runs |-> Field(runs[i])]
         IN  /\ pairs \in Seq(Pairs)
             /\ Len(pairs) = Len(runs)
             /\ \A i \in 1 .. Len(runs) : pairs[i] = Field(runs[i])
<1> DEFINE pairs == [i \in DOMAIN runs |-> Field(runs[i])]
           n     == Len(runs)
<1>1. n \in Nat /\ DOMAIN runs = 1 .. n
  BY LenProperties
<1>2. \A i \in 1 .. n : Field(runs[i]) \in Pairs
  BY ElementOfSeq, FieldIs
<1>3. pairs \in [1 .. n -> Pairs] /\ \A i \in 1 .. n : pairs[i] = Field(runs[i])
  BY <1>1, <1>2
<1> HIDE DEF pairs, n
<1>4. pairs \in Seq(Pairs)
  BY <1>1, <1>3, SeqDef
<1>5. Len(pairs) = n
  <2>1. DOMAIN pairs = 1 .. n /\ DOMAIN pairs = 1 .. Len(pairs) /\ Len(pairs) \in Nat
    BY <1>3, <1>4, LenProperties
  <2>2. QED
    BY <1>1, <2>1
<1>6. QED
  BY <1>3, <1>4, <1>5 DEF pairs, n

LEMMA ProductGrows ==
  ASSUME NEW j \in Nat, NEW n \in Nat, NEW v \in Nat, NEW w \in Nat, j <= n, v <= w
  PROVE  j * v <= n * w
<1>1. j * v <= n * v
  <2>1. n * v = j * v + (n - j) * v
    OBVIOUS
  <2>2. (n - j) * v \in Nat /\ j * v \in Nat
    <3>1. n - j \in Nat
      OBVIOUS
    <3>2. QED
      BY <3>1, ProductIsNat
  <2>3. n * v \in Int
    OBVIOUS
  <2>4. QED
    BY <2>1, <2>2, <2>3
<1>2. n * v <= n * w
  <2>1. n * w = n * v + n * (w - v)
    OBVIOUS
  <2>2. n * (w - v) \in Nat /\ n * v \in Nat
    <3>1. w - v \in Nat
      OBVIOUS
    <3>2. QED
      BY <3>1, ProductIsNat
  <2>3. n * w \in Int
    OBVIOUS
  <2>4. QED
    BY <2>1, <2>2, <2>3
<1>3. j * v \in Nat /\ n * v \in Nat /\ n * w \in Nat
  BY ProductIsNat
<1>4. QED
  BY <1>1, <1>2, <1>3

(* A pair adds identifiers between the last one and the new last one.      *)
LEMMA AddRunWithin ==
  ASSUME NEW sum \in Sums, NEW run \in Pairs
  PROVE  /\ sum.last <= AddRun(sum, run).last
         /\ sum.ids \subseteq AddRun(sum, run).ids
         /\ AddRun(sum, run).ids \subseteq sum.ids \cup (sum.last .. AddRun(sum, run).last)
<1> DEFINE b == sum.last
           n == run.length
           v == run.value
<1>1. b \in Nat /\ n \in Nat /\ v \in Nat
  BY DEF Sums, Pairs
<1>2. /\ AddRun(sum, run).last = b + n * v
      /\ AddRun(sum, run).ids = sum.ids \cup {b + j * v : j \in 1 .. n}
  BY DEF AddRun
<1> HIDE DEF b, n, v
<1>3. n * v \in Nat
  BY <1>1, ProductIsNat
<1>4. ASSUME NEW j \in 1 .. n
      PROVE  b + j * v \in b .. (b + n * v)
  <2>1. j \in Nat /\ j <= n
    BY <1>1
  <2>2. j * v \in Nat /\ j * v <= n * v
    BY <1>1, <2>1, ProductIsNat, ProductGrows
  <2>3. QED
    BY <1>1, <1>3, <2>2
<1>5. {b + j * v : j \in 1 .. n} \subseteq b .. (b + n * v)
  BY <1>4
<1>6. b <= b + n * v
  BY <1>1, <1>3
<1>7. QED
  BY <1>2, <1>5, <1>6 DEF b

LEMMA AddRunMonotone ==
  ASSUME NEW sum \in Sums, NEW more \in Sums, NEW run \in Pairs, NEW wider \in Pairs,
         sum.last <= more.last, run.length = wider.length, run.value <= wider.value
  PROVE  AddRun(sum, run).last <= AddRun(more, wider).last
<1> DEFINE a == sum.last
           b == more.last
           n == run.length
           v == run.value
           w == wider.value
<1>1. a \in Nat /\ b \in Nat /\ n \in Nat /\ v \in Nat /\ w \in Nat /\ a <= b /\ v <= w
  BY DEF Sums, Pairs
<1>2. AddRun(sum, run).last = a + n * v /\ AddRun(more, wider).last = b + n * w
  BY DEF AddRun
<1> HIDE DEF a, b, n, v, w
<1>3. n * v \in Nat /\ n * w \in Nat /\ n * v <= n * w
  <2>1. n <= n
    BY <1>1
  <2>2. QED
    BY <1>1, <2>1, ProductIsNat, ProductGrows
<1>4. a + n * v <= b + n * w
  BY <1>1, <1>3
<1>5. QED
  BY <1>2, <1>4

(* Fewer pairs, with smaller values, are read within the list.             *)
LEMMA ReadsWithin ==
  ASSUME NEW first \in Nat, NEW runs \in Seq(RunsWritten), NEW pairs \in Seq(Pairs),
         Len(pairs) <= Len(runs),
         \A i \in 1 .. Len(pairs) : /\ pairs[i].length = runs[i].length
                                    /\ pairs[i].value <= runs[i].value
  PROVE  /\ first \in Decoded(first, pairs).ids
         /\ Decoded(first, pairs).ids \subseteq first .. Decoded(first, runs).last
<1> DEFINE m == Len(pairs)
           n == Len(runs)
<1>1. /\ m \in Nat /\ n \in Nat /\ m <= n
      /\ \A i \in 1 .. m : pairs[i] \in Pairs
      /\ \A i \in 1 .. n : runs[i] \in Pairs
  BY LenProperties, ElementOfSeq, WrittenIsRead
<1>2. From(first) \in Sums
  BY FromIsSum
<1>3. PICK h : SumHistory(From(first), runs, h) /\ Decoded(first, runs) = h[n]
  BY <1>2, WrittenIsRead, SumsFold DEF Decoded
<1>4. PICK e : SumHistory(From(first), pairs, e) /\ Decoded(first, pairs) = e[m]
  BY <1>2, SumsFold DEF Decoded
<1>5. /\ \A k \in 0 .. n : h[k] \in Sums
      /\ \A k \in 1 .. n : h[k] = AddRun(h[k - 1], runs[k])
      /\ h[0] = From(first)
  BY <1>3 DEF SumHistory
<1>6. /\ \A k \in 0 .. m : e[k] \in Sums
      /\ \A k \in 1 .. m : e[k] = AddRun(e[k - 1], pairs[k])
      /\ e[0] = From(first)
  BY <1>4 DEF SumHistory
<1>7. \A i \in 1 .. m : /\ pairs[i].length = runs[i].length
                       /\ pairs[i].value <= runs[i].value
  OBVIOUS
<1> HIDE DEF m, n
<1> DEFINE T == {k \in 0 .. m : /\ e[k].last <= h[k].last
                                /\ first \in e[k].ids
                                /\ e[k].ids \subseteq first .. e[k].last
                                /\ first <= e[k].last}
<1>8. 0 \in T
  BY <1>1, <1>5, <1>6 DEF From
<1>9. ASSUME NEW k \in 0 .. (m - 1), k \in T
      PROVE  k + 1 \in T
  <2>1. /\ k + 1 \in 1 .. m /\ k + 1 \in 1 .. n /\ (k + 1) - 1 = k
        /\ k + 1 \in 0 .. m /\ k \in 0 .. m /\ k \in 0 .. n
        /\ k + 1 \in 0 .. n
    BY <1>1
  <2>2. /\ e[k] \in Sums /\ h[k] \in Sums /\ e[k + 1] \in Sums /\ h[k + 1] \in Sums
        /\ pairs[k + 1] \in Pairs /\ runs[k + 1] \in Pairs
        /\ pairs[k + 1].length = runs[k + 1].length
        /\ pairs[k + 1].value <= runs[k + 1].value
        /\ e[k].last <= h[k].last
    BY <1>1, <1>5, <1>6, <1>7, <1>9, <2>1
  <2>3. /\ e[k + 1] = AddRun(e[k], pairs[k + 1])
        /\ h[k + 1] = AddRun(h[k], runs[k + 1])
    BY <1>5, <1>6, <2>1
  <2>4. e[k + 1].last <= h[k + 1].last
    BY <2>2, <2>3, AddRunMonotone
  <2>5. /\ e[k].last <= e[k + 1].last
        /\ e[k].ids \subseteq e[k + 1].ids
        /\ e[k + 1].ids \subseteq e[k].ids \cup (e[k].last .. e[k + 1].last)
    BY <2>2, <2>3, AddRunWithin
  <2>6. /\ first \in e[k].ids
        /\ e[k].ids \subseteq first .. e[k].last
        /\ first <= e[k].last
    BY <1>9
  <2>7. e[k].last \in Nat /\ e[k + 1].last \in Nat
    BY <2>2 DEF Sums
  <2>8. first <= e[k + 1].last
    BY <2>5, <2>6, <2>7
  <2>9. e[k + 1].ids \subseteq first .. e[k + 1].last
    <3>1. /\ first .. e[k].last \subseteq first .. e[k + 1].last
          /\ e[k].last .. e[k + 1].last \subseteq first .. e[k + 1].last
      BY <2>5, <2>6, <2>7
    <3>2. QED
      BY <2>5, <2>6, <3>1
  <2>10. first \in e[k + 1].ids
    BY <2>5, <2>6
  <2>11. QED
    BY <2>1, <2>4, <2>8, <2>9, <2>10
<1>10. m \in T
  <2> HIDE DEF T
  <2>1. \A k \in 0 .. m : k \in T
    BY <1>1, <1>8, <1>9, UpTo
  <2>2. QED
    BY <1>1, <2>1
<1> DEFINE U == {k \in 0 .. (n - m) : h[m].last <= h[m + k].last}
<1>11. h[m].last \in Nat /\ n - m \in Nat
  BY <1>1, <1>5 DEF Sums
<1>12. 0 \in U
  BY <1>1, <1>11
<1>13. ASSUME NEW k \in 0 .. ((n - m) - 1), k \in U
       PROVE  k + 1 \in U
  <2>1. /\ m + (k + 1) \in 1 .. n /\ (m + (k + 1)) - 1 = m + k
        /\ m + k \in 0 .. n /\ k + 1 \in 0 .. (n - m)
        /\ m + (k + 1) \in 0 .. n
    BY <1>1
  <2>2. /\ h[m + k] \in Sums /\ runs[m + (k + 1)] \in Pairs
        /\ h[m + (k + 1)] = AddRun(h[m + k], runs[m + (k + 1)])
        /\ h[m + (k + 1)] \in Sums
    BY <1>1, <1>5, <2>1
  <2>3. h[m + k].last <= h[m + (k + 1)].last
    BY <2>2, AddRunWithin
  <2>4. h[m + k].last \in Nat /\ h[m + (k + 1)].last \in Nat
    BY <2>2 DEF Sums
  <2>5. h[m].last <= h[m + (k + 1)].last
    BY <1>11, <1>13, <2>3, <2>4
  <2>6. QED
    BY <2>1, <2>5
<1>14. h[m].last <= h[n].last
  <2>1. \A k \in 0 .. (n - m) : k \in U
    <3> HIDE DEF U
    <3>1. QED
      BY <1>11, <1>12, <1>13, UpTo
  <2>2. n - m \in 0 .. (n - m) /\ m + (n - m) = n
    BY <1>1
  <2>3. QED
    BY <2>1, <2>2
<1>15. QED
  <2>1. /\ e[m].last <= h[m].last /\ first \in e[m].ids
        /\ e[m].ids \subseteq first .. e[m].last
    BY <1>10
  <2>2. e[m].last \in Nat /\ h[m].last \in Nat /\ h[n].last \in Nat
    BY <1>1, <1>5, <1>6 DEF Sums
  <2>3. first .. e[m].last \subseteq first .. h[n].last
    BY <1>14, <2>1, <2>2
  <2>4. QED
    BY <1>3, <1>4, <2>1, <2>3

-----------------------------------------------------------------------------
(***************************************************************************)
(* The identifiers in increasing order.                                    *)
(***************************************************************************)
Acks    == SUBSET (0 .. (MaxId + 1))
Rank(S, s) == Cardinality({t \in S : t < s})

LEMMA AckIs ==
  ASSUME NEW S \in Acks
  PROVE  S \subseteq Nat /\ IsFiniteSet(S) /\ Cardinality(S) \in Nat
<1>1. MaxId + 1 \in Int
  BY CodecAssumption
<1>2. S \in SUBSET (0 .. (MaxId + 1)) /\ S \subseteq Nat
  BY DEF Acks
<1>3. QED
  BY <1>1, <1>2, BoundedIsFinite

LEMMA RankGrows ==
  ASSUME NEW S \in Acks, NEW s \in S, NEW t \in S, s < t
  PROVE  Rank(S, s) < Rank(S, t)
<1> DEFINE A == {u \in S : u < s}
           B == {u \in S : u < t}
<1>1. S \subseteq Nat /\ IsFiniteSet(S)
  BY AckIs
<1>2. A \subseteq B /\ s \in B /\ s \notin A /\ B \subseteq S
  <2>1. s \in Nat /\ t \in Nat /\ \A u \in S : u \in Nat
    BY <1>1
  <2>2. \A u \in S : u < s => u < t
    BY <2>1
  <2>3. ~(s < s)
    BY <2>1
  <2>4. QED
    BY <2>2, <2>3
<1> HIDE DEF A, B
<1>3. IsFiniteSet(B) /\ Cardinality(B) \in Nat
  BY <1>1, <1>2, FS_Subset, FS_CardinalityType
<1>4. IsFiniteSet(A) /\ Cardinality(A) \in Nat
  BY <1>2, <1>3, FS_Subset, FS_CardinalityType
<1>5. Cardinality(A) <= Cardinality(B) /\ (Cardinality(B) = Cardinality(A) => B = A)
  BY <1>2, <1>3, FS_Subset
<1>6. Cardinality(A) < Cardinality(B)
  BY <1>2, <1>3, <1>4, <1>5
<1>7. QED
  BY <1>6 DEF Rank, A, B

LEMMA RankBelow ==
  ASSUME NEW S \in Acks, NEW s \in S
  PROVE  Rank(S, s) \in 0 .. (Cardinality(S) - 1)
<1> DEFINE A == {u \in S : u < s}
<1>1. S \subseteq Nat /\ IsFiniteSet(S) /\ Cardinality(S) \in Nat
  BY AckIs
<1>2. A \subseteq S /\ s \notin A
  BY <1>1
<1> HIDE DEF A
<1>3. /\ Cardinality(A) <= Cardinality(S) /\ IsFiniteSet(A)
      /\ (Cardinality(S) = Cardinality(A) => S = A)
  BY <1>1, <1>2, FS_Subset
<1>4. Cardinality(A) \in Nat
  BY <1>3, FS_CardinalityType
<1>5. Cardinality(A) # Cardinality(S)
  BY <1>2, <1>3
<1>6. Cardinality(A) \in 0 .. (Cardinality(S) - 1)
  BY <1>1, <1>3, <1>4, <1>5
<1>7. QED
  BY <1>6 DEF Rank, A

(* Every rank is taken: there are as many of them as identifiers.          *)
LEMMA RankTaken ==
  ASSUME NEW S \in Acks, NEW k \in 0 .. (Cardinality(S) - 1)
  PROVE  \E s \in S : Rank(S, s) = k
<1> DEFINE n == Cardinality(S)
           R == 0 .. (n - 1)
           f == [s \in S |-> Rank(S, s)]
<1>1. S \subseteq Nat /\ IsFiniteSet(S) /\ n \in Nat
  BY AckIs
<1>2. f \in [S -> R]
  BY RankBelow
<1>3. ASSUME NEW s \in S, NEW t \in S, s # t
      PROVE  f[s] # f[t]
  <2>1. f[s] \in Int /\ f[t] \in Int
    BY RankBelow, <1>1
  <2>2. CASE s < t
    BY <2>1, <2>2, RankGrows
  <2>3. CASE t < s
    BY <2>1, <2>3, RankGrows
  <2>4. QED
    BY <1>1, <1>3, <2>2, <2>3
<1> HIDE DEF n, f
<1>4. f \in Injection(S, R)
  BY <1>2, <1>3 DEF Injection, IsInjective
<1>5. IsFiniteSet(R) /\ Cardinality(R) = n
  <2>1. 0 \in Int /\ n - 1 \in Int
    BY <1>1
  <2>2. IsFiniteSet(R) /\ Cardinality(R) = IF 0 > n - 1 THEN 0 ELSE (n - 1) - 0 + 1
    BY <2>1, FS_Interval
  <2>3. QED
    BY <1>1, <2>2
<1>6. f \in Surjection(S, R)
  <2> HIDE DEF R
  <2>1. Cardinality(S) = Cardinality(R)
    BY <1>5 DEF n
  <2>2. QED
    BY <1>4, <1>5, <2>1, FS_Injection
<1>7. \E s \in S : f[s] = k
  BY <1>6 DEF Surjection, n
<1>8. QED
  BY <1>7 DEF f

LEMMA SortedIs ==
  ASSUME NEW S \in Acks, S # {}
  PROVE  /\ Sorted(S) \in Lists
         /\ Len(Sorted(S)) = Cardinality(S)
         /\ FirstOnes(Sorted(S), Cardinality(S)) = S
<1> DEFINE n    == Cardinality(S)
           seq == Sorted(S)
<1>1. S \subseteq Nat /\ IsFiniteSet(S) /\ n \in Nat
  BY AckIs
<1>2. n # 0
  BY <1>1, FS_EmptySet
<1>3. seq = [i \in 1 .. n |-> CHOOSE s \in S : Rank(S, s) = i - 1]
  BY DEF Sorted, Rank
<1>4. ASSUME NEW i \in 1 .. n
      PROVE  seq[i] \in S /\ Rank(S, seq[i]) = i - 1
  <2>1. i - 1 \in 0 .. (n - 1)
    BY <1>1
  <2>2. \E s \in S : Rank(S, s) = i - 1
    BY <2>1, RankTaken
  <2>3. seq[i] = CHOOSE s \in S : Rank(S, s) = i - 1
    BY <1>3
  <2> HIDE DEF seq
  <2>4. QED
    BY <2>2, <2>3
<1> HIDE DEF n, seq
<1>5. seq \in [1 .. n -> Nat] /\ DOMAIN seq = 1 .. n
  BY <1>1, <1>3, <1>4
<1>6. seq \in Seq(Nat)
  BY <1>1, <1>5, SeqDef
<1>7. Len(seq) = n
  <2>1. DOMAIN seq = 1 .. Len(seq) /\ Len(seq) \in Nat
    BY <1>6, LenProperties
  <2>2. QED
    BY <1>1, <1>5, <2>1
<1>8. ASSUME NEW i \in 1 .. n, NEW j \in 1 .. n, i < j
      PROVE  seq[i] < seq[j]
  <2>1. /\ seq[i] \in S /\ Rank(S, seq[i]) = i - 1
        /\ seq[j] \in S /\ Rank(S, seq[j]) = j - 1
    BY <1>4
  <2>2. CASE seq[i] = seq[j]
    BY <1>1, <1>8, <2>1, <2>2
  <2>3. CASE seq[j] < seq[i]
    <3>1. Rank(S, seq[j]) < Rank(S, seq[i])
      BY <2>1, <2>3, RankGrows
    <3>2. QED
      BY <1>1, <1>8, <2>1, <3>1
  <2>4. seq[i] \in Nat /\ seq[j] \in Nat
    BY <1>1, <2>1
  <2>5. QED
    BY <2>2, <2>3, <2>4
<1>9. seq # <<>>
  BY <1>2, <1>7, EmptySeq
<1>10. seq \in Lists
  BY <1>6, <1>7, <1>8, <1>9 DEF Lists
<1>11. FirstOnes(seq, n) = S
  <2>1. FirstOnes(seq, n) \subseteq S
    BY <1>4 DEF FirstOnes
  <2>2. ASSUME NEW s \in S
        PROVE  s \in FirstOnes(seq, n)
    <3>1. PICK k \in 0 .. (n - 1) : Rank(S, s) = k
      BY RankBelow DEF n
    <3>2. k + 1 \in 1 .. n /\ (k + 1) - 1 = k
      BY <1>1
    <3>3. seq[k + 1] \in S /\ Rank(S, seq[k + 1]) = k
      BY <1>4, <3>2
    <3>4. ASSUME seq[k + 1] < s
          PROVE  FALSE
      BY <3>1, <3>3, <3>4, RankGrows
    <3>5. ASSUME s < seq[k + 1]
          PROVE  FALSE
      BY <3>1, <3>3, <3>5, RankGrows
    <3>6. seq[k + 1] = s
      <4>1. seq[k + 1] \in Nat /\ s \in Nat
        BY <1>1, <3>3
      <4>2. QED
        BY <3>4, <3>5, <4>1
    <3>7. QED
      BY <3>2, <3>6 DEF FirstOnes
  <2>3. QED
    BY <2>1, <2>2
<1>12. QED
  BY <1>7, <1>10, <1>11 DEF n, seq

(* The first and the last of the list.                                     *)
LEMMA EndsOfSorted ==
  ASSUME NEW S \in Acks, S # {}
  PROVE  LET seq == Sorted(S)
             last == seq[Cardinality(S)]
         IN  /\ Cardinality(S) \in Nat \ {0}
             /\ seq[1] \in S /\ \A s \in S : seq[1] <= s
             /\ last \in S /\ \A s \in S : s <= last
<1> DEFINE seq == Sorted(S)
           n    == Cardinality(S)
<1>1. /\ seq \in Lists /\ Len(seq) = n /\ FirstOnes(seq, n) = S
      /\ S \subseteq Nat
  BY SortedIs, AckIs
<1> HIDE DEF seq, n
<1>2. /\ n \in Nat \ {0}
      /\ \A i, j \in 1 .. n : i < j => seq[i] < seq[j]
      /\ \A i \in 1 .. n : seq[i] \in Nat
  BY <1>1, ListIs
<1>3. \A i \in 1 .. n : seq[i] \in S
  BY <1>1 DEF FirstOnes
<1>4. ASSUME NEW s \in S
      PROVE  seq[1] <= s /\ s <= seq[n]
  <2>1. PICK i \in 1 .. n : s = seq[i]
    BY <1>1 DEF FirstOnes
  <2>2. 1 \in 1 .. n /\ n \in 1 .. n /\ seq[1] \in Nat /\ seq[n] \in Nat /\ seq[i] \in Nat
    BY <1>2
  <2>3. seq[1] <= seq[i]
    <3>1. CASE i = 1
      BY <2>2, <3>1
    <3>2. CASE 1 < i
      BY <1>2, <2>2, <3>2
    <3>3. QED
      BY <1>2, <3>1, <3>2
  <2>4. seq[i] <= seq[n]
    <3>1. CASE i = n
      BY <2>2, <3>1
    <3>2. CASE i < n
      BY <1>2, <2>2, <3>2
    <3>3. QED
      BY <1>2, <3>1, <3>2
  <2>5. QED
    BY <2>1, <2>3, <2>4
<1>5. 1 \in 1 .. n /\ n \in 1 .. n
  BY <1>2
<1>6. QED
  BY <1>2, <1>3, <1>4, <1>5 DEF seq, n

-----------------------------------------------------------------------------
(***************************************************************************)
(* What is read back of what is written.                                   *)
(***************************************************************************)
PairsOf(S) == LET runs == Runs(Sorted(S)) IN [i \in DOMAIN runs |-> Field(runs[i])]
Announced(S) == (Len(Runs(Sorted(S))) + 1) % 2 ^ CountWidth

LEMMA WrittenIs ==
  ASSUME NEW S \in Acks, S # {}
  PROVE  /\ Announced(S) \in 0 .. (Len(Runs(Sorted(S))) + 1)
         /\ CountFits(S) => Announced(S) = Len(Runs(Sorted(S))) + 1
         /\ ReadBack(Written(S))
              = IF Announced(S) = 0 THEN {}
                ELSE Decoded(Sorted(S)[1], SubSeq(PairsOf(S), 1, Announced(S) - 1)).ids
<1> DEFINE seq == Sorted(S)
           runs == Runs(seq)
           n    == Len(runs)
           w    == 2 ^ CountWidth
<1>1. seq \in Lists
  BY SortedIs
<1>2. n \in Nat
  <2> HIDE DEF seq
  <2>1. runs \in Seq(RunsWritten)
    BY <1>1, RunsOfList
  <2>2. QED
    BY <2>1, LenProperties
<1>3. w \in Nat /\ w > 0
  BY CodecAssumption
<1>4. Announced(S) = (n + 1) % w
  BY DEF Announced
<1>5. CountFits(S) => n + 1 < w
  BY DEF CountFits
<1>6. Head(seq) = seq[1]
  <2> HIDE DEF seq
  <2>1. seq \in Seq(Nat) /\ Len(seq) \in Nat \ {0}
    BY <1>1, ListIs
  <2>2. 1 \in 1 .. Len(seq) /\ Len(seq) \in 1 .. Len(seq)
    BY <2>1
  <2>3. Head(SubSeq(seq, 1, Len(seq))) = seq[1]
    BY <2>1, <2>2, HeadTailOfSubSeq
  <2>4. SubSeq(seq, 1, Len(seq)) = seq
    BY <2>1, SubSeqFull
  <2>5. QED
    BY <2>3, <2>4
<1>7. Written(S) = [nb_elements |-> Announced(S), first |-> seq[1], pairs |-> PairsOf(S)]
  BY <1>6 DEF Written, Announced, PairsOf
<1>8. ReadBack(Written(S))
        = IF Announced(S) = 0 THEN {}
          ELSE Decoded(seq[1], SubSeq(PairsOf(S), 1, Announced(S) - 1)).ids
  BY <1>7 DEF ReadBack, Decoded, From
<1> HIDE DEF seq, runs, n, w
<1>9. (n + 1) % w \in 0 .. (n + 1) /\ (n + 1 < w => (n + 1) % w = n + 1)
  <2>1. n + 1 \in Nat
    BY <1>2
  <2>2. (n + 1) % w \in Nat /\ (n + 1) % w <= n + 1
    BY <1>3, <2>1
  <2>3. n + 1 < w => (n + 1) % w = n + 1
    BY <1>3, <2>1
  <2>4. QED
    BY <2>1, <2>2, <2>3
<1>10. QED
  BY <1>4, <1>5, <1>8, <1>9 DEF seq, runs, n

LEMMA EmptyIsRead == ReadBack(Written({})) = {}
BY DEF ReadBack, Written

(* What is read of a list is between its first and its last identifier.    *)
LEMMA ReadIsWithin ==
  ASSUME NEW S \in Acks, S # {}, Announced(S) # 0
  PROVE  /\ Sorted(S)[1] \in ReadBack(Written(S))
         /\ ReadBack(Written(S)) \subseteq Sorted(S)[1] .. Sorted(S)[Cardinality(S)]
<1> DEFINE seq  == Sorted(S)
           runs  == Runs(seq)
           pairs == PairsOf(S)
           k     == Announced(S) - 1
           q     == SubSeq(pairs, 1, k)
<1>1. seq \in Lists /\ Len(seq) = Cardinality(S)
  BY SortedIs
<1>2. /\ Announced(S) \in 0 .. (Len(runs) + 1)
      /\ ReadBack(Written(S)) = Decoded(seq[1], q).ids
  BY WrittenIs
<1>3. pairs = [i \in DOMAIN runs |-> Field(runs[i])]
  BY DEF PairsOf
<1> HIDE DEF seq
<1>4. runs \in Seq(RunsWritten) /\ Decoded(seq[1], runs).last = seq[Len(seq)]
  <2>1. /\ runs \in Seq(RunsWritten)
        /\ Decoded(seq[1], runs)
             = [last |-> seq[Len(seq)], ids |-> FirstOnes(seq, Len(seq))]
    BY <1>1, RunsOfList
  <2> HIDE DEF runs
  <2>2. QED
    BY <2>1
<1> HIDE DEF runs, pairs
<1>5. Len(runs) \in Nat
  BY <1>4, LenProperties
<1>6. k \in Nat /\ k <= Len(runs)
  BY <1>2, <1>5
<1> HIDE DEF k
<1>7. pairs \in Seq(Pairs) /\ Len(pairs) = Len(runs)
      /\ \A i \in 1 .. Len(runs) : pairs[i] = Field(runs[i])
  BY <1>3, <1>4, FieldsAre
<1>8. q \in Seq(Pairs) /\ Len(q) = k /\ \A i \in 1 .. k : q[i] = pairs[i]
  <2>1. \A i \in 1 .. k : pairs[i] \in Pairs
    BY <1>5, <1>6, <1>7, ElementOfSeq
  <2>2. 1 \in Int /\ k \in Int
    BY <1>6
  <2>3. /\ q \in Seq(Pairs)
        /\ Len(q) = IF 1 <= k THEN k - 1 + 1 ELSE 0
        /\ \A i \in 1 .. (k - 1 + 1) : q[i] = pairs[1 + i - 1]
    BY <2>1, <2>2, SubSeqProperties
  <2> HIDE DEF q
  <2>4. k - 1 + 1 = k /\ (1 > k => k = 0) /\ \A i \in 1 .. k : 1 + i - 1 = i
    BY <1>6
  <2>5. Len(q) = k
    BY <1>6, <2>3, <2>4
  <2>6. ASSUME NEW i \in 1 .. k
        PROVE  q[i] = pairs[i]
    <3>1. i \in 1 .. (k - 1 + 1)
      BY <2>4
    <3>2. q[i] = pairs[1 + i - 1]
      BY <2>3, <3>1
    <3>3. QED
      BY <2>4, <3>2
  <2>7. QED
    BY <2>3, <2>5, <2>6
<1> HIDE DEF q
<1>9. ASSUME NEW i \in 1 .. Len(q)
      PROVE  q[i].length = runs[i].length /\ q[i].value <= runs[i].value
  <2>1. i \in 1 .. Len(runs)
    BY <1>5, <1>6, <1>8
  <2>2. q[i] = Field(runs[i]) /\ runs[i] \in RunsWritten
    BY <1>4, <1>7, <1>8, <2>1, ElementOfSeq
  <2>3. QED
    BY <2>2, FieldIs
<1>10. seq[1] \in Nat /\ Len(q) <= Len(runs)
  BY <1>1, <1>6, <1>8, ListIs
<1>11. /\ seq[1] \in Decoded(seq[1], q).ids
       /\ Decoded(seq[1], q).ids \subseteq seq[1] .. Decoded(seq[1], runs).last
  BY <1>4, <1>8, <1>9, <1>10, ReadsWithin
<1>12. QED
  BY <1>1, <1>2, <1>4, <1>11 DEF seq

(* A list is read within the identifiers that a list can hold.             *)
LEMMA ReadIsAck ==
  ASSUME NEW S \in Acks
  PROVE  ReadBack(Written(S)) \in Acks
<1>1. CASE S = {}
  BY <1>1, EmptyIsRead DEF Acks
<1>2. CASE S # {} /\ Announced(S) = 0
  <2>1. ReadBack(Written(S)) = {}
    BY <1>2, WrittenIs
  <2>2. QED
    BY <2>1 DEF Acks
<1>3. CASE S # {} /\ Announced(S) # 0
  <2> DEFINE first == Sorted(S)[1]
             last  == Sorted(S)[Cardinality(S)]
  <2>1. first \in S /\ last \in S
    BY <1>3, EndsOfSorted
  <2>2. ReadBack(Written(S)) \subseteq first .. last
    BY <1>3, ReadIsWithin
  <2> HIDE DEF first, last
  <2>3. first \in 0 .. (MaxId + 1) /\ last \in 0 .. (MaxId + 1)
    BY <2>1 DEF Acks
  <2>4. first .. last \subseteq 0 .. (MaxId + 1)
    BY <2>3, CodecAssumption
  <2>5. QED
    BY <2>2, <2>4 DEF Acks
<1>4. QED
  BY <1>1, <1>2, <1>3

LEMMA ReadWithinWritten ==
  ASSUME NEW S \in Acks, S # {}, CountFits(S)
  PROVE  /\ Min(ReadBack(Written(S))) = Min(S)
         /\ Max(ReadBack(Written(S))) <= Max(S)
<1> DEFINE first == Sorted(S)[1]
           last  == Sorted(S)[Cardinality(S)]
           back  == ReadBack(Written(S))
<1>1. /\ first \in S /\ \A s \in S : first <= s
      /\ last \in S /\ \A s \in S : s <= last
  BY EndsOfSorted
<1>2. Announced(S) # 0
  <2>1. Runs(Sorted(S)) \in Seq(RunsWritten)
    BY SortedIs, RunsOfList
  <2>2. Len(Runs(Sorted(S))) \in Nat
    BY <2>1, LenProperties
  <2>3. QED
    BY <2>2, WrittenIs
<1>3. first \in back /\ back \subseteq first .. last
  BY <1>2, ReadIsWithin
<1>4. back \in Acks
  BY ReadIsAck
<1> HIDE DEF first, last, back
<1>5. MaxId + 1 \in Nat
  BY CodecAssumption
<1>6. /\ S \in SUBSET (0 .. (MaxId + 1)) /\ S # {} /\ S \in SUBSET Nat
      /\ back \in SUBSET (0 .. (MaxId + 1)) /\ back # {} /\ back \in SUBSET Nat
  BY <1>3, <1>4 DEF Acks
<1>7. /\ Min(S) \in S /\ (\A m \in S : Min(S) <= m)
      /\ Max(S) \in S /\ (\A m \in S : m <= Max(S))
  BY <1>5, <1>6, MinIs, MaxIs
<1>8. /\ Min(back) \in back /\ (\A m \in back : Min(back) <= m)
      /\ Max(back) \in back
  BY <1>5, <1>6, MinIs, MaxIs
<1>9. first \in Nat /\ last \in Nat
  BY <1>1, <1>6
<1>10. Min(S) \in Nat /\ Max(S) \in Nat /\ Min(back) \in Nat /\ Max(back) \in Nat
  BY <1>6, <1>7, <1>8
<1>11. Min(S) = first
  BY <1>1, <1>7, <1>9, <1>10
<1>12. Min(back) = first
  <2>1. Min(back) \in first .. last /\ Min(back) <= first
    BY <1>3, <1>8
  <2>2. QED
    BY <1>9, <1>10, <2>1
<1>13. Max(back) <= last
  <2>1. Max(back) \in first .. last
    BY <1>3, <1>8
  <2>2. QED
    BY <1>9, <2>1
<1>14. last <= Max(S)
  BY <1>1, <1>7
<1>15. QED
  BY <1>9, <1>10, <1>11, <1>12, <1>13, <1>14 DEF back

(* No hole of a list whose gaps fit is as wide as a field.                 *)
LEMMA GapsOfSorted ==
  ASSUME NEW S \in Acks, S # {}, GapsFit(S),
         NEW k \in 1 .. (Len(Sorted(S)) - 1)
  PROVE  Sorted(S)[k + 1] - Sorted(S)[k] < 2 ^ DiffWidth
<1> DEFINE seq == Sorted(S)
           n    == Len(seq)
           w    == 2 ^ DiffWidth
<1>1. seq \in Lists /\ FirstOnes(seq, n) = S /\ n \in Nat
  BY SortedIs, AckIs
<1> HIDE DEF seq
<1>2. /\ \A i, j \in 1 .. n : i < j => seq[i] < seq[j]
      /\ \A i \in 1 .. n : seq[i] \in Nat
  BY <1>1, ListIs
<1>3. k \in 1 .. n /\ k + 1 \in 1 .. n /\ k \in Nat /\ k < k + 1
  BY <1>1 DEF seq
<1> HIDE DEF n
<1>4. seq[k] \in S /\ seq[k + 1] \in S /\ seq[k] < seq[k + 1]
  BY <1>1, <1>2, <1>3 DEF FirstOnes
<1>5. seq[k] # Max(S)
  <2>1. MaxId + 1 \in Nat /\ S \in SUBSET (0 .. (MaxId + 1))
    BY CodecAssumption DEF Acks
  <2>2. Max(S) \in S /\ \A m \in S : m <= Max(S)
    BY <2>1, MaxIs
  <2>3. seq[k + 1] <= Max(S)
    BY <1>4, <2>2
  <2>4. seq[k] \in Nat /\ seq[k + 1] \in Nat
    BY <1>2, <1>3
  <2>5. QED
    BY <1>4, <2>3, <2>4
<1>6. PICK s \in S : seq[k] < s /\ s - seq[k] < w
  BY <1>4, <1>5 DEF GapsFit
<1>7. PICK m \in 1 .. n : s = seq[m]
  BY <1>1 DEF FirstOnes
<1>8. seq[k + 1] <= seq[m]
  <2>1. seq[m] \in Nat /\ seq[k] \in Nat /\ seq[k + 1] \in Nat
    BY <1>2, <1>3
  <2>2. ~(m < k) /\ m # k
    <3>1. m < k => seq[m] < seq[k]
      BY <1>2, <1>3
    <3>2. QED
      BY <1>6, <1>7, <2>1, <3>1
  <2>3. m = k + 1 \/ k + 1 < m
    BY <1>1, <1>3, <2>2
  <2>4. k + 1 < m => seq[k + 1] < seq[m]
    BY <1>2, <1>3
  <2>5. QED
    BY <2>1, <2>3, <2>4
<1>9. w \in Nat
  BY CodecAssumption
<1> HIDE DEF w
<1>10. seq[k + 1] - seq[k] < w
  <2>1. seq[m] \in Nat /\ seq[k] \in Nat /\ seq[k + 1] \in Nat
    BY <1>2, <1>3
  <2>2. seq[m] - seq[k] < w
    BY <1>6, <1>7
  <2>3. QED
    BY <1>8, <1>9, <2>1, <2>2
<1>11. QED
  BY <1>10 DEF seq, w

LEMMA ReadAsWritten ==
  ASSUME NEW S \in Acks, GapsFit(S), CountFits(S)
  PROVE  ReadBack(Written(S)) = S
<1>1. CASE S = {}
  BY <1>1, EmptyIsRead
<1>2. CASE S # {}
  <2> DEFINE seq  == Sorted(S)
             runs  == Runs(seq)
             pairs == PairsOf(S)
             n     == Len(runs)
  <2>1. seq \in Lists /\ Len(seq) = Cardinality(S) /\ FirstOnes(seq, Cardinality(S)) = S
    BY <1>2, SortedIs
  <2>2. ReadBack(Written(S))
          = IF Announced(S) = 0 THEN {}
            ELSE Decoded(seq[1], SubSeq(pairs, 1, Announced(S) - 1)).ids
    BY <1>2, WrittenIs
  <2>3. Announced(S) = n + 1
    BY <1>2, WrittenIs
  <2>4. pairs = [i \in DOMAIN runs |-> Field(runs[i])]
    BY DEF PairsOf
  <2>5. \A k \in 1 .. (Len(seq) - 1) : seq[k + 1] - seq[k] < 2 ^ DiffWidth
    BY <1>2, GapsOfSorted
  <2> HIDE DEF seq
  <2>6. /\ runs \in Seq(RunsWritten)
        /\ Decoded(seq[1], runs)
             = [last |-> seq[Len(seq)], ids |-> FirstOnes(seq, Len(seq))]
    BY <2>1, RunsOfList
  <2>7. ValuesBelow(runs, 2 ^ DiffWidth)
    <3>1. 2 ^ DiffWidth \in Nat
      BY CodecAssumption
    <3>2. QED
      BY <2>1, <2>5, <3>1, ValuesOfList
  <2> HIDE DEF runs, pairs
  <2>8. pairs \in Seq(Pairs) /\ Len(pairs) = n
        /\ \A i \in 1 .. n : pairs[i] = Field(runs[i])
    BY <2>4, <2>6, FieldsAre
  <2>9. pairs = runs
    <3>1. \A i \in 1 .. n : pairs[i] = runs[i]
      <4>1. TAKE i \in 1 .. n
      <4>2. runs[i] \in RunsWritten /\ runs[i].value < 2 ^ DiffWidth
        BY <2>6, <2>7, ElementOfSeq DEF ValuesBelow
      <4>3. QED
        BY <2>8, <4>2, FieldIs
    <3>2. runs \in Seq(Pairs)
      BY <2>6, WrittenIsRead
    <3>3. QED
      BY <2>8, <3>1, <3>2, SeqEqual
  <2>10. n \in Nat
    BY <2>6, LenProperties
  <2>11. SubSeq(pairs, 1, n) = runs
    BY <2>6, <2>9, SubSeqFull
  <2>12. ReadBack(Written(S)) = Decoded(seq[1], runs).ids
    <3>1. Announced(S) # 0 /\ Announced(S) - 1 = n
      BY <2>3, <2>10
    <3>2. QED
      BY <2>2, <2>11, <3>1
  <2>13. Decoded(seq[1], runs).ids = FirstOnes(seq, Len(seq))
    BY <2>6
  <2>14. QED
    BY <2>1, <2>12, <2>13
<1>3. QED
  BY <1>1, <1>2

-----------------------------------------------------------------------------
(***************************************************************************)
(* The inductive invariant: the list is in increasing order, as emplace    *)
(* makes it, and the two iterators of erase have passed nothing that the   *)
(* other may still meet.                                                   *)
(***************************************************************************)
InRange ==
  /\ m_sources \in Seq(0 .. MaxId)
  /\ next \in 0 .. (MaxId + 1)
  /\ erasing \in BOOLEAN
  /\ source_it \in 1 .. (Len(m_sources) + 1)

Increasing ==
  /\ \A i, j \in 1 .. Len(m_sources) : i < j => m_sources[i] < m_sources[j]
  /\ \A i \in 1 .. Len(m_sources) : m_sources[i] < next

(* What is being erased is what was read of an ack, and nothing outside    *)
(* a call of erase.                                                        *)
FromAnAck ==
  /\ acked \in Acks
  /\ read = ReadBack(Written(acked))
  /\ pending \subseteq read
  /\ ~erasing => pending = {} /\ source_it = 1

(* The sources before the iterator are older than what is to be erased.    *)
Passed == \A i \in 1 .. (source_it - 1) : \A p \in pending : m_sources[i] < p

IInv == InRange /\ Increasing /\ FromAnAck /\ Passed

LEMMA ListFacts ==
  ASSUME IInv
  PROVE  /\ m_sources \in Seq(0 .. MaxId)
         /\ Len(m_sources) \in Nat
         /\ DOMAIN m_sources = 1 .. Len(m_sources)
         /\ \A i \in 1 .. Len(m_sources) : m_sources[i] \in 0 .. MaxId
         /\ \A i \in 1 .. Len(m_sources) : m_sources[i] \in Nat
         /\ pending \in SUBSET Nat
         /\ read \in Acks
         /\ MaxId \in Nat
<1>1. m_sources \in Seq(0 .. MaxId)
  BY DEF IInv, InRange
<1>2. Len(m_sources) \in Nat /\ DOMAIN m_sources = 1 .. Len(m_sources)
  BY <1>1, LenProperties
<1>3. \A i \in 1 .. Len(m_sources) : m_sources[i] \in 0 .. MaxId
  BY <1>1, ElementOfSeq
<1>4. read \in Acks
  BY ReadIsAck DEF IInv, FromAnAck
<1>5. pending \in SUBSET Nat
  BY <1>4 DEF IInv, FromAnAck, Acks
<1>6. MaxId \in Nat
  BY CodecAssumption
<1>7. \A i \in 1 .. Len(m_sources) : m_sources[i] \in Nat
  BY <1>3, <1>6
<1>8. QED
  BY <1>1, <1>2, <1>3, <1>4, <1>5, <1>6, <1>7

LEMMA RemoveAtIs ==
  ASSUME NEW A, NEW s \in Seq(A), NEW k \in 1 .. Len(s)
  PROVE  /\ RemoveAt(s, k) \in Seq(A)
         /\ Len(RemoveAt(s, k)) = Len(s) - 1
         /\ \A i \in 1 .. (Len(s) - 1) :
              RemoveAt(s, k)[i] = IF i < k THEN s[i] ELSE s[i + 1]
<1> DEFINE n    == Len(s)
           low  == SubSeq(s, 1, k - 1)
           high == SubSeq(s, k + 1, n)
<1>1. n \in Nat /\ k \in 1 .. n /\ \A i \in 1 .. n : s[i] \in A
  BY LenProperties, ElementOfSeq
<1> HIDE DEF n
<1>2. low \in Seq(A) /\ Len(low) = k - 1 /\ \A i \in 1 .. (k - 1) : low[i] = s[i]
  <2>1. \A i \in 1 .. (k - 1) : s[i] \in A
    BY <1>1
  <2>2. 1 \in Int /\ k - 1 \in Int
    BY <1>1
  <2>3. /\ low \in Seq(A)
        /\ Len(low) = IF 1 <= k - 1 THEN (k - 1) - 1 + 1 ELSE 0
        /\ \A i \in 1 .. ((k - 1) - 1 + 1) : low[i] = s[1 + i - 1]
    BY <2>1, <2>2, SubSeqProperties
  <2> HIDE DEF low
  <2>4. Len(low) = k - 1
    BY <1>1, <2>3
  <2>5. ASSUME NEW i \in 1 .. (k - 1)
        PROVE  low[i] = s[i]
    <3>1. i \in 1 .. ((k - 1) - 1 + 1) /\ 1 + i - 1 = i
      BY <1>1
    <3>2. QED
      BY <2>3, <3>1
  <2>6. QED
    BY <2>3, <2>4, <2>5
<1>3. /\ high \in Seq(A) /\ Len(high) = n - k
      /\ \A i \in 1 .. (n - k) : high[i] = s[k + i]
  <2>1. \A i \in (k + 1) .. n : s[i] \in A
    BY <1>1
  <2>2. k + 1 \in Int /\ n \in Int
    BY <1>1
  <2>3. /\ high \in Seq(A)
        /\ Len(high) = IF k + 1 <= n THEN n - (k + 1) + 1 ELSE 0
        /\ \A i \in 1 .. (n - (k + 1) + 1) : high[i] = s[(k + 1) + i - 1]
    BY <2>1, <2>2, SubSeqProperties
  <2> HIDE DEF high
  <2>4. Len(high) = n - k
    BY <1>1, <2>3
  <2>5. ASSUME NEW i \in 1 .. (n - k)
        PROVE  high[i] = s[k + i]
    <3>1. i \in 1 .. (n - (k + 1) + 1) /\ (k + 1) + i - 1 = k + i
      BY <1>1
    <3>2. QED
      BY <2>3, <3>1
  <2>6. QED
    BY <2>3, <2>4, <2>5
<1>4. RemoveAt(s, k) = low \o high
  BY DEF RemoveAt, n
<1> HIDE DEF low, high
<1>5. /\ low \o high \in Seq(A)
      /\ Len(low \o high) = Len(low) + Len(high)
      /\ \A i \in 1 .. (Len(low) + Len(high)) :
           (low \o high)[i] = IF i <= Len(low) THEN low[i] ELSE high[i - Len(low)]
  BY <1>2, <1>3, ConcatProperties
<1>6. Len(low) + Len(high) = n - 1
  BY <1>1, <1>2, <1>3
<1>7. ASSUME NEW i \in 1 .. (n - 1)
      PROVE  (low \o high)[i] = IF i < k THEN s[i] ELSE s[i + 1]
  <2>1. (low \o high)[i] = IF i <= k - 1 THEN low[i] ELSE high[i - (k - 1)]
    BY <1>2, <1>5, <1>6
  <2>2. CASE i < k
    <3>1. i <= k - 1 /\ i \in 1 .. (k - 1)
      BY <1>1, <2>2
    <3>2. QED
      BY <1>2, <2>1, <2>2, <3>1
  <2>3. CASE ~(i < k)
    <3>1. ~(i <= k - 1) /\ i - (k - 1) \in 1 .. (n - k) /\ k + (i - (k - 1)) = i + 1
      BY <1>1, <2>3
    <3>2. QED
      BY <1>3, <2>1, <2>3, <3>1
  <2>4. QED
    BY <2>2, <2>3
<1>8. QED
  BY <1>4, <1>5, <1>6, <1>7 DEF n

LEMMA InitIInv == Init => IInv
<1> SUFFICES ASSUME Init PROVE IInv
  OBVIOUS
<1>1. /\ m_sources = <<>> /\ Len(<<>>) = 0 /\ <<>> \in Seq(0 .. MaxId)
      /\ next = 0 /\ erasing = FALSE /\ source_it = 1
  BY EmptySeq DEF Init
<1>2. InRange
  <2>1. m_sources \in Seq(0 .. MaxId) /\ erasing \in BOOLEAN
    BY <1>1, Zenon
  <2>2. Len(m_sources) = 0
    BY <1>1, Zenon
  <2>3. source_it = 1 /\ next = 0
    BY <1>1, Zenon
  <2>4. source_it \in 1 .. (Len(m_sources) + 1)
    BY <2>2, <2>3
  <2>5. next \in 0 .. (MaxId + 1)
    BY <2>3, CodecAssumption
  <2>6. QED
    BY <2>1, <2>4, <2>5 DEF InRange
<1>3. Increasing
  BY <1>1 DEF Increasing
<1>4. FromAnAck
  BY EmptyIsRead DEF Init, FromAnAck, Acks
<1>5. Passed
  BY DEF Init, Passed
<1>6. QED
  BY <1>2, <1>3, <1>4, <1>5 DEF IInv

(* Each operation, and each step of the loop, keeps it.                    *)
LEMMA EmplaceKeeps == IInv /\ Emplace => IInv'
<1> SUFFICES ASSUME IInv, Emplace PROVE IInv'
  OBVIOUS
<1> DEFINE n == Len(m_sources)
           l == Append(m_sources, next)
<1>1. /\ m_sources \in Seq(0 .. MaxId) /\ n \in Nat /\ MaxId \in Nat
      /\ \A i \in 1 .. n : m_sources[i] \in Nat
  BY ListFacts
<1>2. /\ ~erasing /\ next <= MaxId /\ m_sources' = l /\ next' = next + 1
      /\ erasing' = erasing /\ source_it' = source_it /\ pending' = pending
      /\ acked' = acked /\ read' = read
  BY DEF Emplace, ack
<1>3. next \in 0 .. MaxId /\ pending = {} /\ source_it \in 1 .. (n + 1)
      /\ erasing \in BOOLEAN
  BY <1>1, <1>2 DEF IInv, InRange, FromAnAck
<1>4. /\ l \in Seq(0 .. MaxId) /\ Len(l) = n + 1
      /\ \A i \in 1 .. n : l[i] = m_sources[i]
      /\ l[n + 1] = next
  BY <1>1, <1>3, AppendProperties
<1> HIDE DEF l, n
<1>5. InRange'
  <2>1. next + 1 \in 0 .. (MaxId + 1) /\ source_it \in 1 .. (n + 1 + 1)
    BY <1>1, <1>3
  <2>2. QED
    BY <1>2, <1>3, <1>4, <2>1 DEF InRange
<1>6. Increasing'
  <2>1. /\ \A i, j \in 1 .. n : i < j => m_sources[i] < m_sources[j]
        /\ \A i \in 1 .. n : m_sources[i] < next
    BY DEF IInv, Increasing, n
  <2>2. ASSUME NEW i \in 1 .. (n + 1)
        PROVE  l[i] <= next /\ (i # n + 1 => i \in 1 .. n /\ l[i] = m_sources[i] /\ l[i] < next)
    <3>1. CASE i = n + 1
      BY <1>3, <1>4, <3>1
    <3>2. CASE i # n + 1
      <4>1. i \in 1 .. n
        BY <1>1, <3>2
      <4>2. QED
        BY <1>1, <1>3, <1>4, <2>1, <3>2, <4>1
    <3>3. QED
      BY <3>1, <3>2
  <2>3. ASSUME NEW i \in 1 .. (n + 1), NEW j \in 1 .. (n + 1), i < j
        PROVE  l[i] < l[j]
    <3>1. i \in 1 .. n /\ i # n + 1
      BY <1>1, <2>3
    <3>2. CASE j = n + 1
      BY <1>4, <2>2, <3>1, <3>2
    <3>3. CASE j # n + 1
      BY <2>1, <2>2, <2>3, <3>1, <3>3
    <3>4. QED
      BY <3>2, <3>3
  <2>4. \A i \in 1 .. (n + 1) : l[i] < next + 1
    <3>1. TAKE i \in 1 .. (n + 1)
    <3>2. l[i] \in Nat /\ l[i] <= next
      <4>1. l[i] \in 0 .. MaxId
        BY <1>4, ElementOfSeq
      <4>2. QED
        BY <2>2, <4>1
    <3>3. QED
      BY <1>3, <3>2
  <2>5. QED
    BY <1>2, <1>4, <2>3, <2>4 DEF Increasing
<1>7. FromAnAck'
  BY <1>2 DEF IInv, FromAnAck
<1>8. Passed'
  BY <1>2, <1>3 DEF Passed
<1>9. QED
  BY <1>5, <1>6, <1>7, <1>8 DEF IInv

LEMMA PopFrontKeeps == IInv /\ PopFront => IInv'
<1> SUFFICES ASSUME IInv, PopFront PROVE IInv'
  OBVIOUS
<1> DEFINE n == Len(m_sources)
           l == Tail(m_sources)
<1>1. /\ m_sources \in Seq(0 .. MaxId) /\ n \in Nat
  BY ListFacts
<1>2. /\ ~erasing /\ m_sources # <<>> /\ m_sources' = l /\ next' = next
      /\ erasing' = erasing /\ source_it' = source_it /\ pending' = pending
      /\ acked' = acked /\ read' = read
  BY DEF PopFront, ack
<1>3. /\ l \in Seq(0 .. MaxId) /\ Len(l) = n - 1
      /\ \A i \in 1 .. Len(l) : l[i] = m_sources[i + 1]
  BY <1>1, <1>2, HeadTailProperties
<1>4. next \in 0 .. (MaxId + 1) /\ pending = {} /\ source_it = 1 /\ erasing \in BOOLEAN
  BY <1>2 DEF IInv, InRange, FromAnAck
<1> HIDE DEF l
<1>5. InRange'
  <2>1. source_it \in 1 .. (Len(l) + 1)
    BY <1>3, <1>4, LenProperties
  <2>2. QED
    BY <1>2, <1>3, <1>4, <2>1 DEF InRange
<1>6. Increasing'
  <2>1. /\ \A i, j \in 1 .. n : i < j => m_sources[i] < m_sources[j]
        /\ \A i \in 1 .. n : m_sources[i] < next
    BY DEF IInv, Increasing
  <2> HIDE DEF n
  <2>2. Len(l) \in Nat
    BY <1>3, LenProperties
  <2>3. ASSUME NEW i \in 1 .. Len(l)
        PROVE  i + 1 \in 1 .. n /\ l[i] = m_sources[i + 1]
    BY <1>1, <1>3, <2>2
  <2>4. \A i \in 1 .. Len(l) : l[i] < next
    BY <2>1, <2>3
  <2>5. ASSUME NEW i \in 1 .. Len(l), NEW j \in 1 .. Len(l), i < j
        PROVE  l[i] < l[j]
    <3>1. i + 1 < j + 1
      BY <2>2, <2>5
    <3>2. QED
      BY <2>1, <2>3, <3>1
  <2>6. QED
    BY <1>2, <2>4, <2>5 DEF Increasing
<1>7. FromAnAck'
  BY <1>2 DEF IInv, FromAnAck
<1>8. Passed'
  BY <1>2, <1>4 DEF Passed
<1>9. QED
  BY <1>5, <1>6, <1>7, <1>8 DEF IInv

LEMMA BeginEraseKeeps ==
  ASSUME IInv, NEW ids \in SUBSET (0 .. (MaxId + 1)), BeginErase(ids)
  PROVE  IInv'
<1>1. /\ ~erasing /\ erasing' = TRUE /\ source_it' = 1 /\ acked' = ids
      /\ read' = ReadBack(Written(ids)) /\ pending' = read'
      /\ m_sources' = m_sources /\ next' = next
  BY DEF BeginErase, list
<1>2. InRange'
  <2>1. 1 \in 1 .. (Len(m_sources) + 1)
    BY ListFacts
  <2>2. QED
    BY <1>1, <2>1 DEF IInv, InRange
<1>3. Increasing'
  BY <1>1 DEF IInv, Increasing
<1>4. FromAnAck'
  BY <1>1 DEF FromAnAck, Acks
<1>5. Passed'
  BY <1>1 DEF Passed
<1>6. QED
  BY <1>2, <1>3, <1>4, <1>5 DEF IInv

(* What a loop of erase knows of the two iterators.                        *)
LEMMA LoopingFacts ==
  ASSUME IInv, Looping
  PROVE  /\ erasing = TRUE
         /\ source_it \in 1 .. Len(m_sources)
         /\ Id \in pending /\ Id \in Nat
         /\ \A p \in pending : Id <= p
         /\ \A i \in 1 .. (source_it - 1) : m_sources[i] < Id
<1>1. pending \in SUBSET Nat /\ pending # {} /\ Len(m_sources) \in Nat
  BY ListFacts DEF Looping
<1>2. Id \in pending /\ \A p \in pending : Id <= p
  BY <1>1, MinIs DEF Id
<1>3. source_it \in 1 .. Len(m_sources)
  BY <1>1 DEF Looping, IInv, InRange
<1>4. erasing = TRUE
  BY DEF Looping, IInv, InRange
<1>5. \A i \in 1 .. (source_it - 1) : m_sources[i] < Id
  BY <1>2 DEF IInv, Passed
<1>6. QED
  BY <1>1, <1>2, <1>3, <1>4, <1>5

LEMMA EraseFoundKeeps == IInv /\ EraseFound => IInv'
<1> SUFFICES ASSUME IInv, EraseFound PROVE IInv'
  OBVIOUS
<1> DEFINE n == Len(m_sources)
           l == RemoveAt(m_sources, source_it)
<1>1. /\ Looping /\ m_sources' = l /\ pending' = pending \ {Id}
      /\ next' = next /\ erasing' = erasing /\ source_it' = source_it
      /\ acked' = acked /\ read' = read
  BY DEF EraseFound, ack
<1>2. erasing = TRUE /\ source_it \in 1 .. n
  BY <1>1, LoopingFacts
<1>3. m_sources \in Seq(0 .. MaxId) /\ n \in Nat
  BY ListFacts
<1>4. /\ l \in Seq(0 .. MaxId) /\ Len(l) = n - 1
      /\ \A i \in 1 .. (n - 1) : l[i] = IF i < source_it THEN m_sources[i] ELSE m_sources[i + 1]
  BY <1>2, <1>3, RemoveAtIs
<1> HIDE DEF l
<1>5. InRange'
  <2>1. source_it \in 1 .. (Len(l) + 1)
    BY <1>2, <1>3, <1>4
  <2>2. QED
    BY <1>1, <1>2, <1>4, <2>1 DEF IInv, InRange
<1>6. Increasing'
  <2>1. /\ \A i, j \in 1 .. n : i < j => m_sources[i] < m_sources[j]
        /\ \A i \in 1 .. n : m_sources[i] < next
    BY DEF IInv, Increasing
  <2> HIDE DEF n
  <2>2. ASSUME NEW i \in 1 .. (n - 1)
        PROVE  /\ i \in 1 .. n /\ i + 1 \in 1 .. n
               /\ l[i] = IF i < source_it THEN m_sources[i] ELSE m_sources[i + 1]
    BY <1>3, <1>4
  <2>3. \A i \in 1 .. (n - 1) : l[i] < next
    BY <2>1, <2>2
  <2>4. ASSUME NEW i \in 1 .. (n - 1), NEW j \in 1 .. (n - 1), i < j
        PROVE  l[i] < l[j]
    <3>1. i < j + 1 /\ i + 1 < j + 1 /\ (j < source_it => i < source_it)
      BY <1>2, <1>3, <2>4
    <3>2. CASE i < source_it /\ j < source_it
      BY <2>1, <2>2, <2>4, <3>2
    <3>3. CASE i < source_it /\ ~(j < source_it)
      BY <2>1, <2>2, <3>1, <3>3
    <3>4. CASE ~(i < source_it) /\ ~(j < source_it)
      BY <2>1, <2>2, <3>1, <3>4
    <3>5. QED
      BY <3>1, <3>2, <3>3, <3>4
  <2>5. QED
    BY <1>1, <1>4, <2>3, <2>4 DEF Increasing
<1>7. FromAnAck'
  BY <1>1, <1>2 DEF IInv, FromAnAck
<1>8. Passed'
  <2>1. ASSUME NEW i \in 1 .. (source_it - 1)
        PROVE  l[i] = m_sources[i]
    <3>1. i \in 1 .. (n - 1) /\ i < source_it
      BY <1>2, <1>3
    <3>2. QED
      BY <1>4, <3>1
  <2>2. \A i \in 1 .. (source_it - 1) : \A p \in pending : m_sources[i] < p
    BY DEF IInv, Passed
  <2>3. QED
    BY <1>1, <2>1, <2>2 DEF Passed
<1>9. QED
  BY <1>5, <1>6, <1>7, <1>8 DEF IInv

LEMMA IgnoreIdKeeps == IInv /\ IgnoreId => IInv'
<1> SUFFICES ASSUME IInv, IgnoreId PROVE IInv'
  OBVIOUS
<1>1. /\ Looping /\ pending' = pending \ {Id}
      /\ m_sources' = m_sources /\ next' = next /\ erasing' = erasing
      /\ source_it' = source_it /\ acked' = acked /\ read' = read
  BY DEF IgnoreId, list, ack
<1>2. erasing = TRUE
  BY <1>1, LoopingFacts
<1>3. InRange'
  BY <1>1 DEF IInv, InRange
<1>4. Increasing'
  BY <1>1 DEF IInv, Increasing
<1>5. FromAnAck'
  BY <1>1, <1>2 DEF IInv, FromAnAck
<1>6. Passed'
  BY <1>1 DEF IInv, Passed
<1>7. QED
  BY <1>3, <1>4, <1>5, <1>6 DEF IInv

LEMMA NextSourceKeeps == IInv /\ NextSource => IInv'
<1> SUFFICES ASSUME IInv, NextSource PROVE IInv'
  OBVIOUS
<1>1. /\ Looping /\ m_sources[source_it] < Id /\ source_it' = source_it + 1
      /\ m_sources' = m_sources /\ next' = next /\ erasing' = erasing
      /\ pending' = pending /\ acked' = acked /\ read' = read
  BY DEF NextSource, list, ack
<1>2. /\ erasing = TRUE /\ source_it \in 1 .. Len(m_sources)
      /\ Id \in Nat /\ \A p \in pending : Id <= p
      /\ \A i \in 1 .. (source_it - 1) : m_sources[i] < Id
  BY <1>1, LoopingFacts
<1>3. /\ Len(m_sources) \in Nat /\ pending \in SUBSET Nat
      /\ \A i \in 1 .. Len(m_sources) : m_sources[i] \in Nat
  BY ListFacts
<1>4. InRange'
  <2>1. source_it + 1 \in 1 .. (Len(m_sources) + 1)
    BY <1>2, <1>3
  <2>2. QED
    BY <1>1, <2>1 DEF IInv, InRange
<1>5. Increasing'
  BY <1>1 DEF IInv, Increasing
<1>6. FromAnAck'
  BY <1>1, <1>2 DEF IInv, FromAnAck
<1>7. Passed'
  <2>1. ASSUME NEW i \in 1 .. ((source_it + 1) - 1), NEW p \in pending
        PROVE  m_sources[i] < p
    <3>1. i \in 1 .. Len(m_sources) /\ (i = source_it \/ i \in 1 .. (source_it - 1))
      BY <1>2, <1>3
    <3>2. m_sources[i] < Id
      BY <1>1, <1>2, <3>1
    <3>3. m_sources[i] \in Nat /\ p \in Nat /\ Id <= p
      BY <1>2, <1>3, <3>1
    <3>4. QED
      BY <1>2, <3>2, <3>3
  <2>2. QED
    BY <1>1, <2>1 DEF Passed
<1>8. QED
  BY <1>4, <1>5, <1>6, <1>7 DEF IInv

LEMMA EndEraseKeeps == IInv /\ EndErase => IInv'
<1> SUFFICES ASSUME IInv, EndErase PROVE IInv'
  OBVIOUS
<1>1. /\ erasing' = FALSE /\ source_it' = 1 /\ pending' = {}
      /\ acked' = {} /\ read' = {} /\ m_sources' = m_sources /\ next' = next
  BY DEF EndErase, list
<1>2. InRange'
  <2>1. 1 \in 1 .. (Len(m_sources) + 1)
    BY ListFacts
  <2>2. QED
    BY <1>1, <2>1 DEF IInv, InRange
<1>3. Increasing'
  BY <1>1 DEF IInv, Increasing
<1>4. FromAnAck'
  BY <1>1, EmptyIsRead DEF FromAnAck, Acks
<1>5. Passed'
  BY <1>1 DEF Passed
<1>6. QED
  BY <1>2, <1>3, <1>4, <1>5 DEF IInv

LEMMA StepIInv == IInv /\ [Next]_vars => IInv'
<1> SUFFICES ASSUME IInv, [Next]_vars PROVE IInv'
  OBVIOUS
<1>1. CASE UNCHANGED vars
  BY <1>1 DEF vars, list, ack, IInv, InRange, Increasing, FromAnAck, Passed
<1>2. CASE Emplace
  BY <1>2, EmplaceKeeps
<1>3. CASE PopFront
  BY <1>3, PopFrontKeeps
<1>4. ASSUME NEW ids \in SUBSET (0 .. (MaxId + 1)), BeginErase(ids)
      PROVE  IInv'
  BY <1>4, BeginEraseKeeps
<1>5. CASE Loop
  BY <1>5, EraseFoundKeeps, IgnoreIdKeeps, NextSourceKeeps, EndEraseKeeps DEF Loop
<1>6. QED
  BY <1>1, <1>2, <1>3, <1>4, <1>5 DEF Next

(* The list, the iterators and the ack keep the inductive invariant.       *)
THEOREM SourceListSoundness == Spec => []IInv
BY InitIInv, StepIInv, PTL DEF Spec

(* Every list of identifiers has its type, and the iterator of erase       *)
(* designates an element or the end (source_list.hh:38-59).                *)
THEOREM ListTypeCorrect == Spec => []TypeOK
<1>1. IInv => TypeOK
  <2> SUFFICES ASSUME IInv PROVE TypeOK
    OBVIOUS
  <2>1. acked \cup read \subseteq 0 .. (MaxId + 1)
    BY ListFacts DEF IInv, FromAnAck, Acks
  <2>2. QED
    BY <2>1 DEF IInv, InRange, FromAnAck, TypeOK
<1>2. QED
  BY <1>1, SourceListSoundness, PTL

(* An ack whose holes and whose number of elements fit their fields erases *)
(* exactly what the decoder acknowledged (packetizer.hh:258-352).          *)
THEOREM AlwaysRoundTrip == Spec => []RoundTrip
<1>1. IInv => RoundTrip
  BY ReadAsWritten DEF IInv, FromAnAck, RoundTrip
<1>2. QED
  BY <1>1, SourceListSoundness, PTL

(* Whatever its holes, an ack whose number of elements fits its field is   *)
(* read between its first and its last identifier, and its first is exact  *)
(* (packetizer.hh:311-352).                                                *)
THEOREM AlwaysWithinWritten == Spec => []WithinWritten
<1>1. IInv => WithinWritten
  BY ReadWithinWritten DEF IInv, FromAnAck, WithinWritten
<1>2. QED
  BY <1>1, SourceListSoundness, PTL

-----------------------------------------------------------------------------
(***************************************************************************)
(* The loop of erase implements a set difference, step by step.            *)
(***************************************************************************)
InWindow == ToSet(m_sources) \ pending

LEMMA MembersAre ==
  ASSUME NEW A, NEW s \in Seq(A)
  PROVE  ToSet(s) = {s[i] : i \in 1 .. Len(s)}
BY LenProperties DEF ToSet

LEMMA InitIsAbstract == Init => Abstract!Init
<1> SUFFICES ASSUME Init PROVE Abstract!Init
  OBVIOUS
<1>1. /\ m_sources = <<>> /\ Len(<<>>) = 0 /\ <<>> \in Seq(0 .. MaxId)
      /\ next = 0
  BY EmptySeq DEF Init
<1>2. ToSet(<<>>) = {}
  <2>1. ToSet(<<>>) = {<<>>[i] : i \in 1 .. Len(<<>>)}
    BY <1>1, MembersAre
  <2>2. 1 .. Len(<<>>) = {}
    BY <1>1
  <2>3. QED
    BY <2>1, <2>2
<1>3. InWindow = {}
  BY <1>1, <1>2 DEF InWindow
<1>4. QED
  BY <1>1, <1>3 DEF InWindow, Abstract!Init

LEMMA EmplaceIsAbstract == IInv /\ Emplace => Abstract!Emplace
<1> SUFFICES ASSUME IInv, Emplace PROVE Abstract!Emplace
  OBVIOUS
<1> DEFINE n == Len(m_sources)
           l == Append(m_sources, next)
<1>1. /\ ~erasing /\ next <= MaxId /\ m_sources' = l /\ next' = next + 1
      /\ pending' = pending
  BY DEF Emplace
<1>2. pending = {} /\ next \in 0 .. MaxId
  BY <1>1, ListFacts DEF IInv, InRange, FromAnAck
<1>3. m_sources \in Seq(0 .. MaxId) /\ n \in Nat
  BY ListFacts
<1>4. /\ l \in Seq(0 .. MaxId) /\ Len(l) = n + 1
      /\ \A i \in 1 .. n : l[i] = m_sources[i]
      /\ l[n + 1] = next
  BY <1>2, <1>3, AppendProperties
<1> HIDE DEF l
<1>5. ToSet(l) = {l[i] : i \in 1 .. (n + 1)} /\ ToSet(m_sources) = {m_sources[i] : i \in 1 .. n}
  BY <1>3, <1>4, MembersAre
<1> HIDE DEF n
<1>6. ToSet(l) = ToSet(m_sources) \cup {next}
  <2>1. 1 .. (n + 1) = (1 .. n) \cup {n + 1}
    BY <1>3
  <2>2. QED
    BY <1>4, <1>5, <2>1
<1>7. InWindow' = InWindow \cup {next}
  BY <1>1, <1>2, <1>6 DEF InWindow
<1>8. QED
  BY <1>1, <1>7 DEF InWindow, Abstract!Emplace

LEMMA PopFrontIsAbstract == IInv /\ PopFront => Abstract!PopFront
<1> SUFFICES ASSUME IInv, PopFront PROVE Abstract!PopFront
  OBVIOUS
<1> DEFINE n == Len(m_sources)
           l == Tail(m_sources)
           S == ToSet(m_sources)
<1>1. /\ ~erasing /\ m_sources # <<>> /\ m_sources' = l /\ next' = next
      /\ pending' = pending
  BY DEF PopFront
<1>2. pending = {}
  BY <1>1 DEF IInv, FromAnAck
<1>3. /\ m_sources \in Seq(0 .. MaxId) /\ n \in Nat
      /\ \A i \in 1 .. n : m_sources[i] \in Nat
  BY ListFacts
<1>4. n # 0
  BY <1>1, <1>3, EmptySeq
<1>5. /\ l \in Seq(0 .. MaxId) /\ Len(l) = n - 1
      /\ \A i \in 1 .. (n - 1) : l[i] = m_sources[i + 1]
  <2>1. /\ l \in Seq(0 .. MaxId) /\ Len(l) = n - 1
        /\ \A i \in 1 .. Len(l) : l[i] = m_sources[i + 1]
    BY <1>1, <1>3, HeadTailProperties
  <2> HIDE DEF l, n
  <2>2. QED
    BY <2>1
<1> HIDE DEF l
<1>6. ToSet(l) = {l[i] : i \in 1 .. (n - 1)} /\ S = {m_sources[i] : i \in 1 .. n}
  BY <1>3, <1>5, MembersAre
<1>7. \A i, j \in 1 .. n : i < j => m_sources[i] < m_sources[j]
  BY DEF IInv, Increasing
<1> HIDE DEF n, S
<1>8. m_sources[1] \in S /\ \A m \in S : m_sources[1] <= m
  <2>1. 1 \in 1 .. n
    BY <1>3, <1>4
  <2>2. ASSUME NEW i \in 1 .. n
        PROVE  m_sources[1] <= m_sources[i]
    <3>1. CASE i = 1
      BY <1>3, <2>1, <3>1
    <3>2. CASE 1 < i
      BY <1>3, <1>7, <2>1, <3>2
    <3>3. QED
      BY <3>1, <3>2
  <2>3. QED
    BY <1>6, <2>1, <2>2
<1>9. Min(S) = m_sources[1]
  <2>1. S \in SUBSET Nat /\ S # {}
    BY <1>3, <1>6, <1>8
  <2>2. Min(S) \in S /\ \A m \in S : Min(S) <= m
    BY <2>1, MinIs
  <2>3. Min(S) \in Nat /\ m_sources[1] \in Nat
    BY <1>8, <2>1, <2>2
  <2>4. QED
    BY <1>8, <2>2, <2>3
<1>10. ToSet(l) = S \ {m_sources[1]}
  <2>1. ASSUME NEW i \in 1 .. (n - 1)
        PROVE  l[i] \in S \ {m_sources[1]}
    <3>1. i + 1 \in 1 .. n /\ 1 \in 1 .. n /\ 1 < i + 1
      BY <1>3, <1>4
    <3>2. /\ m_sources[1] < m_sources[i + 1]
          /\ m_sources[1] \in Nat /\ m_sources[i + 1] \in Nat
      BY <1>3, <1>7, <3>1
    <3>3. m_sources[i + 1] \in S /\ m_sources[i + 1] # m_sources[1]
      BY <1>6, <3>1, <3>2
    <3>4. QED
      BY <1>5, <3>3
  <2>2. ASSUME NEW i \in 1 .. n, m_sources[i] # m_sources[1]
        PROVE  m_sources[i] \in ToSet(l)
    <3>1. i # 1 /\ i - 1 \in 1 .. (n - 1) /\ (i - 1) + 1 = i
      BY <1>3, <2>2
    <3>2. l[i - 1] = m_sources[i]
      BY <1>5, <3>1
    <3>3. QED
      BY <1>6, <3>1, <3>2
  <2>3. QED
    BY <1>6, <2>1, <2>2
<1>11. InWindow = S /\ InWindow' = InWindow \ {Min(InWindow)} /\ InWindow # {}
  BY <1>1, <1>2, <1>8, <1>9, <1>10 DEF InWindow, S
<1>12. QED
  BY <1>1, <1>11 DEF InWindow, Abstract!PopFront, Abstract!Min, Min

LEMMA BeginEraseIsAbstract ==
  ASSUME IInv, NEW ids \in SUBSET (0 .. (MaxId + 1)), BeginErase(ids)
  PROVE  \E e \in SUBSET (0 .. (MaxId + 1)) : Abstract!Erase(e)
<1> DEFINE e == ReadBack(Written(ids))
<1>1. /\ ~erasing /\ pending' = e /\ m_sources' = m_sources /\ next' = next
  BY DEF BeginErase, list
<1>2. pending = {}
  BY <1>1 DEF IInv, FromAnAck
<1>3. e \in SUBSET (0 .. (MaxId + 1))
  BY ReadIsAck DEF Acks
<1> HIDE DEF e
<1>4. InWindow' = InWindow \ e
  BY <1>1, <1>2 DEF InWindow
<1>5. Abstract!Erase(e)
  BY <1>1, <1>4 DEF InWindow, Abstract!Erase
<1>6. QED
  BY <1>3, <1>5

(* The two iterators leave what neither needs.                             *)
LEMMA EraseFoundStutters == IInv /\ EraseFound => InWindow' = InWindow
<1> SUFFICES ASSUME IInv, EraseFound PROVE InWindow' = InWindow
  OBVIOUS
<1> DEFINE n == Len(m_sources)
           k == source_it
           l == RemoveAt(m_sources, k)
<1>1. /\ Looping /\ m_sources[k] = Id /\ m_sources' = l /\ pending' = pending \ {Id}
  BY DEF EraseFound
<1>2. k \in 1 .. n /\ Id \in pending
  BY <1>1, LoopingFacts
<1>3. /\ m_sources \in Seq(0 .. MaxId) /\ n \in Nat
      /\ \A i \in 1 .. n : m_sources[i] \in Nat
  BY ListFacts
<1>4. /\ l \in Seq(0 .. MaxId) /\ Len(l) = n - 1
      /\ \A i \in 1 .. (n - 1) : l[i] = IF i < k THEN m_sources[i] ELSE m_sources[i + 1]
  BY <1>2, <1>3, RemoveAtIs
<1> HIDE DEF l
<1>5. ToSet(l) = {l[i] : i \in 1 .. (n - 1)} /\ ToSet(m_sources) = {m_sources[i] : i \in 1 .. n}
  BY <1>3, <1>4, MembersAre
<1>6. \A i, j \in 1 .. n : i < j => m_sources[i] < m_sources[j]
  BY DEF IInv, Increasing
<1> HIDE DEF n, k
<1>7. ToSet(m_sources) \ {Id} \subseteq ToSet(l)
  <2>1. ASSUME NEW i \in 1 .. n, m_sources[i] # Id
        PROVE  m_sources[i] \in ToSet(l)
    <3>1. i # k
      BY <1>1, <2>1
    <3>2. CASE i < k
      <4>1. i \in 1 .. (n - 1)
        BY <1>2, <1>3, <3>2
      <4>2. l[i] = m_sources[i]
        BY <1>4, <3>2, <4>1
      <4>3. QED
        BY <1>5, <4>1, <4>2
    <3>3. CASE k < i
      <4>1. i - 1 \in 1 .. (n - 1) /\ ~(i - 1 < k) /\ (i - 1) + 1 = i
        BY <1>2, <1>3, <3>3
      <4>2. l[i - 1] = m_sources[i]
        BY <1>4, <4>1
      <4>3. QED
        BY <1>5, <4>1, <4>2
    <3>4. QED
      BY <1>2, <1>3, <3>1, <3>2, <3>3
  <2>2. QED
    BY <1>5, <2>1
<1>8. ToSet(l) \subseteq ToSet(m_sources) \ {Id}
  <2>1. ASSUME NEW i \in 1 .. (n - 1)
        PROVE  l[i] \in ToSet(m_sources) \ {Id}
    <3>1. CASE i < k
      <4>1. i \in 1 .. n
        BY <1>3
      <4>2. m_sources[i] < m_sources[k] /\ m_sources[i] \in Nat /\ m_sources[k] \in Nat
        BY <1>2, <1>3, <1>6, <3>1, <4>1
      <4>3. m_sources[i] # Id
        BY <1>1, <4>2
      <4>4. QED
        BY <1>4, <1>5, <3>1, <4>1, <4>3
    <3>2. CASE ~(i < k)
      <4>1. i + 1 \in 1 .. n /\ k < i + 1
        BY <1>2, <1>3, <3>2
      <4>2. m_sources[k] < m_sources[i + 1] /\ m_sources[i + 1] \in Nat /\ m_sources[k] \in Nat
        BY <1>2, <1>3, <1>6, <4>1
      <4>3. m_sources[i + 1] # Id
        BY <1>1, <4>2
      <4>4. QED
        BY <1>4, <1>5, <3>2, <4>1, <4>3
    <3>3. QED
      BY <3>1, <3>2
  <2>2. QED
    BY <1>5, <2>1
<1>9. QED
  BY <1>1, <1>2, <1>7, <1>8 DEF InWindow

LEMMA IgnoreIdStutters == IInv /\ IgnoreId => InWindow' = InWindow
<1> SUFFICES ASSUME IInv, IgnoreId PROVE InWindow' = InWindow
  OBVIOUS
<1> DEFINE n == Len(m_sources)
<1>1. /\ Looping /\ m_sources[source_it] > Id /\ m_sources' = m_sources
      /\ pending' = pending \ {Id}
  BY DEF IgnoreId, list
<1>2. /\ source_it \in 1 .. n /\ Id \in Nat
      /\ \A i \in 1 .. (source_it - 1) : m_sources[i] < Id
  BY <1>1, LoopingFacts
<1>3. /\ m_sources \in Seq(0 .. MaxId) /\ n \in Nat
      /\ \A i \in 1 .. n : m_sources[i] \in Nat
  BY ListFacts
<1>4. \A i, j \in 1 .. n : i < j => m_sources[i] < m_sources[j]
  BY DEF IInv, Increasing
<1>5. ToSet(m_sources) = {m_sources[i] : i \in 1 .. n}
  BY <1>3, MembersAre
<1> HIDE DEF n
<1>6. ASSUME NEW i \in 1 .. n
      PROVE  m_sources[i] # Id
  <2>1. m_sources[i] \in Nat /\ m_sources[source_it] \in Nat
    BY <1>2, <1>3
  <2>2. CASE i < source_it
    <3>1. i \in 1 .. (source_it - 1)
      BY <1>2, <1>3, <2>2
    <3>2. m_sources[i] < Id
      BY <1>2, <3>1
    <3>3. QED
      BY <1>2, <2>1, <3>2
  <2>3. CASE i = source_it
    BY <1>1, <1>2, <2>1, <2>3
  <2>4. CASE source_it < i
    <3>1. m_sources[source_it] < m_sources[i]
      BY <1>2, <1>4, <2>4
    <3>2. QED
      BY <1>1, <1>2, <2>1, <3>1
  <2>5. QED
    BY <1>2, <1>3, <2>2, <2>3, <2>4
<1>7. Id \notin ToSet(m_sources)
  BY <1>5, <1>6
<1>8. QED
  BY <1>1, <1>7 DEF InWindow

LEMMA EndEraseStutters == IInv /\ EndErase => InWindow' = InWindow
<1> SUFFICES ASSUME IInv, EndErase PROVE InWindow' = InWindow
  OBVIOUS
<1> DEFINE n == Len(m_sources)
<1>1. erasing /\ ~Looping /\ m_sources' = m_sources /\ pending' = {}
  BY DEF EndErase, list
<1>2. /\ m_sources \in Seq(0 .. MaxId) /\ n \in Nat /\ pending \in SUBSET Nat
      /\ \A i \in 1 .. n : m_sources[i] \in Nat
  BY ListFacts
<1>3. source_it \in 1 .. (n + 1)
  BY DEF IInv, InRange
<1>4. ToSet(m_sources) = {m_sources[i] : i \in 1 .. n}
  BY <1>2, MembersAre
<1>5. CASE pending = {}
  BY <1>1, <1>5 DEF InWindow
<1>6. CASE pending # {}
  <2>1. ~(source_it <= n)
    BY <1>1, <1>6 DEF Looping
  <2> HIDE DEF n
  <2>2. source_it - 1 = n
    BY <1>2, <1>3, <2>1
  <2>3. ASSUME NEW i \in 1 .. n
        PROVE  m_sources[i] \notin pending
    <3>1. \A p \in pending : m_sources[i] < p
      BY <2>2 DEF IInv, Passed
    <3>2. m_sources[i] \in Nat
      BY <1>2
    <3>3. QED
      BY <3>1, <3>2
  <2>4. QED
    BY <1>1, <1>4, <2>3 DEF InWindow
<1>7. QED
  BY <1>5, <1>6

LEMMA LoopStutters == IInv /\ Loop => InWindow' = InWindow /\ next' = next
<1>1. NextSource => InWindow' = InWindow
  BY DEF NextSource, list, InWindow
<1>2. Loop => next' = next
  BY DEF Loop, EraseFound, IgnoreId, NextSource, EndErase, list
<1>3. QED
  BY <1>1, <1>2, EraseFoundStutters, IgnoreIdStutters, EndEraseStutters DEF Loop

LEMMA StepIsAbstract == IInv /\ [Next]_vars => [Abstract!Next]_<<InWindow, next>>
<1> SUFFICES ASSUME IInv, [Next]_vars
             PROVE  Abstract!Next \/ (InWindow' = InWindow /\ next' = next)
  OBVIOUS
<1>1. CASE UNCHANGED vars
  BY <1>1 DEF vars, list, InWindow
<1>2. CASE Emplace
  BY <1>2, EmplaceIsAbstract DEF Abstract!Next
<1>3. CASE PopFront
  BY <1>3, PopFrontIsAbstract DEF Abstract!Next
<1>4. ASSUME NEW ids \in SUBSET (0 .. (MaxId + 1)), BeginErase(ids)
      PROVE  Abstract!Next
  BY <1>4, BeginEraseIsAbstract DEF Abstract!Next
<1>5. CASE Loop
  BY <1>5, LoopStutters
<1>6. QED
  BY <1>1, <1>2, <1>3, <1>4, <1>5 DEF Next

(* A call of erase removes what it is asked to and nothing else: the loop  *)
(* of source_list.hh:38-59 is a set difference made when it begins.        *)
THEOREM ErasesAtOnce == Spec => ImplementsWindow
<1>1. Init => Abstract!Init
  BY InitIsAbstract
<1>2. IInv /\ [Next]_vars => [Abstract!Next]_<<ToSet(m_sources) \ pending, next>>
  BY StepIsAbstract DEF InWindow
<1>3. QED
  BY <1>1, <1>2, SourceListSoundness, PTL DEF Spec, ImplementsWindow, Abstract!Spec
=============================================================================
