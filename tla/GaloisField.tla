---------------------------- MODULE GaloisField ----------------------------
(***************************************************************************)
(* The arithmetic of netcode/detail/galois_field.hh, over the smallest     *)
(* field of the library, the one of 16 elements.  gf-complete provides the *)
(* field itself; addition is the exclusive or.                             *)
(*                                                                         *)
(* The library offers fields of 4, 8, 16 and 32 bits, and sizes of sources *)
(* have 16 bits.  What matters of this is the ratio: with SizeWidth = 8 a  *)
(* size takes two elements, as in the field of 8 bits; with SizeWidth = 2  *)
(* it takes half of one, as in the field of 32 bits.                       *)
(***************************************************************************)
EXTENDS Integers, Bitwise

CONSTANTS
  SizeWidth,   \* bits of a size (16 in the code)
  IdWidth      \* bits of an identifier and of a product of two (32 in the code)

FieldWidth == 4       \* m_w

(* Elements are wider than sizes in the field of 32 bits only.             *)
ASSUME FieldAssumption ==
  /\ SizeWidth \in {2, 4, 8}
  /\ IdWidth \in FieldWidth .. 16
  /\ SizeWidth < FieldWidth => IdWidth = FieldWidth

-----------------------------------------------------------------------------
(* The powers of the generator, and the product they give.                 *)
Powers == <<1, 2, 4, 8, 3, 6, 12, 11, 5, 10, 7, 14, 15, 13, 9>>

Log(x) == CHOOSE n \in DOMAIN Powers : Powers[n] = x

Product ==
  [x, y \in 1 .. 15 |-> Powers[((Log(x) + Log(y) - 2) % 15) + 1]]

Times(x, y) == IF x = 0 \/ y = 0 THEN 0 ELSE Product[x, y]

Reciprocal(x) == CHOOSE y \in 1 .. 15 : Times(x, y) = 1

(* The last branch of multiply_size keeps as many bits of the product as a *)
(* size has.                                                               *)
MultiplySize(size, c) ==
  IF SizeWidth > FieldWidth
  THEN Times(size % 2 ^ FieldWidth, c) + 2 ^ FieldWidth * Times(size \div 2 ^ FieldWidth, c)
  ELSE Times(size, c) % 2 ^ SizeWidth

(* coefficient: never 0.  The product wraps around before it is reduced.   *)
(* Two slips: it may be 0, and it forgets the source.                      *)
IdProduct(r, s) == ((r + 1) + (s + 1)) * (r + 1)

CoefficientOrZero(r, s)   == (IdProduct(r, s) % 2 ^ IdWidth) % 15
CoefficientOfRepair(r, s) == ((IdProduct(r, r) % 2 ^ IdWidth) % 15) + 1

Coefficient(r, s) ==
  LET res == IdProduct(r, s) % 2 ^ IdWidth
  IN  IF SizeWidth >= FieldWidth THEN (res % 15) + 1
      ELSE IF res = 0            THEN 1
      ELSE res
=============================================================================
