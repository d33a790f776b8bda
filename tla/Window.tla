------------------------------- MODULE Window -------------------------------
(***************************************************************************)
(* What the encoder expects of its window (encoder.hh:258-264, 315 and     *)
(* 332): a set of identifiers from which the oldest is dropped and any     *)
(* others are erased at once, as EncoderObject has it.                     *)
(***************************************************************************)
EXTENDS Integers, FiniteSetsExt

CONSTANT MaxId    \* bound: the greatest identifier given to the window

VARIABLES
  window,   \* the identifiers in the window
  next      \* the identifier of the next source

Init == window = {} /\ next = 0

Emplace ==
  /\ next <= MaxId
  /\ window' = window \cup {next}
  /\ next' = next + 1

PopFront ==
  /\ window # {}
  /\ window' = window \ {Min(window)}
  /\ UNCHANGED next

(* An ack may name anything, even what has not been sent.                  *)
Erase(ids) ==
  /\ window' = window \ ids
  /\ UNCHANGED next

Next == Emplace \/ PopFront \/ \E ids \in SUBSET (0 .. (MaxId + 1)) : Erase(ids)

Spec == Init /\ [][Next]_<<window, next>>
=============================================================================
