------------------------------ MODULE Delivery ------------------------------
(***************************************************************************)
(* What the user of an encoder and a decoder is promised, whatever is lost *)
(* between them: every source is handed over at most once, once committed; *)
(* a decoder in order goes through the sources in the order of their       *)
(* commits, and passes over one only if the encoder's window has dropped   *)
(* it to make room.                                                        *)
(***************************************************************************)
EXTENDS Integers

CONSTANT Sources     \* the identifiers that a source may have

VARIABLES
  committed,   \* how many sources have been committed
  dropped,     \* the ones the window dropped unacknowledged
  given,       \* how many times each source has been handed to the user
  inOrder      \* the option of the decoder's constructor

vars == <<committed, dropped, given, inOrder>>

Init ==
  /\ committed = 0
  /\ dropped = {}
  /\ given = [s \in Sources |-> 0]
  /\ inOrder \in BOOLEAN

-----------------------------------------------------------------------------
Known == 0 .. (committed - 1)

Commit ==
  /\ committed' = committed + 1
  /\ \E D \in SUBSET (Known \ dropped) : dropped' = dropped \cup D
  /\ UNCHANGED <<given, inOrder>>

(* The sources of S come next: nothing before them is still to come, and   *)
(* nothing after them has come yet.                                        *)
ComesNext(S) ==
  \A s \in S : \A t \in Known \ S :
    IF t < s THEN given[t] = 1 \/ t \in dropped ELSE given[t] = 0

Deliver(S) ==
  /\ \A s \in S : given[s] = 0
  /\ inOrder => ComesNext(S)
  /\ given' = [s \in Sources |-> IF s \in S THEN 1 ELSE given[s]]
  /\ UNCHANGED <<committed, dropped, inOrder>>

Next == Commit \/ \E S \in (SUBSET Known) \ {{}} : Deliver(S)

Spec == Init /\ [][Next]_vars
=============================================================================
