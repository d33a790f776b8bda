----------------------------- MODULE SourceList -----------------------------
(***************************************************************************)
(* The container behind the encoder's window, detail::source_list          *)
(* (netcode/detail/source_list.hh): a list, and an erase that walks it and *)
(* the identifiers to erase together, one comparison per step.  Those are  *)
(* the ones of an ack, as the packetizer writes it at the decoder and      *)
(* reads it back at the encoder (IdCodec).                                 *)
(***************************************************************************)
EXTENDS IdCodec

VARIABLES
  m_sources,   \* the identifiers of the list, in its order
  next,        \* the identifier of the next source: the encoder's counter
  erasing,     \* whether erase is running
  source_it,   \* its position in the list
  pending,     \* from id_cit to id_end: what it has not dealt with
  acked,       \* what the decoder acknowledged
  read         \* what the encoder read of it

list == <<m_sources, next>>
ack  == <<acked, read>>
vars == <<list, erasing, source_it, pending, ack>>

Init ==
  /\ m_sources = <<>>
  /\ next = 0
  /\ erasing = FALSE
  /\ source_it = 1
  /\ pending = {}
  /\ acked = {}
  /\ read = {}

-----------------------------------------------------------------------------
Emplace ==
  /\ ~erasing
  /\ next <= MaxId
  /\ m_sources' = Append(m_sources, next)
  /\ next' = next + 1
  /\ UNCHANGED <<erasing, source_it, pending, ack>>

PopFront ==
  /\ ~erasing
  /\ m_sources # <<>>
  /\ m_sources' = Tail(m_sources)
  /\ UNCHANGED <<next, erasing, source_it, pending, ack>>

-----------------------------------------------------------------------------
(***************************************************************************)
(* erase.  id_cit is the least of what is pending, identifiers being kept  *)
(* in a sorted set.                                                        *)
(***************************************************************************)
BeginErase(ids) ==
  /\ ~erasing
  /\ erasing' = TRUE
  /\ source_it' = 1
  /\ acked' = ids
  /\ read' = ReadBack(Written(ids))
  /\ pending' = read'
  /\ UNCHANGED list

Looping == erasing /\ source_it <= Len(m_sources) /\ pending # {}
Id      == Min(pending)

(* A slip: the iterator is advanced although erase has returned the next.  *)
EraseFoundAndStep ==
  /\ Looping
  /\ m_sources[source_it] = Id
  /\ m_sources' = RemoveAt(m_sources, source_it)
  /\ source_it' = source_it + 1
  /\ pending' = pending \ {Id}
  /\ UNCHANGED <<next, erasing, ack>>

EraseFound ==
  /\ Looping
  /\ m_sources[source_it] = Id
  /\ m_sources' = RemoveAt(m_sources, source_it)
  /\ pending' = pending \ {Id}
  /\ UNCHANGED <<next, erasing, source_it, ack>>

(* A slip: an identifier that is not in the list is not skipped.           *)
StayOnId ==
  /\ Looping
  /\ m_sources[source_it] > Id
  /\ UNCHANGED vars

(* A slip: the other iterator is advanced.                                 *)
IgnoreSource ==
  /\ Looping
  /\ m_sources[source_it] > Id
  /\ source_it' = source_it + 1
  /\ UNCHANGED <<list, erasing, pending, ack>>

IgnoreId ==
  /\ Looping
  /\ m_sources[source_it] > Id
  /\ pending' = pending \ {Id}
  /\ UNCHANGED <<list, erasing, source_it, ack>>

NextSource ==
  /\ Looping
  /\ m_sources[source_it] < Id
  /\ source_it' = source_it + 1
  /\ UNCHANGED <<list, erasing, pending, ack>>

EndErase ==
  /\ erasing
  /\ ~Looping
  /\ erasing' = FALSE
  /\ source_it' = 1
  /\ pending' = {}
  /\ acked' = {}
  /\ read' = {}
  /\ UNCHANGED list

Loop == EraseFound \/ IgnoreId \/ NextSource \/ EndErase

Next ==
  \/ Emplace
  \/ PopFront
  \/ \E ids \in SUBSET (0 .. (MaxId + 1)) : BeginErase(ids)
  \/ Loop

(* erase is a loop of one thread: it goes on as long as it can.            *)
Spec == Init /\ [][Next]_vars /\ WF_vars(Loop)

-----------------------------------------------------------------------------
(* The iterator of the loop designates an element of the list or its end:  *)
(* source_list.hh:40 dereferences it, and 43 erases through it.            *)
TypeOK ==
  /\ m_sources \in Seq(0 .. MaxId)
  /\ next \in 0 .. (MaxId + 1)
  /\ erasing \in BOOLEAN
  /\ source_it \in 1 .. (Len(m_sources) + 1)
  /\ pending \subseteq read
  /\ acked \cup read \subseteq 0 .. (MaxId + 1)

(* A call of erase removes what it is asked to and nothing else, whatever  *)
(* the list still holds of it: the loop implements a set difference that   *)
(* takes place when it begins.                                             *)
Abstract == INSTANCE Window WITH window <- ToSet(m_sources) \ pending

ImplementsWindow == Abstract!Spec

(* Every call of erase returns, although no branch of its loop advances    *)
(* both iterators (source_list.hh:38-59).                                  *)
EraseReturns == erasing ~> ~erasing

(* An ack erases what the decoder acknowledged, whatever its runs, the     *)
(* ones longer than their field included (packetizer.hh:287-289), as long  *)
(* as its holes and its number of elements fit theirs.                     *)
RoundTrip == (GapsFit(acked) /\ CountFits(acked)) => read = acked

(* Whatever the holes, as long as the number of elements fits its field    *)
(* (CountFits: fewer than 65535 runs in the code), a list is never read    *)
(* back with an identifier newer than all those written, nor without the   *)
(* first one: an ack cannot name a source that the decoder is not past,    *)
(* and the head of a repair, which drop_outdated relies on                 *)
(* (decoder.cc:346), is exact.                                             *)
WithinWritten ==
  (acked # {} /\ CountFits(acked)) => Min(read) = Min(acked) /\ Max(read) <= Max(acked)
=============================================================================
