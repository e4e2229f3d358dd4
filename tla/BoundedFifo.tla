---------------------------- MODULE BoundedFifo ----------------------------
(***************************************************************************)
(* What the exporter relies on when it uses a signal queue: a bounded      *)
(* first-in first-out buffer in which room is reserved and made ready in   *)
(* two steps.  An item that has been reserved but is not ready yet holds   *)
(* back everything behind it.  Each accepted item is handed out once.      *)
(*                                                                         *)
(* MpscQueue implements this specification (see MpscQueue!Fifo).           *)
(***************************************************************************)
EXTENDS Naturals, Sequences

CONSTANTS Items,      \* everything that may be pushed
          Capacity    \* number of items accepted and not yet handed out

VARIABLES cells,      \* reserved items, oldest first, each ready or not
          delivered   \* items handed to the consumer, in order

fvars == <<cells, delivered>>

Accepted == {cells[i].item : i \in DOMAIN cells}
              \cup {delivered[i] : i \in DOMAIN delivered}

FifoInit == cells = <<>> /\ delivered = <<>>

\* A producer reserves the last place; it may only do so while there is room,
\* and it never reserves an item a second time.
Reserve ==
  /\ Len(cells) < Capacity
  /\ \E item \in Items \ Accepted :
        cells' = Append(cells, [item |-> item, ready |-> FALSE])
  /\ UNCHANGED delivered

\* The producer that reserved a place makes its item visible.
Commit ==
  /\ \E i \in DOMAIN cells :
        /\ ~cells[i].ready
        /\ cells' = [cells EXCEPT ![i].ready = TRUE]
  /\ UNCHANGED delivered

\* The consumer takes the oldest item, once it is ready.
Take ==
  /\ cells # <<>>
  /\ Head(cells).ready
  /\ delivered' = Append(delivered, Head(cells).item)
  /\ cells' = Tail(cells)

FifoNext == Reserve \/ Commit \/ Take

FifoSpec == FifoInit /\ [][FifoNext]_fvars
============================================================================
