---------------------------- MODULE BoundedFifo ----------------------------
(***************************************************************************)
(* What a bounded queue promises, whatever its storage: values come out in *)
(* the order they went in, each once, and never more than Cap are inside.  *)
(***************************************************************************)
EXTENDS Naturals, Sequences

CONSTANTS Cap, Values, Takers,
          None          \* what a taker holds before its first value
VARIABLES items,        \* what is inside, oldest first
          item          \* the last value each taker was given

fvars == <<items, item>>

FInit == items = << >> /\ item = [c \in Takers |-> None]

Put(v) == /\ Len(items) < Cap
          /\ items' = Append(items, v)
          /\ UNCHANGED item

TakeOne(c) == /\ items # << >>
              /\ item' = [item EXCEPT ![c] = Head(items)]
              /\ items' = Tail(items)

FSpec == FInit /\ [][(\E v \in Values : Put(v)) \/ (\E c \in Takers : TakeOne(c))]_fvars
=============================================================================
