------------------------------ MODULE Delivery ------------------------------
(***************************************************************************)
(* What a producer/consumer program promises, with the queue, its lock and *)
(* its counters abstracted away: every item a producer makes reaches       *)
(* exactly one consumer, the items of one producer are handed out in the   *)
(* order it made them, and a consumer is told that there is no more only   *)
(* when everything has been handed out.                                    *)
(***************************************************************************)
EXTENDS Naturals, Sequences

CONSTANTS Producers, Consumers, Items
VARIABLES delivered,    \* how many of a producer's items were handed out
          got,          \* what each consumer received, in order
          ended         \* the consumers that were told "no more"

dvars == <<delivered, got, ended>>

DInit == /\ delivered = [p \in Producers |-> 0]
         /\ got = [c \in Consumers |-> << >>]
         /\ ended = {}

Deliver(p, c) == /\ delivered[p] < Items
                 /\ c \notin ended
                 /\ got' = [got EXCEPT ![c] = Append(@, <<p, delivered[p]>>)]
                 /\ delivered' = [delivered EXCEPT ![p] = @ + 1]
                 /\ UNCHANGED ended

End(c) == /\ c \notin ended
          /\ \A p \in Producers : delivered[p] = Items
          /\ ended' = ended \cup {c}
          /\ UNCHANGED <<delivered, got>>

DNext == \E c \in Consumers : End(c) \/ \E p \in Producers : Deliver(p, c)

DSafe == DInit /\ [][DNext]_dvars
DSpec == DSafe /\ WF_dvars(DNext)
=============================================================================
