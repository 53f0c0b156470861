---------------------------- MODULE PthreadQueue ----------------------------
(***************************************************************************)
(* 01_pthreads/03_condition_variables/02_producer_consumer.c: a ring       *)
(* buffer with a pthread mutex and two condition variables; producers put  *)
(* a fixed number of items, consumers get a fixed quota each, and main     *)
(* cancels the consumers that still wait.                                  *)
(*                                                                         *)
(* A critical section is one action, enabled while m is free.  The mutex   *)
(* is a variable because of the cancellation: pthread_cond_wait takes m    *)
(* back before the cancelled thread ends, and nothing in the program       *)
(* unlocks it then (there is no cleanup handler).                          *)
(***************************************************************************)
EXTENDS Integers, FiniteSets, CondVar

CONSTANTS Producers, Consumers,
          CAP,                  \* the size of buf
          ITEMS_PER_PRODUCER,
          Patient               \* sleep(2) is long enough for the consumers to settle

ASSUME PQAssumption ==
  /\ IsFiniteSet(Producers) /\ Producers # {}
  /\ IsFiniteSet(Consumers) /\ Consumers # {}
  /\ Producers \cap Consumers = {}
  /\ CAP \in Nat \ {0}
  /\ ITEMS_PER_PRODUCER \in Nat \ {0}
  /\ Patient \in BOOLEAN

VARIABLES buf, head, tail, count,       \* the ring
          m,                            \* who holds the mutex, Free if nobody
          not_full, not_empty,          \* the threads asleep on each condition
          pc, main_,
          i,                            \* the loop counter of each thread
          item,                         \* the local item of each consumer
          cancelled                     \* the consumers main has cancelled

ring == <<buf, head, tail, count>>
qvars == <<ring, m, not_full, not_empty>>
vars == <<qvars, pc, main_, i, item, cancelled>>

Free == "free"
NoItem == <<"none", 0>>
Items == Producers \X (0 .. ITEMS_PER_PRODUCER - 1)
Quota == (Cardinality(Producers) * ITEMS_PER_PRODUCER) \div Cardinality(Consumers) + 1

Init == /\ buf = [k \in 0 .. CAP - 1 |-> NoItem]
        /\ head = 0 /\ tail = 0 /\ count = 0
        /\ m = Free
        /\ not_full = {} /\ not_empty = {}
        /\ pc = [t \in Producers \cup Consumers |-> IF t \in Producers THEN "put" ELSE "get"]
        /\ main_ = "join_producers"
        /\ i = [t \in Producers \cup Consumers |-> 0]
        /\ item = [c \in Consumers |-> NoItem]
        /\ cancelled = {}

Goto(t, from, to) == pc[t] = from /\ pc' = [pc EXCEPT ![t] = to]

-----------------------------------------------------------------------------
(* Faulty variants, one plausible slip each; no specification uses them.   *)
q_get_Ring_Newest(c) ==         \* reads behind the write index: a stack
  /\ item' = [item EXCEPT ![c] = buf[(head + CAP - 1) % CAP]]
  /\ tail' = (tail + 1) % CAP
  /\ count' = count - 1
  /\ UNCHANGED <<buf, head>>
Put_OffByOne(p) ==              \* while (count > CAP)
  /\ Goto(p, "put", "nap") /\ p \notin not_full /\ m = Free /\ count <= CAP
  /\ buf' = [buf EXCEPT ![head] = <<p, i[p]>>]
  /\ head' = (head + 1) % CAP /\ count' = count + 1
  /\ not_empty' \in NotifyOne(not_empty)
  /\ UNCHANGED <<tail, m, not_full, main_, i, item, cancelled>>
Put_Silent(p) ==                \* signal(not_empty) forgotten
  /\ Goto(p, "put", "nap") /\ p \notin not_full /\ m = Free /\ count < CAP
  /\ buf' = [buf EXCEPT ![head] = <<p, i[p]>>]
  /\ head' = (head + 1) % CAP /\ count' = count + 1
  /\ UNCHANGED <<tail, m, not_full, not_empty, main_, i, item, cancelled>>
Get_Silent(c) ==                \* signal(not_full) forgotten
  /\ Goto(c, "get", "nap") /\ c \notin not_empty /\ m = Free /\ count > 0
  /\ item' = [item EXCEPT ![c] = buf[tail]]
  /\ tail' = (tail + 1) % CAP /\ count' = count - 1
  /\ UNCHANGED <<buf, head, m, not_full, not_empty, main_, i, cancelled>>

-----------------------------------------------------------------------------
(* The ring operations inside the critical sections. *)
q_put_Ring(v) == /\ buf' = [buf EXCEPT ![head] = v]
                 /\ head' = (head + 1) % CAP
                 /\ count' = count + 1
                 /\ UNCHANGED tail

q_get_Ring(c) == /\ item' = [item EXCEPT ![c] = buf[tail]]
                 /\ tail' = (tail + 1) % CAP
                 /\ count' = count - 1
                 /\ UNCHANGED <<buf, head>>

(* producer: q_put, then a nap, then the next item. *)
PutWait(p) == /\ pc[p] = "put" /\ p \notin not_full
              /\ m = Free
              /\ count = CAP
              /\ not_full' = not_full \cup {p}
              /\ UNCHANGED <<ring, m, not_empty, pc, main_, i, item, cancelled>>

Put(p) == /\ Goto(p, "put", "nap") /\ p \notin not_full
          /\ m = Free
          /\ count # CAP
          /\ q_put_Ring(<<p, i[p]>>)
          /\ not_empty' \in NotifyOne(not_empty)
          /\ UNCHANGED <<m, not_full, main_, i, item, cancelled>>

(* consumer: q_get, then a nap, then the next item of its quota. *)
GetWait(c) == /\ pc[c] = "get" /\ c \notin not_empty
              /\ m = Free
              /\ count = 0
              /\ not_empty' = not_empty \cup {c}
              /\ UNCHANGED <<ring, m, not_full, pc, main_, i, item, cancelled>>

Get(c) == /\ Goto(c, "get", "nap") /\ c \notin not_empty
          /\ m = Free
          /\ count # 0
          /\ q_get_Ring(c)
          /\ not_full' \in NotifyOne(not_full)
          /\ UNCHANGED <<m, not_empty, main_, i, cancelled>>

Nap(t, again, limit) == /\ Goto(t, "nap", IF i[t] + 1 < limit THEN again ELSE "exit")
                        /\ i' = [i EXCEPT ![t] = @ + 1]
                        /\ UNCHANGED <<qvars, main_, item, cancelled>>

(* A cancelled consumer ends in its nap (usleep and printf are             *)
(* cancellation points) ...                                                *)
CancelledInNap(c) == /\ c \in cancelled
                     /\ Goto(c, "nap", "dead")
                     /\ UNCHANGED <<qvars, main_, i, item, cancelled>>

(* ... or in pthread_cond_wait, which it leaves by taking the mutex back. *)
CancelledInWait(c) == /\ c \in cancelled \cap not_empty
                      /\ not_empty' = not_empty \ {c}
                      /\ Goto(c, "get", "unwind")
                      /\ UNCHANGED <<ring, m, not_full, main_, i, item, cancelled>>

Unwind(c) == /\ m = Free
             /\ m' = c
             /\ Goto(c, "unwind", "dead")
             /\ UNCHANGED <<ring, not_full, not_empty, main_, i, item, cancelled>>

Producer(p) == PutWait(p) \/ Put(p) \/ Nap(p, "put", ITEMS_PER_PRODUCER)
Consumer(c) == GetWait(c) \/ Get(c) \/ Nap(c, "get", Quota)
Ending(c) == CancelledInNap(c) \/ CancelledInWait(c) \/ Unwind(c)

-----------------------------------------------------------------------------
Ended(t) == pc[t] \in {"exit", "dead"}
Settled == \A c \in Consumers : Ended(c) \/ c \in not_empty

(* main: join the producers, sleep(2), cancel and join the consumers. *)
JoinProducers == /\ main_ = "join_producers"
                 /\ \A p \in Producers : Ended(p)
                 /\ main_' = "sleep"
                 /\ UNCHANGED cancelled

Sleep == /\ main_ = "sleep"
         /\ Patient => Settled
         /\ main_' = "cancel"
         /\ UNCHANGED cancelled

Cancel == /\ main_ = "cancel"
          /\ \E c \in Consumers \ cancelled :
               /\ cancelled' = cancelled \cup {c}
               /\ main_' = IF cancelled' = Consumers THEN "join_consumers" ELSE "cancel"

JoinConsumers == /\ main_ = "join_consumers"
                 /\ \A c \in Consumers : Ended(c)
                 /\ main_' = "done"
                 /\ UNCHANGED cancelled

Main == (JoinProducers \/ Sleep \/ Cancel \/ JoinConsumers) /\ UNCHANGED <<qvars, pc, i, item>>

Spurious == /\ \/ \E t \in not_full : not_full' = not_full \ {t} /\ UNCHANGED not_empty
               \/ \E t \in not_empty : not_empty' = not_empty \ {t} /\ UNCHANGED not_full
            /\ UNCHANGED <<ring, m, pc, main_, i, item, cancelled>>

(* The program stops when main returns; a thread that can never get m back *)
(* also stops it.                                                          *)
Next == \/ \E p \in Producers : Producer(p)
        \/ \E c \in Consumers : Consumer(c) \/ Ending(c)
        \/ Main
        \/ Spurious

Spec == Init /\ [][Next]_vars

(* Every thread is scheduled, a mutex that stays free is obtained, and a   *)
(* cancellation is acted upon.                                             *)
FairSpec == /\ Spec
            /\ \A p \in Producers : WF_vars(Producer(p))
            /\ \A c \in Consumers : WF_vars(Consumer(c)) /\ WF_vars(Ending(c))
            /\ WF_vars(Main)

-----------------------------------------------------------------------------
TypeOK ==
  /\ buf \in [0 .. CAP - 1 -> Items \cup {NoItem}]
  /\ head \in 0 .. CAP - 1 /\ tail \in 0 .. CAP - 1 /\ count \in 0 .. CAP
  /\ m \in Consumers \cup {Free}
  /\ not_full \subseteq Producers /\ not_empty \subseteq Consumers
  /\ pc \in [Producers \cup Consumers -> {"put", "get", "nap", "unwind", "exit", "dead"}]
  /\ main_ \in {"join_producers", "sleep", "cancel", "join_consumers", "done"}
  /\ i \in [Producers \cup Consumers -> 0 .. ITEMS_PER_PRODUCER + Quota]
  /\ item \in [Consumers -> Items \cup {NoItem}]
  /\ cancelled \subseteq Consumers

(* No signal is lost: while a consumer (producer) sleeps, at least as many *)
(* others are awake on their way in as there are items (free slots).       *)
EnoughAwake ==
  /\ not_empty # {} => count <= Cardinality({c \in Consumers \ not_empty : pc[c] = "get"})
  /\ not_full # {} => CAP <= count + Cardinality({p \in Producers \ not_full : pc[p] = "put"})

(* The ring implements a FIFO of CAP items: the two indices and the        *)
(* counter agree, so that the count slots from tail on are those written   *)
(* and not yet read (lines 80-82 and 94-96).                               *)
Inside == [k \in 1 .. count |-> buf[(tail + k - 1) % CAP]]
Fifo == INSTANCE BoundedFifo WITH
  Cap <- CAP, Values <- Items, Takers <- Consumers, None <- NoItem,
  items <- Inside, item <- item
ImplementsFifo == Fifo!FSpec

(* The producers finish (comment of line 142: "naturally"): the quotas of  *)
(* the consumers (line 123) leave room for every item.                     *)
ProducersFinish == <>(main_ # "join_producers")

(* While main sleeps the consumers take every item: when none of them has  *)
(* anything to do any more, nothing is left in the ring.                   *)
NothingLeft == main_ = "sleep" /\ Settled => count = 0

(* "consumers will keep going if no items arrive, so we sleep then cancel  *)
(* them" (comment of lines 142-144): once all are cancelled, every one of  *)
(* them can still end, so that main can join it.  A consumer that has yet  *)
(* to lock m cannot, when m is held by one that has ended.                 *)
CancelEndsConsumers ==
  main_ = "join_consumers" /\ m # Free => \A c \in Consumers : pc[c] \notin {"get", "unwind"}
=============================================================================
