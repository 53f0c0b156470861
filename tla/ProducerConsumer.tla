-------------------------- MODULE ProducerConsumer --------------------------
(***************************************************************************)
(* 03_patterns/02_producer_consumer.cpp: the producers, the consumers and  *)
(* the main thread around one Queue.  The last producer to finish closes   *)
(* the queue; a consumer leaves when pop() returns nullopt; main joins     *)
(* everybody and prints the two counters.                                  *)
(***************************************************************************)
EXTENDS BlockingQueue, FiniteSets

CONSTANTS Producers,    \* the NP producer threads
          Consumers,    \* the NC consumer threads
          Items         \* ITEMS_PER_P

ASSUME PCAssumption ==
  /\ IsFiniteSet(Producers) /\ Producers # {}
  /\ IsFiniteSet(Consumers) /\ Consumers # {}
  /\ Producers \cap Consumers = {}
  /\ Cap \in Nat \ {0}
  /\ Items \in Nat \ {0}

VARIABLES pc,               \* where each thread is in its lambda
          main_,            \* where main() is
          sent,             \* the loop counter i of each producer
          produced, consumed, producers_done,   \* the atomics of main()
          got               \* history: what the pops of each consumer returned

threads == <<pc, main_>>
counters == <<produced, consumed, producers_done>>
vars == <<qvars, threads, sent, counters, got>>

NP == Cardinality(Producers)

Init == /\ QInit
        /\ pc = [t \in Producers \cup Consumers |-> IF t \in Producers THEN "push" ELSE "pop"]
        /\ main_ = "join_producers"
        /\ sent = [p \in Producers |-> 0]
        /\ produced = 0
        /\ consumed = 0
        /\ producers_done = 0
        /\ got = [c \in Consumers |-> << >>]

Goto(t, from, to) == pc[t] = from /\ pc' = [pc EXCEPT ![t] = to]

-----------------------------------------------------------------------------
(* A producer.  The item p * 1000 + i is the pair <<p, i>>. *)
Push(p) ==
  /\ pc[p] = "push"
  /\ \/ PushWait(p) /\ UNCHANGED pc
     \/ (PushRefused(p) \/ PushStore(p, <<p, sent[p]>>)) /\ Goto(p, "push", "count")
  /\ UNCHANGED <<main_, sent, counters, got>>

(* The result of push is ignored: produced counts the call. *)
Count(p) ==
  /\ Goto(p, "count", IF sent[p] + 1 < Items THEN "push" ELSE "finish")
  /\ sent' = [sent EXCEPT ![p] = @ + 1]
  /\ produced' = produced + 1
  /\ UNCHANGED <<qvars, main_, consumed, producers_done, got>>

Finish_First(p) ==      \* faulty variant: the first producer to finish closes
  /\ Goto(p, "finish", IF producers_done = 0 THEN "close" ELSE "exit")
  /\ producers_done' = producers_done + 1
  /\ UNCHANGED <<qvars, main_, sent, produced, consumed, got>>

Finish(p) ==
  /\ Goto(p, "finish", IF producers_done + 1 = NP THEN "close" ELSE "exit")
  /\ producers_done' = producers_done + 1
  /\ UNCHANGED <<qvars, main_, sent, produced, consumed, got>>

Close(p) ==
  /\ \/ CloseSet /\ Goto(p, "close", "notify_empty")
     \/ CloseNotifyEmpty /\ Goto(p, "notify_empty", "notify_full")
     \/ CloseNotifyFull /\ Goto(p, "notify_full", "exit")
  /\ UNCHANGED <<main_, sent, counters, got>>

Producer(p) == Push(p) \/ Count(p) \/ Finish(p) \/ Close(p)

-----------------------------------------------------------------------------
(* A consumer. *)
Pop(c) ==
  /\ pc[c] = "pop"
  /\ \/ PopWait(c) /\ UNCHANGED <<pc, got>>
     \/ PopEnd(c) /\ Goto(c, "pop", "exit") /\ UNCHANGED got
     \/ /\ PopTake(c)
        /\ Goto(c, "pop", "consume")
        /\ got' = [got EXCEPT ![c] = Append(@, Head(q_))]
  /\ UNCHANGED <<main_, sent, counters>>

Consume(c) ==
  /\ Goto(c, "consume", "pop")
  /\ consumed' = consumed + 1
  /\ UNCHANGED <<qvars, main_, sent, produced, producers_done, got>>

Consumer(c) == Pop(c) \/ Consume(c)

-----------------------------------------------------------------------------
(* main() joins the producers, then the consumers, and reads the counters. *)
Main ==
  /\ \/ /\ main_ = "join_producers"
        /\ \A p \in Producers : pc[p] = "exit"
        /\ main_' = "join_consumers"
     \/ /\ main_ = "join_consumers"
        /\ \A c \in Consumers : pc[c] = "exit"
        /\ main_' = "done"
  /\ UNCHANGED <<qvars, pc, sent, counters, got>>

Spurious == SpuriousWake /\ UNCHANGED <<threads, sent, counters, got>>

Terminating == main_ = "done" /\ UNCHANGED vars

Next == \/ \E p \in Producers : Producer(p)
        \/ \E c \in Consumers : Consumer(c)
        \/ Main
        \/ Spurious
        \/ Terminating

Spec == Init /\ [][Next]_vars

(* The threads are scheduled, and each takes m_ finitely often, so none is *)
(* kept from it for ever.  Nothing is assumed of spurious wake-ups.        *)
Fairness == /\ \A p \in Producers : WF_vars(Producer(p))
            /\ \A c \in Consumers : WF_vars(Consumer(c))
            /\ WF_vars(Main)

FairSpec == Spec /\ Fairness

-----------------------------------------------------------------------------
Item == Producers \X Nat
Places == {"push", "count", "finish", "close", "notify_empty", "notify_full",
           "pop", "consume", "exit"}

TypeOK ==
  /\ q_ \in Seq(Item) /\ Len(q_) <= Cap
  /\ closed_ \in BOOLEAN
  /\ cv_full_ \subseteq Producers
  /\ cv_empty_ \subseteq Consumers
  /\ pc \in [Producers \cup Consumers -> Places]
  /\ \A p \in Producers : pc[p] \notin {"pop", "consume"}
  /\ \A c \in Consumers : pc[c] \in {"pop", "consume", "exit"}
  /\ main_ \in {"join_producers", "join_consumers", "done"}
  /\ sent \in [Producers -> 0 .. Items]
  /\ produced \in Nat /\ consumed \in Nat /\ producers_done \in Nat
  /\ got \in [Consumers -> Seq(Item)]

(* No push is ever refused: close() (line 50) is only called once every    *)
(* producer has left its loop, which is why the program may ignore what    *)
(* push returns (line 69).                                                 *)
NoPushAfterClose == \A p \in Producers : pc[p] = "push" => ~ closed_

(* No wake-up is lost.  With one notify_one per push and per pop, and two  *)
(* notify_all after close() has unlocked, the program never reaches a      *)
(* state where every thread that has not returned sleeps in wait().        *)
Asleep(t) == t \in cv_full_ \cup cv_empty_
NeverStuck ==
  (\A t \in Producers \cup Consumers : pc[t] = "exit" \/ Asleep(t))
    => \A t \in Producers \cup Consumers : pc[t] = "exit"

(* A sleeper never misses its reason to run: when there is an item (room)  *)
(* and a popper (pusher) sleeps, at least as many awake threads are on     *)
(* their way to the queue as there are items to take (free places).        *)
AwakePoppers == {c \in Consumers : pc[c] = "pop"} \ cv_empty_
AwakePushers == {p \in Producers : pc[p] = "push"} \ cv_full_
EnoughAwake ==
  /\ cv_empty_ # {} => Len(q_) <= Cardinality(AwakePoppers)
  /\ cv_full_ # {} => Cap <= Len(q_) + Cardinality(AwakePushers)

(* When main() prints, the counters agree and count every item: nothing is *)
(* left in the queue (comment of lines 9-10: "once drained").              *)
CountersAgree ==
  main_ = "done" => /\ produced = NP * Items
                    /\ consumed = produced
                    /\ q_ = << >>

(* A consumer that got nullopt (line 44) did so for good: no item is ever  *)
(* pushed after it, and no other consumer leaves items behind.             *)
EndIsFinal == [][(\E c \in Consumers : pc[c] = "exit") => q_' = q_]_vars

(* Every run ends: main() joins all the threads and prints. *)
Termination == <>(main_ = "done")

(* The inductive invariant behind the safety properties: what lines 73-74  *)
(* (the last producer closes) and 50-54 (close) establish step by step.    *)
Finished == {p \in Producers : pc[p] \in {"close", "notify_empty", "notify_full", "exit"}}

InLoop == \A p \in Producers : pc[p] \in {"push", "count"} => sent[p] < Items
SleepersWait == /\ \A p \in cv_full_ : pc[p] = "push"
                /\ \A c \in cv_empty_ : pc[c] = "pop"
DoneCounts == producers_done = Cardinality(Finished)
LastOneCloses ==
  /\ \A p \in Producers : pc[p] \in {"close", "notify_empty", "notify_full"} => Finished = Producers
  /\ closed_ => Finished = Producers
  /\ Finished = Producers /\ ~ closed_ => \E p \in Producers : pc[p] = "close"
  /\ closed_ /\ cv_empty_ # {} => \E p \in Producers : pc[p] = "notify_empty"
EndMeansEmpty == \A c \in Consumers : pc[c] = "exit" => closed_ /\ q_ = << >>

IInv == /\ TypeOK /\ InLoop /\ SleepersWait /\ DoneCounts
        /\ LastOneCloses /\ EndMeansEmpty /\ EnoughAwake

(* The program implements Delivery: an item is handed out when a pop takes *)
(* it, so a producer's items on their way are those still in the queue.    *)
Abstract == INSTANCE Delivery WITH
  delivered <- [p \in Producers |->
                  Cardinality({i \in 0 .. Items - 1 :
                     \E c \in Consumers : \E k \in DOMAIN got[c] : got[c][k] = <<p, i>>})],
  got <- got,
  ended <- {c \in Consumers : pc[c] = "exit"}
Delivers == Abstract!DSpec
=============================================================================
