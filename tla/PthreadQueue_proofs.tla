------------------------- MODULE PthreadQueue_proofs -------------------------
(* The theorems about PthreadQueue, for any number of producers and        *)
(* consumers, any capacity and any number of items.                        *)
EXTENDS PthreadQueue, FiniteSetTheorems, SequenceTheorems, TLAPS

USE DEF NotifyOne

(* The types, with what the loops (lines 109 and 124) and the cancellation *)
(* (line 146) make of the places a thread can be at.                       *)
TypeInv ==
  /\ TypeOK
  /\ \A p \in Producers : /\ pc[p] \in {"put", "nap", "exit"}
                          /\ pc[p] \in {"put", "nap"} => i[p] < ITEMS_PER_PRODUCER
  /\ \A c \in Consumers : /\ pc[c] \in {"get", "nap", "exit", "unwind", "dead"}
                          /\ pc[c] \in {"get", "nap"} => i[c] < Quota
                          /\ pc[c] = "exit" => i[c] = Quota
                          /\ pc[c] \in {"unwind", "dead"} => c \in cancelled
  /\ \A p \in not_full : pc[p] = "put"
  /\ \A c \in not_empty : pc[c] = "get"
  /\ main_ \in {"join_producers", "sleep"} => cancelled = {}

(* The two indices and the counter agree, and the slots between them hold  *)
(* items (lines 80-82 and 94-96).                                          *)
Slot(k) == (tail + k) % CAP
RingInv ==
  /\ head = Slot(count)
  /\ \A k \in 1 .. count : buf[Slot(k - 1)] \in Items

(* What has been put and what has been got, as far as nobody is cancelled: *)
(* the k-th item of each producer, the k-th item of each consumer.         *)
Moved(t) == IF pc[t] = "nap" THEN i[t] + 1 ELSE i[t]
PutSoFar == {x \in Items : x[2] < Moved(x[1])}
GotSoFar == {x \in Consumers \X (0 .. Quota - 1) : x[2] < Moved(x[1])}
CountsMoved == cancelled = {} => Cardinality(PutSoFar) = Cardinality(GotSoFar) + count

IInv == TypeInv /\ RingInv /\ CountsMoved /\ EnoughAwake

-----------------------------------------------------------------------------
(* Indices modulo CAP that are at most one round away. *)
LEMMA RingArithmetic ==
  ASSUME NEW t \in 0 .. CAP - 1, NEW k \in 0 .. CAP
  PROVE  /\ CAP \in Nat \ {0}
         /\ (t + k) % CAP \in 0 .. CAP - 1
         /\ (t + k) % CAP = IF t + k < CAP THEN t + k ELSE t + k - CAP
BY PQAssumption DEF PQAssumption

(* The quotas of the consumers (line 123) exceed what the producers put.   *)
LEMMA QuotaSuffices ==
  LET NP == Cardinality(Producers)  NC == Cardinality(Consumers)
  IN  /\ NP \in Nat /\ NC \in Nat \ {0} /\ Quota \in Nat \ {0}
      /\ NC * Quota > NP * ITEMS_PER_PRODUCER
<1> DEFINE NP == Cardinality(Producers)
           NC == Cardinality(Consumers)
           all == NP * ITEMS_PER_PRODUCER
<1>1. NP \in Nat /\ NC \in Nat /\ NC # 0
  BY PQAssumption, FS_CardinalityType, FS_EmptySet DEF PQAssumption
<1>2. all \in Nat
  BY <1>1, PQAssumption DEF PQAssumption
<1>3. Quota = all \div NC + 1
  BY DEF Quota
<1> HIDE DEF NP, NC, all
<1>4. all \div NC + 1 \in Nat \ {0} /\ NC * (all \div NC + 1) > all
  BY <1>1, <1>2
<1> QED
  BY <1>1, <1>3, <1>4 DEF NP, NC, all

-----------------------------------------------------------------------------
LEMMA TypeInit == Init => TypeInv
<1> SUFFICES ASSUME Init PROVE TypeInv
  OBVIOUS
<1> USE PQAssumption DEF PQAssumption, Init
<1>1. /\ \A p \in Producers : pc[p] = "put" /\ i[p] = 0
      /\ \A c \in Consumers : pc[c] = "get" /\ i[c] = 0
  OBVIOUS
<1>2. Quota \in Nat \ {0}
  BY QuotaSuffices
<1>3. buf \in [0 .. CAP - 1 -> Items \cup {NoItem}]
  OBVIOUS
<1>4. head \in 0 .. CAP - 1 /\ tail \in 0 .. CAP - 1 /\ count \in 0 .. CAP
  OBVIOUS
<1>5. pc \in [Producers \cup Consumers -> {"put", "get", "nap", "unwind", "exit", "dead"}]
  OBVIOUS
<1>6. i \in [Producers \cup Consumers -> 0 .. ITEMS_PER_PRODUCER + Quota]
  BY <1>2
<1>7. item \in [Consumers -> Items \cup {NoItem}]
  OBVIOUS
<1>8. m = Free /\ not_full = {} /\ not_empty = {} /\ cancelled = {} /\ main_ = "join_producers"
  OBVIOUS
<1>9. TypeOK
  <2> HIDE DEF Init
  <2> QED
    BY <1>3, <1>4, <1>5, <1>6, <1>7, <1>8 DEF TypeOK
<1> HIDE DEF Init
<1> QED
  BY <1>1, <1>2, <1>8, <1>9 DEF TypeInv

(* Every step that stores or takes an item keeps the indices in the ring.  *)
LEMMA NextIndex ==
  ASSUME NEW k \in 0 .. CAP - 1
  PROVE  (k + 1) % CAP \in 0 .. CAP - 1
BY PQAssumption DEF PQAssumption

LEMMA TypeStep == TypeInv /\ [Next]_vars => TypeInv'
<1> SUFFICES ASSUME TypeInv, [Next]_vars PROVE TypeInv'
  OBVIOUS
<1>q. Quota \in Nat \ {0} /\ ITEMS_PER_PRODUCER \in Nat \ {0} /\ Producers \cap Consumers = {}
  BY QuotaSuffices, PQAssumption DEF PQAssumption
<1> USE DEF TypeInv, TypeOK, Goto, ring, qvars
<1>1. ASSUME NEW p \in Producers, Producer(p) PROVE TypeInv'
  <2>1. CASE PutWait(p)
    BY <1>q, <2>1 DEF PutWait
  <2>2. CASE Put(p)
    <3>1. head' \in 0 .. CAP - 1 /\ tail' \in 0 .. CAP - 1
      BY <2>2, NextIndex DEF Put, q_put_Ring
    <3>2. count' \in 0 .. CAP
      BY <2>2, PQAssumption DEF PQAssumption, Put, q_put_Ring
    <3>3. <<p, i[p]>> \in Items
      BY <1>q, <2>2 DEF Put, Items
    <3>4. buf' \in [0 .. CAP - 1 -> Items \cup {NoItem}]
      BY <2>2, <3>3 DEF Put, q_put_Ring
    <3>5. not_empty' \subseteq not_empty
      BY <2>2 DEF Put
    <3>6. UNCHANGED <<m, not_full, main_, i, item, cancelled>> /\ pc[p] = "put" /\ p \notin not_full
          /\ pc' = [pc EXCEPT ![p] = "nap"]
      BY <2>2 DEF Put
    <3>7. TypeOK'
      BY <3>1, <3>2, <3>4, <3>5, <3>6
    <3> QED
      BY <1>q, <3>5, <3>6, <3>7
  <2>3. CASE Nap(p, "put", ITEMS_PER_PRODUCER)
    BY <1>q, <2>3 DEF Nap
  <2> QED
    BY <1>1, <2>1, <2>2, <2>3 DEF Producer
<1>2. ASSUME NEW c \in Consumers, Consumer(c) PROVE TypeInv'
  <2>1. CASE GetWait(c)
    BY <1>q, <2>1 DEF GetWait
  <2>2. CASE Get(c)
    <3>1. head' \in 0 .. CAP - 1 /\ tail' \in 0 .. CAP - 1
      BY <2>2, NextIndex DEF Get, q_get_Ring
    <3>2. count' \in 0 .. CAP
      BY <2>2, PQAssumption DEF PQAssumption, Get, q_get_Ring
    <3>3. item' \in [Consumers -> Items \cup {NoItem}]
      BY <2>2 DEF Get, q_get_Ring
    <3>4. not_full' \subseteq not_full
      BY <2>2 DEF Get
    <3>5. UNCHANGED <<buf, m, not_empty, main_, i, cancelled>> /\ pc[c] = "get" /\ c \notin not_empty
          /\ pc' = [pc EXCEPT ![c] = "nap"]
      BY <2>2 DEF Get, q_get_Ring
    <3>6. TypeOK'
      BY <3>1, <3>2, <3>3, <3>4, <3>5
    <3> QED
      BY <1>q, <3>4, <3>5, <3>6
  <2>3. CASE Nap(c, "get", Quota)
    BY <1>q, <2>3 DEF Nap
  <2> QED
    BY <1>2, <2>1, <2>2, <2>3 DEF Consumer
<1>3. ASSUME NEW c \in Consumers, Ending(c) PROVE TypeInv'
  <2>1. CASE CancelledInNap(c)
    BY <1>q, <2>1 DEF CancelledInNap
  <2>2. CASE CancelledInWait(c)
    BY <1>q, <2>2 DEF CancelledInWait
  <2>3. CASE Unwind(c)
    BY <1>q, <2>3 DEF Unwind
  <2> QED
    BY <1>3, <2>1, <2>2, <2>3 DEF Ending
<1>4. CASE Main
  BY <1>4 DEF Main, JoinProducers, Sleep, Cancel, JoinConsumers
<1>5. CASE Spurious
  BY <1>5 DEF Spurious
<1>6. CASE UNCHANGED vars
  BY <1>6 DEF vars
<1> QED
  BY <1>1, <1>2, <1>3, <1>4, <1>5, <1>6 DEF Next

(* The ring never over- or underruns (lines 77 and 91), the indices stay   *)
(* in buf, and no loop counter leaves its range.                           *)
THEOREM TypeCorrect == Spec => []TypeOK
<1>1. TypeInv => TypeOK
  BY DEF TypeInv
<1> QED
  BY <1>1, TypeInit, TypeStep, PTL DEF Spec

-----------------------------------------------------------------------------
(* What is inside the ring, as a sequence. *)
InsideInv ==
  /\ Inside \in Seq(Items) /\ Len(Inside) = count
  /\ \A k \in 1 .. count : Inside[k] = buf[Slot(k - 1)]

LEMMA InsideIsSeq == TypeInv /\ RingInv => InsideInv
<1> SUFFICES ASSUME TypeInv, RingInv PROVE InsideInv
  OBVIOUS
<1>1. count \in Nat /\ tail \in Int
  BY DEF TypeInv, TypeOK
<1>2. \A k \in 1 .. count : tail + k - 1 = tail + (k - 1)
  BY <1>1
<1>3. \A k \in 1 .. count : buf[(tail + k - 1) % CAP] = buf[Slot(k - 1)]
  BY <1>2 DEF Slot
<1>4. Inside \in [1 .. count -> Items]
  BY <1>3 DEF Inside, RingInv
<1>5. Inside \in Seq(Items)
  BY <1>1, <1>4, SeqDef
<1>6. Len(Inside) = count
  BY <1>1, <1>4, <1>5, LenProperties
<1> QED
  BY <1>3, <1>5, <1>6 DEF Inside, InsideInv

(* q_put() appends to it (lines 80-82). *)
LEMMA PutAppends ==
  ASSUME TypeInv, RingInv, TypeInv', NEW v \in Items, q_put_Ring(v), count # CAP
  PROVE  RingInv' /\ Inside' = Append(Inside, v)
<1>1. /\ tail \in 0 .. CAP - 1 /\ tail' = tail /\ count \in 0 .. CAP - 1 /\ count' = count + 1
      /\ CAP \in Nat \ {0} /\ head \in 0 .. CAP - 1
      /\ buf \in [0 .. CAP - 1 -> Items \cup {NoItem}]
  BY PQAssumption DEF PQAssumption, q_put_Ring, TypeInv, TypeOK
<1>2. \A k \in 0 .. CAP : Slot(k)' = Slot(k) /\ Slot(k) = IF tail + k < CAP THEN tail + k ELSE tail + k - CAP
  BY <1>1, RingArithmetic DEF Slot
<1>3. head = Slot(count) /\ head' = (head + 1) % CAP
  BY DEF RingInv, q_put_Ring
<1>4. (head + 1) % CAP = IF head + 1 < CAP THEN head + 1 ELSE head + 1 - CAP
  BY <1>1, RingArithmetic
<1>5. head' = Slot(count + 1)
  <2>1. count \in 0 .. CAP /\ count + 1 \in 0 .. CAP
    BY <1>1
  <2>2. Slot(count) = IF tail + count < CAP THEN tail + count ELSE tail + count - CAP
    BY <1>2, <2>1
  <2>3. Slot(count + 1) = IF tail + (count + 1) < CAP THEN tail + (count + 1) ELSE tail + (count + 1) - CAP
    BY <1>2, <2>1
  <2> QED
    BY <1>1, <1>3, <1>4, <2>2, <2>3
<1>6. \A k \in 0 .. count - 1 : Slot(k) # head /\ Slot(k) \in 0 .. CAP - 1
  <2> SUFFICES ASSUME NEW k \in 0 .. count - 1
               PROVE  Slot(k) # Slot(count) /\ Slot(k) \in 0 .. CAP - 1
    BY <1>3
  <2>1. k \in 0 .. CAP /\ count \in 0 .. CAP /\ k < count /\ k \in Int
    BY <1>1
  <2>2. /\ Slot(k) = IF tail + k < CAP THEN tail + k ELSE tail + k - CAP
        /\ Slot(count) = IF tail + count < CAP THEN tail + count ELSE tail + count - CAP
    BY <1>2, <2>1
  <2> QED
    BY <1>1, <2>1, <2>2
<1>b. buf' = [buf EXCEPT ![head] = v]
  BY DEF q_put_Ring
<1>7. \A k \in 1 .. count : buf'[Slot(k - 1)] = buf[Slot(k - 1)]
  <2> SUFFICES ASSUME NEW k \in 1 .. count PROVE buf'[Slot(k - 1)] = buf[Slot(k - 1)]
    OBVIOUS
  <2>1. k - 1 \in 0 .. count - 1
    BY <1>1
  <2>2. Slot(k - 1) # head /\ Slot(k - 1) \in 0 .. CAP - 1
    BY <1>6, <2>1
  <2> QED
    BY <1>1, <1>b, <2>2
<1>8. buf'[Slot(count)] = v
  BY <1>1, <1>3, <1>b
<1>9. RingInv'
  <2>1. \A k \in 1 .. count + 1 : buf'[Slot(k - 1)] \in Items
    <3>1. \A k \in 1 .. count + 1 : k \in 1 .. count \/ k - 1 = count
      BY <1>1
    <3> QED
      BY <1>7, <1>8, <3>1 DEF RingInv
  <2>2. \A k : Slot(k)' = (tail + k) % CAP /\ Slot(k) = (tail + k) % CAP
    BY <1>1 DEF Slot
  <2> QED
    BY <1>1, <1>5, <2>1, <2>2 DEF RingInv, Slot
<1>10. InsideInv /\ InsideInv'
  BY <1>9, InsideIsSeq, PTL
<1>11. /\ Append(Inside, v) \in Seq(Items) /\ Len(Append(Inside, v)) = count + 1
       /\ \A k \in 1 .. count : Append(Inside, v)[k] = buf[Slot(k - 1)]
       /\ Append(Inside, v)[count + 1] = v
  BY <1>10, AppendProperties DEF InsideInv
<1>12. /\ Inside' \in Seq(Items) /\ Len(Inside') = count + 1
       /\ \A k \in 1 .. count + 1 : Inside'[k] = buf'[Slot(k - 1)]
  BY <1>1, <1>10 DEF InsideInv, Slot
<1>13. \A k \in 1 .. count + 1 : Inside'[k] = Append(Inside, v)[k]
  <2> SUFFICES ASSUME NEW k \in 1 .. count + 1 PROVE Inside'[k] = Append(Inside, v)[k]
    OBVIOUS
  <2>1. CASE k \in 1 .. count
    BY <1>7, <1>11, <1>12, <2>1
  <2>2. CASE k = count + 1
    <3>1. k - 1 = count
      BY <1>1, <2>2
    <3> QED
      BY <1>8, <1>11, <1>12, <2>2, <3>1
  <2>3. k \in 1 .. count \/ k = count + 1
    BY <1>1
  <2> QED
    BY <2>1, <2>2, <2>3
<1>14. Inside' = Append(Inside, v)
  BY <1>11, <1>12, <1>13, SeqEqual
<1> QED
  BY <1>9, <1>14

(* q_get() takes its front (lines 94-96). *)
LEMMA GetTakesFront ==
  ASSUME TypeInv, RingInv, TypeInv', NEW c \in Consumers, q_get_Ring(c), count # 0
  PROVE  /\ RingInv'
         /\ Inside # << >> /\ Inside' = Tail(Inside)
         /\ item' = [item EXCEPT ![c] = Head(Inside)]
<1>1. /\ tail \in 0 .. CAP - 1 /\ count \in 1 .. CAP /\ count' = count - 1
      /\ CAP \in Nat \ {0} /\ head' = head /\ buf' = buf /\ tail' = (tail + 1) % CAP
  BY PQAssumption DEF PQAssumption, q_get_Ring, TypeInv, TypeOK
<1> DEFINE NewSlot(k) == (tail' + k) % CAP
<1>2. \A k \in 0 .. count - 1 : NewSlot(k) = Slot(k + 1)
  <2> SUFFICES ASSUME NEW k \in 0 .. count - 1
               PROVE  (tail' + k) % CAP = (tail + (k + 1)) % CAP
    BY DEF Slot
  <2>1. k \in 0 .. CAP /\ k + 1 \in 0 .. CAP /\ 1 \in 0 .. CAP
    BY <1>1
  <2>2. tail' \in 0 .. CAP - 1 /\ tail' = IF tail + 1 < CAP THEN tail + 1 ELSE tail + 1 - CAP
    BY <1>1, <2>1, RingArithmetic
  <2>3. (tail' + k) % CAP = IF tail' + k < CAP THEN tail' + k ELSE tail' + k - CAP
    BY <2>1, <2>2, RingArithmetic
  <2>4. (tail + (k + 1)) % CAP = IF tail + (k + 1) < CAP THEN tail + (k + 1) ELSE tail + (k + 1) - CAP
    BY <1>1, <2>1, RingArithmetic
  <2> QED
    BY <1>1, <2>2, <2>3, <2>4
<1>3. RingInv'
  <2>1. NewSlot(count - 1) = Slot(count)
    <3>1. count - 1 \in 0 .. count - 1 /\ (count - 1) + 1 = count
      BY <1>1
    <3> QED
      BY <1>2, <3>1
  <2>2. head' = NewSlot(count')
    BY <1>1, <2>1 DEF RingInv
  <2>3. ASSUME NEW k \in 1 .. count - 1 PROVE buf'[NewSlot(k - 1)] \in Items
    <3>1. k - 1 \in 0 .. count - 1 /\ (k - 1) + 1 = k /\ k + 1 \in 1 .. count /\ (k + 1) - 1 = k
      BY <1>1
    <3>2. NewSlot(k - 1) = Slot(k) /\ buf[Slot(k)] \in Items
      BY <1>2, <3>1 DEF RingInv
    <3> QED
      BY <1>1, <3>2
  <2> QED
    BY <1>1, <2>2, <2>3 DEF RingInv, Slot
<1>4. InsideInv /\ InsideInv'
  BY <1>3, InsideIsSeq, PTL
<1>5. Inside # << >>
  BY <1>1, <1>4, EmptySeq DEF InsideInv
<1>6. /\ Head(Inside) = Inside[1]
      /\ Tail(Inside) \in Seq(Items) /\ Len(Tail(Inside)) = count - 1
      /\ \A k \in 1 .. count - 1 : Tail(Inside)[k] = Inside[k + 1]
  BY <1>4, <1>5, HeadTailProperties DEF InsideInv
<1>7. Head(Inside) = buf[tail]
  <2>1. tail + 0 = tail /\ tail % CAP = tail
    BY <1>1
  <2>2. Slot(0) = tail
    BY <2>1 DEF Slot
  <2>3. 1 \in 1 .. count /\ 1 - 1 = 0
    BY <1>1
  <2> QED
    BY <1>4, <1>6, <2>2, <2>3 DEF InsideInv
<1>8. \A k \in 1 .. count - 1 : Inside'[k] = Tail(Inside)[k]
  <2> SUFFICES ASSUME NEW k \in 1 .. count - 1 PROVE Inside'[k] = Tail(Inside)[k]
    OBVIOUS
  <2>1. k - 1 \in 0 .. count - 1 /\ (k - 1) + 1 = k /\ k + 1 \in 1 .. count /\ (k + 1) - 1 = k
    BY <1>1
  <2>2. Inside'[k] = buf'[NewSlot(k - 1)]
    BY <1>1, <1>4 DEF InsideInv, Slot
  <2>3. Inside[k + 1] = buf[Slot(k)]
    BY <1>4, <2>1 DEF InsideInv
  <2> QED
    BY <1>1, <1>2, <1>6, <2>1, <2>2, <2>3
<1>9. Inside' = Tail(Inside)
  <2>1. Inside' \in Seq(Items) /\ Len(Inside') = count - 1
    BY <1>1, <1>4 DEF InsideInv
  <2> QED
    BY <1>6, <1>8, <2>1, SeqEqual
<1> QED
  BY <1>3, <1>5, <1>7, <1>9 DEF q_get_Ring

-----------------------------------------------------------------------------
LEMMA RingInit == Init => RingInv /\ Fifo!FInit
<1> SUFFICES ASSUME Init PROVE RingInv /\ Fifo!FInit
  OBVIOUS
<1>1. head = 0 /\ tail = 0 /\ count = 0 /\ CAP \in Nat \ {0}
  BY PQAssumption DEF PQAssumption, Init
<1>2. RingInv
  <2>1. (tail + count) % CAP = head
    BY <1>1
  <2> QED
    BY <1>1, <2>1 DEF RingInv, Slot
<1>3. TypeInv /\ InsideInv
  BY <1>2, TypeInit, InsideIsSeq
<1>4. Inside = << >>
  BY <1>1, <1>3, EmptySeq DEF InsideInv
<1> QED
  BY <1>2, <1>4 DEF Fifo!FInit, Init

(* Only the critical sections of q_put() and q_get() touch the ring or the *)
(* items of the consumers.                                                 *)
RingStep == \/ \E p \in Producers : Put(p)
            \/ \E c \in Consumers : Get(c)
            \/ UNCHANGED <<ring, item>>

LEMMA OnlyPutAndGet == [Next]_vars => RingStep
BY DEF RingStep, Next, Producer, Consumer, Ending, PutWait, GetWait, Nap, CancelledInNap,
       CancelledInWait, Unwind, Main, Spurious, vars, qvars

LEMMA RingInvStep ==
  TypeInv /\ RingInv /\ [Next]_vars
    => /\ RingInv'
       /\ [(\E v \in Items : Fifo!Put(v)) \/ (\E c \in Consumers : Fifo!TakeOne(c))]_Fifo!fvars
<1> SUFFICES ASSUME TypeInv, RingInv, [Next]_vars
             PROVE  /\ RingInv'
                    /\ \/ \E v \in Items : Fifo!Put(v)
                       \/ \E c \in Consumers : Fifo!TakeOne(c)
                       \/ UNCHANGED <<Inside, item>>
  BY DEF Fifo!fvars
<1>0. TypeInv' /\ InsideInv
  BY TypeStep, InsideIsSeq
<1>1. ASSUME NEW p \in Producers, Put(p)
      PROVE  RingInv' /\ \E v \in Items : Fifo!Put(v)
  <2>1. <<p, i[p]>> \in Items
    <3>1. i[p] < ITEMS_PER_PRODUCER
      BY <1>1 DEF Put, Goto, TypeInv
    <3>2. i[p] \in Nat
      BY QuotaSuffices, PQAssumption DEF PQAssumption, TypeInv, TypeOK
    <3> QED
      BY <3>1, <3>2, PQAssumption DEF PQAssumption, Items
  <2>2. q_put_Ring(<<p, i[p]>>) /\ count # CAP /\ item' = item
    BY <1>1 DEF Put
  <2>3. RingInv' /\ Inside' = Append(Inside, <<p, i[p]>>)
    BY <1>0, <2>1, <2>2, PutAppends
  <2>4. Len(Inside) < CAP
    BY <1>0, <2>2, PQAssumption DEF PQAssumption, InsideInv, TypeInv, TypeOK
  <2> QED
    BY <2>1, <2>2, <2>3, <2>4 DEF Fifo!Put
<1>2. ASSUME NEW c \in Consumers, Get(c)
      PROVE  RingInv' /\ \E d \in Consumers : Fifo!TakeOne(d)
  <2>1. q_get_Ring(c) /\ count # 0
    BY <1>2 DEF Get
  <2>2. RingInv' /\ Inside # << >> /\ Inside' = Tail(Inside) /\ item' = [item EXCEPT ![c] = Head(Inside)]
    BY <1>0, <2>1, GetTakesFront
  <2> QED
    BY <2>2 DEF Fifo!TakeOne
<1>3. CASE UNCHANGED <<ring, item>>
  BY <1>3 DEF ring, RingInv, Slot, Inside
<1> QED
  BY <1>1, <1>2, <1>3, OnlyPutAndGet DEF RingStep

(* The ring is a FIFO queue: what q_get() returns is the oldest value that *)
(* q_put() stored and nobody has been given, and never are more than CAP   *)
(* inside.  Every step of the program is a step of the queue or none.      *)
THEOREM RingIsFifo == Spec => ImplementsFifo
<1>1. Init => TypeInv /\ RingInv /\ Fifo!FInit
  BY TypeInit, RingInit
<1>2. TypeInv /\ RingInv /\ [Next]_vars => TypeInv' /\ RingInv'
  BY TypeStep, RingInvStep
<1>3. TypeInv /\ RingInv /\ [Next]_vars
        => [(\E v \in Items : Fifo!Put(v)) \/ (\E c \in Consumers : Fifo!TakeOne(c))]_Fifo!fvars
  BY RingInvStep
<1> QED
  BY <1>1, <1>2, <1>3, PTL DEF Spec, ImplementsFifo, Fifo!FSpec

-----------------------------------------------------------------------------
(* No signal is lost: the threads EnoughAwake counts. *)
AwakeGetters == {c \in Consumers \ not_empty : pc[c] = "get"}
AwakePutters == {p \in Producers \ not_full : pc[p] = "put"}

LEMMA ThreadSets ==
  ASSUME NEW S, S \in SUBSET Producers \/ S \in SUBSET Consumers
  PROVE  /\ IsFiniteSet(S) /\ Cardinality(S) \in Nat
         /\ \A t : Cardinality(S \cup {t}) = IF t \in S THEN Cardinality(S) ELSE Cardinality(S) + 1
         /\ \A t : Cardinality(S \ {t}) = IF t \in S THEN Cardinality(S) - 1 ELSE Cardinality(S)
<1>1. IsFiniteSet(S) /\ Cardinality(S) \in Nat
  BY PQAssumption, FS_Subset, FS_CardinalityType DEF PQAssumption
<1> QED
  BY <1>1, FS_AddElement, FS_RemoveElement

LEMMA AwakeStep == TypeInv /\ EnoughAwake /\ [Next]_vars => EnoughAwake'
<1> SUFFICES ASSUME TypeInv, EnoughAwake, [Next]_vars PROVE EnoughAwake'
  OBVIOUS
<1> DEFINE nG == Cardinality(AwakeGetters)
           nP == Cardinality(AwakePutters)
<1>t. /\ pc \in [Producers \cup Consumers -> {"put", "get", "nap", "unwind", "exit", "dead"}]
      /\ not_full \subseteq Producers /\ not_empty \subseteq Consumers
      /\ Producers \cap Consumers = {}
      /\ \A p \in Producers : pc[p] # "get"
      /\ \A c \in Consumers : pc[c] # "put"
      /\ \A p \in not_full : pc[p] = "put"
      /\ \A c \in not_empty : pc[c] = "get"
      /\ count \in Nat /\ CAP \in Nat
  <2>1. count \in Nat /\ CAP \in Nat /\ Producers \cap Consumers = {}
    BY PQAssumption DEF PQAssumption, TypeInv, TypeOK
  <2>2. /\ \A p \in Producers : pc[p] # "get"
        /\ \A c \in Consumers : pc[c] # "put"
    BY DEF TypeInv
  <2> QED
    BY <2>1, <2>2 DEF TypeInv, TypeOK
<1>s. /\ AwakeGetters \in SUBSET Consumers /\ AwakePutters \in SUBSET Producers
      /\ AwakeGetters' \in SUBSET Consumers /\ AwakePutters' \in SUBSET Producers
  BY DEF AwakeGetters, AwakePutters
<1>n. /\ nG \in Nat /\ nP \in Nat
      /\ Cardinality(AwakeGetters') \in Nat /\ Cardinality(AwakePutters') \in Nat
  BY <1>s, ThreadSets
<1>c. /\ \A t : Cardinality(AwakeGetters \cup {t}) = IF t \in AwakeGetters THEN nG ELSE nG + 1
      /\ \A t : Cardinality(AwakeGetters \ {t}) = IF t \in AwakeGetters THEN nG - 1 ELSE nG
      /\ \A t : Cardinality(AwakePutters \cup {t}) = IF t \in AwakePutters THEN nP ELSE nP + 1
      /\ \A t : Cardinality(AwakePutters \ {t}) = IF t \in AwakePutters THEN nP - 1 ELSE nP
  BY <1>s, ThreadSets
<1>a. /\ not_empty # {} => count <= nG
      /\ not_full # {} => CAP <= count + nP
  BY DEF EnoughAwake, AwakeGetters, AwakePutters
<1>q. ASSUME not_empty' # {} => count' <= Cardinality(AwakeGetters'),
             not_full' # {} => CAP <= count' + Cardinality(AwakePutters')
      PROVE  EnoughAwake'
  BY <1>q DEF EnoughAwake, AwakeGetters, AwakePutters
(* A step that leaves the ring alone: both sets only grow, or nobody sleeps. *)
<1>g. ASSUME count' = count, not_empty' \subseteq not_empty, not_full' \subseteq not_full,
             \/ AwakeGetters' = AwakeGetters
             \/ \E t : AwakeGetters' = AwakeGetters \cup {t},
             \/ AwakePutters' = AwakePutters
             \/ \E t : AwakePutters' = AwakePutters \cup {t}
      PROVE  EnoughAwake'
  <2>1. Cardinality(AwakeGetters') \in {nG, nG + 1}
    BY <1>g, <1>c
  <2>2. Cardinality(AwakePutters') \in {nP, nP + 1}
    BY <1>g, <1>c
  <2> HIDE DEF nG, nP
  <2> QED
    BY <1>g, <1>q, <1>a, <1>n, <1>t, <2>1, <2>2
<1> HIDE DEF nG, nP
<1> USE DEF Goto, ring, qvars
<1>1. ASSUME NEW p \in Producers, PutWait(p) PROVE EnoughAwake'
  <2>1. count' = CAP /\ count' = count /\ not_empty' = not_empty /\ AwakeGetters' = AwakeGetters
    BY <1>1 DEF PutWait, AwakeGetters
  <2> QED
    BY <1>q, <1>a, <1>n, <1>t, <2>1 DEF nG
<1>2. ASSUME NEW p \in Producers, Put(p) PROVE EnoughAwake'
  <2>1. count' = count + 1 /\ not_full' = not_full /\ p \notin not_full /\ pc[p] = "put"
    BY <1>2 DEF Put, q_put_Ring
  <2>2. AwakePutters' = AwakePutters \ {p} /\ p \in AwakePutters
    BY <1>2, <1>t, <2>1 DEF Put, AwakePutters
  <2>3. Cardinality(AwakePutters') = nP - 1
    BY <1>c, <2>2
  <2>4. \/ not_empty' = {}
        \/ \E c \in not_empty : not_empty' = not_empty \ {c}
    BY <1>2 DEF Put
  <2>5. CASE not_empty' = {}
    BY <1>q, <1>a, <1>n, <1>t, <2>1, <2>3, <2>5
  <2>6. ASSUME NEW c \in not_empty, not_empty' = not_empty \ {c} PROVE EnoughAwake'
    <3>1. AwakeGetters' = AwakeGetters \cup {c} /\ c \notin AwakeGetters
      BY <1>2, <1>t, <2>1, <2>6 DEF Put, AwakeGetters
    <3>2. Cardinality(AwakeGetters') = nG + 1
      BY <1>c, <3>1
    <3> QED
      BY <1>q, <1>a, <1>n, <1>t, <2>1, <2>3, <2>6, <3>2
  <2> QED
    BY <2>4, <2>5, <2>6
<1>3. ASSUME NEW c \in Consumers, GetWait(c) PROVE EnoughAwake'
  <2>1. count' = 0 /\ count' = count /\ not_full' = not_full /\ AwakePutters' = AwakePutters
    BY <1>3 DEF GetWait, AwakePutters
  <2> QED
    BY <1>q, <1>a, <1>n, <1>t, <2>1 DEF nP
<1>4. ASSUME NEW c \in Consumers, Get(c) PROVE EnoughAwake'
  <2>1. count' = count - 1 /\ not_empty' = not_empty /\ c \notin not_empty /\ pc[c] = "get"
    BY <1>4 DEF Get, q_get_Ring
  <2>2. AwakeGetters' = AwakeGetters \ {c} /\ c \in AwakeGetters
    BY <1>4, <1>t, <2>1 DEF Get, AwakeGetters
  <2>3. Cardinality(AwakeGetters') = nG - 1
    BY <1>c, <2>2
  <2>4. \/ not_full' = {}
        \/ \E p \in not_full : not_full' = not_full \ {p}
    BY <1>4 DEF Get
  <2>5. CASE not_full' = {}
    BY <1>q, <1>a, <1>n, <1>t, <2>1, <2>3, <2>5
  <2>6. ASSUME NEW p \in not_full, not_full' = not_full \ {p} PROVE EnoughAwake'
    <3>1. AwakePutters' = AwakePutters \cup {p} /\ p \notin AwakePutters
      BY <1>4, <1>t, <2>1, <2>6 DEF Get, AwakePutters
    <3>2. Cardinality(AwakePutters') = nP + 1
      BY <1>c, <3>1
    <3> QED
      BY <1>q, <1>a, <1>n, <1>t, <2>1, <2>3, <2>6, <3>2
  <2> QED
    BY <2>4, <2>5, <2>6
<1>5. ASSUME NEW t \in Producers \cup Consumers, NEW again, NEW limit,
             Nap(t, again, limit) PROVE EnoughAwake'
  <2>1. count' = count /\ not_empty' = not_empty /\ not_full' = not_full /\ pc[t] = "nap"
    BY <1>5 DEF Nap
  <2>2. /\ AwakeGetters' \in {AwakeGetters, AwakeGetters \cup {t}}
        /\ AwakePutters' \in {AwakePutters, AwakePutters \cup {t}}
    BY <1>5, <1>t, <2>1 DEF Nap, AwakeGetters, AwakePutters
  <2> QED
    BY <1>g, <2>1, <2>2
<1>6. ASSUME NEW c \in Consumers, Ending(c) PROVE EnoughAwake'
  <2>1. /\ count' = count /\ not_empty' \subseteq not_empty /\ not_full' = not_full
        /\ c \notin AwakeGetters
    BY <1>6, <1>t DEF Ending, CancelledInNap, CancelledInWait, Unwind, AwakeGetters
  <2>2. AwakeGetters' = AwakeGetters /\ AwakePutters' = AwakePutters
    BY <1>6, <1>t, <2>1 DEF Ending, CancelledInNap, CancelledInWait, Unwind, AwakeGetters, AwakePutters
  <2> QED
    BY <1>g, <2>1, <2>2
<1>7. CASE Spurious
  <2>1. count' = count /\ pc' = pc
    BY <1>7 DEF Spurious
  <2>2. ASSUME NEW t \in not_full, not_full' = not_full \ {t}, not_empty' = not_empty PROVE EnoughAwake'
    <3>1. AwakePutters' = AwakePutters \cup {t} /\ AwakeGetters' = AwakeGetters
      BY <1>t, <2>1, <2>2 DEF AwakePutters, AwakeGetters
    <3> QED
      BY <1>g, <2>1, <2>2, <3>1
  <2>3. ASSUME NEW t \in not_empty, not_empty' = not_empty \ {t}, not_full' = not_full PROVE EnoughAwake'
    <3>1. AwakeGetters' = AwakeGetters \cup {t} /\ AwakePutters' = AwakePutters
      BY <1>t, <2>1, <2>3 DEF AwakePutters, AwakeGetters
    <3> QED
      BY <1>g, <2>1, <2>3, <3>1
  <2> QED
    BY <1>7, <2>2, <2>3 DEF Spurious
<1>8. CASE UNCHANGED <<qvars, pc>>
  <2>1. AwakeGetters' = AwakeGetters /\ AwakePutters' = AwakePutters
    BY <1>8 DEF AwakeGetters, AwakePutters
  <2> QED
    BY <1>g, <1>8, <2>1
<1>9. ASSUME NEW p \in Producers, Producer(p) PROVE EnoughAwake'
  BY <1>1, <1>2, <1>5, <1>9 DEF Producer
<1>10. ASSUME NEW c \in Consumers, Consumer(c) PROVE EnoughAwake'
  BY <1>3, <1>4, <1>5, <1>10 DEF Consumer
<1> QED
  BY <1>6, <1>7, <1>8, <1>9, <1>10 DEF Next, Main, vars

-----------------------------------------------------------------------------
(* What is in the ring is what has been put and not been got. *)
LEMMA MovedFinite ==
  /\ IsFiniteSet(Items) /\ Cardinality(Items) = Cardinality(Producers) * ITEMS_PER_PRODUCER
  /\ IsFiniteSet(PutSoFar) /\ Cardinality(PutSoFar) \in Nat
  /\ Cardinality(PutSoFar) <= Cardinality(Items)
  /\ IsFiniteSet(GotSoFar) /\ Cardinality(GotSoFar) \in Nat
  /\ Cardinality(Consumers \X (0 .. Quota - 1)) = Cardinality(Consumers) * Quota
<1>q. /\ Quota \in Nat \ {0} /\ ITEMS_PER_PRODUCER \in Nat \ {0}
      /\ IsFiniteSet(Producers) /\ IsFiniteSet(Consumers)
  BY QuotaSuffices, PQAssumption DEF PQAssumption
<1>1. /\ IsFiniteSet(0 .. ITEMS_PER_PRODUCER - 1)
      /\ Cardinality(0 .. ITEMS_PER_PRODUCER - 1) = ITEMS_PER_PRODUCER
      /\ IsFiniteSet(0 .. Quota - 1)
      /\ Cardinality(0 .. Quota - 1) = Quota
  <2>1. ASSUME NEW k \in Nat \ {0}
        PROVE  IsFiniteSet(0 .. k - 1) /\ Cardinality(0 .. k - 1) = k
    <3>1. /\ 0 \in Int /\ k - 1 \in Int /\ IsFiniteSet(0 .. k - 1)
          /\ Cardinality(0 .. k - 1) = IF 0 > k - 1 THEN 0 ELSE (k - 1) - 0 + 1
      BY FS_Interval
    <3> QED
      BY <3>1
  <2> QED
    BY <1>q, <2>1
<1>2. IsFiniteSet(Items) /\ Cardinality(Items) = Cardinality(Producers) * ITEMS_PER_PRODUCER
  BY <1>q, <1>1, FS_Product DEF Items
<1>3. /\ IsFiniteSet(Consumers \X (0 .. Quota - 1))
      /\ Cardinality(Consumers \X (0 .. Quota - 1)) = Cardinality(Consumers) * Quota
  BY <1>q, <1>1, FS_Product
<1>4. PutSoFar \in SUBSET Items /\ GotSoFar \in SUBSET (Consumers \X (0 .. Quota - 1))
  BY DEF PutSoFar, GotSoFar
<1> QED
  BY <1>2, <1>3, <1>4, FS_Subset, FS_CardinalityType

LEMMA CountsInit == Init => CountsMoved
<1> SUFFICES ASSUME Init PROVE CountsMoved
  OBVIOUS
<1>1. \A t \in Producers \cup Consumers : Moved(t) = 0
  BY DEF Init, Moved
<1>2. PutSoFar = {}
  BY <1>1 DEF PutSoFar, Items
<1>3. GotSoFar = {}
  BY <1>1 DEF GotSoFar
<1> QED
  BY <1>2, <1>3, FS_EmptySet DEF CountsMoved, Init

LEMMA CountsStep == TypeInv /\ CountsMoved /\ [Next]_vars => CountsMoved'
<1> SUFFICES ASSUME TypeInv, CountsMoved, [Next]_vars, cancelled' = {}
             PROVE  Cardinality(PutSoFar') = Cardinality(GotSoFar') + count'
  BY DEF CountsMoved
<1>0. cancelled = {}
  BY DEF Next, Producer, PutWait, Put, Nap, Consumer, GetWait, Get, Ending, CancelledInNap, CancelledInWait,
         Unwind, Main, JoinProducers, Sleep, Cancel, JoinConsumers, Spurious, vars
<1>a. Cardinality(PutSoFar) = Cardinality(GotSoFar) + count
  BY <1>0 DEF CountsMoved
<1>t. /\ pc \in [Producers \cup Consumers -> {"put", "get", "nap", "unwind", "exit", "dead"}]
      /\ i \in [Producers \cup Consumers -> Nat]
      /\ Producers \cap Consumers = {} /\ count \in Nat
      /\ Quota \in Nat \ {0} /\ ITEMS_PER_PRODUCER \in Nat \ {0}
      /\ Cardinality(PutSoFar) \in Nat /\ Cardinality(GotSoFar) \in Nat
  <2>1. Quota \in Nat \ {0} /\ ITEMS_PER_PRODUCER \in Nat \ {0} /\ Producers \cap Consumers = {}
    BY QuotaSuffices, PQAssumption DEF PQAssumption
  <2>2. 0 .. ITEMS_PER_PRODUCER + Quota \subseteq Nat
    BY <2>1
  <2>3. count \in Nat
    BY PQAssumption DEF PQAssumption, TypeInv, TypeOK
  <2> QED
    BY <2>1, <2>2, <2>3, MovedFinite DEF TypeInv, TypeOK
(* What a thread that goes nowhere in its loop has moved stays the same.   *)
<1>u. ASSUME \A t \in Producers \cup Consumers : Moved(t)' = Moved(t), count' = count
      PROVE  Cardinality(PutSoFar') = Cardinality(GotSoFar') + count'
  <2>1. PutSoFar' = PutSoFar /\ GotSoFar' = GotSoFar
    BY <1>u DEF PutSoFar, GotSoFar, Items
  <2> QED
    BY <1>a, <1>u, <2>1
<1> USE DEF Goto, ring, qvars
<1>1. ASSUME NEW p \in Producers, Put(p)
      PROVE  Cardinality(PutSoFar') = Cardinality(GotSoFar') + count'
  <2>1. Moved(p) = i[p] /\ Moved(p)' = i[p] + 1 /\ i[p] \in 0 .. ITEMS_PER_PRODUCER - 1 /\ count' = count + 1
    BY <1>1, <1>t DEF Put, q_put_Ring, Moved, TypeInv
  <2>2. \A t \in (Producers \cup Consumers) \ {p} : Moved(t)' = Moved(t)
    BY <1>1, <1>t DEF Put, Moved
  <2>3. GotSoFar' = GotSoFar
    BY <1>t, <2>2 DEF GotSoFar
  <2>4. PutSoFar' = PutSoFar \cup {<<p, i[p]>>} /\ <<p, i[p]>> \notin PutSoFar
    BY <1>t, <2>1, <2>2 DEF PutSoFar, Items
  <2>5. Cardinality(PutSoFar') = Cardinality(PutSoFar) + 1
    BY <2>4, MovedFinite, FS_AddElement
  <2> QED
    BY <1>a, <1>t, <2>1, <2>3, <2>5
<1>2. ASSUME NEW c \in Consumers, Get(c)
      PROVE  Cardinality(PutSoFar') = Cardinality(GotSoFar') + count'
  <2>1. Moved(c) = i[c] /\ Moved(c)' = i[c] + 1 /\ i[c] \in 0 .. Quota - 1 /\ count' = count - 1
    BY <1>2, <1>t DEF Get, q_get_Ring, Moved, TypeInv
  <2>2. \A t \in (Producers \cup Consumers) \ {c} : Moved(t)' = Moved(t)
    BY <1>2, <1>t DEF Get, Moved
  <2>3. PutSoFar' = PutSoFar
    BY <1>t, <2>2 DEF PutSoFar, Items
  <2>4. GotSoFar' = GotSoFar \cup {<<c, i[c]>>} /\ <<c, i[c]>> \notin GotSoFar
    BY <1>t, <2>1, <2>2 DEF GotSoFar
  <2>5. Cardinality(GotSoFar') = Cardinality(GotSoFar) + 1
    BY <2>4, MovedFinite, FS_AddElement
  <2> QED
    BY <1>a, <1>t, <2>1, <2>3, <2>5
<1>3. ASSUME NEW t \in Producers \cup Consumers, NEW again \in {"put", "get"}, NEW limit, Nap(t, again, limit)
      PROVE  Cardinality(PutSoFar') = Cardinality(GotSoFar') + count'
  <2>1. \A u \in Producers \cup Consumers : Moved(u)' = Moved(u)
    BY <1>3, <1>t DEF Nap, Moved
  <2> QED
    BY <1>u, <1>3, <2>1 DEF Nap
<1>4. CASE UNCHANGED <<pc, i, count>>
  BY <1>u, <1>4 DEF Moved
<1>5. ASSUME NEW p \in Producers, Producer(p)
      PROVE  Cardinality(PutSoFar') = Cardinality(GotSoFar') + count'
  BY <1>1, <1>3, <1>4, <1>5 DEF Producer, PutWait
<1>6. ASSUME NEW c \in Consumers, Consumer(c)
      PROVE  Cardinality(PutSoFar') = Cardinality(GotSoFar') + count'
  BY <1>2, <1>3, <1>4, <1>6 DEF Consumer, GetWait
<1>7. ASSUME NEW c \in Consumers, Ending(c) PROVE FALSE
  BY <1>0, <1>7 DEF Ending, CancelledInNap, CancelledInWait, Unwind, TypeInv
<1> QED
  BY <1>4, <1>5, <1>6, <1>7 DEF Next, Main, Spurious, vars

LEMMA Inductive == Spec => []IInv
<1>1. Init => IInv
  BY TypeInit, RingInit, CountsInit DEF IInv, EnoughAwake, Init
<1>2. IInv /\ [Next]_vars => IInv'
  BY TypeStep, RingInvStep, CountsStep, AwakeStep DEF IInv
<1> QED
  BY <1>1, <1>2, PTL DEF Spec

(* No signal is lost, although each operation sends one signal only (lines *)
(* 84 and 98) and a cancelled consumer may be the one that receives it.    *)
THEOREM NoSignalLost == Spec => []EnoughAwake
<1>1. IInv => EnoughAwake
  BY DEF IInv
<1> QED
  BY <1>1, Inductive, PTL

(* The consumers take all there is: when they have settled, after the      *)
(* producers have ended and before the first pthread_cancel (line 146),    *)
(* the ring is empty.  Either one of them still waits, then EnoughAwake    *)
(* says so; or all have got their quota, which is more than was ever put.  *)
THEOREM RingIsDrained == Spec => []NothingLeft
<1>1. IInv => NothingLeft
  <2> SUFFICES ASSUME IInv, main_ = "sleep", Settled PROVE count = 0
    BY DEF NothingLeft
  <2> USE DEF IInv, TypeInv
  <2>0. cancelled = {} /\ count \in Nat
    BY PQAssumption DEF PQAssumption, TypeOK
  <2>1. CASE not_empty # {}
    <3>1. AwakeGetters = {}
      BY DEF AwakeGetters, Settled, Ended
    <3>2. Cardinality(AwakeGetters) = 0
      BY <3>1, FS_EmptySet
    <3>3. count <= Cardinality(AwakeGetters)
      BY <2>1 DEF EnoughAwake, AwakeGetters
    <3> QED
      BY <2>0, <3>2, <3>3
  <2>2. CASE not_empty = {}
    <3>1. \A c \in Consumers : pc[c] = "exit" /\ i[c] = Quota
      BY <2>0, <2>2 DEF Settled, Ended
    <3>2. \A k \in 0 .. Quota - 1 : k < Quota
      BY QuotaSuffices
    <3>3. GotSoFar = Consumers \X (0 .. Quota - 1)
      BY <3>1, <3>2 DEF GotSoFar, Moved
    <3>4. Cardinality(GotSoFar) > Cardinality(PutSoFar)
      <4> DEFINE nP == Cardinality(PutSoFar)
                 nI == Cardinality(Producers) * ITEMS_PER_PRODUCER
                 nG == Cardinality(Consumers) * Quota
      <4>1. Cardinality(GotSoFar) = nG /\ nG > nI /\ nP <= nI /\ nP \in Nat /\ nG \in Nat
        BY <3>3, MovedFinite, QuotaSuffices
      <4>2. nI \in Nat
        BY QuotaSuffices, PQAssumption DEF PQAssumption
      <4> HIDE DEF nP, nI, nG
      <4>3. nG > nP
        BY <4>1, <4>2
      <4> QED
        BY <4>1, <4>3 DEF nP
    <3> QED
      BY <2>0, <3>4, MovedFinite DEF CountsMoved
  <2> QED
    BY <2>1, <2>2
<1> QED
  BY <1>1, Inductive, PTL
=============================================================================
