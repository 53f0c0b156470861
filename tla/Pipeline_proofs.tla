-------------------------- MODULE Pipeline_proofs --------------------------
(* The theorems about Pipeline, for any capacity and any number of items:  *)
(* everything the source makes comes out of the sink, in order, the close  *)
(* follows it, and a stage that waits is never left behind.                *)
EXTENDS Pipeline, SequenceTheorems, TLAPS

(* The types, and who may wait where: each queue has one stage that pushes *)
(* and one that pops.                                                      *)
Triples == {"("} \X Nat \X {")"}
ThreadInv ==
  /\ closed1 \in BOOLEAN /\ closed2 \in BOOLEAN /\ closed3 \in BOOLEAN
  /\ full1 \subseteq {"source"} /\ empty1 \subseteq {"stage1"}
  /\ full2 \subseteq {"stage1"} /\ empty2 \subseteq {"stage2"}
  /\ full3 \subseteq {"stage2"} /\ empty3 \subseteq {"sink"}
  /\ pc \in [Stages -> {"pop", "push", "close", "notify_empty", "notify_full", "exit"}]
  /\ DOMAIN hand = Stages
TypeInv ==
  /\ ThreadInv
  /\ q1 \in Seq(Nat) /\ q2 \in Seq(Nat) /\ q3 \in Seq(Triples) /\ printed \in Seq(Triples)
  /\ Len(q1) <= Cap /\ Len(q2) <= Cap /\ Len(q3) <= Cap

(* What a stage has done tells whether its output is closed, and that it   *)
(* is past its loop, that its input has ended.                             *)
CloseInv ==
  /\ pc["source"] # "pop" /\ (pc["source"] \in {"push", "close"} <=> ~ closed1)
  /\ pc["stage1"] \in {"pop", "push", "close"} <=> ~ closed2
  /\ pc["stage1"] \notin {"pop", "push"} => closed1 /\ q1 = << >>
  /\ pc["stage2"] \in {"pop", "push", "close"} <=> ~ closed3
  /\ pc["stage2"] \notin {"pop", "push"} => closed2 /\ q2 = << >>
  /\ pc["sink"] \in {"pop", "push", "exit"}
  /\ pc["sink"] = "exit" => closed3 /\ q3 = << >>

(* How many items each stage has taken and put.  The items are numbered    *)
(* through: those in the sink's hand, in q3, in the hand of stage2, in q2, *)
(* in the hand of stage1, and in q1 follow each other without a gap.       *)
InHand(s) == IF pc[s] = "push" THEN 1 ELSE 0
Got3 == Len(printed) + InHand("sink")
Put3 == Got3 + Len(q3)
Got2 == Put3 + InHand("stage2")
Put2 == Got2 + Len(q2)
Got1 == Put2 + InHand("stage1")
Put1 == Got1 + Len(q1)

Squares == [k \in Nat |-> k * k]
Bracketed == [k \in Nat |-> Expected(k)]

FlowInv ==
  /\ \A k \in 1 .. Len(printed) : printed[k] = Bracketed[k]
  /\ pc["sink"] = "push" => hand["sink"] = <<Bracketed[Len(printed) + 1]>>
  /\ \A k \in 1 .. Len(q3) : q3[k] = Bracketed[Got3 + k]
  /\ pc["stage2"] = "push" => hand["stage2"] = <<Bracketed[Put3 + 1]>>
  /\ \A k \in 1 .. Len(q2) : q2[k] = Squares[Got2 + k]
  /\ pc["stage1"] = "push" => hand["stage1"] = <<Squares[Put2 + 1]>>
  /\ \A k \in 1 .. Len(q1) : q1[k] = Got1 + k
  /\ pc["source"] = "push" => hand["source"] = <<Put1 + 1>> /\ Put1 < Items
  /\ pc["source"] # "push" => Put1 = Items

(* A stage that sleeps has a reason to, or is about to be notified.        *)
AsleepInv ==
  /\ "source" \in full1 => pc["source"] = "push" /\ Len(q1) = Cap
  /\ "stage1" \in full2 => pc["stage1"] = "push" /\ Len(q2) = Cap
  /\ "stage2" \in full3 => pc["stage2"] = "push" /\ Len(q3) = Cap
  /\ "stage1" \in empty1 =>
       pc["stage1"] = "pop" /\ q1 = << >> /\ (closed1 => pc["source"] = "notify_empty")
  /\ "stage2" \in empty2 =>
       pc["stage2"] = "pop" /\ q2 = << >> /\ (closed2 => pc["stage1"] = "notify_empty")
  /\ "sink" \in empty3 =>
       pc["sink"] = "pop" /\ q3 = << >> /\ (closed3 => pc["stage2"] = "notify_empty")

IInv == TypeInv /\ CloseInv /\ FlowInv /\ AsleepInv

(* While the threads are not all joined, one of them is awake.             *)
Asleep == full1 \cup full2 \cup full3 \cup empty1 \cup empty2 \cup empty3
NeverAllAsleep == Joined \/ \E s \in Stages \ Asleep : pc[s] # "exit"

-----------------------------------------------------------------------------
LEMMA CapIsPositive == Cap \in Nat \ {0} /\ Items \in Nat \ {0}
BY PLAssumption DEF PLAssumption

(* The operations of a queue, seen from the one stage that calls each.     *)
LEMMA Puts ==
  ASSUME TypeInv
  PROVE  /\ \A v : Q1!PushStore("source", v) =>
              /\ "source" \notin full1 /\ ~ closed1 /\ Len(q1) < Cap
              /\ q1' = Append(q1, v) /\ empty1' = {} /\ UNCHANGED <<closed1, full1>>
         /\ \A v : Q2!PushStore("stage1", v) =>
              /\ "stage1" \notin full2 /\ ~ closed2 /\ Len(q2) < Cap
              /\ q2' = Append(q2, v) /\ empty2' = {} /\ UNCHANGED <<closed2, full2>>
         /\ \A v : Q3!PushStore("stage2", v) =>
              /\ "stage2" \notin full3 /\ ~ closed3 /\ Len(q3) < Cap
              /\ q3' = Append(q3, v) /\ empty3' = {} /\ UNCHANGED <<closed3, full3>>
<1>1. ASSUME NEW v, Q1!PushStore("source", v) PROVE empty1' = {}
  BY <1>1 DEF TypeInv, ThreadInv, Q1!NotifyOne, Q1!PushStore
<1>2. ASSUME NEW v, Q2!PushStore("stage1", v) PROVE empty2' = {}
  BY <1>2 DEF TypeInv, ThreadInv, Q2!NotifyOne, Q2!PushStore
<1>3. ASSUME NEW v, Q3!PushStore("stage2", v) PROVE empty3' = {}
  BY <1>3 DEF TypeInv, ThreadInv, Q3!NotifyOne, Q3!PushStore
<1> QED
  BY <1>1, <1>2, <1>3 DEF Q1!PushStore, Q2!PushStore, Q3!PushStore

LEMMA Takes ==
  ASSUME TypeInv
  PROVE  /\ Q1!PopTake("stage1") =>
              /\ "stage1" \notin empty1 /\ q1 # << >> /\ q1' = Tail(q1)
              /\ full1' = {} /\ UNCHANGED <<closed1, empty1>>
         /\ Q2!PopTake("stage2") =>
              /\ "stage2" \notin empty2 /\ q2 # << >> /\ q2' = Tail(q2)
              /\ full2' = {} /\ UNCHANGED <<closed2, empty2>>
         /\ Q3!PopTake("sink") =>
              /\ "sink" \notin empty3 /\ q3 # << >> /\ q3' = Tail(q3)
              /\ full3' = {} /\ UNCHANGED <<closed3, empty3>>
<1>1. ASSUME Q1!PopTake("stage1") PROVE full1' = {}
  BY <1>1 DEF TypeInv, ThreadInv, Q1!NotifyOne, Q1!PopTake
<1>2. ASSUME Q2!PopTake("stage2") PROVE full2' = {}
  BY <1>2 DEF TypeInv, ThreadInv, Q2!NotifyOne, Q2!PopTake
<1>3. ASSUME Q3!PopTake("sink") PROVE full3' = {}
  BY <1>3 DEF TypeInv, ThreadInv, Q3!NotifyOne, Q3!PopTake
<1> QED
  BY <1>1, <1>2, <1>3 DEF Q1!PopTake, Q2!PopTake, Q3!PopTake

LEMMA ThreadStep == TypeInv /\ CloseInv /\ [Next]_vars => ThreadInv'
<1> SUFFICES ASSUME TypeInv, CloseInv, [Next]_vars PROVE ThreadInv'
  OBVIOUS
<1>t. ThreadInv
  BY DEF TypeInv
<1> USE DEF Stages, Goto, queue1, queue2, queue3
<1>h. DOMAIN hand' = Stages
  <2>1. DOMAIN hand = Stages
    BY <1>t DEF ThreadInv
  <2>2. hand' = hand \/ \E s \in Stages : \E v : hand' = [hand EXCEPT ![s] = v]
    BY DEF Next, Source, Stage1, Stage2, Sink, Spurious, Terminating, Popping, Pushing, Closing, vars
  <2> QED
    BY <2>1, <2>2
<1>p. pc' \in [Stages -> {"pop", "push", "close", "notify_empty", "notify_full", "exit"}]
  <2>1. pc \in [Stages -> {"pop", "push", "close", "notify_empty", "notify_full", "exit"}]
    BY <1>t DEF ThreadInv
  <2>2. \/ pc' = pc
        \/ \E s \in Stages, v \in {"pop", "push", "close", "notify_empty", "notify_full", "exit"} :
             pc' = [pc EXCEPT ![s] = v]
    BY DEF Next, Source, Stage1, Stage2, Sink, Spurious, Terminating, Popping, Pushing, Closing, vars
  <2> QED
    BY <2>1, <2>2
<1> DEFINE Sleepers ==
  /\ closed1 \in BOOLEAN /\ closed2 \in BOOLEAN /\ closed3 \in BOOLEAN
  /\ full1 \subseteq {"source"} /\ empty1 \subseteq {"stage1"}
  /\ full2 \subseteq {"stage1"} /\ empty2 \subseteq {"stage2"}
  /\ full3 \subseteq {"stage2"} /\ empty3 \subseteq {"sink"}
<1>s. Sleepers
  BY <1>t DEF ThreadInv
<1> SUFFICES Sleepers'
  BY <1>h, <1>p DEF ThreadInv
<1>1. CASE Source
  <2> DEFINE Closes == Closing("source", Q1!CloseSet, Q1!CloseNotifyEmpty, Q1!CloseNotifyFull)
  <2>1. CASE Closes
    BY <1>s, <1>1, <2>1 DEF Source, Closing, Q1!CloseSet, Q1!CloseNotifyEmpty, Q1!CloseNotifyFull, Q1!NotifyAll
  <2>2. CASE ~ Closes
    BY <1>s, <1>1, <2>2, Puts DEF Source, Pushing, Q1!PushWait, Q1!PushRefused, Q1!qvars
  <2> QED
    BY <2>1, <2>2
<1>2. CASE Stage1
  <2> DEFINE Pops == Popping("stage1", Q1!PopWait("stage1"), Q1!PopEnd("stage1"), Q1!PopTake("stage1"),
                             Head(q1) * Head(q1), "close")
             Closes == Closing("stage1", Q2!CloseSet, Q2!CloseNotifyEmpty, Q2!CloseNotifyFull)
  <2>1. CASE Pops /\ UNCHANGED <<queue2, queue3>>
    BY <1>s, <2>1, Takes DEF Popping, Q1!PopWait, Q1!PopEnd, Q1!qvars
  <2>2. CASE Closes /\ UNCHANGED <<queue1, queue3>>
    BY <1>s, <2>2 DEF Closing, Q2!CloseSet, Q2!CloseNotifyEmpty, Q2!CloseNotifyFull, Q2!NotifyAll
  <2>3. CASE /\ Pushing("stage1", Q2!PushWait("stage1"), Q2!PushRefused("stage1"),
                        Q2!PushStore("stage1", hand["stage1"][1]), "pop", Nothing)
             /\ UNCHANGED <<queue1, queue3>>
    BY <1>s, <2>3, Puts DEF Pushing, Q2!PushWait, Q2!PushRefused, Q2!qvars
  <2> QED
    BY <1>2, <2>1, <2>2, <2>3 DEF Stage1
<1>3. CASE Stage2
  <2> DEFINE Pops == Popping("stage2", Q2!PopWait("stage2"), Q2!PopEnd("stage2"), Q2!PopTake("stage2"),
                             <<"(", Head(q2), ")">>, "close")
             Closes == Closing("stage2", Q3!CloseSet, Q3!CloseNotifyEmpty, Q3!CloseNotifyFull)
  <2>1. CASE Pops /\ UNCHANGED <<queue1, queue3>>
    BY <1>s, <2>1, Takes DEF Popping, Q2!PopWait, Q2!PopEnd, Q2!qvars
  <2>2. CASE Closes /\ UNCHANGED <<queue1, queue2>>
    BY <1>s, <2>2 DEF Closing, Q3!CloseSet, Q3!CloseNotifyEmpty, Q3!CloseNotifyFull, Q3!NotifyAll
  <2>3. CASE /\ Pushing("stage2", Q3!PushWait("stage2"), Q3!PushRefused("stage2"),
                        Q3!PushStore("stage2", hand["stage2"][1]), "pop", Nothing)
             /\ UNCHANGED <<queue1, queue2>>
    BY <1>s, <2>3, Puts DEF Pushing, Q3!PushWait, Q3!PushRefused, Q3!qvars
  <2> QED
    BY <1>3, <2>1, <2>2, <2>3 DEF Stage2
<1>4. CASE Sink
  BY <1>s, <1>4, Takes DEF Sink, Popping, Q3!PopWait, Q3!PopEnd, Q3!qvars
<1>5. CASE Spurious
  BY <1>s, <1>5 DEF Spurious, Q1!SpuriousWake, Q2!SpuriousWake, Q3!SpuriousWake
<1>6. CASE UNCHANGED vars
  BY <1>s, <1>6 DEF vars
<1> QED
  BY <1>1, <1>2, <1>3, <1>4, <1>5, <1>6 DEF Next, Terminating

(* The control: what is closed, who sleeps.                                *)
LEMMA ControlStep ==
  TypeInv /\ CloseInv /\ AsleepInv /\ [Next]_vars => CloseInv' /\ AsleepInv'
<1> SUFFICES ASSUME TypeInv, CloseInv, AsleepInv, [Next]_vars
             PROVE  CloseInv' /\ AsleepInv'
  OBVIOUS
<1>t. /\ pc \in [Stages -> {"pop", "push", "close", "notify_empty", "notify_full", "exit"}]
      /\ closed1 \in BOOLEAN /\ closed2 \in BOOLEAN /\ closed3 \in BOOLEAN
      /\ Len(q1) <= Cap /\ Len(q2) <= Cap /\ Len(q3) <= Cap
      /\ Len(q1) \in Nat /\ Len(q2) \in Nat /\ Len(q3) \in Nat /\ Cap \in Nat
      /\ full1 \subseteq {"source"} /\ empty1 \subseteq {"stage1"}
      /\ full2 \subseteq {"stage1"} /\ empty2 \subseteq {"stage2"}
      /\ full3 \subseteq {"stage2"} /\ empty3 \subseteq {"sink"}
  BY LenProperties, CapIsPositive DEF TypeInv, ThreadInv
<1> USE DEF Stages, CloseInv, AsleepInv, Goto, queue1, queue2, queue3
<1>1. CASE Source
  <2> DEFINE Closes == Closing("source", Q1!CloseSet, Q1!CloseNotifyEmpty, Q1!CloseNotifyFull)
  <2>1. CASE Closes
    BY <1>t, <1>1, <2>1 DEF Source, Closing, Q1!CloseSet, Q1!CloseNotifyEmpty, Q1!CloseNotifyFull, Q1!NotifyAll
  <2>2. CASE ~ Closes
    BY <1>t, <1>1, <2>2, Puts DEF Source, Pushing, Q1!PushWait, Q1!PushRefused, Q1!qvars
  <2> QED
    BY <2>1, <2>2
<1>2. CASE Stage1
  <2> DEFINE Pops == Popping("stage1", Q1!PopWait("stage1"), Q1!PopEnd("stage1"), Q1!PopTake("stage1"),
                             Head(q1) * Head(q1), "close")
             Closes == Closing("stage1", Q2!CloseSet, Q2!CloseNotifyEmpty, Q2!CloseNotifyFull)
  <2>1. CASE Pops /\ UNCHANGED <<queue2, queue3>>
    BY <1>t, <2>1, Takes DEF Popping, Q1!PopWait, Q1!PopEnd, Q1!qvars
  <2>2. CASE Closes /\ UNCHANGED <<queue1, queue3>>
    BY <1>t, <2>2 DEF Closing, Q2!CloseSet, Q2!CloseNotifyEmpty, Q2!CloseNotifyFull, Q2!NotifyAll
  <2>3. CASE /\ Pushing("stage1", Q2!PushWait("stage1"), Q2!PushRefused("stage1"),
                        Q2!PushStore("stage1", hand["stage1"][1]), "pop", Nothing)
             /\ UNCHANGED <<queue1, queue3>>
    BY <1>t, <2>3, Puts DEF Pushing, Q2!PushWait, Q2!PushRefused, Q2!qvars
  <2> QED
    BY <1>2, <2>1, <2>2, <2>3 DEF Stage1
<1>3. CASE Stage2
  <2> DEFINE Pops == Popping("stage2", Q2!PopWait("stage2"), Q2!PopEnd("stage2"), Q2!PopTake("stage2"),
                             <<"(", Head(q2), ")">>, "close")
             Closes == Closing("stage2", Q3!CloseSet, Q3!CloseNotifyEmpty, Q3!CloseNotifyFull)
  <2>1. CASE Pops /\ UNCHANGED <<queue1, queue3>>
    BY <1>t, <2>1, Takes DEF Popping, Q2!PopWait, Q2!PopEnd, Q2!qvars
  <2>2. CASE Closes /\ UNCHANGED <<queue1, queue2>>
    BY <1>t, <2>2 DEF Closing, Q3!CloseSet, Q3!CloseNotifyEmpty, Q3!CloseNotifyFull, Q3!NotifyAll
  <2>3. CASE /\ Pushing("stage2", Q3!PushWait("stage2"), Q3!PushRefused("stage2"),
                        Q3!PushStore("stage2", hand["stage2"][1]), "pop", Nothing)
             /\ UNCHANGED <<queue1, queue2>>
    BY <1>t, <2>3, Puts DEF Pushing, Q3!PushWait, Q3!PushRefused, Q3!qvars
  <2> QED
    BY <1>3, <2>1, <2>2, <2>3 DEF Stage2
<1>4. CASE Sink
  BY <1>t, <1>4, Takes DEF Sink, Popping, Q3!PopWait, Q3!PopEnd, Q3!qvars
<1>5. CASE Spurious
  BY <1>t, <1>5 DEF Spurious, Q1!SpuriousWake, Q2!SpuriousWake, Q3!SpuriousWake
<1>6. CASE UNCHANGED vars
  BY <1>6 DEF vars
<1> QED
  BY <1>1, <1>2, <1>3, <1>4, <1>5, <1>6 DEF Next, Terminating

(* What a step does to the items: a stage puts the one in its hand, takes  *)
(* the next one, or leaves them where they are.                            *)
Put(s, q, then, after) ==
  /\ pc[s] = "push" /\ Len(q) < Cap /\ q' = Append(q, hand[s][1])
  /\ pc' = [pc EXCEPT ![s] = then] /\ hand' = [hand EXCEPT ![s] = after]
Take(s, q, made) ==
  /\ pc[s] = "pop" /\ q # << >> /\ q' = Tail(q)
  /\ pc' = [pc EXCEPT ![s] = "push"] /\ hand' = [hand EXCEPT ![s] = <<made>>]
Rest == /\ UNCHANGED <<q1, q2, q3, hand, printed>>
        /\ \A s \in Stages : pc'[s] = "push" <=> pc[s] = "push"

LEMMA Moves ==
  ASSUME TypeInv, CloseInv, [Next]_vars
  PROVE  \/ /\ LET i == hand["source"][1] IN
                 Put("source", q1, IF i = Items THEN "close" ELSE "push", IF i = Items THEN <<i>> ELSE <<i + 1>>)
            /\ UNCHANGED <<q2, q3, printed>>
         \/ Take("stage1", q1, Head(q1) * Head(q1)) /\ UNCHANGED <<q2, q3, printed>>
         \/ Put("stage1", q2, "pop", Nothing) /\ UNCHANGED <<q1, q3, printed>>
         \/ Take("stage2", q2, <<"(", Head(q2), ")">>) /\ UNCHANGED <<q1, q3, printed>>
         \/ Put("stage2", q3, "pop", Nothing) /\ UNCHANGED <<q1, q2, printed>>
         \/ Take("sink", q3, Head(q3)) /\ UNCHANGED <<q1, q2, printed>>
         \/ /\ pc["sink"] = "push" /\ pc' = [pc EXCEPT !["sink"] = "pop"]
            /\ printed' = Append(printed, hand["sink"][1])
            /\ hand' = [hand EXCEPT !["sink"] = Nothing]
            /\ UNCHANGED <<q1, q2, q3>>
         \/ Rest
<1>t. ThreadInv /\ pc \in [Stages -> {"pop", "push", "close", "notify_empty", "notify_full", "exit"}]
      /\ closed1 \in BOOLEAN /\ closed2 \in BOOLEAN /\ closed3 \in BOOLEAN
  BY DEF TypeInv, ThreadInv
<1> USE DEF Stages, Goto, queue1, queue2, queue3
<1>1. CASE Source
  <2>1. CASE Closing("source", Q1!CloseSet, Q1!CloseNotifyEmpty, Q1!CloseNotifyFull)
    BY <1>t, <1>1, <2>1 DEF Source, Closing, Q1!CloseSet, Q1!CloseNotifyEmpty, Q1!CloseNotifyFull, Rest
  <2>2. CASE ~ Closing("source", Q1!CloseSet, Q1!CloseNotifyEmpty, Q1!CloseNotifyFull)
    BY <1>t, <1>1, <2>2, Puts DEF Source, Pushing, Put, Q1!PushWait, Q1!PushRefused, Q1!qvars, Rest, CloseInv
  <2> QED
    BY <2>1, <2>2
<1>2. CASE Stage1
  <2>1. CASE /\ Popping("stage1", Q1!PopWait("stage1"), Q1!PopEnd("stage1"), Q1!PopTake("stage1"),
                        Head(q1) * Head(q1), "close")
             /\ UNCHANGED <<queue2, queue3>>
    BY <1>t, <2>1, Takes DEF Popping, Take, Q1!PopWait, Q1!PopEnd, Q1!qvars, Rest
  <2>2. CASE Closing("stage1", Q2!CloseSet, Q2!CloseNotifyEmpty, Q2!CloseNotifyFull) /\ UNCHANGED <<queue1, queue3>>
    BY <1>t, <2>2 DEF Closing, Q2!CloseSet, Q2!CloseNotifyEmpty, Q2!CloseNotifyFull, Rest
  <2>3. CASE /\ Pushing("stage1", Q2!PushWait("stage1"), Q2!PushRefused("stage1"),
                        Q2!PushStore("stage1", hand["stage1"][1]), "pop", Nothing)
             /\ UNCHANGED <<queue1, queue3>>
    BY <1>t, <2>3, Puts DEF Pushing, Put, Q2!PushWait, Q2!PushRefused, Q2!qvars, Rest, CloseInv
  <2> QED
    BY <1>2, <2>1, <2>2, <2>3 DEF Stage1
<1>3. CASE Stage2
  <2>1. CASE /\ Popping("stage2", Q2!PopWait("stage2"), Q2!PopEnd("stage2"), Q2!PopTake("stage2"),
                        <<"(", Head(q2), ")">>, "close")
             /\ UNCHANGED <<queue1, queue3>>
    BY <1>t, <2>1, Takes DEF Popping, Take, Q2!PopWait, Q2!PopEnd, Q2!qvars, Rest
  <2>2. CASE Closing("stage2", Q3!CloseSet, Q3!CloseNotifyEmpty, Q3!CloseNotifyFull) /\ UNCHANGED <<queue1, queue2>>
    BY <1>t, <2>2 DEF Closing, Q3!CloseSet, Q3!CloseNotifyEmpty, Q3!CloseNotifyFull, Rest
  <2>3. CASE /\ Pushing("stage2", Q3!PushWait("stage2"), Q3!PushRefused("stage2"),
                        Q3!PushStore("stage2", hand["stage2"][1]), "pop", Nothing)
             /\ UNCHANGED <<queue1, queue2>>
    BY <1>t, <2>3, Puts DEF Pushing, Put, Q3!PushWait, Q3!PushRefused, Q3!qvars, Rest, CloseInv
  <2> QED
    BY <1>3, <2>1, <2>2, <2>3 DEF Stage2
<1>4. CASE Sink
  BY <1>t, <1>4, Takes DEF Sink, Popping, Take, Q3!PopWait, Q3!PopEnd, Q3!qvars, Rest
<1>5. CASE Spurious
  BY <1>5 DEF Spurious, Q1!SpuriousWake, Q2!SpuriousWake, Q3!SpuriousWake, Rest
<1>6. CASE UNCHANGED vars
  BY <1>6 DEF vars, Rest
<1> QED
  BY <1>1, <1>2, <1>3, <1>4, <1>5, <1>6 DEF Next, Terminating

(* A queue that holds the items from first + 1 on, as f makes them, does   *)
(* so after the next one is put into it, or the first is taken out.        *)
Holds(S, q, f, first) ==
  q \in Seq(S) /\ Len(q) \in Nat /\ \A k \in 1 .. Len(q) : q[k] = f[first + k]

LEMMA PutNext ==
  ASSUME NEW S, NEW q, NEW f, NEW first \in Nat, Holds(S, q, f, first),
         NEW v \in S, f[first + Len(q) + 1] = v
  PROVE  Holds(S, Append(q, v), f, first) /\ Len(Append(q, v)) = Len(q) + 1
<1> DEFINE r == Append(q, v)
<1>1. q \in Seq(S) /\ Len(q) \in Nat /\ \A k \in 1 .. Len(q) : q[k] = f[first + k]
  BY DEF Holds
<1>2. /\ r \in Seq(S) /\ Len(r) = Len(q) + 1 /\ r[Len(q) + 1] = v
      /\ \A k \in 1 .. Len(q) : r[k] = q[k]
  BY <1>1, AppendProperties
<1> HIDE DEF r
<1>3. ASSUME NEW k \in 1 .. Len(q) + 1 PROVE r[k] = f[first + k]
  <2>1. CASE k = Len(q) + 1
    <3>1. first + k = first + Len(q) + 1
      BY <1>1, <2>1
    <3> QED
      BY <1>2, <2>1, <3>1
  <2>2. CASE k # Len(q) + 1
    <3>1. k \in 1 .. Len(q)
      BY <1>1, <2>2
    <3> QED
      BY <1>1, <1>2, <3>1
  <2> QED
    BY <2>1, <2>2
<1>4. Len(r) \in Nat
  BY <1>1, <1>2
<1>5. Holds(S, r, f, first)
  BY <1>2, <1>3, <1>4 DEF Holds
<1> QED
  BY <1>2, <1>5 DEF r

LEMMA TakeFirst ==
  ASSUME NEW S, NEW q, q # << >>, NEW f, NEW first \in Nat, Holds(S, q, f, first)
  PROVE  /\ Holds(S, Tail(q), f, first + 1)
         /\ Len(q) \in Nat \ {0} /\ Head(q) = f[first + 1] /\ Len(Tail(q)) = Len(q) - 1
<1>0. q \in Seq(S) /\ \A k \in 1 .. Len(q) : q[k] = f[first + k]
  BY DEF Holds
<1>1. Len(q) \in Nat \ {0} /\ Head(q) = q[1]
  BY <1>0, EmptySeq
<1>2. /\ Tail(q) \in Seq(S) /\ Len(Tail(q)) = Len(q) - 1
      /\ \A k \in 1 .. Len(Tail(q)) : Tail(q)[k] = q[k + 1]
  BY <1>0, HeadTailProperties
<1>3. ASSUME NEW k \in 1 .. Len(Tail(q)) PROVE Tail(q)[k] = f[first + 1 + k]
  <2>1. k + 1 \in 1 .. Len(q) /\ first + (k + 1) = first + 1 + k
    BY <1>1, <1>2
  <2> QED
    BY <1>0, <1>2, <2>1
<1>4. Holds(S, Tail(q), f, first + 1)
  BY <1>1, <1>2, <1>3 DEF Holds
<1>5. Head(q) = f[first + 1]
  BY <1>0, <1>1
<1> QED
  BY <1>1, <1>2, <1>4, <1>5

Numbers == [k \in Nat |-> k]

(* What FlowInv says of the sequences, with the queues' items as functions. *)
LEMMA Flow ==
  ASSUME TypeInv
  PROVE  /\ Got3 \in Nat /\ Put3 \in Nat /\ Got2 \in Nat /\ Put2 \in Nat /\ Got1 \in Nat /\ Put1 \in Nat
         /\ Len(q1) \in Nat /\ Len(q2) \in Nat /\ Len(q3) \in Nat /\ Len(printed) \in Nat
         /\ \A k \in Nat : Squares[k] \in Nat /\ Bracketed[k] \in Triples /\ Numbers[k] = k
<1>1. Len(q1) \in Nat /\ Len(q2) \in Nat /\ Len(q3) \in Nat /\ Len(printed) \in Nat
  BY LenProperties DEF TypeInv
<1>2. InHand("sink") \in Nat /\ InHand("stage2") \in Nat /\ InHand("stage1") \in Nat
  BY DEF InHand
<1>3. \A k \in Nat : k * k \in Nat
  OBVIOUS
<1>4. \A k \in Nat : Squares[k] \in Nat /\ Bracketed[k] \in Triples /\ Numbers[k] = k
  BY <1>3 DEF Squares, Bracketed, Expected, Triples, Numbers
<1>5. Got3 \in Nat /\ Put3 \in Nat
  BY <1>1, <1>2 DEF Got3, Put3
<1>6. Got2 \in Nat /\ Put2 \in Nat
  BY <1>1, <1>2, <1>5 DEF Got2, Put2
<1>7. Got1 \in Nat /\ Put1 \in Nat
  BY <1>1, <1>2, <1>6 DEF Got1, Put1
<1> QED
  BY <1>1, <1>4, <1>5, <1>6, <1>7

SeqInv ==
  /\ q1 \in Seq(Nat) /\ q2 \in Seq(Nat) /\ q3 \in Seq(Triples) /\ printed \in Seq(Triples)
  /\ Len(q1) <= Cap /\ Len(q2) <= Cap /\ Len(q3) <= Cap

LEMMA FlowStep == TypeInv /\ CloseInv /\ FlowInv /\ [Next]_vars => SeqInv' /\ FlowInv'
<1> SUFFICES ASSUME TypeInv, CloseInv, FlowInv, [Next]_vars PROVE SeqInv' /\ FlowInv'
  OBVIOUS
<1>t. /\ pc \in [Stages -> {"pop", "push", "close", "notify_empty", "notify_full", "exit"}]
      /\ DOMAIN hand = Stages
      /\ SeqInv /\ Cap \in Nat \ {0} /\ Items \in Nat \ {0}
  BY CapIsPositive DEF TypeInv, ThreadInv, SeqInv
<1>n. /\ Got3 \in Nat /\ Put3 \in Nat /\ Got2 \in Nat /\ Put2 \in Nat /\ Got1 \in Nat /\ Put1 \in Nat
      /\ Len(q1) \in Nat /\ Len(q2) \in Nat /\ Len(q3) \in Nat /\ Len(printed) \in Nat
  BY Flow
<1>f. \A k \in Nat : Squares[k] \in Nat /\ Bracketed[k] \in Triples /\ Numbers[k] = k
  BY Flow
<1>d. Put3 = Got3 + Len(q3) /\ Put2 = Got2 + Len(q2) /\ Put1 = Got1 + Len(q1)
  BY DEF Put1, Put2, Put3
<1>e. Put3' = Got3' + Len(q3') /\ Put2' = Got2' + Len(q2') /\ Put1' = Got1' + Len(q1')
  BY DEF Put1, Put2, Put3
<1>s. /\ \A k \in 1 .. Len(printed) : printed[k] = Bracketed[k]
      /\ \A k \in 1 .. Len(q3) : q3[k] = Bracketed[Got3 + k]
      /\ \A k \in 1 .. Len(q2) : q2[k] = Squares[Got2 + k]
      /\ \A k \in 1 .. Len(q1) : q1[k] = Numbers[Got1 + k]
  BY <1>n, <1>f, <1>t DEF FlowInv
<1>r. /\ Holds(Triples, q3, Bracketed, Got3) /\ Holds(Nat, q2, Squares, Got2)
      /\ Holds(Nat, q1, Numbers, Got1)
  BY <1>n, <1>s, <1>t DEF Holds, SeqInv
<1> USE DEF Stages
<1>1. ASSUME LET i == hand["source"][1] IN
               Put("source", q1, IF i = Items THEN "close" ELSE "push", IF i = Items THEN <<i>> ELSE <<i + 1>>),
             UNCHANGED <<q2, q3, printed>>
      PROVE  SeqInv' /\ FlowInv'
  <2>1. hand["source"][1] = Put1 + 1 /\ pc["source"] = "push" /\ Put1 < Items
    BY <1>1 DEF Put, FlowInv
  <2>2. /\ q1' = Append(q1, Put1 + 1) /\ Len(q1) < Cap
        /\ pc' = [pc EXCEPT !["source"] = IF Put1 + 1 = Items THEN "close" ELSE "push"]
        /\ hand' = [hand EXCEPT !["source"] = IF Put1 + 1 = Items THEN <<Put1 + 1>> ELSE <<Put1 + 1 + 1>>]
    BY <1>1, <2>1 DEF Put
  <2>3. q1' \in Seq(Nat) /\ Len(q1') = Len(q1) + 1 /\ \A k \in 1 .. Len(q1') : q1'[k] = Numbers[Got1 + k]
    <3>1. Numbers[Got1 + Len(q1) + 1] = Put1 + 1
      BY <1>n, <1>d, <1>f
    <3>2. Holds(Nat, q1', Numbers, Got1) /\ Len(q1') = Len(q1) + 1
      <4>1. Put1 + 1 \in Nat
        BY <1>n
      <4> QED
        BY <1>n, <1>r, <2>2, <3>1, <4>1, PutNext
    <3> QED
      BY <3>2 DEF Holds
  <2>4. \A s \in Stages \ {"source"} : pc'[s] = pc[s] /\ hand'[s] = hand[s]
    BY <1>t, <2>2
  <2>5. Got3' = Got3 /\ Put3' = Put3 /\ Got2' = Got2 /\ Put2' = Put2 /\ Got1' = Got1 /\ Put1' = Put1 + 1
    <3>1. Got3' = Got3 /\ Put3' = Put3 /\ Got2' = Got2 /\ Put2' = Put2 /\ Got1' = Got1
      BY <1>1, <2>4 DEF Got3, Put3, Got2, Put2, Got1, InHand
    <3> QED
      BY <1>n, <1>d, <1>e, <2>3, <3>1
  <2>6. SeqInv'
    BY <1>1, <1>n, <1>t, <2>2, <2>3 DEF SeqInv
  <2>7. \A k \in 1 .. Len(q1') : q1'[k] = Got1' + k
    BY <1>n, <1>f, <2>3, <2>5
  <2>8. /\ pc'["source"] = "push" => hand'["source"] = <<Put1' + 1>> /\ Put1' < Items
        /\ pc'["source"] # "push" => Put1' = Items
    BY <1>n, <1>t, <2>1, <2>2, <2>5
  <2> QED
    BY <1>1, <2>4, <2>5, <2>6, <2>7, <2>8 DEF FlowInv
<1>2. ASSUME Take("stage1", q1, Head(q1) * Head(q1)), UNCHANGED <<q2, q3, printed>>
      PROVE  SeqInv' /\ FlowInv'
  <2>1. /\ pc["stage1"] = "pop" /\ q1 # << >> /\ q1' = Tail(q1)
        /\ pc' = [pc EXCEPT !["stage1"] = "push"] /\ hand' = [hand EXCEPT !["stage1"] = <<Head(q1) * Head(q1)>>]
    BY <1>2 DEF Take
  <2>2. /\ Len(q1) \in Nat \ {0} /\ Head(q1) = Numbers[Got1 + 1] /\ q1' \in Seq(Nat) /\ Len(q1') = Len(q1) - 1
        /\ \A k \in 1 .. Len(q1') : q1'[k] = Numbers[Got1 + 1 + k]
    <3>1. /\ Holds(Nat, q1', Numbers, Got1 + 1)
          /\ Len(q1) \in Nat \ {0} /\ Head(q1) = Numbers[Got1 + 1] /\ Len(q1') = Len(q1) - 1
      <4>1. Got1 \in Nat /\ q1 # << >> /\ Holds(Nat, q1, Numbers, Got1)
        BY <1>n, <1>r, <2>1
      <4>2. /\ Holds(Nat, Tail(q1), Numbers, Got1 + 1)
            /\ Len(q1) \in Nat \ {0} /\ Head(q1) = Numbers[Got1 + 1] /\ Len(Tail(q1)) = Len(q1) - 1
        BY <4>1, TakeFirst
      <4> QED
        BY <2>1, <4>2
    <3> QED
      BY <3>1 DEF Holds
  <2>3. \A s \in Stages \ {"stage1"} : pc'[s] = pc[s] /\ hand'[s] = hand[s]
    BY <1>t, <2>1
  <2>4. Got3' = Got3 /\ Put3' = Put3 /\ Got2' = Got2 /\ Put2' = Put2 /\ Got1' = Got1 + 1 /\ Put1' = Put1
        /\ Got1 = Put2
    <3>1. Got3' = Got3 /\ Put3' = Put3 /\ Got2' = Got2 /\ Put2' = Put2
      BY <1>2, <2>3 DEF Got3, Put3, Got2, Put2, InHand
    <3>2. Got1 = Put2 /\ Got1' = Put2' + 1
      BY <1>n, <1>t, <2>1, <3>1 DEF Got1, InHand
    <3> QED
      BY <1>n, <1>d, <1>e, <2>2, <3>1, <3>2
  <2>5. hand'["stage1"] = <<Squares[Put2' + 1]>>
    <3>1. Head(q1) = Put2 + 1
      BY <1>n, <1>f, <2>2, <2>4
    <3>2. Squares[Put2 + 1] = (Put2 + 1) * (Put2 + 1)
      BY <1>n DEF Squares
    <3> QED
      BY <1>t, <2>1, <2>4, <3>1, <3>2
  <2>6. SeqInv'
    BY <1>2, <1>n, <1>t, <2>2 DEF SeqInv
  <2>7. \A k \in 1 .. Len(q1') : q1'[k] = Got1' + k
    <3>1. \A k \in 1 .. Len(q1') : Got1 + 1 + k \in Nat
      BY <1>n, <2>2
    <3> QED
      BY <1>f, <2>2, <2>4, <3>1
  <2> QED
    BY <1>2, <2>3, <2>4, <2>5, <2>6, <2>7 DEF FlowInv
<1>3. ASSUME Put("stage1", q2, "pop", Nothing), UNCHANGED <<q1, q3, printed>>
      PROVE  SeqInv' /\ FlowInv'
  <2>1. /\ pc["stage1"] = "push" /\ Len(q2) < Cap /\ q2' = Append(q2, Squares[Put2 + 1])
        /\ pc' = [pc EXCEPT !["stage1"] = "pop"] /\ hand' = [hand EXCEPT !["stage1"] = Nothing]
    BY <1>3 DEF Put, FlowInv
  <2>2. q2' \in Seq(Nat) /\ Len(q2') = Len(q2) + 1 /\ \A k \in 1 .. Len(q2') : q2'[k] = Squares[Got2 + k]
    <3>1. Squares[Got2 + Len(q2) + 1] = Squares[Put2 + 1] /\ Squares[Put2 + 1] \in Nat
      BY <1>n, <1>d, <1>f
    <3>2. Holds(Nat, q2', Squares, Got2) /\ Len(q2') = Len(q2) + 1
      BY <1>n, <1>r, <2>1, <3>1, PutNext
    <3> QED
      BY <3>2 DEF Holds
  <2>3. \A s \in Stages \ {"stage1"} : pc'[s] = pc[s] /\ hand'[s] = hand[s]
    BY <1>t, <2>1
  <2>4. Got3' = Got3 /\ Put3' = Put3 /\ Got2' = Got2 /\ Put2' = Put2 + 1 /\ Got1' = Got1 /\ Put1' = Put1
    <3>1. Got3' = Got3 /\ Put3' = Put3 /\ Got2' = Got2
      BY <1>3, <2>3 DEF Got3, Put3, Got2, InHand
    <3>2. Put2' = Put2 + 1
      BY <1>n, <1>d, <1>e, <2>2, <3>1
    <3>3. Got1' = Got1
      BY <1>n, <1>t, <2>1, <3>2 DEF Got1, InHand
    <3> QED
      BY <1>3, <1>d, <1>e, <3>1, <3>2, <3>3
  <2>5. SeqInv'
    BY <1>3, <1>n, <1>t, <2>1, <2>2 DEF SeqInv
  <2> QED
    BY <1>3, <1>t, <2>1, <2>2, <2>3, <2>4, <2>5 DEF FlowInv
<1>4. ASSUME Take("stage2", q2, <<"(", Head(q2), ")">>), UNCHANGED <<q1, q3, printed>>
      PROVE  SeqInv' /\ FlowInv'
  <2>1. /\ pc["stage2"] = "pop" /\ q2 # << >> /\ q2' = Tail(q2)
        /\ pc' = [pc EXCEPT !["stage2"] = "push"] /\ hand' = [hand EXCEPT !["stage2"] = <<<<"(", Head(q2), ")">>>>]
    BY <1>4 DEF Take
  <2>2. /\ Len(q2) \in Nat \ {0} /\ Head(q2) = Squares[Got2 + 1] /\ q2' \in Seq(Nat) /\ Len(q2') = Len(q2) - 1
        /\ \A k \in 1 .. Len(q2') : q2'[k] = Squares[Got2 + 1 + k]
    <3>1. /\ Holds(Nat, q2', Squares, Got2 + 1)
          /\ Len(q2) \in Nat \ {0} /\ Head(q2) = Squares[Got2 + 1] /\ Len(q2') = Len(q2) - 1
      <4>1. Got2 \in Nat /\ q2 # << >> /\ Holds(Nat, q2, Squares, Got2)
        BY <1>n, <1>r, <2>1
      <4>2. /\ Holds(Nat, Tail(q2), Squares, Got2 + 1)
            /\ Len(q2) \in Nat \ {0} /\ Head(q2) = Squares[Got2 + 1] /\ Len(Tail(q2)) = Len(q2) - 1
        BY <4>1, TakeFirst
      <4> QED
        BY <2>1, <4>2
    <3> QED
      BY <3>1 DEF Holds
  <2>3. \A s \in Stages \ {"stage2"} : pc'[s] = pc[s] /\ hand'[s] = hand[s]
    BY <1>t, <2>1
  <2>4. Got3' = Got3 /\ Put3' = Put3 /\ Got2' = Got2 + 1 /\ Put2' = Put2 /\ Got1' = Got1 /\ Put1' = Put1
        /\ Got2 = Put3
    <3>1. Got3' = Got3 /\ Put3' = Put3
      BY <1>4, <2>3 DEF Got3, Put3, InHand
    <3>2. Got2 = Put3 /\ Got2' = Put3' + 1
      BY <1>n, <1>t, <2>1, <3>1 DEF Got2, InHand
    <3>3. Put2' = Put2
      BY <1>n, <1>d, <1>e, <2>2, <3>1, <3>2
    <3>4. Got1' = Got1 /\ Put1' = Put1
      BY <1>4, <2>3, <3>3 DEF Got1, Put1, InHand
    <3> QED
      BY <3>1, <3>2, <3>3, <3>4
  <2>5. hand'["stage2"] = <<Bracketed[Put3' + 1]>>
    <3>1. Bracketed[Put3 + 1] = <<"(", Squares[Put3 + 1], ")">>
      <4>1. Put3 + 1 \in Nat
        BY <1>n
      <4> QED
        BY <4>1 DEF Bracketed, Expected, Squares
    <3> QED
      BY <1>t, <2>1, <2>2, <2>4, <3>1
  <2>6. SeqInv'
    BY <1>4, <1>n, <1>t, <2>2 DEF SeqInv
  <2> QED
    BY <1>4, <1>t, <2>1, <2>2, <2>3, <2>4, <2>5, <2>6 DEF FlowInv
<1>5. ASSUME Put("stage2", q3, "pop", Nothing), UNCHANGED <<q1, q2, printed>>
      PROVE  SeqInv' /\ FlowInv'
  <2>1. /\ pc["stage2"] = "push" /\ Len(q3) < Cap /\ q3' = Append(q3, Bracketed[Put3 + 1])
        /\ pc' = [pc EXCEPT !["stage2"] = "pop"] /\ hand' = [hand EXCEPT !["stage2"] = Nothing]
    BY <1>5 DEF Put, FlowInv
  <2>2. q3' \in Seq(Triples) /\ Len(q3') = Len(q3) + 1 /\ \A k \in 1 .. Len(q3') : q3'[k] = Bracketed[Got3 + k]
    <3>1. Bracketed[Got3 + Len(q3) + 1] = Bracketed[Put3 + 1] /\ Bracketed[Put3 + 1] \in Triples
      BY <1>n, <1>d, <1>f
    <3>2. Holds(Triples, q3', Bracketed, Got3) /\ Len(q3') = Len(q3) + 1
      BY <1>n, <1>r, <2>1, <3>1, PutNext
    <3> QED
      BY <3>2 DEF Holds
  <2>3. \A s \in Stages \ {"stage2"} : pc'[s] = pc[s] /\ hand'[s] = hand[s]
    BY <1>t, <2>1
  <2>4. Got3' = Got3 /\ Put3' = Put3 + 1 /\ Got2' = Got2 /\ Put2' = Put2 /\ Got1' = Got1 /\ Put1' = Put1
    <3>1. Got3' = Got3
      BY <1>5, <2>3 DEF Got3, InHand
    <3>2. Put3' = Put3 + 1
      BY <1>n, <1>d, <1>e, <2>2, <3>1
    <3>3. Got2' = Got2
      BY <1>n, <1>t, <2>1, <3>2 DEF Got2, InHand
    <3>4. Put2' = Put2 /\ Got1' = Got1 /\ Put1' = Put1
      BY <1>5, <2>3, <3>3 DEF Put2, Got1, Put1, InHand
    <3> QED
      BY <3>1, <3>2, <3>3, <3>4
  <2>5. SeqInv'
    BY <1>5, <1>n, <1>t, <2>1, <2>2 DEF SeqInv
  <2> QED
    BY <1>5, <1>t, <2>1, <2>2, <2>3, <2>4, <2>5 DEF FlowInv
<1>6. ASSUME Take("sink", q3, Head(q3)), UNCHANGED <<q1, q2, printed>>
      PROVE  SeqInv' /\ FlowInv'
  <2>1. /\ pc["sink"] = "pop" /\ q3 # << >> /\ q3' = Tail(q3)
        /\ pc' = [pc EXCEPT !["sink"] = "push"] /\ hand' = [hand EXCEPT !["sink"] = <<Head(q3)>>]
    BY <1>6 DEF Take
  <2>2. /\ Len(q3) \in Nat \ {0} /\ Head(q3) = Bracketed[Got3 + 1] /\ q3' \in Seq(Triples) /\ Len(q3') = Len(q3) - 1
        /\ \A k \in 1 .. Len(q3') : q3'[k] = Bracketed[Got3 + 1 + k]
    <3>1. /\ Holds(Triples, q3', Bracketed, Got3 + 1)
          /\ Len(q3) \in Nat \ {0} /\ Head(q3) = Bracketed[Got3 + 1] /\ Len(q3') = Len(q3) - 1
      <4>1. Got3 \in Nat /\ q3 # << >> /\ Holds(Triples, q3, Bracketed, Got3)
        BY <1>n, <1>r, <2>1
      <4>2. /\ Holds(Triples, Tail(q3), Bracketed, Got3 + 1)
            /\ Len(q3) \in Nat \ {0} /\ Head(q3) = Bracketed[Got3 + 1] /\ Len(Tail(q3)) = Len(q3) - 1
        BY <4>1, TakeFirst
      <4> QED
        BY <2>1, <4>2
    <3> QED
      BY <3>1 DEF Holds
  <2>3. \A s \in Stages \ {"sink"} : pc'[s] = pc[s] /\ hand'[s] = hand[s]
    BY <1>t, <2>1
  <2>4. Got3' = Got3 + 1 /\ Put3' = Put3 /\ Got2' = Got2 /\ Put2' = Put2 /\ Got1' = Got1 /\ Put1' = Put1
        /\ Got3 = Len(printed)
    <3>1. Got3 = Len(printed) /\ Got3' = Len(printed) + 1
      BY <1>6, <1>n, <1>t, <2>1 DEF Got3, InHand
    <3>2. Put3' = Put3
      BY <1>n, <1>d, <1>e, <2>2, <3>1
    <3>3. Got2' = Got2 /\ Put2' = Put2 /\ Got1' = Got1 /\ Put1' = Put1
      BY <1>6, <2>3, <3>2 DEF Got2, Put2, Got1, Put1, InHand
    <3> QED
      BY <3>1, <3>2, <3>3
  <2>5. hand'["sink"] = <<Bracketed[Len(printed) + 1]>>
    BY <1>t, <2>1, <2>2, <2>4
  <2>6. SeqInv'
    BY <1>6, <1>n, <1>t, <2>2 DEF SeqInv
  <2> QED
    BY <1>6, <1>t, <2>1, <2>2, <2>3, <2>4, <2>5, <2>6 DEF FlowInv
<1>7. ASSUME pc["sink"] = "push", pc' = [pc EXCEPT !["sink"] = "pop"],
             printed' = Append(printed, hand["sink"][1]),
             hand' = [hand EXCEPT !["sink"] = Nothing], UNCHANGED <<q1, q2, q3>>
      PROVE  SeqInv' /\ FlowInv'
  <2>1. printed' = Append(printed, Bracketed[Len(printed) + 1])
    BY <1>7 DEF FlowInv
  <2>2. /\ printed' \in Seq(Triples) /\ Len(printed') = Len(printed) + 1
        /\ \A k \in 1 .. Len(printed') : printed'[k] = Bracketed[k]
    <3>1. /\ Bracketed[0 + Len(printed) + 1] = Bracketed[Len(printed) + 1]
          /\ Bracketed[Len(printed) + 1] \in Triples
      BY <1>n, <1>f
    <3>2. Holds(Triples, printed, Bracketed, 0)
      <4>1. \A k \in 1 .. Len(printed) : 0 + k = k
        BY <1>n
      <4> QED
        BY <1>n, <1>s, <1>t, <4>1 DEF Holds, SeqInv
    <3>3. Holds(Triples, printed', Bracketed, 0) /\ Len(printed') = Len(printed) + 1
      BY <2>1, <3>1, <3>2, PutNext
    <3>4. \A k \in 1 .. Len(printed') : 0 + k = k
      BY <1>n, <3>3
    <3> QED
      BY <3>3, <3>4 DEF Holds
  <2>3. \A s \in Stages \ {"sink"} : pc'[s] = pc[s] /\ hand'[s] = hand[s]
    BY <1>t, <1>7
  <2>4. Got3' = Got3 /\ Put3' = Put3 /\ Got2' = Got2 /\ Put2' = Put2 /\ Got1' = Got1 /\ Put1' = Put1
    <3>1. Got3' = Got3
      BY <1>7, <1>n, <1>t, <2>2 DEF Got3, InHand
    <3> QED
      BY <1>7, <2>3, <3>1 DEF Put3, Got2, Put2, Got1, Put1, InHand
  <2>5. SeqInv'
    BY <1>7, <1>t, <2>2 DEF SeqInv
  <2> QED
    BY <1>7, <1>t, <2>2, <2>3, <2>4, <2>5 DEF FlowInv
<1>8. CASE Rest
  <2>1. Got3' = Got3 /\ Put3' = Put3 /\ Got2' = Got2 /\ Put2' = Put2 /\ Got1' = Got1 /\ Put1' = Put1
    BY <1>8 DEF Rest, Put1, Put2, Put3, Got1, Got2, Got3, InHand
  <2> QED
    BY <1>8, <1>t, <2>1 DEF Rest, FlowInv, SeqInv
<1> QED
  BY <1>1, <1>2, <1>3, <1>4, <1>5, <1>6, <1>7, <1>8, Moves


-----------------------------------------------------------------------------
(* A function of 1 .. m is a sequence of length m. *)
LEMMA FunctionIsSeq ==
  ASSUME NEW S, NEW m \in Nat, NEW f \in [1 .. m -> S]
  PROVE  f \in Seq(S) /\ Len(f) = m
OBVIOUS

LEMMA Inductive == Spec => []IInv
<1>1. Init => IInv
  <2> SUFFICES ASSUME Init PROVE IInv
    OBVIOUS
  <2>1. /\ q1 = << >> /\ q2 = << >> /\ q3 = << >> /\ printed = << >>
        /\ closed1 = FALSE /\ closed2 = FALSE /\ closed3 = FALSE
        /\ full1 = {} /\ empty1 = {} /\ full2 = {} /\ empty2 = {} /\ full3 = {} /\ empty3 = {}
        /\ pc = [s \in Stages |-> IF s = "source" THEN "push" ELSE "pop"]
        /\ hand = [s \in Stages |-> IF s = "source" THEN <<1>> ELSE Nothing]
    BY DEF Init, Q1!QInit, Q2!QInit, Q3!QInit
  <2>2. /\ pc["source"] = "push" /\ pc["stage1"] = "pop" /\ pc["stage2"] = "pop" /\ pc["sink"] = "pop"
        /\ hand["source"] = <<1>> /\ DOMAIN hand = Stages
    BY <2>1 DEF Stages
  <2>3. pc \in [Stages -> {"pop", "push", "close", "notify_empty", "notify_full", "exit"}]
    BY <2>1
  <2>4. TypeInv
    <3>1. ThreadInv
      BY <2>1, <2>2, <2>3 DEF ThreadInv
    <3>2. /\ q1 \in Seq(Nat) /\ q2 \in Seq(Nat) /\ q3 \in Seq(Triples) /\ printed \in Seq(Triples)
          /\ Len(q1) = 0 /\ Len(q2) = 0 /\ Len(q3) = 0
      BY <2>1, EmptySeq
    <3> QED
      BY <3>1, <3>2, CapIsPositive DEF TypeInv
  <2>5. CloseInv /\ AsleepInv
    BY <2>1, <2>2 DEF CloseInv, AsleepInv
  <2>6. Put1 = 0
    BY <2>1, <2>2 DEF Got3, Put3, Got2, Put2, Got1, Put1, InHand
  <2>7. FlowInv
    BY <2>1, <2>2, <2>6, CapIsPositive DEF FlowInv
  <2> QED
    BY <2>4, <2>5, <2>7 DEF IInv
<1>2. IInv /\ [Next]_vars => IInv'
  BY ThreadStep, ControlStep, FlowStep DEF IInv, TypeInv, SeqInv
<1> QED
  BY <1>1, <1>2, PTL DEF Spec

(* The types; no queue holds more than its capacity, or a number the       *)
(* source has not made.                                                    *)
THEOREM TypeCorrect == Spec => []TypeOK
<1>1. ASSUME IInv PROVE TypeOK
  <2>0. TypeInv /\ ThreadInv /\ FlowInv
    BY <1>1 DEF IInv, TypeInv
  <2>1. q1 \in Seq(1 .. Items)
    <3>1. Got1 \in Nat /\ Put1 \in Nat /\ Len(q1) \in Nat /\ Put1 = Got1 + Len(q1) /\ Put1 <= Items
      BY <2>0, Flow, CapIsPositive DEF FlowInv, Put1
    <3>2. \A k \in 1 .. Len(q1) : q1[k] \in 1 .. Items
      BY <2>0, <3>1, CapIsPositive DEF FlowInv
    <3>3. q1 \in [1 .. Len(q1) -> Nat]
      BY <2>0, LenProperties DEF TypeInv
    <3>4. q1 \in [1 .. Len(q1) -> 1 .. Items]
      BY <3>2, <3>3
    <3> QED
      BY <3>1, <3>4, FunctionIsSeq
  <2>2. \A k \in DOMAIN q3 : q3[k][2] \in Nat
    <3>1. \A k \in DOMAIN q3 : q3[k] \in Triples
      BY <2>0, LenProperties, ElementOfSeq DEF TypeInv
    <3> QED
      BY <3>1 DEF Triples
  <2>3. {closed1, closed2, closed3} \subseteq BOOLEAN
        /\ full1 \cup full2 \cup full3 \cup empty1 \cup empty2 \cup empty3 \subseteq Stages
    BY <2>0 DEF ThreadInv, Stages
  <2> QED
    BY <2>0, <2>1, <2>2, <2>3 DEF TypeOK, TypeInv, ThreadInv
<1> QED
  BY <1>1, Inductive, PTL

(* What the sink prints (line 90) is what the source made (line 73),       *)
(* squared and bracketed, in order; and the sink ends after the last one.  *)
THEOREM NothingIsLost == Spec => []InOrder
<1>1. ASSUME IInv PROVE InOrder
  <2>0. TypeInv /\ ThreadInv /\ FlowInv /\ CloseInv
    BY <1>1 DEF IInv, TypeInv
  <2>1. DOMAIN printed = 1 .. Len(printed) /\ Len(printed) \in Nat
    BY <2>0, LenProperties DEF TypeInv
  <2>2. ASSUME NEW k \in DOMAIN printed PROVE printed[k] = Expected(k)
    <3>1. k \in Nat /\ printed[k] = Bracketed[k]
      BY <2>0, <2>1, <2>2 DEF FlowInv
    <3> QED
      BY <3>1 DEF Bracketed
  <2>3. ASSUME pc["sink"] = "exit" PROVE Len(printed) = Items
    <3>1. /\ q3 = << >> /\ q2 = << >> /\ q1 = << >>
          /\ pc["stage2"] # "push" /\ pc["stage1"] # "push" /\ pc["source"] # "push"
      BY <2>0, <2>3 DEF CloseInv, ThreadInv
    <3>2. Put1 = Items
      BY <2>0, <3>1 DEF FlowInv
    <3>3. Got3 = Len(printed)
      BY <2>1, <2>3 DEF Got3, InHand
    <3>4. Put3 = Got3 /\ Got2 = Got3
      BY <2>1, <3>1, <3>3 DEF Put3, Got2, InHand
    <3>5. Put2 = Got3 /\ Got1 = Got3
      BY <2>1, <3>1, <3>3, <3>4 DEF Put2, Got1, InHand
    <3>6. Put1 = Got3
      BY <2>1, <3>1, <3>3, <3>5 DEF Put1
    <3> QED
      BY <3>2, <3>3, <3>6
  <2> QED
    BY <2>2, <2>3 DEF InOrder
<1> QED
  BY <1>1, Inductive, PTL

(* A queue is closed only after the one before it, and when that one is    *)
(* empty (lines 76, 81 and 86).                                            *)
THEOREM CloseFollowsTheItems == Spec => []CloseCascades
<1>1. IInv => CloseCascades
  BY DEF IInv, CloseInv, CloseCascades
<1> QED
  BY <1>1, Inductive, PTL

(* notify_one and the two notify_all of close() are enough: as long as the *)
(* pipeline runs, some thread is not asleep in a wait (lines 44-62), even  *)
(* if none ever wakes without a notification.                              *)
THEOREM SomeoneIsAwake == Spec => []NeverAllAsleep
<1>1. ASSUME IInv PROVE NeverAllAsleep
  <2>0. TypeInv /\ ThreadInv /\ CloseInv /\ AsleepInv
    BY <1>1 DEF IInv, TypeInv
  <2> SUFFICES ASSUME \A s \in Stages : s \in Asleep \/ pc[s] = "exit" PROVE \A s \in Stages : pc[s] = "exit"
    BY DEF NeverAllAsleep, Joined
  <2> USE DEF Stages
  <2>f. Len(q1) # Cap \/ q1 # << >>
    BY CapIsPositive
  <2>g. (Len(q2) # Cap \/ q2 # << >>) /\ (Len(q3) # Cap \/ q3 # << >>)
    BY CapIsPositive
  <2>1. pc["source"] = "exit" \/ "source" \in full1
    BY <2>0 DEF Asleep, ThreadInv
  <2>2. pc["stage1"] = "exit" \/ "stage1" \in empty1 \/ "stage1" \in full2
    BY <2>0 DEF Asleep, ThreadInv
  <2>3. pc["stage2"] = "exit" \/ "stage2" \in empty2 \/ "stage2" \in full3
    BY <2>0 DEF Asleep, ThreadInv
  <2>4. pc["sink"] = "exit" \/ "sink" \in empty3
    BY <2>0 DEF Asleep, ThreadInv
  <2>5. "stage1" \notin empty1
    BY <2>0, <2>1, <2>f DEF AsleepInv, CloseInv
  <2>6. "stage2" \notin empty2
    BY <2>0, <2>2, <2>5, <2>g DEF AsleepInv, CloseInv
  <2>7. "sink" \notin empty3 /\ pc["sink"] = "exit"
    BY <2>0, <2>3, <2>4, <2>6, <2>g DEF AsleepInv, CloseInv
  <2>8. pc["stage2"] = "exit"
    BY <2>0, <2>3, <2>6, <2>7 DEF AsleepInv, CloseInv
  <2>9. pc["stage1"] = "exit"
    BY <2>0, <2>2, <2>5, <2>8 DEF AsleepInv, CloseInv
  <2> QED
    BY <2>0, <2>1, <2>7, <2>8, <2>9 DEF AsleepInv, CloseInv
<1> QED
  BY <1>1, Inductive, PTL
=============================================================================
