---------------------- MODULE ProducerConsumer_proofs ----------------------
(* The theorems about ProducerConsumer, for every number of threads and    *)
(* items and every capacity.                                               *)
EXTENDS ProducerConsumer, FiniteSetTheorems, SequenceTheorems, TLAPS

USE DEF NotifyOne, NotifyAll

(* Taking the front of a queue (lines 45): a shorter queue and a value of it. *)
LEMMA TakeType ==
  ASSUME NEW T, NEW s \in Seq(T), s # << >>
  PROVE  Head(s) \in T /\ Tail(s) \in Seq(T) /\ Len(s) \in Nat /\ Len(Tail(s)) = Len(s) - 1
BY HeadTailProperties, LenProperties

(* Recording a value in the history of one thread. *)
LEMMA LogType ==
  ASSUME NEW S, NEW T, NEW f \in [S -> Seq(T)], NEW e \in S, NEW v \in T
  PROVE  [f EXCEPT ![e] = Append(@, v)] \in [S -> Seq(T)]
<1>1. Append(f[e], v) \in Seq(T)
  BY AppendProperties
<1> QED
  BY <1>1

(* The types, with the loop bound they need (lines 66-86). *)
TypeInv == TypeOK /\ InLoop

LEMMA TypeInit == Init => TypeInv
<1> SUFFICES ASSUME Init PROVE TypeInv
  OBVIOUS
<1> USE PCAssumption DEF PCAssumption, Init, QInit
<1>1. q_ \in Seq(Item) /\ Len(q_) <= Cap
  OBVIOUS
<1>2. sent \in [Producers -> 0 .. Items] /\ InLoop
  BY DEF InLoop
<1>3. got \in [Consumers -> Seq(Item)]
  OBVIOUS
<1>4. /\ \A p \in Producers : pc[p] = "push"
      /\ \A c \in Consumers : pc[c] = "pop"
  OBVIOUS
<1> QED
  BY <1>1, <1>2, <1>3, <1>4 DEF TypeInv, TypeOK, Places

LEMMA TypeStep == TypeInv /\ [Next]_vars => TypeInv'
<1> SUFFICES ASSUME TypeInv, [Next]_vars PROVE TypeInv'
  OBVIOUS
<1> USE PCAssumption DEF PCAssumption, Places, TypeInv, TypeOK, InLoop, Goto, counters, threads, qvars
<1>1. ASSUME NEW p \in Producers, Push(p) PROVE TypeInv'
  <2>1. CASE PushWait(p) /\ UNCHANGED pc
    BY <1>1, <2>1 DEF Push, PushWait
  <2>2. CASE PushRefused(p) /\ Goto(p, "push", "count")
    BY <1>1, <2>2 DEF Push, PushRefused
  <2>3. CASE PushStore(p, <<p, sent[p]>>) /\ Goto(p, "push", "count")
    <3>1. q_' \in Seq(Item) /\ Len(q_') = Len(q_) + 1
      BY <2>3, AppendProperties DEF PushStore, Item
    <3>2. cv_empty_' \subseteq Consumers
      BY <2>3 DEF PushStore
    <3> QED
      BY <1>1, <2>3, <3>1, <3>2 DEF Push, PushStore
  <2> QED
    BY <1>1, <2>1, <2>2, <2>3 DEF Push
<1>2. ASSUME NEW p \in Producers, Count(p) PROVE TypeInv'
  BY <1>2 DEF Count
<1>3. ASSUME NEW p \in Producers, Finish(p) PROVE TypeInv'
  BY <1>3 DEF Finish
<1>4. ASSUME NEW p \in Producers, Close(p) PROVE TypeInv'
  BY <1>4 DEF Close, CloseSet, CloseNotifyEmpty, CloseNotifyFull
<1>5. ASSUME NEW c \in Consumers, Pop(c) PROVE TypeInv'
  <2>1. CASE PopWait(c) /\ UNCHANGED <<pc, got>>
    BY <1>5, <2>1 DEF Pop, PopWait
  <2>2. CASE PopEnd(c) /\ Goto(c, "pop", "exit") /\ UNCHANGED got
    BY <1>5, <2>2 DEF Pop, PopEnd
  <2>3. CASE /\ PopTake(c) /\ Goto(c, "pop", "consume")
             /\ got' = [got EXCEPT ![c] = Append(@, Head(q_))]
    <3>1. q_' \in Seq(Item) /\ Len(q_') <= Cap /\ Head(q_) \in Item
      <4>1. q_ # << >> /\ q_' = Tail(q_)
        BY <2>3 DEF PopTake
      <4>2. q_ \in Seq(Item) /\ Len(q_) <= Cap /\ Cap \in Nat
        OBVIOUS
      <4> QED
        BY <4>1, <4>2, TakeType
    <3>2. got' \in [Consumers -> Seq(Item)]
      BY <2>3, <3>1, LogType
    <3>3. cv_full_' \subseteq Producers
      BY <2>3 DEF PopTake
    <3> QED
      BY <1>5, <2>3, <3>1, <3>2, <3>3 DEF Pop, PopTake
  <2> QED
    BY <1>5, <2>1, <2>2, <2>3 DEF Pop
<1>6. ASSUME NEW c \in Consumers, Consume(c) PROVE TypeInv'
  BY <1>6 DEF Consume
<1>7. CASE Main
  BY <1>7 DEF Main
<1>8. CASE Spurious
  BY <1>8 DEF Spurious, SpuriousWake
<1>9. CASE UNCHANGED vars
  BY <1>9 DEF vars
<1> QED
  BY <1>1, <1>2, <1>3, <1>4, <1>5, <1>6, <1>7, <1>8, <1>9
     DEF Next, Producer, Consumer, Terminating

(* Every reachable state has the types of TypeOK: the queue never holds    *)
(* more than cap_ items (line 34) and no loop counter leaves its range.    *)
THEOREM TypeCorrect == Spec => []TypeOK
<1>1. TypeInv => TypeOK
  BY DEF TypeInv
<1> QED
  BY <1>1, TypeInit, TypeStep, PTL DEF Spec

-----------------------------------------------------------------------------
(* Who closes, and what the close means (lines 73-74 and 50-54). *)
ClosingInv == TypeInv /\ SleepersWait /\ DoneCounts /\ LastOneCloses /\ EndMeansEmpty

LEMMA SomeProducers ==
  ASSUME NEW S \in SUBSET Producers
  PROVE  /\ IsFiniteSet(S) /\ Cardinality(S) \in Nat
         /\ NP \in Nat /\ (Cardinality(S) = NP <=> S = Producers)
BY PCAssumption, FS_Subset, FS_CardinalityType DEF PCAssumption, NP

LEMMA ClosingInit == Init => ClosingInv
<1> SUFFICES ASSUME Init PROVE ClosingInv
  OBVIOUS
<1>1. TypeInv
  BY TypeInit
<1>2. \A t \in Producers \cup Consumers : pc[t] = IF t \in Producers THEN "push" ELSE "pop"
  BY DEF Init
<1>3. Finished = {} /\ Producers # {} /\ Producers \cap Consumers = {}
  BY <1>2, PCAssumption DEF PCAssumption, Finished
<1>4. DoneCounts
  BY <1>3, FS_EmptySet DEF DoneCounts, Init
<1>5. LastOneCloses
  BY <1>2, <1>3 DEF LastOneCloses, Init, QInit
<1>6. EndMeansEmpty
  BY <1>2, <1>3 DEF EndMeansEmpty
<1> QED
  BY <1>1, <1>4, <1>5, <1>6 DEF ClosingInv, SleepersWait, Init, QInit

LEMMA ClosingStep == ClosingInv /\ [Next]_vars => ClosingInv'
<1> SUFFICES ASSUME ClosingInv, [Next]_vars PROVE ClosingInv'
  OBVIOUS
<1> USE PCAssumption DEF PCAssumption, ClosingInv, SleepersWait, DoneCounts, LastOneCloses,
                         EndMeansEmpty, Goto, counters, threads, qvars
<1>0. TypeInv' /\ TypeInv
  BY TypeStep
<1>t. /\ pc \in [Producers \cup Consumers -> Places]
      /\ cv_full_ \subseteq Producers /\ cv_empty_ \subseteq Consumers
      /\ \A c \in Consumers : pc[c] \in {"pop", "consume", "exit"}
      /\ producers_done \in Nat
  BY <1>0 DEF TypeInv, TypeOK
<1> USE DEF Places
<1>1. ASSUME NEW p \in Producers, Push(p) PROVE ClosingInv'
  <2>1. pc[p] = "push" /\ ~ closed_
    BY <1>1 DEF Push, Finished
  <2>2. Finished' = Finished
    BY <1>1, <1>t DEF Push, Finished
  <2>3. CASE PushWait(p) /\ UNCHANGED pc
    BY <1>0, <1>1, <1>t, <2>1, <2>2, <2>3 DEF Push, PushWait
  <2>4. CASE PushStore(p, <<p, sent[p]>>) /\ Goto(p, "push", "count")
    <3>1. cv_empty_' \subseteq cv_empty_ /\ p \notin cv_full_
      BY <2>4 DEF PushStore
    <3>2. \A t \in Producers \cup Consumers : t # p => pc'[t] = pc[t]
      BY <1>t, <2>4
    <3> QED
      BY <1>0, <1>1, <1>t, <2>1, <2>2, <2>4, <3>1, <3>2 DEF Push, PushStore
  <2> QED
    BY <1>1, <2>1, <2>3, <2>4 DEF Push, PushRefused
<1>2. ASSUME NEW p \in Producers, Count(p) PROVE ClosingInv'
  <2>1. Finished' = Finished
    BY <1>2, <1>t DEF Count, Finished
  <2> QED
    BY <1>0, <1>2, <1>t, <2>1 DEF Count
<1>3. ASSUME NEW p \in Producers, Finish(p) PROVE ClosingInv'
  <2>1. Finished' = Finished \cup {p} /\ p \notin Finished
    BY <1>3, <1>t DEF Finish, Finished
  <2>2. Finished \in SUBSET Producers /\ Finished' \in SUBSET Producers
    BY DEF Finished
  <2>3. producers_done' = Cardinality(Finished') /\ producers_done' = producers_done + 1
    BY <1>3, <2>1, <2>2, SomeProducers, FS_AddElement DEF Finish
  <2>5. pc' = [pc EXCEPT ![p] = IF Finished' = Producers THEN "close" ELSE "exit"]
    BY <1>3, <2>2, <2>3, SomeProducers DEF Finish
  <2>4. ~ closed_ /\ Finished # Producers
    BY <2>1
  <2> QED
    BY <1>0, <1>3, <1>t, <2>1, <2>2, <2>3, <2>4, <2>5 DEF Finish
<1>4. ASSUME NEW p \in Producers, Close(p) PROVE ClosingInv'
  <2>1. Finished' = Finished /\ Finished = Producers
    BY <1>4, <1>t DEF Close, Finished
  <2> QED
    BY <1>0, <1>4, <1>t, <2>1 DEF Close, CloseSet, CloseNotifyEmpty, CloseNotifyFull
<1>5. ASSUME NEW c \in Consumers, Pop(c) PROVE ClosingInv'
  <2>1. Finished' = Finished
    BY <1>5, <1>t DEF Pop, Finished
  <2>2. CASE PopWait(c) /\ UNCHANGED <<pc, got>>
    BY <1>0, <1>5, <1>t, <2>1, <2>2 DEF Pop, PopWait
  <2>3. CASE PopEnd(c) /\ Goto(c, "pop", "exit") /\ UNCHANGED got
    BY <1>0, <1>5, <1>t, <2>1, <2>3 DEF Pop, PopEnd
  <2>4. CASE PopTake(c) /\ Goto(c, "pop", "consume")
    <3>1. cv_full_' \subseteq cv_full_ /\ c \notin cv_empty_
      BY <2>4 DEF PopTake
    <3> QED
      BY <1>0, <1>5, <1>t, <2>1, <2>4, <3>1 DEF Pop, PopTake
  <2> QED
    BY <1>5, <2>2, <2>3, <2>4 DEF Pop
<1>6. ASSUME NEW c \in Consumers, Consume(c) PROVE ClosingInv'
  <2>1. Finished' = Finished
    BY <1>6, <1>t DEF Consume, Finished
  <2> QED
    BY <1>0, <1>6, <1>t, <2>1 DEF Consume
<1>7. CASE Main
  BY <1>0, <1>7 DEF Main, Finished
<1>8. CASE Spurious
  BY <1>0, <1>8 DEF Spurious, SpuriousWake, Finished
<1>9. CASE UNCHANGED vars
  BY <1>0, <1>9 DEF vars, Finished
<1> QED
  BY <1>1, <1>2, <1>3, <1>4, <1>5, <1>6, <1>7, <1>8, <1>9
     DEF Next, Producer, Consumer, Terminating

(* No push is refused (line 35), whatever the number of threads. *)
THEOREM NothingIsRefused == Spec => []NoPushAfterClose
<1>1. ClosingInv => NoPushAfterClose
  BY DEF ClosingInv, LastOneCloses, NoPushAfterClose, Finished
<1> QED
  BY <1>1, ClosingInit, ClosingStep, PTL DEF Spec

(* Once a consumer was told that there is no more (line 44), the queue     *)
(* never changes again.                                                    *)
THEOREM TheEndIsFinal == Spec => EndIsFinal
<1>1. ClosingInv /\ [Next]_vars => [(\E c \in Consumers : pc[c] = "exit") => q_' = q_]_vars
  <2> SUFFICES ASSUME ClosingInv, Next, NEW c \in Consumers, pc[c] = "exit"
               PROVE  q_' = q_
    BY DEF vars, qvars
  <2>1. closed_ /\ q_ = << >>
    BY DEF ClosingInv, EndMeansEmpty
  <2> QED
    BY <2>1 DEF Next, Producer, Consumer, Push, PushWait, PushRefused, PushStore, Count, Finish,
       Close, CloseSet, CloseNotifyEmpty, CloseNotifyFull, Pop, PopWait, PopEnd, PopTake, Consume,
       Main, Spurious, SpuriousWake, Terminating, vars, qvars
<1> QED
  BY <1>1, ClosingInit, ClosingStep, PTL DEF Spec, EndIsFinal

-----------------------------------------------------------------------------
(* No wake-up is lost. *)
LEMMA AwakeFinite ==
  /\ IsFiniteSet(AwakePoppers) /\ IsFiniteSet(AwakePushers)
  /\ Cardinality(AwakePoppers) \in Nat /\ Cardinality(AwakePushers) \in Nat
<1>1. AwakePoppers \in SUBSET Consumers /\ AwakePushers \in SUBSET Producers
  BY DEF AwakePoppers, AwakePushers
<1> QED
  BY <1>1, PCAssumption, FS_Subset, FS_CardinalityType DEF PCAssumption

LEMMA AwakeInit == Init => EnoughAwake
BY DEF Init, QInit, EnoughAwake

LEMMA AwakeStep == ClosingInv /\ EnoughAwake /\ [Next]_vars => EnoughAwake'
<1> SUFFICES ASSUME ClosingInv, EnoughAwake, [Next]_vars PROVE EnoughAwake'
  OBVIOUS
<1> DEFINE nC == Cardinality(AwakePoppers)
           nP == Cardinality(AwakePushers)
<1>t. /\ pc \in [Producers \cup Consumers -> Places]
      /\ cv_full_ \subseteq Producers /\ cv_empty_ \subseteq Consumers
      /\ Producers \cap Consumers = {}
      /\ \A c \in cv_empty_ : pc[c] = "pop"
      /\ \A p \in cv_full_ : pc[p] = "push"
      /\ q_ \in Seq(Item) /\ Len(q_) \in Nat /\ Cap \in Nat
      /\ nC \in Nat /\ nP \in Nat
  BY PCAssumption, AwakeFinite, LenProperties
     DEF PCAssumption, ClosingInv, TypeInv, TypeOK, SleepersWait
<1>a. /\ cv_empty_ # {} => Len(q_) <= nC
      /\ cv_full_ # {} => Cap <= Len(q_) + nP
  BY DEF EnoughAwake
(* What is left to show, once the new sets of awake threads are known. *)
<1>q. ASSUME cv_empty_' # {} => Len(q_') <= Cardinality(AwakePoppers'),
             cv_full_' # {} => Cap <= Len(q_') + Cardinality(AwakePushers')
      PROVE  EnoughAwake'
  BY <1>q DEF EnoughAwake
<1> HIDE DEF nC, nP
<1>c. /\ nC = Cardinality(AwakePoppers)
      /\ nP = Cardinality(AwakePushers)
      /\ \A c : /\ Cardinality(AwakePoppers \ {c}) = IF c \in AwakePoppers THEN nC - 1 ELSE nC
                /\ Cardinality(AwakePoppers \cup {c}) = IF c \in AwakePoppers THEN nC ELSE nC + 1
      /\ \A p : /\ Cardinality(AwakePushers \ {p}) = IF p \in AwakePushers THEN nP - 1 ELSE nP
                /\ Cardinality(AwakePushers \cup {p}) = IF p \in AwakePushers THEN nP ELSE nP + 1
  BY AwakeFinite, FS_AddElement, FS_RemoveElement DEF nC, nP
<1>1. ASSUME NEW p \in Producers, Push(p) PROVE EnoughAwake'
  <2>1. pc[p] = "push" /\ ~ closed_
    BY <1>1 DEF Push, ClosingInv, LastOneCloses, Finished
  <2>2. CASE PushWait(p) /\ UNCHANGED pc
    <3>1. AwakePoppers' = AwakePoppers
      BY <2>2 DEF PushWait, AwakePoppers
    <3>2. Len(q_') >= Cap /\ q_' = q_ /\ cv_empty_' = cv_empty_
      BY <2>2 DEF PushWait
    <3>3. Cardinality(AwakePushers') \in Nat
      <4>1. AwakePushers' = AwakePushers \ {p}
        BY <2>2, <1>t DEF PushWait, AwakePushers
      <4> QED
        BY <4>1, AwakeFinite, FS_RemoveElement, FS_CardinalityType
    <3> QED
      BY <1>q, <1>a, <1>c, <1>t, <3>1, <3>2, <3>3
  <2>3. CASE PushStore(p, <<p, sent[p]>>) /\ Goto(p, "push", "count")
    <3>1. Len(q_') = Len(q_) + 1 /\ cv_full_' = cv_full_ /\ p \notin cv_full_
      <4>1. <<p, sent[p]>> \in Item
        BY DEF Item, ClosingInv, TypeInv, TypeOK
      <4> QED
        BY <2>3, <4>1, <1>t, AppendProperties DEF PushStore
    <3>2. AwakePushers' = AwakePushers \ {p} /\ p \in AwakePushers
      BY <2>1, <2>3, <3>1, <1>t DEF AwakePushers, Goto
    <3>3. \/ cv_empty_' = {}
          \/ \E c \in cv_empty_ : cv_empty_' = cv_empty_ \ {c}
      BY <2>3 DEF PushStore
    <3>4. CASE cv_empty_' = {}
      BY <1>q, <1>a, <1>c, <1>t, <3>1, <3>2, <3>4
    <3>5. ASSUME NEW c \in cv_empty_, cv_empty_' = cv_empty_ \ {c} PROVE EnoughAwake'
      <4>1. AwakePoppers' = AwakePoppers \cup {c} /\ c \notin AwakePoppers
        BY <2>3, <3>5, <1>t DEF AwakePoppers, Goto
      <4> QED
        BY <1>q, <1>a, <1>c, <1>t, <3>1, <3>2, <3>5, <4>1
    <3> QED
      BY <3>3, <3>4, <3>5
  <2> QED
    BY <1>1, <2>1, <2>2, <2>3 DEF Push, PushRefused
<1>2. ASSUME NEW p \in Producers, Count(p) PROVE EnoughAwake'
  <2>1. q_' = q_ /\ cv_empty_' = cv_empty_ /\ cv_full_' = cv_full_ /\ pc[p] = "count"
    BY <1>2 DEF Count, Goto, qvars
  <2>2. AwakePoppers' = AwakePoppers
    BY <1>2, <2>1, <1>t DEF Count, Goto, AwakePoppers
  <2>3. AwakePushers' \in {AwakePushers, AwakePushers \cup {p}} /\ p \notin AwakePushers
    BY <1>2, <2>1, <1>t DEF Count, Goto, AwakePushers
  <2>4. Cardinality(AwakePushers') \in {nP, nP + 1}
    BY <1>c, <2>3
  <2> QED
    BY <1>q, <1>a, <1>c, <1>t, <2>1, <2>2, <2>4
<1>3. ASSUME NEW p \in Producers, Finish(p) PROVE EnoughAwake'
  <2>1. q_' = q_ /\ cv_empty_' = cv_empty_ /\ cv_full_' = cv_full_ /\ pc[p] = "finish"
    BY <1>3 DEF Finish, Goto, qvars
  <2>2. AwakePoppers' = AwakePoppers /\ AwakePushers' = AwakePushers
    BY <1>3, <2>1, <1>t DEF Finish, Goto, AwakePoppers, AwakePushers
  <2> QED
    BY <1>q, <1>a, <1>c, <2>1, <2>2
<1>4. ASSUME NEW p \in Producers, Close(p) PROVE EnoughAwake'
  <2>1. q_' = q_ /\ cv_empty_' \in {{}, cv_empty_} /\ cv_full_' \in {{}, cv_full_}
    BY <1>4 DEF Close, CloseSet, CloseNotifyEmpty, CloseNotifyFull
  <2>2. /\ cv_empty_' = cv_empty_ => AwakePoppers' = AwakePoppers
        /\ cv_full_' = cv_full_ => AwakePushers' = AwakePushers
    BY <1>4, <1>t DEF Close, Goto, AwakePoppers, AwakePushers
  <2> QED
    BY <1>q, <1>a, <1>c, <2>1, <2>2
<1>5. ASSUME NEW c \in Consumers, Pop(c) PROVE EnoughAwake'
  <2>1. CASE PopWait(c) /\ UNCHANGED <<pc, got>>
    <3>1. q_' = << >> /\ q_' = q_ /\ cv_full_' = cv_full_
      BY <2>1 DEF PopWait
    <3>2. AwakePoppers' = AwakePoppers \ {c} /\ AwakePushers' = AwakePushers
      BY <2>1, <1>t DEF PopWait, AwakePoppers, AwakePushers
    <3>3. Len(q_') = 0 /\ Cardinality(AwakePoppers') \in Nat
      BY <3>1, <3>2, AwakeFinite, FS_RemoveElement, FS_CardinalityType
    <3> QED
      BY <1>q, <1>a, <1>c, <3>1, <3>2, <3>3
  <2>2. CASE PopEnd(c) /\ Goto(c, "pop", "exit") /\ UNCHANGED got
    <3>1. q_' = << >> /\ q_' = q_ /\ cv_full_' = cv_full_
      BY <2>2 DEF PopEnd, qvars
    <3>2. AwakePoppers' = AwakePoppers \ {c} /\ AwakePushers' = AwakePushers
      BY <2>2, <1>t DEF PopEnd, Goto, qvars, AwakePoppers, AwakePushers
    <3>3. Len(q_') = 0 /\ Cardinality(AwakePoppers') \in Nat
      BY <3>1, <3>2, AwakeFinite, FS_RemoveElement, FS_CardinalityType
    <3> QED
      BY <1>q, <1>a, <1>c, <3>1, <3>2, <3>3
  <2>3. CASE PopTake(c) /\ Goto(c, "pop", "consume")
    <3>1. Len(q_') = Len(q_) - 1 /\ cv_empty_' = cv_empty_ /\ c \notin cv_empty_
      BY <2>3, <1>t, TakeType DEF PopTake
    <3>2. AwakePoppers' = AwakePoppers \ {c} /\ c \in AwakePoppers
      BY <2>3, <3>1, <1>t DEF AwakePoppers, Goto
    <3>3. \/ cv_full_' = {}
          \/ \E p \in cv_full_ : cv_full_' = cv_full_ \ {p}
      BY <2>3 DEF PopTake
    <3>4. CASE cv_full_' = {}
      BY <1>q, <1>a, <1>c, <1>t, <3>1, <3>2, <3>4
    <3>5. ASSUME NEW p \in cv_full_, cv_full_' = cv_full_ \ {p} PROVE EnoughAwake'
      <4>1. AwakePushers' = AwakePushers \cup {p} /\ p \notin AwakePushers
        BY <2>3, <3>5, <1>t DEF AwakePushers, Goto
      <4> QED
        BY <1>q, <1>a, <1>c, <1>t, <3>1, <3>2, <3>5, <4>1
    <3> QED
      BY <3>3, <3>4, <3>5
  <2> QED
    BY <1>5, <2>1, <2>2, <2>3 DEF Pop
<1>6. ASSUME NEW c \in Consumers, Consume(c) PROVE EnoughAwake'
  <2>1. q_' = q_ /\ cv_empty_' = cv_empty_ /\ cv_full_' = cv_full_ /\ pc[c] = "consume"
    BY <1>6 DEF Consume, Goto, qvars
  <2>2. AwakePoppers' = AwakePoppers \cup {c} /\ AwakePushers' = AwakePushers /\ c \notin AwakePoppers
    BY <1>6, <2>1, <1>t DEF Consume, Goto, AwakePoppers, AwakePushers
  <2>3. Cardinality(AwakePoppers') = nC + 1
    BY <1>c, <2>2
  <2> QED
    BY <1>q, <1>a, <1>c, <1>t, <2>1, <2>2, <2>3
<1>7. CASE Spurious
  <2>1. ASSUME NEW p \in cv_full_, cv_full_' = cv_full_ \ {p}, UNCHANGED <<q_, cv_empty_, pc>>
        PROVE  EnoughAwake'
    <3>1. AwakePushers' = AwakePushers \cup {p} /\ AwakePoppers' = AwakePoppers /\ p \notin AwakePushers
      BY <2>1, <1>t DEF AwakePushers, AwakePoppers
    <3>2. Cardinality(AwakePushers') = nP + 1
      BY <1>c, <3>1
    <3> QED
      BY <1>q, <1>a, <1>c, <1>t, <2>1, <3>1, <3>2
  <2>2. ASSUME NEW c \in cv_empty_, cv_empty_' = cv_empty_ \ {c}, UNCHANGED <<q_, cv_full_, pc>>
        PROVE  EnoughAwake'
    <3>1. AwakePoppers' = AwakePoppers \cup {c} /\ AwakePushers' = AwakePushers /\ c \notin AwakePoppers
      BY <2>2, <1>t DEF AwakePushers, AwakePoppers
    <3>2. Cardinality(AwakePoppers') = nC + 1
      BY <1>c, <3>1
    <3> QED
      BY <1>q, <1>a, <1>c, <1>t, <2>2, <3>1, <3>2
  <2> QED
    BY <1>7, <2>1, <2>2 DEF Spurious, SpuriousWake, threads
<1>8. CASE UNCHANGED <<qvars, pc>>
  <2>1. q_' = q_ /\ cv_empty_' = cv_empty_ /\ cv_full_' = cv_full_
    BY <1>8 DEF qvars
  <2>2. AwakePoppers' = AwakePoppers /\ AwakePushers' = AwakePushers
    BY <1>8, <2>1 DEF AwakePoppers, AwakePushers
  <2> QED
    BY <1>q, <1>a, <1>c, <2>1, <2>2
<1> QED
  BY <1>1, <1>2, <1>3, <1>4, <1>5, <1>6, <1>7, <1>8
     DEF Next, Producer, Consumer, Main, Terminating, vars, threads

(* The inductive invariant holds (it is checked by TLC as well). *)
THEOREM Inductive == Spec => []IInv
<1>1. Init => ClosingInv /\ EnoughAwake
  BY ClosingInit, AwakeInit
<1>2. ClosingInv /\ EnoughAwake /\ [Next]_vars => (ClosingInv /\ EnoughAwake)'
  BY ClosingStep, AwakeStep
<1>3. ClosingInv /\ EnoughAwake => IInv
  BY DEF ClosingInv, TypeInv, IInv
<1> QED
  BY <1>1, <1>2, <1>3, PTL DEF Spec

(* The threads never all sleep: with one notify_one per push and per pop   *)
(* and the two notify_all of close(), a state where every thread has       *)
(* returned or sleeps is one where every thread has returned.              *)
THEOREM NoLostWakeup == Spec => []NeverStuck
<1>1. IInv => NeverStuck
  <2> SUFFICES ASSUME IInv,
                      \A t \in Producers \cup Consumers : pc[t] = "exit" \/ Asleep(t)
               PROVE  \A t \in Producers \cup Consumers : pc[t] = "exit"
    BY DEF NeverStuck
  <2> USE DEF IInv, TypeOK, SleepersWait, Asleep
  <2>0. /\ Producers # {} /\ Consumers # {} /\ Producers \cap Consumers = {}
        /\ Cap \in Nat \ {0} /\ Len(q_) \in Nat
    BY PCAssumption, LenProperties DEF PCAssumption
  <2>1. AwakePoppers = {} /\ AwakePushers = {}
    BY <2>0 DEF AwakePoppers, AwakePushers
  <2>2. CASE closed_
    <3>1. Finished = Producers
      BY <2>2 DEF LastOneCloses
    <3>2. \A p \in Producers : pc[p] = "exit"
      BY <2>0, <3>1 DEF Finished
    <3>3. cv_empty_ = {}
      BY <2>2, <3>2 DEF LastOneCloses
    <3> QED
      BY <2>0, <3>2, <3>3
  <2>3. CASE ~ closed_
    <3>1. \E p \in Producers : pc[p] # "exit"
      <4>1. CASE Finished = Producers
        BY <2>3, <4>1 DEF LastOneCloses
      <4>2. CASE Finished # Producers
        BY <4>2 DEF Finished
      <4> QED
        BY <4>1, <4>2
    <3>2. cv_full_ # {}
      BY <2>0, <3>1
    <3>3. Len(q_) >= 1
      BY <2>0, <2>1, <3>2, FS_EmptySet DEF EnoughAwake
    <3>4. cv_empty_ # {}
      BY <2>0, <2>3 DEF EndMeansEmpty
    <3> QED
      BY <2>0, <2>1, <3>3, <3>4, FS_EmptySet DEF EnoughAwake
  <2> QED
    BY <2>2, <2>3
<1> QED
  BY <1>1, Inductive, PTL

-----------------------------------------------------------------------------
(* Where the items are.  Those a producer has pushed (it counts one after  *)
(* pushing it, lines 68-70) are in the queue, in its order, or received by *)
(* a consumer, the received ones before the queued ones.                   *)
Pushed(p) == sent[p] + IF pc[p] = "count" THEN 1 ELSE 0
Received(p, i) == \E c \in Consumers : \E k \in DOMAIN got[c] : got[c][k] = <<p, i>>

LoopInv == \A p \in Producers : pc[p] \notin {"push", "count"} => sent[p] = Items
QueueInv ==
  /\ \A k \in 1 .. Len(q_) : q_[k][2] < Pushed(q_[k][1])
  /\ \A k, j \in 1 .. Len(q_) : k < j /\ q_[k][1] = q_[j][1] => q_[k][2] < q_[j][2]
ReceivedInv ==
  \A p \in Producers : \A i \in 0 .. Items - 1 :
    /\ Received(p, i) => /\ i < Pushed(p)
                         /\ \A k \in 1 .. Len(q_) : q_[k][1] = p => i < q_[k][2]
    /\ i < Pushed(p) => Received(p, i) \/ \E k \in 1 .. Len(q_) : q_[k] = <<p, i>>
FlowInv == ClosingInv /\ LoopInv /\ QueueInv /\ ReceivedInv

(* The two counters, one behind a push or a pop each, and the joins.       *)
AllItems == Producers \X (0 .. Items - 1)
Made == {x \in AllItems : x[2] < sent[x[1]]}
Taken == {x \in AllItems : Received(x[1], x[2])}
Consuming == {c \in Consumers : pc[c] = "consume"}
CountInv == /\ produced = Cardinality(Made)
            /\ consumed + Cardinality(Consuming) = Cardinality(Taken)
JoinInv == /\ main_ # "join_producers" => \A p \in Producers : pc[p] = "exit"
           /\ main_ = "done" => \A c \in Consumers : pc[c] = "exit"


(* The steps that move an item or count one. *)
Stores(p) ==
  /\ pc[p] = "push" /\ pc' = [pc EXCEPT ![p] = "count"]
  /\ q_' = Append(q_, <<p, sent[p]>>)
  /\ UNCHANGED <<sent, got, produced, consumed>>
Takes(c) ==
  /\ pc[c] = "pop" /\ pc' = [pc EXCEPT ![c] = "consume"]
  /\ q_ # << >> /\ q_' = Tail(q_)
  /\ got' = [got EXCEPT ![c] = Append(@, Head(q_))]
  /\ UNCHANGED <<sent, produced, consumed>>
KeepsItems ==
  /\ UNCHANGED <<q_, sent, got, produced, consumed>>
  /\ \A p \in Producers : /\ pc'[p] \in {"push", "count"} <=> pc[p] \in {"push", "count"}
                          /\ pc'[p] = "count" <=> pc[p] = "count"
  /\ \A c \in Consumers : pc'[c] = "consume" <=> pc[c] = "consume"

LEMMA ItemSteps ==
  ClosingInv /\ [Next]_vars => \/ \E p \in Producers : Stores(p) \/ Count(p)
                               \/ \E c \in Consumers : Takes(c) \/ Consume(c)
                               \/ KeepsItems
<1> SUFFICES ASSUME ClosingInv, [Next]_vars
             PROVE  \/ \E p \in Producers : Stores(p) \/ Count(p)
                    \/ \E c \in Consumers : Takes(c) \/ Consume(c)
                    \/ KeepsItems
  OBVIOUS
<1>t. pc \in [Producers \cup Consumers -> Places] /\ Producers \cap Consumers = {}
  BY PCAssumption DEF PCAssumption, ClosingInv, TypeInv, TypeOK
<1>1. ASSUME NEW p \in Producers, Push(p) PROVE Stores(p) \/ KeepsItems
  <2>1. ~ closed_
    BY <1>1 DEF Push, ClosingInv, LastOneCloses, Finished
  <2>2. CASE PushWait(p) /\ UNCHANGED pc
    BY <1>1, <2>2 DEF Push, PushWait, KeepsItems, counters
  <2>3. CASE PushStore(p, <<p, sent[p]>>) /\ Goto(p, "push", "count")
    BY <1>1, <2>3 DEF Push, PushStore, Goto, Stores, counters
  <2> QED
    BY <1>1, <2>1, <2>2, <2>3 DEF Push, PushRefused
<1>2. ASSUME NEW p \in Producers, Finish(p) PROVE KeepsItems
  BY <1>t, <1>2 DEF Finish, Goto, qvars, KeepsItems
<1>3. ASSUME NEW p \in Producers, Close(p) PROVE KeepsItems
  BY <1>t, <1>3 DEF Close, CloseSet, CloseNotifyEmpty, CloseNotifyFull, Goto, counters, KeepsItems
<1>4. ASSUME NEW c \in Consumers, Pop(c) PROVE Takes(c) \/ KeepsItems
  <2>1. CASE PopWait(c) /\ UNCHANGED <<pc, got>>
    BY <1>4, <2>1 DEF Pop, PopWait, counters, KeepsItems
  <2>2. CASE PopEnd(c) /\ Goto(c, "pop", "exit") /\ UNCHANGED got
    BY <1>t, <1>4, <2>2 DEF Pop, PopEnd, Goto, qvars, counters, KeepsItems
  <2>3. CASE PopTake(c) /\ Goto(c, "pop", "consume") /\ got' = [got EXCEPT ![c] = Append(@, Head(q_))]
    BY <1>4, <2>3 DEF Pop, PopTake, Goto, counters, Takes
  <2> QED
    BY <1>4, <2>1, <2>2, <2>3 DEF Pop
<1>5. CASE Main \/ Spurious \/ UNCHANGED vars
  BY <1>5 DEF Main, Spurious, SpuriousWake, vars, threads, qvars, counters, KeepsItems
<1> QED
  BY <1>1, <1>2, <1>3, <1>4, <1>5 DEF Next, Producer, Consumer, Terminating

LEMMA QueueTypes ==
  ASSUME TypeInv
  PROVE  /\ q_ \in Seq(Item) /\ Len(q_) \in Nat
         /\ \A k \in 1 .. Len(q_) : /\ q_[k] = <<q_[k][1], q_[k][2]>>
                                    /\ q_[k][1] \in Producers /\ q_[k][2] \in Nat
         /\ \A p \in Producers : Pushed(p) \in 0 .. Items /\ sent[p] \in 0 .. Items
<1>1. q_ \in Seq(Item) /\ Len(q_) \in Nat
  BY LenProperties DEF TypeInv, TypeOK
<1>2. \A k \in 1 .. Len(q_) : q_[k] \in Producers \X Nat
  BY <1>1, ElementOfSeq DEF Item
<1>3. \A p \in Producers : sent[p] \in 0 .. Items /\ (pc[p] = "count" => sent[p] < Items)
  BY DEF TypeInv, TypeOK, InLoop
<1>4. \A p \in Producers : Pushed(p) \in 0 .. Items
  BY <1>3, PCAssumption DEF PCAssumption, Pushed
<1> QED
  BY <1>1, <1>2, <1>3, <1>4

(* Storing an item at the back. *)
LEMMA FlowAfterStore ==
  ASSUME FlowInv, NEW p \in Producers, Stores(p)
  PROVE  QueueInv' /\ ReceivedInv' /\ LoopInv'
<1>0. TypeInv /\ LoopInv /\ QueueInv /\ ReceivedInv
  BY DEF FlowInv, ClosingInv
<1> DEFINE n == Len(q_)
           x == <<p, sent[p]>>
           After(r) == sent'[r] + IF pc'[r] = "count" THEN 1 ELSE 0
<1>1. /\ n \in Nat /\ sent[p] \in Nat
      /\ \A k \in 1 .. n : /\ q_[k] = <<q_[k][1], q_[k][2]>>
                           /\ q_[k][1] \in Producers /\ q_[k][2] \in Nat
  BY <1>0, QueueTypes
<1>2. Len(q_') = n + 1 /\ q_'[n + 1] = x /\ \A k \in 1 .. n : q_'[k] = q_[k]
  <2>1. q_ \in Seq(Item) /\ x \in Item
    BY <1>0, <1>1 DEF TypeInv, TypeOK, Item
  <2> QED
    BY <2>1, AppendProperties DEF Stores
<1>k. \A k \in 1 .. n + 1 : k \in 1 .. n \/ k = n + 1
  BY <1>1
<1>3. /\ \A r \in Producers : After(r) = IF r = p THEN Pushed(p) + 1 ELSE Pushed(r)
      /\ Pushed(p) = sent[p] /\ sent' = sent
      /\ \A r \in Producers : Pushed(r) \in Nat
      /\ \A r \in Producers : pc'[r] \notin {"push", "count"} => pc[r] \notin {"push", "count"}
  <2>1. sent' = sent /\ \A r \in Producers : pc'[r] = IF r = p THEN "count" ELSE pc[r]
    BY <1>0 DEF Stores, TypeInv, TypeOK
  <2>2. pc[p] = "push"
    BY DEF Stores
  <2>3. \A r \in Producers : sent[r] \in Nat
    BY <1>0, QueueTypes
  <2> QED
    BY <2>1, <2>2, <2>3 DEF Pushed
<1>a. \A r \in Producers : Pushed(r)' = After(r)
  BY DEF Pushed
<1>q. (\A k \in 1 .. Len(q_') : q_'[k][2] < After(q_'[k][1])) =>
        \A k \in 1 .. Len(q_') : (q_[k][2] < Pushed(q_[k][1]))'
  BY DEF Pushed
<1> HIDE DEF After
<1>4. \A r \in Producers : \A i \in 0 .. Items - 1 : Received(r, i)' <=> Received(r, i)
  BY DEF Stores, Received
<1>5. LoopInv'
  BY <1>0, <1>3 DEF LoopInv
<1> HIDE DEF n
<1>6. QueueInv'
  <2>1. ASSUME NEW k \in 1 .. n + 1 PROVE q_'[k][2] < After(q_'[k][1])
    <3>1. CASE k \in 1 .. n
      <4>1. q_[k][2] < Pushed(q_[k][1]) /\ q_[k][1] \in Producers /\ q_[k][2] \in Nat /\ q_'[k] = q_[k]
        BY <1>0, <1>1, <1>2, <3>1 DEF QueueInv, n
      <4>2. \A r \in Producers : Pushed(r) <= After(r) /\ Pushed(r) \in Nat /\ After(r) \in Nat
        BY <1>3
      <4> QED
        BY <4>1, <4>2
    <3>2. CASE k = n + 1
      BY <1>1, <1>2, <1>3, <3>2
    <3> QED
      BY <1>k, <3>1, <3>2
  <2>2. ASSUME NEW k \in 1 .. n + 1, NEW j \in 1 .. n + 1, k < j, q_'[k][1] = q_'[j][1]
        PROVE  q_'[k][2] < q_'[j][2]
    <3>0. k \in 1 .. n
      BY <1>1, <2>2
    <3>1. CASE j \in 1 .. n
      BY <1>0, <1>2, <2>2, <3>0, <3>1 DEF QueueInv, n
    <3>2. CASE j = n + 1
      BY <1>0, <1>2, <1>3, <2>2, <3>0, <3>2 DEF QueueInv, n
    <3> QED
      BY <1>k, <3>1, <3>2
  <2> QED
    BY <1>2, <1>q, <2>1, <2>2 DEF QueueInv
<1>7. ReceivedInv'
  <2> SUFFICES ASSUME NEW r \in Producers, NEW i \in 0 .. Items - 1
               PROVE  /\ Received(r, i)' => /\ i < Pushed(r)'
                                            /\ \A k \in 1 .. n + 1 : q_'[k][1] = r => i < q_'[k][2]
                      /\ i < Pushed(r)' => Received(r, i)' \/ \E k \in 1 .. n + 1 : q_'[k] = <<r, i>>
    BY <1>2 DEF ReceivedInv
  <2>0. /\ Received(r, i) => /\ i < Pushed(r)
                             /\ \A k \in 1 .. n : q_[k][1] = r => i < q_[k][2]
        /\ i < Pushed(r) => Received(r, i) \/ \E k \in 1 .. n : q_[k] = <<r, i>>
    BY <1>0 DEF ReceivedInv, n
  <2>1. ASSUME Received(r, i)' PROVE i < Pushed(r)'
    BY <1>3, <1>4, <1>a, <2>0, <2>1
  <2>2. ASSUME Received(r, i)', NEW k \in 1 .. n + 1, q_'[k][1] = r PROVE i < q_'[k][2]
    <3>1. CASE k \in 1 .. n
      BY <1>2, <1>4, <2>0, <2>2, <3>1
    <3>2. CASE k = n + 1
      BY <1>2, <1>3, <1>4, <2>0, <2>2, <3>2
    <3> QED
      BY <1>k, <3>1, <3>2
  <2>3. ASSUME i < Pushed(r)' PROVE Received(r, i)' \/ \E k \in 1 .. n + 1 : q_'[k] = <<r, i>>
    <3>1. CASE i < Pushed(r)
      <4>1. n \in Nat /\ \A k \in 1 .. n : k \in 1 .. n + 1
        BY <1>1 DEF n
      <4> QED
        BY <1>2, <1>4, <2>0, <3>1, <4>1
    <3>2. CASE ~ (i < Pushed(r))
      <4>1. r = p /\ i = sent[p]
        BY <1>1, <1>3, <1>a, <2>3, <3>2
      <4>2. n + 1 \in 1 .. n + 1
        BY <1>1 DEF n
      <4> QED
        BY <1>2, <4>1, <4>2
    <3> QED
      BY <3>1, <3>2
  <2> QED
    BY <2>1, <2>2, <2>3
<1> QED
  BY <1>5, <1>6, <1>7


(* Taking the item at the front. *)
LEMMA TakenItem ==
  ASSUME FlowInv, NEW c \in Consumers, Takes(c)
  PROVE  /\ Len(q_) \in Nat \ {0} /\ Len(q_') = Len(q_) - 1
         /\ \A k \in 1 .. Len(q_) - 1 : q_'[k] = q_[k + 1]
         /\ q_[1] \in AllItems /\ ~ Received(q_[1][1], q_[1][2])
         /\ \A r \in Producers : \A i \in 0 .. Items - 1 :
              Received(r, i)' <=> Received(r, i) \/ q_[1] = <<r, i>>
<1>0. TypeInv /\ QueueInv /\ ReceivedInv
  BY DEF FlowInv, ClosingInv
<1>1. q_ \in Seq(Item) /\ q_ # << >> /\ Len(q_) \in Nat \ {0}
  <2>1. q_ \in Seq(Item) /\ q_ # << >>
    BY <1>0 DEF TypeInv, TypeOK, Takes
  <2> QED
    BY <2>1, EmptySeq
<1>2. /\ Len(q_') = Len(q_) - 1 /\ Head(q_) = q_[1]
      /\ \A k \in 1 .. Len(q_) - 1 : q_'[k] = q_[k + 1]
  BY <1>1, HeadTailProperties DEF Takes
<1>3. /\ 1 \in 1 .. Len(q_) /\ q_[1][1] \in Producers /\ q_[1][2] \in Nat /\ q_[1] = <<q_[1][1], q_[1][2]>>
      /\ Pushed(q_[1][1]) \in 0 .. Items
  <2>1. 1 \in 1 .. Len(q_)
    BY <1>1
  <2> QED
    BY <1>0, <2>1, QueueTypes
<1>4. q_[1][2] \in 0 .. Items - 1
  <2>1. q_[1][2] < Pushed(q_[1][1])
    BY <1>0, <1>3 DEF QueueInv
  <2> QED
    BY <1>3, <2>1, PCAssumption DEF PCAssumption
<1>5. q_[1] \in AllItems
  BY <1>3, <1>4 DEF AllItems
<1>6. ~ Received(q_[1][1], q_[1][2])
  <2> SUFFICES ASSUME Received(q_[1][1], q_[1][2]) PROVE FALSE
    OBVIOUS
  <2>1. q_[1][2] < q_[1][2]
    BY <1>0, <1>3, <1>4 DEF ReceivedInv
  <2> QED
    BY <1>3, <2>1
<1>7. ASSUME NEW r \in Producers, NEW i \in 0 .. Items - 1
      PROVE  Received(r, i)' <=> Received(r, i) \/ q_[1] = <<r, i>>
  <2> DEFINE m == Len(got[c])
             x == q_[1]
  <2>1. got \in [Consumers -> Seq(Item)] /\ x \in Item /\ m \in Nat
    BY <1>0, <1>1, <1>3, LenProperties, ElementOfSeq DEF TypeInv, TypeOK
  <2>2. /\ DOMAIN Append(got[c], x) = 1 .. m + 1 /\ DOMAIN got[c] = 1 .. m
        /\ Append(got[c], x)[m + 1] = x /\ \A k \in 1 .. m : Append(got[c], x)[k] = got[c][k]
    <3>1. got[c] \in Seq(Item)
      BY <2>1
    <3>2. /\ Append(got[c], x) \in Seq(Item) /\ Len(Append(got[c], x)) = m + 1
          /\ Append(got[c], x)[m + 1] = x /\ \A k \in 1 .. m : Append(got[c], x)[k] = got[c][k]
      BY <2>1, <3>1, AppendProperties
    <3> QED
      BY <3>1, <3>2, LenProperties
  <2>3. \A d \in Consumers : got'[d] = IF d = c THEN Append(got[c], x) ELSE got[d]
    BY <1>2, <2>1 DEF Takes
  <2>4. \A k \in 1 .. m + 1 : k \in 1 .. m \/ k = m + 1
    BY <2>1
  <2>5. m + 1 \in 1 .. m + 1 /\ \A k \in 1 .. m : k \in 1 .. m + 1
    BY <2>1
  <2> HIDE DEF m, x
  <2>6. ASSUME Received(r, i)' PROVE Received(r, i) \/ x = <<r, i>>
    <3>1. PICK d \in Consumers : \E k \in DOMAIN got'[d] : got'[d][k] = <<r, i>>
      BY <2>6 DEF Received
    <3>2. PICK k \in DOMAIN got'[d] : got'[d][k] = <<r, i>>
      BY <3>1
    <3>3. CASE d # c
      BY <2>3, <3>2, <3>3 DEF Received
    <3>4. CASE d = c
      BY <2>2, <2>3, <2>4, <3>2, <3>4 DEF Received
    <3> QED
      BY <3>3, <3>4
  <2>7. ASSUME Received(r, i) PROVE Received(r, i)'
    <3>1. PICK d \in Consumers : \E k \in DOMAIN got[d] : got[d][k] = <<r, i>>
      BY <2>7 DEF Received
    <3>2. PICK k \in DOMAIN got[d] : got[d][k] = <<r, i>>
      BY <3>1
    <3>3. k \in DOMAIN got'[d] /\ got'[d][k] = <<r, i>>
      BY <2>2, <2>3, <2>5, <3>2
    <3> QED
      BY <3>3 DEF Received
  <2>8. ASSUME x = <<r, i>> PROVE Received(r, i)'
    <3>1. m + 1 \in DOMAIN got'[c] /\ got'[c][m + 1] = <<r, i>>
      BY <2>2, <2>3, <2>5, <2>8
    <3> QED
      BY <3>1 DEF Received
  <2> QED
    BY <2>6, <2>7, <2>8 DEF x
<1> QED
  BY <1>1, <1>2, <1>5, <1>6, <1>7

LEMMA FlowAfterTake ==
  ASSUME FlowInv, NEW c \in Consumers, Takes(c)
  PROVE  QueueInv' /\ ReceivedInv' /\ LoopInv'
<1>0. TypeInv /\ LoopInv /\ QueueInv /\ ReceivedInv
  BY DEF FlowInv, ClosingInv
<1> DEFINE n == Len(q_)
<1>1. /\ n \in Nat \ {0} /\ Len(q_') = n - 1 /\ \A k \in 1 .. n - 1 : q_'[k] = q_[k + 1]
      /\ \A r \in Producers : \A i \in 0 .. Items - 1 : Received(r, i)' <=> Received(r, i) \/ q_[1] = <<r, i>>
  BY TakenItem
<1>2. /\ \A k \in 1 .. n - 1 : k + 1 \in 1 .. n
      /\ \A k \in 1 .. n : k = 1 \/ \E j \in 1 .. n - 1 : k = j + 1
      /\ 1 \in 1 .. n
  <2>1. \A m \in Nat \ {0} : /\ \A k \in 1 .. m - 1 : k + 1 \in 1 .. m
                             /\ \A k \in 1 .. m : k = 1 \/ (k - 1 \in 1 .. m - 1 /\ k = (k - 1) + 1)
                             /\ 1 \in 1 .. m
    OBVIOUS
  <2> QED
    BY <1>1, <2>1
<1>3. /\ \A k \in 1 .. n : /\ q_[k] = <<q_[k][1], q_[k][2]>>
                           /\ q_[k][1] \in Producers /\ q_[k][2] \in Nat
      /\ \A k \in 1 .. n : q_[k][2] < Pushed(q_[k][1])
      /\ \A k, j \in 1 .. n : k < j /\ q_[k][1] = q_[j][1] => q_[k][2] < q_[j][2]
  BY <1>0, QueueTypes DEF QueueInv
<1>4. /\ sent' = sent /\ \A r \in Producers : pc'[r] = pc[r]
      /\ \A r \in Producers : Pushed(r)' = Pushed(r)
  <2>1. sent' = sent /\ \A r \in Producers : pc'[r] = pc[r]
    BY <1>0, PCAssumption DEF PCAssumption, Takes, TypeInv, TypeOK
  <2> QED
    BY <2>1 DEF Pushed
<1>5. LoopInv'
  BY <1>0, <1>4 DEF LoopInv
<1> HIDE DEF n
<1>6. QueueInv'
  <2>1. ASSUME NEW k \in 1 .. n - 1 PROVE (q_[k][2] < Pushed(q_[k][1]))'
    <3>1. q_'[k] = q_[k + 1] /\ k + 1 \in 1 .. n
      BY <1>1, <1>2
    <3>2. q_[k + 1][2] < Pushed(q_[k + 1][1]) /\ q_[k + 1][1] \in Producers
      BY <1>3, <3>1
    <3>3. \A r \in Producers : sent'[r] + (IF pc'[r] = "count" THEN 1 ELSE 0) = Pushed(r)
      BY <1>4 DEF Pushed
    <3>4. q_'[k][2] < sent'[q_'[k][1]] + IF pc'[q_'[k][1]] = "count" THEN 1 ELSE 0
      BY <3>1, <3>2, <3>3
    <3> QED
      BY <3>4 DEF Pushed
  <2>2. ASSUME NEW k \in 1 .. n - 1, NEW j \in 1 .. n - 1, k < j, q_'[k][1] = q_'[j][1]
        PROVE  q_'[k][2] < q_'[j][2]
    <3>1. q_'[k] = q_[k + 1] /\ k + 1 \in 1 .. n /\ q_'[j] = q_[j + 1] /\ j + 1 \in 1 .. n
      BY <1>1, <1>2
    <3>2. k + 1 < j + 1
      BY <2>2
    <3>3. q_[k + 1][1] = q_[j + 1][1]
      BY <2>2, <3>1
    <3>4. q_[k + 1][2] < q_[j + 1][2]
      BY <1>3, <3>1, <3>2, <3>3
    <3> QED
      BY <3>1, <3>4
  <2> QED
    BY <1>1, <2>1, <2>2 DEF QueueInv
<1>7. ReceivedInv'
  <2> SUFFICES ASSUME NEW r \in Producers, NEW i \in 0 .. Items - 1
               PROVE  /\ Received(r, i)' => /\ i < Pushed(r)'
                                            /\ \A k \in 1 .. n - 1 : q_'[k][1] = r => i < q_'[k][2]
                      /\ i < Pushed(r)' => Received(r, i)' \/ \E k \in 1 .. n - 1 : q_'[k] = <<r, i>>
    BY <1>1 DEF ReceivedInv
  <2>0. /\ Received(r, i) => /\ i < Pushed(r)
                             /\ \A k \in 1 .. n : q_[k][1] = r => i < q_[k][2]
        /\ i < Pushed(r) => Received(r, i) \/ \E k \in 1 .. n : q_[k] = <<r, i>>
    BY <1>0 DEF ReceivedInv, n
  <2>1. ASSUME Received(r, i)' PROVE i < Pushed(r)'
    <3>1. CASE Received(r, i)
      BY <1>4, <2>0, <3>1
    <3>2. CASE q_[1] = <<r, i>>
      <4>1. q_[1][1] = r /\ q_[1][2] = i
        BY <3>2
      <4> QED
        BY <1>2, <1>3, <1>4, <4>1
    <3> QED
      BY <1>1, <2>1, <3>1, <3>2
  <2>2. ASSUME Received(r, i)', NEW k \in 1 .. n - 1, q_'[k][1] = r PROVE i < q_'[k][2]
    <3>0. q_'[k] = q_[k + 1] /\ k + 1 \in 1 .. n /\ 1 < k + 1
      BY <1>1, <1>2
    <3>1. CASE Received(r, i)
      BY <2>0, <2>2, <3>0, <3>1
    <3>2. CASE q_[1] = <<r, i>>
      <4>1. q_[1][1] = r /\ q_[1][2] = i
        BY <3>2
      <4> QED
        BY <1>2, <1>3, <2>2, <3>0, <4>1
    <3> QED
      BY <1>1, <2>2, <3>1, <3>2
  <2>3. ASSUME i < Pushed(r)' PROVE Received(r, i)' \/ \E k \in 1 .. n - 1 : q_'[k] = <<r, i>>
    <3>1. CASE Received(r, i)
      BY <1>1, <3>1
    <3>2. ASSUME NEW k \in 1 .. n, q_[k] = <<r, i>>
          PROVE  Received(r, i)' \/ \E j \in 1 .. n - 1 : q_'[j] = <<r, i>>
      BY <1>1, <1>2, <3>2
    <3> QED
      BY <1>4, <2>0, <2>3, <3>1, <3>2
  <2> QED
    BY <2>1, <2>2, <2>3
<1> QED
  BY <1>5, <1>6, <1>7


LEMMA FlowAfterSame ==
  ASSUME TypeInv, QueueInv, ReceivedInv, q_' = q_, got' = got,
         \A r \in Producers : Pushed(r)' = Pushed(r)
  PROVE  QueueInv' /\ ReceivedInv'
<1>1. \A k \in 1 .. Len(q_) : (q_[k][2] < Pushed(q_[k][1]))'
  <2> SUFFICES ASSUME NEW k \in 1 .. Len(q_) PROVE (q_[k][2] < Pushed(q_[k][1]))'
    OBVIOUS
  <2>1. q_[k][1] \in Producers /\ q_[k][2] < Pushed(q_[k][1])
    BY QueueTypes DEF QueueInv
  <2> QED
    BY <2>1 DEF Pushed
<1>2. QueueInv'
  BY <1>1 DEF QueueInv
<1>3. \A r \in Producers : \A i \in 0 .. Items - 1 : Received(r, i)' <=> Received(r, i)
  BY DEF Received
<1> QED
  BY <1>2, <1>3 DEF ReceivedInv

LEMMA FlowStep == FlowInv /\ [Next]_vars => FlowInv'
<1> SUFFICES ASSUME FlowInv, [Next]_vars PROVE QueueInv' /\ ReceivedInv' /\ LoopInv'
  BY ClosingStep DEF FlowInv
<1>0. ClosingInv /\ TypeInv /\ QueueInv /\ ReceivedInv /\ LoopInv
  BY DEF FlowInv, ClosingInv
<1>1. ASSUME NEW p \in Producers, Stores(p) PROVE QueueInv' /\ ReceivedInv' /\ LoopInv'
  BY <1>1, FlowAfterStore
<1>2. ASSUME NEW p \in Producers, Count(p) PROVE QueueInv' /\ ReceivedInv' /\ LoopInv'
  <2>1. /\ q_' = q_ /\ got' = got /\ pc[p] = "count" /\ sent[p] \in 0 .. Items /\ sent[p] < Items
        /\ \A r \in Producers : /\ sent'[r] = IF r = p THEN sent[p] + 1 ELSE sent[r]
                                /\ pc'[r] = IF r # p THEN pc[r] ELSE IF sent[p] + 1 < Items THEN "push" ELSE "finish"
    BY <1>0, <1>2 DEF Count, Goto, qvars, TypeInv, TypeOK, InLoop
  <2>2. \A r \in Producers : Pushed(r)' = Pushed(r)
    BY <2>1 DEF Pushed
  <2>3. LoopInv'
    BY <1>0, <2>1, PCAssumption DEF PCAssumption, LoopInv
  <2> QED
    BY <1>0, <2>1, <2>2, <2>3, FlowAfterSame
<1>3. ASSUME NEW c \in Consumers, Takes(c) PROVE QueueInv' /\ ReceivedInv' /\ LoopInv'
  BY <1>3, FlowAfterTake
<1>4. ASSUME NEW c \in Consumers, Consume(c) PROVE QueueInv' /\ ReceivedInv' /\ LoopInv'
  <2>1. q_' = q_ /\ got' = got /\ sent' = sent /\ \A r \in Producers : pc'[r] = pc[r]
    BY <1>0, <1>4, PCAssumption DEF PCAssumption, Consume, Goto, qvars, TypeInv, TypeOK
  <2>2. \A r \in Producers : Pushed(r)' = Pushed(r)
    BY <2>1 DEF Pushed
  <2>3. LoopInv'
    BY <1>0, <2>1 DEF LoopInv
  <2> QED
    BY <1>0, <2>1, <2>2, <2>3, FlowAfterSame
<1>5. CASE KeepsItems
  <2>1. \A r \in Producers : Pushed(r)' = Pushed(r)
    BY <1>5 DEF KeepsItems, Pushed
  <2>2. LoopInv'
    BY <1>0, <1>5 DEF KeepsItems, LoopInv
  <2>3. q_' = q_ /\ got' = got
    BY <1>5 DEF KeepsItems
  <2> QED
    BY <1>0, <2>1, <2>2, <2>3, FlowAfterSame
<1> QED
  BY <1>0, <1>1, <1>2, <1>3, <1>4, <1>5, ItemSteps

LEMMA FiniteItems ==
  /\ IsFiniteSet(AllItems) /\ Cardinality(AllItems) = NP * Items
  /\ IsFiniteSet(Made) /\ IsFiniteSet(Taken) /\ IsFiniteSet(Consuming)
  /\ Cardinality(Made) \in Nat /\ Cardinality(Taken) \in Nat /\ Cardinality(Consuming) \in Nat
<1>1. IsFiniteSet(0 .. Items - 1) /\ Cardinality(0 .. Items - 1) = Items
  <2>1. Items \in Nat \ {0} /\ 0 \in Int /\ Items - 1 \in Int
    BY PCAssumption DEF PCAssumption
  <2>2. \A m \in Nat \ {0} : (IF 0 > m - 1 THEN 0 ELSE (m - 1) - 0 + 1) = m
    OBVIOUS
  <2> QED
    BY <2>1, <2>2, FS_Interval
<1>2. IsFiniteSet(AllItems) /\ Cardinality(AllItems) = NP * Items
  BY <1>1, PCAssumption, FS_Product DEF PCAssumption, AllItems, NP
<1>3. Made \in SUBSET AllItems /\ Taken \in SUBSET AllItems /\ Consuming \in SUBSET Consumers
  BY DEF Made, Taken, Consuming
<1> QED
  BY <1>2, <1>3, PCAssumption, FS_Subset, FS_CardinalityType DEF PCAssumption

LEMMA CountStep == FlowInv /\ CountInv /\ [Next]_vars => CountInv'
<1> SUFFICES ASSUME FlowInv, CountInv, [Next]_vars PROVE CountInv'
  OBVIOUS
<1>0. ClosingInv /\ TypeInv
  BY DEF FlowInv, ClosingInv
<1>t. /\ pc \in [Producers \cup Consumers -> Places] /\ Producers \cap Consumers = {}
      /\ sent \in [Producers -> 0 .. Items] /\ produced \in Nat /\ consumed \in Nat
  BY <1>0, PCAssumption DEF PCAssumption, TypeInv, TypeOK
<1>c. produced = Cardinality(Made) /\ consumed + Cardinality(Consuming) = Cardinality(Taken)
  BY DEF CountInv
<1>s. (sent' = sent => Made' = Made) /\ (got' = got => Taken' = Taken)
  BY DEF Made, Taken, Received
<1>1. ASSUME NEW p \in Producers, Stores(p) PROVE CountInv'
  <2>1. Consuming' = Consuming
    BY <1>1, <1>t DEF Stores, Consuming
  <2> QED
    BY <1>1, <1>c, <1>s, <2>1 DEF Stores, CountInv
<1>2. ASSUME NEW p \in Producers, Count(p) PROVE CountInv'
  <2> DEFINE x == <<p, sent[p]>>
  <2>1. /\ pc[p] = "count" /\ sent[p] \in 0 .. Items - 1
        /\ \A r \in Producers : sent'[r] = IF r = p THEN sent[p] + 1 ELSE sent[r]
    <3>1. pc[p] = "count" /\ sent' = [sent EXCEPT ![p] = sent[p] + 1]
      BY <1>2 DEF Count, Goto
    <3>2. sent[p] \in 0 .. Items /\ sent[p] < Items /\ Items \in Nat
      BY <1>0, <1>t, <3>1, PCAssumption DEF PCAssumption, TypeInv, InLoop
    <3>3. sent[p] \in 0 .. Items - 1
      BY <3>2
    <3>4. \A r \in Producers : sent'[r] = IF r = p THEN sent[p] + 1 ELSE sent[r]
      BY <1>t, <3>1
    <3> QED
      BY <3>1, <3>3, <3>4
  <2>2. x \in AllItems /\ x \notin Made
    <3>1. x \in AllItems /\ x[1] = p /\ x[2] = sent[p]
      BY <2>1 DEF AllItems
    <3>2. ~ (x[2] < sent[x[1]])
      BY <2>1, <3>1
    <3> QED
      BY <3>1, <3>2 DEF Made
  <2>3. ASSUME NEW y \in AllItems PROVE y[2] < sent'[y[1]] <=> y[2] < sent[y[1]] \/ y = x
    <3>1. y = <<y[1], y[2]>> /\ y[1] \in Producers /\ y[2] \in Nat
      BY <2>3 DEF AllItems
    <3>2. sent[y[1]] \in Nat
      BY <1>t, <3>1
    <3> QED
      BY <2>1, <3>1, <3>2
  <2>4. Made' = Made \cup {x}
    BY <2>2, <2>3 DEF Made
  <2>5. Cardinality(Made') = Cardinality(Made) + 1
    BY <2>2, <2>4, FiniteItems, FS_AddElement
  <2>6. Consuming' = Consuming
    BY <1>2, <1>t DEF Count, Goto, Consuming
  <2>7. produced' = produced + 1 /\ consumed' = consumed /\ Taken' = Taken
    BY <1>2, <1>s DEF Count
  <2> QED
    BY <1>c, <2>5, <2>6, <2>7 DEF CountInv
<1>3. ASSUME NEW c \in Consumers, Takes(c) PROVE CountInv'
  <2>1. /\ q_[1] \in AllItems /\ ~ Received(q_[1][1], q_[1][2])
        /\ \A r \in Producers : \A i \in 0 .. Items - 1 : Received(r, i)' <=> Received(r, i) \/ q_[1] = <<r, i>>
    BY <1>3, TakenItem
  <2>2. q_[1] \notin Taken
    BY <2>1 DEF Taken
  <2>3. Taken' = Taken \cup {q_[1]}
    <3>1. \A y \in AllItems : Received(y[1], y[2])' <=> Received(y[1], y[2]) \/ q_[1] = y
      BY <2>1 DEF AllItems
    <3>2. Taken' = {y \in AllItems : Received(y[1], y[2])'}
      BY DEF Taken
    <3> QED
      BY <2>1, <3>1, <3>2 DEF Taken
  <2>4. Consuming' = Consuming \cup {c} /\ c \notin Consuming
    BY <1>3, <1>t DEF Takes, Consuming
  <2>5. /\ Cardinality(Taken') = Cardinality(Taken) + 1
        /\ Cardinality(Consuming') = Cardinality(Consuming) + 1
    BY <2>2, <2>3, <2>4, FiniteItems, FS_AddElement
  <2>6. produced' = produced /\ consumed' = consumed /\ Made' = Made
    BY <1>3, <1>s DEF Takes
  <2>7. Cardinality(Consuming) \in Nat /\ Cardinality(Taken) \in Nat
    BY FiniteItems
  <2>8. consumed' + Cardinality(Consuming') = Cardinality(Taken')
    BY <1>c, <1>t, <2>5, <2>6, <2>7
  <2> QED
    BY <1>c, <2>6, <2>8 DEF CountInv
<1>4. ASSUME NEW c \in Consumers, Consume(c) PROVE CountInv'
  <2>1. Consuming' = Consuming \ {c} /\ c \in Consuming
    BY <1>4, <1>t DEF Consume, Goto, Consuming
  <2>2. Cardinality(Consuming') = Cardinality(Consuming) - 1 /\ Cardinality(Consuming) \in Nat
    BY <2>1, FiniteItems, FS_RemoveElement
  <2>3. produced' = produced /\ consumed' = consumed + 1 /\ Made' = Made /\ Taken' = Taken
    BY <1>4, <1>s DEF Consume
  <2>4. consumed' + Cardinality(Consuming') = Cardinality(Taken)
    BY <1>c, <1>t, <2>2, <2>3
  <2> QED
    BY <1>c, <2>3, <2>4 DEF CountInv
<1>5. CASE KeepsItems
  <2>1. Consuming' = Consuming
    BY <1>5 DEF KeepsItems, Consuming
  <2> QED
    BY <1>5, <1>c, <1>s, <2>1 DEF KeepsItems, CountInv
<1> QED
  BY <1>0, <1>1, <1>2, <1>3, <1>4, <1>5, ItemSteps


LEMMA JoinStep == TypeInv /\ JoinInv /\ [Next]_vars => JoinInv'
<1> SUFFICES ASSUME TypeInv, JoinInv, [Next]_vars PROVE JoinInv'
  OBVIOUS
<1>t. pc \in [Producers \cup Consumers -> Places] /\ Producers \cap Consumers = {}
  BY PCAssumption DEF PCAssumption, TypeInv, TypeOK
<1>1. CASE Main
  BY <1>1 DEF Main, JoinInv
<1>2. CASE ~ Main
  <2>1. main_' = main_
    BY <1>2 DEF Next, Producer, Consumer, Push, Count, Finish, Close, Pop, Consume, Spurious, Terminating,
                vars, threads
  <2>2. \A t \in Producers \cup Consumers : pc[t] = "exit" => pc'[t] = "exit"
    BY <1>t, <1>2 DEF Next, Producer, Consumer, Push, Count, Finish, Close, Pop, Consume, Spurious, Terminating,
                      Goto, vars, threads
  <2> QED
    BY <2>1, <2>2 DEF JoinInv
<1> QED
  BY <1>1, <1>2

LEMMA FlowInit == Init => FlowInv /\ CountInv /\ JoinInv
<1> SUFFICES ASSUME Init PROVE FlowInv /\ CountInv /\ JoinInv
  OBVIOUS
<1>0. ClosingInv
  BY ClosingInit
<1>1. /\ \A p \in Producers : pc[p] = "push" /\ sent[p] = 0
      /\ \A c \in Consumers : pc[c] = "pop" /\ got[c] = << >>
      /\ q_ = << >> /\ Len(q_) = 0 /\ main_ = "join_producers" /\ produced = 0 /\ consumed = 0
  BY PCAssumption, EmptySeq DEF PCAssumption, Init, QInit
<1>2. LoopInv /\ QueueInv
  BY <1>1 DEF LoopInv, QueueInv
<1>3. \A p \in Producers : \A i \in 0 .. Items - 1 : ~ Received(p, i) /\ ~ (i < Pushed(p))
  BY <1>1, PCAssumption DEF PCAssumption, Received, Pushed
<1>4. ReceivedInv
  BY <1>3 DEF ReceivedInv
<1>5. Made = {} /\ Taken = {} /\ Consuming = {}
  BY <1>1, <1>3 DEF Made, Taken, Consuming, AllItems
<1>6. Cardinality(Made) = 0 /\ Cardinality(Taken) = 0 /\ Cardinality(Consuming) = 0
  BY <1>5, FS_EmptySet
<1>7. CountInv
  BY <1>1, <1>6 DEF CountInv
<1>8. JoinInv
  BY <1>1 DEF JoinInv
<1> QED
  BY <1>0, <1>2, <1>4, <1>7, <1>8 DEF FlowInv

LEMMA FlowHolds == Spec => [](FlowInv /\ CountInv /\ JoinInv)
<1>1. FlowInv /\ CountInv /\ JoinInv /\ [Next]_vars => (FlowInv /\ CountInv /\ JoinInv)'
  <2>1. FlowInv => TypeInv
    BY DEF FlowInv, ClosingInv
  <2> QED
    BY <2>1, FlowStep, CountStep, JoinStep
<1> QED
  BY <1>1, FlowInit, PTL DEF Spec

(* When the queue is empty, what a producer out of its loop has made has   *)
(* been received.                                                          *)
LEMMA AllReceived ==
  ASSUME FlowInv, q_ = << >>, NEW p \in Producers, pc[p] \notin {"push", "count"}, NEW i \in 0 .. Items - 1
  PROVE  Received(p, i)
<1>1. sent[p] = Items /\ LoopInv /\ ReceivedInv
  BY DEF FlowInv, LoopInv
<1>2. i < Pushed(p) /\ Len(q_) = 0
  BY <1>1, PCAssumption, EmptySeq DEF PCAssumption, Pushed
<1> QED
  BY <1>1, <1>2 DEF ReceivedInv

(* When main() prints, every item was produced and consumed, and counted   *)
(* once on each side (lines 86-89).                                        *)
THEOREM NothingIsLost == Spec => []CountersAgree
<1>1. FlowInv /\ CountInv /\ JoinInv => CountersAgree
  <2> SUFFICES ASSUME FlowInv, CountInv, JoinInv, main_ = "done"
               PROVE  produced = NP * Items /\ consumed = produced /\ q_ = << >>
    BY DEF CountersAgree
  <2>0. ClosingInv /\ LoopInv
    BY DEF FlowInv
  <2>1. /\ \A p \in Producers : pc[p] = "exit"
        /\ \A c \in Consumers : pc[c] = "exit"
    BY DEF JoinInv
  <2>2. q_ = << >>
    BY <2>0, <2>1, PCAssumption DEF PCAssumption, ClosingInv, EndMeansEmpty
  <2>3. Made = AllItems
    <3>1. \A p \in Producers : sent[p] = Items
      BY <2>0, <2>1 DEF LoopInv
    <3> QED
      BY <3>1, PCAssumption DEF PCAssumption, Made, AllItems
  <2>4. Taken = AllItems
    <3>1. \A p \in Producers : \A i \in 0 .. Items - 1 : Received(p, i)
      BY <2>1, <2>2, AllReceived
    <3> QED
      BY <3>1 DEF Taken, AllItems
  <2>5. Consuming = {} /\ Cardinality(Consuming) = 0
    BY <2>1, FS_EmptySet DEF Consuming
  <2>6. consumed \in Nat
    BY <2>0 DEF ClosingInv, TypeInv, TypeOK
  <2>7. produced = Cardinality(AllItems) /\ consumed = Cardinality(AllItems)
    BY <2>3, <2>4, <2>5, <2>6 DEF CountInv
  <2> QED
    BY <2>2, <2>7, FiniteItems
<1> QED
  BY <1>1, FlowHolds, PTL

-----------------------------------------------------------------------------
(* The program takes the steps of Delivery. *)
Handed(p) == {i \in 0 .. Items - 1 : Received(p, i)}

(* When an item is taken, its producer's earlier ones have been handed out. *)
LEMMA HandedInOrder ==
  ASSUME FlowInv, NEW c \in Consumers, Takes(c)
  PROVE  Handed(q_[1][1]) = 0 .. q_[1][2] - 1 /\ Cardinality(Handed(q_[1][1])) = q_[1][2]
<1> DEFINE p == q_[1][1]
           m == q_[1][2]
<1>0. TypeInv /\ QueueInv /\ ReceivedInv
  BY DEF FlowInv, ClosingInv
<1>1. q_[1] \in AllItems /\ ~ Received(p, m) /\ Len(q_) \in Nat \ {0}
  BY TakenItem
<1>2. p \in Producers /\ m \in 0 .. Items - 1 /\ Items \in Nat
  BY <1>1, PCAssumption DEF PCAssumption, AllItems
<1>3. 1 \in 1 .. Len(q_) /\ m < Pushed(p) /\ Pushed(p) \in Nat
  BY <1>0, <1>1, <1>2, QueueTypes DEF QueueInv
<1>4. ASSUME NEW i \in 0 .. Items - 1, Received(p, i) PROVE i \in 0 .. m - 1
  <2>1. i < m
    BY <1>0, <1>2, <1>3, <1>4 DEF ReceivedInv
  <2> QED
    BY <1>2, <2>1
<1>5. ASSUME NEW i \in 0 .. m - 1 PROVE i \in 0 .. Items - 1 /\ Received(p, i)
  <2>1. i \in 0 .. Items - 1 /\ i < Pushed(p) /\ i < m
    BY <1>2, <1>3
  <2>2. ASSUME NEW k \in 1 .. Len(q_), q_[k] = <<p, i>> PROVE FALSE
    <3>1. q_[k][1] = p /\ q_[k][2] = i
      BY <2>2
    <3>2. k = 1 \/ 1 < k
      BY <1>1
    <3>3. CASE k = 1
      BY <1>2, <2>1, <3>1, <3>3
    <3>4. CASE 1 < k
      <4>1. m < i
        BY <1>0, <1>3, <3>1, <3>4 DEF QueueInv
      <4> QED
        BY <1>2, <2>1, <4>1
    <3> QED
      BY <3>2, <3>3, <3>4
  <2> QED
    BY <1>0, <1>2, <2>1, <2>2 DEF ReceivedInv
<1>6. Handed(p) = 0 .. m - 1
  BY <1>4, <1>5 DEF Handed
<1>7. Cardinality(0 .. m - 1) = m
  <2>1. \A n \in Nat : 0 \in Int /\ n - 1 \in Int /\ (IF 0 > n - 1 THEN 0 ELSE (n - 1) - 0 + 1) = n
    OBVIOUS
  <2>2. m \in Nat
    BY <1>2
  <2> HIDE DEF m
  <2> QED
    BY <2>1, <2>2, FS_Interval
<1> QED
  BY <1>6, <1>7


(* The state functions that stand for Delivery's variables. *)
Delivered == [p \in Producers |-> Cardinality(Handed(p))]
Ended == {c \in Consumers : pc[c] = "exit"}

LEMMA Mapped ==
  /\ Abstract!dvars = <<Delivered, got, Ended>>
  /\ Abstract!DInit <=> /\ Delivered = [p \in Producers |-> 0]
                        /\ got = [c \in Consumers |-> << >>]
                        /\ Ended = {}
BY DEF Abstract!dvars, Abstract!DInit, Delivered, Handed, Received, Ended

(* A consumer is told that there is no more. *)
Ends(c) == /\ pc[c] = "pop" /\ pc' = [pc EXCEPT ![c] = "exit"]
           /\ closed_ /\ q_ = << >> /\ got' = got

LEMMA EndSteps == TypeInv /\ [Next]_vars => Ended' = Ended \/ \E c \in Consumers : Ends(c)
<1> SUFFICES ASSUME TypeInv, [Next]_vars PROVE Ended' = Ended \/ \E c \in Consumers : Ends(c)
  OBVIOUS
<1>t. pc \in [Producers \cup Consumers -> Places] /\ Producers \cap Consumers = {}
  BY PCAssumption DEF PCAssumption, TypeInv, TypeOK
<1>1. ASSUME NEW p \in Producers, Producer(p) PROVE Ended' = Ended
  <2>1. \A c \in Consumers : pc'[c] = pc[c]
    BY <1>t, <1>1 DEF Producer, Push, Count, Finish, Close, Goto
  <2> QED
    BY <2>1 DEF Ended
<1>2. ASSUME NEW c \in Consumers, Pop(c) PROVE Ended' = Ended \/ Ends(c)
  <2>1. CASE PopWait(c) /\ UNCHANGED <<pc, got>>
    BY <2>1 DEF Ended
  <2>2. CASE PopEnd(c) /\ Goto(c, "pop", "exit") /\ UNCHANGED got
    BY <2>2 DEF PopEnd, Goto, Ends
  <2>3. CASE PopTake(c) /\ Goto(c, "pop", "consume")
    BY <1>t, <2>3 DEF Goto, Ended
  <2> QED
    BY <1>2, <2>1, <2>2, <2>3 DEF Pop
<1>3. ASSUME NEW c \in Consumers, Consume(c) PROVE Ended' = Ended
  BY <1>t, <1>3 DEF Consume, Goto, Ended
<1>4. CASE Main \/ Spurious \/ UNCHANGED vars
  BY <1>4 DEF Main, Spurious, vars, threads, Ended
<1> QED
  BY <1>1, <1>2, <1>3, <1>4 DEF Next, Consumer, Terminating

LEMMA DeliverStep ==
  ASSUME FlowInv, [Next]_vars, NEW c \in Consumers, Takes(c)
  PROVE  Abstract!Deliver(q_[1][1], c)
<1> DEFINE p == q_[1][1]
           m == q_[1][2]
<1>0. ClosingInv /\ TypeInv
  BY DEF FlowInv, ClosingInv
<1>1. /\ q_[1] \in AllItems /\ ~ Received(p, m)
      /\ \A r \in Producers : \A i \in 0 .. Items - 1 : Received(r, i)' <=> Received(r, i) \/ q_[1] = <<r, i>>
  BY TakenItem
<1>2. p \in Producers /\ m \in 0 .. Items - 1 /\ q_[1] = <<p, m>> /\ Items \in Nat /\ m < Items
  BY <1>1, PCAssumption DEF PCAssumption, AllItems
<1>3. Handed(p) = 0 .. m - 1 /\ Cardinality(Handed(p)) = m
  BY HandedInOrder
<1>4. ASSUME NEW r \in Producers PROVE Handed(r)' = IF r = p THEN Handed(p) \cup {m} ELSE Handed(r)
  <2>1. Handed(r)' = {i \in 0 .. Items - 1 : Received(r, i) \/ q_[1] = <<r, i>>}
    BY <1>1 DEF Handed
  <2>2. CASE r = p
    <3>1. \A i \in 0 .. Items - 1 : q_[1] = <<r, i>> <=> i = m
      BY <1>2, <2>2
    <3> QED
      BY <1>2, <2>1, <2>2, <3>1 DEF Handed
  <2>3. CASE r # p
    <3>1. \A i \in 0 .. Items - 1 : q_[1] # <<r, i>>
      BY <1>2, <2>3
    <3> QED
      BY <2>1, <2>3, <3>1 DEF Handed
  <2> QED
    BY <2>2, <2>3
<1>5. Cardinality(Handed(p) \cup {m}) = m + 1
  <2>1. IsFiniteSet(Handed(p)) /\ m \notin Handed(p)
    <3>1. 0 \in Int /\ m - 1 \in Int /\ m \notin 0 .. m - 1
      BY <1>2
    <3> QED
      BY <1>3, <3>1, FS_Interval
  <2> QED
    BY <1>3, <2>1, FS_AddElement
<1>6. Delivered[p] = m /\ Delivered' = [Delivered EXCEPT ![p] = m + 1]
  <2>1. Delivered' = [r \in Producers |-> Cardinality(Handed(r)')]
    BY DEF Delivered
  <2>2. \A r \in Producers : Cardinality(Handed(r)') = IF r = p THEN m + 1 ELSE Cardinality(Handed(r))
    BY <1>4, <1>5
  <2>3. Delivered[p] = m
    BY <1>2, <1>3 DEF Delivered
  <2> HIDE DEF p, m
  <2> QED
    BY <1>2, <2>1, <2>2, <2>3 DEF Delivered
<1>7. /\ got' = [got EXCEPT ![c] = Append(@, <<p, Delivered[p]>>)]
      /\ c \notin Ended /\ Ended' = Ended
  <2>1. q_ \in Seq(Item) /\ q_ # << >>
    BY <1>0 DEF TypeInv, TypeOK, Takes
  <2>2. Head(q_) = q_[1]
    BY <2>1, HeadTailProperties
  <2>3. got' = [got EXCEPT ![c] = Append(@, <<p, Delivered[p]>>)]
    BY <1>2, <1>6, <2>2 DEF Takes
  <2>4. c \notin Ended /\ Ended' = Ended
    BY <1>0 DEF Takes, Ended, TypeInv, TypeOK
  <2> QED
    BY <2>3, <2>4
<1>8. Delivered[p] < Items /\ Delivered' = [Delivered EXCEPT ![p] = @ + 1]
  BY <1>2, <1>6
<1> QED
  BY <1>7, <1>8 DEF Abstract!Deliver, Delivered, Handed, Received, Ended

LEMMA EndStep ==
  ASSUME FlowInv, NEW c \in Consumers, Ends(c)
  PROVE  Abstract!End(c)
<1>0. ClosingInv /\ TypeInv
  BY DEF FlowInv, ClosingInv
<1>1. \A p \in Producers : pc[p] \notin {"push", "count"}
  BY <1>0 DEF ClosingInv, LastOneCloses, Finished, Ends
<1>2. \A p \in Producers : Handed(p) = 0 .. Items - 1
  BY <1>1, AllReceived DEF Handed, Ends
<1>3. Cardinality(0 .. Items - 1) = Items
  <2>1. \A n \in Nat : 0 \in Int /\ n - 1 \in Int /\ (IF 0 > n - 1 THEN 0 ELSE (n - 1) - 0 + 1) = n
    OBVIOUS
  <2> QED
    BY <2>1, PCAssumption, FS_Interval DEF PCAssumption
<1>4. \A p \in Producers : Delivered[p] = Items
  BY <1>2, <1>3 DEF Delivered
<1>5. c \notin Ended /\ Ended' = Ended \cup {c}
  BY <1>0 DEF Ends, Ended, TypeInv, TypeOK
<1>6. Delivered' = Delivered /\ got' = got
  BY DEF Ends, Delivered, Handed, Received
<1> QED
  BY <1>4, <1>5, <1>6 DEF Abstract!End, Delivered, Handed, Received, Ended

(* Every item reaches one consumer, the items of a producer in its order,  *)
(* and a consumer leaves only when all have been handed out: the safety    *)
(* part of Delivers (lines 32-48, 67-84).                                  *)
THEOREM DeliversInOrder == Spec => Abstract!DSafe
<1>1. Init => Abstract!DInit
  <2> SUFFICES ASSUME Init PROVE Abstract!DInit
    OBVIOUS
  <2>1. \A p \in Producers : Handed(p) = {}
    BY DEF Init, Handed, Received
  <2>2. Delivered = [p \in Producers |-> 0]
    BY <2>1, FS_EmptySet DEF Delivered
  <2>3. Ended = {} /\ got = [c \in Consumers |-> << >>]
    BY PCAssumption DEF PCAssumption, Init, Ended
  <2> QED
    BY <2>2, <2>3, Mapped
<1>2. FlowInv /\ [Next]_vars => [Abstract!DNext]_(Abstract!dvars)
  <2> SUFFICES ASSUME FlowInv, [Next]_vars PROVE [Abstract!DNext]_(Abstract!dvars)
    OBVIOUS
  <2>0. ClosingInv /\ TypeInv
    BY DEF FlowInv, ClosingInv
  <2>1. ASSUME NEW c \in Consumers, Takes(c) PROVE Abstract!DNext
    <3>1. Abstract!Deliver(q_[1][1], c) /\ q_[1][1] \in Producers
      BY <2>1, DeliverStep, TakenItem DEF AllItems
    <3> QED
      BY <3>1 DEF Abstract!DNext
  <2>2. ASSUME NEW c \in Consumers, Ends(c) PROVE Abstract!DNext
    BY <2>2, EndStep DEF Abstract!DNext
  <2>3. ASSUME got' = got, Ended' = Ended PROVE UNCHANGED Abstract!dvars
    BY <2>3, Mapped DEF Abstract!dvars, Delivered, Handed, Received, Ended
  <2>4. got' = got \/ \E c \in Consumers : Takes(c)
    BY <2>0, ItemSteps DEF Stores, Count, Consume, KeepsItems
  <2> QED
    BY <2>0, <2>1, <2>2, <2>3, <2>4, EndSteps
<1> QED
  BY <1>1, <1>2, FlowHolds, PTL DEF Spec, Abstract!DSafe
=============================================================================
