------------------------------ MODULE Pipeline ------------------------------
(***************************************************************************)
(* 03_patterns/06_pipeline.cpp: source -> q1 -> stage1 -> q2 -> stage2 ->  *)
(* q3 -> sink, one thread per stage and one BQ between two of them.  BQ is *)
(* the queue of BlockingQueue, except that its push returns nothing: what  *)
(* a closed queue refuses is dropped.  A stage whose input has ended       *)
(* closes its output.                                                      *)
(***************************************************************************)
EXTENDS Naturals, Sequences, FiniteSets

CONSTANTS Cap,          \* the capacity of each queue
          Items         \* the source pushes 1 .. Items

ASSUME PLAssumption == Cap \in Nat \ {0} /\ Items \in Nat \ {0}

VARIABLES q1, closed1, full1, empty1,   \* the three queues
          q2, closed2, full2, empty2,
          q3, closed3, full3, empty3,
          pc,           \* where each stage is
          hand,         \* the value each stage is about to push, or has popped last
          printed       \* what the sink has printed

queue1 == <<q1, closed1, full1, empty1>>
queue2 == <<q2, closed2, full2, empty2>>
queue3 == <<q3, closed3, full3, empty3>>
vars == <<queue1, queue2, queue3, pc, hand, printed>>

Q1 == INSTANCE BlockingQueue WITH q_ <- q1, closed_ <- closed1, cv_full_ <- full1, cv_empty_ <- empty1
Q2 == INSTANCE BlockingQueue WITH q_ <- q2, closed_ <- closed2, cv_full_ <- full2, cv_empty_ <- empty2
Q3 == INSTANCE BlockingQueue WITH q_ <- q3, closed_ <- closed3, cv_full_ <- full3, cv_empty_ <- empty3

Stages == {"source", "stage1", "stage2", "sink"}
Nothing == << >>

Init == /\ Q1!QInit /\ Q2!QInit /\ Q3!QInit
        /\ pc = [s \in Stages |-> IF s = "source" THEN "push" ELSE "pop"]
        /\ hand = [s \in Stages |-> IF s = "source" THEN <<1>> ELSE Nothing]
        /\ printed = << >>

Goto(s, from, to) == pc[s] = from /\ pc' = [pc EXCEPT ![s] = to]

-----------------------------------------------------------------------------
(* while (auto v = q.pop()): a value is turned into what the stage pushes, *)
(* the end of the input into the close of the output.                      *)
Popping(s, wait, end, take, made, ended) ==
  /\ pc[s] = "pop"
  /\ \/ wait /\ UNCHANGED <<pc, hand>>
     \/ end /\ Goto(s, "pop", ended) /\ UNCHANGED hand
     \/ take /\ Goto(s, "pop", "push") /\ hand' = [hand EXCEPT ![s] = <<made>>]
  /\ UNCHANGED printed

(* q.push(hand), then whatever the stage does next. *)
Pushing(s, wait, refused, store, then, after) ==
  /\ pc[s] = "push"
  /\ \/ wait /\ UNCHANGED <<pc, hand>>
     \/ (refused \/ store) /\ Goto(s, "push", then) /\ hand' = [hand EXCEPT ![s] = after]
  /\ UNCHANGED printed

(* q.close(), in the three steps of BlockingQueue. *)
Closing(s, set, notify_empty, notify_full) ==
  /\ \/ set /\ Goto(s, "close", "notify_empty")
     \/ notify_empty /\ Goto(s, "notify_empty", "notify_full")
     \/ notify_full /\ Goto(s, "notify_full", "exit")
  /\ UNCHANGED <<hand, printed>>

Source_ClosesInLoop ==          \* faulty variant: q1.close() inside the for loop
  LET i == hand["source"][1] IN
  /\ \/ Pushing("source", Q1!PushWait("source"), Q1!PushRefused("source"), Q1!PushStore("source", i),
                "close", <<i + 1>>)
     \/ /\ Q1!CloseSet /\ Goto("source", "close", IF i > Items THEN "exit" ELSE "push")
        /\ UNCHANGED <<hand, printed>>
  /\ UNCHANGED <<queue2, queue3>>

(* The source pushes 1 .. Items and closes q1. *)
Source ==
  LET i == hand["source"][1]
      last == i = Items IN
  /\ \/ Pushing("source", Q1!PushWait("source"), Q1!PushRefused("source"), Q1!PushStore("source", i),
                IF last THEN "close" ELSE "push", IF last THEN <<i>> ELSE <<i + 1>>)
     \/ Closing("source", Q1!CloseSet, Q1!CloseNotifyEmpty, Q1!CloseNotifyFull)
  /\ UNCHANGED <<queue2, queue3>>

(* stage1 squares. *)
Stage1 ==
  \/ /\ Popping("stage1", Q1!PopWait("stage1"), Q1!PopEnd("stage1"), Q1!PopTake("stage1"),
                Head(q1) * Head(q1), "close")
     /\ UNCHANGED <<queue2, queue3>>
  \/ /\ \/ Pushing("stage1", Q2!PushWait("stage1"), Q2!PushRefused("stage1"),
                   Q2!PushStore("stage1", hand["stage1"][1]), "pop", Nothing)
        \/ Closing("stage1", Q2!CloseSet, Q2!CloseNotifyEmpty, Q2!CloseNotifyFull)
     /\ UNCHANGED <<queue1, queue3>>

(* stage2 puts the square in brackets. *)
Stage2 ==
  \/ /\ Popping("stage2", Q2!PopWait("stage2"), Q2!PopEnd("stage2"), Q2!PopTake("stage2"),
                <<"(", Head(q2), ")">>, "close")
     /\ UNCHANGED <<queue1, queue3>>
  \/ /\ \/ Pushing("stage2", Q3!PushWait("stage2"), Q3!PushRefused("stage2"),
                   Q3!PushStore("stage2", hand["stage2"][1]), "pop", Nothing)
        \/ Closing("stage2", Q3!CloseSet, Q3!CloseNotifyEmpty, Q3!CloseNotifyFull)
     /\ UNCHANGED <<queue1, queue2>>

(* The sink prints. *)
Sink == /\ \/ /\ Popping("sink", Q3!PopWait("sink"), Q3!PopEnd("sink"), Q3!PopTake("sink"),
                         Head(q3), "exit")
           \/ /\ Goto("sink", "push", "pop")
              /\ printed' = Append(printed, hand["sink"][1])
              /\ hand' = [hand EXCEPT !["sink"] = Nothing]
              /\ UNCHANGED queue3
        /\ UNCHANGED <<queue1, queue2>>

Spurious == /\ \/ Q1!SpuriousWake /\ UNCHANGED <<queue2, queue3>>
               \/ Q2!SpuriousWake /\ UNCHANGED <<queue1, queue3>>
               \/ Q3!SpuriousWake /\ UNCHANGED <<queue1, queue2>>
            /\ UNCHANGED <<pc, hand, printed>>

(* main() has joined the four threads. *)
Joined == \A s \in Stages : pc[s] = "exit"
Terminating == Joined /\ UNCHANGED vars

Next == Source \/ Stage1 \/ Stage2 \/ Sink \/ Spurious \/ Terminating

Spec == Init /\ [][Next]_vars
FairSpec == Spec /\ WF_vars(Source) /\ WF_vars(Stage1) /\ WF_vars(Stage2) /\ WF_vars(Sink)

-----------------------------------------------------------------------------
TypeOK ==
  /\ q1 \in Seq(1 .. Items) /\ q2 \in Seq(Nat)
  /\ \A k \in DOMAIN q3 : q3[k][2] \in Nat
  /\ Len(q1) <= Cap /\ Len(q2) <= Cap /\ Len(q3) <= Cap
  /\ {closed1, closed2, closed3} \subseteq BOOLEAN
  /\ full1 \cup full2 \cup full3 \cup empty1 \cup empty2 \cup empty3 \subseteq Stages
  /\ pc \in [Stages -> {"pop", "push", "close", "notify_empty", "notify_full", "exit"}]
  /\ DOMAIN hand = Stages

(* The pipeline as a whole: the squares of 1, 2, ... in brackets, in       *)
(* order; and the sink stops only after the last one, so that none was     *)
(* dropped on the way by a queue closed too early (line 47).               *)
Expected(k) == <<"(", k * k, ")">>
InOrder == /\ \A k \in DOMAIN printed : printed[k] = Expected(k)
           /\ pc["sink"] = "exit" => Len(printed) = Items

(* The close runs down the pipeline: a stage leaves only after the stage   *)
(* before it has closed, and with its own input empty.                     *)
CloseCascades == /\ closed3 => closed2 /\ q2 = << >>
                 /\ closed2 => closed1 /\ q1 = << >>

(* Every run ends, with all four threads joined: an end of input, a value  *)
(* or a free place always reaches a stage that waits for it.               *)
Termination == <>Joined
=============================================================================
