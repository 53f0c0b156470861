------------------------ MODULE WorkStealing_proofs ------------------------
(* The theorems about WorkStealing, for any number of workers and tasks:   *)
(* no task is in two places, pending_ lags behind the deques by exactly    *)
(* the submissions not yet counted, and the pool is drained when no task   *)
(* submits more than one other.                                            *)
EXTENDS WorkStealing, FiniteSetTheorems, SequenceTheorems, TLAPS

(* The types, and what a worker's place in its loop says of its task.      *)
TypeInv ==
  /\ dq \in [Workers -> Seq(Tasks)]
  /\ stop_ \in BOOLEAN /\ pending_ \in Int /\ rr \in - IntMax - 1 .. IntMax
  /\ pc \in [Workers -> {"loop", "pop", "steal", "run", "count", "exit"}]
  /\ tries \in [Workers -> 0 .. N]
  /\ task \in [Workers -> Tasks \cup {NoTask}]
  /\ main_ \in {"submit", "count", "drain", "stop", "join", "done"}
  /\ submitted \in 0 .. NTasks /\ born \in [Workers -> 0 .. NNested]
  /\ main_ = "submit" => submitted < NTasks
WorkerInv ==
  \A w \in Workers : /\ pc[w] \in {"run", "count"} <=> task[w] # NoTask
                     /\ task[w] = NoTask => born[w] = 0
                     /\ born[w] <= Children(w)
                     /\ pc[w] = "count" => born[w] > 0
StateInv == TypeInv /\ WorkerInv

(* A task is in one place. *)
UniqueInv ==
  /\ \A w, v \in Workers : \A k \in 1 .. Len(dq[w]), j \in 1 .. Len(dq[v]) :
       dq[w][k] = dq[v][j] => w = v /\ k = j
  /\ \A w, v \in Workers : \A k \in 1 .. Len(dq[w]) : dq[w][k] # task[v]
  /\ \A w, v \in Workers : task[w] = task[v] => w = v \/ task[w] = NoTask

(* It has not been there before it was submitted, nor are the children of  *)
(* a task there before it has begun and submitted them.                    *)
InPool(x) == \/ \E w \in Workers : \E k \in 1 .. Len(dq[w]) : dq[w][k] = x
             \/ \E w \in Workers : task[w] = x
BirthInv ==
  \A x \in Tasks : InPool(x) =>
    /\ x[1] <= submitted
    /\ x[2] > 0 => /\ \A w \in Workers : \A k \in 1 .. Len(dq[w]) : dq[w][k] # <<x[1], 0>>
                   /\ \A w \in Workers : task[w] = <<x[1], 0>> => x[2] <= born[w]

(* The destructor joins: when it has returned, every worker has left.      *)
JoinInv == main_ = "done" => \A w \in Workers : pc[w] = "exit"

(* What the destructor can miss when it leaves its loop is only what a     *)
(* running task submits after a first child.                               *)
LateInv ==
  main_ \in {"stop", "join", "done"} =>
    /\ \A w \in Workers : \A k \in 1 .. Len(dq[w]) : dq[w][k][1] \in Nests /\ dq[w][k][2] >= 2
    /\ \A w \in Workers : Children(w) > 0 => born[w] > 0

IInv == StateInv /\ UniqueInv /\ BirthInv /\ PendingLags /\ JoinInv /\ LateInv

-----------------------------------------------------------------------------
LEMMA Constants ==
  /\ N \in Nat \ {0} /\ NTasks \in Nat \ {0} /\ NNested \in Nat /\ IntMax \in Nat \ {0}
  /\ Nests \subseteq 1 .. NTasks /\ NoTask \notin Tasks
  /\ \A x \in Tasks : x = <<x[1], x[2]>> /\ x[1] \in 1 .. NTasks /\ x[2] \in 0 .. NNested
BY WSAssumption DEF WSAssumption, Tasks, NoTask

LEMMA ChildrenType == \A w \in Workers : Children(w) \in Nat /\ Children(w) <= NNested
BY Constants DEF Children

(* A push, a take from the back (s = 0) or from the front (s = 1).         *)
LEMMA Pushed ==
  ASSUME NEW q \in Seq(Tasks), NEW x \in Tasks
  PROVE  /\ Append(q, x) \in Seq(Tasks) /\ Len(Append(q, x)) = Len(q) + 1 /\ Len(q) \in Nat
         /\ Append(q, x)[Len(q) + 1] = x /\ \A k \in 1 .. Len(q) : Append(q, x)[k] = q[k]
BY AppendProperties, LenProperties

LEMMA TakenFromBack ==
  ASSUME NEW q \in Seq(Tasks), q # << >>
  PROVE  /\ SubSeq(q, 1, Len(q) - 1) \in Seq(Tasks) /\ Len(SubSeq(q, 1, Len(q) - 1)) = Len(q) - 1
         /\ \A k \in 1 .. Len(q) - 1 : SubSeq(q, 1, Len(q) - 1)[k] = q[k]
         /\ Len(q) \in Nat \ {0} /\ q[Len(q)] \in Tasks
<1>1. Len(q) \in Nat \ {0}
  BY EmptySeq
<1>2. q[Len(q)] \in Tasks /\ \A k \in 1 .. Len(q) - 1 : q[k] \in Tasks
  BY <1>1, ElementOfSeq
<1> DEFINE r == SubSeq(q, 1, Len(q) - 1)
<1>3. \A k \in 1 .. Len(q) - 1 : q[k] \in Tasks /\ 1 + k - 1 = k
  BY <1>1, <1>2
<1>4. /\ r \in Seq(Tasks) /\ Len(r) = IF 1 <= Len(q) - 1 THEN (Len(q) - 1) - 1 + 1 ELSE 0
      /\ \A k \in 1 .. (Len(q) - 1) - 1 + 1 : r[k] = q[1 + k - 1]
  BY <1>1, <1>3, SubSeqProperties
<1> HIDE DEF r
<1>a. /\ (IF 1 <= Len(q) - 1 THEN (Len(q) - 1) - 1 + 1 ELSE 0) = Len(q) - 1
      /\ (Len(q) - 1) - 1 + 1 = Len(q) - 1
  <2>1. \A m \in Nat \ {0} : (IF 1 <= m - 1 THEN (m - 1) - 1 + 1 ELSE 0) = m - 1 /\ (m - 1) - 1 + 1 = m - 1
    OBVIOUS
  <2> QED
    BY <1>1, <2>1
<1>5. Len(r) = Len(q) - 1
  BY <1>4, <1>a
<1>6. \A k \in 1 .. Len(q) - 1 : r[k] = q[k]
  BY <1>3, <1>4, <1>a
<1> USE DEF r
<1> QED
  BY <1>1, <1>2, <1>4, <1>5, <1>6

LEMMA TakenFromFront ==
  ASSUME NEW q \in Seq(Tasks), q # << >>
  PROVE  /\ Tail(q) \in Seq(Tasks) /\ Len(Tail(q)) = Len(q) - 1
         /\ \A k \in 1 .. Len(q) - 1 : Tail(q)[k] = q[k + 1]
         /\ Len(q) \in Nat \ {0} /\ Head(q) = q[1] /\ q[1] \in Tasks
<1>1. Len(q) \in Nat \ {0}
  BY EmptySeq
<1> QED
  BY <1>1, HeadTailProperties, ElementOfSeq

LEMMA TypeStep == StateInv /\ [Next]_vars => TypeInv'
<1> SUFFICES ASSUME StateInv, [Next]_vars PROVE TypeInv'
  OBVIOUS
<1>0. TypeInv /\ WorkerInv
  BY DEF StateInv
<1> USE Constants DEF TypeInv, Goto
<1>r. Incremented(rr) \in - IntMax - 1 .. IntMax
  BY <1>0 DEF Incremented
<1>p. ASSUME NEW x \in Tasks, Push(x) PROVE dq' \in [Workers -> Seq(Tasks)] /\ rr' \in - IntMax - 1 .. IntMax
  <2>1. PICK v \in Workers : dq' = [dq EXCEPT ![v] = Append(dq[v], x)]
    BY <1>p DEF Push
  <2>2. Append(dq[v], x) \in Seq(Tasks)
    BY <1>0, Pushed
  <2> QED
    BY <1>0, <1>p, <1>r, <2>1, <2>2 DEF Push
<1>1. CASE Submit
  <2>1. CASE main_ = "submit"
    <3>1. /\ Push(<<submitted + 1, 0>>) /\ submitted' = submitted + 1 /\ main_' = "count"
          /\ UNCHANGED <<stop_, pending_, pc, tries, task, born>>
      BY <1>1, <2>1 DEF Submit
    <3>2. <<submitted + 1, 0>> \in Tasks /\ submitted + 1 \in 0 .. NTasks
      BY <1>0, <2>1 DEF Tasks
    <3>3. dq' \in [Workers -> Seq(Tasks)] /\ rr' \in - IntMax - 1 .. IntMax
      BY <1>p, <3>1, <3>2
    <3> QED
      BY <1>0, <3>1, <3>2, <3>3
  <2>2. CASE main_ = "count"
    BY <1>0, <1>1, <2>2 DEF Submit, Counted
  <2> QED
    BY <1>1, <2>1, <2>2 DEF Submit
<1>2. CASE Drain \/ Stop \/ Join
  BY <1>0, <1>2 DEF Drain, Stop, Join
<1>3. ASSUME NEW w \in Workers, Loop(w) \/ Idle(w) PROVE TypeInv'
  <2>1. UNCHANGED <<dq, stop_, pending_, rr, tries, task, main_, submitted, born>>
    BY <1>3 DEF Loop, Idle
  <2>2. \E p \in {"exit", "pop", "loop"} : pc' = [pc EXCEPT ![w] = p]
    BY <1>3 DEF Loop, Idle
  <2>3. pc' \in [Workers -> {"loop", "pop", "steal", "run", "count", "exit"}]
    BY <1>0, <2>2
  <2> QED
    BY <1>0, <2>1, <2>3
<1>4. ASSUME NEW w \in Workers, PopLocal(w) PROVE TypeInv'
  <2>1. CASE dq[w] = << >>
    <3>1. /\ pc' = [pc EXCEPT ![w] = "steal"] /\ tries' = [tries EXCEPT ![w] = 0]
          /\ UNCHANGED <<dq, stop_, pending_, rr, task, main_, submitted, born>>
      BY <1>4, <2>1 DEF PopLocal
    <3>2. tries' \in [Workers -> 0 .. N]
      <4>1. 0 \in 0 .. N
        OBVIOUS
      <4> QED
        BY <1>0, <3>1, <4>1
    <3>3. pc' \in [Workers -> {"loop", "pop", "steal", "run", "count", "exit"}]
      BY <1>0, <3>1
    <3> QED
      BY <1>0, <3>1, <3>2, <3>3
  <2>2. CASE dq[w] # << >>
    <3>1. /\ pc[w] = "pop" /\ pc' = [pc EXCEPT ![w] = "run"] /\ task' = [task EXCEPT ![w] = dq[w][Len(dq[w])]]
          /\ dq' = [dq EXCEPT ![w] = SubSeq(dq[w], 1, Len(dq[w]) - 1)]
          /\ UNCHANGED <<stop_, pending_, rr, tries, main_, submitted, born>>
      BY <1>4, <2>2 DEF PopLocal
    <3>2. SubSeq(dq[w], 1, Len(dq[w]) - 1) \in Seq(Tasks) /\ dq[w][Len(dq[w])] \in Tasks
      BY <1>0, <2>2, TakenFromBack
    <3>3. dq' \in [Workers -> Seq(Tasks)] /\ task' \in [Workers -> Tasks \cup {NoTask}]
      BY <1>0, <3>1, <3>2
    <3> QED
      BY <1>0, <3>1, <3>3
  <2> QED
    BY <2>1, <2>2
<1>5. ASSUME NEW w \in Workers, NEW victim \in Workers, StealFrom(w, victim) PROVE TypeInv'
  <2>0. tries' \in [Workers -> 0 .. N]
    <3>1. /\ tries[w] < N /\ tries' = [tries EXCEPT ![w] = tries[w] + 1] /\ tries[w] \in 0 .. N
          /\ tries \in [Workers -> 0 .. N]
      BY <1>0, <1>5 DEF StealFrom
    <3>2. tries[w] + 1 \in 0 .. N
      BY <3>1
    <3> QED
      BY <3>1, <3>2
  <2>1. CASE victim = w \/ dq[victim] = << >>
    BY <1>0, <1>5, <2>0, <2>1 DEF StealFrom
  <2>2. CASE ~ (victim = w \/ dq[victim] = << >>)
    <3>1. /\ pc[w] = "steal" /\ pc' = [pc EXCEPT ![w] = "run"] /\ task' = [task EXCEPT ![w] = Head(dq[victim])]
          /\ dq' = [dq EXCEPT ![victim] = Tail(dq[victim])]
          /\ UNCHANGED <<stop_, pending_, rr, main_, submitted, born>>
      BY <1>5, <2>2 DEF StealFrom
    <3>2. Tail(dq[victim]) \in Seq(Tasks) /\ Head(dq[victim]) \in Tasks
      BY <1>0, <2>2, TakenFromFront
    <3>3. dq' \in [Workers -> Seq(Tasks)] /\ task' \in [Workers -> Tasks \cup {NoTask}]
      BY <1>0, <3>1, <3>2
    <3> QED
      BY <1>0, <2>0, <3>1, <3>3
  <2> QED
    BY <2>1, <2>2
<1>6. ASSUME NEW w \in Workers, NestedPush(w) PROVE TypeInv'
  <2>1. /\ born[w] < Children(w) /\ pc[w] = "run" /\ pc' = [pc EXCEPT ![w] = "count"]
        /\ Push(<<task[w][1], born[w] + 1>>) /\ born' = [born EXCEPT ![w] = born[w] + 1]
        /\ UNCHANGED <<stop_, pending_, tries, task, main_, submitted>>
    BY <1>6 DEF NestedPush
  <2>2. born[w] + 1 \in 0 .. NNested
    <3>1. born[w] \in 0 .. NNested /\ Children(w) \in Nat /\ Children(w) <= NNested
      BY <1>0, ChildrenType
    <3> QED
      BY <2>1, <3>1
  <2>3. <<task[w][1], born[w] + 1>> \in Tasks
    <3>1. task[w] \in Tasks
      BY <1>0, <2>1 DEF WorkerInv
    <3> QED
      BY <2>2, <3>1 DEF Tasks
  <2>4. dq' \in [Workers -> Seq(Tasks)] /\ rr' \in - IntMax - 1 .. IntMax
    BY <1>p, <2>1, <2>3
  <2> QED
    BY <1>0, <2>1, <2>2, <2>4
<1>7. ASSUME NEW w \in Workers, NestedCount(w) PROVE TypeInv'
  <2>1. /\ pc' = [pc EXCEPT ![w] = "run"] /\ pending_' = pending_ + 1
        /\ UNCHANGED <<dq, stop_, rr, tries, task, main_, submitted, born>>
    BY <1>7 DEF NestedCount, Counted
  <2>2. /\ pc' \in [Workers -> {"loop", "pop", "steal", "run", "count", "exit"}]
        /\ pending_' \in Int
    BY <1>0, <2>1
  <2> QED
    BY <1>0, <2>1, <2>2
<1>8. ASSUME NEW w \in Workers, Ran(w) PROVE TypeInv'
  <2>1. /\ pc' = [pc EXCEPT ![w] = "loop"] /\ pending_' = pending_ - 1
        /\ task' = [task EXCEPT ![w] = NoTask] /\ born' = [born EXCEPT ![w] = 0]
        /\ UNCHANGED <<dq, stop_, rr, tries, main_, submitted>>
    BY <1>8 DEF Ran
  <2>2. /\ pc' \in [Workers -> {"loop", "pop", "steal", "run", "count", "exit"}]
        /\ pending_' \in Int /\ task' \in [Workers -> Tasks \cup {NoTask}]
    BY <1>0, <2>1
  <2>3. born' \in [Workers -> 0 .. NNested]
    BY <1>0, <2>1
  <2> QED
    BY <1>0, <2>1, <2>2, <2>3
<1>9. CASE UNCHANGED vars
  BY <1>0, <1>9 DEF vars
<1> QED
  BY <1>1, <1>2, <1>3, <1>4, <1>5, <1>6, <1>7, <1>8, <1>9 DEF Next, Main, Worker, Terminating

(* A worker's place in its loop keeps saying what it says of its task.     *)
LEMMA WorkerStep == StateInv /\ [Next]_vars => WorkerInv'
<1> SUFFICES ASSUME StateInv, [Next]_vars PROVE WorkerInv'
  OBVIOUS
<1>0. TypeInv /\ WorkerInv /\ TypeInv'
  BY TypeStep DEF StateInv
<1>q. ASSUME UNCHANGED <<pc, task, born>> PROVE WorkerInv'
  BY <1>0, <1>q DEF WorkerInv, Children
<1>s. ASSUME NEW w \in Workers, NEW from \in {"loop", "pop", "steal"}, NEW to \in {"loop", "pop", "steal", "exit"},
             Goto(w, from, to), UNCHANGED <<task, born>>
      PROVE  WorkerInv'
  BY <1>0, <1>s DEF WorkerInv, TypeInv, Goto, Children
<1>t. ASSUME NEW w \in Workers, NEW x \in Tasks, pc[w] \in {"pop", "steal"}, pc' = [pc EXCEPT ![w] = "run"],
             task' = [task EXCEPT ![w] = x], born' = born
      PROVE  WorkerInv'
  <2>1. task[w] = NoTask /\ born[w] = 0 /\ x # NoTask
    BY <1>0, <1>t, Constants DEF WorkerInv
  <2> SUFFICES ASSUME NEW u \in Workers
               PROVE  /\ pc'[u] \in {"run", "count"} <=> task'[u] # NoTask
                      /\ task'[u] = NoTask => born'[u] = 0
                      /\ born'[u] <= Children(u)'
                      /\ pc'[u] = "count" => born'[u] > 0
    BY DEF WorkerInv
  <2>2. CASE u = w
    <3>1. pc'[u] = "run" /\ task'[u] = x /\ born'[u] = 0
      BY <1>0, <1>t, <2>1, <2>2 DEF TypeInv
    <3>2. 0 <= Children(u)'
      BY Constants DEF Children
    <3> QED
      BY <2>1, <3>1, <3>2
  <2>3. CASE u # w
    <3>1. pc'[u] = pc[u] /\ task'[u] = task[u] /\ born'[u] = born[u] /\ Children(u)' = Children(u)
      BY <1>0, <1>t, <2>3 DEF TypeInv, Children
    <3> QED
      BY <1>0, <3>1 DEF WorkerInv
  <2> QED
    BY <2>2, <2>3
<1>1. CASE Main
  BY <1>1, <1>q DEF Main, Submit, Drain, Stop, Join
<1>2. ASSUME NEW w \in Workers, Loop(w) \/ Idle(w) PROVE WorkerInv'
  BY <1>s, <1>2 DEF Loop, Idle
<1>3. ASSUME NEW w \in Workers, PopLocal(w) PROVE WorkerInv'
  <2>1. CASE dq[w] = << >>
    BY <1>s, <1>3, <2>1 DEF PopLocal
  <2>2. CASE dq[w] # << >>
    <3>1. dq[w][Len(dq[w])] \in Tasks
      BY <1>0, <2>2, TakenFromBack DEF TypeInv
    <3> QED
      BY <1>t, <1>3, <2>2, <3>1 DEF PopLocal, Goto
  <2> QED
    BY <2>1, <2>2
<1>4. ASSUME NEW w \in Workers, NEW victim \in Workers, StealFrom(w, victim) PROVE WorkerInv'
  <2>1. CASE victim = w \/ dq[victim] = << >>
    BY <1>q, <1>4, <2>1 DEF StealFrom
  <2>2. CASE ~ (victim = w \/ dq[victim] = << >>)
    <3>1. Head(dq[victim]) \in Tasks
      BY <1>0, <2>2, TakenFromFront DEF TypeInv
    <3> QED
      BY <1>t, <1>4, <2>2, <3>1 DEF StealFrom, Goto
  <2> QED
    BY <2>1, <2>2
<1>5. ASSUME NEW w \in Workers, NestedPush(w) PROVE WorkerInv'
  <2>1. /\ born[w] < Children(w) /\ pc[w] = "run" /\ pc' = [pc EXCEPT ![w] = "count"]
        /\ born' = [born EXCEPT ![w] = born[w] + 1] /\ task' = task
    BY <1>5 DEF NestedPush, Goto
  <2>2. born[w] + 1 <= Children(w) /\ born[w] + 1 > 0
    BY <1>0, <2>1, ChildrenType DEF TypeInv
  <2> QED
    BY <1>0, <2>1, <2>2 DEF WorkerInv, TypeInv, Children
<1>6. ASSUME NEW w \in Workers, NestedCount(w) PROVE WorkerInv'
  BY <1>0, <1>6 DEF NestedCount, Goto, WorkerInv, TypeInv, Children
<1>7. ASSUME NEW w \in Workers, Ran(w) PROVE WorkerInv'
  <2>1. /\ pc' = [pc EXCEPT ![w] = "loop"] /\ task' = [task EXCEPT ![w] = NoTask]
        /\ born' = [born EXCEPT ![w] = 0]
    BY <1>7 DEF Ran, Goto
  <2>2. 0 <= Children(w)'
    BY Constants DEF Children
  <2> QED
    BY <1>0, <2>1, <2>2 DEF WorkerInv, TypeInv, Children
<1>8. CASE UNCHANGED vars
  BY <1>8, <1>q DEF vars
<1> QED
  BY <1>1, <1>2, <1>3, <1>4, <1>5, <1>6, <1>7, <1>8 DEF Next, Worker, Terminating

-----------------------------------------------------------------------------
(* What the steps of the pool do to the tasks in it: one is pushed, taken  *)
(* from an end of a deque (s = 0 the back, s = 1 the front) or finished.   *)
PushedAt(v, x) == dq' = [dq EXCEPT ![v] = Append(@, x)] /\ task' = task
MainPushes(v) ==
  /\ main_ = "submit" /\ main_' = "count" /\ PushedAt(v, <<submitted + 1, 0>>)
  /\ submitted' = submitted + 1 /\ UNCHANGED <<pc, born, pending_>>
WorkerPushes(w, v) ==
  /\ born[w] < Children(w) /\ pc[w] = "run" /\ pc' = [pc EXCEPT ![w] = "count"]
  /\ PushedAt(v, <<task[w][1], born[w] + 1>>)
  /\ born' = [born EXCEPT ![w] = @ + 1] /\ UNCHANGED <<main_, submitted, pending_>>
Place(v, s) == IF s = 0 THEN Len(dq[v]) ELSE 1
Takes(w, v, s) ==
  /\ task[w] = NoTask /\ dq[v] # << >>
  /\ dq' = [dq EXCEPT ![v] = IF s = 0 THEN SubSeq(@, 1, Len(@) - 1) ELSE Tail(@)]
  /\ task' = [task EXCEPT ![w] = dq[v][Place(v, s)]]
  /\ pc[w] # "count" /\ pc' = [pc EXCEPT ![w] = "run"]
  /\ UNCHANGED <<main_, born, submitted, pending_>>
MainCounts ==
  /\ main_ = "count" /\ main_' # "count" /\ pending_' = pending_ + 1
  /\ UNCHANGED <<dq, pc, task, born, submitted>>
WorkerCounts(w) ==
  /\ pc[w] = "count" /\ pc' = [pc EXCEPT ![w] = "run"] /\ pending_' = pending_ + 1
  /\ UNCHANGED <<dq, main_, task, born, submitted>>
Quiet ==
  /\ UNCHANGED <<dq, task, born, submitted, pending_>>
  /\ main_ = "count" <=> main_' = "count"
  /\ \A w \in Workers : pc[w] = "count" <=> pc'[w] = "count"

LEMMA StepKinds ==
  StateInv /\ [Next]_vars =>
    \/ \E v \in Workers : MainPushes(v)
    \/ \E w, v \in Workers : WorkerPushes(w, v)
    \/ \E w, v \in Workers : \E s \in {0, 1} : Takes(w, v, s)
    \/ MainCounts
    \/ \E w \in Workers : WorkerCounts(w)
    \/ \E w \in Workers : Ran(w)
    \/ Quiet
<1> DEFINE Kinds == \/ \E v \in Workers : MainPushes(v)
                    \/ \E w, v \in Workers : WorkerPushes(w, v)
                    \/ \E w, v \in Workers : \E s \in {0, 1} : Takes(w, v, s)
                    \/ MainCounts
                    \/ \E w \in Workers : WorkerCounts(w)
                    \/ \E w \in Workers : Ran(w)
                    \/ Quiet
<1> SUFFICES ASSUME StateInv, [Next]_vars PROVE Kinds
  OBVIOUS
<1>0. TypeInv /\ WorkerInv
  BY DEF StateInv
<1>1. CASE Submit
  <2>1. CASE main_ = "submit"
    BY <1>1, <2>1 DEF Submit, Push, MainPushes, PushedAt
  <2>2. CASE main_ = "count"
    BY <1>1, <2>2 DEF Submit, Counted, MainCounts
  <2> QED
    BY <1>1, <2>1, <2>2 DEF Submit
<1>2. CASE Drain \/ Stop \/ Join
  BY <1>2 DEF Drain, Stop, Join, Quiet
<1>3. ASSUME NEW w \in Workers, Loop(w) \/ Idle(w) PROVE Quiet
  BY <1>0, <1>3 DEF Loop, Idle, Goto, Quiet, TypeInv
<1>4. ASSUME NEW w \in Workers, PopLocal(w) PROVE Quiet \/ Takes(w, w, 0)
  <2>1. CASE dq[w] = << >>
    BY <1>0, <1>4, <2>1 DEF PopLocal, Goto, Quiet, TypeInv
  <2>2. CASE dq[w] # << >>
    BY <1>0, <1>4, <2>2 DEF PopLocal, Goto, Takes, Place, WorkerInv
  <2> QED
    BY <2>1, <2>2
<1>5. ASSUME NEW w \in Workers, NEW victim \in Workers, StealFrom(w, victim)
      PROVE  Quiet \/ Takes(w, victim, 1)
  <2>1. CASE victim = w \/ dq[victim] = << >>
    BY <1>0, <1>5, <2>1 DEF StealFrom, Quiet
  <2>2. CASE ~ (victim = w \/ dq[victim] = << >>)
    <3>1. Head(dq[victim]) = dq[victim][1]
      BY <1>0, <2>2, TakenFromFront DEF TypeInv
    <3> QED
      BY <1>0, <1>5, <2>2, <3>1 DEF StealFrom, Goto, Takes, Place, WorkerInv
  <2> QED
    BY <2>1, <2>2
<1>6. ASSUME NEW w \in Workers, NestedPush(w) PROVE \E v \in Workers : WorkerPushes(w, v)
  BY <1>6 DEF NestedPush, Goto, Push, WorkerPushes, PushedAt
<1>7. ASSUME NEW w \in Workers, NestedCount(w) PROVE WorkerCounts(w)
  BY <1>7 DEF NestedCount, Goto, Counted, WorkerCounts
<1>8. CASE UNCHANGED vars
  BY <1>8 DEF vars, Quiet
<1> QED
  BY <1>1, <1>2, <1>3, <1>4, <1>5, <1>6, <1>7, <1>8 DEF Next, Main, Worker, Terminating

(* Where the tasks on the deques of the next state come from.              *)
LEMMA PlacesAfterPush ==
  ASSUME TypeInv, NEW v \in Workers, NEW x \in Tasks, PushedAt(v, x)
  PROVE  /\ \A u \in Workers : \A k \in 1 .. Len(dq'[u]) :
              \/ k \in 1 .. Len(dq[u]) /\ dq'[u][k] = dq[u][k]
              \/ u = v /\ k = Len(dq[v]) + 1 /\ dq'[u][k] = x
         /\ \A u \in Workers : Len(dq'[u]) = IF u = v THEN Len(dq[v]) + 1 ELSE Len(dq[u])
<1>1. /\ Len(Append(dq[v], x)) = Len(dq[v]) + 1 /\ Append(dq[v], x)[Len(dq[v]) + 1] = x /\ Len(dq[v]) \in Nat
      /\ \A k \in 1 .. Len(dq[v]) : Append(dq[v], x)[k] = dq[v][k]
  BY Pushed DEF TypeInv
<1>2. \A u \in Workers : dq'[u] = IF u = v THEN Append(dq[v], x) ELSE dq[u]
  BY DEF TypeInv, PushedAt
<1>3. \A m \in Nat : \A k \in 1 .. m + 1 : k \in 1 .. m \/ k = m + 1
  OBVIOUS
<1>4. ASSUME NEW u \in Workers, NEW k \in 1 .. Len(dq'[u])
      PROVE  \/ k \in 1 .. Len(dq[u]) /\ dq'[u][k] = dq[u][k]
             \/ u = v /\ k = Len(dq[v]) + 1 /\ dq'[u][k] = x
  <2>1. CASE u = v
    <3>1. dq'[u] = Append(dq[v], x)
      BY <1>2, <2>1
    <3>2. k \in 1 .. Len(dq[v]) \/ k = Len(dq[v]) + 1
      BY <1>1, <1>3, <3>1, <1>4
    <3> QED
      BY <1>1, <2>1, <3>1, <3>2
  <2>2. CASE u # v
    BY <1>2, <1>4, <2>2
  <2> QED
    BY <2>1, <2>2
<1>5. \A u \in Workers : Len(dq'[u]) = IF u = v THEN Len(dq[v]) + 1 ELSE Len(dq[u])
  BY <1>1, <1>2
<1> QED
  BY <1>4, <1>5

LEMMA PlacesAfterTake ==
  ASSUME TypeInv, NEW w \in Workers, NEW v \in Workers, NEW s \in {0, 1}, Takes(w, v, s)
  PROVE  /\ Place(v, s) \in 1 .. Len(dq[v]) /\ Len(dq[v]) \in Nat /\ dq[v][Place(v, s)] \in Tasks
         /\ \A u \in Workers \ {v} : dq'[u] = dq[u]
         /\ Len(dq'[v]) = Len(dq[v]) - 1
         /\ \A k \in 1 .. Len(dq'[v]) : /\ k + s \in 1 .. Len(dq[v]) \ {Place(v, s)}
                                        /\ dq'[v][k] = dq[v][k + s]
<1>1. dq[v] \in Seq(Tasks) /\ dq[v] # << >>
  BY DEF TypeInv, Takes
<1>2. \A u \in Workers : dq'[u] = IF u # v THEN dq[u] ELSE
                           IF s = 0 THEN SubSeq(dq[v], 1, Len(dq[v]) - 1) ELSE Tail(dq[v])
  BY DEF TypeInv, Takes
<1>3. CASE s = 0
  <2>1. /\ Len(dq'[v]) = Len(dq[v]) - 1 /\ \A k \in 1 .. Len(dq[v]) - 1 : dq'[v][k] = dq[v][k]
        /\ Len(dq[v]) \in Nat \ {0} /\ dq[v][Len(dq[v])] \in Tasks
    BY <1>1, <1>2, <1>3, TakenFromBack
  <2> QED
    BY <1>2, <1>3, <2>1 DEF Place
<1>4. CASE s = 1
  <2>1. /\ Len(dq'[v]) = Len(dq[v]) - 1 /\ \A k \in 1 .. Len(dq[v]) - 1 : dq'[v][k] = dq[v][k + 1]
        /\ Len(dq[v]) \in Nat \ {0} /\ dq[v][1] \in Tasks
    <3>1. dq'[v] = Tail(dq[v])
      BY <1>2, <1>4
    <3>2. /\ Len(Tail(dq[v])) = Len(dq[v]) - 1 /\ \A k \in 1 .. Len(dq[v]) - 1 : Tail(dq[v])[k] = dq[v][k + 1]
          /\ Len(dq[v]) \in Nat \ {0} /\ dq[v][1] \in Tasks
      BY <1>1, TakenFromFront
    <3> QED
      BY <3>1, <3>2
  <2>2. \A m \in Nat \ {0} : /\ 1 \in 1 .. m
                             /\ \A k \in 1 .. m - 1 : k + 1 \in 1 .. m \ {1}
    OBVIOUS
  <2>3. Place(v, s) = 1
    BY <1>4 DEF Place
  <2>4. 1 \in 1 .. Len(dq[v]) /\ \A k \in 1 .. Len(dq'[v]) : k + s \in 1 .. Len(dq[v]) \ {1}
    BY <1>4, <2>1, <2>2
  <2>5. \A k \in 1 .. Len(dq'[v]) : dq'[v][k] = dq[v][k + s]
    BY <1>4, <2>1
  <2>6. \A u \in Workers \ {v} : dq'[u] = dq[u]
    BY <1>2
  <2>7. Len(dq'[v]) = Len(dq[v]) - 1 /\ Len(dq[v]) \in Nat /\ dq[v][1] \in Tasks
    BY <2>1
  <2> QED
    BY <2>3, <2>4, <2>5, <2>6, <2>7
<1> QED
  BY <1>3, <1>4

-----------------------------------------------------------------------------
(* A submission pushes a task the pool has not seen.                       *)
LEMMA FreshFromMain ==
  ASSUME StateInv, BirthInv, NEW v \in Workers, MainPushes(v)
  PROVE  <<submitted + 1, 0>> \in Tasks /\ ~ InPool(<<submitted + 1, 0>>)
<1>1. submitted \in 0 .. NTasks /\ submitted < NTasks
  BY DEF StateInv, TypeInv, MainPushes
<1>2. <<submitted + 1, 0>> \in Tasks
  BY <1>1, Constants DEF Tasks
<1> QED
  BY <1>1, <1>2 DEF BirthInv

LEMMA FreshFromTask ==
  ASSUME StateInv, BirthInv, NEW w \in Workers, NEW v \in Workers, WorkerPushes(w, v)
  PROVE  /\ <<task[w][1], born[w] + 1>> \in Tasks /\ ~ InPool(<<task[w][1], born[w] + 1>>)
         /\ task[w] = <<task[w][1], 0>> /\ born[w] \in Nat
<1> DEFINE x == <<task[w][1], born[w] + 1>>
<1>0. TypeInv /\ WorkerInv
  BY DEF StateInv
<1>1. task[w] \in Tasks /\ born[w] \in Nat
  BY <1>0 DEF WorkerPushes, TypeInv, WorkerInv
<1>2. task[w][2] = 0
  BY <1>0, <1>1 DEF WorkerPushes, Children
<1>3. born[w] + 1 \in 0 .. NNested
  BY <1>1, ChildrenType, Constants DEF WorkerPushes
<1>4. x \in Tasks
  BY <1>1, <1>3 DEF Tasks
<1>5. task[w] = <<task[w][1], 0>>
  BY <1>1, <1>2, Constants
<1>6. ~ InPool(x)
  <2> SUFFICES ASSUME InPool(x) PROVE FALSE
    OBVIOUS
  <2>1. x[1] = task[w][1] /\ x[2] = born[w] + 1 /\ x[2] > 0
    BY <1>1
  <2>2. task[w] = <<x[1], 0>>
    BY <1>5, <2>1
  <2>3. x[2] <= born[w]
    BY <1>4, <2>1, <2>2 DEF BirthInv
  <2> QED
    BY <1>1, <2>1, <2>3
<1> QED
  BY <1>1, <1>4, <1>5, <1>6

(* What is in the pool after a push or a take. *)
LEMMA PoolAfterPush ==
  ASSUME TypeInv, NEW v \in Workers, NEW x \in Tasks, PushedAt(v, x), NEW y, InPool(y)'
  PROVE  InPool(y) \/ y = x
<1>1. CASE \E u \in Workers : \E k \in 1 .. Len(dq'[u]) : dq'[u][k] = y
  BY <1>1, PlacesAfterPush DEF InPool
<1>2. CASE \E u \in Workers : task'[u] = y
  BY <1>2 DEF InPool, PushedAt
<1> QED
  BY <1>1, <1>2 DEF InPool

LEMMA PoolAfterTake ==
  ASSUME TypeInv, NEW w \in Workers, NEW v \in Workers, NEW s \in {0, 1}, Takes(w, v, s),
         NEW y, InPool(y)'
  PROVE  InPool(y)
<1>1. CASE \E u \in Workers : \E k \in 1 .. Len(dq'[u]) : dq'[u][k] = y
  <2>0. PICK u \in Workers : \E k \in 1 .. Len(dq'[u]) : dq'[u][k] = y
    BY <1>1
  <2>1. PICK k \in 1 .. Len(dq'[u]) : dq'[u][k] = y
    BY <2>0
  <2>2. CASE u = v
    <3>1. k \in 1 .. Len(dq'[v]) /\ dq'[v][k] = y
      BY <2>1, <2>2
    <3>2. k + s \in 1 .. Len(dq[v]) /\ dq[v][k + s] = y
      BY <3>1, PlacesAfterTake
    <3> QED
      BY <3>2 DEF InPool
  <2>3. CASE u # v
    <3>1. dq'[u] = dq[u]
      BY <2>3, PlacesAfterTake
    <3> QED
      BY <2>1, <3>1 DEF InPool
  <2> QED
    BY <2>2, <2>3
<1>2. CASE \E u \in Workers : task'[u] = y
  <2>1. PICK u \in Workers : task'[u] = y
    BY <1>2
  <2>2. CASE u = w
    <3>1. y = dq[v][Place(v, s)]
      BY <2>1, <2>2 DEF Takes, TypeInv
    <3> QED
      BY <3>1, PlacesAfterTake DEF InPool
  <2>3. CASE u # w
    BY <2>1, <2>3 DEF Takes, TypeInv, InPool
  <2> QED
    BY <2>2, <2>3
<1> QED
  BY <1>1, <1>2 DEF InPool

-----------------------------------------------------------------------------
(* The pool keeps a task in one place. *)
LEMMA UniqueAfterPush ==
  ASSUME TypeInv, UniqueInv, NEW v \in Workers, NEW x \in Tasks, PushedAt(v, x), ~ InPool(x)
  PROVE  UniqueInv'
<1>0. /\ \A u \in Workers : \A k \in 1 .. Len(dq[u]) : dq[u][k] # x
      /\ \A u \in Workers : task[u] # x
  BY DEF InPool
<1>u. \A a, b \in Workers : \A k \in 1 .. Len(dq[a]), j \in 1 .. Len(dq[b]) :
        dq[a][k] = dq[b][j] => a = b /\ k = j
  BY DEF UniqueInv
<1>1. task' = task
  BY DEF PushedAt
<1>2. \A u \in Workers : \A k \in 1 .. Len(dq'[u]) :
              \/ k \in 1 .. Len(dq[u]) /\ dq'[u][k] = dq[u][k]
              \/ u = v /\ k = Len(dq[v]) + 1 /\ dq'[u][k] = x
  BY PlacesAfterPush
<1>3. ASSUME NEW a \in Workers, NEW b \in Workers, NEW k \in 1 .. Len(dq'[a]), NEW j \in 1 .. Len(dq'[b]),
             dq'[a][k] = dq'[b][j]
      PROVE  a = b /\ k = j
  <2>1. CASE k \in 1 .. Len(dq[a]) /\ dq'[a][k] = dq[a][k]
    <3>1. dq'[b][j] # x
      BY <1>0, <1>3, <2>1
    <3>2. j \in 1 .. Len(dq[b]) /\ dq'[b][j] = dq[b][j]
      BY <1>2, <3>1
    <3>3. dq[a][k] = dq[b][j]
      BY <1>3, <2>1, <3>2
    <3> QED
      BY <1>u, <2>1, <3>2, <3>3
  <2>2. CASE a = v /\ k = Len(dq[v]) + 1 /\ dq'[a][k] = x
    <3>1. ~ (j \in 1 .. Len(dq[b]) /\ dq'[b][j] = dq[b][j])
      BY <1>0, <1>3, <2>2
    <3>2. b = v /\ j = Len(dq[v]) + 1
      BY <1>2, <3>1
    <3> QED
      BY <2>2, <3>2
  <2> QED
    BY <1>2, <2>1, <2>2
<1>4. ASSUME NEW a \in Workers, NEW b \in Workers, NEW k \in 1 .. Len(dq'[a]) PROVE dq'[a][k] # task'[b]
  <2>1. CASE k \in 1 .. Len(dq[a]) /\ dq'[a][k] = dq[a][k]
    BY <1>1, <2>1 DEF UniqueInv
  <2>2. CASE dq'[a][k] = x
    BY <1>0, <1>1, <2>2
  <2> QED
    BY <1>2, <2>1, <2>2
<1>5. \A a, b \in Workers : task'[a] = task'[b] => a = b \/ task'[a] = NoTask
  BY <1>1 DEF UniqueInv
<1> QED
  BY <1>3, <1>4, <1>5 DEF UniqueInv

LEMMA UniqueAfterTake ==
  ASSUME TypeInv, UniqueInv, NEW w \in Workers, NEW v \in Workers, NEW s \in {0, 1}, Takes(w, v, s)
  PROVE  UniqueInv'
<1> DEFINE t == Place(v, s)
           From(u) == IF u = v THEN s ELSE 0
<1>0. /\ \A a, b \in Workers : \A k \in 1 .. Len(dq[a]), j \in 1 .. Len(dq[b]) :
           dq[a][k] = dq[b][j] => a = b /\ k = j
      /\ \A a, b \in Workers : \A k \in 1 .. Len(dq[a]) : dq[a][k] # task[b]
      /\ \A a, b \in Workers : task[a] = task[b] => a = b \/ task[a] = NoTask
  BY DEF UniqueInv
<1>1. /\ t \in 1 .. Len(dq[v]) /\ dq[v][t] \in Tasks
      /\ \A u \in Workers : task'[u] = IF u = w THEN dq[v][t] ELSE task[u]
  <2>1. t \in 1 .. Len(dq[v]) /\ dq[v][t] \in Tasks
    BY PlacesAfterTake
  <2>2. task' = [task EXCEPT ![w] = dq[v][t]]
    BY DEF Takes
  <2>3. task \in [Workers -> Tasks \cup {NoTask}]
    BY DEF TypeInv
  <2> QED
    BY <2>1, <2>2, <2>3
<1>2. ASSUME NEW u \in Workers, NEW k \in 1 .. Len(dq'[u])
      PROVE  \E m \in 1 .. Len(dq[u]) : /\ m = k + From(u) /\ dq'[u][k] = dq[u][m]
                                        /\ u = v => m # t
  <2>1. CASE u = v
    BY <2>1, PlacesAfterTake
  <2>2. CASE u # v
    BY <2>2, PlacesAfterTake
  <2> QED
    BY <2>1, <2>2
<1>3. ASSUME NEW a \in Workers, NEW b \in Workers, NEW k \in 1 .. Len(dq'[a]), NEW j \in 1 .. Len(dq'[b]),
             dq'[a][k] = dq'[b][j]
      PROVE  a = b /\ k = j
  <2>1. a = b /\ k + From(a) = j + From(b)
    <3>1. PICK m \in 1 .. Len(dq[a]) : m = k + From(a) /\ dq'[a][k] = dq[a][m]
      BY <1>2
    <3>2. PICK n \in 1 .. Len(dq[b]) : n = j + From(b) /\ dq'[b][j] = dq[b][n]
      BY <1>2
    <3> HIDE DEF From
    <3>3. dq[a][m] = dq[b][n]
      BY <1>3, <3>1, <3>2
    <3>4. a = b /\ m = n
      BY <1>0, <3>3
    <3> QED
      BY <3>1, <3>2, <3>4
  <2>2. From(a) = From(b) /\ From(a) \in {0, 1}
    BY <2>1
  <2> HIDE DEF From
  <2> QED
    BY <2>1, <2>2
<1>4. ASSUME NEW a \in Workers, NEW b \in Workers, NEW k \in 1 .. Len(dq'[a]) PROVE dq'[a][k] # task'[b]
  <2>1. CASE b = w
    <3>1. task'[b] = dq[v][t]
      BY <1>1, <2>1
    <3>2. PICK m \in 1 .. Len(dq[a]) : dq'[a][k] = dq[a][m] /\ (a = v => m # t)
      BY <1>2
    <3> HIDE DEF From, t
    <3>3. dq[a][m] = dq[v][t] => a = v /\ m = t
      BY <1>0, <1>1
    <3> QED
      BY <3>1, <3>2, <3>3
  <2>2. CASE b # w
    <3>1. task'[b] = task[b]
      BY <1>1, <2>2
    <3>2. PICK m \in 1 .. Len(dq[a]) : dq'[a][k] = dq[a][m]
      BY <1>2
    <3> QED
      BY <1>0, <3>1, <3>2
  <2> QED
    BY <2>1, <2>2
<1>5. ASSUME NEW a \in Workers, NEW b \in Workers, task'[a] = task'[b]
      PROVE  a = b \/ task'[a] = NoTask
  BY <1>0, <1>1, <1>5
<1> QED
  BY <1>3, <1>4, <1>5 DEF UniqueInv

LEMMA UniqueStep == StateInv /\ UniqueInv /\ BirthInv /\ [Next]_vars => UniqueInv'
<1> SUFFICES ASSUME StateInv, UniqueInv, BirthInv, [Next]_vars PROVE UniqueInv'
  OBVIOUS
<1>0. TypeInv
  BY DEF StateInv
<1>1. ASSUME NEW v \in Workers, MainPushes(v) PROVE UniqueInv'
  <2>1. PushedAt(v, <<submitted + 1, 0>>)
    BY <1>1 DEF MainPushes
  <2>2. <<submitted + 1, 0>> \in Tasks /\ ~ InPool(<<submitted + 1, 0>>)
    BY <1>1, FreshFromMain
  <2> QED
    BY <1>0, <2>1, <2>2, UniqueAfterPush
<1>2. ASSUME NEW w \in Workers, NEW v \in Workers, WorkerPushes(w, v) PROVE UniqueInv'
  <2>1. PushedAt(v, <<task[w][1], born[w] + 1>>)
    BY <1>2 DEF WorkerPushes
  <2>2. <<task[w][1], born[w] + 1>> \in Tasks /\ ~ InPool(<<task[w][1], born[w] + 1>>)
    BY <1>2, FreshFromTask
  <2> QED
    BY <1>0, <2>1, <2>2, UniqueAfterPush
<1>3. ASSUME NEW w \in Workers, NEW v \in Workers, NEW s \in {0, 1}, Takes(w, v, s) PROVE UniqueInv'
  BY <1>0, <1>3, UniqueAfterTake
<1>4. ASSUME UNCHANGED <<dq, task>> PROVE UniqueInv'
  BY <1>4 DEF UniqueInv
<1>5. ASSUME NEW w \in Workers, Ran(w) PROVE UniqueInv'
  <2>1. dq' = dq /\ \A u \in Workers : task'[u] = IF u = w THEN NoTask ELSE task[u]
    BY <1>0, <1>5 DEF Ran, TypeInv
  <2>2. \A a \in Workers : \A k \in 1 .. Len(dq[a]) : dq[a][k] # NoTask
    <3> SUFFICES ASSUME NEW a \in Workers, NEW k \in 1 .. Len(dq[a]) PROVE dq[a][k] # NoTask
      OBVIOUS
    <3>1. dq[a] \in Seq(Tasks)
      BY <1>0 DEF TypeInv
    <3>2. dq[a][k] \in Tasks
      BY <3>1, ElementOfSeq
    <3> QED
      BY <3>2, Constants
  <2>3. \A a, b \in Workers : task'[a] = task'[b] => a = b \/ task'[a] = NoTask
    BY <2>1 DEF UniqueInv
  <2>4. \A a, b \in Workers : \A k \in 1 .. Len(dq'[a]) : dq'[a][k] # task'[b]
    BY <2>1, <2>2 DEF UniqueInv
  <2>5. \A a, b \in Workers : \A k \in 1 .. Len(dq'[a]), j \in 1 .. Len(dq'[b]) :
          dq'[a][k] = dq'[b][j] => a = b /\ k = j
    BY <2>1 DEF UniqueInv
  <2> QED
    BY <2>3, <2>4, <2>5 DEF UniqueInv
<1> QED
  BY <1>1, <1>2, <1>3, <1>4, <1>5, StepKinds DEF MainCounts, WorkerCounts, Quiet

-----------------------------------------------------------------------------
(* Tasks enter the pool in order: a task before its children.              *)
LEMMA BirthAfterSame ==
  ASSUME BirthInv, \A y \in Tasks : InPool(y)' => InPool(y), submitted' = submitted,
         \A y \in Tasks : \A u \in Workers : \A k \in 1 .. Len(dq'[u]) : dq'[u][k] = y =>
            \E a \in Workers : \E j \in 1 .. Len(dq[a]) : dq[a][j] = y,
         \A y \in Tasks : \A u \in Workers : task'[u] = y =>
            \/ \E a \in Workers : \E j \in 1 .. Len(dq[a]) : dq[a][j] = y
            \/ task[u] = y /\ born'[u] = born[u]
  PROVE  BirthInv'
<1> SUFFICES ASSUME NEW x \in Tasks, InPool(x)'
             PROVE  /\ x[1] <= submitted'
                    /\ x[2] > 0 => /\ \A w \in Workers : \A k \in 1 .. Len(dq'[w]) : dq'[w][k] # <<x[1], 0>>
                                   /\ \A w \in Workers : task'[w] = <<x[1], 0>> => x[2] <= born'[w]
  BY DEF BirthInv
<1>1. /\ x[1] <= submitted
      /\ x[2] > 0 => /\ \A w \in Workers : \A k \in 1 .. Len(dq[w]) : dq[w][k] # <<x[1], 0>>
                     /\ \A w \in Workers : task[w] = <<x[1], 0>> => x[2] <= born[w]
  BY DEF BirthInv
<1>2. <<x[1], 0>> \in Tasks
  BY Constants DEF Tasks
<1> QED
  BY <1>1, <1>2

LEMMA BirthStep == StateInv /\ UniqueInv /\ BirthInv /\ [Next]_vars => BirthInv'
<1> SUFFICES ASSUME StateInv, UniqueInv, BirthInv, [Next]_vars PROVE BirthInv'
  OBVIOUS
<1>0. TypeInv
  BY DEF StateInv
<1> DEFINE Holds(x) == /\ x[1] <= submitted'
                       /\ x[2] > 0 => /\ \A u \in Workers : \A k \in 1 .. Len(dq'[u]) : dq'[u][k] # <<x[1], 0>>
                                      /\ \A u \in Workers : task'[u] = <<x[1], 0>> => x[2] <= born'[u]
<1>b. (\A x \in Tasks : InPool(x)' => Holds(x)) => BirthInv'
  BY DEF BirthInv
<1>c. \A x \in Tasks : InPool(x) =>
        /\ x[1] <= submitted
        /\ x[2] > 0 => /\ \A u \in Workers : \A k \in 1 .. Len(dq[u]) : dq[u][k] # <<x[1], 0>>
                       /\ \A u \in Workers : task[u] = <<x[1], 0>> => x[2] <= born[u]
  BY DEF BirthInv
<1>1. ASSUME NEW v \in Workers, MainPushes(v) PROVE BirthInv'
  <2> DEFINE y == <<submitted + 1, 0>>
  <2>1. PushedAt(v, y) /\ submitted' = submitted + 1 /\ born' = born /\ submitted \in Nat
    BY <1>0, <1>1 DEF MainPushes, TypeInv
  <2>2. y \in Tasks /\ ~ InPool(y)
    BY <1>1, FreshFromMain
  <2>3. ASSUME NEW x \in Tasks, InPool(x)' PROVE Holds(x)
    <3>1. InPool(x) \/ x = y
      BY <1>0, <2>1, <2>2, <2>3, PoolAfterPush
    <3>2. CASE x = y
      BY <2>1, <3>2
    <3>3. CASE InPool(x)
      <4>1. x[1] \in Nat /\ x[1] <= submitted
        BY <1>c, <3>3, Constants
      <4>2. y # <<x[1], 0>> /\ x[1] <= submitted'
        BY <2>1, <4>1
      <4>3. ASSUME x[2] > 0, NEW u \in Workers, NEW k \in 1 .. Len(dq'[u]) PROVE dq'[u][k] # <<x[1], 0>>
        BY <1>0, <1>c, <2>1, <2>2, <3>3, <4>2, <4>3, PlacesAfterPush
      <4>4. ASSUME x[2] > 0, NEW u \in Workers, task'[u] = <<x[1], 0>> PROVE x[2] <= born'[u]
        BY <1>c, <2>1, <3>3, <4>4 DEF PushedAt
      <4> QED
        BY <4>2, <4>3, <4>4
    <3> QED
      BY <3>1, <3>2, <3>3
  <2> QED
    BY <1>b, <2>3
<1>2. ASSUME NEW w \in Workers, NEW v \in Workers, WorkerPushes(w, v) PROVE BirthInv'
  <2> DEFINE y == <<task[w][1], born[w] + 1>>
  <2>1. /\ PushedAt(v, y) /\ submitted' = submitted
        /\ \A u \in Workers : born[u] \in Nat /\ born'[u] = IF u = w THEN born[w] + 1 ELSE born[u]
    BY <1>0, <1>2 DEF WorkerPushes, TypeInv
  <2>2. y \in Tasks /\ ~ InPool(y) /\ task[w] = <<task[w][1], 0>> /\ task[w] \in Tasks
    <3>1. y \in Tasks /\ ~ InPool(y) /\ task[w] = <<task[w][1], 0>>
      BY <1>2, FreshFromTask
    <3>2. task[w] \in Tasks
      BY <1>2 DEF WorkerPushes, StateInv, TypeInv, WorkerInv
    <3> QED
      BY <3>1, <3>2
  <2>3. ASSUME NEW x \in Tasks, InPool(x)' PROVE Holds(x)
    <3>1. InPool(x) \/ x = y
      BY <1>0, <2>1, <2>2, <2>3, PoolAfterPush
    <3>0. x[2] \in Nat /\ y[2] = born[w] + 1 /\ y[2] > 0 /\ y # <<x[1], 0>>
      BY <2>1, Constants
    <3>2. CASE x = y
      <4>1. x[1] <= submitted'
        <5>1. InPool(task[w])
          BY DEF InPool
        <5> QED
          BY <1>c, <2>1, <2>2, <3>2, <5>1
      <4>2. <<x[1], 0>> = task[w]
        BY <2>2, <3>2
      <4>3. ASSUME NEW u \in Workers, NEW k \in 1 .. Len(dq'[u]) PROVE dq'[u][k] # task[w]
        <5>1. task[w] # y
          BY <2>2, <3>2, <3>0, <4>2
        <5> QED
          BY <1>0, <2>1, <2>2, <5>1, PlacesAfterPush DEF UniqueInv
      <4>4. ASSUME NEW u \in Workers, task'[u] = task[w] PROVE x[2] <= born'[u]
        <5>1. u = w
          <6>1. task[u] = task[w] /\ task[w] # NoTask
            BY <2>1, <2>2, <4>4, Constants DEF PushedAt
          <6> QED
            BY <6>1 DEF UniqueInv
        <5> QED
          BY <2>1, <3>0, <3>2, <5>1
      <4> QED
        BY <4>1, <4>2, <4>3, <4>4
    <3>3. CASE InPool(x)
      <4>1. x[1] <= submitted'
        BY <1>c, <2>1, <3>3
      <4>3. ASSUME x[2] > 0, NEW u \in Workers, NEW k \in 1 .. Len(dq'[u]) PROVE dq'[u][k] # <<x[1], 0>>
        <5>1. (k \in 1 .. Len(dq[u]) /\ dq'[u][k] = dq[u][k]) \/ dq'[u][k] = y
          BY <1>0, <2>1, <2>2, PlacesAfterPush
        <5>2. \A j \in 1 .. Len(dq[u]) : dq[u][j] # <<x[1], 0>>
          BY <1>c, <3>3, <4>3
        <5> HIDE DEF y
        <5> QED
          BY <3>0, <5>1, <5>2
      <4>4. ASSUME x[2] > 0, NEW u \in Workers, task'[u] = <<x[1], 0>> PROVE x[2] <= born'[u]
        <5>1. task[u] = <<x[1], 0>>
          BY <2>1, <4>4 DEF PushedAt
        <5>2. x[2] <= born[u]
          BY <1>c, <3>3, <4>4, <5>1
        <5> QED
          BY <2>1, <3>0, <5>2
      <4> QED
        BY <4>1, <4>3, <4>4
    <3> QED
      BY <3>1, <3>2, <3>3
  <2> QED
    BY <1>b, <2>3
<1>3. ASSUME NEW w \in Workers, NEW v \in Workers, NEW s \in {0, 1}, Takes(w, v, s) PROVE BirthInv'
  <2>1. \A y \in Tasks : InPool(y)' => InPool(y)
    BY <1>0, <1>3, PoolAfterTake
  <2>2. /\ submitted' = submitted /\ born' = born /\ Place(v, s) \in 1 .. Len(dq[v])
        /\ \A u \in Workers : task'[u] = IF u = w THEN dq[v][Place(v, s)] ELSE task[u]
    <3>1. Place(v, s) \in 1 .. Len(dq[v])
      BY <1>0, <1>3, PlacesAfterTake
    <3>2. submitted' = submitted /\ born' = born /\ task' = [task EXCEPT ![w] = dq[v][Place(v, s)]]
      BY <1>3 DEF Takes
    <3> QED
      BY <1>0, <3>1, <3>2 DEF TypeInv
  <2>3. ASSUME NEW u \in Workers, NEW k \in 1 .. Len(dq'[u])
        PROVE  \E a \in Workers : \E j \in 1 .. Len(dq[a]) : dq[a][j] = dq'[u][k]
    <3>1. CASE u = v
      <4>1. k + s \in 1 .. Len(dq[v]) /\ dq'[v][k] = dq[v][k + s]
        BY <1>0, <1>3, <3>1, PlacesAfterTake
      <4> QED
        BY <3>1, <4>1
    <3>2. CASE u # v
      BY <1>0, <1>3, <3>2, PlacesAfterTake
    <3> QED
      BY <3>1, <3>2
  <2>4. ASSUME NEW u \in Workers
        PROVE  \/ \E a \in Workers : \E j \in 1 .. Len(dq[a]) : dq[a][j] = task'[u]
               \/ task[u] = task'[u] /\ born'[u] = born[u]
    BY <2>2
  <2>5. \A y \in Tasks : \A u \in Workers : \A k \in 1 .. Len(dq'[u]) : dq'[u][k] = y =>
          \E a \in Workers : \E j \in 1 .. Len(dq[a]) : dq[a][j] = y
    BY <2>3
  <2>6. \A y \in Tasks : \A u \in Workers : task'[u] = y =>
          \/ \E a \in Workers : \E j \in 1 .. Len(dq[a]) : dq[a][j] = y
          \/ task[u] = y /\ born'[u] = born[u]
    BY <2>4
  <2>7. submitted' = submitted
    BY <2>2
  <2> QED
    BY <2>1, <2>5, <2>6, <2>7, BirthAfterSame
<1>4. ASSUME UNCHANGED <<dq, task, born, submitted>> PROVE BirthInv'
  BY <1>4 DEF BirthInv, InPool
<1>5. ASSUME NEW w \in Workers, Ran(w) PROVE BirthInv'
  <2>1. /\ dq' = dq /\ submitted' = submitted
        /\ \A u \in Workers : task'[u] = IF u = w THEN NoTask ELSE task[u]
        /\ \A u \in Workers : u # w => born'[u] = born[u]
    BY <1>0, <1>5 DEF Ran, TypeInv
  <2>2. ASSUME NEW y \in Tasks, InPool(y)' PROVE InPool(y)
    <3>1. CASE \E u \in Workers : \E k \in 1 .. Len(dq'[u]) : dq'[u][k] = y
      BY <2>1, <3>1 DEF InPool
    <3>2. CASE \E u \in Workers : task'[u] = y
      BY <2>1, <3>2, Constants DEF InPool
    <3> QED
      BY <2>2, <3>1, <3>2 DEF InPool
  <2>3. \A y \in Tasks : \A u \in Workers : task'[u] = y => task[u] = y /\ born'[u] = born[u]
    BY <2>1, Constants
  <2> QED
    BY <2>1, <2>2, <2>3, BirthAfterSame
<1> QED
  BY <1>1, <1>2, <1>3, <1>4, <1>5, StepKinds DEF MainCounts, WorkerCounts, Quiet

-----------------------------------------------------------------------------
(* The sets that QueuedCount, HeldCount and Uncounted count. *)
Slots == {x \in Workers \X (1 .. Cardinality(Tasks)) : x[2] <= Len(dq[x[1]])}
Holders == {w \in Workers : task[w] # NoTask}
Counting == {w \in Workers : pc[w] = "count"}

LEMMA FiniteParts ==
  /\ IsFiniteSet(Tasks) /\ Cardinality(Tasks) \in Nat
  /\ IsFiniteSet(Slots) /\ QueuedCount = Cardinality(Slots) /\ QueuedCount \in Nat
  /\ IsFiniteSet(Holders) /\ HeldCount = Cardinality(Holders) /\ HeldCount \in Nat
  /\ IsFiniteSet(Counting) /\ Cardinality(Counting) \in Nat
<1>1. IsFiniteSet(Workers)
  <2>1. 0 \in Int /\ N - 1 \in Int
    BY Constants
  <2> QED
    BY <2>1, FS_Interval DEF Workers
<1>2. IsFiniteSet(Tasks) /\ Cardinality(Tasks) \in Nat
  <2>0. 0 \in Int /\ 1 \in Int /\ NTasks \in Int /\ NNested \in Int
    BY Constants
  <2>1. IsFiniteSet(1 .. NTasks) /\ IsFiniteSet(0 .. NNested)
    BY <2>0, FS_Interval
  <2>2. IsFiniteSet(Tasks)
    BY <2>1, FS_Product DEF Tasks
  <2> QED
    BY <2>2, FS_CardinalityType
<1>3. IsFiniteSet(Slots)
  <2>1. IsFiniteSet(1 .. Cardinality(Tasks))
    BY <1>2, FS_Interval
  <2>2. IsFiniteSet(Workers \X (1 .. Cardinality(Tasks)))
    BY <1>1, <2>1, FS_Product
  <2>3. Slots \in SUBSET (Workers \X (1 .. Cardinality(Tasks)))
    BY DEF Slots
  <2> QED
    BY <2>2, <2>3, FS_Subset
<1>4. IsFiniteSet(Holders)
  <2>1. Holders \in SUBSET Workers
    BY DEF Holders
  <2> QED
    BY <1>1, <2>1, FS_Subset
<1>5. IsFiniteSet(Counting)
  <2>1. Counting \in SUBSET Workers
    BY DEF Counting
  <2> QED
    BY <1>1, <2>1, FS_Subset
<1>6. QueuedCount = Cardinality(Slots) /\ HeldCount = Cardinality(Holders)
  BY DEF QueuedCount, HeldCount, Slots, Holders
<1>7. Cardinality(Slots) \in Nat /\ Cardinality(Holders) \in Nat /\ Cardinality(Counting) \in Nat
  BY <1>3, <1>4, <1>5, FS_CardinalityType
<1> QED
  BY <1>2, <1>3, <1>4, <1>5, <1>6, <1>7

(* No deque is longer than there are tasks. *)
LEMMA DequeBound == TypeInv /\ UniqueInv => \A w \in Workers : Len(dq[w]) \in 0 .. Cardinality(Tasks)
<1> SUFFICES ASSUME TypeInv, UniqueInv, NEW w \in Workers PROVE Len(dq[w]) \in 0 .. Cardinality(Tasks)
  OBVIOUS
<1>1. dq[w] \in Seq(Tasks) /\ Len(dq[w]) \in Nat
  BY LenProperties DEF TypeInv
<1> DEFINE f == [k \in 1 .. Len(dq[w]) |-> dq[w][k]]
<1>2. f \in [1 .. Len(dq[w]) -> Tasks]
  BY <1>1, ElementOfSeq
<1>3. \A k, j \in 1 .. Len(dq[w]) : f[k] = f[j] => k = j
  BY DEF UniqueInv
<1>4. f \in Injection(1 .. Len(dq[w]), Tasks)
  BY <1>2, <1>3 DEF Injection, IsInjective
<1>5. Cardinality(1 .. Len(dq[w])) <= Cardinality(Tasks)
  BY <1>4, FiniteParts, FS_Injection
<1>6. Cardinality(1 .. Len(dq[w])) = Len(dq[w])
  <2>1. \A m \in Nat : 1 \in Int /\ m \in Int /\ (IF 1 > m THEN 0 ELSE m - 1 + 1) = m
    OBVIOUS
  <2> QED
    BY <1>1, <2>1, FS_Interval
<1> QED
  BY <1>1, <1>5, <1>6, FiniteParts

LEMMA CountAfterPush ==
  ASSUME TypeInv, TypeInv', UniqueInv', NEW v \in Workers, NEW x \in Tasks, PushedAt(v, x)
  PROVE  QueuedCount' = QueuedCount + 1 /\ HeldCount' = HeldCount
<1> DEFINE e == <<v, Len(dq[v]) + 1>>
<1>1. \A u \in Workers : Len(dq'[u]) = IF u = v THEN Len(dq[v]) + 1 ELSE Len(dq[u])
  BY PlacesAfterPush
<1>2. \A u \in Workers : Len(dq'[u]) \in 0 .. Cardinality(Tasks)
  <2>1. (\A w \in Workers : Len(dq[w]) \in 0 .. Cardinality(Tasks))'
    BY DequeBound, PTL
  <2> QED
    BY <2>1
<1>3. \A u \in Workers : Len(dq[u]) \in Nat
  BY LenProperties DEF TypeInv
<1>4. e \in Workers \X (1 .. Cardinality(Tasks)) /\ e \notin Slots
  BY <1>1, <1>2, <1>3 DEF Slots
<1>5. ASSUME NEW y \in Workers \X (1 .. Cardinality(Tasks))
      PROVE  y[2] <= Len(dq'[y[1]]) <=> y[2] <= Len(dq[y[1]]) \/ y = e
  <2>1. y[1] \in Workers /\ y[2] \in Nat /\ y = <<y[1], y[2]>>
    BY <1>5, FiniteParts
  <2>2. CASE y[1] = v
    BY <1>1, <1>3, <2>1, <2>2
  <2>3. CASE y[1] # v
    BY <1>1, <2>1, <2>3
  <2> QED
    BY <2>2, <2>3
<1>6. Slots' = Slots \cup {e}
  BY <1>4, <1>5 DEF Slots
<1>7. Cardinality(Slots') = Cardinality(Slots) + 1
  BY <1>4, <1>6, FiniteParts, FS_AddElement
<1>8. QueuedCount' = Cardinality(Slots') /\ QueuedCount = Cardinality(Slots)
  BY DEF QueuedCount, Slots
<1>9. HeldCount' = HeldCount
  BY DEF HeldCount, PushedAt
<1> QED
  BY <1>7, <1>8, <1>9

LEMMA CountAfterTake ==
  ASSUME TypeInv, UniqueInv, NEW w \in Workers, NEW v \in Workers, NEW s \in {0, 1}, Takes(w, v, s)
  PROVE  QueuedCount' = QueuedCount - 1 /\ HeldCount' = HeldCount + 1
<1> DEFINE e == <<v, Len(dq[v])>>
<1>1. /\ Len(dq'[v]) = Len(dq[v]) - 1 /\ Place(v, s) \in 1 .. Len(dq[v]) /\ dq[v][Place(v, s)] \in Tasks
      /\ \A u \in Workers \ {v} : dq'[u] = dq[u]
  BY PlacesAfterTake
<1>2. Len(dq[v]) \in 1 .. Cardinality(Tasks)
  BY <1>1, DequeBound
<1>4. e \in Slots
  BY <1>2 DEF Slots
<1>5. ASSUME NEW y \in Workers \X (1 .. Cardinality(Tasks))
      PROVE  y[2] <= Len(dq'[y[1]]) <=> y[2] <= Len(dq[y[1]]) /\ y # e
  <2>1. y[1] \in Workers /\ y[2] \in Nat /\ y = <<y[1], y[2]>>
    BY <1>5, FiniteParts
  <2>2. CASE y[1] = v
    BY <1>1, <1>2, <2>1, <2>2
  <2>3. CASE y[1] # v
    BY <1>1, <2>1, <2>3
  <2> QED
    BY <2>2, <2>3
<1>6. Slots' = Slots \ {e}
  BY <1>5 DEF Slots
<1>7. Cardinality(Slots') = Cardinality(Slots) - 1
  BY <1>4, <1>6, FiniteParts, FS_RemoveElement
<1>8. QueuedCount' = Cardinality(Slots') /\ QueuedCount = Cardinality(Slots)
  BY DEF QueuedCount, Slots
<1>9. Holders' = Holders \cup {w} /\ w \notin Holders
  <2>1. \A u \in Workers : task'[u] = IF u = w THEN dq[v][Place(v, s)] ELSE task[u]
    BY DEF Takes, TypeInv
  <2>2. dq[v][Place(v, s)] # NoTask /\ task[w] = NoTask
    BY <1>1, Constants DEF Takes
  <2> QED
    BY <2>1, <2>2 DEF Holders
<1>10. Cardinality(Holders') = Cardinality(Holders) + 1
  BY <1>9, FiniteParts, FS_AddElement
<1>11. HeldCount' = Cardinality(Holders') /\ HeldCount = Cardinality(Holders)
  BY DEF HeldCount, Holders
<1> QED
  BY <1>7, <1>8, <1>10, <1>11

-----------------------------------------------------------------------------
(* pending_ lags behind by the submissions not counted yet. *)
MainCounting == IF main_ = "count" THEN 1 ELSE 0

LEMMA LagSum ==
  /\ Uncounted = Cardinality(Counting) + MainCounting
  /\ MainCounting \in {0, 1} /\ QueuedCount \in Nat /\ HeldCount \in Nat /\ Cardinality(Counting) \in Nat
BY FiniteParts DEF Uncounted, Counting, MainCounting

LEMMA LagKept ==
  ASSUME TypeInv, TypeInv', PendingLags,
         NEW a \in Int, NEW b \in Int, NEW c \in Int, NEW d \in Int, NEW e \in Int,
         pending_' = pending_ + a, Cardinality(Counting)' = Cardinality(Counting) + b,
         MainCounting' = MainCounting + c, QueuedCount' = QueuedCount + d, HeldCount' = HeldCount + e,
         a + b + c = d + e
  PROVE  PendingLags'
<1>1. /\ Uncounted = Cardinality(Counting) + MainCounting
      /\ MainCounting \in {0, 1} /\ QueuedCount \in Nat /\ HeldCount \in Nat /\ Cardinality(Counting) \in Nat
  BY LagSum
<1>2. Uncounted' = Cardinality(Counting)' + MainCounting'
  BY DEF Uncounted, Counting, MainCounting
<1>3. pending_ + Cardinality(Counting) + MainCounting = QueuedCount + HeldCount /\ pending_ \in Int
  BY <1>1 DEF PendingLags, TypeInv
<1>4. pending_' + (Cardinality(Counting)' + MainCounting') = QueuedCount' + HeldCount'
  BY <1>1, <1>3
<1> QED
  BY <1>2, <1>4 DEF PendingLags

LEMMA PendingStep ==
  StateInv /\ StateInv' /\ UniqueInv /\ UniqueInv' /\ BirthInv /\ PendingLags /\ [Next]_vars => PendingLags'
<1> SUFFICES ASSUME StateInv, StateInv', UniqueInv, UniqueInv', BirthInv, PendingLags, [Next]_vars
             PROVE  PendingLags'
  OBVIOUS
<1>0. TypeInv /\ TypeInv' /\ WorkerInv
  BY DEF StateInv
<1> DEFINE Q == QueuedCount
           H == HeldCount
           C == Cardinality(Counting)
<1>n. Q \in Nat /\ H \in Nat /\ C \in Nat /\ MainCounting \in {0, 1} /\ pending_ \in Int
  BY <1>0, LagSum DEF TypeInv
<1>d. /\ dq' = dq => Q' = Q
      /\ task' = task => H' = H
      /\ main_' = main_ => MainCounting' = MainCounting
      /\ pc' = pc => C' = C
  BY DEF QueuedCount, HeldCount, MainCounting, Counting
<1>k. ASSUME NEW a \in Int, NEW b \in Int, NEW c \in Int, NEW d \in Int, NEW e \in Int,
             pending_' = pending_ + a, C' = C + b, MainCounting' = MainCounting + c, Q' = Q + d, H' = H + e,
             a + b + c = d + e
      PROVE  PendingLags'
  BY <1>0, <1>k, LagKept
<1> HIDE DEF Q, H, C
<1>1. ASSUME NEW v \in Workers, MainPushes(v) PROVE PendingLags'
  <2>1. PushedAt(v, <<submitted + 1, 0>>) /\ <<submitted + 1, 0>> \in Tasks
    BY <1>1, FreshFromMain DEF MainPushes
  <2>2. Q' = Q + 1 /\ H' = H
    BY <1>0, <2>1, CountAfterPush DEF Q, H
  <2>3. MainCounting' = MainCounting + 1 /\ pending_' = pending_ /\ C' = C
    BY <1>1, <1>d DEF MainPushes, MainCounting
  <2> QED
    BY <1>k, <1>n, <2>2, <2>3
<1>2. ASSUME NEW w \in Workers, NEW v \in Workers, WorkerPushes(w, v) PROVE PendingLags'
  <2>1. PushedAt(v, <<task[w][1], born[w] + 1>>) /\ <<task[w][1], born[w] + 1>> \in Tasks
    BY <1>2, FreshFromTask DEF WorkerPushes
  <2>2. Q' = Q + 1 /\ H' = H
    BY <1>0, <2>1, CountAfterPush DEF Q, H
  <2>3. Counting' = Counting \cup {w} /\ w \notin Counting
    BY <1>0, <1>2 DEF WorkerPushes, Counting, TypeInv
  <2>4. C' = C + 1
    BY <2>3, FiniteParts, FS_AddElement DEF C
  <2>5. MainCounting' = MainCounting /\ pending_' = pending_
    BY <1>2, <1>d DEF WorkerPushes
  <2> QED
    BY <1>k, <1>n, <2>2, <2>4, <2>5
<1>3. ASSUME NEW w \in Workers, NEW v \in Workers, NEW s \in {0, 1}, Takes(w, v, s) PROVE PendingLags'
  <2>1. Q' = Q - 1 /\ H' = H + 1
    BY <1>0, <1>3, CountAfterTake DEF Q, H
  <2>2. Counting' = Counting
    BY <1>0, <1>3 DEF Takes, Counting, TypeInv
  <2>3. MainCounting' = MainCounting /\ pending_' = pending_ /\ C' = C
    BY <1>3, <1>d, <2>2 DEF Takes, C
  <2> QED
    BY <1>k, <1>n, <2>1, <2>3
<1>4. ASSUME MainCounts PROVE PendingLags'
  <2>1. MainCounting' = MainCounting - 1 /\ pending_' = pending_ + 1
    BY <1>4 DEF MainCounts, MainCounting
  <2>2. C' = C /\ Q' = Q /\ H' = H
    BY <1>4, <1>d DEF MainCounts
  <2> QED
    BY <1>k, <1>n, <2>1, <2>2
<1>5. ASSUME NEW w \in Workers, WorkerCounts(w) PROVE PendingLags'
  <2>1. Counting' = Counting \ {w} /\ w \in Counting
    BY <1>0, <1>5 DEF WorkerCounts, Counting, TypeInv
  <2>2. C' = C - 1
    BY <2>1, FiniteParts, FS_RemoveElement DEF C
  <2>3. MainCounting' = MainCounting /\ pending_' = pending_ + 1 /\ Q' = Q /\ H' = H
    BY <1>5, <1>d DEF WorkerCounts
  <2> QED
    BY <1>k, <1>n, <2>2, <2>3
<1>6. ASSUME NEW w \in Workers, Ran(w) PROVE PendingLags'
  <2>1. Holders' = Holders \ {w} /\ w \in Holders
    BY <1>0, <1>6 DEF Ran, Goto, Holders, TypeInv, WorkerInv
  <2>2. Cardinality(Holders') = Cardinality(Holders) - 1
    BY <2>1, FiniteParts, FS_RemoveElement
  <2>3. H' = H - 1
    BY <2>2 DEF H, HeldCount, Holders
  <2>4. Counting' = Counting
    BY <1>0, <1>6 DEF Ran, Goto, Counting, TypeInv
  <2>5. MainCounting' = MainCounting /\ pending_' = pending_ - 1 /\ Q' = Q /\ C' = C
    BY <1>6, <1>d, <2>4 DEF Ran, C
  <2> QED
    BY <1>k, <1>n, <2>3, <2>5
<1>7. ASSUME Quiet PROVE PendingLags'
  <2>1. Counting' = Counting /\ MainCounting' = MainCounting
    BY <1>7 DEF Quiet, Counting, MainCounting
  <2>2. pending_' = pending_ /\ Q' = Q /\ H' = H /\ C' = C
    BY <1>7, <1>d, <2>1 DEF Quiet, C
  <2> QED
    BY <1>k, <1>n, <2>1, <2>2
<1> QED
  BY <1>1, <1>2, <1>3, <1>4, <1>5, <1>6, <1>7, StepKinds

-----------------------------------------------------------------------------
(* When pending_ falls to 0 in the destructor's loop, the deques are empty *)
(* and every task still held has pushed a child it has not counted.        *)
LEMMA CountingHold ==
  ASSUME WorkerInv
  PROVE  Counting \subseteq Holders /\ Cardinality(Counting) <= HeldCount
<1>1. Counting \in SUBSET Holders
  BY DEF WorkerInv, Counting, Holders
<1> QED
  BY <1>1, FiniteParts, FS_Subset

LEMMA AtDrain ==
  ASSUME StateInv, UniqueInv, PendingLags, main_ = "drain", pending_ <= 0
  PROVE  /\ \A w \in Workers : Len(dq[w]) = 0
         /\ \A w \in Workers : Children(w) > 0 => born[w] > 0
<1>0. TypeInv /\ WorkerInv
  BY DEF StateInv
<1>1. /\ pending_ + Cardinality(Counting) = QueuedCount + HeldCount /\ pending_ \in Int
      /\ QueuedCount \in Nat /\ HeldCount \in Nat /\ Cardinality(Counting) \in Nat
  <2>1. MainCounting = 0
    BY DEF MainCounting
  <2> QED
    BY <1>0, <2>1, LagSum DEF PendingLags, TypeInv
<1>2. QueuedCount = 0 /\ Cardinality(Counting) = HeldCount
  <2>1. Cardinality(Counting) <= HeldCount
    BY <1>0, CountingHold
  <2> QED
    BY <1>1, <2>1
<1>3. Slots = {}
  BY <1>2, FiniteParts, FS_EmptySet
<1>4. Counting = Holders
  <2>1. Counting \in SUBSET Holders
    BY <1>0, CountingHold
  <2> QED
    BY <1>2, <2>1, FiniteParts, FS_Subset
<1>5. ASSUME NEW w \in Workers PROVE Len(dq[w]) = 0
  <2>1. Len(dq[w]) \in 0 .. Cardinality(Tasks) /\ Cardinality(Tasks) \in Nat
    BY <1>0, DequeBound, FiniteParts
  <2>2. <<w, 1>> \notin Slots
    BY <1>3
  <2>3. ~ (1 \in 1 .. Cardinality(Tasks) /\ 1 <= Len(dq[w]))
    BY <2>2 DEF Slots
  <2> QED
    BY <2>1, <2>3
<1>6. ASSUME NEW w \in Workers, Children(w) > 0 PROVE born[w] > 0
  <2>1. task[w] # NoTask
    BY <1>6, Constants DEF Children, NoTask
  <2>2. pc[w] = "count"
    BY <1>4, <2>1 DEF Counting, Holders
  <2> QED
    BY <1>0, <2>2 DEF WorkerInv
<1> QED
  BY <1>5, <1>6

LEMMA ChildlessTask ==
  ASSUME NEW w \in Workers, NEW x \in Tasks, x[2] >= 2, task'[w] = x
  PROVE  Children(w)' = 0
<1>1. task'[w][2] # 0
  OBVIOUS
<1> QED
  BY <1>1 DEF Children

LEMMA LateStep ==
  StateInv /\ UniqueInv /\ BirthInv /\ PendingLags /\ LateInv /\ [Next]_vars => LateInv'
<1> SUFFICES ASSUME StateInv, UniqueInv, BirthInv, PendingLags, LateInv, [Next]_vars,
                    main_' \in {"stop", "join", "done"}
             PROVE  /\ \A w \in Workers : \A k \in 1 .. Len(dq'[w]) : dq'[w][k][1] \in Nests /\ dq'[w][k][2] >= 2
                    /\ \A w \in Workers : Children(w)' > 0 => born'[w] > 0
  BY DEF LateInv
<1> DEFINE Goal == /\ \A w \in Workers : \A k \in 1 .. Len(dq'[w]) : dq'[w][k][1] \in Nests /\ dq'[w][k][2] >= 2
                   /\ \A w \in Workers : Children(w)' > 0 => born'[w] > 0
<1>0. TypeInv /\ WorkerInv
  BY DEF StateInv
<1>s. ASSUME UNCHANGED <<dq, task, born>>,
             \A w \in Workers : \A k \in 1 .. Len(dq[w]) : dq[w][k][1] \in Nests /\ dq[w][k][2] >= 2,
             \A w \in Workers : Children(w) > 0 => born[w] > 0
      PROVE  Goal
  BY <1>s DEF Children
<1>1. CASE main_ \notin {"stop", "join", "done"}
  <2>1. Drain
    BY <1>0, <1>1 DEF Next, Main, Submit, Stop, Join, Worker, Loop, PopLocal, StealFrom, Idle, NestedPush,
                      NestedCount, Ran, Terminating, vars, TypeInv
  <2>2. main_ = "drain" /\ pending_ <= 0 /\ UNCHANGED <<dq, task, born>>
    BY <2>1 DEF Drain
  <2>3. /\ \A w \in Workers : Len(dq[w]) = 0
        /\ \A w \in Workers : Children(w) > 0 => born[w] > 0
    BY <2>2, AtDrain
  <2>4. \A w \in Workers : \A k \in 1 .. Len(dq[w]) : dq[w][k][1] \in Nests /\ dq[w][k][2] >= 2
    BY <2>3
  <2> QED
    BY <1>s, <2>2, <2>3, <2>4
<1>2. CASE main_ \in {"stop", "join", "done"}
  <2>0. /\ \A w \in Workers : \A k \in 1 .. Len(dq[w]) : dq[w][k][1] \in Nests /\ dq[w][k][2] >= 2
        /\ \A w \in Workers : Children(w) > 0 => born[w] > 0
    BY <1>2 DEF LateInv
  <2>1. ASSUME NEW w \in Workers, NEW v \in Workers, WorkerPushes(w, v) PROVE Goal
    <3> DEFINE x == <<task[w][1], born[w] + 1>>
    <3>1. /\ PushedAt(v, x) /\ x \in Tasks /\ born[w] < Children(w)
          /\ \A u \in Workers : born[u] \in Nat /\ born'[u] = IF u = w THEN born[w] + 1 ELSE born[u]
      <4>1. x \in Tasks
        BY <2>1, FreshFromTask
      <4>2. PushedAt(v, x) /\ born[w] < Children(w) /\ born' = [born EXCEPT ![w] = born[w] + 1]
        BY <2>1 DEF WorkerPushes
      <4> HIDE DEF x
      <4> QED
        BY <1>0, <4>1, <4>2 DEF TypeInv
    <3>2. x[1] \in Nests /\ x[2] >= 2
      <4>1. Children(w) > 0
        BY <3>1, ChildrenType
      <4>2. born[w] > 0
        BY <2>0, <4>1
      <4> QED
        BY <3>1, <4>1, <4>2 DEF Children
    <3>3. ASSUME NEW u \in Workers, NEW k \in 1 .. Len(dq'[u]) PROVE dq'[u][k][1] \in Nests /\ dq'[u][k][2] >= 2
      <4>1. (k \in 1 .. Len(dq[u]) /\ dq'[u][k] = dq[u][k]) \/ dq'[u][k] = x
        BY <1>0, <3>1, PlacesAfterPush
      <4> HIDE DEF x
      <4> QED
        BY <2>0, <3>2, <4>1
    <3>4. ASSUME NEW u \in Workers, Children(u)' > 0 PROVE born'[u] > 0
      <4>1. Children(u) > 0
        BY <3>1, <3>4 DEF Children, PushedAt
      <4> QED
        BY <2>0, <3>1, <4>1
    <3> QED
      BY <3>3, <3>4
  <2>2. ASSUME NEW w \in Workers, NEW v \in Workers, NEW s \in {0, 1}, Takes(w, v, s) PROVE Goal
    <3>1. /\ born' = born /\ Place(v, s) \in 1 .. Len(dq[v]) /\ dq[v][Place(v, s)] \in Tasks
          /\ \A u \in Workers : task'[u] = IF u = w THEN dq[v][Place(v, s)] ELSE task[u]
      <4>1. Place(v, s) \in 1 .. Len(dq[v]) /\ dq[v][Place(v, s)] \in Tasks
        BY <1>0, <2>2, PlacesAfterTake
      <4>2. born' = born /\ task' = [task EXCEPT ![w] = dq[v][Place(v, s)]]
        BY <2>2 DEF Takes
      <4> QED
        BY <1>0, <4>1, <4>2 DEF TypeInv
    <3>2. ASSUME NEW u \in Workers, NEW k \in 1 .. Len(dq'[u]) PROVE dq'[u][k][1] \in Nests /\ dq'[u][k][2] >= 2
      <4>1. CASE u = v
        <5>1. k \in 1 .. Len(dq'[v])
          BY <4>1
        <5>2. k + s \in 1 .. Len(dq[v]) /\ dq'[v][k] = dq[v][k + s]
          BY <1>0, <2>2, <5>1, PlacesAfterTake
        <5> QED
          BY <2>0, <4>1, <5>2
      <4>2. CASE u # v
        <5>1. dq'[u] = dq[u]
          BY <1>0, <2>2, <4>2, PlacesAfterTake
        <5> QED
          BY <2>0, <5>1
      <4> QED
        BY <4>1, <4>2
    <3>3. ASSUME NEW u \in Workers, Children(u)' > 0 PROVE born'[u] > 0
      <4>1. CASE u = w
        <5>1. dq[v][Place(v, s)][2] >= 2
          BY <2>0, <3>1
        <5>2. Children(u)' = 0
          BY <3>1, <4>1, <5>1, ChildlessTask
        <5> QED
          BY <3>3, <5>2
      <4>2. CASE u # w
        <5>1. Children(u)' = Children(u)
          BY <3>1, <4>2 DEF Children
        <5> QED
          BY <2>0, <3>1, <3>3, <5>1
      <4> QED
        BY <4>1, <4>2
    <3> QED
      BY <3>2, <3>3
  <2>3. ASSUME NEW w \in Workers, Ran(w) PROVE Goal
    <3>1. /\ dq' = dq /\ \A u \in Workers : task'[u] = IF u = w THEN NoTask ELSE task[u]
          /\ \A u \in Workers : u # w => born'[u] = born[u]
      BY <1>0, <2>3 DEF Ran, TypeInv
    <3>2. ASSUME NEW u \in Workers, Children(u)' > 0 PROVE born'[u] > 0
      <4>1. CASE u = w
        <5>1. Children(u)' = 0
          BY <3>1, <4>1, Constants DEF Children, NoTask
        <5> QED
          BY <3>2, <5>1
      <4>2. CASE u # w
        <5>1. Children(u)' = Children(u)
          BY <3>1, <4>2 DEF Children
        <5> QED
          BY <2>0, <3>1, <3>2, <4>2, <5>1
      <4> QED
        BY <4>1, <4>2
    <3> QED
      BY <2>0, <3>1, <3>2
  <2>4. CASE UNCHANGED <<dq, task, born>>
    BY <1>s, <2>0, <2>4
  <2> QED
    BY <1>2, <2>1, <2>2, <2>3, <2>4, StepKinds DEF MainPushes, MainCounts, WorkerCounts, Quiet
<1> QED
  BY <1>1, <1>2

LEMMA JoinStep == TypeInv /\ JoinInv /\ [Next]_vars => JoinInv'
<1> SUFFICES ASSUME TypeInv, JoinInv, [Next]_vars, main_' = "done" PROVE \A w \in Workers : pc'[w] = "exit"
  BY DEF JoinInv
<1>1. CASE main_ = "done"
  <2>1. \A w \in Workers : pc[w] = "exit"
    BY <1>1 DEF JoinInv
  <2>2. UNCHANGED vars
    BY <1>1, <2>1 DEF Next, Main, Submit, Drain, Stop, Join, Worker, Loop, PopLocal, StealFrom, Idle, NestedPush,
                      NestedCount, Ran, Goto, Terminating
  <2> QED
    BY <2>1, <2>2 DEF vars
<1>2. CASE main_ # "done"
  <2>1. Join
    BY <1>2 DEF Next, Main, Submit, Drain, Stop, Worker, Loop, PopLocal, StealFrom, Idle, NestedPush,
                NestedCount, Ran, Terminating, vars
  <2> QED
    BY <2>1 DEF Join
<1> QED
  BY <1>1, <1>2

-----------------------------------------------------------------------------
(* Init establishes the inductive invariant, every step keeps it. *)
LEMMA InitInv == Init => IInv
<1> SUFFICES ASSUME Init PROVE IInv
  OBVIOUS
<1> USE DEF Init
<1>1. TypeInv
  <2>1. << >> \in Seq(Tasks) /\ dq \in [Workers -> Seq(Tasks)]
    BY EmptySeq
  <2>2. 0 \in 0 .. N /\ 0 \in 0 .. NTasks /\ 0 \in 0 .. NNested /\ 0 < NTasks /\ 0 \in - IntMax - 1 .. IntMax
    BY Constants
  <2>3. pc \in [Workers -> {"loop", "pop", "steal", "run", "count", "exit"}]
    OBVIOUS
  <2>6. tries \in [Workers -> 0 .. N] /\ born \in [Workers -> 0 .. NNested]
    BY <2>2
  <2>7. task \in [Workers -> Tasks \cup {NoTask}]
    OBVIOUS
  <2>8. stop_ \in BOOLEAN
    OBVIOUS
  <2>4. pending_ \in Int /\ submitted \in 0 .. NTasks /\ submitted < NTasks
    BY <2>2
  <2>5. main_ \in {"submit", "count", "drain", "stop", "join", "done"} /\ rr \in - IntMax - 1 .. IntMax
    BY <2>2
  <2> QED
    BY <2>1, <2>3, <2>4, <2>5, <2>6, <2>7, <2>8 DEF TypeInv
<1>2. WorkerInv
  BY Constants DEF WorkerInv, Children, NoTask
<1>3. \A w \in Workers : Len(dq[w]) = 0
  BY EmptySeq
<1>4. UniqueInv
  BY <1>3 DEF UniqueInv
<1>5. BirthInv
  BY <1>3, Constants DEF BirthInv, InPool
<1>6. PendingLags
  <2>1. Slots = {}
    BY <1>3, FiniteParts DEF Slots
  <2>2. Holders = {} /\ Counting = {} /\ MainCounting = 0
    BY DEF Holders, Counting, MainCounting
  <2>3. QueuedCount = 0 /\ HeldCount = 0 /\ Cardinality(Counting) = 0
    BY <2>1, <2>2, FiniteParts, FS_EmptySet
  <2>4. Uncounted = 0
    BY <2>2, <2>3, LagSum
  <2> QED
    BY <2>3, <2>4 DEF PendingLags
<1>7. JoinInv /\ LateInv
  BY DEF JoinInv, LateInv
<1> QED
  BY <1>1, <1>2, <1>4, <1>5, <1>6, <1>7 DEF IInv, StateInv

LEMMA NextInv == IInv /\ [Next]_vars => IInv'
<1> SUFFICES ASSUME IInv, [Next]_vars PROVE IInv'
  OBVIOUS
<1>1. StateInv /\ UniqueInv /\ BirthInv /\ PendingLags /\ JoinInv /\ LateInv /\ TypeInv
  BY DEF IInv, StateInv
<1>2. StateInv'
  BY <1>1, TypeStep, WorkerStep DEF StateInv
<1>3. UniqueInv' /\ BirthInv'
  BY <1>1, UniqueStep, BirthStep
<1>4. PendingLags'
  BY <1>1, <1>2, <1>3, PendingStep
<1>5. JoinInv' /\ LateInv'
  BY <1>1, JoinStep, LateStep
<1> QED
  BY <1>2, <1>3, <1>4, <1>5 DEF IInv

LEMMA Invariance == Spec => []IInv
BY InitInv, NextInv, PTL DEF Spec

-----------------------------------------------------------------------------
(* Counting the tasks in the pool by their places loses none of them.      *)
LEMMA PlacesCount ==
  ASSUME IInv
  PROVE  /\ IsFiniteSet(Queued \cup Held) /\ Queued \cup Held \subseteq Tasks
         /\ Cardinality(Queued \cup Held) = QueuedCount + HeldCount
<1>0. TypeInv /\ WorkerInv /\ UniqueInv
  BY DEF IInv, StateInv
<1>l. \A w \in Workers : /\ dq[w] \in Seq(Tasks) /\ Len(dq[w]) \in 0 .. Cardinality(Tasks)
                         /\ DOMAIN dq[w] = 1 .. Len(dq[w])
  <2> SUFFICES ASSUME NEW w \in Workers
               PROVE  /\ dq[w] \in Seq(Tasks) /\ Len(dq[w]) \in 0 .. Cardinality(Tasks)
                      /\ DOMAIN dq[w] = 1 .. Len(dq[w])
    OBVIOUS
  <2>1. dq[w] \in Seq(Tasks)
    BY <1>0 DEF TypeInv
  <2> QED
    BY <1>0, <2>1, DequeBound, LenProperties
<1>q. \A y : y \in Queued <=> \E w \in Workers : \E k \in 1 .. Len(dq[w]) : dq[w][k] = y
  BY <1>l DEF Queued, OnDeque
<1>1. IsFiniteSet(Queued) /\ Cardinality(Queued) = QueuedCount
  <2> DEFINE f == [x \in Slots |-> dq[x[1]][x[2]]]
  <2>1. \A x \in Slots : x = <<x[1], x[2]>> /\ x[1] \in Workers /\ x[2] \in 1 .. Len(dq[x[1]])
    BY <1>l, FiniteParts DEF Slots
  <2>2. \A w \in Workers : \A k \in 1 .. Len(dq[w]) : <<w, k>> \in Slots
    BY <1>l, FiniteParts DEF Slots
  <2>3. f \in [Slots -> Queued]
    BY <1>q, <2>1
  <2>4. \A x, y \in Slots : f[x] = f[y] => x = y
    <3> SUFFICES ASSUME NEW x \in Slots, NEW y \in Slots, f[x] = f[y] PROVE x = y
      OBVIOUS
    <3>1. dq[x[1]][x[2]] = dq[y[1]][y[2]]
      OBVIOUS
    <3>2. x[1] = y[1] /\ x[2] = y[2]
      BY <1>0, <2>1, <3>1 DEF UniqueInv
    <3> QED
      BY <2>1, <3>2
  <2>5. \A y \in Queued : \E x \in Slots : f[x] = y
    <3> SUFFICES ASSUME NEW y \in Queued PROVE \E x \in Slots : f[x] = y
      OBVIOUS
    <3>1. PICK w \in Workers : \E k \in 1 .. Len(dq[w]) : dq[w][k] = y
      BY <1>q
    <3>2. PICK k \in 1 .. Len(dq[w]) : dq[w][k] = y
      BY <3>1
    <3>3. <<w, k>> \in Slots /\ f[<<w, k>>] = y
      BY <2>2, <3>2
    <3> QED
      BY <3>3
  <2>6. f \in Bijection(Slots, Queued)
    BY <2>3, <2>4, <2>5 DEF Bijection, Injection, Surjection, IsInjective
  <2>7. ExistsBijection(Slots, Queued)
    BY <2>6 DEF ExistsBijection
  <2> QED
    BY <2>7, FiniteParts, FS_Bijection
<1>2. IsFiniteSet(Held) /\ Cardinality(Held) = HeldCount
  <2> DEFINE h == [w \in Holders |-> task[w]]
  <2>1. h \in [Holders -> Held]
    BY DEF Holders, Held
  <2>2. \A w, v \in Holders : h[w] = h[v] => w = v
    BY <1>0 DEF Holders, UniqueInv
  <2>3. \A y \in Held : \E w \in Holders : h[w] = y
    BY DEF Holders, Held
  <2>4. h \in Bijection(Holders, Held)
    BY <2>1, <2>2, <2>3 DEF Bijection, Injection, Surjection, IsInjective
  <2>5. ExistsBijection(Holders, Held)
    BY <2>4 DEF ExistsBijection
  <2> QED
    BY <2>5, FiniteParts, FS_Bijection
<1>3. Queued \cap Held = {}
  BY <1>0, <1>q DEF Held, UniqueInv
<1>4. Cardinality(Queued \cup Held) = Cardinality(Queued) + Cardinality(Held) /\ IsFiniteSet(Queued \cup Held)
  <2>1. Cardinality(Queued \cap Held) = 0
    BY <1>3, FS_EmptySet
  <2>2. Cardinality(Queued) \in Nat /\ Cardinality(Held) \in Nat
    BY <1>1, <1>2, FiniteParts
  <2> QED
    BY <1>1, <1>2, <2>1, <2>2, FS_Union
<1>5. Queued \cup Held \subseteq Tasks
  <2>1. \A y \in Queued : y \in Tasks
    BY <1>l, <1>q, ElementOfSeq
  <2>2. \A y \in Held : y \in Tasks
    BY <1>0 DEF Held, TypeInv
  <2> QED
    BY <2>1, <2>2
<1> QED
  BY <1>1, <1>2, <1>4, <1>5

LEMMA PendingBound == IInv => pending_ \in -1 .. Cardinality(Tasks) /\ Cardinality(Tasks) >= 1
<1> SUFFICES ASSUME IInv PROVE pending_ \in -1 .. Cardinality(Tasks) /\ Cardinality(Tasks) >= 1
  OBVIOUS
<1>0. TypeInv /\ WorkerInv /\ PendingLags
  BY DEF IInv, StateInv
<1>1. QueuedCount + HeldCount <= Cardinality(Tasks)
  <2>1. Queued \cup Held \in SUBSET Tasks /\ Cardinality(Queued \cup Held) = QueuedCount + HeldCount
    BY PlacesCount
  <2>2. Cardinality(Queued \cup Held) <= Cardinality(Tasks)
    BY <2>1, FiniteParts, FS_Subset
  <2> QED
    BY <2>1, <2>2
<1>2. Cardinality(Tasks) # 0
  <2>1. <<1, 0>> \in Tasks
    BY Constants DEF Tasks
  <2> QED
    BY <2>1, FiniteParts, FS_EmptySet
<1>3. Cardinality(Counting) <= HeldCount
  BY <1>0, CountingHold
<1>4. /\ pending_ + (Cardinality(Counting) + MainCounting) = QueuedCount + HeldCount /\ pending_ \in Int
      /\ MainCounting \in {0, 1} /\ QueuedCount \in Nat /\ HeldCount \in Nat /\ Cardinality(Counting) \in Nat
      /\ Cardinality(Tasks) \in Nat
  BY <1>0, LagSum, FiniteParts DEF PendingLags, TypeInv
<1> QED
  BY <1>1, <1>2, <1>3, <1>4

(* Types: in particular pending_ never leaves the range of the task count  *)
(* (it goes below 0, by one at most, when a task runs before it is         *)
(* counted; lines 79 and 102-106).                                         *)
THEOREM TypeCorrect == Spec => []TypeOK
<1>1. IInv => TypeOK
  <2> SUFFICES ASSUME IInv PROVE TypeOK
    OBVIOUS
  <2>1. TypeInv
    BY DEF IInv, StateInv
  <2>2. pending_ \in - Cardinality(Tasks) .. Cardinality(Tasks)
    <3>1. pending_ \in -1 .. Cardinality(Tasks) /\ Cardinality(Tasks) >= 1 /\ Cardinality(Tasks) \in Nat
      BY PendingBound, FiniteParts
    <3> QED
      BY <3>1
  <2> QED
    BY <2>1, <2>2 DEF TypeInv, TypeOK
<1> QED
  BY <1>1, Invariance, PTL

(* Owner and thieves never take the same task (lines 49-64). *)
THEOREM OneTaskOnePlace == Spec => []OnePlace
<1>1. IInv => OnePlace
  BY PlacesCount DEF OnePlace
<1> QED
  BY <1>1, Invariance, PTL

(* pending_ lags behind the deques by the submissions that have pushed but *)
(* not counted yet, and by nothing else.                                   *)
THEOREM PendingIsExact == Spec => []PendingLags
<1>1. IInv => PendingLags
  BY DEF IInv
<1> QED
  BY <1>1, Invariance, PTL

(* What the destructor leaves behind: no task in a worker's hands, and on  *)
(* the deques only what a nesting task submitted after a first child       *)
(* (lines 91-96).                                                          *)
LeavesOnlyLateChildren ==
  main_ = "done" => Held = {} /\ \A x \in Queued : x[1] \in Nests /\ x[2] >= 2

LEMMA LeftOvers == IInv => LeavesOnlyLateChildren
<1> SUFFICES ASSUME IInv, main_ = "done"
             PROVE  Held = {} /\ \A x \in Queued : x[1] \in Nests /\ x[2] >= 2
  BY DEF LeavesOnlyLateChildren
<1>0. TypeInv /\ WorkerInv /\ JoinInv /\ LateInv
  BY DEF IInv, StateInv
<1>1. Held = {}
  <2>1. \A w \in Workers : pc[w] = "exit"
    BY <1>0 DEF JoinInv
  <2>2. \A w \in Workers : task[w] = NoTask
    BY <1>0, <2>1 DEF WorkerInv
  <2> QED
    BY <2>2 DEF Held
<1>2. ASSUME NEW x \in Queued PROVE x[1] \in Nests /\ x[2] >= 2
  <2>1. PICK w \in Workers : x \in OnDeque(w)
    BY DEF Queued
  <2>2. DOMAIN dq[w] = 1 .. Len(dq[w])
    BY <1>0, LenProperties DEF TypeInv
  <2>3. PICK k \in 1 .. Len(dq[w]) : x = dq[w][k]
    BY <2>1, <2>2 DEF OnDeque
  <2> QED
    BY <1>0, <2>3 DEF LateInv
<1> QED
  BY <1>1, <1>2

THEOREM OnlyLateChildrenAreLost == Spec => []LeavesOnlyLateChildren
BY LeftOvers, Invariance, PTL

(* The destructor drains the pool (comment of line 92) as long as no task  *)
(* submits more than one other; the run work_stealing_drain shows the      *)
(* second child lost.                                                      *)
THEOREM PoolIsDrained ==
  ASSUME Nests = {} \/ NNested <= 1
  PROVE  Spec => []Drained
<1>1. IInv => Drained
  <2> SUFFICES ASSUME IInv, main_ = "done" PROVE Queued = {} /\ Held = {}
    BY DEF Drained
  <2>1. Held = {} /\ \A x \in Queued : x[1] \in Nests /\ x[2] >= 2
    BY LeftOvers DEF LeavesOnlyLateChildren
  <2>2. ASSUME NEW x \in Queued PROVE x[2] \in 0 .. NNested
    BY PlacesCount, Constants
  <2> QED
    BY <2>1, <2>2, Constants
<1> QED
  BY <1>1, Invariance, PTL

=============================================================================
