-------------------------- MODULE ThreadPool_proofs --------------------------
(* The theorems about ThreadPool, for any number of workers and tasks and  *)
(* any choice of the tasks that submit another one.                        *)
EXTENDS ThreadPool, FiniteSetTheorems, SequenceTheorems, TLAPS

USE DEF NotifyOne, NotifyAll

(* The types, with what the fields say of each other: a worker holds a     *)
(* task from lines 85-86 to line 88, only a task of Nests submits, only a  *)
(* worker at the queue sleeps.                                             *)
TypeInv ==
  /\ TypeOK
  /\ \A w \in Workers : job[w] # 0 <=> pc[w] \in {"run", "notify"}
  /\ \A w \in Workers : pc[w] = "notify" => job[w] \in Nests
  /\ \A w \in cv_ : pc[w] = "loop"

Queued(t) == \E k \in 1 .. Len(tasks_) : tasks_[k] = t
Held(t) == \E w \in Workers : job[w] = t

(* Which tasks exist: main() has not yet submitted those from "next" on,   *)
(* and task t has submitted its nested task only if it is over or its      *)
(* worker is about to notify.                                              *)
Fresh ==
  /\ main_ = "submit" => \A t \in next .. NTasks : future[t] = "none"
  /\ main_ = "notify" => \A t \in next + 1 .. NTasks : future[t] = "none"
  /\ \A t \in 1 .. NTasks :
       future[Nested(t)] = "none" \/ future[t] \in {"value", "exception"}
         \/ \E w \in Workers : job[w] = t /\ pc[w] = "notify"

(* OneOwner, said without counting. *)
Owned ==
  /\ \A j, k \in 1 .. Len(tasks_) : tasks_[j] = tasks_[k] => j = k
  /\ \A v, w \in Workers : job[v] = job[w] /\ job[w] # 0 => v = w
  /\ \A k \in 1 .. Len(tasks_) : \A w \in Workers : tasks_[k] # job[w]
  /\ \A t \in Tasks : future[t] = "pending" <=> Queued(t) \/ Held(t)

(* How the pool shuts down: stop_ is set once and for all (line 48), the   *)
(* sleepers of that moment are woken (line 50), and a worker returns only  *)
(* from an empty queue that nobody can fill again (lines 68 and 84).       *)
Shutdown ==
  /\ stop_ <=> main_ \in {"notify_all", "join", "done"}
  /\ main_ \in {"join", "done"} => cv_ = {}
  /\ (\E w \in Workers : pc[w] = "exit") => stop_ /\ tasks_ = << >>
  /\ main_ = "done" => \A w \in Workers : pc[w] = "exit"

IInv == TypeInv /\ Fresh /\ Owned /\ Shutdown /\ EnoughAwake

-----------------------------------------------------------------------------
(* Taking the front of the queue (lines 85-86). *)
LEMMA TakeFront ==
  ASSUME NEW T, NEW s \in Seq(T), s # << >>
  PROVE  /\ Head(s) \in T /\ Tail(s) \in Seq(T)
         /\ Len(s) \in Nat \ {0} /\ Len(Tail(s)) = Len(s) - 1
         /\ Head(s) = s[1]
         /\ \A k \in 1 .. Len(s) - 1 : Tail(s)[k] = s[k + 1]
BY HeadTailProperties, EmptySeq

(* Putting a task at the back (line 69). *)
LEMMA PutBack ==
  ASSUME NEW T, NEW s \in Seq(T), NEW e \in T
  PROVE  /\ Append(s, e) \in Seq(T)
         /\ Len(s) \in Nat /\ Len(Append(s, e)) = Len(s) + 1
         /\ Append(s, e)[Len(s) + 1] = e
         /\ \A k \in 1 .. Len(s) : Append(s, e)[k] = s[k]
BY AppendProperties, LenProperties

(* The tasks of the client and the tasks they submit are different tasks.  *)
LEMMA TaskNumbers ==
  /\ NTasks \in Nat \ {0} /\ 0 \notin Tasks
  /\ \A t \in 1 .. NTasks : t \in Tasks /\ Nested(t) \in Tasks /\ Nested(t) \notin 1 .. NTasks
  /\ \A t, u \in 1 .. NTasks : Nested(t) = Nested(u) => t = u
  /\ Nests \subseteq 1 .. NTasks
BY TPAssumption DEF TPAssumption, Tasks, Nested

-----------------------------------------------------------------------------
LEMMA TypeInit == Init => TypeInv
<1> SUFFICES ASSUME Init PROVE TypeInv
  OBVIOUS
<1> USE TPAssumption DEF TPAssumption, Init
<1>1. tasks_ \in Seq(Tasks)
  OBVIOUS
<1>2. /\ pc \in [Workers -> {"loop", "run", "notify", "exit"}]
      /\ job \in [Workers -> Tasks \cup {0}]
      /\ \A w \in Workers : pc[w] = "loop" /\ job[w] = 0
  BY TaskNumbers
<1>3. future \in [Tasks -> {"none", "pending", "value", "exception"}]
  OBVIOUS
<1>4. next \in 1 .. NTasks
  OBVIOUS
<1>5. cv_ = {} /\ stop_ \in BOOLEAN
  OBVIOUS
<1>6. main_ \in {"submit", "notify", "get", "destroy", "notify_all", "join", "done"}
  OBVIOUS
<1> HIDE DEF Init
<1> QED
  BY <1>1, <1>2, <1>3, <1>4, <1>5, <1>6 DEF TypeInv, TypeOK

LEMMA TypeStep == TypeInv /\ [Next]_vars => TypeInv'
<1> SUFFICES ASSUME TypeInv, [Next]_vars PROVE TypeInv'
  OBVIOUS
<1> USE TPAssumption, TaskNumbers DEF TPAssumption, TypeInv, TypeOK, pool
<1>1. CASE Submit
  <2>1. CASE Enqueue(next) /\ main_ = "submit"
    <3>1. next \in Tasks /\ tasks_' \in Seq(Tasks)
      BY <2>1, PutBack DEF Enqueue
    <3> QED
      BY <1>1, <2>1, <3>1 DEF Submit, Enqueue
  <2>2. CASE Notify /\ main_ = "notify"
    BY <1>1, <2>2 DEF Submit, Notify
  <2> QED
    BY <1>1, <2>1, <2>2 DEF Submit
<1>2. CASE Get \/ Drop
  BY <1>2 DEF Get, Drop
<1>3. CASE DestroyStop \/ DestroyNotify \/ DestroyJoin
  BY <1>3 DEF DestroyStop, DestroyNotify, DestroyJoin
<1>4. ASSUME NEW w \in Workers, Worker(w) PROVE TypeInv'
  <2>1. CASE Sleep(w) \/ Retire(w)
    BY <2>1 DEF Sleep, Retire
  <2>2. CASE Take(w)
    <3>1. tasks_' \in Seq(Tasks) /\ Head(tasks_) \in Tasks
      BY <2>2, TakeFront DEF Take
    <3> QED
      BY <2>2, <3>1 DEF Take
  <2>3. CASE Run(w) \/ NestedRefused(w)
    BY <2>3 DEF Run, NestedRefused, Finish
  <2>4. CASE NestedSubmit(w)
    <3>1. Nested(job[w]) \in Tasks
      BY <2>4 DEF NestedSubmit
    <3>2. tasks_' \in Seq(Tasks)
      BY <2>4, <3>1, PutBack DEF NestedSubmit, Enqueue
    <3> QED
      BY <2>4, <3>1, <3>2 DEF NestedSubmit, Enqueue
  <2>5. CASE NestedNotify(w)
    BY <2>5 DEF NestedNotify, Notify, Finish
  <2> QED
    BY <1>4, <2>1, <2>2, <2>3, <2>4, <2>5 DEF Worker
<1>5. CASE Spurious
  BY <1>5 DEF Spurious
<1>6. CASE UNCHANGED vars
  BY <1>6 DEF vars
<1> QED
  BY <1>1, <1>2, <1>3, <1>4, <1>5, <1>6 DEF Next, Main, Terminating

(* The types hold, whatever the workers and the tasks: no queued task and  *)
(* no loop counter leaves the range of the tasks (lines 65-70, 113-114).   *)
THEOREM TypeCorrect == Spec => []TypeOK
<1>1. TypeInv => TypeOK
  BY DEF TypeInv
<1> QED
  BY <1>1, TypeInit, TypeStep, PTL DEF Spec

-----------------------------------------------------------------------------
(* Owned, when a task enters the queue, when a worker takes the front one, *)
(* and when a worker has ended its task.                                   *)
LEMMA OwnedEnqueue ==
  ASSUME TypeInv, Owned, NEW t \in Tasks, future[t] = "none",
         Enqueue(t), job' = job, future' = [future EXCEPT ![t] = "pending"]
  PROVE  Owned'
<1>1. /\ Len(tasks_) \in Nat /\ Len(tasks_') = Len(tasks_) + 1
      /\ tasks_'[Len(tasks_) + 1] = t
      /\ \A k \in 1 .. Len(tasks_) : tasks_'[k] = tasks_[k]
  BY PutBack DEF Enqueue, TypeInv, TypeOK
<1>2. future'[t] = "pending" /\ \A u \in Tasks \ {t} : future'[u] = future[u]
  BY DEF TypeInv, TypeOK
<1>3. ~ Queued(t) /\ ~ Held(t)
  BY DEF Owned
<1>4. \A u \in Tasks : Queued(u)' <=> Queued(u) \/ u = t
  BY <1>1 DEF Queued
<1>5. \A u \in Tasks : Held(u)' <=> Held(u)
  BY DEF Held
<1>6. \A u \in Tasks : future'[u] = "pending" <=> Queued(u)' \/ Held(u)'
  BY <1>2, <1>4, <1>5 DEF Owned
<1>7. \A j, k \in 1 .. Len(tasks_') : tasks_'[j] = tasks_'[k] => j = k
  BY <1>1, <1>3 DEF Queued, Owned
<1>8. \A k \in 1 .. Len(tasks_') : \A w \in Workers : tasks_'[k] # job'[w]
  BY <1>1, <1>3 DEF Held, Owned
<1> QED
  BY <1>6, <1>7, <1>8 DEF Owned

LEMMA OwnedTake ==
  ASSUME TypeInv, Owned, NEW w \in Workers, Take(w)
  PROVE  Owned'
<1> DEFINE t == Head(tasks_)
<1>1. /\ Len(tasks_) \in Nat \ {0} /\ Len(tasks_') = Len(tasks_) - 1
      /\ t \in Tasks /\ t = tasks_[1]
      /\ \A k \in 1 .. Len(tasks_) - 1 : tasks_'[k] = tasks_[k + 1]
  BY TakeFront DEF Take, TypeInv, TypeOK
<1>2. job[w] = 0 /\ job'[w] = t /\ \A v \in Workers \ {w} : job'[v] = job[v]
  BY DEF Take, TypeInv, TypeOK
<1> HIDE DEF t
<1>3. ~ Held(t)
  BY <1>1 DEF Held, Owned
<1>4. \A u \in Tasks : Queued(u)' <=> Queued(u) /\ u # t
  <2> SUFFICES ASSUME NEW u \in Tasks PROVE Queued(u)' <=> Queued(u) /\ u # t
    OBVIOUS
  <2>1. ASSUME NEW k \in 1 .. Len(tasks_'), tasks_'[k] = u PROVE Queued(u) /\ u # t
    <3>1. k + 1 \in 1 .. Len(tasks_) /\ tasks_[k + 1] = u /\ 1 \in 1 .. Len(tasks_) /\ k + 1 # 1
      BY <1>1, <2>1
    <3> QED
      BY <1>1, <3>1 DEF Queued, Owned
  <2>2. ASSUME NEW k \in 1 .. Len(tasks_), tasks_[k] = u, u # t PROVE Queued(u)'
    <3>1. k - 1 \in 1 .. Len(tasks_') /\ tasks_'[k - 1] = u
      BY <1>1, <2>2
    <3> QED
      BY <3>1 DEF Queued
  <2> QED
    BY <2>1, <2>2 DEF Queued
<1>5. \A u \in Tasks : Held(u)' <=> Held(u) \/ u = t
  BY <1>2, TaskNumbers DEF Held
<1>6. \A u \in Tasks : future'[u] = "pending" <=> Queued(u)' \/ Held(u)'
  <2>1. Queued(t)
    BY <1>1 DEF Queued
  <2> QED
    BY <1>3, <1>4, <1>5, <2>1 DEF Owned, Take
<1>7. \A j, k \in 1 .. Len(tasks_') : tasks_'[j] = tasks_'[k] => j = k
  BY <1>1 DEF Owned
<1>8. \A k \in 1 .. Len(tasks_') : \A v \in Workers : tasks_'[k] # job'[v]
  <2> SUFFICES ASSUME NEW k \in 1 .. Len(tasks_'), NEW v \in Workers
               PROVE  tasks_'[k] # job'[v]
    OBVIOUS
  <2>1. /\ k + 1 \in 1 .. Len(tasks_) /\ tasks_'[k] = tasks_[k + 1]
        /\ 1 \in 1 .. Len(tasks_) /\ k + 1 # 1
    BY <1>1
  <2> QED
    BY <1>1, <1>2, <2>1 DEF Owned
<1>9. \A u, v \in Workers : job'[u] = job'[v] /\ job'[u] # 0 => u = v
  BY <1>1, <1>2, <1>3 DEF Held, Owned
<1> QED
  BY <1>6, <1>7, <1>8, <1>9 DEF Owned

LEMMA OwnedFinish ==
  ASSUME TypeInv, Owned, NEW w \in Workers, job[w] # 0, NEW result, result # "pending",
         Finish(w, result), tasks_' = tasks_
  PROVE  Owned'
<1>1. job[w] \in Tasks
  BY DEF TypeInv, TypeOK
<1>2. job'[w] = 0 /\ \A v \in Workers \ {w} : job'[v] = job[v]
  BY DEF Finish, TypeInv, TypeOK
<1>3. future'[job[w]] # "pending" /\ \A u \in Tasks \ {job[w]} : future'[u] = future[u]
  BY <1>1 DEF Finish, TypeInv, TypeOK
<1>4. ~ Queued(job[w])
  BY DEF Queued, Owned
<1>5. \A u \in Tasks : Held(u)' <=> Held(u) /\ u # job[w]
  BY <1>1, <1>2, TaskNumbers DEF Held, Owned
<1>6. \A u \in Tasks : Queued(u)' <=> Queued(u)
  BY DEF Queued
<1>7. \A u \in Tasks : future'[u] = "pending" <=> Queued(u)' \/ Held(u)'
  BY <1>3, <1>4, <1>5, <1>6 DEF Owned
<1>8. \A k \in 1 .. Len(tasks_) : tasks_[k] \in Tasks
  BY ElementOfSeq DEF TypeInv, TypeOK
<1>9. \A k \in 1 .. Len(tasks_') : \A v \in Workers : tasks_'[k] # job'[v]
  BY <1>2, <1>8, TaskNumbers DEF Owned
<1>10. \A u, v \in Workers : job'[u] = job'[v] /\ job'[u] # 0 => u = v
  BY <1>2 DEF Owned
<1>11. \A j, k \in 1 .. Len(tasks_') : tasks_'[j] = tasks_'[k] => j = k
  BY DEF Owned
<1> QED
  BY <1>7, <1>9, <1>10, <1>11 DEF Owned

-----------------------------------------------------------------------------
(* A task that uses the pool has not submitted its nested task yet when    *)
(* its worker calls submit() (lines 68-69).                                *)
LEMMA NestedIsNew ==
  ASSUME TypeInv, Fresh, Owned, NEW w \in Workers, pc[w] = "run", job[w] \in Nests
  PROVE  Nested(job[w]) \in Tasks /\ future[Nested(job[w])] = "none"
<1>1. job[w] \in 1 .. NTasks /\ job[w] \in Tasks /\ job[w] # 0 /\ Nested(job[w]) \in Tasks
  BY TaskNumbers
<1>2. future[job[w]] = "pending"
  BY <1>1 DEF Owned, Held
<1>3. \A v \in Workers : job[v] = job[w] => pc[v] # "notify"
  BY <1>1 DEF Owned
<1> QED
  BY <1>1, <1>2, <1>3 DEF Fresh

(* The end of a task leaves Fresh as it is. *)
LEMMA FreshFinish ==
  ASSUME TypeInv, Fresh, Owned, NEW w \in Workers, job[w] # 0, NEW result \in {"value", "exception"},
         Finish(w, result), UNCHANGED <<main_, next>>
  PROVE  Fresh'
<1>1. job[w] \in Tasks /\ future[job[w]] = "pending"
  BY DEF TypeInv, TypeOK, Owned, Held
<1>2. future'[job[w]] = result /\ \A u \in Tasks \ {job[w]} : future'[u] = future[u]
  BY <1>1 DEF Finish, TypeInv, TypeOK
<1>3. /\ pc'[w] = "loop" /\ job'[w] = 0
      /\ \A v \in Workers \ {w} : pc'[v] = pc[v] /\ job'[v] = job[v]
  BY DEF Finish, TypeInv, TypeOK
<1>4. /\ main_' = "submit" => \A t \in next' .. NTasks : future'[t] = "none"
      /\ main_' = "notify" => \A t \in next' + 1 .. NTasks : future'[t] = "none"
  <2>1. next \in 1 .. NTasks
    BY DEF TypeInv, TypeOK
  <2>2. next .. NTasks \subseteq Tasks /\ next + 1 .. NTasks \subseteq Tasks
    BY <2>1, TaskNumbers
  <2> QED
    BY <1>1, <1>2, <2>2 DEF Fresh
<1>5. ASSUME NEW t \in 1 .. NTasks
      PROVE  future'[Nested(t)] = "none" \/ future'[t] \in {"value", "exception"}
               \/ \E v \in Workers : job'[v] = t /\ pc'[v] = "notify"
  <2>1. t \in Tasks /\ Nested(t) \in Tasks
    BY TaskNumbers
  <2>2. CASE t = job[w]
    BY <1>2, <2>2
  <2>3. CASE t # job[w]
    <3>1. CASE future[Nested(t)] = "none"
      BY <1>1, <1>2, <2>1, <3>1
    <3>2. CASE future[t] \in {"value", "exception"}
      BY <1>2, <2>1, <2>3, <3>2
    <3>3. ASSUME NEW v \in Workers, job[v] = t, pc[v] = "notify"
          PROVE  job'[v] = t /\ pc'[v] = "notify"
      BY <1>3, <2>3, <3>3
    <3> QED
      BY <3>1, <3>2, <3>3 DEF Fresh
  <2> QED
    BY <2>2, <2>3
<1> QED
  BY <1>4, <1>5 DEF Fresh

LEMMA OwnInit == Init => Fresh /\ Owned
<1> SUFFICES ASSUME Init PROVE Fresh /\ Owned
  OBVIOUS
<1>1. Len(tasks_) = 0 /\ \A w \in Workers : job[w] = 0
  BY DEF Init
<1>2. \A t \in Tasks : future[t] = "none"
  BY DEF Init
<1>3. Owned
  BY <1>1, <1>2, TaskNumbers DEF Owned, Queued, Held
<1>4. Fresh
  BY <1>2, TaskNumbers DEF Fresh, Init
<1> QED
  BY <1>3, <1>4

LEMMA OwnStep == TypeInv /\ Fresh /\ Owned /\ [Next]_vars => (Fresh /\ Owned)'
<1> SUFFICES ASSUME TypeInv, Fresh, Owned, [Next]_vars PROVE Fresh' /\ Owned'
  OBVIOUS
<1>n. next \in 1 .. NTasks /\ NTasks \in Nat
  BY TaskNumbers DEF TypeInv, TypeOK
<1>u. ASSUME UNCHANGED <<tasks_, job, future>> PROVE Owned'
  BY <1>u DEF Owned, Queued, Held
<1>1. CASE Submit
  <2>1. CASE main_ = "submit"
    <3>1. /\ Enqueue(next) /\ future' = [future EXCEPT ![next] = "pending"]
          /\ main_' = "notify" /\ UNCHANGED <<next, pc, job>>
      BY <1>1, <2>1 DEF Submit
    <3>2. next \in Tasks /\ future[next] = "none"
      BY <2>1, <1>n, TaskNumbers DEF Fresh
    <3>3. Owned'
      BY <3>1, <3>2, OwnedEnqueue
    <3>4. \A t \in next + 1 .. NTasks : t \in next .. NTasks /\ t \in Tasks \ {next}
      BY <1>n, TaskNumbers
    <3>5. \A t \in Tasks \ {next} : future'[t] = future[t]
      BY <3>1 DEF TypeInv, TypeOK
    <3>6. ASSUME NEW t \in 1 .. NTasks
          PROVE  future'[Nested(t)] = "none" \/ future'[t] \in {"value", "exception"}
                   \/ \E v \in Workers : job'[v] = t /\ pc'[v] = "notify"
      <4>1. t \in Tasks /\ Nested(t) \in Tasks \ {next}
        BY <1>n, TaskNumbers
      <4> QED
        BY <3>1, <3>2, <3>5, <4>1 DEF Fresh
    <3>7. Fresh'
      BY <2>1, <3>1, <3>4, <3>5, <3>6 DEF Fresh
    <3> QED
      BY <3>3, <3>7
  <2>2. CASE main_ = "notify"
    <3>1. /\ UNCHANGED <<tasks_, pc, job, future>>
          /\ \/ main_' = "submit" /\ next' = next + 1
             \/ main_' = "get" /\ next' = 1
      BY <1>1, <2>2 DEF Submit, Notify
    <3>2. Fresh'
      BY <2>2, <3>1 DEF Fresh
    <3> QED
      BY <1>u, <3>1, <3>2
  <2> QED
    BY <1>1, <2>1, <2>2 DEF Submit
<1>2. CASE Get \/ Drop \/ DestroyStop \/ DestroyNotify \/ DestroyJoin
  <2>1. /\ UNCHANGED <<tasks_, pc, job, future>>
        /\ main_' \notin {"submit", "notify"}
    BY <1>2 DEF Get, Drop, DestroyStop, DestroyNotify, DestroyJoin, pool
  <2>2. Fresh'
    BY <2>1 DEF Fresh
  <2> QED
    BY <1>u, <2>1, <2>2
<1>3. ASSUME NEW w \in Workers, Worker(w) PROVE Fresh' /\ Owned'
  <2>1. CASE Sleep(w)
    BY <1>u, <2>1 DEF Sleep, Fresh
  <2>2. CASE Retire(w)
    BY <1>u, <2>2 DEF Retire, Fresh, pool, TypeInv, TypeOK
  <2>3. CASE Take(w)
    <3>1. Owned'
      BY <2>3, OwnedTake
    <3>2. \A v \in Workers : pc[v] = "notify" => pc'[v] = pc[v] /\ job'[v] = job[v]
      BY <2>3 DEF Take, TypeInv, TypeOK
    <3>3. Fresh'
      BY <2>3, <3>2 DEF Take, Fresh
    <3> QED
      BY <3>1, <3>3
  <2>4. CASE Run(w) \/ NestedRefused(w)
    <3>1. PICK result \in {"value", "exception"} : Finish(w, result)
      BY <2>4 DEF Run, NestedRefused
    <3>2. job[w] # 0 /\ UNCHANGED <<tasks_, main_, next>>
      BY <2>4 DEF Run, NestedRefused, pool, TypeInv
    <3>3. Owned'
      BY <3>1, <3>2, OwnedFinish
    <3>4. Fresh'
      BY <3>1, <3>2, FreshFinish
    <3> QED
      BY <3>3, <3>4
  <2>5. CASE NestedSubmit(w)
    <3>1. Nested(job[w]) \in Tasks /\ future[Nested(job[w])] = "none"
      BY <2>5, NestedIsNew DEF NestedSubmit
    <3>2. Owned'
      BY <2>5, <3>1, OwnedEnqueue DEF NestedSubmit
    <3>3. /\ pc'[w] = "notify" /\ job' = job
          /\ \A v \in Workers : pc[v] = "notify" => pc'[v] = "notify"
          /\ UNCHANGED <<main_, next>>
      BY <2>5 DEF NestedSubmit, TypeInv, TypeOK
    <3>4. \A u \in Tasks \ {Nested(job[w])} : future'[u] = future[u]
      BY <2>5, <3>1 DEF NestedSubmit, TypeInv, TypeOK
    <3>5. job[w] \in 1 .. NTasks /\ \A t \in 1 .. NTasks : t \in Tasks \ {Nested(job[w])}
      BY <2>5, TaskNumbers DEF NestedSubmit
    <3>6. next .. NTasks \subseteq 1 .. NTasks /\ next + 1 .. NTasks \subseteq 1 .. NTasks
      BY <1>n
    <3>7. ASSUME NEW t \in 1 .. NTasks
          PROVE  future'[Nested(t)] = "none" \/ future'[t] \in {"value", "exception"}
                   \/ \E v \in Workers : job'[v] = t /\ pc'[v] = "notify"
      <4>1. CASE t = job[w]
        BY <3>3, <4>1
      <4>2. CASE t # job[w]
        <5>1. Nested(t) \in Tasks \ {Nested(job[w])}
          BY <3>5, <4>2, TaskNumbers
        <5> QED
          BY <3>3, <3>4, <3>5, <5>1 DEF Fresh
      <4> QED
        BY <4>1, <4>2
    <3>8. Fresh'
      BY <3>3, <3>4, <3>5, <3>6, <3>7 DEF Fresh
    <3> QED
      BY <3>2, <3>8
  <2>6. CASE NestedNotify(w)
    <3>1. job[w] # 0 /\ Finish(w, "value") /\ UNCHANGED <<tasks_, main_, next>>
      BY <2>6 DEF NestedNotify, Notify, TypeInv
    <3> QED
      BY <3>1, OwnedFinish, FreshFinish
  <2> QED
    BY <1>3, <2>1, <2>2, <2>3, <2>4, <2>5, <2>6 DEF Worker
<1>4. CASE Spurious
  BY <1>u, <1>4 DEF Spurious, Fresh
<1>5. CASE UNCHANGED vars
  BY <1>u, <1>5 DEF vars, pool, Fresh
<1> QED
  BY <1>1, <1>2, <1>3, <1>4, <1>5 DEF Next, Main, Terminating

-----------------------------------------------------------------------------
LEMMA ShutdownStep == TypeInv /\ Shutdown /\ [Next]_vars => Shutdown'
<1> SUFFICES ASSUME TypeInv, Shutdown, [Next]_vars PROVE Shutdown'
  OBVIOUS
<1> USE DEF TypeInv, TypeOK, Shutdown, pool
<1>1. CASE Submit
  BY <1>1 DEF Submit, Enqueue, Notify
<1>2. CASE Get \/ Drop
  BY <1>2 DEF Get, Drop
<1>3. CASE DestroyStop \/ DestroyNotify \/ DestroyJoin
  BY <1>3 DEF DestroyStop, DestroyNotify, DestroyJoin
<1>4. ASSUME NEW w \in Workers, Worker(w) PROVE Shutdown'
  <2>1. pc[w] # "exit" /\ UNCHANGED <<stop_, main_>>
    BY <1>4 DEF Worker, Sleep, Retire, Take, Run, NestedSubmit, NestedNotify, NestedRefused, Enqueue, Notify
  <2>2. CASE Sleep(w) \/ Retire(w)
    BY <2>1, <2>2 DEF Sleep, Retire
  <2>3. CASE Take(w)
    BY <2>1, <2>3 DEF Take
  <2>4. CASE Run(w) \/ NestedRefused(w) \/ NestedNotify(w)
    BY <2>1, <2>4 DEF Run, NestedRefused, NestedNotify, Notify, Finish
  <2>5. CASE NestedSubmit(w)
    BY <2>1, <2>5 DEF NestedSubmit, Enqueue
  <2> QED
    BY <1>4, <2>2, <2>3, <2>4, <2>5 DEF Worker
<1>5. CASE Spurious
  BY <1>5 DEF Spurious
<1>6. CASE UNCHANGED vars
  BY <1>6 DEF vars
<1> QED
  BY <1>1, <1>2, <1>3, <1>4, <1>5, <1>6 DEF Next, Main, Terminating

-----------------------------------------------------------------------------
(* No wake-up is lost: the two sets of workers EnoughAwake counts.         *)
AtQueue == {w \in Workers \ cv_ : pc[w] = "loop"}
AboutToNotify == {w \in Workers : pc[w] = "notify"}
MainNotifies == IF main_ = "notify" THEN 1 ELSE 0

LEMMA WorkerSets ==
  ASSUME NEW S \in SUBSET Workers
  PROVE  /\ IsFiniteSet(S) /\ Cardinality(S) \in Nat
         /\ \A w \in Workers \ S : Cardinality(S \cup {w}) = Cardinality(S) + 1
         /\ \A w \in S : Cardinality(S \ {w}) = Cardinality(S) - 1
         /\ \A T \in SUBSET S : Cardinality(T) <= Cardinality(S)
<1>1. IsFiniteSet(S) /\ Cardinality(S) \in Nat
  BY TPAssumption, FS_Subset, FS_CardinalityType DEF TPAssumption
<1> QED
  BY <1>1, FS_Subset, FS_AddElement, FS_RemoveElement

LEMMA AwakeStep == TypeInv /\ Shutdown /\ EnoughAwake /\ [Next]_vars => EnoughAwake'
<1> SUFFICES ASSUME TypeInv, Shutdown, EnoughAwake, [Next]_vars, cv_' # {}
             PROVE  Len(tasks_') <= Cardinality(AboutToNotify') + MainNotifies' + Cardinality(AtQueue')
  BY DEF EnoughAwake, Notifying, AtQueue, AboutToNotify, MainNotifies
<1> DEFINE nQ == Cardinality(AtQueue)
           nN == Cardinality(AboutToNotify)
<1>t. /\ pc \in [Workers -> {"loop", "run", "notify", "exit"}] /\ cv_ \subseteq Workers
      /\ tasks_ \in Seq(Tasks) /\ Len(tasks_) \in Nat
      /\ \A w \in cv_ : pc[w] = "loop"
  BY PutBack, EmptySeq DEF TypeInv, TypeOK
<1>s. AtQueue \in SUBSET Workers /\ AboutToNotify \in SUBSET Workers
  BY DEF AtQueue, AboutToNotify
<1>s2. AtQueue' \in SUBSET Workers /\ AboutToNotify' \in SUBSET Workers
  BY DEF AtQueue, AboutToNotify
<1>n. /\ nQ \in Nat /\ nN \in Nat
      /\ Cardinality(AtQueue') \in Nat /\ Cardinality(AboutToNotify') \in Nat
      /\ MainNotifies \in {0, 1} /\ MainNotifies' \in {0, 1}
  BY <1>s, <1>s2, WorkerSets DEF MainNotifies
<1>a. cv_ # {} => Len(tasks_) <= nN + MainNotifies + nQ
  BY DEF EnoughAwake, Notifying, AtQueue, AboutToNotify, MainNotifies
<1>e. ASSUME tasks_' = << >>
      PROVE  Len(tasks_') <= Cardinality(AboutToNotify') + MainNotifies' + Cardinality(AtQueue')
  BY <1>e, <1>n
<1> HIDE DEF nQ, nN
<1>1. CASE Submit
  <2>1. CASE main_ = "submit"
    <3>1. Enqueue(next) /\ cv_' = cv_ /\ main_' = "notify" /\ pc' = pc /\ next \in Tasks
      BY <1>1, <2>1, TaskNumbers DEF Submit, Enqueue, TypeInv, TypeOK
    <3>2. Len(tasks_') = Len(tasks_) + 1
      BY <3>1, <1>t, PutBack DEF Enqueue
    <3>3. AtQueue' = AtQueue /\ AboutToNotify' = AboutToNotify /\ MainNotifies' = MainNotifies + 1
      BY <2>1, <3>1 DEF AtQueue, AboutToNotify, MainNotifies
    <3> QED
      BY <1>a, <1>n, <1>t, <3>1, <3>2, <3>3 DEF nQ, nN
  <2>2. CASE main_ = "notify"
    <3>1. cv_' \in NotifyOne(cv_) /\ tasks_' = tasks_ /\ pc' = pc /\ main_' # "notify"
      BY <1>1, <2>2 DEF Submit, Notify
    <3>2. PICK w \in cv_ : cv_' = cv_ \ {w}
      BY <3>1
    <3>3. AtQueue' = AtQueue \cup {w} /\ w \in Workers \ AtQueue
      BY <1>t, <3>1, <3>2 DEF AtQueue
    <3>4. AboutToNotify' = AboutToNotify /\ MainNotifies = 1 /\ MainNotifies' = 0
      BY <2>2, <3>1 DEF AboutToNotify, MainNotifies
    <3>5. Cardinality(AtQueue') = nQ + 1
      BY <1>s, <3>3, WorkerSets DEF nQ
    <3> QED
      BY <1>a, <1>n, <1>t, <3>1, <3>2, <3>4, <3>5 DEF nN
  <2> QED
    BY <1>1, <2>1, <2>2 DEF Submit
<1>2. CASE Get \/ Drop \/ DestroyStop \/ DestroyJoin
  <2>1. UNCHANGED <<tasks_, cv_, pc>> /\ main_ # "notify" /\ main_' # "notify"
    BY <1>2 DEF Get, Drop, DestroyStop, DestroyJoin, pool
  <2>2. AtQueue' = AtQueue /\ AboutToNotify' = AboutToNotify /\ MainNotifies' = MainNotifies
    BY <2>1 DEF AtQueue, AboutToNotify, MainNotifies
  <2> QED
    BY <1>a, <2>1, <2>2 DEF nQ, nN
<1>3. CASE DestroyNotify
  BY <1>3 DEF DestroyNotify
<1>4. ASSUME NEW w \in Workers, Worker(w)
      PROVE  Len(tasks_') <= Cardinality(AboutToNotify') + MainNotifies' + Cardinality(AtQueue')
  <2>m. MainNotifies' = MainNotifies
    BY <1>4 DEF Worker, Sleep, Retire, Take, Run, NestedSubmit, NestedNotify, NestedRefused, MainNotifies
  <2>1. CASE Sleep(w) \/ Retire(w)
    BY <1>e, <2>1 DEF Sleep, Retire, pool
  <2>2. CASE Take(w)
    <3>1. Len(tasks_') = Len(tasks_) - 1 /\ cv_' = cv_ /\ pc' = [pc EXCEPT ![w] = "run"]
      BY <1>t, <2>2, TakeFront DEF Take
    <3>2. AtQueue' = AtQueue \ {w} /\ w \in AtQueue /\ AboutToNotify' = AboutToNotify
      BY <1>t, <2>2, <3>1 DEF Take, AtQueue, AboutToNotify
    <3>3. Cardinality(AtQueue') = nQ - 1
      BY <1>s, <3>2, WorkerSets DEF nQ
    <3> QED
      BY <1>a, <1>n, <1>t, <2>m, <3>1, <3>2, <3>3 DEF nN
  <2>3. CASE Run(w) \/ NestedRefused(w)
    <3>1. pc[w] = "run" /\ pc' = [pc EXCEPT ![w] = "loop"] /\ UNCHANGED <<tasks_, cv_>>
      BY <2>3 DEF Run, NestedRefused, Finish, pool
    <3>2. AtQueue' = AtQueue \cup {w} /\ w \in Workers \ AtQueue /\ AboutToNotify' = AboutToNotify
      BY <1>t, <3>1 DEF AtQueue, AboutToNotify
    <3>3. Cardinality(AtQueue') = nQ + 1
      BY <1>s, <3>2, WorkerSets DEF nQ
    <3> QED
      BY <1>a, <1>n, <1>t, <2>m, <3>1, <3>2, <3>3 DEF nN
  <2>4. CASE NestedSubmit(w)
    <3>1. pc[w] = "run" /\ pc' = [pc EXCEPT ![w] = "notify"] /\ cv_' = cv_ /\ Enqueue(Nested(job[w]))
      BY <2>4 DEF NestedSubmit, Enqueue
    <3>2. Nested(job[w]) \in Tasks
      BY <2>4, TaskNumbers DEF NestedSubmit
    <3>3. Len(tasks_') = Len(tasks_) + 1
      BY <1>t, <3>1, <3>2, PutBack DEF Enqueue
    <3>4. AboutToNotify' = AboutToNotify \cup {w} /\ w \in Workers \ AboutToNotify /\ AtQueue' = AtQueue
      BY <1>t, <3>1 DEF AtQueue, AboutToNotify
    <3>5. Cardinality(AboutToNotify') = nN + 1
      BY <1>s, <3>4, WorkerSets DEF nN
    <3> QED
      BY <1>a, <1>n, <1>t, <2>m, <3>1, <3>3, <3>4, <3>5 DEF nQ
  <2>5. CASE NestedNotify(w)
    <3>1. pc[w] = "notify" /\ pc' = [pc EXCEPT ![w] = "loop"] /\ tasks_' = tasks_
          /\ cv_' \subseteq cv_ /\ cv_ # {}
      BY <2>5 DEF NestedNotify, Notify, Finish
    <3>2. AboutToNotify' = AboutToNotify \ {w} /\ w \in AboutToNotify
      BY <1>t, <3>1 DEF AboutToNotify
    <3>3. AtQueue \cup {w} \subseteq AtQueue' /\ w \in Workers \ AtQueue
      BY <1>t, <3>1 DEF AtQueue
    <3>4. Cardinality(AboutToNotify') = nN - 1
      BY <1>s, <3>2, WorkerSets DEF nN
    <3>5. Cardinality(AtQueue \cup {w}) = nQ + 1 /\ Cardinality(AtQueue') >= nQ + 1
      BY <1>s, <1>s2, <1>n, <3>3, WorkerSets DEF nQ
    <3> QED
      BY <1>a, <1>n, <1>t, <2>m, <3>1, <3>4, <3>5
  <2> QED
    BY <1>4, <2>1, <2>2, <2>3, <2>4, <2>5 DEF Worker
<1>5. CASE Spurious
  <2>1. PICK w \in cv_ : cv_' = cv_ \ {w}
    BY <1>5 DEF Spurious
  <2>2. AtQueue' = AtQueue \cup {w} /\ w \in Workers \ AtQueue /\ AboutToNotify' = AboutToNotify
        /\ MainNotifies' = MainNotifies /\ tasks_' = tasks_
    BY <1>5, <1>t, <2>1 DEF Spurious, AtQueue, AboutToNotify, MainNotifies
  <2>3. Cardinality(AtQueue') = nQ + 1
    BY <1>s, <2>2, WorkerSets DEF nQ
  <2> QED
    BY <1>a, <1>n, <1>t, <2>1, <2>2, <2>3 DEF nN
<1>6. CASE UNCHANGED vars
  <2>1. UNCHANGED <<tasks_, cv_, pc, main_>>
    BY <1>6 DEF vars, pool
  <2>2. AtQueue' = AtQueue /\ AboutToNotify' = AboutToNotify /\ MainNotifies' = MainNotifies
    BY <2>1 DEF AtQueue, AboutToNotify, MainNotifies
  <2> QED
    BY <1>a, <2>1, <2>2 DEF nQ, nN
<1> QED
  BY <1>1, <1>2, <1>3, <1>4, <1>5, <1>6 DEF Next, Main, Terminating

-----------------------------------------------------------------------------
LEMMA Inductive == Spec => []IInv
<1>1. Init => IInv
  <2> SUFFICES ASSUME Init PROVE IInv
    OBVIOUS
  <2>1. TypeInv /\ Fresh /\ Owned
    BY TypeInit, OwnInit
  <2>2. Shutdown /\ EnoughAwake
    BY DEF Init, Shutdown, EnoughAwake
  <2> QED
    BY <2>1, <2>2 DEF IInv
<1>2. IInv /\ [Next]_vars => IInv'
  BY TypeStep, OwnStep, ShutdownStep, AwakeStep DEF IInv
<1> QED
  BY <1>1, <1>2, PTL DEF Spec

(* No notification is lost: with one notify_one per submitted task, sent   *)
(* after the mutex is released (lines 66-71), a sleeping worker is never   *)
(* the only one a queued task could be waiting for.                        *)
THEOREM NoTaskLeftBehind == Spec => []EnoughAwake
<1>1. IInv => EnoughAwake
  BY DEF IInv
<1> QED
  BY <1>1, Inductive, PTL

(* Every accepted task has exactly one owner until its future is ready, so *)
(* that a packaged_task runs once and its promise is not broken.           *)
THEOREM EveryTaskOwned == Spec => []OneOwner
<1>1. IInv => OneOwner
  <2> SUFFICES ASSUME IInv, NEW t \in Tasks
               PROVE  Owners(t) = IF future[t] = "pending" THEN 1 ELSE 0
    BY DEF OneOwner
  <2> USE DEF IInv, Owned
  <2> DEFINE Q == {k \in DOMAIN tasks_ : tasks_[k] = t}
             H == {w \in Workers : job[w] = t}
  <2>1. Owners(t) = Cardinality(Q) + Cardinality(H)
    BY DEF Owners
  <2>2. DOMAIN tasks_ = 1 .. Len(tasks_)
    BY LenProperties DEF TypeInv, TypeOK
  <2>3. t # 0
    BY TaskNumbers
  <2>4. ASSUME NEW k \in Q PROVE Q = {k} /\ H = {} /\ future[t] = "pending"
    BY <2>2, <2>4 DEF Queued
  <2>5. ASSUME NEW w \in H PROVE Q = {} /\ H = {w} /\ future[t] = "pending"
    BY <2>2, <2>3, <2>5 DEF Held
  <2>6. CASE Q = {} /\ H = {}
    <3>1. future[t] # "pending"
      BY <2>2, <2>6 DEF Queued, Held
    <3>2. Cardinality(Q) = 0 /\ Cardinality(H) = 0
      BY <2>6, FS_EmptySet
    <3> QED
      BY <2>1, <3>1, <3>2
  <2>7. CASE Q # {}
    <3>1. PICK k \in Q : TRUE
      BY <2>7
    <3>2. Cardinality(Q) = 1 /\ Cardinality(H) = 0
      BY <2>4, FS_EmptySet, FS_Singleton
    <3> QED
      BY <2>1, <2>4, <3>1, <3>2
  <2>8. CASE H # {}
    <3>1. PICK w \in H : TRUE
      BY <2>8
    <3>2. Cardinality(Q) = 0 /\ Cardinality(H) = 1
      BY <2>5, <3>1, FS_EmptySet, FS_Singleton
    <3> QED
      BY <2>1, <2>5, <3>1, <3>2
  <2> QED
    BY <2>6, <2>7, <2>8
<1> QED
  BY <1>1, Inductive, PTL

(* "Pending tasks finish" (lines 16-17), also those that tasks submit: when *)
(* the destructor returns (line 51), none is queued, held or pending.      *)
THEOREM AllTasksFinish == Spec => []Drained
<1>1. IInv => Drained
  <2> SUFFICES ASSUME IInv, main_ = "done"
               PROVE  tasks_ = << >> /\ \A t \in Tasks : future[t] # "pending"
    BY DEF Drained
  <2>1. tasks_ = << >> /\ \A w \in Workers : pc[w] = "exit"
    BY TPAssumption DEF TPAssumption, IInv, Shutdown
  <2>2. \A t \in Tasks : ~ Queued(t)
    BY <2>1, EmptySeq DEF Queued
  <2>3. \A w \in Workers : job[w] = 0
    BY <2>1 DEF IInv, TypeInv
  <2>4. \A t \in Tasks : ~ Held(t)
    BY <2>3, TaskNumbers DEF Held
  <2> QED
    BY <2>1, <2>2, <2>4 DEF IInv, Owned
<1> QED
  BY <1>1, Inductive, PTL

(* The pool and its client never wait for each other: main() does not      *)
(* block in get() (line 114) or in join() (line 51) while every worker     *)
(* that has not returned sleeps.                                           *)
THEOREM NoDeadlock == Spec => []NeverStuck
<1>1. IInv => NeverStuck
  <2> SUFFICES ASSUME IInv, MainBlocked, \A w \in Workers : w \in cv_ \/ pc[w] = "exit"
               PROVE  FALSE
    BY DEF NeverStuck
  <2> USE DEF IInv, TypeInv, TypeOK
  <2>0. \A w \in Workers : pc[w] \in {"loop", "exit"} /\ job[w] = 0
    OBVIOUS
  <2>1. CASE main_ = "join" /\ \E w \in Workers : pc[w] # "exit"
    BY <2>1 DEF Shutdown
  <2>2. CASE main_ = "get" /\ future[next] = "pending"
    <3>1. next \in Tasks
      BY TaskNumbers
    <3>2. \A w \in Workers : pc[w] # "exit"
      BY <2>2 DEF Shutdown
    <3>3. Queued(next)
      <4>1. ~ Held(next)
        BY <2>0, <3>1, TaskNumbers DEF Held
      <4> QED
        BY <2>2, <3>1, <4>1 DEF Owned
    <3>4. Len(tasks_) \in Nat \ {0}
      BY <3>3, LenProperties DEF Queued
    <3>5. cv_ # {}
      BY <3>2, TPAssumption DEF TPAssumption
    <3>6. AtQueue = {} /\ AboutToNotify = {} /\ MainNotifies = 0
      BY <2>0, <2>2, <3>2 DEF AtQueue, AboutToNotify, MainNotifies
    <3>7. Cardinality(AtQueue) = 0 /\ Cardinality(AboutToNotify) = 0
      BY <3>6, FS_EmptySet
    <3>8. Len(tasks_) <= Cardinality(AboutToNotify) + MainNotifies + Cardinality(AtQueue)
      BY <3>5 DEF EnoughAwake, Notifying, AtQueue, AboutToNotify, MainNotifies
    <3> QED
      BY <3>4, <3>6, <3>7, <3>8
  <2> QED
    BY <2>1, <2>2 DEF MainBlocked
<1> QED
  BY <1>1, Inductive, PTL
=============================================================================
