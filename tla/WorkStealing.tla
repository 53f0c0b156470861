---------------------------- MODULE WorkStealing ----------------------------
(***************************************************************************)
(* The class WorkStealingPool of 03_patterns/07_work_stealing.cpp: one     *)
(* deque per worker, each with its own mutex; a worker serves its own      *)
(* deque from the back and steals from the front of the others.  pending_, *)
(* stop_ and the round-robin counter rr are atomics, read and written      *)
(* apart from the deques.                                                  *)
(*                                                                         *)
(* main() submits NTasks tasks and destroys the pool.  A task of Nests     *)
(* calls submit() itself, NNested times, from the worker that runs it.     *)
(***************************************************************************)
EXTENDS Integers, Sequences, FiniteSets

CONSTANTS N,            \* the number of workers, 0 .. N-1
          NTasks,       \* the tasks main() submits
          Nests,        \* those of them that submit tasks of their own
          NNested,      \* how many each of those submits
          IntMax        \* the largest value of an int

ASSUME WSAssumption ==
  /\ N \in Nat \ {0} /\ NTasks \in Nat \ {0} /\ NNested \in Nat
  /\ Nests \subseteq 1 .. NTasks
  /\ IntMax \in Nat \ {0} /\ N <= IntMax

Workers == 0 .. N - 1
Tasks == (1 .. NTasks) \X (0 .. NNested)     \* <<t, 0>> is main's, <<t, k>> its k-th child

VARIABLES dq,                   \* the deque of each worker
          stop_, pending_, rr,  \* the atomics
          pc,                   \* where each worker is in worker_loop
          tries,                \* its loop counter k
          task,                 \* the task t it holds
          main_,                \* where main() is
          submitted,            \* how many tasks main has submitted
          born                  \* how many tasks the task each worker runs has submitted

vars == <<dq, stop_, pending_, rr, pc, tries, task, main_, submitted, born>>

NoTask == <<0, 0>>

Init == /\ dq = [w \in Workers |-> << >>]
        /\ stop_ = FALSE /\ pending_ = 0 /\ rr = 0
        /\ pc = [w \in Workers |-> "loop"]
        /\ tries = [w \in Workers |-> 0]
        /\ task = [w \in Workers |-> NoTask]
        /\ main_ = "submit"
        /\ submitted = 0
        /\ born = [w \in Workers |-> 0]

Goto(w, from, to) == pc[w] = from /\ pc' = [pc EXCEPT ![w] = to]

-----------------------------------------------------------------------------
(* Faulty variants, one plausible slip each; no specification uses them.   *)
PopLocal_Keeps(w) ==            \* pop_back() forgotten
  /\ dq[w] # << >> /\ Goto(w, "pop", "run")
  /\ task' = [task EXCEPT ![w] = dq[w][Len(dq[w])]]
  /\ UNCHANGED <<dq, tries, stop_, pending_, rr, main_, submitted, born>>
StealFrom_OffByOne(w, victim) ==        \* k <= data_.size()
  /\ pc[w] = "steal" /\ tries[w] <= N /\ dq[victim] = << >>
  /\ tries' = [tries EXCEPT ![w] = @ + 1]
  /\ UNCHANGED <<pc, dq, task, stop_, pending_, rr, main_, submitted, born>>
Counted_Store == pending_' = 1          \* a store for the fetch_add
Drain_Early ==                          \* the destructor does not wait
  /\ main_ = "drain" /\ main_' = "stop"
  /\ UNCHANGED <<dq, stop_, pending_, rr, pc, tries, task, submitted, born>>
Stop_Forgotten ==                       \* joins without stop_
  /\ main_ = "stop" /\ main_' = "join"
  /\ UNCHANGED <<dq, stop_, pending_, rr, pc, tries, task, submitted, born>>

-----------------------------------------------------------------------------
(* rr.fetch_add(1) on an int wraps to the smallest value; % rounds towards *)
(* zero, so a negative counter gives a negative remainder.                 *)
Incremented(n) == IF n = IntMax THEN - IntMax - 1 ELSE n + 1
Remainder(n) == IF n >= 0 THEN n % N ELSE - ((- n) % N)

(* submit(t): push to the next worker's deque, then count it.  An index    *)
(* outside data_ has no defined effect; the model stops there.             *)
Push(t) == /\ rr' = Incremented(rr)
           /\ Remainder(rr) \in Workers
           /\ dq' = [dq EXCEPT ![Remainder(rr)] = Append(@, t)]
Counted == pending_' = pending_ + 1

Submit == \/ /\ main_ = "submit"
             /\ Push(<<submitted + 1, 0>>)
             /\ submitted' = submitted + 1
             /\ main_' = "count"
             /\ UNCHANGED <<stop_, pending_, pc, tries, task, born>>
          \/ /\ main_ = "count"
             /\ Counted
             /\ main_' = IF submitted < NTasks THEN "submit" ELSE "drain"
             /\ UNCHANGED <<dq, stop_, rr, pc, tries, task, submitted, born>>

(* ~WorkStealingPool: spin while something is pending, stop, join. *)
Drain == /\ main_ = "drain" /\ pending_ <= 0
         /\ main_' = "stop"
         /\ UNCHANGED <<dq, stop_, pending_, rr, pc, tries, task, submitted, born>>

Stop == /\ main_ = "stop"
        /\ stop_' = TRUE
        /\ main_' = "join"
        /\ UNCHANGED <<dq, pending_, rr, pc, tries, task, submitted, born>>

Join == /\ main_ = "join" /\ \A w \in Workers : pc[w] = "exit"
        /\ main_' = "done"
        /\ UNCHANGED <<dq, stop_, pending_, rr, pc, tries, task, submitted, born>>

Main == Submit \/ Drain \/ Stop \/ Join

-----------------------------------------------------------------------------
(* worker_loop(w). *)
Loop(w) == /\ Goto(w, "loop", IF stop_ THEN "exit" ELSE "pop")
           /\ UNCHANGED <<dq, stop_, pending_, rr, tries, task, main_, submitted, born>>

(* pop_local: the newest task of one's own deque. *)
PopLocal(w) ==
  /\ IF dq[w] = << >>
     THEN /\ Goto(w, "pop", "steal")
          /\ tries' = [tries EXCEPT ![w] = 0]
          /\ UNCHANGED <<dq, task>>
     ELSE /\ Goto(w, "pop", "run")
          /\ task' = [task EXCEPT ![w] = dq[w][Len(dq[w])]]
          /\ dq' = [dq EXCEPT ![w] = SubSeq(@, 1, Len(@) - 1)]
          /\ UNCHANGED tries
  /\ UNCHANGED <<stop_, pending_, rr, main_, submitted, born>>

(* steal_from: the oldest task of a random victim, data_.size() times. *)
StealFrom(w, victim) ==
  /\ tries[w] < N
  /\ tries' = [tries EXCEPT ![w] = @ + 1]
  /\ IF victim = w \/ dq[victim] = << >>
     THEN pc[w] = "steal" /\ UNCHANGED <<pc, dq, task>>
     ELSE /\ Goto(w, "steal", "run")
          /\ task' = [task EXCEPT ![w] = Head(dq[victim])]
          /\ dq' = [dq EXCEPT ![victim] = Tail(@)]
  /\ UNCHANGED <<stop_, pending_, rr, main_, submitted, born>>

(* Nothing found: leave when all is done and the pool stops, else yield. *)
Idle(w) == /\ tries[w] = N
           /\ Goto(w, "steal", IF pending_ = 0 /\ stop_ THEN "exit" ELSE "loop")
           /\ UNCHANGED <<dq, stop_, pending_, rr, tries, task, main_, submitted, born>>

(* t(): a task that submits others does so here, one push and one count    *)
(* after the other.                                                        *)
Children(w) == IF task[w][1] \in Nests /\ task[w][2] = 0 THEN NNested ELSE 0

NestedPush(w) == /\ born[w] < Children(w)
                 /\ Goto(w, "run", "count")
                 /\ Push(<<task[w][1], born[w] + 1>>)
                 /\ born' = [born EXCEPT ![w] = @ + 1]
                 /\ UNCHANGED <<stop_, pending_, tries, task, main_, submitted>>

NestedCount(w) == /\ Goto(w, "count", "run")
                  /\ Counted
                  /\ UNCHANGED <<dq, stop_, rr, tries, task, main_, submitted, born>>

(* The task returns and is counted off. *)
Ran(w) == /\ Goto(w, "run", "loop")
          /\ born[w] = Children(w)
          /\ pending_' = pending_ - 1
          /\ task' = [task EXCEPT ![w] = NoTask]
          /\ born' = [born EXCEPT ![w] = 0]
          /\ UNCHANGED <<dq, stop_, rr, tries, main_, submitted>>

Worker(w) == \/ Loop(w) \/ PopLocal(w) \/ (\E victim \in Workers : StealFrom(w, victim))
             \/ Idle(w) \/ NestedPush(w) \/ NestedCount(w) \/ Ran(w)

Terminating == main_ = "done" /\ UNCHANGED vars

Next == Main \/ (\E w \in Workers : Worker(w)) \/ Terminating

Spec == Init /\ [][Next]_vars
FairSpec == Spec /\ WF_vars(Main) /\ \A w \in Workers : WF_vars(Worker(w))

-----------------------------------------------------------------------------
OnDeque(w) == {dq[w][k] : k \in DOMAIN dq[w]}
Queued == UNION {OnDeque(w) : w \in Workers}
Held == {task[w] : w \in Workers} \ {NoTask}
Uncounted == Cardinality({w \in Workers : pc[w] = "count"}) + IF main_ = "count" THEN 1 ELSE 0
QueuedCount == Cardinality({x \in Workers \X (1 .. Cardinality(Tasks)) : x[2] <= Len(dq[x[1]])})
HeldCount == Cardinality({w \in Workers : task[w] # NoTask})

TypeOK ==
  /\ dq \in [Workers -> Seq(Tasks)]
  /\ stop_ \in BOOLEAN
  /\ pending_ \in - Cardinality(Tasks) .. Cardinality(Tasks)
  /\ rr \in - IntMax - 1 .. IntMax
  /\ pc \in [Workers -> {"loop", "pop", "steal", "run", "count", "exit"}]
  /\ tries \in [Workers -> 0 .. N]
  /\ task \in [Workers -> Tasks \cup {NoTask}]
  /\ main_ \in {"submit", "count", "drain", "stop", "join", "done"}
  /\ submitted \in 0 .. NTasks /\ born \in [Workers -> 0 .. NNested]

(* A task is in one place: owner and thieves, each under the deque's own   *)
(* mutex, never take the same task (lines 49-64).                          *)
OnePlace == QueuedCount + HeldCount = Cardinality(Queued \cup Held)

(* pending_ lags behind the deques by the submissions that have pushed but *)
(* not counted yet (lines 104-106), and by nothing else.  It is negative   *)
(* when a task is run before it is counted.                                *)
PendingLags == pending_ + Uncounted = QueuedCount + HeldCount

(* "Drain" (comment of line 92): when the destructor has returned, every   *)
(* task submitted to the pool has run.                                     *)
Drained == main_ = "done" => Queued = {} /\ Held = {}

(* The destructor returns. *)
Termination == <>(main_ = "done")
=============================================================================
