----------------------------- MODULE ThreadPool -----------------------------
(***************************************************************************)
(* The class ThreadPool of 03_patterns/01_thread_pool.cpp and the life of  *)
(* one pool: main() submits NTasks tasks, waits for some of their futures  *)
(* (all of them in the example) and destroys the pool.  The tasks of Nests *)
(* are callables that use the pool themselves: task i submits task         *)
(* NTasks + i from the worker that runs it, which is how submit() can meet *)
(* a pool that is shutting down.                                           *)
(*                                                                         *)
(* tasks_ and stop_ are only touched under mu_: a critical section is one  *)
(* action.  submit() and the destructor notify after they have unlocked.   *)
(***************************************************************************)
EXTENDS Naturals, Sequences, FiniteSets, CondVar

CONSTANTS Workers,      \* the threads of workers_
          NTasks,       \* how many tasks main() submits
          Nests         \* those of them that submit another task

ASSUME TPAssumption ==
  /\ IsFiniteSet(Workers) /\ Workers # {}
  /\ NTasks \in Nat \ {0}
  /\ Nests \subseteq 1 .. NTasks

VARIABLES tasks_, stop_, cv_,   \* the pool; cv_ is the set of the sleeping workers
          pc,                   \* where each worker is in worker_loop
          job,                  \* the task a worker has taken, 0 for none
          main_,                \* where main() is
          next,                 \* its loop counter: the next task to submit or to get
          future                \* the state of the future of each task

pool == <<tasks_, stop_, cv_>>
vars == <<pool, pc, job, main_, next, future>>

Tasks == 1 .. 2 * NTasks
Nested(t) == NTasks + t

Init == /\ tasks_ = << >>
        /\ stop_ = FALSE
        /\ cv_ = {}
        /\ pc = [w \in Workers |-> "loop"]
        /\ job = [w \in Workers |-> 0]
        /\ main_ = "submit"
        /\ next = 1
        /\ future = [t \in Tasks |-> "none"]

-----------------------------------------------------------------------------
(* Faulty variants, one plausible slip each; no specification uses them.   *)
Enqueue_Twice(t) == tasks_' = tasks_ \o <<t, t>> /\ UNCHANGED <<stop_, cv_>>
Retire_Undrained(w) ==      \* if (stop_) return
  /\ pc[w] = "loop" /\ w \notin cv_ /\ stop_
  /\ pc' = [pc EXCEPT ![w] = "exit"] /\ UNCHANGED <<pool, job, main_, next, future>>
Sleep_Unchecked(w) ==       \* wait() without the predicate
  /\ pc[w] = "loop" /\ w \notin cv_
  /\ cv_' = cv_ \cup {w} /\ UNCHANGED <<tasks_, stop_, pc, job, main_, next, future>>
DestroyNotify_One ==        \* notify_one for notify_all
  /\ main_ = "notify_all" /\ cv_' \in NotifyOne(cv_) /\ main_' = "join"
  /\ UNCHANGED <<tasks_, stop_, pc, job, next, future>>
Get_PastTheEnd ==           \* i <= futs.size()
  /\ main_ = "get" /\ next \in Tasks /\ future[next] # "pending"
  /\ IF next <= NTasks THEN next' = next + 1 /\ UNCHANGED main_
                       ELSE main_' = "destroy" /\ UNCHANGED next
  /\ UNCHANGED <<pool, pc, job, future>>

-----------------------------------------------------------------------------
(* submit(): the critical section; its notify_one follows as another step. *)
Enqueue(t) == tasks_' = Append(tasks_, t) /\ UNCHANGED <<stop_, cv_>>
Notify == cv_' \in NotifyOne(cv_) /\ UNCHANGED <<tasks_, stop_>>

Submit ==
  /\ \/ /\ main_ = "submit"
        /\ Enqueue(next)
        /\ future' = [future EXCEPT ![next] = "pending"]
        /\ main_' = "notify" /\ UNCHANGED next
     \/ /\ main_ = "notify"
        /\ Notify
        /\ IF next < NTasks THEN main_' = "submit" /\ next' = next + 1
                            ELSE main_' = "get" /\ next' = 1
        /\ UNCHANGED future
  /\ UNCHANGED <<pc, job>>

(* futs[i].get() blocks until the task has run. *)
Get == /\ main_ = "get"
       /\ future[next] # "pending"
       /\ IF next < NTasks THEN next' = next + 1 /\ UNCHANGED main_
                           ELSE main_' = "destroy" /\ UNCHANGED next
       /\ UNCHANGED <<pool, pc, job, future>>

(* A client may also drop the futures it has not waited for. *)
Drop == /\ main_ = "get"
        /\ main_' = "destroy"
        /\ UNCHANGED <<pool, pc, job, next, future>>

(* ~ThreadPool: stop_ under the lock, notify_all without it, join. *)
DestroyStop == /\ main_ = "destroy"
               /\ stop_' = TRUE
               /\ main_' = "notify_all"
               /\ UNCHANGED <<tasks_, cv_, pc, job, next, future>>

DestroyNotify == /\ main_ = "notify_all"
                 /\ cv_' = NotifyAll(cv_)
                 /\ main_' = "join"
                 /\ UNCHANGED <<tasks_, stop_, pc, job, next, future>>

DestroyJoin == /\ main_ = "join"
               /\ \A w \in Workers : pc[w] = "exit"
               /\ main_' = "done"
               /\ UNCHANGED <<pool, pc, job, next, future>>

Main == Submit \/ Get \/ Drop \/ DestroyStop \/ DestroyNotify \/ DestroyJoin

-----------------------------------------------------------------------------
(* worker_loop: wait for stop_ || !tasks_.empty(), ... *)
Sleep(w) == /\ pc[w] = "loop" /\ w \notin cv_
            /\ ~ stop_ /\ tasks_ = << >>
            /\ cv_' = cv_ \cup {w}
            /\ UNCHANGED <<tasks_, stop_, pc, job, main_, next, future>>

(* ... return when the pool stops and nothing is left, ... *)
Retire(w) == /\ pc[w] = "loop" /\ w \notin cv_
             /\ stop_ /\ tasks_ = << >>
             /\ pc' = [pc EXCEPT ![w] = "exit"]
             /\ UNCHANGED <<pool, job, main_, next, future>>

(* ... else take the front task. *)
Take(w) == /\ pc[w] = "loop" /\ w \notin cv_
           /\ tasks_ # << >>
           /\ job' = [job EXCEPT ![w] = Head(tasks_)]
           /\ tasks_' = Tail(tasks_)
           /\ pc' = [pc EXCEPT ![w] = "run"]
           /\ UNCHANGED <<stop_, cv_, main_, next, future>>

(* The packaged_task stores the result, or the exception, in the future. *)
Finish(w, result) == /\ future' = [future EXCEPT ![job[w]] = result]
                     /\ job' = [job EXCEPT ![w] = 0]
                     /\ pc' = [pc EXCEPT ![w] = "loop"]

(* job() of a task that does not touch the pool. *)
Run(w) == /\ pc[w] = "run" /\ job[w] \notin Nests
          /\ Finish(w, "value")
          /\ UNCHANGED <<pool, main_, next>>

(* job() of a task that calls submit(): accepted, ... *)
NestedSubmit(w) ==
  /\ pc[w] = "run" /\ job[w] \in Nests
  /\ ~ stop_
  /\ Enqueue(Nested(job[w]))
  /\ future' = [future EXCEPT ![Nested(job[w])] = "pending"]
  /\ pc' = [pc EXCEPT ![w] = "notify"]
  /\ UNCHANGED <<job, main_, next>>

NestedNotify(w) == /\ pc[w] = "notify"
                   /\ Notify
                   /\ Finish(w, "value")
                   /\ UNCHANGED <<main_, next>>

(* ... or refused by the exception "pool shut down", which ends the task. *)
NestedRefused(w) == /\ pc[w] = "run" /\ job[w] \in Nests
                    /\ stop_
                    /\ Finish(w, "exception")
                    /\ UNCHANGED <<pool, main_, next>>

Worker(w) == \/ Sleep(w) \/ Retire(w) \/ Take(w) \/ Run(w)
             \/ NestedSubmit(w) \/ NestedNotify(w) \/ NestedRefused(w)

Spurious == \E w \in cv_ : /\ cv_' = cv_ \ {w}
                           /\ UNCHANGED <<tasks_, stop_, pc, job, main_, next, future>>

Terminating == main_ = "done" /\ UNCHANGED vars

Next == Main \/ (\E w \in Workers : Worker(w)) \/ Spurious \/ Terminating

Spec == Init /\ [][Next]_vars

(* Every thread is scheduled, and none takes mu_ infinitely often. *)
FairSpec == Spec /\ WF_vars(Main) /\ \A w \in Workers : WF_vars(Worker(w))

-----------------------------------------------------------------------------
TypeOK ==
  /\ tasks_ \in Seq(Tasks)
  /\ stop_ \in BOOLEAN
  /\ cv_ \subseteq Workers
  /\ pc \in [Workers -> {"loop", "run", "notify", "exit"}]
  /\ job \in [Workers -> Tasks \cup {0}]
  /\ main_ \in {"submit", "notify", "get", "destroy", "notify_all", "join", "done"}
  /\ next \in 1 .. NTasks
  /\ future \in [Tasks -> {"none", "pending", "value", "exception"}]

(* A pending future has exactly one owner: its task is either once in the  *)
(* queue or in the hands of one worker, so that its promise is neither     *)
(* satisfied twice nor broken (lines 65-70 and 85-88).                     *)
Owners(t) == Cardinality({i \in DOMAIN tasks_ : tasks_[i] = t})
             + Cardinality({w \in Workers : job[w] = t})
OneOwner == \A t \in Tasks : Owners(t) = IF future[t] = "pending" THEN 1 ELSE 0

(* "Pending tasks finish" (comment of lines 16-17): when the destructor    *)
(* returns, every task that was accepted has run.                          *)
Drained == main_ = "done" => tasks_ = << >> /\ \A t \in Tasks : future[t] # "pending"

(* No task is left behind: while a worker sleeps, at least as many others  *)
(* are at the queue, or about to be woken, as there are queued tasks.      *)
Notifying == Cardinality({w \in Workers : pc[w] = "notify"}) + IF main_ = "notify" THEN 1 ELSE 0
EnoughAwake ==
  cv_ # {} => Len(tasks_) <= Notifying + Cardinality({w \in Workers \ cv_ : pc[w] = "loop"})

(* The pool and its client never wait for each other: it is not possible   *)
(* that every worker sleeps or has returned and that main() blocks, in     *)
(* get() (line 114) or in join() (line 51).                                *)
MainBlocked == \/ main_ = "get" /\ future[next] = "pending"
               \/ main_ = "join" /\ \E w \in Workers : pc[w] # "exit"
NeverStuck == ~ (MainBlocked /\ \A w \in Workers : w \in cv_ \/ pc[w] = "exit")

(* The destructor returns; with Drained and OneOwner: every accepted task  *)
(* gets its result, whether main() waits for it or not, also one that a    *)
(* task submits while the pool is shutting down.                           *)
Termination == <>(main_ = "done")
=============================================================================
