# Specifications of the threading examples

The repository is a book about threads; its code is the 77 example programs
under `src/examples/` (C with pthreads, C++11 to C++20, OpenMP). This directory
holds TLA+ specifications of them, TLC runs that check the specifications on
small instances, and TLAPS proofs that hold for instances of every size.

Paths below are relative to `src/examples/`.

## 1. Inventory: the components

### Components with a module of their own

| Component | Source | State | Operations |
| --- | --- | --- | --- |
| Queue with close | `03_patterns/02_producer_consumer.cpp:22-55` | `q_`, `cap_`, `closed_`, the sleepers of `cv_full_` and `cv_empty_` | `push`, `pop`, `close` |
| Producers and consumers | same file, 57-90 | loop counters, `produced`, `consumed`, `producers_done` | the two lambdas, `main` |
| Thread pool | `03_patterns/01_thread_pool.cpp` | `tasks_`, `stop_`, the sleepers of `cv_`, futures | `submit` (also from inside a task), `worker_loop`, the destructor |
| pthread ring buffer | `01_pthreads/03_condition_variables/02_producer_consumer.c` | `buf`, `head`, `tail`, `count`, `m`, two wait sets, cancellation requests | `q_put`, `q_get`, quotas, `pthread_cancel`, joins |
| Gated reader/writer lock | `04_pitfalls/04_starvation.cpp` | `sm_`, `writer_pending_`, `stop` | `lock_shared`, `unlock_shared`, `lock`, `unlock`, the two loops |
| Work-stealing pool | `03_patterns/07_work_stealing.cpp` | a deque per worker, `pending_`, `stop_`, `rr` | `submit`, `pop_local`, `steal_from`, `worker_loop`, the destructor |
| Pipeline | `03_patterns/06_pipeline.cpp` | three queues, four stages | `BQ::push/pop/close`, the stages |
| Tagged stack | `04_pitfalls/06_aba_problem.cpp` | `head_` (pointer and tag), the nodes, the addresses that are free | `push`, `pop` |

How they interact: every one but the stack of these is a set of threads around shared state
under one or more mutexes, and threads wait for each other through condition
variables, futures, joins, or by spinning. There is no message passing, no
persistence and no crash recovery.

What is hard about them:

* Notifications are sent **after** the unlock (`push`, `close`, `submit`, the
  destructors): between the two steps anybody may run.
* One `notify_one` is sent for each item, whoever wakes, and the woken thread
  competes with threads that never slept. Wake-ups may also come for no reason.
* The end of work is a protocol: the last producer closes; a worker leaves only
  when it is told to *and* nothing is left; the close runs down the pipeline.
* Two pieces of state that belong together are changed apart: the gate and the
  lock in `FairRWLock`, the deque and `pending_` in `WorkStealingPool`.
* In the tagged stack a compare-exchange is decided on a pointer that was read
  earlier and whose node may have been popped, freed and pushed again since.
* A cancelled consumer ends in the middle of `pthread_cond_wait`.

What makes them correct: nothing is lost, duplicated or reordered; no wake-up is
lost (no state where all that could act are asleep); the end is final and
leaves nothing behind; nobody is overtaken without bound; every run ends.

### The small programs

The other examples are short programs about one facility each: starting,
joining and detaching threads, their arguments and attributes, thread-local
data, plain, try, timed, recursive and several mutexes, condition variables,
reader/writer locks, barriers, latches, semaphores, spinlocks, futures,
`call_once`, atomics with every memory order, fences, a lock-free stack,
double-checked locking, cancellation, OpenMP regions, loops and tasks. Their
state is a few plain and atomic variables; what is hard about them is the memory
model. 82 programs (some files give several) are run by one machine,
`Machine`; `SharedMemory` gives it the programs. They are correct when no plain variable is raced for, what they
assert or print as expected holds, and they end. Three of them are wrong on
purpose: the block that `04_pitfalls/01_race_condition.cpp` marks BUG,
`buggy_consumer` (both race), and `deadlock_run`, which only its alarm ends; two
are the stack with pops as in `main`, and with pops at the same time as pushes
(finding 4).

### Not modelled

* The text of the book, its site, figures and makefiles: no threads.
* Time. Sleeps and durations of work may take any time. What holds only because
  of them cannot be stated: in `03_patterns/07_work_stealing.cpp:114` `sum` is
  destroyed before the pool, and only the sleeps of `main` (lines 125, 133) see to
  it that no task runs any more by then.
* The counter `rr` of the same file (line 101), an `int`, wraps after 2^31 calls
  of `submit`, and `%` keeps the sign: the index of the deque is then negative.
  `WorkStealing` has the wrap and the sign (`Incremented`, `Remainder`), and no
  step where there is no such deque; the checked instance does not get there.
* Random numbers, text that is only printed, timing measurements.

## 2. Plan

Order, the most important behaviour first. All modules are done; of the theorems,
the second half of item 10 is open.

1. `CondVar`, `BlockingQueue`, `ProducerConsumer`, abstract `Delivery`; proofs.
2. `ThreadPool`.
3. `PthreadQueue`, abstract `BoundedFifo`.
4. `FairRWLock`.
5. `WorkStealing`.
6. `Pipeline`: three instances of `BlockingQueue`.
7. `MemoryModel`, `Instructions`, the programs, `SharedMemory`.
8. `TaggedStack`, abstract `AtomicStack`: nodes that are popped, freed and pushed
   again while another thread is in the middle of a pop.
9. Memory model: a plain write against earlier reads; the remaining programs.

Theorems, in this order (section 6 says what they state):

1. `ProducerConsumer`: types, no push refused, the end is final, no lost
   wake-up. Done.
2. `ThreadPool`. Done.
3. `PthreadQueue`, with the refinement of `BoundedFifo`. Done.
4. `FairRWLock`. Done.
5. `WorkStealing`. Done.
6. `ProducerConsumer`: `CountersAgree`; the safety part of `Delivers`. Done.
7. `TaggedStack`, with the refinement of `AtomicStack`. Done.
8. `Pipeline`. Done.
9. `MemoryModel` and `Machine`: what the operations keep of well-formed views
   (`TypeOK`). Done.
10. No data race, for every program whose plain variables have one owner at a time
    (`Ownership`). Done. The same for variables that are published through a flag,
    a pointer or a fence, and for reader/writer locks: open, `NoRace` is
    model-checked for them.

Runs: one per component and one per disagreement with the text.

## 3. The modules

| Module | Models |
| --- | --- |
| `CondVar` | `notify_one` and `notify_all` on the set of sleepers |
| `BlockingQueue` | the class `Queue<T>`; `BQ<T>` of the pipeline has the same code |
| `Delivery` | abstract: each item to one consumer, in its producer's order, and no end before all are out |
| `ProducerConsumer` | the program around the queue |
| `ThreadPool` | the class and one client |
| `BoundedFifo` | abstract: a bounded first-in, first-out queue |
| `PthreadQueue` | the ring buffer program |
| `FairRWLock` | the lock and the reader and writer threads |
| `WorkStealing` | the pool and one client |
| `Pipeline` | four stages around three `BlockingQueue`s |
| `AtomicStack` | abstract: a stack whose operations take one step each |
| `TaggedStack` | `push` and `pop` with the tagged head, and the allocator |
| `MemoryModel` | the C++ memory: modification orders, views, fences, data races |
| `Instructions` | the notation for the small programs |
| `SharedPrograms`, `SyncPrograms`, `WaitPrograms` | the small programs: shared variables; library objects and OpenMP; condition variables and several mutexes |
| `Machine` | the machine that runs any library of such programs |
| `Ownership` | who owns which plain variable at which place of a program |
| `ClaimSearch` | finds such an ownership for a program, if there is one |
| `SharedMemory` | the machine with the examples as its library |
| `ProducerConsumer_proofs`, `ThreadPool_proofs`, `PthreadQueue_proofs`, `FairRWLock_proofs`, `WorkStealing_proofs`, `Pipeline_proofs`, `TaggedStack_proofs`, `SharedMemory_proofs` | the theorems about these modules (the last about `Machine` and `Ownership`) |

### From code to actions, in the component modules

* Everything between a lock and its unlock is **one action**, with the
  condition of the wait as its guard. What comes after the unlock (a
  notification, an atomic) is another action. `pc` says where a thread is.
* A condition variable is the set of the threads asleep on it, and has the
  source's name. Going to sleep, when the predicate is false, is an action;
  `NotifyOne` removes any one sleeper; a sleeper that is out of the set tries
  its critical section again, predicate included. `Spurious` actions remove a
  sleeper for no reason.
* In `PthreadQueue` the mutex is a variable as well (`m`), because a thread can
  end while it holds it. A request to cancel is remembered in `cancelled` and
  acted upon at a cancellation point: in the nap, or in the wait, which takes
  `m` back first (`Unwind`).
* In `TaggedStack` each access to `head_` or to a node is an action; a
  compare-exchange is two, its success and its failure, which may also happen
  for no reason. The source leaks popped nodes ("We leak for clarity"), so the
  tag has nothing to do there. The model lets each popped node be leaked or freed
  at once, nondeterministically, and freed addresses be handed out again: the
  header of the file says that this is what the tag is for. Reading a freed node
  finds anything. `chain` is a history variable, the nodes pushed and not popped.
* In `FairRWLock`, `WorkStealing` and `TaggedStack` each atomic access is an
  action. Their atomics are taken as sequentially consistent; the memory orders
  are the subject of `SharedMemory`.
* Sleeps and durations of work are untimed: a step may take any time. The one
  exception is `Patient` in `PthreadQueue`: `TRUE` says that `sleep(2)` is long
  enough for the consumers to do what they can, which is the intention of
  `main` and makes the finding stronger.
* The clients: `ThreadPool` has a `main` that may also leave before it has
  asked for all the futures (`Drop`), and tasks that submit tasks (`Nests`);
  so has `WorkStealing`. The classes allow it; their own `main` does not do it,
  so `Drop` and `Children` are marked external. In `ThreadPool` the refusal of
  a late `submit` by the exception of line 68 is an action.

Names: `q_get_Ring` is the part of `q_get` that works on the ring; the suffix
`_` is the source's. A definition whose comment says "faulty" is a plausible
slip in the code, to show that a property would notice it; it is in no
specification.

### The memory machine

A program is, for each thread, a sequence of instructions (`Instructions`):
loads, stores and read-modify-writes with a memory order, fences, plain reads
and writes, sleeping and notifying, starting and joining, and `Check`, which
stands for an assert or for the value the program's output calls expected.
Values are in registers; jumps are relative. Jumps, register arithmetic and
checks are no steps of their own: they go with the instruction before them
(`Settled`, a recursive function that follows them for as many instructions as
the body has). A program is well formed when its jumps stay in its body and it names
only its own variables and threads (`WellFormed`, assumed of the library by
`ProgramsAssumption` and evaluated by TLC for all examples). Only threads that
have not been started can be started; a pointer to no object stops its thread
(`Valid`).

`MemoryModel` is a view-based model of the release/acquire fragment with
relaxed and sequentially consistent accesses. A load may return any message the
thread's view does not exclude; acquire takes over the view that release put
into the message; a relaxed read keeps it for a later acquire fence; a
read-modify-write reads the last message and continues a release sequence. A
plain access that is not ordered after the last write races (`raced`), a plain
write also when it is not ordered after every read since (the `missed` part of a
view: the reads one knows nothing of), and a racing read returns any value
written.

The threads' objects are locations: a mutex or spinlock is 0 or 1, a
reader/writer lock counts readers (-1: a writer), a recursive mutex its depth, a
semaphore its slots, `call_once` has three states, a set of mutexes is one
number with a bit for each (so that `scoped_lock` takes several in one step). Of
a mutex only the last message is kept (`Locks`): every access reads it. A timed
lock may give up when the mutex is not free. `memory_order_consume` is treated
as acquire, as the source says compilers do.

Left out of the memory model: load buffering, sequentially consistent fences
and stores into the middle of the modification order. No program has the shape
that could tell: no fence is `seq_cst`, all stores to one location are ordered
(among them those under one mutex), and no two threads each load, relaxed, what
the other stores afterwards. A weak compare-exchange that fails for no reason
only repeats the attempt.

The end of the process (`Exit`: `main` returns, or SIGALRM) ends every thread
where it stands, also the detached ones; `MayFail` is a library call that may
report an error; the timer of `alarm` is a thread.

`Machine` picks one of the `Programs` of its configuration in `Init` and
never changes it, so one TLC run explores every program.

`Ownership` says how most of the examples keep clear of data races. A *claim* names
the plain variables of a program, which are each thread's own, which a mutex
guards, and, for every place of the code that can be reached, the mutexes that are held
there and, for `main`, the threads that are started and not joined. `Keeps` compares
a claim with the code, instruction by instruction: each plain access is by the
owner, each mutex is taken by an acquiring read-modify-write and given back by a
releasing one or a store, `main` starts and joins holding nothing, jumps lead to places
with the same owners. This is what a reviewer does who reads the code and runs
nothing. `ClaimSearch` follows the code to find the claim; what it finds is not
trusted but compared (`ClaimsAssumption`, evaluated by TLC in every run). 54 of
the 81 programs keep their claim (`Owners` in `SharedMemory`). The others publish data through a
flag, a pointer or a fence, share a reader/writer lock or a barrier of their own,
reach the threads' data through pointers, start threads from threads,
may fail to start one, or race.

## 4. The runs

Numbers are distinct states. Unless said otherwise deadlock is checked; a
`Terminating` step stands for the end of the program.

| Run | Instance | States | Shows |
| --- | --- | --- | --- |
| `producer_consumer` | 2 producers of 2 items, 2 consumers, room for 2 | 13,870 | see below |
| `thread_pool` | 3 workers, 3 tasks, 2 of them submit another | 8,502 | |
| `pthread_queue` | 2 producers of 2 items, 3 consumers, ring of 2, any time to cancel | 133,580 | |
| `pthread_queue_cancel` | ring of 1, `Patient` | violation | finding 1 |
| `fair_rwlock` | 2 readers, 2 writers, 2 writes each | 3,920 | |
| `fair_rwlock_gate` | 2 readers, 1 writer | violation | finding 2 |
| `work_stealing` | 2 workers, 3 tasks, 2 of them submit one | 31,393 | |
| `work_stealing_drain` | 1 task that submits two | violation | finding 3 |
| `pipeline` | 4 values, queues of 2 | 1,925 | |
| `tagged_stack` | 2 threads, 4 calls each, 2 addresses, 9 tags | 390,225 | |
| `shared_memory` | 81 programs, 1 to 4 threads besides `main` | 47,906 | |
| `concurrent_stack` | push, push and pop at the same time | violation | finding 4 |

What the passing runs check:

* `producer_consumer`. `NoPushAfterClose`: nobody pushes into a closed queue,
  so the ignored result of `push` loses nothing. `NeverStuck`, `IInv`
  (`EnoughAwake` in it): no lost wake-up. `CountersAgree`: at the end produced,
  consumed and the items agree. `EndIsFinal`: after one consumer has been told
  there is no more, the queue never changes. `Termination`. `Delivers`: it
  implements `Delivery`, fairness included.
* `thread_pool`. `OneOwner`: a task whose future is pending is in exactly one
  place. `EnoughAwake`, `NeverStuck`: no lost wake-up. `Drained`: the
  destructor leaves nothing. `Termination`: the destructor returns. Together:
  every future gets its result, also those of tasks submitted by tasks, and when
  nobody waits.
* `pthread_queue`. `ImplementsFifo`: the ring with its indices implements
  `BoundedFifo`. `EnoughAwake`; `NothingLeft`: when the consumers have done
  what they can the ring is empty; `ProducersFinish`: the quotas suffice.
  Deadlock is not checked: the program really stops there (finding 1).
* `fair_rwlock`. `BoundedOvertaking`: a reader gets ahead of a waiting writer
  once at most. `Termination`: a writer is never starved.
* `work_stealing`. `OnePlace`: no task is taken twice. `PendingLags`:
  `pending_` differs from the tasks there are by exactly the submissions that
  have pushed and not counted. `Drained` (when a task submits at most one),
  `Termination`.
* `pipeline`. `InOrder`: what is printed, and that all of it is. `CloseCascades`:
  a stage closes only after the one before it and with its input empty.
  `Termination`.
* `tagged_stack`. `Linked`: the list from `head_` on is what the successful
  pushes and pops made it, without cycles, lost nodes, or nodes that are free.
  `ImplementsStack`: every call takes effect at one step between its begin and its
  end, and returns what it removed. `Termination`: every call returns.
* `shared_memory`. `NoRace`: no program races but the block marked BUG and
  `buggy_consumer`. `ChecksHold`: asserts and expected results. `EachOnce`:
  initialisation on first use happens once and all see its result
  (`OneSingleton`), and work shared out among threads is done once each
  (`SharedOut`). `Termination`: no deadlock, no lock left taken, every flag seen,
  every retry successful; `deadlock_run` ends by its alarm, `buggy_consumer` alone
  may sleep for ever. `TypeOK` also states that views are well formed. The run
  also evaluates what the proofs assume of the examples: all are well formed, and
  those of `Owners` keep their claims.

An invariant `NeverStuck` is used besides TLC's deadlock check because a
spurious wake-up, always possible, would hide a state in which everybody sleeps.

### Why the bounds are enough

Two of each kind of thread make every race between two of them happen, and one
more on the side that sleeps makes "the wrong one wakes up" happen (three workers,
three consumers of the ring). The queues are small enough to be full and to be
empty with threads asleep on both sides; the ring wraps around. The work of a
thread is enough for it to come back to the queue after others did. In the small
programs the loops are cut to `ITERS = 2`, `PHASES = 2`, `ATTEMPTS = 2`,
`MEALS = 1`, `N = 4` iterations for OpenMP; the semaphore has `POOL = 2` slots
for three users. `Seen` in `FairRWLock` caps the count of overtakings just above the
number the property forbids. `IntMax` in `WorkStealing` is never reached
in the run: it would take 2^31 submissions. In `TaggedStack` four `Calls` of two
threads and two addresses are enough for "pop A, pop B, free A, push X at A,
push B" in the middle of another pop (without the tag `Linked` fails); `Tags = 9`
is one more than the changes there can be, so the tag does not come round, as it
does not in 2^64 changes.

### Fairness

Weak fairness of each thread: it is scheduled, and gets a mutex that stays free.
In the component modules a critical section is one action, and each thread enters
finitely many of them, so nobody is kept out for ever and weak fairness is
enough; nothing is assumed of spurious wake-ups. In `FairRWLock` nothing else is
assumed of `std::shared_mutex`: no queue of waiters, no preference. In
`SharedMemory` taking a mutex is a step of its own and a sleeper may wake for no
reason again and again, so a mutex that is free again and again is assumed to be
obtained (strong fairness of each thread's `Updates` and successful
compare-exchanges, `Exchanges`); a store becomes visible to those that keep
looking, and a deadline passes (strong fairness of `Latest` and `TimesOut`, of
some thread). In `TaggedStack` an exchange that could succeed again and again
succeeds some time (strong fairness of `Changes`): a weak compare-exchange may
fail for no reason, but not for ever.

## 5. Findings

1. `pthread_queue_cancel`: a consumer cancelled in `pthread_cond_wait` takes the
   mutex back and ends with it; a second consumer that waits can never end, and
   `main` hangs in the join. The text says they are simply cancelled.
2. `fair_rwlock_gate`: "when a writer wants in, no NEW readers may enter" is not
   what the lock does: a reader between the gate and `sm_.lock_shared()` still
   enters. It is harmless (`BoundedOvertaking`, `Termination` hold).
3. `work_stealing_drain`: `submit` pushes before it counts, so a task that
   submits two others can be left behind by the destructor's "Drain". The
   example's own `main` does not submit from tasks.
4. `concurrent_stack`: after a failed compare-exchange, whose failure order is
   relaxed, `pop` evaluates `old->next` of a node it has not acquired. In `main`
   the pops come after the joins, where it cannot happen. `TaggedStack::pop`
   has the same failure order (`04_pitfalls/06_aba_problem.cpp:68`); `TaggedStack`
   here does not model memory orders, so no run shows it there.

## 6. The proofs

Each of the seven component modules has its theorems in a module named after it
with `_proofs`; those about the memory machine are in `SharedMemory_proofs`. They hold for every value of the constants that the assumption of
the module allows: any finite sets of threads, any number of items, tasks, writes
or calls, any capacity. The runs check the same formulas on small instances.

What the assumptions ask for: the sets of threads are finite, disjoint, and not
empty where the program could not do without; counts and capacities are positive
integers; a value that stands for "none" (`Nobody`, `NoNode`, `Empty`) is not
one of the real ones. Two are less obvious. `WSAssumption` has `N <= IntMax`:
the number of deques is an `int` in line 101. `TSAssumption` has
`Cardinality(Threads) * Calls < Tags`: the tag does not come round during a run,
which is what the 64-bit counter is for; without it the stack is not correct.

Every safety proof has the same form: an invariant `IInv` (`FlowInv` and its
neighbours in `ProducerConsumer_proofs`, `Inv` and `KeptInOrder` in
`SharedMemory_proofs`) that holds initially and is kept by
every step, one proof step for each action, and theorems that follow from it.

### `ProducerConsumer`

| Theorem | States |
| --- | --- |
| `TypeCorrect` | `Spec => []TypeOK`; the bound `cap_` on the queue is part of it |
| `NothingIsRefused` | `Spec => []NoPushAfterClose` |
| `TheEndIsFinal` | `Spec => EndIsFinal` (an action property) |
| `Inductive` | `Spec => []IInv` |
| `NoLostWakeup` | `Spec => []NeverStuck` |
| `NothingIsLost` | `Spec => []CountersAgree` |
| `DeliversInOrder` | `Spec => Abstract!DSafe`: the program refines `Delivery`, fairness left out |

The argument goes in layers, each using those before it.

1. `TypeOK` and the loop bound (`InLoop`).
2. Who closes: `producers_done` counts the producers that have finished
   (`DoneCounts`), so only the last one goes to `close`; while any producer is
   still in its loop the queue is open (`LastOneCloses`); those asleep are at the
   place where they wait (`SleepersWait`); and who has been told the end left
   behind a closed and empty queue (`EndMeansEmpty`). `NothingIsRefused` and
   `TheEndIsFinal` follow.
3. Wake-ups: `EnoughAwake`. When a consumer sleeps, at least as many consumers
   are awake and on their way to `pop` as there are items; when a producer
   sleeps, as many producers are on their way as there are free places. A push adds an
   item and wakes a consumer (if one sleeps), a pop takes an item and is one
   consumer less; that the notifier and the notified are in the count at the same time is
   what makes it inductive. `NeverStuck` is not inductive: it says nothing of
   states in which some thread is awake. It follows: were all asleep or gone, no one
   would be awake, so the queue would be empty and full at once, or closed with
   a sleeper and nobody left to notify.
4. The items: what has been received and what is in the queue are what each
   producer has pushed, each once, and those of one producer are in its
   order (`FlowInv`). Each step is then a step of `Delivery` or none.
5. The atomics: `produced` is what the producers' loop counters say, `consumed`
   lags behind what was received by the consumers between `pop` and the counter
   (`CountInv`). Together with the joins (`JoinInv`) it gives `CountersAgree`.

### `ThreadPool`

`TypeCorrect`, `EveryTaskOwned` (`OneOwner`), `NoTaskLeftBehind`
(`EnoughAwake`), `AllTasksFinish` (`Drained`), `NoDeadlock` (`NeverStuck`).
The invariant: which tasks exist yet (`Fresh`), so that a submission brings a new
one; a pending future is in the queue or in one worker's hands (`Owned`, which is
`OneOwner` without counting); how the pool shuts down (`Shutdown`): a worker
returns only from an empty queue that can no longer grow; and `EnoughAwake`.
`Drained` is not inductive: that the queue stays empty after a worker has left
needs the refusal of a submission after `stop_` (line 68), which is in `Shutdown`.

### `PthreadQueue`

`TypeCorrect`, `RingIsFifo` (`ImplementsFifo`), `NoSignalLost` (`EnoughAwake`),
`RingIsDrained` (`NothingLeft`), all with consumers cancelled at any time.
The refinement maps the ring to the sequence of the `count` slots from `tail` on;
what makes it work is `RingInv`: `head` is `(tail + count) % CAP`, and those slots
hold items. `RingIsDrained` needs the numbers as well (`CountsMoved`): before
anybody is cancelled, what was put is what was got and what is in the ring, so
consumers that have all got their quotas have got everything.

### `FairRWLock`

`TypeCorrect`, `OvertakingIsBounded` (`BoundedOvertaking`), and two that no run
states: `MutualExclusion` (a writer is alone inside) and `NoDeadlock` (the
gate and the lock never block everybody). `PendingCounts` says that
`writer_pending_` is the number of writers between lines 49 and 53;
`HoldersAreIn` ties the lock to the places of the threads; `OnePassEach` is what
bounded overtaking lacks to be inductive: while a writer is announced, a
reader already past the gate has not used its one entry.

### `WorkStealing`

`TypeCorrect`, `OneTaskOnePlace` (`OnePlace`), `PendingIsExact` (`PendingLags`),
and two about the destructor. `OnlyLateChildrenAreLost`: whatever tasks
submit, when the destructor has returned nobody holds a task, and what is left on
a deque is a second or later child of a task that submits; so finding 3 is the only
way to lose one. `PoolIsDrained`: `Drained`, under the
hypothesis that no task submits more than one other (`Nests = {} \/ NNested <= 1`),
which the run `work_stealing_drain` shows to be needed. The invariant says that tasks
on deques and in hands are different (`UniqueInv`) and have been submitted, a
child by a task that has begun (`BirthInv`); `PendingLags`; and what the destructor
can miss when it sees `pending_ = 0` (`LateInv`): at that moment no deque holds a
task, and every task there is belongs to a worker between a push and its count.

### `Pipeline`

`TypeCorrect`, `NothingIsLost` (`InOrder`), `CloseFollowsTheItems`
(`CloseCascades`), and `SomeoneIsAwake`, which no run states: until the joins
are over some stage is awake. `FlowInv` numbers the items through, from the
sink's hand back to the source, without a gap; `CloseInv` ties each `closed_` to
the places of the stages on both sides; `AsleepInv` gives every sleeper its reason,
or a `close` that is about to notify it. With all asleep the reasons contradict each
other: the first stage that sleeps on an empty queue has an awake stage behind it.

### `TaggedStack`

`TypeCorrect`, `ListIsIntact` (`Linked`), `StackIsLinearizable`
(`ImplementsStack`). `TagInv`: a thread whose `cur` carries the tag of `head_` has
read `head_` as it is, because each change takes a tag of its own (the
changes still to come are counted, which keeps the tag below `Tags`); `OwnInv`: the
node in a thread's hands is in nobody else's, neither in the list nor free;
`ReadInv`: so what was read of the list (`next`, `then`) is true when the exchange
succeeds; `ValueInv` the same for what is read after it. `Linked` alone is not
inductive, as a successful exchange of a stale `cur` would break it.

### The memory machine

These theorems are about every library of well-formed programs on `Machine`, not
only the examples: any number of threads, any instructions in any order.

| Theorem | States |
| --- | --- |
| `TypeCorrect` | `FairSpec => []TypeOK` |
| `RaceFree` | a program that keeps its claim never races; `NoRace` follows for it |
| `LocksExclude` | in such a program no two threads hold the same mutex |

`TypeCorrect`. The invariant `Inv` has four parts. `MemOK`: views point to
writes there are; a message's view knows the message itself, and what it tells of
other locations is there (`MessagesKnow`); what a thread's fence gives away it
knows, and what it knows an acquire fence would also give (`ThreadsKnow`,
`rel <= cur <= acq`); `OrdersKept`: of a lock one message is kept, and the last
sequentially consistent write exists. `ThreadsOK`: every thread is at a place of its body or
behind it, and register `zero` is 0. `Fresh` and `Sleepers` are there because the
rest is not inductive without them: a thread that is started takes over its
starter's view, which keeps `rel` below it only if it has released nothing yet;
and a sleeper goes on from the place behind its `sleep`, which the code must
have. That `Settled` stays in the body is an induction over its run, without the
library's induction rule: the set of numbers of steps for which it fails has a least
element (`WellFoundedInduction`), which is not 0 and has a predecessor that fails.

`RaceFree`. While a program runs, `Orderly` holds: every thread is at a place of
its claim, and has been started, or has ended, when `main`'s place says so (`InPlace`);
a mutex has the value that says whether somebody holds it, and at most one thread
does (`LocksRight`); and each plain variable is *known* to its owner: its view has
the last write, and all reads since (`OwnersKnow`). Since the owner alone accesses it, no access
races. Two things make it inductive. While a mutex is free nobody owns what
it guards: then its last message tells it to whoever takes the mutex, or, before
the first time, all who may take it know it already. And somebody who may take the
mutex knows in any case, so that `main`, when it has joined the last of them,
does: the knowledge of a mutex is never lost between the end of one holder and the
join. A release that is not a release, an access outside the lock or a read of a
result before the join fails in `Keeps`. After `exit` of the whole process
nothing is claimed: the threads stop wherever they are (`AllEnded`).

A claim is about the owners of plain variables, nothing else. It does not say that the
program ends or computes anything in particular, and that a program keeps none
does not mean that it races.

### What is only model-checked

* Liveness: `Termination` of every component, `ProducersFinish`, and the fairness of `Delivers`.
  They rest on weak or strong fairness, and that on ENABLED.
* `NoRace` for the 27 programs without a claim: 25 that do not race, and the two
  that are called racy, of which it says nothing.
* `ChecksHold` and `EachOnce` in `SharedMemory`. They are about particular finite
  programs (the number an example prints, the object all callers get), all
  behaviours of which the run explores.
* What `ClaimSearch` finds: not proved to be a claim that is kept, but compared with
  the code each time.
