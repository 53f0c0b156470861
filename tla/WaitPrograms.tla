---------------------------- MODULE WaitPrograms ----------------------------
(***************************************************************************)
(* The examples whose threads wait: on a condition variable, or for more   *)
(* than one mutex.  A deadline is untimed: a timed lock that is not to be  *)
(* had may give up.  A set of mutexes is one location, with a bit for each *)
(* mutex that is held, so that scoped_lock takes several in one step.      *)
(***************************************************************************)
EXTENDS SyncPrograms

-----------------------------------------------------------------------------
(* 03_condition_variables of both parts, 04_pitfalls/07_lost_wakeup *)
Locked(body) == <<Lock("m")>> \o body \o <<Unlock("m")>>
Consumer(payload) == Locked(WaitFor("cv", "m", "ready", {1}) \o <<Read("payload", "r"), Check("r", {payload})>>)
Ready == <<Write("payload", K(42)), Write("ready", K(1))>>

BasicCvC ==                     \* signals before the unlock
  TwoThreads(Zeros({"m", "ready", "payload"}), Consumer(42), Locked(Ready \o <<NotifyOne("cv")>>), <<>>)
BasicCvCpp ==                   \* notifies behind it
  TwoThreads(Zeros({"m", "ready", "payload"}), Consumer(42), Locked(Ready) \o <<NotifyOne("cv")>>, <<>>)

(* main fires the starting gun *)
Broadcast_One == NotifyOne("cv")        \* faulty: signal
Broadcast == NotifyAll("cv")
StartingGun(T) ==
  LET worker == Locked(WaitFor("cv", "m", "go", {1}))
  IN [vars |-> Zeros({"m", "go"}),
      code |-> [t \in {"main"} \cup T |-> IF t # "main" THEN worker
                ELSE <<Start(T)>> \o Locked(<<Write("go", K(1)), Broadcast>>) \o SetToSeq({Join(u) : u \in T})]]
Broadcasts == StartingGun({"t1", "t2", "t3"})
LostWakeup == StartingGun({"t1"})       \* good_consumer and main
(* buggy_consumer in its place looks without the mutex, waits without a loop *)
BuggyConsumer ==
  LET consumer == <<Read("go", "s"), IfIn("s", {1}, 5), Lock("m"), Sleep("cv", "m", -1), Lock("m"), Unlock("m"),
                    Read("go", "s")>>
  IN [LostWakeup EXCEPT !.code["t1"] = consumer]

(* Nobody ever sets ready: only the deadline ends the loop. *)
TimedWait ==
  [vars |-> Zeros({"m", "ready"}),
   code |-> [main |-> Locked(<<Read("ready", "s"), IfIn("s", {1}, 4), SleepFor("cv", "m", -1, "r"), Lock("m"),
                               IfIn("r", {0}, -4)>>) \o <<Check("r", {1})>>]]

(* The waiter holds a shared lock, which wait() gives back and takes again. *)
CvAny ==
  TwoThreads(Zeros({"rw", "go"}),
             Reading("rw", <<Read("go", "s"), IfIn("s", {1}, 4), Sleep("cv", "rw", -1),
                             When("rw", 0..9, 1, "acquire", Plain), Jump(-4)>>),
             Writing("rw", <<Write("go", K(1))>>) \o <<NotifyOne("cv")>>, <<>>)

-----------------------------------------------------------------------------
(* Queues.  What one thread puts in order, 0, 1, 2, ..., is kept as two    *)
(* counters: taken..posted-1 is in the queue.                              *)
(* A taker waits for an item or the end; at the end it unlocks and jumps   *)
(* by done from there, else it goes on with m locked and the item in s.    *)
Taking(cv, end, done) ==
  <<Lock("m"), Read("posted", "r"), Read("taken", "s"), Set("n", Minus("r", "s")), IfIn("n", 1..9, 8),
    Read(end, "n"), IfIn("n", {1}, 4), Sleep(cv, "m", -1), Lock("m"), Jump(-8),
    Unlock("m"), Jump(done), Write("taken", Plus("s", 1))>>
Posting(cv) ==
  <<Lock("m"), Read("posted", "r"), Write("posted", Plus("r", 1)), Unlock("m"), NotifyOne(cv)>>
Ending(end, cvs) == <<Lock("m"), Write(end, K(1)), Unlock("m")>> \o [c \in DOMAIN cvs |-> NotifyAll(cvs[c])]
QueueVars == {"m", "posted", "taken", "end"}

(* BoundedQueue: room for one, two items, two consumers *)
BoundedQueue ==
  LET push == <<Lock("m"), Read("posted", "r"), Read("taken", "s"), Set("n", Minus("r", "s")), Read("end", "s"),
                IfIn("s", {1}, 9), IfIn("n", {0}, 4), Sleep("not_full", "m", -1), Lock("m"), Jump(-8),
                Write("posted", Plus("r", 1)), Unlock("m"), NotifyOne("not_empty"), Jump(2), Unlock("m")>>
      pop  == Taking("not_empty", "end", 6)
              \o <<Unlock("m"), NotifyOne("not_full"), WriteAt(Plus("s", 1), K(1)), Jump(-16)>>
  IN Team(Zeros(QueueVars \cup ToSet(Object)),
          <<push \o push \o Ending("end", <<"not_empty", "not_full">>), pop, pop>>, <<>>)

(* TinyPool: two workers; the future of task x is Object[x + 1] and holds  *)
(* x * x + 1 once it is ready.                                             *)
TinyPool ==
  LET worker == Taking("cv", "end", 5) \o <<Unlock("m"), StoreAt(Plus("s", 1), Plus("s", 1), "release"), Jump(-15)>>
      get(x) == <<Await(Object[x + 1], "acquire", 1..9, "r"), Check("r", {x * x + 1})>>
  IN [vars |-> Zeros(QueueVars \cup ToSet(Object)),
      code |-> [main |-> <<Start({"t1", "t2"})>> \o Posting("cv") \o Posting("cv") \o get(0) \o get(1)
                         \o Ending("end", <<"cv">>) \o <<Join("t1"), Join("t2")>>,
                t1 |-> worker, t2 |-> worker]]

(* Account: the worker alone touches balance; call j is awaited before the *)
(* next one is made (the first get_balance of main is left out).  A future *)
(* holds the balance plus 1.                                               *)
ActiveObject ==
  LET change(j, k) == <<IfIn("s", 0..3 \ {j}, 2), Set("n", Plus("n", k))>>
      job == <<Unlock("m"), Read("balance", "n")>> \o change(0, 100) \o change(1, 50)
             \o <<IfIn("n", 0..119, 3)>> \o change(2, -120)
             \o <<Write("balance", R("n")), StoreAt(Plus("s", 1), Plus("n", 1), "release")>>
      call(j, b) == Posting("cv") \o <<Await(Object[j], "acquire", 1..999, "r"), Check("r", {b + 1})>>
  IN [vars |-> Zeros(QueueVars \cup ToSet(Object) \cup {"balance"}),
      code |-> [main |-> <<Start({"t1"})>> \o call(1, 100) \o call(2, 150) \o call(3, 30) \o call(4, 30)
                         \o Ending("end", <<"cv">>) \o <<Join("t1")>>,
                t1 |-> Taking("cv", "end", 3 + Len(job)) \o job \o <<Jump(-13 - Len(job))>>]]

-----------------------------------------------------------------------------
(* Several mutexes.  What takes all of them at once, or gives them back:   *)
Weight(B) == MapThenSumSet(LAMBDA b : 2^b, B)
TakeAll(l, B) == <<When(l, {v \in 0..15 : \A b \in B : (v \div 2^b) % 2 = 0}, Weight(B), "acquire", Plain)>>
GiveAll(l, B) == <<Add(l, -Weight(B), "release", Plain)>>
(* try_lock, or a timed lock: jumps by d when it does not get l *)
TryLock(l, d) == <<Set("s", K(0)), Cas(l, "s", K(1), "acquire", d)>>
Free(l) == <<Load(l, "relaxed", "r"), Check("r", {0})>>        \* at the end nobody holds l

(* 02_deadlock (i), 05_deadlock_demo: by address, m1 before m2 *)
Mutex == <<"m1", "m2">>
LockOrdered(x, y) ==
  IF x < y THEN <<Lock(Mutex[x]), Lock(Mutex[y])>> ELSE <<Lock(Mutex[y]), Lock(Mutex[x])>>
UnlockTwo(x, y) == <<Unlock(Mutex[x]), Unlock(Mutex[y])>>
Ordered ==
  TwoThreads(Zeros({"m1", "m2"}), LockOrdered(1, 2) \o UnlockTwo(1, 2), LockOrdered(2, 1) \o UnlockTwo(1, 2),
             Free("m1") \o Free("m2"))

(* The wrong way: bad_a and bad_b, the threads of 02_deadlock's deadlock_demo *)
BadOrder(first, second) == <<Lock(first), Lock(second), Unlock(second), Unlock(first)>>
(* t3 is the timer of alarm(2), whose signal ends the process, unless main was
   first to clear it. *)
DeadlockRun ==
  [vars |-> Zeros({"m1", "m2", "alarm"}),
   code |-> [main |-> <<Store("alarm", K(1), "relaxed"), Start({"t1", "t2", "t3"}), Join("t1"), Join("t2"),
                        Add("alarm", -1, "relaxed", Plain)>> \o Free("m1") \o Free("m2"),
             t1 |-> BadOrder("m1", "m2"), t2 |-> BadOrder("m2", "m1"),
             t3 |-> <<Add("alarm", 0, "relaxed", "s"), IfIn("s", {0}, 2), Exit>>]]

(* 02_deadlock (iii): try both, give the first back when the second is busy *)
TryBoth ==
  LET take == TryLock("m1", -1) \o TryLock("m2", 2)
              \o <<Jump(3), Unlock("m1"), Jump(-6), Unlock("m2"), Unlock("m1")>>
  IN TwoThreads(Zeros({"m1", "m2"}), take, take, Free("m1") \o Free("m2"))

(* 03_livelock: opposite orders, ATTEMPTS tries, -1 when none succeeds; the
   fixed version only sleeps in between *)
ATTEMPTS == 2
Attempts(first, second, iterations) ==
  <<Set("n", K(0)), Lock(first)>> \o TryLock(second, 5)
  \o <<Unlock(second), Unlock(first), Write(iterations, R("n")), Jump(5),
       Unlock(first), Set("n", Plus("n", 1)), IfIn("n", 0..ATTEMPTS - 1, -9), Write(iterations, K(-1))>>
Livelock ==
  TwoThreads(Zeros({"m1", "m2", "it_a", "it_b"}), Attempts("m1", "m2", "it_a"), Attempts("m2", "m1", "it_b"),
             Free("m1") \o Free("m2") \o <<Read("it_a", "r"), Check("r", -1..ATTEMPTS - 1)>>)

(* 04_scoped_lock, 03_unique_lock, 04_dining_philosophers, 02_deadlock (ii) *)
Transfer ==
  LET transfer(from, to) == TakeAll("AB", {0, 1})
                            \o <<Read(from, "r"), Write(from, Plus("r", -1)), Read(to, "r"), Write(to, Plus("r", 1))>>
                            \o GiveAll("AB", {0, 1})
  IN TwoThreads([Zeros({"AB", "A", "B"}) EXCEPT !["A"] = 100, !["B"] = 100],
                transfer("A", "B") \o transfer("A", "B"), transfer("B", "A") \o transfer("B", "A"),
                <<Read("A", "r"), Check("r", {100}), Read("B", "r"), Check("r", {100})>>)
AtomicDual ==
  LET both == TakeAll("m1m2", {0, 1}) \o GiveAll("m1m2", {0, 1})
      one  == TakeAll("m1m2", {0}) \o GiveAll("m1m2", {0})
  IN TwoThreads(Zeros({"m1m2"}), both, both, one \o one \o Free("m1m2"))
ScopedBoth ==
  LET both == TakeAll("m1m2", {0, 1}) \o GiveAll("m1m2", {0, 1})
  IN TwoThreads(Zeros({"m1m2"}), both, both, Free("m1m2"))
MEALS == 1
Philosophers ==
  LET io == Guarded("io_mu", <<>>)
      philosopher(id) == Repeat(MEALS, TakeAll("forks", {id, (id + 1) % 3}) \o io
                                       \o GiveAll("forks", {id, (id + 1) % 3})) \o io
  IN Team(Zeros({"forks", "io_mu"}), <<philosopher(0), philosopher(1), philosopher(2)>>, Free("forks"))

(* 03_trylock and the timed mutexes: n tries of a mutex that another holds *)
Poker(l, n) == FlattenSeq([k \in 1..n |-> TryLock(l, 2) \o <<Unlock(l)>>])
Trylock ==                      \* leaves its loop at the first success
  LET holder == <<Lock("lock"), Unlock("lock")>>
      poker == TryLock("lock", 3) \o <<Unlock("lock"), Jump(4)>> \o Poker("lock", 1)
  IN TwoThreads(Zeros({"lock"}), holder, poker, Free("lock"))
TimedLock == TwoThreads(Zeros({"lock"}), <<Lock("lock"), Unlock("lock")>>, Poker("lock", 1), Free("lock"))
TimedMutex == TwoThreads(Zeros({"m"}), <<Lock("m"), Unlock("m")>>, Poker("m", 2), Free("m"))

(* Recursive mutexes: the owner, here the only thread, goes deeper. *)
Again(l) == When(l, 1..9, 1, "acquire", Plain)
Leave(l) == Add(l, -1, "release", Plain)
Recursive(l, body, count) ==
  [vars |-> Zeros({l, "count_"}),
   code |-> [main |-> <<Start({"t1"}), Join("t1"), Read("count_", "r"), Check("r", {count})>> \o Free(l),
             t1 |-> <<Lock(l)>> \o body \o <<Again(l)>> \o body \o <<Leave(l), Leave(l)>>]]
RecursiveMutex == Recursive("rlock", <<>>, 0)
Tree == Recursive("m_", Increment("count_"), 2)

-----------------------------------------------------------------------------
(* 03_readers_writers: two readers sum up, under sum_m, what they read     *)
Bench(vars, read, writes) ==
  LET reader == <<Set("s", K(0))>> \o read \o <<Set("s", Sum2("s", "r"))>> \o read \o <<Set("s", Sum2("s", "r"))>>
                \o Guarded("sum_m", <<Read("total", "n"), Write("total", Sum2("n", "s"))>>)
  IN Team(Zeros(vars \cup {"sum_m", "total", "v"}), <<reader, reader, writes>>,
          <<Read("total", "r"), Check("r", 0..8)>>)
BenchMutex ==
  LET write(k) == Guarded("m", <<Write("v", K(k))>>)
  IN Bench({"m"}, Guarded("m", <<Read("v", "r")>>), write(1) \o write(2))
BenchShared ==
  LET write(k) == Writing("sm", <<Write("v", K(k))>>)
  IN Bench({"sm"}, Reading("sm", <<Read("v", "r")>>), write(1) \o write(2))
BenchAtomic ==
  LET write(k) == <<Store("v", K(k), "relaxed")>>
  IN Bench({}, <<Load("v", "relaxed", "r")>>, write(1) \o write(2))

(* 08_thread_specific: the key is made once; each thread asks twice for its
   buffer, an Object that malloc hands out and the destructor frees (0). *)
TlsPthread ==
  LET scratch(slot, id) ==
        Once("key_once", <<Write("key", K(1))>>)
        \o <<Read("key", "r"), Check("r", {1}), Read(slot, "r"), IfIn("r", 1..4, 5), Add("heap", 1, "relaxed", "r"),
             Set("r", Plus("r", 1)), Write(slot, R("r")), WriteAt(R("r"), K(id))>>
      buf_dtor(slot) == <<Read(slot, "r"), WriteAt(R("r"), K(0)), Add("freed", 1, "relaxed", Plain)>>
      worker(slot, id) == scratch(slot, id) \o <<ReadAt("r", "n"), Check("n", {id})>>
                          \o scratch(slot, id) \o <<ReadAt("r", "n"), Check("n", {id}), WriteAt(R("r"), K(-id))>>
                          \o buf_dtor(slot)
      two(l) == <<Load(l, "relaxed", "r"), Check("r", {2})>>
  IN TwoThreads(Zeros({"key_once", "key", "slot1", "slot2", "heap", "freed"} \cup ToSet(Object)),
                worker("slot1", 1), worker("slot2", 2), two("heap") \o two("freed"))

(* 09_cancellation: a request that sleep() acts upon; the handler frees the
   resource, and the thread's result says that it was cancelled *)
Cancellation ==
  [vars |-> Zeros({"o1", "stop", "rv"}),
   code |-> [main |-> <<Start({"t1"}), Store("stop", K(1), "release"), Join("t1"), Read("rv", "r"), Check("r", {1}),
                        Read("o1", "r"), Check("r", {0})>>,
             t1 |-> <<Write("o1", K(1)), Load("stop", "acquire", "s"), IfIn("s", {0}, -1), Write("o1", K(0)),
                      Write("rv", K(1))>>]]
=============================================================================
