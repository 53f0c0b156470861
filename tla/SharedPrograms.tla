--------------------------- MODULE SharedPrograms ---------------------------
(***************************************************************************)
(* The examples whose threads share plain and atomic variables, as         *)
(* programs of Instructions.  The number of threads and of iterations is   *)
(* reduced; the memory orders are the source's.  A Check stands for an     *)
(* assert of the source, or for the value its output calls expected.       *)
(***************************************************************************)
EXTENDS Instructions

Plain == "zero"                 \* the register of a result nobody uses

(* main starts the threads, joins them in order and goes on with rest. *)
Team(vars, codes, rest) ==
  LET name == SubSeq(<<"t1", "t2", "t3">>, 1, Len(codes))
  IN [vars |-> vars,
      code |-> [t \in {"main"} \cup ToSet(name) |->
                 IF t # "main" THEN codes[CHOOSE j \in DOMAIN name : name[j] = t]
                 ELSE <<Start(ToSet(name))>> \o [j \in DOMAIN name |-> Join(name[j])] \o rest]]
TwoThreads(vars, code1, code2, rest) == Team(vars, <<code1, code2>>, rest)

ITERS == 2
(* Threads that all run body twice, then main checks that l is n. *)
Count(vars, body, l, n) ==
  TwoThreads(vars, Repeat(ITERS, body), Repeat(ITERS, body), <<Read(l, "r"), Check("r", {n})>>)

-----------------------------------------------------------------------------
(* Faulty variants, one plausible slip each; no specification uses them.   *)
AcquireRelease_Relaxed ==       \* ready.store(true, relaxed)
  TwoThreads(Zeros({"data", "ready"}),
             <<Write("data", K(1234)), Store("ready", K(1), "relaxed")>>,
             <<Await("ready", "acquire", {1}, "s"), Read("data", "r"), Check("r", {1234})>>, <<>>)
Dekker_AcqRel ==                \* acquire and release instead of seq_cst
  TwoThreads(Zeros({"x", "y", "rx", "ry"}),
             <<Store("x", K(1), "release"), Load("y", "acquire", "r"), Write("ry", R("r"))>>,
             <<Store("y", K(1), "release"), Load("x", "acquire", "r"), Write("rx", R("r"))>>,
             <<Read("rx", "r"), Read("ry", "s"), Set("r", Sum2("r", "s")), Check("r", {1, 2})>>)
DclLocked_Unchecked(i) ==       \* no second look under the lock
  <<Set("r", K(i)), Write(Object[i], K(i)), Store("g_atomic", K(i), "release")>>

-----------------------------------------------------------------------------
(* 05_memory_model *)
Dekker ==
  TwoThreads(Zeros({"x", "y", "rx", "ry"}),
             <<Store("x", K(1), "seq_cst"), Load("y", "seq_cst", "r"), Write("ry", R("r"))>>,
             <<Store("y", K(1), "seq_cst"), Load("x", "seq_cst", "r"), Write("rx", R("r"))>>,
             <<Read("rx", "r"), Read("ry", "s"), Set("r", Sum2("r", "s")), Check("r", {1, 2})>>)

AcquireRelease ==
  TwoThreads(Zeros({"data", "ready"}),
             <<Write("data", K(1234)), Store("ready", K(1), "release")>>,
             <<Await("ready", "acquire", {1}, "s"), Read("data", "r"), Check("r", {1234})>>, <<>>)

Relaxed ==
  LET body == <<Add("hits", 1, "relaxed", Plain), Add("misses", 1, "relaxed", Plain)>>
  IN TwoThreads(Zeros({"hits", "misses"}), body, body,
                <<Load("hits", "relaxed", "r"), Check("r", {2}),
                  Load("misses", "relaxed", "r"), Check("r", {2})>>)

(* consume is acquire: "In practice ... they all promote it to acquire" *)
Consume ==
  TwoThreads(Zeros({"g", "o1"}),
             <<Write("o1", K(10)), Store("g", K(1), "release")>>,
             <<Await("g", "acquire", {1}, "s"), ReadAt("s", "r"), Check("r", {10})>>, <<>>)

Fences ==
  TwoThreads(Zeros({"data", "flag"}),
             <<Write("data", K(99)), Fence("release"), Store("flag", K(1), "relaxed")>>,
             <<Await("flag", "relaxed", {1}, "s"), Fence("acquire"), Read("data", "r"),
               Check("r", {99})>>, <<>>)

(* run_once<MO>: r1 = r2 = 0 is what both outcomes 0 means *)
RunOnce(o, allowed) ==
  TwoThreads(Zeros({"x", "y", "r1", "r2"}),
             <<Store("x", K(1), o), Load("y", o, "r"), Write("r1", R("r"))>>,
             <<Store("y", K(1), o), Load("x", o, "r"), Write("r2", R("r"))>>,
             <<Read("r1", "r"), Read("r2", "s"), Set("r", Sum2("r", "s")), Check("r", allowed)>>)

-----------------------------------------------------------------------------
(* 02_cpp11_threads/04_atomics *)
AtomicCounter ==
  LET w == Repeat(ITERS, <<Add("g_counter", 1, "seq_cst", Plain)>>)
  IN TwoThreads(Zeros({"g_counter"}), w, w, <<Load("g_counter", "seq_cst", "r"), Check("r", {4})>>)

MemoryOrders ==
  TwoThreads(Zeros({"data", "flag"}),
             <<Write("data", K(42)), Store("flag", K(1), "release")>>,
             <<Await("flag", "acquire", {1}, "s"), Read("data", "r"), Check("r", {42})>>, <<>>)

Increment(l) == <<Read(l, "n"), Write(l, Plus("n", 1))>>         \* ++l on a plain l

SpinLock == <<When("f_", {0}, 1, "acquire", Plain)>>
SpinUnlock == <<Store("f_", K(0), "release")>>
AtomicFlag == Count(Zeros({"f_", "n"}), SpinLock \o Increment("n") \o SpinUnlock, "n", 4)

MyAdd(l) == <<Load(l, "relaxed", "r"), Cas(l, "r", Plus("r", 1), "acq_rel", 0)>>
AtomicMax(l, c) == <<Load(l, "relaxed", "r"), IfIn("r", c..9, 2), Cas(l, "r", K(c), "acq_rel", -1)>>
CompareExchange ==
  TwoThreads(Zeros({"n", "hi"}),
             Repeat(ITERS, MyAdd("n")) \o AtomicMax("hi", 1) \o AtomicMax("hi", 2),
             Repeat(ITERS, MyAdd("n")) \o AtomicMax("hi", 3),
             <<Load("n", "seq_cst", "r"), Check("r", {4}), Load("hi", "seq_cst", "r"), Check("r", {3})>>)

(* Readers of a configuration that a writer replaces, until they see stop *)
AtomicPointer ==
  LET reader == <<Load("stop", "relaxed", "s"), IfIn("s", {1}, 5), Load("g_cfg", "acquire", "s"),
                  ReadAt("s", "r"), Check("r", {100, 110}), Jump(-5)>>
      writer == <<Write("o2", K(110)), Store("g_cfg", K(2), "release")>>
  IN [vars |-> Zeros({"g_cfg", "stop", "o1", "o2"}),
      code |-> [main |-> <<Write("o1", K(100)), Store("g_cfg", K(1), "release"),
                           Start({"t1", "t2"}), Join("t2"),
                           Store("stop", K(1), "relaxed"), Join("t1")>>,
                t1 |-> reader, t2 |-> writer]]

(* The Treiber stack.  Node i is Object[i]; what is kept of it is next. *)
StackPush(i) == <<Load("head_", "relaxed", "r"), Write(Object[i], R("r")),
                  Cas("head_", "r", K(i), "release", -1)>>
StackPop(empty) ==              \* jumps by empty from its second instruction
  <<Load("head_", "acquire", "r"), IfIn("r", {0}, empty), ReadAt("r", "s"),
    Cas("head_", "r", R("s"), "acquire", -2), ReadAt("r", "s")>>
LockFreeStack ==
  TwoThreads(Zeros({"head_", "o1", "o2", "o3"}), StackPush(1) \o StackPush(2), StackPush(3),
             StackPop(6) \o <<Set("n", Plus("n", 1)), Jump(-6), Check("n", {3})>>)
(* push and pop at the same time, which the class is for *)
ConcurrentStack ==
  TwoThreads(Zeros({"head_", "o1", "o2", "o3"}), StackPush(1) \o StackPush(2), StackPop(4), <<>>)

-----------------------------------------------------------------------------
(* Counters and mutexes: 01_pthreads/02_mutex, 01_pthreads/07_spinlock,    *)
(* 02_cpp11_threads/02_mutex, 04_pitfalls                                  *)
PthreadMutex == Count(Zeros({"lock", "counter"}), Guarded("lock", Increment("counter")), "counter", 4)
PthreadSpin  == Count(Zeros({"lock", "n"}), Guarded("lock", Increment("n")), "n", 4)
StdMutex     == Count(Zeros({"g_lock", "counter"}), Guarded("g_lock", Increment("counter")), "counter", 4)
LockGuard ==
  LET inc == Repeat(ITERS, Guarded("m_", Increment("v_")))
  IN TwoThreads(Zeros({"m_", "v_"}), inc, inc,
                <<Lock("m_"), Read("v_", "r"), Unlock("m_"), Check("r", {4})>>)

(* "(1) BUG: unsynchronized", the one program that races *)
Unsynchronized ==
  LET w == Repeat(ITERS, Increment("c")) IN TwoThreads(Zeros({"c"}), w, w, <<Read("c", "r")>>)
WithMutex  == Count(Zeros({"m", "c"}), Guarded("m", Increment("c")), "c", 4)
WithAtomic ==
  LET w == Repeat(ITERS, <<Add("c", 1, "seq_cst", Plain)>>)
  IN TwoThreads(Zeros({"c"}), w, w, <<Load("c", "seq_cst", "r"), Check("r", {4})>>)

(* The stop flag of 01_pthreads/09_cancellation *)
StopFlag ==
  [vars |-> Zeros({"stop"}),
   code |-> [main |-> <<Start({"t1"}), Store("stop", K(1), "release"), Join("t1")>>,
             t1 |-> <<Load("stop", "acquire", "s"), IfIn("s", {0}, -1)>>]]

-----------------------------------------------------------------------------
(* Initialisation on first use: 03_patterns/08_double_checked_locking,     *)
(* 02_cpp11_threads/06_call_once                                           *)

(* call_once and a function's static: one thread runs body, the others wait
   for it to be done (0: not begun, 1: under way, 2: done). *)
Once(flag, body) ==
  <<Await(flag, "acquire", {0, 2}, "s"), IfIn("s", {2}, Len(body) + 3),
    Cas(flag, "s", K(1), "acquire", -2)>> \o body \o <<Store(flag, K(2), "release")>>

DclLocked(i) ==
  <<Load("g_atomic", "relaxed", "r"), IfIn("r", 1..4, 4),
    Set("r", K(i)), Write(Object[i], K(i)), Store("g_atomic", K(i), "release")>>
GetAtomicDcl(i) ==
  LET locked == Guarded("g_atomic_m", DclLocked(i))
  IN <<Load("g_atomic", "acquire", "r"), IfIn("r", 1..4, Len(locked) + 1)>> \o locked
GetMeyers(i)   == Once("guard", <<Write("singleton", K(i))>>) \o <<Read("singleton", "s")>>
GetCallOnce(i) == Once("g_once", <<Write("o" \o ToString(i + 2), K(i)), Write("g_ptr", K(i + 2))>>)
                  \o <<Read("g_ptr", "s"), ReadAt("s", "s")>>
DoubleChecked ==
  LET user(i) == GetAtomicDcl(i) \o <<ReadAt("r", "s"), Check("s", {1, 2})>>
  IN TwoThreads(Zeros({"g_atomic", "g_atomic_m", "o1", "o2"}), user(1), user(2), <<>>)
Singletons ==
  LET user(i) == GetMeyers(i) \o <<Check("s", {1, 2})>> \o GetCallOnce(i) \o <<Check("s", {1, 2})>>
  IN TwoThreads(Zeros({"guard", "singleton", "g_once", "g_ptr", "o3", "o4"}), user(1), user(2), <<>>)

CallOnce ==
  LET worker == Once("g_init", <<Write("g_data", K(1))>>) \o <<Read("g_data", "r"), Check("r", {1})>>
  IN TwoThreads(Zeros({"g_init", "g_data"}), worker, worker, <<>>)
=============================================================================
