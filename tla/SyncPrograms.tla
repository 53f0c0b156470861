---------------------------- MODULE SyncPrograms ----------------------------
(***************************************************************************)
(* The examples whose threads meet at a library object: starting and       *)
(* joining, futures, semaphores, latches, barriers, reader/writer locks,   *)
(* OpenMP's work sharing.  What such an object does to memory is written   *)
(* with the instructions: a wait acquires what a post released.            *)
(***************************************************************************)
EXTENDS SharedPrograms

-----------------------------------------------------------------------------
(* 01_basics of both parts.  said stands for what a thread prints.  A      *)
(* detached thread is not waited for: the process may end before it does. *)
Say == <<Write("said", K(1))>>
Said == <<Read("said", "r"), Check("r", {1})>>
HelloC ==                       \* pthread_create may fail
  [vars |-> Zeros({"said"}),
   code |-> [main |-> <<MayFail(5), Start({"t1"}), Join("t1")>> \o Said \o <<Exit>>, t1 |-> Say]]
HelloCpp == [vars |-> Zeros({"said"}), code |-> [main |-> <<Start({"t1"}), Join("t1")>> \o Said, t1 |-> Say]]
ThreadJoin ==                   \* the joined thread's result, then three ticks
  [vars |-> Zeros({"said", "rv", "tick"}),
   code |-> [main |-> <<Start({"t1"}), Join("t1"), Read("rv", "r"), Check("r", {51966})>> \o Said
                      \o <<Start({"t2"}), Exit>>,
             t1 |-> Say \o <<Write("rv", K(51966))>>, t2 |-> Repeat(3, Increment("tick"))]]
ThreadAttr == [vars |-> Zeros({"said"}), code |-> [main |-> <<Start({"t1"}), Exit>>, t1 |-> Say]]
JoinDetach ==                   \* joined by hand, by ~joiner, and detached
  [vars |-> Zeros({"said", "raii", "detached"}),
   code |-> [main |-> <<Start({"t1"}), Join("t1")>> \o Said \o <<Start({"t2"}), Join("t2"), Read("raii", "r"),
                      Check("r", {1}), Start({"t3"}), Exit>>,
             t1 |-> Say, t2 |-> <<Write("raii", K(1))>>, t3 |-> <<Write("detached", K(1))>>]]

(* calls is one variable for each thread; main's own stays 0. *)
ThreadLocal ==
  LET user(calls) == Repeat(ITERS, Increment(calls)) \o <<Read(calls, "r"), Check("r", {ITERS})>>
  IN TwoThreads(Zeros({"calls", "calls1", "calls2"}), user("calls1"), user("calls2"),
                <<Read("calls", "r"), Check("r", {0})>>)

(* Arguments and results go through plain memory. *)
ThreadArgs ==
  LET worker(a, k) == <<Read(a, "r"), Check("r", {k})>>
  IN [vars |-> Zeros({"args0", "args1"}),
      code |-> [main |-> <<Write("args0", K(10)), Start({"t1"}), Write("args1", K(20)), Start({"t2"}),
                           Join("t1"), Join("t2")>>,
                t1 |-> worker("args0", 10), t2 |-> worker("args1", 20)]]

(* The square comes back in memory of the thread, the cube in main's own. *)
ThreadReturn ==
  [vars |-> Zeros({"input", "retval", "o1", "pkg_n", "pkg_out"}),
   code |-> [main |-> <<Write("input", K(7)), Start({"t1"}), Join("t1"), Read("retval", "r"),
                        ReadAt("r", "s"), Check("s", {49}),
                        Write("pkg_n", K(7)), Start({"t2"}), Join("t2"), Read("pkg_out", "r"),
                        Check("r", {343})>>,
             t1 |-> <<Read("input", "n"), Write("o1", Times("n", 7)), Write("retval", K(1))>>,
             t2 |-> <<Read("pkg_n", "n"), Write("pkg_out", Times("n", 49))>>]]

(* by_ref(x), then the lambda that sets y *)
ReferenceArgs ==
  [vars |-> Zeros({"x", "y"}),
   code |-> [main |-> <<Write("x", K(41)), Start({"t1"}), Join("t1"), Read("x", "r"), Check("r", {42}),
                        Start({"t2"}), Join("t2"), Read("y", "r"), Check("r", {99})>>,
             t1 |-> Increment("x"), t2 |-> <<Write("y", K(99))>>]]

(* seen_count has as many entries as there are threads, under m *)
ThreadIds ==
  LET worker(id) == Repeat(ITERS, Guarded("m", Increment(id)))
  IN TwoThreads(Zeros({"m", "id1", "id2"}), worker("id1"), worker("id2"),
                <<Read("id1", "r"), Check("r", {2}), Read("id2", "r"), Check("r", {2})>>)

-----------------------------------------------------------------------------
(* Futures: set_value or set_exception releases, get acquires. *)
SetValue(state, v) == <<Write("value", v), Store(state, K(1), "release")>>
Get(state, r)      == <<Await(state, "acquire", {1}, "s"), Read("value", r)>>
NEG == 900                      \* the exception of a negative argument

Promise ==                      \* the happy path, then the exception path
  [vars |-> Zeros({"shared", "value", "shared2"}),
   code |-> [main |-> <<Start({"t1"})>> \o Get("shared", "r") \o <<Check("r", {81}), Join("t1"),
                      Start({"t2"})>> \o Get("shared2", "r") \o <<Check("r", {NEG}), Join("t2")>>,
             t1 |-> SetValue("shared", K(81)), t2 |-> SetValue("shared2", K(NEG))]]

Async ==                        \* get, then a future polled with wait_for
  [vars |-> Zeros({"shared", "value", "shared2"}),
   code |-> [main |-> <<Start({"t1"})>> \o Get("shared", "r") \o <<Check("r", {49}),
                      Start({"t2"}), Load("shared2", "acquire", "s"), IfIn("s", {0}, -1)>>
                      \o Get("shared2", "r") \o <<Check("r", {121})>>,
             t1 |-> SetValue("shared", K(49)), t2 |-> SetValue("shared2", K(121))]]

SharedFuture ==
  LET reader == Get("shared", "r") \o <<Check("r", {123})>>
  IN [vars |-> Zeros({"shared", "value"}),
      code |-> [main |-> <<Start({"t1", "t2"})>> \o SetValue("shared", K(123))
                         \o <<Join("t1"), Join("t2")>>,
                t1 |-> reader, t2 |-> reader]]

-----------------------------------------------------------------------------
(* Semaphores.  inside counts the users between the two messages each      *)
(* prints; the pool is one slot short of the users. *)
POOL == 2
Users(sem) ==
  LET user == <<When(sem, 1..9, -1, "acquire", Plain), Add("inside", 1, "relaxed", "n"),
                Check("n", 0..POOL - 1), Add("inside", -1, "relaxed", Plain), Add(sem, 1, "release", Plain)>>
  IN Team([Zeros({sem, "inside"}) EXCEPT ![sem] = POOL], <<user, user, user>>, <<>>)
SemaphoreC   == Users("gate")
SemaphoreCpp == Users("pool")

(* A latch: main goes on when every worker has counted down, without join. *)
Latch ==
  LET worker(w) == <<Write(w, K(1)), Add("ready", -1, "release", Plain)>>
      saw(w) == <<Read(w, "r"), Check("r", {1})>>
  IN [vars |-> [Zeros({"ready", "w1", "w2"}) EXCEPT !["ready"] = 2],
      code |-> [main |-> <<Start({"t1", "t2"}), Await("ready", "acquire", {0}, "s")>>
                         \o saw("w1") \o saw("w2") \o <<Join("t1"), Join("t2")>>,
                t1 |-> worker("w1"), t2 |-> worker("w2")]]

(* A barrier for two: the last to arrive runs completion and opens the     *)
(* phase.  mine and other say how far each thread has come. *)
PHASES == 2
ArriveAndWait(p, completion) ==
  <<Add("arrived", 1, "acq_rel", "n"), IfIn("n", {2 * p - 1}, 3), Await("phase", "acquire", p..9, Plain),
    Jump(Len(completion) + 2)>> \o completion \o <<Store("phase", K(p), "release")>>
Phases(mine, other, completion) ==
  FlattenSeq([p \in 1..PHASES |->
    <<Store(mine, K(p), "relaxed")>> \o ArriveAndWait(p, completion)
    \o <<Load(other, "relaxed", "r"), Check("r", p..p + 1)>>])
Barrier(completion, rest) ==
  TwoThreads(Zeros({"arrived", "phase", "w1", "w2", "complete"}),
             Phases("w1", "w2", completion), Phases("w2", "w1", completion), rest)
PthreadBarrier == Barrier(<<>>, <<>>)
(* "phase complete" is printed once for each phase *)
StdBarrier == Barrier(Increment("complete"), <<Read("complete", "r"), Check("r", {PHASES})>>)

(* Stop requested of a jthread, whose destructor joins *)
JThread ==
  [vars |-> Zeros({"stop"}),
   code |-> [main |-> <<Start({"t1"}), Store("stop", K(1), "seq_cst"), Join("t1")>>,
             t1 |-> <<Load("stop", "seq_cst", "s"), IfIn("s", {0}, -1)>>]]

-----------------------------------------------------------------------------
(* Reader/writer locks: n readers, or -1 while a writer holds it. *)
Reading(l, body) == <<When(l, 0..9, 1, "acquire", Plain)>> \o body \o <<Add(l, -1, "release", Plain)>>
Writing(l, body) == <<When(l, {0}, -1, "acquire", Plain)>> \o body \o <<Add(l, 1, "release", Plain)>>
PthreadRwlock ==
  LET reader == Repeat(ITERS, Reading("rw", <<Read("shared", "r"), Check("r", 0..2)>>))
      writer == Repeat(ITERS, Writing("rw", Increment("shared")))
  IN Team(Zeros({"rw", "shared"}), <<reader, reader, writer>>, <<Read("shared", "r"), Check("r", {2})>>)
SharedMutex ==
  LET set(v) == Writing("m_", <<Write("kv_", K(v))>>)
      get == Reading("m_", <<Read("kv_", "r")>>) \o <<Check("r", 1..3)>>
  IN [vars |-> Zeros({"m_", "kv_"}),
      code |-> [main |-> set(1) \o <<Start({"t1", "t2"}), Join("t1"), Join("t2")>>,
                t1 |-> Repeat(ITERS, get), t2 |-> set(2) \o set(3)]]

-----------------------------------------------------------------------------
(* Counters that share a cache line, and the loops of OpenMP *)
FalseSharing ==
  LET run(c) == Repeat(ITERS, <<Add(c, 1, "relaxed", Plain)>>)
  IN TwoThreads(Zeros({"c0", "c1"}), run("c0"), run("c1"), <<Load("c0", "relaxed", "r"), Check("r", {2})>>)

Critical ==
  LET loops == Repeat(ITERS, Guarded("omp", Increment("n_critical")))
               \o Repeat(ITERS, <<Add("n_atomic", 1, "relaxed", Plain)>>)
  IN TwoThreads(Zeros({"omp", "n_critical", "n_atomic"}), loops, loops,
                <<Read("n_critical", "r"), Check("r", {4}), Load("n_atomic", "relaxed", "r"), Check("r", {4})>>)

(* The team's own block; main is thread 0 of it and waits for the others. *)
Parallel ==
  LET hello(id) == <<Write(Object[id + 1], K(1))>>
  IN [vars |-> Zeros(ToSet(Object)),
      code |-> [main |-> <<Start({"t1", "t2"})>> \o hello(0) \o <<Join("t1"), Join("t2")>>,
                t1 |-> hello(1), t2 |-> hello(2)]]

(* Sum and maximum of 1..4: private ones for each half, then combined *)
Reduction ==
  LET half(i) == <<Set("s", K(i)), Set("s", Plus("s", i + 1)), Set("r", K(i + 1))>>
                 \o Guarded("omp", <<Read("sum", "n"), Write("sum", Sum2("n", "s")),
                                     Read("vmax", "n"), Set("n", Minus("n", "r")), IfIn("n", 0..9, 2),
                                     Write("vmax", R("r"))>>)
  IN TwoThreads(Zeros({"omp", "sum", "vmax"}), half(1), half(3),
                <<Read("sum", "r"), Check("r", {10}), Read("vmax", "r"), Check("r", {4})>>)

(* for (i < N) who[i] = thread: fixed halves, or chunks of two on demand.  *)
(* who[i] is Object[i + 1].                                                *)
N == 4
ForStatic ==
  TwoThreads(Zeros(ToSet(Object)), <<Write("o1", K(0)), Write("o2", K(0))>>,
             <<Write("o3", K(1)), Write("o4", K(1))>>,
             <<Read("o1", "r"), Check("r", {0}), Read("o4", "r"), Check("r", {1})>>)
NextChunk(size) == <<Add("next", size, "relaxed", "n")>>
ForDynamic ==
  LET claim == NextChunk(2)
      loop(id) == claim \o <<IfIn("n", N..9, 4), WriteAt(Plus("n", 1), K(id)), WriteAt(Plus("n", 2), K(id)),
                             Jump(-3 - Len(claim))>>
  IN TwoThreads(Zeros(ToSet(Object) \cup {"next"}), loop(0), loop(1), <<Read("o4", "r"), Check("r", {0, 1})>>)
Sections ==                     \* each section is run by the thread that claims it
  LET claim == NextChunk(1)
      loop == claim \o <<IfIn("n", 3..9, 3), WriteAt(Plus("n", 1), K(1)), Jump(-2 - Len(claim))>>
  IN TwoThreads(Zeros(ToSet(Object) \cup {"next"}), loop, loop, <<Read("o3", "r"), Check("r", {1})>>)

(* fib(3): each call reads a and b after taskwait, which its tasks wrote. *)
Tasks ==
  LET taskwait(a, b) == <<Read(a, "r"), Read(b, "s"), Set("r", Sum2("r", "s"))>>
  IN [vars |-> Zeros({"a", "b", "a2", "b2"}),
      code |-> [main |-> <<Start({"t1", "t2"}), Join("t1"), Join("t2")>> \o taskwait("a", "b") \o <<Check("r", {2})>>,
                t1 |-> <<Start({"t3", "t4"}), Join("t3"), Join("t4")>> \o taskwait("a2", "b2")
                       \o <<Write("a", R("r"))>>,
                t2 |-> <<Write("b", K(1))>>, t3 |-> <<Write("a2", K(1))>>, t4 |-> <<Write("b2", K(0))>>]]
=============================================================================
