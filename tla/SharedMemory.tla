---------------------------- MODULE SharedMemory ----------------------------
(***************************************************************************)
(* The examples on Machine.  One run of the model checker explores every   *)
(* program of Examples that its configuration names.                       *)
(***************************************************************************)
EXTENDS ClaimSearch, WaitPrograms

Examples == [
  dekker |-> Dekker, acquire_release |-> AcquireRelease, relaxed |-> Relaxed, consume |-> Consume,
  fences |-> Fences, store_load_relaxed |-> RunOnce("relaxed", {0, 1, 2}),
  store_load_seq_cst |-> RunOnce("seq_cst", {1, 2}), atomic_counter |-> AtomicCounter,
  memory_orders |-> MemoryOrders, atomic_flag |-> AtomicFlag, compare_exchange |-> CompareExchange,
  atomic_pointer |-> AtomicPointer, lockfree_stack |-> LockFreeStack, concurrent_stack |-> ConcurrentStack,
  pthread_mutex |-> PthreadMutex, pthread_spin |-> PthreadSpin, std_mutex |-> StdMutex,
  lock_guard |-> LockGuard, unsynchronized |-> Unsynchronized, with_mutex |-> WithMutex,
  with_atomic |-> WithAtomic, stop_flag |-> StopFlag, double_checked |-> DoubleChecked,
  singletons |-> Singletons, call_once |-> CallOnce,
  thread_args |-> ThreadArgs, thread_return |-> ThreadReturn, reference_args |-> ReferenceArgs,
  thread_ids |-> ThreadIds, promise |-> Promise, async |-> Async, shared_future |-> SharedFuture,
  semaphore_c |-> SemaphoreC, semaphore_cpp |-> SemaphoreCpp, latch |-> Latch,
  pthread_barrier |-> PthreadBarrier, std_barrier |-> StdBarrier, jthread |-> JThread,
  pthread_rwlock |-> PthreadRwlock, shared_mutex |-> SharedMutex, false_sharing |-> FalseSharing,
  critical |-> Critical, reduction |-> Reduction, for_static |-> ForStatic,
  for_dynamic |-> ForDynamic, sections |-> Sections, tasks |-> Tasks,
  basic_cv_c |-> BasicCvC, basic_cv_cpp |-> BasicCvCpp, broadcast |-> Broadcasts, lost_wakeup |-> LostWakeup,
  timed_wait |-> TimedWait, cv_any |-> CvAny, bounded_queue |-> BoundedQueue, tiny_pool |-> TinyPool,
  active_object |-> ActiveObject, ordered |-> Ordered, try_both |-> TryBoth, livelock |-> Livelock,
  transfer |-> Transfer, atomic_dual |-> AtomicDual, philosophers |-> Philosophers, trylock |-> Trylock,
  timed_lock |-> TimedLock, timed_mutex |-> TimedMutex, recursive_mutex |-> RecursiveMutex, tree |-> Tree,
  bench_mutex |-> BenchMutex, bench_shared |-> BenchShared, bench_atomic |-> BenchAtomic,
  tls_pthread |-> TlsPthread, cancellation |-> Cancellation,
  hello_c |-> HelloC, hello_cpp |-> HelloCpp, thread_join |-> ThreadJoin, thread_attr |-> ThreadAttr,
  join_detach |-> JoinDetach, thread_local |-> ThreadLocal, parallel |-> Parallel,
  deadlock_run |-> DeadlockRun, scoped_both |-> ScopedBoth, buggy_consumer |-> BuggyConsumer]

(* Those whose plain variables have one owner at a time.  The others use     *)
(* what they publish through a flag, a pointer or a fence, share a          *)
(* reader/writer lock, or start threads from threads; two race.             *)
Owners == {
  "dekker", "relaxed", "store_load_relaxed", "store_load_seq_cst", "atomic_counter", "atomic_flag",
  "compare_exchange", "pthread_mutex", "pthread_spin", "std_mutex", "lock_guard", "with_mutex", "with_atomic",
  "stop_flag", "thread_args", "reference_args", "thread_ids", "semaphore_c", "semaphore_cpp", "pthread_barrier",
  "jthread", "false_sharing", "critical", "reduction", "for_static", "basic_cv_c", "basic_cv_cpp", "broadcast",
  "lost_wakeup", "timed_wait", "tiny_pool", "active_object", "ordered", "try_both", "livelock", "transfer",
  "atomic_dual", "philosophers", "trylock", "timed_lock", "timed_mutex", "recursive_mutex", "tree", "bench_mutex",
  "bench_atomic", "cancellation", "hello_cpp", "thread_join", "thread_attr", "join_detach", "thread_local",
  "parallel", "deadlock_run", "scoped_both"}
OwnerClaims == [p \in Owners |-> Suggested(Examples[p])]

(* Mutexes, reader/writer locks, sets of mutexes *)
Mutexes == {"lock", "g_lock", "m", "m_", "m1", "m2", "m1m2", "AB", "forks", "io_mu", "sum_m", "rlock", "rw",
          "sm", "omp", "g_atomic_m"}
-----------------------------------------------------------------------------
(* What the sources assert or call expected: the data behind a flag is     *)
(* there, both loads are never 0 under seq_cst, no increment is lost,      *)
(* atomic_max ends at the maximum, every pushed node is popped once.       *)
ChecksHold == ~wrong

(* get_atomic_dcl, get_meyers, get_call_once and init() construct once,    *)
(* and all callers get the same object.                                    *)
OneSingleton ==
  /\ \A l \in DOMAIN mem \cap {"g_atomic", "singleton", "g_ptr", "g_data", "key"} : Len(mem[l]) <= 2
  /\ program \in {"double_checked", "singletons"} /\ AllEnded => reg["t1"]["s"] = reg["t2"]["s"]

(* Work that several threads share out (loop iterations and sections of    *)
(* OpenMP, items of a queue, tasks of a pool) is never done twice, and     *)
(* none is left undone.                                                    *)
SharedOut ==
  LET parts == CASE program \in {"for_static", "for_dynamic"} -> 1..N
                 [] program \in {"sections", "parallel"} -> 1..3
                 [] program \in {"bounded_queue", "tiny_pool"} -> 1..2
                 [] OTHER -> {}
  IN \A j \in parts : /\ Len(mem[Object[j]]) <= 2
                      /\ AllEnded => Len(mem[Object[j]]) = 2

(* What must be done once is done once, whoever does it: initialisation    *)
(* on first use, and each part of shared work.                             *)
EachOnce == OneSingleton /\ SharedOut

(* Every program ends: no lock stays taken, every flag is seen in the end, *)
(* every retry succeeds, deadlock_run ends by its alarm.  Only             *)
(* buggy_consumer, whose wait has no predicate, may sleep for ever.        *)
Termination == program = "buggy_consumer" \/ <>AllEnded
=============================================================================
