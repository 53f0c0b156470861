SPECIFICATION FairSpec
CONSTANTS
  Library <- Examples
  Locks <- Mutexes
  Claims <- OwnerClaims
  Noticed = {"stop", "shared2"}
  Racy = {"unsynchronized", "buggy_consumer"}
  Programs = {
    "dekker", "acquire_release", "relaxed", "consume", "fences", "store_load_relaxed",
    "store_load_seq_cst", "atomic_counter", "memory_orders", "atomic_flag", "compare_exchange",
    "atomic_pointer", "lockfree_stack", "pthread_mutex", "pthread_spin", "std_mutex",
    "lock_guard", "unsynchronized", "with_mutex", "with_atomic", "stop_flag", "double_checked",
    "singletons", "call_once", "thread_args", "thread_return", "reference_args", "thread_ids",
    "promise", "async", "shared_future", "semaphore_c", "semaphore_cpp", "latch",
    "pthread_barrier", "std_barrier", "jthread", "pthread_rwlock", "shared_mutex",
    "false_sharing", "critical", "reduction", "for_static", "for_dynamic", "sections", "tasks",
    "basic_cv_c", "basic_cv_cpp", "broadcast", "lost_wakeup", "timed_wait", "cv_any", "bounded_queue",
    "tiny_pool", "active_object", "ordered", "try_both", "livelock", "transfer", "atomic_dual",
    "philosophers", "trylock", "timed_lock", "timed_mutex", "recursive_mutex", "tree", "bench_mutex",
    "bench_shared", "bench_atomic", "tls_pthread", "cancellation", "hello_c",
    "hello_cpp", "thread_join", "thread_attr", "join_detach", "thread_local", "parallel", "deadlock_run",
    "scoped_both", "buggy_consumer"}
INVARIANTS
  TypeOK
  NoRace
  ChecksHold
  EachOnce
PROPERTIES
  Termination
