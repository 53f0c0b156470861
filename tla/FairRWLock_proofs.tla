-------------------------- MODULE FairRWLock_proofs --------------------------
(* The theorems about FairRWLock, for any number of readers and writers.   *)
EXTENDS FairRWLock, FiniteSetTheorems, TLAPS

Announced == {w \in Writers : pc[w] \in {"lock", "writing"}}

ReaderPlaces == {"loop", "gate", "lock_shared", "reading", "exit"}
WriterPlaces == {"idle", "lock", "writing", "unlock", "stop", "exit"}

(* The types, without the upper bound of writer_pending_. *)
TypeInv ==
  /\ readers \subseteq Readers /\ writer \in Writers \cup {Nobody}
  /\ writer_pending_ \in Nat
  /\ stop \in BOOLEAN
  /\ pc \in [Readers \cup Writers -> ReaderPlaces \cup WriterPlaces]
  /\ \A r \in Readers : pc[r] \in ReaderPlaces
  /\ \A w \in Writers : pc[w] \in WriterPlaces
  /\ i \in [Writers -> 0 .. Writes]
  /\ \A w \in Writers : pc[w] \in {"idle", "lock", "writing", "unlock"} => i[w] < Writes
  /\ entries \in [Readers -> 0 .. Seen]

(* writer_pending_ counts the writers between lines 49 and 53. *)
PendingCounts == writer_pending_ = Cardinality(Announced)

(* Who holds sm_ is where lock() and lock_shared() have let it in. *)
HoldersAreIn ==
  /\ \A r \in Readers : r \in readers <=> pc[r] = "reading"
  /\ \A w \in Writers : writer = w <=> pc[w] \in {"writing", "unlock"}
  /\ readers # {} => writer = Nobody

(* What BoundedOvertaking needs to be inductive: a reader that still has   *)
(* the way through the gate behind it has not used it yet.                 *)
OnePassEach ==
  writer_pending_ > 0 =>
    \A r \in Readers : entries[r] <= 1 /\ (pc[r] = "lock_shared" => entries[r] = 0)

IInv == TypeInv /\ PendingCounts /\ HoldersAreIn /\ OnePassEach

(* A set of writers is finite, and counts one more or less with a writer. *)
LEMMA WriterSets ==
  ASSUME NEW S \in SUBSET Writers
  PROVE  /\ IsFiniteSet(S) /\ Cardinality(S) \in 0 .. Cardinality(Writers)
         /\ \A w \in Writers \ S : Cardinality(S \cup {w}) = Cardinality(S) + 1
         /\ \A w \in S : Cardinality(S \ {w}) = Cardinality(S) - 1
<1>1. IsFiniteSet(Writers) /\ Cardinality(Writers) \in Nat
  BY RWAssumption, FS_CardinalityType DEF RWAssumption
<1>2. IsFiniteSet(S) /\ Cardinality(S) \in 0 .. Cardinality(Writers)
  BY <1>1, FS_Subset, FS_CardinalityType
<1> QED
  BY <1>2, FS_AddElement, FS_RemoveElement

-----------------------------------------------------------------------------
LEMMA IInvInit == Init => IInv
<1> SUFFICES ASSUME Init PROVE IInv
  OBVIOUS
<1> USE RWAssumption DEF RWAssumption, Init
<1>1. /\ \A r \in Readers : pc[r] = "loop"
      /\ \A w \in Writers : pc[w] = "idle"
  OBVIOUS
<1>2. TypeInv
  <2>1. i \in [Writers -> 0 .. Writes] /\ entries \in [Readers -> 0 .. Seen]
    BY DEF Seen
  <2>2. pc \in [Readers \cup Writers -> ReaderPlaces \cup WriterPlaces]
    BY DEF ReaderPlaces, WriterPlaces
  <2>3. \A w \in Writers : i[w] < Writes
    OBVIOUS
  <2> QED
    BY <1>1, <2>1, <2>2, <2>3 DEF TypeInv, ReaderPlaces, WriterPlaces
<1>3. PendingCounts
  BY <1>1, FS_EmptySet DEF PendingCounts, Announced
<1>4. HoldersAreIn
  BY <1>1 DEF HoldersAreIn
<1> QED
  BY <1>2, <1>3, <1>4 DEF IInv, OnePassEach

LEMMA IInvStep == IInv /\ [Next]_vars => IInv'
<1> SUFFICES ASSUME IInv, [Next]_vars PROVE IInv'
  OBVIOUS
<1> USE RWAssumption DEF RWAssumption, IInv, TypeInv, ReaderPlaces, WriterPlaces, Seen, Goto, lock
<1>s. Announced \in SUBSET Writers
  BY DEF Announced
<1>1. ASSUME NEW r \in Readers, Reader(r) PROVE IInv'
  <2>1. Announced' = Announced
    BY <1>1 DEF Reader, Loop, Gate, LockShared, UnlockShared, Announced
  <2>2. CASE Loop(r)
    BY <2>1, <2>2 DEF Loop, PendingCounts, HoldersAreIn, OnePassEach
  <2>3. CASE Gate(r)
    BY <2>1, <2>3 DEF Gate, PendingCounts, HoldersAreIn, OnePassEach
  <2>4. CASE LockShared(r)
    <3>1. TypeInv' /\ OnePassEach'
      BY <2>4 DEF LockShared, OnePassEach
    <3>2. PendingCounts' /\ HoldersAreIn'
      BY <2>1, <2>4 DEF LockShared, PendingCounts, HoldersAreIn
    <3> QED
      BY <3>1, <3>2
  <2>5. CASE UnlockShared(r)
    BY <2>1, <2>5 DEF UnlockShared, PendingCounts, HoldersAreIn, OnePassEach
  <2> QED
    BY <1>1, <2>2, <2>3, <2>4, <2>5 DEF Reader
<1>2. ASSUME NEW w \in Writers, Writer(w) PROVE IInv'
  <2>1. CASE Announce(w)
    <3>1. Announced' = Announced \cup {w} /\ w \notin Announced
      BY <2>1 DEF Announce, Announced
    <3>2. PendingCounts'
      BY <2>1, <3>1, <1>s, WriterSets DEF Announce, PendingCounts
    <3>3. TypeInv' /\ HoldersAreIn' /\ OnePassEach'
      BY <2>1 DEF Announce, HoldersAreIn, OnePassEach
    <3> QED
      BY <3>2, <3>3
  <2>2. CASE Lock(w)
    <3>1. Announced' = Announced
      BY <2>2 DEF Lock, Announced
    <3> QED
      BY <2>2, <3>1 DEF Lock, PendingCounts, HoldersAreIn, OnePassEach
  <2>3. CASE ReleasePending(w)
    <3>1. Announced' = Announced \ {w} /\ w \in Announced
      BY <2>3 DEF ReleasePending, Announced
    <3>2. PendingCounts' /\ writer_pending_' \in Nat
      <4>1. Cardinality(Announced') = Cardinality(Announced) - 1
        BY <3>1, <1>s, WriterSets
      <4>2. Cardinality(Announced') \in Nat
        BY <3>1, <1>s, WriterSets
      <4> QED
        BY <2>3, <4>1, <4>2 DEF ReleasePending, PendingCounts
    <3>3. TypeInv' /\ HoldersAreIn' /\ OnePassEach'
      BY <2>3, <3>2 DEF ReleasePending, HoldersAreIn, OnePassEach
    <3> QED
      BY <3>2, <3>3
  <2>4. CASE Unlock(w)
    <3>1. Announced' = Announced
      BY <2>4 DEF Unlock, Announced
    <3> QED
      BY <2>4, <3>1 DEF Unlock, PendingCounts, HoldersAreIn, OnePassEach
  <2>5. CASE Stop(w)
    <3>1. Announced' = Announced
      BY <2>5 DEF Stop, Announced
    <3> QED
      BY <2>5, <3>1 DEF Stop, PendingCounts, HoldersAreIn, OnePassEach
  <2> QED
    BY <1>2, <2>1, <2>2, <2>3, <2>4, <2>5 DEF Writer
<1>3. CASE UNCHANGED vars
  BY <1>3 DEF vars, PendingCounts, HoldersAreIn, OnePassEach, Announced
<1> QED
  BY <1>1, <1>2, <1>3 DEF Next, Terminating

LEMMA Inductive == Spec => []IInv
BY IInvInit, IInvStep, PTL DEF Spec

-----------------------------------------------------------------------------
(* The counters stay in range: writer_pending_ never falls below 0 (line   *)
(* 53) and never exceeds the number of writers.                            *)
THEOREM TypeCorrect == Spec => []TypeOK
<1>1. IInv => TypeOK
  <2> SUFFICES ASSUME IInv PROVE TypeOK
    OBVIOUS
  <2>1. Announced \in SUBSET Writers
    BY DEF Announced
  <2>2. writer_pending_ \in 0 .. Cardinality(Writers)
    BY <2>1, WriterSets DEF IInv, PendingCounts
  <2> QED
    BY <2>2 DEF IInv, TypeInv, TypeOK, ReaderPlaces, WriterPlaces
<1> QED
  BY <1>1, Inductive, PTL

(* After a writer has announced itself (line 49) a reader gets in at most  *)
(* once more, however many readers and writers there are.                  *)
THEOREM OvertakingIsBounded == Spec => []BoundedOvertaking
<1>1. IInv => BoundedOvertaking
  BY DEF IInv, OnePassEach, BoundedOvertaking
<1> QED
  BY <1>1, Inductive, PTL

(* What the lock is for: from lock() to unlock() of a writer (lines 50-54)  *)
(* nobody else is inside, reader (lines 44-46) or writer.                  *)
Exclusion ==
  \A w \in Writers : pc[w] \in {"writing", "unlock"} =>
    \A t \in (Readers \cup Writers) \ {w} : pc[t] \notin {"reading", "writing", "unlock"}

(* The announcement, which lock() makes before and unlock() takes back     *)
(* before sm_ is released, does not disturb the exclusion of sm_.          *)
THEOREM MutualExclusion == Spec => []Exclusion
<1>1. IInv => Exclusion
  <2> SUFFICES ASSUME IInv, NEW w \in Writers, pc[w] \in {"writing", "unlock"},
                      NEW t \in Readers \cup Writers, t # w
               PROVE  pc[t] \notin {"reading", "writing", "unlock"}
    BY DEF Exclusion
  <2>1. writer = w /\ readers = {}
    BY RWAssumption DEF RWAssumption, IInv, HoldersAreIn
  <2> QED
    BY <2>1 DEF IInv, TypeInv, HoldersAreIn, ReaderPlaces, WriterPlaces
<1> QED
  BY <1>1, Inductive, PTL

(* Where a thread cannot go on by itself: a reader that writer_pending_    *)
(* keeps at the gate (line 42), and who waits for sm_ (lines 44 and 50).   *)
Blocked(t) ==
  \/ pc[t] = "gate" /\ writer_pending_ > 0
  \/ pc[t] = "lock_shared" /\ writer # Nobody
  \/ pc[t] = "lock" /\ (readers # {} \/ writer # Nobody)

(* Readers at the gate and writers at sm_ never wait for each other: as    *)
(* long as a thread has not returned, one of them can go on.               *)
NeverAllBlocked ==
  (\A t \in Readers \cup Writers : pc[t] = "exit" \/ Blocked(t))
    => \A t \in Readers \cup Writers : pc[t] = "exit"

(* The gate cannot deadlock: writer_pending_ > 0 means that a writer is     *)
(* between lines 49 and 53, and that one waits at most for holders of sm_. *)
THEOREM NoDeadlock == Spec => []NeverAllBlocked
<1>1. IInv => NeverAllBlocked
  <2> SUFFICES ASSUME IInv, \A t \in Readers \cup Writers : pc[t] = "exit" \/ Blocked(t)
               PROVE  \A t \in Readers \cup Writers : pc[t] = "exit"
    BY DEF NeverAllBlocked
  <2> USE DEF Blocked, IInv, TypeInv, HoldersAreIn, ReaderPlaces, WriterPlaces
  <2>1. readers = {} /\ writer = Nobody
    OBVIOUS
  <2>2. \A w \in Writers : pc[w] = "exit"
    BY <2>1
  <2>3. writer_pending_ = 0
    BY <2>2, FS_EmptySet DEF PendingCounts, Announced
  <2> QED
    BY <2>1, <2>2, <2>3
<1> QED
  BY <1>1, Inductive, PTL
=============================================================================
