----------------------------- MODULE FairRWLock -----------------------------
(***************************************************************************)
(* The class FairRWLock of 04_pitfalls/04_starvation.cpp, used by its      *)
(* reader and writer threads.  A reader looks at writer_pending_ and then  *)
(* takes the shared_mutex: two steps, with anything in between.  A writer  *)
(* announces itself and then takes the shared_mutex.  The shared_mutex is  *)
(* one that gives no preference: it admits whoever comes when the holders  *)
(* allow it.                                                               *)
(***************************************************************************)
EXTENDS Naturals, FiniteSets

CONSTANTS Readers, Writers,
          Writes                \* how often a writer writes

Nobody == "nobody"

ASSUME RWAssumption ==
  /\ IsFiniteSet(Readers)
  /\ IsFiniteSet(Writers) /\ Writers # {} /\ Nobody \notin Writers
  /\ Readers \cap Writers = {}
  /\ Writes \in Nat \ {0}

VARIABLES readers, writer,      \* sm_: who holds it shared, and who exclusively
          writer_pending_,
          stop,
          pc,
          i,                    \* the loop counter of each writer
          entries               \* history: how often each reader got in since
                                \* writer_pending_ last rose from 0

lock == <<readers, writer, writer_pending_>>
vars == <<lock, stop, pc, i, entries>>

Seen == 2       \* entries is counted up to here

Init == /\ readers = {} /\ writer = Nobody
        /\ writer_pending_ = 0
        /\ stop = FALSE
        /\ pc = [t \in Readers \cup Writers |-> IF t \in Readers THEN "loop" ELSE "idle"]
        /\ i = [w \in Writers |-> 0]
        /\ entries = [r \in Readers |-> 0]

Goto(t, from, to) == pc[t] = from /\ pc' = [pc EXCEPT ![t] = to]

-----------------------------------------------------------------------------
(* Faulty variants, one plausible slip each; no specification uses them.   *)
Gate_Open(r) ==                 \* lock_shared() without looking at writer_pending_
  /\ Goto(r, "gate", "lock_shared")
  /\ UNCHANGED <<lock, stop, i, entries>>
ReleasePending_Forgotten(w) ==       \* unlock() forgets writer_pending_
  /\ Goto(w, "writing", "unlock")
  /\ UNCHANGED <<lock, stop, i, entries>>

-----------------------------------------------------------------------------
(* A reader: while (!stop) { lock_shared; ...; unlock_shared }. *)
Loop(r) == /\ Goto(r, "loop", IF stop THEN "exit" ELSE "gate")
           /\ UNCHANGED <<lock, stop, i, entries>>

(* lock_shared() spins while a writer waits, ... *)
Gate(r) == /\ Goto(r, "gate", "lock_shared")
           /\ writer_pending_ = 0
           /\ UNCHANGED <<lock, stop, i, entries>>

(* ... and takes sm_ afterwards, without looking again. *)
LockShared(r) == /\ Goto(r, "lock_shared", "reading")
                 /\ writer = Nobody
                 /\ readers' = readers \cup {r}
                 /\ entries' = [entries EXCEPT ![r] = IF writer_pending_ > 0 /\ @ < Seen THEN @ + 1 ELSE @]
                 /\ UNCHANGED <<writer, writer_pending_, stop, i>>

UnlockShared(r) == /\ Goto(r, "reading", "loop")
                   /\ readers' = readers \ {r}
                   /\ UNCHANGED <<writer, writer_pending_, stop, i, entries>>

Reader(r) == Loop(r) \/ Gate(r) \/ LockShared(r) \/ UnlockShared(r)

(* A writer: lock() announces it, then takes sm_; unlock() takes the       *)
(* announcement back, then releases sm_.                                   *)
Announce(w) ==
  /\ Goto(w, "idle", "lock")
  /\ writer_pending_' = writer_pending_ + 1
  /\ entries' = IF writer_pending_ = 0 THEN [r \in Readers |-> 0] ELSE entries
  /\ UNCHANGED <<readers, writer, stop, i>>

Lock(w) == /\ Goto(w, "lock", "writing")
           /\ readers = {} /\ writer = Nobody
           /\ writer' = w
           /\ UNCHANGED <<readers, writer_pending_, stop, i, entries>>

ReleasePending(w) == /\ Goto(w, "writing", "unlock")
                     /\ writer_pending_' = writer_pending_ - 1
                     /\ UNCHANGED <<readers, writer, stop, i, entries>>

Unlock(w) == /\ Goto(w, "unlock", IF i[w] + 1 < Writes THEN "idle" ELSE "stop")
             /\ writer' = Nobody
             /\ i' = [i EXCEPT ![w] = @ + 1]
             /\ UNCHANGED <<readers, writer_pending_, stop, entries>>

Stop(w) == /\ Goto(w, "stop", "exit")
           /\ stop' = TRUE
           /\ UNCHANGED <<lock, i, entries>>

Writer(w) == Announce(w) \/ Lock(w) \/ ReleasePending(w) \/ Unlock(w) \/ Stop(w)

Terminating == (\A t \in Readers \cup Writers : pc[t] = "exit") /\ UNCHANGED vars

Next == (\E r \in Readers : Reader(r)) \/ (\E w \in Writers : Writer(w)) \/ Terminating

Spec == Init /\ [][Next]_vars

(* Every thread is scheduled.  Of sm_ only this is assumed: a thread for   *)
(* which it stays available gets it (weak fairness, no queue of waiters).  *)
FairSpec == /\ Spec
            /\ \A r \in Readers : WF_vars(Reader(r))
            /\ \A w \in Writers : WF_vars(Writer(w))

-----------------------------------------------------------------------------
TypeOK ==
  /\ readers \subseteq Readers /\ writer \in Writers \cup {Nobody}
  /\ writer_pending_ \in 0 .. Cardinality(Writers)
  /\ stop \in BOOLEAN
  /\ pc \in [Readers \cup Writers -> {"loop", "gate", "lock_shared", "reading",
                                      "idle", "lock", "writing", "unlock", "stop", "exit"}]
  /\ i \in [Writers -> 0 .. Writes]
  /\ entries \in [Readers -> 0 .. Seen]

(* Bounded overtaking: from the moment a writer announces itself, a reader *)
(* that had already passed the gate (line 42) gets in at most once before  *)
(* writer_pending_ is back to 0.                                           *)
BoundedOvertaking == writer_pending_ > 0 => \A r \in Readers : entries[r] <= 1

(* "when a writer wants in, no NEW readers may enter" (comment of line 14). *)
NoNewReaders == [][writer_pending_ > 0 => readers' \subseteq readers]_vars

(* Every thread ends: no writer is starved by the readers, although sm_    *)
(* favours nobody (line 50), then the readers see stop.                    *)
Termination == <>(\A t \in Readers \cup Writers : pc[t] = "exit")
=============================================================================
