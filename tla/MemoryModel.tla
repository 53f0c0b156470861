---------------------------- MODULE MemoryModel ----------------------------
(***************************************************************************)
(* The memory the C and C++ examples run on: the release/acquire fragment  *)
(* of the C++ memory model, with relaxed and seq_cst accesses, acquire and *)
(* release fences and plain (non-atomic) accesses.  It is the language's,  *)
(* not this repository's: what its code relies on is written here once.    *)
(*                                                                         *)
(* Every location has its modification order, a sequence of messages.  A   *)
(* view says, for each location, how far in that order one is known to be, *)
(* and which plain reads one knows nothing of.  A thread may read any      *)
(* message its view does not exclude; an acquire load takes over the view  *)
(* of the message, which a release store made of its thread's.  A plain    *)
(* access races with another of which its thread does not know, if one of  *)
(* them is a write: the behaviour is undefined, a read may then find any   *)
(* value.                                                                  *)
(*                                                                         *)
(* Left out: fences that are seq_cst (the examples have none), a store     *)
(* into the middle of a modification order (no location has two stores     *)
(* that are unordered), and a load that finds a store which comes later    *)
(* (load buffering: no two threads each load, relaxed, what the other      *)
(* stores afterwards).                                                     *)
(***************************************************************************)
EXTENDS Naturals, Sequences

CONSTANT Locks          \* locations of which every access reads the last message

VARIABLES mem,          \* location -> its modification order, a sequence of [val, view]
          cur,          \* thread -> its view
          acq,          \* thread -> what an acquire fence would add to it
          rel,          \* thread -> its view at its last release fence
          sc,           \* the last seq_cst write of each location
          raced         \* two plain accesses have met

memory == <<mem, cur, acq, rel, sc, raced>>

Acquires == {"acquire", "acq_rel", "seq_cst"}
Releases == {"release", "acq_rel", "seq_cst"}

(* A view: at[l] is a place in l's modification order, missed a set of     *)
(* pairs <<l, u>>: u has read l since the last write, unknown to the view. *)
Merge(u, v) == [at |-> [l \in DOMAIN u.at |-> IF u.at[l] < v.at[l] THEN v.at[l] ELSE u.at[l]],
                missed |-> u.missed \cap v.missed]
MoveTo(u, l, i) == [u EXCEPT !.at[l] = i]

(* Memory of the given initial values, known to every thread of T. *)
MemInit(values, T) ==
  LET start == [at |-> [l \in DOMAIN values |-> 1], missed |-> {}]
  IN /\ mem = [l \in DOMAIN values |-> <<[val |-> values[l], view |-> start]>>]
     /\ cur = [t \in T |-> start]
     /\ acq = cur
     /\ rel = cur
     /\ sc = start.at
     /\ raced = FALSE

Last(l) == Len(mem[l])
(* The place of the next message; of a lock only the last one is kept. *)
End(l) == IF l \in Locks THEN 1 ELSE Last(l) + 1

(* The messages of l that t may read with order o. *)
Readable(t, l, o) ==
  {i \in cur[t].at[l] .. Last(l) : o = "seq_cst" => sc[l] <= i}

Load(t, l, i, o) ==
  LET seen == MoveTo(cur[t], l, i)
      told == Merge(seen, mem[l][i].view)
  IN /\ i \in Readable(t, l, o)
     /\ cur' = [cur EXCEPT ![t] = IF o \in Acquires THEN told ELSE seen]
     /\ acq' = [acq EXCEPT ![t] = Merge(@, told)]
     /\ UNCHANGED <<mem, rel, sc, raced>>

(* l's modification order, with m at its end *)
Extended(l, m) == Append(SubSeq(mem[l], 1, End(l) - 1), m)

(* The end of l's modification order becomes v, published with view u. *)
Put(t, l, v, u, o) ==
  LET n == End(l)
  IN /\ mem' = [mem EXCEPT ![l] = Extended(l, [val |-> v, view |-> MoveTo(u, l, n)])]
     /\ sc' = IF o = "seq_cst" THEN [sc EXCEPT ![l] = n] ELSE sc

Store(t, l, v, o) ==
  /\ Put(t, l, v, IF o \in Releases THEN cur[t] ELSE rel[t], o)
  /\ cur' = [cur EXCEPT ![t] = MoveTo(@, l, End(l))]
  /\ acq' = [acq EXCEPT ![t] = MoveTo(@, l, End(l))]
  /\ UNCHANGED <<rel, raced>>

(* Faulty: what it learns is not there for a later fence. *)
Update_Forgets(t, l, v, o) ==
  LET old  == mem[l][Last(l)]
      told == MoveTo(Merge(cur[t], old.view), l, End(l))
  IN /\ Put(t, l, v, Merge(old.view, told), o)
     /\ cur' = [cur EXCEPT ![t] = told]
     /\ UNCHANGED <<acq, rel, raced>>

(* A read-modify-write reads the last message and carries its view on. *)
Update(t, l, v, o) ==
  LET old  == mem[l][Last(l)]
      told == MoveTo(Merge(cur[t], old.view), l, End(l))
      seen == MoveTo(cur[t], l, End(l))
      now  == IF o \in Acquires THEN told ELSE seen
  IN /\ Put(t, l, v, Merge(old.view, IF o \in Releases THEN now ELSE rel[t]), o)
     /\ cur' = [cur EXCEPT ![t] = now]
     /\ acq' = [acq EXCEPT ![t] = Merge(@, told)]
     /\ UNCHANGED <<rel, raced>>

Fence(t, o) ==
  /\ cur' = [cur EXCEPT ![t] = IF o \in Acquires THEN acq[t] ELSE @]
  /\ rel' = [rel EXCEPT ![t] = IF o \in Releases THEN cur'[t] ELSE @]
  /\ UNCHANGED <<mem, acq, sc, raced>>

(* Plain accesses.  A race-free one finds the last write; each view except *)
(* the reader's then misses that read, until the next write.               *)
Races(t, l) == cur[t].at[l] # Last(l)
Misses(u, l) == \E p \in u.missed : p[1] = l

Missing(u, t, l) == [u EXCEPT !.missed = @ \cup {<<l, t>>}]
Read(t, l, i) ==
  LET others(view) == [u \in DOMAIN view |-> IF u = t THEN view[u] ELSE Missing(view[u], t, l)]
  IN /\ i \in (IF Races(t, l) THEN 1 .. Last(l) ELSE {Last(l)})
     /\ raced' = (raced \/ Races(t, l))
     /\ cur' = others(cur)
     /\ acq' = others(acq)
     /\ rel' = [u \in DOMAIN rel |-> Missing(rel[u], t, l)]
     /\ mem' = [k \in DOMAIN mem |-> [j \in DOMAIN mem[k] |-> [mem[k][j] EXCEPT !.view = Missing(@, t, l)]]]
     /\ UNCHANGED sc

Settle(u, l) == [u EXCEPT !.missed = {p \in @ : p[1] # l}]
Write(t, l, v) ==
  LET all(view) == [u \in DOMAIN view |-> IF u = t THEN Settle(MoveTo(view[u], l, End(l)), l) ELSE Settle(view[u], l)]
      new == [val |-> v, view |-> MoveTo(rel[t], l, End(l))]
  IN /\ raced' = (raced \/ Races(t, l) \/ Misses(cur[t], l))
     /\ cur' = all(cur)
     /\ acq' = all(acq)
     /\ rel' = [u \in DOMAIN rel |-> Settle(rel[u], l)]
     /\ mem' = [k \in DOMAIN mem |->
                  LET old == IF k = l THEN Extended(l, new) ELSE mem[k]
                  IN [j \in DOMAIN old |-> [old[j] EXCEPT !.view = Settle(@, l)]]]
     /\ UNCHANGED sc

(* Starting a thread and joining it pass the view on. *)
StartThreads(t, T) ==
  /\ cur' = [u \in DOMAIN cur |-> IF u \in T THEN cur[t] ELSE cur[u]]
  /\ acq' = [u \in DOMAIN acq |-> IF u \in T THEN cur[t] ELSE acq[u]]
  /\ UNCHANGED <<mem, rel, sc, raced>>

JoinThread(t, u) ==
  /\ cur' = [cur EXCEPT ![t] = Merge(@, cur[u])]
  /\ acq' = [acq EXCEPT ![t] = Merge(@, cur[u])]
  /\ UNCHANGED <<mem, rel, sc, raced>>
=============================================================================
