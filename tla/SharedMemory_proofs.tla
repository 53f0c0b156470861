-------------------------- MODULE SharedMemory_proofs --------------------------
(***************************************************************************)
(* Machine's types and the order between its views, for every library of   *)
(* well-formed programs; and that programs which keep their plain          *)
(* variables to one thread at a time, by mutexes, by starting threads and  *)
(* by joining them, have no data race.                                     *)
(***************************************************************************)
EXTENDS Ownership, SequenceTheorems, WellFoundedInduction, TLAPS

-----------------------------------------------------------------------------
(* The operators on views.                                                 *)

(* Merge knows of each location what the better of the two knows.          *)
LEMMA MergeView ==
  ASSUME NEW u \in Views, NEW v \in Views
  PROVE  /\ M!Merge(u, v) \in Views
         /\ M!Merge(u, v).missed = u.missed \cap v.missed
         /\ \A l \in Locations : M!Merge(u, v).at[l] = IF u.at[l] < v.at[l] THEN v.at[l] ELSE u.at[l]
  BY DEF M!Merge, Views

(* MoveTo changes the place in one modification order.                     *)
LEMMA MoveToView ==
  ASSUME NEW u \in Views, NEW l \in Locations, NEW i \in Nat
  PROVE  /\ M!MoveTo(u, l, i) \in Views
         /\ M!MoveTo(u, l, i).missed = u.missed
         /\ \A k \in Locations : M!MoveTo(u, l, i).at[k] = IF k = l THEN i ELSE u.at[k]
  BY DEF M!MoveTo, Views

(* Missing and Settle leave the places as they are.                        *)
LEMMA MissingView ==
  ASSUME NEW u \in Views, NEW t \in Crew, NEW l \in Locations
  PROVE  /\ M!Missing(u, t, l) \in Views
         /\ M!Missing(u, t, l).at = u.at
         /\ M!Missing(u, t, l).missed = u.missed \cup {<<l, t>>}
  BY DEF M!Missing, Views

(* Settle forgets the missed reads of one location.                        *)
LEMMA SettleView ==
  ASSUME NEW u \in Views, NEW l \in Locations
  PROVE  /\ M!Settle(u, l) \in Views
         /\ M!Settle(u, l).at = u.at
         /\ M!Settle(u, l).missed = {p \in u.missed : p[1] # l}
  BY DEF M!Settle, Views

(* The place of the next message.                                          *)
LEMMA EndPlace ==
  ASSUME NEW l, Len(mem[l]) \in Nat, l \in Locks => Len(mem[l]) = 1
  PROVE  /\ M!End(l) \in Nat \ {0}
         /\ M!End(l) - 1 <= Len(mem[l]) /\ M!End(l) >= Len(mem[l]) /\ (l \in Locks => M!End(l) = 1)
  <1>1. CASE l \in Locks
    <2>1. Len(mem[l]) = 1
      BY <1>1
    <2>2. M!End(l) = 1
      BY <1>1 DEF M!End
    <2> QED
      BY <2>1, <2>2
  <1>2. CASE l \notin Locks
    <2>1. M!End(l) = Len(mem[l]) + 1
      BY <1>2 DEF M!End, M!Last
    <2> QED
      BY <1>2, <2>1
  <1> QED
    BY <1>1, <1>2

(* What is written becomes the last message; of a lock the only one.       *)
LEMMA ExtendedOrder ==
  ASSUME NEW l \in Locations, mem[l] \in Seq(Messages), NEW m \in Messages,
         l \in Locks => Len(mem[l]) = 1
  PROVE  /\ M!End(l) \in Nat \ {0}
         /\ M!Extended(l, m) \in Seq(Messages)
         /\ Len(M!Extended(l, m)) = M!End(l)
         /\ M!End(l) >= Len(mem[l]) /\ (l \in Locks => M!End(l) = 1)
         /\ \A i \in 1 .. M!End(l) :
              M!Extended(l, m)[i] = IF i = M!End(l) THEN m ELSE mem[l][i]
         /\ \A i \in 1 .. M!End(l) - 1 : i \in 1 .. Len(mem[l])
  <1> DEFINE n == M!End(l)
             s == SubSeq(mem[l], 1, n - 1)
  <1>1. Len(mem[l]) \in Nat
    BY LenProperties
  <1>2. n \in Nat \ {0} /\ n - 1 <= Len(mem[l]) /\ n >= Len(mem[l]) /\ (l \in Locks => n = 1)
    BY <1>1, EndPlace
  <1>3. s \in Seq(Messages) /\ Len(s) = n - 1 /\ \A i \in 1 .. n - 1 : s[i] = mem[l][i]
    BY <1>1, <1>2, SubSeqProperties
  <1>4. Append(s, m) \in Seq(Messages) /\ Len(Append(s, m)) = n
        /\ \A i \in 1 .. n : Append(s, m)[i] = IF i = n THEN m ELSE s[i]
    BY <1>2, <1>3, AppendProperties
  <1>5. M!Extended(l, m) = Append(s, m)
    BY DEF M!Extended
  <1> QED
    BY <1>1, <1>2, <1>3, <1>4, <1>5

-----------------------------------------------------------------------------
(* What the operations of the memory keep.                                 *)
MemTyped ==
  /\ mem \in [Locations -> Seq(Messages)] /\ sc \in [Locations -> Nat] /\ raced \in BOOLEAN
  /\ cur \in [Crew -> Views] /\ acq \in [Crew -> Views] /\ rel \in [Crew -> Views]

(* A message knows of itself, and only of messages there are.              *)
MessagesKnow ==
  \A l \in Locations : \A i \in 1 .. Len(mem[l]) :
    /\ mem[l][i].view.at[l] = i
    /\ \A k \in Locations : mem[l][i].view.at[k] \in 1 .. Len(mem[k])

(* The three views of a thread are in order.                               *)
ThreadsKnow ==
  \A t \in Crew, l \in Locations :
    1 <= rel[t].at[l] /\ rel[t].at[l] <= cur[t].at[l] /\ cur[t].at[l] <= acq[t].at[l] /\ acq[t].at[l] <= Len(mem[l])

(* Each location has a value, of a lock only the last one is kept.         *)
OrdersKept ==
  \A l \in Locations :
    /\ Len(mem[l]) \in Nat /\ Len(mem[l]) >= 1
    /\ l \in Locks => Len(mem[l]) = 1
    /\ sc[l] \in 1 .. Len(mem[l])

MemOK == MemTyped /\ MessagesKnow /\ ThreadsKnow /\ OrdersKept

(* The program does not change, so these sets do not.                      *)
LEMMA SameSets ==
  ASSUME UNCHANGED program
  PROVE  Locations' = Locations /\ Crew' = Crew /\ Views' = Views /\ Messages' = Messages
  BY DEF Locations, Crew, Views, Messages

(* A message that is there is a message.                                   *)
LEMMA MessageThere ==
  ASSUME MemOK, NEW l \in Locations, NEW i \in 1 .. Len(mem[l])
  PROVE  mem[l][i] \in Messages /\ mem[l][i].view \in Views /\ mem[l][i].val \in Int
  <1>1. mem[l][i] \in Messages
    BY DEF MemOK, MemTyped, OrdersKept
  <1> QED
    BY <1>1 DEF Messages

(* A thread whose views only grow stays in order with the others.          *)
LEMMA ThreadMoves ==
  ASSUME MemOK, UNCHANGED program, NEW t \in Crew, NEW c \in Views, NEW a \in Views,
         cur' = [cur EXCEPT ![t] = c], acq' = [acq EXCEPT ![t] = a], UNCHANGED rel,
         \A k \in Locations : /\ Len(mem'[k]) \in Nat /\ Len(mem[k]) <= Len(mem'[k])
                              /\ cur[t].at[k] <= c.at[k] /\ c.at[k] <= a.at[k] /\ a.at[k] <= Len(mem'[k])
  PROVE  /\ cur' \in [Crew -> Views] /\ acq' \in [Crew -> Views] /\ rel' \in [Crew -> Views]
         /\ ThreadsKnow'
  <1>1. cur' \in [Crew -> Views] /\ acq' \in [Crew -> Views] /\ rel' \in [Crew -> Views]
    BY DEF MemOK, MemTyped
  <1>2. ThreadsKnow'
    <2> SUFFICES ASSUME NEW u \in Crew, NEW k \in Locations
                 PROVE  1 <= rel[u].at[k] /\ rel[u].at[k] <= cur'[u].at[k] /\ cur'[u].at[k] <= acq'[u].at[k]
                        /\ acq'[u].at[k] <= Len(mem'[k])
      BY SameSets, Zenon DEF ThreadsKnow
    <2>1. /\ rel[u].at[k] \in Nat /\ cur[u].at[k] \in Nat /\ acq[u].at[k] \in Nat /\ Len(mem[k]) \in Nat
          /\ 1 <= rel[u].at[k] /\ rel[u].at[k] <= cur[u].at[k] /\ cur[u].at[k] <= acq[u].at[k]
          /\ acq[u].at[k] <= Len(mem[k])
      BY DEF MemOK, MemTyped, ThreadsKnow, OrdersKept, Views
    <2>2. c.at[k] \in Nat /\ a.at[k] \in Nat
      BY DEF Views
    <2>3. CASE u # t
      <3>1. cur'[u] = cur[u] /\ acq'[u] = acq[u]
        BY <2>3 DEF MemOK, MemTyped
      <3> QED
        BY <2>1, <3>1
    <2>4. CASE u = t
      <3>1. cur'[u] = c /\ acq'[u] = a
        BY <2>4 DEF MemOK, MemTyped
      <3> QED
        BY <2>1, <2>2, <2>4, <3>1
    <2> QED
      BY <2>3, <2>4
  <1> QED
    BY <1>1, <1>2, SameSets

(* A load.                                                                 *)
LEMMA LoadKeeps ==
  ASSUME MemOK, UNCHANGED program, NEW t \in Crew, NEW l \in Locations, NEW i, NEW o, M!Load(t, l, i, o)
  PROVE  MemOK' /\ UNCHANGED <<mem, rel>> /\ i \in 1 .. Len(mem[l])
  <1> DEFINE seen == M!MoveTo(cur[t], l, i)
             told == M!Merge(seen, mem[l][i].view)
  <1>0. /\ UNCHANGED <<mem, rel, sc, raced>>
        /\ cur' = [cur EXCEPT ![t] = IF o \in M!Acquires THEN told ELSE seen]
        /\ acq' = [acq EXCEPT ![t] = M!Merge(acq[t], told)]
    BY DEF M!Load
  <1>1. i \in 1 .. Len(mem[l]) /\ i \in Nat /\ cur[t].at[l] <= i
    <2>1. cur[t].at[l] \in Nat /\ 1 <= cur[t].at[l]
      BY DEF MemOK, MemTyped, ThreadsKnow, Views
    <2> QED
      BY <2>1 DEF M!Load, M!Readable, M!Last, MemOK, OrdersKept
  <1>2. cur[t] \in Views /\ acq[t] \in Views /\ mem[l][i].view \in Views
    BY <1>1, MessageThere DEF MemOK, MemTyped
  <1>3. /\ seen \in Views
        /\ \A k \in Locations : seen.at[k] = IF k = l THEN i ELSE cur[t].at[k]
    <2>1. cur[t] \in Views /\ i \in Nat
      BY <1>1, <1>2
    <2> QED
      BY <2>1, MoveToView
  <1> HIDE DEF seen
  <1>4. /\ told \in Views
        /\ \A k \in Locations : told.at[k] = IF seen.at[k] < mem[l][i].view.at[k] THEN mem[l][i].view.at[k] ELSE seen.at[k]
    BY <1>2, <1>3, MergeView
  <1> HIDE DEF told
  <1>5. /\ M!Merge(acq[t], told) \in Views
        /\ \A k \in Locations : M!Merge(acq[t], told).at[k] = IF acq[t].at[k] < told.at[k] THEN told.at[k] ELSE acq[t].at[k]
    BY <1>2, <1>4, MergeView
  <1>6. \A k \in Locations : /\ cur[t].at[k] <= seen.at[k] /\ seen.at[k] <= told.at[k]
                              /\ told.at[k] <= M!Merge(acq[t], told).at[k]
                              /\ M!Merge(acq[t], told).at[k] <= Len(mem[k])
    <2> TAKE k \in Locations
    <2>1. /\ cur[t].at[k] \in Nat /\ acq[t].at[k] \in Nat /\ Len(mem[k]) \in Nat
          /\ cur[t].at[k] <= acq[t].at[k] /\ acq[t].at[k] <= Len(mem[k])
      BY DEF MemOK, MemTyped, ThreadsKnow, OrdersKept, Views
    <2>2. mem[l][i].view.at[k] \in 1 .. Len(mem[k])
      BY <1>1 DEF MemOK, MessagesKnow
    <2> QED
      BY <1>1, <1>3, <1>4, <1>5, <2>1, <2>2
  <1> DEFINE c == IF o \in M!Acquires THEN told ELSE seen
  <1>7. c \in Views /\ \A k \in Locations : cur[t].at[k] <= c.at[k] /\ c.at[k] <= M!Merge(acq[t], told).at[k]
    <2>1. CASE o \in M!Acquires
      <3>1. c = told
        BY <2>1
      <3> HIDE DEF c
      <3> QED
        BY <1>2, <1>3, <1>4, <1>6, <3>1, SMTT(30) DEF Views
    <2>2. CASE o \notin M!Acquires
      <3>1. c = seen
        BY <2>2
      <3> HIDE DEF c
      <3> QED
        BY <1>3, <1>4, <1>5, <1>6, <3>1 DEF Views
    <2> QED
      BY <2>1, <2>2
  <1>8. cur' = [cur EXCEPT ![t] = c]
    BY <1>0
  <1> HIDE DEF c
  <1>9. /\ cur' \in [Crew -> Views] /\ acq' \in [Crew -> Views] /\ rel' \in [Crew -> Views]
        /\ ThreadsKnow'
    <2>1. \A k \in Locations : /\ Len(mem'[k]) \in Nat /\ Len(mem[k]) <= Len(mem'[k])
                              /\ cur[t].at[k] <= c.at[k] /\ c.at[k] <= M!Merge(acq[t], told).at[k]
                              /\ M!Merge(acq[t], told).at[k] <= Len(mem'[k])
      BY <1>0, <1>6, <1>7 DEF MemOK, OrdersKept
    <2> QED
      BY <1>0, <1>5, <1>7, <1>8, <2>1, ThreadMoves
  <1>10. MemTyped' /\ MessagesKnow' /\ OrdersKept'
    BY <1>0, <1>9, SameSets DEF MemOK, MemTyped, MessagesKnow, OrdersKept
  <1> QED
    BY <1>0, <1>1, <1>9, <1>10 DEF MemOK

(* The end of a modification order.                                        *)
LEMMA PutKeeps ==
  ASSUME MemOK, UNCHANGED program, NEW t, NEW l \in Locations, NEW v \in Int, NEW o, NEW u \in Views,
         \A k \in Locations : k # l => u.at[k] \in 1 .. Len(mem[k]),
         M!Put(t, l, v, u, o)
  PROVE  /\ mem' \in [Locations -> Seq(Messages)] /\ sc' \in [Locations -> Nat]
         /\ MessagesKnow' /\ OrdersKept'
         /\ M!End(l) \in Nat \ {0}
         /\ \A k \in Locations : /\ Len(mem'[k]) = (IF k = l THEN M!End(l) ELSE Len(mem[k]))
                                 /\ Len(mem[k]) <= Len(mem'[k])
         /\ \A k \in Locations : k # l => mem'[k] = mem[k]
         /\ mem'[l][M!End(l)] = [val |-> v, view |-> M!MoveTo(u, l, M!End(l))]
  <1> DEFINE n == M!End(l)
             w == M!MoveTo(u, l, n)
             m == [val |-> v, view |-> w]
  <1>1. /\ mem' = [mem EXCEPT ![l] = M!Extended(l, m)]
        /\ sc' = IF o = "seq_cst" THEN [sc EXCEPT ![l] = n] ELSE sc
    BY DEF M!Put
  <1>2. n \in Nat \ {0} /\ (l \in Locks => n = 1) /\ n >= Len(mem[l])
    <2>1. Len(mem[l]) \in Nat /\ (l \in Locks => Len(mem[l]) = 1)
      BY DEF MemOK, OrdersKept
    <2> HIDE DEF n
    <2>2. n = M!End(l)
      BY DEF n
    <2> QED
      BY <2>1, <2>2, EndPlace
  <1> HIDE DEF n
  <1>3. w \in Views /\ \A k \in Locations : w.at[k] = IF k = l THEN n ELSE u.at[k]
    <2>1. n \in Nat
      BY <1>2
    <2> QED
      BY <2>1, MoveToView, SMTT(30)
  <1> HIDE DEF w
  <1>4. m \in Messages
    BY <1>3 DEF Messages
  <1>5. /\ M!Extended(l, m) \in Seq(Messages)
        /\ Len(M!Extended(l, m)) = n
        /\ \A i \in 1 .. n : M!Extended(l, m)[i] = IF i = n THEN m ELSE mem[l][i]
        /\ \A i \in 1 .. n - 1 : i \in 1 .. Len(mem[l])
    <2>1. mem[l] \in Seq(Messages) /\ (l \in Locks => Len(mem[l]) = 1)
      BY DEF MemOK, MemTyped, OrdersKept
    <2> HIDE DEF m
    <2>2. n = M!End(l)
      BY DEF n
    <2>3. /\ M!Extended(l, m) \in Seq(Messages)
          /\ Len(M!Extended(l, m)) = M!End(l)
          /\ \A i \in 1 .. M!End(l) : M!Extended(l, m)[i] = IF i = M!End(l) THEN m ELSE mem[l][i]
          /\ \A i \in 1 .. M!End(l) - 1 : i \in 1 .. Len(mem[l])
      BY <1>4, <2>1, ExtendedOrder
    <2> QED
      BY <2>2, <2>3
  <1>6. mem' \in [Locations -> Seq(Messages)]
    BY <1>1, <1>5 DEF MemOK, MemTyped
  <1>7. sc' \in [Locations -> Nat] /\ \A k \in Locations : sc'[k] = sc[k] \/ (k = l /\ sc'[k] = n)
    BY <1>1, <1>2 DEF MemOK, MemTyped
  <1>8. mem'[l] = M!Extended(l, m) /\ \A k \in Locations : k # l => mem'[k] = mem[k]
    BY <1>1 DEF MemOK, MemTyped
  <1>9. \A k \in Locations : /\ Len(mem'[k]) = (IF k = l THEN n ELSE Len(mem[k]))
                             /\ Len(mem[k]) \in Nat /\ Len(mem[k]) <= Len(mem'[k])
    <2>1. \A k \in Locations : Len(mem[k]) \in Nat
      BY DEF MemOK, OrdersKept
    <2> HIDE DEF m
    <2> QED
      BY <1>2, <1>5, <1>8, <2>1
  <1>10. OrdersKept'
    <2> SUFFICES ASSUME NEW k \in Locations
                 PROVE  /\ Len(mem'[k]) \in Nat /\ Len(mem'[k]) >= 1
                        /\ k \in Locks => Len(mem'[k]) = 1
                        /\ sc'[k] \in 1 .. Len(mem'[k])
      BY SameSets DEF OrdersKept
    <2>1. /\ Len(mem[k]) \in Nat /\ Len(mem[k]) >= 1
          /\ k \in Locks => Len(mem[k]) = 1
          /\ sc[k] \in 1 .. Len(mem[k])
      BY DEF MemOK, OrdersKept
    <2>2. CASE k = l
      BY <1>2, <1>7, <1>9, <2>1, <2>2
    <2>3. CASE k # l
      BY <1>7, <1>9, <2>1, <2>3
    <2> QED
      BY <2>2, <2>3
  <1>11. MessagesKnow'
    <2> SUFFICES ASSUME NEW j \in Locations, NEW i \in 1 .. Len(mem'[j])
                 PROVE  /\ mem'[j][i].view.at[j] = i
                        /\ \A k \in Locations : mem'[j][i].view.at[k] \in 1 .. Len(mem'[k])
      BY SameSets DEF MessagesKnow
    <2>1. CASE j = l /\ i = n
      <3>1. mem'[j][i] = m
        BY <1>2, <1>5, <1>8, <2>1
      <3>2. mem'[j][i].view = w
        BY <3>1
      <3> HIDE DEF m
      <3>3. \A k \in Locations : w.at[k] \in 1 .. Len(mem'[k])
        BY <1>2, <1>3, <1>9
      <3> QED
        BY <1>3, <2>1, <3>2, <3>3
    <2>2. CASE ~(j = l /\ i = n)
      <3> HIDE DEF m
      <3>1. i \in 1 .. Len(mem[j]) /\ mem'[j][i] = mem[j][i]
        BY <1>2, <1>5, <1>8, <1>9, <2>2
      <3>2. /\ mem[j][i].view.at[j] = i
            /\ \A k \in Locations : mem[j][i].view.at[k] \in 1 .. Len(mem[k])
        BY <3>1 DEF MemOK, MessagesKnow
      <3>3. \A k \in Locations : 1 .. Len(mem[k]) \subseteq 1 .. Len(mem'[k])
        <4> TAKE k \in Locations
        <4>1. Len(mem[k]) \in Nat /\ Len(mem[k]) <= Len(mem'[k]) /\ Len(mem'[k]) \in Nat
          BY <1>2, <1>9
        <4> QED
          BY <4>1
      <3> QED
        BY <3>1, <3>2, <3>3, Zenon
    <2> QED
      BY <2>1, <2>2
  <1>12. mem'[l][n] = m
    <2> HIDE DEF m
    <2> QED
      BY <1>2, <1>5, <1>8
  <1> QED
    BY <1>2, <1>6, <1>7, <1>8, <1>9, <1>10, <1>11, <1>12 DEF n, w

(* What a thread knows is there.                                           *)
LEMMA ViewBounds ==
  ASSUME MemOK, NEW t \in Crew
  PROVE  /\ cur[t] \in Views /\ acq[t] \in Views /\ rel[t] \in Views
         /\ \A k \in Locations :
              /\ cur[t].at[k] \in Nat /\ acq[t].at[k] \in Nat /\ rel[t].at[k] \in Nat /\ Len(mem[k]) \in Nat
              /\ 1 <= rel[t].at[k] /\ rel[t].at[k] <= cur[t].at[k] /\ cur[t].at[k] <= acq[t].at[k]
              /\ acq[t].at[k] <= Len(mem[k])
  BY DEF MemOK, MemTyped, ThreadsKnow, OrdersKept, Views

(* A store.                                                                *)
LEMMA StoreKeeps ==
  ASSUME MemOK, UNCHANGED program, NEW t \in Crew, NEW l \in Locations, NEW v \in Int, NEW o, M!Store(t, l, v, o)
  PROVE  MemOK' /\ UNCHANGED rel
  <1> DEFINE n == M!End(l)
             u == IF o \in M!Releases THEN cur[t] ELSE rel[t]
             c == M!MoveTo(cur[t], l, n)
             a == M!MoveTo(acq[t], l, n)
  <1>1. /\ M!Put(t, l, v, u, o)
        /\ cur' = [cur EXCEPT ![t] = c]
        /\ acq' = [acq EXCEPT ![t] = a]
        /\ UNCHANGED <<rel, raced>>
    BY DEF M!Store
  <1>2. u \in Views /\ \A k \in Locations : u.at[k] \in 1 .. Len(mem[k])
    <2>1. u \in {cur[t], rel[t]}
      OBVIOUS
    <2> HIDE DEF u
    <2> QED
      BY <2>1, ViewBounds, SMTT(30)
  <1> HIDE DEF u
  <1>3. /\ mem' \in [Locations -> Seq(Messages)] /\ sc' \in [Locations -> Nat]
        /\ MessagesKnow' /\ OrdersKept'
        /\ n \in Nat
        /\ \A k \in Locations : /\ Len(mem'[k]) = (IF k = l THEN n ELSE Len(mem[k]))
                                /\ Len(mem[k]) <= Len(mem'[k])
    BY <1>1, <1>2, PutKeeps
  <1> HIDE DEF n
  <1>4. /\ c \in Views /\ \A k \in Locations : c.at[k] = IF k = l THEN n ELSE cur[t].at[k]
    <2>1. cur[t] \in Views /\ n \in Nat
      BY <1>3, ViewBounds
    <2> QED
      BY <2>1, MoveToView
  <1>5. /\ a \in Views /\ \A k \in Locations : a.at[k] = IF k = l THEN n ELSE acq[t].at[k]
    <2>1. acq[t] \in Views /\ n \in Nat
      BY <1>3, ViewBounds
    <2> QED
      BY <2>1, MoveToView
  <1> HIDE DEF c, a
  <1>6. \A k \in Locations : /\ Len(mem'[k]) \in Nat /\ Len(mem[k]) <= Len(mem'[k])
                             /\ cur[t].at[k] <= c.at[k] /\ c.at[k] <= a.at[k] /\ a.at[k] <= Len(mem'[k])
    <2> TAKE k \in Locations
    <2>1. /\ cur[t].at[k] \in Nat /\ acq[t].at[k] \in Nat /\ Len(mem[k]) \in Nat
          /\ cur[t].at[k] <= acq[t].at[k] /\ acq[t].at[k] <= Len(mem[k])
      BY ViewBounds
    <2>2. CASE k = l
      BY <1>3, <1>4, <1>5, <2>1, <2>2
    <2>3. CASE k # l
      BY <1>3, <1>4, <1>5, <2>1, <2>3
    <2> QED
      BY <2>2, <2>3
  <1>7. /\ cur' \in [Crew -> Views] /\ acq' \in [Crew -> Views] /\ rel' \in [Crew -> Views]
        /\ ThreadsKnow'
    BY <1>1, <1>4, <1>5, <1>6, ThreadMoves
  <1>8. MemTyped'
    BY <1>1, <1>3, <1>7, SameSets DEF MemOK, MemTyped
  <1> QED
    BY <1>1, <1>3, <1>7, <1>8 DEF MemOK

(* A read-modify-write.                                                    *)
LEMMA UpdateKeeps ==
  ASSUME MemOK, UNCHANGED program, NEW t \in Crew, NEW l \in Locations, NEW v \in Int, NEW o, M!Update(t, l, v, o)
  PROVE  MemOK' /\ UNCHANGED rel
  <1> DEFINE n    == M!End(l)
             old  == mem[l][M!Last(l)].view
             both == M!Merge(cur[t], old)
             told == M!MoveTo(both, l, n)
             seen == M!MoveTo(cur[t], l, n)
             now  == IF o \in M!Acquires THEN told ELSE seen
             mine == IF o \in M!Releases THEN now ELSE rel[t]
             a    == M!Merge(acq[t], told)
  <1>1. /\ M!Put(t, l, v, M!Merge(old, mine), o)
        /\ cur' = [cur EXCEPT ![t] = now]
        /\ acq' = [acq EXCEPT ![t] = a]
        /\ UNCHANGED <<rel, raced>>
    BY DEF M!Update
  <1>2. old \in Views /\ \A k \in Locations : old.at[k] \in 1 .. Len(mem[k])
    <2>1. M!Last(l) \in 1 .. Len(mem[l])
      BY DEF M!Last, MemOK, OrdersKept
    <2> QED
      BY <2>1, MessageThere DEF MemOK, MessagesKnow
  <1>3. n \in Nat \ {0} /\ n >= Len(mem[l]) /\ n - 1 <= Len(mem[l])
    <2>1. Len(mem[l]) \in Nat /\ (l \in Locks => Len(mem[l]) = 1)
      BY DEF MemOK, OrdersKept
    <2> HIDE DEF n
    <2>2. n = M!End(l)
      BY DEF n
    <2> QED
      BY <2>1, <2>2, EndPlace
  <1> HIDE DEF n, old
  <1>4. cur[t] \in Views /\ acq[t] \in Views /\ rel[t] \in Views /\ n \in Nat
    BY <1>3, ViewBounds
  <1>5. /\ both \in Views
        /\ \A k \in Locations : both.at[k] = IF cur[t].at[k] < old.at[k] THEN old.at[k] ELSE cur[t].at[k]
    BY <1>2, <1>4, MergeView
  <1> HIDE DEF both
  <1>6. told \in Views /\ \A k \in Locations : told.at[k] = IF k = l THEN n ELSE both.at[k]
    BY <1>4, <1>5, MoveToView
  <1>7. seen \in Views /\ \A k \in Locations : seen.at[k] = IF k = l THEN n ELSE cur[t].at[k]
    BY <1>4, MoveToView
  <1> HIDE DEF told, seen
  <1>8. a \in Views /\ \A k \in Locations : a.at[k] = IF acq[t].at[k] < told.at[k] THEN told.at[k] ELSE acq[t].at[k]
    BY <1>4, <1>6, MergeView
  <1> HIDE DEF a
  <1>9. now \in {told, seen} /\ mine \in {now, rel[t]}
    OBVIOUS
  <1> HIDE DEF now, mine
  <1> DEFINE lim(k) == IF k = l THEN n ELSE Len(mem[k])
  <1>10. \A k \in Locations :
           /\ cur[t].at[k] \in Nat /\ seen.at[k] \in Nat /\ told.at[k] \in Nat /\ a.at[k] \in Nat /\ Len(mem[k]) \in Nat
           /\ cur[t].at[k] <= seen.at[k] /\ seen.at[k] <= told.at[k] /\ told.at[k] <= a.at[k] /\ a.at[k] <= lim(k)
           /\ 1 <= seen.at[k] /\ Len(mem[k]) <= lim(k)
           /\ 1 <= rel[t].at[k] /\ rel[t].at[k] <= Len(mem[k]) /\ rel[t].at[k] \in Nat
    <2> TAKE k \in Locations
    <2>1. /\ cur[t].at[k] \in Nat /\ acq[t].at[k] \in Nat /\ rel[t].at[k] \in Nat /\ Len(mem[k]) \in Nat
          /\ 1 <= rel[t].at[k] /\ rel[t].at[k] <= cur[t].at[k] /\ cur[t].at[k] <= acq[t].at[k]
          /\ acq[t].at[k] <= Len(mem[k])
      BY ViewBounds
    <2>2. old.at[k] \in 1 .. Len(mem[k])
      BY <1>2
    <2>3. CASE k = l
      <3>1. told.at[k] = n /\ seen.at[k] = n /\ lim(k) = n
        BY <1>6, <1>7, <2>3
      <3>2. a.at[k] = IF acq[t].at[k] < told.at[k] THEN told.at[k] ELSE acq[t].at[k]
        BY <1>8
      <3>3. n \in Nat /\ n >= 1 /\ n >= Len(mem[k])
        BY <1>3, <2>3
      <3> HIDE DEF lim
      <3> QED
        BY <2>1, <3>1, <3>2, <3>3
    <2>4. CASE k # l
      BY <1>3, <1>5, <1>6, <1>7, <1>8, <2>1, <2>2, <2>4, SMTT(30)
    <2> QED
      BY <2>3, <2>4
  <1>11. /\ now \in Views
         /\ \A k \in Locations : /\ cur[t].at[k] <= now.at[k] /\ now.at[k] <= a.at[k]
                                 /\ now.at[k] \in 1 .. lim(k)
    <2>1. CASE now = told
      BY <1>6, <1>10, <2>1
    <2>2. CASE now = seen
      BY <1>7, <1>10, <2>2
    <2> QED
      BY <1>9, <2>1, <2>2
  <1>12. mine \in Views /\ \A k \in Locations : mine.at[k] \in 1 .. lim(k)
    <2>1. CASE mine = now
      BY <1>11, <2>1
    <2>2. CASE mine = rel[t]
      <3> SUFFICES ASSUME NEW k \in Locations
                   PROVE  rel[t].at[k] \in 1 .. lim(k)
        BY <1>4, <2>2
      <3>1. lim(k) \in Nat
        BY <1>3, <1>10
      <3> HIDE DEF lim
      <3> QED
        BY <1>10, <3>1
    <2> QED
      BY <1>9, <2>1, <2>2
  <1>13. /\ M!Merge(old, mine) \in Views
         /\ \A k \in Locations : k # l => M!Merge(old, mine).at[k] \in 1 .. Len(mem[k])
    <2>1. /\ M!Merge(old, mine) \in Views
          /\ \A k \in Locations : M!Merge(old, mine).at[k] = IF old.at[k] < mine.at[k] THEN mine.at[k] ELSE old.at[k]
      BY <1>2, <1>12, MergeView
    <2> QED
      BY <1>2, <1>12, <2>1
  <1>14. /\ mem' \in [Locations -> Seq(Messages)] /\ sc' \in [Locations -> Nat]
         /\ MessagesKnow' /\ OrdersKept'
         /\ \A k \in Locations : Len(mem'[k]) = lim(k)
    BY <1>1, <1>13, PutKeeps DEF n
  <1>15. \A k \in Locations : /\ Len(mem'[k]) \in Nat /\ Len(mem[k]) <= Len(mem'[k])
                              /\ cur[t].at[k] <= now.at[k] /\ now.at[k] <= a.at[k] /\ a.at[k] <= Len(mem'[k])
    <2> TAKE k \in Locations
    <2>1. lim(k) \in Nat /\ Len(mem'[k]) = lim(k)
      BY <1>3, <1>10, <1>14
    <2> HIDE DEF lim
    <2> QED
      BY <1>10, <1>11, <2>1
  <1>16. /\ cur' \in [Crew -> Views] /\ acq' \in [Crew -> Views] /\ rel' \in [Crew -> Views]
         /\ ThreadsKnow'
    BY <1>1, <1>8, <1>11, <1>15, ThreadMoves
  <1>17. MemTyped'
    BY <1>1, <1>14, <1>16, SameSets DEF MemOK, MemTyped
  <1> QED
    BY <1>1, <1>14, <1>16, <1>17 DEF MemOK

(* A fence.                                                                *)
LEMMA FenceKeeps ==
  ASSUME MemOK, UNCHANGED program, NEW t \in Crew, NEW o, M!Fence(t, o)
  PROVE  MemOK' /\ \A u \in Crew : u # t => rel'[u] = rel[u]
  <1>1. /\ cur' = [cur EXCEPT ![t] = IF o \in M!Acquires THEN acq[t] ELSE cur[t]]
        /\ rel' = [rel EXCEPT ![t] = IF o \in M!Releases THEN cur'[t] ELSE rel[t]]
        /\ UNCHANGED <<mem, acq, sc, raced>>
    BY DEF M!Fence
  <1>2. /\ cur \in [Crew -> Views] /\ acq \in [Crew -> Views] /\ rel \in [Crew -> Views]
    BY DEF MemOK, MemTyped
  <1>3. /\ cur'[t] \in {acq[t], cur[t]} /\ rel'[t] \in {cur'[t], rel[t]}
        /\ \A u \in Crew : u # t => cur'[u] = cur[u] /\ rel'[u] = rel[u]
    BY <1>1, <1>2
  <1>4. cur' \in [Crew -> Views] /\ rel' \in [Crew -> Views]
    BY <1>1, <1>2
  <1>5. ThreadsKnow'
    <2> SUFFICES ASSUME NEW u \in Crew, NEW k \in Locations
                 PROVE  1 <= rel'[u].at[k] /\ rel'[u].at[k] <= cur'[u].at[k] /\ cur'[u].at[k] <= acq[u].at[k]
                        /\ acq[u].at[k] <= Len(mem[k])
      BY <1>1, SameSets, Zenon DEF ThreadsKnow
    <2>1. /\ cur[u].at[k] \in Nat /\ acq[u].at[k] \in Nat /\ rel[u].at[k] \in Nat /\ Len(mem[k]) \in Nat
          /\ 1 <= rel[u].at[k] /\ rel[u].at[k] <= cur[u].at[k] /\ cur[u].at[k] <= acq[u].at[k]
          /\ acq[u].at[k] <= Len(mem[k])
      BY ViewBounds
    <2>2. cur'[u] \in {acq[u], cur[u]} /\ rel'[u] \in {cur'[u], rel[u]}
      BY <1>3
    <2> QED
      BY <2>1, <2>2
  <1>6. MemTyped' /\ MessagesKnow' /\ OrdersKept'
    BY <1>1, <1>4, SameSets DEF MemOK, MemTyped, MessagesKnow, OrdersKept
  <1> QED
    BY <1>3, <1>5, <1>6 DEF MemOK

(* A plain read: only what the others miss changes.                        *)
LEMMA ReadKeeps ==
  ASSUME MemOK, UNCHANGED program, NEW t \in Crew, NEW l \in Locations, NEW i, M!Read(t, l, i)
  PROVE  /\ MemOK'
         /\ \A u \in Crew : rel'[u].at = rel[u].at /\ cur'[u].at = cur[u].at
         /\ \A k \in Locations : Len(mem'[k]) = Len(mem[k])
         /\ \A k \in Locations : \A j \in 1 .. Len(mem[k]) :
              mem'[k][j].view = M!Missing(mem[k][j].view, t, l) /\ mem'[k][j].val = mem[k][j].val
         /\ cur'[t] = cur[t] /\ \A u \in Crew : u # t => cur'[u] = M!Missing(cur[u], t, l)
  <1> DEFINE others(view) == [u \in DOMAIN view |-> IF u = t THEN view[u] ELSE M!Missing(view[u], t, l)]
  <1>1. /\ raced' = (raced \/ M!Races(t, l))
        /\ cur' = others(cur) /\ acq' = others(acq)
        /\ rel' = [u \in DOMAIN rel |-> M!Missing(rel[u], t, l)]
        /\ mem' = [k \in DOMAIN mem |-> [j \in DOMAIN mem[k] |-> [mem[k][j] EXCEPT !.view = M!Missing(mem[k][j].view, t, l)]]]
        /\ sc' = sc
    BY DEF M!Read
  <1>2. \A u \in Crew : /\ cur[u] \in Views /\ acq[u] \in Views /\ rel[u] \in Views
    BY ViewBounds
  <1>3. /\ cur' \in [Crew -> Views] /\ acq' \in [Crew -> Views] /\ rel' \in [Crew -> Views]
        /\ \A u \in Crew : cur'[u].at = cur[u].at /\ acq'[u].at = acq[u].at /\ rel'[u].at = rel[u].at
        /\ cur'[t] = cur[t] /\ \A u \in Crew : u # t => cur'[u] = M!Missing(cur[u], t, l)
    <2>1. DOMAIN cur = Crew /\ DOMAIN acq = Crew /\ DOMAIN rel = Crew
      BY DEF MemOK, MemTyped
    <2>2. \A u \in Crew : /\ cur'[u] = (IF u = t THEN cur[u] ELSE M!Missing(cur[u], t, l))
                          /\ acq'[u] = (IF u = t THEN acq[u] ELSE M!Missing(acq[u], t, l))
                          /\ rel'[u] = M!Missing(rel[u], t, l)
      BY <1>1, <2>1
    <2>3. DOMAIN cur' = Crew /\ DOMAIN acq' = Crew /\ DOMAIN rel' = Crew
      BY <1>1, <2>1
    <2>4. \A u \in Crew : /\ M!Missing(cur[u], t, l) \in Views /\ M!Missing(cur[u], t, l).at = cur[u].at
                          /\ M!Missing(acq[u], t, l) \in Views /\ M!Missing(acq[u], t, l).at = acq[u].at
                          /\ M!Missing(rel[u], t, l) \in Views /\ M!Missing(rel[u], t, l).at = rel[u].at
      BY <1>2, MissingView
    <2>5. \A u \in Crew : /\ cur'[u] \in Views /\ acq'[u] \in Views /\ rel'[u] \in Views
                          /\ cur'[u].at = cur[u].at /\ acq'[u].at = acq[u].at /\ rel'[u].at = rel[u].at
      BY <1>2, <2>2, <2>4, Zenon
    <2>6. cur' = [u \in Crew |-> cur'[u]] /\ acq' = [u \in Crew |-> acq'[u]] /\ rel' = [u \in Crew |-> rel'[u]]
      BY <1>1, <2>1
    <2> QED
      BY <2>2, <2>5, <2>6
  <1> HIDE DEF others
  <1>4. /\ mem' \in [Locations -> Seq(Messages)]
        /\ \A k \in Locations : Len(mem'[k]) = Len(mem[k])
        /\ \A k \in Locations : \A j \in 1 .. Len(mem[k]) :
             /\ mem'[k][j].view = M!Missing(mem[k][j].view, t, l) /\ mem'[k][j].val = mem[k][j].val
             /\ mem'[k][j].view.at = mem[k][j].view.at
    <2>1. DOMAIN mem = Locations /\ \A k \in Locations : mem[k] \in Seq(Messages)
      BY DEF MemOK, MemTyped
    <2>2. \A k \in Locations : \A j \in 1 .. Len(mem[k]) :
            /\ mem[k][j] \in Messages
            /\ M!Missing(mem[k][j].view, t, l) \in Views
            /\ M!Missing(mem[k][j].view, t, l).at = mem[k][j].view.at
      BY MessageThere, MissingView
    <2> DEFINE msg(k, j) == [mem[k][j] EXCEPT !.view = M!Missing(mem[k][j].view, t, l)]
    <2>3. \A k \in Locations : \A j \in 1 .. Len(mem[k]) :
            /\ msg(k, j) \in Messages /\ msg(k, j).val = mem[k][j].val
            /\ msg(k, j).view = M!Missing(mem[k][j].view, t, l)
      BY <2>2 DEF Messages
    <2>4. \A k \in Locations : mem'[k] = [j \in 1 .. Len(mem[k]) |-> msg(k, j)]
      BY <1>1, <2>1
    <2> HIDE DEF msg
    <2>5. \A k \in Locations : /\ Len(mem[k]) \in Nat
                               /\ mem'[k] \in Seq(Messages) /\ Len(mem'[k]) = Len(mem[k])
      <3> TAKE k \in Locations
      <3>1. Len(mem[k]) \in Nat
        BY <2>1, LenProperties
      <3>2. mem'[k] \in [1 .. Len(mem[k]) -> Messages]
        BY <2>3, <2>4
      <3>3. mem'[k] \in Seq(Messages)
        BY <3>1, <3>2
      <3> QED
        BY <3>1, <3>2, <3>3, LenProperties
    <2>6. mem' \in [Locations -> Seq(Messages)]
      <3>1. mem' = [k \in Locations |-> mem'[k]]
        BY <1>1, <2>1
      <3> QED
        BY <2>5, <3>1
    <2> QED
      BY <2>2, <2>3, <2>4, <2>5, <2>6
  <1>5. MemTyped'
    BY <1>1, <1>3, <1>4, SameSets DEF MemOK, MemTyped
  <1>6. MessagesKnow'
    <2> SUFFICES ASSUME NEW k \in Locations, NEW j \in 1 .. Len(mem[k])
                 PROVE  /\ mem'[k][j].view.at[k] = j
                        /\ \A m \in Locations : mem'[k][j].view.at[m] \in 1 .. Len(mem'[m])
      BY <1>4, SameSets DEF MessagesKnow
    <2>1. /\ mem[k][j].view.at[k] = j
          /\ \A m \in Locations : mem[k][j].view.at[m] \in 1 .. Len(mem[m])
      BY DEF MemOK, MessagesKnow
    <2> QED
      BY <1>4, <2>1
  <1>7. ThreadsKnow' /\ OrdersKept'
    BY <1>1, <1>3, <1>4, SameSets, ZenonT(40) DEF MemOK, ThreadsKnow, OrdersKept
  <1> QED
    BY <1>3, <1>4, <1>5, <1>6, <1>7 DEF MemOK

(* A plain write: the last message, and nobody misses a read any more.     *)
LEMMA WriteKeeps ==
  ASSUME MemOK, UNCHANGED program, NEW t \in Crew, NEW l \in Locations, NEW v \in Int, M!Write(t, l, v)
  PROVE  /\ MemOK'
         /\ \A u \in Crew : rel'[u].at = rel[u].at
         /\ \A u \in Crew : u # t => cur'[u] = M!Settle(cur[u], l)
         /\ cur'[t] = M!Settle(M!MoveTo(cur[t], l, M!End(l)), l)
         /\ \A k \in Locations : Len(mem'[k]) = IF k = l THEN M!End(l) ELSE Len(mem[k])
         /\ \A k \in Locations : k # l => \A j \in 1 .. Len(mem[k]) :
              mem'[k][j].view = M!Settle(mem[k][j].view, l) /\ mem'[k][j].val = mem[k][j].val
  <1> DEFINE n == M!End(l)
             moved(view, u) == IF u = t THEN M!MoveTo(view[u], l, n) ELSE view[u]
             all(view) == [u \in DOMAIN view |-> IF u = t THEN M!Settle(M!MoveTo(view[u], l, n), l) ELSE M!Settle(view[u], l)]
             new == [val |-> v, view |-> M!MoveTo(rel[t], l, n)]
             old(k) == IF k = l THEN M!Extended(l, new) ELSE mem[k]
             msg(k, j) == [old(k)[j] EXCEPT !.view = M!Settle(old(k)[j].view, l)]
  <1>1. /\ raced' = (raced \/ M!Races(t, l) \/ M!Misses(cur[t], l))
        /\ cur' = all(cur) /\ acq' = all(acq)
        /\ rel' = [u \in DOMAIN rel |-> M!Settle(rel[u], l)]
        /\ mem' = [k \in DOMAIN mem |-> [j \in DOMAIN old(k) |-> msg(k, j)]]
        /\ sc' = sc
    BY DEF M!Write
  <1>2. n \in Nat \ {0} /\ n >= Len(mem[l]) /\ (l \in Locks => n = 1)
    <2>1. Len(mem[l]) \in Nat /\ (l \in Locks => Len(mem[l]) = 1)
      BY DEF MemOK, OrdersKept
    <2> HIDE DEF n
    <2>2. n = M!End(l)
      BY DEF n
    <2> QED
      BY <2>1, <2>2, EndPlace
  <1>3. /\ DOMAIN mem = Locations /\ DOMAIN cur = Crew /\ DOMAIN acq = Crew /\ DOMAIN rel = Crew
        /\ \A k \in Locations : mem[k] \in Seq(Messages) /\ Len(mem[k]) \in Nat
    BY DEF MemOK, MemTyped, OrdersKept
  <1>4. /\ \A u \in Crew : /\ cur[u] \in Views /\ acq[u] \in Views /\ rel[u] \in Views
        /\ M!MoveTo(rel[t], l, n) \in Views
        /\ \A k \in Locations : M!MoveTo(rel[t], l, n).at[k] = IF k = l THEN n ELSE rel[t].at[k]
    <2>1. \A u \in Crew : /\ cur[u] \in Views /\ acq[u] \in Views /\ rel[u] \in Views
      BY ViewBounds
    <2>2. n \in Nat
      BY <1>2
    <2> QED
      BY <2>1, <2>2, MoveToView
  <1>5. new \in Messages
    BY <1>4 DEF Messages
  <1>6. /\ M!Extended(l, new) \in Seq(Messages)
        /\ Len(M!Extended(l, new)) = n
        /\ \A i \in 1 .. n : M!Extended(l, new)[i] = IF i = n THEN new ELSE mem[l][i]
        /\ \A i \in 1 .. n - 1 : i \in 1 .. Len(mem[l])
    <2>1. mem[l] \in Seq(Messages) /\ (l \in Locks => Len(mem[l]) = 1)
      BY DEF MemOK, MemTyped, OrdersKept
    <2> HIDE DEF new, n
    <2>2. n = M!End(l)
      BY DEF n
    <2>3. /\ M!Extended(l, new) \in Seq(Messages)
          /\ Len(M!Extended(l, new)) = M!End(l)
          /\ \A i \in 1 .. M!End(l) : M!Extended(l, new)[i] = IF i = M!End(l) THEN new ELSE mem[l][i]
          /\ \A i \in 1 .. M!End(l) - 1 : i \in 1 .. Len(mem[l])
      BY <1>5, <2>1, ExtendedOrder
    <2> QED
      BY <2>2, <2>3
  <1> DEFINE lim(k) == IF k = l THEN n ELSE Len(mem[k])
  <1>7. \A k \in Locations : /\ lim(k) \in Nat \ {0} /\ lim(k) >= Len(mem[k])
                             /\ old(k) \in Seq(Messages) /\ Len(old(k)) = lim(k)
    <2> TAKE k \in Locations
    <2>0. Len(mem[k]) \in Nat \ {0}
      BY DEF MemOK, OrdersKept
    <2>1. CASE k = l
      <3>1. lim(k) = n /\ old(k) = M!Extended(l, new)
        BY <2>1
      <3> HIDE DEF lim, old, new, n
      <3> QED
        BY <1>2, <1>6, <2>0, <2>1, <3>1
    <2>2. CASE k # l
      <3>1. lim(k) = Len(mem[k]) /\ old(k) = mem[k]
        BY <2>2
      <3> HIDE DEF lim, old, new, n
      <3> QED
        BY <1>3, <2>0, <3>1
    <2> QED
      BY <2>1, <2>2
  <1>8. \A k \in Locations : \A j \in 1 .. lim(k) :
          /\ old(k)[j] \in Messages
          /\ old(k)[j].view.at[k] = j
          /\ \A m \in Locations : old(k)[j].view.at[m] \in 1 .. lim(m)
    <2> TAKE k \in Locations
    <2> TAKE j \in 1 .. lim(k)
    <2>1. CASE k = l /\ j = n
      <3>1. old(k)[j] = new
        BY <1>2, <1>6, <2>1
      <3>2. new.view = M!MoveTo(rel[t], l, n)
        OBVIOUS
      <3>3. \A m \in Locations : m # l => rel[t].at[m] \in 1 .. lim(m)
        BY <1>3, ViewBounds
      <3>4. lim(l) = n /\ n \in 1 .. n
        BY <1>2
      <3> HIDE DEF old, new, lim, n
      <3> QED
        BY <1>4, <1>5, <2>1, <3>1, <3>2, <3>3, <3>4
    <2>2. CASE ~(k = l /\ j = n)
      <3>1. old(k)[j] = mem[k][j] /\ j \in 1 .. Len(mem[k])
        <4>1. CASE k = l
          <5>1. lim(k) = n /\ old(k) = M!Extended(l, new)
            BY <4>1
          <5> HIDE DEF lim, old, new, n
          <5>2. j \in 1 .. n /\ j # n
            BY <2>2, <4>1, <5>1
          <5>3. j \in 1 .. n - 1
            BY <1>2, <5>2
          <5> QED
            BY <1>6, <4>1, <5>1, <5>2, <5>3
        <4>2. CASE k # l
          BY <4>2
        <4> QED
          BY <4>1, <4>2
      <3>2. /\ mem[k][j].view.at[k] = j
            /\ \A m \in Locations : mem[k][j].view.at[m] \in 1 .. Len(mem[m])
        BY <3>1 DEF MemOK, MessagesKnow
      <3>3. mem[k][j] \in Messages
        BY <3>1, MessageThere
      <3>4. \A m \in Locations : 1 .. Len(mem[m]) \subseteq 1 .. lim(m)
        <4> TAKE m \in Locations
        <4>1. lim(m) \in Nat /\ lim(m) >= Len(mem[m]) /\ Len(mem[m]) \in Nat
          BY <1>3, <1>7
        <4> HIDE DEF lim
        <4> QED
          BY <4>1
      <3> HIDE DEF lim, old
      <3> QED
        BY <3>1, <3>2, <3>3, <3>4
    <2> QED
      BY <2>1, <2>2
  <1> HIDE DEF old
  <1>9. \A k \in Locations : \A j \in 1 .. lim(k) :
          /\ msg(k, j) \in Messages /\ msg(k, j).val = old(k)[j].val
          /\ msg(k, j).view = M!Settle(old(k)[j].view, l)
          /\ msg(k, j).view.at = old(k)[j].view.at
    <2> TAKE k \in Locations
    <2> TAKE j \in 1 .. lim(k)
    <2>1. old(k)[j] \in Messages /\ old(k)[j].view \in Views
      BY <1>8 DEF Messages
    <2>2. /\ M!Settle(old(k)[j].view, l) \in Views
          /\ M!Settle(old(k)[j].view, l).at = old(k)[j].view.at
      BY <2>1, SettleView
    <2> HIDE DEF lim
    <2> QED
      BY <2>1, <2>2 DEF Messages
  <1> HIDE DEF lim
  <1>10. \A k \in Locations : /\ mem'[k] = [j \in 1 .. lim(k) |-> msg(k, j)]
                              /\ mem'[k] \in Seq(Messages) /\ Len(mem'[k]) = lim(k)
    <2> TAKE k \in Locations
    <2>1. old(k) \in Seq(Messages) /\ Len(old(k)) = lim(k) /\ lim(k) \in Nat
      BY <1>7
    <2>2. DOMAIN old(k) = 1 .. lim(k)
      BY <2>1
    <2> HIDE DEF msg
    <2>3. mem'[k] = [j \in 1 .. lim(k) |-> msg(k, j)]
      BY <1>1, <1>3, <2>2
    <2>4. mem'[k] \in [1 .. lim(k) -> Messages]
      BY <1>9, <2>3
    <2>5. mem'[k] \in Seq(Messages)
      BY <2>1, <2>4
    <2> QED
      BY <2>1, <2>3, <2>4, <2>5, LenProperties
  <1> HIDE DEF msg
  <1>11. mem' \in [Locations -> Seq(Messages)]
    <2>1. mem' = [k \in Locations |-> mem'[k]]
      BY <1>1, <1>3
    <2> QED
      BY <1>10, <2>1
  <1>12. /\ cur' \in [Crew -> Views] /\ acq' \in [Crew -> Views] /\ rel' \in [Crew -> Views]
         /\ \A u \in Crew : /\ cur'[u] = M!Settle(moved(cur, u), l) /\ cur'[u].at = moved(cur, u).at
                            /\ acq'[u] = M!Settle(moved(acq, u), l) /\ acq'[u].at = moved(acq, u).at
                            /\ rel'[u].at = rel[u].at
    <2>1. \A u \in Crew : moved(cur, u) \in Views /\ moved(acq, u) \in Views
      <3> TAKE u \in Crew
      <3>1. cur[u] \in Views /\ acq[u] \in Views /\ n \in Nat
        BY <1>2, <1>4
      <3>2. M!MoveTo(cur[u], l, n) \in Views /\ M!MoveTo(acq[u], l, n) \in Views
        BY <3>1, MoveToView
      <3> HIDE DEF n
      <3> QED
        BY <3>1, <3>2
    <2>2. \A u \in Crew : /\ cur'[u] = M!Settle(moved(cur, u), l)
                          /\ acq'[u] = M!Settle(moved(acq, u), l)
                          /\ rel'[u] = M!Settle(rel[u], l)
      BY <1>1, <1>3
    <2>3. cur' = [u \in Crew |-> cur'[u]] /\ acq' = [u \in Crew |-> acq'[u]] /\ rel' = [u \in Crew |-> rel'[u]]
      BY <1>1, <1>3
    <2> HIDE DEF moved
    <2>4. \A u \in Crew : /\ cur'[u] \in Views /\ cur'[u].at = moved(cur, u).at
                          /\ acq'[u] \in Views /\ acq'[u].at = moved(acq, u).at
                          /\ rel'[u] \in Views /\ rel'[u].at = rel[u].at
      BY <1>4, <2>1, <2>2, SettleView
    <2> QED
      BY <2>2, <2>3, <2>4
  <1>13. MemTyped'
    BY <1>1, <1>11, <1>12, SameSets DEF MemOK, MemTyped
  <1>14. MessagesKnow'
    <2> SUFFICES ASSUME NEW k \in Locations, NEW j \in 1 .. Len(mem'[k])
                 PROVE  /\ mem'[k][j].view.at[k] = j
                        /\ \A m \in Locations : mem'[k][j].view.at[m] \in 1 .. Len(mem'[m])
      BY SameSets, Zenon DEF MessagesKnow
    <2>1. j \in 1 .. lim(k) /\ \A m \in Locations : Len(mem'[m]) = lim(m)
      BY <1>10
    <2>2. mem'[k][j] = msg(k, j)
      BY <1>10, <2>1
    <2> QED
      BY <1>8, <1>9, <2>1, <2>2, SMTT(30)
  <1>15. OrdersKept'
    <2> SUFFICES ASSUME NEW k \in Locations
                 PROVE  /\ lim(k) \in Nat /\ lim(k) >= 1
                        /\ k \in Locks => lim(k) = 1
                        /\ sc[k] \in 1 .. lim(k)
      BY <1>1, <1>10, SameSets DEF OrdersKept
    <2>1. /\ Len(mem[k]) \in Nat
          /\ k \in Locks => Len(mem[k]) = 1
          /\ sc[k] \in 1 .. Len(mem[k])
      BY DEF MemOK, OrdersKept
    <2>2. lim(k) \in Nat \ {0} /\ lim(k) >= Len(mem[k])
      BY <1>7
    <2>3. k \in Locks => lim(k) = 1
      BY <1>2, <2>1 DEF lim
    <2> QED
      BY <2>1, <2>2, <2>3
  <1>16. ThreadsKnow'
    <2> SUFFICES ASSUME NEW u \in Crew, NEW k \in Locations
                 PROVE  /\ 1 <= rel'[u].at[k] /\ rel'[u].at[k] <= cur'[u].at[k]
                        /\ cur'[u].at[k] <= acq'[u].at[k] /\ acq'[u].at[k] <= Len(mem'[k])
      BY SameSets, Zenon DEF ThreadsKnow
    <2>0. /\ rel'[u].at[k] = rel[u].at[k] /\ cur'[u].at[k] = moved(cur, u).at[k]
          /\ acq'[u].at[k] = moved(acq, u).at[k] /\ Len(mem'[k]) = lim(k)
      <3> HIDE DEF moved
      <3> QED
        BY <1>10, <1>12
    <2>1. /\ cur[u] \in Views /\ acq[u] \in Views
          /\ cur[u].at[k] \in Nat /\ acq[u].at[k] \in Nat /\ rel[u].at[k] \in Nat /\ Len(mem[k]) \in Nat
          /\ 1 <= rel[u].at[k] /\ rel[u].at[k] <= cur[u].at[k] /\ cur[u].at[k] <= acq[u].at[k]
          /\ acq[u].at[k] <= Len(mem[k])
      BY ViewBounds
    <2>2. lim(k) \in Nat /\ lim(k) >= Len(mem[k]) /\ (k = l => lim(k) = n) /\ n \in Nat /\ n >= Len(mem[l])
      BY <1>2, <1>7 DEF lim
    <2>3. /\ \A m \in Locations : M!MoveTo(cur[u], l, n).at[m] = IF m = l THEN n ELSE cur[u].at[m]
          /\ \A m \in Locations : M!MoveTo(acq[u], l, n).at[m] = IF m = l THEN n ELSE acq[u].at[m]
      <3> HIDE DEF n
      <3>1. cur[u] \in Views /\ acq[u] \in Views /\ n \in Nat
        BY <2>1, <2>2
      <3> QED
        BY <3>1, MoveToView, SMTT(30)
    <2> HIDE DEF n
    <2>4. CASE u = t /\ k = l
      BY <2>0, <2>1, <2>2, <2>3, <2>4
    <2>5. CASE u = t /\ k # l
      BY <2>0, <2>1, <2>2, <2>3, <2>5
    <2>6. CASE u # t
      BY <2>0, <2>1, <2>2, <2>6
    <2> QED
      BY <2>4, <2>5, <2>6
  <1>17. \A k \in Locations : k # l => \A j \in 1 .. Len(mem[k]) :
           mem'[k][j].view = M!Settle(mem[k][j].view, l) /\ mem'[k][j].val = mem[k][j].val
    <2> SUFFICES ASSUME NEW k \in Locations, k # l, NEW j \in 1 .. Len(mem[k])
                 PROVE  mem'[k][j].view = M!Settle(mem[k][j].view, l) /\ mem'[k][j].val = mem[k][j].val
      OBVIOUS
    <2>1. lim(k) = Len(mem[k]) /\ old(k) = mem[k]
      BY DEF lim, old
    <2>2. mem'[k][j] = msg(k, j)
      BY <1>10, <2>1
    <2> QED
      BY <1>9, <2>1, <2>2
  <1>18. \A k \in Locations : Len(mem'[k]) = IF k = l THEN n ELSE Len(mem[k])
    BY <1>10 DEF lim
  <1> QED
    BY <1>12, <1>13, <1>14, <1>15, <1>16, <1>17, <1>18 DEF MemOK

(* New threads know what the one knows that starts them.                   *)
LEMMA StartKeeps ==
  ASSUME MemOK, UNCHANGED program, NEW t \in Crew, NEW T, M!StartThreads(t, T),
         \A u \in T : u \in Crew /\ \A k \in Locations : rel[u].at[k] = 1
  PROVE  /\ MemOK' /\ UNCHANGED <<mem, rel>>
         /\ \A u \in Crew : cur'[u] = IF u \in T THEN cur[t] ELSE cur[u]
  <1>1. /\ cur' = [u \in DOMAIN cur |-> IF u \in T THEN cur[t] ELSE cur[u]]
        /\ acq' = [u \in DOMAIN acq |-> IF u \in T THEN cur[t] ELSE acq[u]]
        /\ UNCHANGED <<mem, rel, sc, raced>>
    BY DEF M!StartThreads
  <1>2. /\ cur \in [Crew -> Views] /\ acq \in [Crew -> Views] /\ rel \in [Crew -> Views]
    BY DEF MemOK, MemTyped
  <1>3. /\ cur' \in [Crew -> Views] /\ acq' \in [Crew -> Views]
        /\ \A u \in Crew : /\ cur'[u] = IF u \in T THEN cur[t] ELSE cur[u]
                           /\ acq'[u] = IF u \in T THEN cur[t] ELSE acq[u]
    BY <1>1, <1>2
  <1>4. ThreadsKnow'
    <2> SUFFICES ASSUME NEW u \in Crew, NEW k \in Locations
                 PROVE  1 <= rel[u].at[k] /\ rel[u].at[k] <= cur'[u].at[k] /\ cur'[u].at[k] <= acq'[u].at[k]
                        /\ acq'[u].at[k] <= Len(mem[k])
      BY <1>1, SameSets, Zenon DEF ThreadsKnow
    <2>1. \A w \in {t, u} :
            /\ cur[w].at[k] \in Nat /\ acq[w].at[k] \in Nat /\ rel[w].at[k] \in Nat /\ Len(mem[k]) \in Nat
            /\ 1 <= rel[w].at[k] /\ rel[w].at[k] <= cur[w].at[k] /\ cur[w].at[k] <= acq[w].at[k]
            /\ acq[w].at[k] <= Len(mem[k])
      BY ViewBounds
    <2>2. CASE u \in T
      <3>1. rel[u].at[k] = 1 /\ cur'[u] = cur[t] /\ acq'[u] = cur[t]
        BY <1>3, <2>2
      <3> QED
        BY <2>1, <3>1
    <2>3. CASE u \notin T
      <3>1. cur'[u] = cur[u] /\ acq'[u] = acq[u]
        BY <1>3, <2>3
      <3> QED
        BY <2>1, <3>1
    <2> QED
      BY <2>2, <2>3
  <1>5. MemTyped' /\ MessagesKnow' /\ OrdersKept'
    BY <1>1, <1>3, SameSets DEF MemOK, MemTyped, MessagesKnow, OrdersKept
  <1> QED
    BY <1>1, <1>3, <1>4, <1>5 DEF MemOK

(* Who joins a thread knows what that thread knew.                         *)
LEMMA JoinKeeps ==
  ASSUME MemOK, UNCHANGED program, NEW t \in Crew, NEW u \in Crew, M!JoinThread(t, u)
  PROVE  MemOK' /\ UNCHANGED <<mem, rel>>
  <1> DEFINE c == M!Merge(cur[t], cur[u])
             a == M!Merge(acq[t], cur[u])
  <1>1. cur' = [cur EXCEPT ![t] = c] /\ acq' = [acq EXCEPT ![t] = a] /\ UNCHANGED <<mem, rel, sc, raced>>
    BY DEF M!JoinThread
  <1>2. cur[t] \in Views /\ acq[t] \in Views /\ cur[u] \in Views
    BY ViewBounds
  <1>3. c \in Views /\ \A k \in Locations : c.at[k] = IF cur[t].at[k] < cur[u].at[k] THEN cur[u].at[k] ELSE cur[t].at[k]
    BY <1>2, MergeView
  <1>4. a \in Views /\ \A k \in Locations : a.at[k] = IF acq[t].at[k] < cur[u].at[k] THEN cur[u].at[k] ELSE acq[t].at[k]
    BY <1>2, MergeView
  <1> HIDE DEF c, a
  <1>5. \A k \in Locations : /\ Len(mem'[k]) \in Nat /\ Len(mem[k]) <= Len(mem'[k])
                             /\ cur[t].at[k] <= c.at[k] /\ c.at[k] <= a.at[k] /\ a.at[k] <= Len(mem'[k])
    <2> TAKE k \in Locations
    <2>1. \A w \in {t, u} :
            /\ cur[w].at[k] \in Nat /\ acq[w].at[k] \in Nat /\ Len(mem[k]) \in Nat
            /\ cur[w].at[k] <= acq[w].at[k] /\ acq[w].at[k] <= Len(mem[k])
      BY ViewBounds
    <2> QED
      BY <1>1, <1>3, <1>4, <2>1
  <1>6. /\ cur' \in [Crew -> Views] /\ acq' \in [Crew -> Views] /\ rel' \in [Crew -> Views]
        /\ ThreadsKnow'
    BY <1>1, <1>3, <1>4, <1>5, ThreadMoves
  <1>7. MemTyped' /\ MessagesKnow' /\ OrdersKept'
    BY <1>1, <1>6, SameSets DEF MemOK, MemTyped, MessagesKnow, OrdersKept
  <1> QED
    BY <1>1, <1>6, <1>7 DEF MemOK

-----------------------------------------------------------------------------
(* How a thread settles.                                                   *)

(* A set of numbers has a least one.                                       *)
LEMMA Least ==
  ASSUME NEW S, S \subseteq Nat, S # {}
  PROVE  \E n \in S : \A m \in S : n <= m
  <1> DEFINE less == OpToRel(<, Nat)
  <1>1. \E n \in S : \A m \in S : ~(<<m, n>> \in less)
    BY WFMin, NatLessThanWellFounded, Zenon
  <1>2. \A m, n \in Nat : m < n => <<m, n>> \in less
    BY DEF OpToRel
  <1> HIDE DEF less
  <1>3. PICK n \in S : \A m \in S : ~(<<m, n>> \in less)
    BY <1>1
  <1>4. \A m \in S : n <= m
    <2> TAKE m \in S
    <2>1. m \in Nat /\ n \in Nat
      OBVIOUS
    <2>2. ~(m < n)
      BY <1>2, <1>3, <2>1, Zenon
    <2> QED
      BY <2>1, <2>2
  <1> QED
    BY <1>3, <1>4

(* The function by which Settled is defined is there, for bodies of any    *)
(* length.                                                                 *)
LEMMA RunExists ==
  ASSUME NEW N \in Nat, NEW body
  PROVE  \E f : f = [n \in 0 .. N |-> [s \in Locals |->
                       IF n > 0 /\ IsPrivate(body, s.pc) THEN f[n - 1][After(body, s)] ELSE s]]
  <1> DEFINE Is(f, m) == f = [n \in 0 .. m |-> [s \in Locals |->
                                IF n > 0 /\ IsPrivate(body, s.pc) THEN f[n - 1][After(body, s)] ELSE s]]
             W == {m \in Nat : ~\E f : Is(f, m)}
  <1>1. ASSUME NEW m \in W, \A k \in W : m <= k PROVE FALSE
    <2>1. CASE m = 0
      <3> DEFINE f == [n \in 0 .. 0 |-> [s \in Locals |-> s]]
      <3>1. Is(f, 0)
        OBVIOUS
      <3> QED
        BY <1>1, <2>1, <3>1
    <2>2. CASE m # 0
      <3>1. m - 1 \in Nat /\ m - 1 \notin W
        BY <1>1, <2>2
      <3>2. PICK g : Is(g, m - 1)
        BY <3>1
      <3> DEFINE f == [n \in 0 .. m |-> IF n < m THEN g[n] ELSE [s \in Locals |->
                                IF IsPrivate(body, s.pc) THEN g[m - 1][After(body, s)] ELSE s]]
      <3>3. \A n \in 0 .. m - 1 : f[n] = g[n] /\ n \in 0 .. m
        OBVIOUS
      <3>4. f[m] = [s \in Locals |-> IF IsPrivate(body, s.pc) THEN f[m - 1][After(body, s)] ELSE s]
        <4>1. m \in 0 .. m /\ ~(m < m) /\ m - 1 \in 0 .. m - 1
          BY <3>1
        <4>2. f[m] = [s \in Locals |-> IF IsPrivate(body, s.pc) THEN g[m - 1][After(body, s)] ELSE s]
          BY <4>1
        <4>3. f[m - 1] = g[m - 1]
          BY <3>3, <4>1
        <4> HIDE DEF f
        <4> QED
          BY <4>2, <4>3
      <3>5. \A n \in 0 .. m - 1 : f[n] = [s \in Locals |-> IF n > 0 /\ IsPrivate(body, s.pc) THEN f[n - 1][After(body, s)] ELSE s]
        <4> TAKE n \in 0 .. m - 1
        <4>1. g[n] = [s \in Locals |-> IF n > 0 /\ IsPrivate(body, s.pc) THEN g[n - 1][After(body, s)] ELSE s]
          BY <3>2, Zenon
        <4>2. n > 0 => f[n - 1] = g[n - 1]
          OBVIOUS
        <4>3. f[n] = g[n]
          BY <3>3
        <4> HIDE DEF f
        <4>4. CASE n > 0
          BY <4>1, <4>2, <4>3, <4>4
        <4>5. CASE ~(n > 0)
          BY <4>1, <4>3, <4>5
        <4> QED
          BY <4>4, <4>5
      <3>6. f = [n \in 0 .. m |-> f[n]]
        OBVIOUS
      <3> HIDE DEF f
      <3>7. \A n \in 0 .. m : f[n] = [s \in Locals |-> IF n > 0 /\ IsPrivate(body, s.pc) THEN f[n - 1][After(body, s)] ELSE s]
        <4> TAKE n \in 0 .. m
        <4>1. CASE n = m
          BY <2>2, <3>4, <4>1
        <4>2. CASE n # m
          BY <3>5, <4>2
        <4> QED
          BY <4>1, <4>2
      <3>8. Is(f, m)
        BY <3>6, <3>7
      <3> QED
        BY <1>1, <3>8
    <2> QED
      BY <2>1, <2>2
  <1>2. W = {}
    BY <1>1, Least
  <1> QED
    BY <1>2

(* What the fields of an instruction hold.                                 *)
LEMMA InstructionFields ==
  ASSUME NEW L, NEW T, NEW ins \in InstructionSet(L, T)
  PROVE  /\ ins.op \in {"load", "store", "update", "cas", "read", "write", "sleep"} => ins.at \in L
         /\ ins.op \in {"load", "update", "read", "deref", "sleep", "set"} => ins.to \in Registers
         /\ ins.op = "set" => ins.to # "zero"
         /\ ins.op \in {"store", "cas", "write", "assign", "publish", "set"} => ins.val \in Values
         /\ ins.op \in {"assign", "publish"} => ins.ptr \in Values
         /\ ins.op = "deref" => ins.ptr \in Registers
         /\ ins.op \in {"update", "sleep"} => ins.add \in Int
         /\ ins.op = "cas" => ins.expected \in Registers
         /\ ins.op \in {"cas", "ifin", "either"} => ins.by \in Int
         /\ ins.op \in {"ifin", "check"} => ins.reg \in Registers
         /\ ins.op = "sleep" => ins.cv \in STRING
         /\ ins.op = "start" => ins.who \subseteq T
         /\ ins.op = "join" => ins.who \in T
  BY DEF InstructionSet

(* All but a jump and the end of the process lead to the next place.       *)
LEMMA GoesOn ==
  ASSUME NEW ins, NEW k, ins.op \notin {"ifin", "exit"}
  PROVE  k + 1 \in Targets(ins, k)
  BY DEF Targets, AlwaysJumps

(* Register "zero" is 0. *)
Zeroed(g) == g["zero"] = 0

(* A value is a number.                                                    *)
LEMMA ValueOf ==
  ASSUME NEW g \in [Registers -> Int], NEW v \in Values
  PROVE  Of(g, v) \in Int
  <1>1. v.k \in Int /\ v.m \in Int /\ v.a \in Registers /\ v.b \in Registers
    BY DEF Values
  <1>2. g[v.a] \in Int /\ g[v.b] \in Int
    BY <1>1
  <1>3. v.m * g[v.a] \in Int
    BY <1>1, <1>2
  <1> QED
    BY <1>1, <1>2, <1>3 DEF Of

(* One private instruction.                                                *)
LEMMA AfterKeeps ==
  ASSUME NEW L, NEW T, NEW body \in Seq(InstructionSet(L, T)),
         NEW s \in Locals, s.pc \in 1 .. Len(body) + 1, Zeroed(s.reg), IsPrivate(body, s.pc)
  PROVE  /\ s.pc \in 1 .. Len(body)
         /\ After(body, s) \in Locals
         /\ After(body, s).pc \in Targets(body[s.pc], s.pc)
         /\ Zeroed(After(body, s).reg)
  <1> DEFINE ins == body[s.pc]
             p == s.pc + (IF ins.op = "ifin" /\ s.reg[ins.reg] \in ins.set THEN ins.by ELSE 1)
             g == IF ins.op = "set" THEN [s.reg EXCEPT ![ins.to] = Of(s.reg, ins.val)] ELSE s.reg
             b == s.bad \/ (ins.op = "check" /\ s.reg[ins.reg] \notin ins.set)
  <1>1. s.pc \in 1 .. Len(body) /\ ins \in InstructionSet(L, T) /\ ins.op \in Private
    BY DEF IsPrivate
  <1>2. s.reg \in [Registers -> Int] /\ s.pc \in Int /\ s.bad \in BOOLEAN
    BY DEF Locals
  <1>3. After(body, s) = [pc |-> p, reg |-> g, bad |-> b]
    BY DEF After
  <1> HIDE DEF ins
  <1>4. /\ ins.op = "set" => ins.to \in Registers /\ ins.to # "zero" /\ ins.val \in Values
        /\ ins.op = "ifin" => ins.by \in Int
    BY <1>1, InstructionFields
  <1>5. p \in Int /\ p \in Targets(ins, s.pc)
    <2>1. CASE ins.op = "ifin" /\ s.reg[ins.reg] \in ins.set
      BY <1>2, <1>4, <2>1 DEF Targets
    <2>2. CASE ~(ins.op = "ifin" /\ s.reg[ins.reg] \in ins.set)
      <3>1. ins.op # "exit"
        BY <1>1 DEF Private
      <3>2. ~AlwaysJumps(ins)
        BY <2>2 DEF AlwaysJumps, Zeroed
      <3>3. p = s.pc + 1
        BY <2>2
      <3> HIDE DEF p
      <3> QED
        BY <1>2, <3>1, <3>2, <3>3 DEF Targets
    <2> QED
      BY <2>1, <2>2
  <1>6. g \in [Registers -> Int] /\ (Zeroed(s.reg) => Zeroed(g))
    <2>1. CASE ins.op = "set"
      <3>1. Of(s.reg, ins.val) \in Int
        BY <1>2, <1>4, <2>1, ValueOf
      <3> QED
        BY <1>2, <1>4, <2>1, <3>1 DEF Zeroed, Registers
    <2>2. CASE ins.op # "set"
      BY <1>2, <2>2
    <2> QED
      BY <2>1, <2>2
  <1>7. b \in BOOLEAN
    OBVIOUS
  <1> HIDE DEF p, g, b
  <1> QED
    BY <1>1, <1>3, <1>5, <1>6, <1>7 DEF ins, Locals

(* Whatever part of the body private instructions do not leave is not left *)
(* while a thread settles.                                                 *)
LEMMA SettledKeeps ==
  ASSUME NEW L, NEW T, NEW body \in Seq(InstructionSet(L, T)),
         NEW G, G \subseteq 1 .. Len(body) + 1,
         \A k \in G : k \in 1 .. Len(body) /\ body[k].op \in Private => Targets(body[k], k) \subseteq G,
         NEW p \in G, NEW g \in [Registers -> Int], Zeroed(g)
  PROVE  /\ Settled(body, p, g) \in Locals
         /\ Settled(body, p, g).pc \in G
         /\ Zeroed(Settled(body, p, g).reg)
  <1> DEFINE N == Len(body)
             Is(f) == f = [n \in 0 .. N |-> [s \in Locals |->
                        IF n > 0 /\ IsPrivate(body, s.pc) THEN f[n - 1][After(body, s)] ELSE s]]
             run == CHOOSE f : Is(f)
             s0 == [pc |-> p, reg |-> g, bad |-> FALSE]
             Good(r) == r \in Locals /\ r.pc \in G /\ Zeroed(r.reg)
             W == {n \in 0 .. N : \E s \in Locals : Good(s) /\ ~Good(run[n][s])}
  <1>0. N \in Nat
    BY LenProperties
  <1>1. Is(run)
    <2>1. \E f : Is(f)
      BY <1>0, RunExists, Zenon
    <2> QED
      BY <2>1, Zenon
  <1>2. Settled(body, p, g) = run[N][s0]
    BY Zenon DEF Settled
  <1> HIDE DEF run
  <1>3. \A n \in 0 .. N : \A s \in Locals :
          run[n][s] = IF n > 0 /\ IsPrivate(body, s.pc) THEN run[n - 1][After(body, s)] ELSE s
    <2> TAKE n \in 0 .. N
    <2>1. run[n] = [s \in Locals |-> IF n > 0 /\ IsPrivate(body, s.pc) THEN run[n - 1][After(body, s)] ELSE s]
      BY <1>1, Zenon
    <2> QED
      BY <2>1, Zenon
  <1>4. ASSUME NEW n \in W, \A k \in W : n <= k PROVE FALSE
    <2>1. PICK s \in Locals : s.pc \in G /\ Zeroed(s.reg) /\ ~Good(run[n][s])
      OBVIOUS
    <2>2. n \in 0 .. N /\ run[n][s] = IF n > 0 /\ IsPrivate(body, s.pc) THEN run[n - 1][After(body, s)] ELSE s
      BY <1>3
    <2>3. CASE n > 0 /\ IsPrivate(body, s.pc)
      <3>1. run[n][s] = run[n - 1][After(body, s)]
        BY <2>2, <2>3
      <3>2. n - 1 \in 0 .. N /\ n - 1 \notin W
        BY <1>0, <1>4, <2>2, <2>3
      <3>3. /\ s.pc \in 1 .. N /\ After(body, s) \in Locals
            /\ After(body, s).pc \in Targets(body[s.pc], s.pc)
            /\ Zeroed(After(body, s).reg)
        BY <2>1, <2>3, AfterKeeps
      <3>4. After(body, s).pc \in G
        BY <2>1, <2>3, <3>3 DEF IsPrivate
      <3>5. Good(After(body, s))
        BY <3>3, <3>4
      <3> HIDE DEF Good
      <3>6. Good(run[n - 1][After(body, s)])
        BY <3>2, <3>3, <3>5
      <3> QED
        BY <2>1, <3>1, <3>6
    <2>4. CASE ~(n > 0 /\ IsPrivate(body, s.pc))
      <3>1. run[n][s] = s
        BY <2>2, <2>4
      <3> QED
        BY <2>1, <3>1
    <2> QED
      BY <2>3, <2>4
  <1>5. W = {}
    <2>1. W \subseteq Nat
      BY <1>0
    <2> HIDE DEF W
    <2> QED
      BY <1>4, <2>1, Least
  <1>6. s0 \in Locals /\ Good(s0)
    BY DEF Locals
  <1> HIDE DEF s0
  <1>7. Good(run[N][s0])
    <2>1. N \in 0 .. N
      BY <1>0
    <2> HIDE DEF Good
    <2> QED
      BY <1>5, <1>6, <2>1
  <1> QED
    BY <1>2, <1>7

-----------------------------------------------------------------------------
(* The invariant.                                                          *)
ThreadsOK ==
  /\ program \in Programs /\ code = Library[program].code
  /\ pc \in [Crew -> Nat] /\ reg \in [Crew -> [Registers -> Int]] /\ asleep \in [Crew -> {Awake} \cup STRING]
  /\ wrong \in BOOLEAN
  /\ \A t \in Crew : pc[t] <= Len(code[t]) + 1 /\ Zeroed(reg[t])

(* Who has not started has released nothing.                               *)
Fresh == \A t \in Crew : pc[t] = 0 => \A l \in Locations : rel[t].at[l] = 1

(* Who sleeps is behind the instruction that made it sleep.                *)
Sleepers == \A t \in Crew : asleep[t] # Awake => pc[t] - 1 \in 1 .. Len(code[t]) /\ code[t][pc[t] - 1].op = "sleep"

Inv == ThreadsOK /\ Fresh /\ Sleepers /\ MemOK

(* The code of a well-formed program.                                      *)
LEMMA CodeTyped ==
  ASSUME ThreadsOK
  PROVE  /\ DOMAIN code = Crew /\ DOMAIN pc = Crew
         /\ \A t \in Crew : /\ code[t] \in Seq(InstructionSet(Locations, Crew)) /\ Len(code[t]) \in Nat
                            /\ \A k \in 1 .. Len(code[t]) : Targets(code[t][k], k) \subseteq 1 .. Len(code[t]) + 1
         /\ "main" \in Crew
  <1>1. WellFormed(Library[program]) /\ code = Library[program].code
    BY ProgramsAssumption DEF ThreadsOK
  <1>2. /\ "main" \in DOMAIN code
        /\ \A t \in DOMAIN code :
             /\ code[t] \in Seq(InstructionSet(DOMAIN Library[program].vars, DOMAIN code))
             /\ \A k \in 1 .. Len(code[t]) : Targets(code[t][k], k) \subseteq 1 .. Len(code[t]) + 1
    BY <1>1, Zenon DEF WellFormed
  <1>3. DOMAIN code = Crew /\ DOMAIN pc = Crew
    BY <1>1 DEF Crew, ThreadsOK
  <1> QED
    BY <1>2, <1>3, LenProperties, Zenon DEF Locations

(* The instruction a thread is at.                                         *)
LEMMA Current ==
  ASSUME ThreadsOK, NEW t, Running(t)
  PROVE  /\ t \in Crew /\ pc[t] \in 1 .. Len(code[t]) /\ asleep[t] = Awake
         /\ code[t][pc[t]] \in InstructionSet(Locations, Crew)
         /\ Targets(code[t][pc[t]], pc[t]) \subseteq 1 .. Len(code[t]) + 1
         /\ reg[t] \in [Registers -> Int]
  <1>1. t \in Crew /\ pc[t] \in 1 .. Len(code[t]) /\ asleep[t] = Awake
    BY CodeTyped DEF Running
  <1>2. /\ code[t] \in Seq(InstructionSet(Locations, Crew)) /\ Len(code[t]) \in Nat
        /\ \A k \in 1 .. Len(code[t]) : Targets(code[t][k], k) \subseteq 1 .. Len(code[t]) + 1
    BY <1>1, CodeTyped
  <1>3. reg[t] \in [Registers -> Int]
    BY <1>1 DEF ThreadsOK
  <1> QED
    BY <1>1, <1>2, <1>3, ElementOfSeq

(* A step of t keeps it in a part of its body that private instructions do *)
(* not leave.                                                              *)
LEMMA StepKeepsPart ==
  ASSUME ThreadsOK, NEW t, Running(t), NEW d \in Int, NEW r \in Registers, NEW v \in Int, StepTo(t, d, r, v),
         NEW G, G \subseteq 1 .. Len(code[t]) + 1, pc[t] + d \in G,
         \A k \in G : k \in 1 .. Len(code[t]) /\ code[t][k].op \in Private => Targets(code[t][k], k) \subseteq G
  PROVE  /\ ThreadsOK' /\ UNCHANGED <<program, code, asleep>>
         /\ pc'[t] \in G
         /\ pc' = [pc EXCEPT ![t] = pc'[t]] /\ reg' = [reg EXCEPT ![t] = reg'[t]]
  <1> DEFINE g == [reg[t] EXCEPT ![r] = IF r = "zero" THEN 0 ELSE v]
             s == Settled(code[t], pc[t] + d, g)
  <1>1. /\ pc' = [pc EXCEPT ![t] = s.pc] /\ reg' = [reg EXCEPT ![t] = s.reg] /\ wrong' = (wrong \/ s.bad)
        /\ UNCHANGED <<program, code, asleep>>
    BY DEF StepTo
  <1>2. t \in Crew /\ Zeroed(reg[t]) /\ reg[t] \in [Registers -> Int]
    BY Current DEF ThreadsOK
  <1>3. g \in [Registers -> Int] /\ Zeroed(g)
    BY <1>2 DEF Zeroed, Registers
  <1>4. code[t] \in Seq(InstructionSet(Locations, Crew)) /\ Len(code[t]) \in Nat
    BY <1>2, CodeTyped
  <1> HIDE DEF g
  <1>5. s \in Locals /\ s.pc \in G /\ Zeroed(s.reg)
    BY <1>3, <1>4, SettledKeeps
  <1> HIDE DEF s
  <1>6. s.pc \in Nat /\ s.pc <= Len(code[t]) + 1 /\ s.reg \in [Registers -> Int] /\ s.bad \in BOOLEAN
    <2>1. s.pc \in 1 .. Len(code[t]) + 1
      BY <1>5
    <2> QED
      BY <1>4, <1>5, <2>1 DEF Locals
  <1>7. /\ pc' \in [Crew -> Nat] /\ reg' \in [Crew -> [Registers -> Int]] /\ wrong' \in BOOLEAN
        /\ pc'[t] = s.pc /\ reg'[t] = s.reg
        /\ \A u \in Crew : u # t => pc'[u] = pc[u] /\ reg'[u] = reg[u]
    BY <1>1, <1>2, <1>6 DEF ThreadsOK
  <1>8. \A u \in Crew : pc'[u] <= Len(code[u]) + 1 /\ Zeroed(reg'[u])
    BY <1>5, <1>6, <1>7 DEF ThreadsOK
  <1>9. ThreadsOK'
    BY <1>1, <1>7, <1>8, SameSets DEF ThreadsOK, Zeroed
  <1> QED
    BY <1>1, <1>5, <1>7, <1>9

(* A step of one thread, when the memory has kept what it keeps.           *)
LEMMA StepKeeps ==
  ASSUME Inv, NEW t, Running(t), NEW d \in Int, NEW r \in Registers, NEW v \in Int, StepTo(t, d, r, v),
         pc[t] + d \in 1 .. Len(code[t]) + 1,
         MemOK', \A u \in Crew : u # t => rel'[u].at = rel[u].at
  PROVE  Inv'
  <1>0. PICK G : G = 1 .. Len(code[t]) + 1
    OBVIOUS
  <1>1. \A k \in G : k \in 1 .. Len(code[t]) /\ code[t][k].op \in Private => Targets(code[t][k], k) \subseteq G
    BY <1>0, CodeTyped, Current DEF Inv
  <1>2. /\ ThreadsOK' /\ UNCHANGED <<program, code, asleep>>
        /\ pc'[t] \in G
        /\ pc' = [pc EXCEPT ![t] = pc'[t]] /\ reg' = [reg EXCEPT ![t] = reg'[t]]
    <2>1. pc[t] + d \in G /\ G \subseteq 1 .. Len(code[t]) + 1 /\ ThreadsOK
      BY <1>0 DEF Inv
    <2> QED
      BY <1>1, <2>1, StepKeepsPart
  <1>3. pc'[t] # 0 /\ asleep[t] = Awake
    BY <1>0, <1>2 DEF Running
  <1>4. \A u \in Crew : u # t => pc'[u] = pc[u]
    BY <1>2 DEF Inv, ThreadsOK
  <1>5. Fresh'
    BY <1>2, <1>3, <1>4, SameSets DEF Inv, Fresh
  <1>6. Sleepers'
    BY <1>2, <1>3, <1>4, SameSets DEF Inv, Sleepers, Awake
  <1> QED
    BY <1>2, <1>5, <1>6 DEF Inv


(* It holds at the start.                                                  *)
LEMMA InitKeeps == Init => Inv
  <1> SUFFICES ASSUME Init PROVE Inv
    OBVIOUS
  <1> DEFINE prog == Library[program]
             start == [at |-> [l \in DOMAIN prog.vars |-> 1], missed |-> {}]
  <1>1. program \in Programs /\ code = prog.code /\ WellFormed(prog)
    BY ProgramsAssumption DEF Init
  <1>2. /\ prog.vars \in [Locations -> Int] /\ DOMAIN code = Crew
        /\ \A t \in Crew : code[t] \in Seq(InstructionSet(DOMAIN prog.vars, DOMAIN prog.code))
    BY <1>1, Zenon DEF WellFormed, Locations, Crew
  <1>3. DOMAIN pc = Crew /\ pc = [t \in Crew |-> IF t = "main" THEN 1 ELSE 0]
    BY <1>2 DEF Init
  <1>4. \A t \in Crew : Len(code[t]) \in Nat
    BY <1>2, LenProperties
  <1>5. ThreadsOK
    <2>1. pc \in [Crew -> Nat] /\ \A t \in Crew : pc[t] <= Len(code[t]) + 1
      BY <1>3, <1>4
    <2>2. reg \in [Crew -> [Registers -> Int]] /\ \A t \in Crew : Zeroed(reg[t])
      BY <1>3 DEF Init, Zeroed, Registers
    <2>3. asleep \in [Crew -> {Awake} \cup STRING] /\ wrong \in BOOLEAN
      BY <1>3 DEF Init
    <2> QED
      BY <1>1, <2>1, <2>2, <2>3 DEF ThreadsOK
  <1>6. Sleepers
    BY <1>3 DEF Init, Sleepers
  <1>7. /\ start.at = [l \in Locations |-> 1]
        /\ mem = [l \in Locations |-> <<[val |-> prog.vars[l], view |-> start]>>]
        /\ cur = [t \in Crew |-> start] /\ acq = cur /\ rel = cur /\ sc = start.at /\ raced = FALSE
    BY <1>3 DEF Init, M!MemInit, Locations
  <1>8. start \in Views /\ \A l \in Locations : start.at[l] = 1
    BY <1>7 DEF Views
  <1> HIDE DEF start
  <1>9. \A l \in Locations : [val |-> prog.vars[l], view |-> start] \in Messages
    BY <1>2, <1>8 DEF Messages
  <1>10. MemTyped
    <2>1. \A m \in Messages : <<m>> \in Seq(Messages)
      OBVIOUS
    <2>2. mem \in [Locations -> Seq(Messages)]
      BY <1>7, <1>9, <2>1
    <2>3. /\ cur \in [Crew -> Views] /\ acq \in [Crew -> Views] /\ rel \in [Crew -> Views]
      BY <1>7, <1>8
    <2>4. sc \in [Locations -> Nat]
      BY <1>7
    <2>5. raced \in BOOLEAN
      BY <1>7, Zenon
    <2> QED
      BY <2>2, <2>3, <2>4, <2>5 DEF MemTyped
  <1>11. \A l \in Locations : mem[l][1].view = start /\ Len(mem[l]) = 1
    BY <1>7
  <1>12. MessagesKnow /\ ThreadsKnow /\ OrdersKept
    <2>1. MessagesKnow
      BY <1>8, <1>11 DEF MessagesKnow
    <2>2. ThreadsKnow
      BY <1>7, <1>8, <1>11 DEF ThreadsKnow
    <2>3. OrdersKept
      BY <1>7, <1>8, <1>11 DEF OrdersKept
    <2> QED
      BY <2>1, <2>2, <2>3
  <1>13. Fresh
    BY <1>7, <1>8 DEF Fresh
  <1> QED
    BY <1>5, <1>6, <1>10, <1>12, <1>13 DEF Inv, MemOK

-----------------------------------------------------------------------------
(* Every action keeps it.                                                  *)

(* To the next instruction.                                                *)
LEMMA NextPlace ==
  ASSUME Inv, NEW t, Running(t)
  PROVE  pc[t] + 1 \in 1 .. Len(code[t]) + 1
  BY Current, CodeTyped DEF Inv

(* The last message of a location.                                         *)
LEMMA LastThere ==
  ASSUME MemOK, NEW l \in Locations
  PROVE  M!Last(l) \in 1 .. Len(mem[l]) /\ mem[l][M!Last(l)].val \in Int
  <1>1. M!Last(l) \in 1 .. Len(mem[l])
    BY DEF M!Last, MemOK, OrdersKept
  <1> QED
    BY <1>1, MessageThere

(* A step of memory that moves its thread to the next instruction.         *)
LEMMA StepOnKeeps ==
  ASSUME Inv, NEW t, Running(t), Step(t), MemOK', \A u \in Crew : u # t => rel'[u].at = rel[u].at
  PROVE  Inv'
  <1>1. /\ 1 \in Int /\ "zero" \in Registers /\ 0 \in Int
        /\ StepTo(t, 1, "zero", 0) /\ pc[t] + 1 \in 1 .. Len(code[t]) + 1
    BY NextPlace DEF Step, Registers
  <1> QED
    BY <1>1, StepKeeps

(* An atomic load.                                                         *)
LEMMA LoadsKeeps ==
  ASSUME Inv, NEW t, NEW i, Loads(t, i)
  PROVE  Inv'
  <1> DEFINE ins == code[t][pc[t]]
             v == mem[ins.at][i].val
  <1>1. /\ Running(t) /\ ins.op = "load"
        /\ M!Load(t, ins.at, i, ins.ord) /\ StepTo(t, 1, ins.to, v)
    BY DEF Loads, At
  <1>2. /\ t \in Crew /\ ins \in InstructionSet(Locations, Crew) /\ UNCHANGED program
        /\ MemOK /\ pc[t] + 1 \in 1 .. Len(code[t]) + 1
    BY <1>1, Current, NextPlace DEF Inv, StepTo
  <1> HIDE DEF ins
  <1>3. ins.at \in Locations /\ ins.to \in Registers
    BY <1>1, <1>2, InstructionFields
  <1>4. MemOK' /\ UNCHANGED <<mem, rel>> /\ i \in 1 .. Len(mem[ins.at])
    BY <1>1, <1>2, <1>3, LoadKeeps
  <1>5. v \in Int
    BY <1>2, <1>3, <1>4, MessageThere
  <1>6. \A u \in Crew : u # t => rel'[u].at = rel[u].at
    BY <1>4
  <1> HIDE DEF v
  <1> QED
    BY <1>1, <1>2, <1>3, <1>4, <1>5, <1>6, StepKeeps

(* An atomic store: unlocking, setting a flag.                             *)
LEMMA StoresKeeps ==
  ASSUME Inv, NEW t, Stores(t)
  PROVE  Inv'
  <1> DEFINE ins == code[t][pc[t]]
  <1>1. /\ Running(t) /\ ins.op = "store"
        /\ M!Store(t, ins.at, Value(t, ins.val), ins.ord) /\ Step(t)
    BY DEF Stores, At
  <1>2. /\ t \in Crew /\ ins \in InstructionSet(Locations, Crew) /\ UNCHANGED program
        /\ MemOK /\ reg[t] \in [Registers -> Int]
    BY <1>1, Current DEF Inv, Step, StepTo
  <1> HIDE DEF ins
  <1>3. ins.at \in Locations /\ ins.val \in Values
    BY <1>1, <1>2, InstructionFields
  <1>4. Value(t, ins.val) \in Int
    BY <1>2, <1>3, ValueOf DEF Value
  <1>5. MemOK' /\ UNCHANGED rel
    BY <1>1, <1>2, <1>3, <1>4, StoreKeeps
  <1> QED
    BY <1>1, <1>5, StepOnKeeps

(* A pointer stored in an atomic variable.                                 *)
LEMMA PublishesKeeps ==
  ASSUME Inv, NEW t, Publishes(t)
  PROVE  Inv'
  <1> DEFINE ins == code[t][pc[t]]
  <1>1. /\ Running(t) /\ ins.op = "publish" /\ Valid(Value(t, ins.ptr))
        /\ M!Store(t, Object[Value(t, ins.ptr)], Value(t, ins.val), ins.ord) /\ Step(t)
    BY DEF Publishes, At
  <1>2. /\ t \in Crew /\ ins \in InstructionSet(Locations, Crew) /\ UNCHANGED program
        /\ MemOK /\ reg[t] \in [Registers -> Int] /\ DOMAIN mem = Locations
    BY <1>1, Current DEF Inv, Step, StepTo, MemOK, MemTyped
  <1> HIDE DEF ins
  <1>3. Object[Value(t, ins.ptr)] \in Locations /\ ins.val \in Values
    BY <1>1, <1>2, InstructionFields DEF Valid
  <1>4. Value(t, ins.val) \in Int
    BY <1>2, <1>3, ValueOf DEF Value
  <1>5. MemOK' /\ UNCHANGED rel
    BY <1>1, <1>2, <1>3, <1>4, StoreKeeps
  <1> QED
    BY <1>1, <1>5, StepOnKeeps

(* A read-modify-write: locking, counting, trying to lock.                 *)
LEMMA UpdatesKeeps ==
  ASSUME Inv, NEW t, Updates(t)
  PROVE  Inv'
  <1> DEFINE ins == code[t][pc[t]]
             old == mem[ins.at][M!Last(ins.at)].val
  <1>1. /\ Running(t) /\ ins.op = "update"
        /\ M!Update(t, ins.at, old + ins.add, ins.ord) /\ StepTo(t, 1, ins.to, old)
    BY DEF Updates, At
  <1>2. /\ t \in Crew /\ ins \in InstructionSet(Locations, Crew) /\ UNCHANGED program
        /\ MemOK /\ pc[t] + 1 \in 1 .. Len(code[t]) + 1
    BY <1>1, Current, NextPlace DEF Inv, StepTo
  <1> HIDE DEF ins
  <1>3. ins.at \in Locations /\ ins.to \in Registers /\ ins.add \in Int
    BY <1>1, <1>2, InstructionFields
  <1>4. old \in Int /\ old + ins.add \in Int
    BY <1>2, <1>3, LastThere
  <1> HIDE DEF old
  <1>5. MemOK' /\ UNCHANGED rel
    BY <1>1, <1>2, <1>3, <1>4, UpdateKeeps
  <1>6. \A u \in Crew : u # t => rel'[u].at = rel[u].at
    BY <1>5
  <1> QED
    BY <1>1, <1>2, <1>3, <1>4, <1>5, <1>6, StepKeeps

(* A compare-exchange that succeeds.                                       *)
LEMMA ExchangesKeeps ==
  ASSUME Inv, NEW t, Exchanges(t)
  PROVE  Inv'
  <1> DEFINE ins == code[t][pc[t]]
  <1>1. /\ Running(t) /\ ins.op = "cas"
        /\ M!Update(t, ins.at, Value(t, ins.val), ins.ord) /\ Step(t)
    BY DEF Exchanges, At
  <1>2. /\ t \in Crew /\ ins \in InstructionSet(Locations, Crew) /\ UNCHANGED program
        /\ MemOK /\ reg[t] \in [Registers -> Int]
    BY <1>1, Current DEF Inv, Step, StepTo
  <1> HIDE DEF ins
  <1>3. ins.at \in Locations /\ ins.val \in Values
    BY <1>1, <1>2, InstructionFields
  <1>4. Value(t, ins.val) \in Int
    BY <1>2, <1>3, ValueOf DEF Value
  <1>5. MemOK' /\ UNCHANGED rel
    BY <1>1, <1>2, <1>3, <1>4, UpdateKeeps
  <1> QED
    BY <1>1, <1>5, StepOnKeeps

(* A compare-exchange that fails, as the weak one also may.                *)
LEMMA FailsKeeps ==
  ASSUME Inv, NEW t, NEW i, FailsToExchange(t, i)
  PROVE  Inv'
  <1> DEFINE ins == code[t][pc[t]]
             v == mem[ins.at][i].val
             d == IF v = reg[t][ins.expected] THEN 0 ELSE ins.by
  <1>1. /\ Running(t) /\ ins.op = "cas"
        /\ M!Load(t, ins.at, i, "relaxed") /\ StepTo(t, d, ins.expected, v)
    BY DEF FailsToExchange, At
  <1>2. /\ t \in Crew /\ ins \in InstructionSet(Locations, Crew) /\ UNCHANGED program
        /\ MemOK /\ pc[t] \in 1 .. Len(code[t]) /\ Len(code[t]) \in Nat
        /\ Targets(ins, pc[t]) \subseteq 1 .. Len(code[t]) + 1
    BY <1>1, Current, CodeTyped DEF Inv, StepTo
  <1> HIDE DEF ins
  <1>3. ins.at \in Locations /\ ins.expected \in Registers /\ ins.by \in Int
    BY <1>1, <1>2, InstructionFields
  <1>4. MemOK' /\ UNCHANGED <<mem, rel>> /\ i \in 1 .. Len(mem[ins.at])
    BY <1>1, <1>2, <1>3, LoadKeeps
  <1>5. v \in Int
    BY <1>2, <1>3, <1>4, MessageThere
  <1>6. d \in Int /\ pc[t] + d \in 1 .. Len(code[t]) + 1
    <2>1. pc[t] + ins.by \in 1 .. Len(code[t]) + 1
      BY <1>1, <1>2 DEF Targets
    <2> HIDE DEF v
    <2>2. CASE v = reg[t][ins.expected]
      BY <1>2, <2>2
    <2>3. CASE v # reg[t][ins.expected]
      BY <1>3, <2>1, <2>3
    <2> QED
      BY <2>2, <2>3
  <1>7. \A u \in Crew : u # t => rel'[u].at = rel[u].at
    BY <1>4
  <1> HIDE DEF v, d
  <1> QED
    BY <1>1, <1>3, <1>4, <1>5, <1>6, <1>7, StepKeeps

(* A fence.                                                                *)
LEMMA FencedKeeps ==
  ASSUME Inv, NEW t, Fenced(t)
  PROVE  Inv'
  <1>1. Running(t) /\ M!Fence(t, code[t][pc[t]].ord) /\ Step(t)
    BY DEF Fenced, At
  <1>2. t \in Crew /\ MemOK /\ UNCHANGED program
    BY <1>1, Current DEF Inv, Step, StepTo
  <1>3. MemOK' /\ \A u \in Crew : u # t => rel'[u] = rel[u]
    BY <1>1, <1>2, FenceKeeps
  <1> QED
    BY <1>1, <1>3, StepOnKeeps

(* A read of a plain variable, wherever it is named.                       *)
LEMMA ReadsKeeps ==
  ASSUME Inv, NEW t, Running(t), NEW l \in Locations, NEW r \in Registers, Reads(t, l, r)
  PROVE  Inv'
  <1>1. PICK i \in 1 .. Len(mem[l]) : M!Read(t, l, i) /\ StepTo(t, 1, r, mem[l][i].val)
    BY DEF Reads
  <1>2. t \in Crew /\ MemOK /\ UNCHANGED program /\ pc[t] + 1 \in 1 .. Len(code[t]) + 1
    BY <1>1, Current, NextPlace DEF Inv, StepTo
  <1>3. mem[l][i].val \in Int
    BY <1>2, MessageThere
  <1>4. MemOK' /\ \A u \in Crew : rel'[u].at = rel[u].at
    <2>1. M!Read(t, l, i)
      BY <1>1
    <2> QED
      BY <1>2, <2>1, ReadKeeps
  <1> QED
    BY <1>1, <1>2, <1>3, <1>4, StepKeeps

(* Both ways to name it.                                                   *)
LEMMA ReadsVariableKeeps ==
  ASSUME Inv, NEW t, ReadsVariable(t) \/ ReadsObject(t)
  PROVE  Inv'
  <1> DEFINE ins == code[t][pc[t]]
  <1>1. Running(t) /\ ins.op \in {"read", "deref"}
    BY DEF ReadsVariable, ReadsObject, At
  <1>2. /\ ins \in InstructionSet(Locations, Crew) /\ DOMAIN mem = Locations
    BY <1>1, Current DEF Inv, MemOK, MemTyped
  <1>3. ins.to \in Registers /\ (ins.op = "read" => ins.at \in Locations)
    <2> HIDE DEF ins
    <2> QED
      BY <1>1, <1>2, InstructionFields
  <1>4. CASE ReadsVariable(t)
    <2>1. Reads(t, ins.at, ins.to) /\ ins.op = "read"
      BY <1>4 DEF ReadsVariable, At
    <2> HIDE DEF ins
    <2> QED
      BY <1>1, <1>3, <2>1, ReadsKeeps
  <1>5. CASE ReadsObject(t)
    <2> DEFINE l == Object[reg[t][ins.ptr]]
    <2>1. Reads(t, l, ins.to) /\ l \in Locations
      BY <1>2, <1>5 DEF ReadsObject, At, Valid
    <2> HIDE DEF ins, l
    <2> QED
      BY <1>1, <1>3, <2>1, ReadsKeeps
  <1> QED
    BY <1>4, <1>5

(* A write of a plain variable, also through a pointer.                    *)
LEMMA WritesKeeps ==
  ASSUME Inv, NEW t, Writes(t) \/ Assigns(t)
  PROVE  Inv'
  <1> DEFINE ins == code[t][pc[t]]
  <1>1. Running(t) /\ ins.op \in {"write", "assign"} /\ Step(t)
    BY DEF Writes, Assigns, At
  <1>2. /\ t \in Crew /\ ins \in InstructionSet(Locations, Crew) /\ DOMAIN mem = Locations
        /\ MemOK /\ UNCHANGED program /\ reg[t] \in [Registers -> Int]
    BY <1>1, Current DEF Inv, MemOK, MemTyped, Step, StepTo
  <1>3. ins.val \in Values /\ (ins.op = "write" => ins.at \in Locations)
    <2> HIDE DEF ins
    <2> QED
      BY <1>1, <1>2, InstructionFields
  <1>4. PICK l \in Locations : M!Write(t, l, Value(t, ins.val))
    <2>1. CASE Writes(t)
      BY <1>3, <2>1 DEF Writes, At
    <2>2. CASE Assigns(t)
      BY <1>2, <2>2 DEF Assigns, At, Valid
    <2> QED
      BY <2>1, <2>2
  <1> HIDE DEF ins
  <1>5. Value(t, ins.val) \in Int
    BY <1>2, <1>3, ValueOf DEF Value
  <1>6. MemOK' /\ \A u \in Crew : rel'[u].at = rel[u].at
    BY <1>2, <1>4, <1>5, WriteKeeps
  <1> QED
    BY <1>1, <1>6, StepOnKeeps

(* What a thread settles to.                                               *)
LEMMA SettlesTyped ==
  ASSUME ThreadsOK, NEW t \in Crew, pc[t] + 1 \in 1 .. Len(code[t]) + 1
  PROVE  LET s == Settled(code[t], pc[t] + 1, reg[t])
         IN s.pc \in 1 .. Len(code[t]) + 1 /\ s.reg \in [Registers -> Int] /\ Zeroed(s.reg) /\ s.bad \in BOOLEAN
  <1> DEFINE G == 1 .. Len(code[t]) + 1
             p == pc[t] + 1
             s == Settled(code[t], p, reg[t])
  <1>1. /\ code[t] \in Seq(InstructionSet(Locations, Crew))
        /\ reg[t] \in [Registers -> Int] /\ Zeroed(reg[t]) /\ p \in G
    BY CodeTyped DEF ThreadsOK
  <1>2. \A k \in G : k \in 1 .. Len(code[t]) /\ code[t][k].op \in Private => Targets(code[t][k], k) \subseteq G
    BY CodeTyped
  <1>3. G \subseteq 1 .. Len(code[t]) + 1
    OBVIOUS
  <1> HIDE DEF G, p
  <1>4. s \in Locals /\ s.pc \in G /\ Zeroed(s.reg)
    BY <1>1, <1>2, <1>3, SettledKeeps
  <1> HIDE DEF s
  <1>5. s.reg \in [Registers -> Int] /\ s.bad \in BOOLEAN
    BY <1>4 DEF Locals
  <1> QED
    BY <1>4, <1>5 DEF G, p, s

(* Starting threads: they begin with what their starter knows.             *)
LEMMA StartsKeeps ==
  ASSUME Inv, NEW t, Starts(t)
  PROVE  Inv'
  <1> DEFINE T == code[t][pc[t]].who
             s == [u \in T \cup {t} |-> Settled(code[u], pc[u] + 1, reg[u])]
  <1>1. /\ Running(t) /\ code[t][pc[t]].op = "start"
        /\ \A u \in T : pc[u] = 0
        /\ M!StartThreads(t, T)
        /\ pc' = [u \in DOMAIN pc |-> IF u \in DOMAIN s THEN s[u].pc ELSE pc[u]]
        /\ reg' = [u \in DOMAIN reg |-> IF u \in DOMAIN s THEN s[u].reg ELSE reg[u]]
        /\ wrong' = (wrong \/ \E u \in DOMAIN s : s[u].bad)
        /\ UNCHANGED <<program, code, asleep>>
    BY DEF Starts, At
  <1>2. /\ t \in Crew /\ code[t][pc[t]] \in InstructionSet(Locations, Crew) /\ asleep[t] = Awake
        /\ MemOK /\ ThreadsOK /\ DOMAIN pc = Crew /\ DOMAIN reg = Crew
    BY <1>1, Current, CodeTyped DEF Inv, ThreadsOK
  <1>3. T \subseteq Crew
    BY <1>1, <1>2, InstructionFields
  <1> HIDE DEF T
  <1>4. \A u \in T \cup {t} : /\ u \in Crew
                              /\ s[u].pc \in 1 .. Len(code[u]) + 1
                              /\ s[u].reg \in [Registers -> Int] /\ Zeroed(s[u].reg) /\ s[u].bad \in BOOLEAN
    <2> TAKE u \in T \cup {t}
    <2>1. u \in Crew /\ (u = t \/ pc[u] = 0)
      BY <1>1, <1>2, <1>3
    <2>2. pc[u] + 1 \in 1 .. Len(code[u]) + 1
      BY <1>1, <1>2, <2>1, NextPlace, CodeTyped
    <2>3. s[u] = Settled(code[u], pc[u] + 1, reg[u])
      OBVIOUS
    <2> HIDE DEF s
    <2> QED
      BY <1>2, <2>1, <2>2, <2>3, SettlesTyped
  <1>5. DOMAIN s = T \cup {t}
    OBVIOUS
  <1> HIDE DEF s
  <1>6. MemOK' /\ UNCHANGED rel
    <2>1. \A u \in T : u \in Crew /\ \A k \in Locations : rel[u].at[k] = 1
      BY <1>1, <1>3 DEF Inv, Fresh
    <2>2. M!StartThreads(t, T) /\ UNCHANGED program
      BY <1>1
    <2> QED
      BY <1>2, <2>1, <2>2, StartKeeps
  <1>7. /\ \A u \in T \cup {t} : pc'[u] = s[u].pc /\ reg'[u] = s[u].reg
        /\ \A u \in Crew : u \notin T \cup {t} => pc'[u] = pc[u] /\ reg'[u] = reg[u]
        /\ DOMAIN pc' = Crew /\ DOMAIN reg' = Crew
        /\ pc' = [u \in Crew |-> pc'[u]] /\ reg' = [u \in Crew |-> reg'[u]]
    BY <1>1, <1>2, <1>4, <1>5
  <1>8. \A u \in Crew : /\ pc'[u] \in Nat /\ pc'[u] <= Len(code[u]) + 1
                        /\ reg'[u] \in [Registers -> Int] /\ Zeroed(reg'[u])
    <2> TAKE u \in Crew
    <2>1. Len(code[u]) \in Nat
      BY <1>2, CodeTyped
    <2>2. CASE u \in T \cup {t}
      BY <1>4, <1>7, <2>1, <2>2
    <2>3. CASE u \notin T \cup {t}
      BY <1>2, <1>7, <2>3 DEF ThreadsOK
    <2> QED
      BY <2>2, <2>3
  <1>9. wrong' \in BOOLEAN
    BY <1>1
  <1>10. ThreadsOK'
    <2>1. pc' \in [Crew -> Nat] /\ reg' \in [Crew -> [Registers -> Int]]
      BY <1>7, <1>8
    <2> QED
      BY <1>1, <1>2, <1>8, <1>9, <2>1, SameSets DEF ThreadsOK, Zeroed
  <1>11. Fresh'
    <2>1. \A u \in Crew : pc'[u] = 0 => pc[u] = 0
      BY <1>4, <1>7
    <2> QED
      BY <1>1, <1>6, <2>1, SameSets DEF Inv, Fresh
  <1>12. Sleepers'
    <2> SUFFICES ASSUME NEW u \in Crew, asleep[u] # Awake
                 PROVE  pc'[u] - 1 \in 1 .. Len(code[u]) /\ code[u][pc'[u] - 1].op = "sleep"
      BY <1>1, SameSets DEF Sleepers, Awake
    <2>1. pc[u] - 1 \in 1 .. Len(code[u]) /\ code[u][pc[u] - 1].op = "sleep"
      BY DEF Inv, Sleepers
    <2>2. u \notin T \cup {t}
      BY <1>1, <1>2, <2>1
    <2> QED
      BY <1>7, <2>1, <2>2
  <1> QED
    BY <1>6, <1>10, <1>11, <1>12 DEF Inv

(* A join: it learns what the thread knew at its end.                      *)
LEMMA JoinsKeeps ==
  ASSUME Inv, NEW t, Joins(t)
  PROVE  Inv'
  <1> DEFINE u == code[t][pc[t]].who
  <1>1. Running(t) /\ code[t][pc[t]].op = "join" /\ M!JoinThread(t, u) /\ Step(t)
    BY DEF Joins, At
  <1>2. t \in Crew /\ code[t][pc[t]] \in InstructionSet(Locations, Crew) /\ MemOK /\ UNCHANGED program
    BY <1>1, Current DEF Inv, Step, StepTo
  <1>3. u \in Crew
    BY <1>1, <1>2, InstructionFields
  <1> HIDE DEF u
  <1>4. MemOK' /\ UNCHANGED <<mem, rel>>
    BY <1>1, <1>2, <1>3, JoinKeeps
  <1> QED
    BY <1>1, <1>4, StepOnKeeps

(* The memory is left alone.                                               *)
LEMMA MemorySame ==
  ASSUME MemOK, UNCHANGED <<program, memory>>
  PROVE  MemOK' /\ UNCHANGED rel
  BY SameSets DEF MemOK, MemTyped, MessagesKnow, ThreadsKnow, OrdersKept, memory

(* A choice, a jump or a register set.                                     *)
LEMMA ChoosesKeeps ==
  ASSUME Inv, NEW t, Chooses(t)
  PROVE  Inv'
  <1> DEFINE ins == code[t][pc[t]]
  <1>1. /\ Running(t) /\ ins.op = "either" /\ UNCHANGED memory
    BY DEF Chooses, At
  <1>2. PICK d \in {1, ins.by} : StepTo(t, d, "zero", 0)
    BY DEF Chooses
  <1>3. /\ ins \in InstructionSet(Locations, Crew) /\ Targets(ins, pc[t]) \subseteq 1 .. Len(code[t]) + 1
        /\ MemOK /\ UNCHANGED program
    BY <1>1, <1>2, Current DEF Inv, StepTo
  <1> HIDE DEF ins
  <1>4. d \in Int /\ pc[t] + d \in 1 .. Len(code[t]) + 1
    <2>1. ins.by \in Int
      BY <1>1, <1>3, InstructionFields
    <2>2. pc[t] + 1 \in Targets(ins, pc[t]) /\ pc[t] + ins.by \in Targets(ins, pc[t])
      BY <1>1, GoesOn DEF Targets
    <2> QED
      BY <1>2, <1>3, <2>1, <2>2
  <1>5. MemOK' /\ UNCHANGED rel
    BY <1>1, <1>3, MemorySame
  <1>6. "zero" \in Registers /\ 0 \in Int
    BY DEF Registers
  <1> QED
    BY <1>1, <1>2, <1>4, <1>5, <1>6, StepKeeps

(* Leaving the program.                                                    *)
LEMMA ExitsKeeps ==
  ASSUME Inv, NEW t, Exits(t)
  PROVE  Inv'
  <1>1. /\ pc' = [u \in Crew |-> Len(code[u]) + 1] /\ asleep' = [u \in Crew |-> Awake]
        /\ UNCHANGED <<program, code, reg, wrong, memory>>
    BY CodeTyped DEF Inv, Exits
  <1>2. \A u \in Crew : Len(code[u]) \in Nat
    BY CodeTyped DEF Inv
  <1>3. ThreadsOK'
    <2>1. /\ pc' \in [Crew -> Nat] /\ asleep' \in [Crew -> {Awake} \cup STRING]
          /\ \A u \in Crew : pc'[u] <= Len(code[u]) + 1
      BY <1>1, <1>2
    <2> QED
      BY <1>1, <2>1, SameSets DEF Inv, ThreadsOK, Awake
  <1>4. Fresh' /\ Sleepers'
    <2>1. \A u \in Crew : pc'[u] # 0 /\ asleep'[u] = Awake
      BY <1>1, <1>2
    <2> QED
      BY <1>1, <2>1, SameSets DEF Fresh, Sleepers, Awake
  <1>5. MemOK'
    BY <1>1, MemorySame DEF Inv
  <1> QED
    BY <1>3, <1>4, <1>5 DEF Inv

(* Going to sleep on a condition variable, which unlocks.                  *)
LEMMA SleepsKeeps ==
  ASSUME Inv, NEW t, Sleeps(t)
  PROVE  Inv'
  <1> DEFINE ins == code[t][pc[t]]
             v == mem[ins.at][M!Last(ins.at)].val + ins.add
  <1>1. /\ Running(t) /\ ins.op = "sleep"
        /\ M!Update(t, ins.at, v, "release")
        /\ asleep' = [asleep EXCEPT ![t] = ins.cv]
        /\ pc' = [pc EXCEPT ![t] = pc[t] + 1]
        /\ reg' = [reg EXCEPT ![t][ins.to] = 0]
        /\ UNCHANGED <<program, code, wrong>>
    BY DEF Sleeps, At
  <1>2. /\ t \in Crew /\ ins \in InstructionSet(Locations, Crew) /\ MemOK /\ ThreadsOK
        /\ pc[t] \in 1 .. Len(code[t]) /\ pc[t] + 1 \in 1 .. Len(code[t]) + 1 /\ Len(code[t]) \in Nat
    BY <1>1, Current, NextPlace, CodeTyped DEF Inv
  <1>3. ins.at \in Locations /\ ins.add \in Int /\ ins.cv \in STRING /\ ins.to \in Registers
    <2> HIDE DEF ins
    <2> QED
      BY <1>1, <1>2, InstructionFields
  <1>4. v \in Int
    BY <1>2, <1>3, LastThere
  <1>5. MemOK' /\ UNCHANGED rel
    <2> HIDE DEF ins, v
    <2> QED
      BY <1>1, <1>2, <1>3, <1>4, UpdateKeeps
  <1>6. /\ pc'[t] = pc[t] + 1 /\ \A u \in Crew : u # t => pc'[u] = pc[u] /\ asleep'[u] = asleep[u]
        /\ pc' \in [Crew -> Nat] /\ asleep' \in [Crew -> {Awake} \cup STRING]
    <2> HIDE DEF ins
    <2> QED
      BY <1>1, <1>2, <1>3 DEF ThreadsOK
  <1>7. reg' \in [Crew -> [Registers -> Int]] /\ \A u \in Crew : Zeroed(reg'[u])
    <2> HIDE DEF ins
    <2> QED
      BY <1>1, <1>2, <1>3 DEF ThreadsOK, Zeroed, Registers
  <1>8. ThreadsOK'
    <2>1. \A u \in Crew : pc'[u] <= Len(code[u]) + 1
      <3> SUFFICES ASSUME NEW u \in Crew PROVE pc'[u] <= Len(code[u]) + 1
        OBVIOUS
      <3>1. CASE u = t
        BY <1>2, <1>6, <3>1
      <3>2. CASE u # t
        BY <1>2, <1>6, <3>2 DEF ThreadsOK
      <3> QED
        BY <3>1, <3>2
    <2> QED
      BY <1>1, <1>2, <1>6, <1>7, <2>1, SameSets DEF ThreadsOK, Zeroed, Awake
  <1>9. Fresh'
    <2>1. \A u \in Crew : pc'[u] = 0 => pc[u] = 0
      BY <1>2, <1>6
    <2> QED
      BY <1>1, <1>5, <2>1, SameSets DEF Inv, Fresh
  <1>10. Sleepers'
    <2> SUFFICES ASSUME NEW u \in Crew, asleep'[u] # Awake
                 PROVE  pc'[u] - 1 \in 1 .. Len(code[u]) /\ code[u][pc'[u] - 1].op = "sleep"
      BY <1>1, SameSets DEF Sleepers, Awake
    <2>1. CASE u = t
      <3>1. pc'[u] - 1 = pc[t]
        BY <1>2, <1>6, <2>1
      <3> QED
        BY <1>1, <1>2, <2>1, <3>1
    <2>2. CASE u # t
      BY <1>6, <2>2 DEF Inv, Sleepers
    <2> QED
      BY <2>1, <2>2
  <1> QED
    BY <1>5, <1>8, <1>9, <1>10 DEF Inv

(* A notification.                                                         *)
LEMMA NotifiesKeeps ==
  ASSUME Inv, NEW t, Notifies(t)
  PROVE  Inv'
  <1> DEFINE s == Settled(code[t], pc[t] + 1, reg[t])
  <1>1. /\ Running(t)
        /\ pc' = [pc EXCEPT ![t] = s.pc] /\ reg' = [reg EXCEPT ![t] = s.reg] /\ wrong' = (wrong \/ s.bad)
        /\ UNCHANGED <<program, code, memory>>
    BY DEF Notifies, At
  <1>2. \E W : asleep' = [u \in DOMAIN asleep |-> IF u \in W THEN Awake ELSE asleep[u]]
    BY DEF Notifies
  <1>3. t \in Crew /\ ThreadsOK /\ pc[t] + 1 \in 1 .. Len(code[t]) + 1 /\ asleep[t] = Awake /\ Len(code[t]) \in Nat
    BY <1>1, Current, NextPlace, CodeTyped DEF Inv
  <1>4. s.pc \in 1 .. Len(code[t]) + 1 /\ s.reg \in [Registers -> Int] /\ Zeroed(s.reg) /\ s.bad \in BOOLEAN
    BY <1>3, SettlesTyped
  <1> HIDE DEF s
  <1>5. /\ asleep' \in [Crew -> {Awake} \cup STRING]
        /\ \A u \in Crew : asleep'[u] # Awake => asleep[u] # Awake
    BY <1>2, <1>3 DEF ThreadsOK
  <1>6. /\ pc' \in [Crew -> Nat] /\ reg' \in [Crew -> [Registers -> Int]]
        /\ pc'[t] = s.pc /\ reg'[t] = s.reg
        /\ \A u \in Crew : u # t => pc'[u] = pc[u] /\ reg'[u] = reg[u]
    BY <1>1, <1>3, <1>4 DEF ThreadsOK
  <1>7. ThreadsOK'
    <2>1. \A u \in Crew : pc'[u] <= Len(code[u]) + 1 /\ Zeroed(reg'[u])
      <3> SUFFICES ASSUME NEW u \in Crew PROVE pc'[u] <= Len(code[u]) + 1 /\ Zeroed(reg'[u])
        OBVIOUS
      <3>1. CASE u = t
        BY <1>3, <1>4, <1>6, <3>1
      <3>2. CASE u # t
        BY <1>3, <1>6, <3>2 DEF ThreadsOK
      <3> QED
        BY <3>1, <3>2
    <2>2. wrong' \in BOOLEAN
      BY <1>1
    <2> QED
      BY <1>1, <1>3, <1>5, <1>6, <2>1, <2>2, SameSets DEF ThreadsOK, Zeroed, Awake
  <1>8. MemOK' /\ UNCHANGED rel
    BY <1>1, MemorySame DEF Inv
  <1>9. Fresh'
    <2>1. \A u \in Crew : pc'[u] = 0 => pc[u] = 0
      BY <1>4, <1>6
    <2> QED
      BY <1>1, <1>8, <2>1, SameSets DEF Inv, Fresh
  <1>10. Sleepers'
    <2> SUFFICES ASSUME NEW u \in Crew, asleep'[u] # Awake
                 PROVE  pc'[u] - 1 \in 1 .. Len(code[u]) /\ code[u][pc'[u] - 1].op = "sleep"
      BY <1>1, SameSets DEF Sleepers, Awake
    <2>1. asleep[u] # Awake /\ u # t
      BY <1>3, <1>5
    <2> QED
      BY <1>6, <2>1 DEF Inv, Sleepers
  <1> QED
    BY <1>7, <1>8, <1>9, <1>10 DEF Inv

(* A sleeper that wakes up, by its deadline or for no reason.              *)
LEMMA WakesUpKeeps ==
  ASSUME Inv, NEW t, WakesUp(t) \/ TimesOut(t)
  PROVE  Inv'
  <1> DEFINE r == code[t][pc[t] - 1].to
  <1>1. /\ t \in Crew /\ asleep[t] # Awake
        /\ asleep' = [asleep EXCEPT ![t] = Awake]
        /\ UNCHANGED <<program, code, pc, wrong, memory>>
        /\ reg' = reg \/ (r # "zero" /\ reg' = [reg EXCEPT ![t][r] = 1])
    BY DEF WakesUp, TimesOut, Inv, ThreadsOK
  <1>2. r \in Registers
    <2>1. pc[t] - 1 \in 1 .. Len(code[t]) /\ code[t][pc[t] - 1].op = "sleep"
      BY <1>1 DEF Inv, Sleepers
    <2>2. code[t] \in Seq(InstructionSet(Locations, Crew))
      BY <1>1, CodeTyped DEF Inv
    <2>3. code[t][pc[t] - 1] \in InstructionSet(Locations, Crew)
      BY <2>1, <2>2, ElementOfSeq
    <2> QED
      BY <2>1, <2>3, InstructionFields
  <1> HIDE DEF r
  <1>3. reg' \in [Crew -> [Registers -> Int]] /\ \A u \in Crew : Zeroed(reg'[u])
    <2>1. CASE reg' = reg
      BY <2>1 DEF Inv, ThreadsOK
    <2>2. CASE r # "zero" /\ reg' = [reg EXCEPT ![t][r] = 1]
      BY <1>1, <1>2, <2>2 DEF Inv, ThreadsOK, Zeroed, Registers
    <2> QED
      BY <1>1, <2>1, <2>2
  <1>4. /\ asleep' \in [Crew -> {Awake} \cup STRING]
        /\ \A u \in Crew : asleep'[u] # Awake => asleep[u] # Awake
    BY <1>1 DEF Inv, ThreadsOK
  <1>5. ThreadsOK'
    BY <1>1, <1>3, <1>4, SameSets DEF Inv, ThreadsOK, Zeroed, Awake
  <1>6. MemOK' /\ UNCHANGED rel
    BY <1>1, MemorySame DEF Inv
  <1>7. Fresh' /\ Sleepers'
    BY <1>1, <1>4, <1>6, SameSets DEF Inv, Fresh, Sleepers, Awake
  <1> QED
    BY <1>5, <1>6, <1>7 DEF Inv

(* Nothing happens.                                                        *)
LEMMA StutterKeeps ==
  ASSUME Inv, UNCHANGED vars
  PROVE  Inv'
  <1>1. UNCHANGED <<program, code, pc, reg, wrong, asleep, memory>>
    BY DEF vars
  <1>2. MemOK' /\ UNCHANGED rel
    BY <1>1, MemorySame DEF Inv
  <1> QED
    BY <1>1, <1>2, SameSets DEF Inv, ThreadsOK, Fresh, Sleepers, Awake, Zeroed

(* Every step keeps the invariant.                                         *)
LEMMA NextKeeps ==
  ASSUME Inv, [Next]_vars
  PROVE  Inv'
  <1>1. CASE UNCHANGED vars
    BY <1>1, StutterKeeps
  <1>2. CASE Terminating
    BY <1>2, StutterKeeps DEF Terminating
  <1>3. CASE \E t \in Threads : WakesUp(t)
    BY <1>3, WakesUpKeeps
  <1>4. CASE \E t \in Threads : \E i \in Positions : FailsToExchange(t, i)
    BY <1>4, FailsKeeps
  <1>5. CASE \E t \in Threads : Prompt(t)
    <2>1. PICK t \in Threads : Prompt(t)
      BY <1>5
    <2>2. CASE \E i \in Positions : Loads(t, i)
      BY <2>2, LoadsKeeps
    <2>3. CASE Stores(t) \/ Publishes(t) \/ Updates(t) \/ Exchanges(t) \/ Fenced(t)
      BY <2>3, StoresKeeps, PublishesKeeps, UpdatesKeeps, ExchangesKeeps, FencedKeeps
    <2>4. CASE ReadsVariable(t) \/ ReadsObject(t) \/ Writes(t) \/ Assigns(t)
      BY <2>4, ReadsVariableKeeps, WritesKeeps
    <2>5. CASE Starts(t) \/ Joins(t) \/ Chooses(t) \/ Exits(t)
      BY <2>5, StartsKeeps, JoinsKeeps, ChoosesKeeps, ExitsKeeps
    <2>6. CASE Sleeps(t) \/ Notifies(t) \/ TimesOut(t)
      BY <2>6, SleepsKeeps, NotifiesKeeps, WakesUpKeeps
    <2> QED
      BY <2>1, <2>2, <2>3, <2>4, <2>5, <2>6 DEF Prompt
  <1> QED
    BY <1>1, <1>2, <1>3, <1>4, <1>5 DEF Next

(* The invariant, in every state of every run.                             *)
LEMMA Invariance == FairSpec => []Inv
  <1>1. Inv /\ [Next]_vars => Inv'
    BY NextKeeps
  <1> QED
    BY <1>1, InitKeeps, PTL DEF FairSpec

(* Whatever the programs, as long as they are well formed: a view speaks   *)
(* only of writes there are, every message knows of itself, the three      *)
(* views of a thread keep their order through loads, stores,               *)
(* read-modify-writes, fences, starts and joins, a lock has one value.     *)
THEOREM TypeCorrect == FairSpec => []TypeOK
  <1>1. Inv => TypeOK
    <2> SUFFICES ASSUME Inv PROVE TypeOK
      OBVIOUS
    <2>1. program \in Programs /\ code = Library[program].code
      BY DEF Inv, ThreadsOK
    <2>2. Typed
      BY DEF Inv, ThreadsOK, MemOK, MemTyped, Typed
    <2>3. \A t \in DOMAIN pc : pc[t] <= Len(code[t]) + 1 /\ reg[t]["zero"] = 0
      BY DEF Inv, ThreadsOK, Zeroed
    <2>4. /\ DOMAIN mem = Locations /\ DOMAIN pc = Crew
          /\ \A l \in Locations : DOMAIN mem[l] = 1 .. Len(mem[l])
      BY DEF Inv, ThreadsOK, MemOK, MemTyped
    <2>5. \A l \in DOMAIN mem : \A i \in DOMAIN mem[l] :
            mem[l][i].view.at[l] = i /\ \A k \in DOMAIN mem : mem[l][i].view.at[k] \in DOMAIN mem[k]
      BY <2>4 DEF Inv, MemOK, MessagesKnow
    <2>6. \A t \in DOMAIN pc, l \in DOMAIN mem :
            rel[t].at[l] <= cur[t].at[l] /\ cur[t].at[l] <= acq[t].at[l] /\ acq[t].at[l] <= Len(mem[l])
      BY <2>4 DEF Inv, MemOK, ThreadsKnow
    <2>7. \A l \in DOMAIN mem : sc[l] \in DOMAIN mem[l]
      BY <2>4 DEF Inv, MemOK, OrdersKept
    <2> QED
      BY <2>1, <2>2, <2>3, <2>5, <2>6, <2>7 DEF TypeOK
  <1> QED
    BY <1>1, Invariance, PTL
-----------------------------------------------------------------------------
(* What the proofs use of a claim.                                         *)
Sound(c, crew) ==
  /\ "main" \in crew /\ "main" \notin DOMAIN c.mine /\ DOMAIN c.mine \subseteq crew
  /\ \A l \in Monitors(c) : c.guards[l] \subseteq c.plain /\ c.weight[l] \in Int /\ c.weight[l] # 0
  /\ Apart(c)

(* Whoever learns something still knows what it must.                      *)
LEMMA MoreIsKnown ==
  ASSUME NEW c, NEW holds, NEW work, NEW known, NEW told, OwnersKnow(c, holds, work, known, told),
         NEW known2, known \subseteq known2, NEW told2, told \subseteq told2
  PROVE  OwnersKnow(c, holds, work, known2, told2)
  <1>1. \A u \in work : \A d \in c.mine[u] : <<u, d>> \in known2
    BY DEF OwnersKnow
  <1>2. \A t \in DOMAIN holds : \A l \in holds[t] : \A d \in c.guards[l] : <<t, d>> \in known2
    BY DEF OwnersKnow
  <1>3. \A l \in Monitors(c) : (\A t \in DOMAIN holds : l \notin holds[t]) =>
          \A d \in c.guards[l] : /\ <<l, d>> \in told2 \/ \A w \in Sharers(c, l, work) : <<w, d>> \in known2
                                 /\ \E w \in Sharers(c, l, work) : <<w, d>> \in known2
    BY DEF OwnersKnow
  <1>4. \A d \in c.plain \ Protected(c) : (\A u \in work : d \notin c.mine[u]) => <<"main", d>> \in known2
    BY DEF OwnersKnow
  <1> QED
    BY <1>1, <1>2, <1>3, <1>4 DEF OwnersKnow

(* t takes l: it learns what the last message of l tells.                  *)
Taking(c, crew, holds, work, vals, known, told, t, l, known2, told2) ==
  /\ Sound(c, crew) /\ DOMAIN holds = crew /\ DOMAIN vals = Monitors(c)
  /\ LocksRight(c, holds, work, vals) /\ OwnersKnow(c, holds, work, known, told)
  /\ t \in crew /\ l \in Monitors(c) /\ t \in Sharers(c, l, work) /\ vals[l] = 0
  /\ known \subseteq known2 /\ \A d \in c.plain : <<l, d>> \in told => <<t, d>> \in known2
  /\ \A m \in Monitors(c) : \A d \in c.plain : m # l /\ <<m, d>> \in told => <<m, d>> \in told2

(* Taking a free mutex.                                                    *)
LEMMA TakingKeeps ==
  ASSUME NEW c, NEW crew, NEW holds, NEW work, NEW vals, NEW known, NEW told, NEW t, NEW l, NEW known2, NEW told2,
         Taking(c, crew, holds, work, vals, known, told, t, l, known2, told2)
  PROVE  /\ LocksRight(c, [holds EXCEPT ![t] = holds[t] \cup {l}], work, [vals EXCEPT ![l] = c.weight[l]])
         /\ OwnersKnow(c, [holds EXCEPT ![t] = holds[t] \cup {l}], work, known2, told2)
  <1> DEFINE holds2 == [holds EXCEPT ![t] = holds[t] \cup {l}]
             vals2  == [vals EXCEPT ![l] = c.weight[l]]
  <1>0. /\ Sound(c, crew) /\ DOMAIN holds = crew /\ DOMAIN vals = Monitors(c)
        /\ LocksRight(c, holds, work, vals) /\ OwnersKnow(c, holds, work, known, told)
        /\ t \in crew /\ l \in Monitors(c) /\ t \in Sharers(c, l, work) /\ vals[l] = 0
        /\ known \subseteq known2 /\ \A d \in c.plain : <<l, d>> \in told => <<t, d>> \in known2
        /\ \A m \in Monitors(c) : \A d \in c.plain : m # l /\ <<m, d>> \in told => <<m, d>> \in told2
    BY DEF Taking
  <1> USE <1>0
  <1>1. \A u \in crew : l \notin holds[u]
    BY DEF LocksRight, Sound
  <1>2. /\ DOMAIN holds2 = crew /\ holds2[t] = holds[t] \cup {l}
        /\ \A u \in crew : u # t => holds2[u] = holds[u]
    OBVIOUS
  <1>3. vals2[l] = c.weight[l] /\ \A m \in Monitors(c) : m # l => vals2[m] = vals[m]
    OBVIOUS
  <1> HIDE DEF holds2, vals2
  <1>4. LocksRight(c, holds2, work, vals2)
    <2>1. work \subseteq DOMAIN c.mine
      BY DEF LocksRight
    <2>2. \A u \in crew : \A m \in holds2[u] : m \in Monitors(c) /\ u \in Sharers(c, m, work)
      BY <1>2 DEF LocksRight
    <2>3. \A m \in Monitors(c) : vals2[m] \in {0, c.weight[m]}
      BY <1>3 DEF LocksRight
    <2>4. ASSUME NEW u \in crew, NEW m \in holds2[u]
          PROVE  vals2[m] = c.weight[m] /\ \A x \in crew : m \in holds2[x] => x = u
      <3>1. CASE m = l
        BY <1>1, <1>2, <1>3, <2>4, <3>1
      <3>2. CASE m # l
        <4>1. m \in holds[u] /\ \A x \in crew : m \in holds2[x] => m \in holds[x]
          BY <1>2, <2>4, <3>2
        <4> QED
          BY <1>3, <2>2, <3>2, <4>1 DEF LocksRight
      <3> QED
        BY <3>1, <3>2
    <2> QED
      BY <1>2, <2>1, <2>2, <2>3, <2>4 DEF LocksRight
  <1>5. \A u \in work : \A d \in c.mine[u] : <<u, d>> \in known2
    BY DEF OwnersKnow
  <1>6. ASSUME NEW d \in c.guards[l] PROVE <<t, d>> \in known2
    <2>1. <<l, d>> \in told \/ \A w \in Sharers(c, l, work) : <<w, d>> \in known
      BY <1>1 DEF OwnersKnow
    <2> QED
      BY <2>1 DEF Sound
  <1>7. \A u \in crew : \A m \in holds2[u] : \A d \in c.guards[m] : <<u, d>> \in known2
    BY <1>2, <1>6 DEF OwnersKnow
  <1>8. ASSUME NEW m \in Monitors(c), \A u \in crew : m \notin holds2[u], NEW d \in c.guards[m]
        PROVE  /\ <<m, d>> \in told2 \/ \A w \in Sharers(c, m, work) : <<w, d>> \in known2
               /\ \E w \in Sharers(c, m, work) : <<w, d>> \in known2
    <2>1. m # l /\ \A u \in crew : m \notin holds[u]
      BY <1>2, <1>8
    <2>2. /\ <<m, d>> \in told \/ \A w \in Sharers(c, m, work) : <<w, d>> \in known
          /\ \E w \in Sharers(c, m, work) : <<w, d>> \in known
      BY <2>1 DEF OwnersKnow
    <2> QED
      BY <2>1, <2>2 DEF Sound
  <1>9. \A d \in c.plain \ Protected(c) : (\A u \in work : d \notin c.mine[u]) => <<"main", d>> \in known2
    BY DEF OwnersKnow
  <1>10. OwnersKnow(c, holds2, work, known2, told2)
    BY <1>2, <1>5, <1>7, <1>8, <1>9 DEF OwnersKnow
  <1> QED
    BY <1>4, <1>10 DEF holds2, vals2

(* t gives l back: its last message tells what t knows.                    *)
Giving(c, crew, holds, work, vals, known, told, t, l, known2, told2) ==
  /\ Sound(c, crew) /\ DOMAIN holds = crew /\ DOMAIN vals = Monitors(c)
  /\ LocksRight(c, holds, work, vals) /\ OwnersKnow(c, holds, work, known, told)
  /\ t \in crew /\ l \in holds[t]
  /\ known \subseteq known2 /\ \A d \in c.plain : <<t, d>> \in known => <<l, d>> \in told2
  /\ \A m \in Monitors(c) : \A d \in c.plain : m # l /\ <<m, d>> \in told => <<m, d>> \in told2

(* Giving a mutex back: its message tells what the holder knows.           *)
LEMMA GivingKeeps ==
  ASSUME NEW c, NEW crew, NEW holds, NEW work, NEW vals, NEW known, NEW told, NEW t, NEW l, NEW known2, NEW told2,
         Giving(c, crew, holds, work, vals, known, told, t, l, known2, told2)
  PROVE  /\ LocksRight(c, [holds EXCEPT ![t] = holds[t] \ {l}], work, [vals EXCEPT ![l] = 0])
         /\ OwnersKnow(c, [holds EXCEPT ![t] = holds[t] \ {l}], work, known2, told2)
  <1> DEFINE holds2 == [holds EXCEPT ![t] = holds[t] \ {l}]
             vals2  == [vals EXCEPT ![l] = 0]
  <1>0. /\ Sound(c, crew) /\ DOMAIN holds = crew /\ DOMAIN vals = Monitors(c)
        /\ LocksRight(c, holds, work, vals) /\ OwnersKnow(c, holds, work, known, told)
        /\ t \in crew /\ l \in holds[t]
        /\ known \subseteq known2 /\ \A d \in c.plain : <<t, d>> \in known => <<l, d>> \in told2
        /\ \A m \in Monitors(c) : \A d \in c.plain : m # l /\ <<m, d>> \in told => <<m, d>> \in told2
    BY DEF Giving
  <1> USE <1>0
  <1>1. l \in Monitors(c) /\ t \in Sharers(c, l, work) /\ \A u \in crew : l \in holds[u] => u = t
    BY DEF LocksRight
  <1>2. /\ DOMAIN holds2 = crew /\ holds2[t] = holds[t] \ {l}
        /\ \A u \in crew : u # t => holds2[u] = holds[u]
    OBVIOUS
  <1>3. vals2[l] = 0 /\ \A m \in Monitors(c) : m # l => vals2[m] = vals[m]
    BY <1>1
  <1> HIDE DEF holds2, vals2
  <1>4. \A u \in crew : l \notin holds2[u] /\ \A m \in holds2[u] : m \in holds[u]
    BY <1>1, <1>2
  <1>5. LocksRight(c, holds2, work, vals2)
    <2>1. work \subseteq DOMAIN c.mine
      BY DEF LocksRight
    <2>2. \A u \in crew : \A m \in holds2[u] : m \in Monitors(c) /\ u \in Sharers(c, m, work)
      BY <1>4 DEF LocksRight
    <2>3. \A m \in Monitors(c) : vals2[m] \in {0, c.weight[m]}
      BY <1>3 DEF LocksRight
    <2>4. ASSUME NEW u \in crew, NEW m \in holds2[u]
          PROVE  vals2[m] = c.weight[m] /\ \A x \in crew : m \in holds2[x] => x = u
      <3>1. m # l /\ m \in holds[u] /\ \A x \in crew : m \in holds2[x] => m \in holds[x]
        BY <1>4, <2>4
      <3> QED
        BY <1>3, <2>2, <3>1 DEF LocksRight
    <2> QED
      BY <1>2, <2>1, <2>2, <2>3, <2>4 DEF LocksRight
  <1>6. \A u \in work : \A d \in c.mine[u] : <<u, d>> \in known2
    BY DEF OwnersKnow
  <1>7. \A u \in crew : \A m \in holds2[u] : \A d \in c.guards[m] : <<u, d>> \in known2
    BY <1>4 DEF OwnersKnow
  <1>8. ASSUME NEW m \in Monitors(c), \A u \in crew : m \notin holds2[u], NEW d \in c.guards[m]
        PROVE  /\ <<m, d>> \in told2 \/ \A w \in Sharers(c, m, work) : <<w, d>> \in known2
               /\ \E w \in Sharers(c, m, work) : <<w, d>> \in known2
    <2>1. CASE m = l
      <3>1. <<t, d>> \in known /\ d \in c.plain
        BY <2>1 DEF OwnersKnow, Sound
      <3> QED
        BY <1>1, <2>1, <3>1
    <2>2. CASE m # l
      <3>1. \A u \in crew : m \notin holds[u]
        BY <1>2, <1>8, <2>2
      <3>2. /\ <<m, d>> \in told \/ \A w \in Sharers(c, m, work) : <<w, d>> \in known
            /\ \E w \in Sharers(c, m, work) : <<w, d>> \in known
        BY <3>1 DEF OwnersKnow
      <3> QED
        BY <2>2, <3>2 DEF Sound
    <2> QED
      BY <2>1, <2>2
  <1>9. \A d \in c.plain \ Protected(c) : (\A u \in work : d \notin c.mine[u]) => <<"main", d>> \in known2
    BY DEF OwnersKnow
  <1>10. OwnersKnow(c, holds2, work, known2, told2)
    BY <1>2, <1>6, <1>7, <1>8, <1>9 DEF OwnersKnow
  <1> QED
    BY <1>5, <1>10 DEF holds2, vals2
-----------------------------------------------------------------------------
(* t owns d, given what it holds and who is at work.                       *)
Owner(c, holds, work, t, d) ==
  IF t = "main" THEN /\ \A u \in work : d \notin c.mine[u]
                     /\ \A l \in Monitors(c) : d \in c.guards[l] => l \in holds[t] \/ Holders(c, l) \cap work = {}
  ELSE (t \in work /\ d \in c.mine[t]) \/ \E l \in holds[t] : d \in c.guards[l]

(* An owner knows.                                                         *)
LEMMA OwnerKnows ==
  ASSUME NEW c, NEW crew, Sound(c, crew), NEW holds, DOMAIN holds = crew, NEW work, NEW vals,
         NEW known, NEW told,
         LocksRight(c, holds, work, vals), OwnersKnow(c, holds, work, known, told),
         NEW t \in crew, NEW d \in c.plain, Owner(c, holds, work, t, d)
  PROVE  <<t, d>> \in known
  <1>1. CASE t # "main"
    BY <1>1 DEF Owner, OwnersKnow
  <1>2. CASE t = "main" /\ d \notin Protected(c)
    BY <1>2 DEF Owner, OwnersKnow
  <1>3. CASE t = "main" /\ d \in Protected(c)
    <2>1. PICK l \in Monitors(c) : d \in c.guards[l]
      BY <1>3 DEF Protected
    <2>2. CASE l \in holds[t]
      BY <2>1, <2>2 DEF OwnersKnow
    <2>3. CASE l \notin holds[t]
      <3>1. Holders(c, l) \cap work = {}
        BY <1>3, <2>1, <2>3 DEF Owner
      <3>2. Sharers(c, l, work) = {"main"}
        BY <3>1 DEF Sharers
      <3>3. \A u \in crew : l \notin holds[u]
        BY <1>3, <2>3, <3>2 DEF LocksRight
      <3> QED
        BY <1>3, <2>1, <3>2, <3>3 DEF OwnersKnow
    <2> QED
      BY <2>2, <2>3
  <1> QED
    BY <1>1, <1>2, <1>3

(* t reads or writes d, its own: nobody else has to know.                  *)
LEMMA AccessKeeps ==
  ASSUME NEW c, NEW crew, Sound(c, crew), NEW holds, DOMAIN holds = crew, NEW work, NEW vals,
         NEW known, NEW told,
         LocksRight(c, holds, work, vals), OwnersKnow(c, holds, work, known, told),
         NEW t \in crew, NEW d \in c.plain, Owner(c, holds, work, t, d),
         NEW known2, <<t, d>> \in known2,
         \A u \in crew, e \in c.plain : e # d /\ <<u, e>> \in known => <<u, e>> \in known2,
         NEW told2,
         \A l \in Monitors(c), e \in c.plain : e # d /\ <<l, e>> \in told => <<l, e>> \in told2
  PROVE  OwnersKnow(c, holds, work, known2, told2)
  <1>0. work \subseteq crew
    BY DEF LocksRight, Sound
  <1>1. ASSUME NEW u \in work, NEW e \in c.mine[u] PROVE <<u, e>> \in known2
    <2>1. e \in c.plain \ Protected(c) /\ <<u, e>> \in known /\ u \in DOMAIN c.mine
      BY DEF OwnersKnow, LocksRight, Sound, Apart
    <2>2. CASE e = d
      <3>1. \A l \in Monitors(c) : d \notin c.guards[l]
        BY <2>1, <2>2 DEF Protected
      <3>2. \A l \in holds[t] : l \in Monitors(c)
        BY DEF LocksRight
      <3>3. t \in work /\ d \in c.mine[t]
        BY <2>2, <3>1, <3>2 DEF Owner
      <3>4. t = u
        BY <2>1, <2>2, <3>3 DEF LocksRight, Sound, Apart
      <3> QED
        BY <2>2, <3>4
    <2>3. CASE e # d
      BY <1>0, <2>1, <2>3
    <2> QED
      BY <2>2, <2>3
  <1>2. ASSUME NEW u \in crew, NEW l \in holds[u], NEW e \in c.guards[l] PROVE <<u, e>> \in known2
    <2>1. l \in Monitors(c) /\ e \in c.plain /\ <<u, e>> \in known /\ e \in Protected(c)
          /\ u \in Sharers(c, l, work)
      BY DEF OwnersKnow, LocksRight, Sound, Protected
    <2>2. CASE e = d
      <3>1. CASE t # "main"
        <4>1. d \notin c.mine[t] \/ t \notin work
          BY <2>1, <2>2 DEF LocksRight, Sound, Apart
        <4>2. PICK m \in holds[t] : d \in c.guards[m]
          BY <3>1, <4>1 DEF Owner
        <4>3. m \in Monitors(c)
          BY DEF LocksRight
        <4>4. m = l
          BY <2>1, <2>2, <4>2, <4>3 DEF Sound, Apart
        <4>5. u = t
          BY <4>4 DEF LocksRight
        <4> QED
          BY <2>2, <4>5
      <3>2. CASE t = "main"
        <4>1. l \in holds[t] \/ Holders(c, l) \cap work = {}
          BY <2>1, <2>2, <3>2 DEF Owner
        <4>2. u = t
          <5>1. CASE l \in holds[t]
            BY <5>1 DEF LocksRight
          <5>2. CASE Holders(c, l) \cap work = {}
            BY <2>1, <3>2, <5>2 DEF Sharers
          <5> QED
            BY <4>1, <5>1, <5>2
        <4> QED
          BY <2>2, <4>2
      <3> QED
        BY <3>1, <3>2
    <2>3. CASE e # d
      BY <2>1, <2>3
    <2> QED
      BY <2>2, <2>3
  <1>3. ASSUME NEW l \in Monitors(c), \A u \in crew : l \notin holds[u], NEW e \in c.guards[l]
        PROVE  /\ <<l, e>> \in told2 \/ \A w \in Sharers(c, l, work) : <<w, e>> \in known2
               /\ \E w \in Sharers(c, l, work) : <<w, e>> \in known2
    <2>1. e \in c.plain /\ e \in Protected(c) /\ Sharers(c, l, work) \subseteq crew
      BY <1>0 DEF Sound, Protected, Sharers
    <2>2. CASE e = d
      <3>1. t = "main"
        <4>1. SUFFICES ASSUME t # "main" PROVE FALSE
          OBVIOUS
        <4>2. d \notin c.mine[t] \/ t \notin work
          BY <2>1, <2>2 DEF LocksRight, Sound, Apart
        <4>3. PICK m \in holds[t] : d \in c.guards[m]
          BY <4>1, <4>2 DEF Owner
        <4>4. m \in Monitors(c)
          BY DEF LocksRight
        <4>5. m = l
          BY <2>2, <4>3, <4>4 DEF Sound, Apart
        <4> QED
          BY <1>3, <4>5
      <3>2. Holders(c, l) \cap work = {}
        BY <1>3, <2>2, <3>1 DEF Owner
      <3>3. Sharers(c, l, work) = {t}
        BY <3>1, <3>2 DEF Sharers
      <3> QED
        BY <2>2, <3>3
    <2>3. CASE e # d
      <3>1. /\ <<l, e>> \in told \/ \A w \in Sharers(c, l, work) : <<w, e>> \in known
            /\ \E w \in Sharers(c, l, work) : <<w, e>> \in known
        BY <1>3 DEF OwnersKnow
      <3> QED
        BY <2>1, <2>3, <3>1
    <2> QED
      BY <2>2, <2>3
  <1>4. ASSUME NEW e \in c.plain \ Protected(c), \A u \in work : e \notin c.mine[u] PROVE <<"main", e>> \in known2
    <2>1. <<"main", e>> \in known /\ "main" \in crew
      BY <1>4 DEF OwnersKnow, Sound
    <2>2. CASE e = d
      <3>1. \A l \in holds[t] : d \notin c.guards[l]
        BY <1>4, <2>2 DEF LocksRight, Protected
      <3>2. t = "main"
        BY <1>4, <2>2, <3>1 DEF Owner
      <3> QED
        BY <2>2, <3>2
    <2>3. CASE e # d
      BY <2>1, <2>3
    <2> QED
      BY <2>2, <2>3
  <1> QED
    BY <1>1, <1>2, <1>3, <1>4 DEF OwnersKnow

(* main, which holds nothing, starts the threads of who.                   *)
LEMMA StartingKeeps ==
  ASSUME NEW c, NEW crew, Sound(c, crew), NEW holds, DOMAIN holds = crew, NEW work, NEW vals,
         NEW known, NEW told,
         LocksRight(c, holds, work, vals), OwnersKnow(c, holds, work, known, told),
         holds["main"] = {}, NEW who, who \subseteq DOMAIN c.mine, who \cap work = {},
         NEW known2, \A u \in crew \ who, d \in c.plain : <<u, d>> \in known => <<u, d>> \in known2,
         \A u \in who, d \in c.plain : <<"main", d>> \in known => <<u, d>> \in known2,
         NEW told2, told \subseteq told2
  PROVE  LocksRight(c, holds, work \cup who, vals) /\ OwnersKnow(c, holds, work \cup who, known2, told2)
  <1>0. work \subseteq DOMAIN c.mine /\ "main" \notin who /\ DOMAIN c.mine \subseteq crew /\ "main" \in crew
    BY DEF LocksRight, Sound
  <1>1. \A u \in who : holds[u] = {}
    BY <1>0 DEF LocksRight, Sharers
  <1>2. LocksRight(c, holds, work \cup who, vals)
    <2>1. \A t \in crew : \A l \in holds[t] : l \in Monitors(c) /\ t \in Sharers(c, l, work \cup who)
      BY DEF LocksRight, Sharers
    <2> QED
      BY <1>0, <2>1 DEF LocksRight
  <1>3. ASSUME NEW u \in work \cup who, NEW d \in c.mine[u] PROVE <<u, d>> \in known2
    <2>1. d \in c.plain \ Protected(c)
      BY <1>0 DEF Sound, Apart
    <2>2. CASE u \in work
      BY <1>0, <2>1, <2>2 DEF OwnersKnow
    <2>3. CASE u \in who
      <3>1. \A x \in work : d \notin c.mine[x]
        BY <1>0, <2>3 DEF Sound, Apart
      <3> QED
        BY <2>1, <2>3, <3>1 DEF OwnersKnow
    <2> QED
      BY <2>2, <2>3
  <1>4. \A t \in crew : \A l \in holds[t] : \A d \in c.guards[l] : <<t, d>> \in known2
    BY <1>1 DEF OwnersKnow, LocksRight, Sound
  <1>5. ASSUME NEW l \in Monitors(c), \A u \in crew : l \notin holds[u], NEW d \in c.guards[l]
        PROVE  /\ <<l, d>> \in told2 \/ \A w \in Sharers(c, l, work \cup who) : <<w, d>> \in known2
               /\ \E w \in Sharers(c, l, work \cup who) : <<w, d>> \in known2
    <2>1. /\ <<l, d>> \in told \/ \A w \in Sharers(c, l, work) : <<w, d>> \in known
          /\ \E w \in Sharers(c, l, work) : <<w, d>> \in known
      BY <1>5 DEF OwnersKnow
    <2>2. /\ d \in c.plain /\ Sharers(c, l, work) \subseteq crew \ who
          /\ "main" \in Sharers(c, l, work)
          /\ Sharers(c, l, work) \subseteq Sharers(c, l, work \cup who)
          /\ Sharers(c, l, work \cup who) \subseteq Sharers(c, l, work) \cup who
      BY <1>0 DEF Sound, Sharers
    <2>3. \A w \in Sharers(c, l, work) : <<w, d>> \in known => <<w, d>> \in known2
      BY <2>2
    <2>4. (\A w \in Sharers(c, l, work) : <<w, d>> \in known) =>
            \A w \in Sharers(c, l, work \cup who) : <<w, d>> \in known2
      BY <2>2, <2>3
    <2> QED
      BY <2>1, <2>2, <2>3, <2>4
  <1>6. ASSUME NEW d \in c.plain \ Protected(c), \A u \in work \cup who : d \notin c.mine[u]
        PROVE  <<"main", d>> \in known2
    BY <1>0, <1>6 DEF OwnersKnow
  <1>7. OwnersKnow(c, holds, work \cup who, known2, told2)
    BY <1>3, <1>4, <1>5, <1>6 DEF OwnersKnow
  <1> QED
    BY <1>2, <1>7

(* main, which holds nothing, joins u, which holds nothing either.         *)
LEMMA JoiningKeeps ==
  ASSUME NEW c, NEW crew, Sound(c, crew), NEW holds, DOMAIN holds = crew, NEW work, NEW vals,
         NEW known, NEW told,
         LocksRight(c, holds, work, vals), OwnersKnow(c, holds, work, known, told),
         NEW u \in work, holds[u] = {},
         NEW known2, known \subseteq known2, \A d \in c.plain : <<u, d>> \in known => <<"main", d>> \in known2,
         NEW told2, told \subseteq told2
  PROVE  LocksRight(c, holds, work \ {u}, vals) /\ OwnersKnow(c, holds, work \ {u}, known2, told2)
  <1>0. work \subseteq DOMAIN c.mine /\ DOMAIN c.mine \subseteq crew /\ "main" \in crew
    BY DEF LocksRight, Sound
  <1>2. LocksRight(c, holds, work \ {u}, vals)
    <2>1. \A t \in crew : \A l \in holds[t] : l \in Monitors(c) /\ t \in Sharers(c, l, work \ {u})
      BY DEF LocksRight, Sharers
    <2> QED
      BY <1>0, <2>1 DEF LocksRight
  <1>3. \A x \in work \ {u} : \A d \in c.mine[x] : <<x, d>> \in known2
    BY DEF OwnersKnow
  <1>4. \A t \in crew : \A l \in holds[t] : \A d \in c.guards[l] : <<t, d>> \in known2
    BY DEF OwnersKnow
  <1>5. ASSUME NEW l \in Monitors(c), \A x \in crew : l \notin holds[x], NEW d \in c.guards[l]
        PROVE  /\ <<l, d>> \in told2 \/ \A w \in Sharers(c, l, work \ {u}) : <<w, d>> \in known2
               /\ \E w \in Sharers(c, l, work \ {u}) : <<w, d>> \in known2
    <2>1. /\ <<l, d>> \in told \/ \A w \in Sharers(c, l, work) : <<w, d>> \in known
          /\ \E w \in Sharers(c, l, work) : <<w, d>> \in known
      BY <1>5 DEF OwnersKnow
    <2>2. d \in c.plain /\ Sharers(c, l, work \ {u}) \subseteq Sharers(c, l, work)
          /\ Sharers(c, l, work) \subseteq Sharers(c, l, work \ {u}) \cup {u} /\ "main" \in Sharers(c, l, work \ {u})
      BY DEF Sharers, Sound
    <2> QED
      BY <2>1, <2>2
  <1>6. ASSUME NEW d \in c.plain \ Protected(c), \A x \in work \ {u} : d \notin c.mine[x]
        PROVE  <<"main", d>> \in known2
    BY <1>0, <1>6 DEF OwnersKnow
  <1>7. OwnersKnow(c, holds, work \ {u}, known2, told2)
    BY <1>3, <1>4, <1>5, <1>6 DEF OwnersKnow
  <1> QED
    BY <1>2, <1>7
-----------------------------------------------------------------------------
(* A view that knows the n-th write of d and all reads since, and how the  *)
(* operators on views treat it.                                            *)
UpTo(v, n, d) == v.at[d] = n /\ \A p \in v.missed : p[1] # d

(* Merge knows what either does, ...                                       *)
LEMMA MergeKnows ==
  ASSUME NEW u \in Views, NEW v \in Views, NEW d \in Locations, NEW n \in Nat,
         UpTo(u, n, d), v.at[d] <= n
  PROVE  UpTo(M!Merge(u, v), n, d) /\ UpTo(M!Merge(v, u), n, d)
  <1>1. u.at[d] \in Nat /\ v.at[d] \in Nat
    BY DEF Views
  <1>2. M!Merge(u, v).at[d] = n /\ M!Merge(v, u).at[d] = n
    BY <1>1, MergeView DEF UpTo
  <1>3. M!Merge(u, v).missed = u.missed \cap v.missed /\ M!Merge(v, u).missed = v.missed \cap u.missed
    BY MergeView
  <1> QED
    BY <1>2, <1>3 DEF UpTo

(* ... MoveTo what it moves to, ...                                        *)
LEMMA MoveToKnows ==
  ASSUME NEW u \in Views, NEW l \in Locations, NEW i \in Nat, NEW d \in Locations, d # l, NEW n
  PROVE  UpTo(M!MoveTo(u, l, i), n, d) <=> UpTo(u, n, d)
  <1>1. M!MoveTo(u, l, i).missed = u.missed /\ M!MoveTo(u, l, i).at[d] = u.at[d]
    BY MoveToView
  <1> QED
    BY <1>1 DEF UpTo

(* ... Missing all but the location that was read, ...                     *)
LEMMA MissingKnows ==
  ASSUME NEW u \in Views, NEW t \in Crew, NEW l \in Locations, NEW d \in Locations, d # l, NEW n
  PROVE  UpTo(M!Missing(u, t, l), n, d) <=> UpTo(u, n, d)
  <1>1. M!Missing(u, t, l).missed = u.missed \cup {<<l, t>>} /\ M!Missing(u, t, l).at = u.at
    BY MissingView
  <1> QED
    BY <1>1 DEF UpTo

(* ... and Settle all reads of a location.                                 *)
LEMMA SettleKnows ==
  ASSUME NEW u \in Views, NEW l \in Locations, NEW d \in Locations, NEW n
  PROVE  /\ d # l => (UpTo(M!Settle(u, l), n, d) <=> UpTo(u, n, d))
         /\ u.at[l] = n => UpTo(M!Settle(u, l), n, l)
  <1>1. M!Settle(u, l).missed = {p \in u.missed : p[1] # l} /\ M!Settle(u, l).at = u.at
    BY SettleView
  <1> QED
    BY <1>1 DEF UpTo

(* Thread u knows d; the last message of m tells d; its value.             *)
Kn(u, d) == UpTo(cur[u], Len(mem[d]), d)
Tl(m, d) == UpTo(mem[m][Len(mem[m])].view, Len(mem[d]), d)
Now(m)   == mem[m][Len(mem[m])].val

(* The views a thread, or a message, can have.                             *)
LEMMA ViewsThere ==
  ASSUME MemOK, NEW u \in Crew, NEW m \in Locations, NEW d \in Locations, NEW i \in 1 .. Len(mem[m])
  PROVE  /\ cur[u] \in Views /\ cur[u].at[d] \in Nat /\ cur[u].at[d] <= Len(mem[d]) /\ Len(mem[d]) \in Nat
         /\ mem[m][i].view \in Views /\ mem[m][i].view.at[d] \in Nat
         /\ mem[m][i].view.at[d] <= Len(mem[d])
         /\ Len(mem[m]) \in 1 .. Len(mem[m])
  <1>1. cur[u] \in Views /\ cur[u].at[d] <= acq[u].at[d] /\ acq[u].at[d] <= Len(mem[d])
    BY DEF MemOK, MemTyped, ThreadsKnow
  <1>2. cur[u].at[d] \in Nat /\ acq[u].at[d] \in Nat /\ Len(mem[d]) \in Nat
    BY DEF MemOK, MemTyped, OrdersKept, Views
  <1>3. mem[m][i].view \in Views /\ mem[m][i].view.at[d] \in 1 .. Len(mem[d])
    BY MessageThere DEF MemOK, MessagesKnow
  <1>4. Len(mem[m]) \in 1 .. Len(mem[m])
    BY DEF MemOK, OrdersKept
  <1> QED
    BY <1>1, <1>2, <1>3, <1>4

(* A load forgets nothing.                                                 *)
LEMMA LoadLearns ==
  ASSUME MemOK, UNCHANGED program, NEW t \in Crew, NEW l \in Locations, NEW i, NEW o, M!Load(t, l, i, o)
  PROVE  /\ mem' = mem /\ raced' = raced
         /\ \A u \in Crew, d \in Locations : d # l /\ Kn(u, d) => Kn(u, d)'
  <1> DEFINE seen == M!MoveTo(cur[t], l, i)
             told == M!Merge(seen, mem[l][i].view)
  <1>1. /\ mem' = mem /\ raced' = raced
        /\ cur' = [cur EXCEPT ![t] = IF o \in M!Acquires THEN told ELSE seen]
    BY DEF M!Load
  <1>2. i \in 1 .. Len(mem[l]) /\ i \in Nat
    BY LoadKeeps
  <1> SUFFICES ASSUME NEW u \in Crew, NEW d \in Locations, d # l, Kn(u, d)
               PROVE  UpTo(cur'[u], Len(mem[d]), d)
    BY <1>1 DEF Kn
  <1>3. CASE u # t
    BY <1>1, <1>3 DEF Kn, MemOK, MemTyped
  <1>4. CASE u = t
    <2>1. /\ cur[t] \in Views /\ mem[l][i].view \in Views /\ Len(mem[d]) \in Nat
          /\ mem[l][i].view.at[d] <= Len(mem[d])
      BY <1>2, ViewsThere
    <2>2. UpTo(cur[t], Len(mem[d]), d)
      BY <1>4 DEF Kn
    <2>3. seen \in Views
      BY <1>2, <2>1, MoveToView
    <2>4. UpTo(seen, Len(mem[d]), d)
      BY <1>2, <2>1, <2>2, MoveToKnows
    <2> HIDE DEF seen
    <2>5. UpTo(told, Len(mem[d]), d)
      BY <2>1, <2>3, <2>4, MergeKnows
    <2> HIDE DEF told
    <2>6. cur'[t] = told \/ cur'[t] = seen
      BY <1>1 DEF MemOK, MemTyped
    <2> QED
      BY <1>4, <2>4, <2>5, <2>6
  <1> QED
    BY <1>3, <1>4

(* A new message at the end of l says nothing of the other locations.      *)
LEMMA PutLearns ==
  ASSUME MemOK, UNCHANGED program, NEW t, NEW l \in Locations, NEW v \in Int, NEW o, NEW w \in Views,
         \A k \in Locations : k # l => w.at[k] \in 1 .. Len(mem[k]),
         M!Put(t, l, v, w, o)
  PROVE  /\ \A k \in Locations : k # l => mem'[k] = mem[k]
         /\ Now(l)' = v
         /\ \A k \in Locations : k # l => Now(k)' = Now(k)
         /\ \A k \in Locations, d \in Locations : k # l /\ d # l /\ Tl(k, d) => Tl(k, d)'
         /\ \A d \in Locations : d # l /\ UpTo(w, Len(mem[d]), d) => Tl(l, d)'
  <1>1. /\ M!End(l) \in Nat /\ Len(mem'[l]) = M!End(l)
        /\ \A k \in Locations : k # l => mem'[k] = mem[k]
        /\ mem'[l][M!End(l)] = [val |-> v, view |-> M!MoveTo(w, l, M!End(l))]
    BY PutKeeps, SMTT(30)
  <1>2. \A d \in Locations : d # l /\ UpTo(w, Len(mem[d]), d) => UpTo(M!MoveTo(w, l, M!End(l)), Len(mem[d]), d)
    BY <1>1, MoveToKnows
  <1>3. /\ mem'[l][Len(mem'[l])].val = v
        /\ mem'[l][Len(mem'[l])].view = M!MoveTo(w, l, M!End(l))
    BY <1>1
  <1>4. Now(l)' = v /\ \A k \in Locations : k # l => Now(k)' = Now(k)
    BY <1>1, <1>3 DEF Now
  <1>5. \A k \in Locations, d \in Locations : k # l /\ d # l /\ Tl(k, d) => Tl(k, d)'
    BY <1>1 DEF Tl
  <1>6. \A d \in Locations : d # l /\ UpTo(w, Len(mem[d]), d) => Tl(l, d)'
    BY <1>1, <1>2, <1>3 DEF Tl
  <1> QED
    BY <1>1, <1>4, <1>5, <1>6
-----------------------------------------------------------------------------
(* A thread that moves to a new place of l still knows the rest.           *)
LEMMA MoverKnows ==
  ASSUME MemOK, NEW t \in Crew, NEW l \in Locations, NEW c \in Views, cur' = [cur EXCEPT ![t] = c],
         \A d \in Locations : d # l => mem'[d] = mem[d],
         \A d \in Locations : d # l /\ Kn(t, d) => UpTo(c, Len(mem[d]), d)
  PROVE  \A u \in Crew, d \in Locations : d # l /\ Kn(u, d) => Kn(u, d)'
  <1> SUFFICES ASSUME NEW u \in Crew, NEW d \in Locations, d # l, Kn(u, d)
               PROVE  UpTo(cur'[u], Len(mem[d]), d)
    BY DEF Kn
  <1> QED
    BY DEF Kn, MemOK, MemTyped

(* A store forgets nothing; with a release order its message tells all.    *)
LEMMA StoreLearns ==
  ASSUME MemOK, UNCHANGED program, NEW t \in Crew, NEW l \in Locations, NEW v \in Int, NEW o, M!Store(t, l, v, o)
  PROVE  /\ raced' = raced
         /\ \A u \in Crew, d \in Locations : d # l /\ Kn(u, d) => Kn(u, d)'
         /\ \A k \in Locations, d \in Locations : k # l /\ d # l /\ Tl(k, d) => Tl(k, d)'
         /\ Now(l)' = v /\ \A k \in Locations : k # l => Now(k)' = Now(k)
         /\ o \in M!Releases => \A d \in Locations : d # l /\ Kn(t, d) => Tl(l, d)'
  <1> DEFINE w == IF o \in M!Releases THEN cur[t] ELSE rel[t]
             c == M!MoveTo(cur[t], l, M!End(l))
  <1>1. M!Put(t, l, v, w, o) /\ cur' = [cur EXCEPT ![t] = c] /\ raced' = raced
    BY DEF M!Store
  <1>2. w \in Views /\ \A k \in Locations : w.at[k] \in 1 .. Len(mem[k])
    <2>1. CASE o \in M!Releases
      BY <2>1, ViewBounds
    <2>2. CASE o \notin M!Releases
      BY <2>2, ViewBounds
    <2> QED
      BY <2>1, <2>2
  <1>3. o \in M!Releases => w = cur[t]
    OBVIOUS
  <1> HIDE DEF w
  <1>4. /\ \A k \in Locations : k # l => mem'[k] = mem[k]
        /\ Now(l)' = v
        /\ \A k \in Locations : k # l => Now(k)' = Now(k)
        /\ \A k \in Locations, d \in Locations : k # l /\ d # l /\ Tl(k, d) => Tl(k, d)'
        /\ \A d \in Locations : d # l /\ UpTo(w, Len(mem[d]), d) => Tl(l, d)'
    BY <1>1, <1>2, PutLearns
  <1>5. M!End(l) \in Nat /\ cur[t] \in Views
    <2>1. \A k \in Locations : k # l => w.at[k] \in 1 .. Len(mem[k])
      BY <1>2
    <2> QED
      BY <1>1, <1>2, <2>1, PutKeeps, ViewBounds
  <1>6. c \in Views
    BY <1>5, MoveToView
  <1>7. \A d \in Locations : d # l /\ Kn(t, d) => UpTo(c, Len(mem[d]), d)
    BY <1>5, MoveToKnows DEF Kn
  <1> HIDE DEF c
  <1>8. \A u \in Crew, d \in Locations : d # l /\ Kn(u, d) => Kn(u, d)'
    BY <1>1, <1>4, <1>6, <1>7, MoverKnows
  <1> QED
    BY <1>1, <1>3, <1>4, <1>8 DEF Kn

(* So does a read-modify-write; with an acquire order the thread learns    *)
(* what the last message told.                                             *)
LEMMA UpdateLearns ==
  ASSUME MemOK, UNCHANGED program, NEW t \in Crew, NEW l \in Locations, NEW v \in Int, NEW o, M!Update(t, l, v, o)
  PROVE  /\ raced' = raced
         /\ \A u \in Crew, d \in Locations : d # l /\ Kn(u, d) => Kn(u, d)'
         /\ \A k \in Locations, d \in Locations : k # l /\ d # l /\ Tl(k, d) => Tl(k, d)'
         /\ Now(l)' = v /\ \A k \in Locations : k # l => Now(k)' = Now(k)
         /\ o \in M!Releases => \A d \in Locations : d # l /\ Kn(t, d) => Tl(l, d)'
         /\ o \in M!Acquires => \A d \in Locations : d # l /\ Tl(l, d) => Kn(t, d)'
  <1> DEFINE n    == M!End(l)
             old  == mem[l][M!Last(l)].view
             both == M!Merge(cur[t], old)
             told == M!MoveTo(both, l, n)
             seen == M!MoveTo(cur[t], l, n)
             now  == IF o \in M!Acquires THEN told ELSE seen
             mine == IF o \in M!Releases THEN now ELSE rel[t]
             w    == M!Merge(old, mine)
  <1>1. M!Put(t, l, v, w, o) /\ cur' = [cur EXCEPT ![t] = now] /\ raced' = raced
    BY DEF M!Update
  <1>2. /\ n \in Nat /\ cur[t] \in Views /\ old \in Views /\ rel[t] \in Views
        /\ \A k \in Locations : /\ Len(mem[k]) \in Nat
                                /\ cur[t].at[k] \in 1 .. Len(mem[k]) /\ old.at[k] \in 1 .. Len(mem[k])
                                /\ rel[t].at[k] \in 1 .. Len(mem[k])
    <2>1. n \in Nat
      BY EndPlace DEF MemOK, OrdersKept
    <2>2. old \in Views /\ \A k \in Locations : old.at[k] \in 1 .. Len(mem[k])
      <3>1. M!Last(l) \in 1 .. Len(mem[l])
        BY LastThere
      <3> QED
        BY <3>1, MessageThere DEF MemOK, MessagesKnow
    <2>3. /\ cur[t] \in Views /\ rel[t] \in Views
          /\ \A k \in Locations : /\ Len(mem[k]) \in Nat
                                  /\ cur[t].at[k] \in 1 .. Len(mem[k])
                                  /\ rel[t].at[k] \in 1 .. Len(mem[k])
      BY ViewBounds
    <2> QED
      BY <2>1, <2>2, <2>3
  <1>3. \A d \in Locations : Tl(l, d) <=> UpTo(old, Len(mem[d]), d)
    BY DEF Tl, M!Last
  <1> HIDE DEF n, old
  <1>4. /\ both \in Views
        /\ \A k \in Locations : both.at[k] = IF cur[t].at[k] < old.at[k] THEN old.at[k] ELSE cur[t].at[k]
    BY <1>2, MergeView
  <1>5. \A d \in Locations : Kn(t, d) \/ Tl(l, d) => UpTo(both, Len(mem[d]), d)
    <2> SUFFICES ASSUME NEW d \in Locations, Kn(t, d) \/ Tl(l, d) PROVE UpTo(both, Len(mem[d]), d)
      OBVIOUS
    <2>1. CASE UpTo(cur[t], Len(mem[d]), d)
      <3>1. Len(mem[d]) \in Nat /\ old.at[d] <= Len(mem[d])
        BY <1>2
      <3> QED
        BY <1>2, <2>1, <3>1, MergeKnows
    <2>2. CASE UpTo(old, Len(mem[d]), d)
      <3>1. Len(mem[d]) \in Nat /\ cur[t].at[d] <= Len(mem[d])
        BY <1>2
      <3> QED
        BY <1>2, <2>2, <3>1, MergeKnows
    <2> QED
      BY <1>3, <2>1, <2>2 DEF Kn
  <1> HIDE DEF both
  <1>6. /\ told \in Views /\ seen \in Views
        /\ \A k \in Locations : k # l => told.at[k] = both.at[k] /\ seen.at[k] = cur[t].at[k]
    <2>1. n \in Nat /\ both \in Views /\ cur[t] \in Views
      BY <1>2, <1>4
    <2>2. told \in Views /\ \A k \in Locations : told.at[k] = IF k = l THEN n ELSE both.at[k]
      BY <2>1, MoveToView
    <2>3. seen \in Views /\ \A k \in Locations : seen.at[k] = IF k = l THEN n ELSE cur[t].at[k]
      BY <2>1, MoveToView
    <2> HIDE DEF told, seen
    <2> QED
      BY <2>2, <2>3
  <1>7. \A d \in Locations : d # l => /\ Kn(t, d) \/ Tl(l, d) => UpTo(told, Len(mem[d]), d)
                                      /\ Kn(t, d) => UpTo(seen, Len(mem[d]), d)
    BY <1>2, <1>4, <1>5, MoveToKnows DEF Kn
  <1> HIDE DEF told, seen
  <1>8. /\ now \in Views
        /\ \A k \in Locations : k # l => now.at[k] \in 1 .. Len(mem[k])
        /\ \A d \in Locations : d # l => /\ Kn(t, d) => UpTo(now, Len(mem[d]), d)
                                         /\ o \in M!Acquires /\ Tl(l, d) => UpTo(now, Len(mem[d]), d)
    <2>1. CASE o \in M!Acquires
      <3>1. now = told
        BY <2>1
      <3> HIDE DEF now
      <3> QED
        BY <1>2, <1>4, <1>6, <1>7, <3>1
    <2>2. CASE o \notin M!Acquires
      <3>1. now = seen
        BY <2>2
      <3> HIDE DEF now
      <3> QED
        BY <1>2, <1>6, <1>7, <2>2, <3>1
    <2> QED
      BY <2>1, <2>2
  <1> HIDE DEF now
  <1>9. /\ mine \in Views /\ \A k \in Locations : k # l => mine.at[k] \in 1 .. Len(mem[k])
        /\ o \in M!Releases => mine = now
    <2>1. CASE o \in M!Releases
      <3>1. mine = now
        BY <2>1
      <3> HIDE DEF mine
      <3> QED
        BY <1>8, <3>1
    <2>2. CASE o \notin M!Releases
      <3>1. mine = rel[t]
        BY <2>2
      <3> HIDE DEF mine
      <3> QED
        BY <1>2, <2>2, <3>1
    <2> QED
      BY <2>1, <2>2
  <1> HIDE DEF mine
  <1>10. /\ w \in Views
         /\ \A k \in Locations : w.at[k] = IF old.at[k] < mine.at[k] THEN mine.at[k] ELSE old.at[k]
    BY <1>2, <1>9, MergeView
  <1>11. \A k \in Locations : k # l => w.at[k] \in 1 .. Len(mem[k])
    BY <1>2, <1>9, <1>10
  <1>12. ASSUME o \in M!Releases, NEW d \in Locations, d # l, Kn(t, d)
         PROVE  UpTo(w, Len(mem[d]), d)
    <2>1. UpTo(mine, Len(mem[d]), d)
      BY <1>8, <1>9, <1>12
    <2>2. Len(mem[d]) \in Nat /\ old.at[d] <= Len(mem[d])
      BY <1>2
    <2> QED
      BY <1>2, <1>9, <2>1, <2>2, MergeKnows
  <1> HIDE DEF w
  <1>13. /\ \A k \in Locations : k # l => mem'[k] = mem[k]
         /\ Now(l)' = v
         /\ \A k \in Locations : k # l => Now(k)' = Now(k)
         /\ \A k \in Locations, d \in Locations : k # l /\ d # l /\ Tl(k, d) => Tl(k, d)'
         /\ \A d \in Locations : d # l /\ UpTo(w, Len(mem[d]), d) => Tl(l, d)'
    BY <1>1, <1>10, <1>11, PutLearns
  <1>14. \A u \in Crew, d \in Locations : d # l /\ Kn(u, d) => Kn(u, d)'
    BY <1>1, <1>8, <1>13, MoverKnows
  <1>15. cur'[t] = now
    BY <1>1 DEF MemOK, MemTyped
  <1>16. \A d \in Locations : o \in M!Acquires /\ d # l /\ Tl(l, d) => Kn(t, d)'
    BY <1>8, <1>13, <1>15 DEF Kn
  <1> QED
    BY <1>1, <1>12, <1>13, <1>14, <1>16

(* A read by one who knows: no race, and the reader knows it still.        *)
LEMMA ReadLearns ==
  ASSUME MemOK, UNCHANGED program, NEW t \in Crew, NEW l \in Locations, NEW i, M!Read(t, l, i), Kn(t, l)
  PROVE  /\ raced' <=> raced
         /\ Kn(t, l)'
         /\ \A u \in Crew, d \in Locations : d # l /\ Kn(u, d) => Kn(u, d)'
         /\ \A k \in Locations, d \in Locations : d # l /\ Tl(k, d) => Tl(k, d)'
         /\ \A k \in Locations : Now(k)' = Now(k)
  <1>1. /\ \A k \in Locations : Len(mem'[k]) = Len(mem[k])
        /\ \A k \in Locations : \A j \in 1 .. Len(mem[k]) :
             mem'[k][j].view = M!Missing(mem[k][j].view, t, l) /\ mem'[k][j].val = mem[k][j].val
        /\ cur'[t] = cur[t] /\ \A u \in Crew : u # t => cur'[u] = M!Missing(cur[u], t, l)
    BY ReadKeeps
  <1>2. ~M!Races(t, l)
    BY DEF M!Races, Kn, UpTo, M!Last
  <1>3. raced' <=> raced
    <2>1. raced' = (raced \/ M!Races(t, l))
      BY DEF M!Read
    <2> QED
      BY <1>2, <2>1, Zenon
  <1>4. \A k \in Locations : /\ Len(mem[k]) \in 1 .. Len(mem[k]) /\ mem[k][Len(mem[k])].view \in Views
    BY ViewsThere DEF MemOK, OrdersKept
  <1>5. \A k \in Locations : Now(k)' = Now(k)
    BY <1>1, <1>4 DEF Now
  <1>6. Kn(t, l)'
    BY <1>1 DEF Kn
  <1>7. ASSUME NEW u \in Crew, NEW d \in Locations, d # l, Kn(u, d) PROVE Kn(u, d)'
    <2>1. cur[u] \in Views
      BY ViewBounds
    <2>2. UpTo(M!Missing(cur[u], t, l), Len(mem[d]), d)
      BY <1>7, <2>1, MissingKnows DEF Kn
    <2>3. UpTo(cur'[u], Len(mem[d]), d)
      BY <1>1, <1>7, <2>2 DEF Kn
    <2> QED
      BY <1>1, <2>3 DEF Kn
  <1>8. ASSUME NEW k \in Locations, NEW d \in Locations, d # l, Tl(k, d) PROVE Tl(k, d)'
    <2>1. UpTo(M!Missing(mem[k][Len(mem[k])].view, t, l), Len(mem[d]), d)
      BY <1>4, <1>8, MissingKnows DEF Tl
    <2>2. UpTo(mem'[k][Len(mem[k])].view, Len(mem[d]), d)
      BY <1>1, <1>4, <2>1
    <2> QED
      BY <1>1, <2>2 DEF Tl
  <1> QED
    BY <1>3, <1>5, <1>6, <1>7, <1>8

(* A write by one who knows: no race, and the writer knows it.             *)
LEMMA WriteLearns ==
  ASSUME MemOK, UNCHANGED program, NEW t \in Crew, NEW l \in Locations, NEW v \in Int, M!Write(t, l, v), Kn(t, l)
  PROVE  /\ raced' <=> raced
         /\ Kn(t, l)'
         /\ \A u \in Crew, d \in Locations : d # l /\ Kn(u, d) => Kn(u, d)'
         /\ \A k \in Locations, d \in Locations : k # l /\ d # l /\ Tl(k, d) => Tl(k, d)'
         /\ \A k \in Locations : k # l => Now(k)' = Now(k)
  <1>1. /\ \A u \in Crew : u # t => cur'[u] = M!Settle(cur[u], l)
        /\ cur'[t] = M!Settle(M!MoveTo(cur[t], l, M!End(l)), l)
        /\ \A k \in Locations : Len(mem'[k]) = IF k = l THEN M!End(l) ELSE Len(mem[k])
        /\ \A k \in Locations : k # l => \A j \in 1 .. Len(mem[k]) :
             mem'[k][j].view = M!Settle(mem[k][j].view, l) /\ mem'[k][j].val = mem[k][j].val
    BY WriteKeeps
  <1>2. ~M!Races(t, l) /\ ~M!Misses(cur[t], l)
    BY DEF M!Races, M!Misses, Kn, UpTo, M!Last
  <1>3. raced' <=> raced
    <2>1. raced' = (raced \/ M!Races(t, l) \/ M!Misses(cur[t], l))
      BY DEF M!Write
    <2> QED
      BY <1>2, <2>1, Zenon
  <1>4. \A k \in Locations : Len(mem[k]) \in 1 .. Len(mem[k]) /\ mem[k][Len(mem[k])].view \in Views
    BY ViewsThere DEF MemOK, OrdersKept
  <1>5. \A k \in Locations : k # l => Now(k)' = Now(k)
    BY <1>1, <1>4 DEF Now
  <1>6. M!End(l) \in Nat /\ cur[t] \in Views
    BY EndPlace, ViewBounds DEF MemOK, OrdersKept
  <1> DEFINE c == M!MoveTo(cur[t], l, M!End(l))
  <1>7. c \in Views /\ c.at[l] = M!End(l) /\ \A d \in Locations : d # l /\ Kn(t, d) => UpTo(c, Len(mem[d]), d)
    BY <1>6, MoveToView, MoveToKnows, SMTT(30) DEF Kn
  <1> HIDE DEF c
  <1>8. cur'[t] = M!Settle(c, l)
    BY <1>1 DEF c
  <1>9. Kn(t, l)'
    BY <1>1, <1>7, <1>8, SettleKnows DEF Kn
  <1>10. ASSUME NEW u \in Crew, NEW d \in Locations, d # l, Kn(u, d) PROVE Kn(u, d)'
    <2>1. CASE u = t
      <3>1. UpTo(M!Settle(c, l), Len(mem[d]), d)
        BY <1>7, <1>10, <2>1, SettleKnows
      <3> QED
        BY <1>1, <1>8, <1>10, <2>1, <3>1 DEF Kn
    <2>2. CASE u # t
      <3>1. cur[u] \in Views
        BY ViewBounds
      <3>2. UpTo(M!Settle(cur[u], l), Len(mem[d]), d)
        BY <1>10, <3>1, SettleKnows DEF Kn
      <3> QED
        BY <1>1, <1>10, <2>2, <3>2 DEF Kn
    <2> QED
      BY <2>1, <2>2
  <1>11. ASSUME NEW k \in Locations, NEW d \in Locations, k # l, d # l, Tl(k, d) PROVE Tl(k, d)'
    <2>1. UpTo(M!Settle(mem[k][Len(mem[k])].view, l), Len(mem[d]), d)
      BY <1>4, <1>11, SettleKnows DEF Tl
    <2>2. UpTo(mem'[k][Len(mem[k])].view, Len(mem[d]), d)
      BY <1>1, <1>4, <1>11, <2>1
    <2> QED
      BY <1>1, <1>11, <2>2 DEF Tl
  <1> QED
    BY <1>3, <1>5, <1>9, <1>10, <1>11

(* A started thread knows what t knows, ...                                *)
LEMMA StartLearns ==
  ASSUME MemOK, UNCHANGED program, NEW t \in Crew, NEW T, M!StartThreads(t, T)
  PROVE  /\ raced' = raced /\ mem' = mem
         /\ \A u \in Crew \ T, d \in Locations : Kn(u, d) => Kn(u, d)'
         /\ \A u \in Crew \cap T, d \in Locations : Kn(t, d) => Kn(u, d)'
  <1>1. /\ raced' = raced /\ mem' = mem
        /\ \A u \in Crew : cur'[u] = IF u \in T THEN cur[t] ELSE cur[u]
    BY DEF M!StartThreads, MemOK, MemTyped
  <1> QED
    BY <1>1 DEF Kn

(* ... and who joins u learns what u knows.                                *)
LEMMA JoinLearns ==
  ASSUME MemOK, UNCHANGED program, NEW t \in Crew, NEW u \in Crew, M!JoinThread(t, u)
  PROVE  /\ raced' = raced /\ mem' = mem
         /\ \A x \in Crew, d \in Locations : Kn(x, d) => Kn(x, d)'
         /\ \A d \in Locations : Kn(u, d) => Kn(t, d)'
  <1> DEFINE c == M!Merge(cur[t], cur[u])
  <1>1. raced' = raced /\ mem' = mem /\ cur' = [cur EXCEPT ![t] = c]
    BY DEF M!JoinThread
  <1>2. ASSUME NEW d \in Locations, Kn(t, d) \/ Kn(u, d) PROVE UpTo(c, Len(mem[d]), d)
    <2>1. /\ cur[t] \in Views /\ cur[u] \in Views /\ Len(mem[d]) \in Nat
          /\ cur[t].at[d] <= Len(mem[d]) /\ cur[u].at[d] <= Len(mem[d])
      <3>1. Len(mem[d]) \in 1 .. Len(mem[d])
        BY DEF MemOK, OrdersKept
      <3> QED
        BY <3>1, ViewsThere
    <2>2. CASE UpTo(cur[t], Len(mem[d]), d)
      BY <2>1, <2>2, MergeKnows
    <2>3. CASE UpTo(cur[u], Len(mem[d]), d)
      BY <2>1, <2>3, MergeKnows
    <2> QED
      BY <1>2, <2>2, <2>3 DEF Kn
  <1> HIDE DEF c
  <1>3. cur'[t] = c /\ \A x \in Crew : x # t => cur'[x] = cur[x]
    BY <1>1 DEF MemOK, MemTyped
  <1>4. \A d \in Locations : Kn(t, d) \/ Kn(u, d) => Kn(t, d)'
    BY <1>1, <1>2, <1>3 DEF Kn
  <1>5. ASSUME NEW x \in Crew, NEW d \in Locations, Kn(x, d) PROVE Kn(x, d)'
    <2>1. CASE x = t
      BY <1>4, <1>5, <2>1
    <2>2. CASE x # t
      BY <1>1, <1>3, <1>5, <2>2 DEF Kn
    <2> QED
      BY <2>1, <2>2
  <1> QED
    BY <1>1, <1>4, <1>5
-----------------------------------------------------------------------------
(* What the claim of the running program says.                             *)
LEMMA ClaimKept ==
  ASSUME ThreadsOK, program \in DOMAIN Claims
  PROVE  /\ Sound(Claimed, Crew)
         /\ Claimed.plain \subseteq Locations /\ Monitors(Claimed) \subseteq Locations \ Claimed.plain
         /\ DOMAIN Claimed.held = Crew /\ DOMAIN Claimed.mine = Crew \ {"main"}
         /\ \A l \in Monitors(Claimed) : Library[program].vars[l] = 0
         /\ \A t \in Crew : /\ 1 \in DOMAIN Claimed.held[t] /\ Claimed.held[t][1] = {}
                            /\ DOMAIN Claimed.held[t] \subseteq 1 .. Len(code[t]) + 1
                            /\ \A k \in DOMAIN Claimed.held[t] :
                                 /\ Claimed.held[t][k] \subseteq Monitors(Claimed)
                                 /\ k = Len(code[t]) + 1 => Claimed.held[t][k] = {}
         /\ Claimed.started[1] = {} /\ Claimed.active[1] = {}
         /\ \A k \in DOMAIN Claimed.held["main"] :
              Claimed.active[k] \subseteq Claimed.started[k] /\ Claimed.started[k] \subseteq DOMAIN Claimed.mine
  <1>1. code = Library[program].code /\ "main" \in Crew /\ DOMAIN code = Crew
    BY CodeTyped DEF ThreadsOK
  <1>2. ClaimTyped(Library[program], Claimed) /\ Apart(Claimed)
    BY ClaimsAssumption DEF ThreadsOK, Keeps, Claimed
  <1>3. /\ Claimed.plain \subseteq Locations /\ Monitors(Claimed) \subseteq Locations \ Claimed.plain
        /\ DOMAIN Claimed.held = Crew /\ DOMAIN Claimed.mine = Crew \ {"main"}
        /\ \A l \in Monitors(Claimed) : /\ Claimed.guards[l] \subseteq Claimed.plain
                                        /\ Claimed.weight[l] \in Int /\ Claimed.weight[l] # 0
                                        /\ Library[program].vars[l] = 0
    BY <1>2 DEF ClaimTyped, Locations, Crew
  <1>4. /\ \A t \in Crew : /\ 1 \in DOMAIN Claimed.held[t] /\ Claimed.held[t][1] = {}
                           /\ DOMAIN Claimed.held[t] \subseteq 1 .. Len(code[t]) + 1
                           /\ \A k \in DOMAIN Claimed.held[t] :
                                /\ Claimed.held[t][k] \subseteq Monitors(Claimed)
                                /\ k = Len(code[t]) + 1 => Claimed.held[t][k] = {}
        /\ Claimed.started[1] = {} /\ Claimed.active[1] = {}
        /\ \A k \in DOMAIN Claimed.held["main"] :
             Claimed.active[k] \subseteq Claimed.started[k] /\ Claimed.started[k] \subseteq DOMAIN Claimed.mine
    BY <1>1, <1>2, Zenon DEF ClaimTyped
  <1>5. Sound(Claimed, Crew)
    BY <1>1, <1>2, <1>3 DEF Sound
  <1> QED
    BY <1>3, <1>4, <1>5

(* What it says of a place.                                                *)
LEMMA PlaceKept ==
  ASSUME ThreadsOK, program \in DOMAIN Claims, NEW t \in Crew, NEW k \in DOMAIN Claimed.held[t], k \in 1 .. Len(code[t])
  PROVE  /\ Targets(code[t][k], k) \subseteq DOMAIN Claimed.held[t]
         /\ code[t][k].op \notin {"fence", "deref", "assign"}
         /\ code[t][k].op \in {"read", "write"} =>
              code[t][k].at \in Claimed.plain /\ Owns(Claimed, t, k, code[t][k].at)
         /\ code[t][k].op \in {"load", "store", "update", "cas", "sleep"} => code[t][k].at \notin Claimed.plain
         /\ code[t][k].op = "publish" =>
              \A j \in DOMAIN Object : Object[j] \notin Claimed.plain \cup Monitors(Claimed)
         /\ HoldsRight(Claimed, t, k, code[t][k])
         /\ t = "main" => CountsRight(Claimed, k, code[t][k])
         /\ t # "main" => code[t][k].op \notin {"start", "join"}
  <1>1. code = Library[program].code /\ t \in DOMAIN code
    BY CodeTyped DEF ThreadsOK
  <1>2. PlaceRight(Library[program], Claimed, t, k)
    <2>1. Keeps(Library[program], Claimed)
      BY ClaimsAssumption DEF ThreadsOK, Claimed
    <2> QED
      BY <1>1, <2>1, Zenon DEF Keeps
  <1> QED
    BY <1>1, <1>2, Zenon DEF PlaceRight

(* The places that look the same as q to the claim.                        *)
Alike(t, p, q) ==
  /\ p \in DOMAIN Claimed.held[t] /\ Claimed.held[t][p] = Claimed.held[t][q]
  /\ t = "main" => Claimed.started[p] = Claimed.started[q] /\ Claimed.active[p] = Claimed.active[q]

(* An instruction that takes no mutex, gives none back, and neither starts *)
(* nor joins leads to a place that looks the same.                         *)
LEMMA NeutralPlace ==
  ASSUME ThreadsOK, program \in DOMAIN Claims, NEW t \in Crew, NEW k \in DOMAIN Claimed.held[t], k \in 1 .. Len(code[t]),
         \/ code[t][k].op \notin {"store", "update", "sleep", "start", "join"}
         \/ code[t][k].op \in {"store", "update", "sleep"} /\ code[t][k].at \notin Monitors(Claimed)
  PROVE  \A q \in Targets(code[t][k], k) : Alike(t, q, k)
  <1> DEFINE ins == code[t][k]
  <1>1. Targets(ins, k) \subseteq DOMAIN Claimed.held[t] /\ HoldsRight(Claimed, t, k, ins)
        /\ (t = "main" => CountsRight(Claimed, k, ins))
    BY PlaceKept
  <1>2. ins.op \notin {"start", "join"} /\ (ins.op \in {"store", "update", "sleep"} => ins.at \notin Monitors(Claimed))
    OBVIOUS
  <1> HIDE DEF ins
  <1>3. \A q \in Targets(ins, k) : Claimed.held[t][q] = Claimed.held[t][k]
    BY <1>1, <1>2 DEF HoldsRight
  <1>4. t = "main" => \A q \in Targets(ins, k) :
          Claimed.started[q] = Claimed.started[k] /\ Claimed.active[q] = Claimed.active[k]
    BY <1>1, <1>2, Zenon DEF CountsRight
  <1>5. \A q \in Targets(ins, k) : Alike(t, q, k)
    BY <1>1, <1>3, <1>4 DEF Alike
  <1> QED
    BY <1>5 DEF ins

(* Neither does what goes with a step.                                     *)
LEMMA PrivateStays ==
  ASSUME ThreadsOK, program \in DOMAIN Claims, NEW t \in Crew, NEW q, NEW k, Alike(t, k, q),
         k \in 1 .. Len(code[t]), code[t][k].op \in Private
  PROVE  \A p \in Targets(code[t][k], k) : Alike(t, p, q)
  <1>1. k \in DOMAIN Claimed.held[t] /\ code[t][k].op \notin {"store", "update", "sleep", "start", "join"}
    BY DEF Alike, Private
  <1>2. \A p \in Targets(code[t][k], k) : Alike(t, p, k)
    BY <1>1, NeutralPlace
  <1> QED
    BY <1>2 DEF Alike

(* Where StepTo leads looks like the place it steps to.                    *)
LEMMA StepStays ==
  ASSUME ThreadsOK, program \in DOMAIN Claims, NEW t, Running(t), NEW d \in Int, NEW r \in Registers, NEW v \in Int,
         StepTo(t, d, r, v), pc[t] + d \in DOMAIN Claimed.held[t]
  PROVE  /\ UNCHANGED <<program, code>> /\ pc' = [pc EXCEPT ![t] = pc'[t]]
         /\ Alike(t, pc'[t], pc[t] + d)
  <1>1. PICK G : G = {p \in DOMAIN Claimed.held[t] : Alike(t, p, pc[t] + d)}
    OBVIOUS
  <1>2. t \in Crew
    BY Current
  <1>3. G \subseteq 1 .. Len(code[t]) + 1 /\ pc[t] + d \in G
    BY <1>1, <1>2, ClaimKept DEF Alike
  <1>4. \A k \in G : k \in 1 .. Len(code[t]) /\ code[t][k].op \in Private => Targets(code[t][k], k) \subseteq G
    <2> SUFFICES ASSUME NEW k \in G, k \in 1 .. Len(code[t]), code[t][k].op \in Private
                 PROVE  Targets(code[t][k], k) \subseteq G
      OBVIOUS
    <2>1. Alike(t, k, pc[t] + d)
      BY <1>1
    <2>2. \A p \in Targets(code[t][k], k) : Alike(t, p, pc[t] + d)
      BY <1>2, <2>1, PrivateStays
    <2> QED
      BY <1>1, <2>2 DEF Alike
  <1>5. /\ UNCHANGED <<program, code, asleep>> /\ pc'[t] \in G /\ pc' = [pc EXCEPT ![t] = pc'[t]]
    BY <1>3, <1>4, StepKeepsPart
  <1> QED
    BY <1>1, <1>5

(* Where the others are, and who is at work, if t goes to place p.         *)
LEMMA MoveStays ==
  ASSUME Inv, program \in DOMAIN Claims, InPlace, NEW t \in Crew, pc[t] \in 1 .. Len(code[t]),
         UNCHANGED <<program, code>>, NEW p \in DOMAIN Claimed.held[t], pc' = [pc EXCEPT ![t] = p],
         t = "main" => Claimed.started[p] = Claimed.started[pc[t]] /\ Claimed.active[p] = Claimed.active[pc[t]]
  PROVE  /\ InPlace' /\ Claimed' = Claimed /\ AtWork' = AtWork
         /\ Held' = [Held EXCEPT ![t] = Claimed.held[t][p]]
  <1>1. Claimed' = Claimed /\ Crew' = Crew
    BY SameSets DEF Claimed
  <1>2. /\ "main" \in Crew /\ pc \in [Crew -> Nat] /\ p \in 1 .. Len(code[t]) + 1 /\ Len(code[t]) \in Nat
        /\ DOMAIN Claimed.mine = Crew \ {"main"}
    BY ClaimKept, CodeTyped DEF Inv, ThreadsOK
  <1>3. pc'[t] = p /\ p # 0 /\ \A u \in Crew : u # t => pc'[u] = pc[u]
    BY <1>2
  <1>4. /\ Claimed.started[pc'["main"]] = Claimed.started[pc["main"]]
        /\ Claimed.active[pc'["main"]] = Claimed.active[pc["main"]]
    BY <1>2, <1>3
  <1>5. AtWork' = AtWork
    BY <1>1, <1>4 DEF AtWork
  <1>6. Held' = [Held EXCEPT ![t] = Claimed.held[t][p]]
    <2>1. Held' = [u \in Crew |-> IF pc'[u] = 0 THEN {} ELSE Claimed.held[u][pc'[u]]]
      BY <1>1 DEF Held
    <2>2. Held = [u \in Crew |-> IF pc[u] = 0 THEN {} ELSE Claimed.held[u][pc[u]]]
      BY DEF Held
    <2>3. \A u \in Crew : Held'[u] = IF u = t THEN Claimed.held[t][p] ELSE Held[u]
      <3> TAKE u \in Crew
      <3>1. CASE u = t
        BY <1>3, <2>1, <3>1
      <3>2. CASE u # t
        BY <1>3, <2>1, <2>2, <3>2
      <3> QED
        BY <3>1, <3>2
    <2>4. DOMAIN Held = Crew /\ Held' = [u \in Crew |-> Held'[u]]
      BY <2>1, <2>2
    <2> QED
      BY <2>3, <2>4, Zenon
  <1>7. ~Ended(t)
    BY <1>2 DEF Ended
  <1>8. /\ pc'["main"] # 0
        /\ \A u \in Crew : pc'[u] # 0 => pc'[u] \in DOMAIN Claimed.held[u]
    BY <1>2, <1>3 DEF InPlace
  <1>9. ASSUME NEW u \in DOMAIN Claimed.mine
        PROVE  /\ pc'[u] = 0 <=> u \notin Claimed.started[pc["main"]]
               /\ u \in Claimed.started[pc["main"]] \ AtWork => pc'[u] = Len(code[u]) + 1
    <2>1. /\ pc[u] = 0 <=> u \notin Claimed.started[pc["main"]]
          /\ u \in Claimed.started[pc["main"]] \ AtWork => Ended(u)
      BY DEF InPlace
    <2>2. CASE u = t
      BY <1>2, <1>3, <1>7, <2>1, <2>2
    <2>3. CASE u # t
      BY <1>2, <1>3, <2>1, <2>3 DEF Ended
    <2> QED
      BY <2>2, <2>3
  <1>10. InPlace'
    BY <1>1, <1>4, <1>5, <1>8, <1>9 DEF InPlace, Ended
  <1> QED
    BY <1>1, <1>5, <1>6, <1>10
-----------------------------------------------------------------------------
(* Who knows what, as sets of pairs, before and after a step.              *)
LEMMA KnowledgeIs ==
  ASSUME UNCHANGED program
  PROVE  /\ Claimed' = Claimed /\ Crew' = Crew
         /\ \A u \in Crew, d \in Claimed.plain : /\ <<u, d>> \in Known <=> Kn(u, d)
                                                 /\ <<u, d>> \in Known' <=> Kn(u, d)'
         /\ \A m \in Monitors(Claimed), d \in Claimed.plain : /\ <<m, d>> \in Told <=> Tl(m, d)
                                                              /\ <<m, d>> \in Told' <=> Tl(m, d)'
         /\ Known \subseteq Crew \X Claimed.plain /\ Told \subseteq Monitors(Claimed) \X Claimed.plain
         /\ Settings = [m \in Monitors(Claimed) |-> Now(m)]
         /\ Settings' = [m \in Monitors(Claimed) |-> Now(m)']
  <1>1. Claimed' = Claimed /\ Crew' = Crew
    BY SameSets DEF Claimed
  <1>2. \A v, d : Knows(v, d) <=> UpTo(v, Len(mem[d]), d)
    BY DEF Knows, UpTo, M!Last, M!Misses
  <1>3. \A u \in Crew, d \in Claimed.plain : <<u, d>> \in Known <=> Kn(u, d)
    BY <1>2 DEF Known, Kn
  <1>4. \A u \in Crew, d \in Claimed.plain : <<u, d>> \in Known' <=> Kn(u, d)'
    <2>1. \A u, d : <<u, d>> \in Known' <=>
            /\ <<u, d>> \in Crew \X Claimed.plain
            /\ cur'[u].at[d] = Len(mem'[d]) /\ ~ \E p \in cur'[u].missed : p[1] = d
      BY <1>1 DEF Known, Knows, M!Last, M!Misses
    <2> QED
      BY <2>1 DEF Kn, UpTo
  <1>5. \A m \in Monitors(Claimed), d \in Claimed.plain : <<m, d>> \in Told <=> Tl(m, d)
    BY <1>2 DEF Told, Tl, M!Last
  <1>6. \A m \in Monitors(Claimed), d \in Claimed.plain : <<m, d>> \in Told' <=> Tl(m, d)'
    <2>1. \A m, d : <<m, d>> \in Told' <=>
            /\ <<m, d>> \in Monitors(Claimed) \X Claimed.plain
            /\ mem'[m][Len(mem'[m])].view.at[d] = Len(mem'[d])
            /\ ~ \E p \in mem'[m][Len(mem'[m])].view.missed : p[1] = d
      BY <1>1 DEF Told, Knows, M!Last, M!Misses
    <2> QED
      BY <2>1 DEF Tl, UpTo
  <1>7. Known \subseteq Crew \X Claimed.plain /\ Told \subseteq Monitors(Claimed) \X Claimed.plain
    BY DEF Known, Told
  <1>8. Settings = [m \in Monitors(Claimed) |-> Now(m)]
    BY DEF Settings, Now, M!Last
  <1>9. Settings' = [m \in Monitors(Claimed) |-> Now(m)']
    BY <1>1 DEF Settings, Now, M!Last
  <1> QED
    BY <1>1, <1>3, <1>4, <1>5, <1>6, <1>7, <1>8, <1>9

(* If every thread and every message still knows what it knew.             *)
LEMMA KnowledgeGrows ==
  ASSUME UNCHANGED program
  PROVE  /\ (\A u \in Crew, d \in Claimed.plain : Kn(u, d) => Kn(u, d)') => Known \subseteq Known'
         /\ (\A m \in Monitors(Claimed), d \in Claimed.plain : Tl(m, d) => Tl(m, d)') => Told \subseteq Told'
         /\ (\A m \in Monitors(Claimed) : Now(m)' = Now(m)) => Settings' = Settings
  <1>1. ASSUME \A u \in Crew, d \in Claimed.plain : Kn(u, d) => Kn(u, d)' PROVE Known \subseteq Known'
    <2> SUFFICES ASSUME NEW x \in Known PROVE x \in Known'
      OBVIOUS
    <2>1. PICK u \in Crew, d \in Claimed.plain : x = <<u, d>>
      BY KnowledgeIs
    <2> QED
      BY <1>1, <2>1, KnowledgeIs
  <1>2. ASSUME \A m \in Monitors(Claimed), d \in Claimed.plain : Tl(m, d) => Tl(m, d)' PROVE Told \subseteq Told'
    <2> SUFFICES ASSUME NEW x \in Told PROVE x \in Told'
      OBVIOUS
    <2>1. PICK m \in Monitors(Claimed), d \in Claimed.plain : x = <<m, d>>
      BY KnowledgeIs
    <2> QED
      BY <1>2, <2>1, KnowledgeIs
  <1>3. ASSUME \A m \in Monitors(Claimed) : Now(m)' = Now(m) PROVE Settings' = Settings
    BY <1>3, KnowledgeIs
  <1> QED
    BY <1>1, <1>2, <1>3

(* A thread at a place holds what its claim says.                          *)
LEMMA HeldHere ==
  ASSUME Inv, program \in DOMAIN Claims, Orderly, NEW t, Running(t)
  PROVE  /\ t \in Crew /\ pc[t] \in 1 .. Len(code[t]) /\ pc[t] \in DOMAIN Claimed.held[t]
         /\ DOMAIN Held = Crew /\ Held[t] = Claimed.held[t][pc[t]] /\ Held = [Held EXCEPT ![t] = Held[t]]
         /\ InPlace /\ LocksRight(Claimed, Held, AtWork, Settings)
         /\ OwnersKnow(Claimed, Held, AtWork, Known, Told)
         /\ Sound(Claimed, Crew) /\ DOMAIN Settings = Monitors(Claimed)
  <1>1. t \in Crew /\ pc[t] \in 1 .. Len(code[t])
    BY Current DEF Inv
  <1>2. pc[t] \in DOMAIN Claimed.held[t] /\ pc[t] # 0
    BY <1>1 DEF Orderly, InPlace
  <1>3. DOMAIN Held = Crew /\ Held[t] = Claimed.held[t][pc[t]] /\ Held = [Held EXCEPT ![t] = Held[t]]
    BY <1>1, <1>2 DEF Held
  <1> QED
    BY <1>1, <1>2, <1>3, ClaimKept DEF Inv, Orderly, Settings

(* A step to a place that looks the same, after which everybody knows what *)
(* it knew and no mutex has changed.                                       *)
LEMMA NeutralKeeps ==
  ASSUME Inv, program \in DOMAIN Claims, Orderly, NEW t, Running(t), UNCHANGED <<program, code>>,
         NEW p, pc' = [pc EXCEPT ![t] = p], Alike(t, p, pc[t]),
         \A u \in Crew, d \in Claimed.plain : Kn(u, d) => Kn(u, d)',
         \A m \in Monitors(Claimed), d \in Claimed.plain : Tl(m, d) => Tl(m, d)',
         \A m \in Monitors(Claimed) : Now(m)' = Now(m)
  PROVE  Orderly'
  <1>1. /\ InPlace' /\ Claimed' = Claimed /\ AtWork' = AtWork
        /\ Held' = [Held EXCEPT ![t] = Claimed.held[t][p]]
    <2>1. /\ t \in Crew /\ pc[t] \in 1 .. Len(code[t]) /\ InPlace /\ p \in DOMAIN Claimed.held[t]
          /\ t = "main" => Claimed.started[p] = Claimed.started[pc[t]] /\ Claimed.active[p] = Claimed.active[pc[t]]
      BY HeldHere DEF Alike
    <2> QED
      BY <2>1, MoveStays
  <1>2. Held' = Held
    BY <1>1, HeldHere DEF Alike
  <1>3. Known \subseteq Known' /\ Told \subseteq Told' /\ Settings' = Settings
    BY KnowledgeGrows
  <1>4. OwnersKnow(Claimed, Held, AtWork, Known', Told')
    BY <1>3, HeldHere, MoreIsKnown
  <1> QED
    BY <1>1, <1>2, <1>3, <1>4, HeldHere DEF Orderly

(* Who runs, and is not main, is at work.                                  *)
LEMMA RunsAtWork ==
  ASSUME Inv, program \in DOMAIN Claims, Orderly, NEW t, Running(t), t # "main"
  PROVE  t \in AtWork /\ t \in DOMAIN Claimed.mine
  <1>1. /\ t \in DOMAIN Claimed.mine /\ pc[t] # 0
    BY HeldHere, ClaimKept DEF Inv
  <1>2. ~Ended(t)
    <2>1. Len(code[t]) \in Nat /\ pc[t] \in 1 .. Len(code[t])
      BY HeldHere, CodeTyped DEF Inv
    <2> QED
      BY <2>1 DEF Ended
  <1> QED
    BY <1>1, <1>2 DEF Orderly, InPlace

(* A step that takes l.                                                    *)
LEMMA TakeKeeps ==
  ASSUME Inv, program \in DOMAIN Claims, Orderly, NEW t, Running(t), UNCHANGED <<program, code>>,
         NEW p, pc' = [pc EXCEPT ![t] = p], Alike(t, p, pc[t] + 1),
         pc[t] + 1 \in DOMAIN Claimed.held[t],
         NEW l \in Monitors(Claimed), Claimed.held[t][pc[t] + 1] = Claimed.held[t][pc[t]] \cup {l},
         t = "main" => /\ Claimed.started[pc[t] + 1] = Claimed.started[pc[t]]
                       /\ Claimed.active[pc[t] + 1] = Claimed.active[pc[t]],
         \A u \in Crew, d \in Claimed.plain : Kn(u, d) => Kn(u, d)',
         \A m \in Monitors(Claimed), d \in Claimed.plain : m # l /\ Tl(m, d) => Tl(m, d)',
         \A d \in Claimed.plain : Tl(l, d) => Kn(t, d)',
         Now(l) = 0, Now(l)' = Claimed.weight[l], \A m \in Monitors(Claimed) : m # l => Now(m)' = Now(m)
  PROVE  Orderly'
  <1>1. /\ InPlace' /\ Claimed' = Claimed /\ AtWork' = AtWork
        /\ Held' = [Held EXCEPT ![t] = Claimed.held[t][p]]
    <2>1. /\ t \in Crew /\ pc[t] \in 1 .. Len(code[t]) /\ InPlace /\ p \in DOMAIN Claimed.held[t]
          /\ t = "main" => Claimed.started[p] = Claimed.started[pc[t]] /\ Claimed.active[p] = Claimed.active[pc[t]]
      BY HeldHere DEF Alike
    <2> QED
      BY <2>1, MoveStays
  <1>2. Held' = [Held EXCEPT ![t] = Held[t] \cup {l}]
    <2>1. Claimed.held[t][p] = Held[t] \cup {l}
      BY HeldHere DEF Alike
    <2> QED
      BY <1>1, <2>1
  <1>3. t \in Sharers(Claimed, l, AtWork)
    <2>1. CASE t = "main"
      BY <2>1 DEF Sharers
    <2>2. CASE t # "main"
      <3>1. t \in AtWork /\ t \in DOMAIN Claimed.mine
        BY <2>2, RunsAtWork
      <3> QED
        BY <3>1 DEF Sharers, Holders
    <2> QED
      BY <2>1, <2>2
  <1>4. Known \subseteq Known'
    BY KnowledgeGrows
  <1>5. /\ \A d \in Claimed.plain : <<l, d>> \in Told => <<t, d>> \in Known'
        /\ \A m \in Monitors(Claimed) : \A d \in Claimed.plain : m # l /\ <<m, d>> \in Told => <<m, d>> \in Told'
        /\ Settings' = [Settings EXCEPT ![l] = Claimed.weight[l]] /\ Settings[l] = 0
    BY KnowledgeIs, HeldHere
  <1>6. Taking(Claimed, Crew, Held, AtWork, Settings, Known, Told, t, l, Known', Told')
    BY <1>3, <1>4, <1>5, HeldHere DEF Taking
  <1>7. LocksRight(Claimed, Held', AtWork, Settings') /\ OwnersKnow(Claimed, Held', AtWork, Known', Told')
    BY <1>2, <1>5, <1>6, TakingKeeps
  <1> QED
    BY <1>1, <1>7 DEF Orderly

(* A step that gives l back.                                               *)
LEMMA GiveKeeps ==
  ASSUME Inv, program \in DOMAIN Claims, Orderly, NEW t, Running(t), UNCHANGED <<program, code>>,
         NEW p, pc' = [pc EXCEPT ![t] = p], Alike(t, p, pc[t] + 1),
         NEW l \in Claimed.held[t][pc[t]], Claimed.held[t][pc[t] + 1] = Claimed.held[t][pc[t]] \ {l},
         t = "main" => /\ Claimed.started[pc[t] + 1] = Claimed.started[pc[t]]
                       /\ Claimed.active[pc[t] + 1] = Claimed.active[pc[t]],
         \A u \in Crew, d \in Claimed.plain : Kn(u, d) => Kn(u, d)',
         \A m \in Monitors(Claimed), d \in Claimed.plain : m # l /\ Tl(m, d) => Tl(m, d)',
         \A d \in Claimed.plain : Kn(t, d) => Tl(l, d)',
         Now(l)' = 0, \A m \in Monitors(Claimed) : m # l => Now(m)' = Now(m)
  PROVE  Orderly'
  <1>1. /\ InPlace' /\ Claimed' = Claimed /\ AtWork' = AtWork
        /\ Held' = [Held EXCEPT ![t] = Claimed.held[t][p]]
    <2>1. /\ t \in Crew /\ pc[t] \in 1 .. Len(code[t]) /\ InPlace /\ p \in DOMAIN Claimed.held[t]
          /\ t = "main" => Claimed.started[p] = Claimed.started[pc[t]] /\ Claimed.active[p] = Claimed.active[pc[t]]
      BY HeldHere DEF Alike
    <2> QED
      BY <2>1, MoveStays
  <1>2. Held' = [Held EXCEPT ![t] = Held[t] \ {l}] /\ l \in Held[t]
    <2>1. Claimed.held[t][p] = Held[t] \ {l} /\ l \in Held[t]
      BY HeldHere DEF Alike
    <2> QED
      BY <1>1, <2>1
  <1>3. l \in Monitors(Claimed)
    BY <1>2, HeldHere DEF LocksRight
  <1>4. Known \subseteq Known'
    BY KnowledgeGrows
  <1>5. /\ \A d \in Claimed.plain : <<t, d>> \in Known => <<l, d>> \in Told'
        /\ \A m \in Monitors(Claimed) : \A d \in Claimed.plain : m # l /\ <<m, d>> \in Told => <<m, d>> \in Told'
        /\ Settings' = [Settings EXCEPT ![l] = 0]
    BY <1>3, KnowledgeIs, HeldHere
  <1>6. Giving(Claimed, Crew, Held, AtWork, Settings, Known, Told, t, l, Known', Told')
    BY <1>2, <1>4, <1>5, HeldHere DEF Giving
  <1>7. LocksRight(Claimed, Held', AtWork, Settings') /\ OwnersKnow(Claimed, Held', AtWork, Known', Told')
    BY <1>2, <1>5, <1>6, GivingKeeps
  <1> QED
    BY <1>1, <1>7 DEF Orderly

(* At a place of the claim an owner is an owner.                           *)
LEMMA OwnerHere ==
  ASSUME Inv, program \in DOMAIN Claims, Orderly, NEW t, Running(t), NEW d \in Claimed.plain,
         Owns(Claimed, t, pc[t], d)
  PROVE  Owner(Claimed, Held, AtWork, t, d) /\ Kn(t, d)
  <1>1. Owner(Claimed, Held, AtWork, t, d)
    <2>1. CASE t = "main"
      BY <2>1, HeldHere DEF Owns, Owner, AtWork
    <2>2. CASE t # "main"
      BY <2>2, HeldHere, RunsAtWork DEF Owns, Owner
    <2> QED
      BY <2>1, <2>2
  <1>2. <<t, d>> \in Known
    <2>1. /\ t \in Crew /\ DOMAIN Held = Crew /\ Sound(Claimed, Crew)
          /\ LocksRight(Claimed, Held, AtWork, Settings) /\ OwnersKnow(Claimed, Held, AtWork, Known, Told)
      BY HeldHere
    <2> QED
      BY <1>1, <2>1, OwnerKnows
  <1> QED
    BY <1>1, <1>2, HeldHere DEF Known, Knows, Kn, UpTo, M!Last, M!Misses

(* A step of the owner of d that reads or writes it.                       *)
LEMMA OwnKeeps ==
  ASSUME Inv, program \in DOMAIN Claims, Orderly, NEW t, Running(t), UNCHANGED <<program, code>>,
         NEW p, pc' = [pc EXCEPT ![t] = p], Alike(t, p, pc[t]),
         NEW d \in Claimed.plain, Owns(Claimed, t, pc[t], d), Kn(t, d)',
         \A u \in Crew, e \in Claimed.plain : e # d /\ Kn(u, e) => Kn(u, e)',
         \A m \in Monitors(Claimed), e \in Claimed.plain : e # d /\ Tl(m, e) => Tl(m, e)',
         \A m \in Monitors(Claimed) : Now(m)' = Now(m)
  PROVE  Orderly'
  <1>1. /\ InPlace' /\ Claimed' = Claimed /\ AtWork' = AtWork
        /\ Held' = [Held EXCEPT ![t] = Claimed.held[t][p]]
    <2>1. /\ t \in Crew /\ pc[t] \in 1 .. Len(code[t]) /\ InPlace /\ p \in DOMAIN Claimed.held[t]
          /\ t = "main" => Claimed.started[p] = Claimed.started[pc[t]] /\ Claimed.active[p] = Claimed.active[pc[t]]
      BY HeldHere DEF Alike
    <2> QED
      BY <2>1, MoveStays
  <1>2. Held' = Held
    BY <1>1, HeldHere DEF Alike
  <1>3. Settings' = Settings
    BY KnowledgeGrows
  <1>4. /\ <<t, d>> \in Known'
        /\ \A u \in Crew, e \in Claimed.plain : e # d /\ <<u, e>> \in Known => <<u, e>> \in Known'
        /\ \A m \in Monitors(Claimed), e \in Claimed.plain : e # d /\ <<m, e>> \in Told => <<m, e>> \in Told'
    BY KnowledgeIs, HeldHere
  <1>5. OwnersKnow(Claimed, Held, AtWork, Known', Told')
    <2>1. /\ t \in Crew /\ DOMAIN Held = Crew /\ Sound(Claimed, Crew)
          /\ LocksRight(Claimed, Held, AtWork, Settings) /\ OwnersKnow(Claimed, Held, AtWork, Known, Told)
      BY HeldHere
    <2>2. Owner(Claimed, Held, AtWork, t, d)
      BY OwnerHere
    <2> QED
      BY <1>4, <2>1, <2>2, AccessKeeps
  <1> QED
    BY <1>1, <1>2, <1>3, <1>5, HeldHere DEF Orderly
-----------------------------------------------------------------------------
(* Every action of a program that keeps its claim keeps it orderly.        *)
Keeping == Inv /\ program \in DOMAIN Claims /\ ~raced /\ Orderly

(* Where a step leads, ...                                                 *)
LEMMA Ahead ==
  ASSUME Keeping, NEW t, Running(t), NEW d \in Int, NEW r \in Registers, NEW v \in Int, StepTo(t, d, r, v),
         pc[t] + d \in {pc[t]} \cup Targets(code[t][pc[t]], pc[t])
  PROVE  /\ UNCHANGED <<program, code>> /\ pc' = [pc EXCEPT ![t] = pc'[t]]
         /\ Alike(t, pc'[t], pc[t] + d) /\ pc[t] + d \in DOMAIN Claimed.held[t]
  <1>1. ThreadsOK /\ t \in Crew /\ pc[t] \in 1 .. Len(code[t]) /\ pc[t] \in DOMAIN Claimed.held[t]
    BY HeldHere DEF Keeping, Inv
  <1>2. Targets(code[t][pc[t]], pc[t]) \subseteq DOMAIN Claimed.held[t]
    BY <1>1, PlaceKept DEF Keeping
  <1>3. pc[t] + d \in DOMAIN Claimed.held[t]
    BY <1>1, <1>2
  <1> QED
    BY <1>1, <1>3, StepStays DEF Keeping

(* ... and where it leads when it has nothing to do with mutexes or        *)
(* threads.                                                                *)
LEMMA AheadAlike ==
  ASSUME Keeping, NEW t, Running(t), NEW d \in Int, NEW r \in Registers, NEW v \in Int, StepTo(t, d, r, v),
         pc[t] + d \in {pc[t]} \cup Targets(code[t][pc[t]], pc[t]),
         \/ code[t][pc[t]].op \notin {"store", "update", "sleep", "start", "join"}
         \/ code[t][pc[t]].op \in {"store", "update", "sleep"} /\ code[t][pc[t]].at \notin Monitors(Claimed)
  PROVE  /\ UNCHANGED <<program, code>> /\ pc' = [pc EXCEPT ![t] = pc'[t]]
         /\ Alike(t, pc'[t], pc[t])
  <1>1. ThreadsOK /\ t \in Crew /\ pc[t] \in 1 .. Len(code[t]) /\ pc[t] \in DOMAIN Claimed.held[t]
    BY HeldHere DEF Keeping, Inv
  <1>2. \A q \in Targets(code[t][pc[t]], pc[t]) : Alike(t, q, pc[t])
    BY <1>1, NeutralPlace DEF Keeping
  <1>3. Alike(t, pc[t] + d, pc[t])
    BY <1>1, <1>2 DEF Alike
  <1>4. /\ UNCHANGED <<program, code>> /\ pc' = [pc EXCEPT ![t] = pc'[t]]
        /\ Alike(t, pc'[t], pc[t] + d)
    BY Ahead
  <1> QED
    BY <1>3, <1>4 DEF Alike

(* The next place is a target of all but jumps and exits.                  *)
LEMMA NextTarget ==
  ASSUME NEW t, code[t][pc[t]].op \notin {"ifin", "exit"}
  PROVE  /\ pc[t] + 1 \in {pc[t]} \cup Targets(code[t][pc[t]], pc[t])
         /\ 1 \in Int /\ 0 \in Int /\ "zero" \in Registers
  BY GoesOn DEF Registers

(* A write to a location that is neither a variable nor a mutex.           *)
LEMMA WriteAside ==
  ASSUME Keeping, NEW t, Running(t), UNCHANGED <<program, code>>,
         NEW p, pc' = [pc EXCEPT ![t] = p], Alike(t, p, pc[t]),
         NEW l \in Locations, l \notin Claimed.plain, l \notin Monitors(Claimed),
         \A u \in Crew, d \in Locations : d # l /\ Kn(u, d) => Kn(u, d)',
         \A k \in Locations, d \in Locations : k # l /\ d # l /\ Tl(k, d) => Tl(k, d)',
         \A k \in Locations : k # l => Now(k)' = Now(k)
  PROVE  Orderly'
  <1>1. Claimed.plain \subseteq Locations /\ Monitors(Claimed) \subseteq Locations
    BY ClaimKept DEF Keeping, Inv
  <1>2. /\ \A u \in Crew, d \in Claimed.plain : Kn(u, d) => Kn(u, d)'
        /\ \A m \in Monitors(Claimed), d \in Claimed.plain : Tl(m, d) => Tl(m, d)'
        /\ \A m \in Monitors(Claimed) : Now(m)' = Now(m)
    BY <1>1
  <1> QED
    BY <1>2, NeutralKeeps DEF Keeping

(* A write to a mutex takes it or gives it back.                           *)
LEMMA ChangesHands ==
  ASSUME Keeping, NEW t, Running(t), UNCHANGED <<program, code>>,
         NEW p, pc' = [pc EXCEPT ![t] = p], Alike(t, p, pc[t] + 1),
         NEW ins, ins = code[t][pc[t]], ins.op \in {"store", "update", "sleep"},
         NEW l \in Monitors(Claimed), ins.at = l,
         \A u \in Crew, d \in Locations : d # l /\ Kn(u, d) => Kn(u, d)',
         \A k \in Locations, d \in Locations : k # l /\ d # l /\ Tl(k, d) => Tl(k, d)',
         \A k \in Locations : k # l => Now(k)' = Now(k),
         \A w \in Int : Takes(ins, w) => /\ Now(l) # w /\ Now(l)' = Now(l) + w
                                         /\ \A d \in Locations : d # l /\ Tl(l, d) => Kn(t, d)',
         \A w \in Int : Gives(ins, w) => /\ Now(l) = w => Now(l)' = 0
                                         /\ \A d \in Locations : d # l /\ Kn(t, d) => Tl(l, d)'
  PROVE  Orderly'
  <1>0. PICK w : w = Claimed.weight[l]
    OBVIOUS
  <1>1. /\ Claimed.plain \subseteq Locations /\ Monitors(Claimed) \subseteq Locations \ Claimed.plain
        /\ w \in Int
    BY <1>0, ClaimKept DEF Keeping, Inv, Sound
  <1>2. /\ \A u \in Crew, d \in Claimed.plain : Kn(u, d) => Kn(u, d)'
        /\ \A m \in Monitors(Claimed), d \in Claimed.plain : m # l /\ Tl(m, d) => Tl(m, d)'
        /\ \A m \in Monitors(Claimed) : m # l => Now(m)' = Now(m)
    BY <1>1
  <1>3. ThreadsOK /\ t \in Crew /\ pc[t] \in 1 .. Len(code[t]) /\ pc[t] \in DOMAIN Claimed.held[t]
    BY HeldHere DEF Keeping, Inv
  <1>4. /\ Targets(ins, pc[t]) \subseteq DOMAIN Claimed.held[t]
        /\ HoldsRight(Claimed, t, pc[t], ins)
        /\ t = "main" => CountsRight(Claimed, pc[t], ins)
    BY <1>3, PlaceKept DEF Keeping
  <1>5. pc[t] + 1 \in DOMAIN Claimed.held[t] /\ pc[t] + 1 \in Targets(ins, pc[t])
    BY <1>4, GoesOn
  <1>6. t = "main" => /\ Claimed.started[pc[t] + 1] = Claimed.started[pc[t]]
                      /\ Claimed.active[pc[t] + 1] = Claimed.active[pc[t]]
    BY <1>4, <1>5 DEF CountsRight
  <1>7. Now(l) \in {0, w} /\ (l \in Claimed.held[t][pc[t]] => Now(l) = w)
    <2>1. Settings[l] = Now(l)
      BY DEF Settings, Now, M!Last
    <2> QED
      BY <1>0, <2>1, HeldHere DEF Keeping, LocksRight
  <1>8. \/ /\ Takes(ins, w)
           /\ Claimed.held[t][pc[t] + 1] = Claimed.held[t][pc[t]] \cup {l}
        \/ /\ Gives(ins, w)
           /\ l \in Claimed.held[t][pc[t]] /\ Claimed.held[t][pc[t] + 1] = Claimed.held[t][pc[t]] \ {l}
    BY <1>0, <1>4 DEF HoldsRight
  <1>9. CASE /\ Takes(ins, w)
             /\ Claimed.held[t][pc[t] + 1] = Claimed.held[t][pc[t]] \cup {l}
    <2>1. Now(l) = 0 /\ Now(l)' = w
      BY <1>1, <1>7, <1>9
    <2>2. \A d \in Claimed.plain : Tl(l, d) => Kn(t, d)'
      BY <1>1, <1>9
    <2> QED
      BY <1>0, <1>2, <1>5, <1>6, <1>9, <2>1, <2>2, TakeKeeps, ZenonT(40) DEF Keeping
  <1>10. CASE /\ Gives(ins, w)
              /\ l \in Claimed.held[t][pc[t]] /\ Claimed.held[t][pc[t] + 1] = Claimed.held[t][pc[t]] \ {l}
    <2>1. Now(l)' = 0
      BY <1>1, <1>7, <1>10
    <2>2. \A d \in Claimed.plain : Kn(t, d) => Tl(l, d)'
      BY <1>1, <1>10
    <2> QED
      BY <1>2, <1>5, <1>6, <1>10, <2>1, <2>2, GiveKeeps DEF Keeping
  <1> QED
    BY <1>8, <1>9, <1>10

(* An atomic load reads no plain variable, and teaches only more.          *)
LEMMA LoadsOrderly ==
  ASSUME Keeping, NEW t, NEW i, Loads(t, i) \/ FailsToExchange(t, i)
  PROVE  Orderly' /\ ~raced'
  <1> DEFINE ins == code[t][pc[t]]
             v == mem[ins.at][i].val
             d == IF ins.op = "cas" /\ v = reg[t][ins.expected] THEN 0 ELSE IF ins.op = "cas" THEN ins.by ELSE 1
             r == IF ins.op = "cas" THEN ins.expected ELSE ins.to
             o == IF ins.op = "cas" THEN "relaxed" ELSE ins.ord
  <1>1. /\ Running(t) /\ ins.op \in {"load", "cas"}
        /\ M!Load(t, ins.at, i, o) /\ StepTo(t, d, r, v)
    BY DEF Loads, FailsToExchange, At
  <1>2. /\ t \in Crew /\ ins \in InstructionSet(Locations, Crew) /\ UNCHANGED program
        /\ MemOK /\ ThreadsOK
        /\ pc[t] \in 1 .. Len(code[t]) /\ pc[t] \in DOMAIN Claimed.held[t]
    BY <1>1, Current, HeldHere DEF Inv, StepTo, Keeping
  <1>3. ins.at \notin Claimed.plain
    BY <1>1, <1>2, PlaceKept DEF Keeping
  <1>4. /\ ins.at \in Locations /\ r \in Registers /\ d \in Int
        /\ pc[t] + d \in {pc[t]} \cup Targets(ins, pc[t])
    <2>1. ins.at \in Locations /\ (ins.op = "cas" => ins.expected \in Registers /\ ins.by \in Int)
          /\ (ins.op = "load" => ins.to \in Registers)
      <3> HIDE DEF ins
      <3> QED
        BY <1>1, <1>2, InstructionFields
    <2> HIDE DEF ins, v
    <2>2. CASE ins.op = "load"
      BY <1>2, <2>1, <2>2, GoesOn
    <2>3. CASE ins.op = "cas"
      BY <1>2, <2>1, <2>3 DEF Targets
    <2> QED
      BY <1>1, <2>2, <2>3
  <1> HIDE DEF ins, d, r, o
  <1>5. /\ mem' = mem /\ raced' = raced
        /\ \A u \in Crew, e \in Locations : e # ins.at /\ Kn(u, e) => Kn(u, e)'
        /\ i \in 1 .. Len(mem[ins.at])
    BY <1>1, <1>2, <1>4, LoadLearns, LoadKeeps
  <1>6. v \in Int
    BY <1>2, <1>4, <1>5, MessageThere
  <1> HIDE DEF v
  <1>7. /\ UNCHANGED <<program, code>> /\ pc' = [pc EXCEPT ![t] = pc'[t]] /\ Alike(t, pc'[t], pc[t])
    <2>1. code[t][pc[t]].op \in {"load", "cas"}
      BY <1>1 DEF ins
    <2>2. pc[t] + d \in {pc[t]} \cup Targets(code[t][pc[t]], pc[t])
      BY <1>4 DEF ins
    <2> QED
      BY <1>1, <1>4, <1>6, <2>1, <2>2, AheadAlike
  <1>8. /\ \A u \in Crew, e \in Claimed.plain : Kn(u, e) => Kn(u, e)'
        /\ \A m \in Monitors(Claimed), e \in Claimed.plain : Tl(m, e) => Tl(m, e)'
        /\ \A m \in Monitors(Claimed) : Now(m)' = Now(m)
    <2>1. Claimed.plain \subseteq Locations
      BY <1>2, ClaimKept DEF Keeping
    <2>2. \A m, e : Tl(m, e)' <=> Tl(m, e)
      BY <1>5 DEF Tl
    <2>3. \A m : Now(m)' = Now(m)
      BY <1>5 DEF Now
    <2> QED
      BY <1>3, <1>5, <2>1, <2>2, <2>3
  <1>9. Orderly'
    BY <1>1, <1>7, <1>8, NeutralKeeps DEF Keeping
  <1> QED
    BY <1>5, <1>9 DEF Keeping
-----------------------------------------------------------------------------
(* A write to a location that is no plain variable.                        *)
LEMMA AtomicWrite ==
  ASSUME Keeping, NEW t, Running(t), UNCHANGED <<program, code>>,
         NEW p, pc' = [pc EXCEPT ![t] = p], Alike(t, p, pc[t] + 1),
         NEW ins, ins = code[t][pc[t]], ins.op \in {"store", "update", "sleep"},
         NEW l \in Locations, ins.at = l,
         \A u \in Crew, d \in Locations : d # l /\ Kn(u, d) => Kn(u, d)',
         \A k \in Locations, d \in Locations : k # l /\ d # l /\ Tl(k, d) => Tl(k, d)',
         \A k \in Locations : k # l => Now(k)' = Now(k),
         \A w \in Int : Takes(ins, w) => /\ Now(l) # w /\ Now(l)' = Now(l) + w
                                         /\ \A d \in Locations : d # l /\ Tl(l, d) => Kn(t, d)',
         \A w \in Int : Gives(ins, w) => /\ Now(l) = w => Now(l)' = 0
                                         /\ \A d \in Locations : d # l /\ Kn(t, d) => Tl(l, d)'
  PROVE  Orderly'
  <1>1. ThreadsOK /\ t \in Crew /\ pc[t] \in 1 .. Len(code[t]) /\ pc[t] \in DOMAIN Claimed.held[t]
    BY HeldHere DEF Keeping, Inv
  <1>2. CASE l \in Monitors(Claimed)
    BY <1>2, ChangesHands
  <1>3. CASE l \notin Monitors(Claimed)
    <2>1. code[t][pc[t]].op \in {"store", "update", "sleep"} /\ code[t][pc[t]].at \notin Monitors(Claimed)
      BY <1>3
    <2>2. \A q \in Targets(code[t][pc[t]], pc[t]) : Alike(t, q, pc[t])
      BY <1>1, <2>1, NeutralPlace DEF Keeping
    <2>3. Alike(t, pc[t] + 1, pc[t])
      BY <2>1, <2>2, GoesOn
    <2>4. Alike(t, p, pc[t])
      BY <2>3 DEF Alike
    <2>5. l \notin Claimed.plain
      BY <1>1, <2>1, PlaceKept DEF Keeping
    <2> QED
      BY <1>3, <2>4, <2>5, WriteAside
  <1> QED
    BY <1>2, <1>3

(* The value 0.                                                            *)
LEMMA ZeroIs ==
  ASSUME NEW t, reg[t] \in [Registers -> Int], Zeroed(reg[t])
  PROVE  Value(t, K(0)) = 0
  <1>1. K(0) = [k |-> 0, m |-> 1, a |-> "zero", b |-> "zero"]
    BY DEF K, Plus, R, Sum2
  <1>2. reg[t]["zero"] = 0
    BY DEF Zeroed
  <1> QED
    BY <1>1, <1>2 DEF Value, Of

(* A store unlocks a mutex of the claim, or is to no such location.        *)
LEMMA StoresOrderly ==
  ASSUME Keeping, NEW t, Stores(t)
  PROVE  Orderly' /\ ~raced'
  <1> DEFINE ins == code[t][pc[t]]
             v == Value(t, ins.val)
  <1>1. /\ Running(t) /\ ins.op = "store"
        /\ M!Store(t, ins.at, v, ins.ord) /\ StepTo(t, 1, "zero", 0)
    BY DEF Stores, At, Step
  <1>2. /\ t \in Crew /\ ins \in InstructionSet(Locations, Crew) /\ UNCHANGED program
        /\ MemOK /\ reg[t] \in [Registers -> Int] /\ Zeroed(reg[t])
    BY <1>1, Current DEF Inv, StepTo, Keeping, ThreadsOK
  <1>3. /\ UNCHANGED <<program, code>> /\ pc' = [pc EXCEPT ![t] = pc'[t]]
        /\ Alike(t, pc'[t], pc[t] + 1)
    BY <1>1, NextTarget, Ahead
  <1>4. PICK i : i = ins
    OBVIOUS
  <1>5. i.at \in Locations /\ i.val \in Values
    <2>1. i \in InstructionSet(Locations, Crew) /\ i.op = "store"
      BY <1>1, <1>2, <1>4
    <2> QED
      BY <2>1, InstructionFields
  <1>6. v \in Int /\ (i.val = K(0) => v = 0)
    BY <1>2, <1>4, <1>5, ValueOf, ZeroIs DEF Value
  <1> HIDE DEF v
  <1>7. M!Store(t, i.at, v, i.ord) /\ i.op = "store" /\ i = code[t][pc[t]]
    BY <1>1, <1>4
  <1> HIDE DEF ins
  <1>8. /\ raced' = raced
        /\ \A u \in Crew, d \in Locations : d # i.at /\ Kn(u, d) => Kn(u, d)'
        /\ \A k \in Locations, d \in Locations : k # i.at /\ d # i.at /\ Tl(k, d) => Tl(k, d)'
        /\ Now(i.at)' = v /\ \A k \in Locations : k # i.at => Now(k)' = Now(k)
        /\ i.ord \in M!Releases => \A d \in Locations : d # i.at /\ Kn(t, d) => Tl(i.at, d)'
    BY <1>2, <1>5, <1>6, <1>7, StoreLearns
  <1>9. /\ \A w \in Int : ~Takes(i, w)
        /\ \A w \in Int : Gives(i, w) => i.ord \in M!Releases /\ i.val = K(0)
    BY <1>7 DEF Takes, Gives
  <1>10. \A w \in Int : Takes(i, w) => /\ Now(i.at) # w /\ Now(i.at)' = Now(i.at) + w
                                       /\ \A d \in Locations : d # i.at /\ Tl(i.at, d) => Kn(t, d)'
    BY <1>9
  <1>11. \A w \in Int : Gives(i, w) => /\ Now(i.at) = w => Now(i.at)' = 0
                                       /\ \A d \in Locations : d # i.at /\ Kn(t, d) => Tl(i.at, d)'
    BY <1>6, <1>8, <1>9
  <1>12. Orderly'
    BY <1>1, <1>3, <1>5, <1>7, <1>8, <1>10, <1>11, AtomicWrite
  <1> QED
    BY <1>8, <1>12, Zenon DEF Keeping

(* A read-modify-write locks or unlocks, or is to no such location.        *)
LEMMA UpdatesOrderly ==
  ASSUME Keeping, NEW t, Updates(t)
  PROVE  Orderly' /\ ~raced'
  <1> DEFINE ins == code[t][pc[t]]
             old == mem[ins.at][M!Last(ins.at)].val
  <1>1. /\ Running(t) /\ ins.op = "update" /\ old \in ins.only
        /\ M!Update(t, ins.at, old + ins.add, ins.ord) /\ StepTo(t, 1, ins.to, old)
    BY DEF Updates, At
  <1>2. /\ t \in Crew /\ ins \in InstructionSet(Locations, Crew) /\ UNCHANGED program
        /\ MemOK
    BY <1>1, Current DEF Inv, StepTo, Keeping
  <1>3. PICK i : i = ins
    OBVIOUS
  <1>4. i.at \in Locations /\ i.to \in Registers /\ i.add \in Int
    <2>1. i \in InstructionSet(Locations, Crew) /\ i.op = "update"
      BY <1>1, <1>2, <1>3
    <2> QED
      BY <2>1, InstructionFields
  <1>5. old \in Int /\ old = Now(i.at)
    BY <1>2, <1>3, <1>4, LastThere DEF Now, M!Last
  <1> HIDE DEF old
  <1>6. /\ UNCHANGED <<program, code>> /\ pc' = [pc EXCEPT ![t] = pc'[t]]
        /\ Alike(t, pc'[t], pc[t] + 1)
    <2>1. i.to \in Registers /\ StepTo(t, 1, i.to, old)
      BY <1>1, <1>3, <1>4
    <2>2. pc[t] + 1 \in {pc[t]} \cup Targets(code[t][pc[t]], pc[t])
      BY <1>1, NextTarget
    <2> HIDE DEF ins
    <2> QED
      BY <1>1, <1>5, <2>1, <2>2, NextTarget, Ahead
  <1>7. M!Update(t, i.at, old + i.add, i.ord) /\ i.op = "update" /\ old \in i.only /\ i = code[t][pc[t]]
    BY <1>1, <1>3
  <1> HIDE DEF ins
  <1>8. /\ raced' = raced
        /\ \A u \in Crew, d \in Locations : d # i.at /\ Kn(u, d) => Kn(u, d)'
        /\ \A k \in Locations, d \in Locations : k # i.at /\ d # i.at /\ Tl(k, d) => Tl(k, d)'
        /\ Now(i.at)' = old + i.add /\ \A k \in Locations : k # i.at => Now(k)' = Now(k)
        /\ i.ord \in M!Releases => \A d \in Locations : d # i.at /\ Kn(t, d) => Tl(i.at, d)'
        /\ i.ord \in M!Acquires => \A d \in Locations : d # i.at /\ Tl(i.at, d) => Kn(t, d)'
    <2>1. old + i.add \in Int
      BY <1>4, <1>5
    <2> QED
      BY <1>2, <1>4, <1>7, <2>1, UpdateLearns
  <1>9. /\ \A w \in Int : Takes(i, w) => i.ord \in M!Acquires /\ i.add = w /\ old # w
        /\ \A w \in Int : Gives(i, w) => i.ord \in M!Releases /\ i.add = -w
    BY <1>7 DEF Takes, Gives
  <1>10. \A w \in Int : Takes(i, w) => /\ Now(i.at) # w /\ Now(i.at)' = Now(i.at) + w
                                       /\ \A d \in Locations : d # i.at /\ Tl(i.at, d) => Kn(t, d)'
    BY <1>5, <1>8, <1>9
  <1>11. \A w \in Int : Gives(i, w) => /\ Now(i.at) = w => Now(i.at)' = 0
                                       /\ \A d \in Locations : d # i.at /\ Kn(t, d) => Tl(i.at, d)'
    <2> TAKE w \in Int
    <2>1. w + (-w) = 0
      OBVIOUS
    <2> QED
      BY <1>5, <1>8, <1>9, <2>1
  <1>12. Orderly'
    BY <1>1, <1>4, <1>6, <1>7, <1>8, <1>10, <1>11, AtomicWrite
  <1> QED
    BY <1>8, <1>12, Zenon DEF Keeping

(* Going to sleep gives back.                                              *)
LEMMA SleepsOrderly ==
  ASSUME Keeping, NEW t, Sleeps(t)
  PROVE  Orderly' /\ ~raced'
  <1> DEFINE ins == code[t][pc[t]]
             old == mem[ins.at][M!Last(ins.at)].val
  <1>1. /\ Running(t) /\ ins.op = "sleep"
        /\ M!Update(t, ins.at, old + ins.add, "release")
        /\ pc' = [pc EXCEPT ![t] = pc[t] + 1]
        /\ UNCHANGED <<program, code>>
    BY DEF Sleeps, At
  <1>2. /\ t \in Crew /\ ins \in InstructionSet(Locations, Crew) /\ MemOK /\ ThreadsOK
        /\ pc[t] \in 1 .. Len(code[t]) /\ pc[t] \in DOMAIN Claimed.held[t]
    BY <1>1, Current, HeldHere DEF Inv, Keeping
  <1>3. PICK i : i = ins
    OBVIOUS
  <1>4. i.at \in Locations /\ i.add \in Int
    <2>1. i \in InstructionSet(Locations, Crew) /\ i.op = "sleep"
      BY <1>1, <1>2, <1>3
    <2> QED
      BY <2>1, InstructionFields
  <1>5. old \in Int /\ old = Now(i.at)
    BY <1>2, <1>3, <1>4, LastThere DEF Now, M!Last
  <1> HIDE DEF old
  <1>6. Alike(t, pc[t] + 1, pc[t] + 1)
    BY <1>1, <1>2, PlaceKept, GoesOn DEF Alike, Keeping
  <1>7. M!Update(t, i.at, old + i.add, "release") /\ i.op = "sleep" /\ i = code[t][pc[t]]
    BY <1>1, <1>3
  <1> HIDE DEF ins
  <1>8. /\ raced' = raced
        /\ \A u \in Crew, d \in Locations : d # i.at /\ Kn(u, d) => Kn(u, d)'
        /\ \A k \in Locations, d \in Locations : k # i.at /\ d # i.at /\ Tl(k, d) => Tl(k, d)'
        /\ Now(i.at)' = old + i.add /\ \A k \in Locations : k # i.at => Now(k)' = Now(k)
        /\ "release" \in M!Releases => \A d \in Locations : d # i.at /\ Kn(t, d) => Tl(i.at, d)'
    <2>1. old + i.add \in Int /\ UNCHANGED program
      BY <1>1, <1>4, <1>5
    <2> QED
      BY <1>2, <1>4, <1>7, <2>1, UpdateLearns
  <1>9. /\ \A w \in Int : ~Takes(i, w)
        /\ \A w \in Int : Gives(i, w) => i.add = -w
        /\ "release" \in M!Releases
    BY <1>7 DEF Takes, Gives, M!Releases
  <1>10. \A w \in Int : Gives(i, w) => /\ Now(i.at) = w => Now(i.at)' = 0
                                       /\ \A d \in Locations : d # i.at /\ Kn(t, d) => Tl(i.at, d)'
    <2> TAKE w \in Int
    <2>1. w + (-w) = 0
      OBVIOUS
    <2> QED
      BY <1>5, <1>8, <1>9, <2>1
  <1>11. Orderly'
    BY <1>1, <1>4, <1>6, <1>7, <1>8, <1>9, <1>10, AtomicWrite
  <1> QED
    BY <1>8, <1>11, Zenon DEF Keeping
-----------------------------------------------------------------------------
(* A program that keeps its claim has no fences, nor pointers to plain     *)
(* objects.                                                                *)
LEMMA NotThere ==
  ASSUME Keeping, NEW t, Fenced(t) \/ ReadsObject(t) \/ Assigns(t)
  PROVE  FALSE
  <1>1. Running(t) /\ code[t][pc[t]].op \in {"fence", "deref", "assign"}
    BY DEF Fenced, ReadsObject, Assigns, At
  <1>2. ThreadsOK /\ t \in Crew /\ pc[t] \in 1 .. Len(code[t]) /\ pc[t] \in DOMAIN Claimed.held[t]
    BY <1>1, HeldHere DEF Keeping, Inv
  <1> QED
    BY <1>1, <1>2, PlaceKept DEF Keeping

(* A pointer goes where the claim has neither data nor mutex.              *)
LEMMA PublishesOrderly ==
  ASSUME Keeping, NEW t, Publishes(t)
  PROVE  Orderly' /\ ~raced'
  <1> DEFINE ins == code[t][pc[t]]
             v == Value(t, ins.val)
             p == Value(t, ins.ptr)
  <1>1. /\ Running(t) /\ ins.op = "publish" /\ Valid(p)
        /\ M!Store(t, Object[p], v, ins.ord) /\ StepTo(t, 1, "zero", 0)
    BY DEF Publishes, At, Step
  <1>2. /\ t \in Crew /\ ins \in InstructionSet(Locations, Crew) /\ UNCHANGED program
        /\ MemOK /\ reg[t] \in [Registers -> Int] /\ ThreadsOK /\ DOMAIN mem = Locations
        /\ pc[t] \in 1 .. Len(code[t]) /\ pc[t] \in DOMAIN Claimed.held[t]
    BY <1>1, Current, HeldHere DEF Inv, StepTo, Keeping, MemOK, MemTyped
  <1>3. PICK l : l = Object[p]
    OBVIOUS
  <1>4. l \in Locations /\ l \notin Claimed.plain /\ l \notin Monitors(Claimed)
    BY <1>1, <1>2, <1>3, PlaceKept DEF Keeping, Valid
  <1>5. ins.val \in Values
    <2> HIDE DEF ins
    <2> QED
      BY <1>1, <1>2, InstructionFields
  <1>6. v \in Int
    BY <1>2, <1>5, ValueOf DEF Value
  <1>7. /\ UNCHANGED <<program, code>> /\ pc' = [pc EXCEPT ![t] = pc'[t]]
        /\ Alike(t, pc'[t], pc[t])
    <2>1. code[t][pc[t]].op \notin {"store", "update", "sleep", "start", "join"}
      BY <1>1
    <2> QED
      BY <1>1, <2>1, NextTarget, AheadAlike
  <1>8. M!Store(t, l, v, ins.ord)
    BY <1>1, <1>3
  <1> HIDE DEF v, ins
  <1>9. /\ raced' = raced
        /\ \A u \in Crew, d \in Locations : d # l /\ Kn(u, d) => Kn(u, d)'
        /\ \A k \in Locations, d \in Locations : k # l /\ d # l /\ Tl(k, d) => Tl(k, d)'
        /\ \A k \in Locations : k # l => Now(k)' = Now(k)
    BY <1>2, <1>4, <1>6, <1>8, StoreLearns
  <1>10. Orderly'
    BY <1>1, <1>4, <1>7, <1>9, WriteAside
  <1> QED
    BY <1>9, <1>10, Zenon DEF Keeping

(* A compare-exchange, which the claim allows on other locations only.     *)
LEMMA ExchangesOrderly ==
  ASSUME Keeping, NEW t, Exchanges(t)
  PROVE  Orderly' /\ ~raced'
  <1> DEFINE ins == code[t][pc[t]]
             v == Value(t, ins.val)
  <1>1. /\ Running(t) /\ ins.op = "cas"
        /\ M!Update(t, ins.at, v, ins.ord) /\ StepTo(t, 1, "zero", 0)
    BY DEF Exchanges, At, Step
  <1>2. /\ t \in Crew /\ ins \in InstructionSet(Locations, Crew) /\ UNCHANGED program
        /\ MemOK /\ reg[t] \in [Registers -> Int] /\ ThreadsOK
        /\ pc[t] \in 1 .. Len(code[t]) /\ pc[t] \in DOMAIN Claimed.held[t]
    BY <1>1, Current, HeldHere DEF Inv, StepTo, Keeping
  <1>3. PICK l : l = ins.at
    OBVIOUS
  <1>4. l \notin Claimed.plain /\ l \notin Monitors(Claimed)
    <2>1. HoldsRight(Claimed, t, pc[t], ins) /\ ins.at \notin Claimed.plain
      BY <1>1, <1>2, PlaceKept DEF Keeping
    <2> HIDE DEF ins
    <2> QED
      BY <1>1, <1>3, <2>1 DEF HoldsRight
  <1>5. ins.val \in Values /\ l \in Locations
    <2> HIDE DEF ins
    <2> QED
      BY <1>1, <1>2, <1>3, InstructionFields
  <1>6. v \in Int
    BY <1>2, <1>5, ValueOf DEF Value
  <1>7. /\ UNCHANGED <<program, code>> /\ pc' = [pc EXCEPT ![t] = pc'[t]]
        /\ Alike(t, pc'[t], pc[t])
    <2>1. code[t][pc[t]].op \notin {"store", "update", "sleep", "start", "join"}
      BY <1>1
    <2> QED
      BY <1>1, <2>1, NextTarget, AheadAlike
  <1>8. M!Update(t, l, v, ins.ord)
    BY <1>1, <1>3
  <1> HIDE DEF v, ins
  <1>9. /\ raced' = raced
        /\ \A u \in Crew, d \in Locations : d # l /\ Kn(u, d) => Kn(u, d)'
        /\ \A k \in Locations, d \in Locations : k # l /\ d # l /\ Tl(k, d) => Tl(k, d)'
        /\ \A k \in Locations : k # l => Now(k)' = Now(k)
    BY <1>2, <1>5, <1>6, <1>8, UpdateLearns
  <1>10. Orderly'
    BY <1>1, <1>4, <1>5, <1>7, <1>9, WriteAside
  <1> QED
    BY <1>9, <1>10, Zenon DEF Keeping

(* Who reads or writes a variable owns it.                                 *)
LEMMA AccessOwned ==
  ASSUME Keeping, NEW t, Running(t), code[t][pc[t]].op \in {"read", "write"}
  PROVE  /\ t \in Crew /\ code[t][pc[t]] \in InstructionSet(Locations, Crew)
         /\ MemOK /\ reg[t] \in [Registers -> Int]
         /\ Claimed.plain \subseteq Locations /\ Monitors(Claimed) \subseteq Locations \ Claimed.plain
         /\ code[t][pc[t]].at \in Claimed.plain /\ Owns(Claimed, t, pc[t], code[t][pc[t]].at)
         /\ Kn(t, code[t][pc[t]].at)
  <1>1. /\ t \in Crew /\ code[t][pc[t]] \in InstructionSet(Locations, Crew)
        /\ MemOK /\ reg[t] \in [Registers -> Int] /\ ThreadsOK
        /\ pc[t] \in 1 .. Len(code[t]) /\ pc[t] \in DOMAIN Claimed.held[t]
    BY Current, HeldHere DEF Inv, Keeping
  <1>2. code[t][pc[t]].at \in Claimed.plain /\ Owns(Claimed, t, pc[t], code[t][pc[t]].at)
    BY <1>1, PlaceKept DEF Keeping
  <1>3. Kn(t, code[t][pc[t]].at)
    BY <1>2, OwnerHere DEF Keeping
  <1>4. Claimed.plain \subseteq Locations /\ Monitors(Claimed) \subseteq Locations \ Claimed.plain
    BY <1>1, ClaimKept DEF Keeping
  <1> QED
    BY <1>1, <1>2, <1>3, <1>4

(* The owner of a variable reads it: no race, and it knows its read.       *)
LEMMA ReadsOrderly ==
  ASSUME Keeping, NEW t, ReadsVariable(t)
  PROVE  Orderly' /\ ~raced'
  <1> DEFINE ins == code[t][pc[t]]
  <1>1. Running(t) /\ ins.op = "read"
    BY DEF ReadsVariable, At
  <1>2. PICK d : d = ins.at
    OBVIOUS
  <1>3. PICK i \in 1 .. Len(mem[d]) : M!Read(t, d, i) /\ StepTo(t, 1, ins.to, mem[d][i].val)
    BY <1>2 DEF ReadsVariable, Reads
  <1>4. PICK v : v = mem[d][i].val
    OBVIOUS
  <1>5. /\ t \in Crew /\ ins \in InstructionSet(Locations, Crew) /\ UNCHANGED program /\ MemOK
        /\ Claimed.plain \subseteq Locations /\ Monitors(Claimed) \subseteq Locations \ Claimed.plain
        /\ d \in Claimed.plain /\ Owns(Claimed, t, pc[t], d) /\ Kn(t, d)
    BY <1>1, <1>2, <1>3, AccessOwned DEF StepTo
  <1>6. d \in Locations /\ v \in Int
    BY <1>4, <1>5, MessageThere
  <1>7. ins.to \in Registers
    <2> HIDE DEF ins
    <2> QED
      BY <1>1, <1>5, InstructionFields
  <1>8. /\ UNCHANGED <<program, code>> /\ pc' = [pc EXCEPT ![t] = pc'[t]]
        /\ Alike(t, pc'[t], pc[t])
    <2>1. code[t][pc[t]].op \notin {"store", "update", "sleep", "start", "join"}
      BY <1>1
    <2>2. StepTo(t, 1, ins.to, v)
      BY <1>3, <1>4
    <2> QED
      BY <1>1, <1>6, <1>7, <2>1, <2>2, NextTarget, AheadAlike
  <1> HIDE DEF ins
  <1>9. /\ raced' <=> raced
        /\ Kn(t, d)'
        /\ \A u \in Crew, e \in Locations : e # d /\ Kn(u, e) => Kn(u, e)'
        /\ \A k \in Locations, e \in Locations : e # d /\ Tl(k, e) => Tl(k, e)'
        /\ \A k \in Locations : Now(k)' = Now(k)
    <2>1. M!Read(t, d, i)
      BY <1>3
    <2> QED
      BY <1>5, <1>6, <2>1, ReadLearns
  <1>10. Orderly'
    <2>1. /\ \A u \in Crew, e \in Claimed.plain : e # d /\ Kn(u, e) => Kn(u, e)'
          /\ \A m \in Monitors(Claimed), e \in Claimed.plain : e # d /\ Tl(m, e) => Tl(m, e)'
          /\ \A m \in Monitors(Claimed) : Now(m)' = Now(m)
      BY <1>5, <1>9
    <2> QED
      BY <1>1, <1>5, <1>8, <1>9, <2>1, OwnKeeps DEF Keeping
  <1> QED
    BY <1>9, <1>10, Zenon DEF Keeping

(* The owner of a variable writes it: no race, and it knows its write.     *)
LEMMA WritesOrderly ==
  ASSUME Keeping, NEW t, Writes(t)
  PROVE  Orderly' /\ ~raced'
  <1> DEFINE ins == code[t][pc[t]]
             v == Value(t, ins.val)
  <1>1. Running(t) /\ ins.op = "write" /\ M!Write(t, ins.at, v) /\ StepTo(t, 1, "zero", 0)
    BY DEF Writes, At, Step
  <1>2. PICK d : d = ins.at
    OBVIOUS
  <1>3. /\ t \in Crew /\ ins \in InstructionSet(Locations, Crew) /\ UNCHANGED program /\ MemOK
        /\ Claimed.plain \subseteq Locations /\ Monitors(Claimed) \subseteq Locations \ Claimed.plain
        /\ d \in Claimed.plain /\ Owns(Claimed, t, pc[t], d) /\ Kn(t, d)
        /\ reg[t] \in [Registers -> Int]
    BY <1>1, <1>2, AccessOwned DEF StepTo
  <1>4. ins.val \in Values
    <2> HIDE DEF ins
    <2> QED
      BY <1>1, <1>3, InstructionFields
  <1>5. v \in Int
    BY <1>3, <1>4, ValueOf DEF Value
  <1>6. /\ UNCHANGED <<program, code>> /\ pc' = [pc EXCEPT ![t] = pc'[t]]
        /\ Alike(t, pc'[t], pc[t])
    <2>1. code[t][pc[t]].op \notin {"store", "update", "sleep", "start", "join"}
      BY <1>1
    <2> QED
      BY <1>1, <2>1, NextTarget, AheadAlike
  <1>7. M!Write(t, d, v)
    BY <1>1, <1>2
  <1> HIDE DEF ins, v
  <1>8. /\ raced' <=> raced
        /\ Kn(t, d)'
        /\ \A u \in Crew, e \in Locations : e # d /\ Kn(u, e) => Kn(u, e)'
        /\ \A k \in Locations, e \in Locations : k # d /\ e # d /\ Tl(k, e) => Tl(k, e)'
        /\ \A k \in Locations : k # d => Now(k)' = Now(k)
    <2>1. d \in Locations
      BY <1>3
    <2> QED
      BY <1>3, <1>5, <1>7, <2>1, WriteLearns
  <1>9. Orderly'
    <2>1. /\ \A u \in Crew, e \in Claimed.plain : e # d /\ Kn(u, e) => Kn(u, e)'
          /\ \A m \in Monitors(Claimed), e \in Claimed.plain : e # d /\ Tl(m, e) => Tl(m, e)'
          /\ \A m \in Monitors(Claimed) : Now(m)' = Now(m)
      BY <1>3, <1>8
    <2> QED
      BY <1>1, <1>3, <1>6, <1>8, <2>1, OwnKeeps DEF Keeping
  <1> QED
    BY <1>8, <1>9, Zenon DEF Keeping
-----------------------------------------------------------------------------
(* What goes with a step from place p leads to a place that looks the      *)
(* same.                                                                   *)
LEMMA SettledStays ==
  ASSUME ThreadsOK, program \in DOMAIN Claims, NEW t \in Crew, NEW p \in DOMAIN Claimed.held[t],
         NEW g \in [Registers -> Int], Zeroed(g)
  PROVE  Alike(t, Settled(code[t], p, g).pc, p) /\ Settled(code[t], p, g).pc \in 1 .. Len(code[t]) + 1
  <1>1. PICK G : G = {q \in DOMAIN Claimed.held[t] : Alike(t, q, p)}
    OBVIOUS
  <1>2. G \subseteq 1 .. Len(code[t]) + 1 /\ p \in G
    BY <1>1, ClaimKept DEF Alike
  <1>3. \A k \in G : k \in 1 .. Len(code[t]) /\ code[t][k].op \in Private => Targets(code[t][k], k) \subseteq G
    <2> SUFFICES ASSUME NEW k \in G, k \in 1 .. Len(code[t]), code[t][k].op \in Private
                 PROVE  Targets(code[t][k], k) \subseteq G
      OBVIOUS
    <2>1. Alike(t, k, p)
      BY <1>1
    <2>2. \A q \in Targets(code[t][k], k) : Alike(t, q, p)
      BY <2>1, PrivateStays
    <2> QED
      BY <1>1, <2>2 DEF Alike
  <1>4. code[t] \in Seq(InstructionSet(Locations, Crew))
    BY CodeTyped
  <1>5. Settled(code[t], p, g).pc \in G
    BY <1>2, <1>3, <1>4, SettledKeeps
  <1> QED
    BY <1>1, <1>2, <1>5

(* What is known as long as the memory does not change.                    *)
LEMMA MemoryStays ==
  ASSUME UNCHANGED memory
  PROVE  /\ raced' = raced
         /\ \A u, d : Kn(u, d)' <=> Kn(u, d)
         /\ \A m, d : Tl(m, d)' <=> Tl(m, d)
         /\ \A m : Now(m)' = Now(m)
  <1>1. mem' = mem /\ cur' = cur /\ raced' = raced
    BY DEF memory
  <1> QED
    BY <1>1 DEF Kn, Tl, Now, UpTo

(* A jump leads to a place with the same owners.                           *)
LEMMA ChoosesOrderly ==
  ASSUME Keeping, NEW t, Chooses(t)
  PROVE  Orderly' /\ ~raced'
  <1> DEFINE ins == code[t][pc[t]]
  <1>1. PICK d \in {1, ins.by} : StepTo(t, d, "zero", 0)
    BY DEF Chooses
  <1>2. Running(t) /\ ins.op = "either" /\ UNCHANGED memory
    BY DEF Chooses, At
  <1>3. ins \in InstructionSet(Locations, Crew)
    BY <1>2, Current DEF Keeping, Inv
  <1>4. ins.by \in Int
    <2> HIDE DEF ins
    <2> QED
      BY <1>2, <1>3, InstructionFields
  <1>5. /\ UNCHANGED <<program, code>> /\ pc' = [pc EXCEPT ![t] = pc'[t]]
        /\ Alike(t, pc'[t], pc[t])
    <2>1. d \in Int /\ pc[t] + d \in {pc[t]} \cup Targets(code[t][pc[t]], pc[t])
      <3>1. pc[t] + 1 \in Targets(ins, pc[t]) /\ pc[t] + ins.by \in Targets(ins, pc[t])
        BY <1>2, GoesOn DEF Targets
      <3> QED
        BY <1>1, <1>4, <3>1
    <2>2. code[t][pc[t]].op \notin {"store", "update", "sleep", "start", "join"}
      BY <1>2
    <2>3. "zero" \in Registers /\ 0 \in Int
      BY DEF Registers
    <2> HIDE DEF ins
    <2> QED
      BY <1>1, <1>2, <2>1, <2>2, <2>3, AheadAlike
  <1>6. /\ raced' = raced
        /\ \A u \in Crew, e \in Claimed.plain : Kn(u, e) => Kn(u, e)'
        /\ \A m \in Monitors(Claimed), e \in Claimed.plain : Tl(m, e) => Tl(m, e)'
        /\ \A m \in Monitors(Claimed) : Now(m)' = Now(m)
    BY <1>2, MemoryStays
  <1>7. Orderly'
    BY <1>2, <1>5, <1>6, NeutralKeeps DEF Keeping
  <1> QED
    BY <1>6, <1>7, Zenon DEF Keeping

(* A notification changes nothing that is owned.                           *)
LEMMA NotifiesOrderly ==
  ASSUME Keeping, NEW t, Notifies(t)
  PROVE  Orderly' /\ ~raced'
  <1>1. PICK p : p = Settled(code[t], pc[t] + 1, reg[t]).pc
    OBVIOUS
  <1>2. /\ Running(t) /\ code[t][pc[t]].op = "notify" /\ UNCHANGED memory
        /\ pc' = [pc EXCEPT ![t] = p] /\ UNCHANGED <<program, code>>
    BY <1>1 DEF Notifies, At
  <1>3. /\ ThreadsOK /\ t \in Crew /\ reg[t] \in [Registers -> Int] /\ Zeroed(reg[t])
        /\ pc[t] \in 1 .. Len(code[t]) /\ pc[t] \in DOMAIN Claimed.held[t]
    BY <1>2, Current, HeldHere DEF Keeping, Inv, ThreadsOK
  <1>4. Alike(t, pc[t] + 1, pc[t])
    <2>1. code[t][pc[t]].op \notin {"store", "update", "sleep", "start", "join"}
      BY <1>2
    <2>2. \A q \in Targets(code[t][pc[t]], pc[t]) : Alike(t, q, pc[t])
      BY <1>3, <2>1, NeutralPlace DEF Keeping
    <2> QED
      BY <2>1, <2>2, <1>2, GoesOn
  <1>5. Alike(t, p, pc[t])
    <2>1. pc[t] + 1 \in DOMAIN Claimed.held[t]
      BY <1>4 DEF Alike
    <2>2. Alike(t, p, pc[t] + 1)
      BY <1>1, <1>3, <2>1, SettledStays DEF Keeping
    <2> QED
      BY <1>4, <2>2 DEF Alike
  <1>6. /\ raced' = raced
        /\ \A u \in Crew, e \in Claimed.plain : Kn(u, e) => Kn(u, e)'
        /\ \A m \in Monitors(Claimed), e \in Claimed.plain : Tl(m, e) => Tl(m, e)'
        /\ \A m \in Monitors(Claimed) : Now(m)' = Now(m)
    BY <1>2, MemoryStays
  <1>7. Orderly'
    BY <1>2, <1>5, <1>6, NeutralKeeps DEF Keeping
  <1> QED
    BY <1>6, <1>7, Zenon DEF Keeping

(* Waking up, and doing nothing.                                           *)
LEMMA StaysOrderly ==
  ASSUME Orderly, UNCHANGED <<program, code, pc, memory>>
  PROVE  Orderly'
  <1>1. UNCHANGED <<program, code, pc>> /\ mem' = mem /\ cur' = cur
    BY DEF memory
  <1>2. Claimed' = Claimed /\ Crew' = Crew /\ AtWork' = AtWork /\ Held' = Held /\ InPlace'
    BY <1>1, SameSets DEF Claimed, AtWork, Held, InPlace, Orderly, Ended
  <1>3. Settings' = Settings /\ Known' = Known /\ Told' = Told
    BY <1>1, <1>2 DEF Settings, Known, Told, Knows, M!Last, M!Misses
  <1> QED
    BY <1>2, <1>3 DEF Orderly

(* A join brings back what the thread owned, with what it knew.            *)
LEMMA JoinsOrderly ==
  ASSUME Keeping, NEW t, Joins(t)
  PROVE  Orderly' /\ ~raced'
  <1> DEFINE ins == code[t][pc[t]]
             k == pc[t]
  <1>1. /\ Running(t) /\ ins.op = "join" /\ Ended(ins.who)
        /\ M!JoinThread(t, ins.who) /\ StepTo(t, 1, "zero", 0)
    BY DEF Joins, At, Step
  <1>2. /\ ThreadsOK /\ MemOK /\ t \in Crew /\ ins \in InstructionSet(Locations, Crew) /\ UNCHANGED program
        /\ k \in 1 .. Len(code[t]) /\ k \in DOMAIN Claimed.held[t]
    BY <1>1, Current, HeldHere DEF Keeping, Inv, StepTo
  <1>3. /\ t = "main" /\ HoldsRight(Claimed, t, k, ins) /\ CountsRight(Claimed, k, ins)
        /\ Targets(ins, k) \subseteq DOMAIN Claimed.held[t]
    BY <1>1, <1>2, PlaceKept DEF Keeping
  <1>4. PICK u : u = ins.who
    OBVIOUS
  <1>5. u \in Crew
    <2>1. ins \in InstructionSet(Locations, Crew) /\ ins.op = "join" /\ u = ins.who
      BY <1>1, <1>2, <1>4
    <2> HIDE DEF ins
    <2> QED
      BY <2>1, InstructionFields
  <1>6. /\ Claimed.held[t][k] = {} /\ u \in Claimed.active[k]
        /\ Claimed.started[k + 1] = Claimed.started[k] /\ Claimed.active[k + 1] = Claimed.active[k] \ {u}
    <2> HIDE DEF ins
    <2> QED
      BY <1>1, <1>3, <1>4 DEF CountsRight
  <1>7. Claimed.held[t][k + 1] = Claimed.held[t][k]
    <2> HIDE DEF ins
    <2> QED
      BY <1>1, <1>3, GoesOn DEF HoldsRight
  <1>8. /\ UNCHANGED <<program, code>> /\ pc' = [pc EXCEPT ![t] = pc'[t]]
        /\ Alike(t, pc'[t], k + 1)
    BY <1>1, NextTarget, Ahead
  <1>9. M!JoinThread(t, u) /\ Ended(u)
    BY <1>1, <1>4
  <1> HIDE DEF ins
  <1>10. /\ raced' = raced /\ mem' = mem
         /\ \A x \in Crew, d \in Locations : Kn(x, d) => Kn(x, d)'
         /\ \A d \in Locations : Kn(u, d) => Kn(t, d)'
    BY <1>2, <1>5, <1>9, JoinLearns
  <1>11. /\ InPlace /\ LocksRight(Claimed, Held, AtWork, Settings)
         /\ OwnersKnow(Claimed, Held, AtWork, Known, Told)
         /\ Sound(Claimed, Crew) /\ DOMAIN Held = Crew
         /\ Held[t] = Claimed.held[t][k] /\ Held = [Held EXCEPT ![t] = Held[t]]
    BY <1>1, HeldHere DEF Keeping
  <1>12. /\ Claimed.plain \subseteq Locations /\ Monitors(Claimed) \subseteq Locations
         /\ DOMAIN Claimed.mine = Crew \ {"main"} /\ AtWork \subseteq DOMAIN Claimed.mine
         /\ u \in AtWork /\ AtWork = Claimed.active[k]
    BY <1>2, <1>3, <1>6, <1>11, ClaimKept DEF Keeping, AtWork, LocksRight
  <1>13. Held[u] = {}
    <2>1. pc[u] = Len(code[u]) + 1
      BY <1>9 DEF Ended
    <2>2. Len(code[u]) \in Nat
      BY <1>2, <1>5, CodeTyped
    <2>3. pc[u] # 0
      BY <2>1, <2>2
    <2>4. pc[u] \in DOMAIN Claimed.held[u]
      BY <1>5, <1>11, <2>3 DEF InPlace
    <2>5. Claimed.held[u][pc[u]] = {}
      BY <1>2, <1>5, <2>1, <2>4, ClaimKept DEF Keeping
    <2> QED
      BY <1>5, <2>3, <2>5 DEF Held
  <1>14. Claimed' = Claimed /\ Crew' = Crew
    BY <1>2, SameSets DEF Claimed
  <1>15. /\ pc'[t] # 0 /\ pc'[t] \in DOMAIN Claimed.held[t] /\ Claimed.held[t][pc'[t]] = Held[t]
         /\ Claimed.started[pc'[t]] = Claimed.started[k] /\ Claimed.active[pc'[t]] = AtWork \ {u}
         /\ \A x \in Crew : x # t => pc'[x] = pc[x]
    <2>1. pc'[t] \in DOMAIN Claimed.held[t] /\ DOMAIN Claimed.held[t] \subseteq 1 .. Len(code[t]) + 1
      BY <1>2, <1>8, ClaimKept DEF Alike, Keeping
    <2>2. pc'[t] # 0
      BY <2>1
    <2>3. \A x \in Crew : x # t => pc'[x] = pc[x]
      BY <1>2, <1>8 DEF ThreadsOK
    <2> QED
      BY <1>3, <1>6, <1>7, <1>8, <1>11, <1>12, <2>1, <2>2, <2>3 DEF Alike
  <1>16. AtWork' = AtWork \ {u}
    BY <1>3, <1>14, <1>15 DEF AtWork
  <1>17. Held' = Held
    <2>1. Held' = [x \in Crew |-> IF pc'[x] = 0 THEN {} ELSE Claimed.held[x][pc'[x]]]
      BY <1>14 DEF Held
    <2>2. Held = [x \in Crew |-> IF pc[x] = 0 THEN {} ELSE Claimed.held[x][pc[x]]]
      BY DEF Held
    <2>3. \A x \in Crew : Held'[x] = Held[x]
      BY <1>15, <2>1, <2>2
    <2> QED
      BY <2>1, <2>2, <2>3, Zenon
  <1>18. InPlace'
    <2>1. pc'["main"] # 0 /\ \A x \in Crew : pc'[x] # 0 => pc'[x] \in DOMAIN Claimed.held[x]
      BY <1>3, <1>11, <1>15 DEF InPlace
    <2>2. ASSUME NEW x \in DOMAIN Claimed.mine
          PROVE  /\ pc'[x] = 0 <=> x \notin Claimed.started[pc'["main"]]
                 /\ x \in Claimed.started[pc'["main"]] \ (AtWork \ {u}) => pc'[x] = Len(code[x]) + 1
      <3>1. pc'[x] = pc[x] /\ Claimed.started[pc'["main"]] = Claimed.started[pc["main"]]
        BY <1>3, <1>12, <1>15
      <3>2. /\ pc[x] = 0 <=> x \notin Claimed.started[pc["main"]]
            /\ x \in Claimed.started[pc["main"]] \ AtWork => pc[x] = Len(code[x]) + 1
        BY <1>11 DEF InPlace, Ended
      <3> QED
        BY <1>9, <3>1, <3>2 DEF Ended
    <2> QED
      BY <1>8, <1>14, <1>16, <2>1, <2>2 DEF InPlace, Ended
  <1>19. Known \subseteq Known' /\ Told \subseteq Told' /\ Settings' = Settings
    <2>1. \A m, d : Tl(m, d)' <=> Tl(m, d)
      BY <1>10 DEF Tl
    <2>2. \A m : Now(m)' = Now(m)
      BY <1>10 DEF Now
    <2> QED
      BY <1>2, <1>10, <1>12, <2>1, <2>2, KnowledgeGrows
  <1>20. \A d \in Claimed.plain : <<u, d>> \in Known => <<"main", d>> \in Known'
    BY <1>2, <1>3, <1>5, <1>10, <1>12, KnowledgeIs
  <1>21. /\ LocksRight(Claimed, Held, AtWork \ {u}, Settings)
         /\ OwnersKnow(Claimed, Held, AtWork \ {u}, Known', Told')
    BY <1>11, <1>12, <1>13, <1>19, <1>20, JoiningKeeps
  <1>22. Orderly'
    BY <1>14, <1>16, <1>17, <1>18, <1>19, <1>21 DEF Orderly
  <1> QED
    BY <1>10, <1>22, Zenon DEF Keeping
-----------------------------------------------------------------------------
(* Started threads get what is theirs, and know it from their starter.     *)
LEMMA StartsOrderly ==
  ASSUME Keeping, NEW t, Starts(t)
  PROVE  Orderly' /\ ~raced'
  <1> DEFINE ins == code[t][pc[t]]
             k == pc[t]
  <1>1. PICK T : T = ins.who
    OBVIOUS
  <1>2. PICK s : s = [u \in T \cup {t} |-> Settled(code[u], pc[u] + 1, reg[u])]
    OBVIOUS
  <1>3. /\ Running(t) /\ ins.op = "start"
        /\ \A u \in T : pc[u] = 0
        /\ M!StartThreads(t, T)
        /\ pc' = [u \in DOMAIN pc |-> IF u \in DOMAIN s THEN s[u].pc ELSE pc[u]]
        /\ UNCHANGED <<program, code>>
    BY <1>1, <1>2 DEF Starts, At
  <1>4. /\ ThreadsOK /\ MemOK /\ t \in Crew /\ ins \in InstructionSet(Locations, Crew)
        /\ k \in 1 .. Len(code[t]) /\ k \in DOMAIN Claimed.held[t]
        /\ DOMAIN pc = Crew /\ \A u \in Crew : reg[u] \in [Registers -> Int] /\ Zeroed(reg[u])
    BY <1>3, Current, HeldHere, CodeTyped DEF Keeping, Inv, ThreadsOK
  <1>5. /\ t = "main" /\ HoldsRight(Claimed, t, k, ins) /\ CountsRight(Claimed, k, ins)
        /\ Targets(ins, k) \subseteq DOMAIN Claimed.held[t]
    BY <1>3, <1>4, PlaceKept DEF Keeping
  <1>6. /\ Claimed.held[t][k] = {} /\ T \subseteq DOMAIN Claimed.mine \ Claimed.started[k]
        /\ Claimed.started[k + 1] = Claimed.started[k] \cup T /\ Claimed.active[k + 1] = Claimed.active[k] \cup T
    <2> HIDE DEF ins
    <2> QED
      BY <1>1, <1>3, <1>5 DEF CountsRight
  <1>7. Claimed.held[t][k + 1] = Claimed.held[t][k] /\ k + 1 \in DOMAIN Claimed.held[t]
    <2> HIDE DEF ins
    <2> QED
      BY <1>3, <1>5, GoesOn DEF HoldsRight
  <1> HIDE DEF ins
  <1>8. /\ Claimed.plain \subseteq Locations /\ Monitors(Claimed) \subseteq Locations
        /\ DOMAIN Claimed.mine = Crew \ {"main"} /\ T \subseteq Crew \ {"main"}
        /\ Claimed.active[k] \subseteq Claimed.started[k]
        /\ \A u \in Crew : /\ 1 \in DOMAIN Claimed.held[u] /\ Claimed.held[u][1] = {}
                           /\ DOMAIN Claimed.held[u] \subseteq 1 .. Len(code[u]) + 1
    BY <1>4, <1>5, <1>6, ClaimKept DEF Keeping
  <1>9. /\ InPlace /\ LocksRight(Claimed, Held, AtWork, Settings)
        /\ OwnersKnow(Claimed, Held, AtWork, Known, Told)
        /\ Sound(Claimed, Crew) /\ DOMAIN Held = Crew
        /\ Held[t] = Claimed.held[t][k]
    BY <1>3, HeldHere DEF Keeping
  <1>10. DOMAIN s = T \cup {t}
    BY <1>2
  <1>11. \A u \in T : Alike(u, s[u].pc, 1)
    <2> TAKE u \in T
    <2>1. u \in Crew /\ pc[u] + 1 = 1 /\ 1 \in DOMAIN Claimed.held[u]
          /\ reg[u] \in [Registers -> Int] /\ Zeroed(reg[u])
      BY <1>3, <1>4, <1>8
    <2>2. s[u] = Settled(code[u], 1, reg[u])
      BY <1>2, <2>1
    <2> QED
      BY <1>4, <2>1, <2>2, SettledStays DEF Keeping
  <1>12. Alike(t, s[t].pc, k + 1)
    <2>1. s[t] = Settled(code[t], k + 1, reg[t])
      BY <1>2
    <2> QED
      BY <1>4, <1>7, <2>1, SettledStays DEF Keeping
  <1>13. /\ pc'[t] = s[t].pc /\ \A u \in T : pc'[u] = s[u].pc
         /\ \A u \in Crew : u \notin T /\ u # t => pc'[u] = pc[u]
    BY <1>3, <1>4, <1>8, <1>10
  <1>14. \A u \in Crew : DOMAIN Claimed.held[u] \subseteq Nat \ {0}
    <2> TAKE u \in Crew
    <2>1. Len(code[u]) \in Nat /\ DOMAIN Claimed.held[u] \subseteq 1 .. Len(code[u]) + 1
      BY <1>4, <1>8, CodeTyped
    <2> QED
      BY <2>1
  <1>15. /\ \A u \in T : pc'[u] \in DOMAIN Claimed.held[u] /\ pc'[u] # 0 /\ Claimed.held[u][pc'[u]] = {}
         /\ pc'[t] \in DOMAIN Claimed.held[t] /\ pc'[t] # 0 /\ Claimed.held[t][pc'[t]] = Held[t]
         /\ Claimed.started[pc'[t]] = Claimed.started[k] \cup T
         /\ Claimed.active[pc'[t]] = Claimed.active[k] \cup T
    BY <1>4, <1>5, <1>6, <1>7, <1>8, <1>9, <1>11, <1>12, <1>13, <1>14 DEF Alike
  <1>16. Claimed' = Claimed /\ Crew' = Crew
    BY <1>3, SameSets DEF Claimed
  <1>17. AtWork = Claimed.active[k] /\ AtWork' = AtWork \cup T
    BY <1>5, <1>15, <1>16 DEF AtWork
  <1>18. Held' = Held
    <2>1. Held' = [x \in Crew |-> IF pc'[x] = 0 THEN {} ELSE Claimed.held[x][pc'[x]]]
      BY <1>16 DEF Held
    <2>2. Held = [x \in Crew |-> IF pc[x] = 0 THEN {} ELSE Claimed.held[x][pc[x]]]
      BY DEF Held
    <2>3. \A x \in Crew : Held'[x] = Held[x]
      <3> TAKE x \in Crew
      <3>1. CASE x \in T
        BY <1>3, <1>15, <2>1, <2>2, <3>1, ZenonT(40)
      <3>2. CASE x = t
        BY <1>15, <2>1, <3>2
      <3>3. CASE x \notin T /\ x # t
        BY <1>13, <2>1, <2>2, <3>3
      <3> QED
        BY <3>1, <3>2, <3>3
    <2> QED
      BY <2>1, <2>2, <2>3, Zenon
  <1>19. InPlace'
    <2>1. pc'["main"] # 0 /\ \A x \in Crew : pc'[x] # 0 => pc'[x] \in DOMAIN Claimed.held[x]
      BY <1>5, <1>9, <1>13, <1>15 DEF InPlace
    <2>2. ASSUME NEW x \in DOMAIN Claimed.mine
          PROVE  /\ pc'[x] = 0 <=> x \notin Claimed.started[k] \cup T
                 /\ x \in (Claimed.started[k] \cup T) \ (AtWork \cup T) => pc'[x] = Len(code[x]) + 1
      <3>1. /\ pc[x] = 0 <=> x \notin Claimed.started[k]
            /\ x \in Claimed.started[k] \ AtWork => pc[x] = Len(code[x]) + 1
        BY <1>5, <1>9 DEF InPlace, Ended
      <3>2. x \in Crew /\ x # t
        BY <1>5, <1>8
      <3>3. CASE x \in T
        BY <1>15, <3>3
      <3>4. CASE x \notin T
        BY <1>13, <3>1, <3>2, <3>4
      <3> QED
        BY <3>3, <3>4
    <2>3. Claimed.started[pc'["main"]] = Claimed.started[k] \cup T
      BY <1>5, <1>15
    <2> QED
      BY <1>3, <1>16, <1>17, <2>1, <2>2, <2>3 DEF InPlace, Ended
  <1>20. /\ raced' = raced /\ mem' = mem
         /\ \A u \in Crew \ T, d \in Locations : Kn(u, d) => Kn(u, d)'
         /\ \A u \in Crew \cap T, d \in Locations : Kn(t, d) => Kn(u, d)'
    <2>1. UNCHANGED program
      BY <1>3
    <2> QED
      BY <1>3, <1>4, <2>1, StartLearns
  <1>21. /\ \A u \in Crew \ T, d \in Claimed.plain : <<u, d>> \in Known => <<u, d>> \in Known'
         /\ \A u \in T, d \in Claimed.plain : <<"main", d>> \in Known => <<u, d>> \in Known'
    BY <1>3, <1>4, <1>5, <1>8, <1>20, KnowledgeIs
  <1>22. Told \subseteq Told' /\ Settings' = Settings
    <2>1. \A m, d : Tl(m, d)' <=> Tl(m, d)
      BY <1>20 DEF Tl
    <2>2. \A m : Now(m)' = Now(m)
      BY <1>20 DEF Now
    <2> QED
      BY <1>3, <2>1, <2>2, KnowledgeGrows
  <1>23. LocksRight(Claimed, Held, AtWork \cup T, Settings) /\ OwnersKnow(Claimed, Held, AtWork \cup T, Known', Told')
    <2>1. Held["main"] = {} /\ T \subseteq DOMAIN Claimed.mine /\ T \cap AtWork = {}
      BY <1>5, <1>6, <1>8, <1>9, <1>17
    <2> QED
      BY <1>9, <1>21, <1>22, <2>1, StartingKeeps, ZenonT(40)
  <1>24. Orderly'
    BY <1>16, <1>17, <1>18, <1>19, <1>22, <1>23 DEF Orderly
  <1> QED
    BY <1>20, <1>24, Zenon DEF Keeping

(* Exit ends all threads.                                                  *)
LEMMA ExitsEnds ==
  ASSUME Keeping, NEW t, Exits(t)
  PROVE  AllEnded' /\ ~raced'
  <1>1. /\ pc' = [u \in DOMAIN pc |-> Len(code[u]) + 1] /\ UNCHANGED <<code, memory>>
    BY DEF Exits
  <1>2. raced' = raced
    BY <1>1, MemoryStays
  <1>3. AllEnded'
    BY <1>1 DEF AllEnded, Ended
  <1> QED
    BY <1>2, <1>3, Zenon DEF Keeping

(* A program that has ended stays so.                                      *)
LEMMA EndedStays ==
  ASSUME Inv, AllEnded, [Next]_vars
  PROVE  AllEnded' /\ raced' = raced
  <1>1. \A t : ~Running(t)
    <2> SUFFICES ASSUME NEW t, Running(t) PROVE FALSE
      OBVIOUS
    <2>1. t \in Crew /\ pc[t] \in 1 .. Len(code[t]) /\ Len(code[t]) \in Nat /\ DOMAIN pc = Crew
      BY Current, CodeTyped DEF Inv
    <2> QED
      BY <2>1 DEF AllEnded, Ended
  <1>2. ASSUME UNCHANGED <<code, pc, memory>> PROVE AllEnded' /\ raced' = raced
    BY <1>2, MemoryStays DEF AllEnded, Ended
  <1>3. CASE UNCHANGED vars \/ Terminating
    BY <1>2, <1>3 DEF vars, Terminating
  <1>4. CASE \E t \in Threads : WakesUp(t) \/ TimesOut(t)
    BY <1>2, <1>4 DEF WakesUp, TimesOut
  <1>5. CASE \E t \in Threads : \E i \in Positions : FailsToExchange(t, i) \/ Loads(t, i)
    BY <1>1, <1>5 DEF FailsToExchange, Loads, At
  <1>6. ASSUME NEW t, \/ Stores(t) \/ Publishes(t) \/ Updates(t) \/ Exchanges(t) \/ Fenced(t)
                      \/ ReadsVariable(t) \/ ReadsObject(t)
                      \/ Writes(t) \/ Assigns(t) \/ Starts(t) \/ Joins(t) \/ Chooses(t) \/ Exits(t)
                      \/ Sleeps(t) \/ Notifies(t)
        PROVE  FALSE
    BY <1>1, <1>6 DEF Stores, Publishes, Updates, Exchanges, Fenced, ReadsVariable, ReadsObject,
                      Writes, Assigns, Starts, Joins, Chooses, Exits, Sleeps, Notifies, At
  <1> QED
    BY <1>3, <1>4, <1>5, <1>6 DEF Next, Prompt

(* Every step of a program that keeps its claim keeps it in order.         *)
LEMMA NextOrderly ==
  ASSUME Keeping, [Next]_vars
  PROVE  ~raced' /\ (AllEnded' \/ Orderly')
  <1>1. ASSUME UNCHANGED <<program, code, pc, memory>> PROVE Orderly' /\ ~raced'
    <2>1. raced' = raced
      BY <1>1, MemoryStays
    <2>2. Orderly'
      BY <1>1, StaysOrderly DEF Keeping
    <2> QED
      BY <2>1, <2>2, Zenon DEF Keeping
  <1>2. CASE UNCHANGED vars \/ Terminating
    BY <1>1, <1>2 DEF vars, Terminating
  <1>3. CASE \E t \in Threads : WakesUp(t) \/ TimesOut(t)
    BY <1>1, <1>3 DEF WakesUp, TimesOut
  <1>4. CASE \E t \in Threads : \E i \in Positions : FailsToExchange(t, i) \/ Loads(t, i)
    BY <1>4, LoadsOrderly
  <1>5. CASE \E t \in Threads : Prompt(t) /\ ~TimesOut(t)
    <2>1. PICK t \in Threads : Prompt(t) /\ ~TimesOut(t)
      BY <1>5
    <2>2. CASE \E i \in Positions : Loads(t, i)
      BY <2>2, LoadsOrderly
    <2>3. CASE Stores(t) \/ Publishes(t) \/ Updates(t) \/ Exchanges(t) \/ Fenced(t)
      BY <2>3, StoresOrderly, PublishesOrderly, UpdatesOrderly, ExchangesOrderly, NotThere
    <2>4. CASE ReadsVariable(t) \/ ReadsObject(t) \/ Writes(t) \/ Assigns(t)
      BY <2>4, ReadsOrderly, WritesOrderly, NotThere
    <2>5. CASE Starts(t) \/ Joins(t) \/ Chooses(t) \/ Exits(t)
      BY <2>5, StartsOrderly, JoinsOrderly, ChoosesOrderly, ExitsEnds
    <2>6. CASE Sleeps(t) \/ Notifies(t)
      BY <2>6, SleepsOrderly, NotifiesOrderly
    <2> QED
      BY <2>1, <2>2, <2>3, <2>4, <2>5, <2>6 DEF Prompt
  <1> QED
    BY <1>2, <1>3, <1>4, <1>5 DEF Next, Prompt
-----------------------------------------------------------------------------
(* At the start main owns everything and nothing is held.                  *)
LEMMA InitOrderly ==
  ASSUME Init, program \in DOMAIN Claims
  PROVE  Orderly /\ ~raced
  <1> DEFINE prog == Library[program]
  <1>1. PICK start : start = [at |-> [l \in DOMAIN prog.vars |-> 1], missed |-> {}]
    OBVIOUS
  <1>2. ThreadsOK /\ DOMAIN code = Crew /\ "main" \in Crew
    BY InitKeeps, CodeTyped DEF Inv
  <1>3. pc = [t \in Crew |-> IF t = "main" THEN 1 ELSE 0] /\ raced = FALSE
    BY <1>2 DEF Init, M!MemInit
  <1>4. /\ start.at = [l \in Locations |-> 1] /\ start.missed = {}
        /\ mem = [l \in Locations |-> <<[val |-> prog.vars[l], view |-> start]>>]
        /\ cur = [t \in Crew |-> start]
    BY <1>1, <1>2, <1>3 DEF Init, M!MemInit, Locations
  <1>5. \A l \in Locations : /\ Len(mem[l]) = 1 /\ mem[l][1].view = start /\ mem[l][1].val = prog.vars[l]
                             /\ Knows(start, l)
    BY <1>4 DEF Knows, M!Last, M!Misses
  <1>6. /\ Claimed.plain \subseteq Locations /\ Monitors(Claimed) \subseteq Locations
        /\ DOMAIN Claimed.mine = Crew \ {"main"}
        /\ \A l \in Monitors(Claimed) : prog.vars[l] = 0 /\ Claimed.guards[l] \subseteq Claimed.plain
        /\ \A t \in Crew : 1 \in DOMAIN Claimed.held[t] /\ Claimed.held[t][1] = {}
        /\ Claimed.started[1] = {} /\ Claimed.active[1] = {}
    BY <1>2, ClaimKept DEF Sound
  <1>7. AtWork = {} /\ Held = [t \in Crew |-> {}]
    BY <1>2, <1>3, <1>6 DEF AtWork, Held
  <1>8. Known = Crew \X Claimed.plain /\ Told = Monitors(Claimed) \X Claimed.plain
    <2>1. \A u \in Crew, d \in Claimed.plain : Knows(cur[u], d)
      BY <1>4, <1>5, <1>6
    <2>2. \A m \in Monitors(Claimed), d \in Claimed.plain : Knows(mem[m][M!Last(m)].view, d)
      BY <1>5, <1>6 DEF M!Last
    <2> QED
      BY <2>1, <2>2 DEF Known, Told
  <1>9. \A l \in Monitors(Claimed) : Settings[l] = 0
    BY <1>5, <1>6 DEF Settings, M!Last
  <1>10. InPlace
    BY <1>2, <1>3, <1>6, <1>7 DEF InPlace
  <1>11. LocksRight(Claimed, Held, AtWork, Settings)
    BY <1>7, <1>9 DEF LocksRight
  <1>12. OwnersKnow(Claimed, Held, AtWork, Known, Told)
    <2>1. \A l \in Monitors(Claimed) : \A d \in Claimed.guards[l] :
            /\ <<l, d>> \in Told
            /\ "main" \in Sharers(Claimed, l, AtWork) /\ <<"main", d>> \in Known
      BY <1>2, <1>6, <1>8 DEF Sharers
    <2>2. \A d \in Claimed.plain : <<"main", d>> \in Known
      BY <1>2, <1>8
    <2> QED
      BY <1>7, <2>1, <2>2 DEF OwnersKnow
  <1>13. ~raced
    BY <1>3, Zenon
  <1> QED
    BY <1>10, <1>11, <1>12, <1>13 DEF Orderly

(* The program that runs does not change.                                   *)
LEMMA ProgramStays ==
  ASSUME [Next]_vars
  PROVE  program' = program
  <1>1. \A t, d, r, v : StepTo(t, d, r, v) => program' = program
    BY DEF StepTo
  <1>2. ASSUME NEW t, \/ WakesUp(t) \/ TimesOut(t) \/ Starts(t) \/ Exits(t) \/ Sleeps(t) \/ Notifies(t)
        PROVE  program' = program
    BY <1>2 DEF WakesUp, TimesOut, Starts, Exits, Sleeps, Notifies
  <1>3. ASSUME NEW t, NEW i, FailsToExchange(t, i) \/ Loads(t, i)
        PROVE  program' = program
    BY <1>1, <1>3, Zenon DEF FailsToExchange, Loads
  <1>4. ASSUME NEW t, \/ Stores(t) \/ Publishes(t) \/ Updates(t) \/ Exchanges(t) \/ Fenced(t)
                      \/ Writes(t) \/ Assigns(t) \/ Joins(t)
        PROVE  program' = program
    BY <1>1, <1>4, Zenon DEF Stores, Publishes, Updates, Exchanges, Fenced, Writes, Assigns, Joins, Step
  <1>5. ASSUME NEW t, ReadsVariable(t) \/ ReadsObject(t) \/ Chooses(t)
        PROVE  program' = program
    BY <1>1, <1>5, Zenon DEF ReadsVariable, ReadsObject, Reads, Chooses
  <1>6. UNCHANGED vars \/ Terminating => program' = program
    BY DEF vars, Terminating
  <1> QED
    BY <1>2, <1>3, <1>4, <1>5, <1>6 DEF Next, Prompt

(* What keeps a program that keeps its claim from racing.                  *)
KeptInOrder == program \in DOMAIN Claims => ~raced /\ (AllEnded \/ Orderly)

(* It is inductive, with Inv.                                              *)
LEMMA KeptInOrderKeeps ==
  ASSUME Inv, KeptInOrder, [Next]_vars
  PROVE  KeptInOrder'
  <1> SUFFICES ASSUME program' \in DOMAIN Claims PROVE ~raced' /\ (AllEnded' \/ Orderly')
    BY Zenon DEF KeptInOrder
  <1>1. program \in DOMAIN Claims
    BY ProgramStays
  <1>2. CASE AllEnded
    <2>1. AllEnded' /\ raced' = raced
      BY <1>2, EndedStays
    <2>2. ~raced
      BY <1>1 DEF KeptInOrder
    <2> QED
      BY <2>1, <2>2, Zenon
  <1>3. CASE ~AllEnded
    <2>1. Keeping
      BY <1>1, <1>3, Zenon DEF Keeping, KeptInOrder
    <2> QED
      BY <2>1, NextOrderly
  <1> QED
    BY <1>2, <1>3

(* Whatever the programs: in one that keeps its claim, which is seen from  *)
(* its code alone, no two threads ever access a plain variable without an  *)
(* order between them, one of them to write it.  Its owner knows the last  *)
(* write and all reads since; a mutex, starting and joining pass that on.  *)
THEOREM RaceFree == FairSpec => [](program \in DOMAIN Claims => ~raced /\ NoRace)
  <1>1. Init => Inv /\ KeptInOrder
    BY InitKeeps, InitOrderly, Zenon DEF KeptInOrder
  <1>2. Inv /\ KeptInOrder /\ [Next]_vars => Inv' /\ KeptInOrder'
    BY NextKeeps, KeptInOrderKeeps
  <1>3. KeptInOrder => (program \in DOMAIN Claims => ~raced /\ NoRace)
    BY Zenon DEF NoRace, KeptInOrder
  <1> QED
    BY <1>1, <1>2, <1>3, PTL DEF FairSpec

(* Nor do two threads ever hold the same mutex: each is at a place that    *)
(* says what it holds, and a taken mutex has the value that keeps others   *)
(* from taking it.                                                         *)
THEOREM LocksExclude ==
  FairSpec => [](program \in DOMAIN Claims /\ ~AllEnded =>
                   \A t, u \in Crew : t # u => Held[t] \cap Held[u] = {})
  <1>1. Init => Inv /\ KeptInOrder
    BY InitKeeps, InitOrderly, Zenon DEF KeptInOrder
  <1>2. Inv /\ KeptInOrder /\ [Next]_vars => Inv' /\ KeptInOrder'
    BY NextKeeps, KeptInOrderKeeps
  <1>3. KeptInOrder => (program \in DOMAIN Claims /\ ~AllEnded =>
                          \A t, u \in Crew : t # u => Held[t] \cap Held[u] = {})
    <2> SUFFICES ASSUME KeptInOrder, program \in DOMAIN Claims, ~AllEnded,
                        NEW t \in Crew, NEW u \in Crew, t # u
                 PROVE  Held[t] \cap Held[u] = {}
      OBVIOUS
    <2>1. LocksRight(Claimed, Held, AtWork, Settings)
      BY Zenon DEF KeptInOrder, Orderly
    <2>2. DOMAIN Held = Crew
      BY DEF Held
    <2> QED
      BY <2>1, <2>2 DEF LocksRight
  <1> QED
    BY <1>1, <1>2, <1>3, PTL DEF FairSpec
=============================================================================
