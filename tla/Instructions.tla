---------------------------- MODULE Instructions ----------------------------
(***************************************************************************)
(* The notation for the example programs: a program gives the initial      *)
(* values of its variables and, for each of its threads, a sequence of     *)
(* these instructions.  A thread has registers; a value is k + m * a + b   *)
(* for registers a and b.  Jumps are relative.                             *)
(***************************************************************************)
EXTENDS Integers, SequencesExt

Registers == {"zero", "r", "s", "n"}            \* "zero" is always 0

(* Values *)
Sum2(a, b)  == [k |-> 0, m |-> 1, a |-> a, b |-> b]
R(a)        == Sum2(a, "zero")
Plus(a, k)  == [R(a) EXCEPT !.k = k]
Minus(a, b) == [Sum2(b, a) EXCEPT !.m = -1]
Times(a, m) == [R(a) EXCEPT !.m = m]
K(k)        == Plus("zero", k)

(* Atomic accesses with their memory order o; AnyValue they may find *)
AnyValue == -1..9
Await(l, o, S, r) == [op |-> "load", at |-> l, ord |-> o, only |-> S, to |-> r]
Load(l, o, r)     == Await(l, o, AnyValue, r)
Store(l, v, o)    == [op |-> "store", at |-> l, val |-> v, ord |-> o]
(* A read-modify-write that adds k, once the value is in S; r gets the old one. *)
When(l, S, k, o, r) == [op |-> "update", at |-> l, only |-> S, add |-> k, ord |-> o, to |-> r]
Add(l, k, o, r)     == When(l, AnyValue, k, o, r)
(* compare_exchange_weak(r, v, o, relaxed): on failure r is what was read and
   the thread jumps by d *)
Cas(l, r, v, o, d) == [op |-> "cas", at |-> l, expected |-> r, val |-> v, ord |-> o, by |-> d]
Fence(o) == [op |-> "fence", ord |-> o]

(* Plain accesses; objects are named by numbers, pointers hold them *)
Read(l, r)    == [op |-> "read", at |-> l, to |-> r]
Write(l, v)   == [op |-> "write", at |-> l, val |-> v]
Object        == <<"o1", "o2", "o3", "o4">>
ReadAt(p, r)  == [op |-> "deref", ptr |-> p, to |-> r]
WriteAt(p, v) == [op |-> "assign", ptr |-> p, val |-> v]
StoreAt(p, v, o) == [op |-> "publish", ptr |-> p, val |-> v, ord |-> o]    \* atomic

(* A mutex, or a spinlock, is a location; so is a semaphore *)
Lock(l)   == When(l, {0}, 1, "acquire", "zero")
Unlock(l) == Store(l, K(0), "release")
Guarded(l, body) == <<Lock(l)>> \o body \o <<Unlock(l)>>

(* Condition variables.  Sleep(cv, m, k) gives m back (adds k) and sleeps in
   one step; the thread takes m again when it wakes.  SleepFor may also end by
   its deadline, which sets r. *)
SleepFor(cv, m, k, r) == [op |-> "sleep", cv |-> cv, at |-> m, add |-> k, to |-> r]
Sleep(cv, m, k) == SleepFor(cv, m, k, "zero")
NotifyOne(cv) == [op |-> "notify", cv |-> cv, all |-> FALSE]
NotifyAll(cv) == [op |-> "notify", cv |-> cv, all |-> TRUE]

(* Registers, jumps, threads *)
Set(r, v)     == [op |-> "set", to |-> r, val |-> v]
IfIn(r, S, d) == [op |-> "ifin", reg |-> r, set |-> S, by |-> d]
Jump(d)       == IfIn("zero", {0}, d)
Start(T)      == [op |-> "start", who |-> T]
Join(t)       == [op |-> "join", who |-> t]
MayFail(d)    == [op |-> "either", by |-> d]    \* a call that may fail: jumps by d
Exit          == [op |-> "exit"]                \* the process ends, with all its threads
Check(r, S)   == [op |-> "check", reg |-> r, set |-> S]

(* while (l not in S) wait, m held *)
WaitFor(cv, m, l, S) == <<Read(l, "s"), IfIn("s", S, 4), Sleep(cv, m, -1), Lock(m), Jump(-4)>>

Repeat(k, body) == FlattenSeq([j \in 1..k |-> body])
Zeros(L) == [l \in L |-> 0]

(* All instructions of a program with locations L and threads T *)
Orders == {"relaxed", "acquire", "release", "acq_rel", "seq_cst"}
Values == [k : Int, m : Int, a : Registers, b : Registers]
InstructionSet(L, T) ==
       [op : {"load"}, at : L, ord : Orders, only : SUBSET Int, to : Registers]
  \cup [op : {"store"}, at : L, val : Values, ord : Orders]
  \cup [op : {"update"}, at : L, only : SUBSET Int, add : Int, ord : Orders, to : Registers]
  \cup [op : {"cas"}, at : L, expected : Registers, val : Values, ord : Orders, by : Int]
  \cup [op : {"fence"}, ord : Orders]
  \cup [op : {"read"}, at : L, to : Registers] \cup [op : {"deref"}, ptr : Registers, to : Registers]
  \cup [op : {"write"}, at : L, val : Values] \cup [op : {"assign"}, ptr : Values, val : Values]
  \cup [op : {"publish"}, ptr : Values, val : Values, ord : Orders]
  \cup [op : {"sleep"}, cv : STRING, at : L, add : Int, to : Registers]
  \cup [op : {"notify"}, cv : STRING, all : BOOLEAN]
  \cup [op : {"set"}, to : Registers \ {"zero"}, val : Values]
  \cup [op : {"ifin"}, reg : Registers, set : SUBSET Int, by : Int]
  \cup [op : {"check"}, reg : Registers, set : SUBSET Int]
  \cup [op : {"start"}, who : SUBSET T] \cup [op : {"join"}, who : T]
  \cup [op : {"either"}, by : Int] \cup [op : {"exit"}]
=============================================================================
