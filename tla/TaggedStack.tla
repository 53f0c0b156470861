---------------------------- MODULE TaggedStack ----------------------------
(***************************************************************************)
(* The class TaggedStack of 04_pitfalls/06_aba_problem.cpp, called by      *)
(* several threads at once.  head_ is one atomic pair of a pointer and a   *)
(* tag that every change increments; push and pop prepare the new pair and *)
(* install it by compare_exchange_weak.                                    *)
(*                                                                         *)
(* The class leaks what it pops ("We leak for clarity").  What the tag is  *)
(* for is a program that does not: here the node of a pop is either leaked *)
(* or given back to the allocator at once, which may hand the same address *)
(* to a later push.  A thread that still reads next of a node that is free *)
(* finds anything at all.                                                  *)
(*                                                                         *)
(* Each access to head_ or to a node is a step; memory orders are the      *)
(* subject of SharedMemory.                                                *)
(***************************************************************************)
EXTENDS Naturals, Sequences, FiniteSets

CONSTANTS Threads,
          Nodes,                \* the addresses the allocator has
          NoNode,               \* nullptr
          Empty,                \* no value: pop() returned false
          Calls,                \* how many calls each thread makes
          Tags                  \* how many different tags there are: 2^64

Pointers == Nodes \cup {NoNode}
Values   == Threads \X (1 .. Calls)

(* The tag does not come round: a call changes it at most once. *)
ASSUME TSAssumption ==
  /\ IsFiniteSet(Threads) /\ IsFiniteSet(Nodes) /\ NoNode \notin Nodes /\ Empty \notin Values
  /\ Calls \in Nat
  /\ Tags \in Nat /\ Cardinality(Threads) * Calls < Tags

VARIABLES head_,                \* [ptr, tag]
          value, next,          \* the members of each node
          heap,                 \* the addresses that are free
          pc,                   \* where each thread is in push or pop
          n, cur, then,         \* its locals: the node it pushes, cur, next.ptr of pop
          out,                  \* what its last pop returned
          calls,                \* the calls it has left to make
          chain                 \* history: the nodes pushed and not popped, the newest first

nodes  == <<value, next, heap>>
locals == <<n, cur, then>>
vars   == <<head_, nodes, pc, locals, out, calls, chain>>

Init == /\ head_ = [ptr |-> NoNode, tag |-> 0]
        /\ value = [x \in Nodes |-> Empty] /\ next = [x \in Nodes |-> NoNode]
        /\ heap = Nodes
        /\ pc = [t \in Threads |-> "idle"]
        /\ n = [t \in Threads |-> NoNode]
        /\ cur = [t \in Threads |-> head_]
        /\ then = [t \in Threads |-> NoNode]
        /\ out = [t \in Threads |-> Empty]
        /\ calls = [t \in Threads |-> Calls]
        /\ chain = << >>

Goto(t, from, to) == pc[t] = from /\ pc' = [pc EXCEPT ![t] = to]
Called(t) == calls[t] > 0 /\ calls' = [calls EXCEPT ![t] = @ - 1]
Reload(t) == cur' = [cur EXCEPT ![t] = head_]           \* cur is what head_ is now

-----------------------------------------------------------------------------
(* Faulty variants, one plausible slip each; no specification uses them.   *)
Tagged_Same(p, old) == [ptr |-> p, tag |-> old.tag]     \* tag + 1 forgotten
PopRetry_Unchecked(t) ==        \* if (!cur.ptr) above the loop
  /\ Goto(t, "pop_cas", "pop_next") /\ Reload(t)
  /\ UNCHANGED <<head_, nodes, n, then, out, calls, chain>>
PopRetry_Stale(t) ==            \* compare_exchange_weak on a copy of cur
  /\ Goto(t, "pop_cas", "pop_next")
  /\ UNCHANGED <<head_, nodes, locals, out, calls, chain>>
PopCas_FreesFirst(t) ==         \* delete cur.ptr before out = cur.ptr->value
  /\ Goto(t, "pop_cas", "pop_value") /\ head_ = cur[t]
  /\ head_' = [ptr |-> then[t], tag |-> head_.tag + 1]
  /\ chain' = Tail(chain) /\ heap' = heap \cup {cur[t].ptr}
  /\ UNCHANGED <<value, next, locals, out, calls>>

-----------------------------------------------------------------------------
(* The pair that a change installs over old. *)
Tagged(p, old) == [ptr |-> p, tag |-> (old.tag + 1) % Tags]

(* push(v): a new node, and the first look at head_, ... *)
PushNew(t) ==
  /\ Goto(t, "idle", "link") /\ Called(t)
  /\ \E x \in heap : /\ heap' = heap \ {x}
                     /\ value' = [value EXCEPT ![x] = <<t, calls[t]>>]
                     /\ next' = [next EXCEPT ![x] = NoNode]
                     /\ n' = [n EXCEPT ![t] = x]
  /\ Reload(t)
  /\ UNCHANGED <<head_, then, out, chain>>

(* ... n->next = cur.ptr, ... *)
PushLink(t) ==
  /\ Goto(t, "link", "push_cas")
  /\ next' = [next EXCEPT ![n[t]] = cur[t].ptr]
  /\ UNCHANGED <<head_, value, heap, locals, out, calls, chain>>

(* ... and n becomes the head, ... *)
PushCas(t) ==
  /\ Goto(t, "push_cas", "idle")
  /\ head_ = cur[t]
  /\ head_' = Tagged(n[t], cur[t])
  /\ chain' = <<n[t]>> \o chain
  /\ n' = [n EXCEPT ![t] = NoNode]
  /\ UNCHANGED <<nodes, cur, then, out, calls>>

(* ... unless the exchange fails, for a reason or for none. *)
PushRetry(t) ==
  /\ Goto(t, "push_cas", "link")
  /\ Reload(t)
  /\ UNCHANGED <<head_, nodes, n, then, out, calls, chain>>

(* pop(out): return false when cur.ptr is null, ... *)
Look(t, from) ==
  /\ Reload(t)
  /\ IF head_.ptr = NoNode
     THEN Goto(t, from, "idle") /\ out' = [out EXCEPT ![t] = Empty]
     ELSE Goto(t, from, "pop_next") /\ UNCHANGED out
  /\ UNCHANGED <<head_, nodes, n, then, chain>>

PopLoad(t) == Called(t) /\ Look(t, "idle")

(* ... else read its next, ... *)
PopNext(t) ==
  /\ Goto(t, "pop_next", "pop_cas")
  /\ \E p \in IF cur[t].ptr \in heap THEN Pointers ELSE {next[cur[t].ptr]} :
       then' = [then EXCEPT ![t] = p]
  /\ UNCHANGED <<head_, nodes, n, cur, out, calls, chain>>

(* ... which becomes the head ... *)
PopCas(t) ==
  /\ Goto(t, "pop_cas", "pop_value")
  /\ head_ = cur[t]
  /\ head_' = Tagged(then[t], cur[t])
  /\ chain' = Tail(chain)
  /\ UNCHANGED <<nodes, locals, out, calls>>

(* ... or, when the exchange fails, look at head_ again ... *)
PopRetry(t) == Look(t, "pop_cas") /\ UNCHANGED calls

(* ... and take the value.  The node is leaked, or its memory is free. *)
PopValue(t) ==
  /\ Goto(t, "pop_value", "idle")
  /\ out' = [out EXCEPT ![t] = value[cur[t].ptr]]
  /\ heap' \in {heap, heap \cup {cur[t].ptr}}
  /\ UNCHANGED <<head_, value, next, locals, calls, chain>>

Changes(t) == PushCas(t) \/ PopCas(t)
Thread(t) == \/ PushNew(t) \/ PushLink(t) \/ PushRetry(t)
             \/ PopLoad(t) \/ PopNext(t) \/ PopRetry(t) \/ PopValue(t)
             \/ Changes(t)

Done == \A t \in Threads : pc[t] = "idle" /\ calls[t] = 0
Terminating == Done /\ UNCHANGED vars

Next == (\E t \in Threads : Thread(t)) \/ Terminating

Spec == Init /\ [][Next]_vars

(* Every thread runs, and an exchange that could succeed again and again   *)
(* does not fail for ever without a reason.                                *)
FairSpec == Spec /\ \A t \in Threads : WF_vars(Thread(t)) /\ SF_vars(Changes(t))

-----------------------------------------------------------------------------
TypeOK ==
  /\ head_ \in [ptr : Pointers, tag : 0 .. Tags - 1]
  /\ value \in [Nodes -> Values \cup {Empty}] /\ next \in [Nodes -> Pointers]
  /\ heap \subseteq Nodes
  /\ pc \in [Threads -> {"idle", "link", "push_cas", "pop_next", "pop_cas", "pop_value"}]
  /\ cur \in [Threads -> [ptr : Pointers, tag : 0 .. Tags - 1]]
  /\ n \in [Threads -> Pointers] /\ then \in [Threads -> Pointers]
  /\ \A t \in Threads : /\ pc[t] \in {"link", "push_cas"} <=> n[t] # NoNode
                        /\ pc[t] \in {"pop_next", "pop_cas", "pop_value"} => cur[t].ptr # NoNode
  /\ out \in [Threads -> Values \cup {Empty}]
  /\ calls \in [Threads -> 0 .. Calls]
  /\ chain \in Seq(Nodes)

(* The linked list that starts at head_ (lines 53 and 65) is always what   *)
(* the pushes and pops that succeeded have made of it: it has no cycle, no *)
(* node of it is lost, and none is free or about to be pushed.  This is    *)
(* what "pop A, pop B, free A, push X at A" breaks without the tag.        *)
Linked ==
  LET After(k) == IF k < Len(chain) THEN chain[k + 1] ELSE NoNode
  IN /\ head_.ptr = After(0)
     /\ \A k \in DOMAIN chain :
          /\ next[chain[k]] = After(k)
          /\ chain[k] \notin heap /\ \A t \in Threads : chain[k] # n[t]
          /\ \A j \in DOMAIN chain : chain[j] = chain[k] => j = k

(* push and pop take effect in one step each, at the exchange of head_ or, *)
(* for a pop that returns false, at the load that finds it null; the value *)
(* a pop reads afterwards (line 69) is the one it removed.                 *)
Abstract == INSTANCE AtomicStack WITH
  contents <- [k \in DOMAIN chain |-> value[chain[k]]],
  result <- [t \in Threads |-> IF pc[t] = "pop_value" THEN value[cur[t].ptr] ELSE out[t]]
ImplementsStack == Abstract!SSpec

(* Every call returns, whatever the others do: a retry finds the new head. *)
Termination == <>Done
=============================================================================
