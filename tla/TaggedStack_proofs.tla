------------------------- MODULE TaggedStack_proofs -------------------------
(* The theorems about TaggedStack, for any number of threads, nodes and    *)
(* calls: with a tag that does not come round, head_ and the nodes always  *)
(* form a list, and the class is a linearizable stack.                     *)
EXTENDS TaggedStack, FiniteSetTheorems, SequenceTheorems, TLAPS

(* The types; a thread inside a call has calls left for the others only.   *)
TypeInv == TypeOK /\ \A t \in Threads : pc[t] # "idle" => calls[t] < Calls

(* The changes of head_ still to come: one for each call that is not made  *)
(* and for each call before its exchange.                                  *)
Left(t) == IF pc[t] \in {"link", "push_cas", "pop_next", "pop_cas"} THEN calls[t] + 1 ELSE calls[t]
ChangesLeft == {x \in Threads \X (1 .. Calls) : x[2] <= Left(x[1])}

(* Each change has a tag of its own, so that a thread whose cur carries    *)
(* the tag of head_ has read head_ as it is.                               *)
TagInv ==
  /\ head_.tag + Cardinality(ChangesLeft) <= Cardinality(Threads) * Calls
  /\ \A t \in Threads : /\ cur[t].tag <= head_.tag
                        /\ cur[t].tag = head_.tag => cur[t] = head_

(* The node a thread has to itself: the one it pushes (lines 51-54) or the *)
(* one it has popped and not yet read (line 69).                           *)
Own(t) == IF pc[t] = "pop_value" THEN cur[t].ptr ELSE n[t]
InChain(x) == \E k \in 1 .. Len(chain) : chain[k] = x
OwnInv ==
  \A t \in Threads : Own(t) # NoNode =>
    /\ Own(t) \notin heap /\ ~ InChain(Own(t))
    /\ \A u \in Threads : Own(u) = Own(t) => u = t

(* What a thread has read of the list is so when its exchange succeeds.    *)
ReadInv ==
  \A t \in Threads :
    /\ pc[t] = "push_cas" => next[n[t]] = cur[t].ptr
    /\ pc[t] = "pop_cas" /\ cur[t] = head_ => then[t] = next[head_.ptr]

ValueInv == \A x \in Nodes \ heap : value[x] \in Values

IInv == TypeInv /\ TagInv /\ Linked /\ OwnInv /\ ReadInv /\ ValueInv

-----------------------------------------------------------------------------
LEMMA Constants ==
  /\ NoNode \notin Nodes /\ Empty \notin Values /\ Calls \in Nat
  /\ Tags \in Nat \ {0} /\ Cardinality(Threads) \in Nat
  /\ Cardinality(Threads) * Calls \in Nat /\ Cardinality(Threads) * Calls < Tags
<1>1. Cardinality(Threads) \in Nat /\ Calls \in Nat /\ Tags \in Nat
      /\ Cardinality(Threads) * Calls < Tags
  BY TSAssumption, FS_CardinalityType DEF TSAssumption
<1>2. Cardinality(Threads) * Calls \in Nat
  BY <1>1
<1> QED
  BY <1>1, <1>2, TSAssumption DEF TSAssumption

LEMMA NoWrap == ASSUME NEW tag \in 0 .. Tags - 1 PROVE tag % Tags = tag
BY Constants

LEMMA TypeInit == Init => TypeInv
<1> SUFFICES ASSUME Init PROVE TypeInv
  OBVIOUS
<1> USE Constants DEF Init, Pointers
<1>1. head_ \in [ptr : Pointers, tag : 0 .. Tags - 1]
  OBVIOUS
<1>2. value \in [Nodes -> Values \cup {Empty}] /\ next \in [Nodes -> Pointers] /\ heap \subseteq Nodes
  OBVIOUS
<1>3. \A t \in Threads : pc[t] = "idle" /\ n[t] = NoNode
  OBVIOUS
<1>4. pc \in [Threads -> {"idle", "link", "push_cas", "pop_next", "pop_cas", "pop_value"}]
  OBVIOUS
<1>5. cur \in [Threads -> [ptr : Pointers, tag : 0 .. Tags - 1]]
  BY <1>1
<1>6. n \in [Threads -> Pointers] /\ then \in [Threads -> Pointers] /\ out \in [Threads -> Values \cup {Empty}]
  OBVIOUS
<1>7. calls \in [Threads -> 0 .. Calls] /\ chain \in Seq(Nodes)
  OBVIOUS
<1> HIDE DEF Init
<1> QED
  BY <1>1, <1>2, <1>3, <1>4, <1>5, <1>6, <1>7 DEF TypeInv, TypeOK

(* The pair a change installs. *)
LEMMA TaggedType ==
  ASSUME NEW p \in Pointers, NEW old \in [ptr : Pointers, tag : 0 .. Tags - 1]
  PROVE  Tagged(p, old) \in [ptr : Pointers, tag : 0 .. Tags - 1]
<1>1. (old.tag + 1) % Tags \in 0 .. Tags - 1
  BY Constants
<1> QED
  BY <1>1 DEF Tagged

(* What Linked says of the first node of the list. *)
LEMMA FirstNode ==
  ASSUME TypeOK, Linked
  PROVE  /\ chain = << >> <=> head_.ptr = NoNode
         /\ chain # << >> => /\ Len(chain) \in Nat \ {0} /\ head_.ptr = chain[1]
                             /\ next[chain[1]] = IF 1 < Len(chain) THEN chain[2] ELSE NoNode
                             /\ chain[1] \in Nodes \ heap
<1>1. chain \in Seq(Nodes) /\ Len(chain) \in Nat /\ DOMAIN chain = 1 .. Len(chain)
  BY LenProperties DEF TypeOK
<1>2. CASE chain = << >>
  BY <1>2 DEF Linked
<1>3. CASE chain # << >>
  <2>1. Len(chain) \in Nat \ {0} /\ 1 \in DOMAIN chain
    BY <1>1, <1>3, EmptySeq
  <2>2. chain[1] \in Nodes
    BY <1>1, <2>1, ElementOfSeq
  <2> QED
    BY <1>3, <2>1, <2>2, Constants DEF Linked
<1> QED
  BY <1>2, <1>3

LEMMA TypeStep == TypeInv /\ Linked /\ [Next]_vars => TypeInv'
<1> SUFFICES ASSUME TypeInv, Linked, [Next]_vars PROVE TypeInv'
  OBVIOUS
<1> USE Constants DEF TypeInv, TypeOK, Goto, Called, Reload, nodes, locals, Pointers
<1>1. ASSUME NEW t \in Threads, PushNew(t) PROVE TypeInv'
  <2>1. PICK x \in heap : /\ heap' = heap \ {x}
                          /\ value' = [value EXCEPT ![x] = <<t, calls[t]>>]
                          /\ next' = [next EXCEPT ![x] = NoNode]
                          /\ n' = [n EXCEPT ![t] = x]
    BY <1>1 DEF PushNew
  <2>2. <<t, calls[t]>> \in Values /\ calls'[t] < Calls /\ calls' \in [Threads -> 0 .. Calls]
    BY <1>1 DEF PushNew, Values
  <2>3. value' \in [Nodes -> Values \cup {Empty}] /\ next' \in [Nodes -> Pointers] /\ heap' \subseteq Nodes
    BY <2>1, <2>2
  <2>4. cur' \in [Threads -> [ptr : Pointers, tag : 0 .. Tags - 1]]
    BY <1>1 DEF PushNew
  <2>5. n' \in [Threads -> Pointers] /\ n'[t] # NoNode /\ x \in Nodes
    BY <2>1
  <2> QED
    BY <1>1, <2>1, <2>2, <2>3, <2>4, <2>5 DEF PushNew
<1>2. ASSUME NEW t \in Threads, PushLink(t) PROVE TypeInv'
  BY <1>2 DEF PushLink
<1>3. ASSUME NEW t \in Threads, PushCas(t) PROVE TypeInv'
  <2>1. n[t] \in Nodes /\ head_' \in [ptr : Pointers, tag : 0 .. Tags - 1]
    BY <1>3, TaggedType DEF PushCas
  <2>2. chain' \in Seq(Nodes)
    BY <1>3, <2>1, ConcatProperties DEF PushCas
  <2> QED
    BY <1>3, <2>1, <2>2 DEF PushCas
<1>4. ASSUME NEW t \in Threads, PushRetry(t) PROVE TypeInv'
  BY <1>4 DEF PushRetry
<1>5. ASSUME NEW t \in Threads, NEW from \in {"idle", "pop_cas"}, Look(t, from),
             \/ from = "idle" /\ Called(t)
             \/ from = "pop_cas" /\ UNCHANGED calls
      PROVE  TypeInv'
  <2>1. cur' \in [Threads -> [ptr : Pointers, tag : 0 .. Tags - 1]] /\ cur'[t] = head_
    BY <1>5 DEF Look
  <2>2. pc[t] = from /\ pc' = [pc EXCEPT ![t] = IF head_.ptr = NoNode THEN "idle" ELSE "pop_next"]
    BY <1>5 DEF Look
  <2>3. out' \in [Threads -> Values \cup {Empty}]
    BY <1>5 DEF Look
  <2>4. /\ calls' \in [Threads -> 0 .. Calls] /\ calls'[t] < Calls
        /\ \A u \in Threads \ {t} : calls'[u] = calls[u]
    <3>1. CASE from = "idle"
      <4>1. calls[t] \in 1 .. Calls /\ calls' = [calls EXCEPT ![t] = calls[t] - 1]
        BY <1>5, <3>1
      <4>2. calls[t] - 1 \in 0 .. Calls /\ calls[t] - 1 < Calls
        BY <4>1
      <4> QED
        BY <4>1, <4>2
    <3>2. CASE from = "pop_cas"
      BY <1>5, <2>2, <3>2
    <3> QED
      BY <3>1, <3>2
  <2>5. UNCHANGED <<head_, value, next, heap, n, then, chain>>
    BY <1>5 DEF Look
  <2>6. \A u \in Threads \ {t} : cur'[u] = cur[u] /\ pc'[u] = pc[u]
    BY <1>5, <2>2 DEF Look
  <2>7. TypeOK'
    <3>1. n[t] = NoNode
      BY <1>5, <2>2
    <3>2. pc' \in [Threads -> {"idle", "link", "push_cas", "pop_next", "pop_cas", "pop_value"}]
      BY <2>2
    <3>3. \A u \in Threads : /\ pc'[u] \in {"link", "push_cas"} <=> n'[u] # NoNode
                             /\ pc'[u] \in {"pop_next", "pop_cas", "pop_value"} => cur'[u].ptr # NoNode
      BY <2>1, <2>2, <2>5, <2>6, <3>1
    <3> QED
      BY <2>1, <2>3, <2>4, <2>5, <3>2, <3>3
  <2> QED
    BY <2>4, <2>6, <2>7
<1>6. ASSUME NEW t \in Threads, PopNext(t) PROVE TypeInv'
  <2>1. cur[t].ptr \in Nodes
    BY <1>6 DEF PopNext
  <2>2. then' \in [Threads -> Pointers]
    BY <1>6, <2>1 DEF PopNext
  <2> QED
    BY <1>6, <2>2 DEF PopNext
<1>7. ASSUME NEW t \in Threads, PopCas(t) PROVE TypeInv'
  <2>1. head_' \in [ptr : Pointers, tag : 0 .. Tags - 1]
    BY <1>7, TaggedType DEF PopCas
  <2>2. chain # << >>
    BY <1>7, FirstNode DEF PopCas
  <2>3. chain' \in Seq(Nodes)
    BY <1>7, <2>2, HeadTailProperties DEF PopCas
  <2> QED
    BY <1>7, <2>1, <2>3 DEF PopCas
<1>8. ASSUME NEW t \in Threads, PopValue(t) PROVE TypeInv'
  <2>1. cur[t].ptr \in Nodes
    BY <1>8 DEF PopValue
  <2> QED
    BY <1>8, <2>1 DEF PopValue
<1>9. CASE UNCHANGED vars
  BY <1>9 DEF vars
<1> QED
  BY <1>1, <1>2, <1>3, <1>4, <1>5, <1>6, <1>7, <1>8, <1>9
     DEF Next, Thread, Changes, PopLoad, PopRetry, Terminating

-----------------------------------------------------------------------------
(* The tag does not come round. *)
LEMMA ChangesFinite ==
  ASSUME NEW S \in SUBSET (Threads \X (1 .. Calls))
  PROVE  /\ IsFiniteSet(S) /\ Cardinality(S) \in Nat
         /\ Cardinality(Threads \X (1 .. Calls)) = Cardinality(Threads) * Calls
         /\ \A T \in SUBSET S : Cardinality(T) \in Nat /\ Cardinality(T) <= Cardinality(S)
         /\ \A x \in S : Cardinality(S \ {x}) = Cardinality(S) - 1
<1>1. IsFiniteSet(1 .. Calls) /\ Cardinality(1 .. Calls) = Calls
  BY Constants, FS_Interval
<1>2. /\ IsFiniteSet(Threads \X (1 .. Calls))
      /\ Cardinality(Threads \X (1 .. Calls)) = Cardinality(Threads) * Calls
  BY <1>1, TSAssumption, FS_Product DEF TSAssumption
<1>3. IsFiniteSet(S) /\ Cardinality(S) \in Nat
  BY <1>2, FS_Subset, FS_CardinalityType
<1>4. \A T \in SUBSET S : Cardinality(T) \in Nat /\ Cardinality(T) <= Cardinality(S)
  BY <1>3, FS_Subset, FS_CardinalityType
<1> QED
  BY <1>2, <1>3, <1>4, FS_RemoveElement

(* No step gives a thread more changes to make than it had, and a change   *)
(* of head_ uses one up.                                                   *)
LEMMA LeftStep ==
  ASSUME TypeInv, TypeInv', [Next]_vars
  PROVE  /\ \A t \in Threads : Left(t) \in 0 .. Calls /\ Left(t)' \in 0 .. Calls /\ Left(t)' <= Left(t)
         /\ \A t \in Threads : Changes(t) => Left(t)' = Left(t) - 1
<1>t. \A t \in Threads : /\ calls[t] \in 0 .. Calls /\ (pc[t] # "idle" => calls[t] < Calls)
                         /\ calls'[t] \in 0 .. Calls /\ (pc'[t] # "idle" => calls'[t] < Calls)
  BY DEF TypeInv, TypeOK
<1>1. \A t \in Threads : Left(t) \in 0 .. Calls /\ Left(t)' \in 0 .. Calls
  BY <1>t, Constants DEF Left
<1>2. ASSUME NEW t \in Threads, Thread(t)
      PROVE  /\ Left(t)' <= Left(t)
             /\ Changes(t) => Left(t)' = Left(t) - 1
             /\ \A u \in Threads \ {t} : Left(u)' = Left(u)
  <2>1. pc \in [Threads -> {"idle", "link", "push_cas", "pop_next", "pop_cas", "pop_value"}]
        /\ calls \in [Threads -> 0 .. Calls]
    BY DEF TypeInv, TypeOK
  <2>2. \A u \in Threads \ {t} : pc'[u] = pc[u] /\ calls'[u] = calls[u]
    BY <1>2, <2>1 DEF Thread, PushNew, PushLink, PushRetry, PopLoad, PopNext, PopRetry, PopValue, Look,
                      Changes, PushCas, PopCas, Goto, Called
  <2>3. CASE PushNew(t)
    BY <2>1, <2>3, <1>t DEF PushNew, Goto, Called, Changes, PushCas, PopCas, Left
  <2>4. CASE PushLink(t) \/ PushRetry(t) \/ PopNext(t) \/ PopValue(t)
    BY <2>1, <2>4, <1>t DEF PushLink, PushRetry, PopNext, PopValue, Goto, Changes, PushCas, PopCas, Left
  <2>5. CASE PopLoad(t) \/ PopRetry(t)
    BY <2>1, <2>5, <1>t DEF PopLoad, PopRetry, Look, Goto, Called, Changes, PushCas, PopCas, Left
  <2>6. CASE Changes(t)
    BY <2>1, <2>6, <1>t DEF Goto, Changes, PushCas, PopCas, Left
  <2>7. \A u \in Threads \ {t} : Left(u)' = Left(u)
    BY <2>2 DEF Left
  <2> QED
    BY <1>2, <2>3, <2>4, <2>5, <2>6, <2>7 DEF Thread
<1>3. \A t \in Threads : Changes(t) => Left(t)' = Left(t) - 1
  BY <1>2 DEF Thread
<1>4. CASE UNCHANGED vars
  <2>1. \A t \in Threads : Left(t)' = Left(t)
    BY <1>4 DEF vars, Left
  <2> QED
    BY <1>1, <1>3, <2>1
<1>5. ASSUME NEW t \in Threads, Thread(t)
      PROVE  \A u \in Threads : Left(u)' <= Left(u)
  BY <1>1, <1>2, <1>5
<1> QED
  BY <1>1, <1>3, <1>4, <1>5 DEF Next, Terminating

(* After a change nobody's cur is the head any more, so that every exchange *)
(* prepared before it fails.                                               *)
LEMMA TagStep ==
  TypeInv /\ Linked /\ TagInv /\ [Next]_vars
    => TagInv' /\ \A t, u \in Threads : Changes(t) => cur'[u] # head_'
<1> SUFFICES ASSUME TypeInv, Linked, TagInv, [Next]_vars
             PROVE  TagInv' /\ \A t, u \in Threads : Changes(t) => cur'[u] # head_'
  OBVIOUS
<1>0. TypeInv'
  BY TypeStep
<1>l. /\ \A t \in Threads : Left(t) \in 0 .. Calls /\ Left(t)' \in 0 .. Calls /\ Left(t)' <= Left(t)
      /\ \A t \in Threads : Changes(t) => Left(t)' = Left(t) - 1
  BY <1>0, LeftStep
<1>t. /\ head_ \in [ptr : Pointers, tag : 0 .. Tags - 1]
      /\ cur \in [Threads -> [ptr : Pointers, tag : 0 .. Tags - 1]]
      /\ head_.tag \in Nat /\ \A t \in Threads : cur[t].tag \in Nat
  BY Constants DEF TypeInv, TypeOK
<1>s. ChangesLeft \in SUBSET (Threads \X (1 .. Calls))
  BY DEF ChangesLeft
<1>d. ChangesLeft' \subseteq ChangesLeft
  BY <1>l, Constants DEF ChangesLeft
<1>c. /\ Cardinality(ChangesLeft) \in Nat /\ Cardinality(ChangesLeft') \in Nat
      /\ Cardinality(ChangesLeft') <= Cardinality(ChangesLeft)
  BY <1>s, <1>d, ChangesFinite
<1>1. ASSUME NEW t \in Threads, Changes(t)
      PROVE  TagInv' /\ \A u \in Threads : cur'[u] # head_'
  <2>1. <<t, Left(t)>> \in ChangesLeft /\ <<t, Left(t)>> \notin ChangesLeft'
    BY <1>1, <1>l, Constants DEF ChangesLeft
  <2>2. ChangesLeft' \in SUBSET (ChangesLeft \ {<<t, Left(t)>>})
    BY <1>d, <2>1
  <2>3. Cardinality(ChangesLeft \ {<<t, Left(t)>>}) = Cardinality(ChangesLeft) - 1
    BY <1>s, <2>1, ChangesFinite
  <2>4. Cardinality(ChangesLeft') <= Cardinality(ChangesLeft) - 1
    <3>1. ChangesLeft \ {<<t, Left(t)>>} \in SUBSET (Threads \X (1 .. Calls))
      BY <1>s
    <3> QED
      BY <2>2, <2>3, <3>1, ChangesFinite
  <2>5. head_.tag + 1 <= Cardinality(Threads) * Calls
    BY <1>c, <1>t, <2>4, Constants DEF TagInv
  <2>6. head_'.tag = head_.tag + 1
    <3>1. head_'.tag = (head_.tag + 1) % Tags
      BY <1>1 DEF Changes, PushCas, PopCas, Tagged
    <3>2. head_.tag + 1 \in 0 .. Tags - 1
      BY <1>t, <2>5, Constants
    <3> QED
      BY <3>1, <3>2, NoWrap
  <2>7. cur' = cur
    BY <1>1 DEF Changes, PushCas, PopCas, locals
  <2>8. \A u \in Threads : cur'[u].tag < head_'.tag
    BY <1>t, <2>6, <2>7 DEF TagInv
  <2>9. \A u \in Threads : cur'[u].tag <= head_'.tag /\ (cur'[u].tag = head_'.tag => cur'[u] = head_')
    BY <1>t, <2>6, <2>7, <2>8
  <2>10. head_'.tag + Cardinality(ChangesLeft') <= Cardinality(Threads) * Calls
    BY <1>c, <1>t, <2>4, <2>6, Constants DEF TagInv
  <2>11. \A u \in Threads : cur'[u] # head_'
    BY <1>t, <2>6, <2>7, <2>8
  <2> QED
    BY <2>9, <2>10, <2>11 DEF TagInv
<1>2. ASSUME head_' = head_, \A t \in Threads : cur'[t] = cur[t] \/ cur'[t] = head_ PROVE TagInv'
  <2>1. \A u \in Threads : cur'[u].tag <= head_'.tag /\ (cur'[u].tag = head_'.tag => cur'[u] = head_')
    BY <1>2, <1>t DEF TagInv
  <2>2. head_'.tag + Cardinality(ChangesLeft') <= Cardinality(Threads) * Calls
    BY <1>2, <1>c, <1>t, Constants DEF TagInv
  <2> QED
    BY <2>1, <2>2 DEF TagInv
<1>3. ASSUME NEW t \in Threads, Thread(t), ~ Changes(t) PROVE TagInv'
  <2>1. head_' = head_ /\ \A u \in Threads : cur'[u] = cur[u] \/ cur'[u] = head_
    BY <1>3, <1>t DEF Thread, PushNew, PushLink, PushRetry, PopLoad, PopNext, PopRetry, PopValue, Look, Reload, locals
  <2> QED
    BY <1>2, <2>1
<1>4. ASSUME UNCHANGED vars PROVE TagInv'
  <2>1. head_' = head_ /\ \A u \in Threads : cur'[u] = cur[u] \/ cur'[u] = head_
    BY <1>4 DEF vars, locals
  <2> QED
    BY <1>2, <2>1
<1>5. \A t, u \in Threads : Changes(t) => cur'[u] # head_'
  BY <1>1
<1> QED
  BY <1>1, <1>3, <1>4, <1>5 DEF Next, Terminating

-----------------------------------------------------------------------------
(* Linked, in the terms the proofs use. *)
After(k) == IF k < Len(chain) THEN chain[k + 1] ELSE NoNode
ListInv ==
  /\ head_.ptr = After(0)
  /\ \A k \in 1 .. Len(chain) :
       /\ next[chain[k]] = After(k)
       /\ chain[k] \in Nodes \ heap
       /\ \A t \in Threads : chain[k] # n[t]
       /\ \A j \in 1 .. Len(chain) : chain[j] = chain[k] => j = k
ListAndMore == ListInv /\ OwnInv /\ ReadInv /\ ValueInv

LEMMA LinkedIsListInv == TypeInv => (Linked <=> ListInv)
<1> SUFFICES ASSUME TypeInv PROVE Linked <=> ListInv
  OBVIOUS
<1>1. DOMAIN chain = 1 .. Len(chain) /\ \A k \in 1 .. Len(chain) : chain[k] \in Nodes
  BY LenProperties, ElementOfSeq DEF TypeInv, TypeOK
<1> QED
  BY <1>1 DEF Linked, ListInv, After

(* Steps that change neither head_ nor the list, but a node outside it or  *)
(* the locals of a thread.                                                 *)
LEMMA ListKept ==
  ASSUME TypeInv, ListInv, head_' = head_, chain' = chain,
         \A k \in 1 .. Len(chain) : /\ next'[chain[k]] = next[chain[k]]
                                    /\ chain[k] \notin heap'
                                    /\ \A t \in Threads : chain[k] # n'[t]
  PROVE  ListInv'
BY DEF ListInv, After

(* The node at the head, as a thread that is about to pop it sees it.      *)
LEMMA HeadNode ==
  ASSUME TypeInv, ListInv, head_.ptr # NoNode
  PROVE  /\ Len(chain) \in Nat \ {0} /\ chain # << >> /\ head_.ptr = chain[1] /\ InChain(head_.ptr)
         /\ next[head_.ptr] = After(1) /\ head_.ptr \in Nodes \ heap
<1>1. Len(chain) \in Nat /\ Len(chain) > 0
  BY LenProperties DEF ListInv, After, TypeInv, TypeOK
<1>2. 1 \in 1 .. Len(chain) /\ head_.ptr = chain[1]
  BY <1>1 DEF ListInv, After
<1> QED
  BY <1>1, <1>2, EmptySeq DEF ListInv, InChain, TypeInv, TypeOK

LEMMA ListInit == Init => ListAndMore
<1> SUFFICES ASSUME Init PROVE ListAndMore
  OBVIOUS
<1>1. Len(chain) = 0 /\ head_.ptr = NoNode /\ heap = Nodes
      /\ \A t \in Threads : pc[t] = "idle" /\ n[t] = NoNode
  BY DEF Init
<1> QED
  BY <1>1 DEF ListAndMore, ListInv, After, OwnInv, Own, ReadInv, ValueInv

(* One more node in front of the list. *)
LEMMA Pushed ==
  ASSUME NEW S, NEW s \in Seq(S), NEW x \in S
  PROVE  /\ Len(<<x>> \o s) = Len(s) + 1 /\ (<<x>> \o s)[1] = x
         /\ \A k \in 1 .. Len(s) : (<<x>> \o s)[k + 1] = s[k]
<1>1. <<x>> \in Seq(S) /\ Len(<<x>>) = 1 /\ <<x>>[1] = x /\ Len(s) \in Nat
  BY LenProperties
<1>2. /\ Len(<<x>> \o s) = 1 + Len(s)
      /\ \A i \in 1 .. 1 + Len(s) : (<<x>> \o s)[i] = IF i <= 1 THEN <<x>>[i] ELSE s[i - 1]
  BY <1>1, ConcatProperties
<1> QED
  BY <1>1, <1>2

(* Each step keeps the list, and what the threads have read of it. *)
LEMMA ListStep == TypeInv /\ TagInv /\ ListAndMore /\ [Next]_vars => ListAndMore'
<1> SUFFICES ASSUME TypeInv, TagInv, ListAndMore, [Next]_vars PROVE ListAndMore'
  OBVIOUS
<1>0. /\ Linked /\ TypeInv' /\ ListInv /\ OwnInv /\ ReadInv /\ ValueInv
      /\ \A t, u \in Threads : Changes(t) => cur'[u] # head_'
  BY LinkedIsListInv, TypeStep, TagStep DEF ListAndMore
<1>t. /\ next \in [Nodes -> Pointers] /\ value \in [Nodes -> Values \cup {Empty}] /\ heap \subseteq Nodes
      /\ pc \in [Threads -> {"idle", "link", "push_cas", "pop_next", "pop_cas", "pop_value"}]
      /\ cur \in [Threads -> [ptr : Pointers, tag : 0 .. Tags - 1]]
      /\ n \in [Threads -> Pointers] /\ then \in [Threads -> Pointers]
      /\ \A t \in Threads : /\ pc[t] \in {"link", "push_cas"} <=> n[t] # NoNode
                            /\ pc[t] \in {"pop_next", "pop_cas", "pop_value"} => cur[t].ptr # NoNode
      /\ Len(chain) \in Nat /\ NoNode \notin Nodes
  BY LenProperties, Constants DEF TypeInv, TypeOK
<1> USE DEF Goto, nodes, locals
<1>1. ASSUME NEW t \in Threads, PushNew(t) PROVE ListAndMore'
  <2>1. PICK x \in heap : /\ heap' = heap \ {x}
                          /\ value' = [value EXCEPT ![x] = <<t, calls[t]>>]
                          /\ next' = [next EXCEPT ![x] = NoNode]
                          /\ n' = [n EXCEPT ![t] = x]
    BY <1>1 DEF PushNew
  <2>2. /\ pc' = [pc EXCEPT ![t] = "link"] /\ pc[t] = "idle" /\ cur' = [cur EXCEPT ![t] = head_]
        /\ UNCHANGED <<head_, then, out, chain>> /\ calls[t] > 0
    BY <1>1 DEF PushNew, Reload, Called
  <2>3. \A k \in 1 .. Len(chain) : chain[k] # x
    BY <1>0 DEF ListInv
  <2>4. ListInv'
    <3>1. \A k \in 1 .. Len(chain) : /\ next'[chain[k]] = next[chain[k]]
                                     /\ chain[k] \notin heap'
                                     /\ \A u \in Threads : chain[k] # n'[u]
      BY <1>0, <1>t, <2>1, <2>2, <2>3 DEF ListInv
    <3> QED
      BY <1>0, <2>2, <3>1, ListKept
  <2>5. Own(t)' = x /\ \A u \in Threads \ {t} : Own(u)' = Own(u)
    BY <1>t, <2>1, <2>2 DEF Own
  <2>6. OwnInv'
    <3>1. chain' = chain /\ x \in heap /\ \A y \in heap' : y \in heap /\ y # x
      BY <2>1, <2>2
    <3>2. x \notin heap' /\ ~ InChain(x)'
      BY <2>3, <3>1 DEF InChain
    <3>3. ASSUME NEW u \in Threads \ {t}, Own(u) # NoNode
          PROVE  Own(u) \notin heap' /\ ~ InChain(Own(u))' /\ Own(u) # x
      <4>1. Own(u) \notin heap /\ ~ InChain(Own(u))
        BY <1>0, <3>3 DEF OwnInv
      <4>2. Own(u)' = Own(u)
        BY <2>5
      <4> QED
        BY <3>1, <4>1, <4>2 DEF InChain
    <3>4. \A u, v \in Threads \ {t} : Own(u) # NoNode /\ Own(u) = Own(v) => u = v
      BY <1>0 DEF OwnInv
    <3> QED
      BY <2>5, <3>2, <3>3, <3>4 DEF OwnInv
  <2>7. ReadInv'
    <3>1. ASSUME NEW u \in Threads, pc'[u] = "push_cas" PROVE next'[n'[u]] = cur'[u].ptr
      <4>1. u # t /\ pc[u] = "push_cas" /\ n'[u] = n[u] /\ cur'[u] = cur[u]
        BY <1>t, <2>1, <2>2, <3>1
      <4>2. n[u] # x /\ n[u] \in Nodes
        BY <1>0, <1>t, <4>1 DEF OwnInv, Own, Pointers
      <4> QED
        BY <1>0, <1>t, <2>1, <4>1, <4>2 DEF ReadInv
    <3>2. ASSUME NEW u \in Threads, pc'[u] = "pop_cas", cur'[u] = head_' PROVE then'[u] = next'[head_'.ptr]
      <4>1. u # t /\ pc[u] = "pop_cas" /\ cur[u] = head_ /\ head_.ptr # NoNode
        BY <1>t, <2>2, <3>2
      <4>2. head_.ptr # x /\ head_.ptr \in Nodes
        BY <1>0, <4>1, HeadNode
      <4> QED
        BY <1>0, <1>t, <2>1, <2>2, <4>1, <4>2 DEF ReadInv
    <3> QED
      BY <3>1, <3>2 DEF ReadInv
  <2>8. ValueInv'
    <3>1. <<t, calls[t]>> \in Values
      BY <2>2, Constants DEF TypeInv, TypeOK, Values
    <3> QED
      BY <1>0, <1>t, <2>1, <3>1 DEF ValueInv
  <2> QED
    BY <2>4, <2>6, <2>7, <2>8 DEF ListAndMore
<1>2. ASSUME NEW t \in Threads, PushLink(t) PROVE ListAndMore'
  <2>1. /\ pc[t] = "link" /\ pc' = [pc EXCEPT ![t] = "push_cas"]
        /\ next' = [next EXCEPT ![n[t]] = cur[t].ptr]
        /\ UNCHANGED <<head_, value, heap, n, cur, then, chain>>
    BY <1>2 DEF PushLink
  <2>2. n[t] # NoNode /\ n[t] \in Nodes /\ Own(t) = n[t]
    BY <1>t, <2>1 DEF Pointers, Own
  <2>3. ListInv'
    <3>1. \A k \in 1 .. Len(chain) : /\ next'[chain[k]] = next[chain[k]]
                                     /\ chain[k] \notin heap'
                                     /\ \A u \in Threads : chain[k] # n'[u]
      BY <1>0, <1>t, <2>1 DEF ListInv
    <3> QED
      BY <1>0, <2>1, <3>1, ListKept
  <2>4. \A u \in Threads : Own(u)' = Own(u)
    BY <1>t, <2>1 DEF Own
  <2>5. OwnInv'
    BY <1>0, <2>1, <2>4 DEF OwnInv, InChain
  <2>6. ReadInv'
    <3>1. ASSUME NEW u \in Threads, pc'[u] = "push_cas" PROVE next'[n'[u]] = cur'[u].ptr
      <4>1. CASE u = t
        BY <1>t, <2>1, <2>2, <4>1
      <4>2. CASE u # t
        <5>1. pc[u] = "push_cas" /\ Own(u) = n[u] /\ n[u] # NoNode
          BY <1>t, <2>1, <3>1, <4>2 DEF Own
        <5>2. n[u] # n[t]
          BY <1>0, <2>2, <4>2, <5>1 DEF OwnInv
        <5> QED
          BY <1>0, <1>t, <2>1, <5>1, <5>2 DEF ReadInv, Pointers
      <4> QED
        BY <4>1, <4>2
    <3>2. ASSUME NEW u \in Threads, pc'[u] = "pop_cas", cur'[u] = head_' PROVE then'[u] = next'[head_'.ptr]
      <4>1. pc[u] = "pop_cas" /\ cur[u] = head_ /\ head_.ptr # NoNode
        BY <1>t, <2>1, <3>2
      <4>2. head_.ptr # n[t] /\ head_.ptr \in Nodes
        BY <1>0, <2>2, <4>1, HeadNode DEF OwnInv
      <4> QED
        BY <1>0, <1>t, <2>1, <4>1, <4>2 DEF ReadInv
    <3> QED
      BY <3>1, <3>2 DEF ReadInv
  <2> QED
    BY <1>0, <2>1, <2>3, <2>5, <2>6 DEF ListAndMore, ValueInv
<1>3. ASSUME NEW t \in Threads, PushCas(t) PROVE ListAndMore'
  <2>1. /\ pc[t] = "push_cas" /\ pc' = [pc EXCEPT ![t] = "idle"] /\ head_ = cur[t]
        /\ head_'.ptr = n[t] /\ chain' = <<n[t]>> \o chain /\ n' = [n EXCEPT ![t] = NoNode]
        /\ UNCHANGED <<next, value, heap, cur, then>>
    BY <1>3 DEF PushCas, Tagged
  <2>2. n[t] # NoNode /\ n[t] \in Nodes /\ Own(t) = n[t]
    BY <1>t, <2>1 DEF Pointers, Own
  <2>3. n[t] \notin heap /\ ~ InChain(n[t]) /\ \A u \in Threads : Own(u) = n[t] => u = t
    BY <1>0, <2>2 DEF OwnInv
  <2>4. next[n[t]] = After(0)
    BY <1>0, <2>1 DEF ReadInv, ListInv
  <2>5. /\ Len(chain') = Len(chain) + 1 /\ chain'[1] = n[t]
        /\ \A k \in 1 .. Len(chain) : chain'[k + 1] = chain[k]
    BY <1>t, <2>1, <2>2, Pushed DEF TypeInv, TypeOK
  <2>6. \A u \in Threads \ {t} : n[u] # n[t]
    BY <1>t, <2>2, <2>3 DEF Own
  <2>7. \A k \in 1 .. Len(chain') : k = 1 \/ (k - 1 \in 1 .. Len(chain) /\ chain'[k] = chain[k - 1])
    BY <1>t, <2>5
  <2>8. ListInv'
    <3>1. head_'.ptr = After(0)'
      BY <1>t, <2>1, <2>5 DEF After
    <3>2. ASSUME NEW k \in 1 .. Len(chain')
          PROVE  /\ next'[chain'[k]] = After(k)'
                 /\ chain'[k] \in Nodes \ heap'
                 /\ \A u \in Threads : chain'[k] # n'[u]
                 /\ \A j \in 1 .. Len(chain') : chain'[j] = chain'[k] => j = k
      <4>1. CASE k = 1
        <5>1. next'[chain'[k]] = After(k)'
          BY <1>t, <2>1, <2>4, <2>5, <4>1 DEF After
        <5>2. \A j \in 1 .. Len(chain') : chain'[j] = chain'[k] => j = k
          BY <2>3, <2>5, <2>7, <4>1 DEF InChain
        <5> QED
          BY <1>t, <2>1, <2>2, <2>3, <2>5, <2>6, <4>1, <5>1, <5>2
      <4>2. CASE k # 1
        <5> DEFINE i == k - 1
        <5>1. i \in 1 .. Len(chain) /\ chain'[k] = chain[i]
          BY <2>7, <4>2
        <5>2. next[chain[i]] = After(i) /\ chain[i] \in Nodes \ heap /\ (\A u \in Threads : chain[i] # n[u])
              /\ \A j \in 1 .. Len(chain) : chain[j] = chain[i] => j = i
          BY <1>0, <5>1 DEF ListInv
        <5>3. After(i) = After(k)'
          <6>1. i < Len(chain) <=> k < Len(chain')
            BY <1>t, <2>5
          <6>2. i < Len(chain) => chain[i + 1] = chain'[k + 1]
            BY <1>t, <2>5, <5>1
          <6> QED
            BY <6>1, <6>2 DEF After
        <5>4. \A j \in 1 .. Len(chain') : chain'[j] = chain'[k] => j = k
          <6>1. ASSUME NEW j \in 1 .. Len(chain'), chain'[j] = chain'[k] PROVE j = k
            <7>1. chain[i] # n[t]
              BY <2>3, <5>1 DEF InChain
            <7>2. j - 1 \in 1 .. Len(chain) /\ chain[j - 1] = chain[i]
              BY <2>5, <2>7, <5>1, <6>1, <7>1
            <7>3. j - 1 = i
              BY <5>2, <7>2
            <7> QED
              BY <7>3
          <6> QED
            BY <6>1
        <5>5. \A u \in Threads : chain'[k] # n'[u]
          BY <1>t, <2>1, <5>1, <5>2
        <5> QED
          BY <2>1, <5>1, <5>2, <5>3, <5>4, <5>5
      <4> QED
        BY <4>1, <4>2
    <3> QED
      BY <3>1, <3>2 DEF ListInv
  <2>9. OwnInv'
    <3>1. Own(t)' = NoNode /\ \A u \in Threads \ {t} : Own(u)' = Own(u)
      BY <1>t, <2>1 DEF Own
    <3>2. ASSUME NEW u \in Threads \ {t}, Own(u) # NoNode PROVE ~ InChain(Own(u))'
      <4>1. Own(u) # n[t] /\ ~ InChain(Own(u))
        BY <1>0, <2>3, <3>2 DEF OwnInv
      <4>2. \A k \in 1 .. Len(chain') : chain'[k] # Own(u)
        BY <2>5, <2>7, <4>1 DEF InChain
      <4> QED
        BY <3>1, <4>2 DEF InChain
    <3> QED
      BY <1>0, <2>1, <3>1, <3>2 DEF OwnInv
  <2>10. ReadInv'
    <3>1. \A u \in Threads : cur'[u] # head_'
      BY <1>0, <1>3 DEF Changes
    <3> QED
      BY <1>0, <1>t, <2>1, <3>1 DEF ReadInv
  <2> QED
    BY <1>0, <2>1, <2>8, <2>9, <2>10 DEF ListAndMore, ValueInv
<1>4. ASSUME UNCHANGED <<head_, nodes, n, chain>>,
             \A u \in Threads : Own(u)' = Own(u),
             \A u \in Threads : pc'[u] = "push_cas" => pc[u] = "push_cas" /\ cur'[u] = cur[u],
             \A u \in Threads : pc'[u] = "pop_cas" /\ cur'[u] = head_ =>
               then'[u] = next[head_.ptr]
      PROVE  ListAndMore'
  <2>1. ListInv'
    BY <1>0, <1>4, ListKept DEF ListInv
  <2>2. OwnInv'
    BY <1>0, <1>4 DEF OwnInv, InChain
  <2>3. ReadInv'
    BY <1>0, <1>4 DEF ReadInv
  <2> QED
    BY <1>0, <1>4, <2>1, <2>2, <2>3 DEF ListAndMore, ValueInv
<1>5. ASSUME NEW t \in Threads, PushRetry(t) PROVE ListAndMore'
  <2>1. \A u \in Threads : Own(u)' = Own(u)
    BY <1>t, <1>5 DEF PushRetry, Reload, Own
  <2> QED
    BY <1>0, <1>t, <1>5, <1>4, <2>1 DEF PushRetry, Reload, ReadInv
<1>6. ASSUME NEW t \in Threads, PopLoad(t) \/ PopRetry(t) PROVE ListAndMore'
  <2>1. \A u \in Threads : Own(u)' = Own(u)
    BY <1>t, <1>6 DEF PopLoad, PopRetry, Look, Reload, Own
  <2> QED
    <3>1. UNCHANGED <<head_, nodes, n, chain>>
      BY <1>6 DEF PopLoad, PopRetry, Look
    <3>2. /\ \E p \in {"idle", "pop_next"} : pc' = [pc EXCEPT ![t] = p]
          /\ cur' = [cur EXCEPT ![t] = head_] /\ then' = then
      BY <1>6 DEF PopLoad, PopRetry, Look, Reload
    <3>3. \A u \in Threads : pc'[u] \in {"push_cas", "pop_cas"} =>
            pc[u] = pc'[u] /\ cur'[u] = cur[u] /\ then'[u] = then[u]
      BY <1>t, <3>2
    <3>4. \A u \in Threads : pc'[u] = "push_cas" => pc[u] = "push_cas" /\ cur'[u] = cur[u]
      BY <3>3
    <3>5. \A u \in Threads : pc'[u] = "pop_cas" /\ cur'[u] = head_ => then'[u] = next[head_.ptr]
      BY <1>0, <3>3 DEF ReadInv
    <3> QED
      BY <1>4, <2>1, <3>1, <3>4, <3>5
<1>7. ASSUME NEW t \in Threads, PopNext(t) PROVE ListAndMore'
  <2>1. \A u \in Threads : Own(u)' = Own(u)
    BY <1>t, <1>7 DEF PopNext, Own
  <2>2. cur[t] = head_ => then'[t] = next[head_.ptr]
    <3>1. head_.ptr = cur[t].ptr => head_.ptr # NoNode
      BY <1>t, <1>7 DEF PopNext
    <3> QED
      BY <1>0, <1>t, <1>7, <3>1, HeadNode DEF PopNext
  <2> QED
    BY <1>0, <1>t, <1>7, <1>4, <2>1, <2>2 DEF PopNext, ReadInv
<1>8. ASSUME NEW t \in Threads, PopCas(t) PROVE ListAndMore'
  <2>1. /\ pc[t] = "pop_cas" /\ pc' = [pc EXCEPT ![t] = "pop_value"] /\ head_ = cur[t]
        /\ head_'.ptr = then[t] /\ chain' = Tail(chain)
        /\ UNCHANGED <<next, value, heap, n, cur, then>>
    BY <1>8 DEF PopCas, Tagged
  <2>2. /\ Len(chain) \in Nat \ {0} /\ chain # << >> /\ head_.ptr = chain[1]
        /\ next[head_.ptr] = After(1) /\ head_.ptr \in Nodes \ heap
    BY <1>0, <1>t, <2>1, HeadNode
  <2>3. then[t] = After(1)
    BY <1>0, <2>1, <2>2 DEF ReadInv
  <2>4. Len(chain') = Len(chain) - 1 /\ \A k \in 1 .. Len(chain') : chain'[k] = chain[k + 1]
    BY <2>1, <2>2, HeadTailProperties DEF TypeInv, TypeOK
  <2>5. \A k \in 1 .. Len(chain') : k + 1 \in 1 .. Len(chain)
    BY <2>2, <2>4
  <2>6. \A k \in 0 .. Len(chain') : After(k)' = After(k + 1)
    <3>1. ASSUME NEW k \in 0 .. Len(chain') PROVE After(k)' = After(k + 1)
      <4>1. k < Len(chain') <=> k + 1 < Len(chain)
        BY <2>2, <2>4
      <4>2. k < Len(chain') => chain'[k + 1] = chain[k + 1 + 1]
        BY <2>2, <2>4
      <4> QED
        BY <4>1, <4>2 DEF After
    <3> QED
      BY <3>1
  <2>7. ListInv'
    <3>1. head_'.ptr = After(0)'
      BY <2>1, <2>2, <2>3, <2>4, <2>6
    <3>2. ASSUME NEW k \in 1 .. Len(chain')
          PROVE  /\ next'[chain'[k]] = After(k)'
                 /\ chain'[k] \in Nodes \ heap'
                 /\ \A u \in Threads : chain'[k] # n'[u]
                 /\ \A j \in 1 .. Len(chain') : chain'[j] = chain'[k] => j = k
      <4>1. k + 1 \in 1 .. Len(chain) /\ chain'[k] = chain[k + 1] /\ After(k)' = After(k + 1)
        BY <2>2, <2>4, <2>5, <2>6
      <4>2. /\ next[chain[k + 1]] = After(k + 1) /\ chain[k + 1] \in Nodes \ heap
            /\ \A u \in Threads : chain[k + 1] # n[u]
            /\ \A j \in 1 .. Len(chain) : chain[j] = chain[k + 1] => j = k + 1
        BY <1>0, <4>1 DEF ListInv
      <4>3. \A j \in 1 .. Len(chain') : chain'[j] = chain'[k] => j = k
        <5>1. ASSUME NEW j \in 1 .. Len(chain'), chain'[j] = chain'[k] PROVE j = k
          <6>1. j + 1 \in 1 .. Len(chain) /\ chain[j + 1] = chain[k + 1]
            BY <2>4, <2>5, <4>1, <5>1
          <6>2. j + 1 = k + 1
            BY <4>2, <6>1
          <6> QED
            BY <6>2
        <5> QED
          BY <5>1
      <4> QED
        BY <2>1, <4>1, <4>2, <4>3
    <3> QED
      BY <3>1, <3>2 DEF ListInv
  <2>8. Own(t)' = chain[1] /\ \A u \in Threads \ {t} : Own(u)' = Own(u)
    BY <1>t, <2>1, <2>2 DEF Own
  <2>9. OwnInv'
    <3>1. chain[1] \notin heap' /\ \A k \in 1 .. Len(chain') : chain'[k] # chain[1]
      <4>1. \A k \in 1 .. Len(chain') : k + 1 # 1 /\ 1 \in 1 .. Len(chain)
        BY <2>2
      <4> QED
        BY <1>0, <2>1, <2>2, <2>4, <2>5, <4>1 DEF ListInv
    <3>2. \A u \in Threads \ {t} : Own(u) # chain[1]
      <4>1. InChain(chain[1]) /\ chain[1] # NoNode
        BY <1>t, <2>2 DEF InChain
      <4> QED
        BY <1>0, <4>1 DEF OwnInv
    <3>3. \A u \in Threads \ {t} : Own(u) # NoNode => \A k \in 1 .. Len(chain') : chain'[k] # Own(u)
      BY <1>0, <2>4, <2>5 DEF OwnInv, InChain
    <3>4. ASSUME NEW u \in Threads, Own(u)' # NoNode
          PROVE  Own(u)' \notin heap' /\ ~ InChain(Own(u))' /\ \A v \in Threads : Own(v)' = Own(u)' => v = u
      <4>1. CASE u = t
        BY <2>8, <3>1, <3>2, <4>1 DEF InChain
      <4>2. CASE u # t
        BY <1>0, <2>1, <2>8, <3>2, <3>3, <3>4, <4>2 DEF OwnInv, InChain
      <4> QED
        BY <4>1, <4>2
    <3> QED
      BY <3>4 DEF OwnInv
  <2>10. ReadInv'
    <3>1. \A u \in Threads : cur'[u] # head_'
      BY <1>0, <1>8 DEF Changes
    <3> QED
      BY <1>0, <1>t, <2>1, <3>1 DEF ReadInv
  <2> QED
    BY <1>0, <2>1, <2>7, <2>9, <2>10 DEF ListAndMore, ValueInv
<1>9. ASSUME NEW t \in Threads, PopValue(t) PROVE ListAndMore'
  <2>1. /\ pc[t] = "pop_value" /\ pc' = [pc EXCEPT ![t] = "idle"]
        /\ heap' \in {heap, heap \cup {cur[t].ptr}}
        /\ UNCHANGED <<head_, value, next, n, cur, then, chain>>
    BY <1>9 DEF PopValue
  <2>2. Own(t) = cur[t].ptr /\ cur[t].ptr # NoNode
    BY <1>t, <2>1 DEF Own
  <2>3. ~ InChain(cur[t].ptr) /\ \A u \in Threads \ {t} : Own(u) # cur[t].ptr
    BY <1>0, <2>2 DEF OwnInv
  <2>4. ListInv'
    <3>1. \A k \in 1 .. Len(chain) : /\ next'[chain[k]] = next[chain[k]]
                                     /\ chain[k] \notin heap'
                                     /\ \A u \in Threads : chain[k] # n'[u]
      BY <1>0, <2>1, <2>3 DEF ListInv, InChain
    <3> QED
      BY <1>0, <2>1, <3>1, ListKept
  <2>5. Own(t)' = NoNode /\ \A u \in Threads \ {t} : Own(u)' = Own(u)
    BY <1>t, <2>1 DEF Own
  <2>6. OwnInv'
    BY <1>0, <2>1, <2>3, <2>5 DEF OwnInv, InChain
  <2>7. ReadInv'
    BY <1>0, <1>t, <2>1 DEF ReadInv
  <2>8. ValueInv'
    BY <1>0, <2>1 DEF ValueInv
  <2> QED
    BY <2>4, <2>6, <2>7, <2>8 DEF ListAndMore
<1>10. CASE UNCHANGED vars
  <2>1. \A u \in Threads : Own(u)' = Own(u)
    BY <1>10 DEF vars, Own
  <2> QED
    BY <1>0, <1>4, <1>10, <2>1 DEF vars, ReadInv
<1> QED
  BY <1>1, <1>2, <1>3, <1>5, <1>6, <1>7, <1>8, <1>9, <1>10 DEF Next, Thread, Changes, Terminating

-----------------------------------------------------------------------------
LEMMA Inductive == Spec => []IInv
<1>1. Init => TypeInv /\ ListAndMore
  BY TypeInit, ListInit
<1>2. Init => TagInv
  <2> SUFFICES ASSUME Init PROVE TagInv
    OBVIOUS
  <2>1. head_.tag = 0 /\ \A t \in Threads : cur[t] = head_
    BY DEF Init
  <2>2. ChangesLeft \in SUBSET (Threads \X (1 .. Calls))
    BY DEF ChangesLeft
  <2>3. Cardinality(ChangesLeft) \in Nat /\ Cardinality(ChangesLeft) <= Cardinality(Threads) * Calls
    BY <2>2, ChangesFinite
  <2> QED
    BY <2>1, <2>3, Constants DEF TagInv
<1>3. TypeInv => (Linked <=> ListInv)
  BY LinkedIsListInv
<1>4. IInv /\ [Next]_vars => TypeInv' /\ TagInv' /\ ListAndMore'
  BY <1>3, TypeStep, TagStep, ListStep DEF IInv, ListAndMore
<1>5. (TypeInv => (Linked <=> ListInv))'
  BY <1>3, PTL
<1>6. Init => IInv
  BY <1>1, <1>2, <1>3 DEF IInv, ListAndMore
<1>7. IInv /\ [Next]_vars => IInv'
  BY <1>4, <1>5 DEF IInv, ListAndMore
<1> QED
  BY <1>6, <1>7, PTL DEF Spec

(* The types of every variable. *)
THEOREM TypeCorrect == Spec => []TypeOK
<1>1. IInv => TypeOK
  BY DEF IInv, TypeInv
<1> QED
  BY <1>1, Inductive, PTL

(* The list that starts at head_ is what the exchanges that succeeded have *)
(* made of it, though a node may be freed and pushed again between the     *)
(* load of head_ and the exchange (lines 51-55 and 62-69).                 *)
THEOREM ListIsIntact == Spec => []Linked
<1>1. IInv => Linked
  BY DEF IInv
<1> QED
  BY <1>1, Inductive, PTL

-----------------------------------------------------------------------------
(* The abstract stack. *)
Contents == [k \in DOMAIN chain |-> value[chain[k]]]
Result   == [t \in Threads |-> IF pc[t] = "pop_value" THEN value[cur[t].ptr] ELSE out[t]]

(* A step that changes no node of the list and no result is a stutter.     *)
LEMMA Stutter ==
  ASSUME TypeInv, chain' = chain, \A k \in 1 .. Len(chain) : value'[chain[k]] = value[chain[k]],
         \A u \in Threads : Result[u]' = Result[u]
  PROVE  UNCHANGED <<Contents, Result>>
<1>1. DOMAIN chain = 1 .. Len(chain)
  BY LenProperties DEF TypeInv, TypeOK
<1> QED
  BY <1>1 DEF Contents, Result

(* A function of 1 .. m is a sequence of length m. *)
LEMMA FunctionIsSeq ==
  ASSUME NEW S, NEW m \in Nat, NEW f \in [1 .. m -> S]
  PROVE  f \in Seq(S) /\ Len(f) = m
OBVIOUS

(* The initial state, and each step, as the abstract stack sees them. *)
LEMMA StackInit == Init => Abstract!SInit
<1> SUFFICES ASSUME Init PROVE Abstract!SInit
  OBVIOUS
<1>1. Contents = << >>
  BY DEF Init, Contents
<1>2. Result = [t \in Threads |-> Empty]
  BY DEF Init, Result
<1> QED
  BY <1>1, <1>2 DEF Abstract!SInit, Contents, Result

LEMMA StackStep == IInv /\ [Next]_vars => [Abstract!SNext]_(Abstract!svars)
<1> SUFFICES ASSUME IInv, [Next]_vars
             PROVE  \/ \E v \in Values : Contents' = <<v>> \o Contents /\ Result' = Result
                    \/ \E t \in Threads :
                         \/ /\ Contents # << >>
                            /\ Result' = [Result EXCEPT ![t] = Head(Contents)]
                            /\ Contents' = Tail(Contents)
                         \/ /\ Contents = << >>
                            /\ Result' = [Result EXCEPT ![t] = Empty]
                            /\ Contents' = Contents
                    \/ UNCHANGED <<Contents, Result>>
  BY DEF Abstract!SNext, Abstract!Push, Abstract!Pop, Abstract!PopNothing, Abstract!svars, Contents, Result
<1>0. /\ TypeInv /\ TypeOK /\ Linked /\ ListInv /\ OwnInv /\ ReadInv /\ ValueInv
  BY LinkedIsListInv DEF IInv, TypeInv
<1>t. /\ next \in [Nodes -> Pointers] /\ value \in [Nodes -> Values \cup {Empty}] /\ heap \subseteq Nodes
      /\ pc \in [Threads -> {"idle", "link", "push_cas", "pop_next", "pop_cas", "pop_value"}]
      /\ out \in [Threads -> Values \cup {Empty}]
      /\ cur \in [Threads -> [ptr : Pointers, tag : 0 .. Tags - 1]]
      /\ n \in [Threads -> Pointers]
      /\ \A t \in Threads : /\ pc[t] \in {"link", "push_cas"} <=> n[t] # NoNode
                            /\ pc[t] \in {"pop_next", "pop_cas", "pop_value"} => cur[t].ptr # NoNode
      /\ chain \in Seq(Nodes) /\ Len(chain) \in Nat /\ DOMAIN chain = 1 .. Len(chain)
      /\ NoNode \notin Nodes
  BY <1>0, LenProperties, Constants DEF TypeOK
<1>c. /\ Contents \in Seq(Values \cup {Empty}) /\ Len(Contents) = Len(chain)
      /\ \A k \in 1 .. Len(chain) : Contents[k] = value[chain[k]]
      /\ Contents = << >> <=> chain = << >>
  <2>1. \A k \in 1 .. Len(chain) : chain[k] \in Nodes
    BY <1>t, ElementOfSeq
  <2>2. Contents \in [1 .. Len(chain) -> Values \cup {Empty}]
    BY <1>t, <2>1 DEF Contents
  <2>3. Contents \in Seq(Values \cup {Empty}) /\ Len(Contents) = Len(chain)
    BY <1>t, <2>2, FunctionIsSeq
  <2>4. \A k \in 1 .. Len(chain) : Contents[k] = value[chain[k]]
    BY <1>t DEF Contents
  <2>5. Contents = << >> => chain = << >>
    BY <1>t, <2>3, EmptySeq
  <2>6. chain = << >> => Contents = << >>
    BY <1>t, <2>3, EmptySeq
  <2> QED
    BY <2>3, <2>4, <2>5, <2>6
<1> USE DEF Goto, nodes, locals
<1>1. ASSUME NEW t \in Threads, PushCas(t)
      PROVE  \E v \in Values : Contents' = <<v>> \o Contents /\ Result' = Result
  <2>1. /\ pc[t] = "push_cas" /\ pc' = [pc EXCEPT ![t] = "idle"] /\ chain' = <<n[t]>> \o chain
        /\ UNCHANGED <<value, cur, out>>
    BY <1>1 DEF PushCas
  <2>2. n[t] \in Nodes /\ value[n[t]] \in Values
    BY <1>0, <1>t, <2>1 DEF OwnInv, Own, ValueInv, Pointers
  <2>3. chain' \in Seq(Nodes) /\ Len(chain') = Len(chain) + 1 /\ chain'[1] = n[t]
        /\ \A k \in 1 .. Len(chain) : chain'[k + 1] = chain[k]
    BY <1>t, <2>1, <2>2, Pushed
  <2>4. DOMAIN chain' = 1 .. Len(chain) + 1
    BY <2>3, LenProperties
  <2> DEFINE s == <<value[n[t]]>> \o Contents
  <2>5. /\ s \in Seq(Values \cup {Empty}) /\ Len(s) = Len(chain) + 1 /\ s[1] = value[n[t]]
        /\ \A k \in 1 .. Len(chain) : s[k + 1] = Contents[k]
    BY <1>c, <2>2, Pushed
  <2>6. s \in [1 .. Len(chain) + 1 -> Values \cup {Empty}]
    BY <2>5, LenProperties
  <2> HIDE DEF s
  <2>7. Contents' = [k \in 1 .. Len(chain) + 1 |-> value[chain'[k]]]
    BY <2>1, <2>4 DEF Contents
  <2>8. ASSUME NEW k \in 1 .. Len(chain) + 1 PROVE value[chain'[k]] = s[k]
    <3>1. CASE k = 1
      BY <2>3, <2>5, <3>1
    <3>2. CASE k # 1
      <4> DEFINE i == k - 1
      <4>1. i \in 1 .. Len(chain) /\ k = i + 1
        BY <1>t, <3>2
      <4>2. chain'[k] = chain[i] /\ s[k] = value[chain[i]]
        BY <1>c, <2>3, <2>5, <4>1
      <4> QED
        BY <4>2
    <3> QED
      BY <3>1, <3>2
  <2>9. Contents' = s
    BY <2>6, <2>7, <2>8
  <2>10. Result' = Result
    BY <1>t, <2>1 DEF Result
  <2> QED
    BY <2>2, <2>9, <2>10 DEF s
<1>2. ASSUME NEW t \in Threads, PopCas(t)
      PROVE  /\ Contents # << >>
             /\ Result' = [Result EXCEPT ![t] = Head(Contents)]
             /\ Contents' = Tail(Contents)
  <2>1. /\ pc[t] = "pop_cas" /\ pc' = [pc EXCEPT ![t] = "pop_value"] /\ head_ = cur[t]
        /\ chain' = Tail(chain) /\ UNCHANGED <<value, cur, out>>
    BY <1>2 DEF PopCas
  <2>2. Len(chain) \in Nat \ {0} /\ chain # << >> /\ head_.ptr = chain[1]
    BY <1>0, <1>t, <2>1, HeadNode
  <2>3. Head(Contents) = value[cur[t].ptr]
    BY <1>c, <2>1, <2>2
  <2>4. Result' = [Result EXCEPT ![t] = Head(Contents)]
    BY <1>t, <2>1, <2>3 DEF Result
  <2>5. chain' \in Seq(Nodes) /\ Len(chain') = Len(chain) - 1
        /\ \A k \in 1 .. Len(chain') : chain'[k] = chain[k + 1]
    BY <1>t, <2>1, <2>2, HeadTailProperties
  <2>6. /\ Tail(Contents) \in Seq(Values \cup {Empty}) /\ Len(Tail(Contents)) = Len(chain) - 1
        /\ \A k \in 1 .. Len(Tail(Contents)) : Tail(Contents)[k] = Contents[k + 1]
    BY <1>c, <2>2, HeadTailProperties
  <2>7. Tail(Contents) \in [1 .. Len(chain) - 1 -> Values \cup {Empty}]
    BY <2>6, LenProperties
  <2>8. Contents' = [k \in 1 .. Len(chain) - 1 |-> value[chain[k + 1]]]
    <3>1. DOMAIN chain' = 1 .. Len(chain) - 1
      BY <2>5, LenProperties
    <3> QED
      BY <2>1, <2>5, <3>1 DEF Contents
  <2>9. \A k \in 1 .. Len(chain) - 1 : Tail(Contents)[k] = value[chain[k + 1]]
    <3>1. \A k \in 1 .. Len(chain) - 1 : k + 1 \in 1 .. Len(chain)
      BY <2>2
    <3> QED
      BY <1>c, <2>6, <3>1
  <2>10. Contents' = Tail(Contents)
    BY <2>7, <2>8, <2>9
  <2> QED
    BY <1>c, <2>2, <2>4, <2>10
<1>3. ASSUME NEW t \in Threads, PopLoad(t) \/ PopRetry(t)
      PROVE  \/ /\ Contents = << >>
                /\ Result' = [Result EXCEPT ![t] = Empty]
                /\ Contents' = Contents
             \/ UNCHANGED <<Contents, Result>>
  <2>1. UNCHANGED <<chain, value>> /\ Contents' = Contents
    BY <1>3 DEF PopLoad, PopRetry, Look, Contents
  <2>2. CASE head_.ptr = NoNode
    <3>1. Contents = << >>
      BY <1>0, <1>c, <2>2, FirstNode
    <3>2. Result' = [Result EXCEPT ![t] = Empty]
      BY <1>t, <1>3, <2>2 DEF PopLoad, PopRetry, Look, Reload, Result
    <3> QED
      BY <2>1, <3>1, <3>2
  <2>3. CASE head_.ptr # NoNode
    <3>1. Result' = Result
      BY <1>t, <1>3, <2>3 DEF PopLoad, PopRetry, Look, Reload, Result
    <3> QED
      BY <2>1, <3>1
  <2> QED
    BY <2>2, <2>3
<1>4. ASSUME NEW t \in Threads, PushNew(t) PROVE UNCHANGED <<Contents, Result>>
  <2>1. PICK x \in heap : value' = [value EXCEPT ![x] = <<t, calls[t]>>]
    BY <1>4 DEF PushNew
  <2>2. /\ pc' = [pc EXCEPT ![t] = "link"] /\ pc[t] = "idle" /\ cur' = [cur EXCEPT ![t] = head_]
        /\ UNCHANGED <<out, chain>>
    BY <1>4 DEF PushNew, Reload
  <2>3. \A k \in 1 .. Len(chain) : chain[k] # x /\ chain[k] \in Nodes
    BY <1>0 DEF ListInv
  <2>4. \A k \in 1 .. Len(chain) : value'[chain[k]] = value[chain[k]]
    BY <1>t, <2>1, <2>3
  <2>5. ASSUME NEW u \in Threads PROVE Result[u]' = Result[u]
    <3>1. CASE pc[u] = "pop_value"
      <4>1. u # t /\ cur'[u] = cur[u] /\ pc'[u] = pc[u]
        BY <1>t, <2>2, <3>1
      <4>2. cur[u].ptr # x /\ cur[u].ptr \in Nodes
        BY <1>0, <1>t, <3>1 DEF OwnInv, Own, Pointers
      <4> QED
        BY <1>t, <2>1, <3>1, <4>1, <4>2 DEF Result
    <3>2. CASE pc[u] # "pop_value"
      BY <1>t, <2>2, <3>2 DEF Result
    <3> QED
      BY <3>1, <3>2
  <2> QED
    BY <1>0, <2>2, <2>4, <2>5, Stutter
<1>5. ASSUME NEW t \in Threads, PushLink(t) \/ PushRetry(t) \/ PopNext(t) \/ PopValue(t)
      PROVE  UNCHANGED <<Contents, Result>>
  <2>1. chain' = chain /\ value' = value
    BY <1>5 DEF PushLink, PushRetry, PopNext, PopValue
  <2>2. \A u \in Threads : Result[u]' = Result[u]
    BY <1>t, <1>5 DEF PushLink, PushRetry, PopNext, PopValue, Reload, Result
  <2> QED
    BY <1>0, <2>1, <2>2, Stutter
<1>6. CASE UNCHANGED vars
  BY <1>6 DEF vars, Contents, Result
<1> QED
  BY <1>1, <1>2, <1>3, <1>4, <1>5, <1>6 DEF Next, Thread, Changes, Terminating

(* push and pop of the class are the push and pop of a stack that takes    *)
(* each in one step (lines 49-71): a push at its exchange, a pop at its    *)
(* exchange or at the load that finds null; what the pop returns, read     *)
(* from the node after the exchange, is the value it removed.              *)
THEOREM StackIsLinearizable == Spec => ImplementsStack
<1>1. Init => Abstract!SInit
  BY StackInit
<1>2. IInv /\ [Next]_vars => [Abstract!SNext]_(Abstract!svars)
  BY StackStep
<1> QED
  BY <1>1, <1>2, Inductive, PTL DEF Spec, ImplementsStack, Abstract!SSpec
=============================================================================
