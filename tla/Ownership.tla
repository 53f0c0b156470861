----------------------------- MODULE Ownership -----------------------------
(***************************************************************************)
(* How most of the examples keep their plain variables apart: each has one *)
(* owner at a time.  A thread owns what is its own while it runs; what a   *)
(* mutex guards belongs to the thread that holds it; the rest is main's,   *)
(* which also owns what the threads it has not started yet, or has joined, *)
(* will own or have owned.  A claim writes that down for a program; Keeps  *)
(* compares it with the code, place by place, without running it.          *)
(***************************************************************************)
EXTENDS Machine

CONSTANT Claims         \* program -> its claim, for the programs that have one

(* A claim: its plain variables, those of each thread, those that each     *)
(* mutex guards, the number by which a mutex is taken, and for each place  *)
(* of a thread that can be reached, the mutexes it holds there and, for    *)
(* main, the threads that have been started and not been joined yet.       *)
Monitors(c) == DOMAIN c.guards
Protected(c) == UNION {c.guards[l] : l \in Monitors(c)}
Holders(c, l) == {t \in DOMAIN c.mine : \E k \in DOMAIN c.held[t] : l \in c.held[t][k]}

(* Taking a mutex, and giving it back.                                     *)
Takes(ins, w) == ins.op = "update" /\ ins.ord \in M!Acquires /\ ins.add = w /\ w \notin ins.only
Gives(ins, w) == \/ ins.op = "store" /\ ins.ord \in M!Releases /\ ins.val = K(0)
                 \/ ins.op = "update" /\ ins.ord \in M!Releases /\ ins.add = -w
                 \/ ins.op = "sleep" /\ ins.add = -w

(* t owns d at place k.                                                    *)
Owns(c, t, k, d) ==
  IF t = "main" THEN /\ \A u \in c.active[k] : d \notin c.mine[u]
                     /\ \A l \in Monitors(c) : d \in c.guards[l] =>
                          l \in c.held[t][k] \/ Holders(c, l) \cap c.active[k] = {}
  ELSE d \in c.mine[t] \/ \E l \in c.held[t][k] : d \in c.guards[l]

(* What t holds changes as it takes mutexes and gives them back, ...       *)
HoldsRight(c, t, k, ins) ==
  \/ \E l \in Monitors(c) : /\ ins.op = "update" /\ ins.at = l /\ Takes(ins, c.weight[l])
                         /\ l \notin c.held[t][k] /\ c.held[t][k + 1] = c.held[t][k] \cup {l}
  \/ \E l \in Monitors(c) : /\ ins.op \in {"store", "update", "sleep"} /\ ins.at = l /\ Gives(ins, c.weight[l])
                         /\ l \in c.held[t][k] /\ c.held[t][k + 1] = c.held[t][k] \ {l}
  \/ /\ ins.op \in {"store", "update", "cas", "sleep"} => ins.at \notin Monitors(c)
     /\ \A q \in Targets(ins, k) : c.held[t][q] = c.held[t][k]

(* ... and the threads at work as main starts and joins them.              *)
CountsRight(c, k, ins) ==
  \/ /\ ins.op = "start" /\ c.held["main"][k] = {}
     /\ ins.who \subseteq DOMAIN c.mine \ c.started[k]
     /\ c.started[k + 1] = c.started[k] \cup ins.who /\ c.active[k + 1] = c.active[k] \cup ins.who
  \/ /\ ins.op = "join" /\ c.held["main"][k] = {}
     /\ ins.who \in c.active[k]
     /\ c.started[k + 1] = c.started[k] /\ c.active[k + 1] = c.active[k] \ {ins.who}
  \/ /\ ins.op \notin {"start", "join"}
     /\ \A q \in Targets(ins, k) : c.started[q] = c.started[k] /\ c.active[q] = c.active[k]

PlaceRight(prog, c, t, k) ==
  LET ins == prog.code[t][k]
  IN /\ Targets(ins, k) \subseteq DOMAIN c.held[t]
     /\ ins.op \notin {"fence", "deref", "assign"}
     /\ ins.op \in {"read", "write"} => ins.at \in c.plain /\ Owns(c, t, k, ins.at)
     /\ ins.op \in {"load", "store", "update", "cas", "sleep"} => ins.at \notin c.plain
     /\ ins.op = "publish" => \A j \in DOMAIN Object : Object[j] \notin c.plain \cup Monitors(c)
     /\ HoldsRight(c, t, k, ins)
     /\ IF t = "main" THEN CountsRight(c, k, ins) ELSE ins.op \notin {"start", "join"}

ClaimTyped(prog, c) ==
  /\ c.plain \subseteq DOMAIN prog.vars /\ Monitors(c) \subseteq DOMAIN prog.vars \ c.plain
  /\ \A l \in Monitors(c) : c.guards[l] \subseteq c.plain /\ c.weight[l] \in Int \ {0} /\ prog.vars[l] = 0
  /\ DOMAIN c.held = DOMAIN prog.code /\ DOMAIN c.mine = DOMAIN prog.code \ {"main"}
  /\ \A t \in DOMAIN prog.code : /\ 1 \in DOMAIN c.held[t] /\ c.held[t][1] = {}
                                 /\ DOMAIN c.held[t] \subseteq 1 .. Len(prog.code[t]) + 1
                                 /\ \A k \in DOMAIN c.held[t] :
                                      /\ c.held[t][k] \subseteq Monitors(c)
                                      /\ k = Len(prog.code[t]) + 1 => c.held[t][k] = {}
  /\ c.started[1] = {} /\ c.active[1] = {}
  /\ \A k \in DOMAIN c.held["main"] : c.active[k] \subseteq c.started[k] /\ c.started[k] \subseteq DOMAIN c.mine

(* Nothing has two owners.                                                 *)
Apart(c) ==
  /\ \A t \in DOMAIN c.mine : c.mine[t] \subseteq c.plain \ Protected(c)
  /\ \A t, u \in DOMAIN c.mine : t # u => c.mine[t] \cap c.mine[u] = {}
  /\ \A l, m \in Monitors(c) : l # m => c.guards[l] \cap c.guards[m] = {}

Keeps(prog, c) ==
  /\ ClaimTyped(prog, c) /\ Apart(c)
  /\ \A t \in DOMAIN prog.code : \A k \in DOMAIN c.held[t] \cap 1 .. Len(prog.code[t]) : PlaceRight(prog, c, t, k)

ASSUME ClaimsAssumption == \A p \in Programs \cap DOMAIN Claims : Keeps(Library[p], Claims[p])
-----------------------------------------------------------------------------
(* What is true, then, while such a program runs: of the mutexes each       *)
(* thread holds and their values, of the threads at work, and of who knows *)
(* a variable, that is, its last write and all reads since: known has the  *)
(* pairs of a thread and a variable, told those of a mutex, whose last     *)
(* message says so, and a variable.                                        *)
Sharers(c, l, work) == {"main"} \cup (Holders(c, l) \cap work)

LocksRight(c, holds, work, vals) ==
  /\ work \subseteq DOMAIN c.mine
  /\ \A t \in DOMAIN holds : \A l \in holds[t] : l \in Monitors(c) /\ t \in Sharers(c, l, work)
  /\ \A l \in Monitors(c) : vals[l] \in {0, c.weight[l]}
  /\ \A t \in DOMAIN holds : \A l \in holds[t] : vals[l] = c.weight[l] /\ \A u \in DOMAIN holds : l \in holds[u] => u = t

(* The owner of a variable knows it.  While a mutex is free, either it     *)
(* tells whoever takes it, or all who may take it know; and one of them    *)
(* does, so that main knows once it has joined the others.                 *)
OwnersKnow(c, holds, work, known, told) ==
  /\ \A u \in work : \A d \in c.mine[u] : <<u, d>> \in known
  /\ \A t \in DOMAIN holds : \A l \in holds[t] : \A d \in c.guards[l] : <<t, d>> \in known
  /\ \A l \in Monitors(c) : (\A t \in DOMAIN holds : l \notin holds[t]) =>
       \A d \in c.guards[l] : /\ <<l, d>> \in told \/ \A w \in Sharers(c, l, work) : <<w, d>> \in known
                             /\ \E w \in Sharers(c, l, work) : <<w, d>> \in known
  /\ \A d \in c.plain \ Protected(c) : (\A u \in work : d \notin c.mine[u]) => <<"main", d>> \in known

Claimed == Claims[program]
Held    == [t \in Crew |-> IF pc[t] = 0 THEN {} ELSE Claimed.held[t][pc[t]]]
AtWork  == Claimed.active[pc["main"]]
Settings == [l \in Monitors(Claimed) |-> mem[l][M!Last(l)].val]
Knows(v, d) == v.at[d] = M!Last(d) /\ ~M!Misses(v, d)
Known   == {x \in Crew \X Claimed.plain : Knows(cur[x[1]], x[2])}
Told    == {x \in Monitors(Claimed) \X Claimed.plain : Knows(mem[x[1]][M!Last(x[1])].view, x[2])}

(* A thread is at a place of its claim, and has been started, and ended,   *)
(* when main's place says so.                                              *)
InPlace ==
  /\ pc["main"] # 0
  /\ \A t \in Crew : pc[t] # 0 => pc[t] \in DOMAIN Claimed.held[t]
  /\ \A u \in DOMAIN Claimed.mine :
       /\ pc[u] = 0 <=> u \notin Claimed.started[pc["main"]]
       /\ u \in Claimed.started[pc["main"]] \ AtWork => Ended(u)

Orderly == /\ InPlace
           /\ LocksRight(Claimed, Held, AtWork, Settings)
           /\ OwnersKnow(Claimed, Held, AtWork, Known, Told)

=============================================================================
