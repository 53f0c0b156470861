---------------------------- MODULE ClaimSearch ----------------------------
(***************************************************************************)
(* A claim to try for a program.  Nothing is taken from here on trust:     *)
(* Ownership's assumption compares what comes out with the code.           *)
(***************************************************************************)
EXTENDS Ownership

(* What holds at a place is found by following the code from the start of  *)
(* each thread; a mutex guards the variables its holders alone use, a      *)
(* thread has those it alone uses, or main while the thread is not at      *)
(* work.                                                                   *)
Suggested(prog) ==
  LET threads == DOMAIN prog.code
      Ins(x)  == prog.code[x[1]][x[2]]                          \* at a place x = <<thread, k>>
      Places  == UNION {{t} \X DOMAIN prog.code[t] : t \in threads}
      Doing(S) == {x \in Places : Ins(x).op \in S}
      plain == {Ins(x).at : x \in Doing({"read", "write"})}
      Writing(l) == {x \in Doing({"store", "update", "cas", "sleep"}) : Ins(x).at = l}
      weigh == [l \in DOMAIN prog.vars \ plain |->
                  LET ws == {Ins(x).add : x \in {y \in Writing(l) : Ins(y).op = "update" /\ Takes(Ins(y), Ins(y).add)}}
                  IN IF ws = {} THEN 0 ELSE CHOOSE w \in ws : TRUE]
      mutexes == {l \in DOMAIN weigh :
                    /\ weigh[l] # 0 /\ prog.vars[l] = 0
                    /\ \A x \in Writing(l) : Takes(Ins(x), weigh[l]) \/ Gives(Ins(x), weigh[l])}
      Behind(ins, s) ==
        [held    |-> IF ins.op \in {"store", "update", "sleep"} /\ ins.at \in mutexes
                     THEN IF Takes(ins, weigh[ins.at]) THEN s.held \cup {ins.at} ELSE s.held \ {ins.at}
                     ELSE s.held,
         started |-> IF ins.op = "start" THEN s.started \cup ins.who ELSE s.started,
         active  |-> CASE ins.op = "start" -> s.active \cup ins.who
                       [] ins.op = "join" -> s.active \ {ins.who}
                       [] OTHER -> s.active]
      Leads(x, y) == x[1] = y[1] /\ y[2] \in Targets(Ins(x), x[2])
      found[n \in 0 .. Max({Len(prog.code[t]) : t \in threads})] ==       \* within n steps
        IF n = 0 THEN [x \in threads \X {1} |-> [held |-> {}, started |-> {}, active |-> {}]]
        ELSE LET f    == found[n - 1]
                 here == DOMAIN f \cap Places
                 new  == UNION {{x[1]} \X Targets(Ins(x), x[2]) : x \in here} \ DOMAIN f
             IN f @@ [y \in new |-> LET x == CHOOSE x \in here : Leads(x, y) IN Behind(Ins(x), f[x])]
      at == found[Max({Len(prog.code[t]) : t \in threads})]
      uses == [d \in plain |-> {x \in DOMAIN at \cap Doing({"read", "write"}) : Ins(x).at = d}]
      mine == [t \in threads \ {"main"} |->
                 {d \in plain : /\ \E x \in uses[d] : x[1] = t
                               /\ \A x \in uses[d] : x[1] = t \/ (x[1] = "main" /\ t \notin at[x].active)}]
      shared == {d \in plain : (\E x \in uses[d] : x[1] # "main") /\ \A t \in DOMAIN mine : d \notin mine[t]}
      Common(d) == {l \in mutexes : \A x \in uses[d] : x[1] # "main" => l \in at[x].held}
      guard == [d \in {e \in shared : Common(e) # {}} |-> CHOOSE l \in Common(d) : TRUE]
      Reached(t) == {x[2] : x \in {y \in DOMAIN at : y[1] = t}}
  IN [plain |-> plain, mine |-> mine,
      guards  |-> [l \in Range(guard) |-> {d \in DOMAIN guard : guard[d] = l}],
      weight  |-> [l \in Range(guard) |-> weigh[l]],
      held    |-> [t \in threads |-> [k \in Reached(t) |-> at[<<t, k>>].held \cap Range(guard)]],
      started |-> [k \in Reached("main") |-> at[<<"main", k>>].started],
      active  |-> [k \in Reached("main") |-> at[<<"main", k>>].active]]
=============================================================================
