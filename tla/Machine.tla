------------------------------- MODULE Machine -------------------------------
(***************************************************************************)
(* A machine that runs programs of Instructions on MemoryModel: the        *)
(* threads of one program interleave, each load may find any value its     *)
(* order allows, each weak compare-and-exchange may fail for no reason.    *)
(* The programs are a parameter: any Library, as long as its programs are  *)
(* well formed.                                                            *)
(***************************************************************************)
EXTENDS Instructions

CONSTANTS Library,              \* name -> the program: [vars |-> initial values, code |-> thread -> body]
          Programs,             \* the names of those that run
          Locks,                \* locations of which only the last write is kept
          Noticed,              \* locations of which a loop finds the last write in the end
          Racy                  \* the programs that are called racy

(* Where an instruction at place k may lead.  In a well-formed program     *)
(* every jump stays in its body, and what is named is there.               *)
AlwaysJumps(ins) == ins.op = "ifin" /\ ins.reg = "zero" /\ 0 \in ins.set
Targets(ins, k) ==
  (IF ins.op = "exit" \/ AlwaysJumps(ins) THEN {} ELSE {k + 1})
  \cup (IF ins.op \in {"ifin", "either", "cas"} THEN {k + ins.by} ELSE {})
WellFormed(prog) ==
  /\ prog.vars \in [DOMAIN prog.vars -> Int]
  /\ "main" \in DOMAIN prog.code
  /\ \A t \in DOMAIN prog.code :
       LET body == prog.code[t]
       IN /\ body \in Seq(InstructionSet(DOMAIN prog.vars, DOMAIN prog.code))
          /\ \A k \in 1 .. Len(body) : Targets(body[k], k) \subseteq 1 .. Len(body) + 1

ASSUME ProgramsAssumption ==
  /\ Programs \subseteq DOMAIN Library
  /\ \A p \in Programs : WellFormed(Library[p])

VARIABLES program, code,        \* the one that runs, and what its threads do
          pc, reg,              \* of each thread; pc 0: not started
          wrong,                \* a check has failed
          asleep,               \* the condition variable each thread sleeps on
          mem, cur, acq, rel, sc, raced

M == INSTANCE MemoryModel
memory == <<mem, cur, acq, rel, sc, raced>>
vars == <<program, code, pc, reg, wrong, asleep, memory>>

Threads == UNION {DOMAIN Library[p].code : p \in Programs}
Awake == "awake"
Running(t) == t \in DOMAIN pc /\ pc[t] \in 1 .. Len(code[t]) /\ asleep[t] = Awake
Ended(t)   == pc[t] = Len(code[t]) + 1
At(t, op)  == Running(t) /\ code[t][pc[t]].op = op

Init == /\ program \in Programs
        /\ code = Library[program].code
        /\ pc = [t \in DOMAIN code |-> IF t = "main" THEN 1 ELSE 0]
        /\ reg = [t \in DOMAIN pc |-> [r \in Registers |-> 0]]
        /\ wrong = FALSE
        /\ asleep = [t \in DOMAIN pc |-> Awake]
        /\ M!MemInit(Library[program].vars, DOMAIN pc)

-----------------------------------------------------------------------------
Of(g, v)    == v.k + v.m * g[v.a] + g[v.b]      \* in registers g
Value(t, v) == Of(reg[t], v)

(* What only the thread sees (registers, jumps, checks) is no step of its  *)
(* own: it goes with the step before.  Settled: from place p on, with      *)
(* registers g; bad when a check has failed.  A body has no more places    *)
(* than Len(body): private instructions that take longer never end.        *)
Private == {"set", "ifin", "check"}
IsPrivate(body, p) == p <= Len(body) /\ body[p].op \in Private
After(body, s) ==               \* one private instruction
  LET ins == body[s.pc]
  IN [pc  |-> s.pc + (IF ins.op = "ifin" /\ s.reg[ins.reg] \in ins.set THEN ins.by ELSE 1),
      reg |-> IF ins.op = "set" THEN [s.reg EXCEPT ![ins.to] = Of(s.reg, ins.val)] ELSE s.reg,
      bad |-> s.bad \/ (ins.op = "check" /\ s.reg[ins.reg] \notin ins.set)]
Locals == [pc : Int, reg : [Registers -> Int], bad : BOOLEAN]
Settled(body, p, g) ==
  LET run[n \in 0 .. Len(body)] ==
        [s \in Locals |-> IF n > 0 /\ IsPrivate(body, s.pc) THEN run[n - 1][After(body, s)] ELSE s]
  IN run[Len(body)][[pc |-> p, reg |-> g, bad |-> FALSE]]

(* t goes on d places ahead, with v in register r. *)
StepTo(t, d, r, v) ==
  LET s == Settled(code[t], pc[t] + d, [reg[t] EXCEPT ![r] = IF r = "zero" THEN 0 ELSE v])
  IN /\ pc' = [pc EXCEPT ![t] = s.pc]
     /\ reg' = [reg EXCEPT ![t] = s.reg]
     /\ wrong' = (wrong \/ s.bad)
     /\ UNCHANGED <<program, code, asleep>>
Step(t) == StepTo(t, 1, "zero", 0)

Loads(t, i) ==                  \* reads the i-th write
  LET ins == code[t][pc[t]]
  IN /\ At(t, "load")
     /\ i \in M!Readable(t, ins.at, ins.ord)
     /\ mem[ins.at][i].val \in ins.only
     /\ M!Load(t, ins.at, i, ins.ord)
     /\ StepTo(t, 1, ins.to, mem[ins.at][i].val)

Stores(t) ==
  LET ins == code[t][pc[t]]
  IN /\ At(t, "store")
     /\ M!Store(t, ins.at, Value(t, ins.val), ins.ord)
     /\ Step(t)

(* Pointers are numbers of objects; one to nothing stops its thread. *)
Valid(p) == p \in DOMAIN Object /\ Object[p] \in DOMAIN mem

Publishes(t) ==
  LET ins == code[t][pc[t]]
  IN /\ At(t, "publish")
     /\ Valid(Value(t, ins.ptr))
     /\ M!Store(t, Object[Value(t, ins.ptr)], Value(t, ins.val), ins.ord)
     /\ Step(t)

Updates(t) ==
  LET ins == code[t][pc[t]]
      old == mem[ins.at][M!Last(ins.at)].val
  IN /\ At(t, "update")
     /\ old \in ins.only
     /\ M!Update(t, ins.at, old + ins.add, ins.ord)
     /\ StepTo(t, 1, ins.to, old)

Exchanges(t) ==
  LET ins == code[t][pc[t]]
  IN /\ At(t, "cas")
     /\ mem[ins.at][M!Last(ins.at)].val = reg[t][ins.expected]
     /\ M!Update(t, ins.at, Value(t, ins.val), ins.ord)
     /\ Step(t)

(* A failure without a reason finds the expected value and only repeats    *)
(* the attempt: what the loop does in between would change nothing.        *)
FailsToExchange(t, i) ==
  LET ins == code[t][pc[t]]
  IN /\ At(t, "cas")
     /\ i \in M!Readable(t, ins.at, "relaxed")
     /\ M!Load(t, ins.at, i, "relaxed")
     /\ LET found == mem[ins.at][i].val
        IN StepTo(t, IF found = reg[t][ins.expected] THEN 0 ELSE ins.by, ins.expected, found)

Fenced(t) ==
  /\ At(t, "fence")
  /\ M!Fence(t, code[t][pc[t]].ord)
  /\ Step(t)

Reads(t, l, r) ==
  \E i \in 1 .. Len(mem[l]) :
    /\ M!Read(t, l, i)
    /\ StepTo(t, 1, r, mem[l][i].val)

ReadsVariable(t) ==
  At(t, "read") /\ Reads(t, code[t][pc[t]].at, code[t][pc[t]].to)

ReadsObject(t) ==
  /\ At(t, "deref")
  /\ Valid(reg[t][code[t][pc[t]].ptr])
  /\ Reads(t, Object[reg[t][code[t][pc[t]].ptr]], code[t][pc[t]].to)

Writes(t) ==
  LET ins == code[t][pc[t]]
  IN /\ At(t, "write")
     /\ M!Write(t, ins.at, Value(t, ins.val))
     /\ Step(t)

Assigns(t) ==
  LET ins == code[t][pc[t]]
  IN /\ At(t, "assign")
     /\ Valid(Value(t, ins.ptr))
     /\ M!Write(t, Object[Value(t, ins.ptr)], Value(t, ins.val))
     /\ Step(t)

Starts(t) ==
  LET T == code[t][pc[t]].who
  IN /\ At(t, "start")
     /\ \A u \in T : pc[u] = 0
     /\ M!StartThreads(t, T)
     /\ LET s == [u \in T \cup {t} |-> Settled(code[u], pc[u] + 1, reg[u])]
        IN /\ pc' = [u \in DOMAIN pc |-> IF u \in DOMAIN s THEN s[u].pc ELSE pc[u]]
           /\ reg' = [u \in DOMAIN reg |-> IF u \in DOMAIN s THEN s[u].reg ELSE reg[u]]
           /\ wrong' = (wrong \/ \E u \in DOMAIN s : s[u].bad)
     /\ UNCHANGED <<program, code, asleep>>

Joins(t) ==
  /\ At(t, "join")
  /\ Ended(code[t][pc[t]].who)
  /\ M!JoinThread(t, code[t][pc[t]].who)
  /\ Step(t)

Chooses(t) ==
  /\ At(t, "either")
  /\ \E d \in {1, code[t][pc[t]].by} : StepTo(t, d, "zero", 0)
  /\ UNCHANGED memory

Exits(t) ==
  /\ At(t, "exit")
  /\ pc' = [u \in DOMAIN pc |-> Len(code[u]) + 1]
  /\ asleep' = [u \in DOMAIN pc |-> Awake]
  /\ UNCHANGED <<program, code, reg, wrong, memory>>

Sleeps(t) ==
  LET ins == code[t][pc[t]]
  IN /\ At(t, "sleep")
     /\ M!Update(t, ins.at, mem[ins.at][M!Last(ins.at)].val + ins.add, "release")
     /\ asleep' = [asleep EXCEPT ![t] = ins.cv]
     /\ pc' = [pc EXCEPT ![t] = @ + 1]
     /\ reg' = [reg EXCEPT ![t][ins.to] = 0]
     /\ UNCHANGED <<program, code, wrong>>

Notifies(t) ==
  LET ins == code[t][pc[t]]
      sleepers == {u \in DOMAIN asleep : asleep[u] = ins.cv}
      woken == IF ins.all THEN {sleepers} ELSE IF sleepers = {} THEN {{}} ELSE {{u} : u \in sleepers}
  IN /\ At(t, "notify")
     /\ \E W \in woken : asleep' = [u \in DOMAIN asleep |-> IF u \in W THEN Awake ELSE asleep[u]]
     /\ LET s == Settled(code[t], pc[t] + 1, reg[t])
        IN /\ pc' = [pc EXCEPT ![t] = s.pc]
           /\ reg' = [reg EXCEPT ![t] = s.reg]
           /\ wrong' = (wrong \/ s.bad)
     /\ UNCHANGED <<program, code, memory>>

(* A sleeper wakes up for no reason, ...                                   *)
WakesUp(t) ==
  /\ t \in DOMAIN asleep /\ asleep[t] # Awake
  /\ asleep' = [asleep EXCEPT ![t] = Awake]
  /\ UNCHANGED <<program, code, pc, reg, wrong, memory>>

(* ... or at its deadline. *)
TimesOut(t) ==
  /\ t \in DOMAIN asleep /\ asleep[t] # Awake
  /\ code[t][pc[t] - 1].to # "zero"
  /\ asleep' = [asleep EXCEPT ![t] = Awake]
  /\ reg' = [reg EXCEPT ![t][code[t][pc[t] - 1].to] = 1]
  /\ UNCHANGED <<program, code, pc, wrong, memory>>

AllEnded == \A t \in DOMAIN pc : Ended(t)
Terminating == AllEnded /\ UNCHANGED vars

Positions == UNION {DOMAIN mem[l] : l \in DOMAIN mem}

Prompt(t) ==                    \* what a running thread does sooner or later
  \/ \E i \in Positions : Loads(t, i)
  \/ Stores(t) \/ Publishes(t) \/ Updates(t) \/ Exchanges(t) \/ Fenced(t) \/ ReadsVariable(t) \/ ReadsObject(t)
  \/ Writes(t) \/ Assigns(t) \/ Starts(t) \/ Joins(t) \/ Chooses(t) \/ Exits(t)
  \/ Sleeps(t) \/ Notifies(t) \/ TimesOut(t)

Next == \/ \E t \in Threads : Prompt(t) \/ WakesUp(t) \/ \E i \in Positions : FailsToExchange(t, i)
        \/ Terminating

(* A write becomes visible in the end: who looks again and again at a      *)
(* location of Noticed, or at what a compare-and-exchange failed on, finds *)
(* the last value, and an absolute deadline passes: this much is assumed   *)
(* of some thread only.  A lock that is free again and again is    *)
(* taken, a weak compare-and-exchange does not fail for ever without a     *)
(* reason; but nobody needs to wake without a notification.                *)
Latest(t) ==
  \E i \in Positions : /\ Loads(t, i) \/ FailsToExchange(t, i)
                       /\ i = M!Last(code[t][pc[t]].at)
                       /\ At(t, "cas") \/ code[t][pc[t]].at \in Noticed

Fairness == /\ \A t \in Threads : WF_vars(Prompt(t)) /\ SF_vars(Exchanges(t) \/ Updates(t))
            /\ SF_vars(\E t \in Threads : Latest(t) \/ TimesOut(t))
FairSpec == Init /\ [][Next]_vars /\ Fairness

-----------------------------------------------------------------------------
(* Types, and: a view only speaks of writes there are, a message knows of  *)
(* itself, a fence gives no less than what the thread knows and has        *)
(* released no more, and the last write is never excluded.                 *)
Locations == DOMAIN Library[program].vars
Crew == DOMAIN Library[program].code
Views    == [at : [Locations -> Nat], missed : SUBSET (Locations \X Crew)]
Messages == [val : Int, view : Views]
Typed ==
  /\ pc \in [Crew -> Nat] /\ reg \in [Crew -> [Registers -> Int]] /\ asleep \in [Crew -> {Awake} \cup STRING]
  /\ wrong \in BOOLEAN /\ raced \in BOOLEAN
  /\ mem \in [Locations -> Seq(Messages)] /\ sc \in [Locations -> Nat]
  /\ cur \in [Crew -> Views] /\ acq \in [Crew -> Views] /\ rel \in [Crew -> Views]
TypeOK ==
  /\ program \in Programs /\ code = Library[program].code
  /\ Typed
  /\ \A t \in DOMAIN pc : pc[t] <= Len(code[t]) + 1 /\ reg[t]["zero"] = 0
  /\ \A l \in DOMAIN mem : \A i \in DOMAIN mem[l] :
       mem[l][i].view.at[l] = i /\ \A k \in DOMAIN mem : mem[l][i].view.at[k] \in DOMAIN mem[k]
  /\ \A t \in DOMAIN pc, l \in DOMAIN mem :
       rel[t].at[l] <= cur[t].at[l] /\ cur[t].at[l] <= acq[t].at[l] /\ acq[t].at[l] <= Len(mem[l])
  /\ \A l \in DOMAIN mem : sc[l] \in DOMAIN mem[l]

(* Two threads never access a plain variable (data, counter, Cfg, Node,    *)
(* ...) without an order between them, one of them to write it, except in  *)
(* the programs that are called racy.                                      *)
NoRace == raced => program \in Racy
=============================================================================
