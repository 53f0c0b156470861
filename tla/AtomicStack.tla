---------------------------- MODULE AtomicStack ----------------------------
(***************************************************************************)
(* What a concurrent stack promises: every push and every pop takes effect *)
(* in one step, a pop returns the newest value that is left and reports    *)
(* "empty" only when nothing is.                                           *)
(***************************************************************************)
EXTENDS Sequences

CONSTANTS Threads, Values,
          Empty                 \* the result of a pop that returns false
VARIABLES contents,             \* the values on the stack, the newest first
          result                \* the result of each thread's last pop

svars == <<contents, result>>

SInit == /\ contents = << >>
         /\ result = [t \in Threads |-> Empty]

Push(v) == contents' = <<v>> \o contents /\ UNCHANGED result

Pop(t) == /\ contents # << >>
          /\ result' = [result EXCEPT ![t] = Head(contents)]
          /\ contents' = Tail(contents)

PopNothing(t) == /\ contents = << >>
                 /\ result' = [result EXCEPT ![t] = Empty]
                 /\ UNCHANGED contents

SNext == (\E v \in Values : Push(v)) \/ \E t \in Threads : Pop(t) \/ PopNothing(t)

SSpec == SInit /\ [][SNext]_svars
=============================================================================
