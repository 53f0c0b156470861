--------------------------- MODULE BlockingQueue ---------------------------
(***************************************************************************)
(* The class template Queue<T> of 03_patterns/02_producer_consumer.cpp: a  *)
(* bounded FIFO with a mutex m_, two condition variables and a closed_     *)
(* flag.  q_ and closed_ are only touched under m_, so a critical section  *)
(* is one action: what a call does from its lock (or from its wake-up) to  *)
(* its unlock or its next sleep.  close() notifies after it has unlocked:  *)
(* its two notify_all are steps of their own.                              *)
(*                                                                         *)
(* An operation takes the calling thread t; the caller keeps t's place in  *)
(* its own code.  A thread in cv_full_ or cv_empty_ is asleep.             *)
(***************************************************************************)
EXTENDS Naturals, Sequences, CondVar

CONSTANT Cap            \* cap_
VARIABLES q_, closed_, cv_full_, cv_empty_

qvars == <<q_, closed_, cv_full_, cv_empty_>>

QInit == /\ q_ = << >>
         /\ closed_ = FALSE
         /\ cv_full_ = {}
         /\ cv_empty_ = {}

-----------------------------------------------------------------------------
(* Faulty variants, one plausible slip each; no specification uses them.   *)
PushStore_OffByOne(t, v) ==        \* q_.size() <= cap_
  /\ t \notin cv_full_ /\ ~ closed_ /\ Len(q_) <= Cap
  /\ q_' = Append(q_, v) /\ cv_empty_' \in NotifyOne(cv_empty_)
  /\ UNCHANGED <<closed_, cv_full_>>
PushStore_Silent(t, v) ==          \* cv_empty_.notify_one() forgotten
  /\ t \notin cv_full_ /\ ~ closed_ /\ Len(q_) < Cap
  /\ q_' = Append(q_, v) /\ UNCHANGED <<closed_, cv_full_, cv_empty_>>
PushStore_Front(t, v) ==           \* stores at the wrong end
  /\ t \notin cv_full_ /\ ~ closed_ /\ Len(q_) < Cap
  /\ q_' = <<v>> \o q_ /\ cv_empty_' \in NotifyOne(cv_empty_)
  /\ UNCHANGED <<closed_, cv_full_>>
PopTake_Silent(t) ==               \* cv_full_.notify_one() forgotten
  /\ t \notin cv_empty_ /\ q_ # << >>
  /\ q_' = Tail(q_) /\ UNCHANGED <<closed_, cv_full_, cv_empty_>>
PopEnd_Undrained(t) ==             \* if (closed_) return nullopt
  t \notin cv_empty_ /\ closed_ /\ UNCHANGED qvars
CloseNotifyEmpty_One ==            \* notify_one for notify_all
  cv_empty_' \in NotifyOne(cv_empty_) /\ UNCHANGED <<q_, closed_, cv_full_>>

-----------------------------------------------------------------------------
(* push(v): waits for closed_ || q_.size() < cap_, ... *)
PushWait(t) == /\ t \notin cv_full_
               /\ ~ closed_
               /\ Len(q_) >= Cap
               /\ cv_full_' = cv_full_ \cup {t}
               /\ UNCHANGED <<q_, closed_, cv_empty_>>

(* ... returns false once the queue is closed, ... *)
PushRefused(t) == /\ t \notin cv_full_
                  /\ closed_
                  /\ UNCHANGED qvars

(* ... and else stores v and wakes one popper. *)
PushStore(t, v) == /\ t \notin cv_full_
                   /\ ~ closed_
                   /\ Len(q_) < Cap
                   /\ q_' = Append(q_, v)
                   /\ cv_empty_' \in NotifyOne(cv_empty_)
                   /\ UNCHANGED <<closed_, cv_full_>>

(* pop(): waits for closed_ || !q_.empty(), ... *)
PopWait(t) == /\ t \notin cv_empty_
              /\ ~ closed_
              /\ q_ = << >>
              /\ cv_empty_' = cv_empty_ \cup {t}
              /\ UNCHANGED <<q_, closed_, cv_full_>>

(* ... returns nullopt when there is nothing left, ... *)
PopEnd(t) == /\ t \notin cv_empty_
             /\ closed_
             /\ q_ = << >>
             /\ UNCHANGED qvars

(* ... and else takes the front, Head(q_), and wakes one pusher. *)
PopTake(t) == /\ t \notin cv_empty_
              /\ q_ # << >>
              /\ q_' = Tail(q_)
              /\ cv_full_' \in NotifyOne(cv_full_)
              /\ UNCHANGED <<closed_, cv_empty_>>

(* close(): the flag under the lock, then the two notify_all. *)
CloseSet == closed_' = TRUE /\ UNCHANGED <<q_, cv_full_, cv_empty_>>
CloseNotifyEmpty == cv_empty_' = NotifyAll(cv_empty_) /\ UNCHANGED <<q_, closed_, cv_full_>>
CloseNotifyFull == cv_full_' = NotifyAll(cv_full_) /\ UNCHANGED <<q_, closed_, cv_empty_>>

(* wait() may return without a notification. *)
SpuriousWake == \/ \E t \in cv_full_ : /\ cv_full_' = cv_full_ \ {t}
                                       /\ UNCHANGED <<q_, closed_, cv_empty_>>
                \/ \E t \in cv_empty_ : /\ cv_empty_' = cv_empty_ \ {t}
                                        /\ UNCHANGED <<q_, closed_, cv_full_>>
=============================================================================
