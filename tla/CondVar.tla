------------------------------ MODULE CondVar ------------------------------
(***************************************************************************)
(* The part of std::condition_variable (and pthread_cond_t) the programs   *)
(* of src/examples rely on.  A condition variable is the set of the        *)
(* threads asleep in wait().  A thread leaves the set when it is notified, *)
(* or spuriously; it then takes the mutex again and re-evaluates its       *)
(* predicate, which is the same step as evaluating it the first time.      *)
(***************************************************************************)

(* The outcomes of notify_one: any one sleeper wakes; nobody if none is asleep. *)
NotifyOne(asleep) == IF asleep = {} THEN {{}} ELSE {asleep \ {t} : t \in asleep}

(* The outcome of notify_all. *)
NotifyAll(asleep) == {}
=============================================================================
