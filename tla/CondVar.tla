------------------------------- MODULE CondVar -------------------------------
(* std::condition_variable as the components under src/ use it (external: the *)
(* C++ standard library). The state of one is the set W of threads blocked in *)
(* wait(). A thread that leaves W re-evaluates its predicate under the mutex, *)
(* so a critical section and the wait at its head are one action of a model.  *)
(* The standard also allows a thread to leave W unasked (a spurious wakeup);  *)
(* the components model that with an action of their own, never a fair one.   *)

\* notify_one: any one blocked thread leaves; without one the call is lost.
NotifyOne(W) == IF W = {} THEN {{}} ELSE {W \ {t} : t \in W}

\* notify_all: every blocked thread leaves.
NotifyAll(W) == {{}}
==============================================================================
