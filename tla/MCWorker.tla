------------------------------ MODULE MCWorker ------------------------------
(***************************************************************************)
(* Worker for TLC: two contexts, each owning one task; the timer belongs  *)
(* to the first context and the fd to the second, so that a handler of    *)
(* one context can run while an application thread holds the other.      *)
(* The task runs leave the descriptor out; the I/O run keeps one task,    *)
(* the timer and the descriptor, with both application threads: one can *)
(* hold the descriptor owner's context while the other terminates.       *)
(***************************************************************************)
EXTENDS Worker

CONSTANTS t1, t2, x1, f1, c1, c2, a1, a2

MCTasks  == {t1, t2}
MCTimers == {x1}
MCFds    == {f1}
MCApps   == {a1, a2}
MCCtxs   == {c1, c2}
MCCtxOf  == (t1 :> c1) @@ (t2 :> c2) @@ (x1 :> c1)

MCIoTasks == {t2}
MCIoCtxOf == (t2 :> c2) @@ (x1 :> c1) @@ (f1 :> c2)

=============================================================================
