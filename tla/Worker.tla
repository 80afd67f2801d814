------------------------------- MODULE Worker -------------------------------
(***************************************************************************)
(* One grid_worker of src/src/aio/worker.c: the thread running            *)
(* grid_worker_routine, the task queue it shares with every other thread  *)
(* (self->tasks under self->sync, with the eventfd self->efd as wakeup),  *)
(* its timers and one registered descriptor, together with the            *)
(* application threads that post and cancel tasks from inside a context   *)
(* and the one thread that calls grid_worker_term.                        *)
(*                                                                         *)
(* A handler invocation (grid_ctx_enter; grid_fsm_feed; grid_ctx_leave)    *)
(* is one step: it waits until no application thread holds the owner's   *)
(* context, then runs the owner's reaction (Handle) atomically.           *)
(***************************************************************************)
EXTENDS Naturals, Sequences, SequencesExt, FiniteSets

CONSTANTS
  Tasks,      \* grid_worker_task objects
  Timers,     \* grid_worker_timer objects
  Fds,        \* grid_worker_fd objects registered with the poller
  Apps,       \* application threads
  Ctxs,       \* contexts (grid_ctx) of the owner state machines
  CtxOf,      \* the context of the owner of every task, timer and fd
  MaxExec,    \* how often each task may be posted (bounds the model)
  Stop,       \* model value: the sentinel self->stop
  Efd,        \* model value: the poller handle self->efd_hndl
  DrainExpiry \* whether a timer can fall due while the drain runs

ASSUME
  /\ CtxOf \in [Tasks \cup Timers \cup Fds -> Ctxs]
  /\ MaxExec \in Nat \ {0}
  /\ Efd \notin Fds
  /\ DrainExpiry \in BOOLEAN

(* GRID_POLLER_IN and GRID_POLLER_OUT; a poller event is <<handle, dir>>. *)
Dirs == {"in", "out"}

(* The k-th posting of task t is the job <<t, k>>. *)
Jobs == Tasks \X (1..MaxExec)

VARIABLES
  tasks,      \* self->tasks: Seq of jobs and Stop, guarded by self->sync
  signalled,  \* whether self->efd is signalled
  pc,         \* where grid_worker_routine is: wait, timers, events, batch, exited
  pevents,    \* <<handle, dir>> events of the last grid_poller_wait, not yet read
  batch,      \* the routine's local queue `tasks` (the swapped-out batch)
  timer,      \* [Timers -> {"idle", "armed", "due"}]: timerset membership
  ready,      \* <<fd, dir>>: the descriptor is readable or writable
  reg,        \* fds added to the poller (grid_worker_add_fd)
  interest,   \* [Fds -> SUBSET Dirs]: directions set with set_in / set_out
  app,        \* [Apps -> Ctxs \cup {"out", "joining"}]
  term,       \* "none", "posted" (grid_worker_term running) or "joined"
  execs,      \* [Tasks -> 0..MaxExec]: postings of each task so far
  posted,     \* history: jobs in the order they were pushed onto self->tasks
  delivered,  \* history: jobs in the order EXECUTE was fed to their owner
  cancelled,  \* history: jobs grid_worker_cancel removed from self->tasks
  revoked,    \* history: jobs grid_worker_cancel was called on, found or not
  stopAt      \* history: Len(posted) when Stop was pushed

vars == <<tasks, signalled, pc, pevents, batch, timer, ready, reg, interest,
          app, term, execs, posted, delivered, cancelled, revoked, stopAt>>

-----------------------------------------------------------------------------
(* Helpers. *)

CtxFree(c) == \A a \in Apps : app[a] # c

TaskOf(j) == j[1]

(* A task is on a queue while it is in self->tasks or in the local batch. *)
Queued(t, q, b) == \E k \in 1..MaxExec :
                     Contains(q, <<t, k>>) \/ Contains(b, <<t, k>>)

(* Mutant: the push does not signal the eventfd. *)
ExecuteNoSignal(t, b) ==
  LET j == <<t, execs[t] + 1>> IN
  /\ execs[t] < MaxExec
  /\ ~Queued(t, tasks, b)
  /\ tasks' = Append(tasks, j)
  /\ UNCHANGED signalled
  /\ execs' = [execs EXCEPT ![t] = @ + 1]
  /\ posted' = Append(posted, j)

(* grid_worker_execute: push under self->sync and signal the eventfd.     *)
(* The precondition is grid_queue_push's: the item is not on a queue.     *)
Execute(t, b) ==
  LET j == <<t, execs[t] + 1>> IN
  /\ execs[t] < MaxExec
  /\ ~Queued(t, tasks, b)
  /\ tasks' = Append(tasks, j)
  /\ signalled' = TRUE
  /\ execs' = [execs EXCEPT ![t] = @ + 1]
  /\ posted' = Append(posted, j)

(* The poller as the fd functions of worker.c drive it. The poller's     *)
(* contract: removing a descriptor, or resetting a direction, drops the    *)
(* events of the current wait that grid_poller_event has not returned.    *)
(* io is [reg, interest, pe]; each operator gives the set of outcomes,    *)
(* empty where the call is not allowed (adding an fd twice, setting the   *)
(* direction of an fd that is not added).                                 *)
AddFd(f, io) ==
  IF f \in io.reg THEN {} ELSE {[io EXCEPT !.reg = @ \cup {f}]}

RmFd(f, io) ==
  IF f \notin io.reg THEN {}
  ELSE {[reg |-> io.reg \ {f}, interest |-> [io.interest EXCEPT ![f] = {}],
         pe |-> {e \in io.pe : e[1] # f}]}

SetDir(f, d, io) ==
  IF f \notin io.reg THEN {} ELSE {[io EXCEPT !.interest[f] = @ \cup {d}]}

ResetDir(f, d, io) ==
  IF f \notin io.reg THEN {}
  ELSE {[io EXCEPT !.interest[f] = @ \ {d}, !.pe = @ \ {<<f, d>>}]}

FdCalls(f, io) ==
  AddFd(f, io) \cup RmFd(f, io) \cup
  UNION {SetDir(f, d, io) \cup ResetDir(f, d, io) : d \in Dirs}

(* grid_worker_timer_isactive: the timer is in the timer set. *)
TimerActive(tm, x) == tm[x] # "idle"

(* The owner's reaction to an event, run by the handler in context c      *)
(* with the worker's timer set at tm, its unread poller events at pe and  *)
(* its local batch at b: nothing, post one of its tasks, add or remove    *)
(* one of its timers (as its isactive says), or one call on one of its    *)
(* descriptors.                                                           *)
Handle(c, tm, pe, b) ==
  \/ /\ timer' = tm /\ pevents' = pe
     /\ UNCHANGED <<tasks, signalled, execs, posted, reg, interest>>
  \/ \E t \in Tasks :
       /\ CtxOf[t] = c
       /\ Execute(t, b)
       /\ timer' = tm /\ pevents' = pe
       /\ UNCHANGED <<reg, interest>>
  \/ \E x \in Timers :
       /\ CtxOf[x] = c
       /\ timer' = [tm EXCEPT ![x] = IF TimerActive(tm, x) THEN "idle" ELSE "armed"]
       /\ pevents' = pe
       /\ UNCHANGED <<tasks, signalled, execs, posted, reg, interest>>
  \/ \E f \in Fds :
       /\ CtxOf[f] = c
       /\ \E io \in FdCalls(f, [reg |-> reg, interest |-> interest, pe |-> pe]) :
            reg' = io.reg /\ interest' = io.interest /\ pevents' = io.pe
       /\ timer' = tm
       /\ UNCHANGED <<tasks, signalled, execs, posted>>

-----------------------------------------------------------------------------
(* The worker thread, grid_worker_routine. *)

(* The eventfd's event, and the ready directions the poller watches. *)
EfdEvent == <<Efd, "in">>

Polled == {e \in ready : e[1] \in reg /\ e[2] \in interest[e[1]]}

(* Mutant: the wait reports only the eventfd and the timers. *)
WaitEfdOnly ==
  /\ pc = "wait"
  /\ signalled \/ \E x \in Timers : timer[x] = "due"
  /\ pevents' = IF signalled THEN {EfdEvent} ELSE {}
  /\ pc' = "timers"
  /\ UNCHANGED <<tasks, signalled, batch, timer, ready, reg, interest, app, term, execs,
                 posted, delivered, cancelled, revoked, stopAt>>

(* grid_poller_wait returns once the eventfd is signalled, a timer is due  *)
(* or a watched direction is ready, and reports the events present then.  *)
Wait ==
  /\ pc = "wait"
  /\ signalled \/ Polled # {} \/ \E x \in Timers : timer[x] = "due"
  /\ pevents' = (IF signalled THEN {EfdEvent} ELSE {}) \cup Polled
  /\ pc' = "timers"
  /\ UNCHANGED <<tasks, signalled, batch, timer, ready, reg, interest, app, term, execs,
                 posted, delivered, cancelled, revoked, stopAt>>

(* grid_timerset_event hands out a due timer and removes it; its owner    *)
(* gets GRID_WORKER_TIMER_TIMEOUT.                                        *)
TimerEvent(x) ==
  /\ pc = "timers"
  /\ timer[x] = "due"
  /\ CtxFree(CtxOf[x])
  /\ Handle(CtxOf[x], [timer EXCEPT ![x] = "idle"], pevents, batch)
  /\ UNCHANGED <<pc, batch, ready, app, term, delivered, cancelled, revoked, stopAt>>

(* grid_timerset_event returns -EAGAIN: no timer is due. *)
TimersDone ==
  /\ pc = "timers"
  /\ \A x \in Timers : timer[x] # "due"
  /\ pc' = "events"
  /\ UNCHANGED <<tasks, signalled, pevents, batch, timer, ready, reg, interest, app, term,
                 execs, posted, delivered, cancelled, revoked, stopAt>>

SwapStopFirst ==
  /\ pc = "events"
  /\ EfdEvent \in pevents
  /\ pevents' = pevents \ {EfdEvent}
  /\ signalled' = FALSE
  /\ batch' = IF Contains(tasks, Stop) THEN <<>> ELSE tasks
  /\ tasks' = <<>>
  /\ pc' = IF Contains(tasks, Stop) THEN "exited" ELSE "batch"
  /\ UNCHANGED <<timer, ready, reg, interest, app, term, execs, posted, delivered, cancelled, revoked,
                 stopAt>>

(* The event is on the eventfd: under self->sync unsignal it, take the    *)
(* whole queue as the local batch and leave self->tasks empty.            *)
Swap ==
  /\ pc = "events"
  /\ EfdEvent \in pevents
  /\ pevents' = pevents \ {EfdEvent}
  /\ signalled' = FALSE
  /\ batch' = tasks
  /\ tasks' = <<>>
  /\ pc' = "batch"
  /\ UNCHANGED <<timer, ready, reg, interest, app, term, execs, posted, delivered, cancelled, revoked,
                 stopAt>>

(* A true I/O event e = <<fd, dir>>: its owner gets GRID_POLLER_IN or     *)
(* GRID_POLLER_OUT, reads or writes, and may call on its descriptors.    *)
FdEvent(e) ==
  /\ pc = "events"
  /\ e \in pevents /\ e # EfdEvent
  /\ CtxFree(CtxOf[e[1]])
  /\ ready' = ready \ {e}
  /\ Handle(CtxOf[e[1]], timer, pevents \ {e}, batch)
  /\ UNCHANGED <<pc, batch, app, term, delivered, cancelled, revoked, stopAt>>

(* grid_poller_event returns -EAGAIN: back to grid_poller_wait. *)
EventsDone ==
  /\ pc = "events"
  /\ pevents = {}
  /\ pc' = "wait"
  /\ UNCHANGED <<tasks, signalled, pevents, batch, timer, ready, reg, interest, app, term,
                 execs, posted, delivered, cancelled, revoked, stopAt>>

(* Mutant: the batch is popped from its tail. *)
RunTaskFromTail ==
  /\ pc = "batch"
  /\ batch # <<>>
  /\ Last(batch) # Stop
  /\ CtxFree(CtxOf[TaskOf(Last(batch))])
  /\ batch' = Front(batch)
  /\ delivered' = Append(delivered, Last(batch))
  /\ Handle(CtxOf[TaskOf(Last(batch))], timer, pevents, Front(batch))
  /\ UNCHANGED <<pc, ready, app, term, cancelled, revoked, stopAt>>

(* Pop a user task off the batch and feed GRID_WORKER_TASK_EXECUTE. *)
RunTask ==
  /\ pc = "batch"
  /\ batch # <<>>
  /\ Head(batch) # Stop
  /\ CtxFree(CtxOf[TaskOf(Head(batch))])
  /\ batch' = Tail(batch)
  /\ delivered' = Append(delivered, Head(batch))
  /\ Handle(CtxOf[TaskOf(Head(batch))], timer, pevents, Tail(batch))
  /\ UNCHANGED <<pc, ready, app, term, cancelled, revoked, stopAt>>

(* Popped the stop sentinel: discard the rest of the batch and return. *)
StopTask ==
  /\ pc = "batch"
  /\ batch # <<>>
  /\ Head(batch) = Stop
  /\ batch' = <<>>
  /\ pc' = "exited"
  /\ UNCHANGED <<tasks, signalled, pevents, timer, ready, reg, interest, app, term, execs,
                 posted, delivered, cancelled, revoked, stopAt>>

(* The batch is empty: continue with the next poller event. *)
BatchDone ==
  /\ pc = "batch"
  /\ batch = <<>>
  /\ pc' = "events"
  /\ UNCHANGED <<tasks, signalled, pevents, batch, timer, ready, reg, interest, app, term,
                 execs, posted, delivered, cancelled, revoked, stopAt>>

WorkerStep ==
  \/ Wait \/ TimersDone \/ Swap \/ EventsDone
  \/ RunTask \/ StopTask \/ BatchDone
  \/ \E x \in Timers : TimerEvent(x)
  \/ \E e \in Fds \X Dirs : FdEvent(e)

-----------------------------------------------------------------------------
(* Application threads. *)

Enter(a, c) ==
  /\ app[a] = "out"
  /\ CtxFree(c)
  /\ app' = [app EXCEPT ![a] = c]
  /\ UNCHANGED <<tasks, signalled, pc, pevents, batch, timer, ready, reg, interest, term,
                 execs, posted, delivered, cancelled, revoked, stopAt>>

Leave(a) ==
  /\ app[a] \in Ctxs
  /\ app' = [app EXCEPT ![a] = "out"]
  /\ UNCHANGED <<tasks, signalled, pc, pevents, batch, timer, ready, reg, interest, term,
                 execs, posted, delivered, cancelled, revoked, stopAt>>

(* grid_worker_execute from the owner's context; never after term. *)
AppExecute(a, t) ==
  /\ app[a] = CtxOf[t]
  /\ term = "none"
  /\ Execute(t, batch)
  /\ UNCHANGED <<pc, pevents, batch, timer, ready, reg, interest, app, term, delivered,
                 cancelled, revoked, stopAt>>

(* grid_worker_cancel: under self->sync remove the task from self->tasks; *)
(* a task already swapped into the batch is not found.                    *)
Cancel(a, t) ==
  LET j == <<t, execs[t]>> IN
  /\ app[a] = CtxOf[t]
  /\ term = "none"
  /\ execs[t] > 0
  /\ tasks' = SelectSeq(tasks, LAMBDA i : i # j)
  /\ cancelled' = IF Contains(tasks, j) THEN cancelled \cup {j} ELSE cancelled
  /\ revoked' = revoked \cup {j}
  /\ UNCHANGED <<signalled, pc, pevents, batch, timer, ready, reg, interest, app, term, execs,
                 posted, delivered, stopAt>>

(* Mutant: self->stop is pushed without signalling the eventfd. *)
TermNoSignal(a) ==
  /\ app[a] = "out"
  /\ term = "none"
  /\ tasks' = Append(tasks, Stop)
  /\ term' = "posted"
  /\ app' = [app EXCEPT ![a] = "joining"]
  /\ stopAt' = Len(posted)
  /\ UNCHANGED <<signalled, pc, pevents, batch, timer, ready, reg, interest, execs, posted,
                 delivered, cancelled, revoked>>

(* grid_worker_term, first half: push self->stop, signal, then block in   *)
(* grid_thread_term. It is called outside any context, by one thread.     *)
Term(a) ==
  /\ app[a] = "out"
  /\ term = "none"
  /\ tasks' = Append(tasks, Stop)
  /\ signalled' = TRUE
  /\ term' = "posted"
  /\ app' = [app EXCEPT ![a] = "joining"]
  /\ stopAt' = Len(posted)
  /\ UNCHANGED <<pc, pevents, batch, timer, ready, reg, interest, execs, posted, delivered,
                 cancelled, revoked>>

(* grid_thread_term returns once the routine has returned. *)
Join(a) ==
  /\ app[a] = "joining"
  /\ pc = "exited"
  /\ term' = "joined"
  /\ app' = [app EXCEPT ![a] = "out"]
  /\ UNCHANGED <<tasks, signalled, pc, pevents, batch, timer, ready, reg, interest, execs,
                 posted, delivered, cancelled, revoked, stopAt>>

-----------------------------------------------------------------------------
(* The environment: time passes and input arrives. *)

(* An armed timer reaches its deadline. Unless DrainExpiry holds, no     *)
(* timer falls due while grid_timerset_event is being drained: a timer    *)
(* armed from a handler has a timeout longer than the rest of the drain.  *)
(* With DrainExpiry, a timer re-armed with timeout 0 (or one shorter than *)
(* the handlers still to run) is due again before the drain ends.         *)
Expire(x) ==
  /\ timer[x] = "armed"
  /\ DrainExpiry \/ pc # "timers"
  /\ timer' = [timer EXCEPT ![x] = "due"]
  /\ UNCHANGED <<tasks, signalled, pc, pevents, batch, ready, reg, interest, app, term, execs,
                 posted, delivered, cancelled, revoked, stopAt>>

(* The descriptor becomes readable or writable. *)
Arrive(f, d) ==
  /\ <<f, d>> \notin ready
  /\ ready' = ready \cup {<<f, d>>}
  /\ UNCHANGED <<tasks, signalled, pc, pevents, batch, timer, reg, interest, app, term, execs,
                 posted, delivered, cancelled, revoked, stopAt>>

-----------------------------------------------------------------------------

Init ==
  /\ tasks = <<>>
  /\ signalled = FALSE
  /\ pc = "wait"
  /\ pevents = {}
  /\ batch = <<>>
  /\ timer = [x \in Timers |-> "idle"]
  /\ ready = {}
  /\ reg = Fds
  /\ interest = [f \in Fds |-> {"in"}]
  /\ app = [a \in Apps |-> "out"]
  /\ term = "none"
  /\ execs = [t \in Tasks |-> 0]
  /\ posted = <<>>
  /\ delivered = <<>>
  /\ cancelled = {}
  /\ revoked = {}
  /\ stopAt = 0

AppStep(a) ==
  \/ \E c \in Ctxs : Enter(a, c)
  \/ Leave(a)
  \/ \E t \in Tasks : AppExecute(a, t) \/ Cancel(a, t)
  \/ Term(a)
  \/ Join(a)

Next ==
  \/ WorkerStep
  \/ \E a \in Apps : AppStep(a)
  \/ \E x \in Timers : Expire(x)
  \/ \E f \in Fds, d \in Dirs : Arrive(f, d)

(* The worker thread is never starved of a context it keeps finding free, *)
(* threads leave contexts and return from join, and deadlines pass.       *)
Fairness ==
  /\ SF_vars(WorkerStep)
  /\ \A a \in Apps : WF_vars(Leave(a)) /\ WF_vars(Join(a))
  /\ \A x \in Timers : WF_vars(Expire(x))

Spec == Init /\ [][Next]_vars /\ Fairness

-----------------------------------------------------------------------------
(* Properties. *)

TypeOK ==
  /\ tasks \in Seq(Jobs \cup {Stop})
  /\ signalled \in BOOLEAN
  /\ pc \in {"wait", "timers", "events", "batch", "exited"}
  /\ pevents \subseteq (Fds \cup {Efd}) \X Dirs
  /\ batch \in Seq(Jobs \cup {Stop})
  /\ timer \in [Timers -> {"idle", "armed", "due"}]
  /\ ready \subseteq Fds \X Dirs
  /\ reg \subseteq Fds
  /\ interest \in [Fds -> SUBSET Dirs]
  /\ app \in [Apps -> Ctxs \cup {"out", "joining"}]
  /\ term \in {"none", "posted", "joined"}
  /\ execs \in [Tasks -> 0..MaxExec]
  /\ posted \in Seq(Jobs)
  /\ delivered \in Seq(Jobs)
  /\ cancelled \subseteq Jobs
  /\ revoked \subseteq Jobs
  /\ stopAt \in Nat

(* Where job j stands in the order of posting (0 if never posted). *)
PostedAt(j) == SelectInSeq(posted, LAMBDA i : i = j)

Delivered(j) == Contains(delivered, j)

(* P1: tasks reach their owners in the order they were pushed onto        *)
(* self->tasks, across batches and whichever thread posted them.          *)
FifoDelivery ==
  \A i, k \in 1..Len(delivered) :
    i < k => 0 < PostedAt(delivered[i]) /\ PostedAt(delivered[i]) < PostedAt(delivered[k])

ShutdownDelivery ==
  pc = "exited" =>
    \A i \in 1..Len(posted) :
      (i <= stopAt) = (Delivered(posted[i]) \/ posted[i] \in cancelled)

(* Every posting made before self->stop (or with no term at all) is       *)
(* eventually delivered or cancelled: no wakeup of the eventfd is lost.   *)
EventualDelivery ==
  \A j \in Jobs :
    (/\ PostedAt(j) > 0
     /\ term = "none" \/ PostedAt(j) <= stopAt)
      ~> (Delivered(j) \/ j \in cancelled)

(* The worker implements TaskChannel: its pending postings are the local  *)
(* batch followed by self->tasks until the routine returns, nothing after.*)
(* This covers FIFO order, best-effort cancel, the sentinel's cut and,    *)
(* through TaskChannel's fairness, that a pending posting is not stranded.*)
Channel == INSTANCE TaskChannel WITH
             pending <- IF pc = "exited" THEN <<>> ELSE batch \o tasks,
             closed <- pc = "exited"

ChannelSpec == Channel!Spec

(* grid_worker_term returns: the routine sees self->stop and exits. *)
TermCompletes == term = "posted" ~> term = "joined"


(* An owner that has received EXECUTE for the last posting of a task, or *)
(* has called grid_worker_cancel on it (best effort: nothing says whether *)
(* it was found), may post the task again; the task's queue item must     *)
(* then be on no queue, or grid_queue_push's assertion in                 *)
(* grid_worker_execute aborts the process.                                *)
RequeueSafe ==
  \A t \in Tasks :
    LET j == <<t, execs[t]>> IN
      execs[t] > 0 /\ (Delivered(j) \/ j \in revoked) => ~Queued(t, tasks, batch)


(* A direction the poller watches and that is ready is eventually handed *)
(* to the fd's owner (which reads or writes), or stops being watched:    *)
(* grid_poller_wait reports it, the event loop feeds it, and no handler  *)
(* or context held by an application thread holds it back for good,     *)
(* until grid_worker_term has stopped the routine.                       *)
EventualIo ==
  \A e \in Fds \X Dirs : e \in Polled ~> (e \notin Polled \/ pc = "exited")

=============================================================================
