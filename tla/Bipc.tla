-------------------------------- MODULE Bipc --------------------------------
(***************************************************************************)
(* The bound IPC endpoint of src/src/transports/ipc/bipc.c: the root      *)
(* state machine that owns the listening usock, the backoff timer `retry` *)
(* and the aipc state machines (one accepting, the rest accepted, in the  *)
(* list `aipcs`).                                                         *)
(*                                                                         *)
(* The children are modelled by their contract (their code is not in this *)
(* repository): a child's completed step raises an event that the context *)
(* delivers to bipc before it is left, so one action is one child step    *)
(* followed by grid_bipc_handler, or grid_bipc_shutdown while bipc's fsm  *)
(* is stopping (grid_fsm_feed). A stop request on a child that is not     *)
(* active is a no-op, as bipc relies on when it stops a backoff it never  *)
(* started (line 174).                                                    *)
(*                                                                         *)
(* The handlers are functions from a snapshot record of the endpoint to   *)
(* the record after the call; Commit writes it back.                      *)
(***************************************************************************)
EXTENDS Naturals, FiniteSets

CONSTANTS
  Aipcs,   \* aipc objects that can be allocated (bounds open connections)
  None     \* model value: the NULL aipc pointer

ASSUME None \notin Aipcs

(* Event sources and types. *)
FSM_ACTION == "action"
SRC_USOCK == "usock"
SRC_AIPC == "aipc"
SRC_RECONNECT_TIMER == "reconnect_timer"

ListenResults == {"ok", "start_fail", "bind_fail", "listen_fail"}

VARIABLES
  state,      \* bipc->state
  fsm,        \* bipc->fsm: "idle", "active" or "stopping"
  aipc,       \* bipc->aipc: the aipc accepting at the moment, or None
  aipcs,      \* bipc->aipcs: the accepted aipcs
  usock,      \* the listening usock: "idle", "active", "stopping", "closing"
  retry,      \* the backoff: "idle", "armed", "fired", "stopping"
  kid,        \* [Aipcs -> ...]: each aipc object, "free" if not allocated
  stopped,    \* number of grid_epbase_stopped calls
  fault,      \* "none" or the assertion that failed
  destroyed,  \* grid_bipc_destroy has run
  stranded    \* history: accepted aipcs already stopping at the stop request

vars == <<state, fsm, aipc, aipcs, usock, retry, kid, stopped, fault, destroyed,
          stranded>>

Snap == [state |-> state, fsm |-> fsm, aipc |-> aipc, aipcs |-> aipcs,
         usock |-> usock, retry |-> retry, kid |-> kid, stopped |-> stopped,
         fault |-> fault]

Commit(r) ==
  /\ state' = r.state  /\ fsm' = r.fsm      /\ aipc' = r.aipc
  /\ aipcs' = r.aipcs  /\ usock' = r.usock  /\ retry' = r.retry
  /\ kid' = r.kid      /\ stopped' = r.stopped  /\ fault' = r.fault

-----------------------------------------------------------------------------
(* The children's operations as bipc calls them. *)

Bad(r, why) == [r EXCEPT !.fault = why]

Active(k) == k \in {"accepting", "active", "done"}

AipcStop(k) == IF Active(k) THEN "stopping" ELSE k

(* Mutant: the backoff is never armed (its start call is lost). *)
BackoffStartNoArm(r) ==
  IF r.retry = "idle" THEN r ELSE Bad(r, "backoff_start")

(* grid_backoff_start: starting a backoff that is not idle is fatal. *)
BackoffStart(r) ==
  IF r.retry = "idle" THEN [r EXCEPT !.retry = "armed"] ELSE Bad(r, "backoff_start")

BackoffStop(b) == IF b \in {"armed", "fired"} THEN "stopping" ELSE b

UsockStop(u) == IF u = "active" THEN "stopping" ELSE u

FreeAipcs(r) == {a \in Aipcs : r.kid[a] = "free"}

(* grid_bipc_start_accepting: allocate an aipc and start it accepting. *)
StartAccepting(r) ==
  LET a == CHOOSE x \in FreeAipcs(r) : TRUE IN
  IF r.aipc # None THEN Bad(r, "start_accepting")
  ELSE [r EXCEPT !.aipc = a, !.kid[a] = "accepting"]

(* grid_bipc_start_listening with the outcome res of grid_usock_start,    *)
(* grid_usock_bind and grid_usock_listen (the stale-file cleanup before   *)
(* them only touches the file system).                                    *)
StartListening(r, res) ==
  CASE res = "start_fail" -> [BackoffStart(r) EXCEPT !.state = "WAITING"]
    [] res \in {"bind_fail", "listen_fail"} ->
         [r EXCEPT !.usock = "stopping", !.state = "CLOSING"]
    [] res = "ok" -> [StartAccepting([r EXCEPT !.usock = "active"])
                        EXCEPT !.state = "ACTIVE"]

-----------------------------------------------------------------------------
(* grid_bipc_handler, one operator per state: event (src, type) from     *)
(* the object p; res is the outcome of a grid_bipc_start_listening call.  *)

HandleIdle(r, src, type, res) ==
  IF src = FSM_ACTION /\ type = "start" THEN StartListening(r, res)
  ELSE Bad(r, "bad_source")

(* ACTIVE: the accepting aipc reports a connection; any other event is    *)
(* assumed to come from an accepted aipc.                                 *)
HandleActive(r, src, type, p) ==
  IF p = r.aipc
  THEN IF type = "accepted"
       THEN StartAccepting([r EXCEPT !.aipcs = @ \cup {r.aipc}, !.aipc = None])
       ELSE Bad(r, "bad_action")
  ELSE IF src # SRC_AIPC THEN Bad(r, "assert_src_aipc")
  ELSE CASE type = "error" -> [r EXCEPT !.kid[p] = AipcStop(@)]
         [] type = "stopped" -> [r EXCEPT !.aipcs = @ \ {p}, !.kid[p] = "free"]
         [] OTHER -> Bad(r, "bad_action")

(* CLOSING: the usock was asked to stop after bind or listen failed. *)
HandleClosing(r, src, type) ==
  IF src # SRC_USOCK THEN Bad(r, "bad_source")
  ELSE CASE type = "shutdown" -> r
         [] type = "stopped" -> [BackoffStart(r) EXCEPT !.state = "WAITING"]
         [] OTHER -> Bad(r, "bad_action")

(* WAITING: the backoff fired; stop it before listening again. *)
(* Mutant: listen again at once, leaving the fired backoff running. *)
WaitingRetryAtOnce(r, src, type, res) ==
  IF src = SRC_RECONNECT_TIMER /\ type = "timeout" THEN StartListening(r, res)
  ELSE Bad(r, "bad_source")

HandleWaiting(r, src, type, res) ==
  IF src = SRC_RECONNECT_TIMER /\ type = "timeout"
  THEN [r EXCEPT !.retry = BackoffStop(@), !.state = "STOPPING_BACKOFF"]
  ELSE Bad(r, "bad_source")

HandleStoppingBackoff(r, src, type, res) ==
  IF src = SRC_RECONNECT_TIMER /\ type = "backoff_stopped" THEN StartListening(r, res)
  ELSE Bad(r, "bad_source")

Handler(r, src, type, p, res) ==
  CASE r.state = "IDLE" -> HandleIdle(r, src, type, res)
    [] r.state = "ACTIVE" -> HandleActive(r, src, type, p)
    [] r.state = "CLOSING" -> HandleClosing(r, src, type)
    [] r.state = "WAITING" -> HandleWaiting(r, src, type, res)
    [] r.state = "STOPPING_BACKOFF" -> HandleStoppingBackoff(r, src, type, res)
    [] OTHER -> Bad(r, "bad_state")

-----------------------------------------------------------------------------
(* grid_bipc_shutdown, stage by stage; each stage falls into the next.    *)

(* aipcs_stopping: with no aipc left, bipc is idle and says so. *)
AipcsStopping(r) ==
  IF r.aipcs = {}
  THEN [r EXCEPT !.state = "IDLE", !.fsm = "idle", !.stopped = @ + 1]
  ELSE r

(* Mutant: STOPPING_USOCK does not wait for the backoff. *)
StoppingUsockNoBackoff(r) ==
  IF r.usock # "idle" THEN r
  ELSE AipcsStopping(
         [r EXCEPT !.kid = [a \in Aipcs |-> IF a \in r.aipcs THEN AipcStop(@[a])
                                                            ELSE @[a]],
                   !.state = "STOPPING_AIPCS"])

(* STOPPING_USOCK: once usock and backoff are idle, stop every aipc. *)
StoppingUsock(r) ==
  IF ~(r.usock = "idle" /\ r.retry = "idle") THEN r
  ELSE AipcsStopping(
         [r EXCEPT !.kid = [a \in Aipcs |-> IF a \in r.aipcs THEN AipcStop(@[a])
                                                            ELSE @[a]],
                   !.state = "STOPPING_AIPCS"])

(* Mutant: the accepting aipc is freed but the usock is not stopped. *)
StoppingAipcNoUsockStop(r) ==
  IF r.kid[r.aipc] # "idle" THEN r
  ELSE StoppingUsock([r EXCEPT !.kid[r.aipc] = "free", !.aipc = None,
                               !.state = "STOPPING_USOCK"])

(* STOPPING_AIPC: once the accepting aipc is idle, free it, stop usock. *)
StoppingAipc(r) ==
  IF r.kid[r.aipc] # "idle" THEN r
  ELSE StoppingUsock([r EXCEPT !.kid[r.aipc] = "free", !.aipc = None,
                               !.usock = UsockStop(@), !.state = "STOPPING_USOCK"])

(* The stop request: stop the backoff and the accepting aipc, if any. *)
StopRequest(r) ==
  LET s == [r EXCEPT !.retry = BackoffStop(@)] IN
  IF s.aipc # None
  THEN [s EXCEPT !.kid[s.aipc] = AipcStop(@), !.state = "STOPPING_AIPC"]
  ELSE [s EXCEPT !.state = "STOPPING_USOCK"]

Shutdown(r, src, type, p) ==
  LET r1 == IF src = FSM_ACTION /\ type = "stop" THEN StopRequest(r) ELSE r IN
  CASE r1.state = "STOPPING_AIPC" -> StoppingAipc(r1)
    [] r1.state = "STOPPING_USOCK" -> StoppingUsock(r1)
    [] r1.state = "STOPPING_AIPCS" ->
         IF src = SRC_AIPC /\ type = "stopped"
         THEN AipcsStopping([r1 EXCEPT !.aipcs = @ \ {p}, !.kid[p] = "free"])
         ELSE Bad(r1, "assert_aipc_stopped")
    [] OTHER -> Bad(r1, "bad_state")

(* grid_fsm_feed: the shutdown handler runs while the fsm is stopping. *)
Feed(r, src, type, p, res) ==
  IF r.fsm = "stopping" THEN Shutdown(r, src, type, p)
  ELSE Handler(r, src, type, p, res)

(* A session in bipc's context: a child step r, then the feed. *)
Deliver(r, src, type, p) ==
  /\ fault = "none"
  /\ \E res \in ListenResults :
       /\ res = "ok" => FreeAipcs(r) # {}
       /\ Commit(Feed(r, src, type, p, res))
  /\ stranded' = IF src = FSM_ACTION /\ type = "stop"
                 THEN {a \in aipcs : kid[a] = "stopping"} ELSE stranded
  /\ UNCHANGED destroyed

-----------------------------------------------------------------------------
(* The socket's calls. *)

(* grid_bipc_create: initialise, then grid_fsm_start feeds START. *)
Create ==
  /\ fsm = "idle" /\ state = "IDLE" /\ stopped = 0
  /\ Deliver([Snap EXCEPT !.fsm = "active"], FSM_ACTION, "start", None)

(* grid_bipc_stop: grid_fsm_stop feeds STOP to the shutdown handler. *)
Stop ==
  /\ fsm = "active"
  /\ Deliver([Snap EXCEPT !.fsm = "stopping"], FSM_ACTION, "stop", None)

(* grid_bipc_destroy, after grid_epbase_stopped. *)
Destroy ==
  /\ stopped > 0 /\ ~destroyed /\ fault = "none"
  /\ destroyed' = TRUE
  /\ fault' = IF state = "IDLE" /\ aipc = None THEN "none" ELSE "destroy"
  /\ UNCHANGED <<state, fsm, aipc, aipcs, usock, retry, kid, stopped, stranded>>

-----------------------------------------------------------------------------
(* The children, each step followed by bipc's reaction to its event. *)

AipcAccepted(a) ==
  /\ kid[a] = "accepting"
  /\ FreeAipcs(Snap) # {}
  /\ Deliver([Snap EXCEPT !.kid[a] = "active"], SRC_AIPC, "accepted", a)

AipcError(a) ==
  /\ kid[a] = "active"
  /\ Deliver([Snap EXCEPT !.kid[a] = "done"], SRC_AIPC, "error", a)

AipcStopped(a) ==
  /\ kid[a] = "stopping"
  /\ Deliver([Snap EXCEPT !.kid[a] = "idle"], SRC_AIPC, "stopped", a)

UsockShutdown ==
  /\ usock = "stopping"
  /\ Deliver([Snap EXCEPT !.usock = "closing"], SRC_USOCK, "shutdown", SRC_USOCK)

UsockStopped ==
  /\ usock \in {"stopping", "closing"}
  /\ Deliver([Snap EXCEPT !.usock = "idle"], SRC_USOCK, "stopped", SRC_USOCK)

BackoffTimeout ==
  /\ retry = "armed"
  /\ Deliver([Snap EXCEPT !.retry = "fired"], SRC_RECONNECT_TIMER, "timeout", SRC_RECONNECT_TIMER)

BackoffStopped ==
  /\ retry = "stopping"
  /\ Deliver([Snap EXCEPT !.retry = "idle"], SRC_RECONNECT_TIMER, "backoff_stopped", SRC_RECONNECT_TIMER)

-----------------------------------------------------------------------------

Init ==
  /\ state = "IDLE"
  /\ fsm = "idle"
  /\ aipc = None
  /\ aipcs = {}
  /\ usock = "idle"
  /\ retry = "idle"
  /\ kid = [a \in Aipcs |-> "free"]
  /\ stopped = 0
  /\ fault = "none"
  /\ destroyed = FALSE
  /\ stranded = {}

Next ==
  \/ Create \/ Stop \/ Destroy
  \/ \E a \in Aipcs : AipcAccepted(a) \/ AipcError(a) \/ AipcStopped(a)
  \/ UsockShutdown \/ UsockStopped \/ BackoffTimeout \/ BackoffStopped

(* A child asked to stop finishes stopping, an armed backoff fires, and   *)
(* the socket destroys a stopped endpoint: each is driven by worker       *)
(* events that keep being delivered.                                      *)
Fairness ==
  /\ \A a \in Aipcs : WF_vars(AipcStopped(a))
  /\ WF_vars(UsockStopped) /\ WF_vars(BackoffTimeout) /\ WF_vars(BackoffStopped)
  /\ WF_vars(Destroy)

Spec == Init /\ [][Next]_vars /\ Fairness

-----------------------------------------------------------------------------
(* Properties. *)

States == {"IDLE", "ACTIVE", "STOPPING_AIPC", "STOPPING_USOCK",
           "STOPPING_AIPCS", "WAITING", "CLOSING", "STOPPING_BACKOFF"}

TypeOK ==
  /\ state \in States
  /\ fsm \in {"idle", "active", "stopping"}
  /\ aipc \in Aipcs \cup {None}
  /\ aipcs \subseteq Aipcs
  /\ usock \in {"idle", "active", "stopping", "closing"}
  /\ retry \in {"idle", "armed", "fired", "stopping"}
  /\ kid \in [Aipcs -> {"free", "accepting", "active", "done", "stopping", "idle"}]
  /\ stopped \in Nat
  /\ fault \in STRING
  /\ destroyed \in BOOLEAN
  /\ stranded \subseteq Aipcs

(* Whatever order the children's events arrive in, relative to each other *)
(* and to the stop request, no event reaches grid_bipc_handler or         *)
(* grid_bipc_shutdown in a state that does not expect it, no child is    *)
(* started twice, and grid_bipc_destroy's assertions hold.               *)
NoBadEvent == fault = "none"

(* grid_epbase_stopped is called once, and only when the usock, the      *)
(* backoff and every aipc are idle and every aipc has been freed: the    *)
(* socket may then free the endpoint and everything it embeds.          *)
StoppedWhenQuiescent ==
  stopped > 0 =>
    /\ stopped = 1
    /\ usock = "idle" /\ retry = "idle"
    /\ aipc = None /\ aipcs = {}
    /\ \A a \in Aipcs : kid[a] = "free"

(* A stop request on the endpoint is eventually followed by             *)
(* grid_epbase_stopped, so closing the socket returns.                  *)
StopCompletes == fsm = "stopping" ~> stopped > 0


(* The stop does complete when no accepted aipc was already stopping at  *)
(* the stop request (one whose ERROR bipc answered with grid_aipc_stop    *)
(* in ACTIVE): then every aipc's STOPPED reaches STOPPING_AIPCS, the      *)
(* usock's and the backoff's reach their stages, and grid_epbase_stopped  *)
(* is called. With the fairness of the children's completions.            *)
CleanStopCompletes == (fsm = "stopping" /\ stranded = {}) ~> stopped > 0


(* A failed listen is retried: after grid_usock_bind or grid_usock_listen *)
(* fails (CLOSING), or grid_usock_start fails (WAITING), bipc leaves each *)
(* stage of the retry cycle (the usock's STOPPED starts the backoff, its  *)
(* TIMEOUT stops it, its STOPPED calls grid_bipc_start_listening again)   *)
(* unless the socket stops the endpoint meanwhile.                        *)
ListenRetried ==
  \A s \in {"CLOSING", "WAITING", "STOPPING_BACKOFF"} :
    (state = s /\ fsm = "active") ~> (state # s \/ fsm # "active")

=============================================================================
