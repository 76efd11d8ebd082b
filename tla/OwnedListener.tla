---------------------------- MODULE OwnedListener ----------------------------
(* One generation of the loopback proxy as its threads see it: the accept    *)
(* thread of hns-loopback-proxy listener.rs, one worker thread per admitted  *)
(* client, the reaper thread, and the outside threads that call              *)
(* RunningProxy::stop of server.rs or drop the handle.  A worker (or the     *)
(* accept thread, while it answers an overload) may call stop from an        *)
(* observer callback.  What a worker does with its request is in             *)
(* LoopbackRequest; here it only holds a socket, a permit and a registration.*)

EXTENDS Naturals, FiniteSets, Sequences

CONSTANTS Callers,     \* threads outside the proxy that may stop or drop it
          Clients,     \* connections, each naming the worker that serves it
          Accept,      \* the accept thread
          NoClient,
          MaxActive    \* max_active_clients of the limiter

ASSUME OwnedListenerAssumption ==
    /\ MaxActive \in Nat \ {0}
    /\ Accept \notin Callers \union Clients
    /\ Callers \intersect Clients = {}
    /\ NoClient \notin Clients
    /\ {"pending", "emitted"} \intersect (Callers \union Clients \union {Accept}) = {}

Threads == Callers \union Clients \union {Accept}
\* OwnedThreadMarker: the threads on which joining the accept thread would cycle.
Owned == Clients \union {Accept}

VARIABLES
    cancelled,   \* the CancellationToken
    requested,   \* ProxyStopState.requested
    completed,   \* ProxyStopState.completed
    announce,    \* StopAnnouncement: "pending", the emitting thread, "emitted"
    published,   \* listening_published
    tls,         \* the identity store is active
    stopping,    \* ClientControlState.stopping
    streams,     \* ClientControlState.streams: the registered clients
    open,        \* accepted sockets not yet shut down
    cur,         \* the client in the accept thread's hands
    handles,     \* WorkerSet.handles: the workers the accept loop must join
    reason,      \* exit_reason of the accept loop
    handle,      \* AcceptThreadState: "held", "joining", "reaper", "none"
    pc,          \* where each thread is: <<flow, step>>
    shutting,    \* the snapshot begin_stop returned to each thread
    called,      \* threads that have called stop (bound: once each)
    dropped,     \* the owner's handle is gone
    events       \* lifecycle events delivered to the observer

flags == <<cancelled, requested, completed, announce, published, tls>>
sockets == <<stopping, streams, open, cur, handles>>
owner == <<handle, called, dropped>>
listenerVars == <<flags, sockets, owner, reason, pc, shutting, events>>

Goto(t, flow, step) == pc' = [pc EXCEPT ![t] = <<flow, step>>]
At(t, flow, step) == pc[t] = <<flow, step>>
In(t, step) == pc[t][2] = step
Running == {c \in Clients : pc[c][1] \in {"work", "stop"}}

ListenerInit ==
    /\ cancelled = FALSE /\ requested = FALSE /\ completed = FALSE
    /\ announce = "pending" /\ published = FALSE /\ tls = TRUE
    /\ stopping = FALSE /\ streams = {} /\ open = {} /\ cur = NoClient /\ handles = {}
    /\ reason = "Requested" /\ handle = "held" /\ called = {} /\ dropped = FALSE
    /\ pc = [t \in Threads |-> IF t = Accept THEN <<"accept", "loop">> ELSE <<"idle", "idle">>]
    /\ shutting = [t \in Threads |-> {}]
    /\ events = << >>

\* The end of start: the Listening event, then publish_listening.
PublishListening ==
    /\ ~published
    /\ published' = TRUE
    /\ events' = Append(events, "Listening")
    /\ UNCHANGED <<cancelled, requested, completed, announce, tls, sockets, owner, reason, pc,
                   shutting>>

------------------------------------------------------------------------------
(* The accept loop. *)

\* accept() returned a client: reap_finished has dropped the ended workers.
AcceptClient(c) ==
    /\ At(Accept, "accept", "loop") /\ ~cancelled
    /\ pc[c] = <<"idle", "idle">>
    /\ cur' = c
    /\ open' = open \union {c}
    /\ handles' = {w \in handles : pc[w] # <<"idle", "done">>}
    /\ pc' = [pc EXCEPT ![Accept] = <<"accept", "check">>, ![c] = <<"idle", "accepted">>]
    /\ UNCHANGED <<flags, stopping, streams, owner, reason, shutting, events>>

\* The client in hand is closed without having been registered.
Discard(step) ==
    /\ open' = open \ {cur}
    /\ cur' = NoClient
    /\ pc' = [pc EXCEPT ![Accept] = <<"accept", step>>, ![cur] = <<"idle", "done">>]

\* set_nonblocking or try_clone failed, or the stop came first.
AcceptCheck ==
    /\ At(Accept, "accept", "check")
    /\ \/ ~cancelled /\ Goto(Accept, "accept", "register") /\ UNCHANGED <<open, cur>>
       \/ Discard("loop")
       \/ cancelled /\ Discard("exit")
    /\ UNCHANGED <<flags, stopping, streams, handles, owner, reason, shutting, events>>

MutantRegister ==
    /\ At(Accept, "accept", "register")
    /\ streams' = streams \union {cur}
    /\ Goto(Accept, "accept", "admit")
    /\ UNCHANGED <<flags, stopping, open, cur, handles, owner, reason, shutting, events>>

\* ClientControls::register refuses once a stop has taken its snapshot.
Register ==
    /\ At(Accept, "accept", "register")
    /\ \/ /\ ~stopping
          /\ streams' = streams \union {cur}
          /\ Goto(Accept, "accept", "admit")
          /\ UNCHANGED <<open, cur>>
       \/ /\ stopping
          /\ Discard("exit")
          /\ UNCHANGED streams
    /\ UNCHANGED <<flags, stopping, handles, owner, reason, shutting, events>>

\* A permit is free: the worker starts and owns permit and registration.
Spawn ==
    /\ At(Accept, "accept", "admit")
    /\ Cardinality(Running) < MaxActive
    /\ handles' = handles \union {cur}
    /\ cur' = NoClient
    /\ pc' = [pc EXCEPT ![Accept] = <<"accept", "loop">>, ![cur] = <<"work", "serve">>]
    /\ UNCHANGED <<flags, stopping, streams, open, owner, reason, shutting, events>>

\* The thread could not be started: its closure is dropped with all it owned.
SpawnFails ==
    /\ At(Accept, "accept", "admit")
    /\ Cardinality(Running) < MaxActive
    /\ streams' = streams \ {cur}
    /\ Discard("loop")
    /\ UNCHANGED <<flags, stopping, handles, owner, reason, shutting, events>>

\* No permit: the 429 is written on the accept thread, whose observer call may
\* itself call stop before the registration is dropped.
Overload ==
    /\ At(Accept, "accept", "admit")
    /\ Cardinality(Running) >= MaxActive
    /\ Goto(Accept, "accept", "reject")
    /\ UNCHANGED <<flags, sockets, owner, reason, shutting, events>>

RejectionDone ==
    /\ At(Accept, "accept", "reject")
    /\ streams' = streams \ {cur}
    /\ Discard("loop")
    /\ UNCHANGED <<flags, stopping, handles, owner, reason, shutting, events>>

LoopEnds ==
    /\ At(Accept, "accept", "loop") /\ cancelled
    /\ Goto(Accept, "accept", "exit")
    /\ UNCHANGED <<flags, sockets, owner, reason, shutting, events>>

\* accept() failed for good while the loop still ran: the next step is cancel().
AcceptFails ==
    /\ At(Accept, "accept", "loop") /\ ~cancelled
    /\ Goto(Accept, "fail", "cancel")
    /\ UNCHANGED <<flags, sockets, owner, reason, shutting, events>>

\* cancel() tells a failure from a stop that was first.
FailCancel ==
    /\ At(Accept, "fail", "cancel")
    /\ cancelled' = TRUE
    /\ IF cancelled
          THEN Goto(Accept, "accept", "exit") /\ UNCHANGED reason
          ELSE Goto(Accept, "fail", "begin") /\ reason' = "ListenerFailure"
    /\ UNCHANGED <<requested, completed, announce, published, tls, sockets, owner, shutting,
                   events>>

\* drop(accept), then WorkerSet::drop starts with cancel().
Exit ==
    /\ At(Accept, "accept", "exit")
    /\ cancelled' = TRUE
    /\ Goto(Accept, "exit", "begin")
    /\ UNCHANGED <<requested, completed, announce, published, tls, sockets, owner, reason,
                   shutting, events>>

MutantJoinWorkers ==
    /\ At(Accept, "exit", "join")
    /\ handles' = {}
    /\ Goto(Accept, "exit", "notify")
    /\ UNCHANGED <<flags, stopping, streams, open, cur, owner, reason, shutting, events>>

\* WorkerSet::drop joins every worker it still holds.
JoinWorkers ==
    /\ At(Accept, "exit", "join")
    /\ \A w \in handles : pc[w] = <<"idle", "done">>
    /\ handles' = {}
    /\ Goto(Accept, "exit", "notify")
    /\ UNCHANGED <<flags, stopping, streams, open, cur, owner, reason, shutting, events>>

\* listener_exit_handler, both phases: revoke, then wait for the Listening event.
Notify ==
    /\ pc[Accept] \in {<<"fail", "notify">>, <<"exit", "notify">>}
    /\ requested' = TRUE
    /\ tls' = FALSE
    /\ pc' = [pc EXCEPT ![Accept][2] = "listen"]
    /\ UNCHANGED <<cancelled, completed, announce, published, sockets, owner, reason, shutting,
                   events>>

WaitForListening ==
    /\ In(Accept, "listen")
    /\ published
    /\ pc' = [pc EXCEPT ![Accept][2] = "announce"]
    /\ UNCHANGED <<flags, sockets, owner, reason, shutting, events>>

------------------------------------------------------------------------------
(* Workers. *)

\* The handler returned: the registration, the permit and the socket go.
WorkerEnds(c) ==
    /\ At(c, "work", "serve")
    /\ Goto(c, "idle", "done")
    /\ streams' = streams \ {c}
    /\ open' = open \ {c}
    /\ UNCHANGED <<flags, stopping, cur, handles, owner, reason, shutting, events>>

------------------------------------------------------------------------------
(* stop(): begun by an outside thread once start returned, by a worker inside *)
(* an observer callback, or by the accept thread inside the 429's callback.   *)

CanCall(t) ==
    \/ t \in Callers /\ At(t, "idle", "idle")
    \/ t \in Clients /\ At(t, "work", "serve")
    \/ t = Accept /\ At(t, "accept", "reject")

\* request_stop stores requested and cancels; nothing here reads between the two.
StopCalled(t) ==
    /\ CanCall(t)
    /\ published /\ ~dropped /\ t \notin called
    /\ called' = called \union {t}
    /\ requested' = TRUE /\ cancelled' = TRUE
    /\ Goto(t, "stop", "begin")
    /\ UNCHANGED <<completed, announce, published, tls, sockets, handle, dropped,
                   reason, shutting, events>>

\* The last owner drops the proxy: Drop runs stop and nobody can call it again.
Dropped(t) ==
    /\ CanCall(t)
    /\ published /\ ~dropped /\ t \notin called
    /\ \A u \in Threads : pc[u][1] # "stop"
    /\ called' = called \union {t}
    /\ dropped' = TRUE
    /\ requested' = TRUE /\ cancelled' = TRUE
    /\ Goto(t, "stop", "begin")
    /\ UNCHANGED <<completed, announce, published, tls, sockets, handle, reason,
                   shutting, events>>

\* ClientControls::begin_stop: close registration and take the snapshot.
BeginStop(t) ==
    /\ In(t, "begin")
    /\ stopping' = TRUE
    /\ shutting' = [shutting EXCEPT ![t] = streams]
    /\ pc' = [pc EXCEPT ![t][2] = "shut"]
    /\ UNCHANGED <<flags, streams, open, cur, handles, owner, reason, events>>

\* shutdown_controls; what follows depends on who asked (request_stop ends by
\* deactivating the identity store).
ShutdownControls(t) ==
    /\ In(t, "shut")
    /\ open' = open \ shutting[t]
    /\ shutting' = [shutting EXCEPT ![t] = {}]
    /\ tls' = IF pc[t][1] = "stop" THEN FALSE ELSE tls
    /\ pc' = [pc EXCEPT ![t][2] = CASE pc[t][1] = "stop" -> "announce"
                                    [] pc[t][1] = "fail" -> "notify"
                                    [] pc[t][1] = "exit" -> "join"]
    /\ UNCHANGED <<cancelled, requested, completed, announce, published, stopping, streams, cur, handles, owner, reason, events>>

\* StopAnnouncement::announce: the first caller emits; while its observer runs
\* (which may call stop again and gets false), the others wait for it.
AnnounceFirst(t) ==
    /\ In(t, "announce")
    /\ announce = "pending"
    /\ announce' = t
    /\ events' = Append(events, "Stopping")
    /\ UNCHANGED <<cancelled, requested, completed, published, tls, sockets, owner, reason, pc,
                   shutting>>

\* Where announce() returns to.
Announced(t) ==
    pc' = [pc EXCEPT ![t] =
            CASE pc[t][1] = "fail" -> <<"accept", "exit">>
              [] pc[t][1] = "exit" -> <<"exit", "complete">>
              [] pc[t][1] = "stop" -> <<"stop", "join">>]

AnnounceEmitted(t) ==
    /\ In(t, "announce")
    /\ announce = t
    /\ announce' = "emitted"
    /\ Announced(t)
    /\ UNCHANGED <<cancelled, requested, completed, published, tls, sockets, owner, reason,
                   shutting, events>>

AnnounceSeen(t) ==
    /\ In(t, "announce")
    /\ announce = "emitted"
    /\ Announced(t)
    /\ UNCHANGED <<flags, sockets, owner, reason, shutting, events>>

\* listener.stop() on an owned thread returns without joining; if the proxy is
\* being dropped there, OwnedListener::drop hands the accept thread to the reaper.
OwnedReturn(t) ==
    /\ At(t, "stop", "join")
    /\ t \in Owned
    /\ handle' = IF dropped /\ handle = "held" THEN "reaper" ELSE handle
    /\ IF t = Accept THEN Goto(t, "accept", "reject") ELSE Goto(t, "work", "serve")
    /\ UNCHANGED <<flags, sockets, called, dropped, reason, shutting, events>>

MutantJoinable(t) == At(t, "stop", "join")
Joinable(t) == At(t, "stop", "join") /\ t \notin Owned

\* AcceptThread::join: take the handle, or wait while another thread joins.
TakeHandle(t) ==
    /\ Joinable(t)
    /\ handle = "held"
    /\ handle' = "joining"
    /\ Goto(t, "stop", "joining")
    /\ UNCHANGED <<flags, sockets, called, dropped, reason, shutting, events>>

Joined(t) ==
    /\ At(t, "stop", "joining")
    /\ pc[Accept] = <<"idle", "ended">>
    /\ handle' = "none"
    /\ Goto(t, "stop", "complete")
    /\ UNCHANGED <<flags, sockets, called, dropped, reason, shutting, events>>

AlreadyJoined(t) ==
    /\ Joinable(t)
    /\ handle = "none"
    /\ Goto(t, "stop", "complete")
    /\ UNCHANGED <<flags, sockets, owner, reason, shutting, events>>

\* ProxyStopState::complete: the swap decides who reports the end.
Complete(t) ==
    /\ In(t, "complete")
    /\ completed' = TRUE
    /\ events' = IF completed THEN events
                 ELSE Append(events, IF t = Accept THEN reason ELSE "Requested")
    /\ IF t = Accept THEN Goto(t, "idle", "ended") ELSE Goto(t, "idle", "returned")
    /\ UNCHANGED <<cancelled, requested, announce, published, tls, sockets, owner, reason,
                   shutting>>

\* AcceptReaper::run joins what was handed to it.
Reap ==
    /\ handle = "reaper"
    /\ pc[Accept] = <<"idle", "ended">>
    /\ handle' = "none"
    /\ UNCHANGED <<flags, sockets, called, dropped, reason, pc, shutting, events>>

------------------------------------------------------------------------------
StopStep(t) ==
    \/ BeginStop(t) \/ ShutdownControls(t)
    \/ AnnounceFirst(t) \/ AnnounceEmitted(t) \/ AnnounceSeen(t)
    \/ OwnedReturn(t) \/ TakeHandle(t) \/ Joined(t) \/ AlreadyJoined(t) \/ Complete(t)

AcceptStep ==
    \/ AcceptCheck \/ Register \/ Spawn \/ SpawnFails \/ Overload \/ RejectionDone
    \/ LoopEnds \/ FailCancel \/ Exit \/ JoinWorkers \/ Notify \/ WaitForListening

ListenerNext ==
    \/ PublishListening
    \/ \E c \in Clients : AcceptClient(c) \/ WorkerEnds(c)
    \/ AcceptFails
    \/ AcceptStep
    \/ \E t \in Threads : StopCalled(t) \/ Dropped(t) \/ StopStep(t)
    \/ Reap

\* Every started thread is scheduled; a handler returns because its sockets carry
\* timeouts and are shut on stop.  Nobody is obliged to connect, fail or stop.
ListenerFairness ==
    /\ WF_listenerVars(PublishListening)
    /\ WF_listenerVars(AcceptStep)
    /\ WF_listenerVars(Reap)
    /\ \A c \in Clients : WF_listenerVars(WorkerEnds(c))
    /\ \A t \in Threads : WF_listenerVars(StopStep(t))

ListenerSpec == ListenerInit /\ [][ListenerNext]_listenerVars /\ ListenerFairness

------------------------------------------------------------------------------
(* Properties. *)

\* stop() returning to an outside caller means the whole generation is over: no
\* worker runs, no socket is open, nothing is registered, and the observer has
\* been told (listener.rs 138-155, server.rs 276-297).
StopJoinsAll ==
    \A t \in Callers : At(t, "idle", "returned") =>
        /\ Running = {} /\ open = {} /\ streams = {}
        /\ ~tls
        /\ Len(events) = 3

\* The observer sees Listening, Stopping and one Stopped, in this order, however
\* stops, drops, reentrant stops and a listener failure interleave; the reason is
\* ListenerFailure exactly when the accept thread's cancel() came first.
LifecycleOrder ==
    /\ Len(events) <= 3
    /\ Len(events) >= 1 => events[1] = "Listening"
    /\ Len(events) >= 2 => events[2] = "Stopping"
    /\ Len(events) = 3 => events[3] = reason /\ Running = {} /\ cancelled
    /\ reason = "ListenerFailure" => cancelled

\* Stop races with accept: once a stop has shut what it found registered, every
\* socket a worker holds is shut, whenever its client was accepted.  Only the
\* client still in the accept thread's hands may be open.
NoOpenClientAfterStop ==
    stopping /\ (\A t \in Threads : ~In(t, "shut")) => open \subseteq {cur}

\* What a stop means to its caller, the observer and the clients, whatever runs
\* besides it.
ListenerSafety == StopJoinsAll /\ LifecycleOrder /\ NoOpenClientAfterStop

\* Every stop call returns, from any thread, also from inside callbacks and when
\* the proxy is dropped by its own worker, whose accept thread the reaper joins.
StopReturns ==
    /\ \A t \in Threads : []<>(pc[t][1] # "stop")
    /\ handle = "reaper" ~> handle = "none"

\* The listener implements its promise: registered clients are the live ones,
\* a stop begins when registration closes and ends with the Stopped event.
Lifecycle ==
    INSTANCE ListenerLifecycle WITH
        phase <- IF completed THEN "stopped" ELSE IF stopping THEN "stopping" ELSE "open",
        live <- streams

ImplementsLifecycle == Lifecycle!AbstractSpec
=============================================================================
