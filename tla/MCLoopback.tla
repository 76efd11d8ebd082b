------------------------------ MODULE MCLoopback -----------------------------
(* The local proxies and their owners: the listener with two outside threads *)
(* and two clients that compete for one worker permit, a request with a stop *)
(* at any moment of its handler, and two Activities that start proxies and   *)
(* point the WebView at them.  focus is the part that moves.                 *)
EXTENDS OwnedListener, LoopbackRequest, ProxyCoordinator

VARIABLE focus

MCVars == <<focus, listenerVars, requestVars, vars>>

\* Host s lies within scope r, and q is a scope of its own.
CONSTANTS r, s, q
MCInside == [h \in Host |-> (IF h = r THEN {r, s} ELSE {h}) \cap Host]

MCInit == /\ ListenerInit /\ RequestInit /\ Init
          /\ focus \in {"listener", "request", "proxy"}
          /\ focus # "request" => mode = "ScopedHns"

MCNext ==
    \/ focus = "listener" /\ ListenerNext /\ UNCHANGED <<focus, requestVars, vars>>
    \/ focus = "request" /\ RequestNext /\ UNCHANGED <<focus, listenerVars, vars>>
    \/ focus = "proxy" /\ Next /\ UNCHANGED <<focus, listenerVars, requestVars>>

\* The fairness of each part, whose actions leave the others alone.
MCFairness ==
    /\ WF_MCVars(focus = "listener" /\ PublishListening /\ UNCHANGED <<focus, requestVars, vars>>)
    /\ WF_MCVars(focus = "listener" /\ AcceptStep /\ UNCHANGED <<focus, requestVars, vars>>)
    /\ WF_MCVars(focus = "listener" /\ Reap /\ UNCHANGED <<focus, requestVars, vars>>)
    /\ \A c \in Clients :
          WF_MCVars(focus = "listener" /\ WorkerEnds(c) /\ UNCHANGED <<focus, requestVars, vars>>)
    /\ \A t \in Threads :
          WF_MCVars(focus = "listener" /\ StopStep(t) /\ UNCHANGED <<focus, requestVars, vars>>)
    /\ \A c \in Conns :
          WF_MCVars(focus = "request" /\ tokenCancelled /\ Handle(c)
                      /\ UNCHANGED <<focus, listenerVars, vars>>)
    /\ WF_MCVars(focus = "request" /\ Deactivate /\ UNCHANGED <<focus, listenerVars, vars>>)
    /\ Fairness

MCSpec == MCInit /\ [][MCNext]_MCVars /\ MCFairness

\* A stop ends, whichever thread asks for it: the call returns with every worker
\* joined (OwnedListener), because every handler notices the stop (LoopbackRequest).
StopEnds == (focus = "listener" => StopReturns) /\ (focus = "request" => WorkersEnd)

\* ProxyProgress of module ProxyCoordinator: waiting navigations come to an end,
\* and proxies that were given up are joined, displaced Activity or not.
ProxiesProgress == focus = "proxy" => ProxyProgress
=============================================================================
