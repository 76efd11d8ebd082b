------------------------- MODULE ListenerLifecycle -------------------------
(* What one generation of the loopback proxy promises to its owner: clients  *)
(* are admitted only while it is open, a stop closes admission for good, and *)
(* the generation is reported stopped only when no admitted client is left.  *)
(* OwnedListener implements this specification.                              *)

CONSTANT Clients

VARIABLES phase,   \* "open", "stopping" or "stopped"
          live     \* the clients admitted and not yet released

abstractVars == <<phase, live>>

AbstractInit == phase = "open" /\ live = {}

Admit(c) ==
    /\ phase = "open"
    /\ c \notin live
    /\ live' = live \union {c}
    /\ UNCHANGED phase

Release(c) ==
    /\ c \in live
    /\ live' = live \ {c}
    /\ UNCHANGED phase

BeginStop ==
    /\ phase = "open"
    /\ phase' = "stopping"
    /\ UNCHANGED live

EndStop ==
    /\ phase = "stopping"
    /\ live = {}
    /\ phase' = "stopped"
    /\ UNCHANGED live

AbstractNext ==
    \/ \E c \in Clients : Admit(c) \/ Release(c)
    \/ BeginStop
    \/ EndStop

\* A stop that began finishes: every client is released and the end reported.
AbstractFairness ==
    /\ \A c \in Clients : WF_abstractVars(phase # "open" /\ Release(c))
    /\ WF_abstractVars(EndStop)

AbstractSpec == AbstractInit /\ [][AbstractNext]_abstractVars /\ AbstractFairness
=============================================================================
