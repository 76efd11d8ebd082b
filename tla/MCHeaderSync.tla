---------------------------- MODULE MCHeaderSync ---------------------------
(***************************************************************************)
(* HeaderSync on a main chain m1..m4 with a fork f1 that a peer follows at *)
(* first, a header bad without proof of work, a sync checkpoint m2 at the  *)
(* end of the first page, and pages of two headers; and, on its own, one   *)
(* conversation of PeerSession.  focus is the part that moves.             *)
(***************************************************************************)
EXTENDS HeaderSync, PeerSession, TLC

CONSTANTS
  g, m1, m2, m3, m4, f1, bad, p1, p2, z,
  Parts        \* the parts a run looks at, of "sync" and "session"

VARIABLE focus

Main == {g, m1, m2, m3, m4}
MCHeader == Main \cup {f1, bad}
MCPrevBlock == g :> Nil @@ m1 :> g @@ m2 :> m1 @@ m3 :> m2 @@ m4 :> m3
               @@ f1 :> g @@ bad :> m1
MCWork == [h \in MCHeader |-> 1]
MCValidPow == MCHeader \ {bad}
MCCheckpoint == 2 :> m2

\* p1 starts on the fork and reorganises; p2 serves the main chain.
MCInitTip == [p \in Peer |-> IF p = p1 THEN f1 ELSE m3]

\* A header refused for its work, one out of nowhere, a stale duplicate, nothing.
MCFaultyPages == {<<m1, bad>>, <<m4>>, <<m1>>, <<>>}

MCVars == <<focus, syncVars, sessionVars>>
MCInit ==
  /\ focus \in Parts /\ SyncInit /\ SessionInit
  /\ focus = "sync" => caller = "proof" /\ ahead
MCNext ==
  \/ focus = "sync" /\ SyncNext /\ UNCHANGED <<focus, sessionVars>>
  \/ focus = "session" /\ SessionNext /\ UNCHANGED <<focus, syncVars>>
Fairness == WF_MCVars(focus = "sync" /\ SyncStep /\ UNCHANGED <<focus, sessionVars>>)
MCSpec == MCInit /\ [][MCNext]_MCVars /\ Fairness

\* Ticks end (run_once returns whatever the peers send), and without crashes the
\* local chain catches up with the honest peers.
SyncProgress == focus = "sync" => (TickEnds /\ CatchesUp)
============================================================================
