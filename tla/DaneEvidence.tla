---------------------------- MODULE DaneEvidence ----------------------------
(* What a certificate may claim about itself.  Names have an owner, who has  *)
(* put a DS set under the roots of the name tree and signed TLSA sets; a     *)
(* server presents a certificate whose extensions are put together from      *)
(* pieces that exist: proofs of the tree, records of its own invention,      *)
(* signatures made by the owner or by itself.                                *)

EXTENDS DanePolicy

CONSTANTS ClaimHosts, ClaimPorts,
          AcceptedRoots,  \* stateless_dane.accepted_tree_roots
          ClaimCerts,     \* certificates a server may present
          Published       \* service name -> TLSA RDATA set its owner has signed and that is valid now

VARIABLES claim,   \* [cert, host, port]
          verdict

claimVars == <<claim, verdict>>

NoVerdict == Err("unset")
ClaimInit == /\ claim \in [cert : ClaimCerts, host : ClaimHosts, port : ClaimPorts]
             /\ verdict = NoVerdict

\* The verifier asks about the certificate of a handshake.
Judge == /\ verdict = NoVerdict
         /\ verdict' = EvaluateStateless(claim.cert, claim.host, claim.port, AcceptedRoots)
         /\ UNCHANGED claim

ClaimNext == Judge

\* Whatever the extensions are put together from, the TLSA records accepted
\* from a certificate are those the owner of the host's name has published for
\* this host and this port (evaluate_stateless_dane_certificate).
EvidenceGenuine ==
    verdict.ok /\ verdict.value.found =>
        /\ ServiceName(claim.port, claim.host) \in DOMAIN Published
        /\ ToSet(verdict.value.records)
             = {ParseRdata(r).value : r \in Published[ServiceName(claim.port, claim.host)]}
=============================================================================
