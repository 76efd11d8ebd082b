-------------------------- MODULE DelegatedResolver --------------------------
(***************************************************************************)
(* Resolution of a Handshake name, hns-resolver: the proven root records   *)
(* answer themselves or delegate to name servers, which are asked one      *)
(* after the other over UDP, TCP and authoritative DoH, and whose answers  *)
(* count only with a DNSSEC chain from the proven DS records.  A child     *)
(* zone is followed through a referral or an answer signed inline.         *)
(*                                                                         *)
(* The variable run is the attempt in progress on one target: the records  *)
(* fetched so far and where the attempt stands (run.pc).  What a target    *)
(* answers is any member of Answers(ip, name, type)[via]: a message         *)
(*     [kind, tc, nx, ans, auth, add]                                      *)
(* whose kind is "good", "transport" (no answer), "invalid" (one that      *)
(* parse_dns_response refuses: id, question, opcode, encoding) or "rcode". *)
(***************************************************************************)
EXTENDS Dnssec, FiniteSets

CONSTANTS
    Answers(_, _, _),       \* the messages a server may send, for each transport
    Proofs,                 \* what the proof provider may answer for the root name
    NsProofs(_),            \* and for the root of a name server's name
    Configs,                \* resolver set-ups: [relay, doh, prefer]
    Requests,               \* questions: [name, type]
    PublicIps,              \* addresses that validate_dns_server lets through
    BlockedPorts,           \* is_browser_blocked_port
    MaxCnameChain,          \* MAX_CNAME_CHAIN_LEN
    Now,                    \* the time signatures are checked at
    Zones,                  \* the zones on the chain: [owner, records]
    HonestIps,              \* servers that answer as their zones say
    Caches,                 \* what earlier resolutions left in the endpoint cache
    Resolvable              \* requests an honest server can answer provably

VARIABLES
    config,     \* the resolver's set-up, chosen once
    request,    \* the question
    delegation, \* the proven root records: [owner, ns, ds, txt, direct]
    phase,      \* where resolve_delegated stands
    todo,       \* targets left to try in this phase
    discover,   \* name servers left to ask for their DoH service binding
    endpoints,  \* DoH endpoints found
    cache,      \* authoritative_doh_endpoint_cache: {} or {endpoints}
    run,        \* the attempt in progress
    last,       \* last_error
    outcome     \* the answer of the resolution

vars == <<config, request, delegation, phase, todo, discover, endpoints, cache,
          run, last, outcome>>

NoError == "none"
NoRun == [pc |-> "none"]
Ongoing == [done |-> FALSE]
Failure(e) == [done |-> TRUE, ok |-> FALSE, error |-> e]
Answer(name, records, secure) ==
    [done |-> TRUE, ok |-> TRUE, name |-> name, records |-> records, secure |-> secure]

-----------------------------------------------------------------------------
(* Records and messages *)

RecordsFor(records, owner, type) ==
    SelectSeq(records, LAMBDA r : r.name = owner /\ r.type = type)
RecordsOfType(records, type) == SelectSeq(records, LAMBDA r : r.type = type)
CombinedRecords(m) == m.ans \o m.auth

\* The distinct addresses of the servers an NS set names, in order.
Addresses(names, glue) ==
    LET of(name) == [i \in 1..Len(RecordsFor(glue, name, A)) |->
                        RecordsFor(glue, name, A)[i].data.ip]
        all == FlattenSeq([i \in 1..Len(names) |-> of(names[i])])
        fresh(i) == \A j \in 1..(i - 1) : all[j] # all[i]
    IN  FoldLeft(LAMBDA acc, i : IF fresh(i) THEN Append(acc, all[i]) ELSE acc,
                 <<>>, [i \in 1..Len(all) |-> i])

\* delegation.ns is a sequence of [name, ips].
NameserverIpAddresses(d) ==
    FlattenSeq([i \in 1..Len(d.ns) |->
        [j \in 1..Len(d.ns[i].ips) |-> [name |-> d.ns[i].name, ip |-> d.ns[i].ips[j]]]])
NameserverAddresses(d) ==
    LET all == NameserverIpAddresses(d)
        fresh(i) == \A j \in 1..(i - 1) : all[j].ip # all[i].ip
    IN  FoldLeft(LAMBDA acc, i : IF fresh(i) THEN Append(acc, all[i].ip) ELSE acc,
                 <<>>, [i \in 1..Len(all) |-> i])

\* Servers answer plain DNS on this port only.
DnsPort == 53
Good(m) == m.kind = "good"
Sent(e) == [kind |-> e, tc |-> FALSE, nx |-> FALSE, ans |-> <<>>, auth |-> <<>>, add |-> <<>>]

ValidateDnsServer(ip) == ip \in PublicIps
ValidateDohEndpoint(t) == ValidateDnsServer(t.ip) /\ t.port \notin BlockedPorts

\* A truncated answer is refused where there is no other transport to turn to.
Whole(messages) == {IF Good(m) /\ m.tc THEN Sent("invalid") ELSE m : m \in messages}
MutantShouldRetryTcp(m) == m.kind = "invalid"

ShouldRetryTcp(m) == m.kind \in {"transport", "invalid"}
UdpFails(m) == ShouldRetryTcp(m) \/ (Good(m) /\ m.tc)

\* Over UDP a missing, unusable or truncated answer is asked for again over TCP.
DnsQueryUdp(sent) ==
    {m \in sent.udp : ~UdpFails(m)}
    \cup (IF \E m \in sent.udp : UdpFails(m) THEN Whole(sent.tcp) ELSE {})

\* dns_query_target: everything one query can end with, sent[via] being what
\* the target may send.  The relay has one transport and no second try.
DnsQueryTarget(t, sent) ==
    IF ~ValidateDnsServer(t.ip) THEN {Sent("nonpublic")}
    ELSE IF t.via = "doh"
    THEN IF ValidateDohEndpoint(t) THEN sent.doh ELSE {Sent("badport")}
    ELSE IF t.port # DnsPort THEN {Sent("transport")}
    ELSE IF config.relay THEN Whole(sent.relay)
    ELSE IF t.via = "tcp" THEN Whole(sent.tcp)
    ELSE DnsQueryUdp(sent)
Query(q) == DnsQueryTarget(q.to, Answers(q.to.ip, q.name, q.type))

-----------------------------------------------------------------------------
(* The verifier: what SystemDnssecVerifier concludes from zone material     *)
(* z = [owner, ds, keys, keysigs] and, below it, a child with its dssigs.   *)

NoChild == {}
ZoneOf(r) == [owner |-> delegation.owner, ds |-> delegation.ds,
              keys |-> RecordsFor(r.keys, delegation.owner, Dnskey),
              keysigs |-> RecordsFor(r.keys, delegation.owner, Rrsig)]
KeysMissing(z) == z.keys = <<>> \/ z.keysigs = <<>>

OwnKeysSecure(z) == ValidateSignedRrset(z, z.keys, z.keysigs, Now) = Secure

\* The child's own DS records are believed as they come.
MutantValidatePositive(z, kids, rrset, rrsigs) ==
    IF kids = NoChild THEN ValidateSignedRrset(z, rrset, rrsigs, Now) = Secure
    ELSE \E c \in kids : ValidateSignedRrset(c, rrset, rrsigs, Now) = Secure

ValidatePositive(z, kids, rrset, rrsigs) ==
    IF kids = NoChild
    THEN ValidateSignedRrset(z, rrset, rrsigs, Now) = Secure
    ELSE \E c \in kids : ValidateDnssecChain(z, c, rrset, rrsigs, Now) = Secure

\* The keys a denial must be signed with, and the checks that lead to them.
ChildKeysSecure(z, kids) ==
    \A c \in kids :
        /\ ValidateRrsetSignature(z.owner, z.keys, c.ds, c.dssigs, Now) = Secure
        /\ OwnKeysSecure(c)
DenialZone(z, kids) == IF kids = NoChild THEN z ELSE CHOOSE c \in kids : TRUE

\* NSEC first; unless it errs, NSEC3.
Either(nsec, nsec3) == nsec = Secure \/ (nsec # Error /\ nsec3 = Secure)
UnlessEmpty(set, status) == IF set = <<>> THEN Bogus ELSE status

ValidateNoData(z, kids, name, type, m) ==
    LET proof == CombinedRecords(m)
        nsecs == RecordsFor(proof, name, Nsec)
        nsec3s == RecordsOfType(proof, Nsec3)
        sigs == RecordsOfType(proof, Rrsig)
        d == DenialZone(z, kids)
    IN  /\ OwnKeysSecure(z)
        /\ ChildKeysSecure(z, kids)
        /\ Either(UnlessEmpty(nsecs,
                      ValidateNsecNoData(d.owner, d.keys, name, type, nsecs, sigs, Now)),
                  UnlessEmpty(nsec3s,
                      ValidateNsec3NoData(d.owner, d.keys, name, type, nsec3s, sigs, Now)))

\* An error ends the search for a proof.
EitherStatus(nsec, nsec3) ==
    IF nsec = Secure THEN Secure
    ELSE IF nsec = Error \/ nsec3 = Error THEN Error
    ELSE nsec3

NameErrorShown(d, name, encloser, m) ==
    LET proof == CombinedRecords(m)
        nsecs == RecordsOfType(proof, Nsec)
        sigs == RecordsOfType(proof, Rrsig)
        part == [set |-> RecordsOfType(proof, Nsec3), sigs |-> sigs]
    IN  EitherStatus(
            UnlessEmpty(nsecs,
                ValidateNsecNameError(d.owner, d.keys, name, encloser, nsecs, sigs, Now)),
            UnlessEmpty(part.set,
                ValidateNsec3NameError(d.owner, d.keys, name, encloser,
                    [closest |-> part, next |-> part, wild |-> part], Now)))

ClosestEncloserCandidates(name, zone) ==
    [i \in 1..(IF IsStrictSubdomain(name, zone) THEN Len(name) - Len(zone) ELSE 0) |->
        SubSeq(name, i + 1, Len(name))]

\* The first candidate that decides: the name is shown not to exist below it,
\* or the proof is in error.
FirstDecided(shown) ==
    LET decided == {i \in 1..Len(shown) : shown[i] \in {Secure, Error}}
    IN  IF decided = {} THEN Bogus ELSE shown[Min(decided)]

ValidateNameError(z, kids, name, m) ==
    LET d == DenialZone(z, kids)
        candidates == ClosestEncloserCandidates(name, d.owner)
    IN  /\ OwnKeysSecure(z)
        /\ ChildKeysSecure(z, kids)
        /\ FirstDecided([i \in 1..Len(candidates) |->
                            NameErrorShown(d, name, candidates[i], m)]) = Secure

-----------------------------------------------------------------------------
(* Where an answer leads *)

\* The deepest signed delegation between the zone and the name asked for.
ReferralOwners(m, parent, name) ==
    {m.auth[i].name : i \in {j \in 1..Len(m.auth) :
        /\ m.auth[j].type = Ns
        /\ IsStrictSubdomain(m.auth[j].name, parent)
        /\ IsSubdomainOrEqual(name, m.auth[j].name)}}
Deepest(names) == CHOOSE n \in names : \A o \in names : Len(o) <= Len(n)

ChildReferral(m, parent, name) ==
    LET owners == ReferralOwners(m, parent, name)
        o == Deepest(owners)
        ns == RecordsFor(m.auth, o, Ns)
        ref == [owner |-> o,
                ds |-> RecordsFor(m.auth, o, Ds),
                dssigs |-> RecordsFor(m.auth, o, Rrsig),
                servers |-> Addresses([i \in 1..Len(ns) |-> ns[i].data.to], m.add)]
    IN  IF owners = {} THEN {}
        ELSE IF ref.ds = <<>> \/ ref.dssigs = <<>> THEN {}
        ELSE {ref}

\* Signers below the zone and above the name: its answer is a child zone's.
BelowZone(signer, name) ==
    /\ IsStrictSubdomain(signer, delegation.owner)
    /\ IsSubdomainOrEqual(name, signer)

InlineChildAnswerSigner(rrset, rrsigs, name, type) ==
    LET hits == {i \in 1..Len(rrsigs) :
                   \/ ~WellFormed(rrsigs[i])
                   \/ rrsigs[i].data.covers = type /\ BelowZone(rrsigs[i].data.signer, name)}
    IN  IF rrset = <<>> \/ hits = {} THEN {}
        ELSE IF ~WellFormed(rrsigs[Min(hits)]) THEN {}
        ELSE {rrsigs[Min(hits)].data.signer}

InlineChildDenialSigner(proof, name) ==
    LET sigs == RecordsOfType(proof, Rrsig)
        signers == {sigs[i].data.signer : i \in {j \in 1..Len(sigs) :
                       /\ WellFormed(sigs[j])
                       /\ sigs[j].data.covers \in {Nsec, Nsec3}
                       /\ BelowZone(sigs[j].data.signer, name)}}
    IN  IF signers = {} THEN {} ELSE {Deepest(signers)}

-----------------------------------------------------------------------------
(* Attempts.  Begin starts one, Fails and Succeeds end it.                  *)

ServerTarget(ip) == [via |-> "udp", ip |-> ip, port |-> DnsPort]
DohTarget(e) == [via |-> "doh", ip |-> e.ip, port |-> e.port]

\* The relay asks one server, the first it may ask.
ServersOf(d) ==
    LET all == NameserverAddresses(d)
        open == SelectSeq(all, ValidateDnsServer)
    IN  IF ~config.relay THEN [i \in 1..Len(all) |-> ServerTarget(all[i])]
        ELSE IF open = <<>> THEN <<>> ELSE <<ServerTarget(Head(open))>>
ServerTargets == ServersOf(delegation)

Begin(target, name, type) ==
    [pc |-> "target", target |-> target, name |-> name, type |-> type,
     asked |-> name, resp |-> Sent("none"), keys |-> <<>>, kids |-> NoChild,
     inline |-> {}, servers |-> <<>>, owner |-> name, trail |-> <<>>, iter |-> 0]

\* resolve_delegated_from_server tries TCP after a failed validation over UDP.
RetriesOverTcp(e) == e = "dnssec" /\ run.target.via = "udp" /\ ~config.relay
OverTcp == Begin([run.target EXCEPT !.via = "tcp"], run.name, run.type)

-----------------------------------------------------------------------------
(* Authoritative DoH endpoints: declared in the proven TXT records, else    *)
(* found by asking each server for the service binding of its name.         *)

\* delegation.txt holds the declarations: [form, ns, port], form "other" for a
\* text that declares nothing, "bad" for one that parse_hnsdns_declaration or
\* txt_rdata_strings refuses.
Declared(d) == SelectSeq(d.txt, LAMBDA t : t.form = "doh")
DeclarationRefused(d) == \E i \in 1..Len(d.txt) : d.txt[i].form = "bad"
DeclaredEndpoints(d) ==
    FlattenSeq([i \in 1..Len(Declared(d)) |->
        LET at == SelectSeq(NameserverIpAddresses(d), LAMBDA a : a.name = Declared(d)[i].ns)
        IN  [j \in 1..Len(at) |-> [ip |-> at[j].ip, port |-> Declared(d)[i].port]]])

\* A binding's data is [form, port]: only form "doh" (service mode, supported
\* keys, h2 and a path) gives an endpoint, "bad" is refused.
DnsServiceBindingName(ns) == <<99>> \o ns
BindingRecords(result, ns) == RecordsFor(result.records, DnsServiceBindingName(ns), Svcb)
BindingRefused(records) == \E i \in 1..Len(records) : records[i].data.form = "bad"
BindingEndpoints(records, ip) ==
    LET doh == SelectSeq(records, LAMBDA r : r.data.form = "doh")
    IN  [i \in 1..Len(doh) |-> [ip |-> ip, port |-> doh[i].data.port]]

\* Endpoints that could not be found: tolerated only when DoH goes first.
DohFails ==
    IF config.prefer
    THEN /\ last' = "baddoh" /\ phase' = "servers"
         /\ todo' = ServerTargets
         /\ UNCHANGED outcome
    ELSE /\ outcome' = Failure("baddoh")
         /\ UNCHANGED <<last, phase, todo>>

FindEndpoints ==
    /\ phase = "plan" /\ ~outcome.done
    /\ IF cache # {} THEN
          /\ \E e \in cache : todo' = [i \in 1..Len(e) |-> DohTarget(e[i])]
          /\ phase' = "doh"
          /\ UNCHANGED <<discover, endpoints, cache, last, outcome>>
       ELSE IF DeclarationRefused(delegation) THEN
          DohFails /\ UNCHANGED <<discover, endpoints, cache>>
       ELSE IF DeclaredEndpoints(delegation) # <<>> \/ delegation.ds = <<>> THEN
          LET e == DeclaredEndpoints(delegation)
          IN  /\ cache' = {e}
              /\ todo' = [i \in 1..Len(e) |-> DohTarget(e[i])]
              /\ phase' = "doh"
              /\ UNCHANGED <<discover, endpoints, last, outcome>>
       ELSE
          /\ phase' = "discover"
          /\ discover' = NameserverIpAddresses(delegation)
          /\ endpoints' = <<>>
          /\ UNCHANGED <<todo, cache, last, outcome>>
    /\ UNCHANGED <<config, request, delegation, run>>

\* Ask the next server for its binding; after the last the list is cached,
\* empty or not.
AskForBinding ==
    /\ phase = "discover" /\ run = NoRun /\ discover # <<>> /\ ~outcome.done
    /\ run' = Begin(ServerTarget(Head(discover).ip),
                    DnsServiceBindingName(Head(discover).name), Svcb)
    /\ UNCHANGED <<config, request, delegation, phase, todo, discover, endpoints,
                   cache, last, outcome>>

EndpointsFound ==
    /\ phase = "discover" /\ run = NoRun /\ discover = <<>> /\ ~outcome.done
    /\ cache' = {endpoints}
    /\ todo' = [i \in 1..Len(endpoints) |-> DohTarget(endpoints[i])]
    /\ phase' = "doh"
    /\ UNCHANGED <<config, request, delegation, discover, endpoints, run, last, outcome>>

BindingEnds(result) ==
    LET at == Head(discover)
        records == IF result.ok /\ result.secure THEN BindingRecords(result, at.name) ELSE <<>>
    IN  /\ run' = NoRun
        /\ discover' = Tail(discover)
        /\ IF BindingRefused(records)
           THEN DohFails /\ UNCHANGED endpoints
           ELSE /\ endpoints' = endpoints \o BindingEndpoints(records, at.ip)
                /\ UNCHANGED <<phase, todo, last, outcome>>

\* DelegatingResolver: without a proven DS nothing is secure, with one
\* everything must be.
Concluded(result) ==
    IF delegation.ds = <<>> THEN [result EXCEPT !.secure = FALSE]
    ELSE IF result.secure THEN result
    ELSE Failure("dnssec")

RequestEnds(result) ==
    /\ run' = NoRun
    /\ IF result.ok THEN outcome' = Concluded(result) /\ UNCHANGED last
       ELSE IF config.relay /\ phase = "servers" THEN outcome' = result /\ UNCHANGED last
       ELSE last' = result.error /\ UNCHANGED outcome
    /\ UNCHANGED <<phase, todo, discover, endpoints>>

\* The end of an attempt: retried over TCP, or handed to who began it.
EndAttempt(result) ==
    /\ IF ~result.ok /\ RetriesOverTcp(result.error)
       THEN run' = OverTcp /\ UNCHANGED <<phase, todo, discover, endpoints, last, outcome>>
       ELSE IF phase = "discover" THEN BindingEnds(result)
       ELSE RequestEnds(result)
    /\ UNCHANGED <<config, request, delegation, cache>>

-----------------------------------------------------------------------------
(* The steps of an attempt: it ends with a result, or goes on as another run *)

Stop(result) == [stops |-> TRUE, result |-> result]
Refuse(error) == Stop(Failure(error))
Go(r) == [stops |-> FALSE, run |-> r]

\* resolve_delegated_from_server_target and _from_doh_endpoint: the question,
\* then the zone's keys.
TargetAnswered(m) ==
    IF delegation.ds = <<>>
    THEN Stop(Answer(run.name, RecordsFor(m.ans, run.name, run.type), FALSE))
    ELSE Go([run EXCEPT !.resp = m, !.pc = "keys"])

SecureNameError(z, kids, name, m, prefix) ==
    IF ~KeysMissing(z) /\ ValidateNameError(z, kids, name, m)
    THEN Answer(name, prefix, TRUE) ELSE Failure("dnssec")
SecureNoData(z, kids, name, type, m, prefix) ==
    IF ~KeysMissing(z) /\ ValidateNoData(z, kids, name, type, m)
    THEN Answer(name, prefix, TRUE) ELSE Failure("dnssec")

\* What the keys and the answer together lead to.
Referred(r, ref) ==
    LET open == SelectSeq(ref.servers, ValidateDnsServer)
        servers == IF ~config.relay THEN ref.servers
                   ELSE IF open = <<>> THEN <<>> ELSE <<Head(open)>>
    IN  IF KeysMissing(ZoneOf(r)) THEN Refuse("dnssec")
        ELSE IF servers = <<>> THEN Refuse("noserver")
        ELSE Go([r EXCEPT !.kids = {[owner |-> ref.owner, ds |-> ref.ds,
                                     dssigs |-> ref.dssigs,
                                     keys |-> <<>>, keysigs |-> <<>>]},
                          !.servers = servers, !.pc = "childkeys"])

SignedInline(r, signer) ==
    IF KeysMissing(ZoneOf(r)) THEN Refuse("dnssec")
    ELSE Go([r EXCEPT !.inline = {signer}, !.pc = "inlineds"])

Only(set) == CHOOSE x \in set : TRUE

Classify(r, rrset, refs, signer, denier) ==
    LET empty == rrset = <<>> /\ RecordsFor(r.resp.ans, r.name, Cname) = <<>>
    IN  IF r.resp.nx
        THEN Stop(SecureNameError(ZoneOf(r), NoChild, r.name, r.resp, <<>>))
        ELSE IF refs # {} THEN Referred(r, Only(refs))
        ELSE IF signer # {} THEN SignedInline(r, Only(signer))
        ELSE IF empty /\ denier # {} THEN SignedInline(r, Only(denier))
        ELSE IF empty
        THEN Stop(SecureNoData(ZoneOf(r), NoChild, r.name, r.type, r.resp, <<>>))
        ELSE IF KeysMissing(ZoneOf(r)) THEN Refuse("dnssec")
        ELSE Go([r EXCEPT !.pc = "chase"])

KeysAnswered(m) ==
    LET ans == run.resp.ans
        rrset == RecordsFor(ans, run.name, run.type)
    IN  Classify([run EXCEPT !.keys = m.ans], rrset,
                 ChildReferral(run.resp, delegation.owner, run.name),
                 InlineChildAnswerSigner(rrset, RecordsFor(ans, run.name, Rrsig),
                                         run.name, run.type),
                 InlineChildDenialSigner(CombinedRecords(run.resp), run.name))

\* One round of the CNAME loop, resolve_secure_answer_records for the zone and
\* resolve_secure_child_answer_records for a child.
CnameTarget(cnames) ==
    IF Len(cnames) = 1 /\ WellFormed(cnames[1]) THEN {cnames[1].data.to} ELSE {}

ChaseRound(r, zone, kids, rrset, cnames) ==
    LET sigs == RecordsFor(r.resp.ans, r.owner, Rrsig)
        scope == DenialZone(zone, kids).owner
        valid(set) == sigs # <<>> /\ ValidatePositive(zone, kids, set, sigs)
        onward == {n \in CnameTarget(cnames) : IsSubdomainOrEqual(n, scope)}
        next == [r EXCEPT !.iter = @ + 1]
    IN  IF r.iter > MaxCnameChain THEN Refuse("dnssec")
        ELSE IF rrset # <<>> /\ cnames # <<>> THEN Refuse("dnssec")
        ELSE IF rrset \o cnames # <<>> /\ ~valid(rrset \o cnames) THEN Refuse("dnssec")
        ELSE IF rrset # <<>> THEN Stop(Answer(r.name, r.trail \o rrset, TRUE))
        ELSE IF cnames # <<>>
        THEN IF onward = {} THEN Refuse("dnssec")
             ELSE Go([next EXCEPT !.owner = Only(onward), !.trail = @ \o cnames])
        ELSE IF r.owner # r.name /\ r.asked # r.owner
        THEN Go([next EXCEPT !.pc = IF kids = NoChild THEN "chaseask" ELSE "childask"])
        ELSE IF r.resp.nx
        THEN Stop(SecureNameError(zone, kids, r.owner, r.resp, r.trail))
        ELSE Stop(SecureNoData(zone, kids, r.owner, r.type, r.resp, r.trail))

\* fetch_inline_child_dnssec_material: the same server, over UDP first, is
\* asked for the child's DS and keys; also a DoH endpoint's address.
InlineServer == [run.target EXCEPT !.via = "udp"]

InlineDsAnswered(m) ==
    LET o == Only(run.inline)
    IN  Go([run EXCEPT !.kids = {[owner |-> o, ds |-> RecordsFor(m.ans, o, Ds),
                                  dssigs |-> RecordsFor(m.ans, o, Rrsig),
                                  keys |-> <<>>, keysigs |-> <<>>]},
                       !.pc = "inlinekeys"])

\* resolve_secure_inline_child_answer and _no_data: the answer at hand is
\* validated through the child.
InlineResult(c) ==
    LET rrset == RecordsFor(run.resp.ans, run.name, run.type)
        sigs == RecordsFor(run.resp.ans, run.name, Rrsig)
        valid == IF rrset = <<>>
                 THEN ValidateNoData(ZoneOf(run), {c}, run.name, run.type, run.resp)
                 ELSE ValidatePositive(ZoneOf(run), {c}, rrset, sigs)
    IN  IF c.ds = <<>> \/ c.dssigs = <<>> \/ KeysMissing(c) \/ ~valid THEN Failure("dnssec")
        ELSE Answer(run.name, rrset, TRUE)

WithKeys(c, m) == [c EXCEPT !.keys = RecordsFor(m.ans, c.owner, Dnskey),
                            !.keysigs = RecordsFor(m.ans, c.owner, Rrsig)]
InlineKeysAnswered(m) == Stop(InlineResult(WithKeys(Only(run.kids), m)))

\* resolve_secure_child_from_server: the child's keys, then the question.
ChildKeysAnswered(m) ==
    LET c == WithKeys(Only(run.kids), m)
    IN  IF KeysMissing(c) THEN Refuse("dnssec")
        ELSE Go([run EXCEPT !.kids = {c}, !.pc = "childtarget"])

-----------------------------------------------------------------------------
(* The actions of an attempt *)

\* resolve_secure_child_referral: the child's servers in turn; the last error
\* is the attempt's.
InChildZone == run.pc \in {"childkeys", "childtarget", "childchase", "childask"}
NextChildServer ==
    [run EXCEPT !.servers = Tail(@), !.pc = "childkeys",
                !.owner = run.name, !.trail = <<>>, !.iter = 0]

Take(step) ==
    IF ~step.stops \/ (InChildZone /\ ~step.result.ok /\ Len(run.servers) > 1)
    THEN /\ run' = IF step.stops THEN NextChildServer ELSE step.run
         /\ UNCHANGED <<config, request, delegation, phase, todo, discover, endpoints,
                        cache, last, outcome>>
    ELSE EndAttempt(step.result)

\* The question a run waits for: whom it asks, which name and type.
ChildServer == ServerTarget(Head(run.servers))
Ask(to, name, type) == [to |-> to, name |-> name, type |-> type]
Question ==
    CASE run.pc = "target"      -> Ask(run.target, run.name, run.type)
      [] run.pc = "keys"        -> Ask(run.target, delegation.owner, Dnskey)
      [] run.pc = "chaseask"    -> Ask(run.target, run.owner, run.type)
      [] run.pc = "inlineds"    -> Ask(InlineServer, Only(run.inline), Ds)
      [] run.pc = "inlinekeys"  -> Ask(InlineServer, Only(run.kids).owner, Dnskey)
      [] run.pc = "childkeys"   -> Ask(ChildServer, Only(run.kids).owner, Dnskey)
      [] run.pc = "childtarget" -> Ask(ChildServer, run.name, run.type)
      [] run.pc = "childask"    -> Ask(ChildServer, run.owner, run.type)
Waits == run.pc \in {"target", "keys", "chaseask", "inlineds", "inlinekeys",
                     "childkeys", "childtarget", "childask"}

Answered(m) ==
    CASE ~Good(m)               -> Refuse(m.kind)
      [] run.pc = "target"      -> TargetAnswered(m)
      [] run.pc = "keys"        -> KeysAnswered(m)
      [] run.pc = "chaseask"    -> Go([run EXCEPT !.resp = m, !.asked = run.owner, !.pc = "chase"])
      [] run.pc = "inlineds"    -> InlineDsAnswered(m)
      [] run.pc = "inlinekeys"  -> InlineKeysAnswered(m)
      [] run.pc = "childkeys"   -> ChildKeysAnswered(m)
      [] run.pc \in {"childtarget", "childask"} ->
            Go([run EXCEPT !.resp = m, !.pc = "childchase",
                           !.asked = IF run.pc = "childask" THEN run.owner ELSE run.name])

AnswerArrives == Waits /\ \E m \in Query(Question) : Take(Answered(m))

Chase ==
    /\ run.pc \in {"chase", "childchase"}
    /\ Take(ChaseRound(run, ZoneOf(run), run.kids,
               RecordsFor(run.resp.ans, run.owner, run.type),
               IF run.type = Cname THEN <<>> ELSE RecordsFor(run.resp.ans, run.owner, Cname)))

-----------------------------------------------------------------------------
(* resolve_delegated: the targets in order *)

NextTarget ==
    /\ phase \in {"doh", "servers"} /\ run = NoRun /\ ~outcome.done
    /\ todo # <<>>
    /\ run' = Begin(Head(todo), request.name, request.type)
    /\ todo' = Tail(todo)
    /\ UNCHANGED <<config, request, delegation, phase, discover, endpoints, cache,
                   last, outcome>>

Exhausted == Failure(IF last = NoError THEN "noserver" ELSE last)

PhaseEnds ==
    /\ phase \in {"doh", "servers"} /\ run = NoRun /\ ~outcome.done
    /\ todo = <<>>
    /\ IF phase = "doh" /\ config.prefer
       THEN phase' = "servers" /\ todo' = ServerTargets /\ UNCHANGED outcome
       ELSE IF phase = "servers" /\ config.relay
       THEN outcome' = Failure("noserver") /\ UNCHANGED <<phase, todo>>
       ELSE IF phase = "servers" /\ config.doh /\ ~config.prefer
       THEN phase' = "plan" /\ UNCHANGED <<todo, outcome>>
       ELSE outcome' = Exhausted /\ UNCHANGED <<phase, todo>>
    /\ UNCHANGED <<config, request, delegation, discover, endpoints, cache, run, last>>

-----------------------------------------------------------------------------
(* DelegatingResolver::resolve *)

\* p is [status, records]: status "ok", an error of the provider, a proof for
\* another name or not secure ("mismatch"), or the proof that the name does
\* not exist.  Its records are [owner, ns, ds, txt, direct], direct the
\* records of the root name itself.
AnyType == 65535
FilterRecords(records, name, type) ==
    IF type = AnyType THEN records ELSE RecordsFor(records, name, type)

\* root_records_answer_request: types the proven root records settle.
RootRecordsAnswerRequest(p) ==
    request.name = p.owner /\ request.type \in {Ds, Ns, Txt, AnyType}

AnswersDirectly(p) ==
    \/ /\ request.name = p.owner
       /\ FilterRecords(p.direct, request.name, request.type) # <<>>
    \/ RootRecordsAnswerRequest(p)
    \/ p.ns = <<>>

\* A name server without an address is looked up through the proof of its own
\* root name, one after the other; h is what that gives for each server.
Hydrated(p, h) ==
    [p EXCEPT !.ns = [i \in 1..Len(p.ns) |->
        IF p.ns[i].ips # <<>> \/ h[i].status # "ok" THEN p.ns[i]
        ELSE [p.ns[i] EXCEPT !.ips = h[i].ips]]]
HydrationFails(p, h) ==
    {i \in 1..Len(p.ns) : p.ns[i].ips = <<>> /\ h[i].status \in {"error", "mismatch"}}

Resolve ==
    /\ phase = "start" /\ ~outcome.done
    /\ \E p \in Proofs :
          IF p.status # "ok"
          THEN /\ outcome' = Failure(p.status)
               /\ UNCHANGED <<delegation, phase, todo>>
          ELSE IF AnswersDirectly(p.records)
          THEN /\ outcome' = Answer(request.name,
                      FilterRecords(p.records.direct, request.name, request.type), TRUE)
               /\ delegation' = p.records
               /\ UNCHANGED <<phase, todo>>
          ELSE \E h \in [1..Len(p.records.ns) -> UNION {NsProofs(p.records.ns[i].name) :
                                                           i \in 1..Len(p.records.ns)}] :
               LET bad == HydrationFails(p.records, h)
                   d == Hydrated(p.records, h)
               IN  IF bad # {}
                   THEN /\ outcome' = Failure(h[Min(bad)].status)
                        /\ UNCHANGED <<delegation, phase, todo>>
                   ELSE /\ delegation' = d
                        /\ IF request.type = AnyType
                           THEN outcome' = Failure("unsupported") /\ UNCHANGED <<phase, todo>>
                           ELSE IF NameserverAddresses(d) = <<>>
                           THEN outcome' = Failure("noserver") /\ UNCHANGED <<phase, todo>>
                           ELSE /\ phase' = IF config.doh /\ config.prefer
                                            THEN "plan" ELSE "servers"
                                /\ todo' = ServersOf(d)
                                /\ UNCHANGED outcome
    /\ UNCHANGED <<config, request, discover, endpoints, cache, run, last>>

NoDelegation == [owner |-> <<>>, ns |-> <<>>, ds |-> <<>>, txt |-> <<>>, direct |-> <<>>]

Init ==
    /\ config \in Configs
    /\ request \in Requests
    /\ delegation = NoDelegation
    /\ phase = "start"
    /\ todo = <<>>
    /\ discover = <<>>
    /\ endpoints = <<>>
    /\ cache \in Caches
    /\ run = NoRun
    /\ last = NoError
    /\ outcome = Ongoing

Next ==
    \/ Resolve
    \/ FindEndpoints
    \/ AskForBinding
    \/ EndpointsFound
    \/ NextTarget
    \/ PhaseEnds
    \/ AnswerArrives
    \/ Chase

Spec == Init /\ [][Next]_vars

-----------------------------------------------------------------------------
(* Properties *)

Delegated == outcome.done /\ delegation.ns # <<>> /\ ~AnswersDirectly(delegation)
SecureOutcome == Delegated /\ outcome.ok /\ outcome.secure

\* A zone publishes a record at its name, or at the wildcard above it.
Publishes(z, rr) ==
    \E p \in z.records :
        /\ p.type = rr.type /\ p.data = rr.data
        /\ \/ p.name = rr.name
           \/ p.name[1] = Star /\ IsStrictSubdomain(rr.name, Tail(p.name))

\* Where the CNAME records of an answer lead from the name that was asked for.
CnamesOf(records) == SelectSeq(records, LAMBDA r : r.type = Cname)
RestOf(records) == SelectSeq(records, LAMBDA r : r.type # Cname)
FinalOwner ==
    LET c == CnamesOf(outcome.records)
    IN  IF c = <<>> \/ request.type = Cname THEN request.name ELSE c[Len(c)].data.to

\* The zones that speak for a name: the deepest on the chain, and for the DS
\* records of a zone the one above it.
Authoritative(name, type) ==
    LET above == {z \in Zones : /\ IsSubdomainOrEqual(name, z.owner)
                                /\ type = Ds => z.owner # name}
    IN  {z \in above : \A y \in above : Len(y.owner) <= Len(z.owner)}

\* What a zone has of a type at a name, itself or through the wildcard of the
\* name's closest encloser.
Holds(z, name, type) ==
    \E p \in z.records :
        /\ p.type = type
        /\ \/ p.name = name
           \/ /\ p.name[1] = Star /\ IsStrictSubdomain(name, Tail(p.name))
              /\ \A q \in z.records :
                    ~IsSubdomainOrEqual(q.name, NextCloserName(name, Tail(p.name)))

\* Every secure answer of a delegated name rests on the proven DS records: a
\* zone on the chain publishes each record, the CNAME records lead without a
\* gap from the name asked for to the records answered, and an empty answer
\* is about a name at which the zone that speaks for it, the deepest on the
\* chain, has neither such a record nor an alias.  Nothing delegated under a
\* proven DS is accepted without being secure.
ResolutionSound ==
    /\ SecureOutcome =>
          LET c == CnamesOf(outcome.records)
              rest == RestOf(outcome.records)
          IN  /\ \A i \in 1..Len(outcome.records) :
                    \E z \in Zones : Publishes(z, outcome.records[i])
              /\ c # <<>> => c[1].name = request.name
              /\ \A i \in 1..(Len(c) - 1) : c[i].data.to = c[i + 1].name
              /\ \A i \in 1..Len(rest) :
                    rest[i].name = FinalOwner /\ rest[i].type = request.type
              /\ rest = <<>> /\ request.type # Cname =>
                    \E z \in Authoritative(FinalOwner, request.type) :
                        ~Holds(z, FinalOwner, request.type) /\ ~Holds(z, FinalOwner, Cname)
    /\ Delegated /\ outcome.ok /\ delegation.ds # <<>> => outcome.secure

\* A server that misbehaves, times out or truncates does not stop a
\* resolution: as long as one of the delegation's servers answers as its
\* zone says, a question it can answer provably is answered.
OneHonestSuffices ==
    Delegated /\ ~outcome.ok /\ ~config.relay /\ request \in Resolvable =>
        \A i \in 1..Len(NameserverAddresses(delegation)) :
            NameserverAddresses(delegation)[i] \notin HonestIps
=============================================================================
