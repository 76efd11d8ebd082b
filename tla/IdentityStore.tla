---------------------------- MODULE IdentityStore ----------------------------
(* The local TLS identities of one proxy generation: the store of            *)
(* hns-loopback-proxy certificate.rs, the workers that lease from it, the    *)
(* browser's trust hook that asks RunningProxy::matches_local_certificate,   *)
(* and request_stop, which revokes everything.  The active flag is read      *)
(* without the lock; generation of a certificate holds the lock.             *)

EXTENDS Naturals, FiniteSets

CONSTANTS Leasers,         \* worker threads serving a CONNECT
          Hooks,           \* platform threads asking about a certificate
          CertHosts,       \* normalized hosts
          Nobody,
          Capacity,        \* MAX_CACHED_IDENTITIES
          MaxAccess,       \* u128::MAX of the access counter
          MaxPrepares,     \* bound: prepare calls of each worker
          MaxAsks          \* bound: questions of each hook

\* The counter is 128 bits wide and MAX_CACHED_IDENTITIES far below its end.
ASSUME CapacityAssumption == Capacity \in Nat /\ MaxAccess \in Nat /\ Capacity < MaxAccess

\* Nobody is no worker: a mutex without an owner is not owned.
ASSUME NobodyAssumption == Nobody \notin Leasers

VARIABLES
    stopRequested,  \* ProxyStopState.requested
    storeActive,    \* the AtomicBool shared with every SNI resolver
    holder,         \* owner of the state mutex
    entries,        \* host -> [id, access]: the cached identities
    accessCounter,
    nextId,         \* ghost: identities generated so far
    thread,         \* per thread: step, host, and what it carries
    leased,         \* per worker: the identity its lease keeps alive, 0 if none
    prepares,
    asks,
    stopStep,       \* where request_stop is
    recency         \* ghost: host -> position in the order of last use

storeVars == <<stopRequested, storeActive, holder, entries, accessCounter, nextId, thread,
               leased, prepares, asks, stopStep, recency>>

AtRest == [step |-> "idle", host |-> Nobody, id |-> 0, der |-> 0, victims |-> {}]

StoreInit ==
    /\ stopRequested = FALSE /\ storeActive = TRUE
    /\ holder = Nobody
    /\ entries = << >>
    /\ accessCounter = 0
    /\ nextId = 1
    /\ thread = [t \in Leasers \union Hooks |-> AtRest]
    /\ leased = [w \in Leasers |-> 0]
    /\ prepares = [w \in Leasers |-> 0]
    /\ asks = [a \in Hooks |-> 0]
    /\ stopStep = "running"
    /\ recency = << >>

------------------------------------------------------------------------------
StandsAt(t, step) == thread[t].step = step
Move(t, step) == thread' = [thread EXCEPT ![t].step = step]
Finish(t) == thread' = [thread EXCEPT ![t] = AtRest]

\* Arc::strong_count of an entry is 1: no lease holds its identity.
Unleased(h) == \A w \in Leasers : leased[w] # entries[h].id

\* next_access at the end of the counter: the entries keep their order as ranks.
Renumber ==
    [h \in DOMAIN entries |->
        [entries[h] EXCEPT !.access =
            Cardinality({g \in DOMAIN entries : entries[g].access < entries[h].access})]]

Renumbered == IF accessCounter = MaxAccess THEN Renumber ELSE entries
NextAccess == 1 + IF accessCounter = MaxAccess THEN Cardinality(DOMAIN entries)
                  ELSE accessCounter

\* The ghost order of use that last_access stands for.
Used(h) ==
    [g \in DOMAIN recency \union {h} |->
        IF g = h THEN 1 + Cardinality(DOMAIN recency \ {h})
        ELSE Cardinality({f \in DOMAIN recency \ {h} : recency[f] <= recency[g]})]

------------------------------------------------------------------------------
(* LocalTlsIdentityStore::prepare. *)

\* The first look at the flag, without the lock.
Prepare(w, h) ==
    /\ StandsAt(w, "idle") /\ leased[w] = 0
    /\ prepares[w] < MaxPrepares
    /\ prepares' = [prepares EXCEPT ![w] = @ + 1]
    /\ IF storeActive
       THEN thread' = [thread EXCEPT ![w] = [AtRest EXCEPT !.step = "lock", !.host = h]]
       ELSE UNCHANGED thread
    /\ UNCHANGED <<stopRequested, storeActive, holder, entries, accessCounter, nextId, leased,
                   asks, stopStep, recency>>

\* Leases are not looked at.
MutantEvictable == DOMAIN entries
\* Only an identity that no connection leases may make room.
Evictable == {h \in DOMAIN entries : Unleased(h)}

\* The least recently used free identity, once the store is full.
Full == Cardinality(DOMAIN entries) >= Capacity
Victims ==
    IF ~Full THEN {}
    ELSE {CHOOSE h \in Evictable : \A g \in Evictable : entries[h].access <= entries[g].access}

\* Under the lock: the flag again, the access count, and a cached identity or the
\* one to evict.  A full store whose identities are all leased refuses.
LookUp(w) ==
    /\ StandsAt(w, "lock") /\ holder = Nobody
    /\ LET h == thread[w].host IN
       \/ /\ ~storeActive
          /\ Finish(w)
          /\ UNCHANGED <<holder, entries, accessCounter, recency>>
       \/ /\ storeActive
          /\ accessCounter' = NextAccess
          /\ \/ /\ h \in DOMAIN entries
                /\ entries' = [Renumbered EXCEPT ![h].access = NextAccess]
                /\ recency' = Used(h)
                /\ holder' = w
                /\ thread' = [thread EXCEPT ![w].step = "found", ![w].id = entries[h].id]
             \/ /\ h \notin DOMAIN entries
                /\ entries' = Renumbered
                /\ IF Full /\ Evictable = {}
                   THEN Finish(w) /\ UNCHANGED holder
                   ELSE /\ holder' = w
                        /\ thread' = [thread EXCEPT ![w].step = "generate", ![w].victims = Victims]
                /\ UNCHANGED recency
    /\ UNCHANGED <<stopRequested, storeActive, nextId, leased, prepares, asks, stopStep>>

\* A cached identity is leased unless the store was revoked meanwhile.
Found(w) ==
    /\ StandsAt(w, "found")
    /\ holder' = Nobody
    /\ Finish(w)
    /\ leased' = IF storeActive THEN [leased EXCEPT ![w] = thread[w].id] ELSE leased
    /\ UNCHANGED <<stopRequested, storeActive, entries, accessCounter, nextId, prepares, asks,
                   stopStep, recency>>

EntriesWithout(victims) == [h \in DOMAIN entries \ victims |-> entries[h]]

\* Still under the lock: generate, look at the flag, evict and insert.
\* Generation may fail.
Generate(w) ==
    /\ StandsAt(w, "generate")
    /\ \/ /\ holder' = Nobody          \* CertificateGeneration, or Inactive
          /\ Finish(w)
          /\ UNCHANGED <<entries, nextId, recency>>
       \/ /\ storeActive
          /\ LET h == thread[w].host
                 victims == thread[w].victims IN
             /\ entries' = [g \in (DOMAIN entries \ victims) \union {h} |->
                               IF g = h THEN [id |-> nextId, access |-> accessCounter]
                               ELSE entries[g]]
             /\ recency' = [g \in DOMAIN Used(h) \ victims |-> Used(h)[g]]
          /\ thread' = [thread EXCEPT ![w].step = "inserted", ![w].id = nextId]
          /\ nextId' = nextId + 1
          /\ UNCHANGED holder
    /\ UNCHANGED <<stopRequested, storeActive, accessCounter, leased, prepares, asks, stopStep>>

\* The last look at the flag: a store revoked meanwhile takes the identity back.
LeaseInserted(w) ==
    /\ StandsAt(w, "inserted")
    /\ holder' = Nobody
    /\ Finish(w)
    /\ IF storeActive
       THEN leased' = [leased EXCEPT ![w] = thread[w].id] /\ UNCHANGED <<entries, recency>>
       ELSE /\ entries' = EntriesWithout({thread[w].host})
            /\ recency' = [g \in DOMAIN recency \ {thread[w].host} |-> recency[g]]
            /\ UNCHANGED leased
    /\ UNCHANGED <<stopRequested, storeActive, accessCounter, nextId, prepares, asks, stopStep>>

\* The connection ends and its lease is dropped.
EndLease(w) ==
    /\ StandsAt(w, "idle") /\ leased[w] # 0
    /\ leased' = [leased EXCEPT ![w] = 0]
    /\ UNCHANGED <<stopRequested, storeActive, holder, entries, accessCounter, nextId, thread,
                   prepares, asks, stopStep, recency>>

------------------------------------------------------------------------------
(* RunningProxy::matches_local_certificate. *)

\* The certificate the browser was shown is one this store signed, or another.
AskMatch(a, h, der) ==
    /\ StandsAt(a, "idle") /\ asks[a] < MaxAsks
    /\ asks' = [asks EXCEPT ![a] = @ + 1]
    /\ IF stopRequested \/ ~storeActive THEN UNCHANGED thread
       ELSE thread' = [thread EXCEPT ![a] = [AtRest EXCEPT !.step = "pin", !.host = h, !.der = der]]
    /\ UNCHANGED <<stopRequested, storeActive, holder, entries, accessCounter, nextId, leased,
                   prepares, stopStep, recency>>

\* pin and matches_der: a host the store does not know still costs an access.
Pin(a) ==
    /\ StandsAt(a, "pin") /\ holder = Nobody
    /\ LET h == thread[a].host IN
       \/ /\ ~storeActive
          /\ Finish(a)
          /\ UNCHANGED <<entries, accessCounter, recency>>
       \/ /\ storeActive
          /\ accessCounter' = NextAccess
          /\ IF h \in DOMAIN entries
             THEN /\ entries' = [Renumbered EXCEPT ![h].access = NextAccess]
                  /\ recency' = Used(h)
                  /\ IF entries[h].id = thread[a].der THEN Move(a, "matched") ELSE Finish(a)
             ELSE entries' = Renumbered /\ Finish(a) /\ UNCHANGED recency
    /\ UNCHANGED <<stopRequested, storeActive, holder, nextId, leased, prepares, asks, stopStep>>

\* The stop is looked at once more before the certificate is trusted; the answer
\* is all the hook gets.
Answer(a) ==
    /\ StandsAt(a, "matched")
    /\ Finish(a)
    /\ UNCHANGED <<stopRequested, storeActive, holder, entries, accessCounter, nextId, leased,
                   prepares, asks, stopStep, recency>>

------------------------------------------------------------------------------
\* request_stop: the request, then deactivate, whose flag does not wait for the
\* lock and whose clear does.
RequestStop ==
    /\ \/ /\ stopStep = "running"
          /\ stopRequested' = TRUE /\ stopStep' = "requested"
          /\ UNCHANGED <<storeActive, entries, recency>>
       \/ /\ stopStep = "requested"
          /\ storeActive' = FALSE /\ stopStep' = "revoked"
          /\ UNCHANGED <<stopRequested, entries, recency>>
       \/ /\ stopStep = "revoked" /\ holder = Nobody
          /\ entries' = << >> /\ recency' = << >> /\ stopStep' = "cleared"
          /\ UNCHANGED <<stopRequested, storeActive>>
    /\ UNCHANGED <<holder, accessCounter, nextId, thread, leased, prepares, asks>>

StoreNext ==
    \/ \E w \in Leasers :
          \/ \E h \in CertHosts : Prepare(w, h)
          \/ LookUp(w) \/ Found(w) \/ Generate(w) \/ LeaseInserted(w) \/ EndLease(w)
    \/ \E a \in Hooks :
          \/ \E h \in CertHosts, der \in 0..(nextId - 1) : AskMatch(a, h, der)
          \/ Pin(a) \/ Answer(a)
    \/ RequestStop

------------------------------------------------------------------------------
StoreSpec == StoreInit /\ [][StoreNext]_storeVars

------------------------------------------------------------------------------
\* Once request_stop has returned, no certificate generated meanwhile comes back,
\* and prepare never pushes the cache past its capacity.
RevokedStaysEmpty ==
    /\ stopStep = "cleared" => DOMAIN entries = {}
    /\ Cardinality(DOMAIN entries) <= Capacity

\* A connection that holds a lease on a live store is known to the trust hook
\* under the identity it presents: eviction never takes it, regeneration never
\* replaces it, however the prepare calls of the workers interleave.
LeasedIsCached ==
    storeActive => \A w \in Leasers :
        leased[w] # 0 => \E h \in DOMAIN entries : entries[h].id = leased[w]

\* last_access keeps the order of use through the renumbering at the end of the
\* counter, so the victim is always the least recently used free identity; and
\* the counter never passes its end.
AccessOrder ==
    /\ accessCounter <= MaxAccess
    /\ \A g, h \in DOMAIN entries :
          entries[g].access < entries[h].access <=> recency[g] < recency[h]

\* What prepare, pin, matches_der and deactivate keep to, whoever calls them at once.
StoreSafety == RevokedStaysEmpty /\ LeasedIsCached /\ AccessOrder
=============================================================================
