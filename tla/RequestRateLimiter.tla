-------------------------- MODULE RequestRateLimiter --------------------------
(* The request limiter of one proxy generation: hns-loopback-proxy           *)
(* rate_limit.rs.  Workers read the clock, and only then take the limiter's  *)
(* lock, so the instants the limiter is given may be old and out of order.   *)

EXTENDS Naturals, Sequences, FiniteSets

CONSTANTS Workers,        \* threads that ask for admission
          LimitedHosts,   \* canonical hosts
          HostKeys,       \* values of the keyed hash
          LimitConfigs,   \* configurations offered to the constructor
          MaxConfig,      \* the hard maximum of each field
          MaxClock,       \* bound: ticks of the clock
          MaxDelay        \* bound: ticks between reading the clock and the lock

\* Counts, a width and a delay.
ASSUME LimitsAssumption ==
    /\ MaxDelay \in Nat
    /\ \A c \in LimitConfigs : c \in [global : Nat, perHost : Nat, window : Nat, tracked : Nat]

VARIABLES
    limits,     \* RateLimitConfig: global, perHost, window, tracked
    hashOf,     \* host_key, drawn when the limiter is built
    limiterClock,
    global,     \* instants admitted, oldest first as recorded
    windows,    \* hosts: the windows by key; an absent key has no window
    sampled,    \* what a worker between clock and lock is asking for
    grants      \* ghost: <<host, real time>> of each admission

limiterVars == <<limits, hashOf, limiterClock, global, windows, sampled, grants>>

Unasked == [busy |-> FALSE]

\* RateLimitConfig::validate.
ValidateLimits(c) ==
    /\ c.global # 0 /\ c.perHost # 0 /\ c.window # 0 /\ c.tracked # 0
    /\ c.perHost <= c.global
    /\ \A field \in DOMAIN c : c[field] <= MaxConfig[field]

\* ProxyLimits::new, which the limits come from, refuses the same values earlier.
ProxyLimitsNew(c) ==
    /\ \A field \in DOMAIN c : c[field] # 0 /\ c[field] <= MaxConfig[field]
    /\ c.perHost <= c.global

LimiterInit ==
    /\ limits \in {c \in LimitConfigs : ProxyLimitsNew(c) /\ ValidateLimits(c)}
    /\ hashOf \in [LimitedHosts -> HostKeys]
    /\ limiterClock = 0
    /\ global = << >>
    /\ windows = << >>
    /\ sampled = [w \in Workers |-> Unasked]
    /\ grants = << >>

\* The window taken a tick too short.
MutantExpire(requests, now) ==
    LET Live(instant) == instant + limits.window > now + 1 IN SelectSeq(requests, Live)
\* expire: the longest prefix that has left the window goes.
Expire(requests, now) ==
    LET live == {i \in DOMAIN requests : requests[i] + limits.window > now} IN
    IF live = {} THEN << >>
    ELSE SubSeq(requests, CHOOSE i \in live : \A j \in live : i <= j, Len(requests))

\* The windows that are left after expiry; empty ones are dropped.
LiveWindows(now) ==
    [k \in {h \in DOMAIN windows : Expire(windows[h], now) # << >>} |-> Expire(windows[k], now)]

\* admit_rate reads the clock before it calls check.
SampleClock(w, h) ==
    /\ ~sampled[w].busy
    /\ sampled' = [sampled EXCEPT ![w] = [busy |-> TRUE, host |-> h, now |-> limiterClock]]
    /\ UNCHANGED <<limits, hashOf, limiterClock, global, windows, grants>>

\* RequestRateLimiter::check, under the lock.  An expired entry is dropped even
\* when the request is then refused.
Check(w) ==
    /\ sampled[w].busy
    /\ LET now == sampled[w].now
           key == hashOf[sampled[w].host]
           live == LiveWindows(now)
           recent == Expire(global, now)
           limited == \/ Len(recent) >= limits.global
                      \/ key \in DOMAIN live /\ Len(live[key]) >= limits.perHost
                      \/ key \notin DOMAIN live /\ Cardinality(DOMAIN live) >= limits.tracked IN
       /\ sampled' = [sampled EXCEPT ![w] = Unasked]
       /\ IF limited
          THEN global' = recent /\ windows' = live /\ UNCHANGED grants
          ELSE /\ global' = Append(recent, now)
               /\ windows' = [k \in DOMAIN live \union {key} |->
                     IF k = key THEN Append(IF k \in DOMAIN live THEN live[k] ELSE << >>, now)
                     ELSE live[k]]
               /\ grants' = Append(grants, <<sampled[w].host, limiterClock>>)
    /\ UNCHANGED <<limits, hashOf, limiterClock>>

\* Time passes; a worker is not held up between clock and lock for ever.
TimePasses ==
    /\ limiterClock < MaxClock
    /\ \A w \in Workers : sampled[w].busy => limiterClock - sampled[w].now < MaxDelay
    /\ limiterClock' = limiterClock + 1
    /\ UNCHANGED <<limits, hashOf, global, windows, sampled, grants>>

LimiterNext ==
    \/ \E w \in Workers : Check(w) \/ \E h \in LimitedHosts : SampleClock(w, h)
    \/ TimePasses

LimiterSpec == LimiterInit /\ [][LimiterNext]_limiterVars

\* Admissions of real time (t - width, t], of one host or of all.
Granted(H, t, width) ==
    Cardinality({i \in DOMAIN grants : /\ grants[i][1] \in H
                                       /\ grants[i][2] <= t /\ grants[i][2] + width > t})

\* Old and reordered instants cost at most the delay: in any span of real time
\* that is shorter than the window by the longest delay, no more requests pass
\* than the limits allow, in total and per host, also when hosts share a key; and
\* the windows kept are never more than max_tracked_hosts.
WindowHolds ==
    /\ limits.window > MaxDelay =>
        /\ Granted(LimitedHosts, limiterClock, limits.window - MaxDelay) <= limits.global
        /\ \A h \in LimitedHosts : Granted({h}, limiterClock, limits.window - MaxDelay) <= limits.perHost
    /\ Cardinality(DOMAIN windows) <= limits.tracked
=============================================================================
