----------------------------- MODULE RateLimiter -----------------------------
(***************************************************************************)
(* TokenBucketLimiter (ratelimit/limiter.go) shared by the HTTP request    *)
(* goroutines.  Allow reads the clock, then takes the mutex, so a request  *)
(* can apply a reading older than the one another request applied before   *)
(* it.  Under the mutex it runs the lazy TTL eviction, then creates or     *)
(* refills the caller's bucket and consumes a token.                       *)
(*                                                                         *)
(* Time is an integer: one unit is 1 / (Scale * rate) seconds, and tokens  *)
(* are counted in units of 1 / Scale token, so elapsed * rate is a whole   *)
(* number of token units and the float arithmetic of the code is exact.    *)
(***************************************************************************)
EXTENDS Naturals, FiniteSets, FiniteSetsExt, TLC

CONSTANTS
    Procs,   \* request goroutines
    Keys,    \* caller keys (c.RealIP(), or "unknown")
    Cap,     \* burst: the bucket capacity in tokens
    Scale,   \* token units per token, and time units per 1/rate seconds
    TTL,     \* ttl, which is also cleanupInterval, in time units
    MaxLag,  \* bound on how long a request waits for the mutex after reading the clock
    MaxTime  \* bound on the clock

ASSUME Cap \in Nat \ {0} /\ Scale \in Nat \ {0} /\ TTL \in Nat \ {0} /\ MaxLag \in Nat

Time == 0..MaxTime
\* The zero time.Time of a limiter that has never cleaned up.
Zero == -1

VARIABLES
    clock,       \* real time
    pc,          \* a goroutine: "idle", or "read" (clock read, waiting for the mutex)
    seen,        \* the clock reading of a goroutine in "read"
    key,         \* the key of its request
    buckets,     \* the bucket map: a function on the keys present
    lastCleanup, \* l.lastCleanup
    granted      \* ghost: granted[k][t] is the number of grants to k at clock reading t

vars == <<clock, pc, seen, key, buckets, lastCleanup, granted>>

Init ==
    /\ clock = 0
    /\ pc = [p \in Procs |-> "idle"]
    /\ seen = [p \in Procs |-> 0]
    /\ key = [p \in Procs |-> CHOOSE k \in Keys : TRUE]
    /\ buckets = [k \in {} |-> 0]
    /\ lastCleanup = Zero
    /\ granted = [k \in Keys |-> [t \in Time |-> 0]]

\* cleanupLocked(now): the buckets and lastCleanup after it.
Cleanup(now) ==
    IF lastCleanup = Zero
    THEN [map |-> buckets, at |-> now]
    ELSE IF now - lastCleanup < TTL
    THEN [map |-> buckets, at |-> lastCleanup]
    ELSE [map |-> [k \in {k \in DOMAIN buckets : ~(buckets[k].lastSeen < now - TTL)} |-> buckets[k]],
          at |-> now]

RefillNoCap(e, now) ==
    IF now > e.last THEN [e EXCEPT !.tokens = @ + (now - e.last), !.last = now] ELSE e

\* refillLocked(entry, now): nothing unless now is after entry.last.
Refill(e, now) ==
    IF now > e.last
    THEN [e EXCEPT !.tokens = Min({Cap * Scale, @ + (now - e.last)}), !.last = now]
    ELSE e

NewBucketFull(now) == [tokens |-> Cap * Scale, last |-> now, lastSeen |-> now]
\* A new bucket: capacity - 1 tokens, the request allowed.
NewBucket(now) == [tokens |-> (Cap - 1) * Scale, last |-> now, lastSeen |-> now]

\* A request for key k arrives; Allow reads the clock (line 56).
Request(p, k) ==
    /\ pc[p] = "idle"
    /\ pc' = [pc EXCEPT ![p] = "read"]
    /\ seen' = [seen EXCEPT ![p] = clock]
    /\ key' = [key EXCEPT ![p] = k]
    /\ UNCHANGED <<clock, buckets, lastCleanup, granted>>

\* The rest of Allow, under the mutex, with the reading taken before it.
Allow(p) ==
    LET now == seen[p]
        k   == key[p]
        c   == Cleanup(now)
        e   == Refill(c.map[k], now)
        ok  == k \notin DOMAIN c.map \/ e.tokens >= Scale
    IN
    /\ pc[p] = "read"
    /\ lastCleanup' = c.at
    /\ buckets' =
          IF k \notin DOMAIN c.map
          THEN (k :> NewBucket(now)) @@ c.map
          ELSE [c.map EXCEPT ![k] = [e EXCEPT !.lastSeen = now,
                                               !.tokens = IF ok THEN @ - Scale ELSE @]]
    /\ granted' = IF ok THEN [granted EXCEPT ![k][now] = @ + 1] ELSE granted
    /\ pc' = [pc EXCEPT ![p] = "idle"]
    /\ UNCHANGED <<clock, seen, key>>

\* Time passes; a goroutine waits at most MaxLag for the mutex.
Tick ==
    /\ clock < MaxTime
    /\ \A p \in Procs : pc[p] = "read" => clock - seen[p] < MaxLag
    /\ clock' = clock + 1
    /\ UNCHANGED <<pc, seen, key, buckets, lastCleanup, granted>>

Next ==
    \/ Tick
    \/ \E p \in Procs : Allow(p) \/ \E k \in Keys : Request(p, k)

Spec == Init /\ [][Next]_vars

-----------------------------------------------------------------------------

TypeOK ==
    /\ clock \in Time
    /\ DOMAIN buckets \subseteq Keys
    /\ \A k \in DOMAIN buckets :
          /\ buckets[k].tokens \in 0..Cap * Scale
          /\ buckets[k].last \in Time /\ buckets[k].lastSeen \in Time
    /\ lastCleanup \in Time \cup {Zero}

Granted(k, t1, t2) == MapThenSumSet(LAMBDA t : granted[k][t], t1..t2)

\* Spec section 8 property 6: in any window of length T the limiter allows
\* a key at most burst + rate * T requests.  The window is measured on the
\* clock readings Allow decides with, which goroutines apply out of order,
\* and across the TTL eviction that drops an idle bucket and recreates it
\* full on the next request.
WindowBound ==
    \A k \in Keys : \A t1, t2 \in Time :
        t1 =< t2 => Scale * Granted(k, t1, t2) =< Scale * Cap + (t2 - t1)

=============================================================================
