------------------------------- MODULE Poller -------------------------------
(***************************************************************************)
(* The order poller (worker/order_assigner.go) over an integer clock.  A   *)
(* ticker fires every Period; the goroutine takes a tick when it is free,  *)
(* so a tick can be taken late and ticks missed meanwhile are dropped.     *)
(* One tick (processTick) is three steps: read the clock and pick the      *)
(* cursor, call GetOrders, then run the Assign loop and move the cursor.   *)
(* The order service stamps an order's created_at with its own clock and   *)
(* makes it visible up to MaxLag later (a late commit or a clock behind    *)
(* ours); GetOrders returns the visible orders created after `from`.       *)
(* Timestamps are in half units: the clock is read at 2t, and an order    *)
(* created during unit t is stamped 2t+1, so no created_at equals a floor; *)
(* within one unit, orders are created before a fetch.                     *)
(***************************************************************************)
EXTENDS Integers, FiniteSets

CONSTANTS
    Orders,
    Period,   \* the ticker period and the look-back (5 s in the code)
    MaxTime,  \* bound on the clock
    MaxLag,   \* how far created_at may trail the moment the order is visible
    MaxDelay, \* bound on how late the goroutine takes a due tick
    MaxBusy,  \* bound on the duration of one tick
    FetchMayFail, \* GetOrders may return an error
    None

ASSUME FetchMayFail \in BOOLEAN
ASSUME Period \in Nat \ {0} /\ MaxLag \in Nat /\ MaxDelay \in Nat /\ MaxBusy \in Nat

VARIABLES
    now,        \* the service's clock
    nextTick,   \* when the ticker's next tick is due
    pc,         \* the goroutine: "idle", "fetch" (clock read) or "assign" (batch fetched)
    started,    \* the clock processTick read
    from,       \* the cursor this tick fetches after
    batch,      \* the orders GetOrders returned
    cursor,     \* OrderAssigner.cursor
    createdAt,  \* created_at of each visible order, None before it exists
    fetchCount, \* ghost: how many times GetOrders returned each order
    lastFetch   \* ghost: the clock of the last GetOrders call

vars == <<now, nextTick, pc, started, from, batch, cursor, createdAt, fetchCount, lastFetch>>

Stamp(t) == 2 * t
Time == Stamp(-Period - MaxLag)..Stamp(MaxTime) + 1
MaxOf(S) == CHOOSE m \in S : \A x \in S : x =< m

\* A time earlier than any the model uses: the zero time.Time.
ZeroTime == Stamp(-Period - MaxLag) - 1

InitZeroCursor ==
    /\ now = 0 /\ nextTick = Period
    /\ pc = "idle" /\ started = 0 /\ from = 0 /\ batch = {}
    /\ cursor = ZeroTime
    /\ createdAt = [o \in Orders |-> None]
    /\ fetchCount = [o \in Orders |-> 0]
    /\ lastFetch = -1

\* NewOrderAssigner: a ticker of Period and a cursor Period before the start.
Init ==
    /\ now = 0 /\ nextTick = Period
    /\ pc = "idle" /\ started = 0 /\ from = 0 /\ batch = {}
    /\ cursor = Stamp(-Period)
    /\ createdAt = [o \in Orders |-> None]
    /\ fetchCount = [o \in Orders |-> 0]
    /\ lastFetch = -1

(* ---------------- the environment ---------------- *)

\* Time passes, within the scheduling bounds on the goroutine.
AdvanceClock ==
    /\ now < MaxTime
    /\ pc = "idle" => now < nextTick + MaxDelay
    /\ pc # "idle" => now < started + MaxBusy
    /\ now' = now + 1
    /\ UNCHANGED <<nextTick, pc, started, from, batch, cursor, createdAt, fetchCount, lastFetch>>

\* The order service creates an order; its created_at may trail by up to MaxLag.
CreateOrder(o) ==
    /\ createdAt[o] = None /\ lastFetch < now
    /\ \E d \in 0..MaxLag : d =< now /\ createdAt' = [createdAt EXCEPT ![o] = Stamp(now - d) + 1]
    /\ UNCHANGED <<now, nextTick, pc, started, from, batch, cursor, fetchCount, lastFetch>>

(* ---------------- processTick ---------------- *)

TickStartAt(floor) ==
    /\ pc = "idle" /\ now >= nextTick
    /\ started' = now
    /\ from' = floor
    /\ nextTick' = (now \div Period + 1) * Period
    /\ pc' = "fetch"
    /\ UNCHANGED <<now, batch, cursor, createdAt, fetchCount, lastFetch>>
TickStartNow == TickStartAt(IF Stamp(now) > cursor THEN Stamp(now) ELSE cursor)
TickStartFloorOnly == TickStartAt(Stamp(now - Period))

\* The goroutine takes the due tick: now, currentCursor, cursor = max of both.
TickStart ==
    TickStartAt(IF Stamp(now - Period) > cursor THEN Stamp(now - Period) ELSE cursor)

\* OrderGateway.GetOrders(from): the visible orders created after `from`.
\* A failed call returns from processTick with the cursor unchanged.
TickFetch ==
    /\ pc = "fetch"
    /\ lastFetch' = now
    /\ \/ /\ batch' = {o \in Orders : createdAt[o] # None /\ createdAt[o] > from}
          /\ fetchCount' = [o \in Orders |-> IF o \in batch' THEN fetchCount[o] + 1 ELSE fetchCount[o]]
          /\ pc' = "assign"
       \/ /\ FetchMayFail
          /\ pc' = "idle" /\ batch' = {}
          /\ UNCHANGED fetchCount
    /\ UNCHANGED <<now, nextTick, started, from, cursor, createdAt>>

\* The Assign loop (a failing Assign is logged and skipped), then the cursor:
\* the largest created_at seen, or currentCursor after an empty batch.
NewCursor(b) == IF b # {} THEN MaxOf({from} \cup {createdAt[o] : o \in b}) ELSE Stamp(started - Period)
TickEnd ==
    /\ pc = "assign"
    /\ cursor' = NewCursor(batch)
    /\ pc' = "idle" /\ batch' = {}
    /\ UNCHANGED <<now, nextTick, started, from, createdAt, fetchCount, lastFetch>>

Next ==
    \/ AdvanceClock \/ TickStart \/ TickFetch \/ TickEnd
    \/ \E o \in Orders : CreateOrder(o)

Spec == Init /\ [][Next]_vars

-----------------------------------------------------------------------------

TypeOK ==
    /\ now \in 0..MaxTime /\ nextTick \in 0..MaxTime + MaxDelay + Period
    /\ pc \in {"idle", "fetch", "assign"}
    /\ cursor \in Time /\ from \in Time
    /\ \A o \in Orders : createdAt[o] \in Time \cup {None}
    /\ batch \subseteq Orders

\* An order is lost to the poller: it is visible, has never been fetched, no
\* fetch in flight will return it, and the look-back floor of every later
\* tick (its clock minus Period) is already at or past its created_at.
Skipped(o) ==
    /\ createdAt[o] # None /\ fetchCount[o] = 0
    /\ createdAt[o] =< Stamp(now - Period)
    /\ ~(pc = "fetch" /\ from < createdAt[o])

\* Spec section 4.7: the cursor logic fetches every order; in particular the
\* floor clamp covers orders published up to Period late.  No order is lost.
NoOrderSkipped == \A o \in Orders : ~Skipped(o)

\* Spec section 4.7: advancing the watermark replays nothing already seen.
\* GetOrders never returns an order twice (each return is one more Assign).
NoDuplicateFetch == \A o \in Orders : fetchCount[o] =< 1

=============================================================================
