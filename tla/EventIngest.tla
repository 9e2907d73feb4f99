----------------------------- MODULE EventIngest -----------------------------
(***************************************************************************)
(* The event path: the order service changes an order's status and         *)
(* publishes an event to one Kafka partition; the consumer goroutine        *)
(* (transport/kafka/consumer.go ConsumeClaim) reads it, the processor       *)
(* (usecase/order_event) re-reads the authoritative status through the      *)
(* status gateway and, when it agrees, calls Assign, Unassign or Complete;  *)
(* then the message is marked, whatever the handler returned.  Marked       *)
(* offsets are committed in the background; a restart or rebalance         *)
(* resumes after the last committed offset, so events are replayed.  The    *)
(* order poller, when enabled, also calls Assign for the orders it fetches. *)
(*                                                                         *)
(* The coordinator is the atomic AtomicDispatch: each call is one step on   *)
(* the committed tables.  The statement-level races inside one call are     *)
(* the subject of Dispatch.                                                 *)
(***************************************************************************)
EXTENDS Naturals, Sequences, FiniteSets, Config

CONSTANTS
    Couriers, Orders, MaxRows,
    Partitions,       \* partitions of the order topic, one claim each
    MaxRestarts,      \* bound on consumer crashes, restarts and rebalances
    MaxGatewayErrors, \* bound on GetOrderStatus calls that fail after their retries
    MaxConsumeErrors, \* bound on group.Consume calls that return an error
    Env               \* the raw ORDER_POLLING_ENABLED and KAFKA_* values

ASSUME ~StartupPanics(Env) /\ MaxRestarts \in Nat /\ MaxGatewayErrors \in Nat
       /\ MaxConsumeErrors \in Nat

VARIABLES
    status, count, rows, \* the coordinator's tables (AtomicDispatch)
    orderStatus,         \* authoritative status per order, in the order service
    log,                 \* log[pt]: the events of partition pt
    pos,                 \* pos[pt]: offset of the next message its claim reads
    marked,              \* marked[pt]: highest offset marked by session.MarkMessage
    committed,           \* committed[pt]: highest offset committed for the group
    cpc,                 \* cpc[pt]: the claim's goroutine, "idle", "fetch" or "handle"
    fetched,             \* fetched[pt]: what GetOrderStatus returned, or "error"
    polled,              \* orders the poller has fetched and assigned
    restarts, gwErrors,  \* counters for the bounded faults
    running,             \* Consumer.Start's Consume loop has not returned
    consumeErrors,       \* counter for the bounded fault
    handled              \* ghost: <<partition, offset>> pairs whose handler has run

D == INSTANCE AtomicDispatch WITH Hired <- {}, AdminStatuses <- {}

\* App.Start: the poller and the Kafka consumer run as the configuration says.
Polling == "poller" \in Drivers(Env)
ConsumerOn == "consumer" \in Drivers(Env)

coord == <<status, count, rows>>
consumer == <<pos, marked, committed, cpc, fetched>>
group == <<running, consumeErrors>>
vars == <<status, count, rows, orderStatus, log, pos, marked, committed,
          cpc, fetched, polled, restarts, gwErrors, handled, running, consumeErrors>>

Lifecycle == {"created", "cancelled", "completed"}
Event == [order : Orders, status : Lifecycle]
MaxLog == 2 * Cardinality(Orders)
Offsets(pt) == 1..Len(log[pt])

Init ==
    /\ D!Init
    /\ orderStatus = [o \in Orders |-> "none"]
    /\ log = [pt \in Partitions |-> <<>>]
    /\ pos = [pt \in Partitions |-> 1]
    /\ marked = [pt \in Partitions |-> 0]
    /\ committed = [pt \in Partitions |-> 0]
    /\ cpc = [pt \in Partitions |-> "idle"]
    /\ fetched = [pt \in Partitions |-> "none"]
    /\ polled = {} /\ restarts = 0 /\ gwErrors = 0
    /\ handled = {}
    /\ running = ConsumerOn /\ consumeErrors = 0

(* ---------------- the order service ---------------- *)

\* An order's status changes and the change is published to a partition.
\* Nothing is assumed about which partition an order's events go to.
Publish(o, from, to) ==
    /\ orderStatus[o] = from
    /\ orderStatus' = [orderStatus EXCEPT ![o] = to]
    /\ \E pt \in Partitions :
         log' = [log EXCEPT ![pt] = Append(@, [order |-> o, status |-> to])]
    /\ UNCHANGED <<coord, consumer, polled, restarts, gwErrors, handled, group>>

OrderService(o) ==
    \/ Publish(o, "none", "created")
    \/ Publish(o, "created", "cancelled")
    \/ Publish(o, "created", "completed")

(* ---------------- the consumer and the processor ---------------- *)

\* ConsumeClaim takes the next message of its claim; MarkMessage comes later.
ReceiveMarkFirst(pt) ==
    /\ cpc[pt] = "idle" /\ pos[pt] \in Offsets(pt)
    /\ cpc' = [cpc EXCEPT ![pt] = "fetch"]
    /\ marked' = [marked EXCEPT ![pt] = pos[pt]]
    /\ UNCHANGED <<coord, orderStatus, log, pos, committed, fetched,
                   polled, restarts, gwErrors, handled, group>>
ReceiveLate(pt) ==
    /\ cpc[pt] = "idle" /\ pos[pt] + 1 \in Offsets(pt)
    /\ cpc' = [cpc EXCEPT ![pt] = "fetch"]
    /\ UNCHANGED <<coord, orderStatus, log, pos, marked, committed, fetched,
                   polled, restarts, gwErrors, handled, group>>
Receive(pt) ==
    /\ cpc[pt] = "idle" /\ pos[pt] \in Offsets(pt)
    /\ cpc' = [cpc EXCEPT ![pt] = "fetch"]
    /\ UNCHANGED <<coord, orderStatus, log, pos, marked, committed, fetched,
                   polled, restarts, gwErrors, handled, group>>

\* Processor.Handle asks the status gateway for the order's status; the
\* gateway may fail after its retries.
FetchStatus(pt) ==
    /\ cpc[pt] = "fetch"
    /\ \/ /\ fetched' = [fetched EXCEPT ![pt] = orderStatus[log[pt][pos[pt]].order]]
          /\ UNCHANGED gwErrors
       \/ /\ gwErrors < MaxGatewayErrors
          /\ fetched' = [fetched EXCEPT ![pt] = "error"]
          /\ gwErrors' = gwErrors + 1
    /\ cpc' = [cpc EXCEPT ![pt] = "handle"]
    /\ UNCHANGED <<coord, orderStatus, log, pos, marked, committed, polled, restarts, handled, group>>

\* sameStatus: the event agrees with the authoritative status.
SameStatusAlways(actual, ev) == TRUE
SameStatus(actual, ev) == actual = ev

\* DeliveryUsecase.Assign/Unassign/Complete on the coordinator.  A call that
\* fails (ErrCourierNotFound, ErrDeliveryNotFound) changes nothing.
AssignCall(o) ==
    \/ D!Assign(o)
    \/ /\ ~\E c \in Couriers : status[c] = "available"
       /\ UNCHANGED coord
UnassignCall(o) ==
    \/ D!Unassign(o)
    \/ D!RowsOf(o) = {} /\ UNCHANGED coord
CompleteCall(o) ==
    \/ D!Complete(o)
    \/ D!RowsOf(o) = {} /\ UNCHANGED coord

\* The handler HandlerFactory.Handler returns for the event's status, run.
Dispatch(ev) ==
    CASE ev.status = "created"   -> AssignCall(ev.order)
      [] ev.status = "cancelled" -> UnassignCall(ev.order)
      [] ev.status = "completed" -> CompleteCall(ev.order)

\* The rest of Processor.Handle, then session.MarkMessage (also after an error).
Handle(pt) ==
    /\ cpc[pt] = "handle"
    /\ LET ev == log[pt][pos[pt]] IN
         IF fetched[pt] # "error" /\ SameStatus(fetched[pt], ev.status)
           THEN Dispatch(ev)
           ELSE UNCHANGED coord
    /\ marked' = [marked EXCEPT ![pt] = pos[pt]]
    /\ pos' = [pos EXCEPT ![pt] = @ + 1]
    /\ handled' = handled \cup {<<pt, pos[pt]>>}
    /\ cpc' = [cpc EXCEPT ![pt] = "idle"]
    /\ fetched' = [fetched EXCEPT ![pt] = "none"]
    /\ UNCHANGED <<orderStatus, log, committed, polled, restarts, gwErrors, group>>

\* The offset manager commits a claim's marked offset in the background.
CommitOffsetsAhead(pt) ==
    /\ committed[pt] < pos[pt]
    /\ committed' = [committed EXCEPT ![pt] = pos[pt]]
    /\ UNCHANGED <<coord, orderStatus, log, pos, marked, cpc, fetched,
                   polled, restarts, gwErrors, handled, group>>
CommitOffsets(pt) ==
    /\ committed[pt] < marked[pt]
    /\ committed' = [committed EXCEPT ![pt] = marked[pt]]
    /\ UNCHANGED <<coord, orderStatus, log, pos, marked, cpc, fetched,
                   polled, restarts, gwErrors, handled, group>>

\* A crash and restart, or a rebalance: every claim ends, whatever its
\* goroutine was doing (a handler cut short has not committed its
\* transaction), and the new session resumes after the committed offsets;
\* marks not yet committed are lost.
RestartAfter(k) ==
    /\ restarts < MaxRestarts
    /\ pos' = [pt \in Partitions |-> k[pt] + 1]
    /\ marked' = k
    /\ cpc' = [pt \in Partitions |-> "idle"]
    /\ fetched' = [pt \in Partitions |-> "none"]
    /\ restarts' = restarts + 1
    /\ running' = ConsumerOn
    /\ UNCHANGED <<coord, orderStatus, log, committed, polled, gwErrors, handled, consumeErrors>>
RestartOneBack == RestartAfter([pt \in Partitions |-> committed[pt] - 1])
Restart == RestartAfter(committed)

\* A rebalance ends the session once every claim has finished its message,
\* and the loop's next group.Consume returns an error (the group cannot be
\* rejoined): Consumer.Start returns it and nothing calls it again.  Only a
\* restart of the process (Restart) starts a consumer again.
ConsumeFails ==
    /\ running
    /\ consumeErrors < MaxConsumeErrors
    /\ \A pt \in Partitions : cpc[pt] = "idle"
    /\ running' = FALSE
    /\ consumeErrors' = consumeErrors + 1
    /\ UNCHANGED <<coord, orderStatus, log, consumer, polled, restarts, gwErrors, handled>>

(* ---------------- the order poller ---------------- *)

\* A poller tick fetches an order created after its cursor and calls Assign,
\* whatever the order's status.  Each order is fetched at most once here;
\* the cursor itself is the subject of Poller.
PollAssign(o) ==
    /\ Polling /\ orderStatus[o] # "none" /\ o \notin polled
    /\ polled' = polled \cup {o}
    /\ AssignCall(o)
    /\ UNCHANGED <<orderStatus, log, consumer, restarts, gwErrors, handled, group>>

\* The claim's goroutine runs while the Consume loop does; the group's
\* offset manager flushes marked offsets also after the loop has returned.
Claim(pt) ==
    \/ running /\ (Receive(pt) \/ FetchStatus(pt) \/ Handle(pt))
    \/ CommitOffsets(pt)

Next ==
    \/ \E o \in Orders : OrderService(o) \/ PollAssign(o)
    \/ \E pt \in Partitions : Claim(pt)
    \/ Restart
    \/ ConsumeFails

Spec == Init /\ [][Next]_vars

\* Each claim's goroutine runs while it has messages, and the offset manager
\* flushes periodically (sarama's auto-commit interval).
FairSpec == Spec /\ \A pt \in Partitions : WF_vars(Claim(pt))

-----------------------------------------------------------------------------

TypeOK ==
    /\ orderStatus \in [Orders -> {"none"} \cup Lifecycle]
    /\ \A pt \in Partitions :
         /\ log[pt] \in Seq(Event) /\ Len(log[pt]) =< MaxLog
         /\ pos[pt] \in 1..MaxLog + 1
         /\ marked[pt] \in 0..MaxLog /\ committed[pt] \in 0..MaxLog
    /\ cpc \in [Partitions -> {"idle", "fetch", "handle"}]
    /\ fetched \in [Partitions -> {"none", "error"} \cup Lifecycle]
    /\ running \in BOOLEAN /\ consumeErrors \in 0..MaxConsumeErrors
    /\ polled \subseteq Orders /\ handled \subseteq Partitions \X (1..MaxLog)

\* Delivery rows per order.
RowsPerOrder(o) == Cardinality(D!RowsOf(o))

\* Spec section 3 (at most one delivery row per order id) and the promise that
\* the consumer is idempotent against replays: whatever the consumer replays
\* and whatever the poller fetches, no order gets two delivery rows.
OneDeliveryPerOrder == \A o \in Orders : RowsPerOrder(o) =< 1

\* At-least-once delivery (consumer.go marks after Handle returns): every
\* offset the group has committed, and so will never be read again, had its
\* handler run.
AtLeastOnce == \A pt \in Partitions : \A i \in 1..committed[pt] : <<pt, i>> \in handled

\* Every event the order service publishes is eventually handled by the
\* consumer, across restarts and rebalances.
EventuallyHandled ==
    \A pt \in Partitions, i \in 1..MaxLog : (Len(log[pt]) >= i) ~> (<<pt, i>> \in handled)

\* Every claim has handled its whole partition.
CaughtUp == \A pt \in Partitions : cpc[pt] = "idle" /\ pos[pt] > Len(log[pt])

\* Reconciliation (spec section 4.8): once the consumer has caught up, no
\* cancelled order still holds a delivery row, however the created event,
\* the cancel and the status re-check interleaved and whatever was replayed.
CancelledReleased ==
    CaughtUp => \A o \in Orders : orderStatus[o] = "cancelled" => D!RowsOf(o) = {}

=============================================================================
