------------------------------ MODULE Dispatch ------------------------------
(***************************************************************************)
(* The assignment coordinator (usecase/delivery) over the courier and      *)
(* delivery stores (repository/courier, repository/delivery), each         *)
(* operation inside one transaction of the transaction scope               *)
(* (infra/postgres/tx.go), against PostgreSQL at its default READ          *)
(* COMMITTED isolation.                                                    *)
(*                                                                         *)
(* A process is one goroutine that calls the coordinator: an HTTP handler, *)
(* an event-consumer worker or the order poller.  Each SQL statement is    *)
(* one step.  Writes of an open transaction are buffered in the process    *)
(* (ins, del, upd) and become visible at commit; a courier row written or  *)
(* selected FOR UPDATE stays locked by the writer until commit or          *)
(* rollback; a delivery row being deleted is locked by the deleter.        *)
(* The expiry sweeper's UPDATE is two steps: its snapshot, then the       *)
(* locked re-check and write of the candidates.                           *)
(* The passing of a delivery deadline is an action of the environment.    *)
(***************************************************************************)
EXTENDS Naturals, FiniteSets, Config

CONSTANTS
    Couriers,   \* courier ids (integers: the selector orders by id)
    Orders,     \* order ids
    Procs,      \* goroutines calling the coordinator concurrently
    MaxRows,    \* bound on the delivery id sequence
    AssignOnce, \* TRUE: the drivers call Assign at most once per order
    AdminStatuses, \* statuses a PUT /couriers request may carry
    Hired,      \* couriers created by POST /couriers while the service runs
    DeliveryEnv, \* the raw DELIVERY_* environment variables (see Config)
    TransportOf, \* couriers.transport_type of each courier
    None        \* no lock holder / no pending write

ASSUME Couriers \subseteq Nat /\ MaxRows \in Nat /\ None \notin Procs
ASSUME AssignOnce \in BOOLEAN

VARIABLES
    status,     \* couriers.status, committed
    count,      \* couriers.assignments_count, committed
    rows,       \* delivery table, committed rows
    nextId,     \* next value of the delivery id sequence
    lock,       \* courier row lock holder
    pc,         \* statement a process executes next
    op,         \* coordinator operation a process runs
    ord,        \* its order id argument
    cid,        \* courier id read or selected by the transaction
    ins,        \* rows inserted by the open transaction
    del,        \* ids of rows deleted (and locked) by the open transaction
    upd,        \* courier update of the open transaction
    history,    \* ghost: every delivery row ever committed
    finished,   \* ghost: orders whose Complete has committed
    sweep       \* the candidates of the sweeper's running UPDATE, or None

store == <<status, count, rows, nextId, lock>>
txn   == <<pc, op, ord, cid, ins, del, upd>>
ghost == <<history, finished>>
aux   == <<ghost, sweep>>
vars  == <<store, txn, aux>>

Statuses == {"available", "busy"} \cup AdminStatuses
Ids == 1..MaxRows
Row == [id : Ids, order : Orders, courier : Couriers, expired : BOOLEAN]

\* The delivery settings getDeliveryConfig reads at start-up.
Delivery == DeliveryConfig(DeliveryEnv)

-----------------------------------------------------------------------------
(* Initial state: the couriers not in Hired exist and are available; the  *)
(* others have no row yet ("absent").  No deliveries, no transaction.     *)
Init ==
    /\ status = [c \in Couriers |-> IF c \in Hired THEN "absent" ELSE "available"]
    /\ count = [c \in Couriers |-> 0]
    /\ rows = {}
    /\ nextId = 1
    /\ lock = [c \in Couriers |-> None]
    /\ pc = [p \in Procs |-> "idle"]
    /\ op = [p \in Procs |-> "none"]
    /\ ord = [p \in Procs |-> None]
    /\ cid = [p \in Procs |-> None]
    /\ ins = [p \in Procs |-> {}]
    /\ del = [p \in Procs |-> {}]
    /\ upd = [p \in Procs |-> None]
    /\ history = {}
    /\ finished = {}
    /\ sweep = None

-----------------------------------------------------------------------------
(* Helpers of the stores.                                                  *)

\* ORDER BY assignments_count ASC, id ASC
Before(c, d) == count[c] < count[d] \/ (count[c] = count[d] /\ c =< d)

\* Rows of an order visible to a statement: the committed ones.
RowsOf(o) == {r \in rows : r.order = o}

\* Delivery rows locked by the open DELETE of another transaction.
LockedRows(p) == UNION {del[q] : q \in Procs \ {p}}

\* Orders Assign has been called for: committed or in flight.
AssignedOrders == {h.order : h \in history} \cup {ord[q] : q \in {q \in Procs : op[q] = "assign"}}

\* Assign transactions that still have to insert their row.
PendingInserts == Cardinality({q \in Procs : pc[q] = "insert"})

\* GetAvailableLeastDelivered: the first available courier in
\* (assignments_count, id) order among those not locked by another
\* transaction (FOR UPDATE SKIP LOCKED), or None (ErrCourierNotFound).
\* Mutant: a plain SELECT without FOR UPDATE SKIP LOCKED.
EligibleNoLock == {c \in Couriers : status[c] = "available"}
Eligible == {c \in Couriers : status[c] = "available" /\ lock[c] = None}
GetAvailableLeastDelivered ==
    IF Eligible = {} THEN None
    ELSE CHOOSE c \in Eligible : \A d \in Eligible : Before(c, d)

\* Mutant: the transaction ends without releasing its row locks.
ReleaseKeepLocks(p) ==
    /\ UNCHANGED lock
    /\ op' = [op EXCEPT ![p] = "none"]
    /\ ord' = [ord EXCEPT ![p] = None]
    /\ cid' = [cid EXCEPT ![p] = None]
    /\ ins' = [ins EXCEPT ![p] = {}]
    /\ del' = [del EXCEPT ![p] = {}]
    /\ upd' = [upd EXCEPT ![p] = None]
    /\ pc' = [pc EXCEPT ![p] = "idle"]

\* A transaction ends: its locks are released and its buffers dropped.
Release(p) ==
    /\ lock' = [c \in Couriers |-> IF lock[c] = p THEN None ELSE lock[c]]
    /\ op' = [op EXCEPT ![p] = "none"]
    /\ ord' = [ord EXCEPT ![p] = None]
    /\ cid' = [cid EXCEPT ![p] = None]
    /\ ins' = [ins EXCEPT ![p] = {}]
    /\ del' = [del EXCEPT ![p] = {}]
    /\ upd' = [upd EXCEPT ![p] = None]
    /\ pc' = [pc EXCEPT ![p] = "idle"]

-----------------------------------------------------------------------------
(* Assign(order_id): WithTx { GetAvailableLeastDelivered; Create delivery; *)
(* MarkAssigned }.  Beginning the transaction and running the selector are *)
(* one step: BEGIN has no effect another transaction can observe.  When    *)
(* the selector finds no courier (ErrCourierNotFound) the transaction      *)
(* rolls back having changed nothing: a stuttering step, left out.         *)
AssignSelect(p, o) ==
    /\ pc[p] = "idle"
    /\ nextId + PendingInserts =< MaxRows
    /\ AssignOnce => o \notin AssignedOrders
    /\ LET c == GetAvailableLeastDelivered IN
       /\ c # None
       /\ lock' = [lock EXCEPT ![c] = p]
       /\ cid' = [cid EXCEPT ![p] = c]
    /\ op' = [op EXCEPT ![p] = "assign"]
    /\ ord' = [ord EXCEPT ![p] = o]
    /\ pc' = [pc EXCEPT ![p] = "insert"]
    /\ UNCHANGED <<status, count, rows, nextId, ins, del, upd, aux>>

\* deadline = ForTransport(courier.TransportType).Deadline(uc.now()).  A
\* deadline not after that moment (a zero or negative offset) has passed
\* for every sweeper that can see the committed row: its NOW() is later.
BornExpired(c) == Deadline(Delivery, TransportOf[c], 0) =< 0

\* deliveryRepo.Create: INSERT INTO delivery, the id drawn from the
\* sequence (a sequence value is consumed even if the tx rolls back).
AssignInsert(p) ==
    /\ pc[p] = "insert"
    /\ ins' = [ins EXCEPT ![p] = {[id |-> nextId, order |-> ord[p],
                                   courier |-> cid[p], expired |-> BornExpired(cid[p])]}]
    /\ nextId' = nextId + 1
    /\ pc' = [pc EXCEPT ![p] = "mark"]
    /\ UNCHANGED <<status, count, rows, lock, op, ord, cid, del, upd, aux>>

\* courierRepo.MarkAssigned: status = busy, assignments_count + 1, on the
\* row the transaction already holds locked.
MarkAssigned(p) ==
    /\ pc[p] = "mark"
    /\ upd' = [upd EXCEPT ![p] = [st |-> "busy", inc |-> 1]]
    /\ pc' = [pc EXCEPT ![p] = "commit"]
    /\ UNCHANGED <<store, op, ord, cid, ins, del, aux>>

-----------------------------------------------------------------------------
(* Unassign(orderId): WithTx { Delete delivery; UpdateStatus available }.  *)
(* DELETE ... WHERE order_id = $1 RETURNING courier_id removes every row   *)
(* of the order, waiting for rows another DELETE holds; QueryRow scans the *)
(* first returned courier_id only.  No row (ErrDeliveryNotFound) changes   *)
(* nothing.                                                                *)
UnassignDelete(p, o) ==
    /\ pc[p] = "idle"
    /\ \A r \in RowsOf(o) : r.id \notin LockedRows(p)
    /\ \E r \in RowsOf(o) : cid' = [cid EXCEPT ![p] = r.courier]
    /\ del' = [del EXCEPT ![p] = {s.id : s \in RowsOf(o)}]
    /\ op' = [op EXCEPT ![p] = "unassign"]
    /\ ord' = [ord EXCEPT ![p] = o]
    /\ pc' = [pc EXCEPT ![p] = "update"]
    /\ UNCHANGED <<store, ins, upd, aux>>

(* Complete(orderId): WithTx { GetCourierID; UpdateStatus available }.     *)
(* A plain SELECT: it takes no lock and leaves the row in place.           *)
CompleteGet(p, o) ==
    /\ pc[p] = "idle"
    /\ \E r \in RowsOf(o) : cid' = [cid EXCEPT ![p] = r.courier]
    /\ op' = [op EXCEPT ![p] = "complete"]
    /\ ord' = [ord EXCEPT ![p] = o]
    /\ pc' = [pc EXCEPT ![p] = "update"]
    /\ UNCHANGED <<store, ins, del, upd, aux>>

\* Mutant: the status written is "active", the value usecase/courier's
\* AssignCourierToOrder treats as free, instead of "available".
UpdateStatusActive(p) ==
    /\ pc[p] = "update"
    /\ lock[cid[p]] \in {None, p}
    /\ lock' = [lock EXCEPT ![cid[p]] = p]
    /\ upd' = [upd EXCEPT ![p] = [st |-> "active", inc |-> 0]]
    /\ pc' = [pc EXCEPT ![p] = "commit"]
    /\ UNCHANGED <<status, count, rows, nextId, op, ord, cid, ins, del, aux>>

\* courierRepo.UpdateStatus(available, cid): waits for the courier's row
\* lock, then holds it until the end of the transaction.
UpdateStatus(p) ==
    /\ pc[p] = "update"
    /\ lock[cid[p]] \in {None, p}
    /\ lock' = [lock EXCEPT ![cid[p]] = p]
    /\ upd' = [upd EXCEPT ![p] = [st |-> "available", inc |-> 0]]
    /\ pc' = [pc EXCEPT ![p] = "commit"]
    /\ UNCHANGED <<status, count, rows, nextId, op, ord, cid, ins, del, aux>>

-----------------------------------------------------------------------------
(* The end of WithTx.                                                      *)

\* tx.Commit: the buffered writes become visible together.
Commit(p) ==
    /\ pc[p] = "commit"
    /\ rows' = {r \in rows : r.id \notin del[p]} \cup ins[p]
    /\ status' = [status EXCEPT ![cid[p]] = upd[p].st]
    /\ count' = [count EXCEPT ![cid[p]] = @ + upd[p].inc]
    /\ history' = history \cup {[id |-> r.id, order |-> r.order, courier |-> r.courier] : r \in ins[p]}
    /\ finished' = IF op[p] = "complete" THEN finished \cup {ord[p]} ELSE finished
    /\ Release(p)
    /\ UNCHANGED <<nextId, sweep>>

\* Mutant: the statements ran outside the transaction (the store found no
\* transaction in the context and used the pool), so on failure the
\* delivery row already inserted stays, and the rows already deleted are gone.
RollbackAutocommit(p) ==
    /\ pc[p] \in {"insert", "mark", "update", "commit"}
    /\ rows' = {r \in rows : r.id \notin del[p]} \cup ins[p]
    /\ history' = history \cup {[id |-> r.id, order |-> r.order, courier |-> r.courier] : r \in ins[p]}
    /\ Release(p)
    /\ UNCHANGED <<status, count, nextId, finished, sweep>>

\* A statement or the COMMIT fails (database error, cancelled context):
\* the closure returns an error and the transaction rolls back.
Rollback(p) ==
    /\ pc[p] \in {"insert", "mark", "update", "commit"}
    /\ Release(p)
    /\ UNCHANGED <<status, count, rows, nextId, aux>>

-----------------------------------------------------------------------------
(* Expiry sweeper: ProcessExpiredDeliveries runs ReleaseExpiredCouriers,   *)
(* one UPDATE in a transaction of its own, flipping busy couriers to       *)
(* available when they have a delivery past its deadline and none before  *)
(* it.  At READ COMMITTED the statement reads one snapshot, taken when it  *)
(* starts: the CTE `expired` and the NOT EXISTS are evaluated on it.  It   *)
(* then visits the candidates one row at a time: it waits in the row's     *)
(* lock queue, re-checks status = busy on the newest version              *)
(* (EvalPlanQual, the subqueries still on the snapshot), and keeps the    *)
(* lock of a row it updates until it commits.  A tick that finds nobody   *)
(* changes nothing and is left out.                                       *)
Sweeper == "sweeper"

Expired(c) ==
    /\ status[c] = "busy"
    /\ \E r \in rows : r.courier = c /\ r.expired
    /\ ~\E r \in rows : r.courier = c /\ ~r.expired

\* The statement starts: its snapshot selects the candidate couriers.
SweepStart ==
    /\ sweep = None
    /\ \E c \in Couriers : Expired(c)
    /\ sweep' = {c \in Couriers : Expired(c)}
    /\ UNCHANGED <<store, txn, ghost>>

\* The UPDATE reaches candidate c once c's row lock is free.  If c is still
\* busy on its newest version the row is updated and stays locked;
\* otherwise it is dropped from the candidates.
SweepLock(c) ==
    /\ sweep # None
    /\ c \in sweep
    /\ lock[c] = None
    /\ \/ /\ status[c] = "busy"
          /\ lock' = [lock EXCEPT ![c] = Sweeper]
          /\ UNCHANGED sweep
       \/ /\ status[c] # "busy"
          /\ sweep' = sweep \ {c}
          /\ UNCHANGED lock
    /\ UNCHANGED <<status, count, rows, nextId, txn, ghost>>

\* Mutant: the statement's candidate set is not cleared when it commits,
\* so every later tick re-runs the first tick's snapshot.
ReleaseExpiredCouriersKeepSnapshot ==
    /\ sweep # None
    /\ \A c \in sweep : lock[c] = Sweeper
    /\ status' = [c \in Couriers |-> IF c \in sweep THEN "available" ELSE status[c]]
    /\ lock' = [c \in Couriers |-> IF lock[c] = Sweeper THEN None ELSE lock[c]]
    /\ UNCHANGED <<count, rows, nextId, txn, ghost, sweep>>

\* Every remaining candidate is updated and locked: the statement commits,
\* the updated couriers become available and their locks are released.
ReleaseExpiredCouriers ==
    /\ sweep # None
    /\ \A c \in sweep : lock[c] = Sweeper
    /\ status' = [c \in Couriers |-> IF c \in sweep THEN "available" ELSE status[c]]
    /\ lock' = [c \in Couriers |-> IF lock[c] = Sweeper THEN None ELSE lock[c]]
    /\ sweep' = None
    /\ UNCHANGED <<count, rows, nextId, txn, ghost>>

\* Time passes a committed delivery's deadline.
DeadlinePasses(r) ==
    /\ r \in rows
    /\ ~r.expired
    /\ rows' = (rows \ {r}) \cup {[r EXCEPT !.expired = TRUE]}
    /\ UNCHANGED <<status, count, nextId, lock, txn, aux>>

-----------------------------------------------------------------------------
(* POST /couriers: CourierHandler.Create, CourierUsecase.Create and       *)
(* CourierRepository.Create.  An autocommitted INSERT with the status of  *)
(* the request, assignments_count 0 and an id from the couriers sequence. *)
(* Requests that fail validation or repeat a phone change nothing (a      *)
(* failed INSERT may still consume a sequence value) and are left out.    *)
CreateStatuses == {"available"} \cup AdminStatuses

\* The id RETURNING gives: above every id the sequence has handed out.
NewCourierId(c) == \A d \in Couriers : status[d] # "absent" => d < c

\* A courier the UPDATE ... WHERE id = $5 finds (otherwise ErrCourierNotFound).
Exists(c) == status[c] # "absent"

CreateCourier(c, st) ==
    /\ ~Exists(c)
    /\ NewCourierId(c)
    /\ status' = [status EXCEPT ![c] = st]
    /\ UNCHANGED <<count, rows, nextId, lock, txn, aux>>

(* PUT /couriers: CourierHandler.Update, CourierUsecase.Update and         *)
(* CourierRepository.Update.  The status of the request is written as it   *)
(* is, outside any transaction: the UPDATE waits for the courier's row     *)
(* lock and commits at once.  Requests that fail validation, name a        *)
(* missing id or a taken phone change nothing and are left out, as are     *)
(* the other columns the statement writes.                                 *)
UpdateCourier(c, st) ==
    /\ Exists(c)
    /\ lock[c] = None
    /\ status[c] # st
    /\ status' = [status EXCEPT ![c] = st]
    /\ UNCHANGED <<count, rows, nextId, lock, txn, aux>>

-----------------------------------------------------------------------------
Step(p) ==
    \/ AssignInsert(p)
    \/ MarkAssigned(p)
    \/ UpdateStatus(p)
    \/ Commit(p)
    \/ Rollback(p)

Call(p) ==
    \E o \in Orders :
        \/ AssignSelect(p, o)
        \/ UnassignDelete(p, o)
        \/ CompleteGet(p, o)

Next ==
    \/ \E p \in Procs : Call(p) \/ Step(p)
    \/ SweepStart \/ ReleaseExpiredCouriers
    \/ \E c \in Couriers : SweepLock(c)
    \/ \E r \in rows : DeadlinePasses(r)
    \/ \E c \in Couriers, st \in AdminStatuses : UpdateCourier(c, st)
    \/ \E c \in Couriers, st \in CreateStatuses : CreateCourier(c, st)

\* A started statement is executed; a lock wait ends once the holder is
\* done (PostgreSQL queues lock waiters); deadlines pass and the sweeper
\* ticks.  Rollbacks and new calls are not forced.
Fairness ==
    /\ \A p \in Procs :
        /\ WF_vars(AssignInsert(p) \/ MarkAssigned(p) \/ Commit(p))
        /\ SF_vars(UpdateStatus(p))
    /\ WF_vars(SweepStart)
    /\ \A c \in Couriers : SF_vars(SweepLock(c))
    /\ WF_vars(ReleaseExpiredCouriers)
    /\ \A i \in Ids : WF_vars(\E r \in rows : r.id = i /\ DeadlinePasses(r))

Spec == Init /\ [][Next]_vars
FairSpec == Spec /\ Fairness

-----------------------------------------------------------------------------
(* Properties.                                                             *)

TypeOK ==
    /\ status \in [Couriers -> Statuses \cup {"absent"}]
    /\ count \in [Couriers -> 0..MaxRows]
    /\ rows \subseteq Row
    /\ nextId \in 1..(MaxRows + 1)
    /\ lock \in [Couriers -> Procs \cup {None, Sweeper}]
    /\ pc \in [Procs -> {"idle", "insert", "mark", "update", "commit"}]
    /\ op \in [Procs -> {"none", "assign", "unassign", "complete"}]
    /\ ord \in [Procs -> Orders \cup {None}]
    /\ cid \in [Procs -> Couriers \cup {None}]
    /\ upd \in [Procs -> {None} \cup [st : Statuses, inc : {0, 1}]]
    /\ sweep \in {None} \cup SUBSET Couriers

Termination ==
    \A p \in Procs : (pc[p] # "idle") ~> (pc[p] = "idle")

\* The DeliveryMonitor's ticks never stall: a busy courier whose rows have
\* all passed their deadline eventually stops being one, whether the
\* sweeper's UPDATE frees it or a coordinator call on its row lock gets
\* there first.  (That courier may still stay busy without rows: an
\* Unassign of the same order on another courier can delete its row, the
\* leak MCDispatch_busy_leak shows; the sweeper cannot see that courier.)
EventuallyReleased ==
    \A c \in Couriers : Expired(c) ~> ~Expired(c)

\* A live delivery is one whose deadline has not passed and whose order
\* has not been completed.  At most one live delivery per courier: the
\* "at most one active assignment per courier" goal of the coordinator.
Live(r) == ~r.expired /\ r.order \notin finished
NoDoubleBooking ==
    \A c \in Couriers : Cardinality({r \in rows : r.courier = c /\ Live(r)}) =< 1

\* A busy courier has a delivery row, so the sweeper can release it once
\* the deadline passes; a busy courier without one stays busy forever.
BusyHasDelivery ==
    \A c \in Couriers : status[c] = "busy" => \E r \in rows : r.courier = c

\* Spec section 4.2: the sweeper's query flips a busy courier to available
\* only when that courier has no remaining delivery whose deadline is in
\* the future, judged in one atomic query.  Every courier the sweeper's
\* UPDATE writes has no unexpired delivery row when the write commits.
SweepReleasesOnlyExpired ==
    [][ReleaseExpiredCouriers =>
         \A c \in Couriers :
            status'[c] # status[c] => ~\E r \in rows : r.courier = c /\ ~r.expired]_vars

\* Refinement: the committed tables of the interleaved transactions move
\* only as the atomic coordinator of AtomicDispatch allows, so that each
\* operation is linearizable at its commit (spec section 5).
Atomic == INSTANCE AtomicDispatch WITH status <- status, count <- count, rows <- rows
ImplementsAtomic == Atomic!Spec

=============================================================================
