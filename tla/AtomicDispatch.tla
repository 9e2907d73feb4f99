--------------------------- MODULE AtomicDispatch ---------------------------
(***************************************************************************)
(* What the assignment coordinator promises (spec section 5: Assign,       *)
(* Unassign and Complete are linearizable per courier and per order): each *)
(* operation of usecase/delivery takes effect in one atomic step on the    *)
(* committed couriers and delivery tables.  The selector's order by load   *)
(* is advisory here (SKIP LOCKED may pass over a locked courier), so an    *)
(* atomic Assign may take any available courier.                           *)
(***************************************************************************)
EXTENDS Naturals

CONSTANTS
    Couriers, Orders, MaxRows,
    Hired,        \* couriers created while the service runs; the others exist from the start
    AdminStatuses \* the statuses a PUT /couriers request may write

VARIABLES status, count, rows

avars == <<status, count, rows>>

Ids == 1..MaxRows
UsedIds == {r.id : r \in rows}
RowsOf(o) == {r \in rows : r.order = o}

Init ==
    /\ status = [c \in Couriers |-> IF c \in Hired THEN "absent" ELSE "available"]
    /\ count = [c \in Couriers |-> 0]
    /\ rows = {}

\* Assign: an available courier becomes busy, its counter grows and the
\* order gets a delivery row, all at once.
Assign(o) ==
    \E c \in Couriers, i \in Ids \ UsedIds :
        /\ status[c] = "available"
        /\ rows' = rows \cup {[id |-> i, order |-> o, courier |-> c, expired |-> FALSE]}
        /\ status' = [status EXCEPT ![c] = "busy"]
        /\ count' = [count EXCEPT ![c] = @ + 1]

\* Unassign: every row of the order goes; the courier of one becomes available.
Unassign(o) ==
    \E r \in RowsOf(o) :
        /\ rows' = rows \ RowsOf(o)
        /\ status' = [status EXCEPT ![r.courier] = "available"]
        /\ UNCHANGED count

\* Complete: the courier of a row of the order becomes available.
Complete(o) ==
    \E r \in RowsOf(o) :
        /\ status' = [status EXCEPT ![r.courier] = "available"]
        /\ UNCHANGED <<count, rows>>

\* One sweep: busy couriers with an expired delivery and none unexpired
\* become available.  The statement reads NOW() once, so a courier whose
\* last deadline passes while it runs may be left to the next sweep.
Sweep ==
    LET eligible == {c \in Couriers :
                        /\ status[c] = "busy"
                        /\ \E r \in rows : r.courier = c /\ r.expired
                        /\ ~\E r \in rows : r.courier = c /\ ~r.expired}
    IN \E flip \in SUBSET eligible :
          /\ flip # {}
          /\ status' = [c \in Couriers |-> IF c \in flip THEN "available" ELSE status[c]]
          /\ UNCHANGED <<count, rows>>

Expire(r) ==
    /\ r \in rows /\ ~r.expired
    /\ rows' = (rows \ {r}) \cup {[r EXCEPT !.expired = TRUE]}
    /\ UNCHANGED <<status, count>>

\* A courier is created (POST /couriers) with the status of the request.
Hire(c, st) ==
    /\ status[c] = "absent"
    /\ status' = [status EXCEPT ![c] = st]
    /\ UNCHANGED <<count, rows>>

\* An administrator writes a courier's status (PUT /couriers).
SetStatus(c, st) ==
    /\ status[c] # "absent"
    /\ status' = [status EXCEPT ![c] = st]
    /\ UNCHANGED <<count, rows>>

Next ==
    \/ \E c \in Couriers, st \in AdminStatuses : SetStatus(c, st)
    \/ \E c \in Couriers, st \in {"available"} \cup AdminStatuses : Hire(c, st)
    \/ \E o \in Orders : Assign(o) \/ Unassign(o) \/ Complete(o)
    \/ Sweep
    \/ \E r \in rows : Expire(r)

Spec == Init /\ [][Next]_avars

=============================================================================
