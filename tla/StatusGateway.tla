---------------------------- MODULE StatusGateway ----------------------------
(***************************************************************************)
(* One call of OrderGateway.GetOrderStatus (gateway/orderhttp/order.go):   *)
(* the attempt loop, the response of each attempt, the retry decision,     *)
(* the backoff wait, and the caller's context, which may be cancelled at   *)
(* any moment.  A response is what fetchStatus returns: a code (0 for a    *)
(* transport error) and the kind of error, if any.  The body, the URL and  *)
(* the logging are left out.                                               *)
(***************************************************************************)
EXTENDS Naturals, Sequences

CONSTANTS
    MaxAttempts, \* g.maxAttempts (3)
    BaseDelay,   \* g.baseDelay (150 ms), in units of 50 ms
    Codes        \* HTTP status codes the order service may answer

ASSUME MaxAttempts \in Nat \ {0} /\ BaseDelay \in Nat \ {0} /\ 200 \in Codes

VARIABLES
    pc,       \* "start", "check" (loop head), "fetch" (request in flight), "wait", "done"
    blankId,  \* the order id is empty
    attempt,  \* the loop counter
    ctxDone,  \* ctx.Err() != nil
    result,   \* what the call returned: "status", "error" or "cancelled" (ctx.Err as cause)
    sent,     \* ghost: the responses of the attempts made, in order
    slept     \* ghost: the total backoff waited

vars == <<pc, blankId, attempt, ctxDone, result, sent, slept>>

(* fetchStatus: a 200 with a decodable, non-blank status; a 200 whose body *)
(* does not decode or has a blank status; any other code; a transport      *)
(* error, whose net.Error may report a timeout.                            *)
Response ==
    {[code |-> 200, err |-> e, timeout |-> FALSE] : e \in {"none", "decode", "empty"}}
    \cup {[code |-> c, err |-> "status", timeout |-> FALSE] : c \in Codes \ {200}}
    \cup {[code |-> 0, err |-> "net", timeout |-> t] : t \in BOOLEAN}

\* A request made with a cancelled context: url.Error over context.Canceled,
\* whose Timeout() is false.
CancelledResponse == [code |-> 0, err |-> "cancel", timeout |-> FALSE]

ShouldRetryClientErrors(r) ==
    IF r.code # 0 THEN r.code >= 400
                  ELSE r.err \in {"net", "cancel"} /\ r.timeout

\* shouldRetry, shouldRetryStatus, shouldRetryError.
ShouldRetry(r) ==
    IF r.code # 0 THEN r.code \in {429, 408} \/ r.code >= 500
                  ELSE r.err \in {"net", "cancel"} /\ r.timeout

\* The backoff before attempt a + 1: baseDelay * (1 << (a - 1)).
Delay(a) == BaseDelay * 2^(a - 1)

InitAttemptZero ==
    /\ pc = "start" /\ blankId \in BOOLEAN /\ attempt = 0 /\ ctxDone = FALSE
    /\ result = "none" /\ sent = <<>> /\ slept = 0

\* NewOrderGateway, and a call of GetOrderStatus with some order id.
Init ==
    /\ pc = "start"
    /\ blankId \in BOOLEAN
    /\ attempt = 1
    /\ ctxDone = FALSE
    /\ result = "none"
    /\ sent = <<>>
    /\ slept = 0

\* An empty order id fails before any request.
Start ==
    /\ pc = "start"
    /\ pc' = IF blankId THEN "done" ELSE "check"
    /\ result' = IF blankId THEN "error" ELSE result
    /\ UNCHANGED <<blankId, attempt, ctxDone, sent, slept>>

\* The loop head: a cancelled context returns ctx.Err().
Check ==
    /\ pc = "check"
    /\ pc' = IF ctxDone THEN "done" ELSE "fetch"
    /\ result' = IF ctxDone THEN "cancelled" ELSE result
    /\ UNCHANGED <<blankId, attempt, ctxDone, sent, slept>>

\* fetchStatus returns r.  Success returns the status; an error that is not
\* retryable, or the last attempt's, returns the error wrapped (so a
\* cancellation keeps its cause); otherwise the loop goes on to the wait.
Fetch(r) ==
    /\ pc = "fetch"
    /\ ctxDone = (r = CancelledResponse)
    /\ sent' = Append(sent, r)
    /\ \/ /\ r.err = "none"
          /\ pc' = "done" /\ result' = "status"
       \/ /\ r.err # "none"
          /\ ~ShouldRetry(r) \/ attempt = MaxAttempts
          /\ pc' = "done"
          /\ result' = IF r.err = "cancel" THEN "cancelled" ELSE "error"
       \/ /\ r.err # "none"
          /\ ShouldRetry(r) /\ attempt # MaxAttempts
          /\ pc' = "wait" /\ UNCHANGED result
    /\ UNCHANGED <<blankId, attempt, ctxDone, slept>>

\* waitWithContext(ctx, delay): the timer fires and the next attempt starts,
\* or the context is done first and its error is returned.
Wait ==
    /\ pc = "wait"
    /\ \/ /\ attempt' = attempt + 1
          /\ slept' = slept + Delay(attempt)
          /\ pc' = "check"
          /\ UNCHANGED result
       \/ /\ ctxDone
          /\ pc' = "done" /\ result' = "cancelled"
          /\ UNCHANGED <<attempt, slept>>
    /\ UNCHANGED <<blankId, ctxDone, sent>>

\* The caller's context is cancelled (a rebalance ends the session).
Cancel ==
    /\ ~ctxDone /\ pc # "done"
    /\ ctxDone' = TRUE
    /\ UNCHANGED <<pc, blankId, attempt, result, sent, slept>>

Next ==
    \/ Start \/ Check \/ Wait \/ Cancel
    \/ \E r \in Response \cup {CancelledResponse} : Fetch(r)

Spec == Init /\ [][Next]_vars

-----------------------------------------------------------------------------

TypeOK ==
    /\ pc \in {"start", "check", "fetch", "wait", "done"}
    /\ attempt \in 1..MaxAttempts
    /\ result \in {"none", "status", "error", "cancelled"}
    /\ sent \in Seq(Response \cup {CancelledResponse})

(* The retry policy of spec section 4.9, written from the spec: codes 408, *)
(* 429 and 500-599 and transport timeouts are retryable; at most           *)
(* MaxAttempts attempts; the wait before attempt n + 1 is                  *)
(* BaseDelay * 2^(n-1).                                                    *)
Retryable(r) == r.code \in {408, 429} \cup 500..599 \/ (r.code = 0 /\ r.timeout)
Last(s) == s[Len(s)]

\* Spec section 4.9 and scenario S6: every call follows the retry policy.
\* It makes at most MaxAttempts attempts and retries only after a retryable
\* response.
\* A call that gives up with an error has met a response that may not be
\* retried or has used its last attempt, and one that returns a status got
\* one from its last attempt.  A cancelled call saw its context cancelled.
\* The waits before attempt n add up to BaseDelay * (2^(n-1) - 1).
FollowsRetryPolicy ==
    /\ Len(sent) =< MaxAttempts
    /\ \A i \in 1..Len(sent) - 1 : Retryable(sent[i])
    /\ Len(sent) \in {attempt - 1, attempt}
    /\ slept = BaseDelay * (2^(attempt - 1) - 1)
    /\ pc = "done" /\ result = "error" /\ ~blankId =>
          ~Retryable(Last(sent)) \/ Len(sent) = MaxAttempts
    /\ pc = "done" /\ result = "status" => Last(sent).err = "none"
    /\ result = "cancelled" => ctxDone

=============================================================================
