----------------------------- MODULE BrokerAdapter ----------------------------
(***************************************************************************)
(* What the adapters of external brokers are made of                       *)
(* (broker_adapters/_shared): orders sent through the rate limiter to a    *)
(* broker that may fail, with the store that decides whether an order is   *)
(* sent again (idempotency.py), beside the supervisor of a feed.           *)
(*                                                                         *)
(* The broker is the one of mock_server.py; unlike it, it may also execute *)
(* a request whose answer is lost, which is what the store is there for,   *)
(* and its orders come to an end.  No adapter exists yet that puts the     *)
(* parts together: the client follows the docstring of                     *)
(* decide_before_resend, and queries and reuses say how careful it is.     *)
(***************************************************************************)
EXTENDS RateLimiter, StreamingSupervisor

CONSTANTS
  Intents,     \* the orders some strategy wants
  ParamsOf,    \* their parameters; two may want the same
  MaxSubmits   \* bound: submissions of one intent

ASSUME ClientAssumption == MaxSubmits \in Nat

VARIABLES
  queries,   \* the client asks for the order before it decides
  reuses,    \* the client sends an order again under its client_order_id
  request,   \* of an intent: [pc, kind, submits, id, attempt, status]
  byHash,    \* parameters -> client_order_id, as remembered
  orders     \* of the broker: client_order_id -> status

clientVars == <<queries, reuses, request, byHash, orders>>
vars == <<limiterVars, streamVars, clientVars>>

Init ==
  /\ LimiterInit /\ StreamInit
  /\ queries \in BOOLEAN /\ reuses \in BOOLEAN
  /\ request = [i \in Intents |-> [ pc |-> "idle", kind |-> "POST", submits |-> 0, id |-> 0,
                                    attempt |-> 0, status |-> "unasked" ]]
  /\ byHash = [p \in {} |-> 0]
  /\ orders = [o \in {} |-> ""]

\* Statuses of the broker; REJECTED and EXPIRED are as CANCELLED.
Alive == {"PENDING", "FILLED"}
Dead == {"CANCELLED"}

\* The client_order_id of an intent's current key
Id(i) == <<i, request[i].id>>

Set(i, r) == request' = [request EXCEPT ![i] = r]

\* The function f with the value v at x
Put(f, x, v) == [y \in DOMAIN f \cup {x} |-> IF y = x THEN v ELSE f[y]]

-----------------------------------------------------------------------------
\* build_key and execute of the order
Submit(i) ==
  LET r == request[i]
      id == IF reuses /\ r.submits > 0 THEN r.id ELSE r.submits + 1
      next == [ r EXCEPT !.kind = "POST", !.submits = r.submits + 1, !.id = id,
                         !.status = "unasked" ]
  IN /\ r.pc = "idle" /\ r.submits < MaxSubmits
     /\ IF Saturated(NewOrder)
        THEN Set(i, [next EXCEPT !.pc = "failed"]) /\ UNCHANGED limiterVars
        ELSE Set(i, [next EXCEPT !.pc = "waiting"]) /\ Enter(i)
     /\ UNCHANGED <<queries, reuses, byHash, orders>>

\* The status of an order in doubt
Query(i) ==
  /\ request[i].pc = "failed" /\ queries /\ request[i].status \in {"unasked", "uncertain"}
  /\ ~Saturated(UncertainOrderQuery)
  /\ Set(i, [request[i] EXCEPT !.pc = "waiting", !.kind = "GET", !.status = "unasked"])
  /\ Enter(i)
  /\ UNCHANGED <<queries, reuses, byHash, orders>>

Proceed(i) ==
  /\ request[i].pc = "waiting"
  /\ Acquire(i)
  /\ Set(i, [request[i] EXCEPT !.pc = "calling"])
  /\ UNCHANGED <<queries, reuses, byHash, orders>>

\* POST /orders of an order the broker has already answers with that order.
Created(id) == IF id \in DOMAIN orders THEN orders ELSE Put(orders, id, "PENDING")

\* A request ends, with or without an error.
End(i, r) == Set(i, [r EXCEPT !.attempt = 0]) /\ Leave /\ UNCHANGED <<tokens, elapsed, blocked, queue>>

\* remember
Accept(i) ==
  /\ request[i].kind = "POST"
  /\ orders' = Created(Id(i))
  /\ byHash' = Put(byHash, ParamsOf[i], Id(i))
  /\ End(i, [request[i] EXCEPT !.pc = "done"])

AnswerQuery(i) ==
  /\ request[i].kind = "GET"
  /\ End(i, [request[i] EXCEPT !.pc = "failed",
               !.status = IF Id(i) \in DOMAIN orders THEN orders[Id(i)] ELSE "none"])
  /\ UNCHANGED <<byHash, orders>>

\* What BrokerErrorMapper says can be tried again
Answers == {"401", "429", "500", "timeout", "malformed"}
Retryable(answer) == answer \in {"429", "500", "timeout"}

\* The call fails: before the broker took the order, or after it.
Fail(i, answer) ==
  LET r == request[i]
  IN /\ \/ UNCHANGED orders
        \/ r.kind = "POST" /\ answer \in {"timeout", "malformed"} /\ orders' = Created(Id(i))
     /\ IF MayRetry(Retryable(answer), r.attempt + 1)
        THEN /\ Set(i, [r EXCEPT !.attempt = r.attempt + 1])
             /\ IF answer = "429" THEN PreventiveBlock(MaxBlock) ELSE UNCHANGED blocked
             /\ UNCHANGED <<tokens, elapsed, queue, depth>>
        ELSE End(i, [r EXCEPT !.pc = "failed",
                       !.status = IF r.kind = "GET" THEN "uncertain" ELSE r.status])
     /\ UNCHANGED byHash

Call(i) ==
  /\ request[i].pc = "calling"
  /\ Accept(i) \/ AnswerQuery(i) \/ \E answer \in Answers : Fail(i, answer)
  /\ UNCHANGED <<queries, reuses>>

\* decide_before_resend
HasDuplicate(i) == ParamsOf[i] \in DOMAIN byHash
DecisionOnFilled(i, status) ==
  IF HasDuplicate(i) \/ status = "FILLED" THEN "DO_NOT_RESEND"
  ELSE IF status \in Dead \cup {"none", "PENDING"} THEN "MAY_RESEND" ELSE "QUERY_REQUIRED"
Decision(i, status) ==
  IF HasDuplicate(i) \/ status \in Alive THEN "DO_NOT_RESEND"
  ELSE IF status \in Dead \cup {"none"} THEN "MAY_RESEND" ELSE "QUERY_REQUIRED"

Decide(i) ==
  LET r == request[i]
      status == IF queries THEN r.status ELSE "none"
  IN /\ r.pc = "failed" /\ status # "unasked"
     /\ \/ Decision(i, status) = "DO_NOT_RESEND" /\ Set(i, [r EXCEPT !.pc = "done"])
        \/ Decision(i, status) = "MAY_RESEND" /\ Set(i, [r EXCEPT !.pc = "idle"])
     /\ UNCHANGED <<limiterVars, queries, reuses, byHash, orders>>

\* External: the broker fills, rejects or cancels an order.
Settle(o) ==
  /\ orders[o] = "PENDING"
  /\ \E status \in {"FILLED"} \cup Dead : orders' = [orders EXCEPT ![o] = status]
  /\ UNCHANGED <<limiterVars, queries, reuses, request, byHash>>

Client ==
  \/ \E i \in Intents : Submit(i) \/ Query(i) \/ Proceed(i) \/ Call(i) \/ Decide(i)
  \/ \E o \in DOMAIN orders : Settle(o)
  \/ Tick /\ UNCHANGED clientVars

Next ==
  \/ Client /\ UNCHANGED streamVars
  \/ StreamNext /\ UNCHANGED <<limiterVars, clientVars>>

\* The event loop runs what is ready, time passes, and a call ends (it has a timeout).
Fairness ==
  /\ WF_vars(Tick /\ UNCHANGED <<streamVars, clientVars>>)
  /\ \A i \in Intents : WF_vars((Proceed(i) \/ Call(i)) /\ UNCHANGED streamVars)

Spec == Init /\ [][Next]_vars /\ Fairness

-----------------------------------------------------------------------------
\* Parts are of their types, and _queue_depth counts the requests under way.
TypeOK ==
  /\ LimiterTypeOK /\ StreamTypeOK
  /\ \A i \in Intents :
       /\ request[i].pc \in {"idle", "waiting", "calling", "failed", "done"}
       /\ request[i].submits \in 0 .. MaxSubmits /\ request[i].attempt \in 0 .. MaxRetries
  /\ depth = Cardinality({i \in Intents : request[i].pc \in {"waiting", "calling"}})

\* Retries, lost answers and second submissions never leave two live orders of one intent
\* at the broker, if the client asks before it decides or keeps its client_order_id; and
\* no intent is dropped before an order with its parameters has reached the broker.
SentOnce ==
  \A i \in Intents :
    /\ queries \/ reuses => Cardinality({o \in DOMAIN orders : o[1] = i /\ orders[o] \in Alive}) =< 1
    /\ request[i].pc = "done" => \E o \in DOMAIN orders : ParamsOf[o[1]] = ParamsOf[i]

\* Every request that entered the limiter comes to an end, whatever waits before it, is
\* tried again or blocks the limiter.
EveryRequestEnds ==
  \A i \in Intents : (request[i].pc = "waiting") ~> (request[i].pc \notin {"waiting", "calling"})
=============================================================================
