------------------------- MODULE BrokerAdapterProofs -------------------------
(***************************************************************************)
(* Theorems about the orders sent through the broker adapters and about    *)
(* the feed beside them, for any number of intents, submissions, retries   *)
(* and messages, and any size of the limiter and of the window of ids.     *)
(***************************************************************************)
EXTENDS BrokerAdapter, FiniteSetTheorems, TLAPS

-----------------------------------------------------------------------------
\* The inductive invariant of the requests.

\* The request of an intent, and what the broker and byHash may hold.
Requests == [ pc : {"idle", "waiting", "calling", "failed", "done"}, kind : {"POST", "GET"},
              submits : Nat, id : Nat, attempt : Nat,
              status : {"unasked", "uncertain", "none"} \cup Alive \cup Dead ]

ClientTypeOK ==
  /\ queries \in BOOLEAN /\ reuses \in BOOLEAN
  /\ request \in [Intents -> Requests]
  /\ DOMAIN orders \subseteq Intents \X Nat
  /\ orders \in [DOMAIN orders -> Alive \cup Dead]

\* What is remembered was accepted by the broker.
Remembered ==
  \A p \in DOMAIN byHash : byHash[p] \in DOMAIN orders /\ ParamsOf[byHash[p][1]] = p

\* The client_order_ids of an intent are used one after the other.
IdsInOrder(i) ==
  /\ request[i].id =< request[i].submits
  /\ request[i].pc # "idle" => request[i].id > 0
  /\ reuses => request[i].id =< 1
  /\ reuses /\ request[i].submits > 0 => request[i].id = 1
  /\ \A o \in DOMAIN orders : o[1] = i => o[2] > 0 /\ o[2] =< request[i].id

\* A client that asks goes on only when all it has sent is dead.
Superseded(i) ==
  queries =>
    \A o \in DOMAIN orders :
      o[1] = i /\ (o[2] < request[i].id \/ request[i].pc = "idle") => orders[o] \in Dead

\* An answer of the broker is still true when it is used, and none is kept
\* while another request is under way.
AnswerHolds(i) ==
  /\ request[i].pc \in {"waiting", "calling"} => request[i].status = "unasked"
  /\ request[i].status \in Alive => Id(i) \in DOMAIN orders
  /\ request[i].pc = "failed" /\ request[i].status = "none" => Id(i) \notin DOMAIN orders
  /\ request[i].pc = "failed" /\ request[i].status \in Dead =>
       Id(i) \in DOMAIN orders /\ orders[Id(i)] \in Dead

Reached(i) ==
  request[i].pc = "done" => \E o \in DOMAIN orders : ParamsOf[o[1]] = ParamsOf[i]

ClientInv ==
  /\ ClientTypeOK /\ Remembered
  /\ \A i \in Intents : IdsInOrder(i) /\ Superseded(i) /\ AnswerHolds(i) /\ Reached(i)

\* The messages accepted so far, as the supervisor sees them.
StreamInv ==
  /\ accepted \subseteq 1 .. MaxSequence
  /\ IF accepted = {} THEN first = 0 /\ last = 0 ELSE first \in accepted /\ last \in accepted
  /\ GapsAreNoticed

-----------------------------------------------------------------------------
\* A second request for an order the broker has creates none.
LEMMA CreatedFacts ==
  ASSUME ClientTypeOK, NEW id \in Intents \X Nat
  PROVE  /\ DOMAIN Created(id) = DOMAIN orders \cup {id}
         /\ \A o \in DOMAIN orders : Created(id)[o] = orders[o]
         /\ Created(id) \in [DOMAIN Created(id) -> Alive \cup Dead]
<1>1. CASE id \in DOMAIN orders
  BY <1>1 DEF Created, ClientTypeOK
<1>2. CASE id \notin DOMAIN orders
  BY <1>2 DEF Created, Put, ClientTypeOK, Alive
<1>. QED
  BY <1>1, <1>2

\* The fields of a request.
LEMMA RequestFields ==
  ASSUME ClientTypeOK, NEW i \in Intents
  PROVE  /\ request[i] \in Requests
         /\ request[i].submits \in Nat /\ request[i].id \in Nat /\ request[i].attempt \in Nat
         /\ Id(i) \in Intents \X Nat
         /\ Id(i)[1] = i /\ Id(i)[2] = request[i].id
  BY DEF ClientTypeOK, Requests, Id

LEMMA SetFacts ==
  ASSUME ClientTypeOK, NEW i \in Intents, NEW r \in Requests, Set(i, r)
  PROVE  /\ request' \in [Intents -> Requests] /\ request'[i] = r
         /\ \A j \in Intents \ {i} : request'[j] = request[j]
  BY DEF ClientTypeOK, Set

\* What a step may do to the orders of the broker on behalf of i.
OrdersOf(i) ==
  \/ UNCHANGED orders
  \/ request[i].pc = "calling" /\ request[i].kind = "POST" /\ orders' = Created(Id(i))

LEMMA OrdersFacts ==
  ASSUME ClientTypeOK, NEW i \in Intents, OrdersOf(i)
  PROVE  /\ DOMAIN orders \subseteq DOMAIN orders'
         /\ DOMAIN orders' \subseteq DOMAIN orders \cup {Id(i)}
         /\ \A o \in DOMAIN orders : orders'[o] = orders[o]
         /\ DOMAIN orders' \subseteq Intents \X Nat
         /\ orders' \in [DOMAIN orders' -> Alive \cup Dead]
<1>1. CASE UNCHANGED orders
  BY <1>1 DEF ClientTypeOK
<1>2. CASE orders' = Created(Id(i))
  <2>1. Id(i) \in Intents \X Nat
    BY RequestFields
  <2>2. /\ DOMAIN orders' = DOMAIN orders \cup {Id(i)}
        /\ \A o \in DOMAIN orders : orders'[o] = orders[o]
        /\ orders' \in [DOMAIN orders' -> Alive \cup Dead]
    BY <1>2, <2>1, CreatedFacts
  <2>. QED
    BY <2>1, <2>2 DEF ClientTypeOK
<1>. QED
  BY <1>1, <1>2 DEF OrdersOf

\* A step of i says nothing of another intent.
LEMMA OthersKeep ==
  ASSUME ClientInv, NEW i \in Intents, NEW j \in Intents \ {i}, request'[j] = request[j],
         OrdersOf(i), UNCHANGED <<queries, reuses>>
  PROVE  IdsInOrder(j)' /\ Superseded(j)' /\ AnswerHolds(j)' /\ Reached(j)'
<1>1. ClientTypeOK /\ IdsInOrder(j) /\ Superseded(j) /\ AnswerHolds(j) /\ Reached(j)
  BY DEF ClientInv
<1>2. /\ DOMAIN orders \subseteq DOMAIN orders'
      /\ DOMAIN orders' \subseteq DOMAIN orders \cup {Id(i)}
      /\ \A o \in DOMAIN orders : orders'[o] = orders[o]
  BY <1>1, OrdersFacts
<1>3. Id(i)[1] # j /\ Id(i) # Id(j)
  BY <1>1, RequestFields DEF Id
<1>4. Id(j)' = Id(j)
  BY DEF Id
<1>5. IdsInOrder(j)'
  BY <1>1, <1>2, <1>3 DEF IdsInOrder
<1>6. Superseded(j)'
  BY <1>1, <1>2, <1>3 DEF Superseded
<1>7. AnswerHolds(j)'
  BY <1>1, <1>2, <1>3, <1>4 DEF AnswerHolds
<1>8. Reached(j)'
  BY <1>1, <1>2 DEF Reached
<1>. QED
  BY <1>5, <1>6, <1>7, <1>8

\* A step of i alone keeps the invariant when it keeps the part about i.
LEMMA StepOfOne ==
  ASSUME ClientInv, NEW i \in Intents, NEW r \in Requests, Set(i, r), OrdersOf(i),
         UNCHANGED <<queries, reuses>>, Remembered',
         IdsInOrder(i)' /\ Superseded(i)' /\ AnswerHolds(i)' /\ Reached(i)'
  PROVE  ClientInv'
<1>1. ClientTypeOK
  BY DEF ClientInv
<1>2. /\ request' \in [Intents -> Requests]
      /\ \A j \in Intents \ {i} : request'[j] = request[j]
  BY <1>1, SetFacts
<1>3. ClientTypeOK'
  BY <1>1, <1>2, OrdersFacts DEF ClientTypeOK
<1>4. \A j \in Intents \ {i} : IdsInOrder(j)' /\ Superseded(j)' /\ AnswerHolds(j)' /\ Reached(j)'
  BY <1>2, OthersKeep
<1>. QED
  BY <1>3, <1>4 DEF ClientInv

LEMMA RememberedKept ==
  ASSUME ClientInv, UNCHANGED byHash, NEW i \in Intents, OrdersOf(i)
  PROVE  Remembered'
  BY OrdersFacts DEF ClientInv, Remembered

-----------------------------------------------------------------------------
\* The steps of the requests.

LEMMA SubmitKeepsInv ==
  ASSUME ClientInv, NEW i \in Intents, Submit(i)
  PROVE  ClientInv'
<1>. DEFINE r == request[i]
            id == IF reuses /\ r.submits > 0 THEN r.id ELSE r.submits + 1
<1>t. ClientTypeOK /\ IdsInOrder(i) /\ Superseded(i) /\ AnswerHolds(i)
  BY DEF ClientInv
<1>1. /\ r \in Requests /\ r.submits \in Nat /\ r.id \in Nat /\ r.pc = "idle"
      /\ UNCHANGED <<queries, reuses, byHash, orders>>
  BY <1>t, RequestFields DEF Submit
<1>5. /\ id \in Nat /\ id > 0 /\ id =< r.submits + 1 /\ r.id =< id
      /\ reuses => id = 1
  BY <1>t, <1>1 DEF IdsInOrder
<1>2. PICK next : next = [ r EXCEPT !.kind = "POST", !.submits = r.submits + 1, !.id = id,
                                    !.status = "unasked" ]
  OBVIOUS
<1>3. next \in Requests /\ next.id = id /\ next.submits = r.submits + 1 /\ next.status = "unasked"
  <2>1. PICK k \in Nat, n \in Nat : k = id /\ n = r.submits + 1
    BY <1>1, <1>5
  <2>2. next = [r EXCEPT !.kind = "POST", !.submits = n, !.id = k, !.status = "unasked"]
    BY <1>2, <2>1
  <2>3. /\ next \in Requests /\ next.id = k /\ next.submits = n /\ next.status = "unasked"
    BY <1>1, <2>2 DEF Requests
  <2>. QED
    BY <2>1, <2>3
<1>4. PICK s \in Requests :
        /\ Set(i, s) /\ s.pc \in {"failed", "waiting"}
        /\ s.id = id /\ s.submits = r.submits + 1 /\ s.status = "unasked"
  <2>1. PICK pc \in {"failed", "waiting"} : Set(i, [next EXCEPT !.pc = pc])
    BY <1>2 DEF Submit
  <2>2. PICK s : s = [next EXCEPT !.pc = pc]
    OBVIOUS
  <2>3. /\ s \in Requests /\ s.pc = pc /\ s.id = next.id /\ s.submits = next.submits
        /\ s.status = next.status
    BY <1>3, <2>2 DEF Requests
  <2>. QED
    BY <1>3, <2>1, <2>2, <2>3
<1>9. request'[i] = s
  BY <1>t, <1>4, SetFacts
<1>6. IdsInOrder(i)'
  BY <1>t, <1>1, <1>4, <1>5, <1>9 DEF IdsInOrder, ClientTypeOK
<1>7. Superseded(i)'
  BY <1>t, <1>1, <1>4, <1>9 DEF Superseded
<1>8. AnswerHolds(i)' /\ Reached(i)'
  BY <1>4, <1>9 DEF AnswerHolds, Reached, Alive, Dead
<1>. QED
  BY <1>1, <1>4, <1>6, <1>7, <1>8, StepOfOne, RememberedKept DEF OrdersOf

LEMMA QueryKeepsInv ==
  ASSUME ClientInv, NEW i \in Intents, Query(i)
  PROVE  ClientInv'
<1>. DEFINE r == request[i]
            s == [r EXCEPT !.pc = "waiting", !.kind = "GET", !.status = "unasked"]
<1>t. ClientTypeOK /\ IdsInOrder(i) /\ Superseded(i)
  BY DEF ClientInv
<1>1. /\ r \in Requests /\ r.pc = "failed" /\ Set(i, s)
      /\ UNCHANGED <<queries, reuses, byHash, orders>>
  BY <1>t, RequestFields DEF Query
<1>2. s \in Requests
  BY <1>1 DEF Requests
<1>3. /\ request'[i].pc = "waiting" /\ request'[i].id = r.id
      /\ request'[i].submits = r.submits /\ request'[i].status = "unasked"
  <2>1. request'[i] = s
    BY <1>t, <1>1, <1>2, SetFacts
  <2>. QED
    BY <1>1, <2>1 DEF Requests
<1>4. IdsInOrder(i)' /\ Superseded(i)'
  BY <1>t, <1>1, <1>3 DEF IdsInOrder, Superseded
<1>5. AnswerHolds(i)' /\ Reached(i)'
  BY <1>3 DEF AnswerHolds, Reached, Alive, Dead
<1>. QED
  BY <1>1, <1>2, <1>4, <1>5, StepOfOne, RememberedKept DEF OrdersOf

LEMMA ProceedKeepsInv ==
  ASSUME ClientInv, NEW i \in Intents, Proceed(i)
  PROVE  ClientInv'
<1>. DEFINE r == request[i]
            s == [r EXCEPT !.pc = "calling"]
<1>t. ClientTypeOK /\ IdsInOrder(i) /\ Superseded(i) /\ AnswerHolds(i)
  BY DEF ClientInv
<1>1. /\ r \in Requests /\ r.pc = "waiting" /\ Set(i, s)
      /\ UNCHANGED <<queries, reuses, byHash, orders>>
  BY <1>t, RequestFields DEF Proceed
<1>2. s \in Requests
  BY <1>1 DEF Requests
<1>3. /\ request'[i].pc = "calling" /\ request'[i].id = r.id
      /\ request'[i].submits = r.submits /\ request'[i].status = r.status
  BY <1>t, <1>1, <1>2, SetFacts DEF Requests
<1>4. IdsInOrder(i)' /\ Superseded(i)'
  BY <1>t, <1>1, <1>3 DEF IdsInOrder, Superseded
<1>5. Id(i)' = Id(i)
  BY <1>3 DEF Id
<1>6. AnswerHolds(i)' /\ Reached(i)'
  BY <1>t, <1>1, <1>3, <1>5 DEF AnswerHolds, Reached
<1>. QED
  BY <1>1, <1>2, <1>4, <1>6, StepOfOne, RememberedKept DEF OrdersOf

\* The broker takes the order of the call, or leaves its orders alone; either
\* way the orders before it are as they were.
LEMMA CallKeepsOrder ==
  ASSUME ClientInv, NEW i \in Intents, request[i].pc = "calling", OrdersOf(i),
         UNCHANGED <<queries, reuses>>,
         request'[i].pc \in {"calling", "failed", "done"},
         request'[i].id = request[i].id, request'[i].submits = request[i].submits
  PROVE  IdsInOrder(i)' /\ Superseded(i)' /\ Id(i)' = Id(i)
<1>1. /\ ClientTypeOK /\ IdsInOrder(i) /\ Superseded(i)
      /\ request[i].id \in Nat /\ request[i].id > 0 /\ Id(i)[2] = request[i].id
  BY RequestFields DEF ClientInv, IdsInOrder
<1>2. /\ DOMAIN orders' \subseteq DOMAIN orders \cup {Id(i)}
      /\ \A o \in DOMAIN orders : orders'[o] = orders[o]
  BY <1>1, OrdersFacts
<1>3. IdsInOrder(i)'
  BY <1>1, <1>2 DEF IdsInOrder
<1>4. Superseded(i)'
  BY <1>1, <1>2 DEF Superseded
<1>. QED
  BY <1>3, <1>4 DEF Id

LEMMA CallKeepsInv ==
  ASSUME ClientInv, NEW i \in Intents, Call(i)
  PROVE  ClientInv'
<1>. DEFINE r == request[i]
<1>t. ClientTypeOK /\ IdsInOrder(i) /\ Superseded(i) /\ AnswerHolds(i) /\ Remembered
  BY DEF ClientInv
<1>1. /\ r \in Requests /\ r.pc = "calling" /\ r.attempt \in Nat
      /\ Id(i) \in Intents \X Nat /\ Id(i)[1] = i
      /\ UNCHANGED <<queries, reuses>>
  BY <1>t, RequestFields DEF Call
<1>2. CASE Accept(i)
  <2>. DEFINE s == [[r EXCEPT !.pc = "done"] EXCEPT !.attempt = 0]
  <2>1. /\ r.kind = "POST" /\ orders' = Created(Id(i)) /\ Set(i, s)
        /\ byHash' = Put(byHash, ParamsOf[i], Id(i))
    BY <1>2 DEF Accept, End
  <2>2. s \in Requests
    BY <1>1 DEF Requests
  <2>3. /\ request'[i].pc = "done" /\ request'[i].id = r.id
        /\ request'[i].submits = r.submits /\ request'[i].status = r.status
    <3>1. request'[i] = s
      BY <1>t, <2>1, <2>2, SetFacts
    <3>. QED
      BY <1>1, <3>1 DEF Requests
  <2>4. OrdersOf(i)
    BY <1>1, <2>1 DEF OrdersOf
  <2>5. IdsInOrder(i)' /\ Superseded(i)' /\ Id(i)' = Id(i)
    BY <1>1, <2>3, <2>4, CallKeepsOrder
  <2>6. DOMAIN orders' = DOMAIN orders \cup {Id(i)}
    BY <1>t, <1>1, <2>1, CreatedFacts
  <2>7. Remembered'
    <3>1. /\ DOMAIN byHash' = DOMAIN byHash \cup {ParamsOf[i]}
          /\ byHash'[ParamsOf[i]] = Id(i)
          /\ \A p \in DOMAIN byHash \ {ParamsOf[i]} : byHash'[p] = byHash[p]
      BY <2>1 DEF Put
    <3>. QED
      BY <1>t, <1>1, <2>6, <3>1 DEF Remembered
  <2>8. AnswerHolds(i)' /\ Reached(i)'
    BY <1>t, <1>1, <2>3, <2>5, <2>6 DEF AnswerHolds, Reached
  <2>. QED
    BY <1>1, <2>1, <2>2, <2>4, <2>5, <2>7, <2>8, StepOfOne
<1>3. CASE AnswerQuery(i)
  <2>. DEFINE answer == IF Id(i) \in DOMAIN orders THEN orders[Id(i)] ELSE "none"
              s == [[r EXCEPT !.pc = "failed", !.status = answer] EXCEPT !.attempt = 0]
  <2>1. UNCHANGED <<byHash, orders>> /\ Set(i, s)
    BY <1>3 DEF AnswerQuery, End
  <2>2. answer \in {"none"} \cup Alive \cup Dead
    BY <1>t DEF ClientTypeOK
  <2>. HIDE DEF answer
  <2>3. s \in Requests
    BY <1>1, <2>2 DEF Requests
  <2>4. /\ request'[i].pc = "failed" /\ request'[i].id = r.id
        /\ request'[i].submits = r.submits /\ request'[i].status = answer
    <3>1. request'[i] = s
      BY <1>t, <2>1, <2>3, SetFacts
    <3>. QED
      BY <1>1, <3>1 DEF Requests
  <2>5. OrdersOf(i)
    BY <2>1 DEF OrdersOf
  <2>6. IdsInOrder(i)' /\ Superseded(i)' /\ Id(i)' = Id(i)
    BY <1>1, <2>4, <2>5, CallKeepsOrder
  <2>7. AnswerHolds(i)' /\ Reached(i)'
    BY <1>t, <2>1, <2>4, <2>6 DEF answer, AnswerHolds, Reached, Alive, Dead, ClientTypeOK
  <2>. QED
    BY <1>1, <2>1, <2>3, <2>5, <2>6, <2>7, StepOfOne, RememberedKept
<1>4. ASSUME NEW answer \in Answers, Fail(i, answer)
      PROVE  ClientInv'
  <2>1. OrdersOf(i) /\ UNCHANGED byHash
    BY <1>1, <1>4 DEF Fail, OrdersOf
  <2>2. PICK s \in Requests :
          /\ Set(i, s) /\ s.id = r.id /\ s.submits = r.submits
          /\ \/ s.pc = "calling" /\ s.status = r.status
             \/ s.pc = "failed" /\ s.status = IF r.kind = "GET" THEN "uncertain" ELSE r.status
    <3>1. CASE Set(i, [r EXCEPT !.attempt = r.attempt + 1])
      <4>. DEFINE s == [r EXCEPT !.attempt = r.attempt + 1]
      <4>1. s \in Requests /\ s.id = r.id /\ s.submits = r.submits /\ s.pc = "calling"
            /\ s.status = r.status
        BY <1>1 DEF Requests
      <4>. QED
        BY <3>1, <4>1
    <3>2. CASE End(i, [r EXCEPT !.pc = "failed",
                          !.status = IF r.kind = "GET" THEN "uncertain" ELSE r.status])
      <4>. DEFINE s == [[r EXCEPT !.pc = "failed",
                           !.status = IF r.kind = "GET" THEN "uncertain" ELSE r.status]
                          EXCEPT !.attempt = 0]
      <4>1. s \in Requests /\ s.id = r.id /\ s.submits = r.submits /\ s.pc = "failed"
            /\ s.status = IF r.kind = "GET" THEN "uncertain" ELSE r.status
        BY <1>1 DEF Requests
      <4>2. Set(i, s)
        BY <3>2 DEF End
      <4>. QED
        BY <4>1, <4>2
    <3>. QED
      BY <1>4, <3>1, <3>2 DEF Fail
  <2>3. request'[i] = s
    BY <1>t, <2>2, SetFacts
  <2>4. IdsInOrder(i)' /\ Superseded(i)' /\ Id(i)' = Id(i)
    BY <1>1, <2>1, <2>2, <2>3, CallKeepsOrder
  <2>6. AnswerHolds(i)' /\ Reached(i)'
    BY <1>t, <1>1, <2>2, <2>3 DEF AnswerHolds, Reached, Alive, Dead
  <2>. QED
    BY <1>1, <2>1, <2>2, <2>4, <2>6, StepOfOne, RememberedKept
<1>. QED
  BY <1>2, <1>3, <1>4 DEF Call

LEMMA DecideKeepsInv ==
  ASSUME ClientInv, NEW i \in Intents, Decide(i)
  PROVE  ClientInv'
<1>. DEFINE r == request[i]
            status == IF queries THEN r.status ELSE "none"
<1>t. ClientTypeOK /\ IdsInOrder(i) /\ Superseded(i) /\ AnswerHolds(i) /\ Remembered
  BY DEF ClientInv
<1>1. /\ r \in Requests /\ r.pc = "failed" /\ r.id \in Nat
      /\ Id(i) \in Intents \X Nat /\ Id(i)[1] = i /\ Id(i)[2] = r.id
      /\ UNCHANGED <<queries, reuses, byHash, orders>>
  BY <1>t, RequestFields DEF Decide
<1>2. CASE Decision(i, status) = "DO_NOT_RESEND" /\ Set(i, [r EXCEPT !.pc = "done"])
  <2>1. [r EXCEPT !.pc = "done"] \in Requests
    BY <1>1 DEF Requests
  <2>2. /\ request'[i].pc = "done" /\ request'[i].id = r.id
        /\ request'[i].submits = r.submits /\ request'[i].status = r.status
    BY <1>t, <1>1, <1>2, <2>1, SetFacts DEF Requests
  <2>3. \E o \in DOMAIN orders : ParamsOf[o[1]] = ParamsOf[i]
    <3>1. HasDuplicate(i) \/ status \in Alive
      BY <1>2 DEF Decision
    <3>2. CASE HasDuplicate(i)
      BY <1>t, <3>2 DEF HasDuplicate, Remembered
    <3>3. CASE status \in Alive
      <4>1. Id(i) \in DOMAIN orders
        BY <1>t, <3>3 DEF AnswerHolds, Alive
      <4>. QED
        BY <1>1, <4>1
    <3>. QED
      BY <3>1, <3>2, <3>3
  <2>4. IdsInOrder(i)' /\ Superseded(i)'
    BY <1>t, <1>1, <2>2 DEF IdsInOrder, Superseded
  <2>5. Id(i)' = Id(i)
    BY <2>2 DEF Id
  <2>6. AnswerHolds(i)' /\ Reached(i)'
    BY <1>t, <1>1, <2>2, <2>3, <2>5 DEF AnswerHolds, Reached
  <2>. QED
    BY <1>1, <1>2, <2>1, <2>4, <2>6, StepOfOne, RememberedKept DEF OrdersOf
<1>3. CASE Decision(i, status) = "MAY_RESEND" /\ Set(i, [r EXCEPT !.pc = "idle"])
  <2>1. [r EXCEPT !.pc = "idle"] \in Requests
    BY <1>1 DEF Requests
  <2>2. /\ request'[i].pc = "idle" /\ request'[i].id = r.id
        /\ request'[i].submits = r.submits /\ request'[i].status = r.status
    BY <1>t, <1>1, <1>3, <2>1, SetFacts DEF Requests
  <2>3. status \in Dead \cup {"none"}
    BY <1>3 DEF Decision
  <2>4. Superseded(i)'
    <3>. SUFFICES ASSUME queries, NEW o \in DOMAIN orders, o[1] = i
                  PROVE  orders[o] \in Dead
      BY <1>1, <2>2 DEF Superseded
    <3>1. CASE o[2] < r.id
      BY <1>t, <3>1 DEF Superseded
    <3>2. CASE ~(o[2] < r.id)
      <4>1. o = Id(i)
        BY <1>t, <1>1, <3>2 DEF IdsInOrder, ClientTypeOK, Id
      <4>. QED
        BY <1>t, <1>1, <2>3, <4>1 DEF AnswerHolds
    <3>. QED
      BY <3>1, <3>2
  <2>5. IdsInOrder(i)'
    BY <1>t, <1>1, <2>2 DEF IdsInOrder
  <2>6. Id(i)' = Id(i)
    BY <2>2 DEF Id
  <2>7. AnswerHolds(i)' /\ Reached(i)'
    BY <1>t, <1>1, <2>2, <2>6 DEF AnswerHolds, Reached
  <2>. QED
    BY <1>1, <1>3, <2>1, <2>4, <2>5, <2>7, StepOfOne, RememberedKept DEF OrdersOf
<1>. QED
  BY <1>2, <1>3 DEF Decide

\* An order that comes to an end was alive, and no dead one comes back.
LEMMA SettleKeepsInv ==
  ASSUME ClientInv, NEW o \in DOMAIN orders, Settle(o)
  PROVE  ClientInv'
<1>t. ClientTypeOK /\ Remembered
  BY DEF ClientInv
<1>1. /\ orders[o] = "PENDING" /\ UNCHANGED <<queries, reuses, request, byHash>>
      /\ DOMAIN orders' = DOMAIN orders
      /\ \A p \in DOMAIN orders \ {o} : orders'[p] = orders[p]
      /\ orders'[o] \in Alive \cup Dead
  BY <1>t DEF Settle, ClientTypeOK, Alive
<1>2. ClientTypeOK'
  BY <1>t, <1>1 DEF Settle, ClientTypeOK, Alive
<1>3. Remembered'
  BY <1>t, <1>1 DEF Remembered
<1>4. ASSUME NEW i \in Intents
      PROVE  IdsInOrder(i)' /\ Superseded(i)' /\ AnswerHolds(i)' /\ Reached(i)'
  <2>1. IdsInOrder(i) /\ Superseded(i) /\ AnswerHolds(i) /\ Reached(i)
    BY DEF ClientInv
  <2>2. orders[o] \notin Dead /\ Id(i)' = Id(i)
    BY <1>1 DEF Dead, Id
  <2>3. IdsInOrder(i)' /\ Reached(i)'
    BY <1>1, <2>1 DEF IdsInOrder, Reached
  <2>4. Superseded(i)'
    BY <1>1, <2>1, <2>2 DEF Superseded
  <2>5. AnswerHolds(i)'
    BY <1>1, <2>1, <2>2 DEF AnswerHolds
  <2>. QED
    BY <2>3, <2>4, <2>5
<1>. QED
  BY <1>2, <1>3, <1>4 DEF ClientInv

LEMMA IdleKeepsClient ==
  ASSUME ClientInv, UNCHANGED clientVars
  PROVE  ClientInv'
  BY DEF ClientInv, clientVars, ClientTypeOK, Remembered, IdsInOrder, Superseded,
         AnswerHolds, Reached, Id

LEMMA InitKeepsClient == Init => ClientInv
  BY DEF Init, ClientInv, ClientTypeOK, Requests, Remembered, IdsInOrder, Superseded,
         AnswerHolds, Reached, Alive, Dead

LEMMA NextKeepsClient == ClientInv /\ [Next]_vars => ClientInv'
<1>. SUFFICES ASSUME ClientInv, [Next]_vars PROVE ClientInv'
  OBVIOUS
<1>1. ASSUME NEW i \in Intents, Submit(i) \/ Query(i) \/ Proceed(i) \/ Call(i) \/ Decide(i)
      PROVE  ClientInv'
  BY <1>1, SubmitKeepsInv, QueryKeepsInv, ProceedKeepsInv, CallKeepsInv, DecideKeepsInv
<1>2. ASSUME NEW o \in DOMAIN orders, Settle(o)
      PROVE  ClientInv'
  BY <1>2, SettleKeepsInv
<1>3. CASE UNCHANGED clientVars
  BY <1>3, IdleKeepsClient
<1>. QED
  BY <1>1, <1>2, <1>3 DEF Next, Client, vars

\* What the client and the broker know of each order agrees in every reachable state.
THEOREM ClientInvariance == Spec => []ClientInv
  BY InitKeepsClient, NextKeepsClient, PTL DEF Spec

\* Retries, lost answers and second submissions never leave two live orders of
\* one intent at the broker, for a client that asks before it decides or keeps
\* its client_order_id, and no intent is given up before an order with its
\* parameters has reached the broker.
THEOREM OrdersAreSentOnce == Spec => []SentOnce
<1>1. ClientInv => SentOnce
  <2>. SUFFICES ASSUME ClientInv, NEW i \in Intents
                PROVE  /\ queries \/ reuses =>
                            Cardinality({o \in DOMAIN orders : o[1] = i /\ orders[o] \in Alive}) =< 1
                       /\ request[i].pc = "done" =>
                            \E o \in DOMAIN orders : ParamsOf[o[1]] = ParamsOf[i]
    BY DEF SentOnce
  <2>t. ClientTypeOK /\ IdsInOrder(i) /\ Superseded(i) /\ Reached(i)
    BY DEF ClientInv
  <2>1. ASSUME queries \/ reuses
        PROVE  Cardinality({o \in DOMAIN orders : o[1] = i /\ orders[o] \in Alive}) =< 1
    <3>. DEFINE live == {o \in DOMAIN orders : o[1] = i /\ orders[o] \in Alive}
    <3>1. ASSUME NEW o \in live
          PROVE  o = Id(i)
      <4>1. o \in Intents \X Nat /\ o[1] = i /\ o[2] > 0 /\ o[2] =< request[i].id
            /\ request[i].id \in Nat /\ orders[o] \notin Dead
        BY <2>t, RequestFields DEF ClientTypeOK, IdsInOrder, Alive, Dead
      <4>2. ~(o[2] < request[i].id)
        <5>1. CASE queries
          BY <2>t, <4>1, <5>1 DEF Superseded
        <5>2. CASE reuses
          BY <2>t, <4>1, <5>2 DEF IdsInOrder
        <5>. QED
          BY <2>1, <5>1, <5>2
      <4>. QED
        BY <4>1, <4>2 DEF Id
    <3>2. live = {} \/ live = {Id(i)}
      BY <3>1
    <3>. HIDE DEF live
    <3>3. CASE live = {}
      BY <3>3, FS_EmptySet DEF live
    <3>4. CASE live = {Id(i)}
      <4>1. Cardinality({Id(i)}) = 1
        BY FS_Singleton
      <4>2. Cardinality(live) = 1
        BY <3>4, <4>1
      <4>. QED
        BY <4>2 DEF live
    <3>. QED
      BY <3>2, <3>3, <3>4
  <2>2. request[i].pc = "done" => \E o \in DOMAIN orders : ParamsOf[o[1]] = ParamsOf[i]
    BY <2>t DEF Reached
  <2>. QED
    BY <2>1, <2>2
<1>. QED
  BY <1>1, ClientInvariance, PTL

-----------------------------------------------------------------------------
\* The feed.

LEMMA IngestKeepsStream ==
  ASSUME StreamInv, NEW m \in 1 .. MaxSequence, Ingest(m)
  PROVE  StreamInv'
<1>1. /\ accepted' = accepted \cup {m} /\ last' = m
      /\ first' = IF first = 0 THEN m ELSE first
      /\ IF IsGap(m) THEN gaps' = TRUE ELSE gaps' = gaps
  BY DEF Ingest
<1>2. accepted' \subseteq 1 .. MaxSequence /\ first' \in accepted' /\ last' \in accepted'
  BY <1>1 DEF StreamInv
<1>3. GapsAreNoticed'
  <2>. SUFFICES ASSUME ~gaps', NEW k \in accepted', k > first', NEW l \in first' .. k
                PROVE  l \in accepted'
    BY DEF GapsAreNoticed
  <2>1. ~gaps /\ ~IsGap(m)
    BY <1>1
  <2>2. CASE accepted = {}
    BY <1>1, <2>2 DEF StreamInv
  <2>3. CASE accepted # {}
    <3>1. /\ first \in accepted /\ last \in accepted /\ accepted \subseteq 1 .. MaxSequence
          /\ first' = first /\ m =< last + 1
          /\ \A n \in accepted : n > first => first .. n \subseteq accepted
      <4>1. /\ first \in accepted /\ last \in accepted /\ accepted \subseteq 1 .. MaxSequence
            /\ GapsAreNoticed
        BY <2>3 DEF StreamInv
      <4>2. first > 0 /\ last > 0 /\ last \in Int /\ m \in Int
        BY <4>1
      <4>3. first' = first
        BY <1>1, <4>2
      <4>4. m =< last + 1
        BY <2>1, <4>2 DEF IsGap
      <4>. QED
        BY <2>1, <4>1, <4>3, <4>4 DEF GapsAreNoticed
    <3>2. CASE k \in accepted
      BY <1>1, <3>1, <3>2
    <3>3. CASE k = m /\ k \notin accepted
      <4>1. l = m \/ l \in first .. last
        BY <3>1, <3>3
      <4>2. first .. last \subseteq accepted
        BY <3>1
      <4>. QED
        BY <1>1, <4>1, <4>2
    <3>. QED
      BY <1>1, <3>2, <3>3
  <2>. QED
    BY <2>2, <2>3
<1>. QED
  BY <1>2, <1>3 DEF StreamInv

LEMMA NextKeepsStream == StreamInv /\ [Next]_vars => StreamInv'
<1>. SUFFICES ASSUME StreamInv, [Next]_vars PROVE StreamInv'
  OBVIOUS
<1>1. ASSUME NEW m \in 1 .. MaxSequence, Ingest(m)
      PROVE  StreamInv'
  BY <1>1, IngestKeepsStream
<1>2. CASE UNCHANGED <<last, gaps, accepted, first>>
  BY <1>2 DEF StreamInv, GapsAreNoticed
<1>. QED
  BY <1>1, <1>2
     DEF Next, StreamNext, Disconnect, Reconnect, CheckFrozen, vars, streamVars

\* A message that is missing between accepted ones was reported as a gap, for a
\* feed that loses, repeats and reorders messages over connections that break.
THEOREM GapsAreReported == Spec => []GapsAreNoticed
<1>1. Init => StreamInv
  BY DEF Init, StreamInit, StreamInv, GapsAreNoticed
<1>2. StreamInv => GapsAreNoticed
  BY DEF StreamInv
<1>. QED
  BY <1>1, <1>2, NextKeepsStream, PTL DEF Spec

=============================================================================
