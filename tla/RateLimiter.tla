------------------------------ MODULE RateLimiter -----------------------------
(***************************************************************************)
(* PriorityRateLimiter.execute (broker_adapters/_shared/rate_limiter.py):  *)
(* requests enter, wait in the order of an asyncio.Lock for a token, call, *)
(* and leave.  A unit of time is that of one token; a request that waits   *)
(* for tokens or for the end of a block does so while it holds the lock.   *)
(***************************************************************************)
EXTENDS Integers, Sequences, SequencesExt

CONSTANTS Burst, MaxQueue, MaxRetries, MaxBlock

ASSUME LimiterAssumption ==
  /\ Burst \in Nat \ {0} /\ MaxQueue \in Nat /\ MaxRetries \in Nat /\ MaxBlock \in Nat

VARIABLES
  tokens,   \* _tokens
  elapsed,  \* time since _last, up to what fills the bucket
  blocked,  \* time until _blocked_until
  queue,    \* the requests at the lock; the first one holds it
  depth     \* _queue_depth

limiterVars == <<tokens, elapsed, blocked, queue, depth>>

LimiterInit == tokens = Burst /\ elapsed = 0 /\ blocked = 0 /\ queue = <<>> /\ depth = 0

LimiterTypeOK ==
  /\ tokens \in 0 .. Burst /\ elapsed \in 0 .. Burst /\ blocked \in 0 .. MaxBlock
  /\ depth \in Nat

\* RequestPriority
Cancel == 1
UncertainOrderQuery == 3
NewOrder == 5

Saturated(priority) == depth + 1 > MaxQueue /\ priority >= NewOrder

Enter(r) ==
  /\ depth' = depth + 1
  /\ queue' = Append(queue, r)
  /\ UNCHANGED <<tokens, elapsed, blocked>>

AcquireWithoutRefill(r) ==
  /\ queue # <<>> /\ Head(queue) = r
  /\ blocked = 0 /\ tokens >= 1
  /\ tokens' = tokens - 1 /\ elapsed' = 0
  /\ queue' = Tail(queue)
  /\ UNCHANGED <<blocked, depth>>

\* The bucket is filled for the time elapsed and one token is taken.
Acquire(r) ==
  LET filled == IF tokens + elapsed > Burst THEN Burst ELSE tokens + elapsed
  IN /\ queue # <<>> /\ Head(queue) = r
     /\ blocked = 0 /\ filled >= 1
     /\ tokens' = filled - 1 /\ elapsed' = 0
     /\ queue' = Tail(queue)
     /\ UNCHANGED <<blocked, depth>>

Leave == depth' = IF depth = 0 THEN 0 ELSE depth - 1

\* An error is tried again without another token.
MayRetry(retryable, attempt) == retryable /\ attempt <= MaxRetries

\* preventive_block, honor_retry_after
PreventiveBlock(seconds) == blocked' = IF seconds > blocked THEN seconds ELSE blocked

Tick ==
  /\ blocked > 0 \/ elapsed < Burst
  /\ blocked' = IF blocked = 0 THEN 0 ELSE blocked - 1
  /\ elapsed' = IF elapsed = Burst THEN Burst ELSE elapsed + 1
  /\ UNCHANGED <<tokens, queue, depth>>
=============================================================================
