------------------------------ MODULE RpcGuard ------------------------------
(***************************************************************************)
(* What stands between the backend and the Soroban RPC pool: the circuit   *)
(* breaker (backend/src/services/circuit-breaker.ts) around the limiter of *)
(* concurrent requests (rpc-concurrency.ts), composed by                   *)
(* createSorobanServer as breaker.execute(() => withRpcConcurrency(fn)).   *)
(*                                                                         *)
(* A call is idle, "queued" for a slot, "active" at the service, or back   *)
(* with a result ("ok", "failed") that the breaker has not yet counted:    *)
(* the slot is released some promise steps before.  A caller that times    *)
(* out (callWithTimeout) leaves its call running, so it is not seen here.  *)
(***************************************************************************)
EXTENDS Naturals, Sequences, FiniteSets

CONSTANTS
    RpcCall,            \* bound: calls that may be under way together
    FailureThreshold,   \* options.failureThreshold
    MaxConcurrent,      \* maxConcurrent
    MaxQueueSize        \* maxQueueSize

ASSUME RpcGuardAssumption ==
    /\ FailureThreshold \in Nat \ {0}
    /\ MaxConcurrent \in Nat \ {0}
    /\ MaxQueueSize \in Nat
    /\ IsFiniteSet(RpcCall)

VARIABLES
    state,              \* CircuitState
    failures,           \* failureTimestamps.length
    due,                \* resetTimeoutMs have passed since openedAt
    halfOpenInFlight,
    activeRequests,
    queue,              \* the limiter's queue
    phase,              \* where each call is
    probes              \* calls admitted half open: the period they belong to
                        \* is "this" one or an "old" one, others are "no"

breakerVars == <<state, failures, due, halfOpenInFlight>>
limiterVars == <<activeRequests, queue>>
guardVars == <<breakerVars, limiterVars, phase, probes>>

----------------------------------------------------------------------------
(* The breaker *)

\* transitionTo
TransitionTo(next) ==
    /\ state' = next
    /\ failures' = 0
    /\ due' = FALSE

\* maybeTransitionToHalfOpen, on its own: getState or getMetrics (/health).
GetMetrics ==
    /\ state = "open" /\ due
    /\ TransitionTo("half_open")
    /\ UNCHANGED <<halfOpenInFlight, limiterVars, phase, probes>>

\* resetTimeoutMs pass.
Elapse ==
    /\ state = "open" /\ ~due
    /\ due' = TRUE
    /\ UNCHANGED <<state, failures, halfOpenInFlight, limiterVars, phase, probes>>

\* onSuccess
OnSuccess ==
    IF state # "closed" THEN TransitionTo("closed")
    ELSE failures' = 0 /\ UNCHANGED <<state, due>>

\* onFailure: kept of the earlier failures are still in the rolling window.
\* Of an open circuit transitionTo changes nothing, so the failures add up.
OnFailure ==
    IF state = "half_open" THEN TransitionTo("open")
    ELSE \E kept \in 0 .. failures :
            IF state = "closed" /\ kept + 1 >= FailureThreshold THEN TransitionTo("open")
            ELSE failures' = kept + 1 /\ UNCHANGED <<state, due>>

----------------------------------------------------------------------------
(* The limiter *)

\* acquire.  A full queue throws, inside the breaker, which counts it as a
\* failure of the service.
AcquireSlot(c) ==
    \/ /\ activeRequests < MaxConcurrent
       /\ activeRequests' = activeRequests + 1
       /\ phase' = [phase EXCEPT ![c] = "active"]
       /\ UNCHANGED queue
    \/ /\ activeRequests >= MaxConcurrent
       /\ Len(queue) < MaxQueueSize
       /\ queue' = Append(queue, c)
       /\ phase' = [phase EXCEPT ![c] = "queued"]
       /\ UNCHANGED activeRequests
    \/ /\ activeRequests >= MaxConcurrent
       /\ Len(queue) >= MaxQueueSize
       /\ phase' = [phase EXCEPT ![c] = "failed"]
       /\ UNCHANGED limiterVars

\* Mutant: the slot is given back and no waiter is woken.
ReleaseSlotSilent(c, result) ==
    /\ activeRequests' = activeRequests - 1
    /\ phase' = [phase EXCEPT ![c] = result]
    /\ UNCHANGED queue

\* Mutant: the last waiter is woken first.
ReleaseSlotLifo(c, result) ==
    IF queue = <<>>
    THEN /\ activeRequests' = activeRequests - 1
         /\ phase' = [phase EXCEPT ![c] = result]
         /\ UNCHANGED queue
    ELSE /\ queue' = SubSeq(queue, 1, Len(queue) - 1)
         /\ phase' = [phase EXCEPT ![c] = result, ![queue[Len(queue)]] = "active"]
         /\ UNCHANGED activeRequests

\* release: the slot goes to the first waiter, if there is one.
ReleaseSlot(c, result) ==
    IF queue = <<>>
    THEN /\ activeRequests' = activeRequests - 1
         /\ phase' = [phase EXCEPT ![c] = result]
         /\ UNCHANGED queue
    ELSE /\ queue' = Tail(queue)
         /\ phase' = [phase EXCEPT ![c] = result, ![Head(queue)] = "active"]
         /\ UNCHANGED activeRequests

----------------------------------------------------------------------------
(* A call *)

\* Mutant: the probe flag is not tested.
AdmittedUntested(c) ==
    /\ phase[c] = "idle"
    /\ \/ /\ state = "closed"
          /\ UNCHANGED <<breakerVars, probes>>
       \/ /\ state = "half_open"
          /\ halfOpenInFlight' = TRUE
          /\ probes' = [probes EXCEPT ![c] = "this"]
          /\ UNCHANGED <<state, failures, due>>
       \/ /\ state = "open" /\ due
          /\ TransitionTo("half_open")
          /\ halfOpenInFlight' = TRUE
          /\ probes' = [probes EXCEPT ![c] = "this"]
    /\ AcquireSlot(c)

\* execute up to fn(): the circuit may turn half open first.  An open one and
\* a second probe fail fast, which changes nothing.
Admitted(c) ==
    /\ phase[c] = "idle"
    /\ \/ /\ state = "closed"
          /\ UNCHANGED <<breakerVars, probes>>
       \/ /\ state = "half_open" /\ ~halfOpenInFlight
          /\ halfOpenInFlight' = TRUE
          /\ probes' = [probes EXCEPT ![c] = "this"]
          /\ UNCHANGED <<state, failures, due>>
       \/ /\ state = "open" /\ due /\ ~halfOpenInFlight
          /\ TransitionTo("half_open")
          /\ halfOpenInFlight' = TRUE
          /\ probes' = [probes EXCEPT ![c] = "this"]
    /\ AcquireSlot(c)

\* The service answers, or the connection fails; then the slot is free.
ServiceEnds(c) ==
    /\ phase[c] = "active"
    /\ \E result \in {"ok", "failed"} : ReleaseSlot(c, result)
    /\ UNCHANGED <<breakerVars, probes>>

\* Probes belong to a half-open period; it ends when the circuit leaves it.
ProbesAfter(c) ==
    [d \in RpcCall |->
        IF d = c THEN "no"
        ELSE IF state' # "half_open" /\ probes[d] = "this" THEN "old"
        ELSE probes[d]]

\* execute after fn(), whichever state the circuit was in when it began: the
\* result is counted and the finally clears the flag.
Settle(c) ==
    /\ \/ phase[c] = "ok" /\ OnSuccess
       \/ phase[c] = "failed" /\ OnFailure
    /\ halfOpenInFlight' = FALSE
    /\ phase' = [phase EXCEPT ![c] = "idle"]
    /\ probes' = ProbesAfter(c)
    /\ UNCHANGED limiterVars

----------------------------------------------------------------------------
GuardInit ==
    /\ state = "closed"
    /\ failures = 0
    /\ due = FALSE
    /\ halfOpenInFlight = FALSE
    /\ activeRequests = 0
    /\ queue = <<>>
    /\ phase = [c \in RpcCall |-> "idle"]
    /\ probes = [c \in RpcCall |-> "no"]

CallStep(c) == Admitted(c) \/ ServiceEnds(c) \/ Settle(c)

GuardNext == GetMetrics \/ Elapse \/ \E c \in RpcCall : CallStep(c)

\* Time passes, results are counted, and the service ends every request (it
\* answers, or the connection fails).
GuardFairness ==
    /\ WF_guardVars(Elapse)
    /\ \A c \in RpcCall : WF_guardVars(ServiceEnds(c)) /\ WF_guardVars(Settle(c))

GuardSpec == GuardInit /\ [][GuardNext]_guardVars /\ GuardFairness

----------------------------------------------------------------------------
(* Properties *)

\* The limiter's count is the number of calls at the service, never above
\* its maximum, the queue holds the waiting calls once each, within its
\* limit, and no call waits while a slot is free.
SlotsAccounted ==
    /\ activeRequests = Cardinality({c \in RpcCall : phase[c] = "active"})
    /\ {queue[i] : i \in DOMAIN queue} = {c \in RpcCall : phase[c] = "queued"}
    /\ Len(queue) = Cardinality({c \in RpcCall : phase[c] = "queued"})
    /\ queue # <<>> => activeRequests = MaxConcurrent
    /\ activeRequests <= MaxConcurrent /\ Len(queue) <= MaxQueueSize

\* A half-open period admits one call, and the flag that refuses the others
\* is up exactly while that call is under way: it cannot be left up by a call
\* that began earlier, which would refuse every call for ever.
FlagHasOwner ==
    /\ \A c, d \in RpcCall : probes[c] = "this" /\ probes[d] = "this" => c = d
    /\ halfOpenInFlight <=> \E c \in RpcCall : probes[c] = "this" /\ phase[c] # "idle"
    /\ halfOpenInFlight => state = "half_open"

\* A call that waits for a slot gets one, whatever calls come after it.
WaitersAreServed ==
    \A c \in RpcCall : (phase[c] = "queued") ~> (phase[c] = "active")

=============================================================================
