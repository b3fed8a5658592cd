---------------------------- MODULE EndpointPool ----------------------------
(***************************************************************************)
(* The pool through which the backend reaches Horizon and the anchors      *)
(* (backend/src/services/endpoint-pool.ts): execute runs a request at one  *)
(* of several endpoints and, by the rule of its operation class, retries   *)
(* it there or elsewhere, within a retry budget that all calls share.      *)
(*                                                                         *)
(* Which endpoints are healthy, fresh or behind an open breaker is decided *)
(* by probes, clocks and other calls, so every selection sees arbitrary    *)
(* sets of them; scores only choose among candidates.  Cooldowns are kept, *)
(* for the calls themselves put endpoints there.  Time is counted in       *)
(* ticks: an entry of the budget has an age.                               *)
(***************************************************************************)
EXTENDS Naturals, FiniteSets

CONSTANTS
    Endpoint,
    Call,               \* bound: one execution of execute each
    Class,              \* operation classes in use
    MaxAttempts,        \* retry.maxAttempts
    MinRetries,         \* retry.budgetMinRetries
    Ratio,              \* retry.budgetRatio, as numerator and denominator
    Window              \* retry.budgetWindowMs, in ticks

OperationClass == {"read", "consistent_read", "quote", "submit_idempotent",
                   "submit_non_idempotent"}

ASSUME EndpointPoolAssumption ==
    /\ Class \subseteq OperationClass
    /\ MaxAttempts \in Nat \ {0}
    /\ MinRetries \in Nat
    /\ Ratio \in Nat \X (Nat \ {0})
    /\ Window \in Nat \ {0}

VARIABLES
    cooling,    \* endpoints whose cooldownUntil lies ahead
    requests,   \* first attempts by age; those within Window are in the budget
    retries,    \* retries by age, likewise
    class,      \* of each call, "none" before it is made
    pc,         \* "idle", "calling" an endpoint, "sleeping", "ended"
    ep,         \* the endpoint of the current attempt, or the next
    attempt, tried,
    \* what the servers do with requests of class submit_non_idempotent
    unknown,    \* requests of a call that may still be processed
    processed   \* requests of a call that were

budget == <<requests, retries>>
local == <<class, pc, ep, attempt, tried>>
servers == <<unknown, processed>>
vars == <<cooling, budget, local, servers>>

None == "none"
Ages == 0 .. 2 * Window

TypeOK ==
    /\ cooling \subseteq Endpoint
    /\ requests \in [Ages -> Nat]
    /\ retries \in [Ages -> Nat]
    /\ class \in [Call -> Class \cup {None}]
    /\ pc \in [Call -> {"idle", "calling", "sleeping", "ended"}]
    /\ ep \in [Call -> Endpoint \cup {None}]
    /\ attempt \in [Call -> 0 .. MaxAttempts - 1]
    /\ tried \in [Call -> SUBSET Endpoint]
    /\ unknown \in [Call -> Nat]
    /\ processed \in [Call -> Nat]

----------------------------------------------------------------------------
(* Policy *)

\* FALLBACK_MATRIX
Failover(k) == k # "submit_non_idempotent"
RequireFresh(k) == k \in {"consistent_read", "quote"}

\* Mutant: every class may be retried after a timeout.
RetryAmbiguousAlways(k) == TRUE

RetryAmbiguous(k) == k # "submit_non_idempotent"

\* classifyError, but for client errors (see Returns).  429, 502, 503, an open
\* breaker and a connection that was refused mean that the request was not
\* processed; of the ambiguous ones, a timeout among them, nobody knows.
Failure == {"rate_limited", "unavailable", "ambiguous"}

\* The entries that prune keeps.
Total(f) == LET s[a \in 0 .. Window] == f[a] + (IF a = 0 THEN 0 ELSE s[a - 1])
            IN  s[Window]

AllowedFor(n) ==
    LET share == (n * Ratio[1]) \div Ratio[2]
    IN  IF share > MinRetries THEN share ELSE MinRetries

\* Mutant: off by one.
TryAcquireOneMore == Total(retries) <= AllowedFor(Total(requests))

\* tryAcquire
TryAcquire == Total(retries) < AllowedFor(Total(requests))

\* recordRequest, or the push of tryAcquire
Entered(f) == [f EXCEPT ![0] = @ + 1]

\* Mutant: the last resort forgets the cooldown.
CandidatesWarm(k, cool, healthy, fresh, open) ==
    LET eligible == {e \in Endpoint \ (cool \cup open) :
                        e \in healthy /\ (RequireFresh(k) => e \in fresh)}
    IN  IF eligible = {} /\ ~RequireFresh(k) THEN Endpoint \ open ELSE eligible

\* isEligible over all endpoints, and the last resort when every probe failed
Candidates(k, cool, healthy, fresh, open) ==
    LET eligible == {e \in Endpoint \ (cool \cup open) :
                        e \in healthy /\ (RequireFresh(k) => e \in fresh)}
    IN  IF eligible = {} /\ ~RequireFresh(k) THEN Endpoint \ (cool \cup open) ELSE eligible

\* select: untried candidates first
Selectable(k, cool, done) ==
    UNION {LET cs == Candidates(k, cool, healthy, fresh, open)
               pool == IF cs \ done # {} THEN cs \ done ELSE cs
           IN  IF pool = {} THEN {None} ELSE pool :
           healthy, fresh, open \in SUBSET Endpoint}

----------------------------------------------------------------------------
(* A call *)

\* execute up to its first attempt.
Execute(c, k) ==
    /\ pc[c] = "idle"
    /\ class' = [class EXCEPT ![c] = k]
    /\ requests' = Entered(requests)
    /\ \E e \in Selectable(k, cooling, {}) :
          /\ ep' = [ep EXCEPT ![c] = e]
          /\ pc' = [pc EXCEPT ![c] = IF e = None THEN "ended" ELSE "calling"]
    /\ UNCHANGED <<cooling, retries, attempt, tried, servers>>

\* The attempt is answered: with a result, or a client error, which is
\* rethrown untouched.
Returns(c) ==
    /\ pc[c] = "calling"
    /\ pc' = [pc EXCEPT ![c] = "ended"]
    /\ \/ UNCHANGED processed
       \/ /\ class[c] = "submit_non_idempotent"
          /\ processed' = [processed EXCEPT ![c] = @ + 1]
    /\ UNCHANGED <<cooling, budget, class, ep, attempt, tried, unknown>>

\* Mutant: one attempt too many.
LastAttemptLate(c, kind) ==
    \/ kind = "ambiguous" /\ ~RetryAmbiguous(class[c])
    \/ attempt[c] >= MaxAttempts

\* The attempts end here.
LastAttempt(c, kind) ==
    \/ kind = "ambiguous" /\ ~RetryAmbiguous(class[c])
    \/ attempt[c] + 1 >= MaxAttempts

\* cooldownUntil after a failure: a new one replaces the old, and with
\* Retry-After: 0 it is over at once.
CooledDown(e, kind) ==
    IF kind = "rate_limited" THEN {cooling \cup {e}, cooling \ {e}} ELSE {cooling}

\* The catch of execute, up to its next await: cool down, give up, or take
\* the next endpoint and a retry of the budget.  An untried endpoint is
\* called at once, a tried one after a back-off.
Fails(c, kind) ==
    /\ pc[c] = "calling"
    /\ \E cool \in CooledDown(ep[c], kind) :
          LET done == tried[c] \cup {ep[c]} IN
          /\ cooling' = cool
          /\ tried' = [tried EXCEPT ![c] = done]
          /\ \E e \in IF Failover(class[c]) THEN Selectable(class[c], cool, done)
                      ELSE {ep[c]} :
                IF LastAttempt(c, kind) \/ e = None \/ ~TryAcquire
                THEN /\ pc' = [pc EXCEPT ![c] = "ended"]
                     /\ UNCHANGED <<retries, ep, attempt>>
                ELSE /\ retries' = Entered(retries)
                     /\ ep' = [ep EXCEPT ![c] = e]
                     /\ IF e \in done
                        THEN pc' = [pc EXCEPT ![c] = "sleeping"] /\ UNCHANGED attempt
                        ELSE attempt' = [attempt EXCEPT ![c] = @ + 1] /\ UNCHANGED pc
    /\ unknown' = IF kind = "ambiguous" /\ class[c] = "submit_non_idempotent"
                  THEN [unknown EXCEPT ![c] = @ + 1] ELSE unknown
    /\ UNCHANGED <<requests, class, processed>>

\* Mutant: the attempt is not counted.
WakeAgain(c) ==
    /\ pc[c] = "sleeping"
    /\ pc' = [pc EXCEPT ![c] = "calling"]
    /\ UNCHANGED <<cooling, budget, class, ep, attempt, tried, servers>>

\* The back-off is over: the endpoint chosen before it is called.
Wake(c) ==
    /\ pc[c] = "sleeping"
    /\ pc' = [pc EXCEPT ![c] = "calling"]
    /\ attempt' = [attempt EXCEPT ![c] = @ + 1]
    /\ UNCHANGED <<cooling, budget, class, ep, tried, servers>>

----------------------------------------------------------------------------
(* The rest *)

\* A server processes a request that its caller has given up.
ProcessesLate(c) ==
    /\ unknown[c] > 0
    /\ unknown' = [unknown EXCEPT ![c] = @ - 1]
    /\ processed' = [processed EXCEPT ![c] = @ + 1]
    /\ UNCHANGED <<cooling, budget, local>>

CooldownEnds(e) ==
    /\ e \in cooling
    /\ cooling' = cooling \ {e}
    /\ UNCHANGED <<budget, local, servers>>

Older(f) == [a \in Ages |-> IF a = 0 THEN 0 ELSE f[a - 1]]

Tick ==
    /\ requests' = Older(requests)
    /\ retries' = Older(retries)
    /\ UNCHANGED <<cooling, local, servers>>

Init ==
    /\ cooling = {}
    /\ requests = [a \in Ages |-> 0]
    /\ retries = [a \in Ages |-> 0]
    /\ class = [c \in Call |-> None]
    /\ pc = [c \in Call |-> "idle"]
    /\ ep = [c \in Call |-> None]
    /\ attempt = [c \in Call |-> 0]
    /\ tried = [c \in Call |-> {}]
    /\ unknown = [c \in Call |-> 0]
    /\ processed = [c \in Call |-> 0]

Attempted(c) == Returns(c) \/ \E kind \in Failure : Fails(c, kind)

Next ==
    \/ \E c \in Call :
          \/ \E k \in Class : Execute(c, k)
          \/ Attempted(c) \/ Wake(c) \/ ProcessesLate(c)
    \/ \E e \in Endpoint : CooldownEnds(e)
    \/ Tick

\* withTimeout ends every attempt, and a sleep is over some time.
Fairness == \A c \in Call : WF_vars(Attempted(c)) /\ WF_vars(Wake(c))

Spec == Init /\ [][Next]_vars /\ Fairness

----------------------------------------------------------------------------
(* Properties *)

\* "A duplicate creates a second transfer": whatever times out and is
\* processed later, the servers process a submit_non_idempotent call once at
\* most, and one endpoint only ever sees it.
ProcessedOnce ==
    \A c \in Call : class[c] = "submit_non_idempotent" =>
        /\ processed[c] + unknown[c] <= 1
        /\ tried[c] \subseteq {ep[c]}

\* An attempt of the call starts.
Starts(c) ==
    /\ pc'[c] = "calling"
    /\ pc[c] # "calling" \/ attempt'[c] # attempt[c]

\* Retry-After "puts the endpoint in cooldown for every caller": no call goes
\* to an endpoint in cooldown, unless it chose that endpoint before a
\* back-off of its own.
CooldownHonoured ==
    [][\A c \in Call : Starts(c) /\ ep'[c] \in cooling' => pc[c] = "sleeping"]_vars

\* The load under an outage is capped: the retries of a window stay within
\* the share that the requests of two windows allow.  (Not of the one window:
\* a retry may outlive the requests it was granted for.)
RetriesWithinBudget ==
    LET s[a \in Ages] == requests[a] + (IF a = 0 THEN 0 ELSE s[a - 1])
    IN  Total(retries) <= AllowedFor(s[2 * Window])

\* Every call ends with a result or an error, although the budget is renewed
\* for ever.
CallsEnd == \A c \in Call : (pc[c] # "idle") ~> (pc[c] = "ended")

=============================================================================
