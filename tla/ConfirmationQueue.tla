------------------------- MODULE ConfirmationQueue -------------------------
(***************************************************************************)
(* The confirmation queue of the backend                                   *)
(* (src/backend/src/services/confirmation-queue.ts): every request that    *)
(* submitted a transaction waits here, one worker polls getTransaction for *)
(* all of them, and shutdown stops the worker and rejects what is left.    *)
(*                                                                         *)
(* The code runs on one thread: an action is what one callback of the      *)
(* event loop does, up to the next await that is not already settled; only *)
(* the end of a stop is a step of its own.                                 *)
(*                                                                         *)
(* A loop is one execution of workerLoop.  The code means to have one at a *)
(* time, but a wait that arrives while a stop awaits the loop starts a     *)
(* second one, so the model has several.                                   *)
(*                                                                         *)
(* Time is abstract.  An entry becomes due when nextPollAt is reached and  *)
(* expired when its deadline is.  The answer of getTransaction is an input *)
(* of the environment: the RPC endpoints of the pool need not agree, so    *)
(* two polls of one hash may answer differently.  What was answered is     *)
(* kept apart only as far as the queue itself does: SUCCESS and FAILED     *)
(* both settle an entry.                                                   *)
(***************************************************************************)
EXTENDS Integers, FiniteSets, Sequences

CONSTANTS
  Hashes,        \* transaction hashes
  Waiters,       \* concurrent callers of waitForTransaction
  Loops,         \* executions of workerLoop that may be alive together
  NoLoop,        \* workerPromise = null
  MaxAttempts,   \* options.maxAttempts
  MaxEntries,    \* bound: entries ever queued
  MaxStops       \* bound: calls of stopConfirmationWorker

ASSUME ConfirmationQueueAssumption ==
  /\ NoLoop \notin Loops
  /\ MaxAttempts \in Nat \ {0}
  /\ MaxEntries \in Nat
  /\ MaxStops \in Nat

VARIABLES
  entries,   \* every PendingEntry created so far, in order
  pending,   \* hash |-> the index of its entry in the Map `pending`, or 0
  cache,     \* hash |-> "none", or a "fresh" or "old" outcome in resultsCache
  waiting,   \* caller |-> the entry whose waiters hold it, or 0
  running,   \* the flag of the module
  loops,     \* loop |-> where it is, and the entry it polls
  worker,    \* workerPromise
  stops,     \* the promises that unfinished stop calls await
  stopCount  \* stop calls so far (for the bound)

queueVars == <<entries, pending, cache, waiting>>
workerVars == <<running, loops, worker, stops, stopCount>>
vars == <<queueVars, workerVars>>

Entry == [hash: Hashes, attempts: 0 .. MaxAttempts, due: BOOLEAN,
          expired: BOOLEAN, pollInFlight: BOOLEAN, resolved: BOOLEAN]
Ended == [pc |-> "ended", entry |-> 0]
Idle == [pc |-> "idle", entry |-> 0]
Polling(e) == [pc |-> "polling", entry |-> e]

Init ==
  /\ entries = <<>>
  /\ pending = [h \in Hashes |-> 0]
  /\ cache = [h \in Hashes |-> "none"]
  /\ waiting = [w \in Waiters |-> 0]
  /\ running = FALSE
  /\ loops = [l \in Loops |-> Ended]
  /\ worker = NoLoop
  /\ stops = {}
  /\ stopCount = 0

\* Mutant: the scan forgets the poll of another loop
PollableAgain(es, pend) ==
  {e \in DOMAIN es : pend[es[e].hash] = e /\ ~es[e].resolved /\ es[e].due}

\* The entries a scan of workerLoop may poll
Pollable(es, pend) ==
  {e \in DOMAIN es : /\ pend[es[e].hash] = e
                     /\ ~es[e].resolved
                     /\ ~es[e].pollInFlight
                     /\ es[e].due}

\* A loop scans the entries in insertion order, up to its next await: it
\* polls the first one that is due, or sleeps.
Scan(l, es, pend) ==
  LET due == Pollable(es, pend) IN
  IF due = {}
    THEN /\ loops' = [loops EXCEPT ![l] = Idle]
         /\ entries' = es
    ELSE LET e == CHOOSE x \in due : \A y \in due : x <= y
         IN  /\ loops' = [loops EXCEPT ![l] = Polling(e)]
             /\ entries' = [es EXCEPT ![e].pollInFlight = TRUE]

\* Loops that nobody awaits and that can stand for a new one; which of them
\* does makes no difference
FreeLoops == {l \in Loops : loops[l] = Ended /\ l \notin stops /\ l # worker}

\* startConfirmationWorker: workerLoop runs up to its first await
Start(es, pend) ==
  /\ running' = TRUE
  /\ FreeLoops # {}
  /\ LET l == CHOOSE x \in FreeLoops : TRUE IN worker' = l /\ Scan(l, es, pend)
  /\ UNCHANGED <<stops, stopCount>>

StartConfirmationWorker ==
  /\ ~running
  /\ Start(entries, pending)
  /\ UNCHANGED <<pending, cache, waiting>>

NewEntry(h) ==
  [hash |-> h, attempts |-> 0, due |-> TRUE, expired |-> FALSE,
   pollInFlight |-> FALSE, resolved |-> FALSE]

\* pruneCache
PruneCache == [h \in Hashes |-> IF cache[h] = "old" THEN "none" ELSE cache[h]]

\* Mutant: callers of one hash do not share an entry
NotQueuedEver(h) == TRUE

\* No entry to share: the wait must queue one
NotQueued(h) == pending[h] = 0

\* waitForTransaction, answered from the cache
WaitCached(w, h) ==
  /\ waiting[w] = 0
  /\ PruneCache[h] # "none"
  /\ cache' = PruneCache
  /\ UNCHANGED <<entries, pending, waiting, workerVars>>

\* waitForTransaction, joining the waiters of a queued hash
WaitCoalesced(w, h) ==
  /\ waiting[w] = 0
  /\ PruneCache[h] = "none"
  /\ ~NotQueued(h)
  /\ cache' = PruneCache
  /\ waiting' = [waiting EXCEPT ![w] = pending[h]]
  /\ UNCHANGED <<entries, pending, workerVars>>

\* waitForTransaction, with a new entry; the sleep that wakeWorker cuts short
\* ends in Resume
WaitQueued(w, h) ==
  LET es == Append(entries, NewEntry(h))
      pend == [pending EXCEPT ![h] = Len(entries) + 1]
  IN  /\ waiting[w] = 0
      /\ PruneCache[h] = "none"
      /\ NotQueued(h)
      /\ Len(entries) < MaxEntries
      /\ cache' = PruneCache
      /\ pending' = pend
      /\ waiting' = [waiting EXCEPT ![w] = Len(entries) + 1]
      /\ IF running
           THEN entries' = es /\ UNCHANGED workerVars
           ELSE Start(es, pend)

\* getConfirmationStatus only reads, but for the outcomes it prunes
GetConfirmationStatus ==
  /\ PruneCache # cache
  /\ cache' = PruneCache
  /\ UNCHANGED <<entries, pending, waiting, workerVars>>

\* The timer of one waiter: its own budget is used up
TimerFires(w) ==
  /\ waiting[w] # 0
  /\ waiting' = [waiting EXCEPT ![w] = 0]
  /\ UNCHANGED <<entries, pending, cache, workerVars>>

\* Mutant: an entry that was settled meanwhile is settled again
UnsettledOrNot(S, es) == S

\* resolveEntry and failEntry return at once for a settled entry
Unsettled(S, es) == {e \in S : ~es[e].resolved}

\* A settled entry: nothing reads its timing and its attempts any more
Settled(entry) == [entry EXCEPT !.attempts = 0, !.due = FALSE,
                                !.expired = FALSE, !.resolved = TRUE]

SettledEntries(S, es) ==
  [e \in DOMAIN es |-> IF e \in Unsettled(S, es) THEN Settled(es[e]) ELSE es[e]]

HashesOf(S, es) == {es[e].hash : e \in Unsettled(S, es)}

Dequeued(S, es) ==
  [h \in Hashes |-> IF h \in HashesOf(S, es) THEN 0 ELSE pending[h]]

\* resolveEntry and failEntry, for each entry of S: answer the waiters, cache
\* the outcome and leave the queue
Settle(S, es) ==
  /\ waiting' = [w \in Waiters |->
                   IF waiting[w] \in Unsettled(S, es) THEN 0 ELSE waiting[w]]
  /\ cache' = [h \in Hashes |-> IF h \in HashesOf(S, es) THEN "fresh" ELSE cache[h]]
  /\ pending' = Dequeued(S, es)

\* pollEntry after its await, up to the next await of its loop, which looks at
\* `running` and scans again
PollEnds(l, S, entriesAfterPoll) ==
  LET es == [entriesAfterPoll EXCEPT ![loops[l].entry].pollInFlight = FALSE] IN
  /\ loops[l].pc = "polling"
  /\ Settle(S, es)
  /\ IF running
       THEN Scan(l, SettledEntries(S, es), Dequeued(S, es))
       ELSE /\ loops' = [loops EXCEPT ![l] = Ended]
            /\ entries' = SettledEntries(S, es)
  /\ UNCHANGED <<running, worker, stops, stopCount>>

\* getTransaction answered SUCCESS or FAILED
PollFindsOutcome(l) ==
  LET e == loops[l].entry IN
  PollEnds(l, {e}, [entries EXCEPT ![e].attempts = @ + 1])

\* Mutant: one attempt too many
OutOfAttemptsLate(attempts) == attempts > MaxAttempts

OutOfAttempts(attempts) == attempts >= MaxAttempts

\* getTransaction answered NOT_FOUND: give up, or poll again after a backoff
PollNotFound(l) ==
  LET e == loops[l].entry
      attempts == entries[e].attempts + 1
      timedOut == entries[e].expired \/ OutOfAttempts(attempts)
  IN  PollEnds(l, IF timedOut THEN {e} ELSE {},
        [entries EXCEPT ![e].attempts = attempts, ![e].due = timedOut /\ @])

\* Mutant: a failing RPC is retried for ever
GiveUpNever(e) == FALSE

\* An RPC error is no attempt, it gives up only once the deadline has passed
GiveUpOnError(e) == entries[e].expired

\* getTransaction threw
PollThrows(l) ==
  LET e == loops[l].entry IN
  PollEnds(l, IF GiveUpOnError(e) THEN {e} ELSE {}, [entries EXCEPT ![e].due = FALSE])

\* The sleep of an idle loop ends: by its timer of at most 60 s, or at once
\* by wakeWorker
Resume(l) ==
  /\ loops[l] = Idle
  /\ Pollable(entries, pending) # {}
  /\ Scan(l, entries, pending)
  /\ UNCHANGED <<pending, cache, waiting, running, worker, stops, stopCount>>

\* stopConfirmationWorker, up to its await of workerPromise: wakeWorker lets
\* the loops that sleep see the flag, a loop in a poll sees it afterwards
StopConfirmationWorker ==
  /\ running
  /\ stopCount < MaxStops
  /\ running' = FALSE
  /\ stops' = stops \cup {worker}
  /\ stopCount' = stopCount + 1
  /\ loops' = [l \in Loops |-> IF loops[l] = Idle THEN Ended ELSE loops[l]]
  /\ UNCHANGED <<queueVars, worker>>

\* stopConfirmationWorker after its await: what is still queued is rejected
StopFinishes(k) ==
  /\ k \in stops
  /\ k \in Loops => loops[k] = Ended
  /\ LET queued == {pending[h] : h \in Hashes} \ {0} IN
     /\ Settle(queued, entries)
     /\ entries' = SettledEntries(queued, entries)
  /\ worker' = NoLoop
  /\ stops' = stops \ {k}
  /\ UNCHANGED <<running, loops, stopCount>>

\* Time: nextPollAt of an entry is reached
BecomesDue(e) ==
  /\ e \in DOMAIN entries
  /\ ~entries[e].due /\ ~entries[e].resolved
  /\ entries' = [entries EXCEPT ![e].due = TRUE]
  /\ UNCHANGED <<pending, cache, waiting, workerVars>>

\* Time: the deadline of an entry passes
DeadlinePasses(e) ==
  /\ e \in DOMAIN entries
  /\ ~entries[e].expired /\ ~entries[e].resolved
  /\ entries' = [entries EXCEPT ![e].expired = TRUE]
  /\ UNCHANGED <<pending, cache, waiting, workerVars>>

\* Time: a cached outcome passes its TTL
CacheAges(h) ==
  /\ cache[h] = "fresh"
  /\ cache' = [cache EXCEPT ![h] = "old"]
  /\ UNCHANGED <<entries, pending, waiting, workerVars>>

PollReturns(l) == PollFindsOutcome(l) \/ PollNotFound(l) \/ PollThrows(l)

Next ==
  \/ StartConfirmationWorker
  \/ StopConfirmationWorker
  \/ \E w \in Waiters, h \in Hashes :
       WaitCached(w, h) \/ WaitCoalesced(w, h) \/ WaitQueued(w, h)
  \/ GetConfirmationStatus
  \/ \E w \in Waiters : TimerFires(w)
  \/ \E l \in Loops : PollReturns(l) \/ Resume(l)
  \/ \E k \in Loops \cup {NoLoop} : StopFinishes(k)
  \/ \E e \in 1 .. MaxEntries : BecomesDue(e) \/ DeadlinePasses(e)
  \/ \E h \in Hashes : CacheAges(h)

\* Timers fire, promises settle and RPC calls end (with an answer or an
\* error); nobody has to wait, to stop the worker or to find an outcome.
Fairness ==
  /\ \A l \in Loops : WF_vars(PollReturns(l)) /\ WF_vars(Resume(l))
  /\ \A k \in Loops \cup {NoLoop} : WF_vars(StopFinishes(k))
  /\ \A e \in 1 .. MaxEntries : WF_vars(BecomesDue(e)) /\ WF_vars(DeadlinePasses(e))

Spec == Init /\ [][Next]_vars /\ Fairness

-----------------------------------------------------------------------------

\* Every variable of the queue and of its loops keeps its type, and an entry
\* in the queue has attempts left.
TypeOK ==
  /\ entries \in Seq(Entry) /\ Len(entries) <= MaxEntries
  /\ \A e \in DOMAIN entries :
       entries[e].resolved \/ entries[e].attempts < MaxAttempts
  /\ pending \in [Hashes -> 0 .. Len(entries)]
  /\ cache \in [Hashes -> {"none", "fresh", "old"}]
  /\ waiting \in [Waiters -> 0 .. Len(entries)]
  /\ running \in BOOLEAN
  /\ loops \in [Loops -> {Ended, Idle} \cup {Polling(e) : e \in DOMAIN entries}]
  /\ worker \in Loops \cup {NoLoop}
  /\ stops \subseteq Loops \cup {NoLoop}
  /\ stopCount \in 0 .. MaxStops

\* pollInFlight: however many loops a stop and a wait leave behind, an entry
\* is polled by one of them at a time, so its attempts are counted once.
OnePollPerEntry ==
  \A k, l \in Loops :
    k # l /\ loops[k].pc = "polling" => loops[k] # loops[l]

\* The entry a caller waits on is the one queued for its hash and is not
\* settled: a waiter whose entry left the queue would only see its timer.
WaitersHaveAnEntry ==
  \A w \in Waiters : waiting[w] # 0 =>
    /\ ~entries[waiting[w]].resolved
    /\ pending[entries[waiting[w]].hash] = waiting[w]

\* A cached outcome is final until it is pruned: its hash is not queued, and
\* what a poll finds late, after a stop has rejected its entry, does not renew
\* the outcome that callers and the status endpoint were given.
OutcomeIsFinal ==
  [][\A h \in Hashes : cache[h] # "none" =>
       pending[h] = 0 /\ cache'[h] \in {cache[h], "old", "none"}]_vars

\* With its shared entries, its loops and its stops the queue implements what
\* waitForTransaction promises: all who wait for a hash are answered together
\* by one outcome, which later callers are given as well; no caller is left
\* behind on an entry that is not polled, or waits although the outcome is
\* cached.
Awaited ==
  {c \in Waiters \X Hashes : waiting[c[1]] # 0 /\ entries[waiting[c[1]]].hash = c[2]}
Known == {h \in Hashes : cache[h] # "none"}

Queue == INSTANCE Confirmations WITH
  Hash <- Hashes, Caller <- Waiters, awaited <- Awaited, known <- Known

ImplementsConfirmations == Queue!Spec

\* Every queued entry is settled at last, by an outcome, by its deadline
\* (checked after answers and after errors) or by the stop, although the
\* worker polls one entry at a time and always the first that is due.
EntriesResolve ==
  \A e \in 1 .. MaxEntries :
    e \in DOMAIN entries ~> (e \in DOMAIN entries /\ entries[e].resolved)
=============================================================================
