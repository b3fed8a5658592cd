------------------------------ MODULE Cluster ------------------------------
(***************************************************************************)
(* The cluster mode of the relayer backend (backend/src/services/cluster.ts*)
(* with the lock of stellar.ts): one primary process that keeps the        *)
(* sequence lock and elects the leader, and worker processes that serve    *)
(* the HTTP requests.  The two sides talk over one FIFO IPC channel per    *)
(* worker and direction.                                                   *)
(*                                                                         *)
(* A request is one call of withSequenceLock in a worker: it is "pending"  *)
(* from the ACQUIRE message until the answer or the timeout, and "inside"  *)
(* while it runs the function that builds and submits the transaction.     *)
(* The end of a worker's process and the end of its channel come before    *)
(* the primary's exit event, so what the worker sent is read before it or  *)
(* is lost with the channel.                                               *)
(***************************************************************************)
EXTENDS Naturals, Sequences, FiniteSets

CONSTANTS
    NumWorkers,     \* config.clusterWorkers
    MaxWorkers,     \* bound: worker ids ever forked
    MaxRequests,    \* bound: lock requests ever made
    None            \* the null of currentLockHolder and leaderWorkerId

ASSUME ClusterAssumption ==
    /\ NumWorkers \in Nat \ {0}
    /\ MaxWorkers \in Nat /\ NumWorkers <= MaxWorkers
    /\ MaxRequests \in Nat
    /\ None \notin Nat /\ None \notin Nat \X Nat

VARIABLES
    \* the primary
    active,       \* activeWorkers: the ids; the Map keeps them in the order of
                  \* the forks, which is that of the ids
    leader,       \* leaderWorkerId
    queue,        \* sequenceLockQueue: pairs <<worker, request>>, by arrival
    arrivals,     \* numbers given out in that queue
    holder,       \* currentLockHolder: such a pair, or None
    shutting,     \* masterShuttingDown
    \* the channels
    toPrimary, toWorker,
    \* the workers
    forked,       \* how many ids were given out
    alive,        \* the workers whose process runs
    pending,      \* pendingIpcRequests of each worker
    inside,       \* requests of each worker inside the critical section
    conn,         \* requests whose HTTP connection is still open
    isLeader,     \* _isLeader of each worker
    draining,     \* workers in gracefulShutdown
    \* history
    issued,       \* requests made so far
    timedOut,     \* requests that gave up waiting for the grant
    cutShort      \* requests that were inside when a drained worker exited

primaryVars == <<active, leader, queue, arrivals, holder, shutting>>
workerVars == <<forked, alive, pending, inside, conn, isLeader, draining>>
history == <<issued, timedOut, cutShort>>
vars == <<primaryVars, toPrimary, toWorker, workerVars, history>>

Worker == 1 .. MaxWorkers
Request == 1 .. MaxRequests
Claim == Worker \X Request

ToPrimaryMsg == [type : {"ACQUIRE"}, req : Request] \cup [type : {"RELEASE"}]
ToWorkerMsg == [type : {"GRANTED"}, req : Request]
               \cup [type : {"LEADER"}, isLeader : BOOLEAN]
               \cup [type : {"SHUTDOWN"}]

TypeOK ==
    /\ active \subseteq Worker
    /\ leader \in Worker \cup {None}
    /\ arrivals \in 0 .. MaxRequests
    /\ DOMAIN queue \subseteq 1 .. arrivals
    /\ queue \in [DOMAIN queue -> Claim]
    /\ holder \in Claim \cup {None}
    /\ shutting \in BOOLEAN
    /\ toPrimary \in [Worker -> Seq(ToPrimaryMsg)]
    /\ toWorker \in [Worker -> Seq(ToWorkerMsg)]
    /\ forked \in 0 .. MaxWorkers
    /\ alive \subseteq Worker
    /\ pending \in [Worker -> SUBSET Request]
    /\ inside \in [Worker -> SUBSET Request]
    /\ conn \subseteq Request
    /\ isLeader \in [Worker -> BOOLEAN]
    /\ draining \subseteq Worker
    /\ issued \in 0 .. MaxRequests
    /\ timedOut \subseteq Request
    /\ cutShort \subseteq Request

----------------------------------------------------------------------------
(* The primary *)

\* w.send to every active worker that is connected.
Broadcast(chan, ws, msg) ==
    [w \in Worker |-> IF w \in ws THEN Append(chan[w], msg[w]) ELSE chan[w]]

\* Mutant: the newest worker leads, and the old leader is not told in order.
ElectedNewest(ws, cur) ==
    IF ws = {} THEN None ELSE CHOOSE w \in ws : \A v \in ws : v <= w

\* updateLeader: keep the leader while it is active, else the first worker.
ElectedLeader(ws, cur) ==
    IF ws = {} THEN None
    ELSE IF cur \in ws THEN cur ELSE CHOOSE w \in ws : \A v \in ws : w <= v

Announce(chan, ws, lead) ==
    Broadcast(chan, ws, [w \in Worker |-> [type |-> "LEADER", isLeader |-> w = lead]])

QueueOf(q, T) == [t \in T |-> q[t]]

\* Mutant: no connected test, the first queued claim is granted.
NextGrantBlind(q) ==
    IF DOMAIN q = {} THEN [holder |-> None, queue |-> q]
    ELSE LET i == CHOOSE j \in DOMAIN q : \A k \in DOMAIN q : j <= k
         IN  [holder |-> q[i], queue |-> QueueOf(q, DOMAIN q \ {i})]

\* processNextLockRequest: the first queued claim of a connected worker is
\* granted, the ones before it are dropped.
NextGrant(q) ==
    LET live == {i \in DOMAIN q : q[i][1] \in alive}
    IN  IF live = {} THEN [holder |-> None, queue |-> QueueOf(q, {})]
        ELSE LET i == CHOOSE j \in live : \A k \in live : j <= k
             IN  [holder |-> q[i], queue |-> QueueOf(q, {k \in DOMAIN q : k > i})]

\* worker.send; to a worker whose process ended it has no effect.
Grant(chan, claim) ==
    IF claim = None THEN chan
    ELSE IF claim[1] \notin alive THEN chan
    ELSE [chan EXCEPT ![claim[1]] =
             Append(@, [type |-> "GRANTED", req |-> claim[2]])]

\* Mutant: another worker's claim waits, a second one of the holder does not.
HandleAcquireReentrant(w, msg) ==
    /\ msg.type = "ACQUIRE"
    /\ IF holder = None \/ holder[1] = w
       THEN /\ holder' = <<w, msg.req>>
            /\ toWorker' = Grant(toWorker, <<w, msg.req>>)
            /\ UNCHANGED <<queue, arrivals>>
       ELSE /\ arrivals' = arrivals + 1
            /\ queue' = [t \in DOMAIN queue \cup {arrivals + 1} |->
                            IF t = arrivals + 1 THEN <<w, msg.req>> ELSE queue[t]]
            /\ UNCHANGED <<holder, toWorker>>

\* handleWorkerMessage, SEQUENCE_LOCK_ACQUIRE
HandleAcquire(w, msg) ==
    /\ msg.type = "ACQUIRE"
    /\ IF holder = None
       THEN /\ holder' = <<w, msg.req>>
            /\ toWorker' = Grant(toWorker, <<w, msg.req>>)
            /\ UNCHANGED <<queue, arrivals>>
       ELSE /\ arrivals' = arrivals + 1
            /\ queue' = [t \in DOMAIN queue \cup {arrivals + 1} |->
                            IF t = arrivals + 1 THEN <<w, msg.req>> ELSE queue[t]]
            /\ UNCHANGED <<holder, toWorker>>

\* handleWorkerMessage, SEQUENCE_LOCK_RELEASE: the message names no request,
\* so any release of the worker that holds the lock frees it.
HandleRelease(w, msg) ==
    /\ msg.type = "RELEASE"
    /\ IF holder # None /\ holder[1] = w
       THEN LET g == NextGrant(queue)
            IN  /\ holder' = g.holder
                /\ queue' = g.queue
                /\ toWorker' = Grant(toWorker, g.holder)
       ELSE UNCHANGED <<holder, queue, toWorker>>
    /\ UNCHANGED arrivals

PrimaryReceive(w) ==
    /\ toPrimary[w] # <<>>
    /\ toPrimary' = [toPrimary EXCEPT ![w] = Tail(@)]
    /\ \/ HandleAcquire(w, Head(toPrimary[w]))
       \/ HandleRelease(w, Head(toPrimary[w]))
    /\ UNCHANGED <<active, leader, shutting, workerVars, history>>

\* cluster.on("exit"): free and hand on the lock of the dead worker, drop its
\* queued claims, elect and announce a leader, and fork a replacement, which
\* is announced again.
WorkerExit(w) ==
    LET held == holder # None /\ holder[1] = w
        g == IF held THEN NextGrant(queue) ELSE [holder |-> holder, queue |-> queue]
        left == active \ {w}
        lead1 == ElectedLeader(left, leader)
        granted == IF held THEN Grant(toWorker, g.holder) ELSE toWorker
        sent1 == Announce(granted, left \cap alive, lead1)
        n == forked + 1
        lead2 == ElectedLeader(left \cup {n}, lead1)
    IN  /\ w \in active \ alive
        /\ toPrimary[w] = <<>>
        /\ holder' = g.holder
        /\ queue' = QueueOf(g.queue, {t \in DOMAIN g.queue : g.queue[t][1] # w})
        /\ \/ /\ ~shutting
              /\ n \in Worker
              /\ forked' = n
              /\ alive' = alive \cup {n}
              /\ active' = left \cup {n}
              /\ leader' = lead2
              /\ toWorker' = Announce(sent1, (left \cap alive) \cup {n}, lead2)
           \/ /\ shutting
              /\ active' = left
              /\ leader' = lead1
              /\ toWorker' = sent1
              /\ UNCHANGED <<forked, alive>>
        /\ UNCHANGED <<arrivals, shutting, toPrimary, pending, inside, conn, isLeader,
                       draining, history>>

\* handleMasterShutdown
MasterShutdown ==
    /\ ~shutting
    /\ shutting' = TRUE
    /\ toWorker' = Broadcast(toWorker, active \cap alive,
                             [w \in Worker |-> [type |-> "SHUTDOWN"]])
    /\ UNCHANGED <<active, leader, queue, arrivals, holder, toPrimary, workerVars,
                   history>>

----------------------------------------------------------------------------
(* A worker *)

\* withSequenceLock -> acquireClusterSequenceLock -> sendIpcRequest.  The
\* handler was accepted before a drain, but may come this far during it, and
\* its client may be gone by now.
Acquire(w) ==
    /\ w \in alive
    /\ issued < MaxRequests
    /\ issued' = issued + 1
    /\ pending' = [pending EXCEPT ![w] = @ \cup {issued + 1}]
    /\ conn' \in {conn, conn \cup {issued + 1}}
    /\ toPrimary' = [toPrimary EXCEPT ![w] =
                        Append(@, [type |-> "ACQUIRE", req |-> issued + 1])]
    /\ UNCHANGED <<primaryVars, toWorker, forked, alive, inside, isLeader,
                   draining, timedOut, cutShort>>

\* The timer of sendIpcRequest: the caller fails, the primary is not told.
RequestTimeout(w, r) ==
    /\ r \in pending[w]
    /\ pending' = [pending EXCEPT ![w] = @ \ {r}]
    /\ conn' = conn \ {r}
    /\ timedOut' = timedOut \cup {r}
    /\ UNCHANGED <<primaryVars, toPrimary, toWorker, forked, alive, inside,
                   isLeader, draining, issued, cutShort>>

\* The client goes away; the work it asked for goes on.
Disconnect(r) ==
    /\ r \in conn
    /\ conn' = conn \ {r}
    /\ UNCHANGED <<primaryVars, toPrimary, toWorker, forked, alive, pending,
                   inside, isLeader, draining, history>>

\* Mutant: fn's error path skips the release.
ReleaseForgotten(w, r) ==
    /\ r \in inside[w]
    /\ inside' = [inside EXCEPT ![w] = @ \ {r}]
    /\ conn' = conn \ {r}
    /\ UNCHANGED <<primaryVars, toPrimary, toWorker, forked, alive, pending,
                   isLeader, draining, history>>

\* The finally of withSequenceLock, after fn ended either way.
Release(w, r) ==
    /\ r \in inside[w]
    /\ inside' = [inside EXCEPT ![w] = @ \ {r}]
    /\ conn' = conn \ {r}
    /\ toPrimary' = [toPrimary EXCEPT ![w] = Append(@, [type |-> "RELEASE"])]
    /\ UNCHANGED <<primaryVars, toWorker, forked, alive, pending, isLeader,
                   draining, history>>

\* Mutant: a grant is taken whether its request still waits or not.
ReceiveGrantLate(w, msg) ==
    /\ msg.type = "GRANTED"
    /\ pending' = [pending EXCEPT ![w] = @ \ {msg.req}]
    /\ inside' = [inside EXCEPT ![w] = @ \cup {msg.req}]
    /\ UNCHANGED <<isLeader, draining>>

\* A grant that no pending request waits for is ignored.
ReceiveGrant(w, msg) ==
    /\ msg.type = "GRANTED"
    /\ IF msg.req \in pending[w]
       THEN /\ pending' = [pending EXCEPT ![w] = @ \ {msg.req}]
            /\ inside' = [inside EXCEPT ![w] = @ \cup {msg.req}]
       ELSE UNCHANGED <<pending, inside>>
    /\ UNCHANGED <<isLeader, draining>>

ReceiveLeader(w, msg) ==
    /\ msg.type = "LEADER"
    /\ isLeader' = [isLeader EXCEPT ![w] = msg.isLeader]
    /\ UNCHANGED <<pending, inside, draining>>

ReceiveShutdown(w, msg) ==
    /\ msg.type = "SHUTDOWN"
    /\ draining' = draining \cup {w}
    /\ UNCHANGED <<pending, inside, isLeader>>

\* process.on("message") of initWorkerIpc
WorkerReceive(w) ==
    /\ w \in alive
    /\ toWorker[w] # <<>>
    /\ toWorker' = [toWorker EXCEPT ![w] = Tail(@)]
    /\ \/ ReceiveGrant(w, Head(toWorker[w]))
       \/ ReceiveLeader(w, Head(toWorker[w]))
       \/ ReceiveShutdown(w, Head(toWorker[w]))
    /\ UNCHANGED <<primaryVars, toPrimary, forked, alive, conn, history>>

\* The process ends: its memory and what was sent to it are gone.
Die(w) ==
    /\ alive' = alive \ {w}
    /\ pending' = [pending EXCEPT ![w] = {}]
    /\ inside' = [inside EXCEPT ![w] = {}]
    /\ conn' = conn \ (pending[w] \cup inside[w])
    /\ isLeader' = [isLeader EXCEPT ![w] = FALSE]
    /\ draining' = draining \ {w}
    /\ toWorker' = [toWorker EXCEPT ![w] = <<>>]
    /\ UNCHANGED <<primaryVars, toPrimary, forked, issued, timedOut>>

\* A crash, a SIGKILL, or the forceExitTimer of a drain that takes too long.
\* The bound on worker ids stops crashes that no replacement could follow.
Crash(w) ==
    /\ w \in alive
    /\ shutting \/ forked + Cardinality(active \ alive) < MaxWorkers
    /\ Die(w)
    /\ UNCHANGED cutShort

\* inFlightLockOps: the cluster branch of withSequenceLock returns before the
\* counter is touched.
InFlightLockOps(w) == 0

\* gracefulShutdown of a worker: the HTTP server has closed its connections
\* and waitForSequenceLockIdle answers.
DrainExit(w) ==
    /\ w \in alive \cap draining
    /\ conn \cap (pending[w] \cup inside[w]) = {}
    /\ InFlightLockOps(w) = 0
    /\ Die(w)
    /\ cutShort' = cutShort \cup inside[w]

----------------------------------------------------------------------------
Init ==
    /\ active = 1 .. NumWorkers
    /\ leader = 1
    /\ queue = <<>>
    /\ arrivals = 0
    /\ holder = None
    /\ shutting = FALSE
    /\ toPrimary = [w \in Worker |-> <<>>]
    /\ toWorker = [w \in Worker |->
          IF w <= NumWorkers THEN <<[type |-> "LEADER", isLeader |-> w = 1]>>
          ELSE <<>>]
    /\ forked = NumWorkers
    /\ alive = 1 .. NumWorkers
    /\ pending = [w \in Worker |-> {}]
    /\ inside = [w \in Worker |-> {}]
    /\ conn = {}
    /\ isLeader = [w \in Worker |-> FALSE]
    /\ draining = {}
    /\ issued = 0
    /\ timedOut = {}
    /\ cutShort = {}

WorkerStep(w) ==
    \/ Acquire(w)
    \/ WorkerReceive(w)
    \/ \E r \in Request : RequestTimeout(w, r) \/ Release(w, r)
    \/ Crash(w)
    \/ DrainExit(w)

Next ==
    \/ \E w \in Worker : PrimaryReceive(w) \/ WorkerExit(w) \/ WorkerStep(w)
    \/ \E r \in Request : Disconnect(r)
    \/ MasterShutdown

\* Every process keeps reading its channel, the primary gets its exit events,
\* and fn ends. The last is assumed of the RPC client: fn awaits calls, such as
\* getAccount, that no timeout of the backend bounds.
Fairness ==
    \A w \in Worker :
        /\ WF_vars(PrimaryReceive(w))
        /\ WF_vars(WorkerExit(w))
        /\ WF_vars(WorkerReceive(w))
        /\ \A r \in Request : WF_vars(Release(w, r))

Spec == Init /\ [][Next]_vars /\ Fairness

----------------------------------------------------------------------------
(* Properties *)

\* "Prevents nonce race conditions": over all workers, at most one request is
\* between the grant and the release, whatever times out or dies meanwhile.
MutualExclusion ==
    \A v, w \in Worker : \A r \in inside[v], s \in inside[w] : <<v, r>> = <<w, s>>

\* After the exit event of a worker the lock is neither held by it nor ever
\* handed to it: the exit handler hands the lock on before it filters the
\* queue, so this rests on the connected test of processNextLockRequest.
ExitedHoldNothing ==
    \A c \in {queue[t] : t \in DOMAIN queue} \cup ({holder} \ {None}) : c[1] \in active

\* Background services run in the leader only: no two live workers believe
\* they lead, and a live worker that does is the one the primary chose.
AtMostOneLeader ==
    \A w \in alive : isLeader[w] => w = leader

\* The lock over all processes and channels implements the promise that
\* withSequenceLock makes: a request runs its function alone, once at most, and
\* not after its sendIpcRequest was rejected by the timer, however late
\* the grant arrives.
Waiting == UNION {pending[w] : w \in Worker}
Running == UNION {inside[w] : w \in Worker}

Lock == INSTANCE SequenceLock WITH
    Call <- Request, waiting <- Waiting, running <- Running,
    over <- (1 .. issued) \ (Waiting \cup Running)

ImplementsLock == Lock!Spec

\* A grant whose caller has timed out: the primary counts the lock as held
\* and nobody will release it while the worker lives.
Abandoned(c) == c[1] \in alive /\ c[2] \in timedOut

\* A holder that still wants the lock, or whose worker dies, gives it up in
\* the end; the only other fate of a held lock is an abandoned grant.
LockMovesOn ==
    \A c \in Claim : (holder = c) ~> (holder # c \/ Abandoned(c))

\* gracefulShutdown waits for the sequence lock to go idle before it exits,
\* "so a proof is not accepted but never submitted on-chain".
DrainLeavesNothing == cutShort = {}

=============================================================================
