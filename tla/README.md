# ZK-VOTE in TLA+

A model of ZK-VOTE's protocol core: the Soroban contracts that decide who may
vote and count the votes, the Merkle hashing underneath, and the parts of the
relayer backend in which processes, callbacks and failures interleave: the
sequence lock of a cluster, the vote route, the confirmation queue, the event
indexer, the breaker and limiter in front of the RPC, and the pool of Horizon
and anchor endpoints. Paths below are
relative to the repository; `contracts/` is Rust, `backend/` TypeScript.

## 1. Inventory

### Contracts

| Component | State | Operations | Correct when |
|---|---|---|---|
| `contracts/membership-tree` | per DAO: leaves, next leaf index, slot of each member, used commitments, registration cooldown, pending commit-reveal hashes; the window of recent roots, the index of each root, the revocation floor `MinValidRootIdx`, the cap `MaxRoots` | `init_tree`, `register_with_caller`, `self_register`, `register_from_registry`, `commit_registration`/`reveal_registration`, `remove_member`, `reinstate_member`, `set_max_roots`; `root_eligibility`, `root_ok`, `get_merkle_path` | a removed member can prove nothing any more, the remaining ones always can; a commitment is used once; every live leaf has an owner who can be removed |
| its hashing (`insert_leaf`, `update_leaf`) | `LeafValue`, `NodeHash`, the cache `FilledSubtrees` | incremental insertion and zeroing | the root is the root of the stored leaves, and paths lead to it |
| `contracts/membership-sbt` | `Member` and `Revoked` entries | `mint`, `self_join`, `mint_from_registry`, `revoke`, `leave` | registration needs a token |
| `contracts/dao-registry` | `DaoInfo` | `create_and_init_dao`, `set_membership_open` | the founder is token holder and leaf from the start |
| `contracts/voting` | proposals, spent nullifiers, nullifier accumulator, pause | creation, `set_merkle_root`, `activate_proposal`, `close_proposal`, `archive_proposal`, `pause`, `vote`, `cast_votes`, `root_pin` | one counted ballot per secret, from the electorate, while the round is open |
| `circuits/vote*.circom` | none | - | a proof exists exactly for the leaves of its root |
| `comments`, `token`, `rewards`, `threshold-crypto`, `transcript-registry`, `circuit-registry`, `vdf`, `bridge` | their own registries | - | not modelled |

The contracts call each other inside one transaction: voting reads the current
root and asks `root_eligibility`; the tree asks voting's `root_pin` before it
evicts a root; registration asks the SBT contract, and `remove_member` calls
`sbt.revoke`. A Soroban transaction runs alone and a panic reverts it, so there
is no interleaving inside one. What is hard is the order of transactions of
different users: membership changes between the creation of a proposal, its
activation and its votes, while a bounded window of roots moves.

### Backend

| Component | State | Operations | What is hard | Correct when |
|---|---|---|---|---|
| `services/cluster.ts`, lock of `stellar.ts`, drain of `index.ts` | primary: workers, leader, lock holder, lock queue; worker: pending IPC requests, leader flag | acquire, grant, release, exit and respawn, shutdown | late grants, dead workers, two FIFO channels per worker | one submission at a time over all workers, one leader, the lock moves on |
| `routes/voting.ts` (`POST /vote`), tables of `services/db.ts` | commitments, submissions by idempotency key, transaction log, receipts; the relayer's sequence number | reveal, claim, build, simulate, send, confirm, answer | retries, a confirmation that times out with its transaction pending, crashes, rows that age out | what is recorded and answered is true of the ledger |
| `services/confirmation-queue.ts` | `pending`, `resultsCache`, `running`, `workerPromise` | wait, poll, settle, stop | callbacks between awaits, late answers, shutdown during a poll | no waiter is lost, an outcome is final, every entry settles |
| `services/indexer.ts`, event tables | watermark, event rows | poll a window, contract by contract, page by page | failures and crashes between the inserts and the watermark | no event below the watermark is missing |
| `services/circuit-breaker.ts`, `rpc-concurrency.ts` | breaker state, probe flag; slots and queue | execute, acquire, release | calls that outlive a trip of the breaker | the flag has an owner, no slot leaks, no caller starves |
| `services/endpoint-pool.ts` | per endpoint: cooldown, breaker, probe and ledger; the shared retry budget | `execute`, `arbitratedRead`, probes | timeouts whose request is processed later, a choice made before a back-off, calls that share cooldowns and budget | what is not idempotent happens once, cooldowns and budget hold for all callers, calls end |
| supervisor, relayer keys and rotation, storage, bridge service | - | - | - | not modelled (section 6) |

How they interact: the vote route takes the sequence lock (in one process a
promise chain, in a worker the primary's lock over IPC), sends its transaction
through the relay and then waits in the confirmation queue while it still holds
the lock; every RPC call passes breaker and limiter; payments reach Horizon and the anchors
through endpoint pools; the leader of the cluster runs the indexer.

`services/submit-queue.ts` is used by no other module at this commit. The
frontend, the SDK, the scripts and the dashboards keep no protocol state.
`PROJECT.json` lists every component with its status, and the hazards at their
lines.

## 2. Modules

| Module | Models |
|---|---|
| `MembershipTree` | membership-tree, membership-sbt and the part of dao-registry that reaches them, for one DAO |
| `MembershipTree_proofs` | its theorems |
| `Voting`, `Voting_proofs` | the voting contract, composed with an instance of `MembershipTree` whose `pinned` is `root_pin`; its theorems |
| `Election` | the abstract promise of a voting round, without roots |
| `MerkleTree`, `MerkleTree_proofs` | `insert_leaf`, `update_leaf`, `get_merkle_path`, with a free hash; its theorems |
| `Cluster`, `Cluster_proofs` | the cluster's sequence lock, leader and drain; its theorems |
| `SequenceLock` | the abstract promise of `withSequenceLock`: a plain lock |
| `VoteSubmission`, `VoteSubmission_proofs` | `POST /vote` with tables, lock and ledger; its theorems |
| `ConfirmationQueue`, `ConfirmationQueue_proofs` | the confirmation queue of the backend; its theorems |
| `Confirmations` | the abstract promise of `waitForTransaction` |
| `Indexer`, `Indexer_proofs` | the poll cycle and its watermark; its theorems |
| `EventArchive` | the abstract promise of the event tables |
| `RpcGuard` | the breaker around the limiter |
| `EndpointPool` | `execute` of the endpoint pool and its retry budget |
| `RemoteCalls_proofs` | the theorems of `RpcGuard` and `EndpointPool` |
| `MC*` | the small instances |

Definitions whose comment starts with "Mutant" are plausible bugs in the
definition that follows them. No specification uses them; each is substituted
for its neighbour to see that a property notices.

### MembershipTree

Storage is keyed by DAO, so one DAO is enough. Each variable is a storage key.
Each entry point is one action, its guard the conjunction of its checks and of
the checks of the contracts it calls. A root is modelled by the tree it hashes, a
function from slots to leaves: Poseidon is taken to be collision free, and
that the incremental computation really yields the hash of the stored leaves
is what `MerkleTree` shows. A slot never written and a slot zeroed by
`remove_member` hash alike, so the model has roots that are published twice,
which is where `RootIndex` (one key per root) and `Roots` (a list) differ.

`PublishRoot` keeps the order of the code: push, evict (asking `root_pin`),
take the index, store `RootIndex`. `pinned` is an input that may change at
every step; `Voting` replaces it by the real `root_pin`.

No entry point compares a commitment with zero. That `Zero` is no commitment is an
assumption on the hash, as collision freedom is: nobody knows a secret and a salt
whose Poseidon hash is 0. A leaf of 0 would count as a removed one.

Left out: the mint rate limit and the election cooldown of `leave` (they only
delay), `advance_epoch` and post-quantum roots, TTL upkeep and `sweep_dao`,
authorisation (each action is taken by the address the code requires).

### Voting and Election

A ballot is a live leaf of an indexed root, with a choice. That is the
assumption on the proof system and what `circuits/vote_template.circom` constrains: a
proof exists exactly for the leaves of its root, and its nullifier is a function of
secret and proposal. Two commitments may come
from one secret (another salt), so a voter can hold two leaves with one
nullifier. `Vote` and `CastVotes` make all the checks of `vote` and
`cast_votes`: pause, state, end time, nullifiers, root by mode, distinct
nullifiers inside a batch. Histories (`slotOwner`, `ballots`) only serve
properties. A verification key is assumed to be set; who may propose is the
constant `Proposers`. `set_commitment_window` can be called by anybody, so the
commitment window constrains nothing in `SetMerkleRoot`.

`Election` has no roots: a ballot is cast by a commitment that is a leaf *now*
and belongs to the electorate, once per secret, while the round is open.
`Voting!ImplementsElection` states the refinement: the electorate is the leaf
set of the snapshot (Fixed) or everybody (Trailing). It holds only because the
revocation floor makes an accepted root a subset of the current tree.

Left out: encrypted, weighted, quadratic, BLS12-381, per-circuit and bridged
ballots, tally proofs, key versions, randomness and VDF ordering, voter
cooldowns. `close_proposal` writes `trailing_finalized_at` (lib.rs:4755), which
is no field of `ProposalInfo` at this commit; the model ignores it.

### MerkleTree

Nodes are terms of a free hash (a pair of its children). `LeafValue`,
`NodeHash` and `FilledSubtrees` are kept separately, as in storage, and
`insert_leaf` looks a left sibling up in the first two before it falls back on
the cache. `Ancestors` and `PathHashes` are `current_index` and `current_hash` of the
loops over the levels, written as functions of the level. `RootIsReference`
compares the root and every stored node with a direct definition (`NodesOver`)
over `Tree`, the leaves, which is what `MembershipTree` takes for a root.

### ConfirmationQueue

One action per callback of the event loop, up to the next await. An entry of
`entries` is a `PendingEntry`; `pending` says which one is queued for a hash; a
loop is one execution of `workerLoop`, `worker` is `workerPromise`, and `stops`
are the promises that unfinished stop calls await. Time is abstract: an entry
becomes due, an entry expires, a cached outcome passes its TTL, a waiter's timer
fires. SUCCESS and FAILED are one case, since both settle an entry. The backoff
formula, metrics, the WebSocket broadcast and `pollDirectly` (the queue switched
off) are left out. `getConfirmationStatus` is its pruning.

`Confirmations` has no queue: callers await transactions, an outcome answers
everybody who awaits its transaction and is known until it is forgotten, and no
second outcome is found meanwhile. `ImplementsConfirmations` maps a caller to the
hash of the entry it waits on and the known hashes to those in the cache.

### Cluster

State is that of the primary (`activeWorkers`, a set of
ids since the Map's order is that of forking, `leaderWorkerId`, `sequenceLockQueue`, `currentLockHolder`,
`masterShuttingDown`), of each worker (`pendingIpcRequests`, the calls inside
`withSequenceLock`, `_isLeader`, open connections) and one FIFO channel per
worker and direction. One action is one message handled, one timer, or one
process event. `RequestTimeout` forgets the pending request, so a `GRANTED`
that arrives later is dropped: the primary still counts the lock as held, and
only the exit of that worker frees it (`Abandoned`). `WorkerExit` keeps the
order of the handler: hand the lock on, filter the queue, elect, respawn. The
channel is read to its end, or lost, before the primary sees the exit event.
A worker that drains may still ask for the lock, for a request it had accepted
before, whose client may be gone by then (`Acquire`).
`DrainExit` is `gracefulShutdown` in a worker once its connections are closed;
`InFlightLockOps` is the counter it waits for, which is 0 there. Left out: the
rate-limit and metrics messages, and a non-cluster process, whose promise chain
is the queue of `VoteSubmission`.

`SequenceLock` is the lock that a caller of `withSequenceLock` believes in: it
waits, enters when nobody is inside, and is over. `ImplementsLock` maps
`pendingIpcRequests` to those who wait and `inside` to those who run; messages,
holder and queue disappear. Besides exclusion it says that no call runs twice, or
after it was told of a timeout, however late its grant is.

### VoteSubmission

A request carries a nullifier and an idempotency key (the header or the
nullifier). The steps are the route's statements between awaits: look for a
receipt, reveal the commitment, look the key up, claim it with `INSERT OR
IGNORE`, read it again when that lost, validate, take the lock, read the account,
simulate, send, wait, answer; `Catch` is the route's catch block. `lock` are the
callers of `withVoteSequenceLock` and `ahead` those each of them waits for, which
is the chain of promises; who waits for nobody is inside. The ledger
side is external: a pending transaction succeeds, fails or expires, and a second
transaction on the sequence number of a pending one is turned away at the send.
`GiveUp` is the timeout of the confirmation: the handler ends and passes the
lock on, the transaction stays pending. `Crash` ends all handlers and the lock
and keeps tables and ledger. `clashed`, `abandoned` and `lapsed` are histories.
`GetAccount` reads the sequence of the ledger as it is. That is an assumption:
`getAccount` goes through `RpcPoolManager` (stellar.ts:1002), and an endpoint that lags
could answer an older sequence, so `ClashOnlyAfterAbandon` is claimed for endpoints
that have seen the last confirmed transaction.
Left out: `POST /vote/batch` and the other routes that take the lock, the relay
quorum, failing database statements. The `ERROR` branch of the route
(voting.ts:932-950) is unreachable, since `submitToRelayQuorum` throws first; the
vote job queue and the split-phase lock have no caller.

### Indexer

One process, started again and again. A cycle fixes its window (`WindowEnd`),
reads each contract page by page, stores the events and moves the watermark
unless a contract failed and was counted. A crash or a database error may leave any
part of a contract's inserts behind. The catch block around a contract counts a failure
(`RpcError`, `DbError`) unless its message contains "not found" (`NotFound`,
indexer.ts:393); the contract is then left as if it had been read. `skipped` are those
contracts of the cycle, and `unread` is a history of the keys that the watermark passed
without a row because of them. `CycleFails` is an error outside that block: of
`getLatestLedger`, or of a write of the watermark. Event types are listed (stored), unlisted (`addEvent`
throws) or without a DAO (skipped); a row is identified by ledger, transaction and
type, as the table's UNIQUE says, and there is one transaction per ledger and
contract. A process runs one cycle only, see section 5. Left out: pending
notifications and their verification (unreachable for the same reason), the
scheduler of `indexer-scheduler.ts` (never constructed), an RPC endpoint that lags
behind another one.

`EventArchive` is what the readers of the tables rely on: ledgers close and publish
rows, some of these are stored, and the watermark moves up to a ledger up to which
none is missing but rows that the source `denied`. Rows below the watermark cannot be
denied afterwards. `ImplementsArchive` maps the chain to the keys of its listed events,
and `denied` to `Denied`: what the skipped contracts of the cycle still miss in its
window, and `unread`.

### RpcGuard

`execute` is admitted, waits for a slot or is refused, runs, releases its slot
and settles with the breaker in a later step, since promise continuations lie in
between. `failures` is the number of failures in the window, `due` that
`resetTimeoutMs` have passed. `probes` is a history that tells the call of this
half-open period from one of an earlier period. A caller that timed out leaves
its call running. The queue-full error is thrown inside `execute` and so counts as
a failure of the service. `RpcPoolManager` below it is left out.

### EndpointPool

A call runs `execute` in steps from await to await: select and attempt, the
attempt's end, the wake-up after a back-off. `cooling` are the endpoints whose
`cooldownUntil` lies ahead; `requests` and `retries` are the two lists of
`RetryBudget`, counted by age in ticks, of which the entries of age up to
`Window` have survived `prune` (older ones are kept for the property only).
Whether an endpoint is healthy, fresh or behind an open breaker is decided
elsewhere and may change at any moment, so a selection ranges over all such sets,
and over every candidate, since scores only weigh them. `unknown` and `processed`
are the server's side of a request that is not idempotent: after an ambiguous
failure the server may process it at any later time (`ProcessesLate`, external).
The assumption is the code's own: 429, 502, 503, a refused connection and an open
breaker mean that the request was not processed. Left out: probes and the
arithmetic of freshness, latency and error averages, `arbitratedRead`, metrics.

## 3. Runs

| Run | Instance | Shows |
|---|---|---|
| `membership_tree` | 2 members, 3 commitments, 2 slots, window of 2 or 3, arbitrary pins | the five properties of the tree |
| `voting` | rounds that open at once; 3 slots, window 3, 4 publications | one ballot per member on Fixed, pins keep the snapshot, refinement of `Election` |
| `voting_registration` | the whole life cycle with registration phase, pauses and deadlines; 2 slots | tally and nullifiers agree, refinement of `Election` |
| `merkle_tree` | depth 3, 2 commitments | `RootIsReference`, `PathsReproduceRoot` |
| `cluster` | 2 workers and one replacement, 2 lock requests | `MutualExclusion`, `ExitedHoldNothing`, `AtMostOneLeader`; refinement of `SequenceLock`; `LockMovesOn`: a held lock is given up unless its grant came too late |
| `vote_submission` | 1 ballot sent three times under one key | `RecordsAreTrue`, `ClashOnlyAfterAbandon`, `OneSubmitterPerKey`, `EveryRequestEnds` |
| `confirmation_queue` | 2 hashes, 2 callers, 2 loops, 2 entries, 2 attempts, 2 stops | no lost waiter, no overwritten outcome, refinement of `Confirmations`, every entry settles |
| `indexer` | 2 contracts, 3 ledgers, windows of 2, pages of 1, 2 events | `WatermarkCovers`: below the watermark nothing is missing but what "not found" was answered for; refinement of `EventArchive` with that exception; `RestartsCatchUp`: restarts alone reach every ledger |
| `rpc` | 4 calls, threshold 2, 1 slot, queue of 2 | `SlotsAccounted`, `FlagHasOwner`, `WaitersAreServed` |
| `endpoint_pool` | 2 calls, 2 endpoints, 3 attempts, budget of 1 or one retry per request, window of 1 tick | `ProcessedOnce`, `RetriesWithinBudget`, `CooldownHonoured`, `CallsEnd` |
| `cluster_drain`, `indexer_stalls` | as above | disagreements with comments or documents, section 5 |

Bounds and why they suffice:

- Two members and two slots let a member register, be removed, be reinstated and
  register again while another one stays. `MaxPublished = 5` never binds there:
  two slots allow at most four publications.
- A window of 2 or 3 roots with 4 publications makes evictions, evictions of a
  root published twice and refused evictions of pinned roots happen. With the
  window of 2, a pinned snapshot blocks the third publication; `voting` uses 3
  so that a member can be removed and come back while the round is open.
- `voting` does not go on exploring past a pause, a closed or ended round, a
  round with an end time or an open membership (`Focused`);
  `voting_registration` explores the first three, and `membership_tree` the last.
- Depth 3 has left subtrees at three levels, enough for the cache to be stale
  at an inner one.
- Two loops are as many as one stop and one wait can leave behind; a third
  execution takes the place of one that ended. `MaxStops = 2` is the exported
  function called twice.
- Two workers and two requests are enough for a request to time out, its grant
  to come late, its worker to exit with the other request queued, and a
  replacement to join. `MaxWorkers = 3` allows one respawn, which can lead.
- Three requests with one key: one that is abandoned or dies, one that finds its
  row, one after the row has aged out. With one ballot every request competes for
  the same rows, which is the hard case; a second ballot only meets the first in
  the lock.
- Three ledgers in windows of two give a window that is cut and one that is not;
  two events with pages of one give a second page, and events of each type.
- Four calls are one at the service, two queued and one refused; with threshold
  2 calls of before a trip are still there in the half-open period.
- Two calls with three attempts at two endpoints: both endpoints fail, one is
  tried again after a back-off while the other call puts it in cooldown, and the
  budget is exhausted and renewed. `quote` (fails over, needs freshness) and
  `submit_non_idempotent` (neither) are the two ends of the matrix. Ages up to two
  windows are what `RetriesWithinBudget` looks back on.
- Symmetry is used for members, commitments and nowhere with liveness.

Deadlock is checked for the contracts, the indexer, the guard and the pool. `merkle_tree`,
the queue, the cluster and the vote route say `CHECK_DEADLOCK FALSE`: a full tree
whose leaves are all removed accepts no more operations, a queue without callers
is at rest, a cluster that was shut down or a route that has answered the last
request has nothing to do.

### Fairness

The contracts get none: nothing obliges a user to send a transaction, so only
safety is claimed. The queue assumes weak fairness of what the runtime does by
itself: timers fire, promise continuations run, an RPC call ends with an answer
or an error. No fairness is assumed of callers, of a stop, or of the network
ever finding a transaction. Under it `EntriesResolve` holds because the
deadline is checked after answers and after errors, and because each of the
earlier entries, which the scan prefers, is settled in the end.

- `Cluster`: processes keep reading their channels, the primary gets its exit
  events, and the function under the lock ends. The last is an assumption on the
  RPC client: `getAccount` and the relay's send have no timeout of their own.
- `VoteSubmission`: the handlers go on while one of them can; the same assumption
  on `getAccount` and the send. None on the ledger: a transaction may stay
  pending for ever.
- `Indexer`: a dead process is started and a cycle goes on. `RestartsCatchUp`
  adds as premises that restarts recur, that cycles end again and again, and that
  errors cease.
- `RpcGuard`: time passes, results are counted, and the service ends every
  request. Without the last a hung probe would keep the breaker half open.
- `EndpointPool`: an attempt ends, by `withTimeout` if by nothing else, and a
  sleep is over some time. None of servers, cooldowns or the clock.

## 4. Proofs

`MembershipTree_proofs` proves, for any number of members, commitments and
slots, any window sizes of at least 2 and any behaviour of `root_pin`, all five
properties of the run `membership_tree`, and that indexed roots are in the window
(`IndexWithinWindow`), the newest root has an index (`CurrentRootIsIndexed`), the
cooldown is subsumed by the slot (`CooldownIsSubsumed`) and floor and indices never
fall (`FloorAndIndicesNeverFall`). The assumptions are `TreeAssumption`:
distinct sentinels, at least one slot, and a window of at least 2 roots (the
code's minimum, `MIN_MAX_ROOTS`, is 10). `MaxPublished` is an arbitrary number.

`TypeCorrect` is inductive by itself. The others are not: that a root above
the floor holds no removed leaf depends on how slots are filled. `IInv` adds

- `UntouchedBeforeInit`: before `init_tree` nothing is registered or pending,
  no index is given out and the floor is 0;
- `SlotsInOrder`: slots from `nextLeafIndex` on are zero and no member owns one,
  so an insertion overwrites no leaf;
- `LeavesReserved`: a live leaf is a used commitment and equals no other leaf,
  so a new commitment is nowhere in the tree;
- `FloorBelowNext`: the floor is at most the next index, so every root
  published from then on is eligible.

Insertions keep `EligibleRootsAreCurrent` since they change one slot that was
zero, hence zero in every eligible root. Removals keep it since the floor jumps
to the index just given out: the new root is the only one at or above it. `PublishRootLemma` states once what the push, the eviction and the
reindexing do to the window and to `RootIndex`; there is one lemma per action
that publishes, and `InvariantInductive` has one step per action.
`FloorAndIndicesNeverFall` is an action property derived from the invariant.

`Voting_proofs` takes those theorems over for the tree inside `Voting`, by an
instance with the pinned roots in the place of `pinned`. Its assumptions are
`VotingAssumption` and `MembershipAssumption`, which repeats `TreeAssumption` for
the instance. `VInv` adds to the tree's invariant that
the history of slot owners knows every member that holds a slot
(`OwnersRecorded`), that ballots lie in slots given out (`BallotsInTree`) and on
leaves of the proposal's root (`BallotsOfRoot`), and that nothing is counted before
a proposal is Active (`NoEarlyVotes`). `OneBallotPerMember` follows when a ballot
is counted: its slot and the slots that voted before are leaves of the snapshot, the
snapshot is eligible, so these leaves are all still live, and live slots have
distinct owners (`RootOwners`). A member who was removed and reinstated since has
another slot, which is zero in the snapshot. `TallyIsNullifiers` counts the
nullifiers that a batch adds. `SnapshotNarrowsByRemoval` is an action property
derived from the floor. `SnapshotStaysIndexed` has the hypothesis that proposals
open at once (`"Registration" \notin CreatedIn`), since section 5 shows that the
root of a proposal in its registration phase is not pinned.

`VotingImplementsElection` is the refinement. The initial state maps to an initial
state (`ElectionInit`), and each step to a step or a stutter: a creation to `Create`
(`CreateRefines`), `set_merkle_root` to `ChangeElectorate`, activation, closing,
archiving and the end of the voting time to `Advance` (`ProposalStepRefines`), a vote or
a batch to `Cast` (`VoteStepRefines`), a change of the tree and everything else to a
stutter (`ElectionStutters`). That a ballot is cast by a leaf of *now* is
`EligibleRootsAreCurrent` of the tree; that the electorate is fixed for as long as
a round is open is that its root is.

`Cluster_proofs` proves, for any number of workers and requests, `LockIsExclusive`
(`MutualExclusion`), `ClusterTypeCorrect`, `ExitedWorkersHoldNothing` and
`LeaderIsUnique`. For the lock the argument is that the right to be inside is a
token in one place at a time. Exclusion alone is not inductive, since a message on its way
may still grant or release. `TokenInv` says that a `GRANTED` message, a request
inside and a `RELEASE` message all belong to the current holder, and that there
is at most one of the three; `DeadInv` that a dead worker has neither a request
inside nor an inbox. So a release that is read frees the lock its sender held,
and the next grant finds nobody inside. `ActiveInv` says that whoever lives, has
unread messages or has a claim is active, so that the exit handler, which removes a
worker last, leaves nothing of it behind. `LeaderInv` says that a worker that leads, or will
once it has read its messages, is alive and the primary's choice, which does not
change before it exits. `CountInv` counts the `ACQUIRE`s still unread: a request
asks once, so the queue is never longer than the requests made.

`ClusterImplementsLock` is the refinement of `SequenceLock`. `CallInv` says that a
request belongs to one worker and is there either pending or inside. A message that
grants finds nobody inside, since it carries the token, and so maps to `Enter` if its
request is still pending (`CallEnters`) and to a stutter if it timed out; timeouts,
the end of a function and the exit of a worker, with all its calls, map to `End`
(`CallsAreOver`); whatever the primary does is a stutter (`CallsUnchanged`).

`VoteSubmission_proofs` proves the invariants of its run and its type for any number of
ballots, keys and requests. For `RecordsTrue` (`RecordsAreTrue`), `RecordInv` adds
what links a handler to its
transaction: a request before its send has no result and is not pending, a
pending transaction has no result, a success is counted, and a request that saw
its confirmation has a result. The answers then follow from `Respond`, the only
step that writes a receipt. `QuietAnswer` covers every step that says nothing of
the vote, and `CatchLog` that the catch block makes no entry a success.
For `ClashesFollowAbandon` (`ClashOnlyAfterAbandon`), `LockInv` says that of two
callers of the lock one waits for the other and that who has read the account waits for
nobody (so there is one of them, `OneInside`), and `AbandonInv` that, while nobody
gave up a pending transaction, the pending one belongs to the request that waits
inside, so nothing moves the sequence under a transaction that is built. For
`OneSubmitter` (`OneSubmitterPerKey`), `KeyInv` says that a key with a submitter, or
with a loser of `INSERT OR IGNORE` about to read again, has its row or saw it lapse.
`SubmissionTypeCorrect` needs `SequenceInv`: the sequence is the number of
transactions with a result, which is what bounds it.

`ConfirmationQueue_proofs` proves the four safety properties of its run for any
hashes, callers, loops and bounds: `QueueTypeCorrect`, `OnePollAtATime`
(`OnePollPerEntry`), `NoWaiterIsLost` (`WaitersHaveAnEntry`) and `OutcomesAreFinal`
(`OutcomeIsFinal`). `QInv` says that the queue
holds exactly the entries that are not settled, each under its own hash
(`QueueOK`), that callers wait on entries that are not settled (`WaitOK`), that a hash with
a cached outcome is not queued (`CacheOK`), and that a loop in a poll has marked its
entry, shares it with no other loop and stays within the attempts (`PollsOK`). A worker
loop rescans the queue after its own poll, in one callback with what settles the
entry, so `ScanKeeps` speaks of the scan of a loop from any state that the rest of
the callback may have left, and takes the parts of the invariant as parameters.

`QueueImplementsConfirmations` is the refinement of `Confirmations`. Entries change
in many ways but never in their hash (`SameHashes`), so a poll that settles an entry
answers exactly the callers of one hash, and a stop those of all the queued ones
(`AnswerRefines`). That no outcome is found while another is known is
`CacheOK`: a late poll finds its entry settled and says nothing.

`Indexer_proofs` proves `TypeCorrect` and `WatermarkIsSound` (`WatermarkCovers`)
for any number of contracts, any window and any page size. What is proved has the
exception that `WatermarkCovers` states: rows in `unread`, those of a contract whose
failure said "not found" in the cycle that moved the watermark past them. Without it
the statement is false: one `NotFound` and one `PersistWatermark` refute it (section 5).
`ReadInv` is the
strengthening that matters: while no failure was counted, every listed event up
to the end of the window of a contract already read, and not skipped, is in the
table. `CycleInv`
and `ChainInv` say that a cycle starts from the stored watermark and that its
window ends at a ledger that is closed, so later ledgers add nothing to it.
`IndexerImplementsArchive` is the refinement of `EventArchive`, with `Denied` for what
the source denied; `RowsInv` adds that
pages and rows are of events on the chain. Inserts, whole or cut short, map to
`Archive` (`GrowingRows`), a ledger that closes to `Publish`, and `PersistWatermark`
to `MoveUp` or a stutter (`WatermarkMovesUp`), since the cycle started from the
watermark that is stored. `Denied` changes above the watermark only (`DeniedAbove`),
when a contract is skipped, when inserts supply a row of it or when the cycle ends
without a watermark; what the watermark passes stays in `unread`.

`MerkleTree_proofs` proves, for every depth and any commitments, that roots are the
roots of their leaves (`RootsAreReference`) and that paths lead to them
(`PathsLeadToRoot`). The invariant is `IInv == StoredInOrder /\ RootIsReference`:
leaves are stored in the order of their slots, and nodes exactly on the paths of the
leaves stored so far, so that a node that was never written is that of an empty
subtree (`EmptyNodes`, `StoredIsReference`) and a left sibling is always found before
the cache is asked. A change of one leaf changes the nodes of its path only
(`OneLeafChanged`), and hashing along a path with the siblings of a tree gives its
nodes (`PathIsOfTree`). `RootsTellTreesApart` is what lets `MembershipTree` and
`Voting` take a root for its tree: two trees of one depth with the same root have the
same leaves. Levels are walked by `LevelInduction`, which speaks of the set of
levels where something holds and so needs no operator as a parameter; the equations
of the recursive functions over levels (`ZerosEquations`, `PathHashesEquations`, ...)
are derived in the same way, from functions that exist up to each level.

`RemoteCalls_proofs` proves, of `RpcGuard`, `ProbeFlagHasOwner` (`FlagHasOwner`) and
`SlotsAreAccounted` (`SlotsAccounted`) for any finite set of calls,
any threshold and any limits. `ProbeInv` adds that a call that is idle belongs to
no period, so the flag goes down with the call that put it up or with the period.
`SlotsInv` adds that the queue holds each waiting call exactly once: the waiter that
takes over a slot is then a waiting call that is nowhere else.

It proves, of `EndpointPool`, every safety property of its run for any endpoints,
calls, classes and limits: `TypeCorrect`, `NeverProcessedTwice` (`ProcessedOnce`),
`CooldownsHonoured` (`CooldownHonoured`) and `RetriesCapped`
(`RetriesWithinBudget`). `Pristine` is the
strengthening for the first: a call that is not over has no request that was or may yet be
processed. It survives a failed attempt because an ambiguous one ends a call
that is not idempotent; `Pending` bounds the attempts of a call that sleeps.
`RetriesWithinBudget` is not inductive since windows slide. `Granted` is: for
every age at which a retry was granted, the retries of the window *before that
moment* are within the share of the requests of the same window. Both windows
grow older together; the youngest retry of the current window then gives the
bound. The sums are recursive functions of the age, and what they compute is proved
from least counterexamples (`LeastNat`) in place of the library's induction
theorems: `SumsExist`, `SumsUnique`, `RecursiveSum`, and the effect of an entry
(`SumsEntered`) and of a tick (`SumsOlder`) on every sum at once.

Every safety property and every refinement that a run checks is stated by a theorem.
The type invariants of `Cluster`, `VoteSubmission` and `Indexer` are proved,
and left out of their runs.
Only model-checked are the six liveness properties (`EntriesResolve`, `LockMovesOn`,
`RestartsCatchUp`, `EveryRequestEnds`, `WaitersAreServed`, `CallsEnd`): the prover has
neither fairness nor `ENABLED`.

## 5. Disagreements with comments and documents

Two have a run that ends in a counterexample; `PROJECT.json` quotes the lines.

1. `cluster_drain`: a draining cluster worker exits with a submission inside the
   lock. The counter it waits for is not touched by the cluster's branch of
   `withSequenceLock`. For the same reason the test that the lock is idle when a
   key rotation is finalized (stellar.ts:474) passes in every worker.
2. `indexer_stalls`: a process polls once. Two undeclared names
   (`verificationBacklog`, indexer.ts:505, and `MAX_VERIFICATION_BACKLOG`, :671)
   end the first cycle and `startIndexer` with a `ReferenceError`.

Others were met while modelling and are visible in the definitions:

- `root_ok` and `RootIndex` "agree by construction" (membership-tree
  lib.rs:1312-1315): a root published twice loses its index with its older
  copy (`Reindexed`). Votes are refused that the scan would accept; nothing is
  wrongly accepted.
- "An evicted Fixed snapshot cannot happen while the proposal is Active — `root_pin`
  blocks that" (voting lib.rs:4517-4519): only Active proposals are pinned
  (`PinnedRoots`), so the root of a proposal can be evicted in its registration
  phase, and `activate_proposal` checks nothing. `ActiveSnapshotIndexed` holds of
  rounds that open at once, and is checked for those (`voting`).
- "This binds the tally proof to the on-chain nullifier set" (voting
  lib.rs:2108-2110): `cast_votes` does not accumulate its nullifiers (`CastVotes`).
- "consistent eligibility boundary" (THREAT_MODEL.md:70): one removal ends the
  eligibility of a Fixed snapshot for all its members; `OnlyRemovalNarrowsFixed`
  says that nothing else does.
- "Votes submitted later must prove membership against THIS root" (voting
  lib.rs:2604-2606): `eligibility_snapshot_root` is stored and never read.
- `update_leaf` may put the hash of another subtree in the `FilledSubtrees` cache
  (membership-tree lib.rs:2051-2054); no root is affected, since the cache is read
  last (`LeftSibling`).
- "so callers never hang on shutdown" (confirmation-queue.ts:656-657): a wait that
  arrives while a stop awaits a poll starts a second loop and revives the first,
  and the stop never ends. `gracefulShutdown` does not await it.
- "Only allow one probe request at a time while half-open" (circuit-breaker.ts:103):
  a call that began before the trip and fails in the half-open period ends that
  period and clears the flag (circuit-breaker.ts:118), so the next period's probe
  starts while the first still runs; a late success closes an open circuit before
  its time. `FlagHasOwner` is what does hold, period by period.
- The catch block of `POST /vote` (voting.ts:975) may write FAILED over the log
  entry of another request for the same nullifier that succeeded, and a vote that
  is counted after the confirmation timed out gets no receipt.
- "the watermark must not advance past ledgers we never read for them"
  (indexer.ts:314-315): a failure that says "not found", such as the "Method not found"
  of a JSON-RPC endpoint, is not counted (indexer.ts:393), and the watermark passes the
  window with the contract's events unread. No later cycle reads them. `WatermarkCovers`
  has that exception, and `unread` shows what it costs.
- Retry-After "puts the endpoint in cooldown for every caller"
  (endpoint-pool.ts:14-15): a call that backs off calls the endpoint it chose before
  (endpoint-pool.ts:891), though another call may have put it in cooldown meanwhile.
  What holds is that every attempt that does not follow a back-off avoids the endpoints
  in cooldown (`CooldownHonoured`).
- "retries may not exceed max(budgetMinRetries, budgetRatio * requests) within the
  window" (endpoint-pool.ts:287-288): a retry outlives the requests that paid for
  it, so the bound holds with the requests of two windows (`RetriesWithinBudget`).
- stellar.ts:424-514 uses seven names that the file, which carries `@ts-nocheck`, neither
  imports nor declares (`SigningPolicy`, `parseTierLimits`, `DEFAULT_TIER_LIMITS`,
  `parseCosigners`, `SqliteKeyLifecycleStore`, `getWriteDb`,
  `RelayerRotationOrchestrator`). As committed, loading the module ends in a
  `ReferenceError`. The models of the cluster and of the vote route take it as if the
  imports were there.
- backend/test/vote-queue.test.js:68-70 expects `POST /vote` to answer 202 with a job
  id. The route runs the whole submission and answers with its outcome; the vote queue
  has no caller. `VoteSubmission` follows the route.
- A grant that arrives after its request timed out is dropped by the worker
  (`RequestTimeout`), while the primary counts the lock as held until that worker
  exits (cluster.ts:231). `LockMovesOn` exempts this case (`Abandoned`). In the same way an event
  of a type that is not listed stops the watermark for good, which `RestartsCatchUp`
  exempts (`Poisoned`).

## 6. Not modelled, and plan

Coverage is uneven by nature: most of the TypeScript is user interface, generated
API types, word lists, request schemas, SQL migrations and thin clients, which
keep no state of the protocol and have no order of steps to check. Of the code
that does:

- `RpcPoolManager` (stellar.ts) and the arbitration of reads choose among
  endpoints by latency, score and ledger; the service supervisor restarts only services whose start fails, as nothing calls
  `markFailure`; `submit-queue.ts`, the vote job queue and the split-phase lock
  are not used;
- cryptography (Groth16, curves, Poseidon, the VDF) is assumed, as section 2 says;
- storage expiry (TTL) of the contracts' entries is not modelled: a nullifier is
  permanent in the models.

Next, in this order:

1. Key rotation (`relayer-rotation.ts`, `stellar.ts` 440-540) on top of `Cluster`,
   and `POST /vote/batch` in `VoteSubmission`.
2. `submitToHorizon` and the payment batches on top of `EndpointPool`;
   `arbitratedRead` with lagging endpoints.
3. The other ballot entry points of the voting contract, epochs of the tree,
   `comments` and the bridge, which repeat its root and nullifier checks.
