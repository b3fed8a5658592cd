--------------------------- MODULE VoteSubmission ---------------------------
(***************************************************************************)
(* POST /vote of the relayer backend (backend/src/routes/voting.ts) with   *)
(* the tables it keeps (services/db.ts), the sequence lock it submits      *)
(* under (services/stellar.ts) and the relayer's account on the ledger.    *)
(*                                                                         *)
(* Handlers run interleaved: of requests of one process at its awaits, of  *)
(* requests of several cluster workers, which share the database, between  *)
(* any two statements.  The lock is the queue that withSequenceLock (and,  *)
(* for workers, module Cluster) makes of its callers; what becomes of a    *)
(* worker's lock request that times out is told there.  The tables survive *)
(* a crash, the lock and the handlers do not, and what was sent stays with *)
(* the ledger.  Statements of the database do not fail.                    *)
(***************************************************************************)
EXTENDS Naturals, Sequences

CONSTANTS
    Nullifier,      \* ballots: one proof, one nullifier
    ExtraKey,       \* Idempotency-Key headers other than a nullifier
    MaxRequests     \* bound: requests ever made

ASSUME VoteSubmissionAssumption ==
    MaxRequests \in Nat /\ Nullifier \cap ExtraKey = {}

VARIABLES
    \* the tables
    commitments,    \* proof_commitments: status by ballot
    submissions,    \* vote_submissions: status by key
    aged,           \* keys whose row is older than the two minutes
    txlog,          \* transaction_log: status by nullifier
    receipts,       \* vote_receipts
    \* the requests
    made,           \* requests made so far
    step,           \* how far each has come
    nullifier, key, \* what each carries
    reply,          \* what each was answered
    lock,           \* callers of withVoteSequenceLock
    ahead,          \* those each of them waits for: its predecessors' promises
    account,        \* the sequence that the one inside read and builds on
    \* the ledger
    sequence,       \* the relayer account's
    mempool,        \* requests whose transaction is pending
    result,         \* of each request's transaction
    counted,        \* nullifiers whose vote is counted
    \* history
    clashed,        \* requests whose transaction was turned away at the send
    abandoned,      \* requests that gave the lock up with theirs pending
    lapsed          \* keys whose row was deleted as stale

tables == <<commitments, submissions, aged, txlog, receipts>>
queue == <<lock, ahead>>
ledger == <<sequence, mempool, result, counted>>
history == <<clashed, abandoned, lapsed>>
vars == <<tables, made, step, nullifier, key, reply, queue, account, ledger, history>>

Request == 1 .. MaxRequests
Key == Nullifier \cup ExtraKey

Steps == {"unmade", "arrived", "looking", "claiming", "rereading", "claimed",
          "locked", "built", "simulated", "waiting", "answered", "done", "dead"}

TypeOK ==
    /\ commitments \in [Nullifier -> {"none", "COMMITTED", "REVEALED"}]
    /\ submissions \in [Key -> {"none", "pending", "failed"}]
    /\ aged \subseteq {k \in Key : submissions[k] # "none"}
    /\ txlog \in [Nullifier -> {"none", "PENDING", "SUCCESS", "FAILED"}]
    /\ receipts \subseteq Nullifier
    /\ made \in 0 .. MaxRequests
    /\ step \in [Request -> Steps]
    /\ nullifier \in [1 .. made -> Nullifier] /\ key \in [1 .. made -> Key]
    /\ reply \in [Request -> {"none", "CONFLICT", "REVEALED", "PENDING", "BAD_INPUT",
                              "SUCCESS", "FAILED", "ERROR"}]
    /\ lock \subseteq 1 .. made
    /\ ahead \in [Request -> SUBSET lock]
    /\ account \in 0 .. MaxRequests
    /\ sequence \in 0 .. MaxRequests
    /\ mempool \subseteq 1 .. made
    /\ result \in [Request -> {"none", "SUCCESS", "FAILED"}]
    /\ counted \subseteq Nullifier
    /\ clashed \subseteq 1 .. made /\ abandoned \subseteq 1 .. made
    /\ lapsed \subseteq Key

----------------------------------------------------------------------------
(* Before the lock *)

Goto(r, s) == step' = [step EXCEPT ![r] = s]

Answer(r, a) ==
    /\ reply' = [reply EXCEPT ![r] = a]
    /\ Goto(r, "done")

\* The catch of the handler: its updates touch the rows of the nullifier and
\* of the key, whichever request made them.
Catch(r) ==
    /\ txlog' = [txlog EXCEPT ![nullifier[r]] = IF @ = "none" THEN @ ELSE "FAILED"]
    /\ submissions' = [submissions EXCEPT ![key[r]] = IF @ = "none" THEN @ ELSE "failed"]
    /\ Answer(r, "ERROR")
    /\ UNCHANGED <<commitments, aged, receipts>>

\* POST /vote/commit: recordProofCommitment, unless it was revealed.
Commit(n) ==
    /\ commitments[n] = "none"
    /\ commitments' = [commitments EXCEPT ![n] = "COMMITTED"]
    /\ UNCHANGED <<submissions, aged, txlog, receipts, made, step, nullifier, key,
                   reply, queue, account, ledger, history>>

\* The handler up to its first await: a receipt ends it with 409.
Arrive(n, k) ==
    /\ made < MaxRequests
    /\ k \in ExtraKey \cup {n}
    /\ made' = made + 1
    /\ nullifier' = Append(nullifier, n)
    /\ key' = Append(key, k)
    /\ IF n \in receipts
       THEN Answer(made + 1, "CONFLICT")
       ELSE Goto(made + 1, "arrived") /\ UNCHANGED reply
    /\ UNCHANGED <<tables, queue, account, ledger, history>>

\* After the await: a redundant proof that differs is an error, a timestamp out
\* of range a bad input.
Screen(r) ==
    /\ step[r] = "arrived"
    /\ \/ Catch(r)
       \/ Answer(r, "BAD_INPUT") /\ UNCHANGED tables
    /\ UNCHANGED <<made, nullifier, key, queue, account, ledger, history>>

\* getProofCommitment and updateProofCommitmentStatus.  A request may carry
\* another timestamp or nonce, whose hash was never committed, and goes on; so
\* does the second of two workers that read "COMMITTED" at the same time.
Reveal(r) ==
    /\ step[r] = "arrived"
    /\ \/ Goto(r, "looking") /\ UNCHANGED <<reply, commitments>>
       \/ /\ commitments[nullifier[r]] = "COMMITTED"
          /\ commitments' = [commitments EXCEPT ![nullifier[r]] = "REVEALED"]
          /\ Goto(r, "looking")
          /\ UNCHANGED reply
       \/ /\ commitments[nullifier[r]] = "REVEALED"
          /\ Answer(r, "REVEALED")
          /\ UNCHANGED commitments
    /\ UNCHANGED <<submissions, aged, txlog, receipts, made, nullifier, key, queue,
                   account, ledger, history>>

\* cleanupExpiredVoteSubmissions, then getVoteSubmission: a row that is left,
\* pending or failed, is answered with 202.
Lookup(r) ==
    /\ step[r] = "looking"
    /\ submissions' = [k \in Key |-> IF k \in aged THEN "none" ELSE submissions[k]]
    /\ aged' = {}
    /\ lapsed' = lapsed \cup aged
    /\ IF submissions'[key[r]] # "none"
       THEN Answer(r, "PENDING")
       ELSE Goto(r, "claiming") /\ UNCHANGED reply
    /\ UNCHANGED <<commitments, txlog, receipts, made, nullifier, key, queue, account,
                   ledger, clashed, abandoned>>

\* Mutant: the answer of the insert is not looked at.
ClaimAnyway(r) ==
    /\ step[r] = "claiming"
    /\ submissions' = [submissions EXCEPT ![key[r]] = IF @ = "none" THEN "pending" ELSE @]
    /\ Goto(r, "claimed")
    /\ UNCHANGED <<commitments, aged, txlog, receipts, made, nullifier, key, reply,
                   queue, account, ledger, history>>

\* insertVoteSubmission: INSERT OR IGNORE.
Claim(r) ==
    /\ step[r] = "claiming"
    /\ IF submissions[key[r]] = "none"
       THEN /\ submissions' = [submissions EXCEPT ![key[r]] = "pending"]
            /\ Goto(r, "claimed")
       ELSE Goto(r, "rereading") /\ UNCHANGED submissions
    /\ UNCHANGED <<commitments, aged, txlog, receipts, made, nullifier, key, reply,
                   queue, account, ledger, history>>

\* The loser of that race reads the row again, and goes on if it is gone.
Reread(r) ==
    /\ step[r] = "rereading"
    /\ IF submissions[key[r]] # "none"
       THEN Answer(r, "PENDING")
       ELSE Goto(r, "claimed") /\ UNCHANGED reply
    /\ UNCHANGED <<tables, made, nullifier, key, queue, account, ledger, history>>

\* The conversion to Soroban types, which leaves the row as it is when it
\* fails; then the call of withVoteSequenceLock.
Convert(r) ==
    /\ step[r] = "claimed"
    /\ \/ Answer(r, "BAD_INPUT") /\ UNCHANGED queue
       \/ /\ Goto(r, "locked")
          /\ lock' = lock \cup {r}
          /\ ahead' = [ahead EXCEPT ![r] = lock]
          /\ UNCHANGED reply
    /\ UNCHANGED <<tables, made, nullifier, key, account, ledger, history>>

----------------------------------------------------------------------------
(* Under the lock *)

Inside(r) == r \in lock /\ ahead[r] = {}

\* Those of S leave the lock, and nobody waits for them any more.
Leave(S) ==
    /\ lock' = lock \ S
    /\ ahead' = [r \in Request |-> IF r \in S THEN {} ELSE ahead[r] \ S]

\* Mutant: no finally around the function under the lock.
FailLocked(r) == Catch(r) /\ UNCHANGED queue

\* An error under the lock: the finally of withSequenceLock comes first.
Fail(r) == Catch(r) /\ Leave({r})

\* getAccount and the build of the transaction. It is assumed that the endpoint
\* which the RPC pool picks does not lag: the sequence read is the ledger's.
GetAccount(r) ==
    /\ step[r] = "locked" /\ Inside(r)
    /\ \/ /\ account' = sequence
          /\ Goto(r, "built")
          /\ UNCHANGED <<tables, queue, reply>>
       \/ Fail(r) /\ UNCHANGED account
    /\ UNCHANGED <<made, nullifier, key, ledger, history>>

\* simulateWithBackoff: rejected when the nullifier is spent, and when the RPC
\* service fails.
Simulate(r) ==
    /\ step[r] = "built"
    /\ \/ /\ nullifier[r] \notin counted
          /\ Goto(r, "simulated")
          /\ UNCHANGED <<tables, queue, reply>>
       \/ Fail(r)
    /\ UNCHANGED <<made, nullifier, key, account, ledger, history>>

\* recordTransactionLog
LogPending(r) == txlog' = [txlog EXCEPT ![nullifier[r]] = "PENDING"]

\* submitToRelayQuorum.  The ledger takes one pending transaction of an
\* account; another one is answered TRY_AGAIN_LATER, which is not "ERROR" and
\* so counts as sent.  A transaction on an old sequence is an error, and so is
\* one whose answer was lost at every endpoint.
Send(r) ==
    /\ step[r] = "simulated"
    /\ \/ /\ account = sequence
          /\ LogPending(r)
          /\ Goto(r, "waiting")
          /\ \/ mempool = {} /\ mempool' = {r} /\ UNCHANGED clashed
             \/ mempool # {} /\ clashed' = clashed \cup {r} /\ UNCHANGED mempool
          /\ UNCHANGED <<commitments, submissions, aged, receipts, queue, reply, abandoned>>
       \/ /\ account = sequence /\ mempool = {}
          /\ mempool' = {r}
          /\ abandoned' = abandoned \cup {r}
          /\ Fail(r)
          /\ UNCHANGED clashed
       \/ /\ account # sequence
          /\ clashed' = clashed \cup {r}
          /\ Fail(r)
          /\ UNCHANGED <<mempool, abandoned>>
       \/ Fail(r) /\ UNCHANGED <<mempool, clashed, abandoned>>
    /\ UNCHANGED <<made, nullifier, key, account, sequence, result, counted, lapsed>>

\* Mutant: the lock is given back once the transaction is sent.
ConfirmedLater(r) ==
    /\ step[r] = "waiting"
    /\ result[r] # "none" \/ Inside(r)
    /\ Leave({r})
    /\ IF result[r] # "none" THEN Goto(r, "answered") ELSE UNCHANGED step
    /\ UNCHANGED <<tables, made, nullifier, key, reply, account, ledger, history>>

\* waitForTransaction answers: the lock is free for the next.
Confirmed(r) ==
    /\ step[r] = "waiting"
    /\ result[r] # "none"
    /\ Leave({r})
    /\ Goto(r, "answered")
    /\ UNCHANGED <<tables, made, nullifier, key, reply, account, ledger, history>>

\* callWithTimeout, or the deadline of the confirmation queue.
GiveUp(r) ==
    /\ step[r] = "waiting"
    /\ Fail(r)
    /\ abandoned' = abandoned \cup ({r} \cap mempool)
    /\ UNCHANGED <<made, nullifier, key, account, ledger, clashed, lapsed>>

\* Mutant: any end of the wait is taken for a success.
RespondBlind(r) ==
    /\ step[r] = "answered"
    /\ txlog' = [txlog EXCEPT ![nullifier[r]] = "SUCCESS"]
    /\ receipts' = receipts \cup {nullifier[r]}
    /\ Answer(r, "SUCCESS")
    /\ UNCHANGED <<commitments, submissions, aged, made, nullifier, key, queue, account,
                   ledger, history>>

\* respondToVoteExecution; vote_submissions keeps its pending row.
Respond(r) ==
    /\ step[r] = "answered"
    /\ txlog' = [txlog EXCEPT ![nullifier[r]] = result[r]]
    /\ receipts' = IF result[r] = "SUCCESS" THEN receipts \cup {nullifier[r]} ELSE receipts
    /\ Answer(r, result[r])
    /\ UNCHANGED <<commitments, submissions, aged, made, nullifier, key, queue, account,
                   ledger, history>>

----------------------------------------------------------------------------
(* The environment *)

InFlight == {r \in Request : step[r] \notin {"unmade", "done", "dead"}}

\* A process dies with its handlers: all of them, or those of one worker.
Crash ==
    \E S \in SUBSET InFlight \ {{}} :
        /\ step' = [r \in Request |-> IF r \in S THEN "dead" ELSE step[r]]
        /\ Leave(S)
        /\ abandoned' = abandoned \cup (S \cap mempool)
        /\ UNCHANGED <<tables, made, nullifier, key, reply, account, ledger, clashed, lapsed>>

\* Two minutes pass since a row was made.
Age(k) ==
    /\ submissions[k] # "none" /\ k \notin aged
    /\ aged' = aged \cup {k}
    /\ UNCHANGED <<commitments, submissions, txlog, receipts, made, step, nullifier, key,
                   reply, queue, account, ledger, history>>

\* The ledger applies a transaction.  It may fail for reasons that came up
\* after the simulation.
Apply(r) ==
    /\ r \in mempool
    /\ mempool' = mempool \ {r}
    /\ sequence' = sequence + 1
    /\ \/ /\ nullifier[r] \notin counted
          /\ counted' = counted \cup {nullifier[r]}
          /\ result' = [result EXCEPT ![r] = "SUCCESS"]
       \/ /\ result' = [result EXCEPT ![r] = "FAILED"]
          /\ UNCHANGED counted
    /\ UNCHANGED <<tables, made, step, nullifier, key, reply, queue, account, history>>

\* The time bound of a transaction (setTimeout(30)) passes.
Expire(r) ==
    /\ r \in mempool
    /\ mempool' = mempool \ {r}
    /\ UNCHANGED <<tables, made, step, nullifier, key, reply, queue, account, sequence,
                   result, counted, history>>

----------------------------------------------------------------------------
Init ==
    /\ commitments = [n \in Nullifier |-> "none"]
    /\ submissions = [k \in Key |-> "none"]
    /\ aged = {}
    /\ txlog = [n \in Nullifier |-> "none"]
    /\ receipts = {}
    /\ made = 0
    /\ step = [r \in Request |-> "unmade"]
    /\ nullifier = <<>>
    /\ key = <<>>
    /\ reply = [r \in Request |-> "none"]
    /\ lock = {}
    /\ ahead = [r \in Request |-> {}]
    /\ account = 0
    /\ sequence = 0
    /\ mempool = {}
    /\ result = [r \in Request |-> "none"]
    /\ counted = {}
    /\ clashed = {}
    /\ abandoned = {}
    /\ lapsed = {}

Handle(r) ==
    \/ Screen(r) \/ Reveal(r) \/ Lookup(r) \/ Claim(r) \/ Reread(r)
    \/ Convert(r) \/ GetAccount(r) \/ Simulate(r) \/ Send(r) \/ Confirmed(r) \/ GiveUp(r) \/ Respond(r)

Next ==
    \/ \E n \in Nullifier : Commit(n) \/ \E k \in Key : Arrive(n, k)
    \/ \E r \in Request : Handle(r) \/ Apply(r) \/ Expire(r)
    \/ \E k \in Key : Age(k)
    \/ Crash

\* The event loop goes on while a handler can: the awaits of the simulation and
\* the confirmation have a timeout; that getAccount and the send end is assumed
\* of the RPC client.
Fairness == WF_vars(\E r \in Request : Handle(r))

Spec == Init /\ [][Next]_vars /\ Fairness

----------------------------------------------------------------------------
(* Properties *)

\* What the relayer records and answers is true of the ledger, through
\* timeouts, crashes and retries: a receipt, a SUCCESS in the log and the
\* answers "success" and "already recorded" mean a counted vote, and "failed"
\* means that this request's transaction failed.
RecordsAreTrue ==
    /\ receipts \subseteq counted
    /\ \A n \in Nullifier : txlog[n] = "SUCCESS" => n \in counted
    /\ \A r \in 1 .. made :
          /\ reply[r] \in {"SUCCESS", "CONFLICT"} => nullifier[r] \in counted
          /\ reply[r] = "FAILED" => result[r] = "FAILED"

\* "Serialize account fetch + build + simulate + sign + submit under sequence
\* lock to prevent nonce race conditions": a transaction is turned away for
\* its sequence number only after another was left pending by a caller that
\* gave up or died (or, outside this model, behind an RPC endpoint that lags).
ClashOnlyAfterAbandon == clashed # {} => abandoned # {}

Submitting(r) == step[r] \in {"claimed", "locked", "built", "simulated", "waiting", "answered"}

\* "INSERT OR IGNORE means only one proceeds": two requests with one key are
\* on their way to the ledger together only after a row of that key lapsed.
OneSubmitterPerKey ==
    \A r, s \in 1 .. made :
        Submitting(r) /\ Submitting(s) /\ key[r] = key[s] /\ r # s => key[r] \in lapsed

\* Every request is answered unless its process dies: no caller stays in the
\* queue of the lock behind one that failed, timed out or died.
EveryRequestEnds ==
    \A r \in Request : (step[r] = "arrived") ~> (step[r] \in {"done", "dead"})

=============================================================================
