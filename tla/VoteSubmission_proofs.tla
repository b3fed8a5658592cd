----------------------- MODULE VoteSubmission_proofs -----------------------
(***************************************************************************)
(* POST /vote, for every number of ballots, keys and requests: what the    *)
(* relayer records and answers is true of the ledger, its transactions     *)
(* clash only behind an abandoned one, and one request per key submits.    *)
(* SubmitInv collects the parts of the inductive invariant; each theorem   *)
(* uses those it needs.                                                    *)
(***************************************************************************)
EXTENDS VoteSubmission, FiniteSets, FiniteSetTheorems, TLAPS

USE VoteSubmissionAssumption DEF VoteSubmissionAssumption

\* The steps of a request that has not sent its transaction.
Unsent == {"unmade", "arrived", "looking", "claiming", "rereading", "claimed",
           "locked", "built", "simulated"}

\* The types that the argument needs.
RecordType ==
    /\ made \in 0 .. MaxRequests
    /\ nullifier \in Seq(Nullifier) /\ Len(nullifier) = made
    /\ step \in [Request -> Steps]
    /\ reply \in [Request -> {"none", "CONFLICT", "REVEALED", "PENDING", "BAD_INPUT",
                              "SUCCESS", "FAILED", "ERROR"}]
    /\ result \in [Request -> {"none", "SUCCESS", "FAILED"}]
    /\ txlog \in [Nullifier -> {"none", "PENDING", "SUCCESS", "FAILED"}]
    /\ \A r \in Request : step[r] # "unmade" => r \in 1 .. made
    /\ mempool \subseteq 1 .. made

\* A transaction has a result only once it has been sent and is not pending
\* any more; a success is counted; a confirmed request has a result.
ResultInv ==
    /\ \A r \in Request : step[r] \in Unsent => result[r] = "none"
    /\ \A r \in Request : r \in mempool => result[r] = "none" /\ step[r] \notin Unsent
    /\ \A r \in 1 .. made : result[r] = "SUCCESS" => nullifier[r] \in counted
    /\ \A r \in Request : step[r] = "answered" => result[r] # "none"
    /\ \A r \in Request : r > made => step[r] = "unmade" /\ reply[r] = "none"

RecordInv == RecordType /\ ResultInv /\ RecordsAreTrue

LEMMA InitRecord == Init => RecordInv
  BY DEF Init, RecordInv, RecordType, ResultInv, RecordsAreTrue, Request, Steps

\* A request that moves to a step before its send, or to an error, without a
\* word about its vote.
LEMMA QuietAnswer ==
  ASSUME RecordInv, NEW r \in Request, step[r] # "unmade",
         NEW s \in Steps \ {"unmade", "answered"},
         s \in Unsent => step[r] \in Unsent,
         step' = [step EXCEPT ![r] = s],
         NEW a \in {"none", "REVEALED", "PENDING", "BAD_INPUT", "ERROR"},
         reply' = reply \/ reply' = [reply EXCEPT ![r] = a],
         txlog' \in [Nullifier -> {"none", "PENDING", "SUCCESS", "FAILED"}],
         \A n \in Nullifier : txlog'[n] = "SUCCESS" => txlog[n] = "SUCCESS",
         mempool' = mempool \/ (mempool' = {r} /\ step[r] \in Unsent /\ s \notin Unsent),
         UNCHANGED <<receipts, made, nullifier, counted, result>>
  PROVE  RecordInv'
  <1>1. r \in 1 .. made
    BY DEF RecordInv, RecordType
  <1>2. RecordType'
    <2>1. /\ step' \in [Request -> Steps]
          /\ \A q \in Request : step'[q] # "unmade" => q \in 1 .. made'
      BY <1>1 DEF RecordInv, RecordType
    <2>2. reply' \in [Request -> {"none", "CONFLICT", "REVEALED", "PENDING",
                                 "BAD_INPUT", "SUCCESS", "FAILED", "ERROR"}]
      BY DEF RecordInv, RecordType
    <2>3. mempool' \subseteq 1 .. made'
      BY <1>1 DEF RecordInv, RecordType
    <2> QED BY <2>1, <2>2, <2>3 DEF RecordInv, RecordType
  <1>3. ResultInv'
    BY <1>1 DEF RecordInv, RecordType, ResultInv, Request
  <1>4. RecordsAreTrue'
    BY <1>1 DEF RecordInv, RecordType, RecordsAreTrue, Request
  <1> QED BY <1>2, <1>3, <1>4 DEF RecordInv

\* The catch never makes a log entry a success.
LEMMA CatchLog ==
  ASSUME RecordInv, NEW r \in Request, Catch(r)
  PROVE  /\ txlog' \in [Nullifier -> {"none", "PENDING", "SUCCESS", "FAILED"}]
         /\ \A n \in Nullifier : txlog'[n] = "SUCCESS" => txlog[n] = "SUCCESS"
         /\ step' = [step EXCEPT ![r] = "done"]
         /\ reply' = [reply EXCEPT ![r] = "ERROR"]
         /\ UNCHANGED receipts
  BY DEF Catch, Answer, Goto, RecordInv, RecordType

LEMMA ArriveRecord ==
  ASSUME RecordInv, NEW n \in Nullifier, NEW k \in Key, Arrive(n, k)
  PROVE  RecordInv'
  <1> DEFINE r == made + 1
  <1>1. /\ r \in Request /\ made \in Nat /\ made' = r
        /\ UNCHANGED <<txlog, receipts, mempool, result, counted>>
    BY DEF Arrive, RecordInv, RecordType, Request, tables, ledger
  <1>2. /\ nullifier' \in Seq(Nullifier) /\ Len(nullifier') = r
        /\ nullifier'[r] = n
        /\ \A q \in 1 .. made : nullifier'[q] = nullifier[q]
    BY DEF Arrive, RecordInv, RecordType
  <1>3. \/ n \in receipts /\ step' = [step EXCEPT ![r] = "done"]
                          /\ reply' = [reply EXCEPT ![r] = "CONFLICT"]
        \/ step' = [step EXCEPT ![r] = "arrived"] /\ reply' = reply
    BY DEF Arrive, Answer, Goto
  <1>4. step[r] = "unmade" /\ reply[r] = "none" /\ result[r] = "none"
    BY <1>1 DEF RecordInv, ResultInv, RecordType, Unsent
  <1>5. 1 .. made' = (1 .. made) \cup {r} /\ 1 .. made \subseteq Request
    BY <1>1 DEF Request
  <1> HIDE DEF r
  <1>6. RecordType'
    <2>1. made' \in 0 .. MaxRequests
      BY <1>1 DEF Request
    <2>2. /\ step' \in [Request -> Steps]
          /\ reply' \in [Request -> {"none", "CONFLICT", "REVEALED", "PENDING",
                                     "BAD_INPUT", "SUCCESS", "FAILED", "ERROR"}]
      BY <1>1, <1>3 DEF RecordInv, RecordType, Steps
    <2>3. \A q \in Request : step'[q] # "unmade" => q \in 1 .. made'
      BY <1>1, <1>3, <1>5 DEF RecordInv, RecordType
    <2> QED BY <1>1, <1>2, <1>5, <2>1, <2>2, <2>3 DEF RecordInv, RecordType
  <1>7. ResultInv'
    <2>1. \A q \in Request : q > made' => q > made /\ q # r
      BY <1>1 DEF r, Request
    <2>2. \A q \in Request : q # r => step'[q] = step[q] /\ reply'[q] = reply[q]
      BY <1>1, <1>3 DEF RecordInv, RecordType
    <2>3. step'[r] # "answered"
      BY <1>1, <1>3 DEF RecordInv, RecordType
    <2>4. \A q \in Request : step'[q] \in Unsent => result'[q] = "none"
      BY <1>1, <1>4, <2>2 DEF RecordInv, ResultInv
    <2>5. \A q \in Request : step'[q] = "answered" => result'[q] # "none"
      BY <1>1, <2>2, <2>3 DEF RecordInv, ResultInv
    <2>6. \A q \in 1 .. made' : result'[q] = "SUCCESS" => nullifier'[q] \in counted'
      BY <1>1, <1>2, <1>4, <1>5 DEF RecordInv, ResultInv
    <2>7. \A q \in Request : q > made' => step'[q] = "unmade" /\ reply'[q] = "none"
      BY <2>1, <2>2 DEF RecordInv, ResultInv
    <2>8. \A q \in Request : q \in mempool' => result'[q] = "none" /\ step'[q] \notin Unsent
      BY <1>1, <1>4, <2>2 DEF RecordInv, ResultInv, Unsent
    <2> QED BY <2>4, <2>5, <2>6, <2>7, <2>8 DEF ResultInv
  <1>8. RecordsAreTrue'
    <2>1. ASSUME NEW q \in 1 .. made'
          PROVE  /\ reply'[q] \in {"SUCCESS", "CONFLICT"} => nullifier'[q] \in counted'
                 /\ reply'[q] = "FAILED" => result'[q] = "FAILED"
      <3>1. CASE q = r
        BY <1>1, <1>2, <1>3, <1>4, <3>1 DEF RecordInv, RecordType, RecordsAreTrue
      <3>2. CASE q # r
        <4>1. q \in 1 .. made /\ reply'[q] = reply[q]
          BY <1>1, <1>3, <1>5, <3>2 DEF RecordInv, RecordType
        <4> QED BY <1>1, <1>2, <4>1 DEF RecordInv, RecordsAreTrue
      <3> QED BY <3>1, <3>2
    <2> QED BY <1>1, <2>1 DEF RecordInv, RecordsAreTrue
  <1> QED BY <1>6, <1>7, <1>8 DEF RecordInv

\* A request before its send.
LEMMA EarlyRecord ==
  ASSUME RecordInv, NEW r \in Request,
         Screen(r) \/ Reveal(r) \/ Lookup(r) \/ Claim(r) \/ Reread(r) \/ Convert(r)
  PROVE  RecordInv'
  <1>1. step[r] \in Unsent /\ step[r] # "unmade"
    BY DEF Screen, Reveal, Lookup, Claim, Reread, Convert, Unsent
  <1>2. UNCHANGED <<made, nullifier, counted, result, mempool>>
    BY DEF Screen, Reveal, Lookup, Claim, Reread, Convert, ledger
  <1>3. CASE Catch(r)
    BY <1>1, <1>2, <1>3, CatchLog, QuietAnswer DEF Steps
  <1>4. CASE UNCHANGED <<txlog, receipts>>
    <2>1. \/ /\ reply' = reply
             /\ \/ step' = [step EXCEPT ![r] = "looking"]
                \/ step' = [step EXCEPT ![r] = "claiming"]
                \/ step' = [step EXCEPT ![r] = "rereading"]
                \/ step' = [step EXCEPT ![r] = "claimed"]
                \/ step' = [step EXCEPT ![r] = "locked"]
          \/ /\ step' = [step EXCEPT ![r] = "done"]
             /\ \/ reply' = [reply EXCEPT ![r] = "BAD_INPUT"]
                \/ reply' = [reply EXCEPT ![r] = "REVEALED"]
                \/ reply' = [reply EXCEPT ![r] = "PENDING"]
                \/ reply' = [reply EXCEPT ![r] = "ERROR"]
      BY DEF Screen, Reveal, Lookup, Claim, Reread, Convert, Answer, Goto, Catch
    <2>2. /\ txlog' \in [Nullifier -> {"none", "PENDING", "SUCCESS", "FAILED"}]
          /\ \A n \in Nullifier : txlog'[n] = "SUCCESS" => txlog[n] = "SUCCESS"
      BY <1>4 DEF RecordInv, RecordType
    <2>3. {"looking", "claiming", "rereading", "claimed", "locked", "done"}
              \subseteq Steps \ {"unmade", "answered"}
      BY DEF Steps
    <2> QED BY <1>1, <1>2, <1>4, <2>1, <2>2, <2>3, QuietAnswer
  <1> QED BY <1>3, <1>4
          DEF Screen, Reveal, Lookup, Claim, Reread, Convert, tables

\* A request under the lock, up to the end of its wait.
LEMMA SubmitRecord ==
  ASSUME RecordInv, NEW r \in Request,
         GetAccount(r) \/ Simulate(r) \/ Send(r) \/ GiveUp(r)
  PROVE  RecordInv'
  <1>1. step[r] \in Unsent \cup {"waiting"} /\ step[r] # "unmade"
    BY DEF GetAccount, Simulate, Send, GiveUp, Unsent
  <1>2. /\ UNCHANGED <<made, nullifier, counted, result>>
        /\ mempool' = mempool \/ (mempool' = {r} /\ step[r] \in Unsent)
    BY DEF GetAccount, Simulate, Send, GiveUp, ledger, Unsent
  <1>3. CASE Fail(r)
    <2>1. Catch(r)
      BY <1>3 DEF Fail
    <2>2. "done" \in Steps \ {"unmade", "answered"} /\ "done" \notin Unsent
      BY DEF Steps, Unsent
    <2> QED BY <1>1, <1>2, <2>1, <2>2, CatchLog, QuietAnswer
  <1>4. CASE ~Fail(r)
    <2>1. /\ UNCHANGED <<receipts, reply>>
          /\ UNCHANGED txlog \/ LogPending(r)
          /\ \/ /\ step[r] \in Unsent /\ mempool' = mempool
                /\ \/ step' = [step EXCEPT ![r] = "built"]
                   \/ step' = [step EXCEPT ![r] = "simulated"]
             \/ step' = [step EXCEPT ![r] = "waiting"]
      BY <1>4 DEF GetAccount, Simulate, Send, GiveUp, Goto, tables, ledger, Unsent
    <2>2. /\ txlog' \in [Nullifier -> {"none", "PENDING", "SUCCESS", "FAILED"}]
          /\ \A n \in Nullifier : txlog'[n] = "SUCCESS" => txlog[n] = "SUCCESS"
      BY <2>1 DEF RecordInv, RecordType, LogPending
    <2>3. /\ {"built", "simulated", "waiting"} \subseteq Steps \ {"unmade", "answered"}
          /\ "waiting" \notin Unsent
      BY DEF Steps, Unsent
    <2> QED BY <1>1, <1>2, <2>1, <2>2, <2>3, QuietAnswer
  <1> QED BY <1>3, <1>4

LEMMA RespondRecord ==
  ASSUME RecordInv, NEW r \in Request, Respond(r)
  PROVE  RecordInv'
  <1>1. /\ step[r] = "answered"
        /\ txlog' = [txlog EXCEPT ![nullifier[r]] = result[r]]
        /\ receipts' = IF result[r] = "SUCCESS" THEN receipts \cup {nullifier[r]} ELSE receipts
        /\ reply' = [reply EXCEPT ![r] = result[r]]
        /\ step' = [step EXCEPT ![r] = "done"]
        /\ UNCHANGED <<made, nullifier, counted, result, mempool>>
    BY DEF Respond, Answer, Goto, ledger
  <1>2. r \in 1 .. made /\ result[r] \in {"SUCCESS", "FAILED"}
    BY <1>1 DEF RecordInv, RecordType, ResultInv
  <1>3. nullifier[r] \in Nullifier /\ (result[r] = "SUCCESS" => nullifier[r] \in counted)
    BY <1>2 DEF RecordInv, RecordType, ResultInv
  <1>4. RecordType'
    BY <1>1, <1>2, <1>3 DEF RecordInv, RecordType, Steps
  <1>5. ResultInv'
    BY <1>1, <1>2 DEF RecordInv, RecordType, ResultInv, Unsent
  <1>6. RecordsAreTrue'
    <2>1. receipts' \subseteq counted'
      BY <1>1, <1>3 DEF RecordInv, RecordsAreTrue
    <2>2. \A n \in Nullifier : txlog'[n] = "SUCCESS" => n \in counted'
      BY <1>1, <1>3 DEF RecordInv, RecordType, RecordsAreTrue
    <2>3. \A q \in 1 .. made' :
             /\ reply'[q] \in {"SUCCESS", "CONFLICT"} => nullifier'[q] \in counted'
             /\ reply'[q] = "FAILED" => result'[q] = "FAILED"
      BY <1>1, <1>2, <1>3 DEF RecordInv, RecordType, RecordsAreTrue, Request
    <2> QED BY <2>1, <2>2, <2>3 DEF RecordsAreTrue
  <1> QED BY <1>4, <1>5, <1>6 DEF RecordInv

LEMMA ApplyRecord ==
  ASSUME RecordInv, NEW r \in Request, Apply(r)
  PROVE  RecordInv'
  <1>1. /\ r \in mempool /\ r \in 1 .. made /\ result[r] = "none"
        /\ step[r] \notin Unsent
        /\ mempool' = mempool \ {r}
        /\ UNCHANGED <<txlog, receipts, made, step, nullifier, reply>>
    BY DEF Apply, RecordInv, RecordType, ResultInv, tables
  <1>2. \/ /\ counted' = counted \cup {nullifier[r]}
           /\ result' = [result EXCEPT ![r] = "SUCCESS"]
        \/ counted' = counted /\ result' = [result EXCEPT ![r] = "FAILED"]
    BY DEF Apply
  <1>3. RecordType'
    BY <1>1, <1>2 DEF RecordInv, RecordType
  <1>4. ResultInv'
    <2>1. /\ result'[r] # "none" /\ (result'[r] = "SUCCESS" => nullifier[r] \in counted')
          /\ \A q \in Request \ {r} : result'[q] = result[q]
          /\ counted \subseteq counted'
          /\ 1 .. made \subseteq Request
      BY <1>1, <1>2 DEF RecordInv, RecordType, Request
    <2>2. \A q \in Request : step'[q] \in Unsent => result'[q] = "none"
      BY <1>1, <2>1 DEF RecordInv, ResultInv
    <2>3. \A q \in Request : q \in mempool' => result'[q] = "none" /\ step'[q] \notin Unsent
      BY <1>1, <2>1 DEF RecordInv, ResultInv
    <2>4. \A q \in 1 .. made' : result'[q] = "SUCCESS" => nullifier'[q] \in counted'
      BY <1>1, <2>1 DEF RecordInv, ResultInv
    <2>5. \A q \in Request : step'[q] = "answered" => result'[q] # "none"
      BY <1>1, <2>1 DEF RecordInv, ResultInv
    <2>6. \A q \in Request : q > made' => step'[q] = "unmade" /\ reply'[q] = "none"
      BY <1>1 DEF RecordInv, ResultInv
    <2> QED BY <2>2, <2>3, <2>4, <2>5, <2>6 DEF ResultInv
  <1>5. RecordsAreTrue'
    BY <1>1, <1>2 DEF RecordInv, RecordType, RecordsAreTrue, Request
  <1> QED BY <1>3, <1>4, <1>5 DEF RecordInv

LEMMA CrashRecord ==
  ASSUME RecordInv, Crash
  PROVE  RecordInv'
  <1>1. PICK S \in SUBSET InFlight :
           /\ step' = [r \in Request |-> IF r \in S THEN "dead" ELSE step[r]]
           /\ UNCHANGED <<txlog, receipts, made, nullifier, reply, mempool, result, counted>>
    BY DEF Crash, tables, ledger
  <1>2. \A r \in S : r \in 1 .. made
    BY <1>1 DEF InFlight, RecordInv, RecordType
  <1>3. RecordType'
    BY <1>1, <1>2 DEF RecordInv, RecordType, Steps
  <1>4. ResultInv'
    BY <1>1, <1>2 DEF RecordInv, RecordType, ResultInv, Unsent
  <1>5. RecordsAreTrue'
    BY <1>1 DEF RecordInv, RecordsAreTrue
  <1> QED BY <1>3, <1>4, <1>5 DEF RecordInv

LEMMA NextRecord == RecordInv /\ [Next]_vars => RecordInv'
  <1> SUFFICES ASSUME RecordInv, [Next]_vars PROVE RecordInv'
    OBVIOUS
  <1>1. ASSUME NEW n \in Nullifier, Commit(n) PROVE RecordInv'
    BY <1>1 DEF Commit, ledger, RecordInv, RecordType, ResultInv, RecordsAreTrue
  <1>2. ASSUME NEW n \in Nullifier, NEW k \in Key, Arrive(n, k) PROVE RecordInv'
    BY <1>2, ArriveRecord
  <1>3. ASSUME NEW r \in Request, Handle(r) PROVE RecordInv'
    <2>1. CASE Screen(r) \/ Reveal(r) \/ Lookup(r) \/ Claim(r) \/ Reread(r) \/ Convert(r)
      BY <2>1, EarlyRecord
    <2>2. CASE GetAccount(r) \/ Simulate(r) \/ Send(r) \/ GiveUp(r)
      BY <2>2, SubmitRecord
    <2>3. CASE Confirmed(r)
      <3>1. /\ step[r] = "waiting" /\ result[r] # "none"
            /\ step' = [step EXCEPT ![r] = "answered"]
            /\ UNCHANGED <<txlog, receipts, made, nullifier, reply, mempool, result, counted>>
        BY <2>3 DEF Confirmed, Goto, tables, ledger
      <3>2. RecordType'
        BY <3>1 DEF RecordInv, RecordType, Steps
      <3>3. ResultInv'
        BY <3>1 DEF RecordInv, RecordType, ResultInv, Unsent
      <3> QED BY <3>1, <3>2, <3>3 DEF RecordInv, RecordsAreTrue
    <2>4. CASE Respond(r)
      BY <2>4, RespondRecord
    <2> QED BY <1>3, <2>1, <2>2, <2>3, <2>4 DEF Handle
  <1>4. ASSUME NEW r \in Request, Apply(r) PROVE RecordInv'
    BY <1>4, ApplyRecord
  <1>5. ASSUME NEW r \in Request, Expire(r) PROVE RecordInv'
    BY <1>5 DEF Expire, tables, RecordInv, RecordType, ResultInv, RecordsAreTrue
  <1>6. ASSUME NEW k \in Key, Age(k) PROVE RecordInv'
    BY <1>6 DEF Age, ledger, RecordInv, RecordType, ResultInv, RecordsAreTrue
  <1>7. CASE Crash
    BY <1>7, CrashRecord
  <1>8. CASE UNCHANGED vars
    BY <1>8 DEF vars, tables, ledger, RecordInv, RecordType, ResultInv, RecordsAreTrue
  <1> QED BY <1>1, <1>2, <1>3, <1>4, <1>5, <1>6, <1>7, <1>8 DEF Next

\* Through lost answers, timeouts, retries and crashes, a receipt, a SUCCESS in
\* the log and the answers "success" and "already recorded" mean a vote that
\* the ledger counted, and "failed" a transaction that failed.
THEOREM RecordsTrue == Spec => []RecordsAreTrue
  <1>1. RecordInv => RecordsAreTrue
    BY DEF RecordInv
  <1> QED BY <1>1, InitRecord, NextRecord, PTL DEF Spec


----------------------------------------------------------------------------
(* The lock, the account's sequence, and the keys *)

HeldSteps == {"locked", "built", "simulated", "waiting"}
InsideSteps == {"built", "simulated", "waiting"}
SubmitSteps == {"claimed", "locked", "built", "simulated", "waiting", "answered"}

Settled(res) == {r \in Request : res[r] # "none"}

\* The types, of what RecordInv does not know.
TableType ==
    /\ commitments \in [Nullifier -> {"none", "COMMITTED", "REVEALED"}]
    /\ aged \subseteq {k \in Key : submissions[k] # "none"}
    /\ receipts \subseteq Nullifier
    /\ counted \subseteq Nullifier
    /\ clashed \subseteq 1 .. made /\ abandoned \subseteq 1 .. made
    /\ lapsed \subseteq Key

\* The sequence counts the transactions that the ledger applied.
SequenceInv ==
    /\ sequence = Cardinality(Settled(result))
    /\ account \in 0 .. MaxRequests

\* Those between the call and the end of the lock are in it, in a line: of any
\* two of them one waits for the other, and who has read the account waits for
\* nobody.
LockInv ==
    /\ lock = {r \in Request : step[r] \in HeldSteps}
    /\ ahead \in [Request -> SUBSET lock]
    /\ \A r \in Request \ lock : ahead[r] = {}
    /\ \A r, s \in lock : r # s => r \in ahead[s] \/ s \in ahead[r]
    /\ \A r \in Request : step[r] \in InsideSteps => ahead[r] = {}

\* While nobody abandoned a transaction, the pending one is of the request that
\* waits under the lock, so nothing moves the sequence under another one.
AbandonInv ==
    abandoned = {} =>
        /\ clashed = {}
        /\ \A r \in mempool : step[r] = "waiting"
        /\ \A r \in Request : step[r] \in {"built", "simulated"} => account = sequence

\* Until its row lapses, a key that a request submits under has its row.
KeyInv ==
    /\ submissions \in [Key -> {"none", "pending", "failed"}]
    /\ key \in Seq(Key) /\ Len(key) = made
    /\ \A r \in 1 .. made : step[r] \in SubmitSteps \cup {"rereading"} =>
          submissions[key[r]] # "none" \/ key[r] \in lapsed
    /\ OneSubmitterPerKey

SubmitInv == RecordInv /\ TableType /\ SequenceInv /\ LockInv /\ AbandonInv /\ KeyInv

----------------------------------------------------------------------------
(* The lock *)

\* A request goes on, and neither calls for the lock nor leaves it.
LEMMA StayLock ==
  ASSUME LockInv, RecordType, NEW r \in Request, NEW s,
         step' = [step EXCEPT ![r] = s],
         s \in HeldSteps <=> step[r] \in HeldSteps,
         s \in InsideSteps => step[r] \in InsideSteps \/ Inside(r),
         UNCHANGED queue
  PROVE  LockInv'
  <1>1. \A q \in Request : step'[q] = IF q = r THEN s ELSE step[q]
    BY DEF RecordType
  <1>2. lock' = {q \in Request : step'[q] \in HeldSteps}
    BY <1>1 DEF LockInv, queue
  <1>3. \A q \in Request : step'[q] \in InsideSteps => ahead'[q] = {}
    BY <1>1 DEF LockInv, queue, Inside
  <1> QED BY <1>2, <1>3 DEF LockInv, queue

\* A request calls for the lock: it waits for all that did before.
LEMMA JoinLock ==
  ASSUME LockInv, RecordType, NEW r \in Request, step[r] \notin HeldSteps,
         step' = [step EXCEPT ![r] = "locked"],
         lock' = lock \cup {r}, ahead' = [ahead EXCEPT ![r] = lock]
  PROVE  LockInv'
  <1>1. \A q \in Request : step'[q] = IF q = r THEN "locked" ELSE step[q]
    BY DEF RecordType
  <1>2. \A q \in Request : ahead'[q] = IF q = r THEN lock ELSE ahead[q]
    BY DEF LockInv
  <1>3. lock' = {q \in Request : step'[q] \in HeldSteps}
    BY <1>1 DEF LockInv, HeldSteps
  <1>4. ahead' \in [Request -> SUBSET lock']
    BY DEF LockInv
  <1>5. \A q \in Request \ lock' : ahead'[q] = {}
    BY <1>2 DEF LockInv
  <1>6. r \notin lock
    BY DEF LockInv
  <1>7. \A p, q \in lock' : p # q => p \in ahead'[q] \/ q \in ahead'[p]
    <2> SUFFICES ASSUME NEW p \in lock', NEW q \in lock', p # q
                 PROVE  p \in ahead'[q] \/ q \in ahead'[p]
      OBVIOUS
    <2>1. p \in Request /\ q \in Request
      BY <1>3
    <2> QED BY <1>2, <2>1 DEF LockInv
  <1>8. \A q \in Request : step'[q] \in InsideSteps => ahead'[q] = {}
    BY <1>1, <1>2 DEF LockInv, InsideSteps
  <1> QED BY <1>3, <1>4, <1>5, <1>7, <1>8 DEF LockInv

\* Some leave the lock.
LEMMA LeaveLock ==
  ASSUME LockInv, NEW S, Leave(S),
         \A q \in Request : IF q \in S THEN step'[q] \notin HeldSteps
                                       ELSE step'[q] = step[q]
  PROVE  LockInv'
  <1>1. \A q \in Request : ahead'[q] = IF q \in S THEN {} ELSE ahead[q] \ S
    BY DEF Leave
  <1>2. lock' = lock \ S
    BY DEF Leave
  <1>3. lock' = {q \in Request : step'[q] \in HeldSteps}
    BY <1>2 DEF LockInv
  <1>4. ahead' \in [Request -> SUBSET lock']
    BY <1>2 DEF LockInv, Leave
  <1>5. \A q \in Request \ lock' : ahead'[q] = {}
    <2> SUFFICES ASSUME NEW q \in Request, q \notin lock' PROVE ahead'[q] = {}
      OBVIOUS
    <2>1. CASE q \in S
      BY <1>1, <2>1
    <2>2. CASE q \notin S
      <3>1. ahead[q] = {}
        BY <1>2, <2>2 DEF LockInv
      <3> QED BY <1>1, <2>2, <3>1
    <2> QED BY <2>1, <2>2
  <1>6. \A p, q \in lock' : p # q => p \in ahead'[q] \/ q \in ahead'[p]
    <2> SUFFICES ASSUME NEW p \in lock', NEW q \in lock', p # q
                 PROVE  p \in ahead'[q] \/ q \in ahead'[p]
      OBVIOUS
    <2>1. p \in lock \ S /\ q \in lock \ S /\ p \in Request /\ q \in Request
      BY <1>2, <1>3
    <2>2. p \in ahead[q] \/ q \in ahead[p]
      BY <2>1 DEF LockInv
    <2>3. ahead'[p] = ahead[p] \ S /\ ahead'[q] = ahead[q] \ S
      BY <1>1, <2>1
    <2> QED BY <2>1, <2>2, <2>3
  <1>7. InsideSteps \subseteq HeldSteps
    BY DEF InsideSteps, HeldSteps
  <1>8. \A q \in Request : step'[q] \in InsideSteps => ahead'[q] = {}
    BY <1>1, <1>7 DEF LockInv
  <1> QED BY <1>3, <1>4, <1>5, <1>6, <1>8 DEF LockInv

\* The catch ends the request, under the lock and elsewhere.
LEMMA FailLock ==
  ASSUME LockInv, RecordType, NEW r \in Request, Fail(r)
  PROVE  LockInv'
  <1>1. Leave({r}) /\ step' = [step EXCEPT ![r] = "done"]
    BY DEF Fail, Catch, Answer, Goto
  <1>2. \A q \in Request : IF q \in {r} THEN step'[q] \notin HeldSteps
                                       ELSE step'[q] = step[q]
    BY <1>1 DEF RecordType, HeldSteps
  <1> QED BY <1>1, <1>2, LeaveLock

\* A request before its call of the lock, or after.
LEMMA OutsideLock ==
  ASSUME LockInv, RecordType, NEW r \in Request,
         Screen(r) \/ Reveal(r) \/ Lookup(r) \/ Claim(r) \/ Reread(r) \/ Convert(r) \/ Respond(r)
  PROVE  LockInv'
  <1>1. step[r] \notin HeldSteps
    BY DEF Screen, Reveal, Lookup, Claim, Reread, Convert, Respond, HeldSteps
  <1>2. CASE UNCHANGED queue
    <2>1. PICK s \in {"looking", "claiming", "rereading", "claimed", "done"} :
             step' = [step EXCEPT ![r] = s]
      <3>1. CASE Screen(r) \/ Reveal(r)
        BY <3>1 DEF Screen, Reveal, Answer, Goto, Catch
      <3>2. CASE Lookup(r) \/ Claim(r) \/ Reread(r)
        BY <3>2 DEF Lookup, Claim, Reread, Answer, Goto
      <3>3. CASE Respond(r)
        BY <3>3 DEF Respond, Answer, Goto
      <3>4. CASE Convert(r)
        <4>1. CASE Answer(r, "BAD_INPUT")
          BY <4>1 DEF Answer, Goto
        <4>2. CASE lock' = lock \cup {r}
          <5>1. r \in lock
            BY <1>2, <4>2 DEF queue
          <5> QED BY <1>1, <5>1 DEF LockInv
        <4> QED BY <3>4, <4>1, <4>2 DEF Convert
      <3> QED BY <3>1, <3>2, <3>3, <3>4
    <2>2. s \notin HeldSteps /\ s \notin InsideSteps
      BY DEF HeldSteps, InsideSteps
    <2> QED BY <1>1, <1>2, <2>1, <2>2, StayLock
  <1>3. CASE /\ Goto(r, "locked") /\ lock' = lock \cup {r}
             /\ ahead' = [ahead EXCEPT ![r] = lock]
    BY <1>1, <1>3, JoinLock DEF Goto
  <1> QED BY <1>2, <1>3
          DEF Screen, Reveal, Lookup, Claim, Reread, Convert, Respond

\* A request under the lock.
LEMMA InsideLock ==
  ASSUME LockInv, RecordType, NEW r \in Request,
         GetAccount(r) \/ Simulate(r) \/ Send(r) \/ Confirmed(r) \/ GiveUp(r)
  PROVE  LockInv'
  <1>1. CASE Fail(r)
    BY <1>1, FailLock
  <1>2. CASE Confirmed(r)
    <2>1. Leave({r}) /\ step' = [step EXCEPT ![r] = "answered"]
      BY <1>2 DEF Confirmed, Goto
    <2>2. \A q \in Request : IF q \in {r} THEN step'[q] \notin HeldSteps
                                         ELSE step'[q] = step[q]
      BY <2>1 DEF RecordType, HeldSteps
    <2> QED BY <2>1, <2>2, LeaveLock
  <1>3. ASSUME ~Fail(r), GetAccount(r) PROVE LockInv'
    <2>1. /\ step[r] = "locked" /\ Inside(r) /\ UNCHANGED queue
          /\ step' = [step EXCEPT ![r] = "built"]
      BY <1>3 DEF GetAccount, Goto
    <2> QED BY <2>1, StayLock DEF HeldSteps, InsideSteps
  <1>4. ASSUME ~Fail(r), Simulate(r) \/ Send(r) PROVE LockInv'
    <2>1. /\ step[r] \in {"built", "simulated"} /\ UNCHANGED queue
          /\ step' = [step EXCEPT ![r] = "simulated"] \/ step' = [step EXCEPT ![r] = "waiting"]
      BY <1>4 DEF Simulate, Send, Goto
    <2> QED BY <2>1, StayLock DEF HeldSteps, InsideSteps
  <1> QED BY <1>1, <1>2, <1>3, <1>4 DEF GiveUp

LEMMA InitLock == Init => LockInv
  BY DEF Init, LockInv, HeldSteps, InsideSteps

LEMMA NextLock == RecordInv /\ LockInv /\ [Next]_vars => LockInv'
  <1> SUFFICES ASSUME RecordInv, LockInv, [Next]_vars PROVE LockInv'
    OBVIOUS
  <1>0. RecordType
    BY DEF RecordInv
  <1>1. ASSUME UNCHANGED <<step, queue>> PROVE LockInv'
    BY <1>1 DEF LockInv, queue
  <1>2. ASSUME NEW n \in Nullifier, Commit(n) PROVE LockInv'
    BY <1>1, <1>2 DEF Commit
  <1>3. ASSUME NEW n \in Nullifier, NEW k \in Key, Arrive(n, k) PROVE LockInv'
    <2>1. /\ made + 1 \in Request /\ step[made + 1] = "unmade"
          /\ UNCHANGED queue
          /\ \/ step' = [step EXCEPT ![made + 1] = "done"]
             \/ step' = [step EXCEPT ![made + 1] = "arrived"]
      BY <1>3 DEF Arrive, Answer, Goto, RecordInv, RecordType, Request
    <2> QED BY <1>0, <2>1, StayLock DEF HeldSteps, InsideSteps
  <1>4. ASSUME NEW r \in Request, Handle(r) PROVE LockInv'
    BY <1>0, <1>4, OutsideLock, InsideLock DEF Handle
  <1>5. ASSUME NEW r \in Request, Apply(r) \/ Expire(r) PROVE LockInv'
    BY <1>1, <1>5 DEF Apply, Expire
  <1>6. ASSUME NEW k \in Key, Age(k) PROVE LockInv'
    BY <1>1, <1>6 DEF Age
  <1>7. CASE Crash
    <2>1. PICK S \in SUBSET InFlight :
             /\ step' = [r \in Request |-> IF r \in S THEN "dead" ELSE step[r]]
             /\ Leave(S)
      BY <1>7 DEF Crash
    <2>2. \A q \in Request : IF q \in S THEN step'[q] \notin HeldSteps
                                       ELSE step'[q] = step[q]
      BY <2>1 DEF HeldSteps
    <2> QED BY <2>1, <2>2, LeaveLock
  <1>8. CASE UNCHANGED vars
    BY <1>1, <1>8 DEF vars
  <1> QED BY <1>2, <1>3, <1>4, <1>5, <1>6, <1>7, <1>8 DEF Next

----------------------------------------------------------------------------
(* Clashes of the sequence *)

\* One at a time is past the account's fetch.
LEMMA OneInside ==
  ASSUME LockInv, NEW r \in Request, NEW q \in Request,
         step[r] \in InsideSteps, step[q] \in InsideSteps
  PROVE  r = q
  <1>1. InsideSteps \subseteq HeldSteps
    BY DEF InsideSteps, HeldSteps
  <1> QED BY <1>1 DEF LockInv

\* A request goes on or gives up, and leaves no transaction behind unseen.
LEMMA QuietAbandon ==
  ASSUME AbandonInv, RecordType, NEW r \in Request, NEW s,
         step' = [step EXCEPT ![r] = s],
         UNCHANGED <<mempool, clashed, account, sequence>>,
         abandoned \subseteq abandoned',
         s \in {"built", "simulated"} => step[r] \in {"built", "simulated"},
         step[r] = "waiting" /\ r \in mempool => abandoned' # {}
  PROVE  AbandonInv'
  <1>1. \A q \in Request : step'[q] = IF q = r THEN s ELSE step[q]
    BY DEF RecordType
  <1> SUFFICES ASSUME abandoned' = {}
               PROVE  /\ clashed' = {}
                      /\ \A q \in mempool' : step'[q] = "waiting"
                      /\ \A q \in Request : step'[q] \in {"built", "simulated"}
                                               => account' = sequence'
    BY DEF AbandonInv
  <1>2. abandoned = {}
    OBVIOUS
  <1>3. r \notin mempool
    BY <1>2 DEF AbandonInv
  <1>4. mempool \subseteq Request
    BY DEF RecordType, Request
  <1> QED BY <1>1, <1>2, <1>3, <1>4 DEF AbandonInv

\* The transaction of the one inside meets no other.
LEMMA SendAbandon ==
  ASSUME RecordInv, LockInv, AbandonInv, NEW r \in Request, Send(r)
  PROVE  AbandonInv'
  <1>1. step[r] = "simulated" /\ UNCHANGED <<account, sequence>>
        /\ abandoned \subseteq abandoned'
    BY DEF Send
  <1> SUFFICES ASSUME abandoned' = {}
               PROVE  /\ clashed' = {}
                      /\ \A q \in mempool' : step'[q] = "waiting"
                      /\ \A q \in Request : step'[q] \in {"built", "simulated"}
                                               => account' = sequence'
    BY DEF AbandonInv
  <1>2. abandoned = {} /\ clashed = {} /\ account = sequence
    BY <1>1 DEF AbandonInv
  <1>3. mempool = {}
    <2> SUFFICES ASSUME NEW q \in mempool PROVE FALSE
      OBVIOUS
    <2>1. q \in Request /\ step[q] = "waiting"
      BY <1>2 DEF AbandonInv, RecordInv, RecordType, Request
    <2>2. q = r
      BY <1>1, <2>1, OneInside DEF InsideSteps
    <2> QED BY <1>1, <2>1, <2>2
  <1>4. CASE Goto(r, "waiting") /\ mempool' = {r} /\ UNCHANGED clashed
    <2>1. step'[r] = "waiting"
      BY <1>4 DEF Goto, RecordInv, RecordType
    <2> QED BY <1>1, <1>2, <1>4, <2>1
  <1>5. CASE Fail(r) /\ UNCHANGED <<mempool, clashed>>
    BY <1>1, <1>2, <1>3, <1>5
  <1> QED BY <1>1, <1>2, <1>3, <1>4, <1>5 DEF Send

LEMMA HandleAbandon ==
  ASSUME RecordInv, LockInv, AbandonInv, NEW r \in Request, Handle(r)
  PROVE  AbandonInv'
  <1>0. RecordType
    BY DEF RecordInv
  <1>1. CASE Screen(r) \/ Reveal(r) \/ Lookup(r) \/ Claim(r) \/ Reread(r) \/ Convert(r) \/ Respond(r)
    <2>1. /\ step[r] # "waiting"
          /\ UNCHANGED <<mempool, clashed, abandoned, account, sequence>>
      BY <1>1 DEF Screen, Reveal, Lookup, Claim, Reread, Convert, Respond, ledger, history
    <2>2. PICK s \in {"looking", "claiming", "rereading", "claimed", "locked", "done"} :
             step' = [step EXCEPT ![r] = s]
      <3>1. CASE Screen(r) \/ Reveal(r)
        BY <3>1 DEF Screen, Reveal, Answer, Goto, Catch
      <3>2. CASE Lookup(r) \/ Claim(r) \/ Reread(r)
        BY <3>2 DEF Lookup, Claim, Reread, Answer, Goto
      <3>3. CASE Convert(r) \/ Respond(r)
        BY <3>3 DEF Convert, Respond, Answer, Goto
      <3> QED BY <1>1, <3>1, <3>2, <3>3
    <2> QED BY <1>0, <2>1, <2>2, QuietAbandon
  <1>2. ASSUME Fail(r), GetAccount(r) \/ Simulate(r) \/ GiveUp(r) PROVE AbandonInv'
    <2>1. /\ step' = [step EXCEPT ![r] = "done"]
          /\ UNCHANGED <<mempool, clashed, sequence>> /\ abandoned \subseteq abandoned'
      BY <1>2 DEF Fail, Catch, Answer, Goto, GetAccount, Simulate, GiveUp, ledger, history
    <2>2. CASE account' = account
      <3>1. step[r] = "waiting" /\ r \in mempool => abandoned' # {}
        BY <1>2 DEF GetAccount, Simulate, GiveUp
      <3> QED BY <1>0, <2>1, <2>2, <3>1, QuietAbandon
    <2>3. CASE GetAccount(r) /\ account' # account
      <3>1. Goto(r, "built")
        BY <2>3 DEF GetAccount
      <3>2. step'[r] = "done" /\ step'[r] = "built"
        BY <1>0, <2>1, <3>1 DEF Goto, RecordType
      <3> QED BY <3>2
    <2> QED BY <1>2, <2>2, <2>3 DEF Simulate, GiveUp
  <1>3. ASSUME ~Fail(r), GetAccount(r) PROVE AbandonInv'
    <2>1. /\ step[r] = "locked" /\ account' = sequence
          /\ step' = [step EXCEPT ![r] = "built"]
          /\ UNCHANGED <<mempool, clashed, abandoned, sequence>>
      BY <1>3 DEF GetAccount, Goto, ledger, history
    <2>2. mempool \subseteq Request
      BY DEF RecordInv, RecordType, Request
    <2>3. \A q \in Request : q # r => step'[q] = step[q]
      BY <1>0, <2>1 DEF RecordType
    <2> QED BY <2>1, <2>2, <2>3 DEF AbandonInv
  <1>4. ASSUME ~Fail(r), Simulate(r) PROVE AbandonInv'
    <2>1. /\ step[r] = "built"
          /\ step' = [step EXCEPT ![r] = "simulated"]
          /\ UNCHANGED <<mempool, clashed, abandoned, account, sequence>>
      BY <1>4 DEF Simulate, Goto, ledger, history
    <2> QED BY <1>0, <2>1, QuietAbandon
  <1>5. CASE Send(r)
    BY <1>5, SendAbandon
  <1>6. CASE Confirmed(r)
    <2>1. /\ step' = [step EXCEPT ![r] = "answered"] /\ result[r] # "none"
          /\ UNCHANGED <<mempool, clashed, abandoned, account, sequence>>
      BY <1>6 DEF Confirmed, Goto, ledger, history
    <2>2. r \notin mempool
      BY <2>1 DEF RecordInv, ResultInv
    <2> QED BY <1>0, <2>1, <2>2, QuietAbandon
  <1>7. CASE GiveUp(r)
    <2>1. Fail(r)
      BY <1>7 DEF GiveUp
    <2> QED BY <1>2, <1>7, <2>1
  <1>8. CASE GetAccount(r) \/ Simulate(r)
    BY <1>2, <1>3, <1>4, <1>8
  <1> QED BY <1>1, <1>5, <1>6, <1>7, <1>8 DEF Handle

LEMMA InitAbandon == Init => AbandonInv
  BY DEF Init, AbandonInv

LEMMA NextAbandon == RecordInv /\ LockInv /\ AbandonInv /\ [Next]_vars => AbandonInv'
  <1> SUFFICES ASSUME RecordInv, LockInv, AbandonInv, [Next]_vars PROVE AbandonInv'
    OBVIOUS
  <1>0. /\ RecordType
        /\ mempool \subseteq Request
    BY DEF RecordInv, RecordType, Request
  <1>1. ASSUME UNCHANGED <<step, mempool, clashed, abandoned, account, sequence>>
        PROVE  AbandonInv'
    BY <1>1 DEF AbandonInv
  <1>2. ASSUME NEW n \in Nullifier, Commit(n) PROVE AbandonInv'
    BY <1>1, <1>2 DEF Commit, ledger, history
  <1>3. ASSUME NEW n \in Nullifier, NEW k \in Key, Arrive(n, k) PROVE AbandonInv'
    <2>1. /\ made + 1 \in Request /\ step[made + 1] = "unmade"
          /\ UNCHANGED <<mempool, clashed, abandoned, account, sequence>>
          /\ \/ step' = [step EXCEPT ![made + 1] = "done"]
             \/ step' = [step EXCEPT ![made + 1] = "arrived"]
      BY <1>3 DEF Arrive, Answer, Goto, RecordInv, RecordType, Request, ledger, history
    <2> QED BY <1>0, <2>1, QuietAbandon
  <1>4. ASSUME NEW r \in Request, Handle(r) PROVE AbandonInv'
    BY <1>4, HandleAbandon
  <1>5. ASSUME NEW r \in Request, Apply(r) PROVE AbandonInv'
    <2> SUFFICES ASSUME abandoned' = {}
                 PROVE  /\ clashed' = {}
                        /\ \A q \in mempool' : step'[q] = "waiting"
                        /\ \A q \in Request : step'[q] \notin {"built", "simulated"}
      BY DEF AbandonInv
    <2>1. /\ r \in mempool /\ mempool' \subseteq mempool
          /\ UNCHANGED <<step, clashed, abandoned>>
      BY <1>5 DEF Apply, history
    <2>2. abandoned = {} /\ step[r] = "waiting"
      BY <2>1 DEF AbandonInv
    <2>3. \A q \in Request : step[q] \notin {"built", "simulated"}
      BY <2>2, OneInside DEF InsideSteps
    <2> QED BY <2>1, <2>2, <2>3 DEF AbandonInv
  <1>6. ASSUME NEW r \in Request, Expire(r) PROVE AbandonInv'
    BY <1>6 DEF Expire, history, AbandonInv
  <1>7. ASSUME NEW k \in Key, Age(k) PROVE AbandonInv'
    BY <1>1, <1>7 DEF Age, ledger, history
  <1>8. CASE Crash
    <2>1. PICK S \in SUBSET InFlight :
             /\ step' = [r \in Request |-> IF r \in S THEN "dead" ELSE step[r]]
             /\ abandoned' = abandoned \cup (S \cap mempool)
             /\ UNCHANGED <<mempool, clashed, account, sequence>>
      BY <1>8 DEF Crash, ledger
    <2>2. abandoned' = {} => abandoned = {} /\ \A q \in mempool : q \notin S
      BY <2>1
    <2> QED BY <1>0, <2>1, <2>2 DEF AbandonInv
  <1>9. CASE UNCHANGED vars
    BY <1>1, <1>9 DEF vars, ledger, history
  <1> QED BY <1>2, <1>3, <1>4, <1>5, <1>6, <1>7, <1>8, <1>9 DEF Next

\* However handlers interleave, time out or die, a transaction is turned away
\* for its sequence number only after another one was left pending by a caller
\* that gave the lock up, provided that the account is read as the ledger has it.
THEOREM ClashesFollowAbandon == Spec => []ClashOnlyAfterAbandon
  <1>1. AbandonInv => ClashOnlyAfterAbandon
    BY DEF AbandonInv, ClashOnlyAfterAbandon
  <1>2. Init => RecordInv /\ LockInv /\ AbandonInv
    BY InitRecord, InitLock, InitAbandon
  <1>3. RecordInv /\ LockInv /\ AbandonInv /\ [Next]_vars
            => (RecordInv /\ LockInv /\ AbandonInv)'
    BY NextRecord, NextLock, NextAbandon
  <1> QED BY <1>1, <1>2, <1>3, PTL DEF Spec

----------------------------------------------------------------------------
(* One submitter of a key *)

\* A key's row is there, or was and lapsed.
Rowed(k) == submissions[k] # "none" \/ k \in lapsed

\* A request goes on, and no row goes away unseen.
LEMMA StayKey ==
  ASSUME KeyInv, RecordType, NEW r \in Request, NEW s,
         step' = [step EXCEPT ![r] = s],
         s \in SubmitSteps => step[r] \in SubmitSteps,
         s = "rereading" => step[r] \in SubmitSteps \cup {"rereading"},
         UNCHANGED <<made, key>>,
         submissions' \in [Key -> {"none", "pending", "failed"}],
         \A k \in Key : Rowed(k) => Rowed(k)',
         lapsed \subseteq lapsed'
  PROVE  KeyInv'
  <1>1. /\ \A q \in 1 .. made : q \in Request /\ key[q] \in Key
        /\ \A q \in Request : step'[q] = IF q = r THEN s ELSE step[q]
    BY DEF KeyInv, RecordType, Request
  <1>2. \A q \in 1 .. made' : step'[q] \in SubmitSteps \cup {"rereading"} => Rowed(key[q])'
    BY <1>1 DEF KeyInv, Rowed
  <1>3. \A q \in 1 .. made : Submitting(q)' => Submitting(q)
    BY <1>1 DEF Submitting, SubmitSteps
  <1>4. OneSubmitterPerKey'
    BY <1>1, <1>3 DEF KeyInv, OneSubmitterPerKey
  <1> QED BY <1>2, <1>4 DEF KeyInv, Rowed

\* A request goes on its way to the ledger with a key whose row lapsed, or was
\* not there until now.
LEMMA SubmitKey ==
  ASSUME KeyInv, RecordType, NEW r \in Request, step[r] # "unmade",
         step' = [step EXCEPT ![r] = "claimed"],
         UNCHANGED <<made, key, lapsed>>,
         submissions' \in [Key -> {"none", "pending", "failed"}],
         \A k \in Key : Rowed(k) => Rowed(k)',
         Rowed(key[r])',
         key[r] \in lapsed \/ submissions[key[r]] = "none"
  PROVE  KeyInv'
  <1>1. /\ \A q \in 1 .. made : q \in Request /\ key[q] \in Key
        /\ \A q \in Request : step'[q] = IF q = r THEN "claimed" ELSE step[q]
        /\ r \in 1 .. made
    BY DEF KeyInv, RecordType, Request
  <1>2. \A q \in 1 .. made' : step'[q] \in SubmitSteps \cup {"rereading"} => Rowed(key[q])'
    BY <1>1 DEF KeyInv, Rowed
  <1>3. \A q \in 1 .. made : q # r /\ Submitting(q)' => Submitting(q)
    BY <1>1 DEF Submitting, SubmitSteps
  <1>4. \A q \in 1 .. made : q # r /\ Submitting(q) /\ key[q] = key[r] => key[r] \in lapsed
    BY DEF KeyInv, Submitting, SubmitSteps
  <1>5. OneSubmitterPerKey'
    BY <1>1, <1>3, <1>4 DEF KeyInv, OneSubmitterPerKey
  <1> QED BY <1>2, <1>5 DEF KeyInv, Rowed

\* The catch keeps the rows.
LEMMA CatchKey ==
  ASSUME KeyInv, NEW r, Catch(r)
  PROVE  /\ submissions' \in [Key -> {"none", "pending", "failed"}]
         /\ \A k \in Key : submissions'[k] # "none" <=> submissions[k] # "none"
         /\ step' = [step EXCEPT ![r] = "done"]
         /\ UNCHANGED aged
  BY DEF KeyInv, Catch, Answer, Goto

LEMMA ArriveKey ==
  ASSUME KeyInv, RecordType, NEW n \in Nullifier, NEW k \in Key, Arrive(n, k)
  PROVE  KeyInv'
  <1>1. /\ made \in Nat /\ made + 1 \in Request /\ made' = made + 1
        /\ UNCHANGED <<submissions, lapsed>>
    BY DEF Arrive, RecordType, Request, tables, history
  <1>2. /\ key' \in Seq(Key) /\ Len(key') = made'
        /\ \A q \in 1 .. made : key'[q] = key[q]
    BY <1>1 DEF Arrive, KeyInv
  <1>3. PICK s \in {"done", "arrived"} : step' = [step EXCEPT ![made + 1] = s]
    BY DEF Arrive, Answer, Goto
  <1>4. \A q \in Request : step'[q] = IF q = made + 1 THEN s ELSE step[q]
    BY <1>1, <1>3 DEF RecordType
  <1>5. /\ s \notin SubmitSteps \cup {"rereading"}
        /\ \A q \in 1 .. made' : q \in Request /\ (q \in 1 .. made \/ q = made + 1)
    BY <1>1 DEF SubmitSteps, Request
  <1>6. \A q \in 1 .. made' : step'[q] \in SubmitSteps \cup {"rereading"}
            => q \in 1 .. made /\ step[q] = step'[q] /\ key'[q] = key[q]
    BY <1>2, <1>4, <1>5
  <1>7. \A q \in 1 .. made' : step'[q] \in SubmitSteps \cup {"rereading"}
            => submissions'[key'[q]] # "none" \/ key'[q] \in lapsed'
    BY <1>1, <1>6 DEF KeyInv
  <1>8. \A q \in 1 .. made' : Submitting(q)'
            => q \in 1 .. made /\ Submitting(q) /\ key'[q] = key[q]
    BY <1>6 DEF Submitting, SubmitSteps
  <1>9. OneSubmitterPerKey'
    BY <1>1, <1>8 DEF KeyInv, OneSubmitterPerKey
  <1> QED BY <1>1, <1>2, <1>7, <1>9 DEF KeyInv

LEMMA HandleKey ==
  ASSUME KeyInv, RecordType, NEW r \in Request, Handle(r)
  PROVE  KeyInv'
  <1>1. UNCHANGED <<made, key>>
    BY DEF Handle, Screen, Reveal, Lookup, Claim, Reread, Convert, GetAccount, Simulate,
           Send, Confirmed, GiveUp, Respond
  <1>2. step[r] # "unmade"
    BY DEF Handle, Screen, Reveal, Lookup, Claim, Reread, Convert, GetAccount, Simulate,
           Send, Confirmed, GiveUp, Respond
  <1>3. r \in 1 .. made /\ key[r] \in Key
    BY <1>2 DEF RecordType, KeyInv
  <1>4. ASSUME NEW s, step' = [step EXCEPT ![r] = s], s # "rereading",
               s \in SubmitSteps => step[r] \in SubmitSteps,
               UNCHANGED <<submissions, lapsed>>
        PROVE  KeyInv'
    BY <1>1, <1>4, StayKey DEF KeyInv, Rowed
  <1>5. ASSUME Catch(r), UNCHANGED lapsed PROVE KeyInv'
    <2>1. "done" \notin SubmitSteps /\ "done" # "rereading"
      BY DEF SubmitSteps
    <2> QED BY <1>1, <1>5, <2>1, CatchKey, StayKey DEF Rowed
  <1>6. CASE Screen(r)
    <2>1. UNCHANGED lapsed
      BY <1>6 DEF Screen, history
    <2>2. CASE Answer(r, "BAD_INPUT") /\ UNCHANGED tables
      BY <1>4, <2>1, <2>2 DEF Answer, Goto, tables, SubmitSteps
    <2> QED BY <1>5, <1>6, <2>1, <2>2 DEF Screen
  <1>7. CASE Reveal(r)
    BY <1>4, <1>7 DEF Reveal, Answer, Goto, history, SubmitSteps
  <1>8. CASE Lookup(r)
    <2>1. /\ submissions' = [k \in Key |-> IF k \in aged THEN "none" ELSE submissions[k]]
          /\ lapsed' = lapsed \cup aged
          /\ \/ step' = [step EXCEPT ![r] = "done"]
             \/ step' = [step EXCEPT ![r] = "claiming"]
      BY <1>8 DEF Lookup, Answer, Goto
    <2>2. submissions' \in [Key -> {"none", "pending", "failed"}]
      BY <2>1 DEF KeyInv
    <2>3. \A k \in Key : Rowed(k) => Rowed(k)'
      BY <2>1 DEF Rowed
    <2>4. {"done", "claiming"} \cap (SubmitSteps \cup {"rereading"}) = {}
      BY DEF SubmitSteps
    <2>5. lapsed \subseteq lapsed'
      BY <2>1
    <2> QED BY <1>1, <2>1, <2>2, <2>3, <2>4, <2>5, StayKey
  <1>9. CASE Claim(r)
    <2>1. CASE submissions[key[r]] = "none"
      <3>1. /\ submissions' = [submissions EXCEPT ![key[r]] = "pending"]
            /\ step' = [step EXCEPT ![r] = "claimed"] /\ UNCHANGED lapsed
        BY <1>9, <2>1 DEF Claim, Goto, history
      <3>2. submissions' \in [Key -> {"none", "pending", "failed"}]
        BY <3>1 DEF KeyInv
      <3>3. (\A k \in Key : Rowed(k) => Rowed(k)') /\ Rowed(key[r])'
        BY <1>1, <1>3, <3>1 DEF KeyInv, Rowed
      <3> QED BY <1>1, <1>2, <2>1, <3>1, <3>2, <3>3, SubmitKey
    <2>2. CASE submissions[key[r]] # "none"
      <3>1. /\ step' = [step EXCEPT ![r] = "rereading"] /\ UNCHANGED <<submissions, lapsed>>
        BY <1>9, <2>2 DEF Claim, Goto, history
      <3>2. \A q \in Request : step'[q] = IF q = r THEN "rereading" ELSE step[q]
        BY <3>1 DEF RecordType
      <3>3. \A q \in 1 .. made : q \in Request
        BY DEF RecordType, Request
      <3>4. \A q \in 1 .. made : Submitting(q)' => Submitting(q)
        BY <3>2, <3>3 DEF Submitting
      <3>5. OneSubmitterPerKey'
        BY <1>1, <3>1, <3>4 DEF KeyInv, OneSubmitterPerKey
      <3>6. \A q \in 1 .. made : step'[q] \in SubmitSteps \cup {"rereading"}
                => submissions[key[q]] # "none" \/ key[q] \in lapsed
        BY <2>2, <3>2, <3>3 DEF KeyInv
      <3> QED BY <1>1, <3>1, <3>5, <3>6 DEF KeyInv
    <2> QED BY <2>1, <2>2
  <1>10. CASE Reread(r)
    <2>1. /\ step[r] = "rereading" /\ UNCHANGED <<submissions, lapsed>>
      BY <1>10 DEF Reread, tables, history
    <2>2. CASE submissions[key[r]] # "none"
      <3>1. step' = [step EXCEPT ![r] = "done"]
        BY <1>10, <2>2 DEF Reread, Answer, Goto
      <3> QED BY <1>4, <2>1, <3>1 DEF SubmitSteps
    <2>3. CASE submissions[key[r]] = "none"
      <3>1. step' = [step EXCEPT ![r] = "claimed"]
        BY <1>10, <2>3 DEF Reread, Goto
      <3>2. key[r] \in lapsed
        BY <1>3, <2>1, <2>3 DEF KeyInv
      <3>3. Rowed(key[r])' /\ \A k \in Key : Rowed(k) => Rowed(k)'
        BY <1>1, <2>1, <3>2 DEF Rowed
      <3>4. submissions' \in [Key -> {"none", "pending", "failed"}]
        BY <2>1 DEF KeyInv
      <3> QED BY <1>1, <1>2, <2>1, <3>1, <3>2, <3>3, <3>4, SubmitKey
    <2> QED BY <2>2, <2>3
  <1>11. CASE Convert(r)
    <2>1. step[r] \in SubmitSteps
      BY <1>11 DEF Convert, SubmitSteps
    <2> QED BY <1>4, <1>11, <2>1 DEF Convert, Answer, Goto, tables, history
  <1>12. CASE GetAccount(r) \/ Simulate(r) \/ Send(r) \/ GiveUp(r)
    <2>1. UNCHANGED lapsed /\ step[r] \in SubmitSteps
      BY <1>12 DEF GetAccount, Simulate, Send, GiveUp, history, SubmitSteps
    <2>2. CASE Fail(r)
      BY <1>5, <2>1, <2>2 DEF Fail
    <2>3. CASE ~Fail(r)
      <3>1. /\ UNCHANGED submissions
            /\ \E s \in {"built", "simulated", "waiting"} : step' = [step EXCEPT ![r] = s]
        BY <1>12, <2>3 DEF GetAccount, Simulate, Send, GiveUp, Goto, tables
      <3> QED BY <1>4, <2>1, <3>1
    <2> QED BY <2>2, <2>3
  <1>13. CASE Confirmed(r)
    <2>1. /\ step[r] \in SubmitSteps /\ UNCHANGED <<submissions, lapsed>>
          /\ step' = [step EXCEPT ![r] = "answered"]
      BY <1>13 DEF Confirmed, Goto, tables, history, SubmitSteps
    <2> QED BY <1>4, <2>1
  <1>14. CASE Respond(r)
    <2>1. /\ step[r] \in SubmitSteps /\ UNCHANGED <<submissions, lapsed>>
          /\ step' = [step EXCEPT ![r] = "done"]
      BY <1>14 DEF Respond, Answer, Goto, history, SubmitSteps
    <2> QED BY <1>4, <2>1
  <1> QED BY <1>6, <1>7, <1>8, <1>9, <1>10, <1>11, <1>12, <1>13, <1>14 DEF Handle

LEMMA InitKey == Init => KeyInv
  <1> SUFFICES ASSUME Init PROVE KeyInv
    OBVIOUS
  <1>1. /\ submissions \in [Key -> {"none", "pending", "failed"}]
        /\ key = <<>> /\ key \in Seq(Key) /\ Len(key) = 0 /\ made = 0
    BY DEF Init
  <1>2. 1 .. made = {}
    BY <1>1
  <1> QED BY <1>1, <1>2 DEF KeyInv, OneSubmitterPerKey

LEMMA NextKey == RecordInv /\ KeyInv /\ [Next]_vars => KeyInv'
  <1> SUFFICES ASSUME RecordType, KeyInv, [Next]_vars PROVE KeyInv'
    BY DEF RecordInv
  <1>1. ASSUME UNCHANGED <<submissions, made, step, key, lapsed>> PROVE KeyInv'
    BY <1>1 DEF KeyInv, OneSubmitterPerKey, Submitting
  <1>2. ASSUME NEW n \in Nullifier, Commit(n) PROVE KeyInv'
    BY <1>1, <1>2 DEF Commit, history
  <1>3. ASSUME NEW n \in Nullifier, NEW k \in Key, Arrive(n, k) PROVE KeyInv'
    BY <1>3, ArriveKey
  <1>4. ASSUME NEW r \in Request, Handle(r) PROVE KeyInv'
    BY <1>4, HandleKey
  <1>5. ASSUME NEW r \in Request, Apply(r) \/ Expire(r) PROVE KeyInv'
    BY <1>1, <1>5 DEF Apply, Expire, tables, history
  <1>6. ASSUME NEW k \in Key, Age(k) PROVE KeyInv'
    BY <1>1, <1>6 DEF Age, history
  <1>7. CASE Crash
    <2>1. PICK S \in SUBSET InFlight :
             /\ step' = [r \in Request |-> IF r \in S THEN "dead" ELSE step[r]]
             /\ UNCHANGED <<submissions, made, key, lapsed>>
      BY <1>7 DEF Crash, tables
    <2>2. \A q \in 1 .. made : q \in Request
      BY DEF RecordType, Request
    <2>3. \A q \in 1 .. made : step'[q] \in SubmitSteps \cup {"rereading"}
              => step[q] \in SubmitSteps \cup {"rereading"}
      BY <2>1, <2>2 DEF SubmitSteps
    <2>4. \A q \in 1 .. made : Submitting(q)' => Submitting(q)
      BY <2>1, <2>2 DEF Submitting
    <2>5. OneSubmitterPerKey'
      BY <2>1, <2>4 DEF KeyInv, OneSubmitterPerKey
    <2> QED BY <2>1, <2>3, <2>5 DEF KeyInv
  <1>8. CASE UNCHANGED vars
    BY <1>1, <1>8 DEF vars, tables, history
  <1> QED BY <1>2, <1>3, <1>4, <1>5, <1>6, <1>7, <1>8 DEF Next

\* However the relayer's workers interleave around INSERT OR IGNORE, two
\* requests with one key are on their way to the ledger together only after a
\* row of that key lapsed.
THEOREM OneSubmitter == Spec => []OneSubmitterPerKey
  <1>1. KeyInv => OneSubmitterPerKey
    BY DEF KeyInv
  <1>2. Init => RecordInv /\ KeyInv
    BY InitRecord, InitKey
  <1>3. RecordInv /\ KeyInv /\ [Next]_vars => (RecordInv /\ KeyInv)'
    BY NextRecord, NextKey
  <1> QED BY <1>1, <1>2, <1>3, PTL DEF Spec

----------------------------------------------------------------------------
(* Types *)

LEMMA RequestsFinite ==
  /\ IsFiniteSet(Request) /\ Cardinality(Request) = MaxRequests
  /\ \A res : IsFiniteSet(Settled(res)) /\ Cardinality(Settled(res)) \in 0 .. MaxRequests
  <1>1. IsFiniteSet(Request) /\ Cardinality(Request) = MaxRequests
    BY FS_Interval DEF Request
  <1>2. ASSUME NEW res
        PROVE  IsFiniteSet(Settled(res)) /\ Cardinality(Settled(res)) \in 0 .. MaxRequests
    <2>1. Settled(res) \subseteq Request
      BY DEF Settled
    <2>2. IsFiniteSet(Settled(res)) /\ Cardinality(Settled(res)) <= Cardinality(Request)
      BY <1>1, <2>1, FS_Subset
    <2>3. Cardinality(Settled(res)) \in Nat
      BY <2>2, FS_CardinalityType
    <2> QED BY <1>1, <2>2, <2>3
  <1> QED BY <1>1, <1>2

LEMMA InitSequence == Init => SequenceInv
  <1> SUFFICES ASSUME Init PROVE SequenceInv
    OBVIOUS
  <1>1. Settled(result) = {}
    BY DEF Init, Settled
  <1>2. Cardinality(Settled(result)) = 0
    BY <1>1, FS_EmptySet
  <1> QED BY <1>2 DEF Init, SequenceInv

\* Each transaction moves the sequence once: only a pending one has no result.
LEMMA NextSequence == RecordInv /\ SequenceInv /\ [Next]_vars => SequenceInv'
  <1> SUFFICES ASSUME RecordInv, SequenceInv, [Next]_vars PROVE SequenceInv'
    OBVIOUS
  <1>1. ASSUME UNCHANGED <<sequence, result>>, account' \in {account, sequence}
        PROVE  SequenceInv'
    <2>1. sequence \in 0 .. MaxRequests
      BY RequestsFinite DEF SequenceInv
    <2> QED BY <1>1, <2>1 DEF SequenceInv, Settled
  <1>2. ASSUME NEW n \in Nullifier, Commit(n) PROVE SequenceInv'
    BY <1>1, <1>2 DEF Commit, ledger
  <1>3. ASSUME NEW n \in Nullifier, NEW k \in Key, Arrive(n, k) PROVE SequenceInv'
    BY <1>1, <1>3 DEF Arrive, ledger
  <1>4. ASSUME NEW r \in Request, Handle(r) PROVE SequenceInv'
    <2>1. /\ UNCHANGED <<sequence, result>>
      BY <1>4 DEF Handle, Screen, Reveal, Lookup, Claim, Reread, Convert, GetAccount,
                  Simulate, Send, Confirmed, GiveUp, Respond, ledger
    <2>2. account' \in {account, sequence}
      BY <1>4 DEF Handle, Screen, Reveal, Lookup, Claim, Reread, Convert, GetAccount,
                  Simulate, Send, Confirmed, GiveUp, Respond
    <2> QED BY <1>1, <2>1, <2>2
  <1>5. ASSUME NEW r \in Request, Apply(r) PROVE SequenceInv'
    <2>1. /\ sequence' = sequence + 1 /\ account' = account
          /\ \E s \in {"SUCCESS", "FAILED"} : result' = [result EXCEPT ![r] = s]
          /\ r \in mempool
      BY <1>5 DEF Apply
    <2>2. result[r] = "none"
      BY <2>1 DEF RecordInv, ResultInv
    <2>3. Settled(result') = Settled(result) \cup {r} /\ r \notin Settled(result)
      BY <2>1, <2>2 DEF Settled, RecordInv, RecordType
    <2>4. Cardinality(Settled(result')) = Cardinality(Settled(result)) + 1
      BY <2>3, RequestsFinite, FS_AddElement
    <2> QED BY <2>1, <2>4 DEF SequenceInv
  <1>6. ASSUME NEW r \in Request, Expire(r) PROVE SequenceInv'
    BY <1>1, <1>6 DEF Expire
  <1>7. ASSUME NEW k \in Key, Age(k) PROVE SequenceInv'
    BY <1>1, <1>7 DEF Age, ledger
  <1>8. CASE Crash
    BY <1>1, <1>8 DEF Crash, ledger
  <1>9. CASE UNCHANGED vars
    BY <1>1, <1>9 DEF vars, ledger
  <1> QED BY <1>2, <1>3, <1>4, <1>5, <1>6, <1>7, <1>8, <1>9 DEF Next

\* The tables of one step: what a request carries is a nullifier and a key.
LEMMA HandleTables ==
  ASSUME RecordInv, KeyInv, TableType, NEW r \in Request, Handle(r)
  PROVE  TableType'
  <1>1. /\ step[r] # "unmade"
        /\ UNCHANGED <<made, counted>>
    BY DEF Handle, Screen, Reveal, Lookup, Claim, Reread, Convert, GetAccount, Simulate,
           Send, Confirmed, GiveUp, Respond, ledger
  <1>2. r \in 1 .. made /\ nullifier[r] \in Nullifier /\ key[r] \in Key
    BY <1>1 DEF RecordInv, RecordType, KeyInv
  <1>3. ASSUME Catch(r)
        PROVE  /\ aged' \subseteq {k \in Key : submissions'[k] # "none"}
               /\ UNCHANGED <<commitments, receipts>>
    <2>1. \A k \in Key : submissions'[k] # "none" <=> submissions[k] # "none"
      BY <1>3, CatchKey
    <2> QED BY <1>3, <2>1 DEF Catch, TableType
  <1>4. /\ commitments' \in [Nullifier -> {"none", "COMMITTED", "REVEALED"}]
        /\ receipts' \subseteq Nullifier
        /\ aged' \subseteq {k \in Key : submissions'[k] # "none"}
    <2>1. CASE Catch(r)
      BY <1>3, <2>1 DEF TableType
    <2>2. CASE Reveal(r)
      BY <1>2, <2>2 DEF Reveal, TableType
    <2>3. CASE Lookup(r)
      BY <2>3 DEF Lookup, TableType
    <2>4. CASE Claim(r)
      <3>1. /\ UNCHANGED <<commitments, aged, receipts>>
            /\ \A k \in Key : submissions[k] # "none" => submissions'[k] # "none"
        BY <1>2, <2>4 DEF Claim, KeyInv
      <3> QED BY <3>1 DEF TableType
    <2>5. CASE Respond(r)
      BY <1>2, <2>5 DEF Respond, TableType
    <2>6. CASE UNCHANGED <<commitments, submissions, aged, receipts>>
      BY <2>6 DEF TableType
    <2>7. CASE Screen(r) \/ Reread(r) \/ Convert(r) \/ Confirmed(r)
      BY <2>1, <2>6, <2>7 DEF Screen, Reread, Convert, Confirmed, tables
    <2>8. CASE GetAccount(r) \/ Simulate(r) \/ Send(r) \/ GiveUp(r)
      BY <2>1, <2>6, <2>8 DEF GetAccount, Simulate, Send, GiveUp, Fail, tables
    <2> QED BY <2>2, <2>3, <2>4, <2>5, <2>7, <2>8 DEF Handle
  <1>5. /\ clashed' \subseteq clashed \cup {r} /\ abandoned' \subseteq abandoned \cup {r}
        /\ lapsed' \subseteq lapsed \cup aged
    <2>1. CASE Lookup(r) \/ Send(r) \/ GiveUp(r)
      BY <2>1 DEF Lookup, Send, GiveUp, history
    <2>2. CASE ~(Lookup(r) \/ Send(r) \/ GiveUp(r))
      BY <2>2 DEF Handle, Screen, Reveal, Claim, Reread, Convert, GetAccount, Simulate,
                  Confirmed, Respond, history
    <2> QED BY <2>1, <2>2
  <1> QED BY <1>1, <1>2, <1>4, <1>5 DEF TableType

LEMMA NextTables == RecordInv /\ KeyInv /\ TableType /\ [Next]_vars => TableType'
  <1> SUFFICES ASSUME RecordInv, KeyInv, TableType, [Next]_vars PROVE TableType'
    OBVIOUS
  <1>1. ASSUME UNCHANGED <<tables, made, counted, history>> PROVE TableType'
    BY <1>1 DEF TableType, tables, history
  <1>2. ASSUME NEW n \in Nullifier, Commit(n) PROVE TableType'
    BY <1>2 DEF Commit, ledger, history, TableType
  <1>3. ASSUME NEW n \in Nullifier, NEW k \in Key, Arrive(n, k) PROVE TableType'
    <2>1. made' = made + 1 /\ made \in Nat /\ UNCHANGED <<tables, counted, history>>
      BY <1>3 DEF Arrive, ledger, RecordInv, RecordType
    <2>2. 1 .. made \subseteq 1 .. made'
      BY <2>1
    <2> QED BY <2>1, <2>2 DEF TableType, tables, history
  <1>4. ASSUME NEW r \in Request, Handle(r) PROVE TableType'
    BY <1>4, HandleTables
  <1>5. ASSUME NEW r \in Request, Apply(r) PROVE TableType'
    <2>1. /\ UNCHANGED <<tables, made, history>> /\ r \in 1 .. made
          /\ counted' \subseteq counted \cup {nullifier[r]}
      BY <1>5 DEF Apply, RecordInv, RecordType
    <2>2. nullifier[r] \in Nullifier
      BY <2>1 DEF RecordInv, RecordType
    <2> QED BY <2>1, <2>2 DEF TableType, tables, history
  <1>6. ASSUME NEW r \in Request, Expire(r) PROVE TableType'
    BY <1>1, <1>6 DEF Expire
  <1>7. ASSUME NEW k \in Key, Age(k) PROVE TableType'
    BY <1>7 DEF Age, ledger, history, TableType
  <1>8. CASE Crash
    <2>1. /\ UNCHANGED <<tables, made, counted, clashed, lapsed>>
          /\ abandoned' \subseteq abandoned \cup mempool
      BY <1>8 DEF Crash, ledger
    <2> QED BY <2>1 DEF TableType, tables, RecordInv, RecordType
  <1>9. CASE UNCHANGED vars
    BY <1>1, <1>9 DEF vars, ledger
  <1> QED BY <1>2, <1>3, <1>4, <1>5, <1>6, <1>7, <1>8, <1>9 DEF Next

\* The tables, the queue of the lock and the ledger keep their types: the
\* sequence never outruns the transactions, as each has one result.
THEOREM SubmissionTypeCorrect == Spec => []TypeOK
  <1>1. Init => SubmitInv
    <2>1. Init => TableType
      BY DEF Init, TableType
    <2> QED BY <2>1, InitRecord, InitSequence, InitLock, InitAbandon, InitKey DEF SubmitInv
  <1>2. SubmitInv /\ [Next]_vars => SubmitInv'
    BY NextRecord, NextTables, NextSequence, NextLock, NextAbandon, NextKey DEF SubmitInv
  <1>3. SubmitInv => TypeOK
    <2> SUFFICES ASSUME SubmitInv PROVE TypeOK
      OBVIOUS
    <2>1. lock \subseteq 1 .. made
      BY DEF SubmitInv, LockInv, RecordInv, RecordType, HeldSteps
    <2>2. sequence \in 0 .. MaxRequests
      BY RequestsFinite DEF SubmitInv, SequenceInv
    <2>3. nullifier \in [1 .. made -> Nullifier] /\ key \in [1 .. made -> Key]
      BY DEF SubmitInv, RecordInv, RecordType, KeyInv
    <2> QED BY <2>1, <2>2, <2>3
            DEF SubmitInv, RecordInv, RecordType, TableType, SequenceInv, LockInv, KeyInv, TypeOK
  <1> QED BY <1>1, <1>2, <1>3, PTL DEF Spec

=============================================================================
