------------------------------ MODULE Indexer ------------------------------
(***************************************************************************)
(* The event indexer of the backend (backend/src/services/indexer.ts and   *)
(* the event tables of db.ts): a poll cycle reads the events of a window   *)
(* of ledgers, contract by contract and page by page, stores them, and     *)
(* then moves the stored watermark to the end of the window.  The process  *)
(* may die at any point and starts again from the stored watermark.        *)
(*                                                                         *)
(* A process runs one cycle.  verifyPendingEvents assigns to the name      *)
(* verificationBacklog and startIndexer reads MAX_VERIFICATION_BACKLOG,    *)
(* and neither is declared in the (strict mode) module: the first ends the *)
(* cycle with an error after the watermark is stored, the second ends      *)
(* startIndexer before the scheduler exists.  isPolling stays TRUE, so     *)
(* every later call of startIndexer returns without doing anything.        *)
(***************************************************************************)
EXTENDS Naturals, FiniteSets

CONSTANTS
    NumContracts,   \* length of the contracts argument
    Listed,         \* event types in ALLOWED_EVENT_TYPES
    Unlisted,       \* types that are not, or whose DAO topic is no number
    NoDao,          \* types of events without a DAO id: not stored
    Window,         \* ledgers per cycle, 100 in the code
    PageLimit,      \* EVENTS_PAGE_LIMIT
    MaxLedger,      \* bound: height of the chain
    MaxEvents       \* bound: events on the chain

ASSUME IndexerAssumption ==
    /\ NumContracts \in Nat \ {0}
    /\ Window \in Nat \ {0}
    /\ PageLimit \in Nat \ {0}
    /\ MaxLedger \in Nat /\ MaxEvents \in Nat
    /\ Listed \cap Unlisted = {} /\ Listed \cap NoDao = {}

VARIABLES
    height,    \* the ledger sequence of the network
    chain,     \* the events in those ledgers
    rows,      \* keys in the partition tables
    stored,    \* metadata "lastLedger"
    up,        \* the process runs
    phase,     \* where startIndexer is
    start,     \* its lastLedger
    target,    \* targetEndLedger
    current,   \* the contract being read
    fetched,   \* the pages read so far of that contract
    failed,    \* failedContracts > 0
    skipped,   \* history: contracts of this cycle that failed and are not counted
    unread     \* history: keys of events that the watermark passed unread

chainVars == <<height, chain>>
mark == <<stored, unread>>
db == <<rows, mark>>
cycle == <<start, target, current, fetched, failed, skipped>>
vars == <<chainVars, db, up, phase, cycle>>

Ledger == 0 .. MaxLedger
Contract == 1 .. NumContracts
Type == Listed \cup Unlisted \cup NoDao

\* One transaction per ledger and contract; no tells its events apart.
Event == [ledger : Ledger, contract : Contract, type : Type, no : 1 .. MaxEvents]

\* UNIQUE(ledger, tx_hash, type)
Key(e) == <<e.ledger, e.contract, e.type>>
Keys(es) == {Key(e) : e \in es}
KeyType == Ledger \X Contract \X Type

TypeOK ==
    /\ height \in Ledger
    /\ chain \subseteq Event
    /\ rows \subseteq KeyType
    /\ stored \in Ledger
    /\ up \in BOOLEAN
    /\ phase \in {"latest", "fetch", "commit", "verify", "ended"}
    /\ start \in Ledger
    /\ target \in Ledger
    /\ current \in 1 .. NumContracts + 1
    /\ fetched \subseteq Event
    /\ failed \in BOOLEAN
    /\ skipped \subseteq Contract
    /\ unread \subseteq KeyType

At(p) == up /\ phase = p

\* The cycle is over: its variables are gone.
CycleEnds ==
    /\ phase' = "ended"
    /\ start' = 0
    /\ target' = 0
    /\ current' = 1
    /\ fetched' = {}
    /\ failed' = FALSE
    /\ skipped' = {}

----------------------------------------------------------------------------
(* The network: a ledger closes, with some events in it. *)

NewEvents ==
    {e \in Event : e.ledger = height + 1 /\ Cardinality(chain) < MaxEvents}

CloseLedger(es) ==
    /\ height < MaxLedger
    /\ Cardinality(chain \cup es) <= MaxEvents
    /\ height' = height + 1
    /\ chain' = chain \cup es
    /\ UNCHANGED <<db, up, phase, cycle>>

----------------------------------------------------------------------------
(* The process *)

\* startIndexer up to the first cycle.
Boot ==
    /\ ~up
    /\ up' = TRUE
    /\ phase' = "latest"
    /\ start' = stored
    /\ UNCHANGED <<chainVars, db, target, current, fetched, failed, skipped>>

\* Mutant: in catch-up mode the window is empty.
WindowEndNone(h) == IF h - start > Window THEN start ELSE h

\* Mutant: the window is not cut at the ledger that closed last.
WindowEndPast(h) == start + Window

\* targetEndLedger of pollEvents
WindowEnd(h) == IF h - start > Window THEN start + Window ELSE h

\* pollEvents: server.getLatestLedger answers.
GetLatestLedger ==
    /\ At("latest")
    /\ IF start >= height
       THEN phase' = "verify" /\ UNCHANGED target
       ELSE phase' = "fetch" /\ target' = WindowEnd(height)
    /\ UNCHANGED <<chainVars, db, up, start, current, fetched, failed, skipped>>

\* The events of the contract that the next page starts from: the first
\* request is bounded by endLedger, the ones with a cursor are not.
Rest ==
    {e \in chain \ fetched :
        /\ e.contract = current
        /\ e.ledger > start
        /\ fetched = {} => e.ledger <= target}

\* A page of getEvents: in ledger order, at most PageLimit, short at the end.
IsPage(p) ==
    /\ \A e \in p, d \in Rest : d.ledger < e.ledger => d \in p
    /\ \/ Cardinality(p) = PageLimit
       \/ p = Rest /\ Cardinality(p) < PageLimit

InWindow(p) == {e \in p : e.ledger <= target}

\* pastEnd, or a page shorter than the limit.
LastPage(p) == InWindow(p) # p \/ Cardinality(p) < PageLimit

\* fetchContractEvents goes round its loop.
FetchPage ==
    /\ At("fetch")
    /\ \E p \in SUBSET Rest :
          /\ IsPage(p)
          /\ ~LastPage(p)
          /\ fetched' = fetched \cup p
    /\ UNCHANGED <<chainVars, db, up, phase, start, target, current, failed, skipped>>

NextContract ==
    /\ current' = current + 1
    /\ fetched' = {}
    /\ phase' = IF current = NumContracts THEN "commit" ELSE "fetch"

Storable(es) == {e \in es : e.type \in Listed}

\* What addEvent may have stored of the contract's last page when it stops.
SomeStored ==
    \E p \in SUBSET Rest :
        /\ IsPage(p)
        /\ LastPage(p)
        /\ \E es \in SUBSET Storable(fetched \cup InWindow(p)) :
              rows' = rows \cup Keys(es)

\* The last page arrives and every event is added: addEvent ignores the key
\* of a row that exists.  On a type that is not listed it throws: the events
\* before it are stored and the contract counts as failed.
PersistEvents ==
    /\ At("fetch")
    /\ \E p \in SUBSET Rest :
          LET all == fetched \cup InWindow(p)
          IN  /\ IsPage(p)
              /\ LastPage(p)
              /\ \/ /\ \A e \in all : e.type \notin Unlisted
                    /\ rows' = rows \cup Keys(Storable(all))
                    /\ UNCHANGED failed
                 \/ /\ \E e \in all : e.type \in Unlisted
                    /\ \E es \in SUBSET Storable(all) : rows' = rows \cup Keys(es)
                    /\ failed' = TRUE
    /\ NextContract
    /\ UNCHANGED <<chainVars, mark, up, start, target, skipped>>

\* An insert throws on the database, with any message but "not found".
DbError ==
    /\ At("fetch")
    /\ SomeStored
    /\ failed' = TRUE
    /\ NextContract
    /\ UNCHANGED <<chainVars, mark, up, start, target, skipped>>

\* getEvents throws, with any message but "not found".
RpcError ==
    /\ At("fetch")
    /\ failed' = TRUE
    /\ NextContract
    /\ UNCHANGED <<chainVars, db, up, start, target, skipped>>

\* getEvents or an insert throws an error that says "not found" (such as the
\* "Method not found" of JSON-RPC): the contract is left, and not counted.
NotFound ==
    /\ At("fetch")
    /\ UNCHANGED rows \/ SomeStored
    /\ skipped' = skipped \cup {current}
    /\ NextContract
    /\ UNCHANGED <<chainVars, mark, up, start, target, failed>>

\* getLatestLedger throws, or one of the two writes after the last contract:
\* the cycle fails, handlePollError logs it.
CycleFails ==
    /\ At("latest") \/ (At("commit") /\ ~failed)
    /\ CycleEnds
    /\ UNCHANGED <<chainVars, db, up>>

\* What the contracts that are not counted still miss in the window up to l.
SkippedKeys(l) ==
    {Key(e) : e \in {d \in Storable(chain) :
                        d.contract \in skipped /\ stored < d.ledger /\ d.ledger <= l}} \ rows

\* Mutant: the watermark moves although a contract could not be read.
NewLedgerAlways == target

\* What pollEvents returns.
NewLedger == IF failed THEN start ELSE target

\* runPollingCycle stores the watermark when it grew.
PersistWatermark ==
    /\ At("commit")
    /\ stored' = IF NewLedger > start THEN NewLedger ELSE stored
    /\ unread' = unread \cup SkippedKeys(stored')
    /\ phase' = "verify"
    /\ UNCHANGED <<chainVars, rows, up, cycle>>

\* verifyPendingEvents throws, and after it startIndexer.
VerifyPendingEvents ==
    /\ At("verify")
    /\ CycleEnds
    /\ UNCHANGED <<chainVars, db, up>>

\* The process dies, possibly between two inserts of one contract.
Crash ==
    /\ up
    /\ up' = FALSE
    /\ UNCHANGED rows \/ (phase = "fetch" /\ SomeStored)
    /\ CycleEnds
    /\ UNCHANGED <<chainVars, mark>>

----------------------------------------------------------------------------
Init ==
    /\ height = 0
    /\ chain = {}
    /\ rows = {}
    /\ stored = 0
    /\ up = FALSE
    /\ phase = "ended"
    /\ start = 0
    /\ target = 0
    /\ current = 1
    /\ fetched = {}
    /\ failed = FALSE
    /\ skipped = {}
    /\ unread = {}

Poll == GetLatestLedger \/ FetchPage \/ PersistEvents
        \/ PersistWatermark \/ VerifyPendingEvents

Next ==
    \/ \E es \in SUBSET NewEvents : CloseLedger(es)
    \/ Boot
    \/ Poll
    \/ RpcError
    \/ DbError
    \/ NotFound
    \/ CycleFails
    \/ Crash

\* The service manager starts a dead process; a cycle goes on while it can.
Fairness == WF_vars(Boot) /\ WF_vars(Poll)

Spec == Init /\ [][Next]_vars /\ Fairness

----------------------------------------------------------------------------
(* Properties *)

\* #562: the watermark never passes an event that is not in the table, be it
\* on a later page, of a contract whose read failed and was counted, of a window
\* that was cut short, or lost in a crash between the inserts and the watermark.
\* The one exception is a contract whose failure in that cycle said "not found",
\* for which "the watermark must not advance past ledgers we never read" is false.
WatermarkCovers ==
    \A e \in chain :
        e.ledger <= stored /\ e.type \in Listed => Key(e) \in rows \cup unread

\* The rows that "not found" was answered for: those that the watermark passed,
\* and those of the cycle that runs.
Denied ==
    unread \cup (IF up /\ phase \in {"fetch", "commit"} THEN SkippedKeys(target) ELSE {})

Archive == INSTANCE EventArchive WITH
    tip <- height, published <- Keys(Storable(chain)), denied <- Denied,
    archived <- rows, watermark <- stored

\* Through windows, pages, failed contracts, database errors and crashes between
\* inserts, the indexer implements a plain archive: rows are those of events on
\* the chain, the stored watermark, which every restart trusts, never moves
\* back, and it passes a missing row only where the answer was "not found".
ImplementsArchive == Archive!Spec

\* A type outside the list stops the watermark for good: the window that
\* holds the event is read again and fails again.
Poisoned == \E e \in chain : e.type \in Unlisted

FaultsCease == <>[][~RpcError /\ ~DbError /\ ~CycleFails]_vars

\* A deployment that keeps restarting the process, lets cycles end and whose
\* RPC and database recover reaches every ledger, however far it is behind.
RestartsCatchUp ==
    []<>~up /\ []<>At("ended") /\ FaultsCease =>
        \A l \in Ledger : (height >= l) ~> (stored >= l \/ Poisoned)

\* INDEXER_POLL_INTERVAL_MS is the "Indexer polling interval": with a process
\* that stays up, and an RPC and a database that recover, every ledger is reached.
PollingReachesEveryLedger ==
    <>[]up /\ FaultsCease =>
        \A l \in Ledger : (height >= l) ~> (stored >= l \/ Poisoned)

=============================================================================
