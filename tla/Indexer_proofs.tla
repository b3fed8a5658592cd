--------------------------- MODULE Indexer_proofs ---------------------------
(***************************************************************************)
(* The watermark of the indexer never passes an event that is not stored,  *)
(* but for contracts that were left with a "not found", for every number   *)
(* of contracts, ledgers and events, every window and every page size.     *)
(***************************************************************************)
EXTENDS Indexer, TLAPS

\* The network closes ledgers in order, and the stored watermark is a ledger
\* that exists.
ChainInv ==
    /\ \A e \in chain : e.ledger <= height
    /\ stored <= height

\* While a cycle reads, it starts from the stored watermark and its window
\* ends at a ledger that exists.
CycleInv ==
    /\ up /\ phase \in {"latest", "fetch", "commit"} => start = stored
    /\ up /\ phase \in {"fetch", "commit"} => target <= height
    /\ (up /\ phase = "latest") \/ ~up => current = 1
    /\ up /\ phase = "fetch" => current \in Contract
    /\ up /\ phase = "commit" => current = NumContracts + 1

\* The contracts before the current one are stored up to the end of the
\* window, except those that were left uncounted, unless one of them failed.
ReadInv ==
    up /\ phase \in {"fetch", "commit"} /\ ~failed =>
        \A e \in chain :
            /\ e.contract < current
            /\ e.contract \notin skipped
            /\ start < e.ledger /\ e.ledger <= target
            /\ e.type \in Listed
            => Key(e) \in rows

Inv == TypeOK /\ WatermarkCovers /\ ChainInv /\ CycleInv /\ ReadInv

USE IndexerAssumption DEF IndexerAssumption

LEMMA InitInv == Init => Inv
  <1> SUFFICES ASSUME Init PROVE Inv
    OBVIOUS
  <1>1. TypeOK
    <2>1. 0 \in Ledger /\ 1 \in 1 .. NumContracts + 1
      BY DEF Ledger
    <2> QED BY <2>1, Zenon DEF Init, TypeOK
  <1>2. WatermarkCovers /\ ChainInv
    BY DEF Init, WatermarkCovers, ChainInv
  <1>3. CycleInv /\ ReadInv
    BY DEF Init, CycleInv, ReadInv
  <1> QED BY <1>1, <1>2, <1>3 DEF Inv

\* Rows are only added.
LEMMA RowsGrow ==
  ASSUME TypeOK, SomeStored
  PROVE  rows \subseteq rows' /\ rows' \subseteq KeyType
  <1>0. PICK p \in SUBSET Rest :
            \E es \in SUBSET Storable(fetched \cup InWindow(p)) :
                rows' = rows \cup Keys(es)
    BY DEF SomeStored
  <1>1. PICK es \in SUBSET Storable(fetched \cup InWindow(p)) :
            rows' = rows \cup Keys(es)
    BY <1>0
  <1>2. es \subseteq Event
    BY DEF TypeOK, Storable, InWindow, Rest
  <1>3. Keys(es) \subseteq KeyType
    BY <1>2 DEF Keys, Key, KeyType, Event
  <1> QED BY <1>1, <1>3 DEF TypeOK

\* A step that adds rows and leaves the chain and the watermark alone.
LEMMA WatermarkKept ==
  ASSUME WatermarkCovers, ChainInv, rows \subseteq rows', UNCHANGED <<chainVars, mark>>
  PROVE  WatermarkCovers' /\ ChainInv'
  BY DEF WatermarkCovers, ChainInv, chainVars, mark, Key

\* A contract that failed: the rest of the cycle claims nothing.
LEMMA FailedContract ==
  ASSUME Inv, At("fetch"), rows \subseteq rows', rows' \subseteq KeyType,
         failed' = TRUE, NextContract, UNCHANGED <<chainVars, mark, up, start, target, skipped>>
  PROVE  Inv'
  <1>1. TypeOK'
    BY DEF Inv, TypeOK, CycleInv, At, NextContract, chainVars, mark, Contract
  <1>2. CycleInv'
    BY DEF Inv, TypeOK, CycleInv, At, NextContract, chainVars, mark, Contract
  <1>3. ReadInv'
    BY DEF ReadInv
  <1> QED BY <1>1, <1>2, <1>3, WatermarkKept DEF Inv

\* A contract that is left uncounted: the cycle claims nothing of it.
LEMMA SkippedContract ==
  ASSUME Inv, NotFound, rows \subseteq rows', rows' \subseteq KeyType
  PROVE  Inv'
  <1>1. /\ At("fetch") /\ NextContract
        /\ skipped' = skipped \cup {current}
        /\ UNCHANGED <<chainVars, mark, up, start, target, failed>>
    BY DEF NotFound
  <1>2. current \in Contract
    BY <1>1 DEF Inv, CycleInv, At
  <1>3. TypeOK'
    BY <1>1, <1>2 DEF Inv, TypeOK, NextContract, chainVars, mark, Contract
  <1>4. CycleInv'
    BY <1>1, <1>2 DEF Inv, TypeOK, CycleInv, At, NextContract, chainVars, mark, Contract
  <1>5. ASSUME NEW e \in chain, e.contract < current + 1, e.contract # current
        PROVE  e.contract < current
    BY <1>2, <1>5 DEF Inv, TypeOK, Event, Contract
  <1>6. ReadInv'
    BY <1>1, <1>5 DEF Inv, ReadInv, At, NextContract, chainVars, Key
  <1>7. WatermarkCovers' /\ ChainInv'
    BY <1>1, WatermarkKept DEF Inv
  <1> QED BY <1>3, <1>4, <1>6, <1>7 DEF Inv

\* The cycle, or the process, ends: nothing is read.
LEMMA EndedCycle ==
  ASSUME Inv, CycleEnds, rows \subseteq rows', rows' \subseteq KeyType,
         UNCHANGED <<chainVars, mark>>, up' \in BOOLEAN
  PROVE  Inv'
  <1>1. TypeOK'
    <2>1. 0 \in Ledger /\ 1 \in 1 .. NumContracts + 1
      BY DEF Ledger
    <2> QED BY <2>1, Zenon DEF Inv, TypeOK, CycleEnds, chainVars, mark
  <1>2. CycleInv' /\ ReadInv'
    BY DEF CycleEnds, CycleInv, ReadInv
  <1>3. WatermarkCovers' /\ ChainInv'
    BY WatermarkKept DEF Inv
  <1> QED BY <1>1, <1>2, <1>3 DEF Inv

\* The pages of one contract hold every event of the window: the last page is
\* either all that is left, or reaches past the end of the window.
LEMMA LastPageCompletes ==
  ASSUME TypeOK, CycleInv, At("fetch"),
         NEW p \in SUBSET Rest, IsPage(p), LastPage(p),
         NEW e \in chain, e.contract = current, start < e.ledger, e.ledger <= target
  PROVE  e \in fetched \cup InWindow(p)
  <1> SUFFICES ASSUME e \notin fetched PROVE e \in p
    BY DEF InWindow
  <1>1. e \in Rest
    BY DEF Rest, TypeOK, Event, Ledger
  <1>2. CASE Cardinality(p) < PageLimit
    BY <1>1, <1>2 DEF IsPage
  <1>3. CASE InWindow(p) # p
    <2>1. PICK d \in p : ~(d.ledger <= target)
      BY <1>3 DEF InWindow
    <2>2. d \in Event /\ e \in Event
      BY DEF Rest, TypeOK
    <2>3. e.ledger < d.ledger
      BY <2>1, <2>2 DEF Event, Ledger, TypeOK
    <2> QED BY <1>1, <2>3 DEF IsPage
  <1> QED BY <1>2, <1>3 DEF LastPage

\* The cycle stores its watermark: what the window holds is in the table, or of a
\* contract that was left uncounted.
LEMMA WatermarkStored ==
  ASSUME Inv, PersistWatermark
  PROVE  Inv'
  <1> USE DEF Inv
  <1>0. /\ up /\ phase = "commit" /\ start = stored /\ phase' = "verify"
        /\ stored' = IF NewLedger > start THEN NewLedger ELSE stored
        /\ unread' = unread \cup SkippedKeys(stored')
        /\ UNCHANGED <<chainVars, rows, up, cycle>>
    BY DEF PersistWatermark, CycleInv, At
  <1>1. stored' \in {stored, target} /\ (failed => stored' = stored)
    BY <1>0 DEF NewLedger, TypeOK, Ledger
  <1>2. unread' \subseteq KeyType
    <2>1. \A e \in Storable(chain) : Key(e) \in KeyType
      BY DEF TypeOK, Storable, Key, KeyType, Event
    <2> QED BY <1>0, <2>1 DEF SkippedKeys, TypeOK
  <1>3. TypeOK' /\ ChainInv' /\ CycleInv' /\ ReadInv'
    BY <1>0, <1>1, <1>2 DEF TypeOK, ChainInv, CycleInv, ReadInv, chainVars, cycle
  <1>4. ASSUME NEW e \in chain, e.ledger <= stored', e.type \in Listed
        PROVE  Key(e) \in rows \cup unread'
    <2>0. e \in Event /\ stored \in Ledger
      BY DEF TypeOK
    <2>1. CASE e.ledger <= stored
      BY <1>0, <1>4, <2>1 DEF WatermarkCovers
    <2>2. CASE stored < e.ledger
      <3>1. ~failed /\ stored' = target
        BY <1>1, <1>4, <2>0, <2>2 DEF Event, Ledger
      <3>2. e.contract < current
        BY <1>0, <2>0 DEF CycleInv, Event, Contract
      <3>3. CASE e.contract \notin skipped
        BY <1>0, <1>4, <2>2, <3>1, <3>2, <3>3 DEF ReadInv
      <3>4. CASE e.contract \in skipped
        BY <1>0, <1>4, <2>2, <3>4 DEF SkippedKeys, Storable
      <3> QED BY <3>3, <3>4
    <2> QED BY <2>0, <2>1, <2>2 DEF Event, Ledger
  <1>5. WatermarkCovers'
    BY <1>0, <1>4 DEF WatermarkCovers, chainVars, Key
  <1> QED BY <1>3, <1>5

LEMMA NextInv == Inv /\ [Next]_vars => Inv'
  <1> SUFFICES ASSUME Inv, [Next]_vars PROVE Inv'
    OBVIOUS
  <1> USE DEF Inv
  <1>1. ASSUME NEW es \in SUBSET NewEvents, CloseLedger(es) PROVE Inv'
    <2>0. \A e \in es : e \in Event /\ e.ledger = height + 1
      BY DEF NewEvents
    <2>1. TypeOK'
      BY <1>1, <2>0 DEF TypeOK, CloseLedger, mark, db, cycle, Ledger
    <2>2. ChainInv'
      BY <1>1, <2>0 DEF TypeOK, ChainInv, CloseLedger, mark, db, Ledger, Event
    <2>3. WatermarkCovers'
      BY <1>1, <2>0 DEF TypeOK, ChainInv, WatermarkCovers, CloseLedger, mark, db, Ledger, Key
    <2>4. CycleInv'
      BY <1>1, <2>0 DEF TypeOK, CycleInv, CloseLedger, mark, db, cycle, Ledger
    <2>5. ReadInv'
      BY <1>1, <2>0 DEF TypeOK, CycleInv, ReadInv, CloseLedger, mark, db, cycle, Ledger, Key
    <2> QED BY <2>1, <2>2, <2>3, <2>4, <2>5
  <1>2. CASE Boot
    <2>1. TypeOK'
      BY <1>2, Zenon DEF Boot, TypeOK, chainVars, mark, db
    <2>2. WatermarkCovers' /\ ChainInv'
      BY <1>2, WatermarkKept DEF Boot, chainVars, mark, db
    <2>3. CycleInv' /\ ReadInv'
      BY <1>2 DEF Boot, CycleInv, ReadInv, db, mark
    <2> QED BY <2>1, <2>2, <2>3
  <1>3. CASE GetLatestLedger
    <2>1. TypeOK' /\ ChainInv' /\ WatermarkCovers'
      BY <1>3 DEF GetLatestLedger, TypeOK, ChainInv, WatermarkCovers, WindowEnd,
                  chainVars, mark, db, Ledger, Key
    <2>2. CASE start >= height
      BY <1>3, <2>1, <2>2 DEF GetLatestLedger, CycleInv, ReadInv
    <2>3. CASE ~(start >= height)
      <3>1. At("latest") /\ phase' = "fetch" /\ target' = WindowEnd(height)
            /\ UNCHANGED <<height, chain, rows, stored, up, start, current>>
        BY <1>3, <2>3 DEF GetLatestLedger, chainVars, mark, db
      <3>2. target' <= height
        BY <2>3, <3>1 DEF WindowEnd, TypeOK, Ledger
      <3>3. current = 1
        BY <3>1 DEF CycleInv, At
      <3>4. CycleInv'
        BY <3>1, <3>2, <3>3 DEF CycleInv, At, Contract
      <3>5. \A e \in chain : ~(e.contract < current)
        BY <3>3 DEF TypeOK, Event, Contract
      <3>6. ReadInv'
        BY <3>1, <3>5 DEF ReadInv
      <3> QED BY <2>1, <3>4, <3>6
    <2> QED BY <2>2, <2>3
  <1>4. CASE FetchPage
    BY <1>4 DEF FetchPage, TypeOK, WatermarkCovers, ChainInv, CycleInv, ReadInv,
                chainVars, mark, db, Rest, At, Key
  <1>5. CASE PersistEvents
    <2>0. At("fetch") /\ NextContract /\ UNCHANGED <<chainVars, mark, up, start, target, skipped>>
      BY <1>5 DEF PersistEvents
    <2>1. PICK p \in SUBSET Rest :
             /\ IsPage(p)
             /\ LastPage(p)
             /\ \/ /\ rows' = rows \cup Keys(Storable(fetched \cup InWindow(p)))
                   /\ UNCHANGED failed
                \/ /\ \E es \in SUBSET Storable(fetched \cup InWindow(p)) :
                         rows' = rows \cup Keys(es)
                   /\ failed' = TRUE
      BY <1>5 DEF PersistEvents
    <2> DEFINE all == Storable(fetched \cup InWindow(p))
    <2>2. all \subseteq Event
      BY DEF TypeOK, Storable, InWindow, Rest
    <2>3. \A es \in SUBSET all : Keys(es) \subseteq KeyType
      <3> SUFFICES ASSUME NEW es \in SUBSET all PROVE Keys(es) \subseteq KeyType
        OBVIOUS
      <3>1. es \subseteq Event
        BY <2>2
      <3> QED BY <3>1 DEF Keys, Key, KeyType, Event
    <2>4. CASE failed' = TRUE /\ \E es \in SUBSET all : rows' = rows \cup Keys(es)
      <3>1. rows \subseteq rows' /\ rows' \subseteq KeyType
        BY <2>3, <2>4 DEF TypeOK
      <3> QED BY <2>0, <2>4, <3>1, FailedContract
    <2>5. CASE rows' = rows \cup Keys(all) /\ UNCHANGED failed
      <3>1. rows \subseteq rows' /\ rows' \subseteq KeyType
        BY <2>3, <2>5 DEF TypeOK
      <3>2. TypeOK' /\ CycleInv'
        <4>1. TypeOK'
          BY <2>0, <2>5, <3>1 DEF TypeOK, CycleInv, At, NextContract, chainVars, mark, Contract
        <4>2. CycleInv'
          BY <2>0 DEF TypeOK, CycleInv, At, NextContract, chainVars, mark, Contract
        <4> QED BY <4>1, <4>2
      <3>3. WatermarkCovers' /\ ChainInv'
        BY <2>0, <3>1, WatermarkKept
      <3>4. ASSUME ~failed,
                   NEW e \in chain, e.contract < current + 1, e.contract \notin skipped,
                   start < e.ledger, e.ledger <= target, e.type \in Listed
            PROVE  Key(e) \in rows'
        <4>0. e \in Event /\ current \in Contract
          BY <2>0 DEF TypeOK, CycleInv, At
        <4>1. CASE e.contract < current
          BY <2>0, <3>1, <3>4, <4>1 DEF ReadInv, At
        <4>2. CASE e.contract = current
          <5>1. e \in fetched \cup InWindow(p)
            BY <2>0, <2>1, <3>4, <4>2, LastPageCompletes
          <5>2. e \in all
            BY <5>1, <3>4 DEF Storable
          <5> QED BY <5>2, <2>5 DEF Keys
        <4> QED BY <3>4, <4>0, <4>1, <4>2 DEF Event, Contract
      <3>5. ReadInv'
        BY <2>0, <2>5, <3>4 DEF ReadInv, NextContract, chainVars, Key
      <3> QED BY <3>2, <3>3, <3>5
    <2> QED BY <2>1, <2>4, <2>5
  <1>6. CASE RpcError
    <2>1. rows \subseteq rows' /\ rows' \subseteq KeyType
      BY <1>6 DEF RpcError, db, TypeOK
    <2> QED BY <1>6, <2>1, FailedContract DEF RpcError, db
  <1>7. CASE DbError
    <2>1. rows \subseteq rows' /\ rows' \subseteq KeyType
      BY <1>7, RowsGrow DEF DbError
    <2> QED BY <1>7, <2>1, FailedContract DEF DbError
  <1>8. CASE CycleFails
    <2>1. rows \subseteq rows' /\ rows' \subseteq KeyType /\ up' \in BOOLEAN
      BY <1>8 DEF CycleFails, db, TypeOK
    <2> QED BY <1>8, <2>1, EndedCycle DEF CycleFails, db
  <1>9. CASE PersistWatermark
    BY <1>9, WatermarkStored
  <1>10. CASE VerifyPendingEvents
    <2>1. rows \subseteq rows' /\ rows' \subseteq KeyType /\ up' \in BOOLEAN
      BY <1>10 DEF VerifyPendingEvents, db, TypeOK
    <2> QED BY <1>10, <2>1, EndedCycle DEF VerifyPendingEvents, db
  <1>11. CASE Crash
    <2>1. rows \subseteq rows' /\ rows' \subseteq KeyType
      BY <1>11, RowsGrow DEF Crash, TypeOK
    <2> QED BY <1>11, <2>1, EndedCycle DEF Crash
  <1>13. CASE NotFound
    <2>1. rows \subseteq rows' /\ rows' \subseteq KeyType
      BY <1>13, RowsGrow DEF NotFound, TypeOK
    <2> QED BY <1>13, <2>1, SkippedContract
  <1>12. CASE UNCHANGED vars
    BY <1>12 DEF vars, TypeOK, WatermarkCovers, ChainInv, CycleInv, ReadInv,
                 chainVars, mark, db, cycle, Key
  <1> QED
    BY <1>1, <1>2, <1>3, <1>4, <1>5, <1>6, <1>7, <1>8, <1>9, <1>10, <1>11, <1>12,
       <1>13
       DEF Next, Poll

\* Every variable keeps its type.
THEOREM TypeCorrect == Spec => []TypeOK
  <1> QED BY InitInv, NextInv, PTL DEF Spec, Inv

\* pollEvents and runPollingCycle: whatever fails, and wherever the process
\* dies, an event at or below the stored watermark is in the table, unless its
\* contract failed with "not found" in the cycle that stored the watermark.
THEOREM WatermarkIsSound == Spec => []WatermarkCovers
  <1> QED BY InitInv, NextInv, PTL DEF Spec, Inv

----------------------------------------------------------------------------
(* The indexer implements the archive. *)

\* Pages hold events of the chain, and rows are theirs.
RowsInv ==
    /\ fetched \subseteq chain
    /\ rows \subseteq Keys(Storable(chain))

\* More events, more rows.
LEMMA KeysMonotone ==
  ASSUME NEW S, NEW T, S \subseteq T
  PROVE  Keys(Storable(S)) \subseteq Keys(Storable(T))
  BY DEF Keys, Storable

\* What addEvent stores of the pages that were read are keys of events on the chain.
LEMMA StoredAreOfChain ==
  ASSUME RowsInv, NEW p \in SUBSET Rest,
         NEW es \in SUBSET Storable(fetched \cup InWindow(p))
  PROVE  rows \cup Keys(es) \subseteq Keys(Storable(chain))
  <1>1. fetched \cup InWindow(p) \subseteq chain
    BY DEF RowsInv, InWindow, Rest
  <1>2. Keys(es) \subseteq Keys(Storable(chain))
    BY <1>1 DEF Keys, Storable
  <1> QED BY <1>2 DEF RowsInv

\* The rows grow by keys of events on the chain.
LEMMA SomeStoredArchives ==
  ASSUME RowsInv, SomeStored
  PROVE  rows \subseteq rows' /\ rows' \subseteq Keys(Storable(chain))
  <1>1. PICK p \in SUBSET Rest :
            \E es \in SUBSET Storable(fetched \cup InWindow(p)) :
                rows' = rows \cup Keys(es)
    BY DEF SomeStored
  <1>2. PICK es \in SUBSET Storable(fetched \cup InWindow(p)) :
            rows' = rows \cup Keys(es)
    BY <1>1
  <1> QED BY <1>2, StoredAreOfChain

LEMMA PersistArchives ==
  ASSUME RowsInv, PersistEvents
  PROVE  rows \subseteq rows' /\ rows' \subseteq Keys(Storable(chain))
  <1>1. PICK p \in SUBSET Rest :
            \E es \in SUBSET Storable(fetched \cup InWindow(p)) :
                rows' = rows \cup Keys(es)
    <2>1. PICK p \in SUBSET Rest :
             \/ rows' = rows \cup Keys(Storable(fetched \cup InWindow(p)))
             \/ \E es \in SUBSET Storable(fetched \cup InWindow(p)) :
                   rows' = rows \cup Keys(es)
      BY DEF PersistEvents
    <2>2. Storable(fetched \cup InWindow(p))
            \in SUBSET Storable(fetched \cup InWindow(p))
      OBVIOUS
    <2> QED BY <2>1, <2>2
  <1>2. PICK es \in SUBSET Storable(fetched \cup InWindow(p)) :
            rows' = rows \cup Keys(es)
    BY <1>1
  <1> QED BY <1>2, StoredAreOfChain

\* "Not found" is answered for ledgers above the watermark.
LEMMA SkippedAbove ==
  ASSUME NEW l, NEW row \in SkippedKeys(l)
  PROVE  row[1] > stored
  <1>1. PICK d \in Storable(chain) : row = Key(d) /\ stored < d.ledger
    BY DEF SkippedKeys
  <1> QED BY <1>1 DEF Key

\* A step that leaves the watermark alone changes what is denied above it only.
LEMMA DeniedAbove ==
  ASSUME UNCHANGED mark
  PROVE  \A row \in (Denied \ Denied') \cup (Denied' \ Denied) : row[1] > stored
  <1>1. ASSUME NEW row \in Denied \ Denied' PROVE row[1] > stored
    <2>1. row \in SkippedKeys(target)
      BY <1>1 DEF Denied, mark
    <2> QED BY <2>1, SkippedAbove
  <1>2. ASSUME NEW row \in Denied' \ Denied PROVE row[1] > stored
    <2>1. row \in SkippedKeys(target)'
      BY <1>2 DEF Denied, mark
    <2>2. PICK d \in Storable(chain)' : row = Key(d) /\ stored' < d.ledger
      BY <2>1 DEF SkippedKeys, Key
    <2> QED BY <2>2 DEF Key, mark
  <1> QED BY <1>1, <1>2

\* Rows that grow by keys of the chain, and nothing else that a reader sees:
\* the archive stores them.
LEMMA GrowingRows ==
  ASSUME rows \subseteq rows', rows' \subseteq Keys(Storable(chain)),
         fetched' \subseteq chain, UNCHANGED <<height, chain, mark>>
  PROVE  RowsInv' /\ [Archive!Next]_Archive!archiveVars
  <1>1. RowsInv'
    BY DEF RowsInv, Keys, Key, Storable
  <1>2. UNCHANGED Keys(Storable(chain))
    BY DEF Keys, Key, Storable
  <1>3. Archive!Archive
    BY <1>2, DeniedAbove DEF Archive!Archive, mark
  <1> QED BY <1>1, <1>3 DEF Archive!Next

LEMMA InitArchive == Init => RowsInv /\ Archive!Init
  BY DEF Init, RowsInv, Archive!Init, Keys, Storable, Denied

\* A ledger that closes publishes its events.
LEMMA CloseLedgerPublishes ==
  ASSUME Inv, RowsInv, NEW es \in SUBSET NewEvents, CloseLedger(es)
  PROVE  RowsInv' /\ Archive!Publish
  <1>1. /\ height' = height + 1
        /\ chain' = chain \cup es
        /\ UNCHANGED <<rows, stored, unread, fetched, up, phase, target, skipped>>
    BY DEF CloseLedger, mark, db, cycle
  <1>2. Keys(Storable(chain)) \subseteq Keys(Storable(chain'))
    BY <1>1, KeysMonotone
  <1>3. (Keys(Storable(chain)))' = Keys(Storable(chain'))
    BY DEF Keys, Key, Storable
  <1>4. RowsInv'
    BY <1>1, <1>2, <1>3 DEF RowsInv
  <1>5. ASSUME NEW key \in Keys(Storable(chain')) \ Keys(Storable(chain))
        PROVE  key[1] = height'
    <2>1. PICK e \in Storable(chain') : key = Key(e)
      BY <1>5 DEF Keys
    <2>2. e \in es
      BY <1>1, <1>5, <2>1 DEF Keys, Storable
    <2>3. e.ledger = height + 1
      BY <2>2 DEF NewEvents
    <2> QED BY <1>1, <2>1, <2>3 DEF Key
  <1>6. UNCHANGED Denied
    <2>1. CASE up /\ phase \in {"fetch", "commit"}
      <3>1. \A d \in es : ~(d.ledger <= target)
        <4>1. target <= height /\ target \in Nat /\ height \in Nat
          BY <2>1 DEF Inv, CycleInv, TypeOK, Ledger
        <4>2. \A d \in es : d.ledger = height + 1
          BY DEF NewEvents
        <4> QED BY <4>1, <4>2
      <3>2. SkippedKeys(target)' = SkippedKeys(target)
        BY <1>1, <3>1 DEF SkippedKeys, Storable, Key
      <3> QED BY <1>1, <3>2 DEF Denied
    <2>2. CASE ~(up /\ phase \in {"fetch", "commit"})
      BY <1>1, <2>2 DEF Denied
    <2> QED BY <2>1, <2>2
  <1>7. Archive!Publish
    BY <1>1, <1>2, <1>3, <1>5, <1>6 DEF Archive!Publish
  <1> QED BY <1>4, <1>7

\* The watermark moves up, to a ledger that exists and up to which every row
\* is stored that was not denied, or stays where it is.
LEMMA WatermarkMovesUp ==
  ASSUME Inv, Inv', RowsInv, PersistWatermark
  PROVE  RowsInv' /\ [Archive!Next]_Archive!archiveVars
  <1>1. /\ up /\ phase = "commit" /\ phase' = "verify" /\ start = stored
        /\ stored' = IF NewLedger > start THEN NewLedger ELSE stored
        /\ unread' = unread \cup SkippedKeys(stored')
        /\ UNCHANGED <<height, chain, rows, fetched>>
    BY DEF PersistWatermark, Inv, CycleInv, At, chainVars, cycle
  <1>2. UNCHANGED Keys(Storable(chain))
    BY <1>1 DEF Keys, Key, Storable
  <1>3. RowsInv'
    BY <1>1, <1>2 DEF RowsInv
  <1>4. CASE stored' = stored
    <2>1. SkippedKeys(stored') = {}
      BY <1>4 DEF SkippedKeys, Inv, TypeOK, Storable, Event, Ledger
    <2>2. UNCHANGED mark
      BY <1>1, <1>4, <2>1 DEF mark
    <2> QED BY <1>1, <2>2, GrowingRows DEF RowsInv
  <1>5. CASE stored' # stored
    <2>1. stored' > stored /\ stored' = target
      BY <1>1, <1>5 DEF NewLedger
    <2>2. stored' <= height
      BY <1>1 DEF Inv, ChainInv
    <2>3. UNCHANGED Denied
      BY <1>1, <2>1 DEF Denied
    <2>4. ASSUME NEW key \in Keys(Storable(chain)), key[1] <= stored'
          PROVE  key \in rows \cup Denied
      <3>1. PICK e \in Storable(chain) : key = Key(e)
        BY <2>4 DEF Keys
      <3>2. e \in chain /\ e.type \in Listed /\ e.ledger <= stored'
        BY <2>4, <3>1 DEF Storable, Key
      <3>3. \A d \in chain :
               d.ledger <= stored' /\ d.type \in Listed => Key(d) \in rows \cup unread'
        BY <1>1 DEF Inv, WatermarkCovers, Key
      <3>4. unread' = Denied
        BY <1>1, <2>1 DEF Denied
      <3> QED BY <3>1, <3>2, <3>3, <3>4
    <2>5. Archive!MoveUp
      BY <1>1, <1>2, <2>1, <2>2, <2>3, <2>4 DEF Archive!MoveUp
    <2> QED BY <1>3, <2>5 DEF Archive!Next
  <1> QED BY <1>4, <1>5

LEMMA NextArchive ==
  ASSUME Inv, Inv', RowsInv, [Next]_vars
  PROVE  RowsInv' /\ [Archive!Next]_Archive!archiveVars
  <1> DEFINE Kept == UNCHANGED <<height, chain, rows, mark>>
  <1>0. ASSUME Kept, fetched' \subseteq chain
        PROVE  RowsInv' /\ [Archive!Next]_Archive!archiveVars
    BY <1>0, GrowingRows DEF RowsInv
  <1>1. ASSUME NEW es \in SUBSET NewEvents, CloseLedger(es)
        PROVE  RowsInv' /\ [Archive!Next]_Archive!archiveVars
    BY <1>1, CloseLedgerPublishes DEF Archive!Next
  <1>2. CASE Boot
    BY <1>0, <1>2 DEF Boot, chainVars, db, RowsInv
  <1>3. CASE GetLatestLedger
    BY <1>0, <1>3 DEF GetLatestLedger, chainVars, db, RowsInv
  <1>4. CASE FetchPage
    <2>1. fetched' \subseteq chain
      BY <1>4 DEF FetchPage, Rest, RowsInv
    <2> QED BY <1>0, <1>4, <2>1 DEF FetchPage, chainVars, db
  <1>5. CASE PersistEvents
    <2>1. fetched' = {} /\ UNCHANGED <<height, chain, mark>>
      BY <1>5 DEF PersistEvents, NextContract, chainVars
    <2> QED BY <1>5, <2>1, PersistArchives, GrowingRows
  <1>6. CASE RpcError
    BY <1>0, <1>6 DEF RpcError, NextContract, chainVars, db
  <1>7. CASE DbError
    <2>1. SomeStored /\ fetched' = {} /\ UNCHANGED <<height, chain, mark>>
      BY <1>7 DEF DbError, NextContract, chainVars
    <2> QED BY <2>1, SomeStoredArchives, GrowingRows
  <1>8. CASE CycleFails
    BY <1>0, <1>8 DEF CycleFails, CycleEnds, chainVars, db
  <1>9. CASE PersistWatermark
    BY <1>9, WatermarkMovesUp
  <1>10. CASE VerifyPendingEvents
    BY <1>0, <1>10 DEF VerifyPendingEvents, CycleEnds, chainVars, db
  <1>11. CASE Crash
    <2>1. fetched' = {} /\ UNCHANGED <<height, chain, mark>>
      BY <1>11 DEF Crash, CycleEnds, chainVars
    <2>2. CASE UNCHANGED rows
      BY <1>0, <2>1, <2>2 DEF RowsInv
    <2>3. CASE SomeStored
      BY <2>1, <2>3, SomeStoredArchives, GrowingRows
    <2> QED BY <1>11, <2>2, <2>3 DEF Crash
  <1>13. CASE NotFound
    <2>1. fetched' = {} /\ UNCHANGED <<height, chain, mark>>
      BY <1>13 DEF NotFound, NextContract, chainVars
    <2>2. CASE UNCHANGED rows
      BY <1>0, <2>1, <2>2 DEF RowsInv
    <2>3. CASE SomeStored
      BY <2>1, <2>3, SomeStoredArchives, GrowingRows
    <2> QED BY <1>13, <2>2, <2>3 DEF NotFound
  <1>12. CASE UNCHANGED vars
    BY <1>0, <1>12 DEF vars, chainVars, db, cycle, RowsInv
  <1> QED
    BY <1>1, <1>2, <1>3, <1>4, <1>5, <1>6, <1>7, <1>8, <1>9, <1>10, <1>11, <1>12,
       <1>13
       DEF Next, Poll

\* Whatever fails, and wherever the process dies, the tables implement the plain
\* archive: rows of published events only, none taken back, and a watermark
\* that moves up over ledgers that miss no row but those of contracts that
\* failed with "not found".
THEOREM IndexerImplementsArchive == Spec => ImplementsArchive
  <1>1. Init => Inv /\ RowsInv /\ Archive!Init
    BY InitInv, InitArchive
  <1>2. Inv /\ RowsInv /\ [Next]_vars =>
            Inv' /\ RowsInv' /\ [Archive!Next]_Archive!archiveVars
    BY NextInv, NextArchive
  <1> QED BY <1>1, <1>2, PTL DEF Spec, ImplementsArchive, Archive!Spec

=============================================================================
