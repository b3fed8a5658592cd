---------------------- MODULE ConfirmationQueue_proofs ----------------------
(***************************************************************************)
(* The confirmation queue polls an entry once at a time, leaves no caller  *)
(* waiting for an entry it has dropped, keeps an outcome it has given, and *)
(* so implements Confirmations, for every number of hashes, callers, loops,*)
(* attempts and stops.                                                     *)
(***************************************************************************)
EXTENDS ConfirmationQueue, WellFoundedInduction, TLAPS

USE ConfirmationQueueAssumption DEF ConfirmationQueueAssumption

\* The parts of the invariant take the state they speak of as parameters: one
\* callback settles entries and then scans what is left.
EntriesOK(es) ==
  /\ es \in Seq(Entry) /\ Len(es) <= MaxEntries
  /\ \A e \in 1 .. Len(es) : es[e].resolved \/ es[e].attempts < MaxAttempts

\* The queue holds the entries that are not settled, each under its own hash.
QueueOK(es, pend) ==
  /\ pend \in [Hashes -> 0 .. Len(es)]
  /\ \A h \in Hashes : pend[h] # 0 => es[pend[h]].hash = h /\ ~es[pend[h]].resolved
  /\ \A e \in 1 .. Len(es) : ~es[e].resolved => pend[es[e].hash] = e

\* Callers wait on entries that are not settled.
WaitOK(es, wait) ==
  /\ wait \in [Waiters -> 0 .. Len(es)]
  /\ \A w \in Waiters : wait[w] # 0 => ~es[wait[w]].resolved

\* A hash with a cached outcome is not queued.
CacheOK(ch, pend) ==
  /\ ch \in [Hashes -> {"none", "fresh", "old"}]
  /\ \A h \in Hashes : ch[h] # "none" => pend[h] = 0

LoopStates(n) == {Ended, Idle} \cup {Polling(e) : e \in 1 .. n}

\* A loop in a poll has marked its entry, no other loop polls that entry, and
\* the attempt that the poll may add is within the limit, also when a stop
\* settles the entry meanwhile.
PollsOK(es, ls, L) ==
  /\ \A l \in L : ls[l].pc = "polling" =>
       /\ es[ls[l].entry].pollInFlight
       /\ es[ls[l].entry].attempts < MaxAttempts
  /\ \A k, l \in L : k # l /\ ls[k].pc = "polling" => ls[k] # ls[l]

LoopsOK(es, ls) ==
  /\ ls \in [Loops -> LoopStates(Len(es))]
  /\ PollsOK(es, ls, Loops)

WorkerOK ==
  /\ running \in BOOLEAN
  /\ worker \in Loops \cup {NoLoop}
  /\ stops \subseteq Loops \cup {NoLoop}
  /\ stopCount \in 0 .. MaxStops

QInv ==
  /\ EntriesOK(entries)
  /\ QueueOK(entries, pending)
  /\ WaitOK(entries, waiting)
  /\ CacheOK(cache, pending)
  /\ LoopsOK(entries, loops)
  /\ WorkerOK


-----------------------------------------------------------------------------
(* Entries *)

\* One entry of the sequence is replaced.
LEMMA ReplaceEntry ==
  ASSUME NEW es \in Seq(Entry), NEW e \in 1 .. Len(es), NEW r \in Entry
  PROVE  /\ [es EXCEPT ![e] = r] \in Seq(Entry)
         /\ Len([es EXCEPT ![e] = r]) = Len(es)
         /\ [es EXCEPT ![e] = r][e] = r
         /\ \A x \in 1 .. Len(es) : x # e => [es EXCEPT ![e] = r][x] = es[x]
  OBVIOUS

\* What the queue and its callers see of an entry.
SameQueue(es, es2) ==
  /\ Len(es2) = Len(es)
  /\ \A e \in 1 .. Len(es) : es2[e].hash = es[e].hash /\ es2[e].resolved = es[e].resolved

\* Polls and time do not touch it.
LEMMA SameQueueKeeps ==
  ASSUME NEW es, NEW es2, NEW pend, NEW wait, SameQueue(es, es2),
         es \in Seq(Entry),
         QueueOK(es, pend), WaitOK(es, wait)
  PROVE  QueueOK(es2, pend) /\ WaitOK(es2, wait)
  <1>1. Len(es) \in Nat
    OBVIOUS
  <1>2. QueueOK(es2, pend)
    BY <1>1 DEF SameQueue, QueueOK
  <1>3. WaitOK(es2, wait)
    BY <1>1 DEF SameQueue, WaitOK
  <1> QED BY <1>2, <1>3

\* The fields of an entry.
LEMMA EntryFields ==
  ASSUME NEW es \in Seq(Entry), NEW e \in 1 .. Len(es)
  PROVE  /\ es[e] \in Entry
         /\ es[e].hash \in Hashes
         /\ es[e].attempts \in 0 .. MaxAttempts
         /\ es[e].due \in BOOLEAN
         /\ es[e].expired \in BOOLEAN
         /\ es[e].pollInFlight \in BOOLEAN
         /\ es[e].resolved \in BOOLEAN
  <1>1. es[e] \in Entry
    OBVIOUS
  <1> HIDE ConfirmationQueueAssumption
  <1> QED BY <1>1, Zenon DEF Entry

\* Marking an entry, or clearing its mark.
Marked(es, e, b) == [es EXCEPT ![e].pollInFlight = b]

IsMarked(es, e, b, es2) ==
  /\ es2 \in Seq(Entry)
  /\ SameQueue(es, es2)
  /\ es2[e].pollInFlight = b
  /\ es2[e].attempts = es[e].attempts
  /\ \A x \in 1 .. Len(es) : x # e => es2[x] = es[x]

LEMMA MarkEntry ==
  ASSUME NEW es \in Seq(Entry), NEW e \in 1 .. Len(es), NEW b \in BOOLEAN
  PROVE  IsMarked(es, e, b, Marked(es, e, b))
  <1> DEFINE r == [es[e] EXCEPT !.pollInFlight = b]
  <1>1. r \in Entry /\ r.hash = es[e].hash /\ r.resolved = es[e].resolved
        /\ r.pollInFlight = b /\ r.attempts = es[e].attempts
    BY EntryFields DEF Entry
  <1>2. Marked(es, e, b) = [es EXCEPT ![e] = r]
    BY DEF Marked
  <1> HIDE DEF r
  <1>3. [es EXCEPT ![e] = r] \in Seq(Entry)
        /\ Len([es EXCEPT ![e] = r]) = Len(es)
        /\ [es EXCEPT ![e] = r][e] = r
        /\ \A x \in 1 .. Len(es) : x # e => [es EXCEPT ![e] = r][x] = es[x]
    BY <1>1, ReplaceEntry
  <1>4. SameQueue(es, [es EXCEPT ![e] = r])
    BY <1>1, <1>3 DEF SameQueue
  <1> QED BY <1>1, <1>2, <1>3, <1>4 DEF IsMarked

-----------------------------------------------------------------------------
(* A scan *)

\* A loop in a poll has an entry.
LEMMA PollingEntry ==
  ASSUME NEW n, NEW s \in LoopStates(n), s.pc = "polling"
  PROVE  s.entry \in 1 .. n /\ s = Polling(s.entry)
  BY DEF LoopStates, Ended, Idle, Polling

\* Sets of numbers have a least element.
LEMMA NatLeast ==
  ASSUME NEW S, S \subseteq Nat, S # {}
  PROVE  \E x \in S : \A y \in S : x <= y
  <1> DEFINE R == {ss \in Nat \X Nat : ss[1] < ss[2]}
  <1>1. IsWellFoundedOn(R, Nat)
    BY NatLessThanWellFounded DEF OpToRel
  <1> HIDE DEF R
  <1>2. PICK x \in S : \A y \in S : <<y, x>> \notin R
    BY <1>1, WFMin, Zenon
  <1>3. \A y \in S : x <= y
    <2> SUFFICES ASSUME NEW y \in S PROVE x <= y
      OBVIOUS
    <2>1. x \in Nat /\ y \in Nat
      OBVIOUS
    <2>2. ~(y < x)
      BY <1>2, <2>1 DEF R
    <2> QED BY <2>1, <2>2
  <1> QED BY <1>3

\* After the scan of loop l, whatever the loops did before it
LEMMA ScanKeeps ==
  ASSUME NEW l \in Loops, NEW es, NEW pend,
         loops \in [Loops -> LoopStates(Len(es))],
         EntriesOK(es), PollsOK(es, loops, Loops \ {l}),
         Scan(l, es, pend)
  PROVE  /\ EntriesOK(entries')
         /\ SameQueue(es, entries')
         /\ LoopsOK(entries', loops')
  <1>0. es \in Seq(Entry) /\ Len(es) \in Nat
    BY DEF EntriesOK
  <1>1. ASSUME Pollable(es, pend) = {}
        PROVE  /\ EntriesOK(entries')
               /\ SameQueue(es, entries')
               /\ LoopsOK(entries', loops')
    <2>1. entries' = es /\ loops' = [loops EXCEPT ![l] = Idle]
      BY <1>1 DEF Scan
    <2>2. LoopsOK(es, loops')
      <3>1. Idle.pc # "polling" /\ Idle \in LoopStates(Len(es))
        BY DEF Idle, LoopStates
      <3>2. loops' \in [Loops -> LoopStates(Len(es))] /\ loops'[l] = Idle
            /\ \A k \in Loops \ {l} : loops'[k] = loops[k]
        BY <2>1, <3>1
      <3> QED BY <3>1, <3>2 DEF LoopsOK, PollsOK
    <2> QED BY <2>1, <2>2 DEF SameQueue
  <1>2. ASSUME Pollable(es, pend) # {}
        PROVE  /\ EntriesOK(entries')
               /\ SameQueue(es, entries')
               /\ LoopsOK(entries', loops')
    <2> DEFINE due == Pollable(es, pend)
    <2>1. due \subseteq 1 .. Len(es)
      BY <1>0 DEF Pollable
    <2>2. \E x \in due : \A y \in due : x <= y
      <3>1. due \subseteq Nat /\ due # {}
        BY <1>2, <2>1, <1>0
      <3> QED BY <3>1, NatLeast
    <2>3. PICK e \in due : /\ loops' = [loops EXCEPT ![l] = Polling(e)]
                           /\ entries' = Marked(es, e, TRUE)
      BY <1>2, <2>2, Zenon DEF Scan, Marked
    <2>4. e \in 1 .. Len(es) /\ ~es[e].resolved /\ ~es[e].pollInFlight
      BY <2>1 DEF Pollable
    <2>5. es[e].attempts < MaxAttempts
      BY <2>4 DEF EntriesOK
    <2>6. /\ entries' \in Seq(Entry)
          /\ SameQueue(es, entries')
          /\ entries'[e].pollInFlight
          /\ entries'[e].attempts = es[e].attempts
          /\ \A x \in 1 .. Len(es) : x # e => entries'[x] = es[x]
      <3> HIDE DEF due
      <3>1. IsMarked(es, e, TRUE, Marked(es, e, TRUE))
        BY <1>0, <2>4, MarkEntry
      <3> QED BY <2>3, <3>1 DEF IsMarked
    <2>7. EntriesOK(entries')
      BY <1>0, <2>5, <2>6 DEF EntriesOK, SameQueue
    <2>8. Polling(e).pc = "polling" /\ Polling(e).entry = e /\ Polling(e) \in LoopStates(Len(es))
      BY <2>4 DEF Polling, LoopStates
    <2>9. /\ loops' \in [Loops -> LoopStates(Len(es))]
          /\ loops'[l] = Polling(e)
          /\ \A k \in Loops \ {l} : loops'[k] = loops[k]
      BY <2>3, <2>8
    <2>10. \A k \in Loops \ {l} : loops[k].pc = "polling" =>
             /\ loops[k].entry \in 1 .. Len(es)
             /\ loops[k].entry # e
             /\ entries'[loops[k].entry] = es[loops[k].entry]
      <3> SUFFICES ASSUME NEW k \in Loops \ {l}, loops[k].pc = "polling"
                   PROVE  /\ loops[k].entry \in 1 .. Len(es)
                          /\ loops[k].entry # e
                          /\ entries'[loops[k].entry] = es[loops[k].entry]
        OBVIOUS
      <3>1. loops[k].entry \in 1 .. Len(es)
        BY PollingEntry
      <3>2. es[loops[k].entry].pollInFlight
        BY DEF PollsOK
      <3> QED BY <3>1, <3>2, <2>4, <2>6
    <2>11. PollsOK(entries', loops', Loops)
      <3>1. \A k \in Loops : loops'[k].pc = "polling" =>
              /\ entries'[loops'[k].entry].pollInFlight
              /\ entries'[loops'[k].entry].attempts < MaxAttempts
        BY <2>5, <2>6, <2>8, <2>9, <2>10 DEF PollsOK
      <3>2. \A j, k \in Loops : j # k /\ loops'[j].pc = "polling" => loops'[j] # loops'[k]
        BY <2>8, <2>9, <2>10 DEF PollsOK
      <3> QED BY <3>1, <3>2 DEF PollsOK
    <2> QED BY <2>6, <2>7, <2>9, <2>11 DEF LoopsOK, SameQueue
  <1> QED BY <1>1, <1>2

-----------------------------------------------------------------------------
(* Settling entries *)

\* A settled entry.
LEMMA SettledFields ==
  ASSUME NEW r \in Entry
  PROVE  /\ Settled(r) \in Entry
         /\ Settled(r).resolved = TRUE
         /\ Settled(r).hash = r.hash
         /\ Settled(r).attempts = 0
         /\ Settled(r).pollInFlight = r.pollInFlight
  <1>0. 0 \in 0 .. MaxAttempts
    OBVIOUS
  <1>a. [r EXCEPT !.attempts = 0] \in Entry
    BY <1>0, Zenon DEF Entry
  <1>1. PICK r1 \in Entry : r1 = [r EXCEPT !.attempts = 0]
    BY <1>a, Zenon
  <1>2. PICK r2 \in Entry : r2 = [r1 EXCEPT !.due = FALSE]
    BY DEF Entry
  <1>3. PICK r3 \in Entry : r3 = [r2 EXCEPT !.expired = FALSE]
    BY DEF Entry
  <1>4. PICK r4 \in Entry : r4 = [r3 EXCEPT !.resolved = TRUE]
    BY DEF Entry
  <1>5. Settled(r) = r4
    BY <1>1, <1>2, <1>3, <1>4 DEF Settled
  <1>6. /\ r4.resolved = TRUE
        /\ r4.hash = r.hash
        /\ r4.attempts = 0
        /\ r4.pollInFlight = r.pollInFlight
    BY <1>1, <1>2, <1>3, <1>4 DEF Entry
  <1> QED BY <1>5, <1>6

\* Settling leaves the other entries alone.
LEMMA SettledEntriesFacts ==
  ASSUME NEW es \in Seq(Entry), NEW S, S \subseteq 1 .. Len(es)
  PROVE  /\ SettledEntries(S, es) \in Seq(Entry)
         /\ Len(SettledEntries(S, es)) = Len(es)
         /\ \A e \in 1 .. Len(es) : ~es[e].resolved /\ e \in S =>
              SettledEntries(S, es)[e] = Settled(es[e])
         /\ \A e \in 1 .. Len(es) : es[e].resolved \/ e \notin S =>
              SettledEntries(S, es)[e] = es[e]
  <1>1. \A e \in 1 .. Len(es) : es[e] \in Entry /\ Settled(es[e]) \in Entry
    <2> TAKE e \in 1 .. Len(es)
    <2>1. es[e] \in Entry
      OBVIOUS
    <2> QED BY <2>1, SettledFields, Zenon
  <1>2. DOMAIN es = 1 .. Len(es) /\ Len(es) \in Nat
    OBVIOUS
  <1>3. SettledEntries(S, es) =
          [e \in 1 .. Len(es) |-> IF e \in Unsettled(S, es) THEN Settled(es[e]) ELSE es[e]]
    BY <1>2 DEF SettledEntries
  <1>4. SettledEntries(S, es) \in [1 .. Len(es) -> Entry]
    BY <1>1, <1>3
  <1>5. SettledEntries(S, es) \in Seq(Entry) /\ Len(SettledEntries(S, es)) = Len(es)
    BY <1>2, <1>4
  <1> QED BY <1>3, <1>5 DEF Unsettled

\* resolveEntry and failEntry for the entries of S.  Those that stay in the
\* queue must have attempts left.
LEMMA SettleKeeps ==
  ASSUME NEW es, NEW S,
         es \in Seq(Entry), Len(es) <= MaxEntries, S \subseteq 1 .. Len(es),
         \A e \in (1 .. Len(es)) \ S : es[e].resolved \/ es[e].attempts < MaxAttempts,
         QueueOK(es, pending), WaitOK(es, waiting), CacheOK(cache, pending),
         Settle(S, es)
  PROVE  /\ EntriesOK(SettledEntries(S, es))
         /\ QueueOK(SettledEntries(S, es), pending')
         /\ WaitOK(SettledEntries(S, es), waiting')
         /\ CacheOK(cache', pending')
         /\ \A h \in Hashes : cache[h] # "none" => cache'[h] = cache[h]
         /\ Len(SettledEntries(S, es)) = Len(es)
         /\ \A e \in 1 .. Len(es) :
              /\ SettledEntries(S, es)[e].pollInFlight = es[e].pollInFlight
              /\ es[e].attempts < MaxAttempts =>
                   SettledEntries(S, es)[e].attempts < MaxAttempts
  <1> DEFINE es2 == SettledEntries(S, es)
  <1>1. /\ es2 \in Seq(Entry)
        /\ Len(es2) = Len(es)
        /\ \A e \in 1 .. Len(es) : ~es[e].resolved /\ e \in S => es2[e] = Settled(es[e])
        /\ \A e \in 1 .. Len(es) : es[e].resolved \/ e \notin S => es2[e] = es[e]
    BY SettledEntriesFacts
  <1>2. \A e \in 1 .. Len(es) :
          /\ es2[e].hash = es[e].hash
          /\ es2[e].pollInFlight = es[e].pollInFlight
          /\ ~es[e].resolved /\ e \in S => es2[e].resolved /\ es2[e].attempts = 0
          /\ es[e].resolved => es2[e].resolved
          /\ e \notin S => es2[e].resolved = es[e].resolved
          /\ ~es2[e].resolved => e \notin S /\ ~es[e].resolved
          /\ es2[e].attempts = es[e].attempts \/ es2[e].attempts = 0
    <2> SUFFICES ASSUME NEW e \in 1 .. Len(es)
                 PROVE  /\ es2[e].hash = es[e].hash
                        /\ es2[e].pollInFlight = es[e].pollInFlight
                        /\ ~es[e].resolved /\ e \in S => es2[e].resolved /\ es2[e].attempts = 0
                        /\ es[e].resolved => es2[e].resolved
                        /\ e \notin S => es2[e].resolved = es[e].resolved
                        /\ ~es2[e].resolved => e \notin S /\ ~es[e].resolved
                        /\ es2[e].attempts = es[e].attempts \/ es2[e].attempts = 0
      OBVIOUS
    <2>1. es[e] \in Entry
      OBVIOUS
    <2>2. CASE ~es[e].resolved /\ e \in S
      BY <2>1, <2>2, <1>1, SettledFields, Zenon
    <2>3. CASE es[e].resolved \/ e \notin S
      BY <2>3, <1>1, Zenon
    <2> QED BY <2>2, <2>3
  <1>3. Len(es) \in Nat /\ 0 < MaxAttempts
    OBVIOUS
  <1> HIDE DEF es2
  <1>4. EntriesOK(es2)
    <2> SUFFICES ASSUME NEW e \in 1 .. Len(es2)
                 PROVE  es2[e].resolved \/ es2[e].attempts < MaxAttempts
      BY <1>1 DEF EntriesOK
    <2>1. e \in 1 .. Len(es)
      BY <1>1
    <2>2. CASE e \in S
      BY <2>1, <2>2, <1>2, Zenon
    <2>3. CASE e \notin S
      <3>1. es2[e] = es[e]
        BY <2>1, <2>3, <1>1
      <3> QED BY <2>1, <2>3, <3>1
    <2> QED BY <2>2, <2>3
  \* The hashes that leave the queue are those of the settled entries.
  <1>5. \A e \in 1 .. Len(es) : ~es[e].resolved =>
          /\ es[e].hash \in Hashes
          /\ pending[es[e].hash] = e
    BY EntryFields DEF QueueOK
  <1>6. \A h \in Hashes : h \in HashesOf(S, es) <=>
          pending[h] \in S /\ pending[h] # 0
    <2> SUFFICES ASSUME NEW h \in Hashes
                 PROVE  h \in HashesOf(S, es) <=> pending[h] \in S /\ pending[h] # 0
      OBVIOUS
    <2>1. ASSUME h \in HashesOf(S, es)
          PROVE  pending[h] \in S /\ pending[h] # 0
      <3>1. PICK e \in S : ~es[e].resolved /\ h = es[e].hash
        BY <2>1 DEF HashesOf, Unsettled
      <3>2. pending[h] = e /\ e \in 1 .. Len(es)
        BY <3>1, <1>5
      <3> QED BY <3>2
    <2>2. ASSUME pending[h] \in S, pending[h] # 0
          PROVE  h \in HashesOf(S, es)
      <3>1. es[pending[h]].hash = h /\ ~es[pending[h]].resolved
        BY <2>2 DEF QueueOK
      <3> QED BY <2>2, <3>1 DEF HashesOf, Unsettled
    <2> QED BY <2>1, <2>2
  <1>7. \A h \in Hashes :
          /\ pending[h] \in S => pending'[h] = 0
          /\ pending[h] \notin S => pending'[h] = pending[h]
    BY <1>6 DEF Settle, Dequeued
  <1>8. QueueOK(es2, pending')
    <2>1. pending' \in [Hashes -> 0 .. Len(es2)]
      <3>1. pending' = [h \in Hashes |-> IF h \in HashesOf(S, es) THEN 0 ELSE pending[h]]
        BY DEF Settle, Dequeued
      <3>2. \A h \in Hashes : pending[h] \in 0 .. Len(es2) /\ 0 \in 0 .. Len(es2)
        BY <1>1, <1>3 DEF QueueOK
      <3> QED BY <3>1, <3>2
    <2>2. ASSUME NEW h \in Hashes, pending'[h] # 0
          PROVE  es2[pending'[h]].hash = h /\ ~es2[pending'[h]].resolved
      <3>1. pending[h] \notin S /\ pending'[h] = pending[h]
        BY <1>7, <2>2
      <3>2. pending[h] \in 1 .. Len(es) /\ es[pending[h]].hash = h /\ ~es[pending[h]].resolved
        BY <2>2, <3>1 DEF QueueOK
      <3>3. es2[pending[h]] = es[pending[h]]
        BY <3>1, <3>2, <1>1
      <3> QED BY <3>1, <3>2, <3>3
    <2>3. ASSUME NEW e \in 1 .. Len(es2), ~es2[e].resolved
          PROVE  pending'[es2[e].hash] = e
      <3>1. e \in 1 .. Len(es) /\ e \notin S /\ ~es[e].resolved /\ es2[e].hash = es[e].hash
        BY <1>1, <1>2, <2>3
      <3>2. pending[es[e].hash] = e /\ es[e].hash \in Hashes
        BY <3>1, <1>5
      <3> QED BY <3>1, <3>2, <1>7
    <2> QED BY <2>1, <2>2, <2>3 DEF QueueOK
  <1>9. WaitOK(es2, waiting')
    <2>1. waiting' = [w \in Waiters |->
                        IF waiting[w] \in Unsettled(S, es) THEN 0 ELSE waiting[w]]
      BY DEF Settle
    <2>2. waiting' \in [Waiters -> 0 .. Len(es2)]
      BY <1>1, <1>3, <2>1 DEF WaitOK
    <2>3. ASSUME NEW w \in Waiters, waiting'[w] # 0
          PROVE  ~es2[waiting'[w]].resolved
      <3>1. waiting'[w] = waiting[w] /\ waiting[w] \notin Unsettled(S, es)
        BY <2>1, <2>3
      <3>2. ~es[waiting[w]].resolved /\ waiting[w] \in 1 .. Len(es)
        BY <2>3, <3>1 DEF WaitOK
      <3>3. waiting[w] \notin S
        BY <3>1, <3>2 DEF Unsettled
      <3> QED BY <1>1, <3>1, <3>2, <3>3
    <2> QED BY <2>2, <2>3 DEF WaitOK
  <1>10. /\ CacheOK(cache', pending')
         /\ \A h \in Hashes : cache[h] # "none" => cache'[h] = cache[h]
    <2>1. cache' = [h \in Hashes |-> IF h \in HashesOf(S, es) THEN "fresh" ELSE cache[h]]
      BY DEF Settle
    <2>2. cache' \in [Hashes -> {"none", "fresh", "old"}]
      BY <2>1 DEF CacheOK
    <2>3. \A h \in Hashes : cache[h] # "none" => h \notin HashesOf(S, es) /\ pending[h] = 0
      BY <1>6 DEF CacheOK
    <2>4. \A h \in Hashes : h \in HashesOf(S, es) => pending'[h] = 0
      BY <1>6, <1>7
    <2>5. \A h \in Hashes : pending[h] = 0 => pending'[h] = 0
      BY <1>7
    <2> QED BY <2>1, <2>2, <2>3, <2>4, <2>5 DEF CacheOK
  <1> QED BY <1>1, <1>2, <1>3, <1>4, <1>8, <1>9, <1>10 DEF es2

-----------------------------------------------------------------------------
(* The end of a poll *)

\* What a step may do to the outcomes in the cache.
CacheKept ==
  \A h \in Hashes : cache[h] # "none" =>
    pending[h] = 0 /\ cache'[h] \in {cache[h], "old", "none"}

\* What pollEntry has made of entry e before it settles S: one attempt is
\* counted at most, and only an entry that is given up has none left.
Polled(e, S, after) ==
  /\ after \in Seq(Entry)
  /\ SameQueue(entries, after)
  /\ \A x \in 1 .. Len(entries) : x # e => after[x] = entries[x]
  /\ S \subseteq {e}
  /\ e \in S \/ after[e].resolved \/ after[e].attempts < MaxAttempts

LEMMA PollEndsKeeps ==
  ASSUME QInv, NEW l \in Loops, NEW S, NEW after,
         Polled(loops[l].entry, S, after), PollEnds(l, S, after)
  PROVE  QInv' /\ CacheKept
  <1>0. PICK e : e = loops[l].entry
    OBVIOUS
  <1>1. e \in 1 .. Len(entries) /\ loops[l].pc = "polling" /\ entries \in Seq(Entry)
        /\ Len(entries) <= MaxEntries
    <2>1. loops[l] \in LoopStates(Len(entries)) /\ loops[l].pc = "polling"
      BY DEF PollEnds, QInv, LoopsOK
    <2> QED BY <1>0, <2>1, PollingEntry DEF QInv, EntriesOK
  <1>2. PICK es : es = Marked(after, e, FALSE)
    OBVIOUS
  <1>3. /\ Settle(S, es)
        /\ IF running
             THEN Scan(l, SettledEntries(S, es), Dequeued(S, es))
             ELSE /\ loops' = [loops EXCEPT ![l] = Ended]
                  /\ entries' = SettledEntries(S, es)
        /\ UNCHANGED <<running, worker, stops, stopCount>>
    BY <1>0, <1>2, Zenon DEF PollEnds, Marked
  <1>4. /\ after \in Seq(Entry)
        /\ SameQueue(entries, after)
        /\ \A x \in 1 .. Len(entries) : x # e => after[x] = entries[x]
        /\ S \subseteq {e}
        /\ e \in S \/ after[e].resolved \/ after[e].attempts < MaxAttempts
    BY <1>0 DEF Polled
  <1>5. Len(after) = Len(entries) /\ e \in 1 .. Len(after)
    BY <1>1, <1>4 DEF SameQueue
  <1>6. /\ es \in Seq(Entry)
        /\ SameQueue(after, es)
        /\ es[e].pollInFlight = FALSE
        /\ es[e].attempts = after[e].attempts
        /\ \A x \in 1 .. Len(after) : x # e => es[x] = after[x]
    <2>1. IsMarked(after, e, FALSE, Marked(after, e, FALSE))
      BY <1>4, <1>5, MarkEntry
    <2> QED BY <1>2, <2>1 DEF IsMarked
  <1>7. Len(es) = Len(entries) /\ SameQueue(entries, es)
    BY <1>4, <1>5, <1>6 DEF SameQueue
  <1>8. \A x \in 1 .. Len(entries) : x # e => es[x] = entries[x]
    BY <1>4, <1>5, <1>6
  <1>9. \A x \in (1 .. Len(es)) \ S : es[x].resolved \/ es[x].attempts < MaxAttempts
    <2> SUFFICES ASSUME NEW x \in 1 .. Len(es), x \notin S
                 PROVE  es[x].resolved \/ es[x].attempts < MaxAttempts
      OBVIOUS
    <2>1. CASE x = e
      BY <1>4, <1>5, <1>6, <2>1 DEF SameQueue
    <2>2. CASE x # e
      BY <1>7, <1>8, <2>2 DEF QInv, EntriesOK
    <2> QED BY <2>1, <2>2
  <1>10. QueueOK(es, pending) /\ WaitOK(es, waiting)
    BY <1>1, <1>7, SameQueueKeeps DEF QInv
  <1>11. PICK es2 : es2 = SettledEntries(S, es)
    OBVIOUS
  <1>12. S \subseteq 1 .. Len(es) /\ Len(es) <= MaxEntries /\ CacheOK(cache, pending)
    BY <1>1, <1>4, <1>7 DEF QInv
  <1>13. /\ EntriesOK(es2)
         /\ QueueOK(es2, pending')
         /\ WaitOK(es2, waiting')
         /\ CacheOK(cache', pending')
         /\ \A h \in Hashes : cache[h] # "none" => cache'[h] = cache[h]
         /\ Len(es2) = Len(es)
         /\ \A x \in 1 .. Len(es) :
              /\ es2[x].pollInFlight = es[x].pollInFlight
              /\ es[x].attempts < MaxAttempts => es2[x].attempts < MaxAttempts
    <2>1. /\ EntriesOK(SettledEntries(S, es))
          /\ QueueOK(SettledEntries(S, es), pending')
          /\ WaitOK(SettledEntries(S, es), waiting')
          /\ CacheOK(cache', pending')
          /\ \A h \in Hashes : cache[h] # "none" => cache'[h] = cache[h]
          /\ Len(SettledEntries(S, es)) = Len(es)
          /\ \A x \in 1 .. Len(es) :
               /\ SettledEntries(S, es)[x].pollInFlight = es[x].pollInFlight
               /\ es[x].attempts < MaxAttempts =>
                    SettledEntries(S, es)[x].attempts < MaxAttempts
      <3>1. es \in Seq(Entry) /\ Settle(S, es)
        BY <1>3, <1>6
      <3> QED BY <3>1, <1>9, <1>10, <1>12, SettleKeeps, Zenon
    <2> QED BY <1>11, <2>1, Zenon
  <1>14. loops \in [Loops -> LoopStates(Len(es2))]
    BY <1>7, <1>13 DEF QInv, LoopsOK
  <1>15. PollsOK(es2, loops, Loops \ {l})
    <2>1. ASSUME NEW k \in Loops \ {l}, loops[k].pc = "polling"
          PROVE  /\ es2[loops[k].entry].pollInFlight
                 /\ es2[loops[k].entry].attempts < MaxAttempts
      <3>1. loops[k] \in LoopStates(Len(entries)) /\ loops[l] \in LoopStates(Len(entries))
        BY DEF QInv, LoopsOK
      <3>2. loops[k].entry \in 1 .. Len(entries) /\ loops[k] = Polling(loops[k].entry)
        BY <2>1, <3>1, PollingEntry, Zenon
      <3>3. loops[l] = Polling(e)
        BY <1>0, <1>1, <3>1, PollingEntry, Zenon
      <3>4. loops[k].entry # e
        BY <2>1, <3>2, <3>3 DEF QInv, LoopsOK, PollsOK
      <3>5. es[loops[k].entry] = entries[loops[k].entry]
        BY <1>8, <3>2, <3>4
      <3>6. /\ entries[loops[k].entry].pollInFlight
            /\ entries[loops[k].entry].attempts < MaxAttempts
        BY <2>1 DEF QInv, LoopsOK, PollsOK
      <3> QED BY <1>7, <1>13, <3>2, <3>5, <3>6
    <2>2. \A j, k \in Loops \ {l} :
            j # k /\ loops[j].pc = "polling" => loops[j] # loops[k]
      BY DEF QInv, LoopsOK, PollsOK
    <2> QED BY <2>1, <2>2 DEF PollsOK
  <1>16. /\ EntriesOK(entries')
         /\ SameQueue(es2, entries')
         /\ LoopsOK(entries', loops')
    <2>1. CASE running
      <3>1. Scan(l, es2, Dequeued(S, es))
        BY <1>3, <1>11, <2>1
      <3> QED BY <1>13, <1>14, <1>15, <3>1, ScanKeeps, Zenon
    <2>2. CASE ~running
      <3>1. entries' = es2 /\ loops' = [loops EXCEPT ![l] = Ended]
        BY <1>3, <1>11, <2>2
      <3>2. Ended.pc # "polling" /\ Ended \in LoopStates(Len(es2))
        BY DEF Ended, LoopStates
      <3>3. loops' \in [Loops -> LoopStates(Len(es2))] /\ loops'[l] = Ended
            /\ \A k \in Loops \ {l} : loops'[k] = loops[k]
        BY <1>14, <3>1, <3>2
      <3>4. LoopsOK(es2, loops')
        BY <1>15, <3>2, <3>3 DEF LoopsOK, PollsOK
      <3> QED BY <1>13, <3>1, <3>4 DEF SameQueue
    <2>3. running \in BOOLEAN
      BY DEF QInv, WorkerOK
    <2> QED BY <2>1, <2>2, <2>3
  <1>17. QueueOK(entries', pending') /\ WaitOK(entries', waiting')
    <2>1. es2 \in Seq(Entry)
      BY <1>13 DEF EntriesOK
    <2> QED BY <2>1, <1>13, <1>16, SameQueueKeeps, Zenon
  <1>18. WorkerOK'
    BY <1>3 DEF QInv, WorkerOK
  <1>19. CacheKept
    BY <1>12, <1>13 DEF CacheKept, CacheOK
  <1> QED BY <1>13, <1>16, <1>17, <1>18, <1>19 DEF QInv

LEMMA ReplacePolled ==
  ASSUME NEW e \in 1 .. Len(entries), NEW r \in Entry, NEW S, entries \in Seq(Entry),
         r.hash = entries[e].hash, r.resolved = entries[e].resolved, S \subseteq {e},
         e \in S \/ r.resolved \/ r.attempts < MaxAttempts
  PROVE  Polled(e, S, [entries EXCEPT ![e] = r])
  <1>1. /\ [entries EXCEPT ![e] = r] \in Seq(Entry)
        /\ Len([entries EXCEPT ![e] = r]) = Len(entries)
        /\ [entries EXCEPT ![e] = r][e] = r
        /\ \A x \in 1 .. Len(entries) : x # e => [entries EXCEPT ![e] = r][x] = entries[x]
    BY ReplaceEntry
  <1>2. SameQueue(entries, [entries EXCEPT ![e] = r])
    BY <1>1 DEF SameQueue
  <1> QED BY <1>1, <1>2 DEF Polled

\* The attempt of a poll, and its back-off.
LEMMA AttemptCounted ==
  ASSUME NEW r \in Entry, NEW a \in 0 .. MaxAttempts
  PROVE  /\ [r EXCEPT !.attempts = a] \in Entry
         /\ [r EXCEPT !.attempts = a].hash = r.hash
         /\ [r EXCEPT !.attempts = a].resolved = r.resolved
         /\ [r EXCEPT !.attempts = a].attempts = a
  <1>1. [r EXCEPT !.attempts = a] \in Entry
    BY Zenon DEF Entry
  <1> QED BY <1>1 DEF Entry

LEMMA BackedOff ==
  ASSUME NEW r \in Entry, NEW b \in BOOLEAN
  PROVE  /\ [r EXCEPT !.due = b] \in Entry
         /\ [r EXCEPT !.due = b].hash = r.hash
         /\ [r EXCEPT !.due = b].resolved = r.resolved
         /\ [r EXCEPT !.due = b].attempts = r.attempts
  <1>1. [r EXCEPT !.due = b] \in Entry
    BY Zenon DEF Entry
  <1> QED BY <1>1 DEF Entry

\* Every return of a poll is of that form.
LEMMA PollReturnsPolled ==
  ASSUME QInv, NEW l \in Loops, PollReturns(l)
  PROVE  \E S, after : Polled(loops[l].entry, S, after) /\ PollEnds(l, S, after)
  <1> DEFINE Ends == \E S, after : Polled(loops[l].entry, S, after) /\ PollEnds(l, S, after)
  <1>0. PICK e : e = loops[l].entry
    OBVIOUS
  <1>1. loops[l].pc = "polling"
    BY DEF PollReturns, PollFindsOutcome, PollNotFound, PollThrows, PollEnds
  <1>2. e \in 1 .. Len(entries) /\ entries \in Seq(Entry)
    BY <1>0, <1>1, PollingEntry DEF QInv, EntriesOK, LoopsOK
  <1>3. PICK r \in Entry : r = entries[e]
    BY <1>2
  <1>4. r.attempts \in 0 .. MaxAttempts /\ r.attempts < MaxAttempts /\ r.resolved \in BOOLEAN
        /\ r.expired \in BOOLEAN
    <2>1. r.attempts < MaxAttempts
      BY <1>0, <1>1, <1>3 DEF QInv, LoopsOK, PollsOK
    <2> QED BY <1>2, <1>3, <2>1, EntryFields
  <1>5. r.attempts + 1 \in 0 .. MaxAttempts
    BY <1>4
  <1>6. ASSUME PollFindsOutcome(l)
        PROVE  Ends
    <2> DEFINE r1 == [r EXCEPT !.attempts = r.attempts + 1]
    <2>1. r1 \in Entry /\ r1.hash = r.hash /\ r1.resolved = r.resolved
      BY <1>5, AttemptCounted
    <2>2. [entries EXCEPT ![e].attempts = @ + 1] = [entries EXCEPT ![e] = r1]
      BY <1>3, Zenon
    <2> HIDE DEF r1
    <2>3. Polled(e, {e}, [entries EXCEPT ![e] = r1])
      BY <1>2, <1>3, <2>1, ReplacePolled
    <2>4. PollEnds(l, {e}, [entries EXCEPT ![e] = r1])
      BY <1>0, <1>6, <2>2, Zenon DEF PollFindsOutcome
    <2> QED BY <1>0, <2>3, <2>4, Zenon
  <1>7. ASSUME PollNotFound(l)
        PROVE  Ends
    <2>1. PICK t \in BOOLEAN : t = (r.expired \/ OutOfAttempts(r.attempts + 1))
      BY <1>4, <1>5 DEF OutOfAttempts
    <2>2. PICK S : S = IF t THEN {e} ELSE {}
      OBVIOUS
    <2> DEFINE r1 == [r EXCEPT !.attempts = r.attempts + 1]
               b == t /\ r.due
               r2 == [r1 EXCEPT !.due = b]
    <2>3. r1 \in Entry /\ r1.hash = r.hash /\ r1.resolved = r.resolved
          /\ r1.attempts = r.attempts + 1 /\ r1.due = r.due
      <3>1. r1.due = r.due
        BY DEF Entry
      <3> QED BY <1>5, <3>1, AttemptCounted
    <2>4. [entries EXCEPT ![e].attempts = r.attempts + 1, ![e].due = t /\ @]
            = [entries EXCEPT ![e] = r2]
      BY <1>2, <1>3, <2>3
    <2>5. b \in BOOLEAN
      OBVIOUS
    <2> HIDE DEF r1, b
    <2>6. r2 \in Entry /\ r2.hash = r.hash /\ r2.resolved = r.resolved
          /\ r2.attempts = r.attempts + 1
      BY <2>3, <2>5, BackedOff, Zenon
    <2> HIDE DEF r2
    <2>7. e \in S \/ r2.attempts < MaxAttempts
      <3>1. CASE t
        BY <2>2, <3>1
      <3>2. CASE ~t
        <4>1. ~(r.attempts + 1 >= MaxAttempts)
          BY <2>1, <3>2, Zenon DEF OutOfAttempts
        <4>2. r.attempts + 1 < MaxAttempts
          BY <1>4, <4>1
        <4> QED BY <2>6, <4>2, Zenon
      <3> QED BY <3>1, <3>2
    <2>8. S \subseteq {e}
      BY <2>2
    <2>9. Polled(e, S, [entries EXCEPT ![e] = r2])
      BY <1>2, <1>3, <2>6, <2>7, <2>8, ReplacePolled
    <2>10. PollEnds(l, S, [entries EXCEPT ![e] = r2])
      BY <1>0, <1>3, <1>7, <2>1, <2>2, <2>4, Zenon DEF PollNotFound
    <2> QED BY <1>0, <2>9, <2>10, Zenon
  <1>8. ASSUME PollThrows(l)
        PROVE  Ends
    <2>1. PICK S : S = IF GiveUpOnError(e) THEN {e} ELSE {}
      OBVIOUS
    <2> DEFINE r1 == [r EXCEPT !.due = FALSE]
    <2>2. r1 \in Entry /\ r1.hash = r.hash /\ r1.resolved = r.resolved
          /\ r1.attempts = r.attempts
      BY BackedOff
    <2>3. [entries EXCEPT ![e].due = FALSE] = [entries EXCEPT ![e] = r1]
      BY <1>3, Zenon
    <2> HIDE DEF r1
    <2>4. S \subseteq {e}
      BY <2>1
    <2>5. Polled(e, S, [entries EXCEPT ![e] = r1])
      BY <1>2, <1>3, <1>4, <2>2, <2>4, ReplacePolled
    <2>6. PollEnds(l, S, [entries EXCEPT ![e] = r1])
      BY <1>0, <1>8, <2>1, <2>3, Zenon DEF PollThrows
    <2> QED BY <1>0, <2>5, <2>6, Zenon
  <1> QED BY <1>6, <1>7, <1>8 DEF PollReturns

LEMMA PollReturnsKeeps ==
  ASSUME QInv, NEW l \in Loops, PollReturns(l)
  PROVE  QInv' /\ CacheKept
  <1>1. PICK S, after : Polled(loops[l].entry, S, after) /\ PollEnds(l, S, after)
    BY PollReturnsPolled
  <1> QED BY <1>1, PollEndsKeeps

-----------------------------------------------------------------------------
(* The other operations *)

\* A new entry is queued.
LEMMA QueueEntry ==
  ASSUME QInv, NEW h \in Hashes, pending[h] = 0, Len(entries) < MaxEntries,
         NEW es, es = Append(entries, NewEntry(h)),
         NEW pend, pend = [pending EXCEPT ![h] = Len(entries) + 1]
  PROVE  /\ EntriesOK(es)
         /\ QueueOK(es, pend)
         /\ Len(es) = Len(entries) + 1 /\ ~es[Len(entries) + 1].resolved
         /\ \A e \in 1 .. Len(entries) : es[e] = entries[e]
         /\ loops \in [Loops -> LoopStates(Len(es))]
         /\ PollsOK(es, loops, Loops)
  <1>1. NewEntry(h) \in Entry /\ NewEntry(h).hash = h /\ ~NewEntry(h).resolved
        /\ NewEntry(h).attempts = 0
    BY DEF NewEntry, Entry
  <1>2. entries \in Seq(Entry) /\ Len(entries) \in Nat /\ EntriesOK(entries)
        /\ QueueOK(entries, pending) /\ LoopsOK(entries, loops)
    BY DEF QInv, EntriesOK
  <1>3. /\ es \in Seq(Entry)
        /\ Len(es) = Len(entries) + 1
        /\ es[Len(entries) + 1] = NewEntry(h)
        /\ \A e \in 1 .. Len(entries) : es[e] = entries[e]
    BY <1>1, <1>2
  <1>4. EntriesOK(es)
    BY <1>1, <1>2, <1>3 DEF EntriesOK
  <1>5. QueueOK(es, pend)
    <2>1. pend \in [Hashes -> 0 .. Len(es)] /\ pend[h] = Len(entries) + 1
          /\ \A g \in Hashes : g # h => pend[g] = pending[g]
      BY <1>2, <1>3 DEF QueueOK
    <2>2. ASSUME NEW g \in Hashes, pend[g] # 0
          PROVE  es[pend[g]].hash = g /\ ~es[pend[g]].resolved
      <3>1. CASE g = h
        BY <1>1, <1>3, <2>1, <3>1
      <3>2. CASE g # h
        <4>1. pend[g] = pending[g] /\ pending[g] \in 1 .. Len(entries)
          BY <1>2, <2>1, <2>2, <3>2 DEF QueueOK
        <4> QED BY <1>2, <1>3, <2>2, <4>1 DEF QueueOK
      <3> QED BY <3>1, <3>2
    <2>3. ASSUME NEW e \in 1 .. Len(es), ~es[e].resolved
          PROVE  pend[es[e].hash] = e
      <3>1. CASE e = Len(entries) + 1
        BY <1>1, <1>3, <2>1, <3>1
      <3>2. CASE e # Len(entries) + 1
        <4>1. e \in 1 .. Len(entries) /\ es[e] = entries[e]
          BY <1>2, <1>3, <3>2
        <4>2. pending[entries[e].hash] = e /\ entries[e].hash \in Hashes
          BY <1>2, <2>3, <4>1, EntryFields DEF QueueOK
        <4>3. entries[e].hash # h
          BY <4>1, <4>2
        <4> QED BY <2>1, <4>1, <4>2, <4>3
      <3> QED BY <3>1, <3>2
    <2> QED BY <2>1, <2>2, <2>3 DEF QueueOK
  <1>6. loops \in [Loops -> LoopStates(Len(es))]
    <2>1. LoopStates(Len(entries)) \subseteq LoopStates(Len(es))
      BY <1>2, <1>3 DEF LoopStates
    <2> QED BY <1>2, <2>1 DEF LoopsOK
  <1>7. PollsOK(es, loops, Loops)
    <2>1. ASSUME NEW k \in Loops, loops[k].pc = "polling"
          PROVE  es[loops[k].entry] = entries[loops[k].entry]
      <3>1. loops[k].entry \in 1 .. Len(entries)
        BY <1>2, <2>1, PollingEntry DEF LoopsOK
      <3> QED BY <1>3, <3>1
    <2> QED BY <1>2, <2>1 DEF LoopsOK, PollsOK
  <1> QED BY <1>1, <1>3, <1>4, <1>5, <1>6, <1>7

\* A worker starts on what is queued.
LEMMA StartKeeps ==
  ASSUME NEW es, NEW pend, EntriesOK(es), loops \in [Loops -> LoopStates(Len(es))],
         PollsOK(es, loops, Loops), WorkerOK, Start(es, pend)
  PROVE  /\ EntriesOK(entries')
         /\ SameQueue(es, entries')
         /\ LoopsOK(entries', loops')
         /\ WorkerOK'
  <1>1. PICK l \in Loops : worker' = l /\ Scan(l, es, pend)
    BY DEF Start, FreeLoops
  <1>2. PollsOK(es, loops, Loops \ {l})
    BY DEF PollsOK
  <1>3. /\ EntriesOK(entries')
        /\ SameQueue(es, entries')
        /\ LoopsOK(entries', loops')
    BY <1>1, <1>2, ScanKeeps, Zenon
  <1>4. WorkerOK'
    BY <1>1 DEF Start, WorkerOK
  <1> QED BY <1>3, <1>4

\* What pruneCache leaves
LEMMA PruneKeeps ==
  ASSUME CacheOK(cache, pending), cache' = PruneCache
  PROVE  /\ CacheOK(cache', pending)
         /\ \A h \in Hashes : cache'[h] = "none" \/ cache'[h] = cache[h]
         /\ CacheKept
  <1>1. cache' \in [Hashes -> {"none", "fresh", "old"}]
        /\ \A h \in Hashes : cache'[h] = "none" \/ cache'[h] = cache[h]
    BY DEF PruneCache, CacheOK
  <1>2. CacheOK(cache', pending)
    BY <1>1 DEF CacheOK
  <1> QED BY <1>1, <1>2 DEF CacheKept, CacheOK

LEMMA WaitQueuedKeeps ==
  ASSUME QInv, NEW w \in Waiters, NEW h \in Hashes, WaitQueued(w, h)
  PROVE  QInv' /\ CacheKept
  <1>1. PICK es : es = Append(entries, NewEntry(h))
    OBVIOUS
  <1>2. PICK pend : pend = [pending EXCEPT ![h] = Len(entries) + 1]
    OBVIOUS
  <1>3. /\ PruneCache[h] = "none"
        /\ pending[h] = 0
        /\ Len(entries) < MaxEntries
        /\ cache' = PruneCache
        /\ pending' = pend
        /\ waiting' = [waiting EXCEPT ![w] = Len(entries) + 1]
        /\ IF running
             THEN entries' = es /\ UNCHANGED workerVars
             ELSE Start(es, pend)
    BY <1>1, <1>2, Zenon DEF WaitQueued, NotQueued
  <1>4. /\ EntriesOK(es)
        /\ QueueOK(es, pend)
        /\ Len(es) = Len(entries) + 1 /\ ~es[Len(entries) + 1].resolved
        /\ \A e \in 1 .. Len(entries) : es[e] = entries[e]
        /\ loops \in [Loops -> LoopStates(Len(es))]
        /\ PollsOK(es, loops, Loops)
    BY <1>1, <1>2, <1>3, QueueEntry, Zenon
  <1>5. WaitOK(es, waiting')
    <2>1. Len(entries) \in Nat /\ WaitOK(entries, waiting)
      BY DEF QInv, EntriesOK
    <2>2. waiting' \in [Waiters -> 0 .. Len(es)] /\ waiting'[w] = Len(entries) + 1
          /\ \A v \in Waiters : v # w => waiting'[v] = waiting[v]
      BY <1>3, <1>4, <2>1 DEF WaitOK
    <2>3. ASSUME NEW v \in Waiters, waiting'[v] # 0
          PROVE  ~es[waiting'[v]].resolved
      <3>1. CASE v = w
        BY <1>4, <2>2, <3>1
      <3>2. CASE v # w
        <4>1. waiting'[v] = waiting[v] /\ waiting[v] \in 1 .. Len(entries)
          BY <2>1, <2>2, <2>3, <3>2 DEF WaitOK
        <4> QED BY <1>4, <2>1, <2>3, <4>1 DEF WaitOK
      <3> QED BY <3>1, <3>2
    <2> QED BY <2>2, <2>3 DEF WaitOK
  <1>6. CacheOK(cache', pend) /\ CacheKept
    <2>1. CacheOK(cache, pending)
      BY DEF QInv
    <2>2. CacheOK(cache', pending) /\ CacheKept
      BY <1>3, <2>1, PruneKeeps
    <2>3. \A g \in Hashes : g # h => pend[g] = pending[g]
      BY <1>2 DEF QInv, QueueOK
    <2> QED BY <1>3, <2>2, <2>3 DEF CacheOK
  <1>7. EntriesOK(entries') /\ SameQueue(es, entries') /\ LoopsOK(entries', loops') /\ WorkerOK'
    <2>1. CASE running
      BY <1>3, <1>4, <2>1 DEF SameQueue, LoopsOK, QInv, WorkerOK, workerVars
    <2>2. CASE ~running
      <3>1. Start(es, pend) /\ WorkerOK
        BY <1>3, <2>2 DEF QInv
      <3> QED BY <1>4, <3>1, StartKeeps, Zenon
    <2> QED BY <2>1, <2>2
  <1>8. QueueOK(entries', pend) /\ WaitOK(entries', waiting')
    <2>1. es \in Seq(Entry)
      BY <1>4 DEF EntriesOK
    <2> QED BY <2>1, <1>4, <1>5, <1>7, SameQueueKeeps, Zenon
  <1> QED BY <1>3, <1>6, <1>7, <1>8 DEF QInv

LEMMA ScanStepKeeps ==
  ASSUME QInv,
         UNCHANGED <<pending, cache, waiting>>,
         EntriesOK(entries'), SameQueue(entries, entries'), LoopsOK(entries', loops'),
         WorkerOK'
  PROVE  QInv' /\ CacheKept
  <1>1. QueueOK(entries', pending) /\ WaitOK(entries', waiting)
    BY SameQueueKeeps DEF QInv, EntriesOK
  <1>2. CacheKept
    BY DEF QInv, CacheOK, CacheKept
  <1> QED BY <1>1, <1>2 DEF QInv

LEMMA StopFinishesKeeps ==
  ASSUME QInv, NEW k, StopFinishes(k)
  PROVE  QInv' /\ CacheKept
  <1>1. PICK S : S = {pending[h] : h \in Hashes} \ {0}
    OBVIOUS
  <1>2. /\ Settle(S, entries)
        /\ entries' = SettledEntries(S, entries)
        /\ worker' = NoLoop /\ stops' = stops \ {k}
        /\ UNCHANGED <<running, loops, stopCount>>
    BY <1>1, Zenon DEF StopFinishes
  <1>3. /\ entries \in Seq(Entry) /\ Len(entries) <= MaxEntries
        /\ S \subseteq 1 .. Len(entries)
        /\ \A e \in (1 .. Len(entries)) \ S :
             entries[e].resolved \/ entries[e].attempts < MaxAttempts
        /\ QueueOK(entries, pending) /\ WaitOK(entries, waiting) /\ CacheOK(cache, pending)
    BY <1>1 DEF QInv, EntriesOK, QueueOK
  <1>4. /\ EntriesOK(entries')
        /\ QueueOK(entries', pending')
        /\ WaitOK(entries', waiting')
        /\ CacheOK(cache', pending')
        /\ \A h \in Hashes : cache[h] # "none" => cache'[h] = cache[h]
        /\ Len(entries') = Len(entries)
        /\ \A e \in 1 .. Len(entries) :
             /\ entries'[e].pollInFlight = entries[e].pollInFlight
             /\ entries[e].attempts < MaxAttempts => entries'[e].attempts < MaxAttempts
    BY <1>2, <1>3, SettleKeeps, Zenon
  <1>5. LoopsOK(entries', loops')
    <2>1. \A l \in Loops : loops[l].pc = "polling" => loops[l].entry \in 1 .. Len(entries)
      BY PollingEntry DEF QInv, LoopsOK
    <2> QED BY <1>2, <1>4, <2>1 DEF QInv, LoopsOK, PollsOK
  <1>6. WorkerOK'
    BY <1>2 DEF QInv, WorkerOK
  <1>7. CacheKept
    BY <1>3, <1>4 DEF CacheKept, CacheOK
  <1> QED BY <1>4, <1>5, <1>6, <1>7 DEF QInv

\* Time changes one field that the queue does not look at.
LEMMA TimeKeeps ==
  ASSUME QInv, NEW e \in 1 .. Len(entries), NEW r \in Entry,
         r.hash = entries[e].hash, r.resolved = entries[e].resolved,
         r.attempts = entries[e].attempts, r.pollInFlight = entries[e].pollInFlight,
         entries' = [entries EXCEPT ![e] = r],
         UNCHANGED <<pending, cache, waiting, workerVars>>
  PROVE  QInv' /\ CacheKept
  <1>1. /\ entries' \in Seq(Entry)
        /\ Len(entries') = Len(entries)
        /\ entries'[e] = r
        /\ \A x \in 1 .. Len(entries) : x # e => entries'[x] = entries[x]
    BY ReplaceEntry DEF QInv, EntriesOK
  <1>2. SameQueue(entries, entries')
    BY <1>1 DEF SameQueue
  <1>3. \A x \in 1 .. Len(entries) : /\ entries'[x].attempts = entries[x].attempts
                                     /\ entries'[x].pollInFlight = entries[x].pollInFlight
                                     /\ entries'[x].resolved = entries[x].resolved
    BY <1>1
  <1>4. EntriesOK(entries')
    BY <1>1, <1>3 DEF QInv, EntriesOK
  <1>5. LoopsOK(entries', loops')
    <2>1. \A l \in Loops : loops[l].pc = "polling" => loops[l].entry \in 1 .. Len(entries)
      BY PollingEntry DEF QInv, LoopsOK
    <2> QED BY <1>1, <1>3, <2>1 DEF QInv, LoopsOK, PollsOK, workerVars
  <1>6. WorkerOK'
    BY DEF QInv, WorkerOK, workerVars
  <1> QED BY <1>2, <1>4, <1>5, <1>6, ScanStepKeeps

LEMMA BecomesDueKeeps ==
  ASSUME QInv, NEW e, BecomesDue(e)
  PROVE  QInv' /\ CacheKept
  <1>1. e \in 1 .. Len(entries) /\ entries \in Seq(Entry)
    BY DEF BecomesDue, QInv, EntriesOK
  <1>2. PICK r \in Entry : r = [entries[e] EXCEPT !.due = TRUE]
    BY <1>1, EntryFields DEF Entry
  <1>3. /\ r.hash = entries[e].hash /\ r.resolved = entries[e].resolved
        /\ r.attempts = entries[e].attempts /\ r.pollInFlight = entries[e].pollInFlight
    BY <1>1, <1>2, EntryFields DEF Entry
  <1>4. entries' = [entries EXCEPT ![e] = r]
    BY <1>2, Zenon DEF BecomesDue
  <1> QED BY <1>1, <1>3, <1>4, TimeKeeps DEF BecomesDue

LEMMA DeadlinePassesKeeps ==
  ASSUME QInv, NEW e, DeadlinePasses(e)
  PROVE  QInv' /\ CacheKept
  <1>1. e \in 1 .. Len(entries) /\ entries \in Seq(Entry)
    BY DEF DeadlinePasses, QInv, EntriesOK
  <1>2. PICK r \in Entry : r = [entries[e] EXCEPT !.expired = TRUE]
    BY <1>1, EntryFields DEF Entry
  <1>3. /\ r.hash = entries[e].hash /\ r.resolved = entries[e].resolved
        /\ r.attempts = entries[e].attempts /\ r.pollInFlight = entries[e].pollInFlight
    BY <1>1, <1>2, EntryFields DEF Entry
  <1>4. entries' = [entries EXCEPT ![e] = r]
    BY <1>2, Zenon DEF DeadlinePasses
  <1> QED BY <1>1, <1>3, <1>4, TimeKeeps DEF DeadlinePasses

LEMMA StopKeeps ==
  ASSUME QInv, StopConfirmationWorker
  PROVE  QInv' /\ CacheKept
  <1>1. UNCHANGED <<entries, pending, cache, waiting>> /\ SameQueue(entries, entries')
    BY DEF StopConfirmationWorker, queueVars, SameQueue
  <1>2. /\ loops' \in [Loops -> LoopStates(Len(entries))]
        /\ \A l \in Loops : loops'[l].pc = "polling" => loops'[l] = loops[l]
    <2>1. Ended \in LoopStates(Len(entries)) /\ Ended.pc # "polling"
      BY DEF LoopStates, Ended
    <2> QED BY <2>1 DEF StopConfirmationWorker, QInv, LoopsOK
  <1>3. LoopsOK(entries', loops')
    <2>1. ASSUME NEW j \in Loops, NEW k \in Loops, j # k, loops'[j].pc = "polling"
          PROVE  loops'[j] # loops'[k]
      BY <1>2, <2>1 DEF QInv, LoopsOK, PollsOK
    <2> QED BY <1>1, <1>2, <2>1 DEF QInv, LoopsOK, PollsOK
  <1>4. WorkerOK'
    <2>1. stopCount' \in 0 .. MaxStops
      BY DEF StopConfirmationWorker, QInv, WorkerOK
    <2>2. running' \in BOOLEAN /\ worker' \in Loops \cup {NoLoop}
          /\ stops' \subseteq Loops \cup {NoLoop}
      BY DEF StopConfirmationWorker, QInv, WorkerOK
    <2> QED BY <2>1, <2>2 DEF WorkerOK
  <1> QED BY <1>1, <1>3, <1>4, ScanStepKeeps DEF QInv

\* Steps that touch neither the entries nor the queue nor the worker.
LEMMA CallerKeeps ==
  ASSUME QInv, UNCHANGED <<entries, pending, workerVars>>,
         WaitOK(entries, waiting'), CacheOK(cache', pending)
  PROVE  QInv'
  <1>1. UNCHANGED <<running, loops, worker, stops, stopCount>>
    BY DEF workerVars
  <1> QED BY <1>1 DEF QInv, WorkerOK

\* The invariant is inductive, and no step takes a cached outcome back.
LEMMA NextKeeps ==
  ASSUME QInv, [Next]_vars
  PROVE  QInv' /\ CacheKept
  <1> DEFINE Goal == QInv' /\ CacheKept
  <1>0. CacheOK(cache, pending) /\ WaitOK(entries, waiting)
    BY DEF QInv
  <1>k. ASSUME cache' = cache PROVE CacheKept /\ CacheOK(cache', pending)
    BY <1>0, <1>k DEF CacheKept, CacheOK
  <1>1. ASSUME StartConfirmationWorker PROVE Goal
    <2>1. Start(entries, pending) /\ UNCHANGED <<pending, cache, waiting>>
      BY <1>1 DEF StartConfirmationWorker
    <2>2. /\ EntriesOK(entries')
          /\ SameQueue(entries, entries')
          /\ LoopsOK(entries', loops')
          /\ WorkerOK'
      BY <2>1, StartKeeps DEF QInv, LoopsOK
    <2> QED BY <2>1, <2>2, ScanStepKeeps
  <1>2. ASSUME StopConfirmationWorker PROVE Goal
    BY <1>2, StopKeeps
  <1>3. ASSUME NEW w \in Waiters, NEW h \in Hashes, WaitCached(w, h) PROVE Goal
    <2>1. cache' = PruneCache /\ UNCHANGED <<entries, pending, waiting, workerVars>>
      BY <1>3 DEF WaitCached
    <2>2. CacheOK(cache', pending) /\ CacheKept
      BY <1>0, <2>1, PruneKeeps
    <2> QED BY <1>0, <2>1, <2>2, CallerKeeps
  <1>4. ASSUME NEW w \in Waiters, NEW h \in Hashes, WaitCoalesced(w, h) PROVE Goal
    <2>1. cache' = PruneCache /\ UNCHANGED <<entries, pending, workerVars>>
          /\ waiting' = [waiting EXCEPT ![w] = pending[h]] /\ pending[h] # 0
      BY <1>4 DEF WaitCoalesced, NotQueued
    <2>2. CacheOK(cache', pending) /\ CacheKept
      BY <1>0, <2>1, PruneKeeps
    <2>3. WaitOK(entries, waiting')
      BY <1>0, <2>1 DEF QInv, QueueOK, WaitOK
    <2> QED BY <2>1, <2>2, <2>3, CallerKeeps
  <1>5. ASSUME NEW w \in Waiters, NEW h \in Hashes, WaitQueued(w, h) PROVE Goal
    BY <1>5, WaitQueuedKeeps
  <1>6. ASSUME GetConfirmationStatus PROVE Goal
    <2>1. cache' = PruneCache /\ UNCHANGED <<entries, pending, waiting, workerVars>>
      BY <1>6 DEF GetConfirmationStatus
    <2>2. CacheOK(cache', pending) /\ CacheKept
      BY <1>0, <2>1, PruneKeeps
    <2> QED BY <1>0, <2>1, <2>2, CallerKeeps
  <1>7. ASSUME NEW w \in Waiters, TimerFires(w) PROVE Goal
    <2>1. /\ waiting' = [waiting EXCEPT ![w] = 0]
          /\ UNCHANGED <<entries, pending, cache, workerVars>>
      BY <1>7 DEF TimerFires
    <2>2. WaitOK(entries, waiting')
      <3>1. Len(entries) \in Nat
        BY DEF QInv, EntriesOK
      <3> QED BY <1>0, <2>1, <3>1 DEF WaitOK
    <2> QED BY <1>k, <2>1, <2>2, CallerKeeps
  <1>8. ASSUME NEW l \in Loops, PollReturns(l) PROVE Goal
    BY <1>8, PollReturnsKeeps
  <1>9. ASSUME NEW l \in Loops, Resume(l) PROVE Goal
    <2>1. Scan(l, entries, pending)
          /\ UNCHANGED <<pending, cache, waiting, running, worker, stops, stopCount>>
      BY <1>9 DEF Resume
    <2>2. EntriesOK(entries) /\ loops \in [Loops -> LoopStates(Len(entries))]
          /\ PollsOK(entries, loops, Loops \ {l})
      BY DEF QInv, LoopsOK, PollsOK
    <2>3. /\ EntriesOK(entries')
          /\ SameQueue(entries, entries')
          /\ LoopsOK(entries', loops')
      BY <2>1, <2>2, ScanKeeps
    <2>4. WorkerOK'
      BY <2>1 DEF QInv, WorkerOK
    <2> QED BY <2>1, <2>3, <2>4, ScanStepKeeps
  <1>10. ASSUME NEW k, StopFinishes(k) PROVE Goal
    BY <1>10, StopFinishesKeeps
  <1>11. ASSUME NEW e, BecomesDue(e) PROVE Goal
    BY <1>11, BecomesDueKeeps
  <1>12. ASSUME NEW e, DeadlinePasses(e) PROVE Goal
    BY <1>12, DeadlinePassesKeeps
  <1>13. ASSUME NEW h \in Hashes, CacheAges(h) PROVE Goal
    <2>1. /\ cache[h] = "fresh" /\ cache' = [cache EXCEPT ![h] = "old"]
          /\ UNCHANGED <<entries, pending, waiting, workerVars>>
      BY <1>13 DEF CacheAges
    <2>2. CacheOK(cache', pending) /\ CacheKept
      BY <1>0, <2>1 DEF CacheOK, CacheKept
    <2> QED BY <1>0, <2>1, <2>2, CallerKeeps
  <1>14. ASSUME UNCHANGED vars PROVE Goal
    <2>1. UNCHANGED <<entries, pending, cache, waiting, workerVars>>
      BY <1>14 DEF vars, queueVars
    <2> QED BY <1>0, <1>k, <2>1, CallerKeeps
  <1> HIDE DEF Goal
  <1>15. Goal
    BY <1>1, <1>2, <1>3, <1>4, <1>5, <1>6, <1>7, <1>8, <1>9, <1>10, <1>11, <1>12,
       <1>13, <1>14 DEF Next
  <1> QED BY <1>15 DEF Goal

LEMMA InitKeeps == Init => QInv
  <1> SUFFICES ASSUME Init PROVE QInv
    OBVIOUS
  <1>1. entries = <<>> /\ Len(entries) = 0 /\ entries \in Seq(Entry)
    BY DEF Init
  <1>2. EntriesOK(entries)
    BY <1>1 DEF EntriesOK
  <1>3. QueueOK(entries, pending) /\ WaitOK(entries, waiting) /\ CacheOK(cache, pending)
    BY <1>1 DEF Init, QueueOK, WaitOK, CacheOK
  <1>4. LoopsOK(entries, loops)
    BY DEF Init, LoopsOK, PollsOK, LoopStates, Ended
  <1>5. WorkerOK
    <2>1. stopCount \in 0 .. MaxStops
      BY DEF Init
    <2>2. running \in BOOLEAN /\ worker \in Loops \cup {NoLoop}
          /\ stops \subseteq Loops \cup {NoLoop}
      BY Zenon DEF Init
    <2> QED BY <2>1, <2>2 DEF WorkerOK
  <1> QED BY <1>2, <1>3, <1>4, <1>5 DEF QInv

-----------------------------------------------------------------------------
(* The theorems *)

LEMMA QueueInvariant == Spec => []QInv
  <1>1. QInv /\ [Next]_vars => QInv'
    BY NextKeeps
  <1> QED BY InitKeeps, <1>1, PTL DEF Spec

\* THEOREM: the queue and its worker keep their types, and an entry in the
\* queue has attempts left.
THEOREM QueueTypeCorrect == Spec => []TypeOK
  <1>1. QInv => TypeOK
    <2> SUFFICES ASSUME QInv PROVE TypeOK
      OBVIOUS
    <2>1. entries \in Seq(Entry) /\ DOMAIN entries = 1 .. Len(entries)
      BY DEF QInv, EntriesOK
    <2>2. loops \in [Loops -> {Ended, Idle} \cup {Polling(e) : e \in DOMAIN entries}]
      BY <2>1, Zenon DEF QInv, LoopsOK, LoopStates
    <2> QED BY <2>1, <2>2 DEF QInv, EntriesOK, QueueOK, WaitOK, CacheOK, WorkerOK, TypeOK
  <1> QED BY QueueInvariant, <1>1, PTL

\* THEOREM: however many loops stops and waits leave behind, an entry is polled
\* by one of them at a time.
THEOREM OnePollAtATime == Spec => []OnePollPerEntry
  <1>1. QInv => OnePollPerEntry
    BY DEF QInv, LoopsOK, PollsOK, OnePollPerEntry
  <1> QED BY QueueInvariant, <1>1, PTL

\* THEOREM: no caller waits on an entry that has left the queue.
THEOREM NoWaiterIsLost == Spec => []WaitersHaveAnEntry
  <1>1. QInv => WaitersHaveAnEntry
    <2> SUFFICES ASSUME QInv, NEW w \in Waiters, waiting[w] # 0
                 PROVE  /\ ~entries[waiting[w]].resolved
                        /\ pending[entries[waiting[w]].hash] = waiting[w]
      BY DEF WaitersHaveAnEntry
    <2>1. waiting[w] \in 1 .. Len(entries) /\ ~entries[waiting[w]].resolved
      BY DEF QInv, WaitOK, EntriesOK
    <2> QED BY <2>1 DEF QInv, QueueOK
  <1> QED BY QueueInvariant, <1>1, PTL

\* THEOREM: an outcome that was given stays until it is pruned, whatever a late
\* poll finds.
THEOREM OutcomesAreFinal == Spec => OutcomeIsFinal
  <1>1. QInv /\ [Next]_vars => [CacheKept]_vars
    BY NextKeeps
  <1> QED BY QueueInvariant, <1>1, PTL DEF Spec, OutcomeIsFinal, CacheKept

-----------------------------------------------------------------------------
(* The queue implements Confirmations *)

SameHashes(es, es2) ==
  /\ Len(es2) = Len(es)
  /\ \A e \in 1 .. Len(es) : es2[e].hash = es[e].hash

\* One entry is changed, but not in its hash.
LEMMA ReplaceHashes ==
  ASSUME NEW es \in Seq(Entry), NEW e, NEW r, e \in 1 .. Len(es) => r.hash = es[e].hash
  PROVE  SameHashes(es, [es EXCEPT ![e] = r])
  <1>1. Len([es EXCEPT ![e] = r]) = Len(es)
    OBVIOUS
  <1>2. ASSUME NEW x \in 1 .. Len(es)
        PROVE  [es EXCEPT ![e] = r][x].hash = es[x].hash
    BY DEF SameHashes
  <1> QED BY <1>1, <1>2 DEF SameHashes

LEMMA ScanHashes ==
  ASSUME NEW l, NEW es \in Seq(Entry), NEW pend, Scan(l, es, pend)
  PROVE  SameHashes(es, entries')
  <1>1. CASE entries' = es
    BY <1>1 DEF SameHashes
  <1>2. CASE \E e : entries' = [es EXCEPT ![e].pollInFlight = TRUE]
    <2>1. PICK e : entries' = [es EXCEPT ![e].pollInFlight = TRUE]
      BY <1>2
    <2> DEFINE r == [es[e] EXCEPT !.pollInFlight = TRUE]
    <2>2. e \in 1 .. Len(es) => r.hash = es[e].hash
      BY EntryFields DEF Entry
    <2>3. entries' = [es EXCEPT ![e] = r]
      BY <2>1, Zenon
    <2> HIDE DEF r
    <2> QED BY <2>2, <2>3, ReplaceHashes
  <1> QED BY <1>1, <1>2, Zenon DEF Scan

LEMMA SettledHashes ==
  ASSUME NEW es \in Seq(Entry), NEW S, S \subseteq 1 .. Len(es)
  PROVE  SettledEntries(S, es) \in Seq(Entry) /\ SameHashes(es, SettledEntries(S, es))
  <1>1. /\ SettledEntries(S, es) \in Seq(Entry)
        /\ Len(SettledEntries(S, es)) = Len(es)
        /\ \A e \in 1 .. Len(es) :
             SettledEntries(S, es)[e] \in {es[e], Settled(es[e])}
    BY SettledEntriesFacts
  <1>2. \A e \in 1 .. Len(es) : Settled(es[e]).hash = es[e].hash
    BY EntryFields, SettledFields
  <1> QED BY <1>1, <1>2 DEF SameHashes

\* Steps that only forget outcomes, or nothing at all.
LEMMA ForgetRefines ==
  ASSUME QInv, SameHashes(entries, entries'), waiting' = waiting,
         \A h \in Hashes : cache[h] = "none" => cache'[h] = "none"
  PROVE  Queue!Next
  <1>1. \A w \in Waiters : waiting[w] # 0 =>
          entries'[waiting[w]].hash = entries[waiting[w]].hash
    BY DEF QInv, WaitOK, EntriesOK, SameHashes
  <1>2. Awaited' = Awaited
    BY <1>1 DEF Awaited
  <1>3. Known' \subseteq Known
    BY DEF Known
  <1> QED BY <1>2, <1>3 DEF Queue!Next, Queue!Forget

\* A caller starts to wait for h, on the entry of h.
LEMMA AwaitRefines ==
  ASSUME QInv, NEW w \in Waiters, NEW h \in Hashes, NEW e,
         waiting[w] = 0, waiting' = [waiting EXCEPT ![w] = e],
         e # 0, entries'[e].hash = h,
         \A x \in 1 .. Len(entries) : entries'[x].hash = entries[x].hash,
         cache' = PruneCache, PruneCache[h] = "none"
  PROVE  Queue!Next
  <1>1. \A v \in Waiters : waiting[v] # 0 =>
          entries'[waiting[v]].hash = entries[waiting[v]].hash
    BY DEF QInv, WaitOK, EntriesOK
  <1>2. waiting'[w] = e /\ \A v \in Waiters : v # w => waiting'[v] = waiting[v]
    BY DEF QInv, WaitOK
  <1>3. Awaited' = Awaited \cup {<<w, h>>}
    BY <1>1, <1>2 DEF Awaited
  <1>4. Known' \subseteq Known \ {h}
    BY DEF Known, PruneCache
  <1>5. ~Queue!Waits(w)
    BY DEF Queue!Waits, Awaited
  <1>6. Queue!Await(w, h)
    BY <1>3, <1>4, <1>5 DEF Queue!Await
  <1> QED BY <1>6 DEF Queue!Next

\* The timer of a caller.
LEMMA GiveUpRefines ==
  ASSUME QInv, NEW w \in Waiters, TimerFires(w)
  PROVE  Queue!Next
  <1>1. /\ waiting[w] # 0 /\ waiting'[w] = 0
        /\ \A v \in Waiters : v # w => waiting'[v] = waiting[v]
        /\ entries' = entries /\ cache' = cache
    BY DEF TimerFires, QInv, WaitOK
  <1>2. Awaited' = Awaited \ ({w} \X Hashes) /\ Known' = Known
    BY <1>1 DEF Awaited, Known
  <1>3. entries[waiting[w]].hash \in Hashes
    BY <1>1, EntryFields DEF QInv, WaitOK, EntriesOK
  <1>4. Queue!Waits(w)
    BY <1>1, <1>3 DEF Queue!Waits, Awaited
  <1>5. Queue!GiveUp(w)
    BY <1>2, <1>4 DEF Queue!GiveUp
  <1> QED BY <1>5 DEF Queue!Next

\* Settling the entries of S answers all who wait for their hashes.
LEMMA AnswerRefines ==
  ASSUME QInv, NEW es, es \in Seq(Entry), SameQueue(entries, es),
         NEW S, S \subseteq 1 .. Len(es), Settle(S, es), SameHashes(es, entries')
  PROVE  [Queue!Next]_(Queue!confirmationVars)
  <1> DEFINE hs == HashesOf(S, es)
  <1>1. \A e \in Unsettled(S, es) :
          es[e].hash \in Hashes /\ pending[es[e].hash] = e /\ e # 0
    BY EntryFields DEF QInv, QueueOK, SameQueue, Unsettled
  <1>2. \A w \in Waiters : waiting[w] # 0 =>
          /\ waiting[w] \in 1 .. Len(es)
          /\ pending[es[waiting[w]].hash] = waiting[w]
          /\ es[waiting[w]].hash = entries[waiting[w]].hash
          /\ entries'[waiting[w]].hash = entries[waiting[w]].hash
    BY DEF QInv, QueueOK, WaitOK, EntriesOK, SameQueue, SameHashes
  <1>3. \A w \in Waiters : waiting[w] # 0 =>
          (waiting[w] \in Unsettled(S, es) <=> entries[waiting[w]].hash \in hs)
    BY <1>1, <1>2 DEF HashesOf
  <1>4. \A w \in Waiters :
          waiting'[w] = IF waiting[w] \in Unsettled(S, es) THEN 0 ELSE waiting[w]
    BY DEF Settle
  <1>5. Awaited' = Awaited \ (Waiters \X hs)
    <2> HIDE DEF hs
    <2>1. ASSUME NEW c \in Waiters \X Hashes
          PROVE  c \in Awaited' <=> c \in Awaited /\ c[2] \notin hs
      BY <1>2, <1>3, <1>4 DEF Awaited
    <2> QED BY <2>1 DEF Awaited
  <1>6. Known' = Known \cup hs
    BY <1>1 DEF Known, Settle, HashesOf
  <1>7. hs \cap Known = {} /\ hs \in SUBSET Hashes
    BY <1>1 DEF Known, HashesOf, QInv, CacheOK
  <1> HIDE DEF hs
  <1>8. CASE hs = {}
    <2>1. UNCHANGED <<Awaited, Known>>
      BY <1>5, <1>6, <1>8
    <2> QED BY <2>1 DEF Queue!confirmationVars
  <1>9. CASE hs # {}
    <2>1. Queue!Answer(hs)
      BY <1>5, <1>6, <1>7, <1>9 DEF Queue!Answer
    <2> QED BY <1>7, <2>1 DEF Queue!Next
  <1> QED BY <1>8, <1>9

LEMMA PollEndsRefines ==
  ASSUME QInv, NEW l \in Loops, NEW S, NEW after,
         Polled(loops[l].entry, S, after), PollEnds(l, S, after)
  PROVE  [Queue!Next]_(Queue!confirmationVars)
  <1>0. PICK e : e = loops[l].entry
    OBVIOUS
  <1>1. e \in 1 .. Len(entries) /\ entries \in Seq(Entry)
    <2>1. loops[l] \in LoopStates(Len(entries)) /\ loops[l].pc = "polling"
      BY DEF PollEnds, QInv, LoopsOK
    <2> QED BY <1>0, <2>1, PollingEntry DEF QInv, EntriesOK
  <1>2. PICK es : es = Marked(after, e, FALSE)
    OBVIOUS
  <1>3. /\ Settle(S, es)
        /\ \/ Scan(l, SettledEntries(S, es), Dequeued(S, es))
           \/ entries' = SettledEntries(S, es)
    BY <1>0, <1>2, Zenon DEF PollEnds, Marked
  <1>4. after \in Seq(Entry) /\ SameQueue(entries, after) /\ S \subseteq {e}
    BY <1>0 DEF Polled
  <1>5. es \in Seq(Entry) /\ SameQueue(after, es)
    <2>1. e \in 1 .. Len(after)
      BY <1>1, <1>4 DEF SameQueue
    <2>2. IsMarked(after, e, FALSE, Marked(after, e, FALSE))
      BY <1>4, <2>1, MarkEntry
    <2> QED BY <1>2, <2>2 DEF IsMarked
  <1>6. SameQueue(entries, es) /\ S \subseteq 1 .. Len(es)
    BY <1>1, <1>4, <1>5 DEF SameQueue
  <1>7. SettledEntries(S, es) \in Seq(Entry) /\ SameHashes(es, SettledEntries(S, es))
    BY <1>5, <1>6, SettledHashes
  <1>8. SameHashes(SettledEntries(S, es), entries')
    <2>1. CASE Scan(l, SettledEntries(S, es), Dequeued(S, es))
      BY <1>7, <2>1, ScanHashes
    <2>2. CASE entries' = SettledEntries(S, es)
      BY <2>2 DEF SameHashes
    <2> QED BY <1>3, <2>1, <2>2
  <1>9. SameHashes(es, entries')
    BY <1>7, <1>8 DEF SameHashes
  <1> QED BY <1>3, <1>5, <1>6, <1>9, AnswerRefines

LEMMA WaitQueuedRefines ==
  ASSUME QInv, NEW w \in Waiters, NEW h \in Hashes, WaitQueued(w, h)
  PROVE  Queue!Next
  <1> DEFINE n == Len(entries) + 1
  <1>1. PICK es : es = Append(entries, NewEntry(h))
    OBVIOUS
  <1>2. /\ waiting[w] = 0
        /\ PruneCache[h] = "none" /\ cache' = PruneCache
        /\ waiting' = [waiting EXCEPT ![w] = n]
        /\ pending[h] = 0 /\ Len(entries) < MaxEntries
        /\ \/ entries' = es
           \/ \E pend : Start(es, pend)
    BY <1>1, Zenon DEF WaitQueued, NotQueued
  <1>3. /\ es \in Seq(Entry) /\ n \in 1 .. Len(es) /\ n # 0
        /\ es[n].hash = h
        /\ \A x \in 1 .. Len(entries) : x \in 1 .. Len(es) /\ es[x] = entries[x]
    <2>1. NewEntry(h) \in Entry /\ NewEntry(h).hash = h
      BY DEF NewEntry, Entry
    <2>2. entries \in Seq(Entry)
      BY DEF QInv, EntriesOK
    <2> HIDE DEF n
    <2>3. n = Len(entries) + 1
      BY DEF n
    <2> QED BY <1>1, <2>1, <2>2, <2>3
  <1> HIDE DEF n
  <1>4. SameHashes(es, entries')
    <2>1. CASE entries' = es
      BY <2>1 DEF SameHashes
    <2>2. CASE \E pend : Start(es, pend)
      <3>1. PICK pend, l : Scan(l, es, pend)
        BY <2>2 DEF Start
      <3> QED BY <1>3, <3>1, ScanHashes
    <2> QED BY <1>2, <2>1, <2>2
  <1>5. entries'[n].hash = h /\ \A x \in 1 .. Len(entries) : entries'[x].hash = entries[x].hash
    BY <1>3, <1>4 DEF SameHashes
  <1> QED BY <1>2, <1>3, <1>5, AwaitRefines

LEMMA TimeHashes ==
  ASSUME QInv, NEW e, BecomesDue(e) \/ DeadlinePasses(e)
  PROVE  SameHashes(entries, entries')
  <1>1. e \in 1 .. Len(entries) /\ entries \in Seq(Entry)
    BY DEF BecomesDue, DeadlinePasses, QInv, EntriesOK
  <1>2. /\ [entries[e] EXCEPT !.due = TRUE].hash = entries[e].hash
        /\ [entries[e] EXCEPT !.expired = TRUE].hash = entries[e].hash
    BY <1>1, EntryFields DEF Entry
  <1>3. \/ entries' = [entries EXCEPT ![e] = [entries[e] EXCEPT !.due = TRUE]]
        \/ entries' = [entries EXCEPT ![e] = [entries[e] EXCEPT !.expired = TRUE]]
    BY Zenon DEF BecomesDue, DeadlinePasses
  <1>4. PICK r : entries' = [entries EXCEPT ![e] = r] /\ r.hash = entries[e].hash
    BY <1>2, <1>3, Zenon
  <1> QED BY <1>1, <1>4, ReplaceHashes

LEMMA NextRefines ==
  ASSUME QInv, [Next]_vars
  PROVE  [Queue!Next]_(Queue!confirmationVars)
  <1> DEFINE Goal == [Queue!Next]_(Queue!confirmationVars)
  <1>0. entries \in Seq(Entry) /\ SameHashes(entries, entries)
    BY DEF QInv, EntriesOK, SameHashes
  <1>p. \A h \in Hashes : cache[h] = "none" => PruneCache[h] = "none"
    BY DEF PruneCache
  <1>1. ASSUME StartConfirmationWorker \/ \E l \in Loops : Resume(l) PROVE Goal
    <2>1. PICK l : Scan(l, entries, pending)
      BY <1>1 DEF StartConfirmationWorker, Start, Resume
    <2>2. SameHashes(entries, entries')
      BY <1>0, <2>1, ScanHashes
    <2>3. waiting' = waiting /\ cache' = cache
      BY <1>1 DEF StartConfirmationWorker, Resume
    <2> QED BY <2>2, <2>3, ForgetRefines
  <1>2. ASSUME StopConfirmationWorker PROVE Goal
    BY <1>0, <1>2, ForgetRefines DEF StopConfirmationWorker, queueVars
  <1>3. ASSUME \/ GetConfirmationStatus
               \/ \E w \in Waiters, h \in Hashes : WaitCached(w, h)
        PROVE  Goal
    <2>1. cache' = PruneCache /\ waiting' = waiting /\ entries' = entries
      BY <1>3 DEF GetConfirmationStatus, WaitCached
    <2> QED BY <1>0, <1>p, <2>1, ForgetRefines
  <1>4. ASSUME NEW w \in Waiters, NEW h \in Hashes, WaitCoalesced(w, h) PROVE Goal
    <2>1. /\ waiting[w] = 0 /\ waiting' = [waiting EXCEPT ![w] = pending[h]]
          /\ pending[h] # 0 /\ entries' = entries
          /\ cache' = PruneCache /\ PruneCache[h] = "none"
      BY <1>4 DEF WaitCoalesced, NotQueued
    <2>2. entries[pending[h]].hash = h
      BY <2>1 DEF QInv, QueueOK
    <2> QED BY <2>1, <2>2, AwaitRefines
  <1>5. ASSUME NEW w \in Waiters, NEW h \in Hashes, WaitQueued(w, h) PROVE Goal
    BY <1>5, WaitQueuedRefines
  <1>6. ASSUME NEW w \in Waiters, TimerFires(w) PROVE Goal
    BY <1>6, GiveUpRefines
  <1>7. ASSUME NEW l \in Loops, PollReturns(l) PROVE Goal
    BY <1>7, PollReturnsPolled, PollEndsRefines
  <1>8. ASSUME NEW k, StopFinishes(k) PROVE Goal
    <2>1. PICK S : S = {pending[h] : h \in Hashes} \ {0}
      OBVIOUS
    <2>2. Settle(S, entries) /\ entries' = SettledEntries(S, entries)
      BY <1>8, <2>1, Zenon DEF StopFinishes
    <2>3. S \subseteq 1 .. Len(entries)
      BY <1>0, <2>1 DEF QInv, QueueOK
    <2>4. SameHashes(entries, entries')
      BY <1>0, <2>2, <2>3, SettledHashes
    <2>5. SameQueue(entries, entries)
      BY DEF SameQueue
    <2> QED BY <1>0, <2>2, <2>3, <2>4, <2>5, AnswerRefines
  <1>9. ASSUME NEW e, BecomesDue(e) \/ DeadlinePasses(e) PROVE Goal
    <2>1. waiting' = waiting /\ cache' = cache
      BY <1>9 DEF BecomesDue, DeadlinePasses
    <2> QED BY <1>9, <2>1, TimeHashes, ForgetRefines
  <1>10. ASSUME NEW h \in Hashes, CacheAges(h) PROVE Goal
    <2>1. /\ waiting' = waiting /\ entries' = entries
          /\ cache[h] = "fresh" /\ cache' = [cache EXCEPT ![h] = "old"]
      BY <1>10 DEF CacheAges
    <2>2. \A g \in Hashes : cache[g] = "none" => cache'[g] = "none"
      BY <2>1 DEF QInv, CacheOK
    <2> QED BY <1>0, <2>1, <2>2, ForgetRefines
  <1>11. ASSUME UNCHANGED vars PROVE Goal
    BY <1>0, <1>11, ForgetRefines DEF vars, queueVars
  <1> HIDE DEF Goal
  <1>12. Goal
    BY <1>1, <1>2, <1>3, <1>4, <1>5, <1>6, <1>7, <1>8, <1>9, <1>10, <1>11 DEF Next
  <1> QED BY <1>12 DEF Goal

\* With shared entries, several loops, late polls and stops, the queue
\* implements the promise of waitForTransaction: all who wait for a hash are
\* answered together, by one outcome that later callers are given until it is
\* forgotten.
THEOREM QueueImplementsConfirmations == Spec => ImplementsConfirmations
  <1>1. Init => Queue!Init
    BY DEF Init, Queue!Init, Awaited, Known
  <1> QED
    BY <1>1, QueueInvariant, NextRefines, PTL
       DEF Spec, ImplementsConfirmations, Queue!Spec

=============================================================================
