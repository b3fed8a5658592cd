--------------------------- MODULE Cluster_proofs ---------------------------
(***************************************************************************)
(* The sequence lock of the cluster is exclusive and implements            *)
(* SequenceLock, for every number of workers and requests, whatever times  *)
(* out or dies.                                                            *)
(***************************************************************************)
EXTENDS Cluster, FiniteSetTheorems, WellFoundedInduction, TLAPS

\* The types that the argument needs.
LockType ==
    /\ holder \in Claim \cup {None}
    /\ arrivals \in Nat
    /\ DOMAIN queue \subseteq Nat
    /\ \A t \in DOMAIN queue : queue[t] \in Claim
    /\ toPrimary \in [Worker -> Seq(ToPrimaryMsg)]
    /\ toWorker \in [Worker -> Seq(ToWorkerMsg)]
    /\ alive \subseteq Worker
    /\ pending \in [Worker -> SUBSET Request]
    /\ inside \in [Worker -> SUBSET Request]
    /\ issued \in 0 .. MaxRequests

Inboxes == [Worker -> Seq(ToWorkerMsg)]

Grants(s) == {i \in DOMAIN s : s[i].type = "GRANTED"}
Releases(s) == {i \in DOMAIN s : s[i].type = "RELEASE"}

\* What a worker may have of the lock, with its inbox s, its outbox p and the
\* requests in of it that are inside: a grant under way, a request inside, or
\* a release under way, one of the three at most, and only as the holder.
Token(w, h, s, p, in) ==
    /\ \A i \in Grants(s) : h # None /\ h[1] = w /\ h[2] = s[i].req
    /\ \A r \in in : h # None /\ h[1] = w /\ h[2] = r
    /\ \A i \in Releases(p) : h # None /\ h[1] = w
    /\ \A i, j \in Grants(s) : i = j
    /\ \A i, j \in Releases(p) : i = j
    /\ in = {} \/ Grants(s) = {}
    /\ in = {} \/ Releases(p) = {}
    /\ Grants(s) = {} \/ Releases(p) = {}

TokenInv == \A w \in Worker : Token(w, holder, toWorker[w], toPrimary[w], inside[w])

\* The memory and the inbox of a dead process are gone.
DeadInv == \A w \in Worker \ alive : inside[w] = {} /\ toWorker[w] = <<>>

LockInv == LockType /\ TokenInv /\ DeadInv

USE ClusterAssumption DEF ClusterAssumption

-----------------------------------------------------------------------------
(* Channels *)

\* A message put at the end of a channel.
LEMMA AppendMessage ==
  ASSUME NEW S, NEW s \in Seq(S), NEW m \in S
  PROVE  /\ Append(s, m) \in Seq(S)
         /\ m.type # "GRANTED" => Grants(Append(s, m)) = Grants(s)
         /\ m.type = "GRANTED" => Grants(Append(s, m)) = Grants(s) \cup {Len(s) + 1}
         /\ m.type # "RELEASE" => Releases(Append(s, m)) = Releases(s)
         /\ m.type = "RELEASE" => Releases(Append(s, m)) = Releases(s) \cup {Len(s) + 1}
         /\ \A i \in DOMAIN s : Append(s, m)[i] = s[i]
         /\ Append(s, m)[Len(s) + 1] = m
  <1>1. /\ Append(s, m) \in Seq(S)
        /\ DOMAIN Append(s, m) = DOMAIN s \cup {Len(s) + 1}
        /\ \A i \in DOMAIN s : Append(s, m)[i] = s[i]
        /\ Append(s, m)[Len(s) + 1] = m
        /\ Len(s) + 1 \notin DOMAIN s
    OBVIOUS
  <1> QED BY <1>1 DEF Grants, Releases

\* A message taken from the front of a channel.
LEMMA TakeMessage ==
  ASSUME NEW S, NEW s \in Seq(S), s # <<>>
  PROVE  /\ Tail(s) \in Seq(S)
         /\ Head(s) = s[1] /\ 1 \in DOMAIN s /\ Head(s) \in S
         /\ \A i \in DOMAIN Tail(s) : i + 1 \in DOMAIN s /\ Tail(s)[i] = s[i + 1] /\ i + 1 # 1
         /\ \A i, j \in DOMAIN Tail(s) : i + 1 = j + 1 => i = j
  OBVIOUS

\* What is left of a token when a message is taken from its inbox.
LEMMA TakeFromInbox ==
  ASSUME NEW w, NEW h, NEW s \in Seq(ToWorkerMsg), NEW p, NEW in, s # <<>>,
         Token(w, h, s, p, in)
  PROVE  /\ Token(w, h, Tail(s), p, in)
         /\ Head(s).type = "GRANTED" =>
                /\ h # None /\ h[1] = w /\ h[2] = Head(s).req
                /\ Grants(Tail(s)) = {}
                /\ in = {}
                /\ Releases(p) = {}
  <1>1. \A i \in Grants(Tail(s)) : i + 1 \in Grants(s) /\ Tail(s)[i] = s[i + 1] /\ i + 1 # 1
    BY TakeMessage DEF Grants
  <1>2. \A i, j \in Grants(Tail(s)) : i + 1 = j + 1 => i = j
    BY TakeMessage DEF Grants
  <1>3. Token(w, h, Tail(s), p, in)
    <2>1. \A i \in Grants(Tail(s)) : h # None /\ h[1] = w /\ h[2] = Tail(s)[i].req
      <3> SUFFICES ASSUME NEW i \in Grants(Tail(s))
                   PROVE  h # None /\ h[1] = w /\ h[2] = Tail(s)[i].req
        OBVIOUS
      <3>1. h # None /\ h[1] = w /\ h[2] = s[i + 1].req
        BY <1>1, Zenon DEF Token
      <3> QED BY <1>1, <3>1, Zenon
    <2>2. \A i, j \in Grants(Tail(s)) : i = j
      BY <1>1, <1>2 DEF Token
    <2>3. Grants(s) = {} => Grants(Tail(s)) = {}
      BY <1>1
    <2> QED BY <2>1, <2>2, <2>3, Zenon DEF Token
  <1>4. Head(s).type = "GRANTED" => 1 \in Grants(s) /\ Head(s) = s[1]
    BY TakeMessage DEF Grants
  <1> QED BY <1>1, <1>3, <1>4 DEF Token

\* The same for its outbox.
LEMMA TakeFromOutbox ==
  ASSUME NEW w, NEW h, NEW s, NEW p \in Seq(ToPrimaryMsg), NEW in, p # <<>>,
         Token(w, h, s, p, in)
  PROVE  /\ Token(w, h, s, Tail(p), in)
         /\ Head(p).type = "RELEASE" =>
                /\ h # None /\ h[1] = w
                /\ Releases(Tail(p)) = {}
                /\ in = {}
                /\ Grants(s) = {}
  <1>1. \A i \in Releases(Tail(p)) : i + 1 \in Releases(p) /\ Tail(p)[i] = p[i + 1] /\ i + 1 # 1
    BY TakeMessage DEF Releases
  <1>2. \A i, j \in Releases(Tail(p)) : i + 1 = j + 1 => i = j
    BY TakeMessage DEF Releases
  <1>3. Token(w, h, s, Tail(p), in)
    BY <1>1, <1>2 DEF Token
  <1>4. Head(p).type = "RELEASE" => 1 \in Releases(p)
    BY TakeMessage DEF Releases
  <1> QED BY <1>1, <1>3, <1>4 DEF Token

\* Messages that say nothing of the lock leave the token as it is.
LEMMA OtherMessage ==
  ASSUME NEW w, NEW h, NEW s \in Seq(ToWorkerMsg), NEW p, NEW in,
         NEW m \in ToWorkerMsg,
         m.type # "GRANTED", Token(w, h, s, p, in)
  PROVE  Token(w, h, Append(s, m), p, in)
  <1>1. Grants(Append(s, m)) = Grants(s) /\ \A i \in Grants(s) : Append(s, m)[i] = s[i]
    BY AppendMessage DEF Grants
  <1> QED BY <1>1 DEF Token

\* No worker has a token of a free lock, nor a worker of another's lock.
LEMMA NoToken ==
  ASSUME NEW w, NEW h, NEW s, NEW p, NEW in, Token(w, h, s, p, in),
         h = None \/ h[1] # w
  PROVE  Grants(s) = {} /\ Releases(p) = {} /\ in = {}
  BY DEF Token

\* And where nothing of the lock is under way, any holder will do.
LEMMA EmptyToken ==
  ASSUME NEW w, NEW h, NEW s, NEW p, Grants(s) = {}, Releases(p) = {}
  PROVE  Token(w, h, s, p, {})
  BY DEF Token

-----------------------------------------------------------------------------
(* The steps *)

LEMMA InitLock == Init => LockInv
  <1> SUFFICES ASSUME Init PROVE LockInv
    OBVIOUS
  <1>1. LockType
    <2>1. \A w \in Worker : [type |-> "LEADER", isLeader |-> w = 1] \in ToWorkerMsg
      BY DEF ToWorkerMsg
    <2>2. \A w \in Worker : toWorker[w] \in Seq(ToWorkerMsg)
      <3> SUFFICES ASSUME NEW w \in Worker PROVE toWorker[w] \in Seq(ToWorkerMsg)
        OBVIOUS
      <3> DEFINE m == [type |-> "LEADER", isLeader |-> w = 1]
      <3>1. m \in ToWorkerMsg
        BY <2>1
      <3>2. toWorker[w] = IF w <= NumWorkers THEN <<m>> ELSE <<>>
        BY DEF Init
      <3> HIDE DEF m
      <3> QED BY <3>1, <3>2
    <2>3. toWorker \in [Worker -> Seq(ToWorkerMsg)]
      BY <2>2 DEF Init
    <2>4. /\ holder \in Claim \cup {None}
          /\ DOMAIN queue = {}
          /\ arrivals \in Nat /\ issued \in 0 .. MaxRequests
      BY DEF Init
    <2>5. /\ toPrimary \in [Worker -> Seq(ToPrimaryMsg)]
          /\ pending \in [Worker -> SUBSET Request]
          /\ inside \in [Worker -> SUBSET Request]
      BY DEF Init
    <2>6. alive \subseteq Worker
      BY DEF Init, Worker
    <2> QED BY <2>3, <2>4, <2>5, <2>6 DEF LockType
  <1>2. \A w \in Worker : Grants(toWorker[w]) = {} /\ Releases(toPrimary[w]) = {}
    BY DEF Init, Grants, Releases
  <1>3. TokenInv
    BY <1>2 DEF Init, TokenInv, Token
  <1>4. DeadInv
    BY DEF Init, DeadInv, Worker
  <1> QED BY <1>1, <1>3, <1>4 DEF LockInv

\* The lock is free, or w holds it: the others have nothing of it.
LEMMA OthersHaveNothing ==
  ASSUME TokenInv, NEW w \in Worker, holder = None \/ holder[1] # w
  PROVE  Grants(toWorker[w]) = {} /\ Releases(toPrimary[w]) = {} /\ inside[w] = {}
  BY NoToken DEF TokenInv

\* Granting an idle lock.
LEMMA GrantToken ==
  ASSUME NEW chan \in Inboxes, NEW claim \in Claim \cup {None},
         \A w \in Worker : Grants(chan[w]) = {}, alive \subseteq Worker,
         \A w \in Worker \ alive : chan[w] = <<>>,
         NEW w \in Worker, NEW p, Releases(p) = {}
  PROVE  /\ Grant(chan, claim) \in Inboxes
         /\ Token(w, claim, Grant(chan, claim)[w], p, {})
         /\ w \notin alive => Grant(chan, claim)[w] = <<>>
  <1> USE DEF Inboxes
  <1> DEFINE msg == [type |-> "GRANTED", req |-> claim[2]]
  <1>1. CASE claim = None \/ claim[1] \notin alive
    BY <1>1, EmptyToken DEF Grant
  <1>2. CASE claim # None /\ claim[1] \in alive
    <2>1. claim \in Claim /\ claim = <<claim[1], claim[2]>> /\ msg \in ToWorkerMsg
      BY <1>2 DEF Claim, ToWorkerMsg
    <2>2. Grant(chan, claim) = [chan EXCEPT ![claim[1]] = Append(@, msg)]
      BY <1>2 DEF Grant
    <2>3. Grant(chan, claim) \in Inboxes
      BY <1>2, <2>1, <2>2
    <2>4. CASE w # claim[1]
      BY <2>2, <2>3, <2>4, EmptyToken
    <2>5. CASE w = claim[1]
      <3> DEFINE s == Append(chan[w], msg)
      <3>1. Grants(s) = {Len(chan[w]) + 1} /\ s[Len(chan[w]) + 1] = msg
        BY <2>1, AppendMessage
      <3>2. Token(w, claim, s, p, {})
        <4>1. claim # None /\ claim[1] = w /\ claim[2] = s[Len(chan[w]) + 1].req
          BY <1>2, <2>5, <3>1
        <4>2. Grants(s) = {Len(chan[w]) + 1}
          BY <3>1
        <4> HIDE DEF s
        <4> QED BY <4>1, <4>2 DEF Token
      <3>3. Grant(chan, claim)[w] = s
        BY <2>2, <2>5
      <3> QED BY <1>2, <2>3, <2>5, <3>2, <3>3
    <2> QED BY <2>4, <2>5
  <1> QED BY <1>1, <1>2

\* Sets of numbers have a least element.
LEMMA LeastExists ==
  ASSUME NEW S, S \subseteq Nat, S # {}
  PROVE  \E x \in S : \A y \in S : x <= y
  <1> DEFINE R == {ss \in Nat \X Nat : ss[1] < ss[2]}
  <1>1. IsWellFoundedOn(R, Nat)
    BY NatLessThanWellFounded DEF OpToRel
  <1> HIDE DEF R
  <1>2. PICK x \in S : \A y \in S : <<y, x>> \notin R
    BY <1>1, WFMin, Zenon
  <1>3. \A y \in S : x <= y
    <2> SUFFICES ASSUME NEW y \in S PROVE x <= y
      OBVIOUS
    <2>1. x \in Nat /\ y \in Nat
      OBVIOUS
    <2>2. ~(y < x)
      BY <1>2, <2>1 DEF R
    <2> QED BY <2>1, <2>2
  <1> QED BY <1>3

\* processNextLockRequest picks a claim of the queue, or none.
LEMMA NextGrantType ==
  ASSUME NEW q, DOMAIN q \subseteq Nat, \A t \in DOMAIN q : q[t] \in Claim
  PROVE  /\ NextGrant(q).holder \in Claim \cup {None}
         /\ DOMAIN NextGrant(q).queue \subseteq Nat
         /\ \A t \in DOMAIN NextGrant(q).queue : NextGrant(q).queue[t] \in Claim
  <1> DEFINE live == {i \in DOMAIN q : q[i][1] \in alive}
  <1>1. CASE live = {}
    BY <1>1 DEF NextGrant, QueueOf
  <1>2. CASE live # {}
    <2> DEFINE i == CHOOSE j \in live : \A k \in live : j <= k
    <2>1. \E x \in live : \A y \in live : x <= y
      BY <1>2, LeastExists
    <2>3. i \in live
      <3> HIDE DEF live
      <3> QED BY <2>1
    <2>4. NextGrant(q) =
             [holder |-> q[i], queue |-> QueueOf(q, {k \in DOMAIN q : k > i})]
      BY <1>2 DEF NextGrant
    <2> QED BY <2>3, <2>4 DEF QueueOf
  <1> QED BY <1>1, <1>2

\* The lock passes to the next claim (or becomes free) once nothing of it is
\* under way; p is the outbox after the step.
LEMMA HandOver ==
  ASSUME LockInv, NEW claim \in Claim \cup {None},
         \A w \in Worker : Grants(toWorker[w]) = {} /\ inside[w] = {},
         holder' = claim, toWorker' = Grant(toWorker, claim),
         \A w \in Worker : Releases(toPrimary'[w]) = {},
         UNCHANGED <<alive, inside>>
  PROVE  /\ toWorker' \in Inboxes
         /\ TokenInv'
         /\ DeadInv'
  <1>1. /\ toWorker \in Inboxes
        /\ alive \subseteq Worker
        /\ \A w \in Worker \ alive : toWorker[w] = <<>>
    BY DEF LockInv, LockType, DeadInv, Inboxes
  <1>2. \A w \in Worker :
           /\ toWorker' \in Inboxes
           /\ Token(w, claim, toWorker'[w], toPrimary'[w], {})
           /\ w \notin alive => toWorker'[w] = <<>>
    <2> SUFFICES ASSUME NEW w \in Worker
                 PROVE  /\ toWorker' \in Inboxes
                        /\ Token(w, claim, toWorker'[w], toPrimary'[w], {})
                        /\ w \notin alive => toWorker'[w] = <<>>
      OBVIOUS
    <2> DEFINE p == toPrimary'[w]
    <2>1. Releases(p) = {}
      OBVIOUS
    <2>2. \A v \in Worker : Grants(toWorker[v]) = {}
      OBVIOUS
    <2> HIDE DEF p
    <2>3. /\ Grant(toWorker, claim) \in Inboxes
          /\ Token(w, claim, Grant(toWorker, claim)[w], p, {})
          /\ w \notin alive => Grant(toWorker, claim)[w] = <<>>
      BY <1>1, <2>1, <2>2, GrantToken, ZenonT(60)
    <2> QED BY <2>3 DEF p
  <1>3. 1 \in Worker
    BY DEF Worker
  <1>4. TokenInv'
    <2>1. \A w \in Worker : inside'[w] = {}
      OBVIOUS
    <2>2. \A w \in Worker : Token(w, holder', toWorker'[w], toPrimary'[w], inside'[w])
      BY <1>2, <2>1
    <2> QED BY <2>2, Zenon DEF TokenInv
  <1>5. DeadInv'
    BY <1>2 DEF DeadInv, LockInv
  <1> QED BY <1>2, <1>3, <1>4, <1>5

LEMMA PrimaryReceiveLock ==
  ASSUME LockInv, NEW w \in Worker, PrimaryReceive(w)
  PROVE  LockInv'
  <1> DEFINE msg == Head(toPrimary[w])
  <1>0. /\ toPrimary[w] # <<>>
        /\ toPrimary' = [toPrimary EXCEPT ![w] = Tail(@)]
        /\ UNCHANGED <<alive, pending, inside, issued>>
    BY DEF PrimaryReceive, workerVars, history
  <1>1. /\ toPrimary[w] \in Seq(ToPrimaryMsg)
        /\ Token(w, holder, toWorker[w], toPrimary[w], inside[w])
    BY DEF LockInv, LockType, TokenInv
  <1>2. /\ toPrimary' \in [Worker -> Seq(ToPrimaryMsg)]
        /\ msg \in ToPrimaryMsg
    BY <1>0, <1>1, TakeMessage DEF LockInv, LockType
  <1>3. \A v \in Worker : Token(v, holder, toWorker[v], toPrimary'[v], inside[v])
    <2> SUFFICES ASSUME NEW v \in Worker
                 PROVE  Token(v, holder, toWorker[v], toPrimary'[v], inside[v])
      OBVIOUS
    <2>1. CASE v = w
      BY <1>0, <1>1, <2>1, TakeFromOutbox DEF LockInv, LockType
    <2>2. CASE v # w
      BY <1>0, <2>2 DEF LockInv, LockType, TokenInv
    <2> QED BY <2>1, <2>2
  <1>4. CASE HandleAcquire(w, msg)
    <2>1. msg.req \in Request
      BY <1>2, <1>4 DEF HandleAcquire, ToPrimaryMsg
    <2>2. CASE holder = None
      <3>1. /\ holder' = <<w, msg.req>>
            /\ toWorker' = Grant(toWorker, <<w, msg.req>>)
            /\ UNCHANGED <<queue, arrivals>>
        BY <1>4, <2>2 DEF HandleAcquire
      <3>2. \A v \in Worker : /\ Grants(toWorker[v]) = {} /\ inside[v] = {}
                               /\ Releases(toPrimary'[v]) = {}
        BY <1>3, <2>2, NoToken
      <3>3. <<w, msg.req>> \in Claim
        BY <2>1 DEF Claim
      <3>4. TokenInv' /\ DeadInv' /\ toWorker' \in Inboxes
        BY <1>0, <3>1, <3>2, <3>3, HandOver
      <3> QED BY <1>0, <1>2, <3>1, <3>3, <3>4 DEF LockInv, LockType, Inboxes
    <2>3. CASE holder # None
      <3>1. /\ arrivals' = arrivals + 1
            /\ queue' = [t \in DOMAIN queue \cup {arrivals + 1} |->
                            IF t = arrivals + 1 THEN <<w, msg.req>> ELSE queue[t]]
            /\ UNCHANGED <<holder, toWorker>>
        BY <1>4, <2>3 DEF HandleAcquire
      <3>2. /\ arrivals' \in Nat
            /\ DOMAIN queue' \subseteq Nat
            /\ \A t \in DOMAIN queue' : queue'[t] \in Claim
        BY <2>1, <3>1 DEF LockInv, LockType, Claim
      <3>3. LockType'
        BY <1>0, <1>2, <3>1, <3>2 DEF LockInv, LockType
      <3>4. TokenInv' /\ DeadInv'
        BY <1>0, <1>3, <3>1 DEF LockInv, TokenInv, DeadInv
      <3> QED BY <3>3, <3>4 DEF LockInv
    <2> QED BY <2>2, <2>3
  <1>5. CASE HandleRelease(w, msg)
    <2>0. msg.type = "RELEASE" /\ toPrimary'[w] = Tail(toPrimary[w])
      BY <1>0, <1>5 DEF HandleRelease, LockInv, LockType
    <2>1. /\ holder # None /\ holder[1] = w
          /\ Releases(toPrimary'[w]) = {}
          /\ inside[w] = {}
          /\ Grants(toWorker[w]) = {}
      <3>1. /\ holder # None /\ holder[1] = w
            /\ Releases(Tail(toPrimary[w])) = {}
            /\ inside[w] = {}
            /\ Grants(toWorker[w]) = {}
        BY <1>0, <1>1, <2>0, TakeFromOutbox, ZenonT(60)
      <3> QED BY <2>0, <3>1
    <2> DEFINE g == NextGrant(queue)
    <2>2. /\ holder' = g.holder
          /\ queue' = g.queue
          /\ toWorker' = Grant(toWorker, g.holder)
          /\ UNCHANGED arrivals
      BY <1>5, <2>1 DEF HandleRelease
    <2>3. \A v \in Worker : /\ Grants(toWorker[v]) = {} /\ inside[v] = {}
                             /\ Releases(toPrimary'[v]) = {}
      <3> SUFFICES ASSUME NEW v \in Worker
                   PROVE  /\ Grants(toWorker[v]) = {} /\ inside[v] = {}
                          /\ Releases(toPrimary'[v]) = {}
        OBVIOUS
      <3>1. CASE v = w
        BY <2>1, <3>1
      <3>2. CASE v # w
        BY <1>3, <2>1, <3>2, NoToken
      <3> QED BY <3>1, <3>2
    <2>4. /\ g.holder \in Claim \cup {None}
          /\ DOMAIN g.queue \subseteq Nat
          /\ \A t \in DOMAIN g.queue : g.queue[t] \in Claim
      BY NextGrantType DEF LockInv, LockType
    <2> HIDE DEF g
    <2>5. TokenInv' /\ DeadInv' /\ toWorker' \in Inboxes
      BY <1>0, <2>2, <2>3, <2>4, HandOver
    <2> QED BY <1>0, <1>2, <2>2, <2>4, <2>5 DEF LockInv, LockType, Inboxes
  <1> QED BY <1>4, <1>5 DEF PrimaryReceive

\* Assignments of the leader, and the order to shut down, go to every worker
\* of a set: they add no grant.
NoNewGrants(c, d) ==
    /\ d \in Inboxes
    /\ \A w \in Worker : /\ Grants(d[w]) = Grants(c[w])
                         /\ \A i \in Grants(c[w]) : d[w][i] = c[w][i]

LEMMA NoNewGrantsToken ==
  ASSUME NEW c, NEW d, NoNewGrants(c, d), NEW w \in Worker, NEW h, NEW p, NEW in,
         Token(w, h, c[w], p, in)
  PROVE  Token(w, h, d[w], p, in)
  <1>1. Grants(d[w]) = Grants(c[w]) /\ \A i \in Grants(c[w]) : d[w][i] = c[w][i]
    BY Zenon DEF NoNewGrants
  <1> QED BY <1>1 DEF Token

LEMMA BroadcastQuiet ==
  ASSUME NEW chan \in Inboxes, NEW ws, NEW msg,
         \A w \in Worker : msg[w] \in ToWorkerMsg /\ msg[w].type # "GRANTED"
  PROVE  /\ NoNewGrants(chan, Broadcast(chan, ws, msg))
         /\ \A w \in Worker \ ws : Broadcast(chan, ws, msg)[w] = chan[w]
  <1> DEFINE b == Broadcast(chan, ws, msg)
  <1>1. /\ \A w \in Worker : b[w] = chan[w] \/ b[w] = Append(chan[w], msg[w])
        /\ \A w \in Worker \ ws : b[w] = chan[w]
        /\ b \in Inboxes
    BY DEF Broadcast, Inboxes
  <1> HIDE DEF b
  <1>2. ASSUME NEW w \in Worker
        PROVE  /\ Grants(b[w]) = Grants(chan[w])
               /\ \A i \in Grants(chan[w]) : b[w][i] = chan[w][i]
    <2>1. chan[w] \in Seq(ToWorkerMsg) /\ msg[w] \in ToWorkerMsg /\ msg[w].type # "GRANTED"
      BY DEF Inboxes
    <2>2. /\ Grants(Append(chan[w], msg[w])) = Grants(chan[w])
          /\ \A i \in DOMAIN chan[w] : Append(chan[w], msg[w])[i] = chan[w][i]
      BY <2>1, AppendMessage
    <2>3. \A i \in Grants(chan[w]) : i \in DOMAIN chan[w]
      BY DEF Grants
    <2> QED BY <1>1, <2>2, <2>3
  <1>3. NoNewGrants(chan, b)
    BY <1>1, <1>2 DEF NoNewGrants
  <1> QED BY <1>1, <1>3 DEF b

LEMMA AnnounceQuiet ==
  ASSUME NEW chan \in Inboxes, NEW ws, NEW lead
  PROVE  /\ NoNewGrants(chan, Announce(chan, ws, lead))
         /\ \A w \in Worker \ ws : Announce(chan, ws, lead)[w] = chan[w]
  <1> DEFINE msg == [w \in Worker |-> [type |-> "LEADER", isLeader |-> w = lead]]
  <1>1. \A w \in Worker : msg[w] \in ToWorkerMsg /\ msg[w].type # "GRANTED"
    BY DEF ToWorkerMsg
  <1>2. Announce(chan, ws, lead) = Broadcast(chan, ws, msg)
    BY DEF Announce
  <1> HIDE DEF msg
  <1>3. /\ NoNewGrants(chan, Broadcast(chan, ws, msg))
        /\ \A w \in Worker \ ws : Broadcast(chan, ws, msg)[w] = chan[w]
    BY <1>1, BroadcastQuiet
  <1> QED BY <1>2, <1>3

\* After a broadcast to live workers the invariant is what it was.
LEMMA QuietStep ==
  ASSUME NEW c, NEW al, NoNewGrants(c, toWorker'),
         \A w \in Worker \ al : toWorker'[w] = c[w],
         \A w \in Worker : Token(w, holder', c[w], toPrimary'[w], inside'[w]),
         \A w \in Worker \ al : inside'[w] = {} /\ c[w] = <<>>
  PROVE  /\ TokenInv'
         /\ \A w \in Worker \ al : inside'[w] = {} /\ toWorker'[w] = <<>>
         /\ toWorker' \in Inboxes
  <1>1. ASSUME NEW w \in Worker
        PROVE  Token(w, holder', toWorker'[w], toPrimary'[w], inside'[w])
    BY NoNewGrantsToken, Zenon
  <1>2. TokenInv'
    BY <1>1 DEF TokenInv
  <1>3. toWorker' \in Inboxes
    BY DEF NoNewGrants
  <1> QED BY <1>2, <1>3

LEMMA MasterShutdownLock ==
  ASSUME LockInv, MasterShutdown
  PROVE  LockInv'
  <1> DEFINE msg == [w \in Worker |-> [type |-> "SHUTDOWN"]]
             ws == active \cap alive
  <1>1. \A w \in Worker : msg[w] \in ToWorkerMsg /\ msg[w].type # "GRANTED"
    BY DEF ToWorkerMsg
  <1>2. /\ toWorker' = Broadcast(toWorker, ws, msg)
        /\ UNCHANGED <<queue, arrivals, holder, toPrimary, alive, pending, inside, issued>>
    BY DEF MasterShutdown, workerVars, history
  <1>3. ws \subseteq alive /\ toWorker \in Inboxes
    BY DEF LockInv, LockType, Inboxes
  <1> HIDE DEF msg, ws
  <1>4. /\ NoNewGrants(toWorker, Broadcast(toWorker, ws, msg))
        /\ \A w \in Worker \ ws : Broadcast(toWorker, ws, msg)[w] = toWorker[w]
    BY <1>1, <1>3, BroadcastQuiet
  <1>5. /\ NoNewGrants(toWorker, toWorker')
        /\ \A w \in Worker \ alive : toWorker'[w] = toWorker[w]
        /\ \A w \in Worker : Token(w, holder', toWorker[w], toPrimary'[w], inside'[w])
        /\ \A w \in Worker \ alive : inside'[w] = {} /\ toWorker[w] = <<>>
    BY <1>2, <1>3, <1>4 DEF LockInv, TokenInv, DeadInv
  <1>6. /\ TokenInv'
        /\ \A w \in Worker \ alive : inside'[w] = {} /\ toWorker'[w] = <<>>
        /\ toWorker' \in Inboxes
    BY <1>5, QuietStep, Zenon
  <1>7. LockType'
    BY <1>2, <1>6 DEF LockInv, LockType, Inboxes
  <1>8. DeadInv'
    BY <1>2, <1>6 DEF DeadInv
  <1> QED BY <1>6, <1>7, <1>8 DEF LockInv

\* The exit handler: it hands the lock on when the dead worker held it, and
\* tells the workers who leads.
LEMMA WorkerExitLock ==
  ASSUME LockInv, NEW w \in Worker, WorkerExit(w)
  PROVE  LockInv'
  <1> DEFINE held == holder # None /\ holder[1] = w
             g == IF held THEN NextGrant(queue) ELSE [holder |-> holder, queue |-> queue]
             left == active \ {w}
             lead1 == ElectedLeader(left, leader)
             granted == IF held THEN Grant(toWorker, g.holder) ELSE toWorker
             ws == left \cap alive
             sent1 == Announce(granted, ws, lead1)
             n == forked + 1
             lead2 == ElectedLeader(left \cup {n}, lead1)
             ws2 == ws \cup {n}
             sent2 == Announce(sent1, ws2, lead2)
  <1>1. /\ w \notin alive
        /\ toPrimary[w] = <<>>
        /\ holder' = g.holder
        /\ queue' = QueueOf(g.queue, {t \in DOMAIN g.queue : g.queue[t][1] # w})
        /\ \/ n \in Worker /\ alive' = alive \cup {n} /\ toWorker' = sent2
           \/ alive' = alive /\ toWorker' = sent1
        /\ UNCHANGED <<arrivals, toPrimary, pending, inside, issued>>
    BY DEF WorkerExit, history
  <1>2. /\ g.holder \in Claim \cup {None}
        /\ DOMAIN g.queue \subseteq Nat
        /\ \A t \in DOMAIN g.queue : g.queue[t] \in Claim
    BY NextGrantType DEF LockInv, LockType
  <1>3. toWorker \in Inboxes /\ alive \subseteq Worker
    BY DEF LockInv, LockType, Inboxes
  <1>4. /\ granted \in Inboxes
        /\ \A v \in Worker : Token(v, g.holder, granted[v], toPrimary[v], inside[v])
        /\ \A v \in Worker \ alive : inside[v] = {} /\ granted[v] = <<>>
    <2>1. CASE ~held
      BY <1>3, <2>1 DEF LockInv, TokenInv, DeadInv
    <2>2. CASE held
      <3>1. \A v \in Worker : /\ Grants(toWorker[v]) = {} /\ inside[v] = {}
                              /\ Releases(toPrimary[v]) = {}
        <4>1. ASSUME NEW v \in Worker, v # w
              PROVE  /\ Grants(toWorker[v]) = {} /\ inside[v] = {}
                     /\ Releases(toPrimary[v]) = {}
          BY <2>2, <4>1, OthersHaveNothing DEF LockInv
        <4>2. /\ Grants(toWorker[w]) = {} /\ inside[w] = {}
              /\ Releases(toPrimary[w]) = {}
          BY <1>1 DEF LockInv, DeadInv, Grants, Releases
        <4> QED BY <4>1, <4>2
      <3>2. \A v \in Worker \ alive : toWorker[v] = <<>>
        BY DEF LockInv, DeadInv
      <3>3. g.holder \in Claim \cup {None} /\ granted = Grant(toWorker, g.holder)
        BY <1>2, <2>2
      <3> HIDE DEF g, granted
      <3>4. ASSUME NEW v \in Worker
            PROVE  /\ Grant(toWorker, g.holder) \in Inboxes
                   /\ Token(v, g.holder, Grant(toWorker, g.holder)[v], toPrimary[v], {})
                   /\ v \notin alive => Grant(toWorker, g.holder)[v] = <<>>
        <4>1. /\ Releases(toPrimary[v]) = {}
              /\ \A u \in Worker : Grants(toWorker[u]) = {}
          BY <3>1
        <4> QED BY <1>3, <3>2, <3>3, <4>1, GrantToken, Zenon
      <3>5. \A v \in Worker : inside[v] = {}
        BY <3>1
      <3> QED BY <3>3, <3>4, <3>5
    <2> QED BY <2>1, <2>2
  <1> HIDE DEF g, granted, left, lead1, lead2
  <1>5. /\ NoNewGrants(granted, sent1)
        /\ \A v \in Worker \ ws : sent1[v] = granted[v]
    BY <1>4, AnnounceQuiet
  <1>6. sent1 \in Inboxes
    BY <1>5 DEF NoNewGrants
  <1> HIDE DEF sent1, ws2
  <1>7. /\ NoNewGrants(sent1, sent2)
        /\ \A v \in Worker \ ws2 : sent2[v] = sent1[v]
    BY <1>6, AnnounceQuiet
  <1>8. NoNewGrants(granted, sent2)
    BY <1>5, <1>7 DEF NoNewGrants
  <1>9. ws \subseteq alive /\ ws2 = ws \cup {n}
    BY DEF ws2
  <1> HIDE DEF sent2, ws, n
  <1>10. /\ NoNewGrants(granted, toWorker')
         /\ \A v \in Worker \ alive' : toWorker'[v] = granted[v]
    BY <1>1, <1>5, <1>7, <1>8, <1>9
  <1>11. /\ \A v \in Worker : Token(v, holder', granted[v], toPrimary'[v], inside'[v])
         /\ \A v \in Worker \ alive' : inside'[v] = {} /\ granted[v] = <<>>
    BY <1>1, <1>4
  <1>12. /\ TokenInv'
         /\ \A v \in Worker \ alive' : inside'[v] = {} /\ toWorker'[v] = <<>>
         /\ toWorker' \in Inboxes
    BY <1>10, <1>11, QuietStep, Zenon
  <1>13. /\ DOMAIN queue' \subseteq Nat
         /\ \A t \in DOMAIN queue' : queue'[t] \in Claim
    BY <1>1, <1>2 DEF QueueOf
  <1>14. LockType'
    BY <1>1, <1>2, <1>12, <1>13 DEF LockInv, LockType, Inboxes
  <1>15. DeadInv'
    BY <1>12, Zenon DEF DeadInv
  <1> QED BY <1>12, <1>14, <1>15 DEF LockInv

\* A step of one worker: the tokens of the others do not change.
LEMMA OneWorkerStep ==
  ASSUME LockInv, NEW w \in Worker, UNCHANGED holder,
         \A v \in Worker \ {w} : /\ toWorker'[v] = toWorker[v]
                                 /\ toPrimary'[v] = toPrimary[v]
                                 /\ inside'[v] = inside[v],
         Token(w, holder, toWorker'[w], toPrimary'[w], inside'[w])
  PROVE  TokenInv'
  <1>1. ASSUME NEW v \in Worker
        PROVE  Token(v, holder', toWorker'[v], toPrimary'[v], inside'[v])
    <2>1. CASE v = w
      BY <2>1
    <2>2. CASE v # w
      <3>1. Token(v, holder, toWorker[v], toPrimary[v], inside[v])
        BY DEF LockInv, TokenInv
      <3>2. toWorker'[v] = toWorker[v] /\ toPrimary'[v] = toPrimary[v] /\ inside'[v] = inside[v]
        BY <2>2
      <3> QED BY <3>1, <3>2
    <2> QED BY <2>1, <2>2
  <1> QED BY <1>1 DEF TokenInv

LEMMA AcquireLock ==
  ASSUME LockInv, NEW w \in Worker, Acquire(w)
  PROVE  LockInv'
  <1> DEFINE m == [type |-> "ACQUIRE", req |-> issued + 1]
             p == toPrimary[w]
  <1>1. /\ issued \in 0 .. MaxRequests /\ issued < MaxRequests
        /\ issued' = issued + 1
        /\ pending' = [pending EXCEPT ![w] = @ \cup {issued + 1}]
        /\ toPrimary' = [toPrimary EXCEPT ![w] = Append(p, m)]
        /\ UNCHANGED <<holder, queue, arrivals, toWorker, alive, inside>>
    BY DEF Acquire, LockInv, LockType, primaryVars
  <1>2. issued + 1 \in Request
    BY <1>1 DEF Request
  <1>3. m \in ToPrimaryMsg /\ m.type # "RELEASE"
    BY <1>2 DEF ToPrimaryMsg
  <1>4. p \in Seq(ToPrimaryMsg)
    BY DEF LockInv, LockType
  <1> HIDE DEF m, p
  <1>5. Append(p, m) \in Seq(ToPrimaryMsg) /\ Releases(Append(p, m)) = Releases(p)
    BY <1>3, <1>4, AppendMessage
  <1>6. LockType'
    BY <1>1, <1>2, <1>5 DEF LockInv, LockType
  <1>7. Token(w, holder, toWorker[w], Append(p, m), inside[w])
    BY <1>5 DEF LockInv, TokenInv, Token, p
  <1>8. TokenInv'
    <2>1. toPrimary'[w] = Append(p, m) /\ \A v \in Worker \ {w} : toPrimary'[v] = toPrimary[v]
      BY <1>1 DEF LockInv, LockType
    <2> QED BY <1>1, <1>7, <2>1, OneWorkerStep
  <1>9. DeadInv'
    BY <1>1 DEF LockInv, DeadInv
  <1> QED BY <1>6, <1>8, <1>9 DEF LockInv

LEMMA ReleaseLock ==
  ASSUME LockInv, NEW w \in Worker, NEW r \in Request, Release(w, r)
  PROVE  LockInv'
  <1> DEFINE m == [type |-> "RELEASE"]
             p == toPrimary[w]
  <1>1. /\ r \in inside[w]
        /\ inside' = [inside EXCEPT ![w] = @ \ {r}]
        /\ toPrimary' = [toPrimary EXCEPT ![w] = Append(p, m)]
        /\ UNCHANGED <<holder, queue, arrivals, toWorker, alive, pending, issued>>
    BY DEF Release, primaryVars, history
  <1>2. m \in ToPrimaryMsg /\ m.type = "RELEASE" /\ p \in Seq(ToPrimaryMsg)
    BY DEF ToPrimaryMsg, LockInv, LockType
  <1> HIDE DEF m
  <1>3. Append(p, m) \in Seq(ToPrimaryMsg) /\ Releases(Append(p, m)) = Releases(p) \cup {Len(p) + 1}
    BY <1>2, AppendMessage
  <1>4. LockType'
    BY <1>1, <1>3 DEF LockInv, LockType
  <1>5. Token(w, holder, toWorker[w], p, inside[w])
    BY DEF LockInv, TokenInv
  <1>6. /\ Releases(p) = {} /\ Grants(toWorker[w]) = {}
        /\ holder # None /\ holder[1] = w /\ inside[w] \ {r} = {}
    BY <1>1, <1>5 DEF Token
  <1>7. Token(w, holder, toWorker[w], Append(p, m), {})
    BY <1>3, <1>6 DEF Token
  <1>8. TokenInv'
    <2>1. /\ toPrimary'[w] = Append(p, m) /\ inside'[w] = {}
          /\ \A v \in Worker \ {w} : toPrimary'[v] = toPrimary[v] /\ inside'[v] = inside[v]
      BY <1>1, <1>6 DEF LockInv, LockType
    <2> QED BY <1>1, <1>7, <2>1, OneWorkerStep
  <1>9. DeadInv'
    BY <1>1 DEF LockInv, LockType, DeadInv
  <1> QED BY <1>4, <1>8, <1>9 DEF LockInv

\* The caller that waits for the grant goes in with it.
LEMMA WorkerReceiveLock ==
  ASSUME LockInv, NEW w \in Worker, WorkerReceive(w)
  PROVE  LockInv'
  <1> DEFINE s == toWorker[w]
             msg == Head(s)
  <1>1. /\ w \in alive /\ s # <<>>
        /\ toWorker' = [toWorker EXCEPT ![w] = Tail(s)]
        /\ UNCHANGED <<holder, queue, arrivals, toPrimary, alive, issued>>
    BY DEF WorkerReceive, primaryVars, history
  <1>2. s \in Seq(ToWorkerMsg) /\ Token(w, holder, s, toPrimary[w], inside[w])
    BY DEF LockInv, LockType, TokenInv
  <1>3. Tail(s) \in Seq(ToWorkerMsg) /\ msg \in ToWorkerMsg
    BY <1>1, <1>2, TakeMessage
  <1>4. /\ Token(w, holder, Tail(s), toPrimary[w], inside[w])
        /\ msg.type = "GRANTED" =>
               /\ holder # None /\ holder[1] = w /\ holder[2] = msg.req
               /\ Grants(Tail(s)) = {} /\ inside[w] = {}
               /\ Releases(toPrimary[w]) = {}
    <2>1. s # <<>>
      BY <1>1
    <2> HIDE DEF s
    <2>2. Token(w, holder, Tail(s), toPrimary[w], inside[w])
      BY <1>2, <2>1, TakeFromInbox, Zenon
    <2>3. Head(s).type = "GRANTED" =>
               /\ holder # None /\ holder[1] = w /\ holder[2] = Head(s).req
               /\ Grants(Tail(s)) = {}
               /\ inside[w] = {}
               /\ Releases(toPrimary[w]) = {}
      BY <1>2, <2>1, TakeFromInbox, ZenonT(60)
    <2> QED BY <2>2, <2>3
  <1>5. /\ toWorker'[w] = Tail(s)
        /\ \A v \in Worker \ {w} : toWorker'[v] = toWorker[v]
        /\ toWorker' \in [Worker -> Seq(ToWorkerMsg)]
    BY <1>1, <1>3 DEF LockInv, LockType
  <1>6. \/ UNCHANGED <<pending, inside>>
        \/ /\ msg.type = "GRANTED"
           /\ pending' = [pending EXCEPT ![w] = @ \ {msg.req}]
           /\ inside' = [inside EXCEPT ![w] = @ \cup {msg.req}]
    BY DEF WorkerReceive, ReceiveGrant, ReceiveLeader, ReceiveShutdown
  <1> HIDE DEF s, msg
  <1>7. CASE UNCHANGED <<pending, inside>>
    <2>1. LockType'
      BY <1>1, <1>5, <1>7 DEF LockInv, LockType
    <2>2. TokenInv'
      BY <1>1, <1>4, <1>5, <1>7, OneWorkerStep
    <2>3. DeadInv'
      BY <1>1, <1>5, <1>7 DEF LockInv, DeadInv
    <2> QED BY <2>1, <2>2, <2>3 DEF LockInv
  <1>8. CASE /\ msg.type = "GRANTED"
             /\ pending' = [pending EXCEPT ![w] = @ \ {msg.req}]
             /\ inside' = [inside EXCEPT ![w] = @ \cup {msg.req}]
    <2>1. msg.req \in Request
      BY <1>3, <1>8 DEF ToWorkerMsg
    <2>2. LockType'
      BY <1>1, <1>5, <1>8, <2>1 DEF LockInv, LockType
    <2>3. Token(w, holder, Tail(s), toPrimary[w], {msg.req})
      BY <1>4, <1>8 DEF Token
    <2>4. /\ inside'[w] = {msg.req}
          /\ \A v \in Worker \ {w} : inside'[v] = inside[v]
      BY <1>4, <1>8 DEF LockInv, LockType
    <2>5. TokenInv'
      BY <1>1, <1>5, <2>3, <2>4, OneWorkerStep
    <2>6. DeadInv'
      BY <1>1, <1>5, <2>4 DEF LockInv, DeadInv
    <2> QED BY <2>2, <2>5, <2>6 DEF LockInv
  <1> QED BY <1>6, <1>7, <1>8

\* A process that ends takes its part of the lock with it, except for a
\* release that is on its way.
LEMMA DieLock ==
  ASSUME LockInv, NEW w \in Worker, Die(w)
  PROVE  LockInv'
  <1>1. /\ alive' = alive \ {w}
        /\ pending' = [pending EXCEPT ![w] = {}]
        /\ inside' = [inside EXCEPT ![w] = {}]
        /\ toWorker' = [toWorker EXCEPT ![w] = <<>>]
        /\ UNCHANGED <<holder, queue, arrivals, toPrimary, issued>>
    BY DEF Die, primaryVars
  <1>2. LockType'
    BY <1>1 DEF LockInv, LockType
  <1>3. /\ inside'[w] = {} /\ toWorker'[w] = <<>>
        /\ \A v \in Worker \ {w} : inside'[v] = inside[v] /\ toWorker'[v] = toWorker[v]
    BY <1>1 DEF LockInv, LockType
  <1>4. Grants(<<>>) = {}
    BY DEF Grants
  <1>5. Token(w, holder, <<>>, toPrimary[w], {})
    BY <1>4 DEF LockInv, TokenInv, Token
  <1>6. TokenInv'
    BY <1>1, <1>3, <1>5, OneWorkerStep
  <1>7. DeadInv'
    BY <1>1, <1>3 DEF LockInv, DeadInv
  <1> QED BY <1>2, <1>6, <1>7 DEF LockInv

-----------------------------------------------------------------------------
(* The theorem *)

LEMMA NextLock == LockInv /\ [Next]_vars => LockInv'
  <1> SUFFICES ASSUME LockInv, [Next]_vars PROVE LockInv'
    OBVIOUS
  <1>1. ASSUME NEW w \in Worker, PrimaryReceive(w) PROVE LockInv'
    BY <1>1, PrimaryReceiveLock
  <1>2. ASSUME NEW w \in Worker, WorkerExit(w) PROVE LockInv'
    BY <1>2, WorkerExitLock
  <1>3. ASSUME NEW w \in Worker, Acquire(w) PROVE LockInv'
    BY <1>3, AcquireLock
  <1>4. ASSUME NEW w \in Worker, WorkerReceive(w) PROVE LockInv'
    BY <1>4, WorkerReceiveLock
  <1>5. ASSUME NEW w \in Worker, NEW r \in Request, RequestTimeout(w, r) PROVE LockInv'
    <2>1. /\ pending' = [pending EXCEPT ![w] = @ \ {r}]
          /\ UNCHANGED <<holder, queue, arrivals, toPrimary, toWorker, alive, inside, issued>>
      BY <1>5 DEF RequestTimeout, primaryVars
    <2> QED BY <2>1 DEF LockInv, LockType, TokenInv, DeadInv
  <1>6. ASSUME NEW w \in Worker, NEW r \in Request, Release(w, r) PROVE LockInv'
    BY <1>6, ReleaseLock
  <1>7. ASSUME NEW w \in Worker, Crash(w) PROVE LockInv'
    BY <1>7, DieLock DEF Crash
  <1>8. ASSUME NEW w \in Worker, DrainExit(w) PROVE LockInv'
    BY <1>8, DieLock DEF DrainExit
  <1>9. ASSUME NEW r \in Request, Disconnect(r) PROVE LockInv'
    BY <1>9 DEF Disconnect, primaryVars, history, LockInv, LockType, TokenInv, DeadInv
  <1>10. CASE MasterShutdown
    BY <1>10, MasterShutdownLock
  <1>11. CASE UNCHANGED vars
    BY <1>11 DEF vars, primaryVars, workerVars, history, LockInv, LockType, TokenInv, DeadInv
  <1> QED
    BY <1>1, <1>2, <1>3, <1>4, <1>5, <1>6, <1>7, <1>8, <1>9, <1>10, <1>11
       DEF Next, WorkerStep

\* Over all worker processes at most one request is between the grant of the
\* sequence lock and its release, whatever times out, dies or is forked
\* meanwhile: withSequenceLock builds one transaction at a time.
THEOREM LockIsExclusive == Spec => []MutualExclusion
  <1>1. LockInv => MutualExclusion
    <2> SUFFICES ASSUME LockInv, NEW v \in Worker, NEW w \in Worker,
                        NEW r \in inside[v], NEW s \in inside[w]
                 PROVE  <<v, r>> = <<w, s>>
      BY DEF MutualExclusion
    <2>1. holder[1] = v /\ holder[2] = r
      BY DEF LockInv, TokenInv, Token
    <2>2. holder[1] = w /\ holder[2] = s
      BY DEF LockInv, TokenInv, Token
    <2> QED BY <2>1, <2>2
  <1> QED BY <1>1, InitLock, NextLock, PTL DEF Spec

-----------------------------------------------------------------------------
(* Exited workers, and the leader *)

\* What the primary knows of is active: the live workers, those it still has
\* messages of, and those with a claim to the lock.
ActiveInv ==
    /\ active \subseteq Worker
    /\ alive \subseteq active
    /\ \A w \in Worker : toPrimary[w] # <<>> => w \in active
    /\ ExitedHoldNothing

\* A worker is told to lead.
Says(s) == \E i \in DOMAIN s : s[i].type = "LEADER" /\ s[i].isLeader

\* A worker that leads, or will when it has read its messages, is alive and is
\* the primary's choice: the choice cannot change before the worker exits.
LeaderInv ==
    /\ leader \in Worker \cup {None}
    /\ isLeader \in [Worker -> BOOLEAN]
    /\ \A w \in Worker : isLeader[w] \/ Says(toWorker[w]) => w \in alive /\ w = leader

\* The types of the variables that the lock does not depend on.
RestType ==
    /\ shutting \in BOOLEAN
    /\ forked \in 0 .. MaxWorkers
    /\ conn \subseteq Request
    /\ draining \subseteq Worker
    /\ timedOut \subseteq Request
    /\ cutShort \subseteq Request
    /\ queue \in [DOMAIN queue -> Claim]
    /\ DOMAIN queue \subseteq 1 .. arrivals

\* The requests whose ACQUIRE message the primary has not read.
Acquires(s) == {i \in DOMAIN s : s[i].type = "ACQUIRE"}
Unread(chans) ==
    {r \in Request : \E w \in Worker : \E i \in Acquires(chans[w]) : chans[w][i].req = r}

\* A request asks once, so no more claims are queued than requests were made.
CountInv ==
    /\ \A v, w \in Worker :
         \A i \in Acquires(toPrimary[v]), j \in Acquires(toPrimary[w]) :
           toPrimary[v][i].req = toPrimary[w][j].req => v = w /\ i = j
    /\ \A w \in Worker : \A i \in Acquires(toPrimary[w]) : toPrimary[w][i].req <= issued
    /\ arrivals + Cardinality(Unread(toPrimary)) <= issued

\* Whom the primary elects.
LEMMA Elected ==
  ASSUME NEW ws, ws \subseteq Worker, NEW cur
  PROVE  /\ ElectedLeader(ws, cur) \in ws \cup {None}
         /\ cur \in ws => ElectedLeader(ws, cur) = cur
         /\ ws = {} => ElectedLeader(ws, cur) = None
         /\ ws # {} => ElectedLeader(ws, cur) \in ws
  <1>1. CASE ws = {} \/ cur \in ws
    BY <1>1 DEF ElectedLeader
  <1>2. CASE ws # {} /\ cur \notin ws
    <2>1. ws \subseteq Nat
      BY DEF Worker
    <2>2. \E x \in ws : \A y \in ws : x <= y
      BY <1>2, <2>1, LeastExists
    <2> QED BY <1>2, <2>2 DEF ElectedLeader
  <1> QED BY <1>1, <1>2

\* processNextLockRequest takes the claim of a live worker from the queue, and
\* drops nothing but claims before it.
LEMMA NextGrantFrom ==
  ASSUME NEW q, DOMAIN q \subseteq Nat, \A t \in DOMAIN q : q[t] \in Claim
  PROVE  /\ NextGrant(q).holder # None =>
              /\ NextGrant(q).holder[1] \in alive
              /\ \E t \in DOMAIN q : NextGrant(q).holder = q[t]
         /\ DOMAIN NextGrant(q).queue \subseteq DOMAIN q
         /\ NextGrant(q).queue \in [DOMAIN NextGrant(q).queue -> Claim]
         /\ \A t \in DOMAIN NextGrant(q).queue : NextGrant(q).queue[t] = q[t]
  <1> DEFINE live == {i \in DOMAIN q : q[i][1] \in alive}
  <1>1. CASE live = {}
    BY <1>1 DEF NextGrant, QueueOf
  <1>2. CASE live # {}
    <2> DEFINE i == CHOOSE j \in live : \A k \in live : j <= k
               K == {k \in DOMAIN q : k > i}
    <2>1. \E x \in live : \A y \in live : x <= y
      BY <1>2, LeastExists
    <2>2. i \in live
      <3> HIDE DEF live
      <3> QED BY <2>1
    <2>3. NextGrant(q) = [holder |-> q[i], queue |-> QueueOf(q, K)]
      BY <1>2 DEF NextGrant
    <2>4. K \subseteq DOMAIN q
      OBVIOUS
    <2>5. i \in DOMAIN q /\ q[i][1] \in alive
      BY <2>2
    <2> HIDE DEF i, K
    <2> QED BY <2>3, <2>4, <2>5 DEF QueueOf
  <1> QED BY <1>1, <1>2

\* Every claim of q and h is of a worker of ws.
ClaimsOf(q, h, ws) ==
    /\ \A t \in DOMAIN q : q[t][1] \in ws
    /\ h # None => h[1] \in ws

LEMMA ClaimsAreActive == ExitedHoldNothing <=> ClaimsOf(queue, holder, active)
  BY DEF ExitedHoldNothing, ClaimsOf

LEMMA PrimaryReceiveActive ==
  ASSUME LockInv, ActiveInv, NEW w \in Worker, PrimaryReceive(w)
  PROVE  ActiveInv'
  <1> DEFINE msg == Head(toPrimary[w])
  <1>1. /\ toPrimary[w] # <<>>
        /\ toPrimary' = [toPrimary EXCEPT ![w] = Tail(@)]
        /\ HandleAcquire(w, msg) \/ HandleRelease(w, msg)
        /\ UNCHANGED <<active, alive>>
    BY DEF PrimaryReceive, workerVars
  <1>2. w \in active /\ ClaimsOf(queue, holder, active)
        /\ DOMAIN queue \subseteq Nat /\ \A t \in DOMAIN queue : queue[t] \in Claim
    BY <1>1, ClaimsAreActive DEF ActiveInv, LockInv, LockType
  <1> HIDE DEF msg
  <1>3. ClaimsOf(queue', holder', active')
    <2>1. CASE HandleAcquire(w, msg) /\ holder = None
      BY <1>1, <1>2, <2>1 DEF HandleAcquire, ClaimsOf
    <2>2. CASE HandleAcquire(w, msg) /\ holder # None
      <3>1. /\ queue' = [t \in DOMAIN queue \cup {arrivals + 1} |->
                           IF t = arrivals + 1 THEN <<w, msg.req>> ELSE queue[t]]
            /\ holder' = holder
        BY <2>2 DEF HandleAcquire
      <3> QED BY <1>1, <1>2, <3>1 DEF ClaimsOf
    <2>3. CASE HandleRelease(w, msg) /\ holder # None /\ holder[1] = w
      <3>1. holder' = NextGrant(queue).holder /\ queue' = NextGrant(queue).queue
        BY <2>3 DEF HandleRelease
      <3>2. /\ NextGrant(queue).holder # None => NextGrant(queue).holder[1] \in alive
            /\ DOMAIN NextGrant(queue).queue \subseteq DOMAIN queue
            /\ \A t \in DOMAIN NextGrant(queue).queue : NextGrant(queue).queue[t] = queue[t]
        BY <1>2, NextGrantFrom
      <3> QED BY <1>1, <1>2, <3>1, <3>2 DEF ClaimsOf, ActiveInv
    <2>4. CASE HandleRelease(w, msg) /\ ~(holder # None /\ holder[1] = w)
      BY <1>1, <1>2, <2>4 DEF HandleRelease, ClaimsOf
    <2> QED BY <1>1, <2>1, <2>2, <2>3, <2>4
  <1>4. ExitedHoldNothing'
    BY <1>3 DEF ExitedHoldNothing, ClaimsOf
  <1>5. \A v \in Worker : toPrimary'[v] # <<>> => v \in active
    BY <1>1, <1>2 DEF ActiveInv, LockInv, LockType
  <1> QED BY <1>1, <1>4, <1>5 DEF ActiveInv

LEMMA WorkerExitActive ==
  ASSUME LockInv, ActiveInv, NEW w \in Worker, WorkerExit(w)
  PROVE  ActiveInv'
  <1> DEFINE held == holder # None /\ holder[1] = w
             g == IF held THEN NextGrant(queue) ELSE [holder |-> holder, queue |-> queue]
             left == active \ {w}
             n == forked + 1
  <1>1. /\ w \notin alive
        /\ toPrimary[w] = <<>>
        /\ holder' = g.holder
        /\ queue' = QueueOf(g.queue, {t \in DOMAIN g.queue : g.queue[t][1] # w})
        /\ \/ n \in Worker /\ alive' = alive \cup {n} /\ active' = left \cup {n}
           \/ alive' = alive /\ active' = left
        /\ toPrimary' = toPrimary
    BY DEF WorkerExit
  <1>2. ClaimsOf(queue, holder, active)
        /\ DOMAIN queue \subseteq Nat /\ \A t \in DOMAIN queue : queue[t] \in Claim
    BY ClaimsAreActive DEF ActiveInv, LockInv, LockType
  <1>3. /\ g.holder # None => g.holder[1] \in left
        /\ \A t \in DOMAIN g.queue : t \in DOMAIN queue /\ g.queue[t] = queue[t]
    <2>1. CASE held
      BY <1>1, <1>2, <2>1, NextGrantFrom DEF ActiveInv
    <2>2. CASE ~held
      BY <1>2, <2>2 DEF ClaimsOf
    <2> QED BY <2>1, <2>2
  <1> HIDE DEF g
  <1>4. ClaimsOf(queue', holder', active')
    <2>1. \A t \in DOMAIN queue' : queue'[t] = queue[t] /\ t \in DOMAIN queue /\ queue[t][1] # w
      BY <1>1, <1>3 DEF QueueOf
    <2>2. \A t \in DOMAIN queue' : queue'[t][1] \in left
      BY <1>2, <2>1 DEF ClaimsOf
    <2> QED BY <1>1, <1>3, <2>2 DEF ClaimsOf
  <1>5. ExitedHoldNothing'
    BY <1>4 DEF ExitedHoldNothing, ClaimsOf
  <1> QED BY <1>1, <1>5 DEF ActiveInv

\* A step of a worker, live or dying, leaves the claims as they are.
LEMMA WorkerStepActive ==
  ASSUME ActiveInv, UNCHANGED <<active, queue, holder>>, alive' \subseteq alive,
         \A w \in Worker : toPrimary'[w] # <<>> => toPrimary[w] # <<>> \/ w \in alive
  PROVE  ActiveInv'
  <1>1. ExitedHoldNothing'
    BY DEF ActiveInv, ExitedHoldNothing
  <1> QED BY <1>1 DEF ActiveInv

LEMMA NextActive ==
  ASSUME LockInv, ActiveInv, [Next]_vars
  PROVE  ActiveInv'
  <1>1. ASSUME NEW w \in Worker, PrimaryReceive(w) PROVE ActiveInv'
    BY <1>1, PrimaryReceiveActive
  <1>2. ASSUME NEW w \in Worker, WorkerExit(w) PROVE ActiveInv'
    BY <1>2, WorkerExitActive
  <1>3. ASSUME NEW w \in Worker, Acquire(w) PROVE ActiveInv'
    <2>1. \A v \in Worker : v # w => toPrimary'[v] = toPrimary[v]
      BY <1>3 DEF Acquire, LockInv, LockType
    <2> QED BY <1>3, <2>1, WorkerStepActive DEF Acquire, primaryVars
  <1>4. ASSUME NEW w \in Worker, WorkerReceive(w) PROVE ActiveInv'
    BY <1>4, WorkerStepActive DEF WorkerReceive, primaryVars
  <1>5. ASSUME NEW w \in Worker, NEW r \in Request, RequestTimeout(w, r) PROVE ActiveInv'
    BY <1>5, WorkerStepActive DEF RequestTimeout, primaryVars
  <1>6. ASSUME NEW w \in Worker, NEW r \in Request, Release(w, r) PROVE ActiveInv'
    <2>1. \A v \in Worker : v # w => toPrimary'[v] = toPrimary[v]
      BY <1>6 DEF Release, LockInv, LockType
    <2>2. w \in alive
      BY <1>6 DEF Release, LockInv, DeadInv
    <2> QED BY <1>6, <2>1, <2>2, WorkerStepActive DEF Release, primaryVars
  <1>7. ASSUME NEW w \in Worker, Die(w) PROVE ActiveInv'
    BY <1>7, WorkerStepActive DEF Die, primaryVars
  <1>8. ASSUME NEW r \in Request, Disconnect(r) PROVE ActiveInv'
    BY <1>8, WorkerStepActive DEF Disconnect, primaryVars
  <1>9. CASE MasterShutdown
    BY <1>9, WorkerStepActive DEF MasterShutdown, workerVars
  <1>10. CASE UNCHANGED vars
    BY <1>10, WorkerStepActive DEF vars, primaryVars, workerVars
  <1> QED
    BY <1>1, <1>2, <1>3, <1>4, <1>5, <1>6, <1>7, <1>8, <1>9, <1>10
       DEF Next, WorkerStep, Crash, DrainExit

-----------------------------------------------------------------------------
(* Who is told to lead *)

LEMMA SaysAppend ==
  ASSUME NEW s \in Seq(ToWorkerMsg), NEW m \in ToWorkerMsg, Says(Append(s, m))
  PROVE  Says(s) \/ (m.type = "LEADER" /\ m.isLeader)
  <1>1. PICK i \in DOMAIN Append(s, m) :
          Append(s, m)[i].type = "LEADER" /\ Append(s, m)[i].isLeader
    BY DEF Says
  <1>2. /\ \A j \in DOMAIN s : Append(s, m)[j] = s[j]
        /\ Append(s, m)[Len(s) + 1] = m
    BY AppendMessage
  <1>3. i \in DOMAIN s \/ i = Len(s) + 1
    BY <1>1
  <1> QED BY <1>1, <1>2, <1>3 DEF Says

LEMMA SaysTail ==
  ASSUME NEW s \in Seq(ToWorkerMsg), s # <<>>
  PROVE  /\ Says(Tail(s)) => Says(s)
         /\ Head(s).type = "LEADER" /\ Head(s).isLeader => Says(s)
  <1>1. /\ Head(s) = s[1] /\ 1 \in DOMAIN s
        /\ \A i \in DOMAIN Tail(s) : i + 1 \in DOMAIN s /\ Tail(s)[i] = s[i + 1]
    BY TakeMessage
  <1> QED BY <1>1 DEF Says

\* The grant of the lock says nothing of the leader.
LEMMA SaysGrant ==
  ASSUME NEW chan \in Inboxes, NEW claim \in Claim \cup {None}, NEW w \in Worker,
         Says(Grant(chan, claim)[w])
  PROVE  Says(chan[w])
  <1> DEFINE m == [type |-> "GRANTED", req |-> claim[2]]
  <1>1. CASE claim = None \/ claim[1] \notin alive \/ claim[1] # w
    BY <1>1 DEF Grant, Inboxes
  <1>2. CASE claim # None /\ claim[1] \in alive /\ claim[1] = w
    <2>1. m \in ToWorkerMsg /\ m.type # "LEADER" /\ chan[w] \in Seq(ToWorkerMsg)
      BY <1>2 DEF Claim, ToWorkerMsg, Inboxes
    <2>2. Grant(chan, claim)[w] = Append(chan[w], m)
      BY <1>2 DEF Grant, Inboxes
    <2> HIDE DEF m
    <2> QED BY <2>1, <2>2, SaysAppend
  <1> QED BY <1>1, <1>2

LEMMA GrantInbox ==
  ASSUME NEW chan \in Inboxes, NEW claim \in Claim \cup {None}
  PROVE  Grant(chan, claim) \in Inboxes
  <1> DEFINE m == [type |-> "GRANTED", req |-> claim[2]]
  <1>1. CASE claim = None \/ claim[1] \notin alive
    BY <1>1 DEF Grant
  <1>2. CASE claim # None /\ claim[1] \in alive
    <2>1. m \in ToWorkerMsg /\ claim[1] \in Worker
      BY <1>2 DEF Claim, ToWorkerMsg
    <2>2. Grant(chan, claim) = [chan EXCEPT ![claim[1]] = Append(@, m)]
      BY <1>2 DEF Grant
    <2> HIDE DEF m
    <2> QED BY <2>1, <2>2 DEF Inboxes
  <1> QED BY <1>1, <1>2

LEMMA SaysBroadcast ==
  ASSUME NEW chan \in Inboxes, NEW ws, NEW msg,
         \A v \in Worker : msg[v] \in ToWorkerMsg,
         NEW w \in Worker, Says(Broadcast(chan, ws, msg)[w])
  PROVE  Says(chan[w]) \/ (w \in ws /\ msg[w].type = "LEADER" /\ msg[w].isLeader)
  <1>1. CASE w \notin ws
    BY <1>1 DEF Broadcast
  <1>2. CASE w \in ws
    <2>1. Broadcast(chan, ws, msg)[w] = Append(chan[w], msg[w])
      BY <1>2 DEF Broadcast
    <2>2. chan[w] \in Seq(ToWorkerMsg) /\ msg[w] \in ToWorkerMsg
      BY DEF Inboxes
    <2> QED BY <1>2, <2>1, <2>2, SaysAppend
  <1> QED BY <1>1, <1>2

LEMMA SaysAnnounce ==
  ASSUME NEW chan \in Inboxes, NEW ws, NEW lead, NEW w \in Worker,
         Says(Announce(chan, ws, lead)[w])
  PROVE  Says(chan[w]) \/ (w \in ws /\ w = lead)
  <1> DEFINE msg == [v \in Worker |-> [type |-> "LEADER", isLeader |-> v = lead]]
  <1>1. \A v \in Worker : msg[v] \in ToWorkerMsg
    BY DEF ToWorkerMsg
  <1>2. Announce(chan, ws, lead) = Broadcast(chan, ws, msg)
    BY DEF Announce
  <1>3. msg[w].isLeader => w = lead
    OBVIOUS
  <1> HIDE DEF msg
  <1>4. Says(chan[w]) \/ (w \in ws /\ msg[w].type = "LEADER" /\ msg[w].isLeader)
    BY <1>1, <1>2, SaysBroadcast
  <1> QED BY <1>3, <1>4

\* A step that elects nobody and tells nobody to lead.
LEMMA NoElection ==
  ASSUME LeaderInv, UNCHANGED <<leader, alive, isLeader>>,
         \A w \in Worker : Says(toWorker'[w]) => Says(toWorker[w])
  PROVE  LeaderInv'
  BY DEF LeaderInv

LEMMA PrimaryReceiveLeader ==
  ASSUME LockInv, LeaderInv, NEW w \in Worker, PrimaryReceive(w)
  PROVE  LeaderInv'
  <1> DEFINE msg == Head(toPrimary[w])
  <1>1. /\ toPrimary[w] # <<>>
        /\ HandleAcquire(w, msg) \/ HandleRelease(w, msg)
        /\ UNCHANGED <<leader, alive, isLeader>>
    BY DEF PrimaryReceive, workerVars
  <1>2. /\ toWorker \in Inboxes
        /\ DOMAIN queue \subseteq Nat /\ \A t \in DOMAIN queue : queue[t] \in Claim
        /\ msg \in ToPrimaryMsg
    BY <1>1, TakeMessage DEF LockInv, LockType, Inboxes
  <1> HIDE DEF msg
  <1>3. toWorker' = toWorker \/ \E c \in Claim \cup {None} : toWorker' = Grant(toWorker, c)
    <2>1. CASE HandleAcquire(w, msg)
      <3>1. msg.req \in Request
        BY <1>2, <2>1 DEF HandleAcquire, ToPrimaryMsg
      <3> QED BY <2>1, <3>1 DEF HandleAcquire, Claim
    <2>2. CASE HandleRelease(w, msg)
      <3>1. NextGrant(queue).holder \in Claim \cup {None}
        BY <1>2, NextGrantType
      <3> QED BY <2>2, <3>1 DEF HandleRelease
    <2> QED BY <1>1, <2>1, <2>2
  <1>4. \A v \in Worker : Says(toWorker'[v]) => Says(toWorker[v])
    BY <1>2, <1>3, SaysGrant
  <1> QED BY <1>1, <1>4, NoElection

\* The exit handler: the leader stays unless it is the one that exited.
LEMMA WorkerExitLeader ==
  ASSUME LockInv, ActiveInv, LeaderInv, NEW w \in Worker, WorkerExit(w)
  PROVE  LeaderInv'
  <1> DEFINE held == holder # None /\ holder[1] = w
             g == IF held THEN NextGrant(queue) ELSE [holder |-> holder, queue |-> queue]
             left == active \ {w}
             lead1 == ElectedLeader(left, leader)
             granted == IF held THEN Grant(toWorker, g.holder) ELSE toWorker
             ws == left \cap alive
             sent1 == Announce(granted, ws, lead1)
             n == forked + 1
             lead2 == ElectedLeader(left \cup {n}, lead1)
             ws2 == ws \cup {n}
             sent2 == Announce(sent1, ws2, lead2)
  <1>1. /\ w \notin alive
        /\ \/ /\ n \in Worker /\ alive' = alive \cup {n}
              /\ leader' = lead2 /\ toWorker' = sent2
           \/ alive' = alive /\ leader' = lead1 /\ toWorker' = sent1
        /\ UNCHANGED isLeader
    BY DEF WorkerExit
  <1>2. /\ toWorker \in Inboxes
        /\ DOMAIN queue \subseteq Nat /\ \A t \in DOMAIN queue : queue[t] \in Claim
    BY DEF LockInv, LockType, Inboxes
  <1>3. /\ granted \in Inboxes
        /\ \A v \in Worker : Says(granted[v]) => Says(toWorker[v])
    <2>1. CASE held
      <3>1. NextGrant(queue).holder \in Claim \cup {None}
        BY <1>2, NextGrantType
      <3>2. granted = Grant(toWorker, NextGrant(queue).holder)
        BY <2>1
      <3> HIDE DEF granted
      <3> QED BY <1>2, <3>1, <3>2, GrantInbox, SaysGrant
    <2>2. CASE ~held
      BY <1>2, <2>2
    <2> QED BY <2>1, <2>2
  <1>4. left \subseteq Worker /\ alive \subseteq left
    BY <1>1 DEF ActiveInv
  <1>5. /\ lead1 \in left \cup {None}
        /\ leader \in left => lead1 = leader
        /\ left # {} => lead1 \in left
    BY <1>4, Elected
  <1>6. n \in Worker => /\ lead2 \in Worker
                        /\ lead1 \in left => lead2 = lead1
    <2> SUFFICES ASSUME n \in Worker
                 PROVE  lead2 \in Worker /\ (lead1 \in left => lead2 = lead1)
      OBVIOUS
    <2>1. left \cup {n} \subseteq Worker /\ left \cup {n} # {}
      BY <1>4
    <2> HIDE DEF left, n, lead1
    <2> QED BY <2>1, Elected
  <1> HIDE DEF granted, lead1, lead2, g, left, n
  <1>7. sent1 \in Inboxes
    BY <1>3, AnnounceQuiet DEF NoNewGrants
  <1>8. \A v \in Worker : Says(sent1[v]) => Says(granted[v]) \/ (v \in ws /\ v = lead1)
    BY <1>3, SaysAnnounce
  <1> HIDE DEF sent1
  <1>9. \A v \in Worker : Says(sent2[v]) => Says(sent1[v]) \/ (v \in ws2 /\ v = lead2)
    BY <1>7, SaysAnnounce
  <1> HIDE DEF sent2
  \* Whoever leads, or has been told to before the fork, is lead1.
  <1>10. \A v \in Worker : isLeader[v] \/ Says(sent1[v]) => v \in alive /\ v \in left /\ v = lead1
    <2> SUFFICES ASSUME NEW v \in Worker, isLeader[v] \/ Says(sent1[v])
                 PROVE  v \in alive /\ v \in left /\ v = lead1
      OBVIOUS
    <2>1. CASE isLeader[v] \/ Says(toWorker[v])
      BY <1>4, <1>5, <2>1 DEF LeaderInv
    <2>2. CASE v \in ws /\ v = lead1
      BY <2>2
    <2> QED BY <1>3, <1>8, <2>1, <2>2
  <1>11. CASE n \in Worker /\ alive' = alive \cup {n} /\ leader' = lead2 /\ toWorker' = sent2
    <2>1. ASSUME NEW v \in Worker, isLeader[v] \/ Says(sent2[v])
          PROVE  v \in alive' /\ v = lead2
      <3>1. CASE isLeader[v] \/ Says(sent1[v])
        BY <1>6, <1>10, <1>11, <3>1
      <3>2. CASE v \in ws2 /\ v = lead2
        BY <1>11, <3>2
      <3> QED BY <1>9, <2>1, <3>1, <3>2
    <2> QED BY <1>1, <1>6, <1>11, <2>1 DEF LeaderInv
  <1>12. CASE alive' = alive /\ leader' = lead1 /\ toWorker' = sent1
    BY <1>1, <1>4, <1>5, <1>10, <1>12 DEF LeaderInv
  <1> QED BY <1>1, <1>11, <1>12

LEMMA WorkerReceiveLeader ==
  ASSUME LockInv, LeaderInv, NEW w \in Worker, WorkerReceive(w)
  PROVE  LeaderInv'
  <1> DEFINE s == toWorker[w]
             msg == Head(s)
  <1>1. /\ w \in alive /\ s # <<>>
        /\ toWorker' = [toWorker EXCEPT ![w] = Tail(s)]
        /\ ReceiveGrant(w, msg) \/ ReceiveLeader(w, msg) \/ ReceiveShutdown(w, msg)
        /\ UNCHANGED <<leader, alive>>
    BY DEF WorkerReceive, primaryVars
  <1>2. s \in Seq(ToWorkerMsg) /\ toWorker \in [Worker -> Seq(ToWorkerMsg)]
    BY DEF LockInv, LockType
  <1>3. /\ Says(Tail(s)) => Says(s)
        /\ msg.type = "LEADER" /\ msg.isLeader => Says(s)
        /\ msg \in ToWorkerMsg
    BY <1>1, <1>2, SaysTail, TakeMessage
  <1>4. \A v \in Worker : Says(toWorker'[v]) => Says(toWorker[v])
    BY <1>1, <1>2, <1>3
  <1>5. CASE ReceiveLeader(w, msg)
    <2>1. msg.type = "LEADER" /\ isLeader' = [isLeader EXCEPT ![w] = msg.isLeader]
      BY <1>5 DEF ReceiveLeader
    <2>2. msg.isLeader \in BOOLEAN
      BY <1>3, <2>1 DEF ToWorkerMsg
    <2>3. isLeader' \in [Worker -> BOOLEAN]
      BY <2>1, <2>2 DEF LeaderInv
    <2>4. \A v \in Worker : isLeader'[v] => isLeader[v] \/ Says(toWorker[v])
      BY <1>3, <2>1 DEF LeaderInv
    <2> QED BY <1>1, <1>4, <2>3, <2>4 DEF LeaderInv
  <1>6. CASE ~ReceiveLeader(w, msg)
    BY <1>1, <1>4, <1>6, NoElection DEF ReceiveGrant, ReceiveShutdown
  <1> QED BY <1>5, <1>6

LEMMA DieLeader ==
  ASSUME LockInv, LeaderInv, NEW w \in Worker, Die(w)
  PROVE  LeaderInv'
  <1>1. /\ alive' = alive \ {w} /\ leader' = leader
        /\ isLeader' = [isLeader EXCEPT ![w] = FALSE]
        /\ toWorker' = [toWorker EXCEPT ![w] = <<>>]
    BY DEF Die, primaryVars
  <1>2. ~Says(<<>>)
    BY DEF Says
  <1>3. /\ toWorker'[w] = <<>> /\ isLeader'[w] = FALSE
        /\ \A v \in Worker \ {w} : toWorker'[v] = toWorker[v] /\ isLeader'[v] = isLeader[v]
        /\ isLeader' \in [Worker -> BOOLEAN]
    BY <1>1 DEF LockInv, LockType, LeaderInv
  <1> QED BY <1>1, <1>2, <1>3 DEF LeaderInv

LEMMA NextLeader ==
  ASSUME LockInv, ActiveInv, LeaderInv, [Next]_vars
  PROVE  LeaderInv'
  <1>1. ASSUME NEW w \in Worker, PrimaryReceive(w) PROVE LeaderInv'
    BY <1>1, PrimaryReceiveLeader
  <1>2. ASSUME NEW w \in Worker, WorkerExit(w) PROVE LeaderInv'
    BY <1>2, WorkerExitLeader
  <1>3. ASSUME NEW w \in Worker, Acquire(w) PROVE LeaderInv'
    BY <1>3, NoElection DEF Acquire, primaryVars
  <1>4. ASSUME NEW w \in Worker, WorkerReceive(w) PROVE LeaderInv'
    BY <1>4, WorkerReceiveLeader
  <1>5. ASSUME NEW w \in Worker, NEW r \in Request, RequestTimeout(w, r) PROVE LeaderInv'
    BY <1>5, NoElection DEF RequestTimeout, primaryVars
  <1>6. ASSUME NEW w \in Worker, NEW r \in Request, Release(w, r) PROVE LeaderInv'
    BY <1>6, NoElection DEF Release, primaryVars
  <1>7. ASSUME NEW w \in Worker, Die(w) PROVE LeaderInv'
    BY <1>7, DieLeader
  <1>8. ASSUME NEW r \in Request, Disconnect(r) PROVE LeaderInv'
    BY <1>8, NoElection DEF Disconnect, primaryVars
  <1>9. ASSUME MasterShutdown PROVE LeaderInv'
    <2> DEFINE msg == [w \in Worker |-> [type |-> "SHUTDOWN"]]
    <2>1. \A w \in Worker : msg[w] \in ToWorkerMsg /\ msg[w].type # "LEADER"
      BY DEF ToWorkerMsg
    <2>2. toWorker' = Broadcast(toWorker, active \cap alive, msg) /\ toWorker \in Inboxes
      BY <1>9 DEF MasterShutdown, LockInv, LockType, Inboxes
    <2> HIDE DEF msg
    <2>3. \A w \in Worker : Says(toWorker'[w]) => Says(toWorker[w])
      BY <2>1, <2>2, SaysBroadcast
    <2> QED BY <1>9, <2>3, NoElection DEF MasterShutdown, workerVars
  <1>10. CASE UNCHANGED vars
    BY <1>10, NoElection DEF vars, primaryVars, workerVars
  <1> QED
    BY <1>1, <1>2, <1>3, <1>4, <1>5, <1>6, <1>7, <1>8, <1>9, <1>10
       DEF Next, WorkerStep, Crash, DrainExit

-----------------------------------------------------------------------------
(* Counting the claims *)

LEMMA UnreadFinite == \A chans : IsFiniteSet(Unread(chans)) /\ Cardinality(Unread(chans)) \in Nat
  <1> TAKE chans
  <1>1. IsFiniteSet(Request)
    BY FS_Interval DEF Request
  <1>2. Unread(chans) \subseteq Request
    BY DEF Unread
  <1> QED BY <1>1, <1>2, FS_Subset, FS_CardinalityType

\* Steps that send no request.
LEMMA NoRequest ==
  ASSUME CountInv, UNCHANGED <<arrivals, issued>>,
         \A w \in Worker : /\ Acquires(toPrimary'[w]) = Acquires(toPrimary[w])
                           /\ \A i \in Acquires(toPrimary[w]) :
                                toPrimary'[w][i] = toPrimary[w][i]
  PROVE  CountInv'
  <1>1. Unread(toPrimary') = Unread(toPrimary)
    BY DEF Unread
  <1>2. \A v, w \in Worker :
          \A i \in Acquires(toPrimary'[v]), j \in Acquires(toPrimary'[w]) :
            toPrimary'[v][i].req = toPrimary'[w][j].req => v = w /\ i = j
    BY DEF CountInv
  <1>3. \A w \in Worker : \A i \in Acquires(toPrimary'[w]) : toPrimary'[w][i].req <= issued
    BY DEF CountInv
  <1> QED BY <1>1, <1>2, <1>3 DEF CountInv

LEMMA AcquireCount ==
  ASSUME LockInv, CountInv, NEW w \in Worker, Acquire(w)
  PROVE  CountInv'
  <1> DEFINE m == [type |-> "ACQUIRE", req |-> issued + 1]
             p == toPrimary[w]
  <1>1. /\ issued \in 0 .. MaxRequests /\ issued < MaxRequests
        /\ issued' = issued + 1 /\ arrivals' = arrivals /\ arrivals \in Nat
        /\ toPrimary' = [toPrimary EXCEPT ![w] = Append(p, m)]
        /\ toPrimary \in [Worker -> Seq(ToPrimaryMsg)]
    BY DEF Acquire, LockInv, LockType, primaryVars
  <1>2. m \in ToPrimaryMsg /\ m.type = "ACQUIRE" /\ m.req = issued + 1 /\ p \in Seq(ToPrimaryMsg)
    BY <1>1 DEF ToPrimaryMsg, Request
  <1> HIDE DEF m
  <1>3. /\ DOMAIN Append(p, m) = DOMAIN p \cup {Len(p) + 1}
        /\ \A i \in DOMAIN p : Append(p, m)[i] = p[i]
        /\ Append(p, m)[Len(p) + 1] = m
    BY <1>2
  <1>4. /\ toPrimary'[w] = Append(p, m)
        /\ \A v \in Worker : v # w => toPrimary'[v] = toPrimary[v]
    BY <1>1
  \* A message is an old one, or the new one with the new number.
  <1>5. ASSUME NEW v \in Worker, NEW i \in Acquires(toPrimary'[v])
        PROVE  \/ i \in Acquires(toPrimary[v]) /\ toPrimary'[v][i] = toPrimary[v][i]
               \/ v = w /\ i = Len(p) + 1 /\ toPrimary'[v][i].req = issued + 1
    BY <1>2, <1>3, <1>4 DEF Acquires
  <1>6. \A v \in Worker : \A i \in Acquires(toPrimary[v]) :
          toPrimary[v][i].req \in Nat /\ toPrimary[v][i].req < issued + 1
    <2> SUFFICES ASSUME NEW v \in Worker, NEW i \in Acquires(toPrimary[v])
                 PROVE  toPrimary[v][i].req \in Nat /\ toPrimary[v][i].req < issued + 1
      OBVIOUS
    <2>1. toPrimary[v][i] \in ToPrimaryMsg /\ toPrimary[v][i].type = "ACQUIRE"
      BY <1>1 DEF Acquires
    <2>2. toPrimary[v][i].req \in Nat
      BY <2>1 DEF ToPrimaryMsg, Request
    <2>3. toPrimary[v][i].req <= issued
      BY DEF CountInv
    <2> QED BY <1>1, <2>2, <2>3
  <1>7. \A u, v \in Worker :
          \A i \in Acquires(toPrimary'[u]), j \in Acquires(toPrimary'[v]) :
            toPrimary'[u][i].req = toPrimary'[v][j].req => u = v /\ i = j
    <2> SUFFICES ASSUME NEW u \in Worker, NEW v \in Worker,
                        NEW i \in Acquires(toPrimary'[u]), NEW j \in Acquires(toPrimary'[v]),
                        toPrimary'[u][i].req = toPrimary'[v][j].req
                 PROVE  u = v /\ i = j
      OBVIOUS
    <2>1. issued + 1 \in Nat
      BY <1>1
    <2> QED BY <1>5, <1>6, <2>1 DEF CountInv
  <1>8. \A v \in Worker : \A i \in Acquires(toPrimary'[v]) : toPrimary'[v][i].req <= issued'
    <2> SUFFICES ASSUME NEW v \in Worker, NEW i \in Acquires(toPrimary'[v])
                 PROVE  toPrimary'[v][i].req <= issued + 1
      BY <1>1
    <2>1. CASE i \in Acquires(toPrimary[v]) /\ toPrimary'[v][i] = toPrimary[v][i]
      <3>1. toPrimary[v][i].req \in Nat /\ toPrimary[v][i].req < issued + 1
        BY <1>6, <2>1
      <3>2. toPrimary[v][i].req <= issued + 1
        BY <1>1, <3>1
      <3> QED BY <2>1, <3>2
    <2>2. CASE toPrimary'[v][i].req = issued + 1
      <3>1. issued + 1 <= issued + 1
        BY <1>1
      <3> QED BY <2>2, <3>1, Zenon
    <2> QED BY <1>5, <2>1, <2>2
  <1>9. arrivals' + Cardinality(Unread(toPrimary')) <= issued'
    <2>1. Unread(toPrimary') \subseteq Unread(toPrimary) \cup {issued + 1}
      BY <1>5 DEF Unread
    <2>2. IsFiniteSet(Unread(toPrimary) \cup {issued + 1})
          /\ Cardinality(Unread(toPrimary) \cup {issued + 1}) <= Cardinality(Unread(toPrimary)) + 1
      BY UnreadFinite, FS_AddElement
    <2>3. Cardinality(Unread(toPrimary')) <= Cardinality(Unread(toPrimary) \cup {issued + 1})
      BY <2>1, <2>2, FS_Subset
    <2>4. /\ Cardinality(Unread(toPrimary')) \in Nat /\ Cardinality(Unread(toPrimary)) \in Nat
          /\ Cardinality(Unread(toPrimary) \cup {issued + 1}) \in Nat
      BY <2>2, UnreadFinite, FS_CardinalityType
    <2>5. arrivals + Cardinality(Unread(toPrimary)) <= issued
      BY DEF CountInv
    <2> QED BY <1>1, <2>2, <2>3, <2>4, <2>5
  <1> QED BY <1>7, <1>8, <1>9 DEF CountInv

\* The primary reads a message: the requests left are those behind it.
LEMMA ReceiveCount ==
  ASSUME LockInv, CountInv, NEW w \in Worker, PrimaryReceive(w)
  PROVE  CountInv'
  <1> DEFINE p == toPrimary[w]
             msg == Head(p)
  <1>1. /\ p # <<>>
        /\ toPrimary' = [toPrimary EXCEPT ![w] = Tail(p)]
        /\ HandleAcquire(w, msg) \/ HandleRelease(w, msg)
        /\ issued' = issued /\ issued \in Nat /\ arrivals \in Nat
        /\ toPrimary \in [Worker -> Seq(ToPrimaryMsg)]
    BY DEF PrimaryReceive, history, LockInv, LockType
  <1>2. /\ msg = p[1] /\ 1 \in DOMAIN p /\ msg \in ToPrimaryMsg
        /\ \A i \in DOMAIN Tail(p) : i + 1 \in DOMAIN p /\ Tail(p)[i] = p[i + 1] /\ i + 1 # 1
        /\ \A i, j \in DOMAIN Tail(p) : i + 1 = j + 1 => i = j
    BY <1>1, TakeMessage
  <1>3. /\ toPrimary'[w] = Tail(p)
        /\ \A v \in Worker : v # w => toPrimary'[v] = toPrimary[v]
    BY <1>1
  \* Every message was there before, and was not the first one.
  <1> DEFINE old(v, i) == IF v = w THEN i + 1 ELSE i
  <1>4. ASSUME NEW v \in Worker, NEW i \in Acquires(toPrimary'[v])
        PROVE  /\ old(v, i) \in Acquires(toPrimary[v])
               /\ toPrimary'[v][i] = toPrimary[v][old(v, i)]
               /\ v = w => old(v, i) # 1
    BY <1>2, <1>3 DEF Acquires
  <1>5. \A u, v \in Worker :
          \A i \in Acquires(toPrimary'[u]), j \in Acquires(toPrimary'[v]) :
            toPrimary'[u][i].req = toPrimary'[v][j].req => u = v /\ i = j
    <2> SUFFICES ASSUME NEW u \in Worker, NEW v \in Worker,
                        NEW i \in Acquires(toPrimary'[u]), NEW j \in Acquires(toPrimary'[v]),
                        toPrimary'[u][i].req = toPrimary'[v][j].req
                 PROVE  u = v /\ i = j
      OBVIOUS
    <2>1. u = v /\ old(u, i) = old(v, j)
      <3> HIDE DEF old
      <3>1. toPrimary[u][old(u, i)].req = toPrimary[v][old(v, j)].req
        BY <1>4
      <3> QED BY <1>4, <3>1 DEF CountInv
    <2>2. CASE u = w
      <3>1. i \in DOMAIN Tail(p) /\ j \in DOMAIN Tail(p)
        BY <1>3, <2>1, <2>2 DEF Acquires
      <3> QED BY <1>2, <2>1, <2>2, <3>1
    <2>3. CASE u # w
      BY <2>1, <2>3
    <2> QED BY <2>2, <2>3
  <1>6. \A v \in Worker : \A i \in Acquires(toPrimary'[v]) : toPrimary'[v][i].req <= issued'
    <2> SUFFICES ASSUME NEW v \in Worker, NEW i \in Acquires(toPrimary'[v])
                 PROVE  toPrimary'[v][i].req <= issued
      BY <1>1
    <2>1. /\ old(v, i) \in Acquires(toPrimary[v])
          /\ toPrimary'[v][i] = toPrimary[v][old(v, i)]
      BY <1>4
    <2> HIDE DEF old
    <2>2. toPrimary[v][old(v, i)].req <= issued
      BY <2>1 DEF CountInv
    <2> QED BY <2>1, <2>2
  <1>7. Unread(toPrimary') \subseteq Unread(toPrimary)
    BY <1>4 DEF Unread
  <1>8. msg.type = "ACQUIRE" =>
          msg.req \in Unread(toPrimary) /\ msg.req \notin Unread(toPrimary')
    <2> SUFFICES ASSUME msg.type = "ACQUIRE"
                 PROVE  msg.req \in Unread(toPrimary) /\ msg.req \notin Unread(toPrimary')
      OBVIOUS
    <2>1. 1 \in Acquires(toPrimary[w]) /\ toPrimary[w][1].req = msg.req /\ msg.req \in Request
      BY <1>2 DEF Acquires, ToPrimaryMsg
    <2>2. ASSUME NEW v \in Worker, NEW i \in Acquires(toPrimary'[v]),
                 toPrimary'[v][i].req = msg.req
          PROVE  FALSE
      <3> HIDE DEF old
      <3>1. toPrimary[v][old(v, i)].req = toPrimary[w][1].req
        BY <1>4, <2>1, <2>2
      <3>2. v = w /\ old(v, i) = 1
        BY <1>4, <2>1, <3>1 DEF CountInv
      <3> QED BY <1>4, <3>2
    <2> QED BY <2>1, <2>2 DEF Unread
  <1> HIDE DEF p, msg
  <1>9. /\ Cardinality(Unread(toPrimary')) <= Cardinality(Unread(toPrimary))
        /\ msg.type = "ACQUIRE" =>
             Cardinality(Unread(toPrimary')) + 1 <= Cardinality(Unread(toPrimary))
    <2>1. Cardinality(Unread(toPrimary')) <= Cardinality(Unread(toPrimary))
      BY <1>7, UnreadFinite, FS_Subset
    <2>2. ASSUME msg.type = "ACQUIRE"
          PROVE  Cardinality(Unread(toPrimary')) + 1 <= Cardinality(Unread(toPrimary))
      <3> DEFINE U == Unread(toPrimary') \cup {msg.req}
      <3>1. IsFiniteSet(U) /\ Cardinality(U) = Cardinality(Unread(toPrimary')) + 1
        BY <1>8, <2>2, UnreadFinite, FS_AddElement
      <3>2. U \subseteq Unread(toPrimary)
        BY <1>7, <1>8, <2>2
      <3> HIDE DEF U
      <3>3. Cardinality(U) <= Cardinality(Unread(toPrimary))
        BY <3>2, UnreadFinite, FS_Subset
      <3> QED BY <3>1, <3>3
    <2> QED BY <2>1, <2>2
  <1>10. arrivals' = arrivals \/ (msg.type = "ACQUIRE" /\ arrivals' = arrivals + 1)
    BY <1>1 DEF HandleAcquire, HandleRelease
  <1>11. arrivals' + Cardinality(Unread(toPrimary')) <= issued'
    <2>1. arrivals + Cardinality(Unread(toPrimary)) <= issued
      BY DEF CountInv
    <2>2. Cardinality(Unread(toPrimary')) \in Nat /\ Cardinality(Unread(toPrimary)) \in Nat
      BY UnreadFinite
    <2> QED BY <1>1, <1>9, <1>10, <2>1, <2>2
  <1> QED BY <1>5, <1>6, <1>11 DEF CountInv

LEMMA NextCount ==
  ASSUME LockInv, CountInv, [Next]_vars
  PROVE  CountInv'
  <1>1. ASSUME NEW w \in Worker, PrimaryReceive(w) PROVE CountInv'
    BY <1>1, ReceiveCount
  <1>2. ASSUME NEW w \in Worker, WorkerExit(w) PROVE CountInv'
    BY <1>2, NoRequest DEF WorkerExit, history
  <1>3. ASSUME NEW w \in Worker, Acquire(w) PROVE CountInv'
    BY <1>3, AcquireCount
  <1>4. ASSUME NEW w \in Worker, WorkerReceive(w) PROVE CountInv'
    BY <1>4, NoRequest DEF WorkerReceive, primaryVars, history
  <1>5. ASSUME NEW w \in Worker, NEW r \in Request, RequestTimeout(w, r) PROVE CountInv'
    BY <1>5, NoRequest DEF RequestTimeout, primaryVars
  <1>6. ASSUME NEW w \in Worker, NEW r \in Request, Release(w, r) PROVE CountInv'
    <2> DEFINE m == [type |-> "RELEASE"]
    <2>1. /\ toPrimary' = [toPrimary EXCEPT ![w] = Append(@, m)]
          /\ toPrimary \in [Worker -> Seq(ToPrimaryMsg)]
          /\ m \in ToPrimaryMsg /\ m.type # "ACQUIRE"
          /\ UNCHANGED <<arrivals, issued>>
      BY <1>6 DEF Release, LockInv, LockType, ToPrimaryMsg, primaryVars, history
    <2> HIDE DEF m
    <2>2. toPrimary'[w] = Append(toPrimary[w], m)
          /\ \A v \in Worker : v # w => toPrimary'[v] = toPrimary[v]
      BY <2>1
    <2>3. /\ Acquires(Append(toPrimary[w], m)) = Acquires(toPrimary[w])
          /\ \A i \in Acquires(toPrimary[w]) : Append(toPrimary[w], m)[i] = toPrimary[w][i]
      BY <2>1 DEF Acquires
    <2> QED BY <2>1, <2>2, <2>3, NoRequest
  <1>7. ASSUME NEW w \in Worker, Die(w) PROVE CountInv'
    BY <1>7, NoRequest DEF Die, primaryVars
  <1>8. ASSUME NEW r \in Request, Disconnect(r) PROVE CountInv'
    BY <1>8, NoRequest DEF Disconnect, primaryVars, history
  <1>9. ASSUME MasterShutdown PROVE CountInv'
    BY <1>9, NoRequest DEF MasterShutdown, history
  <1>10. CASE UNCHANGED vars
    BY <1>10, NoRequest DEF vars, primaryVars, history
  <1> QED
    BY <1>1, <1>2, <1>3, <1>4, <1>5, <1>6, <1>7, <1>8, <1>9, <1>10
       DEF Next, WorkerStep, Crash, DrainExit

-----------------------------------------------------------------------------
(* The other types *)

LEMMA HandleQueueType ==
  ASSUME LockInv, RestType, NEW w \in Worker, PrimaryReceive(w)
  PROVE  queue' \in [DOMAIN queue' -> Claim] /\ DOMAIN queue' \subseteq 1 .. arrivals'
  <1> DEFINE msg == Head(toPrimary[w])
  <1>1. HandleAcquire(w, msg) \/ HandleRelease(w, msg)
    BY DEF PrimaryReceive
  <1>2. /\ msg \in ToPrimaryMsg
        /\ DOMAIN queue \subseteq Nat /\ \A t \in DOMAIN queue : queue[t] \in Claim
        /\ arrivals \in Nat
    BY TakeMessage DEF PrimaryReceive, LockInv, LockType
  <1> HIDE DEF msg
  <1>3. CASE queue' = queue /\ arrivals' = arrivals
    BY <1>3 DEF RestType
  <1>4. CASE /\ msg.type = "ACQUIRE"
             /\ arrivals' = arrivals + 1
             /\ queue' = [t \in DOMAIN queue \cup {arrivals + 1} |->
                            IF t = arrivals + 1 THEN <<w, msg.req>> ELSE queue[t]]
    <2>1. <<w, msg.req>> \in Claim
      BY <1>2, <1>4 DEF ToPrimaryMsg, Claim
    <2>2. /\ DOMAIN queue' = DOMAIN queue \cup {arrivals + 1}
          /\ queue' \in [DOMAIN queue' -> Claim]
      BY <1>2, <1>4, <2>1
    <2>3. \A t \in DOMAIN queue : t \in 1 .. arrivals
      BY DEF RestType
    <2> QED BY <1>2, <1>4, <2>2, <2>3
  <1>5. CASE queue' = NextGrant(queue).queue /\ arrivals' = arrivals
    <2>1. /\ DOMAIN NextGrant(queue).queue \subseteq DOMAIN queue
          /\ NextGrant(queue).queue \in [DOMAIN NextGrant(queue).queue -> Claim]
      BY <1>2, NextGrantFrom
    <2> QED BY <1>5, <2>1 DEF RestType
  <1> QED BY <1>1, <1>3, <1>4, <1>5 DEF HandleAcquire, HandleRelease

LEMMA ExitQueueType ==
  ASSUME LockInv, RestType, NEW w \in Worker, WorkerExit(w)
  PROVE  queue' \in [DOMAIN queue' -> Claim] /\ DOMAIN queue' \subseteq 1 .. arrivals'
  <1> DEFINE held == holder # None /\ holder[1] = w
             g == IF held THEN NextGrant(queue) ELSE [holder |-> holder, queue |-> queue]
  <1>1. /\ queue' = QueueOf(g.queue, {t \in DOMAIN g.queue : g.queue[t][1] # w})
        /\ arrivals' = arrivals
    BY DEF WorkerExit
  <1>2. DOMAIN queue \subseteq Nat /\ \A t \in DOMAIN queue : queue[t] \in Claim
    BY DEF LockInv, LockType
  <1>3. DOMAIN g.queue \subseteq DOMAIN queue /\ \A t \in DOMAIN g.queue : g.queue[t] = queue[t]
    <2>1. CASE held
      BY <1>2, <2>1, NextGrantFrom
    <2>2. CASE ~held
      BY <2>2
    <2> QED BY <2>1, <2>2
  <1> HIDE DEF g
  <1>4. queue' \in [DOMAIN queue' -> Claim] /\ DOMAIN queue' \subseteq DOMAIN queue
    BY <1>1, <1>2, <1>3 DEF QueueOf
  <1> QED BY <1>1, <1>4 DEF RestType

LEMMA NextRest ==
  ASSUME LockInv, RestType, [Next]_vars
  PROVE  RestType'
  <1>t. RestType /\ LockType /\ DOMAIN queue \subseteq 1 .. arrivals
    BY DEF LockInv, RestType
  <1>1. ASSUME NEW w \in Worker, PrimaryReceive(w) PROVE RestType'
    BY <1>1, <1>t, HandleQueueType DEF PrimaryReceive, workerVars, history, RestType
  <1>2. ASSUME NEW w \in Worker, WorkerExit(w) PROVE RestType'
    <2>1. queue' \in [DOMAIN queue' -> Claim] /\ DOMAIN queue' \subseteq 1 .. arrivals'
      BY <1>2, ExitQueueType
    <2>2. forked' \in 0 .. MaxWorkers
      BY <1>2, <1>t DEF WorkerExit, RestType, Worker
    <2>3. UNCHANGED <<shutting, conn, draining, history>>
      BY <1>2 DEF WorkerExit
    <2> QED BY <1>t, <2>1, <2>2, <2>3 DEF RestType, history
  <1>3. ASSUME NEW w \in Worker, Acquire(w) PROVE RestType'
    <2>1. issued + 1 \in Request
      BY <1>3 DEF Acquire, LockInv, LockType, Request
    <2> QED BY <1>3, <1>t, <2>1 DEF Acquire, primaryVars, RestType
  <1>4. ASSUME NEW w \in Worker, WorkerReceive(w) PROVE RestType'
    <2>1. draining' \subseteq Worker
      BY <1>4, <1>t
         DEF WorkerReceive, ReceiveGrant, ReceiveLeader, ReceiveShutdown, RestType
    <2>2. UNCHANGED <<primaryVars, forked, conn, history>>
      BY <1>4 DEF WorkerReceive
    <2> QED BY <1>t, <2>1, <2>2 DEF primaryVars, history, RestType
  <1>5. ASSUME NEW w \in Worker, NEW r \in Request, RequestTimeout(w, r) PROVE RestType'
    BY <1>5, <1>t DEF RequestTimeout, primaryVars, RestType
  <1>6. ASSUME NEW w \in Worker, NEW r \in Request, Release(w, r) PROVE RestType'
    BY <1>6, <1>t DEF Release, primaryVars, history, RestType
  <1>7. ASSUME NEW w \in Worker, Die(w), cutShort' \subseteq Request PROVE RestType'
    BY <1>7, <1>t DEF Die, primaryVars, RestType
  <1>8. ASSUME NEW w \in Worker, Crash(w) PROVE RestType'
    BY <1>7, <1>8, <1>t DEF Crash, RestType
  <1>9. ASSUME NEW w \in Worker, DrainExit(w) PROVE RestType'
    <2>1. cutShort' \subseteq Request
      BY <1>9, <1>t DEF DrainExit, RestType, LockType
    <2> QED BY <1>7, <1>9, <2>1 DEF DrainExit
  <1>10. ASSUME NEW r \in Request, Disconnect(r) PROVE RestType'
    BY <1>10, <1>t DEF Disconnect, primaryVars, history, RestType
  <1>11. ASSUME MasterShutdown PROVE RestType'
    BY <1>11, <1>t DEF MasterShutdown, workerVars, history, RestType
  <1>12. CASE UNCHANGED vars
    BY <1>12, <1>t DEF vars, primaryVars, workerVars, history, RestType
  <1> QED
    BY <1>1, <1>2, <1>3, <1>4, <1>5, <1>6, <1>8, <1>9, <1>10, <1>11, <1>12
       DEF Next, WorkerStep

-----------------------------------------------------------------------------
(* The whole invariant *)

ClusterInv == LockInv /\ ActiveInv /\ LeaderInv /\ RestType /\ CountInv

LEMMA InitCluster == Init => ClusterInv
  <1> SUFFICES ASSUME Init PROVE ClusterInv
    OBVIOUS
  <1>1. LockInv
    BY InitLock
  <1>2. 1 .. NumWorkers \subseteq Worker /\ NumWorkers \in 0 .. MaxWorkers /\ 1 \in 1 .. NumWorkers
    BY DEF Worker
  <1>3. ActiveInv
    BY <1>2 DEF Init, ActiveInv, ExitedHoldNothing
  <1>4. LeaderInv
    <2>1. ASSUME NEW w \in Worker, Says(toWorker[w])
          PROVE  w \in alive /\ w = leader
      <3> DEFINE m == [type |-> "LEADER", isLeader |-> w = 1]
      <3>1. toWorker[w] = IF w <= NumWorkers THEN <<m>> ELSE <<>>
        BY DEF Init
      <3>2. ~Says(<<>>)
        BY DEF Says
      <3>3. w <= NumWorkers /\ Says(<<m>>)
        BY <2>1, <3>1, <3>2
      <3>4. m.isLeader
        <4> HIDE DEF m
        <4> QED BY <3>3 DEF Says
      <3>5. w = 1
        BY <3>4
      <3> QED BY <1>2, <3>5 DEF Init
    <2> QED BY <1>2, <2>1 DEF Init, LeaderInv
  <1>5. RestType
    <2>1. queue = [t \in {} |-> 1] /\ DOMAIN queue = {}
      BY DEF Init
    <2>2. queue \in [DOMAIN queue -> Claim]
      BY <2>1
    <2>3. shutting \in BOOLEAN /\ forked \in 0 .. MaxWorkers /\ conn \subseteq Request
          /\ draining \subseteq Worker /\ timedOut \subseteq Request /\ cutShort \subseteq Request
      BY <1>2, Zenon DEF Init
    <2> QED BY <2>1, <2>2, <2>3 DEF RestType
  <1>6. CountInv
    <2>1. \A w \in Worker : Acquires(toPrimary[w]) = {}
      BY DEF Init, Acquires
    <2>2. Unread(toPrimary) = {}
      BY <2>1 DEF Unread
    <2>3. Cardinality({}) = 0
      BY FS_EmptySet
    <2>4. arrivals = 0 /\ issued = 0
      BY DEF Init
    <2>5. arrivals + Cardinality(Unread(toPrimary)) <= issued
      BY <2>2, <2>3, <2>4
    <2> QED BY <2>1, <2>5, Zenon DEF CountInv
  <1> QED BY <1>1, <1>3, <1>4, <1>5, <1>6 DEF ClusterInv

LEMMA ClusterInvariant == Spec => []ClusterInv
  <1>1. ClusterInv /\ [Next]_vars => ClusterInv'
    BY NextLock, NextActive, NextLeader, NextRest, NextCount DEF ClusterInv
  <1> QED BY InitCluster, <1>1, PTL DEF Spec

\* THEOREM: the state of the primary and of the workers keeps its type; no
\* more claims are queued than requests were made.
THEOREM ClusterTypeCorrect == Spec => []TypeOK
  <1>1. ClusterInv => TypeOK
    <2> SUFFICES ASSUME ClusterInv PROVE TypeOK
      OBVIOUS
    <2>1. arrivals \in 0 .. MaxRequests
      <3>1. arrivals + Cardinality(Unread(toPrimary)) <= issued
        BY DEF ClusterInv, CountInv
      <3>2. arrivals \in Nat /\ issued \in 0 .. MaxRequests
        BY DEF ClusterInv, LockInv, LockType
      <3> QED BY <3>1, <3>2, UnreadFinite
    <2> QED BY <2>1 DEF ClusterInv, LockInv, LockType, ActiveInv, LeaderInv, RestType, TypeOK
  <1> QED BY ClusterInvariant, <1>1, PTL

\* THEOREM: after its exit event a worker neither holds the lock nor waits for
\* it, so the lock is never handed to a worker that will not release it.
THEOREM ExitedWorkersHoldNothing == Spec => []ExitedHoldNothing
  <1>1. ClusterInv => ExitedHoldNothing
    BY DEF ClusterInv, ActiveInv
  <1> QED BY ClusterInvariant, <1>1, PTL

\* THEOREM: a live worker that believes it leads is the one the primary chose,
\* whatever announcements are under way.
THEOREM LeaderIsUnique == Spec => []AtMostOneLeader
  <1>1. ClusterInv => AtMostOneLeader
    BY DEF ClusterInv, LeaderInv, LockInv, LockType, AtMostOneLeader
  <1> QED BY ClusterInvariant, <1>1, PTL

-----------------------------------------------------------------------------
(* The cluster implements SequenceLock *)

\* A request belongs to one worker, and waits there or is inside.
Calls(w) == pending[w] \cup inside[w]
CallInv ==
    /\ \A w \in Worker : pending[w] \cap inside[w] = {}
    /\ \A w \in Worker : \A r \in Calls(w) : r \in 1 .. issued
    /\ \A v, w \in Worker : v # w => Calls(v) \cap Calls(w) = {}

LEMMA CallsUnchanged ==
  ASSUME UNCHANGED <<pending, inside, issued>>
  PROVE  /\ CallInv => CallInv'
         /\ UNCHANGED Lock!lockVars
  <1>1. \A w \in Worker : Calls(w)' = Calls(w)
    BY DEF Calls
  <1>2. CallInv => CallInv'
    BY <1>1 DEF CallInv
  <1>3. Waiting' = Waiting /\ Running' = Running
    BY DEF Waiting, Running
  <1>4. UNCHANGED Lock!lockVars
    BY <1>3 DEF Lock!lockVars
  <1> QED BY <1>2, <1>4

\* Some requests of one worker end.
LEMMA CallsAreOver ==
  ASSUME LockInv, CallInv, NEW w \in Worker, NEW C \in SUBSET Calls(w),
         pending' = [pending EXCEPT ![w] = @ \ C],
         inside' = [inside EXCEPT ![w] = @ \ C],
         issued' = issued
  PROVE  CallInv' /\ [Lock!Next]_(Lock!lockVars)
  <1>1. \A v \in Worker : pending'[v] = pending[v] \ C /\ inside'[v] = inside[v] \ C
    <2> SUFFICES ASSUME NEW v \in Worker
                 PROVE  pending'[v] = pending[v] \ C /\ inside'[v] = inside[v] \ C
      OBVIOUS
    <2>1. CASE v = w
      BY <2>1 DEF LockInv, LockType
    <2>2. CASE v # w
      <3>1. Calls(v) \cap C = {}
        BY <2>2 DEF CallInv
      <3>2. pending'[v] = pending[v] /\ inside'[v] = inside[v]
        BY <2>2 DEF LockInv, LockType
      <3> QED BY <3>1, <3>2 DEF Calls
    <2> QED BY <2>1, <2>2
  <1>2. CallInv'
    BY <1>1 DEF CallInv, Calls
  <1>3. Waiting' = Waiting \ C /\ Running' = Running \ C
    BY <1>1 DEF Waiting, Running
  <1>4. C \subseteq Waiting \cup Running
    BY DEF Waiting, Running, Calls
  <1>5. C \subseteq 1 .. issued /\ C \subseteq Request
    BY DEF CallInv, LockInv, LockType, Request
  <1>6. CASE C = {}
    <2>1. UNCHANGED <<Waiting, Running, issued>>
      BY <1>3, <1>6
    <2> QED BY <1>2, <2>1 DEF Lock!lockVars
  <1>7. CASE C # {}
    <2> DEFINE Over == (1 .. issued) \ (Waiting \cup Running)
    <2>1. Over' = Over \cup C
      BY <1>3, <1>4, <1>5
    <2>2. C \subseteq Waiting \cup Running /\ C # {}
          /\ Waiting' = Waiting \ C /\ Running' = Running \ C
      BY <1>3, <1>4, <1>7
    <2>3. Lock!End(C)
      BY <2>1, <2>2, Zenon DEF Lock!End
    <2> QED BY <1>2, <1>5, <2>3 DEF Lock!Next
  <1> QED BY <1>2, <1>6, <1>7

\* A new request asks.
LEMMA CallAsks ==
  ASSUME LockInv, CallInv, NEW w \in Worker, Acquire(w)
  PROVE  CallInv' /\ Lock!Next
  <1> DEFINE r == issued + 1
  <1>1. /\ pending' = [pending EXCEPT ![w] = @ \cup {r}]
        /\ inside' = inside /\ issued' = r
        /\ issued \in 0 .. MaxRequests /\ issued < MaxRequests
    BY DEF Acquire, LockInv, LockType
  <1>2. /\ \A v \in Worker : inside'[v] = inside[v]
        /\ pending'[w] = pending[w] \cup {r}
        /\ \A v \in Worker : v # w => pending'[v] = pending[v]
    BY <1>1 DEF LockInv, LockType
  <1>3. r \in Request /\ 1 .. r = 1 .. issued \cup {r} /\ r \notin 1 .. issued
    BY <1>1 DEF Request
  <1> HIDE DEF r
  <1>4. \A v \in Worker : r \notin Calls(v)
    BY <1>3 DEF CallInv
  <1>5. CallInv'
    <2>1. \A v \in Worker : pending'[v] \cap inside'[v] = {}
      BY <1>2, <1>4 DEF CallInv, Calls
    <2>2. \A v \in Worker : \A q \in Calls(v)' : q \in 1 .. issued'
      BY <1>1, <1>2, <1>3 DEF CallInv, Calls
    <2>3. \A u, v \in Worker : u # v => Calls(u)' \cap Calls(v)' = {}
      BY <1>2, <1>4 DEF CallInv, Calls
    <2> QED BY <2>1, <2>2, <2>3 DEF CallInv
  <1>6. Waiting' = Waiting \cup {r} /\ Running' = Running
    BY <1>2 DEF Waiting, Running
  <1>7. r \notin Waiting \cup Running
    BY <1>4 DEF Waiting, Running, Calls
  <1>8. Lock!Ask(r)
    BY <1>1, <1>3, <1>6, <1>7 DEF Lock!Ask
  <1> QED BY <1>3, <1>5, <1>8 DEF Lock!Next

\* A grant that a request waits for: nobody is inside.
LEMMA CallEnters ==
  ASSUME LockInv, CallInv, NEW w \in Worker, NEW r \in pending[w],
         \A v \in Worker : inside[v] = {},
         pending' = [pending EXCEPT ![w] = @ \ {r}],
         inside' = [inside EXCEPT ![w] = @ \cup {r}],
         issued' = issued
  PROVE  CallInv' /\ Lock!Next
  <1>1. /\ pending'[w] = pending[w] \ {r} /\ inside'[w] = {r}
        /\ \A v \in Worker : v # w => pending'[v] = pending[v] /\ inside'[v] = {}
    BY DEF LockInv, LockType
  <1>2. /\ \A v \in Worker : Calls(v)' = Calls(v)
        /\ \A v \in Worker : pending'[v] \cap inside'[v] = {}
    BY <1>1 DEF Calls
  <1>3. CallInv'
    BY <1>2 DEF CallInv
  <1>4. \A v \in Worker : v # w => r \notin pending[v]
    BY DEF CallInv, Calls
  <1>5. /\ Waiting' = Waiting \ {r} /\ r \in Waiting
        /\ Running' = {r} /\ Running = {}
    BY <1>1, <1>4 DEF Waiting, Running
  <1>6. r \in Request
    BY DEF LockInv, LockType
  <1>7. Lock!Enter(r)
    BY <1>5 DEF Lock!Enter
  <1> QED BY <1>3, <1>6, <1>7 DEF Lock!Next

LEMMA WorkerReceiveCalls ==
  ASSUME LockInv, CallInv, NEW w \in Worker, WorkerReceive(w)
  PROVE  CallInv' /\ [Lock!Next]_(Lock!lockVars)
  <1> DEFINE s == toWorker[w]
             msg == Head(s)
  <1>1. s # <<>> /\ issued' = issued
    BY DEF WorkerReceive, history
  <1>2. \/ UNCHANGED <<pending, inside>>
        \/ /\ msg.type = "GRANTED" /\ msg.req \in pending[w]
           /\ pending' = [pending EXCEPT ![w] = @ \ {msg.req}]
           /\ inside' = [inside EXCEPT ![w] = @ \cup {msg.req}]
    BY DEF WorkerReceive, ReceiveGrant, ReceiveLeader, ReceiveShutdown
  <1>3. CASE UNCHANGED <<pending, inside>>
    BY <1>1, <1>3, CallsUnchanged
  <1>4. CASE /\ msg.type = "GRANTED" /\ msg.req \in pending[w]
             /\ pending' = [pending EXCEPT ![w] = @ \ {msg.req}]
             /\ inside' = [inside EXCEPT ![w] = @ \cup {msg.req}]
    <2>1. s \in Seq(ToWorkerMsg) /\ Token(w, holder, s, toPrimary[w], inside[w])
      BY DEF LockInv, LockType, TokenInv
    <2>2. 1 \in Grants(s)
      BY <1>1, <1>4, <2>1, TakeMessage DEF Grants
    <2>3. inside[w] = {} /\ holder[1] = w
      BY <2>1, <2>2 DEF Token
    <2>4. \A v \in Worker : inside[v] = {}
      <3> SUFFICES ASSUME NEW v \in Worker, v # w PROVE inside[v] = {}
        BY <2>3
      <3> QED BY <2>3, OthersHaveNothing DEF LockInv
    <2> QED BY <1>1, <1>4, <2>4, CallEnters
  <1> QED BY <1>2, <1>3, <1>4

LEMMA NextCalls ==
  ASSUME LockInv, CallInv, [Next]_vars
  PROVE  CallInv' /\ [Lock!Next]_(Lock!lockVars)
  <1> DEFINE Goal == CallInv' /\ [Lock!Next]_(Lock!lockVars)
  <1>1. ASSUME NEW w \in Worker, PrimaryReceive(w) \/ WorkerExit(w) PROVE Goal
    BY <1>1, CallsUnchanged DEF PrimaryReceive, WorkerExit, workerVars, history
  <1>2. ASSUME NEW w \in Worker, Acquire(w) PROVE Goal
    BY <1>2, CallAsks
  <1>3. ASSUME NEW w \in Worker, WorkerReceive(w) PROVE Goal
    BY <1>3, WorkerReceiveCalls
  <1>4. ASSUME NEW w \in Worker, NEW r \in Request, RequestTimeout(w, r) PROVE Goal
    <2>1. /\ r \in pending[w] /\ r \notin inside[w]
          /\ pending' = [pending EXCEPT ![w] = @ \ {r}]
          /\ inside' = inside /\ issued' = issued
      BY <1>4 DEF RequestTimeout, CallInv
    <2>2. inside' = [inside EXCEPT ![w] = @ \ {r}]
      BY <2>1 DEF LockInv, LockType
    <2>3. {r} \in SUBSET Calls(w)
      BY <2>1 DEF Calls
    <2> QED BY <2>1, <2>2, <2>3, CallsAreOver
  <1>5. ASSUME NEW w \in Worker, NEW r \in Request, Release(w, r) PROVE Goal
    <2>1. /\ r \in inside[w] /\ r \notin pending[w]
          /\ inside' = [inside EXCEPT ![w] = @ \ {r}]
          /\ pending' = pending /\ issued' = issued
      BY <1>5 DEF Release, CallInv, history
    <2>2. pending' = [pending EXCEPT ![w] = @ \ {r}]
      BY <2>1 DEF LockInv, LockType
    <2>3. {r} \in SUBSET Calls(w)
      BY <2>1 DEF Calls
    <2> QED BY <2>1, <2>2, <2>3, CallsAreOver
  <1>6. ASSUME NEW w \in Worker, Die(w) PROVE Goal
    <2>1. /\ pending' = [pending EXCEPT ![w] = @ \ Calls(w)]
          /\ inside' = [inside EXCEPT ![w] = @ \ Calls(w)]
          /\ issued' = issued
      BY <1>6 DEF Die, Calls, LockInv, LockType
    <2>2. Calls(w) \in SUBSET Calls(w)
      OBVIOUS
    <2> HIDE DEF Goal
    <2>3. CallInv' /\ [Lock!Next]_(Lock!lockVars)
      BY <2>1, <2>2, CallsAreOver
    <2> QED BY <2>3 DEF Goal
  <1>7. ASSUME \/ \E r \in Request : Disconnect(r)
               \/ MasterShutdown
               \/ UNCHANGED vars
        PROVE  Goal
    BY <1>7, CallsUnchanged DEF Disconnect, MasterShutdown, vars, workerVars, history
  <1> QED BY <1>1, <1>2, <1>3, <1>4, <1>5, <1>6, <1>7
          DEF Next, WorkerStep, Crash, DrainExit

\* With its processes, messages, timeouts and crashes, the cluster's lock
\* implements the promise of withSequenceLock: a request runs its function
\* alone, once at most, and not after it was told that the lock timed out.
THEOREM ClusterImplementsLock == Spec => ImplementsLock
  <1>1. Init => CallInv /\ Lock!Init
    BY DEF Init, CallInv, Calls, Lock!Init, Waiting, Running
  <1> QED BY <1>1, InitLock, NextLock, NextCalls, PTL DEF Spec, ImplementsLock, Lock!Spec

=============================================================================
