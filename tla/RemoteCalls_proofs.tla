------------------------- MODULE RemoteCalls_proofs -------------------------
(***************************************************************************)
(* What holds of the backend's calls to other servers, for any calls and   *)
(* all the limits: of the pool in front of Horizon and the anchors, and of *)
(* breaker and limiter in front of the Soroban RPC.                        *)
(*                                                                         *)
(* The pool never lets a request that is not idempotent be processed twice,*)
(* honours cooldowns, and keeps its retries within the budget.             *)
(*                                                                         *)
(* ProcessedOnce alone is not inductive: a call that is to be attempted    *)
(* again could have a request out there.  Pristine adds that it has none   *)
(* until its last attempt is over, which holds because an ambiguous        *)
(* failure is the last.  Pending bounds the attempts and says that a       *)
(* pending call has an endpoint.  RetriesWithinBudget is not inductive     *)
(* either, as windows slide: Granted speaks of the window in which each    *)
(* retry was granted.                                                      *)
(*                                                                         *)
(* The probe flag of the circuit breaker belongs to the one call that the  *)
(* half-open period admitted, and the limiter neither leaks a slot nor     *)
(* gives one twice.                                                        *)
(***************************************************************************)
EXTENDS EndpointPool, RpcGuard, FiniteSetTheorems, WellFoundedInduction, TLAPS

-----------------------------------------------------------------------------
(* EndpointPool: requests *)

Pending ==
    \A c \in Call :
        /\ pc[c] \in {"calling", "sleeping"} => ep[c] \in Endpoint /\ class[c] \in Class
        /\ pc[c] = "sleeping" => attempt[c] + 1 < MaxAttempts

Pristine ==
    \A c \in Call :
        /\ pc[c] # "ended" => processed[c] = 0 /\ unknown[c] = 0
        /\ pc[c] = "idle" => tried[c] = {}

IInv == TypeOK /\ Pending /\ Pristine /\ ProcessedOnce

\* select returns an endpoint, or nothing.
LEMMA SelectableType ==
    ASSUME NEW k, NEW cool, NEW done
    PROVE  Selectable(k, cool, done) \subseteq Endpoint \cup {None}
  BY DEF Selectable, Candidates

\* The budget keeps counts by age.
LEMMA BudgetType ==
    ASSUME NEW f \in [Ages -> Nat]
    PROVE  Entered(f) \in [Ages -> Nat] /\ Older(f) \in [Ages -> Nat]
  <1>1. 0 \in Ages
    BY EndpointPoolAssumption DEF Ages
  <1>2. Entered(f) \in [Ages -> Nat]
    BY <1>1 DEF Entered
  <1>3. ASSUME NEW a \in Ages, a # 0 PROVE a - 1 \in Ages
    BY <1>3, EndpointPoolAssumption DEF Ages
  <1>4. Older(f) \in [Ages -> Nat]
    BY <1>3 DEF Older
  <1>. QED  BY <1>2, <1>4

LEMMA InitIInv == Init => IInv
  BY EndpointPoolAssumption
  DEF Init, IInv, TypeOK, Pending, Pristine, ProcessedOnce, None

LEMMA ExecuteKeeps ==
    ASSUME IInv, NEW c \in Call, NEW k \in Class, Execute(c, k)
    PROVE  IInv'
  <1>1. PICK e \in Selectable(k, cooling, {}) :
            /\ ep' = [ep EXCEPT ![c] = e]
            /\ pc' = [pc EXCEPT ![c] = IF e = None THEN "ended" ELSE "calling"]
    BY DEF Execute
  <1>2. e \in Endpoint \cup {None}
    BY SelectableType
  <1>3. TypeOK'
    BY <1>1, <1>2, BudgetType DEF IInv, TypeOK, Execute, servers
  <1>4. Pending'
    BY <1>1, <1>2 DEF IInv, TypeOK, Pending, Execute, servers
  <1>5. Pristine' /\ ProcessedOnce'
    BY <1>1, <1>2 DEF IInv, TypeOK, Pristine, ProcessedOnce, Execute, servers
  <1>. QED  BY <1>3, <1>4, <1>5 DEF IInv

LEMMA ReturnsKeeps ==
    ASSUME IInv, NEW c \in Call, Returns(c)
    PROVE  IInv'
  <1>1. TypeOK' /\ Pending'
    BY DEF IInv, TypeOK, Pending, Returns, budget
  <1>2. Pristine' /\ ProcessedOnce'
    BY DEF IInv, TypeOK, Pristine, ProcessedOnce, Returns, budget
  <1>. QED  BY <1>1, <1>2 DEF IInv

LEMMA FailsKeeps ==
    ASSUME IInv, NEW c \in Call, NEW kind \in Failure, Fails(c, kind)
    PROVE  IInv'
  <1>. DEFINE done == tried[c] \cup {ep[c]}
              over(e) == LastAttempt(c, kind) \/ e = None \/ ~TryAcquire
  <1>1. PICK cool \in CooledDown(ep[c], kind) :
            /\ cooling' = cool
            /\ tried' = [tried EXCEPT ![c] = done]
            /\ \E e \in IF Failover(class[c]) THEN Selectable(class[c], cool, done)
                        ELSE {ep[c]} :
                  IF over(e)
                  THEN /\ pc' = [pc EXCEPT ![c] = "ended"]
                       /\ UNCHANGED <<retries, ep, attempt>>
                  ELSE /\ retries' = Entered(retries)
                       /\ ep' = [ep EXCEPT ![c] = e]
                       /\ IF e \in done
                          THEN pc' = [pc EXCEPT ![c] = "sleeping"] /\ UNCHANGED attempt
                          ELSE attempt' = [attempt EXCEPT ![c] = @ + 1] /\ UNCHANGED pc
    BY DEF Fails
  <1>2. PICK e \in IF Failover(class[c]) THEN Selectable(class[c], cool, done)
                   ELSE {ep[c]} :
            IF over(e)
            THEN /\ pc' = [pc EXCEPT ![c] = "ended"]
                 /\ UNCHANGED <<retries, ep, attempt>>
            ELSE /\ retries' = Entered(retries)
                 /\ ep' = [ep EXCEPT ![c] = e]
                 /\ IF e \in done
                    THEN pc' = [pc EXCEPT ![c] = "sleeping"] /\ UNCHANGED attempt
                    ELSE attempt' = [attempt EXCEPT ![c] = @ + 1] /\ UNCHANGED pc
    BY <1>1
  <1>3. /\ pc[c] = "calling"
        /\ unknown' = IF kind = "ambiguous" /\ class[c] = "submit_non_idempotent"
                      THEN [unknown EXCEPT ![c] = @ + 1] ELSE unknown
        /\ UNCHANGED <<requests, class, processed>>
    BY DEF Fails
  <1>4. ep[c] \in Endpoint /\ cool \subseteq Endpoint /\ done \subseteq Endpoint
    BY <1>1, <1>3 DEF IInv, TypeOK, Pending, CooledDown
  <1>5. e \in Endpoint \cup {None}
    BY <1>2, <1>4, SelectableType
  <1>6. class[c] = "submit_non_idempotent" => e = ep[c] /\ (kind = "ambiguous" => over(e))
    BY <1>2 DEF Failover, LastAttempt, RetryAmbiguous
  <1>7. ~over(e) => attempt[c] + 1 < MaxAttempts /\ e \in Endpoint
    BY <1>5, EndpointPoolAssumption DEF LastAttempt, IInv, TypeOK
  <1>. HIDE DEF over
  <1>8. TypeOK'
    BY <1>1, <1>2, <1>3, <1>4, <1>5, <1>7, BudgetType, EndpointPoolAssumption
    DEF IInv, TypeOK
  <1>9. Pending'
    BY <1>1, <1>2, <1>3, <1>7 DEF IInv, TypeOK, Pending
  <1>10. Pristine'
    BY <1>1, <1>2, <1>3, <1>6 DEF IInv, TypeOK, Pristine, ProcessedOnce
  <1>11. ProcessedOnce'
    BY <1>1, <1>2, <1>3, <1>6 DEF IInv, TypeOK, Pristine, ProcessedOnce
  <1>. QED  BY <1>8, <1>9, <1>10, <1>11 DEF IInv

LEMMA WakeKeeps ==
    ASSUME IInv, NEW c \in Call, Wake(c)
    PROVE  IInv'
  <1>1. TypeOK' /\ Pending'
    BY EndpointPoolAssumption DEF IInv, TypeOK, Pending, Wake, budget, servers
  <1>2. Pristine' /\ ProcessedOnce'
    BY DEF IInv, TypeOK, Pristine, ProcessedOnce, Wake, budget, servers
  <1>. QED  BY <1>1, <1>2 DEF IInv

LEMMA OthersKeep ==
    ASSUME IInv,
           \/ \E c \in Call : ProcessesLate(c)
           \/ \E e \in Endpoint : CooldownEnds(e)
           \/ Tick
           \/ UNCHANGED vars
    PROVE  IInv'
  <1>1. ASSUME NEW c \in Call, ProcessesLate(c) PROVE IInv'
    BY <1>1 DEF IInv, TypeOK, Pending, Pristine, ProcessedOnce, ProcessesLate, budget, local
  <1>2. ASSUME NEW e \in Endpoint, CooldownEnds(e) PROVE IInv'
    BY <1>2 DEF IInv, TypeOK, Pending, Pristine, ProcessedOnce, CooldownEnds,
                budget, local, servers
  <1>3. CASE Tick
    BY <1>3, BudgetType DEF IInv, TypeOK, Pending, Pristine, ProcessedOnce, Tick,
                            local, servers
  <1>4. CASE UNCHANGED vars
    BY <1>4 DEF IInv, TypeOK, Pending, Pristine, ProcessedOnce, vars, budget, local, servers
  <1>. QED  BY <1>1, <1>2, <1>3, <1>4

LEMMA Inductive == Spec => []IInv
  <1>1. IInv /\ [Next]_vars => IInv'
    BY ExecuteKeeps, ReturnsKeeps, FailsKeeps, WakeKeeps, OthersKeep DEF Next, Attempted
  <1>. QED  BY InitIInv, <1>1, PTL DEF Spec

\* The pool keeps its type: in particular no call of execute is attempted more
\* than maxAttempts times, whether or not its retries wait.
THEOREM TypeCorrect == Spec => []TypeOK
  BY Inductive, PTL DEF IInv

\* The servers process a call of class submit_non_idempotent once at most, at
\* one endpoint, for any endpoints, calls, limits and failures of execute.
THEOREM NeverProcessedTwice == Spec => []ProcessedOnce
  BY Inductive, PTL DEF IInv

----------------------------------------------------------------------------
(* Cooldowns *)

\* select hands out no endpoint in cooldown, the last resort included.
LEMMA SelectableIsWarm ==
    ASSUME NEW k, NEW cool, NEW done, NEW e \in Selectable(k, cool, done), e # None
    PROVE  e \notin cool
  BY DEF Selectable, Candidates

\* The conclusion of CooldownHonoured for one call.
Honoured(c) == Starts(c) /\ ep'[c] \in cooling' => pc[c] = "sleeping"

LEMMA ExecuteHonours ==
    ASSUME TypeOK, NEW c \in Call, NEW k \in Class, Execute(c, k)
    PROVE  \A d \in Call : Honoured(d)
  <1>1. PICK e \in Selectable(k, cooling, {}) :
            /\ ep' = [ep EXCEPT ![c] = e]
            /\ pc' = [pc EXCEPT ![c] = IF e = None THEN "ended" ELSE "calling"]
    BY DEF Execute
  <1>2. UNCHANGED <<cooling, attempt>>
    BY DEF Execute
  <1>3. e # None => e \notin cooling
    BY SelectableIsWarm
  <1>4. \A d \in Call : d # c => pc'[d] = pc[d]
    BY <1>1 DEF TypeOK
  <1>5. pc'[c] = (IF e = None THEN "ended" ELSE "calling") /\ ep'[c] = e
    BY <1>1 DEF TypeOK
  <1>. QED  BY <1>2, <1>3, <1>4, <1>5 DEF Honoured, Starts

LEMMA FailsHonours ==
    ASSUME TypeOK, NEW c \in Call, NEW kind \in Failure, Fails(c, kind)
    PROVE  \A d \in Call : Honoured(d)
  <1>. DEFINE done == tried[c] \cup {ep[c]}
  <1>1. PICK cool \in CooledDown(ep[c], kind) :
            /\ cooling' = cool
            /\ \E e \in IF Failover(class[c]) THEN Selectable(class[c], cool, done)
                        ELSE {ep[c]} :
                  IF LastAttempt(c, kind) \/ e = None \/ ~TryAcquire
                  THEN /\ pc' = [pc EXCEPT ![c] = "ended"]
                       /\ UNCHANGED <<retries, ep, attempt>>
                  ELSE /\ retries' = Entered(retries)
                       /\ ep' = [ep EXCEPT ![c] = e]
                       /\ IF e \in done
                          THEN pc' = [pc EXCEPT ![c] = "sleeping"] /\ UNCHANGED attempt
                          ELSE attempt' = [attempt EXCEPT ![c] = @ + 1] /\ UNCHANGED pc
    BY DEF Fails
  <1>2. PICK e \in IF Failover(class[c]) THEN Selectable(class[c], cool, done)
                   ELSE {ep[c]} :
            \/ pc' = [pc EXCEPT ![c] = "ended"] /\ UNCHANGED attempt
            \/ pc' = [pc EXCEPT ![c] = "sleeping"] /\ UNCHANGED attempt
            \/ /\ e # None /\ e \notin done
               /\ ep' = [ep EXCEPT ![c] = e]
               /\ attempt' = [attempt EXCEPT ![c] = @ + 1] /\ UNCHANGED pc
    BY <1>1
  <1>3. e # None /\ e \notin done => e \notin cooling'
    BY <1>1, <1>2, SelectableIsWarm
  <1>4. \A d \in Call : d # c => pc'[d] = pc[d] /\ attempt'[d] = attempt[d]
    BY <1>2 DEF TypeOK
  <1>5. Honoured(c)
    BY <1>2, <1>3 DEF TypeOK, Honoured, Starts
  <1>. QED  BY <1>4, <1>5 DEF Honoured, Starts

LEMMA NextHonours == TypeOK /\ [Next]_vars => [\A c \in Call : Honoured(c)]_vars
  <1>. SUFFICES ASSUME TypeOK, Next PROVE \A c \in Call : Honoured(c)
    OBVIOUS
  <1>1. ASSUME NEW c \in Call, NEW k \in Class, Execute(c, k)
        PROVE  \A d \in Call : Honoured(d)
    BY <1>1, ExecuteHonours
  <1>2. ASSUME NEW c \in Call, Returns(c) PROVE \A d \in Call : Honoured(d)
    BY <1>2 DEF Returns, Honoured, Starts, TypeOK
  <1>3. ASSUME NEW c \in Call, NEW kind \in Failure, Fails(c, kind)
        PROVE  \A d \in Call : Honoured(d)
    BY <1>3, FailsHonours
  <1>4. ASSUME NEW c \in Call, Wake(c) PROVE \A d \in Call : Honoured(d)
    BY <1>4 DEF Wake, Honoured, Starts, TypeOK
  <1>5. ASSUME UNCHANGED local PROVE \A d \in Call : Honoured(d)
    BY <1>5 DEF local, Honoured, Starts
  <1>. QED  BY <1>1, <1>2, <1>3, <1>4, <1>5
            DEF Next, Attempted, ProcessesLate, CooldownEnds, Tick

\* No call goes to an endpoint in cooldown, whoever put it there, unless it
\* chose that endpoint before a back-off of its own.
THEOREM CooldownsHonoured == Spec => CooldownHonoured
  <1>1. IInv /\ [Next]_vars => [\A c \in Call : Honoured(c)]_vars
    BY NextHonours DEF IInv
  <1>2. [\A c \in Call : Honoured(c)]_vars =>
           [\A c \in Call :
              Starts(c) /\ ep'[c] \in cooling' => pc[c] = "sleeping"]_vars
    BY DEF Honoured
  <1>. QED  BY <1>1, <1>2, Inductive, PTL DEF Spec, CooldownHonoured

----------------------------------------------------------------------------
(* Sums over ages.  The library's induction theorems are out of the        *)
(* provers' reach, so what the recursive sums of the budget compute is     *)
(* proved from least counterexamples.                                      *)

LEMMA LeastNat ==
    ASSUME NEW S, S \subseteq Nat, S # {}
    PROVE  \E x \in S : \A y \in S : x <= y
  <1>. DEFINE R == {ss \in Nat \X Nat : ss[1] < ss[2]}
  <1>1. IsWellFoundedOn(R, Nat)
    BY NatLessThanWellFounded DEF OpToRel
  <1>. HIDE DEF R
  <1>2. PICK x \in S : \A y \in S : <<y, x>> \notin R
    BY <1>1, WFMin, Zenon
  <1>3. \A y \in S : x \in Nat /\ y \in Nat /\ ~(y < x)
    BY <1>2 DEF R
  <1>. QED  BY <1>3

\* g sums f over the ages below its argument, up to N of them.
SumsUpTo(N, f, g) ==
    /\ g \in [0 .. N -> Nat]
    /\ g[0] = 0
    /\ \A a \in 0 .. N - 1 : g[a + 1] = g[a] + f[a]

LEMMA SumsExist ==
    ASSUME NEW N \in Nat, NEW f, \A a \in 0 .. N - 1 : f[a] \in Nat
    PROVE  \E g : SumsUpTo(N, f, g)
  <1>. DEFINE bad == {n \in 0 .. N : ~\E g : SumsUpTo(n, f, g)}
  <1>1. CASE bad = {}
    BY <1>1
  <1>2. CASE bad # {}
    <2>0. bad \subseteq Nat
      OBVIOUS
    <2>1. PICK n \in bad : \A m \in bad : n <= m
      <3>. HIDE DEF bad
      <3>. QED  BY <1>2, <2>0, LeastNat
    <2>2. n \in 0 .. N /\ n \in Nat /\ ~\E g : SumsUpTo(n, f, g)
      OBVIOUS
    <2>3. n # 0
      <3>1. SumsUpTo(0, f, [x \in 0 .. 0 |-> 0])
        BY DEF SumsUpTo
      <3>. QED  BY <2>2, <3>1
    <2>4. n - 1 \in 0 .. N /\ n - 1 \in Nat /\ ~(n <= n - 1)
      BY <2>2, <2>3
    <2>5. PICK g : SumsUpTo(n - 1, f, g)
      BY <2>1, <2>4
    <2>. DEFINE h == [x \in 0 .. n |-> IF x = n THEN g[n - 1] + f[n - 1] ELSE g[x]]
    <2>6. f[n - 1] \in Nat
      BY <2>2, <2>4
    <2>7. h \in [0 .. n -> Nat]
      BY <2>4, <2>5, <2>6 DEF SumsUpTo
    <2>8. h[0] = 0 /\ \A a \in 0 .. n - 1 : h[a + 1] = h[a] + f[a]
      <3>1. h[0] = 0
        BY <2>2, <2>3, <2>5 DEF SumsUpTo
      <3>2. ASSUME NEW a \in 0 .. n - 1 PROVE h[a + 1] = h[a] + f[a]
        <4>1. CASE a = n - 1
          BY <2>2, <2>3, <4>1
        <4>2. CASE a # n - 1
          <5>1. a \in 0 .. (n - 1) - 1 /\ a \in 0 .. n /\ a + 1 \in 0 .. n
                /\ a # n /\ a + 1 # n
            BY <2>2, <4>2
          <5>. QED  BY <2>5, <5>1 DEF SumsUpTo
        <4>. QED  BY <4>1, <4>2
      <3>. QED  BY <3>1, <3>2
    <2>9. SumsUpTo(n, f, h)
      BY <2>7, <2>8 DEF SumsUpTo
    <2>. QED  BY <2>2, <2>9
  <1>. QED  BY <1>1, <1>2

LEMMA SumsUnique ==
    ASSUME NEW N \in Nat, NEW f, NEW g, NEW h, SumsUpTo(N, f, g), SumsUpTo(N, f, h)
    PROVE  g = h
  <1>. DEFINE bad == {n \in 0 .. N : g[n] # h[n]}
  <1>1. bad = {}
    <2>. SUFFICES ASSUME bad # {} PROVE FALSE
      OBVIOUS
    <2>0. bad \subseteq Nat
      OBVIOUS
    <2>1. PICK n \in bad : \A m \in bad : n <= m
      <3>. HIDE DEF bad
      <3>. QED  BY <2>0, LeastNat
    <2>2. n \in 0 .. N /\ n # 0 /\ g[n] # h[n]
      BY DEF SumsUpTo
    <2>3. n - 1 \in 0 .. N - 1 /\ n - 1 \in 0 .. N /\ ~(n <= n - 1) /\ (n - 1) + 1 = n
      BY <2>2
    <2>4. g[n - 1] = h[n - 1]
      BY <2>1, <2>3
    <2>5. g[(n - 1) + 1] = g[n - 1] + f[n - 1] /\ h[(n - 1) + 1] = h[n - 1] + f[n - 1]
      BY <2>3 DEF SumsUpTo
    <2>. QED  BY <2>2, <2>3, <2>4, <2>5
  <1>2. \A n \in 0 .. N : g[n] = h[n]
    BY <1>1
  <1>. QED  BY <1>2 DEF SumsUpTo

\* What a recursive sum over 0 .. N is
RunningSum(N, f, s) == s = [a \in 0 .. N |-> f[a] + (IF a = 0 THEN 0 ELSE s[a - 1])]

\* A recursive sum over 0 .. N is the sum of the N + 1 first ages.
LEMMA RecursiveSum ==
    ASSUME NEW N \in Nat, NEW f, NEW g, SumsUpTo(N + 1, f, g),
           NEW s, RunningSum(N, f, s),
           \A a \in 0 .. N : f[a] \in Nat
    PROVE  s[N] = g[N + 1]
  <1>. DEFINE bad == {n \in 0 .. N : s[n] # g[n + 1]}
  <1>0. \A a \in 0 .. N : s[a] = f[a] + (IF a = 0 THEN 0 ELSE s[a - 1])
    <2>. DEFINE r == [a \in 0 .. N |-> f[a] + (IF a = 0 THEN 0 ELSE s[a - 1])]
    <2>1. s = r
      BY DEF RunningSum
    <2>2. \A a \in 0 .. N : r[a] = f[a] + (IF a = 0 THEN 0 ELSE s[a - 1])
      OBVIOUS
    <2>. HIDE DEF r
    <2>. QED  BY <2>1, <2>2
  <1>1. bad = {}
    <2>. SUFFICES ASSUME bad # {} PROVE FALSE
      OBVIOUS
    <2>0. bad \subseteq Nat
      OBVIOUS
    <2>1. PICK n \in bad : \A m \in bad : n <= m
      <3>. HIDE DEF bad
      <3>. QED  BY <2>0, LeastNat
    <2>2. n \in 0 .. N /\ s[n] # g[n + 1] /\ n \in 0 .. (N + 1) - 1
      OBVIOUS
    <2>3. g[n + 1] = g[n] + f[n] /\ g[0] = 0
      BY <2>2 DEF SumsUpTo
    <2>4. CASE n = 0
      BY <1>0, <2>2, <2>3, <2>4
    <2>5. CASE n # 0
      <3>1. n - 1 \in 0 .. N /\ ~(n <= n - 1) /\ (n - 1) + 1 = n
        BY <2>2, <2>5
      <3>2. s[n - 1] = g[n]
        BY <2>1, <3>1
      <3>3. g[n] \in Nat /\ f[n] \in Nat
        BY <2>2 DEF SumsUpTo
      <3>4. s[n] = f[n] + g[n]
        BY <1>0, <2>2, <2>5, <3>2
      <3>. QED  BY <2>2, <2>3, <3>3, <3>4
    <2>. QED  BY <2>4, <2>5
  <1>2. \A n \in 0 .. N : s[n] = g[n + 1]
    BY <1>1
  <1>3. N \in 0 .. N
    OBVIOUS
  <1>. QED  BY <1>2, <1>3

\* Such a recursion has a solution.
LEMMA RecursiveSumExists ==
    ASSUME NEW N \in Nat, NEW f, NEW g, SumsUpTo(N + 1, f, g),
           \A a \in 0 .. N : f[a] \in Nat
    PROVE  \E s : s = [a \in 0 .. N |-> f[a] + (IF a = 0 THEN 0 ELSE s[a - 1])]
  <1>. DEFINE t == [a \in 0 .. N |-> g[a + 1]]
              r == [a \in 0 .. N |-> f[a] + (IF a = 0 THEN 0 ELSE t[a - 1])]
  <1>1. \A a \in 0 .. N : t[a] = r[a]
    <2>. SUFFICES ASSUME NEW a \in 0 .. N PROVE t[a] = r[a]
      OBVIOUS
    <2>1. g[a + 1] = g[a] + f[a] /\ g[0] = 0 /\ g[a] \in Nat /\ f[a] \in Nat
      BY DEF SumsUpTo
    <2>2. CASE a = 0
      BY <2>1, <2>2
    <2>3. CASE a # 0
      <3>1. a - 1 \in 0 .. N /\ (a - 1) + 1 = a
        BY <2>3
      <3>. QED  BY <2>1, <2>3, <3>1
    <2>. QED  BY <2>2, <2>3
  <1>2. t = r
    BY <1>1
  <1>. QED  BY <1>2

LEMMA SumsShorter ==
    ASSUME NEW N \in Nat, NEW M \in 0 .. N, NEW f, NEW g, SumsUpTo(N, f, g)
    PROVE  SumsUpTo(M, f, [x \in 0 .. M |-> g[x]])
  <1>1. \A x \in 0 .. M : x \in 0 .. N
    OBVIOUS
  <1>2. \A a \in 0 .. M - 1 : a \in 0 .. N - 1 /\ a \in 0 .. M /\ a + 1 \in 0 .. M
    OBVIOUS
  <1>. QED  BY <1>1, <1>2 DEF SumsUpTo

\* What the recursions of the budget compute: the entries that prune keeps, and
\* all of two windows.
LEMMA TotalIsSum ==
    ASSUME NEW f \in [Ages -> Nat], NEW g, SumsUpTo(2 * Window + 1, f, g)
    PROVE  Total(f) = g[Window + 1]
  <1>1. Window \in Nat /\ (\A a \in 0 .. Window : a \in Ages)
        /\ Window + 1 \in 0 .. 2 * Window + 1 /\ 2 * Window + 1 \in Nat
    BY EndpointPoolAssumption DEF Ages
  <1>2. PICK p : SumsUpTo(Window + 1, f, p) /\ p[Window + 1] = g[Window + 1]
    <2>. DEFINE p == [x \in 0 .. Window + 1 |-> g[x]]
    <2>1. SumsUpTo(Window + 1, f, p)
      BY <1>1, SumsShorter
    <2>2. p[Window + 1] = g[Window + 1]
      BY <1>1
    <2>. HIDE DEF p
    <2>. QED  BY <2>1, <2>2
  <1>. DEFINE Rec(s) == s = [a \in 0 .. Window |-> f[a] + (IF a = 0 THEN 0 ELSE s[a - 1])]
  <1>3. \A a \in 0 .. Window : f[a] \in Nat
    BY <1>1
  <1>4. \E s : Rec(s)
    BY <1>1, <1>2, <1>3, RecursiveSumExists
  <1>5. Total(f) = (CHOOSE s : Rec(s))[Window]
    BY DEF Total
  <1>6. Rec(CHOOSE s : Rec(s))
    BY <1>4
  <1>7. PICK s : Rec(s) /\ Total(f) = s[Window]
    <2>. HIDE DEF Rec
    <2>. QED  BY <1>5, <1>6
  <1>8. s[Window] = p[Window + 1]
    <2>1. RunningSum(Window, f, s)
      BY <1>7 DEF RunningSum
    <2> QED BY <1>1, <1>2, <1>3, <2>1, RecursiveSum
  <1>. QED  BY <1>2, <1>7, <1>8

\* RetriesWithinBudget without recursion.
LEMMA BudgetInSums ==
    ASSUME requests \in [Ages -> Nat], retries \in [Ages -> Nat],
           NEW gq, SumsUpTo(2 * Window + 1, requests, gq),
           NEW gt, SumsUpTo(2 * Window + 1, retries, gt),
           gt[Window + 1] <= AllowedFor(gq[2 * Window + 1])
    PROVE  RetriesWithinBudget
  <1>. DEFINE Rec(s) == s = [a \in 0 .. 2 * Window |->
                                requests[a] + (IF a = 0 THEN 0 ELSE s[a - 1])]
  <1>1. 2 * Window \in Nat
    BY EndpointPoolAssumption
  <1>2. \A a \in 0 .. 2 * Window : requests[a] \in Nat
    BY DEF Ages
  <1>3. \E s : Rec(s)
    BY <1>1, <1>2, RecursiveSumExists
  <1>4. Rec(CHOOSE s : Rec(s))
    BY <1>3
  <1>5. (CHOOSE s : Rec(s))[2 * Window] = gq[2 * Window + 1]
    <2>. DEFINE N == 2 * Window
    <2>1. PICK s : s = CHOOSE x : Rec(x)
      OBVIOUS
    <2>2. RunningSum(N, requests, s)
      BY <1>4, <2>1 DEF RunningSum
    <2>3. s[N] = gq[N + 1]
      BY <1>1, <1>2, <2>2, RecursiveSum
    <2>. QED BY <2>1, <2>3
  <1>6. RetriesWithinBudget <=>
           Total(retries) <= AllowedFor((CHOOSE s : Rec(s))[2 * Window])
    BY DEF RetriesWithinBudget, Ages
  <1>7. Total(retries) = gt[Window + 1]
    BY TotalIsSum
  <1>. QED  BY <1>5, <1>6, <1>7

\* A new entry adds one to every sum, and a tick moves the sums by one age.
LEMMA SumsEntered ==
    ASSUME NEW f \in [Ages -> Nat], NEW g, SumsUpTo(2 * Window + 1, f, g),
           NEW h, SumsUpTo(2 * Window + 1, Entered(f), h)
    PROVE  \A n \in 0 .. 2 * Window + 1 : h[n] = IF n = 0 THEN 0 ELSE g[n] + 1
  <1>. DEFINE e == [n \in 0 .. 2 * Window + 1 |-> IF n = 0 THEN 0 ELSE g[n] + 1]
  <1>1. Window \in Nat /\ 2 * Window + 1 \in Nat
    BY EndpointPoolAssumption
  <1>2. e \in [0 .. 2 * Window + 1 -> Nat] /\ e[0] = 0
    BY <1>1 DEF SumsUpTo
  <1>3. ASSUME NEW a \in 0 .. (2 * Window + 1) - 1 PROVE e[a + 1] = e[a] + Entered(f)[a]
    <2>1. a \in Ages /\ a \in 0 .. 2 * Window + 1 /\ a + 1 \in 0 .. 2 * Window + 1 /\ a + 1 # 0
      BY <1>1 DEF Ages
    <2>2. g[a + 1] = g[a] + f[a] /\ g[0] = 0 /\ g[a] \in Nat /\ f[a] \in Nat
      BY <2>1 DEF SumsUpTo
    <2>3. Entered(f)[a] = IF a = 0 THEN f[a] + 1 ELSE f[a]
      BY <2>1 DEF Entered
    <2>4. e[a + 1] = g[a + 1] + 1 /\ e[a] = IF a = 0 THEN 0 ELSE g[a] + 1
      BY <2>1
    <2>. HIDE DEF e
    <2>. QED  BY <2>2, <2>3, <2>4
  <1>. HIDE DEF e
  <1>4. SumsUpTo(2 * Window + 1, Entered(f), e)
    BY <1>2, <1>3 DEF SumsUpTo
  <1>5. h = e
    BY <1>1, <1>4, SumsUnique
  <1>. QED  BY <1>5 DEF e

LEMMA SumsOlder ==
    ASSUME NEW f \in [Ages -> Nat], NEW g, SumsUpTo(2 * Window + 1, f, g),
           NEW h, SumsUpTo(2 * Window + 1, Older(f), h)
    PROVE  \A n \in 0 .. 2 * Window + 1 : h[n] = IF n = 0 THEN 0 ELSE g[n - 1]
  <1>. DEFINE e == [n \in 0 .. 2 * Window + 1 |-> IF n = 0 THEN 0 ELSE g[n - 1]]
  <1>1. Window \in Nat /\ 2 * Window + 1 \in Nat
    BY EndpointPoolAssumption
  <1>2. e \in [0 .. 2 * Window + 1 -> Nat] /\ e[0] = 0
    <2>1. \A n \in 0 .. 2 * Window + 1 : n # 0 => n - 1 \in 0 .. 2 * Window + 1
      BY <1>1
    <2>. QED  BY <1>1, <2>1 DEF SumsUpTo
  <1>3. ASSUME NEW a \in 0 .. (2 * Window + 1) - 1 PROVE e[a + 1] = e[a] + Older(f)[a]
    <2>1. a \in Ages /\ a \in 0 .. 2 * Window + 1 /\ a + 1 \in 0 .. 2 * Window + 1 /\ a + 1 # 0
          /\ (a + 1) - 1 = a
      BY <1>1 DEF Ages
    <2>2. e[a + 1] = g[a] /\ e[a] = IF a = 0 THEN 0 ELSE g[a - 1]
      BY <2>1
    <2>3. Older(f)[a] = IF a = 0 THEN 0 ELSE f[a - 1]
      BY <2>1 DEF Older
    <2>. HIDE DEF e
    <2>4. CASE a = 0
      BY <2>2, <2>3, <2>4 DEF SumsUpTo
    <2>5. CASE a # 0
      <3>1. a - 1 \in 0 .. (2 * Window + 1) - 1 /\ (a - 1) + 1 = a
        BY <1>1, <2>1, <2>5
      <3>2. g[(a - 1) + 1] = g[a - 1] + f[a - 1]
        BY <3>1 DEF SumsUpTo
      <3>. QED  BY <2>2, <2>3, <2>5, <3>1, <3>2
    <2>. QED  BY <2>4, <2>5
  <1>. HIDE DEF e
  <1>4. SumsUpTo(2 * Window + 1, Older(f), e)
    BY <1>2, <1>3 DEF SumsUpTo
  <1>5. h = e
    BY <1>1, <1>4, SumsUnique
  <1>. QED  BY <1>5 DEF e

LEMMA SumsGrow ==
    ASSUME NEW N \in Nat, NEW f, NEW g, SumsUpTo(N, f, g), \A a \in 0 .. N - 1 : f[a] \in Nat,
           NEW m \in 0 .. N, NEW n \in 0 .. N, m <= n
    PROVE  g[m] <= g[n]
  <1>. DEFINE bad == {k \in 0 .. N : m <= k /\ ~(g[m] <= g[k])}
  <1>1. bad = {}
    <2>. SUFFICES ASSUME bad # {} PROVE FALSE
      OBVIOUS
    <2>0. bad \subseteq Nat
      OBVIOUS
    <2>1. PICK k \in bad : \A j \in bad : k <= j
      <3>. HIDE DEF bad
      <3>. QED  BY <2>0, LeastNat
    <2>2. k \in 0 .. N /\ m <= k /\ ~(g[m] <= g[k])
      OBVIOUS
    <2>3. k # m /\ g[m] \in Nat
      BY <2>2 DEF SumsUpTo
    <2>4. k - 1 \in 0 .. N - 1 /\ k - 1 \in 0 .. N /\ m <= k - 1 /\ ~(k <= k - 1)
          /\ (k - 1) + 1 = k
      BY <2>2, <2>3
    <2>5. g[m] <= g[k - 1]
      BY <2>1, <2>4
    <2>6. g[(k - 1) + 1] = g[k - 1] + f[k - 1] /\ g[k - 1] \in Nat /\ f[k - 1] \in Nat
      BY <2>4 DEF SumsUpTo
    <2>. QED  BY <2>2, <2>3, <2>4, <2>5, <2>6
  <1>2. \A k \in 0 .. N : m <= k => g[m] <= g[k]
    BY <1>1
  <1>. QED  BY <1>2

LEMMA SumsOfNothing ==
    ASSUME NEW N \in Nat, NEW f, NEW g, SumsUpTo(N, f, g),
           NEW n \in 0 .. N, \A a \in 0 .. n - 1 : f[a] = 0
    PROVE  g[n] = 0
  <1>. DEFINE bad == {k \in 0 .. n : g[k] # 0}
  <1>1. bad = {}
    <2>. SUFFICES ASSUME bad # {} PROVE FALSE
      OBVIOUS
    <2>0. bad \subseteq Nat
      OBVIOUS
    <2>1. PICK k \in bad : \A j \in bad : k <= j
      <3>. HIDE DEF bad
      <3>. QED  BY <2>0, LeastNat
    <2>2. k \in 0 .. n /\ g[k] # 0 /\ k # 0
      BY DEF SumsUpTo
    <2>3. k - 1 \in 0 .. N - 1 /\ k - 1 \in 0 .. n - 1 /\ k - 1 \in 0 .. n
          /\ ~(k <= k - 1) /\ (k - 1) + 1 = k
      BY <2>2
    <2>4. g[k - 1] = 0 /\ f[k - 1] = 0
      BY <2>1, <2>3
    <2>5. g[(k - 1) + 1] = g[k - 1] + f[k - 1]
      BY <2>3 DEF SumsUpTo
    <2>. QED  BY <2>2, <2>3, <2>4, <2>5
  <1>2. \A k \in 0 .. n : g[k] = 0
    BY <1>1
  <1>. QED  BY <1>2

----------------------------------------------------------------------------
(* The retry budget *)

\* More requests allow more retries.
LEMMA DivMonotone ==
    ASSUME NEW x \in Nat, NEW y \in Nat, x <= y, NEW d \in Nat \ {0}
    PROVE  x \div d \in Nat /\ x \div d <= y \div d
  <1>1. /\ x \div d \in Nat /\ y \div d \in Nat
        /\ d * (x \div d) <= x /\ y < d * (y \div d) + d
    OBVIOUS
  <1>2. PICK p \in Nat, q \in Nat : p = x \div d /\ q = y \div d
    BY <1>1
  <1>3. d * p <= x /\ y < d * q + d
    BY <1>1, <1>2
  <1>4. ~(p > q)
    <2>. SUFFICES ASSUME p > q PROVE FALSE
      OBVIOUS
    <2>1. PICK e \in Nat : p = q + 1 + e
      <3>1. p - q - 1 \in Nat /\ p = q + 1 + (p - q - 1)
        OBVIOUS
      <3>. QED  BY <3>1
    <2>2. d * p = d * q + d + d * e /\ d * e \in Nat /\ d * q \in Nat
      BY <2>1
    <2>. QED  BY <1>3, <2>2
  <1>. QED  BY <1>1, <1>2, <1>4

LEMMA AllowedGrows ==
    ASSUME NEW m \in Nat, NEW n \in Nat, m <= n
    PROVE  AllowedFor(m) \in Nat /\ AllowedFor(m) <= AllowedFor(n)
  <1>1. PICK p \in Nat, d \in Nat \ {0} : p = Ratio[1] /\ d = Ratio[2]
    BY EndpointPoolAssumption
  <1>2. m * p \in Nat /\ n * p \in Nat /\ m * p <= n * p
    <2>1. PICK k \in Nat : n = m + k
      <3>1. n - m \in Nat /\ n = m + (n - m)
        OBVIOUS
      <3>. QED  BY <3>1
    <2>2. n * p = m * p + k * p /\ k * p \in Nat /\ m * p \in Nat
      BY <2>1
    <2>. QED  BY <2>2
  <1>3. (m * p) \div d \in Nat /\ (n * p) \div d \in Nat /\ (m * p) \div d <= (n * p) \div d
    BY <1>2, DivMonotone
  <1>4. \A k : AllowedFor(k) = IF (k * p) \div d > MinRetries THEN (k * p) \div d ELSE MinRetries
    BY <1>1 DEF AllowedFor
  <1>5. MinRetries \in Nat
    BY EndpointPoolAssumption
  <1>. QED  BY <1>3, <1>4, <1>5

\* When a retry was granted, the retries of the window before it stayed within
\* the share of that window's requests, and they do while both grow older.
Granted ==
    \A gq, gt :
        SumsUpTo(2 * Window + 1, requests, gq) /\ SumsUpTo(2 * Window + 1, retries, gt) =>
            \A a \in 0 .. Window : retries[a] > 0 =>
                gt[a + Window + 1] - gt[a] <= AllowedFor(gq[a + Window + 1] - gq[a])

BudgetInv == requests \in [Ages -> Nat] /\ retries \in [Ages -> Nat] /\ Granted

\* Where the sums of a window lie.
LEMMA WindowSums ==
    ASSUME NEW f \in [Ages -> Nat], NEW g, SumsUpTo(2 * Window + 1, f, g)
    PROVE  /\ Window \in Nat /\ 2 * Window + 1 \in Nat /\ g[0] = 0
           /\ \A a \in 0 .. Window :
                 /\ a \in Ages /\ a \in 0 .. 2 * Window + 1
                 /\ a + Window + 1 \in 0 .. 2 * Window + 1
                 /\ g[a] \in Nat /\ g[a + Window + 1] \in Nat
                 /\ g[a] <= g[a + Window + 1] /\ g[a + Window + 1] <= g[2 * Window + 1]
                 /\ g[Window + 1] <= g[a + Window + 1]
           /\ g[2 * Window + 1] \in Nat /\ g[Window + 1] \in Nat
  <1>1. Window \in Nat /\ 2 * Window + 1 \in Nat /\ g[0] = 0
    BY EndpointPoolAssumption DEF SumsUpTo
  <1>2. \A a \in 0 .. (2 * Window + 1) - 1 : f[a] \in Nat
    BY <1>1 DEF Ages
  <1>3. ASSUME NEW a \in 0 .. Window
        PROVE  /\ a \in Ages /\ a \in 0 .. 2 * Window + 1
               /\ a + Window + 1 \in 0 .. 2 * Window + 1
               /\ a <= a + Window + 1 /\ a + Window + 1 <= 2 * Window + 1
               /\ Window + 1 <= a + Window + 1
    BY <1>1 DEF Ages
  <1>4. Window + 1 \in 0 .. 2 * Window + 1 /\ 2 * Window + 1 \in 0 .. 2 * Window + 1
    BY <1>1
  <1>5. \A n \in 0 .. 2 * Window + 1 : g[n] \in Nat
    BY DEF SumsUpTo
  <1>6. \A m, n \in 0 .. 2 * Window + 1 : m <= n => g[m] <= g[n]
    BY <1>1, <1>2, SumsGrow
  <1>. QED  BY <1>1, <1>3, <1>4, <1>5, <1>6

LEMMA BudgetBounds == BudgetInv => RetriesWithinBudget
  <1>. SUFFICES ASSUME BudgetInv PROVE RetriesWithinBudget
    OBVIOUS
  <1>0. requests \in [Ages -> Nat] /\ retries \in [Ages -> Nat]
    BY DEF BudgetInv
  <1>1. 2 * Window + 1 \in Nat /\ \A a \in 0 .. (2 * Window + 1) - 1 : a \in Ages
    BY EndpointPoolAssumption DEF Ages
  <1>2. PICK gq : SumsUpTo(2 * Window + 1, requests, gq)
    BY <1>0, <1>1, SumsExist
  <1>3. PICK gt : SumsUpTo(2 * Window + 1, retries, gt)
    BY <1>0, <1>1, SumsExist
  <1>4. gq[2 * Window + 1] \in Nat /\ gt[Window + 1] \in Nat
    BY <1>0, <1>2, <1>3, WindowSums
  <1>5. gt[Window + 1] <= AllowedFor(gq[2 * Window + 1])
    <2>. DEFINE granted == {a \in 0 .. Window : retries[a] > 0}
    <2>1. CASE granted = {}
      <3>1. \A a \in 0 .. (Window + 1) - 1 : retries[a] = 0
        <4>. SUFFICES ASSUME NEW a \in 0 .. (Window + 1) - 1, retries[a] # 0 PROVE FALSE
          OBVIOUS
        <4>1. a \in 0 .. Window /\ a \in Ages
          BY EndpointPoolAssumption DEF Ages
        <4>2. a \in granted
          BY <1>0, <4>1
        <4>. QED  BY <2>1, <4>2
      <3>2. gt[Window + 1] = 0
        <4>1. Window + 1 \in 0 .. 2 * Window + 1
          BY EndpointPoolAssumption
        <4>. QED  BY <1>1, <1>3, <3>1, <4>1, SumsOfNothing
      <3>3. AllowedFor(gq[2 * Window + 1]) \in Nat
        BY <1>4, AllowedGrows
      <3>. QED  BY <3>2, <3>3
    <2>2. CASE granted # {}
      <3>0. granted \subseteq Nat
        OBVIOUS
      <3>1. PICK a \in granted : \A b \in granted : a <= b
        <4>. HIDE DEF granted
        <4>. QED  BY <2>2, <3>0, LeastNat
      <3>2. a \in 0 .. Window /\ retries[a] > 0
        OBVIOUS
      <3>3. \A b \in 0 .. a - 1 : retries[b] = 0
        <4>. SUFFICES ASSUME NEW b \in 0 .. a - 1, retries[b] # 0 PROVE FALSE
          OBVIOUS
        <4>1. b \in 0 .. Window /\ b \in Ages /\ ~(a <= b)
          BY <3>2, EndpointPoolAssumption DEF Ages
        <4>2. b \in granted
          BY <1>0, <4>1
        <4>. QED  BY <3>1, <4>1, <4>2
      <3>4. gt[a] = 0
        <4>1. a \in 0 .. 2 * Window + 1
          BY <3>2, <1>0, <1>3, WindowSums
        <4>. QED  BY <1>1, <1>3, <3>3, <4>1, SumsOfNothing
      <3>5. gt[a + Window + 1] - gt[a] <= AllowedFor(gq[a + Window + 1] - gq[a])
        BY <1>2, <1>3, <3>2 DEF BudgetInv, Granted
      <3>6. /\ gt[Window + 1] <= gt[a + Window + 1] /\ gt[a + Window + 1] \in Nat
            /\ gq[a + Window + 1] <= gq[2 * Window + 1]
            /\ gq[a] <= gq[a + Window + 1] /\ gq[a] \in Nat /\ gq[a + Window + 1] \in Nat
        BY <1>0, <1>2, <1>3, <3>2, WindowSums
      <3>7. /\ gq[a + Window + 1] - gq[a] \in Nat
            /\ gq[a + Window + 1] - gq[a] <= gq[2 * Window + 1]
        BY <1>4, <3>6
      <3>8. /\ AllowedFor(gq[a + Window + 1] - gq[a]) \in Nat
            /\ AllowedFor(gq[2 * Window + 1]) \in Nat
            /\ AllowedFor(gq[a + Window + 1] - gq[a]) <= AllowedFor(gq[2 * Window + 1])
        BY <1>4, <3>7, AllowedGrows
      <3>. QED  BY <1>4, <3>4, <3>5, <3>6, <3>8
    <2>. QED  BY <2>1, <2>2
  <1>. QED  BY <1>0, <1>2, <1>3, <1>5, BudgetInSums

LEMMA RequestEntered ==
    ASSUME BudgetInv, requests' = Entered(requests), UNCHANGED retries
    PROVE  BudgetInv'
  <1>0. requests \in [Ages -> Nat] /\ retries \in [Ages -> Nat]
    BY DEF BudgetInv
  <1>1. requests' \in [Ages -> Nat] /\ retries' \in [Ages -> Nat]
    BY <1>0, BudgetType
  <1>2. 2 * Window + 1 \in Nat /\ \A a \in 0 .. (2 * Window + 1) - 1 : a \in Ages
    BY EndpointPoolAssumption DEF Ages
  <1>3. ASSUME NEW hq, NEW gt, SumsUpTo(2 * Window + 1, Entered(requests), hq),
               SumsUpTo(2 * Window + 1, retries, gt),
               NEW a \in 0 .. Window, retries[a] > 0
        PROVE  gt[a + Window + 1] - gt[a] <= AllowedFor(hq[a + Window + 1] - hq[a])
    <2>1. PICK gq : SumsUpTo(2 * Window + 1, requests, gq)
      BY <1>0, <1>2, SumsExist
    <2>2. gt[a + Window + 1] - gt[a] <= AllowedFor(gq[a + Window + 1] - gq[a])
      BY <1>3, <2>1 DEF BudgetInv, Granted
    <2>3. /\ a \in 0 .. 2 * Window + 1 /\ a + Window + 1 \in 0 .. 2 * Window + 1
          /\ gq[a] \in Nat /\ gq[a + Window + 1] \in Nat /\ gq[a] <= gq[a + Window + 1]
          /\ gt[a] \in Nat /\ gt[a + Window + 1] \in Nat /\ gq[0] = 0
      BY <1>0, <1>3, <2>1, WindowSums
    <2>4. /\ hq[a + Window + 1] = gq[a + Window + 1] + 1
          /\ hq[a] = IF a = 0 THEN 0 ELSE gq[a] + 1
      <3>1. a + Window + 1 # 0
        BY EndpointPoolAssumption
      <3>. QED  BY <1>0, <1>3, <2>1, <2>3, <3>1, SumsEntered
    <2>5. /\ gq[a + Window + 1] - gq[a] \in Nat /\ hq[a + Window + 1] - hq[a] \in Nat
          /\ gq[a + Window + 1] - gq[a] <= hq[a + Window + 1] - hq[a]
      BY <2>3, <2>4
    <2>6. /\ AllowedFor(gq[a + Window + 1] - gq[a]) \in Nat
          /\ AllowedFor(hq[a + Window + 1] - hq[a]) \in Nat
          /\ AllowedFor(gq[a + Window + 1] - gq[a]) <= AllowedFor(hq[a + Window + 1] - hq[a])
      BY <2>5, AllowedGrows
    <2>. QED  BY <2>2, <2>3, <2>6
  <1>4. Granted'
    BY <1>3 DEF Granted
  <1>. QED  BY <1>1, <1>4 DEF BudgetInv

LEMMA RetryEntered ==
    ASSUME BudgetInv, TryAcquire, retries' = Entered(retries), UNCHANGED requests
    PROVE  BudgetInv'
  <1>0. requests \in [Ages -> Nat] /\ retries \in [Ages -> Nat]
    BY DEF BudgetInv
  <1>1. requests' \in [Ages -> Nat] /\ retries' \in [Ages -> Nat]
    BY <1>0, BudgetType
  <1>2. 2 * Window + 1 \in Nat /\ \A a \in 0 .. (2 * Window + 1) - 1 : a \in Ages
    BY EndpointPoolAssumption DEF Ages
  <1>3. ASSUME NEW gq, NEW ht, SumsUpTo(2 * Window + 1, requests, gq),
               SumsUpTo(2 * Window + 1, Entered(retries), ht),
               NEW a \in 0 .. Window, Entered(retries)[a] > 0
        PROVE  ht[a + Window + 1] - ht[a] <= AllowedFor(gq[a + Window + 1] - gq[a])
    <2>1. PICK gt : SumsUpTo(2 * Window + 1, retries, gt)
      BY <1>0, <1>2, SumsExist
    <2>2. /\ a \in Ages
          /\ a \in 0 .. 2 * Window + 1 /\ a + Window + 1 \in 0 .. 2 * Window + 1
          /\ gt[a] \in Nat /\ gt[a + Window + 1] \in Nat /\ gt[0] = 0
      BY <1>0, <2>1, WindowSums
    <2>3. /\ ht[a + Window + 1] = gt[a + Window + 1] + 1
          /\ ht[a] = IF a = 0 THEN 0 ELSE gt[a] + 1
      <3>1. a + Window + 1 # 0
        BY EndpointPoolAssumption
      <3>. QED  BY <1>0, <1>3, <2>1, <2>2, <3>1, SumsEntered
    <2>4. CASE a = 0
      <3>1. Total(retries) = gt[Window + 1] /\ Total(requests) = gq[Window + 1]
        BY <1>0, <1>3, <2>1, TotalIsSum
      <3>2. gt[Window + 1] < AllowedFor(gq[Window + 1])
        BY <3>1 DEF TryAcquire
      <3>3. /\ gq[0] = 0 /\ gq[Window + 1] \in Nat /\ gt[Window + 1] \in Nat
            /\ 0 + Window + 1 = Window + 1 /\ gq[Window + 1] - 0 = gq[Window + 1]
        BY <1>0, <1>3, <2>1, WindowSums
      <3>4. AllowedFor(gq[Window + 1]) \in Nat
        BY <3>3, AllowedGrows
      <3>5. ht[Window + 1] = gt[Window + 1] + 1 /\ ht[0] = 0
        BY <2>3, <2>4, <3>3
      <3>6. ht[Window + 1] - ht[0] <= AllowedFor(gq[Window + 1])
        BY <3>2, <3>3, <3>4, <3>5
      <3>. QED  BY <2>4, <3>3, <3>6
    <2>5. CASE a # 0
      <3>1. retries[a] > 0
        BY <1>0, <1>3, <2>2, <2>5 DEF Entered
      <3>2. gt[a + Window + 1] - gt[a] <= AllowedFor(gq[a + Window + 1] - gq[a])
        BY <1>3, <2>1, <3>1 DEF BudgetInv, Granted
      <3>3. ht[a + Window + 1] - ht[a] = gt[a + Window + 1] - gt[a]
        BY <2>2, <2>3, <2>5
      <3>. QED  BY <3>2, <3>3
    <2>. QED  BY <2>4, <2>5
  <1>4. Granted'
    BY <1>3 DEF Granted
  <1>. QED  BY <1>1, <1>4 DEF BudgetInv

LEMMA TickBudget ==
    ASSUME BudgetInv, Tick
    PROVE  BudgetInv'
  <1>0. requests \in [Ages -> Nat] /\ retries \in [Ages -> Nat]
    BY DEF BudgetInv
  <1>1. requests' = Older(requests) /\ retries' = Older(retries)
        /\ requests' \in [Ages -> Nat] /\ retries' \in [Ages -> Nat]
    BY <1>0, BudgetType DEF Tick
  <1>2. 2 * Window + 1 \in Nat /\ Window \in Nat
        /\ \A a \in 0 .. (2 * Window + 1) - 1 : a \in Ages
    BY EndpointPoolAssumption DEF Ages
  <1>3. ASSUME NEW hq, NEW ht, SumsUpTo(2 * Window + 1, Older(requests), hq),
               SumsUpTo(2 * Window + 1, Older(retries), ht),
               NEW a \in 0 .. Window, Older(retries)[a] > 0
        PROVE  ht[a + Window + 1] - ht[a] <= AllowedFor(hq[a + Window + 1] - hq[a])
    <2>1. PICK gq : SumsUpTo(2 * Window + 1, requests, gq)
      BY <1>0, <1>2, SumsExist
    <2>2. PICK gt : SumsUpTo(2 * Window + 1, retries, gt)
      BY <1>0, <1>2, SumsExist
    <2>3. a \in Ages
      BY <1>2 DEF Ages
    <2>4. a # 0 /\ retries[a - 1] > 0
      BY <1>3, <2>3 DEF Older
    <2>5. /\ a - 1 \in 0 .. Window /\ (a - 1) + Window + 1 = a + Window
          /\ a \in 0 .. 2 * Window + 1 /\ a + Window + 1 \in 0 .. 2 * Window + 1
          /\ a + Window + 1 # 0 /\ (a + Window + 1) - 1 = a + Window
      BY <1>2, <2>4
    <2>6. gt[a + Window] - gt[a - 1] <= AllowedFor(gq[a + Window] - gq[a - 1])
      BY <2>1, <2>2, <2>4, <2>5 DEF BudgetInv, Granted
    <2>7. /\ ht[a + Window + 1] = gt[a + Window] /\ ht[a] = gt[a - 1]
          /\ hq[a + Window + 1] = gq[a + Window] /\ hq[a] = gq[a - 1]
      BY <1>0, <1>3, <2>1, <2>2, <2>4, <2>5, SumsOlder
    <2>. QED  BY <2>6, <2>7
  <1>4. Granted'
    BY <1>1, <1>3 DEF Granted
  <1>. QED  BY <1>1, <1>4 DEF BudgetInv

LEMMA InitBudget == Init => BudgetInv
  <1>. SUFFICES ASSUME Init PROVE BudgetInv
    OBVIOUS
  <1>1. requests \in [Ages -> Nat] /\ retries \in [Ages -> Nat]
    BY DEF Init
  <1>2. \A a \in 0 .. Window : retries[a] = 0
    BY EndpointPoolAssumption DEF Init, Ages
  <1>. QED  BY <1>1, <1>2 DEF BudgetInv, Granted

LEMMA NextBudget == BudgetInv /\ [Next]_vars => BudgetInv'
  <1>. SUFFICES ASSUME BudgetInv, [Next]_vars PROVE BudgetInv'
    OBVIOUS
  <1>1. ASSUME UNCHANGED budget PROVE BudgetInv'
    BY <1>1 DEF BudgetInv, Granted, budget
  <1>2. ASSUME NEW c \in Call, NEW k \in Class, Execute(c, k) PROVE BudgetInv'
    BY <1>2, RequestEntered DEF Execute
  <1>3. ASSUME NEW c \in Call, NEW kind \in Failure, Fails(c, kind) PROVE BudgetInv'
    <2>1. UNCHANGED requests
      BY <1>3 DEF Fails
    <2>2. UNCHANGED retries \/ (TryAcquire /\ retries' = Entered(retries))
      BY <1>3 DEF Fails
    <2>. QED  BY <1>1, <2>1, <2>2, RetryEntered DEF budget
  <1>4. CASE Tick
    BY <1>4, TickBudget
  <1>. QED  BY <1>1, <1>2, <1>3, <1>4
            DEF Next, Attempted, Returns, Wake, ProcessesLate, CooldownEnds, vars

\* Under every interleaving of calls and however the windows slide, the retries
\* of a window stay within the share that the requests of two windows allow.
THEOREM RetriesCapped == Spec => []RetriesWithinBudget
  BY InitBudget, NextBudget, BudgetBounds, PTL DEF Spec

-----------------------------------------------------------------------------
(* RpcGuard: the probe flag *)

Phases == {"idle", "queued", "active", "ok", "failed"}

\* The probes of this period exist in the half-open state only, each is under
\* way, and the flag is up with them.
ProbeInv ==
    /\ phase \in [RpcCall -> Phases]
    /\ probes \in [RpcCall -> {"no", "this", "old"}]
    /\ halfOpenInFlight \in BOOLEAN
    /\ \A c \in RpcCall : phase[c] = "idle" => probes[c] = "no"
    /\ \A c, d \in RpcCall : probes[c] = "this" /\ probes[d] = "this" => c = d
    /\ halfOpenInFlight => \E c \in RpcCall : probes[c] = "this"
    /\ \A c \in RpcCall : probes[c] = "this" => halfOpenInFlight
    /\ halfOpenInFlight => state = "half_open"

LEMMA InitProbe == GuardInit => ProbeInv
  BY DEF GuardInit, ProbeInv, Phases

\* acquire leaves the call under way and the others where they were.
LEMMA AcquirePhase ==
  ASSUME ProbeInv, NEW c \in RpcCall, AcquireSlot(c)
  PROVE  /\ phase' \in [RpcCall -> Phases]
         /\ phase'[c] # "idle"
         /\ \A d \in RpcCall \ {c} : phase'[d] = phase[d]
  BY DEF AcquireSlot, ProbeInv, Phases

\* release ends one call and may start another; none becomes idle.
LEMMA ReleasePhase ==
  ASSUME ProbeInv, NEW c \in RpcCall, phase[c] = "active",
         NEW result \in {"ok", "failed"}, ReleaseSlot(c, result)
  PROVE  /\ phase' \in [RpcCall -> Phases]
         /\ \A d \in RpcCall : phase'[d] = "idle" => phase[d] = "idle"
  <1>1. CASE queue = <<>>
    BY <1>1 DEF ReleaseSlot, ProbeInv, Phases
  <1>2. CASE queue # <<>>
    <2> DEFINE h == Head(queue)
    <2>1. phase' = [phase EXCEPT ![c] = result, ![h] = "active"]
      BY <1>2 DEF ReleaseSlot
    <2> HIDE DEF h
    <2> QED BY <2>1 DEF ProbeInv, Phases
  <1> QED BY <1>1, <1>2

\* The end of any call takes the circuit out of the half-open state, with
\* which the flag goes down and the period ends.
LEMMA SettleProbe ==
  ASSUME ProbeInv, NEW c \in RpcCall, Settle(c)
  PROVE  ProbeInv'
  <1>1. /\ halfOpenInFlight' = FALSE
        /\ phase' = [phase EXCEPT ![c] = "idle"]
        /\ probes' = ProbesAfter(c)
    BY DEF Settle
  <1>2. state = "half_open" => state' # "half_open"
    BY DEF Settle, OnSuccess, OnFailure, TransitionTo
  <1>3. \A d \in RpcCall : probes[d] = "this" => state' # "half_open"
    BY <1>2 DEF ProbeInv
  <1>4. \A d \in RpcCall : probes'[d] # "this"
    BY <1>1, <1>3 DEF ProbesAfter, ProbeInv
  <1>5. /\ probes' \in [RpcCall -> {"no", "this", "old"}]
        /\ \A d \in RpcCall : phase'[d] = "idle" => probes'[d] = "no"
    BY <1>1 DEF ProbesAfter, ProbeInv
  <1> QED BY <1>1, <1>4, <1>5 DEF ProbeInv, Phases

LEMMA AdmittedProbe ==
  ASSUME ProbeInv, NEW c \in RpcCall, Admitted(c)
  PROVE  ProbeInv'
  <1>0. phase[c] = "idle" /\ AcquireSlot(c)
    BY DEF Admitted
  <1>1. /\ phase' \in [RpcCall -> Phases]
        /\ phase'[c] # "idle"
        /\ \A d \in RpcCall \ {c} : phase'[d] = phase[d]
    BY <1>0, AcquirePhase
  <1>2. CASE UNCHANGED <<breakerVars, probes>>
    BY <1>1, <1>2 DEF ProbeInv, breakerVars
  <1>3. CASE /\ ~halfOpenInFlight
             /\ halfOpenInFlight' = TRUE
             /\ state' = "half_open"
             /\ probes' = [probes EXCEPT ![c] = "this"]
    <2>1. \A d \in RpcCall : probes[d] # "this"
      BY <1>3 DEF ProbeInv
    <2> QED BY <1>1, <1>3, <2>1 DEF ProbeInv
  <1> QED BY <1>2, <1>3 DEF Admitted, TransitionTo

LEMMA NextProbe == ProbeInv /\ [GuardNext]_guardVars => ProbeInv'
  <1> SUFFICES ASSUME ProbeInv, [GuardNext]_guardVars PROVE ProbeInv'
    OBVIOUS
  <1>1. CASE GetMetrics
    BY <1>1 DEF GetMetrics, TransitionTo, ProbeInv
  <1>2. CASE Elapse
    BY <1>2 DEF Elapse, ProbeInv
  <1>3. ASSUME NEW c \in RpcCall, Admitted(c) PROVE ProbeInv'
    BY <1>3, AdmittedProbe
  <1>4. ASSUME NEW c \in RpcCall, ServiceEnds(c) PROVE ProbeInv'
    <2>1. PICK result \in {"ok", "failed"} : ReleaseSlot(c, result)
      BY <1>4 DEF ServiceEnds
    <2>2. phase[c] = "active" /\ UNCHANGED <<breakerVars, probes>>
      BY <1>4 DEF ServiceEnds
    <2>3. /\ phase' \in [RpcCall -> Phases]
          /\ \A d \in RpcCall : phase'[d] = "idle" => phase[d] = "idle"
      BY <2>1, <2>2, ReleasePhase
    <2> QED BY <2>2, <2>3 DEF ProbeInv, breakerVars
  <1>5. ASSUME NEW c \in RpcCall, Settle(c) PROVE ProbeInv'
    BY <1>5, SettleProbe
  <1>6. CASE UNCHANGED guardVars
    BY <1>6 DEF guardVars, breakerVars, ProbeInv
  <1> QED BY <1>1, <1>2, <1>3, <1>4, <1>5, <1>6 DEF GuardNext, CallStep

\* A half-open period admits one call, and the flag that makes execute refuse
\* the others is up exactly while that call is under way: no earlier call can
\* leave it up and so shut the breaker for good.
THEOREM ProbeFlagHasOwner == GuardSpec => []FlagHasOwner
  <1>1. ProbeInv => FlagHasOwner
    BY DEF ProbeInv, FlagHasOwner
  <1> QED BY <1>1, InitProbe, NextProbe, PTL DEF GuardSpec

-----------------------------------------------------------------------------
(* RpcGuard: the limiter *)

USE RpcGuardAssumption DEF RpcGuardAssumption

Active(ph) == {c \in RpcCall : ph[c] = "active"}
Queued(ph) == {c \in RpcCall : ph[c] = "queued"}

\* A call is in the queue once, and it is there while it is queued.
QueueHolds(q, ph) ==
    /\ q \in Seq(RpcCall)
    /\ \A i \in 1 .. Len(q) : ph[q[i]] = "queued"
    /\ \A i, j \in 1 .. Len(q) : q[i] = q[j] => i = j
    /\ \A c \in Queued(ph) : \E i \in 1 .. Len(q) : q[i] = c
    /\ Len(q) = Cardinality(Queued(ph))

SlotsInv ==
    /\ phase \in [RpcCall -> Phases]
    /\ activeRequests \in Nat
    /\ activeRequests = Cardinality(Active(phase))
    /\ QueueHolds(queue, phase)
    /\ queue # <<>> => activeRequests = MaxConcurrent
    /\ activeRequests <= MaxConcurrent
    /\ Len(queue) <= MaxQueueSize

LEMMA CallsFinite ==
  \A ph : /\ IsFiniteSet(Active(ph)) /\ Cardinality(Active(ph)) \in Nat
          /\ IsFiniteSet(Queued(ph)) /\ Cardinality(Queued(ph)) \in Nat
  <1> TAKE ph
  <1>1. IsFiniteSet(Active(ph)) /\ IsFiniteSet(Queued(ph))
    BY FS_Subset DEF Active, Queued
  <1> QED BY <1>1, FS_CardinalityType

\* A call that is neither active nor queued, before and after.
LEMMA PhaseElsewhere ==
  ASSUME SlotsInv, NEW ph \in [RpcCall -> Phases],
         Active(ph) = Active(phase), Queued(ph) = Queued(phase),
         UNCHANGED limiterVars, phase' = ph
  PROVE  SlotsInv'
  <1>1. QueueHolds(queue, ph)
    <2>1. \A i \in 1 .. Len(queue) : queue[i] \in RpcCall
      BY DEF SlotsInv, QueueHolds
    <2>2. \A c \in RpcCall : phase[c] = "queued" <=> ph[c] = "queued"
      BY DEF Queued
    <2> QED BY <2>1, <2>2 DEF SlotsInv, QueueHolds
  <1> QED BY <1>1 DEF SlotsInv, limiterVars

\* One more call is active.
LEMMA SlotTaken ==
  ASSUME SlotsInv, NEW c \in RpcCall, phase[c] = "idle", activeRequests < MaxConcurrent,
         activeRequests' = activeRequests + 1,
         phase' = [phase EXCEPT ![c] = "active"], UNCHANGED queue
  PROVE  SlotsInv'
  <1>1. /\ Active(phase') = Active(phase) \cup {c} /\ c \notin Active(phase)
        /\ Queued(phase') = Queued(phase) /\ phase' \in [RpcCall -> Phases]
    BY DEF Active, Queued, SlotsInv, Phases
  <1>2. Cardinality(Active(phase')) = Cardinality(Active(phase)) + 1
    BY <1>1, CallsFinite, FS_AddElement
  <1>3. queue = <<>>
    BY DEF SlotsInv
  <1>4. QueueHolds(queue, phase')
    BY <1>1, <1>3 DEF SlotsInv, QueueHolds
  <1> QED BY <1>1, <1>2, <1>3, <1>4 DEF SlotsInv

\* One more call waits.
LEMMA WaiterJoins ==
  ASSUME SlotsInv, NEW c \in RpcCall, phase[c] = "idle", activeRequests >= MaxConcurrent,
         Len(queue) < MaxQueueSize, queue' = Append(queue, c),
         phase' = [phase EXCEPT ![c] = "queued"], UNCHANGED activeRequests
  PROVE  SlotsInv'
  <1>1. /\ Queued(phase') = Queued(phase) \cup {c} /\ c \notin Queued(phase)
        /\ Active(phase') = Active(phase) /\ phase' \in [RpcCall -> Phases]
    BY DEF Active, Queued, SlotsInv, Phases
  <1>2. Cardinality(Queued(phase')) = Cardinality(Queued(phase)) + 1
    BY <1>1, CallsFinite, FS_AddElement
  <1>3. queue \in Seq(RpcCall) /\ Len(queue) \in Nat
    BY DEF SlotsInv, QueueHolds
  <1>4. /\ queue' \in Seq(RpcCall) /\ Len(queue') = Len(queue) + 1
        /\ queue'[Len(queue) + 1] = c
        /\ \A i \in 1 .. Len(queue) : queue'[i] = queue[i] /\ queue[i] \in RpcCall
    BY <1>3
  <1>5. \A i \in 1 .. Len(queue') : i \in 1 .. Len(queue) \/ i = Len(queue) + 1
    BY <1>3, <1>4
  <1>6. \A i \in 1 .. Len(queue) : queue[i] # c /\ phase[queue[i]] = "queued"
    BY DEF SlotsInv, QueueHolds
  <1>7. QueueHolds(queue', phase')
    <2>1. \A i \in 1 .. Len(queue') : phase'[queue'[i]] = "queued"
      BY <1>4, <1>5, <1>6 DEF SlotsInv
    <2>2. \A i, j \in 1 .. Len(queue') : queue'[i] = queue'[j] => i = j
      BY <1>4, <1>5, <1>6 DEF SlotsInv, QueueHolds
    <2>3. \A d \in Queued(phase') : \E i \in 1 .. Len(queue') : queue'[i] = d
      <3> SUFFICES ASSUME NEW d \in Queued(phase')
                   PROVE  \E i \in 1 .. Len(queue') : queue'[i] = d
        OBVIOUS
      <3>1. CASE d = c
        BY <1>3, <1>4, <3>1
      <3>2. CASE d # c
        <4>1. PICK i \in 1 .. Len(queue) : queue[i] = d
          BY <1>1, <3>2 DEF SlotsInv, QueueHolds
        <4> QED BY <1>3, <1>4, <4>1
      <3> QED BY <3>1, <3>2
    <2> QED BY <1>2, <1>4, <2>1, <2>2, <2>3 DEF SlotsInv, QueueHolds
  <1>8. activeRequests = MaxConcurrent
    BY DEF SlotsInv
  <1>9. Len(queue') <= MaxQueueSize
    BY <1>3, <1>4
  <1> QED BY <1>1, <1>7, <1>8, <1>9 DEF SlotsInv

\* A call ends and nobody waits.
LEMMA SlotFreed ==
  ASSUME SlotsInv, NEW c \in RpcCall, phase[c] = "active", NEW result \in {"ok", "failed"},
         queue = <<>>, activeRequests' = activeRequests - 1,
         phase' = [phase EXCEPT ![c] = result], UNCHANGED queue
  PROVE  SlotsInv'
  <1>1. /\ Active(phase') = Active(phase) \ {c} /\ c \in Active(phase)
        /\ Queued(phase') = Queued(phase) /\ phase' \in [RpcCall -> Phases]
    BY DEF Active, Queued, SlotsInv, Phases
  <1>2. Cardinality(Active(phase')) = Cardinality(Active(phase)) - 1
    BY <1>1, CallsFinite, FS_RemoveElement
  <1>3. activeRequests' \in Nat /\ activeRequests' = Cardinality(Active(phase'))
        /\ activeRequests' <= MaxConcurrent
    BY <1>2, CallsFinite DEF SlotsInv
  <1>4. QueueHolds(queue', phase')
    BY <1>1 DEF SlotsInv, QueueHolds
  <1> QED BY <1>1, <1>3, <1>4 DEF SlotsInv

\* A call ends and the first waiter takes over its slot.
LEMMA SlotHandedOn ==
  ASSUME SlotsInv, NEW c \in RpcCall, phase[c] = "active", NEW result \in {"ok", "failed"},
         queue # <<>>, queue' = Tail(queue),
         phase' = [phase EXCEPT ![c] = result, ![Head(queue)] = "active"],
         UNCHANGED activeRequests
  PROVE  SlotsInv'
  <1>1. /\ queue \in Seq(RpcCall) /\ Len(queue) \in Nat /\ 1 \in 1 .. Len(queue)
        /\ Head(queue) = queue[1] /\ queue[1] \in RpcCall
    BY DEF SlotsInv, QueueHolds
  <1>2. PICK h \in RpcCall : h = Head(queue)
    BY <1>1
  <1>3. phase[h] = "queued" /\ h # c
    BY <1>1, <1>2 DEF SlotsInv, QueueHolds
  <1>4. /\ phase' \in [RpcCall -> Phases] /\ phase'[c] = result /\ phase'[h] = "active"
        /\ \A d \in RpcCall \ {c, h} : phase'[d] = phase[d]
    BY <1>2, <1>3 DEF SlotsInv, Phases
  <1>5. /\ Active(phase') = (Active(phase) \ {c}) \cup {h}
        /\ Queued(phase') = Queued(phase) \ {h}
        /\ c \in Active(phase) /\ h \in Queued(phase) /\ h \notin Active(phase) \ {c}
    BY <1>3, <1>4 DEF Active, Queued
  <1>6. Cardinality(Active(phase')) = Cardinality(Active(phase))
    <2>1. /\ IsFiniteSet(Active(phase) \ {c})
          /\ Cardinality(Active(phase) \ {c}) = Cardinality(Active(phase)) - 1
      BY <1>5, CallsFinite, FS_RemoveElement
    <2>2. Cardinality(Active(phase')) = Cardinality(Active(phase) \ {c}) + 1
      BY <1>5, <2>1, FS_AddElement
    <2>3. Cardinality(Active(phase)) \in Nat
      BY CallsFinite
    <2> QED BY <2>1, <2>2, <2>3
  <1>7. Cardinality(Queued(phase')) = Cardinality(Queued(phase)) - 1
    <2>1. IsFiniteSet(Queued(phase)) /\ h \in Queued(phase)
      BY <1>5, CallsFinite
    <2>2. Cardinality(Queued(phase) \ {h}) = Cardinality(Queued(phase)) - 1
      BY <2>1, FS_RemoveElement
    <2> QED BY <1>5, <2>2
  <1>8. /\ queue' \in Seq(RpcCall) /\ Len(queue') = Len(queue) - 1
        /\ \A i \in 1 .. Len(queue') : /\ i + 1 \in 1 .. Len(queue) /\ i + 1 # 1
                                       /\ queue'[i] = queue[i + 1]
    BY <1>1
  <1>9. QueueHolds(queue', phase')
    <2>1. \A i \in 1 .. Len(queue') : phase'[queue'[i]] = "queued"
      <3> SUFFICES ASSUME NEW i \in 1 .. Len(queue')
                   PROVE  phase'[queue'[i]] = "queued"
        OBVIOUS
      <3>1. queue[i + 1] # h /\ phase[queue[i + 1]] = "queued" /\ queue[i + 1] \in RpcCall
        BY <1>1, <1>2, <1>8 DEF SlotsInv, QueueHolds
      <3> QED BY <1>4, <1>8, <3>1
    <2>2. \A i, j \in 1 .. Len(queue') : queue'[i] = queue'[j] => i = j
      <3> SUFFICES ASSUME NEW i \in 1 .. Len(queue'), NEW j \in 1 .. Len(queue'),
                          queue'[i] = queue'[j]
                   PROVE  i = j
        OBVIOUS
      <3>1. i + 1 = j + 1
        BY <1>8 DEF SlotsInv, QueueHolds
      <3> QED BY <3>1
    <2>3. \A d \in Queued(phase') : \E i \in 1 .. Len(queue') : queue'[i] = d
      <3> SUFFICES ASSUME NEW d \in Queued(phase')
                   PROVE  \E i \in 1 .. Len(queue') : queue'[i] = d
        OBVIOUS
      <3>1. PICK i \in 1 .. Len(queue) : queue[i] = d
        BY <1>5 DEF SlotsInv, QueueHolds
      <3>2. i # 1
        BY <1>1, <1>2, <1>5, <3>1
      <3>3. i - 1 \in 1 .. Len(queue') /\ (i - 1) + 1 = i
        BY <1>1, <1>8, <3>2
      <3>4. queue'[i - 1] = d
        BY <1>8, <3>1, <3>3
      <3> QED BY <3>3, <3>4
    <2> QED BY <1>7, <1>8, <2>1, <2>2, <2>3 DEF SlotsInv, QueueHolds
  <1>10. activeRequests = MaxConcurrent
    BY DEF SlotsInv
  <1>11. Len(queue') <= MaxQueueSize
    BY <1>1, <1>8 DEF SlotsInv
  <1> QED BY <1>4, <1>6, <1>9, <1>10, <1>11 DEF SlotsInv

LEMMA InitSlots == GuardInit => SlotsInv
  <1> SUFFICES ASSUME GuardInit PROVE SlotsInv
    OBVIOUS
  <1>1. Active(phase) = {} /\ Queued(phase) = {}
    BY DEF GuardInit, Active, Queued
  <1>2. Cardinality({}) = 0
    BY FS_EmptySet
  <1>3. queue = <<>> /\ queue \in Seq(RpcCall) /\ Len(queue) = 0 /\ activeRequests = 0
    BY DEF GuardInit
  <1>4. phase \in [RpcCall -> Phases]
    BY DEF GuardInit, Phases
  <1>5. QueueHolds(queue, phase)
    BY <1>1, <1>2, <1>3 DEF QueueHolds
  <1>6. activeRequests = Cardinality(Active(phase)) /\ activeRequests \in Nat
    BY <1>1, <1>2, <1>3
  <1> QED BY <1>3, <1>4, <1>5, <1>6, RpcGuardAssumption DEF SlotsInv

LEMMA NextSlots == SlotsInv /\ [GuardNext]_guardVars => SlotsInv'
  <1> SUFFICES ASSUME SlotsInv, [GuardNext]_guardVars PROVE SlotsInv'
    OBVIOUS
  <1>0. ASSUME UNCHANGED <<limiterVars, phase>> PROVE SlotsInv'
    BY <1>0, PhaseElsewhere DEF SlotsInv
  <1>1. CASE GetMetrics
    BY <1>0, <1>1 DEF GetMetrics
  <1>2. CASE Elapse
    BY <1>0, <1>2 DEF Elapse
  <1>3. ASSUME NEW c \in RpcCall, Admitted(c) PROVE SlotsInv'
    <2>1. phase[c] = "idle" /\ AcquireSlot(c)
      BY <1>3 DEF Admitted
    <2>2. CASE phase' = [phase EXCEPT ![c] = "failed"] /\ UNCHANGED limiterVars
      <3>1. /\ Active(phase') = Active(phase) /\ Queued(phase') = Queued(phase)
            /\ phase' \in [RpcCall -> Phases]
        BY <2>1, <2>2 DEF Active, Queued, SlotsInv, Phases
      <3> QED BY <2>2, <3>1, PhaseElsewhere
    <2> QED BY <2>1, <2>2, SlotTaken, WaiterJoins DEF AcquireSlot
  <1>4. ASSUME NEW c \in RpcCall, ServiceEnds(c) PROVE SlotsInv'
    <2>1. PICK result \in {"ok", "failed"} : ReleaseSlot(c, result)
      BY <1>4 DEF ServiceEnds
    <2>2. phase[c] = "active"
      BY <1>4 DEF ServiceEnds
    <2> QED BY <2>1, <2>2, SlotFreed, SlotHandedOn DEF ReleaseSlot
  <1>5. ASSUME NEW c \in RpcCall, Settle(c) PROVE SlotsInv'
    <2>1. /\ phase[c] \in {"ok", "failed"} /\ phase' = [phase EXCEPT ![c] = "idle"]
          /\ UNCHANGED limiterVars
      BY <1>5 DEF Settle
    <2>2. /\ Active(phase') = Active(phase) /\ Queued(phase') = Queued(phase)
          /\ phase' \in [RpcCall -> Phases]
      BY <2>1 DEF Active, Queued, SlotsInv, Phases
    <2> QED BY <2>1, <2>2, PhaseElsewhere
  <1>6. CASE UNCHANGED guardVars
    BY <1>0, <1>6 DEF guardVars
  <1> QED BY <1>1, <1>2, <1>3, <1>4, <1>5, <1>6 DEF GuardNext, CallStep

\* THEOREM: the limiter counts the calls at the service exactly, never above
\* its maximum; its queue is within its limit and holds every waiting call
\* once; and nobody waits while a slot is free.
THEOREM SlotsAreAccounted == GuardSpec => []SlotsAccounted
  <1>1. SlotsInv => SlotsAccounted
    <2> SUFFICES ASSUME SlotsInv PROVE SlotsAccounted
      OBVIOUS
    <2>1. DOMAIN queue = 1 .. Len(queue) /\ \A i \in 1 .. Len(queue) : queue[i] \in RpcCall
      BY DEF SlotsInv, QueueHolds
    <2>2. {queue[i] : i \in DOMAIN queue} = {c \in RpcCall : phase[c] = "queued"}
      BY <2>1 DEF SlotsInv, QueueHolds, Queued
    <2> QED BY <2>2 DEF SlotsInv, QueueHolds, Queued, Active, SlotsAccounted
  <1> QED BY <1>1, InitSlots, NextSlots, PTL DEF GuardSpec



=============================================================================
