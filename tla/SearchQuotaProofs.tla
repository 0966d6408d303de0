-------------------------- MODULE SearchQuotaProofs --------------------------
(***************************************************************************)
(* Proofs about SearchQuota for every limit, window and number of          *)
(* concurrent requests.                                                    *)
(***************************************************************************)
EXTENDS SearchQuota, FiniteSetTheorems, TLAPS

\* A saturating counter that is bumped stays under its cap and never decreases.
LEMMA BumpedProperties ==
  ASSUME NEW cap \in Nat, NEW n \in 0..cap
  PROVE  /\ Bumped(n, cap) \in 0..cap
         /\ Bumped(n, cap) \in {n, n + 1}
         /\ n < cap => Bumped(n, cap) = n + 1
BY DEF Bumped

\* The bounds are numbers; the caps leave room above the limit.
LEMMA ConstantFacts ==
  /\ MaxPerMinute \in Nat /\ Window \in Nat \ {0} /\ MaxFailures \in Nat
  /\ CounterCap = MaxPerMinute + 2 /\ CounterCap \in Nat
  /\ GrantedCap = 2 * MaxPerMinute + 2 /\ GrantedCap \in Nat
  /\ GrantedCap >= MaxPerMinute + 2
  /\ 0 \in Ages /\ \A k \in Ages : k # 0 => k - 1 \in Ages
BY QuotaAssumption DEF CounterCap, GrantedCap, Ages

\* The searches of the last ticks are finitely many, as the caps are numbers.
LEMMA HistoryFinite ==
  ASSUME NEW S, S \subseteq Ages \X (1..GrantedCap)
  PROVE  IsFiniteSet(S) /\ Cardinality(S) \in Nat
<1>1. IsFiniteSet(Ages) /\ IsFiniteSet(1..GrantedCap)
  BY ConstantFacts, FS_Interval DEF Ages
<1>2. IsFiniteSet(Ages \X (1..GrantedCap))
  BY <1>1, FS_Product
<1> QED
  BY <1>2, FS_Subset, FS_CardinalityType

\* A search that is answered is let through only while the limit lasts.
LEMMA AnswerBudget ==
  ASSUME QuotaTypeOK, granted <= MaxPerMinute, NEW n \in Nat, Answer(n),
         n <= MaxPerMinute => granted < MaxPerMinute
  PROVE  /\ granted' \in 0..GrantedCap
         /\ recent' \subseteq Ages \X (1..GrantedCap)
         /\ granted' = granted \/ (granted' = granted + 1 /\ n <= MaxPerMinute)
         /\ granted' <= MaxPerMinute
<1>1. CASE WithinQuota(n)
  <2>1. granted' = Bumped(granted, GrantedCap) /\ n <= MaxPerMinute
    BY <1>1 DEF Answer, WithinQuota
  <2>2. granted' \in 0..GrantedCap /\ granted' \in {granted, granted + 1}
    BY <2>1, BumpedProperties, ConstantFacts DEF QuotaTypeOK
  <2>3. Bumped(granted, GrantedCap) \in 1..GrantedCap
    BY ConstantFacts DEF Bumped, QuotaTypeOK
  <2>4. recent' \subseteq Ages \X (1..GrantedCap)
    BY <1>1, <2>3, ConstantFacts DEF Answer, QuotaTypeOK
  <2>5. granted' <= MaxPerMinute
    BY <2>1, <2>2, ConstantFacts DEF QuotaTypeOK
  <2> QED
    BY <2>1, <2>2, <2>4, <2>5
<1>2. CASE ~WithinQuota(n)
  BY <1>2, ConstantFacts DEF Answer, QuotaTypeOK
<1> QED
  BY <1>1, <1>2

\* The invariant holds at the start.
LEMMA InitInv == QuotaInit => QuotaInv
BY ConstantFacts DEF QuotaInit, QuotaInv, QuotaTypeOK, WindowBudget, Expiring

\* INCR: the counter grows by one, and at most one search is let through for it;
\* a saturated counter is over the limit, so that nothing is hidden.
LEMMA IncrInv ==
  ASSUME QuotaInv, NEW r \in Requests, Incr(r)
  PROVE  QuotaInv'
<1> DEFINE n == Bumped(counter, CounterCap)
<1>1. /\ counter \in 0..CounterCap /\ n \in 0..CounterCap
      /\ n \in {counter, counter + 1} /\ (counter < CounterCap => n = counter + 1)
  BY BumpedProperties, ConstantFacts DEF QuotaInv, QuotaTypeOK
<1>2. /\ at[r] = "idle" /\ counter' = n /\ UNCHANGED <<ttl, lost>>
      /\ IF n = 1
         THEN at' = [at EXCEPT ![r] = "expire"] /\ UNCHANGED <<granted, recent>>
         ELSE Answer(n) /\ UNCHANGED at
  BY DEF Incr, CreatesKey
<1>3. /\ QuotaTypeOK /\ granted \in Nat /\ granted <= counter /\ granted <= MaxPerMinute
      /\ counter = 0 => ttl = 0
      /\ \A q \in Expiring :
           /\ Expiring = {q} /\ ttl = 0 /\ granted < counter
           /\ granted < MaxPerMinute \/ MaxPerMinute = 0
  BY ConstantFacts DEF QuotaInv, WindowBudget, QuotaTypeOK
<1> HIDE DEF n
<1>4. granted < n
  BY <1>1, <1>3, ConstantFacts
<1>5. CASE n = 1
  <2>1. counter = 0 /\ granted = 0 /\ ttl = 0
    BY <1>1, <1>3, <1>5, ConstantFacts
  <2>2. Expiring = {}
    BY <1>3, <2>1
  <2>3. at' \in [Requests -> {"idle", "expire"}] /\ Expiring' = {r}
    BY <1>2, <1>3, <1>5, <2>2 DEF QuotaTypeOK, Expiring
  <2>4. QuotaTypeOK'
    BY <1>1, <1>2, <1>3, <1>5, <2>3 DEF QuotaTypeOK
  <2> QED
    BY ConstantFacts, <1>1, <1>2, <1>3, <1>5, <2>1, <2>3, <2>4 DEF QuotaInv, WindowBudget
<1>6. CASE n # 1
  <2>1. /\ granted' \in 0..GrantedCap /\ recent' \subseteq Ages \X (1..GrantedCap)
        /\ granted' = granted \/ (granted' = granted + 1 /\ n <= MaxPerMinute)
        /\ granted' <= MaxPerMinute
    BY <1>1, <1>2, <1>3, <1>4, <1>6, AnswerBudget, ConstantFacts
  <2>2. QuotaTypeOK'
    BY <1>1, <1>2, <1>3, <1>6, <2>1 DEF QuotaTypeOK
  <2>3. Expiring' = Expiring
    BY <1>2, <1>6 DEF Expiring
  <2>4. n <= MaxPerMinute => n = counter + 1
    BY <1>1, ConstantFacts
  <2>5. granted' <= counter'
    BY <1>1, <1>2, <1>3, <1>4, <2>1
  <2>6. /\ granted < counter => granted' < counter'
        /\ granted < counter /\ granted < MaxPerMinute => granted' < MaxPerMinute
        /\ MaxPerMinute = 0 => granted' = granted
    BY <1>1, <1>2, <1>3, <1>4, <2>1, <2>4, ConstantFacts
  <2>7. counter' = 0 => ttl' = 0
    BY <1>2, <1>3, <1>4, <1>1
  <2> QED
    BY <1>2, <1>3, <2>1, <2>2, <2>3, <2>5, <2>6, <2>7 DEF QuotaInv, WindowBudget
<1> QED
  BY <1>5, <1>6

\* An INCR without an answer leaves more room between the two counts.
LEMMA IncrUnansweredInv ==
  ASSUME QuotaInv, NEW r \in Requests, IncrUnanswered(r)
  PROVE  QuotaInv'
<1>1. counter' \in 0..CounterCap /\ counter' >= counter /\ counter' # 0
  <2>1. counter \in 0..CounterCap /\ counter' = Bumped(counter, CounterCap)
    BY DEF QuotaInv, QuotaTypeOK, IncrUnanswered
  <2>2. CounterCap \in Nat /\ CounterCap > 0
    BY ConstantFacts
  <2> QED
    BY <2>1, <2>2 DEF Bumped
<1>2. lost' \in 0..MaxFailures /\ UNCHANGED <<ttl, at, granted, recent>>
  BY ConstantFacts DEF QuotaInv, QuotaTypeOK, IncrUnanswered
<1>3. QuotaTypeOK'
  BY <1>1, <1>2 DEF QuotaInv, QuotaTypeOK
<1>4. Expiring' = Expiring
  BY <1>2 DEF Expiring
<1>5. granted \in Nat /\ counter \in Nat
  BY ConstantFacts DEF QuotaInv, QuotaTypeOK
<1> QED
  BY <1>1, <1>2, <1>3, <1>4, <1>5 DEF QuotaInv, WindowBudget

\* What the end of the second command does to the requests between the two.
LEMMA NoMoreExpiring ==
  ASSUME QuotaInv, NEW r \in Requests, at[r] = "expire",
         at' = [at EXCEPT ![r] = "idle"]
  PROVE  /\ at' \in [Requests -> {"idle", "expire"}]
         /\ Expiring' = {} /\ granted < counter /\ counter > 0
         /\ granted < MaxPerMinute \/ MaxPerMinute = 0
<1>1. /\ r \in Expiring /\ Expiring = {r} /\ granted < counter
      /\ granted < MaxPerMinute \/ MaxPerMinute = 0
  BY DEF QuotaInv, Expiring
<1>2. at \in [Requests -> {"idle", "expire"}] /\ granted \in Nat /\ counter \in Nat
  BY ConstantFacts DEF QuotaInv, QuotaTypeOK
<1>3. \A q \in Requests : q # r => at[q] # "expire"
  BY <1>1 DEF Expiring
<1>4. Expiring' = {}
  BY <1>2, <1>3 DEF Expiring
<1> QED
  BY <1>1, <1>2, <1>4

\* EXPIRE: the search that created the key is let through at last.
LEMMA ExpireInv ==
  ASSUME QuotaInv, NEW r \in Requests, Expire(r)
  PROVE  QuotaInv'
<1>1. /\ at' \in [Requests -> {"idle", "expire"}]
      /\ Expiring' = {} /\ granted < counter /\ counter > 0
      /\ granted < MaxPerMinute \/ MaxPerMinute = 0
  BY NoMoreExpiring DEF Expire
<1>2. ttl' = Window /\ Answer(1) /\ UNCHANGED <<counter, lost>>
  BY DEF Expire, KeyLife
<1>3. QuotaTypeOK /\ granted \in Nat /\ counter \in Nat /\ granted <= MaxPerMinute
  BY ConstantFacts DEF QuotaInv, WindowBudget, QuotaTypeOK
<1>4. /\ granted' \in 0..GrantedCap /\ recent' \subseteq Ages \X (1..GrantedCap)
      /\ granted' \in {granted, granted + 1} /\ granted' <= MaxPerMinute
  <2>1. 1 <= MaxPerMinute => granted < MaxPerMinute
    BY <1>1
  <2> QED
    BY <1>2, <1>3, <2>1, AnswerBudget
<1>5. QuotaTypeOK'
  BY <1>1, <1>2, <1>3, <1>4, ConstantFacts DEF QuotaTypeOK
<1> QED
  BY <1>1, <1>2, <1>3, <1>4, <1>5 DEF QuotaInv, WindowBudget

\* An EXPIRE without an answer lets nothing through, whether it was executed or not.
LEMMA ExpireUnansweredInv ==
  ASSUME QuotaInv, NEW r \in Requests, ExpireUnanswered(r)
  PROVE  QuotaInv'
<1>1. /\ at' \in [Requests -> {"idle", "expire"}]
      /\ Expiring' = {} /\ granted < counter /\ counter > 0
  BY NoMoreExpiring DEF ExpireUnanswered
<1>2. /\ ttl' \in {ttl, Window} /\ lost' \in 0..MaxFailures
      /\ UNCHANGED <<counter, granted, recent>>
  BY ConstantFacts DEF QuotaInv, QuotaTypeOK, ExpireUnanswered, KeyLife
<1>3. QuotaTypeOK'
  BY <1>1, <1>2, ConstantFacts DEF QuotaInv, QuotaTypeOK
<1> QED
  BY <1>1, <1>2, <1>3 DEF QuotaInv, WindowBudget

\* Growing older: an injection back to what was there, within the window.
LEMMA OlderProperties ==
  ASSUME NEW S, S \subseteq Ages \X (1..GrantedCap), IsFiniteSet(S)
  PROVE  /\ Older(S) \subseteq Ages \X (1..GrantedCap)
         /\ IsFiniteSet(Older(S)) /\ Cardinality(Older(S)) <= Cardinality(S)
         /\ \A y \in Older(S) : y[1] # 0 /\ <<y[1] - 1, y[2]>> \in S
         /\ \A x \in S : x[1] + 1 < Window => <<x[1] + 1, x[2]>> \in Older(S)
<1>1. ASSUME NEW y \in Older(S)
      PROVE  /\ y \in Ages \X (1..GrantedCap) /\ y[1] # 0
             /\ <<y[1] - 1, y[2]>> \in S
  <2>1. PICK x \in S : x[1] + 1 < Window /\ y = <<x[1] + 1, x[2]>>
    BY DEF Older
  <2>2. PICK k \in Ages, n \in 1..GrantedCap : x = <<k, n>>
    BY <2>1
  <2>3. y = <<k + 1, n>> /\ k + 1 \in Ages /\ k + 1 # 0 /\ (k + 1) - 1 = k
    BY <2>1, <2>2, ConstantFacts DEF Ages
  <2> QED
    BY <2>2, <2>3
<1>2. Older(S) \subseteq Ages \X (1..GrantedCap)
  BY <1>1
<1> DEFINE f == [y \in Older(S) |-> <<y[1] - 1, y[2]>>]
<1>3. f \in Injection(Older(S), S)
  <2>1. f \in [Older(S) -> S]
    BY <1>1
  <2>2. ASSUME NEW y \in Older(S), NEW z \in Older(S), f[y] = f[z] PROVE y = z
    <3>1. y[1] - 1 = z[1] - 1 /\ y[2] = z[2]
      BY <2>2
    <3>2. PICK k \in Ages, n \in 1..GrantedCap : y = <<k, n>>
      BY <1>2
    <3>3. PICK j \in Ages, m \in 1..GrantedCap : z = <<j, m>>
      BY <1>2
    <3>4. k = j
      BY <3>1, <3>2, <3>3, ConstantFacts DEF Ages
    <3> QED
      BY <3>1, <3>2, <3>3, <3>4
  <2> HIDE DEF f
  <2> QED
    BY <2>1, <2>2 DEF Injection, IsInjective
<1>4. IsFiniteSet(Older(S)) /\ Cardinality(Older(S)) <= Cardinality(S)
  BY <1>3, FS_Injection
<1> QED
  BY <1>1, <1>2, <1>4 DEF Older

\* A tick: a key that disappears takes its counter of searches with it.
LEMMA TickInv ==
  ASSUME QuotaInv, QuotaTick
  PROVE  QuotaInv'
<1>1. UNCHANGED <<at, lost>> /\ ttl' \in 0..Window
      /\ (ttl = 0 => ttl' = 0) /\ (ttl # 0 => ttl' = ttl - 1)
      /\ (ttl = 1 => counter' = 0 /\ granted' = 0)
      /\ (ttl # 1 => UNCHANGED <<counter, granted>>)
  BY ConstantFacts DEF QuotaInv, QuotaTypeOK, QuotaTick
<1>2. recent' \subseteq Ages \X (1..GrantedCap)
  BY ConstantFacts, OlderProperties, HistoryFinite DEF QuotaInv, QuotaTypeOK, QuotaTick
<1>3. QuotaTypeOK'
  BY <1>1, <1>2, ConstantFacts DEF QuotaInv, QuotaTypeOK
<1>4. Expiring' = Expiring
  BY <1>1 DEF Expiring
<1>5. ttl \in Nat
  BY ConstantFacts DEF QuotaInv, QuotaTypeOK
<1> QED
  BY <1>1, <1>3, <1>4, <1>5, ConstantFacts DEF QuotaInv, WindowBudget

\* Every step preserves the invariant: one case per action.
LEMMA NextInv == QuotaInv /\ [QuotaNext]_quotaVars => QuotaInv'
<1> SUFFICES ASSUME QuotaInv, [QuotaNext]_quotaVars PROVE QuotaInv'
  OBVIOUS
<1>1. ASSUME NEW r \in Requests, RequestStep(r) PROVE QuotaInv'
  BY <1>1, IncrInv, IncrUnansweredInv, ExpireInv, ExpireUnansweredInv DEF RequestStep
<1>2. CASE QuotaTick
  BY <1>2, TickInv
<1>3. CASE UNCHANGED quotaVars
  BY <1>3 DEF quotaVars, QuotaInv, QuotaTypeOK, WindowBudget, Expiring
<1> QED
  BY <1>1, <1>2, <1>3 DEF QuotaNext

\* Every variable keeps its type: the counters stay under their caps.
THEOREM QuotaTypes == QuotaSpec => []QuotaTypeOK
<1>1. QuotaInv => QuotaTypeOK
  BY DEF QuotaInv
<1> QED
  BY <1>1, InitInv, NextInv, PTL DEF QuotaSpec

\* No key lets more than MaxPerMinute searches through, although the counter and
\* the time to live are set by two commands that several replicas interleave
\* and that may fail (WindowBudget).
THEOREM WindowRespected == QuotaSpec => []WindowBudget
<1>1. QuotaInv => WindowBudget
  BY DEF QuotaInv
<1> QED
  BY <1>1, InitInv, NextInv, PTL DEF QuotaSpec
-----------------------------------------------------------------------------
(* BurstBound: the searches of the window belong to two keys at most.      *)

\* A search let through is one more search of the current key.
LEMMA AnswerBurst ==
  ASSUME QuotaInv, BurstInv, NEW n \in Nat, Answer(n),
         n <= MaxPerMinute => granted < MaxPerMinute,
         ttl' \in {ttl, Window}
  PROVE  BurstInv'
<1>1. /\ recent \subseteq Ages \X (1..GrantedCap) /\ granted \in 0..GrantedCap
      /\ ttl \in 0..Window /\ granted \in Nat
  BY ConstantFacts DEF QuotaInv, QuotaTypeOK
<1>2. PICK P \in SUBSET recent :
        /\ Cardinality(P) <= MaxPerMinute /\ Cardinality(recent \ P) <= granted
        /\ ttl # 0 => \A x \in P : x[1] + ttl >= Window
  BY DEF BurstInv
<1>3. ttl' # 0 => \A x \in P : x[1] + ttl' >= Window
  <2>1. \A x \in P : x[1] \in Nat
    BY <1>1 DEF Ages
  <2> QED
    BY <1>1, <1>2, <2>1, ConstantFacts
<1>4. CASE ~WithinQuota(n)
  <2>1. UNCHANGED <<granted, recent>>
    BY <1>4 DEF Answer
  <2> QED
    BY <1>2, <1>3, <2>1 DEF BurstInv
<1>5. CASE WithinQuota(n)
  <2>1. granted < MaxPerMinute /\ granted + 1 \in Nat
    BY <1>1, <1>5 DEF WithinQuota
  <2>2. granted' = granted + 1 /\ recent' = recent \cup {<<0, granted + 1>>}
    BY <1>1, <1>5, <2>1, ConstantFacts, BumpedProperties DEF Answer
  <2>3. <<0, granted + 1>> \notin recent
    BY <1>1 DEF BurstInv
  <2>4. \A x \in recent' : x[1] = 0 => x[2] <= granted'
    <3>1. \A x \in recent : x[2] \in Nat
      BY <1>1
    <3> QED
      BY <1>1, <2>2, <3>1 DEF BurstInv
  <2> DEFINE Q == recent \ P
             c == Cardinality(Q)
  <2>5. recent' \ P = Q \cup {<<0, granted + 1>>} /\ P \in SUBSET recent'
    BY <2>2, <2>3
  <2>6. IsFiniteSet(Q) /\ c \in Nat
    BY <1>1, HistoryFinite
  <2>7. Cardinality(Q \cup {<<0, granted + 1>>}) = c + 1
    <3>1. <<0, granted + 1>> \notin Q
      BY <2>3
    <3> HIDE DEF Q
    <3> QED
      BY <2>6, <3>1, FS_AddElement
  <2>8. c <= granted
    BY <1>2
  <2> HIDE DEF Q, c
  <2>9. Cardinality(recent' \ P) <= granted'
    BY <1>1, <2>2, <2>5, <2>6, <2>7, <2>8
  <2> QED
    BY <1>2, <1>3, <2>4, <2>5, <2>9 DEF BurstInv
<1> QED
  BY <1>4, <1>5

\* A tick makes every search of the window older: those of the earlier key leave
\* it before the current key disappears, and those of the current key are then
\* the earlier ones.
LEMMA TickBurst ==
  ASSUME QuotaInv, BurstInv, QuotaTick
  PROVE  BurstInv'
<1>1. /\ recent \subseteq Ages \X (1..GrantedCap) /\ recent' = Older(recent)
      /\ IsFiniteSet(recent) /\ ttl \in 0..Window
      /\ granted \in Nat /\ granted <= MaxPerMinute
  BY HistoryFinite, ConstantFacts DEF QuotaInv, QuotaTypeOK, WindowBudget, QuotaTick
<1>2. PICK P \in SUBSET recent :
        /\ Cardinality(P) <= MaxPerMinute /\ Cardinality(recent \ P) <= granted
        /\ ttl # 0 => \A x \in P : x[1] + ttl >= Window
  BY DEF BurstInv
<1>3. PICK Q : Q = recent \ P
  OBVIOUS
<1>4. /\ P \subseteq Ages \X (1..GrantedCap) /\ Q \subseteq Ages \X (1..GrantedCap)
      /\ IsFiniteSet(P) /\ IsFiniteSet(Q)
      /\ Cardinality(P) \in Nat /\ Cardinality(Q) \in Nat
  BY <1>1, <1>2, <1>3, HistoryFinite
<1>5. /\ Older(P) \subseteq Older(recent) /\ Older(Q) \subseteq Older(recent)
      /\ Older(recent) = Older(P) \cup Older(Q)
  BY <1>2, <1>3 DEF Older
<1>6. /\ Cardinality(Older(P)) <= Cardinality(P) /\ Cardinality(Older(Q)) <= Cardinality(Q)
      /\ Cardinality(Older(P)) \in Nat /\ Cardinality(Older(Q)) \in Nat
      /\ Older(P) \subseteq Ages \X (1..GrantedCap)
      /\ IsFiniteSet(Older(Q))
  BY <1>4, OlderProperties, HistoryFinite
<1>7. \A x \in recent' : x[1] # 0
  BY <1>1, OlderProperties
<1>8. CASE ttl = 1
  <2>1. Older(P) = {}
    <3>1. ASSUME NEW x \in P PROVE ~(x[1] + 1 < Window)
      <4>1. x[1] \in Nat /\ x[1] + 1 >= Window
        BY <1>2, <1>4, <1>8 DEF Ages
      <4> QED
        BY <4>1, ConstantFacts
    <3> QED
      BY <3>1 DEF Older
  <2>2. recent' = Older(Q) /\ recent' \ recent' = {}
    BY <1>1, <1>5, <2>1
  <2>3. granted' = 0 /\ ttl' = 0
    BY <1>8 DEF QuotaTick
  <2>4. Cardinality(recent') <= MaxPerMinute
    BY <1>1, <1>2, <1>3, <1>4, <1>6, <2>2, ConstantFacts
  <2>5. Cardinality(recent' \ recent') <= granted'
    BY <2>2, <2>3, FS_EmptySet
  <2> QED
    BY <1>7, <2>3, <2>4, <2>5 DEF BurstInv
<1>9. CASE ttl # 1
  <2>1. granted' = granted /\ ttl' = IF ttl = 0 THEN 0 ELSE ttl - 1
    BY <1>9 DEF QuotaTick
  <2>2. Older(P) \in SUBSET recent' /\ Cardinality(Older(P)) <= MaxPerMinute
    BY <1>1, <1>2, <1>4, <1>5, <1>6, ConstantFacts
  <2>3. Cardinality(recent' \ Older(P)) <= granted'
    <3> DEFINE R == recent' \ Older(P)
    <3>1. R \subseteq Older(Q)
      BY <1>1, <1>5
    <3>2. Cardinality(R) <= Cardinality(Older(Q)) /\ Cardinality(R) \in Nat
      <4> HIDE DEF R
      <4>1. IsFiniteSet(R) /\ Cardinality(R) <= Cardinality(Older(Q))
        BY <1>6, <3>1, FS_Subset
      <4> QED
        BY <4>1, FS_CardinalityType
    <3> QED
      BY <1>1, <1>2, <1>3, <1>4, <1>6, <2>1, <3>2
  <2>4. ASSUME ttl' # 0, NEW y \in Older(P) PROVE y[1] + ttl' >= Window
    <3>1. PICK x \in P : y = <<x[1] + 1, x[2]>>
      BY DEF Older
    <3>2. x[1] \in Nat /\ ttl \in Nat /\ ttl # 0 /\ x[1] + ttl >= Window /\ ttl' = ttl - 1
      BY <1>1, <1>2, <1>4, <2>1, <2>4, ConstantFacts DEF Ages
    <3> QED
      BY <3>1, <3>2, ConstantFacts
  <2> QED
    BY <1>7, <2>2, <2>3, <2>4 DEF BurstInv
<1> QED
  BY <1>8, <1>9

\* Steps that let nothing through, and at most renew the key's time to live.
LEMMA SilentBurst ==
  ASSUME QuotaInv, BurstInv, UNCHANGED <<granted, recent>>, ttl' \in {ttl, Window}
  PROVE  BurstInv'
<1>1. recent \subseteq Ages \X (1..GrantedCap) /\ ttl \in 0..Window
  BY DEF QuotaInv, QuotaTypeOK
<1>2. PICK P \in SUBSET recent :
        /\ Cardinality(P) <= MaxPerMinute /\ Cardinality(recent \ P) <= granted
        /\ ttl # 0 => \A x \in P : x[1] + ttl >= Window
  BY DEF BurstInv
<1>3. \A x \in P : x[1] \in Nat
  BY <1>1 DEF Ages
<1>4. ttl' # 0 => \A x \in P : x[1] + ttl' >= Window
  BY <1>1, <1>2, <1>3, ConstantFacts
<1> QED
  BY <1>2, <1>4 DEF BurstInv

\* Every step keeps the searches of the window to two keys.
LEMMA NextBurst ==
  ASSUME QuotaInv, BurstInv, [QuotaNext]_quotaVars
  PROVE  BurstInv'
<1>1. ASSUME NEW r \in Requests, Incr(r) PROVE BurstInv'
  <2>1. PICK n : n = Bumped(counter, CounterCap)
    OBVIOUS
  <2>2. /\ counter \in 0..CounterCap /\ n \in 0..CounterCap /\ n \in {counter, counter + 1}
        /\ (counter < CounterCap => n = counter + 1) /\ n \in Nat
    BY <2>1, BumpedProperties, ConstantFacts DEF QuotaInv, QuotaTypeOK
  <2>3. /\ ttl' = ttl
        /\ UNCHANGED <<granted, recent>> \/ Answer(n)
    BY <1>1, <2>1 DEF Incr
  <2>4. granted \in Nat /\ granted <= counter
    BY ConstantFacts DEF QuotaInv, QuotaTypeOK
  <2>5. n <= MaxPerMinute => granted < MaxPerMinute
    BY <2>2, <2>4, ConstantFacts
  <2> QED
    BY <2>2, <2>3, <2>5, AnswerBurst, SilentBurst
<1>2. ASSUME NEW r \in Requests, Expire(r) PROVE BurstInv'
  <2>1. at[r] = "expire" /\ at' = [at EXCEPT ![r] = "idle"] /\ ttl' = Window /\ Answer(1)
    BY <1>2 DEF Expire, KeyLife
  <2>2. granted < MaxPerMinute \/ MaxPerMinute = 0
    BY <2>1, NoMoreExpiring
  <2> QED
    BY <2>1, <2>2, AnswerBurst
<1>3. ASSUME NEW r \in Requests, IncrUnanswered(r) \/ ExpireUnanswered(r) PROVE BurstInv'
  BY <1>3, SilentBurst DEF IncrUnanswered, ExpireUnanswered, KeyLife
<1>4. CASE UNCHANGED quotaVars
  BY <1>4, SilentBurst DEF quotaVars
<1> QED
  BY <1>1, <1>2, <1>3, <1>4, TickBurst DEF QuotaNext, RequestStep

\* No Window ticks let more than 2 * MaxPerMinute searches through: keys do not
\* follow each other faster than once per window, whichever replica sets the
\* time to live and whichever commands fail (BurstBound).
THEOREM BurstBounded == QuotaSpec => []BurstBound
<1>1. QuotaInit => BurstInv
  <2> SUFFICES ASSUME QuotaInit PROVE BurstInv
    OBVIOUS
  <2>1. recent = {} /\ granted = 0 /\ recent \ {} = {} /\ Cardinality({}) = 0
    BY FS_EmptySet DEF QuotaInit
  <2> QED
    BY <2>1, ConstantFacts DEF BurstInv
<1>2. QuotaInv /\ BurstInv /\ [QuotaNext]_quotaVars => BurstInv'
  BY NextBurst
<1>3. QuotaInv /\ BurstInv => BurstBound
  <2> SUFFICES ASSUME QuotaInv, BurstInv PROVE Cardinality(recent) <= 2 * MaxPerMinute
    BY DEF BurstBound, LastWindow
  <2>1. /\ recent \subseteq Ages \X (1..GrantedCap) /\ granted \in Nat
        /\ granted <= MaxPerMinute
    BY ConstantFacts DEF QuotaInv, QuotaTypeOK, WindowBudget
  <2>2. PICK P \in SUBSET recent :
          Cardinality(P) <= MaxPerMinute /\ Cardinality(recent \ P) <= granted
    BY DEF BurstInv
  <2>3. PICK Q : Q = recent \ P
    OBVIOUS
  <2>4. /\ IsFiniteSet(P) /\ IsFiniteSet(Q)
        /\ Cardinality(P) \in Nat /\ Cardinality(Q) \in Nat
    BY <2>1, <2>3, HistoryFinite
  <2>5. recent = P \cup Q /\ P \cap Q = {}
    BY <2>2, <2>3
  <2>6. Cardinality(recent) = Cardinality(P) + Cardinality(Q)
    <3>1. Cardinality(P \cup Q) = Cardinality(P) + Cardinality(Q) - Cardinality(P \cap Q)
      BY <2>4, FS_Union
    <3> QED
      BY <2>4, <2>5, <3>1, FS_EmptySet
  <2> QED
    BY <2>1, <2>2, <2>3, <2>4, <2>6, ConstantFacts
<1> QED
  BY <1>1, <1>2, <1>3, InitInv, NextInv, PTL DEF QuotaSpec
=============================================================================
