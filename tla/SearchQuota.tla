----------------------------- MODULE SearchQuota -----------------------------
(***************************************************************************)
(* RedisSearchQuota: how many searches an actor may run per minute.        *)
(*                                                                         *)
(* An actor's quota is one Redis counter, incremented by each search and   *)
(* given a time to live by the search that created it.  INCR and EXPIRE    *)
(* are two commands: the API's replicas interleave between them, and the   *)
(* second may be lost.  Actors have keys of their own: the module follows  *)
(* one of them.                                                            *)
(***************************************************************************)
EXTENDS Naturals, FiniteSets

CONSTANTS
  Requests,      \* searches of the actor that the replicas handle at a time
  MaxPerMinute,  \* settings.search_quota_per_actor_per_minute
  Window,        \* _WINDOW_SECONDS, in ticks of the model's time
  MaxFailures    \* bound of the model: number of commands that fail

ASSUME QuotaAssumption ==
  /\ MaxPerMinute \in Nat
  /\ Window \in Nat \ {0}
  /\ MaxFailures \in Nat

VARIABLES
  counter,  \* value of the key, 0: no key; saturating
  ttl,      \* time to live of the key, 0: none set
  at,       \* "idle", or "expire" between the two commands, per request
  granted,  \* history: searches let through since the key was created
  recent,   \* history: searches let through in the last Window ticks, each by
            \* its age in ticks and its rank among the searches of its key
  lost      \* number of failed commands so far

quotaVars == <<counter, ttl, at, granted, recent, lost>>

\* The code compares the counter with 1 and MaxPerMinute: no larger value is
\* told apart.  The histories are cut above what the properties allow.
CounterCap == MaxPerMinute + 2
GrantedCap == 2 * MaxPerMinute + 2
Ages == 0..(Window - 1)

Bumped(n, cap) == IF n < cap THEN n + 1 ELSE n

QuotaTypeOK ==
  /\ counter \in 0..CounterCap
  /\ ttl \in 0..Window
  /\ at \in [Requests -> {"idle", "expire"}]
  /\ granted \in 0..GrantedCap
  /\ recent \subseteq Ages \X (1..GrantedCap)
  /\ lost \in 0..MaxFailures

QuotaInit ==
  /\ counter = 0 /\ ttl = 0
  /\ at = [r \in Requests |-> "idle"]
  /\ granted = 0
  /\ recent = {}
  /\ lost = 0

\* Mutation: one search more than the limit.
WithinQuotaOrNext(n) == n <= MaxPerMinute + 1
WithinQuota(n) == n <= MaxPerMinute

\* The answer of check_and_consume: True lets the search through.
Answer(n) ==
  IF WithinQuota(n)
  THEN LET rank == Bumped(granted, GrantedCap)
       IN  /\ granted' = rank
           /\ recent' = recent \cup {<<0, rank>>}
  ELSE UNCHANGED <<granted, recent>>

\* Mutation: every search renews the time to live.
AlwaysExpires(n) == TRUE
CreatesKey(n) == n = 1

\* INCR; the request that finds 1 goes on to EXPIRE, any other answers.
Incr(r) ==
  LET n == Bumped(counter, CounterCap)
  IN  /\ at[r] = "idle"
      /\ counter' = n
      /\ IF CreatesKey(n)
         THEN /\ at' = [at EXCEPT ![r] = "expire"]
              /\ UNCHANGED <<granted, recent>>
         ELSE /\ Answer(n)
              /\ UNCHANGED at
      /\ UNCHANGED <<ttl, lost>>

\* INCR is executed but its reply is lost: the search fails without an answer.
IncrUnanswered(r) ==
  /\ at[r] = "idle"
  /\ lost < MaxFailures
  /\ lost' = lost + 1
  /\ counter' = Bumped(counter, CounterCap)
  /\ UNCHANGED <<ttl, at, granted, recent>>

\* Mutation: the time to live is in another unit.
ShortLife == 1
KeyLife == Window

\* EXPIRE, then the answer, by the count that INCR returned: 1.
Expire(r) ==
  /\ at[r] = "expire"
  /\ ttl' = KeyLife
  /\ Answer(1)
  /\ at' = [at EXCEPT ![r] = "idle"]
  /\ UNCHANGED <<counter, lost>>

\* The replica dies between the two commands, or EXPIRE raises, before or after
\* Redis has executed it: no answer either.
ExpireUnanswered(r) ==
  /\ at[r] = "expire"
  /\ lost < MaxFailures
  /\ lost' = lost + 1
  /\ ttl' \in {ttl, KeyLife}
  /\ at' = [at EXCEPT ![r] = "idle"]
  /\ UNCHANGED <<counter, granted, recent>>

\* The searches of S one tick later: those that leave the window are forgotten.
Older(S) == {<<x[1] + 1, x[2]>> : x \in {y \in S : y[1] + 1 < Window}}

\* One tick; a key whose time to live ends disappears.
QuotaTick ==
  /\ recent' = Older(recent)
  /\ ttl' = IF ttl = 0 THEN 0 ELSE ttl - 1
  /\ IF ttl = 1
     THEN counter' = 0 /\ granted' = 0
     ELSE UNCHANGED <<counter, granted>>
  /\ UNCHANGED <<at, lost>>

RequestStep(r) ==
  \/ Incr(r) \/ IncrUnanswered(r)
  \/ Expire(r) \/ ExpireUnanswered(r)

QuotaNext ==
  \/ \E r \in Requests : RequestStep(r)
  \/ QuotaTick

QuotaSpec == QuotaInit /\ [][QuotaNext]_quotaVars

\* Time passes, and a replica that is alive sends the EXPIRE; nobody has to
\* search.
QuotaFairSpec ==
  /\ QuotaSpec
  /\ WF_quotaVars(QuotaTick)
  /\ \A r \in Requests : WF_quotaVars(Expire(r))

-----------------------------------------------------------------------------
(* Properties.                                                             *)

\* The searches of the last Window ticks: keys succeed each other at a tick, so
\* that no two of them have the same age and the same rank.
LastWindow == Cardinality(recent)

\* One key lets MaxPerMinute searches through, however the replicas interleave.
WindowBudget == granted <= MaxPerMinute

\* No Window ticks let through more than two keys' worth of searches: keys may
\* not follow each other faster than once per window.
BurstBound == LastWindow <= 2 * MaxPerMinute

\* The window slides: no Window ticks let more than MaxPerMinute through.
SlidingWindow == LastWindow <= MaxPerMinute

\* A counter that exists disappears in the end, so that an actor refused now is
\* let through later even if it insists, unless a command failed.
QuotaReopens == counter > 0 ~> (counter = 0 \/ lost > 0)

\* The quota is per minute: an actor is not refused for ever.
NeverLockedOut == counter > MaxPerMinute ~> counter = 0

-----------------------------------------------------------------------------
(* The inductive invariant behind WindowBudget.                            *)

\* Only the request that created the key is between the two commands; it is
\* counted and not yet let through.
Expiring == {r \in Requests : at[r] = "expire"}

QuotaInv ==
  /\ QuotaTypeOK
  /\ granted <= counter
  /\ WindowBudget
  /\ counter = 0 => ttl = 0
  /\ \A r \in Expiring :
       /\ Expiring = {r} /\ ttl = 0
       /\ granted < counter
       /\ granted < MaxPerMinute \/ MaxPerMinute = 0

(* The inductive invariant behind BurstBound, on top of QuotaInv.          *)

\* The searches of the last Window ticks are those of the current key, at most
\* granted of them, and some of an earlier one.  The earlier ones leave the
\* window before the current key can disappear.
BurstInv ==
  /\ \A x \in recent : x[1] = 0 => x[2] <= granted
  /\ \E earlier \in SUBSET recent :
       /\ Cardinality(earlier) <= MaxPerMinute
       /\ Cardinality(recent \ earlier) <= granted
       /\ ttl # 0 => \A x \in earlier : x[1] + ttl >= Window
=============================================================================
