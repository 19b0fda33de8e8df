-------------------------- MODULE TaskResultCache --------------------------
(***************************************************************************)
(* TaskResultCache (task_cache.hpp): results with the time they expire.    *)
(* Every call holds mutex_ and is one step.  Nothing is erased when it     *)
(* expires: a lookup erases what it finds expired, and cleanup_expired     *)
(* erases the rest.                                                        *)
(***************************************************************************)
EXTENDS Clock, FiniteSets

CONSTANTS Keys, Results, Ttls, None

ASSUME TtlsAssumption == Ttls \subseteq Nat
\* std::nullopt is no result, and no entry of the map below.
ASSUME ResultsAssumption == None \notin Results \cup [result : Results, left : Nat]

VARIABLES
  cache,     \* cache_: a function on the keys that have an entry
  returned   \* what the last get() or size() returned

cacheVars == <<cache, returned>>

CacheTypeOK ==
  /\ DOMAIN cache \subseteq Keys
  /\ \A k \in DOMAIN cache : cache[k].result \in Results /\ cache[k].expiry_time \in Nat
  /\ returned \in Results \cup {None} \cup {Cardinality(S) : S \in SUBSET Keys}

CacheInit == cache = << >> /\ returned = None

Without(S) == [k \in DOMAIN cache \ S |-> cache[k]]

\* Mutant: an entry is gone in the instant it expires.
ExpiredEarly(k) == now >= cache[k].expiry_time

Expired(k) == now > cache[k].expiry_time

\* ttl, or default_ttl_
put(k, result, ttl) ==
  /\ cache' = [d \in DOMAIN cache \cup {k} |->
                 IF d = k THEN [result |-> result, expiry_time |-> now + ttl] ELSE cache[d]]
  /\ UNCHANGED <<returned, now>>

get(k) ==
  /\ IF k \in DOMAIN cache /\ ~Expired(k)
       THEN returned' = cache[k].result /\ UNCHANGED cache
       ELSE returned' = None /\ cache' = Without({k})
  /\ UNCHANGED now

remove(k) == cache' = Without({k}) /\ UNCHANGED <<returned, now>>

cleanup_expired ==
  /\ cache' = Without({k \in DOMAIN cache : Expired(k)})
  /\ UNCHANGED <<returned, now>>

CacheClear == cache' = << >> /\ UNCHANGED <<returned, now>>

\* What has expired and has not been erased is counted.
size == returned' = Cardinality(DOMAIN cache) /\ UNCHANGED <<cache, now>>

CacheNext ==
  \/ \E k \in Keys, result \in Results, ttl \in Ttls : put(k, result, ttl)
  \/ \E k \in Keys : get(k) \/ remove(k)
  \/ cleanup_expired \/ CacheClear \/ size
  \/ Tick /\ UNCHANGED cacheVars

CacheSpec == ClockInit /\ CacheInit /\ [][CacheNext]_<<cacheVars, now>>

-----------------------------------------------------------------------------
(* Properties                                                              *)

\* The cache implements a map whose entries disappear by themselves: an entry can be
\* read up to and including the instant it expires and never afterwards, though it is
\* erased late, at the next lookup or clean-up.  Only size() sees that: it counts what
\* has expired until then, and nothing else.
Live(k) == k \in DOMAIN cache /\ now <= cache[k].expiry_time

Map == INSTANCE ExpiringMap WITH
  entry <- [k \in Keys |->
              IF Live(k) THEN [result |-> cache[k].result, left |-> cache[k].expiry_time - now]
              ELSE None],
  held <- DOMAIN cache,
  answer <- returned,
  Size <- Cardinality

ExpiringMapSpec == Map!Spec

=============================================================================
