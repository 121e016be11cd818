--------------------------- MODULE ResourceCache ---------------------------
(***************************************************************************)
(* CacheManager (pkg/k8s/cache.go): four maps, one per kind of object, with *)
(* a lifetime for every entry.  A Get looks under the read lock, waits for  *)
(* the rate limiter, asks the API server and stores the answer under the   *)
(* write lock; several goroutines do so at once and others clear the maps. *)
(*                                                                         *)
(* What an object looks like is a function of the instant it is read at,   *)
(* so that a value is represented by the instant the API server read it.   *)
(* Every section under the lock is one step: an entry is copied in it.     *)
(***************************************************************************)
EXTENDS Integers, FiniteSets

CONSTANTS Callers,         \* goroutines that use the cache
          Names,           \* names of objects (namespace/name, or name)
          CacheTTL,        \* CacheConfig.CacheTTL, in ticks
          MaxFetch,        \* bound: ticks from the API server's read to the end of a Get
          MaxTime,         \* bound: ticks of the clock
          MaxCalls,        \* bound: Gets in all
          MaxClears        \* bound: invalidations in all

ASSUME CacheAssumption == /\ CacheTTL \in Nat \ {0}
                          /\ MaxFetch \in Nat
                          /\ MaxTime \in Nat
                          /\ MaxCalls \in Nat
                          /\ MaxClears \in Nat

Kinds == {"Deployment", "StatefulSet", "Node", "Namespace"}
CacheKeys == Kinds \X Names
NoKey == <<"none", "none">>

Instants == 0 .. MaxTime
Epochs == 0 .. MaxClears

\* An entry of one of the maps.  epoch is history: how often the key had been
\* cleared when the API server read the value.
Entries == [value : Instants, timestamp : Instants, epoch : Epochs]
NoEntry == [value |-> -1, timestamp |-> -1, epoch |-> -1]

VARIABLES
  now,      \* the clock
  cache,    \* the four maps, by key
  pc,       \* where the Get of each caller is
  key,      \* the key it asks for
  fetched,  \* what the API server answered it, with the epoch of the read
  served,   \* the last answer taken from the cache, and when
  epoch,    \* history: invalidations of each key
  late,     \* history: <<key, epoch>> of reads on their way to the cache at an invalidation
  calls,    \* counts Gets, up to MaxCalls
  clears    \* counts invalidations, up to MaxClears

callVars == <<pc, key, fetched>>
cacheVars == <<now, cache, callVars, served, epoch, late, calls, clears>>

NotFetched == [value |-> -1, epoch |-> -1]
NotServed == [key |-> NoKey, value |-> -1, epoch |-> -1, cleared |-> -1, at |-> -1]

CacheTypeOK ==
  /\ now \in Instants
  /\ cache \in [CacheKeys -> Entries \cup {NoEntry}]
  /\ pc \in [Callers -> {"idle", "limiter", "request", "store"}]
  /\ key \in [Callers -> CacheKeys \cup {NoKey}]
  /\ fetched \in [Callers -> [value : Instants, epoch : Epochs] \cup {NotFetched}]
  /\ served \in [key : CacheKeys, value : Instants, epoch : Epochs, cleared : Epochs, at : Instants]
                \cup {NotServed}
  /\ epoch \in [CacheKeys -> Epochs]
  /\ late \subseteq CacheKeys \X Epochs
  /\ calls \in 0 .. MaxCalls
  /\ clears \in 0 .. MaxClears

CacheInit ==
  /\ now = 0
  /\ cache = [k \in CacheKeys |-> NoEntry]
  /\ pc = [c \in Callers |-> "idle"]
  /\ key = [c \in Callers |-> NoKey]
  /\ fetched = [c \in Callers |-> NotFetched]
  /\ served = NotServed
  /\ epoch = [k \in CacheKeys |-> 0]
  /\ late = {}
  /\ calls = 0
  /\ clears = 0

------------------------------------------------------------------------------
(* Get.                                                                    *)

Live(k) == cache[k] # NoEntry /\ now - cache[k].timestamp < CacheTTL

Slip_Hit(c, k) ==  \* a use renews the lifetime
  /\ Live(k)
  /\ served' = [key |-> k, value |-> cache[k].value, epoch |-> cache[k].epoch,
                cleared |-> epoch[k], at |-> now]
  /\ cache' = [cache EXCEPT ![k].timestamp = now]
  /\ UNCHANGED callVars

Hit(c, k) ==
  /\ Live(k)
  /\ served' = [key |-> k, value |-> cache[k].value, epoch |-> cache[k].epoch,
                cleared |-> epoch[k], at |-> now]
  /\ UNCHANGED <<cache, callVars>>

Miss(c, k) ==
  /\ ~ Live(k)
  /\ pc' = [pc EXCEPT ![c] = "limiter"]
  /\ key' = [key EXCEPT ![c] = k]
  /\ UNCHANGED <<cache, fetched, served>>

\* The look into the map of its kind that every Get begins with.
Lookup(c, k) ==
  /\ pc[c] = "idle"
  /\ calls < MaxCalls
  /\ calls' = calls + 1
  /\ Hit(c, k) \/ Miss(c, k)
  /\ UNCHANGED <<now, epoch, late, clears>>

GetDeployment(c) == \E n \in Names : Lookup(c, <<"Deployment", n>>)
GetStatefulSet(c) == \E n \in Names : Lookup(c, <<"StatefulSet", n>>)
GetNode(c) == \E n \in Names : Lookup(c, <<"Node", n>>)
GetNamespace(c) == \E n \in Names : Lookup(c, <<"Namespace", n>>)

\* limiter.Wait returns when there is a token; a tick may pass before.
LimiterWait(c) ==
  /\ pc[c] = "limiter"
  /\ pc' = [pc EXCEPT ![c] = "request"]
  /\ UNCHANGED <<now, cache, key, fetched, served, epoch, late, calls, clears>>

Request(c) ==
  /\ pc[c] = "request"
  /\ fetched' = [fetched EXCEPT ![c] = [value |-> now, epoch |-> epoch[key[c]]]]
  /\ pc' = [pc EXCEPT ![c] = "store"]
  /\ UNCHANGED <<now, cache, key, served, epoch, late, calls, clears>>

\* The context ends in the limiter, or the request fails or finds nothing: the
\* error is returned and the map left alone.
GetFails(c) ==
  /\ pc[c] \in {"limiter", "request", "store"}
  /\ pc' = [pc EXCEPT ![c] = "idle"]
  /\ key' = [key EXCEPT ![c] = NoKey]
  /\ fetched' = [fetched EXCEPT ![c] = NotFetched]
  /\ UNCHANGED <<now, cache, served, epoch, late, calls, clears>>

Store(c) ==
  /\ pc[c] = "store"
  /\ cache' = [cache EXCEPT ![key[c]] = [value |-> fetched[c].value, timestamp |-> now,
                                         epoch |-> fetched[c].epoch]]
  /\ pc' = [pc EXCEPT ![c] = "idle"]
  /\ key' = [key EXCEPT ![c] = NoKey]
  /\ fetched' = [fetched EXCEPT ![c] = NotFetched]
  /\ UNCHANGED <<now, served, epoch, late, calls, clears>>

------------------------------------------------------------------------------
(* Invalidation.                                                           *)

\* The keys of K are invalidated; the maps lose those of Gone.
Drop(K, Gone) ==
  /\ clears < MaxClears
  /\ cache' = [k \in CacheKeys |-> IF k \in Gone THEN NoEntry ELSE cache[k]]
  /\ epoch' = [k \in CacheKeys |-> IF k \in K THEN epoch[k] + 1 ELSE epoch[k]]
  /\ late' = late \cup {<<key[c], fetched[c].epoch>> :
                          c \in {d \in Callers : pc[d] = "store" /\ key[d] \in K}}
  /\ clears' = clears + 1
  /\ UNCHANGED <<now, callVars, served, calls>>

Clear(K) == Drop(K, K)

Slip_InvalidateCache ==  \* the map of the namespaces, added last, is forgotten
  Drop(CacheKeys, {k \in CacheKeys : k[1] # "Namespace"})

InvalidateCache == Clear(CacheKeys)

InvalidateDeploymentCache == \E n \in Names : Clear({<<"Deployment", n>>})
InvalidateStatefulSetCache == \E n \in Names : Clear({<<"StatefulSet", n>>})
InvalidateNodeCache == \E n \in Names : Clear({<<"Node", n>>})
InvalidateNamespaceCache == \E n \in Names : Clear({<<"Namespace", n>>})

\* Client.ClearCache: the client's cache manager is always there.
ClearCache == Clear(CacheKeys)

------------------------------------------------------------------------------

Tick ==
  /\ now < MaxTime
  /\ \A c \in Callers : pc[c] = "store" => now - fetched[c].value < MaxFetch
  /\ now' = now + 1
  /\ UNCHANGED <<cache, callVars, served, epoch, late, calls, clears>>

CacheNext ==
  \/ \E c \in Callers :
       \/ GetDeployment(c) \/ GetStatefulSet(c) \/ GetNode(c) \/ GetNamespace(c)
       \/ LimiterWait(c) \/ Request(c) \/ GetFails(c) \/ Store(c)
  \/ InvalidateCache \/ ClearCache
  \/ InvalidateDeploymentCache \/ InvalidateStatefulSetCache
  \/ InvalidateNodeCache \/ InvalidateNamespaceCache
  \/ Tick

CacheSpec == CacheInit /\ [][CacheNext]_cacheVars

------------------------------------------------------------------------------
(* Properties.                                                             *)

\* What the cache answers was read by the API server less than the lifetime
\* of an entry plus the duration of one Get ago, however often the entry was
\* used and by whichever of several overlapping Gets it was stored last
\* (CacheManager.Get*: the lifetime counts from the store, not from the read).
BoundedStaleness ==
  served # NotServed => served.at - served.value < CacheTTL + MaxFetch

\* After an invalidation of a key the cache answers with a value read before
\* it only if that value was on its way from the API server to the cache when
\* the maps were cleared: nothing that was in a map survives (InvalidateCache,
\* ClearCache, Invalidate*Cache).
InvalidationHolds ==
  served.epoch < served.cleared => <<served.key, served.epoch>> \in late

(* Why they hold.                                                          *)

\* An invalidation is counted before it can be for any key, and a Get knows
\* its key and, once the API server answered, its value.
WellFormed ==
  /\ CacheTypeOK
  /\ \A k \in CacheKeys : epoch[k] <= clears
  /\ \A c \in Callers : pc[c] # "idle" => key[c] \in CacheKeys
  /\ \A c \in Callers : pc[c] = "store" => fetched[c] # NotFetched

\* Ages: of the entries when they were stored, of the values on their way.
Ages ==
  /\ \A k \in CacheKeys : cache[k] # NoEntry => cache[k].timestamp - cache[k].value <= MaxFetch
  /\ \A c \in Callers : pc[c] = "store" => now - fetched[c].value <= MaxFetch
  /\ BoundedStaleness

\* A value read before the last invalidation of its key, wherever it is, was on
\* its way at an invalidation.
Overlaps ==
  /\ \A k \in CacheKeys : cache[k].epoch < epoch[k] /\ cache[k] # NoEntry => <<k, cache[k].epoch>> \in late
  /\ \A c \in Callers : pc[c] = "store" /\ fetched[c].epoch < epoch[key[c]]
                          => <<key[c], fetched[c].epoch>> \in late
  /\ InvalidationHolds

CacheIInv == WellFormed /\ Ages /\ Overlaps
=============================================================================
