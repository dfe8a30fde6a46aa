----------------------------- MODULE ProxyCache -----------------------------
(***************************************************************************)
(* The proxy resolver and its caches, for one subdomain.  Every request to *)
(* a workspace asks the resolver, which looks, in this order, at the       *)
(* misses its own process remembers, at the miss and the workspace stored  *)
(* in Redis, and at the database; then it fetches the headers of the route *)
(* in the same way.  Whoever updates the workspace or its route access     *)
(* afterwards deletes what is cached, and may fail to.                     *)
(*                                                                         *)
(* Time passes in ticks.  Keys with a TTL count down, `since` counts from  *)
(* the last change of the row and `sinceAccess` from that of the headers;  *)
(* a request is answered within Flight ticks.                              *)
(*                                                                         *)
(* An operator whose name ends in _Bug is no part of the model: it is the  *)
(* operator after it with a plausible mistake, and PROJECT.json says which *)
(* property catches it.                                                    *)
(***************************************************************************)
EXTENDS Integers

CONSTANTS
  Procs,    \* API processes, each with one resolution and one update in flight
  Routes,   \* upstreams and ports the row of the running workspace may hold
  Access,   \* headers the route access may hold, "null" among them
  PosTTL,   \* PROXY_WORKSPACE_CACHE_TTL_SECONDS, PROXY_ROUTE_ACCESS_TTL_SECONDS
  MissTTL,  \* PROXY_WORKSPACE_MISS_TTL_SECONDS, NEGATIVE_WORKSPACE_CACHE_TTL_MS
  Flight    \* bound on the ticks a request takes

Down == "down"

ASSUME RoutesAssumption == Routes # {} /\ Down \notin Routes /\ Access # {}
ASSUME TimesAssumption == PosTTL \in Nat \ {0} /\ MissTTL \in Nat \ {0} /\ Flight \in Nat

VARIABLES
  row,          \* the running workspace of the subdomain, or Down
  access,       \* its row of workspace_route_access
  since,        \* ticks since row changed
  sinceAccess,  \* ticks since access changed
  pos,          \* Redis: proxy:workspace
  miss,         \* Redis: the TTL of proxy:workspace:miss, 0 when absent
  grant,        \* Redis: proxy:route_access
  local,        \* the TTL of each process's own negativeWorkspaceCache
  req,          \* the resolution in flight in each process
  todo,         \* the invalidation in flight in each process
  clean         \* the last change of each was invalidated, and nothing raced

vars == <<row, access, since, sinceAccess, pos, miss, grant, local, req, todo, clean>>

-----------------------------------------------------------------------------
Rows == Routes \cup {Down}

\* The counters stop where no property tells them apart any more.
Max2(m, n) == IF m > n THEN m ELSE n
Horizon == Max2(PosTTL + 2 * Flight + 1, 2 * (MissTTL + Flight))
AccessHorizon == PosTTL + Flight

Points == {"idle", "exists", "remember", "get", "db", "set", "forget", "setmiss",
           "grant", "fetch", "store"}

Calls == [pc : Points, route : Rows, access : Access, age : 0..Flight]

NoAccess == CHOOSE a \in Access : TRUE
NoCall == [pc |-> "idle", route |-> Down, access |-> NoAccess, age |-> 0]

NoEntry(v) == [ttl |-> 0, value |-> v]

Init ==
  /\ row \in Rows
  /\ access \in Access
  /\ since = Horizon /\ sinceAccess = AccessHorizon
  /\ pos = NoEntry(Down)
  /\ miss = 0
  /\ grant = NoEntry(NoAccess)
  /\ local = [p \in Procs |-> 0]
  /\ req = [p \in Procs |-> NoCall]
  /\ todo = [p \in Procs |-> "nothing"]
  /\ clean = [row |-> TRUE, access |-> TRUE]

At(p, pc) == req[p].pc = pc
Goto(p, pc) == req' = [req EXCEPT ![p].pc = pc]
Answer(p) == req' = [req EXCEPT ![p] = NoCall]

\* The other variables of a step of the resolver.
Database == <<row, access, since, sinceAccess>>
Redis == <<pos, miss, grant>>
Reading == UNCHANGED <<Database, Redis, local, todo, clean>>

-----------------------------------------------------------------------------
(* proxyResolverRouter.  Each error of Redis is taken for an empty answer. *)

LocalTTL == MissTTL

\* hasRecentProxyWorkspaceMiss
Resolve(p) ==
  /\ req[p] = NoCall /\ local[p] = 0
  /\ Goto(p, "exists")
  /\ Reading

\* hasCachedProxyWorkspaceMiss
ResolveExists(p) ==
  /\ At(p, "exists")
  /\ \/ miss > 0 /\ Goto(p, "remember")
     \/ Goto(p, "get")
  /\ Reading

\* cacheProxyWorkspaceMiss
ResolveRemember(p) ==
  /\ At(p, "remember")
  /\ local' = [local EXCEPT ![p] = LocalTTL]
  /\ Answer(p)
  /\ UNCHANGED <<Database, Redis, todo, clean>>

\* getCachedProxyWorkspace
ResolveGet(p) ==
  /\ At(p, "get")
  /\ \/ pos.ttl > 0 /\ req' = [req EXCEPT ![p].pc = "grant", ![p].route = pos.value]
     \/ Goto(p, "db")
  /\ Reading

\* Only a running workspace is found.
ResolveDb(p) ==
  /\ At(p, "db")
  /\ req' = [req EXCEPT ![p].pc = IF row = Down THEN "forget" ELSE "set", ![p].route = row]
  /\ Reading

\* setCachedProxyWorkspace
ResolveSet(p) ==
  /\ At(p, "set")
  /\ pos' = [ttl |-> PosTTL, value |-> req[p].route] \/ pos' = pos
  /\ Goto(p, "grant")
  /\ UNCHANGED <<Database, miss, grant, local, todo, clean>>

\* Every process may have dropped the miss of this subdomain for those of others.
ResolveForget(p) ==
  /\ At(p, "forget")
  /\ local' = [local EXCEPT ![p] = LocalTTL]
  /\ Goto(p, "setmiss")
  /\ UNCHANGED <<Database, Redis, todo, clean>>

EvictLocal(p) ==
  /\ local[p] > 0
  /\ local' = [local EXCEPT ![p] = 0]
  /\ UNCHANGED <<Database, Redis, req, todo, clean>>

\* setCachedProxyWorkspaceMiss
ResolveSetMiss(p) ==
  /\ At(p, "setmiss")
  /\ miss' = MissTTL \/ miss' = miss
  /\ Answer(p)
  /\ UNCHANGED <<Database, pos, grant, local, todo, clean>>

\* getCachedOrFetchRouteAccess; the answer follows.  A session or an access
\* check that fails ends the request in the same way.
ResolveGrant(p) ==
  /\ At(p, "grant")
  /\ \/ grant.ttl > 0 /\ Answer(p)
     \/ req' = [req EXCEPT ![p].pc = "fetch", ![p].route = Down]
  /\ Reading

ResolveFetch(p) ==
  /\ At(p, "fetch")
  /\ req' = [req EXCEPT ![p].pc = "store", ![p].access = access]
  /\ Reading

ResolveStore(p) ==
  /\ At(p, "store")
  /\ grant' = [ttl |-> PosTTL, value |-> req[p].access] \/ grant' = grant
  /\ Answer(p)
  /\ UNCHANGED <<Database, pos, miss, local, todo, clean>>

-----------------------------------------------------------------------------
(* The updates: each statement on the workspace is followed by             *)
(* invalidateProxyCacheForWorkspace, each on the route access by           *)
(* invalidateAllProxyRouteAccessCache.                                     *)

ChangeRow(p) ==
  /\ todo[p] = "nothing"
  /\ row' \in Rows \ {row}
  /\ since' = 0
  /\ todo' = [todo EXCEPT ![p] = "local"]
  /\ clean' = [clean EXCEPT !.row = FALSE]
  /\ UNCHANGED <<access, sinceAccess, Redis, local, req>>

ChangeAccess(p) ==
  /\ todo[p] = "nothing"
  /\ access' \in Access \ {access}
  /\ sinceAccess' = 0
  /\ todo' = [todo EXCEPT ![p] = "grant"]
  /\ clean' = [clean EXCEPT !.access = FALSE]
  /\ UNCHANGED <<row, since, Redis, local, req>>

\* invalidateLocalProxyWorkspaceMiss reaches the map of this process alone.
InvalidateLocal(p) ==
  /\ todo[p] = "local"
  /\ local' = [local EXCEPT ![p] = 0]
  /\ todo' = [todo EXCEPT ![p] = "all"]
  /\ UNCHANGED <<Database, Redis, req, clean>>

\* The miss survives.
Deleted_Bug(keys) ==
  /\ pos' = IF keys = "all" THEN NoEntry(Down) ELSE pos
  /\ miss' = miss
  /\ grant' = NoEntry(NoAccess)

\* The one DEL at the end of an invalidation.
Deleted(keys) ==
  /\ pos' = IF keys = "all" THEN NoEntry(Down) ELSE pos
  /\ miss' = IF keys = "all" THEN 0 ELSE miss
  /\ grant' = NoEntry(NoAccess)

\* Nothing is in flight that may have read what is being deleted.
Alone(p) == /\ \A o \in Procs : req[o] = NoCall
            /\ \A o \in Procs \ {p} : todo[o] = "nothing"

InvalidateRedis(p) ==
  /\ todo[p] \in {"all", "grant"}
  /\ Deleted(todo[p])
  /\ clean' = [row    |-> clean.row \/ (todo[p] = "all" /\ Alone(p)),
               access |-> clean.access \/ Alone(p)]
  /\ todo' = [todo EXCEPT ![p] = "nothing"]
  /\ UNCHANGED <<Database, local, req>>

\* Redis fails, which is swallowed, or the process dies before the deletion.
InvalidateFails(p) ==
  /\ todo[p] # "nothing"
  /\ todo' = [todo EXCEPT ![p] = "nothing"]
  /\ UNCHANGED <<Database, Redis, local, req, clean>>

-----------------------------------------------------------------------------
Less(n) == IF n > 0 THEN n - 1 ELSE 0
Later(n, end) == IF n < end THEN n + 1 ELSE n
Aged(e, none) == IF e.ttl > 1 THEN [e EXCEPT !.ttl = @ - 1] ELSE NoEntry(none)

\* The workspace is kept for as long as it is asked for.
AgedPos_Bug(e) == IF \E p \in Procs : At(p, "grant") THEN e ELSE Aged(e, Down)
AgedPos(e) == Aged(e, Down)

AgedGrant(e) == Aged(e, NoAccess)

AgedMiss(n) == Less(n)

Tick ==
  /\ \A p \in Procs : At(p, "idle") \/ req[p].age < Flight
  /\ req' = [p \in Procs |-> IF At(p, "idle") THEN req[p]
                             ELSE [req[p] EXCEPT !.age = @ + 1]]
  /\ since' = Later(since, Horizon) /\ sinceAccess' = Later(sinceAccess, AccessHorizon)
  /\ pos' = AgedPos(pos) /\ miss' = AgedMiss(miss) /\ grant' = AgedGrant(grant)
  /\ local' = [p \in Procs |-> AgedMiss(local[p])]
  /\ UNCHANGED <<row, access, todo, clean>>

Resolving(p) ==
  \/ Resolve(p) \/ ResolveExists(p) \/ ResolveRemember(p) \/ ResolveGet(p)
  \/ ResolveDb(p) \/ ResolveSet(p) \/ ResolveForget(p) \/ ResolveSetMiss(p)
  \/ ResolveGrant(p) \/ ResolveFetch(p) \/ ResolveStore(p) \/ EvictLocal(p)

Updating(p) ==
  \/ ChangeRow(p) \/ ChangeAccess(p) \/ InvalidateLocal(p) \/ InvalidateRedis(p)
  \/ InvalidateFails(p)

Next == Tick \/ \E p \in Procs : Resolving(p) \/ Updating(p)

Spec == Init /\ [][Next]_vars

-----------------------------------------------------------------------------
(* Properties.                                                             *)

\* Every key and every request holds what the code can put there, and no
\* request is older than Flight.
TypeOK ==
  /\ row \in Rows /\ access \in Access
  /\ since \in 0..Horizon /\ sinceAccess \in 0..AccessHorizon
  /\ pos \in [ttl : 0..PosTTL, value : Rows]
  /\ miss \in 0..MissTTL
  /\ grant \in [ttl : 0..PosTTL, value : Access]
  /\ local \in [Procs -> 0..MissTTL]
  /\ req \in [Procs -> Calls]
  /\ todo \in [Procs -> {"nothing", "local", "all", "grant"}]
  /\ clean \in [row : BOOLEAN, access : BOOLEAN]

\* A resolver that races with an update may store what the update has made
\* stale after the invalidation; whether or not there was one, the old upstream
\* is out of Redis within the TTL and one request, and is no longer routed to
\* after two.
StaleRouteExpires ==
  /\ (pos.ttl > 0 /\ pos.value # row => since < PosTTL + Flight)
  /\ \A p \in Procs : At(p, "grant") /\ req[p].route # row => since < PosTTL + 2 * Flight + 1

\* The same of the headers, which let the proxy into the upstream.
StaleAccessExpires ==
  grant.ttl > 0 /\ grant.value # access => sinceAccess < PosTTL + Flight

\* A workspace that has come up is refused for no longer than one miss that is
\* stored after the change and a second one that another process copies from it.
StaleMissExpires ==
  row # Down => /\ (miss > 0 => since < MissTTL + Flight)
                /\ \A p \in Procs : local[p] > 0 => since < 2 * (MissTTL + Flight)

\* Whatever becomes of the invalidations, the TTLs bound what is stale.
StaleEntriesExpire == StaleRouteExpires /\ StaleAccessExpires /\ StaleMissExpires

\* What is cached once an invalidation has gone through with nothing in flight
\* beside it agrees with the row until the next change.
CleanCacheIsTrue ==
  /\ clean.row => (pos.ttl > 0 => pos.value = row) /\ (miss > 0 => row = Down)
  /\ clean.access => (grant.ttl > 0 => grant.value = access)

\* What invalidateProxyCacheForWorkspace is for: with no update or resolution in
\* flight, no process refuses a workspace that runs.
NoMissWhenQuiet ==
  row # Down /\ (\A p \in Procs : req[p] = NoCall /\ todo[p] = "nothing")
    => miss = 0 /\ \A p \in Procs : local[p] = 0
=============================================================================
