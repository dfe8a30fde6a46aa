---------------------------- MODULE RedisProofs ----------------------------
(***************************************************************************)
(* What the services of RedisServices promise, for any values of their     *)
(* constants: the proxy's caches, the device login, the activity of a      *)
(* workspace and the slots of the trials, one after the other.             *)
(***************************************************************************)
EXTENDS RedisServices, FiniteSetTheorems, TLAPS

-----------------------------------------------------------------------------
(* ProxyCache: what is stale is gone after the TTLs although invalidations *)
(* fail or race, and what is cached after an invalidation that raced with  *)
(* nothing is true.                                                        *)
(*                                                                         *)
(* How long something stale can last.  What a request has read of the      *)
(* database is older than the last change only if the request is: `since`  *)
(* is at most its age.  What it stores then lives for one TTL, and from    *)
(* there on `since` grows as the TTL shrinks, so their sum never does.     *)

\* An answer of the database that is no longer true is as old as the change.
ReadsOK(p) ==
  /\ req[p].pc \in {"set", "forget", "setmiss"} /\ req[p].route # row
       => since <= req[p].age
  /\ req[p].pc \in {"forget", "setmiss"} => req[p].route = Down
  /\ req[p].pc = "store" /\ req[p].access # access => sinceAccess <= req[p].age

\* So is an answer of Redis, but for the time it had lain there.
HitsOK(p) ==
  /\ req[p].pc = "grant" /\ req[p].route # row
       => since <= PosTTL + Flight + req[p].age
  /\ req[p].pc = "remember" /\ row # Down
       => since <= MissTTL + Flight + req[p].age

\* A stale entry expires within its TTL of the oldest request that stores it.
EntriesOK ==
  /\ pos.ttl > 0 /\ pos.value # row => since + pos.ttl <= PosTTL + Flight
  /\ miss > 0 /\ row # Down => since + miss <= MissTTL + Flight
  /\ grant.ttl > 0 /\ grant.value # access
       => sinceAccess + grant.ttl <= PosTTL + Flight

\* A miss that a process copies from Redis is one TTL older.
LocalOK(p) ==
  local[p] > 0 /\ row # Down => since + local[p] <= 2 * (MissTTL + Flight)

\* A change that was invalidated with nothing beside it is seen by every later
\* request, so these store the truth.
CleanOK ==
  /\ clean.row =>
       /\ pos.ttl > 0 => pos.value = row
       /\ miss > 0 => row = Down
       /\ \A p \in Procs :
            req[p].pc \in {"set", "forget", "setmiss"} => req[p].route = row
  /\ clean.access =>
       /\ grant.ttl > 0 => grant.value = access
       /\ \A p \in Procs : req[p].pc = "store" => req[p].access = access

CacheInv ==
  /\ \A p \in Procs : ReadsOK(p) /\ HitsOK(p) /\ LocalOK(p)
  /\ EntriesOK /\ CleanOK

-----------------------------------------------------------------------------
\* The counters have an end, and it is late enough to tell the bounds apart.
LEMMA HorizonsAreLate ==
  /\ Horizon \in Nat /\ AccessHorizon \in Nat
  /\ PosTTL + 2 * Flight + 1 <= Horizon /\ 2 * (MissTTL + Flight) <= Horizon
  /\ PosTTL + Flight <= AccessHorizon
BY TimesAssumption DEF Horizon, AccessHorizon, Max2

\* The values that stand for "none" are of the right types.
LEMMA NoneType ==
  /\ NoAccess \in Access
  /\ NoCall \in Calls
  /\ NoEntry(Down) \in [ttl : 0..PosTTL, value : Rows]
  /\ NoEntry(NoAccess) \in [ttl : 0..PosTTL, value : Access]
<1>1. NoAccess \in Access
  BY RoutesAssumption DEF NoAccess
<1> QED
  BY <1>1, TimesAssumption DEF NoCall, Calls, Points, Rows, NoEntry

\* A request that has found a route is a request.
LEMMA ReadType ==
  ASSUME req \in [Procs -> Calls], NEW p \in Procs, NEW pc \in Points, NEW v \in Rows,
         req' = [req EXCEPT ![p].pc = pc, ![p].route = v]
  PROVE  req' \in [Procs -> Calls]
<1> DEFINE c == [[req[p] EXCEPT !.pc = pc] EXCEPT !.route = v]
<1>1. req' = [req EXCEPT ![p] = c]
  OBVIOUS
<1>2. c \in Calls
  BY DEF Calls
<1> HIDE DEF c
<1> QED
  BY <1>1, <1>2

\* So is one that has read the headers.
LEMMA FetchType ==
  ASSUME req \in [Procs -> Calls], NEW p \in Procs, NEW a \in Access,
         req' = [req EXCEPT ![p].pc = "store", ![p].access = a]
  PROVE  req' \in [Procs -> Calls]
<1> DEFINE c == [[req[p] EXCEPT !.pc = "store"] EXCEPT !.access = a]
<1>1. req' = [req EXCEPT ![p] = c]
  OBVIOUS
<1>2. c \in Calls
  BY DEF Calls, Points
<1> HIDE DEF c
<1> QED
  BY <1>1, <1>2

\* A key in Redis counts down and is gone at the end.
LEMMA AgedType ==
  ASSUME NEW V, NEW none \in V, NEW e \in [ttl : 0..PosTTL, value : V]
  PROVE  Aged(e, none) \in [ttl : 0..PosTTL, value : V]
BY TimesAssumption DEF Aged, NoEntry

\* Every step of the resolver and of the updates keeps keys and requests in
\* shape, and no request grows older than Flight.
THEOREM TypeCorrect == Spec => []TypeOK
<1>1. Init => TypeOK
  <2> SUFFICES ASSUME Init PROVE TypeOK
    OBVIOUS
  <2>1. since \in 0..Horizon /\ sinceAccess \in 0..AccessHorizon
    BY HorizonsAreLate DEF Init
  <2>2. /\ miss \in 0..MissTTL /\ local \in [Procs -> 0..MissTTL]
        /\ todo \in [Procs -> {"nothing", "local", "all", "grant"}]
        /\ clean \in [row : BOOLEAN, access : BOOLEAN]
    BY TimesAssumption DEF Init
  <2> QED
    BY <2>1, <2>2, NoneType DEF Init, TypeOK
<1>2. TypeOK /\ [Next]_vars => TypeOK'
  <2> SUFFICES ASSUME TypeOK, [Next]_vars PROVE TypeOK'
    OBVIOUS
  <2> USE TimesAssumption DEF TypeOK, Calls, Points
  <2>1. ASSUME NEW p \in Procs, Resolve(p) PROVE TypeOK'
    BY <2>1 DEF Resolve, Goto, Reading, Database, Redis
  <2>2. ASSUME NEW p \in Procs, ResolveExists(p) PROVE TypeOK'
    BY <2>2 DEF ResolveExists, Goto, Reading, Database, Redis
  <2>3. ASSUME NEW p \in Procs, ResolveRemember(p) PROVE TypeOK'
    BY <2>3, NoneType DEF ResolveRemember, Answer, LocalTTL, Database, Redis
  <2>4. ASSUME NEW p \in Procs, ResolveGet(p) PROVE TypeOK'
    <3>1. "grant" \in Points /\ pos.value \in Rows
      BY DEF Points
    <3>2. req' \in [Procs -> Calls]
      <4>1. CASE req' = [req EXCEPT ![p].pc = "grant", ![p].route = pos.value]
        BY <3>1, <4>1, ReadType
      <4>2. CASE Goto(p, "db")
        BY <4>2 DEF Goto
      <4> QED
        BY <2>4, <4>1, <4>2 DEF ResolveGet
    <3> QED
      BY <2>4, <3>2 DEF ResolveGet, Reading, Database, Redis
  <2>5. ASSUME NEW p \in Procs, ResolveDb(p) PROVE TypeOK'
    <3>1. (IF row = Down THEN "forget" ELSE "set") \in Points
      BY DEF Points
    <3>2. req' \in [Procs -> Calls]
      BY <2>5, <3>1, ReadType DEF ResolveDb
    <3> QED
      BY <2>5, <3>2 DEF ResolveDb, Reading, Database, Redis
  <2>6. ASSUME NEW p \in Procs, ResolveSet(p) PROVE TypeOK'
    BY <2>6 DEF ResolveSet, Goto, Database, Redis
  <2>7. ASSUME NEW p \in Procs, ResolveForget(p) PROVE TypeOK'
    BY <2>7 DEF ResolveForget, Goto, LocalTTL, Database, Redis
  <2>8. ASSUME NEW p \in Procs, EvictLocal(p) PROVE TypeOK'
    BY <2>8 DEF EvictLocal, Database, Redis
  <2>9. ASSUME NEW p \in Procs, ResolveSetMiss(p) PROVE TypeOK'
    BY <2>9, NoneType DEF ResolveSetMiss, Answer, Database, Redis
  <2>10. ASSUME NEW p \in Procs, ResolveGrant(p) PROVE TypeOK'
    BY <2>10, NoneType DEF ResolveGrant, Answer, Rows, Reading, Database, Redis
  <2>11. ASSUME NEW p \in Procs, ResolveFetch(p) PROVE TypeOK'
    <3>1. req' \in [Procs -> Calls]
      BY <2>11, FetchType DEF ResolveFetch
    <3> QED
      BY <2>11, <3>1 DEF ResolveFetch, Reading, Database, Redis
  <2>12. ASSUME NEW p \in Procs, ResolveStore(p) PROVE TypeOK'
    BY <2>12, NoneType DEF ResolveStore, Answer, Database, Redis
  <2>13. ASSUME NEW p \in Procs, ChangeRow(p) PROVE TypeOK'
    <3>1. since' \in 0..Horizon
      BY <2>13, HorizonsAreLate DEF ChangeRow
    <3>2. todo' \in [Procs -> {"nothing", "local", "all", "grant"}]
      BY <2>13 DEF ChangeRow
    <3>3. clean' \in [row : BOOLEAN, access : BOOLEAN]
      BY <2>13 DEF ChangeRow
    <3> QED
      BY <2>13, <3>1, <3>2, <3>3 DEF ChangeRow, Database, Redis
  <2>14. ASSUME NEW p \in Procs, ChangeAccess(p) PROVE TypeOK'
    <3>1. sinceAccess' \in 0..AccessHorizon
      BY <2>14, HorizonsAreLate DEF ChangeAccess
    <3>2. todo' \in [Procs -> {"nothing", "local", "all", "grant"}]
      BY <2>14 DEF ChangeAccess
    <3>3. clean' \in [row : BOOLEAN, access : BOOLEAN]
      BY <2>14 DEF ChangeAccess
    <3> QED
      BY <2>14, <3>1, <3>2, <3>3 DEF ChangeAccess, Database, Redis
  <2>15. ASSUME NEW p \in Procs, InvalidateLocal(p) PROVE TypeOK'
    BY <2>15 DEF InvalidateLocal, Database, Redis
  <2>16. ASSUME NEW p \in Procs, InvalidateRedis(p) PROVE TypeOK'
    BY <2>16, NoneType DEF InvalidateRedis, Database, Redis, Deleted
  <2>17. ASSUME NEW p \in Procs, InvalidateFails(p) PROVE TypeOK'
    BY <2>17 DEF InvalidateFails, Database, Redis
  <2>18. ASSUME Tick PROVE TypeOK'
    <3>1. req' \in [Procs -> Calls]
      BY <2>18 DEF Tick, At
    <3>2. since' \in 0..Horizon /\ sinceAccess' \in 0..AccessHorizon
      BY <2>18, HorizonsAreLate DEF Tick, Later
    <3>3. /\ pos' \in [ttl : 0..PosTTL, value : Rows]
          /\ grant' \in [ttl : 0..PosTTL, value : Access]
      BY <2>18, AgedType, NoneType DEF Tick, AgedPos, AgedGrant, Rows
    <3>4. miss' \in 0..MissTTL /\ local' \in [Procs -> 0..MissTTL]
      BY <2>18 DEF Tick, AgedMiss, Less
    <3> QED
      BY <2>18, <3>1, <3>2, <3>3, <3>4 DEF Tick
  <2>19. CASE UNCHANGED vars
    BY <2>19 DEF vars
  <2> QED
    BY <2>1, <2>2, <2>3, <2>4, <2>5, <2>6, <2>7, <2>8, <2>9, <2>10,
       <2>11, <2>12, <2>13, <2>14, <2>15, <2>16, <2>17, <2>18, <2>19 DEF Next, Resolving, Updating
<1> QED
  BY <1>1, <1>2, PTL DEF Spec

-----------------------------------------------------------------------------
\* A request that goes on changes in what it has just read; it grows no older,
\* and the others are as before.
LEMMA GotoEffect ==
  ASSUME TypeOK, NEW p \in Procs, NEW pc, Goto(p, pc)
  PROVE  /\ \A o \in Procs \ {p} : req'[o] = req[o]
         /\ req'[p].pc = pc /\ req'[p].route = req[p].route
         /\ req'[p].access = req[p].access /\ req'[p].age = req[p].age
BY DEF TypeOK, Goto, Calls

\* A request that is answered is gone.
LEMMA AnswerEffect ==
  ASSUME TypeOK, NEW p \in Procs, Answer(p)
  PROVE  /\ \A o \in Procs \ {p} : req'[o] = req[o]
         /\ req'[p].pc = "idle"
BY DEF TypeOK, Answer, NoCall

\* Every step of the resolver, of the updates and of time keeps CacheInv.
LEMMA CacheInvariance == Spec => []CacheInv
<1>1. Init => CacheInv
  BY DEF Init, CacheInv, ReadsOK, HitsOK, EntriesOK, LocalOK, CleanOK, NoEntry, NoCall
<1>2. TypeOK /\ CacheInv /\ [Next]_vars => CacheInv'
  <2> SUFFICES ASSUME TypeOK, CacheInv, [Next]_vars PROVE CacheInv'
    OBVIOUS
  <2> USE TimesAssumption, RoutesAssumption
      DEF TypeOK, Calls, CacheInv, ReadsOK, HitsOK, EntriesOK, LocalOK, CleanOK
  <2>1. ASSUME NEW p \in Procs, Resolve(p) PROVE CacheInv'
    BY <2>1, GotoEffect DEF Resolve, At, Reading, Database, Redis, NoCall
  <2>2. ASSUME NEW p \in Procs, ResolveExists(p) PROVE CacheInv'
    BY <2>2, GotoEffect, SMTT(20) DEF ResolveExists, At, Reading, Database, Redis
  <2>3. ASSUME NEW p \in Procs, ResolveRemember(p) PROVE CacheInv'
    BY <2>3, AnswerEffect DEF ResolveRemember, LocalTTL, At, Database, Redis
  <2>4. ASSUME NEW p \in Procs, ResolveGet(p) PROVE CacheInv'
    <3>1. UNCHANGED <<row, access, since, sinceAccess, pos, miss, grant, local, clean>>
      BY <2>4 DEF ResolveGet, Reading, Database, Redis
    <3>2. CASE Goto(p, "db")
      <4>1. req'[p].pc = "db" /\ \A o \in Procs \ {p} : req'[o] = req[o]
        BY <3>2, GotoEffect
      <4> QED
        BY <3>1, <4>1
    <3>3. CASE pos.ttl > 0 /\ req' = [req EXCEPT ![p].pc = "grant", ![p].route = pos.value]
      <4>1. /\ req'[p].pc = "grant" /\ req'[p].route = pos.value /\ req'[p].age = req[p].age
            /\ \A o \in Procs \ {p} : req'[o] = req[o]
        BY <3>3
      <4>2. pos.value # row => since + pos.ttl <= PosTTL + Flight
        BY <3>3
      <4> QED
        BY <3>1, <3>3, <4>1, <4>2
    <3> QED
      BY <2>4, <3>2, <3>3 DEF ResolveGet
  <2>5. ASSUME NEW p \in Procs, ResolveDb(p) PROVE CacheInv'
    BY <2>5 DEF ResolveDb, At, Reading, Database, Redis
  <2>6. ASSUME NEW p \in Procs, ResolveSet(p) PROVE CacheInv'
    BY <2>6, GotoEffect DEF ResolveSet, At, Database, Redis
  <2>7. ASSUME NEW p \in Procs, ResolveForget(p) PROVE CacheInv'
    BY <2>7, GotoEffect DEF ResolveForget, LocalTTL, At, Database, Redis
  <2>8. ASSUME NEW p \in Procs, EvictLocal(p) PROVE CacheInv'
    BY <2>8 DEF EvictLocal, Database, Redis
  <2>9. ASSUME NEW p \in Procs, ResolveSetMiss(p) PROVE CacheInv'
    BY <2>9, AnswerEffect DEF ResolveSetMiss, At, Database, Redis
  <2>10. ASSUME NEW p \in Procs, ResolveGrant(p) PROVE CacheInv'
    <3>1. UNCHANGED <<row, access, since, sinceAccess, pos, miss, grant, local, clean>>
      BY <2>10 DEF ResolveGrant, Reading, Database, Redis
    <3>2. CASE Answer(p)
      BY <3>1, <3>2, AnswerEffect
    <3>3. CASE req' = [req EXCEPT ![p].pc = "fetch", ![p].route = Down]
      <4>1. req'[p].pc = "fetch" /\ \A o \in Procs \ {p} : req'[o] = req[o]
        BY <3>3
      <4> QED
        BY <3>1, <4>1
    <3> QED
      BY <2>10, <3>2, <3>3 DEF ResolveGrant
  <2>11. ASSUME NEW p \in Procs, ResolveFetch(p) PROVE CacheInv'
    BY <2>11 DEF ResolveFetch, At, Reading, Database, Redis
  <2>12. ASSUME NEW p \in Procs, ResolveStore(p) PROVE CacheInv'
    BY <2>12, AnswerEffect, SMTT(20) DEF ResolveStore, At, Database, Redis
  <2>13. ASSUME NEW p \in Procs, ChangeRow(p) PROVE CacheInv'
    BY <2>13, HorizonsAreLate DEF ChangeRow, Database, Redis
  <2>14. ASSUME NEW p \in Procs, ChangeAccess(p) PROVE CacheInv'
    BY <2>14, HorizonsAreLate DEF ChangeAccess, Database, Redis
  <2>15. ASSUME NEW p \in Procs, InvalidateLocal(p) PROVE CacheInv'
    BY <2>15 DEF InvalidateLocal, Database, Redis
  <2>16. ASSUME NEW p \in Procs, InvalidateRedis(p) PROVE CacheInv'
    BY <2>16 DEF InvalidateRedis, Database, Redis, Deleted, Alone, NoEntry, NoCall
  <2>17. ASSUME NEW p \in Procs, InvalidateFails(p) PROVE CacheInv'
    BY <2>17 DEF InvalidateFails, Database, Redis
  <2>18. ASSUME Tick PROVE CacheInv'
    BY <2>18, HorizonsAreLate DEF Tick, At, Later, AgedPos, AgedGrant, AgedMiss, Aged,
        Less, NoEntry
  <2>19. CASE UNCHANGED vars
    BY <2>19 DEF vars
  <2> QED
    BY <2>1, <2>2, <2>3, <2>4, <2>5, <2>6, <2>7, <2>8, <2>9, <2>10,
       <2>11, <2>12, <2>13, <2>14, <2>15, <2>16, <2>17, <2>18, <2>19 DEF Next, Resolving, Updating
<1> QED
  BY <1>1, <1>2, TypeCorrect, PTL DEF Spec

\* Whatever becomes of the invalidations, and however many processes race, an
\* upstream, headers or a miss that is stale is gone when the TTLs say.
THEOREM StaleExpires == Spec => []StaleEntriesExpire
<1>1. TypeOK /\ CacheInv => StaleEntriesExpire
  BY TimesAssumption DEF TypeOK, Calls, CacheInv, HitsOK, EntriesOK, LocalOK,
     StaleEntriesExpire, StaleRouteExpires, StaleAccessExpires, StaleMissExpires, At
<1> QED
  BY <1>1, TypeCorrect, CacheInvariance, PTL

\* After an invalidation that raced with nothing, the keys in Redis agree with
\* the database until the next change.
THEOREM CleanIsTrue == Spec => []CleanCacheIsTrue
<1>1. CacheInv => CleanCacheIsTrue
  BY DEF CacheInv, CleanOK, CleanCacheIsTrue
<1> QED
  BY <1>1, CacheInvariance, PTL

-----------------------------------------------------------------------------
(* DeviceLogin: who a token belongs to, and that a session that is over    *)
(* stays over, for any number of sessions, users and requests.             *)

\* A hash names a user who approved its device code, and so does a poll that has
\* read one: a denial writes no user, and an approval that comes late writes its
\* own.
UsersApproved ==
  /\ \A c \in Codes : hash[c].user # Device!None => hash[c].user \in approvers[c]
  /\ \A r \in Logins :
       login[r].pc \in {"delete", "mint"} =>
         /\ login[r].code \in Codes
         /\ login[r].user \in Users
         /\ login[r].user \in approvers[login[r].code]

\* No one but createSession writes the user code.
OverIsBare == \A c \in over : hash[c].userCode = Device!None

DeviceInv == Device!TypeOK /\ UsersApproved /\ OverIsBare /\ Device!TokensAreApproved

\* A call that got somewhere has found a code, and knows its user.
DecidersHaveCode ==
  \A r \in Logins :
    /\ login[r].pc \in {"load", "write", "delete"} =>
         /\ login[r].code \in Codes
         /\ login[r].user \in Users
    /\ login[r].pc \in {"load", "write"} => login[r].action # "none"

LEMMA DeviceInitially == Device!Init => DeviceInv /\ DecidersHaveCode
BY DEF Device!Init, DeviceInv, DecidersHaveCode, Device!TypeOK, UsersApproved, OverIsBare,
       Device!TokensAreApproved, Device!NoHash, Device!NoCall, Device!Hashes, Device!Calls,
       Device!Points

\* The steps that write a hash or a link and hold no call.
LEMMA SessionSteps ==
  ASSUME DeviceInv, DecidersHaveCode,
         \/ \E c \in Codes, u \in UserCodes : Device!CreateSession(c, u)
         \/ \E c \in Codes : Device!ExpireHash(c)
         \/ \E u \in UserCodes : Device!ExpireLink(u)
  PROVE  DeviceInv' /\ DecidersHaveCode'
<1> USE DEF DeviceInv, Device!TypeOK, UsersApproved, OverIsBare, Device!TokensAreApproved,
            DecidersHaveCode
<1>1. ASSUME NEW c \in Codes, NEW u \in UserCodes, Device!CreateSession(c, u)
      PROVE  DeviceInv' /\ DecidersHaveCode'
  BY <1>1 DEF Device!CreateSession, Device!Hashes, Device!NoHash
<1>2. ASSUME NEW c \in Codes, Device!ExpireHash(c)
      PROVE  DeviceInv' /\ DecidersHaveCode'
  BY <1>2 DEF Device!ExpireHash, Device!Hashes, Device!NoHash
<1>3. ASSUME NEW u \in UserCodes, Device!ExpireLink(u)
      PROVE  DeviceInv' /\ DecidersHaveCode'
  BY <1>3 DEF Device!ExpireLink
<1> QED
  BY <1>1, <1>2, <1>3

\* approve and deny.
LEMMA DecideSteps ==
  ASSUME DeviceInv, DecidersHaveCode, NEW r \in Logins,
         \/ \E u \in UserCodes, user \in Users, action \in {"approve", "deny"} :
              Device!DecideFind(r, u, user, action)
         \/ Device!DecideLoad(r) \/ Device!DecideWrite(r) \/ Device!Abandon(r)
  PROVE  DeviceInv' /\ DecidersHaveCode'
<1> USE DEF DeviceInv, Device!TypeOK, UsersApproved, OverIsBare, Device!TokensAreApproved,
            DecidersHaveCode
<1>1. ASSUME NEW u \in UserCodes, NEW user \in Users, NEW action \in {"approve", "deny"},
             Device!DecideFind(r, u, user, action)
      PROVE  DeviceInv' /\ DecidersHaveCode'
  BY <1>1 DEF Device!DecideFind, Device!Calls, Device!Points, Device!NoCall
<1>2. CASE Device!DecideLoad(r) \/ Device!Abandon(r)
  <2>1. /\ UNCHANGED <<hash, link, approvers, over, minted>>
        /\ \/ login' = [login EXCEPT ![r] = Device!NoCall]
           \/ login' = [login EXCEPT ![r].pc = "write"] /\ login[r].pc = "load"
    BY <1>2 DEF Device!DecideLoad, Device!Abandon, Device!Goto, Device!Return, Device!At
  <2>2. Device!NoCall \in Device!Calls /\ Device!NoCall.pc = "idle"
    BY DEF Device!NoCall, Device!Calls, Device!Points
  <2>3. [login[r] EXCEPT !.pc = "write"] \in Device!Calls
    BY DEF Device!Calls, Device!Points
  <2>4. Device!TypeOK'
    BY <2>1, <2>2, <2>3
  <2>5. UsersApproved'
    <3>1. CASE login' = [login EXCEPT ![r] = Device!NoCall]
      BY <2>1, <2>2, <3>1
    <3>2. CASE login' = [login EXCEPT ![r].pc = "write"] /\ login[r].pc = "load"
      <4>1. \A o \in Logins : login'[o].pc \in {"delete", "mint"} => login'[o] = login[o]
        BY <3>2 DEF Device!Calls
      <4> QED
        BY <2>1, <4>1
    <3> QED
      BY <2>1, <3>1, <3>2
  <2>6. OverIsBare' /\ Device!TokensAreApproved'
    BY <2>1
  <2>7. DecidersHaveCode'
    <3>1. CASE login' = [login EXCEPT ![r] = Device!NoCall]
      BY <2>2, <3>1
    <3>2. CASE login' = [login EXCEPT ![r].pc = "write"] /\ login[r].pc = "load"
      BY <3>2 DEF Device!Calls
    <3> QED
      BY <2>1, <3>1, <3>2
  <2> QED
    BY <2>4, <2>5, <2>6, <2>7
<1>3. CASE Device!DecideWrite(r)
  <2> DEFINE c == login[r].code
             user == login[r].user
             h == Device!Decided(hash[c], login[r].action, user)
  <2>1. /\ c \in Codes /\ hash[c] \in Device!Hashes /\ user \in Users
        /\ login[r].action \in {"approve", "deny"}
    BY <1>3 DEF Device!DecideWrite, Device!At, Device!Calls
  <2>2. h \in Device!Hashes /\ h.userCode = hash[c].userCode
        /\ h.user = IF login[r].action = "deny" THEN hash[c].user ELSE user
    BY <2>1 DEF Device!Decided, Device!Hashes
  <2>3. hash' = [hash EXCEPT ![c] = h] /\ login' = [login EXCEPT ![r] = Device!NoCall]
    BY <1>3 DEF Device!DecideWrite, Device!Return
  <2>4. \A d \in Codes : /\ approvers'[d] \in SUBSET Users
                         /\ approvers[d] \subseteq approvers'[d]
                         /\ h.user # Device!None => h.user \in approvers'[c]
    BY <1>3, <2>1, <2>2 DEF Device!DecideWrite, Device!Hashes
  <2>5. approvers' \in [Codes -> SUBSET Users] /\ UNCHANGED <<link, over, minted>>
    BY <1>3, <2>1 DEF Device!DecideWrite
  <2>6. Device!NoCall \in Device!Calls /\ Device!NoCall.pc = "idle"
    BY DEF Device!NoCall, Device!Calls, Device!Points
  <2>7. Device!TypeOK'
    BY <2>1, <2>2, <2>3, <2>5, <2>6
  <2>8. UsersApproved'
    BY <2>1, <2>2, <2>3, <2>4, <2>6
  <2>9. OverIsBare' /\ Device!TokensAreApproved' /\ DecidersHaveCode'
    BY <2>1, <2>2, <2>3, <2>4, <2>5, <2>6
  <2> QED
    BY <2>7, <2>8, <2>9
<1> QED
  BY <1>1, <1>2, <1>3

\* The poll of the CLI.
LEMMA PollSteps ==
  ASSUME DeviceInv, DecidersHaveCode, NEW r \in Logins,
         (\E c \in Codes : Device!PollLoad(r, c)) \/ Device!PollDelete(r) \/ Device!PollMint(r)
  PROVE  DeviceInv' /\ DecidersHaveCode'
<1> USE DEF DeviceInv, Device!TypeOK, UsersApproved, OverIsBare, Device!TokensAreApproved,
            DecidersHaveCode
<1>1. ASSUME NEW c \in Codes, Device!PollLoad(r, c)
      PROVE  DeviceInv' /\ DecidersHaveCode'
  <2>1. hash[c].user \in Users /\ hash[c].user \in approvers[c]
        /\ hash[c].userCode \in UserCodes \cup {Device!None}
    BY <1>1 DEF Device!PollLoad, Device!Approved, Device!Hashes
  <2> QED
    BY <1>1, <2>1 DEF Device!PollLoad, Device!Calls, Device!Points, Device!NoCall
<1>2. CASE Device!PollDelete(r)
  <2>1. /\ login[r].code \in Codes
        /\ login' = [login EXCEPT ![r].pc = "mint"]
        /\ hash' = [hash EXCEPT ![login[r].code] = Device!NoHash]
        /\ link' = [link EXCEPT ![login[r].userCode] = Device!None]
        /\ over' = over \cup {login[r].code}
        /\ UNCHANGED <<approvers, minted>>
    BY <1>2 DEF Device!PollDelete, Device!Goto, Device!At
  <2>2. /\ Device!NoHash \in Device!Hashes
        /\ Device!NoHash.user = Device!None /\ Device!NoHash.userCode = Device!None
    BY DEF Device!NoHash, Device!Hashes
  <2>3. [login[r] EXCEPT !.pc = "mint"] \in Device!Calls
    BY DEF Device!Calls, Device!Points
  <2>4. Device!TypeOK'
    BY <2>1, <2>2, <2>3
  <2>5. UsersApproved'
    BY <1>2, <2>1, <2>2, <2>3 DEF Device!PollDelete, Device!At
  <2>6. OverIsBare' /\ Device!TokensAreApproved' /\ DecidersHaveCode'
    BY <2>1, <2>2, <2>3
  <2> QED
    BY <2>4, <2>5, <2>6
<1>3. CASE Device!PollMint(r)
  BY <1>3 DEF Device!PollMint, Device!Return, Device!At, Device!Calls, Device!Points,
              Device!NoCall
<1> QED
  BY <1>1, <1>2, <1>3

LEMMA DeviceStep ==
  DeviceInv /\ DecidersHaveCode /\ [Device!Next]_(Device!vars)
    => DeviceInv' /\ DecidersHaveCode'
<1> SUFFICES ASSUME DeviceInv, DecidersHaveCode, [Device!Next]_(Device!vars)
             PROVE  DeviceInv' /\ DecidersHaveCode'
  OBVIOUS
<1>1. CASE Device!Next
  BY <1>1, SessionSteps, DecideSteps, PollSteps DEF Device!Next
<1>2. CASE UNCHANGED Device!vars
  BY <1>2 DEF Device!vars, DeviceInv, DecidersHaveCode, Device!TypeOK, UsersApproved,
              OverIsBare, Device!TokensAreApproved
<1> QED
  BY <1>1, <1>2

LEMMA DeviceInvariance == Device!Spec => [](DeviceInv /\ DecidersHaveCode)
BY DeviceInitially, DeviceStep, PTL DEF Device!Spec

\* A token belongs to a user who approved the device code it was made for.
THEOREM TokensAreApprovedHolds == Device!Spec => []TokensAreApproved
BY DeviceInvariance, PTL DEF DeviceInv, TokensAreApproved

\* A device code that is over is never an approved session again.
THEOREM OverMeansOverHolds == Device!Spec => []OverMeansOver
<1>1. DeviceInv => OverMeansOver
  BY DEF DeviceInv, OverIsBare, OverMeansOver, Device!OverMeansOver, Device!Approved,
         Device!Session
<1> QED
  BY <1>1, DeviceInvariance, PTL
-----------------------------------------------------------------------------
(* WorkspaceActivity: how far lastActiveAt is behind, for any timeout, any *)
(* throttle and any number of recordings.                                  *)
(*                                                                         *)
(* Every recording ends with a write of lastActiveAt or with one of Redis  *)
(* alone, and the latter only when another one holds the throttle key, who *)
(* has written lastActiveAt since it took the key, or is about to.  Whose  *)
(* SET fails writes lastActiveAt, so that what Redis lost is in the row.   *)

\* A recording that is going to write lastActiveAt.
Storing(r) ==
  \/ recording[r].pc \in {"store", "fallback"}
  \/ recording[r].pc = "set" /\ recording[r].won

\* Unless somebody is about to write it, lastActiveAt is no older than the throttle
\* key, than the last use and than a use that is written to Redis alone.
Throttled ==
  \/ \E r \in Recordings : Storing(r)
  \/ /\ key > 0 => stored + key <= Throttle + Delay
     /\ stored <= used + Throttle + Delay
     /\ \A r \in Recordings :
          recording[r].pc = "set" => stored <= recording[r].age + Throttle + Delay

\* What is about to be written is younger than Delay, and so is what Redis then has.
Told ==
  ~lost /\ redis # Activity!Missing =>
    /\ redis <= used + Delay
    /\ \A r \in Recordings :
         recording[r].pc \in {"store", "fallback"} => redis <= recording[r].age + Delay

\* Who lost a SET writes lastActiveAt, which has that use until Redis has a later one.
LostIsStored == lost => (\E r \in Recordings : Storing(r)) \/ stored <= used + Delay

\* The row of the candidate is no further behind than it was then, and Redis, when it had
\* the last use then, is not either: a later use is told it younger than Delay.
PassRead ==
  pass.pc = "read" =>
    /\ pass.row > Tightest
    /\ pass.row <= pass.unused + Throttle + Delay
    /\ pass.behind => pass.row <= pass.unused + Delay
    /\ ~pass.behind /\ redis # Activity!Missing => redis <= pass.unused + Delay

\* The types, with ages that a recording longer than the timeout takes past the horizon.
AgesTyped ==
  /\ used \in Nat /\ stored \in Nat /\ redis \in Nat \cup {Activity!Missing}
  /\ key \in 0..Throttle
  /\ recording \in [Recordings -> Activity!Calls]
  /\ pass \in [pc : {"none", "read", "listed"}, row : Nat, unused : Nat, behind : BOOLEAN]

LostTyped == lost \in BOOLEAN

ActivityInv ==
  AgesTyped /\ LostTyped /\ Throttled /\ Told /\ LostIsStored /\ PassRead /\ ListedIsIdle

\* A recording leaves what the pass has read, and tells Redis a young use.
LEMMA PassStays ==
  ASSUME ActivityInv, pass' = pass, redis' \in {redis} \cup 0..Delay
  PROVE  PassRead' /\ ListedIsIdle'
<1> USE ActivityAssumption
<1>1. ListedIsIdle'
  BY DEF ActivityInv, ListedIsIdle, Activity!ListedIsIdle
<1>2. ASSUME pass.pc = "read", ~pass.behind, redis' # Activity!Missing
      PROVE  redis' <= pass.unused + Delay
  BY <1>2 DEF ActivityInv, AgesTyped, PassRead
<1> QED
  BY <1>1, <1>2 DEF ActivityInv, PassRead

LEMMA RecordingSteps ==
  ASSUME ActivityInv, NEW r \in Recordings, Activity!Recording(r)
  PROVE  ActivityInv'
<1> USE ActivityAssumption
<1> USE DEF ActivityInv, AgesTyped, Activity!Missing, Activity!At, Activity!Goto,
            Activity!NoCall
<1>1. recording[r].age \in 0..Delay /\ recording[r].won \in BOOLEAN
  BY DEF Activity!Calls
<1>0. LostTyped'
  <2>1. lost' \in {lost, FALSE, redis # Activity!Missing}
    BY DEF Activity!Recording, Activity!Record, Activity!RecordTake, Activity!RecordSet,
           Activity!RecordStore, Activity!Fails
  <2> QED
    BY <2>1, Zenon DEF LostTyped
<1>2. CASE Activity!Record(r)
  <2>1. PassRead' /\ ListedIsIdle'
    BY <1>2, PassStays DEF Activity!Record
  <2> QED
    BY <1>0, <1>2, <2>1 DEF Activity!Record, Throttled, Told, LostIsStored, Storing, Activity!Calls
<1>3. CASE Activity!RecordTake(r) \/ Activity!RecordSet(r)
  <2>1. /\ recording[r].pc \in {"take", "set"} /\ stored' = stored /\ pass' = pass
        /\ redis' \in {redis, recording[r].age} /\ key' \in 0..Throttle
    BY <1>3 DEF Activity!RecordTake, Activity!RecordSet, Activity!Taken
  <2>0. PassRead' /\ ListedIsIdle'
    BY <1>1, <2>1, PassStays
  <2>2. ASSUME Activity!Goto(r, "fallback"), used' = used, redis' = recording[r].age,
               lost' = FALSE
        PROVE  ActivityInv'
    <3>1. recording' \in [Recordings -> Activity!Calls] /\ recording'[r].pc = "fallback"
          /\ recording'[r].age = recording[r].age
          /\ \A q \in Recordings \ {r} : recording'[q] = recording[q]
      BY <2>2 DEF Activity!Calls
    <3>2. Storing(r)'
      BY <3>1 DEF Storing
    <3>3. Told'
      BY <1>1, <2>2, <3>1 DEF Told, Activity!Calls
    <3>4. Throttled' /\ LostIsStored'
      BY <3>2 DEF Throttled, LostIsStored
    <3>5. AgesTyped'
      BY <1>1, <2>1, <2>2, <3>1
    <3> QED
      BY <1>0, <2>0, <3>3, <3>4, <3>5
  <2>3. ASSUME Activity!Fails(r), used' = used, redis' = redis PROVE ActivityInv'
    <3>1. recording' \in [Recordings -> Activity!Calls] /\ recording'[r].pc = "fallback"
          /\ lost' = (redis # Activity!Missing)
      BY <2>3 DEF Activity!Fails, Activity!Calls
    <3>2. Storing(r)'
      BY <3>1 DEF Storing
    <3>3. AgesTyped'
      BY <2>1, <2>3, <3>1
    <3>4. Throttled' /\ LostIsStored'
      BY <3>2 DEF Throttled, LostIsStored
    <3>5. Told'
      BY <2>3, <3>1 DEF Told
    <3> QED
      BY <1>0, <2>0, <3>3, <3>4, <3>5
  <2>4. CASE Activity!RecordTake(r)
    <3>1. ASSUME key' = Activity!Taken, UNCHANGED <<used, redis, stored, pass, lost>>,
                 recording' = [recording EXCEPT ![r].pc = "set", ![r].won = (key = 0)]
          PROVE  ActivityInv'
      <4>0. PICK w \in BOOLEAN : w <=> key = 0
        OBVIOUS
      <4>1. recording' \in [Recordings -> Activity!Calls] /\ recording[r].pc = "take"
            /\ recording'[r].pc = "set" /\ recording'[r].won = w
            /\ recording'[r].age = recording[r].age
            /\ \A q \in Recordings \ {r} : recording'[q] = recording[q]
        <5>1. recording' = [recording EXCEPT ![r].pc = "set", ![r].won = w]
          BY <3>1, <4>0
        <5> QED
          BY <2>4, <5>1 DEF Activity!RecordTake, Activity!Calls
      <4>2. /\ \A q \in Recordings \ {r} : Storing(q)' <=> Storing(q)
            /\ Storing(r)' <=> key = 0
            /\ ~Storing(r)
        <5>3. Storing(r)' <=> key = 0
          BY <4>0, <4>1 DEF Storing
        <5>4. ~Storing(r)
          BY <4>1 DEF Storing
        <5>5. \A q \in Recordings \ {r} : Storing(q)' <=> Storing(q)
          BY <4>1 DEF Storing
        <5> QED
          BY <5>3, <5>4, <5>5
      <4>3. Throttled'
        BY <1>1, <3>1, <4>1, <4>2 DEF Throttled, Activity!Taken, Activity!Calls
      <4>4. Told' /\ LostIsStored'
        BY <3>1, <4>1, <4>2 DEF Told, LostIsStored
      <4> QED
        BY <1>0, <2>0, <2>1, <3>1, <4>1, <4>3, <4>4
    <3> QED
      BY <2>3, <2>4, <3>1 DEF Activity!RecordTake, Activity!Fails
  <2>5. CASE Activity!RecordSet(r)
    <3> DEFINE Tells == redis' = recording[r].age /\ lost' = FALSE
    <3>1. recording[r].pc = "set" /\ key' = key
      BY <2>5 DEF Activity!RecordSet
    <3>2. ASSUME Tells, recording[r].won, Activity!Goto(r, "store"), used' = used
          PROVE  ActivityInv'
      <4>1. recording' \in [Recordings -> Activity!Calls] /\ recording'[r].pc = "store"
            /\ recording'[r].age = recording[r].age
            /\ \A q \in Recordings \ {r} : recording'[q] = recording[q]
        BY <3>2 DEF Activity!Calls
      <4>2. Storing(r)'
        BY <4>1 DEF Storing
      <4>3. Told'
        BY <1>1, <3>2, <4>1 DEF Told, Activity!Calls
      <4>4. Throttled' /\ LostIsStored'
        BY <4>2 DEF Throttled, LostIsStored
      <4>5. AgesTyped'
        BY <1>1, <2>1, <3>2, <4>1
      <4> QED
        BY <1>0, <2>0, <4>3, <4>4, <4>5
    <3>3. ASSUME Tells, ~recording[r].won, Activity!Return(r) PROVE ActivityInv'
      <4>1. recording' = [recording EXCEPT ![r] = Activity!NoCall]
            /\ used' = IF recording[r].age < used THEN recording[r].age ELSE used
        BY <3>3 DEF Activity!Return
      <4>2. recording' \in [Recordings -> Activity!Calls] /\ used' \in Nat
        BY <1>1, <4>1 DEF Activity!Calls
      <4>3. /\ \A q \in Recordings \ {r} : recording'[q] = recording[q]
            /\ recording'[r].pc = "idle"
        BY <4>1
      <4>4. Throttled'
        <5>1. ~Storing(r) /\ ~Storing(r)'
              /\ \A q \in Recordings \ {r} : Storing(q)' <=> Storing(q)
          BY <3>1, <3>3, <4>3 DEF Storing
        <5> QED
          BY <1>1, <2>1, <3>1, <4>1, <4>3, <5>1 DEF Throttled
      <4>5. Told' /\ LostIsStored'
        BY <1>1, <3>3, <4>1, <4>3 DEF Told, LostIsStored, Activity!Calls
      <4>6. AgesTyped'
        BY <1>1, <2>1, <3>3, <4>2
      <4> QED
        BY <1>0, <2>0, <4>4, <4>5, <4>6
    <3> QED
      BY <2>2, <2>3, <2>5, <3>2, <3>3 DEF Activity!RecordSet
  <2> QED
    BY <1>3, <2>4, <2>5
<1>4. CASE Activity!RecordStore(r)
  <2>1. /\ recording[r].pc \in {"store", "fallback"} /\ stored' = recording[r].age
        /\ recording' = [recording EXCEPT ![r] = Activity!NoCall]
        /\ used' = IF recording[r].age < used THEN recording[r].age ELSE used
        /\ UNCHANGED <<redis, key, pass, lost>>
    BY <1>4 DEF Activity!RecordStore, Activity!Return
  <2>2. recording' \in [Recordings -> Activity!Calls] /\ used' \in Nat /\ stored' \in Nat
    BY <1>1, <2>1 DEF Activity!Calls
  <2>3. \A q \in Recordings : recording'[q].pc = "idle" \/ recording'[q] = recording[q]
    BY <2>1
  <2>4. Throttled'
    BY <1>1, <2>1, <2>2 DEF Throttled, Activity!Calls
  <2>5. Told' /\ LostIsStored'
    BY <1>1, <2>1, <2>2, <2>3 DEF Told, LostIsStored, Activity!Calls
  <2>6. PassRead' /\ ListedIsIdle'
    BY <2>1, PassStays
  <2> QED
    BY <1>0, <2>1, <2>2, <2>4, <2>5, <2>6
<1> QED
  BY <1>2, <1>3, <1>4 DEF Activity!Recording

LEMMA ActivityInvariance == Activity!Spec => []ActivityInv
<1> USE ActivityAssumption
<1>1. Activity!Init => ActivityInv
  <2> SUFFICES ASSUME Activity!Init PROVE ActivityInv
    OBVIOUS
  <2>1. AgesTyped
    <3>1. Activity!NoCall \in Activity!Calls
      BY DEF Activity!NoCall, Activity!Calls
    <3>2. pass \in [pc : {"none", "read", "listed"}, row : Nat, unused : Nat, behind : BOOLEAN]
      BY DEF Activity!Init, Activity!NoPass
    <3> QED
      BY <3>1, <3>2 DEF Activity!Init, AgesTyped
  <2>2. Throttled /\ Told /\ LostIsStored /\ PassRead
    BY DEF Activity!Init, Activity!NoCall, Activity!Missing, Activity!NoPass, Throttled,
           Told, LostIsStored, PassRead
  <2>3. ListedIsIdle
    BY DEF Activity!Init, Activity!NoPass, ListedIsIdle, Activity!ListedIsIdle
  <2>4. LostTyped
    BY Zenon DEF Activity!Init, LostTyped
  <2> QED
    BY <2>1, <2>2, <2>3, <2>4 DEF ActivityInv
<1>2. ActivityInv /\ [Activity!Next]_(Activity!vars) => ActivityInv'
  <2> SUFFICES ASSUME ActivityInv, [Activity!Next]_(Activity!vars) PROVE ActivityInv'
    OBVIOUS
  <2> USE DEF ActivityInv, AgesTyped, Activity!Missing, ListedIsIdle,
              Activity!ListedIsIdle, Activity!At, Activity!NoCall
  <2>0. LostTyped'
    <3>1. lost' \in {lost, FALSE} \/ \E r \in Recordings : Activity!Recording(r)
      BY DEF Activity!vars, Activity!Next, Activity!IdleQuery, Activity!IdleFilter,
             Activity!Forget, Activity!Tick
    <3> QED
      BY <3>1, RecordingSteps, Zenon DEF ActivityInv, LostTyped
  <2>1. CASE UNCHANGED Activity!vars
    BY <2>0, <2>1 DEF Activity!vars, Throttled, Told, LostIsStored, PassRead, Storing
  <2>2. CASE \E r \in Recordings : Activity!Recording(r)
    BY <2>2, RecordingSteps
  <2>3. CASE Activity!IdleQuery
    <3>1. /\ \A r \in Recordings : recording[r].pc = "idle"
          /\ stored > Tightest
          /\ pass' = [pc |-> "read", row |-> stored, unused |-> used, behind |-> lost]
          /\ UNCHANGED <<used, redis, stored, key, recording, lost>>
      BY <2>3 DEF Activity!IdleQuery, Activity!Quiet
    <3>2. \A r \in Recordings : ~Storing(r)
      BY <3>1 DEF Storing
    <3>3. PassRead'
      BY <3>1, <3>2 DEF PassRead, Throttled, Told, LostIsStored
    <3> QED
      <4>1. AgesTyped'
        BY <3>1, Zenon DEF LostTyped
      <4> QED
        BY <2>0, <3>1, <3>3, <4>1 DEF Throttled, Told, LostIsStored, Storing
  <2>4. CASE Activity!IdleFilter
    <3>1. /\ pass.pc = "read"
          /\ UNCHANGED <<used, redis, stored, key, recording, lost>>
      BY <2>4 DEF Activity!IdleFilter
    <3>2. \/ pass' = Activity!NoPass
          \/ /\ pass' = [pass EXCEPT !.pc = "listed"]
             /\ redis = Activity!Missing \/ redis <= Timeout => pass.row > Timeout
      BY <2>4 DEF Activity!IdleFilter, Activity!Seen
    <3>3. PassRead' /\ AgesTyped'
      <4> DEFINE Reads == [pc : {"none", "read", "listed"}, row : Nat, unused : Nat,
                           behind : BOOLEAN]
      <4>1. pass' \in Reads
        <5>1. Activity!NoPass \in Reads
          BY DEF Activity!NoPass
        <5>2. [pass EXCEPT !.pc = "listed"] \in Reads
          OBVIOUS
        <5> HIDE DEF Reads
        <5> QED
          BY <3>2, <5>1, <5>2
      <4>2. pass'.pc # "read"
        BY <3>2 DEF Activity!NoPass
      <4> QED
        BY <3>1, <4>1, <4>2 DEF PassRead
    <3>4. CASE pass' = Activity!NoPass
      BY <2>0, <3>1, <3>3, <3>4 DEF Throttled, Told, LostIsStored, Storing, Activity!NoPass
    <3>5. CASE pass' # Activity!NoPass
      <4>1. /\ pass'.row = pass.row /\ pass'.unused = pass.unused
            /\ pass'.behind = pass.behind
        BY <3>2, <3>5
      <4>2. IF pass.behind THEN pass.unused + Delay > Tightest
                           ELSE pass.unused + Throttle + Delay > Timeout
        BY <3>1, <3>2, <3>5 DEF PassRead
      <4> QED
        BY <2>0, <3>1, <3>3, <4>1, <4>2 DEF Throttled, Told, LostIsStored, Storing
    <3> QED
      BY <3>4, <3>5
  <2>5. CASE Activity!Forget
    BY <2>0, <2>5 DEF Activity!Forget, Throttled, Told, LostIsStored, PassRead, Storing
  <2>6. CASE Activity!Tick
    <3>1. /\ pass.pc # "read" /\ UNCHANGED <<pass, lost>>
          /\ used' = Activity!Older(used) /\ stored' = Activity!Older(stored)
          /\ redis' = IF redis = Activity!Missing THEN redis ELSE Activity!Older(redis)
          /\ key' = IF key = 0 THEN 0 ELSE key - 1
      BY <2>6 DEF Activity!Tick
    <3>2. /\ \A n \in Nat : Activity!Older(n) \in Nat /\ Activity!Older(n) <= n + 1
          /\ \A n, m, d \in Nat : n <= m + d => Activity!Older(n) <= Activity!Older(m) + d
      BY DEF Activity!Older, Activity!Horizon
    <3>3. /\ recording' \in [Recordings -> Activity!Calls]
          /\ \A r \in Recordings :
               /\ recording'[r].pc = recording[r].pc
               /\ recording'[r].pc # "idle" => recording'[r].won = recording[r].won
                                               /\ recording'[r].age = recording[r].age + 1
      BY <2>6 DEF Activity!Tick, Activity!Calls
    <3>4. \A r \in Recordings : Storing(r)' <=> Storing(r)
      BY <3>3 DEF Storing
    <3>5. \A r \in Recordings : recording[r].age \in Nat
      BY DEF Activity!Calls
    <3>6. Throttled'
      <4>1. CASE \E r \in Recordings : Storing(r)
        BY <3>4, <4>1 DEF Throttled
      <4>2. CASE ~ \E r \in Recordings : Storing(r)
        <5>1. /\ key > 0 => stored + key <= Throttle + Delay
              /\ stored <= used + (Throttle + Delay)
              /\ \A r \in Recordings :
                   recording[r].pc = "set" => stored <= recording[r].age + Throttle + Delay
          BY <4>2 DEF Throttled
        <5>2. stored' <= used' + (Throttle + Delay)
          <6> DEFINE d == Throttle + Delay
          <6>1. d \in Nat /\ stored <= used + d
            BY <5>1
          <6>2. Activity!Older(stored) <= Activity!Older(used) + d
            BY <3>2, <6>1
          <6> QED
            BY <3>1, <6>2
        <5>3. stored' <= stored + 1
          BY <3>1, <3>2
        <5>4. key' > 0 => stored' + key' <= Throttle + Delay
          <6>1. stored \in Nat /\ stored' \in Nat /\ key \in Nat
            BY <3>1, <3>2
          <6>2. key' > 0 => key > 0 /\ key' = key - 1
            BY <3>1, <6>1
          <6>3. ASSUME key > 0, key' = key - 1 PROVE stored' + key' <= Throttle + Delay
            <7>1. stored + key <= Throttle + Delay
              BY <5>1, <6>3
            <7>2. \A m, n, k, d \in Nat : n <= m + 1 /\ m + k <= d => n + (k - 1) <= d
              OBVIOUS
            <7>3. Throttle + Delay \in Nat
              OBVIOUS
            <7>4. stored' + (key - 1) <= Throttle + Delay
              <8> HIDE DEF ActivityInv
              <8> QED
                BY <5>3, <6>1, <7>1, <7>2, <7>3
            <7> QED
              BY <6>3, <7>4
          <6> QED
            BY <6>2, <6>3
        <5>5. \A r \in Recordings :
                recording'[r].pc = "set" => stored' <= recording'[r].age + Throttle + Delay
          <6> SUFFICES ASSUME NEW r \in Recordings, recording'[r].pc = "set"
                       PROVE  stored' <= recording'[r].age + Throttle + Delay
            OBVIOUS
          <6>1. recording'[r].age = recording[r].age + 1 /\ recording[r].age \in Nat
                /\ recording[r].pc = "set"
            BY <3>3, <3>5
          <6>2. stored <= recording[r].age + Throttle + Delay
            BY <5>1, <6>1
          <6>3. stored \in Nat /\ stored' \in Nat
            BY <3>1, <3>2
          <6> QED
            BY <5>3, <6>1, <6>2, <6>3
        <5> QED
          BY <3>1, <3>2, <5>2, <5>4, <5>5 DEF Throttled
      <4> QED
        BY <4>1, <4>2
    <3>7. LostIsStored'
      BY <3>1, <3>2, <3>4 DEF LostIsStored
    <3>8. Told'
      <4>1. ASSUME ~lost, redis' # Activity!Missing PROVE redis' <= used' + Delay
        BY <3>1, <3>2, <4>1 DEF Told
      <4>2. ASSUME ~lost, redis' # Activity!Missing, NEW r \in Recordings,
                   recording[r].pc \in {"store", "fallback"}
            PROVE  redis' <= recording'[r].age + Delay
        <5>1. redis \in Nat /\ redis' <= redis + 1 /\ redis' \in Nat
          BY <3>1, <3>2, <4>2
        <5>2. redis <= recording[r].age + Delay /\ recording'[r].age = recording[r].age + 1
          BY <3>1, <3>3, <4>2, <5>1 DEF Told
        <5> QED
          BY <3>5, <5>1, <5>2
      <4> QED
        <5> HIDE DEF ActivityInv, AgesTyped
        <5> QED
          BY <3>1, <3>3, <4>1, <4>2 DEF Told
    <3>9. AgesTyped'
      <4>1. used' \in Nat /\ stored' \in Nat /\ redis' \in Nat \cup {Activity!Missing}
        BY <3>1, <3>2
      <4>2. key' \in 0..Throttle
        BY <3>1
      <4> QED
        BY <3>1, <3>3, <4>1, <4>2
    <3>10. PassRead' /\ ListedIsIdle'
      BY <3>1 DEF PassRead
    <3> QED
      BY <2>0, <3>6, <3>7, <3>8, <3>9, <3>10
  <2> QED
    BY <2>1, <2>2, <2>3, <2>4, <2>5, <2>6 DEF Activity!Next
<1> QED
  BY <1>1, <1>2, PTL DEF Activity!Spec

\* ListedIsIdle: however Redis fails or forgets, a workspace that is listed as idle had
\* been unused for its timeout, less the throttle and the time a recording takes; after
\* a lost SET for the shortest timeout of all plans, less the time a recording takes.
THEOREM ListedStaysIdle == Activity!Spec => []ListedIsIdle
BY ActivityInvariance, PTL DEF ActivityInv
-----------------------------------------------------------------------------
(* AnonTry: one workspace for one address in a window, for any number of   *)
(* launches, whichever of them fails or dies on whatever step.             *)

InFlight(t) == launch[t] \in Anon!InFlight

\* Who is in flight has the slot alone, and nobody has been answered since it was
\* taken; who was answered has it until the window ends.
SlotIsOfOne ==
  /\ \A t, u \in Trials : InFlight(t) /\ InFlight(u) => t = u
  /\ \A t \in Trials : InFlight(t) => taken /\ answered = {}
  /\ \A t, u \in answered : t = u
  /\ answered # {} => taken

AnonInv ==
  /\ launch \in [Trials -> Anon!InFlight \cup {"new", "done"}]
  /\ answered \subseteq Trials
  /\ SlotIsOfOne

LEMMA AnonInvariance == Anon!Spec => []AnonInv
<1>1. Anon!Init => AnonInv
  BY DEF Anon!Init, AnonInv, SlotIsOfOne, InFlight, Anon!InFlight
<1>2. AnonInv /\ [Anon!Next]_(Anon!vars) => AnonInv'
  <2> SUFFICES ASSUME AnonInv, [Anon!Next]_(Anon!vars) PROVE AnonInv'
    OBVIOUS
  <2> USE DEF AnonInv, SlotIsOfOne, InFlight, Anon!InFlight
  <2>1. CASE UNCHANGED <<taken, launch, answered>>
    BY <2>1
  <2>2. ASSUME NEW t \in Trials, Anon!Try(t) \/ Anon!Crash(t) PROVE AnonInv'
    <3> USE DEF Anon!Launch
    <3>1. CASE Anon!TryBegin(t)
      BY <3>1 DEF Anon!TryBegin, Anon!Cleared
    <3>2. CASE Anon!TryValidate(t)
      BY <3>2 DEF Anon!TryValidate
    <3>3. CASE Anon!TryPrepare(t)
      BY <3>3 DEF Anon!TryPrepare
    <3>4. CASE Anon!TrySpawn(t)
      BY <3>4 DEF Anon!TrySpawn
    <3>5. CASE Anon!TryInsert(t)
      BY <3>5 DEF Anon!TryInsert
    <3>6. CASE Anon!TryRoute(t)
      BY <3>6 DEF Anon!TryRoute
    <3>7. CASE Anon!TryRelease(t)
      BY <3>7 DEF Anon!TryRelease
    <3>8. CASE Anon!Crash(t)
      BY <3>8 DEF Anon!Crash
    <3> QED
      BY <2>2, <3>1, <3>2, <3>3, <3>4, <3>5, <3>6, <3>7, <3>8 DEF Anon!Try
  <2>3. CASE Anon!SlotExpires
    BY <2>3 DEF Anon!SlotExpires
  <2>4. ASSUME NEW t \in Trials,
               \/ Anon!LeaseEnds(t) \/ Anon!SandboxKilled(t) \/ Anon!Webhook(t)
               \/ Anon!VisitorBegin(t) \/ Anon!ReaperBegin(t)
        PROVE  UNCHANGED <<taken, launch, answered>>
    BY <2>4 DEF Anon!LeaseEnds, Anon!SandboxKilled, Anon!Webhook, Anon!VisitorBegin,
                Anon!ReaperBegin, Anon!trial
  <2>5. ASSUME Anon!ReaperList \/ (\E e \in Anon!Enders : Anon!End(e))
        PROVE  UNCHANGED <<taken, launch, answered>>
    BY <2>5 DEF Anon!ReaperList, Anon!End, Anon!EndProvider, Anon!EndWrite, Anon!EndRoutes,
                Anon!trial
  <2>6. CASE UNCHANGED Anon!vars
    BY <2>1, <2>6 DEF Anon!vars
  <2> QED
    BY <2>1, <2>2, <2>3, <2>4, <2>5, <2>6 DEF Anon!Next
<1> QED
  BY <1>1, <1>2, PTL DEF Anon!Spec

\* AnsweredOnce: an address is given one workspace in a window, and no launch that
\* fails or dies gives back the slot of one that was answered.
THEOREM TrialsAnswerOnce == Anon!Spec => []AnsweredOnce
<1>1. AnonInv => AnsweredOnce
  <2> SUFFICES ASSUME AnonInv PROVE Cardinality(answered) <= 1 /\ (answered # {} => taken)
    BY DEF AnsweredOnce, Anon!AnsweredOnce, Anon!Cardinality, Cardinality
  <2>1. CASE answered = {}
    BY <2>1, FS_EmptySet
  <2>2. ASSUME NEW t \in answered PROVE Cardinality(answered) = 1
    <3>1. answered = {t}
      BY DEF AnonInv, SlotIsOfOne
    <3> QED
      BY <3>1, FS_Singleton
  <2> QED
    BY <2>1, <2>2 DEF AnonInv, SlotIsOfOne
<1> QED
  BY <1>1, AnonInvariance, PTL
=============================================================================
