---------------------------- MODULE DeviceLogin ----------------------------
(***************************************************************************)
(* The device code login: a CLI starts a session, its user approves or     *)
(* denies it under the user code in the web application, and the CLI polls *)
(* until it gets an API token.                                             *)
(*                                                                         *)
(* A session is two keys in Redis, the hash of the device code and the     *)
(* link from the user code, with a TTL of ten minutes.  Every operation    *)
(* reads them, decides, and writes without looking again, and HSET makes a *)
(* hash, with no TTL, where there is none; `req` holds the operations in   *)
(* flight.  That a new user code collides with a live one, five times in a *)
(* row, is left out.                                                       *)
(*                                                                         *)
(* An operator whose name ends in _Bug is no part of the model: it is the  *)
(* operator after it with a plausible mistake, and PROJECT.json says which *)
(* property catches it.                                                    *)
(***************************************************************************)
EXTENDS Naturals, FiniteSets

CONSTANTS
  Codes,      \* device codes; a bound on the sessions
  UserCodes,  \* user codes, which may be handed out again
  Users,
  Requests    \* operations that may be in flight at once

None == "none"

VARIABLES
  hash,      \* the hash of each device code
  link,      \* the device code of each user code
  req,       \* the operations in flight
  approvers, \* who has approved each device code
  over,      \* the device codes that were consumed or whose TTL has passed
  minted     \* the tokens made for each device code: whose, and by which request

vars == <<hash, link, req, approvers, over, minted>>

-----------------------------------------------------------------------------
\* userCode stands for deviceCode, userCode and createdAt, which createSession
\* alone writes; None for fields and hashes that are absent.
Hashes == [userCode : UserCodes \cup {None},
           status   : {None, "pending", "approved", "denied"},
           user     : Users \cup {None},
           expires  : BOOLEAN]
NoHash == [userCode |-> None, status |-> None, user |-> None, expires |-> FALSE]

Points == {"idle", "load", "write", "delete", "mint"}

Calls == [pc       : Points,
          action   : {"none", "approve", "deny"},
          code     : Codes \cup {None},
          userCode : UserCodes \cup {None},
          user     : Users \cup {None}]
NoCall == [pc |-> "idle", action |-> "none", code |-> None, userCode |-> None, user |-> None]

Init ==
  /\ hash = [c \in Codes |-> NoHash]
  /\ link = [u \in UserCodes |-> None]
  /\ req = [r \in Requests |-> NoCall]
  /\ approvers = [c \in Codes |-> {}]
  /\ over = {}
  /\ minted = [c \in Codes |-> {}]

At(r, pc) == req[r].pc = pc
Goto(r, pc) == req' = [req EXCEPT ![r].pc = pc]
Return(r) == req' = [req EXCEPT ![r] = NoCall]

\* getByDeviceCode: a hash without the fields of createSession is no session.
Session(c) == hash[c].userCode # None /\ hash[c].status # None

-----------------------------------------------------------------------------
CreateSession(c, u) ==
  /\ hash[c] = NoHash /\ c \notin over /\ link[u] = None
  /\ hash' = [hash EXCEPT ![c] = [userCode |-> u, status |-> "pending", user |-> None,
                                  expires |-> TRUE]]
  /\ link' = [link EXCEPT ![u] = c]
  /\ UNCHANGED <<req, approvers, over, minted>>

\* approve and deny: getByUserCode looks up the device code.
DecideFind(r, u, user, action) ==
  /\ req[r] = NoCall /\ link[u] # None
  /\ req' = [req EXCEPT ![r] = [pc |-> "load", action |-> action, code |-> link[u],
                                userCode |-> u, user |-> user]]
  /\ UNCHANGED <<hash, link, approvers, over, minted>>

DecideLoad(r) ==
  /\ At(r, "load")
  /\ LET c == req[r].code
     IN  IF Session(c) /\ hash[c].status = "pending" THEN Goto(r, "write") ELSE Return(r)
  /\ UNCHANGED <<hash, link, approvers, over, minted>>

\* Every decision approves.
Decided_Bug(h, action, user) == [h EXCEPT !.status = "approved", !.user = user]

\* The HSET of a denial writes no user.
Decided(h, action, user) ==
  IF action = "deny" THEN [h EXCEPT !.status = "denied"]
  ELSE [h EXCEPT !.status = "approved", !.user = user]

DecideWrite(r) ==
  /\ At(r, "write")
  /\ LET c == req[r].code
         user == req[r].user
     IN  /\ hash' = [hash EXCEPT ![c] = Decided(@, req[r].action, user)]
         /\ approvers' = IF req[r].action = "approve"
                         THEN [approvers EXCEPT ![c] = @ \cup {user}] ELSE approvers
  /\ Return(r)
  /\ UNCHANGED <<link, over, minted>>

Approved(c) == Session(c) /\ hash[c].status = "approved" /\ hash[c].user # None

\* consumeApprovedDeviceCode
PollLoad(r, c) ==
  /\ req[r] = NoCall /\ Approved(c)
  /\ req' = [req EXCEPT ![r] = [pc |-> "delete", action |-> "none", code |-> c,
                                userCode |-> hash[c].userCode, user |-> hash[c].user]]
  /\ UNCHANGED <<hash, link, approvers, over, minted>>

\* The link may by then belong to another session.
PollDelete(r) ==
  /\ At(r, "delete")
  /\ hash' = [hash EXCEPT ![req[r].code] = NoHash]
  /\ link' = [link EXCEPT ![req[r].userCode] = None]
  /\ over' = over \cup {req[r].code}
  /\ Goto(r, "mint")
  /\ UNCHANGED <<approvers, minted>>

\* createApiToken
PollMint(r) ==
  /\ At(r, "mint")
  /\ minted' = [minted EXCEPT ![req[r].code] = @ \cup {<<r, req[r].user>>}]
  /\ Return(r)
  /\ UNCHANGED <<hash, link, approvers, over>>

\* The process dies, or Redis or the insert of the token fails.
Abandon(r) ==
  /\ req[r] # NoCall
  /\ Return(r)
  /\ UNCHANGED <<hash, link, approvers, over, minted>>

\* The keys expire one after the other.
ExpireHash(c) ==
  /\ hash[c].expires
  /\ hash' = [hash EXCEPT ![c] = NoHash]
  /\ over' = over \cup {c}
  /\ UNCHANGED <<link, req, approvers, minted>>

ExpireLink(u) ==
  /\ link[u] # None
  /\ link' = [link EXCEPT ![u] = None]
  /\ UNCHANGED <<hash, req, approvers, over, minted>>

Next ==
  \/ \E c \in Codes, u \in UserCodes : CreateSession(c, u)
  \/ \E r \in Requests :
       \/ \E u \in UserCodes, user \in Users, action \in {"approve", "deny"} :
            DecideFind(r, u, user, action)
       \/ DecideLoad(r) \/ DecideWrite(r) \/ PollDelete(r) \/ PollMint(r) \/ Abandon(r)
       \/ \E c \in Codes : PollLoad(r, c)
  \/ \E c \in Codes : ExpireHash(c)
  \/ \E u \in UserCodes : ExpireLink(u)

Spec == Init /\ [][Next]_vars

-----------------------------------------------------------------------------
(* Properties.                                                             *)

\* Every hash has the fields its writers give it, and no link dangles out of
\* the device codes.
TypeOK ==
  /\ hash \in [Codes -> Hashes]
  /\ link \in [UserCodes -> Codes \cup {None}]
  /\ req \in [Requests -> Calls]
  /\ approvers \in [Codes -> SUBSET Users]
  /\ over \in SUBSET Codes
  /\ minted \in [Codes -> SUBSET (Requests \X Users)]

\* A token belongs to a user who has approved the device code it was made for,
\* whatever decisions and polls overlap.
TokensAreApproved ==
  \A c \in Codes : \A m \in minted[c] : m[2] \in approvers[c]

\* A device code that was consumed or has expired is never a session again, also
\* when a decision that was made before is written afterwards and brings the
\* hash back: no poll that begins then gets a token.
OverMeansOver == \A c \in over : ~Approved(c)

\* "One-time consume.", device-code.ts:126: one token for one device code.
ConsumedOnce == \A c \in Codes : Cardinality(minted[c]) <= 1

\* DEVICE_CODE_TTL_SECONDS, device-code.ts:5: what is in Redis expires.
KeysExpire == \A c \in Codes : hash[c] # NoHash => hash[c].expires

\* approve and deny decide a session once: what is denied is not approved later.
DenialStands ==
  [][\A c \in Codes : hash[c].status = "denied" => hash'[c].status # "approved"]_vars
=============================================================================
