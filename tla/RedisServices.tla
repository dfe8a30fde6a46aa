--------------------------- MODULE RedisServices ---------------------------
(***************************************************************************)
(* The four services whose decisions hang on keys in Redis: the proxy's    *)
(* cache, the device login, the activity of a workspace and the slots of   *)
(* the trials.  Their keys differ and they share no state; here each has   *)
(* constants and variables of its own, so that one module can run them and *)
(* one can prove what they promise.                                        *)
(***************************************************************************)
EXTENDS ProxyCache

CONSTANTS
  Codes, UserCodes, Users,   \* of DeviceLogin
  Logins,                    \* the operations on them that may be in flight
  Recordings,                \* the recordings of WorkspaceActivity in flight
  Timeout, Tightest,         \* its timeout, and the shortest of all plans
  Throttle, Delay,           \* its throttle, and the bound on a recording
  Trials, Reaper, Visitor    \* of AnonTry

ASSUME ActivityAssumption ==
  /\ Timeout \in Nat /\ Throttle \in Nat /\ Delay \in Nat
  /\ Tightest \in Nat /\ Tightest <= Timeout

VARIABLES
  hash, link, login, approvers, over, minted,
  used, redis, stored, key, recording, pass, lost,
  taken, launch, sandbox, trialRow, routes, late, mail, ender, stragglers, answered

codes == <<hash, link, login, approvers, over, minted>>
activity == <<used, redis, stored, key, recording, pass, lost>>
trials == <<taken, launch, sandbox, trialRow, routes, late, mail, ender, stragglers, answered>>

Device == INSTANCE DeviceLogin WITH
  Requests <- Logins, req <- login

Activity == INSTANCE WorkspaceActivity WITH
  Requests <- Recordings, Flight <- Delay, req <- recording

Anon == INSTANCE AnonTry WITH
  row <- trialRow, listed <- stragglers

-----------------------------------------------------------------------------
\* DeviceLogin: a token belongs to a user who approved its device code.
TokensAreApproved == Device!TokensAreApproved

\* DeviceLogin: a device code that was consumed or has expired is no session.
OverMeansOver == Device!OverMeansOver

\* WorkspaceActivity: what is listed as idle is nearly as idle as it should be.
ListedIsIdle == Activity!ListedIsIdle

\* AnonTry: one workspace for one address in a window.
AnsweredOnce == Anon!AnsweredOnce

(* What a comment says, and the code does not do.                          *)

\* DeviceLogin: one token for one device code.
ConsumedOnce == Device!ConsumedOnce

\* DeviceLogin: what a login leaves in Redis expires.
KeysExpire == Device!KeysExpire

\* DeviceLogin: what is denied is not approved later.
DenialStands == Device!DenialStands

\* WorkspaceActivity: what is listed has been idle beyond the timeout.
ListedIsIdleBeyondTimeout == Activity!ListedIsIdleBeyondTimeout

\* AnonTry: one sandbox for one address in a window.
SpawnedOnce == Anon!SpawnedOnce
=============================================================================
