-------------------------- MODULE ModelCredentials --------------------------
(***************************************************************************)
(* The credentials one user has stored for the model providers behind one  *)
(* logical key: which of them is the default, and the tokens a provider    *)
(* with OAuth hands out.  An index allows one active default; it refuses a *)
(* statement that would make a second one, which ends the handler.         *)
(*                                                                         *)
(* Credentials are numbered in the order of their creation, and all are of *)
(* Codex: refreshing its token spends it and returns the next one.  The    *)
(* token of Copilot stays the same, and an API key is never refreshed; in  *)
(* all else the three are alike.  Nobody but these handlers spends a token *)
(* (a workspace or a CLI that holds it too might), and the answer of the   *)
(* provider to a refresh that it has served is not lost.                   *)
(*                                                                         *)
(* An operator whose name ends in _Bug is no part of the model: it is the  *)
(* operator after it with a plausible mistake, and PROJECT.json says which *)
(* property catches it.                                                    *)
(***************************************************************************)
EXTENDS Integers, FiniteSetsExt

CONSTANTS
  MaxCredentials,  \* a bound on the credentials that are ever stored
  MaxTokens,       \* a bound on the tokens each of them is given
  Requests         \* handler invocations that may be in flight at once

VARIABLES
  cred,     \* the rows of user_model_credential
  count,    \* how many have been stored
  current,  \* the token the provider takes, for each credential
  fresh,    \* the credentials with an access token that is still valid
  req,      \* the handler invocations
  stale,    \* those that another one has overtaken
  torn,     \* has a handler been overtaken, or cut off after a write?
  lost      \* the credentials whose new token nobody has stored

vars == <<cred, count, current, fresh, req, stale, torn, lost>>

-----------------------------------------------------------------------------
Ids == 1..MaxCredentials
Tokens == 0..MaxTokens
Rows == [state : {"absent", "active", "revoked"}, default : BOOLEAN, token : Tokens]
NoRow == [state |-> "absent", default |-> FALSE, token |-> 0]

\* default: what was read of one, or of any.  wrote: has the handler changed a row?
Calls == [op : {"none", "store", "revoke", "delete", "default", "refresh"},
          pc : {"idle", "insert", "write", "find", "promote", "set", "provider", "save"},
          id : {0} \cup Ids, default : BOOLEAN, token : Tokens, wrote : BOOLEAN]
NoCall == [op |-> "none", pc |-> "idle", id |-> 0, default |-> FALSE, token |-> 0,
           wrote |-> FALSE]

Init ==
  /\ cred = [i \in Ids |-> NoRow]
  /\ count = 0
  /\ current = [i \in Ids |-> 0]
  /\ fresh = {}
  /\ req = [r \in Requests |-> NoCall]
  /\ stale = {} /\ torn = FALSE /\ lost = {}

At(r, pc) == req[r].pc = pc
Begin(r, call) == req[r] = NoCall /\ req' = [req EXCEPT ![r] = call]
Wrote(r, pc) == req' = [req EXCEPT ![r].pc = pc, ![r].wrote = TRUE]
Return(r) == req' = [req EXCEPT ![r] = NoCall]

Stored(i) == cred[i].state # "absent"
Active == {i \in Ids : cred[i].state = "active"}
Defaults == {i \in Active : cred[i].default}

\* user_model_credential_default_logical_provider
Allowed(rows) ==
  \A i, j \in Ids : (/\ rows[i].state = "active" /\ rows[i].default
                     /\ rows[j].state = "active" /\ rows[j].default) => i = j

\* A statement takes effect, or the index refuses it and the handler throws.
Update(r, rows, next) ==
  IF Allowed(rows) THEN cred' = rows /\ next ELSE UNCHANGED cred /\ Return(r)

-----------------------------------------------------------------------------
\* storeApiKey, storeOAuthTokens: is there a default, and then the insert.
StoreBegin(r) ==
  /\ Begin(r, [NoCall EXCEPT !.op = "store", !.pc = "insert", !.default = Defaults # {}])
  /\ UNCHANGED <<cred, count, current, fresh, lost>>

StoreInsert(r) ==
  /\ At(r, "insert") /\ count < MaxCredentials
  /\ LET i == count + 1
         rows == [cred EXCEPT ![i] = [state |-> "active", default |-> ~req[r].default,
                                      token |-> 1]]
     IN  IF Allowed(rows)
         THEN /\ cred' = rows /\ count' = i
              /\ current' = [current EXCEPT ![i] = 1]
              /\ fresh' \in {fresh, fresh \cup {i}}
         ELSE UNCHANGED <<cred, count, current, fresh>>
  /\ Return(r)
  /\ UNCHANGED lost

\* revokeCredential and deleteCredential, which find the credential whatever its state
RemoveBegin(r, op, i) ==
  /\ Stored(i)
  /\ Begin(r, [NoCall EXCEPT !.op = op, !.pc = "write", !.id = i, !.default = cred[i].default])
  /\ UNCHANGED <<cred, count, current, fresh, lost>>

\* A row that is gone in the meantime is not found by the statement.
Removed(r) ==
  LET i == req[r].id IN
  IF req[r].op = "delete" \/ ~Stored(i) THEN [cred EXCEPT ![i] = NoRow]
  ELSE [cred EXCEPT ![i].state = "revoked", ![i].default = FALSE]

\* The credential is looked at again after the statement.
WasDefault_Bug(r) == Removed(r)[req[r].id].default

WasDefault(r) == req[r].default

RemoveWrite(r) ==
  /\ At(r, "write") /\ req[r].op # "default"
  /\ cred' = Removed(r)
  /\ IF WasDefault(r) THEN Wrote(r, "find") ELSE Return(r)
  /\ UNCHANGED <<count, current, fresh, lost>>

\* promoteOldestCredential
PromoteFind(r) ==
  /\ At(r, "find")
  /\ IF Active = {} THEN Return(r)
     ELSE req' = [req EXCEPT ![r].pc = "promote", ![r].id = Min(Active)]
  /\ UNCHANGED <<cred, count, current, fresh, lost>>

\* The statement of the promotion, and the second one of setDefaultCredential: by id.
MakeDefault(r) ==
  /\ At(r, "promote") \/ At(r, "set")
  /\ IF Stored(req[r].id) THEN Update(r, [cred EXCEPT ![req[r].id].default = TRUE], Return(r))
     ELSE UNCHANGED cred /\ Return(r)
  /\ UNCHANGED <<count, current, fresh, lost>>

\* setDefaultCredential
DefaultBegin(r, i) ==
  /\ i \in Active
  /\ Begin(r, [NoCall EXCEPT !.op = "default", !.pc = "write", !.id = i])
  /\ UNCHANGED <<cred, count, current, fresh, lost>>

DefaultClear(r) ==
  /\ At(r, "write") /\ req[r].op = "default"
  /\ cred' = [i \in Ids |-> [cred[i] EXCEPT !.default = FALSE]]
  /\ Wrote(r, "set")
  /\ UNCHANGED <<count, current, fresh, lost>>

-----------------------------------------------------------------------------
(* refreshOAuthTokenIfNeeded, called by getCredentialForRun for the run of *)
(* a loop, which does not ask whether the credential is active.            *)

RefreshBegin(r, i) ==
  /\ Stored(i) /\ i \notin fresh
  /\ Begin(r, [NoCall EXCEPT !.op = "refresh", !.pc = "provider", !.id = i,
                             !.token = cred[i].token])
  /\ UNCHANGED <<cred, count, current, fresh, lost>>

\* The provider: a token that was spent is refused.
Refresh(r) ==
  /\ At(r, "provider")
  /\ LET i == req[r].id IN
     IF req[r].token # current[i] THEN Return(r) /\ UNCHANGED current
     ELSE /\ current[i] < MaxTokens
          /\ current' = [current EXCEPT ![i] = @ + 1]
          /\ req' = [req EXCEPT ![r].pc = "save", ![r].token = current[i] + 1]
  /\ UNCHANGED <<cred, count, fresh, lost>>

\* The refresh token is kept, as that of Copilot is.
Saved_Bug(r) == cred[req[r].id].token

Saved(r) == req[r].token

RefreshSave(r) ==
  /\ At(r, "save")
  /\ LET i == req[r].id IN
     IF Stored(i) THEN cred' = [cred EXCEPT ![i].token = Saved(r)] /\ fresh' = fresh \cup {i}
     ELSE UNCHANGED <<cred, fresh>>
  /\ Return(r)
  /\ UNCHANGED <<count, current, lost>>

AccessExpires(i) ==
  /\ i \in fresh /\ fresh' = fresh \ {i}
  /\ UNCHANGED <<cred, count, current, req, lost>>

\* The API process dies, or the database fails.
Crash(r) ==
  /\ req[r] # NoCall /\ Return(r)
  /\ lost' = IF At(r, "save") THEN lost \cup {req[r].id} ELSE lost
  /\ UNCHANGED <<cred, count, current, fresh>>

-----------------------------------------------------------------------------
Handling(r) ==
  \/ StoreBegin(r)
  \/ \E i \in Ids :
       \/ \E op \in {"revoke", "delete"} : RemoveBegin(r, op, i)
       \/ DefaultBegin(r, i) \/ RefreshBegin(r, i)
  \/ StoreInsert(r) \/ RemoveWrite(r) \/ PromoteFind(r)
  \/ MakeDefault(r) \/ DefaultClear(r) \/ Refresh(r) \/ RefreshSave(r)

\* Which is the default changes under a handler that has read it.
Shown == [i \in Ids |-> <<cred[i].state, cred[i].default>>]
Overtakes(r) ==
  stale' = {q \in Requests : /\ req'[q] # NoCall
                             /\ q \in stale \/ (q # r /\ req[q] # NoCall /\ Shown' # Shown)}

Next ==
  \/ \E r \in Requests :
       \/ Handling(r) /\ Overtakes(r) /\ torn' = (torn \/ (r \in stale /\ req[r].op # "refresh"))
       \/ Crash(r) /\ Overtakes(r) /\ torn' = (torn \/ req[r].wrote)
  \/ \E i \in Ids : AccessExpires(i) /\ UNCHANGED <<stale, torn>>

Spec == Init /\ [][Next]_vars

-----------------------------------------------------------------------------
Quiet == \A r \in Requests : req[r] = NoCall

\* A credential that is there has a token, and rows are stored in the order of their
\* numbers.
TypeOK ==
  /\ cred \in [Ids -> Rows]
  /\ count \in 0..MaxCredentials /\ \A i \in Ids : Stored(i) => i <= count
  /\ \A i \in Ids : Stored(i) => cred[i].token # 0
  /\ current \in [Ids -> Tokens]
  /\ fresh \subseteq Ids /\ lost \subseteq Ids
  /\ req \in [Requests -> Calls]
  /\ stale \subseteq Requests /\ torn \in BOOLEAN

\* While anything is active, one of them is the default, unless two handlers that
\* choose a default overlapped or one was cut off between its statements.
DefaultIsKept == Quiet /\ ~torn /\ Active # {} => Cardinality(Defaults) = 1

\* However refreshes of one credential overlap, the stored token is the one its
\* provider takes, once they are over; of what the API does, only a crash between the
\* two loses it.
NoTokenIsLost ==
  \A i \in Ids : Stored(i) /\ i \notin lost /\ (\A r \in Requests : req[r].id # i)
                 => cred[i].token = current[i]

\* "Revoke (soft delete) a credential", model-credentials.ts:384.
RevokedIsNotUsed ==
  [][\A r \in Requests : At(r, "provider") /\ req'[r].pc = "save"
                         => cred[req[r].id].state = "active"]_vars
=============================================================================
