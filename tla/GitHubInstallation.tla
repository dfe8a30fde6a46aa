------------------------- MODULE GitHubInstallation -------------------------
(***************************************************************************)
(* The GitHub App of one user: what GitHub has installed, and the two      *)
(* tables that say so, `github_app_installation` and `git_integration`.    *)
(*                                                                         *)
(* An installation is stored when GitHub sends its user back, who may load *)
(* that page again.  It is removed when GitHub tells of it, late, twice or *)
(* never, or when somebody looks and finds it gone.  Storing and removing  *)
(* are several statements each; `req` holds what the handlers remember.    *)
(* Accounts and repositories, which no condition reads, are left out.      *)
(*                                                                         *)
(* An operator whose name ends in _Bug is no part of the model: it is the  *)
(* operator after it with a plausible mistake, and PROJECT.json says which *)
(* property catches it.                                                    *)
(***************************************************************************)
EXTENDS Naturals, FiniteSets

CONSTANTS
  Installations,  \* the ids GitHub gives; a bound on how often the app is installed
  MaxRows,        \* a bound on the rows of git_integration
  Requests        \* handler invocations that may be in flight at once

VARIABLES
  github,       \* what has become of each installation at GitHub
  mail,         \* the webhooks that may be delivered
  installed,    \* the rows of github_app_installation
  integration,  \* the rows of git_integration
  made,         \* the number of them that were ever inserted
  req,          \* the handler invocations
  stale,        \* those that another one has overtaken
  torn          \* has such a handler gone on, or was one cut off between statements?

tables == <<installed, integration, made>>
vars == <<github, mail, tables, req, stale, torn>>

-----------------------------------------------------------------------------
Nowhere == "no installation"

Kinds == {"deleted", "suspend", "unsuspend"}

\* The indices of integration are the ids of its rows.
Ids == 1..MaxRows
Rows == [of : Installations \cup {Nowhere}, active : BOOLEAN]
NoRow == [of |-> Nowhere, active |-> FALSE]
Present == {i \in Ids : integration[i] # NoRow}

Calls == [pc : {"idle", "details", "look", "update", "linkall", "find", "clear",
                "insert", "link", "read", "verify", "deactivate", "delete",
                "unlink", "uninstall"},
          of : Installations \cup {Nowhere}, found : 0..MaxRows]
NoCall == [pc |-> "idle", of |-> Nowhere, found |-> 0]

Init ==
  /\ github = [n \in Installations |-> "none"]
  /\ mail = {}
  /\ installed = [n \in Installations |-> "none"]
  /\ integration = [i \in Ids |-> NoRow]
  /\ made = 0
  /\ req = [r \in Requests |-> NoCall]
  /\ stale = {} /\ torn = FALSE

At(r, pc) == req[r].pc = pc
Begin(r, pc, n) ==
  req[r] = NoCall /\ req' = [req EXCEPT ![r] = [NoCall EXCEPT !.pc = pc, !.of = n]]
Goto(r, pc) == req' = [req EXCEPT ![r].pc = pc]
Return(r) == req' = [req EXCEPT ![r] = NoCall]

Exists(n) == github[n] \in {"installed", "suspended"}

-----------------------------------------------------------------------------
(* GitHub, where the user does as they like.                               *)

Becomes(n, status, kinds) ==
  /\ github' = [github EXCEPT ![n] = status]
  /\ mail' = mail \cup (kinds \X {n})

Install(n) == github[n] = "none" /\ Becomes(n, "installed", {}) /\ UNCHANGED req
Suspend(n) == github[n] = "installed" /\ Becomes(n, "suspended", {"suspend"}) /\ UNCHANGED req
Unsuspend(n) == github[n] = "suspended" /\ Becomes(n, "installed", {"unsuspend"}) /\ UNCHANGED req
Uninstall(n) == Exists(n) /\ Becomes(n, "gone", {"deleted"}) /\ UNCHANGED req

-----------------------------------------------------------------------------
(* storeInstallation, as handleInstallation and the setup page call it.    *)

StoreBegin(r, n) ==
  /\ github[n] # "none"
  /\ Begin(r, "details", n)
  /\ UNCHANGED <<github, mail, tables>>

\* getInstallationDetails throws for an installation that is gone.
StoreDetails(r) ==
  /\ At(r, "details")
  /\ IF Exists(req[r].of) THEN Goto(r, "look") ELSE Return(r)
  /\ UNCHANGED <<github, mail, tables>>

StoreLook(r) ==
  /\ At(r, "look")
  /\ Goto(r, IF installed[req[r].of] # "none" THEN "update" ELSE "find")
  /\ UNCHANGED <<github, mail, tables>>

\* The flag is cleared, whatever GitHub says.
StoreUpdate(r) ==
  /\ At(r, "update")
  /\ LET n == req[r].of IN
     installed' = IF installed[n] = "none" THEN installed
                  ELSE [installed EXCEPT ![n] = "active"]
  /\ Goto(r, "linkall")
  /\ UNCHANGED <<github, mail, integration, made>>

LinkedTo(n) == [of |-> n, active |-> TRUE]

\* Whichever rows the user has.
StoreLinkAll(r) ==
  /\ At(r, "linkall")
  /\ integration' = [i \in Ids |-> IF i \in Present THEN LinkedTo(req[r].of) ELSE NoRow]
  /\ Return(r)
  /\ UNCHANGED <<github, mail, installed, made>>

\* Looks for the installation, which is new.
Earlier_Bug(n) == {i \in Present : integration[i].of = n}

Earlier(n) == Present

StoreFind(r) ==
  /\ At(r, "find")
  /\ LET rows == Earlier(req[r].of) IN
     \E i \in IF rows = {} THEN {0} ELSE rows :
       req' = [req EXCEPT ![r].pc = "clear", ![r].found = i]
  /\ UNCHANGED <<github, mail, tables>>

StoreClear(r) ==
  /\ At(r, "clear")
  /\ installed' = [n \in Installations |-> "none"]
  /\ Goto(r, "insert")
  /\ UNCHANGED <<github, mail, integration, made>>

\* installation_id is unique.
StoreInsert(r) ==
  /\ At(r, "insert")
  /\ IF installed[req[r].of] # "none" THEN Return(r) /\ UNCHANGED installed
     ELSE Goto(r, "link") /\ installed' = [installed EXCEPT ![req[r].of] = "active"]
  /\ UNCHANGED <<github, mail, integration, made>>

\* The row that was found may be gone in the meantime.
StoreLink(r) ==
  /\ At(r, "link")
  /\ LET i == req[r].found
         new == made + 1
     IN  IF i # 0
         THEN /\ integration' = IF i \in Present THEN [integration EXCEPT ![i] = LinkedTo(req[r].of)]
                                ELSE integration
              /\ made' = made
         ELSE /\ new \in Ids
              /\ integration' = [integration EXCEPT ![new] = LinkedTo(req[r].of)]
              /\ made' = new
  /\ Return(r)
  /\ UNCHANGED <<github, mail, installed>>

-----------------------------------------------------------------------------
(* removeInstallationByInstallationId, from the webhook or after a look.   *)

\* A deletion that is told again stays in the mail.
WebhookDeleted(r, n, again) ==
  /\ <<"deleted", n>> \in mail
  /\ mail' = IF again THEN mail ELSE mail \ {<<"deleted", n>>}
  /\ Begin(r, "deactivate", n)
  /\ UNCHANGED <<github, tables>>

WebhookSuspension(kind, n) ==
  /\ kind # "deleted" /\ <<kind, n>> \in mail
  /\ mail' = mail \ {<<kind, n>>}
  /\ installed' = IF installed[n] = "none" THEN installed
                  ELSE [installed EXCEPT ![n] = IF kind = "suspend" THEN "suspended" ELSE "active"]
  /\ UNCHANGED <<github, integration, made, req>>

\* A handler reads an integration, and getUserInstallation its installation.
ReadIntegration(r) ==
  /\ \E i \in Present : Begin(r, "read", integration[i].of)
  /\ UNCHANGED <<github, mail, tables>>

ReadInstallation(r) ==
  /\ At(r, "read")
  /\ IF installed[req[r].of] = "none" THEN Return(r) ELSE Goto(r, "verify")
  /\ UNCHANGED <<github, mail, tables>>

Verify(r) ==
  /\ At(r, "verify")
  /\ IF Exists(req[r].of) THEN Return(r) ELSE Goto(r, "deactivate")
  /\ UNCHANGED <<github, mail, tables>>

RemoveDeactivate(r) ==
  /\ At(r, "deactivate")
  /\ integration' = [i \in Ids |-> IF i \in Present /\ integration[i].of = req[r].of
                                   THEN [integration[i] EXCEPT !.active = FALSE]
                                   ELSE integration[i]]
  /\ Goto(r, "delete")
  /\ UNCHANGED <<github, mail, installed, made>>

RemoveInstallation(r) ==
  /\ At(r, "delete")
  /\ installed' = [installed EXCEPT ![req[r].of] = "none"]
  /\ Goto(r, "unlink")
  /\ UNCHANGED <<github, mail, integration, made>>

Unlinked(i, n) == integration[i].of = n

RemoveIntegration(r) ==
  /\ At(r, "unlink")
  /\ integration' = [i \in Ids |-> IF Unlinked(i, req[r].of) THEN NoRow ELSE integration[i]]
  /\ Return(r)
  /\ UNCHANGED <<github, mail, installed, made>>

-----------------------------------------------------------------------------
\* disconnectApp: the rows are left to the webhook.
DisconnectBegin(r) ==
  /\ \E i \in Present : Begin(r, "uninstall", integration[i].of)
  /\ UNCHANGED <<github, mail, tables>>

Disconnect(r) ==
  /\ At(r, "uninstall")
  /\ IF Exists(req[r].of) THEN Becomes(req[r].of, "gone", {"deleted"})
     ELSE UNCHANGED <<github, mail>>
  /\ Return(r)
  /\ UNCHANGED tables

\* The API process dies, or a statement fails.
Crash(r) ==
  /\ req[r] # NoCall
  /\ Return(r)
  /\ UNCHANGED <<github, mail, tables>>

-----------------------------------------------------------------------------
Handling(r) ==
  \/ \E n \in Installations :
       \/ StoreBegin(r, n)
       \/ \E again \in BOOLEAN : WebhookDeleted(r, n, again)
  \/ StoreDetails(r) \/ StoreLook(r) \/ StoreUpdate(r) \/ StoreLinkAll(r)
  \/ StoreFind(r) \/ StoreClear(r) \/ StoreInsert(r) \/ StoreLink(r)
  \/ ReadIntegration(r) \/ ReadInstallation(r) \/ Verify(r)
  \/ RemoveDeactivate(r) \/ RemoveInstallation(r) \/ RemoveIntegration(r)
  \/ DisconnectBegin(r) \/ Disconnect(r)

Elsewhere ==
  \E n \in Installations :
    \/ Install(n) /\ UNCHANGED tables
    \/ Suspend(n) /\ UNCHANGED tables
    \/ Unsuspend(n) /\ UNCHANGED tables
    \/ Uninstall(n) /\ UNCHANGED tables
    \/ \E kind \in Kinds : WebhookSuspension(kind, n)

\* What an overtaken handler has read of the tables is no longer so.
Linked == <<{n \in Installations : installed[n] # "none"}, integration>>
Overtakes(r) ==
  stale' = {q \in Requests : /\ req'[q] # NoCall
                             /\ q \in stale \/ (q # r /\ req[q] # NoCall /\ Linked' # Linked)}

\* A handler goes by what it has read, or has more to write.
Going(r) == req[r].pc \in {"update", "linkall", "clear", "insert", "link", "delete", "unlink"}
Begun(r) == req[r].pc \in {"linkall", "insert", "link", "delete", "unlink"}

Next ==
  \/ \E r \in Requests :
       \/ Handling(r) /\ Overtakes(r) /\ torn' = (torn \/ (r \in stale /\ Going(r)))
       \/ Crash(r) /\ Overtakes(r) /\ torn' = (torn \/ Begun(r))
  \/ Elsewhere /\ UNCHANGED <<stale, torn>>

Spec == Init /\ [][Next]_vars

-----------------------------------------------------------------------------
Quiet == \A r \in Requests : req[r] = NoCall
Connected == {n \in Installations : installed[n] # "none"}

\* Both tables have their types, and a row of git_integration is somebody's.
TypeOK ==
  /\ github \in [Installations -> {"none", "installed", "suspended", "gone"}]
  /\ mail \subseteq Kinds \X Installations
  /\ installed \in [Installations -> {"none", "active", "suspended"}]
  /\ integration \in [Ids -> Rows]
  /\ made \in 0..MaxRows /\ \A i \in Present : i <= made
  /\ req \in [Requests -> Calls]
  /\ stale \subseteq Requests /\ torn \in BOOLEAN

\* However late a webhook is, and whatever else is installed in between: with
\* nothing in flight the two tables name the same installation, or none, unless
\* two handlers overlapped or one was cut off between its statements.
TablesAgree ==
  Quiet /\ ~torn =>
    /\ Cardinality(Connected) <= 1
    /\ Cardinality(Present) = Cardinality(Connected)
    /\ \A i \in Present : integration[i].active /\ integration[i].of \in Connected

\* "GitHub App connected successfully", github.ts:115: who is told so has a row
\* of git_integration that says so.
StoredIsConnected ==
  [][\A r \in Requests :
       StoreLink(r) => \E i \in Ids : integration'[i] = LinkedTo(req[r].of)]_vars

\* The app that GitHub has suspended is not used: "GitHub App installation is
\* suspended", service/agent-loop/index.ts:134.
SuspensionIsKnown ==
  Quiet /\ mail = {} => \A n \in Connected : github[n] = "suspended" => installed[n] = "suspended"
=============================================================================
