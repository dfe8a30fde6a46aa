-------------------------- MODULE WorkspaceSharing --------------------------
(***************************************************************************)
(* Sharing one workspace: invitations of people and of members of a team   *)
(* of its owner, what they grant, and the limit on collaborators.          *)
(*                                                                         *)
(* An invitation is one row for one address, which inviting again turns    *)
(* into another invitation with another token.  Handlers read, and write   *)
(* what they have decided in a later statement, so `req` holds what each   *)
(* remembers.  The owner's plan allows sharing, only the owner manages the *)
(* team.  Roles, which no condition here reads, are left out.              *)
(*                                                                         *)
(* An operator whose name ends in _Bug is no part of the model: it is the  *)
(* operator after it with a plausible mistake, and PROJECT.json says which *)
(* property catches it.                                                    *)
(***************************************************************************)
EXTENDS Integers, FiniteSets

CONSTANTS
  People,            \* who may be invited, by address
  Owner,             \* of the workspace and of the team
  MaxCollaborators,  \* MAX_COLLABORATORS
  MaxInvites,        \* a bound on the tokens that are ever made
  Requests           \* handler invocations that may be in flight at once

VARIABLES
  invite,     \* the rows of workspace_share_invite and workspace_share_team_invite
  access,     \* the people in workspace_user_access
  team,       \* the row of the team
  members,    \* its rows of workspace_share_team_member
  attached,   \* does workspace_team_access give the team the workspace?
  issued,     \* the number of tokens made
  withdrawn,  \* the tokens that were cancelled, declined or replaced
  granted,    \* the tokens that have been accepted
  raced,      \* has a handler been overtaken by a collaborator made or moved?
  req         \* the handler invocations

rows == <<invite, access, team, members, attached>>
tokens == <<issued, withdrawn, granted>>
vars == <<rows, tokens, raced, req>>

-----------------------------------------------------------------------------
Kinds == {"workspace", "team"}
Invites == [status : {"absent", "pending", "accepted", "declined", "cancelled"},
            token : 0..MaxInvites, live : BOOLEAN]
NoInvite == [status |-> "absent", token |-> 0, live |-> FALSE]

Queries == {"direct", "team", "pending"}

Calls == [pc : {"idle", "involved", "count", "attached", "capacity", "invite",
                "accept", "decline", "leave", "member", "attach"},
          next : {"none", "invite", "accept", "attach"},
          kind : Kinds, who : People \cup {Owner}, token : 0..MaxInvites,
          users : SUBSET (People \cup {Owner}),  \* those counted so far, at first extraUserIds
          open : SUBSET People,                  \* the invited counted so far
          todo : SUBSET Queries]                 \* the queries of the count that are to come
NoCall == [pc |-> "idle", next |-> "none", kind |-> "workspace", who |-> Owner,
           token |-> 0, users |-> {}, open |-> {}, todo |-> Queries]

Init ==
  /\ invite = [k \in Kinds |-> [u \in People |-> NoInvite]]
  /\ access = {}
  /\ team = "absent" /\ members = {} /\ attached = FALSE
  /\ issued = 0 /\ withdrawn = {} /\ granted = {}
  /\ req = [r \in Requests |-> NoCall]
  /\ raced = FALSE

At(r, pc) == req[r].pc = pc
Begin(r, call) == req[r] = NoCall /\ req' = [req EXCEPT ![r] = call]
Goto(r, pc) == req' = [req EXCEPT ![r].pc = pc]
Return(r) == req' = [req EXCEPT ![r] = NoCall]

Pending(k, u) == invite[k][u].status = "pending"
Live(k, u) == Pending(k, u) /\ invite[k][u].live

TeamPeople == IF attached THEN members ELSE {}
Invited == {u \in People : Live("workspace", u)}

\* getWorkspaceCollaboratorCount runs three queries at once, each on a connection
\* of its own: they see the tables at three moments, in any order.
Reads(r, q, users, open) ==
  /\ q \in req[r].todo
  /\ req' = [req EXCEPT ![r].todo = @ \ {q}, ![r].users = @ \cup users, ![r].open = @ \cup open]

Query(r) ==
  /\ req[r].pc \in {"count", "capacity"}
  /\ \/ Reads(r, "direct", access, {})
     \/ Reads(r, "team", TeamPeople, {})
     \/ Reads(r, "pending", {}, Invited)
  /\ UNCHANGED <<rows, tokens>>

\* An invitation counts beside the access of its addressee.
Counted(r) == Cardinality(req[r].users) + Cardinality(req[r].open)

\* Who was counted is of no use after the comparison.
Proceed(r, pc) ==
  req' = [req EXCEPT ![r] = [req[r] EXCEPT !.pc = pc, !.users = {}, !.open = {}, !.todo = Queries]]

SetInvite(k, u, row) == invite' = [invite EXCEPT ![k][u] = row]
Withdraw(k, u) == withdrawn' = withdrawn \cup ({invite[k][u].token} \ {0})

-----------------------------------------------------------------------------
(* Inviting.                                                               *)

\* inviteUser, which reads the access and then the invitation of the addressee
InviteBegin(r, u) ==
  /\ Begin(r, [NoCall EXCEPT !.pc = IF u \in access THEN "invite" ELSE "involved",
                             !.who = u])
  /\ UNCHANGED <<rows, tokens>>

InviteInvolved(r) ==
  /\ At(r, "involved")
  /\ Goto(r, IF req[r].who \in Invited THEN "invite" ELSE "count")
  /\ UNCHANGED <<rows, tokens>>

\* Room is left for one more.
Room_Bug(r) == Counted(r) <= MaxCollaborators

Room(r) == Counted(r) < MaxCollaborators

InviteCount(r) ==
  /\ At(r, "count") /\ req[r].todo = {}
  /\ IF Room(r) THEN Proceed(r, "invite") ELSE Return(r)
  /\ UNCHANGED <<rows, tokens>>

\* inviteTeamMember: only an addressee with an account is counted.
InviteMember(r, u, known) ==
  /\ team = "live"
  /\ Begin(r, [NoCall EXCEPT !.pc = IF known THEN "attached" ELSE "invite",
                             !.next = "invite", !.kind = "team", !.who = u,
                             !.users = {u}])
  /\ UNCHANGED <<rows, tokens>>

\* The workspaces of the team, then assertWorkspaceCollaboratorCapacity for each.
ReadAttached(r) ==
  /\ At(r, "attached")
  /\ Goto(r, IF attached THEN "capacity" ELSE req[r].next)
  /\ UNCHANGED <<rows, tokens>>

Capacity(r) ==
  /\ At(r, "capacity") /\ req[r].todo = {}
  /\ IF Counted(r) > MaxCollaborators THEN Return(r) ELSE Proceed(r, req[r].next)
  /\ UNCHANGED <<rows, tokens>>

\* The upsert; the row of an invitation to a team that is gone cannot be inserted.
InviteWrite(r) ==
  /\ At(r, "invite")
  /\ LET k == req[r].kind  u == req[r].who IN
     IF k = "workspace" \/ team = "live"
     THEN /\ issued < MaxInvites
          /\ issued' = issued + 1
          /\ SetInvite(k, u, [status |-> "pending", token |-> issued + 1, live |-> TRUE])
          /\ Withdraw(k, u)
     ELSE UNCHANGED <<invite, issued, withdrawn>>
  /\ Return(r)
  /\ UNCHANGED <<access, team, members, attached, granted>>

-----------------------------------------------------------------------------
(* Answering.  A token that is no longer in a row finds nothing.           *)

\* acceptWorkspaceInvite, acceptTeamInvite
AcceptBegin(r, k, u) ==
  /\ Live(k, u)
  /\ Begin(r, [NoCall EXCEPT !.pc = IF k = "team" THEN "attached" ELSE "accept",
                             !.next = "accept", !.kind = k, !.who = u,
                             !.token = invite[k][u].token, !.users = {u}])
  /\ UNCHANGED <<rows, tokens>>

\* The WHERE of the update: the invitation that was read, still open.
Acceptable_Bug(k, u, token) == Live(k, u)

Acceptable(k, u, token) == Live(k, u) /\ invite[k][u].token = token

\* The transaction: the invitation is settled and what it grants is stored.
AcceptCommit(r) ==
  /\ At(r, "accept")
  /\ LET k == req[r].kind  u == req[r].who IN
     IF Acceptable(k, u, req[r].token)
     THEN /\ SetInvite(k, u, [invite[k][u] EXCEPT !.status = "accepted"])
          /\ access' = IF k = "workspace" THEN access \cup {u} ELSE access
          /\ members' = IF k = "team" THEN members \cup {u} ELSE members
          /\ granted' = granted \cup {req[r].token}
     ELSE UNCHANGED <<invite, access, members, granted>>
  /\ Return(r)
  /\ UNCHANGED <<team, attached, issued, withdrawn>>

\* declineWorkspaceInvite, declineTeamInvite: the update is by id alone.
DeclineBegin(r, k, u) ==
  /\ Pending(k, u)
  /\ Begin(r, [NoCall EXCEPT !.pc = "decline", !.kind = k, !.who = u])
  /\ UNCHANGED <<rows, tokens>>

DeclineWrite(r) ==
  /\ At(r, "decline")
  /\ LET k == req[r].kind  u == req[r].who IN
     IF invite[k][u].status = "absent" THEN UNCHANGED <<invite, withdrawn>>
     ELSE SetInvite(k, u, [invite[k][u] EXCEPT !.status = "declined"]) /\ Withdraw(k, u)
  /\ Return(r)
  /\ UNCHANGED <<access, team, members, attached, issued, granted>>

\* cancelInvite, cancelTeamInvite
CancelInvite(k, u) ==
  /\ Pending(k, u)
  /\ SetInvite(k, u, [invite[k][u] EXCEPT !.status = "cancelled"])
  /\ Withdraw(k, u)
  /\ UNCHANGED <<access, team, members, attached, issued, granted, req>>

Expire(k, u) ==
  /\ Live(k, u)
  /\ SetInvite(k, u, [invite[k][u] EXCEPT !.live = FALSE])
  /\ UNCHANGED <<access, team, members, attached, tokens, req>>

-----------------------------------------------------------------------------
(* Access and teams.                                                       *)

RemoveUser(u) ==
  /\ u \in access
  /\ access' = access \ {u}
  /\ UNCHANGED <<invite, team, members, attached, tokens, req>>

\* leaveSharedWorkspace
LeaveBegin(r, u) ==
  /\ u \in access
  /\ Begin(r, [NoCall EXCEPT !.pc = "leave", !.who = u])
  /\ UNCHANGED <<rows, tokens>>

LeaveWrite(r) ==
  /\ At(r, "leave")
  /\ access' = access \ {req[r].who}
  /\ Return(r)
  /\ UNCHANGED <<invite, team, members, attached, tokens>>

\* createTeam: two inserts.  Nobody knows the id of the team before the second.
CreateTeam(r) ==
  /\ team = "absent"
  /\ Begin(r, [NoCall EXCEPT !.pc = "member"])
  /\ team' = "half"
  /\ UNCHANGED <<invite, access, members, attached, tokens>>

CreateMember(r) ==
  /\ At(r, "member")
  /\ team' = "live" /\ members' = {Owner}
  /\ Return(r)
  /\ UNCHANGED <<invite, access, attached, tokens>>

\* deleteTeam, which cascades
DeleteTeam ==
  /\ team = "live"
  /\ team' = "deleted" /\ members' = {} /\ attached' = FALSE
  /\ invite' = [invite EXCEPT !["team"] = [u \in People |-> NoInvite]]
  /\ withdrawn' = withdrawn \cup ({invite["team"][u].token : u \in People} \ {0})
  /\ UNCHANGED <<access, issued, granted, req>>

\* removeTeamMember, and leaveTeam, which does the same for the caller
RemoveTeamMember(u) ==
  /\ u \in members
  /\ members' = members \ {u}
  /\ UNCHANGED <<invite, access, team, attached, tokens, req>>

\* addTeamToWorkspace
AddTeamBegin(r) ==
  /\ team = "live"
  /\ Begin(r, [NoCall EXCEPT !.pc = "capacity", !.next = "attach", !.users = members])
  /\ UNCHANGED <<rows, tokens>>

AddTeamWrite(r) ==
  /\ At(r, "attach")
  /\ attached' = (attached \/ team = "live")
  /\ Return(r)
  /\ UNCHANGED <<invite, access, team, members, tokens>>

RemoveTeam ==
  /\ attached /\ attached' = FALSE
  /\ UNCHANGED <<invite, access, team, members, tokens, req>>

\* The API process dies.
Crash(r) ==
  /\ req[r] # NoCall /\ Return(r)
  /\ UNCHANGED <<rows, tokens>>

-----------------------------------------------------------------------------
Seats == access \cup TeamPeople \cup Invited

\* A step that makes collaborators, now or once the team has the workspace.
Grows == ~(Seats' \subseteq Seats) \/ ~(members' \subseteq members) \/ (attached' /\ ~attached)

\* A step after which somebody is in a table that a count has passed.
Moves == ~(access' \subseteq access) \/ ~(Invited' \subseteq Invited)

\* A handler that stands still while collaborators are made, or moved under its count.
Overtaken(r) ==
  /\ req[r] # NoCall /\ req'[r] = req[r]
  /\ Grows \/ (Moves /\ req[r].todo \notin {Queries, {}})

Handling(r) ==
  \/ InviteInvolved(r) \/ Query(r) \/ InviteCount(r) \/ ReadAttached(r) \/ Capacity(r)
  \/ InviteWrite(r) \/ AcceptCommit(r) \/ DeclineWrite(r) \/ LeaveWrite(r)
  \/ CreateMember(r) \/ AddTeamWrite(r)

Step ==
  \/ \E r \in Requests :
       \/ Handling(r) \/ CreateTeam(r) \/ AddTeamBegin(r) \/ Crash(r)
       \/ \E u \in People :
            \/ LeaveBegin(r, u) \/ InviteBegin(r, u)
            \/ \E known \in BOOLEAN : InviteMember(r, u, known)
            \/ \E k \in Kinds : AcceptBegin(r, k, u) \/ DeclineBegin(r, k, u)
  \/ \E u \in People :
       \/ RemoveUser(u) \/ RemoveTeamMember(u)
       \/ \E k \in Kinds : CancelInvite(k, u) \/ Expire(k, u)
  \/ DeleteTeam \/ RemoveTeam

Next ==
  /\ Step
  /\ raced' = (raced \/ \E r \in Requests : Overtaken(r))

Spec == Init /\ [][Next]_vars

-----------------------------------------------------------------------------
\* The rows are what their columns allow, and the creator of a team that somebody
\* can name is a member of it.
TypeOK ==
  /\ invite \in [Kinds -> [People -> Invites]]
  /\ access \subseteq People
  /\ team \in {"absent", "half", "live", "deleted"}
  /\ members \subseteq People \cup {Owner} /\ attached \in BOOLEAN
  /\ (team = "live") = (Owner \in members)
  /\ issued \in 0..MaxInvites
  /\ withdrawn \subseteq 1..issued /\ granted \subseteq 1..issued
  /\ raced \in BOOLEAN
  /\ req \in [Requests -> Calls]

\* An invitation that was cancelled, declined or replaced by another grants
\* nothing any more, whatever an acceptance in flight has read.
WithdrawnGrantsNothing == [][(granted' \ granted) \cap withdrawn = {}]_vars

\* Those who have access or an invitation to the workspace are never more than
\* the limit, as long as no collaborator is made under a handler in flight, nor
\* moved from one table to another between the queries of its count.
SeatsAreLimited == raced \/ Cardinality(Seats) <= MaxCollaborators

\* "This workspace has reached the limit", share.ts:289.
SeatsNeverExceed == Cardinality(Seats) <= MaxCollaborators

\* What was accepted is not declined by an answer that is late.
AcceptedStaysAccepted ==
  [][\A k \in Kinds, u \in People :
       invite[k][u].status = "accepted" => invite'[k][u].status # "declined"]_vars
=============================================================================
