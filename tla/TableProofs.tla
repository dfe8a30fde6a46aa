---------------------------- MODULE TableProofs ----------------------------
(***************************************************************************)
(* What the services of TableServices promise, for any number of people,   *)
(* credentials, installations and overlapping handlers: sharing, the model *)
(* credentials and the installations at GitHub, one after the other.       *)
(***************************************************************************)
EXTENDS TableServices, FiniteSetTheorems, TLAPS

-----------------------------------------------------------------------------
(* WorkspaceSharing: tokens.  No two rows hold one token, so what withdraws *)
(* a token withdraws no other row's, and an open row's is not withdrawn.   *)

\* A handler that writes an invitation, or counts for one, has an addressee.
Fitting ==
  {c \in Sharing!Calls :
     /\ c.pc \in {"involved", "count", "attached", "invite", "accept", "decline", "leave"}
          => c.who \in People
     /\ c.pc \in {"attached", "capacity"} /\ c.next \in {"invite", "accept"}
          => c.kind = "team" /\ c.who \in People /\ c.who \in c.users
     /\ c.pc = "attached" => c.next \in {"invite", "accept"}
     /\ c.pc = "capacity" => c.next \in {"invite", "accept", "attach"}
     /\ c.pc \notin {"count", "capacity"} => c.todo = Sharing!Queries}

CallsFit == call \in [Handlers -> Fitting]

RowsFit ==
  /\ invite \in [Sharing!Kinds -> [People -> Sharing!Invites]]
  /\ granted \subseteq People
  /\ team \in {"absent", "half", "live", "deleted"}
  /\ members \subseteq People \cup {Owner} /\ attached \in BOOLEAN
  /\ team = "live" <=> Owner \in members
  /\ attached => team = "live"
  /\ issued \in 0..MaxInvites

Token(k, u) == invite[k][u].token

TokensFit ==
  /\ withdrawn \subseteq 0..issued /\ accepted \subseteq 1..issued
  /\ \A k \in Sharing!Kinds, u \in People : Token(k, u) \in 0..issued
  /\ \A k, l \in Sharing!Kinds, u, v \in People :
       Token(k, u) = Token(l, v) /\ Token(k, u) # 0 => k = l /\ u = v
  /\ \A k \in Sharing!Kinds, u \in People :
       Sharing!Pending(k, u) => Token(k, u) # 0 /\ Token(k, u) \notin withdrawn

SharingInv == CallsFit /\ RowsFit /\ TokensFit

\* What a handler becomes when it starts, goes on or ends.
LEMMA FittingCalls ==
  /\ Sharing!NoCall \in Fitting
  /\ \A c \in Fitting : c.pc = "involved" =>
       [c EXCEPT !.pc = "count"] \in Fitting /\ [c EXCEPT !.pc = "invite"] \in Fitting
  /\ \A c \in Fitting : c.pc = "attached" =>
       [c EXCEPT !.pc = "capacity"] \in Fitting /\ [c EXCEPT !.pc = c.next] \in Fitting
BY SharingAssumption DEF Fitting, Sharing!Calls, Sharing!NoCall, Sharing!Kinds

\* One query of a count is done, or all of them are and it goes on.
LEMMA QueryFits ==
  ASSUME NEW c \in Fitting, c.pc \in {"count", "capacity"}, NEW q,
         NEW users \in SUBSET (People \cup {Owner}), NEW open \in SUBSET People
  PROVE  [c EXCEPT !.todo = @ \ {q}, !.users = @ \cup users, !.open = @ \cup open] \in Fitting
BY DEF Fitting, Sharing!Calls

LEMMA ProceedFits ==
  ASSUME NEW c \in Fitting, NEW pc,
         \/ c.pc = "count" /\ pc = "invite"
         \/ c.pc = "capacity" /\ pc = c.next
  PROVE  [c EXCEPT !.pc = pc, !.users = {}, !.open = {}, !.todo = Sharing!Queries] \in Fitting
BY DEF Fitting, Sharing!Calls

LEMMA NoCallFits == Sharing!NoCall \in Sharing!Calls
BY SharingAssumption DEF Sharing!Calls, Sharing!NoCall, Sharing!Kinds

LEMMA MemberFits == [Sharing!NoCall EXCEPT !.pc = "member"] \in Fitting
BY SharingAssumption DEF Fitting, Sharing!Calls, Sharing!NoCall, Sharing!Kinds

LEMMA AttachFits ==
  ASSUME RowsFit
  PROVE  [Sharing!NoCall EXCEPT !.pc = "capacity", !.next = "attach", !.users = members]
           \in Fitting
<1>1. members \in SUBSET (People \cup {Owner})
  BY DEF RowsFit
<1> QED
  BY <1>1, NoCallFits DEF Fitting, Sharing!Calls

LEMMA PersonFits ==
  ASSUME NEW u \in People, NEW k \in Sharing!Kinds
  PROVE  /\ \A pc \in {"leave", "invite", "involved"} :
              [Sharing!NoCall EXCEPT !.pc = pc, !.who = u] \in Fitting
         /\ \A pc \in {"attached", "invite"} :
              [Sharing!NoCall EXCEPT !.pc = pc, !.next = "invite", !.kind = "team",
                                     !.who = u, !.users = {u}] \in Fitting
         /\ [Sharing!NoCall EXCEPT !.pc = "decline", !.kind = k, !.who = u] \in Fitting
<1> USE NoCallFits DEF Fitting, Sharing!Calls
<1>1. ASSUME NEW pc \in {"leave", "invite", "involved"}
      PROVE  [Sharing!NoCall EXCEPT !.pc = pc, !.who = u] \in Fitting
  BY DEF Sharing!NoCall
<1>2. ASSUME NEW pc \in {"attached", "invite"}
      PROVE  [Sharing!NoCall EXCEPT !.pc = pc, !.next = "invite", !.kind = "team",
                                    !.who = u, !.users = {u}] \in Fitting
  BY DEF Sharing!NoCall, Sharing!Kinds
<1>3. [Sharing!NoCall EXCEPT !.pc = "decline", !.kind = k, !.who = u] \in Fitting
  BY DEF Sharing!NoCall
<1> QED
  BY <1>1, <1>2, <1>3

LEMMA AcceptFits ==
  ASSUME RowsFit, NEW u \in People, NEW k \in Sharing!Kinds
  PROVE  [Sharing!NoCall EXCEPT !.pc = IF k = "team" THEN "attached" ELSE "accept",
                                !.next = "accept", !.kind = k, !.who = u,
                                !.token = invite[k][u].token, !.users = {u}] \in Fitting
<1>1. invite[k][u].token \in 0..MaxInvites
  BY DEF RowsFit, Sharing!Invites
<1> QED
  BY <1>1, SharingAssumption DEF Fitting, Sharing!Calls, Sharing!NoCall, Sharing!Kinds

LEMMA CallsStep ==
  ASSUME CallsFit, RowsFit, Sharing!Step
  PROVE  CallsFit'
<1> USE SharingAssumption, FittingCalls
    DEF CallsFit, Sharing!Begin, Sharing!Goto, Sharing!Return, Sharing!At
<1>proceeds. ASSUME NEW r \in Handlers, NEW pc, Sharing!Proceed(r, pc),
             \/ call[r].pc = "count" /\ pc = "invite"
             \/ call[r].pc = "capacity" /\ pc = call[r].next
      PROVE  CallsFit'
  <2> DEFINE c == [call[r] EXCEPT !.pc = pc, !.users = {}, !.open = {},
                                  !.todo = Sharing!Queries]
  <2>1. c \in Fitting
    BY <1>proceeds, ProceedFits
  <2>2. call' = [call EXCEPT ![r] = c]
    BY <1>proceeds DEF Sharing!Proceed
  <2> HIDE DEF c
  <2> QED
    BY <2>1, <2>2
<1>1. ASSUME NEW r \in Handlers, Sharing!Handling(r) PROVE CallsFit'
  <2>1. CASE Sharing!InviteInvolved(r)
    BY <2>1 DEF Sharing!InviteInvolved
  <2>2. CASE Sharing!InviteCount(r)
    BY <1>proceeds, <2>2 DEF Sharing!InviteCount
  <2>3. CASE Sharing!ReadAttached(r)
    BY <2>3 DEF Sharing!ReadAttached
  <2>4. CASE Sharing!Capacity(r)
    BY <1>proceeds, <2>4 DEF Sharing!Capacity
  <2>5. CASE Sharing!Return(r)
    BY <2>5
  <2>6. CASE Sharing!Query(r)
    <3>1. granted \subseteq People /\ Sharing!Invited \subseteq People
      BY DEF RowsFit, Sharing!Invited
    <3>2. Sharing!TeamPeople \subseteq People \cup {Owner}
      BY DEF RowsFit, Sharing!TeamPeople
    <3>3. ASSUME NEW q, NEW users \in SUBSET (People \cup {Owner}), NEW open \in SUBSET People,
                 Sharing!Reads(r, q, users, open)
          PROVE  CallsFit'
      BY <2>6, <3>3, QueryFits DEF Sharing!Query, Sharing!Reads
    <3>4. CASE Sharing!Reads(r, "direct", granted, {})
      BY <3>1, <3>3, <3>4
    <3>5. CASE Sharing!Reads(r, "team", Sharing!TeamPeople, {})
      BY <3>2, <3>3, <3>5
    <3>6. CASE Sharing!Reads(r, "pending", {}, Sharing!Invited)
      BY <3>1, <3>3, <3>6
    <3> QED
      BY <2>6, <3>4, <3>5, <3>6 DEF Sharing!Query
  <2> QED
    BY <1>1, <2>1, <2>2, <2>3, <2>4, <2>5, <2>6
       DEF Sharing!Handling, Sharing!InviteWrite, Sharing!AcceptCommit, Sharing!DeclineWrite,
           Sharing!LeaveWrite, Sharing!CreateMember, Sharing!AddTeamWrite
<1>2. ASSUME NEW r \in Handlers, NEW c \in Fitting, Sharing!Begin(r, c) PROVE CallsFit'
  BY <1>2
<1>3. ASSUME NEW r \in Handlers,
             Sharing!CreateTeam(r) \/ Sharing!AddTeamBegin(r) \/ Sharing!Crash(r)
      PROVE  CallsFit'
  BY <1>2, <1>3, MemberFits, AttachFits
     DEF Sharing!CreateTeam, Sharing!AddTeamBegin, Sharing!Crash
<1>4. ASSUME NEW r \in Handlers, NEW u \in People,
             \/ Sharing!LeaveBegin(r, u) \/ Sharing!InviteBegin(r, u)
             \/ \E known \in BOOLEAN : Sharing!InviteMember(r, u, known)
             \/ \E k \in Sharing!Kinds :
                  Sharing!AcceptBegin(r, k, u) \/ Sharing!DeclineBegin(r, k, u)
      PROVE  CallsFit'
  <2>1. ASSUME NEW k \in Sharing!Kinds, Sharing!AcceptBegin(r, k, u) PROVE CallsFit'
    BY <1>2, <2>1, AcceptFits DEF Sharing!AcceptBegin
  <2>2. ASSUME NEW k \in Sharing!Kinds, Sharing!DeclineBegin(r, k, u) PROVE CallsFit'
    BY <1>2, <2>2, PersonFits DEF Sharing!DeclineBegin
  <2>3. CASE Sharing!LeaveBegin(r, u)
    BY <1>2, <2>3, PersonFits DEF Sharing!LeaveBegin, Sharing!Kinds
  <2>4. CASE Sharing!InviteBegin(r, u)
    BY <1>2, <2>4, PersonFits DEF Sharing!InviteBegin, Sharing!Kinds
  <2>5. ASSUME NEW known \in BOOLEAN, Sharing!InviteMember(r, u, known) PROVE CallsFit'
    BY <1>2, <2>5, PersonFits DEF Sharing!InviteMember, Sharing!Kinds
  <2> QED
    BY <1>4, <2>1, <2>2, <2>3, <2>4, <2>5
<1>5. ASSUME NEW u \in People,
             \/ Sharing!RemoveUser(u) \/ Sharing!RemoveTeamMember(u)
             \/ \E k \in Sharing!Kinds : Sharing!CancelInvite(k, u) \/ Sharing!Expire(k, u)
      PROVE  CallsFit'
  BY <1>5 DEF Sharing!RemoveUser, Sharing!RemoveTeamMember, Sharing!CancelInvite, Sharing!Expire
<1>6. CASE Sharing!DeleteTeam \/ Sharing!RemoveTeam
  BY <1>6 DEF Sharing!DeleteTeam, Sharing!RemoveTeam
<1> QED
  BY <1>1, <1>3, <1>4, <1>5, <1>6 DEF Sharing!Step

\* What a statement makes of the rows of the invitations.
LEMMA InviteChange ==
  ASSUME RowsFit, NEW k \in Sharing!Kinds, NEW u \in People, NEW row \in Sharing!Invites,
         Sharing!SetInvite(k, u, row)
  PROVE  /\ invite' \in [Sharing!Kinds -> [People -> Sharing!Invites]]
         /\ \A l \in Sharing!Kinds, v \in People :
              invite'[l][v] = IF l = k /\ v = u THEN row ELSE invite[l][v]
BY DEF RowsFit, Sharing!SetInvite

LEMMA RowsStep ==
  ASSUME SharingInv, Sharing!Step
  PROVE  RowsFit' /\ TokensFit'
<1> USE SharingAssumption DEF SharingInv
<1>1. ASSUME UNCHANGED <<invite, team, members, attached, issued, withdrawn, accepted>>,
             granted' \subseteq granted
      PROVE  RowsFit' /\ TokensFit'
  BY <1>1 DEF RowsFit, TokensFit, Token, Sharing!Pending
<1>2. ASSUME NEW r \in Handlers, Sharing!InviteWrite(r) PROVE RowsFit' /\ TokensFit'
  <2> DEFINE k == call[r].kind  u == call[r].who
             row == [status |-> "pending", token |-> issued + 1, live |-> TRUE]
  <2>1. k \in Sharing!Kinds /\ u \in People
    BY <1>2 DEF CallsFit, Fitting, Sharing!Calls, Sharing!InviteWrite, Sharing!At
  <2>2. CASE k = "workspace" \/ team = "live"
    <3>1. /\ issued < MaxInvites /\ issued' = issued + 1
          /\ Sharing!SetInvite(k, u, row)
          /\ withdrawn' \subseteq withdrawn \cup {Token(k, u)}
          /\ UNCHANGED <<granted, team, members, attached, accepted>>
      BY <1>2, <2>2 DEF Sharing!InviteWrite, Sharing!Withdraw, Token
    <3>2. row \in Sharing!Invites
      BY <3>1 DEF Sharing!Invites, RowsFit
    <3>3. /\ invite' \in [Sharing!Kinds -> [People -> Sharing!Invites]]
          /\ \A l \in Sharing!Kinds, v \in People :
               invite'[l][v] = IF l = k /\ v = u THEN row ELSE invite[l][v]
      BY <2>1, <3>1, <3>2, InviteChange
    <3>4. RowsFit'
      BY <3>1, <3>3 DEF RowsFit
    <3>5. \A l \in Sharing!Kinds, v \in People :
            /\ Token(l, v)' = IF l = k /\ v = u THEN issued + 1 ELSE Token(l, v)
            /\ Sharing!Pending(l, v)' = ((l = k /\ v = u) \/ Sharing!Pending(l, v))
      BY <3>3 DEF Token, Sharing!Pending
    <3>6. issued \in Nat /\ Token(k, u) \in 0..issued
      BY <2>1 DEF RowsFit, TokensFit
    <3>7. /\ withdrawn' \subseteq 0..issued' /\ accepted' \subseteq 1..issued'
          /\ \A l \in Sharing!Kinds, v \in People : Token(l, v)' \in 0..issued'
      <4>1. /\ issued + 1 \in 0..issued' /\ 0..issued \subseteq 0..issued'
            /\ 1..issued \subseteq 1..issued'
        BY <3>1, <3>6
      <4>2. Token(k, u) \in 0..issued' /\ withdrawn \subseteq 0..issued'
        BY <3>6, <4>1 DEF TokensFit
      <4>3. withdrawn' \subseteq 0..issued' /\ accepted' \subseteq 1..issued'
        BY <3>1, <4>1, <4>2 DEF TokensFit
      <4>4. ASSUME NEW l \in Sharing!Kinds, NEW v \in People PROVE Token(l, v)' \in 0..issued'
        <5>1. Token(l, v) \in 0..issued
          BY DEF TokensFit
        <5> QED
          BY <3>5, <4>1, <5>1
      <4> QED
        BY <4>3, <4>4
    <3>8. ASSUME NEW l \in Sharing!Kinds, NEW m \in Sharing!Kinds, NEW v \in People,
                 NEW w \in People, Token(l, v)' = Token(m, w)', Token(l, v)' # 0
          PROVE  l = m /\ v = w
      BY <3>5, <3>6, <3>8 DEF TokensFit
    <3>9. ASSUME NEW l \in Sharing!Kinds, NEW v \in People, Sharing!Pending(l, v)'
          PROVE  Token(l, v)' # 0 /\ Token(l, v)' \notin withdrawn'
      <4>1. CASE l = k /\ v = u
        BY <2>1, <3>1, <3>5, <3>6, <4>1 DEF TokensFit
      <4>2. CASE ~(l = k /\ v = u)
        <5>1. Sharing!Pending(l, v) /\ Token(l, v)' = Token(l, v)
          BY <2>1, <3>5, <3>9, <4>2
        <5>2. Token(l, v) # 0 /\ Token(l, v) \notin withdrawn /\ Token(l, v) # Token(k, u)
          BY <2>1, <4>2, <5>1 DEF TokensFit
        <5> QED
          BY <3>1, <5>1, <5>2
      <4> QED
        BY <4>1, <4>2
    <3>10. TokensFit'
      BY <3>7, <3>8, <3>9 DEF TokensFit
    <3> QED
      BY <3>4, <3>10
  <2>3. CASE ~(k = "workspace" \/ team = "live")
    BY <1>1, <1>2, <2>3 DEF Sharing!InviteWrite
  <2> QED
    BY <2>2, <2>3
<1>3. ASSUME NEW r \in Handlers, Sharing!AcceptCommit(r) PROVE RowsFit' /\ TokensFit'
  <2> DEFINE k == call[r].kind  u == call[r].who
             row == [invite[k][u] EXCEPT !.status = "accepted"]
  <2>1. k \in Sharing!Kinds /\ u \in People
    BY <1>3 DEF CallsFit, Fitting, Sharing!Calls, Sharing!AcceptCommit, Sharing!At
  <2>2. CASE Sharing!Acceptable(k, u, call[r].token)
    <3>1. /\ Sharing!SetInvite(k, u, row) /\ Sharing!Pending(k, u)
          /\ granted' = IF k = "workspace" THEN granted \cup {u} ELSE granted
          /\ members' = IF k = "team" THEN members \cup {u} ELSE members
          /\ accepted' = accepted \cup {Token(k, u)}
          /\ UNCHANGED <<team, attached, issued, withdrawn>>
      BY <1>3, <2>2 DEF Sharing!AcceptCommit, Sharing!Acceptable, Sharing!Live, Token
    <3>2. row \in Sharing!Invites
      <4>1. invite[k][u] \in Sharing!Invites
        BY <2>1 DEF RowsFit
      <4> QED
        BY <4>1 DEF Sharing!Invites
    <3>3. /\ invite' \in [Sharing!Kinds -> [People -> Sharing!Invites]]
          /\ \A l \in Sharing!Kinds, v \in People :
               invite'[l][v] = IF l = k /\ v = u THEN row ELSE invite[l][v]
      BY <2>1, <3>1, <3>2, InviteChange
    <3>4. RowsFit'
      BY <2>1, <3>1, <3>3 DEF RowsFit
    <3>5. invite[k][u] \in Sharing!Invites
      BY <2>1 DEF RowsFit
    <3>6. row.token = Token(k, u) /\ row.status = "accepted"
      BY <3>5 DEF Token, Sharing!Invites
    <3>7. /\ \A l \in Sharing!Kinds, v \in People : Token(l, v)' = Token(l, v)
          /\ \A l \in Sharing!Kinds, v \in People :
               Sharing!Pending(l, v)' => Sharing!Pending(l, v)
      BY <3>3, <3>6, ZenonT(30) DEF Token, Sharing!Pending
    <3>8. Token(k, u) \in 1..issued
      BY <2>1, <3>1 DEF TokensFit, RowsFit
    <3>9. TokensFit'
      BY <3>1, <3>7, <3>8 DEF TokensFit
    <3> QED
      BY <3>4, <3>9
  <2>3. CASE ~Sharing!Acceptable(k, u, call[r].token)
    BY <1>1, <1>3, <2>3 DEF Sharing!AcceptCommit
  <2> QED
    BY <2>2, <2>3
\* A row is given up, and its token withdrawn.
<1>4. ASSUME NEW k \in Sharing!Kinds, NEW u \in People, NEW status \in {"declined", "cancelled"},
             Sharing!SetInvite(k, u, [invite[k][u] EXCEPT !.status = status]),
             Sharing!Withdraw(k, u),
             UNCHANGED <<granted, team, members, attached, issued, accepted>>
      PROVE  RowsFit' /\ TokensFit'
  <2> DEFINE row == [invite[k][u] EXCEPT !.status = status]
  <2>1. invite[k][u] \in Sharing!Invites
    BY DEF RowsFit
  <2>2. row \in Sharing!Invites /\ row.token = Token(k, u) /\ row.status = status
    BY <2>1 DEF Sharing!Invites, Token
  <2>3. /\ invite' \in [Sharing!Kinds -> [People -> Sharing!Invites]]
        /\ \A l \in Sharing!Kinds, v \in People :
             invite'[l][v] = IF l = k /\ v = u THEN row ELSE invite[l][v]
    BY <1>4, <2>2, InviteChange
  <2>4. /\ \A l \in Sharing!Kinds, v \in People : Token(l, v)' = Token(l, v)
        /\ \A l \in Sharing!Kinds, v \in People :
             Sharing!Pending(l, v)' => Sharing!Pending(l, v) /\ (l # k \/ v # u)
    BY <2>2, <2>3 DEF Token, Sharing!Pending
  <2>5. RowsFit'
    BY <1>4, <2>3 DEF RowsFit
  <2>6. TokensFit'
    BY <1>4, <2>4 DEF TokensFit, Sharing!Withdraw, Token
  <2> QED
    BY <2>5, <2>6
<1>5. ASSUME NEW r \in Handlers, Sharing!DeclineWrite(r) PROVE RowsFit' /\ TokensFit'
  <2>1. call[r].kind \in Sharing!Kinds /\ call[r].who \in People
    BY <1>5 DEF CallsFit, Fitting, Sharing!Calls, Sharing!DeclineWrite, Sharing!At
  <2> QED
    BY <1>1, <1>4, <1>5, <2>1 DEF Sharing!DeclineWrite
<1>6. ASSUME NEW u \in People, NEW k \in Sharing!Kinds, Sharing!CancelInvite(k, u)
      PROVE  RowsFit' /\ TokensFit'
  BY <1>4, <1>6 DEF Sharing!CancelInvite
<1>7. ASSUME NEW u \in People, NEW k \in Sharing!Kinds, Sharing!Expire(k, u)
      PROVE  RowsFit' /\ TokensFit'
  <2> DEFINE row == [invite[k][u] EXCEPT !.live = FALSE]
  <2>1. invite[k][u] \in Sharing!Invites
    BY DEF RowsFit
  <2>2. /\ row \in Sharing!Invites /\ row.token = Token(k, u)
        /\ row.status = invite[k][u].status
    BY <2>1 DEF Sharing!Invites, Token
  <2>3. /\ invite' \in [Sharing!Kinds -> [People -> Sharing!Invites]]
        /\ \A l \in Sharing!Kinds, v \in People :
             invite'[l][v] = IF l = k /\ v = u THEN row ELSE invite[l][v]
    BY <1>7, <2>2, InviteChange DEF Sharing!Expire
  <2>4. /\ \A l \in Sharing!Kinds, v \in People : Token(l, v)' = Token(l, v)
        /\ \A l \in Sharing!Kinds, v \in People :
             Sharing!Pending(l, v)' => Sharing!Pending(l, v)
    BY <2>2, <2>3 DEF Token, Sharing!Pending
  <2>5. RowsFit'
    BY <1>7, <2>3 DEF RowsFit, Sharing!Expire, Sharing!tokens
  <2>6. TokensFit'
    BY <1>7, <2>4 DEF TokensFit, Sharing!Expire, Sharing!tokens
  <2> QED
    BY <2>5, <2>6
<1>8. CASE Sharing!DeleteTeam
  <2>1. /\ invite' = [invite EXCEPT !["team"] = [u \in People |-> Sharing!NoInvite]]
        /\ withdrawn' \subseteq withdrawn \cup {Token("team", u) : u \in People}
        /\ team' = "deleted" /\ members' = {} /\ attached' = FALSE
        /\ UNCHANGED <<granted, issued, accepted>>
    BY <1>8 DEF Sharing!DeleteTeam, Token
  <2>2. [u \in People |-> Sharing!NoInvite] \in [People -> Sharing!Invites]
    BY DEF Sharing!NoInvite, Sharing!Invites
  <2>3. invite' \in [Sharing!Kinds -> [People -> Sharing!Invites]]
    BY <2>1, <2>2 DEF RowsFit
  <2>4. RowsFit'
    <3>1. team' # "live" /\ Owner \notin members'
      BY <2>1
    <3> QED
      BY <2>1, <2>3, <3>1 DEF RowsFit
  <2>5. \A k \in Sharing!Kinds, u \in People :
          IF k = "team" THEN Token(k, u)' = 0 /\ ~Sharing!Pending(k, u)'
          ELSE /\ Token(k, u)' = Token(k, u)
               /\ Sharing!Pending(k, u)' = Sharing!Pending(k, u)
    BY <2>1 DEF RowsFit, Token, Sharing!Pending, Sharing!NoInvite
  <2>6. "team" \in Sharing!Kinds
    BY DEF Sharing!Kinds
  <2>7. withdrawn' \subseteq 0..issued
    BY <2>1, <2>6 DEF TokensFit
  <2>8. /\ \A k \in Sharing!Kinds, u \in People :
             Token(k, u)' \in {0, Token(k, u)}
        /\ \A k \in Sharing!Kinds, u \in People :
             Sharing!Pending(k, u)' => /\ k # "team" /\ Sharing!Pending(k, u)
                                       /\ Token(k, u)' = Token(k, u)
    BY <2>5
  <2>9. ASSUME NEW k \in Sharing!Kinds, NEW u \in People, Sharing!Pending(k, u)'
        PROVE  Token(k, u)' # 0 /\ Token(k, u)' \notin withdrawn'
    BY <2>1, <2>6, <2>8, <2>9 DEF TokensFit
  <2>10. 0 \in 0..issued
    BY DEF RowsFit
  <2>11. TokensFit'
    BY <2>1, <2>7, <2>8, <2>9, <2>10 DEF TokensFit
  <2> QED
    BY <2>4, <2>11
\* The rows of the team and of who has the workspace alone.
<1>9. ASSUME UNCHANGED <<invite, issued, withdrawn, accepted>> PROVE TokensFit'
  BY <1>9 DEF TokensFit, Token, Sharing!Pending
<1>10. ASSUME NEW r \in Handlers,
              Sharing!CreateTeam(r) \/ Sharing!CreateMember(r) \/ Sharing!AddTeamWrite(r)
       PROVE  RowsFit' /\ TokensFit'
  <2>1. CASE Sharing!CreateTeam(r)
    BY <1>9, <2>1 DEF RowsFit, Sharing!CreateTeam, Sharing!tokens
  <2>2. CASE Sharing!CreateMember(r)
    BY <1>9, <2>2 DEF RowsFit, Sharing!CreateMember, Sharing!tokens
  <2>3. CASE Sharing!AddTeamWrite(r)
    BY <1>9, <2>3 DEF RowsFit, Sharing!AddTeamWrite, Sharing!tokens
  <2> QED
    BY <1>10, <2>1, <2>2, <2>3
<1>11. ASSUME NEW u \in People, Sharing!RemoveTeamMember(u) PROVE RowsFit' /\ TokensFit'
  BY <1>9, <1>11 DEF RowsFit, Sharing!RemoveTeamMember, Sharing!tokens
<1>12. CASE Sharing!RemoveTeam
  BY <1>9, <1>12 DEF RowsFit, Sharing!RemoveTeam, Sharing!tokens
<1>13. ASSUME NEW r \in Handlers,
              \/ Sharing!InviteInvolved(r) \/ Sharing!Query(r) \/ Sharing!InviteCount(r)
              \/ Sharing!ReadAttached(r) \/ Sharing!Capacity(r) \/ Sharing!LeaveWrite(r)
              \/ Sharing!AddTeamBegin(r) \/ Sharing!Crash(r)
       PROVE  RowsFit' /\ TokensFit'
  BY <1>1, <1>13
     DEF Sharing!InviteInvolved, Sharing!Query, Sharing!InviteCount, Sharing!ReadAttached,
         Sharing!Capacity, Sharing!LeaveWrite, Sharing!AddTeamBegin, Sharing!Crash,
         Sharing!rows, Sharing!tokens
<1>14. ASSUME NEW r \in Handlers, NEW u \in People,
              \/ Sharing!LeaveBegin(r, u) \/ Sharing!InviteBegin(r, u)
              \/ \E known \in BOOLEAN : Sharing!InviteMember(r, u, known)
              \/ \E k \in Sharing!Kinds :
                   Sharing!AcceptBegin(r, k, u) \/ Sharing!DeclineBegin(r, k, u)
       PROVE  RowsFit' /\ TokensFit'
  BY <1>1, <1>14
     DEF Sharing!LeaveBegin, Sharing!InviteBegin, Sharing!InviteMember, Sharing!AcceptBegin,
         Sharing!DeclineBegin, Sharing!rows, Sharing!tokens
<1>15. ASSUME NEW u \in People, Sharing!RemoveUser(u) PROVE RowsFit' /\ TokensFit'
  BY <1>1, <1>15 DEF Sharing!RemoveUser, Sharing!tokens
<1> QED
  BY <1>2, <1>3, <1>5, <1>6, <1>7, <1>8, <1>10, <1>11, <1>12, <1>13, <1>14, <1>15
     DEF Sharing!Step, Sharing!Handling

LEMMA SharingInitially == Sharing!Init => SharingInv
<1> SUFFICES ASSUME Sharing!Init PROVE SharingInv
  OBVIOUS
<1>1. CallsFit
  <2>1. Sharing!NoCall.pc = "idle" /\ Sharing!NoCall.todo = Sharing!Queries
    BY DEF Sharing!NoCall
  <2> QED
    BY <2>1, NoCallFits DEF Sharing!Init, CallsFit, Fitting
<1>2. Sharing!NoInvite \in Sharing!Invites
  BY SharingAssumption DEF Sharing!NoInvite, Sharing!Invites
<1>3. RowsFit
  <2>1. /\ team = "absent" /\ members = {} /\ attached = FALSE /\ issued = 0
        /\ granted = {}
    BY DEF Sharing!Init
  <2>2. invite \in [Sharing!Kinds -> [People -> Sharing!Invites]]
    BY <1>2 DEF Sharing!Init
  <2> QED
    <3>1. 0 \in 0..MaxInvites
      BY SharingAssumption
    <3>2. members \subseteq People \cup {Owner}
      BY <2>1
    <3> QED
      BY <2>1, <2>2, <3>1, <3>2 DEF RowsFit
<1>4. TokensFit
  BY DEF Sharing!Init, TokensFit, Token, Sharing!Pending, Sharing!NoInvite
<1> QED
  BY <1>1, <1>3, <1>4 DEF SharingInv

LEMMA SharingStutters ==
  ASSUME SharingInv, UNCHANGED Sharing!vars
  PROVE  SharingInv'
BY DEF SharingInv, CallsFit, RowsFit, TokensFit, Token, Sharing!Pending, Sharing!vars,
       Sharing!rows, Sharing!tokens

LEMMA SharingInvariance == Sharing!Spec => []SharingInv
<1>1. SharingInv /\ [Sharing!Next]_(Sharing!vars) => SharingInv'
  BY CallsStep, RowsStep, SharingStutters DEF SharingInv, Sharing!Next
<1> QED
  BY <1>1, SharingInitially, PTL DEF Sharing!Spec

\* WithdrawnGrantsNothing: an invitation that was cancelled, declined or replaced by
\* another grants nothing any more, whatever an acceptance in flight has read.
THEOREM WithdrawnTokensGrantNothing == Sharing!Spec => WithdrawnGrantsNothing
<1>1. ASSUME SharingInv, [Sharing!Next]_(Sharing!vars)
      PROVE  [(accepted' \ accepted) \cap withdrawn = {}]_(Sharing!vars)
  <2>1. ASSUME NEW r \in Handlers, Sharing!AcceptCommit(r)
        PROVE  (accepted' \ accepted) \cap withdrawn = {}
    <3> DEFINE k == call[r].kind  u == call[r].who
    <3>1. k \in Sharing!Kinds /\ u \in People
      BY <1>1, <2>1
         DEF SharingInv, CallsFit, Fitting, Sharing!Calls, Sharing!AcceptCommit, Sharing!At
    <3>2. CASE Sharing!Acceptable(k, u, call[r].token)
      <4>1. Sharing!Pending(k, u) /\ accepted' = accepted \cup {Token(k, u)}
        BY <2>1, <3>2 DEF Sharing!AcceptCommit, Sharing!Acceptable, Sharing!Live, Token
      <4>2. Token(k, u) \notin withdrawn
        BY <1>1, <3>1, <4>1 DEF SharingInv, TokensFit
      <4> QED
        BY <4>1, <4>2
    <3>3. CASE ~Sharing!Acceptable(k, u, call[r].token)
      BY <2>1, <3>3 DEF Sharing!AcceptCommit
    <3> QED
      BY <3>2, <3>3
  <2>2. CASE accepted' = accepted
    BY <2>2
  <2>3. CASE Sharing!Step
    <3>1. (\E r \in Handlers : Sharing!AcceptCommit(r)) \/ accepted' = accepted
      BY <2>3
         DEF Sharing!Step, Sharing!Handling, Sharing!InviteInvolved, Sharing!Query, Sharing!InviteCount,
             Sharing!ReadAttached, Sharing!Capacity, Sharing!InviteWrite, Sharing!DeclineWrite,
             Sharing!LeaveWrite, Sharing!CreateMember, Sharing!AddTeamWrite,
             Sharing!CreateTeam, Sharing!AddTeamBegin, Sharing!Crash, Sharing!LeaveBegin,
             Sharing!InviteBegin, Sharing!InviteMember, Sharing!AcceptBegin,
             Sharing!DeclineBegin, Sharing!RemoveUser, Sharing!RemoveTeamMember,
             Sharing!CancelInvite, Sharing!Expire, Sharing!DeleteTeam, Sharing!RemoveTeam,
             Sharing!tokens
    <3> QED
      BY <2>1, <2>2, <3>1
  <2> QED
    BY <1>1, <2>2, <2>3 DEF Sharing!Next, Sharing!vars, Sharing!tokens
<1> QED
  BY <1>1, SharingInvariance, PTL
     DEF Sharing!Spec, WithdrawnGrantsNothing, Sharing!WithdrawnGrantsNothing
-----------------------------------------------------------------------------
(* WorkspaceSharing: seats.  What a count has read covers what is there:   *)
(* each table as soon as its query is done, and every seat at the end.     *)
(* While others only take away, that still holds; once somebody else makes *)
(* a collaborator, or moves one under a count, `raced` is set.             *)

Fits(extra) == Cardinality(Sharing!Seats \cup extra) <= MaxCollaborators

\* What the queries of r have found covers what they have read.
Covered(r) ==
  /\ "direct" \notin call[r].todo => granted \subseteq call[r].users
  /\ "team" \notin call[r].todo => Sharing!TeamPeople \subseteq call[r].users
  /\ "pending" \notin call[r].todo => Sharing!Invited \subseteq call[r].open

\* What the handler r has found room for, or counts.
RoomFor(r) ==
  /\ call[r].pc \in {"count", "capacity"}
       => IF call[r].todo = {} THEN Sharing!Seats \subseteq call[r].users \cup call[r].open
          ELSE Covered(r)
  /\ call[r].pc = "invite" /\ call[r].kind = "workspace" => Fits({call[r].who})
  /\ call[r].pc = "accept" /\ call[r].kind = "team" /\ attached => Fits({call[r].who})
  /\ call[r].pc = "capacity" /\ call[r].next = "attach" => members \subseteq call[r].users
  /\ call[r].pc = "attach" => Fits(members)

SeatsInv == SharingInv /\ (raced \/ (Fits({}) /\ \A r \in Handlers : RoomFor(r)))

Everyone == People \cup {Owner}

LEMMA SeatsAreFinite ==
  ASSUME RowsFit
  PROVE  IsFiniteSet(Everyone) /\ Sharing!Seats \in SUBSET Everyone
<1>1. IsFiniteSet(Everyone)
  BY SharingAssumption, FS_AddElement DEF Everyone
<1> QED
  BY <1>1 DEF Everyone, RowsFit, Sharing!Seats, Sharing!TeamPeople, Sharing!Invited

LEMMA FewerFit ==
  ASSUME NEW S \in SUBSET Everyone, NEW T \in SUBSET S, IsFiniteSet(Everyone),
         Cardinality(S) <= MaxCollaborators
  PROVE  Cardinality(T) <= MaxCollaborators
<1>1. IsFiniteSet(S) /\ IsFiniteSet(T)
  BY FS_Subset
<1>2. Cardinality(T) <= Cardinality(S)
  BY <1>1, FS_Subset
<1> QED
  BY <1>1, <1>2, FS_CardinalityType, SharingAssumption

LEMMA SharingCardinality == \A S : Sharing!Cardinality(S) = Cardinality(S)
BY DEF Sharing!Cardinality, Cardinality

\* Counting the users and the invitations apart counts nobody less than once.
LEMMA CountCovers ==
  ASSUME RowsFit, CallsFit, NEW r \in Handlers,
         Sharing!Seats \subseteq call[r].users \cup call[r].open,
         NEW extra \in SUBSET call[r].users
  PROVE  /\ Sharing!Counted(r) \in Nat
         /\ Cardinality(Sharing!Seats \cup extra) \in Nat
         /\ Cardinality(Sharing!Seats \cup extra) <= Sharing!Counted(r)
<1> DEFINE A == call[r].users
           B == call[r].open
           S == Sharing!Seats \cup extra
<1>1. IsFiniteSet(Everyone)
  BY SeatsAreFinite
<1>2. A \in SUBSET Everyone /\ B \in SUBSET Everyone
  BY DEF Everyone, CallsFit, Fitting, Sharing!Calls
<1>3. IsFiniteSet(A) /\ IsFiniteSet(B)
  BY <1>1, <1>2, FS_Subset
<1>4. IsFiniteSet(A \cap B) /\ IsFiniteSet(A \cup B)
  BY <1>3, FS_Intersection, FS_Union
<1>5. Cardinality(A \cup B) = Cardinality(A) + Cardinality(B) - Cardinality(A \cap B)
  BY <1>3, FS_Union
<1>6. /\ Cardinality(A) \in Nat /\ Cardinality(B) \in Nat
      /\ Cardinality(A \cap B) \in Nat /\ Cardinality(A \cup B) \in Nat
  BY <1>3, <1>4, FS_CardinalityType
<1>7. S \in SUBSET (A \cup B)
  OBVIOUS
<1>8. Sharing!Counted(r) = Cardinality(A) + Cardinality(B)
  BY SharingCardinality DEF Sharing!Counted
<1>9. IsFiniteSet(S) /\ Cardinality(S) <= Cardinality(A \cup B)
  BY <1>4, <1>7, FS_Subset
<1>10. Cardinality(S) \in Nat
  BY <1>9, FS_CardinalityType
<1> HIDE DEF A, B, S
<1>11. Sharing!Counted(r) \in Nat /\ Cardinality(S) <= Sharing!Counted(r)
  BY <1>5, <1>6, <1>8, <1>9, <1>10
<1> QED
  BY <1>10, <1>11 DEF S

\* What is found to fit, or counted, goes on to be so while others only take away.
LEMMA StillFits ==
  ASSUME RowsFit, RowsFit', CallsFit, ~Sharing!Grows
  PROVE  /\ Fits({}) => Fits({})'
         /\ \A r \in Handlers :
              call'[r] = call[r] /\ RoomFor(r) /\ ~Sharing!Overtaken(r) => RoomFor(r)'
<1>1. Sharing!Seats' \subseteq Sharing!Seats /\ members' \subseteq members /\ (attached' => attached)
  BY DEF Sharing!Grows
<1>2. IsFiniteSet(Everyone) /\ Sharing!Seats \in SUBSET Everyone
  BY SeatsAreFinite
<1>3. ASSUME NEW S \in SUBSET Everyone, Cardinality(Sharing!Seats \cup S) <= MaxCollaborators,
             NEW T \in SUBSET S
      PROVE  Cardinality(Sharing!Seats' \cup T) <= MaxCollaborators
  <2>1. /\ Sharing!Seats \cup S \in SUBSET Everyone
        /\ Sharing!Seats' \cup T \in SUBSET (Sharing!Seats \cup S)
    BY <1>1, <1>2
  <2> QED
    BY <1>2, <1>3, <2>1, FewerFit
<1>4. {} \in SUBSET Everyone /\ members \in SUBSET Everyone
  BY DEF RowsFit, Everyone
<1>5. ASSUME NEW r \in Handlers, call'[r] = call[r], RoomFor(r), ~Sharing!Overtaken(r)
      PROVE  RoomFor(r)'
  <2>1. {call[r].who} \in SUBSET Everyone
    BY DEF CallsFit, Fitting, Sharing!Calls, Everyone
  <2>2. Fits({call[r].who}) => Fits({call[r].who})'
    BY <1>3, <1>5, <2>1 DEF Fits
  <2>3. Fits(members) => Fits(members)'
    BY <1>1, <1>3, <1>4 DEF Fits
  <2>4. CASE call[r] = Sharing!NoCall
    BY <1>5, <2>4 DEF RoomFor, Sharing!NoCall
  <2>5. CASE call[r] # Sharing!NoCall
    <3>1. ~Sharing!Moves \/ call[r].todo \in {Sharing!Queries, {}}
      BY <1>5, <2>5 DEF Sharing!Overtaken
    <3>2. ~Sharing!Moves => granted' \subseteq granted /\ Sharing!Invited' \subseteq Sharing!Invited
      BY DEF Sharing!Moves
    <3>3. Sharing!TeamPeople' \subseteq Sharing!TeamPeople
      BY <1>1 DEF Sharing!TeamPeople
    <3>4. ~Sharing!Moves /\ Covered(r) => Covered(r)'
      BY <1>5, <3>2, <3>3 DEF Covered
    <3>5. call[r].todo = Sharing!Queries => Covered(r)'
      BY <1>5 DEF Covered, Sharing!Queries
    <3>6. /\ call[r].pc \in {"count", "capacity"} /\ call[r].todo = {}
               => Sharing!Seats' \subseteq call[r].users \cup call[r].open
          /\ call[r].pc \in {"count", "capacity"} /\ call[r].todo # {} => Covered(r)'
      BY <1>1, <1>5, <3>1, <3>4, <3>5 DEF RoomFor
    <3> QED
      BY <1>1, <1>5, <2>2, <2>3, <3>6 DEF RoomFor
  <2> QED
    BY <2>4, <2>5
<1> QED
  BY <1>3, <1>4, <1>5 DEF Fits

LEMMA InvitedChange ==
  ASSUME RowsFit, NEW k \in Sharing!Kinds, NEW u \in People, NEW row \in Sharing!Invites,
         Sharing!SetInvite(k, u, row)
  PROVE  /\ Sharing!Invited' \subseteq Sharing!Invited \cup {u}
         /\ k = "team" \/ row.status # "pending" => Sharing!Invited' \subseteq Sharing!Invited
<1>1. \A v \in People :
        invite'["workspace"][v] = IF "workspace" = k /\ v = u THEN row ELSE invite["workspace"][v]
  BY InviteChange DEF Sharing!Kinds
<1> QED
  BY <1>1 DEF Sharing!Invited, Sharing!Live, Sharing!Pending

\* The collaborators a statement makes are those it has found room for.
LEMMA WritesFit ==
  ASSUME SharingInv, SharingInv', Fits({}), NEW r \in Handlers, RoomFor(r),
         \/ Sharing!InviteWrite(r) \/ Sharing!AcceptCommit(r) \/ Sharing!DeclineWrite(r)
         \/ Sharing!LeaveWrite(r) \/ Sharing!CreateMember(r) \/ Sharing!AddTeamWrite(r)
  PROVE  Fits({})'
<1> USE DEF SharingInv
<1>1. ASSUME NEW S \in SUBSET Everyone, Sharing!Seats' \subseteq Sharing!Seats \cup S, Fits(S)
      PROVE  Fits({})'
  <2>1. IsFiniteSet(Everyone) /\ Sharing!Seats \cup S \in SUBSET Everyone
    BY SeatsAreFinite
  <2>2. Sharing!Seats' \in SUBSET (Sharing!Seats \cup S)
    BY <1>1
  <2>3. Cardinality(Sharing!Seats') <= MaxCollaborators
    BY <1>1, <2>1, <2>2, FewerFit DEF Fits
  <2>4. Sharing!Seats' \cup {} = Sharing!Seats'
    OBVIOUS
  <2> QED
    BY <2>3, <2>4 DEF Fits
<1>2. ASSUME Sharing!Seats' \subseteq Sharing!Seats PROVE Fits({})'
  BY <1>1, <1>2
<1> DEFINE k == call[r].kind  u == call[r].who
<1>3. call[r].pc \in {"invite", "accept", "decline"} => u \in People /\ {u} \in SUBSET Everyone
  BY DEF CallsFit, Fitting, Everyone
<1>4. k \in Sharing!Kinds
  BY DEF CallsFit, Fitting, Sharing!Calls
<1>5. u \in People => invite[k][u] \in Sharing!Invites
  BY <1>4 DEF RowsFit
<1> USE DEF Sharing!At
<1>6. CASE Sharing!InviteWrite(r)
  <2> DEFINE row == [status |-> "pending", token |-> issued + 1, live |-> TRUE]
  <2>1. CASE k = "workspace" \/ team = "live"
    <3>1. /\ Sharing!SetInvite(k, u, row) /\ issued < MaxInvites
          /\ UNCHANGED <<granted, members, attached>>
      BY <1>6, <2>1 DEF Sharing!InviteWrite
    <3>2. row \in Sharing!Invites
      BY <3>1, SharingAssumption DEF Sharing!Invites, RowsFit
    <3>3. u \in People
      BY <1>3, <1>6 DEF Sharing!InviteWrite
    <3>4. /\ Sharing!Invited' \subseteq Sharing!Invited \cup {u}
          /\ k = "team" => Sharing!Invited' \subseteq Sharing!Invited
      BY <1>4, <3>1, <3>2, <3>3, InvitedChange
    <3>5. CASE k = "workspace"
      <4>1. Fits({u})
        BY <1>6, <3>5 DEF RoomFor, Sharing!InviteWrite
      <4>2. Sharing!Seats' \subseteq Sharing!Seats \cup {u}
        BY <3>1, <3>4 DEF Sharing!Seats, Sharing!TeamPeople
      <4> QED
        BY <1>1, <1>3, <1>6, <4>1, <4>2 DEF Sharing!InviteWrite
    <3>6. CASE k = "team"
      BY <1>2, <3>1, <3>4, <3>6 DEF Sharing!Seats, Sharing!TeamPeople
    <3> QED
      BY <1>4, <3>5, <3>6 DEF Sharing!Kinds
  <2>2. CASE ~(k = "workspace" \/ team = "live")
    BY <1>2, <1>6, <2>2
       DEF Sharing!InviteWrite, Sharing!Seats, Sharing!TeamPeople, Sharing!Invited,
           Sharing!Live, Sharing!Pending
  <2> QED
    BY <2>1, <2>2
<1>7. CASE Sharing!AcceptCommit(r)
  <2> DEFINE row == [invite[k][u] EXCEPT !.status = "accepted"]
  <2>1. CASE Sharing!Acceptable(k, u, call[r].token)
    <3>1. /\ Sharing!SetInvite(k, u, row) /\ Sharing!Live(k, u)
          /\ granted' = IF k = "workspace" THEN granted \cup {u} ELSE granted
          /\ members' = IF k = "team" THEN members \cup {u} ELSE members
          /\ attached' = attached
      BY <1>7, <2>1 DEF Sharing!AcceptCommit, Sharing!Acceptable
    <3>2. u \in People
      BY <1>3, <1>7 DEF Sharing!AcceptCommit
    <3>3. row \in Sharing!Invites /\ row.status # "pending"
      BY <1>5, <3>2 DEF Sharing!Invites
    <3>4. Sharing!Invited' \subseteq Sharing!Invited
      <4> HIDE DEF k, u, row
      <4> QED
        BY <1>4, <3>1, <3>2, <3>3, InvitedChange
    <3>5. CASE k = "workspace"
      <4>1. u \in Sharing!Invited
        BY <3>1, <3>2, <3>5 DEF Sharing!Invited
      <4>2. Sharing!Seats' \subseteq Sharing!Seats
        BY <3>1, <3>4, <3>5, <4>1 DEF Sharing!Seats, Sharing!TeamPeople
      <4> QED
        BY <1>2, <4>2
    <3>6. CASE k = "team" /\ attached
      <4>1. Fits({u})
        BY <1>7, <3>6 DEF RoomFor, Sharing!AcceptCommit
      <4>2. Sharing!Seats' \subseteq Sharing!Seats \cup {u}
        BY <3>1, <3>4, <3>6 DEF Sharing!Seats, Sharing!TeamPeople
      <4> QED
        BY <1>1, <1>3, <1>7, <4>1, <4>2 DEF Sharing!AcceptCommit
    <3>7. CASE k = "team" /\ ~attached
      BY <1>2, <3>1, <3>4, <3>7 DEF Sharing!Seats, Sharing!TeamPeople
    <3> QED
      BY <1>4, <3>5, <3>6, <3>7 DEF Sharing!Kinds
  <2>2. CASE ~Sharing!Acceptable(k, u, call[r].token)
    BY <1>2, <1>7, <2>2
       DEF Sharing!AcceptCommit, Sharing!Seats, Sharing!TeamPeople, Sharing!Invited,
           Sharing!Live, Sharing!Pending
  <2> QED
    BY <2>1, <2>2
<1>8. CASE Sharing!DeclineWrite(r)
  <2> DEFINE row == [invite[k][u] EXCEPT !.status = "declined"]
  <2>1. CASE invite[k][u].status = "absent"
    BY <1>2, <1>8, <2>1
       DEF Sharing!DeclineWrite, Sharing!Seats, Sharing!TeamPeople, Sharing!Invited,
           Sharing!Live, Sharing!Pending
  <2>2. CASE invite[k][u].status # "absent"
    <3>1. Sharing!SetInvite(k, u, row) /\ UNCHANGED <<granted, members, attached>>
      BY <1>8, <2>2 DEF Sharing!DeclineWrite
    <3>2. u \in People
      BY <1>3, <1>8 DEF Sharing!DeclineWrite
    <3>3. row \in Sharing!Invites /\ row.status # "pending"
      BY <1>5, <3>2 DEF Sharing!Invites
    <3>4. Sharing!Invited' \subseteq Sharing!Invited
      <4> HIDE DEF k, u, row
      <4> QED
        BY <1>4, <3>1, <3>2, <3>3, InvitedChange
    <3> QED
      BY <1>2, <3>1, <3>4 DEF Sharing!Seats, Sharing!TeamPeople
  <2> QED
    BY <2>1, <2>2
<1>9. CASE Sharing!LeaveWrite(r)
  BY <1>2, <1>9
     DEF Sharing!LeaveWrite, Sharing!Seats, Sharing!TeamPeople, Sharing!Invited, Sharing!Live,
         Sharing!Pending, Sharing!tokens
<1>10. CASE Sharing!CreateMember(r)
  <2>1. attached => Owner \in members
    BY DEF RowsFit
  <2> QED
    BY <1>2, <1>10, <2>1
       DEF Sharing!CreateMember, Sharing!Seats, Sharing!TeamPeople, Sharing!Invited,
           Sharing!Live, Sharing!Pending, Sharing!tokens
<1>11. CASE Sharing!AddTeamWrite(r)
  <2>1. Fits(members) /\ members \in SUBSET Everyone
    BY <1>11 DEF RoomFor, Sharing!AddTeamWrite, RowsFit, Everyone
  <2>2. Sharing!Seats' \subseteq Sharing!Seats \cup members
    BY <1>11
       DEF Sharing!AddTeamWrite, Sharing!Seats, Sharing!TeamPeople, Sharing!Invited,
           Sharing!Live, Sharing!Pending, Sharing!tokens
  <2> QED
    BY <1>1, <2>1, <2>2
<1> QED
  BY <1>6, <1>7, <1>8, <1>9, <1>10, <1>11

\* Nothing that a handler goes by has changed: it has begun, or looked.
Looked(r) ==
  /\ UNCHANGED <<invite, granted, members, attached>>
  /\ \A q \in Handlers \ {r} : call'[q] = call[q]
  /\ RoomFor(r)'

LEMMA BeginningsLook ==
  ASSUME SharingInv, Fits({}), NEW r \in Handlers,
         \/ Sharing!CreateTeam(r) \/ Sharing!AddTeamBegin(r)
         \/ \E u \in People :
              \/ Sharing!LeaveBegin(r, u) \/ Sharing!InviteBegin(r, u)
              \/ \E known \in BOOLEAN : Sharing!InviteMember(r, u, known)
              \/ \E k \in Sharing!Kinds :
                   Sharing!AcceptBegin(r, k, u) \/ Sharing!DeclineBegin(r, k, u)
  PROVE  Looked(r)
<1> USE DEF Looked, RoomFor, Covered, Sharing!Queries, Sharing!Begin, Sharing!NoCall,
            Sharing!rows
<1>1. DOMAIN call = Handlers
  BY DEF SharingInv, CallsFit
<1>2. CASE Sharing!CreateTeam(r)
  BY <1>1, <1>2 DEF Sharing!CreateTeam
<1>3. CASE Sharing!AddTeamBegin(r)
  BY <1>1, <1>3 DEF Sharing!AddTeamBegin
<1>4. ASSUME NEW u \in People, Sharing!LeaveBegin(r, u) PROVE Looked(r)
  BY <1>1, <1>4 DEF Sharing!LeaveBegin
<1>5. ASSUME NEW u \in People, Sharing!InviteBegin(r, u) PROVE Looked(r)
  <2>1. CASE u \in granted
    <3>1. /\ call'[r].pc = "invite" /\ call'[r].kind = "workspace" /\ call'[r].who = u
          /\ UNCHANGED <<invite, granted, members, attached>>
          /\ \A q \in Handlers \ {r} : call'[q] = call[q]
      BY <1>1, <1>5, <2>1 DEF Sharing!InviteBegin
    <3>2. Sharing!Seats' = Sharing!Seats /\ Sharing!Seats \cup {u} = Sharing!Seats \cup {}
      BY <2>1, <3>1
         DEF Sharing!Seats, Sharing!TeamPeople, Sharing!Invited, Sharing!Live, Sharing!Pending
    <3>3. Fits({call[r].who})'
      BY <3>1, <3>2 DEF Fits
    <3> QED
      BY <3>1, <3>3
  <2>2. CASE u \notin granted
    BY <1>1, <1>5, <2>2 DEF Sharing!InviteBegin
  <2> QED
    BY <2>1, <2>2
<1>6. ASSUME NEW u \in People, NEW known \in BOOLEAN, Sharing!InviteMember(r, u, known)
      PROVE  Looked(r)
  BY <1>1, <1>6 DEF Sharing!InviteMember
<1>7. ASSUME NEW u \in People, NEW k \in Sharing!Kinds, Sharing!AcceptBegin(r, k, u)
      PROVE  Looked(r)
  BY <1>1, <1>7 DEF Sharing!AcceptBegin
<1>8. ASSUME NEW u \in People, NEW k \in Sharing!Kinds, Sharing!DeclineBegin(r, k, u)
      PROVE  Looked(r)
  BY <1>1, <1>8 DEF Sharing!DeclineBegin
<1> QED
  BY <1>2, <1>3, <1>4, <1>5, <1>6, <1>7, <1>8

LEMMA CountsLook ==
  ASSUME SharingInv, Fits({}), NEW r \in Handlers, RoomFor(r),
         \/ Sharing!InviteInvolved(r) \/ Sharing!Query(r) \/ Sharing!InviteCount(r)
         \/ Sharing!ReadAttached(r) \/ Sharing!Capacity(r) \/ Sharing!Crash(r)
  PROVE  Looked(r)
<1> DEFINE u == call[r].who
<1>1. DOMAIN call = Handlers /\ call[r] \in Fitting
  BY DEF SharingInv, CallsFit
<1>2. UNCHANGED <<invite, granted, members, attached>>
  BY DEF Sharing!InviteInvolved, Sharing!Query, Sharing!InviteCount, Sharing!ReadAttached,
         Sharing!Capacity, Sharing!Crash, Sharing!rows
<1>3. Sharing!Seats' = Sharing!Seats
  BY <1>2 DEF Sharing!Seats, Sharing!TeamPeople, Sharing!Invited, Sharing!Live, Sharing!Pending
<1>4. \A q \in Handlers \ {r} : call'[q] = call[q]
  BY <1>1
     DEF Sharing!InviteInvolved, Sharing!Query, Sharing!Reads, Sharing!InviteCount,
         Sharing!ReadAttached, Sharing!Capacity, Sharing!Crash, Sharing!Goto, Sharing!Proceed,
         Sharing!Return
<1>5. CASE Sharing!Return(r)
  BY <1>1, <1>2, <1>4, <1>5 DEF Looked, RoomFor, Sharing!Return, Sharing!NoCall
\* It goes to pc, where it counts nobody or has not begun to.
<1>6. ASSUME NEW pc, Sharing!Goto(r, pc) \/ Sharing!Proceed(r, pc),
             pc \in {"count", "capacity"}
               => Sharing!Goto(r, pc) /\ call[r].pc \notin {"count", "capacity"},
             pc = "invite" /\ call[r].kind = "workspace" => Fits({u}),
             pc = "accept" /\ call[r].kind = "team" /\ attached => Fits({u}),
             pc = "capacity" => call[r].next # "attach",
             pc = "attach" => Fits(members)
      PROVE  Looked(r)
  <2>1. /\ call'[r].pc = pc /\ call'[r].kind = call[r].kind /\ call'[r].who = u
        /\ call'[r].next = call[r].next
        /\ Sharing!Goto(r, pc) => call'[r].todo = call[r].todo
    <3>1. call[r] \in Sharing!Calls
      BY <1>1 DEF Fitting
    <3>2. CASE Sharing!Goto(r, pc)
      BY <1>1, <3>1, <3>2 DEF Sharing!Goto, Sharing!Calls
    <3>3. CASE Sharing!Proceed(r, pc) /\ ~Sharing!Goto(r, pc)
      BY <1>1, <3>1, <3>3 DEF Sharing!Proceed, Sharing!Calls
    <3> QED
      BY <1>6, <3>2, <3>3
  <2>2. Fits({u}) => Fits({call[r].who})'
    BY <1>3, <2>1 DEF Fits
  <2>3. Fits(members) => Fits(members)'
    BY <1>2, <1>3 DEF Fits
  <2>4. pc \in {"count", "capacity"} => call'[r].todo = Sharing!Queries
    BY <1>1, <1>6, <2>1 DEF Fitting
  <2>5. pc \in {"count", "capacity"} => Covered(r)' /\ call'[r].todo # {}
    BY <2>4 DEF Covered, Sharing!Queries
  <2> HIDE DEF u
  <2> QED
    BY <1>2, <1>4, <1>6, <2>1, <2>2, <2>3, <2>5 DEF Looked, RoomFor, u
<1> USE DEF Sharing!At
<1>7. CASE Sharing!InviteInvolved(r)
  <2>1. CASE u \in Sharing!Invited
    <3>1. Sharing!Seats \cup {u} = Sharing!Seats \cup {}
      BY <2>1 DEF Sharing!Seats
    <3>2. Fits({u})
      BY <3>1 DEF Fits
    <3> QED
      BY <1>6, <1>7, <2>1, <3>2 DEF Sharing!InviteInvolved
  <2>2. CASE u \notin Sharing!Invited
    BY <1>6, <1>7, <2>2 DEF Sharing!InviteInvolved
  <2> QED
    BY <2>1, <2>2
<1>8. CASE Sharing!InviteCount(r)
  <2>1. CASE Sharing!Room(r)
    <3>1. Sharing!Seats \subseteq call[r].users \cup call[r].open
      BY <1>8 DEF RoomFor, Sharing!InviteCount
    <3>2. /\ Sharing!Counted(r) \in Nat /\ Cardinality(Sharing!Seats \cup {}) \in Nat
          /\ Cardinality(Sharing!Seats \cup {}) <= Sharing!Counted(r)
      BY <3>1, CountCovers DEF SharingInv
    <3>3. IsFiniteSet(Sharing!Seats)
      BY SeatsAreFinite, FS_Subset DEF SharingInv
    <3>4. Sharing!Seats \cup {} = Sharing!Seats
      OBVIOUS
    <3>5. Cardinality(Sharing!Seats) \in Nat /\ Cardinality(Sharing!Seats) < MaxCollaborators
      BY <2>1, <3>2, <3>4, SharingAssumption DEF Sharing!Room
    <3>6. \/ Cardinality(Sharing!Seats \cup {u}) = Cardinality(Sharing!Seats)
          \/ Cardinality(Sharing!Seats \cup {u}) = Cardinality(Sharing!Seats) + 1
      BY <3>3, FS_AddElement
    <3>7. Fits({u})
      BY <3>5, <3>6, SharingAssumption DEF Fits
    <3> QED
      BY <1>6, <1>8, <2>1, <3>7 DEF Sharing!InviteCount
  <2>2. CASE ~Sharing!Room(r)
    BY <1>5, <1>8, <2>2 DEF Sharing!InviteCount
  <2> QED
    BY <2>1, <2>2
<1>9. CASE Sharing!ReadAttached(r)
  <2>1. call[r].kind = "team" /\ call[r].next \in {"invite", "accept"}
    BY <1>1, <1>9 DEF Sharing!ReadAttached, Fitting
  <2>2. CASE attached
    BY <1>6, <1>9, <2>1, <2>2 DEF Sharing!ReadAttached
  <2>3. CASE ~attached
    BY <1>6, <1>9, <2>1, <2>3 DEF Sharing!ReadAttached
  <2> QED
    BY <2>2, <2>3
<1>10. CASE Sharing!Capacity(r)
  <2>1. CASE Sharing!Counted(r) > MaxCollaborators
    BY <1>5, <1>10, <2>1 DEF Sharing!Capacity
  <2>2. CASE ~(Sharing!Counted(r) > MaxCollaborators)
    <3>1. Sharing!Seats \subseteq call[r].users \cup call[r].open
      BY <1>10 DEF RoomFor, Sharing!Capacity
    <3>2. ASSUME NEW extra \in SUBSET call[r].users PROVE Fits(extra)
      BY <2>2, <3>1, CountCovers, SharingAssumption DEF SharingInv, Fits
    <3>3. call[r].next \in {"invite", "accept"} => call[r].kind = "team" /\ Fits({u})
      BY <1>1, <1>10, <3>2 DEF Sharing!Capacity, Fitting
    <3>4. call[r].next = "attach" => Fits(members)
      BY <1>10, <3>2 DEF Sharing!Capacity, RoomFor
    <3>5. call[r].next \in {"invite", "accept", "attach"}
      BY <1>1, <1>10 DEF Sharing!Capacity, Fitting
    <3> QED
      BY <1>6, <1>10, <2>2, <3>3, <3>4, <3>5 DEF Sharing!Capacity
  <2> QED
    BY <2>1, <2>2
<1>11. CASE Sharing!Crash(r)
  BY <1>5, <1>11 DEF Sharing!Crash
<1>12. CASE Sharing!Query(r)
  <2>1. ASSUME NEW q \in Sharing!Queries, NEW users, NEW open, Sharing!Reads(r, q, users, open),
               Sharing!Query(r)
        PROVE  /\ call'[r].todo = call[r].todo \ {q}
               /\ call'[r].users = call[r].users \cup users
               /\ call'[r].open = call[r].open \cup open
               /\ call'[r].pc = call[r].pc /\ call'[r].next = call[r].next
               /\ call[r].todo # {}
    BY <1>1, <2>1 DEF Sharing!Reads, Fitting, Sharing!Calls
  <2>2. call[r].pc \in {"count", "capacity"}
    BY <1>12 DEF Sharing!Query
  <2>3. PICK q, users, open :
          /\ q \in Sharing!Queries /\ Sharing!Reads(r, q, users, open)
          /\ q = "direct" => users = granted
          /\ q = "team" => users = Sharing!TeamPeople
          /\ q = "pending" => open = Sharing!Invited
    BY <1>12 DEF Sharing!Query, Sharing!Queries
  <2>4. Covered(r) /\ call[r].todo # {}
    BY <1>12, <2>1, <2>2, <2>3 DEF RoomFor
  <2>5. Covered(r)'
    <3>1. Sharing!TeamPeople' = Sharing!TeamPeople /\ Sharing!Invited' = Sharing!Invited
      BY <1>2 DEF Sharing!TeamPeople, Sharing!Invited, Sharing!Live, Sharing!Pending
    <3> QED
      BY <1>2, <1>12, <2>1, <2>3, <2>4, <3>1 DEF Covered
  <2>6. call'[r].todo = {} => Sharing!Seats' \subseteq call'[r].users \cup call'[r].open
    BY <2>5 DEF Covered, Sharing!Seats
  <2>7. call[r].next = "attach" /\ call[r].pc = "capacity" => members' \subseteq call'[r].users
    BY <1>2, <1>12, <2>1, <2>3 DEF RoomFor
  <2> QED
    BY <1>2, <1>4, <1>12, <2>1, <2>2, <2>3, <2>5, <2>6, <2>7 DEF Looked, RoomFor
<1> QED
  BY <1>7, <1>8, <1>9, <1>10, <1>11, <1>12

\* What goes on without a handler only takes away.
LEMMA OthersTakeAway ==
  ASSUME SharingInv,
         \/ Sharing!DeleteTeam \/ Sharing!RemoveTeam
         \/ \E u \in People :
              \/ Sharing!RemoveUser(u) \/ Sharing!RemoveTeamMember(u)
              \/ \E k \in Sharing!Kinds : Sharing!CancelInvite(k, u) \/ Sharing!Expire(k, u)
  PROVE  ~Sharing!Grows /\ call' = call
<1> USE DEF SharingInv
<1>1. ASSUME Sharing!Invited' \subseteq Sharing!Invited, granted' \subseteq granted,
             members' \subseteq members, attached' => attached
      PROVE  ~Sharing!Grows
  BY <1>1 DEF Sharing!Grows, Sharing!Seats, Sharing!TeamPeople
<1>2. invite' = invite => Sharing!Invited' = Sharing!Invited
  BY DEF Sharing!Invited, Sharing!Live, Sharing!Pending
<1>3. CASE Sharing!DeleteTeam
  <2>1. Sharing!Invited' = Sharing!Invited
    BY <1>3 DEF RowsFit, Sharing!DeleteTeam, Sharing!Invited, Sharing!Live, Sharing!Pending,
                Sharing!Kinds
  <2> QED
    BY <1>1, <1>3, <2>1 DEF Sharing!DeleteTeam
<1>4. CASE Sharing!RemoveTeam
  BY <1>1, <1>2, <1>4 DEF Sharing!RemoveTeam
<1>5. ASSUME NEW u \in People, Sharing!RemoveUser(u) \/ Sharing!RemoveTeamMember(u)
      PROVE  ~Sharing!Grows /\ call' = call
  BY <1>1, <1>2, <1>5 DEF Sharing!RemoveUser, Sharing!RemoveTeamMember
<1>6. ASSUME NEW u \in People, NEW k \in Sharing!Kinds, Sharing!CancelInvite(k, u)
      PROVE  ~Sharing!Grows /\ call' = call
  <2>1. PICK row : row = [invite[k][u] EXCEPT !.status = "cancelled"]
    OBVIOUS
  <2>2. invite[k][u] \in Sharing!Invites
    BY DEF RowsFit
  <2>3. row \in Sharing!Invites /\ row.status # "pending"
    BY <2>1, <2>2 DEF Sharing!Invites
  <2>4. Sharing!Invited' \subseteq Sharing!Invited
    BY <1>6, <2>1, <2>3, InvitedChange, ZenonT(30) DEF Sharing!CancelInvite
  <2> QED
    BY <1>1, <1>6, <2>4 DEF Sharing!CancelInvite
<1>7. ASSUME NEW u \in People, NEW k \in Sharing!Kinds, Sharing!Expire(k, u)
      PROVE  ~Sharing!Grows /\ call' = call
  <2>1. PICK row : row = [invite[k][u] EXCEPT !.live = FALSE]
    OBVIOUS
  <2>2. invite[k][u] \in Sharing!Invites
    BY DEF RowsFit
  <2>3. row \in Sharing!Invites /\ ~row.live
    BY <2>1, <2>2 DEF Sharing!Invites
  <2>4. \A v \in People : invite'["workspace"][v] \in {row, invite["workspace"][v]}
    BY <1>7, <2>1, <2>3, InviteChange DEF Sharing!Expire, Sharing!Kinds
  <2>5. Sharing!Invited' \subseteq Sharing!Invited
    BY <2>3, <2>4 DEF Sharing!Invited, Sharing!Live, Sharing!Pending
  <2> QED
    BY <1>1, <1>7, <2>5 DEF Sharing!Expire
<1> QED
  BY <1>3, <1>4, <1>5, <1>6, <1>7

LEMMA SeatsStep ==
  ASSUME SeatsInv, SharingInv', Sharing!Next
  PROVE  SeatsInv'
<1> SUFFICES ASSUME ~raced' PROVE Fits({})' /\ \A r \in Handlers : RoomFor(r)'
  BY DEF SeatsInv
<1> SharingInv /\ CallsFit /\ RowsFit /\ RowsFit'
  BY DEF SeatsInv, SharingInv
<1>1. /\ Fits({}) /\ \A r \in Handlers : RoomFor(r)
      /\ \A r \in Handlers : ~Sharing!Overtaken(r)
      /\ Sharing!Grows => \A r \in Handlers : call'[r] = call[r] => call[r] = Sharing!NoCall
  BY DEF SeatsInv, Sharing!Next, Sharing!Overtaken
<1>2. ASSUME NEW r \in Handlers, call'[r] = Sharing!NoCall PROVE RoomFor(r)'
  BY <1>2 DEF RoomFor, Sharing!NoCall
<1>3. ASSUME NEW r \in Handlers, \A q \in Handlers \ {r} : call'[q] = call[q],
             call'[r] = Sharing!NoCall, Fits({})'
      PROVE  Fits({})' /\ \A q \in Handlers : RoomFor(q)'
  <2>1. CASE Sharing!Grows
    BY <1>1, <1>2, <1>3, <2>1
  <2>2. CASE ~Sharing!Grows
    BY <1>1, <1>2, <1>3, <2>2, StillFits
  <2> QED
    BY <2>1, <2>2
<1>4. ASSUME NEW r \in Handlers, Looked(r)
      PROVE  Fits({})' /\ \A q \in Handlers : RoomFor(q)'
  <2>1. ~Sharing!Grows
    BY <1>4 DEF Looked, Sharing!Grows, Sharing!Seats, Sharing!TeamPeople, Sharing!Invited,
                Sharing!Live, Sharing!Pending
  <2> QED
    BY <1>1, <1>4, <2>1, StillFits DEF Looked
<1>5. ASSUME ~Sharing!Grows, call' = call
      PROVE  Fits({})' /\ \A q \in Handlers : RoomFor(q)'
  BY <1>1, <1>5, StillFits
<1>6. ASSUME NEW r \in Handlers,
             \/ Sharing!InviteWrite(r) \/ Sharing!AcceptCommit(r) \/ Sharing!DeclineWrite(r)
             \/ Sharing!LeaveWrite(r) \/ Sharing!CreateMember(r) \/ Sharing!AddTeamWrite(r)
      PROVE  Fits({})' /\ \A q \in Handlers : RoomFor(q)'
  <2>1. Fits({})'
    BY <1>1, <1>6, WritesFit
  <2>2. Sharing!Return(r)
    BY <1>6
       DEF Sharing!InviteWrite, Sharing!AcceptCommit, Sharing!DeclineWrite,
           Sharing!LeaveWrite, Sharing!CreateMember, Sharing!AddTeamWrite
  <2> QED
    BY <1>3, <2>1, <2>2 DEF Sharing!Return, CallsFit
<1>7. ASSUME NEW r \in Handlers, Sharing!Handling(r)
      PROVE  Fits({})' /\ \A q \in Handlers : RoomFor(q)'
  BY <1>1, <1>4, <1>6, <1>7, CountsLook DEF Sharing!Handling
<1>8. ASSUME NEW r \in Handlers,
             \/ Sharing!CreateTeam(r) \/ Sharing!AddTeamBegin(r) \/ Sharing!Crash(r)
             \/ \E u \in People :
                  \/ Sharing!LeaveBegin(r, u) \/ Sharing!InviteBegin(r, u)
                  \/ \E known \in BOOLEAN : Sharing!InviteMember(r, u, known)
                  \/ \E k \in Sharing!Kinds :
                       Sharing!AcceptBegin(r, k, u) \/ Sharing!DeclineBegin(r, k, u)
      PROVE  Fits({})' /\ \A q \in Handlers : RoomFor(q)'
  <2>1. CASE Sharing!Crash(r)
    BY <1>1, <1>4, <2>1, CountsLook
  <2>2. CASE ~Sharing!Crash(r)
    BY <1>1, <1>4, <1>8, <2>2, BeginningsLook
  <2> QED
    BY <2>1, <2>2
<1> QED
  BY <1>5, <1>7, <1>8, OthersTakeAway DEF Sharing!Next, Sharing!Step

\* SeatsAreLimited: those who have access or an invitation to a workspace are never
\* more than the limit, as long as no collaborator is made under a handler in flight,
\* nor moved from one table to another between the queries of its count.
THEOREM SeatsStayLimited == Sharing!Spec => []SeatsAreLimited
<1>1. Sharing!Init => SeatsInv
  <2> SUFFICES ASSUME Sharing!Init PROVE SeatsInv
    OBVIOUS
  <2>1. Sharing!Seats \cup {} = {}
    BY DEF Sharing!Init, Sharing!Seats, Sharing!TeamPeople, Sharing!Invited, Sharing!Live,
           Sharing!Pending, Sharing!NoInvite, Sharing!Kinds
  <2>2. Fits({})
    BY <2>1, FS_EmptySet, SharingAssumption DEF Fits
  <2>3. \A r \in Handlers : RoomFor(r)
    BY DEF Sharing!Init, RoomFor, Sharing!NoCall
  <2> QED
    BY <2>2, <2>3, SharingInitially DEF SeatsInv
<1>2. ASSUME SeatsInv, SharingInv', [Sharing!Next]_(Sharing!vars) PROVE SeatsInv'
  <2>1. CASE UNCHANGED Sharing!vars
    BY <1>2, <2>1
       DEF SeatsInv, Fits, RoomFor, Covered, Sharing!Seats, Sharing!TeamPeople,
           Sharing!Invited, Sharing!Live, Sharing!Pending, Sharing!vars, Sharing!rows,
           Sharing!tokens
  <2> QED
    BY <1>2, <2>1, SeatsStep
<1>3. SeatsInv => SeatsAreLimited
  <2>1. Sharing!Seats \cup {} = Sharing!Seats
    OBVIOUS
  <2> QED
    BY <2>1, SharingCardinality
       DEF SeatsInv, Fits, SeatsAreLimited, Sharing!SeatsAreLimited
<1> QED
  BY <1>1, <1>2, <1>3, SharingInvariance, PTL DEF Sharing!Spec
-----------------------------------------------------------------------------
(* ModelCredentials: what each handler remembers, and the rows.            *)

\* A handler whose statement goes by an id has one.
AskedCalls ==
  {c \in Credentials!Calls :
     /\ c.pc \in {"write", "promote", "set", "provider", "save"} => c.id \in Credentials!Ids
     /\ c.pc \in {"provider", "save"} <=> c.op = "refresh"
     /\ c.pc \in {"find", "promote", "set"} => c.wrote}

CredentialsTyped ==
  /\ cred \in [Credentials!Ids -> Credentials!Rows]
  /\ count \in 0..MaxCredentials
  /\ \A i \in Credentials!Ids : Credentials!Stored(i) => i <= count
  /\ current \in [Credentials!Ids -> Credentials!Tokens]
  /\ asked \in [Handlers -> AskedCalls]
  /\ \A r \in Handlers : asked[r].id <= count

\* The oldest of some credentials is one of them.
LEMMA OldestIsOne ==
  ASSUME NEW S \in SUBSET Nat, S # {}
  PROVE  Credentials!Min(S) \in S
<1> DEFINE R == OpToRel(<, Nat)
<1>1. IsWellFoundedOn(R, Nat)
  BY NatLessThanWellFounded
<1>2. \A x, y \in Nat : x < y => <<x, y>> \in R
  BY DEF OpToRel
<1> HIDE DEF R
<1>3. \E x \in S : \A y \in S : ~(<<y, x>> \in R)
  <2>1. S \subseteq Nat /\ S # {}
    OBVIOUS
  <2>2. \A Q, U, T : IsWellFoundedOn(Q, U) /\ T \subseteq U /\ T # {}
                     => \E x \in T : \A y \in T : ~(<<y, x>> \in Q)
    BY WFMin
  <2> QED
    BY <1>1, <2>1, <2>2, ZenonT(30)
<1>4. PICK x \in S : \A y \in S : ~(<<y, x>> \in R)
  BY <1>3
<1>5. ASSUME NEW y \in S PROVE x <= y
  <2>1. x \in Nat /\ y \in Nat /\ ~(y < x)
    BY <1>2, <1>4
  <2> QED
    BY <2>1
<1> QED
  BY <1>5 DEF Credentials!Min

\* The calls that go by an id.
Asked(i) == {c \in AskedCalls : c.id = i}

LEMMA NoCallIsAsked == Credentials!NoCall \in Credentials!Calls /\ Credentials!NoCall \in Asked(0)
BY CredentialsAssumption
   DEF Asked, AskedCalls, Credentials!NoCall, Credentials!Calls, Credentials!Tokens

\* What a handler becomes when it starts, and when it goes on.
LEMMA AskedStarts ==
  /\ \A b \in BOOLEAN :
       [Credentials!NoCall EXCEPT !.op = "store", !.pc = "insert", !.default = b] \in Asked(0)
  /\ \A i \in Credentials!Ids, b \in BOOLEAN, op \in {"revoke", "delete"} :
       [Credentials!NoCall EXCEPT !.op = op, !.pc = "write", !.id = i, !.default = b] \in Asked(i)
  /\ \A i \in Credentials!Ids :
       [Credentials!NoCall EXCEPT !.op = "default", !.pc = "write", !.id = i] \in Asked(i)
  /\ \A i \in Credentials!Ids, t \in Credentials!Tokens :
       [Credentials!NoCall EXCEPT !.op = "refresh", !.pc = "provider", !.id = i,
                                  !.token = t] \in Asked(i)
<1> USE NoCallIsAsked DEF Asked, AskedCalls, Credentials!Calls
<1>1. ASSUME NEW b \in BOOLEAN
      PROVE  [Credentials!NoCall EXCEPT !.op = "store", !.pc = "insert", !.default = b] \in Asked(0)
  OBVIOUS
<1>2. ASSUME NEW i \in Credentials!Ids, NEW b \in BOOLEAN, NEW op \in {"revoke", "delete"}
      PROVE  [Credentials!NoCall EXCEPT !.op = op, !.pc = "write", !.id = i, !.default = b] \in Asked(i)
  OBVIOUS
<1>3. ASSUME NEW i \in Credentials!Ids
      PROVE  [Credentials!NoCall EXCEPT !.op = "default", !.pc = "write", !.id = i] \in Asked(i)
  OBVIOUS
<1>4. ASSUME NEW i \in Credentials!Ids, NEW t \in Credentials!Tokens
      PROVE  [Credentials!NoCall EXCEPT !.op = "refresh", !.pc = "provider", !.id = i,
                                        !.token = t] \in Asked(i)
  OBVIOUS
<1> QED
  BY <1>1, <1>2, <1>3, <1>4

LEMMA AskedGoesOn ==
  ASSUME NEW c \in AskedCalls
  PROVE  /\ c.op # "refresh" =>
              /\ [c EXCEPT !.pc = "find", !.wrote = TRUE] \in Asked(c.id)
              /\ c.id \in Credentials!Ids => [c EXCEPT !.pc = "set", !.wrote = TRUE] \in Asked(c.id)
         /\ c.pc = "find" => \A i \in Credentials!Ids :
                               [c EXCEPT !.pc = "promote", !.id = i] \in Asked(i)
         /\ c.pc = "provider" => \A t \in Credentials!Tokens :
                                   [c EXCEPT !.pc = "save", !.token = t] \in Asked(c.id)
<1> USE DEF Asked, AskedCalls, Credentials!Calls
<1>1. ASSUME c.op # "refresh"
      PROVE  /\ [c EXCEPT !.pc = "find", !.wrote = TRUE] \in Asked(c.id)
             /\ c.id \in Credentials!Ids => [c EXCEPT !.pc = "set", !.wrote = TRUE] \in Asked(c.id)
  BY <1>1
<1>2. ASSUME c.pc = "find", NEW i \in Credentials!Ids
      PROVE  [c EXCEPT !.pc = "promote", !.id = i] \in Asked(i)
  BY <1>2
<1>3. ASSUME c.pc = "provider", NEW t \in Credentials!Tokens
      PROVE  [c EXCEPT !.pc = "save", !.token = t] \in Asked(c.id)
  BY <1>3
<1> QED
  BY <1>1, <1>2, <1>3

\* What one statement makes of the rows keeps their type.
LEMMA RowUpdates ==
  ASSUME CredentialsTyped, NEW i \in Credentials!Ids, Credentials!Stored(i)
  PROVE  /\ [cred EXCEPT ![i].default = TRUE] \in [Credentials!Ids -> Credentials!Rows]
         /\ [cred EXCEPT ![i].state = "revoked", ![i].default = FALSE]
              \in [Credentials!Ids -> Credentials!Rows]
         /\ \A t \in Credentials!Tokens :
              [cred EXCEPT ![i].token = t] \in [Credentials!Ids -> Credentials!Rows]
BY DEF CredentialsTyped, Credentials!Rows

LEMMA CredentialsStep ==
  ASSUME CredentialsTyped, Credentials!Next
  PROVE  CredentialsTyped'
<1> USE DEF CredentialsTyped, Credentials!Begin, Credentials!Return, Credentials!At
<1>1. /\ \A r \in Handlers : asked[r] \in AskedCalls /\ asked[r].id <= count
      /\ Credentials!NoCall \in Asked(0) /\ 0 <= count
  BY NoCallIsAsked
\* A handler goes on, and the rows that were there may change.
<1>2. ASSUME NEW r \in Handlers, cred' \in [Credentials!Ids -> Credentials!Rows],
             \A i \in Credentials!Ids : Credentials!Stored(i)' => Credentials!Stored(i),
             current' \in [Credentials!Ids -> Credentials!Tokens], count' = count,
             NEW i \in {0} \cup Credentials!Ids, i <= count,
             NEW c \in Asked(i), asked' = [asked EXCEPT ![r] = c]
      PROVE  CredentialsTyped'
  <2>1. c \in AskedCalls /\ c.id <= count
    BY <1>2 DEF Asked
  <2> QED
    BY <1>2, <2>1
<1>3. UNCHANGED cred => /\ cred' \in [Credentials!Ids -> Credentials!Rows]
                        /\ \A i \in Credentials!Ids :
                             Credentials!Stored(i)' => Credentials!Stored(i)
  BY DEF Credentials!Stored
<1>4. ASSUME NEW r \in Handlers, UNCHANGED <<cred, count, current>>, Credentials!Return(r)
      PROVE  CredentialsTyped'
  BY <1>1, <1>2, <1>3, <1>4
<1>5. ASSUME NEW r \in Handlers, Credentials!StoreBegin(r) PROVE CredentialsTyped'
  <2>1. PICK b \in BOOLEAN : b <=> Credentials!Defaults # {}
    OBVIOUS
  <2>2. /\ asked' = [asked EXCEPT ![r] = [Credentials!NoCall EXCEPT !.op = "store",
                                             !.pc = "insert", !.default = b]]
        /\ UNCHANGED <<cred, count, current>>
    BY <1>5, <2>1 DEF Credentials!StoreBegin
  <2>3. [Credentials!NoCall EXCEPT !.op = "store", !.pc = "insert", !.default = b] \in Asked(0)
    BY AskedStarts
  <2> QED
    BY <1>1, <1>2, <1>3, <2>2, <2>3
<1>6. ASSUME NEW r \in Handlers, NEW i \in Credentials!Ids, NEW op \in {"revoke", "delete"},
             Credentials!RemoveBegin(r, op, i)
      PROVE  CredentialsTyped'
  <2>1. cred[i].default \in BOOLEAN
    BY DEF Credentials!Rows
  <2> QED
    BY <1>2, <1>3, <1>6, <2>1, AskedStarts DEF Credentials!RemoveBegin
<1>7. ASSUME NEW r \in Handlers, NEW i \in Credentials!Ids, Credentials!DefaultBegin(r, i)
      PROVE  CredentialsTyped'
  <2>1. Credentials!Stored(i)
    BY <1>7 DEF Credentials!DefaultBegin, Credentials!Active, Credentials!Stored
  <2> QED
    BY <1>2, <1>3, <1>7, <2>1, AskedStarts DEF Credentials!DefaultBegin
<1>8. ASSUME NEW r \in Handlers, NEW i \in Credentials!Ids, Credentials!RefreshBegin(r, i)
      PROVE  CredentialsTyped'
  <2>1. cred[i].token \in Credentials!Tokens
    BY DEF Credentials!Rows
  <2> QED
    BY <1>2, <1>3, <1>8, <2>1, AskedStarts DEF Credentials!RefreshBegin
<1>9. ASSUME NEW r \in Handlers, Credentials!StoreInsert(r) PROVE CredentialsTyped'
  <2> DEFINE i == count + 1
             new == [state |-> "active", default |-> ~asked[r].default, token |-> 1]
             rows == [cred EXCEPT ![i] = new]
  <2>1. i \in Credentials!Ids /\ count < MaxCredentials
    BY <1>9, CredentialsAssumption DEF Credentials!StoreInsert, Credentials!Ids
  <2>2. 1 \in Credentials!Tokens
    BY CredentialsAssumption DEF Credentials!Tokens
  <2>3. new \in Credentials!Rows
    BY <2>2 DEF Credentials!Rows
  <2>4. CASE ~Credentials!Allowed(rows)
    BY <1>4, <1>9, <2>4 DEF Credentials!StoreInsert
  <2>5. CASE Credentials!Allowed(rows)
    <3>1. /\ cred' = rows /\ count' = i /\ current' = [current EXCEPT ![i] = 1]
          /\ Credentials!Return(r)
      BY <1>9, <2>5 DEF Credentials!StoreInsert
    <3>2. /\ cred' \in [Credentials!Ids -> Credentials!Rows]
          /\ current' \in [Credentials!Ids -> Credentials!Tokens]
          /\ count' \in 0..MaxCredentials
      <4>1. cred' \in [Credentials!Ids -> Credentials!Rows]
        BY <2>1, <2>3, <3>1
      <4>2. current' \in [Credentials!Ids -> Credentials!Tokens]
        BY <2>1, <2>2, <3>1
      <4>3. count' \in 0..MaxCredentials
        BY <2>1, <3>1 DEF Credentials!Ids
      <4> QED
        BY <4>1, <4>2, <4>3
    <3>3. \A j \in Credentials!Ids : Credentials!Stored(j)' => j <= count'
      BY <2>1, <3>1 DEF Credentials!Stored, Credentials!Ids
    <3>4. asked' \in [Handlers -> AskedCalls] /\ \A q \in Handlers : asked'[q].id <= count'
      <4>1. \A q \in Handlers : asked[q].id <= count + 1
        <5>1. \A q \in Handlers : asked[q].id \in {0} \cup Credentials!Ids
          BY DEF AskedCalls, Credentials!Calls
        <5> QED
          BY <5>1 DEF Credentials!Ids
      <4>2. Credentials!NoCall \in AskedCalls /\ Credentials!NoCall.id = 0
        BY NoCallIsAsked DEF Asked
      <4>3. \A q \in Handlers : asked'[q] = IF q = r THEN Credentials!NoCall ELSE asked[q]
        BY <3>1
      <4>4. 0 <= count + 1
        OBVIOUS
      <4> QED
        BY <3>1, <4>1, <4>2, <4>3, <4>4
    <3> QED
      BY <3>2, <3>3, <3>4
  <2> QED
    BY <2>4, <2>5
<1>10. ASSUME NEW r \in Handlers, Credentials!RemoveWrite(r) PROVE CredentialsTyped'
  <2>1. asked[r].id \in Credentials!Ids /\ asked[r].op # "refresh"
    BY <1>10 DEF Credentials!RemoveWrite, AskedCalls
  <2>2. Credentials!NoRow \in Credentials!Rows
    BY CredentialsAssumption DEF Credentials!NoRow, Credentials!Rows, Credentials!Tokens
  <2>3. /\ cred' \in [Credentials!Ids -> Credentials!Rows]
        /\ \A i \in Credentials!Ids : Credentials!Stored(i)' => Credentials!Stored(i)
    <3>1. CASE cred' = [cred EXCEPT ![asked[r].id] = Credentials!NoRow]
      BY <2>1, <2>2, <3>1 DEF Credentials!Stored, Credentials!NoRow
    <3>2. CASE /\ Credentials!Stored(asked[r].id)
               /\ cred' = [cred EXCEPT ![asked[r].id].state = "revoked",
                                       ![asked[r].id].default = FALSE]
      BY <2>1, <3>2, RowUpdates DEF Credentials!Stored
    <3> QED
      BY <1>10, <3>1, <3>2 DEF Credentials!RemoveWrite, Credentials!Removed
  <2>4. UNCHANGED <<count, current>>
    BY <1>10 DEF Credentials!RemoveWrite
  <2>5. CASE Credentials!Return(r)
    BY <1>1, <1>2, <2>3, <2>4, <2>5
  <2>6. CASE Credentials!Wrote(r, "find")
    <3>1. asked' = [asked EXCEPT ![r] = [asked[r] EXCEPT !.pc = "find", !.wrote = TRUE]]
      BY <2>6 DEF Credentials!Wrote
    <3>2. [asked[r] EXCEPT !.pc = "find", !.wrote = TRUE] \in Asked(asked[r].id)
      BY <1>1, <2>1, AskedGoesOn
    <3> QED
      BY <1>1, <1>2, <2>1, <2>3, <2>4, <3>1, <3>2
  <2> QED
    BY <1>10, <2>5, <2>6 DEF Credentials!RemoveWrite
<1>11. ASSUME NEW r \in Handlers, Credentials!PromoteFind(r) PROVE CredentialsTyped'
  <2> DEFINE i == Credentials!Min(Credentials!Active)
             c == [asked[r] EXCEPT !.pc = "promote", !.id = i]
  <2>1. CASE Credentials!Active = {}
    BY <1>4, <1>11, <2>1 DEF Credentials!PromoteFind
  <2>2. CASE Credentials!Active # {}
    <3>1. Credentials!Active \in SUBSET Nat
      BY CredentialsAssumption DEF Credentials!Active, Credentials!Ids
    <3>2. i \in Credentials!Active
      BY <2>2, <3>1, OldestIsOne
    <3>3. i \in Credentials!Ids /\ i <= count
      BY <3>2 DEF Credentials!Active, Credentials!Stored
    <3>4. asked' = [asked EXCEPT ![r] = c] /\ UNCHANGED <<cred, count, current>>
      BY <1>11, <2>2 DEF Credentials!PromoteFind
    <3>5. asked[r].pc = "find"
      BY <1>11 DEF Credentials!PromoteFind
    <3> HIDE DEF i
    <3>6. c \in Asked(i)
      BY <1>1, <3>3, <3>5, AskedGoesOn
    <3> QED
      BY <1>2, <1>3, <3>3, <3>4, <3>6
  <2> QED
    BY <2>1, <2>2
<1>12. ASSUME NEW r \in Handlers, Credentials!MakeDefault(r) PROVE CredentialsTyped'
  <2>1. asked[r].id \in Credentials!Ids
    BY <1>12 DEF Credentials!MakeDefault, AskedCalls
  <2>2. Credentials!Return(r) /\ UNCHANGED <<count, current>>
    BY <1>12 DEF Credentials!MakeDefault, Credentials!Update
  <2>3. CASE cred' = cred
    BY <1>4, <2>2, <2>3
  <2>4. CASE /\ Credentials!Stored(asked[r].id)
             /\ cred' = [cred EXCEPT ![asked[r].id].default = TRUE]
    <3>1. \A i \in Credentials!Ids : Credentials!Stored(i)' => Credentials!Stored(i)
      BY <2>1, <2>4 DEF Credentials!Stored
    <3>2. cred' \in [Credentials!Ids -> Credentials!Rows]
      BY <2>1, <2>4, RowUpdates
    <3> QED
      BY <1>1, <1>2, <2>2, <3>1, <3>2
  <2> QED
    BY <1>12, <2>3, <2>4 DEF Credentials!MakeDefault, Credentials!Update
<1>13. ASSUME NEW r \in Handlers, Credentials!DefaultClear(r) PROVE CredentialsTyped'
  <2>1. asked[r].id \in Credentials!Ids /\ asked[r].op # "refresh"
    BY <1>13 DEF Credentials!DefaultClear, AskedCalls
  <2>2. /\ asked' = [asked EXCEPT ![r] = [asked[r] EXCEPT !.pc = "set", !.wrote = TRUE]]
        /\ UNCHANGED <<count, current>>
    BY <1>13 DEF Credentials!DefaultClear, Credentials!Wrote
  <2>3. [asked[r] EXCEPT !.pc = "set", !.wrote = TRUE] \in Asked(asked[r].id)
    BY <1>1, <2>1, AskedGoesOn
  <2>4. /\ cred' \in [Credentials!Ids -> Credentials!Rows]
        /\ \A i \in Credentials!Ids : Credentials!Stored(i)' => Credentials!Stored(i)
    BY <1>13 DEF Credentials!DefaultClear, Credentials!Rows, Credentials!Stored
  <2> QED
    BY <1>1, <1>2, <2>1, <2>2, <2>3, <2>4
<1>14. ASSUME NEW r \in Handlers, Credentials!Refresh(r) PROVE CredentialsTyped'
  <2> DEFINE i == asked[r].id
             c == [asked[r] EXCEPT !.pc = "save", !.token = current[i] + 1]
  <2>1. i \in Credentials!Ids /\ i <= count /\ asked[r].pc = "provider"
    BY <1>14 DEF Credentials!Refresh, AskedCalls
  <2>2. CASE asked[r].token # current[i]
    BY <1>4, <1>14, <2>2 DEF Credentials!Refresh
  <2>3. CASE asked[r].token = current[i]
    <3>1. /\ current[i] < MaxTokens /\ current' = [current EXCEPT ![i] = @ + 1]
          /\ asked' = [asked EXCEPT ![r] = c] /\ UNCHANGED <<cred, count>>
      BY <1>14, <2>3 DEF Credentials!Refresh
    <3>2. current[i] \in Credentials!Tokens
      BY <2>1
    <3>3. current[i] + 1 \in Credentials!Tokens
      BY <3>1, <3>2, CredentialsAssumption DEF Credentials!Tokens
    <3>4. c \in Asked(i)
      BY <1>1, <2>1, <3>3, AskedGoesOn
    <3>5. current' \in [Credentials!Ids -> Credentials!Tokens]
      BY <2>1, <3>1, <3>3
    <3> QED
      BY <1>2, <1>3, <2>1, <3>1, <3>4, <3>5
  <2> QED
    BY <2>2, <2>3
<1>15. ASSUME NEW r \in Handlers, Credentials!RefreshSave(r) PROVE CredentialsTyped'
  <2> DEFINE i == asked[r].id
  <2>1. i \in Credentials!Ids
    BY <1>1, <1>15 DEF Credentials!RefreshSave, AskedCalls
  <2>2. asked[r].token \in Credentials!Tokens
    BY <1>1 DEF AskedCalls, Credentials!Calls
  <2>3. CASE ~Credentials!Stored(i)
    BY <1>4, <1>15, <2>3 DEF Credentials!RefreshSave
  <2>4. CASE Credentials!Stored(i)
    <3>1. /\ cred' = [cred EXCEPT ![i].token = asked[r].token]
          /\ Credentials!Return(r) /\ UNCHANGED <<count, current>>
      BY <1>15, <2>4 DEF Credentials!RefreshSave, Credentials!Saved
    <3>2. \A j \in Credentials!Ids : Credentials!Stored(j)' => Credentials!Stored(j)
      BY <2>1, <2>4, <3>1 DEF Credentials!Stored
    <3>3. cred' \in [Credentials!Ids -> Credentials!Rows]
      BY <2>1, <2>2, <2>4, <3>1, RowUpdates
    <3> QED
      BY <1>1, <1>2, <3>1, <3>2, <3>3
  <2> QED
    BY <2>3, <2>4
<1>16. ASSUME NEW r \in Handlers, Credentials!Crash(r) PROVE CredentialsTyped'
  BY <1>4, <1>16 DEF Credentials!Crash
<1>17. ASSUME NEW i \in Credentials!Ids, Credentials!AccessExpires(i) PROVE CredentialsTyped'
  BY <1>17 DEF Credentials!AccessExpires, Credentials!Stored
<1> QED
  BY <1>5, <1>6, <1>7, <1>8, <1>9, <1>10, <1>11, <1>12, <1>13, <1>14, <1>15, <1>16, <1>17
     DEF Credentials!Next, Credentials!Handling

LEMMA CredentialsInitially == Credentials!Init => CredentialsTyped
<1> SUFFICES ASSUME Credentials!Init PROVE CredentialsTyped
  OBVIOUS
<1>1. Credentials!NoRow \in Credentials!Rows /\ 0 \in Credentials!Tokens
  BY CredentialsAssumption DEF Credentials!NoRow, Credentials!Rows, Credentials!Tokens
<1>2. \A i \in Credentials!Ids : ~Credentials!Stored(i)
  BY DEF Credentials!Init, Credentials!Stored, Credentials!NoRow
<1>3. \A r \in Handlers : asked[r] \in AskedCalls /\ asked[r].id <= 0
  BY NoCallIsAsked DEF Credentials!Init, Asked
<1> QED
  BY <1>1, <1>2, <1>3, CredentialsAssumption DEF Credentials!Init, CredentialsTyped

LEMMA CredentialsInvariance == Credentials!Spec => []CredentialsTyped
<1>1. CredentialsTyped /\ [Credentials!Next]_(Credentials!vars) => CredentialsTyped'
  <2>1. CredentialsTyped /\ UNCHANGED Credentials!vars => CredentialsTyped'
    BY DEF CredentialsTyped, Credentials!vars, Credentials!Stored
  <2> QED
    BY <2>1, CredentialsStep
<1> QED
  BY <1>1, CredentialsInitially, PTL DEF Credentials!Spec

-----------------------------------------------------------------------------
(* ModelCredentials: tokens.  The provider spends the token it is given,   *)
(* so one handler at most holds the next one; until it has stored that,    *)
(* whoever else has read or reads the row brings a token that is refused.  *)

Saving(r, i) == asked[r].pc = "save" /\ asked[r].id = i
IsSaved(i) == \E r \in Handlers : Saving(r, i)

TokenKept(i) ==
  /\ \A r \in Handlers : Saving(r, i) => asked[r].token = current[i]
  /\ \A r, q \in Handlers : Saving(r, i) /\ Saving(q, i) => r = q
  /\ \A q \in Handlers :
       asked[q].pc = "provider" /\ asked[q].id = i
         => asked[q].token <= current[i] /\ (IsSaved(i) => asked[q].token < current[i])
  /\ Credentials!Stored(i) =>
       /\ cred[i].token <= current[i]
       /\ IsSaved(i) => cred[i].token < current[i]
       /\ i \in lost \/ IsSaved(i) \/ cred[i].token = current[i]

TokensKept == \A i \in Credentials!Ids : TokenKept(i)

LEMMA TokensKeptStep ==
  ASSUME CredentialsTyped, TokensKept, Credentials!Next
  PROVE  TokensKept'
<1> USE DEF TokensKept, TokenKept, IsSaved, Saving, Credentials!Begin, Credentials!Return,
            Credentials!At
<1>1. /\ \A i \in Credentials!Ids : cred[i].token \in Nat /\ current[i] \in Nat
      /\ \A r \in Handlers : asked[r].token \in Nat
      /\ DOMAIN asked = Handlers
  BY CredentialsAssumption
     DEF CredentialsTyped, AskedCalls, Credentials!Calls, Credentials!Rows, Credentials!Tokens
<1>2. Credentials!NoCall.pc = "idle"
  BY DEF Credentials!NoCall
\* No token is asked for, and none is stored.
<1>3. ASSUME \A i \in Credentials!Ids : Credentials!Stored(i)' =>
               Credentials!Stored(i) /\ cred'[i].token = cred[i].token,
             UNCHANGED <<current, lost>>, NEW r \in Handlers, asked[r].pc # "save",
             \A q \in Handlers \ {r} : asked'[q] = asked[q],
             asked'[r] = asked[r] \/ asked'[r].pc \notin {"provider", "save"}
      PROVE  TokensKept'
  BY <1>3
<1>4. UNCHANGED cred => \A i \in Credentials!Ids : Credentials!Stored(i)' =>
                          Credentials!Stored(i) /\ cred'[i].token = cred[i].token
  BY DEF Credentials!Stored
<1>5. ASSUME NEW r \in Handlers, Credentials!StoreBegin(r) PROVE TokensKept'
  BY <1>1, <1>2, <1>3, <1>4, <1>5 DEF Credentials!StoreBegin, Credentials!NoCall
<1>6. ASSUME NEW r \in Handlers, NEW i \in Credentials!Ids, NEW op \in {"revoke", "delete"},
             Credentials!RemoveBegin(r, op, i)
      PROVE  TokensKept'
  BY <1>1, <1>2, <1>3, <1>4, <1>6 DEF Credentials!RemoveBegin, Credentials!NoCall
<1>7. ASSUME NEW r \in Handlers, NEW i \in Credentials!Ids, Credentials!DefaultBegin(r, i)
      PROVE  TokensKept'
  BY <1>1, <1>2, <1>3, <1>4, <1>7 DEF Credentials!DefaultBegin, Credentials!NoCall
<1>8. ASSUME NEW r \in Handlers, Credentials!RemoveWrite(r) PROVE TokensKept'
  <2>1. asked[r].id \in Credentials!Ids
    BY <1>8 DEF Credentials!RemoveWrite, CredentialsTyped, AskedCalls
  <2>2. \A i \in Credentials!Ids : Credentials!Stored(i)' =>
          Credentials!Stored(i) /\ cred'[i].token = cred[i].token
    BY <1>8, <2>1
       DEF Credentials!RemoveWrite, Credentials!Removed, Credentials!Stored,
           Credentials!NoRow, CredentialsTyped, Credentials!Rows
  <2> QED
    BY <1>1, <1>2, <1>3, <1>8, <2>2
       DEF Credentials!RemoveWrite, Credentials!Wrote, CredentialsTyped, AskedCalls,
           Credentials!Calls
<1>9. ASSUME NEW r \in Handlers, Credentials!PromoteFind(r) PROVE TokensKept'
  BY <1>1, <1>2, <1>3, <1>4, <1>9
     DEF Credentials!PromoteFind, CredentialsTyped, AskedCalls, Credentials!Calls
<1>10. ASSUME NEW r \in Handlers, Credentials!MakeDefault(r) PROVE TokensKept'
  <2>1. asked[r].id \in Credentials!Ids
    BY <1>10 DEF Credentials!MakeDefault, CredentialsTyped, AskedCalls
  <2>2. \A i \in Credentials!Ids : Credentials!Stored(i)' =>
          Credentials!Stored(i) /\ cred'[i].token = cred[i].token
    BY <1>10, <2>1
       DEF Credentials!MakeDefault, Credentials!Update, Credentials!Stored, CredentialsTyped,
           Credentials!Rows
  <2>3. Credentials!Return(r) /\ UNCHANGED <<current, lost>>
    BY <1>10 DEF Credentials!MakeDefault, Credentials!Update
  <2> QED
    BY <1>1, <1>2, <1>3, <1>10, <2>2, <2>3 DEF Credentials!MakeDefault
<1>11. ASSUME NEW r \in Handlers, Credentials!DefaultClear(r) PROVE TokensKept'
  <2>1. \A i \in Credentials!Ids : Credentials!Stored(i)' =>
          Credentials!Stored(i) /\ cred'[i].token = cred[i].token
    BY <1>11 DEF Credentials!DefaultClear, Credentials!Stored, CredentialsTyped,
                 Credentials!Rows
  <2>2. /\ asked[r].pc = "write" /\ asked'[r].pc = "set"
        /\ \A q \in Handlers \ {r} : asked'[q] = asked[q]
        /\ UNCHANGED <<current, lost>>
    BY <1>1, <1>11
       DEF Credentials!DefaultClear, Credentials!Wrote, CredentialsTyped, AskedCalls,
           Credentials!Calls
  <2> QED
    BY <1>3, <2>1, <2>2
<1>12. ASSUME NEW r \in Handlers, NEW i \in Credentials!Ids, Credentials!RefreshBegin(r, i)
       PROVE  TokensKept'
  <2>1. /\ asked'[r].pc = "provider" /\ asked'[r].id = i /\ asked'[r].token = cred[i].token
        /\ \A q \in Handlers \ {r} : asked'[q] = asked[q]
        /\ asked[r].pc # "save"
        /\ UNCHANGED <<cred, current, lost>> /\ Credentials!Stored(i)
    BY <1>1, <1>2, <1>12 DEF Credentials!RefreshBegin, Credentials!NoCall
  <2> QED
    BY <1>1, <2>1 DEF Credentials!Stored
<1>13. ASSUME NEW r \in Handlers, Credentials!Refresh(r) PROVE TokensKept'
  <2> DEFINE i == asked[r].id
  <2>1. i \in Credentials!Ids
    BY <1>13 DEF Credentials!Refresh, CredentialsTyped, AskedCalls
  <2>2. CASE asked[r].token # current[i]
    BY <1>1, <1>2, <1>3, <1>4, <1>13, <2>2 DEF Credentials!Refresh
  <2>3. CASE asked[r].token = current[i]
    <3>1. ~IsSaved(i)
      BY <1>1, <1>13, <2>1, <2>3 DEF Credentials!Refresh
    <3>2. /\ asked'[r].pc = "save" /\ asked'[r].id = i /\ asked'[r].token = current[i] + 1
          /\ \A q \in Handlers \ {r} : asked'[q] = asked[q]
          /\ \A j \in Credentials!Ids :
               current'[j] = IF j = i THEN current[i] + 1 ELSE current[j]
          /\ UNCHANGED <<cred, lost>>
      BY <1>1, <1>13, <2>1, <2>3
         DEF Credentials!Refresh, CredentialsTyped, AskedCalls, Credentials!Calls
    <3>3. ASSUME NEW j \in Credentials!Ids, j # i PROVE TokenKept(j)'
      BY <1>13, <3>2, <3>3 DEF Credentials!Stored, Credentials!Refresh
    <3>4. ASSUME NEW j, j = i PROVE TokenKept(j)'
      BY <1>1, <2>1, <3>1, <3>2, <3>4 DEF Credentials!Stored
    <3> QED
      BY <3>3, <3>4
  <2> QED
    BY <2>2, <2>3
<1>14. ASSUME NEW r \in Handlers, Credentials!RefreshSave(r) PROVE TokensKept'
  <2> DEFINE i == asked[r].id
  <2>1. i \in Credentials!Ids /\ Saving(r, i)
    BY <1>14 DEF Credentials!RefreshSave, CredentialsTyped, AskedCalls
  <2>2. /\ asked'[r].pc = "idle" /\ \A q \in Handlers \ {r} : asked'[q] = asked[q]
        /\ UNCHANGED <<current, lost>>
        /\ \A j \in Credentials!Ids :
             /\ Credentials!Stored(j)' <=> Credentials!Stored(j)
             /\ Credentials!Stored(j) =>
                  cred'[j].token = IF j = i THEN asked[r].token ELSE cred[j].token
    BY <1>1, <1>2, <1>14, <2>1
       DEF Credentials!RefreshSave, Credentials!Saved, Credentials!Stored, CredentialsTyped,
           Credentials!Rows
  <2>3. ASSUME NEW j \in Credentials!Ids, j # i PROVE TokenKept(j)'
    BY <2>1, <2>2, <2>3
  <2>4. ASSUME NEW j, j = i PROVE TokenKept(j)'
    BY <1>1, <2>1, <2>2, <2>4
  <2> QED
    BY <2>3, <2>4
<1>15. ASSUME NEW r \in Handlers, Credentials!Crash(r) PROVE TokensKept'
  <2>1. CASE asked[r].pc # "save"
    BY <1>1, <1>2, <1>3, <1>4, <1>15, <2>1 DEF Credentials!Crash
  <2>2. CASE asked[r].pc = "save"
    BY <1>1, <1>2, <1>15, <2>2 DEF Credentials!Crash, Credentials!Stored
  <2> QED
    BY <2>1, <2>2
<1>16. ASSUME NEW r \in Handlers, Credentials!StoreInsert(r) PROVE TokensKept'
  <2> DEFINE i == count + 1
             new == [state |-> "active", default |-> ~asked[r].default, token |-> 1]
             rows == [cred EXCEPT ![i] = new]
  <2>1. CASE ~Credentials!Allowed(rows)
    BY <1>1, <1>2, <1>3, <1>4, <1>16, <2>1 DEF Credentials!StoreInsert
  <2>2. CASE Credentials!Allowed(rows)
    <3>1. /\ cred' = rows /\ current' = [current EXCEPT ![i] = 1] /\ lost' = lost
          /\ asked'[r].pc = "idle" /\ \A q \in Handlers \ {r} : asked'[q] = asked[q]
          /\ asked[r].pc = "insert"
      BY <1>1, <1>2, <1>16, <2>2 DEF Credentials!StoreInsert
    <3>2. i \in Credentials!Ids /\ \A q \in Handlers : asked[q].id # i
      BY <1>16, CredentialsAssumption
         DEF Credentials!StoreInsert, CredentialsTyped, Credentials!Ids, AskedCalls,
             Credentials!Calls
    <3>3. \A j \in Credentials!Ids : /\ cred'[j] = IF j = i THEN new ELSE cred[j]
                                     /\ current'[j] = IF j = i THEN 1 ELSE current[j]
      BY <3>1, <3>2 DEF CredentialsTyped
    <3>4. ASSUME NEW j \in Credentials!Ids, j # i PROVE TokenKept(j)'
      BY <3>1, <3>3, <3>4 DEF Credentials!Stored
    <3>5. ASSUME NEW j, j = i PROVE TokenKept(j)'
      <4>1. ~IsSaved(j)' /\ \A q \in Handlers : ~(asked'[q].pc = "provider" /\ asked'[q].id = j)
        BY <3>1, <3>2, <3>5
      <4>2. cred'[j].token = 1 /\ current'[j] = 1
        BY <3>2, <3>3, <3>5
      <4> QED
        BY <4>1, <4>2
    <3> QED
      BY <3>4, <3>5
  <2> QED
    BY <2>1, <2>2
<1>17. ASSUME NEW i \in Credentials!Ids, Credentials!AccessExpires(i) PROVE TokensKept'
  BY <1>17 DEF Credentials!AccessExpires, Credentials!Stored
<1> QED
  BY <1>5, <1>6, <1>7, <1>8, <1>9, <1>10, <1>11, <1>12, <1>13, <1>14, <1>15, <1>16, <1>17
     DEF Credentials!Next, Credentials!Handling

\* NoTokenIsLost: however refreshes of one credential overlap, the stored token is the
\* one its provider takes, once they are over; only a crash between the two loses it.
THEOREM StoredTokensAreTaken == Credentials!Spec => []NoTokenIsLost
<1>1. Credentials!Init => TokensKept
  BY DEF Credentials!Init, TokensKept, TokenKept, IsSaved, Saving, Credentials!NoCall,
         Credentials!NoRow, Credentials!Stored
<1>2. CredentialsTyped /\ TokensKept /\ [Credentials!Next]_(Credentials!vars) => TokensKept'
  <2>1. TokensKept /\ UNCHANGED Credentials!vars => TokensKept'
    BY DEF TokensKept, TokenKept, IsSaved, Saving, Credentials!vars, Credentials!Stored
  <2> QED
    BY <2>1, TokensKeptStep
<1>3. TokensKept => NoTokenIsLost
  BY DEF TokensKept, TokenKept, IsSaved, Saving, NoTokenIsLost, Credentials!NoTokenIsLost
<1> QED
  BY <1>1, <1>2, <1>3, CredentialsInvariance, PTL DEF Credentials!Spec

-----------------------------------------------------------------------------
(* ModelCredentials: the default.  A handler that nobody has overtaken     *)
(* knows the rows as they are; while there is no default, one is choosing. *)

Choosing(r) == asked[r].pc \in {"find", "promote", "set"}

Knows(r) ==
  /\ asked[r].pc = "insert" => (asked[r].default <=> Credentials!Defaults # {})
  /\ asked[r].pc = "write" /\ asked[r].op = "default" => asked[r].id \in Credentials!Active
  /\ asked[r].pc = "write" /\ asked[r].op # "default" =>
       Credentials!Stored(asked[r].id) /\ asked[r].default = cred[asked[r].id].default
  /\ Choosing(r) => Credentials!Defaults = {}
  /\ asked[r].pc \in {"promote", "set"} => asked[r].id \in Credentials!Active

SomeDefault ==
  /\ \A i \in Credentials!Ids : cred[i].default => cred[i].state = "active"
  /\ Credentials!Active # {} /\ Credentials!Defaults = {} => \E r \in Handlers : Choosing(r)

DefaultsInv ==
  /\ Credentials!Allowed(cred)
  /\ ~cut => SomeDefault /\ \A r \in Handlers \ changed : Knows(r)

\* The statement of one handler leaves what the others know as it was, or overtakes them.
LEMMA KnownStays ==
  ASSUME CredentialsTyped, NEW r \in Handlers, \A q \in Handlers \ changed : Knows(q),
         \A q \in Handlers \ {r} : asked'[q] = asked[q],
         Credentials!Overtakes(r), r \in changed' \/ Knows(r)'
  PROVE  \A q \in Handlers \ changed' : Knows(q)'
<1> SUFFICES ASSUME NEW q \in Handlers \ changed', q # r PROVE Knows(q)'
  OBVIOUS
<1>1. asked'[q] = asked[q]
  OBVIOUS
<1>2. CASE asked[q] = Credentials!NoCall
  BY <1>1, <1>2 DEF Knows, Choosing, Credentials!NoCall
<1>3. CASE asked[q] # Credentials!NoCall
  <2>1. q \notin changed /\ Credentials!Shown' = Credentials!Shown
    BY <1>1, <1>3 DEF Credentials!Overtakes
  <2>2. \A i \in Credentials!Ids : cred'[i].state = cred[i].state /\ cred'[i].default = cred[i].default
    BY <2>1 DEF Credentials!Shown
  <2>3. Credentials!Active' = Credentials!Active /\ Credentials!Defaults' = Credentials!Defaults
    BY <2>2 DEF Credentials!Active, Credentials!Defaults
  <2>4. \A i \in Credentials!Ids : Credentials!Stored(i)' <=> Credentials!Stored(i)
    BY <2>2 DEF Credentials!Stored
  <2>5. asked[q].pc = "write" => asked[q].id \in Credentials!Ids
    BY DEF CredentialsTyped, AskedCalls
  <2>6. Knows(q)
    BY <2>1
  <2> QED
    BY <1>1, <2>2, <2>3, <2>4, <2>5, <2>6 DEF Knows, Choosing
<1> QED
  BY <1>2, <1>3

\* A step that shows no change: it does not choose, or it goes on choosing.
LEMMA NothingShown ==
  ASSUME CredentialsTyped, DefaultsInv, NEW r \in Handlers,
         \A q \in Handlers \ {r} : asked'[q] = asked[q], Credentials!Overtakes(r),
         \A i \in Credentials!Ids : /\ cred'[i].state = cred[i].state
                                    /\ cred'[i].default = cred[i].default,
         ~cut' => ~cut,
         ~cut' => r \in changed' \/ Knows(r)',
         ~cut' /\ Choosing(r) /\ Credentials!Active # {} => Choosing(r)'
  PROVE  DefaultsInv'
<1>1. Credentials!Active' = Credentials!Active /\ Credentials!Defaults' = Credentials!Defaults
  BY DEF Credentials!Active, Credentials!Defaults
<1>2. Credentials!Allowed(cred)'
  BY DEF DefaultsInv, Credentials!Allowed
<1>3. ASSUME ~cut' PROVE SomeDefault'
  <2>1. SomeDefault
    BY <1>3 DEF DefaultsInv
  <2>2. ASSUME NEW q \in Handlers, Choosing(q), Credentials!Active # {}
        PROVE  Choosing(q)'
    BY <1>3, <2>2 DEF Choosing
  <2> QED
    BY <1>1, <2>1, <2>2 DEF SomeDefault
<1>4. ASSUME ~cut' PROVE \A q \in Handlers \ changed' : Knows(q)'
  <2>1. r \in changed' \/ Knows(r)'
    BY <1>4
  <2>2. \A q \in Handlers \ changed : Knows(q)
    BY <1>4 DEF DefaultsInv
  <2> QED
    BY <2>1, <2>2, KnownStays
<1> QED
  BY <1>2, <1>3, <1>4 DEF DefaultsInv

LEMMA DefaultsHandled ==
  ASSUME CredentialsTyped, DefaultsInv, NEW r \in Handlers, Credentials!Handling(r),
         Credentials!Overtakes(r),
         cut' = (cut \/ (r \in changed /\ asked[r].op # "refresh"))
  PROVE  DefaultsInv'
<1> USE DEF Credentials!Begin, Credentials!Return, Credentials!At
<1>1. /\ asked \in [Handlers -> AskedCalls] /\ asked[r] \in Credentials!Calls
      /\ cred \in [Credentials!Ids -> Credentials!Rows]
  BY DEF CredentialsTyped, AskedCalls
<1>2. Credentials!NoCall.pc = "idle"
  BY DEF Credentials!NoCall
<1>3. ~cut' /\ asked[r].op # "refresh" => Knows(r) /\ SomeDefault
  BY DEF DefaultsInv
<1>4. \A i \in Credentials!Ids :
        /\ i \in Credentials!Active <=> cred[i].state = "active"
        /\ i \in Credentials!Defaults <=> cred[i].state = "active" /\ cred[i].default
  BY DEF Credentials!Active, Credentials!Defaults
\* A step that shows no change.
<1>5. ASSUME \A q \in Handlers \ {r} : asked'[q] = asked[q],
             \A i \in Credentials!Ids : /\ cred'[i].state = cred[i].state
                                        /\ cred'[i].default = cred[i].default,
             ~cut' => Knows(r)',
             ~cut' /\ Choosing(r) /\ Credentials!Active # {} => Choosing(r)'
      PROVE  DefaultsInv'
  BY <1>5, NothingShown
\* A step that changes the rows.
<1>6. ASSUME \A q \in Handlers \ {r} : asked'[q] = asked[q],
             Credentials!Allowed(cred)',
             ~cut' => Knows(r)',
             ~cut' => SomeDefault'
      PROVE  DefaultsInv'
  <2>1. ASSUME ~cut' PROVE \A q \in Handlers \ changed' : Knows(q)'
    <3>1. \A q \in Handlers \ changed : Knows(q)
      BY <2>1 DEF DefaultsInv
    <3>2. Knows(r)'
      BY <1>6, <2>1
    <3> QED
      BY <1>6, <3>1, <3>2, KnownStays
  <2> QED
    BY <1>6, <2>1 DEF DefaultsInv
<1>7. asked'[r] = Credentials!NoCall => Knows(r)'
  BY <1>2 DEF Knows, Choosing
<1>8. CASE Credentials!StoreBegin(r)
  <2>1. /\ asked'[r] = [Credentials!NoCall EXCEPT !.op = "store", !.pc = "insert",
                                                  !.default = (Credentials!Defaults # {})]
        /\ \A q \in Handlers \ {r} : asked'[q] = asked[q]
        /\ UNCHANGED cred /\ ~Choosing(r)
    BY <1>1, <1>2, <1>8 DEF Credentials!StoreBegin, Choosing
  <2>2. Credentials!Defaults' = Credentials!Defaults
    BY <2>1 DEF Credentials!Defaults, Credentials!Active
  <2>3. asked'[r].pc = "insert" /\ asked'[r].default = (Credentials!Defaults # {})
    BY <2>1 DEF Credentials!NoCall
  <2> QED
    BY <1>5, <2>1, <2>2, <2>3 DEF Knows, Choosing
<1>9. ASSUME NEW i \in Credentials!Ids, NEW op \in {"revoke", "delete"},
             Credentials!RemoveBegin(r, op, i)
      PROVE  DefaultsInv'
  <2>1. /\ asked'[r].op = op /\ asked'[r].pc = "write" /\ asked'[r].id = i
        /\ asked'[r].default = cred[i].default
        /\ \A q \in Handlers \ {r} : asked'[q] = asked[q]
        /\ UNCHANGED cred /\ Credentials!Stored(i) /\ ~Choosing(r)
    BY <1>1, <1>2, <1>9 DEF Credentials!RemoveBegin, Choosing, Credentials!NoCall
  <2> QED
    BY <1>5, <2>1 DEF Knows, Choosing, Credentials!Stored
<1>10. ASSUME NEW i \in Credentials!Ids, Credentials!DefaultBegin(r, i) PROVE DefaultsInv'
  <2>1. /\ asked'[r].op = "default" /\ asked'[r].pc = "write" /\ asked'[r].id = i
        /\ \A q \in Handlers \ {r} : asked'[q] = asked[q]
        /\ UNCHANGED cred /\ i \in Credentials!Active /\ ~Choosing(r)
    BY <1>1, <1>2, <1>10 DEF Credentials!DefaultBegin, Choosing, Credentials!NoCall
  <2> QED
    BY <1>5, <2>1 DEF Knows, Choosing, Credentials!Active
<1>11. ASSUME NEW i \in Credentials!Ids, Credentials!RefreshBegin(r, i) PROVE DefaultsInv'
  <2>1. /\ asked'[r].pc = "provider" /\ \A q \in Handlers \ {r} : asked'[q] = asked[q]
        /\ UNCHANGED cred /\ ~Choosing(r)
    BY <1>1, <1>2, <1>11 DEF Credentials!RefreshBegin, Choosing, Credentials!NoCall
  <2> QED
    BY <1>5, <2>1 DEF Knows, Choosing
<1>12. CASE Credentials!Refresh(r)
  <2>1. /\ asked'[r].pc \in {"idle", "save"} /\ \A q \in Handlers \ {r} : asked'[q] = asked[q]
        /\ UNCHANGED cred /\ ~Choosing(r)
    BY <1>1, <1>2, <1>12 DEF Credentials!Refresh, Choosing, AskedCalls, Credentials!Calls
  <2> QED
    BY <1>5, <2>1 DEF Knows, Choosing
<1>13. CASE Credentials!RefreshSave(r)
  <2>1. /\ asked'[r] = Credentials!NoCall /\ \A q \in Handlers \ {r} : asked'[q] = asked[q]
        /\ ~Choosing(r)
    BY <1>1, <1>13 DEF Credentials!RefreshSave, Choosing
  <2>2. \A j \in Credentials!Ids : /\ cred'[j].state = cred[j].state
                                   /\ cred'[j].default = cred[j].default
    BY <1>1, <1>13 DEF Credentials!RefreshSave, Credentials!Rows
  <2> QED
    BY <1>5, <1>7, <2>1, <2>2
<1>14. CASE Credentials!PromoteFind(r)
  <2> DEFINE i == Credentials!Min(Credentials!Active)
             c == [asked[r] EXCEPT !.pc = "promote", !.id = i]
  <2>1. /\ \A q \in Handlers \ {r} : asked'[q] = asked[q]
        /\ UNCHANGED cred /\ asked[r].pc = "find" /\ asked[r].op # "refresh"
    BY <1>1, <1>14 DEF Credentials!PromoteFind, CredentialsTyped, AskedCalls
  <2>2. CASE Credentials!Active = {}
    BY <1>1, <1>5, <1>7, <1>14, <2>1, <2>2 DEF Credentials!PromoteFind
  <2>3. CASE Credentials!Active # {}
    <3>1. Credentials!Active \in SUBSET Nat
      BY CredentialsAssumption DEF Credentials!Active, Credentials!Ids
    <3>2. i \in Credentials!Active
      BY <2>3, <3>1, OldestIsOne
    <3>3. asked' = [asked EXCEPT ![r] = c]
      BY <1>14, <2>3 DEF Credentials!PromoteFind
    <3>4. \A j \in Credentials!Active : j = i =>
            asked'[r].pc = "promote" /\ asked'[r].id \in Credentials!Active
      BY <1>1, <3>3 DEF Credentials!Calls
    <3>5. asked'[r].pc = "promote" /\ asked'[r].id \in Credentials!Active
      BY <3>2, <3>4
    <3>6. Credentials!Active' = Credentials!Active /\ Credentials!Defaults' = Credentials!Defaults
      BY <2>1 DEF Credentials!Active, Credentials!Defaults
    <3>7. ASSUME ~cut' PROVE Credentials!Defaults = {}
      BY <1>3, <2>1, <3>7 DEF Knows, Choosing
    <3>8. ~cut' => Knows(r)'
      BY <3>5, <3>6, <3>7 DEF Knows, Choosing
    <3> QED
      BY <1>5, <2>1, <3>5, <3>8 DEF Choosing
  <2> QED
    BY <2>2, <2>3
<1>15. CASE Credentials!StoreInsert(r)
  <2> DEFINE i == count + 1
             new == [state |-> "active", default |-> ~asked[r].default, token |-> 1]
             rows == [cred EXCEPT ![i] = new]
  <2>1. /\ asked'[r] = Credentials!NoCall /\ \A q \in Handlers \ {r} : asked'[q] = asked[q]
        /\ asked[r].pc = "insert" /\ asked[r].op # "refresh" /\ ~Choosing(r)
    BY <1>1, <1>15 DEF Credentials!StoreInsert, AskedCalls, Choosing
  <2>2. CASE ~Credentials!Allowed(rows)
    BY <1>5, <1>7, <1>15, <2>1, <2>2 DEF Credentials!StoreInsert
  <2>3. CASE Credentials!Allowed(rows)
    <3>1. cred' = rows
      BY <1>15, <2>3 DEF Credentials!StoreInsert
    <3>2. i \in Credentials!Ids
      BY <1>15, CredentialsAssumption
         DEF Credentials!StoreInsert, CredentialsTyped, Credentials!Ids
    <3>3. ~Credentials!Stored(i)
      BY <3>2, CredentialsAssumption DEF CredentialsTyped
    <3>4. /\ cred'[i] = new
          /\ \A j \in Credentials!Ids : j # i => cred'[j] = cred[j]
      BY <1>1, <3>1, <3>2
    <3>5. new.state = "active" /\ new.default = ~asked[r].default
      OBVIOUS
    <3> HIDE DEF i, new, rows
    <3>6. ASSUME ~cut' PROVE SomeDefault'
      <4>1. Knows(r) /\ SomeDefault
        BY <1>3, <2>1, <3>6
      <4>2. \A j \in Credentials!Ids : cred'[j].default => cred'[j].state = "active"
        BY <3>2, <3>4, <3>5, <4>1 DEF SomeDefault
      <4>3. Credentials!Defaults' # {}
        <5>1. CASE ~asked[r].default
          BY <3>2, <3>4, <3>5, <5>1 DEF Credentials!Defaults, Credentials!Active
        <5>2. CASE asked[r].default
          <6>1. PICK j \in Credentials!Defaults : TRUE
            BY <2>1, <4>1, <5>2 DEF Knows
          <6>2. j \in Credentials!Ids /\ j # i
            BY <3>3, <6>1 DEF Credentials!Defaults, Credentials!Active, Credentials!Stored
          <6> QED
            BY <3>4, <6>1, <6>2 DEF Credentials!Defaults, Credentials!Active
        <5> QED
          BY <1>1, <5>1, <5>2 DEF Credentials!Calls
      <4> QED
        BY <4>2, <4>3 DEF SomeDefault
    <3>7. Credentials!Allowed(cred)'
      BY <2>3, <3>1 DEF Credentials!Allowed
    <3> QED
      BY <1>6, <1>7, <2>1, <3>6, <3>7
  <2> QED
    BY <2>2, <2>3
<1>16. CASE Credentials!RemoveWrite(r)
  <2> DEFINE i == asked[r].id
  <2>1. /\ i \in Credentials!Ids /\ asked[r].pc = "write" /\ asked[r].op \notin {"refresh", "default"}
        /\ \A q \in Handlers \ {r} : asked'[q] = asked[q]
        /\ IF asked[r].default THEN asked'[r].pc = "find" ELSE asked'[r] = Credentials!NoCall
    BY <1>1, <1>16
       DEF Credentials!RemoveWrite, Credentials!WasDefault, Credentials!Wrote, AskedCalls,
           Credentials!Calls
  <2>2. /\ \A j \in Credentials!Ids : j # i => cred'[j] = cred[j]
        /\ cred'[i].state # "active" /\ ~cred'[i].default
    BY <1>1, <1>16, <2>1
       DEF Credentials!RemoveWrite, Credentials!Removed, Credentials!NoRow, Credentials!Rows
  <2>3. Credentials!Allowed(cred)'
    BY <2>1, <2>2 DEF DefaultsInv, Credentials!Allowed
  <2>4. ASSUME ~cut' PROVE SomeDefault' /\ Knows(r)'
    <3>1. Knows(r) /\ SomeDefault
      BY <1>3, <2>1, <2>4
    <3>2. \A j \in Credentials!Ids : cred'[j].default => cred'[j].state = "active"
      BY <2>1, <2>2, <3>1 DEF SomeDefault
    <3>3. CASE asked[r].default
      <4>1. i \in Credentials!Defaults
        BY <1>4, <2>1, <3>1, <3>3 DEF Knows, SomeDefault
      <4>2. Credentials!Defaults' = {}
        BY <2>1, <2>2, <4>1
           DEF DefaultsInv, Credentials!Allowed, Credentials!Defaults, Credentials!Active
      <4> QED
        BY <2>1, <3>2, <3>3, <4>2 DEF SomeDefault, Knows, Choosing
    <3>4. CASE ~asked[r].default
      <4>1. ~cred[i].default
        BY <2>1, <3>1, <3>4 DEF Knows
      <4>2. Credentials!Active' \subseteq Credentials!Active
        BY <2>1, <2>2 DEF Credentials!Active
      <4>3. Credentials!Defaults \subseteq Credentials!Defaults'
        BY <2>1, <2>2, <4>1 DEF Credentials!Defaults, Credentials!Active
      <4>4. ASSUME NEW q \in Handlers, Choosing(q) PROVE Choosing(q)'
        BY <2>1, <4>4 DEF Choosing
      <4>5. SomeDefault'
        BY <3>1, <3>2, <4>2, <4>3, <4>4 DEF SomeDefault
      <4> QED
        BY <1>7, <2>1, <3>4, <4>5
    <3> QED
      BY <3>3, <3>4
  <2> QED
    BY <1>6, <2>1, <2>3, <2>4
<1>17. CASE Credentials!MakeDefault(r)
  <2> DEFINE i == asked[r].id
             rows == [cred EXCEPT ![i].default = TRUE]
  <2>1. /\ i \in Credentials!Ids /\ asked[r].pc \in {"promote", "set"} /\ asked[r].op # "refresh"
        /\ asked'[r] = Credentials!NoCall /\ \A q \in Handlers \ {r} : asked'[q] = asked[q]
    <3>1. i \in Credentials!Ids /\ asked[r].pc \in {"promote", "set"} /\ asked[r].op # "refresh"
      BY <1>1, <1>17 DEF Credentials!MakeDefault, AskedCalls
    <3>2. asked' = [asked EXCEPT ![r] = Credentials!NoCall]
      BY <1>17 DEF Credentials!MakeDefault, Credentials!Update
    <3> QED
      BY <1>1, <3>1, <3>2
  <2>2. cred' = cred \/ (cred' = rows /\ Credentials!Allowed(rows))
    BY <1>17 DEF Credentials!MakeDefault, Credentials!Update
  <2>3. Credentials!Allowed(cred)'
    BY <2>2 DEF DefaultsInv, Credentials!Allowed
  <2>4. ASSUME ~cut' PROVE SomeDefault'
    <3>1. SomeDefault /\ Credentials!Defaults = {} /\ i \in Credentials!Active
      BY <1>3, <2>1, <2>4 DEF Knows, Choosing
    <3>2. /\ \A j \in Credentials!Ids : j # i => rows[j] = cred[j]
          /\ rows[i].state = "active" /\ rows[i].default
      BY <1>1, <1>4, <2>1, <3>1 DEF Credentials!Rows
    <3>3. Credentials!Allowed(rows)
      BY <1>4, <2>1, <3>1, <3>2 DEF Credentials!Allowed
    <3>4. cred' = rows
      BY <1>4, <1>17, <2>1, <3>1, <3>3
         DEF Credentials!MakeDefault, Credentials!Update, Credentials!Stored
    <3> HIDE DEF rows
    <3>5. i \in Credentials!Defaults'
      BY <2>1, <3>2, <3>4 DEF Credentials!Defaults, Credentials!Active
    <3> QED
      BY <2>1, <3>1, <3>2, <3>4, <3>5 DEF SomeDefault
  <2> QED
    BY <1>6, <1>7, <2>1, <2>3, <2>4
<1>18. CASE Credentials!DefaultClear(r)
  <2>1. /\ asked[r].pc = "write" /\ asked[r].op = "default" /\ asked'[r].pc = "set"
        /\ asked'[r].id = asked[r].id /\ \A q \in Handlers \ {r} : asked'[q] = asked[q]
    BY <1>1, <1>18 DEF Credentials!DefaultClear, Credentials!Wrote, Credentials!Calls
  <2>2. \A j \in Credentials!Ids : cred'[j].state = cred[j].state /\ ~cred'[j].default
    BY <1>1, <1>18 DEF Credentials!DefaultClear, Credentials!Rows
  <2>3. Credentials!Active' = Credentials!Active /\ Credentials!Defaults' = {}
    BY <2>2 DEF Credentials!Active, Credentials!Defaults
  <2>4. Credentials!Allowed(cred)'
    BY <2>2 DEF Credentials!Allowed
  <2>5. ASSUME ~cut' PROVE SomeDefault' /\ Knows(r)'
    <3>1. asked[r].id \in Credentials!Active
      BY <1>3, <2>1, <2>5 DEF Knows
    <3> QED
      BY <2>1, <2>2, <2>3, <3>1 DEF SomeDefault, Knows, Choosing
  <2> QED
    BY <1>6, <2>1, <2>4, <2>5
<1> QED
  BY <1>8, <1>9, <1>10, <1>11, <1>12, <1>13, <1>14, <1>15, <1>16, <1>17, <1>18
     DEF Credentials!Handling

LEMMA DefaultsStep ==
  ASSUME CredentialsTyped, DefaultsInv, [Credentials!Next]_(Credentials!vars)
  PROVE  DefaultsInv'
<1>1. ASSUME NEW r \in Handlers, Credentials!Handling(r), Credentials!Overtakes(r),
             cut' = (cut \/ (r \in changed /\ asked[r].op # "refresh"))
      PROVE  DefaultsInv'
  BY <1>1, DefaultsHandled
<1>2. ASSUME NEW r \in Handlers, Credentials!Crash(r), Credentials!Overtakes(r),
             cut' = (cut \/ asked[r].wrote)
      PROVE  DefaultsInv'
  <2>1. /\ asked'[r] = Credentials!NoCall /\ \A q \in Handlers \ {r} : asked'[q] = asked[q]
        /\ UNCHANGED cred
    BY <1>2 DEF Credentials!Crash, Credentials!Return, CredentialsTyped
  <2>2. ~asked[r].wrote => ~Choosing(r)
    BY DEF CredentialsTyped, AskedCalls, Choosing
  <2>3. Knows(r)'
    BY <2>1 DEF Knows, Choosing, Credentials!NoCall
  <2>4. ~cut' => ~cut /\ ~asked[r].wrote
    BY <1>2
  <2> QED
    BY <1>2, <2>1, <2>2, <2>3, <2>4, NothingShown
<1>3. ASSUME UNCHANGED <<cred, asked, changed, cut>> PROVE DefaultsInv'
  BY <1>3
     DEF DefaultsInv, SomeDefault, Knows, Choosing, Credentials!Allowed, Credentials!Active,
         Credentials!Defaults, Credentials!Stored
<1> QED
  BY <1>1, <1>2, <1>3 DEF Credentials!Next, Credentials!AccessExpires, Credentials!vars

\* DefaultIsKept: while a credential is active, one is the default, unless two handlers
\* that choose a default overlapped or one was cut off between its statements.
THEOREM TheDefaultIsKept == Credentials!Spec => []DefaultIsKept
<1>1. ASSUME Credentials!Init PROVE DefaultsInv
  <2>1. /\ \A i \in Credentials!Ids : cred[i].state = "absent" /\ ~cred[i].default
        /\ \A r \in Handlers : asked[r].pc = "idle"
    BY <1>1 DEF Credentials!Init, Credentials!NoRow, Credentials!NoCall
  <2>2. Credentials!Active = {} /\ Credentials!Allowed(cred)
    BY <2>1 DEF Credentials!Active, Credentials!Allowed
  <2>3. \A r \in Handlers : Knows(r)
    BY <2>1 DEF Knows, Choosing
  <2> QED
    BY <2>1, <2>2, <2>3 DEF DefaultsInv, SomeDefault
<1>2. CredentialsTyped /\ DefaultsInv /\ [Credentials!Next]_(Credentials!vars) => DefaultsInv'
  BY DefaultsStep
<1>3. DefaultsInv => DefaultIsKept
  <2> SUFFICES ASSUME DefaultsInv, Credentials!Quiet, ~cut, Credentials!Active # {}
               PROVE  Credentials!Cardinality(Credentials!Defaults) = 1
    BY DEF DefaultIsKept, Credentials!DefaultIsKept
  <2>1. PICK i \in Credentials!Defaults : TRUE
    BY DEF DefaultsInv, SomeDefault, Choosing, Credentials!Quiet, Credentials!NoCall
  <2>2. Credentials!Defaults = {i}
    BY <2>1 DEF DefaultsInv, Credentials!Allowed, Credentials!Defaults, Credentials!Active
  <2> QED
    BY <2>2, FS_Singleton DEF Credentials!Cardinality, Cardinality
<1> QED
  BY <1>1, <1>2, <1>3, CredentialsInvariance, PTL DEF Credentials!Spec
-----------------------------------------------------------------------------
(* GitHubInstallation: what each handler remembers, and the tables.        *)

Points == {"details", "look", "update", "linkall", "find", "clear", "insert", "link", "read",
           "verify", "deactivate", "delete", "unlink", "uninstall"}

\* A handler that is under way is about an installation.
Handled == {c \in GitHub!Calls : c.pc # "idle" => c.of \in Installations}

GitHubTyped ==
  /\ installed \in [Installations -> {"none", "active", "suspended"}]
  /\ integration \in [GitHub!Ids -> GitHub!Rows]
  /\ \A i \in GitHub!Ids : integration[i].of = GitHub!Nowhere => integration[i] = GitHub!NoRow
  /\ handler \in [Handlers -> Handled]

LEMMA NoCallIsHandled == GitHub!NoCall \in Handled /\ GitHub!NoCall.pc = "idle"
BY InstallationsAssumption DEF Handled, GitHub!NoCall, GitHub!Calls

\* How a handler moves.
LEMMA HandlerMoves ==
  ASSUME GitHubTyped, NEW r \in Handlers
  PROVE  /\ GitHub!Return(r) => handler' \in [Handlers -> Handled]
         /\ \A pc \in Points, n \in Installations :
              GitHub!Begin(r, pc, n) => handler' \in [Handlers -> Handled]
         /\ \A pc \in Points :
              ~GitHub!At(r, "idle") /\ GitHub!Goto(r, pc) => handler' \in [Handlers -> Handled]
<1>1. handler \in [Handlers -> Handled]
  BY DEF GitHubTyped
<1>2. ASSUME GitHub!Return(r) PROVE handler' \in [Handlers -> Handled]
  BY <1>1, <1>2, NoCallIsHandled DEF GitHub!Return
<1>3. ASSUME NEW pc \in Points, NEW n \in Installations, GitHub!Begin(r, pc, n)
      PROVE  handler' \in [Handlers -> Handled]
  <2>1. [GitHub!NoCall EXCEPT !.pc = pc, !.of = n] \in Handled
    BY NoCallIsHandled DEF Handled, GitHub!Calls, Points
  <2> QED
    BY <1>1, <1>3, <2>1 DEF GitHub!Begin
<1>4. ASSUME NEW pc \in Points, ~GitHub!At(r, "idle"), GitHub!Goto(r, pc)
      PROVE  handler' \in [Handlers -> Handled]
  <2>1. [handler[r] EXCEPT !.pc = pc] \in Handled
    BY <1>1, <1>4 DEF Handled, GitHub!Calls, Points, GitHub!At
  <2> QED
    BY <1>1, <1>4, <2>1 DEF GitHub!Goto
<1> QED
  BY <1>2, <1>3, <1>4

\* A row of an installation has its type.
LEMMA LinkedRows ==
  /\ \A n \in Installations : /\ GitHub!LinkedTo(n) \in GitHub!Rows
                              /\ GitHub!LinkedTo(n).of = n /\ GitHub!LinkedTo(n).active
                              /\ GitHub!LinkedTo(n) # GitHub!NoRow /\ n # GitHub!Nowhere
  /\ GitHub!NoRow \in GitHub!Rows /\ GitHub!NoRow.of = GitHub!Nowhere
BY InstallationsAssumption
   DEF GitHub!LinkedTo, GitHub!Rows, GitHub!NoRow

LEMMA GitHubStep ==
  ASSUME GitHubTyped, GitHub!Next
  PROVE  GitHubTyped'
<1> USE DEF Points
<1>1. /\ installed \in [Installations -> {"none", "active", "suspended"}]
      /\ integration \in [GitHub!Ids -> GitHub!Rows]
      /\ \A i \in GitHub!Ids : integration[i].of = GitHub!Nowhere => integration[i] = GitHub!NoRow
      /\ handler \in [Handlers -> Handled]
  BY DEF GitHubTyped
<1>2. ASSUME installed' \in [Installations -> {"none", "active", "suspended"}],
             integration' = integration, handler' \in [Handlers -> Handled]
      PROVE  GitHubTyped'
  BY <1>1, <1>2 DEF GitHubTyped
<1>3. ASSUME installed' = installed, integration' \in [GitHub!Ids -> GitHub!Rows],
             \A i \in GitHub!Ids : integration'[i].of = GitHub!Nowhere
                                   => integration'[i] = GitHub!NoRow,
             handler' \in [Handlers -> Handled]
      PROVE  GitHubTyped'
  BY <1>3 DEF GitHubTyped
<1>4. \A i \in GitHub!Present : integration[i].of \in Installations
  BY <1>1 DEF GitHub!Present, GitHub!Rows
<1>5. \A r \in Handlers : ~GitHub!At(r, "idle") => handler[r].of \in Installations
  BY <1>1 DEF Handled, GitHub!At
<1>6. ASSUME NEW r \in Handlers, NEW n \in Installations, GitHub!StoreBegin(r, n)
      PROVE  GitHubTyped'
  BY <1>1, <1>2, <1>6, HandlerMoves DEF GitHub!StoreBegin, GitHub!tables
<1>7. ASSUME NEW r \in Handlers, NEW n \in Installations, NEW again \in BOOLEAN,
             GitHub!WebhookDeleted(r, n, again)
      PROVE  GitHubTyped'
  BY <1>1, <1>2, <1>7, HandlerMoves DEF GitHub!WebhookDeleted, GitHub!tables
<1>8. ASSUME NEW r \in Handlers, GitHub!StoreDetails(r) PROVE GitHubTyped'
  BY <1>1, <1>2, <1>8, HandlerMoves DEF GitHub!StoreDetails, GitHub!tables, GitHub!At
<1>9. ASSUME NEW r \in Handlers, GitHub!StoreLook(r) PROVE GitHubTyped'
  BY <1>1, <1>2, <1>9, HandlerMoves DEF GitHub!StoreLook, GitHub!tables, GitHub!At
<1>10. ASSUME NEW r \in Handlers, GitHub!StoreUpdate(r) PROVE GitHubTyped'
  BY <1>1, <1>2, <1>10, HandlerMoves DEF GitHub!StoreUpdate, GitHub!At
<1>11. ASSUME NEW r \in Handlers, GitHub!StoreLinkAll(r) PROVE GitHubTyped'
  BY <1>1, <1>3, <1>5, <1>11, HandlerMoves, LinkedRows DEF GitHub!StoreLinkAll, GitHub!At
<1>12. ASSUME NEW r \in Handlers, GitHub!StoreFind(r) PROVE GitHubTyped'
  <2>1. \A i \in GitHub!Present \cup {0} : i \in 0..MaxRows
    BY InstallationsAssumption DEF GitHub!Present, GitHub!Ids
  <2>2. PICK i \in 0..MaxRows :
          handler' = [handler EXCEPT ![r] = [handler[r] EXCEPT !.pc = "clear", !.found = i]]
    BY <1>12, <2>1 DEF GitHub!StoreFind, GitHub!Earlier
  <2>3. [handler[r] EXCEPT !.pc = "clear", !.found = i] \in Handled
    BY <1>1, <1>12, <2>2 DEF Handled, GitHub!Calls, GitHub!StoreFind, GitHub!At
  <2> QED
    BY <1>1, <1>2, <1>12, <2>2, <2>3 DEF GitHub!StoreFind, GitHub!tables
<1>13. ASSUME NEW r \in Handlers, GitHub!StoreClear(r) PROVE GitHubTyped'
  BY <1>1, <1>2, <1>13, HandlerMoves DEF GitHub!StoreClear, GitHub!At
<1>14. ASSUME NEW r \in Handlers, GitHub!StoreInsert(r) PROVE GitHubTyped'
  BY <1>1, <1>2, <1>14, HandlerMoves DEF GitHub!StoreInsert, GitHub!At
<1>15. ASSUME NEW r \in Handlers, GitHub!StoreLink(r) PROVE GitHubTyped'
  <2>1. handler[r].of \in Installations /\ handler' \in [Handlers -> Handled]
        /\ installed' = installed
    BY <1>5, <1>15, HandlerMoves DEF GitHub!StoreLink, GitHub!At
  <2>2. \/ integration' = integration
        \/ \E i \in GitHub!Ids :
             integration' = [integration EXCEPT ![i] = GitHub!LinkedTo(handler[r].of)]
    BY <1>15 DEF GitHub!StoreLink, GitHub!Present
  <2> QED
    BY <1>1, <1>3, <2>1, <2>2, LinkedRows
<1>16. ASSUME NEW kind \in GitHub!Kinds, NEW n \in Installations, GitHub!WebhookSuspension(kind, n)
       PROVE  GitHubTyped'
  BY <1>1, <1>2, <1>16 DEF GitHub!WebhookSuspension
<1>17. ASSUME NEW r \in Handlers, GitHub!ReadIntegration(r) PROVE GitHubTyped'
  BY <1>1, <1>2, <1>4, <1>17, HandlerMoves DEF GitHub!ReadIntegration, GitHub!tables
<1>18. ASSUME NEW r \in Handlers, GitHub!ReadInstallation(r) PROVE GitHubTyped'
  BY <1>1, <1>2, <1>18, HandlerMoves DEF GitHub!ReadInstallation, GitHub!tables, GitHub!At
<1>19. ASSUME NEW r \in Handlers, GitHub!Verify(r) PROVE GitHubTyped'
  BY <1>1, <1>2, <1>19, HandlerMoves DEF GitHub!Verify, GitHub!tables, GitHub!At
<1>20. ASSUME NEW r \in Handlers, GitHub!RemoveDeactivate(r) PROVE GitHubTyped'
  <2>1. handler' \in [Handlers -> Handled] /\ installed' = installed
    BY <1>20, HandlerMoves DEF GitHub!RemoveDeactivate, GitHub!At
  <2>2. ASSUME NEW i \in GitHub!Ids
        PROVE  /\ integration'[i] = integration[i] \/
                    (i \in GitHub!Present /\ integration'[i] = [integration[i] EXCEPT !.active = FALSE])
    BY <1>20, <2>2 DEF GitHub!RemoveDeactivate
  <2>3. integration' \in [GitHub!Ids -> GitHub!Rows]
    BY <1>1, <1>20 DEF GitHub!RemoveDeactivate, GitHub!Rows
  <2>4. ASSUME NEW i \in GitHub!Ids, integration'[i].of = GitHub!Nowhere
        PROVE  integration'[i] = GitHub!NoRow
    <3>1. CASE integration'[i] = integration[i]
      BY <1>1, <2>4, <3>1
    <3>2. CASE i \in GitHub!Present /\ integration'[i] = [integration[i] EXCEPT !.active = FALSE]
      <4>1. integration[i] \in GitHub!Rows /\ integration[i].of \in Installations
        BY <1>1, <1>4, <3>2
      <4>2. integration'[i].of = integration[i].of
        BY <3>2, <4>1 DEF GitHub!Rows
      <4> QED
        BY <2>4, <4>1, <4>2, InstallationsAssumption
    <3> QED
      BY <2>2, <3>1, <3>2
  <2> QED
    BY <1>3, <2>1, <2>3, <2>4
<1>21. ASSUME NEW r \in Handlers, GitHub!RemoveInstallation(r) PROVE GitHubTyped'
  BY <1>1, <1>2, <1>21, HandlerMoves DEF GitHub!RemoveInstallation, GitHub!At
<1>22. ASSUME NEW r \in Handlers, GitHub!RemoveIntegration(r) PROVE GitHubTyped'
  BY <1>1, <1>3, <1>22, HandlerMoves, LinkedRows DEF GitHub!RemoveIntegration, GitHub!At
<1>23. ASSUME NEW r \in Handlers, GitHub!DisconnectBegin(r) PROVE GitHubTyped'
  BY <1>1, <1>2, <1>4, <1>23, HandlerMoves DEF GitHub!DisconnectBegin, GitHub!tables
<1>24. ASSUME NEW r \in Handlers, GitHub!Disconnect(r) PROVE GitHubTyped'
  BY <1>1, <1>2, <1>24, HandlerMoves DEF GitHub!Disconnect, GitHub!tables
<1>25. ASSUME NEW r \in Handlers, GitHub!Crash(r) PROVE GitHubTyped'
  BY <1>1, <1>2, <1>25, HandlerMoves DEF GitHub!Crash, GitHub!tables
<1>26. CASE GitHub!Elsewhere
  BY <1>1, <1>2, <1>16, <1>26
     DEF GitHub!Elsewhere, GitHub!tables, GitHub!Install, GitHub!Suspend, GitHub!Unsuspend,
         GitHub!Uninstall
<1> QED
  BY <1>6, <1>7, <1>8, <1>9, <1>10, <1>11, <1>12, <1>13, <1>14, <1>15, <1>17, <1>18, <1>19,
     <1>20, <1>21, <1>22, <1>23, <1>24, <1>25, <1>26
     DEF GitHub!Next, GitHub!Handling

LEMMA GitHubInvariance == GitHub!Spec => []GitHubTyped
<1>1. GitHub!Init => GitHubTyped
  BY NoCallIsHandled, LinkedRows DEF GitHub!Init, GitHubTyped
<1>2. GitHubTyped /\ [GitHub!Next]_(GitHub!vars) => GitHubTyped'
  <2>1. GitHubTyped /\ UNCHANGED GitHub!vars => GitHubTyped'
    BY DEF GitHubTyped, GitHub!vars, GitHub!tables
  <2> QED
    BY <2>1, GitHubStep
<1> QED
  BY <1>1, <1>2, PTL DEF GitHub!Spec

-----------------------------------------------------------------------------
(* GitHubInstallation: the two tables.  When they disagree, a handler that *)
(* is between its statements is about to make them agree, or it has been   *)
(* overtaken; one that nobody has overtaken goes by what is in them.       *)

Linking(r) == handler[r].pc \in {"insert", "link", "delete", "unlink"}

FoundIsThere(r) ==
  IF handler[r].found = 0 THEN GitHub!Present = {} ELSE handler[r].found \in GitHub!Present

Aware(r) ==
  /\ handler[r].pc \in {"update", "linkall"} => handler[r].of \in GitHub!Connected
  /\ handler[r].pc \in {"clear", "insert", "link"} => FoundIsThere(r)
  /\ handler[r].pc = "insert" => GitHub!Connected = {}
  /\ handler[r].pc = "link" => GitHub!Connected = {handler[r].of}
  /\ handler[r].pc = "unlink" => handler[r].of \notin GitHub!Connected

\* What a removal leaves to do, before and after its second statement.
Deleting(n) ==
  \A i \in GitHub!Present : /\ integration[i].of \in GitHub!Connected
                            /\ integration[i].active \/ integration[i].of = n
Unlinking(n) ==
  \A i \in GitHub!Present :
    \/ integration[i].active /\ integration[i].of \in GitHub!Connected
    \/ integration[i].of = n /\ GitHub!Connected = {}

IsSomebodys == GitHub!Connected # {} => GitHub!Present # {}

Near(r) ==
  /\ handler[r].pc = "delete" => IsSomebodys /\ Deleting(handler[r].of)
  /\ handler[r].pc = "unlink" => IsSomebodys /\ Unlinking(handler[r].of)

Agree ==
  /\ IsSomebodys
  /\ \A i \in GitHub!Present : integration[i].active /\ integration[i].of \in GitHub!Connected

AtMostOne ==
  /\ \A m, n \in GitHub!Connected : m = n
  /\ \A i, j \in GitHub!Present : i = j

Explained == Agree \/ \E r \in Handlers : Linking(r) /\ (r \in overtaken \/ Near(r))

TablesInv ==
  ~broken => AtMostOne /\ Explained /\ \A r \in Handlers \ overtaken : Aware(r)

\* The tables are to a predicate what Linked shows of them.
LEMMA LinkedIs ==
  ASSUME GitHubTyped, GitHubTyped'
  PROVE  /\ GitHub!Linked' = GitHub!Linked <=>
              GitHub!Connected' = GitHub!Connected /\ integration' = integration
         /\ integration' = integration => GitHub!Present' = GitHub!Present
BY DEF GitHub!Linked, GitHub!Connected, GitHub!Present

\* A statement of r leaves what the others know as it was, or overtakes them.
LEMMA AwareStays ==
  ASSUME GitHubTyped, GitHubTyped', NEW r \in Handlers,
         \A q \in Handlers \ overtaken : Aware(q),
         \A q \in Handlers \ {r} : handler'[q] = handler[q],
         GitHub!Overtakes(r), r \in overtaken' \/ Aware(r)'
  PROVE  \A q \in Handlers \ overtaken' : Aware(q)'
<1> SUFFICES ASSUME NEW q \in Handlers \ overtaken', q # r PROVE Aware(q)'
  OBVIOUS
<1>1. handler'[q] = handler[q]
  OBVIOUS
<1>2. CASE handler[q] = GitHub!NoCall
  BY <1>1, <1>2, NoCallIsHandled DEF Aware
<1>3. CASE handler[q] # GitHub!NoCall
  <2>1. q \notin overtaken /\ GitHub!Linked' = GitHub!Linked
    BY <1>1, <1>3 DEF GitHub!Overtakes
  <2>2. GitHub!Connected' = GitHub!Connected /\ GitHub!Present' = GitHub!Present
    BY <2>1, LinkedIs
  <2>3. Aware(q)
    BY <2>1
  <2> QED
    BY <1>1, <2>2, <2>3 DEF Aware, FoundIsThere
<1> QED
  BY <1>2, <1>3

\* A disagreement that another handler explains is explained by it after the step of r,
\* which changes nothing or overtakes it.
LEMMA ExplainedStays ==
  ASSUME GitHubTyped, GitHubTyped', NEW r \in Handlers, Explained,
         \A q \in Handlers \ {r} : handler'[q] = handler[q],
         GitHub!Overtakes(r),
         Agree => Explained',
         Linking(r) /\ (r \in overtaken \/ Near(r)) => Explained'
  PROVE  Explained'
<1> SUFFICES ASSUME NEW q \in Handlers, q # r, Linking(q), q \in overtaken \/ Near(q)
             PROVE  Explained'
  BY DEF Explained
<1>1. handler'[q] = handler[q] /\ Linking(q)'
  BY DEF Linking
<1>2. handler[q] # GitHub!NoCall
  BY NoCallIsHandled DEF Linking
<1>3. CASE q \in overtaken \/ GitHub!Linked' # GitHub!Linked
  BY <1>1, <1>2, <1>3 DEF GitHub!Overtakes, Explained
<1>4. CASE q \notin overtaken /\ GitHub!Linked' = GitHub!Linked
  <2>1. /\ GitHub!Connected' = GitHub!Connected /\ integration' = integration
        /\ GitHub!Present' = GitHub!Present
    BY <1>4, LinkedIs
  <2>2. Near(q)
    BY <1>4
  <2>3. Near(q)'
    BY <1>1, <2>1, <2>2 DEF Near, IsSomebodys, Deleting, Unlinking
  <2> QED
    BY <1>1, <2>3 DEF Explained
<1> QED
  BY <1>3, <1>4

LEMMA TablesHandled ==
  ASSUME GitHubTyped, GitHubTyped', TablesInv, NEW r \in Handlers, GitHub!Handling(r),
         GitHub!Overtakes(r), broken' = (broken \/ (r \in overtaken /\ GitHub!Going(r))), ~broken'
  PROVE  AtMostOne' /\ Explained' /\ \A q \in Handlers \ overtaken' : Aware(q)'
<1> USE DEF GitHub!Begin, GitHub!Goto, GitHub!Return, GitHub!At
<1>1. /\ installed \in [Installations -> {"none", "active", "suspended"}]
      /\ integration \in [GitHub!Ids -> GitHub!Rows]
      /\ handler \in [Handlers -> Handled] /\ handler[r] \in GitHub!Calls
  BY DEF GitHubTyped, Handled
<1>2. handler[r].pc # "idle" => handler[r].of \in Installations
  BY <1>1 DEF Handled
<1>3. AtMostOne /\ Explained /\ \A q \in Handlers \ overtaken : Aware(q)
  BY DEF TablesInv
<1>4. GitHub!Going(r) => r \notin overtaken /\ Aware(r)
  BY <1>3
<1>5. Linking(r) => GitHub!Going(r)
  BY DEF Linking, GitHub!Going
<1>6. \A n \in Installations : n \in GitHub!Connected <=> installed[n] # "none"
  BY DEF GitHub!Connected
<1> DEFINE Goal == AtMostOne' /\ Explained' /\ \A q \in Handlers \ overtaken' : Aware(q)'
\* A step that changes the tables.
<1>7. ASSUME \A q \in Handlers \ {r} : handler'[q] = handler[q], AtMostOne',
             r \in overtaken' \/ Aware(r)', Agree => Explained',
             Linking(r) /\ Near(r) => Explained'
      PROVE  Goal
  <2>1. Explained'
    BY <1>3, <1>4, <1>5, <1>7, ExplainedStays
  <2>2. \A q \in Handlers \ overtaken' : Aware(q)'
    BY <1>3, <1>7, AwareStays
  <2> QED
    BY <1>7, <2>1, <2>2
\* A step that does not, of a handler that has nothing more to write.
<1>8. ASSUME \A q \in Handlers \ {r} : handler'[q] = handler[q],
             GitHub!Connected' = GitHub!Connected, integration' = integration,
             r \in overtaken' \/ Aware(r)', ~Linking(r)
      PROVE  Goal
  <2>1. GitHub!Present' = GitHub!Present
    BY <1>8 DEF GitHub!Present
  <2>2. AtMostOne'
    BY <1>3, <1>8, <2>1 DEF AtMostOne
  <2>3. Agree => Agree'
    BY <1>8, <2>1 DEF Agree, IsSomebodys
  <2> HIDE DEF Goal
  <2> QED
    BY <1>7, <1>8, <2>2, <2>3 DEF Explained
<1>9. UNCHANGED GitHub!tables =>
        /\ GitHub!Connected' = GitHub!Connected /\ integration' = integration
        /\ GitHub!Present' = GitHub!Present
  BY DEF GitHub!tables, GitHub!Connected, GitHub!Present
<1>10. handler'[r].pc \notin {"update", "linkall", "clear", "insert", "link", "unlink"} => Aware(r)'
  BY DEF Aware
<1> SUFFICES Goal
  BY DEF Goal
<1> HIDE DEF Goal
<1>11. ASSUME \A q \in Handlers \ {r} : handler'[q] = handler[q], UNCHANGED GitHub!tables,
              ~Linking(r),
              handler'[r].pc \notin {"update", "linkall", "clear", "insert", "link", "unlink"}
       PROVE  Goal
  BY <1>8, <1>9, <1>10, <1>11
<1>12. ASSUME NEW n \in Installations, GitHub!StoreBegin(r, n) PROVE Goal
  <2>1. /\ handler'[r].pc \in {"details"} /\ \A q \in Handlers \ {r} : handler'[q] = handler[q]
        /\ UNCHANGED GitHub!tables /\ handler[r].pc = "idle"
    BY <1>1, <1>12, NoCallIsHandled DEF GitHub!StoreBegin, GitHub!NoCall
  <2> QED
    BY <1>11, <2>1 DEF Linking
<1>13. ASSUME NEW n \in Installations, NEW again \in BOOLEAN, GitHub!WebhookDeleted(r, n, again)
       PROVE  Goal
  <2>1. /\ handler'[r].pc \in {"deactivate"} /\ \A q \in Handlers \ {r} : handler'[q] = handler[q]
        /\ UNCHANGED GitHub!tables /\ handler[r].pc = "idle"
    BY <1>1, <1>13, NoCallIsHandled DEF GitHub!WebhookDeleted, GitHub!NoCall
  <2> QED
    BY <1>11, <2>1 DEF Linking
<1>14. CASE GitHub!StoreDetails(r)
  <2>1. /\ handler'[r].pc \in {"look", "idle"} /\ \A q \in Handlers \ {r} : handler'[q] = handler[q]
        /\ UNCHANGED GitHub!tables /\ handler[r].pc = "details"
    BY <1>1, <1>14, NoCallIsHandled DEF GitHub!StoreDetails, GitHub!Calls
  <2> QED
    BY <1>11, <2>1 DEF Linking
<1>15. CASE GitHub!ReadIntegration(r)
  <2>1. /\ handler'[r].pc \in {"read"} /\ \A q \in Handlers \ {r} : handler'[q] = handler[q]
        /\ UNCHANGED GitHub!tables /\ handler[r].pc = "idle"
    BY <1>1, <1>15, NoCallIsHandled DEF GitHub!ReadIntegration, GitHub!NoCall
  <2> QED
    BY <1>11, <2>1 DEF Linking
<1>16. CASE GitHub!ReadInstallation(r)
  <2>1. /\ handler'[r].pc \in {"verify", "idle"} /\ \A q \in Handlers \ {r} : handler'[q] = handler[q]
        /\ UNCHANGED GitHub!tables /\ handler[r].pc = "read"
    BY <1>1, <1>16, NoCallIsHandled DEF GitHub!ReadInstallation, GitHub!Calls
  <2> QED
    BY <1>11, <2>1 DEF Linking
<1>17. CASE GitHub!Verify(r)
  <2>1. /\ handler'[r].pc \in {"deactivate", "idle"} /\ \A q \in Handlers \ {r} : handler'[q] = handler[q]
        /\ UNCHANGED GitHub!tables /\ handler[r].pc = "verify"
    BY <1>1, <1>17, NoCallIsHandled DEF GitHub!Verify, GitHub!Calls
  <2> QED
    BY <1>11, <2>1 DEF Linking
<1>18. CASE GitHub!DisconnectBegin(r)
  <2>1. /\ handler'[r].pc \in {"uninstall"} /\ \A q \in Handlers \ {r} : handler'[q] = handler[q]
        /\ UNCHANGED GitHub!tables /\ handler[r].pc = "idle"
    BY <1>1, <1>18, NoCallIsHandled DEF GitHub!DisconnectBegin, GitHub!NoCall
  <2> QED
    BY <1>11, <2>1 DEF Linking
<1>19. CASE GitHub!Disconnect(r)
  <2>1. /\ handler'[r].pc \in {"idle"} /\ \A q \in Handlers \ {r} : handler'[q] = handler[q]
        /\ UNCHANGED GitHub!tables /\ handler[r].pc = "uninstall"
    BY <1>1, <1>19, NoCallIsHandled DEF GitHub!Disconnect, GitHub!Calls
  <2> QED
    BY <1>11, <2>1 DEF Linking
<1>20. CASE GitHub!StoreLook(r)
  <2>1. /\ handler'[r].pc = IF installed[handler[r].of] # "none" THEN "update" ELSE "find"
        /\ handler'[r].of = handler[r].of /\ handler[r].pc = "look"
        /\ \A q \in Handlers \ {r} : handler'[q] = handler[q]
        /\ UNCHANGED GitHub!tables
    BY <1>1, <1>20 DEF GitHub!StoreLook, GitHub!Calls
  <2>2. Aware(r)'
    BY <1>2, <1>6, <1>9, <2>1 DEF Aware
  <2> QED
    BY <1>8, <1>9, <2>1, <2>2 DEF Linking
<1>21. CASE GitHub!StoreFind(r)
  <2>1. /\ \A q \in Handlers \ {r} : handler'[q] = handler[q]
        /\ UNCHANGED GitHub!tables /\ handler[r].pc = "find"
    BY <1>1, <1>21 DEF GitHub!StoreFind
  <2>2. PICK i \in IF GitHub!Present = {} THEN {0} ELSE GitHub!Present :
          handler' = [handler EXCEPT ![r] = [handler[r] EXCEPT !.pc = "clear", !.found = i]]
    BY <1>21 DEF GitHub!StoreFind, GitHub!Earlier
  <2>3. handler'[r].pc = "clear" /\ handler'[r].found = i
    BY <1>1, <2>2 DEF GitHub!Calls
  <2>4. IF i = 0 THEN GitHub!Present = {} ELSE i \in GitHub!Present
    BY <2>2, InstallationsAssumption DEF GitHub!Present, GitHub!Ids
  <2>5. Aware(r)'
    BY <1>9, <2>1, <2>3, <2>4 DEF Aware, FoundIsThere
  <2> QED
    BY <1>8, <1>9, <2>1, <2>5 DEF Linking
<1>22. CASE GitHub!StoreUpdate(r)
  <2>1. /\ \A q \in Handlers \ {r} : handler'[q] = handler[q]
        /\ integration' = integration /\ handler[r].pc = "update"
        /\ handler'[r].pc = "linkall" /\ handler'[r].of = handler[r].of
    BY <1>1, <1>22 DEF GitHub!StoreUpdate, GitHub!Calls
  <2>2. handler[r].of \in GitHub!Connected
    BY <1>4, <2>1 DEF GitHub!Going, Aware
  <2>3. installed' = [installed EXCEPT ![handler[r].of] = "active"]
    BY <1>6, <1>22, <2>2 DEF GitHub!StoreUpdate, GitHub!Connected
  <2>4. GitHub!Connected' = GitHub!Connected
    BY <1>1, <2>2, <2>3 DEF GitHub!Connected
  <2>5. Aware(r)'
    BY <2>1, <2>2, <2>4 DEF Aware
  <2> QED
    BY <1>8, <2>1, <2>4, <2>5 DEF Linking
<1>23. CASE GitHub!StoreLinkAll(r)
  <2> DEFINE n == handler[r].of
  <2>1. /\ \A q \in Handlers \ {r} : handler'[q] = handler[q]
        /\ installed' = installed /\ handler[r].pc = "linkall" /\ handler'[r].pc = "idle"
    BY <1>1, <1>23, NoCallIsHandled DEF GitHub!StoreLinkAll
  <2>2. \A i \in GitHub!Ids :
          /\ i \in GitHub!Present => integration'[i] = GitHub!LinkedTo(n)
          /\ i \notin GitHub!Present => integration'[i] = GitHub!NoRow
    BY <1>23 DEF GitHub!StoreLinkAll
  <2>3. n \in GitHub!Connected /\ GitHub!Connected' = GitHub!Connected
    BY <1>4, <2>1 DEF GitHub!Going, Aware, GitHub!Connected
  <2>4. n \in Installations
    BY <1>2, <2>1
  <2>5. GitHub!Present' = GitHub!Present
    BY <2>2, <2>4, LinkedRows DEF GitHub!Present
  <2>6. AtMostOne'
    BY <1>3, <2>3, <2>5 DEF AtMostOne
  <2>7. ASSUME Agree PROVE Agree'
    <3>1. \A i \in GitHub!Present : integration'[i].active /\ integration'[i].of = n
      BY <2>2, <2>4, LinkedRows DEF GitHub!Present
    <3> QED
      BY <2>3, <2>5, <2>7, <3>1 DEF Agree, IsSomebodys
  <2>8. Aware(r)' /\ ~Linking(r)
    BY <1>10, <2>1 DEF Linking
  <2> QED
    BY <1>7, <2>1, <2>6, <2>7, <2>8 DEF Explained
<1>24. CASE GitHub!StoreClear(r)
  <2>1. /\ \A q \in Handlers \ {r} : handler'[q] = handler[q]
        /\ integration' = integration /\ handler[r].pc = "clear" /\ handler'[r].pc = "insert"
        /\ handler'[r].found = handler[r].found
    BY <1>1, <1>24 DEF GitHub!StoreClear, GitHub!Calls
  <2>2. GitHub!Connected' = {} /\ GitHub!Present' = GitHub!Present
    BY <1>24, <2>1 DEF GitHub!StoreClear, GitHub!Connected, GitHub!Present
  <2>3. FoundIsThere(r)
    BY <1>4, <2>1 DEF GitHub!Going, Aware
  <2>4. Aware(r)'
    BY <2>1, <2>2, <2>3 DEF Aware, FoundIsThere
  <2>5. AtMostOne' /\ Explained'
    BY <1>3, <2>1, <2>2 DEF AtMostOne, Explained, Linking, Near
  <2> QED
    BY <1>7, <2>1, <2>4, <2>5
<1>25. CASE GitHub!StoreInsert(r)
  <2> DEFINE n == handler[r].of
  <2>1. handler[r].pc = "insert" /\ n \in Installations
    BY <1>2, <1>25 DEF GitHub!StoreInsert
  <2>2. GitHub!Connected = {} /\ FoundIsThere(r)
    BY <1>4, <2>1 DEF GitHub!Going, Aware
  <2>3. installed' = [installed EXCEPT ![n] = "active"] /\ GitHub!Goto(r, "link")
    BY <1>6, <1>25, <2>1, <2>2 DEF GitHub!StoreInsert
  <2>4. /\ \A q \in Handlers \ {r} : handler'[q] = handler[q]
        /\ integration' = integration /\ handler'[r].pc = "link"
        /\ handler'[r].of = n /\ handler'[r].found = handler[r].found
    BY <1>1, <1>25, <2>3 DEF GitHub!StoreInsert, GitHub!Calls
  <2>5. GitHub!Connected' = {n} /\ GitHub!Present' = GitHub!Present
    BY <1>1, <1>6, <2>1, <2>2, <2>3, <2>4 DEF GitHub!Connected, GitHub!Present
  <2>6. Aware(r)'
    BY <2>2, <2>4, <2>5 DEF Aware, FoundIsThere
  <2>7. AtMostOne' /\ Explained'
    BY <1>3, <2>4, <2>5 DEF AtMostOne, Explained, Linking, Near
  <2> QED
    BY <1>7, <2>4, <2>6, <2>7
<1>26. CASE GitHub!StoreLink(r)
  <2> DEFINE n == handler[r].of
             i == IF handler[r].found = 0 THEN inserted + 1 ELSE handler[r].found
  <2>1. /\ \A q \in Handlers \ {r} : handler'[q] = handler[q]
        /\ installed' = installed /\ handler[r].pc = "link" /\ handler'[r].pc = "idle"
        /\ n \in Installations
    BY <1>1, <1>2, <1>26, NoCallIsHandled DEF GitHub!StoreLink
  <2>2. GitHub!Connected = {n} /\ FoundIsThere(r)
    BY <1>4, <2>1 DEF GitHub!Going, Aware
  <2>3. i \in GitHub!Ids /\ integration' = [integration EXCEPT ![i] = GitHub!LinkedTo(n)]
    BY <1>26, <2>2 DEF GitHub!StoreLink, FoundIsThere, GitHub!Present
  <2>4. \A j \in GitHub!Present : j = i
    BY <1>3, <2>2 DEF AtMostOne, FoundIsThere
  <2>5. GitHub!Connected' = {n}
    BY <2>1, <2>2 DEF GitHub!Connected
  <2>6. integration'[i] = GitHub!LinkedTo(n)
    BY <1>1, <2>3
  <2> HIDE DEF i
  <2>7. GitHub!Present' = {i}
    BY <1>1, <2>1, <2>3, <2>4, <2>6, LinkedRows DEF GitHub!Present
  <2>8. AtMostOne' /\ Agree'
    BY <2>1, <2>5, <2>6, <2>7, LinkedRows DEF AtMostOne, Agree, IsSomebodys
  <2> QED
    BY <1>7, <1>10, <2>1, <2>8 DEF Explained
<1>27. CASE GitHub!RemoveDeactivate(r)
  <2> DEFINE n == handler[r].of
  <2>1. /\ \A q \in Handlers \ {r} : handler'[q] = handler[q]
        /\ installed' = installed /\ handler[r].pc = "deactivate" /\ handler'[r].pc = "delete"
        /\ handler'[r].of = n /\ n \in Installations
    BY <1>1, <1>2, <1>27 DEF GitHub!RemoveDeactivate, GitHub!Calls
  <2>2. \A i \in GitHub!Ids :
          /\ integration'[i] = GitHub!NoRow <=> integration[i] = GitHub!NoRow
          /\ integration'[i].of = integration[i].of
          /\ integration[i].active => integration'[i].active \/ integration[i].of = n
    BY <1>1, <1>27, <2>1, InstallationsAssumption
       DEF GitHub!RemoveDeactivate, GitHub!Rows, GitHub!NoRow, GitHub!Present
  <2>3. GitHub!Connected' = GitHub!Connected /\ GitHub!Present' = GitHub!Present
    BY <2>1, <2>2 DEF GitHub!Connected, GitHub!Present
  <2>4. AtMostOne'
    BY <1>3, <2>3 DEF AtMostOne
  <2>5. ASSUME Agree PROVE Near(r)'
    BY <2>1, <2>2, <2>3, <2>5 DEF Agree, Near, IsSomebodys, Deleting, GitHub!Present
  <2>6. Linking(r)' /\ ~Linking(r)
    BY <2>1 DEF Linking
  <2> QED
    BY <1>7, <1>10, <2>1, <2>4, <2>5, <2>6 DEF Explained
<1>28. CASE GitHub!RemoveInstallation(r)
  <2> DEFINE n == handler[r].of
  <2>1. /\ \A q \in Handlers \ {r} : handler'[q] = handler[q]
        /\ integration' = integration /\ handler[r].pc = "delete" /\ handler'[r].pc = "unlink"
        /\ handler'[r].of = n /\ n \in Installations
    BY <1>1, <1>2, <1>28 DEF GitHub!RemoveInstallation, GitHub!Calls
  <2>2. GitHub!Connected' = GitHub!Connected \ {n} /\ GitHub!Present' = GitHub!Present
    BY <1>1, <1>28, <2>1 DEF GitHub!RemoveInstallation, GitHub!Connected, GitHub!Present
  <2>3. AtMostOne' /\ Aware(r)' /\ Linking(r)'
    BY <1>3, <2>1, <2>2 DEF AtMostOne, Aware, Linking
  <2>4. ASSUME IsSomebodys, Deleting(n) PROVE Near(r)'
    <3>1. IsSomebodys'
      BY <2>2, <2>4 DEF IsSomebodys
    <3>2. Unlinking(n)'
      BY <1>3, <2>1, <2>2, <2>4 DEF Unlinking, Deleting, AtMostOne
    <3> QED
      BY <2>1, <3>1, <3>2 DEF Near, Unlinking
  <2>5. Agree => IsSomebodys /\ Deleting(n)
    BY DEF Agree, Deleting
  <2>6. Near(r) => IsSomebodys /\ Deleting(n)
    BY <2>1 DEF Near
  <2> QED
    BY <1>7, <2>1, <2>3, <2>4, <2>5, <2>6 DEF Explained
<1>29. CASE GitHub!RemoveIntegration(r)
  <2> DEFINE n == handler[r].of
  <2>1. /\ \A q \in Handlers \ {r} : handler'[q] = handler[q]
        /\ installed' = installed /\ handler[r].pc = "unlink" /\ handler'[r].pc = "idle"
        /\ n \in Installations
    BY <1>1, <1>2, <1>29, NoCallIsHandled DEF GitHub!RemoveIntegration
  <2>2. n \notin GitHub!Connected /\ GitHub!Connected' = GitHub!Connected
    BY <1>4, <2>1 DEF GitHub!Going, Aware, GitHub!Connected
  <2>3. \A i \in GitHub!Ids :
          integration'[i] = IF integration[i].of = n THEN GitHub!NoRow ELSE integration[i]
    BY <1>29 DEF GitHub!RemoveIntegration, GitHub!Unlinked
  <2>4. GitHub!Present' = {i \in GitHub!Present : integration[i].of # n}
    BY <2>1, <2>3 DEF GitHub!Present
  <2>5. AtMostOne'
    BY <1>3, <2>2, <2>4 DEF AtMostOne
  <2>6. ASSUME IsSomebodys, Unlinking(n) PROVE Agree'
    <3>1. \A i \in GitHub!Present' : integration'[i] = integration[i] /\ integration[i].of # n
      BY <2>3, <2>4 DEF GitHub!Present
    <3>2. IsSomebodys'
      BY <2>2, <2>4, <2>6 DEF IsSomebodys, Unlinking
    <3> QED
      BY <2>2, <2>4, <2>6, <3>1, <3>2 DEF Agree, Unlinking
  <2>7. Agree => IsSomebodys /\ Unlinking(n)
    BY DEF Agree, Unlinking
  <2>8. Near(r) => IsSomebodys /\ Unlinking(n)
    BY <2>1 DEF Near
  <2> QED
    BY <1>7, <1>10, <2>1, <2>5, <2>6, <2>7, <2>8 DEF Explained
<1> QED
  BY <1>12, <1>13, <1>14, <1>15, <1>16, <1>17, <1>18, <1>19, <1>20, <1>21, <1>22, <1>23,
     <1>24, <1>25, <1>26, <1>27, <1>28, <1>29
     DEF GitHub!Handling

LEMMA TablesStep ==
  ASSUME GitHubTyped, GitHubTyped', TablesInv, [GitHub!Next]_(GitHub!vars)
  PROVE  TablesInv'
<1>1. ASSUME NEW r \in Handlers, GitHub!Handling(r), GitHub!Overtakes(r),
             broken' = (broken \/ (r \in overtaken /\ GitHub!Going(r)))
      PROVE  TablesInv'
  BY <1>1, TablesHandled DEF TablesInv
<1>2. ASSUME NEW r \in Handlers, GitHub!Crash(r), GitHub!Overtakes(r),
             broken' = (broken \/ GitHub!Begun(r)), ~broken'
      PROVE  AtMostOne' /\ Explained' /\ \A q \in Handlers \ overtaken' : Aware(q)'
  <2>1. /\ \A q \in Handlers \ {r} : handler'[q] = handler[q]
        /\ handler'[r].pc = "idle" /\ UNCHANGED GitHub!tables
    BY <1>2, NoCallIsHandled DEF GitHub!Crash, GitHub!Return, GitHubTyped
  <2>2. /\ GitHub!Connected' = GitHub!Connected /\ integration' = integration
        /\ GitHub!Present' = GitHub!Present
    BY <2>1 DEF GitHub!tables, GitHub!Connected, GitHub!Present
  <2>3. AtMostOne /\ Explained /\ \A q \in Handlers \ overtaken : Aware(q)
    BY <1>2 DEF TablesInv
  <2>4. AtMostOne'
    BY <2>2, <2>3 DEF AtMostOne
  <2>5. Agree => Explained'
    BY <2>2 DEF Agree, IsSomebodys, Explained
  <2>6. ~Linking(r)
    BY <1>2 DEF Linking, GitHub!Begun
  <2>7. Explained'
    BY <1>2, <2>1, <2>3, <2>5, <2>6, ExplainedStays
  <2>8. Aware(r)'
    BY <2>1 DEF Aware
  <2>9. \A q \in Handlers \ overtaken' : Aware(q)'
    BY <1>2, <2>1, <2>3, <2>8, AwareStays
  <2> QED
    BY <2>4, <2>7, <2>9
<1>3. ASSUME integration' = integration, GitHub!Connected' = GitHub!Connected,
             UNCHANGED <<handler, overtaken, broken>>
      PROVE  TablesInv'
  <2>1. GitHub!Present' = GitHub!Present
    BY <1>3 DEF GitHub!Present
  <2> QED
    BY <1>3, <2>1
       DEF TablesInv, AtMostOne, Explained, Agree, Near, IsSomebodys, Deleting, Unlinking,
           Linking, Aware, FoundIsThere
<1>4. ASSUME GitHub!Elsewhere, UNCHANGED <<overtaken, broken>> PROVE TablesInv'
  <2>1. integration' = integration /\ handler' = handler
    BY <1>4
       DEF GitHub!Elsewhere, GitHub!tables, GitHub!Install, GitHub!Suspend,
           GitHub!Unsuspend, GitHub!Uninstall, GitHub!WebhookSuspension
  <2>2. \/ installed' = installed
        \/ \E kind \in GitHub!Kinds, n \in Installations : GitHub!WebhookSuspension(kind, n)
    BY <1>4
       DEF GitHub!Elsewhere, GitHub!tables, GitHub!Install, GitHub!Suspend,
           GitHub!Unsuspend, GitHub!Uninstall
  <2>3. GitHub!Connected' = GitHub!Connected
    BY <2>2 DEF GitHub!WebhookSuspension, GitHub!Connected, GitHubTyped
  <2> QED
    BY <1>3, <1>4, <2>1, <2>3
<1>5. CASE UNCHANGED GitHub!vars
  BY <1>3, <1>5 DEF GitHub!vars, GitHub!tables, GitHub!Connected
<1> QED
  BY <1>1, <1>2, <1>4, <1>5 DEF GitHub!Next, TablesInv

\* TablesAgree: with nothing in flight both tables name the same installation, or none,
\* unless two handlers overlapped or one was cut off between its statements.
THEOREM BothTablesAgree == GitHub!Spec => []TablesAgree
<1>1. ASSUME GitHub!Init PROVE TablesInv
  <2>1. GitHub!Connected = {} /\ GitHub!Present = {}
    BY <1>1 DEF GitHub!Init, GitHub!Connected, GitHub!Present
  <2>2. \A r \in Handlers : Aware(r)
    BY <1>1, NoCallIsHandled DEF GitHub!Init, Aware
  <2> QED
    BY <2>1, <2>2 DEF TablesInv, AtMostOne, Explained, Agree, IsSomebodys
<1>2. GitHubTyped /\ GitHubTyped' /\ TablesInv /\ [GitHub!Next]_(GitHub!vars) => TablesInv'
  BY TablesStep
<1>3. TablesInv => TablesAgree
  <2> SUFFICES ASSUME TablesInv, GitHub!Quiet, ~broken
               PROVE  /\ GitHub!Cardinality(GitHub!Connected) <= 1
                      /\ GitHub!Cardinality(GitHub!Present) = GitHub!Cardinality(GitHub!Connected)
                      /\ \A i \in GitHub!Present : /\ integration[i].active
                                                   /\ integration[i].of \in GitHub!Connected
    BY DEF TablesAgree, GitHub!TablesAgree
  <2>1. AtMostOne /\ Agree
    BY NoCallIsHandled DEF TablesInv, Explained, Linking, GitHub!Quiet
  <2>2. CASE GitHub!Connected = {}
    <3>1. GitHub!Present = {}
      BY <2>1, <2>2 DEF Agree
    <3> QED
      BY <2>1, <2>2, <3>1, FS_EmptySet DEF Agree, GitHub!Cardinality, Cardinality
  <2>3. CASE GitHub!Connected # {}
    <3>1. PICK n \in GitHub!Connected, i \in GitHub!Present : TRUE
      BY <2>1, <2>3 DEF Agree, IsSomebodys
    <3>2. GitHub!Connected = {n} /\ GitHub!Present = {i}
      BY <2>1, <3>1 DEF AtMostOne
    <3>3. GitHub!Cardinality(GitHub!Connected) = 1 /\ GitHub!Cardinality(GitHub!Present) = 1
      BY <3>2, FS_Singleton DEF GitHub!Cardinality, Cardinality
    <3> QED
      BY <2>1, <3>3 DEF Agree
  <2> QED
    BY <2>2, <2>3
<1> QED
  BY <1>1, <1>2, <1>3, GitHubInvariance, PTL DEF GitHub!Spec
=============================================================================
