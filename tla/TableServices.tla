--------------------------- MODULE TableServices ---------------------------
(***************************************************************************)
(* The three services of the API that keep tables of their own: the        *)
(* sharing of a workspace, the model credentials and the installations at  *)
(* GitHub.  They share no state; here each has constants and variables of  *)
(* its own, so that one module can run them and one can prove what they    *)
(* promise.                                                                *)
(***************************************************************************)
EXTENDS Integers, FiniteSets

CONSTANTS
  Handlers,                   \* the invocations of each that may be in flight
  People, Owner,              \* of WorkspaceSharing
  MaxCollaborators,           \* its limit
  MaxInvites,                 \* and the bound on its tokens
  MaxCredentials, MaxTokens,  \* the bounds of ModelCredentials
  Installations, MaxRows      \* of GitHubInstallation

\* The owner of the workspace is not invited to it.
ASSUME SharingAssumption ==
  /\ IsFiniteSet(People) /\ Owner \notin People
  /\ MaxCollaborators \in Nat /\ MaxInvites \in Nat

\* A credential is stored with its first token.
ASSUME CredentialsAssumption == MaxCredentials \in Nat /\ MaxTokens \in Nat \ {0}

VARIABLES
  invite, granted, team, members, attached, issued, withdrawn, accepted, raced, call,
  cred, count, current, fresh, asked, changed, cut, lost,
  github, mail, installed, integration, inserted, handler, overtaken, broken

sharing == <<invite, granted, team, members, attached, issued, withdrawn, accepted, raced, call>>
credentials == <<cred, count, current, fresh, asked, changed, cut, lost>>
installations == <<github, mail, installed, integration, inserted, handler, overtaken, broken>>

Sharing == INSTANCE WorkspaceSharing WITH
  Requests <- Handlers, access <- granted, granted <- accepted, req <- call

Credentials == INSTANCE ModelCredentials WITH
  Requests <- Handlers, req <- asked, stale <- changed, torn <- cut

GitHub == INSTANCE GitHubInstallation WITH
  Requests <- Handlers, made <- inserted, req <- handler, stale <- overtaken, torn <- broken

\* That there is no installation is not the id of one.
ASSUME InstallationsAssumption == MaxRows \in Nat /\ GitHub!Nowhere \notin Installations

-----------------------------------------------------------------------------
\* WorkspaceSharing: the limit holds unless a count is overtaken.
SeatsAreLimited == Sharing!SeatsAreLimited

\* WorkspaceSharing: a token that was withdrawn is not accepted.
WithdrawnGrantsNothing == Sharing!WithdrawnGrantsNothing

\* ModelCredentials: while a credential is active, one is the default.
DefaultIsKept == Credentials!DefaultIsKept

\* ModelCredentials: the stored token is the one that the provider takes.
NoTokenIsLost == Credentials!NoTokenIsLost

\* GitHubInstallation: both tables name one installation, however late a webhook is.
TablesAgree == GitHub!TablesAgree

(* What a comment or a message says, and the code does not do.             *)

\* WorkspaceSharing: the limit of collaborators.
SeatsNeverExceed == Sharing!SeatsNeverExceed

\* WorkspaceSharing: an accepted invitation is not declined.
AcceptedStaysAccepted == Sharing!AcceptedStaysAccepted

\* ModelCredentials: a revoked credential starts no run.
RevokedIsNotUsed == Credentials!RevokedIsNotUsed

\* GitHubInstallation: who is told of a connection has one.
StoredIsConnected == GitHub!StoredIsConnected

\* GitHubInstallation: a suspension is not forgotten.
SuspensionIsKnown == GitHub!SuspensionIsKnown
=============================================================================
