--------------------------- MODULE WorkspacePorts ---------------------------
(***************************************************************************)
(* The ports a workspace exposes: the column `exposed_ports`, which every  *)
(* handler reads, and writes back whole after its call to the provider,    *)
(* the domains the provider has made, and the access headers of the ports. *)
(*                                                                         *)
(* Railway makes a new domain each time one is asked for, and refuses to   *)
(* remove one that is gone.  At AWS a domain is a rule of the listener,    *)
(* which looks for the rule of the port first, and makes one when it finds *)
(* none or the lookup fails.  Removing it always returns, as errors are    *)
(* swallowed: the rule may stay.  The service is deleted with its domains  *)
(* at Railway; at AWS they stay.                                           *)
(*                                                                         *)
(* An operator whose name ends in _Bug is no part of the model: it is the  *)
(* operator after it with a plausible mistake, and PROJECT.json says which *)
(* property catches it.                                                    *)
(***************************************************************************)
EXTENDS Integers, Sequences, Functions

CONSTANTS
  Ports,
  Requests,    \* handler invocations that may be in flight at once
  MaxDomains   \* a bound on the domains that are ever made

ASSUME PortsAssumption == MaxDomains \in Nat /\ Ports # {}

VARIABLES
  provider,  \* "railway" or "aws"
  row,       \* exposed_ports: the domain of each port, 0 for none
  ended,     \* is the status terminated?
  access,    \* the ports with a row of workspace_route_access
  service,   \* does the service of the workspace exist?
  domains,   \* the domains that exist at the provider, but for those in `kept`
  kept,      \* the rules AWS did not remove when it was asked to, without a word
  made,      \* the port of each domain, in the order they were made
  req,       \* the handler invocations
  stale,     \* those that another one has overtaken
  torn       \* has something happened that no handler allows for?

world == <<row, ended, access, service, domains>>
vars == <<provider, world, kept, made, req, stale, torn>>

-----------------------------------------------------------------------------
Domains == 1..MaxDomains
Rows == [Ports -> {0} \cup Domains]
NoPorts == [p \in Ports |-> 0]
NoPort == CHOOSE p \in Ports : TRUE

Listed(r) == Range(r) \ {0}
Open(r) == {p \in Ports : r[p] # 0}

\* seen: the row that was read.  left: the ports whose domains a deletion has still
\* to remove.  acted: has the provider done anything?
Calls == [op : {"none", "open", "close", "delete", "reap"},
          pc : {"idle", "create", "late", "remove", "row", "access", "end", "drop",
                "purge", "service", "clear"},
          port : Ports, seen : Rows, domain : {0} \cup Domains,
          left : SUBSET Ports, acted : BOOLEAN]
NoCall == [op |-> "none", pc |-> "idle", port |-> NoPort, seen |-> NoPorts, domain |-> 0,
           left |-> {}, acted |-> FALSE]

Init ==
  /\ provider \in {"railway", "aws"}
  /\ row = NoPorts /\ ended = FALSE /\ access = {}
  /\ service = TRUE /\ domains = {} /\ kept = {} /\ made = <<>>
  /\ req = [r \in Requests |-> NoCall]
  /\ stale = {} /\ torn = FALSE

At(r, pc) == req[r].pc = pc
Begin(r, op, p, pc) ==
  /\ req[r] = NoCall
  /\ req' = [req EXCEPT ![r] = [NoCall EXCEPT !.op = op, !.pc = pc, !.port = p, !.seen = row,
                                              !.left = Open(row)]]
Goto(r, pc) == req' = [req EXCEPT ![r].pc = pc]
Acted(r, pc) == req' = [req EXCEPT ![r].pc = pc, ![r].acted = TRUE]
Return(r) == req' = [req EXCEPT ![r] = NoCall]

\* A handler has changed something since another one began.
Overtakes(r) ==
  stale' = {q \in Requests : /\ req'[q] # NoCall
                             /\ \/ q \in stale
                                \/ q # r /\ req[q] # NoCall /\ world' # world}

\* Something goes wrong in itself, or a handler that was overtaken writes.
Spoils(cond) == torn' = (torn \/ cond)
Writes(r) == Spoils(r \in stale)

-----------------------------------------------------------------------------
(* Opening.                                                                *)

\* openPort of the agent looks at the status, openWorkspacePort does not.
OpenBegin(r, p, agent) ==
  /\ agent => ~ended
  /\ Begin(r, "open", p, "create")
  /\ UNCHANGED <<provider, world, kept, made, torn>>

\* createOrGetExposedPortDomain: a new domain, or at AWS one that a lookup has found.
Offered(p) ==
  {Len(made) + 1} \cup {d \in domains \cup kept : provider = "aws" /\ made[d] = p}

CreateDomain(r) ==
  /\ At(r, "create") \/ At(r, "late")
  /\ service
  /\ \E d \in Offered(req[r].port) \cap Domains :
       /\ domains' = domains \cup {d} /\ kept' = kept \ {d}
       /\ made' = IF d > Len(made) THEN Append(made, req[r].port) ELSE made
       /\ IF At(r, "late") THEN Return(r) /\ Spoils(TRUE)
          ELSE /\ req' = [req EXCEPT ![r].pc = "row", ![r].domain = d, ![r].acted = TRUE]
               /\ UNCHANGED torn
  /\ UNCHANGED <<provider, row, ended, access, service>>

\* withPortDomainTimeout gives up, the provider does not.  Only openPort has it; a
\* dashboard request whose process dies here is like it.
OpenTimeout(r) ==
  /\ At(r, "create") /\ Goto(r, "late")
  /\ UNCHANGED <<provider, world, kept, made, torn>>

-----------------------------------------------------------------------------
(* Closing.                                                                *)

\* closePort, closeWorkspacePort
CloseBegin(r, p) ==
  /\ Begin(r, "close", p, IF row[p] = 0 THEN "row" ELSE "remove")
  /\ UNCHANGED <<provider, world, kept, made, torn>>

\* removeExposedPortDomain: does it return?
Removable(d) == provider = "aws" \/ d \in domains

\* It has returned.  What AWS failed to remove is still there.
Removes(d) ==
  /\ domains' = domains \ {d}
  /\ \/ kept' = kept \ {d}
     \/ provider = "aws" /\ kept' = kept \cup ({d} \cap domains)

CloseRemove(r) ==
  /\ At(r, "remove")
  /\ LET d == req[r].seen[req[r].port] IN
     IF Removable(d) THEN Removes(d) /\ Acted(r, "row")
     ELSE Return(r) /\ UNCHANGED <<domains, kept>>
  /\ UNCHANGED <<provider, row, ended, access, service, made, torn>>

\* The columns are written whole, from what was read.
NewRow_Bug(r) ==
  IF req[r].op = "close" THEN req[r].seen
  ELSE [req[r].seen EXCEPT ![req[r].port] = req[r].domain]

NewRow(r) == [req[r].seen EXCEPT ![req[r].port] = req[r].domain]

\* Opening a port again leaves the domain Railway made for it before, and that which a
\* failing lookup at AWS did not find; and AWS makes one for a workspace that has ended,
\* as long as its service is there.
WriteRow(r) ==
  /\ At(r, "row")
  /\ row' = NewRow(r)
  /\ Spoils(\/ r \in stale
            \/ /\ req[r].op = "open"
               /\ ended \/ row[req[r].port] \notin {0, req[r].domain})
  /\ Goto(r, "access")
  /\ UNCHANGED <<provider, ended, access, service, domains, kept, made>>

WriteAccess(r) ==
  /\ At(r, "access")
  /\ LET p == req[r].port IN
     access' = IF req[r].op = "open" /\ provider = "aws" THEN access \cup {p}
               ELSE access \ {p}
  /\ Writes(r)
  /\ Return(r)
  /\ UNCHANGED <<provider, row, ended, service, domains, kept, made>>

-----------------------------------------------------------------------------
(* The end of the workspace.                                               *)

\* deleteWorkspace: AWS is cleaned up after the answer.  terminateWorkspaceInternal
\* always cleans up first.
DeleteBegin(r) ==
  /\ Begin(r, "delete", NoPort, IF provider = "aws" THEN "end" ELSE "purge")
  /\ UNCHANGED <<provider, world, kept, made, torn>>

ReapBegin(r) ==
  /\ Begin(r, "reap", NoPort, "purge")
  /\ UNCHANGED <<provider, world, kept, made, torn>>

\* The loop over what was read, one domain at a time.
Purge(r, p) ==
  /\ At(r, "purge") /\ p \in req[r].left
  /\ LET d == req[r].seen[p] IN
     IF Removable(d)
     THEN /\ Removes(d)
          /\ req' = [req EXCEPT ![r].left = @ \ {p}, ![r].acted = TRUE]
          /\ UNCHANGED torn
     ELSE Return(r) /\ Spoils(req[r].acted) /\ UNCHANGED <<domains, kept>>
  /\ UNCHANGED <<provider, row, ended, access, service, made>>

\* terminateWorkspace of the provider; AWS swallows that there is nothing.
EndService(r) ==
  /\ At(r, "purge") /\ req[r].left = {}
  /\ IF service \/ provider = "aws"
     THEN /\ service' = FALSE
          /\ domains' = IF provider = "railway" THEN {} ELSE domains
          /\ Acted(r, IF req[r].op = "delete" THEN "clear" ELSE "end")
     ELSE Return(r) /\ UNCHANGED <<service, domains>>
  /\ UNCHANGED <<provider, row, ended, access, kept, made, torn>>

\* The last statement of the cleanup of deleteWorkspace.
ClearRow(r) ==
  /\ At(r, "clear")
  /\ row' = NoPorts
  /\ Writes(r)
  /\ IF provider = "aws" THEN Return(r) ELSE Goto(r, "end")
  /\ UNCHANGED <<provider, ended, access, service, domains, kept, made>>

\* deleteWorkspace clears the column here, terminateWorkspaceInternal leaves it.
EndRow(r) ==
  /\ At(r, "end")
  /\ ended' = TRUE
  /\ row' = IF req[r].op = "delete" THEN NoPorts ELSE row
  /\ Writes(r)
  /\ Goto(r, "drop")
  /\ UNCHANGED <<provider, access, service, domains, kept, made>>

\* deleteAllWorkspaceRouteAccess
DropAccess(r) ==
  /\ At(r, "drop")
  /\ access' = {}
  /\ Writes(r)
  /\ IF req[r].acted THEN Return(r) ELSE Goto(r, "purge")
  /\ UNCHANGED <<provider, row, ended, service, domains, kept, made>>

-----------------------------------------------------------------------------
\* The provider fails, or the API process dies.
Fail(r) ==
  /\ req[r] # NoCall
  /\ Return(r)
  /\ Spoils(req[r].acted \/ At(r, "row") \/ At(r, "drop") \/ (At(r, "purge") /\ ended))
  /\ UNCHANGED <<provider, world, kept, made>>

Handling(r) ==
  \/ \E p \in Ports :
       \/ \E agent \in BOOLEAN : OpenBegin(r, p, agent)
       \/ CloseBegin(r, p) \/ Purge(r, p)
  \/ CreateDomain(r) \/ OpenTimeout(r) \/ CloseRemove(r)
  \/ WriteRow(r) \/ WriteAccess(r)
  \/ DeleteBegin(r) \/ ReapBegin(r) \/ EndService(r) \/ ClearRow(r) \/ EndRow(r)
  \/ DropAccess(r) \/ Fail(r)

Next == \E r \in Requests : Handling(r) /\ Overtakes(r)

Spec == Init /\ [][Next]_vars

-----------------------------------------------------------------------------
Quiet == \A r \in Requests : req[r] = NoCall

\* The column, the domains and the headers have their types; only AWS keeps rules.
TypeOK ==
  /\ provider \in {"railway", "aws"}
  /\ row \in Rows
  /\ ended \in BOOLEAN /\ service \in BOOLEAN
  /\ access \subseteq Ports /\ domains \subseteq Domains
  /\ made \in Seq(Ports) /\ Len(made) <= MaxDomains
  /\ domains \cup kept \subseteq DOMAIN made /\ domains \cap kept = {}
  /\ provider = "railway" => kept = {}
  /\ req \in [Requests -> Calls]
  /\ stale \subseteq Requests /\ torn \in BOOLEAN

\* When nothing is in flight and nothing was torn, the domains at the provider are
\* those of the column, a port has access headers just where AWS serves it, and a
\* workspace that was deleted has neither: but for the rules that AWS has failed to
\* remove and kept, no domain outlives the column, and the column lists none that is gone.
PortsAreServed ==
  Quiet /\ ~torn =>
    IF ended THEN domains = {} /\ access = {}
    ELSE /\ domains = Listed(row)
         /\ access = IF provider = "aws" THEN Open(row) ELSE {}

\* A domain in the column can be removed, or the workspace can neither close the
\* port nor be deleted ("Workspace port closed successfully", managment.ts:3458).
ListedIsRemovable == Quiet /\ ~ended => \A d \in Listed(row) : Removable(d)

\* createOrGetExposedPortDomain, compute.ts:321: one domain for each port.
NoDomainIsForgotten == Quiet /\ ~ended => domains \subseteq Listed(row)
=============================================================================
