------------------------ MODULE WorkspacePortsProofs ------------------------
(***************************************************************************)
(* PortsAreServed for any number of ports, domains and overlapping         *)
(* handlers.  A handler that nobody overtook is alone with the world it    *)
(* has read; the proof says where it leads the world to, and that one that *)
(* was overtaken in the middle never ends unnoticed.                       *)
(***************************************************************************)
EXTENDS WorkspacePorts, TLAPS

-----------------------------------------------------------------------------
(* The steps of a handler.                                                 *)

\* The handlers beside r are as before.
Others(r) == \A q \in Requests \ {r} : req'[q] = req[q]

ReqOK == req \in [Requests -> Calls]

\* "No port" is one of the ports, and "no call" a call.
LEMMA NoneType == NoPort \in Ports /\ NoPorts \in Rows /\ NoCall \in Calls
<1>1. NoPort \in Ports
  BY PortsAssumption DEF NoPort
<1>2. NoPorts \in Rows
  BY DEF NoPorts, Rows
<1> QED
  BY <1>1, <1>2 DEF NoCall, Calls

\* A handler begins with the column it reads.
LEMMA BeginEffect ==
  ASSUME ReqOK, row \in Rows, NEW r \in Requests,
         NEW op \in {"open", "close", "delete", "reap"}, NEW p \in Ports,
         NEW pc \in {"create", "remove", "row", "end", "purge"}, Begin(r, op, p, pc)
  PROVE  /\ ReqOK' /\ Others(r) /\ req[r] = NoCall
         /\ req'[r].op = op /\ req'[r].pc = pc /\ req'[r].port = p
         /\ req'[r].seen = row /\ req'[r].left = Open(row)
         /\ req'[r].domain = 0 /\ ~req'[r].acted
<1> DEFINE c == [[[[[NoCall EXCEPT !.op = op] EXCEPT !.pc = pc] EXCEPT !.port = p]
                    EXCEPT !.seen = row] EXCEPT !.left = Open(row)]
<1>1. /\ c.op = op /\ c.pc = pc /\ c.port = p /\ c.seen = row /\ c.left = Open(row)
      /\ c.domain = 0 /\ ~c.acted
  BY DEF NoCall
<1>2. c \in Calls
  <2>1. Open(row) \in SUBSET Ports
    BY DEF Open
  <2> QED
    BY <2>1, NoneType DEF Calls
<1>3. req' = [req EXCEPT ![r] = c] /\ req[r] = NoCall
  BY DEF Begin
<1> HIDE DEF c
<1> QED
  BY <1>1, <1>2, <1>3 DEF ReqOK, Others

\* It goes on with what it remembers.
LEMMA GotoEffect ==
  ASSUME ReqOK, NEW r \in Requests, NEW pc \in {"late", "row", "access", "clear", "end",
         "drop", "purge"}, Goto(r, pc)
  PROVE  /\ ReqOK' /\ Others(r)
         /\ req'[r].op = req[r].op /\ req'[r].pc = pc /\ req'[r].port = req[r].port
         /\ req'[r].seen = req[r].seen /\ req'[r].left = req[r].left
         /\ req'[r].domain = req[r].domain /\ req'[r].acted = req[r].acted
BY DEF ReqOK, Others, Goto, Calls

\* And that it has acted.
LEMMA ActedEffect ==
  ASSUME ReqOK, NEW r \in Requests, NEW pc \in {"row", "clear", "end"}, Acted(r, pc)
  PROVE  /\ ReqOK' /\ Others(r)
         /\ req'[r].op = req[r].op /\ req'[r].pc = pc /\ req'[r].port = req[r].port
         /\ req'[r].seen = req[r].seen /\ req'[r].left = req[r].left
         /\ req'[r].domain = req[r].domain /\ req'[r].acted
<1> DEFINE c == [[req[r] EXCEPT !.pc = pc] EXCEPT !.acted = TRUE]
<1>1. req' = [req EXCEPT ![r] = c]
  BY DEF Acted
<1>2. /\ c \in Calls
      /\ c.op = req[r].op /\ c.pc = pc /\ c.port = req[r].port /\ c.seen = req[r].seen
      /\ c.left = req[r].left /\ c.domain = req[r].domain /\ c.acted
  BY DEF ReqOK, Calls
<1> HIDE DEF c
<1> QED
  BY <1>1, <1>2 DEF ReqOK, Others

\* It returns, or throws.
LEMMA ReturnEffect ==
  ASSUME ReqOK, NEW r \in Requests, Return(r)
  PROVE  /\ ReqOK' /\ Others(r) /\ req'[r] = NoCall
         /\ req'[r].op = "none" /\ req'[r].pc = "idle" /\ req'[r].seen = NoPorts
         /\ req'[r].domain = 0 /\ ~req'[r].acted
BY NoneType DEF ReqOK, Others, Return, NoCall

\* It has made a domain.
LEMMA CreateEffect ==
  ASSUME ReqOK, NEW r \in Requests, NEW d \in Domains,
         req' = [req EXCEPT ![r].pc = "row", ![r].domain = d, ![r].acted = TRUE]
  PROVE  /\ ReqOK' /\ Others(r)
         /\ req'[r].op = req[r].op /\ req'[r].pc = "row" /\ req'[r].port = req[r].port
         /\ req'[r].seen = req[r].seen /\ req'[r].left = req[r].left
         /\ req'[r].domain = d /\ req'[r].acted
<1> DEFINE c == [[[req[r] EXCEPT !.pc = "row"] EXCEPT !.domain = d] EXCEPT !.acted = TRUE]
<1>1. req' = [req EXCEPT ![r] = c]
  OBVIOUS
<1>2. /\ c \in Calls
      /\ c.op = req[r].op /\ c.pc = "row" /\ c.port = req[r].port /\ c.seen = req[r].seen
      /\ c.left = req[r].left /\ c.domain = d /\ c.acted
  BY DEF ReqOK, Calls
<1> HIDE DEF c
<1> QED
  BY <1>1, <1>2, ZenonT(30) DEF ReqOK, Others

\* It has removed one domain of those it removes.
LEMMA PurgeEffect ==
  ASSUME ReqOK, NEW r \in Requests, NEW p,
         req' = [req EXCEPT ![r].left = @ \ {p}, ![r].acted = TRUE]
  PROVE  /\ ReqOK' /\ Others(r)
         /\ req'[r].op = req[r].op /\ req'[r].pc = req[r].pc /\ req'[r].port = req[r].port
         /\ req'[r].seen = req[r].seen /\ req'[r].left = req[r].left \ {p}
         /\ req'[r].domain = req[r].domain /\ req'[r].acted
<1> DEFINE c == [[req[r] EXCEPT !.left = req[r].left \ {p}] EXCEPT !.acted = TRUE]
<1>1. req' = [req EXCEPT ![r] = c]
  OBVIOUS
<1>2. /\ c \in Calls
      /\ c.op = req[r].op /\ c.pc = req[r].pc /\ c.port = req[r].port /\ c.seen = req[r].seen
      /\ c.left = req[r].left \ {p} /\ c.domain = req[r].domain /\ c.acted
  BY DEF ReqOK, Calls
<1> HIDE DEF c
<1> QED
  BY <1>1, <1>2 DEF ReqOK, Others

-----------------------------------------------------------------------------
\* The column, the domains and the calls keep their types.
LEMMA TypeCorrect == Spec => []TypeOK
<1>1. Init => TypeOK
  <2> SUFFICES ASSUME Init PROVE TypeOK
    OBVIOUS
  <2>1. << >> \in Seq(Ports) /\ Len(<< >>) <= MaxDomains
    BY PortsAssumption
  <2>2. req \in [Requests -> Calls]
    BY NoneType DEF Init
  <2> QED
    BY <2>1, <2>2, NoneType DEF Init, TypeOK
<1>2. TypeOK /\ [Next]_vars => TypeOK'
  <2> SUFFICES ASSUME TypeOK, [Next]_vars PROVE TypeOK'
    OBVIOUS
  <2>1. CASE UNCHANGED vars
    BY <2>1 DEF vars, world, TypeOK
  <2>2. ASSUME NEW r \in Requests, Handling(r), Overtakes(r) PROVE TypeOK'
    <3> DEFINE Rest == /\ provider' \in {"railway", "aws"}
                       /\ row' \in Rows /\ ended' \in BOOLEAN /\ service' \in BOOLEAN
                       /\ access' \subseteq Ports /\ domains' \subseteq Domains
                       /\ made' \in Seq(Ports) /\ Len(made') <= MaxDomains
                       /\ domains' \cup kept' \subseteq DOMAIN made'
                       /\ domains' \cap kept' = {}
                       /\ provider' = "railway" => kept' = {}
                       /\ torn' \in BOOLEAN
    <3>1. stale' \subseteq Requests
      BY <2>2 DEF Overtakes
    <3> USE DEF TypeOK, ReqOK, world, At, Spoils, Writes
    <3>2. ASSUME NEW p \in Ports, NEW agent \in BOOLEAN, OpenBegin(r, p, agent)
          PROVE  Rest /\ ReqOK'
      BY <3>2, BeginEffect DEF OpenBegin
    <3>3. ASSUME NEW p \in Ports, CloseBegin(r, p) PROVE Rest /\ ReqOK'
      BY <3>3, BeginEffect DEF CloseBegin
    <3>4. ASSUME NEW p \in Ports, Purge(r, p) PROVE Rest /\ ReqOK'
      BY <3>4, PurgeEffect, ReturnEffect DEF Purge, Removes
    <3>5. ASSUME CreateDomain(r) PROVE Rest /\ ReqOK'
      <4>1. PICK d \in Offered(req[r].port) \cap Domains :
              /\ domains' = domains \cup {d} /\ kept' = kept \ {d}
              /\ made' = IF d > Len(made) THEN Append(made, req[r].port) ELSE made
              /\ IF At(r, "late") THEN Return(r) /\ Spoils(TRUE)
                 ELSE /\ req' = [req EXCEPT ![r].pc = "row", ![r].domain = d, ![r].acted = TRUE]
                      /\ UNCHANGED torn
        BY <3>5 DEF CreateDomain
      <4>2. d \in Domains /\ d \in 1..MaxDomains /\ req[r].port \in Ports
        BY <4>1 DEF Domains, Calls
      <4>3. ReqOK'
        BY <4>1, <4>2, CreateEffect, ReturnEffect
      <4>4. /\ made' \in Seq(Ports) /\ Len(made') <= MaxDomains
            /\ DOMAIN made \cup {d} \subseteq DOMAIN made'
        <5>1. Len(made) \in Nat /\ DOMAIN made = 1..Len(made)
          OBVIOUS
        <5>2. CASE d > Len(made)
          <6>1. d = Len(made) + 1 /\ made' = Append(made, req[r].port)
            BY <4>1, <5>1, <5>2 DEF Offered
          <6> QED
            BY <4>2, <5>1, <6>1
        <5>3. CASE ~(d > Len(made))
          BY <4>1, <4>2, <5>1, <5>3
        <5> QED
          BY <5>2, <5>3
      <4>5. domains' \cup kept' \subseteq DOMAIN made' /\ domains' \cap kept' = {}
        BY <4>1, <4>4
      <4> QED
        BY <3>5, <4>1, <4>2, <4>3, <4>4, <4>5 DEF CreateDomain
    <3>6. ASSUME OpenTimeout(r) PROVE Rest /\ ReqOK'
      BY <3>6, GotoEffect DEF OpenTimeout
    <3>7. ASSUME CloseRemove(r) PROVE Rest /\ ReqOK'
      BY <3>7, ActedEffect, ReturnEffect DEF CloseRemove, Removes
    <3>8. ASSUME WriteRow(r) PROVE Rest /\ ReqOK'
      <4>1. NewRow(r) \in Rows
        BY DEF NewRow, Rows, Calls
      <4> QED
        BY <3>8, <4>1, GotoEffect DEF WriteRow
    <3>9. ASSUME WriteAccess(r) PROVE Rest /\ ReqOK'
      <4>1. req[r].port \in Ports
        BY DEF Calls
      <4> QED
        BY <3>9, <4>1, ReturnEffect DEF WriteAccess
    <3>10. ASSUME DeleteBegin(r) PROVE Rest /\ ReqOK'
      BY <3>10, BeginEffect, NoneType DEF DeleteBegin
    <3>11. ASSUME ReapBegin(r) PROVE Rest /\ ReqOK'
      BY <3>11, BeginEffect, NoneType DEF ReapBegin
    <3>12. ASSUME EndService(r) PROVE Rest /\ ReqOK'
      BY <3>12, ActedEffect, ReturnEffect DEF EndService
    <3>13. ASSUME ClearRow(r) PROVE Rest /\ ReqOK'
      BY <3>13, GotoEffect, ReturnEffect, NoneType DEF ClearRow
    <3>14. ASSUME EndRow(r) PROVE Rest /\ ReqOK'
      BY <3>14, GotoEffect, NoneType DEF EndRow
    <3>15. ASSUME DropAccess(r) PROVE Rest /\ ReqOK'
      BY <3>15, GotoEffect, ReturnEffect DEF DropAccess
    <3>16. ASSUME Fail(r) PROVE Rest /\ ReqOK'
      BY <3>16, ReturnEffect DEF Fail
    <3>17. Rest /\ ReqOK'
      BY <2>2, <3>2, <3>3, <3>4, <3>5, <3>6, <3>7, <3>8, <3>9, <3>10, <3>11, <3>12,
         <3>13, <3>14, <3>15, <3>16 DEF Handling
    <3> QED
      BY <3>1, <3>17
  <2> QED
    BY <2>1, <2>2 DEF Next
<1> QED
  BY <1>1, <1>2, PTL DEF Spec

-----------------------------------------------------------------------------
\* What PortsAreServed asks of a column, a status, headers and domains.
ServedBy(cols, over, headers, doms) ==
  IF over THEN doms = {} /\ headers = {}
  ELSE /\ doms = Listed(cols)
       /\ headers = IF provider = "aws" THEN Open(cols) ELSE {}

Served == ServedBy(row, ended, access, domains)

-----------------------------------------------------------------------------
(* What holds whoever overlaps with whom.                                  *)

\* Which handler is where, and what it has done by then.
ShapeOK(r) ==
  LET c == req[r] IN
  /\ c.op = "none" <=> c.pc = "idle"
  /\ c.op = "none" => ~c.acted
  /\ c.op = "open" =>
       /\ c.pc \in {"create", "late", "row", "access"}
       /\ c.acted <=> c.pc \in {"row", "access"}
       /\ c.acted <=> c.domain # 0
  /\ c.op = "close" =>
       /\ c.pc \in {"remove", "row", "access"} /\ c.domain = 0
       /\ c.pc = "remove" => ~c.acted
       /\ (c.acted \/ c.pc = "remove") <=> c.seen[c.port] # 0
  /\ c.op = "reap" =>
       /\ c.pc \in {"purge", "end", "drop"}
       /\ c.pc # "purge" => c.acted
  /\ c.op = "delete" =>
       /\ c.pc \in {"purge", "clear", "end", "drop"}
       /\ c.pc = "clear" => c.acted
       /\ c.pc \in {"end", "drop"} => (c.acted <=> provider = "railway")
       /\ provider = "aws" /\ c.pc # "end" => ended
  /\ c.op \in {"reap", "delete"} =>
       /\ c.domain = 0
       /\ c.left \subseteq Open(c.seen)
       /\ ~c.acted => c.left = Open(c.seen)

\* Whoever holds a domain for a port has one that was made for it: no domain is ever
\* of two ports.
Owned(d, p) == d # 0 => d \in DOMAIN made /\ made[d] = p

AllOwned ==
  /\ \A p \in Ports : Owned(row[p], p)
  /\ \A r \in Requests : /\ \A p \in Ports : Owned(req[r].seen[p], p)
                         /\ Owned(req[r].domain, req[r].port)

\* Railway has no headers, and no domains without a service.
RailwayOK ==
  provider = "railway" => access = {} /\ (~service => domains = {})

WorldOK ==
  /\ \A r \in Requests : ShapeOK(r)
  /\ AllOwned
  /\ RailwayOK
  /\ \A r \in stale : req[r] # NoCall

-----------------------------------------------------------------------------
(* What holds until something is torn.                                     *)

\* The handler has changed the world, or is bound to: it cannot end early
\* without tearing something.
Dirty(r) ==
  \/ req[r].acted /\ ~(At(r, "purge") /\ provider = "railway" /\ ~service)
  \/ At(r, "row") \/ At(r, "drop")
  \/ At(r, "purge") /\ ended /\ provider = "aws"

\* A dirty handler that was overtaken will tear something when it writes.
Blocked == \E r \in stale : Dirty(r)

\* Until it acts, a handler that nobody overtook knows the column.
KnowsRow(r) ==
  /\ req[r].pc \in {"create", "late", "remove", "row"} => req[r].seen = row
  /\ req[r].pc \in {"access", "end"} /\ ~req[r].acted => req[r].seen = row
  /\ At(r, "purge") /\ ~req[r].acted /\ (provider = "aws" => req[r].op = "reap")
       => req[r].seen = row

NewAccess(r) ==
  IF req[r].op = "open" /\ provider = "aws" THEN access \cup {req[r].port}
  ELSE access \ {req[r].port}

\* The domains a deletion has still to remove.
Remaining(r) == {req[r].seen[p] : p \in req[r].left}

\* The remaining steps of a dirty handler, taken alone, make the world Served.
LeadsToServed(r) ==
  LET c == req[r] IN
  /\ At(r, "row") /\ ~c.acted => Served
  /\ At(r, "row") /\ c.acted =>
       \/ c.op = "open" /\ (ended \/ row[c.port] \notin {0, c.domain})
       \/ ServedBy(NewRow(r), ended, NewAccess(r), domains)
  /\ At(r, "access") => ServedBy(row, ended, NewAccess(r), domains)
  /\ At(r, "purge") /\ provider = "aws" =>
       domains \subseteq Remaining(r) /\ (c.op = "delete" => access = {})
  /\ At(r, "clear") => domains = {} /\ (provider = "aws" => access = {})
  /\ At(r, "end") => domains = {}
  /\ At(r, "drop") => ended /\ domains \subseteq (IF c.acted THEN {} ELSE Remaining(r))

\* The world is served, or some handler nobody overtook leads there, and these
\* handlers know what they need; or something will be torn.
InHand ==
  Served \/ \E r \in Requests \ stale : Dirty(r) /\ LeadsToServed(r)

Knowing(r) == KnowsRow(r) /\ (Dirty(r) /\ Served => LeadsToServed(r))

Untorn == Blocked \/ (InHand /\ \A r \in Requests \ stale : Knowing(r))

PortInv == WorldOK /\ (torn \/ Untorn)

-----------------------------------------------------------------------------
(* What a step of handler r does.                                          *)

\* If r were alone: where the world is led to.
Alone(r) == IF Dirty(r) THEN LeadsToServed(r) ELSE Served

\* One that was overtaken does not touch the world without being caught by it.
StaleStep(r) == r \in stale => Dirty(r)' \/ (UNCHANGED world /\ ~Dirty(r))

\* One that was not goes on to where it was going.
AloneStep(r) ==
  r \notin stale /\ KnowsRow(r) => KnowsRow(r)' /\ (Alone(r) => Alone(r)')

\* The end of the service at Railway settles what others have left to do.
Settles(r) == world' # world /\ KnowsRow(r)' /\ Dirty(r)' /\ LeadsToServed(r)'

\* The others stay dirty but for that.
OthersStep(r) == \A q \in Requests \ {r} : Dirty(q) => Dirty(q)' \/ Settles(r)

GoodStep(r) ==
  /\ ~torn /\ provider' = provider /\ Others(r)
  /\ StaleStep(r) /\ AloneStep(r) /\ OthersStep(r)

-----------------------------------------------------------------------------
(* The columns.                                                            *)

LEMMA ListedIs ==
  ASSUME NEW c \in Rows, NEW d
  PROVE  d \in Listed(c) <=> d # 0 /\ \E p \in Ports : c[p] = d
BY DEF Listed, Range, Rows

\* The column with the domain of one port changed.
With(c, p, d) == [c EXCEPT ![p] = d]

\* A domain is listed once a port has it.
LEMMA ListedWith ==
  ASSUME NEW c \in Rows, NEW p \in Ports, NEW d \in Domains, c[p] \in {0, d}
  PROVE  /\ With(c, p, d) \in Rows
         /\ Listed(With(c, p, d)) = Listed(c) \cup {d}
         /\ Open(With(c, p, d)) = Open(c) \cup {p}
<1>1. With(c, p, d) \in Rows /\ With(c, p, d)[p] = d
      /\ \A q \in Ports \ {p} : With(c, p, d)[q] = c[q]
  BY DEF With, Rows
<1>2. d # 0
  BY DEF Domains
<1>3. \A x : x \in Listed(With(c, p, d)) <=> x \in Listed(c) \cup {d}
  BY <1>1, <1>2, ListedIs
<1>4. Open(With(c, p, d)) = Open(c) \cup {p}
  BY <1>1, <1>2 DEF Open
<1> QED
  BY <1>1, <1>3, <1>4

\* It is not once the only port that had it has lost it.
LEMMA ListedWithout ==
  ASSUME NEW c \in Rows, NEW p \in Ports, \A q \in Ports : c[q] = c[p] => q = p
  PROVE  /\ [c EXCEPT ![p] = 0] \in Rows
         /\ Listed([c EXCEPT ![p] = 0]) = Listed(c) \ {c[p]}
         /\ Open([c EXCEPT ![p] = 0]) = Open(c) \ {p}
<1> DEFINE e == [c EXCEPT ![p] = 0]
<1>1. e \in Rows /\ e[p] = 0 /\ \A q \in Ports \ {p} : e[q] = c[q]
  BY DEF Rows
<1> HIDE DEF e
<1>2. \A x : x \in Listed(e) <=> x \in Listed(c) \ {c[p]}
  BY <1>1, ListedIs
<1>3. Open(e) = Open(c) \ {p}
  BY <1>1 DEF Open
<1> QED
  BY <1>1, <1>2, <1>3 DEF e

\* Whoever removes the domains of the open ports removes all that are listed.
LEMMA ListedIsOpen ==
  ASSUME NEW c \in Rows PROVE Listed(c) = {c[p] : p \in Open(c)}
BY ListedIs DEF Open

-----------------------------------------------------------------------------
(* What the steps leave of the rest.                                       *)

\* Nothing to do with who owns the domains but columns and domains that are owned.
LEMMA OwnedStep ==
  ASSUME TypeOK, AllOwned, NEW r \in Requests, Others(r), made' = made,
         row' \in {row, NoPorts, NewRow(r)},
         req'[r].seen \in {row, NoPorts, req[r].seen},
         \/ req'[r].domain = 0
         \/ req'[r].domain = req[r].domain /\ req'[r].port = req[r].port
  PROVE  AllOwned'
<1>1. \A d, p : Owned(d, p) => (Owned(d, p))'
  BY DEF Owned
<1>2. \A p : (Owned(0, p))'
  BY DEF Owned
<1>3. \A p \in Ports : /\ Owned(row[p], p) /\ Owned(NoPorts[p], p) /\ Owned(NewRow(r)[p], p)
                       /\ \A q \in Requests : Owned(req[q].seen[p], p)
  <2>1. /\ req[r].seen \in Rows /\ req[r].port \in Ports
        /\ Owned(req[r].domain, req[r].port)
    BY DEF TypeOK, Calls, AllOwned
  <2>2. \A p \in Ports : Owned(NewRow(r)[p], p)
    BY <2>1 DEF NewRow, Rows, AllOwned
  <2> QED
    BY <2>2 DEF AllOwned, NoPorts, Owned
<1>4. \A p \in Ports : (Owned(row[p], p))'
  BY <1>1, <1>3
<1>5. ASSUME NEW q \in Requests
      PROVE  /\ \A p \in Ports : Owned(req[q].seen[p], p)'
             /\ Owned(req[q].domain, req[q].port)'
  <2>1. CASE q # r
    BY <1>1, <2>1 DEF AllOwned, Others
  <2>2. CASE q = r
    <3>1. \A p \in Ports : Owned(req[q].seen[p], p)'
      BY <1>1, <1>3, <2>2
    <3>2. Owned(req[q].domain, req[q].port)'
      BY <1>1, <1>2, <2>2 DEF AllOwned
    <3> QED
      BY <3>1, <3>2
  <2> QED
    BY <2>1, <2>2
<1> QED
  BY <1>4, <1>5 DEF AllOwned

\* A served world that is not touched stays served.
LEMMA SameServed ==
  UNCHANGED <<provider, row, ended, access, domains>> => Served' = Served
BY DEF Served, ServedBy

\* Nobody cleans another handler but the end of the service at Railway.
LEMMA OthersStay ==
  ASSUME NEW r \in Requests, Others(r), provider' = provider, ended => ended',
         provider = "railway" /\ service => service'
  PROVE  OthersStep(r)
BY DEF Others, OthersStep, Dirty, At

-----------------------------------------------------------------------------
(* Each step, and what it does to the world.                               *)

WorldStep(r) ==
  /\ ShapeOK(r)' /\ RailwayOK' /\ AllOwned'
  /\ Others(r) /\ provider' = provider /\ (ended => ended')

\* A handler that returns without touching the world, and was not bound to.
LEMMA LeaveStep ==
  ASSUME TypeOK, WorldOK, NEW r \in Requests, Return(r), UNCHANGED <<provider, world, made>>,
         ~torn' => ~torn /\ ~Dirty(r)
  PROVE  WorldStep(r) /\ (~torn' => GoodStep(r))
<1> USE DEF world, ReqOK
<1>1. /\ Others(r) /\ req'[r] = NoCall /\ req'[r].op = "none" /\ req'[r].pc = "idle"
      /\ req'[r].seen = NoPorts /\ req'[r].domain = 0 /\ ~req'[r].acted
  BY ReturnEffect DEF TypeOK
<1>2. ShapeOK(r)' /\ RailwayOK'
  BY <1>1 DEF ShapeOK, WorldOK, RailwayOK
<1>3. AllOwned'
  BY <1>1, OwnedStep DEF WorldOK
<1>4. ~Dirty(r)' /\ KnowsRow(r)'
  BY <1>1 DEF Dirty, KnowsRow, At
<1>5. OthersStep(r)
  BY <1>1, OthersStay
<1>6. ASSUME ~torn' PROVE GoodStep(r)
  BY <1>1, <1>4, <1>5, <1>6, SameServed DEF GoodStep, StaleStep, AloneStep, Alone
<1> QED
  BY <1>1, <1>2, <1>3, <1>6 DEF WorldStep

\* A handler that begins knows the column, and has not touched the world.
LEMMA EnterStep ==
  ASSUME TypeOK, WorldOK, NEW r \in Requests, req[r] = NoCall, Others(r),
         UNCHANGED <<provider, world, made, torn>>, ShapeOK(r)',
         req'[r].seen = row, req'[r].domain = 0, Dirty(r)' /\ Served => LeadsToServed(r)'
  PROVE  WorldStep(r) /\ (~torn' => GoodStep(r))
<1> USE DEF world
<1>1. r \notin stale /\ ~Dirty(r)
  BY DEF WorldOK, Dirty, NoCall, At
<1>2. RailwayOK'
  BY DEF WorldOK, RailwayOK
<1>3. AllOwned'
  BY OwnedStep DEF WorldOK
<1>4. KnowsRow(r)'
  BY DEF KnowsRow, At
<1>5. OthersStep(r)
  BY OthersStay
<1>6. ASSUME ~torn' PROVE GoodStep(r)
  BY <1>1, <1>4, <1>5, <1>6, SameServed DEF GoodStep, StaleStep, AloneStep, Alone
<1> QED
  BY <1>2, <1>3, <1>6 DEF WorldStep

LEMMA OpenBeginStep ==
  ASSUME TypeOK, WorldOK, NEW r \in Requests, NEW p \in Ports, NEW agent \in BOOLEAN,
         OpenBegin(r, p, agent)
  PROVE  WorldStep(r) /\ (~torn' => GoodStep(r))
<1> USE DEF ReqOK, TypeOK
<1>1. /\ Others(r) /\ req[r] = NoCall /\ req'[r].op = "open" /\ req'[r].pc = "create"
      /\ req'[r].seen = row /\ req'[r].domain = 0 /\ ~req'[r].acted
  BY BeginEffect DEF OpenBegin
<1>2. ShapeOK(r)' /\ ~Dirty(r)'
  BY <1>1 DEF ShapeOK, Dirty, At
<1> QED
  BY <1>1, <1>2, EnterStep DEF OpenBegin

LEMMA CloseBeginStep ==
  ASSUME TypeOK, WorldOK, NEW r \in Requests, NEW p \in Ports, CloseBegin(r, p)
  PROVE  WorldStep(r) /\ (~torn' => GoodStep(r))
<1> USE DEF ReqOK, TypeOK
<1>1. /\ Others(r) /\ req[r] = NoCall /\ req'[r].op = "close" /\ req'[r].port = p
      /\ req'[r].pc = (IF row[p] = 0 THEN "row" ELSE "remove")
      /\ req'[r].seen = row /\ req'[r].domain = 0 /\ ~req'[r].acted
  BY BeginEffect DEF CloseBegin
<1>2. ShapeOK(r)'
  BY <1>1 DEF ShapeOK
<1>3. Served => LeadsToServed(r)'
  BY <1>1, SameServed DEF CloseBegin, LeadsToServed, At, world
<1> QED
  BY <1>1, <1>2, <1>3, EnterStep DEF CloseBegin

LEMMA DeleteBeginStep ==
  ASSUME TypeOK, WorldOK, NEW r \in Requests, DeleteBegin(r)
  PROVE  WorldStep(r) /\ (~torn' => GoodStep(r))
<1> USE DEF ReqOK, TypeOK
<1>1. /\ Others(r) /\ req[r] = NoCall /\ req'[r].op = "delete"
      /\ req'[r].pc = (IF provider = "aws" THEN "end" ELSE "purge")
      /\ req'[r].seen = row /\ req'[r].left = Open(row)
      /\ req'[r].domain = 0 /\ ~req'[r].acted
  BY BeginEffect, NoneType DEF DeleteBegin
<1>2. ShapeOK(r)' /\ ~Dirty(r)'
  BY <1>1 DEF ShapeOK, Dirty, At, DeleteBegin
<1> QED
  BY <1>1, <1>2, EnterStep DEF DeleteBegin

LEMMA ReapBeginStep ==
  ASSUME TypeOK, WorldOK, NEW r \in Requests, ReapBegin(r)
  PROVE  WorldStep(r) /\ (~torn' => GoodStep(r))
<1> USE DEF ReqOK, TypeOK
<1>1. /\ Others(r) /\ req[r] = NoCall /\ req'[r].op = "reap" /\ req'[r].pc = "purge"
      /\ req'[r].seen = row /\ req'[r].left = Open(row)
      /\ req'[r].domain = 0 /\ ~req'[r].acted
  BY BeginEffect, NoneType DEF ReapBegin
<1>2. ShapeOK(r)'
  BY <1>1 DEF ShapeOK
<1>3. Dirty(r)' /\ Served => LeadsToServed(r)'
  BY <1>1 DEF ReapBegin, Dirty, Served, ServedBy, LeadsToServed, At, world
<1> QED
  BY <1>1, <1>2, <1>3, EnterStep DEF ReapBegin

LEMMA OpenTimeoutStep ==
  ASSUME TypeOK, WorldOK, NEW r \in Requests, OpenTimeout(r)
  PROVE  WorldStep(r) /\ (~torn' => GoodStep(r))
<1> USE DEF ReqOK, TypeOK, world, OpenTimeout, At
<1>1. /\ Others(r) /\ req'[r].op = req[r].op /\ req'[r].pc = "late"
      /\ req'[r].port = req[r].port /\ req'[r].seen = req[r].seen
      /\ req'[r].domain = req[r].domain /\ req'[r].acted = req[r].acted
  BY GotoEffect
<1>2. ShapeOK(r) /\ req[r] \in Calls
  BY DEF WorldOK
<1>3. ShapeOK(r)' /\ RailwayOK'
  BY <1>1, <1>2 DEF ShapeOK, WorldOK, RailwayOK, Calls
<1>4. AllOwned'
  BY <1>1, OwnedStep DEF WorldOK
<1>5. ~Dirty(r) /\ ~Dirty(r)'
  BY <1>1, <1>2 DEF Dirty, ShapeOK, Calls
<1>6. KnowsRow(r) => KnowsRow(r)'
  BY <1>1 DEF KnowsRow
<1>7. OthersStep(r)
  BY <1>1, OthersStay
<1>8. ASSUME ~torn' PROVE GoodStep(r)
  BY <1>1, <1>5, <1>6, <1>7, <1>8, SameServed DEF GoodStep, StaleStep, AloneStep, Alone
<1> QED
  BY <1>1, <1>3, <1>4, <1>8 DEF WorldStep

\* One that failed, and neither had acted nor was bound to.
LEMMA FailStep ==
  ASSUME TypeOK, WorldOK, NEW r \in Requests, Fail(r)
  PROVE  WorldStep(r) /\ (~torn' => GoodStep(r))
<1>1. ~torn' => ~torn /\ ~Dirty(r)
  BY DEF Fail, Spoils, Dirty, At
<1> QED
  BY <1>1, LeaveStep DEF Fail

\* One that goes on with the domains, and tears nothing.
LEMMA DomainStep ==
  ASSUME TypeOK, WorldOK, NEW r \in Requests, Others(r), ShapeOK(r)',
         UNCHANGED <<provider, row, ended, access, service, made, torn>>,
         domains' \subseteq domains,
         req'[r].seen = req[r].seen, req'[r].domain = req[r].domain,
         req'[r].port = req[r].port, Dirty(r)', req'[r].acted,
         req'[r].pc = "row" => req'[r].seen = req[r].seen /\ req[r].pc = "remove",
         KnowsRow(r) /\ Alone(r) => LeadsToServed(r)',
         req'[r].pc \in {"row", "purge"}
  PROVE  WorldStep(r) /\ (~torn' => GoodStep(r))
<1>1. RailwayOK'
  BY DEF WorldOK, RailwayOK
<1>2. AllOwned'
  BY OwnedStep DEF WorldOK
<1>3. KnowsRow(r) => KnowsRow(r)'
  BY DEF KnowsRow, At
<1>4. OthersStep(r)
  BY OthersStay
<1>5. ASSUME ~torn' PROVE GoodStep(r)
  BY <1>3, <1>4, <1>5 DEF GoodStep, StaleStep, AloneStep, Alone
<1> QED
  BY <1>1, <1>2, <1>5 DEF WorldStep

LEMMA CloseRemoveStep ==
  ASSUME TypeOK, WorldOK, NEW r \in Requests, CloseRemove(r)
  PROVE  WorldStep(r) /\ (~torn' => GoodStep(r))
<1> USE DEF ReqOK, TypeOK
<1> DEFINE p == req[r].port
           d == req[r].seen[p]
<1>1. ShapeOK(r) /\ req[r] \in Calls /\ At(r, "remove")
  BY DEF WorldOK, CloseRemove
<1>2. req[r].op = "close" /\ ~req[r].acted /\ d # 0 /\ req[r].domain = 0 /\ p \in Ports
  BY <1>1 DEF ShapeOK, Calls, At
<1>3. ~Dirty(r)
  BY <1>1, <1>2 DEF Dirty, At
<1>4. CASE Removable(d)
  <2>1. Acted(r, "row") /\ domains' = domains \ {d}
        /\ UNCHANGED <<provider, row, ended, access, service, made, torn>>
    BY <1>4 DEF CloseRemove, Removes
  <2>2. /\ Others(r) /\ req'[r].op = req[r].op /\ req'[r].pc = "row"
        /\ req'[r].port = req[r].port /\ req'[r].seen = req[r].seen
        /\ req'[r].domain = req[r].domain /\ req'[r].acted
    BY <2>1, ActedEffect
  <2>3. ShapeOK(r)' /\ Dirty(r)'
    BY <1>2, <2>2 DEF ShapeOK, Dirty, At
  <2>4. ASSUME KnowsRow(r), Alone(r) PROVE LeadsToServed(r)'
    <3>1. req[r].seen = row /\ Served
      BY <1>1, <1>3, <2>4 DEF KnowsRow, Alone, At
    <3>2. \A q \in Ports : row[q] = row[p] => q = p
      BY <1>2, <3>1 DEF WorldOK, AllOwned, Owned
    <3>3. /\ Listed([row EXCEPT ![p] = 0]) = Listed(row) \ {d}
          /\ Open([row EXCEPT ![p] = 0]) = Open(row) \ {p}
      BY <1>2, <3>1, <3>2, ListedWithout
    <3>4. NewRow(r)' = [row EXCEPT ![p] = 0]
      BY <1>2, <2>2, <3>1 DEF NewRow
    <3>5. NewAccess(r)' = access \ {p}
      BY <1>2, <2>1, <2>2 DEF NewAccess
    <3>6. ServedBy(NewRow(r), ended, NewAccess(r), domains)'
      BY <2>1, <3>1, <3>3, <3>4, <3>5 DEF Served, ServedBy
    <3> QED
      BY <2>2, <3>6 DEF LeadsToServed, At
  <2> QED
    BY <1>1, <2>1, <2>2, <2>3, <2>4, DomainStep DEF At
<1>5. CASE ~Removable(d)
  BY <1>3, <1>5, LeaveStep DEF CloseRemove, world
<1> QED
  BY <1>4, <1>5

LEMMA PurgeStep ==
  ASSUME TypeOK, WorldOK, NEW r \in Requests, NEW p \in Ports, Purge(r, p)
  PROVE  WorldStep(r) /\ (~torn' => GoodStep(r))
<1> USE DEF ReqOK, TypeOK
<1> DEFINE d == req[r].seen[p]
<1>1. ShapeOK(r) /\ req[r] \in Calls /\ At(r, "purge") /\ p \in req[r].left
  BY DEF WorldOK, Purge
<1>2. req[r].op \in {"delete", "reap"} /\ req[r].domain = 0
  BY <1>1 DEF ShapeOK, Calls, At
<1>3. d # 0
  BY <1>1, <1>2 DEF ShapeOK, Open
<1>4. CASE Removable(d)
  <2>1. /\ domains' = domains \ {d}
        /\ req' = [req EXCEPT ![r].left = @ \ {p}, ![r].acted = TRUE]
        /\ UNCHANGED <<provider, row, ended, access, service, made, torn>>
    BY <1>4 DEF Purge, Removes
  <2>2. /\ Others(r) /\ req'[r].op = req[r].op /\ req'[r].pc = "purge"
        /\ req'[r].port = req[r].port /\ req'[r].seen = req[r].seen
        /\ req'[r].left = req[r].left \ {p}
        /\ req'[r].domain = req[r].domain /\ req'[r].acted
    BY <1>1, <2>1, PurgeEffect DEF At
  <2>3. ShapeOK(r)'
    BY <1>1, <1>2, <2>1, <2>2 DEF ShapeOK, At
  <2>4. Dirty(r)'
    BY <1>4, <2>1, <2>2 DEF Dirty, At, Removable, WorldOK, RailwayOK
  <2>5. ASSUME KnowsRow(r), Alone(r), provider = "aws"
        PROVE  domains' \subseteq Remaining(r)' /\ (req[r].op = "delete" => access = {})
    <3>1. domains \subseteq Remaining(r) /\ (req[r].op = "delete" => access = {})
      <4>1. CASE Dirty(r)
        BY <1>1, <2>5, <4>1 DEF Alone, LeadsToServed, At
      <4>2. CASE ~Dirty(r)
        <5>1. Served /\ ~ended /\ ~req[r].acted
          BY <1>1, <2>5, <4>2 DEF Dirty, Alone, At
        <5>2. req[r].op = "reap"
          BY <1>1, <1>2, <2>5, <5>1 DEF ShapeOK, At
        <5>3. req[r].seen = row /\ req[r].left = Open(row)
          BY <1>1, <2>5, <5>1, <5>2 DEF KnowsRow, ShapeOK, At
        <5> QED
          BY <5>1, <5>2, <5>3, ListedIsOpen DEF Served, ServedBy, Remaining
      <4> QED
        BY <4>1, <4>2
    <3> QED
      BY <2>1, <2>2, <3>1 DEF Remaining
  <2>6. KnowsRow(r) /\ Alone(r) => LeadsToServed(r)'
    BY <2>1, <2>2, <2>5 DEF LeadsToServed, At
  <2> QED
    BY <2>1, <2>2, <2>3, <2>4, <2>6, DomainStep
<1>5. CASE ~Removable(d)
  <2>1. Return(r) /\ UNCHANGED <<provider, world, made>> /\ torn' = (torn \/ req[r].acted)
    BY <1>5 DEF Purge, Spoils, world
  <2>2. ~req[r].acted => ~Dirty(r)
    BY <1>1, <1>5 DEF Dirty, At, Removable
  <2> QED
    BY <2>1, <2>2, LeaveStep
<1> QED
  BY <1>4, <1>5

LEMMA CreateDomainStep ==
  ASSUME TypeOK, WorldOK, NEW r \in Requests, CreateDomain(r)
  PROVE  WorldStep(r) /\ (~torn' => GoodStep(r))
<1> USE DEF ReqOK, TypeOK
<1>1. /\ ShapeOK(r) /\ req[r] \in Calls /\ req[r].port \in Ports
      /\ At(r, "create") \/ At(r, "late")
  BY DEF WorldOK, CreateDomain, Calls
<1>port. PICK p \in Ports : p = req[r].port
  BY <1>1
<1>0. PICK d \in Offered(p) \cap Domains :
        /\ domains' = domains \cup {d}
        /\ made' = IF d > Len(made) THEN Append(made, p) ELSE made
        /\ IF At(r, "late") THEN Return(r) /\ Spoils(TRUE)
           ELSE /\ req' = [req EXCEPT ![r].pc = "row", ![r].domain = d, ![r].acted = TRUE]
                /\ UNCHANGED torn
  BY <1>port DEF CreateDomain
<1>2. req[r].op = "open" /\ ~req[r].acted /\ req[r].domain = 0
  BY <1>1 DEF ShapeOK, Calls, At
<1>3. ~Dirty(r)
  BY <1>1, <1>2 DEF Dirty, At
<1>4. /\ d \in Domains /\ d # 0 /\ domains' = domains \cup {d} /\ service
      /\ UNCHANGED <<provider, row, ended, access, service>>
  BY <1>0 DEF CreateDomain, Domains
<1>5. Others(r) /\ IF At(r, "late") THEN req'[r] = NoCall /\ torn'
                   ELSE /\ req'[r].op = req[r].op /\ req'[r].pc = "row"
                        /\ req'[r].port = p /\ req'[r].seen = req[r].seen
                        /\ req'[r].left = req[r].left
                        /\ req'[r].domain = d /\ req'[r].acted /\ torn' = torn
  <2>1. CASE At(r, "late")
    BY <1>port, <1>0, <2>1, ReturnEffect DEF Spoils
  <2>2. CASE ~At(r, "late")
    <3>1. req' = [req EXCEPT ![r].pc = "row", ![r].domain = d, ![r].acted = TRUE]
          /\ torn' = torn
      BY <1>port, <1>0, <2>2
    <3>2. /\ Others(r) /\ req'[r].op = req[r].op /\ req'[r].pc = "row"
          /\ req'[r].port = req[r].port /\ req'[r].seen = req[r].seen
          /\ req'[r].left = req[r].left
          /\ req'[r].domain = d /\ req'[r].acted
      BY <1>port, <1>0, <3>1, CreateEffect, ZenonT(30)
    <3> QED
      BY <1>port, <1>0, <2>2, <3>1, <3>2
  <2> QED
    BY <2>1, <2>2
<1>6. ShapeOK(r)' /\ RailwayOK'
  <2>1. ShapeOK(r)'
    BY <1>2, <1>4, <1>5 DEF ShapeOK, NoCall
  <2>2. RailwayOK'
    BY <1>4 DEF WorldOK, RailwayOK
  <2> QED
    BY <2>1, <2>2
<1>7. AllOwned'
  <2>1. /\ d \in DOMAIN made' /\ made'[d] = p
        /\ \A e \in DOMAIN made : e \in DOMAIN made' /\ made'[e] = made[e]
    <3>1. made \in Seq(Ports) /\ Len(made) \in Nat /\ DOMAIN made = 1..Len(made)
      OBVIOUS
    <3>2. CASE d > Len(made)
      <4>1. d = Len(made) + 1 /\ made' = Append(made, p)
        BY <1>port, <1>0, <3>1, <3>2 DEF Offered
      <4> QED
        BY <3>1, <4>1
    <3>3. CASE ~(d > Len(made))
      <4>1. d \in domains \cup kept /\ made[d] = p
        BY <1>port, <1>0, <3>1, <3>3 DEF Offered
      <4> QED
        BY <1>port, <1>0, <3>3, <4>1
    <3> QED
      BY <3>2, <3>3
  <2>2. \A e, q : Owned(e, q) => (Owned(e, q))'
    BY <2>1 DEF Owned
  <2>3. (Owned(d, p))'
    BY <2>1 DEF Owned
  <2>4. \A q \in Ports : Owned(row[q], q)'
    BY <1>4, <2>2 DEF WorldOK, AllOwned
  <2>5. ASSUME NEW q \in Requests
        PROVE  /\ \A x \in Ports : Owned(req[q].seen[x], x)'
               /\ Owned(req[q].domain, req[q].port)'
    <3>1. CASE q # r
      BY <1>5, <2>2, <3>1 DEF WorldOK, AllOwned, Others
    <3>2. CASE q = r /\ At(r, "late")
      <4>1. req'[q].domain = 0 /\ \A x \in Ports : req'[q].seen[x] = 0
        BY <1>5, <3>2 DEF NoCall, NoPorts
      <4> QED
        BY <4>1 DEF Owned
    <3>3. CASE q = r /\ ~At(r, "late")
      BY <1>5, <2>2, <2>3, <3>3 DEF WorldOK, AllOwned
    <3> QED
      BY <3>1, <3>2, <3>3
  <2> QED
    BY <2>4, <2>5 DEF AllOwned
<1>8. ASSUME ~torn' PROVE GoodStep(r)
  <2>1. ~At(r, "late") /\ At(r, "create") /\ ~torn
    BY <1>1, <1>port, <1>5, <1>8
  <2>2. Dirty(r)'
    BY <1>5, <2>1 DEF Dirty, At
  <2>3. ASSUME KnowsRow(r) PROVE KnowsRow(r)' /\ (Served => LeadsToServed(r)')
    <3>1. req[r].seen = row
      BY <2>1, <2>3 DEF KnowsRow, At
    <3>2. KnowsRow(r)'
      BY <1>4, <1>5, <2>1, <3>1 DEF KnowsRow, At
    <3>3. ASSUME Served, ~ended, row[p] \in {0, d}
          PROVE  ServedBy(NewRow(r), ended, NewAccess(r), domains)'
      <4>1. /\ Listed(With(row, p, d)) = Listed(row) \cup {d}
            /\ Open(With(row, p, d)) = Open(row) \cup {p}
        BY <1>port, <1>0, <3>3, ListedWith
      <4>2. NewRow(r)' = With(row, p, d)
        BY <1>port, <1>0, <1>5, <2>1, <3>1 DEF NewRow, With
      <4>3. NewAccess(r)' = IF provider = "aws" THEN access \cup {p} ELSE access \ {p}
        BY <1>2, <1>4, <1>5, <2>1 DEF NewAccess
      <4> QED
        BY <1>4, <3>3, <4>1, <4>2, <4>3 DEF Served, ServedBy
    <3>4. Served => LeadsToServed(r)'
      BY <1>2, <1>4, <1>5, <2>1, <3>3 DEF LeadsToServed, At
    <3> QED
      BY <3>2, <3>4
  <2>4. OthersStep(r)
    BY <1>4, <1>5, OthersStay
  <2> QED
    BY <1>3, <1>4, <1>5, <1>8, <2>1, <2>2, <2>3, <2>4
       DEF GoodStep, StaleStep, AloneStep, Alone
<1> QED
  BY <1>4, <1>5, <1>6, <1>7, <1>8 DEF WorldStep

\* One that writes what it was bound to: it was not overtaken, or tears something.
LEMMA WriteStep ==
  ASSUME TypeOK, WorldOK, NEW r \in Requests, Others(r), ShapeOK(r)', RailwayOK',
         UNCHANGED <<provider, service, domains, made>>, ended => ended',
         row' \in {row, NoPorts, NewRow(r)},
         req'[r].seen \in {NoPorts, req[r].seen},
         \/ req'[r].domain = 0
         \/ req'[r].domain = req[r].domain /\ req'[r].port = req[r].port,
         ~torn' => ~torn /\ r \notin stale,
         ~torn' /\ KnowsRow(r) => KnowsRow(r)' /\ (Alone(r) => Alone(r)')
  PROVE  WorldStep(r) /\ (~torn' => GoodStep(r))
<1>1. AllOwned'
  BY OwnedStep DEF WorldOK
<1>2. OthersStep(r)
  BY OthersStay
<1>3. ASSUME ~torn' PROVE GoodStep(r)
  BY <1>2, <1>3 DEF GoodStep, StaleStep, AloneStep
<1> QED
  BY <1>1, <1>3 DEF WorldStep

LEMMA WriteRowStep ==
  ASSUME TypeOK, WorldOK, NEW r \in Requests, WriteRow(r)
  PROVE  WorldStep(r) /\ (~torn' => GoodStep(r))
<1> USE DEF ReqOK, TypeOK
<1>1. ShapeOK(r) /\ req[r] \in Calls /\ At(r, "row")
  BY DEF WorldOK, WriteRow
<1>2. /\ req[r].op \in {"open", "close"} /\ req[r].port \in Ports
      /\ req[r].seen \in Rows
  BY <1>1 DEF ShapeOK, Calls, At
<1>3. /\ Others(r) /\ req'[r].op = req[r].op /\ req'[r].pc = "access"
      /\ req'[r].port = req[r].port /\ req'[r].seen = req[r].seen
      /\ req'[r].domain = req[r].domain /\ req'[r].acted = req[r].acted
  BY GotoEffect DEF WriteRow
<1>4. /\ row' = NewRow(r) /\ UNCHANGED <<provider, ended, access, service, domains, made>>
      /\ ~torn' => /\ ~torn /\ r \notin stale
                   /\ ~(/\ req[r].op = "open"
                        /\ ended \/ row[req[r].port] \notin {0, req[r].domain})
  BY DEF WriteRow, Spoils
<1>5. ShapeOK(r)' /\ RailwayOK'
  BY <1>1, <1>2, <1>3, <1>4 DEF ShapeOK, WorldOK, RailwayOK, At
<1>6. ASSUME ~torn', KnowsRow(r) PROVE KnowsRow(r)' /\ (Alone(r) => Alone(r)')
  <2>1. Dirty(r) /\ req[r].seen = row
    BY <1>1, <1>6 DEF Dirty, KnowsRow, At
  <2>2. CASE req[r].acted
    <3>1. Dirty(r)' /\ KnowsRow(r)'
      BY <1>3, <2>2 DEF Dirty, KnowsRow, At
    <3>2. Alone(r) => ServedBy(NewRow(r), ended, NewAccess(r), domains)
      BY <1>1, <1>4, <1>6, <2>1, <2>2 DEF Alone, LeadsToServed, At
    <3>3. NewAccess(r)' = NewAccess(r)
      BY <1>3, <1>4 DEF NewAccess
    <3>4. Alone(r) => LeadsToServed(r)'
      BY <1>3, <1>4, <3>2, <3>3 DEF LeadsToServed, ServedBy, At
    <3> QED
      BY <3>1, <3>4 DEF Alone
  <2>3. CASE ~req[r].acted
    <3>1. req[r].op = "close" /\ req[r].seen[req[r].port] = 0 /\ req[r].domain = 0
      BY <1>1, <1>2, <2>3 DEF ShapeOK, At
    <3>2. row' = row
      BY <1>2, <1>4, <2>1, <3>1 DEF NewRow, Rows
    <3>3. ~Dirty(r)' /\ KnowsRow(r)'
      BY <1>3, <2>1, <2>3, <3>2 DEF Dirty, KnowsRow, At
    <3>4. Alone(r) => Served
      BY <1>1, <2>1, <2>3 DEF Alone, LeadsToServed
    <3> QED
      BY <1>4, <3>2, <3>3, <3>4, SameServed DEF Alone
  <2> QED
    BY <2>2, <2>3
<1> QED
  BY <1>3, <1>4, <1>5, <1>6, WriteStep

LEMMA WriteAccessStep ==
  ASSUME TypeOK, WorldOK, NEW r \in Requests, WriteAccess(r)
  PROVE  WorldStep(r) /\ (~torn' => GoodStep(r))
<1> USE DEF ReqOK, TypeOK
<1>1. ShapeOK(r) /\ req[r] \in Calls /\ At(r, "access")
  BY DEF WorldOK, WriteAccess
<1>2. req[r].op \in {"open", "close"} /\ req[r].port \in Ports
  BY <1>1 DEF ShapeOK, Calls, At
<1>3. /\ Others(r) /\ req'[r] = NoCall /\ req'[r].op = "none" /\ req'[r].pc = "idle"
      /\ req'[r].seen = NoPorts /\ req'[r].domain = 0 /\ ~req'[r].acted
  BY ReturnEffect DEF WriteAccess
<1>4. /\ access' = NewAccess(r) /\ UNCHANGED <<provider, row, ended, service, domains, made>>
      /\ ~torn' => ~torn /\ r \notin stale
  BY DEF WriteAccess, Writes, Spoils, NewAccess
<1>5. ShapeOK(r)' /\ RailwayOK'
  BY <1>3, <1>4 DEF ShapeOK, WorldOK, RailwayOK, NewAccess
<1>6. KnowsRow(r)' /\ ~Dirty(r)'
  BY <1>3 DEF KnowsRow, Dirty, At
<1>7. ASSUME KnowsRow(r), Alone(r) PROVE Served'
  <2>1. ServedBy(row, ended, NewAccess(r), domains)
    <3>1. CASE req[r].acted
      BY <1>1, <1>7, <3>1 DEF Dirty, Alone, LeadsToServed, At
    <3>2. CASE ~req[r].acted
      <4>1. req[r].op = "close" /\ row[req[r].port] = 0
        BY <1>1, <1>2, <1>7, <3>2 DEF ShapeOK, KnowsRow, At
      <4>2. Served
        BY <1>1, <1>7, <3>2 DEF Dirty, Alone, At
      <4> QED
        BY <4>1, <4>2 DEF Served, ServedBy, NewAccess, Open
    <3> QED
      BY <3>1, <3>2
  <2> QED
    BY <1>4, <2>1 DEF Served, ServedBy
<1> QED
  BY <1>3, <1>4, <1>5, <1>6, <1>7, WriteStep DEF Alone

LEMMA ClearRowStep ==
  ASSUME TypeOK, WorldOK, NEW r \in Requests, ClearRow(r)
  PROVE  WorldStep(r) /\ (~torn' => GoodStep(r))
<1> USE DEF ReqOK, TypeOK
<1>1. ShapeOK(r) /\ req[r] \in Calls /\ At(r, "clear")
  BY DEF WorldOK, ClearRow
<1>2. req[r].op = "delete" /\ req[r].acted /\ (provider = "aws" => ended) /\ Dirty(r)
  BY <1>1 DEF ShapeOK, Calls, At, Dirty
<1>3. /\ Others(r)
      /\ IF provider = "aws"
         THEN /\ req'[r].op = "none" /\ req'[r].pc = "idle" /\ req'[r].seen = NoPorts
              /\ req'[r].domain = 0 /\ ~req'[r].acted
         ELSE /\ req'[r].op = req[r].op /\ req'[r].pc = "end" /\ req'[r].left = req[r].left
              /\ req'[r].port = req[r].port /\ req'[r].seen = req[r].seen
              /\ req'[r].domain = req[r].domain /\ req'[r].acted = req[r].acted
  BY GotoEffect, ReturnEffect DEF ClearRow
<1>4. /\ row' = NoPorts /\ UNCHANGED <<provider, ended, access, service, domains, made>>
      /\ ~torn' => ~torn /\ r \notin stale
  BY DEF ClearRow, Writes, Spoils
<1>5. ShapeOK(r)' /\ RailwayOK'
  BY <1>1, <1>2, <1>3, <1>4 DEF ShapeOK, WorldOK, RailwayOK, At
<1>6. KnowsRow(r)' /\ (Dirty(r)' <=> provider # "aws")
  BY <1>2, <1>3, <1>4 DEF KnowsRow, Dirty, At
<1>7. ASSUME Alone(r) PROVE Alone(r)'
  <2>1. domains = {} /\ (provider = "aws" => access = {})
    BY <1>1, <1>2, <1>7 DEF Alone, LeadsToServed, At
  <2> QED
    BY <1>2, <1>3, <1>4, <1>6, <2>1 DEF Alone, LeadsToServed, Served, ServedBy, At
<1> QED
  BY <1>3, <1>4, <1>5, <1>6, <1>7, WriteStep

LEMMA EndRowStep ==
  ASSUME TypeOK, WorldOK, NEW r \in Requests, EndRow(r)
  PROVE  WorldStep(r) /\ (~torn' => GoodStep(r))
<1> USE DEF ReqOK, TypeOK
<1>1. ShapeOK(r) /\ req[r] \in Calls /\ At(r, "end")
  BY DEF WorldOK, EndRow
<1>2. req[r].op \in {"reap", "delete"}
  BY <1>1 DEF ShapeOK, Calls, At
<1>3. /\ Others(r) /\ req'[r].op = req[r].op /\ req'[r].pc = "drop"
      /\ req'[r].port = req[r].port /\ req'[r].seen = req[r].seen
      /\ req'[r].left = req[r].left
      /\ req'[r].domain = req[r].domain /\ req'[r].acted = req[r].acted
  BY GotoEffect DEF EndRow
<1>4. /\ ended' /\ row' \in {row, NoPorts} /\ UNCHANGED <<provider, access, service, domains, made>>
      /\ ~torn' => ~torn /\ r \notin stale
  BY DEF EndRow, Writes, Spoils
<1>5. ShapeOK(r)' /\ RailwayOK'
  BY <1>1, <1>2, <1>3, <1>4 DEF ShapeOK, WorldOK, RailwayOK, At
<1>6. KnowsRow(r)' /\ Dirty(r)'
  BY <1>3 DEF KnowsRow, Dirty, At
<1>7. ASSUME KnowsRow(r), Alone(r) PROVE LeadsToServed(r)'
  <2>1. domains \subseteq IF req[r].acted THEN {} ELSE Remaining(r)
    <3>1. CASE req[r].acted
      BY <1>1, <1>7, <3>1 DEF Dirty, Alone, LeadsToServed, At
    <3>2. CASE ~req[r].acted
      <4>1. Served
        BY <1>1, <1>7, <3>2 DEF Dirty, Alone, At
      <4>2. req[r].seen = row /\ req[r].left = Open(row)
        BY <1>1, <1>2, <1>7, <3>2 DEF KnowsRow, ShapeOK, At
      <4> QED
        BY <3>2, <4>1, <4>2, ListedIsOpen DEF Served, ServedBy, Remaining
    <3> QED
      BY <3>1, <3>2
  <2>2. Remaining(r)' = Remaining(r)
    BY <1>3 DEF Remaining
  <2> QED
    BY <1>3, <1>4, <2>1, <2>2 DEF LeadsToServed, At
<1> QED
  BY <1>3, <1>4, <1>5, <1>6, <1>7, WriteStep DEF Alone

LEMMA DropAccessStep ==
  ASSUME TypeOK, WorldOK, NEW r \in Requests, DropAccess(r)
  PROVE  WorldStep(r) /\ (~torn' => GoodStep(r))
<1> USE DEF ReqOK, TypeOK
<1>1. ShapeOK(r) /\ req[r] \in Calls /\ At(r, "drop") /\ Dirty(r)
  BY DEF WorldOK, DropAccess, Dirty
<1>2. /\ req[r].op \in {"reap", "delete"}
      /\ ~req[r].acted => req[r].op = "delete" /\ provider = "aws" /\ ended
  BY <1>1 DEF ShapeOK, Calls, At
<1>3. /\ Others(r)
      /\ IF req[r].acted
         THEN /\ req'[r].op = "none" /\ req'[r].pc = "idle" /\ req'[r].seen = NoPorts
              /\ req'[r].domain = 0 /\ ~req'[r].acted
         ELSE /\ req'[r].op = req[r].op /\ req'[r].pc = "purge" /\ req'[r].left = req[r].left
              /\ req'[r].port = req[r].port /\ req'[r].seen = req[r].seen
              /\ req'[r].domain = req[r].domain /\ req'[r].acted = req[r].acted
  BY GotoEffect, ReturnEffect DEF DropAccess
<1>4. /\ access' = {} /\ UNCHANGED <<provider, row, ended, service, domains, made>>
      /\ ~torn' => ~torn /\ r \notin stale
  BY DEF DropAccess, Writes, Spoils
<1>5. ShapeOK(r)' /\ RailwayOK'
  BY <1>1, <1>2, <1>3, <1>4 DEF ShapeOK, WorldOK, RailwayOK, At
<1>6. KnowsRow(r)' /\ (Dirty(r)' <=> ~req[r].acted)
  BY <1>2, <1>3, <1>4 DEF KnowsRow, Dirty, At
<1>7. ASSUME Alone(r) PROVE Alone(r)'
  <2>1. ended /\ domains \subseteq IF req[r].acted THEN {} ELSE Remaining(r)
    BY <1>1, <1>7 DEF Alone, LeadsToServed, At
  <2>2. CASE req[r].acted
    BY <1>4, <1>6, <2>1, <2>2 DEF Alone, Served, ServedBy
  <2>3. CASE ~req[r].acted
    <3>1. Remaining(r)' = Remaining(r)
      BY <1>3, <2>3 DEF Remaining
    <3> QED
      BY <1>3, <1>4, <1>6, <2>1, <2>3, <3>1 DEF Alone, LeadsToServed, At
  <2> QED
    BY <2>2, <2>3
<1> QED
  BY <1>3, <1>4, <1>5, <1>6, <1>7, WriteStep

LEMMA EndServiceStep ==
  ASSUME TypeOK, WorldOK, NEW r \in Requests, EndService(r)
  PROVE  WorldStep(r) /\ (~torn' => GoodStep(r))
<1> USE DEF ReqOK, TypeOK
<1>1. ShapeOK(r) /\ req[r] \in Calls /\ At(r, "purge") /\ req[r].left = {}
  BY DEF WorldOK, EndService
<1>2. req[r].op \in {"delete", "reap"} /\ req[r].domain = 0
      /\ (provider = "aws" /\ req[r].op = "delete" => ended)
  BY <1>1 DEF ShapeOK, Calls, At
<1>3. CASE service \/ provider = "aws"
  <2>1. /\ ~service' /\ domains' = (IF provider = "railway" THEN {} ELSE domains)
        /\ Acted(r, IF req[r].op = "delete" THEN "clear" ELSE "end")
        /\ UNCHANGED <<provider, row, ended, access, made, torn>>
    BY <1>3 DEF EndService
  <2>2. /\ Others(r) /\ req'[r].op = req[r].op
        /\ req'[r].pc = (IF req[r].op = "delete" THEN "clear" ELSE "end")
        /\ req'[r].port = req[r].port /\ req'[r].seen = req[r].seen
        /\ req'[r].left = req[r].left
        /\ req'[r].domain = req[r].domain /\ req'[r].acted
    BY <2>1, ActedEffect
  <2>3. ShapeOK(r)' /\ RailwayOK'
    BY <1>1, <1>2, <2>1, <2>2 DEF ShapeOK, WorldOK, RailwayOK, At
  <2>4. AllOwned'
    BY <2>1, <2>2, OwnedStep DEF WorldOK
  <2>5. Dirty(r)' /\ KnowsRow(r)'
    BY <1>2, <2>2 DEF Dirty, KnowsRow, At
  <2>6. CASE provider = "railway"
    <3>1. LeadsToServed(r)'
      BY <2>1, <2>2, <2>6 DEF LeadsToServed, At
    <3>2. world' # world
      BY <1>3, <2>1, <2>6 DEF world
    <3>3. GoodStep(r) \/ torn
      BY <2>1, <2>2, <2>5, <3>1, <3>2
         DEF GoodStep, StaleStep, AloneStep, OthersStep, Settles, Alone
    <3> QED
      BY <2>1, <2>2, <2>3, <2>4, <3>3 DEF WorldStep
  <2>7. CASE provider = "aws"
    <3>1. ASSUME KnowsRow(r), Alone(r) PROVE LeadsToServed(r)'
      <4>1. domains = {} /\ (req[r].op = "delete" => access = {})
        <5>1. CASE Dirty(r)
          BY <1>1, <2>7, <3>1, <5>1 DEF Alone, LeadsToServed, Remaining, At
        <5>2. CASE ~Dirty(r)
          <6>1. Served /\ ~ended /\ ~req[r].acted
            BY <1>1, <2>7, <3>1, <5>2 DEF Dirty, Alone, At
          <6>2. req[r].op = "reap" /\ req[r].seen = row /\ req[r].left = Open(row)
            BY <1>1, <1>2, <2>7, <3>1, <6>1 DEF KnowsRow, ShapeOK, At
          <6> QED
            BY <1>1, <6>1, <6>2, ListedIsOpen DEF Served, ServedBy
        <5> QED
          BY <5>1, <5>2
      <4> QED
        BY <1>2, <2>1, <2>2, <2>7, <4>1 DEF LeadsToServed, At
    <3>2. OthersStep(r)
      BY <2>1, <2>2, <2>7, OthersStay
    <3>3. GoodStep(r) \/ torn
      BY <2>1, <2>2, <2>5, <3>1, <3>2 DEF GoodStep, StaleStep, AloneStep, Alone
    <3> QED
      BY <2>1, <2>2, <2>3, <2>4, <3>3 DEF WorldStep
  <2> QED
    BY <2>6, <2>7
<1>4. CASE ~(service \/ provider = "aws")
  <2>1. Return(r) /\ UNCHANGED <<provider, world, made, torn>>
    BY <1>4 DEF EndService, world
  <2>2. ~Dirty(r)
    BY <1>1, <1>4 DEF Dirty, At
  <2> QED
    BY <2>1, <2>2, LeaveStep
<1> QED
  BY <1>3, <1>4

LEMMA HandlingStep ==
  ASSUME TypeOK, WorldOK, NEW r \in Requests, Handling(r)
  PROVE  WorldStep(r) /\ (~torn' => GoodStep(r))
BY OpenBeginStep, CloseBeginStep, PurgeStep, CreateDomainStep, OpenTimeoutStep,
   CloseRemoveStep, WriteRowStep, WriteAccessStep, DeleteBeginStep, ReapBeginStep,
   EndServiceStep, ClearRowStep, EndRowStep, DropAccessStep, FailStep DEF Handling

-----------------------------------------------------------------------------
(* The invariant.                                                          *)

LEMMA WorldInvariance ==
  ASSUME WorldOK, NEW r \in Requests, WorldStep(r), Overtakes(r)
  PROVE  WorldOK'
<1>1. \A q \in Requests : ShapeOK(q)'
  <2>1. ASSUME NEW q \in Requests \ {r} PROVE ShapeOK(q)'
    <3>1. ShapeOK(q) /\ req'[q] = req[q] /\ provider' = provider /\ (ended => ended')
      BY DEF WorldOK, WorldStep, Others
    <3> QED
      BY <3>1 DEF ShapeOK
  <2> QED
    BY <2>1 DEF WorldStep
<1>2. \A q \in stale' : req'[q] # NoCall
  BY DEF Overtakes
<1> QED
  BY <1>1, <1>2 DEF WorldStep, WorldOK

\* A handler that does nothing is neither dirty nor in need of the column.
LEMMA IdleIsClean ==
  ASSUME NEW q \in Requests, req[q] = NoCall
  PROVE  ~Dirty(q) /\ Knowing(q)
BY DEF Dirty, Knowing, KnowsRow, At, NoCall

\* What the others know and lead to is not changed while the world is not.
LEMMA OthersSame ==
  ASSUME UNCHANGED <<provider, world>>, NEW r \in Requests, Others(r),
         NEW q \in Requests \ {r}
  PROVE  /\ Dirty(q)' <=> Dirty(q)
         /\ LeadsToServed(q)' <=> LeadsToServed(q)
         /\ Knowing(q)' <=> Knowing(q)
<1>1. req'[q] = req[q] /\ Served' = Served
  BY SameServed DEF Others, world
<1>2. Dirty(q)' <=> Dirty(q)
  BY <1>1 DEF Dirty, At, world
<1>3. LeadsToServed(q)' <=> LeadsToServed(q)
  BY <1>1 DEF LeadsToServed, ServedBy, NewRow, NewAccess, Remaining, At, world
<1>4. KnowsRow(q)' <=> KnowsRow(q)
  BY <1>1 DEF KnowsRow, At, world
<1> QED
  BY <1>1, <1>2, <1>3, <1>4 DEF Knowing

LEMMA UntornStep ==
  ASSUME TypeOK, WorldOK, Untorn, NEW r \in Requests, GoodStep(r), Overtakes(r)
  PROVE  Untorn'
<1>1. Others(r) /\ provider' = provider /\ StaleStep(r) /\ AloneStep(r) /\ OthersStep(r)
  BY DEF GoodStep
<1>2. \A q \in Requests :
        q \in stale' <=> /\ req'[q] # NoCall
                         /\ \/ q \in stale
                            \/ q # r /\ req[q] # NoCall /\ world' # world
  BY DEF Overtakes
<1>3. \A q \in Requests : req[q] = NoCall => ~Dirty(q)
  BY IdleIsClean
<1>4. \A q \in Requests : req'[q] = NoCall => ~Dirty(q)' /\ Knowing(q)'
  BY DEF Dirty, Knowing, KnowsRow, At, NoCall
<1>5. \A q \in Requests : q \in stale' /\ Dirty(q)' => Untorn'
  BY DEF Untorn, Blocked
<1>6. ASSUME Settles(r) PROVE Untorn'
  <2>1. CASE r \in stale'
    BY <1>5, <1>6, <2>1 DEF Settles
  <2>2. CASE r \notin stale'
    <3>1. InHand'
      BY <1>6, <2>2 DEF InHand, Settles
    <3>2. ASSUME NEW q \in Requests, q \notin stale' PROVE Knowing(q)'
      <4>1. CASE q = r
        BY <1>6, <4>1 DEF Settles, Knowing
      <4>2. CASE q # r
        <5>1. req[q] = NoCall \/ req'[q] = NoCall
          BY <1>2, <1>6, <3>2, <4>2 DEF Settles
        <5> QED
          BY <1>1, <1>4, <4>2, <5>1 DEF Others
      <4> QED
        BY <4>1, <4>2
    <3> QED
      BY <3>1, <3>2 DEF Untorn
  <2> QED
    BY <2>1, <2>2
<1>7. ASSUME NEW q \in Requests \ {r}, q \in stale \/ world' # world, Dirty(q) PROVE Untorn'
  <2>1. CASE Dirty(q)'
    BY <1>2, <1>3, <1>4, <1>5, <1>7, <2>1
  <2> QED
    BY <1>1, <1>6, <1>7, <2>1 DEF OthersStep
<1>8. CASE Blocked /\ ~Dirty(r)
  BY <1>7, <1>8, TypeOK DEF Blocked, TypeOK
<1>9. ASSUME UNCHANGED world, NEW q \in Requests \ {r}
      PROVE  /\ Dirty(q)' <=> Dirty(q)
             /\ LeadsToServed(q)' <=> LeadsToServed(q)
             /\ Knowing(q)' <=> Knowing(q)
             /\ q \in stale' => q \in stale
  BY <1>1, <1>2, <1>9, OthersSame
<1>10. UNCHANGED world => Served' = Served
  BY <1>1, SameServed DEF world
<1>11. CASE r \in stale
  <2>1. CASE Dirty(r)'
    BY <1>2, <1>4, <1>5, <1>11, <2>1
  <2>2. CASE ~Dirty(r)'
    <3>1. UNCHANGED world /\ ~Dirty(r)
      BY <1>1, <1>11, <2>2 DEF StaleStep
    <3>2. CASE ~Blocked
      <4>1. InHand /\ \A q \in Requests \ stale : Knowing(q)
        BY <3>2 DEF Untorn
      <4>2. InHand'
        BY <1>9, <1>10, <1>11, <3>1, <4>1 DEF InHand
      <4>3. ASSUME NEW q \in Requests, q \notin stale' PROVE Knowing(q)'
        BY <1>2, <1>4, <1>9, <1>11, <3>1, <4>1, <4>3
      <4> QED
        BY <4>2, <4>3 DEF Untorn
    <3> QED
      BY <1>8, <3>1, <3>2
  <2> QED
    BY <2>1, <2>2
<1>12. CASE r \notin stale /\ ~Blocked
  <2>1. InHand /\ \A q \in Requests \ stale : Knowing(q)
    BY <1>12 DEF Untorn
  <2>2. r \notin stale' /\ KnowsRow(r)' /\ (Alone(r) => Alone(r)')
    BY <1>1, <1>2, <1>12, <2>1 DEF AloneStep, Knowing
  <2>3. Dirty(r) /\ Served => LeadsToServed(r)
    BY <1>12, <2>1 DEF Knowing
  <2>4. Alone(r)' => InHand'
    BY <2>2 DEF Alone, InHand
  <2>5. CASE UNCHANGED world
    <3>1. Served => Alone(r)'
      BY <2>2, <2>3 DEF Alone
    <3>2. Served' => Alone(r)'
      BY <1>10, <2>5, <3>1
    <3>3. Knowing(r)'
      BY <2>2, <3>2 DEF Knowing, Alone
    <3>4. InHand'
      <4>1. CASE Served
        BY <2>4, <3>1, <4>1
      <4>2. ASSUME NEW q \in Requests \ stale, Dirty(q), LeadsToServed(q) PROVE InHand'
        <5>1. CASE q = r
          BY <2>2, <2>4, <4>2, <5>1 DEF Alone
        <5>2. CASE q # r
          BY <1>9, <2>5, <4>2, <5>2 DEF InHand
        <5> QED
          BY <5>1, <5>2
      <4> QED
        BY <2>1, <4>1, <4>2 DEF InHand
    <3>5. ASSUME NEW q \in Requests, q \notin stale' PROVE Knowing(q)'
      BY <1>2, <1>4, <1>9, <2>1, <2>5, <3>3, <3>5
    <3> QED
      BY <3>4, <3>5 DEF Untorn
  <2>6. CASE world' # world /\ \A q \in Requests \ {r} : ~Dirty(q)
    <3>1. Alone(r)
      BY <1>12, <2>1, <2>3, <2>6 DEF InHand, Alone
    <3>2. Knowing(r)'
      BY <2>2, <3>1 DEF Knowing, Alone
    <3>3. ASSUME NEW q \in Requests, q \notin stale', q # r PROVE Knowing(q)'
      <4>1. req'[q] = NoCall
        BY <1>1, <1>2, <2>6, <3>3 DEF Others
      <4> QED
        BY <1>4, <4>1
    <3> QED
      BY <2>2, <2>4, <3>1, <3>2, <3>3 DEF Untorn
  <2> QED
    BY <1>7, <2>5, <2>6
<1>13. CASE r \notin stale /\ Blocked
  BY <1>7, <1>13 DEF Blocked, TypeOK
<1> QED
  BY <1>11, <1>12, <1>13

\* The world is served or in hand until something is torn.
LEMMA PortInvariance == Spec => []PortInv
<1>1. Init => PortInv
  <2> SUFFICES ASSUME Init PROVE PortInv
    OBVIOUS
  <2>1. \A r \in Requests : req[r] = NoCall
    BY DEF Init
  <2>2. \A r \in Requests : ShapeOK(r)
    BY <2>1 DEF ShapeOK, NoCall
  <2>3. AllOwned
    <3>1. \A p \in Ports : row[p] = 0
      BY DEF Init, NoPorts
    <3>2. \A r \in Requests : req[r].domain = 0 /\ \A p \in Ports : req[r].seen[p] = 0
      BY <2>1 DEF NoCall, NoPorts
    <3> QED
      BY <3>1, <3>2 DEF AllOwned, Owned
  <2>4. Served
    <3>1. Listed(row) = {} /\ Open(row) = {}
      BY NoneType, ListedIs DEF Init, NoPorts, Open
    <3> QED
      BY <3>1 DEF Init, Served, ServedBy
  <2>5. \A r \in Requests : Knowing(r)
    BY <2>1, IdleIsClean
  <2> QED
    BY <2>2, <2>3, <2>4, <2>5 DEF Init, PortInv, WorldOK, RailwayOK, Untorn, InHand
<1>2. TypeOK /\ PortInv /\ [Next]_vars => PortInv'
  <2> SUFFICES ASSUME TypeOK, PortInv, [Next]_vars PROVE PortInv'
    OBVIOUS
  <2>1. CASE UNCHANGED vars
    <3>1. WorldOK'
      BY <2>1 DEF vars, world, PortInv, WorldOK, ShapeOK, AllOwned, Owned, RailwayOK
    <3>2. /\ Served' = Served /\ stale' = stale /\ torn' = torn
          /\ \A r \in Requests : /\ Dirty(r)' = Dirty(r) /\ KnowsRow(r)' = KnowsRow(r)
                                 /\ LeadsToServed(r)' = LeadsToServed(r)
      BY <2>1 DEF vars, world, Served, ServedBy, Dirty, KnowsRow, LeadsToServed, NewRow,
                  NewAccess, Remaining, At
    <3>3. /\ Blocked' <=> Blocked
          /\ InHand' <=> InHand
          /\ \A r \in Requests : Knowing(r)' <=> Knowing(r)
      BY <3>2 DEF Blocked, InHand, Knowing, TypeOK
    <3> QED
      BY <3>1, <3>2, <3>3 DEF PortInv, Untorn
  <2>2. ASSUME NEW r \in Requests, Handling(r), Overtakes(r) PROVE PortInv'
    <3>1. WorldStep(r) /\ (~torn' => GoodStep(r))
      BY <2>2, HandlingStep DEF PortInv
    <3>2. WorldOK'
      BY <2>2, <3>1, WorldInvariance DEF PortInv
    <3>3. ~torn' => Untorn'
      BY <2>2, <3>1, UntornStep DEF PortInv, GoodStep
    <3> QED
      BY <3>2, <3>3 DEF PortInv
  <2> QED
    BY <2>1, <2>2 DEF Next
<1> QED
  BY <1>1, <1>2, TypeCorrect, PTL DEF Spec

-----------------------------------------------------------------------------
\* PortsAreServed: when all handlers have returned and none of them tore anything, the
\* domains at the provider and the access headers are those of the column, and of a
\* workspace that has ended nothing is left.
THEOREM PortsStayServed == Spec => []PortsAreServed
<1>1. TypeOK /\ PortInv => PortsAreServed
  <2> SUFFICES ASSUME TypeOK, PortInv, Quiet, ~torn PROVE Served
    BY DEF PortsAreServed, Served, ServedBy
  <2>1. \A r \in Requests : ~Dirty(r)
    BY IdleIsClean DEF Quiet
  <2>2. stale = {}
    BY DEF PortInv, WorldOK, Quiet, TypeOK
  <2> QED
    BY <2>1, <2>2 DEF PortInv, Untorn, Blocked, InHand
<1> QED
  BY <1>1, TypeCorrect, PortInvariance, PTL
=============================================================================
