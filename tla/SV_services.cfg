SPECIFICATION ServicesSpec
CONSTANTS
  r1 = r1
  r2 = r2
  u1 = u1
  u2 = u2
  Ports <- TwoPorts
  MaxDomains = 2
  Requests <- TwoRequests
  Handlers <- TwoRequests
  People <- TwoNames
  Owner = "owner"
  MaxCollaborators = 1
  MaxInvites = 2
  MaxCredentials = 2
  MaxTokens = 2
  Installations <- TwoNames
  MaxRows = 2
SYMMETRY Symmetry
INVARIANTS PortsAreServed SeatsAreLimited DefaultIsKept NoTokenIsLost TablesAgree
PROPERTIES WithdrawnGrantsNothing
\* A workspace ends; invitations, credentials, tokens and installations are used up.
CHECK_DEADLOCK FALSE
