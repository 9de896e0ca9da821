\* A host and a viewer with a socket each (the viewer also calls GET), two requests
\* at a time next to the clean-up job, and one failure.
SPECIFICATION FairSpec
CONSTANTS
  host = host
  viewer = viewer
  h1 = h1
  Users = {host, viewer}
  Host = host
  Sockets = {h1, v1}
  UserOf <- MCUserOf
  NoSocket = NoSocket
  Workers = {c1, c2}
  MaxFaults = 1
CHECK_DEADLOCK FALSE
INVARIANTS
  TypeOK
  AdmittedOnly
  EndHeard
  MessagesGo
PROPERTIES
  ExpiredSessionsEnd
