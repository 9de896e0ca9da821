--------------------------------- MODULE ChatProofs ---------------------------------
(***************************************************************************)
(* Encrypted messages, for every set of users, devices, rooms and          *)
(* messages, and any finite number of find-or-create requests: who gets an *)
(* envelope of a message, what a device that fetched has, how many rooms a *)
(* pair can get, and that a message has a room.                            *)
(***************************************************************************)
EXTENDS Chat, FiniteSetTheorems, TLAPS

\* A request carries its payload from the await it is suspended at to the next,
\* and its room was created once; a room that there is was created.
Carried ==
  /\ \A m \in Messages :
       pc[m] \notin {"new", "refused"} => req[m] \in Payloads /\ req[m].room \in used
  /\ \A r \in Rooms : Exists(r) => r \in used

\* A request moves, and the others stay where they are.
LEMMA MessageMoves ==
  ASSUME TypeOK, NEW m \in Messages
  PROVE  /\ \A label : Goto(m, label) =>
              pc'[m] = label /\ \A n \in Messages \ {m} : pc'[n] = pc[n]
         /\ \A label \in {"device", "read", "commit", "emit", "sent", "refused"} :
              Goto(m, label) =>
                pc' \in [Messages -> {"new", "device", "read", "commit", "emit", "sent", "refused"}]
         /\ Refuse(m) =>
              /\ pc'[m] = "refused" /\ changed'[m] = {} /\ req'[m] = NoReq
              /\ \A n \in Messages \ {m} :
                   pc'[n] = pc[n] /\ req'[n] = req[n] /\ changed'[n] = changed[n]
              /\ pc' \in [Messages -> {"new", "device", "read", "commit", "emit", "sent", "refused"}]
              /\ req' \in [Messages -> Payloads \cup {NoReq}]
              /\ changed' \in [Messages -> SUBSET Devices]
<1>1. /\ pc \in [Messages -> {"new", "device", "read", "commit", "emit", "sent", "refused"}]
      /\ req \in [Messages -> Payloads \cup {NoReq}]
      /\ changed \in [Messages -> SUBSET Devices]
  BY DEF TypeOK
<1> QED BY <1>1 DEF Goto, Refuse

\* Each action keeps the types.
LEMMA ChatTypeStep == TypeOK /\ Carried /\ [Next]_vars => TypeOK'
<1> SUFFICES ASSUME TypeOK, Carried, [Next]_vars PROVE TypeOK'
  OBVIOUS
<1> DEFINE Labels == {"new", "device", "read", "commit", "emit", "sent", "refused"}
<1> USE ChatAssumption DEF TypeOK
<1>1. ASSUME NEW d \in Devices,
             \/ RegisterDevice(d) \/ RevokeDevice(d) \/ Connect(d) \/ Admit(d)
             \/ Disconnect(d)
      PROVE  TypeOK'
  <2>1. CASE RegisterDevice(d)
    BY <2>1 DEF RegisterDevice, Changes, Activate, Statuses, roomVars, msgVars, rowVars, socketVars, noteVars
  <2>2. CASE RevokeDevice(d)
    BY <2>2 DEF RevokeDevice, Changes, Retire, Statuses, roomVars, msgVars, rowVars, socketVars, noteVars
  <2>3. CASE Connect(d) \/ Admit(d)
    BY <2>3 DEF Connect, Admit, roomVars, msgVars, rowVars, noteVars
  <2>4. CASE Disconnect(d)
    BY <2>4 DEF Disconnect, Offline, roomVars, msgVars, rowVars, noteVars
  <2> QED BY <1>1, <2>1, <2>2, <2>3, <2>4
<1>2. ASSUME NEW d \in Devices, Fetch(d)
      PROVE  TypeOK'
  BY <1>2 DEF Fetch, roomVars, msgVars, rowVars, noteVars
<1>3. ASSUME NEW d \in Devices, AckEnvelopes(d)
      PROVE  TypeOK'
  BY <1>3 DEF AckEnvelopes, roomVars, msgVars, socketVars, noteVars
<1>4. ASSUME NEW d \in Devices, NEW r \in Rooms, JoinRoom(d, r) \/ LeaveRoom(d, r)
      PROVE  TypeOK'
  BY <1>4 DEF JoinRoom, LeaveRoom, roomVars, msgVars, rowVars, noteVars
<1>5. ASSUME NEW d \in Devices, NEW m \in Messages, NEW r \in Rooms, NEW W \in SUBSET Devices,
             SendMessage(m, d, r, W)
      PROVE  TypeOK'
  <2>1. [kind |-> "message", room |-> r, device |-> d, wrapped |-> W] \in Payloads
    BY DEF Payloads
  <2>2. req' \in [Messages -> Payloads \cup {NoReq}]
    BY <1>5, <2>1 DEF SendMessage
  <2>3. pc' \in [Messages -> Labels]
    BY <1>5, MessageMoves DEF SendMessage
  <2> QED BY <1>5, <2>2, <2>3 DEF SendMessage, roomVars, rowVars, socketVars, noteVars
<1>6. ASSUME NEW c \in Askers, NEW P \in Pairs, FindRoom(c, P)
      PROVE  TypeOK'
  BY <1>6 DEF FindRoom, msgVars, rowVars, socketVars, noteVars
<1>7. ASSUME NEW c \in Askers, CreateRoom(c) \/ CreateRoomFails(c)
      PROVE  TypeOK'
  <2>1. members' \in [Rooms -> Pairs \cup {{}}] /\ used' \subseteq Rooms
    BY <1>7 DEF CreateRoom, CreateRoomFails
  <2>2. ask' \in [Askers -> Pairs \cup {{}}]
    BY <1>7 DEF CreateRoom, CreateRoomFails
  <2> QED BY <1>7, <2>1, <2>2 DEF CreateRoom, CreateRoomFails, msgVars, rowVars, socketVars, noteVars
<1>8. ASSUME NEW r \in Rooms, RemoveRoom(r)
      PROVE  TypeOK'
  BY <1>8 DEF RemoveRoom, msgVars, rowVars, noteVars
<1>9. ASSUME NEW m \in Messages, Refuse(m)
      PROVE  TypeOK'
  BY <1>9, MessageMoves DEF Refuse, roomVars, rowVars, socketVars, noteVars
<1>10. ASSUME NEW m \in Messages, CheckDevice(m) \/ ReadRoom(m) \/ CommitMessageFails(m)
       PROVE  TypeOK'
  <2>1. CASE Refuse(m)
    BY <2>1, <1>9
  <2>2. CASE ~Refuse(m)
    BY <1>10, <2>2, MessageMoves
       DEF CheckDevice, ReadRoom, CommitMessageFails, roomVars, rowVars, socketVars, noteVars
  <2> QED BY <2>1, <2>2
<1>11. ASSUME NEW m \in Messages, CommitMessage(m)
       PROVE  TypeOK'
  <2>1. req[m].wrapped \subseteq Devices
    BY <1>11 DEF CommitMessage, Carried, Payloads
  <2>2. pc' \in [Messages -> Labels]
    BY <1>11, MessageMoves DEF CommitMessage
  <2>3. envelopes' \in [Messages -> SUBSET Devices]
    BY <1>11, <2>1 DEF CommitMessage
  <2> QED BY <1>11, <2>2, <2>3 DEF CommitMessage, roomVars, socketVars, noteVars
<1>12. ASSUME NEW m \in Messages, EmitMessage(m)
       PROVE  TypeOK'
  <2>1. members[req[m].room] \subseteq Users
    BY <1>12 DEF EmitMessage, Carried, Payloads, Pairs
  <2>2. pc' \in [Messages -> Labels]
    BY <1>12, MessageMoves DEF EmitMessage
  <2>3. /\ seen' \in [Devices -> SUBSET Messages] /\ checking' \in [Messages -> SUBSET Users]
        /\ changed' \in [Messages -> SUBSET Devices]
    BY <1>12, <2>1 DEF EmitMessage
  <2> QED BY <1>12, <2>2, <2>3 DEF EmitMessage, roomVars, rowVars, socketVars
<1>13. ASSUME NEW m \in Messages, NEW u \in Users, NotifyRecipient(m, u) \/ NotifyFails(m, u)
       PROVE  TypeOK'
  <2>1. checking' \in [Messages -> SUBSET Users] /\ notified' \in [Messages -> SUBSET Users]
    BY <1>13 DEF NotifyRecipient, NotifyFails, Handled
  <2> QED BY <1>13, <2>1 DEF NotifyRecipient, NotifyFails, roomVars, msgVars, rowVars, socketVars
<1>14. CASE ServerRestart
  <2>1. pc' \in [Messages -> Labels]
    BY <1>14 DEF ServerRestart
  <2>2. req' \in [Messages -> Payloads \cup {NoReq}]
    BY <1>14 DEF ServerRestart
  <2>3. /\ link' \in [Devices -> {"off", "guard", "on"}] /\ joined' \in [Devices -> SUBSET Rooms]
        /\ caughtUp' \subseteq Devices
    BY <1>14 DEF ServerRestart, Offline
  <2> QED BY <1>14, <2>1, <2>2, <2>3 DEF ServerRestart, rowVars
<1>15. CASE UNCHANGED vars
  BY <1>15 DEF vars, roomVars, msgVars, rowVars, socketVars, noteVars
<1> QED
  BY <1>1, <1>2, <1>3, <1>4, <1>5, <1>6, <1>7, <1>8, <1>10, <1>11, <1>12, <1>13, <1>14, <1>15
     DEF Next
---------------------------------------------------------------------------
(* The parts of the invariant.                                             *)

\* The envelopes of a message: those its transaction will insert, or has.
EnvelopesOf(m) == IF pc[m] = "commit" THEN req[m].wrapped ELSE envelopes[m]

\* From the moment the fan-out is found to match the room, and while there is the room,
\* it still does but for the devices that registered or were revoked since.
FanoutOf(m) ==
  pc[m] = "emit" \/ (pc[m] = "commit" /\ Exists(req[m].room)) =>
    \A d \in Devices \ changed[m] : d \in EnvelopesOf(m) <=> d \in Expected(m)
Fanout == \A m \in Messages : FanoutOf(m)

\* Only a device whose socket is connected counts as caught up: it hears of
\* every emission.
CaughtUpListen == \A d \in caughtUp : link[d] = "on"

\* The rooms and the requests of a pair can be counted.
RoomsOf(P) == {r \in Rooms : members[r] = P}
AskersOf(P) == {c \in Askers : ask[c] = P}
RoomsFinite == \A P \in Pairs : IsFiniteSet(RoomsOf(P))

ChatInv ==
  /\ TypeOK /\ Carried
  /\ Fanout
  /\ CaughtUpListen /\ NoGap
  /\ RoomsFinite /\ RoomsBounded
  /\ RoomOfMessage
---------------------------------------------------------------------------
(* What the actions leave alone.                                           *)

\* Nothing happens to the devices, the rooms and the messages.
Quiet == UNCHANGED <<status, members, used, pc, req, envelopes, changed>>

\* Nothing happens to the devices, the rooms and the other messages.
OnlyMessage(m) ==
  /\ UNCHANGED <<status, members, used>>
  /\ \A n \in Messages \ {m} :
       pc'[n] = pc[n] /\ req'[n] = req[n] /\ envelopes'[n] = envelopes[n] /\ changed'[n] = changed[n]

\* Sockets, fetches, acknowledgements, the listener, and finding no room.
LEMMA QuietActions ==
  /\ \A d \in Devices :
       /\ Connect(d) \/ Admit(d) \/ Disconnect(d) \/ Fetch(d) \/ AckEnvelopes(d) => Quiet
       /\ \A r \in Rooms : JoinRoom(d, r) \/ LeaveRoom(d, r) => Quiet
  /\ \A c \in Askers :
       /\ \A P \in Pairs : FindRoom(c, P) => Quiet
       /\ CreateRoomFails(c) => Quiet
  /\ \A m \in Messages, u \in Users : NotifyRecipient(m, u) \/ NotifyFails(m, u) => Quiet
  /\ UNCHANGED vars => Quiet
<1> USE DEF Quiet, vars, roomVars, msgVars, rowVars, socketVars, noteVars
<1>1. ASSUME NEW d \in Devices,
             Connect(d) \/ Admit(d) \/ Disconnect(d) \/ Fetch(d) \/ AckEnvelopes(d)
      PROVE  Quiet
  BY <1>1 DEF Connect, Admit, Disconnect, Fetch, AckEnvelopes
<1>2. ASSUME NEW d \in Devices, NEW r \in Rooms, JoinRoom(d, r) \/ LeaveRoom(d, r)
      PROVE  Quiet
  BY <1>2 DEF JoinRoom, LeaveRoom
<1>3. ASSUME NEW c \in Askers, NEW P \in Pairs, FindRoom(c, P)
      PROVE  Quiet
  BY <1>3 DEF FindRoom
<1>4. ASSUME NEW c \in Askers, CreateRoomFails(c)
      PROVE  Quiet
  BY <1>4 DEF CreateRoomFails
<1>5. ASSUME NEW m \in Messages, NEW u \in Users, NotifyRecipient(m, u) \/ NotifyFails(m, u)
      PROVE  Quiet
  BY <1>5 DEF NotifyRecipient, NotifyFails
<1> HIDE DEF Quiet
<1>6. UNCHANGED vars => Quiet
  BY DEF Quiet
<1> QED BY <1>1, <1>2, <1>3, <1>4, <1>5, <1>6

\* Each await of a send-message request is about its own message.
LEMMA MessageActions ==
  ASSUME TypeOK, NEW m \in Messages
  PROVE  /\ \A d \in Devices, r \in Rooms, W \in SUBSET Devices :
              SendMessage(m, d, r, W) => OnlyMessage(m)
         /\ Refuse(m) => OnlyMessage(m)
         /\ CheckDevice(m) \/ ReadRoom(m) \/ CommitMessage(m) \/ CommitMessageFails(m)
              \/ EmitMessage(m) => OnlyMessage(m)
<1> USE DEF OnlyMessage, roomVars, rowVars
<1>1. ASSUME NEW d \in Devices, NEW r \in Rooms, NEW W \in SUBSET Devices,
             SendMessage(m, d, r, W)
      PROVE  OnlyMessage(m)
  <2>1. \A n \in Messages \ {m} : req'[n] = req[n]
    BY <1>1 DEF SendMessage, TypeOK
  <2> QED BY <1>1, <2>1, MessageMoves DEF SendMessage
<1>2. ASSUME Refuse(m)
      PROVE  OnlyMessage(m)
  BY <1>2, MessageMoves DEF Refuse
<1>3. ASSUME CheckDevice(m) \/ ReadRoom(m) \/ CommitMessageFails(m)
      PROVE  OnlyMessage(m)
  <2>1. CASE Refuse(m)
    BY <2>1, <1>2
  <2>2. CASE ~Refuse(m)
    BY <1>3, <2>2, MessageMoves DEF CheckDevice, ReadRoom, CommitMessageFails
  <2> QED BY <2>1, <2>2
<1>4. ASSUME CommitMessage(m)
      PROVE  OnlyMessage(m)
  <2>1. \A n \in Messages \ {m} : envelopes'[n] = envelopes[n]
    BY <1>4 DEF CommitMessage, TypeOK
  <2> QED BY <1>4, <2>1, MessageMoves DEF CommitMessage
<1>5. ASSUME EmitMessage(m)
      PROVE  OnlyMessage(m)
  <2>1. \A n \in Messages \ {m} : changed'[n] = changed[n]
    BY <1>5 DEF EmitMessage, TypeOK
  <2> QED BY <1>5, <2>1, MessageMoves DEF EmitMessage
<1> QED BY <1>1, <1>2, <1>3, <1>4, <1>5

\* Every step is one of these.
LEMMA Steps ==
  ASSUME TypeOK, [Next]_vars
  PROVE  \/ Quiet
         \/ \E d \in Devices : RegisterDevice(d) \/ RevokeDevice(d)
         \/ \E c \in Askers : CreateRoom(c)
         \/ \E r \in Rooms : RemoveRoom(r)
         \/ \E m \in Messages :
              /\ OnlyMessage(m)
              /\ \/ \E d \in Devices, r \in Rooms, W \in SUBSET Devices : SendMessage(m, d, r, W)
                 \/ CheckDevice(m) \/ ReadRoom(m) \/ CommitMessage(m) \/ CommitMessageFails(m)
                 \/ EmitMessage(m)
         \/ ServerRestart
BY QuietActions, MessageActions, Zenon DEF Next
---------------------------------------------------------------------------
(* Each part is kept.                                                      *)

\* The room a request creates has an id of its own.
LEMMA NewRoom ==
  ASSUME TypeOK, NEW c \in Askers, CreateRoom(c)
  PROVE  /\ \E r \in Rooms \ used :
              /\ members'[r] = ask[c] /\ ask[c] \in Pairs /\ used' = used \cup {r}
              /\ \A s \in Rooms \ {r} : members'[s] = members[s]
         /\ \A s \in used : members'[s] = members[s]
         /\ UNCHANGED <<status, pc, req, envelopes, changed>>
BY DEF CreateRoom, TypeOK, msgVars, rowVars

\* A payload is read once and keeps its room.
LEMMA CarriedStep == TypeOK /\ Carried /\ [Next]_vars => Carried'
<1> SUFFICES ASSUME TypeOK, Carried, [Next]_vars PROVE Carried'
  OBVIOUS
<1> USE DEF Exists
<1>1. CASE Quiet
  BY <1>1 DEF Quiet, Carried
<1>2. ASSUME NEW d \in Devices, RegisterDevice(d) \/ RevokeDevice(d)
      PROVE  Carried'
  BY <1>2 DEF RegisterDevice, RevokeDevice, roomVars, msgVars, Carried
<1>3. ASSUME NEW c \in Askers, CreateRoom(c)
      PROVE  Carried'
  BY <1>3, NewRoom DEF Carried
<1>4. ASSUME NEW r \in Rooms, RemoveRoom(r)
      PROVE  Carried'
  BY <1>4 DEF RemoveRoom, msgVars, Carried, TypeOK
<1>5. ASSUME NEW m \in Messages, OnlyMessage(m),
             pc'[m] \notin {"new", "refused"} => req'[m] \in Payloads /\ req'[m].room \in used
      PROVE  Carried'
  BY <1>5 DEF OnlyMessage, Carried
<1>6. ASSUME NEW m \in Messages, OnlyMessage(m), NEW d \in Devices, NEW r \in Rooms,
             NEW W \in SUBSET Devices, SendMessage(m, d, r, W)
      PROVE  Carried'
  <2>1. r \in used
    BY <1>6 DEF SendMessage, Carried
  <2>2. /\ req'[m] = [kind |-> "message", room |-> r, device |-> d, wrapped |-> W]
        /\ req'[m] \in Payloads
    BY <1>6 DEF SendMessage, TypeOK, Payloads
  <2> QED BY <1>5, <1>6, <2>1, <2>2
<1>7. ASSUME NEW m \in Messages, OnlyMessage(m),
             \/ CheckDevice(m) \/ ReadRoom(m) \/ CommitMessage(m) \/ CommitMessageFails(m)
             \/ EmitMessage(m)
      PROVE  Carried'
  <2>1. CASE Refuse(m)
    BY <1>5, <1>7, <2>1, MessageMoves
  <2>2. CASE ~Refuse(m)
    <3>1. req' = req /\ pc[m] \notin {"new", "refused"}
      BY <1>7, <2>2 DEF CheckDevice, ReadRoom, CommitMessage, CommitMessageFails, EmitMessage
    <3> QED BY <1>5, <1>7, <3>1 DEF Carried
  <2> QED BY <2>1, <2>2
<1>8. CASE ServerRestart
  <2>1. \A m \in Messages : pc'[m] \notin {"new", "refused"} =>
          pc[m] \notin {"new", "refused"} /\ req'[m] = req[m]
    BY <1>8 DEF ServerRestart, Stored, TypeOK
  <2> QED BY <1>8, <2>1 DEF ServerRestart, Carried
<1> QED BY <1>1, <1>2, <1>3, <1>4, <1>6, <1>7, <1>8, Steps

\* A message is spared while its envelopes and its room stay, or the room goes before
\* the commit, and devices that register or are revoked meanwhile are noted.
LEMMA FanoutStays ==
  ASSUME NEW m \in Messages, FanoutOf(m),
         pc'[m] = pc[m], req'[m] = req[m], envelopes'[m] = envelopes[m],
         changed[m] \subseteq changed'[m],
         pc[m] \in {"commit", "emit"} =>
           /\ \/ members'[req[m].room] = members[req[m].room]
              \/ pc[m] = "commit" /\ members'[req[m].room] = {}
           /\ \A d \in Devices \ changed'[m] : d \in Active' <=> d \in Active
  PROVE  FanoutOf(m)'
BY DEF FanoutOf, EnvelopesOf, Expected, DevicesOf, Exists

\* Devices that register or are revoked after the match are noted, and the others keep
\* their envelopes.
LEMMA FanoutStep == TypeOK /\ Carried /\ Fanout /\ [Next]_vars => Fanout'
<1> SUFFICES ASSUME TypeOK, Carried, Fanout, [Next]_vars PROVE Fanout'
  OBVIOUS
<1>0. ASSUME \A m \in Messages :
               /\ pc'[m] = pc[m] /\ req'[m] = req[m] /\ envelopes'[m] = envelopes[m]
               /\ changed[m] \subseteq changed'[m]
               /\ pc[m] \in {"commit", "emit"} =>
                    /\ \/ members'[req[m].room] = members[req[m].room]
                       \/ pc[m] = "commit" /\ members'[req[m].room] = {}
                    /\ \A d \in Devices \ changed'[m] : d \in Active' <=> d \in Active
      PROVE  Fanout'
  BY <1>0, FanoutStays DEF Fanout
<1>1. CASE Quiet
  BY <1>0, <1>1 DEF Quiet, Active
<1>2. ASSUME NEW d \in Devices, RegisterDevice(d) \/ RevokeDevice(d)
      PROVE  Fanout'
  <2>1. /\ UNCHANGED <<members, pc, req, envelopes>>
        /\ \A m \in Messages : changed[m] \subseteq changed'[m]
    BY <1>2 DEF RegisterDevice, RevokeDevice, Changes, roomVars, msgVars, rowVars, TypeOK
  <2>2. \A e \in Devices \ {d} : e \in Active' <=> e \in Active
    BY <1>2 DEF RegisterDevice, RevokeDevice, Activate, Retire, Active, TypeOK
  <2>3. \/ Active' = Active
        \/ \A m \in Messages : pc[m] \in {"commit", "emit"} => d \in changed'[m]
    BY <1>2 DEF RegisterDevice, RevokeDevice, Changes, Activate, Active, TypeOK
  <2> QED BY <1>0, <2>1, <2>2, <2>3
<1>4. ASSUME NEW c \in Askers, CreateRoom(c)
      PROVE  Fanout'
  <2>1. \A m \in Messages : pc[m] \in {"commit", "emit"} =>
          members'[req[m].room] = members[req[m].room]
    BY <1>4, NewRoom DEF Carried
  <2> QED BY <1>0, <1>4, <2>1, NewRoom DEF Active
<1>5. ASSUME NEW r \in Rooms, RemoveRoom(r)
      PROVE  Fanout'
  <2>1. \A m \in Messages : pc[m] \in {"commit", "emit"} =>
          \/ members'[req[m].room] = members[req[m].room]
          \/ pc[m] = "commit" /\ members'[req[m].room] = {}
    BY <1>5 DEF RemoveRoom, Stored, Carried, Payloads, TypeOK
  <2> QED BY <1>0, <1>5, <2>1 DEF RemoveRoom, msgVars, rowVars, Active
<1>6. ASSUME NEW m \in Messages, OnlyMessage(m), FanoutOf(m)'
      PROVE  Fanout'
  <2> SUFFICES ASSUME NEW n \in Messages PROVE FanoutOf(n)'
    BY DEF Fanout
  <2>1. CASE n = m
    BY <1>6, <2>1
  <2>2. CASE n # m
    BY <1>6, <2>2, FanoutStays DEF OnlyMessage, Fanout, Active
  <2> QED BY <2>1, <2>2
<1>7. ASSUME NEW m \in Messages, OnlyMessage(m), pc'[m] \notin {"commit", "emit"}
      PROVE  Fanout'
  BY <1>6, <1>7 DEF FanoutOf
<1>8. ASSUME NEW m \in Messages, OnlyMessage(m),
             \/ \E d \in Devices, r \in Rooms, W \in SUBSET Devices : SendMessage(m, d, r, W)
             \/ CheckDevice(m) \/ CommitMessageFails(m) \/ EmitMessage(m)
      PROVE  Fanout'
  BY <1>7, <1>8, MessageMoves DEF SendMessage, CheckDevice, CommitMessageFails, EmitMessage
<1>9. ASSUME NEW m \in Messages, OnlyMessage(m), ReadRoom(m)
      PROVE  Fanout'
  <2>1. CASE Refuse(m)
    BY <1>7, <1>9, <2>1, MessageMoves
  <2>2. CASE ~Refuse(m)
    <3>1. MatchesRoom(m) /\ pc'[m] = "commit" /\ req' = req
      BY <1>9, <2>2, MessageMoves DEF ReadRoom
    <3>2. (EnvelopesOf(m))' = Expected(m)
      BY <3>1 DEF EnvelopesOf, MatchesRoom
    <3>3. (Expected(m))' = Expected(m)
      BY <1>9, <3>1 DEF OnlyMessage, Expected, DevicesOf, Active
    <3> QED BY <1>6, <1>9, <3>2, <3>3 DEF FanoutOf
  <2> QED BY <2>1, <2>2
<1>10. ASSUME NEW m \in Messages, OnlyMessage(m), CommitMessage(m)
       PROVE  Fanout'
  <2>1. /\ pc[m] = "commit" /\ pc'[m] = "emit" /\ req' = req /\ changed' = changed
        /\ envelopes'[m] = req[m].wrapped /\ Exists(req[m].room)
    BY <1>10, MessageMoves DEF CommitMessage, TypeOK
  <2>2. (EnvelopesOf(m))' = EnvelopesOf(m)
    BY <2>1 DEF EnvelopesOf
  <2>3. (Expected(m))' = Expected(m)
    BY <1>10, <2>1 DEF OnlyMessage, Expected, DevicesOf, Active
  <2>4. \A d \in Devices \ changed[m] : d \in EnvelopesOf(m) <=> d \in Expected(m)
    BY <2>1 DEF Fanout, FanoutOf
  <2> QED BY <1>6, <1>10, <2>1, <2>2, <2>3, <2>4 DEF FanoutOf
<1>12. CASE ServerRestart
  <2>1. \A m \in Messages : pc'[m] \notin {"commit", "emit"}
    BY <1>12 DEF ServerRestart, TypeOK
  <2> QED BY <2>1 DEF Fanout, FanoutOf
<1> QED
  BY <1>1, <1>2, <1>4, <1>5, <1>8, <1>9, <1>10, <1>12, Steps

\* Sockets connect before they catch up; one that disconnects has to fetch again.
LEMMA CaughtUpStep == TypeOK /\ CaughtUpListen /\ [Next]_vars => CaughtUpListen'
<1> SUFFICES ASSUME TypeOK, CaughtUpListen, [Next]_vars PROVE CaughtUpListen'
  OBVIOUS
<1> USE DEF CaughtUpListen, TypeOK
<1>1. ASSUME UNCHANGED <<link, caughtUp>>
      PROVE  CaughtUpListen'
  BY <1>1
<1>2. ASSUME NEW d \in Devices, RegisterDevice(d) \/ RevokeDevice(d) \/ AckEnvelopes(d)
      PROVE  CaughtUpListen'
  BY <1>2 DEF RegisterDevice, RevokeDevice, AckEnvelopes, socketVars
<1>3. ASSUME NEW d \in Devices, Connect(d) \/ Admit(d)
      PROVE  CaughtUpListen'
  BY <1>3 DEF Connect, Admit
<1>4. ASSUME NEW d \in Devices, Disconnect(d) \/ Fetch(d)
      PROVE  CaughtUpListen'
  BY <1>4 DEF Disconnect, Offline, Fetch
<1>5. ASSUME NEW d \in Devices, NEW r \in Rooms, JoinRoom(d, r) \/ LeaveRoom(d, r)
      PROVE  CaughtUpListen'
  BY <1>5 DEF JoinRoom, LeaveRoom
<1>6. ASSUME NEW c \in Askers, NEW P \in Pairs, FindRoom(c, P)
      PROVE  CaughtUpListen'
  BY <1>1, <1>6 DEF FindRoom, socketVars
<1>7. ASSUME NEW c \in Askers, CreateRoom(c) \/ CreateRoomFails(c)
      PROVE  CaughtUpListen'
  BY <1>1, <1>7 DEF CreateRoom, CreateRoomFails, socketVars
<1>8. ASSUME NEW r \in Rooms, RemoveRoom(r)
      PROVE  CaughtUpListen'
  BY <1>1, <1>8 DEF RemoveRoom
<1>9. ASSUME NEW m \in Messages, NEW d \in Devices, NEW r \in Rooms, NEW W \in SUBSET Devices,
             SendMessage(m, d, r, W)
      PROVE  CaughtUpListen'
  BY <1>1, <1>9 DEF SendMessage, socketVars
<1>10. ASSUME NEW m \in Messages,
              \/ CheckDevice(m) \/ ReadRoom(m) \/ CommitMessage(m) \/ CommitMessageFails(m)
              \/ EmitMessage(m)
       PROVE  CaughtUpListen'
  BY <1>1, <1>10
     DEF CheckDevice, ReadRoom, CommitMessage, CommitMessageFails, EmitMessage, Refuse, socketVars
<1>11. ASSUME NEW m \in Messages, NEW u \in Users, NotifyRecipient(m, u) \/ NotifyFails(m, u)
       PROVE  CaughtUpListen'
  BY <1>1, <1>11 DEF NotifyRecipient, NotifyFails, socketVars
<1>12. CASE ServerRestart
  BY <1>12 DEF ServerRestart, Offline
<1>13. CASE UNCHANGED vars
  BY <1>1, <1>13 DEF vars, socketVars
<1> QED
  BY <1>2, <1>3, <1>4, <1>5, <1>6, <1>7, <1>8, <1>9, <1>10, <1>11, <1>12, <1>13 DEF Next

\* A device that is caught up has what it has an envelope for, or will hear it:
\* the commit leaves the emission to come, and the emission reaches every device
\* that is listening.
LEMMA NoGapStep == TypeOK /\ Carried /\ CaughtUpListen /\ NoGap /\ [Next]_vars => NoGap'
<1> SUFFICES ASSUME TypeOK, Carried, CaughtUpListen, NoGap, [Next]_vars PROVE NoGap'
  OBVIOUS
<1>1. ASSUME caughtUp' \subseteq caughtUp, UNCHANGED <<pc, envelopes, seen>>
      PROVE  NoGap'
  BY <1>1 DEF NoGap
<1>2. ASSUME NEW d \in Devices,
             \/ RegisterDevice(d) \/ RevokeDevice(d) \/ Connect(d) \/ Admit(d)
             \/ Disconnect(d) \/ AckEnvelopes(d)
      PROVE  NoGap'
  BY <1>1, <1>2
     DEF RegisterDevice, RevokeDevice, Connect, Admit, Disconnect, AckEnvelopes, Offline,
         msgVars, rowVars, socketVars
<1>3. ASSUME NEW d \in Devices, Fetch(d)
      PROVE  NoGap'
  <2>1. /\ caughtUp' \subseteq caughtUp \cup {d} /\ UNCHANGED <<pc, envelopes>>
        /\ \A m \in Messages : d \in envelopes[m] => m \in seen'[d]
        /\ \A e \in Devices : seen[e] \subseteq seen'[e]
    BY <1>3 DEF Fetch, msgVars, rowVars, TypeOK
  <2>2. caughtUp \subseteq Devices
    BY DEF TypeOK
  <2> QED BY <2>1, <2>2 DEF NoGap
<1>4. ASSUME NEW d \in Devices, NEW r \in Rooms, JoinRoom(d, r) \/ LeaveRoom(d, r)
      PROVE  NoGap'
  BY <1>1, <1>4 DEF JoinRoom, LeaveRoom, msgVars, rowVars
<1>5. ASSUME NEW c \in Askers, NEW P \in Pairs, FindRoom(c, P)
      PROVE  NoGap'
  BY <1>1, <1>5 DEF FindRoom, msgVars, rowVars, socketVars
<1>6. ASSUME NEW c \in Askers, CreateRoom(c) \/ CreateRoomFails(c)
      PROVE  NoGap'
  BY <1>1, <1>6 DEF CreateRoom, CreateRoomFails, msgVars, rowVars, socketVars
<1>7. ASSUME NEW r \in Rooms, RemoveRoom(r)
      PROVE  NoGap'
  BY <1>1, <1>7 DEF RemoveRoom, msgVars, rowVars
<1>8. ASSUME NEW m \in Messages, pc[m] # "emit", UNCHANGED <<caughtUp, envelopes, seen>>,
             \A n \in Messages \ {m} : pc'[n] = pc[n]
      PROVE  NoGap'
  BY <1>8 DEF NoGap
<1>9. ASSUME NEW m \in Messages, NEW d \in Devices, NEW r \in Rooms, NEW W \in SUBSET Devices,
             SendMessage(m, d, r, W)
      PROVE  NoGap'
  BY <1>8, <1>9, MessageMoves DEF SendMessage, rowVars, socketVars
<1>10. ASSUME NEW m \in Messages, CheckDevice(m) \/ ReadRoom(m) \/ CommitMessageFails(m)
       PROVE  NoGap'
  <2>1. CASE Refuse(m)
    BY <1>8, <1>10, <2>1, MessageMoves
       DEF CheckDevice, ReadRoom, CommitMessageFails, Refuse, rowVars, socketVars
  <2>2. CASE ~Refuse(m)
    BY <1>8, <1>10, <2>2, MessageMoves
       DEF CheckDevice, ReadRoom, CommitMessageFails, rowVars, socketVars
  <2> QED BY <2>1, <2>2
<1>11. ASSUME NEW m \in Messages, CommitMessage(m)
       PROVE  NoGap'
  <2>1. /\ pc'[m] = "emit" /\ UNCHANGED <<caughtUp, seen>>
        /\ \A n \in Messages \ {m} : pc'[n] = pc[n] /\ envelopes'[n] = envelopes[n]
    BY <1>11, MessageMoves, MessageActions DEF CommitMessage, OnlyMessage, socketVars
  <2> QED BY <2>1 DEF NoGap
<1>12. ASSUME NEW m \in Messages, EmitMessage(m)
       PROVE  NoGap'
  <2>1. /\ UNCHANGED <<caughtUp, envelopes>>
        /\ \A n \in Messages \ {m} : pc'[n] = pc[n]
    BY <1>12, MessageMoves DEF EmitMessage, rowVars, socketVars
  <2>2. \A d \in Devices :
          /\ seen[d] \subseteq seen'[d]
          /\ d \in envelopes[m] /\ link[d] = "on" => m \in seen'[d]
    BY <1>12 DEF EmitMessage, TypeOK
  <2>3. caughtUp \subseteq Devices
    BY DEF TypeOK
  <2> QED BY <2>1, <2>2, <2>3 DEF NoGap, CaughtUpListen
<1>13. ASSUME NEW m \in Messages, NEW u \in Users, NotifyRecipient(m, u) \/ NotifyFails(m, u)
       PROVE  NoGap'
  BY <1>1, <1>13 DEF NotifyRecipient, NotifyFails, msgVars, rowVars, socketVars
<1>14. CASE ServerRestart
  <2>1. caughtUp' = {}
    BY <1>14 DEF ServerRestart, Offline, TypeOK
  <2> QED BY <2>1 DEF NoGap
<1>15. CASE UNCHANGED vars
  BY <1>1, <1>15 DEF vars, msgVars, rowVars, socketVars
<1> QED
  BY <1>2, <1>3, <1>4, <1>5, <1>6, <1>7, <1>9, <1>10, <1>11, <1>12, <1>13, <1>14, <1>15 DEF Next

\* A room with stored messages is not removed, and a message is stored with its
\* room there.
LEMMA RoomOfMessageStep == TypeOK /\ Carried /\ RoomOfMessage /\ [Next]_vars => RoomOfMessage'
<1> SUFFICES ASSUME TypeOK, Carried, RoomOfMessage, [Next]_vars PROVE RoomOfMessage'
  OBVIOUS
<1> USE DEF Stored, Exists
<1>1. CASE Quiet
  BY <1>1 DEF Quiet, RoomOfMessage
<1>2. ASSUME NEW d \in Devices, RegisterDevice(d) \/ RevokeDevice(d)
      PROVE  RoomOfMessage'
  BY <1>2 DEF RegisterDevice, RevokeDevice, roomVars, msgVars, RoomOfMessage
<1>3. ASSUME NEW c \in Askers, CreateRoom(c)
      PROVE  RoomOfMessage'
  BY <1>3, NewRoom DEF Carried, RoomOfMessage
<1>4. ASSUME NEW r \in Rooms, RemoveRoom(r)
      PROVE  RoomOfMessage'
  <2>1. \A m \in Messages : Stored(m) => req[m].room \in Rooms \ {r}
    BY <1>4 DEF RemoveRoom, Carried, Payloads
  <2> QED BY <1>4, <2>1 DEF RemoveRoom, msgVars, RoomOfMessage, TypeOK
<1>5. ASSUME NEW m \in Messages, OnlyMessage(m),
             Stored(m)' => req'[m] = req[m] /\ members[req[m].room] # {}
      PROVE  RoomOfMessage'
  BY <1>5 DEF OnlyMessage, RoomOfMessage
<1>6. ASSUME NEW m \in Messages, OnlyMessage(m), NEW d \in Devices, NEW r \in Rooms,
             NEW W \in SUBSET Devices, SendMessage(m, d, r, W)
      PROVE  RoomOfMessage'
  BY <1>5, <1>6, MessageMoves DEF SendMessage
<1>7. ASSUME NEW m \in Messages, OnlyMessage(m),
             CheckDevice(m) \/ ReadRoom(m) \/ CommitMessageFails(m)
      PROVE  RoomOfMessage'
  <2>1. CASE Refuse(m)
    BY <1>5, <1>7, <2>1, MessageMoves
  <2>2. CASE ~Refuse(m)
    BY <1>5, <1>7, <2>2, MessageMoves DEF CheckDevice, ReadRoom, CommitMessageFails
  <2> QED BY <2>1, <2>2
<1>8. ASSUME NEW m \in Messages, OnlyMessage(m), CommitMessage(m) \/ EmitMessage(m)
      PROVE  RoomOfMessage'
  BY <1>5, <1>8 DEF CommitMessage, EmitMessage, RoomOfMessage
<1>9. CASE ServerRestart
  <2>1. \A m \in Messages : Stored(m)' => Stored(m) /\ req'[m] = req[m]
    BY <1>9 DEF ServerRestart, TypeOK
  <2> QED BY <1>9, <2>1 DEF ServerRestart, RoomOfMessage
<1> QED BY <1>1, <1>2, <1>3, <1>4, <1>6, <1>7, <1>8, <1>9, Steps
---------------------------------------------------------------------------
(* Counting the rooms of a pair.                                           *)

PairBounded(P) ==
  /\ IsFiniteSet(RoomsOf(P))
  /\ Cardinality(RoomsOf(P)) + Cardinality(AskersOf(P)) <= Cardinality(Askers)

\* A pair is not the empty set that stands for no room and no request.
LEMMA PairsNotEmpty == \A P \in Pairs : P # {}
BY FS_EmptySet DEF Pairs

\* The bound on rooms, pair by pair.
LEMMA Bounded == RoomsFinite /\ RoomsBounded <=> \A P \in Pairs : PairBounded(P)
BY DEF RoomsFinite, RoomsBounded, PairBounded, RoomsOf, AskersOf

\* Any requests can be counted, and are at most all of them.
LEMMA AskersCounted ==
  ASSUME NEW A \in SUBSET Askers
  PROVE  IsFiniteSet(A) /\ Cardinality(A) \in Nat /\ Cardinality(A) <= Cardinality(Askers)
         /\ Cardinality(Askers) \in Nat
BY ChatAssumption, FS_Subset, FS_CardinalityType

\* A pair is bounded after a step that gives it neither a room nor a request.
LEMMA FewerRooms ==
  ASSUME NEW P, PairBounded(P), (RoomsOf(P))' \subseteq RoomsOf(P),
         (AskersOf(P))' \subseteq AskersOf(P)
  PROVE  PairBounded(P)'
<1> DEFINE R == RoomsOf(P)  A == AskersOf(P)
<1> SUFFICES ASSUME NEW S \in SUBSET R, NEW B \in SUBSET A
             PROVE  IsFiniteSet(S) /\ Cardinality(S) + Cardinality(B) <= Cardinality(Askers)
  BY Zenon DEF PairBounded
<1>1. IsFiniteSet(R) /\ Cardinality(R) + Cardinality(A) <= Cardinality(Askers)
  BY DEF PairBounded
<1>2. IsFiniteSet(S) /\ Cardinality(S) <= Cardinality(R)
      /\ Cardinality(S) \in Nat /\ Cardinality(R) \in Nat
  BY <1>1, FS_Subset, FS_CardinalityType
<1>3. A \in SUBSET Askers
  BY DEF AskersOf
<1>4. IsFiniteSet(A) /\ Cardinality(A) \in Nat /\ Cardinality(Askers) \in Nat
  BY <1>3, AskersCounted
<1>5. Cardinality(B) <= Cardinality(A) /\ Cardinality(B) \in Nat
  BY <1>4, FS_Subset, FS_CardinalityType
<1> QED BY <1>1, <1>2, <1>4, <1>5

\* A first room of a pair, or one more for a request that had found none: the
\* request is gone with the room it created.
LEMMA RoomsStep ==
  TypeOK /\ Carried /\ (\A P \in Pairs : PairBounded(P)) /\ [Next]_vars
    => \A P \in Pairs : PairBounded(P)'
<1> SUFFICES ASSUME TypeOK, Carried, \A Q \in Pairs : PairBounded(Q), [Next]_vars,
                    NEW P \in Pairs
             PROVE  PairBounded(P)'
  BY Zenon
<1>0. P # {}
  BY PairsNotEmpty
<1>1. ASSUME UNCHANGED <<members, ask>>
      PROVE  PairBounded(P)'
  BY <1>1, FewerRooms DEF RoomsOf, AskersOf
<1>2. ASSUME NEW c \in Askers, NEW Q \in Pairs, FindRoom(c, Q)
      PROVE  PairBounded(P)'
  <2>1. members' = members /\ ask' = [ask EXCEPT ![c] = Q]
    BY <1>2 DEF FindRoom
  <2>2. CASE Q = P
    <3>1. (RoomsOf(P))' = {}
      BY <1>2, <2>1, <2>2 DEF FindRoom, RoomsOf
    <3>2. (AskersOf(P))' \in SUBSET Askers
      BY DEF AskersOf
    <3>3. ASSUME NEW B \in SUBSET Askers
          PROVE  Cardinality({}) + Cardinality(B) <= Cardinality(Askers)
      BY FS_EmptySet, AskersCounted
    <3>4. Cardinality((RoomsOf(P))') + Cardinality((AskersOf(P))') <= Cardinality(Askers)
      BY <3>1, <3>2, <3>3
    <3> QED BY <3>1, <3>4, FS_EmptySet DEF PairBounded
  <2>3. CASE Q # P
    BY <2>1, <2>3, FewerRooms DEF RoomsOf, AskersOf, TypeOK
  <2> QED BY <2>2, <2>3
<1>3. ASSUME NEW c \in Askers, CreateRoom(c)
      PROVE  PairBounded(P)'
  <2>1. PICK r \in Rooms \ used : /\ members' = [members EXCEPT ![r] = ask[c]]
                                  /\ ask' = [ask EXCEPT ![c] = {}]
    BY <1>3 DEF CreateRoom
  <2>2. CASE ask[c] = P
    <3> DEFINE R == RoomsOf(P)  A == AskersOf(P)
    <3>1. (RoomsOf(P))' = R \cup {r} /\ (AskersOf(P))' = A \ {c}
      BY <1>0, <2>1, <2>2 DEF RoomsOf, AskersOf, TypeOK
    <3>2. r \notin R
      BY <1>0, <2>1 DEF RoomsOf, Carried, Exists
    <3>3. c \in A /\ A \in SUBSET Askers
      BY <2>2 DEF AskersOf
    <3>4. IsFiniteSet(R) /\ Cardinality(R) + Cardinality(A) <= Cardinality(Askers)
      BY DEF PairBounded
    <3> HIDE DEF R, A
    <3>5. /\ IsFiniteSet(R \cup {r}) /\ Cardinality(R) \in Nat
          /\ Cardinality(R \cup {r}) = Cardinality(R) + 1
      BY <3>2, <3>4, FS_AddElement, FS_CardinalityType
    <3>6. IsFiniteSet(A) /\ Cardinality(A) \in Nat /\ Cardinality(Askers) \in Nat
      BY <3>3, AskersCounted
    <3>7. Cardinality(A \ {c}) = Cardinality(A) - 1
      BY <3>3, <3>6, FS_RemoveElement
    <3>8. Cardinality(R \cup {r}) + Cardinality(A \ {c}) <= Cardinality(Askers)
      BY <3>4, <3>5, <3>6, <3>7
    <3> QED BY <3>1, <3>5, <3>8 DEF PairBounded
  <2>3. CASE ask[c] # P
    BY <1>0, <2>1, <2>3, FewerRooms DEF RoomsOf, AskersOf, TypeOK
  <2> QED BY <2>2, <2>3
<1>4. ASSUME NEW c \in Askers, CreateRoomFails(c)
      PROVE  PairBounded(P)'
  BY <1>0, <1>4, FewerRooms DEF CreateRoomFails, RoomsOf, AskersOf, TypeOK
<1>5. ASSUME NEW r \in Rooms, RemoveRoom(r)
      PROVE  PairBounded(P)'
  BY <1>0, <1>5, FewerRooms DEF RemoveRoom, RoomsOf, AskersOf, TypeOK
<1>6. CASE ServerRestart
  BY <1>0, <1>6, FewerRooms DEF ServerRestart, RoomsOf, AskersOf, TypeOK
<1>7. ASSUME NEW d \in Devices,
             \/ RegisterDevice(d) \/ RevokeDevice(d) \/ Connect(d) \/ Admit(d)
             \/ Disconnect(d) \/ Fetch(d) \/ AckEnvelopes(d)
      PROVE  PairBounded(P)'
  BY <1>1, <1>7
     DEF RegisterDevice, RevokeDevice, Connect, Admit, Disconnect, Fetch, AckEnvelopes, roomVars
<1>8. ASSUME NEW d \in Devices, NEW r \in Rooms, JoinRoom(d, r) \/ LeaveRoom(d, r)
      PROVE  PairBounded(P)'
  BY <1>1, <1>8 DEF JoinRoom, LeaveRoom, roomVars
<1>9. ASSUME NEW m \in Messages, NEW d \in Devices, NEW r \in Rooms, NEW W \in SUBSET Devices,
             SendMessage(m, d, r, W)
      PROVE  PairBounded(P)'
  BY <1>1, <1>9 DEF SendMessage, roomVars
<1>10. ASSUME NEW m \in Messages,
              \/ CheckDevice(m) \/ ReadRoom(m) \/ CommitMessage(m) \/ CommitMessageFails(m)
              \/ EmitMessage(m)
       PROVE  PairBounded(P)'
  BY <1>1, <1>10
     DEF CheckDevice, ReadRoom, CommitMessage, CommitMessageFails, EmitMessage, Refuse, roomVars
<1>11. ASSUME NEW m \in Messages, NEW u \in Users, NotifyRecipient(m, u) \/ NotifyFails(m, u)
       PROVE  PairBounded(P)'
  BY <1>1, <1>11 DEF NotifyRecipient, NotifyFails, roomVars
<1>12. CASE UNCHANGED vars
  BY <1>1, <1>12 DEF vars, roomVars
<1> QED
  BY <1>2, <1>3, <1>4, <1>5, <1>6, <1>7, <1>8, <1>9, <1>10, <1>11, <1>12 DEF Next

---------------------------------------------------------------------------
(* The theorems.                                                           *)

\* At first there are no rooms, messages or sockets.
LEMMA ChatInvInit == Init => ChatInv
<1> SUFFICES ASSUME Init PROVE ChatInv
  OBVIOUS
<1> USE DEF Init
<1>1. TypeOK
  BY DEF TypeOK, RegistryInit, Statuses
<1>2. Carried
  BY DEF Carried, Exists
<1>3. Fanout /\ CaughtUpListen /\ NoGap /\ RoomOfMessage
  BY DEF Fanout, FanoutOf, CaughtUpListen, NoGap, RoomOfMessage, Stored
<1>4. ASSUME NEW P \in Pairs PROVE PairBounded(P)
  <2>1. P # {}
    BY PairsNotEmpty
  <2>2. RoomsOf(P) = {} /\ AskersOf(P) = {}
    BY <2>1 DEF RoomsOf, AskersOf
  <2> QED BY <2>2, FS_EmptySet, AskersCounted DEF PairBounded
<1>5. RoomsFinite /\ RoomsBounded
  BY <1>4, Bounded
<1> QED BY <1>1, <1>2, <1>3, <1>5 DEF ChatInv

\* Every step keeps every part of the invariant.
LEMMA ChatInvStep == ChatInv /\ [Next]_vars => ChatInv'
<1> SUFFICES ASSUME ChatInv, [Next]_vars PROVE ChatInv'
  OBVIOUS
<1>1. /\ TypeOK /\ Carried /\ Fanout /\ CaughtUpListen /\ NoGap /\ RoomOfMessage
      /\ RoomsFinite /\ RoomsBounded
  BY DEF ChatInv
<1>2. TypeOK' /\ Carried'
  BY <1>1, ChatTypeStep, CarriedStep
<1>3. Fanout' /\ CaughtUpListen' /\ NoGap' /\ RoomOfMessage'
  BY <1>1, FanoutStep, CaughtUpStep, NoGapStep, RoomOfMessageStep
<1>4. \A P \in Pairs : PairBounded(P)'
  BY <1>1, Bounded, RoomsStep
<1>5. RoomsFinite' /\ RoomsBounded'
  BY <1>4 DEF RoomsFinite, RoomsBounded, PairBounded, RoomsOf, AskersOf
<1> QED BY <1>2, <1>3, <1>5 DEF ChatInv

\* What every state of the chat satisfies (ChatInv), with the properties as parts.
THEOREM ChatInvariance == Spec => []ChatInv
BY ChatInvInit, ChatInvStep, PTL DEF Spec

\* The variables keep their types.
THEOREM ChatTypeCorrect == Spec => []TypeOK
BY ChatInvariance, PTL DEF ChatInv

\* However devices register and are revoked while a message is being sent, what is
\* emitted goes to exactly the active devices of its room but the authoring one, those
\* aside that registered or were revoked after the fan-out was compared with the room
\* (assertFanoutMatchesRoom).
THEOREM FanoutReachesEveryDevice == Spec => []FanoutIsCurrent
<1>1. ChatInv => FanoutIsCurrent
  BY DEF ChatInv, Fanout, FanoutOf, EnvelopesOf, FanoutIsCurrent
<1> QED BY <1>1, ChatInvariance, PTL

\* A device that connects and then fetches misses no message, whatever commits
\* and emissions run beside it.
THEOREM ConnectThenFetchLeavesNoGap == Spec => []NoGap
BY ChatInvariance, PTL DEF ChatInv

\* A pair gets at most one room per concurrent find-or-create request, though no
\* unique index stands behind findRoomByParticipantsOrCreate.
THEOREM RoomsOfPairBounded == Spec => []RoomsBounded
BY ChatInvariance, PTL DEF ChatInv

\* Every stored message has its room.
THEOREM MessagesHaveRooms == Spec => []RoomOfMessage
BY ChatInvariance, PTL DEF ChatInv
=============================================================================
