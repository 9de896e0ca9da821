------------------------------------ MODULE Chat ------------------------------------
(***************************************************************************)
(* Encrypted direct messages: the rooms (room.service.ts), the fan-out of  *)
(* a message to one envelope per device (chat.service.ts), the sockets of  *)
(* the gateway (chat.gateway.ts) and the MESSAGE notifications             *)
(* (listeners/chat.listener.ts), over the devices of Registry.             *)
(*                                                                         *)
(* A message is one "send-message" request: pc[m] is the await it is       *)
(* suspended at.  The commit of its transaction, the emissions to the      *)
(* sockets and the notifications are steps of their own, and devices       *)
(* register, are revoked, connect, fetch and disconnect in between.        *)
(***************************************************************************)
EXTENDS Registry, FiniteSets, Naturals

CONSTANTS
  Users, Owner,   \* Owner \in [Devices -> Users]
  Rooms,          \* ids rooms can get, none of them twice
  Messages,       \* messages users send
  Askers          \* concurrent find-or-create requests for a room

ASSUME ChatAssumption == Owner \in [Devices -> Users] /\ IsFiniteSet(Askers)

VARIABLES
  members,   \* participants of a room; {} while there is no row
  used,      \* ids of the rooms created so far
  ask,       \* the pair a find-or-create request found no room for; {} when idle
  pc, req,   \* of a message: the progress of its request, and its payload
  envelopes, acked,   \* devices with a ChatEnvelope of it, and with deliveredAt
  link,      \* the socket of a device: off, in handleConnection, or on
  joined,    \* rooms the socket of a device has joined
  caughtUp,  \* the device fetched its messages since its socket connected
  seen,      \* messages that reached the device, live or by fetching
  checking,  \* recipients of a message the listener has not dealt with yet
  notified,  \* users with a MESSAGE notification of it
  changed    \* devices activated or revoked between its room being read and its emission

roomVars == <<members, used, ask>>
msgVars == <<pc, req>>
rowVars == <<envelopes, acked>>
socketVars == <<link, joined, caughtUp>>
noteVars == <<checking, notified>>
vars == <<status, roomVars, msgVars, rowVars, socketVars, seen, noteVars, changed>>

Pairs == {P \in SUBSET Users : Cardinality(P) = 2}
DevicesOf(U) == {d \in Devices : Owner[d] \in U}
Exists(r) == members[r] # {}
NoReq == [kind |-> "none"]
Payloads == [kind: {"message"}, room: Rooms, device: Devices, wrapped: SUBSET Devices]
Stored(m) == pc[m] \in {"emit", "sent"}

TypeOK ==
  /\ status \in [Devices -> Statuses]
  /\ members \in [Rooms -> Pairs \cup {{}}] /\ used \subseteq Rooms
  /\ ask \in [Askers -> Pairs \cup {{}}]
  /\ pc \in [Messages -> {"new", "device", "read", "commit", "emit", "sent", "refused"}]
  /\ req \in [Messages -> Payloads \cup {NoReq}]
  /\ envelopes \in [Messages -> SUBSET Devices]
  /\ acked \in [Messages -> SUBSET Devices]
  /\ link \in [Devices -> {"off", "guard", "on"}]
  /\ joined \in [Devices -> SUBSET Rooms]
  /\ caughtUp \subseteq Devices
  /\ seen \in [Devices -> SUBSET Messages]
  /\ checking \in [Messages -> SUBSET Users] /\ notified \in [Messages -> SUBSET Users]
  /\ changed \in [Messages -> SUBSET Devices]

Init ==
  /\ RegistryInit
  /\ members = [r \in Rooms |-> {}] /\ used = {}
  /\ ask = [c \in Askers |-> {}]
  /\ pc = [m \in Messages |-> "new"] /\ req = [m \in Messages |-> NoReq]
  /\ envelopes = [m \in Messages |-> {}] /\ acked = [m \in Messages |-> {}]
  /\ link = [d \in Devices |-> "off"]
  /\ joined = [d \in Devices |-> {}] /\ caughtUp = {}
  /\ seen = [d \in Devices |-> {}]
  /\ checking = [m \in Messages |-> {}] /\ notified = [m \in Messages |-> {}]
  /\ changed = [m \in Messages |-> {}]

---------------------------------------------------------------------------
(* Devices: the registry seen from here.                                   *)

\* A message is on its way from the read of its room to its emission.
Changes(d) ==
  changed' = [m \in Messages |-> IF pc[m] \in {"commit", "emit"} THEN changed[m] \cup {d}
                                 ELSE changed[m]]

RegisterDevice(d) ==
  /\ Activate(d)
  /\ IF status[d] = "active" THEN UNCHANGED changed ELSE Changes(d)
  /\ UNCHANGED <<roomVars, msgVars, rowVars, socketVars, seen, noteVars>>

\* Revoking a device does not disconnect its socket.
RevokeDevice(d) ==
  /\ status[d] = "active" /\ Retire(d)
  /\ Changes(d)
  /\ UNCHANGED <<roomVars, msgVars, rowVars, socketVars, seen, noteVars>>

---------------------------------------------------------------------------
(* Rooms.                                                                  *)

\* Mutant: no lookup.
FindRoomUnchecked(c, P) ==
  /\ ask[c] = {}
  /\ ask' = [ask EXCEPT ![c] = P]
  /\ UNCHANGED <<status, members, used, msgVars, rowVars, socketVars, seen, noteVars, changed>>

\* findRoomByParticipantsOrCreate: the first lookup.  A room that is found is
\* returned; otherwise the request goes on to create one.
FindRoom(c, P) ==
  /\ ask[c] = {}
  /\ \A r \in Rooms : members[r] # P
  /\ ask' = [ask EXCEPT ![c] = P]
  /\ UNCHANGED <<status, members, used, msgVars, rowVars, socketVars, seen, noteVars, changed>>

\* Mutant: only one user is connected to the room.
CreateRoomAlone(c) ==
  /\ ask[c] # {}
  /\ \E r \in Rooms \ used :
       /\ members' = [members EXCEPT ![r] = {CHOOSE u \in ask[c] : TRUE}]
       /\ used' = used \cup {r}
  /\ ask' = [ask EXCEPT ![c] = {}]
  /\ UNCHANGED <<status, msgVars, rowVars, socketVars, seen, noteVars, changed>>

\* No unique index stands in the way of a second room of the same pair.
CreateRoom(c) ==
  /\ ask[c] # {}
  /\ \E r \in Rooms \ used :
       /\ members' = [members EXCEPT ![r] = ask[c]]
       /\ used' = used \cup {r}
  /\ ask' = [ask EXCEPT ![c] = {}]
  /\ UNCHANGED <<status, msgVars, rowVars, socketVars, seen, noteVars, changed>>

\* The insert fails: whatever the second lookup says, the request ends.
CreateRoomFails(c) ==
  /\ ask[c] # {}
  /\ ask' = [ask EXCEPT ![c] = {}]
  /\ UNCHANGED <<status, members, used, msgVars, rowVars, socketVars, seen, noteVars, changed>>

\* remove: the foreign key of Chat.roomId keeps a room that has messages.  The
\* sockets in the room stay, where they hear of nothing: the id is not used
\* again, and they are left out of joined.
RemoveRoom(r) ==
  /\ Exists(r)
  /\ \A m \in Messages : Stored(m) => req[m].room # r
  /\ members' = [members EXCEPT ![r] = {}]
  /\ joined' = [d \in Devices |-> joined[d] \ {r}]
  /\ UNCHANGED <<status, used, ask, msgVars, rowVars, link, caughtUp, seen, noteVars, changed>>

---------------------------------------------------------------------------
(* Sockets.  One socket per device is enough: every socket of a device is  *)
(* in the same "device:" room.                                             *)

\* handleConnection looks the device up before the socket joins anything.
Connect(d) ==
  /\ link[d] = "off" /\ status[d] = "active"
  /\ link' = [link EXCEPT ![d] = "guard"]
  /\ UNCHANGED <<status, roomVars, msgVars, rowVars, joined, caughtUp, seen, noteVars, changed>>

Admit(d) ==
  /\ link[d] = "guard"
  /\ link' = [link EXCEPT ![d] = "on"]
  /\ UNCHANGED <<status, roomVars, msgVars, rowVars, joined, caughtUp, seen, noteVars, changed>>

Offline(D) ==
  /\ link' = [d \in Devices |-> IF d \in D THEN "off" ELSE link[d]]
  /\ joined' = [d \in Devices |-> IF d \in D THEN {} ELSE joined[d]]
  /\ caughtUp' = caughtUp \ D

Disconnect(d) ==
  /\ link[d] # "off"
  /\ Offline({d})
  /\ UNCHANGED <<status, roomVars, msgVars, rowVars, seen, noteVars, changed>>

JoinRoom(d, r) ==
  /\ link[d] = "on" /\ Owner[d] \in members[r]
  /\ joined' = [joined EXCEPT ![d] = @ \cup {r}]
  /\ UNCHANGED <<status, roomVars, msgVars, rowVars, link, caughtUp, seen, noteVars, changed>>

LeaveRoom(d, r) ==
  /\ r \in joined[d]
  /\ joined' = [joined EXCEPT ![d] = @ \ {r}]
  /\ UNCHANGED <<status, roomVars, msgVars, rowVars, link, caughtUp, seen, noteVars, changed>>

\* findAllWithParticipant and findChatsInRoom, page by page: every stored
\* message of the rooms of its user that has an envelope for this device.  A
\* fetch made before handleConnection is through does not count as catching up
\* (the client knows that it is from the answer to a join-room).
Fetch(d) ==
  /\ seen' = [seen EXCEPT ![d] = @ \cup {m \in Messages : d \in envelopes[m]}]
  /\ caughtUp' = IF link[d] = "on" THEN caughtUp \cup {d} ELSE caughtUp
  /\ UNCHANGED <<status, roomVars, msgVars, rowVars, link, joined, noteVars, changed>>

\* ackEnvelopes: a client acknowledges what it has; the update is for
\* envelopes of its own device, which must not be revoked.
AckEnvelopes(d) ==
  /\ link[d] = "on" /\ status[d] = "active"
  /\ \E M \in (SUBSET seen[d]) \ {{}} :
       acked' = [m \in Messages |-> IF m \in M /\ d \in envelopes[m]
                                    THEN acked[m] \cup {d} ELSE acked[m]]
  /\ UNCHANGED <<status, roomVars, msgVars, envelopes, socketVars, seen, noteVars, changed>>

---------------------------------------------------------------------------
(* send-message.                                                           *)

Goto(m, label) == pc' = [pc EXCEPT ![m] = label]

\* The gateway and then the service count the sender among the participants.
\* The client encrypted the message for the devices it knew of.
SendMessage(m, d, r, W) ==
  /\ pc[m] = "new"
  /\ link[d] = "on" /\ Owner[d] \in members[r]
  /\ Goto(m, "device")
  /\ req' = [req EXCEPT ![m] = [kind |-> "message", room |-> r, device |-> d, wrapped |-> W]]
  /\ UNCHANGED <<status, roomVars, rowVars, socketVars, seen, noteVars, changed>>

Refuse(m) ==
  /\ Goto(m, "refused")
  /\ req' = [req EXCEPT ![m] = NoReq]
  /\ UNCHANGED <<status, roomVars, rowVars, socketVars, seen, noteVars>>
  /\ changed' = [changed EXCEPT ![m] = {}]

\* assertDeviceOwnedByUser: the device is the caller's and not revoked.
CheckDevice(m) ==
  /\ pc[m] = "device"
  /\ IF status[req[m].device] = "active"
     THEN /\ Goto(m, "read")
          /\ UNCHANGED <<status, roomVars, req, rowVars, socketVars, seen, noteVars, changed>>
     ELSE Refuse(m)

\* The active devices of the participants, without the authoring one.
Expected(m) ==
  (DevicesOf(members[req[m].room]) \cap Active) \ {req[m].device}

\* Mutant: a device the client left out is not missed.
MatchesRoomSubset(m) == req[m].wrapped \subseteq Expected(m)

\* assertFanoutMatchesRoom: one envelope for each expected device and no other.
MatchesRoom(m) == req[m].wrapped = Expected(m)

ReadRoom(m) ==
  /\ pc[m] = "read"
  /\ IF Exists(req[m].room) /\ MatchesRoom(m)
     THEN /\ Goto(m, "commit")
          /\ UNCHANGED <<status, roomVars, req, rowVars, socketVars, seen, noteVars, changed>>
     ELSE Refuse(m)

\* Mutant: nothing ties a message to its room.
CommitMessageAnyRoom(m) ==
  /\ pc[m] = "commit"
  /\ envelopes' = [envelopes EXCEPT ![m] = req[m].wrapped]
  /\ Goto(m, "emit")
  /\ UNCHANGED <<status, roomVars, req, acked, socketVars, seen, noteVars, changed>>

\* The transaction: the message and its envelopes, if the room is still there.
CommitMessage(m) ==
  /\ pc[m] = "commit" /\ Exists(req[m].room)
  /\ envelopes' = [envelopes EXCEPT ![m] = req[m].wrapped]
  /\ Goto(m, "emit")
  /\ UNCHANGED <<status, roomVars, req, acked, socketVars, seen, noteVars, changed>>

\* The insert fails, on its foreign keys or otherwise.
CommitMessageFails(m) == pc[m] = "commit" /\ Refuse(m)

\* Mutant: the emission goes to the sockets that joined the room.
EmitMessageToRoom(m) ==
  /\ pc[m] = "emit"
  /\ seen' = [d \in Devices |->
                IF d \in envelopes[m] /\ link[d] = "on" /\ req[m].room \in joined[d]
                THEN seen[d] \cup {m} ELSE seen[d]]
  /\ checking' = [checking EXCEPT ![m] = members[req[m].room] \ {Owner[req[m].device]}]
  /\ Goto(m, "sent")
  /\ changed' = [changed EXCEPT ![m] = {}]
  /\ UNCHANGED <<status, roomVars, req, rowVars, socketVars, notified>>

\* chat.created starts the listener, and one receive-message per envelope goes
\* to the sockets of its device.
EmitMessage(m) ==
  /\ pc[m] = "emit"
  /\ seen' = [d \in Devices |-> IF d \in envelopes[m] /\ link[d] = "on"
                                THEN seen[d] \cup {m} ELSE seen[d]]
  /\ checking' = [checking EXCEPT ![m] = members[req[m].room] \ {Owner[req[m].device]}]
  /\ Goto(m, "sent")
  /\ changed' = [changed EXCEPT ![m] = {}]
  /\ UNCHANGED <<status, roomVars, req, rowVars, socketVars, notified>>

---------------------------------------------------------------------------
(* ChatCreatedListener.                                                    *)

\* isUserInRoom: some socket of the user has joined the room.
InRoom(u, r) == \E d \in DevicesOf({u}) : r \in joined[d]

Handled(m, u) == checking' = [checking EXCEPT ![m] = @ \ {u}]

NotifyRecipient(m, u) ==
  /\ u \in checking[m]
  /\ Handled(m, u)
  /\ notified' = [notified EXCEPT ![m] = IF InRoom(u, req[m].room) THEN @ ELSE @ \cup {u}]
  /\ UNCHANGED <<status, roomVars, msgVars, rowVars, socketVars, seen, changed>>

\* A failure is logged, and the notification is given up.
NotifyFails(m, u) ==
  /\ u \in checking[m] /\ ~InRoom(u, req[m].room)
  /\ Handled(m, u)
  /\ UNCHANGED <<status, roomVars, msgVars, rowVars, socketVars, seen, notified, changed>>

---------------------------------------------------------------------------
\* The process restarts: sockets and requests are gone, a message that was
\* committed stays without its emissions and notifications.
ServerRestart ==
  /\ Offline(Devices)
  /\ ask' = [c \in Askers |-> {}]
  /\ pc' = [m \in Messages |-> CASE pc[m] = "emit" -> "sent"
                                 [] pc[m] \in {"device", "read", "commit"} -> "refused"
                                 [] OTHER -> pc[m]]
  /\ req' = [m \in Messages |-> IF Stored(m) THEN req[m] ELSE NoReq]
  /\ changed' = [m \in Messages |-> {}]
  /\ checking' = [m \in Messages |-> {}]
  /\ UNCHANGED <<status, members, used, rowVars, seen, notified>>

Next ==
  \/ \E d \in Devices :
       \/ RegisterDevice(d) \/ RevokeDevice(d)
       \/ Connect(d) \/ Admit(d) \/ Disconnect(d) \/ Fetch(d) \/ AckEnvelopes(d)
       \/ \E r \in Rooms : JoinRoom(d, r) \/ LeaveRoom(d, r)
       \/ \E m \in Messages, r \in Rooms, W \in SUBSET Devices : SendMessage(m, d, r, W)
  \/ \E c \in Askers :
       \/ \E P \in Pairs : FindRoom(c, P)
       \/ CreateRoom(c) \/ CreateRoomFails(c)
  \/ \E r \in Rooms : RemoveRoom(r)
  \/ \E m \in Messages :
       \/ CheckDevice(m) \/ ReadRoom(m) \/ CommitMessage(m) \/ CommitMessageFails(m)
       \/ EmitMessage(m)
       \/ \E u \in Users : NotifyRecipient(m, u) \/ NotifyFails(m, u)
  \/ ServerRestart

Spec == Init /\ [][Next]_vars

---------------------------------------------------------------------------
(* Properties.                                                             *)

\* "Messages fan out to every active device of every room participant"
\* (schema.prisma:232) and "revoked devices stop receiving new envelopes" (288-290).
\* The fan-out is checked against a room and devices that were read before the
\* transaction.  What is emitted goes to exactly the devices that are active in the
\* room by then, but the authoring one and those that registered or were revoked
\* between that read and the emission.
FanoutIsCurrent ==
  \A m \in Messages : pc[m] = "emit" =>
    \A d \in Devices \ changed[m] : d \in envelopes[m] <=> d \in Expected(m)

\* The emission follows the commit and goes to the device, not to the room, so
\* connecting and then fetching leaves no gap: a device that did both, and has
\* stayed connected, has every message with an envelope for it but those whose
\* emission is still to come.
NoGap ==
  \A d \in caughtUp, m \in Messages :
    d \in envelopes[m] => m \in seen[d] \/ pc[m] = "emit"

\* Rooms are found by their pair, so even without a unique index a pair gets at
\* most one room per concurrent first request: while there is one, every other
\* find-or-create returns it, and only requests that had looked before it came
\* to be can still add theirs.
RoomsBounded ==
  \A P \in Pairs :
    Cardinality({r \in Rooms : members[r] = P}) + Cardinality({c \in Askers : ask[c] = P})
      <= Cardinality(Askers)

\* A message never outlives its room, though a participant may delete the room
\* while the message is being sent.
RoomOfMessage ==
  \A m \in Messages : Stored(m) => Exists(req[m].room)
=============================================================================
