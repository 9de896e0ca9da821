-------------------------------- MODULE WatchTogether --------------------------------
(***************************************************************************)
(* One watch-together session: its row and its participants               *)
(* (watch-together.service.ts), the sockets in its Socket.IO room          *)
(* (chat.gateway.ts), the events between the two, and the repeated job     *)
(* that ends expired sessions.                                             *)
(*                                                                         *)
(* A request is carried by a worker c, suspended at the await pc[c].  None *)
(* of the service's methods is a transaction: what was read at one await   *)
(* may have changed at the next.                                           *)
(***************************************************************************)
EXTENDS Naturals

CONSTANTS
  Users, Host,       \* Host \in Users
  Sockets, UserOf,   \* sockets that may join; UserOf \in [Sockets -> Users]
  NoSocket,          \* GET /watch-together/:id registers its caller as well
  Workers,           \* requests the server handles concurrently
  MaxFaults          \* bound: restarts of the process and failures of the job

ASSUME WatchAssumption ==
  /\ Host \in Users /\ UserOf \in [Sockets -> Users]
  /\ NoSocket \notin Sockets /\ MaxFaults \in Nat

VARIABLES
  session,    \* the WatchSession row: none, ACTIVE or ENDED
  approval,   \* requireHostApproval
  expired,    \* expiresAt has passed
  row,        \* WatchSessionParticipant of each user
  messages,   \* authors of the WatchSessionMessage rows
  room,       \* sockets in the room of the session
  heard,      \* those of them that were sent watch:ended
  stray,      \* those whose watch:join was under way when the session ended, or
              \* that were in the room when an end failed
  straggler,  \* authors whose message was under way when the messages were
              \* deleted, or left behind by an end that failed
  kicks,      \* rejected users whose sockets are being removed from the room
  admitted,   \* users the host approved, or who need no approval
  pc, req, job, faults

rowVars == <<session, approval, expired, row, messages>>
socketVars == <<room, heard, stray, kicks>>
callVars == <<pc, req>>
vars == <<rowVars, socketVars, straggler, admitted, callVars, job, faults>>

RowStates == {"none", "PENDING", "APPROVED", "REJECTED"}
NoReq == [kind |-> "none"]
JoinReqs == [kind: {"join"}, user: Users, socket: Sockets \cup {NoSocket},
             found: RowStates, live: BOOLEAN]
OtherReqs == [kind: {"chat", "leave"}, user: Users, socket: Sockets]
EndReqs == [kind: {"end"}, user: {Host}, socket: Sockets \cup {NoSocket}]
PCs == {"idle", "lookup", "write", "state", "join", "insert",
        "end", "purge", "tell", "exit"}

\* Sockets S leave the room.
Quit(S) == room' = room \ S /\ heard' = heard \ S /\ stray' = stray \ S

TypeOK ==
  /\ session \in {"none", "ACTIVE", "ENDED"}
  /\ approval \in BOOLEAN /\ expired \in BOOLEAN
  /\ row \in [Users -> RowStates]
  /\ messages \subseteq Users /\ straggler \subseteq Users /\ admitted \subseteq Users
  /\ room \subseteq Sockets /\ heard \subseteq Sockets /\ stray \subseteq Sockets
  /\ kicks \subseteq Users
  /\ pc \in [Workers -> PCs]
  /\ req \in [Workers -> {NoReq} \cup JoinReqs \cup OtherReqs \cup EndReqs]
  /\ job \in {"idle", "update", "purge", "tell"}
  /\ faults \in 0..MaxFaults

Init ==
  /\ session = "none" /\ approval \in BOOLEAN /\ expired = FALSE
  /\ row = [u \in Users |-> "none"]
  /\ messages = {} /\ straggler = {} /\ admitted = {}
  /\ room = {} /\ heard = {} /\ stray = {} /\ kicks = {}
  /\ pc = [c \in Workers |-> "idle"]
  /\ req = [c \in Workers |-> NoReq]
  /\ job = "idle" /\ faults = 0

Goto(c, label) == pc' = [pc EXCEPT ![c] = label]

Enter(c, label, r) ==
  /\ pc[c] = "idle"
  /\ Goto(c, label)
  /\ req' = [req EXCEPT ![c] = r]

Leave(c) ==
  /\ Goto(c, "idle")
  /\ req' = [req EXCEPT ![c] = NoReq]

\* ACTIVE, and expiresAt still to come.
Open == session = "ACTIVE" /\ ~expired

SetRow(u, s) == row' = [row EXCEPT ![u] = s]
DesiredStatus == IF approval THEN "PENDING" ELSE "APPROVED"
Admit(u, s) == admitted' = IF s = "APPROVED" THEN admitted \cup {u} ELSE admitted

\* createSession, with the participant row of the host.
CreateSession ==
  /\ session = "none"
  /\ session' = "ACTIVE"
  /\ SetRow(Host, "APPROVED") /\ Admit(Host, "APPROVED")
  /\ UNCHANGED <<approval, expired, messages, socketVars, straggler, callVars,
                 job, faults>>

Expire ==
  /\ session = "ACTIVE" /\ ~expired
  /\ expired' = TRUE
  /\ UNCHANGED <<session, approval, row, messages, socketVars, straggler, admitted,
                 callVars, job, faults>>

---------------------------------------------------------------------------
(* registerParticipantForSession, for GET /watch-together/:id and watch:join. *)

\* Mutant: any session can be joined.
RegisterUnchecked(c, u, s) ==
  /\ session # "none"
  /\ Enter(c, "lookup", [kind |-> "join", user |-> u, socket |-> s, found |-> "none",
                         live |-> session = "ACTIVE"])
  /\ UNCHANGED <<rowVars, socketVars, straggler, admitted, job, faults>>

\* assertSessionJoinableForRegister and, next, the access check of the post,
\* which may also refuse (Fail).
Register(c, u, s) ==
  /\ Open
  /\ Enter(c, "lookup", [kind |-> "join", user |-> u, socket |-> s, found |-> "none",
                         live |-> session = "ACTIVE"])
  /\ UNCHANGED <<rowVars, socketVars, straggler, admitted, job, faults>>

\* getSessionForUser registers a caller that has no row yet.
GetSessionForUser(c, u) == u # Host /\ row[u] = "none" /\ Register(c, u, NoSocket)

\* The host's row is upserted at once; the row of anyone else is looked up, and
\* written if there is none or it is REJECTED.
LookupRow(c) ==
  LET u == req[c].user IN
  /\ pc[c] = "lookup"
  /\ IF u = Host
     THEN /\ SetRow(u, "APPROVED")
          /\ Goto(c, "state")
          /\ UNCHANGED req
     ELSE /\ IF row[u] \in {"none", "REJECTED"}
             THEN Goto(c, "write") /\ req' = [req EXCEPT ![c].found = row[u]]
             ELSE Goto(c, "state") /\ UNCHANGED req
          /\ UNCHANGED row
  /\ UNCHANGED <<session, approval, expired, messages, socketVars, straggler,
                 admitted, job, faults>>

\* Mutant: a returning participant is approved.
WriteRowApproved(c) ==
  LET r == req[c] IN
  /\ pc[c] = "write"
  /\ (r.found = "none") = (row[r.user] = "none")
  /\ LET s == IF r.found = "REJECTED" THEN "APPROVED" ELSE DesiredStatus
     IN SetRow(r.user, s) /\ admitted' = IF approval THEN admitted ELSE admitted \cup {r.user}
  /\ Goto(c, "state")
  /\ UNCHANGED <<session, approval, expired, messages, socketVars, straggler,
                 req, job, faults>>

\* create violates the unique index when a row has appeared, update finds none
\* when it is gone (Fail); an update does not look at the status again.
WriteRow(c) ==
  LET r == req[c] IN
  /\ pc[c] = "write"
  /\ (r.found = "none") = (row[r.user] = "none")
  /\ SetRow(r.user, DesiredStatus) /\ Admit(r.user, DesiredStatus)
  /\ Goto(c, "state")
  /\ req' = [req EXCEPT ![c].found = "none"]
  /\ UNCHANGED <<session, approval, expired, messages, socketVars, straggler,
                 job, faults>>

\* readSocketJoinState, or the answer of GET: only an approved socket goes on.
ReadSocketJoinState(c) ==
  LET r == req[c] IN
  /\ pc[c] = "state"
  /\ IF r.socket # NoSocket /\ row[r.user] = "APPROVED"
     THEN Goto(c, "join") /\ UNCHANGED req
     ELSE Leave(c)
  /\ UNCHANGED <<rowVars, socketVars, straggler, admitted, job, faults>>

\* The socket enters the room, whatever happened since its row was read.
WatchJoin(c) ==
  LET s == req[c].socket IN
  /\ pc[c] = "join"
  /\ room' = room \cup {s}
  /\ stray' = IF session # "ACTIVE" /\ req[c].live THEN stray \cup {s} ELSE stray
  /\ Leave(c)
  /\ UNCHANGED <<rowVars, heard, kicks, straggler, admitted, job, faults>>

---------------------------------------------------------------------------
(* The host's decisions.                                                   *)

\* approveParticipant: one updateMany, of a session in any state.
ApproveParticipant(u) ==
  /\ u # Host /\ row[u] = "PENDING"
  /\ SetRow(u, "APPROVED") /\ Admit(u, "APPROVED")
  /\ UNCHANGED <<session, approval, expired, messages, socketVars, straggler,
                 callVars, job, faults>>

\* rejectParticipant; the listener starts to remove the user's sockets.
RejectParticipant(u) ==
  /\ u # Host /\ row[u] = "PENDING"
  /\ SetRow(u, "REJECTED")
  /\ kicks' = kicks \cup {u}
  /\ UNCHANGED <<session, approval, expired, messages, room, heard, stray,
                 straggler, admitted, callVars, job, faults>>

KickUser(u) ==
  /\ u \in kicks
  /\ kicks' = kicks \ {u}
  /\ Quit({s \in Sockets : UserOf[s] = u})
  /\ UNCHANGED <<rowVars, straggler, admitted, callVars, job, faults>>

---------------------------------------------------------------------------
(* Leaving and ending.                                                     *)

\* leaveSession of a participant deletes the row; the socket leaves the room
\* when that is done, the other sockets of the user stay.
WatchLeave(c, s) ==
  LET u == UserOf[s] IN
  /\ u # Host /\ session # "none"
  /\ Enter(c, "exit", [kind |-> "leave", user |-> u, socket |-> s])
  /\ SetRow(u, "none")
  /\ UNCHANGED <<session, approval, expired, messages, socketVars, straggler,
                 admitted, job, faults>>

Exit(c) ==
  /\ pc[c] = "exit"
  /\ Quit({req[c].socket})
  /\ Leave(c)
  /\ UNCHANGED <<rowVars, kicks, straggler, admitted, job, faults>>

\* Mutant: the host is not checked.
EndSessionByAnyone(c, s) ==
  /\ session = "ACTIVE"
  /\ Enter(c, "end", [kind |-> "end", user |-> IF s = NoSocket THEN Host ELSE UserOf[s],
                      socket |-> s])
  /\ UNCHANGED <<rowVars, socketVars, straggler, admitted, job, faults>>

\* endSession by the host, on request (NoSocket) or by leaving with a socket.
\* A session that has ended is left as it is, whether its end got through or not.
EndSession(c, s) ==
  /\ s # NoSocket => UserOf[s] = Host
  /\ session = "ACTIVE"
  /\ Enter(c, "end", [kind |-> "end", user |-> Host, socket |-> s])
  /\ UNCHANGED <<rowVars, socketVars, straggler, admitted, job, faults>>

\* Authors whose message passed the check and is about to be inserted.
Inserting == {req[x].user : x \in {y \in Workers : pc[y] = "insert"}}

MarkEnded ==
  /\ session' = "ENDED"
  /\ UNCHANGED <<approval, expired, row, messages, socketVars, straggler,
                 admitted, req, faults>>

PurgeMessages ==
  /\ messages' = {}
  /\ straggler' = straggler \cup Inserting
  /\ UNCHANGED <<session, approval, expired, row, socketVars, admitted, req, faults>>

\* broadcastWatchEnded: the sockets that are in the room now; they stay there.
TellEnded ==
  /\ heard' = heard \cup room
  /\ UNCHANGED <<rowVars, room, stray, kicks, straggler, admitted, faults>>

EndUpdate(c) == pc[c] = "end" /\ Goto(c, "purge") /\ MarkEnded /\ UNCHANGED job

\* Mutant: the messages are kept.
EndKeep(c) == pc[c] = "purge" /\ Goto(c, "tell")
              /\ UNCHANGED <<rowVars, socketVars, straggler, admitted, req, job, faults>>

EndPurge(c) == pc[c] = "purge" /\ Goto(c, "tell") /\ PurgeMessages /\ UNCHANGED job

EndTell(c) ==
  /\ pc[c] = "tell"
  /\ TellEnded
  /\ IF req[c].socket = NoSocket THEN Leave(c) ELSE Goto(c, "exit") /\ UNCHANGED req
  /\ UNCHANGED job

---------------------------------------------------------------------------
(* Session chat.                                                           *)

\* assertApprovedParticipant, then the insert.
WatchChatSend(c, s) ==
  LET u == UserOf[s] IN
  /\ Open /\ (u = Host \/ row[u] = "APPROVED")
  /\ Enter(c, "insert", [kind |-> "chat", user |-> u, socket |-> s])
  /\ UNCHANGED <<rowVars, socketVars, straggler, admitted, job, faults>>

InsertMessage(c) ==
  /\ pc[c] = "insert"
  /\ messages' = messages \cup {req[c].user}
  /\ Leave(c)
  /\ UNCHANGED <<session, approval, expired, row, socketVars, straggler, admitted,
                 job, faults>>

---------------------------------------------------------------------------
(* The clean-up job, repeated every five minutes, one at a time.           *)

\* Mutant: a session somebody is watching is left alone.
JobFindUnwatched ==
  /\ job = "idle" /\ session = "ACTIVE" /\ expired /\ room = {}
  /\ job' = "update"
  /\ UNCHANGED <<rowVars, socketVars, straggler, admitted, callVars, faults>>

JobFind ==
  /\ job = "idle" /\ session = "ACTIVE" /\ expired
  /\ job' = "update"
  /\ UNCHANGED <<rowVars, socketVars, straggler, admitted, callVars, faults>>

JobUpdate == job = "update" /\ job' = "purge" /\ MarkEnded /\ UNCHANGED pc
JobPurge == job = "purge" /\ job' = "tell" /\ PurgeMessages /\ UNCHANGED pc
JobTell == job = "tell" /\ job' = "idle" /\ TellEnded /\ UNCHANGED <<pc, req>>

---------------------------------------------------------------------------
(* Failures.                                                               *)

\* A request fails: a check refuses it, a row is gone or has appeared.  Nothing
\* is undone.
Fail(c) ==
  /\ pc[c] \in {"lookup", "write", "state", "insert", "end"}
  /\ Leave(c)
  /\ UNCHANGED <<rowVars, socketVars, straggler, admitted, job, faults>>

\* Messages of a session that ended without its clean-up: nobody returns to it.
Abandon == straggler' = IF session = "ENDED" THEN straggler \cup messages \cup Inserting ELSE straggler

\* Neither are the sockets in its room told.
GiveUp == Abandon /\ stray' = IF session = "ENDED" THEN room \cup stray ELSE stray

\* deleteSessionMessages throws out of endSession, when the session is ENDED
\* already: no event is emitted, and a socket that was leaving stays.
EndFails(c) ==
  /\ pc[c] = "purge"
  /\ Leave(c)
  /\ GiveUp
  /\ UNCHANGED <<rowVars, room, heard, kicks, admitted, job, faults>>

\* The job fails: process catches the error and the next repetition starts over.
JobFails ==
  /\ job # "idle" /\ faults < MaxFaults
  /\ faults' = faults + 1
  /\ job' = "idle"
  /\ GiveUp
  /\ UNCHANGED <<rowVars, room, heard, kicks, admitted, callVars>>

\* The process restarts: no request, kick or socket is left.  The clients
\* connect and join again.
ServerRestart ==
  /\ faults < MaxFaults
  /\ faults' = faults + 1
  /\ Quit(Sockets) /\ kicks' = {} /\ job' = "idle"
  /\ pc' = [c \in Workers |-> "idle"] /\ req' = [c \in Workers |-> NoReq]
  /\ Abandon
  /\ UNCHANGED <<rowVars, admitted>>

\* A socket goes away (while no request of its own is under way).
Disconnect(s) ==
  /\ s \in room
  /\ \A c \in Workers : pc[c] # "idle" => req[c].socket # s
  /\ Quit({s})
  /\ UNCHANGED <<rowVars, kicks, straggler, admitted, callVars,
                 job, faults>>

Next ==
  \/ CreateSession \/ Expire
  \/ \E u \in Users : ApproveParticipant(u) \/ RejectParticipant(u) \/ KickUser(u)
  \/ \E c \in Workers :
       \/ \E u \in Users : GetSessionForUser(c, u)
       \/ \E s \in Sockets :
            \/ Register(c, UserOf[s], s) \/ WatchLeave(c, s)
            \/ WatchChatSend(c, s)
       \/ \E s \in Sockets \cup {NoSocket} : EndSession(c, s)
       \/ LookupRow(c) \/ WriteRow(c) \/ ReadSocketJoinState(c) \/ WatchJoin(c)
       \/ EndUpdate(c) \/ EndPurge(c) \/ EndTell(c) \/ Exit(c)
       \/ InsertMessage(c)
       \/ Fail(c) \/ EndFails(c)
  \/ JobFind \/ JobUpdate \/ JobPurge \/ JobTell \/ JobFails
  \/ ServerRestart
  \/ \E s \in Sockets : Disconnect(s)

Spec == Init /\ [][Next]_vars

\* BullMQ keeps the repeated job in Redis and runs it again after a failure or
\* a restart; its steps are taken once they are possible.
FairSpec == Spec /\ WF_vars(JobFind \/ JobUpdate \/ JobPurge \/ JobTell)

---------------------------------------------------------------------------
(* Properties.                                                             *)

\* Whoever is in the room or has a message in it was once let in: is the host,
\* or was approved by the host, or needs no approval.  Every join goes through
\* a row that another request of the same user, or the host, may be changing.
AdmittedOnly ==
  /\ \A s \in room : UserOf[s] \in admitted
  /\ messages \subseteq admitted

Ending == job \in {"purge", "tell"} \/ \E c \in Workers : pc[c] \in {"purge", "tell"}

\* When a session is over, every socket in its room was told, but those whose
\* join passed its check before the end, or that were in the room when the
\* host's end or the job failed half-way, and which nobody tells any more.
EndHeard ==
  session = "ENDED" /\ ~Ending => room \subseteq heard \cup stray

\* The messages go with the session; what stays was on its way to the database
\* when they were deleted, or was left by an end that failed half-way.
MessagesGo ==
  session = "ENDED" /\ ~Ending => messages \subseteq straggler

\* An expired session ends, whether its host acts or not and whatever fails.
ExpiredSessionsEnd == expired ~> session # "ACTIVE"
=============================================================================
