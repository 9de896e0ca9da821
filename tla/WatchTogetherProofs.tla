----------------------------- MODULE WatchTogetherProofs -----------------------------
(***************************************************************************)
(* The watch-together session, for every set of users, sockets and         *)
(* requests, and any number of faults: who is in the room was let in,      *)
(* every socket hears that the session is over, and its messages go.       *)
(***************************************************************************)
EXTENDS WatchTogether, TLAPS

\* What a request carries from one await to the next, and what was true when its
\* checks passed: the session was open, and whoever passed the check of the
\* participants was let in.
CarriedBy(c) ==
  /\ pc[c] # "idle" => session # "none"
  /\ pc[c] \in {"lookup", "write", "state", "join"} =>
       /\ req[c] \in JoinReqs /\ req[c].live
       /\ req[c].socket # NoSocket => req[c].user = UserOf[req[c].socket]
  /\ pc[c] = "join" => req[c].socket # NoSocket /\ req[c].user \in admitted
  /\ pc[c] = "insert" => req[c] \in OtherReqs /\ req[c].user \in admitted
  /\ pc[c] \in {"end", "purge", "tell"} => req[c] \in EndReqs
  /\ pc[c] = "exit" => req[c] \in OtherReqs \cup EndReqs /\ req[c].socket # NoSocket

Carried == \A c \in Workers : CarriedBy(c)

\* A worker moves, and the others stay where they are.
LEMMA WorkerMoves ==
  ASSUME TypeOK, NEW c \in Workers
  PROVE  /\ \A label : Goto(c, label) =>
              pc'[c] = label /\ \A d \in Workers \ {c} : pc'[d] = pc[d]
         /\ Leave(c) =>
              /\ pc'[c] = "idle" /\ req'[c] = NoReq
              /\ \A d \in Workers \ {c} : pc'[d] = pc[d] /\ req'[d] = req[d]
         /\ \A label, r : Enter(c, label, r) =>
              /\ pc[c] = "idle" /\ pc'[c] = label /\ req'[c] = r
              /\ \A d \in Workers \ {c} : pc'[d] = pc[d] /\ req'[d] = req[d]
<1>1. /\ pc \in [Workers -> PCs]
      /\ req \in [Workers -> {NoReq} \cup JoinReqs \cup OtherReqs \cup EndReqs]
  BY DEF TypeOK
<1> QED BY <1>1 DEF Goto, Leave, Enter

\* The types of the workers' variables, wherever a worker goes.
LEMMA WorkerTypes ==
  ASSUME TypeOK, NEW c \in Workers
  PROVE  /\ \A label \in PCs : Goto(c, label) => pc' \in [Workers -> PCs]
         /\ Leave(c) =>
              /\ pc' \in [Workers -> PCs]
              /\ req' \in [Workers -> {NoReq} \cup JoinReqs \cup OtherReqs \cup EndReqs]
         /\ \A label \in PCs, r \in JoinReqs \cup OtherReqs \cup EndReqs :
              Enter(c, label, r) =>
                /\ pc' \in [Workers -> PCs]
                /\ req' \in [Workers -> {NoReq} \cup JoinReqs \cup OtherReqs \cup EndReqs]
<1> DEFINE Reqs == {NoReq} \cup JoinReqs \cup OtherReqs \cup EndReqs
<1>1. pc \in [Workers -> PCs] /\ req \in [Workers -> Reqs]
  BY DEF TypeOK
<1>2. NoReq \in Reqs /\ "idle" \in PCs
  BY DEF PCs
<1>3. \A r \in JoinReqs \cup OtherReqs \cup EndReqs : r \in Reqs
  OBVIOUS
<1> HIDE DEF Reqs
<1>4. \A label \in PCs : Goto(c, label) => pc' \in [Workers -> PCs]
  BY <1>1 DEF Goto
<1>5. Leave(c) => pc' \in [Workers -> PCs] /\ req' \in [Workers -> Reqs]
  BY <1>1, <1>2, <1>4 DEF Leave
<1>6. \A label \in PCs, r \in Reqs :
        Enter(c, label, r) => pc' \in [Workers -> PCs] /\ req' \in [Workers -> Reqs]
  BY <1>1, <1>4 DEF Enter
<1> QED BY <1>3, <1>4, <1>5, <1>6 DEF Reqs

\* The requests a client can send.
LEMMA Requests ==
  /\ \A u \in Users, s \in Sockets \cup {NoSocket}, b \in BOOLEAN :
       [kind |-> "join", user |-> u, socket |-> s, found |-> "none", live |-> b] \in JoinReqs
  /\ \A u \in Users, s \in Sockets :
       /\ [kind |-> "chat", user |-> u, socket |-> s] \in OtherReqs
       /\ [kind |-> "leave", user |-> u, socket |-> s] \in OtherReqs
  /\ \A s \in Sockets \cup {NoSocket} :
       [kind |-> "end", user |-> Host, socket |-> s] \in EndReqs
BY DEF JoinReqs, OtherReqs, EndReqs, RowStates

\* Each action keeps the types.
LEMMA WatchTypeStep == TypeOK /\ Carried /\ [Next]_vars => TypeOK'
<1> SUFFICES ASSUME TypeOK, Carried, [Next]_vars PROVE TypeOK'
  OBVIOUS
<1> DEFINE Reqs == {NoReq} \cup JoinReqs \cup OtherReqs \cup EndReqs
<1> USE WatchAssumption DEF TypeOK
<1>0. ASSUME UNCHANGED <<rowVars, socketVars, straggler, admitted, job, faults>>,
             pc' \in [Workers -> PCs], req' \in [Workers -> Reqs]
      PROVE  TypeOK'
  BY <1>0 DEF rowVars, socketVars
<1>1. CASE CreateSession \/ Expire
           \/ \E u \in Users : ApproveParticipant(u) \/ RejectParticipant(u) \/ KickUser(u)
  BY <1>1 DEF CreateSession, Expire, ApproveParticipant, RejectParticipant, KickUser, SetRow,
              Admit, Quit, rowVars, socketVars, callVars, RowStates
<1>2. ASSUME NEW c \in Workers, NEW u \in Users, NEW s \in Sockets \cup {NoSocket},
             Register(c, u, s)
      PROVE  TypeOK'
  BY <1>2, <1>0, WorkerTypes, Requests DEF Register, PCs
<1>3. ASSUME NEW c \in Workers, NEW s \in Sockets \cup {NoSocket}, EndSession(c, s)
      PROVE  TypeOK'
  BY <1>3, <1>0, WorkerTypes, Requests DEF EndSession, PCs
<1>4. ASSUME NEW c \in Workers, NEW s \in Sockets, WatchChatSend(c, s)
      PROVE  TypeOK'
  BY <1>4, <1>0, WorkerTypes, Requests DEF WatchChatSend, PCs
<1>5. ASSUME NEW c \in Workers, NEW s \in Sockets, WatchLeave(c, s)
      PROVE  TypeOK'
  <2>1. pc' \in [Workers -> PCs] /\ req' \in [Workers -> Reqs]
    BY <1>5, WorkerTypes, Requests DEF WatchLeave, PCs
  <2>2. row' \in [Users -> RowStates]
    BY <1>5 DEF WatchLeave, SetRow, RowStates
  <2> QED BY <1>5, <2>1, <2>2 DEF WatchLeave, socketVars
<1>6. ASSUME NEW c \in Workers, LookupRow(c)
      PROVE  TypeOK'
  <2>1. pc' \in [Workers -> PCs]
    BY <1>6, WorkerTypes DEF LookupRow, PCs
  <2>2. req[c] \in JoinReqs /\ req[c].user \in Users
    BY <1>6 DEF LookupRow, Carried, CarriedBy, JoinReqs
  <2>3. [req[c] EXCEPT !.found = row[req[c].user]] \in JoinReqs
    BY <2>2 DEF JoinReqs
  <2>4. req' \in [Workers -> Reqs]
    BY <1>6, <2>3 DEF LookupRow
  <2>5. row' \in [Users -> RowStates]
    BY <1>6 DEF LookupRow, SetRow, RowStates
  <2> QED BY <1>6, <2>1, <2>4, <2>5 DEF LookupRow, socketVars
<1>7. ASSUME NEW c \in Workers, WriteRow(c)
      PROVE  TypeOK'
  <2>1. pc' \in [Workers -> PCs]
    BY <1>7, WorkerTypes DEF WriteRow, PCs
  <2>2. req[c] \in JoinReqs /\ req[c].user \in Users
    BY <1>7 DEF WriteRow, Carried, CarriedBy, JoinReqs
  <2>3. [req[c] EXCEPT !.found = "none"] \in JoinReqs
    BY <2>2 DEF JoinReqs, RowStates
  <2>4. req' \in [Workers -> Reqs]
    BY <1>7, <2>3 DEF WriteRow
  <2>5. row' \in [Users -> RowStates] /\ admitted' \subseteq Users
    BY <1>7, <2>2 DEF WriteRow, SetRow, Admit, DesiredStatus, RowStates
  <2> QED BY <1>7, <2>1, <2>4, <2>5 DEF WriteRow, socketVars
<1>8. ASSUME NEW c \in Workers, ReadSocketJoinState(c)
      PROVE  TypeOK'
  BY <1>8, <1>0, WorkerTypes DEF ReadSocketJoinState, PCs
<1>9. ASSUME NEW c \in Workers, WatchJoin(c)
      PROVE  TypeOK'
  <2>1. req[c].socket \in Sockets
    BY <1>9 DEF WatchJoin, Carried, CarriedBy, JoinReqs
  <2>2. pc' \in [Workers -> PCs] /\ req' \in [Workers -> Reqs]
    BY <1>9, WorkerTypes DEF WatchJoin
  <2> QED BY <1>9, <2>1, <2>2 DEF WatchJoin, rowVars
<1>10. ASSUME NEW c \in Workers, EndUpdate(c) \/ EndPurge(c)
       PROVE  TypeOK'
  <2>1. pc' \in [Workers -> PCs]
    BY <1>10, WorkerTypes DEF EndUpdate, EndPurge, PCs
  <2>2. Inserting \subseteq Users
    BY DEF Inserting, Carried, CarriedBy, OtherReqs
  <2> QED BY <1>10, <2>1, <2>2 DEF EndUpdate, EndPurge, MarkEnded, PurgeMessages, socketVars
<1>11. ASSUME NEW c \in Workers, EndTell(c)
       PROVE  TypeOK'
  <2>1. pc' \in [Workers -> PCs] /\ req' \in [Workers -> Reqs]
    BY <1>11, WorkerTypes DEF EndTell, PCs
  <2> QED BY <1>11, <2>1 DEF EndTell, TellEnded, rowVars
<1>12. ASSUME NEW c \in Workers, Exit(c)
       PROVE  TypeOK'
  <2>1. pc' \in [Workers -> PCs] /\ req' \in [Workers -> Reqs]
    BY <1>12, WorkerTypes DEF Exit
  <2> QED BY <1>12, <2>1 DEF Exit, Quit, rowVars
<1>13. ASSUME NEW c \in Workers, InsertMessage(c)
       PROVE  TypeOK'
  <2>1. req[c].user \in Users
    BY <1>13 DEF InsertMessage, Carried, CarriedBy, OtherReqs
  <2>2. pc' \in [Workers -> PCs] /\ req' \in [Workers -> Reqs]
    BY <1>13, WorkerTypes DEF InsertMessage
  <2> QED BY <1>13, <2>1, <2>2 DEF InsertMessage, socketVars
<1>14. ASSUME NEW c \in Workers, Fail(c)
       PROVE  TypeOK'
  BY <1>14, <1>0, WorkerTypes DEF Fail
<1>18. ASSUME NEW c \in Workers, EndFails(c)
       PROVE  TypeOK'
  <2>1. Inserting \subseteq Users
    BY DEF Inserting, Carried, CarriedBy, OtherReqs
  <2>2. pc' \in [Workers -> PCs] /\ req' \in [Workers -> Reqs]
    BY <1>18, WorkerTypes DEF EndFails
  <2> QED BY <1>18, <2>1, <2>2 DEF EndFails, GiveUp, Abandon, rowVars
<1>15. CASE JobFind \/ JobUpdate \/ JobPurge \/ JobTell
  <2>1. Inserting \subseteq Users
    BY DEF Inserting, Carried, CarriedBy, OtherReqs
  <2> QED BY <1>15, <2>1 DEF JobFind, JobUpdate, JobPurge, JobTell, MarkEnded, PurgeMessages,
                             TellEnded, rowVars, socketVars, callVars
<1>16. CASE JobFails \/ ServerRestart \/ \E s \in Sockets : Disconnect(s)
  <2>1. Inserting \subseteq Users
    BY DEF Inserting, Carried, CarriedBy, OtherReqs
  <2>2. pc' \in [Workers -> PCs] /\ req' \in [Workers -> Reqs]
    BY <1>16 DEF JobFails, ServerRestart, Disconnect, callVars, PCs
  <2> QED BY <1>16, <2>1, <2>2 DEF JobFails, ServerRestart, Disconnect, GiveUp, Abandon, Quit, rowVars
<1>17. CASE UNCHANGED vars
  BY <1>17 DEF vars, rowVars, socketVars, callVars
<1> QED
  BY <1>1, <1>2, <1>3, <1>4, <1>5, <1>6, <1>7, <1>8, <1>9, <1>10, <1>11, <1>12, <1>13, <1>14,
     <1>15, <1>16, <1>17, <1>18 DEF Next, GetSessionForUser
---------------------------------------------------------------------------
\* Whoever holds an approved row was let in, and so was the host of a session.
LetIn ==
  /\ AdmittedOnly
  /\ \A u \in Users : row[u] = "APPROVED" => u \in admitted
  /\ session # "none" => Host \in admitted
  /\ job # "idle" => session # "none"

\* A step keeps what the requests carry, as long as those it moves carry it.
LEMMA CarriedStays ==
  ASSUME Carried, session # "none" => session' # "none", admitted \subseteq admitted',
         \A d \in Workers : \/ pc'[d] = pc[d] /\ req'[d] = req[d]
                            \/ pc'[d] = "idle"
                            \/ CarriedBy(d)'
  PROVE  Carried'
BY DEF Carried, CarriedBy

\* Every request carries what its checks have shown.
LEMMA CarriedStep == TypeOK /\ Carried /\ LetIn /\ [Next]_vars => Carried'
<1> SUFFICES ASSUME TypeOK, Carried, LetIn, [Next]_vars PROVE Carried'
  OBVIOUS
<1>0. ASSUME UNCHANGED callVars, session # "none" => session' # "none",
             admitted \subseteq admitted'
      PROVE  Carried'
  BY <1>0, CarriedStays DEF callVars
<1>1. CASE \/ CreateSession \/ Expire
           \/ \E u \in Users : ApproveParticipant(u) \/ RejectParticipant(u) \/ KickUser(u)
           \/ JobFind \/ JobUpdate \/ JobPurge \/ JobTell \/ JobFails
           \/ \E s \in Sockets : Disconnect(s)
  <2>1. /\ UNCHANGED callVars /\ (session # "none" => session' # "none")
        /\ admitted \subseteq admitted'
    BY <1>1 DEF CreateSession, Expire, ApproveParticipant, RejectParticipant, KickUser, JobFind,
                JobUpdate, JobPurge, JobTell, JobFails, Disconnect, MarkEnded, PurgeMessages,
                TellEnded, Admit, rowVars, callVars
  <2> QED BY <1>0, <2>1
<1>2. ASSUME NEW c \in Workers, NEW label, Goto(c, label), req'[c] = req[c],
             \A d \in Workers \ {c} : req'[d] = req[d],
             UNCHANGED <<session, admitted>>, CarriedBy(c)'
      PROVE  Carried'
  BY <1>2, CarriedStays, WorkerMoves
<1>3. ASSUME NEW c \in Workers, Leave(c), UNCHANGED <<session, admitted>>
      PROVE  Carried'
  BY <1>3, CarriedStays, WorkerMoves
<1>4. ASSUME NEW c \in Workers, NEW label, NEW r, Enter(c, label, r),
             UNCHANGED <<session, admitted>>, CarriedBy(c)'
      PROVE  Carried'
  BY <1>4, CarriedStays, WorkerMoves
<1>5. ASSUME NEW c \in Workers, NEW u \in Users, NEW s \in Sockets \cup {NoSocket},
             s # NoSocket => u = UserOf[s], Register(c, u, s)
      PROVE  Carried'
  <2> DEFINE r == [kind |-> "join", user |-> u, socket |-> s, found |-> "none",
                   live |-> session = "ACTIVE"]
  <2>1. Enter(c, "lookup", r) /\ UNCHANGED <<session, admitted>> /\ session = "ACTIVE"
    BY <1>5 DEF Register, Open, rowVars
  <2>2. r \in JoinReqs /\ r.live /\ (r.socket # NoSocket => r.user = UserOf[r.socket])
    BY <1>5, <2>1, Requests
  <2> HIDE DEF r
  <2>3. CarriedBy(c)'
    BY <2>1, <2>2, WorkerMoves DEF CarriedBy
  <2> QED BY <1>4, <2>1, <2>3
<1>6. ASSUME NEW c \in Workers, NEW s \in Sockets, WatchLeave(c, s)
      PROVE  Carried'
  <2> DEFINE r == [kind |-> "leave", user |-> UserOf[s], socket |-> s]
  <2>1. Enter(c, "exit", r) /\ UNCHANGED <<session, admitted>> /\ session # "none"
    BY <1>6 DEF WatchLeave
  <2>2. r \in OtherReqs /\ r.socket # NoSocket
    BY Requests, WatchAssumption
  <2> HIDE DEF r
  <2>3. CarriedBy(c)'
    BY <2>1, <2>2, WorkerMoves DEF CarriedBy
  <2> QED BY <1>4, <2>1, <2>3
<1>7. ASSUME NEW c \in Workers, NEW s \in Sockets, WatchChatSend(c, s)
      PROVE  Carried'
  <2> DEFINE r == [kind |-> "chat", user |-> UserOf[s], socket |-> s]
  <2>1. Enter(c, "insert", r) /\ UNCHANGED <<session, admitted>> /\ session = "ACTIVE"
    BY <1>7 DEF WatchChatSend, Open, rowVars
  <2>2. UserOf[s] \in admitted
    BY <1>7, WatchAssumption DEF WatchChatSend, Open, LetIn
  <2>3. r \in OtherReqs /\ r.user \in admitted
    BY <2>2, Requests, WatchAssumption
  <2> HIDE DEF r
  <2>4. CarriedBy(c)'
    BY <2>1, <2>3, WorkerMoves DEF CarriedBy
  <2> QED BY <1>4, <2>1, <2>4
<1>8. ASSUME NEW c \in Workers, NEW s \in Sockets \cup {NoSocket}, EndSession(c, s)
      PROVE  Carried'
  <2> DEFINE r == [kind |-> "end", user |-> Host, socket |-> s]
  <2>1. Enter(c, "end", r) /\ UNCHANGED <<session, admitted>> /\ session = "ACTIVE"
    BY <1>8 DEF EndSession, rowVars
  <2>2. r \in EndReqs
    BY Requests
  <2> HIDE DEF r
  <2>3. CarriedBy(c)'
    BY <2>1, <2>2, WorkerMoves DEF CarriedBy
  <2> QED BY <1>4, <2>1, <2>3
<1>9. ASSUME NEW c \in Workers, LookupRow(c)
      PROVE  Carried'
  <2>1. /\ pc[c] = "lookup" /\ CarriedBy(c) /\ UNCHANGED <<session, admitted>>
        /\ \/ Goto(c, "state") /\ UNCHANGED req
           \/ Goto(c, "write") /\ req' = [req EXCEPT ![c].found = row[req[c].user]]
    BY <1>9 DEF LookupRow, Carried
  <2>2. /\ req[c] \in JoinReqs /\ req[c].user \in Users /\ req \in [Workers -> {NoReq} \cup JoinReqs \cup OtherReqs \cup EndReqs]
        /\ row[req[c].user] \in RowStates
    BY <2>1 DEF CarriedBy, TypeOK, JoinReqs
  <2>3. /\ req'[c] \in JoinReqs /\ req'[c].live = req[c].live
        /\ req'[c].socket = req[c].socket /\ req'[c].user = req[c].user
        /\ \A d \in Workers \ {c} : req'[d] = req[d]
    BY <2>1, <2>2 DEF JoinReqs
  <2>4. pc'[c] \in {"state", "write"} /\ \A d \in Workers \ {c} : pc'[d] = pc[d]
    BY <2>1, WorkerMoves
  <2>5. CarriedBy(c)'
    BY <2>1, <2>3, <2>4 DEF CarriedBy
  <2> QED BY <2>1, <2>3, <2>4, <2>5, CarriedStays
<1>10. ASSUME NEW c \in Workers, WriteRow(c)
       PROVE  Carried'
  <2>1. /\ pc[c] = "write" /\ CarriedBy(c) /\ UNCHANGED session /\ admitted \subseteq admitted'
        /\ Goto(c, "state") /\ req' = [req EXCEPT ![c].found = "none"]
    BY <1>10 DEF WriteRow, Carried, Admit
  <2>2. req[c] \in JoinReqs /\ req \in [Workers -> {NoReq} \cup JoinReqs \cup OtherReqs \cup EndReqs]
    BY <2>1 DEF CarriedBy, TypeOK
  <2>3. /\ req'[c] \in JoinReqs /\ req'[c].live = req[c].live
        /\ req'[c].socket = req[c].socket /\ req'[c].user = req[c].user
        /\ \A d \in Workers \ {c} : req'[d] = req[d]
    BY <2>1, <2>2 DEF JoinReqs, RowStates
  <2>4. pc'[c] = "state" /\ \A d \in Workers \ {c} : pc'[d] = pc[d]
    BY <2>1, WorkerMoves
  <2>5. CarriedBy(c)'
    BY <2>1, <2>3, <2>4 DEF CarriedBy
  <2> QED BY <2>1, <2>3, <2>4, <2>5, CarriedStays
<1>11. ASSUME NEW c \in Workers, ReadSocketJoinState(c)
       PROVE  Carried'
  <2>1. UNCHANGED <<session, admitted>> /\ pc[c] = "state" /\ CarriedBy(c)
    BY <1>11 DEF ReadSocketJoinState, rowVars, Carried
  <2>2. CASE Leave(c)
    BY <1>3, <2>1, <2>2
  <2>3. CASE ~Leave(c)
    <3>1. /\ req[c].socket # NoSocket /\ row[req[c].user] = "APPROVED"
          /\ Goto(c, "join") /\ UNCHANGED req
      BY <1>11, <2>3 DEF ReadSocketJoinState
    <3>2. req[c].user \in Users
      BY <2>1 DEF CarriedBy, JoinReqs
    <3>3. req[c].user \in admitted
      BY <3>1, <3>2 DEF LetIn
    <3>4. CarriedBy(c)'
      BY <2>1, <3>1, <3>3, WorkerMoves DEF CarriedBy
    <3> QED BY <1>2, <2>1, <3>1, <3>4
  <2> QED BY <2>2, <2>3
<1>12. ASSUME NEW c \in Workers, WatchJoin(c) \/ Exit(c) \/ InsertMessage(c) \/ Fail(c) \/ EndFails(c)
       PROVE  Carried'
  BY <1>3, <1>12 DEF WatchJoin, Exit, InsertMessage, Fail, EndFails, rowVars
<1>13. ASSUME NEW c \in Workers, EndUpdate(c) \/ EndPurge(c)
       PROVE  Carried'
  <2>1. /\ pc[c] \in {"end", "purge"} /\ CarriedBy(c) /\ UNCHANGED <<req, admitted>>
        /\ session # "none" => session' # "none"
        /\ \E label \in {"purge", "tell"} : Goto(c, label)
    BY <1>13 DEF EndUpdate, EndPurge, MarkEnded, PurgeMessages, Carried
  <2>2. pc'[c] \in {"purge", "tell"} /\ \A d \in Workers \ {c} : pc'[d] = pc[d]
    BY <2>1, WorkerMoves
  <2>3. CarriedBy(c)'
    BY <2>1, <2>2 DEF CarriedBy
  <2> QED BY <2>1, <2>2, <2>3, CarriedStays
<1>14. ASSUME NEW c \in Workers, EndTell(c)
       PROVE  Carried'
  <2>1. UNCHANGED <<session, admitted>> /\ pc[c] = "tell" /\ CarriedBy(c)
    BY <1>14 DEF EndTell, TellEnded, rowVars, Carried
  <2>2. CASE req[c].socket = NoSocket
    BY <1>3, <1>14, <2>1, <2>2 DEF EndTell
  <2>3. CASE req[c].socket # NoSocket
    <3>1. Goto(c, "exit") /\ UNCHANGED req
      BY <1>14, <2>3 DEF EndTell
    <3>2. CarriedBy(c)'
      BY <2>1, <2>3, <3>1, WorkerMoves DEF CarriedBy
    <3> QED BY <1>2, <2>1, <3>1, <3>2
  <2> QED BY <2>2, <2>3
<1>15. CASE ServerRestart
  BY <1>15, CarriedStays DEF ServerRestart, rowVars
<1>16. CASE UNCHANGED vars
  BY <1>0, <1>16 DEF vars, rowVars
<1> QED
  <2>1. ASSUME NEW c \in Workers, NEW u \in Users, GetSessionForUser(c, u) PROVE Carried'
    BY <1>5, <2>1 DEF GetSessionForUser
  <2>2. ASSUME NEW c \in Workers, NEW s \in Sockets, Register(c, UserOf[s], s) PROVE Carried'
    BY <1>5, <2>2, WatchAssumption
  <2> QED
    BY <1>1, <1>6, <1>7, <1>8, <1>9, <1>10, <1>11, <1>12, <1>13, <1>14, <1>15, <1>16, <2>1, <2>2
       DEF Next
---------------------------------------------------------------------------
\* Nobody loses the admission, no step approves a row without it, and whoever
\* enters the room or writes a message has passed a check of an approved row.
LEMMA LetInStep == TypeOK /\ Carried /\ LetIn /\ [Next]_vars => LetIn'
<1> SUFFICES ASSUME TypeOK, Carried, LetIn, [Next]_vars PROVE LetIn'
  OBVIOUS
<1> USE WatchAssumption DEF LetIn, AdmittedOnly
<1>0. /\ row \in [Users -> RowStates] /\ room \subseteq Sockets /\ messages \subseteq Users
  BY DEF TypeOK
<1>1. ASSUME UNCHANGED <<rowVars, admitted>>, room' \subseteq room,
             job' # "idle" => job # "idle" \/ session # "none"
      PROVE  LetIn'
  BY <1>1 DEF rowVars
<1>2. CASE CreateSession
  BY <1>0, <1>2 DEF CreateSession, SetRow, Admit, socketVars
<1>3. CASE Expire
  BY <1>3 DEF Expire, socketVars
<1>4. ASSUME NEW u \in Users,
             ApproveParticipant(u) \/ RejectParticipant(u) \/ KickUser(u)
      PROVE  LetIn'
  BY <1>0, <1>4 DEF ApproveParticipant, RejectParticipant, KickUser, SetRow, Admit, Quit,
                    socketVars, rowVars
<1>5. ASSUME NEW c \in Workers, NEW u \in Users, NEW s \in Sockets \cup {NoSocket},
             \/ Register(c, u, s) \/ GetSessionForUser(c, u) \/ EndSession(c, s)
      PROVE  LetIn'
  BY <1>1, <1>5 DEF Register, GetSessionForUser, EndSession, socketVars
<1>6. ASSUME NEW c \in Workers, NEW s \in Sockets, WatchChatSend(c, s)
      PROVE  LetIn'
  BY <1>1, <1>6 DEF WatchChatSend, socketVars
<1>7. ASSUME NEW c \in Workers, NEW s \in Sockets, WatchLeave(c, s)
      PROVE  LetIn'
  BY <1>0, <1>7 DEF WatchLeave, SetRow, socketVars
<1>8. ASSUME NEW c \in Workers, LookupRow(c)
      PROVE  LetIn'
  <2>1. /\ row' \in {row, [row EXCEPT ![Host] = "APPROVED"]}
        /\ UNCHANGED <<session, messages, admitted, room>>
    BY <1>8 DEF LookupRow, SetRow, socketVars
  <2>2. session # "none"
    BY <1>8 DEF LookupRow, Carried, CarriedBy
  <2> QED BY <1>0, <2>1, <2>2
<1>9. ASSUME NEW c \in Workers, WriteRow(c)
      PROVE  LetIn'
  <2>1. req[c].user \in Users
    BY <1>9 DEF WriteRow, Carried, CarriedBy, JoinReqs
  <2> QED BY <1>0, <1>9, <2>1 DEF WriteRow, SetRow, Admit, socketVars
<1>10. ASSUME NEW c \in Workers, \/ ReadSocketJoinState(c) \/ Fail(c) \/ EndFails(c)
                                \/ Exit(c) \/ EndTell(c)
       PROVE  LetIn'
  BY <1>1, <1>10 DEF ReadSocketJoinState, Fail, EndFails, Exit, EndTell, TellEnded, Quit, socketVars
<1>11. ASSUME NEW c \in Workers, WatchJoin(c)
       PROVE  LetIn'
  <2>1. UserOf[req[c].socket] \in admitted
    BY <1>11 DEF WatchJoin, Carried, CarriedBy
  <2> QED BY <1>11, <2>1 DEF WatchJoin, rowVars
<1>12. ASSUME NEW c \in Workers, EndUpdate(c) \/ EndPurge(c)
       PROVE  LetIn'
  <2>1. session # "none"
    BY <1>12 DEF EndUpdate, EndPurge, Carried, CarriedBy
  <2> QED BY <1>12, <2>1 DEF EndUpdate, EndPurge, MarkEnded, PurgeMessages, socketVars
<1>13. ASSUME NEW c \in Workers, InsertMessage(c)
       PROVE  LetIn'
  <2>1. req[c].user \in admitted
    BY <1>13 DEF InsertMessage, Carried, CarriedBy
  <2> QED BY <1>13, <2>1 DEF InsertMessage, socketVars
<1>14. CASE JobFind \/ JobTell \/ JobFails \/ ServerRestart \/ \E s \in Sockets : Disconnect(s)
  BY <1>1, <1>14 DEF JobFind, JobTell, TellEnded, JobFails, ServerRestart, Disconnect, Quit,
                     socketVars
<1>15. CASE JobUpdate \/ JobPurge
  BY <1>15 DEF JobUpdate, JobPurge, MarkEnded, PurgeMessages, socketVars
<1>16. CASE UNCHANGED vars
  BY <1>1, <1>16 DEF vars, socketVars
<1> QED
  BY <1>2, <1>3, <1>4, <1>5, <1>6, <1>7, <1>8, <1>9, <1>10, <1>11, <1>12, <1>13, <1>14,
     <1>15, <1>16 DEF Next
---------------------------------------------------------------------------
(* The end of a session.                                                   *)

Purging == job = "purge" \/ \E c \in Workers : pc[c] = "purge"

\* Once nobody is about to delete the messages of a session that ended, those
\* that are left, and those on their way, were seen on their way when somebody
\* deleted them, or were given up by a failure.
Cleared ==
  /\ Ending => session = "ENDED"
  /\ session = "ENDED" /\ ~Purging => messages \cup Inserting \subseteq straggler

\* A step that neither begins nor carries on an end, writes no message of a
\* session that ended and leaves nobody in the room untold, keeps both.
LEMMA OverStays ==
  ASSUME Cleared, EndHeard, UNCHANGED session,
         messages' \subseteq messages, straggler \subseteq straggler',
         room' \subseteq room \cup stray', room \cap heard \cap room' \subseteq heard',
         stray \cap room' \subseteq stray',
         job' = job \/ {job, job'} \cap {"purge", "tell"} = {},
         \A d \in Workers :
           \/ pc'[d] = pc[d] /\ req'[d] = req[d]
           \/ /\ pc[d] \notin {"purge", "tell"} /\ pc'[d] \notin {"purge", "tell"}
              /\ pc'[d] = "insert" => session # "ENDED"
  PROVE  Cleared' /\ EndHeard'
<1>1. (Ending' <=> Ending) /\ (Purging' <=> Purging)
  BY DEF Ending, Purging
<1>2. session = "ENDED" => Inserting' \subseteq Inserting
  BY DEF Inserting
<1>3. Cleared'
  BY <1>1, <1>2 DEF Cleared
<1>4. EndHeard'
  BY <1>1 DEF EndHeard
<1> QED BY <1>3, <1>4

\* Every step of an end, of the host or of the job, keeps both.
LEMMA OverStep ==
  TypeOK /\ Carried /\ LetIn /\ Cleared /\ EndHeard /\ [Next]_vars => Cleared' /\ EndHeard'
<1> SUFFICES ASSUME TypeOK, Carried, LetIn, Cleared, EndHeard, [Next]_vars
             PROVE  Cleared' /\ EndHeard'
  OBVIOUS
<1>1. ASSUME UNCHANGED <<session, messages, straggler, room, heard, stray, callVars>>,
             job' = job \/ {job, job'} \cap {"purge", "tell"} = {}
      PROVE  Cleared' /\ EndHeard'
  BY <1>1, OverStays DEF callVars
<1>2. CASE CreateSession
  <2>1. session = "none" /\ session' = "ACTIVE" /\ UNCHANGED <<job, pc>>
    BY <1>2 DEF CreateSession, callVars
  <2>2. ~Ending'
    BY <2>1 DEF Cleared, Ending
  <2> QED BY <2>1, <2>2 DEF Cleared, EndHeard
<1>3. CASE Expire \/ JobFind \/ UNCHANGED vars
           \/ \E u \in Users : ApproveParticipant(u) \/ RejectParticipant(u)
  <2>1. UNCHANGED <<session, messages, straggler, room, heard, stray, callVars>>
    BY <1>3 DEF Expire, JobFind, ApproveParticipant, RejectParticipant, vars, rowVars, socketVars
  <2>2. job' = job \/ {job, job'} \cap {"purge", "tell"} = {}
    BY <1>3 DEF Expire, JobFind, ApproveParticipant, RejectParticipant, vars
  <2> QED BY <1>1, <2>1, <2>2
<1>4. CASE \/ \E u \in Users : KickUser(u)
           \/ \E s \in Sockets : Disconnect(s)
  BY <1>4, OverStays DEF KickUser, Disconnect, Quit, rowVars, callVars
<1>5. ASSUME NEW c \in Workers, NEW label, NEW r, Enter(c, label, r),
             label \notin {"purge", "tell"}, label = "insert" => session # "ENDED",
             UNCHANGED <<session, messages, straggler, room, heard, stray, job>>
      PROVE  Cleared' /\ EndHeard'
  <2>1. \A d \in Workers :
           \/ pc'[d] = pc[d] /\ req'[d] = req[d]
           \/ /\ pc[d] \notin {"purge", "tell"} /\ pc'[d] \notin {"purge", "tell"}
              /\ pc'[d] = "insert" => session # "ENDED"
    BY <1>5, WorkerMoves
  <2> QED BY <1>5, <2>1, OverStays
<1>6. ASSUME NEW c \in Workers, NEW u \in Users, NEW s \in Sockets \cup {NoSocket},
             Register(c, u, s) \/ GetSessionForUser(c, u) \/ EndSession(c, s)
      PROVE  Cleared' /\ EndHeard'
  BY <1>5, <1>6 DEF Register, GetSessionForUser, EndSession, rowVars, socketVars
<1>7. ASSUME NEW c \in Workers, NEW s \in Sockets, WatchLeave(c, s) \/ WatchChatSend(c, s)
      PROVE  Cleared' /\ EndHeard'
  BY <1>5, <1>7 DEF WatchLeave, WatchChatSend, Open, rowVars, socketVars
<1>8. ASSUME NEW c \in Workers, NEW label, Goto(c, label),
             pc[c] \notin {"purge", "tell"}, label \notin {"purge", "tell", "insert"},
             \A d \in Workers \ {c} : req'[d] = req[d],
             UNCHANGED <<session, messages, straggler, room, heard, stray, job>>
      PROVE  Cleared' /\ EndHeard'
  <2>1. \A d \in Workers :
           \/ pc'[d] = pc[d] /\ req'[d] = req[d]
           \/ /\ pc[d] \notin {"purge", "tell"} /\ pc'[d] \notin {"purge", "tell"}
              /\ pc'[d] = "insert" => session # "ENDED"
    BY <1>8, WorkerMoves
  <2> QED BY <1>8, <2>1, OverStays
<1>9. ASSUME NEW c \in Workers, LookupRow(c) \/ WriteRow(c)
      PROVE  Cleared' /\ EndHeard'
  <2>1. \A d \in Workers \ {c} : req'[d] = req[d]
    BY <1>9 DEF LookupRow, WriteRow, TypeOK
  <2> QED BY <1>8, <1>9, <2>1 DEF LookupRow, WriteRow, socketVars
<1>10. ASSUME NEW c \in Workers, Leave(c), pc[c] \notin {"purge", "tell"},
              UNCHANGED <<session, messages, straggler, job>>,
              room' \subseteq room \cup stray', room \cap heard \cap room' \subseteq heard',
              stray \cap room' \subseteq stray'
       PROVE  Cleared' /\ EndHeard'
  <2>1. \A d \in Workers :
           \/ pc'[d] = pc[d] /\ req'[d] = req[d]
           \/ /\ pc[d] \notin {"purge", "tell"} /\ pc'[d] \notin {"purge", "tell"}
              /\ pc'[d] = "insert" => session # "ENDED"
    BY <1>10, WorkerMoves
  <2> QED BY <1>10, <2>1, OverStays
<1>11. ASSUME NEW c \in Workers, ReadSocketJoinState(c)
       PROVE  Cleared' /\ EndHeard'
  BY <1>8, <1>10, <1>11 DEF ReadSocketJoinState, rowVars, socketVars
<1>12. ASSUME NEW c \in Workers, Fail(c) \/ Exit(c)
       PROVE  Cleared' /\ EndHeard'
  BY <1>10, <1>12 DEF Fail, Exit, Quit, rowVars, socketVars
<1>13. ASSUME NEW c \in Workers, WatchJoin(c)
       PROVE  Cleared' /\ EndHeard'
  <2>1. /\ pc[c] = "join" /\ Leave(c) /\ req[c].live
        /\ UNCHANGED <<session, messages, straggler, heard, job>>
        /\ room' = room \cup {req[c].socket}
        /\ stray' = IF session # "ACTIVE" /\ req[c].live THEN stray \cup {req[c].socket}
                    ELSE stray
    BY <1>13 DEF WatchJoin, Carried, CarriedBy, rowVars
  <2>2. CASE session = "ACTIVE"
    <3>1. \A d \in Workers \ {c} : pc'[d] = pc[d]
      BY <2>1, WorkerMoves
    <3>2. Ending' => Ending
      BY <2>1, <3>1, WorkerMoves DEF Ending
    <3> QED BY <2>1, <2>2, <3>2 DEF Cleared, EndHeard
  <2>3. CASE session # "ACTIVE"
    BY <1>10, <2>1, <2>3
  <2> QED BY <2>2, <2>3
<1>14. ASSUME NEW c \in Workers, InsertMessage(c)
       PROVE  Cleared' /\ EndHeard'
  <2>1. /\ pc[c] = "insert" /\ Leave(c) /\ messages' = messages \cup {req[c].user}
        /\ UNCHANGED <<session, straggler, room, heard, stray, job>>
    BY <1>14 DEF InsertMessage, socketVars
  <2>2. /\ pc'[c] = "idle" /\ \A d \in Workers \ {c} : pc'[d] = pc[d] /\ req'[d] = req[d]
    BY <2>1, WorkerMoves
  <2>3. (Ending' <=> Ending) /\ (Purging' <=> Purging)
    BY <2>1, <2>2 DEF Ending, Purging
  <2>4. Inserting' \subseteq Inserting /\ req[c].user \in Inserting
    BY <2>1, <2>2 DEF Inserting
  <2>5. Cleared'
    BY <2>1, <2>3, <2>4 DEF Cleared
  <2>6. EndHeard'
    BY <2>1, <2>3 DEF EndHeard
  <2> QED BY <2>5, <2>6
\* An end begins: the messages are still to be deleted.
<1>15. ASSUME session' = "ENDED", Purging'
       PROVE  Cleared' /\ EndHeard'
  BY <1>15 DEF Cleared, EndHeard, Ending, Purging
<1>16. ASSUME NEW c \in Workers, EndUpdate(c)
       PROVE  Cleared' /\ EndHeard'
  <2>1. pc'[c] = "purge" /\ session' = "ENDED"
    BY <1>16, WorkerMoves DEF EndUpdate, MarkEnded
  <2> QED BY <1>15, <2>1 DEF Purging
<1>17. CASE JobUpdate
  BY <1>15, <1>17 DEF JobUpdate, MarkEnded, Purging
\* The messages are deleted: those under way are known.
<1>18. ASSUME PurgeMessages, session = "ENDED", Inserting' \subseteq Inserting, Ending'
       PROVE  Cleared' /\ EndHeard'
  BY <1>18 DEF PurgeMessages, Cleared, EndHeard
<1>19. ASSUME NEW c \in Workers, EndPurge(c)
       PROVE  Cleared' /\ EndHeard'
  <2>1. /\ pc[c] = "purge" /\ pc'[c] = "tell" /\ \A d \in Workers \ {c} : pc'[d] = pc[d]
        /\ PurgeMessages /\ UNCHANGED req
    BY <1>19, WorkerMoves DEF EndPurge, PurgeMessages
  <2>2. session = "ENDED" /\ Ending'
    BY <2>1 DEF Cleared, Ending
  <2>3. Inserting' \subseteq Inserting
    BY <2>1 DEF Inserting
  <2> QED BY <1>18, <2>1, <2>2, <2>3
<1>20. CASE JobPurge
  <2>1. session = "ENDED" /\ Ending' /\ PurgeMessages /\ UNCHANGED <<pc, req>>
    BY <1>20 DEF JobPurge, PurgeMessages, Cleared, Ending
  <2> QED BY <1>18, <2>1 DEF Inserting
\* The sockets in the room are told.
<1>21. ASSUME NEW c \in Workers, EndTell(c)
       PROVE  Cleared' /\ EndHeard'
  <2>1. /\ pc[c] = "tell" /\ TellEnded /\ UNCHANGED job
        /\ pc'[c] \in {"idle", "exit"}
        /\ \A d \in Workers \ {c} : pc'[d] = pc[d] /\ req'[d] = req[d]
    BY <1>21, WorkerMoves DEF EndTell
  <2>2. /\ UNCHANGED <<session, messages, straggler, room>> /\ room \subseteq heard'
        /\ session = "ENDED"
    BY <2>1 DEF TellEnded, rowVars, Cleared, Ending
  <2>3. (Purging' <=> Purging) /\ Inserting' \subseteq Inserting
    BY <2>1 DEF Purging, Inserting
  <2> QED BY <2>2, <2>3 DEF Cleared, EndHeard
<1>22. CASE JobTell
  <2>1. /\ UNCHANGED <<session, messages, straggler, room, pc, req>> /\ room \subseteq heard'
        /\ job = "tell" /\ job' = "idle" /\ session = "ENDED"
    BY <1>22 DEF JobTell, TellEnded, rowVars, Cleared, Ending
  <2>2. (Purging' <=> Purging) /\ Inserting' \subseteq Inserting
    BY <2>1 DEF Purging, Inserting
  <2> QED BY <2>1, <2>2 DEF Cleared, EndHeard
\* What a failure leaves undone.
<1>23. CASE JobFails
  <2>1. /\ UNCHANGED <<session, messages, room, pc, req>> /\ job' = "idle"
        /\ session = "ENDED" => /\ straggler' = straggler \cup messages \cup Inserting
                                /\ stray' = room \cup stray
    BY <1>23 DEF JobFails, GiveUp, Abandon, rowVars, callVars
  <2>2. (Ending' => Ending) /\ Inserting' = Inserting
    BY <2>1 DEF Ending, Inserting
  <2> QED BY <2>1, <2>2 DEF Cleared, EndHeard
<1>25. ASSUME NEW c \in Workers, EndFails(c)
       PROVE  Cleared' /\ EndHeard'
  <2>1. /\ UNCHANGED <<session, messages, room, job>>
        /\ pc[c] = "purge" /\ pc'[c] = "idle"
        /\ \A d \in Workers \ {c} : pc'[d] = pc[d] /\ req'[d] = req[d]
    BY <1>25, WorkerMoves DEF EndFails, rowVars
  <2>2. session = "ENDED"
    BY <2>1 DEF Cleared, Ending
  <2>3. straggler' = straggler \cup messages \cup Inserting /\ stray' = room \cup stray
    BY <1>25, <2>2 DEF EndFails, GiveUp, Abandon
  <2>4. Inserting' \subseteq Inserting
    BY <2>1 DEF Inserting
  <2> QED BY <2>1, <2>2, <2>3, <2>4 DEF Cleared, EndHeard
<1>24. CASE ServerRestart
  <2>1. /\ UNCHANGED <<session, messages>> /\ job' = "idle" /\ room' = {}
        /\ \A c \in Workers : pc'[c] = "idle"
        /\ session = "ENDED" => straggler' = straggler \cup messages \cup Inserting
    BY <1>24 DEF ServerRestart, Abandon, Quit, rowVars, TypeOK
  <2>2. ~Ending' /\ Inserting' = {}
    BY <2>1 DEF Ending, Inserting
  <2> QED BY <2>1, <2>2 DEF Cleared, EndHeard
<1> QED
  BY <1>2, <1>3, <1>4, <1>6, <1>7, <1>9, <1>11, <1>12, <1>13, <1>14, <1>16, <1>17, <1>19,
     <1>20, <1>21, <1>22, <1>23, <1>24, <1>25, WatchAssumption DEF Next

---------------------------------------------------------------------------
\* What every state of a session satisfies.
WatchInv == TypeOK /\ Carried /\ LetIn /\ Cleared /\ EndHeard

\* What every state of a session satisfies (WatchInv).
LEMMA WatchInvariance == Spec => []WatchInv
<1>1. Init => WatchInv
  <2> SUFFICES ASSUME Init PROVE WatchInv
    OBVIOUS
  <2>1. TypeOK
    <3>1. /\ pc \in [Workers -> PCs] /\ row \in [Users -> RowStates]
          /\ req \in [Workers -> {NoReq} \cup JoinReqs \cup OtherReqs \cup EndReqs]
      BY DEF Init, PCs, RowStates
    <3>2. /\ session \in {"none", "ACTIVE", "ENDED"} /\ job \in {"idle", "update", "purge", "tell"}
          /\ faults \in 0..MaxFaults
      BY WatchAssumption DEF Init
    <3>4. approval \in BOOLEAN /\ expired \in BOOLEAN
      BY DEF Init
    <3>3. /\ messages \subseteq Users /\ straggler \subseteq Users /\ admitted \subseteq Users
          /\ room \subseteq Sockets /\ heard \subseteq Sockets /\ stray \subseteq Sockets
          /\ kicks \subseteq Users
      BY DEF Init
    <3> QED BY <3>1, <3>2, <3>3, <3>4 DEF TypeOK
  <2>2. Carried
    BY DEF Init, Carried, CarriedBy
  <2>3. LetIn
    BY DEF Init, LetIn, AdmittedOnly
  <2>4. Cleared /\ EndHeard
    BY DEF Init, Cleared, EndHeard, Ending
  <2> QED BY <2>1, <2>2, <2>3, <2>4 DEF WatchInv
<1>2. WatchInv /\ [Next]_vars => WatchInv'
  BY WatchTypeStep, CarriedStep, LetInStep, OverStep DEF WatchInv
<1> QED BY <1>1, <1>2, PTL DEF Spec

\* Type correctness of the session, its sockets and the requests under way.
THEOREM WatchTypeCorrect == Spec => []TypeOK
<1>1. WatchInv => TypeOK
  BY DEF WatchInv
<1> QED BY <1>1, WatchInvariance, PTL

\* Nobody is in the room, or has a message in it, who was not let in, whatever
\* joins, leaves, approvals and rejections of the same user interleave.
THEOREM OnlyAdmittedEnter == Spec => []AdmittedOnly
<1>1. WatchInv => AdmittedOnly
  BY DEF WatchInv, LetIn
<1> QED BY <1>1, WatchInvariance, PTL

\* When a session is over, every socket in its room was told, but for joins that
\* passed their check before, and sockets left by an end that failed half-way.
THEOREM EndIsHeard == Spec => []EndHeard
<1>1. WatchInv => EndHeard
  BY DEF WatchInv
<1> QED BY <1>1, WatchInvariance, PTL

\* When a session is over its messages are deleted, but for those that were on
\* their way when they were, and those an end that failed half-way leaves.
THEOREM MessagesAreGone == Spec => []MessagesGo
<1>1. WatchInv => MessagesGo
  BY DEF WatchInv, Cleared, MessagesGo, Ending, Purging
<1> QED BY <1>1, WatchInvariance, PTL
=============================================================================
