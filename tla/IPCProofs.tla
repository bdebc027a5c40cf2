----------------------------- MODULE IPCProofs -----------------------------
(***************************************************************************)
(* Theorems about IPC, for any number of clients and any deadlines.        *)
(***************************************************************************)
EXTENDS IPC, FiniteSetTheorems, TLAPS

USE DEF Requests, Gone, clientVars, connVars, daemonVars, serveVars

Client == Connect \/ ConnectLate \/ \E i \in Clients : SendLate(i) \/ ReadFails(i) \/ GiveUp(i)

LEMMA Full == ResponseTimeout \in 0..ResponseTimeout
  BY IPCAssumption

LEMMA Zero == 0 \in 0..RequestTimeout /\ 0 \in 0..ResponseTimeout /\ 0 \in 0..MaxClients /\ 0 \in 0..0
  BY IPCAssumption

LEMMA TypesAtFirst == Init => TypeOK
<1> SUFFICES ASSUME Init PROVE TypeOK
  OBVIOUS
<1> USE DEF Init
<1>1. connected \in 0..MaxClients /\ accepted \in 0..connected /\ deadline \in 0..RequestTimeout
  BY Zero
<1>2. patience \in [Clients -> 0..ResponseTimeout]
  BY Zero
<1>3. executed \in Seq(Clients)
  BY DEF Clients
<1>4. result \in [Listeners -> {"running", "nil", "err"}]
  OBVIOUS
<1> QED BY <1>1, <1>2, <1>3, <1>4 DEF TypeOK

(* A connection being handled is one that was accepted. *)
THEOREM TypeCorrect == Spec => []TypeOK
<1>1. Init => TypeOK
  BY TypesAtFirst
<1>2. TypeOK /\ [Next]_vars => TypeOK'
  <2> SUFFICES ASSUME TypeOK, [Next]_vars PROVE TypeOK'
    OBVIOUS
  <2> USE IPCAssumption DEF TypeOK, Goes, Becomes, Leaves
  <2>1. CASE UNCHANGED vars
    BY <2>1 DEF vars
  <2>2. CASE Client
    <3>1. ASSUME Connect \/ ConnectLate PROVE TypeOK'
      <4> DEFINE i == connected + 1
      <4>1. i \in Clients /\ i \in 0..MaxClients /\ accepted \in 0..i
        BY <3>1 DEF Connect, ConnectLate, Clients
      <4>2. client' \in [Clients -> {"new", "connected", "waiting"} \cup Gone]
        BY <3>1, <4>1 DEF Connect, ConnectLate
      <4>3. sent' \in [Clients -> Requests \cup {"nothing"}]
        BY <3>1, <4>1 DEF Connect, ConnectLate, Sends
      <4>4. patience' \in [Clients -> 0..ResponseTimeout]
        BY <3>1, <4>1, Full DEF Connect, ConnectLate, Sends
      <4> QED BY <3>1, <4>1, <4>2, <4>3, <4>4 DEF Connect, ConnectLate
    <3>2. ASSUME NEW i \in Clients, SendLate(i) PROVE TypeOK'
      <4>2. client' \in [Clients -> {"new", "connected", "waiting"} \cup Gone]
        BY <3>2 DEF SendLate
      <4>3. sent' \in [Clients -> Requests \cup {"nothing"}]
        BY <3>2 DEF SendLate, Sends
      <4>4. patience' \in [Clients -> 0..ResponseTimeout]
        BY <3>2, Full DEF SendLate, Sends
      <4> QED BY <3>2, <4>2, <4>3, <4>4 DEF SendLate
    <3>3. ASSUME NEW i \in Clients, ReadFails(i) \/ GiveUp(i) PROVE TypeOK'
      <4>2. client' \in [Clients -> {"new", "connected", "waiting"} \cup Gone]
        BY <3>3 DEF ReadFails, GiveUp
      <4>4. patience' \in [Clients -> 0..ResponseTimeout]
        BY <3>3, Zero DEF ReadFails, GiveUp
      <4> QED BY <3>3, <4>2, <4>4 DEF ReadFails, GiveUp
    <3> QED BY <2>2, <3>1, <3>2, <3>3 DEF Client
  <2>3. CASE Accept
    BY <2>3 DEF Accept, Clients
  <2>4. CASE AcceptClosed \/ AcceptFails
    BY <2>4 DEF AcceptClosed, AcceptFails, ServeEnds, Listeners
  <2>5. CASE ReadRequest
    BY <2>5 DEF ReadRequest, Arrived
  <2>6. CASE RejectRequest
    BY <2>6, Zero DEF RejectRequest, Arrived, ConnEnds
  <2>7. CASE ReadGivesUp
    BY <2>7, Zero DEF ReadGivesUp, ConnEnds
  <2>8. CASE Request \/ RequestCommand
    BY <2>8 DEF Request, RequestCommand
  <2>9. CASE Await
    BY <2>9 DEF Await
  <2>10. CASE Write
    <3>1. client' \in [Clients -> {"new", "connected", "waiting"} \cup Gone]
      BY <2>10 DEF Write, Answer
    <3>2. patience' \in [Clients -> 0..ResponseTimeout]
      BY <2>10, Zero DEF Write
    <3> QED BY <2>10, <3>1, <3>2, Zero DEF Write, ConnEnds
  <2>11. ASSUME NEW i \in Clients, Effect(i) PROVE TypeOK'
    <3>1. Append(executed, i) \in Seq(Clients)
      OBVIOUS
    <3> QED BY <2>11, <3>1 DEF Effect
  <2>12. CASE CloseListener \/ CloseConn \/ Cancel
    BY <2>12 DEF CloseListener, CloseConn, Cancel
  <2>13. CASE HTTPCloses \/ HTTPFails
    <3>1. "http" \in Listeners
      BY <2>13 DEF HTTPCloses, HTTPFails, HTTPEnds, Listeners
    <3>2. PICK how \in {"nil", "err"} : HTTPEnds(how)
      BY <2>13 DEF HTTPCloses, HTTPFails
    <3>3. result' \in [Listeners -> {"running", "nil", "err"}]
      BY <3>1, <3>2 DEF HTTPEnds
    <3>4. UNCHANGED <<clientVars, connVars, daemonVars, serveVars, listening, serverPC, prompt>>
      BY <3>2 DEF HTTPEnds
    <3> QED BY <3>3, <3>4 DEF clientVars, connVars, daemonVars, serveVars
  <2>14. ASSUME NEW l \in Listeners, Receive(l) PROVE TypeOK'
    BY <2>14 DEF Receive
  <2>15. CASE Tick
    BY <2>15 DEF Tick, Down
  <2>16. CASE Terminated
    BY <2>16 DEF Terminated, vars
  <2> QED BY <2>1, <2>2, <2>3, <2>4, <2>5, <2>6, <2>7, <2>8, <2>9, <2>10, <2>11, <2>12,
        <2>13, <2>14, <2>15, <2>16 DEF Next, Server, Client
<1> QED BY <1>1, <1>2, PTL DEF Spec
-----------------------------------------------------------------------------
(* The connection being handled is the only one whose command can be under *)
(* way: the server waits for it.                                           *)
OneCommand ==
    /\ running \subseteq {accepted}
    /\ running # {} => serverPC = "await" /\ reply = "none"
    /\ serverPC \in {"accept", "read", "returned"} => request = "nothing" /\ reply = "none"
    /\ serverPC = "request" => reply = "none"
    /\ serverPC = "await" => request = "command"

(* What has taken effect came with this connection or an earlier one, and  *)
(* with this one only once its answer says so.                             *)
EffectsSoFar ==
    /\ \A j \in Executed : j <= accepted
    /\ (serverPC \in {"read", "request"} \/ running # {}) => accepted \notin Executed
    /\ (serverPC \in {"await", "write"} /\ request = "command") =>
          /\ reply = "ok" => accepted \in Executed
          /\ reply = "error" => accepted \notin Executed
    /\ (serverPC = "write" /\ accepted \in Executed) => request = "command"

(* Only a connection that has been handled has been answered. *)
AnswersSoFar ==
    \A i \in Clients :
        client[i] \in {"ok", "error"} =>
            \/ i < accepted
            \/ i = accepted /\ serverPC \in {"accept", "returned"}

ConnInv == TypeOK /\ OneCommand /\ EffectsSoFar /\ AnswersSoFar /\ InConnectionOrder /\ AnswerIsTrue

(* A command that takes effect comes last and changes nothing else. *)
LEMMA AppendEffect ==
    ASSUME TypeOK, InConnectionOrder, NEW i \in Clients, \A j \in Executed : j < i,
           executed' = Append(executed, i)
    PROVE  InConnectionOrder' /\ Executed' = Executed \cup {i}
<1>1. Len(executed') = Len(executed) + 1 /\ executed'[Len(executed) + 1] = i
  BY DEF TypeOK
<1>2. \A a \in DOMAIN executed : executed'[a] = executed[a] /\ executed[a] \in Executed /\ executed[a] \in Clients
  BY DEF TypeOK, Executed
<1>3. DOMAIN executed = 1..Len(executed) /\ DOMAIN executed' = 1..(Len(executed) + 1) /\ Len(executed) \in Nat
  BY DEF TypeOK
<1>4. InConnectionOrder'
  <2> SUFFICES ASSUME NEW a \in DOMAIN executed', NEW b \in DOMAIN executed', a < b
               PROVE  executed'[a] < executed'[b]
    BY DEF InConnectionOrder
  <2>1. a \in DOMAIN executed
    BY <1>3
  <2>2. CASE b \in DOMAIN executed
    BY <2>1, <2>2, <1>2 DEF InConnectionOrder
  <2>3. CASE b = Len(executed) + 1
    BY <2>1, <2>3, <1>1, <1>2
  <2> QED BY <2>2, <2>3, <1>3
<1>5. Executed' = Executed \cup {i}
  <2>1. Executed' \subseteq Executed \cup {i}
    <3> SUFFICES ASSUME NEW a \in DOMAIN executed' PROVE executed'[a] \in Executed \cup {i}
      BY DEF Executed
    <3>1. CASE a \in DOMAIN executed
      BY <3>1, <1>2
    <3>2. CASE a = Len(executed) + 1
      BY <3>2, <1>1
    <3> QED BY <3>1, <3>2, <1>3
  <2>2. i \in Executed'
    <3>1. Len(executed) + 1 \in DOMAIN executed'
      BY <1>3
    <3> QED BY <3>1, <1>1 DEF Executed
  <2>3. Executed \subseteq Executed'
    <3> SUFFICES ASSUME NEW a \in DOMAIN executed PROVE executed[a] \in Executed'
      BY DEF Executed
    <3>1. a \in DOMAIN executed'
      BY <1>3
    <3> QED BY <3>1, <1>2 DEF Executed
  <2> QED BY <2>1, <2>2, <2>3
<1> QED BY <1>4, <1>5

LEMMA ExecutedUnchanged ==
    ASSUME UNCHANGED executed PROVE Executed' = Executed /\ InConnectionOrder' = InConnectionOrder
  BY DEF Executed, InConnectionOrder

LEMMA ConnInductive == ASSUME ConnInv, [Next]_vars, TypeOK' PROVE ConnInv'
<1> USE DEF ConnInv, OneCommand, EffectsSoFar, AnswersSoFar, AnswerIsTrue, Goes, Becomes, Leaves
<1> accepted \in Int /\ accepted' \in Int /\ \A i \in Clients : i \in Int
  BY DEF TypeOK, Clients
<1> client \in [Clients -> {"new", "connected", "waiting"} \cup Gone]
  BY DEF TypeOK
<1> Executed \subseteq Clients
  BY DEF TypeOK, Executed
<1>1. CASE UNCHANGED vars
  BY <1>1, ExecutedUnchanged DEF vars
<1>2. CASE Client
  <2>1. UNCHANGED <<connVars, daemonVars, serverPC>>
    BY <1>2 DEF Client, Connect, ConnectLate, SendLate, ReadFails, GiveUp
  <2>2. \A i \in Clients : client'[i] \in {"ok", "error"} => client'[i] = client[i]
    BY <1>2 DEF Client, Connect, ConnectLate, SendLate, ReadFails, GiveUp
  <2> QED BY <2>1, <2>2, ExecutedUnchanged
<1>3. CASE Accept
  <2> USE <1>3 DEF Accept
  <2>1. running' = {} /\ Executed' = Executed /\ InConnectionOrder'
    BY ExecutedUnchanged
  <2>2. OneCommand'
    BY <2>1
  <2>3. EffectsSoFar'
    <3>1. \A j \in Executed : j <= accepted + 1 /\ j # accepted + 1
      OBVIOUS
    <3> QED BY <2>1, <3>1
  <2>4. AnswersSoFar'
    <3>1. client' = client /\ accepted' = accepted + 1
      OBVIOUS
    <3>2. \A i \in Clients : client[i] \in {"ok", "error"} => i < accepted + 1
      OBVIOUS
    <3> QED BY <3>1, <3>2 
  <2>5. AnswerIsTrue'
    BY <2>1
  <2> QED BY <2>1, <2>2, <2>3, <2>4, <2>5
<1>4. CASE AcceptClosed \/ AcceptFails
  BY <1>4, ExecutedUnchanged DEF AcceptClosed, AcceptFails, ServeEnds
<1>5. CASE ReadRequest
  BY <1>5, ExecutedUnchanged DEF ReadRequest
<1>6. CASE RejectRequest
  BY <1>6, ExecutedUnchanged DEF RejectRequest, Arrived, ConnEnds
<1>7. CASE ReadGivesUp
  BY <1>7, ExecutedUnchanged DEF ReadGivesUp, ConnEnds
<1>8. CASE Request \/ RequestCommand
  <2>1. Executed' = Executed /\ InConnectionOrder' /\ UNCHANGED <<client, accepted, request>>
    BY <1>8, ExecutedUnchanged DEF Request, RequestCommand
  <2>2. serverPC = "request" /\ running = {} /\ accepted \notin Executed /\ reply = "none"
    BY <1>8 DEF Request, RequestCommand
  <2>3. AnswersSoFar' /\ \A i \in Clients : client[i] = "error" => i # accepted
    BY <2>1, <2>2, <1>8 DEF Request, RequestCommand
  <2>4. CASE Request
    BY <2>1, <2>2, <2>3, <2>4 DEF Request
  <2>5. CASE RequestCommand
    BY <2>1, <2>2, <2>3, <2>5 DEF RequestCommand
  <2> QED BY <1>8, <2>4, <2>5
<1>9. CASE Await
  <2> USE <1>9 DEF Await
  <2>1. Executed' = Executed /\ InConnectionOrder'
    BY ExecutedUnchanged
  <2>2. UNCHANGED <<client, accepted, reply, running, request>>
    OBVIOUS
  <2>3. OneCommand' /\ EffectsSoFar'
    BY <2>1, <2>2
  <2>4. AnswersSoFar' /\ AnswerIsTrue'
    BY <2>1, <2>2
  <2> QED BY <2>1, <2>3, <2>4
<1>10. CASE Write
  <2> USE <1>10 DEF Write, ConnEnds
  <2>1. running' = {} /\ Executed' = Executed /\ InConnectionOrder' /\ accepted' = accepted
    BY ExecutedUnchanged
  <2>2. \A i \in Clients : client'[i] = client[i] \/ (i = accepted /\ client'[i] = Answer)
    OBVIOUS
  <2>3. OneCommand' /\ EffectsSoFar' /\ AnswersSoFar'
    BY <2>1, <2>2
  <2>4. AnswerIsTrue'
    BY <2>1, <2>2 DEF Answer
  <2> QED BY <2>1, <2>3, <2>4
<1>11. ASSUME NEW i \in Clients, Effect(i) PROVE ConnInv'
  <2>1. i = accepted /\ serverPC = "await" /\ \A j \in Executed : j < i
    BY <1>11 DEF Effect
  <2>2. CASE reply' = "error" /\ UNCHANGED executed
    BY <1>11, <2>1, <2>2, ExecutedUnchanged DEF Effect
  <2>3. CASE reply' = "ok" /\ executed' = Append(executed, i)
    <3>1. InConnectionOrder' /\ Executed' = Executed \cup {i}
      BY <2>1, <2>3, AppendEffect
    <3>2. running' = {} /\ UNCHANGED <<client, accepted, serverPC, request>>
      BY <1>11, <2>1 DEF Effect
    <3>3. OneCommand' /\ EffectsSoFar' /\ AnswersSoFar'
      BY <2>1, <2>3, <3>1, <3>2
    <3>4. AnswerIsTrue'
      BY <2>1, <3>1, <3>2
    <3> QED BY <3>1, <3>3, <3>4
  <2> QED BY <1>11, <2>2, <2>3 DEF Effect
<1>12. CASE CloseListener \/ CloseConn \/ Cancel
  BY <1>12, ExecutedUnchanged DEF CloseListener, CloseConn, Cancel
<1>13. CASE HTTPCloses \/ HTTPFails
  BY <1>13, ExecutedUnchanged DEF HTTPCloses, HTTPFails, HTTPEnds
<1>14. ASSUME NEW l \in Listeners, Receive(l) PROVE ConnInv'
  BY <1>14, ExecutedUnchanged DEF Receive
<1>15. CASE Tick
  BY <1>15, ExecutedUnchanged DEF Tick
<1>16. CASE Terminated
  BY <1>16, ExecutedUnchanged DEF Terminated, vars
<1> QED BY <1>1, <1>2, <1>3, <1>4, <1>5, <1>6, <1>7, <1>8, <1>9, <1>10, <1>11, <1>12,
      <1>13, <1>14, <1>15, <1>16 DEF Next, Server, Client

LEMMA ConnInvariant == Spec => []ConnInv
<1>1. Init => ConnInv
  <2> SUFFICES ASSUME Init PROVE ConnInv
    OBVIOUS
  <2>1. TypeOK
    BY TypesAtFirst
  <2>2. Executed = {} /\ InConnectionOrder
    BY DEF Init, Executed, InConnectionOrder
  <2> QED BY <2>1, <2>2 DEF Init, ConnInv, OneCommand, EffectsSoFar, AnswersSoFar, AnswerIsTrue
<1>2. ConnInv /\ TypeOK' /\ [Next]_vars => ConnInv'
  BY ConnInductive
<1> QED BY <1>1, <1>2, TypeCorrect, PTL DEF Spec

(* Every command has a goroutine of its own, and yet they take effect in   *)
(* the order of their connections, each at most once.                      *)
THEOREM CommandsInOrder == Spec => []InConnectionOrder
<1>1. ConnInv => InConnectionOrder
  BY DEF ConnInv
<1> QED BY <1>1, ConnInvariant, PTL

(* A command that a client was told to have succeeded has taken effect,    *)
(* one that it was told to have failed never does.                         *)
THEOREM AnswersAreTrue == Spec => []AnswerIsTrue
<1>1. ConnInv => AnswerIsTrue
  BY DEF ConnInv
<1> QED BY <1>1, ConnInvariant, PTL
-----------------------------------------------------------------------------
(* Until the context is done, the connection being handled is open; the    *)
(* client of a request that was read, or may yet be read, waits for the    *)
(* answer, unless its own deadline has passed.                             *)
Handling == serverPC \in {"read", "request", "await", "write"}

Unread(i) == sent[i] # "nothing" /\ (i > accepted \/ (i = accepted /\ serverPC = "read"))

Patient(i) == client[i] \in {"waiting", "impatient"}

ClientIsThere ==
    /\ \A i \in Clients : i > connected => sent[i] = "nothing" /\ client[i] = "new"
    /\ listening \/ serverPC = "returned"
    /\ Handling => open
    /\ serverPC # "returned" => \A i \in Clients : Unread(i) => Patient(i)
    /\ serverPC \in {"request", "await"} => Patient(accepted)
    /\ (serverPC = "write" /\ request = "command") => Patient(accepted)

AnsweredInv == ConnInv /\ (~ctxDone => ClientIsThere) /\ EffectIsAnswered

LEMMA StillRunning == ASSUME [Next]_vars, ctxDone, TypeOK PROVE ctxDone'
<1> USE DEF vars
<1>1. CASE Client
  BY <1>1 DEF Client, Connect, ConnectLate, SendLate, ReadFails, GiveUp
<1>2. CASE Server
  BY <1>2 DEF Server, Accept, AcceptClosed, ServeEnds, ReadRequest, RejectRequest, ReadGivesUp,
    Request, RequestCommand, Await, Write
<1>3. CASE AcceptFails \/ CloseListener \/ CloseConn \/ HTTPCloses \/ HTTPFails \/ Cancel
  BY <1>3 DEF AcceptFails, ServeEnds, CloseListener, CloseConn, HTTPCloses, HTTPFails, HTTPEnds, Cancel
<1>4. CASE (\E i \in Clients : Effect(i)) \/ (\E l \in Listeners : Receive(l)) \/ Tick \/ Terminated
  BY <1>4 DEF Effect, Receive, Tick, Terminated
<1> QED BY <1>1, <1>2, <1>3, <1>4 DEF Next, Client

LEMMA AnsweredInductive == ASSUME AnsweredInv, [Next]_vars, ConnInv' PROVE AnsweredInv'
<1> SUFFICES ASSUME ~ctxDone' PROVE ClientIsThere' /\ EffectIsAnswered'
  BY DEF AnsweredInv, EffectIsAnswered
<1>0. ~ctxDone
  BY StillRunning DEF AnsweredInv, ConnInv
<1> USE DEF Handling, Unread, Patient, Goes, Becomes, Leaves
<1>1. ClientIsThere /\ EffectIsAnswered /\ TypeOK /\ ConnInv
  BY <1>0 DEF AnsweredInv, ConnInv
<1> DEFINE Quiet(i) ==
             \/ client[i] \in {"ok", "impatient"}
             \/ (client[i] = "waiting" /\ i = accepted /\ serverPC \in {"await", "write"})
<1>2. \A i \in Executed : Quiet(i)
  <2> SUFFICES ASSUME NEW i \in Executed PROVE Quiet(i)
    OBVIOUS
  <2>1. i \in Clients /\ ctxDone \in BOOLEAN
    BY <1>1 DEF TypeOK, Executed
  <2> QED BY <1>0, <1>1, <2>1 DEF EffectIsAnswered
<1>3. (\A i \in Executed' : Quiet(i)') => EffectIsAnswered'
  BY DEF EffectIsAnswered
<1>4a. accepted' \in Int /\ connected' \in Int
  <2>1. TypeOK'
    BY DEF ConnInv
  <2>2. connected' \in 0..MaxClients /\ accepted' \in 0..connected'
    BY <2>1 DEF TypeOK
  <2> QED BY <2>2, IPCAssumption
<1>4. /\ accepted \in Int /\ accepted' \in Int /\ connected \in Int /\ connected' \in Int
      /\ accepted <= connected /\ \A i \in Clients : i \in Int
      /\ client \in [Clients -> {"new", "connected", "waiting"} \cup Gone]
      /\ sent \in [Clients -> Requests \cup {"nothing"}]
      /\ Handling => accepted \in Clients
  BY <1>1, <1>4a, IPCAssumption DEF TypeOK, Clients
<1>5. /\ Executed \subseteq Clients /\ \A i \in Executed : i <= accepted
      /\ serverPC \in {"read", "request"} => accepted \notin Executed
  <2>1. Executed \subseteq Clients
    BY <1>1 DEF TypeOK, Executed
  <2> QED BY <1>1, <2>1 DEF ConnInv, EffectsSoFar
<1> USE <1>0, <1>4, <1>5
<1>6. CASE UNCHANGED vars
  <2>1. /\ UNCHANGED <<connected, client, sent, accepted, listening, open, request, serverPC>>
        /\ Executed' = Executed
    BY <1>6, ExecutedUnchanged DEF vars
  <2>2. ClientIsThere'
    BY <1>1, <2>1 DEF ClientIsThere
  <2> QED BY <1>2, <1>3, <2>1, <2>2
<1>7. ASSUME Connect \/ ConnectLate PROVE ClientIsThere' /\ EffectIsAnswered'
  <2>1. PICK n \in Clients :
          /\ n = connected + 1 /\ connected' = n
          /\ UNCHANGED <<accepted, serverPC, open, listening, request>>
          /\ Executed' = Executed
          /\ \A i \in Clients : i # n => client'[i] = client[i] /\ sent'[i] = sent[i]
          /\ client'[n] = "waiting" \/ sent'[n] = sent[n]
    BY <1>7, ExecutedUnchanged DEF Connect, ConnectLate, Sends
  <2>2. sent[n] = "nothing" /\ n > accepted /\ n \notin Executed
    BY <1>1, <2>1 DEF ClientIsThere
  <2>3. ClientIsThere'
    BY <1>1, <2>1, <2>2 DEF ClientIsThere
  <2> QED BY <1>2, <1>3, <2>1, <2>2, <2>3
<1>8. ASSUME NEW n \in Clients, SendLate(n) PROVE ClientIsThere' /\ EffectIsAnswered'
  <2>1. /\ UNCHANGED <<connected, accepted, serverPC, open, listening, request>>
        /\ Executed' = Executed /\ client[n] = "connected"
        /\ \A i \in Clients : i # n => client'[i] = client[i] /\ sent'[i] = sent[i]
        /\ client'[n] = "waiting" \/ sent'[n] = sent[n]
    BY <1>8, ExecutedUnchanged DEF SendLate, Sends
  <2>2. n <= connected /\ (Unread(n) => serverPC = "returned") /\ n \notin Executed
    BY <1>1, <1>2, <2>1 DEF ClientIsThere
  <2>3. ClientIsThere'
    BY <1>1, <2>1, <2>2 DEF ClientIsThere
  <2> QED BY <1>2, <1>3, <2>1, <2>2, <2>3
<1>9. ASSUME NEW n \in Clients, ReadFails(n) PROVE ClientIsThere' /\ EffectIsAnswered'
  <2>1. /\ UNCHANGED <<connected, accepted, serverPC, open, listening, request, sent>>
        /\ Executed' = Executed /\ client[n] = "waiting" /\ ClosedByServer(n)
        /\ \A i \in Clients : i # n => client'[i] = client[i]
    BY <1>9, ExecutedUnchanged DEF ReadFails
  <2>2. n <= connected /\ (Unread(n) => serverPC = "returned") /\ (Handling => n # accepted)
    BY <1>1, <2>1 DEF ClientIsThere, ClosedByServer
  <2>3. n \notin Executed
    BY <1>2, <2>1, <2>2
  <2>4. ClientIsThere'
    BY <1>1, <2>1, <2>2 DEF ClientIsThere
  <2> QED BY <1>2, <1>3, <2>1, <2>3, <2>4
<1>10. ASSUME NEW n \in Clients, GiveUp(n) PROVE ClientIsThere' /\ EffectIsAnswered'
  <2>1. /\ UNCHANGED <<connected, accepted, serverPC, open, listening, request, sent>>
        /\ Executed' = Executed /\ client[n] = "waiting" /\ client'[n] = "impatient"
        /\ \A i \in Clients : i # n => client'[i] = client[i]
    BY <1>10, ExecutedUnchanged DEF GiveUp
  <2>2. ClientIsThere'
    BY <1>1, <2>1 DEF ClientIsThere
  <2> QED BY <1>2, <1>3, <2>1, <2>2
<1>11. CASE Accept
  <2>1. /\ UNCHANGED <<connected, client, sent, listening, request>> /\ Executed' = Executed
        /\ accepted' = accepted + 1 /\ serverPC = "accept" /\ serverPC' = "read" /\ open'
    BY <1>11, ExecutedUnchanged DEF Accept
  <2>2. \A i \in Clients : Unread(i)' => Unread(i)
    BY <2>1
  <2>3. ClientIsThere'
    BY <1>1, <2>1, <2>2 DEF ClientIsThere
  <2> QED BY <1>2, <1>3, <2>1, <2>3
<1>12. CASE AcceptFails
  <2>1. /\ UNCHANGED <<connected, client, sent, accepted, request>> /\ Executed' = Executed
        /\ serverPC = "accept" /\ serverPC' = "returned"
    BY <1>12, ExecutedUnchanged DEF AcceptFails, ServeEnds
  <2>2. ClientIsThere'
    BY <1>1, <2>1 DEF ClientIsThere
  <2> QED BY <1>2, <1>3, <2>1, <2>2
<1>13. CASE ReadRequest
  <2>1. /\ UNCHANGED <<connected, client, accepted, open, listening>> /\ Executed' = Executed
        /\ serverPC = "read" /\ serverPC' = "request" /\ sent[accepted] # "nothing"
        /\ \A i \in Clients : i # accepted => sent'[i] = sent[i]
        /\ \A i \in Clients : sent'[i] = "nothing" \/ sent'[i] = sent[i]
    BY <1>13, ExecutedUnchanged DEF ReadRequest, Arrived
  <2>2. Patient(accepted)
    BY <1>1, <2>1 DEF ClientIsThere
  <2>3. ClientIsThere'
    BY <1>1, <2>1, <2>2 DEF ClientIsThere
  <2> QED BY <1>2, <1>3, <2>1, <2>3
<1>14. CASE RejectRequest
  <2>1. /\ UNCHANGED <<connected, client, accepted, open, listening, request>> /\ Executed' = Executed
        /\ serverPC = "read" /\ serverPC' = "write" /\ request = "nothing"
        /\ \A i \in Clients : sent'[i] = "nothing" \/ sent'[i] = sent[i]
    BY <1>1, <1>14, ExecutedUnchanged DEF RejectRequest, Arrived, ConnInv, OneCommand
  <2>2. ClientIsThere'
    BY <1>1, <2>1 DEF ClientIsThere
  <2> QED BY <1>2, <1>3, <2>1, <2>2
<1>15. CASE ReadGivesUp
  <2>1. /\ UNCHANGED <<connected, client, sent, accepted, listening>> /\ Executed' = Executed
        /\ serverPC = "read" /\ serverPC' = "accept"
    BY <1>15, ExecutedUnchanged DEF ReadGivesUp, ConnEnds
  <2>2. ClientIsThere'
    BY <1>1, <2>1 DEF ClientIsThere
  <2> QED BY <1>2, <1>3, <2>1, <2>2
<1>16. CASE Request \/ RequestCommand
  <2>1. /\ UNCHANGED <<connected, client, sent, accepted, listening, open, request>> /\ Executed' = Executed
        /\ serverPC = "request" /\ serverPC' \in {"write", "await"}
    BY <1>16, ExecutedUnchanged DEF Request, RequestCommand
  <2>2. ClientIsThere'
    BY <1>1, <2>1 DEF ClientIsThere
  <2> QED BY <1>2, <1>3, <2>1, <2>2
<1>17. CASE Await
  <2>1. /\ UNCHANGED <<connected, client, sent, accepted, listening, open, request>> /\ Executed' = Executed
        /\ serverPC = "await" /\ serverPC' = "write"
    BY <1>17, ExecutedUnchanged DEF Await
  <2>2. ClientIsThere'
    BY <1>1, <2>1 DEF ClientIsThere
  <2> QED BY <1>2, <1>3, <2>1, <2>2
<1>18. CASE Write
  <2>1. /\ UNCHANGED <<connected, sent, accepted, listening>> /\ Executed' = Executed
        /\ serverPC = "write" /\ serverPC' = "accept" /\ reply \in {"ok", "error"}
        /\ \A i \in Clients : i # accepted => client'[i] = client[i]
        /\ client'[accepted] = IF open /\ client[accepted] = "waiting" THEN Answer ELSE client[accepted]
    BY <1>1, <1>18, ExecutedUnchanged DEF Write, ConnEnds, TypeOK
  <2>2. open
    BY <1>1, <2>1 DEF ClientIsThere
  <2>3. accepted \in Executed => Quiet(accepted)'
    <3>1. accepted \in Executed /\ request = "command" => reply = "ok"
      BY <1>1, <2>1 DEF ConnInv, EffectsSoFar
    <3>2. accepted \in Executed => request = "command"
      BY <1>1, <2>1 DEF ConnInv, EffectsSoFar
    <3>3. ASSUME accepted \in Executed PROVE Quiet(accepted)'
      <4>1. Quiet(accepted) /\ Answer = "ok"
        BY <1>2, <3>1, <3>2, <3>3 DEF Answer
      <4>2. CASE client[accepted] = "waiting"
        <5>1. client'[accepted] = "ok"
          BY <2>1, <2>2, <4>1, <4>2
        <5> QED BY <2>1, <5>1
      <4>3. CASE client[accepted] \in {"ok", "impatient"}
        <5>1. client'[accepted] = client[accepted]
          BY <2>1, <4>3
        <5> QED BY <2>1, <4>3, <5>1
      <4> QED BY <4>1, <4>2, <4>3
    <3> QED BY <3>3
  <2>4. ClientIsThere'
    BY <1>1, <2>1 DEF ClientIsThere
  <2> QED BY <1>2, <1>3, <2>1, <2>3, <2>4
<1>19. ASSUME NEW n \in Clients, Effect(n) PROVE ClientIsThere' /\ EffectIsAnswered'
  <2>1. /\ UNCHANGED <<connected, client, sent, accepted, listening, open, request, serverPC>>
        /\ n = accepted /\ serverPC = "await"
    BY <1>1, <1>19 DEF Effect, ConnInv, OneCommand
  <2>2. Executed' \subseteq Executed \cup {n}
    <3>1. \A j \in Executed : j < n
      BY <1>1, <1>19, <2>1 DEF ConnInv, EffectsSoFar, Effect
    <3>2. InConnectionOrder /\ TypeOK
      BY <1>1 DEF ConnInv
    <3>3. CASE executed' = Append(executed, n)
      BY <3>1, <3>2, <3>3, AppendEffect
    <3>4. CASE UNCHANGED executed
      BY <3>4, ExecutedUnchanged
    <3> QED BY <1>19, <3>3, <3>4 DEF Effect
  <2>3. Patient(n) /\ ClientIsThere'
    BY <1>1, <2>1 DEF ClientIsThere
  <2> QED BY <1>2, <1>3, <2>1, <2>2, <2>3
<1>20. CASE HTTPFails \/ Tick \/ Terminated \/ \E l \in Listeners : Receive(l)
  <2>1. /\ UNCHANGED <<connected, client, sent, accepted, listening, open, request, serverPC>>
        /\ UNCHANGED executed
    BY <1>20 DEF HTTPFails, HTTPEnds, Tick, Terminated, Receive, vars
  <2>2. ClientIsThere'
    BY <1>1, <2>1 DEF ClientIsThere
  <2> QED BY <1>2, <1>3, <2>1, <2>2, ExecutedUnchanged
<1>21. ~CloseListener /\ ~CloseConn /\ ~HTTPCloses /\ ~AcceptClosed /\ ~Cancel
  BY <1>0 DEF CloseListener, CloseConn, HTTPCloses, AcceptClosed, Cancel
<1> QED BY <1>6, <1>7, <1>8, <1>9, <1>10, <1>11, <1>12, <1>13, <1>14, <1>15, <1>16, <1>17,
      <1>18, <1>19, <1>20, <1>21 DEF Next, Server

LEMMA AnsweredInvariant == Spec => []AnsweredInv
<1>1. Init => EffectIsAnswered /\ ClientIsThere
  <2> SUFFICES ASSUME Init PROVE EffectIsAnswered /\ ClientIsThere
    OBVIOUS
  <2>1. Executed = {}
    BY DEF Init, Executed
  <2> QED BY <2>1 DEF Init, EffectIsAnswered, ClientIsThere, Handling, Unread, Patient
<1>2. Init /\ ConnInv => AnsweredInv
  BY <1>1 DEF AnsweredInv
<1>3. AnsweredInv /\ [Next]_vars /\ ConnInv' => AnsweredInv'
  BY AnsweredInductive
<1> QED BY <1>2, <1>3, ConnInvariant, PTL DEF Spec

(* The client of a command that took effect is told so, unless it has      *)
(* given up or the daemon ends.                                            *)
THEOREM EffectsAreAnswered == Spec => []EffectIsAnswered
<1>1. AnsweredInv => EffectIsAnswered
  BY DEF AnsweredInv
<1> QED BY <1>1, AnsweredInvariant, PTL
-----------------------------------------------------------------------------
(* A listener's result says how it ended, and serve's error is the error   *)
(* of one whose result it has received.                                    *)
FailureInv ==
    /\ \A l \in received : result[l] # "running"
    /\ \A l \in received : result[l] = "err" => serveErr # "nil" /\ ctxDone
    /\ serveErr # "nil" => serveErr \in received /\ result[serveErr] = "err"
    /\ \A l \in Listeners : result[l] = "nil" => ctxDone
    /\ serverPC # "returned" => result["socket"] = "running"

LEMMA FailureInductive == ASSUME FailureInv, TypeOK, TypeOK', [Next]_vars PROVE FailureInv'
<1> USE DEF Goes, FailureInv, vars
<1>0. "nil" \notin Listeners /\ received \subseteq Listeners /\ "socket" \in Listeners
      /\ result \in [Listeners -> {"running", "nil", "err"}]
  BY DEF TypeOK, Listeners
<1>1. ctxDone => ctxDone'
  BY StillRunning
<1>2. CASE UNCHANGED <<result, received, serveErr>> /\ (serverPC' = "returned" <=> serverPC = "returned")
  BY <1>0, <1>1, <1>2
<1>3. CASE Client \/ UNCHANGED vars
  BY <1>2, <1>3 DEF Client, Connect, ConnectLate, SendLate, ReadFails, GiveUp
<1>4. CASE Accept \/ ReadRequest \/ RejectRequest \/ ReadGivesUp \/ Request \/ RequestCommand \/ Await \/ Write
  BY <1>2, <1>4 DEF Accept, ReadRequest, RejectRequest, ReadGivesUp, Request, RequestCommand, Await, Write
<1>5. CASE AcceptClosed \/ AcceptFails
  <2>1. /\ UNCHANGED <<received, serveErr, ctxDone>>
        /\ result["socket"] = "running" /\ serverPC' = "returned"
        /\ \A l \in Listeners : l # "socket" => result'[l] = result[l]
        /\ result'["socket"] = "err" \/ (result'["socket"] = "nil" /\ ctxDone)
    BY <1>0, <1>5 DEF AcceptClosed, AcceptFails, ServeEnds
  <2> QED BY <1>0, <2>1
<1>6. CASE HTTPCloses \/ HTTPFails
  <2>1. "http" \in Listeners
    BY <1>6 DEF HTTPCloses, HTTPFails, HTTPEnds, Listeners
  <2>2. /\ UNCHANGED <<received, serveErr, ctxDone, serverPC>>
        /\ result["http"] = "running"
        /\ \A l \in Listeners : l # "http" => result'[l] = result[l]
        /\ result'["http"] = "err" \/ (result'["http"] = "nil" /\ ctxDone)
    BY <1>0, <1>6, <2>1 DEF HTTPCloses, HTTPFails, HTTPEnds
  <2> QED BY <1>0, <2>1, <2>2
<1>7. CASE (\E i \in Clients : Effect(i)) \/ CloseListener \/ CloseConn \/ Cancel \/ Tick \/ Terminated
  BY <1>2, <1>7 DEF Effect, CloseListener, CloseConn, Cancel, Tick, Terminated
<1>8. ASSUME NEW l \in Listeners, Receive(l) PROVE FailureInv'
  BY <1>0, <1>8 DEF Receive
<1> QED BY <1>3, <1>4, <1>5, <1>6, <1>7, <1>8 DEF Next, Server, Client

(* Serve returns an error if and only if one of its listeners failed, and  *)
(* without one only after the daemon was told to end.                      *)
THEOREM FailuresAreReported == Spec => []FailureReported
<1>1. Init => FailureInv
  BY DEF Init, FailureInv, Listeners
<1>2. FailureInv /\ TypeOK /\ TypeOK' /\ [Next]_vars => FailureInv'
  BY FailureInductive
<1>3. FailureInv /\ TypeOK => FailureReported
  BY DEF FailureInv, FailureReported, TypeOK, Listeners
<1> QED BY <1>1, <1>2, <1>3, TypeCorrect, PTL DEF Spec
-----------------------------------------------------------------------------
(* What a client is told is what was done, and it is told.                 *)
THEOREM ClientAndDaemonAgree == Spec => []AnswersAgree
  BY AnswersAreTrue, EffectsAreAnswered, PTL DEF AnswersAgree
-----------------------------------------------------------------------------
(* Where no step takes time, time passes only while a late client is being *)
(* waited for: what a client has waited, with what is left of the server's *)
(* deadline for the late one before it, is at most one deadline for every  *)
(* late client before it that was accepted.                                *)
LateBefore(i) == {j \in late : j < i /\ j <= accepted}

Remaining(i) == IF serverPC = "read" /\ accepted \in late /\ accepted < i THEN deadline ELSE 0

WaitIsBounded ==
    \A i \in Clients :
        client[i] = "waiting" =>
            ResponseTimeout - patience[i] + Remaining(i) <= RequestTimeout * Cardinality(LateBefore(i))

(* A client that has not been read yet has its request on the way, or is   *)
(* late; without a connection being handled, none is open.                 *)
Pending(i) == i > accepted \/ (i = accepted /\ serverPC = "read")

ClientsInPlace ==
    /\ \A i \in Clients : client[i] = "new" <=> i > connected
    /\ \A i \in late : i <= connected
    /\ \A i \in Clients : client[i] = "connected" => i \in late
    /\ \A i \in Clients :
          Pending(i) => client[i] \notin {"ok", "error", "answered"} /\ (Patient(i) => sent[i] # "nothing")
    /\ open => Handling
    /\ serverPC = "returned" => ~listening

PatienceInv == ClientsInPlace /\ (prompt => WaitIsBounded) /\ PatienceSuffices

(* Some of the clients are finitely many. *)
LEMMA SomeClients ==
    ASSUME NEW S \in SUBSET Clients
    PROVE  IsFiniteSet(S) /\ Cardinality(S) \in Nat
<1>1. IsFiniteSet(Clients)
  BY IPCAssumption, FS_Interval DEF Clients
<1> QED BY <1>1, FS_Subset, FS_CardinalityType

LEMMA LateIsFinite ==
    ASSUME TypeOK, NEW i \in Clients
    PROVE  IsFiniteSet(LateBefore(i)) /\ Cardinality(LateBefore(i)) \in Nat
<1>1. LateBefore(i) \in SUBSET Clients
  BY DEF LateBefore, TypeOK
<1> QED BY <1>1, SomeClients

(* The places of the clients, in the words that their preservation needs. *)
LEMMA Places ==
    ASSUME TypeOK
    PROVE  /\ connected \in Nat /\ accepted \in Nat /\ accepted <= connected
           /\ Clients \subseteq Nat /\ late \subseteq Clients
           /\ client \in [Clients -> {"new", "connected", "waiting"} \cup Gone]
           /\ sent \in [Clients -> Requests \cup {"nothing"}]
           /\ patience \in [Clients -> 0..ResponseTimeout]
           /\ ResponseTimeout \in Nat /\ RequestTimeout \in Nat
           /\ deadline \in 0..RequestTimeout
  BY IPCAssumption DEF TypeOK, Clients

LEMMA PlacesInductive == ASSUME ClientsInPlace, TypeOK, TypeOK', [Next]_vars PROVE ClientsInPlace'
<1> USE DEF ClientsInPlace, Pending, Patient, Handling, Goes, Becomes, Leaves
<1> USE Places
<1>0. connected' \in Nat /\ accepted' \in Nat /\ late' \subseteq Clients
  BY IPCAssumption DEF TypeOK
<1> USE <1>0
<1>1. CASE UNCHANGED vars
  BY <1>1 DEF vars
<1>2. CASE Connect \/ ConnectLate
  <2>1. PICK n \in Clients :
          /\ n = connected + 1 /\ connected' = n
          /\ UNCHANGED <<accepted, serverPC, open, listening>>
          /\ \A i \in Clients : i # n => client'[i] = client[i] /\ sent'[i] = sent[i]
          /\ late \subseteq late' /\ late' \subseteq late \cup {n}
          /\ \/ client'[n] = "waiting" /\ sent'[n] # "nothing"
             \/ client'[n] = "connected" /\ n \in late'
    BY <1>2 DEF Connect, ConnectLate, Sends
  <2>2. \A i \in Clients : client'[i] = "new" <=> i > connected'
    BY <2>1
  <2>3. \A i \in Clients : client'[i] = "connected" => i \in late'
    BY <2>1
  <2>4. \A i \in late' : i <= connected'
    BY <2>1
  <2>5. \A i \in Clients :
           Pending(i)' => client'[i] \notin {"ok", "error", "answered"} /\ (Patient(i)' => sent'[i] # "nothing")
    BY <2>1
  <2> QED BY <2>1, <2>2, <2>3, <2>4, <2>5
<1>3. ASSUME NEW n \in Clients, SendLate(n) \/ ReadFails(n) \/ GiveUp(n) PROVE ClientsInPlace'
  <2>1. /\ UNCHANGED <<connected, accepted, serverPC, open, listening, late>>
        /\ client[n] \in {"connected", "waiting"}
        /\ \A i \in Clients : i # n => client'[i] = client[i] /\ sent'[i] = sent[i]
        /\ \/ client'[n] = "waiting" /\ sent'[n] # "nothing"
           \/ client'[n] = "failed"
           \/ client[n] = "waiting" /\ client'[n] = "impatient" /\ sent'[n] = sent[n]
    BY <1>3 DEF SendLate, ReadFails, GiveUp, Sends
  <2> QED BY <2>1
<1>4. CASE Accept
  BY <1>4 DEF Accept
<1>5. CASE AcceptClosed \/ AcceptFails
  BY <1>5 DEF AcceptClosed, AcceptFails, ServeEnds
<1>6. CASE ReadRequest \/ RejectRequest
  <2>1. /\ UNCHANGED <<connected, client, late, accepted, listening>>
        /\ serverPC = "read" /\ serverPC' # "read" /\ serverPC' # "returned"
        /\ \A i \in Clients : i # accepted => sent'[i] = sent[i]
        /\ open' => serverPC' \in {"request", "write"}
    BY <1>6 DEF ReadRequest, RejectRequest, Arrived, ConnEnds
  <2> QED BY <2>1
<1>7. CASE ReadGivesUp
  BY <1>7 DEF ReadGivesUp, ConnEnds
<1>8. CASE Request \/ RequestCommand \/ Await
  BY <1>8 DEF Request, RequestCommand, Await
<1>9. CASE Write
  <2>1. /\ UNCHANGED <<connected, sent, late, accepted, listening>>
        /\ serverPC = "write" /\ serverPC' = "accept" /\ ~open'
        /\ \A i \in Clients : client'[i] # client[i] =>
              i = accepted /\ client[i] = "waiting" /\ client'[i] \in {"ok", "error", "answered"}
    <3>1. reply \in {"ok", "error"}
      BY <1>9 DEF Write, TypeOK
    <3> QED BY <1>9, <3>1 DEF Write, ConnEnds, Answer
  <2> QED BY <2>1
<1>10. CASE CloseListener \/ CloseConn \/ HTTPCloses \/ HTTPFails \/ Cancel \/ Tick \/ Terminated
  BY <1>10 DEF CloseListener, CloseConn, HTTPCloses, HTTPFails, HTTPEnds, Cancel, Tick, Terminated, vars
<1>11. CASE (\E i \in Clients : Effect(i)) \/ (\E l \in Listeners : Receive(l))
  BY <1>11 DEF Effect, Receive
<1> QED BY <1>1, <1>2, <1>3, <1>4, <1>5, <1>6, <1>7, <1>8, <1>9, <1>10, <1>11 DEF Next, Server

(* A step that takes no time, and after which no more is left of the       *)
(* server's deadline for a late client, keeps the bound.                   *)
LEMMA WaitKept ==
    ASSUME WaitIsBounded, TypeOK, TypeOK',
           \A i \in Clients : client'[i] = "waiting" =>
              /\ client[i] = "waiting" /\ patience'[i] = patience[i]
              /\ LateBefore(i)' = LateBefore(i)
              /\ Remaining(i)' = 0 \/ Remaining(i)' = Remaining(i)
    PROVE  WaitIsBounded'
<1> SUFFICES ASSUME NEW i \in Clients, client'[i] = "waiting"
             PROVE  ResponseTimeout - patience'[i] + Remaining(i)' <= RequestTimeout * Cardinality(LateBefore(i)')
  BY DEF WaitIsBounded
<1>1. ResponseTimeout - patience[i] + Remaining(i) <= RequestTimeout * Cardinality(LateBefore(i))
  BY DEF WaitIsBounded
<1>2. Remaining(i) \in Nat /\ patience[i] \in Nat /\ ResponseTimeout \in Nat
  BY Places DEF Remaining
<1>3. RequestTimeout * Cardinality(LateBefore(i)) \in Nat
  BY LateIsFinite, Places
<1> QED BY <1>1, <1>2, <1>3

(* A client that has just sent its request has not waited. *)
LEMMA JustSent ==
    ASSUME TypeOK', NEW i \in Clients, patience'[i] = ResponseTimeout
    PROVE  ResponseTimeout - patience'[i] + Remaining(i)' <= RequestTimeout * Cardinality(LateBefore(i)')
<1> DEFINE n == Cardinality(LateBefore(i)')
<1>0. RequestTimeout \in Nat /\ ResponseTimeout \in Nat
  BY IPCAssumption
<1>1. LateBefore(i)' \in SUBSET Clients
  BY DEF LateBefore, TypeOK
<1>2. n \in Nat /\ IsFiniteSet(LateBefore(i)')
  BY <1>1, SomeClients
<1>3. CASE Remaining(i)' = 0
  BY <1>0, <1>2, <1>3
<1>4. CASE serverPC' = "read" /\ accepted' \in late' /\ accepted' < i
  <2>1. accepted' \in LateBefore(i)'
    <3>1. accepted' \in Int
      BY <1>4 DEF TypeOK, Clients
    <3> QED BY <1>4, <3>1 DEF LateBefore
  <2>2. n # 0
    BY <1>2, <2>1, FS_EmptySet
  <2>3. RequestTimeout <= RequestTimeout * n
    BY <1>0, <1>2, <2>2
  <2>4. Remaining(i)' <= RequestTimeout /\ Remaining(i)' \in Nat
    BY <1>0 DEF Remaining, TypeOK
  <2>5. RequestTimeout * n \in Nat
    BY <1>0, <1>2
  <2> HIDE DEF n
  <2> QED BY <1>0, <2>3, <2>4, <2>5 DEF n
<1> QED BY <1>3, <1>4 DEF Remaining

LEMMA WaitInductive ==
    ASSUME ClientsInPlace, WaitIsBounded, TypeOK, TypeOK', prompt, [Next]_vars
    PROVE  WaitIsBounded'
<1> USE DEF Goes, Becomes, Leaves
<1> USE Places
<1>0. connected' \in Nat /\ accepted' \in Nat /\ Clients \subseteq Nat
  BY IPCAssumption DEF TypeOK
<1>1. CASE UNCHANGED <<client, patience, late, accepted, serverPC, deadline>>
  BY <1>1, WaitKept DEF LateBefore, Remaining
<1>2. CASE Connect \/ ConnectLate
  <2>1. PICK n \in Clients :
          /\ n = connected + 1
          /\ UNCHANGED <<accepted, serverPC, deadline>>
          /\ \A i \in Clients : i # n => client'[i] = client[i] /\ patience'[i] = patience[i]
          /\ late \subseteq late' /\ late' \subseteq late \cup {n}
          /\ client'[n] = "waiting" => patience'[n] = ResponseTimeout
    BY <1>2 DEF Connect, ConnectLate, Sends
  <2> SUFFICES ASSUME NEW i \in Clients, client'[i] = "waiting"
               PROVE  ResponseTimeout - patience'[i] + Remaining(i)' <= RequestTimeout * Cardinality(LateBefore(i)')
    BY DEF WaitIsBounded
  <2>2. CASE i = n
    BY <2>1, <2>2, JustSent
  <2>3. CASE i # n
    <3>1. client[i] = "waiting" /\ i <= connected
      BY <2>1, <2>3 DEF ClientsInPlace
    <3>2. LateBefore(i)' = LateBefore(i)
      BY <2>1, <2>3, <3>1 DEF LateBefore
    <3>3. Remaining(i)' = Remaining(i)
      BY <2>1, <2>3, <3>1 DEF Remaining
    <3> QED BY <2>1, <2>3, <3>1, <3>2, <3>3 DEF WaitIsBounded
  <2> QED BY <2>2, <2>3
<1>3. ASSUME NEW n \in Clients, SendLate(n) PROVE WaitIsBounded'
  <2>1. /\ UNCHANGED <<accepted, serverPC, deadline, late>>
        /\ \A i \in Clients : i # n => client'[i] = client[i] /\ patience'[i] = patience[i]
        /\ client'[n] = "waiting" => patience'[n] = ResponseTimeout
    BY <1>3 DEF SendLate, Sends
  <2> SUFFICES ASSUME NEW i \in Clients, client'[i] = "waiting"
               PROVE  ResponseTimeout - patience'[i] + Remaining(i)' <= RequestTimeout * Cardinality(LateBefore(i)')
    BY DEF WaitIsBounded
  <2>2. CASE i = n
    BY <2>1, <2>2, JustSent
  <2>3. CASE i # n
    <3>1. LateBefore(i)' = LateBefore(i) /\ Remaining(i)' = Remaining(i)
      BY <2>1 DEF LateBefore, Remaining
    <3> QED BY <2>1, <2>3, <3>1 DEF WaitIsBounded
  <2> QED BY <2>2, <2>3
<1>4. ASSUME NEW n \in Clients, ReadFails(n) \/ GiveUp(n) PROVE WaitIsBounded'
  <2>1. /\ UNCHANGED <<accepted, serverPC, deadline, late>>
        /\ \A i \in Clients : client'[i] = "waiting" => client[i] = "waiting" /\ patience'[i] = patience[i]
    BY <1>4 DEF ReadFails, GiveUp
  <2> QED BY <2>1, WaitKept DEF LateBefore, Remaining
<1>5. CASE Accept
  <2>1. /\ UNCHANGED <<client, patience, late>> /\ accepted' = accepted + 1
        /\ serverPC = "accept" /\ serverPC' = "read" /\ deadline' = RequestTimeout
    BY <1>5 DEF Accept
  <2> SUFFICES ASSUME NEW i \in Clients, client[i] = "waiting"
               PROVE  ResponseTimeout - patience[i] + Remaining(i)' <= RequestTimeout * Cardinality(LateBefore(i)')
    BY <2>1 DEF WaitIsBounded
  <2>2. ResponseTimeout - patience[i] <= RequestTimeout * Cardinality(LateBefore(i))
    <3>1. Remaining(i) = 0
      BY <2>1 DEF Remaining
    <3>2. ResponseTimeout - patience[i] \in Int
      OBVIOUS
    <3> QED BY <3>1, <3>2 DEF WaitIsBounded
  <2>a. \A j \in late : j <= accepted' <=> j <= accepted \/ j = accepted'
    <3>1. \A j \in late : j \in Int
      BY DEF TypeOK, Clients
    <3> QED BY <2>1, <3>1
  <2>b. LateBefore(i)' = {j \in late : j < i /\ j <= accepted'}
    BY <2>1 DEF LateBefore
  <2>3. CASE accepted' \in late /\ accepted' < i
    <3>1. LateBefore(i)' = LateBefore(i) \cup {accepted'}
      BY <2>a, <2>b, <2>3 DEF LateBefore
    <3>2. accepted' \notin LateBefore(i)
      BY <2>1 DEF LateBefore
    <3>3. Cardinality(LateBefore(i)') = Cardinality(LateBefore(i)) + 1 /\ Cardinality(LateBefore(i)) \in Nat
      BY <3>1, <3>2, LateIsFinite, FS_AddElement
    <3>4. Remaining(i)' = RequestTimeout
      BY <2>1, <2>3 DEF Remaining
    <3>5. RequestTimeout * Cardinality(LateBefore(i)') = RequestTimeout * Cardinality(LateBefore(i)) + RequestTimeout
      BY <3>3
    <3>6. RequestTimeout * Cardinality(LateBefore(i)) \in Nat
      BY <3>3
    <3>7. ResponseTimeout - patience[i] \in Int
      OBVIOUS
    <3> QED BY <2>2, <3>4, <3>5, <3>6, <3>7
  <2>4. CASE ~(accepted' \in late /\ accepted' < i)
    <3>1. LateBefore(i)' = LateBefore(i)
      BY <2>a, <2>b, <2>4 DEF LateBefore
    <3>2. Remaining(i)' = 0
      BY <2>1, <2>4 DEF Remaining
    <3>3. ResponseTimeout - patience[i] + 0 = ResponseTimeout - patience[i]
      OBVIOUS
    <3> QED BY <2>2, <3>1, <3>2, <3>3
  <2> QED BY <2>3, <2>4
<1>6. CASE \/ AcceptClosed \/ AcceptFails \/ ReadRequest \/ RejectRequest \/ ReadGivesUp
            \/ Request \/ RequestCommand \/ Await
  <2>1. UNCHANGED <<client, patience, late, accepted>> /\ serverPC' # "read"
    BY <1>6 DEF AcceptClosed, AcceptFails, ServeEnds, ReadRequest, RejectRequest, ReadGivesUp, ConnEnds,
                Request, RequestCommand, Await
  <2> QED BY <2>1, WaitKept DEF LateBefore, Remaining
<1>7. CASE Write
  <2>1. /\ UNCHANGED <<late, accepted>> /\ serverPC' # "read"
        /\ \A i \in Clients : client'[i] = "waiting" => client[i] = "waiting" /\ patience'[i] = patience[i]
    <3>1. reply \in {"ok", "error"}
      BY <1>7 DEF Write, TypeOK
    <3> QED BY <1>7, <3>1 DEF Write, ConnEnds, Answer
  <2> QED BY <2>1, WaitKept DEF LateBefore, Remaining
<1>8. CASE (\E i \in Clients : Effect(i)) \/ CloseListener \/ CloseConn \/ HTTPCloses \/ HTTPFails
            \/ Cancel \/ (\E l \in Listeners : Receive(l)) \/ Terminated \/ UNCHANGED vars
  <2>1. UNCHANGED <<client, patience, late, accepted, serverPC, deadline>>
    BY <1>8 DEF Effect, CloseListener, CloseConn, HTTPCloses, HTTPFails, HTTPEnds, Cancel, Receive, Terminated, vars
  <2> QED BY <1>1, <2>1
<1>9. CASE Tick
  <2>1. ~Busy /\ UNCHANGED <<client, late, accepted, serverPC>>
    BY <1>9 DEF Tick
  <2> SUFFICES ASSUME NEW i \in Clients, client[i] = "waiting"
               PROVE  ResponseTimeout - patience'[i] + Remaining(i)' <= RequestTimeout * Cardinality(LateBefore(i)')
    BY <2>1 DEF WaitIsBounded
  <2>2. patience[i] # 0 /\ ~ClosedByServer(i) /\ i <= connected
    BY <2>1 DEF Busy, ClientsInPlace
  <2>3. patience'[i] = patience[i] - 1
    BY <1>9, <2>2 DEF Tick, Down
  <2>4. serverPC = "read"
    <3>1. CASE serverPC = "accept"
      BY <2>1, <2>2, <3>1 DEF Busy, ClosedByServer, ClientsInPlace, Handling
    <3>2. CASE serverPC = "returned"
      BY <2>2, <3>2 DEF ClosedByServer, ClientsInPlace, Handling
    <3>3. CASE serverPC \in {"request", "await", "write"}
      BY <2>1, <3>3 DEF Busy
    <3> QED BY <3>1, <3>2, <3>3 DEF TypeOK
  <2>5. accepted \in Clients /\ open /\ sent[accepted] = "nothing" /\ deadline # 0 /\ client[accepted] # "failed"
    BY <2>1, <2>4 DEF Busy, Arrived, TypeOK
  <2>6. client[accepted] = "connected"
    BY <2>4, <2>5 DEF ClientsInPlace, Pending, Patient
  <2>7. accepted \in late /\ accepted < i
    BY <2>2, <2>5, <2>6 DEF ClientsInPlace, ClosedByServer
  <2>8. Remaining(i) = deadline /\ Remaining(i)' = deadline - 1
    BY <1>9, <2>1, <2>4, <2>5, <2>7 DEF Remaining, Tick, Down
  <2>9. LateBefore(i)' = LateBefore(i)
    BY <2>1 DEF LateBefore
  <2>10. ResponseTimeout - patience[i] + Remaining(i) <= RequestTimeout * Cardinality(LateBefore(i))
    BY DEF WaitIsBounded
  <2>11. ResponseTimeout - patience'[i] + Remaining(i)' = ResponseTimeout - patience[i] + Remaining(i)
    BY <2>3, <2>8
  <2> QED BY <2>9, <2>10, <2>11
<1> QED BY <1>2, <1>3, <1>4, <1>5, <1>6, <1>7, <1>8, <1>9 DEF Next, Server

(* Late clients only become more, and a client gives up when its deadline  *)
(* has passed.                                                             *)
LEMMA ImpatienceInductive ==
    ASSUME WaitIsBounded, PatienceSuffices, TypeOK, TypeOK', prompt, [Next]_vars
    PROVE  PatienceSuffices'
<1> DEFINE Ahead(i) == {j \in late : j < i}
<1>1. late \subseteq late'
  BY DEF Next, Server, Connect, ConnectLate, SendLate, ReadFails, GiveUp, Effect, Accept, AcceptClosed, AcceptFails,
     ServeEnds, ReadRequest, RejectRequest, ReadGivesUp, Request, RequestCommand, Await, Write, CloseListener, CloseConn,
     HTTPCloses, HTTPFails, HTTPEnds, Cancel, Receive, Tick, Terminated, vars
<1>2. ASSUME NEW i \in Clients, client'[i] = "impatient", client[i] # "impatient"
      PROVE  client[i] = "waiting" /\ patience[i] = 0
  <2> USE <1>2, Places DEF Goes, Becomes, Leaves
  <2>1. CASE Connect \/ ConnectLate
    BY <2>1 DEF Connect, ConnectLate
  <2>2. CASE \E n \in Clients : SendLate(n) \/ ReadFails(n) \/ GiveUp(n)
    BY <2>2 DEF SendLate, ReadFails, GiveUp
  <2>3. CASE Write
    <3>1. reply \in {"ok", "error"}
      BY <2>3 DEF Write, TypeOK
    <3> QED BY <2>3, <3>1 DEF Write, Answer
  <2>4. CASE UNCHANGED client
    BY <2>4
  <2>5. CASE ~(Connect \/ ConnectLate \/ Write \/ \E n \in Clients : SendLate(n) \/ ReadFails(n) \/ GiveUp(n))
    <3>1. UNCHANGED client
      BY <2>5 DEF Next, Server, Effect, Accept, AcceptClosed, AcceptFails, ServeEnds, ReadRequest, RejectRequest,
         ReadGivesUp, Request, RequestCommand, Await, CloseListener, CloseConn, HTTPCloses, HTTPFails, HTTPEnds, Cancel,
         Receive, Tick, Terminated, vars
    <3> QED BY <3>1, <2>4
  <2> QED BY <2>1, <2>2, <2>3, <2>5
<1>3. ASSUME NEW i \in Clients, client'[i] = "impatient"
      PROVE  Cardinality(Ahead(i)) * RequestTimeout >= ResponseTimeout
  <2>1. CASE client[i] = "impatient"
    BY <2>1 DEF PatienceSuffices
  <2>2. CASE client[i] # "impatient"
    <3>1. client[i] = "waiting" /\ patience[i] = 0
      BY <1>2, <1>3, <2>2
    <3>2. ResponseTimeout + Remaining(i) <= RequestTimeout * Cardinality(LateBefore(i)) /\ Remaining(i) \in Nat
      BY <3>1, Places DEF WaitIsBounded, Remaining
    <3>3. LateBefore(i) \in SUBSET Ahead(i) /\ IsFiniteSet(Ahead(i)) /\ Cardinality(Ahead(i)) \in Nat
      <4>1. Ahead(i) \in SUBSET Clients
        BY Places
      <4> QED BY <4>1, SomeClients DEF LateBefore
    <3>4. Cardinality(LateBefore(i)) <= Cardinality(Ahead(i))
      BY <3>3, FS_Subset
    <3>5. Cardinality(LateBefore(i)) \in Nat /\ RequestTimeout \in Nat /\ ResponseTimeout \in Nat
      BY LateIsFinite, Places
    <3> HIDE DEF Ahead
    <3>6. RequestTimeout * Cardinality(LateBefore(i)) <= Cardinality(Ahead(i)) * RequestTimeout
      BY <3>3, <3>4, <3>5
    <3> QED BY <3>2, <3>3, <3>5, <3>6
  <2> QED BY <2>1, <2>2
<1>4. ASSUME NEW i \in Clients
      PROVE  Cardinality(Ahead(i)) * RequestTimeout <= Cardinality(Ahead(i)') * RequestTimeout
  <2>1. Ahead(i) \in SUBSET Ahead(i)' /\ Ahead(i)' \in SUBSET Clients
    BY <1>1 DEF TypeOK
  <2>2. IsFiniteSet(Ahead(i)') /\ Cardinality(Ahead(i)') \in Nat /\ Cardinality(Ahead(i)) \in Nat
    BY <2>1, SomeClients
  <2>3. Cardinality(Ahead(i)) <= Cardinality(Ahead(i)')
    BY <2>1, <2>2, FS_Subset
  <2>4. RequestTimeout \in Nat
    BY IPCAssumption
  <2> HIDE DEF Ahead
  <2> QED BY <2>2, <2>3, <2>4
<1>5. \A i \in Clients : Cardinality(Ahead(i)) \in Nat /\ Cardinality(Ahead(i)') \in Nat
  <2> SUFFICES ASSUME NEW i \in Clients PROVE Cardinality(Ahead(i)) \in Nat /\ Cardinality(Ahead(i)') \in Nat
    OBVIOUS
  <2>1. Ahead(i) \in SUBSET Clients /\ Ahead(i)' \in SUBSET Clients
    BY DEF TypeOK
  <2> QED BY <2>1, SomeClients
<1> SUFFICES ASSUME NEW i \in Clients, client'[i] = "impatient"
             PROVE  Cardinality(Ahead(i)') * RequestTimeout >= ResponseTimeout
  BY DEF PatienceSuffices
<1> HIDE DEF Ahead
<1> QED BY <1>3, <1>4, <1>5, IPCAssumption

LEMMA PromptStays == ASSUME [Next]_vars PROVE prompt' = prompt
  BY DEF Next, Server, Connect, ConnectLate, SendLate, ReadFails, GiveUp, Effect, Accept, AcceptClosed, AcceptFails,
     ServeEnds, ReadRequest, RejectRequest, ReadGivesUp, Request, RequestCommand, Await, Write, CloseListener, CloseConn,
     HTTPCloses, HTTPFails, HTTPEnds, Cancel, Receive, Tick, Terminated, vars

(* A client gives up only behind as many late ones as fill its deadline,   *)
(* if no step of the server takes time.                                    *)
THEOREM PatienceIsEnough == Spec => []PatienceSuffices
<1>1. Init => PatienceInv
  BY IPCAssumption DEF Init, PatienceInv, ClientsInPlace, WaitIsBounded, PatienceSuffices, Pending, Patient, Handling, Clients
<1>2. PatienceInv /\ TypeOK /\ TypeOK' /\ [Next]_vars => PatienceInv'
  <2> SUFFICES ASSUME PatienceInv, TypeOK, TypeOK', [Next]_vars PROVE PatienceInv'
    OBVIOUS
  <2>1. ClientsInPlace'
    BY PlacesInductive DEF PatienceInv
  <2>2. ASSUME prompt' PROVE WaitIsBounded' /\ PatienceSuffices'
    <3>1. prompt
      BY <2>2, PromptStays, Zenon
    <3>2. ClientsInPlace /\ WaitIsBounded /\ PatienceSuffices
      BY <3>1 DEF PatienceInv
    <3>3. WaitIsBounded'
      BY <3>1, <3>2, WaitInductive
    <3>4. PatienceSuffices'
      BY <3>1, <3>2, ImpatienceInductive
    <3> QED BY <3>3, <3>4
  <2>3. ~prompt' => PatienceSuffices'
    BY DEF PatienceSuffices
  <2>4. prompt' \in BOOLEAN
    BY DEF TypeOK
  <2>5. PatienceSuffices'
    BY <2>2, <2>3, <2>4
  <2> QED BY <2>1, <2>2, <2>5 DEF PatienceInv
<1>3. PatienceInv => PatienceSuffices
  BY DEF PatienceInv
<1> QED BY <1>1, <1>2, <1>3, TypeCorrect, PTL DEF Spec
=============================================================================
