-------------------------------- MODULE IPC --------------------------------
(***************************************************************************)
(* The Unix socket: clients that connect, send one request and wait; the   *)
(* server, which handles one connection after another; the goroutines that *)
(* carry out start and stop; and serve, which waits for its listeners.     *)
(*                                                                         *)
(* Clients are numbered in the order of their connections.  Time passes in *)
(* units of the server's deadline, 250 ms.                                 *)
(***************************************************************************)
EXTENDS Integers, Sequences, FiniteSets

CONSTANTS
    MaxClients,       \* connections made; bounds the model
    RequestTimeout,   \* the server's read deadline, in units of time
    ResponseTimeout,  \* the client's read deadline
    HTTPListen        \* whether serve has an HTTP listener as well

ASSUME IPCAssumption ==
    /\ MaxClients \in Nat
    /\ RequestTimeout \in Nat /\ ResponseTimeout \in Nat
    /\ HTTPListen \in BOOLEAN

VARIABLES
    connected,   \* connections made so far
    client,      \* where each client is
    sent,        \* what it has written and nobody has read yet
    patience,    \* time until its read deadline
    late,        \* clients that connected without sending their request
    listening,   \* the listener is open
    accepted,    \* connections accepted so far; the last is being handled
    serverPC,    \* where Serve and handleConn are
    deadline,    \* time until the server's read deadline
    open,        \* the connection being handled has not been closed
    request,     \* the request that was read from it
    reply,       \* what errChan holds, and then the response to be written
    running,     \* commands whose goroutine has not taken the lock yet
    executed,    \* commands in the order in which they took effect
    ctxDone,     \* d.ctx is canceled
    result,      \* how each listener ended
    received,    \* the results serve has received
    serveErr,    \* the listener whose error serve returns
    prompt       \* no step takes time; otherwise any step may

clientVars == <<connected, client, sent, patience, late>>
connVars   == <<accepted, deadline, open, request>>
daemonVars == <<reply, running, executed>>
serveVars  == <<ctxDone, received, serveErr>>

vars == <<clientVars, connVars, daemonVars, serveVars, listening, serverPC, result, prompt>>

Clients   == 1..MaxClients
Listeners == {"socket"} \cup IF HTTPListen THEN {"http"} ELSE {}
Requests  == {"command", "status", "garbage"}
Gone      == {"ok", "error", "answered", "failed", "impatient"}

TypeOK ==
    /\ connected \in 0..MaxClients
    /\ client \in [Clients -> {"new", "connected", "waiting"} \cup Gone]
    /\ sent \in [Clients -> Requests \cup {"nothing"}]
    /\ patience \in [Clients -> 0..ResponseTimeout]
    /\ late \subseteq Clients
    /\ listening \in BOOLEAN
    /\ accepted \in 0..connected
    /\ serverPC \in {"accept", "read", "request", "await", "write", "returned"}
    /\ serverPC \in {"read", "request", "await", "write"} => accepted \in Clients
    /\ deadline \in 0..RequestTimeout
    /\ open \in BOOLEAN
    /\ request \in Requests \cup {"nothing"}
    /\ reply \in {"none", "ok", "error"}
    /\ serverPC = "write" => reply # "none"
    /\ running \subseteq Clients
    /\ executed \in Seq(Clients)
    /\ ctxDone \in BOOLEAN
    /\ result \in [Listeners -> {"running", "nil", "err"}]
    /\ received \subseteq Listeners
    /\ serveErr \in Listeners \cup {"nil"}
    /\ prompt \in BOOLEAN

Init ==
    /\ connected = 0 /\ accepted = 0
    /\ client = [i \in Clients |-> "new"]
    /\ sent = [i \in Clients |-> "nothing"]
    /\ patience = [i \in Clients |-> 0]
    /\ late = {}
    /\ listening = TRUE /\ open = FALSE
    /\ serverPC = "accept" /\ deadline = 0 /\ request = "nothing"
    /\ reply = "none" /\ running = {} /\ executed = <<>>
    /\ ctxDone = FALSE /\ result = [l \in Listeners |-> "running"]
    /\ received = {} /\ serveErr = "nil"
    /\ prompt \in BOOLEAN

Becomes(i, state) == client' = [client EXCEPT ![i] = state]

Leaves(i, state) == Becomes(i, state) /\ patience' = [patience EXCEPT ![i] = 0]

(* The server has closed the connection, or the listener it waited in. *)
ClosedByServer(i) ==
    \/ i < accepted
    \/ i = accepted /\ ~open
    \/ i > accepted /\ ~listening

-----------------------------------------------------------------------------
(* Clients. *)

(* Sends a request and sets the read deadline. *)
Sends(i, kind) ==
    /\ sent' = [sent EXCEPT ![i] = kind]
    /\ patience' = [patience EXCEPT ![i] = ResponseTimeout]

(* sendIPCRequest: connect and send. *)
Connect ==
    LET i == connected + 1 IN
    /\ i \in Clients /\ listening
    /\ connected' = i
    /\ Becomes(i, "waiting")
    /\ \E kind \in Requests : Sends(i, kind)
    /\ UNCHANGED <<late, connVars, daemonVars, serveVars, listening, serverPC, result, prompt>>

(* A program that connects and lets the server wait; it may go away. *)
ConnectLate ==
    LET i == connected + 1 IN
    /\ i \in Clients /\ listening
    /\ connected' = i
    /\ Becomes(i, "connected")
    /\ late' = late \cup {i}
    /\ UNCHANGED <<sent, patience, connVars, daemonVars, serveVars, listening, serverPC, result, prompt>>

SendLate(i) ==
    /\ client[i] = "connected"
    /\ \/ /\ ~ClosedByServer(i)
          /\ Becomes(i, "waiting")
          /\ Sends(i, "command")
       \/ /\ Becomes(i, "failed")
          /\ UNCHANGED <<sent, patience>>
    /\ UNCHANGED <<connected, late, connVars, daemonVars, serveVars, listening, serverPC, result, prompt>>

(* The connection ended without a response. *)
ReadFails(i) ==
    /\ client[i] = "waiting" /\ ClosedByServer(i)
    /\ Leaves(i, "failed")
    /\ UNCHANGED <<connected, sent, late, connVars, daemonVars, serveVars, listening, serverPC, result, prompt>>

(* The read deadline of the client: it reports a failure and is gone. *)
GiveUp(i) ==
    /\ client[i] = "waiting" /\ patience[i] = 0
    /\ Leaves(i, "impatient")
    /\ UNCHANGED <<connected, sent, late, connVars, daemonVars, serveVars, listening, serverPC, result, prompt>>

-----------------------------------------------------------------------------
(* Server.  i is the connection being handled. *)

Goes(from, to) == serverPC = from /\ serverPC' = to

(* Mutant: a connection may take two deadlines. *)
AcceptForLonger ==
    /\ listening /\ accepted < connected
    /\ Goes("accept", "read")
    /\ accepted' = accepted + 1
    /\ deadline' = 2 * RequestTimeout
    /\ open' = TRUE
    /\ UNCHANGED <<clientVars, request, daemonVars, serveVars, listening, result, prompt>>

Accept ==
    /\ listening /\ accepted < connected
    /\ Goes("accept", "read")
    /\ accepted' = accepted + 1
    /\ deadline' = RequestTimeout
    /\ open' = TRUE
    /\ UNCHANGED <<clientVars, request, daemonVars, serveVars, listening, result, prompt>>

(* Serve returns, which also closes what still waits in the listener. *)
ServeEnds(how) ==
    /\ Goes("accept", "returned")
    /\ listening' = FALSE
    /\ result' = [result EXCEPT !["socket"] = how]
    /\ UNCHANGED <<clientVars, connVars, daemonVars, serveVars, prompt>>

(* A listener that was closed for the context is no failure. *)
AcceptClosed == ctxDone /\ ~listening /\ ServeEnds("nil")

(* Accept fails, or nothing could be listened to in the first place. *)
AcceptFails == (ctxDone => connected = 0) /\ ServeEnds("err")

(* Two goroutines wait for the context: Serve's closes the listener, and   *)
(* handleConn's the connection.                                            *)
CloseListener ==
    /\ ctxDone /\ listening
    /\ listening' = FALSE
    /\ UNCHANGED <<clientVars, connVars, daemonVars, serveVars, serverPC, result, prompt>>

CloseConn ==
    /\ ctxDone /\ open
    /\ open' = FALSE
    /\ UNCHANGED <<clientVars, accepted, deadline, request, daemonVars, serveVars, listening, serverPC, result, prompt>>

(* handleConn returns, which closes the connection. *)
ConnEnds ==
    /\ open' = FALSE /\ deadline' = 0
    /\ request' = "nothing" /\ reply' = "none"
    /\ UNCHANGED <<accepted, running, executed>>

(* readRequest finds a complete request if one is there. *)
Arrived == serverPC = "read" /\ open /\ sent[accepted] # "nothing"

ReadRequest ==
    /\ Arrived /\ sent[accepted] # "garbage"
    /\ Goes("read", "request")
    /\ request' = sent[accepted]
    /\ sent' = [sent EXCEPT ![accepted] = "nothing"]
    /\ UNCHANGED <<connected, client, patience, late, accepted, deadline, open, daemonVars, serveVars, listening, result, prompt>>

(* No request, or none with a command; not answered during a shutdown. *)
RejectRequest ==
    /\ Arrived /\ sent[accepted] = "garbage"
    /\ sent' = [sent EXCEPT ![accepted] = "nothing"]
    /\ IF ctxDone
         THEN Goes("read", "accept") /\ ConnEnds
         ELSE Goes("read", "write") /\ reply' = "error" /\ UNCHANGED <<connVars, running, executed>>
    /\ UNCHANGED <<connected, client, patience, late, serveVars, listening, result, prompt>>

(* Mutant: the server waits for as long as the client likes. *)
ReadWithoutDeadline ==
    /\ Goes("read", "accept")
    /\ client[accepted] = "failed" \/ ~open
    /\ ConnEnds
    /\ UNCHANGED <<clientVars, serveVars, listening, result, prompt>>

(* End of the stream, the read deadline, or the context: no response. *)
ReadGivesUp ==
    /\ Goes("read", "accept")
    /\ client[accepted] = "failed" \/ deadline = 0 \/ ~open
    /\ ConnEnds
    /\ UNCHANGED <<clientVars, serveVars, listening, result, prompt>>

(* Request: an error if the context is done, the environment not allowed   *)
(* or the command unknown; status answers by itself, ...                   *)
Request ==
    /\ Goes("request", "write")
    /\ \/ reply' = "error"
       \/ ~ctxDone /\ request = "status" /\ reply' = "ok"
    /\ UNCHANGED <<clientVars, connVars, running, executed, serveVars, listening, result, prompt>>

(* ... and start and stop get a goroutine. *)
RequestCommand ==
    /\ Goes("request", "await")
    /\ ~ctxDone /\ request = "command"
    /\ running' = running \cup {accepted}
    /\ UNCHANGED <<clientVars, connVars, reply, executed, serveVars, listening, result, prompt>>

(* Mutant: a command is answered with an error after it took effect. *)
EffectUnsaid(i) ==
    /\ i \in running
    /\ running' = running \ {i}
    /\ reply' = "error"
    /\ executed' \in {executed, Append(executed, i)}
    /\ UNCHANGED <<clientVars, connVars, serveVars, listening, serverPC, result, prompt>>

(* start or stop takes the lock, decides, and answers before it unlocks. *)
Effect(i) ==
    /\ i \in running
    /\ running' = running \ {i}
    /\ \/ reply' = "ok" /\ executed' = Append(executed, i)
       \/ reply' = "error" /\ UNCHANGED executed
    /\ UNCHANGED <<clientVars, connVars, serveVars, listening, serverPC, result, prompt>>

(* Mutant: the command is acknowledged when its goroutine has been made. *)
AwaitNothing ==
    /\ Goes("await", "write")
    /\ reply' = "ok"
    /\ UNCHANGED <<clientVars, connVars, running, executed, serveVars, listening, result, prompt>>

(* Request receives from errChan. *)
Await ==
    /\ Goes("await", "write")
    /\ reply # "none"
    /\ UNCHANGED <<clientVars, connVars, daemonVars, serveVars, listening, result, prompt>>

(* Only for a command does it matter which answer it was. *)
Answer == IF request = "command" THEN reply ELSE "answered"

(* writeResponse, which a client that still waits reads. *)
Write ==
    /\ Goes("write", "accept")
    /\ IF open /\ client[accepted] = "waiting"
         THEN Leaves(accepted, Answer) ELSE UNCHANGED <<client, patience>>
    /\ ConnEnds
    /\ UNCHANGED <<connected, sent, late, serveVars, listening, result, prompt>>

-----------------------------------------------------------------------------
(* serve. *)

(* serveHTTP, whose server is closed when the context is done. *)
HTTPEnds(how) ==
    /\ HTTPListen /\ result["http"] = "running"
    /\ result' = [result EXCEPT !["http"] = how]
    /\ UNCHANGED <<clientVars, connVars, daemonVars, serveVars, listening, serverPC, prompt>>

HTTPCloses == ctxDone /\ HTTPEnds("nil")

HTTPFails == HTTPEnds("err")

(* Mutant: the last result is the one that counts. *)
ReceiveLast(l) ==
    /\ result[l] # "running" /\ l \notin received
    /\ received' = received \cup {l}
    /\ IF result[l] = "err" THEN ctxDone' = TRUE /\ serveErr' = l ELSE UNCHANGED ctxDone /\ serveErr' = "nil"
    /\ UNCHANGED <<clientVars, connVars, daemonVars, listening, serverPC, result, prompt>>

(* serve receives a result; an error cancels the context. *)
Receive(l) ==
    /\ result[l] # "running" /\ l \notin received
    /\ received' = received \cup {l}
    /\ IF result[l] = "err" THEN ctxDone' = TRUE /\ serveErr' = l ELSE UNCHANGED <<ctxDone, serveErr>>
    /\ UNCHANGED <<clientVars, connVars, daemonVars, listening, serverPC, result, prompt>>

(* A signal. *)
Cancel ==
    /\ ctxDone' = TRUE
    /\ UNCHANGED <<clientVars, connVars, daemonVars, received, serveErr, listening, serverPC, result, prompt>>

-----------------------------------------------------------------------------
(* Something can happen at once. *)
Busy ==
    \/ running # {}
    \/ serverPC = "accept" /\ (accepted < connected \/ ~listening)
    \/ serverPC = "read" /\ (Arrived \/ deadline = 0 \/ ~open \/ client[accepted] = "failed")
    \/ serverPC \in {"request", "await", "write"}
    \/ ctxDone /\ (listening \/ open \/ \E l \in Listeners : result[l] = "running")
    \/ \E l \in Listeners \ received : result[l] # "running"
    \/ \E i \in Clients : client[i] = "waiting" /\ (patience[i] = 0 \/ ClosedByServer(i))

(* Mutant: a deadline that has passed runs on. *)
RunsOn(time) == time - 1

Down(time) == IF time > 0 THEN time - 1 ELSE 0

(* One unit of time passes on the deadlines that run. *)
Tick ==
    /\ prompt => ~Busy
    /\ patience' = [i \in Clients |-> IF client[i] = "waiting" THEN Down(patience[i]) ELSE patience[i]]
    /\ deadline' = IF serverPC = "read" THEN Down(deadline) ELSE deadline
    /\ UNCHANGED <<connected, client, sent, late, accepted, open, request, daemonVars, serveVars, listening, serverPC, result, prompt>>

Terminated ==
    /\ received = Listeners
    /\ UNCHANGED vars

Server ==
    \/ Accept \/ AcceptClosed \/ ReadRequest \/ RejectRequest \/ ReadGivesUp
    \/ Request \/ RequestCommand \/ Await \/ Write

Next ==
    \/ Connect \/ ConnectLate
    \/ \E i \in Clients : SendLate(i) \/ ReadFails(i) \/ GiveUp(i) \/ Effect(i)
    \/ Server \/ AcceptFails \/ CloseListener \/ CloseConn
    \/ HTTPCloses \/ HTTPFails \/ Cancel
    \/ \E l \in Listeners : Receive(l)
    \/ Tick
    \/ Terminated

Spec == Init /\ [][Next]_vars

(* Go runs its goroutines, clients that read are told of the end of their  *)
(* connection or their deadline, and time passes.  Nobody need connect, send or  *)
(* cancel, and nothing need fail.                                          *)
Fairness ==
    /\ WF_vars(Server) /\ WF_vars(CloseListener) /\ WF_vars(CloseConn) /\ WF_vars(HTTPCloses)
    /\ \A i \in Clients : WF_vars(Effect(i)) /\ WF_vars(ReadFails(i)) /\ WF_vars(GiveUp(i))
    /\ \A l \in Listeners : WF_vars(Receive(l))
    /\ WF_vars(Tick)

FairSpec == Spec /\ Fairness

-----------------------------------------------------------------------------
(* Properties. *)

(* Every start and stop has a goroutine of its own, and yet they take      *)
(* effect in the order of their connections, and each at most once: a stop *)
(* never overtakes its start.                                              *)
InConnectionOrder ==
    \A a, b \in DOMAIN executed : a < b => executed[a] < executed[b]

Executed == {executed[a] : a \in DOMAIN executed}

(* A client that is told so can rely on it: a command that succeeded has   *)
(* taken effect, one that was refused has not and will not.                *)
AnswerIsTrue ==
    \A i \in Clients :
        /\ client[i] = "ok" => i \in Executed
        /\ client[i] = "error" => i \notin Executed \cup running

(* "Each accepted request receives one JSON response": the client of a     *)
(* command that took effect learns of it, unless it has given up or the    *)
(* daemon ends.                                                            *)
EffectIsAnswered ==
    \A i \in Executed :
        \/ client[i] \in {"ok", "impatient"}
        \/ client[i] = "waiting" /\ i = accepted /\ serverPC \in {"await", "write"}
        \/ ctxDone

(* Clients and daemon agree on what was done. *)
AnswersAgree == AnswerIsTrue /\ EffectIsAnswered

(* The server's deadline against the client's: where steps take no time, a *)
(* client runs out of patience only behind as many late ones as fill it.   *)
PatienceSuffices ==
    prompt =>
        \A i \in Clients :
            client[i] = "impatient" =>
                Cardinality({j \in late : j < i}) * RequestTimeout >= ResponseTimeout

(* serve ends with an error if and only if a listener failed, and without  *)
(* one only because the daemon was told to end.                            *)
FailureReported ==
    received = Listeners =>
        /\ (serveErr # "nil") = (\E l \in Listeners : result[l] = "err")
        /\ ctxDone

(* Every connection comes to be handled, whatever those before it do. *)
EveryoneIsHandled ==
    \A i \in Clients : connected >= i ~> accepted >= i \/ ctxDone \/ result["socket"] # "running"

(* A listener that fails, or a signal, ends the other listener as well,    *)
(* and no client can hold serve up.                                        *)
ServeReturns ==
    (ctxDone \/ \E l \in Listeners : result[l] = "err") ~> received = Listeners

(* Nobody is held up by a silent client, a failed listener or a command. *)
NobodyIsHeldUp == EveryoneIsHandled /\ ServeReturns
=============================================================================
