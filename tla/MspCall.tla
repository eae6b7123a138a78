------------------------------- MODULE MspCall -------------------------------
(***************************************************************************)
(* Remote procedure calls over MSP, the connection-oriented transport:     *)
(* rpc_client_call_msp and its handler (rpc_client_msp.c), and             *)
(* _rpc_server_msp_handler of every server (rpc_server_msp.c).             *)
(*                                                                         *)
(* The client sends one call over a connection of its own and runs the MSP *)
(* library in a loop; the library calls the handler back, with the state   *)
(* of the connection and a packet, and the two talk through the global     *)
(* flag `received'.  A connection delivers what is sent over it in order   *)
(* until it ends, at any moment, at one end before the other.              *)
(*                                                                         *)
(* The library is not part of the repository; a connection is modelled by  *)
(* what the two handlers expect of it.  The server runs in one thread: it  *)
(* learns nothing of its connections while it executes a procedure.        *)
(***************************************************************************)
EXTENDS RpcResults, Sequences, Functions

CONSTANTS
    Me,          \* the SID of the client
    FileCalls,   \* calls of a procedure that answers with a file
    AllMode,     \* servers started by rpc_server_listen (RPC_SERVER_MODE_ALL)
    MspMode,     \* servers started by rpc_server_listen_msp (RPC_SERVER_MODE_MSP)
    FileParams,  \* calls whose first parameter is a path, to a file the store takes
    MaxCalls     \* bound: calls the application makes

ASSUME MspAssumption ==
    /\ Me \notin Servers \cup {SidAny, SidBroadcast}
    /\ FileCalls \subseteq 1 .. MaxCalls
    /\ AllMode \subseteq Servers
    /\ MspMode \subseteq Servers
    /\ FileParams \subseteq 1 .. MaxCalls
    /\ MaxCalls \in Nat

VARIABLES
    pc,         \* where rpc_client_call_msp stands: "idle" outside a call, "loop"
                \* at the head of its loop, "poll" in the body, "download"
    server_sid, \* the destination of the latest call
    received,   \* the global flag: 0 nothing, 1 ACK, 2 answer, -1 connection ended
    rpc_result, \* the global result array
    code,       \* what the latest call over a transport returned
    port,       \* number of calls made, the identity of the latest one
    link,       \* the client's end of its connection: "open", "shut" or "closed"
    stream,     \* packets on their way to the client over the open connection
    requests,   \* calls on their way to a server, or waiting in its socket
    serving,    \* serving[s]: the call server s is executing, or 0
    attached,   \* attached[s]: s is executing a call over MSP whose connection was
                \* usable when the handler had looked at its state
    executed,   \* history: results server s has computed for call p
    mailed,     \* results that MSP servers put into Rhizome for the client
    published,  \* answer files that servers have put into their store
    files       \* files of the procedure in the client's store, oldest first

callVars == <<pc, code, link, stream>>
flagVars == <<received, rpc_result>>
appVars == <<server_sid, port>>
clientVars == <<callVars, flagVars, appVars>>
serverVars == <<requests, serving, attached, executed, mailed, published>>
mspVars == <<clientVars, serverVars, files>>

Port == 1 .. MaxCalls
Payload == (Servers \cup {Me}) \X Port
NoCode == -2

\* The packets a server answers with: text, or the hash of a file.
Answers == {"response", "hash"}

\* The client is inside rpc_client_call_msp.
InCall == pc # "idle"

MspTypes ==
    /\ pc \in {"idle", "loop", "poll", "download"}
    /\ server_sid \in Servers \cup {SidAny, SidBroadcast}
    /\ received \in -1 .. 2
    /\ rpc_result \in Results(Payload)
    /\ code \in -2 .. 2
    /\ port \in 0 .. MaxCalls
    /\ link \in {"open", "shut", "closed"}
    /\ stream \in Seq({"ack"} \cup Answers)
    /\ InCall => port \in Port /\ server_sid \in Servers
    /\ link = "open" => InCall
    /\ requests \subseteq Servers \X Port
    /\ serving \in [Servers -> Port \cup {0}]
    /\ attached \in [Servers -> BOOLEAN]
    /\ executed \in [Servers -> [Port -> Nat]]
    /\ mailed \subseteq Servers \X Port \X Answers
    /\ published \subseteq Servers \X FileCalls
    /\ files \in Seq(Payload)

MspInit ==
    /\ pc = "idle"
    /\ server_sid = SidAny
    /\ received = 0
    /\ rpc_result = ClearedResults
    /\ code = NoCode
    /\ port = 0
    /\ link = "closed"
    /\ stream = <<>>
    /\ requests = {}
    /\ serving = [s \in Servers |-> 0]
    /\ attached = [s \in Servers |-> FALSE]
    /\ executed = [s \in Servers |-> [p \in Port |-> 0]]
    /\ mailed = {}
    /\ published = {}
    /\ files = <<>>

-----------------------------------------------------------------------------
(* The client: rpc_client_call_msp                                          *)

\* A first parameter that is a path goes into the client's store, for nobody in
\* particular and under the name an answer file would have.  That the store
\* refuses it the client does not notice.
AddParameterFile(p) ==
    files' = IF p \in FileParams THEN Append(files, <<Me, p>>) ELSE files

\* The server is reachable: clear the array, connect, send.  `received' keeps
\* what it held.
Connect(s, p) ==
    /\ pc' = "loop"
    /\ rpc_result' = ClearedResults
    /\ link' = "open"
    /\ stream' = <<>>
    /\ requests' = requests \cup {<<s, p>>}
    /\ AddParameterFile(p)
    /\ UNCHANGED <<received, code, serving, attached, executed, mailed, published>>

\* Mutant: the call returns and forgets its connection.
ReturnOpen(c) ==
    /\ pc' = "idle"
    /\ code' = c
    /\ UNCHANGED <<link, stream, flagVars, appVars, serverVars, files>>

\* The call returns and closes its connection.
Return(c) ==
    /\ pc' = "idle"
    /\ code' = c
    /\ link' = "closed"
    /\ stream' = <<>>
    /\ UNCHANGED <<flagVars, appVars, serverVars, files>>

\* The test that would start the Rhizome listener looks at the handle in the
\* local variable sock.  The handler stops a copy of it, and nobody else writes it.  (It
\* would be null from the start if msp_socket had returned a null handle, which the
\* code does not look at; a socket that cannot be had is not modelled.)
SocketIsNull == FALSE

\* The loop goes on without an answer, deadline or not, connection or not.
KeepWaiting ==
    /\ pc = "loop"
    /\ received \in {0, 1}
    /\ IF SocketIsNull
       THEN Return(-1)
       ELSE pc' = "poll" /\ UNCHANGED <<code, link, stream, flagVars, appVars,
                                        serverVars, files>>

Finish ==
    /\ pc = "loop"
    /\ received \notin {0, 1}
    /\ Return(received)

\* msp_processing, poll and msp_recv have called the handler as often as they had to.
RoundEnds ==
    /\ pc = "poll"
    /\ pc' = "loop"
    /\ UNCHANGED <<code, link, stream, flagVars, appVars, serverVars, files>>

\* The states of a connection that _rpc_client_msp_handler tells apart.
States == {"data", "shutdown", "closed"}

\* Mutant: an ACK does not protect the flag from the end of the connection.
FlagAfterEnd(state) == IF state = "data" \/ received = 2 THEN received ELSE -1

\* Mutant: the end of a connection leaves the flag alone.
FlagUntouched(state) == received

\* The end of the connection fails the call, unless there has been an ACK.
FlagAfter(state) ==
    IF state = "data" \/ received \in {1, 2} THEN received ELSE -1

\* msp_shutdown and msp_stop: nothing more comes over the connection.
LinkAfter(state) ==
    /\ link' = CASE state = "data" -> link
                 [] state = "shutdown" -> "shut"
                 [] state = "closed" -> "closed"
    /\ stream' = IF state = "data" THEN Tail(stream) ELSE <<>>

\* The handler is called without a packet, because the connection has ended.
ConnectionEnds(state) ==
    /\ pc = "poll"
    /\ state # "data"
    /\ link = "open" \/ (link = "shut" /\ state = "closed")
    /\ received' = FlagAfter(state)
    /\ LinkAfter(state)
    /\ UNCHANGED <<pc, code, rpc_result, appVars, serverVars, files>>

\* The handler is called with the next packet, whatever the state is.
TakePacket(packet, state) ==
    /\ pc = "poll"
    /\ stream # <<>>
    /\ Head(stream) = packet
    /\ LinkAfter(state)
    /\ UNCHANGED <<code, appVars, serverVars, files>>

ReceiveAck(state) ==
    /\ TakePacket("ack", state)
    /\ received' = 1
    /\ UNCHANGED <<pc, rpc_result>>

ReceiveAnswer(state) ==
    /\ TakePacket("response", state)
    /\ rpc_result' = StoreSingle(rpc_result, server_sid, <<server_sid, port>>)
    /\ received' = 2
    /\ UNCHANGED pc

\* The answer is a file hash: inside the handler the client waits for the file.
ReceiveHash(state) ==
    /\ TakePacket("hash", state)
    /\ received' = FlagAfter(state)
    /\ pc' = "download"
    /\ UNCHANGED rpc_result

\* Mutant: the download takes files from everybody, as over MDP and Rhizome.
FilesOfAnybody == DOMAIN files

\* The files _rpc_download_file looks at: those the called server has sent.
FilesOfServer == {i \in DOMAIN files : files[i][1] = server_sid}

\* The newest one is taken, whatever call it answers.
Download ==
    /\ pc = "download"
    /\ FilesOfServer # {}
    /\ rpc_result' = StoreSingle(rpc_result, server_sid, files[Max(FilesOfServer)])
    /\ received' = 2
    /\ pc' = "poll"
    /\ UNCHANGED <<code, link, stream, appVars, serverVars, files>>

-----------------------------------------------------------------------------
(* The servers: _rpc_server_msp_handler                                     *)

\* What server s sends over the connection of call p.
Send(s, p, packet) ==
    stream' = IF link = "open" /\ p = port THEN Append(stream, packet) ELSE stream

\* The handler is called with a call; the connection may have ended already
\* (stays = FALSE), and then it is stopped before the packet is looked at.
\* The procedure is offered: ACK and execute it.
AcceptCall(s, p, stays) ==
    /\ s \in AllMode \cup MspMode
    /\ serving[s] = 0
    /\ <<s, p>> \in requests
    /\ requests' = requests \ {<<s, p>>}
    /\ serving' = [serving EXCEPT ![s] = p]
    /\ attached' = [attached EXCEPT ![s] = stays]
    /\ IF stays THEN Send(s, p, "ack") ELSE UNCHANGED stream
    /\ UNCHANGED <<pc, code, link, flagVars, appVars, executed, mailed, published, files>>

\* It is not offered: the server ignores the call, and keeps the connection.
IgnoreCall(s, p) ==
    /\ s \in AllMode \cup MspMode
    /\ serving[s] = 0
    /\ <<s, p>> \in requests
    /\ requests' = requests \ {<<s, p>>}
    /\ UNCHANGED <<clientVars, serving, attached, executed, mailed, published, files>>

\* The file that is in the store when an execution has produced `answer'.
AnswerFile(s, answer) == IF answer = "hash" THEN {<<s, serving[s]>>} ELSE {}

Produces(s, answer) ==
    /\ serving[s] # 0
    /\ answer = "hash" <=> serving[s] \in FileCalls
    /\ serving' = [serving EXCEPT ![s] = 0]
    /\ attached' = [attached EXCEPT ![s] = FALSE]
    /\ published' = published \cup AnswerFile(s, answer)

\* No binary, or one that exits with an error, perhaps after it has named a file.
\* The client hears nothing more.
ExecutionFails(s, answer) ==
    /\ Produces(s, answer)
    /\ UNCHANGED <<clientVars, requests, executed, mailed, files>>

\* The end of an execution that succeeds, over whatever transport.
Executes(s, answer) ==
    /\ Produces(s, answer)
    /\ executed' = [executed EXCEPT ![s][serving[s]] = @ + 1]

\* The connection is usable as far as the server knows.
SendResult(s, answer) ==
    /\ attached[s]
    /\ Executes(s, answer)
    /\ Send(s, serving[s], answer)
    /\ UNCHANGED <<pc, code, link, flagVars, appVars, requests, mailed, files>>

\* It is not: a server on all transports puts the result into Rhizome, unless
\* the store refuses it, and a server on MSP alone drops it.
ResultUndeliverable(s, answer) ==
    /\ ~attached[s]
    /\ Executes(s, answer)
    /\ \/ s \in AllMode /\ mailed' = mailed \cup {<<s, serving[s], answer>>}
       \/ UNCHANGED mailed
    /\ UNCHANGED <<clientVars, requests, files>>

\* Rhizome replicates an answer file to the client's store, or never does.
FileArrives ==
    \E file \in published \ Range(files) :
        /\ files' = Append(files, file)
        /\ UNCHANGED <<clientVars, serverVars>>

-----------------------------------------------------------------------------
\* What the client does in its loop, apart from handling what comes.
Loop == KeepWaiting \/ Finish \/ RoundEnds \/ Download

\* How a server gets calls over MSP; how an execution ends depends on the
\* transport of the call.
TakeCall(s) ==
    \E p \in Port : IgnoreCall(s, p) \/ \E stays \in BOOLEAN : AcceptCall(s, p, stays)

Deliver(s) ==
    \E answer \in Answers : SendResult(s, answer) \/ ResultUndeliverable(s, answer)

-----------------------------------------------------------------------------
(* A property of the client, in any specification that takes these steps    *)

\* An answer over MSP, file or not, is one the called server has made: the
\* download looks at the sender.
AnswerIsTheServers ==
    InCall =>
        \A i \in Slot : rpc_result[i].content # NoContent =>
            i = 0 /\ rpc_result[i].server_sid = server_sid
                  /\ rpc_result[i].content[1] = server_sid

=============================================================================
