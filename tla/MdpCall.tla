------------------------------- MODULE MdpCall -------------------------------
(***************************************************************************)
(* Remote procedure calls over MDP datagrams: rpc_client_call_mdp of one   *)
(* client process (rpc_client_mdp.c), the datagrams in flight, and         *)
(* _rpc_server_mdp_handle of every server (rpc_server_mdp.c).              *)
(*                                                                         *)
(* MDP loses and reorders: a datagram that is never received is lost, and  *)
(* any datagram in flight may be received next.  The client sends its call *)
(* again until it sees an ACK, so a server may get it several times; it    *)
(* has no memory of calls and serves each of them.                         *)
(*                                                                         *)
(* Abstractions.  All the calls of a behaviour name one procedure.  The    *)
(* answer of server s to call p is the value <<s, p>>.  Time is counted in *)
(* poll intervals.  A client opens one socket per call, and an answer sent *)
(* to a socket already closed disappears.                                  *)
(***************************************************************************)
EXTENDS RpcResults, Sequences, Functions

CONSTANTS
    FileServers,    \* servers whose procedure returns a file
    AllMode,        \* servers started by rpc_server_listen (RPC_SERVER_MODE_ALL)
    Destinations,   \* SIDs the application may call
    ResetsReceived, \* TRUE if each call starts with received = 0: made through
                    \* rpc_client_call, or the only call of its process (main.c)
    WaitTime,       \* initial wait_time, 10 s in the code
    AckExtension,   \* what each ACK adds to wait_time, 20 s in the code
    MaxCalls,       \* bound: calls the application makes
    MaxSends,       \* bound: sends per call that reach the network
    MaxWait         \* bound: seconds a call sleeps until a file has come

ASSUME MdpAssumption ==
    /\ FileServers \subseteq Servers
    /\ AllMode \subseteq Servers
    /\ Destinations \subseteq Servers \cup {SidAny, SidBroadcast}
    /\ ResetsReceived \in BOOLEAN
    /\ WaitTime \in Nat
    /\ AckExtension \in Nat
    /\ MaxCalls \in Nat
    /\ MaxSends \in Nat
    /\ MaxWait \in Nat
    /\ IsFiniteSet(Servers)
    /\ NoContent \notin Servers \X (1 .. MaxCalls)

VARIABLES
    pc,          \* where rpc_client_call_mdp stands, "idle" outside a call
    server_sid,  \* its argument
    received,    \* the global flag: 0 nothing yet, 1 ACK, 2 answer
    rpc_result,  \* the global result array
    time,        \* time(NULL) - start_time
    waited,      \* history: how much of it the call has slept until a file came
    wait_time,   \* when the call gives up
    code,        \* what the latest call returned
    awaited,     \* the server whose answer is a file being downloaded
    overrun,     \* an ACK has been written behind the end of rpc_result
    port,        \* number of calls made; the socket of the latest one
    acked,       \* history: servers whose ACK the latest call has received
    sent,        \* history: sends of each call that reached the network
    calls,       \* calls[s][p]: copies of call p in flight to server s
    acks,        \* acks[s]: ACKs in flight from s to the open socket
    answers,     \* answers[s]: answers in flight from s to the open socket
    serving,     \* serving[s]: the call server s is executing, or 0
    executed,    \* executed[s][p]: results server s has computed for call p
    published,   \* answer files the servers have put into Rhizome
    files,       \* answer files that reached the client's Rhizome store
    fallback     \* recipients of the results MDP servers put into Rhizome

clientVars == <<pc, server_sid, received, rpc_result, time, waited, wait_time, code,
                awaited, overrun, port, acked, sent>>
netVars == <<calls, acks, answers>>
serverVars == <<serving, executed, published, files, fallback>>
vars == <<clientVars, netVars, serverVars>>

Port == 1 .. MaxCalls
Payload == Servers \X Port
NoCode == -2
NoServer == SidAny
Broadcast == server_sid = SidBroadcast
Recipients == IF server_sid \in Servers THEN {server_sid} ELSE Servers

ClientTypes ==
    /\ pc \in {"idle", "loop", "poll", "download"}
    /\ server_sid \in Servers \cup {SidAny, SidBroadcast}
    /\ received \in 0 .. 2
    /\ rpc_result \in Results(Payload)
    /\ time \in Nat
    /\ waited \in Nat
    /\ wait_time \in Nat
    /\ code \in -2 .. 2
    /\ awaited \in Servers \cup {NoServer}
    /\ pc = "download" => awaited \in Servers
    /\ overrun \in BOOLEAN
    /\ port \in 0 .. MaxCalls
    /\ pc # "idle" => port \in Port
    /\ acked \subseteq Servers
    /\ sent \in [Port -> 0 .. MaxSends]

NetTypes ==
    /\ calls \in [Servers -> [Port -> Nat]]
    /\ acks \in [Servers -> Nat]
    /\ answers \in [Servers -> Nat]

ServerTypes ==
    /\ serving \in [Servers -> Port \cup {0}]
    /\ executed \in [Servers -> [Port -> Nat]]
    /\ published \subseteq FileServers \X Port
    /\ files \in Seq(published)
    /\ fallback \subseteq {SidBroadcast}

TypeOK == ClientTypes /\ NetTypes /\ ServerTypes

Init ==
    /\ pc = "idle"
    /\ server_sid = SidAny
    /\ received = 0
    /\ rpc_result = ClearedResults
    /\ time = 0
    /\ waited = 0
    /\ wait_time = WaitTime
    /\ code = NoCode
    /\ awaited = NoServer
    /\ overrun = FALSE
    /\ port = 0
    /\ acked = {}
    /\ sent = [p \in Port |-> 0]
    /\ calls = [s \in Servers |-> [p \in Port |-> 0]]
    /\ acks = [s \in Servers |-> 0]
    /\ answers = [s \in Servers |-> 0]
    /\ serving = [s \in Servers |-> 0]
    /\ executed = [s \in Servers |-> [p \in Port |-> 0]]
    /\ published = {}
    /\ files = <<>>
    /\ fallback = {}

-----------------------------------------------------------------------------
(* The client: rpc_client_call_mdp                                          *)

\* What `received' holds when the call begins.
EntryFlag == IF ResetsReceived THEN 0 ELSE received

\* A new call clears the array and the deadline, but not `received'.
StartCall(sid) ==
    /\ pc = "idle"
    /\ port < MaxCalls
    /\ pc' = "loop"
    /\ server_sid' = sid
    /\ received' = EntryFlag
    /\ rpc_result' = ClearedResults
    /\ time' = 0
    /\ waited' = 0
    /\ wait_time' = WaitTime
    /\ code' = NoCode
    /\ port' = port + 1
    /\ acked' = {}
    /\ UNCHANGED <<awaited, overrun, sent, netVars, serverVars>>

\* The call fails before its loop: a single server that is not reachable (the
\* array keeps what it held), or a socket that cannot be created or bound.
RefuseCall(sid) ==
    /\ pc = "idle"
    /\ port < MaxCalls
    /\ port' = port + 1
    /\ server_sid' = sid
    /\ received' = EntryFlag
    /\ code' = -1
    /\ acked' = {}
    /\ \/ rpc_result' = ClearedResults
       \/ sid \in Servers /\ UNCHANGED rpc_result
    /\ UNCHANGED <<pc, time, waited, wait_time, awaited, overrun, sent, netVars, serverVars>>

\* The call returns; its socket goes, and with it what is in flight to it.
Return(c) ==
    /\ pc' = "idle"
    /\ code' = c
    /\ acks' = [s \in Servers |-> 0]
    /\ answers' = [s \in Servers |-> 0]
    /\ UNCHANGED <<server_sid, received, rpc_result, time, waited, wait_time, awaited,
                   overrun, port, acked, sent, calls, serverVars>>

\* The deadline has passed.
Expired == time > wait_time

\* Mutant: an "all" call is always content.
CollectedAnyway == Broadcast /\ rpc_client_result_get_insert_index(rpc_result) >= 0

\* At the deadline an "all" call is content with any reserved slot.
Collected == Broadcast /\ rpc_client_result_get_insert_index(rpc_result) > 0

\* The loop condition fails: the answer that ends the call has been stored.
Finish ==
    /\ pc = "loop"
    /\ received \notin {0, 1}
    /\ Return(received)

GiveUp ==
    /\ pc = "loop"
    /\ received \in {0, 1}
    /\ Expired
    /\ Return(IF Collected THEN 2 ELSE received)

\* Before the first ACK every round sends the call.  Past MaxSends it is lost.
SendCall ==
    /\ pc = "loop"
    /\ received = 0
    /\ ~Expired
    /\ pc' = "poll"
    /\ IF sent[port] < MaxSends
       THEN /\ sent' = [sent EXCEPT ![port] = @ + 1]
            /\ calls' = [s \in Servers |->
                           IF s \in Recipients THEN [calls[s] EXCEPT ![port] = @ + 1]
                                               ELSE calls[s]]
       ELSE UNCHANGED <<sent, calls>>
    /\ UNCHANGED <<server_sid, received, rpc_result, time, waited, wait_time, code, awaited,
                   overrun, port, acked, acks, answers, serverVars>>

\* mdp_send fails.
AbortCall ==
    /\ pc = "loop"
    /\ received = 0
    /\ ~Expired
    /\ Return(-1)

\* After an ACK the call is not sent again.
AwaitAnswer ==
    /\ pc = "loop"
    /\ received = 1
    /\ ~Expired
    /\ pc' = "poll"
    /\ UNCHANGED <<server_sid, received, rpc_result, time, waited, wait_time, code, awaited,
                   overrun, port, acked, sent, netVars, serverVars>>

\* Mutant: start_time is read again in every round.
ElapsedInRound == 1

\* time(NULL) - start_time, a poll interval later.
Elapsed == time + 1

\* poll returns after 1000 ms without a packet.
PollTimeout ==
    /\ pc = "poll"
    /\ pc' = "loop"
    /\ time' = Elapsed
    /\ UNCHANGED <<server_sid, received, rpc_result, waited, wait_time, code, awaited,
                   overrun, port, acked, sent, netVars, serverVars>>

\* Mutant: the ACK stays in the socket.
TakeAckPeeking(s) ==
    /\ pc = "poll"
    /\ acks[s] > 0
    /\ UNCHANGED netVars

\* mdp_recv takes an ACK off the socket ...
TakeAck(s) ==
    /\ pc = "poll"
    /\ acks[s] > 0
    /\ acks' = [acks EXCEPT ![s] = @ - 1]
    /\ UNCHANGED <<calls, answers>>

\* Mutant: an ACK is taken for an answer.
TakeAnyPacket(s) ==
    /\ pc = "poll"
    /\ acks[s] + answers[s] > 0
    /\ IF answers[s] > 0
       THEN answers' = [answers EXCEPT ![s] = @ - 1] /\ UNCHANGED <<calls, acks>>
       ELSE acks' = [acks EXCEPT ![s] = @ - 1] /\ UNCHANGED <<calls, answers>>

\* ... or an answer.
TakeAnswer(s) ==
    /\ pc = "poll"
    /\ answers[s] > 0
    /\ answers' = [answers EXCEPT ![s] = @ - 1]
    /\ UNCHANGED <<calls, acks>>

\* mdp_recv returns an error and the packet is gone.
ReceiveError(s) ==
    /\ TakeAck(s) \/ TakeAnswer(s)
    /\ pc' = "loop"
    /\ UNCHANGED <<server_sid, received, rpc_result, time, waited, wait_time, code, awaited,
                   overrun, port, acked, sent, serverVars>>

\* An ACK extends the deadline; for an "all" call it reserves a slot.  With a full
\* array that write lands behind rpc_result, which overrun records; what it
\* overwrites there is left out.
ReceiveAck(s) ==
    /\ TakeAck(s)
    /\ pc' = "loop"
    /\ received' = 1
    /\ wait_time' = wait_time + AckExtension
    /\ acked' = acked \cup {s}
    /\ IF ReservesSlot(rpc_result, server_sid)
       THEN /\ rpc_result' = Reserve(rpc_result, s)
            /\ overrun' = (overrun \/ ReserveOverruns(rpc_result))
       ELSE UNCHANGED <<rpc_result, overrun>>
    /\ UNCHANGED <<server_sid, time, waited, code, awaited, port, sent, serverVars>>

\* An "all" call skips the answer of a server that has no slot.
HasPlace(s) ==
    Broadcast => _rpc_client_result_get_sid_index(rpc_result, s) # -1

SkipAnswer(s) ==
    /\ TakeAnswer(s)
    /\ ~HasPlace(s)
    /\ pc' = "loop"
    /\ UNCHANGED <<server_sid, received, rpc_result, time, waited, wait_time, code, awaited,
                   overrun, port, acked, sent, serverVars>>

\* Mutant: the answer goes into the slot reserved last.
StoreAnswerLast(s, payload) ==
    LET position == rpc_client_result_get_insert_index(rpc_result) - 1 IN
    IF Broadcast
    THEN /\ rpc_result' = StoreReserved(rpc_result, position, payload)
         /\ received' = IF position = MaxResults - 1 THEN 2 ELSE received
    ELSE /\ rpc_result' = StoreSingle(rpc_result, s, payload)
         /\ received' = 2

\* The answer goes into its sender's slot; the one in the last slot ends an
\* "all" call.  Any other call ends with its first answer.
StoreAnswer(s, payload) ==
    LET position == _rpc_client_result_get_sid_index(rpc_result, s) IN
    IF Broadcast
    THEN /\ rpc_result' = StoreReserved(rpc_result, position, payload)
         /\ received' = IF position = MaxResults - 1 THEN 2 ELSE received
    ELSE /\ rpc_result' = StoreSingle(rpc_result, s, payload)
         /\ received' = 2

ReceiveAnswer(s) ==
    /\ TakeAnswer(s)
    /\ HasPlace(s)
    /\ s \notin FileServers
    /\ StoreAnswer(s, <<s, port>>)
    /\ pc' = "loop"
    /\ UNCHANGED <<server_sid, time, waited, wait_time, code, awaited, overrun, port,
                   acked, sent, serverVars>>

\* The answer is a file hash: the client now waits for the file, however long.
ReceiveHash(s) ==
    /\ TakeAnswer(s)
    /\ HasPlace(s)
    /\ s \in FileServers
    /\ awaited' = s
    /\ pc' = "download"
    /\ UNCHANGED <<server_sid, received, rpc_result, time, waited, wait_time, code,
                   overrun, port, acked, sent, serverVars>>

\* _rpc_download_file has found no file, or the store could not be asked: the call
\* sleeps for a second and tries again.  No deadline is looked at meanwhile.
AwaitFile ==
    /\ pc = "download"
    /\ waited < MaxWait
    /\ waited' = waited + 1
    /\ time' = time + 1
    /\ UNCHANGED <<pc, server_sid, received, rpc_result, wait_time, code, awaited,
                   overrun, port, acked, sent, netVars, serverVars>>

\* It succeeds once the store holds a file of this procedure, and takes the newest
\* one, from whatever sender and of whatever hash.
Download ==
    /\ pc = "download"
    /\ files # <<>>
    /\ StoreAnswer(awaited, files[Len(files)])
    /\ pc' = "loop"
    /\ awaited' = NoServer
    /\ UNCHANGED <<server_sid, time, waited, wait_time, code, overrun, port, acked, sent,
                   netVars, serverVars>>

-----------------------------------------------------------------------------
(* The servers: _rpc_server_mdp_handle, one packet at a time                *)

\* What server s sends to the socket of call p arrives only while it is open.
Deliver(channel, s, p) ==
    IF p = port /\ pc # "idle" THEN [channel EXCEPT ![s] = @ + 1] ELSE channel

\* Mutant: a copy of the call that is not there is taken.
TakeCallUnchecked(s, p) ==
    /\ serving[s] = 0
    /\ calls' = [calls EXCEPT ![s][p] = @ - 1]

\* Mutant: the call stays in the socket.
TakeCallPeeking(s, p) ==
    /\ serving[s] = 0
    /\ calls[s][p] > 0
    /\ calls' = calls

TakeCall(s, p) ==
    /\ serving[s] = 0
    /\ calls[s][p] > 0
    /\ calls' = [calls EXCEPT ![s][p] = @ - 1]

\* rpc.conf, read again for every call, offers the procedure: the server
\* acknowledges the call and executes it.
AcceptCall(s, p) ==
    /\ TakeCall(s, p)
    /\ serving' = [serving EXCEPT ![s] = p]
    /\ acks' = Deliver(acks, s, p)
    /\ UNCHANGED <<clientVars, answers, executed, published, files, fallback>>

\* rpc.conf does not offer it, or is missing: the server ignores the call.
IgnoreCall(s, p) ==
    /\ TakeCall(s, p)
    /\ UNCHANGED <<clientVars, acks, answers, serverVars>>

\* The answer file of the execution that ends, if its procedure returns one.
AnswerFile(s) == IF s \in FileServers THEN {<<s, serving[s]>>} ELSE {}

\* There is no binary, or it exits with an error: no answer.  The error shows
\* only after the file the binary has named is in the store.
ExecutionFails(s) ==
    /\ serving[s] # 0
    /\ serving' = [serving EXCEPT ![s] = 0]
    /\ published' \in {published, published \cup AnswerFile(s)}
    /\ UNCHANGED <<clientVars, netVars, executed, files, fallback>>

\* The procedure succeeds; a file it names goes into the store.
Executes(s) ==
    /\ serving[s] # 0
    /\ serving' = [serving EXCEPT ![s] = 0]
    /\ executed' = [executed EXCEPT ![s][serving[s]] = @ + 1]
    /\ published' = published \cup AnswerFile(s)

\* The caller is reachable and gets the result as a datagram.
SendResult(s) ==
    /\ Executes(s)
    /\ answers' = Deliver(answers, s, serving[s])
    /\ UNCHANGED <<clientVars, calls, acks, files, fallback>>

\* The caller is not reachable: a server listening on all transports puts the
\* result into Rhizome unless the store refuses it; any other server drops it.
ResultUndeliverable(s) ==
    /\ Executes(s)
    /\ \/ s \in AllMode /\ fallback' = fallback \cup {SidBroadcast}
       \/ UNCHANGED fallback
    /\ UNCHANGED <<clientVars, netVars, files>>

\* Rhizome replicates a file to the client's store, in any order, or never.
FileArrives ==
    \E file \in published \ Range(files) :
        /\ files' = Append(files, file)
        /\ UNCHANGED <<clientVars, netVars, serving, executed, published, fallback>>

-----------------------------------------------------------------------------
Client ==
    \/ Finish
    \/ GiveUp
    \/ SendCall
    \/ AbortCall
    \/ AwaitAnswer
    \/ PollTimeout
    \/ \E s \in Servers :
          ReceiveError(s) \/ ReceiveAck(s) \/ SkipAnswer(s) \/ ReceiveAnswer(s)
          \/ ReceiveHash(s)
    \/ AwaitFile \/ Download

Server(s) ==
    \/ \E p \in Port : AcceptCall(s, p) \/ IgnoreCall(s, p)
    \/ ExecutionFails(s)
    \/ SendResult(s)
    \/ ResultUndeliverable(s)

Next ==
    \/ \E sid \in Destinations : StartCall(sid) \/ RefuseCall(sid)
    \/ Client
    \/ \E s \in Servers : Server(s)
    \/ FileArrives

Spec == Init /\ [][Next]_vars

\* A client process inside a call keeps running; nothing else is assumed.
FairSpec == Spec /\ WF_vars(Client)

-----------------------------------------------------------------------------
(* Safety                                                                   *)

\* The reserved slots come first, so that the insert index is their number, as
\* main.c and GiveUp read it.
SlotsInOrder == TakenFirst(rpc_result)

\* An answer stands beside the SID of the server that computed it, and answers
\* the latest call.  A downloaded file is exempt: it may be anybody's.  So is
\* the array a refused call leaves as it found it.
AnswersAreOwned ==
    \A i \in Slot :
        LET sid == rpc_result[i].server_sid
            content == rpc_result[i].content
        IN  content # NoContent /\ sid \notin FileServers =>
                /\ content[1] = sid
                /\ code # -1 => content[2] = port

\* No answer appears in the array that a server has not computed: whoever owns
\* an answer has executed the call, and whoever is taken to have accepted it
\* has been sent it.
AnswersAreReal ==
    pc # "idle" =>
        /\ \A i \in Slot : rpc_result[i].content # NoContent =>
               executed[rpc_result[i].server_sid][port] > 0
        /\ acked # {} => sent[port] > 0

\* Every copy of a call in flight, being served or served stems from a send of
\* that call: servers repeat work only because the client asked again.
CallsConserved ==
    \A s \in Servers, p \in Port :
        calls[s][p] + executed[s][p] + (IF serving[s] = p THEN 1 ELSE 0) <= sent[p]

\* The return codes, when the flag starts at 0: 2 has a stored answer unless
\* the call went to all, 1 has an ACK and no answer, 0 has neither.
CodesTellTheTruth ==
    ResetsReceived =>
        /\ code = 2 => IF Broadcast THEN acked # {}
                                    ELSE rpc_result[0].content # NoContent
        /\ code = 1 => ~Broadcast /\ acked # {} /\ rpc_result = ClearedResults
        /\ code = 0 => acked = {} /\ rpc_result = ClearedResults

\* Apart from the time it sleeps for files, which nothing bounds, a call lasts as long
\* as the ACKs it may get allow: each server acknowledges each send at most once, and
\* nothing else moves the deadline.
WaitIsBounded ==
    pc # "idle" =>
        /\ time <= wait_time + 1 + waited
        /\ wait_time <= WaitTime + AckExtension * Cardinality(Servers) * sent[port]

\* The array is overrun only by a call that can get more ACKs than it has slots:
\* every server acknowledges each send, and each ACK of an "all" call takes a slot.
OverrunNeedsCrowd ==
    overrun => \E p \in Port : sent[p] * Cardinality(Servers) > MaxResults

\* Within a call a reserved slot keeps its server.
SlotsKeepTheirServer ==
    [][port' = port =>
         \A i \in Slot : rpc_result[i].server_sid # SidAny =>
             rpc_result'[i].server_sid = rpc_result[i].server_sid]_vars

-----------------------------------------------------------------------------
(* What comments and documents say of the program, and the code does not do. *)

\* The comment on the ACK branch: a server that is in the array already is not
\* stored again.  The branch looks for the SID that was called instead.
OneSlotPerServer ==
    \A i, j \in Slot :
        i # j /\ rpc_result[i].server_sid # SidAny =>
            rpc_result[i].server_sid # rpc_result[j].server_sid

\* The path in the array is that of the file the server has answered with.
FileIsTheAnswer ==
    \A i \in Slot : rpc_result[i].content # NoContent =>
        rpc_result[i].content = <<rpc_result[i].server_sid, port>>

-----------------------------------------------------------------------------
(* Liveness                                                                 *)

\* Calls return, if the client runs: whatever is lost, the deadline comes.  Only a call
\* that has been promised a file may hang, in an empty store.
CallReturns == []<>(pc = "idle") \/ <>[](pc = "download" /\ files = <<>>)

-----------------------------------------------------------------------------
(* Refinement                                                               *)

Answered == {s \in Servers : \E i \in Slot :
                /\ rpc_result[i].server_sid = s
                /\ rpc_result[i].content # NoContent}

Abstract == INSTANCE RpcCall WITH
                phase <- IF pc = "idle" THEN "idle" ELSE "waiting",
                dest <- server_sid,
                accepted <- acked,
                answered <- Answered,
                code <- code,
                Late <- FALSE

\* A call over MDP is a call as RpcCall describes it.
ImplementsRpcCall == Abstract!Spec

=============================================================================
