----------------------------- MODULE RhizomeCall -----------------------------
(***************************************************************************)
(* Remote procedure calls over Rhizome, the store-and-forward transport:   *)
(* rpc_client_call_rhizome and its listener (rpc_client_rhizome.c), and    *)
(* _rpc_server_rhizome_process of every server (rpc_server_rhizome.c).     *)
(*                                                                         *)
(* Nobody talks to anybody here.  A call, an ACK and a result are bundles  *)
(* in the store of the node that makes them, and the stores replicate,     *)
(* bundle by bundle, in any order, at any time or never.  The client lists *)
(* its own store once a second and remembers how far it has read; a server *)
(* lists its whole store once a second and remembers, in memory, which     *)
(* calls it has served.                                                    *)
(*                                                                         *)
(* Abstractions.  All the calls of a behaviour name one procedure.  The    *)
(* result of server s for call p is the value <<s, p>>.  The client's      *)
(* store is kept as the sequence of bundles in the order it got them,      *)
(* which is the order of the tokens; of a server's store only the calls    *)
(* matter.  Time is counted in seconds, and one pass of the client's loop  *)
(* takes between 1 and PassTime of them.                                   *)
(***************************************************************************)
EXTENDS RpcResults, Sequences, Functions

CONSTANTS
    FileServers,   \* servers whose procedure returns a file
    Destinations,  \* SIDs the application may call
    ShortWait,     \* initial wait_time, 20 s in the code
    LongWait,      \* wait_time after the first ACK, 120 s in the code
    PassTime,      \* bound: seconds one pass of the client's loop takes
    MaxCalls,      \* bound: calls the application makes
    MaxFailures,   \* bound: failing executions of one call at one server
    MaxRestarts,   \* bound: restarts of one server
    MaxWait        \* bound: seconds a call sleeps until a file has come

ASSUME RhizomeAssumption ==
    /\ FileServers \subseteq Servers
    /\ Destinations \subseteq Servers \cup {SidAny, SidBroadcast}
    /\ ShortWait \in Nat
    /\ LongWait \in Nat
    /\ ShortWait < LongWait
    /\ PassTime \in Nat \ {0}
    /\ MaxCalls \in Nat
    /\ MaxFailures \in Nat
    /\ MaxRestarts \in Nat
    /\ MaxWait \in Nat
    /\ NoContent \notin Servers \cup {SidAny, SidBroadcast}
    /\ NoContent \notin Servers \X (1 .. MaxCalls)

VARIABLES
    pc,          \* where the client stands: "idle" outside a call, "loop" at the
                 \* head of the listener's loop, "read" in its pass over the rows
    server_sid,  \* the destination of the latest call
    received,    \* the global flag: the listener has what it waits for
    rpc_result,  \* the global result array
    time,        \* time(NULL) - start_time
    waited,      \* history: how much of it the call has slept until a file came
    wait_time,   \* when the listener gives up
    code,        \* what the latest call returned
    token,       \* how far the listener has read its store, 0 for NULL
    listed,      \* how far the store went when it was listed last
    awaited,     \* the server whose answer is a file being downloaded
    port,        \* number of calls made, the identity of the latest one
    first,       \* history: how far the first listing of the latest call read
    acked,       \* history: the servers whose ACK the latest call has read
    store,       \* the client's Rhizome store, oldest bundle first
    posted,      \* posted[p]: the destination of call p, NotPosted if not inserted
    running,     \* running[s]: the listen loop of server s goes on
    inbox,       \* inbox[s]: calls for server s that its store holds
    todo,        \* todo[s]: calls the current pass of s has listed and not reached
    refused,     \* refused[s]: return_code of the current pass is -1
    serving,     \* serving[s]: the call server s is executing, or 0
    done,        \* done_calls of server s
    inserted,    \* inserted[b]: copies of bundle b that its server has made
    executed,    \* history: results server s has computed for call p
    failed,      \* history: executions of call p at server s that failed
    restarts     \* history: restarts of server s

clientVars == <<pc, server_sid, received, rpc_result, time, waited, wait_time, code,
                token, listed, awaited, port, first, acked>>
storeVars == <<store, posted, inbox>>
passVars == <<running, todo, refused, serving, done>>
historyVars == <<executed, failed, restarts>>
serverVars == <<passVars, inserted, historyVars>>
vars == <<clientVars, storeVars, serverVars>>

Port == 1 .. MaxCalls
Payload == Servers \X Port
NoCode == -2
NoServer == SidAny
NotPosted == NoContent
Broadcast == server_sid = SidBroadcast

\* What servers insert: ACKs, results, and the files results refer to.
AnswerBundle == [kind : {"ack", "response", "file"}, server : Servers, call : Port]
AckAsResponse(s, p) == [kind |-> "response", server |-> s, call |-> p]  \* mutant
Ack(s, p) == [kind |-> "ack", server |-> s, call |-> p]
Response(s, p) == [kind |-> "response", server |-> s, call |-> p]
File(s, p) == [kind |-> "file", server |-> s, call |-> p]
CallBundle(p) == [kind |-> "call", server |-> NoServer, call |-> p]

ClientTypes ==
    /\ pc \in {"idle", "loop", "read", "download"}
    /\ server_sid \in Servers \cup {SidAny, SidBroadcast}
    /\ received \in 0 .. 1
    /\ rpc_result \in Results(Payload)
    /\ time \in Nat
    /\ waited \in Nat
    /\ wait_time \in {ShortWait, LongWait}
    /\ code \in {NoCode, -1, 2}
    /\ token \in 0 .. listed
    /\ listed \in 0 .. Len(store)
    /\ pc # "idle" => Len(store) > 0
    /\ awaited \in Servers \cup {NoServer}
    /\ pc = "download" => awaited \in Servers
    /\ port \in 0 .. MaxCalls
    /\ first \in 0 .. token
    /\ acked \subseteq Servers

StoreTypes ==
    /\ store \in Seq(AnswerBundle \cup {CallBundle(p) : p \in Port})
    /\ posted \in [Port -> Servers \cup {SidAny, SidBroadcast, NotPosted}]
    /\ inbox \in [Servers -> SUBSET Port]

ServerTypes ==
    /\ running \in [Servers -> BOOLEAN]
    /\ todo \in [Servers -> SUBSET Port]
    /\ refused \in [Servers -> BOOLEAN]
    /\ serving \in [Servers -> Port \cup {0}]
    /\ done \in [Servers -> SUBSET Port]
    /\ inserted \in [AnswerBundle -> Nat]
    /\ executed \in [Servers -> [Port -> Nat]]
    /\ failed \in [Servers -> [Port -> 0 .. MaxFailures]]
    /\ restarts \in [Servers -> 0 .. MaxRestarts]

TypeOK == ClientTypes /\ StoreTypes /\ ServerTypes

Init ==
    /\ pc = "idle"
    /\ server_sid = SidAny
    /\ received = 0
    /\ rpc_result = ClearedResults
    /\ time = 0
    /\ waited = 0
    /\ wait_time = ShortWait
    /\ code = NoCode
    /\ token = 0
    /\ listed = 0
    /\ awaited = NoServer
    /\ port = 0
    /\ first = 0
    /\ acked = {}
    /\ store = <<>>
    /\ posted = [p \in Port |-> NotPosted]
    /\ inbox = [s \in Servers |-> {}]
    /\ running = [s \in Servers |-> TRUE]
    /\ todo = [s \in Servers |-> {}]
    /\ refused = [s \in Servers |-> FALSE]
    /\ serving = [s \in Servers |-> 0]
    /\ done = [s \in Servers |-> {}]
    /\ inserted = [b \in AnswerBundle |-> 0]
    /\ executed = [s \in Servers |-> [p \in Port |-> 0]]
    /\ failed = [s \in Servers |-> [p \in Port |-> 0]]
    /\ restarts = [s \in Servers |-> 0]

-----------------------------------------------------------------------------
(* The client: rpc_client_call_rhizome and _rpc_client_rhizome_listen       *)

\* The call clears the array and the flag and puts its bundle into the store;
\* the listener starts with no token.
StartCall(sid) ==
    /\ pc = "idle"
    /\ port < MaxCalls
    /\ pc' = "loop"
    /\ server_sid' = sid
    /\ received' = 0
    /\ rpc_result' = ClearedResults
    /\ time' = 0
    /\ waited' = 0
    /\ wait_time' = ShortWait
    /\ code' = NoCode
    /\ token' = 0
    /\ listed' = 0
    /\ first' = 0
    /\ acked' = {}
    /\ port' = port + 1
    /\ store' = Append(store, CallBundle(port + 1))
    /\ posted' = [posted EXCEPT ![port + 1] = sid]
    /\ UNCHANGED <<awaited, inbox, serverVars>>

\* The bundle cannot be inserted.
RefuseCall(sid) ==
    /\ pc = "idle"
    /\ port < MaxCalls
    /\ server_sid' = sid
    /\ received' = 0
    /\ rpc_result' = ClearedResults
    /\ acked' = {}
    /\ code' = -1
    /\ port' = port + 1
    /\ UNCHANGED <<pc, time, waited, wait_time, token, listed, awaited, first,
                   storeVars, serverVars>>

Return(c) ==
    /\ pc' = "idle"
    /\ code' = c
    /\ UNCHANGED <<server_sid, rpc_result, time, waited, wait_time, token, listed,
                   awaited, port, first, acked, storeVars, serverVars>>

\* The loop ends: the answer that ends the call has been stored.
Finish ==
    /\ pc = "loop"
    /\ received = 1
    /\ Return(2)
    /\ UNCHANGED received

Expired == time > wait_time

\* Mutant: an "all" call is always content.
CollectedAnyway == Broadcast /\ rpc_client_result_get_insert_index(rpc_result) >= 0

\* At the deadline an "all" call is content with any reserved slot.
Collected == Broadcast /\ rpc_client_result_get_insert_index(rpc_result) > 0

GiveUp ==
    /\ pc = "loop"
    /\ received = 0
    /\ Expired
    /\ IF Collected
       THEN Return(2) /\ received' = 1
       ELSE Return(-1) /\ UNCHANGED received

\* The first listing looks at the newest bundle only.
FirstUnread == Len(store) - 1

\* Mutant: start_time is read again in every pass.
ElapsedInPass(duration) == duration

\* time(NULL) - start_time, a pass later.
Elapsed(duration) == time + duration

\* List the store: the newest bundle if there is no token yet, afterwards the
\* bundles that are newer than the token.
ListStore ==
    /\ pc = "loop"
    /\ received = 0
    /\ ~Expired
    /\ pc' = "read"
    /\ listed' = Len(store)
    /\ token' = IF token = 0 THEN FirstUnread ELSE token
    /\ first' = IF token = 0 THEN FirstUnread ELSE first
    /\ \E duration \in 1 .. PassTime : time' = Elapsed(duration)
    /\ UNCHANGED <<server_sid, received, rpc_result, waited, wait_time, code, awaited,
                   port, acked, storeVars, serverVars>>

\* The listing fails.
ListingFails ==
    /\ pc = "loop"
    /\ received = 0
    /\ ~Expired
    /\ Return(-1)
    /\ UNCHANGED received

\* Take the next row.
Read(bundle) ==
    /\ pc = "read"
    /\ token < listed
    /\ bundle = store[token + 1]
    /\ token' = token + 1
    /\ UNCHANGED <<server_sid, time, waited, code, listed, port, first, storeVars,
                   serverVars>>

\* The pass over the rows is complete.
PassEnds ==
    /\ pc = "read"
    /\ token = listed
    /\ pc' = "loop"
    /\ UNCHANGED <<server_sid, received, rpc_result, time, waited, wait_time, code,
                   token, listed, awaited, port, first, acked, storeVars, serverVars>>

\* A call is not addressed to the client and a file has another name.
SkipBundle(bundle) ==
    /\ Read(bundle)
    /\ bundle.kind \in {"call", "file"}
    /\ UNCHANGED <<pc, received, rpc_result, wait_time, awaited, acked>>

\* A bundle for the client cannot be decrypted.
DecryptionFails ==
    /\ pc = "read"
    /\ token < listed
    /\ store[token + 1].kind \in {"ack", "response"}
    /\ Return(-1)
    /\ UNCHANGED received

\* Mutant: every ACK moves the deadline.
ExtendedByEach == wait_time + LongWait

\* Only the first ACK moves the deadline.
Extended == IF wait_time = ShortWait THEN LongWait ELSE wait_time

ReadAck(bundle) ==
    /\ Read(bundle)
    /\ bundle.kind = "ack"
    /\ wait_time' = Extended
    /\ acked' = acked \cup {bundle.server}
    /\ rpc_result' = IF ReservesSlot(rpc_result, server_sid)
                     THEN Reserve(rpc_result, bundle.server) ELSE rpc_result
    /\ UNCHANGED <<pc, received, awaited>>

\* Mutant: every call skips it.
HasSlot(s) == _rpc_client_result_get_sid_index(rpc_result, s) # -1

\* An "all" call skips the answer of a server that has no slot, for good.
HasPlace(s) == Broadcast => _rpc_client_result_get_sid_index(rpc_result, s) # -1

SkipAnswer(bundle) ==
    /\ Read(bundle)
    /\ bundle.kind = "response"
    /\ ~HasPlace(bundle.server)
    /\ UNCHANGED <<pc, received, rpc_result, wait_time, awaited, acked>>

\* The answer goes into its sender's slot; the one in the last slot ends an
\* "all" call.  Any other call ends with its first answer.  Nothing compares
\* the sender, or the call it answers, with this call.
StoreAnswer(s, payload) ==
    LET position == _rpc_client_result_get_sid_index(rpc_result, s)
        complete == ~Broadcast \/ position = MaxResults - 1
    IN  /\ rpc_result' = IF Broadcast THEN StoreReserved(rpc_result, position, payload)
                                      ELSE StoreSingle(rpc_result, s, payload)
        /\ received' = IF complete THEN 1 ELSE received
        /\ pc' = IF complete THEN "loop" ELSE "read"

ReadAnswer(bundle) ==
    /\ Read(bundle)
    /\ bundle.kind = "response"
    /\ HasPlace(bundle.server)
    /\ bundle.server \notin FileServers
    /\ StoreAnswer(bundle.server, <<bundle.server, bundle.call>>)
    /\ UNCHANGED <<wait_time, awaited, acked>>

\* The answer is a file hash: the client waits for a file, however long.
ReadHash(bundle) ==
    /\ Read(bundle)
    /\ bundle.kind = "response"
    /\ HasPlace(bundle.server)
    /\ bundle.server \in FileServers
    /\ pc' = "download"
    /\ awaited' = bundle.server
    /\ UNCHANGED <<received, rpc_result, wait_time, acked>>

\* _rpc_download_file has found no file, or the store could not be asked: the call
\* sleeps for a second and tries again.  No deadline is looked at meanwhile.
AwaitFile ==
    /\ pc = "download"
    /\ waited < MaxWait
    /\ waited' = waited + 1
    /\ time' = time + 1
    /\ UNCHANGED <<pc, server_sid, received, rpc_result, wait_time, code, token, listed,
                   awaited, port, first, acked, storeVars, serverVars>>

\* The files of the procedure in the store of the client.
FilesArrived == {i \in DOMAIN store : store[i].kind = "file"}

\* _rpc_download_file takes the newest of them.
Download ==
    /\ pc = "download"
    /\ FilesArrived # {}
    /\ LET file == store[Max(FilesArrived)] IN
       StoreAnswer(awaited, <<file.server, file.call>>)
    /\ awaited' = NoServer
    /\ UNCHANGED <<server_sid, time, waited, wait_time, code, token, listed, port,
                   first, acked, storeVars, serverVars>>

-----------------------------------------------------------------------------
(* The servers: _rpc_server_rhizome_process, once a second                  *)

\* What _rpc_server_rhizome_send_result puts into the store.  The server ignores
\* whether that worked; a bundle it could not insert is one that no replication
\* ever takes to the client.
Insert(bundles) ==
    inserted' = [b \in AnswerBundle |-> inserted[b] + IF b \in bundles THEN 1 ELSE 0]

\* A pass lists the calls of the store that are not done.  One that finds none
\* changes nothing.
StartPass(s) ==
    /\ running[s]
    /\ todo[s] = {} /\ serving[s] = 0 /\ ~refused[s]
    /\ inbox[s] \ done[s] # {}
    /\ todo' = [todo EXCEPT ![s] = inbox[s] \ done[s]]
    /\ UNCHANGED <<clientVars, storeVars, running, refused, serving, done, inserted,
                   historyVars>>

\* The pass reaches call p.
Reach(s, p) ==
    /\ running[s]
    /\ serving[s] = 0
    /\ p \in todo[s]
    /\ todo' = [todo EXCEPT ![s] = @ \ {p}]

\* rpc.conf, read again for every call, offers the procedure: an ACK goes into
\* the store and the procedure is executed.
AcceptCall(s, p) ==
    /\ Reach(s, p)
    /\ serving' = [serving EXCEPT ![s] = p]
    /\ Insert({Ack(s, p)})
    /\ UNCHANGED <<clientVars, storeVars, running, refused, done, historyVars>>

\* rpc.conf does not offer it: the pass goes on, and will return -1.
IgnoreCall(s, p) ==
    /\ Reach(s, p)
    /\ refused' = [refused EXCEPT ![s] = TRUE]
    /\ UNCHANGED <<clientVars, storeVars, running, serving, done, inserted, historyVars>>

\* Mutant: a call is done, executed or not.
DoneAnyway(s) == done[s] \cup {serving[s]}

\* A failed call is not done: the next pass acknowledges and executes it again.
DoneAfterFailure(s) == done[s]

AnswerFile(s) == IF s \in FileServers THEN {File(s, serving[s])} ELSE {}

ExecutionFails(s) ==
    /\ serving[s] # 0
    /\ failed[s][serving[s]] < MaxFailures
    /\ failed' = [failed EXCEPT ![s][serving[s]] = @ + 1]
    /\ serving' = [serving EXCEPT ![s] = 0]
    /\ done' = [done EXCEPT ![s] = DoneAfterFailure(s)]
    /\ Insert(AnswerFile(s))
    /\ UNCHANGED <<clientVars, storeVars, running, todo, refused, executed, restarts>>

\* Mutant: the call is never recorded as done.
DoneForgotten(s) == done[s]

\* _rpc_server_rhizome_finished, even if the result could not be inserted.
DoneAfterSuccess(s) == done[s] \cup {serving[s]}

ExecutionSucceeds(s) ==
    /\ serving[s] # 0
    /\ executed' = [executed EXCEPT ![s][serving[s]] = @ + 1]
    /\ serving' = [serving EXCEPT ![s] = 0]
    /\ done' = [done EXCEPT ![s] = DoneAfterSuccess(s)]
    /\ Insert(AnswerFile(s) \cup {Response(s, serving[s])})
    /\ UNCHANGED <<clientVars, storeVars, running, todo, refused, failed, restarts>>

\* The process of server s ends and forgets everything, the done list included.
Stop(s) ==
    /\ running' = [running EXCEPT ![s] = FALSE]
    /\ todo' = [todo EXCEPT ![s] = {}]
    /\ refused' = [refused EXCEPT ![s] = FALSE]
    /\ serving' = [serving EXCEPT ![s] = 0]
    /\ done' = [done EXCEPT ![s] = {}]
    /\ UNCHANGED <<clientVars, storeVars, inserted, historyVars>>

\* The listen loop stops the server after a pass that has refused a call ...
PassRefuses(s) ==
    /\ running[s]
    /\ refused[s] /\ todo[s] = {} /\ serving[s] = 0
    /\ Stop(s)

\* ... and after one that could not list the store or decrypt a call.
PassFails(s) ==
    /\ running[s]
    /\ serving[s] = 0
    /\ Stop(s)

\* Somebody kills the process, wherever it is.
ServerCrashes(s) ==
    /\ running[s]
    /\ Stop(s)

\* Somebody starts it again.
ServerRestarts(s) ==
    /\ ~running[s]
    /\ restarts[s] < MaxRestarts
    /\ running' = [running EXCEPT ![s] = TRUE]
    /\ restarts' = [restarts EXCEPT ![s] = @ + 1]
    /\ UNCHANGED <<clientVars, storeVars, todo, refused, serving, done, inserted,
                   executed, failed>>

-----------------------------------------------------------------------------
(* Rhizome: servald replicates the bundles                                  *)

\* A call reaches the store of a server it is for: without a recipient, of any.
CallArrives(s, p) ==
    /\ posted[p] \in {s, SidAny, SidBroadcast}
    /\ p \notin inbox[s]
    /\ inbox' = [inbox EXCEPT ![s] = @ \cup {p}]
    /\ UNCHANGED <<clientVars, store, posted, serverVars>>

\* A bundle of a server reaches the store of the client.  Bound: what arrives
\* after the last call has ended is left out, since nothing reads it.
AnswerArrives(b) ==
    /\ pc # "idle" \/ port < MaxCalls
    /\ Cardinality({i \in DOMAIN store : store[i] = b}) < inserted[b]
    /\ store' = Append(store, b)
    /\ UNCHANGED <<clientVars, posted, inbox, serverVars>>

-----------------------------------------------------------------------------
Client ==
    \/ Finish
    \/ GiveUp
    \/ ListStore
    \/ ListingFails
    \/ PassEnds
    \/ DecryptionFails
    \/ \E bundle \in Range(store) :
          SkipBundle(bundle) \/ ReadAck(bundle) \/ SkipAnswer(bundle)
          \/ ReadAnswer(bundle) \/ ReadHash(bundle)
    \/ AwaitFile \/ Download

\* What the process of server s does while it runs.
Serve(s) ==
    \/ StartPass(s)
    \/ \E p \in Port : AcceptCall(s, p) \/ IgnoreCall(s, p)
    \/ ExecutionFails(s)
    \/ ExecutionSucceeds(s)
    \/ PassRefuses(s)

Replicate ==
    \/ \E s \in Servers, p \in Port : CallArrives(s, p)
    \/ \E b \in AnswerBundle : AnswerArrives(b)

Next ==
    \/ \E sid \in Destinations : StartCall(sid) \/ RefuseCall(sid)
    \/ Client
    \/ \E s \in Servers :
          Serve(s) \/ PassFails(s) \/ ServerCrashes(s) \/ ServerRestarts(s)
    \/ Replicate

Spec == Init /\ [][Next]_vars

\* The client process inside a call and the servers that run keep running.
FairSpec == Spec /\ WF_vars(Client) /\ \A s \in Servers : WF_vars(Serve(s))

-----------------------------------------------------------------------------
(* Safety                                                                   *)

\* The reserved slots come first, so that the insert index is their number.
SlotsInOrder == TakenFirst(rpc_result)

\* An answer stands beside the SID of the server that computed it, for a call
\* that was addressed to that server.  It need not be the latest call.
AnswersAreReal ==
    \A i \in Slot :
        LET sid == rpc_result[i].server_sid
            content == rpc_result[i].content
        IN  content # NoContent /\ sid \notin FileServers =>
                /\ content[1] = sid
                /\ executed[sid][content[2]] > 0
                /\ posted[content[2]] \in {sid, SidAny, SidBroadcast}

\* 2 has a stored answer unless the call went to all; -1 has none, again unless
\* it did.
CodesTellTheTruth ==
    /\ code = 2 => IF Broadcast THEN acked # {} ELSE rpc_result[0].content # NoContent
    /\ code = -1 => Broadcast \/ rpc_result = ClearedResults

\* However often it lists the same call, a server executes it with success once
\* in its life: only a restart, which empties the done list, repeats the work.
ExecutedOnce ==
    \A s \in Servers, p \in Port : executed[s][p] <= 1 + restarts[s]

\* Apart from the time it sleeps for files, which nothing bounds, the first ACK, and no
\* other, gives the call more time.
WaitIsBounded ==
    pc # "idle" =>
        time <= PassTime + waited + IF acked = {} THEN ShortWait ELSE LongWait

\* The rows the client has read since its first listing.
HasRead(i) == i \in first + 1 .. token

\* No answer that comes after the first listing is read and dropped: the first
\* one ends a call to one or any server, and a call to all keeps that of every
\* server whose ACK, and slot, it has got before.
NoAnswerOverlooked ==
    pc \in {"loop", "read"} /\ received = 0 =>
        \A j \in DOMAIN store : HasRead(j) /\ store[j].kind = "response" =>
            LET s == store[j].server
                position == _rpc_client_result_get_sid_index(rpc_result, s)
            IN  /\ Broadcast
                /\ (\E i \in 1 .. j : HasRead(i) /\ store[i].kind = "ack" /\ store[i].server = s)
                   /\ position # -1
                   => rpc_result[position].content # NoContent

-----------------------------------------------------------------------------
(* The contract                                                             *)

\* Servers whose answer is in the array.
Answered == {s \in Servers : \E i \in Slot :
                /\ rpc_result[i].server_sid = s
                /\ rpc_result[i].content # NoContent}

Abstract == INSTANCE RpcCall WITH
                phase <- IF pc = "idle" THEN "idle" ELSE "waiting",
                dest <- server_sid,
                accepted <- acked,
                answered <- Answered,
                code <- code,
                Late <- TRUE

\* A call over Rhizome is a call as RpcCall describes it, but that it may be answered
\* for another one; it never returns 0 or 1.
ImplementsRpcCall == Abstract!Spec

-----------------------------------------------------------------------------
(* What documents and messages say of the program, and the code does not do. *)

\* technology.md: server_sid is the server which should execute the call.
CalledServerAnswers ==
    server_sid \in Servers /\ code = 2 => rpc_result[0].server_sid = server_sid

-----------------------------------------------------------------------------
(* Liveness                                                                 *)

\* Calls return, if the client runs: whatever arrives, the deadline comes.  Only a call
\* that has been promised a file may hang, while its store holds none.
CallReturns == []<>(pc = "idle") \/ <>[](pc = "download" /\ FilesArrived = {})

\* A server that goes on running retries a call in its store until an execution
\* succeeds.
CallsAreServed ==
    \A s \in Servers, p \in Port :
        (p \in inbox[s] /\ running[s]) ~> (executed[s][p] > 0 \/ ~running[s])

=============================================================================
