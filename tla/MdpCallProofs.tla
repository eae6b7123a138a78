--------------------------- MODULE MdpCallProofs ---------------------------
(***************************************************************************)
(* Theorems about MdpCall, for any number of servers, slots, calls and     *)
(* sends.                                                                  *)
(***************************************************************************)
EXTENDS MdpCall, RpcResultsProofs

-----------------------------------------------------------------------------
(* Types                                                                    *)

\* The array stays an array of results whatever an answer makes the client do.
LEMMA StoreAnswerType ==
    ASSUME ClientTypes, NEW s \in Servers, NEW payload \in Payload, StoreAnswer(s, payload)
    PROVE  rpc_result' \in Results(Payload) /\ received' \in 0 .. 2
<1> DEFINE position == _rpc_client_result_get_sid_index(rpc_result, s)
<1>1. /\ StoreReserved(rpc_result, position, payload) \in Results(Payload)
      /\ StoreSingle(rpc_result, s, payload) \in Results(Payload)
    BY StoreReservedType, StoreSingleType DEF ClientTypes
<1> QED  BY <1>1 DEF ClientTypes, StoreAnswer

\* What the client keeps stays well typed in its own steps.
LEMMA ClientTypesStep ==
    ASSUME TypeOK, Client
    PROVE  ClientTypes'
<1>0. ClientTypes /\ NetTypes /\ ServerTypes
    BY DEF TypeOK
<1>1. CASE Finish
    BY <1>0, <1>1 DEF ClientTypes, Finish, Return
<1>2. CASE GiveUp
    BY <1>0, <1>2 DEF ClientTypes, GiveUp, Return
<1>3. CASE SendCall
    <2>1. port \in Port /\ sent' \in [Port -> 0 .. MaxSends]
        BY <1>0, <1>3, MdpAssumption DEF ClientTypes, SendCall
    <2> QED  BY <1>0, <1>3, <2>1 DEF ClientTypes, SendCall
<1>4. CASE AbortCall
    BY <1>0, <1>4 DEF ClientTypes, AbortCall, Return
<1>5. CASE AwaitAnswer
    BY <1>0, <1>5 DEF ClientTypes, AwaitAnswer
<1>6. CASE PollTimeout
    BY <1>0, <1>6 DEF ClientTypes, PollTimeout, Elapsed
<1>7. ASSUME NEW s \in Servers, ReceiveError(s)
      PROVE  ClientTypes'
    BY <1>0, <1>7 DEF ClientTypes, ReceiveError, TakeAck, TakeAnswer
<1>8. ASSUME NEW s \in Servers, ReceiveAck(s)
      PROVE  ClientTypes'
    <2>1. rpc_result' \in Results(Payload) /\ overrun' \in BOOLEAN
        BY <1>0, <1>8, ReserveType DEF ClientTypes, ReceiveAck, ReserveOverruns
    <2> QED  BY <1>0, <1>8, <2>1, MdpAssumption DEF ClientTypes, ReceiveAck, TakeAck
<1>9. ASSUME NEW s \in Servers, SkipAnswer(s)
      PROVE  ClientTypes'
    BY <1>0, <1>9 DEF ClientTypes, SkipAnswer, TakeAnswer
<1>10. ASSUME NEW s \in Servers, ReceiveAnswer(s)
       PROVE  ClientTypes'
    <2>1. <<s, port>> \in Payload
        BY <1>0, <1>10 DEF ClientTypes, ReceiveAnswer, TakeAnswer, Payload
    <2>2. rpc_result' \in Results(Payload) /\ received' \in 0 .. 2
        BY <1>0, <1>10, <2>1, StoreAnswerType DEF ReceiveAnswer
    <2> QED  BY <1>0, <1>10, <2>2 DEF ClientTypes, ReceiveAnswer, TakeAnswer
<1>11. ASSUME NEW s \in Servers, ReceiveHash(s)
       PROVE  ClientTypes'
    BY <1>0, <1>11 DEF ClientTypes, ReceiveHash, TakeAnswer
<1>12. CASE Download
    <2>1. files[Len(files)] \in Payload
        BY <1>0, <1>12, MdpAssumption DEF ServerTypes, Download, Payload
    <2>2. rpc_result' \in Results(Payload) /\ received' \in 0 .. 2
        BY <1>0, <1>12, <2>1, StoreAnswerType DEF ClientTypes, Download
    <2> QED  BY <1>0, <1>12, <2>2 DEF ClientTypes, Download, NoServer
<1>13. CASE AwaitFile
    BY <1>0, <1>13 DEF ClientTypes, AwaitFile
<1> QED
    BY <1>1, <1>2, <1>3, <1>4, <1>5, <1>6, <1>7, <1>8, <1>9, <1>10, <1>11, <1>12, <1>13 DEF Client

\* The client's steps keep the datagram counts, and no step of it touches the
\* servers.
LEMMA ClientStepType ==
    ASSUME TypeOK, Client
    PROVE  TypeOK'
<1>0. ClientTypes /\ NetTypes /\ ServerTypes
    BY DEF TypeOK
<1>1. UNCHANGED serverVars
    BY DEF Client, Finish, GiveUp, Return, SendCall, AbortCall, AwaitAnswer, PollTimeout,
           ReceiveError, ReceiveAck, SkipAnswer, ReceiveAnswer, ReceiveHash, AwaitFile, Download
<1>2. ServerTypes'
    BY <1>0, <1>1 DEF ServerTypes, serverVars
<1>3. NetTypes'
    <2>1. ASSUME NEW c, Return(c)
          PROVE  NetTypes'
        BY <1>0, <2>1 DEF NetTypes, Return
    <2>2. CASE SendCall
        <3>1. port \in Port
            BY <1>0, <2>2 DEF ClientTypes, SendCall
        <3>2. CASE UNCHANGED calls
            BY <1>0, <2>2, <3>2 DEF NetTypes, SendCall
        <3>3. CASE calls' = [s \in Servers |->
                               IF s \in Recipients THEN [calls[s] EXCEPT ![port] = @ + 1]
                                                   ELSE calls[s]]
            <4>1. ASSUME NEW s \in Servers
                  PROVE  [calls[s] EXCEPT ![port] = @ + 1] \in [Port -> Nat]
                BY <1>0, <3>1 DEF NetTypes
            <4>2. calls' \in [Servers -> [Port -> Nat]]
                BY <1>0, <3>3, <4>1 DEF NetTypes
            <4> QED  BY <1>0, <2>2, <4>2 DEF NetTypes, SendCall
        <3> QED  BY <2>2, <3>2, <3>3 DEF SendCall
    <2>3. ASSUME NEW s \in Servers, TakeAck(s) \/ TakeAnswer(s)
          PROVE  NetTypes'
        <3>1. CASE TakeAck(s)
            BY <1>0, <3>1 DEF NetTypes, TakeAck
        <3>2. CASE TakeAnswer(s)
            BY <1>0, <3>2 DEF NetTypes, TakeAnswer
        <3> QED  BY <2>3, <3>1, <3>2
    <2>4. CASE UNCHANGED netVars
        BY <1>0, <2>4 DEF NetTypes, netVars
    <2> QED
        BY <2>1, <2>2, <2>3, <2>4
        DEF Client, Finish, GiveUp, AbortCall, AwaitAnswer, PollTimeout,
            ReceiveError, ReceiveAck, SkipAnswer, ReceiveAnswer, ReceiveHash, AwaitFile, Download
<1> QED  BY <1>2, <1>3, ClientTypesStep DEF TypeOK

\* A server's step, and the replication of a file.
LEMMA ServerStepType ==
    ASSUME TypeOK, (\E s \in Servers : Server(s)) \/ FileArrives
    PROVE  TypeOK'
<1>0. ClientTypes /\ NetTypes /\ ServerTypes
    BY DEF TypeOK
<1>1. UNCHANGED clientVars
    BY DEF Server, AcceptCall, IgnoreCall, ExecutionFails, SendResult, ResultUndeliverable,
           FileArrives
<1>2. ClientTypes'
    BY <1>0, <1>1 DEF ClientTypes, clientVars
<1>3. ASSUME NEW s \in Servers, NEW channel \in [Servers -> Nat], NEW p
      PROVE  Deliver(channel, s, p) \in [Servers -> Nat]
    BY DEF Deliver
<1>4. ASSUME NEW s \in Servers, NEW p \in Port, TakeCall(s, p)
      PROVE  calls' \in [Servers -> [Port -> Nat]]
    BY <1>0, <1>4 DEF NetTypes, TakeCall
<1>5. ASSUME NEW s \in Servers, NEW p \in Port, AcceptCall(s, p) \/ IgnoreCall(s, p)
      PROVE  NetTypes' /\ ServerTypes'
    <2>1. CASE AcceptCall(s, p)
        BY <1>0, <1>3, <1>4, <2>1 DEF AcceptCall, NetTypes, ServerTypes
    <2>2. CASE IgnoreCall(s, p)
        BY <1>0, <1>4, <2>2 DEF IgnoreCall, NetTypes, ServerTypes, serverVars
    <2> QED  BY <1>5, <2>1, <2>2
<1>6. ASSUME NEW s \in Servers, ExecutionFails(s)
      PROVE  NetTypes' /\ ServerTypes'
    <2>1. serving[s] \in Port /\ published' \subseteq FileServers \X Port /\ published \subseteq published'
        BY <1>0, <1>6 DEF ExecutionFails, AnswerFile, ServerTypes
    <2> QED  BY <1>0, <1>6, <2>1 DEF ExecutionFails, NetTypes, ServerTypes, netVars
<1>7. ASSUME NEW s \in Servers, Executes(s), UNCHANGED files, fallback' \subseteq {SidBroadcast}
      PROVE  ServerTypes'
    <2>1. serving[s] \in Port /\ published' \subseteq FileServers \X Port /\ published \subseteq published'
        BY <1>0, <1>7 DEF Executes, AnswerFile, ServerTypes
    <2>2. serving' \in [Servers -> Port \cup {0}] /\ executed' \in [Servers -> [Port -> Nat]]
        BY <1>0, <1>7, <2>1 DEF Executes, ServerTypes
    <2> QED  BY <1>0, <1>7, <2>1, <2>2 DEF ServerTypes
<1>8. ASSUME NEW s \in Servers, SendResult(s)
      PROVE  NetTypes' /\ ServerTypes'
    BY <1>0, <1>3, <1>7, <1>8 DEF SendResult, NetTypes, ServerTypes
<1>9. ASSUME NEW s \in Servers, ResultUndeliverable(s)
      PROVE  NetTypes' /\ ServerTypes'
    BY <1>0, <1>7, <1>9 DEF ResultUndeliverable, NetTypes, ServerTypes, netVars
<1>10. CASE FileArrives
    <2>1. PICK file \in published : files' = Append(files, file)
        BY <1>10 DEF FileArrives
    <2>2. files' \in Seq(published)
        BY <1>0, <2>1 DEF ServerTypes
    <2>3. UNCHANGED <<netVars, serving, executed, published, fallback>>
        BY <1>10 DEF FileArrives
    <2> QED  BY <1>0, <1>2, <2>2, <2>3 DEF TypeOK, NetTypes, ServerTypes, netVars
<1> QED
    BY <1>2, <1>5, <1>6, <1>8, <1>9, <1>10 DEF TypeOK, Server

\* Every reachable state is well typed: in particular no count of datagrams
\* falls below zero, and no answer but a server's stands in the array.
THEOREM TypeCorrect == Spec => []TypeOK
<1>1. Init => TypeOK
    <2> SUFFICES ASSUME Init
                 PROVE  ClientTypes /\ NetTypes /\ ServerTypes
        BY DEF TypeOK
    <2>1. ClientTypes
        <3>1. rpc_result \in Results(Payload)
            BY ClearedType DEF Init
        <3>2. sent \in [Port -> 0 .. MaxSends]
            BY MdpAssumption DEF Init
        <3>3. code \in -2 .. 2 /\ port \in 0 .. MaxCalls /\ wait_time \in Nat
            BY MdpAssumption DEF Init, NoCode
        <3>4. overrun \in BOOLEAN
            BY DEF Init
        <3>5. awaited \in Servers \cup {NoServer} /\ (pc = "download" => awaited \in Servers)
            BY DEF Init
        <3>6. /\ pc \in {"idle", "loop", "poll", "download"}
              /\ pc # "idle" => port \in Port
              /\ server_sid \in Servers \cup {SidAny, SidBroadcast}
              /\ received \in 0 .. 2
              /\ time \in Nat
              /\ waited \in Nat
              /\ acked \subseteq Servers
            BY DEF Init
        <3> QED  BY <3>1, <3>2, <3>3, <3>4, <3>5, <3>6 DEF ClientTypes
    <2>2. NetTypes
        BY DEF Init, NetTypes
    <2>3. ServerTypes
        BY DEF Init, ServerTypes
    <2> QED  BY <2>1, <2>2, <2>3
<1>2. TypeOK /\ [Next]_vars => TypeOK'
    <2> SUFFICES ASSUME TypeOK, [Next]_vars
                 PROVE  TypeOK'
        OBVIOUS
    <2>1. ASSUME NEW sid \in Destinations, StartCall(sid)
          PROVE  TypeOK'
        <3>1. ClientTypes'
            BY <2>1, MdpAssumption, ClearedType
            DEF TypeOK, ClientTypes, StartCall, EntryFlag, Port, NoCode
        <3> QED  BY <2>1, <3>1 DEF TypeOK, StartCall, NetTypes, ServerTypes, netVars, serverVars
    <2>2. ASSUME NEW sid \in Destinations, RefuseCall(sid)
          PROVE  TypeOK'
        <3>1. ClientTypes'
            BY <2>2, MdpAssumption, ClearedType
            DEF TypeOK, ClientTypes, RefuseCall, EntryFlag, Port
        <3> QED  BY <2>2, <3>1 DEF TypeOK, RefuseCall, NetTypes, ServerTypes, netVars, serverVars
    <2>3. CASE UNCHANGED vars
        BY <2>3 DEF TypeOK, ClientTypes, NetTypes, ServerTypes, vars, clientVars, netVars, serverVars
    <2> QED  BY <2>1, <2>2, <2>3, ClientStepType, ServerStepType DEF Next
<1> QED  BY <1>1, <1>2, PTL DEF Spec

-----------------------------------------------------------------------------
(* Calls are conserved                                                      *)

\* The copies of call p at server s: in flight, being served, served.
LEMMA CallsConservedStep ==
    ASSUME TypeOK, CallsConserved, [Next]_vars
    PROVE  CallsConserved'
<1> DEFINE Copies(s, p) ==
        calls[s][p] + executed[s][p] + (IF serving[s] = p THEN 1 ELSE 0)
<1>0. /\ calls \in [Servers -> [Port -> Nat]]
      /\ executed \in [Servers -> [Port -> Nat]]
      /\ serving \in [Servers -> Port \cup {0}]
      /\ sent \in [Port -> Int]
      /\ 0 \notin Port
    BY DEF TypeOK, ClientTypes, NetTypes, ServerTypes, Port
<1>1. CASE UNCHANGED <<calls, executed, serving, sent>>
    BY <1>1 DEF CallsConserved
<1>2. CASE SendCall
    <2>1. CASE UNCHANGED <<sent, calls>>
        BY <1>1, <1>2, <2>1 DEF SendCall, serverVars
    <2>2. CASE /\ sent' = [sent EXCEPT ![port] = @ + 1]
               /\ calls' = [s \in Servers |->
                               IF s \in Recipients THEN [calls[s] EXCEPT ![port] = @ + 1]
                                                   ELSE calls[s]]
        <3> SUFFICES ASSUME NEW s \in Servers, NEW p \in Port
                     PROVE  Copies(s, p)' <= sent'[p]
            BY DEF CallsConserved
        <3>1. Copies(s, p) <= sent[p]
            BY DEF CallsConserved
        <3>2. executed' = executed /\ serving' = serving
            BY <1>2 DEF SendCall, serverVars
        <3>3. CASE p = port
            <4>1. sent'[p] = sent[p] + 1
                BY <1>0, <2>2, <3>3
            <4>2. calls'[s][p] \in {calls[s][p], calls[s][p] + 1}
                BY <1>0, <2>2, <3>3
            <4> QED  BY <1>0, <3>1, <3>2, <4>1, <4>2
        <3>4. CASE p # port
            <4>1. sent'[p] = sent[p] /\ calls'[s][p] = calls[s][p]
                BY <1>0, <2>2, <3>4
            <4> QED  BY <3>1, <3>2, <4>1
        <3> QED  BY <3>3, <3>4
    <2> QED  BY <1>2, <2>1, <2>2 DEF SendCall
<1>3. ASSUME NEW t \in Servers, NEW q \in Port, AcceptCall(t, q) \/ IgnoreCall(t, q)
      PROVE  CallsConserved'
    <2> SUFFICES ASSUME NEW s \in Servers, NEW p \in Port
                 PROVE  Copies(s, p)' <= sent'[p]
        BY DEF CallsConserved
    <2>1. Copies(s, p) <= sent[p]
        BY DEF CallsConserved
    <2>2. executed' = executed /\ sent' = sent
        BY <1>3 DEF AcceptCall, IgnoreCall, clientVars, serverVars
    <2>3. /\ serving[t] = 0 /\ calls[t][q] > 0
          /\ calls' = [calls EXCEPT ![t][q] = @ - 1]
        BY <1>3 DEF AcceptCall, IgnoreCall, TakeCall
    <2>4. serving' \in {serving, [serving EXCEPT ![t] = q]}
        BY <1>3 DEF AcceptCall, IgnoreCall, serverVars
    <2>5. CASE s = t /\ p = q
        <3>1. calls'[s][p] = calls[s][p] - 1
            BY <1>0, <2>3, <2>5
        <3> QED  BY <1>0, <2>1, <2>2, <2>3, <2>5, <3>1
    <2>6. CASE ~ (s = t /\ p = q)
        <3>1. calls'[s][p] = calls[s][p]
            BY <1>0, <2>3, <2>6
        <3>2. serving'[s] = p => serving[s] = p
            BY <1>0, <2>3, <2>4, <2>6
        <3> QED  BY <1>0, <2>1, <2>2, <3>1, <3>2
    <2> QED  BY <2>5, <2>6
<1>4. ASSUME NEW t \in Servers, serving[t] # 0, serving' = [serving EXCEPT ![t] = 0],
             \/ executed' = executed
             \/ executed' = [executed EXCEPT ![t][serving[t]] = @ + 1],
             UNCHANGED <<calls, sent>>
      PROVE  CallsConserved'
    <2> SUFFICES ASSUME NEW s \in Servers, NEW p \in Port
                 PROVE  Copies(s, p)' <= sent'[p]
        BY DEF CallsConserved
    <2>1. Copies(s, p) <= sent[p]
        BY DEF CallsConserved
    <2>2. CASE s = t /\ p = serving[t]
        <3>1. executed'[s][p] \in {executed[s][p], executed[s][p] + 1} /\ serving'[s] = 0
            BY <1>0, <1>4, <2>2
        <3> QED  BY <1>0, <1>4, <2>1, <2>2, <3>1
    <2>3. CASE ~ (s = t /\ p = serving[t])
        <3>1. executed'[s][p] = executed[s][p] /\ (serving'[s] = p => serving[s] = p)
            BY <1>0, <1>4, <2>3
        <3> QED  BY <1>0, <1>4, <2>1, <3>1
    <2> QED  BY <2>2, <2>3
<1>5. ASSUME NEW s \in Servers, Server(s)
      PROVE  CallsConserved'
    BY <1>3, <1>4, <1>5
    DEF Server, ExecutionFails, SendResult, ResultUndeliverable, Executes, clientVars, netVars
<1>6. ASSUME NEW sid, StartCall(sid) \/ RefuseCall(sid)
      PROVE  UNCHANGED <<calls, executed, serving, sent>>
    BY <1>6 DEF StartCall, RefuseCall, netVars, serverVars
<1>7. CASE Client
    BY <1>1, <1>2, <1>7
    DEF Client, Finish, GiveUp, Return, AbortCall, AwaitAnswer, PollTimeout, ReceiveError,
        ReceiveAck, SkipAnswer, ReceiveAnswer, ReceiveHash, AwaitFile, Download, TakeAck, TakeAnswer,
        netVars, serverVars
<1>8. CASE FileArrives
    BY <1>1, <1>8 DEF FileArrives, clientVars, netVars
<1>9. CASE UNCHANGED vars
    BY <1>1, <1>9 DEF vars, clientVars, netVars, serverVars
<1> QED  BY <1>1, <1>5, <1>6, <1>7, <1>8, <1>9 DEF Next

\* A server executes a call no more often than the client has sent it, however
\* the datagrams are lost, delayed and served.
THEOREM CallsAreConserved == Spec => []CallsConserved
<1>1. Init => CallsConserved
    BY DEF Init, CallsConserved, Port
<1> QED  BY <1>1, TypeCorrect, CallsConservedStep, PTL DEF Spec

-----------------------------------------------------------------------------
(* The result array                                                         *)

\* A new call clears the array ...
ArrayCleared == pc = "idle" /\ port' # port /\ rpc_result' = ClearedResults

\* ... and a packet of server s writes to it: an ACK, or an answer that stores q.
ArrayWritten(s, q) ==
    \/ /\ pc = "poll"
       /\ port' = port
       /\ rpc_result' = Reserve(rpc_result, s)
    \/ /\ pc \in {"poll", "download"}
       /\ port' = port
       /\ s \notin FileServers => q = <<s, port>>
       /\ StoreAnswer(s, q)

\* The writes of the array, one per step that makes one.
LEMMA ArrayChanges ==
    ASSUME TypeOK, pc = "download" => awaited \in FileServers, [Next]_vars
    PROVE  UNCHANGED rpc_result \/ ArrayCleared \/ \E s \in Servers, q \in Payload : ArrayWritten(s, q)
<1>0. port \in Int /\ Servers \X Port = Payload
    BY DEF TypeOK, ClientTypes, Payload
<1>1. ASSUME NEW s \in Servers, ReceiveAck(s)
      PROVE  UNCHANGED rpc_result \/ (\E q \in Payload : ArrayWritten(s, q))
    <2>1. port \in Port
        BY <1>1 DEF TypeOK, ClientTypes, ReceiveAck, TakeAck
    <2>2. <<s, port>> \in Payload
        BY <1>0, <2>1
    <2> QED  BY <1>1, <2>2 DEF ReceiveAck, TakeAck, ArrayWritten
<1>2. ASSUME NEW s \in Servers, ReceiveAnswer(s)
      PROVE  \E q \in Payload : ArrayWritten(s, q)
    <2>1. port \in Port
        BY <1>2 DEF TypeOK, ClientTypes, ReceiveAnswer, TakeAnswer
    <2>2. <<s, port>> \in Payload
        BY <1>0, <2>1
    <2> QED  BY <1>2, <2>2 DEF ReceiveAnswer, TakeAnswer, ArrayWritten
<1>3. ASSUME Download
      PROVE  \E s \in Servers, q \in Payload : ArrayWritten(s, q)
    <2>1. files[Len(files)] \in published /\ published \subseteq FileServers \X Port
        BY <1>3 DEF TypeOK, ServerTypes, Download
    <2>2. files[Len(files)] \in Payload
        BY <1>0, <2>1, MdpAssumption
    <2>3. awaited \in Servers /\ awaited \in FileServers
        BY <1>3 DEF TypeOK, ClientTypes, Download
    <2> QED  BY <1>3, <2>2, <2>3 DEF Download, ArrayWritten
<1>4. ASSUME NEW sid \in Destinations, StartCall(sid) \/ RefuseCall(sid)
      PROVE  UNCHANGED rpc_result \/ ArrayCleared
    BY <1>0, <1>4 DEF StartCall, RefuseCall, ArrayCleared
<1>5. ASSUME NEW s \in Servers, NEW p, AcceptCall(s, p) \/ IgnoreCall(s, p)
      PROVE  UNCHANGED rpc_result
    BY <1>5 DEF AcceptCall, IgnoreCall, clientVars
<1>6. ASSUME NEW s \in Servers, ExecutionFails(s) \/ SendResult(s) \/ ResultUndeliverable(s)
      PROVE  UNCHANGED rpc_result
    BY <1>6 DEF ExecutionFails, SendResult, ResultUndeliverable, clientVars
<1>7. CASE Client
    BY <1>1, <1>2, <1>3, <1>7
    DEF Client, Finish, GiveUp, Return, SendCall, AbortCall, AwaitAnswer, PollTimeout,
        ReceiveError, SkipAnswer, ReceiveHash, AwaitFile
<1>8. CASE UNCHANGED vars \/ FileArrives
    BY <1>8 DEF vars, clientVars, FileArrives
<1> QED  BY <1>4, <1>5, <1>6, <1>7, <1>8 DEF Next, Server

\* While a call that takes one answer has none, the array is clear; and no packet
\* is awaited after the answer that ends a call.
Unanswered ==
    /\ pc \in {"poll", "download"} => received # 2
    /\ pc # "idle" /\ received # 2 /\ ~Broadcast => rpc_result = ClearedResults
    /\ pc = "download" => awaited \in FileServers

\* Every step keeps it: the answer that ends a call sets the flag to 2 with it.
LEMMA UnansweredStep ==
    ASSUME TypeOK, Unanswered, [Next]_vars
    PROVE  Unanswered'
<1> USE DEF Unanswered, Broadcast
<1>0. received \in 0 .. 2
    BY DEF TypeOK, ClientTypes
<1>1. ASSUME NEW sid \in Destinations, StartCall(sid) \/ RefuseCall(sid)
      PROVE  Unanswered'
    BY <1>1 DEF StartCall, RefuseCall
<1>2. ASSUME NEW c, Return(c)
      PROVE  Unanswered'
    BY <1>2 DEF Return
<1>3. CASE SendCall \/ AwaitAnswer
    BY <1>3 DEF SendCall, AwaitAnswer
<1>4. CASE PollTimeout
    BY <1>4 DEF PollTimeout
<1>5. ASSUME NEW s \in Servers, ReceiveError(s) \/ SkipAnswer(s)
      PROVE  Unanswered'
    BY <1>5 DEF ReceiveError, SkipAnswer, TakeAck, TakeAnswer
<1>6. ASSUME NEW s \in Servers, ReceiveAck(s)
      PROVE  Unanswered'
    BY <1>6 DEF ReceiveAck, TakeAck, ReservesSlot
<1>7. ASSUME NEW s \in Servers, ReceiveAnswer(s)
      PROVE  Unanswered'
    BY <1>7 DEF ReceiveAnswer, StoreAnswer, TakeAnswer
<1>8. ASSUME NEW s \in Servers, ReceiveHash(s)
      PROVE  Unanswered'
    BY <1>8 DEF ReceiveHash, TakeAnswer
<1>9. CASE Download
    BY <1>9 DEF Download, StoreAnswer
<1>10. CASE UNCHANGED clientVars
    BY <1>10 DEF clientVars
<1>11. CASE AwaitFile
    BY <1>11 DEF AwaitFile
<1> QED
    BY <1>1, <1>2, <1>3, <1>4, <1>5, <1>6, <1>7, <1>8, <1>9, <1>10, <1>11
    DEF Next, Client, Finish, GiveUp, AbortCall, Server, AcceptCall, IgnoreCall,
        ExecutionFails, SendResult, ResultUndeliverable, FileArrives, vars

\* It holds in every behaviour.
LEMMA UnansweredCorrect == Spec => []Unanswered
<1>1. Init => Unanswered
    BY DEF Init, Unanswered
<1> QED  BY <1>1, TypeCorrect, UnansweredStep, PTL DEF Spec

\* A write keeps the taken slots in front and the slots with their servers.
LEMMA SlotsInOrderStep ==
    ASSUME TypeOK, Unanswered, SlotsInOrder, [Next]_vars
    PROVE  SlotsInOrder'
<1>0. rpc_result \in Results(Payload) /\ TakenFirst(rpc_result)
    BY DEF TypeOK, ClientTypes, SlotsInOrder
<1>1. CASE UNCHANGED rpc_result
    BY <1>0, <1>1 DEF SlotsInOrder
<1>2. CASE ArrayCleared
    BY <1>2, ClearedOrder DEF SlotsInOrder, ArrayCleared
<1>3. ASSUME NEW s \in Servers, NEW q \in Payload, ArrayWritten(s, q)
      PROVE  SlotsInOrder'
    BY <1>0, <1>3, ReserveOrder, StoreReservedOrder, StoreSingleOrder
    DEF SlotsInOrder, ArrayWritten, StoreAnswer
<1> QED  BY <1>1, <1>2, <1>3, ArrayChanges DEF Unanswered

\* The insert index is the number of taken slots: however ACKs, answers and calls
\* interleave, the array never has a hole.
THEOREM SlotsStayInOrder == Spec => []SlotsInOrder
<1>1. Init => SlotsInOrder
    BY ClearedOrder DEF Init, SlotsInOrder
<1> QED  BY <1>1, TypeCorrect, UnansweredCorrect, SlotsInOrderStep, PTL DEF Spec

\* Nothing that arrives during a call takes a slot from the server that has it.
THEOREM SlotsStayWithTheirServer == Spec => SlotsKeepTheirServer
<1>1. ASSUME TypeOK, Unanswered, SlotsInOrder, [Next]_vars, port' = port
      PROVE  \A i \in Slot : rpc_result[i].server_sid # SidAny =>
                 rpc_result'[i].server_sid = rpc_result[i].server_sid
    <2>0. rpc_result \in Results(Payload) /\ TakenFirst(rpc_result)
        BY <1>1 DEF TypeOK, ClientTypes, SlotsInOrder
    <2>1. CASE UNCHANGED rpc_result
        BY <2>1
    <2>2. ASSUME NEW s \in Servers, NEW q \in Payload, ArrayWritten(s, q)
          PROVE  \A i \in Slot : rpc_result[i].server_sid # SidAny =>
                     rpc_result'[i].server_sid = rpc_result[i].server_sid
        <3>1. CASE rpc_result' = Reserve(rpc_result, s)
            BY <2>0, <3>1, ReserveOrder
        <3>2. CASE Broadcast /\ StoreAnswer(s, q)
            BY <2>0, <3>2, StoreReservedOrder DEF StoreAnswer
        <3>3. CASE ~Broadcast /\ pc \in {"poll", "download"}
            BY <1>1, <3>3 DEF Unanswered, ClearedResults
        <3> QED  BY <2>2, <3>1, <3>2, <3>3 DEF ArrayWritten
    <2> QED  BY <1>1, <2>1, <2>2, ArrayChanges DEF Unanswered, ArrayCleared
<1>2. TypeOK /\ Unanswered /\ SlotsInOrder /\ [Next]_vars =>
          [port' = port =>
             \A i \in Slot : rpc_result[i].server_sid # SidAny =>
                 rpc_result'[i].server_sid = rpc_result[i].server_sid]_vars
    BY <1>1
<1> QED
    BY <1>2, TypeCorrect, UnansweredCorrect, SlotsStayInOrder, PTL
    DEF Spec, SlotsKeepTheirServer

=============================================================================
