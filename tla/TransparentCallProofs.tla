------------------------ MODULE TransparentCallProofs ------------------------
(***************************************************************************)
(* Theorems about TransparentCall, for every set of servers and their      *)
(* modes, any length of the result array, and any number of calls.         *)
(***************************************************************************)
EXTENDS TransparentCall, RpcResultsProofs

-----------------------------------------------------------------------------
(* The inductive invariant                                                  *)

\* Where the client stands says which transport it uses and what it knows.
Shape ==
    /\ stage # "idle" => port \in Port
    /\ stage \in {"msp", "mdp", "rhizome"} => transport = stage
    /\ stage = "judge" => transport = "rhizome"
    /\ stage \in {"cascade", "judge"} => transparent
    /\ stage \notin {"idle", "cascade"} => step < 2
    /\ transport = "msp" /\ stage # "idle" => server_sid \in Servers
    /\ transport = "mdp" /\ transparent => server_sid \notin Servers
    /\ pc = "idle" /\ stage = "msp" => code \in {-1, 2}
    /\ link # "open" => stream = <<>>
    /\ transparent => fresh

\* Calls that have not been made have not been issued, and the call in progress
\* has been issued over nothing but the transports it has been through.
IssuedSoFar ==
    /\ \A t \in Transports, p \in Port : p > port => issued[t][p] = 0
    /\ stage # "idle" =>
        /\ transport # "rhizome" \/ stage = "enter" => issued["rhizome"][port] = 0
        /\ transport = "mdp" => issued["msp"][port] = 0
        /\ transport = "msp" => issued["mdp"][port] = 0
        /\ transport = "msp" /\ stage = "enter" => issued["msp"][port] = 0
    /\ stage = "judge" => call_return \in {-1, 2}
    /\ stage = "cascade" /\ transport = "rhizome" => call_return = 2

\* An ACK to a call to one server leads to the code 2, or to no code.
AckHolds ==
    transparent /\ server_sid \in Servers /\ acked # {} =>
        /\ stage # "enter"
        /\ stage = "msp" => IF pc = "idle" THEN code = 2 ELSE received \in {1, 2}
        /\ stage = "cascade" => call_return = 2

-----------------------------------------------------------------------------
(* Types                                                                    *)

\* TypeOK in parts that steps can be checked against one at a time.
ControlTypes ==
    /\ pc \in {"idle", "loop", "poll", "download"}
    /\ server_sid \in Servers \cup {SidAny, SidBroadcast}
    /\ received \in -1 .. 2
    /\ code \in -2 .. 2
    /\ port \in 0 .. MaxCalls
    /\ link \in {"open", "shut", "closed"}
    /\ stream \in Seq({"ack"} \cup Answers)
    /\ InCall => port \in Port /\ server_sid \in Servers
    /\ link = "open" => InCall
    /\ stage \in {"idle", "enter", "msp", "mdp", "rhizome", "fetch", "cascade", "judge"}
    /\ transport \in Transports
    /\ transparent \in BOOLEAN
    /\ fresh \in BOOLEAN
    /\ step \in -1 .. 2
    /\ call_return \in -1 .. 2
    /\ returned \in -2 .. 2
    /\ awaited \in Servers \cup {SidAny}
    /\ acked \subseteq Servers
    /\ InCall => stage = "msp" /\ transport = "msp"
    /\ stage = "fetch" => awaited \in Servers /\ transport # "msp"

ArrayTypes == rpc_result \in Results(Payload)

ServerTypes ==
    /\ requests \subseteq Servers \X Port
    /\ serving \in [Servers -> Port \cup {0}]
    /\ attached \in [Servers -> BOOLEAN]
    /\ executed \in [Servers -> [Port -> Nat]]
    /\ mailed \subseteq Servers \X Port \X Answers
    /\ published \subseteq Servers \X FileCalls

FileTypes == files \in Seq(Payload)

WorkTypes ==
    /\ via \in [Servers -> Transports]
    /\ copies \in [{"mdp", "rhizome"} -> [Servers -> [Port -> Nat]]]
    /\ done \in [Servers -> SUBSET Port]
    /\ restarts \in [Servers -> 0 .. MaxRestarts]
    /\ issued \in [Transports -> [Port -> Nat]]

MailTypes ==
    /\ packets \subseteq ({"ack"} \cup Answers) \X Servers
    /\ bundles \subseteq Bundle
    /\ read \subseteq bundles \cup MailedBundles

\* The parts are all of it.
LEMMA TypeParts ==
    TypeOK <=> /\ ControlTypes /\ ArrayTypes /\ ServerTypes /\ FileTypes
               /\ WorkTypes /\ MailTypes
BY DEF TypeOK, MspTypes, ControlTypes, ArrayTypes, ServerTypes, FileTypes, WorkTypes,
       MailTypes

\* The steps of the servers and of the store leave the client alone, but for a
\* packet that enters its open connection.
LEMMA ServerFrame ==
    ASSUME (\E s \in Servers : Server(s)) \/ (FileArrives /\ UNCHANGED tvars)
    PROVE  /\ UNCHANGED <<pc, code, link, flagVars, appVars, stageVars, awaited, acked,
                          read, issued>>
           /\ \/ UNCHANGED stream
              \/ link = "open" /\ \E packet \in {"ack"} \cup Answers :
                                     stream' = Append(stream, packet)
<1> USE DEF Send, callVars, flagVars, appVars, clientVars, stageVars, netVars, tvars
<1>1. ASSUME NEW s \in Servers, AcceptMsp(s)
      PROVE  /\ UNCHANGED <<pc, code, link, flagVars, appVars, stageVars, awaited, acked,
                            read, issued>>
             /\ \/ UNCHANGED stream
                \/ link = "open" /\ \E packet \in {"ack"} \cup Answers :
                                       stream' = Append(stream, packet)
    BY <1>1 DEF AcceptMsp, TakeCall, AcceptCall, IgnoreCall
<1>2. ASSUME NEW s \in Servers, AnswerMsp(s)
      PROVE  /\ UNCHANGED <<pc, code, link, flagVars, appVars, stageVars, awaited, acked,
                            read, issued>>
             /\ \/ UNCHANGED stream
                \/ link = "open" /\ \E packet \in {"ack"} \cup Answers :
                                       stream' = Append(stream, packet)
    BY <1>2 DEF AnswerMsp, Deliver, SendResult, ResultUndeliverable
<1>3. ASSUME NEW s \in Servers, NEW p, NEW t, AcceptCopy(s, p, t) \/ IgnoreCopy(s, p, t)
      PROVE  UNCHANGED <<clientVars, stageVars, awaited, acked, read, issued>>
    BY <1>3 DEF AcceptCopy, IgnoreCopy, TakeCopy
<1>4. ASSUME NEW s \in Servers, NEW a, Fails(s, a) \/ AnswerMdp(s, a) \/ AnswerRhizome(s, a)
      PROVE  UNCHANGED <<clientVars, stageVars, awaited, acked, read, issued>>
    BY <1>4 DEF Fails, ExecutionFails, AnswerMdp, AnswerRhizome
<1>5. CASE FileArrives /\ UNCHANGED tvars
    BY <1>5 DEF FileArrives
<1>6. ASSUME NEW s \in Servers, ServerRestarts(s)
      PROVE  UNCHANGED <<clientVars, stageVars, awaited, acked, read, issued>>
    BY <1>6 DEF ServerRestarts
<1> QED  BY <1>1, <1>2, <1>3, <1>4, <1>5, <1>6 DEF Server

-----------------------------------------------------------------------------
(* What the client knows of itself                                          *)

Known == ControlTypes /\ Shape

\* The application begins a call.
LEMMA BeginControl ==
    ASSUME Known, NEW sid \in Sid,
           Call(sid) \/ \E t \in Direct : CallDirectly(sid, t)
    PROVE  Known'
<1> USE DEF Known, callVars, flagVars, appVars, clientVars
<1>1. port' \in Port /\ port' \in 0 .. MaxCalls
    BY MspAssumption DEF ControlTypes, Call, CallDirectly, Begin, Port
<1>2. sid \in Servers \cup {SidAny, SidBroadcast} /\ Direct \subseteq Transports
    BY TransparentAssumption DEF Transports, Sid
<1>3. /\ stage = "idle" /\ stage' = "enter"
      /\ server_sid' = sid
      /\ step' = -1 /\ call_return' = -1 /\ returned' = -2
      /\ acked' = {}
      /\ UNCHANGED <<pc, code, link, stream, awaited>>
    BY DEF Call, CallDirectly, Begin, NoCode
<1>4. /\ transport' \in Transports
      /\ transport' = "msp" => sid \in Servers
      /\ transport' = "mdp" /\ transparent' => sid \notin Servers
      /\ fresh' \in BOOLEAN /\ transparent' \in BOOLEAN
      /\ transparent' => fresh'
      /\ received' \in {0, received}
    <2>1. CASE Call(sid)
        BY <2>1 DEF Call, Begin, Transports, FlagOfCall
    <2>2. ASSUME NEW t \in Direct, CallDirectly(sid, t)
          PROVE  /\ transport' \in Transports
                 /\ transport' = "msp" => sid \in Servers
                 /\ fresh' \in BOOLEAN /\ transparent' = FALSE
                 /\ received' = received
        BY <1>2, <2>2 DEF CallDirectly, Begin
    <2> QED  BY <2>1, <2>2
<1>5. ControlTypes'
    BY <1>1, <1>2, <1>3, <1>4 DEF ControlTypes, InCall
<1>6. Shape'
    BY <1>1, <1>3, <1>4 DEF ControlTypes, Shape, InCall
<1> QED  BY <1>5, <1>6

\* A transport takes the call, or cannot.
LEMMA EntryControl ==
    ASSUME Known, Unreachable \/ EnterMsp \/ EnterMdp \/ EnterRhizome \/ EntryFails
    PROVE  Known'
<1> USE DEF Known, callVars, flagVars, appVars, clientVars, stageVars, netVars, mspVars
<1>1. CASE Unreachable \/ EntryFails
    <2>1. /\ stage = "enter" /\ Leave(-1)
          /\ received' \in {0, received}
          /\ UNCHANGED <<pc, server_sid, code, port, link, stream, awaited, acked>>
        BY <1>1 DEF Unreachable, EntryFails
    <2>2. ControlTypes'
        BY <2>1 DEF ControlTypes, Leave, InCall
    <2>3. Shape'
        BY <2>1 DEF ControlTypes, Shape, Leave, InCall
    <2> QED  BY <2>2, <2>3
<1>2. CASE EnterMsp
    <2>1. ControlTypes'
        BY <1>2 DEF ControlTypes, Shape, EnterMsp, Enter, Connect, InCall
    <2>2. Shape'
        BY <1>2 DEF ControlTypes, Shape, EnterMsp, Enter, Connect, InCall
    <2> QED  BY <2>1, <2>2
<1>3. CASE EnterMdp \/ EnterRhizome
    <2>1. /\ stage = "enter" /\ stage' = transport /\ transport \in {"mdp", "rhizome"}
          /\ received' \in {0, received}
          /\ UNCHANGED <<pc, server_sid, code, port, link, stream, transport, transparent,
                         fresh, step, call_return, returned, awaited, acked>>
        BY <1>3 DEF EnterMdp, EnterRhizome, Enter
    <2>2. ControlTypes'
        BY <2>1 DEF ControlTypes, InCall
    <2>3. Shape'
        BY <2>1 DEF ControlTypes, Shape, InCall
    <2> QED  BY <2>2, <2>3
<1> QED  BY <1>1, <1>2, <1>3

\* The cascade goes on.
LEMMA CascadeControl ==
    ASSUME Known, FallBack \/ JudgeRhizome \/ ReturnToCaller
    PROVE  Known'
<1> USE DEF Known, callVars, flagVars, appVars, clientVars, stageVars, netVars, mspVars
<1>1. ControlTypes'
    BY DEF ControlTypes, Shape, FallBack, JudgeRhizome, ReturnToCaller, InCall,
           Transports
<1>2. Shape'
    BY DEF ControlTypes, Shape, FallBack, JudgeRhizome, ReturnToCaller, InCall
<1> QED  BY <1>1, <1>2

\* Packets leave the connection.
LEMMA LinkControl ==
    ASSUME Known, NEW state \in States, LinkAfter(state), InCall
    PROVE  /\ link' \in {"open", "shut", "closed"}
           /\ stream # <<>> => stream' \in Seq({"ack"} \cup Answers)
           /\ link' # "open" => stream' = <<>>
           /\ link' = "open" => link = "open"
           /\ state # "data" => stream' \in Seq({"ack"} \cup Answers)
           /\ stream # <<>> => link = "open"
BY DEF Known, ControlTypes, Shape, LinkAfter, States

\* The client is in a call over MSP.
LEMMA MspControl ==
    ASSUME Known,
           \/ MspReturns \/ MspLoop
           \/ \E state \in States : \/ MspAck(state)
                                    \/ ReceiveAnswer(state) /\ UNCHANGED tvars
                                    \/ ReceiveHash(state) /\ UNCHANGED tvars
                                    \/ ConnectionEnds(state) /\ UNCHANGED tvars
    PROVE  Known'
<1> USE DEF callVars, flagVars, appVars, clientVars, stageVars, netVars, mspVars, tvars
<1>1. CASE MspReturns
    BY <1>1 DEF Known, ControlTypes, Shape, MspReturns, Leave, InCall, NoCode
<1>2. CASE MspLoop
    <2>1. InCall /\ UNCHANGED <<server_sid, port, stageVars, awaited, acked>>
        BY <1>2 DEF MspLoop, Loop, KeepWaiting, Finish, RoundEnds, Download, Return, InCall
    <2>2. CASE KeepWaiting \/ RoundEnds \/ Download
        <3>1. /\ pc' \in {"loop", "poll"}
              /\ received' \in {2, received}
              /\ UNCHANGED <<code, link, stream>>
            BY <2>2 DEF KeepWaiting, RoundEnds, Download, SocketIsNull
        <3> QED  BY <2>1, <3>1 DEF Known, ControlTypes, Shape, InCall
    <2>3. CASE Finish
        <3>1. /\ pc' = "idle" /\ code' = received /\ received' = received
              /\ received \in {-1, 2}
              /\ link' = "closed" /\ stream' = <<>>
            BY <2>3 DEF Finish, Return, Known, ControlTypes
        <3> QED  BY <2>1, <3>1 DEF Known, ControlTypes, Shape, InCall
    <2> QED  BY <1>2, <2>2, <2>3 DEF MspLoop, Loop
<1>3. ASSUME NEW state \in States, MspAck(state)
      PROVE  Known'
    <2>1. InCall /\ LinkAfter(state) /\ stream # <<>>
        BY <1>3 DEF MspAck, ReceiveAck, TakePacket, InCall
    <2> QED  BY <1>3, <2>1, LinkControl
             DEF Known, ControlTypes, Shape, MspAck, ReceiveAck, TakePacket, InCall
<1>4. ASSUME NEW state \in States, ReceiveAnswer(state) \/ ReceiveHash(state),
             UNCHANGED tvars
      PROVE  Known'
    <2>1. InCall /\ LinkAfter(state) /\ stream # <<>>
        BY <1>4 DEF ReceiveAnswer, ReceiveHash, TakePacket, InCall
    <2> QED  BY <1>4, <2>1, LinkControl
             DEF Known, ControlTypes, Shape, ReceiveAnswer, ReceiveHash, TakePacket,
                 FlagAfter, InCall
<1>5. ASSUME NEW state \in States, ConnectionEnds(state), UNCHANGED tvars
      PROVE  Known'
    <2>1. InCall /\ LinkAfter(state) /\ state # "data"
        BY <1>5 DEF ConnectionEnds, InCall
    <2> QED  BY <1>5, <2>1, LinkControl
             DEF Known, ControlTypes, Shape, ConnectionEnds, FlagAfter, InCall
<1> QED  BY <1>1, <1>2, <1>3, <1>4, <1>5

\* The bundles that MSP servers have left are bundles like the others.
LEMMA MailedTypes ==
    ASSUME ServerTypes
    PROVE  MailedBundles \subseteq Bundle
<1>1. ASSUME NEW m \in mailed
      PROVE  [kind |-> m[3], server |-> m[1], call |-> m[2], to |-> Me] \in Bundle
    <2>1. m[1] \in Servers /\ m[2] \in Port /\ m[3] \in Answers
        BY <1>1 DEF ServerTypes
    <2> QED  BY <2>1 DEF Bundle
<1> QED  BY <1>1 DEF MailedBundles

\* Client is in the loop of MDP or Rhizome, or fetches a file for it, and is still.
Receives ==
    /\ stage \in {"mdp", "rhizome", "fetch"}
    /\ UNCHANGED <<pc, server_sid, code, port, link, stream, transport, transparent, fresh,
                   step, call_return, returned>>
    /\ received' \in {received, 1, 2}
    /\ acked' \subseteq Servers
    /\ \/ stage' = stage /\ awaited' = awaited
       \/ stage # "fetch" /\ stage' = "fetch" /\ awaited' \in Servers
       \/ stage = "fetch" /\ stage' = transport /\ awaited' = SidAny

\* The receiving steps do no more than that to the client.
LEMMA ReceiveFrame ==
    ASSUME TypeOK,
           \/ SendMdp \/ Fetch
           \/ \E s \in Servers : MdpAck(s) \/ MdpAnswer(s) \/ MdpHash(s)
           \/ \E b \in bundles \cup MailedBundles : ReadAck(b) \/ ReadAnswer(b) \/ ReadHash(b)
    PROVE  Receives
<1> USE DEF callVars, flagVars, appVars, clientVars, stageVars, mspVars
<1>1. acked \subseteq Servers
    BY DEF TypeOK
<1>2. CASE SendMdp
    BY <1>1, <1>2 DEF SendMdp, Receives
<1>3. CASE Fetch
    BY <1>1, <1>3 DEF Fetch, StoreAnswer, Receives
<1>4. ASSUME NEW s \in Servers, MdpAck(s) \/ MdpAnswer(s) \/ MdpHash(s)
      PROVE  Receives
    BY <1>1, <1>4
    DEF MdpAck, MdpAnswer, MdpHash, MdpPacket, NoteAck, StoreAnswer, Receives
<1>5. ASSUME NEW b \in bundles \cup MailedBundles, ReadAck(b) \/ ReadAnswer(b) \/ ReadHash(b)
      PROVE  Receives
    <2>1. b.server \in Servers
        BY <1>5, TypeParts, MailedTypes DEF MailTypes, Bundle
    <2> QED  BY <1>1, <1>5, <2>1
             DEF ReadAck, ReadAnswer, ReadHash, ReadBundle, NoteAck, StoreAnswer, Receives
<1> QED  BY <1>2, <1>3, <1>4, <1>5

\* So they keep its types and its shape.
LEMMA ReceiveControl ==
    ASSUME Known, Receives
    PROVE  Known'
<1>1. ControlTypes'
    BY DEF Known, ControlTypes, Shape, Receives, InCall, Transports
<1>2. Shape'
    BY DEF Known, ControlTypes, Shape, Receives, InCall, Transports
<1> QED  BY <1>1, <1>2 DEF Known

\* MDP or Rhizome hand on their code.
LEMMA ReturnControl ==
    ASSUME Known, MdpReturns \/ RhizomeReturns
    PROVE  Known'
<1>1. /\ stage \in {"mdp", "rhizome"} /\ stage = transport
      /\ received' \in {received, 0, 1}
      /\ UNCHANGED <<pc, server_sid, code, port, link, stream, awaited, acked>>
    BY DEF Known, Shape, MdpReturns, RhizomeReturns, callVars, flagVars, appVars,
           clientVars, mspVars
<1>2. PICK c \in -1 .. 2 : Leave(c)
    BY DEF Known, ControlTypes, MdpReturns, RhizomeReturns, DeadlineCode
<1>3. ControlTypes'
    BY <1>1, <1>2 DEF Known, ControlTypes, Leave, InCall
<1>4. Shape'
    BY <1>1, <1>2 DEF Known, ControlTypes, Shape, Leave, InCall
<1> QED  BY <1>3, <1>4 DEF Known

\* No step of anybody takes the client out of its types and its shape.
LEMMA KnownStep ==
    ASSUME TypeOK, Shape, [Next]_vars
    PROVE  Known'
<1>1. Known
    BY TypeParts DEF Known
<1>2. ASSUME NEW sid \in Sid, Call(sid) \/ \E t \in Direct : CallDirectly(sid, t)
      PROVE  Known'
    BY <1>1, <1>2, BeginControl
<1>3. CASE Control
    BY <1>1, <1>3, EntryControl, CascadeControl, MspControl, ReceiveFrame, ReceiveControl,
       ReturnControl DEF Control
<1>4. CASE MspLoop \/ Handled \/ LinkEnds
    BY <1>1, <1>4, MspControl DEF Handled, LinkEnds
<1>5. CASE (\E s \in Servers : Server(s)) \/ (FileArrives /\ UNCHANGED tvars)
    <2>1. /\ UNCHANGED <<pc, code, link, received, server_sid, port, stage, transport,
                         transparent, fresh, step, call_return, returned, awaited, acked>>
          /\ \/ UNCHANGED stream
             \/ link = "open" /\ \E packet \in {"ack"} \cup Answers :
                                    stream' = Append(stream, packet)
        BY <1>5, ServerFrame DEF flagVars, appVars, stageVars
    <2>2. stream' \in Seq({"ack"} \cup Answers)
        BY <1>1, <2>1 DEF Known, ControlTypes
    <2> QED  BY <1>1, <2>1, <2>2 DEF Known, ControlTypes, Shape, InCall
<1>6. CASE UNCHANGED vars
    BY <1>1, <1>6
    DEF Known, ControlTypes, Shape, InCall, vars, mspVars, tvars, clientVars, callVars,
        flagVars, appVars, stageVars, netVars
<1> QED  BY <1>2, <1>3, <1>4, <1>5, <1>6 DEF Next

-----------------------------------------------------------------------------
(* The array and the store                                                  *)

\* A write of an answer.
Stores(s, q) ==
    \/ rpc_result' = StoreSingle(rpc_result, s, q)
    \/ Broadcast /\ rpc_result' =
          StoreReserved(rpc_result, _rpc_client_result_get_sid_index(rpc_result, s), q)

\* A file of the store, or the text of a server, is an answer.
LEMMA Payloads ==
    ASSUME TypeOK, Shape
    PROVE  /\ stage # "idle" => \A s \in Servers : <<s, port>> \in Payload
           /\ stage # "idle" => <<Me, port>> \in Payload
           /\ \A i \in DOMAIN files : files[i] \in Payload
           /\ \A b \in bundles \cup MailedBundles :
                 b.server \in Servers /\ <<b.server, b.call>> \in Payload
<1>1. stage # "idle" => port \in Port
    BY DEF Shape
<1>2. \A i \in DOMAIN files : files[i] \in Payload
    BY TypeParts DEF FileTypes
<1>3. bundles \cup MailedBundles \subseteq Bundle
    BY TypeParts, MailedTypes DEF MailTypes
<1> QED  BY <1>1, <1>2, <1>3 DEF Payload, Bundle

\* A client step writes the array in one of these ways.
LEMMA ArrayChanges ==
    ASSUME TypeOK, Shape, [Next]_vars
    PROVE  \/ UNCHANGED rpc_result
           \/ rpc_result' = ClearedResults
           \/ \E s \in Servers : rpc_result' = Reserve(rpc_result, s)
           \/ \E s \in Servers, q \in Payload : Stores(s, q)
<1> DEFINE Goal ==
       \/ UNCHANGED rpc_result
       \/ rpc_result' = ClearedResults
       \/ \E s \in Servers : rpc_result' = Reserve(rpc_result, s)
       \/ \E s \in Servers, q \in Payload : Stores(s, q)
<1> USE DEF flagVars, clientVars, mspVars
<1>1. ASSUME NEW sid \in Sid, Call(sid) \/ \E t \in Direct : CallDirectly(sid, t)
      PROVE  Goal
    BY <1>1 DEF Call, CallDirectly, Begin
<1>2. CASE \/ Unreachable \/ EnterMsp \/ EnterMdp \/ EnterRhizome \/ EntryFails
           \/ FallBack \/ JudgeRhizome \/ ReturnToCaller
           \/ MspReturns \/ MdpReturns \/ RhizomeReturns \/ SendMdp
    BY <1>2
    DEF Unreachable, EnterMsp, Connect, EnterMdp, EnterRhizome, EntryFails, FallBack,
        JudgeRhizome, ReturnToCaller, MspReturns, MdpReturns, RhizomeReturns,
        SendMdp
<1>3. ASSUME NEW s \in Servers, MdpAck(s) \/ MdpAnswer(s) \/ MdpHash(s)
      PROVE  Goal
    <2>1. <<s, port>> \in Payload
        BY <1>3, Payloads DEF MdpAck, MdpAnswer, MdpHash, MdpPacket
    <2> QED  BY <1>3, <2>1
             DEF MdpAck, MdpAnswer, MdpHash, NoteAck, StoreAnswer, Stores
<1>4. ASSUME NEW b \in bundles \cup MailedBundles, ReadAck(b) \/ ReadAnswer(b) \/ ReadHash(b)
      PROVE  Goal
    <2>1. b.server \in Servers /\ <<b.server, b.call>> \in Payload
        BY <1>4, Payloads
    <2> QED  BY <1>4, <2>1 DEF ReadAck, ReadAnswer, ReadHash, NoteAck, StoreAnswer, Stores
<1>5. CASE Fetch
    <2>1. awaited \in Servers
        BY <1>5, TypeParts DEF Fetch, ControlTypes
    <2>2. files[Len(files)] \in Payload
        BY <1>5, Payloads, TypeParts DEF Fetch, FileTypes
    <2> QED  BY <1>5, <2>1, <2>2 DEF Fetch, StoreAnswer, Stores
<1>6. CASE MspLoop
    <2>1. CASE Download
        <3>1. server_sid \in Servers
            BY <2>1, TypeParts DEF Download, ControlTypes, InCall
        <3>2. FilesOfServer \in SUBSET DOMAIN files
            BY DEF FilesOfServer
        <3>3. files[Max(FilesOfServer)] \in Payload
            <4>1. files \in Seq(Payload)
                BY TypeParts DEF FileTypes
            <4>2. FilesOfServer \in SUBSET (1 .. Len(files)) /\ Len(files) \in Nat
                BY <3>2, <4>1
            <4>3. Max(FilesOfServer) \in FilesOfServer
                BY <2>1, <4>2, MaxOfPositions DEF Download
            <4> QED  BY <3>2, <4>3, Payloads
        <3> QED  BY <2>1, <3>1, <3>3 DEF Download, Stores
    <2> QED  BY <1>6, <2>1 DEF MspLoop, Loop, KeepWaiting, Finish, RoundEnds, Return
<1>7. CASE Handled \/ LinkEnds
    <2>1. ASSUME NEW state, ReceiveAnswer(state)
          PROVE  server_sid \in Servers /\ <<server_sid, port>> \in Payload
        BY <2>1, TypeParts, Payloads
        DEF ReceiveAnswer, TakePacket, ControlTypes, InCall, Payload
    <2> QED  BY <1>7, <2>1
             DEF Handled, LinkEnds, MspAck, ReceiveAck, ReceiveAnswer, ReceiveHash,
                 ConnectionEnds, Stores
<1>8. CASE (\E s \in Servers : Server(s)) \/ (FileArrives /\ UNCHANGED tvars)
    BY <1>8, ServerFrame
<1>9. CASE UNCHANGED vars
    BY <1>9 DEF vars
<1> QED  BY <1>1, <1>2, <1>3, <1>4, <1>5, <1>6, <1>7, <1>8, <1>9 DEF Next, Control

\* The writes keep the type of the array.
LEMMA ArrayStep ==
    ASSUME TypeOK, Shape, [Next]_vars
    PROVE  ArrayTypes'
<1>1. rpc_result \in Results(Payload)
    BY TypeParts DEF ArrayTypes
<1> QED  BY <1>1, ArrayChanges, ClearedType, ReserveType, StoreReservedType, StoreSingleType
         DEF ArrayTypes, Stores

\* Steps of the client that change neither files nor servers.
Elsewhere ==
    \/ \E sid \in Sid : Call(sid) \/ \E t \in Direct : CallDirectly(sid, t)
    \/ Unreachable
    \/ FallBack \/ JudgeRhizome \/ ReturnToCaller
    \/ MspReturns \/ MdpReturns \/ RhizomeReturns
    \/ \E s \in Servers : MdpAck(s) \/ MdpAnswer(s) \/ MdpHash(s)
    \/ \E b \in bundles \cup MailedBundles : ReadAck(b) \/ ReadAnswer(b) \/ ReadHash(b)
    \/ Fetch
    \/ MspLoop \/ Handled \/ LinkEnds
    \/ UNCHANGED vars

\* They are steps that leave the rest alone.
LEMMA ElsewhereFrame ==
    ASSUME Elsewhere
    PROVE  UNCHANGED <<serverVars, files, via, copies, done, restarts, issued, bundles>>
<1> USE DEF flagVars, clientVars, appVars, mspVars, netVars, tvars
<1>1. ASSUME NEW sid, Call(sid) \/ \E t \in Direct : CallDirectly(sid, t)
      PROVE  UNCHANGED <<serverVars, files, via, copies, done, restarts, issued, bundles>>
    BY <1>1 DEF Call, CallDirectly, Begin
<1>2. CASE \/ Unreachable \/ FallBack \/ JudgeRhizome \/ ReturnToCaller
           \/ MspReturns \/ MdpReturns \/ RhizomeReturns
    BY <1>2
    DEF Unreachable, FallBack, JudgeRhizome, ReturnToCaller, MspReturns, MdpReturns,
        RhizomeReturns
<1>3. ASSUME NEW s, MdpAck(s) \/ MdpAnswer(s) \/ MdpHash(s)
      PROVE  UNCHANGED <<serverVars, files, via, copies, done, restarts, issued, bundles>>
    BY <1>3 DEF MdpAck, MdpAnswer, MdpHash, MdpPacket
<1>4. ASSUME NEW b, ReadAck(b) \/ ReadAnswer(b) \/ ReadHash(b)
      PROVE  UNCHANGED <<serverVars, files, via, copies, done, restarts, issued, bundles>>
    BY <1>4 DEF ReadAck, ReadAnswer, ReadHash, ReadBundle
<1>5. CASE Fetch \/ MspLoop
    BY <1>5 DEF Fetch, MspLoop, Loop, KeepWaiting, Finish, RoundEnds, Download, Return
<1>6. CASE Handled \/ LinkEnds
    BY <1>6
    DEF Handled, LinkEnds, MspAck, ReceiveAck, ReceiveAnswer, ReceiveHash, TakePacket,
        ConnectionEnds
<1>7. CASE UNCHANGED vars
    BY <1>7 DEF vars
<1> QED  BY <1>1, <1>2, <1>3, <1>4, <1>5, <1>6, <1>7 DEF Elsewhere

\* The other steps.
LEMMA NextCases ==
    ASSUME [Next]_vars
    PROVE  \/ Elsewhere
           \/ EnterMsp \/ EnterMdp \/ EnterRhizome \/ EntryFails \/ SendMdp
           \/ \E s \in Servers : Server(s)
           \/ FileArrives /\ UNCHANGED tvars
BY DEF Next, Control, Elsewhere

\* An answer file is that of a call.
LEMMA FilesStep ==
    ASSUME TypeOK, Shape, [Next]_vars
    PROVE  FileTypes'
<1>0. FileTypes /\ ServerTypes
    BY TypeParts
<1>1. CASE Elsewhere
    BY <1>0, <1>1, ElsewhereFrame DEF FileTypes
<1>2. CASE EnterMsp \/ EnterMdp \/ EnterRhizome \/ EntryFails
    <2>1. <<Me, port>> \in Payload
        BY <1>2, Payloads DEF EnterMsp, EnterMdp, EnterRhizome, EntryFails, Enter
    <2>2. AddParameterFile(port) \/ UNCHANGED files
        BY <1>2 DEF EnterMsp, Connect, EnterMdp, EnterRhizome, EntryFails
    <2>3. files' \in {files, Append(files, <<Me, port>>)}
        BY <2>2 DEF AddParameterFile
    <2> QED  BY <1>0, <2>1, <2>3 DEF FileTypes
<1>3. CASE SendMdp
    BY <1>0, <1>3 DEF SendMdp, mspVars, FileTypes
<1>4. ASSUME NEW s \in Servers, Server(s)
      PROVE  UNCHANGED files
    BY <1>4
    DEF Server, AcceptMsp, TakeCall, AcceptCall, IgnoreCall, AnswerMsp, Deliver, SendResult,
        ResultUndeliverable, AcceptCopy, IgnoreCopy, TakeCopy, Fails, ExecutionFails,
        AnswerMdp, AnswerRhizome, ServerRestarts
<1>5. CASE FileArrives
    <2>1. PICK file \in published : files' = Append(files, file)
        BY <1>5 DEF FileArrives
    <2>2. file \in Payload
        BY <1>0, <2>1, MspAssumption DEF ServerTypes, Payload, Port
    <2> QED  BY <1>0, <2>1, <2>2 DEF FileTypes
<1> QED  BY <1>0, <1>1, <1>2, <1>3, <1>4, <1>5, NextCases DEF FileTypes

-----------------------------------------------------------------------------
(* The servers                                                              *)

\* How an execution ends.
LEMMA ProducesTypes ==
    ASSUME ServerTypes, NEW s \in Servers, NEW answer, Produces(s, answer)
    PROVE  /\ serving[s] \in Port
           /\ serving' \in [Servers -> Port \cup {0}]
           /\ attached' \in [Servers -> BOOLEAN]
           /\ published' \subseteq Servers \X FileCalls
           /\ executed' \in {executed, [executed EXCEPT ![s][serving[s]] = @ + 1]}
                 => executed' \in [Servers -> [Port -> Nat]]
<1>1. serving[s] \in Port
    BY DEF Produces, ServerTypes
<1>2. published' \subseteq Servers \X FileCalls
    BY DEF Produces, AnswerFile, ServerTypes
<1>3. /\ serving' \in [Servers -> Port \cup {0}]
      /\ attached' \in [Servers -> BOOLEAN]
    BY DEF Produces, ServerTypes
<1>4. [executed EXCEPT ![s][serving[s]] = @ + 1] \in [Servers -> [Port -> Nat]]
    BY <1>1 DEF ServerTypes
<1> QED  BY <1>1, <1>2, <1>3, <1>4 DEF ServerTypes

\* The variables of the servers keep their types.
LEMMA ServersStep ==
    ASSUME TypeOK, Shape, [Next]_vars
    PROVE  ServerTypes'
<1>0. ServerTypes
    BY TypeParts
<1>1. CASE Elsewhere
    BY <1>0, <1>1, ElsewhereFrame DEF serverVars, ServerTypes
<1>2. CASE EnterMsp
    <2>1. server_sid \in Servers /\ port \in Port
        BY <1>2 DEF EnterMsp, Enter, Shape
    <2> QED  BY <1>0, <1>2, <2>1 DEF EnterMsp, Connect, ServerTypes
<1>3. CASE EnterMdp \/ EnterRhizome \/ EntryFails \/ SendMdp
    BY <1>0, <1>3
    DEF EnterMdp, EnterRhizome, EntryFails, SendMdp, mspVars, serverVars, ServerTypes
<1>4. ASSUME NEW s \in Servers, AcceptMsp(s)
      PROVE  ServerTypes'
    BY <1>0, <1>4 DEF AcceptMsp, TakeCall, AcceptCall, IgnoreCall, ServerTypes
<1>5. ASSUME NEW s \in Servers, AnswerMsp(s)
      PROVE  ServerTypes'
    <2>1. PICK answer \in Answers : SendResult(s, answer) \/ ResultUndeliverable(s, answer)
        BY <1>5 DEF AnswerMsp, Deliver
    <2>2. Executes(s, answer) /\ UNCHANGED requests
        BY <2>1 DEF SendResult, ResultUndeliverable
    <2>3. mailed' \subseteq mailed \cup {<<s, serving[s], answer>>}
        BY <2>1 DEF SendResult, ResultUndeliverable
    <2> QED  BY <1>0, <2>2, <2>3, ProducesTypes DEF Executes, ServerTypes
<1>6. ASSUME NEW s \in Servers, NEW p \in Port, NEW t \in {"mdp", "rhizome"},
             AcceptCopy(s, p, t) \/ IgnoreCopy(s, p, t)
      PROVE  ServerTypes'
    BY <1>0, <1>6 DEF AcceptCopy, IgnoreCopy, TakeCopy, ServerTypes
<1>7. ASSUME NEW s \in Servers, NEW answer \in Answers,
             Fails(s, answer) \/ AnswerMdp(s, answer) \/ AnswerRhizome(s, answer)
      PROVE  ServerTypes'
    <2>1. Produces(s, answer) /\ UNCHANGED <<requests, mailed>>
        BY <1>7 DEF Fails, ExecutionFails, AnswerMdp, AnswerRhizome, Executes
    <2>2. executed' \in {executed, [executed EXCEPT ![s][serving[s]] = @ + 1]}
        BY <1>7 DEF Fails, ExecutionFails, AnswerMdp, AnswerRhizome, Executes
    <2> QED  BY <1>0, <2>1, <2>2, ProducesTypes DEF ServerTypes
<1>8. CASE FileArrives
    BY <1>0, <1>8 DEF FileArrives, serverVars, ServerTypes
<1>9. ASSUME NEW s \in Servers, ServerRestarts(s)
      PROVE  ServerTypes'
    <2>1. CASE UNCHANGED serverVars
        BY <1>0, <2>1 DEF serverVars, ServerTypes
    <2>2. ASSUME NEW answer \in Answers, Executes(s, answer)
          PROVE  ServerTypes'
        <3>1. UNCHANGED <<requests, mailed>>
            BY <1>9 DEF ServerRestarts
        <3> QED  BY <1>0, <2>2, <3>1, ProducesTypes DEF Executes, ServerTypes
    <2> QED  BY <1>9, <2>1, <2>2 DEF ServerRestarts
<1> QED  BY <1>0, <1>1, <1>2, <1>3, <1>4, <1>5, <1>6, <1>7, <1>8, <1>9, NextCases DEF Server

\* A call that is issued over MDP or Rhizome: one copy more for each recipient.
LEMMA IssueCopies ==
    ASSUME WorkTypes, NEW t \in {"mdp", "rhizome"}, copies' = CopiesSent(t)
    PROVE  /\ copies' \in [{"mdp", "rhizome"} -> [Servers -> [Port -> Nat]]]
           /\ \A u \in {"mdp", "rhizome"}, s \in Servers, p \in Port :
                 copies'[u][s][p] \in {copies[u][s][p],
                                      copies[u][s][p] + IF u = t /\ p = port THEN 1 ELSE 0}
<1> DEFINE more == [s \in Servers |-> [p \in Port |->
                       copies[t][s][p] + IF s \in Recipients /\ p = port THEN 1 ELSE 0]]
<1>1. copies' = [copies EXCEPT ![t] = more]
    BY DEF CopiesSent
<1>2. more \in [Servers -> [Port -> Nat]]
    BY DEF WorkTypes
<1>3. \A s \in Servers, p \in Port :
          more[s][p] \in {copies[t][s][p], copies[t][s][p] + IF p = port THEN 1 ELSE 0}
    BY DEF WorkTypes
<1> HIDE DEF more
<1> QED  BY <1>1, <1>2, <1>3 DEF WorkTypes

\* A server without a call, or with one, serves over one of the transports.
LEMMA WorkStep ==
    ASSUME TypeOK, Shape, [Next]_vars
    PROVE  WorkTypes'
<1>0. WorkTypes /\ (stage # "idle" => port \in Port)
    BY TypeParts DEF Shape
<1>1. CASE Elsewhere
    BY <1>0, <1>1, ElsewhereFrame DEF WorkTypes
<1>2. CASE EnterMsp
    BY <1>0, <1>2 DEF EnterMsp, Enter, WorkTypes, Transports
<1>3. CASE EnterMdp \/ EntryFails
    BY <1>0, <1>3 DEF EnterMdp, EntryFails, netVars, WorkTypes
<1>4. CASE EnterRhizome
    <2>1. issued' \in [Transports -> [Port -> Nat]]
        BY <1>0, <1>4 DEF EnterRhizome, Enter, WorkTypes, Transports
    <2>2. copies' \in [{"mdp", "rhizome"} -> [Servers -> [Port -> Nat]]]
        BY <1>0, <1>4, IssueCopies DEF EnterRhizome, Enter
    <2> QED  BY <1>0, <1>4, <2>1, <2>2 DEF EnterRhizome, WorkTypes
<1>5. CASE SendMdp
    <2>1. issued' \in [Transports -> [Port -> Nat]]
        BY <1>0, <1>5 DEF SendMdp, WorkTypes, Transports
    <2>2. copies' \in [{"mdp", "rhizome"} -> [Servers -> [Port -> Nat]]]
        BY <1>0, <1>5, IssueCopies DEF SendMdp
    <2> QED  BY <1>0, <1>5, <2>1, <2>2 DEF SendMdp, WorkTypes
<1>6. ASSUME NEW s \in Servers, AcceptMsp(s)
      PROVE  WorkTypes'
    BY <1>0, <1>6 DEF AcceptMsp, WorkTypes, Transports
<1>7. ASSUME NEW s \in Servers, AnswerMsp(s)
      PROVE  WorkTypes'
    BY <1>0, <1>7 DEF AnswerMsp, tvars, netVars, WorkTypes
<1>8. ASSUME NEW s \in Servers, NEW p \in Port, NEW t \in {"mdp", "rhizome"},
             AcceptCopy(s, p, t) \/ IgnoreCopy(s, p, t)
      PROVE  WorkTypes'
    <2>1. TakeCopy(s, p, t)
        BY <1>8 DEF AcceptCopy, IgnoreCopy
    <2>2. copies[t][s][p] - 1 \in Nat /\ UNCHANGED <<done, restarts, issued>>
        BY <1>0, <1>8, <2>1 DEF AcceptCopy, IgnoreCopy, TakeCopy, WorkTypes
    <2>3. copies' \in [{"mdp", "rhizome"} -> [Servers -> [Port -> Nat]]]
        BY <1>0, <2>1, <2>2 DEF TakeCopy, CopiesWithout, WorkTypes
    <2>4. via' \in [Servers -> Transports]
        BY <1>0, <1>8 DEF AcceptCopy, IgnoreCopy, WorkTypes, Transports
    <2> QED  BY <1>0, <2>2, <2>3, <2>4 DEF WorkTypes
<1>9. ASSUME NEW s \in Servers, NEW answer, Fails(s, answer) \/ AnswerMdp(s, answer)
      PROVE  WorkTypes'
    BY <1>0, <1>9 DEF Fails, AnswerMdp, Idle, WorkTypes, Transports
<1>10. ASSUME NEW s \in Servers, NEW answer, AnswerRhizome(s, answer)
       PROVE  WorkTypes'
    <2>1. serving[s] \in Port
        BY <1>10, TypeParts, ProducesTypes DEF AnswerRhizome, Executes
    <2>2. done' \in [Servers -> SUBSET Port]
        BY <1>0, <1>10, <2>1 DEF AnswerRhizome, WorkTypes
    <2> QED  BY <1>0, <1>10, <2>2 DEF AnswerRhizome, Idle, WorkTypes, Transports
<1>11. ASSUME NEW s \in Servers, ServerRestarts(s)
       PROVE  WorkTypes'
    <2>1. restarts' \in [Servers -> 0 .. MaxRestarts]
        BY <1>0, <1>11, TransparentAssumption DEF ServerRestarts, WorkTypes
    <2> QED  BY <1>0, <1>11, <2>1 DEF ServerRestarts, Idle, WorkTypes, Transports
<1>12. CASE FileArrives /\ UNCHANGED tvars
    BY <1>0, <1>12 DEF tvars, netVars, WorkTypes
<1> QED  BY <1>1, <1>2, <1>3, <1>4, <1>5, <1>6, <1>7, <1>8, <1>9, <1>10, <1>11, <1>12,
            NextCases DEF Server

\* Bundles never leave the network, and the client marks none that is not there.
LEMMA MailStep ==
    ASSUME TypeOK, Shape, [Next]_vars
    PROVE  MailTypes'
<1>0. MailTypes /\ ServerTypes
    BY TypeParts
<1>1. \A s \in Servers, p \in Port, kind \in {"ack"} \cup Answers, to \in {Me, SidBroadcast} :
          [kind |-> kind, server |-> s, call |-> p, to |-> to] \in Bundle
    BY DEF Bundle
<1>2. ASSUME mailed \subseteq mailed', bundles \subseteq bundles'
      PROVE  bundles \cup MailedBundles \subseteq (bundles \cup MailedBundles)'
    BY <1>2 DEF MailedBundles
<1>3. ASSUME NEW s \in Servers, Server(s)
      PROVE  /\ mailed \subseteq mailed' /\ bundles \subseteq bundles'
             /\ packets' \subseteq ({"ack"} \cup Answers) \X Servers
             /\ bundles' \subseteq Bundle
             /\ read' = read
    <2>1. ASSUME AcceptMsp(s) \/ AnswerMsp(s)
          PROVE  mailed \subseteq mailed' /\ UNCHANGED <<packets, bundles, read>>
        BY <2>1 DEF AcceptMsp, TakeCall, AcceptCall, IgnoreCall, AnswerMsp, Deliver,
           SendResult, ResultUndeliverable, tvars, netVars
    <2>2. ASSUME NEW p \in Port, NEW t \in {"mdp", "rhizome"},
                 AcceptCopy(s, p, t) \/ IgnoreCopy(s, p, t)
          PROVE  /\ UNCHANGED <<mailed, read>> /\ bundles \subseteq bundles'
                 /\ packets' \subseteq ({"ack"} \cup Answers) \X Servers
                 /\ bundles' \subseteq Bundle
        <3>1. TakeCopy(s, p, t)
            BY <2>2 DEF AcceptCopy, IgnoreCopy
        <3>2. packets' \subseteq packets \cup {<<"ack", s>>}
            BY <2>2 DEF AcceptCopy, IgnoreCopy, ToSocket
        <3>3. /\ bundles \subseteq bundles'
              /\ bundles' \subseteq bundles \cup
                    {[kind |-> "ack", server |-> s, call |-> p, to |-> Me]}
            BY <2>2 DEF AcceptCopy, IgnoreCopy, ToRhizome
        <3>4. [kind |-> "ack", server |-> s, call |-> p, to |-> Me] \in Bundle
            BY <1>1
        <3>5. UNCHANGED <<mailed, read>>
            BY <3>1 DEF TakeCopy
        <3>6. packets' \subseteq ({"ack"} \cup Answers) \X Servers
            BY <1>0, <3>2 DEF MailTypes
        <3> QED  BY <1>0, <3>3, <3>4, <3>5, <3>6 DEF MailTypes
    <2>3. ASSUME ServerRestarts(s) \/ \E answer \in Answers : Fails(s, answer)
          PROVE  UNCHANGED <<mailed, packets, bundles, read>>
        BY <2>3 DEF ServerRestarts, Fails, ExecutionFails
    <2>4. ASSUME NEW answer \in Answers, AnswerMdp(s, answer) \/ AnswerRhizome(s, answer)
          PROVE  /\ UNCHANGED <<mailed, read>> /\ bundles \subseteq bundles'
                 /\ packets' \subseteq ({"ack"} \cup Answers) \X Servers
                 /\ bundles' \subseteq Bundle
        <3>1. serving[s] \in Port
            BY <1>0, <2>4, ProducesTypes DEF AnswerMdp, AnswerRhizome, Executes
        <3>2. packets' \subseteq packets \cup {<<answer, s>>}
            BY <2>4 DEF AnswerMdp, AnswerRhizome, ToSocket
        <3>3. PICK to \in {Me, SidBroadcast} :
                 /\ bundles \subseteq bundles'
                 /\ bundles' \subseteq bundles \cup
                       {[kind |-> answer, server |-> s, call |-> serving[s], to |-> to]}
            BY <2>4 DEF AnswerMdp, AnswerRhizome, ToRhizome
        <3>4. UNCHANGED <<mailed, read>>
            BY <2>4 DEF AnswerMdp, AnswerRhizome
        <3>5. [kind |-> answer, server |-> s, call |-> serving[s], to |-> to] \in Bundle
            BY <1>1, <3>1
        <3>6. packets' \subseteq ({"ack"} \cup Answers) \X Servers
            BY <1>0, <3>2 DEF MailTypes
        <3> QED  BY <1>0, <3>3, <3>4, <3>5, <3>6 DEF MailTypes
    <2> QED  BY <1>0, <1>3, <2>1, <2>2, <2>3, <2>4 DEF Server, MailTypes
<1>4. CASE Elsewhere
    <2>1. UNCHANGED <<mailed, bundles>>
        BY <1>4, ElsewhereFrame DEF serverVars
    <2>2. packets' \subseteq packets /\ read' \subseteq bundles \cup MailedBundles
        <3> USE <1>0 DEF MailTypes, mspVars, clientVars, netVars, tvars
        <3>1. ASSUME NEW sid, Call(sid) \/ \E t \in Direct : CallDirectly(sid, t)
              PROVE  UNCHANGED <<packets, read>>
            BY <3>1 DEF Call, CallDirectly, Begin
        <3>2. CASE \/ Unreachable \/ FallBack \/ JudgeRhizome \/ ReturnToCaller
                   \/ MspReturns \/ Fetch \/ MspLoop \/ Handled \/ LinkEnds
                   \/ UNCHANGED vars
            BY <3>2
            DEF Unreachable, FallBack, JudgeRhizome, ReturnToCaller, MspReturns, Fetch,
                MspLoop, Handled, MspAck, LinkEnds, vars
        <3>3. CASE MdpReturns \/ RhizomeReturns
            BY <3>3 DEF MdpReturns, RhizomeReturns
        <3>4. ASSUME NEW s, MdpAck(s) \/ MdpAnswer(s) \/ MdpHash(s)
              PROVE  packets' \subseteq packets /\ read' = read
            BY <3>4 DEF MdpAck, MdpAnswer, MdpHash, MdpPacket
        <3>5. ASSUME NEW b \in bundles \cup MailedBundles,
                     ReadAck(b) \/ ReadAnswer(b) \/ ReadHash(b)
              PROVE  packets' = packets /\ read' = read \cup {b}
            BY <3>5 DEF ReadAck, ReadAnswer, ReadHash, ReadBundle
        <3> QED  BY <1>4, <3>1, <3>2, <3>3, <3>4, <3>5 DEF Elsewhere
    <2> QED  BY <1>0, <1>2, <2>1, <2>2 DEF MailTypes
<1>5. CASE \/ EnterMsp \/ EnterMdp \/ EnterRhizome \/ EntryFails \/ SendMdp
           \/ FileArrives /\ UNCHANGED tvars
    <2>1. UNCHANGED <<mailed, packets, bundles, read>>
        BY <1>5 DEF EnterMsp, Connect, EnterMdp, EnterRhizome, EntryFails, SendMdp,
           FileArrives, mspVars, serverVars, tvars, netVars
    <2> QED  BY <1>0, <1>2, <2>1 DEF MailTypes
<1>6. ASSUME NEW s \in Servers, Server(s)
      PROVE  MailTypes'
    <2>1. read \subseteq (bundles \cup MailedBundles)'
        BY <1>0, <1>2, <1>3, <1>6 DEF MailTypes
    <2> QED  BY <1>3, <1>6, <2>1 DEF MailTypes
<1> QED  BY <1>4, <1>5, <1>6, NextCases

\* Types and shape together survive every step.
LEMMA TypesStep ==
    ASSUME TypeOK, Shape, [Next]_vars
    PROVE  TypeOK' /\ Shape'
<1>1. ControlTypes' /\ Shape'
    BY KnownStep DEF Known
<1>2. ArrayTypes' /\ FileTypes' /\ ServerTypes' /\ WorkTypes' /\ MailTypes'
    BY ArrayStep, FilesStep, ServersStep, WorkStep, MailStep
<1> QED  BY <1>1, <1>2
         DEF TypeOK, MspTypes, ControlTypes, ArrayTypes, ServerTypes, FileTypes, WorkTypes,
             MailTypes

\* Types and shape hold at the start.
LEMMA TypesInit == Init => TypeOK /\ Shape
<1> SUFFICES ASSUME Init
             PROVE  /\ ControlTypes /\ ArrayTypes /\ ServerTypes /\ FileTypes
                    /\ WorkTypes /\ MailTypes /\ Shape
    BY TypeParts
<1> USE DEF Init, MspInit
<1>1. ControlTypes
    <2>1. port \in 0 .. MaxCalls /\ stream \in Seq({"ack"} \cup Answers)
        BY MspAssumption
    <2>2. /\ received \in -1 .. 2 /\ code \in -2 .. 2 /\ step \in -1 .. 2
          /\ call_return \in -1 .. 2 /\ returned \in -2 .. 2
        BY DEF NoCode
    <2>3. /\ server_sid \in Servers \cup {SidAny, SidBroadcast}
          /\ awaited \in Servers \cup {SidAny}
          /\ acked \subseteq Servers
        OBVIOUS
    <2>4. transport \in Transports /\ transparent \in BOOLEAN /\ fresh \in BOOLEAN
        BY DEF Transports
    <2>5. ~InCall /\ pc \in {"idle", "loop", "poll", "download"}
        BY DEF InCall
    <2>6. /\ link \in {"open", "shut", "closed"} /\ link # "open"
          /\ stage \in {"idle", "enter", "msp", "mdp", "rhizome", "fetch", "cascade", "judge"}
          /\ stage # "fetch"
        OBVIOUS
    <2> QED  BY <2>1, <2>2, <2>3, <2>4, <2>5, <2>6 DEF ControlTypes
<1>2. Shape
    BY DEF Shape
<1>3. ArrayTypes
    BY ClearedType DEF ArrayTypes
<1>4. ServerTypes /\ FileTypes
    BY DEF ServerTypes, FileTypes
<1>5. WorkTypes /\ MailTypes
    BY TransparentAssumption DEF WorkTypes, MailTypes, Transports
<1> QED  BY <1>1, <1>2, <1>3, <1>4, <1>5

\* Types and shape hold in every behaviour.
LEMMA TypesAlways == Spec => [](TypeOK /\ Shape)
BY TypesInit, TypesStep, PTL DEF Spec

\* Every variable of client, servers and network keeps its type: a call over one
\* transport is never open in another, a connection is closed whenever its call has
\* returned, and the client marks no bundle it cannot have seen.
THEOREM TypeCorrect == Spec => []TypeOK
BY TypesAlways, PTL

-----------------------------------------------------------------------------
(* Work                                                                     *)

\* What server s has done, does and may yet do for call p, and what that may stem from.
Work(s, p) ==
    executed[s][p] + copies["mdp"][s][p]
        + (IF Pending(s, p) THEN 1 ELSE 0)
        + (IF <<s, p>> \in requests THEN 1 ELSE 0)
        + (IF serving[s] = p THEN 1 ELSE 0)
Grounds(s, p) ==
    issued["msp"][p] + issued["mdp"][p] + issued["rhizome"][p]
        + (IF issued["rhizome"][p] = 0 THEN 0 ELSE restarts[s])

\* A bundle with a call is in a store only if the call has been issued over Rhizome.
StoredIsIssued ==
    \A s \in Servers, p \in Port :
        copies["rhizome"][s][p] > 0 => issued["rhizome"][p] > 0

\* The terms of the sums are numbers.
LEMMA WorkTerms ==
    ASSUME TypeOK, NEW s \in Servers, NEW p \in Port
    PROVE  /\ executed[s][p] \in Nat
           /\ copies["mdp"][s][p] \in Nat /\ copies["rhizome"][s][p] \in Nat
           /\ issued["msp"][p] \in Nat /\ issued["mdp"][p] \in Nat
           /\ issued["rhizome"][p] \in Nat
           /\ restarts[s] \in Nat
<1>1. restarts[s] \in 0 .. MaxRestarts
    BY TypeParts DEF WorkTypes
<1> QED  BY <1>1, TypeParts DEF ServerTypes, WorkTypes, Transports

\* No step of a server adds to its work on a call, but for its restart.
LEMMA ServerWork ==
    ASSUME TypeOK, NEW s \in Servers, Server(s), ~ServerRestarts(s),
           NEW r \in Servers, NEW p \in Port
    PROVE  Work(r, p)' <= Work(r, p)
<1>0. /\ serving \in [Servers -> Port \cup {0}]
      /\ executed \in [Servers -> [Port -> Nat]]
      /\ copies \in [{"mdp", "rhizome"} -> [Servers -> [Port -> Nat]]]
      /\ via \in [Servers -> Transports]
      /\ done \in [Servers -> SUBSET Port]
      /\ 0 \notin Port
    BY TypeParts DEF ServerTypes, WorkTypes, Port
<1>1. executed[r][p] \in Nat /\ copies["mdp"][r][p] \in Nat
    BY WorkTerms
<1>2. ASSUME NEW q \in Port, serving[s] = 0, serving' \in {serving, [serving EXCEPT ![s] = q]},
             <<s, q>> \in requests, requests' = requests \ {<<s, q>>},
             via' = IF serving'[s] # 0 THEN [via EXCEPT ![s] = "msp"] ELSE via,
             UNCHANGED <<executed, copies, done>>
      PROVE  Work(r, p)' <= Work(r, p)
    <2>1. Pending(r, p)' => Pending(r, p)
        BY <1>0, <1>2, Zenon DEF Pending
    <2>2. CASE r = s /\ p = q
        BY <1>0, <1>1, <1>2, <2>1, <2>2 DEF Work
    <2>3. CASE ~ (r = s /\ p = q)
        <3>1. serving'[r] = p => serving[r] = p
            BY <1>0, <1>2, <2>3
        <3>2. <<r, p>> \in requests' <=> <<r, p>> \in requests
            BY <1>2, <2>3
        <3> QED  BY <1>1, <1>2, <2>1, <3>1, <3>2 DEF Work
    <2> QED  BY <2>2, <2>3
<1>3. ASSUME AcceptMsp(s)
      PROVE  Work(r, p)' <= Work(r, p)
    BY <1>2, <1>3 DEF AcceptMsp, TakeCall, AcceptCall, IgnoreCall
<1>4. ASSUME NEW q \in Port, AcceptCopy(s, q, "mdp") \/ IgnoreCopy(s, q, "mdp")
      PROVE  Work(r, p)' <= Work(r, p)
    <2>1. /\ serving[s] = 0 /\ copies["mdp"][s][q] > 0
          /\ copies' = [copies EXCEPT !["mdp"][s][q] = @ - 1]
          /\ serving' \in {serving, [serving EXCEPT ![s] = q]}
          /\ UNCHANGED <<executed, requests, done>>
        BY <1>4 DEF AcceptCopy, IgnoreCopy, TakeCopy, CopiesWithout
    <2>2. Pending(r, p)' => Pending(r, p)
        <3>1. r # s => serving'[r] = serving[r] /\ via'[r] = via[r]
            BY <1>0, <1>4, <2>1 DEF AcceptCopy, IgnoreCopy
        <3>2. copies'["rhizome"] = copies["rhizome"]
            BY <1>0, <2>1
        <3> QED  BY <1>0, <2>1, <3>1, <3>2 DEF Pending
    <2>3. CASE r = s /\ p = q
        <3>1. copies'["mdp"][r][p] = copies["mdp"][r][p] - 1
            BY <1>0, <2>1, <2>3
        <3>2. serving[r] # p
            BY <1>0, <2>1, <2>3
        <3> QED  BY <1>1, <2>1, <2>2, <3>1, <3>2 DEF Work
    <2>4. CASE ~ (r = s /\ p = q)
        <3>1. copies'["mdp"][r][p] = copies["mdp"][r][p]
            BY <1>0, <2>1, <2>4
        <3>2. serving'[r] = p => serving[r] = p
            BY <1>0, <2>1, <2>4
        <3> QED  BY <1>1, <2>1, <2>2, <3>1, <3>2 DEF Work
    <2> QED  BY <2>3, <2>4
<1>5. ASSUME NEW q \in Port, AcceptCopy(s, q, "rhizome") \/ IgnoreCopy(s, q, "rhizome")
      PROVE  Work(r, p)' <= Work(r, p)
    <2>1. AcceptCopy(s, q, "rhizome")
        BY <1>5 DEF IgnoreCopy
    <2>2. /\ serving[s] = 0 /\ copies["rhizome"][s][q] > 0 /\ q \notin done[s]
          /\ serving' = [serving EXCEPT ![s] = q]
          /\ via' = [via EXCEPT ![s] = "rhizome"]
          /\ UNCHANGED <<executed, requests, done, copies>>
        BY <2>1 DEF AcceptCopy, TakeCopy, CopiesWithout
    <2>3. CASE r = s /\ p = q
        <3>1. ~Pending(r, p)'
            BY <1>0, <2>2, <2>3 DEF Pending
        <3>2. Pending(r, p) /\ serving[r] # p
            BY <1>0, <2>2, <2>3 DEF Pending
        <3> QED  BY <1>1, <2>2, <3>1, <3>2 DEF Work
    <2>4. CASE ~ (r = s /\ p = q)
        <3>1. serving'[r] = p => serving[r] = p /\ via'[r] = via[r]
            BY <1>0, <2>2, <2>4
        <3>2. Pending(r, p)' => Pending(r, p)
            <4>1. serving[r] = p => serving'[r] = p /\ via'[r] = via[r]
                BY <1>0, <2>2, <2>4
            <4> QED  BY <2>2, <4>1 DEF Pending
        <3> QED  BY <1>1, <2>2, <3>1, <3>2 DEF Work
    <2> QED  BY <2>3, <2>4
<1>6. ASSUME NEW answer, Executes(s, answer), UNCHANGED <<copies, requests>>,
             \/ via[s] # "rhizome" /\ UNCHANGED done
             \/ done' = [done EXCEPT ![s] = @ \cup {serving[s]}],
             \A u \in Servers : u # s => via'[u] = via[u]
      PROVE  Work(r, p)' <= Work(r, p)
    <2>1. /\ serving[s] # 0
          /\ serving' = [serving EXCEPT ![s] = 0]
          /\ executed' = [executed EXCEPT ![s][serving[s]] = @ + 1]
        BY <1>6 DEF Executes, Produces
    <2>2. Pending(r, p)' => Pending(r, p)
        <3>1. CASE r # s
            BY <1>0, <1>6, <2>1, <3>1 DEF Pending
        <3>2. CASE r = s
            <4>1. p \in done[s] => p \in done'[s]
                BY <1>0, <1>6
            <4>2. via[s] = "rhizome" /\ serving[s] = p => p \in done'[s]
                BY <1>0, <1>6
            <4> QED  BY <1>6, <3>2, <4>1, <4>2 DEF Pending
        <3> QED  BY <3>1, <3>2
    <2>3. CASE r = s /\ p = serving[s]
        BY <1>0, <1>1, <1>6, <2>1, <2>2, <2>3 DEF Work
    <2>4. CASE ~ (r = s /\ p = serving[s])
        <3>1. executed'[r][p] = executed[r][p] /\ (serving'[r] = p => serving[r] = p)
            BY <1>0, <2>1, <2>4
        <3> QED  BY <1>1, <1>6, <2>1, <2>2, <3>1 DEF Work
    <2> QED  BY <2>3, <2>4
<1>7. ASSUME AnswerMsp(s)
      PROVE  Work(r, p)' <= Work(r, p)
    BY <1>6, <1>7 DEF AnswerMsp, Deliver, SendResult, ResultUndeliverable, tvars, netVars
<1>8. ASSUME NEW answer, AnswerMdp(s, answer) \/ AnswerRhizome(s, answer)
      PROVE  Work(r, p)' <= Work(r, p)
    <2>1. /\ Executes(s, answer) /\ UNCHANGED <<copies, requests>>
          /\ via' = [via EXCEPT ![s] = "msp"]
          /\ \/ via[s] # "rhizome" /\ UNCHANGED done
             \/ done' = [done EXCEPT ![s] = @ \cup {serving[s]}]
        BY <1>8 DEF AnswerMdp, AnswerRhizome, Idle
    <2>2. \A u \in Servers : u # s => via'[u] = via[u]
        BY <1>0, <2>1
    <2> QED  BY <1>6, <2>1, <2>2
<1>9. ASSUME NEW answer, Fails(s, answer)
      PROVE  Work(r, p)' <= Work(r, p)
    <2>1. /\ serving[s] # 0
          /\ serving' = [serving EXCEPT ![s] = 0]
          /\ via' = [via EXCEPT ![s] = "msp"]
          /\ UNCHANGED <<executed, requests, copies, done>>
        BY <1>9 DEF Fails, ExecutionFails, Produces, Idle
    <2>2. CASE r = s /\ p = serving[s]
        <3>1. serving[r] = p /\ serving'[r] # p
            BY <1>0, <2>1, <2>2
        <3> QED  BY <1>1, <2>1, <3>1 DEF Work
    <2>3. CASE ~ (r = s /\ p = serving[s])
        <3>1. serving'[r] = p => serving[r] = p
            BY <1>0, <2>1, <2>3
        <3>2. Pending(r, p)' => Pending(r, p)
            <4>1. serving[r] = p => serving'[r] = p /\ via'[r] = via[r]
                BY <1>0, <2>1, <2>3
            <4> QED  BY <2>1, <4>1 DEF Pending
        <3> QED  BY <1>1, <2>1, <3>1, <3>2 DEF Work
    <2> QED  BY <2>2, <2>3
<1> QED  BY <1>3, <1>4, <1>5, <1>7, <1>8, <1>9 DEF Server

\* A restart may make one bundle with a call pending again, if the store has one.
LEMMA RestartWork ==
    ASSUME TypeOK, NEW s \in Servers, ServerRestarts(s), NEW r \in Servers, NEW p \in Port
    PROVE  /\ restarts'[r] = restarts[r] + IF r = s THEN 1 ELSE 0
           /\ Work(r, p)' <= Work(r, p)
                 + IF r = s /\ copies["rhizome"][r][p] > 0 THEN 1 ELSE 0
<1>0. /\ serving \in [Servers -> Port \cup {0}]
      /\ executed \in [Servers -> [Port -> Nat]]
      /\ via \in [Servers -> Transports]
      /\ done \in [Servers -> SUBSET Port]
      /\ restarts \in [Servers -> 0 .. MaxRestarts]
      /\ 0 \notin Port
    BY TypeParts DEF ServerTypes, WorkTypes, Port
<1>1. executed[r][p] \in Nat /\ copies["mdp"][r][p] \in Nat /\ restarts[r] \in Nat
    BY WorkTerms
<1>2. /\ restarts' = [restarts EXCEPT ![s] = @ + 1]
      /\ done' = [done EXCEPT ![s] = {}]
      /\ via' = [via EXCEPT ![s] = "msp"]
      /\ UNCHANGED <<copies, requests>>
      /\ \/ UNCHANGED <<serving, executed>>
         \/ /\ serving[s] # 0
            /\ serving' = [serving EXCEPT ![s] = 0]
            /\ executed' = [executed EXCEPT ![s][serving[s]] = @ + 1]
    BY DEF ServerRestarts, Idle, Executes, Produces, serverVars
<1>3. restarts'[r] = restarts[r] + IF r = s THEN 1 ELSE 0
    BY <1>0, <1>1, <1>2
<1>4. CASE r # s
    <2>1. /\ serving'[r] = serving[r] /\ executed'[r] = executed[r] /\ via'[r] = via[r]
          /\ done'[r] = done[r]
        BY <1>0, <1>2, <1>4
    <2> QED  BY <1>1, <1>2, <1>3, <1>4, <2>1 DEF Work, Pending
<1>5. CASE r = s
    <2>1. Pending(r, p)' => copies["rhizome"][r][p] > 0
        BY <1>2 DEF Pending
    <2>2. CASE UNCHANGED <<serving, executed>>
        BY <1>1, <1>2, <1>3, <1>5, <2>1, <2>2 DEF Work
    <2>3. CASE ~UNCHANGED <<serving, executed>> /\ p = serving[s]
        <3>1. executed'[r][p] = executed[r][p] + 1 /\ serving[r] = p /\ serving'[r] # p
            BY <1>0, <1>2, <1>5, <2>3
        <3> QED  BY <1>1, <1>2, <1>3, <1>5, <2>1, <3>1 DEF Work
    <2>4. CASE ~UNCHANGED <<serving, executed>> /\ p # serving[s]
        <3>1. executed'[r][p] = executed[r][p] /\ (serving'[r] = p => serving[r] = p)
            BY <1>0, <1>2, <1>5, <2>4
        <3> QED  BY <1>1, <1>2, <1>3, <1>5, <2>1, <3>1 DEF Work
    <2> QED  BY <2>2, <2>3, <2>4
<1> QED  BY <1>4, <1>5

\* Only the client puts bundles with calls into stores, and counts them as issued.
LEMMA StoredIsIssuedStep ==
    ASSUME TypeOK, StoredIsIssued, [Next]_vars
    PROVE  StoredIsIssued'
<1>0. /\ copies \in [{"mdp", "rhizome"} -> [Servers -> [Port -> Nat]]]
      /\ issued \in [Transports -> [Port -> Nat]]
    BY TypeParts DEF WorkTypes
<1>1. CASE copies'["rhizome"] = copies["rhizome"] /\ issued'["rhizome"] = issued["rhizome"]
    BY <1>1 DEF StoredIsIssued
<1>2. CASE Elsewhere \/ EnterMdp \/ EntryFails \/ (FileArrives /\ UNCHANGED tvars)
    BY <1>1, <1>2, ElsewhereFrame DEF EnterMdp, EntryFails, tvars, netVars
<1>3. CASE EnterMsp \/ SendMdp
    <2>1. copies'["rhizome"] = copies["rhizome"]
        BY <1>0, <1>3 DEF EnterMsp, SendMdp, CopiesSent
    <2>2. issued'["rhizome"] = issued["rhizome"]
        BY <1>0, <1>3 DEF EnterMsp, SendMdp, Transports
    <2> QED  BY <1>1, <2>1, <2>2
<1>4. CASE EnterRhizome
    <2> SUFFICES ASSUME NEW s \in Servers, NEW p \in Port, copies'["rhizome"][s][p] > 0
                 PROVE  issued'["rhizome"][p] > 0
        BY DEF StoredIsIssued
    <2>1. copies'["rhizome"][s][p] = copies["rhizome"][s][p] \/ p = port
        <3>1. copies'["rhizome"][s][p] \in
                 {copies["rhizome"][s][p],
                  copies["rhizome"][s][p] + IF p = port THEN 1 ELSE 0}
            BY <1>4, TypeParts, IssueCopies DEF EnterRhizome
        <3>2. copies["rhizome"][s][p] \in Nat
            BY <1>0
        <3> QED  BY <3>1, <3>2
    <2>2. /\ issued["rhizome"][p] \in Nat
          /\ issued'["rhizome"][p] = issued["rhizome"][p] + IF p = port THEN 1 ELSE 0
        BY <1>0, <1>4 DEF EnterRhizome, Transports
    <2> QED  BY <2>1, <2>2 DEF StoredIsIssued
<1>5. ASSUME NEW s \in Servers, Server(s)
      PROVE  StoredIsIssued'
    <2>1. issued' = issued
        BY <1>5, ServerFrame
    <2>2. copies'["rhizome"] = copies["rhizome"]
        BY <1>0, <1>5
        DEF Server, AcceptMsp, AnswerMsp, tvars, netVars, AcceptCopy, IgnoreCopy, TakeCopy,
            CopiesWithout, Fails, AnswerMdp, AnswerRhizome, ServerRestarts
    <2> QED  BY <1>1, <2>1, <2>2
<1> QED  BY <1>2, <1>3, <1>4, <1>5, NextCases

\* A step that issues a call adds one to the grounds and at most one to the work of a
\* server; a restart does so for each call that is in the store; no other step adds to
\* the work.
LEMMA WorkBoundedStep ==
    ASSUME TypeOK, TypeOK', Shape, WorkIsBounded, StoredIsIssued, [Next]_vars
    PROVE  WorkIsBounded'
<1> SUFFICES ASSUME NEW s \in Servers, NEW p \in Port
             PROVE  Work(s, p)' <= Grounds(s, p)'
    BY DEF WorkIsBounded, Work, Grounds
<1>0. /\ Work(s, p) <= Grounds(s, p)
      /\ Work(s, p) \in Nat /\ Grounds(s, p) \in Nat
    BY WorkTerms DEF WorkIsBounded, Work, Grounds
<1>1. CASE Elsewhere
    BY <1>0, <1>1, ElsewhereFrame DEF Work, Grounds, Pending, serverVars
<1>2. CASE EnterMsp
    <2>1. /\ requests' = requests \cup {<<server_sid, port>>}
          /\ issued' = [issued EXCEPT !["msp"][port] = @ + 1]
          /\ UNCHANGED <<executed, copies, serving, via, done, restarts>>
        BY <1>2 DEF EnterMsp, Connect
    <2>2. issued \in [Transports -> [Port -> Nat]]
        BY TypeParts DEF WorkTypes
    <2>3. /\ issued'["msp"][p] = issued["msp"][p] + IF p = port THEN 1 ELSE 0
          /\ issued'["mdp"][p] = issued["mdp"][p]
          /\ issued'["rhizome"][p] = issued["rhizome"][p]
        BY <2>1, <2>2, WorkTerms DEF Transports
    <2>4. <<s, p>> \in requests' /\ <<s, p>> \notin requests => p = port
        BY <2>1
    <2>5. Pending(s, p)' <=> Pending(s, p)
        BY <2>1 DEF Pending
    <2> QED  BY <1>0, <2>1, <2>3, <2>4, <2>5, WorkTerms DEF Work, Grounds
<1>3. ASSUME NEW t \in {"mdp", "rhizome"}, copies' = CopiesSent(t),
             issued' = [issued EXCEPT ![t][port] = @ + 1],
             UNCHANGED <<executed, requests, serving, via, done, restarts>>
      PROVE  Work(s, p)' <= Grounds(s, p)'
    <2>1. issued \in [Transports -> [Port -> Nat]]
        BY TypeParts DEF WorkTypes
    <2>2. \A u \in Transports : issued'[u][p] = issued[u][p] + IF u = t /\ p = port THEN 1 ELSE 0
        BY <1>3, <2>1 DEF Transports
    <2>3. \A u \in {"mdp", "rhizome"} :
             copies'[u][s][p] \in {copies[u][s][p],
                                  copies[u][s][p] + IF u = t /\ p = port THEN 1 ELSE 0}
        BY <1>3, TypeParts, IssueCopies
    <2>4. Pending(s, p)' => Pending(s, p) \/ (t = "rhizome" /\ p = port)
        BY <1>3, <2>3, WorkTerms DEF Pending
    <2>5. /\ copies'["mdp"][s][p] <= copies["mdp"][s][p]
                                       + IF t = "mdp" /\ p = port THEN 1 ELSE 0
          /\ copies'["mdp"][s][p] \in Nat
        BY <2>3, WorkTerms
    <2>6. Work(s, p)' <= Work(s, p) + IF p = port THEN 1 ELSE 0
        BY <1>3, <2>4, <2>5, WorkTerms DEF Work
    <2>7. Grounds(s, p)' >= Grounds(s, p) + IF p = port THEN 1 ELSE 0
        BY <1>3, <2>2, WorkTerms DEF Grounds, Transports
    <2>8. Work(s, p)' \in Int /\ Grounds(s, p)' \in Int
        BY <1>3, <2>2, <2>5, WorkTerms DEF Work, Grounds, Transports
    <2> QED  BY <1>0, <2>6, <2>7, <2>8
<1>4. CASE EnterRhizome \/ SendMdp
    BY <1>3, <1>4 DEF EnterRhizome, SendMdp, mspVars, serverVars
<1>5. CASE EnterMdp \/ EntryFails \/ (FileArrives /\ UNCHANGED tvars)
    BY <1>0, <1>5 DEF EnterMdp, EntryFails, FileArrives, serverVars, tvars, netVars, Work,
       Grounds, Pending
<1>6. ASSUME NEW r \in Servers, Server(r)
      PROVE  Work(s, p)' <= Grounds(s, p)'
    <2>1. issued' = issued
        BY <1>6, ServerFrame
    <2>2. Work(s, p)' \in Int
        <3>1. /\ executed' \in [Servers -> [Port -> Nat]]
              /\ copies' \in [{"mdp", "rhizome"} -> [Servers -> [Port -> Nat]]]
            BY DEF TypeOK, MspTypes
        <3>2. executed'[s][p] \in Nat /\ copies'["mdp"][s][p] \in Nat
            BY <3>1
        <3> QED  BY <3>2 DEF Work
    <2>3. CASE ServerRestarts(r)
        <3>1. copies["rhizome"][s][p] > 0 => issued["rhizome"][p] # 0
            BY WorkTerms DEF StoredIsIssued
        <3>2. /\ restarts'[s] = restarts[s] + IF s = r THEN 1 ELSE 0
              /\ Work(s, p)' <= Work(s, p)
                    + IF s = r /\ copies["rhizome"][s][p] > 0 THEN 1 ELSE 0
            BY <2>3, RestartWork
        <3>3. Grounds(s, p)' = Grounds(s, p)
                 + IF s = r /\ issued["rhizome"][p] # 0 THEN 1 ELSE 0
            BY <2>1, <3>2, WorkTerms DEF Grounds
        <3> QED  BY <1>0, <2>2, <3>1, <3>2, <3>3
    <2>4. CASE ~ServerRestarts(r)
        <3>1. Work(s, p)' <= Work(s, p)
            BY <1>6, <2>4, ServerWork
        <3>2. restarts' = restarts
            BY <1>6, <2>4
            DEF Server, AcceptMsp, AnswerMsp, tvars, netVars, AcceptCopy, IgnoreCopy,
                TakeCopy, Fails, AnswerMdp, AnswerRhizome
        <3> QED  BY <1>0, <2>1, <2>2, <3>1, <3>2 DEF Grounds
    <2> QED  BY <2>3, <2>4
<1> QED  BY <1>1, <1>2, <1>4, <1>5, <1>6, NextCases

\* A server does no more for a call than the client has asked for, over however many
\* transports the call has gone and however often executions have failed - and than the
\* restarts of the server account for, if the call is in Rhizome.
THEOREM WorkBounded == Spec => []WorkIsBounded
<1>1. Init => WorkIsBounded /\ StoredIsIssued
    <2> SUFFICES ASSUME Init, NEW s \in Servers, NEW p \in Port
                 PROVE  /\ Work(s, p) <= Grounds(s, p)
                        /\ ~(copies["rhizome"][s][p] > 0)
        BY DEF WorkIsBounded, Work, Grounds, StoredIsIssued
    <2>1. p # 0
        BY DEF Port
    <2> QED  BY <2>1 DEF Init, MspInit, Work, Grounds, Pending, Transports
<1>2. TypeOK /\ TypeOK' /\ Shape /\ WorkIsBounded /\ StoredIsIssued /\ [Next]_vars
         => WorkIsBounded' /\ StoredIsIssued'
    BY WorkBoundedStep, StoredIsIssuedStep
<1> QED  BY <1>1, <1>2, TypesAlways, PTL DEF Spec

-----------------------------------------------------------------------------
(* MSP and its connection                                                   *)

\* What may happen while the client is in a call over MSP.
LEMMA InCallCases ==
    ASSUME TypeOK, InCall, [Next]_vars
    PROVE  \/ MspLoop \/ Handled \/ LinkEnds
           \/ UNCHANGED <<pc, received, rpc_result, server_sid>>
<1>0. stage = "msp"
    BY TypeParts DEF ControlTypes
<1>1. ASSUME NEW sid, Call(sid) \/ \E t \in Direct : CallDirectly(sid, t)
      PROVE  FALSE
    BY <1>0, <1>1 DEF Call, CallDirectly, Begin
<1>2. CASE Control
    BY <1>0, <1>2
    DEF Control, InCall, Unreachable, EnterMsp, EnterMdp, EnterRhizome, EntryFails, Enter,
        FallBack, JudgeRhizome, ReturnToCaller, MspReturns, MdpReturns, RhizomeReturns,
        SendMdp, MdpAck, MdpAnswer, MdpHash, MdpPacket, ReadAck, ReadAnswer,
        ReadHash, ReadBundle, Fetch
<1>3. CASE (\E s \in Servers : Server(s)) \/ (FileArrives /\ UNCHANGED tvars)
    BY <1>3, ServerFrame DEF flagVars, appVars
<1>4. CASE UNCHANGED vars
    BY <1>4 DEF vars, mspVars, clientVars, callVars, flagVars, appVars
<1> QED  BY <1>1, <1>2, <1>3, <1>4 DEF Next

\* Outside a call over MSP only one step leads into one.
LEMMA OutsideCall ==
    ASSUME TypeOK, ~InCall, [Next]_vars, ~EnterMsp
    PROVE  pc' = pc
<1> USE DEF callVars, clientVars, mspVars
<1>0. pc = "idle"
    BY DEF InCall
<1>1. ASSUME NEW sid, Call(sid) \/ \E t \in Direct : CallDirectly(sid, t)
      PROVE  pc' = pc
    BY <1>1 DEF Call, CallDirectly, Begin
<1>2. CASE Control
    <2>1. ASSUME NEW s, MdpAck(s) \/ MdpAnswer(s) \/ MdpHash(s)
          PROVE  pc' = pc
        BY <2>1 DEF MdpAck, MdpAnswer, MdpHash, MdpPacket
    <2>2. ASSUME NEW b, ReadAck(b) \/ ReadAnswer(b) \/ ReadHash(b)
          PROVE  pc' = pc
        BY <2>2 DEF ReadAck, ReadAnswer, ReadHash, ReadBundle
    <2> QED
        BY <1>2, <2>1, <2>2
        DEF Control, Unreachable, EnterMdp, EnterRhizome, EntryFails, FallBack,
            JudgeRhizome, ReturnToCaller, MspReturns, MdpReturns, RhizomeReturns, SendMdp,
            Fetch
<1>3. CASE MspLoop
    BY <1>0, <1>3 DEF MspLoop, Loop, KeepWaiting, Finish, RoundEnds, Download
<1>4. CASE Handled \/ LinkEnds
    BY <1>0, <1>4
    DEF Handled, MspAck, ReceiveAck, ReceiveAnswer, ReceiveHash, TakePacket, LinkEnds,
        ConnectionEnds
<1>5. CASE (\E s \in Servers : Server(s)) \/ (FileArrives /\ UNCHANGED tvars)
    BY <1>5, ServerFrame
<1>6. CASE UNCHANGED vars
    BY <1>6 DEF vars
<1> QED  BY <1>1, <1>2, <1>3, <1>4, <1>5, <1>6 DEF Next

\* In a call over MSP only the handler and the download write answers, and both take
\* those of the called server.
LEMMA AnswerIsTheServersStep ==
    ASSUME TypeOK, Shape, AnswerIsTheServers, [Next]_vars
    PROVE  AnswerIsTheServers'
<1> DEFINE Good(results, sid) ==
        \A i \in Slot : results[i].content # NoContent =>
            i = 0 /\ results[i].server_sid = sid /\ results[i].content[1] = sid
<1>1. CASE InCall
    <2>1. CASE UNCHANGED <<rpc_result, server_sid>>
        BY <1>1, <2>1 DEF AnswerIsTheServers
    <2>2. ASSUME NEW q, q[1] = server_sid, rpc_result' = StoreSingle(rpc_result, server_sid, q),
                 server_sid' = server_sid
          PROVE  Good(rpc_result, server_sid)'
        <3>1. Good(rpc_result, server_sid)
            BY <1>1 DEF AnswerIsTheServers
        <3>2. rpc_result \in Results(Payload)
            BY TypeParts DEF ArrayTypes
        <3> QED  BY <2>2, <3>1, <3>2 DEF StoreSingle, Results
    <2>3. CASE MspLoop
        <3>1. CASE Download
            <4>1. files \in Seq(Payload)
                BY TypeParts DEF FileTypes
            <4>2. FilesOfServer \in SUBSET (1 .. Len(files)) /\ Len(files) \in Nat
                BY <4>1 DEF FilesOfServer
            <4>3. Max(FilesOfServer) \in FilesOfServer
                BY <3>1, <4>2, MaxOfPositions DEF Download
            <4>4. files[Max(FilesOfServer)][1] = server_sid
                BY <4>3 DEF FilesOfServer
            <4> QED  BY <2>2, <3>1, <4>4 DEF Download, appVars, AnswerIsTheServers
        <3>2. CASE ~Download
            BY <2>1, <2>3, <3>2
            DEF MspLoop, Loop, KeepWaiting, Finish, RoundEnds, Return, flagVars, appVars
        <3> QED  BY <3>1, <3>2
    <2>4. CASE Handled
        <3>1. ASSUME NEW state, ReceiveAnswer(state)
              PROVE  AnswerIsTheServers'
            BY <2>2, <3>1 DEF ReceiveAnswer, TakePacket, appVars, AnswerIsTheServers
        <3> QED  BY <2>1, <2>4, <3>1
                 DEF Handled, MspAck, ReceiveAck, ReceiveHash, TakePacket, appVars
    <2>5. CASE LinkEnds
        BY <2>1, <2>5 DEF LinkEnds, ConnectionEnds, appVars
    <2> QED  BY <1>1, <2>1, <2>3, <2>4, <2>5, InCallCases
<1>2. CASE ~InCall
    <2>1. CASE EnterMsp
        BY <2>1 DEF EnterMsp, Connect, ClearedResults, AnswerIsTheServers
    <2>2. CASE ~EnterMsp
        <3>1. pc' = pc
            BY <1>2, <2>2, OutsideCall
        <3> QED  BY <1>2, <3>1 DEF InCall, AnswerIsTheServers
    <2> QED  BY <2>1, <2>2
<1> QED  BY <1>1, <1>2

\* Over MSP no answer of anybody but the called server gets into the array.
THEOREM AnswersOfTheServer == Spec => []AnswerIsTheServers
<1>1. Init => AnswerIsTheServers
    BY DEF Init, MspInit, InCall, AnswerIsTheServers
<1> QED  BY <1>1, TypesAlways, AnswerIsTheServersStep, PTL DEF Spec

-----------------------------------------------------------------------------
(* The cascade                                                              *)

\* The part of the invariant that the ladder of ifs is about.
Cascade == IssuedOnce /\ IssuedSoFar /\ AckHolds

\* The application begins a call, with a port that no call has had.
LEMMA BeginCascade ==
    ASSUME TypeOK, Shape, Cascade, NEW sid \in Sid,
           Call(sid) \/ \E t \in Direct : CallDirectly(sid, t)
    PROVE  Cascade'
<1>1. /\ stage = "idle" /\ stage' = "enter"
      /\ port' = port + 1 /\ port < MaxCalls
      /\ acked' = {}
      /\ issued' = issued
    BY DEF Call, CallDirectly, Begin
<1>2. port' \in Port /\ port' > port /\ port \in Int
    BY <1>1, TypeParts, MspAssumption DEF ControlTypes, Port
<1>3. \A t \in Transports : issued[t][port'] = 0
    BY <1>2 DEF Cascade, IssuedSoFar
<1>4. IssuedSoFar'
    <2>1. \A t \in Transports, p \in Port : p > port' => issued[t][p] = 0
        BY <1>1, <1>2 DEF Cascade, IssuedSoFar, Port
    <2> QED  BY <1>1, <1>3, <2>1 DEF IssuedSoFar, Transports
<1>5. AckHolds' /\ IssuedOnce'
    BY <1>1 DEF Cascade, AckHolds, IssuedOnce
<1> QED  BY <1>4, <1>5 DEF Cascade

\* Calls are issued.
LEMMA IssueCascade ==
    ASSUME TypeOK, Shape, Cascade, EnterMsp \/ EnterRhizome \/ SendMdp
    PROVE  Cascade'
<1>0. /\ port \in Port
      /\ issued \in [Transports -> [Port -> Nat]]
      /\ \A p \in Port : p > port => p # port
    BY TypeParts DEF Shape, EnterMsp, EnterRhizome, SendMdp, Enter, WorkTypes, Port
<1>1. PICK t \in Transports :
         /\ transport = t
         /\ issued' = [issued EXCEPT ![t][port] = @ + 1]
         /\ \/ t # "mdp" /\ stage = "enter" /\ stage' = t
            \/ t = "mdp" /\ stage = "mdp" /\ stage' = stage
         /\ UNCHANGED <<port, transport, transparent, server_sid, call_return, acked>>
    BY DEF EnterMsp, Connect, EnterRhizome, SendMdp, Enter, Shape, appVars, stageVars,
           mspVars, clientVars, Transports
<1>2. \A u \in Transports, p \in Port :
         issued'[u][p] = issued[u][p] + IF u = t /\ p = port THEN 1 ELSE 0
    BY <1>0, <1>1
<1>3. IssuedOnce'
    <2> SUFFICES ASSUME NEW p \in Port
                 PROVE  /\ issued'["rhizome"][p] <= 1
                        /\ issued'["msp"][p] + (IF issued'["mdp"][p] > 0 THEN 1 ELSE 0) <= 1
        BY DEF IssuedOnce
    <2>1. /\ issued["rhizome"][p] <= 1
          /\ issued["msp"][p] + (IF issued["mdp"][p] > 0 THEN 1 ELSE 0) <= 1
          /\ \A u \in Transports : issued[u][p] \in Nat
        BY <1>0 DEF Cascade, IssuedOnce
    <2>2. CASE p # port
        BY <1>2, <2>1, <2>2 DEF Transports
    <2>3. CASE p = port
        <3>1. /\ t = "rhizome" => issued["rhizome"][port] = 0
              /\ t = "mdp" => issued["msp"][port] = 0
              /\ t = "msp" => issued["mdp"][port] = 0 /\ issued["msp"][port] = 0
            BY <1>1 DEF Cascade, IssuedSoFar
        <3> QED  BY <1>1, <1>2, <2>1, <2>3, <3>1 DEF Transports
    <2> QED  BY <2>2, <2>3
<1>4. IssuedSoFar'
    <2>1. \A u \in Transports, p \in Port : p > port => issued'[u][p] = 0
        BY <1>0, <1>2 DEF Cascade, IssuedSoFar
    <2>2. \A u \in Transports : issued'[u][port] = issued[u][port] + IF u = t THEN 1 ELSE 0
        BY <1>0, <1>2
    <2> QED  BY <1>0, <1>1, <2>1, <2>2 DEF Cascade, IssuedSoFar, Transports
<1>5. AckHolds'
    BY <1>1 DEF Cascade, AckHolds, Shape
<1> QED  BY <1>3, <1>4, <1>5 DEF Cascade

\* A transport hands on its code: 2 if there has been an ACK from the only server,
\* and over Rhizome 2 or -1.
LEMMA LeaveCascade ==
    ASSUME TypeOK, Shape, Cascade, NEW c, Leave(c),
           transport = "rhizome" => c \in {-1, 2},
           stage \in {"enter", "msp", "mdp", "rhizome"},
           transparent /\ server_sid \in Servers /\ acked # {} /\ transport # "rhizome" => c = 2,
           UNCHANGED <<issued, port, server_sid, acked>>
    PROVE  Cascade'
<1>1. IssuedOnce'
    BY DEF Cascade, IssuedOnce
<1>2. IssuedSoFar'
    BY DEF Cascade, IssuedSoFar, Leave
<1>3. AckHolds'
    BY DEF Cascade, AckHolds, Leave, Shape
<1> QED  BY <1>1, <1>2, <1>3 DEF Cascade

\* The ifs of rpc_client_call: of a call that was acknowledged, or that Rhizome has
\* answered, none is taken.
LEMMA IfsCascade ==
    ASSUME TypeOK, Shape, Cascade, FallBack \/ JudgeRhizome \/ ReturnToCaller
    PROVE  Cascade'
<1>1. /\ UNCHANGED <<issued, port, server_sid, acked, received, pc, code, transparent,
                     call_return>>
      /\ stage \in {"cascade", "judge"}
    BY DEF FallBack, JudgeRhizome, ReturnToCaller, mspVars, clientVars, callVars,
           flagVars, appVars, netVars
<1>2. IssuedOnce'
    BY <1>1 DEF Cascade, IssuedOnce
<1>3. CASE FallBack
    <2>1. /\ stage = "cascade" /\ call_return < 2 /\ transport # "rhizome"
          /\ stage' = "enter" /\ transport' = "rhizome"
        BY <1>3, TypeParts DEF FallBack, Cascade, IssuedSoFar, ControlTypes
    <2> QED  BY <1>1, <1>2, <2>1 DEF Cascade, IssuedSoFar, AckHolds
<1>4. CASE JudgeRhizome
    <2>1. /\ transport' = transport /\ transport = "rhizome"
          /\ stage = "judge"
          /\ stage' = "idle" \/ (stage' = "cascade" /\ call_return > step)
          /\ call_return \in {-1, 2} /\ step \in -1 .. 2
        BY <1>4, TypeParts DEF JudgeRhizome, Shape, Cascade, IssuedSoFar, ControlTypes
    <2>2. stage' = "cascade" => call_return = 2
        BY <2>1
    <2> QED  BY <1>1, <1>2, <2>1, <2>2 DEF Cascade, IssuedSoFar, AckHolds
<1>5. CASE ReturnToCaller
    <2>1. transport' = transport /\ stage' = "idle"
        BY <1>5 DEF ReturnToCaller
    <2> QED  BY <1>1, <1>2, <2>1 DEF Cascade, IssuedSoFar, AckHolds
<1> QED  BY <1>3, <1>4, <1>5

\* In a call over MSP an ACK keeps the flag from falling back to 0 or to -1.
LEMMA MspCascade ==
    ASSUME TypeOK, Shape, Cascade, MspLoop \/ Handled \/ LinkEnds
    PROVE  Cascade'
<1>0. /\ InCall /\ stage = "msp"
      /\ UNCHANGED <<issued, port, server_sid, stageVars>>
    BY TypeParts
    DEF ControlTypes, MspLoop, Loop, KeepWaiting, Finish, RoundEnds, Download, Return,
        Handled, MspAck, ReceiveAck, ReceiveAnswer, ReceiveHash, TakePacket, LinkEnds,
        ConnectionEnds, InCall, appVars, tvars, netVars, SocketIsNull
<1>1. IssuedOnce' /\ IssuedSoFar'
    BY <1>0 DEF Cascade, IssuedOnce, IssuedSoFar, stageVars
<1>2. \/ acked' = acked /\ (received \in {1, 2} => received' \in {1, 2})
      \/ received' = 1
    BY DEF MspLoop, Loop, KeepWaiting, Finish, RoundEnds, Download, Return, Handled, MspAck,
       ReceiveAck, ReceiveAnswer, ReceiveHash, TakePacket, LinkEnds, ConnectionEnds,
       FlagAfter, flagVars, tvars, netVars, SocketIsNull
<1>3. pc' = "idle" => code' = received /\ received \notin {0, 1} /\ acked' = acked
    BY <1>0 DEF MspLoop, Loop, KeepWaiting, Finish, RoundEnds, Download, Return, Handled,
       MspAck, ReceiveAck, ReceiveAnswer, ReceiveHash, TakePacket, LinkEnds,
       ConnectionEnds, InCall, tvars, netVars, SocketIsNull
<1>4. AckHolds'
    BY <1>0, <1>2, <1>3 DEF Cascade, AckHolds, InCall, stageVars
<1> QED  BY <1>1, <1>4 DEF Cascade

\* Every step keeps the three of Cascade.
LEMMA CascadeStep ==
    ASSUME TypeOK, Shape, Cascade, [Next]_vars
    PROVE  Cascade'
<1>1. CASE Unreachable \/ EntryFails
    <2>1. /\ Leave(-1) /\ stage = "enter"
          /\ UNCHANGED <<issued, port, server_sid, acked>>
        BY <1>1 DEF Unreachable, EntryFails, netVars, mspVars, clientVars, appVars
    <2>2. ~ (transparent /\ server_sid \in Servers /\ acked # {})
        BY <2>1 DEF Cascade, AckHolds
    <2> QED  BY <2>1, <2>2, LeaveCascade
<1>2. CASE MspReturns
    <2>1. /\ Leave(code) /\ stage = "msp" /\ pc = "idle" /\ transport = "msp"
          /\ UNCHANGED <<issued, port, server_sid, acked>>
        BY <1>2 DEF MspReturns, InCall, Shape, appVars, netVars
    <2>2. transparent /\ server_sid \in Servers /\ acked # {} => code = 2
        BY <2>1 DEF Cascade, AckHolds
    <2> QED  BY <2>1, <2>2, LeaveCascade
<1>3. CASE MdpReturns
    <2>1. PICK c : /\ Leave(c) /\ stage = "mdp" /\ transport = "mdp"
                   /\ UNCHANGED <<issued, port, server_sid, acked>>
        BY <1>3 DEF MdpReturns, Shape, mspVars, clientVars, appVars
    <2>2. ~ (transparent /\ server_sid \in Servers)
        BY <2>1 DEF Shape
    <2> QED  BY <2>1, <2>2, LeaveCascade
<1>4. CASE RhizomeReturns
    <2>1. PICK c \in {-1, 2} : /\ Leave(c) /\ stage = "rhizome" /\ transport = "rhizome"
                               /\ UNCHANGED <<issued, port, server_sid, acked>>
        BY <1>4 DEF RhizomeReturns, Shape, appVars, DeadlineCode
    <2> QED  BY <2>1, LeaveCascade
<1>5. CASE EnterMdp
    <2>1. /\ stage = "enter" /\ stage' = "mdp" /\ transport = "mdp"
          /\ UNCHANGED <<issued, port, server_sid, acked, transport, transparent, call_return>>
        BY <1>5 DEF EnterMdp, Enter, appVars, netVars
    <2> QED  BY <2>1 DEF Cascade, IssuedOnce, IssuedSoFar, AckHolds
<1>6. ASSUME Receives, UNCHANGED issued
      PROVE  Cascade'
    <2>1. /\ stage' \in {"mdp", "rhizome", "fetch"} /\ stage \in {"mdp", "rhizome", "fetch"}
          /\ UNCHANGED <<port, server_sid, transport, transparent, call_return>>
        BY <1>6, TypeParts DEF Receives, ControlTypes, Transports
    <2> QED  BY <1>6, <2>1 DEF Cascade, IssuedOnce, IssuedSoFar, AckHolds
<1>7. CASE \/ Fetch
           \/ \E s \in Servers : MdpAck(s) \/ MdpAnswer(s) \/ MdpHash(s)
           \/ \E b \in bundles \cup MailedBundles : ReadAck(b) \/ ReadAnswer(b) \/ ReadHash(b)
    BY <1>6, <1>7, ReceiveFrame, ElsewhereFrame DEF Elsewhere
<1>8. CASE (\E s \in Servers : Server(s)) \/ (FileArrives /\ UNCHANGED tvars)
    <2>1. UNCHANGED <<pc, code, received, port, server_sid, stage, transport, transparent,
                      call_return, acked, issued>>
        BY <1>8, ServerFrame DEF flagVars, appVars, stageVars
    <2> QED  BY <2>1 DEF Cascade, IssuedOnce, IssuedSoFar, AckHolds
<1>9. CASE UNCHANGED vars
    BY <1>9
    DEF vars, mspVars, clientVars, callVars, flagVars, appVars, tvars, stageVars, netVars,
        Cascade, IssuedOnce, IssuedSoFar, AckHolds
<1> QED
    BY <1>1, <1>2, <1>3, <1>4, <1>5, <1>7, <1>8, <1>9, BeginCascade, IssueCascade,
       IfsCascade, MspCascade DEF Next, Control

\* The three of Cascade hold in every behaviour.
LEMMA CascadeAlways == Spec => []Cascade
<1>1. Init => Cascade
    <2> SUFFICES ASSUME Init
                 PROVE  IssuedOnce /\ IssuedSoFar /\ AckHolds
        BY DEF Cascade
    <2> USE DEF Init, MspInit
    <2>1. IssuedOnce
        BY DEF IssuedOnce, Transports
    <2>2. IssuedSoFar /\ AckHolds
        BY DEF IssuedSoFar, AckHolds
    <2> QED  BY <2>1, <2>2
<1> QED  BY <1>1, TypesAlways, CascadeStep, PTL DEF Spec

\* The ladder of ifs issues a call over Rhizome at most once, and over only one of
\* the other transports.
THEOREM CallsAreIssuedOnce == Spec => []IssuedOnce
<1>1. Cascade => IssuedOnce
    BY DEF Cascade
<1> QED  BY <1>1, CascadeAlways, PTL

\* A call that its server has acknowledged over MSP does not go out over Rhizome.
THEOREM AcknowledgedStays == Spec => []AcknowledgedIsNotRepeated
<1>1. Cascade => AcknowledgedIsNotRepeated
    BY DEF Cascade, AckHolds, AcknowledgedIsNotRepeated
<1> QED  BY <1>1, CascadeAlways, PTL

=============================================================================
