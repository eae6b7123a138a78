-------------------------- MODULE RhizomeCallProofs --------------------------
(***************************************************************************)
(* Theorems about RhizomeCall, for any number of servers, calls, failures  *)
(* and restarts.                                                           *)
(***************************************************************************)
EXTENDS RhizomeCall, RpcResultsProofs, FiniteSetTheorems

-----------------------------------------------------------------------------
(* Types                                                                    *)

\* What the servers keep stays well typed in their steps.
LEMMA ServeType ==
    ASSUME TypeOK, NEW s \in Servers,
           Serve(s) \/ PassFails(s) \/ ServerCrashes(s) \/ ServerRestarts(s)
    PROVE  ServerTypes'
<1>0. ServerTypes /\ inbox[s] \subseteq Port
    BY DEF TypeOK, StoreTypes
<1>1. ASSUME NEW bundles, Insert(bundles)
      PROVE  inserted' \in [AnswerBundle -> Nat]
    BY <1>0, <1>1 DEF Insert, ServerTypes
<1>2. CASE StartPass(s)
    BY <1>0, <1>2 DEF ServerTypes, StartPass, historyVars
<1>3. ASSUME NEW p \in Port, AcceptCall(s, p)
      PROVE  ServerTypes'
    <2>1. inserted' \in [AnswerBundle -> Nat]
        BY <1>1, <1>3 DEF AcceptCall
    <2> QED  BY <1>0, <1>3, <2>1 DEF ServerTypes, AcceptCall, Reach, historyVars
<1>4. ASSUME NEW p \in Port, IgnoreCall(s, p)
      PROVE  ServerTypes'
    BY <1>0, <1>4 DEF ServerTypes, IgnoreCall, Reach, historyVars
<1>5. CASE ExecutionFails(s)
    <2>1. inserted' \in [AnswerBundle -> Nat]
        BY <1>1, <1>5 DEF ExecutionFails
    <2>2. done' = done
        BY <1>0, <1>5 DEF ServerTypes, ExecutionFails, DoneAfterFailure
    <2>3. failed' \in [Servers -> [Port -> 0 .. MaxFailures]]
        BY <1>0, <1>5, RhizomeAssumption DEF ServerTypes, ExecutionFails
    <2>4. serving' \in [Servers -> Port \cup {0}]
        BY <1>0, <1>5 DEF ServerTypes, ExecutionFails
    <2> QED  BY <1>0, <1>5, <2>1, <2>2, <2>3, <2>4 DEF ServerTypes, ExecutionFails
<1>6. CASE ExecutionSucceeds(s)
    <2>1. inserted' \in [AnswerBundle -> Nat]
        BY <1>1, <1>6 DEF ExecutionSucceeds
    <2>2. serving[s] \in Port
        BY <1>0, <1>6 DEF ServerTypes, ExecutionSucceeds
    <2>3. done' \in [Servers -> SUBSET Port]
        BY <1>0, <1>6, <2>2 DEF ServerTypes, ExecutionSucceeds, DoneAfterSuccess
    <2>4. executed' \in [Servers -> [Port -> Nat]]
        BY <1>0, <1>6, <2>2 DEF ServerTypes, ExecutionSucceeds
    <2>5. serving' \in [Servers -> Port \cup {0}]
        BY <1>0, <1>6 DEF ServerTypes, ExecutionSucceeds
    <2> QED  BY <1>0, <1>6, <2>1, <2>3, <2>4, <2>5 DEF ServerTypes, ExecutionSucceeds
<1>7. CASE PassRefuses(s) \/ PassFails(s) \/ ServerCrashes(s)
    BY <1>0, <1>7 DEF ServerTypes, PassRefuses, PassFails, ServerCrashes, Stop, historyVars
<1>8. CASE ServerRestarts(s)
    <2>1. restarts' \in [Servers -> 0 .. MaxRestarts]
        BY <1>0, <1>8, RhizomeAssumption DEF ServerTypes, ServerRestarts
    <2> QED  BY <1>0, <1>8, <2>1 DEF ServerTypes, ServerRestarts
<1> QED  BY <1>2, <1>3, <1>4, <1>5, <1>6, <1>7, <1>8 DEF Serve

\* A server's step changes no store and nothing of the client.
LEMMA ServeFrame ==
    ASSUME NEW s \in Servers,
           Serve(s) \/ PassFails(s) \/ ServerCrashes(s) \/ ServerRestarts(s)
    PROVE  UNCHANGED <<clientVars, storeVars>>
BY DEF Serve, StartPass, AcceptCall, IgnoreCall, ExecutionFails, ExecutionSucceeds,
       PassRefuses, PassFails, ServerCrashes, ServerRestarts, Stop

\* A step of the client inside a call changes no store and no server.
LEMMA ClientFrame ==
    ASSUME Client
    PROVE  UNCHANGED <<storeVars, serverVars>>
BY DEF Client, Finish, GiveUp, Return, ListStore, ListingFails, PassEnds, DecryptionFails,
       SkipBundle, ReadAck, SkipAnswer, ReadAnswer, ReadHash, Read, AwaitFile,
       Download

\* The array and the flag stay well typed whatever an answer makes the client do.
LEMMA StoreAnswerType ==
    ASSUME ClientTypes, NEW s \in Servers, NEW payload \in Payload, StoreAnswer(s, payload)
    PROVE  /\ rpc_result' \in Results(Payload)
           /\ received' \in 0 .. 1
           /\ pc' \in {"loop", "read"}
<1> DEFINE position == _rpc_client_result_get_sid_index(rpc_result, s)
<1>1. /\ StoreReserved(rpc_result, position, payload) \in Results(Payload)
      /\ StoreSingle(rpc_result, s, payload) \in Results(Payload)
    BY StoreReservedType, StoreSingleType DEF ClientTypes
<1> QED  BY <1>1 DEF ClientTypes, StoreAnswer

\* A bundle of the store that is no call is one a server has made.
LEMMA AnswerInStore ==
    ASSUME StoreTypes, NEW i \in DOMAIN store, store[i].kind # "call"
    PROVE  /\ store[i] \in AnswerBundle
           /\ <<store[i].server, store[i].call>> \in Payload
<1>1. store[i] \in AnswerBundle \cup {CallBundle(p) : p \in Port}
    BY DEF StoreTypes
<1>2. \A p \in Port : CallBundle(p).kind = "call"
    BY DEF CallBundle
<1>3. store[i] \in AnswerBundle
    BY <1>1, <1>2
<1> QED  BY <1>3 DEF AnswerBundle, Payload

\* Reading a row moves the token, within what was listed.
LEMMA ReadType ==
    ASSUME TypeOK, NEW bundle, Read(bundle)
    PROVE  /\ token' \in 0 .. listed'
           /\ listed' \in 0 .. Len(store')
           /\ first' \in 0 .. token'
           /\ token + 1 \in DOMAIN store
BY DEF TypeOK, ClientTypes, StoreTypes, Read, storeVars

\* The newest file is a file: a nonempty set of positions has a greatest one.
LEMMA NewestFile ==
    ASSUME StoreTypes, {i \in DOMAIN store : store[i].kind = "file"} # {}
    PROVE  Max({i \in DOMAIN store : store[i].kind = "file"})
               \in {i \in DOMAIN store : store[i].kind = "file"}
<1> DEFINE arrived == {i \in DOMAIN store : store[i].kind = "file"}
<1> DEFINE below == {Len(store) - i : i \in arrived}
<1>1. Len(store) \in Nat /\ arrived \subseteq 1 .. Len(store)
    BY DEF StoreTypes
<1>2. below \in SUBSET Nat /\ below # {}
    BY <1>1
<1>3. PICK b \in below : \A y \in below : b <= y
    BY <1>2, MinOfNaturals
<1>4. PICK i \in arrived : b = Len(store) - i
    BY <1>3
<1>5. \A j \in arrived : j <= i
    <2> SUFFICES ASSUME NEW j \in arrived
                 PROVE  j <= i
        OBVIOUS
    <2>1. Len(store) - i <= Len(store) - j
        BY <1>3, <1>4
    <2> QED  BY <1>1, <2>1
<1> QED  BY <1>5 DEF Max

\* What the client keeps stays well typed in its steps inside a call.
LEMMA ClientType ==
    ASSUME TypeOK, Client
    PROVE  ClientTypes'
<1>0. ClientTypes /\ StoreTypes
    BY DEF TypeOK
<1>00. UNCHANGED store
    BY ClientFrame DEF storeVars
<1>1. ASSUME NEW c \in {-1, 2}, Return(c), received' \in 0 .. 1
      PROVE  ClientTypes'
    BY <1>0, <1>1 DEF ClientTypes, Return, storeVars
<1>2. CASE Finish \/ GiveUp \/ ListingFails \/ DecryptionFails
    <2>1. received' \in 0 .. 1
        BY <1>0, <1>2 DEF ClientTypes, Finish, GiveUp, ListingFails, DecryptionFails
    <2> QED  BY <1>1, <1>2, <2>1 DEF Finish, GiveUp, ListingFails, DecryptionFails
<1>3. CASE ListStore
    <2>1. time' \in Nat
        <3>1. PICK duration \in 1 .. PassTime : time' = time + duration
            BY <1>3 DEF ListStore, Elapsed
        <3> QED  BY <1>0, <3>1, RhizomeAssumption DEF ClientTypes
    <2>2. Len(store) \in Nat
        BY <1>0 DEF StoreTypes
    <2>3. Len(store) > 0
        BY <1>0, <1>3 DEF ClientTypes, ListStore
    <2>4. token' \in 0 .. listed' /\ listed' \in 0 .. Len(store') /\ first' \in 0 .. token'
        BY <1>0, <1>00, <1>3, <2>2, <2>3 DEF ClientTypes, ListStore, FirstUnread
    <2> QED  BY <1>0, <1>00, <1>3, <2>1, <2>4 DEF ClientTypes, ListStore
<1>4. CASE PassEnds
    BY <1>0, <1>00, <1>4 DEF ClientTypes, PassEnds
<1>5. ASSUME NEW bundle, Read(bundle), pc' \in {"read", "loop", "download"},
             rpc_result' \in Results(Payload), received' \in 0 .. 1,
             wait_time' \in {ShortWait, LongWait}, awaited' \in Servers \cup {NoServer},
             pc' = "download" => awaited' \in Servers, acked' \subseteq Servers
      PROVE  ClientTypes'
    <2>1. token' \in 0 .. listed' /\ listed' \in 0 .. Len(store') /\ first' \in 0 .. token'
        BY <1>5, ReadType
    <2> QED  BY <1>0, <1>00, <1>5, <2>1 DEF ClientTypes, Read
<1>6. ASSUME NEW bundle, SkipBundle(bundle) \/ SkipAnswer(bundle)
      PROVE  ClientTypes'
    <2>1. Read(bundle) /\ pc = "read"
        BY <1>6 DEF SkipBundle, SkipAnswer, Read
    <2>2. UNCHANGED <<pc, received, rpc_result, wait_time, awaited, acked>>
        BY <1>6 DEF SkipBundle, SkipAnswer
    <2> QED  BY <1>0, <1>5, <2>1, <2>2 DEF ClientTypes
<1>7. ASSUME NEW bundle, ReadAck(bundle)
      PROVE  ClientTypes'
    <2>1. Read(bundle) /\ pc = "read" /\ token + 1 \in DOMAIN store /\ bundle = store[token + 1]
        BY <1>7, ReadType DEF ReadAck, Read
    <2>2. bundle.server \in Servers
        BY <1>0, <1>7, <2>1, AnswerInStore DEF ReadAck, Payload
    <2>3. rpc_result' \in Results(Payload)
        BY <1>0, <1>7, <2>2, ReserveType DEF ClientTypes, ReadAck
    <2>4. wait_time' \in {ShortWait, LongWait}
        BY <1>0, <1>7 DEF ClientTypes, ReadAck, Extended
    <2> QED  BY <1>0, <1>5, <1>7, <2>1, <2>2, <2>3, <2>4 DEF ClientTypes, ReadAck
<1>8. ASSUME NEW bundle, ReadAnswer(bundle)
      PROVE  ClientTypes'
    <2>1. Read(bundle) /\ token + 1 \in DOMAIN store /\ bundle = store[token + 1]
        BY <1>8, ReadType DEF ReadAnswer, Read
    <2>2. bundle.server \in Servers /\ <<bundle.server, bundle.call>> \in Payload
        BY <1>0, <1>8, <2>1, AnswerInStore DEF ReadAnswer, Payload
    <2>3. rpc_result' \in Results(Payload) /\ received' \in 0 .. 1 /\ pc' \in {"loop", "read"}
        BY <1>0, <1>8, <2>2, StoreAnswerType DEF ReadAnswer
    <2> QED  BY <1>0, <1>5, <1>8, <2>1, <2>3 DEF ClientTypes, ReadAnswer
<1>9. ASSUME NEW bundle, ReadHash(bundle)
      PROVE  ClientTypes'
    <2>1. Read(bundle) /\ token + 1 \in DOMAIN store /\ bundle = store[token + 1]
        BY <1>9, ReadType DEF ReadHash, Read
    <2>2. bundle.server \in Servers
        BY <1>0, <1>9, <2>1, AnswerInStore DEF ReadHash, Payload
    <2> QED  BY <1>0, <1>5, <1>9, <2>1, <2>2 DEF ClientTypes, ReadHash
<1>10. CASE Download
    <2>1. FilesArrived \in SUBSET Nat
        BY <1>0 DEF StoreTypes, FilesArrived
    <2>2. Max(FilesArrived) \in FilesArrived
        BY <1>0, <1>10, NewestFile DEF Download, FilesArrived
    <2>3. <<store[Max(FilesArrived)].server, store[Max(FilesArrived)].call>> \in Payload
        BY <1>0, <2>2, AnswerInStore DEF FilesArrived
    <2>4. awaited \in Servers
        BY <1>0, <1>10 DEF ClientTypes, Download
    <2>5. rpc_result' \in Results(Payload) /\ received' \in 0 .. 1 /\ pc' \in {"loop", "read"}
        BY <1>0, <1>10, <2>3, <2>4, StoreAnswerType DEF Download
    <2>6. UNCHANGED <<server_sid, time, waited, wait_time, code, token, listed, port, first,
                      acked, store>>
          /\ awaited' = NoServer /\ pc # "idle"
        BY <1>10 DEF Download, storeVars
    <2> QED  BY <1>0, <2>5, <2>6 DEF ClientTypes
<1>11. CASE AwaitFile
    <2>1. time + 1 \in Nat /\ waited + 1 \in Nat
        BY <1>0 DEF ClientTypes
    <2> QED  BY <1>0, <1>00, <1>11, <2>1 DEF ClientTypes, AwaitFile
<1> QED
    BY <1>2, <1>3, <1>4, <1>6, <1>7, <1>8, <1>9, <1>10, <1>11 DEF Client

\* A new call, made or refused, starts from a cleared array.
LEMMA StartType ==
    ASSUME TypeOK, NEW sid \in Destinations, StartCall(sid) \/ RefuseCall(sid)
    PROVE  TypeOK'
<1>0. ClientTypes /\ StoreTypes /\ ServerTypes
    BY DEF TypeOK
<1>1. /\ sid \in Servers \cup {SidAny, SidBroadcast}
      /\ port + 1 \in Port /\ port' = port + 1
    <2>1. port < MaxCalls /\ port' = port + 1
        BY DEF StartCall, RefuseCall
    <2>2. port \in 0 .. MaxCalls
        BY <1>0 DEF ClientTypes
    <2> QED  BY <2>1, <2>2, RhizomeAssumption DEF Port
<1>2. ClearedResults \in Results(Payload)
    BY ClearedType
<1>3. ServerTypes'
    BY <1>0 DEF ServerTypes, StartCall, RefuseCall, serverVars, passVars, historyVars
<1>4. StoreTypes'
    <2>1. CASE StartCall(sid)
        <3>1. posted' \in [Port -> Servers \cup {SidAny, SidBroadcast, NotPosted}]
            BY <1>0, <1>1, <2>1 DEF StoreTypes, StartCall
        <3>2. store' \in Seq(AnswerBundle \cup {CallBundle(p) : p \in Port})
            BY <1>0, <1>1, <2>1 DEF StoreTypes, StartCall
        <3> QED  BY <1>0, <2>1, <3>1, <3>2 DEF StoreTypes, StartCall
    <2>2. CASE RefuseCall(sid)
        BY <1>0, <2>2 DEF StoreTypes, RefuseCall, storeVars
    <2> QED  BY <2>1, <2>2
<1>5. ClientTypes'
    <2>1. CASE StartCall(sid)
        <3>1. Len(store') = Len(store) + 1 /\ Len(store) \in Nat
            BY <1>0, <2>1 DEF StoreTypes, StartCall
        <3> QED  BY <1>0, <1>1, <1>2, <2>1, <3>1 DEF ClientTypes, Port, StartCall
    <2>2. CASE RefuseCall(sid)
        BY <1>0, <1>1, <1>2, <2>2 DEF ClientTypes, Port, RefuseCall, storeVars
    <2> QED  BY <2>1, <2>2
<1> QED  BY <1>3, <1>4, <1>5 DEF TypeOK

\* Replication only makes stores grow.
LEMMA ReplicateType ==
    ASSUME TypeOK, Replicate
    PROVE  TypeOK'
<1>0. ClientTypes /\ StoreTypes /\ ServerTypes
    BY DEF TypeOK
<1>1. UNCHANGED <<clientVars, serverVars, posted>>
    BY DEF Replicate, CallArrives, AnswerArrives
<1>2. ServerTypes'
    BY <1>0, <1>1 DEF ServerTypes, serverVars, passVars, historyVars
<1>3. ASSUME NEW s \in Servers, NEW p \in Port, CallArrives(s, p)
      PROVE  TypeOK'
    <2>1. StoreTypes'
        BY <1>0, <1>3 DEF StoreTypes, CallArrives
    <2>2. ClientTypes'
        BY <1>0, <1>1, <1>3 DEF ClientTypes, CallArrives, clientVars
    <2> QED  BY <1>2, <2>1, <2>2 DEF TypeOK
<1>4. ASSUME NEW b \in AnswerBundle, AnswerArrives(b)
      PROVE  TypeOK'
    <2>1. /\ store' \in Seq(AnswerBundle \cup {CallBundle(p) : p \in Port})
          /\ Len(store') = Len(store) + 1 /\ Len(store) \in Nat
        BY <1>0, <1>4 DEF StoreTypes, AnswerArrives
    <2>2. StoreTypes'
        BY <1>0, <1>4, <2>1 DEF StoreTypes, AnswerArrives
    <2>3. ClientTypes'
        BY <1>0, <1>1, <2>1 DEF ClientTypes, clientVars
    <2> QED  BY <1>2, <2>2, <2>3 DEF TypeOK
<1> QED  BY <1>3, <1>4 DEF Replicate

\* Type correctness: every variable of the client, of the servers and of the
\* stores keeps its type, the read position stays within the listing, and the
\* listing within the store.
THEOREM TypeCorrect == Spec => []TypeOK
<1>1. Init => TypeOK
    <2> SUFFICES ASSUME Init
                 PROVE  TypeOK
        OBVIOUS
    <2>1. ClientTypes
        BY ClearedType, RhizomeAssumption DEF Init, ClientTypes
    <2>2. StoreTypes
        BY DEF Init, StoreTypes
    <2>3. ServerTypes
        BY RhizomeAssumption DEF Init, ServerTypes
    <2> QED  BY <2>1, <2>2, <2>3 DEF TypeOK
<1>2. TypeOK /\ [Next]_vars => TypeOK'
    <2> SUFFICES ASSUME TypeOK, [Next]_vars
                 PROVE  TypeOK'
        OBVIOUS
    <2>0. ClientTypes /\ StoreTypes /\ ServerTypes
        BY DEF TypeOK
    <2>1. ASSUME NEW sid \in Destinations, StartCall(sid) \/ RefuseCall(sid)
          PROVE  TypeOK'
        BY <2>1, StartType
    <2>2. CASE Client
        <3>1. ClientTypes'
            BY <2>2, ClientType
        <3>2. StoreTypes'
            BY <2>0, <2>2, ClientFrame DEF StoreTypes, storeVars
        <3>3. ServerTypes'
            BY <2>0, <2>2, ClientFrame DEF ServerTypes, serverVars, passVars, historyVars
        <3> QED  BY <3>1, <3>2, <3>3 DEF TypeOK
    <2>3. ASSUME NEW s \in Servers,
                 Serve(s) \/ PassFails(s) \/ ServerCrashes(s) \/ ServerRestarts(s)
          PROVE  TypeOK'
        <3>1. ServerTypes'
            BY <2>3, ServeType
        <3>2. UNCHANGED <<clientVars, storeVars>>
            BY <2>3, ServeFrame
        <3>3. StoreTypes'
            BY <2>0, <3>2 DEF StoreTypes, storeVars
        <3>4. ClientTypes'
            BY <2>0, <3>2 DEF ClientTypes, clientVars, storeVars
        <3> QED  BY <3>1, <3>3, <3>4 DEF TypeOK
    <2>4. CASE Replicate
        BY <2>4, ReplicateType
    <2>5. CASE UNCHANGED vars
        BY <2>0, <2>5 DEF TypeOK, ClientTypes, StoreTypes, ServerTypes, vars, clientVars,
                          storeVars, serverVars, passVars, historyVars
    <2> QED  BY <2>1, <2>2, <2>3, <2>4, <2>5 DEF Next
<1> QED  BY <1>1, <1>2, PTL DEF Spec

-----------------------------------------------------------------------------
(* The result array                                                         *)

\* A step of the client inside a call keeps the taken slots in front.
LEMMA ClientOrder ==
    ASSUME TypeOK, SlotsInOrder, Client
    PROVE  SlotsInOrder'
<1>0. ClientTypes /\ StoreTypes /\ rpc_result \in Results(Payload) /\ TakenFirst(rpc_result)
    BY DEF TypeOK, ClientTypes, SlotsInOrder
<1>1. ASSUME UNCHANGED rpc_result
      PROVE  SlotsInOrder'
    BY <1>0, <1>1 DEF SlotsInOrder, TakenFirst
<1>2. CASE Finish \/ GiveUp \/ ListStore \/ ListingFails \/ PassEnds \/ DecryptionFails
    BY <1>1, <1>2 DEF Finish, GiveUp, Return, ListStore, ListingFails, PassEnds, DecryptionFails
<1>3. ASSUME NEW bundle, SkipBundle(bundle) \/ SkipAnswer(bundle) \/ ReadHash(bundle)
      PROVE  SlotsInOrder'
    BY <1>1, <1>3 DEF SkipBundle, SkipAnswer, ReadHash
<1>4. ASSUME NEW s \in Servers, NEW payload, StoreAnswer(s, payload)
      PROVE  SlotsInOrder'
    <2> DEFINE position == _rpc_client_result_get_sid_index(rpc_result, s)
    <2>1. /\ TakenFirst(StoreReserved(rpc_result, position, payload))
          /\ TakenFirst(StoreSingle(rpc_result, s, payload))
        BY <1>0, StoreReservedOrder, StoreSingleOrder
    <2> QED  BY <1>4, <2>1 DEF StoreAnswer, SlotsInOrder
<1>5. ASSUME NEW bundle, ReadAck(bundle)
      PROVE  SlotsInOrder'
    <2>1. Read(bundle) /\ token + 1 \in DOMAIN store /\ bundle = store[token + 1]
        BY <1>5, ReadType DEF ReadAck, Read
    <2>2. bundle.server \in Servers
        BY <1>0, <1>5, <2>1, AnswerInStore DEF ReadAck, Payload
    <2>3. TakenFirst(Reserve(rpc_result, bundle.server))
        BY <1>0, <2>2, ReserveOrder
    <2> QED  BY <1>0, <1>5, <2>3 DEF ReadAck, SlotsInOrder
<1>6. ASSUME NEW bundle, ReadAnswer(bundle)
      PROVE  SlotsInOrder'
    <2>1. Read(bundle) /\ token + 1 \in DOMAIN store /\ bundle = store[token + 1]
        BY <1>6, ReadType DEF ReadAnswer, Read
    <2>2. bundle.server \in Servers
        BY <1>0, <1>6, <2>1, AnswerInStore DEF ReadAnswer, Payload
    <2> QED  BY <1>4, <1>6, <2>2 DEF ReadAnswer
<1>7. CASE Download
    <2>1. awaited \in Servers
        BY <1>0, <1>7 DEF ClientTypes, Download
    <2> QED  BY <1>4, <1>7, <2>1 DEF Download
<1>8. CASE AwaitFile
    BY <1>0, <1>8 DEF AwaitFile, SlotsInOrder
<1> QED  BY <1>2, <1>3, <1>5, <1>6, <1>7, <1>8 DEF Client

\* The reserved slots stay in front in every behaviour: the number that
\* rpc_client_result_get_insert_index returns is the number of servers that hold
\* a slot, whatever ACKs, answers and files arrive, and in what order.
THEOREM SlotsStayInOrder == Spec => []SlotsInOrder
<1>1. Init => SlotsInOrder
    BY ClearedOrder DEF Init, SlotsInOrder
<1>2. TypeOK /\ SlotsInOrder /\ [Next]_vars => SlotsInOrder'
    <2> SUFFICES ASSUME TypeOK, SlotsInOrder, [Next]_vars
                 PROVE  SlotsInOrder'
        OBVIOUS
    <2>1. ASSUME NEW sid \in Destinations, StartCall(sid) \/ RefuseCall(sid)
          PROVE  SlotsInOrder'
        <3>1. rpc_result' = ClearedResults
            BY <2>1 DEF StartCall, RefuseCall
        <3> QED  BY <3>1, ClearedOrder DEF SlotsInOrder
    <2>2. CASE Client
        BY <2>2, ClientOrder
    <2>3. ASSUME UNCHANGED rpc_result
          PROVE  SlotsInOrder'
        BY <2>3 DEF SlotsInOrder, TakenFirst
    <2>4. ASSUME NEW s \in Servers,
                 Serve(s) \/ PassFails(s) \/ ServerCrashes(s) \/ ServerRestarts(s)
          PROVE  SlotsInOrder'
        BY <2>3, <2>4, ServeFrame DEF clientVars
    <2>5. CASE Replicate
        BY <2>3, <2>5 DEF Replicate, CallArrives, AnswerArrives, clientVars
    <2>6. CASE UNCHANGED vars
        BY <2>3, <2>6 DEF vars, clientVars
    <2> QED  BY <2>1, <2>2, <2>4, <2>5, <2>6 DEF Next
<1> QED  BY <1>1, <1>2, TypeCorrect, PTL DEF Spec

-----------------------------------------------------------------------------
(* A call is executed once in each life of a server                         *)

\* The inductive invariant, for one server.  Every life of a server may add one
\* result for a call; the done list says whether this one has.  A call that is
\* listed or being executed is not done, and a server that is down does nothing.
OnceAt(s) ==
    /\ \A p \in Port :
          executed[s][p] <= restarts[s] + IF p \in done[s] \/ ~running[s] THEN 1 ELSE 0
    /\ todo[s] \cap done[s] = {}
    /\ serving[s] \notin done[s] \cup todo[s]
    /\ ~running[s] => serving[s] = 0 /\ todo[s] = {}

Once == \A s \in Servers : OnceAt(s)

\* A step of one server keeps its own part of the invariant.
LEMMA ServeOnce ==
    ASSUME TypeOK, NEW s \in Servers, OnceAt(s),
           Serve(s) \/ PassFails(s) \/ ServerCrashes(s) \/ ServerRestarts(s)
    PROVE  OnceAt(s)'
<1>0. ServerTypes /\ 0 \notin Port /\ inbox[s] \subseteq Port
    BY DEF TypeOK, StoreTypes, Port
<1>1. /\ restarts[s] \in Nat
      /\ \A p \in Port : executed[s][p] \in Nat
    BY <1>0, RhizomeAssumption DEF ServerTypes
<1>2. CASE StartPass(s)
    BY <1>0, <1>2 DEF ServerTypes, OnceAt, StartPass, historyVars
<1>3. ASSUME NEW p \in Port, AcceptCall(s, p)
      PROVE  OnceAt(s)'
    BY <1>0, <1>3 DEF ServerTypes, OnceAt, AcceptCall, Reach, historyVars
<1>4. ASSUME NEW p \in Port, IgnoreCall(s, p)
      PROVE  OnceAt(s)'
    BY <1>0, <1>4 DEF ServerTypes, OnceAt, IgnoreCall, Reach, historyVars
<1>5. CASE ExecutionFails(s)
    BY <1>0, <1>5 DEF ServerTypes, OnceAt, ExecutionFails, DoneAfterFailure
<1>6. CASE ExecutionSucceeds(s)
    <2>1. /\ serving[s] \in Port
          /\ serving'[s] = 0
          /\ done'[s] = done[s] \cup {serving[s]}
          /\ UNCHANGED <<running, todo, restarts>>
          /\ \A p \in Port :
                executed'[s][p] = IF p = serving[s] THEN executed[s][p] + 1 ELSE executed[s][p]
        BY <1>0, <1>6 DEF ServerTypes, ExecutionSucceeds, DoneAfterSuccess
    <2>2. running[s] /\ serving[s] \notin done[s] \cup todo[s] /\ done[s] \subseteq Port
        BY <1>0, <2>1 DEF ServerTypes, OnceAt
    <2>3. ASSUME NEW p \in Port
          PROVE  executed'[s][p] <= restarts'[s] + IF p \in done'[s] \/ ~running'[s] THEN 1 ELSE 0
        BY <1>1, <2>1, <2>2 DEF OnceAt
    <2>4. todo'[s] \cap done'[s] = {} /\ serving'[s] \notin done'[s] \cup todo'[s] /\ running'[s]
        BY <1>0, <2>1, <2>2 DEF ServerTypes, OnceAt
    <2> QED  BY <2>3, <2>4 DEF OnceAt
<1>7. CASE PassRefuses(s) \/ PassFails(s) \/ ServerCrashes(s)
    <2>1. Stop(s)
        BY <1>7 DEF PassRefuses, PassFails, ServerCrashes
    <2>2. /\ ~running'[s] /\ todo'[s] = {} /\ serving'[s] = 0 /\ done'[s] = {}
          /\ UNCHANGED <<executed, restarts>>
        BY <1>0, <2>1 DEF ServerTypes, Stop, historyVars
    <2>3. \A p \in Port : executed'[s][p] <= restarts'[s] + 1
        BY <1>1, <2>2 DEF OnceAt
    <2> QED  BY <2>2, <2>3 DEF OnceAt
<1>8. CASE ServerRestarts(s)
    <2>1. /\ restarts'[s] = restarts[s] + 1 /\ running'[s]
          /\ UNCHANGED <<executed, todo, serving, done>>
        BY <1>0, <1>8 DEF ServerTypes, ServerRestarts
    <2>2. \A p \in Port : executed'[s][p] <= restarts'[s]
        BY <1>1, <1>8, <2>1 DEF OnceAt, ServerRestarts
    <2>3. \A p \in Port :
              executed'[s][p] <= restarts'[s] + IF p \in done'[s] \/ ~running'[s] THEN 1 ELSE 0
        BY <1>1, <2>1, <2>2
    <2> QED  BY <2>1, <2>3 DEF OnceAt
<1> QED  BY <1>2, <1>3, <1>4, <1>5, <1>6, <1>7, <1>8 DEF Serve

\* A step of one server leaves the others alone.
LEMMA ServeAlone ==
    ASSUME TypeOK, NEW s \in Servers, NEW t \in Servers, s # t,
           Serve(s) \/ PassFails(s) \/ ServerCrashes(s) \/ ServerRestarts(s)
    PROVE  /\ executed'[t] = executed[t]
           /\ restarts'[t] = restarts[t]
           /\ done'[t] = done[t]
           /\ todo'[t] = todo[t]
           /\ serving'[t] = serving[t]
           /\ running'[t] = running[t]
<1>0. ServerTypes
    BY DEF TypeOK
<1>1. CASE StartPass(s)
    BY <1>0, <1>1 DEF ServerTypes, StartPass, historyVars
<1>2. ASSUME NEW p \in Port, AcceptCall(s, p) \/ IgnoreCall(s, p)
      PROVE  /\ executed'[t] = executed[t] /\ restarts'[t] = restarts[t]
             /\ done'[t] = done[t] /\ todo'[t] = todo[t]
             /\ serving'[t] = serving[t] /\ running'[t] = running[t]
    BY <1>0, <1>2 DEF ServerTypes, AcceptCall, IgnoreCall, Reach, historyVars
<1>3. CASE ExecutionFails(s)
    BY <1>0, <1>3 DEF ServerTypes, ExecutionFails
<1>4. CASE ExecutionSucceeds(s)
    BY <1>0, <1>4 DEF ServerTypes, ExecutionSucceeds
<1>5. CASE PassRefuses(s) \/ PassFails(s) \/ ServerCrashes(s)
    BY <1>0, <1>5 DEF ServerTypes, PassRefuses, PassFails, ServerCrashes, Stop, historyVars
<1>6. CASE ServerRestarts(s)
    BY <1>0, <1>6 DEF ServerTypes, ServerRestarts
<1> QED  BY <1>1, <1>2, <1>3, <1>4, <1>5, <1>6 DEF Serve

\* A server executes a call with success at most once in each of its lives:
\* _rpc_server_rhizome_finished and the scan of done_calls see to it, however
\* often the call is listed; only a restart, which loses the list, repeats it.
THEOREM CallsAreExecutedOnce == Spec => []ExecutedOnce
<1>1. Init => Once
    BY DEF Init, Once, OnceAt, Port
<1>2. TypeOK /\ Once /\ [Next]_vars => Once'
    <2> SUFFICES ASSUME TypeOK, Once, [Next]_vars, NEW t \in Servers
                 PROVE  OnceAt(t)'
        BY DEF Once
    <2>0. OnceAt(t)
        BY DEF Once
    <2>1. ASSUME UNCHANGED serverVars
          PROVE  OnceAt(t)'
        BY <2>0, <2>1 DEF OnceAt, serverVars, passVars, historyVars
    <2>2. ASSUME NEW sid \in Destinations, StartCall(sid) \/ RefuseCall(sid)
          PROVE  OnceAt(t)'
        BY <2>1, <2>2 DEF StartCall, RefuseCall
    <2>3. CASE Client
        BY <2>1, <2>3, ClientFrame
    <2>4. ASSUME NEW s \in Servers,
                 Serve(s) \/ PassFails(s) \/ ServerCrashes(s) \/ ServerRestarts(s)
          PROVE  OnceAt(t)'
        <3>1. CASE s = t
            BY <2>0, <2>4, <3>1, ServeOnce
        <3>2. CASE s # t
            BY <2>0, <2>4, <3>2, ServeAlone DEF OnceAt
        <3> QED  BY <3>1, <3>2
    <2>5. CASE Replicate
        BY <2>1, <2>5 DEF Replicate, CallArrives, AnswerArrives
    <2>6. CASE UNCHANGED vars
        BY <2>1, <2>6 DEF vars
    <2> QED  BY <2>2, <2>3, <2>4, <2>5, <2>6 DEF Next
<1>3. TypeOK /\ Once => ExecutedOnce
    <2> SUFFICES ASSUME TypeOK, Once, NEW s \in Servers, NEW p \in Port
                 PROVE  executed[s][p] <= 1 + restarts[s]
        BY DEF ExecutedOnce
    <2>1. executed[s][p] \in Nat /\ restarts[s] \in Nat
        BY RhizomeAssumption DEF TypeOK, ServerTypes
    <2>2. executed[s][p] <= restarts[s] + IF p \in done[s] \/ ~running[s] THEN 1 ELSE 0
        BY DEF Once, OnceAt
    <2> QED  BY <2>1, <2>2
<1> QED  BY <1>1, <1>2, <1>3, TypeCorrect, PTL DEF Spec

-----------------------------------------------------------------------------
(* The codes and the deadline                                               *)

\* The slot of s, or -1.
Place(s) == _rpc_client_result_get_sid_index(rpc_result, s)

\* What a call that is open has in its array and its flag.
ArrayIsTrue ==
    pc # "idle" =>
        /\ code = NoCode
        /\ pc \in {"read", "download"} => received = 0
        /\ Broadcast =>
              /\ rpc_result[0].server_sid # SidAny => acked # {}
              /\ received = 1 => acked # {}
        /\ ~Broadcast =>
              IF received = 0 THEN rpc_result = ClearedResults
                              ELSE rpc_result[0].content # NoContent

\* The deadline is the long one once an ACK has been read, and a pass begins before it,
\* unless the call has slept for a file.
DeadlineIsTrue ==
    pc # "idle" =>
        /\ wait_time = IF acked = {} THEN ShortWait ELSE LongWait
        /\ time <= PassTime + waited + wait_time

Truthful == ArrayIsTrue /\ DeadlineIsTrue /\ CodesTellTheTruth

\* Slot 0 is the first.
LEMMA SlotZero == 0 \in Slot /\ MaxResults - 1 \in Slot /\ \A i \in Slot : i # 0 => 0 < i
BY ResultsAssumption DEF Slot

\* The rows that are read are bundles of servers, unless they are calls.
LEMMA RowRead ==
    ASSUME TypeOK, NEW bundle, Read(bundle)
    PROVE  /\ pc = "read"
           /\ token + 1 \in DOMAIN store
           /\ bundle = store[token + 1]
           /\ bundle.kind # "call" => /\ bundle \in AnswerBundle
                                      /\ bundle.server \in Servers
                                      /\ bundle.call \in Port
<1>1. pc = "read" /\ token + 1 \in DOMAIN store /\ bundle = store[token + 1]
    BY ReadType DEF Read
<1>2. StoreTypes
    BY DEF TypeOK
<1>3. bundle.kind # "call" => bundle \in AnswerBundle
    BY <1>1, <1>2, AnswerInStore
<1> QED  BY <1>1, <1>3 DEF AnswerBundle

\* What an answer that is stored changes.
LEMMA AnswerStored ==
    ASSUME TypeOK, NEW s \in Servers, NEW q, StoreAnswer(s, q)
    PROVE  /\ ~Broadcast => /\ rpc_result'[0] = [server_sid |-> s, content |-> q]
                            /\ received' = 1 /\ pc' = "loop"
           /\ Broadcast =>
                 /\ \A i \in Slot : rpc_result'[i] =
                       IF i = Place(s) THEN [rpc_result[i] EXCEPT !.content = q]
                                       ELSE rpc_result[i]
                 /\ \/ received' = 1 /\ pc' = "loop" /\ Place(s) \in Slot
                    \/ received' = received /\ pc' = "read"
<1>1. rpc_result \in Results(Payload)
    BY DEF TypeOK, ClientTypes
<1>2. Place(s) = MaxResults - 1 => Place(s) \in Slot
    BY SlotZero
<1>3. CASE Broadcast
    <2>1. rpc_result' = StoreReserved(rpc_result, Place(s), q)
        BY <1>3 DEF StoreAnswer, Place
    <2>2. \A i \in Slot : rpc_result'[i] =
              IF i = Place(s) THEN [rpc_result[i] EXCEPT !.content = q] ELSE rpc_result[i]
        BY <1>1, <2>1 DEF StoreReserved, Results
    <2> QED  BY <1>2, <1>3, <2>2 DEF StoreAnswer, Place
<1>4. CASE ~Broadcast
    BY <1>1, <1>4, SlotZero DEF StoreAnswer, StoreSingle, Results
<1> QED  BY <1>3, <1>4

\* What an "all" call is content with is a server in slot 0.
LEMMA CollectedMeans ==
    ASSUME TypeOK
    PROVE  Collected => Broadcast /\ rpc_result[0].server_sid # SidAny
<1> DEFINE k == rpc_client_result_get_insert_index(rpc_result)
<1>1. /\ k \in 0 .. MaxResults
      /\ \A j \in Slot : j < k => rpc_result[j].server_sid # SidAny
    BY InsertIndex DEF TypeOK, ClientTypes
<1>2. Collected => Broadcast /\ k > 0
    BY DEF Collected
<1> QED  BY <1>1, <1>2, SlotZero

\* The file that is taken is the answer of some server to some call.
LEMMA FileOfServer ==
    ASSUME TypeOK, Download
    PROVE  \E q \in Payload : StoreAnswer(awaited, q)
<1> DEFINE newest == store[Max(FilesArrived)]
<1>1. StoreTypes /\ FilesArrived # {} /\ StoreAnswer(awaited, <<newest.server, newest.call>>)
    BY DEF TypeOK, Download
<1>2. Max(FilesArrived) \in FilesArrived
    BY <1>1, NewestFile DEF FilesArrived
<1>3. <<newest.server, newest.call>> \in Payload
    BY <1>1, <1>2, AnswerInStore DEF FilesArrived
<1> QED  BY <1>1, <1>3

\* The call that returns has a code that is true.
LEMMA ReturnTruth ==
    ASSUME TypeOK, Truthful, Finish \/ GiveUp \/ ListingFails \/ DecryptionFails
    PROVE  Truthful'
<1>1. pc # "idle" /\ received \in 0 .. 1
    BY DEF Finish, GiveUp, ListingFails, DecryptionFails, TypeOK, ClientTypes
<1>2. PICK c \in {-1, 2} :
         /\ Return(c)
         /\ c = 2 => IF Broadcast THEN acked # {} ELSE rpc_result[0].content # NoContent
         /\ c = -1 => Broadcast \/ rpc_result = ClearedResults
    <2>1. CASE Finish
        BY <1>1, <2>1 DEF Finish, Truthful, ArrayIsTrue
    <2>2. CASE GiveUp
        BY <1>1, <2>2, CollectedMeans DEF GiveUp, Truthful, ArrayIsTrue
    <2>3. CASE ListingFails
        BY <1>1, <2>3 DEF ListingFails, Truthful, ArrayIsTrue
    <2>4. CASE DecryptionFails
        BY <1>1, <2>4 DEF DecryptionFails, Truthful, ArrayIsTrue
    <2> QED  BY <2>1, <2>2, <2>3, <2>4
<1>3. pc' = "idle" /\ code' = c /\ UNCHANGED <<server_sid, rpc_result, acked>>
    BY <1>2 DEF Return
<1> QED  BY <1>2, <1>3
         DEF Truthful, ArrayIsTrue, DeadlineIsTrue, CodesTellTheTruth, Broadcast

\* A row of an ACK reserves a slot for an "all" call and moves the deadline.
LEMMA AckTruth ==
    ASSUME TypeOK, Truthful, NEW bundle, ReadAck(bundle)
    PROVE  Truthful'
<1>0. /\ SidBroadcast \notin Servers \cup {SidAny}
      /\ time \in Nat /\ waited \in Nat /\ ShortWait \in Nat /\ LongWait \in Nat /\ ShortWait < LongWait
      /\ PassTime \in Nat
    BY ResultsAssumption, RhizomeAssumption DEF TypeOK, ClientTypes
<1>1. /\ pc = "read" /\ pc' = pc /\ acked' # {}
      /\ UNCHANGED <<server_sid, code, received, time, waited>>
      /\ wait_time' = Extended
      /\ ~Broadcast => rpc_result' = rpc_result
    BY RowRead DEF ReadAck, Read, ReservesSlot, Broadcast
<1>2. ArrayIsTrue'
    BY <1>1 DEF Truthful, ArrayIsTrue, Broadcast
<1>3. DeadlineIsTrue'
    <2>1. wait_time = IF acked = {} THEN ShortWait ELSE LongWait
        BY <1>1 DEF Truthful, DeadlineIsTrue
    <2>2. time <= PassTime + waited + wait_time
        BY <1>1 DEF Truthful, DeadlineIsTrue
    <2>3. wait_time' = LongWait /\ (wait_time = ShortWait \/ wait_time = LongWait)
        BY <1>1, <2>1 DEF Extended
    <2>4. time <= PassTime + waited + LongWait
        BY <1>0, <2>2, <2>3
    <2> QED  BY <1>1, <2>3, <2>4 DEF DeadlineIsTrue
<1>4. CodesTellTheTruth'
    BY <1>1 DEF Truthful, ArrayIsTrue, CodesTellTheTruth, NoCode
<1> QED  BY <1>2, <1>3, <1>4 DEF Truthful

\* An answer that is stored ends the call or takes its place.
LEMMA StoreTruth ==
    ASSUME TypeOK, Truthful, SlotsInOrder, NEW s \in Servers, NEW q, q # NoContent,
           StoreAnswer(s, q), pc \in {"read", "download"},
           UNCHANGED <<server_sid, code, time, waited, wait_time, acked>>
    PROVE  Truthful'
<1>0. rpc_result \in Results(Payload) /\ s # SidAny /\ received = 0
    BY ResultsAssumption DEF TypeOK, ClientTypes, Truthful, ArrayIsTrue
<1>1. ~Broadcast => /\ rpc_result'[0] = [server_sid |-> s, content |-> q]
                    /\ received' = 1 /\ pc' = "loop"
    BY AnswerStored
<1>2. Broadcast =>
         /\ \A i \in Slot : rpc_result'[i] =
               IF i = Place(s) THEN [rpc_result[i] EXCEPT !.content = q] ELSE rpc_result[i]
         /\ \/ received' = 1 /\ pc' = "loop" /\ Place(s) \in Slot
            \/ received' = received /\ pc' = "read"
    BY AnswerStored
<1>3. Broadcast => rpc_result'[0].server_sid = rpc_result[0].server_sid
    BY <1>0, <1>2, SlotZero DEF Results
<1>4. Broadcast /\ Place(s) \in Slot => rpc_result[0].server_sid # SidAny
    <2> SUFFICES ASSUME Place(s) \in Slot
                 PROVE  rpc_result[0].server_sid # SidAny
        OBVIOUS
    <2>1. rpc_result[Place(s)].server_sid # SidAny
        BY <1>0, SidIndex DEF Place
    <2> QED  BY <2>1, SlotZero DEF SlotsInOrder, TakenFirst
<1>5. ArrayIsTrue'
    BY <1>0, <1>1, <1>2, <1>3, <1>4 DEF Truthful, ArrayIsTrue, Broadcast
<1>6. DeadlineIsTrue' /\ CodesTellTheTruth'
    BY DEF Truthful, ArrayIsTrue, DeadlineIsTrue, CodesTellTheTruth, NoCode
<1> QED  BY <1>5, <1>6 DEF Truthful

\* Every step keeps the invariant.
LEMMA TruthStep ==
    ASSUME TypeOK, SlotsInOrder, Truthful, [Next]_vars
    PROVE  Truthful'
<1>1. ASSUME NEW sid \in Destinations, StartCall(sid)
      PROVE  Truthful'
    <2>1. /\ pc' = "loop" /\ received' = 0 /\ rpc_result' = ClearedResults
          /\ time' = 0 /\ waited' = 0 /\ wait_time' = ShortWait
          /\ code' = NoCode /\ acked' = {}
        BY <1>1 DEF StartCall
    <2>2. ShortWait \in Nat /\ PassTime \in Nat
        BY RhizomeAssumption
    <2>3. ClearedResults[0].server_sid = SidAny
        BY SlotZero DEF ClearedResults
    <2> QED  BY <2>1, <2>2, <2>3
             DEF Truthful, ArrayIsTrue, DeadlineIsTrue, CodesTellTheTruth, NoCode
<1>2. ASSUME NEW sid \in Destinations, RefuseCall(sid)
      PROVE  Truthful'
    <2>1. pc' = "idle" /\ code' = -1 /\ rpc_result' = ClearedResults
        BY <1>2 DEF RefuseCall
    <2> QED  BY <2>1 DEF Truthful, ArrayIsTrue, DeadlineIsTrue, CodesTellTheTruth
<1>3. CASE Finish \/ GiveUp \/ ListingFails \/ DecryptionFails
    BY <1>3, ReturnTruth
<1>4. CASE ListStore
    <2>1. /\ pc = "loop" /\ pc' = "read" /\ received = 0 /\ time <= wait_time
          /\ UNCHANGED <<server_sid, received, rpc_result, waited, wait_time, code, acked>>
        <3>1. time \in Nat /\ wait_time \in Nat
            BY RhizomeAssumption DEF TypeOK, ClientTypes
        <3> QED  BY <1>4, <3>1 DEF ListStore, Expired
    <2>2. PICK duration \in 1 .. PassTime : time' = time + duration
        BY <1>4 DEF ListStore, Elapsed
    <2>3. time' <= PassTime + waited + wait_time
        <3>1. time \in Nat /\ waited \in Nat /\ wait_time \in Nat /\ PassTime \in Nat
            BY RhizomeAssumption DEF TypeOK, ClientTypes
        <3> QED  BY <2>1, <2>2, <3>1
    <2> QED  BY <2>1, <2>3
             DEF Truthful, ArrayIsTrue, DeadlineIsTrue, CodesTellTheTruth, Broadcast
<1>5. ASSUME UNCHANGED <<server_sid, received, rpc_result, time, waited, wait_time, code,
                         acked>>,
             pc # "idle", pc' # "idle", pc' = "read" \/ pc' = "download" => pc = "read"
      PROVE  Truthful'
    BY <1>5 DEF Truthful, ArrayIsTrue, DeadlineIsTrue, CodesTellTheTruth, Broadcast
<1>6. CASE PassEnds
    BY <1>5, <1>6 DEF PassEnds
<1>7. ASSUME NEW bundle, SkipBundle(bundle) \/ SkipAnswer(bundle) \/ ReadHash(bundle)
      PROVE  Truthful'
    <2>1. pc = "read" /\ pc' \in {"read", "download"}
          /\ UNCHANGED <<server_sid, received, rpc_result, time, waited, wait_time, code,
                         acked>>
        BY <1>7 DEF SkipBundle, SkipAnswer, ReadHash, Read
    <2> QED  BY <1>5, <2>1
<1>8. ASSUME NEW bundle, ReadAck(bundle)
      PROVE  Truthful'
    BY <1>8, AckTruth
<1>9. ASSUME NEW bundle, ReadAnswer(bundle)
      PROVE  Truthful'
    <2>1. Read(bundle) /\ pc = "read" /\ bundle.server \in Servers /\ bundle.call \in Port
        BY <1>9, RowRead DEF ReadAnswer
    <2>2. <<bundle.server, bundle.call>> # NoContent
        BY <2>1, RhizomeAssumption DEF Port
    <2> QED  BY <1>9, <2>1, <2>2, StoreTruth DEF ReadAnswer, Read
<1>10. CASE Download
    <2>1. PICK q \in Payload : StoreAnswer(awaited, q)
        BY <1>10, FileOfServer
    <2>2. /\ pc = "download" /\ awaited \in Servers
          /\ UNCHANGED <<server_sid, code, time, waited, wait_time, acked>>
        BY <1>10 DEF Download, TypeOK, ClientTypes
    <2>3. q # NoContent
        BY <2>1, RhizomeAssumption DEF Payload, Port
    <2> QED  BY <2>1, <2>2, <2>3, StoreTruth
<1>11. ASSUME UNCHANGED clientVars
       PROVE  Truthful'
    BY <1>11 DEF clientVars, Truthful, ArrayIsTrue, DeadlineIsTrue, CodesTellTheTruth,
                 Broadcast
<1>12. CASE Replicate \/ UNCHANGED vars
    BY <1>11, <1>12 DEF Replicate, CallArrives, AnswerArrives, vars
<1>13. ASSUME NEW s \in Servers,
              Serve(s) \/ PassFails(s) \/ ServerCrashes(s) \/ ServerRestarts(s)
       PROVE  Truthful'
    BY <1>11, <1>13, ServeFrame
<1>14. CASE AwaitFile
    <2>1. /\ pc = "download" /\ time' = time + 1 /\ waited' = waited + 1
          /\ UNCHANGED <<pc, server_sid, received, rpc_result, wait_time, code, acked>>
          /\ time \in Nat /\ waited \in Nat /\ wait_time \in Nat /\ PassTime \in Nat
        BY <1>14, RhizomeAssumption DEF AwaitFile, TypeOK, ClientTypes
    <2>2. DeadlineIsTrue'
        BY <2>1 DEF Truthful, DeadlineIsTrue
    <2> QED  BY <2>1, <2>2 DEF Truthful, ArrayIsTrue, CodesTellTheTruth, Broadcast
<1> QED  BY <1>1, <1>2, <1>3, <1>4, <1>6, <1>7, <1>8, <1>9, <1>10, <1>12, <1>13, <1>14
         DEF Next, Client

\* The invariant of the codes and the deadline.
LEMMA TruthAlways == Spec => []Truthful
<1>1. Init => Truthful
    BY DEF Init, Truthful, ArrayIsTrue, DeadlineIsTrue, CodesTellTheTruth, NoCode
<1>2. TypeOK /\ SlotsInOrder /\ Truthful /\ [Next]_vars => Truthful'
    BY TruthStep
<1> QED  BY <1>1, <1>2, TypeCorrect, SlotsStayInOrder, PTL DEF Spec

\* A code tells the caller what the call has: 2 has a stored answer or, of a call to
\* all, an ACK; -1 has nothing unless the call went to all.
THEOREM CodesAreTrue == Spec => []CodesTellTheTruth
<1>1. Truthful => CodesTellTheTruth
    BY DEF Truthful
<1> QED  BY <1>1, TruthAlways, PTL

\* No ACK but the first gives a call more time, and, but for the time the call sleeps
\* until a file comes, no pass outlasts the deadline by more than its own length.
THEOREM WaitStaysBounded == Spec => []WaitIsBounded
<1>1. TypeOK /\ Truthful => WaitIsBounded
    BY DEF Truthful, DeadlineIsTrue, WaitIsBounded
<1> QED  BY <1>1, TypeCorrect, TruthAlways, PTL

-----------------------------------------------------------------------------
(* Where answers come from                                                  *)

\* The servers a call is for.
For(s) == {s, SidAny, SidBroadcast}

\* What is in an inbox has been posted for its owner, and what a server lists,
\* executes, has executed or answers comes from there.
Traced ==
    /\ \A p \in Port : p > port => posted[p] = NotPosted
    /\ \A s \in Servers :
          /\ \A p \in inbox[s] : posted[p] \in For(s)
          /\ todo[s] \subseteq inbox[s]
          /\ serving[s] \in inbox[s] \cup {0}
          /\ \A p \in Port : executed[s][p] > 0 => posted[p] \in For(s)
          /\ \A p \in Port : inserted[Response(s, p)] > 0 => executed[s][p] > 0
    /\ \A i \in DOMAIN store : store[i].kind = "response" =>
          executed[store[i].server][store[i].call] > 0

\* A free slot is empty, and only the answer of a file server is awaited as a file.
SlotsAreEmpty ==
    /\ \A i \in Slot : rpc_result[i].server_sid = SidAny => rpc_result[i].content = NoContent
    /\ pc = "download" => awaited \in FileServers

Real == SlotsAreEmpty /\ AnswersAreReal

\* What a step of a server may list, execute and answer.
LEMMA ServeEffect ==
    ASSUME TypeOK, NEW s \in Servers,
           Serve(s) \/ PassFails(s) \/ ServerCrashes(s) \/ ServerRestarts(s)
    PROVE  /\ \A t \in Servers : todo'[t] \subseteq todo[t] \cup inbox[t]
           /\ \A t \in Servers : serving'[t] \in {0, serving[t]} \cup todo[t]
           /\ \A t \in Servers, p \in Port :
                 \/ executed'[t][p] = executed[t][p]
                 \/ executed'[t][p] > 0 /\ p = serving[t]
           /\ \A t \in Servers, p \in Port : executed[t][p] > 0 => executed'[t][p] > 0
           /\ \A t \in Servers, p \in Port :
                 \/ inserted'[Response(t, p)] = inserted[Response(t, p)]
                 \/ executed'[t][p] > 0
<1>0. ServerTypes /\ 0 \notin Port /\ inbox[s] \subseteq Port
    BY DEF TypeOK, StoreTypes, Port
<1>1. \A t \in Servers, p \in Port : Response(t, p) \in AnswerBundle
    BY DEF Response, AnswerBundle
<1>2. ASSUME NEW bundles, Insert(bundles), NEW t \in Servers, NEW p \in Port,
             Response(t, p) \notin bundles
      PROVE  inserted'[Response(t, p)] = inserted[Response(t, p)]
    BY <1>0, <1>1, <1>2 DEF Insert, ServerTypes
<1>3. CASE StartPass(s)
    BY <1>0, <1>3 DEF ServerTypes, StartPass, historyVars
<1>4. ASSUME NEW p \in Port, AcceptCall(s, p)
      PROVE  /\ todo' = [todo EXCEPT ![s] = @ \ {p}] /\ p \in todo[s]
             /\ serving' = [serving EXCEPT ![s] = p]
             /\ executed' = executed
             /\ \A t \in Servers, q \in Port :
                   inserted'[Response(t, q)] = inserted[Response(t, q)]
    <2>1. \A t \in Servers, q \in Port : Response(t, q) \notin {Ack(s, p)}
        BY DEF Response, Ack
    <2> QED  BY <1>2, <1>4, <2>1 DEF AcceptCall, Reach, historyVars
<1>5. ASSUME NEW p \in Port, IgnoreCall(s, p)
      PROVE  /\ todo' = [todo EXCEPT ![s] = @ \ {p}]
             /\ UNCHANGED <<serving, executed, inserted>>
    BY <1>5 DEF IgnoreCall, Reach, historyVars
<1>6. CASE ExecutionFails(s)
    <2>1. \A t \in Servers, q \in Port : Response(t, q) \notin AnswerFile(s)
        BY DEF Response, AnswerFile, File
    <2>2. /\ serving' = [serving EXCEPT ![s] = 0]
          /\ UNCHANGED <<todo, executed>>
          /\ \A t \in Servers, q \in Port :
                   inserted'[Response(t, q)] = inserted[Response(t, q)]
        BY <1>2, <1>6, <2>1 DEF ExecutionFails
    <2> QED  BY <1>0, <2>2 DEF ServerTypes
<1>7. CASE ExecutionSucceeds(s)
    <2>1. \A t \in Servers, q \in Port :
              Response(t, q) \in AnswerFile(s) \cup {Response(s, serving[s])} =>
                  t = s /\ q = serving[s]
        BY DEF Response, AnswerFile, File
    <2>2. /\ serving' = [serving EXCEPT ![s] = 0] /\ todo' = todo
          /\ executed' = [executed EXCEPT ![s][serving[s]] = @ + 1]
          /\ serving[s] \in Port
          /\ \A t \in Servers, q \in Port :
                 \/ inserted'[Response(t, q)] = inserted[Response(t, q)]
                 \/ t = s /\ q = serving[s]
        BY <1>0, <1>2, <1>7, <2>1 DEF ExecutionSucceeds, ServerTypes
    <2>3. \A t \in Servers, p \in Port :
              executed'[t][p] = IF t = s /\ p = serving[s] THEN executed[t][p] + 1
                                                           ELSE executed[t][p]
        BY <1>0, <2>2 DEF ServerTypes
    <2>4. \A t \in Servers, p \in Port : executed[t][p] \in Nat
        BY <1>0 DEF ServerTypes
    <2>5. executed'[s][serving[s]] > 0
        BY <2>2, <2>3, <2>4
    <2>6. \A t \in Servers, p \in Port :
             executed'[t][p] = executed[t][p] \/ (t = s /\ p = serving[s])
        BY <2>3
    <2>7. \A t \in Servers : serving'[t] \in {0, serving[t]}
        BY <1>0, <2>2 DEF ServerTypes
    <2> HIDE <1>7
    <2> QED  BY <2>2, <2>5, <2>6, <2>7
<1>8. CASE PassRefuses(s) \/ PassFails(s) \/ ServerCrashes(s)
    BY <1>0, <1>8 DEF ServerTypes, PassRefuses, PassFails, ServerCrashes, Stop, historyVars
<1>9. CASE ServerRestarts(s)
    BY <1>0, <1>9 DEF ServerTypes, ServerRestarts
<1>10. ASSUME NEW p \in Port, AcceptCall(s, p) \/ IgnoreCall(s, p)
       PROVE  /\ \A t \in Servers : todo'[t] \subseteq todo[t]
              /\ \A t \in Servers : serving'[t] \in {serving[t]} \cup todo[t]
              /\ executed' = executed
              /\ \A t \in Servers, q \in Port :
                   inserted'[Response(t, q)] = inserted[Response(t, q)]
    BY <1>0, <1>4, <1>5, <1>10 DEF ServerTypes
<1> QED  BY <1>3, <1>6, <1>7, <1>8, <1>9, <1>10 DEF Serve

\* A bundle that reaches the client has been made.
LEMMA ArrivesInserted ==
    ASSUME TypeOK, NEW b \in AnswerBundle, AnswerArrives(b)
    PROVE  inserted[b] > 0
<1> DEFINE copies == {i \in DOMAIN store : store[i] = b}
<1>1. Len(store) \in Nat /\ copies \in SUBSET (1 .. Len(store)) /\ inserted[b] \in Nat
    BY DEF TypeOK, StoreTypes, ServerTypes
<1>2. Cardinality(copies) < inserted[b]
    BY DEF AnswerArrives
<1> HIDE DEF copies
<1>3. Cardinality(copies) \in Nat
    <2>1. IsFiniteSet(1 .. Len(store))
        BY <1>1, FS_Interval
    <2>2. IsFiniteSet(copies)
        BY <1>1, <2>1, FS_Subset
    <2> QED  BY <2>2, FS_CardinalityType
<1> QED  BY <1>1, <1>2, <1>3

\* Inside a call the client neither makes calls nor changes a store.
LEMMA ClientPort ==
    ASSUME Client
    PROVE  port' = port
BY DEF Client, Finish, GiveUp, Return, ListStore, ListingFails, PassEnds, DecryptionFails,
       SkipBundle, ReadAck, SkipAnswer, ReadAnswer, ReadHash, Read, AwaitFile,
       Download

\* A call that begins has reached nobody.
LEMMA TracedStart ==
    ASSUME TypeOK, Traced, NEW sid \in Destinations, StartCall(sid) \/ RefuseCall(sid)
    PROVE  Traced'
<1>0. /\ port' = port + 1 /\ port \in Int /\ port + 1 \in Port
      /\ UNCHANGED <<inbox, todo, serving, executed, inserted>>
      /\ posted \in [Port -> Servers \cup {SidAny, SidBroadcast, NotPosted}]
      /\ Port \subseteq Int
    BY RhizomeAssumption
    DEF StartCall, RefuseCall, storeVars, serverVars, passVars, historyVars, TypeOK,
        ClientTypes, StoreTypes, Port
<1>1. \A s \in Servers : NotPosted \notin For(s)
    BY RhizomeAssumption DEF For, NotPosted
<1>2. posted[port + 1] = NotPosted
    BY <1>0 DEF Traced
<1>3. \A p \in Port : posted'[p] = posted[p] \/ p = port + 1
    BY <1>0 DEF StartCall, RefuseCall, storeVars
<1>4. \A p \in Port : p > port' => posted'[p] = NotPosted
    BY <1>0, <1>3 DEF Traced
<1>5. \A s \in Servers, p \in Port : posted[p] \in For(s) => posted'[p] \in For(s)
    BY <1>1, <1>2, <1>3
<1>6. \A s \in Servers : inbox[s] \subseteq Port
    BY DEF TypeOK, StoreTypes
<1>7. \A i \in DOMAIN store' : store'[i].kind = "response" =>
          i \in DOMAIN store /\ store'[i] = store[i]
    <2>1. CASE RefuseCall(sid)
        BY <2>1 DEF RefuseCall, storeVars
    <2>2. CASE StartCall(sid)
        <3>1. CallBundle(port + 1).kind # "response"
            BY DEF CallBundle
        <3>2. store' = Append(store, CallBundle(port + 1))
            BY <2>2 DEF StartCall
        <3> QED  BY <3>1, <3>2 DEF TypeOK, StoreTypes
    <2> QED  BY <2>1, <2>2
<1> QED  BY <1>0, <1>4, <1>5, <1>6, <1>7 DEF Traced

\* A server's step leaves a trace of what it answers.
LEMMA TracedServe ==
    ASSUME TypeOK, Traced, NEW s \in Servers,
           Serve(s) \/ PassFails(s) \/ ServerCrashes(s) \/ ServerRestarts(s)
    PROVE  Traced'
<1>0. UNCHANGED <<port, store, posted, inbox>> /\ 0 \notin Port
    BY ServeFrame DEF clientVars, storeVars, Port
<1>1. \A t \in Servers : /\ todo'[t] \subseteq inbox[t]
                         /\ serving'[t] \in inbox[t] \cup {0}
    BY ServeEffect DEF Traced
<1>2. \A t \in Servers, p \in Port : executed'[t][p] > 0 => posted[p] \in For(t)
    <2> SUFFICES ASSUME NEW t \in Servers, NEW p \in Port, executed'[t][p] > 0
                 PROVE  posted[p] \in For(t)
        OBVIOUS
    <2>1. executed'[t][p] = executed[t][p] \/ p = serving[t]
        BY ServeEffect
    <2>2. serving[t] # 0 => serving[t] \in inbox[t]
        BY DEF Traced
    <2> QED  BY <1>0, <2>1, <2>2 DEF Traced
<1>3. \A t \in Servers, p \in Port : inserted'[Response(t, p)] > 0 => executed'[t][p] > 0
    <2> SUFFICES ASSUME NEW t \in Servers, NEW p \in Port, inserted'[Response(t, p)] > 0
                 PROVE  executed'[t][p] > 0
        OBVIOUS
    <2>1. inserted'[Response(t, p)] = inserted[Response(t, p)] \/ executed'[t][p] > 0
        BY ServeEffect
    <2>2. executed[t][p] > 0 => executed'[t][p] > 0
        BY ServeEffect
    <2> QED  BY <2>1, <2>2 DEF Traced
<1>4. \A i \in DOMAIN store : store[i].kind = "response" =>
          executed'[store[i].server][store[i].call] > 0
    <2> SUFFICES ASSUME NEW i \in DOMAIN store, store[i].kind = "response"
                 PROVE  executed'[store[i].server][store[i].call] > 0
        OBVIOUS
    <2>1. store[i].server \in Servers /\ store[i].call \in Port
        BY AnswerInStore DEF TypeOK, Payload
    <2>2. executed[store[i].server][store[i].call] > 0
        BY DEF Traced
    <2> QED  BY <2>1, <2>2, ServeEffect
<1> QED  BY <1>0, <1>1, <1>2, <1>3, <1>4 DEF Traced

\* Every step keeps the traces.
LEMMA TracedStep ==
    ASSUME TypeOK, Traced, [Next]_vars
    PROVE  Traced'
<1>1. ASSUME UNCHANGED <<port, storeVars, serverVars>>
      PROVE  Traced'
    BY <1>1 DEF Traced, storeVars, serverVars, passVars, historyVars
<1>2. CASE Client
    BY <1>1, <1>2, ClientFrame, ClientPort
<1>3. CASE UNCHANGED vars
    BY <1>1, <1>3 DEF vars, clientVars
<1>4. ASSUME NEW s \in Servers, NEW p \in Port, CallArrives(s, p)
      PROVE  Traced'
    <2>1. /\ posted[p] \in For(s) /\ inbox' = [inbox EXCEPT ![s] = @ \cup {p}]
          /\ UNCHANGED <<port, store, posted, todo, serving, executed, inserted>>
        BY <1>4 DEF CallArrives, For, clientVars, serverVars, passVars, historyVars
    <2>2. \A t \in Servers : inbox'[t] = IF t = s THEN inbox[t] \cup {p} ELSE inbox[t]
        BY <2>1 DEF TypeOK, StoreTypes
    <2> QED  BY <2>1, <2>2 DEF Traced
<1>5. ASSUME NEW b \in AnswerBundle, AnswerArrives(b)
      PROVE  Traced'
    <2>1. /\ store' = Append(store, b)
          /\ UNCHANGED <<port, posted, inbox, todo, serving, executed, inserted>>
        BY <1>5 DEF AnswerArrives, clientVars, serverVars, passVars, historyVars
    <2>2. b.kind = "response" => executed[b.server][b.call] > 0
        <3>1. inserted[b] > 0
            BY <1>5, ArrivesInserted
        <3>2. b.kind = "response" => b = Response(b.server, b.call)
            BY DEF AnswerBundle, Response
        <3> QED  BY <3>1, <3>2 DEF Traced, AnswerBundle
    <2>3. \A i \in DOMAIN store' : (i \in DOMAIN store /\ store'[i] = store[i]) \/ store'[i] = b
        BY <2>1 DEF TypeOK, StoreTypes
    <2> QED  BY <2>1, <2>2, <2>3 DEF Traced
<1> QED  BY <1>2, <1>3, <1>4, <1>5, TracedStart, TracedServe DEF Next, Replicate

\* What the client does to its array keeps its answers real.
LEMMA RealClient ==
    ASSUME TypeOK, SlotsInOrder, Truthful, Traced, Real, Client
    PROVE  Real'
<1>0. /\ rpc_result \in Results(Payload) /\ StoreTypes
      /\ UNCHANGED <<posted, executed>>
    BY ClientFrame DEF TypeOK, ClientTypes, storeVars, serverVars, historyVars
<1>1. ASSUME NEW s \in Servers, NEW q, StoreAnswer(s, q),
             s \notin FileServers => /\ q[1] = s /\ executed[s][q[2]] > 0
                                     /\ posted[q[2]] \in For(s)
      PROVE  Real'
    <2>1. pc' \in {"loop", "read"}
        BY <1>1 DEF StoreAnswer
    <2>2. \A i \in Slot :
             \/ rpc_result'[i] = rpc_result[i]
             \/ rpc_result'[i] = [server_sid |-> s, content |-> q]
        <3>1. CASE Broadcast
            <4>1. \A i \in Slot : i = Place(s) => rpc_result[i].server_sid = s
                BY <1>0, SidIndex DEF Place
            <4>2. \A i \in Slot : rpc_result'[i] =
                      IF i = Place(s) THEN [rpc_result[i] EXCEPT !.content = q]
                                      ELSE rpc_result[i]
                BY <1>1, <3>1, AnswerStored
            <4>3. \A i \in Slot : rpc_result[i].server_sid = s =>
                      [rpc_result[i] EXCEPT !.content = q] = [server_sid |-> s, content |-> q]
                BY <1>0 DEF Results
            <4> QED  BY <4>1, <4>2, <4>3
        <3>2. CASE ~Broadcast
            BY <1>0, <1>1, <3>2 DEF StoreAnswer, StoreSingle, Results
        <3> QED  BY <3>1, <3>2
    <2>3. s # SidAny
        BY ResultsAssumption
    <2> QED  BY <1>0, <1>1, <2>1, <2>2, <2>3 DEF Real, SlotsAreEmpty, AnswersAreReal, For
<1>2. ASSUME UNCHANGED rpc_result, pc' = "download" => awaited' \in FileServers
      PROVE  Real'
    BY <1>0, <1>2 DEF Real, SlotsAreEmpty, AnswersAreReal
<1>3. CASE Finish \/ GiveUp \/ ListStore \/ ListingFails \/ PassEnds \/ DecryptionFails
    BY <1>2, <1>3
    DEF Finish, GiveUp, Return, ListStore, ListingFails, PassEnds, DecryptionFails
<1>4. ASSUME NEW bundle, SkipBundle(bundle) \/ SkipAnswer(bundle) \/ ReadHash(bundle)
      PROVE  Real'
    BY <1>2, <1>4 DEF SkipBundle, SkipAnswer, ReadHash, Read
<1>5. ASSUME NEW bundle, ReadAck(bundle)
      PROVE  Real'
    <2>1. bundle.server \in Servers /\ pc' = "read"
        BY <1>5, RowRead DEF ReadAck
    <2> DEFINE k == rpc_client_result_get_insert_index(rpc_result)
    <2>2. k \in Slot => rpc_result[k].server_sid = SidAny
        BY <1>0, InsertIndex
    <2>3. \A i \in Slot :
             \/ rpc_result'[i] = rpc_result[i]
             \/ /\ rpc_result[i].server_sid = SidAny
                /\ rpc_result'[i].content = rpc_result[i].content
                /\ rpc_result'[i].server_sid = bundle.server
        BY <1>0, <1>5, <2>2 DEF ReadAck, Reserve, Results
    <2>4. bundle.server # SidAny
        BY <2>1, ResultsAssumption
    <2> QED  BY <1>0, <2>1, <2>3, <2>4 DEF Real, SlotsAreEmpty, AnswersAreReal
<1>6. ASSUME NEW bundle, ReadAnswer(bundle)
      PROVE  Real'
    <2>1. /\ bundle.server \in Servers /\ bundle.call \in Port
          /\ token + 1 \in DOMAIN store /\ bundle = store[token + 1]
        BY <1>6, RowRead DEF ReadAnswer
    <2>2. executed[bundle.server][bundle.call] > 0
        BY <1>6, <2>1 DEF Traced, ReadAnswer
    <2>3. posted[bundle.call] \in For(bundle.server)
        BY <2>1, <2>2 DEF Traced
    <2> QED  BY <1>1, <1>6, <2>1, <2>2, <2>3 DEF ReadAnswer
<1>7. CASE Download
    <2>1. PICK q \in Payload : StoreAnswer(awaited, q)
        BY <1>7, FileOfServer
    <2>2. awaited \in Servers /\ awaited \in FileServers
        BY <1>7 DEF Download, Real, SlotsAreEmpty, TypeOK, ClientTypes
    <2> QED  BY <1>1, <2>1, <2>2
<1>8. CASE AwaitFile
    BY <1>0, <1>8 DEF AwaitFile, Real, SlotsAreEmpty, AnswersAreReal
<1> QED  BY <1>3, <1>4, <1>5, <1>6, <1>7, <1>8 DEF Client

\* So does every other step.
LEMMA RealStep ==
    ASSUME TypeOK, SlotsInOrder, Truthful, Traced, Real, [Next]_vars
    PROVE  Real'
<1>0. \A i \in Slot : /\ rpc_result[i].server_sid \in Servers \cup {SidAny}
                      /\ rpc_result[i].content # NoContent =>
                            rpc_result[i].content \in Payload
    BY DEF TypeOK, ClientTypes, Results
<1>1. ASSUME UNCHANGED <<clientVars, posted>>,
             \A s \in Servers, p \in Port : executed[s][p] > 0 => executed'[s][p] > 0
      PROVE  Real'
    <2>1. UNCHANGED <<rpc_result, pc, awaited>>
        BY <1>1 DEF clientVars
    <2>2. SlotsAreEmpty'
        BY <2>1 DEF Real, SlotsAreEmpty
    <2>3. AnswersAreReal'
        <3> SUFFICES ASSUME NEW i \in Slot, rpc_result[i].content # NoContent,
                            rpc_result[i].server_sid \notin FileServers
                     PROVE  executed'[rpc_result[i].server_sid][rpc_result[i].content[2]] > 0
            BY <1>1, <2>1 DEF Real, AnswersAreReal
        <3>1. /\ rpc_result[i].server_sid \in Servers
              /\ rpc_result[i].content[2] \in Port
              /\ executed[rpc_result[i].server_sid][rpc_result[i].content[2]] > 0
            BY <1>0 DEF Real, SlotsAreEmpty, AnswersAreReal, Payload
        <3> QED  BY <1>1, <3>1
    <2> QED  BY <2>2, <2>3 DEF Real
<1>2. ASSUME NEW sid \in Destinations, StartCall(sid) \/ RefuseCall(sid)
      PROVE  Real'
    <2>1. rpc_result' = ClearedResults /\ pc' # "download"
        BY <1>2 DEF StartCall, RefuseCall
    <2> QED  BY <2>1 DEF Real, SlotsAreEmpty, AnswersAreReal, ClearedResults
<1>3. ASSUME NEW s \in Servers,
             Serve(s) \/ PassFails(s) \/ ServerCrashes(s) \/ ServerRestarts(s)
      PROVE  Real'
    BY <1>1, <1>3, ServeFrame, ServeEffect DEF storeVars
<1>4. CASE Replicate \/ UNCHANGED vars
    BY <1>1, <1>4
    DEF Replicate, CallArrives, AnswerArrives, vars, storeVars, serverVars, historyVars
<1> QED  BY <1>2, <1>3, <1>4, RealClient DEF Next

\* The invariants of the array and of what stands behind it.
LEMMA TracedAlways == Spec => []Traced
<1>1. Init => Traced
    BY DEF Init, Traced, Port, Response, AnswerBundle
<1>2. TypeOK /\ Traced /\ [Next]_vars => Traced'
    BY TracedStep
<1> QED  BY <1>1, <1>2, TypeCorrect, PTL DEF Spec

\* So do the others.
LEMMA RealAlways == Spec => []Real
<1>1. Init => Real
    BY DEF Init, Real, SlotsAreEmpty, AnswersAreReal, ClearedResults
<1>2. TypeOK /\ SlotsInOrder /\ Truthful /\ Traced /\ Real /\ [Next]_vars => Real'
    BY RealStep
<1> QED  BY <1>1, <1>2, TypeCorrect, SlotsStayInOrder, TruthAlways, TracedAlways,
            PTL DEF Spec

\* Whatever the stores replicate and in what order, an answer in the array stands beside
\* the server that has computed it, for a call that was made to that server.
THEOREM AnswersStayReal == Spec => []AnswersAreReal
<1>1. Real => AnswersAreReal
    BY DEF Real
<1> QED  BY <1>1, RealAlways, PTL

-----------------------------------------------------------------------------
(* No answer is overlooked                                                  *)

\* The ACK of s stands among the first j rows, and the call has read it.
Heard(s, j) == \E i \in 1 .. j : HasRead(i) /\ store[i].kind = "ack" /\ store[i].server = s

\* Nothing that could be kept of the answer in row j is lost.
Kept(j) ==
    LET s == store[j].server IN
    /\ Broadcast
    /\ Heard(s, j) /\ Place(s) # -1 => rpc_result[Place(s)].content # NoContent

\* A server whose ACK an "all" call has read has a slot, unless there was none left.
HeardHavePlace ==
    pc # "idle" /\ Broadcast =>
        \A j \in DOMAIN store : HasRead(j) /\ store[j].kind = "ack" =>
            \/ Place(store[j].server) # -1
            \/ \A i \in Slot : rpc_result[i].server_sid # SidAny

\* Every answer the call has read is kept, but the one whose file it waits for.
AnswersAreKept ==
    pc # "idle" /\ received = 0 =>
        \A j \in DOMAIN store : HasRead(j) /\ store[j].kind = "response" =>
            Kept(j) \/ (pc = "download" /\ j = token /\ store[j].server = awaited)

Listening == HeardHavePlace /\ AnswersAreKept

\* What is known when a step is taken.
Known == TypeOK /\ SlotsInOrder /\ Truthful /\ Listening

\* The rows that have been read stand in the listing.
LEMMA RowsRead ==
    ASSUME TypeOK
    PROVE  /\ first \in Nat /\ token \in Nat /\ first <= token /\ token <= Len(store)
           /\ Len(store) \in Nat /\ DOMAIN store = 1 .. Len(store)
           /\ \A j \in Int : HasRead(j) => j \in DOMAIN store /\ j <= token
BY DEF TypeOK, ClientTypes, StoreTypes, HasRead

\* Steps that read nothing and leave the array alone, while bundles may arrive.
LEMMA QuietRows ==
    ASSUME Known, TypeOK', UNCHANGED <<server_sid, received, rpc_result, first, token, awaited>>,
           pc # "idle" \/ pc' = "idle", pc = "download" => pc' \in {"idle", "download"},
           \A i \in DOMAIN store : store'[i] = store[i]
    PROVE  Listening'
<1> SUFFICES ASSUME pc # "idle", pc' # "idle"
             PROVE  Listening'
    BY DEF Listening, HeardHavePlace, AnswersAreKept
<1>0. /\ first \in Nat /\ token \in Nat
      /\ DOMAIN store = 1 .. Len(store) /\ Len(store) \in Nat
      /\ DOMAIN store' \subseteq Int
      /\ \A j \in Int : HasRead(j) => j \in DOMAIN store /\ j <= token
      /\ \A j \in Int : HasRead(j)' <=> HasRead(j)
    BY RowsRead DEF Known, TypeOK, StoreTypes, HasRead
<1>1. \A r : Place(r)' = Place(r)
    BY DEF Place
<1>2. \A j \in Int : \A r : HasRead(j) => (Heard(r, j)' <=> Heard(r, j))
    <2> SUFFICES ASSUME NEW j \in Int, NEW r, HasRead(j)
                 PROVE  Heard(r, j)' <=> Heard(r, j)
        OBVIOUS
    <2>1. \A i \in 1 .. j : i \in DOMAIN store /\ (HasRead(i)' <=> HasRead(i))
        BY <1>0
    <2> QED  BY <2>1 DEF Heard
<1>3. \A j \in Int : HasRead(j) /\ Kept(j) => Kept(j)'
    BY <1>0, <1>1, <1>2 DEF Kept, Broadcast
<1>4. HeardHavePlace'
    BY <1>0, <1>1 DEF Known, Listening, HeardHavePlace, Broadcast
<1>5. AnswersAreKept'
    BY <1>0, <1>3 DEF Known, Listening, AnswersAreKept
<1> QED  BY <1>4, <1>5 DEF Listening

\* The row that is read next comes behind those that have been read.
LEMMA NextRow ==
    ASSUME TypeOK, NEW bundle, Read(bundle)
    PROVE  /\ token + 1 \in DOMAIN store /\ bundle = store[token + 1] /\ pc = "read"
           /\ UNCHANGED <<server_sid, store, first>> /\ token' = token + 1
           /\ \A j \in Int : HasRead(j)' <=> HasRead(j) \/ j = token + 1
           /\ \A j \in Int : \A r : j <= token => (Heard(r, j)' <=> Heard(r, j))
           /\ \A j \in Int : HasRead(j) => j <= token /\ j \in DOMAIN store
           /\ DOMAIN store \subseteq Int
           /\ token \in Int
<1>1. /\ token + 1 \in DOMAIN store /\ bundle = store[token + 1] /\ pc = "read"
      /\ UNCHANGED <<server_sid, store, first>> /\ token' = token + 1
    BY RowRead DEF Read, storeVars
<1>2. /\ first \in Nat /\ token \in Nat /\ first <= token
      /\ DOMAIN store = 1 .. Len(store) /\ Len(store) \in Nat
      /\ \A j \in Int : HasRead(j) => j \in DOMAIN store /\ j <= token
    BY RowsRead
<1>3. \A j \in Int : HasRead(j)' <=> HasRead(j) \/ j = token + 1
    BY <1>1, <1>2 DEF HasRead
<1>4. ASSUME NEW j \in Int, NEW r, j <= token
      PROVE  Heard(r, j)' <=> Heard(r, j)
    <2>1. \A i \in 1 .. j : HasRead(i)' <=> HasRead(i)
        BY <1>2, <1>3, <1>4
    <2> QED  BY <1>1, <2>1 DEF Heard
<1> QED  BY <1>1, <1>2, <1>3, <1>4

\* An answer to an "all" call that is stored takes nothing from the others.
LEMMA StoreKeeps ==
    ASSUME TypeOK, NEW s \in Servers, NEW q, q # NoContent, StoreAnswer(s, q), Broadcast
    PROVE  /\ \A r : Place(r)' = Place(r)
           /\ \A i \in Slot : rpc_result[i].content # NoContent =>
                                  rpc_result'[i].content # NoContent
           /\ Place(s) # -1 => rpc_result'[Place(s)].content # NoContent
           /\ \A i \in Slot : rpc_result'[i].server_sid = rpc_result[i].server_sid
<1>0. rpc_result \in Results(Payload)
    BY DEF TypeOK, ClientTypes
<1>1. \A i \in Slot : rpc_result'[i] =
          IF i = Place(s) THEN [rpc_result[i] EXCEPT !.content = q] ELSE rpc_result[i]
    BY AnswerStored
<1>2. \A i \in Slot : /\ rpc_result'[i].server_sid = rpc_result[i].server_sid
                      /\ rpc_result'[i].content = IF i = Place(s) THEN q
                                                                  ELSE rpc_result[i].content
    BY <1>0, <1>1 DEF Results
<1>3. \A r : Place(r)' = Place(r)
    BY <1>2, SidIndexKept DEF Place
<1>4. Place(s) \in Slot \cup {-1}
    BY <1>0, SidIndex DEF Place
<1> QED  BY <1>2, <1>3, <1>4

\* An answer that is read is kept, as are those read before.
LEMMA AnswerKept ==
    ASSUME Known, NEW bundle, ReadAnswer(bundle)
    PROVE  Listening'
<1>1. /\ Read(bundle) /\ bundle.kind = "response" /\ bundle.server \in Servers
      /\ bundle.call \in Port
      /\ StoreAnswer(bundle.server, <<bundle.server, bundle.call>>)
    BY RowRead DEF ReadAnswer, Known
<1>2. <<bundle.server, bundle.call>> # NoContent
    BY <1>1, RhizomeAssumption DEF Port
<1>3. /\ token + 1 \in DOMAIN store /\ bundle = store[token + 1] /\ pc = "read"
      /\ UNCHANGED <<server_sid, store, first>> /\ token' = token + 1
      /\ \A j \in Int : HasRead(j)' <=> HasRead(j) \/ j = token + 1
      /\ \A j \in Int : \A r : j <= token => (Heard(r, j)' <=> Heard(r, j))
      /\ \A j \in Int : HasRead(j) => j <= token /\ j \in DOMAIN store
      /\ DOMAIN store \subseteq Int
    BY <1>1, NextRow DEF Known
<1>4. CASE ~Broadcast
    <2>1. received' = 1
        BY <1>1, <1>4, AnswerStored DEF Known
    <2> QED  BY <1>3, <1>4, <2>1 DEF Listening, HeardHavePlace, AnswersAreKept, Broadcast
<1>5. CASE Broadcast
    <2>1. /\ \A r : Place(r)' = Place(r)
          /\ \A i \in Slot : rpc_result[i].content # NoContent =>
                                 rpc_result'[i].content # NoContent
          /\ Place(bundle.server) # -1 => rpc_result'[Place(bundle.server)].content # NoContent
          /\ \A i \in Slot : rpc_result'[i].server_sid = rpc_result[i].server_sid
        BY <1>1, <1>2, <1>5, StoreKeeps DEF Known
    <2>2. \A r : Place(r) \in Slot \cup {-1}
        BY SidIndex DEF Known, TypeOK, ClientTypes, Place
    <2>3. \A j \in Int : HasRead(j) /\ Kept(j) => Kept(j)'
        BY <1>3, <2>1, <2>2 DEF Kept, Broadcast
    <2>4. Kept(token)'
        BY <1>3, <1>5, <2>1 DEF Kept, Broadcast
    <2>5. HeardHavePlace'
        BY <1>1, <1>3, <1>5, <2>1 DEF Known, Listening, HeardHavePlace, Broadcast
    <2>6. AnswersAreKept'
        <3> SUFFICES ASSUME received' = 0, NEW j \in DOMAIN store, HasRead(j)',
                            store[j].kind = "response"
                     PROVE  Kept(j)'
            BY <1>3 DEF AnswersAreKept
        <3>1. received = 0
            BY <1>3 DEF Known, Truthful, ArrayIsTrue
        <3>2. HasRead(j) => Kept(j)
            BY <1>3, <3>1 DEF Known, Listening, AnswersAreKept
        <3> QED  BY <1>3, <2>3, <2>4, <3>2
    <2> QED  BY <2>5, <2>6 DEF Listening
<1> QED  BY <1>4, <1>5

\* A file that has come takes the place of the answer it was awaited for.
LEMMA FileKept ==
    ASSUME Known, Download
    PROVE  Listening'
<1>1. PICK q \in Payload : StoreAnswer(awaited, q)
    BY FileOfServer DEF Known
<1>2. /\ pc = "download" /\ awaited \in Servers /\ q # NoContent
      /\ UNCHANGED <<server_sid, store, first, token>>
    BY RhizomeAssumption DEF Download, Known, TypeOK, ClientTypes, Payload, Port, storeVars
<1>3. /\ DOMAIN store \subseteq Int
      /\ \A j \in Int : /\ HasRead(j)' <=> HasRead(j)
                        /\ \A r : Heard(r, j)' <=> Heard(r, j)
    BY <1>2 DEF Known, TypeOK, StoreTypes, HasRead, Heard
<1>4. CASE ~Broadcast
    <2>1. received' = 1
        BY <1>1, <1>2, <1>4, AnswerStored DEF Known
    <2> QED  BY <1>2, <1>4, <2>1 DEF Listening, HeardHavePlace, AnswersAreKept, Broadcast
<1>5. CASE Broadcast
    <2>1. /\ \A r : Place(r)' = Place(r)
          /\ \A i \in Slot : rpc_result[i].content # NoContent =>
                                 rpc_result'[i].content # NoContent
          /\ Place(awaited) # -1 => rpc_result'[Place(awaited)].content # NoContent
          /\ \A i \in Slot : rpc_result'[i].server_sid = rpc_result[i].server_sid
        BY <1>1, <1>2, <1>5, StoreKeeps DEF Known
    <2>2. \A r : Place(r) \in Slot \cup {-1}
        BY SidIndex DEF Known, TypeOK, ClientTypes, Place
    <2>3. \A j \in DOMAIN store : Kept(j) => Kept(j)'
        BY <1>2, <1>3, <2>1, <2>2 DEF Kept, Broadcast
    <2>4. \A j \in DOMAIN store : store[j].server = awaited => Kept(j)'
        BY <1>2, <1>5, <2>1 DEF Kept, Broadcast
    <2>5. HeardHavePlace'
        BY <1>2, <1>3, <1>5, <2>1 DEF Known, Listening, HeardHavePlace, Broadcast
    <2>6. AnswersAreKept'
        <3>1. received = 0
            BY <1>2 DEF Known, Truthful, ArrayIsTrue
        <3> QED  BY <1>2, <1>3, <2>3, <2>4, <3>1 DEF Known, Listening, AnswersAreKept
    <2> QED  BY <2>5, <2>6 DEF Listening
<1> QED  BY <1>4, <1>5

\* An ACK that is read gives its server a slot while there is one, and moves no other.
LEMMA AckKept ==
    ASSUME Known, NEW bundle, ReadAck(bundle)
    PROVE  Listening'
<1>1. /\ Read(bundle) /\ bundle.kind = "ack" /\ bundle.server \in Servers
      /\ UNCHANGED <<pc, received>>
      /\ rpc_result' = IF ReservesSlot(rpc_result, server_sid)
                       THEN Reserve(rpc_result, bundle.server) ELSE rpc_result
    BY RowRead DEF ReadAck, Known
<1>2. /\ token + 1 \in DOMAIN store /\ bundle = store[token + 1] /\ pc = "read"
      /\ UNCHANGED <<server_sid, store, first>> /\ token' = token + 1
      /\ \A j \in Int : HasRead(j)' <=> HasRead(j) \/ j = token + 1
      /\ \A j \in Int : \A r : j <= token => (Heard(r, j)' <=> Heard(r, j))
      /\ \A j \in Int : HasRead(j) => j <= token /\ j \in DOMAIN store
      /\ DOMAIN store \subseteq Int
    BY <1>1, NextRow DEF Known
<1>3. \A j \in DOMAIN store : HasRead(j)' /\ store[j].kind = "response" =>
          HasRead(j) /\ j <= token
    BY <1>1, <1>2
<1>4. CASE ~Broadcast
    <2>1. \A j \in DOMAIN store : ~ Kept(j)
        BY <1>4 DEF Kept
    <2> QED  BY <1>1, <1>2, <1>3, <1>4, <2>1
             DEF Known, Listening, HeardHavePlace, AnswersAreKept, Broadcast
<1>5. CASE Broadcast
    <2>0. rpc_result \in Results(Payload) /\ TakenFirst(rpc_result)
        BY DEF Known, TypeOK, ClientTypes, SlotsInOrder
    <2>1. rpc_result' = Reserve(rpc_result, bundle.server)
        <3>1. \A i \in Slot : rpc_result[i].server_sid # SidBroadcast
            BY <2>0, ResultsAssumption DEF Results
        <3>2. _rpc_client_result_get_sid_index(rpc_result, SidBroadcast) = -1
            BY <2>0, <3>1, SidIndex
        <3> QED  BY <1>1, <1>5, <3>2 DEF ReservesSlot, Broadcast
    <2>2. /\ \A r \in Servers : Place(r) # -1 => Place(r)' = Place(r)
          /\ \/ Place(bundle.server)' # -1
             \/ \A i \in Slot : rpc_result[i].server_sid # SidAny /\ rpc_result'[i] = rpc_result[i]
          /\ \A i \in Slot : /\ rpc_result'[i].content = rpc_result[i].content
                             /\ rpc_result[i].server_sid # SidAny =>
                                   rpc_result'[i] = rpc_result[i]
        BY <1>1, <2>0, <2>1, ReserveIndex DEF Place
    <2>3. \A r : Place(r) \in Slot \cup {-1}
        BY <2>0, SidIndex DEF Place
    <2>4. (\A i \in Slot : rpc_result[i].server_sid # SidAny) =>
             /\ \A i \in Slot : rpc_result'[i].server_sid # SidAny
             /\ \A r : Place(r)' = Place(r)
        <3> SUFFICES ASSUME \A i \in Slot : rpc_result[i].server_sid # SidAny
                     PROVE  /\ \A i \in Slot : rpc_result'[i].server_sid # SidAny
                            /\ \A r : Place(r)' = Place(r)
            OBVIOUS
        <3>1. \A i \in Slot : rpc_result'[i].server_sid = rpc_result[i].server_sid
            BY <2>2
        <3> QED  BY <3>1, SidIndexKept DEF Place
    <2>5. \A j \in DOMAIN store : HasRead(j) /\ store[j].kind = "ack" =>
              \/ Place(store[j].server) # -1
              \/ \A i \in Slot : rpc_result[i].server_sid # SidAny
        BY <1>2, <1>5 DEF Known, Listening, HeardHavePlace
    <2>6. HeardHavePlace'
        <3> SUFFICES ASSUME NEW j \in DOMAIN store, HasRead(j)', store[j].kind = "ack"
                     PROVE  \/ Place(store[j].server)' # -1
                            \/ \A i \in Slot : rpc_result'[i].server_sid # SidAny
            BY <1>2 DEF HeardHavePlace
        <3>1. CASE j = token + 1
            BY <1>2, <2>2, <2>4, <3>1
        <3>2. CASE j # token + 1
            <4>1. HasRead(j)
                BY <1>2, <3>2
            <4>2. PICK r \in Servers : r = store[j].server
                BY AnswerInStore DEF Known, TypeOK, Payload
            <4>3. Place(r) # -1 \/ \A i \in Slot : rpc_result[i].server_sid # SidAny
                BY <2>5, <4>1, <4>2
            <4>4. Place(r)' # -1 \/ \A i \in Slot : rpc_result'[i].server_sid # SidAny
                BY <2>2, <2>4, <4>3
            <4>5. r = store'[j].server
                BY <1>2, <4>2
            <4> QED  BY <4>4, <4>5 DEF Place
        <3> QED  BY <3>1, <3>2
    <2>7. ASSUME NEW j \in DOMAIN store, HasRead(j), store[j].kind = "response", Kept(j)
          PROVE  Kept(j)'
        <3>0. PICK r \in Servers : r = store[j].server
            BY <2>7, AnswerInStore DEF Known, TypeOK, Payload
        <3> SUFFICES ASSUME Heard(r, j)', Place(r)' # -1
                     PROVE  rpc_result'[Place(r)'].content # NoContent
            BY <1>2, <1>5, <3>0 DEF Kept, Broadcast
        <3>1. Heard(r, j)
            BY <1>2, <2>7
        <3>2. Place(r) # -1 \/ \A i \in Slot : rpc_result[i].server_sid # SidAny
            <4>1. PICK i \in 1 .. j : HasRead(i) /\ store[i].kind = "ack" /\ store[i].server = r
                BY <3>1 DEF Heard
            <4>2. i \in DOMAIN store
                BY <1>2, <4>1
            <4> QED  BY <2>5, <4>1, <4>2
        <3>3. Place(r)' = Place(r)
            BY <2>2, <2>4, <3>0, <3>2
        <3>4. rpc_result[Place(r)].content # NoContent
            BY <2>7, <3>0, <3>1, <3>3 DEF Kept
        <3> QED  BY <2>2, <2>3, <3>3, <3>4
    <2>8. AnswersAreKept'
        BY <1>1, <1>2, <1>3, <2>7 DEF Known, Listening, AnswersAreKept
    <2> QED  BY <2>6, <2>8 DEF Listening
<1> QED  BY <1>4, <1>5

\* A row that is skipped is no answer, or one of a server without a slot; one that names
\* a file is the one the client waits for.
LEMMA SkipKept ==
    ASSUME Known, NEW bundle, SkipBundle(bundle) \/ SkipAnswer(bundle) \/ ReadHash(bundle)
    PROVE  Listening'
<1>1. /\ Read(bundle) /\ UNCHANGED <<received, rpc_result>>
      /\ \/ bundle.kind \in {"call", "file"} /\ pc' = pc
         \/ bundle.kind = "response" /\ ~HasPlace(bundle.server) /\ pc' = pc
         \/ bundle.kind = "response" /\ pc' = "download" /\ awaited' = bundle.server
    BY DEF SkipBundle, SkipAnswer, ReadHash
<1>2. /\ token + 1 \in DOMAIN store /\ bundle = store[token + 1] /\ pc = "read"
      /\ UNCHANGED <<server_sid, store, first>> /\ token' = token + 1
      /\ \A j \in Int : HasRead(j)' <=> HasRead(j) \/ j = token + 1
      /\ \A j \in Int : \A r : j <= token => (Heard(r, j)' <=> Heard(r, j))
      /\ \A j \in Int : HasRead(j) => j <= token /\ j \in DOMAIN store
      /\ DOMAIN store \subseteq Int
    BY <1>1, NextRow DEF Known
<1>3. \A r : Place(r)' = Place(r)
    BY <1>1 DEF Place
<1>4. \A j \in DOMAIN store : HasRead(j) /\ Kept(j) => Kept(j)'
    BY <1>1, <1>2, <1>3 DEF Kept, Broadcast
<1>5. HeardHavePlace'
    BY <1>1, <1>2, <1>3 DEF Known, Listening, HeardHavePlace, Broadcast
<1>6. ~HasPlace(bundle.server) => Kept(token)'
    BY <1>2, <1>3 DEF Kept, HasPlace, Place, Broadcast
<1>7. AnswersAreKept'
    <2> SUFFICES ASSUME received = 0, NEW j \in DOMAIN store, HasRead(j)',
                        store[j].kind = "response"
                 PROVE  Kept(j)' \/ (pc' = "download" /\ j = token' /\ store[j].server = awaited')
        BY <1>1, <1>2 DEF AnswersAreKept
    <2>1. CASE j = token + 1
        BY <1>1, <1>2, <1>6, <2>1
    <2>2. CASE j # token + 1
        <3>1. HasRead(j)
            BY <1>2, <2>2
        <3>2. Kept(j)
            BY <1>2, <3>1 DEF Known, Listening, AnswersAreKept
        <3> QED  BY <1>4, <3>1, <3>2
    <2> QED  BY <2>1, <2>2
<1> QED  BY <1>5, <1>7 DEF Listening

\* Every step keeps the invariant.
LEMMA ListeningStep ==
    ASSUME Known, TypeOK', [Next]_vars
    PROVE  Listening'
<1>0. TypeOK /\ \A i \in DOMAIN store : i \in Int
    BY DEF Known, TypeOK, StoreTypes
<1>1. ASSUME \A j \in Int : ~ HasRead(j)', DOMAIN store' \subseteq Int
      PROVE  Listening'
    BY <1>1 DEF Listening, HeardHavePlace, AnswersAreKept
<1>2. DOMAIN store' \subseteq Int
    BY DEF TypeOK, StoreTypes
<1>3. ASSUME NEW sid \in Destinations, StartCall(sid)
      PROVE  Listening'
    <2>1. first' = 0 /\ token' = 0
        BY <1>3 DEF StartCall
    <2>2. \A j \in Int : ~ HasRead(j)'
        BY <2>1 DEF HasRead
    <2> QED  BY <1>1, <1>2, <2>2
<1>4. ASSUME NEW sid \in Destinations, RefuseCall(sid)
      PROVE  Listening'
    BY <1>4 DEF RefuseCall, Listening, HeardHavePlace, AnswersAreKept
<1>5. CASE Finish \/ GiveUp \/ ListingFails \/ DecryptionFails
    BY <1>5 DEF Finish, GiveUp, ListingFails, DecryptionFails, Return, Listening,
                HeardHavePlace, AnswersAreKept
<1>6. CASE ListStore
    <2>1. CASE token = 0
        <3>1. first' = Len(store) - 1 /\ token' = Len(store) - 1 /\ Len(store) \in Nat
            BY <1>0, <1>6, <2>1 DEF ListStore, FirstUnread, TypeOK, StoreTypes
        <3>2. \A j \in Int : ~ HasRead(j)'
            BY <3>1 DEF HasRead
        <3> QED  BY <1>1, <1>2, <3>2
    <2>2. CASE token # 0
        <3>1. /\ UNCHANGED <<server_sid, received, rpc_result, first, token, awaited, store>>
              /\ pc = "loop"
            BY <1>6, <2>2 DEF ListStore, storeVars
        <3> QED  BY <3>1, QuietRows
    <2> QED  BY <2>1, <2>2
<1>7. CASE PassEnds
    <2>1. /\ UNCHANGED <<server_sid, received, rpc_result, first, token, awaited, store>>
          /\ pc = "read"
        BY <1>7 DEF PassEnds, storeVars
    <2> QED  BY <2>1, QuietRows
<1>8. ASSUME NEW bundle,
             SkipBundle(bundle) \/ ReadAck(bundle) \/ SkipAnswer(bundle)
             \/ ReadAnswer(bundle) \/ ReadHash(bundle)
      PROVE  Listening'
    BY <1>8, SkipKept, AckKept, AnswerKept
<1>9. CASE Download
    BY <1>9, FileKept
<1>10. ASSUME UNCHANGED clientVars, \A i \in DOMAIN store : store'[i] = store[i]
       PROVE  Listening'
    BY <1>10, QuietRows DEF clientVars
<1>11. ASSUME NEW s \in Servers,
              Serve(s) \/ PassFails(s) \/ ServerCrashes(s) \/ ServerRestarts(s)
       PROVE  Listening'
    BY <1>10, <1>11, ServeFrame DEF storeVars
<1>12. CASE Replicate
    <2>1. ASSUME NEW b \in AnswerBundle, AnswerArrives(b)
          PROVE  \A i \in DOMAIN store : store'[i] = store[i]
        BY <1>0, <2>1 DEF AnswerArrives, TypeOK, StoreTypes
    <2> QED  BY <1>10, <1>12, <2>1 DEF Replicate, CallArrives, AnswerArrives
<1>13. CASE UNCHANGED vars
    BY <1>10, <1>13 DEF vars, storeVars
<1>14. CASE AwaitFile
    BY <1>14 DEF AwaitFile, storeVars, Known, Listening, HeardHavePlace, AnswersAreKept,
                 HasRead, Heard, Kept, Place, Broadcast
<1> QED  BY <1>3, <1>4, <1>5, <1>6, <1>7, <1>8, <1>9, <1>11, <1>12, <1>13, <1>14
         DEF Next, Client

\* No answer that is read after the first listing is dropped, whatever stands between it
\* and the ACK of its server and however often the client lists its store.
THEOREM NoneOverlooked == Spec => []NoAnswerOverlooked
<1>1. Init => Listening
    BY DEF Init, Listening, HeardHavePlace, AnswersAreKept
<1>2. TypeOK /\ TypeOK' /\ SlotsInOrder /\ Truthful /\ Listening /\ [Next]_vars => Listening'
    BY ListeningStep DEF Known
<1>3. Listening => NoAnswerOverlooked
    BY DEF Listening, AnswersAreKept, NoAnswerOverlooked, Kept, Heard, Place
<1> QED  BY <1>1, <1>2, <1>3, TypeCorrect, SlotsStayInOrder, TruthAlways, PTL DEF Spec

-----------------------------------------------------------------------------
(* A call over Rhizome is a call as RpcCall describes it                    *)

\* The slots of an "all" call hold servers whose ACKs it has read, and the answer that
\* is awaited has a place to go.
Placed ==
    /\ pc # "idle" /\ Broadcast =>
          \A i \in Slot : rpc_result[i].server_sid # SidAny => rpc_result[i].server_sid \in acked
    /\ pc = "download" => HasPlace(awaited)

\* What is known when a step is mapped.
Contracted == TypeOK /\ Truthful /\ Real /\ Placed

\* The ACK of s that is read may reserve a slot that was free and empty.
LEMMA AckSlots ==
    ASSUME TypeOK, NEW bundle, ReadAck(bundle)
    PROVE  /\ bundle.server \in Servers /\ acked' = acked \cup {bundle.server}
           /\ pc = "read" /\ UNCHANGED <<pc, server_sid, code>>
           /\ \A i \in Slot :
                 \/ rpc_result'[i] = rpc_result[i]
                 \/ /\ rpc_result[i].server_sid = SidAny
                    /\ rpc_result'[i].content = rpc_result[i].content
                    /\ rpc_result'[i].server_sid = bundle.server
<1>1. /\ bundle.server \in Servers /\ rpc_result \in Results(Payload)
      /\ pc = "read" /\ UNCHANGED <<pc, server_sid, code>>
      /\ acked' = acked \cup {bundle.server}
      /\ rpc_result' \in {rpc_result, Reserve(rpc_result, bundle.server)}
    BY RowRead DEF ReadAck, Read, TypeOK, ClientTypes
<1>2. LET k == rpc_client_result_get_insert_index(rpc_result) IN
      k \in Slot => rpc_result[k].server_sid = SidAny
    BY <1>1, InsertIndex
<1> QED  BY <1>1, <1>2 DEF Reserve, Results

\* What an answer of s that has a place does to the array.
LEMMA AnswerSlots ==
    ASSUME TypeOK, NEW s \in Servers, NEW q, StoreAnswer(s, q), HasPlace(s)
    PROVE  \E k \in Slot :
              /\ rpc_result'[k] = [server_sid |-> s, content |-> q]
              /\ Broadcast => /\ rpc_result[k].server_sid = s
                              /\ \A i \in Slot : i # k => rpc_result'[i] = rpc_result[i]
              /\ ~Broadcast => rpc_result' = [rpc_result EXCEPT ![0] = rpc_result'[0]]
                               /\ k = 0
<1>0. rpc_result \in Results(Payload)
    BY DEF TypeOK, ClientTypes
<1>1. CASE Broadcast
    <2>1. Place(s) \in Slot /\ rpc_result[Place(s)].server_sid = s
        BY <1>0, <1>1, SidIndex DEF HasPlace, Place
    <2>2. \A i \in Slot : rpc_result'[i] =
              IF i = Place(s) THEN [rpc_result[i] EXCEPT !.content = q] ELSE rpc_result[i]
        BY <1>1, AnswerStored
    <2>3. [rpc_result[Place(s)] EXCEPT !.content = q] = [server_sid |-> s, content |-> q]
        BY <1>0, <2>1 DEF Results
    <2> QED  BY <1>1, <2>1, <2>2, <2>3
<1>2. CASE ~Broadcast
    BY <1>0, <1>2, SlotZero DEF StoreAnswer, StoreSingle, Results
<1> QED  BY <1>1, <1>2

\* The answer that is stored, read in a row or awaited as a file, has a place.
LEMMA AnswerTaken ==
    ASSUME TypeOK, Placed, Download \/ \E bundle \in Range(store) : ReadAnswer(bundle)
    PROVE  \E s \in Servers, q \in Payload :
              /\ StoreAnswer(s, q) /\ HasPlace(s) /\ q # NoContent
              /\ pc \in {"read", "download"} /\ pc' \in {"loop", "read"}
              /\ UNCHANGED <<server_sid, acked, code>>
<1>0. NoContent \notin Payload
    BY RhizomeAssumption DEF Payload, Port
<1>1. CASE Download
    <2>1. PICK q \in Payload : StoreAnswer(awaited, q)
        BY <1>1, FileOfServer
    <2>2. /\ pc = "download" /\ awaited \in Servers /\ HasPlace(awaited)
          /\ UNCHANGED <<server_sid, acked, code>>
        BY <1>1 DEF Download, TypeOK, ClientTypes, Placed
    <2>3. pc' \in {"loop", "read"}
        BY <2>1 DEF StoreAnswer
    <2> QED  BY <1>0, <2>1, <2>2, <2>3
<1>2. ASSUME NEW bundle \in Range(store), ReadAnswer(bundle)
      PROVE  \E s \in Servers, q \in Payload :
                /\ StoreAnswer(s, q) /\ HasPlace(s) /\ q # NoContent
                /\ pc \in {"read", "download"} /\ pc' \in {"loop", "read"}
                /\ UNCHANGED <<server_sid, acked, code>>
    <2>1. /\ bundle.server \in Servers /\ bundle.call \in Port /\ pc = "read"
          /\ StoreAnswer(bundle.server, <<bundle.server, bundle.call>>)
          /\ HasPlace(bundle.server) /\ UNCHANGED <<server_sid, acked, code>>
        BY <1>2, RowRead DEF ReadAnswer, Read
    <2>2. pc' \in {"loop", "read"}
        BY <2>1 DEF StoreAnswer
    <2>3. <<bundle.server, bundle.call>> \in Payload
        BY <2>1 DEF Payload
    <2> QED  BY <1>0, <2>1, <2>2, <2>3
<1> QED  BY <1>1, <1>2

\* Every step keeps the places.
LEMMA PlacedStep ==
    ASSUME TypeOK, Placed, [Next]_vars
    PROVE  Placed'
<1>1. ASSUME UNCHANGED <<server_sid, rpc_result, acked, awaited>>,
             pc' = "download" => pc = "download", pc' # "idle" => pc # "idle"
      PROVE  Placed'
    BY <1>1 DEF Placed, HasPlace, Broadcast
<1>2. ASSUME NEW sid \in Destinations, StartCall(sid) \/ RefuseCall(sid)
      PROVE  Placed'
    BY <1>2 DEF StartCall, RefuseCall, Placed, ClearedResults
<1>3. CASE Finish \/ GiveUp \/ ListStore \/ ListingFails \/ PassEnds \/ DecryptionFails
           \/ AwaitFile
    BY <1>1, <1>3
    DEF Finish, GiveUp, Return, ListStore, ListingFails, PassEnds, DecryptionFails, AwaitFile
<1>4. ASSUME NEW bundle, SkipBundle(bundle) \/ SkipAnswer(bundle)
      PROVE  Placed'
    BY <1>1, <1>4 DEF SkipBundle, SkipAnswer, Read
<1>5. ASSUME NEW bundle, ReadHash(bundle)
      PROVE  Placed'
    BY <1>5 DEF ReadHash, Read, Placed, HasPlace, Broadcast
<1>6. ASSUME NEW bundle, ReadAck(bundle)
      PROVE  Placed'
    BY <1>6, AckSlots DEF Placed, Broadcast
<1>7. CASE Download \/ \E bundle \in Range(store) : ReadAnswer(bundle)
    <2>1. PICK s \in Servers, q \in Payload :
             /\ StoreAnswer(s, q) /\ HasPlace(s)
             /\ pc \in {"read", "download"} /\ pc' \in {"loop", "read"}
             /\ UNCHANGED <<server_sid, acked>>
        BY <1>7, AnswerTaken
    <2>2. PICK k \in Slot :
             /\ rpc_result'[k] = [server_sid |-> s, content |-> q]
             /\ Broadcast => /\ rpc_result[k].server_sid = s
                             /\ \A i \in Slot : i # k => rpc_result'[i] = rpc_result[i]
        BY <2>1, AnswerSlots
    <2>3. Broadcast => \A i \in Slot : rpc_result'[i].server_sid = rpc_result[i].server_sid
        BY <2>2
    <2> QED  BY <2>1, <2>3 DEF Placed, Broadcast
<1>8. ASSUME NEW s \in Servers,
             Serve(s) \/ PassFails(s) \/ ServerCrashes(s) \/ ServerRestarts(s)
      PROVE  Placed'
    BY <1>1, <1>8, ServeFrame DEF clientVars
<1>9. CASE Replicate \/ UNCHANGED vars
    BY <1>1, <1>9 DEF Replicate, CallArrives, AnswerArrives, vars, clientVars
<1> QED  BY <1>2, <1>3, <1>4, <1>5, <1>6, <1>7, <1>8, <1>9 DEF Next, Client

\* The servers that have answered are those whose answers are in the array.
LEMMA AnsweredKept ==
    ASSUME \A i \in Slot :
              /\ rpc_result'[i].content = rpc_result[i].content
              /\ rpc_result[i].content # NoContent =>
                    rpc_result'[i].server_sid = rpc_result[i].server_sid
    PROVE  Answered' = Answered
BY DEF Answered

\* A call that returns has heard what its code says.
LEMMA ContractReturn ==
    ASSUME Contracted, Finish \/ GiveUp \/ ListingFails \/ DecryptionFails
    PROVE  Abstract!Next
<1>1. PICK c \in {-1, 2} :
         /\ pc # "idle" /\ pc' = "idle" /\ code' = c
         /\ UNCHANGED <<server_sid, rpc_result, acked>>
         /\ c = 2 => IF Broadcast THEN acked # {} ELSE rpc_result[0].content # NoContent
         /\ c = -1 => Broadcast \/ rpc_result = ClearedResults
    <2>0. received \in 0 .. 1
        BY DEF Contracted, TypeOK, ClientTypes
    <2>1. CASE Finish
        BY <2>0, <2>1 DEF Finish, Return, Contracted, Truthful, ArrayIsTrue
    <2>2. CASE GiveUp
        BY <2>0, <2>2, CollectedMeans DEF GiveUp, Return, Contracted, Truthful, ArrayIsTrue
    <2>3. CASE ListingFails
        BY <2>0, <2>3 DEF ListingFails, Return, Contracted, Truthful, ArrayIsTrue
    <2>4. CASE DecryptionFails
        BY <2>0, <2>4 DEF DecryptionFails, Return, Contracted, Truthful, ArrayIsTrue
    <2> QED  BY <2>1, <2>2, <2>3, <2>4
<1>2. rpc_result = ClearedResults => Answered = {}
    BY DEF Answered, ClearedResults
<1>3. rpc_result[0].content # NoContent => Answered # {}
    <2>1. 0 \in Slot /\ rpc_result[0].server_sid \in Servers \cup {SidAny}
        BY SlotZero DEF Contracted, TypeOK, ClientTypes, Results
    <2> QED  BY <2>1 DEF Answered, Contracted, Real, SlotsAreEmpty
<1>4. Abstract!Means(c)
    BY <1>1, <1>2, <1>3 DEF Abstract!Means, Broadcast
<1>5. Answered' = Answered
    BY <1>1 DEF Answered
<1>6. Abstract!Return(c)
    BY <1>1, <1>4, <1>5 DEF Abstract!Return
<1> QED  BY <1>6 DEF Abstract!Next, Abstract!Codes

\* A call that stores an answer takes it as RpcCall says.
LEMMA ContractAnswer ==
    ASSUME Contracted, Download \/ \E bundle \in Range(store) : ReadAnswer(bundle)
    PROVE  Abstract!Next
<1>1. PICK s \in Servers, q \in Payload :
         /\ StoreAnswer(s, q) /\ HasPlace(s) /\ q # NoContent
         /\ pc \in {"read", "download"} /\ pc' \in {"loop", "read"}
         /\ UNCHANGED <<server_sid, acked, code>>
    BY AnswerTaken DEF Contracted
<1>2. PICK k \in Slot :
         /\ rpc_result'[k] = [server_sid |-> s, content |-> q]
         /\ Broadcast => /\ rpc_result[k].server_sid = s
                         /\ \A i \in Slot : i # k => rpc_result'[i] = rpc_result[i]
         /\ ~Broadcast => rpc_result' = [rpc_result EXCEPT ![0] = rpc_result'[0]] /\ k = 0
    BY <1>1, AnswerSlots DEF Contracted
<1>3. ~Broadcast => rpc_result = ClearedResults
    BY <1>1 DEF Contracted, Truthful, ArrayIsTrue
<1>4. ~Broadcast => \A i \in Slot : i # k => rpc_result'[i].content = NoContent
    BY <1>2, <1>3 DEF ClearedResults
<1>5. ~Broadcast => Answered = {}
    BY <1>3 DEF Answered, ClearedResults
<1>6. Broadcast => s \in acked
    <2>1. s # SidAny
        BY ResultsAssumption
    <2> QED  BY <1>1, <1>2, <2>1 DEF Contracted, Placed
<1>7. Answered' = Answered \cup {s}
    <2>1. s \in Answered'
        BY <1>1, <1>2 DEF Answered
    <2>2. CASE Broadcast
        BY <1>2, <2>1, <2>2 DEF Answered
    <2>3. CASE ~Broadcast
        BY <1>2, <1>4, <1>5, <2>1, <2>3 DEF Answered
    <2> QED  BY <2>2, <2>3
<1>8. Abstract!Answer(s)
    BY <1>1, <1>5, <1>6, <1>7 DEF Abstract!Answer, Abstract!Hears, Broadcast
<1> QED  BY <1>8 DEF Abstract!Next

\* Every step is a step of RpcCall, or none.
LEMMA ContractStep ==
    ASSUME Contracted, [Next]_vars
    PROVE  [Abstract!Next]_(Abstract!rvars)
<1>0. \A sid \in Destinations : sid \in Servers \cup {SidAny, SidBroadcast}
    BY RhizomeAssumption
<1>1. ASSUME UNCHANGED <<server_sid, acked, code, rpc_result>>, pc' = "idle" <=> pc = "idle"
      PROVE  UNCHANGED Abstract!rvars
    <2>1. Answered' = Answered
        BY <1>1 DEF Answered
    <2> QED  BY <1>1, <2>1 DEF Abstract!rvars
<1>2. ASSUME NEW sid \in Destinations, StartCall(sid)
      PROVE  Abstract!Next
    <2>1. /\ pc = "idle" /\ pc' = "loop" /\ server_sid' = sid /\ acked' = {}
          /\ code' = NoCode /\ rpc_result' = ClearedResults
        BY <1>2 DEF StartCall
    <2>2. Answered' = {}
        BY <2>1 DEF Answered, ClearedResults
    <2>3. Abstract!Begin(sid)
        BY <2>1, <2>2 DEF Abstract!Begin, NoCode, Abstract!NoCode
    <2> QED  BY <1>0, <2>3 DEF Abstract!Next, Abstract!Dest
<1>3. ASSUME NEW sid \in Destinations, RefuseCall(sid)
      PROVE  Abstract!Next
    <2>1. /\ pc = "idle" /\ pc' = pc /\ server_sid' = sid /\ acked' = {} /\ code' = -1
          /\ rpc_result' = ClearedResults
        BY <1>3 DEF RefuseCall
    <2>2. Answered' = {}
        BY <2>1 DEF Answered, ClearedResults
    <2>3. Abstract!Refuse
        BY <1>0, <2>1, <2>2 DEF Abstract!Refuse, Abstract!Dest
    <2> QED  BY <2>3 DEF Abstract!Next
<1>4. CASE Finish \/ GiveUp \/ ListingFails \/ DecryptionFails
    BY <1>4, ContractReturn
<1>5. CASE ListStore \/ PassEnds \/ AwaitFile
    BY <1>1, <1>5 DEF ListStore, PassEnds, AwaitFile
<1>6. ASSUME NEW bundle, SkipBundle(bundle) \/ SkipAnswer(bundle) \/ ReadHash(bundle)
      PROVE  UNCHANGED Abstract!rvars
    BY <1>1, <1>6 DEF SkipBundle, SkipAnswer, ReadHash, Read
<1>7. ASSUME NEW bundle, ReadAck(bundle)
      PROVE  Abstract!Next
    <2>1. /\ bundle.server \in Servers /\ acked' = acked \cup {bundle.server}
          /\ pc = "read" /\ UNCHANGED <<pc, server_sid, code>>
        BY <1>7, AckSlots DEF Contracted
    <2>2. Answered' = Answered
        <3>1. \A i \in Slot :
                 /\ rpc_result'[i].content = rpc_result[i].content
                 /\ rpc_result[i].content # NoContent =>
                       rpc_result'[i].server_sid = rpc_result[i].server_sid
            BY <1>7, AckSlots DEF Contracted, Real, SlotsAreEmpty
        <3> QED  BY <3>1, AnsweredKept
    <2>3. Abstract!Accept(bundle.server)
        BY <2>1, <2>2 DEF Abstract!Accept, Abstract!Hears
    <2> QED  BY <2>1, <2>3 DEF Abstract!Next
<1>8. CASE Download \/ \E bundle \in Range(store) : ReadAnswer(bundle)
    BY <1>8, ContractAnswer
<1>9. ASSUME NEW s \in Servers,
             Serve(s) \/ PassFails(s) \/ ServerCrashes(s) \/ ServerRestarts(s)
      PROVE  UNCHANGED Abstract!rvars
    BY <1>1, <1>9, ServeFrame DEF clientVars
<1>10. CASE Replicate \/ UNCHANGED vars
    BY <1>1, <1>10 DEF Replicate, CallArrives, AnswerArrives, vars, clientVars
<1> QED
    BY <1>2, <1>3, <1>4, <1>5, <1>6, <1>7, <1>8, <1>9, <1>10 DEF Next, Client

\* A call over Rhizome does what RpcCall says of a call, whatever the stores replicate
\* and when: it begins, it hears of servers, an answer goes where its ACK has made room
\* for it, and the code it returns means what RpcCall says it means.
THEOREM CallIsRpcCall == Spec => ImplementsRpcCall
<1>1. Init => Abstract!Init
    <2> SUFFICES ASSUME Init
                 PROVE  Abstract!Init
        OBVIOUS
    <2>1. Answered = {}
        BY DEF Init, Answered, ClearedResults
    <2> QED  BY <2>1 DEF Init, Abstract!Init, NoCode, Abstract!NoCode
<1>2. Init => Placed
    BY DEF Init, Placed
<1>3. TypeOK /\ Placed /\ [Next]_vars => Placed'
    BY PlacedStep
<1>4. TypeOK /\ Truthful /\ Real /\ Placed /\ [Next]_vars => [Abstract!Next]_(Abstract!rvars)
    BY ContractStep DEF Contracted
<1> QED  BY <1>1, <1>2, <1>3, <1>4, TypeCorrect, TruthAlways, RealAlways,
            PTL DEF Spec, ImplementsRpcCall, Abstract!Spec

=============================================================================
