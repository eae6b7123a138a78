----------------------- MODULE TransparentTruthProofs -----------------------
(***************************************************************************)
(* What rpc_client_call tells the application is true, for every set of    *)
(* servers, any length of the result array and any number of calls made    *)
(* before: the theorem ReturnsAreTrue.  The flag `received' is what the    *)
(* codes are made of; Truthful says what it means on each transport, and   *)
(* how the array and the ACKs of an "all" call go together.                *)
(*                                                                         *)
(* Then the answers themselves.  Real traces every text in the array back  *)
(* to an execution, by the server of its slot, of a call that has been     *)
(* made (TextsStayReal).  So an answer of an earlier call is never         *)
(* mistaken for one of this call; Unheard says that the array has none as  *)
(* long as a call may fail or fall back: the code -1 is given only to      *)
(* calls without an answer, and a fallback throws away nothing             *)
(* (FallbackKeepsAnswers).                                                 *)
(*                                                                         *)
(* Together they give the refinement (CallIsRpcCall): one call, whatever   *)
(* transports it takes, is one call of RpcCall.                            *)
(***************************************************************************)
EXTENDS TransparentCallProofs

OnMdp == transport = "mdp" /\ stage \in {"mdp", "fetch"}
OnRhizome == transport = "rhizome" /\ stage \in {"rhizome", "fetch"}

\* What the code 2 promises, and the others.
Answered == IF Broadcast THEN acked # {} ELSE rpc_result[0].content # NoContent

Truth(c) ==
    /\ c = 2 => Answered
    /\ c = 1 => ~Broadcast /\ acked # {}
    /\ c = 0 => acked = {}

\* A call starts with nothing; an "all" call falls back to Rhizome only when
\* nobody has acknowledged it.
EntryIsFresh ==
    /\ stage = "enter" /\ transport # "rhizome" => received = 0 /\ acked = {}
    /\ stage = "enter" /\ Broadcast => acked = {}

\* The ifs are gone through from below, up to the code that is to be returned.
StepsAscend ==
    /\ transport # "rhizome" /\ stage \notin {"idle", "cascade"} => step = -1
    /\ stage = "cascade" => step <= call_return

\* The slots of an "all" call belong to servers that have acknowledged it.
SlotsAreAcked ==
    Broadcast => /\ \A i \in Slot : rpc_result[i].server_sid \in acked \cup {SidAny}
                 /\ acked # {} => rpc_result[0].server_sid # SidAny

\* What the flag means.
FlagIsTrue ==
    /\ InCall \/ OnMdp =>
          /\ received = 2 => Answered
          /\ received = 1 => acked # {}
          /\ received \in {-1, 0} => acked = {}
    /\ OnMdp => received # -1
    /\ OnRhizome => received \in {0, 1} /\ (received = 1 => Answered)

\* What the codes mean.
CodeIsTrue ==
    /\ stage = "msp" /\ pc = "idle" => (code = 2 => Answered)
    /\ stage \in {"cascade", "judge"} => Truth(call_return)
    /\ stage = "cascade" /\ transport # "rhizome" /\ Broadcast /\ call_return # 2 =>
          acked = {}
    /\ stage = "idle" => Truth(returned)
    /\ stage = "idle" /\ transparent => returned \in {NoCode, -1, 2}

Truthful ==
    KeepsContract =>
        /\ EntryIsFresh
        /\ StepsAscend
        /\ stage \notin {"idle", "enter"} => SlotsAreAcked
        /\ FlagIsTrue
        /\ CodeIsTrue

-----------------------------------------------------------------------------
(* The array of an "all" call                                               *)

\* An ACK that is noted takes a slot, the first if there was none.
LEMMA NoteAckKeeps ==
    ASSUME TypeOK, SlotsAreAcked, NEW s \in Servers, NoteAck(s), server_sid' = server_sid
    PROVE  SlotsAreAcked'
<1> SUFFICES ASSUME Broadcast
             PROVE  SlotsAreAcked'
    BY DEF SlotsAreAcked, Broadcast
<1>0. /\ rpc_result \in Results(Payload)
      /\ 0 \in Slot
      /\ s # SidAny /\ SidBroadcast \notin Servers \cup {SidAny}
    BY TypeParts, ResultsAssumption DEF ArrayTypes, Slot
<1> DEFINE k == rpc_client_result_get_insert_index(rpc_result)
<1>1. rpc_result' = Reserve(rpc_result, s)
    <2>1. \A i \in Slot : rpc_result[i].server_sid # SidBroadcast
        BY <1>0 DEF Results
    <2>2. _rpc_client_result_get_sid_index(rpc_result, SidBroadcast) = -1
        BY <1>0, <2>1, SidIndex
    <2> QED  BY <2>2 DEF NoteAck, ReservesSlot, Broadcast
<1>2. \A i \in Slot : rpc_result'[i] =
          IF i = k THEN [rpc_result[i] EXCEPT !.server_sid = s] ELSE rpc_result[i]
    BY <1>1 DEF Reserve
<1>3. k \in 0 .. MaxResults /\ \A j \in Slot : j < k => rpc_result[j].server_sid # SidAny
    BY <1>0, InsertIndex
<1> HIDE DEF k
<1>4. \A i \in Slot : rpc_result'[i].server_sid \in {s, rpc_result[i].server_sid}
    BY <1>0, <1>2 DEF Results
<1>5. rpc_result'[0].server_sid # SidAny
    <2>1. CASE k = 0
        BY <1>0, <1>2, <2>1 DEF Results
    <2>2. CASE k # 0
        <3>1. rpc_result[0].server_sid # SidAny
            BY <1>0, <1>3, <2>2
        <3> QED  BY <1>0, <1>2, <2>2, <3>1
    <2> QED  BY <2>1, <2>2
<1>6. acked' = acked \cup {s}
    BY DEF NoteAck
<1> QED  BY <1>4, <1>5, <1>6 DEF SlotsAreAcked, Broadcast

\* An answer that is stored leaves the slots to their servers, and if it ends the
\* call there is an answer.
LEMMA StoreAnswerKeeps ==
    ASSUME TypeOK, SlotsAreAcked, NEW s \in Servers, NEW q \in Payload, NEW flag,
           StoreAnswer(s, q, flag), UNCHANGED <<server_sid, acked>>
    PROVE  /\ SlotsAreAcked'
           /\ received' = received \/ (received' = flag /\ Answered')
           /\ Answered => Answered'
<1>0. /\ rpc_result \in Results(Payload)
      /\ 0 \in Slot /\ MaxResults - 1 \in Slot
      /\ q # NoContent /\ s # SidAny
    BY TypeParts, ResultsAssumption, TransparentAssumption DEF ArrayTypes, Slot
<1> DEFINE position == _rpc_client_result_get_sid_index(rpc_result, s)
<1>1. CASE ~Broadcast
    <2>1. rpc_result' = StoreSingle(rpc_result, s, q) /\ received' = flag
        BY <1>1 DEF StoreAnswer
    <2>2. rpc_result'[0].content # NoContent
        BY <1>0, <2>1 DEF StoreSingle, Results
    <2> QED  BY <1>1, <2>1, <2>2 DEF SlotsAreAcked, Answered, Broadcast
<1>2. CASE Broadcast
    <2>1. /\ rpc_result' = StoreReserved(rpc_result, position, q)
          /\ received' = received \/ (received' = flag /\ position = MaxResults - 1)
        BY <1>2 DEF StoreAnswer
    <2>2. \A i \in Slot : rpc_result'[i].server_sid = rpc_result[i].server_sid
        BY <1>0, <2>1 DEF StoreReserved, Results
    <2>3. position \in Slot => rpc_result[position].server_sid = s
        BY <1>0, SidIndex
    <2>4. position \in Slot => acked # {}
        BY <1>0, <1>2, <2>3 DEF SlotsAreAcked
    <2> QED  BY <1>0, <1>2, <2>1, <2>2, <2>4 DEF SlotsAreAcked, Answered, Broadcast
<1> QED  BY <1>1, <1>2

\* What an "all" call is content with.
LEMMA CollectedMeans ==
    ASSUME TypeOK, SlotsAreAcked
    PROVE  /\ Collected => Broadcast /\ acked # {}
           /\ Broadcast /\ ~Collected => acked = {}
<1>0. rpc_result \in Results(Payload) /\ 0 \in Slot
    BY TypeParts, ResultsAssumption DEF ArrayTypes, Slot
<1>1. LET k == rpc_client_result_get_insert_index(rpc_result) IN
      /\ k \in 0 .. MaxResults
      /\ k \in Slot => rpc_result[k].server_sid = SidAny
      /\ \A j \in Slot : j < k => rpc_result[j].server_sid # SidAny
    BY <1>0, InsertIndex
<1> QED  BY <1>0, <1>1 DEF Collected, SlotsAreAcked

-----------------------------------------------------------------------------
(* The steps                                                                *)

\* The application begins a call.
LEMMA BeginTruth ==
    ASSUME NEW sid \in Sid,
           Call(sid) \/ \E t \in Direct : CallDirectly(sid, t),
           TypeOK
    PROVE  Truthful'
<1>0. ~InCall
    BY DEF TypeOK, MspTypes, Call, CallDirectly, Begin
<1>1. /\ stage' = "enter" /\ acked' = {} /\ step' = -1 /\ pc' = pc
      /\ KeepsContract' => transport' = "rhizome" \/ received' = 0
    BY DEF Call, CallDirectly, Begin, FlagOfCall, KeepsContract, callVars
<1> QED  BY <1>0, <1>1
         DEF Truthful, EntryIsFresh, StepsAscend, FlagIsTrue, CodeIsTrue, InCall, OnMdp,
             OnRhizome

\* A transport hands on a code that is true.
LEMMA LeaveTruth ==
    ASSUME TypeOK, NEW c \in -1 .. 2, Leave(c), Truth(c), SlotsAreAcked',
           transport # "rhizome" => step = -1,
           transport # "rhizome" /\ Broadcast /\ c # 2 => acked = {},
           transparent /\ transport = "rhizome" => c \in {-1, 2},
           pc = "idle", pc' = pc, UNCHANGED <<acked, server_sid>>,
           rpc_result' = rpc_result \/ c # 2
    PROVE  Truthful'
<1>1. Truth(c)'
    BY DEF Truth, Answered, Broadcast
<1>2. stage' \in {"idle", "cascade", "judge"} /\ UNCHANGED <<transport, transparent, step>>
    BY DEF Leave
<1>3. stage' = "cascade" => transport # "rhizome" /\ transparent
    BY DEF Leave
<1>4. EntryIsFresh' /\ FlagIsTrue' /\ ~InCall'
    BY <1>2 DEF EntryIsFresh, FlagIsTrue, OnMdp, OnRhizome, InCall
<1>5. StepsAscend'
    BY <1>2, <1>3 DEF StepsAscend, Leave
<1>6. CodeIsTrue'
    BY <1>1, <1>2, <1>3 DEF CodeIsTrue, Leave, Truth, Broadcast
<1> QED  BY <1>4, <1>5, <1>6 DEF Truthful

\* A call that cannot even begin has nothing to tell.
LEMMA RefusedTruth ==
    ASSUME TypeOK, Shape, Truthful, KeepsContract, Unreachable \/ EntryFails
    PROVE  Truthful'
<1> USE DEF mspVars, clientVars, callVars, flagVars, appVars, netVars
<1>1. /\ Leave(-1) /\ stage = "enter"
      /\ UNCHANGED <<pc, acked, server_sid>>
    BY DEF Unreachable, EntryFails
<1>2. pc = "idle"
    BY <1>1 DEF TypeOK, MspTypes, InCall
<1>3. /\ transport # "rhizome" => step = -1
      /\ Broadcast => acked = {}
    BY <1>1 DEF Truthful, StepsAscend, EntryIsFresh
<1>4. SlotsAreAcked'
    <2>1. CASE Unreachable
        BY <1>1, <2>1, ResultsAssumption DEF Unreachable, SlotsAreAcked, Broadcast
    <2>2. CASE EntryFails
        BY <1>1, <1>3, <2>2 DEF EntryFails, ClearedResults, SlotsAreAcked, Broadcast
    <2> QED  BY <2>1, <2>2
<1>5. Truth(-1)
    BY DEF Truth
<1> QED  BY <1>1, <1>2, <1>3, <1>4, <1>5, LeaveTruth

\* A transport takes the call, with a cleared array and a flag that is 0.
LEMMA EntryTruth ==
    ASSUME TypeOK, Shape, Truthful, KeepsContract, EnterMsp \/ EnterMdp \/ EnterRhizome
    PROVE  Truthful'
<1> USE DEF mspVars, clientVars, callVars, flagVars, appVars, netVars
<1>1. /\ stage = "enter" /\ stage' = transport /\ transport \in Transports
      /\ rpc_result' = ClearedResults
      /\ received' = IF transport = "rhizome" THEN 0 ELSE received
      /\ transport = "msp" => pc' = "loop"
      /\ transport # "msp" => pc' = pc
      /\ UNCHANGED <<transport, fresh, step, acked, server_sid>>
    BY DEF EnterMsp, Connect, EnterMdp, EnterRhizome, Enter, Transports
<1>2. pc = "idle"
    BY <1>1 DEF TypeOK, MspTypes, InCall
<1>3. /\ transport # "rhizome" => received = 0 /\ acked = {} /\ step = -1
      /\ Broadcast => acked = {}
    BY <1>1 DEF Truthful, EntryIsFresh, StepsAscend
<1>4. SlotsAreAcked'
    BY <1>1, <1>3 DEF ClearedResults, SlotsAreAcked, Broadcast
<1>5. EntryIsFresh' /\ StepsAscend' /\ FlagIsTrue' /\ CodeIsTrue'
    BY <1>1, <1>2, <1>3
    DEF EntryIsFresh, StepsAscend, FlagIsTrue, CodeIsTrue, InCall, OnMdp, OnRhizome,
        Transports
<1> QED  BY <1>4, <1>5 DEF Truthful

\* The ifs pass on the code they have been given.
LEMMA IfsTruth ==
    ASSUME TypeOK, Shape, Cascade, Truthful, KeepsContract,
           FallBack \/ JudgeRhizome \/ ReturnToCaller
    PROVE  Truthful'
<1>1. /\ UNCHANGED <<pc, received, code, rpc_result, server_sid, acked, transparent, fresh,
                     call_return>>
      /\ stage \in {"cascade", "judge"} /\ transparent
    BY DEF FallBack, JudgeRhizome, ReturnToCaller, mspVars, clientVars, callVars,
           flagVars, appVars, netVars, Shape
<1>2. /\ pc = "idle"
      /\ step \in -1 .. 2 /\ call_return \in -1 .. 2
      /\ Truth(call_return) /\ SlotsAreAcked
    BY <1>1 DEF TypeOK, MspTypes, InCall, Truthful, CodeIsTrue
<1>3. SlotsAreAcked' /\ (Broadcast' <=> Broadcast)
    BY <1>1, <1>2 DEF SlotsAreAcked, Broadcast
<1>4. Truth(call_return)' /\ \A c : Truth(c) => Truth(c)'
    BY <1>1, <1>2 DEF Truth, Answered, Broadcast
<1>5. CASE FallBack
    <2>1. /\ stage = "cascade" /\ call_return < 2
          /\ stage' = "enter" /\ transport' = "rhizome"
        BY <1>2, <1>5 DEF FallBack
    <2>2. transport # "rhizome"
        BY <2>1, <1>2 DEF Cascade, IssuedSoFar
    <2>3. Broadcast => acked = {}
        BY <1>1, <2>1, <2>2 DEF Truthful, CodeIsTrue
    <2>4. EntryIsFresh' /\ StepsAscend' /\ FlagIsTrue' /\ CodeIsTrue'
        BY <1>1, <1>2, <1>3, <2>1, <2>3
        DEF EntryIsFresh, StepsAscend, FlagIsTrue, CodeIsTrue, InCall, OnMdp, OnRhizome
    <2> QED  BY <2>1, <2>4 DEF Truthful
<1>6. CASE JudgeRhizome
    <2>1. /\ stage = "judge" /\ transport = "rhizome" /\ transport' = transport
          /\ \/ stage' = "idle" /\ returned' = -1
             \/ stage' = "cascade" /\ step' = step + 1 /\ step < call_return
        BY <1>2, <1>6 DEF JudgeRhizome, Shape
    <2>2. Truth(-1)'
        BY DEF Truth
    <2>3. EntryIsFresh' /\ StepsAscend' /\ FlagIsTrue' /\ CodeIsTrue'
        BY <1>1, <1>2, <1>4, <2>1, <2>2
        DEF EntryIsFresh, StepsAscend, FlagIsTrue, CodeIsTrue, InCall, OnMdp, OnRhizome
    <2> QED  BY <1>3, <2>3 DEF Truthful
<1>7. CASE ReturnToCaller
    <2>1. /\ stage = "cascade" /\ call_return \notin step .. 1
          /\ stage' = "idle" /\ returned' = call_return
        BY <1>7 DEF ReturnToCaller
    <2>2. call_return = 2
        BY <1>2, <2>1 DEF Truthful, StepsAscend
    <2>3. EntryIsFresh' /\ StepsAscend' /\ FlagIsTrue' /\ CodeIsTrue'
        BY <1>1, <1>2, <1>4, <2>1, <2>2
        DEF EntryIsFresh, StepsAscend, FlagIsTrue, CodeIsTrue, InCall, OnMdp, OnRhizome
    <2> QED  BY <1>3, <2>3 DEF Truthful
<1> QED  BY <1>5, <1>6, <1>7

\* The flag in a call over MSP: an answer is in the array, or there has been an ACK,
\* or neither.
LEMMA MspTruth ==
    ASSUME TypeOK, Shape, Truthful, KeepsContract, MspLoop \/ Handled \/ LinkEnds
    PROVE  Truthful'
<1>0. /\ InCall /\ stage = "msp" /\ transport = "msp" /\ server_sid \in Servers
      /\ UNCHANGED <<server_sid, stageVars>>
    BY TypeParts
    DEF ControlTypes, MspLoop, Loop, KeepWaiting, Finish, RoundEnds, Download, Return,
        Handled, MspAck, ReceiveAck, ReceiveAnswer, ReceiveHash, TakePacket, LinkEnds,
        ConnectionEnds, InCall, appVars, tvars, netVars, SocketIsNull
<1>1. ~Broadcast /\ ~Broadcast'
    BY <1>0, ResultsAssumption DEF Broadcast
<1>2. /\ received = 2 => rpc_result[0].content # NoContent
      /\ received = 1 => acked # {}
      /\ received \in {-1, 0} => acked = {}
      /\ received \in -1 .. 2 /\ step = -1
    BY <1>0, <1>1, TypeParts
    DEF Truthful, FlagIsTrue, Answered, StepsAscend, ControlTypes
<1>3. ASSUME NEW q \in Payload, rpc_result' = StoreSingle(rpc_result, server_sid, q)
      PROVE  rpc_result'[0].content # NoContent
    <2>1. rpc_result \in Results(Payload) /\ 0 \in Slot /\ q # NoContent
        BY TypeParts, ResultsAssumption, TransparentAssumption DEF ArrayTypes, Slot
    <2> QED  BY <1>3, <2>1 DEF StoreSingle, Results
<1>4. /\ received' = 2 => rpc_result'[0].content # NoContent
      /\ received' = 1 => acked' # {}
      /\ received' \in {-1, 0} => acked' = {}
      /\ pc' = "idle" => code' = received'
    <2>1. CASE MspLoop
        <3>1. CASE Download
            <4>1. files \in Seq(Payload)
                BY TypeParts DEF FileTypes
            <4>2. FilesOfServer \in SUBSET (1 .. Len(files)) /\ Len(files) \in Nat
                BY <4>1 DEF FilesOfServer
            <4>3. Max(FilesOfServer) \in FilesOfServer
                BY <3>1, <4>2, MaxOfPositions DEF Download
            <4>4. files[Max(FilesOfServer)] \in Payload
                BY <4>1, <4>3 DEF FilesOfServer
            <4>5. rpc_result'[0].content # NoContent
                BY <1>3, <3>1, <4>4 DEF Download
            <4> QED  BY <3>1, <4>5 DEF Download
        <3>2. CASE KeepWaiting \/ Finish \/ RoundEnds
            BY <1>2, <2>1, <3>2
            DEF MspLoop, KeepWaiting, Finish, RoundEnds, Return, flagVars, tvars, netVars,
                SocketIsNull
        <3> QED  BY <2>1, <3>1, <3>2 DEF MspLoop, Loop
    <2>2. CASE Handled
        <3>1. ASSUME NEW state, MspAck(state)
              PROVE  received' = 1 /\ acked' # {} /\ pc' # "idle"
            BY <3>1 DEF MspAck, ReceiveAck, TakePacket
        <3>2. ASSUME NEW state, ReceiveAnswer(state)
              PROVE  received' = 2 /\ rpc_result'[0].content # NoContent /\ pc' # "idle"
            <4>1. <<server_sid, port>> \in Payload
                BY <1>0, Payloads
            <4> QED  BY <1>3, <3>2, <4>1 DEF ReceiveAnswer, TakePacket
        <3>3. ASSUME NEW state, ReceiveHash(state), UNCHANGED tvars
              PROVE  /\ received' \in {received, -1}
                     /\ received' = -1 => received \notin {1, 2}
                     /\ UNCHANGED <<rpc_result, acked>> /\ pc' # "idle"
            BY <3>3 DEF ReceiveHash, TakePacket, FlagAfter, tvars, netVars
        <3> QED  BY <1>2, <2>2, <3>1, <3>2, <3>3 DEF Handled
    <2>3. CASE LinkEnds
        BY <1>2, <2>3 DEF LinkEnds, ConnectionEnds, FlagAfter, tvars, netVars
    <2> QED  BY <2>1, <2>2, <2>3
<1>5. EntryIsFresh' /\ StepsAscend'
    BY <1>0, <1>2 DEF EntryIsFresh, StepsAscend, stageVars
<1>6. FlagIsTrue' /\ CodeIsTrue' /\ SlotsAreAcked'
    BY <1>0, <1>1, <1>4
    DEF FlagIsTrue, CodeIsTrue, SlotsAreAcked, Answered, stageVars, OnMdp, OnRhizome
<1> QED  BY <1>5, <1>6 DEF Truthful

\* Over MDP and Rhizome an ACK is noted, an answer stored, or a file awaited.
LEMMA ReceiveTruth ==
    ASSUME TypeOK, Shape, Truthful, KeepsContract,
           \/ SendMdp \/ Fetch
           \/ \E s \in Servers : MdpAck(s) \/ MdpAnswer(s) \/ MdpHash(s)
           \/ \E b \in bundles \cup MailedBundles : ReadAck(b) \/ ReadAnswer(b) \/ ReadHash(b)
    PROVE  Truthful'
<1> USE DEF callVars, flagVars, appVars, clientVars, stageVars, mspVars
<1>1. /\ stage \in {"mdp", "rhizome", "fetch"} /\ stage' \in {"mdp", "rhizome", "fetch"}
      /\ UNCHANGED <<pc, server_sid, transport, fresh, step>>
      /\ transport \in {"mdp", "rhizome"}
    <2>1. Receives
        BY ReceiveFrame
    <2> QED  BY <2>1, TypeParts DEF Receives, ControlTypes, Shape, Transports
<1>2. SlotsAreAcked /\ FlagIsTrue /\ ~InCall
    BY <1>1, TypeParts DEF Truthful, ControlTypes
<1>3. /\ OnMdp \/ OnRhizome
      /\ OnMdp' <=> OnMdp
      /\ OnRhizome' <=> OnRhizome
      /\ ~ (OnMdp /\ OnRhizome)
    <2>1. /\ stage = "mdp" => transport = "mdp"
          /\ stage = "rhizome" => transport = "rhizome"
          /\ stage' = "mdp" => transport = "mdp"
          /\ stage' = "rhizome" => transport = "rhizome"
        <3>1. Receives
            BY ReceiveFrame
        <3> QED  BY <3>1 DEF Receives, Shape
    <2> QED  BY <1>1, <2>1 DEF OnMdp, OnRhizome
<1>4. ASSUME SlotsAreAcked',
             \/ received' = received /\ (Answered => Answered') /\ acked' = acked
             \/ received' = received /\ (Answered => Answered') /\ acked' # {} /\ OnRhizome
             \/ OnMdp /\ received' = 2 /\ Answered'
             \/ OnRhizome /\ received' = 1 /\ Answered'
             \/ OnMdp /\ received' = 1 /\ acked' # {}
      PROVE  Truthful'
    <2>1. FlagIsTrue' 
        <3>1. ~InCall'
            BY <1>1, <1>2 DEF InCall
        <3> QED  BY <1>2, <1>3, <1>4, <3>1 DEF FlagIsTrue
    <2>2. EntryIsFresh' /\ StepsAscend' /\ CodeIsTrue'
        BY <1>1 DEF Truthful, EntryIsFresh, StepsAscend, CodeIsTrue
    <2> QED  BY <1>4, <2>1, <2>2 DEF Truthful
<1>5. ASSUME NEW s \in Servers, NEW q \in Payload,
             StoreAnswer(s, q, IF transport = "mdp" THEN 2 ELSE 1), acked' = acked
      PROVE  Truthful'
    <2>1. /\ SlotsAreAcked'
          /\ \/ received' = received
             \/ received' = (IF transport = "mdp" THEN 2 ELSE 1) /\ Answered'
          /\ Answered => Answered'
        BY <1>1, <1>2, <1>5, StoreAnswerKeeps
    <2> QED  BY <1>3, <1>4, <1>5, <2>1 DEF OnMdp, OnRhizome
<1>6. ASSUME UNCHANGED <<rpc_result, received, acked>>
      PROVE  Truthful'
    BY <1>1, <1>2, <1>4, <1>6 DEF SlotsAreAcked, Answered, Broadcast
<1>7. CASE SendMdp
    BY <1>6, <1>7 DEF SendMdp
<1>8. CASE Fetch
    <2>1. awaited \in Servers
        BY <1>8, TypeParts DEF Fetch, ControlTypes
    <2>2. files[Len(files)] \in Payload
        BY <1>8, TypeParts DEF Fetch, FileTypes
    <2> QED  BY <1>5, <1>8, <2>1, <2>2 DEF Fetch
<1>9. ASSUME NEW s \in Servers, MdpAck(s) \/ MdpAnswer(s) \/ MdpHash(s)
      PROVE  Truthful'
    <2>0. stage = "mdp" /\ transport = "mdp" /\ OnMdp
        BY <1>9 DEF MdpAck, MdpAnswer, MdpHash, MdpPacket, Shape, OnMdp
    <2>1. CASE MdpAck(s)
        <3>1. NoteAck(s) /\ received' = 1
            BY <2>1 DEF MdpAck
        <3>2. SlotsAreAcked' /\ acked' # {}
            BY <1>1, <1>2, <3>1, NoteAckKeeps DEF NoteAck
        <3> QED  BY <1>4, <2>0, <3>1, <3>2
    <2>2. CASE MdpAnswer(s)
        <3>1. <<s, port>> \in Payload
            BY <1>1, Payloads
        <3> QED  BY <1>5, <2>0, <2>2, <3>1 DEF MdpAnswer
    <2>3. CASE MdpHash(s)
        BY <1>6, <2>3 DEF MdpHash
    <2> QED  BY <1>9, <2>1, <2>2, <2>3
<1>10. ASSUME NEW b \in bundles \cup MailedBundles, ReadAck(b) \/ ReadAnswer(b) \/ ReadHash(b)
       PROVE  Truthful'
    <2>0. /\ stage = "rhizome" /\ transport = "rhizome" /\ OnRhizome
          /\ b.server \in Servers /\ <<b.server, b.call>> \in Payload
        BY <1>10, Payloads DEF ReadAck, ReadAnswer, ReadHash, ReadBundle, Shape, OnRhizome
    <2>1. CASE ReadAck(b)
        <3>1. NoteAck(b.server) /\ received' = received
            BY <2>1 DEF ReadAck
        <3>2. SlotsAreAcked' /\ acked' # {}
            BY <1>1, <1>2, <2>0, <3>1, NoteAckKeeps DEF NoteAck
        <3>3. Answered => Answered'
            <4>1. ~Broadcast => rpc_result' = rpc_result
                BY <3>1 DEF NoteAck, ReservesSlot, Broadcast
            <4> QED  BY <1>1, <3>2, <4>1 DEF Answered, Broadcast
        <3> QED  BY <1>4, <2>0, <3>1, <3>2, <3>3
    <2>2. CASE ReadAnswer(b)
        BY <1>5, <2>0, <2>2 DEF ReadAnswer
    <2>3. CASE ReadHash(b)
        BY <1>6, <2>3 DEF ReadHash
    <2> QED  BY <1>10, <2>1, <2>2, <2>3
<1> QED  BY <1>7, <1>8, <1>9, <1>10

\* The codes of the transports are true.
LEMMA ReturnTruth ==
    ASSUME TypeOK, Shape, Truthful, KeepsContract, MspReturns \/ MdpReturns \/ RhizomeReturns
    PROVE  Truthful'
<1> USE DEF callVars, flagVars, appVars, clientVars, netVars, mspVars
<1>1. /\ stage \in {"msp", "mdp", "rhizome"} /\ transport = stage
      /\ UNCHANGED <<pc, server_sid, acked, rpc_result>>
    BY DEF MspReturns, MdpReturns, RhizomeReturns, Shape
<1>2. pc = "idle"
    BY DEF MspReturns, MdpReturns, RhizomeReturns, InCall, TypeOK, MspTypes
<1>3. /\ SlotsAreAcked /\ SlotsAreAcked'
      /\ transport # "rhizome" => step = -1
      /\ FlagIsTrue /\ CodeIsTrue
    BY <1>1 DEF Truthful, StepsAscend, SlotsAreAcked, Broadcast
<1>4. received \in -1 .. 2 /\ code \in -2 .. 2
    BY TypeParts DEF ControlTypes
<1>5. CASE MspReturns
    <2>1. code \in {-1, 2} /\ Leave(code) /\ stage = "msp" /\ server_sid \in Servers
        BY <1>1, <1>2, <1>5 DEF MspReturns, Shape
    <2>2. Truth(code) /\ ~Broadcast
        BY <1>2, <1>3, <2>1, ResultsAssumption DEF CodeIsTrue, Truth, Broadcast
    <2> QED  BY <1>1, <1>2, <1>3, <2>1, <2>2, LeaveTruth
<1>6. CASE MdpReturns
    <2>1. stage = "mdp" /\ transport = "mdp" /\ OnMdp
        BY <1>1, <1>6 DEF MdpReturns, OnMdp
    <2>2. /\ received = 2 => Answered
          /\ received = 1 => acked # {}
          /\ received = 0 => acked = {}
          /\ received # -1
        BY <1>3, <2>1 DEF FlagIsTrue
    <2>3. PICK c \in -1 .. 2 :
             /\ Leave(c)
             /\ \/ received = 2 /\ c = 2
                \/ received \in {0, 1} /\ c = IF Collected THEN 2 ELSE received
                \/ received = 0 /\ c = -1
        BY <1>4, <1>6, <2>2 DEF MdpReturns
    <2>4. Truth(c) /\ (Broadcast /\ c # 2 => acked = {})
        BY <1>3, <2>2, <2>3, CollectedMeans DEF Truth, Answered
    <2> QED  BY <1>1, <1>2, <1>3, <2>1, <2>3, <2>4, LeaveTruth
<1>7. CASE RhizomeReturns
    <2>1. stage = "rhizome" /\ transport = "rhizome" /\ OnRhizome
        BY <1>1, <1>7 DEF RhizomeReturns, OnRhizome
    <2>2. received = 1 => Answered
        BY <1>3, <2>1 DEF FlagIsTrue
    <2>3. PICK c \in {-1, 2} :
             /\ Leave(c)
             /\ \/ received = 1 /\ c = 2
                \/ c = DeadlineCode
                \/ c = -1
        BY <1>7 DEF RhizomeReturns, DeadlineCode
    <2>4. Truth(c)
        BY <1>3, <2>2, <2>3, CollectedMeans DEF Truth, Answered, DeadlineCode
    <2> QED  BY <1>1, <1>2, <1>3, <2>1, <2>3, <2>4, LeaveTruth
<1> QED  BY <1>5, <1>6, <1>7

\* A call keeps the contract from its start to its end, or not at all.
LEMMA ContractStays ==
    ASSUME TypeOK, Shape, [Next]_vars,
           ~ \E sid \in Sid : Call(sid) \/ \E t \in Direct : CallDirectly(sid, t)
    PROVE  (KeepsContract' <=> KeepsContract) /\ UNCHANGED <<server_sid, port>>
<1> USE DEF callVars, flagVars, appVars, clientVars, mspVars
<1>1. /\ UNCHANGED <<fresh, server_sid, port>>
      /\ transport' = transport \/ FallBack
    <2>1. CASE Control
        <3>1. ASSUME Receives
              PROVE  UNCHANGED <<fresh, transport, server_sid, port>>
            BY <3>1 DEF Receives
        <3> QED
            BY <2>1, <3>1, ReceiveFrame
            DEF Control, Unreachable, EnterMsp, Connect, EnterMdp, EnterRhizome, Enter,
                EntryFails, Leave, FallBack, JudgeRhizome, ReturnToCaller,
                MspReturns, MdpReturns, RhizomeReturns
    <2>2. CASE MspLoop \/ Handled \/ LinkEnds
        BY <2>2
        DEF MspLoop, Loop, KeepWaiting, Finish, RoundEnds, Download, Return, Handled, MspAck,
            ReceiveAck, ReceiveAnswer, ReceiveHash, TakePacket, LinkEnds, ConnectionEnds,
            SocketIsNull, tvars, stageVars
    <2>3. CASE \/ \E s \in Servers : Server(s)
               \/ FileArrives /\ UNCHANGED tvars
               \/ UNCHANGED vars
        BY <2>3, ServerFrame DEF stageVars, vars, tvars
    <2> QED  BY <2>1, <2>2, <2>3 DEF Next
<1>2. FallBack => KeepsContract /\ KeepsContract'
    BY <1>1 DEF FallBack, Shape, KeepsContract
<1> QED  BY <1>1, <1>2 DEF KeepsContract

\* Every step keeps the invariant; only the start of a call brings one into its scope.
LEMMA TruthStep ==
    ASSUME TypeOK, Shape, Cascade, Truthful, [Next]_vars
    PROVE  Truthful'
<1>1. ASSUME NEW sid \in Sid, Call(sid) \/ \E t \in Direct : CallDirectly(sid, t)
      PROVE  Truthful'
    BY <1>1, BeginTruth
<1>2. CASE ~KeepsContract /\ ~ \E sid \in Sid :
                                  Call(sid) \/ \E t \in Direct : CallDirectly(sid, t)
    BY <1>2, ContractStays DEF Truthful
<1>3. CASE KeepsContract
    <2>1. CASE Control
        BY <1>3, <2>1, RefusedTruth, EntryTruth, IfsTruth, ReturnTruth, ReceiveTruth
        DEF Control
    <2>2. CASE MspLoop \/ Handled \/ LinkEnds
        BY <1>3, <2>2, MspTruth
    <2>3. CASE \/ \E s \in Servers : Server(s)
               \/ FileArrives /\ UNCHANGED tvars
               \/ UNCHANGED vars
        <3>1. UNCHANGED <<pc, code, received, rpc_result, server_sid, stage, transport,
                          transparent, fresh, step, call_return, returned, acked>>
            BY <2>3, ServerFrame
            DEF flagVars, appVars, stageVars, vars, mspVars, clientVars, callVars, tvars,
                netVars
        <3> QED
            BY <1>3, <3>1
            DEF Truthful, KeepsContract, EntryIsFresh, StepsAscend, SlotsAreAcked, FlagIsTrue,
                CodeIsTrue, Answered, Truth, Broadcast, InCall, OnMdp, OnRhizome
    <2> QED  BY <1>1, <2>1, <2>2, <2>3 DEF Next
<1> QED  BY <1>1, <1>2, <1>3

\* Truthfulness holds in every behaviour.
LEMMA TruthAlways == Spec => []Truthful
<1>1. Init => Truthful
    BY DEF Init, MspInit, NoCode, Truthful, EntryIsFresh, StepsAscend, FlagIsTrue,
       CodeIsTrue, Truth, InCall, OnMdp, OnRhizome
<1> QED  BY <1>1, TypesAlways, CascadeAlways, TruthStep, PTL DEF Spec

-----------------------------------------------------------------------------
(* What the array holds                                                     *)

Silent == \A i \in Slot : rpc_result[i].content = NoContent

FreeSlotsAreEmpty ==
    \A i \in Slot : rpc_result[i].server_sid = SidAny => rpc_result[i].content = NoContent

\* A slot is filled when it is taken; the answer whose file is awaited has a place; and
\* the array of a call to one server or to any has nothing in it until the flag, or the
\* code, says that there is an answer.
Stored ==
    /\ FreeSlotsAreEmpty
    /\ stage = "fetch" => HasPlace(awaited) /\ (~Broadcast => Silent)
    /\ InCall => received \in {1, 2} \/ Silent
    /\ stage = "msp" /\ ~InCall => code = 2 \/ Silent
    /\ ~Broadcast => /\ stage = "mdp" => received \notin {0, 1} \/ Silent
                     /\ stage = "rhizome" => received # 0 \/ Silent

\* An ACK that is noted may reserve a slot that was free.
LEMMA AckSlots ==
    ASSUME TypeOK, NEW s \in Servers, NoteAck(s)
    PROVE  /\ acked' = acked \cup {s}
           /\ ~Broadcast => rpc_result' = rpc_result
           /\ \A i \in Slot :
                 \/ rpc_result'[i] = rpc_result[i]
                 \/ /\ rpc_result[i].server_sid = SidAny
                    /\ rpc_result'[i].content = rpc_result[i].content
                    /\ rpc_result'[i].server_sid = s
<1>1. /\ rpc_result \in Results(Payload)
      /\ acked' = acked \cup {s}
      /\ rpc_result' \in {rpc_result, Reserve(rpc_result, s)}
      /\ ~Broadcast => rpc_result' = rpc_result
    BY TypeParts DEF NoteAck, ReservesSlot, Broadcast, ArrayTypes
<1>2. LET k == rpc_client_result_get_insert_index(rpc_result) IN
      k \in Slot => rpc_result[k].server_sid = SidAny
    BY <1>1, InsertIndex
<1> QED  BY <1>1, <1>2 DEF Reserve, Results

\* An answer of s that has a place goes into the slot of s, or into the first.
LEMMA AnswerSlots ==
    ASSUME TypeOK, NEW s \in Servers, NEW q \in Payload, NEW flag, StoreAnswer(s, q, flag),
           HasPlace(s)
    PROVE  \E k \in Slot :
              /\ rpc_result'[k] = [server_sid |-> s, content |-> q]
              /\ \A i \in Slot : i # k => rpc_result'[i] = rpc_result[i]
              /\ Broadcast => rpc_result[k].server_sid = s
              /\ ~Broadcast => received' = flag
<1>0. rpc_result \in Results(Payload) /\ 0 \in Slot
    BY TypeParts, ResultsAssumption DEF ArrayTypes, Slot
<1>1. CASE Broadcast
    <2> DEFINE k == _rpc_client_result_get_sid_index(rpc_result, s)
    <2>1. k \in Slot /\ rpc_result[k].server_sid = s
        BY <1>0, <1>1, SidIndex DEF HasPlace
    <2>2. rpc_result' = StoreReserved(rpc_result, k, q)
        BY <1>1 DEF StoreAnswer
    <2> HIDE DEF k
    <2>3. rpc_result'[k] = [server_sid |-> s, content |-> q]
        BY <1>0, <2>1, <2>2 DEF StoreReserved, Results
    <2>4. \A i \in Slot : i # k => rpc_result'[i] = rpc_result[i]
        BY <1>0, <2>2 DEF StoreReserved, Results
    <2> QED  BY <1>1, <2>1, <2>3, <2>4
<1>2. CASE ~Broadcast
    BY <1>0, <1>2 DEF StoreAnswer, StoreSingle, Results
<1> QED  BY <1>1, <1>2

\* What the three receiving steps that store an answer have in common.
Takes(s, q) ==
    /\ s \in Servers /\ q \in Payload
    /\ StoreAnswer(s, q, IF transport = "mdp" THEN 2 ELSE 1)
    /\ HasPlace(s)
    /\ ~Broadcast => Silent
    /\ UNCHANGED <<pc, server_sid, acked, transport, transparent, fresh, returned, call_return>>
    /\ stage \in {"mdp", "rhizome", "fetch"}
    /\ stage' = transport /\ transport \in {"mdp", "rhizome"}

\* MDP and Rhizome take an answer only if the call has none, or is one to all.
LEMMA AnswerTaken ==
    ASSUME TypeOK, Shape, Stored,
           \/ Fetch
           \/ \E s \in Servers : MdpAnswer(s)
           \/ \E b \in bundles \cup MailedBundles : ReadAnswer(b)
    PROVE  \E s, q : Takes(s, q)
<1> USE DEF callVars, flagVars, appVars, clientVars, stageVars, mspVars
<1>1. CASE Fetch
    <2>1. awaited \in Servers /\ files[Len(files)] \in Payload /\ transport \in Transports
        BY <1>1, TypeParts DEF Fetch, ControlTypes, FileTypes
    <2>2. transport # "msp"
        BY <1>1 DEF TypeOK, Fetch
    <2>3. Takes(awaited, files[Len(files)])
        BY <1>1, <2>1, <2>2 DEF Fetch, Takes, Stored, Transports
    <2> QED  BY <2>3
<1>2. ASSUME NEW s \in Servers, MdpAnswer(s)
      PROVE  \E q : Takes(s, q)
    <2>1. stage = "mdp" /\ transport = "mdp" /\ <<s, port>> \in Payload
        BY <1>2, Payloads DEF MdpAnswer, MdpPacket, Shape
    <2>2. Takes(s, <<s, port>>)
        BY <1>2, <2>1 DEF MdpAnswer, MdpPacket, Takes, Stored
    <2> QED  BY <2>2
<1>3. ASSUME NEW b \in bundles \cup MailedBundles, ReadAnswer(b)
      PROVE  \E s, q : Takes(s, q)
    <2>1. /\ stage = "rhizome" /\ transport = "rhizome"
          /\ b.server \in Servers /\ <<b.server, b.call>> \in Payload
        BY <1>3, Payloads DEF ReadAnswer, ReadBundle, Shape
    <2>2. Takes(b.server, <<b.server, b.call>>)
        BY <1>3, <2>1 DEF ReadAnswer, ReadBundle, Takes, Stored
    <2> QED  BY <2>2
<1> QED  BY <1>1, <1>2, <1>3

\* A call begins or ends, or a transport is entered.
LEMMA OutsideStored ==
    ASSUME Stored, rpc_result' \in {rpc_result, ClearedResults},
           \/ pc = "idle" /\ pc' = pc /\ stage' \notin {"fetch", "msp", "mdp", "rhizome"}
           \/ stage' # "fetch" /\ rpc_result' = ClearedResults
    PROVE  Stored'
<1>1. FreeSlotsAreEmpty'
    BY DEF Stored, FreeSlotsAreEmpty, ClearedResults
<1>2. rpc_result' = ClearedResults => Silent'
    BY DEF Silent, ClearedResults
<1> QED  BY <1>1, <1>2 DEF Stored, InCall

\* Over MSP an answer comes with the flag, and the flag stays.
LEMMA MspStored ==
    ASSUME TypeOK, Stored, MspLoop \/ Handled \/ LinkEnds
    PROVE  Stored'
<1>0. /\ InCall /\ stage = "msp" /\ transport = "msp" /\ server_sid \in Servers
      /\ UNCHANGED stageVars
    BY TypeParts
    DEF ControlTypes, MspLoop, Loop, KeepWaiting, Finish, RoundEnds, Download, Return,
        Handled, MspAck, ReceiveAck, ReceiveAnswer, ReceiveHash, TakePacket, LinkEnds,
        ConnectionEnds, InCall, tvars, SocketIsNull
<1>1. /\ received' \in {1, 2} \/ (rpc_result' = rpc_result /\ received \notin {1, 2})
      /\ pc' = "idle" => code' = received /\ rpc_result' = rpc_result /\ received \notin {0, 1}
      /\ rpc_result' = rpc_result \/ \E q : rpc_result' = StoreSingle(rpc_result, server_sid, q)
    BY <1>0
    DEF MspLoop, Loop, KeepWaiting, Finish, RoundEnds, Download, Return, Handled, MspAck,
        ReceiveAck, ReceiveAnswer, ReceiveHash, TakePacket, LinkEnds, ConnectionEnds,
        FlagAfter, flagVars, tvars, netVars, SocketIsNull, InCall
<1>2. FreeSlotsAreEmpty'
    <2>1. rpc_result \in Results(Payload) /\ server_sid # SidAny
        BY <1>0, TypeParts, ResultsAssumption DEF ArrayTypes
    <2> QED  BY <1>1, <2>1 DEF Stored, FreeSlotsAreEmpty, StoreSingle, Results
<1>3. received' \notin {1, 2} \/ (pc' = "idle" /\ code' # 2) => Silent'
    BY <1>0, <1>1 DEF Stored, Silent
<1>4. stage' = "msp"
    BY <1>0 DEF stageVars
<1> QED  BY <1>2, <1>3, <1>4 DEF Stored, InCall

\* Over MDP and Rhizome a packet or a bundle is read.
LEMMA ReceiveStored ==
    ASSUME TypeOK, Shape, Stored,
           \/ SendMdp \/ Fetch
           \/ \E s \in Servers : MdpAck(s) \/ MdpAnswer(s) \/ MdpHash(s)
           \/ \E b \in bundles \cup MailedBundles : ReadAck(b) \/ ReadAnswer(b) \/ ReadHash(b)
    PROVE  Stored'
<1> USE DEF callVars, flagVars, appVars, clientVars, stageVars, mspVars
<1>1. /\ stage \in {"mdp", "rhizome", "fetch"}
      /\ UNCHANGED <<pc, server_sid, transport>>
      /\ ~InCall
      /\ stage = "mdp" => transport = "mdp"
      /\ stage = "rhizome" => transport = "rhizome"
    <2>1. Receives
        BY ReceiveFrame
    <2> QED  BY <2>1, TypeParts DEF Receives, ControlTypes, Shape, InCall
<1>2. CASE SendMdp
    BY <1>1, <1>2 DEF SendMdp, Stored, FreeSlotsAreEmpty, Silent, Broadcast, InCall
<1>3. ASSUME NEW s \in Servers, NoteAck(s), stage' = stage, stage # "fetch",
             received' = received \/ (received \in {0, 1} /\ stage = "mdp")
      PROVE  Stored'
    <2>1. /\ \A i \in Slot : /\ rpc_result'[i].content = rpc_result[i].content
                             /\ \/ rpc_result'[i] = rpc_result[i]
                                \/ rpc_result'[i].server_sid = s
          /\ s # SidAny
        BY <1>3, AckSlots, ResultsAssumption
    <2>2. FreeSlotsAreEmpty'
        BY <2>1 DEF Stored, FreeSlotsAreEmpty
    <2>3. Silent => Silent'
        BY <2>1 DEF Silent
    <2> QED  BY <1>1, <1>3, <2>2, <2>3 DEF Stored, Broadcast, InCall
<1>4. ASSUME NEW s \in Servers, stage \in {"mdp", "rhizome"}, HasPlace(s),
             ~Broadcast => Silent, stage' = "fetch", awaited' = s, UNCHANGED rpc_result
      PROVE  Stored'
    BY <1>1, <1>4 DEF Stored, FreeSlotsAreEmpty, Silent, HasPlace, Broadcast, InCall
<1>5. ASSUME NEW s \in Servers, MdpAck(s) \/ MdpHash(s)
      PROVE  Stored'
    <2>1. stage = "mdp" /\ received \in {0, 1}
        BY <1>5 DEF MdpAck, MdpHash, MdpPacket
    <2>2. CASE MdpAck(s)
        BY <1>3, <2>1, <2>2 DEF MdpAck
    <2>3. CASE MdpHash(s)
        BY <1>4, <2>1, <2>3 DEF MdpHash, Stored
    <2> QED  BY <1>5, <2>2, <2>3
<1>6. ASSUME NEW b \in bundles \cup MailedBundles, ReadAck(b) \/ ReadHash(b)
      PROVE  Stored'
    <2>1. stage = "rhizome" /\ received = 0 /\ b.server \in Servers
        BY <1>6, Payloads DEF ReadAck, ReadHash, ReadBundle
    <2>2. CASE ReadAck(b)
        BY <1>3, <2>1, <2>2 DEF ReadAck
    <2>3. CASE ReadHash(b)
        BY <1>4, <2>1, <2>3 DEF ReadHash, Stored
    <2> QED  BY <1>6, <2>2, <2>3
<1>7. ASSUME NEW s, NEW q, Takes(s, q)
      PROVE  Stored'
    <2>1. PICK k \in Slot :
             /\ rpc_result'[k] = [server_sid |-> s, content |-> q]
             /\ \A i \in Slot : i # k => rpc_result'[i] = rpc_result[i]
             /\ ~Broadcast => received' = (IF transport = "mdp" THEN 2 ELSE 1)
        BY <1>7, AnswerSlots DEF Takes
    <2>2. s # SidAny
        BY <1>7, ResultsAssumption DEF Takes
    <2>3. FreeSlotsAreEmpty'
        BY <2>1, <2>2 DEF Stored, FreeSlotsAreEmpty
    <2> QED  BY <1>1, <1>7, <2>1, <2>3 DEF Takes, Stored, Broadcast, InCall
<1>8. CASE \/ Fetch
           \/ \E s \in Servers : MdpAnswer(s)
           \/ \E b \in bundles \cup MailedBundles : ReadAnswer(b)
    BY <1>7, <1>8, AnswerTaken
<1> QED  BY <1>2, <1>5, <1>6, <1>8

\* Every step keeps it.
LEMMA StoredStep ==
    ASSUME TypeOK, Shape, Stored, [Next]_vars
    PROVE  Stored'
<1> USE DEF callVars, flagVars, appVars, clientVars, mspVars
<1>0. stage \in {"idle", "enter", "cascade", "judge", "mdp", "rhizome"} => pc = "idle"
    BY DEF TypeOK, MspTypes, InCall
<1>1. ASSUME NEW sid \in Sid, Call(sid) \/ \E t \in Direct : CallDirectly(sid, t)
      PROVE  Stored'
    BY <1>0, <1>1, OutsideStored DEF Call, CallDirectly, Begin
<1>2. CASE Unreachable \/ EntryFails
    BY <1>0, <1>2, OutsideStored DEF Unreachable, EntryFails, Leave
<1>3. CASE EnterMsp \/ EnterMdp \/ EnterRhizome
    BY <1>3, OutsideStored DEF EnterMsp, Connect, EnterMdp, EnterRhizome, Enter
<1>4. CASE FallBack \/ JudgeRhizome \/ ReturnToCaller
    BY <1>0, <1>4, OutsideStored DEF FallBack, JudgeRhizome, ReturnToCaller
<1>5. CASE MspReturns \/ MdpReturns \/ RhizomeReturns
    BY <1>0, <1>5, OutsideStored DEF MspReturns, MdpReturns, RhizomeReturns, Leave, InCall
<1>6. CASE \/ \E s \in Servers : Server(s)
           \/ FileArrives /\ UNCHANGED tvars
           \/ UNCHANGED vars
    <2>1. UNCHANGED <<pc, code, received, rpc_result, server_sid, stage, awaited>>
        BY <1>6, ServerFrame DEF stageVars, vars, tvars, netVars
    <2> QED  BY <2>1 DEF Stored, FreeSlotsAreEmpty, Silent, HasPlace, Broadcast, InCall
<1> QED
    BY <1>1, <1>2, <1>3, <1>4, <1>5, <1>6, MspStored, ReceiveStored DEF Next, Control

\* It holds in every behaviour.
LEMMA StoredAlways == Spec => []Stored
<1>1. Init => Stored
    BY DEF Init, MspInit, Stored, FreeSlotsAreEmpty, ClearedResults, InCall
<1> QED  BY <1>1, TypesAlways, StoredStep, PTL DEF Spec

-----------------------------------------------------------------------------
(* Where the texts in the array come from                                   *)

\* Server s has computed a result for call p.
Executed(s, p) == executed[s][p] > 0

\* An answer that is the content of a file.
IsFile(content) == content[1] = Me \/ content[2] \in FileCalls

\* The results that are in Rhizome have been computed, ...
MailIsReal ==
    /\ \A m \in mailed : Executed(m[1], m[2])
    /\ \A b \in bundles : b.kind \in Answers => Executed(b.server, b.call)

\* ... those on their way to a socket for the call whose socket it is, ...
PacketsAreReal ==
    /\ packets # {} => OnMdp
    /\ \A m \in packets : m[1] \in Answers => Executed(m[2], port)

\* ... those on a connection by the server that is called, ...
StreamIsReal ==
    \A i \in DOMAIN stream : stream[i] \in Answers => Executed(server_sid, port)

\* ... as no other server has this call over MSP.
LinesAreOfCalled ==
    \A s \in Servers :
        /\ <<s, port>> \in requests \/ (attached[s] /\ serving[s] = port) => s = server_sid
        /\ attached[s] => serving[s] # 0

\* Files are those of calls that have been made.
FilesAreMade ==
    /\ \A file \in published : file[2] <= port
    /\ \A i \in DOMAIN files : IsFile(files[i]) /\ files[i][2] <= port

\* What is in the array: a file, or a result of the server of the slot.
IsReal(sid, content) ==
    /\ content[2] <= port
    /\ IsFile(content) \/ (sid = content[1] /\ Executed(content[1], content[2]))

ArrayIsReal ==
    \A i \in Slot : rpc_result[i].content # NoContent =>
        IsReal(rpc_result[i].server_sid, rpc_result[i].content)

Real ==
    /\ MailIsReal
    /\ PacketsAreReal
    /\ StreamIsReal
    /\ LinesAreOfCalled
    /\ FilesAreMade
    /\ ArrayIsReal

\* No server works on a call that has not been made.
LEMMA NoWorkAhead ==
    ASSUME TypeOK, IssuedSoFar, WorkIsBounded, NEW s \in Servers, NEW p \in Port,
           Executed(s, p) \/ serving[s] = p \/ <<s, p>> \in requests
    PROVE  p <= port
<1> SUFFICES ASSUME p > port
             PROVE  FALSE
    BY TypeParts DEF ControlTypes, Port
<1>1. issued["msp"][p] = 0 /\ issued["mdp"][p] = 0 /\ issued["rhizome"][p] = 0
    BY DEF IssuedSoFar, Transports
<1>2. executed[s][p] + copies["mdp"][s][p] + (IF Pending(s, p) THEN 1 ELSE 0)
          + (IF <<s, p>> \in requests THEN 1 ELSE 0) + (IF serving[s] = p THEN 1 ELSE 0) <= 0
    BY <1>1 DEF WorkIsBounded
<1>3. executed[s][p] \in Nat /\ copies["mdp"][s][p] \in Nat
    BY WorkTerms
<1> QED  BY <1>2, <1>3 DEF Executed

\* A server takes a call, ...
Accepts(s) ==
    /\ UNCHANGED <<executed, mailed, published, files>>
    /\ requests' \subseteq requests
    /\ serving[s] = 0
    /\ \/ UNCHANGED <<serving, attached>>
       \/ \E p \in Port :
             /\ serving' = [serving EXCEPT ![s] = p]
             /\ \/ attached' = attached
                \/ <<s, p>> \in requests /\ \E stays : attached' = [attached EXCEPT ![s] = stays]
    /\ packets' = packets \/ (OnMdp /\ packets' = packets \cup {<<"ack", s>>})
    /\ \A b \in bundles' : b \in bundles \/ b.kind = "ack"
    /\ stream' = stream \/ (link = "open" /\ stream' = Append(stream, "ack"))

\* ... ends an execution, with or without a result, ...
Ends(s, answer) ==
    /\ Produces(s, answer)
    /\ UNCHANGED <<requests, files>>
    /\ \/ UNCHANGED <<executed, mailed, packets, bundles, stream>>
       \/ /\ executed' = [executed EXCEPT ![s][serving[s]] = @ + 1]
          /\ mailed' \subseteq mailed \cup {<<s, serving[s], answer>>}
          /\ \/ packets' = packets
             \/ OnMdp /\ serving[s] = port /\ packets' = packets \cup {<<answer, s>>}
          /\ \A b \in bundles' : b \in bundles \/ (b.server = s /\ b.call = serving[s])
          /\ \/ stream' = stream
             \/ /\ link = "open" /\ attached[s] /\ serving[s] = port
                /\ stream' = Append(stream, answer)

\* ... or does neither.
Rests == UNCHANGED <<serverVars, files, packets, bundles, stream>>

\* A step of a server is one of these.
LEMMA ServerEffects ==
    ASSUME TypeOK, NEW s \in Servers, Server(s)
    PROVE  Accepts(s) \/ (\E answer \in Answers : Ends(s, answer)) \/ Rests
<1> USE DEF callVars, clientVars, netVars, tvars, serverVars
<1>1. CASE AcceptMsp(s)
    <2>1. PICK p \in Port : IgnoreCall(s, p) \/ \E stays \in BOOLEAN : AcceptCall(s, p, stays)
        BY <1>1 DEF AcceptMsp, TakeCall
    <2>2. UNCHANGED <<packets, bundles>>
        BY <1>1 DEF AcceptMsp
    <2>3. CASE IgnoreCall(s, p)
        BY <2>2, <2>3 DEF IgnoreCall, Accepts
    <2>4. ASSUME NEW stays, AcceptCall(s, p, stays)
          PROVE  Accepts(s)
        <3>1. stream' = stream \/ (link = "open" /\ stream' = Append(stream, "ack"))
            BY <2>4 DEF AcceptCall, Send
        <3> QED  BY <2>2, <2>4, <3>1 DEF AcceptCall, Accepts
    <2> QED  BY <2>1, <2>3, <2>4
<1>2. CASE AnswerMsp(s)
    <2>1. PICK answer \in Answers : SendResult(s, answer) \/ ResultUndeliverable(s, answer)
        BY <1>2 DEF AnswerMsp, Deliver
    <2>2. UNCHANGED <<packets, bundles>>
        BY <1>2 DEF AnswerMsp
    <2>3. CASE SendResult(s, answer)
        BY <2>2, <2>3 DEF SendResult, Executes, Send, Ends
    <2>4. CASE ResultUndeliverable(s, answer)
        BY <2>2, <2>4 DEF ResultUndeliverable, Executes, Ends
    <2> QED  BY <2>1, <2>3, <2>4
<1>3. ASSUME NEW p \in Port, NEW t \in {"mdp", "rhizome"}, AcceptCopy(s, p, t)
      PROVE  Accepts(s)
    <2>1. packets' = packets \/ (OnMdp /\ packets' = packets \cup {<<"ack", s>>})
        BY <1>3 DEF AcceptCopy, ToSocket, OnMdp
    <2>2. \A b \in bundles' : b \in bundles \/ b.kind = "ack"
        BY <1>3 DEF AcceptCopy, ToRhizome
    <2> QED  BY <1>3, <2>1, <2>2 DEF AcceptCopy, TakeCopy, Accepts
<1>4. ASSUME NEW p \in Port, NEW t, IgnoreCopy(s, p, t)
      PROVE  Rests
    BY <1>4 DEF IgnoreCopy, TakeCopy, Rests
<1>5. ASSUME NEW answer, Fails(s, answer)
      PROVE  Ends(s, answer)
    BY <1>5 DEF Fails, ExecutionFails, Ends
<1>6. ASSUME NEW answer, AnswerMdp(s, answer) \/ AnswerRhizome(s, answer)
      PROVE  Ends(s, answer)
    <2>1. /\ Executes(s, answer)
          /\ UNCHANGED <<stream, mailed, requests, files>>
        BY <1>6 DEF AnswerMdp, AnswerRhizome
    <2>2. \/ packets' = packets
          \/ OnMdp /\ serving[s] = port /\ packets' = packets \cup {<<answer, s>>}
        BY <1>6 DEF AnswerMdp, AnswerRhizome, ToSocket, OnMdp
    <2>3. \A b \in bundles' : b \in bundles \/ (b.server = s /\ b.call = serving[s])
        BY <1>6 DEF AnswerMdp, AnswerRhizome, ToRhizome
    <2> QED  BY <2>1, <2>2, <2>3 DEF Executes, Ends
<1>7. CASE ServerRestarts(s)
    <2>1. UNCHANGED <<stream, mailed, requests, files, packets, bundles>>
        BY <1>7 DEF ServerRestarts
    <2>2. ASSUME NEW answer, Executes(s, answer)
          PROVE  Ends(s, answer)
        BY <2>1, <2>2 DEF Executes, Ends
    <2> QED  BY <1>7, <2>1, <2>2 DEF ServerRestarts, Rests
<1> QED  BY <1>1, <1>2, <1>3, <1>4, <1>5, <1>6, <1>7 DEF Server

\* The other steps leave the servers and what is in Rhizome alone.
LEMMA OthersFrame ==
    ASSUME [Next]_vars, ~ \E s \in Servers : Server(s)
    PROVE  /\ UNCHANGED <<serving, attached, executed, mailed, published, bundles>>
           /\ UNCHANGED requests \/ EnterMsp
<1>1. CASE Elsewhere
    BY <1>1, ElsewhereFrame DEF serverVars
<1>2. CASE EnterMsp
    BY <1>2 DEF EnterMsp, Connect
<1>3. CASE EnterMdp \/ EnterRhizome \/ EntryFails \/ SendMdp \/ (FileArrives /\ UNCHANGED tvars)
    BY <1>3
    DEF EnterMdp, EnterRhizome, EntryFails, SendMdp, FileArrives, mspVars, serverVars, tvars,
        netVars
<1> QED  BY <1>1, <1>2, <1>3, NextCases

\* They take packets, and leave those of a call to no other.
LEMMA PacketsFrame ==
    ASSUME TypeOK, Shape, [Next]_vars, ~ \E s \in Servers : Server(s)
    PROVE  /\ packets' \subseteq packets
           /\ OnMdp => OnMdp' \/ packets' = {}
           /\ stream' = <<>> \/ stream' = stream \/ (stream # <<>> /\ stream' = Tail(stream))
<1> USE DEF callVars, flagVars, appVars, clientVars, mspVars, stageVars, netVars, tvars
<1>1. ASSUME NEW sid, Call(sid) \/ \E t \in Direct : CallDirectly(sid, t)
      PROVE  UNCHANGED <<packets, stream>> /\ ~OnMdp
    BY <1>1 DEF Call, CallDirectly, Begin, OnMdp
<1>2. CASE \/ Unreachable \/ EnterMdp \/ EnterRhizome \/ EntryFails
           \/ FallBack \/ JudgeRhizome \/ ReturnToCaller \/ MspReturns
    BY <1>2
    DEF Unreachable, EnterMdp, EnterRhizome, Enter, EntryFails, FallBack, JudgeRhizome,
        ReturnToCaller, MspReturns, OnMdp
<1>3. CASE EnterMsp
    BY <1>3 DEF EnterMsp, Connect, Enter, OnMdp
<1>4. CASE MdpReturns
    BY <1>4 DEF MdpReturns
<1>5. CASE RhizomeReturns
    BY <1>5 DEF RhizomeReturns, OnMdp
<1>6. CASE SendMdp
    BY <1>6 DEF SendMdp, OnMdp
<1>7. ASSUME NEW s, MdpAck(s) \/ MdpAnswer(s) \/ MdpHash(s)
      PROVE  packets' \subseteq packets /\ stream' = stream /\ (OnMdp => OnMdp')
    BY <1>7 DEF MdpAck, MdpAnswer, MdpHash, MdpPacket, OnMdp
<1>8. ASSUME NEW b, ReadAck(b) \/ ReadAnswer(b) \/ ReadHash(b)
      PROVE  UNCHANGED <<packets, stream>> /\ ~OnMdp
    BY <1>8 DEF ReadAck, ReadAnswer, ReadHash, ReadBundle, OnMdp, Shape
<1>9. CASE Fetch
    BY <1>9 DEF Fetch, OnMdp
<1>10. CASE MspLoop
    BY <1>10
    DEF MspLoop, Loop, KeepWaiting, Finish, RoundEnds, Download, Return, SocketIsNull, OnMdp
<1>11. CASE Handled \/ LinkEnds
    <2>1. UNCHANGED <<packets, stage, transport>>
        BY <1>11 DEF Handled, MspAck, LinkEnds
    <2>2. ASSUME NEW state, LinkAfter(state), state = "data" => stream # <<>>
          PROVE  stream' = <<>> \/ (stream # <<>> /\ stream' = Tail(stream))
        BY <2>2 DEF LinkAfter
    <2>3. stream' = <<>> \/ (stream # <<>> /\ stream' = Tail(stream))
        BY <1>11, <2>2
        DEF Handled, MspAck, ReceiveAck, ReceiveAnswer, ReceiveHash, TakePacket, LinkEnds,
            ConnectionEnds
    <2> QED  BY <2>1, <2>3 DEF OnMdp
<1>12. CASE (FileArrives /\ UNCHANGED tvars) \/ UNCHANGED vars
    BY <1>12 DEF FileArrives, vars, OnMdp
<1> QED
    BY <1>1, <1>2, <1>3, <1>4, <1>5, <1>6, <1>7, <1>8, <1>9, <1>10, <1>11, <1>12
    DEF Next, Control

\* The calls that have been made stay made, and the results stay computed.
LEMMA Grows ==
    ASSUME TypeOK, Shape, [Next]_vars
    PROVE  /\ \A s \in Servers, p \in Port : Executed(s, p) => Executed(s, p)'
           /\ port \in Nat
           /\ UNCHANGED <<port, server_sid>> \/ (stage = "idle" /\ port' = port + 1)
<1>0. /\ executed \in [Servers -> [Port -> Nat]]
      /\ serving \in [Servers -> Port \cup {0}]
      /\ port \in Nat
    BY TypeParts DEF ServerTypes, ControlTypes
<1>1. ASSUME UNCHANGED executed
      PROVE  \A s \in Servers, p \in Port : Executed(s, p) => Executed(s, p)'
    BY <1>1 DEF Executed
<1>2. ASSUME NEW r \in Servers, serving[r] # 0,
             executed' = [executed EXCEPT ![r][serving[r]] = @ + 1]
      PROVE  \A s \in Servers, p \in Port : Executed(s, p) => Executed(s, p)'
    <2>1. serving[r] \in Port
        BY <1>0, <1>2
    <2>2. \A s \in Servers, p \in Port : executed'[s][p] \in {executed[s][p], executed[s][p] + 1}
        BY <1>0, <1>2, <2>1
    <2>3. \A s \in Servers, p \in Port : executed[s][p] \in Nat
        BY <1>0
    <2> QED  BY <2>2, <2>3 DEF Executed
<1>3. \A s \in Servers, p \in Port : Executed(s, p) => Executed(s, p)'
    <2>1. CASE \E s \in Servers : Server(s)
        BY <1>1, <1>2, <2>1, ServerEffects DEF Accepts, Ends, Rests, Produces, serverVars
    <2> QED  BY <1>1, <2>1, OthersFrame
<1>4. CASE \E sid \in Sid : Call(sid) \/ \E t \in Direct : CallDirectly(sid, t)
    <2>1. stage = "idle" /\ port' = port + 1
        BY <1>4 DEF Call, CallDirectly, Begin
    <2> QED  BY <1>0, <1>3, <2>1
<1>5. CASE ~ \E sid \in Sid : Call(sid) \/ \E t \in Direct : CallDirectly(sid, t)
    BY <1>0, <1>3, <1>5, ContractStays
<1> QED  BY <1>4, <1>5

\* What has been executed is a result.
LEMMA Counted ==
    ASSUME TypeOK, NEW s \in Servers, NEW p \in Port,
           executed' = [executed EXCEPT ![s][p] = @ + 1]
    PROVE  Executed(s, p)'
<1>1. executed \in [Servers -> [Port -> Nat]]
    BY TypeParts DEF ServerTypes
<1>2. executed'[s][p] = executed[s][p] + 1 /\ executed[s][p] \in Nat
    BY <1>1
<1> QED  BY <1>2 DEF Executed

\* The parts of Real but the last: one step.
LEMMA MailIsRealStep ==
    ASSUME TypeOK, Shape, MailIsReal, [Next]_vars
    PROVE  MailIsReal'
<1>0. /\ \A s \in Servers, p \in Port : Executed(s, p) => Executed(s, p)'
      /\ mailed \subseteq Servers \X Port \X Answers
      /\ bundles \subseteq Bundle
      /\ serving \in [Servers -> Port \cup {0}]
    BY TypeParts, Grows DEF ServerTypes, MailTypes
<1>1. ASSUME NEW m \in mailed
      PROVE  Executed(m[1], m[2])'
    BY <1>0 DEF MailIsReal
<1>2. ASSUME NEW b \in bundles, b.kind \in Answers
      PROVE  Executed(b.server, b.call)'
    BY <1>0, <1>2 DEF MailIsReal, Bundle
<1>3. ASSUME NEW s \in Servers, Server(s)
      PROVE  MailIsReal'
    <2>1. CASE Accepts(s)
        BY <1>1, <1>2, <2>1 DEF Accepts, MailIsReal, Answers
    <2>2. ASSUME NEW answer \in Answers, Ends(s, answer)
          PROVE  MailIsReal'
        <3>1. PICK p \in Port : p = serving[s]
            BY <1>0, <2>2 DEF Ends, Produces
        <3>2. CASE UNCHANGED <<mailed, bundles>>
            BY <1>1, <1>2, <3>2 DEF MailIsReal
        <3>3. CASE executed' = [executed EXCEPT ![s][serving[s]] = @ + 1]
            <4>1. Executed(s, p)'
                BY <3>1, <3>3, Counted
            <4>2. /\ mailed' \subseteq mailed \cup {<<s, p, answer>>}
                  /\ \A b \in bundles' : b \in bundles \/ (b.server = s /\ b.call = p)
                BY <2>2, <3>1 DEF Ends
            <4>3. \A m \in mailed' : Executed(m[1], m[2])'
                BY <1>1, <4>1, <4>2 DEF Executed
            <4>4. \A b \in bundles' : b.kind \in Answers => Executed(b.server, b.call)'
                BY <1>2, <4>1, <4>2 DEF Executed
            <4> QED  BY <4>3, <4>4 DEF MailIsReal, Executed
        <3> QED  BY <2>2, <3>2, <3>3 DEF Ends
    <2>3. CASE Rests
        BY <1>1, <1>2, <2>3 DEF Rests, serverVars, MailIsReal
    <2> QED  BY <1>3, <2>1, <2>2, <2>3, ServerEffects
<1>4. CASE ~ \E s \in Servers : Server(s)
    BY <1>1, <1>2, <1>4, OthersFrame DEF MailIsReal
<1> QED  BY <1>3, <1>4

\* The packets to an MDP socket: one step.
LEMMA PacketsAreRealStep ==
    ASSUME TypeOK, Shape, PacketsAreReal, [Next]_vars
    PROVE  PacketsAreReal'
<1>0. /\ \A s \in Servers, p \in Port : Executed(s, p) => Executed(s, p)'
      /\ packets \subseteq ({"ack"} \cup Answers) \X Servers
      /\ serving \in [Servers -> Port \cup {0}]
    BY TypeParts, Grows DEF ServerTypes, MailTypes
<1>1. ASSUME NEW m \in packets, m[1] \in Answers
      PROVE  Executed(m[2], port)'
    <2>1. stage # "idle" /\ port \in Port
        BY DEF PacketsAreReal, OnMdp, Shape
    <2>2. port' = port
        BY <2>1, Grows
    <2> QED  BY <1>0, <1>1, <2>1, <2>2 DEF PacketsAreReal, Executed
<1>2. ASSUME NEW s \in Servers, Server(s)
      PROVE  PacketsAreReal'
    <2>0. OnMdp' = OnMdp /\ port' = port
        BY <1>2, ServerFrame DEF OnMdp, stageVars, appVars
    <2>1. CASE packets' = packets
        BY <1>1, <2>0, <2>1 DEF PacketsAreReal
    <2>2. CASE Accepts(s)
        BY <1>1, <2>0, <2>2 DEF Accepts, PacketsAreReal, Answers
    <2>3. ASSUME NEW answer \in Answers, Ends(s, answer), packets' # packets
          PROVE  PacketsAreReal'
        <3>1. serving[s] \in Port
            BY <1>0, <2>3 DEF Ends, Produces
        <3>2. /\ executed' = [executed EXCEPT ![s][serving[s]] = @ + 1]
              /\ OnMdp /\ serving[s] = port /\ packets' = packets \cup {<<answer, s>>}
            BY <2>3 DEF Ends
        <3>3. Executed(s, port)'
            BY <2>0, <3>1, <3>2, Counted DEF Executed
        <3>4. \A m \in packets' : m[1] \in Answers => Executed(m[2], port)'
            BY <1>1, <3>2, <3>3 DEF Executed
        <3> QED  BY <2>0, <3>2, <3>4 DEF PacketsAreReal, Executed
    <2> QED  BY <1>2, <2>1, <2>2, <2>3, ServerEffects DEF Rests
<1>3. CASE ~ \E s \in Servers : Server(s)
    <2>1. packets' \subseteq packets /\ (OnMdp => OnMdp' \/ packets' = {})
        BY <1>3, PacketsFrame
    <2> QED  BY <1>1, <2>1 DEF PacketsAreReal, Executed
<1> QED  BY <1>2, <1>3

\* What the MSP connection carries: one step.
LEMMA StreamIsRealStep ==
    ASSUME TypeOK, Shape, StreamIsReal, LinesAreOfCalled, [Next]_vars
    PROVE  StreamIsReal'
<1>0. /\ \A s \in Servers, p \in Port : Executed(s, p) => Executed(s, p)'
      /\ stream \in Seq({"ack"} \cup Answers)
      /\ serving \in [Servers -> Port \cup {0}]
    BY TypeParts, Grows DEF ServerTypes, ControlTypes
<1>1. stream # <<>> => /\ UNCHANGED <<port, server_sid>>
                       /\ server_sid \in Servers /\ port \in Port
    <2>1. stream # <<>> => stage = "msp" /\ InCall
        BY TypeParts DEF Shape, ControlTypes
    <2> QED  BY <2>1, TypeParts, Grows DEF ControlTypes
<1>2. ASSUME NEW i \in DOMAIN stream, stream[i] \in Answers
      PROVE  Executed(server_sid, port)'
    BY <1>0, <1>1, <1>2 DEF StreamIsReal, Executed
<1>3. CASE stream' = <<>> \/ stream' = stream \/ (stream # <<>> /\ stream' = Tail(stream))
    <2>1. \A i \in DOMAIN stream' : stream' # <<>>
        BY <1>0, <1>3
    <2>2. \A i \in DOMAIN stream' : \E j \in DOMAIN stream : stream'[i] = stream[j]
        <3>1. CASE stream' = Tail(stream) /\ stream # <<>>
            <4>1. \A i \in DOMAIN stream' : i + 1 \in DOMAIN stream /\ stream'[i] = stream[i + 1]
                BY <1>0, <3>1
            <4> QED  BY <4>1
        <3> QED  BY <1>3, <2>1, <3>1
    <2> QED  BY <1>2, <2>2 DEF StreamIsReal, Executed
<1>4. ASSUME NEW packet, stream' = Append(stream, packet), packet \in {"ack"} \cup Answers,
             packet \in Answers => Executed(server_sid, port)'
      PROVE  StreamIsReal'
    <2>1. \A i \in DOMAIN stream' : (i \in DOMAIN stream /\ stream'[i] = stream[i])
                                        \/ stream'[i] = packet
        BY <1>0, <1>4
    <2> QED  BY <1>2, <1>4, <2>1 DEF StreamIsReal, Executed
<1>5. ASSUME NEW s \in Servers, Server(s)
      PROVE  StreamIsReal'
    <2>0. UNCHANGED <<port, server_sid>>
        BY <1>5, ServerFrame DEF appVars
    <2>1. CASE stream' = stream
        BY <1>3, <2>1
    <2>2. CASE Accepts(s)
        BY <1>4, <2>1, <2>2 DEF Accepts, Answers
    <2>3. ASSUME NEW answer \in Answers, Ends(s, answer), stream' # stream
          PROVE  StreamIsReal'
        <3>1. PICK p \in Port : p = serving[s]
            BY <1>0, <2>3 DEF Ends, Produces
        <3>2. /\ executed' = [executed EXCEPT ![s][serving[s]] = @ + 1]
              /\ attached[s] /\ serving[s] = port /\ stream' = Append(stream, answer)
            BY <2>3 DEF Ends
        <3>3. Executed(s, p)'
            BY <3>1, <3>2, Counted
        <3>4. s = server_sid
            BY <3>2 DEF LinesAreOfCalled
        <3>5. Executed(server_sid, port)'
            BY <2>0, <3>1, <3>2, <3>3, <3>4 DEF Executed
        <3> QED  BY <1>4, <3>2, <3>5
    <2> QED  BY <1>5, <2>1, <2>2, <2>3, ServerEffects DEF Rests
<1>6. CASE ~ \E s \in Servers : Server(s)
    BY <1>3, <1>6, PacketsFrame
<1> QED  BY <1>5, <1>6

\* The servers of the waiting MSP calls: one step.
LEMMA LinesAreOfCalledStep ==
    ASSUME TypeOK, Shape, IssuedSoFar, WorkIsBounded, LinesAreOfCalled, [Next]_vars
    PROVE  LinesAreOfCalled'
<1>0. /\ serving \in [Servers -> Port \cup {0}]
      /\ attached \in [Servers -> BOOLEAN]
      /\ requests \subseteq Servers \X Port
      /\ port \in Nat /\ port \in 0 .. MaxCalls
    BY TypeParts, Grows DEF ServerTypes, ControlTypes
<1>1. ASSUME NEW r \in Servers, Server(r)
      PROVE  LinesAreOfCalled'
    <2>0. UNCHANGED <<port, server_sid>>
        BY <1>1, ServerFrame DEF appVars
    <2>1. CASE Accepts(r)
        <3>1. requests' \subseteq requests /\ serving[r] = 0
            BY <2>1 DEF Accepts
        <3>2. CASE UNCHANGED <<serving, attached>>
            BY <2>0, <3>1, <3>2 DEF LinesAreOfCalled
        <3>3. ASSUME NEW p \in Port, NEW stays, serving' = [serving EXCEPT ![r] = p],
                     attached' = attached
                        \/ (<<r, p>> \in requests /\ attached' = [attached EXCEPT ![r] = stays])
              PROVE  LinesAreOfCalled'
            <4>1. ASSUME NEW s \in Servers, s # r
                  PROVE  serving'[s] = serving[s] /\ attached'[s] = attached[s]
                BY <1>0, <3>3, <4>1
            <4>2. serving'[r] = p /\ p # 0 /\ (attached'[r] => <<r, p>> \in requests)
                <5>1. ~attached[r]
                    BY <3>1 DEF LinesAreOfCalled
                <5> QED  BY <1>0, <3>3, <5>1 DEF Port
            <4> QED  BY <2>0, <3>1, <4>1, <4>2 DEF LinesAreOfCalled
        <3> QED  BY <2>1, <3>2, <3>3 DEF Accepts
    <2>2. ASSUME NEW answer, Ends(r, answer)
          PROVE  LinesAreOfCalled'
        <3>1. /\ requests' = requests
              /\ serving' = [serving EXCEPT ![r] = 0]
              /\ attached' = [attached EXCEPT ![r] = FALSE]
            BY <2>2 DEF Ends, Produces
        <3>2. \A s \in Servers : attached'[s] => attached[s] /\ serving'[s] = serving[s]
            BY <1>0, <3>1
        <3> QED  BY <2>0, <3>1, <3>2 DEF LinesAreOfCalled
    <2>3. CASE Rests
        BY <2>0, <2>3 DEF Rests, serverVars, LinesAreOfCalled
    <2> QED  BY <1>1, <2>1, <2>2, <2>3, ServerEffects
<1>2. CASE ~ \E s \in Servers : Server(s)
    <2>1. UNCHANGED <<serving, attached>> /\ (requests' = requests \/ EnterMsp)
        BY <1>2, OthersFrame
    <2>2. CASE UNCHANGED <<port, server_sid>>
        <3>1. requests' \subseteq requests \cup {<<server_sid, port>>}
            BY <2>1 DEF EnterMsp, Connect
        <3> QED  BY <2>1, <2>2, <3>1 DEF LinesAreOfCalled
    <2>3. CASE stage = "idle" /\ port' = port + 1
        <3>1. requests' = requests
            BY <2>1, <2>3 DEF EnterMsp, Enter
        <3>2. ASSUME NEW s \in Servers
              PROVE  <<s, port'>> \notin requests /\ serving[s] # port'
            <4>1. ASSUME <<s, port'>> \in requests \/ serving[s] = port'
                  PROVE  FALSE
                <5>1. port' \in Port
                    BY <1>0, <2>3, <4>1 DEF Port
                <5>2. port' <= port
                    BY <4>1, <5>1, NoWorkAhead
                <5> QED  BY <1>0, <2>3, <5>2
            <4> QED  BY <4>1
        <3> QED  BY <2>1, <3>1, <3>2 DEF LinesAreOfCalled
    <2> QED  BY <2>2, <2>3, Grows
<1> QED  BY <1>1, <1>2

\* Files come from the client, and from the servers.
LEMMA FilesGrow ==
    ASSUME TypeOK, Shape, [Next]_vars
    PROVE  \/ files' = files
           \/ files' = Append(files, <<Me, port>>)
           \/ \E file \in published : files' = Append(files, file)
<1>1. CASE EnterMsp \/ EnterMdp \/ EnterRhizome \/ EntryFails
    BY <1>1 DEF EnterMsp, Connect, EnterMdp, EnterRhizome, EntryFails, AddParameterFile
<1>2. CASE Elsewhere \/ SendMdp \/ (FileArrives /\ UNCHANGED tvars)
    BY <1>2, ElsewhereFrame DEF SendMdp, mspVars, FileArrives
<1>3. ASSUME NEW s \in Servers, Server(s)
      PROVE  files' = files
    BY <1>3, ServerEffects DEF Accepts, Ends, Rests
<1> QED  BY <1>1, <1>2, <1>3, NextCases

\* The answer files: one step.
LEMMA FilesAreMadeStep ==
    ASSUME TypeOK, Shape, IssuedSoFar, WorkIsBounded, FilesAreMade, [Next]_vars
    PROVE  FilesAreMade'
<1>0. /\ serving \in [Servers -> Port \cup {0}]
      /\ published \subseteq Servers \X FileCalls
      /\ files \in Seq(Payload)
      /\ port \in Nat /\ port' \in Nat /\ port <= port'
      /\ FileCalls \subseteq Port
    BY TypeParts, Grows, MspAssumption DEF ServerTypes, FileTypes, Port
<1>1. \A file \in published' : file[2] <= port'
    <2>1. ASSUME NEW s \in Servers, NEW answer, Ends(s, answer)
          PROVE  \A file \in published' : file[2] <= port'
        <3>1. /\ serving[s] \in Port
              /\ published' = published \cup AnswerFile(s, answer)
            BY <1>0, <2>1 DEF Ends, Produces
        <3>2. serving[s] <= port
            BY <3>1, NoWorkAhead
        <3>3. \A file \in published' : file \in published \/ file[2] = serving[s]
            BY <3>1 DEF AnswerFile
        <3>4. \A file \in published : file[2] \in Port /\ file[2] <= port
            BY <1>0 DEF FilesAreMade
        <3> QED  BY <1>0, <3>1, <3>2, <3>3, <3>4 DEF Port
    <2>2. CASE published' = published
        <3>1. \A file \in published : file[2] \in Port /\ file[2] <= port
            BY <1>0 DEF FilesAreMade
        <3> QED  BY <1>0, <2>2, <3>1 DEF Port
    <2> QED  BY <2>1, <2>2, ServerEffects, OthersFrame DEF Accepts, Rests, serverVars
<1>2. \A i \in DOMAIN files' : IsFile(files'[i]) /\ files'[i][2] <= port'
    <2>1. \A i \in DOMAIN files : IsFile(files[i]) /\ files[i][2] \in Nat /\ files[i][2] <= port
        BY <1>0 DEF FilesAreMade, Payload, Port
    <2>2. ASSUME NEW file, files' = Append(files, file), IsFile(file), file[2] \in Nat,
                 file[2] <= port
          PROVE  \A i \in DOMAIN files' : IsFile(files'[i]) /\ files'[i][2] <= port'
        <3>1. \A i \in DOMAIN files' : (i \in DOMAIN files /\ files'[i] = files[i])
                                         \/ files'[i] = file
            BY <1>0, <2>2
        <3> QED  BY <1>0, <2>1, <2>2, <3>1
    <2>3. ASSUME NEW file \in published
          PROVE  IsFile(file) /\ file[2] \in Nat /\ file[2] <= port
        <3>1. /\ file[2] \in FileCalls
              /\ file[2] <= port
            BY <1>0 DEF FilesAreMade
        <3>2. file[2] \in Port
            BY <1>0, <3>1
        <3>3. file[2] \in Nat
            BY <3>2 DEF Port
        <3> QED  BY <3>1, <3>3 DEF IsFile
    <2>4. IsFile(<<Me, port>>)
        BY DEF IsFile
    <2>5. CASE files' = files
        BY <1>0, <2>1, <2>5
    <2>6. ASSUME NEW file \in published, files' = Append(files, file)
          PROVE  \A i \in DOMAIN files' : IsFile(files'[i]) /\ files'[i][2] <= port'
        BY <2>2, <2>3, <2>6
    <2>7. CASE files' = Append(files, <<Me, port>>)
        BY <1>0, <2>2, <2>4, <2>7
    <2> QED  BY <2>5, <2>6, <2>7, FilesGrow
<1> QED  BY <1>1, <1>2 DEF FilesAreMade, IsFile

-----------------------------------------------------------------------------
(* What goes into the array is real                                         *)

\* What is stored is a file, or what its server has computed.
Genuine(s, q) ==
    /\ q[2] <= port
    /\ IsFile(q) \/ (q[1] = s /\ Executed(s, q[2]))

\* What a step does to the array.
LEMMA AnswersStored ==
    ASSUME TypeOK, Shape, IssuedSoFar, WorkIsBounded, Real, [Next]_vars
    PROVE  \/ UNCHANGED rpc_result
           \/ rpc_result' = ClearedResults
           \/ \E s \in Servers : rpc_result' = Reserve(rpc_result, s)
           \/ \E s \in Servers, q \in Payload : Stores(s, q) /\ Genuine(s, q)
<1> DEFINE Goal ==
       \/ UNCHANGED rpc_result
       \/ rpc_result' = ClearedResults
       \/ \E s \in Servers : rpc_result' = Reserve(rpc_result, s)
       \/ \E s \in Servers, q \in Payload : Stores(s, q) /\ Genuine(s, q)
<1> USE DEF flagVars, clientVars, mspVars
<1>0. /\ port \in Nat
      /\ files \in Seq(Payload)
      /\ \A i \in DOMAIN files : IsFile(files[i]) /\ files[i][2] <= port
    BY TypeParts DEF Real, FilesAreMade, FileTypes, ControlTypes
<1>1. ASSUME NEW i \in DOMAIN files, NEW s \in Servers, Stores(s, files[i])
      PROVE  Goal
    BY <1>0, <1>1 DEF Genuine
<1>2. ASSUME NEW sid \in Sid, Call(sid) \/ \E t \in Direct : CallDirectly(sid, t)
      PROVE  Goal
    BY <1>2 DEF Call, CallDirectly, Begin
<1>3. CASE \/ Unreachable \/ EnterMsp \/ EnterMdp \/ EnterRhizome \/ EntryFails
           \/ FallBack \/ JudgeRhizome \/ ReturnToCaller
           \/ MspReturns \/ MdpReturns \/ RhizomeReturns \/ SendMdp
    BY <1>3
    DEF Unreachable, EnterMsp, Connect, EnterMdp, EnterRhizome, EntryFails,
        FallBack, JudgeRhizome, ReturnToCaller, MspReturns, MdpReturns, RhizomeReturns,
        SendMdp
<1>4. ASSUME NEW s \in Servers, MdpAck(s) \/ MdpAnswer(s) \/ MdpHash(s)
      PROVE  Goal
    <2>1. /\ <<s, port>> \in Payload
          /\ MdpAnswer(s) => <<"response", s>> \in packets
        BY <1>4, Payloads DEF MdpAck, MdpAnswer, MdpHash, MdpPacket, Shape
    <2>2. MdpAnswer(s) => Genuine(s, <<s, port>>)
        BY <1>0, <2>1 DEF Real, PacketsAreReal, Answers, Genuine
    <2>3. MdpAnswer(s) => Stores(s, <<s, port>>)
        BY DEF MdpAnswer, StoreAnswer, Stores
    <2> QED  BY <1>4, <2>1, <2>2, <2>3 DEF MdpAck, MdpHash, NoteAck
<1>5. ASSUME NEW b \in bundles \cup MailedBundles, ReadAck(b) \/ ReadAnswer(b) \/ ReadHash(b)
      PROVE  Goal
    <2>1. b.server \in Servers /\ <<b.server, b.call>> \in Payload /\ b.call \in Port
        BY <1>5, Payloads DEF Payload
    <2>2. CASE ReadAnswer(b)
        <3>1. Executed(b.server, b.call)
            <4>1. CASE b \in bundles
                BY <2>2, <4>1 DEF ReadAnswer, Real, MailIsReal, Answers
            <4>2. CASE b \in MailedBundles
                BY <4>2 DEF MailedBundles, Real, MailIsReal
            <4> QED  BY <4>1, <4>2
        <3>2. b.call <= port
            BY <2>1, <3>1, NoWorkAhead
        <3>3. Stores(b.server, <<b.server, b.call>>)
            BY <2>2 DEF ReadAnswer, StoreAnswer, Stores
        <3>4. Genuine(b.server, <<b.server, b.call>>)
            BY <3>1, <3>2 DEF Genuine
        <3> QED  BY <2>1, <3>3, <3>4
    <2>3. ReadAck(b) \/ ReadHash(b) => Goal
        BY <2>1 DEF ReadAck, ReadHash, NoteAck
    <2> QED  BY <1>5, <2>2, <2>3
<1>6. CASE Fetch
    <2>1. awaited \in Servers
        BY <1>6, TypeParts DEF Fetch, ControlTypes
    <2>2. Len(files) \in DOMAIN files
        BY <1>0, <1>6 DEF Fetch
    <2>3. Stores(awaited, files[Len(files)])
        BY <1>6 DEF Fetch, StoreAnswer, Stores
    <2> QED  BY <1>1, <2>1, <2>2, <2>3
<1>7. CASE MspLoop
    <2>1. CASE Download
        <3>1. server_sid \in Servers
            BY <2>1, TypeParts DEF Download, ControlTypes, InCall
        <3>2. FilesOfServer \in SUBSET (1 .. Len(files)) /\ Len(files) \in Nat
            BY <1>0 DEF FilesOfServer
        <3>3. Max(FilesOfServer) \in DOMAIN files
            <4>1. Max(FilesOfServer) \in FilesOfServer
                BY <2>1, <3>2, MaxOfPositions DEF Download
            <4> QED  BY <4>1 DEF FilesOfServer
        <3>4. Stores(server_sid, files[Max(FilesOfServer)])
            BY <2>1 DEF Download, Stores
        <3> QED  BY <1>1, <3>1, <3>3, <3>4
    <2> QED  BY <1>7, <2>1
             DEF MspLoop, Loop, KeepWaiting, Finish, RoundEnds, Return, SocketIsNull
<1>8. CASE Handled \/ LinkEnds
    <2>1. ASSUME NEW state, ReceiveAnswer(state)
          PROVE  Goal
        <3>1. server_sid \in Servers /\ <<server_sid, port>> \in Payload
            BY <2>1, TypeParts DEF ReceiveAnswer, TakePacket, ControlTypes, InCall, Payload
        <3>2. Executed(server_sid, port)
            <4>1. /\ stream \in Seq({"ack"} \cup Answers)
                  /\ stream # <<>> /\ Head(stream) = "response"
                BY <2>1, TypeParts DEF ReceiveAnswer, TakePacket, ControlTypes
            <4>2. 1 \in DOMAIN stream /\ stream[1] = "response"
                BY <4>1
            <4> QED  BY <4>2 DEF Real, StreamIsReal, Answers
        <3>3. Stores(server_sid, <<server_sid, port>>)
            BY <2>1 DEF ReceiveAnswer, Stores
        <3> QED  BY <1>0, <3>1, <3>2, <3>3 DEF Genuine
    <2> QED  BY <1>8, <2>1
             DEF Handled, LinkEnds, MspAck, ReceiveAck, ReceiveHash, ConnectionEnds
<1>9. CASE \/ \E s \in Servers : Server(s)
           \/ FileArrives /\ UNCHANGED tvars
           \/ UNCHANGED vars
    BY <1>9, ServerFrame DEF vars
<1> QED  BY <1>2, <1>3, <1>4, <1>5, <1>6, <1>7, <1>8, <1>9 DEF Next, Control

\* The texts in the array: one step.
LEMMA ArrayIsRealStep ==
    ASSUME TypeOK, Shape, IssuedSoFar, WorkIsBounded, FreeSlotsAreEmpty, Real, [Next]_vars
    PROVE  ArrayIsReal'
<1>0. /\ \A s \in Servers, p \in Port : Executed(s, p) => Executed(s, p)'
      /\ port \in Nat /\ port' \in Nat /\ port <= port'
      /\ rpc_result \in Results(Payload)
    BY TypeParts, Grows DEF ArrayTypes
<1>1. ASSUME NEW sid, NEW q \in Payload, IsReal(sid, q)
      PROVE  IsReal(sid, q)'
    <2>1. q[2] \in Port /\ q[1] \in Servers \cup {Me}
        BY DEF Payload
    <2>2. q[2] <= port'
        BY <1>0, <1>1, <2>1 DEF IsReal, Port
    <2> QED  BY <1>0, <1>1, <2>1, <2>2 DEF IsReal, IsFile, Executed
<1>2. ASSUME NEW i \in Slot, rpc_result[i].content # NoContent
      PROVE  IsReal(rpc_result[i].server_sid, rpc_result[i].content)
    BY <1>2 DEF Real, ArrayIsReal
<1>3. ASSUME NEW i \in Slot, rpc_result'[i] = rpc_result[i], rpc_result[i].content # NoContent
      PROVE  IsReal(rpc_result[i].server_sid, rpc_result[i].content)'
    <2>1. rpc_result[i].content \in Payload
        BY <1>0, <1>3 DEF Results
    <2>2. PICK sid, q : sid = rpc_result[i].server_sid /\ q = rpc_result[i].content
        OBVIOUS
    <2>3. IsReal(sid, q)'
        BY <1>1, <1>2, <1>3, <2>1, <2>2
    <2> QED  BY <1>3, <2>2, <2>3 DEF IsReal, IsFile, Executed
<1>4. CASE UNCHANGED rpc_result
    BY <1>3, <1>4 DEF ArrayIsReal
<1>5. CASE rpc_result' = ClearedResults
    BY <1>5 DEF ArrayIsReal, ClearedResults
<1>6. ASSUME NEW s \in Servers, rpc_result' = Reserve(rpc_result, s)
      PROVE  ArrayIsReal'
    <2>1. \A i \in Slot : rpc_result'[i] = rpc_result[i] \/ rpc_result'[i].content = NoContent
        <3> DEFINE k == rpc_client_result_get_insert_index(rpc_result)
        <3>1. k \in Slot => rpc_result[k].server_sid = SidAny
            BY <1>0, InsertIndex
        <3>2. \A i \in Slot : /\ i # k => rpc_result'[i] = rpc_result[i]
                              /\ rpc_result'[i].content = rpc_result[i].content
            BY <1>0, <1>6 DEF Reserve, Results
        <3> QED  BY <3>1, <3>2 DEF FreeSlotsAreEmpty
    <2> QED  BY <1>3, <2>1 DEF ArrayIsReal
<1>7. ASSUME NEW s \in Servers, NEW q \in Payload, Stores(s, q), Genuine(s, q)
      PROVE  ArrayIsReal'
    <2>1. \A i \in Slot : \/ rpc_result'[i] = rpc_result[i]
                          \/ rpc_result'[i] = [server_sid |-> s, content |-> q]
        <3>1. CASE rpc_result' = StoreSingle(rpc_result, s, q)
            BY <1>0, <3>1 DEF StoreSingle, Results
        <3>2. CASE rpc_result' = StoreReserved(rpc_result,
                      _rpc_client_result_get_sid_index(rpc_result, s), q)
            <4> DEFINE k == _rpc_client_result_get_sid_index(rpc_result, s)
            <4>1. k \in Slot => rpc_result[k].server_sid = s
                BY <1>0, SidIndex
            <4>2. rpc_result' = StoreReserved(rpc_result, k, q)
                BY <3>2
            <4> HIDE DEF k
            <4> QED  BY <1>0, <4>1, <4>2 DEF StoreReserved, Results
        <3> QED  BY <1>7, <3>1, <3>2 DEF Stores
    <2>2. IsReal(s, q)
        BY <1>7 DEF Genuine, IsReal
    <2>3. IsReal(s, q)'
        BY <1>1, <2>2
    <2> QED  BY <1>3, <2>1, <2>3 DEF ArrayIsReal, IsReal, IsFile, Executed
<1> QED  BY <1>4, <1>5, <1>6, <1>7, AnswersStored

\* All of it holds in every behaviour.
LEMMA RealAlways == Spec => []Real
<1>1. Init => Real
    BY DEF Init, MspInit, Real, MailIsReal, PacketsAreReal, StreamIsReal, LinesAreOfCalled,
           FilesAreMade, ArrayIsReal, ClearedResults
<1>2. /\ TypeOK /\ Shape /\ Cascade /\ WorkIsBounded /\ Stored /\ Real /\ [Next]_vars => Real'
    <2>1. Cascade => IssuedSoFar
        BY DEF Cascade
    <2>2. Stored => FreeSlotsAreEmpty
        BY DEF Stored
    <2> QED  BY <2>1, <2>2, MailIsRealStep, PacketsAreRealStep, StreamIsRealStep,
                LinesAreOfCalledStep, FilesAreMadeStep, ArrayIsRealStep DEF Real
<1> QED  BY <1>1, <1>2, TypesAlways, CascadeAlways, WorkBounded, StoredAlways, PTL DEF Spec

\* TextsAreReal: whatever transports it has used, and whatever calls it has made before,
\* what the application finds in the array is what the server of the slot has computed.
THEOREM TextsStayReal == Spec => []TextsAreReal
<1>1. TypeOK /\ Real => TextsAreReal
    <2> SUFFICES ASSUME TypeOK, Real, NEW i \in Slot,
                        rpc_result[i].content # NoContent,
                        rpc_result[i].content[1] # Me,
                        rpc_result[i].content[2] \notin FileCalls
                 PROVE  /\ rpc_result[i].server_sid = rpc_result[i].content[1]
                        /\ executed[rpc_result[i].content[1]][rpc_result[i].content[2]] > 0
        BY DEF TextsAreReal
    <2> QED  BY DEF Real, ArrayIsReal, IsReal, IsFile, Executed
<1> QED  BY <1>1, TypesAlways, RealAlways, PTL

-----------------------------------------------------------------------------
(* What a call that fails, or that falls back, has not heard                *)

\* There is no answer to the latest call in the array.
NothingYet == \A i \in Slot : rpc_result[i].content # NoContent => rpc_result[i].content[2] # port

\* A transport is entered before there is an answer; and only the code 2 says that there is.
Unheard ==
    KeepsContract =>
        /\ stage = "enter" => NothingYet
        /\ ~Broadcast /\ stage \in {"cascade", "judge"} => call_return = 2 \/ NothingYet
        /\ ~Broadcast /\ stage = "idle" => returned # -1 \/ NothingYet

\* A transport returns a code that is true, and one other than 2 with an empty array.
LEMMA ReturnedCode ==
    ASSUME TypeOK, Shape, Truthful, Stored, KeepsContract,
           MspReturns \/ MdpReturns \/ RhizomeReturns
    PROVE  \E c \in -1 .. 2 : Leave(c) /\ Truth(c) /\ (c # 2 /\ ~Broadcast => Silent)
<1> USE DEF callVars, flagVars, appVars, clientVars, netVars, mspVars
<1>1. /\ stage \in {"msp", "mdp", "rhizome"} /\ transport = stage
      /\ pc = "idle"
    BY DEF MspReturns, MdpReturns, RhizomeReturns, Shape, InCall, TypeOK, MspTypes
<1>2. SlotsAreAcked /\ FlagIsTrue /\ CodeIsTrue
    BY <1>1 DEF Truthful
<1>3. received \in -1 .. 2 /\ code \in -2 .. 2
    BY TypeParts DEF ControlTypes
<1>4. CASE MspReturns
    <2>1. code \in {-1, 2} /\ Leave(code) /\ stage = "msp"
        BY <1>1, <1>4 DEF MspReturns, Shape
    <2>2. Truth(code)
        BY <1>1, <1>2, <2>1 DEF CodeIsTrue, Truth
    <2>3. code # 2 => Silent
        BY <1>1, <2>1 DEF Stored, InCall
    <2> QED  BY <2>1, <2>2, <2>3
<1>5. CASE MdpReturns
    <2>1. stage = "mdp" /\ OnMdp
        BY <1>1, <1>5 DEF MdpReturns, OnMdp
    <2>2. /\ received = 2 => Answered
          /\ received = 1 => acked # {}
          /\ received = 0 => acked = {}
          /\ received # -1
        BY <1>2, <2>1 DEF FlagIsTrue
    <2>3. PICK c \in -1 .. 2 :
             /\ Leave(c)
             /\ \/ received = 2 /\ c = 2
                \/ received \in {0, 1} /\ c = IF Collected THEN 2 ELSE received
                \/ received = 0 /\ c = -1
        BY <1>3, <1>5, <2>2 DEF MdpReturns
    <2>4. Truth(c) /\ (c # 2 => received \in {0, 1})
        BY <1>2, <2>2, <2>3, CollectedMeans DEF Truth, Answered
    <2>5. c # 2 /\ ~Broadcast => Silent
        BY <2>1, <2>4 DEF Stored
    <2> QED  BY <2>3, <2>4, <2>5
<1>6. CASE RhizomeReturns
    <2>1. stage = "rhizome" /\ OnRhizome
        BY <1>1, <1>6 DEF RhizomeReturns, OnRhizome
    <2>2. received = 1 => Answered
        BY <1>2, <2>1 DEF FlagIsTrue
    <2>3. PICK c \in {-1, 2} :
             /\ Leave(c)
             /\ \/ received = 1 /\ c = 2
                \/ received = 0 /\ c = DeadlineCode
                \/ received = 0 /\ c = -1
        BY <1>6 DEF RhizomeReturns, DeadlineCode
    <2>4. Truth(c)
        BY <1>2, <2>2, <2>3, CollectedMeans DEF Truth, Answered, DeadlineCode
    <2>5. c # 2 /\ ~Broadcast => Silent
        BY <2>1, <2>3 DEF Stored
    <2> QED  BY <2>3, <2>4, <2>5
<1> QED  BY <1>4, <1>5, <1>6

\* A new call finds answers to earlier calls in the array, and none to itself.
LEMMA BeginUnheard ==
    ASSUME TypeOK, Shape, ArrayIsReal,
           \E sid \in Sid : Call(sid) \/ \E t \in Direct : CallDirectly(sid, t)
    PROVE  Unheard'
<1>1. /\ rpc_result' = rpc_result /\ port' = port + 1 /\ stage' = "enter"
      /\ rpc_result \in Results(Payload)
      /\ port \in Nat
    BY TypeParts DEF Call, CallDirectly, Begin, ArrayTypes, ControlTypes
<1>2. ASSUME NEW i \in Slot, rpc_result[i].content # NoContent
      PROVE  rpc_result[i].content[2] # port + 1
    <2>1. rpc_result[i].content \in Payload
        BY <1>1, <1>2 DEF Results
    <2>2. rpc_result[i].content[2] \in Nat /\ rpc_result[i].content[2] <= port
        BY <1>2, <2>1 DEF ArrayIsReal, IsReal, Payload, Port
    <2> QED  BY <1>1, <2>2
<1> QED  BY <1>1, <1>2 DEF Unheard, NothingYet

\* Every other step keeps it.
LEMMA UnheardStep ==
    ASSUME TypeOK, Shape, Cascade, Truthful, Stored, ArrayIsReal, Unheard, [Next]_vars
    PROVE  Unheard'
<1> USE DEF callVars, flagVars, appVars, clientVars, mspVars, netVars
<1>1. CASE \E sid \in Sid : Call(sid) \/ \E t \in Direct : CallDirectly(sid, t)
    BY <1>1, BeginUnheard
<1>2. CASE ~ \E sid \in Sid : Call(sid) \/ \E t \in Direct : CallDirectly(sid, t)
    <2>1. /\ KeepsContract' <=> KeepsContract
          /\ UNCHANGED <<server_sid, port>>
          /\ Broadcast' <=> Broadcast
        BY <1>2, ContractStays DEF Broadcast
    <2> SUFFICES ASSUME KeepsContract
                 PROVE  Unheard'
        BY <2>1 DEF Unheard
    <2>2. NothingYet /\ rpc_result' \in {rpc_result, ClearedResults} => NothingYet'
        BY <2>1 DEF NothingYet, ClearedResults
    <2>3. Silent => NothingYet
        BY DEF Silent, NothingYet
    <2>4. call_return \in -1 .. 2 /\ step \in -1 .. 2
        BY TypeParts DEF ControlTypes
    <2>5. CASE Unreachable \/ EntryFails
        <3>1. stage = "enter" /\ rpc_result' \in {rpc_result, ClearedResults}
            BY <2>5 DEF Unreachable, EntryFails
        <3> QED  BY <2>2, <3>1 DEF Unheard
    <2>6. CASE stage' \in {"msp", "mdp", "rhizome", "fetch"}
        BY <2>6 DEF Unheard
    <2>7. CASE EnterMsp \/ EnterMdp \/ EnterRhizome
        BY <2>6, <2>7 DEF EnterMsp, EnterMdp, EnterRhizome, Enter
    <2>8. CASE FallBack
        <3>1. /\ stage = "cascade" /\ call_return # 2 /\ stage' = "enter"
              /\ rpc_result' = rpc_result
              /\ transport # "rhizome"
            BY <2>4, <2>8 DEF FallBack, Cascade, IssuedSoFar
        <3>2. Broadcast => Silent
            BY <3>1
            DEF Truthful, CodeIsTrue, SlotsAreAcked, Stored, FreeSlotsAreEmpty, Silent
        <3>3. NothingYet
            BY <2>3, <3>1, <3>2 DEF Unheard
        <3> QED  BY <2>2, <3>1, <3>3 DEF Unheard
    <2>9. CASE JudgeRhizome
        <3>1. /\ stage = "judge" /\ UNCHANGED <<rpc_result, call_return>>
              /\ stage' = "cascade" \/ (stage' = "idle" /\ call_return <= step)
            BY <2>9 DEF JudgeRhizome
        <3>2. step < 2
            BY <3>1 DEF Shape
        <3>3. stage' = "idle" => call_return # 2
            BY <2>4, <3>1, <3>2
        <3> QED  BY <2>1, <2>2, <3>1, <3>3 DEF Unheard
    <2>10. CASE ReturnToCaller
        <3>1. /\ stage = "cascade" /\ rpc_result' = rpc_result
              /\ stage' = "idle" /\ returned' = call_return
            BY <2>10 DEF ReturnToCaller
        <3> QED  BY <2>1, <2>2, <2>4, <3>1 DEF Unheard
    <2>11. CASE MspReturns \/ MdpReturns \/ RhizomeReturns
        <3>1. PICK c \in -1 .. 2 : Leave(c) /\ (c # 2 /\ ~Broadcast => Silent)
            BY <2>11, ReturnedCode
        <3>2. /\ rpc_result' = rpc_result
              /\ \/ stage' \in {"judge", "cascade"} /\ call_return' = c
                 \/ stage' = "idle" /\ returned' = c
            BY <2>11, <3>1 DEF MspReturns, MdpReturns, RhizomeReturns, Leave
        <3> QED  BY <2>1, <2>2, <2>3, <3>1, <3>2 DEF Unheard
    <2>12. CASE MspLoop \/ Handled \/ LinkEnds
        <3>1. InCall /\ stage' = stage
            BY <2>12
            DEF MspLoop, Loop, KeepWaiting, Finish, RoundEnds, Download, Handled, MspAck,
                ReceiveAck, ReceiveAnswer, ReceiveHash, TakePacket, LinkEnds, ConnectionEnds,
                InCall, tvars, stageVars
        <3>2. stage' = "msp"
            BY <3>1, TypeParts DEF ControlTypes
        <3> QED  BY <2>6, <3>2
    <2>13. CASE Receives
        <3>1. transport \in {"mdp", "rhizome"} \/ stage # "fetch"
            BY <2>13, TypeParts DEF TypeOK, ControlTypes, Transports
        <3> QED  BY <2>6, <2>13, <3>1 DEF Receives
    <2>14. CASE \/ \E s \in Servers : Server(s)
                \/ FileArrives /\ UNCHANGED tvars
                \/ UNCHANGED vars
        <3>1. UNCHANGED <<rpc_result, stage, returned, call_return>>
            BY <2>14, ServerFrame DEF stageVars, vars, tvars
        <3> QED  BY <2>1, <2>2, <3>1 DEF Unheard
    <2> QED
        BY <1>2, <2>5, <2>7, <2>8, <2>9, <2>10, <2>11, <2>12, <2>13, <2>14, ReceiveFrame
        DEF Next, Control
<1> QED  BY <1>1, <1>2

\* It holds in every behaviour.
LEMMA UnheardAlways == Spec => []Unheard
<1>1. Init => Unheard
    BY DEF Init, MspInit, Unheard, NoCode
<1>2. TypeOK /\ Shape /\ Cascade /\ Truthful /\ Stored /\ Real /\ Unheard /\ [Next]_vars
          => Unheard'
    BY UnheardStep DEF Real
<1> QED
    BY <1>1, <1>2, TypesAlways, CascadeAlways, TruthAlways, StoredAlways, RealAlways, PTL
    DEF Spec

\* What the application is told is true, in every call that did not find the flag of an
\* earlier one: 2 with an answer, or for an "all" call with an ACK; 1 and 0 with an ACK and
\* without; and -1 for a call to one server or to any if there is no answer to it.
THEOREM ReturnsAreTrue == Spec => []ReturnsTellTheTruth
<1>1. Truthful /\ Unheard => ReturnsTellTheTruth
    BY DEF Truthful, Unheard, NothingYet, KeepsContract, CodeIsTrue, Truth, Answered,
           ReturnsTellTheTruth
<1> QED  BY <1>1, TruthAlways, UnheardAlways, PTL

\* rpc_client_call clears no answer of this call when it falls back to Rhizome: what it
\* has received made the code 2.
THEOREM FallbackKeepsAnswers == Spec => []FallbackDiscardsNothing
<1>1. Shape /\ Unheard => FallbackDiscardsNothing
    BY DEF Shape, Unheard, KeepsContract, NothingYet, FallbackDiscardsNothing
<1> QED  BY <1>1, TypesAlways, UnheardAlways, PTL

-----------------------------------------------------------------------------
(* rpc_client_call is a call as RpcCall describes it                        *)

\* Servers have been heard if their answers are in the array ...
LEMMA HeardSame ==
    ASSUME UNCHANGED rpc_result, NoneHeard' <=> NoneHeard
    PROVE  HeardFrom' = HeardFrom
BY DEF HeardFrom

\* ... and none have if it is empty.
LEMMA HeardNone ==
    ASSUME Silent \/ NoneHeard
    PROVE  HeardFrom = {}
BY DEF HeardFrom, Silent

\* What has happened is nothing to RpcCall.
LEMMA Unseen ==
    ASSUME KeepsContract, KeepsContract', stage' = "idle" <=> stage = "idle",
           UNCHANGED <<server_sid, acked, returned>>, HeardFrom' = HeardFrom
    PROVE  UNCHANGED Abstract!rvars
BY DEF Abstract!rvars

\* A call that tells the truth when it returns does so in terms of RpcCall.
LEMMA ReturnMaps ==
    ASSUME NEW c \in -1 .. 2,
           TypeOK, Stored, KeepsContract, KeepsContract', SlotsAreAcked \/ c = -1,
           stage # "idle", stage' = "idle", returned' = c,
           UNCHANGED <<server_sid, acked>>, HeardFrom' = HeardFrom,
           Truth(c), c # 2 /\ ~Broadcast => HeardFrom = {}, c = 2 => ~NoneHeard
    PROVE  Abstract!Next
<1>1. Broadcast /\ acked = {} /\ c # -1 => HeardFrom = {}
    <2>1. Broadcast /\ acked = {} /\ c # -1 => Silent
        BY DEF SlotsAreAcked, Stored, FreeSlotsAreEmpty, Silent
    <2> QED  BY <2>1, HeardNone
<1>2. c = 2 /\ ~Broadcast => HeardFrom # {}
    <2> SUFFICES ASSUME c = 2, ~Broadcast
                 PROVE  HeardFrom # {}
        OBVIOUS
    <2>1. /\ 0 \in Slot /\ rpc_result[0].content # NoContent
          /\ rpc_result[0].server_sid \in Servers \cup {SidAny}
        BY TypeParts, ResultsAssumption DEF Truth, Answered, ArrayTypes, Results, Slot
    <2>2. rpc_result[0].server_sid \in Servers
        BY <2>1 DEF Stored, FreeSlotsAreEmpty
    <2>3. rpc_result[0].server_sid \in HeardFrom
        BY <2>1, <2>2 DEF HeardFrom
    <2> QED  BY <2>3
<1>3. Abstract!Means(c)
    BY <1>1, <1>2 DEF Abstract!Means, Truth, Answered, Broadcast
<1>4. Abstract!Return(c)
    BY <1>3 DEF Abstract!Return
<1> QED  BY <1>4 DEF Abstract!Next, Abstract!Codes

\* A transport that returns to rpc_client_call goes unseen; one that returns to the
\* application returns the call.
LEMMA LeaveMaps ==
    ASSUME TypeOK, Stored, KeepsContract, KeepsContract', SlotsAreAcked,
           stage \notin {"idle", "cascade", "judge"}, NEW c \in -1 .. 2, Leave(c), Truth(c),
           UNCHANGED <<server_sid, acked, rpc_result>>,
           c # 2 /\ ~Broadcast => Silent, stage # "enter"
    PROVE  [Abstract!Next]_(Abstract!rvars)
<1>1. ~NoneHeard
    BY DEF NoneHeard
<1>2. c # 2 /\ ~Broadcast => HeardFrom = {} /\ HeardFrom' = {}
    <2>1. Silent => Silent'
        BY DEF Silent
    <2>2. Silent' => HeardFrom' = {}
        BY DEF HeardFrom, Silent
    <2> QED  BY <2>1, <2>2, HeardNone
<1>3. HeardFrom' = HeardFrom
    <2>1. ~NoneHeard' \/ (c # 2 /\ ~Broadcast)
        BY DEF NoneHeard, Leave, Broadcast
    <2> QED  BY <1>1, <1>2, <2>1, HeardSame
<1>4. CASE transparent
    <2>1. stage' \in {"judge", "cascade"} /\ UNCHANGED returned
        BY <1>4 DEF Leave
    <2> QED  BY <1>3, <2>1, Unseen
<1>5. CASE ~transparent
    <2>1. stage' = "idle" /\ returned' = c
        BY <1>5 DEF Leave
    <2> QED  BY <1>1, <1>2, <1>3, <2>1, ReturnMaps
<1> QED  BY <1>4, <1>5

\* A call that cannot begin fails, or leaves it to the ladder; one that begins has a
\* cleared array.
LEMMA EntryMaps ==
    ASSUME TypeOK, Shape, Stored, KeepsContract, KeepsContract',
           Unreachable \/ EntryFails \/ EnterMsp \/ EnterMdp \/ EnterRhizome
    PROVE  [Abstract!Next]_(Abstract!rvars)
<1> USE DEF callVars, flagVars, appVars, clientVars, mspVars, netVars
<1>1. /\ stage = "enter"
      /\ UNCHANGED <<server_sid, acked>>
      /\ HeardFrom = {}
    BY HeardNone
    DEF Unreachable, EntryFails, EnterMsp, Connect, EnterMdp, EnterRhizome, Enter, NoneHeard
<1>2. rpc_result' = ClearedResults => HeardFrom' = {}
    BY DEF HeardFrom, ClearedResults
<1>3. CASE EnterMsp \/ EnterMdp \/ EnterRhizome
    <2>1. /\ rpc_result' = ClearedResults /\ stage' # "idle" /\ UNCHANGED returned
        BY <1>3 DEF EnterMsp, Connect, EnterMdp, EnterRhizome, Enter
    <2> QED  BY <1>1, <1>2, <2>1, Unseen
<1>4. CASE Unreachable \/ EntryFails
    <2>1. Leave(-1)
        BY <1>4 DEF Unreachable, EntryFails
    <2>2. HeardFrom' = {}
        <3>1. CASE EntryFails
            BY <1>2, <3>1 DEF EntryFails
        <3>2. CASE Unreachable
            <4>1. ~Broadcast'
                BY <1>1, <3>2, ResultsAssumption DEF Unreachable, Broadcast
            <4>2. NoneHeard'
                BY <2>1, <4>1 DEF NoneHeard, Leave
            <4> QED  BY <4>2 DEF HeardFrom
        <3> QED  BY <1>4, <3>1, <3>2
    <2>3. CASE transparent
        <3>1. stage' # "idle" /\ UNCHANGED returned
            BY <2>1, <2>3 DEF Leave
        <3> QED  BY <1>1, <2>2, <3>1, Unseen
    <2>4. CASE ~transparent
        <3>1. stage' = "idle" /\ returned' = -1
            BY <2>1, <2>4 DEF Leave
        <3>2. Truth(-1)
            BY DEF Truth
        <3> QED  BY <1>1, <2>2, <3>1, <3>2, ReturnMaps
    <2> QED  BY <2>3, <2>4
<1> QED  BY <1>3, <1>4

\* The ladder of ifs goes unseen until it returns; when it falls back, nobody has
\* answered.
LEMMA IfsMaps ==
    ASSUME TypeOK, Shape, Cascade, Truthful, Stored, KeepsContract, KeepsContract',
           FallBack \/ JudgeRhizome \/ ReturnToCaller
    PROVE  [Abstract!Next]_(Abstract!rvars)
<1>1. /\ UNCHANGED <<server_sid, rpc_result, acked, call_return>>
      /\ stage \in {"cascade", "judge"}
      /\ Truth(call_return) /\ SlotsAreAcked /\ StepsAscend
      /\ call_return \in -1 .. 2 /\ step \in -1 .. 2
    BY TypeParts
    DEF FallBack, JudgeRhizome, ReturnToCaller, mspVars, clientVars, flagVars,
        appVars, netVars, Truthful, CodeIsTrue, ControlTypes
<1>2. NoneHeard <=> ~Broadcast /\ call_return # 2
    BY <1>1 DEF NoneHeard
<1>3. Broadcast' <=> Broadcast
    BY <1>1 DEF Broadcast
<1>4. CASE stage' = "cascade" /\ UNCHANGED returned
    <2>1. NoneHeard' <=> NoneHeard
        BY <1>1, <1>2, <1>3, <1>4 DEF NoneHeard
    <2> QED  BY <1>1, <1>4, <2>1, HeardSame, Unseen
<1>5. CASE FallBack
    <2>1. /\ stage = "cascade" /\ call_return # 2 /\ stage' = "enter" /\ UNCHANGED returned
          /\ transport # "rhizome"
        BY <1>1, <1>5 DEF FallBack, Cascade, IssuedSoFar
    <2>2. Broadcast => Silent
        BY <1>1, <2>1
        DEF Truthful, CodeIsTrue, SlotsAreAcked, Stored, FreeSlotsAreEmpty, Silent
    <2>3. HeardFrom = {}
        BY <1>2, <2>1, <2>2, HeardNone
    <2>4. HeardFrom' = {}
        BY <2>1 DEF HeardFrom, NoneHeard
    <2> QED  BY <1>1, <2>1, <2>3, <2>4, Unseen
<1>6. CASE JudgeRhizome /\ stage' = "idle"
    <2>1. returned' = -1 /\ call_return # 2
        <3>1. stage = "judge" /\ call_return <= step /\ returned' = -1
            BY <1>6 DEF JudgeRhizome
        <3>2. step < 2
            BY <3>1 DEF Shape
        <3> QED  BY <1>1, <3>1, <3>2
    <2>2. NoneHeard' <=> NoneHeard
        BY <1>2, <1>3, <1>6, <2>1 DEF NoneHeard
    <2>3. ~Broadcast => HeardFrom = {}
        BY <1>2, <2>1, HeardNone
    <2>4. Truth(-1)
        BY DEF Truth
    <2> QED  BY <1>1, <1>6, <2>1, <2>2, <2>3, <2>4, HeardSame, ReturnMaps
<1>7. CASE ReturnToCaller
    <2>1. /\ stage = "cascade" /\ call_return \notin step .. 1
          /\ stage' = "idle" /\ returned' = call_return
        BY <1>7 DEF ReturnToCaller
    <2>2. call_return = 2
        BY <1>1, <2>1 DEF StepsAscend
    <2>3. ~NoneHeard /\ ~NoneHeard'
        BY <1>2, <2>1, <2>2 DEF NoneHeard
    <2> QED  BY <1>1, <2>1, <2>2, <2>3, HeardSame, ReturnMaps
<1> QED
    BY <1>4, <1>5, <1>6, <1>7 DEF JudgeRhizome

\* The transports return codes that are true.
LEMMA TransportMaps ==
    ASSUME TypeOK, Shape, Truthful, Stored, KeepsContract, KeepsContract',
           MspReturns \/ MdpReturns \/ RhizomeReturns
    PROVE  [Abstract!Next]_(Abstract!rvars)
<1>1. /\ stage \in {"msp", "mdp", "rhizome"}
      /\ UNCHANGED <<server_sid, acked, rpc_result>>
    BY DEF MspReturns, MdpReturns, RhizomeReturns, mspVars, clientVars, callVars, appVars,
           flagVars, netVars
<1>2. SlotsAreAcked
    BY <1>1 DEF Truthful
<1>3. PICK c \in -1 .. 2 : Leave(c) /\ Truth(c) /\ (c # 2 /\ ~Broadcast => Silent)
    BY ReturnedCode
<1> QED  BY <1>1, <1>2, <1>3, LeaveMaps

\* Over MSP the called server is heard; of its answers the last one counts.
LEMMA MspMaps ==
    ASSUME TypeOK, Shape, AnswerIsTheServers, Stored, KeepsContract, KeepsContract',
           MspLoop \/ Handled \/ LinkEnds
    PROVE  [Abstract!Next]_(Abstract!rvars)
<1> USE DEF callVars, flagVars, appVars, clientVars, stageVars, netVars, tvars
<1>1. /\ InCall /\ stage = "msp" /\ stage' = "msp" /\ server_sid \in Servers
      /\ UNCHANGED <<server_sid, returned>>
    BY TypeParts
    DEF ControlTypes, MspLoop, Loop, KeepWaiting, Finish, RoundEnds, Download, Return,
        Handled, MspAck, ReceiveAck, ReceiveAnswer, ReceiveHash, TakePacket, LinkEnds,
        ConnectionEnds, InCall, SocketIsNull
<1>2. ~NoneHeard /\ ~NoneHeard' /\ ~Broadcast
    BY <1>1, ResultsAssumption DEF NoneHeard, Broadcast
<1>3. CASE UNCHANGED <<rpc_result, acked>>
    BY <1>1, <1>2, <1>3, HeardSame, Unseen
<1>4. ASSUME NEW state, MspAck(state)
      PROVE  Abstract!Next
    <2>1. UNCHANGED rpc_result /\ acked' = acked \cup {server_sid}
        BY <1>4 DEF MspAck, ReceiveAck, TakePacket
    <2>2. HeardFrom' = HeardFrom
        BY <1>2, <2>1, HeardSame
    <2>3. Abstract!Accept(server_sid)
        BY <1>1, <2>1, <2>2 DEF Abstract!Accept, Abstract!Hears
    <2> QED  BY <1>1, <2>3 DEF Abstract!Next
<1>5. ASSUME NEW q \in Payload, rpc_result' = StoreSingle(rpc_result, server_sid, q),
             UNCHANGED acked
      PROVE  [Abstract!Next]_(Abstract!rvars)
    <2>1. rpc_result \in Results(Payload) /\ 0 \in Slot /\ q # NoContent
        BY TypeParts, ResultsAssumption, TransparentAssumption DEF ArrayTypes, Slot
    <2>2. /\ rpc_result'[0] = [server_sid |-> server_sid, content |-> q]
          /\ \A i \in Slot : i # 0 => rpc_result'[i] = rpc_result[i]
        BY <1>5, <2>1 DEF StoreSingle, Results
    <2>3. \A i \in Slot : rpc_result[i].content # NoContent =>
              i = 0 /\ rpc_result[i].server_sid = server_sid
        BY <1>1 DEF AnswerIsTheServers
    <2>4. HeardFrom' = {server_sid}
        BY <1>1, <1>2, <2>1, <2>2, <2>3 DEF HeardFrom
    <2>5. HeardFrom \subseteq {server_sid}
        BY <2>3 DEF HeardFrom
    <2>6. CASE HeardFrom = {}
        <3>1. Abstract!Answer(server_sid)
            BY <1>1, <1>2, <1>5, <2>4, <2>6 DEF Abstract!Answer, Abstract!Hears, Broadcast
        <3> QED  BY <1>1, <3>1 DEF Abstract!Next
    <2>7. CASE HeardFrom = {server_sid}
        BY <1>1, <1>5, <2>4, <2>7, Unseen
    <2> QED  BY <2>5, <2>6, <2>7
<1>6. CASE MspLoop
    <2>1. CASE Download
        <3>1. files \in Seq(Payload)
            BY TypeParts DEF FileTypes
        <3>2. FilesOfServer \in SUBSET (1 .. Len(files)) /\ Len(files) \in Nat
            BY <3>1 DEF FilesOfServer
        <3>3. Max(FilesOfServer) \in FilesOfServer
            BY <2>1, <3>2, MaxOfPositions DEF Download
        <3>4. files[Max(FilesOfServer)] \in Payload
            BY <3>1, <3>3 DEF FilesOfServer
        <3> QED  BY <1>5, <1>6, <2>1, <3>4 DEF Download, MspLoop
    <2>2. CASE KeepWaiting \/ Finish \/ RoundEnds
        BY <1>3, <1>6, <2>2
        DEF MspLoop, KeepWaiting, Finish, RoundEnds, Return, SocketIsNull
    <2> QED  BY <1>6, <2>1, <2>2 DEF MspLoop, Loop
<1>7. CASE Handled
    <2>1. ASSUME NEW state, ReceiveAnswer(state), UNCHANGED tvars
          PROVE  [Abstract!Next]_(Abstract!rvars)
        <3>1. <<server_sid, port>> \in Payload
            BY <1>1, Payloads
        <3> QED  BY <1>5, <2>1, <3>1 DEF ReceiveAnswer
    <2>2. ASSUME NEW state, ReceiveHash(state), UNCHANGED tvars
          PROVE  [Abstract!Next]_(Abstract!rvars)
        BY <1>3, <2>2 DEF ReceiveHash
    <2> QED  BY <1>4, <1>7, <2>1, <2>2 DEF Handled
<1>8. CASE LinkEnds
    BY <1>3, <1>8 DEF LinkEnds, ConnectionEnds
<1> QED  BY <1>6, <1>7, <1>8

\* Over MDP and Rhizome an ACK is one, and an answer goes where its ACK has made room,
\* or is the only one.
LEMMA ReceiveMaps ==
    ASSUME TypeOK, Shape, Truthful, Stored, KeepsContract, KeepsContract',
           \/ SendMdp \/ Fetch
           \/ \E s \in Servers : MdpAck(s) \/ MdpAnswer(s) \/ MdpHash(s)
           \/ \E b \in bundles \cup MailedBundles : ReadAck(b) \/ ReadAnswer(b) \/ ReadHash(b)
    PROVE  [Abstract!Next]_(Abstract!rvars)
<1> USE DEF callVars, flagVars, appVars, clientVars, stageVars, mspVars
<1>1. /\ stage \in {"mdp", "rhizome", "fetch"} /\ stage' \in {"mdp", "rhizome", "fetch"}
      /\ UNCHANGED <<server_sid, returned>>
      /\ ~NoneHeard /\ ~NoneHeard'
    <2>1. Receives
        BY ReceiveFrame
    <2>2. transport \in {"mdp", "rhizome"} \/ stage # "fetch"
        BY <2>1, TypeParts DEF Receives, TypeOK, ControlTypes, Transports
    <2>3. /\ stage \in {"mdp", "rhizome", "fetch"} /\ stage' \in {"mdp", "rhizome", "fetch"}
          /\ UNCHANGED <<server_sid, returned>>
        BY <2>1, <2>2 DEF Receives
    <2> QED  BY <2>3 DEF NoneHeard
<1>2. SlotsAreAcked
    BY <1>1 DEF Truthful
<1>3. CASE UNCHANGED <<rpc_result, acked>>
    BY <1>1, <1>3, HeardSame, Unseen
<1>4. ASSUME NEW s \in Servers, NoteAck(s)
      PROVE  Abstract!Next
    <2>1. acked' = acked \cup {s}
        BY <1>4, AckSlots
    <2>2. \A i \in Slot :
             /\ rpc_result'[i].content = rpc_result[i].content
             /\ rpc_result[i].content # NoContent =>
                   rpc_result'[i].server_sid = rpc_result[i].server_sid
        BY <1>4, AckSlots DEF Stored, FreeSlotsAreEmpty
    <2>3. HeardFrom' = HeardFrom
        BY <1>1, <2>2 DEF HeardFrom
    <2>4. Abstract!Accept(s)
        BY <1>1, <2>1, <2>3 DEF Abstract!Accept, Abstract!Hears
    <2> QED  BY <2>4 DEF Abstract!Next
<1>5. ASSUME NEW s, NEW q, Takes(s, q)
      PROVE  Abstract!Next
    <2>1. PICK k \in Slot :
             /\ rpc_result'[k] = [server_sid |-> s, content |-> q]
             /\ \A i \in Slot : i # k => rpc_result'[i] = rpc_result[i]
             /\ Broadcast => rpc_result[k].server_sid = s
        BY <1>5, AnswerSlots DEF Takes
    <2>2. s \in Servers /\ q # NoContent /\ s # SidAny
        BY <1>5, ResultsAssumption, TransparentAssumption DEF Takes
    <2>3. ~Broadcast => Silent /\ HeardFrom = {}
        BY <1>5, HeardNone DEF Takes
    <2>4. HeardFrom' = HeardFrom \cup {s}
        <3>1. s \in HeardFrom'
            BY <1>1, <2>1, <2>2 DEF HeardFrom
        <3>2. CASE Broadcast
            BY <1>1, <2>1, <2>2, <3>1, <3>2 DEF HeardFrom
        <3>3. CASE ~Broadcast
            BY <1>1, <2>1, <2>2, <2>3, <3>1, <3>3 DEF HeardFrom, Silent
        <3> QED  BY <3>2, <3>3
    <2>5. Broadcast => s \in acked
        BY <1>2, <2>1, <2>2 DEF SlotsAreAcked
    <2>6. Abstract!Answer(s)
        BY <1>1, <1>5, <2>3, <2>4, <2>5 DEF Takes, Abstract!Answer, Abstract!Hears, Broadcast
    <2> QED  BY <2>2, <2>6 DEF Abstract!Next
<1>6. CASE SendMdp
    BY <1>3, <1>6 DEF SendMdp
<1>7. ASSUME NEW s \in Servers, MdpAck(s) \/ MdpHash(s)
      PROVE  [Abstract!Next]_(Abstract!rvars)
    BY <1>3, <1>4, <1>7 DEF MdpAck, MdpHash
<1>8. ASSUME NEW b \in bundles \cup MailedBundles, ReadAck(b) \/ ReadHash(b)
      PROVE  [Abstract!Next]_(Abstract!rvars)
    <2>1. b.server \in Servers
        BY Payloads
    <2> QED  BY <1>3, <1>4, <1>8, <2>1 DEF ReadAck, ReadHash
<1>9. CASE \/ Fetch
           \/ \E s \in Servers : MdpAnswer(s)
           \/ \E b \in bundles \cup MailedBundles : ReadAnswer(b)
    BY <1>5, <1>9, AnswerTaken
<1> QED  BY <1>6, <1>7, <1>8, <1>9

\* Every step is a step of RpcCall, or none: a call that keeps the contract goes through
\* it, and one that does not is refused.
LEMMA ContractStep ==
    ASSUME TypeOK, Shape, Cascade, Truthful, AnswerIsTheServers, Stored, [Next]_vars
    PROVE  [Abstract!Next]_(Abstract!rvars)
<1>1. ASSUME NEW sid \in Sid, Call(sid) \/ \E t \in Direct : CallDirectly(sid, t)
      PROVE  Abstract!Next
    <2>1. /\ stage = "idle" /\ stage' = "enter" /\ server_sid' = sid
          /\ acked' = {} /\ returned' = NoCode
          /\ sid \in Servers \cup {SidAny, SidBroadcast}
        BY <1>1 DEF Call, CallDirectly, Begin, Sid
    <2>2. HeardFrom' = {}
        BY <2>1 DEF HeardFrom, NoneHeard
    <2>3. CASE KeepsContract'
        <3>1. Abstract!Begin(sid)
            BY <2>1, <2>2, <2>3 DEF Abstract!Begin, NoCode, Abstract!NoCode
        <3> QED  BY <2>1, <3>1 DEF Abstract!Next, Abstract!Dest
    <2>4. CASE ~KeepsContract'
        <3>1. Abstract!Refuse
            BY <2>1, <2>2, <2>4 DEF Abstract!Refuse, Abstract!Dest
        <3> QED  BY <3>1 DEF Abstract!Next
    <2> QED  BY <2>3, <2>4
<1>2. CASE ~ \E sid \in Sid : Call(sid) \/ \E t \in Direct : CallDirectly(sid, t)
    <2>1. (KeepsContract' <=> KeepsContract) /\ server_sid' = server_sid
        BY <1>2, ContractStays
    <2>2. CASE ~KeepsContract
        BY <2>1, <2>2 DEF Abstract!rvars
    <2>3. CASE KeepsContract
        <3>1. CASE \/ \E s \in Servers : Server(s)
                   \/ FileArrives /\ UNCHANGED tvars
                   \/ UNCHANGED vars
            <4>1. UNCHANGED <<rpc_result, server_sid, stage, returned, call_return, acked>>
                BY <3>1, ServerFrame
                DEF flagVars, appVars, clientVars, mspVars, stageVars, vars, tvars, netVars
            <4>2. NoneHeard' <=> NoneHeard
                BY <4>1 DEF NoneHeard, Broadcast
            <4> QED  BY <2>1, <2>3, <4>1, <4>2, HeardSame, Unseen
        <3> QED
            BY <1>2, <2>1, <2>3, <3>1, EntryMaps, IfsMaps, TransportMaps, MspMaps, ReceiveMaps
            DEF Next, Control
    <2> QED  BY <2>2, <2>3
<1> QED  BY <1>1, <1>2

\* A call through rpc_client_call, over whatever transports it takes, and a call of one
\* transport that does not find the flag of an earlier call, does what RpcCall says of a
\* call: nothing that MSP or MDP has heard is lost or told twice when Rhizome is tried,
\* and what the application is told is what has been heard.
THEOREM CallIsRpcCall == Spec => ImplementsRpcCall
<1>1. Init => Abstract!Init
    <2> SUFFICES ASSUME Init
                 PROVE  Abstract!Init
        OBVIOUS
    <2>1. HeardFrom = {}
        BY DEF Init, MspInit, HeardFrom, ClearedResults
    <2>2. KeepsContract /\ stage = "idle" /\ server_sid = SidAny /\ acked = {}
          /\ returned = -2
        BY DEF Init, MspInit, KeepsContract, NoCode
    <2> QED  BY <2>1, <2>2 DEF Abstract!Init, Abstract!NoCode
<1>2. TypeOK /\ Shape /\ Cascade /\ Truthful /\ AnswerIsTheServers /\ Stored /\ [Next]_vars
          => [Abstract!Next]_(Abstract!rvars)
    BY ContractStep
<1> QED
    BY <1>1, <1>2, TypesAlways, CascadeAlways, TruthAlways, StoredAlways, AnswersOfTheServer, PTL
    DEF Spec, ImplementsRpcCall, Abstract!Spec

=============================================================================
