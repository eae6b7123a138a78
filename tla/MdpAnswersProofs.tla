--------------------------- MODULE MdpAnswersProofs ---------------------------
(***************************************************************************)
(* What a call over MDP tells its caller, for any number of servers, slots *)
(* and calls: the answers in the array are owned and real, the codes are   *)
(* true, and a call whose flag starts at 0 is a call as RpcCall describes  *)
(* it.  The invariant says where the packets in flight come from, whose    *)
(* the slots are, and what the flag means while the call is open.          *)
(*                                                                         *)
(* Then, how long a call may last and when its array is overrun.  Both     *)
(* follow from counting the ACKs the call has received: a server           *)
(* acknowledges each copy of the call once, so the pairs of a server and a *)
(* send that are used up are as many as the ACKs received, and there are   *)
(* no more of them than servers times sends.                               *)
(***************************************************************************)
EXTENDS MdpCallProofs, FiniteSetTheorems

\* A call is open with a socket of its own and without a code; the calls to come
\* have not been sent.
Opened ==
    /\ pc # "idle" => code = NoCode
    /\ pc = "idle" => \A s \in Servers : acks[s] = 0 /\ answers[s] = 0
    /\ \A p \in Port : p > port => sent[p] = 0

\* A free slot is empty, and an answer stands beside its server.
Owned ==
    \A i \in Slot :
        LET sid == rpc_result[i].server_sid
            content == rpc_result[i].content
        IN  /\ sid = SidAny => content = NoContent
            /\ content # NoContent /\ sid \notin FileServers =>
                  content[1] = sid /\ (code # -1 => content[2] = port)

\* What the client hears of, a server has done for this call.
Sources ==
    pc # "idle" =>
        /\ \A s \in Servers : acks[s] > 0 => sent[port] > 0
        /\ \A s \in Servers : answers[s] > 0 => executed[s][port] > 0
        /\ pc = "download" => executed[awaited][port] > 0

\* A call to one server is heard by that server alone.
Addressed ==
    pc # "idle" /\ server_sid \in Servers =>
        /\ \A s \in Servers \ {server_sid} :
              calls[s][port] = 0 /\ serving[s] # port /\ acks[s] = 0 /\ answers[s] = 0
        /\ pc = "download" => awaited = server_sid

\* The slots of an "all" call belong to servers that have acknowledged it, and a
\* file is awaited from one of them.
SlotsAreAcked ==
    pc # "idle" /\ Broadcast =>
        /\ \A i \in Slot : rpc_result[i].server_sid \in acked \cup {SidAny}
        /\ acked # {} => rpc_result[0].server_sid # SidAny
        /\ pc = "download" => HasPlace(awaited)

\* What the flag of an open call means if it started at 0.
FlagIsTrue ==
    ResetsReceived /\ pc # "idle" =>
        /\ received = 0 => acked = {}
        /\ received = 1 => acked # {}
        /\ received = 2 => IF Broadcast THEN acked # {} ELSE rpc_result[0].content # NoContent

Truthful ==
    /\ Opened /\ Owned /\ Sources /\ Addressed /\ SlotsAreAcked /\ FlagIsTrue
    /\ AnswersAreReal /\ CodesTellTheTruth

\* What MdpCallProofs has shown, and what holds here.
Known == TypeOK /\ Unanswered /\ SlotsInOrder /\ CallsConserved /\ Truthful

-----------------------------------------------------------------------------
(* Beginning and end of a call                                              *)

\* The call that begins has not been sent, let alone heard of.
LEMMA StartTruth ==
    ASSUME Known, NEW sid \in Destinations, StartCall(sid)
    PROVE  Truthful'
<1> USE DEF Known, netVars, serverVars
<1>0. /\ port' = port + 1 /\ port' \in Port /\ port \in Int /\ port' > port
      /\ pc = "idle" /\ pc' = "loop" /\ code' = NoCode /\ acked' = {}
      /\ received' = EntryFlag /\ rpc_result' = ClearedResults
      /\ server_sid' = sid
      /\ UNCHANGED <<sent, calls, acks, answers, serving, executed>>
    BY MdpAssumption DEF TypeOK, ClientTypes, StartCall, Port
<1>1. /\ sent[port'] = 0
      /\ \A s \in Servers : calls[s][port'] = 0 /\ serving[s] # port'
      /\ \A s \in Servers : acks[s] = 0 /\ answers[s] = 0
    <2>1. sent[port'] = 0
        BY <1>0 DEF Truthful, Opened
    <2>2. ASSUME NEW s \in Servers
          PROVE  calls[s][port'] = 0 /\ serving[s] # port'
        <3>1. calls[s][port'] + executed[s][port'] + (IF serving[s] = port' THEN 1 ELSE 0) <= 0
            BY <1>0, <2>1 DEF CallsConserved
        <3>2. calls[s][port'] \in Nat /\ executed[s][port'] \in Nat
            BY <1>0 DEF TypeOK, NetTypes, ServerTypes
        <3> QED  BY <3>1, <3>2
    <2> QED  BY <1>0, <2>1, <2>2 DEF Truthful, Opened
<1>2. \A i \in Slot : rpc_result'[i] = [server_sid |-> SidAny, content |-> NoContent]
    BY <1>0 DEF ClearedResults
<1>3. Opened' /\ Owned'
    BY <1>0, <1>2 DEF Truthful, Opened, Owned, NoCode, Port
<1>4. Sources' /\ Addressed' /\ AnswersAreReal'
    BY <1>0, <1>1, <1>2 DEF Sources, Addressed, AnswersAreReal
<1>5. SlotsAreAcked' /\ FlagIsTrue' /\ CodesTellTheTruth'
    BY <1>0, <1>2
    DEF SlotsAreAcked, FlagIsTrue, CodesTellTheTruth, EntryFlag, NoCode
<1> QED  BY <1>3, <1>4, <1>5 DEF Truthful

\* A call that is refused leaves no more than the array.
LEMMA RefuseTruth ==
    ASSUME Known, NEW sid \in Destinations, RefuseCall(sid)
    PROVE  Truthful'
<1> USE DEF Known, netVars, serverVars
<1>0. /\ port' = port + 1 /\ port \in Int
      /\ pc = "idle" /\ pc' = pc /\ code' = -1 /\ acked' = {}
      /\ rpc_result' = ClearedResults \/ rpc_result' = rpc_result
      /\ UNCHANGED <<sent, acks, answers>>
    BY DEF TypeOK, ClientTypes, RefuseCall, Port
<1>1. Opened'
    BY <1>0 DEF Truthful, Opened, Port
<1>2. Owned'
    <2>1. CASE rpc_result' = ClearedResults
        BY <2>1 DEF ClearedResults, Owned
    <2>2. CASE rpc_result' = rpc_result
        BY <1>0, <2>2 DEF Truthful, Owned
    <2> QED  BY <1>0, <2>1, <2>2
<1>3. Sources' /\ Addressed' /\ AnswersAreReal' /\ SlotsAreAcked' /\ FlagIsTrue'
    BY <1>0 DEF Sources, Addressed, AnswersAreReal, SlotsAreAcked, FlagIsTrue
<1>4. CodesTellTheTruth'
    BY <1>0 DEF CodesTellTheTruth
<1> QED  BY <1>1, <1>2, <1>3, <1>4 DEF Truthful

\* What an "all" call is content with, and that a call with nothing has an empty array.
LEMMA CollectedMeans ==
    ASSUME Known, pc # "idle"
    PROVE  /\ Collected => Broadcast /\ acked # {}
           /\ Broadcast /\ ~Collected => acked = {} /\ rpc_result = ClearedResults
<1>0. rpc_result \in Results(Payload) /\ 0 \in Slot /\ \A i \in Slot : i # 0 => 0 < i
    BY ResultsAssumption DEF Known, TypeOK, ClientTypes, Slot
<1> DEFINE k == rpc_client_result_get_insert_index(rpc_result)
<1>1. /\ k \in 0 .. MaxResults
      /\ k \in Slot => rpc_result[k].server_sid = SidAny
      /\ \A j \in Slot : j < k => rpc_result[j].server_sid # SidAny
    BY <1>0, InsertIndex
<1>2. Collected <=> Broadcast /\ k > 0
    BY DEF Collected
<1> HIDE DEF k
<1>3. ASSUME Broadcast, k > 0
      PROVE  acked # {}
    <2>1. rpc_result[0].server_sid # SidAny
        BY <1>0, <1>1, <1>3
    <2> QED  BY <1>0, <1>3, <2>1 DEF Known, Truthful, SlotsAreAcked
<1>4. ASSUME Broadcast, ~ (k > 0)
      PROVE  acked = {} /\ rpc_result = ClearedResults
    <2>1. rpc_result[0].server_sid = SidAny
        BY <1>0, <1>1, <1>4
    <2>2. \A i \in Slot : rpc_result[i].server_sid = SidAny
        BY <1>0, <2>1 DEF Known, SlotsInOrder, TakenFirst
    <2>3. \A i \in Slot : rpc_result[i] = [server_sid |-> SidAny, content |-> NoContent]
        BY <1>0, <2>2 DEF Known, Truthful, Owned, Results
    <2>4. rpc_result = ClearedResults
        BY <1>0, <2>3 DEF ClearedResults, Results
    <2> QED  BY <1>4, <2>1, <2>4 DEF Known, Truthful, SlotsAreAcked
<1> QED  BY <1>2, <1>3, <1>4

\* A code that is returned is true when it is returned.
LEMMA EndMeans ==
    ASSUME Known, Finish \/ GiveUp \/ AbortCall
    PROVE  \E c \in {-1, 0, 1, 2} :
              /\ pc # "idle"
              /\ Return(c)
              /\ c = -1 => rpc_result = ClearedResults \/ Broadcast
              /\ ResetsReceived =>
                    /\ c = 2 => IF Broadcast THEN acked # {}
                                             ELSE rpc_result[0].content # NoContent
                    /\ c = 1 => ~Broadcast /\ acked # {} /\ rpc_result = ClearedResults
                    /\ c = 0 => acked = {} /\ rpc_result = ClearedResults
<1>0. received \in 0 .. 2
    BY DEF Known, TypeOK, ClientTypes
<1>1. pc # "idle"
    BY DEF Finish, GiveUp, AbortCall
<1>2. FlagIsTrue /\ (received # 2 /\ ~Broadcast => rpc_result = ClearedResults)
    BY <1>1 DEF Known, Truthful, Unanswered
<1>3. CASE Finish
    <2>1. received = 2 /\ Return(2)
        BY <1>0, <1>3 DEF Finish
    <2> QED  BY <1>1, <1>2, <2>1 DEF FlagIsTrue
<1>4. CASE GiveUp
    <2>1. received \in {0, 1} /\ Return(IF Collected THEN 2 ELSE received)
        BY <1>4 DEF GiveUp
    <2>2. CASE Collected
        BY <1>1, <2>1, <2>2, CollectedMeans
    <2>3. CASE ~Collected
        <3>1. /\ ResetsReceived /\ received = 1 => ~Broadcast /\ acked # {} /\ rpc_result = ClearedResults
              /\ ResetsReceived /\ received = 0 => acked = {} /\ rpc_result = ClearedResults
            BY <1>1, <1>2, <2>1, <2>3, CollectedMeans DEF FlagIsTrue
        <3>2. Return(received)
            BY <2>1, <2>3
        <3> QED  BY <1>1, <2>1, <3>1, <3>2
    <2> QED  BY <2>2, <2>3
<1>5. CASE AbortCall
    BY <1>1, <1>2, <1>5 DEF AbortCall
<1> QED  BY <1>3, <1>4, <1>5

\* The end of a call keeps the invariant.
LEMMA EndTruth ==
    ASSUME Known, Finish \/ GiveUp \/ AbortCall
    PROVE  Truthful'
<1>1. PICK c \in {-1, 0, 1, 2} :
         /\ pc # "idle"
         /\ Return(c)
         /\ c = -1 => rpc_result = ClearedResults \/ Broadcast
         /\ ResetsReceived =>
               /\ c = 2 => IF Broadcast THEN acked # {} ELSE rpc_result[0].content # NoContent
               /\ c = 1 => ~Broadcast /\ acked # {} /\ rpc_result = ClearedResults
               /\ c = 0 => acked = {} /\ rpc_result = ClearedResults
    BY EndMeans
<1>2. /\ pc' = "idle" /\ code' = c
      /\ acks' = [s \in Servers |-> 0] /\ answers' = [s \in Servers |-> 0]
      /\ UNCHANGED <<server_sid, rpc_result, port, acked, sent>>
    BY <1>1 DEF Return
<1>3. Opened'
    BY <1>2 DEF Known, Truthful, Opened
<1>4. Owned'
    BY <1>1, <1>2 DEF Known, Truthful, Opened, Owned, NoCode
<1>5. Sources' /\ Addressed' /\ AnswersAreReal' /\ SlotsAreAcked' /\ FlagIsTrue'
    BY <1>2 DEF Sources, Addressed, AnswersAreReal, SlotsAreAcked, FlagIsTrue
<1>6. CodesTellTheTruth'
    BY <1>1, <1>2 DEF CodesTellTheTruth, Broadcast
<1> QED  BY <1>3, <1>4, <1>5, <1>6 DEF Truthful

-----------------------------------------------------------------------------
(* The steps of an open call                                                *)

\* Packets that are taken off the socket, and copies that are sent, change
\* nothing of where the others come from.
LEMMA InFlight ==
    ASSUME Known,
           \/ SendCall \/ AwaitAnswer \/ PollTimeout \/ Download
           \/ \E s \in Servers : ReceiveError(s) \/ ReceiveAck(s) \/ SkipAnswer(s)
                                 \/ ReceiveAnswer(s) \/ ReceiveHash(s)
    PROVE  /\ pc # "idle" /\ pc' # "idle" /\ port \in Port
           /\ UNCHANGED <<server_sid, code, port, serving, executed>>
           /\ \A s \in Servers : /\ acks'[s] > 0 => acks[s] > 0
                                 /\ answers'[s] > 0 => answers[s] > 0
           /\ acks' \in [Servers -> Nat] /\ answers' \in [Servers -> Nat]
           /\ \A p \in Port : p > port => sent'[p] = sent[p]
           /\ sent[port] > 0 => sent'[port] > 0
           /\ \A s \in Servers :
                 s \notin Recipients => calls'[s][port] = calls[s][port]
<1> USE DEF Known, netVars, serverVars
<1>0. /\ sent \in [Port -> 0 .. MaxSends] /\ MaxSends \in Nat
      /\ acks \in [Servers -> Nat] /\ answers \in [Servers -> Nat]
      /\ calls \in [Servers -> [Port -> Nat]]
      /\ pc # "idle" => port \in Port
      /\ port \in Int /\ Port \subseteq Int
    <2>1. ClientTypes /\ NetTypes
        BY DEF TypeOK
    <2>2. Port \subseteq Int /\ MaxSends \in Nat /\ MaxCalls \in Nat
        BY MdpAssumption DEF Port
    <2>3. /\ sent \in [Port -> 0 .. MaxSends]
          /\ pc # "idle" => port \in Port
          /\ port \in Int
        BY <2>1, <2>2 DEF ClientTypes
    <2> QED  BY <2>1, <2>2, <2>3 DEF NetTypes
<1>1. CASE SendCall
    <2>1. /\ pc # "idle" /\ pc' # "idle"
          /\ UNCHANGED <<server_sid, code, port, acks, answers, serving, executed>>
          /\ \/ UNCHANGED <<sent, calls>>
             \/ /\ sent' = [sent EXCEPT ![port] = @ + 1]
                /\ calls' = [s \in Servers |->
                               IF s \in Recipients THEN [calls[s] EXCEPT ![port] = @ + 1]
                                                   ELSE calls[s]]
        BY <1>1 DEF SendCall
    <2> QED  BY <1>0, <2>1
<1>2. CASE AwaitAnswer \/ PollTimeout \/ Download
    BY <1>0, <1>2 DEF AwaitAnswer, PollTimeout, Download
<1>3. ASSUME NEW s \in Servers,
             ReceiveError(s) \/ ReceiveAck(s) \/ SkipAnswer(s) \/ ReceiveAnswer(s)
             \/ ReceiveHash(s)
      PROVE  /\ pc # "idle" /\ pc' # "idle"
             /\ UNCHANGED <<server_sid, code, port, serving, executed, sent, calls>>
             /\ \/ acks[s] > 0 /\ acks' = [acks EXCEPT ![s] = @ - 1] /\ answers' = answers
                \/ answers[s] > 0 /\ answers' = [answers EXCEPT ![s] = @ - 1] /\ acks' = acks
    BY <1>3 DEF ReceiveError, ReceiveAck, SkipAnswer, ReceiveAnswer, ReceiveHash, TakeAck,
       TakeAnswer
<1>4. ASSUME NEW s \in Servers,
             ReceiveError(s) \/ ReceiveAck(s) \/ SkipAnswer(s) \/ ReceiveAnswer(s)
             \/ ReceiveHash(s)
      PROVE  /\ \A r \in Servers : /\ acks'[r] > 0 => acks[r] > 0
                                   /\ answers'[r] > 0 => answers[r] > 0
             /\ acks' \in [Servers -> Nat] /\ answers' \in [Servers -> Nat]
    <2>1. CASE acks[s] > 0 /\ acks' = [acks EXCEPT ![s] = @ - 1] /\ answers' = answers
        <3>1. acks[s] - 1 \in Nat
            BY <1>0, <2>1
        <3> QED  BY <1>0, <2>1, <3>1
    <2>2. CASE answers[s] > 0 /\ answers' = [answers EXCEPT ![s] = @ - 1] /\ acks' = acks
        <3>1. answers[s] - 1 \in Nat
            BY <1>0, <2>2
        <3> QED  BY <1>0, <2>2, <3>1
    <2> QED  BY <1>3, <1>4, <2>1, <2>2
<1> QED  BY <1>0, <1>1, <1>2, <1>3, <1>4

\* The parts of the invariant about packets and about the opening of the call.
LEMMA InFlightTruth ==
    ASSUME Known,
           \/ SendCall \/ AwaitAnswer \/ PollTimeout \/ Download
           \/ \E s \in Servers : ReceiveError(s) \/ ReceiveAck(s) \/ SkipAnswer(s)
                                 \/ ReceiveAnswer(s) \/ ReceiveHash(s),
           pc' = "download" => /\ awaited' \in Servers
                               /\ answers[awaited'] > 0
    PROVE  Opened' /\ Sources' /\ Addressed' /\ CodesTellTheTruth'
<1> USE DEF Known
<1>0. /\ pc # "idle" /\ pc' # "idle" /\ port \in Port
      /\ UNCHANGED <<server_sid, code, port, serving, executed>>
      /\ \A s \in Servers : /\ acks'[s] > 0 => acks[s] > 0
                            /\ answers'[s] > 0 => answers[s] > 0
      /\ acks' \in [Servers -> Nat] /\ answers' \in [Servers -> Nat]
      /\ \A p \in Port : p > port => sent'[p] = sent[p]
      /\ sent[port] > 0 => sent'[port] > 0
      /\ \A s \in Servers : s \notin Recipients => calls'[s][port] = calls[s][port]
    BY InFlight
<1>1. Opened'
    BY <1>0 DEF Truthful, Opened
<1>2. Sources'
    BY <1>0 DEF Truthful, Sources
<1>3. Addressed'
    <2> SUFFICES ASSUME server_sid \in Servers
                 PROVE  Addressed'
        BY <1>0 DEF Addressed
    <2>1. ASSUME NEW s \in Servers \ {server_sid}
          PROVE  /\ calls'[s][port] = 0 /\ serving[s] # port /\ acks'[s] = 0 /\ answers'[s] = 0
                 /\ answers[s] = 0
        <3>1. calls[s][port] = 0 /\ serving[s] # port /\ acks[s] = 0 /\ answers[s] = 0
            BY <1>0 DEF Truthful, Addressed
        <3>2. s \notin Recipients
            BY DEF Recipients
        <3> QED  BY <1>0, <3>1, <3>2
    <2> QED  BY <1>0, <2>1 DEF Addressed
<1>4. CodesTellTheTruth'
    BY <1>0 DEF Truthful, Opened, CodesTellTheTruth, NoCode
<1> QED  BY <1>1, <1>2, <1>3, <1>4

\* Steps that tell the caller nothing.
LEMMA QuietTruth ==
    ASSUME Known,
           \/ SendCall \/ AwaitAnswer \/ PollTimeout
           \/ \E s \in Servers : ReceiveError(s) \/ SkipAnswer(s) \/ ReceiveHash(s)
    PROVE  Truthful'
<1>1. /\ UNCHANGED <<received, rpc_result, acked, server_sid, port, code, executed>>
      /\ pc # "idle" /\ pc' # "idle"
      /\ sent[port] > 0 => sent'[port] > 0
    BY InFlight DEF SendCall, AwaitAnswer, PollTimeout, ReceiveError, SkipAnswer, ReceiveHash
<1>2. pc' = "download" =>
         awaited' \in Servers /\ answers[awaited'] > 0 /\ HasPlace(awaited')
    BY DEF SendCall, AwaitAnswer, PollTimeout, ReceiveError, SkipAnswer, ReceiveHash,
       TakeAnswer
<1>3. Opened' /\ Sources' /\ Addressed' /\ CodesTellTheTruth'
    BY <1>2, InFlightTruth
<1>4. Owned' /\ AnswersAreReal' /\ FlagIsTrue'
    BY <1>1 DEF Known, Truthful, Owned, AnswersAreReal, FlagIsTrue, Broadcast
<1>5. SlotsAreAcked'
    BY <1>1, <1>2 DEF Known, Truthful, SlotsAreAcked, HasPlace, Broadcast
<1> QED  BY <1>3, <1>4, <1>5 DEF Truthful

\* A second of waiting for a file changes nothing the invariant is about.
LEMMA AwaitTruth ==
    ASSUME Known, AwaitFile
    PROVE  Truthful'
<1>1. UNCHANGED <<pc, server_sid, received, rpc_result, code, awaited, port, acked, sent,
                  calls, acks, answers, serving, executed>>
    BY DEF AwaitFile, netVars, serverVars
<1> QED  BY <1>1
         DEF Known, Truthful, Opened, Owned, Sources, Addressed, SlotsAreAcked, FlagIsTrue,
             AnswersAreReal, CodesTellTheTruth, Broadcast, HasPlace

\* An ACK is noted, and for an "all" call takes the first free slot.
LEMMA AckTruth ==
    ASSUME Known, NEW s \in Servers, ReceiveAck(s)
    PROVE  Truthful'
<1>0. /\ rpc_result \in Results(Payload) /\ 0 \in Slot
      /\ s # SidAny /\ SidBroadcast \notin Servers \cup {SidAny}
    BY ResultsAssumption DEF Known, TypeOK, ClientTypes, Slot
<1>1. /\ received' = 1 /\ acked' = acked \cup {s} /\ acks[s] > 0
      /\ pc = "poll" /\ pc' = "loop"
      /\ UNCHANGED <<server_sid, port, code, executed, sent>>
      /\ rpc_result' = IF ReservesSlot(rpc_result, server_sid) THEN Reserve(rpc_result, s)
                                                               ELSE rpc_result
    BY DEF ReceiveAck, TakeAck, serverVars
<1>2. Opened' /\ Sources' /\ Addressed' /\ CodesTellTheTruth'
    BY <1>1, InFlightTruth
<1> DEFINE k == rpc_client_result_get_insert_index(rpc_result)
<1>3. /\ k \in 0 .. MaxResults
      /\ k \in Slot => rpc_result[k].server_sid = SidAny
      /\ \A j \in Slot : j < k => rpc_result[j].server_sid # SidAny
    BY <1>0, InsertIndex
<1>4. Broadcast => \A i \in Slot : rpc_result'[i] =
          IF i = k THEN [rpc_result[i] EXCEPT !.server_sid = s] ELSE rpc_result[i]
    <2>1. \A i \in Slot : rpc_result[i].server_sid # SidBroadcast
        BY <1>0 DEF Results
    <2>2. _rpc_client_result_get_sid_index(rpc_result, SidBroadcast) = -1
        BY <1>0, <2>1, SidIndex
    <2> QED  BY <1>1, <2>2 DEF ReservesSlot, Reserve, Broadcast
<1>5. ~Broadcast => rpc_result' = rpc_result
    BY <1>1 DEF ReservesSlot, Broadcast
<1> HIDE DEF k
<1>6. \A i \in Slot :
         /\ rpc_result'[i].content = rpc_result[i].content
         /\ rpc_result'[i].server_sid \in {s, rpc_result[i].server_sid}
         /\ rpc_result[i].server_sid # SidAny =>
               rpc_result'[i].server_sid = rpc_result[i].server_sid
    BY <1>0, <1>3, <1>4, <1>5 DEF Results
<1>7. Owned'
    BY <1>0, <1>1, <1>6 DEF Known, Truthful, Owned
<1>8. AnswersAreReal'
    <2>1. sent[port] > 0
        BY <1>1 DEF Known, Truthful, Sources
    <2>2. \A i \in Slot : rpc_result'[i].content # NoContent =>
              executed[rpc_result'[i].server_sid][port] > 0
        BY <1>1, <1>6 DEF Known, Truthful, Owned, AnswersAreReal
    <2> QED  BY <1>1, <2>1, <2>2 DEF AnswersAreReal
<1>9. SlotsAreAcked'
    <2> SUFFICES ASSUME Broadcast
                 PROVE  SlotsAreAcked'
        BY <1>1 DEF SlotsAreAcked, Broadcast
    <2>1. rpc_result'[0].server_sid # SidAny
        <3>1. CASE k = 0
            BY <1>0, <1>4, <3>1 DEF Results
        <3>2. CASE k # 0
            <4>1. rpc_result[0].server_sid # SidAny
                BY <1>0, <1>3, <3>2
            <4> QED  BY <1>0, <1>6, <4>1
        <3> QED  BY <3>1, <3>2
    <2>2. \A i \in Slot : rpc_result[i].server_sid \in acked \cup {SidAny}
        BY <1>1 DEF Known, Truthful, SlotsAreAcked
    <2> QED  BY <1>1, <1>6, <2>1, <2>2 DEF SlotsAreAcked
<1>10. FlagIsTrue'
    BY <1>1 DEF FlagIsTrue
<1> QED  BY <1>2, <1>7, <1>8, <1>9, <1>10 DEF Truthful

\* What an answer does to the array: it appears beside its server, which has a slot
\* already if the call went to all; nothing else changes but that slot 0 of another
\* call is taken.
LEMMA Stored ==
    ASSUME Known, pc \in {"poll", "download"}, NEW s \in Servers, NEW q \in Payload,
           HasPlace(s), StoreAnswer(s, q)
    PROVE  \E k \in Slot :
              /\ rpc_result'[k] = [server_sid |-> s, content |-> q]
              /\ \A i \in Slot : i # k => rpc_result'[i] = rpc_result[i]
              /\ Broadcast => rpc_result[k].server_sid = s /\ received' \in {2, received}
              /\ ~Broadcast => k = 0 /\ received' = 2 /\ rpc_result = ClearedResults
<1>0. rpc_result \in Results(Payload) /\ 0 \in Slot
    BY ResultsAssumption DEF Known, TypeOK, ClientTypes, Slot
<1>1. CASE Broadcast
    <2> DEFINE k == _rpc_client_result_get_sid_index(rpc_result, s)
    <2>1. k \in Slot /\ rpc_result[k].server_sid = s
        BY <1>0, <1>1, SidIndex DEF HasPlace
    <2>2. /\ rpc_result' = StoreReserved(rpc_result, k, q)
          /\ received' \in {2, received}
        BY <1>1 DEF StoreAnswer
    <2> HIDE DEF k
    <2>3. /\ \A i \in Slot : i # k => rpc_result'[i] = rpc_result[i]
          /\ rpc_result'[k] = [rpc_result[k] EXCEPT !.content = q]
        BY <1>0, <2>1, <2>2 DEF StoreReserved, Results
    <2>4. rpc_result'[k] = [server_sid |-> s, content |-> q]
        BY <1>0, <2>1, <2>3 DEF Results
    <2> QED  BY <1>1, <2>1, <2>2, <2>3, <2>4
<1>2. CASE ~Broadcast
    <2>1. rpc_result' = StoreSingle(rpc_result, s, q) /\ received' = 2
        BY <1>2 DEF StoreAnswer
    <2>2. rpc_result = ClearedResults
        BY <1>2 DEF Known, Unanswered
    <2> QED  BY <1>0, <1>2, <2>1, <2>2 DEF StoreSingle, Results
<1> QED  BY <1>1, <1>2

\* An answer, or the file that was awaited.
LEMMA StoreStep ==
    ASSUME Known, Download \/ \E s \in Servers : ReceiveAnswer(s)
    PROVE  \E s \in Servers, q \in Payload :
              /\ pc \in {"poll", "download"} /\ pc' = "loop"
              /\ HasPlace(s) /\ StoreAnswer(s, q)
              /\ q # NoContent
              /\ s \notin FileServers => q = <<s, port>>
              /\ executed[s][port] > 0
              /\ server_sid \in Servers => s = server_sid
              /\ UNCHANGED <<server_sid, port, code, acked, executed>>
<1>1. ASSUME NEW s \in Servers, ReceiveAnswer(s)
      PROVE  /\ pc = "poll" /\ pc' = "loop" /\ s \notin FileServers
             /\ HasPlace(s) /\ StoreAnswer(s, <<s, port>>) /\ <<s, port>> \in Payload
             /\ executed[s][port] > 0
             /\ server_sid \in Servers => s = server_sid
             /\ UNCHANGED <<server_sid, port, code, acked, executed>>
    <2>1. /\ pc = "poll" /\ pc' = "loop" /\ answers[s] > 0 /\ s \notin FileServers
          /\ HasPlace(s) /\ StoreAnswer(s, <<s, port>>)
          /\ UNCHANGED <<server_sid, port, code, acked, executed>>
        BY <1>1 DEF ReceiveAnswer, TakeAnswer, serverVars
    <2>2. port \in Port
        BY <2>1 DEF Known, TypeOK, ClientTypes
    <2>3. executed[s][port] > 0 /\ (server_sid \in Servers => s = server_sid)
        BY <2>1 DEF Known, Truthful, Sources, Addressed
    <2> QED  BY <2>1, <2>2, <2>3 DEF Payload
<1>2. CASE Download
    <2>1. /\ pc = "download" /\ pc' = "loop"
          /\ StoreAnswer(awaited, files[Len(files)]) /\ files # <<>>
          /\ UNCHANGED <<server_sid, port, code, acked, executed>>
        BY <1>2 DEF Download, netVars, serverVars
    <2>2. awaited \in Servers /\ awaited \in FileServers
        BY <2>1 DEF Known, TypeOK, ClientTypes, Unanswered
    <2>3. files[Len(files)] \in Payload
        BY <2>1, MdpAssumption DEF Known, TypeOK, ServerTypes, Payload
    <2>4. /\ executed[awaited][port] > 0
          /\ server_sid \in Servers => awaited = server_sid
          /\ HasPlace(awaited)
        BY <2>1 DEF Known, Truthful, Sources, Addressed, SlotsAreAcked, HasPlace
    <2> QED  BY <2>1, <2>2, <2>3, <2>4, MdpAssumption DEF Payload, Port
<1>3. \A q \in Payload : q # NoContent
    BY MdpAssumption DEF Payload, Port
<1> QED  BY <1>1, <1>2, <1>3

\* An answer that is stored keeps the invariant.
LEMMA StoreTruth ==
    ASSUME Known, Download \/ \E s \in Servers : ReceiveAnswer(s)
    PROVE  Truthful'
<1>1. PICK s \in Servers, q \in Payload :
         /\ pc \in {"poll", "download"} /\ pc' = "loop"
         /\ HasPlace(s) /\ StoreAnswer(s, q)
         /\ q # NoContent
         /\ s \notin FileServers => q = <<s, port>>
         /\ executed[s][port] > 0
         /\ server_sid \in Servers => s = server_sid
         /\ UNCHANGED <<server_sid, port, code, acked, executed>>
    BY StoreStep
<1>2. PICK k \in Slot :
         /\ rpc_result'[k] = [server_sid |-> s, content |-> q]
         /\ \A i \in Slot : i # k => rpc_result'[i] = rpc_result[i]
         /\ Broadcast => rpc_result[k].server_sid = s /\ received' \in {2, received}
         /\ ~Broadcast => k = 0 /\ received' = 2 /\ rpc_result = ClearedResults
    BY <1>1, Stored
<1>3. s # SidAny
    BY ResultsAssumption
<1>4. Opened' /\ Sources' /\ Addressed' /\ CodesTellTheTruth'
    BY <1>1, InFlightTruth
<1>5. Owned'
    <2> SUFFICES ASSUME NEW i \in Slot
                 PROVE  LET sid == rpc_result'[i].server_sid
                            content == rpc_result'[i].content
                        IN  /\ sid = SidAny => content = NoContent
                            /\ content # NoContent /\ sid \notin FileServers =>
                                  content[1] = sid /\ (code' # -1 => content[2] = port')
        BY DEF Owned
    <2>1. CASE i = k
        BY <1>1, <1>2, <1>3, <2>1
    <2>2. CASE i # k
        BY <1>1, <1>2, <2>2 DEF Known, Truthful, Owned
    <2> QED  BY <2>1, <2>2
<1>6. AnswersAreReal'
    <2>1. acked # {} => sent'[port] > 0
        BY <1>1, InFlight DEF Known, Truthful, AnswersAreReal
    <2>2. ASSUME NEW i \in Slot, rpc_result'[i].content # NoContent
          PROVE  executed[rpc_result'[i].server_sid][port] > 0
        <3>1. CASE i = k
            BY <1>1, <1>2, <3>1
        <3>2. CASE i # k
            BY <1>1, <1>2, <2>2, <3>2 DEF Known, Truthful, AnswersAreReal
        <3> QED  BY <3>1, <3>2
    <2> QED  BY <1>1, <2>1, <2>2 DEF AnswersAreReal
<1>7. SlotsAreAcked'
    <2> SUFFICES ASSUME Broadcast
                 PROVE  SlotsAreAcked'
        BY <1>1 DEF SlotsAreAcked, Broadcast
    <2>1. \A i \in Slot : rpc_result'[i].server_sid = rpc_result[i].server_sid
        BY <1>2
    <2>2. 0 \in Slot
        BY ResultsAssumption DEF Slot
    <2> QED  BY <1>1, <2>1, <2>2 DEF Known, Truthful, SlotsAreAcked, Broadcast
<1>8. FlagIsTrue'
    <2>1. CASE Broadcast
        <3>1. acked # {}
            BY <1>1, <1>2, <1>3, <2>1 DEF Known, Truthful, SlotsAreAcked
        <3> QED  BY <1>1, <1>2, <2>1, <3>1 DEF Known, Truthful, FlagIsTrue, Broadcast
    <2>2. CASE ~Broadcast
        BY <1>1, <1>2, <2>2 DEF FlagIsTrue, Broadcast
    <2> QED  BY <2>1, <2>2
<1> QED  BY <1>4, <1>5, <1>6, <1>7, <1>8 DEF Truthful

\* A server hears of the call, executes it, and what it sends stems from that.
LEMMA ServerTruth ==
    ASSUME Known, NEW s \in Servers, Server(s)
    PROVE  Truthful'
<1> USE DEF Known
<1>0. /\ calls \in [Servers -> [Port -> Nat]]
      /\ acks \in [Servers -> Nat] /\ answers \in [Servers -> Nat]
      /\ serving \in [Servers -> Port \cup {0}]
      /\ executed \in [Servers -> [Port -> Nat]]
      /\ pc # "idle" => port \in Port
      /\ \A p \in Port : p # 0
    BY DEF TypeOK, ClientTypes, NetTypes, ServerTypes, Port
<1>1. UNCHANGED clientVars
    BY DEF Server, AcceptCall, IgnoreCall, ExecutionFails, SendResult, ResultUndeliverable
<1>2. /\ \A r \in Servers, p \in Port : executed[r][p] > 0 => executed'[r][p] > 0
      /\ \A r \in Servers, p \in Port : calls[r][p] = 0 => calls'[r][p] = 0
    <2>1. ASSUME NEW p \in Port, AcceptCall(s, p) \/ IgnoreCall(s, p)
          PROVE  /\ executed' = executed
                 /\ calls[s][p] > 0 /\ calls' = [calls EXCEPT ![s][p] = @ - 1]
        BY <2>1 DEF AcceptCall, IgnoreCall, TakeCall, serverVars
    <2>2. ASSUME ExecutionFails(s) \/ SendResult(s) \/ ResultUndeliverable(s)
          PROVE  /\ calls' = calls
                 /\ serving[s] \in Port
                 /\ executed' \in {executed, [executed EXCEPT ![s][serving[s]] = @ + 1]}
        BY <1>0, <2>2 DEF ExecutionFails, SendResult, ResultUndeliverable, Executes, netVars
    <2>3. ASSUME NEW p \in Port, AcceptCall(s, p) \/ IgnoreCall(s, p),
                 NEW r \in Servers, NEW q \in Port
          PROVE  executed'[r][q] = executed[r][q] /\ (calls[r][q] = 0 => calls'[r][q] = 0)
        <3>1. /\ executed' = executed
              /\ calls[s][p] > 0 /\ calls' = [calls EXCEPT ![s][p] = @ - 1]
            BY <2>1, <2>3
        <3>2. CASE r = s /\ q = p
            BY <1>0, <3>1, <3>2
        <3>3. CASE ~ (r = s /\ q = p)
            <4>1. calls'[r][q] = calls[r][q]
                BY <1>0, <3>1, <3>3
            <4> QED  BY <3>1, <4>1
        <3> QED  BY <3>2, <3>3
    <2>4. ASSUME ExecutionFails(s) \/ SendResult(s) \/ ResultUndeliverable(s),
                 NEW r \in Servers, NEW q \in Port
          PROVE  /\ executed'[r][q] \in {executed[r][q], executed[r][q] + 1}
                 /\ calls'[r][q] = calls[r][q]
        BY <1>0, <2>2, <2>4
    <2>5. \A r \in Servers, q \in Port : executed[r][q] \in Nat
        BY <1>0
    <2> QED  BY <2>3, <2>4, <2>5 DEF Server
<1>3. \A r \in Servers :
         \/ acks'[r] = acks[r]
         \/ /\ r = s /\ pc # "idle" /\ calls[s][port] > 0
    BY <1>0 DEF Server, AcceptCall, IgnoreCall, ExecutionFails, SendResult,
            ResultUndeliverable, TakeCall, Deliver, netVars
<1>4. \A r \in Servers :
         \/ answers'[r] = answers[r]
         \/ /\ r = s /\ pc # "idle" /\ serving[s] = port
            /\ executed'[s][port] = executed[s][port] + 1
    <2>1. CASE SendResult(s)
        <3>1. /\ serving[s] \in Port
              /\ executed' = [executed EXCEPT ![s][serving[s]] = @ + 1]
              /\ answers' = Deliver(answers, s, serving[s])
            BY <1>0, <2>1 DEF SendResult, Executes
        <3> QED  BY <1>0, <3>1 DEF Deliver
    <2>2. CASE ~SendResult(s)
        BY <2>2 DEF Server, AcceptCall, IgnoreCall, ExecutionFails, ResultUndeliverable,
           netVars
    <2> QED  BY <2>1, <2>2
<1>5. \A r \in Servers : serving'[r] = port => serving[r] = port
                            \/ port = 0 \/ (r = s /\ calls[s][port] > 0)
    BY <1>0 DEF Server, AcceptCall, IgnoreCall, ExecutionFails, SendResult,
            ResultUndeliverable, Executes, TakeCall, serverVars
<1>6. pc # "idle" /\ calls[s][port] > 0 => sent[port] > 0
    <2> SUFFICES ASSUME pc # "idle", calls[s][port] > 0
                 PROVE  sent[port] > 0
        OBVIOUS
    <2>1. calls[s][port] + executed[s][port] + (IF serving[s] = port THEN 1 ELSE 0) <= sent[port]
        BY <1>0 DEF CallsConserved
    <2>2. sent[port] \in Int /\ executed[s][port] \in Nat /\ calls[s][port] \in Nat
        BY <1>0 DEF TypeOK, ClientTypes
    <2> QED  BY <2>1, <2>2
<1> HIDE DEF Known
<1> USE <1>1 DEF clientVars
<1>7. Opened'
    BY <1>3, <1>4 DEF Known, Truthful, Opened
<1>8. Owned' /\ SlotsAreAcked' /\ FlagIsTrue' /\ CodesTellTheTruth'
    BY DEF Known, Truthful, Owned, SlotsAreAcked, FlagIsTrue, CodesTellTheTruth, Broadcast,
           HasPlace
<1>9. Sources'
    <2> SUFFICES ASSUME pc # "idle"
                 PROVE  Sources'
        BY DEF Sources
    <2>1. \A r \in Servers : acks'[r] > 0 => sent[port] > 0
        BY <1>3, <1>6 DEF Known, Truthful, Sources
    <2>2. \A r \in Servers : answers'[r] > 0 => executed'[r][port] > 0
        <3> SUFFICES ASSUME NEW r \in Servers, answers'[r] > 0
                     PROVE  executed'[r][port] > 0
            OBVIOUS
        <3>1. executed[s][port] \in Nat
            BY <1>0
        <3>2. CASE answers'[r] = answers[r]
            BY <1>0, <1>2, <3>2 DEF Known, Truthful, Sources
        <3>3. CASE answers'[r] # answers[r]
            BY <1>4, <3>1, <3>3
        <3> QED  BY <3>2, <3>3
    <2>3. pc = "download" => awaited \in Servers /\ executed[awaited][port] > 0
        BY DEF Known, Truthful, Sources, TypeOK, ClientTypes
    <2> QED  BY <1>0, <1>2, <2>1, <2>2, <2>3 DEF Sources
<1>10. Addressed'
    <2> SUFFICES ASSUME pc # "idle", server_sid \in Servers
                 PROVE  Addressed'
        BY DEF Addressed
    <2>1. ASSUME NEW r \in Servers \ {server_sid}
          PROVE  calls'[r][port] = 0 /\ serving'[r] # port /\ acks'[r] = 0 /\ answers'[r] = 0
        <3>1. calls[r][port] = 0 /\ serving[r] # port /\ acks[r] = 0 /\ answers[r] = 0
            BY DEF Known, Truthful, Addressed
        <3> QED  BY <1>0, <1>2, <1>3, <1>4, <1>5, <3>1
    <2> QED  BY <2>1 DEF Known, Truthful, Addressed
<1>11. AnswersAreReal'
    <2> SUFFICES ASSUME pc # "idle", NEW i \in Slot, rpc_result[i].content # NoContent
                 PROVE  executed'[rpc_result[i].server_sid][port] > 0
        BY DEF Known, Truthful, AnswersAreReal
    <2>1. rpc_result[i].server_sid \in Servers \cup {SidAny}
        BY DEF Known, TypeOK, ClientTypes, Results
    <2>2. /\ rpc_result[i].server_sid # SidAny
          /\ executed[rpc_result[i].server_sid][port] > 0
        BY DEF Known, Truthful, Owned, AnswersAreReal
    <2> QED  BY <1>0, <1>2, <2>1, <2>2
<1> QED  BY <1>7, <1>8, <1>9, <1>10, <1>11 DEF Truthful

\* Every step keeps the invariant.
LEMMA TruthStep ==
    ASSUME Known, [Next]_vars
    PROVE  Truthful'
<1>1. CASE Client
    BY <1>1, EndTruth, QuietTruth, AwaitTruth, AckTruth, StoreTruth DEF Client
<1>2. ASSUME NEW sid \in Destinations, StartCall(sid) \/ RefuseCall(sid)
      PROVE  Truthful'
    BY <1>2, StartTruth, RefuseTruth
<1>3. ASSUME NEW s \in Servers, Server(s)
      PROVE  Truthful'
    BY <1>3, ServerTruth
<1>4. CASE FileArrives \/ UNCHANGED vars
    <2>1. UNCHANGED <<clientVars, netVars, serving, executed>>
        BY <1>4 DEF FileArrives, vars, serverVars
    <2> QED  BY <2>1
             DEF Known, Truthful, clientVars, netVars, Opened, Owned, Sources, Addressed,
                 SlotsAreAcked, FlagIsTrue, AnswersAreReal, CodesTellTheTruth, Broadcast,
                 HasPlace
<1> QED  BY <1>1, <1>2, <1>3, <1>4 DEF Next

\* The invariant, with those it rests on.
LEMMA KnownAlways == Spec => []Known
<1>1. Init => Truthful
    BY DEF Init, Truthful, Opened, Owned, Sources, Addressed, SlotsAreAcked, FlagIsTrue,
       AnswersAreReal, CodesTellTheTruth, ClearedResults, NoCode, Port
<1>2. TypeOK /\ Unanswered /\ SlotsInOrder /\ CallsConserved /\ Truthful /\ [Next]_vars
         => Truthful'
    BY TruthStep DEF Known
<1> QED  BY <1>1, <1>2, TypeCorrect, UnansweredCorrect, SlotsStayInOrder, CallsAreConserved,
            PTL DEF Spec, Known

\* An answer stands beside its server and answers the latest call, whatever is lost,
\* repeated or late, and whatever array an earlier call has left.
THEOREM AnswersStayOwned == Spec => []AnswersAreOwned
<1>1. Known => AnswersAreOwned
    BY DEF Known, Truthful, Owned, AnswersAreOwned
<1> QED  BY <1>1, KnownAlways, PTL

\* Nothing appears in the array that no server has computed for this call.
THEOREM AnswersStayReal == Spec => []AnswersAreReal
<1>1. Known => AnswersAreReal
    BY DEF Known, Truthful
<1> QED  BY <1>1, KnownAlways, PTL

\* The codes are true when the flag starts at 0.
THEOREM CodesAreTrue == Spec => []CodesTellTheTruth
<1>1. Known => CodesTellTheTruth
    BY DEF Known, Truthful
<1> QED  BY <1>1, KnownAlways, PTL

-----------------------------------------------------------------------------
(* A call over MDP is a call as RpcCall describes it                        *)

\* The servers that have answered are the same after a step that keeps the contents
\* and the servers that have any.
LEMMA AnsweredKept ==
    ASSUME \A i \in Slot :
              /\ rpc_result'[i].content = rpc_result[i].content
              /\ rpc_result[i].content # NoContent =>
                    rpc_result'[i].server_sid = rpc_result[i].server_sid
    PROVE  Answered' = Answered
BY DEF Answered

\* A cleared array has no answer; slot 0 with an answer has one.
LEMMA AnsweredArray ==
    ASSUME TypeOK, Owned
    PROVE  /\ rpc_result = ClearedResults => Answered = {}
           /\ rpc_result[0].content # NoContent => Answered # {}
<1>1. rpc_result = ClearedResults => Answered = {}
    BY DEF Answered, ClearedResults
<1>2. rpc_result[0].content # NoContent => Answered # {}
    <2>1. 0 \in Slot /\ rpc_result[0].server_sid \in Servers \cup {SidAny}
        BY ResultsAssumption DEF TypeOK, ClientTypes, Results, Slot
    <2> QED  BY <2>1 DEF Answered, Owned
<1> QED  BY <1>1, <1>2

\* Where the client may be inside a call, the caller waits.
Waiting == IF pc = "idle" THEN "idle" ELSE "waiting"

\* Every step is a step of RpcCall, or none.
LEMMA ContractStep ==
    ASSUME Known, ResetsReceived, [Next]_vars
    PROVE  [Abstract!Next]_(Abstract!rvars)
<1> DEFINE Same == UNCHANGED <<server_sid, acked, code>> /\ Waiting' = Waiting
<1> USE DEF Waiting
<1>0. /\ TypeOK /\ Truthful
      /\ server_sid \in Servers \cup {SidAny, SidBroadcast}
      /\ \A sid \in Destinations : sid \in Servers \cup {SidAny, SidBroadcast}
    BY MdpAssumption DEF Known, TypeOK, ClientTypes
<1>1. ASSUME Same, UNCHANGED rpc_result
      PROVE  UNCHANGED Abstract!rvars
    <2>1. Answered' = Answered
        BY <1>1 DEF Answered
    <2> QED  BY <1>1, <2>1 DEF Abstract!rvars
<1>2. ASSUME NEW sid \in Destinations, StartCall(sid)
      PROVE  Abstract!Next
    <2>1. /\ pc = "idle" /\ pc' = "loop" /\ server_sid' = sid /\ acked' = {}
          /\ code' = NoCode /\ rpc_result' = ClearedResults
        BY <1>2 DEF StartCall
    <2>2. Answered' = {}
        BY <2>1 DEF Answered, ClearedResults
    <2>3. Abstract!Begin(sid)
        BY <2>1, <2>2 DEF Abstract!Begin, NoCode, Abstract!NoCode
    <2> QED  BY <1>0, <2>3 DEF Abstract!Next, Abstract!Dest
<1>3. ASSUME NEW sid \in Destinations, RefuseCall(sid)
      PROVE  Abstract!Next
    <2>1. /\ pc = "idle" /\ pc' = pc /\ server_sid' = sid /\ acked' = {} /\ code' = -1
          /\ rpc_result' = ClearedResults \/ rpc_result' = rpc_result
        BY <1>3 DEF RefuseCall
    <2>2. Answered' \in {Answered, {}}
        BY <2>1 DEF Answered, ClearedResults
    <2>3. Abstract!Refuse
        BY <1>0, <2>1, <2>2 DEF Abstract!Refuse, Abstract!Dest
    <2> QED  BY <2>3 DEF Abstract!Next
<1>4. CASE Finish \/ GiveUp \/ AbortCall
    <2>1. PICK c \in {-1, 0, 1, 2} :
             /\ pc # "idle"
             /\ Return(c)
             /\ c = -1 => rpc_result = ClearedResults \/ Broadcast
             /\ ResetsReceived =>
                   /\ c = 2 => IF Broadcast THEN acked # {}
                                            ELSE rpc_result[0].content # NoContent
                   /\ c = 1 => ~Broadcast /\ acked # {} /\ rpc_result = ClearedResults
                   /\ c = 0 => acked = {} /\ rpc_result = ClearedResults
        BY <1>4, EndMeans
    <2>2. Abstract!Means(c)
        BY <1>0, <2>1, AnsweredArray DEF Abstract!Means, Truthful, Broadcast
    <2>3. /\ pc' = "idle" /\ code' = c
          /\ UNCHANGED <<server_sid, acked, rpc_result>>
        BY <2>1 DEF Return
    <2>4. Answered' = Answered
        BY <2>3 DEF Answered
    <2>5. Abstract!Return(c)
        BY <2>1, <2>2, <2>3, <2>4 DEF Abstract!Return
    <2> QED  BY <2>5 DEF Abstract!Next, Abstract!Codes
<1>5. CASE \/ SendCall \/ AwaitAnswer \/ PollTimeout \/ AwaitFile
           \/ \E s \in Servers : ReceiveError(s) \/ SkipAnswer(s) \/ ReceiveHash(s)
    <2>1. Same /\ UNCHANGED rpc_result
        BY <1>5 DEF SendCall, AwaitAnswer, PollTimeout, AwaitFile, ReceiveError, SkipAnswer,
           ReceiveHash, TakeAck, TakeAnswer
    <2> QED  BY <1>1, <2>1
<1>6. ASSUME NEW s \in Servers, ReceiveAck(s)
      PROVE  Abstract!Next
    <2>1. /\ pc = "poll" /\ pc' = "loop" /\ acks[s] > 0 /\ acked' = acked \cup {s}
          /\ UNCHANGED <<server_sid, code>>
          /\ rpc_result' \in {rpc_result, Reserve(rpc_result, s)}
        BY <1>6 DEF ReceiveAck, TakeAck
    <2>2. server_sid \in Servers => s = server_sid
        BY <1>0, <2>1 DEF Truthful, Addressed
    <2>3. Answered' = Answered
        <3>1. rpc_result \in Results(Payload)
            BY <1>0 DEF TypeOK, ClientTypes
        <3>2. LET k == rpc_client_result_get_insert_index(rpc_result) IN
              k \in Slot => rpc_result[k].server_sid = SidAny
            BY <3>1, InsertIndex
        <3>3. \A i \in Slot : rpc_result[i].content # NoContent =>
                  i # rpc_client_result_get_insert_index(rpc_result)
            BY <1>0, <3>2 DEF Truthful, Owned
        <3>4. \A i \in Slot :
                 /\ rpc_result'[i].content = rpc_result[i].content
                 /\ rpc_result[i].content # NoContent =>
                       rpc_result'[i].server_sid = rpc_result[i].server_sid
            BY <2>1, <3>1, <3>3 DEF Reserve, Results
        <3> QED  BY <3>4, AnsweredKept
    <2>4. Abstract!Accept(s)
        BY <2>1, <2>2, <2>3 DEF Abstract!Accept, Abstract!Hears
    <2> QED  BY <2>4 DEF Abstract!Next
<1>7. CASE Download \/ \E s \in Servers : ReceiveAnswer(s)
    <2>1. PICK s \in Servers, q \in Payload :
             /\ pc \in {"poll", "download"} /\ pc' = "loop"
             /\ HasPlace(s) /\ StoreAnswer(s, q)
             /\ q # NoContent
             /\ s \notin FileServers => q = <<s, port>>
             /\ executed[s][port] > 0
             /\ server_sid \in Servers => s = server_sid
             /\ UNCHANGED <<server_sid, port, code, acked, executed>>
        BY <1>7, StoreStep
    <2>2. PICK k \in Slot :
             /\ rpc_result'[k] = [server_sid |-> s, content |-> q]
             /\ \A i \in Slot : i # k => rpc_result'[i] = rpc_result[i]
             /\ Broadcast => rpc_result[k].server_sid = s /\ received' \in {2, received}
             /\ ~Broadcast => k = 0 /\ received' = 2 /\ rpc_result = ClearedResults
        BY <2>1, Stored
    <2>3. IF Broadcast THEN s \in acked ELSE Answered = {}
        <3>1. s # SidAny
            BY ResultsAssumption
        <3> QED  BY <1>0, <2>1, <2>2, <3>1, AnsweredArray DEF Truthful, SlotsAreAcked
    <2>4. Answered' = Answered \cup {s}
        <3>1. \A r \in Servers : r # s =>
                 ((\E i \in Slot : /\ rpc_result'[i].server_sid = r
                                   /\ rpc_result'[i].content # NoContent)
                  <=> (\E i \in Slot : /\ rpc_result[i].server_sid = r
                                       /\ rpc_result[i].content # NoContent))
            <4>1. CASE Broadcast
                BY <2>2, <4>1
            <4>2. CASE ~Broadcast
                BY <2>2, <4>2 DEF ClearedResults
            <4> QED  BY <4>1, <4>2
        <3>2. \E i \in Slot : rpc_result'[i].server_sid = s /\ rpc_result'[i].content # NoContent
            BY <2>1, <2>2
        <3> QED  BY <3>1, <3>2 DEF Answered
    <2>5. Abstract!Answer(s)
        BY <2>1, <2>3, <2>4 DEF Abstract!Answer, Abstract!Hears, Broadcast
    <2> QED  BY <2>5 DEF Abstract!Next
<1>8. CASE (\E s \in Servers : Server(s)) \/ FileArrives \/ UNCHANGED vars
    <2>1. UNCHANGED clientVars
        BY <1>8 DEF Server, AcceptCall, IgnoreCall, ExecutionFails, SendResult,
           ResultUndeliverable, FileArrives, vars
    <2> QED  BY <1>1, <2>1 DEF clientVars
<1> QED  BY <1>2, <1>3, <1>4, <1>5, <1>6, <1>7, <1>8 DEF Next, Client

\* A call over MDP whose flag starts at 0 does what RpcCall says of a call: it is
\* begun, hears of servers it has called, and returns a code that means what RpcCall
\* says it means.
THEOREM CallIsRpcCall ==
    ASSUME ResetsReceived
    PROVE  Spec => ImplementsRpcCall
<1>1. Init => Abstract!Init
    <2> SUFFICES ASSUME Init
                 PROVE  Abstract!Init
        OBVIOUS
    <2>1. Answered = {}
        BY DEF Init, Answered, ClearedResults
    <2> QED  BY <2>1 DEF Init, Abstract!Init, NoCode, Abstract!NoCode
<1>2. Known /\ [Next]_vars => [Abstract!Next]_(Abstract!rvars)
    BY ContractStep
<1> QED  BY <1>1, <1>2, KnownAlways, PTL DEF Spec, ImplementsRpcCall, Abstract!Spec

-----------------------------------------------------------------------------
(* Counting ACKs                                                            *)

\* Copies of the latest call to s, and ACKs of s to it, that are still in flight.
Unheard(s) == calls[s][port] + acks[s]

\* The pairs of a server and a send that can bring no more ACKs.
Used == {t \in Servers \X (1 .. sent[port]) : t[2] + Unheard(t[1]) <= sent[port]}

\* n ACKs have moved the deadline, and for an "all" call taken slots.
AcksCount(n) ==
    /\ n <= Cardinality(Used)
    /\ wait_time = WaitTime + AckExtension * n
    /\ Broadcast => \A i \in Slot : rpc_result[i].server_sid # SidAny => i < n

Counted ==
    /\ pc # "idle" =>
          /\ \A s \in Servers : Unheard(s) <= sent[port]
          /\ \E n \in Nat : AcksCount(n)
          /\ time <= wait_time + 1 + waited
          /\ pc \in {"poll", "download"} => time <= wait_time + waited
    /\ OverrunNeedsCrowd

-----------------------------------------------------------------------------
(* Arithmetic                                                               *)

\* A product grows with its factor, and a sum with its term.
LEMMA ProductGrows ==
    ASSUME NEW a \in Nat, NEW m \in Nat, NEW n \in Nat, m <= n
    PROVE  a * m <= a * n /\ m * a <= n * a
<1>1. PICK d \in Nat : n = m + d
    BY Z3
<1>2. a * n = a * m + a * d /\ a * d \in Nat
    BY <1>1
<1> QED  BY <1>2

\* One term more.
LEMMA ProductStep ==
    ASSUME NEW a \in Nat, NEW n \in Nat
    PROVE  a * (n + 1) = a * n + a /\ a * n \in Nat
OBVIOUS

\* The pairs are finitely many, and no more than servers times sends.
LEMMA PairsBound ==
    ASSUME NEW n \in Nat
    PROVE  /\ IsFiniteSet(Servers \X (1 .. n))
           /\ Cardinality(Servers \X (1 .. n)) = Cardinality(Servers) * n
           /\ Cardinality(Servers) \in Nat
<1>1. IsFiniteSet(Servers) /\ Cardinality(Servers) \in Nat
    BY MdpAssumption, FS_CardinalityType
<1>2. IsFiniteSet(1 .. n) /\ Cardinality(1 .. n) = n
    BY FS_Interval
<1> QED  BY <1>1, <1>2, FS_Product

\* So is every set of them.
LEMMA SomePairs ==
    ASSUME NEW n \in Nat, NEW U \in SUBSET (Servers \X (1 .. n))
    PROVE  /\ IsFiniteSet(U)
           /\ Cardinality(U) \in Nat
           /\ Cardinality(U) <= Cardinality(Servers) * n
<1>1. /\ IsFiniteSet(Servers \X (1 .. n))
      /\ Cardinality(Servers \X (1 .. n)) = Cardinality(Servers) * n
    BY PairsBound
<1>2. IsFiniteSet(U) /\ Cardinality(U) <= Cardinality(Servers \X (1 .. n))
    BY <1>1, FS_Subset
<1> QED  BY <1>1, <1>2, FS_CardinalityType

-----------------------------------------------------------------------------
(* What a step does to the count                                            *)

\* What the leaves below know of the numbers.
Numbers ==
    /\ calls \in [Servers -> [Port -> Nat]]
    /\ acks \in [Servers -> Nat]
    /\ sent \in [Port -> Nat]
    /\ MaxCalls \in Nat

\* They follow from the types.
LEMMA NumbersHold ==
    ASSUME TypeOK
    PROVE  Numbers
<1>1. sent \in [Port -> 0 .. MaxSends] /\ MaxSends \in Nat /\ MaxCalls \in Nat
    BY MdpAssumption DEF TypeOK, ClientTypes
<1>2. sent \in [Port -> Nat]
    BY <1>1
<1> QED  BY <1>1, <1>2 DEF TypeOK, NetTypes, Numbers

\* The sends of a call never become fewer.
LEMMA SentGrows ==
    ASSUME TypeOK, [Next]_vars
    PROVE  \A p \in Port : sent[p] <= sent'[p]
<1>0. sent \in [Port -> Nat]
    BY NumbersHold DEF Numbers
<1>1. sent' = sent \/ sent' = [sent EXCEPT ![port] = @ + 1]
    BY DEF Next, Client, Server, StartCall, RefuseCall, Finish, GiveUp, AbortCall, Return,
       SendCall, AwaitAnswer, PollTimeout, ReceiveError, ReceiveAck, SkipAnswer,
       ReceiveAnswer, ReceiveHash, AwaitFile, Download, AcceptCall, IgnoreCall,
       ExecutionFails, SendResult, ResultUndeliverable, FileArrives, vars, clientVars
<1> QED  BY <1>0, <1>1

\* While the call is open, calls and ACKs move in four ways.
LEMMA Moves ==
    ASSUME [Next]_vars, pc # "idle", pc' # "idle"
    PROVE  /\ port' = port /\ server_sid' = server_sid
           /\ \/ UNCHANGED <<sent, calls, acks>>
              \/ /\ sent' = [sent EXCEPT ![port] = @ + 1]
                 /\ calls' = [s \in Servers |->
                                IF s \in Recipients THEN [calls[s] EXCEPT ![port] = @ + 1]
                                                    ELSE calls[s]]
                 /\ acks' = acks
              \/ \E s \in Servers : TakeAck(s) /\ sent' = sent
              \/ \E s \in Servers, p \in Port :
                    /\ TakeCall(s, p)
                    /\ sent' = sent
                    /\ acks' = acks \/ acks' = Deliver(acks, s, p)
<1>1. ASSUME NEW sid \in Destinations, StartCall(sid) \/ RefuseCall(sid)
      PROVE  FALSE
    BY <1>1 DEF StartCall, RefuseCall
<1>2. CASE Finish \/ GiveUp \/ AbortCall
    BY <1>2 DEF Finish, GiveUp, AbortCall, Return
<1>3. CASE SendCall
    BY <1>3 DEF SendCall
<1>4. CASE \/ AwaitAnswer \/ PollTimeout \/ AwaitFile \/ Download
           \/ \E s \in Servers : SkipAnswer(s) \/ ReceiveAnswer(s) \/ ReceiveHash(s)
    BY <1>4 DEF AwaitAnswer, PollTimeout, AwaitFile, Download, SkipAnswer, ReceiveAnswer,
       ReceiveHash, TakeAnswer, netVars
<1>5. ASSUME NEW s \in Servers, ReceiveError(s) \/ ReceiveAck(s)
      PROVE  /\ UNCHANGED <<port, server_sid, sent>>
             /\ TakeAck(s) \/ UNCHANGED <<calls, acks>>
    BY <1>5 DEF ReceiveError, ReceiveAck, TakeAnswer
<1>6. ASSUME NEW s \in Servers, NEW p \in Port, AcceptCall(s, p) \/ IgnoreCall(s, p)
      PROVE  /\ UNCHANGED <<port, server_sid, sent>>
             /\ TakeCall(s, p)
             /\ acks' = acks \/ acks' = Deliver(acks, s, p)
    BY <1>6 DEF AcceptCall, IgnoreCall, clientVars
<1>7. ASSUME NEW s \in Servers,
             ExecutionFails(s) \/ SendResult(s) \/ ResultUndeliverable(s)
      PROVE  UNCHANGED <<port, server_sid, sent, calls, acks>>
    BY <1>7 DEF ExecutionFails, SendResult, ResultUndeliverable, clientVars, netVars
<1>8. CASE FileArrives \/ UNCHANGED vars
    BY <1>8 DEF FileArrives, vars, clientVars, netVars
<1> QED  BY <1>1, <1>2, <1>3, <1>4, <1>5, <1>6, <1>7, <1>8 DEF Next, Client, Server

\* None of them lets a server owe more ACKs than it did.
LEMMA Progress ==
    ASSUME TypeOK, [Next]_vars, pc # "idle", pc' # "idle"
    PROVE  \A s \in Servers : sent[port] - Unheard(s) <= sent'[port] - Unheard(s)'
<1>0. /\ calls \in [Servers -> [Port -> Nat]]
      /\ acks \in [Servers -> Nat]
      /\ sent \in [Port -> Nat]
      /\ port \in Port /\ port' = port
    BY NumbersHold, Moves DEF Numbers, TypeOK, ClientTypes
<1> SUFFICES ASSUME NEW s \in Servers
             PROVE  sent[port] - (calls[s][port] + acks[s])
                       <= sent'[port] - (calls'[s][port] + acks'[s])
    BY <1>0 DEF Unheard
<1>1. calls[s][port] \in Nat /\ acks[s] \in Nat /\ sent[port] \in Nat
    BY <1>0
<1>2. CASE UNCHANGED <<sent, calls, acks>>
    BY <1>1, <1>2
<1>3. CASE /\ sent' = [sent EXCEPT ![port] = @ + 1]
           /\ calls' = [r \in Servers |->
                          IF r \in Recipients THEN [calls[r] EXCEPT ![port] = @ + 1]
                                              ELSE calls[r]]
           /\ acks' = acks
    <2>1. sent'[port] = sent[port] + 1
        BY <1>0, <1>3
    <2>2. calls'[s][port] \in {calls[s][port], calls[s][port] + 1}
        BY <1>0, <1>3
    <2> QED  BY <1>1, <1>3, <2>1, <2>2
<1>4. ASSUME NEW r \in Servers, TakeAck(r), sent' = sent
      PROVE  sent[port] - (calls[s][port] + acks[s])
                <= sent'[port] - (calls'[s][port] + acks'[s])
    <2>1. calls' = calls /\ acks'[s] \in {acks[s], acks[s] - 1}
        BY <1>0, <1>4 DEF TakeAck
    <2> QED  BY <1>1, <1>4, <2>1
<1>5. ASSUME NEW r \in Servers, NEW p \in Port, TakeCall(r, p), sent' = sent,
             acks' = acks \/ acks' = Deliver(acks, r, p)
      PROVE  sent[port] - (calls[s][port] + acks[s])
                <= sent'[port] - (calls'[s][port] + acks'[s])
    <2>1. CASE r = s /\ p = port
        <3>1. calls'[s][port] = calls[s][port] - 1
            BY <1>0, <1>5, <2>1 DEF TakeCall
        <3>2. acks'[s] \in {acks[s], acks[s] + 1}
            BY <1>0, <1>5, <2>1 DEF Deliver
        <3> QED  BY <1>1, <1>5, <3>1, <3>2
    <2>2. CASE ~ (r = s /\ p = port)
        <3>1. calls'[s][port] = calls[s][port]
            BY <1>0, <1>5, <2>2 DEF TakeCall
        <3>2. acks'[s] = acks[s]
            BY <1>0, <1>5, <2>2 DEF Deliver
        <3> QED  BY <1>1, <1>5, <3>1, <3>2
    <2> QED  BY <2>1, <2>2
<1> QED  BY <1>2, <1>3, <1>4, <1>5, Moves

\* So the pairs that are used up stay used up, and the count of ACKs stays possible.
LEMMA UsedGrows ==
    ASSUME TypeOK, TypeOK', Counted, [Next]_vars, pc # "idle", pc' # "idle"
    PROVE  /\ \A s \in Servers : Unheard(s)' <= sent'[port']
           /\ Used \subseteq Used'
           /\ Cardinality(Used) \in Nat /\ Cardinality(Used') \in Nat
           /\ Cardinality(Used) <= Cardinality(Used')
           /\ IsFiniteSet(Used) /\ IsFiniteSet(Used')
<1>0. /\ calls \in [Servers -> [Port -> Nat]] /\ calls' \in [Servers -> [Port -> Nat]]
      /\ acks \in [Servers -> Nat] /\ acks' \in [Servers -> Nat]
      /\ sent \in [Port -> Nat] /\ sent' \in [Port -> Nat]
      /\ port \in Port /\ port' = port
    <2>1. Numbers /\ Numbers'
        <3>1. MaxCalls \in Nat /\ MaxSends \in Nat
            BY MdpAssumption
        <3> QED  BY <3>1 DEF Numbers, TypeOK, ClientTypes, NetTypes
    <2> QED  BY <2>1, Moves DEF Numbers, TypeOK, ClientTypes
<1>1. \A s \in Servers : /\ Unheard(s) \in Nat /\ Unheard(s)' \in Nat
                         /\ Unheard(s) <= sent[port]
                         /\ sent[port] - Unheard(s) <= sent'[port] - Unheard(s)'
    BY <1>0, Progress DEF Counted, Unheard
<1>2. sent[port] \in Nat /\ sent'[port] \in Nat /\ sent[port] <= sent'[port]
    BY <1>0, SentGrows
<1>3. \A s \in Servers : Unheard(s)' <= sent'[port']
    BY <1>0, <1>1, <1>2
<1>4. Used \subseteq Used'
    <2> SUFFICES ASSUME NEW t \in Servers \X (1 .. sent[port]),
                        t[2] + Unheard(t[1]) <= sent[port]
                 PROVE  t \in Servers \X (1 .. sent'[port]) /\ t[2] + Unheard(t[1])' <= sent'[port]
        BY <1>0 DEF Used
    <2>1. t[1] \in Servers /\ t[2] \in 1 .. sent[port] /\ t = <<t[1], t[2]>>
        OBVIOUS
    <2>2. t[2] + Unheard(t[1])' <= sent'[port]
        BY <1>1, <1>2, <2>1
    <2> QED  BY <1>2, <2>1, <2>2
<1>5. /\ IsFiniteSet(Used') /\ Cardinality(Used') \in Nat
      /\ IsFiniteSet(Used) /\ Cardinality(Used) \in Nat
    <2>1. Used' \in SUBSET (Servers \X (1 .. sent'[port]))
        BY <1>0 DEF Used
    <2>2. Used \in SUBSET (Servers \X (1 .. sent[port]))
        BY DEF Used
    <2> QED  BY <1>2, <2>1, <2>2, SomePairs
<1>6. Cardinality(Used) <= Cardinality(Used')
    BY <1>4, <1>5, FS_Subset
<1> QED  BY <1>3, <1>4, <1>5, <1>6

\* An ACK that is received uses up one pair more.
LEMMA AckUses ==
    ASSUME TypeOK, TypeOK', Counted, NEW s \in Servers, ReceiveAck(s)
    PROVE  Cardinality(Used) + 1 <= Cardinality(Used')
<1>1. /\ pc = "poll" /\ pc' = "loop" /\ port' = port /\ sent' = sent /\ calls' = calls
      /\ acks[s] > 0 /\ acks' = [acks EXCEPT ![s] = @ - 1]
      /\ [Next]_vars
    BY DEF ReceiveAck, TakeAck, Next, Client
<1>2. /\ port \in Port /\ sent[port] \in Nat /\ acks[s] \in Nat /\ calls[s][port] \in Nat
      /\ acks'[s] = acks[s] - 1
      /\ calls[s][port] + acks[s] <= sent[port]
    BY <1>1, NumbersHold DEF Numbers, TypeOK, ClientTypes, Counted, Unheard
<1> DEFINE k == sent[port] - (calls[s][port] + acks[s]) + 1
           t == <<s, k>>
<1>3. k \in 1 .. sent[port]
    BY <1>1, <1>2
<1>4. t \notin Used
    BY <1>1, <1>2 DEF Used, Unheard
<1>5. t \in Used'
    BY <1>1, <1>2, <1>3 DEF Used, Unheard
<1> HIDE DEF t
<1>6. /\ Used \subseteq Used' /\ IsFiniteSet(Used) /\ IsFiniteSet(Used')
    BY <1>1, UsedGrows
<1>7. /\ Cardinality(Used \cup {t}) = Cardinality(Used) + 1
    BY <1>4, <1>6, FS_AddElement
<1>8. Used \cup {t} \in SUBSET Used'
    BY <1>5, <1>6
<1> QED  BY <1>6, <1>7, <1>8, FS_Subset

-----------------------------------------------------------------------------
(* The invariant                                                            *)

\* The call that begins has received no ACK.
LEMMA CountStart ==
    ASSUME Known, Counted, NEW sid \in Destinations, StartCall(sid)
    PROVE  Counted'
<1>1. /\ port' = port + 1 /\ port' \in Port /\ pc = "idle" /\ pc' = "loop"
      /\ UNCHANGED <<sent, calls, acks, overrun, serving, executed>>
      /\ time' = 0 /\ waited' = 0 /\ wait_time' = WaitTime /\ rpc_result' = ClearedResults
      /\ Numbers /\ port \in Int
      /\ WaitTime \in Nat /\ AckExtension \in Nat
    BY MdpAssumption, NumbersHold
    DEF Known, TypeOK, ClientTypes, StartCall, Port, netVars, serverVars
<1>2. sent[port'] = 0 /\ \A s \in Servers : acks[s] = 0
    BY <1>1 DEF Known, Truthful, Opened
<1>3. \A s \in Servers : calls[s][port'] = 0
    <2> SUFFICES ASSUME NEW s \in Servers
                 PROVE  calls[s][port'] = 0
        OBVIOUS
    <2>1. calls[s][port'] + executed[s][port'] + (IF serving[s] = port' THEN 1 ELSE 0) <= 0
        BY <1>1, <1>2 DEF Known, CallsConserved
    <2>2. calls[s][port'] \in Nat /\ executed[s][port'] \in Nat
        BY <1>1 DEF Known, TypeOK, NetTypes, ServerTypes
    <2> QED  BY <2>1, <2>2
<1>4. \A s \in Servers : Unheard(s)' <= sent'[port']
    BY <1>1, <1>2, <1>3 DEF Unheard
<1>5. AcksCount(0)'
    <2>1. Used' \in SUBSET (Servers \X (1 .. sent'[port']))
        BY DEF Used
    <2>2. Cardinality(Used') \in Nat
        BY <1>1, <1>2, <2>1, SomePairs
    <2>3. \A i \in Slot : rpc_result'[i].server_sid = SidAny
        BY <1>1 DEF ClearedResults
    <2> QED  BY <1>1, <2>2, <2>3 DEF AcksCount
<1> QED  BY <1>1, <1>4, <1>5 DEF Counted, OverrunNeedsCrowd

\* Nothing but an ACK moves the deadline, overruns the array or takes a slot of an
\* "all" call.
LEMMA QuietCount ==
    ASSUME TypeOK, [Next]_vars, pc # "idle", pc' # "idle",
           \A s \in Servers : ~ ReceiveAck(s)
    PROVE  /\ UNCHANGED <<wait_time, overrun>>
           /\ Broadcast => \A i \in Slot : rpc_result'[i].server_sid = rpc_result[i].server_sid
<1>0. rpc_result \in Results(Payload)
    BY DEF TypeOK, ClientTypes
<1>1. ASSUME NEW s, NEW q, StoreAnswer(s, q), Broadcast
      PROVE  \A i \in Slot : rpc_result'[i].server_sid = rpc_result[i].server_sid
    <2>1. rpc_result' = StoreReserved(rpc_result,
                                      _rpc_client_result_get_sid_index(rpc_result, s), q)
        BY <1>1 DEF StoreAnswer
    <2> QED  BY <1>0, <2>1 DEF StoreReserved, Results
<1>2. CASE \E s \in Servers : ReceiveAnswer(s)
    BY <1>1, <1>2 DEF ReceiveAnswer
<1>3. CASE Download
    BY <1>1, <1>3 DEF Download
<1>4. CASE \/ SendCall \/ AwaitAnswer \/ PollTimeout \/ AwaitFile
           \/ \E s \in Servers : ReceiveError(s) \/ SkipAnswer(s) \/ ReceiveHash(s)
    BY <1>4 DEF SendCall, AwaitAnswer, PollTimeout, AwaitFile, ReceiveError, SkipAnswer,
       ReceiveHash
<1>5. CASE (\E s \in Servers : Server(s)) \/ FileArrives \/ UNCHANGED vars
    <2>1. UNCHANGED clientVars
        BY <1>5 DEF Server, AcceptCall, IgnoreCall, ExecutionFails, SendResult,
           ResultUndeliverable, FileArrives, vars
    <2> QED  BY <2>1 DEF clientVars
<1>6. ASSUME \/ Finish \/ GiveUp \/ AbortCall
             \/ \E sid \in Destinations : StartCall(sid) \/ RefuseCall(sid)
      PROVE  FALSE
    BY <1>6 DEF Finish, GiveUp, AbortCall, Return, StartCall, RefuseCall
<1> QED  BY <1>2, <1>3, <1>4, <1>5, <1>6 DEF Next, Client

\* Time passes in a round, which begins before the deadline, and while a file is awaited.
LEMMA TimeStep ==
    ASSUME TypeOK, Counted, [Next]_vars, pc # "idle", pc' # "idle"
    PROVE  /\ time' <= wait_time' + 1 + waited'
           /\ pc' \in {"poll", "download"} => time' <= wait_time' + waited'
<1>0. /\ time \in Nat /\ waited \in Nat /\ wait_time \in Nat /\ AckExtension \in Nat
      /\ time <= wait_time + 1 + waited
      /\ pc \in {"poll", "download"} => time <= wait_time + waited
    BY MdpAssumption DEF TypeOK, ClientTypes, Counted
<1>1. CASE SendCall \/ AwaitAnswer
    BY <1>0, <1>1 DEF SendCall, AwaitAnswer, Expired
<1>2. CASE PollTimeout
    BY <1>0, <1>2 DEF PollTimeout, Elapsed
<1>3. CASE AwaitFile \/ Download
    BY <1>0, <1>3 DEF AwaitFile, Download
<1>4. ASSUME NEW s \in Servers,
             ReceiveError(s) \/ SkipAnswer(s) \/ ReceiveAnswer(s) \/ ReceiveHash(s)
      PROVE  pc = "poll" /\ UNCHANGED <<time, waited, wait_time>>
    BY <1>4 DEF ReceiveError, SkipAnswer, ReceiveAnswer, ReceiveHash, TakeAck, TakeAnswer
<1>5. ASSUME NEW s \in Servers, ReceiveAck(s)
      PROVE  /\ pc = "poll" /\ wait_time' = wait_time + AckExtension
             /\ UNCHANGED <<time, waited>>
    BY <1>5 DEF ReceiveAck, TakeAck
<1>6. CASE (\E s \in Servers : Server(s)) \/ FileArrives \/ UNCHANGED vars
    <2>1. UNCHANGED clientVars
        BY <1>6 DEF Server, AcceptCall, IgnoreCall, ExecutionFails, SendResult,
           ResultUndeliverable, FileArrives, vars
    <2> QED  BY <1>0, <2>1 DEF clientVars
<1>7. ASSUME \/ Finish \/ GiveUp \/ AbortCall
             \/ \E sid \in Destinations : StartCall(sid) \/ RefuseCall(sid)
      PROVE  FALSE
    BY <1>7 DEF Finish, GiveUp, AbortCall, Return, StartCall, RefuseCall
<1> QED  BY <1>0, <1>1, <1>2, <1>3, <1>4, <1>5, <1>6, <1>7 DEF Next, Client

\* An ACK moves the deadline once, and takes the first free slot if any.
LEMMA AckCount ==
    ASSUME Known, TypeOK', Counted, NEW s \in Servers, ReceiveAck(s)
    PROVE  /\ \E n \in Nat : AcksCount(n)'
           /\ OverrunNeedsCrowd'
<1>0. /\ rpc_result \in Results(Payload) /\ 0 \in Slot /\ MaxResults \in Nat
      /\ SidBroadcast \notin Servers \cup {SidAny}
      /\ WaitTime \in Nat /\ AckExtension \in Nat /\ wait_time \in Nat
    BY ResultsAssumption, MdpAssumption DEF Known, TypeOK, ClientTypes, Slot
<1>1. /\ pc = "poll" /\ pc' = "loop" /\ wait_time' = wait_time + AckExtension
      /\ UNCHANGED <<server_sid, port, sent>>
      /\ IF ReservesSlot(rpc_result, server_sid)
         THEN /\ rpc_result' = Reserve(rpc_result, s)
              /\ overrun' = (overrun \/ ReserveOverruns(rpc_result))
         ELSE UNCHANGED <<rpc_result, overrun>>
    BY DEF ReceiveAck, TakeAck, serverVars
<1>2. PICK n \in Nat : AcksCount(n)
    BY <1>1 DEF Counted
<1>3. /\ Cardinality(Used) + 1 <= Cardinality(Used')
      /\ Cardinality(Used) \in Nat /\ Cardinality(Used') \in Nat
      /\ port \in Port
    <2>1. [Next]_vars
        BY DEF Next, Client
    <2> QED  BY <1>1, <2>1, AckUses, UsedGrows DEF Known, TypeOK, ClientTypes
<1> DEFINE k == rpc_client_result_get_insert_index(rpc_result)
<1>4. /\ k \in 0 .. MaxResults
      /\ \A j \in Slot : j < k => rpc_result[j].server_sid # SidAny
    BY <1>0, InsertIndex
<1>5. ASSUME Broadcast
      PROVE  k <= n
    <2>1. CASE k = 0
        BY <2>1
    <2>2. CASE k # 0
        <3>1. k - 1 \in Slot /\ k - 1 < k
            BY <1>0, <1>4, <2>2 DEF Slot
        <3>2. rpc_result[k - 1].server_sid # SidAny
            BY <1>4, <3>1
        <3>3. k - 1 < n
            BY <1>2, <1>5, <3>1, <3>2 DEF AcksCount
        <3> QED  BY <1>4, <3>3
    <2> QED  BY <2>1, <2>2
<1>6. /\ n + 1 <= Cardinality(Used')
      /\ wait_time' = WaitTime + AckExtension * (n + 1)
    <2>1. AckExtension * (n + 1) = AckExtension * n + AckExtension /\ AckExtension * n \in Nat
        BY <1>0, ProductStep
    <2>2. n <= Cardinality(Used) /\ wait_time = WaitTime + AckExtension * n
        BY <1>2 DEF AcksCount
    <2>3. n + 1 <= Cardinality(Used')
        BY <1>3, <2>2
    <2> DEFINE a == AckExtension * n
               b == AckExtension * (n + 1)
    <2> HIDE DEF a, b
    <2>4. a \in Nat /\ b = a + AckExtension /\ wait_time = WaitTime + a
        BY <2>1, <2>2 DEF a, b
    <2>5. wait_time' = WaitTime + b
        BY <1>0, <1>1, <2>4
    <2> QED  BY <2>3, <2>5 DEF b
<1>7. Broadcast => \A i \in Slot :
          rpc_result'[i].server_sid # SidAny => i = k \/ rpc_result[i].server_sid # SidAny
    BY <1>0, <1>1 DEF Reserve, Results
<1>8. Broadcast => \A i \in Slot : rpc_result'[i].server_sid # SidAny => i < n + 1
    <2> SUFFICES ASSUME Broadcast, NEW i \in Slot, rpc_result'[i].server_sid # SidAny
                 PROVE  i < n + 1
        OBVIOUS
    <2>0. i \in Int
        BY <1>0 DEF Slot
    <2>1. i = k \/ rpc_result[i].server_sid # SidAny
        BY <1>7
    <2>2. rpc_result[i].server_sid # SidAny => i < n
        BY <1>2 DEF AcksCount
    <2> QED  BY <1>4, <1>5, <2>0, <2>1, <2>2
<1>9. AcksCount(n + 1)'
    BY <1>1, <1>6, <1>8 DEF AcksCount, Broadcast
<1>10. OverrunNeedsCrowd'
    <2>1. CASE ~ (ReservesSlot(rpc_result, server_sid) /\ ReserveOverruns(rpc_result))
        <3>1. overrun' => overrun
            BY <1>1, <2>1, Zenon
        <3> QED  BY <1>1, <3>1 DEF Counted, OverrunNeedsCrowd
    <2>2. CASE ReservesSlot(rpc_result, server_sid) /\ ReserveOverruns(rpc_result)
        <3>1. Broadcast /\ k = MaxResults
            BY <2>2 DEF ReservesSlot, ReserveOverruns, Broadcast
        <3>2. MaxResults < n + 1
            BY <1>0, <1>4, <1>5, <3>1
        <3>3. Cardinality(Used') <= Cardinality(Servers) * sent[port]
              /\ Cardinality(Servers) \in Nat /\ sent[port] \in Nat
            <4>1. Used' \in SUBSET (Servers \X (1 .. sent[port]))
                BY <1>1 DEF Used
            <4>2. sent[port] \in Nat
                BY <1>3, NumbersHold DEF Numbers, Known
            <4> QED  BY <4>1, <4>2, SomePairs, PairsBound
        <3>4. Cardinality(Servers) * sent[port] = sent[port] * Cardinality(Servers)
            BY <3>3
        <3>5. sent[port] * Cardinality(Servers) \in Int
            BY <3>3
        <3>6. sent'[port] * Cardinality(Servers) > MaxResults
            <4> DEFINE m == sent[port] * Cardinality(Servers)
            <4> HIDE DEF m
            <4>1. m \in Int /\ Cardinality(Used') <= m
                BY <3>3, <3>4, <3>5 DEF m
            <4>2. m > MaxResults
                BY <1>0, <1>3, <1>6, <3>2, <4>1
            <4> QED  BY <1>1, <4>2 DEF m
        <3> QED  BY <1>3, <3>6 DEF OverrunNeedsCrowd
    <2> QED  BY <2>1, <2>2
<1> QED  BY <1>9, <1>10

\* Every step keeps the invariant.
LEMMA CountStep ==
    ASSUME Known, TypeOK', Counted, [Next]_vars
    PROVE  Counted'
<1>0. TypeOK
    BY DEF Known
<1>1. \A p \in Port : sent[p] \in Nat /\ sent'[p] \in Nat /\ sent[p] <= sent'[p]
    <2>1. MaxSends \in Nat
        BY MdpAssumption
    <2> QED  BY <1>0, <2>1, SentGrows DEF TypeOK, ClientTypes
<1>2. overrun' = overrun => OverrunNeedsCrowd'
    <2> SUFFICES ASSUME overrun, overrun' = overrun
                 PROVE  \E p \in Port : sent'[p] * Cardinality(Servers) > MaxResults
        BY DEF OverrunNeedsCrowd
    <2>1. PICK p \in Port : sent[p] * Cardinality(Servers) > MaxResults
        BY DEF Counted, OverrunNeedsCrowd
    <2>2. Cardinality(Servers) \in Nat /\ MaxResults \in Nat
        BY PairsBound, ResultsAssumption
    <2>3. sent[p] * Cardinality(Servers) <= sent'[p] * Cardinality(Servers)
        BY <1>1, <2>2, ProductGrows
    <2>4. sent[p] * Cardinality(Servers) \in Int /\ sent'[p] * Cardinality(Servers) \in Int
        BY <1>1, <2>2
    <2> DEFINE m == sent[p] * Cardinality(Servers)
               n == sent'[p] * Cardinality(Servers)
    <2> HIDE DEF m, n
    <2>5. m \in Int /\ n \in Int /\ m > MaxResults /\ m <= n
        BY <2>1, <2>3, <2>4 DEF m, n
    <2>6. n > MaxResults
        BY <2>2, <2>5
    <2> QED  BY <2>6 DEF n
<1>3. CASE pc' = "idle"
    <2>1. overrun' = overrun
        BY <1>3
        DEF Next, Client, Server, StartCall, RefuseCall, Finish, GiveUp, AbortCall, Return,
            SendCall, AwaitAnswer, PollTimeout, ReceiveError, ReceiveAck, SkipAnswer,
            ReceiveAnswer, ReceiveHash, AwaitFile, Download, AcceptCall, IgnoreCall,
            ExecutionFails, SendResult, ResultUndeliverable, FileArrives, vars, clientVars
    <2> QED  BY <1>2, <1>3, <2>1 DEF Counted
<1>4. CASE pc = "idle" /\ pc' # "idle"
    <2>1. PICK sid \in Destinations : StartCall(sid)
        BY <1>4
        DEF Next, Client, Server, RefuseCall, Finish, GiveUp, AbortCall, Return,
            SendCall, AwaitAnswer, PollTimeout, ReceiveError, ReceiveAck, SkipAnswer,
            ReceiveAnswer, ReceiveHash, AwaitFile, Download, AcceptCall, IgnoreCall,
            ExecutionFails, SendResult, ResultUndeliverable, FileArrives, TakeAck, TakeAnswer, vars,
            clientVars
    <2> QED  BY <2>1, CountStart
<1>5. CASE pc # "idle" /\ pc' # "idle" /\ \E s \in Servers : ReceiveAck(s)
    BY <1>0, <1>5, AckCount, UsedGrows, TimeStep DEF Counted
<1>6. CASE pc # "idle" /\ pc' # "idle" /\ ~ \E s \in Servers : ReceiveAck(s)
    <2>1. PICK n \in Nat : AcksCount(n)
        BY <1>6 DEF Counted
    <2>2. /\ UNCHANGED <<wait_time, overrun, server_sid>>
          /\ Broadcast => \A i \in Slot : rpc_result'[i].server_sid = rpc_result[i].server_sid
        BY <1>0, <1>6, QuietCount, Moves
    <2>3. n <= Cardinality(Used')
        BY <1>0, <1>6, <2>1, UsedGrows DEF AcksCount
    <2>4. AcksCount(n)'
        BY <2>1, <2>2, <2>3 DEF AcksCount, Broadcast
    <2> QED  BY <1>0, <1>2, <1>6, <2>2, <2>4, UsedGrows, TimeStep DEF Counted
<1> QED  BY <1>3, <1>4, <1>5, <1>6

\* The invariant, with those it rests on.
LEMMA CountedAlways == Spec => []Counted
<1>1. Init => Counted
    BY DEF Init, Counted, OverrunNeedsCrowd
<1>2. Known /\ TypeOK' /\ Counted /\ [Next]_vars => Counted'
    BY CountStep
<1> QED  BY <1>1, <1>2, KnownAlways, TypeCorrect, PTL DEF Spec

\* However many servers there are and whatever they answer, the deadline of a call
\* lies no further off than the ACKs to its sends can push it, and, but for the time it
\* sleeps until a file comes, the call does not outlast it by more than one poll.
THEOREM WaitStaysBounded == Spec => []WaitIsBounded
<1>1. Known /\ Counted => WaitIsBounded
    <2> SUFFICES ASSUME Known, Counted, pc # "idle"
                 PROVE  wait_time <= WaitTime + AckExtension * Cardinality(Servers) * sent[port]
        BY DEF WaitIsBounded, Counted
    <2>1. PICK n \in Nat : n <= Cardinality(Used) /\ wait_time = WaitTime + AckExtension * n
        BY DEF Counted, AcksCount
    <2>2. WaitTime \in Nat /\ AckExtension \in Nat /\ sent[port] \in Nat
        BY MdpAssumption, NumbersHold DEF Known, Numbers, TypeOK, ClientTypes
    <2>3. /\ Cardinality(Used) \in Nat /\ Cardinality(Servers) \in Nat
          /\ Cardinality(Used) <= Cardinality(Servers) * sent[port]
        BY <2>2, SomePairs, PairsBound DEF Used
    <2> DEFINE a == Cardinality(Servers)
               b == sent[port]
               m == a * b
    <2>4. a * b \in Nat /\ AckExtension * (a * b) = AckExtension * a * b
        BY <2>2, <2>3
    <2> HIDE DEF m
    <2>5. m \in Nat /\ n <= m
        BY <2>1, <2>3, <2>4 DEF m
    <2>6. AckExtension * n <= AckExtension * m
        BY <2>2, <2>5, ProductGrows
    <2>7. AckExtension * m = AckExtension * a * b
        BY <2>4 DEF m
    <2> DEFINE x == AckExtension * n
               y == AckExtension * a * b
    <2>8. x \in Nat /\ y \in Nat
        BY <2>2, <2>3
    <2> HIDE DEF x, y
    <2>9. x <= y /\ wait_time = WaitTime + x
        BY <2>1, <2>6, <2>7 DEF x, y
    <2>10. wait_time <= WaitTime + y
        BY <2>2, <2>8, <2>9
    <2> QED  BY <2>10 DEF y
<1> QED  BY <1>1, KnownAlways, CountedAlways, PTL

\* The array is overrun only by a call to more servers, counted once per send, than it
\* has slots: with MaxResults servers or fewer, not by a call that is sent once.
THEOREM OverrunIsCrowded == Spec => []OverrunNeedsCrowd
<1>1. Counted => OverrunNeedsCrowd
    BY DEF Counted
<1> QED  BY <1>1, CountedAlways, PTL
=============================================================================
