--------------------------- MODULE TransparentCall ---------------------------
(***************************************************************************)
(* Calls over all three transports: rpc_client_call, which picks a         *)
(* transport and falls back to Rhizome (rpc_client.c), and an application  *)
(* that also calls single transports directly.  The calls share the global *)
(* flag `received', the result array, and the servers.                     *)
(*                                                                         *)
(* MSP is MspCall, step by step.  The calls over MDP and Rhizome are taken *)
(* from MdpCall and RhizomeCall with their effects on what is shared, and  *)
(* without their clocks, cursors and counts: a deadline may pass at any    *)
(* moment, a packet may be lost, and of the bundles in its store a call    *)
(* may read any, or none.  ACKs that would overrun the array are left to   *)
(* those modules.                                                          *)
(***************************************************************************)
EXTENDS MspCall

CONSTANTS
    MdpMode,      \* servers started by rpc_server_listen_mdp_broadcast
    RhizomeMode,  \* servers started by rpc_server_listen_rhizome
    Destinations, \* Destinations[p]: SIDs the application may call in its p-th call
    Direct,       \* transports the application calls directly
    MaxSends,     \* bound: sends of a call over MDP that reach the network
    MaxRestarts   \* bound: restarts of one server

Sid == Servers \cup {SidAny, SidBroadcast}

ASSUME TransparentAssumption ==
    /\ MdpMode \subseteq Servers
    /\ RhizomeMode \subseteq Servers
    /\ AllMode \cap (MspMode \cup MdpMode \cup RhizomeMode) = {}
    /\ MspMode \cap (MdpMode \cup RhizomeMode) = {}
    /\ MdpMode \cap RhizomeMode = {}
    /\ Destinations \in [1 .. MaxCalls -> SUBSET Sid]
    /\ Direct \subseteq {"msp", "mdp", "rhizome"}
    /\ MaxSends \in Nat
    /\ MaxRestarts \in Nat
    /\ NoContent \notin Payload

VARIABLES
    stage,       \* "idle"; "enter" before a transport is used; "msp", "mdp" or
                 \* "rhizome" in its call; "fetch" while one of the last two waits
                 \* for an answer file; "cascade" between two ifs of rpc_client_call,
                 \* "judge" in the body of one, when Rhizome has returned
    transport,   \* the transport of the call in progress, or the latest one
    transparent, \* the application has called rpc_client_call
    fresh,       \* the flag was 0 when the latest call began
    step,        \* the code that the next if, or the one at hand, looks for
    call_return, \* the variable of that name
    returned,    \* what the application has been given
    awaited,     \* the server whose answer file is being fetched
    acked,       \* history: servers whose ACK the latest call has received
    packets,     \* packets on their way to the MDP socket of the latest call
    bundles,     \* ACKs and results for the client, or for SidBroadcast, in Rhizome
    read,        \* bundles the listener of the latest call has gone past
    via,         \* via[s]: the transport of the call server s is executing, or "msp"
    copies,      \* copies[t][s][p]: packets (MDP) with call p that s may receive,
                 \* bundles (Rhizome) with it that the store of s may hold
    done,        \* done[s]: calls of the store that the process of s has executed, and
                 \* does not take again: the list done_calls
    restarts,    \* history: restarts of server s
    issued       \* history: issued[t][p]: how often call p has been issued over t

stageVars == <<stage, transport, transparent, fresh, step, call_return, returned>>
netVars == <<awaited, acked, packets, bundles, read, via, copies, done, restarts, issued>>
tvars == <<stageVars, netVars>>
vars == <<mspVars, tvars>>

Transports == {"msp", "mdp", "rhizome"}
Broadcast == server_sid = SidBroadcast
Recipients == IF server_sid \in Servers THEN {server_sid} ELSE Servers
Listeners(t) ==
    AllMode \cup CASE t = "msp" -> MspMode [] t = "mdp" -> MdpMode
                   [] t = "rhizome" -> RhizomeMode

\* The results in Rhizome that an MSP or MDP server could not send are bundles
\* like those of the Rhizome servers; only the recipient tells them apart.
Bundle == [kind : {"ack"} \cup Answers, server : Servers, call : Port, to : {Me, SidBroadcast}]
MailedBundles ==
    {[kind |-> m[3], server |-> m[1], call |-> m[2], to |-> Me] : m \in mailed}

TypeOK ==
    /\ MspTypes
    /\ stage \in {"idle", "enter", "msp", "mdp", "rhizome", "fetch", "cascade", "judge"}
    /\ transport \in Transports
    /\ transparent \in BOOLEAN
    /\ fresh \in BOOLEAN
    /\ step \in -1 .. 2
    /\ call_return \in -1 .. 2
    /\ returned \in -2 .. 2
    /\ awaited \in Servers \cup {SidAny}
    /\ acked \subseteq Servers
    /\ packets \subseteq ({"ack"} \cup Answers) \X Servers
    /\ bundles \subseteq Bundle
    /\ read \subseteq bundles \cup MailedBundles
    /\ via \in [Servers -> Transports]
    /\ copies \in [{"mdp", "rhizome"} -> [Servers -> [Port -> Nat]]]
    /\ done \in [Servers -> SUBSET Port]
    /\ restarts \in [Servers -> 0 .. MaxRestarts]
    /\ issued \in [Transports -> [Port -> Nat]]
    /\ InCall => stage = "msp" /\ transport = "msp"
    /\ stage = "fetch" => awaited \in Servers /\ transport # "msp"

Init ==
    /\ MspInit
    /\ stage = "idle"
    /\ transport = "msp"
    /\ transparent = FALSE
    /\ fresh = TRUE
    /\ step = -1
    /\ call_return = -1
    /\ returned = NoCode
    /\ awaited = SidAny
    /\ acked = {}
    /\ packets = {}
    /\ bundles = {}
    /\ read = {}
    /\ via = [s \in Servers |-> "msp"]
    /\ copies = [t \in {"mdp", "rhizome"} |-> [s \in Servers |-> [p \in Port |-> 0]]]
    /\ done = [s \in Servers |-> {}]
    /\ restarts = [s \in Servers |-> 0]
    /\ issued = [t \in Transports |-> [p \in Port |-> 0]]

-----------------------------------------------------------------------------
(* The application, and the entry into a transport                          *)

Begin(sid, t) ==
    /\ stage = "idle"
    /\ port < MaxCalls
    /\ sid \in Destinations[port + 1]
    /\ stage' = "enter"
    /\ transport' = t
    /\ server_sid' = sid
    /\ port' = port + 1
    /\ step' = -1
    /\ call_return' = -1
    /\ returned' = NoCode
    /\ acked' = {}
    /\ UNCHANGED <<callVars, rpc_result, serverVars, files, awaited, packets,
                   bundles, read, via, copies, done,
                   restarts, issued>>

\* Mutant: rpc_client_call starts with what the last call has left.
FlagKept == received

\* rpc_client_call starts afresh.
FlagOfCall == 0

\* A SID is called over MSP, "any" and "all" over MDP.
Call(sid) ==
    /\ Begin(sid, IF sid \in Servers THEN "msp" ELSE "mdp")
    /\ received' = FlagOfCall
    /\ fresh' = TRUE
    /\ transparent' = TRUE

\* The application, or main.c, calls a transport itself, with the flag as it is.
CallDirectly(sid, t) ==
    /\ t \in Direct
    /\ t = "msp" => sid \in Servers
    /\ Begin(sid, t)
    /\ fresh' = (received = 0)
    /\ transparent' = FALSE
    /\ UNCHANGED received

\* A transport hands its code to the cascade, or to the application.
Leave(c) ==
    /\ IF transparent
       THEN /\ stage' = IF transport = "rhizome" THEN "judge" ELSE "cascade"
            /\ call_return' = c
            /\ UNCHANGED returned
       ELSE stage' = "idle" /\ returned' = c /\ UNCHANGED call_return
    /\ UNCHANGED <<transport, transparent, fresh, step>>

Enter(t) ==
    /\ stage = "enter"
    /\ transport = t
    /\ stage' = t
    /\ UNCHANGED <<transport, transparent, fresh, step, call_return, returned>>

\* One copy more of the call in progress for each of its recipients.
CopiesSent(t) ==
    [copies EXCEPT ![t] = [s \in Servers |-> [p \in Port |->
        copies[t][s][p] + IF s \in Recipients /\ p = port THEN 1 ELSE 0]]]

\* The called server is not in the routing table: neither flag nor array changes.
Unreachable ==
    /\ stage = "enter"
    /\ transport \in {"msp", "mdp"}
    /\ server_sid \in Servers
    /\ Leave(-1)
    /\ UNCHANGED <<mspVars, netVars>>

EnterMsp ==
    /\ Enter("msp")
    /\ Connect(server_sid, port)
    /\ issued' = [issued EXCEPT !["msp"][port] = @ + 1]
    /\ UNCHANGED <<appVars, awaited, acked, packets, bundles, read, via, copies, done,
                   restarts>>

EnterMdp ==
    /\ Enter("mdp")
    /\ rpc_result' = ClearedResults
    /\ AddParameterFile(port)
    /\ UNCHANGED <<callVars, received, appVars, serverVars, netVars>>

\* The listener goes through its store from the newest bundle on.
EnterRhizome ==
    /\ Enter("rhizome")
    /\ received' = 0
    /\ rpc_result' = ClearedResults
    /\ AddParameterFile(port)
    /\ issued' = [issued EXCEPT !["rhizome"][port] = @ + 1]
    /\ copies' = CopiesSent("rhizome")
    /\ UNCHANGED <<callVars, appVars, serverVars, awaited, acked, packets, bundles,
                   read, via, done, restarts>>

\* The socket cannot be had, or the bundle cannot be inserted.  A parameter file is
\* in the store by then if the call goes over Rhizome, and not yet if over MDP.
EntryFails ==
    /\ stage = "enter"
    /\ transport \in {"mdp", "rhizome"}
    /\ rpc_result' = ClearedResults
    /\ received' = IF transport = "rhizome" THEN 0 ELSE received
    /\ IF transport = "rhizome" THEN AddParameterFile(port) ELSE UNCHANGED files
    /\ Leave(-1)
    /\ UNCHANGED <<callVars, appVars, serverVars, netVars>>

-----------------------------------------------------------------------------
(* rpc_client_call: three ifs in a row, for the codes -1, 0 and 1           *)

\* The ifs for other codes, and those behind which the cascade stands already, are
\* passed over.  The one for this code calls Rhizome ...
FallBack ==
    /\ stage = "cascade"
    /\ call_return \in step .. 1
    /\ stage' = "enter"
    /\ transport' = "rhizome"
    /\ step' = call_return
    /\ UNCHANGED <<mspVars, transparent, fresh, call_return, returned, netVars>>

\* Mutant: the comparison is the wrong way round.
JudgeTurned ==
    /\ stage = "judge"
    /\ IF call_return > step
       THEN stage' = "idle" /\ returned' = -1 /\ step' = -1
       ELSE stage' = "cascade" /\ step' = step + 1 /\ UNCHANGED returned
    /\ UNCHANGED <<mspVars, transport, transparent, fresh, call_return, netVars>>

\* ... and gives up if that returns the same code, or a lower one.
JudgeRhizome ==
    /\ stage = "judge"
    /\ IF call_return <= step
       THEN stage' = "idle" /\ returned' = -1 /\ step' = -1
       ELSE stage' = "cascade" /\ step' = step + 1 /\ UNCHANGED returned
    /\ UNCHANGED <<mspVars, transport, transparent, fresh, call_return, netVars>>

\* No if that is left is for this code.
ReturnToCaller ==
    /\ stage = "cascade"
    /\ call_return \notin step .. 1
    /\ stage' = "idle"
    /\ returned' = call_return
    /\ step' = -1
    /\ UNCHANGED <<mspVars, transport, transparent, fresh, call_return, netVars>>

-----------------------------------------------------------------------------
(* The client inside a transport                                            *)

\* MSP, as in MspCall.
MspAck(state) ==
    /\ ReceiveAck(state)
    /\ acked' = acked \cup {server_sid}
    /\ UNCHANGED <<stageVars, awaited, packets, bundles, read, via, copies, done,
                   restarts, issued>>

MspReturns ==
    /\ stage = "msp"
    /\ ~InCall
    /\ Leave(code)
    /\ code' = NoCode
    /\ UNCHANGED <<pc, link, stream, flagVars, appVars, serverVars, files, netVars>>

\* An "all" call has a place for the answers of servers that have a slot.
HasPlace(s) == Broadcast => _rpc_client_result_get_sid_index(rpc_result, s) # -1

\* An ACK is noted, and takes a slot if the call went to all.
NoteAck(s) ==
    /\ acked' = acked \cup {s}
    /\ rpc_result' = IF ReservesSlot(rpc_result, server_sid)
                     THEN Reserve(rpc_result, s) ELSE rpc_result

\* An answer ends a call to one server or to any, and a call to all if it is
\* that of the last slot; then the flag becomes `answered'.
StoreAnswer(s, payload, answered) ==
    LET position == _rpc_client_result_get_sid_index(rpc_result, s)
        complete == ~Broadcast \/ position = MaxResults - 1
    IN  /\ rpc_result' = IF Broadcast THEN StoreReserved(rpc_result, position, payload)
                                      ELSE StoreSingle(rpc_result, s, payload)
        /\ received' = IF complete THEN answered ELSE received

\* The call is sent as long as the flag is 0.
SendMdp ==
    /\ stage = "mdp"
    /\ received = 0
    /\ issued["mdp"][port] < MaxSends
    /\ issued' = [issued EXCEPT !["mdp"][port] = @ + 1]
    /\ copies' = CopiesSent("mdp")
    /\ UNCHANGED <<mspVars, stageVars, awaited, acked, packets, bundles, read, via,
                   done, restarts>>

MdpPacket(kind, s) ==
    /\ stage = "mdp"
    /\ received \in {0, 1}
    /\ <<kind, s>> \in packets
    /\ packets' = packets \ {<<kind, s>>}
    /\ UNCHANGED <<callVars, appVars, serverVars, files, transport, transparent, fresh,
                   step, call_return, returned, bundles, read, via, copies, done,
                   restarts, issued>>

MdpAck(s) ==
    /\ MdpPacket("ack", s)
    /\ received' = 1
    /\ NoteAck(s)
    /\ UNCHANGED <<stage, awaited>>

MdpAnswer(s) ==
    /\ MdpPacket("response", s)
    /\ HasPlace(s)
    /\ StoreAnswer(s, <<s, port>>, 2)
    /\ UNCHANGED <<stage, awaited, acked>>

MdpHash(s) ==
    /\ MdpPacket("hash", s)
    /\ HasPlace(s)
    /\ stage' = "fetch"
    /\ awaited' = s
    /\ UNCHANGED <<flagVars, acked>>

\* Mutant: only a full array is a success.
CollectedAll == Broadcast /\ rpc_client_result_get_insert_index(rpc_result) = MaxResults

\* What an "all" call is content with when its time is up.
Collected == Broadcast /\ rpc_client_result_get_insert_index(rpc_result) > 0

\* The loop ends: with an answer, or a flag left by an earlier call; at the
\* deadline; or because the call cannot be sent.
MdpReturns ==
    /\ stage = "mdp"
    /\ \/ received \notin {0, 1} /\ Leave(received)
       \/ received \in {0, 1} /\ Leave(IF Collected THEN 2 ELSE received)
       \/ received = 0 /\ Leave(-1)
    /\ packets' = {}
    /\ UNCHANGED <<mspVars, awaited, acked, bundles, read, via, copies, done,
                   restarts, issued>>

\* The listener wants bundles with its own SID as the recipient.
ForMe(bundle) == bundle.to = Me

ReadBundle(bundle) ==
    /\ stage = "rhizome"
    /\ received = 0
    /\ bundle \in (bundles \cup MailedBundles) \ read
    /\ ForMe(bundle)
    /\ read' = read \cup {bundle}
    /\ UNCHANGED <<callVars, appVars, serverVars, files, transport, transparent, fresh,
                   step, call_return, returned, packets, bundles, via, copies,
                   done, restarts, issued>>

ReadAck(bundle) ==
    /\ ReadBundle(bundle)
    /\ bundle.kind = "ack"
    /\ NoteAck(bundle.server)
    /\ UNCHANGED <<received, stage, awaited>>

ReadAnswer(bundle) ==
    /\ ReadBundle(bundle)
    /\ bundle.kind = "response"
    /\ HasPlace(bundle.server)
    /\ StoreAnswer(bundle.server, <<bundle.server, bundle.call>>, 1)
    /\ UNCHANGED <<stage, awaited, acked>>

ReadHash(bundle) ==
    /\ ReadBundle(bundle)
    /\ bundle.kind = "hash"
    /\ HasPlace(bundle.server)
    /\ stage' = "fetch"
    /\ awaited' = bundle.server
    /\ UNCHANGED <<flagVars, acked>>

\* Mutant: the ACK decides about the code at the deadline.
DeadlineCodeOfAck == IF Collected THEN 2 ELSE IF acked # {} THEN 1 ELSE -1

\* Whatever was acknowledged, the deadline makes a call without an answer fail.
DeadlineCode == IF Collected THEN 2 ELSE -1

\* The loop ends: with an answer; at the deadline; or because the store cannot
\* be listed or a bundle not be decrypted.
RhizomeReturns ==
    /\ stage = "rhizome"
    /\ \/ received = 1 /\ Leave(2) /\ UNCHANGED received
       \/ received = 0 /\ Leave(DeadlineCode) /\ received' = IF Collected THEN 1 ELSE 0
       \/ received = 0 /\ Leave(-1) /\ UNCHANGED received
    /\ read' = {}
    /\ UNCHANGED <<callVars, rpc_result, appVars, serverVars, files, awaited, acked,
                   packets, bundles, via, copies,
                   done, restarts, issued>>

\* MDP and Rhizome take the newest file of the procedure, the client's own
\* parameter file included.
Fetch ==
    /\ stage = "fetch"
    /\ files # <<>>
    /\ StoreAnswer(awaited, files[Len(files)], IF transport = "mdp" THEN 2 ELSE 1)
    /\ stage' = transport
    /\ awaited' = SidAny
    /\ UNCHANGED <<callVars, appVars, serverVars, files, transport, transparent, fresh,
                   step, call_return, returned, acked, packets, bundles, read, via,
                   copies, done, restarts, issued>>

-----------------------------------------------------------------------------
(* The servers: one thread for all their transports                         *)

AcceptMsp(s) ==
    /\ TakeCall(s)
    /\ via' = IF serving'[s] # 0 THEN [via EXCEPT ![s] = "msp"] ELSE via
    /\ UNCHANGED <<stageVars, awaited, acked, packets, bundles, read, copies, done,
                   restarts, issued>>

\* Mutant: the server leaves the call where it was.
CopiesKept(s, p, t) == copies

\* A packet is gone when it has been received; a bundle stays in the store.
CopiesWithout(s, p, t) ==
    IF t = "rhizome" THEN copies ELSE [copies EXCEPT ![t][s][p] = @ - 1]

\* Of the bundles in the store, those on the list of the process are skipped.
TakeCopy(s, p, t) ==
    /\ s \in Listeners(t)
    /\ serving[s] = 0
    /\ copies[t][s][p] > 0
    /\ t = "rhizome" => p \notin done[s]
    /\ copies' = CopiesWithout(s, p, t)
    /\ UNCHANGED <<clientVars, requests, attached, executed, mailed, published, files,
                   stageVars, awaited, acked, read, restarts, issued>>

\* What server s sends to the MDP socket of call p.
ToSocket(s, p, kind) ==
    packets' = IF transport = "mdp" /\ stage \in {"mdp", "fetch"} /\ p = port
               THEN packets \cup {<<kind, s>>} ELSE packets

ToRhizome(s, p, kind, recipient) ==
    bundles' = bundles \cup
        {[kind |-> kind, server |-> s, call |-> p, to |-> recipient]}

\* The call is offered: ACK it over its transport and execute it.
AcceptCopy(s, p, t) ==
    /\ TakeCopy(s, p, t)
    /\ serving' = [serving EXCEPT ![s] = p]
    /\ via' = [via EXCEPT ![s] = t]
    /\ IF t = "mdp"
       THEN ToSocket(s, p, "ack") /\ UNCHANGED bundles
       ELSE ToRhizome(s, p, "ack", Me) /\ UNCHANGED packets
    /\ UNCHANGED done

\* It is not.  Over Rhizome that stops the server, as RhizomeCall shows: it takes no
\* step any more.
IgnoreCopy(s, p, t) ==
    /\ TakeCopy(s, p, t)
    /\ t = "mdp"
    /\ UNCHANGED <<serving, via, packets, bundles, done>>

\* Server s has no call any more.
Idle(s) == [via EXCEPT ![s] = "msp"]

\* Mutant: a server on MDP answers whatever has become of the execution.
AnswersAnyway(s, answer) ==
    /\ ExecutionFails(s, answer)
    /\ ToSocket(s, serving[s], answer)
    /\ via' = Idle(s)
    /\ UNCHANGED <<stageVars, awaited, acked, bundles, read, copies, done, restarts, issued>>

\* A call over Rhizome is not done until an execution succeeds.
Fails(s, answer) ==
    /\ ExecutionFails(s, answer)
    /\ via' = Idle(s)
    /\ UNCHANGED <<stageVars, awaited, acked, packets, bundles, read, copies, done,
                   restarts, issued>>

AnswerMsp(s) ==
    /\ via[s] = "msp"
    /\ Deliver(s)
    /\ UNCHANGED tvars

\* The caller is reachable; if not, a server on all transports addresses the
\* result to SidBroadcast, and any other drops it.
AnswerMdp(s, answer) ==
    /\ via[s] = "mdp"
    /\ Executes(s, answer)
    /\ \/ ToSocket(s, serving[s], answer) /\ UNCHANGED bundles
       \/ /\ s \in AllMode
          /\ ToRhizome(s, serving[s], answer, SidBroadcast)
          /\ UNCHANGED packets
       \/ UNCHANGED <<packets, bundles>>
    /\ via' = Idle(s)
    /\ UNCHANGED <<clientVars, requests, mailed, files, stageVars, awaited,
                   acked, read, copies, done, restarts, issued>>

AnswerRhizome(s, answer) ==
    /\ via[s] = "rhizome"
    /\ Executes(s, answer)
    /\ ToRhizome(s, serving[s], answer, Me)
    /\ done' = [done EXCEPT ![s] = @ \cup {serving[s]}]
    /\ via' = Idle(s)
    /\ UNCHANGED <<clientVars, requests, mailed, files, stageVars, awaited,
                   acked, packets, read, copies, restarts, issued>>

\* The process ends and is started again, perhaps while it executes a call: that counts
\* as executed, as it may have had its effect, but nobody gets an answer.  Its list was
\* in memory; stores, and what waits for the server elsewhere, stay.  (If it has
\* nothing in memory, a restart changes nothing.)
ServerRestarts(s) ==
    /\ restarts[s] < MaxRestarts
    /\ restarts' = [restarts EXCEPT ![s] = @ + 1]
    /\ \/ \E answer \in Answers : Executes(s, answer)
       \/ serving[s] = 0 /\ done[s] # {} /\ UNCHANGED serverVars
    /\ done' = [done EXCEPT ![s] = {}]
    /\ via' = Idle(s)
    /\ UNCHANGED <<clientVars, requests, mailed, files, stageVars, awaited, acked, packets,
                   bundles, read, copies, issued>>

-----------------------------------------------------------------------------
\* The library hands a packet to the handler.
Handled ==
    \E state \in States :
        \/ MspAck(state)
        \/ (ReceiveAnswer(state) \/ ReceiveHash(state)) /\ UNCHANGED tvars

\* The handler hears of the end of the connection.
LinkEnds == (\E state \in States : ConnectionEnds(state)) /\ UNCHANGED tvars

MspLoop == Loop /\ UNCHANGED tvars

\* What the thread of the client does next, connections apart.
Control ==
    \/ Unreachable \/ EnterMsp \/ EnterMdp \/ EnterRhizome \/ EntryFails
    \/ FallBack \/ JudgeRhizome \/ ReturnToCaller
    \/ MspReturns \/ MdpReturns \/ RhizomeReturns
    \/ SendMdp
    \/ \E s \in Servers : MdpAck(s) \/ MdpAnswer(s) \/ MdpHash(s)
    \/ \E bundle \in bundles \cup MailedBundles :
          ReadAck(bundle) \/ ReadAnswer(bundle) \/ ReadHash(bundle)
    \/ Fetch

Server(s) ==
    \/ AcceptMsp(s) \/ AnswerMsp(s)
    \/ \E p \in Port, t \in {"mdp", "rhizome"} : AcceptCopy(s, p, t) \/ IgnoreCopy(s, p, t)
    \/ \E answer \in Answers : Fails(s, answer) \/ AnswerMdp(s, answer) \/ AnswerRhizome(s, answer)
    \/ ServerRestarts(s)

Next ==
    \/ \E sid \in Sid : Call(sid) \/ \E t \in Direct : CallDirectly(sid, t)
    \/ Control
    \/ MspLoop
    \/ Handled
    \/ LinkEnds
    \/ \E s \in Servers : Server(s)
    \/ FileArrives /\ UNCHANGED tvars

Spec == Init /\ [][Next]_vars

\* The client process runs, and a packet that has come over the connection is
\* handed to the handler in one of the rounds.  Nothing is assumed of servers,
\* connections and stores.
FairSpec ==
    /\ Spec
    /\ WF_vars(Control)
    /\ WF_vars(MspLoop)
    /\ SF_vars(Handled)

-----------------------------------------------------------------------------
(* Safety                                                                   *)

\* The bundle of call p is in the store of server s, and its process is yet to take it.
Pending(s, p) ==
    /\ copies["rhizome"][s][p] > 0
    /\ p \notin done[s]
    /\ ~(serving[s] = p /\ via[s] = "rhizome")

\* Every execution of a call, every copy in flight or waiting, and every copy being
\* served stems from an issue of the call over one of the transports, or, for a call
\* that is in Rhizome, from a restart of the server: work is repeated only because the
\* client has asked again, or because the server has forgotten what it had done.
WorkIsBounded ==
    \A s \in Servers, p \in Port :
        executed[s][p] + copies["mdp"][s][p]
            + (IF Pending(s, p) THEN 1 ELSE 0)
            + (IF <<s, p>> \in requests THEN 1 ELSE 0)
            + (IF serving[s] = p THEN 1 ELSE 0)
        <= issued["msp"][p] + issued["mdp"][p] + issued["rhizome"][p]
            + (IF issued["rhizome"][p] = 0 THEN 0 ELSE restarts[s])

\* The cascade has three calls of Rhizome and makes at most one, because Rhizome
\* returns 2 or -1 and nothing between; and MSP is used once, or MDP, not both.
IssuedOnce ==
    \A p \in Port :
        /\ issued["rhizome"][p] <= 1
        /\ issued["msp"][p] + (IF issued["mdp"][p] > 0 THEN 1 ELSE 0) <= 1

\* A fallback to Rhizome clears the array; it never throws away an answer that
\* this call has received.
FallbackDiscardsNothing ==
    transparent /\ stage = "enter" /\ transport = "rhizome" =>
        \A i \in Slot : rpc_result[i].content # NoContent => rpc_result[i].content[2] # port

\* A call to one server that the server has acknowledged over MSP is not issued
\* again over Rhizome.
AcknowledgedIsNotRepeated ==
    transparent /\ server_sid \in Servers /\ stage = "enter" /\ transport = "rhizome" =>
        acked = {}

\* A call that begins with the flag another call has left may return it at once, and
\* keeps no promise.  rpc_client_call and a call over Rhizome reset it.
KeepsContract == fresh \/ transport = "rhizome"

\* What the application is told, whatever calls it has made before: 2 only with an
\* answer (for an "all" call, with an ACK), 1 only after an ACK, 0 only without one,
\* and -1 for a call to one server or to any only if no answer to it has been stored.
ReturnsTellTheTruth ==
    stage = "idle" /\ KeepsContract =>
        /\ returned = 2 => IF Broadcast THEN acked # {} ELSE rpc_result[0].content # NoContent
        /\ returned = 1 => ~Broadcast /\ acked # {}
        /\ returned = 0 => acked = {}
        /\ returned = -1 /\ ~Broadcast =>
              \A i \in Slot : rpc_result[i].content # NoContent
                                => rpc_result[i].content[2] # port

\* A text in the array is the result of an execution, by the server of its slot, of the
\* call it answers, be it this call or an earlier one: over whatever transport the call
\* was made and the answer came back.
TextsAreReal ==
    \A i \in Slot :
        LET content == rpc_result[i].content IN
        content # NoContent /\ content[1] # Me /\ content[2] \notin FileCalls =>
            /\ rpc_result[i].server_sid = content[1]
            /\ executed[content[1]][content[2]] > 0

-----------------------------------------------------------------------------
(* The contract                                                             *)

\* The array does not hold answers to the call: it has not been cleared yet, or a call
\* to one server or to any has failed, perhaps without having touched it.
NoneHeard ==
    \/ stage = "enter"
    \/ /\ ~Broadcast
       /\ \/ stage = "idle" /\ returned # 2
          \/ stage \in {"cascade", "judge"} /\ call_return # 2

\* Servers whose answer the latest call has stored.
HeardFrom ==
    IF NoneHeard THEN {}
    ELSE {s \in Servers : \E i \in Slot :
             rpc_result[i].server_sid = s /\ rpc_result[i].content # NoContent}

\* The calls that keep no promise are described as refused ones.
Abstract == INSTANCE RpcCall WITH
                phase <- IF stage # "idle" /\ KeepsContract THEN "waiting" ELSE "idle",
                dest <- server_sid,
                accepted <- IF KeepsContract THEN acked ELSE {},
                answered <- IF KeepsContract THEN HeardFrom ELSE {},
                code <- IF KeepsContract THEN returned ELSE -1,
                Late <- TRUE

\* Whatever it does underneath, over one transport or over two, rpc_client_call is one
\* call as RpcCall describes it; and so is the call of a single transport.
ImplementsRpcCall == Abstract!Spec

-----------------------------------------------------------------------------
(* Liveness                                                                 *)

\* What a call can wait for without a deadline: a connection that is silent, or
\* that has ended after an ACK; a file that has not come.
Waits ==
    \/ pc \in {"loop", "poll"} /\ stream = <<>> /\ (link = "open" \/ received = 1)
    \/ pc = "download" /\ FilesOfServer = {}
    \/ stage = "fetch" /\ files = <<>>

\* Calls return, unless one waits for ever for one of these; in particular a
\* connection that ends before an ACK makes the call fail, not hang.
CallsEnd == []<>(stage = "idle") \/ <>[]Waits

-----------------------------------------------------------------------------
(* What documents and comments say and the code does not do: each is the    *)
(* property of a run that finds it violated                                 *)

\* "`1` if ACK was received but no result" (doc/technology.md, rpc_client_call): a call
\* that has been acknowledged and has no result returns 1.
AckWithoutResultIsOne ==
    stage = "idle" /\ transparent /\ acked # {}
        /\ (\A i \in Slot : rpc_result[i].content = NoContent)
    => returned = 1

\* "If this is not possible [...] the result will be sent back via Rhizome"
\* (doc/technology.md, rpc_server_listen): a result that is in Rhizome while its caller
\* listens there is one the caller takes.
FallbackFindsResult ==
    stage = "rhizome" =>
        \A bundle \in bundles \cup MailedBundles :
            bundle.kind \in Answers /\ bundle.call = port => ForMe(bundle)

\* "If the socket is closed, start the Rhizome listener, but only if this was a
\* transparetn call. Otherwise we just return." (rpc_client_msp.c): a call that has been
\* acknowledged and has lost its connection gets out of the loop over MSP.
LostCallEnds ==
    InCall /\ received = 1 /\ link # "open" /\ pc # "download" ~> ~InCall

=============================================================================
