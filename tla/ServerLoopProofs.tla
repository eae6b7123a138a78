-------------------------- MODULE ServerLoopProofs --------------------------
(***************************************************************************)
(* Theorems about ServerLoop, for every set of commands, every rpc.conf,   *)
(* every set of binaries, and any number of listen calls and calls.        *)
(***************************************************************************)
EXTENDS ServerLoop, CallPayloadProofs

-----------------------------------------------------------------------------
(* The inductive invariant                                                  *)

\* Inside a listen call each of its sockets is open, and what is open besides has
\* been left by a setup that failed.
Held(t) == IF at # "out" /\ Uses(server_mode, t) THEN 1 ELSE 0

SocketsHeld ==
    /\ setup_failures <= listens
    /\ \A t \in {"msp", "mdp"} : sockets[t] \in Held(t) .. setup_failures + Held(t)

\* The call being handled is one of the store if it came that way, has the
\* requirements that were sent, and a file of nobody but its caller, once it runs.
CallAsTaken ==
    InCall =>
        /\ DOMAIN rp = {"via", "call", "name", "paramc", "params", "file", "requirements"}
        /\ rp.via = "rhizome" => rp.call \in bundles
        /\ rp.requirements = _rpc_server_parse_requirements(Sent[rp.call].requirements)
        /\ at # "running" => rp.file = <<>>
        /\ \A i \in DOMAIN rp.file : rp.file[i].caller = rp.call.caller

IInv == TypeOK /\ SocketsHeld /\ CallAsTaken

-----------------------------------------------------------------------------
(* Types                                                                    *)

\* The count of a call fits a byte, however many parameters the command has.
LEMMA ParsedCount ==
    ASSUME NEW c \in Commands
    PROVE  Parsed[c].paramc \in 0 .. ByteRange - 1
<1>1. Len(Params(c.args)) \in Nat
    <2>1. c.args \in Seq(Seq(STRING)) /\ Len(c.args) \in Nat \ {0}
        BY ServerAssumption
    <2>2. SubSeq(c.args, 1, Len(c.args) - 1) \in Seq(Seq(STRING))
        BY <2>1
    <2> QED  BY <2>1, <2>2 DEF Params, Front
<1>2. CountByte(Len(Params(c.args))) \in 0 .. ByteRange - 1
    BY <1>1, PayloadAssumption DEF CountByte
<1>3. Sent[c].count = CountByte(Len(Params(c.args)))
    BY DEF Sent, _rpc_client_prepare_call_payload
<1>4. Parsed[c].paramc = Sent[c].count
    BY DEF Parsed, _rpc_server_parse_call
<1> QED  BY <1>2, <1>3, <1>4

\* A call that ends leaves no trace but the mark of a bundle that is done.
LEMMA FinishType ==
    ASSUME TypeOK, CallAsTaken, InCall, NEW finished, Finish(finished)
    PROVE  /\ at' \in {"msp", "mdp", "list", "sleep", "pass"}
           /\ rp' = NoCall
           /\ done' \subseteq bundles
BY DEF TypeOK, CallAsTaken, Finish, After, Transports

\* A call that has been parsed is accepted, refused, or deadly.
LEMMA HandleType ==
    ASSUME TypeOK, NEW c \in Commands, NEW t \in Transports, at \in {"msp", "mdp", "pass"},
           Accept(c, t) \/ Refuse(c, t) \/ Crash(c)
    PROVE  /\ at' \in {"accepted", "msp", "mdp", "list", "sleep", "pass", "dead"}
           /\ return_code' \in {0, -1}
           /\ refused' \subseteq Commands
           /\ killers' \subseteq Commands
           /\ IF InCall' THEN /\ rp'.via \in Transports
                              /\ rp'.call \in Commands
                              /\ rp'.paramc \in 0 .. ByteRange - 1
                         ELSE rp' = NoCall
<1>1. CASE Accept(c, t)
    BY <1>1, ParsedCount DEF TypeOK, Accept, InCall
<1>2. CASE Refuse(c, t)
    BY <1>2 DEF TypeOK, Refuse, After, InCall, Transports
<1>3. CASE Crash(c)
    BY <1>3 DEF TypeOK, Crash, InCall
<1> QED  BY <1>1, <1>2, <1>3

\* A listen call begins, or fails at setup.
LEMMA ListenStep ==
    ASSUME IInv, NEW mode \in Modes, ListenStarts(mode) \/ ListenFails(mode)
    PROVE  IInv'
<1>1. /\ listens' \in 0 .. MaxListens
      /\ setup_failures' \in 0 .. MaxListens
      /\ setup_failures' <= listens'
    BY ServerAssumption
    DEF IInv, TypeOK, SocketsHeld, ListenStarts, ListenFails, Listen
<1>2. \A t \in {"msp", "mdp"} : (sockets[t] \in Held(t) .. setup_failures + Held(t))'
    <2>1. ASSUME NEW t \in {"msp", "mdp"}
          PROVE  sockets[t] \in 0 .. setup_failures /\ setup_failures \in Nat
        BY ServerAssumption
        DEF IInv, SocketsHeld, TypeOK, ListenStarts, ListenFails, Listen, Held
    <2>2. CASE ListenStarts(mode)
        BY <2>1, <2>2 DEF IInv, TypeOK, ListenStarts, Listen, Opened, Held
    <2>3. CASE ListenFails(mode)
        BY <2>1, <2>3 DEF IInv, TypeOK, ListenFails, Listen, Opened, Held
    <2> QED  BY <2>2, <2>3
<1>3. sockets' \in [{"msp", "mdp"} -> Nat]
    <2>1. sockets' = Opened(mode) \/ sockets' = sockets
              \/ sockets' = [sockets EXCEPT !["msp"] = @ + 1]
        BY DEF ListenStarts, ListenFails
    <2> QED  BY <2>1 DEF IInv, TypeOK, Opened
<1>4. TypeOK'
    BY <1>1, <1>3 DEF IInv, TypeOK, ListenStarts, ListenFails, Listen, InCall,
       arrivalVars, workVars
<1>5. CallAsTaken'
    BY DEF CallAsTaken, ListenStarts, ListenFails, Listen, InCall
<1> QED  BY <1>1, <1>2, <1>4, <1>5 DEF IInv, SocketsHeld

\* The thread leaves its loop: the sockets of this listen call are closed.
LEMMA LeaveStep ==
    ASSUME IInv, LeaveLoop
    PROVE  IInv'
<1>1. \A t \in {"msp", "mdp"} : sockets'[t] \in 0 .. setup_failures
    BY ServerAssumption DEF IInv, TypeOK, SocketsHeld, Held, LeaveLoop, Closed
<1>2. TypeOK'
    <2>1. sockets' \in [{"msp", "mdp"} -> Nat]
        BY <1>1 DEF LeaveLoop, Closed, IInv, TypeOK
    <2> QED  BY <2>1 DEF IInv, TypeOK, LeaveLoop, workVars, InCall
<1>3. SocketsHeld'
    BY <1>1, ServerAssumption DEF SocketsHeld, Held, LeaveLoop, IInv, TypeOK
<1>4. CallAsTaken'
    BY DEF CallAsTaken, LeaveLoop, InCall
<1> QED  BY <1>2, <1>3, <1>4 DEF IInv

\* The thread goes from one place of the round to another.
LEMMA RoundStep ==
    ASSUME IInv,
           \/ StartRound \/ Wake \/ ListBundles \/ StoreFails \/ EndPass
           \/ \E t \in {"msp", "mdp"} : NothingThere(t)
    PROVE  IInv'
<1>1. /\ at \notin {"out", "accepted", "fetch", "running"}
      /\ at' \in {"head", "msp", "mdp", "list", "pass", "sleep"}
      /\ server_running' \in {0, 1}
      /\ pass' \subseteq bundles
      /\ return_code' \in {0, -1}
      /\ UNCHANGED <<server_mode, listens, sockets, setup_failures, calls, inbox, bundles,
                     files, done, rp, refused, killers>>
    BY DEF IInv, TypeOK, StartRound, Wake, ListBundles, StoreFails, EndPass, NothingThere,
       After, FirstOf, FlagAfterPass, setupVars, arrivalVars, workVars, Modes
<1>2. TypeOK'
    BY <1>1 DEF IInv, TypeOK, InCall
<1>3. SocketsHeld'
    BY <1>1 DEF IInv, SocketsHeld, Held, Uses
<1>4. CallAsTaken'
    BY <1>1 DEF CallAsTaken, InCall
<1> QED  BY <1>2, <1>3, <1>4 DEF IInv

\* The thread takes a call from a socket or from the store.
LEMMA TakeStep ==
    ASSUME IInv, TakeBundle \/ \E t \in {"msp", "mdp"} : TakePacket(t)
    PROVE  IInv'
<1>1. PICK c \in Commands, t \in Transports :
        /\ at \in {"msp", "mdp", "pass"}
        /\ Accept(c, t) \/ Refuse(c, t) \/ Crash(c)
        /\ t = "rhizome" => c \in bundles
        /\ UNCHANGED <<server_mode, server_running, setupVars, calls, bundles, files, done>>
        /\ pass' \subseteq bundles
        /\ inbox' \in [{"msp", "mdp"} -> SUBSET Commands]
    BY DEF IInv, TypeOK, TakeBundle, TakePacket, Transports, arrivalVars
<1>2. TypeOK'
    BY <1>1, HandleType DEF IInv, TypeOK, setupVars
<1>3. SocketsHeld'
    <2>1. at # "out" /\ at' # "out"
        BY <1>1, HandleType DEF IInv
    <2> QED  BY <1>1, <2>1 DEF IInv, SocketsHeld, Held, Uses, setupVars
<1>4. CallAsTaken'
    <2>1. CASE Accept(c, t)
        BY <1>1, <2>1 DEF Accept, CallAsTaken, InCall
    <2>2. CASE ~Accept(c, t)
        BY <1>1, <2>2 DEF Refuse, Crash, After, CallAsTaken, InCall, Transports
    <2> QED  BY <2>1, <2>2
<1> QED  BY <1>2, <1>3, <1>4 DEF IInv

\* A nonempty set of positions has a greatest one, which Max picks.
LEMMA MaxOfPositions ==
    ASSUME NEW n \in Nat, NEW S \in SUBSET (1 .. n), S # {}
    PROVE  Max(S) \in S
<1> DEFINE gaps == {n - i : i \in S}
<1>1. gaps \in SUBSET Nat /\ gaps # {}
    <2>1. \A i \in S : n - i \in Nat
        OBVIOUS
    <2>2. \A g \in gaps : g \in Nat
        BY <2>1
    <2>3. PICK i \in S : TRUE
        OBVIOUS
    <2>4. n - i \in gaps
        BY <2>3
    <2> QED  BY <2>2, <2>4
<1>2. PICK g \in gaps : \A h \in gaps : <<h, g>> \notin OpToRel(<, Nat)
    BY <1>1, NatLessThanWellFounded, WFMin
<1>3. \A h \in gaps : ~ (h < g)
    BY <1>1, <1>2 DEF OpToRel
<1>4. PICK m \in S : g = n - m
    BY <1>2
<1>5. \A i \in S : i <= m
    <2>1. ASSUME NEW i \in S
          PROVE  ~ (n - i < n - m)
        BY <1>3, <1>4
    <2> QED  BY <2>1
<1> QED  BY <1>5 DEF Max

\* A call that ends leaves the sockets and the store alone.
LEMMA FinishStep ==
    ASSUME IInv, InCall, NEW finished, Finish(finished)
    PROVE  IInv'
<1>1. /\ at' \in {"msp", "mdp", "list", "sleep", "pass"}
      /\ rp' = NoCall
      /\ done' \subseteq bundles
      /\ UNCHANGED <<server_mode, server_running, listens, sockets, setup_failures, calls,
                     inbox, bundles, files, pass, return_code, refused, killers>>
    BY FinishType DEF IInv, Finish, setupVars, arrivalVars
<1>2. TypeOK'
    BY <1>1 DEF IInv, TypeOK, InCall, NoCall
<1>3. SocketsHeld'
    BY <1>1 DEF IInv, SocketsHeld, Held, Uses, InCall
<1>4. CallAsTaken'
    BY <1>1 DEF CallAsTaken, InCall
<1> QED  BY <1>2, <1>3, <1>4 DEF IInv

\* A call goes on to its file or its binary.
LEMMA GoesStep ==
    ASSUME IInv, InCall, NEW where \in {"fetch", "running"}, NEW call, Goes(where, call),
           UNCHANGED killers,
           DOMAIN call = DOMAIN rp, call.via = rp.via, call.call = rp.call,
           call.paramc = rp.paramc, call.requirements = rp.requirements,
           where # "running" => call.file = <<>>,
           \A i \in DOMAIN call.file : call.file[i].caller = rp.call.caller
    PROVE  IInv'
<1>1. /\ at' = where
      /\ rp' = call
      /\ UNCHANGED <<server_mode, server_running, listens, sockets, setup_failures, calls,
                     inbox, bundles, files, done, pass, return_code, refused, killers>>
    BY DEF Goes, setupVars, arrivalVars
<1>2. TypeOK'
    BY <1>1 DEF IInv, TypeOK, InCall
<1>3. SocketsHeld'
    BY <1>1 DEF IInv, SocketsHeld, Held, Uses, InCall
<1>4. CallAsTaken'
    BY <1>1 DEF IInv, CallAsTaken, InCall
<1> QED  BY <1>2, <1>3, <1>4 DEF IInv

\* A call ends the process.
LEMMA DiesStep ==
    ASSUME IInv, InCall, Dies
    PROVE  IInv'
<1>1. /\ at' = "dead" /\ rp' = NoCall
      /\ killers' = killers \cup {rp.call}
      /\ UNCHANGED <<server_mode, server_running, listens, sockets, setup_failures, calls,
                     inbox, bundles, files, done, pass, return_code, refused>>
    BY DEF Dies, Goes, setupVars, arrivalVars
<1>2. rp.call \in Commands
    BY DEF IInv, TypeOK
<1>3. TypeOK'
    BY <1>1, <1>2 DEF IInv, TypeOK, InCall, NoCall
<1>4. SocketsHeld'
    BY <1>1 DEF IInv, SocketsHeld, Held, Uses, InCall
<1>5. CallAsTaken'
    BY <1>1 DEF CallAsTaken, InCall
<1> QED  BY <1>3, <1>4, <1>5 DEF IInv

\* The binary runs, with the file of its caller or none.
LEMMA RunsStep ==
    ASSUME IInv, InCall, NEW params, NEW file, Runs(params, file),
           \A i \in DOMAIN file : file[i].caller = rp.call.caller
    PROVE  IInv'
<1> DEFINE call == [rp EXCEPT !.params = params, !.file = file]
<1>1. Goes("running", call) /\ UNCHANGED killers
    BY DEF Runs
<1>2. DOMAIN rp = {"via", "call", "name", "paramc", "params", "file", "requirements"}
    BY DEF IInv, CallAsTaken
<1>3. /\ DOMAIN call = DOMAIN rp /\ call.via = rp.via /\ call.call = rp.call
      /\ call.paramc = rp.paramc /\ call.requirements = rp.requirements
      /\ call.file = file
    BY <1>2
<1> HIDE DEF call
<1> QED  BY <1>1, <1>3, GoesStep

\* A call that has been accepted.
LEMMA StartStep ==
    ASSUME IInv, StartExecution
    PROVE  IInv'
<1>1. InCall /\ rp.file = <<>>
    BY DEF StartExecution, InCall, IInv, CallAsTaken
<1>2. CASE Dies
    BY <1>1, <1>2, DiesStep
<1>3. CASE Goes("fetch", rp) /\ UNCHANGED killers
    BY <1>1, <1>3, GoesStep
<1>4. CASE Runs(rp.params, <<>>)
    BY <1>1, <1>4, RunsStep
<1> QED  BY <1>2, <1>3, <1>4 DEF StartExecution

\* The newest file that fits is one of the caller.
LEMMA FetchStep ==
    ASSUME IInv, FetchFile
    PROVE  IInv'
<1>1. at = "fetch" /\ InCall /\ files \in Seq(Commands)
    BY DEF FetchFile, IInv, TypeOK, InCall
<1>2. CASE MissesParams
    BY <1>1, <1>2, DiesStep DEF FetchFile
<1>3. CASE ~MissesParams
    <2> DEFINE file == <<files[Max(Fitting)]>>
    <2>1. files[Max(Fitting)].caller = rp.call.caller
        <3>1. Fitting \in SUBSET (1 .. Len(files)) /\ Len(files) \in Nat
            BY <1>1 DEF Fitting
        <3>2. Max(Fitting) \in Fitting
            BY <3>1, MaxOfPositions DEF FetchFile
        <3> QED  BY <3>2 DEF Fitting, Fits
    <2>2. Runs([rp.params EXCEPT ![1] = FilePath(rp.name)], file)
        BY <1>3 DEF FetchFile
    <2>3. \A i \in DOMAIN file : file[i].caller = rp.call.caller
        BY <2>1
    <2> HIDE DEF file
    <2> QED  BY <1>1, <2>2, <2>3, RunsStep
<1> QED  BY <1>2, <1>3

\* A call or a file comes.
LEMMA OutsideStep ==
    ASSUME IInv, NEW c \in Commands, NEW t \in {"msp", "mdp"},
           Arrive(c, t) \/ Replicate(c) \/ FileReplicates(c)
    PROVE  IInv'
<1>1. /\ server_running' \in {0, 1}
      /\ calls' \in 0 .. MaxCalls
      /\ inbox' \in [{"msp", "mdp"} -> SUBSET Commands]
      /\ bundles' \subseteq Commands /\ bundles \subseteq bundles'
      /\ files' \in Seq(Commands)
      /\ UNCHANGED <<at, server_mode, listens, sockets, setup_failures, done, pass,
                     return_code, rp, refused, killers>>
    <2> USE DEF IInv, TypeOK, loopVars, setupVars, workVars
    <2>1. CASE Arrive(c, t)
        BY <2>1, ServerAssumption DEF Arrive
    <2>2. CASE Replicate(c)
        <3>1. MaxCalls \in Nat
            BY ServerAssumption
        <3> QED  BY <2>2, <3>1 DEF Replicate
    <2>3. CASE FileReplicates(c)
        BY <2>3 DEF FileReplicates
    <2> QED  BY <2>1, <2>2, <2>3
<1>2. TypeOK'
    BY <1>1 DEF IInv, TypeOK, InCall
<1>3. SocketsHeld'
    BY <1>1 DEF IInv, SocketsHeld, Held, Uses
<1>4. CallAsTaken'
    BY <1>1 DEF IInv, CallAsTaken, InCall
<1> QED  BY <1>2, <1>3, <1>4 DEF IInv

-----------------------------------------------------------------------------
(* Theorems                                                                 *)

\* The invariant survives every step.
LEMMA Invariance ==
    ASSUME IInv, [Next]_vars
    PROVE  IInv'
<1>1. ASSUME NEW mode \in Modes, ListenStarts(mode) \/ ListenFails(mode)
      PROVE  IInv'
    BY <1>1, ListenStep
<1>2. CASE Thread
    <2>1. ASSUME NoBinary \/ ExecutionFails \/ ExecutionEnds
          PROVE  IInv'
        <3>1. InCall /\ \E finished \in BOOLEAN : Finish(finished)
            BY <2>1 DEF NoBinary, ExecutionFails, ExecutionEnds, InCall
        <3> QED  BY <3>1, FinishStep
    <2> QED  BY <1>2, <2>1, StartStep, LeaveStep, RoundStep, TakeStep, FetchStep DEF Thread
<1>3. CASE Environment
    <2>1. ASSUME Signal
          PROVE  IInv'
        <3>1. TypeOK'
            BY <2>1 DEF Signal, IInv, TypeOK, InCall, setupVars, arrivalVars, workVars
        <3>2. SocketsHeld'
            BY <2>1 DEF Signal, IInv, SocketsHeld, Held, Uses, setupVars
        <3>3. CallAsTaken'
            BY <2>1 DEF Signal, IInv, CallAsTaken, InCall, arrivalVars, workVars
        <3> QED  BY <3>1, <3>2, <3>3 DEF IInv
    <2>2. ASSUME NEW c \in Commands,
                 \/ Replicate(c) \/ FileReplicates(c)
                 \/ \E t \in {"msp", "mdp"} : Arrive(c, t)
          PROVE  IInv'
        BY <2>2, OutsideStep
    <2> QED  BY <1>3, <2>1, <2>2, RoundStep DEF Environment
<1>4. CASE UNCHANGED vars
    <2>1. TypeOK'
        BY <1>4 DEF IInv, TypeOK, InCall, vars, loopVars, setupVars, arrivalVars, workVars
    <2>2. SocketsHeld'
        BY <1>4 DEF IInv, SocketsHeld, Held, Uses, vars, loopVars, setupVars
    <2>3. CallAsTaken'
        BY <1>4 DEF IInv, CallAsTaken, InCall, vars, loopVars, arrivalVars, workVars
    <2> QED  BY <2>1, <2>2, <2>3 DEF IInv
<1> QED  BY <1>1, <1>2, <1>3, <1>4 DEF Next

\* It holds from the start, and so always.
THEOREM IInvAlways == Spec => []IInv
<1>1. Init => IInv
    BY ServerAssumption
    DEF Init, IInv, TypeOK, SocketsHeld, Held, CallAsTaken, InCall, Modes
<1> QED  BY <1>1, Invariance, PTL DEF Spec

\* Every variable of the server keeps its type; in particular the sockets are never
\* closed twice, and the marks of done calls are those of calls in the store.
THEOREM TypeCorrect == Spec => []TypeOK
<1>1. IInv => TypeOK
    BY DEF IInv
<1> QED  BY <1>1, IInvAlways, PTL

\* No listen call leaves a socket open but those whose setup has failed.
THEOREM SocketsClosed == Spec => []SocketsAreClosed
<1>1. IInv => SocketsAreClosed
    BY ServerAssumption DEF IInv, TypeOK, SocketsHeld, Held, SocketsAreClosed
<1> QED  BY <1>1, IInvAlways, PTL

\* An execution never gets a parameter file of anybody but its caller.
THEOREM FileOfCaller == Spec => []FileIsTheCallers
<1>1. IInv => FileIsTheCallers
    BY DEF IInv, CallAsTaken, FileIsTheCallers, InCall
<1> QED  BY <1>1, IInvAlways, PTL

\* Eight nested shifts put the first value into the highest digit.
LEMMA PreparedDigits ==
    ASSUME NEW values, \A i \in Index : values[i] \in 0 .. 15
    PROVE  rpc_client_prepare_requirements(values) = [k \in Index |-> values[7 - k]]
BY DEF rpc_client_prepare_requirements, ShiftIn, NoRequirements, Index

\* The acceptance predicate of the server sees the eight numbers of a command in the
\* opposite order, the first number of the client last; and if one of them is out of
\* range, it sees no requirements at all.  Neither is what the documentation says:
\* the loop that should turn them back (rpc_server.c) swaps nothing, and the call is
\* sent whatever its requirements are.
RequirementsAreMirrored ==
    InCall =>
        LET values == Values(rp.call.args, Garbage)
            inRange == \A i \in Index : values[i] \in 0 .. 15
        IN  \A i \in Index : rp.requirements[i] = IF inRange THEN values[7 - i] ELSE 0

\* The server sees the eight numbers of every call in the opposite order, or none.
THEOREM Mirrored == Spec => []RequirementsAreMirrored
<1>1. ASSUME IInv, InCall, NEW i \in Index
      PROVE  LET values == Values(rp.call.args, Garbage)
                 inRange == \A k \in Index : values[k] \in 0 .. 15
             IN  rp.requirements[i] = IF inRange THEN values[7 - i] ELSE 0
    <2> DEFINE values == Values(rp.call.args, Garbage)
    <2> DEFINE bits == rpc_client_prepare_requirements(values)
    <2>1. Sent[rp.call].requirements = bits
        BY <1>1 DEF Sent, _rpc_client_prepare_call_payload, IInv, TypeOK
    <2>2. rp.requirements[i] = bits[i]
        BY <1>1, <2>1 DEF IInv, CallAsTaken, _rpc_server_parse_requirements, Swapped
    <2>3. CASE \A k \in Index : values[k] \in 0 .. 15
        <3>1. bits = [k \in Index |-> values[7 - k]]
            BY <2>3, PreparedDigits
        <3> QED  BY <2>2, <2>3, <3>1
    <2>4. CASE ~ (\A k \in Index : values[k] \in 0 .. 15)
        <3>1. bits[i] = 0
            BY <2>4 DEF rpc_client_prepare_requirements, NoRequirements
        <3> QED  BY <2>2, <2>4, <3>1
    <2> QED  BY <2>3, <2>4
<1>2. IInv => RequirementsAreMirrored
    BY <1>1 DEF RequirementsAreMirrored
<1> QED  BY <1>2, IInvAlways, PTL

\* The rank of a transport, and of a place of the thread.
Turn(t) == IF t = "msp" THEN 0 ELSE IF t = "mdp" THEN 1 ELSE 2
PlaceOf(where, t) ==
    IF where \in {"accepted", "fetch", "running"} THEN Turn(t)
    ELSE IF where \in {"msp", "mdp", "list", "pass"} THEN Turn(where)
    ELSE IF where = "sleep" THEN 3 ELSE IF where = "head" THEN 4 ELSE 5

\* Place, told by where the thread stands and by the transport of its call ...
LEMMA Places ==
    ASSUME TypeOK
    PROVE  Place = PlaceOf(at, rp.via)
<1>1. CASE InCall
    <2>1. rp.via \in Transports
        BY <1>1 DEF TypeOK
    <2> QED  BY <1>1, <2>1 DEF Place, PlaceOf, Turn, Transports, InCall
<1>2. CASE ~InCall
    <2>1. at \in {"out", "head", "msp", "mdp", "list", "pass", "sleep", "dead"}
        BY <1>2 DEF TypeOK, InCall
    <2> QED  BY <1>2, <2>1 DEF Place, PlaceOf, Turn, InCall
<1> QED  BY <1>1, <1>2

\* ... and the same of the next state.
LEMMA PlacesPrimed ==
    ASSUME TypeOK'
    PROVE  Place' = PlaceOf(at', rp'.via)
<1>1. CASE InCall'
    <2>1. rp'.via \in Transports
        BY <1>1 DEF TypeOK
    <2> QED  BY <1>1, <2>1 DEF Place, PlaceOf, Turn, Transports, InCall
<1>2. CASE ~InCall'
    <2>1. at' \in {"out", "head", "msp", "mdp", "list", "pass", "sleep", "dead"}
        BY <1>2 DEF TypeOK, InCall
    <2> QED  BY <1>2, <2>1 DEF Place, PlaceOf, Turn, InCall
<1> QED  BY <1>1, <1>2
\* With the flag set the thread never goes back in its round, whatever it is doing
\* when the signal comes.
LEMMA ThreadMovesOn ==
    ASSUME IInv, server_running = 1, Thread
    PROVE  server_running' = 1 /\ PlaceOf(at', rp'.via) >= PlaceOf(at, rp.via)
<1> USE DEF PlaceOf, Turn
<1>0. TypeOK /\ CallAsTaken
    BY DEF IInv
<1>1. ASSUME NEW finished, InCall, Finish(finished)
      PROVE  server_running' = 1 /\ PlaceOf(at', rp'.via) >= PlaceOf(at, rp.via)
    <2>1. rp.via \in Transports
        BY <1>0, <1>1 DEF TypeOK
    <2> QED  BY <1>1, <2>1 DEF Finish, InCall, After, Transports
<1>2. CASE LeaveLoop \/ StartRound \/ Wake
    BY <1>2 DEF LeaveLoop, StartRound, Wake, StopSeen
<1>3. CASE ListBundles \/ EndPass
    BY <1>3 DEF ListBundles, EndPass, FlagAfterPass
<1>4. ASSUME NEW t \in {"msp", "mdp"}, NothingThere(t)
      PROVE  server_running' = 1 /\ PlaceOf(at', rp'.via) >= PlaceOf(at, rp.via)
    BY <1>4 DEF NothingThere, After
<1>5. ASSUME NEW t \in {"msp", "mdp"}, TakePacket(t)
      PROVE  server_running' = 1 /\ PlaceOf(at', rp'.via) >= PlaceOf(at, rp.via)
    <2>1. PICK c : Accept(c, t) \/ Refuse(c, t) \/ Crash(c)
        BY <1>5 DEF TakePacket
    <2>2. at = t /\ server_running' = 1
        BY <1>5 DEF TakePacket
    <2>3. CASE Accept(c, t)
        <3>1. at' = "accepted" /\ rp'.via = t
            BY <2>3 DEF Accept
        <3> QED  BY <2>2, <3>1
    <2>4. CASE Refuse(c, t)
        <3>1. at' \in {"msp", "list", "sleep"} /\ (t = "mdp" => at' # "msp")
            BY <2>4 DEF Refuse, After
        <3> QED  BY <2>2, <3>1
    <2>5. CASE Crash(c)
        BY <2>2, <2>5 DEF Crash
    <2> QED  BY <2>1, <2>3, <2>4, <2>5
<1>6. CASE TakeBundle
    <2>1. PICK c : Accept(c, "rhizome") \/ Refuse(c, "rhizome") \/ Crash(c)
        BY <1>6 DEF TakeBundle
    <2>2. at = "pass" /\ server_running' = 1
        BY <1>6 DEF TakeBundle
    <2> QED  BY <2>1, <2>2 DEF Accept, Refuse, Crash
<1>7. CASE StartExecution \/ FetchFile
    <2>1. /\ at \in {"accepted", "fetch"} /\ server_running' = 1
          /\ at' \in {"dead", "fetch", "running"}
          /\ at' # "dead" => rp'.via = rp.via
        <3>1. "via" \in DOMAIN rp
            BY <1>0, <1>7 DEF CallAsTaken, InCall, StartExecution, FetchFile
        <3>2. CASE StartExecution
            BY <3>1, <3>2 DEF StartExecution, Goes, Dies, Runs
        <3>3. CASE FetchFile
            BY <3>1, <3>3 DEF FetchFile, Goes, Dies, Runs
        <3> QED  BY <1>7, <3>2, <3>3
    <2>2. rp.via \in Transports
        BY <1>0, <1>7 DEF TypeOK, InCall, StartExecution, FetchFile
    <2> QED  BY <2>1, <2>2 DEF Transports
<1>8. CASE NoBinary \/ ExecutionFails \/ ExecutionEnds
    <2>1. InCall /\ \E finished \in BOOLEAN : Finish(finished)
        BY <1>8 DEF NoBinary, ExecutionFails, ExecutionEnds, InCall
    <2> QED  BY <1>1, <2>1
<1> QED  BY <1>2, <1>3, <1>4, <1>5, <1>6, <1>7, <1>8 DEF Thread

\* Once the flag is set it stays, and until the listen call has ended the thread
\* only moves on.
THEOREM StopIsFinal == Spec => StopMovesOn
<1> DEFINE moves == server_running' = 1 /\ (at # "out" => Place' >= Place)
<1>1. ASSUME IInv, IInv', server_running = 1, Next
      PROVE  moves
    <2>1. TypeOK /\ TypeOK'
        BY <1>1 DEF IInv
    <2>2. SUFFICES /\ server_running' = 1
                   /\ at # "out" => PlaceOf(at', rp'.via) >= PlaceOf(at, rp.via)
        BY <2>1, Places, PlacesPrimed
    <2>3. PlaceOf(at, rp.via) \in Nat
        BY DEF PlaceOf, Turn
    <2>4. ASSUME NEW mode, ListenStarts(mode) \/ ListenFails(mode)
          PROVE  server_running' = 1 /\ at = "out"
        BY <1>1, <2>4 DEF ListenStarts, ListenFails, Listen
    <2>5. CASE StoreFails
        BY <1>1, <2>5 DEF StoreFails, PlaceOf, Turn
    <2>6. CASE Signal
        BY <1>1, <2>3, <2>6 DEF Signal, workVars
    <2>7. ASSUME NEW c, \/ Replicate(c) \/ FileReplicates(c)
                        \/ \E t \in {"msp", "mdp"} : Arrive(c, t)
          PROVE  server_running' = 1 /\ PlaceOf(at', rp'.via) >= PlaceOf(at, rp.via)
        BY <1>1, <2>3, <2>7 DEF Replicate, FileReplicates, Arrive, loopVars, workVars
    <2>8. CASE Thread
        BY <1>1, <2>8, ThreadMovesOn
    <2> QED  BY <1>1, <2>4, <2>5, <2>6, <2>7, <2>8 DEF Next, Environment
<1>2. ASSUME IInv, IInv', [Next]_vars
      PROVE  [server_running = 1 => moves]_vars
    BY <1>1, <1>2
<1>3. Spec => [][server_running = 1 => moves]_vars
    BY <1>2, IInvAlways, PTL DEF Spec
<1> QED  BY <1>3 DEF StopMovesOn

-----------------------------------------------------------------------------
(* What the server sees of a command                                        *)

\* The characters of commands, and those that the client adds.
Chars == STRING \cup {Bar, Space, Hash[1], "file"}

\* What a sequence is without its last element.
LEMMA FrontOf ==
    ASSUME NEW X, NEW s \in Seq(X), s # <<>>
    PROVE  Front(s) \in Seq(X) /\ Len(Front(s)) \in Nat
           /\ \A i \in 1 .. Len(Front(s)) : Front(s)[i] = s[i]
<1>1. Len(s) \in Nat \ {0}
    BY EmptySeq
<1> QED  BY <1>1, SubSeqProperties DEF Front

\* The parameters of a command are the first of its arguments, and there is one.
LEMMA ParamsOfCommand ==
    ASSUME NEW c \in Commands
    PROVE  /\ Params(c.args) \in Seq(Seq(STRING)) /\ Params(c.args) # <<>>
           /\ Len(Params(c.args)) \in Nat \ {0}
           /\ \A i \in 1 .. Len(Params(c.args)) : Params(c.args)[i] = c.args[i]
<1>1. /\ c.args \in Seq(Seq(STRING)) /\ Len(c.args) \in Nat \ {0}
      /\ Params(c.args) # <<>>
    BY ServerAssumption
<1>2. CASE IsRequirements(Last(c.args))
    <2> DEFINE front == Front(c.args)
    <2>1. Params(c.args) = front
        BY <1>2 DEF Params
    <2>2. /\ front \in Seq(Seq(STRING)) /\ Len(front) \in Nat
          /\ \A i \in 1 .. Len(front) : front[i] = c.args[i]
        BY <1>1, FrontOf
    <2>3. Len(front) # 0
        BY <1>1, <2>1, <2>2, EmptySeq
    <2> HIDE DEF front
    <2> QED  BY <1>1, <2>1, <2>2, <2>3
<1>3. CASE ~IsRequirements(Last(c.args))
    BY <1>1, <1>3 DEF Params
<1> QED  BY <1>2, <1>3

\* They are texts of characters, also with the hash in the place of a path.
LEMMA ParamsSent ==
    ASSUME NEW params \in Seq(Seq(STRING)), params # <<>>
    PROVE  LET sent == _rpc_client_replace_if_path(params)
           IN  /\ sent \in Seq(Seq(Chars)) /\ Len(sent) = Len(params)
               /\ \A i \in 1 .. Len(params) : sent[i] = params[i] \/ sent[i] = Hash
<1> DEFINE Text == Seq(Chars)
<1>1. Hash \in Text
    <2>1. Hash = <<Hash[1]>> /\ Hash[1] \in Chars
        BY DEF Hash, Chars
    <2>2. \A x : x \in Chars => <<x>> \in Seq(Chars)
        OBVIOUS
    <2> QED  BY <2>1, <2>2, Zenon
<1>2. params \in Seq(Text)
    <2>1. Seq(STRING) \subseteq Text
        <3>1. STRING \subseteq Chars
            BY DEF Chars
        <3> QED  BY <3>1, SeqMonotonic
    <2> QED  BY <2>1, SeqMonotonic
<1> HIDE DEF Text
<1>3. CASE params[1] = Path
    <2>1. _rpc_client_replace_if_path(params) = <<Hash>> \o Tail(params)
        BY <1>3 DEF _rpc_client_replace_if_path
    <2>2. Tail(params) \in Seq(Text) /\ <<Hash>> \in Seq(Text) /\ Len(params) \in Nat \ {0}
          /\ Len(Tail(params)) = Len(params) - 1
          /\ \A i \in 1 .. Len(params) - 1 : Tail(params)[i] = params[i + 1]
        BY <1>1, <1>2, HeadTailProperties, EmptySeq
    <2> DEFINE rest == Tail(params)
               first == <<Hash>>
    <2>3. Len(first) = 1 /\ first[1] = Hash
        OBVIOUS
    <2> HIDE DEF rest, first
    <2>4. /\ first \o rest \in Seq(Text) /\ Len(first \o rest) = Len(params)
          /\ \A i \in 1 .. Len(params) : (first \o rest)[i] = IF i = 1 THEN Hash ELSE params[i]
        BY <2>2, <2>3, ConcatProperties DEF rest, first
    <2> QED  BY <2>1, <2>4 DEF Text, rest, first
<1>4. CASE params[1] # Path
    BY <1>2, <1>4 DEF _rpc_client_replace_if_path, Text
<1> QED  BY <1>3, <1>4

\* What is in the text of a command.
LEMMA TextSent ==
    ASSUME NEW c \in Commands
    PROVE  LET sent == _rpc_client_replace_if_path(Params(c.args))
               tokens == Tokens(c.name \o _rpc_flatten_params(sent, Bar), Bar)
           IN  /\ Parsed[c].name = Head(tokens)
               /\ Parsed[c].params = Tail(tokens)
               /\ Parsed[c].paramc = CountByte(Len(Params(c.args)))
BY DEF Parsed, Sent, _rpc_server_parse_call, _rpc_client_prepare_call_payload, PartsAfterName

\* A name that strtok can find is the name the server sees, whatever follows it.
LEMMA NameSeen ==
    ASSUME NEW c \in Commands, Carried(c.name, Bar)
    PROVE  Parsed[c].name = c.name
<1> DEFINE sent == _rpc_client_replace_if_path(Params(c.args))
           rest == _rpc_flatten_params(sent, Bar)
<1>1. Bar \in Chars
    BY DEF Chars
<1>2. c.name \in Seq(Chars)
    <2>1. STRING \subseteq Chars /\ c.name \in Seq(STRING)
        BY ServerAssumption DEF Chars
    <2> QED  BY <2>1, SeqMonotonic
<1>3. sent \in Seq(Seq(Chars))
    BY ParamsOfCommand, ParamsSent
<1> HIDE DEF sent
<1>4. rest \in Seq(Chars) /\ (rest = <<>> \/ rest[1] = Bar)
    BY <1>1, <1>3, FlatType
<1>5. c.name # <<>> /\ \A i \in 1 .. Len(c.name) : c.name[i] # Bar
    BY <1>2 DEF Carried
<1> HIDE DEF rest
<1>6. Head(Tokens(c.name \o rest, Bar)) = c.name
    BY <1>1, <1>2, <1>4, <1>5, FirstStays
<1> QED  BY <1>6, TextSent DEF rest, sent

\* The count that the server sees is that of the parameters, if a byte can hold it.
LEMMA CountSeen ==
    ASSUME NEW c \in Commands, Len(Params(c.args)) < ByteRange
    PROVE  Parsed[c].paramc = Len(Params(c.args))
<1>1. Len(Params(c.args)) \in Nat
    BY ParamsOfCommand
<1>2. Parsed[c].paramc = CountByte(Len(Params(c.args)))
    BY TextSent
<1>3. \A n \in Nat : n < ByteRange => CountByte(n) = n
    BY PayloadAssumption DEF CountByte
<1> QED  BY <1>1, <1>2, <1>3

\* Parameters that strtok can find are those the server sees, the hash in the place of
\* a path.
LEMMA ParamsSeen ==
    ASSUME NEW c \in Commands, Carried(c.name, Bar),
           \A i \in DOMAIN Params(c.args) : Carried(c.args[i], Bar)
    PROVE  Parsed[c].params = _rpc_client_replace_if_path(Params(c.args))
<1> DEFINE params == Params(c.args)
           sent == _rpc_client_replace_if_path(params)
<1>1. Bar \in Chars
    BY DEF Chars
<1>2. c.name \in Seq(Chars)
    <2>1. STRING \subseteq Chars /\ c.name \in Seq(STRING)
        BY ServerAssumption DEF Chars
    <2> QED  BY <2>1, SeqMonotonic
<1>3. /\ params \in Seq(Seq(STRING)) /\ params # <<>>
      /\ \A i \in 1 .. Len(params) : params[i] = c.args[i]
    BY ParamsOfCommand
<1>4. /\ sent \in Seq(Seq(Chars)) /\ Len(sent) = Len(params)
      /\ \A i \in 1 .. Len(params) : sent[i] = params[i] \/ sent[i] = Hash
    BY <1>3, ParamsSent
<1>5. Carried(Hash, Bar)
    BY DEF Carried, Hash, Bar
<1>6. \A i \in 1 .. Len(sent) : Carried(sent[i], Bar)
    <2>1. \A i \in 1 .. Len(params) : Carried(params[i], Bar)
        <3>1. DOMAIN params = 1 .. Len(params)
            BY <1>3, LenProperties
        <3> HIDE DEF params
        <3>2. \A i \in DOMAIN params : Carried(c.args[i], Bar)
            BY DEF params
        <3> QED  BY <1>3, <3>1, <3>2
    <2> HIDE DEF params, sent
    <2> QED  BY <1>4, <1>5, <2>1
<1> HIDE DEF sent
<1>7. Tokens(c.name \o _rpc_flatten_params(sent, Bar), Bar) = <<c.name>> \o sent
    BY <1>1, <1>2, <1>4, <1>6, TokensOfCall
<1>8. Tail(<<c.name>> \o sent) = sent
    BY <1>2, <1>4
<1> QED  BY <1>7, <1>8, TextSent DEF sent

-----------------------------------------------------------------------------
(* What the shell makes of it                                               *)

\* The characters of words are found in no other way by the shell.
Letters == Chars \ ShellChars

\* A word is made of them.
LEMMA WordsOfLetters ==
    ASSUME NEW text \in Seq(Chars), Word(text)
    PROVE  text \in Seq(Letters) /\ Carried(text, Space)
<1>1. \A k \in 1 .. Len(text) : text[k] \in Letters
    BY DEF Word, Letters
<1>2. text = [k \in 1 .. Len(text) |-> text[k]] /\ Len(text) \in Nat
    OBVIOUS
<1>3. \A n \in Nat : \A f : f \in [1 .. n -> Letters] => f \in Seq(Letters)
    OBVIOUS
<1> QED  BY <1>1, <1>2, <1>3 DEF Word

\* A name and parameters that are words are the words of the command line.
LEMMA WordsOfCommand ==
    ASSUME NEW name \in Seq(Chars), Word(name), NEW params \in Seq(Seq(Chars)),
           \A i \in 1 .. Len(params) : Word(params[i])
    PROVE  Command(name, params) = <<name>> \o params
<1> DEFINE line == name \o _rpc_flatten_params(params, Space)
<1>1. Space \in Letters
    BY PayloadAssumption DEF Letters, Chars
<1>2. name \in Seq(Letters) /\ Carried(name, Space)
    BY WordsOfLetters
<1>3. \A i \in 1 .. Len(params) : params[i] \in Seq(Letters) /\ Carried(params[i], Space)
    BY WordsOfLetters
<1> DEFINE Text == Seq(Letters)
<1>4. params \in Seq(Text)
    <2>1. params = [i \in 1 .. Len(params) |-> params[i]] /\ Len(params) \in Nat
        OBVIOUS
    <2>2. \A n \in Nat : \A f : f \in [1 .. n -> Text] => f \in Seq(Text)
        <3> HIDE DEF Text
        <3> QED  OBVIOUS
    <2> QED  BY <1>3, <2>1, <2>2
<1>5. _rpc_flatten_params(params, Space) \in Seq(Letters)
    BY <1>1, <1>4, FlatType
<1>6. line \in Seq(Letters)
    <2> DEFINE rest == _rpc_flatten_params(params, Space)
    <2> HIDE DEF rest
    <2> QED  BY <1>2, <1>5 DEF rest
<1>7. \A k \in DOMAIN line : line[k] \notin ShellChars
    <2> HIDE DEF line
    <2>1. \A k \in DOMAIN line : line[k] \in Letters
        BY <1>6
    <2> QED  BY <2>1 DEF Letters
<1>8. Tokens(line, Space) = <<name>> \o params
    BY <1>1, <1>2, <1>3, <1>4, TokensOfCall
<1> QED  BY <1>7, <1>8 DEF Command, Words

\* The path of a file of a procedure whose name is a word is one, too.
LEMMA PathIsWord ==
    ASSUME NEW name \in Seq(Chars), Word(name)
    PROVE  FilePath(name) \in Seq(Chars) /\ Word(FilePath(name))
<1> DEFINE start == <<"file">>
<1>1. start \in Seq(Chars) /\ Len(start) = 1 /\ start[1] = "file"
    BY DEF Chars
<1> HIDE DEF start
<1>2. /\ start \o name \in Seq(Chars) /\ Len(start \o name) = 1 + Len(name)
      /\ \A k \in 1 .. Len(start \o name) :
             (start \o name)[k] = IF k = 1 THEN "file" ELSE name[k - 1]
    <2>1. /\ start \o name \in Seq(Chars) /\ Len(start \o name) = Len(start) + Len(name)
          /\ \A k \in 1 .. Len(start) + Len(name) :
                (start \o name)[k] = IF k <= Len(start) THEN start[k] ELSE name[k - Len(start)]
        BY <1>1, ConcatProperties
    <2>2. Len(name) \in Nat
        OBVIOUS
    <2> DEFINE both == start \o name
    <2> HIDE DEF both
    <2>3. \A k \in 1 .. 1 + Len(name) : both[k] = IF k = 1 THEN "file" ELSE name[k - 1]
        BY <1>1, <2>1, <2>2 DEF both
    <2> QED  BY <1>1, <2>1, <2>3 DEF both
<1>3. Len(name) \in Nat
    OBVIOUS
<1>4. "file" # Bar /\ "file" # Space /\ "file" \notin ShellChars
    BY PayloadAssumption DEF Bar, Space
<1>5. \A k \in 1 .. Len(name) : name[k] # Bar /\ name[k] # Space /\ name[k] \notin ShellChars
    BY DEF Word, Carried
<1>6. \A k \in 1 .. Len(start \o name) :
          /\ (start \o name)[k] # Bar /\ (start \o name)[k] # Space
          /\ (start \o name)[k] \notin ShellChars
    <2> SUFFICES ASSUME NEW k \in 1 .. Len(start \o name)
                 PROVE  /\ (start \o name)[k] # Bar /\ (start \o name)[k] # Space
                        /\ (start \o name)[k] \notin ShellChars
        OBVIOUS
    <2>1. CASE k = 1
        BY <1>2, <1>4, <2>1
    <2>2. CASE k # 1
        <3>1. k - 1 \in 1 .. Len(name) /\ (start \o name)[k] = name[k - 1]
            BY <1>2, <1>3, <2>2
        <3> QED  BY <1>5, <3>1
    <2> QED  BY <2>1, <2>2
<1> DEFINE path == start \o name
<1>7. path \in Seq(Chars) /\ Len(path) # 0
    BY <1>2, <1>3
<1>8. \A k \in 1 .. Len(path) : path[k] # Bar /\ path[k] # Space /\ path[k] \notin ShellChars
    BY <1>6
<1> HIDE DEF path
<1>9. path # <<>> /\ DOMAIN path = 1 .. Len(path)
    BY <1>7
<1>10. Word(path)
    BY <1>8, <1>9 DEF Word, Carried
<1> QED  BY <1>7, <1>10 DEF path, start, FilePath

\* So are the parameters of a plain command as they are sent, and with a file.
LEMMA PlainWords ==
    ASSUME NEW c \in Commands, Plain(c)
    PROVE  LET sent == _rpc_client_replace_if_path(Params(c.args))
               filled == [sent EXCEPT ![1] = IF @ = Hash THEN FilePath(c.name) ELSE @]
           IN  /\ Parsed[c].name = c.name
               /\ Parsed[c].params = sent
               /\ Parsed[c].paramc = Len(sent)
               /\ sent \in Seq(Seq(Chars)) /\ sent # <<>>
               /\ filled \in Seq(Seq(Chars)) /\ Len(filled) = Len(sent)
               /\ filled = IF sent[1] = Hash THEN [sent EXCEPT ![1] = FilePath(c.name)] ELSE sent
               /\ Command(c.name, filled) = <<c.name>> \o filled
<1> DEFINE params == Params(c.args)
           sent == _rpc_client_replace_if_path(params)
           filled == [sent EXCEPT ![1] = IF @ = Hash THEN FilePath(c.name) ELSE @]
<1>1. /\ params \in Seq(Seq(STRING)) /\ params # <<>> /\ Len(params) \in Nat \ {0}
      /\ \A i \in 1 .. Len(params) : params[i] = c.args[i]
    BY ParamsOfCommand
<1>2. /\ sent \in Seq(Seq(Chars)) /\ Len(sent) = Len(params)
      /\ \A i \in 1 .. Len(params) : sent[i] = params[i] \/ sent[i] = Hash
    BY <1>1, ParamsSent
<1>3. c.name \in Seq(Chars) /\ Word(c.name) /\ Carried(c.name, Bar)
    <2>1. STRING \subseteq Chars /\ c.name \in Seq(STRING)
        BY ServerAssumption DEF Chars
    <2> QED  BY <2>1, SeqMonotonic DEF Plain, Word
<1>4. /\ \A i \in DOMAIN params : Word(c.args[i]) /\ Carried(c.args[i], Bar)
      /\ DOMAIN params = 1 .. Len(params)
    <2>1. DOMAIN params = 1 .. Len(params)
        BY <1>1, LenProperties
    <2> QED  BY <2>1 DEF Plain, Word
<1>5. Parsed[c].name = c.name /\ Parsed[c].params = sent /\ Parsed[c].paramc = Len(params)
    BY <1>3, <1>4, NameSeen, ParamsSeen, CountSeen DEF Plain, Announced
<1>6. Word(Hash)
    <2>1. DOMAIN Hash = {1} /\ Hash[1] = "hash" /\ Hash # <<>>
        BY DEF Hash
    <2>2. "hash" # "|" /\ "hash" # " " /\ "hash" \notin ShellChars
        BY PayloadAssumption
    <2> QED  BY <2>1, <2>2, Zenon DEF Word, Carried, Bar, Space
<1> HIDE DEF params, sent
<1>7. \A i \in 1 .. Len(sent) : Word(sent[i])
    BY <1>1, <1>2, <1>4, <1>6
<1>8. Word(FilePath(c.name)) /\ FilePath(c.name) \in Seq(Chars)
    BY <1>3, PathIsWord
<1>9. /\ filled \in Seq(Seq(Chars)) /\ Len(filled) = Len(sent)
      /\ \A i \in 1 .. Len(sent) :
             filled[i] = IF i = 1 /\ sent[1] = Hash THEN FilePath(c.name) ELSE sent[i]
    <2> DEFINE Text == Seq(Chars)
               first == IF sent[1] = Hash THEN FilePath(c.name) ELSE sent[1]
    <2>1. sent \in Seq(Text) /\ 1 \in 1 .. Len(sent)
        BY <1>1, <1>2
    <2>2. first \in Text
        BY <1>8, <2>1
    <2>3. filled = [sent EXCEPT ![1] = first]
        OBVIOUS
    <2> HIDE DEF Text, first
    <2>4. /\ [sent EXCEPT ![1] = first] \in Seq(Text)
          /\ Len([sent EXCEPT ![1] = first]) = Len(sent)
          /\ \A i \in 1 .. Len(sent) :
                 [sent EXCEPT ![1] = first][i] = IF i = 1 THEN first ELSE sent[i]
        BY <2>1, <2>2
    <2> HIDE DEF filled
    <2> QED  BY <2>3, <2>4 DEF Text, first
<1>10. \A i \in 1 .. Len(filled) : Word(filled[i])
    <2> HIDE DEF filled
    <2> QED  BY <1>7, <1>8, <1>9
<1>11. filled = IF sent[1] = Hash THEN [sent EXCEPT ![1] = FilePath(c.name)] ELSE sent
    <2>1. \A f \in Seq(Seq(Chars)) : [f EXCEPT ![1] = f[1]] = f
        OBVIOUS
    <2> QED  BY <1>2, <2>1
<1> HIDE DEF filled
<1>12. Command(c.name, filled) = <<c.name>> \o filled
    BY <1>3, <1>9, <1>10, WordsOfCommand
<1>13. sent # <<>>
    BY <1>1, <1>2
<1> QED  BY <1>2, <1>5, <1>9, <1>11, <1>12, <1>13 DEF filled, sent, params

-----------------------------------------------------------------------------
(* The call being handled is the command as parsed                          *)

\* What can end the process: more parameters than the array has room for, none, or
\* fewer than the count says.
Deadly(c) ==
    \/ Overruns(c)
    \/ Parsed[c].params = <<>>
    \/ Len(Parsed[c].params) < Parsed[c].paramc

\* The call being handled has the name, the count and the parameters as they were
\* parsed, until the path of a file takes the place of a hash; the server waits for
\* the file only if there is a hash.  What the server has refused it does not offer,
\* and what has ended it was deadly.
AsParsed ==
    /\ InCall =>
        LET parsed == Parsed[rp.call]
        IN  /\ rp.name = parsed.name
            /\ rp.paramc = parsed.paramc
            /\ at # "running" => rp.params = parsed.params
            /\ at = "fetch" => parsed.params[1] = Hash
            /\ at = "running" =>
                /\ rp.params = IF parsed.params[1] = Hash
                               THEN [parsed.params EXCEPT ![1] = FilePath(rp.name)]
                               ELSE parsed.params
                /\ parsed.params[1] = Hash <=> rp.file # <<>>
    /\ \A c \in refused : ~Offered(c)
    /\ \A c \in killers : Deadly(c)

\* It survives every step.
LEMMA AsParsedStep ==
    ASSUME IInv, AsParsed, [Next]_vars
    PROVE  AsParsed'
<1>1. CASE UNCHANGED <<rp, refused, killers>> /\ at' = at
    BY <1>1 DEF AsParsed, InCall, Offered, Deadly, Overruns
<1>2. CASE UNCHANGED <<refused, killers>> /\ at' \notin {"accepted", "fetch", "running"}
    BY <1>2 DEF AsParsed, InCall, Offered, Deadly, Overruns
<1>3. ASSUME NEW c \in Commands, NEW t \in Transports,
             Accept(c, t) \/ Refuse(c, t) \/ Crash(c), at \in {"msp", "mdp", "pass"}
      PROVE  AsParsed'
    <2>1. CASE Accept(c, t)
        BY <2>1 DEF Accept, AsParsed, InCall, Offered, Deadly, Overruns
    <2>2. CASE Refuse(c, t)
        <3>1. at' \notin {"accepted", "fetch", "running"}
            BY <2>2 DEF Refuse, After, Transports
        <3>2. refused' = refused \cup {c} /\ ~Offered(c) /\ UNCHANGED killers
            BY <2>2 DEF Refuse
        <3> QED  BY <3>1, <3>2 DEF AsParsed, InCall, Offered, Deadly, Overruns
    <2>3. CASE Crash(c)
        BY <2>3 DEF Crash, AsParsed, InCall, Offered, Deadly, Overruns
    <2> QED  BY <1>3, <2>1, <2>2, <2>3
<1>4. CASE TakeBundle \/ \E t \in {"msp", "mdp"} : TakePacket(t)
    <2>1. \E c \in Commands, t \in Transports :
             (Accept(c, t) \/ Refuse(c, t) \/ Crash(c)) /\ at \in {"msp", "mdp", "pass"}
        BY <1>4 DEF IInv, TypeOK, TakeBundle, TakePacket, Transports
    <2> QED  BY <1>3, <2>1
<1>5. ASSUME at \in {"accepted", "fetch"}, Dies, rp.params = <<>> \/ MissesParams
      PROVE  AsParsed'
    <2>1. /\ at' = "dead" /\ UNCHANGED refused
          /\ killers' = killers \cup {rp.call}
        BY <1>5 DEF Dies, Goes
    <2>2. Deadly(rp.call)
        BY <1>5 DEF AsParsed, InCall, MissesParams, Deadly
    <2> QED  BY <2>1, <2>2 DEF AsParsed, InCall, Offered, Deadly, Overruns
<1>6. ASSUME at \in {"accepted", "fetch"}, NEW params, NEW file, Runs(params, file),
             LET parsed == Parsed[rp.call].params
             IN  IF parsed[1] = Hash
                 THEN params = [parsed EXCEPT ![1] = FilePath(rp.name)] /\ file # <<>>
                 ELSE params = parsed /\ file = <<>>
      PROVE  AsParsed'
    <2>1. /\ at' = "running" /\ UNCHANGED <<refused, killers>>
          /\ rp' = [rp EXCEPT !.params = params, !.file = file]
        BY <1>6 DEF Runs, Goes
    <2>2. InCall /\ DOMAIN rp = {"via", "call", "name", "paramc", "params", "file", "requirements"}
        BY <1>6 DEF IInv, CallAsTaken, InCall
    <2>3. /\ rp'.call = rp.call /\ rp'.name = rp.name /\ rp'.paramc = rp.paramc
          /\ rp'.params = params /\ rp'.file = file
        BY <2>1, <2>2
    <2>4. rp.name = Parsed[rp.call].name /\ rp.paramc = Parsed[rp.call].paramc
        BY <2>2 DEF AsParsed
    <2> QED  BY <1>6, <2>1, <2>3, <2>4 DEF AsParsed, InCall, Offered, Deadly, Overruns
<1>7. CASE StartExecution
    <2>1. at = "accepted" /\ rp.params = Parsed[rp.call].params
        BY <1>7 DEF StartExecution, AsParsed, InCall
    <2>2. CASE Dies /\ (rp.params = <<>> \/ MissesParams)
        BY <1>5, <2>1, <2>2
    <2>3. CASE NeedsFile /\ Goes("fetch", rp) /\ UNCHANGED killers
        BY <2>1, <2>3 DEF Goes, NeedsFile, AsParsed, InCall, Offered, Deadly, Overruns
    <2>4. CASE ~NeedsFile /\ Runs(rp.params, <<>>)
        BY <1>6, <2>1, <2>4 DEF NeedsFile
    <2> QED  BY <1>7, <2>2, <2>3, <2>4 DEF StartExecution
<1>8. CASE FetchFile
    <2>1. /\ at = "fetch" /\ rp.params = Parsed[rp.call].params
          /\ Parsed[rp.call].params[1] = Hash
        BY <1>8 DEF FetchFile, AsParsed, InCall
    <2>2. CASE MissesParams
        BY <1>5, <1>8, <2>1, <2>2 DEF FetchFile
    <2>3. CASE ~MissesParams
        <3> DEFINE file == <<files[Max(Fitting)]>>
        <3>1. Runs([rp.params EXCEPT ![1] = FilePath(rp.name)], file)
            BY <1>8, <2>3 DEF FetchFile
        <3>2. file # <<>>
            OBVIOUS
        <3> HIDE DEF file
        <3> QED  BY <1>6, <2>1, <3>1, <3>2
    <2> QED  BY <2>2, <2>3
<1>9. CASE NoBinary \/ ExecutionFails \/ ExecutionEnds
    <2>1. PICK finished \in BOOLEAN : Finish(finished)
        BY <1>9 DEF NoBinary, ExecutionFails, ExecutionEnds
    <2>2. InCall
        BY <1>9 DEF NoBinary, ExecutionFails, ExecutionEnds, InCall
    <2>3. UNCHANGED <<refused, killers>> /\ at' \notin {"accepted", "fetch", "running"}
        BY <2>1, <2>2, FinishType DEF IInv, Finish
    <2> QED  BY <1>2, <2>3
<1>10. CASE \E mode \in Modes : ListenStarts(mode) \/ ListenFails(mode)
    BY <1>1, <1>2, <1>10 DEF ListenStarts, ListenFails, Listen, workVars
<1>11. CASE \/ LeaveLoop \/ StartRound \/ Wake \/ ListBundles \/ StoreFails \/ EndPass
            \/ \E t \in {"msp", "mdp"} : NothingThere(t)
    <2>1. UNCHANGED <<refused, killers>> /\ at' \notin {"accepted", "fetch", "running"}
        BY <1>11 DEF IInv, TypeOK, Modes, LeaveLoop, StartRound, FirstOf, Wake, ListBundles,
           StoreFails, EndPass, NothingThere, After, workVars
    <2> QED  BY <1>2, <2>1
<1>12. CASE \/ Signal
            \/ \E c \in Commands : \/ Replicate(c) \/ FileReplicates(c)
                                   \/ \E t \in {"msp", "mdp"} : Arrive(c, t)
    BY <1>1, <1>12 DEF Signal, Replicate, FileReplicates, Arrive, workVars, loopVars
<1>13. CASE UNCHANGED vars
    BY <1>1, <1>13 DEF vars, workVars, loopVars
<1> QED  BY <1>4, <1>7, <1>8, <1>9, <1>10, <1>11, <1>12, <1>13 DEF Next, Thread, Environment

\* It holds from the start, and so always.
LEMMA AsParsedAlways == Spec => []AsParsed
<1>1. Init => AsParsed
    BY DEF Init, AsParsed, InCall
<1> QED  BY <1>1, AsParsedStep, IInvAlways, PTL DEF Spec

\* The binary of a command of plain words gets the parameters that the client entered,
\* as many and as they are, with the path of a file in the place of a hash.
THEOREM CommandSeen == Spec => []CommandArrives
<1>1. ASSUME IInv, AsParsed, at = "running", Plain(rp.call)
      PROVE  LET name == rp.call.name
                 sent == _rpc_client_replace_if_path(Params(rp.call.args))
             IN  /\ argv = <<name>> \o
                       [sent EXCEPT ![1] = IF @ = Hash THEN FilePath(name) ELSE @]
                 /\ sent[1] = Hash <=> rp.file # <<>>
    <2> DEFINE c == rp.call
               sent == _rpc_client_replace_if_path(Params(c.args))
               filled == [sent EXCEPT ![1] = IF @ = Hash THEN FilePath(c.name) ELSE @]
    <2>1. c \in Commands
        BY <1>1 DEF IInv, TypeOK, InCall
    <2>2. /\ Parsed[c].name = c.name /\ Parsed[c].params = sent
          /\ Parsed[c].paramc = Len(sent)
          /\ filled \in Seq(Seq(Chars)) /\ Len(filled) = Len(sent)
          /\ filled = IF sent[1] = Hash THEN [sent EXCEPT ![1] = FilePath(c.name)] ELSE sent
          /\ Command(c.name, filled) = <<c.name>> \o filled
        BY <1>1, <2>1, PlainWords
    <2>3. /\ rp.name = c.name /\ rp.paramc = Len(sent)
          /\ rp.params = IF sent[1] = Hash THEN [sent EXCEPT ![1] = FilePath(c.name)] ELSE sent
          /\ sent[1] = Hash <=> rp.file # <<>>
        BY <1>1, <2>2 DEF AsParsed, InCall
    <2> HIDE DEF sent
    <2>4. rp.params = filled
        <3> HIDE DEF filled
        <3> QED  BY <2>2, <2>3
    <2>5. SubSeq(filled, 1, Len(sent)) = filled
        <3> HIDE DEF filled
        <3> QED  BY <2>2, SubSeqFull
    <2> HIDE DEF filled
    <2>6. argv = <<c.name>> \o filled
        BY <2>2, <2>3, <2>4, <2>5 DEF argv
    <2> QED  BY <2>3, <2>6 DEF filled, sent
<1>2. IInv /\ AsParsed => CommandArrives
    BY <1>1 DEF CommandArrives
<1> QED  BY <1>2, IInvAlways, AsParsedAlways, PTL

\* The prefix comparison of the server fits what is equal.
LEMMA DeclaredFits ==
    ASSUME NEW rpc, NEW i \in DOMAIN Conf, Conf[i].name = rpc.name, Conf[i].paramc = rpc.paramc,
           Len(Conf[i].name) \in Nat
    PROVE  _rpc_server_offering(Conf, rpc) # 0
<1>1. IsPrefix(Conf[i].name, rpc.name)
    BY DEF IsPrefix
<1>2. IsPrefix(Digits(Conf[i].paramc), Digits(rpc.paramc))
    <2>1. \A n : Digits(n) \in Seq(STRING) => Len(Digits(n)) <= Len(Digits(n))
        OBVIOUS
    <2> QED  BY DEF IsPrefix, Digits
<1>3. LineVerdict(Conf[i], rpc) = 2
    BY <1>1, <1>2 DEF LineVerdict
<1> QED  BY <1>3 DEF _rpc_server_offering

\* A procedure that rpc.conf declares is never refused, wherever its line stands and
\* whatever the parameters of the command are.
THEOREM DeclaredOffered == Spec => []DeclaredIsOffered
<1>1. ASSUME IInv, AsParsed, NEW c \in refused, Announced(c), NEW i \in DOMAIN Conf,
             Conf[i].name = c.name, Conf[i].paramc = Len(Params(c.args))
      PROVE  FALSE
    <2>1. c \in Commands /\ c.name \in Seq(STRING)
        BY <1>1, ServerAssumption DEF IInv, TypeOK
    <2>2. Parsed[c].name = Conf[i].name /\ Parsed[c].paramc = Conf[i].paramc
        BY <1>1, <2>1, NameSeen, CountSeen DEF Announced
    <2>3. Len(Conf[i].name) \in Nat
        BY <1>1, <2>1
    <2>4. _rpc_server_offering(Conf, Parsed[c]) # 0
        BY <2>2, <2>3, DeclaredFits
    <2> QED  BY <1>1, <2>4 DEF AsParsed, Offered
<1>2. IInv /\ AsParsed => DeclaredIsOffered
    BY <1>1 DEF DeclaredIsOffered
<1> QED  BY <1>2, IInvAlways, AsParsedAlways, PTL

\* No command of plain words ends the server's process, in any of the three ways in
\* which a command can.
THEOREM PlainIsHarmless == Spec => []PlainCommandsDoNotKill
<1>1. ASSUME IInv, AsParsed, NEW c \in killers, Plain(c)
      PROVE  FALSE
    <2>1. c \in Commands
        BY <1>1 DEF IInv, TypeOK
    <2> DEFINE sent == _rpc_client_replace_if_path(Params(c.args))
    <2>2. /\ Parsed[c].params = sent /\ Parsed[c].paramc = Len(sent)
          /\ sent \in Seq(Seq(Chars)) /\ sent # <<>>
        BY <1>1, <2>1, PlainWords
    <2>3. Len(sent) \in Nat
        <3> HIDE DEF sent
        <3> QED  BY <2>2
    <2>4. ~Deadly(c)
        BY <2>2, <2>3 DEF Deadly, Overruns
    <2> QED  BY <1>1, <2>4 DEF AsParsed
<1>2. IInv /\ AsParsed => PlainCommandsDoNotKill
    BY <1>1 DEF PlainCommandsDoNotKill
<1> QED  BY <1>2, IInvAlways, AsParsedAlways, PTL

=============================================================================
