----------------------------- MODULE ServerLoop -----------------------------
(***************************************************************************)
(* The server process: rpc_server_listen and its three variants for single *)
(* transports, which go round the transports in one thread, the parsing    *)
(* and execution of a call (rpc_server.c), the signal that stops it        *)
(* (main.c), and the commands of its clients.                              *)
(*                                                                         *)
(* How results reach the clients is left to MdpCall, MspCall and           *)
(* RhizomeCall; here a call is taken, executed and answered, or not.       *)
(***************************************************************************)
EXTENDS CallPayload, FiniteSets

CONSTANTS
    Commands,   \* commands that clients may enter: their SID, the name of the
                \* procedure, and the arguments behind it
    Conf,       \* the lines of rpc.conf
    Binaries,   \* names for which there is a binary
    Garbage,    \* what the elements of an array hold that nobody has set
    FlatSize,   \* the characters a client has room for in the text of its
                \* parameters: 512
    MaxListens, \* bound: listen calls of the process
    MaxCalls    \* bound: calls that reach the server

Modes == {"all", "msp", "mdp", "rhizome"}
Transports == {"msp", "mdp", "rhizome"}

\* A command with no parameter but a list of requirements never leaves its client,
\* which reads behind the end of its arguments; nor does, in order, one whose
\* parameters overrun their buffer.  A name is more than bars.
ASSUME ServerAssumption ==
    /\ MaxListens \in Nat
    /\ MaxCalls \in Nat
    /\ Garbage \in Int
    /\ \A c \in Commands :
          /\ DOMAIN c = {"caller", "name", "args"}
          /\ c.name \in Seq(STRING)
          /\ c.args \in Seq(Seq(STRING)) \ {<<>>}
          /\ Params(c.args) # <<>>
          /\ Len(_rpc_flatten_params(_rpc_client_replace_if_path(Params(c.args)), Bar)) < FlatSize
          /\ \E k \in DOMAIN c.name : c.name[k] # Bar

VARIABLES
    at,             \* where the thread stands: "out" of a listen call; "head" of its
                    \* loop; "msp", "mdp", "list" (about to list the bundles), "pass"
                    \* (going through them) and "sleep"; "accepted", "fetch" (waiting
                    \* for a parameter file) and "running" in a call; "dead"
    server_mode,    \* the mode of the latest listen call
    server_running, \* the global flag: 0, or 1 when the server shall stop
    listens,        \* number of listen calls
    calls,          \* number of calls that have reached the server
    sockets,        \* sockets[t]: open sockets of the process
    setup_failures, \* history: listen calls that have failed at setup
    inbox,          \* inbox[t]: calls that wait in the socket of t, MSP or MDP
    bundles,        \* calls in the Rhizome store of the server
    done,           \* the list of calls that have been executed, in memory
    pass,           \* what is left of the listing
    return_code,    \* of the pass over it
    files,          \* calls whose parameter file is in the store, oldest first
    rp,             \* the call being handled, as the server sees it
    refused,        \* history: calls that the server did not offer
    killers         \* history: calls that have ended the process

loopVars == <<at, server_mode, server_running>>
setupVars == <<listens, sockets, setup_failures>>
arrivalVars == <<calls, inbox, bundles, files>>
workVars == <<done, pass, return_code, rp, refused, killers>>
vars == <<loopVars, setupVars, arrivalVars, workVars>>

NoCall == [via |-> "none"]
InCall == at \in {"accepted", "fetch", "running"}
Gone == at \in {"out", "dead"}

\* A command as it is sent.
Sent == [c \in Commands |->
    LET params == Params(c.args)
    IN  _rpc_client_prepare_call_payload(c.name, params,
            rpc_client_prepare_requirements(Values(c.args, Garbage)))]

\* ... and as it is parsed.
Parsed == [c \in Commands |-> _rpc_server_parse_call(Sent[c])]

SendsFile(c) == c.args[1] = Path

TypeOK ==
    /\ at \in {"out", "head", "msp", "mdp", "list", "pass", "sleep",
               "accepted", "fetch", "running", "dead"}
    /\ server_mode \in Modes
    /\ server_running \in {0, 1}
    /\ listens \in 0 .. MaxListens
    /\ sockets \in [{"msp", "mdp"} -> Nat]
    /\ setup_failures \in 0 .. MaxListens
    /\ calls \in 0 .. MaxCalls
    /\ inbox \in [{"msp", "mdp"} -> SUBSET Commands]
    /\ bundles \subseteq Commands
    /\ done \subseteq bundles
    /\ pass \subseteq bundles
    /\ return_code \in {0, -1}
    /\ files \in Seq(Commands)
    /\ refused \subseteq Commands
    /\ killers \subseteq Commands
    /\ IF InCall THEN /\ rp.via \in Transports
                      /\ rp.call \in Commands
                      /\ rp.paramc \in 0 .. ByteRange - 1
                 ELSE rp = NoCall

Init ==
    /\ at = "out"
    /\ server_mode = "all"
    /\ server_running = 0
    /\ listens = 0
    /\ sockets = [t \in {"msp", "mdp"} |-> 0]
    /\ setup_failures = 0
    /\ calls = 0
    /\ inbox = [t \in {"msp", "mdp"} |-> {}]
    /\ bundles = {}
    /\ done = {}
    /\ pass = {}
    /\ return_code = 0
    /\ files = <<>>
    /\ rp = NoCall
    /\ refused = {}
    /\ killers = {}

-----------------------------------------------------------------------------
(* Listen calls                                                             *)

Uses(mode, t) == mode \in {"all", t}

\* Setup for each transport of the mode, MSP before MDP.
Opened(mode) == [t \in {"msp", "mdp"} |-> sockets[t] + IF Uses(mode, t) THEN 1 ELSE 0]

Listen(mode) ==
    /\ at = "out"
    /\ listens < MaxListens
    /\ listens' = listens + 1
    /\ server_mode' = mode
    /\ UNCHANGED <<server_running, arrivalVars, workVars>>

\* server_running keeps what it held.
ListenStarts(mode) ==
    /\ Listen(mode)
    /\ at' = "head"
    /\ sockets' = Opened(mode)
    /\ UNCHANGED setup_failures

\* Setup fails: no socket for MSP; or, with that of MSP open, no socket for MDP, or
\* one that cannot be bound.  Nothing is closed.
ListenFails(mode) ==
    /\ Listen(mode)
    /\ mode # "rhizome"
    /\ setup_failures' = setup_failures + 1
    /\ \/ UNCHANGED sockets
       \/ Uses(mode, "mdp") /\ sockets' = Opened(mode)
       \/ mode = "all" /\ sockets' = [sockets EXCEPT !["msp"] = @ + 1]
    /\ UNCHANGED at

\* Mutant: the test wants a second signal.
StopSeenLate == server_running = 2

StopSeen == server_running = 1

\* Mutant: the loop on all transports forgets a socket.
ClosedButMdp(mode) ==
    [t \in {"msp", "mdp"} |-> sockets[t] - IF Uses(mode, t) /\ (mode = "all" => t = "msp") THEN 1 ELSE 0]

\* The latest sockets are closed; what waited there is lost.
Closed(mode) == [t \in {"msp", "mdp"} |-> sockets[t] - IF Uses(mode, t) THEN 1 ELSE 0]

LeaveLoop ==
    /\ at = "head"
    /\ StopSeen
    /\ at' = "out"
    /\ sockets' = Closed(server_mode)
    /\ inbox' = [t \in {"msp", "mdp"} |-> {}]
    /\ UNCHANGED <<server_mode, server_running, listens, setup_failures, calls,
                   bundles, files, workVars>>

FirstOf(mode) == IF mode = "all" THEN "msp" ELSE IF mode = "rhizome" THEN "list" ELSE mode

StartRound ==
    /\ at = "head"
    /\ ~StopSeen
    /\ at' = FirstOf(server_mode)
    /\ UNCHANGED <<server_mode, server_running, setupVars, arrivalVars, workVars>>

\* Mutant: a round on all transports has no place for MDP.
RoundWithoutMdp(t) == IF server_mode = "all" /\ t = "msp" THEN "list" ELSE "sleep"

\* What follows MSP and MDP in a round.
After(t) ==
    IF server_mode # "all" THEN "sleep" ELSE IF t = "msp" THEN "mdp" ELSE "list"

Wake ==
    /\ at = "sleep"
    /\ at' = "head"
    /\ UNCHANGED <<server_mode, server_running, setupVars, arrivalVars, workVars>>

-----------------------------------------------------------------------------
(* Taking calls                                                             *)

\* More parameters than the count says are written behind the array, and what
\* that does is open.
Overruns(c) == Len(Parsed[c].params) > Parsed[c].paramc

Offered(c) == _rpc_server_offering(Conf, Parsed[c]) # 0

\* The call is parsed; the server acknowledges it.
Accept(c, t) ==
    /\ Offered(c)
    /\ at' = "accepted"
    /\ rp' = [via |-> t, call |-> c, name |-> Parsed[c].name, paramc |-> Parsed[c].paramc,
              params |-> Parsed[c].params, file |-> <<>>,
              requirements |-> _rpc_server_parse_requirements(Sent[c].requirements)]
    /\ UNCHANGED <<return_code, refused, killers>>

\* The server does not offer it; a pass over the store remembers that.
Refuse(c, t) ==
    /\ ~Offered(c)
    /\ at' = CASE t = "msp" -> "msp" [] t = "mdp" -> After("mdp") [] t = "rhizome" -> "pass"
    /\ return_code' = IF t = "rhizome" THEN -1 ELSE return_code
    /\ refused' = refused \cup {c}
    /\ UNCHANGED <<rp, killers>>

\* The write behind the array ends the process.
Crash(c) ==
    /\ Overruns(c)
    /\ at' = "dead"
    /\ killers' = killers \cup {c}
    /\ UNCHANGED <<return_code, rp, refused>>

\* A round handles what waits for MSP, but one packet of MDP.
TakePacket(t) ==
    /\ at = t
    /\ \E c \in inbox[t] :
        /\ inbox' = [inbox EXCEPT ![t] = @ \ {c}]
        /\ Accept(c, t) \/ Refuse(c, t) \/ Crash(c)
    /\ UNCHANGED <<server_mode, server_running, setupVars, calls, bundles, files, done,
                   pass>>

NothingThere(t) ==
    /\ at = t
    /\ inbox[t] = {}
    /\ at' = After(t)
    /\ UNCHANGED <<server_mode, server_running, setupVars, arrivalVars, workVars>>

ListBundles ==
    /\ at = "list"
    /\ at' = "pass"
    /\ pass' = bundles
    /\ return_code' = 0
    /\ UNCHANGED <<server_mode, server_running, setupVars, arrivalVars, done, rp, refused, killers>>

\* The store does not list its bundles, or decrypt one: the pass is over.
StoreFails ==
    /\ at = "list" \/ (at = "pass" /\ pass \ done # {})
    /\ at' = "pass"
    /\ pass' = {}
    /\ return_code' = -1
    /\ UNCHANGED <<server_mode, server_running, setupVars, arrivalVars, done, rp, refused, killers>>

TakeBundle ==
    /\ at = "pass"
    /\ \E c \in pass \ done :
        /\ pass' = pass \ {c}
        /\ Accept(c, "rhizome") \/ Refuse(c, "rhizome") \/ Crash(c)
    /\ UNCHANGED <<server_mode, server_running, setupVars, arrivalVars, done>>

\* Mutant: a pass that went well sets the flag, too.
FlagOfPass == IF return_code = -1 THEN 1 ELSE 0

\* A pass that failed stops the server; a stop that was asked for before stays.
FlagAfterPass == IF return_code = -1 THEN 1 ELSE server_running

EndPass ==
    /\ at = "pass"
    /\ pass \subseteq done
    /\ at' = "sleep"
    /\ server_running' = FlagAfterPass
    /\ pass' = {}
    /\ UNCHANGED <<server_mode, setupVars, arrivalVars, done, return_code, rp, refused,
                   killers>>

-----------------------------------------------------------------------------
(* _rpc_server_excecute                                                     *)

\* The handler returns to where it was called.
Finish(finished) ==
    /\ at' = CASE rp.via = "msp" -> "msp" [] rp.via = "mdp" -> After("mdp")
               [] rp.via = "rhizome" -> "pass"
    /\ done' = IF rp.via = "rhizome" /\ finished THEN done \cup {rp.call} ELSE done
    /\ rp' = NoCall
    /\ UNCHANGED <<server_mode, server_running, setupVars, arrivalVars, pass,
                   return_code, refused, killers>>

NoBinary ==
    /\ at = "accepted"
    /\ rp.name \notin Binaries
    /\ Finish(FALSE)

\* Where a call goes on, and as what.
Goes(where, call) ==
    /\ at' = where
    /\ rp' = call
    /\ UNCHANGED <<server_mode, server_running, setupVars, arrivalVars, done, pass,
                   return_code, refused>>

Dies ==
    /\ Goes("dead", NoCall)
    /\ killers' = killers \cup {rp.call}

\* The parameters are read up to the count, and there are fewer: a null pointer.
MissesParams == Len(rp.params) < rp.paramc

NeedsFile == rp.params[1] = Hash

Runs(params, file) ==
    /\ Goes("running", [rp EXCEPT !.params = params, !.file = file])
    /\ UNCHANGED killers

\* What popen has started for the call that runs: the name of the binary and the
\* parameters, up to their count.
argv == Command(rp.name, SubSeq(rp.params, 1, rp.paramc))

StartExecution ==
    /\ at = "accepted"
    /\ rp.name \in Binaries
    /\ \/ rp.params = <<>> /\ Dies
       \/ /\ rp.params # <<>>
          /\ NeedsFile
          /\ Goes("fetch", rp)
          /\ UNCHANGED killers
       \/ rp.params # <<>> /\ ~NeedsFile /\ MissesParams /\ Dies
       \/ rp.params # <<>> /\ ~NeedsFile /\ ~MissesParams /\ Runs(rp.params, <<>>)

\* Mutant: a file of anybody will do.
FitsByName(c) == IsPrefix(rp.name, c.name)

\* A file of the caller, of a procedure whose name begins with that of the call.
Fits(c) == IsPrefix(rp.name, c.name) /\ c.caller = rp.call.caller

Fitting == {i \in DOMAIN files : Fits(files[i])}

\* The path of the newest file that fits takes the place of the hash.
FetchFile ==
    /\ at = "fetch"
    /\ Fitting # {}
    /\ IF MissesParams
       THEN Dies
       ELSE Runs([rp.params EXCEPT ![1] = FilePath(rp.name)], <<files[Max(Fitting)]>>)

\* The binary exits with an error, or cannot be started.
ExecutionFails == at = "running" /\ Finish(FALSE)

\* The result is sent; a call of the store is done.
ExecutionEnds == at = "running" /\ Finish(TRUE)

-----------------------------------------------------------------------------
(* The world outside                                                        *)

\* The signal handler runs between any two steps of the thread.
Signal ==
    /\ at # "dead"
    /\ server_running' = 1
    /\ UNCHANGED <<at, server_mode, setupVars, arrivalVars, workVars>>

\* A call reaches a socket the server listens to ...
Arrive(c, t) ==
    /\ ~Gone
    /\ Uses(server_mode, t)
    /\ calls < MaxCalls
    /\ c \notin inbox[t]
    /\ calls' = calls + 1
    /\ inbox' = [inbox EXCEPT ![t] = @ \cup {c}]
    /\ UNCHANGED <<loopVars, setupVars, bundles, files, workVars>>

\* ... or its store.
Replicate(c) ==
    /\ calls < MaxCalls
    /\ c \notin bundles
    /\ calls' = calls + 1
    /\ bundles' = bundles \cup {c}
    /\ UNCHANGED <<loopVars, setupVars, inbox, files, workVars>>

\* The parameter file of a command reaches the store, before the call or after.
FileReplicates(c) ==
    /\ SendsFile(c)
    /\ c \notin {files[i] : i \in DOMAIN files}
    /\ files' = Append(files, c)
    /\ UNCHANGED <<loopVars, setupVars, calls, inbox, bundles, workVars>>

-----------------------------------------------------------------------------
Thread ==
    \/ LeaveLoop \/ StartRound \/ Wake
    \/ \E t \in {"msp", "mdp"} : TakePacket(t) \/ NothingThere(t)
    \/ ListBundles \/ TakeBundle \/ EndPass
    \/ NoBinary \/ StartExecution \/ FetchFile \/ ExecutionFails \/ ExecutionEnds

Environment ==
    \/ StoreFails
    \/ Signal
    \/ \E c \in Commands :
        \/ Replicate(c)
        \/ FileReplicates(c)
        \/ \E t \in {"msp", "mdp"} : Arrive(c, t)

Next ==
    \/ \E mode \in Modes : ListenStarts(mode) \/ ListenFails(mode)
    \/ Thread
    \/ Environment

Spec == Init /\ [][Next]_vars

\* The thread goes on, and the binaries it waits for end.  Nothing is assumed of
\* signals, calls, files and the application.
FairSpec == Spec /\ WF_vars(Thread)

-----------------------------------------------------------------------------
(* Safety                                                                   *)

\* Sockets outlive a listen call only if its setup has failed.
SocketsAreClosed ==
    at = "out" => \A t \in {"msp", "mdp"} : sockets[t] <= setup_failures

\* The places of the thread in the order of a round.
Place ==
    LET Rank == [head |-> 4, msp |-> 0, mdp |-> 1, list |-> 2, pass |-> 2,
                 rhizome |-> 2, sleep |-> 3, out |-> 5, dead |-> 5]
    IN  IF InCall THEN Rank[rp.via] ELSE Rank[at]

\* Once the server shall stop, the thread only moves on to the end of its round
\* and of the listen call: no transport gets a second turn, and a later listen
\* call, which finds the flag as it was, gives none a turn at all.
StopMovesOn ==
    [][server_running = 1 => server_running' = 1 /\ (at # "out" => Place' >= Place)]_vars

\* The name and the number of parameters reach the server as the client entered them.
Announced(c) == Carried(c.name, Bar) /\ Len(Params(c.args)) < ByteRange

\* One word on a command line.
Word(text) ==
    Carried(text, Bar) /\ Carried(text, Space) /\ \A k \in DOMAIN text : text[k] \notin ShellChars

\* So does the whole command, and the shell makes of it what it was.
Plain(c) ==
    /\ Announced(c)
    /\ Word(c.name)
    /\ \A i \in DOMAIN Params(c.args) : Word(c.args[i])

\* The binary of a command of plain words gets the parameters that the client
\* entered, as many and as they are, a local file in the place of a hash; of a
\* command with a blank, a bar or a character of the shell nothing is claimed.
CommandArrives ==
    at = "running" /\ Plain(rp.call) =>
        LET name == rp.call.name
            sent == _rpc_client_replace_if_path(Params(rp.call.args))
        IN  /\ argv = <<name>> \o
                  [sent EXCEPT ![1] = IF @ = Hash THEN FilePath(name) ELSE @]
            /\ sent[1] = Hash <=> rp.file # <<>>

\* A procedure that rpc.conf declares with this name and number of parameters is
\* not refused, whatever lines come before and after, and whatever the parameters are.
DeclaredIsOffered ==
    \A c \in refused : Announced(c) =>
        \A i \in DOMAIN Conf :
            ~(Conf[i].name = c.name /\ Conf[i].paramc = Len(Params(c.args)))

\* No command of plain words ends the server's process: not by more parameters than
\* it has room for, not by none, and not by fewer than announced.
PlainCommandsDoNotKill == \A c \in killers : ~Plain(c)

\* The parameter file of an execution comes from the caller; the name and the
\* sender are all that ties it to the call.
FileIsTheCallers ==
    at = "running" => \A i \in DOMAIN rp.file : rp.file[i].caller = rp.call.caller

-----------------------------------------------------------------------------
(* Liveness                                                                 *)

\* The one wait without an end: for a parameter file that does not come.
Stuck == at = "fetch" /\ Fitting = {}

\* The server obeys the signal, unless it hangs in such a wait.
StopIsObeyed == (server_running = 1) ~> (Gone \/ Stuck)

\* What waits in a socket is handled, unless the server has stopped, or died, or
\* hangs: one call without its file starves all the others.
CallsAreTaken ==
    []<>(\A t \in {"msp", "mdp"} : inbox[t] = {}) \/ <>[]Gone \/ <>[]Stuck

=============================================================================
