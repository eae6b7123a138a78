# A verification of DTN-RPC (ServalRPC) in TLA+

DTN-RPC calls procedures of other nodes of a Serval network. A call takes one
of three ways: MSP, a connection to a reachable server; MDP, datagrams to one or
to all servers in reach; Rhizome, bundles that are stored and forwarded until
they meet their recipient. This directory models the code under `src/src`,
checks it with TLC on small instances and proves invariants of it with TLAPS for
all instances.

## 1. The system

### Components, their state and their operations

| component | state | operations |
|---|---|---|
| result array (`rpc_client.c`, `rpc.h`) | `rpc_result[5]`, a SID and a content each; a slot is free if its SID is SID_ANY | the scans for the first free slot and for a SID; an ACK reserves a slot, an answer fills one |
| MDP client (`rpc_client_mdp.c`) | the flag `received` (global), `wait_time`, one socket per call | send until the first ACK, poll, take ACKs and answers, download a file, give up |
| MDP server (`rpc_server_mdp.c`) | a socket | receive a call, check rpc.conf, ACK, execute, send the result or leave it to Rhizome |
| Rhizome client (`rpc_client_rhizome.c`) | `received`, `wait_time`, `token` (how far the store is read) | insert the call, list the store, read its new bundles, download, give up |
| Rhizome server (`rpc_server_rhizome.c`) | `done_calls`, in memory | list the store once a second; ACK, execute, answer, record as done |
| MSP client and server (`rpc_client_msp.c`, `rpc_server_msp.c`) | connection state, `received`, `current_rpc` | handlers called back by the Serval library; one poll loop |
| transparent call (`rpc_client.c`) | none of its own | MDP or MSP first, Rhizome after a failure |
| server loops (`rpc_server.c`, `main.c`) | `server_running`, `server_mode` | set up, one round per second over the transports, stop on a signal or a failure |
| execution (`rpc_server.c`) | none | run the binary, read its output, put a file it names into the store |
| file transfer (`rpc_helpers.c`) | the Rhizome store | add a file under the name `f_<procedure>`, download the newest such file |
| payload, requirements, offering (`rpc_client.c`, `rpc_server.c`) | none | pack and parse calls; the line of rpc.conf that fits |
| command line (`main.c`) | `server_running`, by its signal handler | the list of requirements; one call or one server per process |

Left aside: cJSON (vendored), the cURL helpers (buffers and options), the Serval
headers (an external library, of which only headers are here) and the build.

### How they interact

Client and servers share nothing but the network. Inside the client process the
transports share two globals, `rpc_result` and `received`, and they read
`received` differently: MDP and MSP use 0, 1 (ACK), 2 (answer), -1; the Rhizome
listener only asks whether it is zero. Inside a server process everything runs in
one thread, one transport after the other; a procedure that is being executed
holds up all of them. All file results travel over Rhizome, whatever transport
the call took, and so does a result whose caller has gone.

### What is hard

* **Unordered, lossy messages.** The answer may overtake the ACK, the ACK may be
  late so that the call is sent twice, a bundle may arrive years later.
* **No call identity.** No packet says which call it belongs to. Over MDP a call
  has a socket of its own; over Rhizome anything with the right name is accepted.
* **Repetition.** The MDP server has no memory of calls, the Rhizome server has
  one that a restart empties, and a failing procedure is retried every second.
* **Deadlines** that ACKs move, differently on MDP and on Rhizome, and waits that
  have none (an MSP call, the download of a file, a parameter file at the server).
* **One flag for three transports**: what `received` holds after one call decides
  about the next, and `server_running` has two writers.
* **The result array**: reserved by ACKs, filled by answers, counted by a function
  that counts reservations, five slots long.

`PROJECT.json` lists the hazards one by one, at their lines.

### What makes each component correct

* array: taken slots stay in front; a slot keeps its server; an answer stands
  beside the server that computed it; nothing is written behind the end;
* MDP: servers repeat work only as often as the client sends; the code tells what
  was heard; a call returns;
* Rhizome: a server executes a call once per life and retries it until it
  succeeds; nothing that is read is dropped although it could be kept; the deadline
  moves once; a call returns;
* MSP: an answer is that of the called server; a connection that ends before an ACK
  fails the call, and one that ends after it leaves the call hanging (the code's flaw);
* transparent call: Rhizome is tried after a failure, once, and throws no answer away;
  a call that was acknowledged over MSP is not issued again; 2 means an answer;
* server loops: a stop request is obeyed; no transport starves another; sockets are closed;
* conversions: a command of plain words is executed as its client has entered it.

## 2. The modules and how they are put together

| module | content | proofs |
|---|---|---|
| `RpcResults` | the result array, its scans and writes | `RpcResultsProofs` |
| `RpcCall` | abstract: what a call promises | |
| `MdpCall` | MDP client, network, MDP servers; implements `RpcCall` | `MdpCallProofs`, `MdpAnswersProofs` |
| `RhizomeCall` | Rhizome client, replication, Rhizome servers; implements `RpcCall` | `RhizomeCallProofs` |
| `MspCall` | MSP client and servers: the loop, the callbacks, the connection | with `TransparentCall` |
| `TransparentCall` | `rpc_client_call` and direct calls over all three transports, and servers on all of them; implements `RpcCall` | `TransparentCallProofs`, `TransparentTruthProofs` |
| `CallPayload` | conversions between command line and binary, rpc.conf | `CallPayloadProofs` |
| `ServerLoop` | a server process: listen calls, rounds, signals, execution, parameter files | `ServerLoopProofs` |

`MdpCall`, `RhizomeCall` and `MspCall` extend `RpcResults`, so that one set of lemmas
about the array serves all of them. `MspCall` is a module of operators without a
specification of its own: `TransparentCall` extends it, takes its steps as they are,
and adds the other transports to them. `ServerLoop` extends `CallPayload`.
The `MC` modules give TLC its model values and, for `ServerLoop`, an rpc.conf and eight
commands.

The order in which a reader should take them is that of the table: the array, one
transport at a time, their composition, the server process.

### RpcResults

The array is a function from `Slot` (0 to `MaxResults - 1`, C's indices) to records.
`rpc_client_result_get_insert_index` and `_rpc_client_result_get_sid_index` have the
names they have in C. With a full array the insert index is `MaxResults`; `Reserve`
then changes nothing, and `ReserveOverruns` says that the write went behind
the array. `ReservesSlot` is the condition of the ACK branch: it looks for the SID
that was *called*.

### MdpCall

`pc` names the places of `rpc_client_call_mdp`: `loop` (head of the while loop),
`poll` (in `poll`/`mdp_recv`), `download`. One action per branch: `SendCall`,
`AwaitAnswer`, `PollTimeout`, `ReceiveError`, `ReceiveAck`, `SkipAnswer`,
`ReceiveAnswer`, `ReceiveHash`, `AwaitFile`, `Download`, `Finish`, `GiveUp`, `AbortCall`,
and `RefuseCall` for the returns before the loop. A server handles a call in two
steps, `AcceptCall`/`IgnoreCall` and the end of the execution (`ExecutionFails`,
`SendResult`, `ResultUndeliverable`), since everything else goes on meanwhile.

The network is a count per kind, server and call. A message that is never taken is
lost; any may be taken next. An answer carries its sender and the socket it was
sent to, which the code has from the MDP header. A call's socket closes when the call
returns; on the paths where the code forgets to close it nobody reads it again.

A hash keeps the call in `while (_rpc_download_file(...) != 1) sleep(1)`, which has no deadline.
`AwaitFile` is a turn in which no file was there or the store could not be asked; it takes a second
of `time`, and `waited` counts these seconds. `Download` is the turn in which the newest file is
found. What is said of the deadline (`WaitIsBounded`) is said of the time that has not been slept
in this loop; the loop itself may last for ever, or for more than any deadline.

`ResetsReceived` says how calls are made. TRUE stands for calls through
`rpc_client_call`, which sets `received` to 0, and for the one call of a `main.c`
process. FALSE, a second direct call in one process, makes `rpc_client_call_mdp`
return at once with the flag of the call before; `TransparentCall` has both kinds of
call in one behaviour.

### RpcCall

The contract: who has accepted, who has answered, and what each return code means.
`ImplementsRpcCall` of `MdpCall` and of `RhizomeCall` is the refinement: `accepted` is
the history variable `acked`, `answered` is read off the array. `Late` is the one
difference between the two. Over MDP it is FALSE: a call to one server hears of that
server only, since its socket is its own. Over Rhizome it is TRUE: an ACK or an answer
names the procedure and not the call, so that what an earlier call has caused may reach
this one (the run `rhz_wrong_server` shows such a call). What the codes mean is the same
on both.

`TransparentCall` implements it too, with `Late`, since it may end over Rhizome: an MDP or MSP
call and its fallback are one call of `RpcCall`. `answered` is then what the array holds, except
before a transport has cleared it and after a failure, which may leave the array as it was
(`NoneHeard`). A direct call that finds the flag of an earlier one keeps no promise
(`KeepsContract`); it is mapped to a call that is refused at once. A direct call over Rhizome
does not look at the flag and keeps its promise in any case.

### RhizomeCall

The client's store is a sequence in the order of arrival, which is the order of
Rhizome's tokens; `token` is a position in it. `ListStore` fixes how far one listing
goes; the rows are then read one by one (`SkipBundle`, `ReadAck`, `SkipAnswer`,
`ReadAnswer`, `ReadHash`), since bundles arrive meanwhile. The first listing starts
at the newest bundle, as the code does.

Of a server's store only the calls matter (`inbox`). A pass is the set of calls it
has listed and not reached (`todo`); the code goes through them newest first, and
since calls arrive in any order, so may the model. `AcceptCall` inserts the ACK and
starts the execution; `ExecutionSucceeds` inserts the result, and the file if there is
one, and records the call as done; `ExecutionFails` does not. `ReadHash`, `AwaitFile` and `Download` wait
for a file as those of `MdpCall` do, in a loop that no deadline ends. `IgnoreCall` marks the
pass as failed, and `PassRefuses` then stops the server, as the loop in
`rpc_server.c` does. `PassFails` stands for a REST request that fails,
`ServerCrashes` and `ServerRestarts` for the process. A bundle whose insertion fails,
which the server ignores, is one that never replicates.

### MspCall

`pc` is the place in `rpc_client_call_msp`; the MSP library calls
`_rpc_client_msp_handler` from `msp_processing` and `msp_recv`, so that its steps
belong to the place `poll`. The handler first looks at the state of the connection
(`FlagAfter`, `LinkAfter`), then at the packet, if it is given one: `ConnectionEnds`
is a call without, `ReceiveAck`, `ReceiveAnswer` and `ReceiveHash` are calls with one, in
any of the three states it tells apart. `Download` waits inside the handler, under no
deadline. `SocketIsNull` is the condition under which the loop would start the Rhizome
listener; it looks at the handle in a local variable, of which the handler stops only a copy, and
is never true, unless `msp_socket` had returned a null handle in the first place. The code does not
look at what it returns (`rpc_client_msp.c:69` and `:82`), and the model has no such socket.

A connection is a sequence of packets that may be cut off at any moment. The two ends
learn of it independently: the client in the handler, the server when its handler has
been called with a packet (`attached`), not while it executes the procedure.
A result that cannot be sent is put into Rhizome by a server on all transports
(`mailed`) and dropped by one on MSP.

### TransparentCall

`stage` is where the client is above the transports: `enter` one, in one, in the ladder
of `rpc_client_call` (`cascade`, with `step` the code that is tested next; `judge`
after a fallback to Rhizome), waiting for a file (`fetch`). `Call(sid)` is
`rpc_client_call`, `CallDirectly(sid, t)` a call of one transport, which finds the flag
as the call before has left it. `FallBack`, `JudgeRhizome` and `ReturnToCaller` are the
three ifs, for the codes -1, 0 and 1. `Destinations` has the SIDs for each call of the application.

MSP takes the steps of `MspCall`. MDP and Rhizome have a step per branch, with what
they do to the flag, the array, the files and the network; their clocks, cursors and
counters, which `MdpCall` and `RhizomeCall` keep, are left out: a deadline may pass at
any moment, and a listener reads any bundle of its store or none.

A server is one thread for all its transports: `serving[s]` is the one call it is
executing, `via[s]` the way it came. `copies` are packets and bundles that it may
take. A packet is gone when it has been taken; a bundle stays in the store of its server, and is
not taken again once the call is in `done[s]`, which is `done_calls`. A failing execution does not
put it there. `ServerRestarts` (counted in `restarts`) ends the process and starts it anew, perhaps
in the middle of an execution, which then counts as executed and has no answer. `done[s]` is lost; the
store stays, and with it the calls that the new process finds there and executes again.

`files` is the client's store of files named after the procedure: those of servers, and
the client's own parameter files (`FileParams`), which have the same name. MDP and
Rhizome take the newest whoever has sent it; MSP looks at the sender.

### CallPayload

A text is a sequence of characters as far as the code looks into it: delimiters,
digits, and what names differ in. `rpc_client_prepare_requirements` and
`_rpc_server_parse_requirements` are the shifts and masks on 32 bits, seen as eight
digits of four bits; `Tokens` is `strtok`; `CountByte` is the byte of the parameter
count; `LineVerdict` is the comparison of one line of rpc.conf, with `strncmp` over the
length of what the *line* says. `Command` is the command line of the binary: the name and the
parameters are flattened again, with blanks between them this time, and `Words` is what the shell of
`popen` makes of that: words between blanks, and with a character that means something to the shell
(`ShellChars`) anything at all. What the client entered and what the binary gets may
differ at both ends, at the bars of the payload and at the blanks of the command line.

### ServerLoop

`at` is where the one thread of a server process stands, in a round, in the handler of a
call, or dead. `ListenStarts`/`ListenFails` are `rpc_server_listen*` with every place at
which their setup may fail; `TakePacket`, `ListBundles`, `TakeBundle` and `EndPass` the
transports; `Accept`, `Refuse` and `Crash` what happens to a call that has been parsed;
`NoBinary`, `StartExecution`, `FetchFile`, `ExecutionFails` and `ExecutionEnds` are
`_rpc_server_excecute`. `Signal` sets the flag between any two steps. `rp` is the call as
the server has parsed it from what `CallPayload` says the client has sent: commands go
through both conversions on their way, and `argv` is what `popen` has started for the call that is running.

A command can end the process (`dead`) in three ways, and `killers` remembers which commands have:
more parameters than the byte says are written behind the array, where the model lets the process
die or go on; of fewer than it says, one that is read is a null pointer; and a call without any
has no first parameter to look at. The client writes its parameters into a buffer of 512 bytes
without looking at their length (`flat_params`, `rpc_client_msp.c:90`); that those of the commands
fit is assumed (`FlatSize`).

## 3. What the runs check

Passing runs:

| run | instance | shows |
|---|---|---|
| `mdp_calls` | 2 servers, one returning files; 2 calls in a row to any, all or one; 2 slots; every call sent once | answers belong to the server and the call they stand for; the call is a call of `RpcCall`, which says what its codes mean |
| `mdp_all` | 2 servers, one returning files, an "all" call sent twice, 2 slots | types, order of the slots, conservation of calls, bounded wait (but for the sleep until a file comes), when the array is overrun, slots keep their server, the call returns unless its file never comes |
| `rhz_all` | 2 servers, one returning files, which may never arrive; one call to any, all or one | answers are real; order of the slots, nothing overlooked, bounded wait; the call is a call of `RpcCall`, which says what its codes mean |
| `rhz_retries` | 1 server, 1 failure, 1 restart | types; executed once per life; the call returns; calls are served |
| `transparent` | 1 server on all transports, restarted at most once; 2 calls through `rpc_client_call` or over MDP alone, the first to the server, the second to it or to all; a parameter file in the first, an answer file in the second | work is repeated only on request or because a restarted server has forgotten it; each transport is used once; no answer is thrown away; an acknowledged call is not issued again; the application is told the truth; a text in the array is the result of an execution; answers over MSP are the server's; the call is a call of `RpcCall`; which calls never return |
| `server_loop` | 1 process, 2 listen calls in any mode, 2 calls out of 8 commands over any transport, 3 lines in rpc.conf | sockets are closed; a command of plain words starts its binary with these words; what rpc.conf declares is not refused, if the name has no delimiter in it and the count fits the byte; no command of plain words kills the server, in whatever way; parameter files are the caller's; a stop is obeyed; calls are taken |

Some of these properties have a part that states what the code does although its author will not
have meant it: `OverrunNeedsCrowd` allows an overrun, `WorkIsBounded` an execution more per restart, and
`CallReturns`, `CallsEnd`, `StopIsObeyed` and `CallsAreTaken` name the waits that have no end.

Runs that must find a violation, each a disagreement of the code with what a comment or a
document says of it:

| run | statement | what happens |
|---|---|---|
| `mdp_one_slot` | comment `rpc_client_mdp.c:102`: a server that is in the array is not stored again | the second ACK of one server takes a second slot |
| `mdp_wrong_file` | comment `rpc_client_mdp.c:124`: *the* file is downloaded | the newest file of the procedure is |
| `rhz_wrong_server` | `technology.md:73`: server_sid executes the call | the late answer of another server is returned |
| `codes` | `technology.md:43`: `rpc_client_call` returns 1 after an ACK without a result | Rhizome, called for that very code, fails at its deadline, and -1 is returned |
| `mdp_results` | `technology.md:8`, `README.md:68`: a result that cannot be sent comes over Rhizome | that of an MDP call is addressed to SID_BROADCAST, and the caller, who listens in Rhizome, takes only what is addressed to itself |
| `lost_call` | comment `rpc_client_msp.c:103`, `README.md:103`: after the loss of the connection the result comes over Rhizome | the listener is not started; the loop goes round for ever |

Every property of a passing run has a mutant in `PROJECT.json`: a plausible bug in
one definition (operators marked "mutant" in the modules) under which TLC finds the
property violated.

### Bounds, and why they are enough

* *Two slots instead of five.* The code treats slots alike but for the last; with two
  there is a first, a last, a full array and one ACK too many.
* *Two servers, two calls, two sends.* The faults of this code need a second server (whose
  answer or file is it?), a second call (is it late? what has the first left in the flag?)
  or a second copy. The theorems cover all numbers.
* *One server in `transparent`*, restarted at most once and sent each MDP call once: what the
  transports share is the flag, the array, the files and the server's one thread; that answers of
  two servers keep apart is the business of the runs of the single transports. A second server on
  all transports multiplies the states beyond what a run can visit.
* *The first call of `transparent` goes to the server* (`OneThenEither`), over MSP or MDP; the
  second to it or to all. Which call to which destination comes second matters by what the first has
  left: a flag, bundles, files, a done call. The destination "any" is in `mdp_calls`, `rhz_all` and,
  over all transports, in `codes` and `mdp_results`.
* *A file in the second call, a parameter file in the first*: so that the parameter file of
  an earlier call is there when the answer file of a later one is asked for.
* *Times* (`WaitTime`, `AckExtension`, `ShortWait`, `LongWait`) are 1 or 2: what counts is that a
  deadline may come before, between and after any two messages.
* *`ByteRange` 16 instead of 256*: one command has 17 parameters, which is what 257 are to a byte.
  *`FlatSize` 40 instead of 512*: room for those 17. *`Garbage` 16*: an unset element out of range,
  the case that turns all requirements to 0; the theorem `Mirrored` is about any integer.
  *`ShellChars` {";"}*: no command of the run has one, as anything may follow from it.
* *The commands of `MCServerLoop`*: one for each thing the conversions can meet (two callers with
  one file name, requirements, an empty parameter alone and behind another, a blank in one, too
  many, no such procedure, no binary); rpc.conf has a name that is a prefix of the one in the next
  line.
* *Two listen calls, two calls*: a second listen call finds the flag of the first; a
  second call waits behind the first.
* `MaxSends`, `MaxFailures`, `MaxRestarts`, `MaxWait`, `PassTime`, `MaxListens`, `MaxCalls` are
  guards that keep the state space finite. A call past `MaxSends` is lost. `MaxWait` counts the
  seconds a call sleeps until a file has come; past it the wait is a stutter until there is a file.
  `AnswerArrives` stops after the last call has returned, since nobody reads the store any more.
* Deadlock is not checked: after the last call, with every message taken, the
  system stops; so does a process that is dead or out of its last listen call.

### Fairness

`FairSpec` of `MdpCall` is weak fairness of the client's step: inside a call its
process keeps running, and `poll` returns after a second at the latest. Nothing is assumed of the
network or the servers. `FairSpec` of `RhizomeCall` adds weak fairness for each
server that runs: its loop goes round once a second, and the procedures it executes
end. It may crash at any time and need never be restarted; nothing is assumed of replication.

`FairSpec` of `TransparentCall` lets the client process run: `Control` is everything above
and beside MSP, `MspLoop` the loop of the MSP call. `Handled` is strongly fair: a packet
that lies at the client's end is there in every round, but not between the rounds, and the
library hands it over in one of them. Nothing is assumed of servers, connections and
replication; in particular the end of a connection may never be noticed.

`FairSpec` of `ServerLoop` is weak fairness of the thread: it runs, and binaries end.
Signals, calls, files, failures of the store and listen calls may come or not.

`CallReturns` exempts a call that waits for a file while there is none in the store: the loop around
`_rpc_download_file` has no deadline. With a file there it returns, if the store is not refused for
ever (after `MaxWait` turns it is not). `CallsEnd` covers such waits: a call returns unless it waits
for ever for one of the things `Waits` lists. `CallsAreServed` says that a call is executed or the
server has stopped; `StopIsObeyed` and `CallsAreTaken` except the one wait of the server without an
end (`Stuck`: a parameter file that does not come).

## 4. What is proved

The assumptions are the named ones in the modules: `ResultsAssumption` (at least one slot; SID_ANY
and SID_BROADCAST are two SIDs that no server has), `MdpAssumption`, `RhizomeAssumption`,
`MspAssumption`, `TransparentAssumption`, `ServerAssumption` and `PayloadAssumption`: the types of
the parameters, that `NoContent`, the empty slot, is no answer, that the second deadline of a
Rhizome call is later than the first, and that the blank and what the server itself writes into a
command line mean nothing special to the shell. `ServerAssumption` also says that a command has at
least one parameter that is no list of requirements: `main.c` (lines 141 to 152) takes the
requirements off the end of its arguments, and with nothing before them it reads behind the end and
never gets as far as a packet. It also says that the parameters of a command fit the client's buffer
(`FlatSize`), since what follows if they do not is undefined. For the counting of ACKs the servers
are finitely many. There is no bound on servers, calls, slots, sends, times, commands or lines.

* **The array** (`RpcResultsProofs`). A nonempty set of naturals has a least element
  (from the well-foundedness of the naturals), so each scan stops at the first slot it
  looks for: `InsertIndex`, `SidIndex`. From them `ReserveOrder`, `StoreReservedOrder` and
  `StoreSingleOrder`: the writes keep the taken slots in front.
* **MdpCall, the array and the work** (`MdpCallProofs`). `TypeCorrect` is inductive as it
  stands. `CallsAreConserved`: the sum of copies in flight, being served and served is at most
  the sends; each action moves one unit or adds one on both sides. `SlotsStayInOrder` and
  `SlotsStayWithTheirServer` follow from the lemmas on the array and one on what each action
  may do to it.
* **MdpCall, answers and codes** (`MdpAnswersProofs`). `AnswersAreOwned`, `AnswersAreReal` and
  `CodesTellTheTruth` say nothing of the packets that will change the array next, so they are
  not inductive. The invariant `Known` adds where packets in flight come from (`Sources`:
  an answer has been computed, an ACK was sent for), that a call to one server is heard by that
  server only (`Addressed`), and what the flag means while the call is open. From it also
  `CallIsRpcCall`: if `ResetsReceived`, every step of `MdpCall` is a step of `RpcCall`
  or leaves its variables alone.
* **MdpCall, bounds** (`MdpAnswersProofs`). `Counted` counts the ACKs a call has received by the
  pairs of a server and a send that can bring no more (`Used`): the deadline has moved once per ACK,
  an "all" call has at most that many slots taken, and there are no more pairs than servers times
  sends. `WaitStaysBounded` and `OverrunIsCrowded` follow. The bound is on the deadline, and on the
  time of a call apart from what it has slept for files (`waited`): for that time there is none.
* **RhizomeCall** (`RhizomeCallProofs`). `TypeCorrect` needs, beyond types, that the read position
  is within the listing, the listing within the store, and the store of a client in a call not
  empty. `CallsAreExecutedOnce`: `ExecutedOnce` does not say when a server may still execute;
  `OnceAt(s)` does: a call has at most `restarts` results, and one more only if it is on the done
  list or the server is down; calls listed or being executed are not on that list. A success uses up
  the one, a restart, which empties the list, brings the next. `CodesAreTrue` and `WaitStaysBounded`
  (again apart from `waited`) come from `Truthful` (what flag, array and deadline mean inside a
  call), `AnswersStayReal` from `Traced` (every bundle leads back to an execution and a call),
  `NoneOverlooked` from `Listening` (a server whose ACK was read while there was room holds a slot,
  and an answer read for it is in it).
* **RhizomeCall implements RpcCall** (`CallIsRpcCall` in `RhizomeCallProofs`). Each step of the
  client is mapped to `Begin`, `Refuse`, `Accept`, `Answer`, `Return` or a stutter, all others to
  a stutter. The codes need `Truthful`; that the answer of an "all" call comes from a server that
  has accepted it needs `Placed`: its slots are those of acknowledged servers, and the answer
  whose file is being fetched still has its slot when the file is there.
* **TransparentCall** (`TransparentCallProofs`, `TransparentTruthProofs`). `TypeOK` is inductive
  with `Shape`, which ties the stage to the transport and the connection. `WorkBounded`: each issue
  adds at most one copy per server. The copy in a store counts only while it is `Pending`, neither
  done nor being executed; a success moves it to `executed`, a failure back, and a restart, which
  empties the list of done calls, makes it pending again and is counted on the other side. That
  there is none in a store before the call was issued over Rhizome is `StoredIsIssued`.
  `CallsAreIssuedOnce` and `AcknowledgedStays` need to know which transports a call has been through
  at each stage (`Cascade`) and that the flag stays 1 or 2 once an ACK is in (`AckHolds`).
  `ReturnsAreTrue` needs what the flag means on each transport (`FlagIsTrue`), that a call enters a
  transport with nothing in hand, and that the slots of an "all" call are those of servers that have
  acknowledged it. Its part about -1 needs `Unheard`, which says of each place of a call that may
  yet end in a failure that the array has no answer to this call. `AnswersOfTheServer` rests on the
  download's look at the sender.
* **TransparentCall, where answers come from** (`TransparentTruthProofs`). `TextsStayReal` follows
  `Real` through the system: packets, connections, bundles, the results put into Rhizome and the
  array hold only what the server they name has executed. So an answer of an earlier call is never
  mistaken for one of this call. From that and `Unheard` follows `FallbackKeepsAnswers`: the ladder
  goes on only if the code is below 2, and on each transport a flag or a taken slot makes it 2 as
  soon as an answer is stored.
* **TransparentCall implements RpcCall** (`CallIsRpcCall` in `TransparentTruthProofs`). Every step of
  the client is mapped, transport by transport, to a step of `RpcCall` or a stutter
  (`EntryMaps`, `TransportMaps`, `MspMaps`, `ReturnMaps`, ...); ACKs and answers are recorded as
  they come, above all the fallback neither forgets nor invents one. Beyond what the theorems
  above rest on it needs `Stored`: a free slot has no content, an "all" call takes an answer only
  into the slot of a server that has accepted it, and the array of any other call is empty until
  the flag, or later the code, says that an answer is in it. That a call keeps its promise or does
  not from beginning to end is `ContractStays`.
* **CallPayload** (`CallPayloadProofs`). `TokensOfCall`: a name and parameters without
  delimiters, none of them empty, come out of `strtok` as they went in, however many and however
  long they are. It is an induction over the characters, and one over the parameters. The
  induction principle is stated for a *set* in the place of a predicate (`SetInduction`, from
  the well-foundedness of the naturals), since a lemma with a predicate as its
  parameter cannot be instantiated by the provers. What the recursive functions
  compute is unfolded by the same induction (`ScanUnfolds`, `FlatUnfolds`). `FirstStays`: the
  first part of a text is the same whatever follows its delimiter, which is what the name of
  a call with unfortunate parameters rests on.
* **ServerLoop** (`ServerLoopProofs`). The invariant says that the open sockets are those of the
  listen call and of failed setups (`SocketsHeld`), and that the call in hand has the requirements
  that were sent and no file but the caller's (`CallAsTaken`). From it `TypeCorrect`,
  `SocketsClosed`, `FileOfCaller`, `Mirrored` (for all commands, with the four turns of the shift
  unrolled) and `StopIsFinal`. With `AsParsed` (the call in hand is what the parser made of its
  text, but for the file in the place of a hash) and the theorems on texts, `DeclaredOffered`, for
  every rpc.conf: a command whose name `strtok` can find and whose count fits the byte is not
  refused if it is declared. A command of plain words has no empty parameter and no bar, so that the
  server's call has just the parameters it was entered with (`ParamsSeen`), and no blank and nothing
  special to the shell, so that `TokensOfCall`, applied to blanks, says the same of `Words`
  (`WordsOfCommand`): this is `CommandSeen`. It has as many parameters as announced, and at least
  one, so that it dies in none of the three ways: `PlainIsHarmless`. `Mirrored` is no property of a
  run: it says for every command that the server sees the numbers in the opposite order, or eight
  zeros.

Only model-checked: liveness (`CallReturns`, `CallsAreServed`, `CallsEnd`, `StopIsObeyed`,
`CallsAreTaken`), which is out of reach of the prover. Every other property of the passing runs is a
theorem.

## 5. What is not modelled

* **Vendored and external code**: `cJSON.c`; the Serval headers under
  `includes/serval`, SQLite's among them, which are declarations of libraries whose code is not in the
  repository; `configure`. They are nine tenths of the lines of the repository and have no behaviour here
  that a model could follow, which is why the share of all lines the project accounts for is
  small: of the program's own `src/*.c` it maps more than four fifths.
* **cURL helpers and REST**: buffers and options; a request succeeds or fails.
* **The routing table** (`_rpc_sid_is_reachable`) and **`_rpc_server_accepts`**: a free choice,
  and a place for the deployer's code that accepts everything.
* **The age of a bundle** (`rpc_client_rhizome.c:106`): bundles of any age are let in, as the
  code does; the arithmetic is left out.
* Content is a model value; how an answer is cut to `RPC_PKT_SIZE`, memory, JSON and printing
  are left out. What the sixth ACK overwrites behind `rpc_result` is not modelled, only that it
  happens (`overrun`). A client and a server on the same node are two nodes here.
* **Buffers**: that parameters fit the client's 512 bytes (`rpc_client_msp.c:90`) is an assumption
  (`FlatSize`); the buffers of the command line, which have no room for the terminating null
  (`rpc_server.c:155`), are left out.
* **The shell**: what `popen` runs for a command line with a character of `ShellChars` is left open.
* **A null MSP socket**, which `rpc_client_call_msp` does not look for.
* `MdpCall` and `RhizomeCall` leave the verdict of rpc.conf to the server, because the file is
  read anew for every call; `ServerLoop` has a fixed file.

Disagreements of the code with its documents that have no run of their own, to keep the number of runs small:

* `README.md:132`: a call with a requirement above 15 is not issued. It is, with none;
  `README.md:81` speaks of the first number, and the swap at `rpc_server.c:31-36` is to restore the
  order. Both ends of its loop start at 0, and the first number arrives as the last: the theorem
  `Mirrored`.
* `README.md:71` and `:77`: servers on MDP or MSP alone send a result over Rhizome if they cannot
  deliver it. They drop it.
* `technology.md:81`: 2 is success and 1 an ACK without a result. An "all" call over MDP with an ACK
  and no answer returns 2, as reserved slots are counted (`rpc_client_mdp.c:63`, `Collected`).
* The message at `rpc_server_rhizome.c:223-224`: a call that is not offered is ignored. The pass
  returns -1 for it, and the server stops (`PassRefuses`, `FlagAfterPass`).
* `rpc_client_call` calls Rhizome up to three times by its text, and once in fact, since Rhizome returns none
  of the codes that are tested next (`IssuedOnce`).
* `README.md` has rpc.conf declare a name and a number of parameters; both are compared as prefixes.
  `DeclaredIsOffered` says only that what is declared is not refused, and not that nothing else is
  accepted.
* An empty only parameter kills the server (`StartExecution`). A direct call finds the flag of the
  call before it (`KeepsContract`): an application has to reset it.

## 6. Running it

    tlc -config mdp_all.cfg MCMdpCall.tla
    tlc -config rhz_all.cfg MCRhizomeCall.tla
    tlc -config transparent.cfg MCTransparentCall.tla
    tlc -config server_loop.cfg MCServerLoop.tla
    tlapm RhizomeCallProofs.tla

Where to go on: a composition of `ServerLoop` with the transports, so that a stop request and a
refused call reach a call that is under way, and an abstract specification of a server to go with it.
