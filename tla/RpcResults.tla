----------------------------- MODULE RpcResults -----------------------------
(***************************************************************************)
(* The global result array of a client process, rpc_result[5], and the     *)
(* scans and writes the three transports perform on it (rpc.h, rpc_client.c,*)
(* and the ACK and RESPONSE branches of rpc_client_mdp.c and               *)
(* rpc_client_rhizome.c).                                                  *)
(*                                                                         *)
(* A slot is free when its server_sid is SID_ANY, which is what memset to  *)
(* zero writes.  An ACK to an "all" call reserves a slot for a server; the *)
(* answer of that server goes into the reserved slot.                      *)
(***************************************************************************)
EXTENDS Integers, FiniteSetsExt

CONSTANTS
    Servers,       \* SIDs of the nodes that run an RPC server
    SidAny,        \* SID_ANY: as a destination, "the first answer will do"
    SidBroadcast,  \* SID_BROADCAST: as a destination, an "all" call
    NoContent,     \* the zeroed content field of a slot
    MaxResults     \* the length of rpc_result, 5 in rpc.h

ASSUME ResultsAssumption ==
    /\ MaxResults \in Nat \ {0}
    /\ SidAny \notin Servers
    /\ SidBroadcast \notin Servers
    /\ SidAny # SidBroadcast

\* C array indices, so that "position" means what it means in the source.
Slot == 0 .. MaxResults - 1

\* The states of the array whose answers are taken from Payload.
Results(Payload) ==
    [Slot -> [server_sid : Servers \cup {SidAny}, content : Payload \cup {NoContent}]]

\* memset(rpc_result, 0, sizeof(rpc_result))
ClearedResults ==
    [i \in Slot |-> [server_sid |-> SidAny, content |-> NoContent]]

\* The taken slots come first, so that the insert index is their number.
TakenFirst(results) ==
    \A i, j \in Slot :
        i < j /\ results[j].server_sid # SidAny => results[i].server_sid # SidAny

\* The lowest index of a set of slots, or `none' when the scan finds nothing.
FirstOr(indices, none) == IF indices = {} THEN none ELSE Min(indices)

\* Mutant: a slot without an answer counts as free.
InsertIndexByContent(results) ==
    FirstOr({i \in Slot : results[i].content = NoContent}, MaxResults)

\* The first free slot; MaxResults, one past the end, when every slot is taken.
\* The same number is what the code reads as "the number of answers".
rpc_client_result_get_insert_index(results) ==
    FirstOr({i \in Slot : results[i].server_sid = SidAny}, MaxResults)

\* The slot reserved for sid, or -1.
_rpc_client_result_get_sid_index(results, sid) ==
    FirstOr({i \in Slot : results[i].server_sid = sid}, -1)

\* The ACK branch reserves a slot when the destination SID of the *call* has
\* none yet.  For a broadcast that is always so: no slot ever holds SidBroadcast.
ReservesSlot(results, dest) ==
    /\ dest = SidBroadcast
    /\ _rpc_client_result_get_sid_index(results, dest) = -1

\* Mutant: the server goes one slot too far.
ReserveBehind(results, sid) ==
    LET position == rpc_client_result_get_insert_index(results) + 1 IN
    [i \in Slot |-> IF i = position THEN [results[i] EXCEPT !.server_sid = sid]
                                    ELSE results[i]]

\* memcpy(&rpc_result[position].server_sid, ...) at the insert index.  With a
\* full array the position is one past the end and the write misses the array.
Reserve(results, sid) ==
    LET position == rpc_client_result_get_insert_index(results) IN
    [i \in Slot |-> IF i = position THEN [results[i] EXCEPT !.server_sid = sid]
                                    ELSE results[i]]

\* The write of Reserve lands behind the last slot.
ReserveOverruns(results) ==
    rpc_client_result_get_insert_index(results) = MaxResults

\* An answer to an "all" call is stored in the slot its sender has reserved ...
StoreReserved(results, position, payload) ==
    [results EXCEPT ![position].content = payload]

\* ... and any other answer, with the SID of its sender, in slot 0.
StoreSingle(results, sid, payload) ==
    [results EXCEPT ![0] = [server_sid |-> sid, content |-> payload]]

=============================================================================
