------------------------------- MODULE RpcCall -------------------------------
(***************************************************************************)
(* What one rpc_client_call_* function promises its caller, whatever the   *)
(* transport: which servers it has heard from, and what the return code    *)
(* says about them.  MdpCall, RhizomeCall and TransparentCall are shown to *)
(* implement this module.                                                  *)
(*                                                                         *)
(* The codes are those of doc/technology.md (2 success, 1 ACK but no       *)
(* result, 0 nothing heard, -1 failure), with the one reading the code     *)
(* gives them that the document does not: an "all" call succeeds as soon   *)
(* as one server has accepted it, whether or not an answer arrived.        *)
(***************************************************************************)
EXTENDS Integers

CONSTANTS
    Servers, SidAny, SidBroadcast,
    Late \* TRUE if what earlier calls have caused may reach this one: over Rhizome,
         \* where nothing says which call an ACK or an answer belongs to

VARIABLES
    phase,     \* "idle", or "waiting" while a call is in progress
    dest,      \* the destination of the latest call
    accepted,  \* servers whose ACK the latest call has received
    answered,  \* servers whose answer the latest call has stored
    code       \* return code of the latest call, NoCode until it returns

rvars == <<phase, dest, accepted, answered, code>>

NoCode == -2
Codes == {-1, 0, 1, 2}
Dest == Servers \cup {SidAny, SidBroadcast}

RTypeOK ==
    /\ phase \in {"idle", "waiting"}
    /\ dest \in Dest
    /\ accepted \subseteq Servers
    /\ answered \subseteq Servers
    /\ code \in Codes \cup {NoCode}

Init ==
    /\ phase = "idle"
    /\ dest = SidAny
    /\ accepted = {}
    /\ answered = {}
    /\ code = NoCode

\* A new call forgets everything about the previous one.
Begin(d) ==
    /\ phase = "idle"
    /\ phase' = "waiting"
    /\ dest' = d
    /\ accepted' = {}
    /\ answered' = {}
    /\ code' = NoCode

\* The call fails before a packet is sent; it may have cleared the results.
Refuse ==
    /\ phase = "idle"
    /\ code' = -1
    /\ accepted' = {}
    /\ answered' \in {answered, {}}
    /\ dest' \in Dest
    /\ UNCHANGED phase

\* A call to one server hears of that server only, and of those called before.
Hears(s) == phase = "waiting" /\ (dest \in Servers /\ ~Late => s = dest)

Accept(s) ==
    /\ Hears(s)
    /\ accepted' = accepted \cup {s}
    /\ UNCHANGED <<phase, dest, answered, code>>

\* An "all" call takes answers from servers that accepted it, every other call
\* takes exactly one answer.
Answer(s) ==
    /\ Hears(s)
    /\ IF dest = SidBroadcast THEN s \in accepted ELSE answered = {}
    /\ answered' = answered \cup {s}
    /\ UNCHANGED <<phase, dest, accepted, code>>

\* What each code may be returned for.
Means(c) ==
    \/ c = 2 /\ IF dest = SidBroadcast THEN accepted # {} ELSE answered # {}
    \/ c = 1 /\ dest # SidBroadcast /\ accepted # {} /\ answered = {}
    \/ c = 0 /\ accepted = {} /\ answered = {}
    \/ c = -1 /\ (dest # SidBroadcast => answered = {})

Return(c) ==
    /\ phase = "waiting"
    /\ Means(c)
    /\ phase' = "idle"
    /\ code' = c
    /\ UNCHANGED <<dest, accepted, answered>>

Next ==
    \/ Refuse
    \/ \E d \in Dest : Begin(d)
    \/ \E s \in Servers : Accept(s) \/ Answer(s)
    \/ \E c \in Codes : Return(c)

Spec == Init /\ [][Next]_rvars

=============================================================================
