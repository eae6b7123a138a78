-------------------------- MODULE RpcResultsProofs --------------------------
(***************************************************************************)
(* Lemmas about the scans and writes on the result array, for every number *)
(* of slots, every set of servers and every set of answers.                *)
(***************************************************************************)
EXTENDS RpcResults, TLAPS, WellFoundedInduction

\* The relation the library proves well founded is the order of the naturals.
LEMMA LessThanRelation ==
    \A x, y \in Nat : <<y, x>> \in OpToRel(<, Nat) <=> y < x
BY DEF OpToRel

\* A nonempty set of naturals has a least element, which Min picks.
LEMMA MinOfNaturals ==
    ASSUME NEW S \in SUBSET Nat, S # {}
    PROVE  Min(S) \in S /\ \A y \in S : Min(S) <= y
<1>1. PICK x \in S : \A y \in S : <<y, x>> \notin OpToRel(<, Nat)
    BY NatLessThanWellFounded, WFMin
<1>2. \A y \in S : x <= y
    <2>1. \A y \in S : ~ (y < x)
        BY <1>1, LessThanRelation
    <2> QED  BY <2>1
<1> QED  BY <1>2 DEF Min

\* A nonempty set of positions has a greatest one, which Max picks.
LEMMA MaxOfPositions ==
    ASSUME NEW n \in Nat, NEW S \in SUBSET (1 .. n), S # {}
    PROVE  Max(S) \in S
<1> DEFINE gaps == {n - i : i \in S}
<1>1. gaps \in SUBSET Nat /\ gaps # {}
    <2>1. \A i \in S : n - i \in Nat
        OBVIOUS
    <2>2. \A g \in gaps : g \in Nat
        BY <2>1
    <2>3. PICK i \in S : TRUE
        OBVIOUS
    <2>4. n - i \in gaps
        BY <2>3
    <2> QED  BY <2>2, <2>4
<1>2. PICK g \in gaps : \A h \in gaps : <<h, g>> \notin OpToRel(<, Nat)
    BY <1>1, NatLessThanWellFounded, WFMin
<1>3. \A h \in gaps : ~ (h < g)
    BY <1>1, <1>2, LessThanRelation
<1>4. PICK m \in S : g = n - m
    BY <1>2
<1>5. \A i \in S : i <= m
    <2>1. ASSUME NEW i \in S
          PROVE  ~ (n - i < n - m)
        BY <1>3, <1>4
    <2> QED  BY <2>1
<1> QED  BY <1>5 DEF Max

\* A scan of the array stops at the first slot it looks for.
LEMMA FirstSlot ==
    ASSUME NEW indices \in SUBSET Slot, NEW none
    PROVE  /\ indices = {} => FirstOr(indices, none) = none
           /\ indices # {} => /\ FirstOr(indices, none) \in indices
                              /\ \A i \in indices : FirstOr(indices, none) <= i
<1>1. indices \in SUBSET Nat
    BY ResultsAssumption DEF Slot
<1> QED  BY <1>1, MinOfNaturals DEF FirstOr

\* rpc_client_result_get_insert_index returns the first free slot: every slot
\* before it is taken.
LEMMA InsertIndex ==
    ASSUME NEW Payload, NEW results \in Results(Payload)
    PROVE  LET k == rpc_client_result_get_insert_index(results) IN
           /\ k \in 0 .. MaxResults
           /\ k \in Slot => results[k].server_sid = SidAny
           /\ \A j \in Slot : j < k => results[j].server_sid # SidAny
<1> DEFINE free == {i \in Slot : results[i].server_sid = SidAny}
<1> DEFINE k == rpc_client_result_get_insert_index(results)
<1>1. /\ free = {} => k = MaxResults
      /\ free # {} => k \in free /\ \A i \in free : k <= i
    BY FirstSlot DEF rpc_client_result_get_insert_index
<1>2. CASE free = {}
    BY <1>1, <1>2, ResultsAssumption DEF Slot
<1>3. CASE free # {}
    <2>1. \A j \in Slot : j < k => j \notin free
        BY <1>1, <1>3, ResultsAssumption DEF Slot
    <2> QED  BY <1>1, <1>3, <2>1, ResultsAssumption DEF Slot
<1> QED  BY <1>2, <1>3

\* _rpc_client_result_get_sid_index finds a slot of the server, or -1 when it
\* has none.
LEMMA SidIndex ==
    ASSUME NEW Payload, NEW results \in Results(Payload), NEW sid
    PROVE  LET k == _rpc_client_result_get_sid_index(results, sid) IN
           /\ k \in Slot \cup {-1}
           /\ k \in Slot => results[k].server_sid = sid
           /\ k = -1 => \A i \in Slot : results[i].server_sid # sid
<1> DEFINE found == {i \in Slot : results[i].server_sid = sid}
<1> DEFINE k == _rpc_client_result_get_sid_index(results, sid)
<1>1. /\ found = {} => k = -1
      /\ found # {} => k \in found
    BY FirstSlot DEF _rpc_client_result_get_sid_index
<1>2. -1 \notin Slot
    BY ResultsAssumption DEF Slot
<1> QED  BY <1>1, <1>2

\* The writes keep the array an array of results.
LEMMA ClearedType ==
    ASSUME NEW Payload
    PROVE  ClearedResults \in Results(Payload)
BY DEF ClearedResults, Results

\* A server in the first free slot keeps the type of the array ...
LEMMA ReserveType ==
    ASSUME NEW Payload, NEW results \in Results(Payload), NEW sid \in Servers
    PROVE  Reserve(results, sid) \in Results(Payload)
BY DEF Reserve, Results

\* ... an answer in a reserved slot, or past the array, too ...
LEMMA StoreReservedType ==
    ASSUME NEW Payload, NEW results \in Results(Payload), NEW payload \in Payload,
           NEW position
    PROVE  StoreReserved(results, position, payload) \in Results(Payload)
BY DEF StoreReserved, Results

\* ... and an answer in slot 0.
LEMMA StoreSingleType ==
    ASSUME NEW Payload, NEW results \in Results(Payload), NEW payload \in Payload,
           NEW sid \in Servers
    PROVE  StoreSingle(results, sid, payload) \in Results(Payload)
BY DEF StoreSingle, Results

\* The writes keep the taken slots in front, and a taken slot its server.
LEMMA ClearedOrder == TakenFirst(ClearedResults)
BY DEF TakenFirst, ClearedResults

\* A reservation changes none but the first free slot.
LEMMA ReserveOrder ==
    ASSUME NEW Payload, NEW results \in Results(Payload), TakenFirst(results),
           NEW sid \in Servers
    PROVE  /\ TakenFirst(Reserve(results, sid))
           /\ \A i \in Slot : results[i].server_sid # SidAny =>
                  Reserve(results, sid)[i] = results[i]
<1> DEFINE k == rpc_client_result_get_insert_index(results)
<1> DEFINE after == Reserve(results, sid)
<1>1. /\ k \in 0 .. MaxResults
      /\ k \in Slot => results[k].server_sid = SidAny
      /\ \A j \in Slot : j < k => results[j].server_sid # SidAny
    BY InsertIndex
<1>2. \A i \in Slot : i # k => after[i] = results[i]
    BY DEF Reserve
<1>3. k \in Slot => after[k].server_sid = sid
    BY DEF Reserve, Results
<1>4. ASSUME NEW i \in Slot, NEW j \in Slot, i < j, after[j].server_sid # SidAny
      PROVE  after[i].server_sid # SidAny
    <2>1. CASE i = k
        BY <1>3, <2>1, ResultsAssumption
    <2>2. CASE i # k /\ j = k
        BY <1>1, <1>2, <1>4, <2>2
    <2>3. CASE i # k /\ j # k
        BY <1>2, <1>4, <2>3 DEF TakenFirst
    <2> QED  BY <2>1, <2>2, <2>3
<1>5. \A i \in Slot : results[i].server_sid # SidAny => after[i] = results[i]
    BY <1>1, <1>2
<1> QED  BY <1>4, <1>5 DEF TakenFirst

\* An answer in a reserved slot changes no slot's server.
LEMMA StoreReservedOrder ==
    ASSUME NEW Payload, NEW results \in Results(Payload), TakenFirst(results),
           NEW position, NEW payload
    PROVE  /\ TakenFirst(StoreReserved(results, position, payload))
           /\ \A i \in Slot : StoreReserved(results, position, payload)[i].server_sid
                               = results[i].server_sid
<1>1. \A i \in Slot : StoreReserved(results, position, payload)[i].server_sid
                      = results[i].server_sid
    BY DEF StoreReserved, Results
<1> QED  BY <1>1 DEF TakenFirst

\* An answer in slot 0 takes the first slot.
LEMMA StoreSingleOrder ==
    ASSUME NEW Payload, NEW results \in Results(Payload), TakenFirst(results),
           NEW sid \in Servers, NEW payload
    PROVE  TakenFirst(StoreSingle(results, sid, payload))
<1> DEFINE after == StoreSingle(results, sid, payload)
<1>1. 0 \in Slot /\ \A j \in Slot : 0 <= j
    BY ResultsAssumption DEF Slot
<1>2. after[0].server_sid # SidAny /\ \A i \in Slot : i # 0 => after[i] = results[i]
    BY <1>1, ResultsAssumption DEF StoreSingle, Results
<1>3. ASSUME NEW i \in Slot, NEW j \in Slot, i < j, after[j].server_sid # SidAny
      PROVE  after[i].server_sid # SidAny
    <2>1. CASE i = 0
        BY <1>2, <2>1
    <2>2. CASE i # 0
        <3>1. j # 0
            BY <1>3, <2>2 DEF Slot
        <3> QED  BY <1>2, <1>3, <2>2, <3>1 DEF TakenFirst
    <2> QED  BY <2>1, <2>2
<1> QED  BY <1>3 DEF TakenFirst

-----------------------------------------------------------------------------
(* Where a server's slot is after a write                                   *)

\* The slot of a server is the first that holds its SID.
LEMMA SidIndexFirst ==
    ASSUME NEW Payload, NEW results \in Results(Payload), NEW sid, NEW i \in Slot,
           results[i].server_sid = sid
    PROVE  LET k == _rpc_client_result_get_sid_index(results, sid) IN
           k \in Slot /\ k <= i
<1> DEFINE found == {j \in Slot : results[j].server_sid = sid}
<1>1. found # {} /\ i \in found
    OBVIOUS
<1> QED  BY <1>1, FirstSlot DEF _rpc_client_result_get_sid_index

\* It depends on the SIDs only.
LEMMA SidIndexKept ==
    ASSUME NEW before, NEW after, NEW sid,
           \A i \in Slot : after[i].server_sid = before[i].server_sid
    PROVE  _rpc_client_result_get_sid_index(after, sid)
               = _rpc_client_result_get_sid_index(before, sid)
<1>1. {i \in Slot : after[i].server_sid = sid} = {i \in Slot : before[i].server_sid = sid}
    OBVIOUS
<1> QED  BY <1>1 DEF _rpc_client_result_get_sid_index

\* A reservation gives the server a slot, unless the array is full and stays as it is,
\* and moves the slot of no server that has one.
LEMMA ReserveIndex ==
    ASSUME NEW Payload, NEW results \in Results(Payload), TakenFirst(results),
           NEW sid \in Servers
    PROVE  LET after == Reserve(results, sid)
               Index(array, s) == _rpc_client_result_get_sid_index(array, s)
           IN  /\ \A s \in Servers : Index(results, s) # -1 => Index(after, s) = Index(results, s)
               /\ \/ Index(after, sid) # -1
                  \/ \A i \in Slot : results[i].server_sid # SidAny /\ after[i] = results[i]
               /\ \A i \in Slot : /\ after[i].content = results[i].content
                                  /\ results[i].server_sid # SidAny => after[i] = results[i]
<1> DEFINE after == Reserve(results, sid)
           k == rpc_client_result_get_insert_index(results)
           Index(array, s) == _rpc_client_result_get_sid_index(array, s)
<1>1. /\ k \in 0 .. MaxResults
      /\ k \in Slot => results[k].server_sid = SidAny
      /\ \A j \in Slot : j < k => results[j].server_sid # SidAny
    BY InsertIndex
<1>2. /\ \A i \in Slot : i # k => after[i] = results[i]
      /\ k \in Slot => after[k].server_sid = sid
      /\ \A i \in Slot : after[i].content = results[i].content
    BY DEF Reserve, Results
<1>3. after \in Results(Payload)
    BY ReserveType
<1>4. sid # SidAny /\ \A i \in Slot : i \in Int
    BY ResultsAssumption DEF Slot
<1>5. -1 \notin Slot
    BY ResultsAssumption DEF Slot
<1> HIDE DEF after, k, Index
<1>6. ASSUME NEW s \in Servers, Index(results, s) # -1
      PROVE  Index(after, s) = Index(results, s)
    <2> DEFINE p == Index(results, s)
               q == Index(after, s)
    <2>1. p \in Slot /\ results[p].server_sid = s /\ s # SidAny
        BY <1>6, SidIndex, ResultsAssumption DEF Index
    <2>2. after[p] = results[p] /\ p # k
        BY <1>1, <1>2, <2>1
    <2>3. q \in Slot /\ q <= p
        BY <1>3, <2>1, <2>2, SidIndexFirst DEF Index
    <2>4. after[q].server_sid = s
        BY <1>3, <2>3, SidIndex DEF Index
    <2>5. CASE q = k
        <3>1. results[q].server_sid = SidAny
            BY <1>1, <2>3, <2>5
        <3>2. q = p
            BY <1>4, <2>1, <2>3, <3>1 DEF TakenFirst
        <3> QED  BY <2>2, <2>5, <3>2
    <2>6. CASE q # k
        <3>1. results[q].server_sid = s
            BY <1>2, <2>3, <2>4, <2>6
        <3>2. p <= q
            BY <2>3, <3>1, SidIndexFirst DEF Index
        <3> QED  BY <1>4, <2>1, <2>3, <3>2
    <2> QED  BY <2>5, <2>6
<1>7. CASE k \in Slot
    <2>1. Index(after, sid) # -1
        BY <1>2, <1>3, <1>5, <1>7, SidIndexFirst DEF Index
    <2> QED  BY <1>1, <1>2, <1>6, <2>1 DEF after, Index
<1>8. CASE k \notin Slot
    <2>1. \A i \in Slot : i < k
        BY <1>1, <1>8, ResultsAssumption DEF Slot
    <2>2. \A i \in Slot : results[i].server_sid # SidAny /\ after[i] = results[i]
        BY <1>1, <1>2, <1>8, <2>1
    <2> QED  BY <1>2, <1>6, <2>2 DEF after, Index
<1> QED  BY <1>7, <1>8

=============================================================================
