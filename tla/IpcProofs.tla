----------------------------- MODULE IpcProofs ------------------------------
(***************************************************************************)
(* Ipc keeps its tables in bounds and implements Channels, for any number  *)
(* of slots, names, services and grants and rings of any depth.            *)
(***************************************************************************)
EXTENDS IpcSteps, FiniteSetTheorems

\* Tables of at most MAX_GRANTS ids: the empty one, parts of one, and one more
\* id in one that is not full.
LEMMA Tables == ASSUME IpcAssumption PROVE Setting
<1>1. IsFiniteSet(Ids) /\ MAX_GRANTS \in Nat
    BY FS_Interval DEF Ids, IpcAssumption
<1>2. {} \in GrantTable
  <2>1. Cardinality({}) <= MAX_GRANTS
      BY <1>1, FS_EmptySet
  <2> QED BY Zenon, <2>1 DEF GrantTable
<1>3. ASSUME NEW gs \in GrantTable
      PROVE  /\ IsFiniteSet(gs) /\ gs \subseteq Ids
             /\ Cardinality(gs) \in Nat /\ Cardinality(gs) <= MAX_GRANTS
  <2>1. gs \subseteq Ids /\ Cardinality(gs) <= MAX_GRANTS
      BY Zenon DEF GrantTable
  <2>2. IsFiniteSet(gs)
      BY Zenon, <1>1, <2>1, FS_Subset
  <2> QED BY Zenon, <2>1, <2>2, FS_CardinalityType
<1>4. ASSUME NEW gs \in GrantTable, NEW part \in SUBSET gs PROVE part \in GrantTable
  <2>1. IsFiniteSet(part) /\ Cardinality(part) <= Cardinality(gs)
      BY Zenon, <1>3, FS_Subset
  <2>2. Cardinality(part) \in Nat
      BY Zenon, <2>1, FS_CardinalityType
  <2>3. Cardinality(part) <= MAX_GRANTS
      BY <1>1, <1>3, <2>1, <2>2
  <2> QED BY Zenon, <1>3, <2>3 DEF GrantTable
<1>5. ASSUME NEW gs \in GrantTable, NEW tid \in Ids, Cardinality(gs) # MAX_GRANTS
      PROVE  gs \cup {tid} \in GrantTable
  <2>1. Cardinality(gs \cup {tid}) \in {Cardinality(gs), Cardinality(gs) + 1}
      BY <1>3, FS_AddElement
  <2>2. Cardinality(gs \cup {tid}) <= MAX_GRANTS
      BY <1>1, <1>3, <1>5, <2>1
  <2>3. gs \cup {tid} \subseteq Ids
      BY Zenon, <1>3
  <2> QED BY Zenon, <2>2, <2>3 DEF GrantTable
<1>6. TableFacts
    BY Zenon, <1>2, <1>4, <1>5 DEF TableFacts
<1> QED BY Zenon, <1>6 DEF Setting

\* The rings, the grant tables and the directory stay within their arrays,
\* ids stay unique, and no grant or service runs ahead of the ids given out.
THEOREM Invariance == ASSUME IpcAssumption PROVE IpcSpec => []IInv
<1>1. IpcInit => IInv
    BY Tables, InitInv
<1>2. IInv /\ [IpcNext]_ipcVars => IInv'
    BY Tables, NextInv
<1> QED BY <1>1, <1>2, PTL DEF IpcSpec

\* Reused slots, ring buffers, pruned grant tables and the swept directory
\* behave as one inbox, one set of permissions and one set of names per task
\* id: k_ipc_send and k_ipc_receive lose, duplicate and reorder nothing and
\* leave no mail for a slot's next task, k_service_lookup grants both ways or
\* not at all, and service_register never gives one name to two live servers.
THEOREM Refinement == ASSUME IpcAssumption PROVE IpcSpec => ImplementsChannels
<1>1. IpcInit => C!Init
  <2> SUFFICES ASSUME IpcInit PROVE C!Init
      OBVIOUS
  <2>1. /\ \A u \in Slots : ~Live(u)
        /\ next_id = 1 /\ \A i \in 1..MAX_SERVICES : DeadEntry(i)
      BY DEF IpcInit, Live, DeadEntry
  <2>2. \A i : ~LiveId(i)
      BY <2>1, Plains
  <2>3. Phase = [i \in Ids |-> "new"]
      BY <2>1 DEF Phase, Ids, IpcAssumption
  <2>4. Trusted = {} /\ Peers = {}
      BY <2>1, <2>2 DEF Trusted, Peers
  <2>5. Inbox = [i \in Ids |-> <<>>]
      BY <2>2 DEF Inbox
  <2>6. \A i, n : i \in 1..MAX_SERVICES => ~Serves(i, n)
      BY <2>1, Plains
  <2>7. Directory = [n \in Names |-> 0]
      BY <2>6 DEF Directory
  <2> QED BY <2>3, <2>4, <2>5, <2>7 DEF C!Init, C!Vacant
<1>2. IInv /\ [IpcNext]_ipcVars => [C!Next]_(C!vars)
    BY Tables, RefinementStep
<1> QED BY <1>1, <1>2, Invariance, PTL DEF IpcSpec, ImplementsChannels, C!Spec
=============================================================================
