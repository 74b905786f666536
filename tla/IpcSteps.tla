------------------------------ MODULE IpcSteps ------------------------------
(***************************************************************************)
(* The inductive invariant of Ipc, and that every step keeps it and is a   *)
(* step of Channels or none.  IpcProofs draws the conclusions.             *)
(*                                                                         *)
(* What a channel is stands on what an id is: slots in use have different  *)
(* ids, no grant and no service names an id that is still to be given, and *)
(* no two services with a live owner have one name.                        *)
(***************************************************************************)
EXTENDS Ipc, Arithmetic, TLAPS

OwnIds ==
    /\ \A t \in Slots : IF state[t] = "UNUSED" THEN id[t] = 0 ELSE id[t] \in 1..(next_id - 1)
    /\ \A t, u \in Slots : state[t] # "UNUSED" /\ state[u] # "UNUSED" /\ id[t] = id[u] => t = u

KnownIds ==
    /\ \A t \in Slots : grants[t] \subseteq 1..(next_id - 1)
    /\ \A i \in 1..MAX_SERVICES : services[i].pid < next_id

OneServer ==
    \A i, j \in 1..MAX_SERVICES :
        ~DeadEntry(i) /\ ~DeadEntry(j) /\ services[i].name = services[j].name => i = j

IInv == IpcTypeOK /\ OwnIds /\ KnownIds /\ OneServer

\* A process's grants fit its array.  What the steps use of tables that fit
\* is a fact about cardinalities, proved in IpcProofs.
GrantTable == {gs \in SUBSET Ids : Cardinality(gs) <= MAX_GRANTS}

TableFacts ==
    /\ {} \in GrantTable
    /\ \A gs \in GrantTable : \A part \in SUBSET gs : part \in GrantTable
    /\ \A gs \in GrantTable : \A tid \in Ids :
           Cardinality(gs) # MAX_GRANTS => gs \cup {tid} \in GrantTable

Setting == IpcAssumption /\ TableFacts
-----------------------------------------------------------------------------
(***************************************************************************)
(* Rings.                                                                  *)
(***************************************************************************)

LEMMA SameSeq ==
    ASSUME NEW S, NEW s \in Seq(S), NEW t \in Seq(S), Len(s) = Len(t), \A i \in 1..Len(s) : s[i] = t[i]
    PROVE  s = t
OBVIOUS

LEMMA TailOf ==
    ASSUME NEW S, NEW s \in Seq(S), s # <<>>
    PROVE  /\ Tail(s) \in Seq(S) /\ Len(Tail(s)) = Len(s) - 1
           /\ \A i \in 1 .. Len(Tail(s)) : Tail(s)[i] = s[i + 1]
<1>1. Len(s) \in Nat \ {0}
  OBVIOUS
<1>2. Tail(s) \in Seq(S)
  BY <1>1
<1>3. Len(Tail(s)) = Len(s) - 1
  BY <1>1
<1>4. \A i \in 1 .. Len(Tail(s)) : Tail(s)[i] = s[i + 1]
  BY <1>1, <1>3
<1> QED BY Zenon, <1>2, <1>3, <1>4

\* An index that passes the end of the ring once starts again from 0.
LEMMA Wrap ==
    ASSUME NEW D \in Nat \ {0}, NEW x \in Nat, x < D + D
    PROVE  /\ x < D => x % D = x
           /\ x >= D => x % D = x - D
           /\ x % D \in 0..(D - 1)
<1>1. CASE x < D
  <2>1. x \div D = 0
      BY <1>1, DivUnique
  <2>2. x % D = x - D * (x \div D)
      OBVIOUS
  <2> QED BY <1>1, <2>1, <2>2
<1>2. CASE x >= D
  <2>1. x \div D = 1
      BY <1>2, DivUnique
  <2>2. x % D = x - D * (x \div D)
      OBVIOUS
  <2> QED BY <1>2, <2>1, <2>2
<1> QED BY <1>1, <1>2

\* What the ring r holds from index h on, n messages.
Ring(r, h, n) == [k \in 1..n |-> r[(h + k - 1) % MAIL_DEPTH]]

LEMMA RingIsSeq ==
    ASSUME Setting, NEW r \in [Index -> Message], NEW h \in Index, NEW n \in 0..MAIL_DEPTH
    PROVE  /\ Ring(r, h, n) \in Seq(Message) /\ Len(Ring(r, h, n)) = n
           /\ \A k \in 1..n : Ring(r, h, n)[k] = r[(h + k - 1) % MAIL_DEPTH]
           /\ \A k \in 0..MAIL_DEPTH :
                  /\ (h + k) % MAIL_DEPTH \in Index
                  /\ h + k < MAIL_DEPTH => (h + k) % MAIL_DEPTH = h + k
                  /\ h + k >= MAIL_DEPTH => (h + k) % MAIL_DEPTH = (h + k) - MAIL_DEPTH
<1>1. MAIL_DEPTH \in Nat \ {0} /\ h \in Nat /\ h < MAIL_DEPTH /\ n \in Nat /\ n <= MAIL_DEPTH
    BY DEF Setting, IpcAssumption, Index
<1>2. ASSUME NEW k \in 0..MAIL_DEPTH
      PROVE  /\ (h + k) % MAIL_DEPTH \in 0..(MAIL_DEPTH - 1)
             /\ h + k < MAIL_DEPTH => (h + k) % MAIL_DEPTH = h + k
             /\ h + k >= MAIL_DEPTH => (h + k) % MAIL_DEPTH = (h + k) - MAIL_DEPTH
  <2> DEFINE x == h + k
             D == MAIL_DEPTH
  <2>1. x \in Nat /\ x < D + D /\ D \in Nat \ {0}
      BY <1>1
  <2> HIDE DEF x, D
  <2>2. /\ x < D => x % D = x
        /\ x >= D => x % D = x - D
        /\ x % D \in 0..(D - 1)
      BY Zenon, <2>1, Wrap
  <2> QED BY Zenon, <2>2 DEF x, D
<1>3. \A k \in 1..n : (h + k - 1) % MAIL_DEPTH \in Index
  <2> TAKE k \in 1..n
  <2>1. k - 1 \in 0..MAIL_DEPTH /\ h + (k - 1) = h + k - 1
      BY <1>1
  <2>2. (h + (k - 1)) % MAIL_DEPTH \in 0..(MAIL_DEPTH - 1)
      BY Zenon, <1>2, <2>1
  <2> QED BY Zenon, <2>1, <2>2 DEF Index
<1>4. Ring(r, h, n) \in [1..n -> Message]
    BY Zenon, <1>3 DEF Ring
<1>5. Ring(r, h, n) \in Seq(Message) /\ Len(Ring(r, h, n)) = n
    BY <1>1, <1>4
<1> QED BY Zenon, <1>2, <1>5 DEF Ring, Index

\* k_ipc_send writes behind the last message and over none.
LEMMA RingAppend ==
    ASSUME Setting, NEW r \in [Index -> Message], NEW h \in Index,
           NEW n \in 0..MAIL_DEPTH, n # MAIL_DEPTH, NEW m \in Message
    PROVE  Ring([r EXCEPT ![(h + n) % MAIL_DEPTH] = m], h, n + 1) = Append(Ring(r, h, n), m)
<1> DEFINE f == (h + n) % MAIL_DEPTH
           w == [r EXCEPT ![f] = m]
           old == Ring(r, h, n)
           new == Ring(w, h, n + 1)
<1>1. MAIL_DEPTH \in Nat \ {0} /\ h \in Nat /\ h < MAIL_DEPTH /\ n \in Nat /\ n < MAIL_DEPTH
    BY DEF Setting, IpcAssumption, Index
<1>2. /\ old \in Seq(Message) /\ Len(old) = n
      /\ \A k \in 1..n : old[k] = r[(h + k - 1) % MAIL_DEPTH]
      /\ \A k \in 0..MAIL_DEPTH :
             /\ (h + k) % MAIL_DEPTH \in Index
             /\ h + k < MAIL_DEPTH => (h + k) % MAIL_DEPTH = h + k
             /\ h + k >= MAIL_DEPTH => (h + k) % MAIL_DEPTH = (h + k) - MAIL_DEPTH
    BY Zenon, RingIsSeq
<1>3. /\ f \in Index
      /\ h + n < MAIL_DEPTH => f = h + n
      /\ h + n >= MAIL_DEPTH => f = (h + n) - MAIL_DEPTH
  <2>1. n \in 0..MAIL_DEPTH
      BY Zenon
  <2> QED BY Zenon, <1>2, <2>1
<1>4. ASSUME NEW k \in 1..n
      PROVE  (h + k - 1) % MAIL_DEPTH \in Index /\ (h + k - 1) % MAIL_DEPTH # f
  <2>1. k - 1 \in 0..MAIL_DEPTH /\ h + (k - 1) = h + k - 1 /\ k - 1 < n
      BY <1>1
  <2>2. /\ (h + (k - 1)) % MAIL_DEPTH \in Index
        /\ h + (k - 1) < MAIL_DEPTH => (h + (k - 1)) % MAIL_DEPTH = h + (k - 1)
        /\ h + (k - 1) >= MAIL_DEPTH => (h + (k - 1)) % MAIL_DEPTH = (h + (k - 1)) - MAIL_DEPTH
      BY Zenon, <1>2, <2>1
  <2> HIDE DEF f
  <2>3. (h + (k - 1)) % MAIL_DEPTH # f
      BY <1>1, <1>3, <2>1, <2>2
  <2> QED BY Zenon, <2>1, <2>2, <2>3
<1> HIDE DEF f
<1>5. w \in [Index -> Message] /\ w[f] = m /\ \A x \in Index : x # f => w[x] = r[x]
    BY Zenon, <1>3
<1> HIDE DEF w
<1>6. n + 1 \in 0..MAIL_DEPTH /\ n + 1 \in 1..(n + 1) /\ h + (n + 1) - 1 = h + n
    BY <1>1
<1>7. /\ new \in Seq(Message) /\ Len(new) = n + 1
      /\ \A k \in 1..(n + 1) : new[k] = w[(h + k - 1) % MAIL_DEPTH]
    BY Zenon, <1>5, <1>6, RingIsSeq
<1>8. new[n + 1] = m
    BY Zenon, <1>5, <1>6, <1>7 DEF f
<1>9. \A k \in 1..n : new[k] = old[k]
  <2> TAKE k \in 1..n
  <2>1. k \in 1..(n + 1)
      BY <1>1
  <2>2. new[k] = w[(h + k - 1) % MAIL_DEPTH] /\ old[k] = r[(h + k - 1) % MAIL_DEPTH]
      BY Zenon, <1>2, <1>7, <2>1
  <2> QED BY Zenon, <1>4, <1>5, <2>2
<1> HIDE DEF old, new
<1>10. new = Append(old, m)
  <2>1. /\ Append(old, m) \in Seq(Message) /\ Len(Append(old, m)) = n + 1
        /\ Append(old, m)[n + 1] = m /\ \A k \in 1..n : Append(old, m)[k] = old[k]
    <3>1. old \in Seq(Message) /\ Len(old) = n
        BY Zenon, <1>2
    <3>2. Append(old, m) \in Seq(Message)
        BY <3>1
    <3>3. Len(Append(old, m)) = Len(old) + 1
        BY <3>1
    <3>4. \A k \in 1..Len(old) : Append(old, m)[k] = old[k]
        BY <3>1
    <3>5. Append(old, m)[Len(old) + 1] = m
        BY <3>1
    <3> QED BY Zenon, <3>1, <3>2, <3>3, <3>4, <3>5
  <2>2. \A k \in 1..Len(new) : new[k] = Append(old, m)[k]
      BY <1>1, <1>7, <1>8, <1>9, <2>1
  <2> QED BY Zenon, <1>7, <2>1, <2>2, SameSeq
<1> QED BY Zenon, <1>10 DEF old, new, w, f

\* k_ipc_receive takes the first message away.
LEMMA RingTail ==
    ASSUME Setting, NEW r \in [Index -> Message], NEW h \in Index,
           NEW n \in 0..MAIL_DEPTH, n # 0
    PROVE  /\ (h + 1) % MAIL_DEPTH \in Index
           /\ Ring(r, (h + 1) % MAIL_DEPTH, n - 1) = Tail(Ring(r, h, n))
           /\ Ring(r, h, n) # <<>>
<1> DEFINE g == (h + 1) % MAIL_DEPTH
           old == Ring(r, h, n)
           new == Ring(r, g, n - 1)
<1>1. /\ MAIL_DEPTH \in Nat \ {0} /\ h \in Nat /\ h < MAIL_DEPTH /\ n \in Nat \ {0} /\ n <= MAIL_DEPTH
      /\ n - 1 \in 0..MAIL_DEPTH /\ 1 \in 0..MAIL_DEPTH
    BY DEF Setting, IpcAssumption, Index
<1>2. /\ old \in Seq(Message) /\ Len(old) = n
      /\ \A k \in 1..n : old[k] = r[(h + k - 1) % MAIL_DEPTH]
      /\ \A k \in 0..MAIL_DEPTH :
             /\ (h + k) % MAIL_DEPTH \in Index
             /\ h + k < MAIL_DEPTH => (h + k) % MAIL_DEPTH = h + k
             /\ h + k >= MAIL_DEPTH => (h + k) % MAIL_DEPTH = (h + k) - MAIL_DEPTH
    BY Zenon, RingIsSeq
<1>3. /\ g \in Index
      /\ h + 1 < MAIL_DEPTH => g = h + 1
      /\ h + 1 >= MAIL_DEPTH => g = (h + 1) - MAIL_DEPTH
    BY Zenon, <1>1, <1>2
<1> HIDE DEF g
<1>4. /\ new \in Seq(Message) /\ Len(new) = n - 1
      /\ \A k \in 1..(n - 1) : new[k] = r[(g + k - 1) % MAIL_DEPTH]
      /\ \A k \in 0..MAIL_DEPTH :
             /\ (g + k) % MAIL_DEPTH \in Index
             /\ g + k < MAIL_DEPTH => (g + k) % MAIL_DEPTH = g + k
             /\ g + k >= MAIL_DEPTH => (g + k) % MAIL_DEPTH = (g + k) - MAIL_DEPTH
    BY Zenon, <1>1, <1>3, RingIsSeq
<1>5. ASSUME NEW k \in 1..(n - 1) PROVE new[k] = old[k + 1]
  <2>1. /\ k - 1 \in 0..MAIL_DEPTH /\ g + (k - 1) = g + k - 1 /\ k \in 0..MAIL_DEPTH
        /\ k + 1 \in 1..n /\ h + (k + 1) - 1 = h + k
      BY <1>1, <1>3 DEF Index
  <2>2. /\ g + (k - 1) < MAIL_DEPTH => (g + (k - 1)) % MAIL_DEPTH = g + (k - 1)
        /\ g + (k - 1) >= MAIL_DEPTH => (g + (k - 1)) % MAIL_DEPTH = (g + (k - 1)) - MAIL_DEPTH
      BY Zenon, <1>4, <2>1
  <2>3. /\ h + k < MAIL_DEPTH => (h + k) % MAIL_DEPTH = h + k
        /\ h + k >= MAIL_DEPTH => (h + k) % MAIL_DEPTH = (h + k) - MAIL_DEPTH
      BY Zenon, <1>2, <2>1
  <2>4. (g + (k - 1)) % MAIL_DEPTH = (h + k) % MAIL_DEPTH
      BY <1>1, <1>3, <2>1, <2>2, <2>3
  <2>5. new[k] = r[(g + k - 1) % MAIL_DEPTH] /\ old[k + 1] = r[(h + (k + 1) - 1) % MAIL_DEPTH]
      BY Zenon, <1>2, <1>4, <2>1
  <2> QED BY Zenon, <2>1, <2>4, <2>5
<1> HIDE DEF old, new
<1>6. old # <<>>
    BY Zenon, <1>1, <1>2
<1>7. /\ Tail(old) \in Seq(Message) /\ Len(Tail(old)) = Len(old) - 1
      /\ \A i \in 1 .. Len(Tail(old)) : Tail(old)[i] = old[i + 1]
    BY Zenon, <1>2, <1>6, TailOf
<1>8. Len(new) = Len(Tail(old)) /\ \A k \in 1..Len(new) : new[k] = Tail(old)[k]
    BY Zenon, <1>2, <1>4, <1>5, <1>7
<1>9. new = Tail(old)
    BY Zenon, <1>4, <1>7, <1>8, SameSeq
<1> QED BY Zenon, <1>3, <1>6, <1>9 DEF old, new, g
-----------------------------------------------------------------------------
(***************************************************************************)
(* What the abstract state is, in a state of the invariant.                *)
(***************************************************************************)
Served(p) == \E t \in Slots : Live(t) /\ kind[t] # "KERNEL" /\ id[t] = p

View ==
    /\ \A t \in Slots : Live(t) =>
           /\ id[t] \in Ids /\ id[t] < next_id /\ LiveId(id[t]) /\ Phase[id[t]] = "open"
           /\ Inbox[id[t]] = Queue(t)
           /\ id[t] \in Trusted <=> kind[t] = "KERNEL"
    /\ \A i \in Ids : ~LiveId(i) => Inbox[i] = <<>>
    /\ \A i \in 1..MAX_SERVICES : DeadEntry(i) <=> ~Served(services[i].pid)
    /\ \A i \in 1..MAX_SERVICES : \A n \in Names : Serves(i, n) => Directory[n] = services[i].pid
    /\ \A n \in Names : (\A i \in 1..MAX_SERVICES : ~Serves(i, n)) => Directory[n] = 0

LEMMA TheSlot ==
    ASSUME NEW st, NEW ids, NEW t \in Slots, st[t] = "LIVE",
           \A u \in Slots : st[u] = "LIVE" /\ ids[u] = ids[t] => u = t
    PROVE  (CHOOSE u \in Slots : st[u] = "LIVE" /\ ids[u] = ids[t]) = t
BY Zenon

LEMMA TheView == ASSUME Setting PROVE IInv => View
<1> SUFFICES ASSUME IInv PROVE View
    BY Zenon
<1>1. ASSUME NEW t \in Slots, Live(t)
      PROVE  /\ id[t] \in Ids /\ id[t] < next_id /\ LiveId(id[t]) /\ Phase[id[t]] = "open"
             /\ Inbox[id[t]] = Queue(t)
             /\ id[t] \in Trusted <=> kind[t] = "KERNEL"
  <2>1. id[t] \in Ids /\ id[t] < next_id /\ ~ (id[t] >= next_id)
      BY <1>1 DEF IInv, OwnIds, IpcTypeOK, Live, Ids, Setting, IpcAssumption
  <2>2. LiveId(id[t])
      BY Zenon, <1>1 DEF LiveId
  <2>3. \A u \in Slots : Live(u) /\ id[u] = id[t] => u = t
      BY Zenon, <1>1 DEF IInv, OwnIds, Live
  <2>4. SlotOf(id[t]) = t
      BY Zenon, <1>1, <2>3, TheSlot DEF SlotOf, Live
  <2>5. Phase[id[t]] = "open"
      BY Zenon, <2>1, <2>2 DEF Phase
  <2>6. Inbox[id[t]] = Queue(t)
      BY Zenon, <2>1, <2>2, <2>4 DEF Inbox
  <2>7. id[t] \in Trusted <=> kind[t] = "KERNEL"
      BY Zenon, <1>1, <2>1, <2>3 DEF Trusted
  <2> QED BY Zenon, <2>1, <2>2, <2>5, <2>6, <2>7
<1>2. \A i \in Ids : ~LiveId(i) => Inbox[i] = <<>>
    BY Zenon DEF Inbox
<1>3. \A i \in 1..MAX_SERVICES : DeadEntry(i) <=> ~Served(services[i].pid)
    BY Zenon DEF DeadEntry, Served
<1>4. ASSUME NEW i \in 1..MAX_SERVICES, NEW n \in Names, Serves(i, n)
      PROVE  Directory[n] = services[i].pid
  <2>1. \A j \in 1..MAX_SERVICES : Serves(j, n) => j = i
      BY Zenon, <1>4 DEF IInv, OneServer, Serves
  <2>2. (CHOOSE j \in 1..MAX_SERVICES : Serves(j, n)) = i
      BY Zenon, <1>4, <2>1
  <2> QED BY Zenon, <1>4, <2>2 DEF Directory
<1>5. \A n \in Names : (\A i \in 1..MAX_SERVICES : ~Serves(i, n)) => Directory[n] = 0
    BY Zenon DEF Directory
<1> QED BY Zenon, <1>1, <1>2, <1>3, <1>4, <1>5 DEF View

LEMMA ViewKept == ASSUME Setting PROVE IInv' => View'
<1>1. IInv => View
    BY Zenon, TheView
<1> QED BY <1>1, PTL

LEMMA TheViewAfter ==
    ASSUME Setting, IInv'
    PROVE  /\ \A t \in Slots : Live(t)' =>
                  /\ id'[t] \in Ids /\ id'[t] < next_id' /\ LiveId(id[t])' /\ Phase'[id'[t]] = "open"
                  /\ Inbox'[id'[t]] = Queue(t)'
                  /\ id'[t] \in Trusted' <=> kind'[t] = "KERNEL"
           /\ \A i \in Ids : ~LiveId(i)' => Inbox'[i] = <<>>
           /\ \A i \in 1..MAX_SERVICES : \A n \in Names : Serves(i, n)' => Directory'[n] = services'[i].pid
           /\ \A n \in Names : (\A i \in 1..MAX_SERVICES : ~Serves(i, n)') => Directory'[n] = 0
<1>1. View'
    BY Zenon, ViewKept
<1> QED BY Zenon, <1>1 DEF View
-----------------------------------------------------------------------------
(***************************************************************************)
(* The life of a task.                                                     *)
(***************************************************************************)
LEMMA ServersKept ==
    ASSUME OneServer,
           \A i \in 1..MAX_SERVICES : ~DeadEntry(i)' => ~DeadEntry(i) /\ services'[i] = services[i]
    PROVE  OneServer'
BY Zenon DEF OneServer

LEMMA InitInv == ASSUME Setting, IpcInit PROVE IInv
<1>1. MAX_ID \in Nat /\ MAX_GRANTS \in Nat /\ MAIL_DEPTH \in Nat \ {0} /\ MAX_SERVICES \in Nat
    BY Zenon DEF Setting, IpcAssumption
<1>2. ZERO \in Message /\ FREE \in Service /\ 0 \in Index
    BY <1>1 DEF ZERO, Message, FREE, Service, Index
<1>3. IpcTypeOK
  <2>1. mail \in [Slots -> [Index -> Message]]
      BY Zenon, <1>2 DEF IpcInit
  <2>2. services \in [1..MAX_SERVICES -> Service]
      BY Zenon, <1>2 DEF IpcInit
  <2>3. \A t \in Slots : Cardinality(grants[t]) <= MAX_GRANTS
      BY Zenon DEF IpcInit, Setting, TableFacts, GrantTable
  <2> QED BY <1>1, <1>2, <2>1, <2>2, <2>3 DEF IpcInit, IpcTypeOK
<1>4. OwnIds /\ KnownIds /\ OneServer
    BY DEF IpcInit, OwnIds, KnownIds, OneServer, DeadEntry, FREE, Live
<1> QED BY Zenon, <1>3, <1>4 DEF IInv

LEMMA Pids ==
    ASSUME IInv
    PROVE  \A i \in 1..MAX_SERVICES : services[i].pid \in Nat /\ services[i].pid < next_id
<1> TAKE i \in 1..MAX_SERVICES
<1>1. services[i] \in Service /\ services[i].pid < next_id
    BY Zenon DEF IInv, IpcTypeOK, KnownIds
<1> QED BY <1>1 DEF Service

LEMMA ZeroFacts ==
    ASSUME Setting, IpcTypeOK, NEW t \in Slots, ZeroMail(t)
    PROVE  /\ mail' \in [Slots -> [Index -> Message]]
           /\ mail_head' \in [Slots -> Index]
           /\ mail_count' \in [Slots -> 0..MAIL_DEPTH]
           /\ mail_count'[t] = 0
           /\ \A u \in Slots \ {t} : /\ mail'[u] = mail[u] /\ mail_head'[u] = mail_head[u]
                                     /\ mail_count'[u] = mail_count[u]
<1>1. ZERO \in Message /\ 0 \in Index /\ 0 \in 0..MAIL_DEPTH
    BY DEF Setting, IpcAssumption, ZERO, Message, Index
<1>2. [i \in Index |-> ZERO] \in [Index -> Message]
    BY Zenon, <1>1
<1> QED BY Zenon, <1>1, <1>2 DEF ZeroMail, IpcTypeOK

LEMMA NewTaskInv ==
    ASSUME Setting, IInv, NEW t \in Slots, NEW k \in Kinds, NewTask(t, k)
    PROVE  /\ IInv' /\ state[t] = "UNUSED" /\ next_id \in Ids
           /\ id'[t] = next_id /\ kind'[t] = k /\ state'[t] = "LIVE" /\ mail_count'[t] = 0
           /\ grants'[t] = {}
           /\ \A u \in Slots \ {t} : /\ id'[u] = id[u] /\ kind'[u] = kind[u] /\ state'[u] = state[u]
                                     /\ grants'[u] = grants[u]
                                     /\ mail'[u] = mail[u] /\ mail_head'[u] = mail_head[u]
                                     /\ mail_count'[u] = mail_count[u]
           /\ \A i \in 1..MAX_SERVICES : DeadEntry(i)' <=> DeadEntry(i)
<1>1. /\ MAX_ID \in Nat /\ MAX_GRANTS \in Nat /\ next_id \in Nat \ {0} /\ next_id <= MAX_ID
      /\ next_id' = next_id + 1 /\ state[t] = "UNUSED"
    BY DEF NewTask, Setting, IpcAssumption, IInv, IpcTypeOK
<1>2. /\ id'[t] = next_id /\ kind'[t] = k /\ state'[t] = "LIVE" /\ grants'[t] = {}
      /\ \A u \in Slots \ {t} : /\ id'[u] = id[u] /\ kind'[u] = kind[u] /\ state'[u] = state[u]
                                /\ grants'[u] = grants[u]
      /\ services' = services
    BY Zenon DEF NewTask, IInv, IpcTypeOK
<1>3. /\ mail' \in [Slots -> [Index -> Message]]
      /\ mail_head' \in [Slots -> Index]
      /\ mail_count' \in [Slots -> 0..MAIL_DEPTH]
      /\ mail_count'[t] = 0
      /\ \A u \in Slots \ {t} : /\ mail'[u] = mail[u] /\ mail_head'[u] = mail_head[u]
                                /\ mail_count'[u] = mail_count[u]
    BY Zenon, ZeroFacts DEF NewTask, IInv
<1>4. IpcTypeOK'
  <2>1. state' \in [Slots -> {"UNUSED", "LIVE", "ZOMBIE"}] /\ kind' \in [Slots -> Kinds \cup {"KERNEL"}]
      BY Zenon DEF NewTask, IInv, IpcTypeOK
  <2>2. id' \in [Slots -> 0..MAX_ID] /\ next_id' \in 1..(MAX_ID + 1)
      BY <1>1 DEF NewTask, IInv, IpcTypeOK
  <2>3. grants' \in [Slots -> SUBSET Ids]
      BY Zenon DEF NewTask, IInv, IpcTypeOK
  <2>4. \A u \in Slots : Cardinality(grants'[u]) <= MAX_GRANTS
    <3>1. Cardinality({}) <= MAX_GRANTS
        BY Zenon DEF Setting, TableFacts, GrantTable
    <3> QED BY Zenon, <1>2, <3>1 DEF IInv, IpcTypeOK
  <2>5. services' \in [1..MAX_SERVICES -> Service]
      BY Zenon, <1>2 DEF IInv, IpcTypeOK
  <2> QED BY Zenon, <1>3, <2>1, <2>2, <2>3, <2>4, <2>5 DEF IpcTypeOK
<1>5. \A u \in Slots \ {t} : (IF state[u] = "UNUSED" THEN id[u] = 0 ELSE id[u] \in 1..(next_id - 1))
                             /\ id[u] \in Nat
    BY DEF IInv, OwnIds, IpcTypeOK
<1>6. OwnIds'
  <2>1. \A u \in Slots : IF state'[u] = "UNUSED" THEN id'[u] = 0 ELSE id'[u] \in 1..(next_id' - 1)
      BY <1>1, <1>2, <1>5
  <2>2. ASSUME NEW u \in Slots, NEW v \in Slots, state'[u] # "UNUSED", state'[v] # "UNUSED", id'[u] = id'[v]
        PROVE  u = v
    <3>1. CASE u # t /\ v # t
        BY <1>2, <2>2, <3>1 DEF IInv, OwnIds
    <3>2. CASE u = t \/ v = t
        BY <1>1, <1>2, <1>5, <2>2, <3>2
    <3> QED BY Zenon, <3>1, <3>2
  <2> QED BY Zenon, <2>1, <2>2 DEF OwnIds
<1>7. KnownIds'
  <2>1. \A u \in Slots : grants'[u] \subseteq 1..(next_id' - 1)
      BY <1>1, <1>2 DEF IInv, KnownIds
  <2>2. \A i \in 1..MAX_SERVICES : services'[i].pid < next_id'
    <3>1. \A i \in 1..MAX_SERVICES : services[i].pid \in Nat /\ services[i].pid < next_id
        BY Zenon, Pids
    <3> QED BY <1>1, <1>2, <3>1
  <2> QED BY Zenon, <2>1, <2>2 DEF KnownIds
<1>8. ASSUME NEW i \in 1..MAX_SERVICES PROVE DeadEntry(i)' <=> DeadEntry(i)
  <2>1. services[i].pid # next_id
      BY <1>1 DEF IInv, KnownIds, IpcTypeOK, Service
  <2> QED BY Zenon, <1>1, <1>2, <2>1 DEF DeadEntry, Live
<1>9. OneServer'
    BY Zenon, <1>2, <1>8, ServersKept DEF IInv
<1> QED BY <1>1, <1>2, <1>3, <1>4, <1>6, <1>7, <1>8, <1>9 DEF IInv, Ids

LEMMA ReleasedFacts ==
    ASSUME Setting, IInv, NEW t \in Slots, services' \in {services, Released(t)}
    PROVE  /\ services' \in [1..MAX_SERVICES -> Service]
           /\ \A i \in 1..MAX_SERVICES :
                  \/ services'[i] = services[i]
                  \/ services[i].pid = id[t] /\ services'[i].pid = 0
           /\ next_id' = next_id => \A i \in 1..MAX_SERVICES : services'[i].pid < next_id'
<1>1. FREE \in Service /\ FREE.pid = 0
    BY DEF Setting, IpcAssumption, FREE, Service
<1>2. services \in [1..MAX_SERVICES -> Service] /\ next_id \in Nat /\ next_id > 0
    BY DEF IInv, IpcTypeOK
<1>3. services' \in [1..MAX_SERVICES -> Service]
    BY Zenon, <1>1, <1>2 DEF Released
<1>4. \A i \in 1..MAX_SERVICES :
          \/ services'[i] = services[i]
          \/ services[i].pid = id[t] /\ services'[i] = FREE
    BY Zenon, <1>2 DEF Released
<1>5. ASSUME next_id' = next_id, NEW i \in 1..MAX_SERVICES PROVE services'[i].pid < next_id'
  <2>1. CASE services'[i] = services[i]
      BY Zenon, <1>5, <2>1, Pids
  <2>2. CASE services'[i] = FREE
    <3>1. services'[i].pid = 0
        BY Zenon, <1>1, <2>2
    <3> QED BY Zenon, <1>2, <1>5, <3>1
  <2> QED BY Zenon, <1>4, <2>1, <2>2
<1> QED BY Zenon, <1>1, <1>3, <1>4, <1>5

LEMMA LiveIds ==
    ASSUME IInv
    PROVE  /\ \A u \in Slots : Live(u) => id[u] # 0
           /\ \A u, v \in Slots : Live(u) /\ Live(v) /\ id[u] = id[v] => u = v
<1>1. \A u \in Slots : Live(u) => state[u] # "UNUSED"
    BY Zenon DEF Live
<1>2. 0 \notin 1..(next_id - 1)
    BY DEF IInv, IpcTypeOK
<1> QED BY Zenon, <1>1, <1>2 DEF IInv, OwnIds

\* k_task_exit and process_return_control.
LEMMA DieInv ==
    ASSUME Setting, IInv, NEW t \in Slots, Live(t),
           state' = [state EXCEPT ![t] = "ZOMBIE"], services' \in {services, Released(t)},
           UNCHANGED <<id, kind, mailVars, grants, next_id>>
    PROVE  /\ IInv'
           /\ \A u \in Slots : Live(u)' <=> Live(u) /\ u # t
           /\ \A i \in 1..MAX_SERVICES :
                  /\ DeadEntry(i)' <=> DeadEntry(i) \/ services[i].pid = id[t]
                  /\ ~DeadEntry(i)' => services'[i] = services[i]
<1>1. /\ \A u \in Slots : Live(u)' <=> Live(u) /\ u # t
      /\ \A u \in Slots : state'[u] = "UNUSED" <=> state[u] = "UNUSED"
      /\ state' \in [Slots -> {"UNUSED", "LIVE", "ZOMBIE"}]
    BY Zenon DEF IInv, IpcTypeOK, Live
<1>2. /\ UNCHANGED <<id, kind, mail, mail_head, mail_count, grants, next_id>>
    BY Zenon DEF mailVars
<1>3. /\ services' \in [1..MAX_SERVICES -> Service]
      /\ \A i \in 1..MAX_SERVICES :
             \/ services'[i] = services[i]
             \/ services[i].pid = id[t] /\ services'[i].pid = 0
      /\ \A i \in 1..MAX_SERVICES : services'[i].pid < next_id'
    BY Zenon, ReleasedFacts
<1>4. /\ \A u \in Slots : Live(u) /\ id[u] = id[t] => u = t
      /\ \A u \in Slots : Live(u) => id[u] # 0
    BY Zenon, LiveIds
<1>5. IpcTypeOK'
    BY Zenon, <1>1, <1>2, <1>3 DEF IInv, IpcTypeOK
<1>6. OwnIds'
    BY <1>1, <1>2 DEF IInv, OwnIds
<1>7. KnownIds'
    BY Zenon, <1>2, <1>3 DEF IInv, KnownIds
<1>8. ASSUME NEW i \in 1..MAX_SERVICES
      PROVE  /\ DeadEntry(i)' <=> DeadEntry(i) \/ services[i].pid = id[t]
             /\ ~DeadEntry(i)' => services'[i] = services[i]
  <2>1. DeadEntry(i)' <=> ~ \E u \in Slots : Live(u)' /\ kind[u] # "KERNEL" /\ id[u] = services'[i].pid
      BY Zenon, <1>2 DEF DeadEntry
  <2> QED BY Zenon, <1>1, <1>3, <1>4, <2>1 DEF DeadEntry
<1>9. OneServer'
    BY Zenon, <1>8, ServersKept DEF IInv
<1> QED BY Zenon, <1>1, <1>5, <1>6, <1>7, <1>8, <1>9 DEF IInv

\* k_task_reap and process_destroy_locked.
LEMMA ReapInv ==
    ASSUME Setting, IInv, NEW t \in Slots, TaskReap(t)
    PROVE  /\ IInv' /\ ~Live(t)
           /\ \A u \in Slots : Live(u)' <=> Live(u)
           /\ \A u \in Slots \ {t} : /\ id'[u] = id[u] /\ kind'[u] = kind[u]
                                     /\ grants'[u] = grants[u]
                                     /\ mail'[u] = mail[u] /\ mail_head'[u] = mail_head[u]
                                     /\ mail_count'[u] = mail_count[u]
           /\ \A i \in 1..MAX_SERVICES :
                  /\ DeadEntry(i)' <=> DeadEntry(i)
                  /\ ~DeadEntry(i) => services'[i] = services[i]
<1>1. /\ state[t] = "ZOMBIE" /\ services' \in {services, Released(t)} /\ next_id' = next_id
      /\ state'[t] = "UNUSED" /\ id'[t] = 0 /\ grants'[t] = {}
      /\ \A u \in Slots \ {t} : /\ id'[u] = id[u] /\ kind'[u] = kind[u] /\ state'[u] = state[u]
                                /\ grants'[u] = grants[u]
    BY Zenon DEF TaskReap, IInv, IpcTypeOK
<1>2. /\ mail' \in [Slots -> [Index -> Message]]
      /\ mail_head' \in [Slots -> Index]
      /\ mail_count' \in [Slots -> 0..MAIL_DEPTH]
      /\ \A u \in Slots \ {t} : /\ mail'[u] = mail[u] /\ mail_head'[u] = mail_head[u]
                                /\ mail_count'[u] = mail_count[u]
    BY Zenon, ZeroFacts DEF TaskReap, IInv
<1>3. /\ services' \in [1..MAX_SERVICES -> Service]
      /\ \A i \in 1..MAX_SERVICES :
             \/ services'[i] = services[i]
             \/ services[i].pid = id[t] /\ services'[i].pid = 0
      /\ \A i \in 1..MAX_SERVICES : services'[i].pid < next_id'
    BY Zenon, <1>1, ReleasedFacts
<1>4. \A u \in Slots : Live(u)' <=> Live(u)
    BY Zenon, <1>1 DEF Live
<1>5. IpcTypeOK'
  <2>1. /\ state' \in [Slots -> {"UNUSED", "LIVE", "ZOMBIE"}] /\ kind' \in [Slots -> Kinds \cup {"KERNEL"}]
        /\ grants' \in [Slots -> SUBSET Ids] /\ next_id' \in 1..(MAX_ID + 1)
      BY Zenon DEF TaskReap, IInv, IpcTypeOK
  <2>2. id' \in [Slots -> 0..MAX_ID]
    <3>1. 0 \in 0..MAX_ID
        BY DEF Setting, IpcAssumption
    <3> QED BY Zenon, <3>1 DEF TaskReap, IInv, IpcTypeOK
  <2>3. \A u \in Slots : Cardinality(grants'[u]) <= MAX_GRANTS
    <3>1. Cardinality({}) <= MAX_GRANTS
        BY Zenon DEF Setting, TableFacts, GrantTable
    <3> QED BY Zenon, <1>1, <3>1 DEF IInv, IpcTypeOK
  <2> QED BY Zenon, <1>2, <1>3, <2>1, <2>2, <2>3 DEF IpcTypeOK
<1>6. OwnIds'
    BY <1>1 DEF IInv, OwnIds
<1>7. KnownIds'
  <2>1. \A u \in Slots : grants'[u] \subseteq 1..(next_id' - 1)
      BY Zenon, <1>1 DEF IInv, KnownIds
  <2> QED BY Zenon, <1>3, <2>1 DEF KnownIds
<1>8. ASSUME NEW i \in 1..MAX_SERVICES
      PROVE  /\ DeadEntry(i)' <=> DeadEntry(i)
             /\ ~DeadEntry(i) => services'[i] = services[i]
  <2>1. \A u \in Slots : Live(u) => u # t /\ id[u] # id[t] /\ id[u] # 0
      BY <1>1 DEF IInv, OwnIds, IpcTypeOK, Live
  <2>2. DeadEntry(i)' <=> ~ \E u \in Slots : Live(u) /\ kind[u] # "KERNEL" /\ id[u] = services'[i].pid
      BY Zenon, <1>1, <1>4, <2>1 DEF DeadEntry
  <2> QED BY Zenon, <1>3, <2>1, <2>2 DEF DeadEntry
<1>9. OneServer'
    BY Zenon, <1>8, ServersKept DEF IInv
<1>10. ~Live(t)
    BY Zenon, <1>1 DEF Live
<1> QED BY Zenon, <1>1, <1>2, <1>4, <1>5, <1>6, <1>7, <1>8, <1>9, <1>10 DEF IInv
-----------------------------------------------------------------------------
(***************************************************************************)
(* Messages.                                                               *)
(***************************************************************************)
LEMMA QueueIsRing ==
    /\ \A t \in Slots : Queue(t) = Ring(mail[t], mail_head[t], mail_count[t])
    /\ \A t \in Slots : Queue(t)' = Ring(mail'[t], mail_head'[t], mail_count'[t])
BY Zenon DEF Queue, Ring

\* What does not depend on mail.
LEMMA SameTasks ==
    ASSUME UNCHANGED <<taskVars, grants, services, next_id>>
    PROVE  /\ OwnIds => OwnIds'
           /\ KnownIds => KnownIds'
           /\ OneServer => OneServer'
           /\ Phase' = Phase /\ Trusted' = Trusted /\ Peers' = Peers /\ Directory' = Directory
           /\ \A t \in Slots : Live(t)' <=> Live(t)
           /\ \A i : LiveId(i)' <=> LiveId(i)
<1>1. UNCHANGED <<state, id, kind, grants, services, next_id>>
    BY Zenon DEF taskVars
<1>2. OwnIds => OwnIds'
    BY Zenon, <1>1 DEF OwnIds
<1>3. KnownIds => KnownIds'
    BY Zenon, <1>1 DEF KnownIds
<1>4. OneServer => OneServer'
    BY <1>1 DEF OneServer, DeadEntry, Live
<1>5. Phase' = Phase
    BY Zenon, <1>1 DEF Phase, LiveId, Live
<1>6. Trusted' = Trusted
    BY Zenon, <1>1 DEF Trusted, Live
<1>7. Peers' = Peers
    BY Zenon, <1>1 DEF Peers, LiveId, Live
<1>8. Directory' = Directory
    BY <1>1 DEF Directory, Serves, DeadEntry, Live
<1>9. \A t \in Slots : Live(t)' <=> Live(t)
    BY Zenon, <1>1 DEF Live
<1>10. \A i : LiveId(i)' <=> LiveId(i)
    BY Zenon, <1>1 DEF LiveId, Live
<1> QED BY Zenon, <1>2, <1>3, <1>4, <1>5, <1>6, <1>7, <1>8, <1>9, <1>10

\* k_ipc_send.
LEMMA SendInv ==
    ASSUME Setting, IInv, NEW t \in Slots, NEW target \in Ids, NEW d \in Data, Send(t, target, d)
    PROVE  /\ IInv' /\ UNCHANGED <<taskVars, grants, services, next_id>>
           /\ \E u \in Slots :
                /\ Live(u) /\ id[u] = target
                /\ Len(Queue(u)) < MAIL_DEPTH
                /\ Queue(u)' = Append(Queue(u), [sender |-> id[t], data |-> d])
                /\ \A v \in Slots \ {u} : Queue(v)' = Queue(v)
<1> DEFINE m == [sender |-> id[t], data |-> d]
<1>1. PICK u \in Slots :
        /\ Live(u) /\ id[u] = target /\ mail_count[u] # MAIL_DEPTH
        /\ mail' = [mail EXCEPT ![u][FreeIndex(u)] = m]
        /\ mail_count' = [mail_count EXCEPT ![u] = @ + 1]
    BY Zenon DEF Send, MailFull
<1>2. UNCHANGED <<taskVars, mail_head, grants, services, next_id>>
    BY Zenon DEF Send
<1>3. m \in Message
    BY Zenon DEF Message, IInv, IpcTypeOK
<1> HIDE DEF m
<1>4. /\ mail[u] \in [Index -> Message] /\ mail_head[u] \in Index /\ mail_count[u] \in 0..MAIL_DEPTH
      /\ mail_count[u] + 1 \in 0..MAIL_DEPTH
    BY <1>1 DEF IInv, IpcTypeOK, Setting, IpcAssumption
<1>5. FreeIndex(u) \in Index
    BY Zenon, <1>4, RingIsSeq DEF FreeIndex
<1>6. /\ mail'[u] = [mail[u] EXCEPT ![FreeIndex(u)] = m]
      /\ \A v \in Slots \ {u} : mail'[v] = mail[v]
      /\ mail' \in [Slots -> [Index -> Message]]
    BY Zenon, <1>1, <1>3, <1>5 DEF IInv, IpcTypeOK
<1>7. /\ mail_count' \in [Slots -> 0..MAIL_DEPTH] /\ mail_count'[u] = mail_count[u] + 1
      /\ \A v \in Slots \ {u} : mail_count'[v] = mail_count[v]
    BY Zenon, <1>1, <1>4 DEF IInv, IpcTypeOK
<1>8. Queue(u)' = Append(Queue(u), m)
  <2>1. Ring([mail[u] EXCEPT ![FreeIndex(u)] = m], mail_head[u], mail_count[u] + 1)
            = Append(Ring(mail[u], mail_head[u], mail_count[u]), m)
      BY Zenon, <1>1, <1>3, <1>4, RingAppend DEF FreeIndex
  <2> QED BY Zenon, <1>2, <1>6, <1>7, <2>1, QueueIsRing
<1>9. \A v \in Slots \ {u} : Queue(v)' = Queue(v)
    BY Zenon, <1>2, <1>6, <1>7, QueueIsRing
<1>10. Len(Queue(u)) < MAIL_DEPTH
  <2>1. Len(Queue(u)) = mail_count[u]
    <3>1. Queue(u) = Ring(mail[u], mail_head[u], mail_count[u])
        BY Zenon, QueueIsRing
    <3>2. Len(Ring(mail[u], mail_head[u], mail_count[u])) = mail_count[u]
        BY Zenon, <1>4, RingIsSeq
    <3> QED BY Zenon, <3>1, <3>2
  <2> QED BY <1>1, <1>4, <2>1 DEF Setting, IpcAssumption
<1>11. IpcTypeOK'
    BY Zenon, <1>2, <1>6, <1>7 DEF IInv, IpcTypeOK, taskVars
<1>12. OwnIds' /\ KnownIds' /\ OneServer'
    BY Zenon, <1>2, SameTasks DEF IInv
<1> QED BY Zenon, <1>1, <1>2, <1>8, <1>9, <1>10, <1>11, <1>12 DEF IInv, m

\* k_ipc_receive.
LEMMA ReceiveInv ==
    ASSUME Setting, IInv, NEW t \in Slots, Receive(t)
    PROVE  /\ IInv' /\ UNCHANGED <<taskVars, grants, services, next_id>>
           /\ Live(t) /\ Queue(t) # <<>>
           /\ Queue(t)' = Tail(Queue(t))
           /\ \A v \in Slots \ {t} : Queue(v)' = Queue(v)
<1>1. /\ Live(t) /\ mail_count[t] # 0
      /\ mail_head' = [mail_head EXCEPT ![t] = (@ + 1) % MAIL_DEPTH]
      /\ mail_count' = [mail_count EXCEPT ![t] = @ - 1]
      /\ UNCHANGED <<taskVars, mail, grants, services, next_id>>
    BY Zenon DEF Receive
<1>2. /\ mail[t] \in [Index -> Message] /\ mail_head[t] \in Index /\ mail_count[t] \in 0..MAIL_DEPTH
      /\ mail_count[t] - 1 \in 0..MAIL_DEPTH
    BY <1>1 DEF IInv, IpcTypeOK, Setting, IpcAssumption
<1>3. /\ (mail_head[t] + 1) % MAIL_DEPTH \in Index
      /\ Ring(mail[t], (mail_head[t] + 1) % MAIL_DEPTH, mail_count[t] - 1)
            = Tail(Ring(mail[t], mail_head[t], mail_count[t]))
      /\ Ring(mail[t], mail_head[t], mail_count[t]) # <<>>
    BY Zenon, <1>1, <1>2, RingTail
<1>4. /\ mail_head' \in [Slots -> Index] /\ mail_head'[t] = (mail_head[t] + 1) % MAIL_DEPTH
      /\ \A v \in Slots \ {t} : mail_head'[v] = mail_head[v]
  <2> DEFINE g == (mail_head[t] + 1) % MAIL_DEPTH
  <2>1. mail_head' = [mail_head EXCEPT ![t] = g] /\ g \in Index /\ mail_head \in [Slots -> Index]
      BY Zenon, <1>1, <1>3 DEF IInv, IpcTypeOK
  <2> HIDE DEF g
  <2>2. mail_head' \in [Slots -> Index] /\ mail_head'[t] = g
        /\ \A v \in Slots \ {t} : mail_head'[v] = mail_head[v]
      BY Zenon, <2>1
  <2> QED BY Zenon, <2>2 DEF g
<1>5. /\ mail_count' \in [Slots -> 0..MAIL_DEPTH] /\ mail_count'[t] = mail_count[t] - 1
      /\ \A v \in Slots \ {t} : mail_count'[v] = mail_count[v]
    BY Zenon, <1>1, <1>2 DEF IInv, IpcTypeOK
<1>6. mail' = mail
    BY Zenon, <1>1
<1>7. Queue(t)' = Tail(Queue(t)) /\ Queue(t) # <<>>
    BY Zenon, <1>3, <1>4, <1>5, <1>6, QueueIsRing
<1>8. \A v \in Slots \ {t} : Queue(v)' = Queue(v)
    BY Zenon, <1>4, <1>5, <1>6, QueueIsRing
<1>9. IpcTypeOK'
    BY Zenon, <1>1, <1>4, <1>5 DEF IInv, IpcTypeOK, taskVars
<1>10. OwnIds' /\ KnownIds' /\ OneServer'
    BY Zenon, <1>1, SameTasks DEF IInv
<1> QED BY Zenon, <1>1, <1>7, <1>8, <1>9, <1>10 DEF IInv
-----------------------------------------------------------------------------
(***************************************************************************)
(* Services.                                                               *)
(***************************************************************************)

\* Freeing dead entries takes no name from a live owner.
LEMMA SweptFacts ==
    ASSUME Setting, IInv, NEW last
    PROVE  /\ Swept(last) \in [1..MAX_SERVICES -> Service]
           /\ \A j \in 1..MAX_SERVICES :
                  /\ ~DeadEntry(j) => Swept(last)[j] = services[j]
                  /\ DeadEntry(j) => Swept(last)[j] \in {FREE, services[j]}
           /\ \A j \in 1..MAX_SERVICES : Swept(last)[j].pid < next_id
<1>1. FREE \in Service /\ FREE.pid = 0 /\ next_id > 0
    BY DEF Setting, IpcAssumption, FREE, Service, IInv, IpcTypeOK
<1>2. services \in [1..MAX_SERVICES -> Service]
    BY Zenon DEF IInv, IpcTypeOK
<1>3. Swept(last) \in [1..MAX_SERVICES -> Service]
    BY Zenon, <1>1, <1>2 DEF Swept
<1>4. \A j \in 1..MAX_SERVICES :
          /\ ~DeadEntry(j) => Swept(last)[j] = services[j]
          /\ DeadEntry(j) => Swept(last)[j] \in {FREE, services[j]}
    BY Zenon, <1>2 DEF Swept
<1>5. \A j \in 1..MAX_SERVICES : Swept(last)[j].pid < next_id
  <2> TAKE j \in 1..MAX_SERVICES
  <2>1. Swept(last)[j] = FREE \/ Swept(last)[j] = services[j]
      BY Zenon, <1>4
  <2> QED BY Zenon, <1>1, <2>1, Pids
<1> QED BY Zenon, <1>3, <1>4, <1>5

\* A free entry, or one as it was, names nobody who was not named before.
LEMMA EntryAfter ==
    ASSUME IInv, UNCHANGED <<taskVars, next_id>>
    PROVE  \A j \in 1..MAX_SERVICES :
               /\ services'[j].pid = 0 => DeadEntry(j)'
               /\ services'[j].pid = services[j].pid => (DeadEntry(j)' <=> DeadEntry(j))
               /\ \A t \in Slots : Live(t) /\ kind[t] # "KERNEL" /\ services'[j].pid = id[t] => ~DeadEntry(j)'
<1> TAKE j \in 1..MAX_SERVICES
<1>1. UNCHANGED <<state, id, kind>>
    BY Zenon DEF taskVars
<1>2. \A u \in Slots : Live(u) => id[u] # 0
    BY Zenon, LiveIds
<1>3. DeadEntry(j)' <=> ~ \E u \in Slots : Live(u) /\ kind[u] # "KERNEL" /\ id[u] = services'[j].pid
    BY Zenon, <1>1 DEF DeadEntry, Live
<1>4. DeadEntry(j) <=> ~ \E u \in Slots : Live(u) /\ kind[u] # "KERNEL" /\ id[u] = services[j].pid
    BY Zenon DEF DeadEntry
<1> QED BY Zenon, <1>2, <1>3, <1>4

\* service_register.  Either nobody sees the difference, or the name was free
\* and is now the caller's.
LEMMA RegisterInv ==
    ASSUME Setting, IInv, NEW t \in Slots, NEW n \in Names, Register(t, n)
    PROVE  /\ IInv' /\ UNCHANGED <<taskVars, mailVars, grants, next_id>>
           /\ Live(t) /\ kind[t] # "KERNEL"
           /\ \/ \A j \in 1..MAX_SERVICES :
                     (DeadEntry(j)' <=> DeadEntry(j)) /\ (~DeadEntry(j) => services'[j] = services[j])
              \/ /\ \A j \in 1..MAX_SERVICES : ~Serves(j, n)
                 /\ \E i \in 1..MAX_SERVICES :
                        /\ DeadEntry(i) /\ ~DeadEntry(i)'
                        /\ services'[i].name = n /\ services'[i].pid = id[t]
                        /\ \A j \in 1..MAX_SERVICES \ {i} :
                               /\ DeadEntry(j)' <=> DeadEntry(j)
                               /\ ~DeadEntry(j) => services'[j] = services[j]
<1> DEFINE taken == {i \in 1..MAX_SERVICES : ~DeadEntry(i) /\ services[i].name = n}
           empty == {i \in 1..MAX_SERVICES : DeadEntry(i)}
           r == [name |-> n, pid |-> id[t]]
<1>1. /\ Live(t) /\ kind[t] = "RING1"
      /\ \/ \E i \in 1..MAX_SERVICES : IsFirst(i, taken) /\ services' = Swept(i)
         \/ taken = {} /\ empty = {} /\ services' = services
         \/ /\ taken = {}
            /\ \E i \in 1..MAX_SERVICES :
                  /\ IsFirst(i, empty)
                  /\ services' = [Swept(MAX_SERVICES) EXCEPT ![i] = r]
      /\ UNCHANGED <<taskVars, mailVars, grants, next_id>>
    BY Zenon DEF Register
<1>2. kind[t] # "KERNEL" /\ UNCHANGED <<state, id, kind, mail, mail_head, mail_count, grants, next_id>>
    BY Zenon, <1>1 DEF taskVars, mailVars
<1>3. OwnIds'
    BY Zenon, <1>2 DEF IInv, OwnIds
<1>4. ASSUME services' \in [1..MAX_SERVICES -> Service],
             \A j \in 1..MAX_SERVICES : services'[j].pid < next_id
      PROVE  IpcTypeOK' /\ KnownIds'
  <2>1. IpcTypeOK'
      BY Zenon, <1>2, <1>4 DEF IInv, IpcTypeOK
  <2>2. KnownIds'
      BY Zenon, <1>2, <1>4 DEF IInv, KnownIds
  <2> QED BY Zenon, <2>1, <2>2
<1>5. FREE.pid = 0
    BY Zenon DEF FREE
<1>6. ASSUME NEW last, services' = Swept(last)
      PROVE  /\ IInv'
             /\ \A j \in 1..MAX_SERVICES :
                    (DeadEntry(j)' <=> DeadEntry(j)) /\ (~DeadEntry(j) => services'[j] = services[j])
  <2>1. /\ services' \in [1..MAX_SERVICES -> Service]
        /\ \A j \in 1..MAX_SERVICES :
               /\ ~DeadEntry(j) => services'[j] = services[j]
               /\ DeadEntry(j) => services'[j] \in {FREE, services[j]}
        /\ \A j \in 1..MAX_SERVICES : services'[j].pid < next_id
      BY Zenon, <1>6, SweptFacts
  <2>2. ASSUME NEW j \in 1..MAX_SERVICES PROVE DeadEntry(j)' <=> DeadEntry(j)
    <3>1. CASE services'[j] = services[j]
        BY Zenon, <1>1, <3>1, EntryAfter
    <3>2. CASE DeadEntry(j) /\ services'[j] = FREE
        BY Zenon, <1>1, <1>5, <3>2, EntryAfter
    <3> QED BY Zenon, <2>1, <3>1, <3>2
  <2>3. OneServer'
      BY Zenon, <2>1, <2>2, ServersKept DEF IInv
  <2> QED BY Zenon, <1>3, <1>4, <2>1, <2>2, <2>3 DEF IInv
<1>7. CASE \E i \in 1..MAX_SERVICES : IsFirst(i, taken) /\ services' = Swept(i)
    BY Zenon, <1>1, <1>2, <1>6, <1>7
<1>8. CASE services' = services
  <2>1. \A j \in 1..MAX_SERVICES : DeadEntry(j)' <=> DeadEntry(j)
      BY Zenon, <1>1, <1>8, EntryAfter
  <2>2. OneServer'
      BY Zenon, <1>8, <2>1, ServersKept DEF IInv
  <2>3. IpcTypeOK' /\ KnownIds'
      BY Zenon, <1>4, <1>8, Pids DEF IInv, IpcTypeOK
  <2> QED BY Zenon, <1>1, <1>2, <1>3, <1>8, <2>1, <2>2, <2>3 DEF IInv
<1>9. ASSUME taken = {}, NEW i \in 1..MAX_SERVICES, IsFirst(i, empty),
             services' = [Swept(MAX_SERVICES) EXCEPT ![i] = r]
      PROVE  /\ IInv'
             /\ \A j \in 1..MAX_SERVICES : ~Serves(j, n)
             /\ DeadEntry(i) /\ ~DeadEntry(i)'
             /\ services'[i].name = n /\ services'[i].pid = id[t]
             /\ \A j \in 1..MAX_SERVICES \ {i} :
                    /\ DeadEntry(j)' <=> DeadEntry(j)
                    /\ ~DeadEntry(j) => services'[j] = services[j]
  <2> DEFINE w == Swept(MAX_SERVICES)
  <2>1. /\ w \in [1..MAX_SERVICES -> Service]
        /\ \A j \in 1..MAX_SERVICES :
               /\ ~DeadEntry(j) => w[j] = services[j]
               /\ DeadEntry(j) => w[j] \in {FREE, services[j]}
        /\ \A j \in 1..MAX_SERVICES : w[j].pid < next_id
      BY Zenon, SweptFacts
  <2>2. DeadEntry(i) /\ \A j \in 1..MAX_SERVICES : ~Serves(j, n)
      BY Zenon, <1>9 DEF IsFirst, Serves
  <2>3. id[t] \in 0..MAX_ID /\ id[t] < next_id
      BY Zenon, <1>1, TheView DEF View, IInv, IpcTypeOK
  <2>4. r \in Service /\ r.name = n /\ r.pid = id[t]
      BY Zenon, <2>3 DEF Service
  <2> HIDE DEF w, r
  <2>5. /\ services'[i] = r /\ \A j \in 1..MAX_SERVICES \ {i} : services'[j] = w[j]
        /\ services' \in [1..MAX_SERVICES -> Service]
      BY Zenon, <1>9, <2>1, <2>4 DEF w
  <2>6. \A j \in 1..MAX_SERVICES : services'[j].pid < next_id
    <3> TAKE j \in 1..MAX_SERVICES
    <3>1. CASE j = i
        BY Zenon, <2>3, <2>4, <2>5, <3>1
    <3>2. CASE j # i
        BY Zenon, <2>1, <2>5, <3>2
    <3> QED BY Zenon, <3>1, <3>2
  <2>7. IpcTypeOK' /\ KnownIds'
      BY Zenon, <1>4, <2>5, <2>6
  <2>8. ASSUME NEW j \in 1..MAX_SERVICES \ {i}
        PROVE  /\ DeadEntry(j)' <=> DeadEntry(j)
               /\ ~DeadEntry(j) => services'[j] = services[j]
    <3>1. CASE services'[j] = services[j]
        BY Zenon, <1>1, <3>1, EntryAfter
    <3>2. CASE DeadEntry(j) /\ services'[j] = FREE
        BY Zenon, <1>1, <1>5, <3>2, EntryAfter
    <3> QED BY Zenon, <2>1, <2>5, <3>1, <3>2
  <2>9. ~DeadEntry(i)'
      BY Zenon, <1>1, <1>2, <2>4, <2>5, EntryAfter
  <2>10. OneServer'
    <3> SUFFICES ASSUME NEW j \in 1..MAX_SERVICES, NEW k \in 1..MAX_SERVICES, ~DeadEntry(j)', ~DeadEntry(k)',
                        services'[j].name = services'[k].name
                 PROVE  j = k
        BY Zenon DEF OneServer
    <3>1. CASE j # i /\ k # i
        BY Zenon, <2>8, <3>1 DEF IInv, OneServer
    <3>2. \A x \in 1..MAX_SERVICES \ {i} : ~DeadEntry(x)' => services'[x].name # n
        BY Zenon, <2>2, <2>8 DEF Serves
    <3>3. services'[i].name = n
        BY Zenon, <2>4, <2>5
    <3> QED BY Zenon, <3>1, <3>2, <3>3
  <2> QED BY Zenon, <1>3, <2>2, <2>4, <2>5, <2>7, <2>8, <2>9, <2>10 DEF IInv
<1> HIDE DEF r
<1> QED BY Zenon, <1>1, <1>2, <1>7, <1>8, <1>9
-----------------------------------------------------------------------------
(***************************************************************************)
(* Grants.                                                                 *)
(***************************************************************************)

\* What grant_locked does to a table gs that is to hold tid.
GrantSound(gs, tid) ==
    /\ Granted(gs, tid).table \in GrantTable
    /\ Granted(gs, tid).table \subseteq gs \cup {tid}
    /\ Granted(gs, tid).ok => tid \in Granted(gs, tid).table
    /\ ~Granted(gs, tid).ok => tid \notin Granted(gs, tid).table /\ tid \notin gs
    /\ tid \in gs => Granted(gs, tid).ok /\ Granted(gs, tid).table = gs
    /\ \A g \in gs : LiveId(g) => g \in Granted(gs, tid).table

\* grant_locked keeps within the table and takes no grant for a live id away.
LEMMA GrantedFacts ==
    ASSUME Setting, NEW gs \in GrantTable, NEW tid \in Ids
    PROVE  GrantSound(gs, tid)
<1> DEFINE P == Pruned(gs)
<1>1. P \subseteq gs /\ \A g \in gs : LiveId(g) => g \in P
    BY Zenon DEF Pruned
<1>2. P \in GrantTable
    BY Zenon, <1>1 DEF Setting, TableFacts
<1> HIDE DEF P
<1>3. CASE tid \in gs
  <2>1. Granted(gs, tid).ok = TRUE /\ Granted(gs, tid).table = gs
      BY Zenon, <1>3 DEF Granted
  <2> QED BY Zenon, <1>3, <2>1 DEF GrantSound
<1>4. CASE tid \notin gs /\ Cardinality(P) = MAX_GRANTS
  <2>1. Granted(gs, tid).ok = FALSE /\ Granted(gs, tid).table = P
      BY Zenon, <1>4 DEF Granted, P
  <2> QED BY Zenon, <1>1, <1>2, <1>4, <2>1 DEF GrantSound
<1>5. CASE tid \notin gs /\ Cardinality(P) # MAX_GRANTS
  <2>1. Granted(gs, tid).ok = TRUE /\ Granted(gs, tid).table = P \cup {tid}
      BY Zenon, <1>5 DEF Granted, P
  <2>2. P \cup {tid} \in GrantTable
      BY Zenon, <1>2, <1>5 DEF Setting, TableFacts
  <2> QED BY Zenon, <1>1, <1>5, <2>1, <2>2 DEF GrantSound
<1> QED BY Zenon, <1>3, <1>4, <1>5

\* The two grants of a lookup: both are made, or nobody sees a difference.
LEMMA ReciprocalFacts ==
    ASSUME Setting, IInv, NEW t \in Slots, NEW u \in Slots, Live(t), Live(u), kind[u] # "KERNEL"
    PROVE  /\ Reciprocal(t, u) \in [Slots -> GrantTable]
           /\ \A x \in Slots : Reciprocal(t, u)[x] \subseteq grants[x] \cup {id[t], id[u]}
           /\ \/ \A x \in Slots : \A g : LiveId(g) =>
                    (g \in Reciprocal(t, u)[x] <=> g \in grants[x])
              \/ \A x \in Slots : \A g : LiveId(g) /\ kind[x] # "KERNEL" =>
                    (g \in Reciprocal(t, u)[x] <=>
                        g \in grants[x] \/ (x = u /\ g = id[t]) \/ (x = t /\ g = id[u]))
<1> DEFINE first  == Granted(grants[u], id[t])
           g1     == [grants EXCEPT ![u] = first.table]
           second == Granted(g1[t], id[u])
           g2     == [g1 EXCEPT ![t] = second.table]
           R      == Reciprocal(t, u)
<1>1. R = IF ~first.ok \/ kind[t] = "KERNEL" THEN g1
          ELSE IF second.ok THEN g2
          ELSE IF id[t] \in grants[u] THEN g2
          ELSE [g2 EXCEPT ![u] = @ \ {id[t]}]
    BY Zenon DEF Reciprocal
<1> HIDE DEF R
<1>2. grants \in [Slots -> GrantTable] /\ id[t] \in Ids /\ id[u] \in Ids
  <2>1. \A x \in Slots : grants[x] \in SUBSET Ids /\ Cardinality(grants[x]) <= MAX_GRANTS
      BY Zenon DEF IInv, IpcTypeOK
  <2>2. \A x \in Slots : grants[x] \in GrantTable
      BY Zenon, <2>1 DEF GrantTable
  <2>3. grants \in [Slots -> SUBSET Ids]
      BY Zenon DEF IInv, IpcTypeOK
  <2> QED BY Zenon, <2>2, <2>3, TheView DEF View
<1>3. /\ first.table \in GrantTable
      /\ first.table \subseteq grants[u] \cup {id[t]}
      /\ first.ok => id[t] \in first.table
      /\ ~first.ok => id[t] \notin first.table /\ id[t] \notin grants[u]
      /\ id[t] \in grants[u] => first.ok /\ first.table = grants[u]
      /\ \A g \in grants[u] : LiveId(g) => g \in first.table
  <2>1. grants[u] \in GrantTable
      BY Zenon, <1>2
  <2>2. GrantSound(grants[u], id[t])
      BY Zenon, <1>2, <2>1, GrantedFacts
  <2> QED BY Zenon, <2>2 DEF GrantSound
<1> HIDE DEF first
<1>4. /\ g1 \in [Slots -> GrantTable] /\ g1[u] = first.table
      /\ \A x \in Slots \ {u} : g1[x] = grants[x]
    BY Zenon, <1>2, <1>3
<1> HIDE DEF g1
<1>5. /\ second.table \in GrantTable
      /\ second.table \subseteq g1[t] \cup {id[u]}
      /\ second.ok => id[u] \in second.table
      /\ ~second.ok => id[u] \notin second.table /\ id[u] \notin g1[t]
      /\ id[u] \in g1[t] => second.ok /\ second.table = g1[t]
      /\ \A g \in g1[t] : LiveId(g) => g \in second.table
  <2>1. g1[t] \in GrantTable
      BY Zenon, <1>4
  <2>2. GrantSound(g1[t], id[u])
      BY Zenon, <1>2, <2>1, GrantedFacts
  <2> QED BY Zenon, <2>2 DEF GrantSound
<1> HIDE DEF second
<1>6. /\ g2 \in [Slots -> GrantTable] /\ g2[t] = second.table
      /\ \A x \in Slots \ {t} : g2[x] = g1[x]
    BY Zenon, <1>4, <1>5
<1> HIDE DEF g2
<1>7. \A gs \in GrantTable : \A e : gs \ {e} \in GrantTable
    BY Zenon DEF Setting, TableFacts
<1>8. CASE ~first.ok
  <2>1. R = g1
      BY Zenon, <1>1, <1>8
  <2>2. \A g : LiveId(g) => (g \in first.table <=> g \in grants[u])
      BY Zenon, <1>3, <1>8
  <2>3. \A x \in Slots : \A g : LiveId(g) => (g \in R[x] <=> g \in grants[x])
      BY Zenon, <1>4, <2>1, <2>2
  <2>4. \A x \in Slots : R[x] \subseteq grants[x] \cup {id[t], id[u]}
      BY Zenon, <1>3, <1>4, <2>1
  <2> QED BY Zenon, <1>4, <2>1, <2>3, <2>4 DEF R
<1>9. CASE first.ok /\ kind[t] = "KERNEL"
  <2>1. R = g1
      BY Zenon, <1>1, <1>9
  <2>2. \A g : LiveId(g) => (g \in first.table <=> g \in grants[u] \/ g = id[t])
      BY Zenon, <1>3, <1>9
  <2>3. \A x \in Slots : \A g : LiveId(g) /\ kind[x] # "KERNEL" =>
            (g \in R[x] <=> g \in grants[x] \/ (x = u /\ g = id[t]) \/ (x = t /\ g = id[u]))
      BY Zenon, <1>4, <1>9, <2>1, <2>2
  <2>4. \A x \in Slots : R[x] \subseteq grants[x] \cup {id[t], id[u]}
      BY Zenon, <1>3, <1>4, <2>1
  <2> QED BY Zenon, <1>4, <2>1, <2>3, <2>4 DEF R
<1>10. CASE first.ok /\ kind[t] # "KERNEL" /\ second.ok
  <2>1. R = g2
      BY Zenon, <1>1, <1>10
  <2>2. \A x \in Slots : \A g : LiveId(g) /\ kind[x] # "KERNEL" =>
            (g \in R[x] <=> g \in grants[x] \/ (x = u /\ g = id[t]) \/ (x = t /\ g = id[u]))
    <3>1. CASE t = u
      <4>1. id[u] \in g1[t] /\ second.table = first.table
          BY Zenon, <1>3, <1>4, <1>5, <1>10, <3>1
      <4> QED BY Zenon, <1>3, <1>4, <1>6, <1>10, <2>1, <3>1, <4>1
    <3>2. CASE t # u
      <4>1. g1[t] = grants[t] /\ g2[u] = first.table /\ g2[t] = second.table
          BY Zenon, <1>4, <1>6, <3>2
      <4>2. \A x \in Slots \ {t, u} : g2[x] = grants[x]
          BY Zenon, <1>4, <1>6
      <4> QED BY Zenon, <1>3, <1>5, <1>10, <2>1, <3>2, <4>1, <4>2
    <3> QED BY Zenon, <3>1, <3>2
  <2>3. \A x \in Slots : R[x] \subseteq grants[x] \cup {id[t], id[u]}
      BY Zenon, <1>3, <1>4, <1>5, <1>6, <2>1
  <2> QED BY Zenon, <1>6, <2>1, <2>2, <2>3 DEF R
<1>11. CASE first.ok /\ kind[t] # "KERNEL" /\ ~second.ok
  <2>1. t # u /\ g1[t] = grants[t] /\ g2[u] = first.table
    <3>1. t # u
        BY Zenon, <1>3, <1>4, <1>5, <1>11
    <3> QED BY Zenon, <1>4, <1>6, <3>1
  <2>2. \A x \in Slots \ {t, u} : g2[x] = grants[x]
      BY Zenon, <1>4, <1>6
  <2>3. \A g : LiveId(g) => (g \in g2[t] <=> g \in grants[t])
      BY Zenon, <1>5, <1>6, <1>11, <2>1
  <2>4. CASE id[t] \in grants[u]
    <3>1. R = g2 /\ g2[u] = grants[u]
        BY Zenon, <1>1, <1>3, <1>11, <2>1, <2>4
    <3>2. \A x \in Slots : \A g : LiveId(g) => (g \in R[x] <=> g \in grants[x])
        BY Zenon, <2>2, <2>3, <3>1
    <3>3. \A x \in Slots : R[x] \subseteq grants[x] \cup {id[t], id[u]}
        BY Zenon, <1>3, <1>4, <1>5, <1>6, <3>1
    <3> QED BY Zenon, <1>6, <3>1, <3>2, <3>3 DEF R
  <2>5. CASE id[t] \notin grants[u]
    <3>1. R = [g2 EXCEPT ![u] = @ \ {id[t]}]
        BY Zenon, <1>1, <1>11, <2>5
    <3>2. R \in [Slots -> GrantTable] /\ R[u] = first.table \ {id[t]} /\ \A x \in Slots \ {u} : R[x] = g2[x]
        BY Zenon, <1>3, <1>6, <1>7, <2>1, <3>1
    <3>3. \A g : LiveId(g) => (g \in R[u] <=> g \in grants[u])
        BY Zenon, <1>3, <2>5, <3>2
    <3>4. \A x \in Slots : \A g : LiveId(g) => (g \in R[x] <=> g \in grants[x])
        BY Zenon, <2>1, <2>2, <2>3, <3>2, <3>3
    <3>5. \A x \in Slots : R[x] \subseteq grants[x] \cup {id[t], id[u]}
        BY Zenon, <1>3, <1>4, <1>5, <1>6, <3>2
    <3> QED BY Zenon, <3>2, <3>4, <3>5 DEF R
  <2> QED BY Zenon, <2>4, <2>5
<1> QED BY Zenon, <1>8, <1>9, <1>10, <1>11

\* k_service_lookup.
LEMMA LookupInv ==
    ASSUME Setting, IInv, NEW t \in Slots, NEW n \in Names, Lookup(t, n)
    PROVE  /\ IInv' /\ UNCHANGED <<taskVars, mailVars, services, next_id>> /\ Live(t)
           /\ \E i \in 1..MAX_SERVICES, u \in Slots :
                 /\ Serves(i, n) /\ Live(u) /\ kind[u] # "KERNEL" /\ id[u] = services[i].pid
                 /\ grants' = Reciprocal(t, u)
<1>1. /\ Live(t) /\ UNCHANGED <<taskVars, mailVars, services, next_id>>
      /\ \E i \in 1..MAX_SERVICES, u \in Slots :
             /\ services[i].name = n /\ Live(u) /\ kind[u] # "KERNEL" /\ id[u] = services[i].pid
             /\ grants' = Reciprocal(t, u)
    BY Zenon DEF Lookup, IsFirst
<1>2. PICK i \in 1..MAX_SERVICES, u \in Slots :
             /\ services[i].name = n /\ Live(u) /\ kind[u] # "KERNEL" /\ id[u] = services[i].pid
             /\ grants' = Reciprocal(t, u)
    BY Zenon, <1>1
<1>3. Serves(i, n)
    BY Zenon, <1>2 DEF Serves, DeadEntry
<1>4. UNCHANGED <<state, id, kind, mail, mail_head, mail_count, services, next_id>>
    BY Zenon, <1>1 DEF taskVars, mailVars
<1>5. /\ grants' \in [Slots -> GrantTable]
      /\ \A x \in Slots : grants'[x] \subseteq grants[x] \cup {id[t], id[u]}
    BY Zenon, <1>1, <1>2, ReciprocalFacts
<1>6. IpcTypeOK'
  <2>1. grants' \in [Slots -> SUBSET Ids]
      BY Zenon, <1>5 DEF GrantTable
  <2>2. \A x \in Slots : Cardinality(grants'[x]) <= MAX_GRANTS
      BY Zenon, <1>5 DEF GrantTable
  <2> QED BY Zenon, <1>4, <2>1, <2>2 DEF IInv, IpcTypeOK
<1>7. OwnIds'
    BY Zenon, <1>4 DEF IInv, OwnIds
<1>8. KnownIds'
  <2>1. id[t] \in 1..(next_id - 1) /\ id[u] \in 1..(next_id - 1)
      BY Zenon, <1>1, <1>2 DEF IInv, OwnIds, Live
  <2>2. \A x \in Slots : grants'[x] \subseteq 1..(next_id - 1)
      BY Zenon, <1>5, <2>1 DEF IInv, KnownIds
  <2> QED BY Zenon, <1>4, <2>2 DEF IInv, KnownIds
<1>9. OneServer'
    BY Zenon, <1>4 DEF IInv, OneServer, DeadEntry, Live
<1> QED BY Zenon, <1>1, <1>2, <1>3, <1>6, <1>7, <1>8, <1>9 DEF IInv

LEMMA NextInv == ASSUME Setting, IInv, [IpcNext]_ipcVars PROVE IInv'
<1>1. ASSUME NEW t \in Slots, NEW k \in Kinds, NewTask(t, k) PROVE IInv'
    BY Zenon, <1>1, NewTaskInv
<1>2. ASSUME NEW t \in Slots, TaskExit(t) \/ Kill(t) PROVE IInv'
  <2>1. /\ Live(t) /\ state' = [state EXCEPT ![t] = "ZOMBIE"] /\ services' \in {services, Released(t)}
        /\ UNCHANGED <<id, kind, mailVars, grants, next_id>>
      BY Zenon, <1>2 DEF TaskExit, Kill
  <2> QED BY Zenon, <2>1, DieInv
<1>3. ASSUME NEW t \in Slots, TaskReap(t) PROVE IInv'
    BY Zenon, <1>3, ReapInv
<1>4. ASSUME NEW t \in Slots, Receive(t) PROVE IInv'
    BY Zenon, <1>4, ReceiveInv
<1>5. ASSUME NEW t \in Slots, NEW i \in Ids, NEW d \in Data, Send(t, i, d) PROVE IInv'
    BY Zenon, <1>5, SendInv
<1>6. ASSUME NEW t \in Slots, NEW n \in Names, Register(t, n) PROVE IInv'
    BY Zenon, <1>6, RegisterInv
<1>7. ASSUME NEW t \in Slots, NEW n \in Names, Lookup(t, n) PROVE IInv'
    BY Zenon, <1>7, LookupInv
<1>8. CASE UNCHANGED ipcVars
  <2>1. UNCHANGED <<state, id, kind, mail, mail_head, mail_count, grants, services, next_id>>
      BY Zenon, <1>8 DEF ipcVars, taskVars, mailVars
  <2>2. IpcTypeOK'
      BY Zenon, <2>1 DEF IInv, IpcTypeOK
  <2>3. UNCHANGED <<taskVars, grants, services, next_id>>
      BY Zenon, <1>8 DEF ipcVars
  <2> QED BY Zenon, <2>2, <2>3, SameTasks DEF IInv
<1> QED BY Zenon, <1>1, <1>2, <1>3, <1>4, <1>5, <1>6, <1>7, <1>8 DEF IpcNext
-----------------------------------------------------------------------------
(***************************************************************************)
(* The refinement, step by step.                                           *)
(***************************************************************************)
IsOn(f, S) == f = [x \in S |-> f[x]]

LEMMA SameFunction ==
    ASSUME NEW S, NEW f, NEW g, IsOn(f, S), IsOn(g, S), \A x \in S : g[x] = f[x]
    PROVE  g = f
BY Zenon DEF IsOn

LEMMA UpdatedFunction ==
    ASSUME NEW S, NEW f, NEW g, NEW y \in S, NEW v, IsOn(f, S), IsOn(g, S),
           g[y] = v, \A x \in S \ {y} : g[x] = f[x]
    PROVE  g = [f EXCEPT ![y] = v]
BY Zenon DEF IsOn

LEMMA Domains ==
    /\ IsOn(Phase, Ids) /\ IsOn(Phase', Ids)
    /\ IsOn(Inbox, Ids) /\ IsOn(Inbox', Ids)
    /\ IsOn(Directory, Names) /\ IsOn(Directory', Names)
BY Zenon DEF IsOn, Phase, Inbox, Directory

\* What the definitions under a prime say.
LEMMA Primes ==
    /\ \A i : LiveId(i)' <=> \E u \in Slots : Live(u)' /\ id'[u] = i
    /\ \A i, n : Serves(i, n)' <=> ~DeadEntry(i)' /\ services'[i].name = n
    /\ \A i \in Ids : i \in Trusted' <=> \E u \in Slots : Live(u)' /\ id'[u] = i /\ kind'[u] = "KERNEL"
    /\ Trusted' \subseteq Ids /\ Peers' \subseteq Ids \X Ids
    /\ \A p \in Ids \X Ids :
           p \in Peers' <=> /\ LiveId(p[2])'
                            /\ \E u \in Slots : /\ Live(u)' /\ kind'[u] # "KERNEL"
                                                /\ id'[u] = p[1] /\ p[2] \in grants'[u]
<1>1. \A i : LiveId(i)' <=> \E u \in Slots : Live(u)' /\ id'[u] = i
    BY Zenon DEF LiveId
<1>2. \A i, n : Serves(i, n)' <=> ~DeadEntry(i)' /\ services'[i].name = n
    BY Zenon DEF Serves
<1>3. /\ \A i \in Ids : i \in Trusted' <=> \E u \in Slots : Live(u)' /\ id'[u] = i /\ kind'[u] = "KERNEL"
      /\ Trusted' \subseteq Ids
    BY Zenon DEF Trusted
<1>4. /\ Peers' \subseteq Ids \X Ids
      /\ \A p \in Ids \X Ids :
           p \in Peers' <=> /\ LiveId(p[2])'
                            /\ \E u \in Slots : /\ Live(u)' /\ kind'[u] # "KERNEL"
                                                /\ id'[u] = p[1] /\ p[2] \in grants'[u]
    BY Zenon DEF Peers
<1> QED BY Zenon, <1>1, <1>2, <1>3, <1>4

LEMMA PhaseAfter ==
    \A i \in Ids : Phase'[i] = IF i >= next_id' THEN "new" ELSE IF LiveId(i)' THEN "open" ELSE "closed"
BY Zenon DEF Phase

LEMMA Plains ==
    /\ \A i : LiveId(i) <=> \E u \in Slots : Live(u) /\ id[u] = i
    /\ \A i, n : Serves(i, n) <=> ~DeadEntry(i) /\ services[i].name = n
    /\ \A i \in Ids : i \in Trusted <=> \E u \in Slots : Live(u) /\ id[u] = i /\ kind[u] = "KERNEL"
    /\ Trusted \subseteq Ids /\ Peers \subseteq Ids \X Ids
    /\ \A p \in Ids \X Ids :
           p \in Peers <=> /\ LiveId(p[2])
                           /\ \E u \in Slots : /\ Live(u) /\ kind[u] # "KERNEL"
                                               /\ id[u] = p[1] /\ p[2] \in grants[u]
BY Zenon DEF LiveId, Serves, Trusted, Peers

\* A directory whose entries with live owners stay is the same to lookups.
LEMMA DirectorySame ==
    ASSUME Setting, IInv, IInv',
           \A j \in 1..MAX_SERVICES :
               (DeadEntry(j)' <=> DeadEntry(j)) /\ (~DeadEntry(j) => services'[j] = services[j])
    PROVE  Directory' = Directory
<1>1. \A j \in 1..MAX_SERVICES : \A n \in Names : Serves(j, n)' <=> Serves(j, n)
    BY Primes, Plains
<1>2. /\ \A i \in 1..MAX_SERVICES : \A n \in Names : Serves(i, n) => Directory[n] = services[i].pid
      /\ \A n \in Names : (\A i \in 1..MAX_SERVICES : ~Serves(i, n)) => Directory[n] = 0
    BY Zenon, TheView DEF View
<1>3. /\ \A i \in 1..MAX_SERVICES : \A n \in Names : Serves(i, n)' => Directory'[n] = services'[i].pid
      /\ \A n \in Names : (\A i \in 1..MAX_SERVICES : ~Serves(i, n)') => Directory'[n] = 0
    BY Zenon, TheViewAfter
<1>4. ASSUME NEW n \in Names PROVE Directory'[n] = Directory[n]
  <2>1. CASE \E j \in 1..MAX_SERVICES : Serves(j, n)
    <3>1. PICK j \in 1..MAX_SERVICES : Serves(j, n)
        BY Zenon, <2>1
    <3>2. services'[j] = services[j]
        BY Zenon, <3>1, Plains
    <3>3. Directory[n] = services[j].pid /\ Directory'[n] = services'[j].pid
        BY Zenon, <1>1, <1>2, <1>3, <3>1
    <3> QED BY Zenon, <3>2, <3>3
  <2>2. CASE \A j \in 1..MAX_SERVICES : ~Serves(j, n)
      BY Zenon, <1>1, <1>2, <1>3, <2>2
  <2> QED BY Zenon, <2>1, <2>2
<1> QED BY <1>4, Domains, SameFunction

\* Live tasks that keep their ids and their mail: no inbox changes.
LEMMA InboxSame ==
    ASSUME Setting, IInv, IInv',
           \A i : LiveId(i)' <=> LiveId(i),
           \A u \in Slots : Live(u)' <=> Live(u),
           \A u \in Slots : Live(u) => Queue(u)' = Queue(u) /\ id'[u] = id[u]
    PROVE  Inbox' = Inbox
<1>1. /\ \A u \in Slots : Live(u)' => Inbox'[id'[u]] = Queue(u)'
      /\ \A i \in Ids : ~LiveId(i)' => Inbox'[i] = <<>>
    BY Zenon, TheViewAfter
<1>2. /\ \A u \in Slots : Live(u) => Inbox[id[u]] = Queue(u)
      /\ \A i \in Ids : ~LiveId(i) => Inbox[i] = <<>>
    BY Zenon, TheView DEF View
<1>3. ASSUME NEW i \in Ids PROVE Inbox'[i] = Inbox[i]
  <2>1. CASE LiveId(i)
    <3>1. PICK u \in Slots : Live(u) /\ id[u] = i
        BY Zenon, <2>1, Plains
    <3> QED BY <1>1, <1>2, <3>1
  <2>2. CASE ~LiveId(i)
      BY Zenon, <1>1, <1>2, <2>2
  <2> QED BY Zenon, <2>1, <2>2
<1> QED BY <1>3, Domains, SameFunction

\* new_task opens the next id.
LEMMA NewTaskRefines ==
    ASSUME Setting, IInv, NEW t \in Slots, NEW k \in Kinds, NewTask(t, k)
    PROVE  C!Begin(next_id) /\ next_id \in Ids
<1>1. /\ IInv' /\ state[t] = "UNUSED" /\ next_id \in Ids
      /\ id'[t] = next_id /\ kind'[t] = k /\ state'[t] = "LIVE" /\ mail_count'[t] = 0
      /\ grants'[t] = {}
      /\ \A u \in Slots \ {t} : /\ id'[u] = id[u] /\ kind'[u] = kind[u] /\ state'[u] = state[u]
                                /\ grants'[u] = grants[u]
                                /\ mail'[u] = mail[u] /\ mail_head'[u] = mail_head[u]
                                /\ mail_count'[u] = mail_count[u]
      /\ \A i \in 1..MAX_SERVICES : DeadEntry(i)' <=> DeadEntry(i)
    BY Zenon, NewTaskInv
<1>2. View
    BY Zenon, TheView
<1>3. next_id' = next_id + 1 /\ next_id \in Nat /\ services' = services
    BY DEF NewTask, IInv, IpcTypeOK
<1>4. /\ ~Live(t) /\ Live(t)' /\ \A u \in Slots \ {t} : Live(u)' <=> Live(u)
    BY Zenon, <1>1 DEF Live
<1>5. \A u \in Slots : Live(u) => id[u] # next_id
    BY <1>2, <1>3 DEF View
<1>6. \A i : (LiveId(i)' <=> LiveId(i) \/ i = next_id) /\ (i = next_id => ~LiveId(i))
    BY <1>1, <1>4, <1>5, Primes, Plains
<1>7. Phase[next_id] = "new" /\ Phase'[next_id] = "open"
  <2>1. ~(next_id >= next_id') /\ next_id >= next_id
      BY <1>3
  <2>2. Phase[next_id] = "new"
      BY Zenon, <1>1, <2>1 DEF Phase
  <2>3. \A i \in Ids : i = next_id => Phase'[i] = "open"
      BY Zenon, <1>6, <2>1, PhaseAfter
  <2> QED BY Zenon, <1>1, <2>2, <2>3
<1>8. \A i \in Ids \ {next_id} : Phase'[i] = Phase[i]
  <2>1. \A i \in Ids \ {next_id} : i >= next_id' <=> i >= next_id
      BY <1>3 DEF Ids
  <2>2. \A i \in Ids : Phase'[i] = IF i >= next_id' THEN "new" ELSE IF LiveId(i)' THEN "open" ELSE "closed"
      BY Zenon, PhaseAfter
  <2>3. \A i \in Ids : Phase[i] = IF i >= next_id THEN "new" ELSE IF LiveId(i) THEN "open" ELSE "closed"
      BY Zenon DEF Phase
  <2> QED BY Zenon, <1>6, <2>1, <2>2, <2>3
<1>9. Phase' = [Phase EXCEPT ![next_id] = "open"]
    BY <1>1, <1>7, <1>8, Domains, UpdatedFunction
<1>10. Trusted' \in {Trusted, Trusted \cup {next_id}}
  <2>1. CASE k = "KERNEL"
    <3>1. \A i \in Ids : i \in Trusted' <=> i \in Trusted \cup {next_id}
        BY <1>1, <1>4, <2>1, Primes, Plains
    <3>2. Trusted' = Trusted \cup {next_id}
        BY <1>1, <3>1, Primes, Plains
    <3> QED BY Zenon, <3>2
  <2>2. CASE k # "KERNEL"
    <3>1. \A i \in Ids : i \in Trusted' <=> i \in Trusted
        BY <1>1, <1>4, <2>2, Primes, Plains
    <3>2. Trusted' = Trusted
        BY Zenon, <3>1, Primes, Plains
    <3> QED BY Zenon, <3>2
  <2> QED BY Zenon, <2>1, <2>2
<1>11. Inbox' = Inbox
  <2>1. ASSUME NEW u \in Slots \ {t} PROVE Queue(u)' = Queue(u)
      BY Zenon, <1>1, QueueIsRing
  <2>2. Queue(t)' = <<>>
      BY <1>1 DEF Queue
  <2>3. /\ \A u \in Slots : Live(u)' => Inbox'[id'[u]] = Queue(u)'
        /\ \A i \in Ids : ~LiveId(i)' => Inbox'[i] = <<>>
      BY Zenon, <1>1, TheViewAfter
  <2>4. /\ \A u \in Slots : Live(u) => Inbox[id[u]] = Queue(u)
        /\ \A i \in Ids : ~LiveId(i) => Inbox[i] = <<>>
      BY Zenon, <1>2 DEF View
  <2>5. ASSUME NEW i \in Ids PROVE Inbox'[i] = Inbox[i]
    <3>1. CASE i = next_id
        BY <1>1, <1>4, <1>6, <2>2, <2>3, <2>4, <3>1
    <3>2. CASE i # next_id /\ LiveId(i)
      <4>1. PICK u \in Slots : Live(u) /\ id[u] = i
          BY Zenon, <3>2, Plains
      <4>2. u # t /\ Live(u)' /\ id'[u] = i
          BY Zenon, <1>1, <1>4, <4>1
      <4> QED BY Zenon, <2>1, <2>3, <2>4, <4>1, <4>2
    <3>3. CASE i # next_id /\ ~LiveId(i)
        BY Zenon, <1>6, <2>3, <2>4, <3>3
    <3> QED BY Zenon, <3>1, <3>2, <3>3
  <2> QED BY <2>5, Domains, SameFunction
<1>12. Peers' = Peers
  <2>1. \A u \in Slots : next_id \notin grants[u]
      BY <1>3 DEF IInv, KnownIds
  <2>2. \A p \in Ids \X Ids : p \in Peers' <=> p \in Peers
      BY <1>1, <1>4, <1>6, <2>1, Primes, Plains
  <2> QED BY Zenon, <2>2, Primes, Plains
<1>13. Directory' = Directory
    BY Zenon, <1>1, <1>3, DirectorySame
<1> QED BY Zenon, <1>1, <1>7, <1>9, <1>10, <1>11, <1>12, <1>13 DEF C!Begin

\* A dying task closes its id: its mail, grants and names go with it.
LEMMA DieRefines ==
    ASSUME Setting, IInv, NEW t \in Slots, Live(t),
           state' = [state EXCEPT ![t] = "ZOMBIE"], services' \in {services, Released(t)},
           UNCHANGED <<id, kind, mailVars, grants, next_id>>
    PROVE  C!Close(id[t]) /\ id[t] \in Ids
<1>1. /\ IInv'
      /\ \A u \in Slots : Live(u)' <=> Live(u) /\ u # t
      /\ \A i \in 1..MAX_SERVICES :
             /\ DeadEntry(i)' <=> DeadEntry(i) \/ services[i].pid = id[t]
             /\ ~DeadEntry(i)' => services'[i] = services[i]
    BY Zenon, DieInv
<1>2. View
    BY Zenon, TheView
<1>3. id' = id /\ kind' = kind /\ grants' = grants /\ next_id' = next_id
      /\ \A u \in Slots : Queue(u)' = Queue(u)
    BY Zenon, QueueIsRing DEF mailVars
<1>4. PICK p : p = id[t]
    BY Zenon
<1>5. p \in Ids /\ p < next_id /\ LiveId(p) /\ Phase[p] = "open"
    BY Zenon, <1>2, <1>4 DEF View
<1>6. \A u \in Slots : Live(u) => (id[u] = p <=> u = t)
    BY Zenon, <1>4 DEF IInv, OwnIds, Live
<1>7. \A i : LiveId(i)' <=> LiveId(i) /\ i # p
    BY <1>1, <1>3, <1>6, Primes, Plains
<1>8. Phase' = [Phase EXCEPT ![p] = "closed"]
  <2>1. ~(p >= next_id)
      BY <1>5 DEF IInv, IpcTypeOK, Ids
  <2>2. \A i \in Ids : Phase'[i] = IF i >= next_id THEN "new" ELSE IF LiveId(i)' THEN "open" ELSE "closed"
      BY Zenon, <1>3, PhaseAfter
  <2>3. \A i \in Ids : Phase[i] = IF i >= next_id THEN "new" ELSE IF LiveId(i) THEN "open" ELSE "closed"
      BY Zenon DEF Phase
  <2>4. Phase'[p] = "closed" /\ \A i \in Ids \ {p} : Phase'[i] = Phase[i]
      BY Zenon, <1>5, <1>7, <2>1, <2>2, <2>3
  <2> QED BY <1>5, <2>4, Domains, UpdatedFunction
<1>9. Trusted' = Trusted \ {p}
  <2>1. \A i \in Ids : i \in Trusted' <=> i \in Trusted /\ i # p
      BY <1>1, <1>3, <1>6, Primes, Plains
  <2> QED BY Zenon, <2>1, Primes, Plains
<1>10. Inbox' = [Inbox EXCEPT ![p] = <<>>]
  <2>1. /\ \A u \in Slots : Live(u)' => Inbox'[id'[u]] = Queue(u)'
        /\ \A i \in Ids : ~LiveId(i)' => Inbox'[i] = <<>>
      BY Zenon, <1>1, TheViewAfter
  <2>2. /\ \A u \in Slots : Live(u) => Inbox[id[u]] = Queue(u)
        /\ \A i \in Ids : ~LiveId(i) => Inbox[i] = <<>>
      BY Zenon, <1>2 DEF View
  <2>3. Inbox'[p] = <<>>
      BY Zenon, <1>5, <1>7, <2>1
  <2>4. ASSUME NEW i \in Ids \ {p} PROVE Inbox'[i] = Inbox[i]
    <3>1. CASE LiveId(i)
      <4>1. PICK u \in Slots : Live(u) /\ id[u] = i
          BY Zenon, <3>1, Plains
      <4>2. u # t /\ Live(u)' /\ id'[u] = i
          BY Zenon, <1>1, <1>3, <1>4, <4>1
      <4> QED BY Zenon, <1>3, <2>1, <2>2, <4>1, <4>2
    <3>2. CASE ~LiveId(i)
        BY Zenon, <1>7, <2>1, <2>2, <3>2
    <3> QED BY Zenon, <3>1, <3>2
  <2> QED BY <1>5, <2>3, <2>4, Domains, UpdatedFunction
<1>11. Peers' = {q \in Peers : q[1] # p /\ q[2] # p}
  <2>1. \A q \in Ids \X Ids : q \in Peers' <=> q \in Peers /\ q[1] # p /\ q[2] # p
      BY <1>1, <1>3, <1>6, <1>7, Primes, Plains
  <2> QED BY <2>1, Primes, Plains
<1>12. Directory' = [n \in Names |-> IF Directory[n] = p THEN C!Vacant ELSE Directory[n]]
  <2>1. /\ \A i \in 1..MAX_SERVICES : \A n \in Names : Serves(i, n) => Directory[n] = services[i].pid
        /\ \A n \in Names : (\A i \in 1..MAX_SERVICES : ~Serves(i, n)) => Directory[n] = 0
      BY Zenon, <1>2 DEF View
  <2>2. /\ \A i \in 1..MAX_SERVICES : \A n \in Names : Serves(i, n)' => Directory'[n] = services'[i].pid
        /\ \A n \in Names : (\A i \in 1..MAX_SERVICES : ~Serves(i, n)') => Directory'[n] = 0
      BY Zenon, <1>1, TheViewAfter
  <2>3. \A i \in 1..MAX_SERVICES : \A n \in Names :
            Serves(i, n)' <=> Serves(i, n) /\ services[i].pid # p
      BY <1>1, <1>4, Primes, Plains
  <2>4. ASSUME NEW n \in Names
        PROVE  Directory'[n] = IF Directory[n] = p THEN 0 ELSE Directory[n]
    <3>1. CASE \E j \in 1..MAX_SERVICES : Serves(j, n)
      <4>1. PICK j \in 1..MAX_SERVICES : Serves(j, n)
          BY Zenon, <3>1
      <4>2. Directory[n] = services[j].pid
          BY Zenon, <2>1, <4>1
      <4>3. CASE services[j].pid # p
        <5>1. Serves(j, n)' /\ services'[j] = services[j]
            BY Zenon, <1>1, <2>3, <4>1, <4>3, Primes
        <5> QED BY Zenon, <2>2, <4>2, <4>3, <5>1
      <4>4. CASE services[j].pid = p
        <5>1. \A i \in 1..MAX_SERVICES : ~Serves(i, n)'
            BY <2>1, <2>3, <4>2, <4>4
        <5> QED BY Zenon, <2>2, <4>2, <4>4, <5>1
      <4> QED BY Zenon, <4>3, <4>4
    <3>2. CASE \A j \in 1..MAX_SERVICES : ~Serves(j, n)
        BY Zenon, <2>1, <2>2, <2>3, <3>2
    <3> QED BY Zenon, <3>1, <3>2
  <2> DEFINE D == [n \in Names |-> IF Directory[n] = p THEN C!Vacant ELSE Directory[n]]
  <2>5. \A n \in Names : Directory'[n] = D[n]
      BY Zenon, <2>4 DEF C!Vacant
  <2>6. IsOn(D, Names)
      BY Zenon DEF IsOn
  <2> HIDE DEF D
  <2>7. Directory' = D
      BY <2>5, <2>6, Domains, SameFunction
  <2> QED BY Zenon, <2>7 DEF D
<1> QED BY Zenon, <1>4, <1>5, <1>8, <1>9, <1>10, <1>11, <1>12 DEF C!Close, C!Open

\* Nobody sees a zombie's slot being cleared for its next user.
LEMMA ReapRefines ==
    ASSUME Setting, IInv, NEW t \in Slots, TaskReap(t)
    PROVE  UNCHANGED C!vars
<1>1. /\ IInv' /\ ~Live(t)
      /\ \A u \in Slots : Live(u)' <=> Live(u)
      /\ \A u \in Slots \ {t} : /\ id'[u] = id[u] /\ kind'[u] = kind[u]
                                /\ grants'[u] = grants[u]
                                /\ mail'[u] = mail[u] /\ mail_head'[u] = mail_head[u]
                                /\ mail_count'[u] = mail_count[u]
      /\ \A i \in 1..MAX_SERVICES :
             /\ DeadEntry(i)' <=> DeadEntry(i)
             /\ ~DeadEntry(i) => services'[i] = services[i]
    BY Zenon, ReapInv
<1>2. next_id' = next_id
    BY Zenon DEF TaskReap
<1>3. \A i : LiveId(i)' <=> LiveId(i)
    BY <1>1, Primes, Plains
<1>4. Phase' = Phase
  <2>1. \A i \in Ids : Phase'[i] = IF i >= next_id THEN "new" ELSE IF LiveId(i) THEN "open" ELSE "closed"
      BY Zenon, <1>2, <1>3, PhaseAfter
  <2>2. \A i \in Ids : Phase[i] = IF i >= next_id THEN "new" ELSE IF LiveId(i) THEN "open" ELSE "closed"
      BY Zenon DEF Phase
  <2>3. \A i \in Ids : Phase'[i] = Phase[i]
      BY Zenon, <2>1, <2>2
  <2> QED BY <2>3, Domains, SameFunction
<1>5. Trusted' = Trusted
  <2>1. \A i \in Ids : i \in Trusted' <=> i \in Trusted
      BY <1>1, Primes, Plains
  <2> QED BY Zenon, <2>1, Primes, Plains
<1>6. Peers' = Peers
  <2>1. \A q \in Ids \X Ids : q \in Peers' <=> q \in Peers
      BY <1>1, <1>3, Primes, Plains
  <2> QED BY Zenon, <2>1, Primes, Plains
<1>7. Directory' = Directory
    BY Zenon, <1>1, DirectorySame
<1>8. \A u \in Slots : Live(u) => Queue(u)' = Queue(u) /\ id'[u] = id[u]
    BY Zenon, <1>1, QueueIsRing
<1>9. Inbox' = Inbox
    BY Zenon, <1>1, <1>3, <1>8, InboxSame
<1> QED BY Zenon, <1>4, <1>5, <1>6, <1>7, <1>9 DEF C!vars

\* k_ipc_send appends to the inbox of an id the sender may write to.
LEMMA SendRefines ==
    ASSUME Setting, IInv, NEW t \in Slots, NEW target \in Ids, NEW d \in Data, Send(t, target, d)
    PROVE  C!Send(id[t], target, d) /\ id[t] \in Ids
<1> DEFINE m == [sender |-> id[t], data |-> d]
<1>1. /\ IInv' /\ UNCHANGED <<taskVars, grants, services, next_id>>
      /\ \E u \in Slots : /\ Live(u) /\ id[u] = target
                          /\ Len(Queue(u)) < MAIL_DEPTH
                          /\ Queue(u)' = Append(Queue(u), m)
                          /\ \A v \in Slots \ {u} : Queue(v)' = Queue(v)
    BY Zenon, SendInv
<1>2. PICK u \in Slots : /\ Live(u) /\ id[u] = target
                         /\ Len(Queue(u)) < MAIL_DEPTH
                         /\ Queue(u)' = Append(Queue(u), m)
                         /\ \A v \in Slots \ {u} : Queue(v)' = Queue(v)
    BY Zenon, <1>1
<1>3. /\ Phase' = Phase /\ Trusted' = Trusted /\ Peers' = Peers /\ Directory' = Directory
      /\ \A x \in Slots : Live(x)' <=> Live(x)
      /\ \A i : LiveId(i)' <=> LiveId(i)
      /\ id' = id
    BY Zenon, <1>1, SameTasks DEF taskVars
<1>4. View
    BY Zenon, TheView
<1>5. Live(t) /\ MaySend(t, target)
    BY Zenon DEF Send
<1>6. /\ id[t] \in Ids /\ Phase[id[t]] = "open" /\ (id[t] \in Trusted <=> kind[t] = "KERNEL")
      /\ Phase[target] = "open" /\ LiveId(target) /\ Inbox[target] = Queue(u)
    BY Zenon, <1>2, <1>4, <1>5 DEF View
<1>7. id[t] \in Trusted \/ id[t] = target \/ <<id[t], target>> \in Peers
  <2>1. CASE kind[t] = "KERNEL"
      BY Zenon, <1>6, <2>1
  <2>2. CASE target = id[t]
      BY Zenon, <2>2
  <2>3. CASE kind[t] # "KERNEL" /\ target \in grants[t]
    <3>1. <<id[t], target>> \in Ids \X Ids
        BY Zenon, <1>6
    <3> QED BY Zenon, <1>5, <1>6, <2>3, <3>1, Plains
  <2> QED BY Zenon, <1>5, <2>1, <2>2, <2>3 DEF MaySend
<1> HIDE DEF m
<1>8. Inbox' = [Inbox EXCEPT ![target] = Append(Inbox[target], m)]
  <2>1. /\ \A x \in Slots : Live(x)' => Inbox'[id'[x]] = Queue(x)'
        /\ \A i \in Ids : ~LiveId(i)' => Inbox'[i] = <<>>
      BY Zenon, <1>1, TheViewAfter
  <2>2. /\ \A x \in Slots : Live(x) => Inbox[id[x]] = Queue(x)
        /\ \A i \in Ids : ~LiveId(i) => Inbox[i] = <<>>
      BY Zenon, <1>4 DEF View
  <2>3. Inbox'[target] = Append(Inbox[target], m)
      BY Zenon, <1>2, <1>3, <1>6, <2>1
  <2>4. ASSUME NEW i \in Ids \ {target} PROVE Inbox'[i] = Inbox[i]
    <3>1. CASE LiveId(i)
      <4>1. PICK x \in Slots : Live(x) /\ id[x] = i
          BY Zenon, <3>1, Plains
      <4>2. x # u
          BY Zenon, <1>2, <4>1
      <4> QED BY Zenon, <1>2, <1>3, <2>1, <2>2, <4>1, <4>2
    <3>2. CASE ~LiveId(i)
        BY Zenon, <1>3, <2>1, <2>2, <3>2
    <3> QED BY Zenon, <3>1, <3>2
  <2> QED BY <2>3, <2>4, Domains, UpdatedFunction
<1> QED BY Zenon, <1>2, <1>3, <1>6, <1>7, <1>8 DEF C!Send, C!Open, m

\* k_ipc_receive takes the oldest message of the caller's inbox.
LEMMA ReceiveRefines ==
    ASSUME Setting, IInv, NEW t \in Slots, Receive(t)
    PROVE  C!Receive(id[t]) /\ id[t] \in Ids
<1>1. /\ IInv' /\ UNCHANGED <<taskVars, grants, services, next_id>>
      /\ Live(t) /\ Queue(t) # <<>>
      /\ Queue(t)' = Tail(Queue(t))
      /\ \A v \in Slots \ {t} : Queue(v)' = Queue(v)
    BY Zenon, ReceiveInv
<1>2. /\ Phase' = Phase /\ Trusted' = Trusted /\ Peers' = Peers /\ Directory' = Directory
      /\ \A x \in Slots : Live(x)' <=> Live(x)
      /\ \A i : LiveId(i)' <=> LiveId(i)
      /\ id' = id
    BY Zenon, <1>1, SameTasks DEF taskVars
<1>3. View
    BY Zenon, TheView
<1>4. PICK p : p = id[t]
    BY Zenon
<1>5. /\ p \in Ids /\ Phase[p] = "open" /\ Inbox[p] = Queue(t)
    BY Zenon, <1>1, <1>3, <1>4 DEF View
<1>6. Inbox' = [Inbox EXCEPT ![p] = Tail(Inbox[p])]
  <2>1. /\ \A x \in Slots : Live(x)' => Inbox'[id'[x]] = Queue(x)'
        /\ \A i \in Ids : ~LiveId(i)' => Inbox'[i] = <<>>
      BY Zenon, <1>1, TheViewAfter
  <2>2. /\ \A x \in Slots : Live(x) => Inbox[id[x]] = Queue(x)
        /\ \A i \in Ids : ~LiveId(i) => Inbox[i] = <<>>
      BY Zenon, <1>3 DEF View
  <2>3. Inbox'[p] = Tail(Inbox[p])
      BY Zenon, <1>1, <1>2, <1>4, <1>5, <2>1
  <2>4. ASSUME NEW i \in Ids \ {p} PROVE Inbox'[i] = Inbox[i]
    <3>1. CASE LiveId(i)
      <4>1. PICK x \in Slots : Live(x) /\ id[x] = i
          BY Zenon, <3>1, Plains
      <4>2. x # t
          BY Zenon, <1>4, <4>1
      <4> QED BY Zenon, <1>1, <1>2, <2>1, <2>2, <4>1, <4>2
    <3>2. CASE ~LiveId(i)
        BY Zenon, <1>2, <2>1, <2>2, <3>2
    <3> QED BY Zenon, <3>1, <3>2
  <2> QED BY <1>5, <2>3, <2>4, Domains, UpdatedFunction
<1> QED BY Zenon, <1>1, <1>2, <1>4, <1>5, <1>6 DEF C!Receive, C!Open

\* What does not depend on the grants and the services.
LEMMA SameMail ==
    ASSUME Setting, IInv, IInv', UNCHANGED <<taskVars, mailVars, next_id>>
    PROVE  /\ Phase' = Phase /\ Trusted' = Trusted /\ Inbox' = Inbox
           /\ \A u \in Slots : Live(u)' <=> Live(u)
           /\ \A i : LiveId(i)' <=> LiveId(i)
<1>1. UNCHANGED <<state, id, kind, mail, mail_head, mail_count, next_id>>
    BY Zenon DEF taskVars, mailVars
<1>2. \A u \in Slots : Live(u)' <=> Live(u)
    BY Zenon, <1>1 DEF Live
<1>3. \A i : LiveId(i)' <=> LiveId(i)
    BY <1>1, <1>2, Primes, Plains
<1>4. Trusted' = Trusted
  <2>1. \A i \in Ids : i \in Trusted' <=> i \in Trusted
      BY <1>1, <1>2, Primes, Plains
  <2> QED BY Zenon, <2>1, Primes, Plains
<1>5. Phase' = Phase
  <2>1. \A i \in Ids : Phase'[i] = IF i >= next_id THEN "new" ELSE IF LiveId(i) THEN "open" ELSE "closed"
      BY Zenon, <1>1, <1>3, PhaseAfter
  <2>2. \A i \in Ids : Phase[i] = IF i >= next_id THEN "new" ELSE IF LiveId(i) THEN "open" ELSE "closed"
      BY Zenon DEF Phase
  <2>3. \A i \in Ids : Phase'[i] = Phase[i]
      BY Zenon, <2>1, <2>2
  <2> QED BY <2>3, Domains, SameFunction
<1>6. \A u \in Slots : Live(u) => Queue(u)' = Queue(u) /\ id'[u] = id[u]
    BY Zenon, <1>1, QueueIsRing
<1>7. Inbox' = Inbox
    BY Zenon, <1>2, <1>3, <1>6, InboxSame
<1> QED BY Zenon, <1>2, <1>3, <1>4, <1>5, <1>7

\* service_register gives the caller a name nobody serves, or changes nothing.
LEMMA RegisterRefines ==
    ASSUME Setting, IInv, NEW t \in Slots, NEW n \in Names, Register(t, n)
    PROVE  (C!Register(id[t], n) /\ id[t] \in Ids) \/ UNCHANGED C!vars
<1> DEFINE Kept == \A j \in 1..MAX_SERVICES :
                       (DeadEntry(j)' <=> DeadEntry(j)) /\ (~DeadEntry(j) => services'[j] = services[j])
           Added(i) == /\ DeadEntry(i) /\ ~DeadEntry(i)'
                       /\ services'[i].name = n /\ services'[i].pid = id[t]
                       /\ \A j \in 1..MAX_SERVICES \ {i} :
                              /\ DeadEntry(j)' <=> DeadEntry(j)
                              /\ ~DeadEntry(j) => services'[j] = services[j]
<1>1. /\ IInv' /\ UNCHANGED <<taskVars, mailVars, grants, next_id>>
      /\ Live(t) /\ kind[t] # "KERNEL"
      /\ \/ Kept
         \/ (\A j \in 1..MAX_SERVICES : ~Serves(j, n)) /\ \E i \in 1..MAX_SERVICES : Added(i)
    BY RegisterInv
<1>2. /\ Phase' = Phase /\ Trusted' = Trusted /\ Inbox' = Inbox
      /\ \A u \in Slots : Live(u)' <=> Live(u)
      /\ \A i : LiveId(i)' <=> LiveId(i)
    BY Zenon, <1>1, SameMail
<1>3. Peers' = Peers
  <2>1. id' = id /\ kind' = kind /\ grants' = grants
      BY Zenon, <1>1 DEF taskVars
  <2>2. \A q \in Ids \X Ids : q \in Peers' <=> q \in Peers
      BY Zenon, <1>2, <2>1, Primes, Plains
  <2> QED BY Zenon, <2>2, Primes, Plains
<1>4. CASE Kept
  <2>1. Directory' = Directory
      BY Zenon, <1>1, <1>4, DirectorySame
  <2> QED BY Zenon, <1>2, <1>3, <2>1 DEF C!vars
<1>5. CASE (\A j \in 1..MAX_SERVICES : ~Serves(j, n)) /\ \E i \in 1..MAX_SERVICES : Added(i)
  <2>1. View
      BY Zenon, TheView
  <2>2. PICK i \in 1..MAX_SERVICES : Added(i)
      BY Zenon, <1>5
  <2>3. PICK p : p = id[t]
      BY Zenon
  <2>4. p \in Ids /\ Phase[p] = "open"
      BY Zenon, <1>1, <2>1, <2>3 DEF View
  <2>5. /\ \A j \in 1..MAX_SERVICES : \A x \in Names : Serves(j, x) => Directory[x] = services[j].pid
        /\ \A x \in Names : (\A j \in 1..MAX_SERVICES : ~Serves(j, x)) => Directory[x] = 0
      BY Zenon, <2>1 DEF View
  <2>6. /\ \A j \in 1..MAX_SERVICES : \A x \in Names : Serves(j, x)' => Directory'[x] = services'[j].pid
        /\ \A x \in Names : (\A j \in 1..MAX_SERVICES : ~Serves(j, x)') => Directory'[x] = 0
      BY Zenon, <1>1, TheViewAfter
  <2>7. Directory[n] = 0
      BY Zenon, <1>5, <2>5
  <2>8. Directory'[n] = p
    <3>1. Serves(i, n)'
        BY Zenon, <2>2, Primes
    <3> QED BY Zenon, <2>2, <2>3, <2>6, <3>1
  <2>9. ASSUME NEW x \in Names \ {n} PROVE Directory'[x] = Directory[x]
    <3>1. \A j \in 1..MAX_SERVICES : Serves(j, x)' <=> Serves(j, x)
        BY <2>2, Primes, Plains
    <3>2. CASE \E j \in 1..MAX_SERVICES : Serves(j, x)
      <4>1. PICK j \in 1..MAX_SERVICES : Serves(j, x)
          BY Zenon, <3>2
      <4>2. services'[j] = services[j]
          BY <2>2, <4>1, Plains
      <4> QED BY <2>5, <2>6, <3>1, <4>1, <4>2
    <3>3. CASE \A j \in 1..MAX_SERVICES : ~Serves(j, x)
        BY Zenon, <2>5, <2>6, <3>1, <3>3
    <3> QED BY Zenon, <3>2, <3>3
  <2>10. Directory' = [Directory EXCEPT ![n] = p]
      BY Zenon, <2>8, <2>9, Domains, UpdatedFunction
  <2> QED BY Zenon, <1>2, <1>3, <2>3, <2>4, <2>7, <2>10 DEF C!Register, C!Open, C!Vacant
<1> QED BY Zenon, <1>1, <1>4, <1>5

\* k_service_lookup grants both directions between caller and server, or, when
\* one of the two tables has no room, changes nothing either could notice.
LEMMA LookupRefines ==
    ASSUME Setting, IInv, NEW t \in Slots, NEW n \in Names, Lookup(t, n)
    PROVE  (C!Connect(id[t], n) /\ id[t] \in Ids) \/ UNCHANGED C!vars
<1>1. /\ IInv' /\ UNCHANGED <<taskVars, mailVars, services, next_id>> /\ Live(t)
      /\ \E i \in 1..MAX_SERVICES, u \in Slots :
            /\ Serves(i, n) /\ Live(u) /\ kind[u] # "KERNEL" /\ id[u] = services[i].pid
            /\ grants' = Reciprocal(t, u)
    BY Zenon, LookupInv
<1>2. PICK i \in 1..MAX_SERVICES, u \in Slots :
            /\ Serves(i, n) /\ Live(u) /\ kind[u] # "KERNEL" /\ id[u] = services[i].pid
            /\ grants' = Reciprocal(t, u)
    BY Zenon, <1>1
<1>3. /\ Phase' = Phase /\ Trusted' = Trusted /\ Inbox' = Inbox
      /\ \A x \in Slots : Live(x)' <=> Live(x)
      /\ \A g : LiveId(g)' <=> LiveId(g)
    BY Zenon, <1>1, SameMail
<1>4. id' = id /\ kind' = kind /\ services' = services
    BY Zenon, <1>1 DEF taskVars
<1>5. Directory' = Directory
  <2>1. \A j \in 1..MAX_SERVICES : DeadEntry(j)' <=> DeadEntry(j)
      BY Zenon, <1>3, <1>4 DEF DeadEntry
  <2> QED BY Zenon, <1>1, <1>4, <2>1, DirectorySame
<1>6. View
    BY Zenon, TheView
<1>7. PICK p, s : p = id[t] /\ s = id[u]
    BY Zenon
<1>8. /\ p \in Ids /\ Phase[p] = "open" /\ LiveId(p) /\ (p \in Trusted <=> kind[t] = "KERNEL")
      /\ s \in Ids /\ LiveId(s) /\ Directory[n] = s
    BY Zenon, <1>1, <1>2, <1>6, <1>7 DEF View
<1>9. \/ \A x \in Slots : \A g : LiveId(g) => (g \in grants'[x] <=> g \in grants[x])
      \/ \A x \in Slots : \A g : LiveId(g) /\ kind[x] # "KERNEL" =>
            (g \in grants'[x] <=> g \in grants[x] \/ (x = u /\ g = p) \/ (x = t /\ g = s))
    BY <1>1, <1>2, <1>7, ReciprocalFacts
<1>10. CASE \A x \in Slots : \A g : LiveId(g) => (g \in grants'[x] <=> g \in grants[x])
  <2>1. \A q \in Ids \X Ids : q \in Peers' <=> q \in Peers
      BY <1>3, <1>4, <1>10, Primes, Plains
  <2>2. Peers' = Peers
      BY Zenon, <2>1, Primes, Plains
  <2> QED BY Zenon, <1>3, <1>5, <2>2 DEF C!vars
<1>11. CASE \A x \in Slots : \A g : LiveId(g) /\ kind[x] # "KERNEL" =>
            (g \in grants'[x] <=> g \in grants[x] \/ (x = u /\ g = p) \/ (x = t /\ g = s))
  <2> DEFINE More == {<<s, p>>} \cup (IF p \in Trusted THEN {} ELSE {<<p, s>>})
  <2>1. \A x \in Slots : Live(x) => (id[x] = p <=> x = t) /\ (id[x] = s <=> x = u)
      BY Zenon, <1>1, <1>2, <1>7 DEF IInv, OwnIds, Live
  <2>2. \A q \in Ids \X Ids : q \in More <=> (q[1] = s /\ q[2] = p) \/ (p \notin Trusted /\ q[1] = p /\ q[2] = s)
      BY <1>8
  <2>3. More \subseteq Ids \X Ids
      BY <1>8
  <2>4. ASSUME NEW q \in Ids \X Ids PROVE q \in Peers' <=> q \in Peers \/ q \in More
    <3>1. q \in Peers' <=> /\ LiveId(q[2])
                           /\ \E x \in Slots : /\ Live(x) /\ kind[x] # "KERNEL"
                                               /\ id[x] = q[1] /\ q[2] \in grants'[x]
        BY Zenon, <1>3, <1>4, Primes
    <3>2. q \in Peers <=> /\ LiveId(q[2])
                          /\ \E x \in Slots : /\ Live(x) /\ kind[x] # "KERNEL"
                                              /\ id[x] = q[1] /\ q[2] \in grants[x]
        BY Zenon, Plains
    <3>3. ASSUME q \in Peers' PROVE q \in Peers \/ q \in More
      <4>1. PICK x \in Slots : /\ LiveId(q[2]) /\ Live(x) /\ kind[x] # "KERNEL"
                               /\ id[x] = q[1] /\ q[2] \in grants'[x]
          BY Zenon, <3>1, <3>3
      <4>2. q[2] \in grants[x] \/ (x = u /\ q[2] = p) \/ (x = t /\ q[2] = s)
          BY Zenon, <1>11, <4>1
      <4>3. CASE q[2] \in grants[x]
          BY Zenon, <3>2, <4>1, <4>3
      <4>4. CASE x = u /\ q[2] = p
          BY Zenon, <1>7, <2>2, <4>1, <4>4
      <4>5. CASE x = t /\ q[2] = s
          BY Zenon, <1>7, <1>8, <2>2, <4>1, <4>5
      <4> QED BY Zenon, <4>2, <4>3, <4>4, <4>5
    <3>4. ASSUME q \in Peers PROVE q \in Peers'
      <4>1. PICK x \in Slots : /\ LiveId(q[2]) /\ Live(x) /\ kind[x] # "KERNEL"
                               /\ id[x] = q[1] /\ q[2] \in grants[x]
          BY Zenon, <3>2, <3>4
      <4>2. q[2] \in grants'[x]
          BY Zenon, <1>11, <4>1
      <4> QED BY Zenon, <3>1, <4>1, <4>2
    <3>5. ASSUME q[1] = s, q[2] = p PROVE q \in Peers'
      <4>1. p \in grants'[u]
          BY Zenon, <1>2, <1>8, <1>11
      <4> QED BY Zenon, <1>2, <1>7, <1>8, <3>1, <3>5, <4>1
    <3>6. ASSUME p \notin Trusted, q[1] = p, q[2] = s PROVE q \in Peers'
      <4>1. s \in grants'[t] /\ kind[t] # "KERNEL"
          BY Zenon, <1>8, <1>11, <3>6
      <4> QED BY Zenon, <1>1, <1>7, <1>8, <3>1, <3>6, <4>1
    <3> QED BY Zenon, <2>2, <3>3, <3>4, <3>5, <3>6
  <2> HIDE DEF More
  <2>5. Peers' = Peers \cup More
      BY Zenon, <2>3, <2>4, Primes, Plains
  <2>6. Peers' = Peers \cup {<<s, p>>} \cup (IF p \in Trusted THEN {} ELSE {<<p, s>>})
      BY Zenon, <2>5 DEF More
  <2>7. Directory[n] # 0
      BY <1>8 DEF Ids
  <2> QED BY Zenon, <1>3, <1>5, <1>7, <1>8, <2>6, <2>7 DEF C!Connect, C!Open, C!Vacant
<1> QED BY Zenon, <1>9, <1>10, <1>11

\* A step of Ipc is a step of Channels or leaves the channels as they are.
LEMMA RefinementStep ==
    ASSUME Setting, IInv, [IpcNext]_ipcVars
    PROVE  [C!Next]_(C!vars)
<1>1. ASSUME NEW t \in Slots, NEW k \in Kinds, NewTask(t, k) PROVE C!Next
    BY Zenon, <1>1, NewTaskRefines DEF C!Next
<1>2. ASSUME NEW t \in Slots, TaskExit(t) \/ Kill(t) PROVE C!Next
  <2>1. /\ Live(t) /\ state' = [state EXCEPT ![t] = "ZOMBIE"]
        /\ services' \in {services, Released(t)}
        /\ UNCHANGED <<id, kind, mailVars, grants, next_id>>
      BY Zenon, <1>2 DEF TaskExit, Kill
  <2>2. C!Close(id[t]) /\ id[t] \in Ids
      BY Zenon, <2>1, DieRefines
  <2> QED BY Zenon, <2>2 DEF C!Next
<1>3. ASSUME NEW t \in Slots, TaskReap(t) PROVE UNCHANGED C!vars
    BY Zenon, <1>3, ReapRefines
<1>4. ASSUME NEW t \in Slots, Receive(t) PROVE C!Next
    BY Zenon, <1>4, ReceiveRefines DEF C!Next
<1>5. ASSUME NEW t \in Slots, NEW i \in Ids, NEW d \in Data, Send(t, i, d) PROVE C!Next
    BY Zenon, <1>5, SendRefines DEF C!Next
<1>6. ASSUME NEW t \in Slots, NEW n \in Names, Register(t, n) PROVE [C!Next]_(C!vars)
    BY Zenon, <1>6, RegisterRefines DEF C!Next
<1>7. ASSUME NEW t \in Slots, NEW n \in Names, Lookup(t, n) PROVE [C!Next]_(C!vars)
    BY Zenon, <1>7, LookupRefines DEF C!Next
<1>8. CASE UNCHANGED ipcVars
  <2>1. IInv'
      BY Zenon, NextInv
  <2>2. UNCHANGED <<taskVars, mailVars, grants, services, next_id>>
      BY Zenon, <1>8 DEF ipcVars
  <2> QED BY Zenon, <2>1, <2>2, SameTasks, SameMail DEF C!vars
<1> QED BY Zenon, <1>1, <1>2, <1>3, <1>4, <1>5, <1>6, <1>7, <1>8 DEF IpcNext
=============================================================================
