---------------------------- MODULE NetlinkProofs ----------------------------
(***************************************************************************)
(* For every width of addresses, every set of threads and descriptors and  *)
(* every set of sends, the vector m_entries implements the abstract        *)
(* routing table, and selects and dumps of netlink sockets end as they     *)
(* should.                                                                 *)
(***************************************************************************)
EXTENDS Netlink, TLAPS

RtEntries == [dst : Addresses, len : 0 .. Width, gw : Addresses]

\* No two entries of vector s have the same prefix.
Unique(s) == \A i, j \in 1 .. Len(s) : Equal(s[i], s[j]) => i = j

Prefix(e) == <<e.dst, e.len>>

-----------------------------------------------------------------------------
\* std::find in a vector of distinct prefixes: there is at most one match.
LEMMA FoundOnce ==
  ASSUME NEW s \in Seq(RtEntries), Unique(s), NEW e \in RtEntries, Found(s, e) # {}
  PROVE  First(Found(s, e)) \in Found(s, e) /\ Found(s, e) = {First(Found(s, e))}
<1>1. PICK i \in Found(s, e) : TRUE
  OBVIOUS
<1>2. i \in 1 .. Len(s) /\ Found(s, e) \subseteq 1 .. Len(s)
  BY DEF Found
<1>3. \A j \in Found(s, e) : j = i
  BY <1>2 DEF Found, Equal, Unique
<1>4. \A j \in Found(s, e) : i <= j
  BY <1>2, <1>3
<1>5. First(Found(s, e)) = i
  BY <1>1, <1>3, <1>4 DEF First
<1> QED BY <1>1, <1>3, <1>5

\* What is left in the vector after an entry was erased: the other entries,
\* in their order, each of them once.
LEMMA ErasedEntries ==
  ASSUME NEW s \in Seq(RtEntries), Unique(s), NEW e \in RtEntries
  PROVE  /\ Erased(s, e) \in Seq(RtEntries) /\ Unique(Erased(s, e))
         /\ \A i \in 1 .. Len(Erased(s, e)) :
              ~Equal(Erased(s, e)[i], e) /\ \E j \in 1 .. Len(s) : Erased(s, e)[i] = s[j]
         /\ \A j \in 1 .. Len(s) :
              ~Equal(s[j], e) => \E i \in 1 .. Len(Erased(s, e)) : Erased(s, e)[i] = s[j]
<1>1. CASE Found(s, e) = {}
  BY <1>1 DEF Erased, Found
<1>2. CASE Found(s, e) # {}
  <2> DEFINE k == First(Found(s, e))
             n == Len(s) - 1
             r == [i \in 1 .. n |-> IF i < k THEN s[i] ELSE s[i + 1]]
  <2>1. k \in 1 .. Len(s) /\ Equal(s[k], e) /\ \A i \in 1 .. Len(s) : Equal(s[i], e) => i = k
    BY <1>2, FoundOnce DEF Found
  <2>2. Erased(s, e) = r
    BY <1>2 DEF Erased
  <2> HIDE DEF k
  <2>3. n \in Nat /\ \A i \in 1 .. n : i \in 1 .. Len(s) /\ i + 1 \in 1 .. Len(s)
    BY <2>1
  <2>4. r \in Seq(RtEntries) /\ Len(r) = n
    BY <2>3
  <2>5. Unique(r)
    <3> SUFFICES ASSUME NEW i \in 1 .. n, NEW j \in 1 .. n, Equal(r[i], r[j])
                 PROVE  i = j
      BY <2>4 DEF Unique
    <3> DEFINE f(x) == IF x < k THEN x ELSE x + 1
    <3>1. f(i) \in 1 .. Len(s) /\ f(j) \in 1 .. Len(s) /\ r[i] = s[f(i)] /\ r[j] = s[f(j)]
      BY <2>1, <2>3
    <3>2. f(i) = f(j)
      BY <3>1 DEF Unique
    <3> QED BY <2>1, <3>2
  <2>6. ASSUME NEW i \in 1 .. n
        PROVE  ~Equal(r[i], e) /\ \E j \in 1 .. Len(s) : r[i] = s[j]
    BY <2>1, <2>3
  <2>7. ASSUME NEW j \in 1 .. Len(s), ~Equal(s[j], e)
        PROVE  \E i \in 1 .. n : r[i] = s[j]
    <3>1. j # k
      BY <2>1, <2>7
    <3>2. CASE j < k
      BY <2>1, <3>2
    <3>3. CASE j > k
      <4>1. j - 1 \in 1 .. n /\ ~(j - 1 < k) /\ (j - 1) + 1 = j
        BY <2>1, <3>3
      <4> QED BY <4>1
    <3> QED BY <2>1, <3>1, <3>2, <3>3
  <2> QED BY <2>2, <2>4, <2>5, <2>6, <2>7
<1> QED BY <1>1, <1>2

\* The vector after m_entries.push_back of a prefix that is not in it.
LEMMA AppendedEntries ==
  ASSUME NEW s \in Seq(RtEntries), Unique(s), NEW e \in RtEntries,
         \A i \in 1 .. Len(s) : ~Equal(s[i], e)
  PROVE  Append(s, e) \in Seq(RtEntries) /\ Unique(Append(s, e))
<1>1. /\ Len(Append(s, e)) = Len(s) + 1 /\ Append(s, e)[Len(s) + 1] = e
      /\ \A i \in 1 .. Len(s) : Append(s, e)[i] = s[i]
  OBVIOUS
<1>2. Unique(Append(s, e))
  <2> SUFFICES ASSUME NEW i \in 1 .. (Len(s) + 1), NEW j \in 1 .. (Len(s) + 1),
                      Equal(Append(s, e)[i], Append(s, e)[j])
               PROVE  i = j
    BY <1>1 DEF Unique
  <2>1. CASE i \in 1 .. Len(s) /\ j \in 1 .. Len(s)
    BY <1>1, <2>1 DEF Unique
  <2>2. CASE i = Len(s) + 1 \/ j = Len(s) + 1
    <3>1. i = Len(s) + 1 /\ j \in 1 .. Len(s) => FALSE
      BY <1>1 DEF Equal
    <3>2. j = Len(s) + 1 /\ i \in 1 .. Len(s) => FALSE
      BY <1>1 DEF Equal
    <3> QED BY <2>2, <3>1, <3>2
  <2> QED BY <2>1, <2>2
<1> QED BY <1>2

-----------------------------------------------------------------------------
\* An entry of a vector of distinct prefixes is the one its prefix stands for.
LEMMA EntryIsRoute ==
  ASSUME NEW s \in Seq(RtEntries), Unique(s), NEW i \in 1 .. Len(s)
  PROVE  /\ Prefix(s[i]) \in Prefixes(s)
         /\ RoutesOf(s)[Prefix(s[i])] = s[i].gw
<1> DEFINE k == CHOOSE j \in 1 .. Len(s) : <<s[j].dst, s[j].len>> = Prefix(s[i])
<1>1. Prefix(s[i]) = <<s[i].dst, s[i].len>>
  BY DEF Prefix
<1>2. k \in 1 .. Len(s) /\ <<s[k].dst, s[k].len>> = Prefix(s[i])
  BY <1>1
<1>3. Prefix(s[i]) \in Prefixes(s)
  BY <1>1 DEF Prefixes
<1>4. GatewayOf(s, Prefix(s[i])) = s[k].gw
  BY DEF GatewayOf
<1> HIDE DEF k
<1>5. k = i
  BY <1>1, <1>2 DEF Unique, Equal
<1> QED BY <1>3, <1>4, <1>5 DEF RoutesOf

\* A prefix of the map is that of some entry.
LEMMA RouteIsEntry ==
  ASSUME NEW s, NEW p \in Prefixes(s)
  PROVE  \E i \in 1 .. Len(s) : p = Prefix(s[i])
  BY DEF Prefixes, Prefix

LEMMA EqualPrefixes ==
  ASSUME NEW e, NEW f
  PROVE  Equal(e, f) <=> Prefix(e) = Prefix(f)
  BY DEF Equal, Prefix

\* To erase an entry removes its prefix from the map.
LEMMA ErasedRoute ==
  ASSUME NEW s \in Seq(RtEntries), Unique(s), NEW e \in RtEntries
  PROVE  RoutesOf(Erased(s, e)) = [q \in Prefixes(s) \ {Prefix(e)} |-> RoutesOf(s)[q]]
<1> DEFINE r == Erased(s, e)
<1>1. /\ r \in Seq(RtEntries) /\ Unique(r)
      /\ \A i \in 1 .. Len(r) : ~Equal(r[i], e) /\ \E j \in 1 .. Len(s) : r[i] = s[j]
      /\ \A j \in 1 .. Len(s) : ~Equal(s[j], e) => \E i \in 1 .. Len(r) : r[i] = s[j]
  BY ErasedEntries
<1> HIDE DEF r
<1>2. ASSUME NEW p \in Prefixes(r)
      PROVE  p \in Prefixes(s) \ {Prefix(e)} /\ RoutesOf(r)[p] = RoutesOf(s)[p]
  <2>1. PICK i \in 1 .. Len(r) : p = Prefix(r[i])
    BY <1>2, RouteIsEntry
  <2>2. PICK j \in 1 .. Len(s) : r[i] = s[j]
    BY <1>1
  <2>3. p # Prefix(e)
    BY <1>1, <2>1, EqualPrefixes
  <2>4. p \in Prefixes(s) /\ RoutesOf(s)[p] = s[j].gw
    BY <2>1, <2>2, EntryIsRoute
  <2>5. RoutesOf(r)[p] = r[i].gw
    BY <1>1, <2>1, EntryIsRoute
  <2> QED BY <2>2, <2>3, <2>4, <2>5
<1>3. ASSUME NEW p \in Prefixes(s), p # Prefix(e) PROVE p \in Prefixes(r)
  <2>1. PICK j \in 1 .. Len(s) : p = Prefix(s[j])
    BY <1>3, RouteIsEntry
  <2>2. PICK i \in 1 .. Len(r) : r[i] = s[j]
    BY <1>1, <1>3, <2>1, EqualPrefixes
  <2> QED BY <1>1, <2>1, <2>2, EntryIsRoute
<1>4. Prefixes(r) = Prefixes(s) \ {Prefix(e)}
  BY <1>2, <1>3
<1>5. RoutesOf(r) = [q \in Prefixes(r) |-> RoutesOf(s)[q]]
  BY <1>2 DEF RoutesOf
<1> QED BY <1>4, <1>5 DEF r

\* To append an entry of a new prefix adds that prefix to the map.
LEMMA AppendedRoute ==
  ASSUME NEW s \in Seq(RtEntries), Unique(s), NEW e \in RtEntries,
         Prefix(e) \notin Prefixes(s)
  PROVE  RoutesOf(Append(s, e)) =
           [q \in Prefixes(s) \cup {Prefix(e)} |->
              IF q = Prefix(e) THEN e.gw ELSE RoutesOf(s)[q]]
<1> DEFINE a == Append(s, e)
<1>1. \A i \in 1 .. Len(s) : ~Equal(s[i], e)
  BY EntryIsRoute, EqualPrefixes
<1>2. a \in Seq(RtEntries) /\ Unique(a)
  BY <1>1, AppendedEntries
<1>3. /\ Len(a) = Len(s) + 1 /\ a[Len(s) + 1] = e
      /\ \A i \in 1 .. Len(s) : a[i] = s[i]
  OBVIOUS
<1> HIDE DEF a
<1>4. Prefix(e) \in Prefixes(a) /\ RoutesOf(a)[Prefix(e)] = e.gw
  BY <1>2, <1>3, EntryIsRoute
<1>5. ASSUME NEW p \in Prefixes(s)
      PROVE  p \in Prefixes(a) /\ RoutesOf(a)[p] = RoutesOf(s)[p]
  <2>1. PICK i \in 1 .. Len(s) : p = Prefix(s[i])
    BY <1>5, RouteIsEntry
  <2>2. i \in 1 .. Len(a) /\ a[i] = s[i]
    BY <1>3
  <2> QED BY <1>2, <2>1, <2>2, EntryIsRoute
<1>6. ASSUME NEW p \in Prefixes(a) PROVE p \in Prefixes(s) \cup {Prefix(e)}
  <2>1. PICK i \in 1 .. Len(a) : p = Prefix(a[i])
    BY <1>6, RouteIsEntry
  <2>2. i = Len(s) + 1 \/ i \in 1 .. Len(s)
    BY <1>3
  <2> QED BY <1>3, <2>1, <2>2, EntryIsRoute
<1>7. Prefixes(a) = Prefixes(s) \cup {Prefix(e)}
  BY <1>4, <1>5, <1>6
<1>8. RoutesOf(a) = [q \in Prefixes(a) |-> IF q = Prefix(e) THEN e.gw ELSE RoutesOf(s)[q]]
  BY <1>4, <1>5, <1>6 DEF RoutesOf
<1> QED BY <1>7, <1>8 DEF a

\* AddRoute: the gateway of the prefix is replaced, or the prefix is new.
LEMMA AddedRoute ==
  ASSUME NEW s \in Seq(RtEntries), Unique(s), NEW e \in RtEntries
  PROVE  /\ AddRoute(s, e) \in Seq(RtEntries) /\ Unique(AddRoute(s, e))
         /\ RoutesOf(AddRoute(s, e)) =
              [q \in Prefixes(s) \cup {Prefix(e)} |->
                 IF q = Prefix(e) THEN e.gw ELSE RoutesOf(s)[q]]
<1> DEFINE r == Erased(s, e)
<1>1. r \in Seq(RtEntries) /\ Unique(r) /\ \A i \in 1 .. Len(r) : ~Equal(r[i], e)
  BY ErasedEntries
<1>2. RoutesOf(r) = [q \in Prefixes(s) \ {Prefix(e)} |-> RoutesOf(s)[q]]
  BY ErasedRoute
<1>3. AddRoute(s, e) = Append(r, e)
  BY DEF AddRoute
<1> HIDE DEF r
<1>4. Prefixes(r) = Prefixes(s) \ {Prefix(e)}
  BY <1>2 DEF RoutesOf
<1>5. RoutesOf(Append(r, e)) =
        [q \in Prefixes(r) \cup {Prefix(e)} |-> IF q = Prefix(e) THEN e.gw ELSE RoutesOf(r)[q]]
  BY <1>1, <1>4, AppendedRoute
<1>6. Prefixes(r) \cup {Prefix(e)} = Prefixes(s) \cup {Prefix(e)}
  BY <1>4
<1>7. \A q \in Prefixes(s) \cup {Prefix(e)} : q # Prefix(e) => RoutesOf(r)[q] = RoutesOf(s)[q]
  BY <1>2
<1> QED BY <1>1, <1>3, <1>5, <1>6, <1>7, AppendedEntries

-----------------------------------------------------------------------------
(***************************************************************************)
(* The inductive invariant of the routing table: it has one entry per      *)
(* prefix, and messages wait to be processed only while a send is in       *)
(* progress, so that the next send cannot overtake them.                   *)
(***************************************************************************)
TableInv ==
  /\ m_entries \in Seq(RtEntries)
  /\ Unique(m_entries)
  /\ todo \in Seq(Messages)
  /\ sender = NoSend => todo = << >>

tableVars == <<m_entries, todo, sender>>

LEMMA InitTable == Init => TableInv
<1> SUFFICES ASSUME Init PROVE TableInv
  OBVIOUS
<1>1. m_entries = << >> /\ todo = << >>
  BY DEF Init
<1> QED BY <1>1 DEF TableInv, Unique

\* No handler but a send, no callback and no packet touches the table.
LEMMA TableUntouched ==
  ASSUME NEW t \in Threads,
         \/ HandleSocket(t) \/ HandleClose(t) \/ HandleAddress(t)
         \/ HandleRecvMsgEmpty(t) \/ HandleRecvMsg(t) \/ HandleError(t)
         \/ HandleSelectNow(t) \/ HandleSelectWait(t) \/ SelectEnds(t)
  PROVE  UNCHANGED tableVars
  BY DEF HandleSocket, HandleClose, HandleAddress, HandleRecvMsgEmpty, HandleRecvMsg,
         HandleError, HandleSelectNow, HandleSelectWait, SelectEnds, nlVars, tableVars

\* A send starts when nothing is pending.
LEMMA StepSend ==
  ASSUME TableInv, NEW t \in Threads, HandleSend(t)
  PROVE  TableInv' /\ Table!Submit
<1>1. PICK fd \in FDs, batch \in Batches :
        /\ sender = NoSend /\ todo' = batch /\ m_entries' = m_entries
        /\ sender' = [tid |-> t, fd |-> fd]
  BY DEF HandleSend, Begins, Idle
<1>2. batch \in Seq(Messages) /\ batch # << >>
  BY BatchesAssumption
<1>3. sender' # NoSend
  <2>1. sender'.tid = t /\ NoSend.tid = NoOne
    BY <1>1 DEF NoSend
  <2> QED BY <2>1, NoOneAssumption
<1>4. todo = << >>
  BY <1>1 DEF TableInv
<1>5. TableInv'
  BY <1>1, <1>2, <1>3 DEF TableInv, Unique
<1> QED BY <1>1, <1>2, <1>4, <1>5 DEF Table!Submit

\* The entry a message is about.
LEMMA MessageEntry ==
  ASSUME NEW m \in Messages
  PROVE  /\ Entry(m) \in RtEntries /\ Prefix(Entry(m)) = <<m.dst, m.len>>
         /\ Entry(m).gw = m.gw /\ m.type \in Types
  BY DEF Entry, RtEntries, Prefix, Messages

\* One message of a send is processed.
LEMMA StepNlmsghdr ==
  ASSUME TableInv, ProcessNlmsghdr
  PROVE  TableInv' /\ Table!Apply
<1> DEFINE m == Head(todo)
<1>1. /\ todo # << >> /\ todo' = Tail(todo) /\ sender' = sender
      /\ ProcessDump(m) \/ ProcessRoute(m)
  BY DEF ProcessNlmsghdr
<1>2. m \in Messages /\ todo' \in Seq(Messages) /\ sender' # NoSend
  BY <1>1 DEF TableInv
<1> HIDE DEF m
<1>3. /\ Entry(m) \in RtEntries /\ Prefix(Entry(m)) = <<m.dst, m.len>>
      /\ Entry(m).gw = m.gw
  BY <1>2, MessageEntry
<1>4. DOMAIN RoutesOf(m_entries) = Prefixes(m_entries)
  BY DEF RoutesOf
<1>5. /\ m_entries' \in Seq(RtEntries) /\ Unique(m_entries')
      /\ RoutesOf(m_entries') = Table!Applied(m)
  <2>1. CASE ProcessDump(m)
    <3>1. m.type \in {"getlink", "getaddr"} /\ m_entries' = m_entries
      BY <2>1 DEF ProcessDump
    <3>2. Table!Applied(m) = RoutesOf(m_entries)
      BY <3>1 DEF Table!Applied
    <3> QED BY <3>1, <3>2 DEF TableInv
  <2>2. CASE ProcessRoute(m) /\ m.type = "newroute"
    <3>1. m_entries' = AddRoute(m_entries, Entry(m))
      BY <2>2 DEF ProcessRoute
    <3>2. Table!Applied(m) =
            [q \in Prefixes(m_entries) \cup {Prefix(Entry(m))} |->
               IF q = Prefix(Entry(m)) THEN Entry(m).gw ELSE RoutesOf(m_entries)[q]]
      BY <1>3, <1>4, <2>2 DEF Table!Applied
    <3> QED BY <1>3, <3>1, <3>2, AddedRoute DEF TableInv
  <2>3. CASE ProcessRoute(m) /\ m.type = "delroute"
    <3>1. m_entries' = Erased(m_entries, Entry(m))
      BY <2>3 DEF ProcessRoute, DelRoute
    <3>2. Table!Applied(m) =
            [q \in Prefixes(m_entries) \ {Prefix(Entry(m))} |-> RoutesOf(m_entries)[q]]
      BY <1>3, <1>4, <2>3 DEF Table!Applied
    <3> QED BY <1>3, <3>1, <3>2, ErasedEntries, ErasedRoute DEF TableInv
  <2>4. ProcessRoute(m) => m.type \in {"newroute", "delroute"}
    BY DEF ProcessRoute
  <2> QED BY <1>1, <2>1, <2>2, <2>3, <2>4 DEF m
<1>6. TableInv'
  BY <1>1, <1>2, <1>5 DEF TableInv, Unique
<1>7. Table!Apply
  BY <1>1, <1>5 DEF Table!Apply, m
<1> QED BY <1>6, <1>7

\* Every step keeps the invariant and is a step of the abstract table, or none.
LEMMA NextTable ==
  ASSUME TableInv, [Next]_vars
  PROVE  TableInv' /\ [Table!Submit \/ Table!Apply]_<<RoutesOf(m_entries), todo>>
<1>1. ASSUME UNCHANGED <<m_entries, todo>>, sender' = NoSend => sender = NoSend \/ todo = << >>
      PROVE  TableInv' /\ UNCHANGED <<RoutesOf(m_entries), todo>>
  BY <1>1 DEF TableInv, Unique
<1>2. CASE UNCHANGED vars
  BY <1>1, <1>2 DEF vars, nlVars
<1>3. ASSUME NEW t \in Threads, HandleSyscallBefore(t) \/ SelectEnds(t)
      PROVE  TableInv' /\ [Table!Submit \/ Table!Apply]_<<RoutesOf(m_entries), todo>>
  <2>1. CASE HandleSend(t)
    BY <2>1, StepSend
  <2>2. CASE ~HandleSend(t)
    <3>1. UNCHANGED tableVars
      BY <1>3, <2>2, TableUntouched DEF HandleSyscallBefore
    <3> QED BY <1>1, <3>1 DEF tableVars
  <2> QED BY <2>1, <2>2
<1>4. CASE ProcessNlmsghdr
  BY <1>4, StepNlmsghdr
<1>5. CASE ProcessOther
  BY <1>1, <1>5 DEF ProcessOther, nlVars
<1>6. CASE SendDone
  BY <1>1, <1>6 DEF SendDone
<1>7. ASSUME NEW d \in Addresses, PacketArrives(d)
      PROVE  TableInv' /\ UNCHANGED <<RoutesOf(m_entries), todo>>
  BY <1>1, <1>7 DEF PacketArrives, nlVars
<1> QED BY <1>2, <1>3, <1>4, <1>5, <1>6, <1>7 DEF Next

THEOREM TableInvariant == Spec => []TableInv
<1>1. TableInv /\ [Next]_vars => TableInv'
  BY NextTable
<1> QED BY <1>1, InitTable, PTL DEF Spec

(***************************************************************************)
(* Whatever sends of whatever threads add and delete, m_entries never      *)
(* holds a prefix twice (HgRouting::AddRoute, HgRouting::DelRoute).        *)
(***************************************************************************)
THEOREM PrefixesDistinct == Spec => []OneEntryPerPrefix
<1>1. TableInv => OneEntryPerPrefix
  BY DEF TableInv, Unique, OneEntryPerPrefix
<1> QED BY <1>1, TableInvariant, PTL

(***************************************************************************)
(* The netlink sockets and the vector they change implement the map from   *)
(* prefixes to gateways that RouteTable specifies.                         *)
(***************************************************************************)
THEOREM TableRefined == Spec => ImplementsTable
<1>1. Init => Table!TableInit
  <2> SUFFICES ASSUME Init PROVE Table!TableInit
    OBVIOUS
  <2>1. m_entries = << >> /\ todo = << >>
    BY DEF Init
  <2>2. Prefixes(m_entries) = {}
    BY <2>1 DEF Prefixes
  <2>3. RoutesOf(m_entries) = << >>
    BY <2>2 DEF RoutesOf
  <2> QED BY <2>1, <2>3 DEF Table!TableInit
<1>2. TableInv /\ [Next]_vars => [Table!Submit \/ Table!Apply]_<<RoutesOf(m_entries), todo>>
  BY NextTable
<1> QED BY <1>1, <1>2, TableInvariant, PTL DEF Spec, ImplementsTable, Table!TableSpec
=============================================================================
