------------------------------ MODULE HgRouting ------------------------------
(***************************************************************************)
(* The routing protocol of a node that runs a traced routing daemon        *)
(* (model/route.cc, model/route.h).  The table is the vector m_entries in  *)
(* the order the routes were added; a packet is routed by one scan of it   *)
(* and one scan of the addresses of the node.  The operators work on the   *)
(* vector s, so that the netlink socket applies them to m_entries.         *)
(***************************************************************************)
EXTENDS AddressBits, Sequences

CONSTANT Interfaces    \* the addresses of the node, [local, len], in the order of the scan

VARIABLE m_entries   \* the routes, a sequence of [dst, len, gw]

\* Ipv4Mask("/len").IsMatch(a, b)
IsMatch(len, a, b) == a \div Pow2[Width - len] = b \div Pow2[Width - len]

-----------------------------------------------------------------------------
\* operator== of RtEntry: the gateway takes no part.
Equal(e, f) == e.dst = f.dst /\ e.len = f.len

\* Mutant: the gateway takes part in the comparison.
MutFoundWithGateway(s, e) == {i \in 1 .. Len(s) : s[i] = e}

\* The positions std::find may stop at; it stops at the first.
Found(s, e) == {i \in 1 .. Len(s) : Equal(s[i], e)}

First(S) == CHOOSE i \in S : \A j \in S : i <= j

\* m_entries.erase(it), when find has found an entry.
Erased(s, e) ==
  IF Found(s, e) = {} THEN s
  ELSE [j \in 1 .. (Len(s) - 1) |-> IF j < First(Found(s, e)) THEN s[j] ELSE s[j + 1]]

\* Mutant: the entry that compares equal is not erased.
MutAddRouteKeepsOld(s, e) == Append(s, e)

AddRoute(s, e) == Append(Erased(s, e), e)
DelRoute(s, e) == Erased(s, e)

-----------------------------------------------------------------------------
NoMatch == [len |-> -1, gw |-> 0]

\* Mutant: the length of the best match so far is not compared.
MutLastMatch(s, d) ==
  LET scan[i \in 0 .. Len(s)] ==
        IF i = 0 THEN NoMatch
        ELSE IF IsMatch(s[i].len, s[i].dst, d)
             THEN [len |-> s[i].len, gw |-> s[i].gw]
             ELSE scan[i - 1]
  IN scan[Len(s)]

\* bestLen and finalRt.gw after the scan of m_entries for destination d.
Best(s, d) ==
  LET scan[i \in 0 .. Len(s)] ==
        IF i = 0 THEN NoMatch
        ELSE IF IsMatch(s[i].len, s[i].dst, d) /\ s[i].len > scan[i - 1].len
             THEN [len |-> s[i].len, gw |-> s[i].gw]
             ELSE scan[i - 1]
  IN scan[Len(s)]

\* The interface addresses whose network holds gateway g; the first is used.
InterfacesFor(g) ==
  {k \in DOMAIN Interfaces : IsMatch(Interfaces[k].len, Interfaces[k].local, g)}

NoRoute == [gw |-> -1, source |-> -1]

\* The route found for a packet to d, used by RouteOutput and RouteInput.
RouteOutput(s, d) ==
  IF Best(s, d).len >= 0 /\ InterfacesFor(Best(s, d).gw) # {}
  THEN [gw |-> Best(s, d).gw,
        source |-> Interfaces[First(InterfacesFor(Best(s, d).gw))].local]
  ELSE NoRoute

\* What becomes of a packet to d that has arrived, when lcb is set or null.
RouteInput(s, d, lcb) ==
  IF \E k \in DOMAIN Interfaces : Interfaces[k].local = d
  THEN IF lcb THEN "delivered" ELSE "refused"
  ELSE IF RouteOutput(s, d) # NoRoute THEN "forwarded"
  ELSE IF Best(s, d).len >= 0 THEN "assertion"   \* "inconsistent RtEntry"
  ELSE "refused"

-----------------------------------------------------------------------------
\* The map the vector stands for.
Prefixes(s) == {<<s[i].dst, s[i].len>> : i \in 1 .. Len(s)}
GatewayOf(s, p) ==
  s[CHOOSE i \in 1 .. Len(s) : <<s[i].dst, s[i].len>> = p].gw
RoutesOf(s) == [p \in Prefixes(s) |-> GatewayOf(s, p)]

(***************************************************************************)
(* A prefix has one entry, so that deleting it once removes the route and  *)
(* a stale gateway never comes back (AddRoute erases before it appends).   *)
(***************************************************************************)
OneEntryPerPrefix ==
  \A i, j \in 1 .. Len(m_entries) :
    Equal(m_entries[i], m_entries[j]) => i = j
=============================================================================
