--------------------------- MODULE HgRoutingProofs ---------------------------
(***************************************************************************)
(* The scan of m_entries for a packet, by a loop that keeps the longest    *)
(* match so far, against the bits of the prefixes of the abstract table,   *)
(* for every width of addresses and every vector.  Both the scan and the   *)
(* powers of two are recursive functions; what holds of them is proved by  *)
(* taking the least argument it fails for.                                 *)
(***************************************************************************)
EXTENDS NetlinkProofs, WellFoundedInduction

\* Every set of natural numbers has a least element.
LEMMA LeastNatural ==
  ASSUME NEW S, S \subseteq Nat, S # {}
  PROVE  \E n \in S : \A m \in S : n <= m
<1>1. PICK n \in S : \A m \in S : ~(<<m, n>> \in OpToRel(<, Nat))
  BY NatLessThanWellFounded, WFMin
<1>2. \A m \in S : m \in Nat /\ n \in Nat /\ ~(m < n)
  BY <1>1 DEF OpToRel
<1>3. \A m \in S : n <= m
  BY <1>2
<1> QED BY <1>1, <1>3

\* Hence what holds of 0, and of each number after one it holds of, holds of all:
\* F is the set of those it fails for.
LEMMA NoLeastFailure ==
  ASSUME NEW F, F \subseteq Nat, 0 \notin F,
         \A n \in Nat \ {0} : n - 1 \notin F => n \notin F
  PROVE  F = {}
<1> SUFFICES ASSUME F # {} PROVE FALSE
  OBVIOUS
<1>1. PICK n \in F : \A m \in F : n <= m
  BY LeastNatural
<1>2. n \in Nat \ {0}
  BY <1>1
<1>3. n - 1 \in F
  BY <1>1, <1>2
<1> QED BY <1>1, <1>2, <1>3

-----------------------------------------------------------------------------
(***************************************************************************)
(* The powers of two.                                                      *)
(***************************************************************************)
IsPow2(f, n) == f = [k \in 0 .. n |-> IF k = 0 THEN 1 ELSE 2 * f[k - 1]]

LEMMA Pow2Exists == \A n \in Nat : \E f : IsPow2(f, n)
<1> DEFINE F == {n \in Nat : ~ \E f : IsPow2(f, n)}
<1>1. 0 \notin F
  <2> DEFINE f == [k \in 0 .. 0 |-> 1]
  <2>1. f = [k \in 0 .. 0 |-> IF k = 0 THEN 1 ELSE 2 * f[k - 1]]
    OBVIOUS
  <2> HIDE DEF f
  <2> QED BY <2>1 DEF IsPow2
<1>2. ASSUME NEW n \in Nat \ {0}, n - 1 \notin F PROVE n \notin F
  <2>1. PICK g : IsPow2(g, n - 1)
    BY <1>2
  <2> DEFINE f == [k \in 0 .. n |-> IF k = n THEN 2 * g[n - 1] ELSE g[k]]
             h == [k \in 0 .. n |-> IF k = 0 THEN 1 ELSE 2 * f[k - 1]]
  <2>2. \A k \in 0 .. n : f[k] = h[k]
    <3> TAKE k \in 0 .. n
    <3>1. CASE k = n
      <4>1. f[k] = 2 * g[n - 1] /\ h[k] = 2 * f[n - 1] /\ f[n - 1] = g[n - 1]
        BY <3>1
      <4> QED BY <4>1
    <3>2. CASE k # n
      <4>1. k \in 0 .. (n - 1)
        BY <3>2
      <4>2. g[k] = IF k = 0 THEN 1 ELSE 2 * g[k - 1]
        BY <2>1, <4>1 DEF IsPow2
      <4>3. k # 0 => f[k - 1] = g[k - 1]
        BY <4>1
      <4> QED BY <3>2, <4>2, <4>3
    <3> QED BY <3>1, <3>2
  <2>3. f = h
    BY <2>2
  <2> HIDE DEF f
  <2>4. IsPow2(f, n)
    BY <2>3 DEF IsPow2
  <2> QED BY <2>4
<1> HIDE DEF F
<1>3. F = {}
  BY <1>1, <1>2, NoLeastFailure DEF F
<1> QED BY <1>3 DEF F

LEMMA Pow2Step ==
  /\ Pow2[0] = 1
  /\ \A k \in 1 .. Width : Pow2[k] = 2 * Pow2[k - 1]
<1>1. \E f : IsPow2(f, Width)
  BY Pow2Exists, WidthAssumption
<1>2. IsPow2(Pow2, Width)
  BY <1>1 DEF IsPow2, Pow2
<1> QED BY <1>2, WidthAssumption DEF IsPow2

LEMMA Pow2Positive == \A k \in 0 .. Width : Pow2[k] \in Nat \ {0}
<1> DEFINE F == {n \in Nat : n <= Width /\ Pow2[n] \notin Nat \ {0}}
<1>1. 0 \notin F
  BY Pow2Step
<1>2. ASSUME NEW n \in Nat \ {0}, n - 1 \notin F PROVE n \notin F
  <2> SUFFICES ASSUME n <= Width PROVE Pow2[n] \in Nat \ {0}
    OBVIOUS
  <2>1. n \in 1 .. Width /\ Pow2[n - 1] \in Nat \ {0}
    BY <1>2, WidthAssumption
  <2> QED BY <2>1, Pow2Step
<1> HIDE DEF F
<1>3. F = {}
  BY <1>1, <1>2, NoLeastFailure DEF F
<1> QED BY <1>3, WidthAssumption DEF F

-----------------------------------------------------------------------------
(***************************************************************************)
(* A mask of len bits compares the leading bits.                           *)
(***************************************************************************)
SameBits(len, a, b) == \A k \in (Width - len) .. (Width - 1) : Bit(a, k) = Bit(b, k)

\* One bit more of the mask.
LEMMA OneBitMore ==
  ASSUME NEW a \in Addresses, NEW b \in Addresses, NEW len \in 1 .. Width
  PROVE  IsMatch(len, a, b) <=> IsMatch(len - 1, a, b) /\ Bit(a, Width - len) = Bit(b, Width - len)
<1> DEFINE p == Pow2[Width - len]
           x == a \div p
           y == b \div p
<1>1. Width - len \in 0 .. Width /\ Width - (len - 1) \in 1 .. Width
  BY WidthAssumption
<1>2. p \in Nat \ {0} /\ Pow2[Width - (len - 1)] = 2 * p
  <2>1. (Width - (len - 1)) - 1 = Width - len
    BY WidthAssumption
  <2> QED BY <1>1, <2>1, Pow2Positive, Pow2Step
<1>3. a \in Nat /\ b \in Nat
  BY Pow2Positive, WidthAssumption DEF Addresses
<1> HIDE DEF p
<1>4. x \in Nat /\ y \in Nat
  BY <1>2, <1>3
<1>5. a \div (2 * p) = x \div 2 /\ b \div (2 * p) = y \div 2
  BY <1>2, <1>3
<1> HIDE DEF x, y
<1>6. x = y <=> x \div 2 = y \div 2 /\ x % 2 = y % 2
  BY <1>4
<1>7. IsMatch(len, a, b) <=> x = y
  BY DEF IsMatch, x, y, p
<1>8. IsMatch(len - 1, a, b) <=> x \div 2 = y \div 2
  BY <1>2, <1>5 DEF IsMatch
<1>9. Bit(a, Width - len) = x % 2 /\ Bit(b, Width - len) = y % 2
  BY DEF Bit, x, y, p
<1> QED BY <1>6, <1>7, <1>8, <1>9

LEMMA MaskComparesBits ==
  ASSUME NEW a \in Addresses, NEW b \in Addresses
  PROVE  \A len \in 0 .. Width : IsMatch(len, a, b) <=> SameBits(len, a, b)
<1> DEFINE F == {n \in Nat : n <= Width /\ ~(IsMatch(n, a, b) <=> SameBits(n, a, b))}
<1>1. 0 \notin F
  <2>1. (Width - 0) .. (Width - 1) = {} /\ Width - 0 = Width
    BY WidthAssumption
  <2>2. Pow2[Width] \in Nat \ {0}
    BY Pow2Positive, WidthAssumption
  <2>3. a \div Pow2[Width] = 0 /\ b \div Pow2[Width] = 0
    BY <2>2 DEF Addresses
  <2> QED BY <2>1, <2>3 DEF IsMatch, SameBits
<1>2. ASSUME NEW n \in Nat \ {0}, n - 1 \notin F PROVE n \notin F
  <2> SUFFICES ASSUME n <= Width PROVE IsMatch(n, a, b) <=> SameBits(n, a, b)
    OBVIOUS
  <2>1. n \in 1 .. Width /\ n - 1 \in Nat /\ n - 1 <= Width
    BY WidthAssumption
  <2>2. IsMatch(n - 1, a, b) <=> SameBits(n - 1, a, b)
    BY <1>2, <2>1
  <2>3. (Width - n) .. (Width - 1) = {Width - n} \cup ((Width - (n - 1)) .. (Width - 1))
    BY <2>1, WidthAssumption
  <2>4. SameBits(n, a, b) <=> SameBits(n - 1, a, b) /\ Bit(a, Width - n) = Bit(b, Width - n)
    BY <2>3 DEF SameBits
  <2> QED BY <2>1, <2>2, <2>4, OneBitMore
<1> HIDE DEF F
<1>3. F = {}
  BY <1>1, <1>2, NoLeastFailure DEF F
<1> QED BY <1>3, WidthAssumption DEF F

-----------------------------------------------------------------------------
(***************************************************************************)
(* The scan of m_entries.                                                  *)
(***************************************************************************)
Matches(s, d, i) == IsMatch(s[i].len, s[i].dst, d)

\* One turn of the loop, and the loop as a function of the turns it has made.
Turn(s, d, i, best) ==
  IF Matches(s, d, i) /\ s[i].len > best.len THEN [len |-> s[i].len, gw |-> s[i].gw] ELSE best

IsScan(f, s, d, n) == f = [i \in 0 .. n |-> IF i = 0 THEN NoMatch ELSE Turn(s, d, i, f[i - 1])]

LEMMA ScanExists ==
  ASSUME NEW s, NEW d
  PROVE  \A n \in Nat : \E f : IsScan(f, s, d, n)
<1> DEFINE F == {n \in Nat : ~ \E f : IsScan(f, s, d, n)}
<1>1. 0 \notin F
  <2> DEFINE f == [i \in 0 .. 0 |-> NoMatch]
  <2>1. f = [i \in 0 .. 0 |-> IF i = 0 THEN NoMatch ELSE Turn(s, d, i, f[i - 1])]
    OBVIOUS
  <2> HIDE DEF f
  <2> QED BY <2>1 DEF IsScan
<1>2. ASSUME NEW n \in Nat \ {0}, n - 1 \notin F PROVE n \notin F
  <2>1. PICK g : IsScan(g, s, d, n - 1)
    BY <1>2
  <2> DEFINE f == [i \in 0 .. n |-> IF i = n THEN Turn(s, d, n, g[n - 1]) ELSE g[i]]
             h == [i \in 0 .. n |-> IF i = 0 THEN NoMatch ELSE Turn(s, d, i, f[i - 1])]
  <2>2. \A i \in 0 .. n : f[i] = h[i]
    <3> TAKE i \in 0 .. n
    <3>1. CASE i = n
      <4>1. f[i] = Turn(s, d, i, g[i - 1]) /\ h[i] = Turn(s, d, i, f[i - 1]) /\ f[i - 1] = g[i - 1]
        BY <3>1
      <4> QED BY <4>1
    <3>2. CASE i # n
      <4>1. i \in 0 .. (n - 1)
        BY <3>2
      <4>2. g[i] = IF i = 0 THEN NoMatch ELSE Turn(s, d, i, g[i - 1])
        BY <2>1, <4>1 DEF IsScan
      <4>3. i # 0 => f[i - 1] = g[i - 1]
        BY <4>1
      <4> QED BY <3>2, <4>2, <4>3
    <3> QED BY <3>1, <3>2
  <2>3. f = h
    BY <2>2
  <2> HIDE DEF f
  <2>4. IsScan(f, s, d, n)
    BY <2>3 DEF IsScan
  <2> QED BY <2>4
<1> HIDE DEF F
<1>3. F = {}
  BY <1>1, <1>2, NoLeastFailure DEF F
<1> QED BY <1>3 DEF F

\* best is what the loop ought to have after its first n turns.
BestOf(s, d, n, best) ==
  \/ best = NoMatch /\ \A i \in 1 .. n : ~Matches(s, d, i)
  \/ \E i \in 1 .. n :
       /\ Matches(s, d, i) /\ best = [len |-> s[i].len, gw |-> s[i].gw]
       /\ \A j \in 1 .. n : Matches(s, d, j) => s[j].len <= s[i].len

LEMMA TurnKeepsBest ==
  ASSUME NEW s \in Seq(RtEntries), NEW d, NEW n \in 1 .. Len(s), NEW best,
         BestOf(s, d, n - 1, best)
  PROVE  BestOf(s, d, n, Turn(s, d, n, best))
<1>1. \A i \in 1 .. n : s[i].len \in Nat
  <2> TAKE i \in 1 .. n
  <2>1. s[i] \in RtEntries
    OBVIOUS
  <2> QED BY <2>1, WidthAssumption DEF RtEntries
<1>2. 1 .. n = (1 .. (n - 1)) \cup {n}
  OBVIOUS
<1>3. NoMatch.len = -1
  BY DEF NoMatch
<1>4. CASE best = NoMatch /\ \A i \in 1 .. (n - 1) : ~Matches(s, d, i)
  <2>1. CASE Matches(s, d, n)
    <3>1. s[n].len > best.len
      BY <1>1, <1>3, <1>4
    <3>2. Turn(s, d, n, best) = [len |-> s[n].len, gw |-> s[n].gw]
      BY <2>1, <3>1 DEF Turn
    <3>3. \A j \in 1 .. n : Matches(s, d, j) => s[j].len <= s[n].len
      BY <1>1, <1>2, <1>4
    <3> QED BY <2>1, <3>2, <3>3 DEF BestOf
  <2>2. CASE ~Matches(s, d, n)
    BY <1>2, <1>4, <2>2 DEF Turn, BestOf
  <2> QED BY <2>1, <2>2
<1>5. ASSUME NEW i \in 1 .. (n - 1), Matches(s, d, i), best = [len |-> s[i].len, gw |-> s[i].gw],
             \A j \in 1 .. (n - 1) : Matches(s, d, j) => s[j].len <= s[i].len
      PROVE  BestOf(s, d, n, Turn(s, d, n, best))
  <2>1. best.len = s[i].len /\ i \in 1 .. n
    BY <1>5
  <2>2. CASE Matches(s, d, n) /\ s[n].len > s[i].len
    <3>1. Turn(s, d, n, best) = [len |-> s[n].len, gw |-> s[n].gw]
      BY <2>1, <2>2 DEF Turn
    <3>2. \A j \in 1 .. n : Matches(s, d, j) => s[j].len <= s[n].len
      BY <1>1, <1>2, <1>5, <2>1, <2>2
    <3> QED BY <2>2, <3>1, <3>2 DEF BestOf
  <2>3. CASE ~(Matches(s, d, n) /\ s[n].len > s[i].len)
    <3>1. Turn(s, d, n, best) = best
      BY <2>1, <2>3 DEF Turn
    <3>2. \A j \in 1 .. n : Matches(s, d, j) => s[j].len <= s[i].len
      BY <1>1, <1>2, <1>5, <2>1, <2>3
    <3> QED BY <1>5, <2>1, <3>1, <3>2 DEF BestOf
  <2> QED BY <2>2, <2>3
<1> QED BY <1>4, <1>5 DEF BestOf

LEMMA ScanKeepsBest ==
  ASSUME NEW s \in Seq(RtEntries), NEW d, NEW f, IsScan(f, s, d, Len(s))
  PROVE  BestOf(s, d, Len(s), f[Len(s)])
<1> DEFINE F == {n \in Nat : n <= Len(s) /\ ~BestOf(s, d, n, f[n])}
<1>1. 0 \notin F
  <2>1. f[0] = NoMatch /\ 1 .. 0 = {}
    BY DEF IsScan
  <2> QED BY <2>1 DEF BestOf
<1>2. ASSUME NEW n \in Nat \ {0}, n - 1 \notin F PROVE n \notin F
  <2> SUFFICES ASSUME n <= Len(s) PROVE BestOf(s, d, n, f[n])
    OBVIOUS
  <2>1. n \in 1 .. Len(s) /\ BestOf(s, d, n - 1, f[n - 1])
    BY <1>2
  <2>2. f[n] = Turn(s, d, n, f[n - 1])
    BY <2>1 DEF IsScan
  <2> QED BY <2>1, <2>2, TurnKeepsBest
<1> HIDE DEF F
<1>3. F = {}
  BY <1>1, <1>2, NoLeastFailure DEF F
<1> QED BY <1>3 DEF F

\* What the scan returns: NoMatch, or a longest match.
LEMMA BestIsLongest ==
  ASSUME NEW s \in Seq(RtEntries), NEW d
  PROVE  BestOf(s, d, Len(s), Best(s, d))
<1> DEFINE scan == CHOOSE f : IsScan(f, s, d, Len(s))
<1>1. IsScan(scan, s, d, Len(s))
  BY ScanExists
<1>2. Best(s, d) = scan[Len(s)]
  BY DEF Best, IsScan, Turn, Matches
<1> HIDE DEF scan
<1> QED BY <1>1, <1>2, ScanKeepsBest

-----------------------------------------------------------------------------
\* An entry matches exactly when its prefix covers the destination.
LEMMA MatchCovers ==
  ASSUME TableInv, NEW d \in Addresses, NEW i \in 1 .. Len(m_entries)
  PROVE  /\ Matches(m_entries, d, i) <=> Prefix(m_entries[i]) \in Table!Covering(d)
         /\ RoutesOf(m_entries)[Prefix(m_entries[i])] = m_entries[i].gw
<1> DEFINE e == m_entries[i]
<1>1. e \in RtEntries
  BY DEF TableInv
<1>2. Prefix(e) \in Prefixes(m_entries) /\ RoutesOf(m_entries)[Prefix(e)] = e.gw
  BY EntryIsRoute DEF TableInv
<1>3. Matches(m_entries, d, i) <=> SameBits(e.len, e.dst, d)
  BY <1>1, MaskComparesBits DEF Matches, RtEntries
<1>4. Prefix(e)[1] = e.dst /\ Prefix(e)[2] = e.len
  BY DEF Prefix
<1>5. DOMAIN RoutesOf(m_entries) = Prefixes(m_entries)
  BY DEF RoutesOf
<1> HIDE DEF e
<1>6. \A a \in Addresses, k \in Nat : Table!Bit(a, k) = Bit(a, k)
  BY DEF Bit, Table!Bit, Pow2, Table!Pow2
<1>7. Prefix(e) \in Table!Covering(d) <=>
        \A k \in (Width - e.len) .. (Width - 1) : Table!Bit(e.dst, k) = Table!Bit(d, k)
  BY <1>2, <1>4, <1>5 DEF Table!Covering
<1>8. Prefix(e) \in Table!Covering(d) <=> SameBits(e.len, e.dst, d)
  <2>1. \A k \in (Width - e.len) .. (Width - 1) : k \in Nat
    BY <1>1, WidthAssumption DEF RtEntries
  <2>2. e.dst \in Addresses
    BY <1>1 DEF RtEntries
  <2> QED BY <1>6, <1>7, <2>1, <2>2 DEF SameBits
<1> QED BY <1>2, <1>3, <1>8 DEF e

LEMMA BestIsNextHop ==
  ASSUME TableInv
  PROVE  LongestPrefixMatch
<1> SUFFICES ASSUME NEW d \in Addresses
             PROVE  IF Table!Covering(d) = {} THEN Best(m_entries, d) = NoMatch
                    ELSE /\ Best(m_entries, d).len >= 0
                         /\ Best(m_entries, d).gw \in Table!NextHops(d)
  BY DEF LongestPrefixMatch
<1> DEFINE s == m_entries
           best == Best(s, d)
<1>1. BestOf(s, d, Len(s), best)
  BY BestIsLongest DEF TableInv
<1>2. \A p \in Table!Covering(d) : \E i \in 1 .. Len(s) : p = Prefix(s[i]) /\ Matches(s, d, i)
  <2> TAKE p \in Table!Covering(d)
  <2>1. p \in Prefixes(s)
    BY DEF Table!Covering, RoutesOf
  <2>2. PICK i \in 1 .. Len(s) : p = Prefix(s[i])
    BY <2>1, RouteIsEntry
  <2> QED BY <2>2, MatchCovers
<1>3. \A i \in 1 .. Len(s) : s[i].len \in Nat /\ Prefix(s[i])[2] = s[i].len
  <2> TAKE i \in 1 .. Len(s)
  <2>1. s[i] \in RtEntries
    BY DEF TableInv
  <2> QED BY <2>1, WidthAssumption DEF RtEntries, Prefix
<1> HIDE DEF best
<1>4. CASE best = NoMatch /\ \A i \in 1 .. Len(s) : ~Matches(s, d, i)
  <2>1. Table!Covering(d) = {}
    BY <1>2, <1>4
  <2> QED BY <1>4, <2>1 DEF best
<1>5. ASSUME NEW i \in 1 .. Len(s), Matches(s, d, i),
             best = [len |-> s[i].len, gw |-> s[i].gw],
             \A j \in 1 .. Len(s) : Matches(s, d, j) => s[j].len <= s[i].len
      PROVE  /\ Table!Covering(d) # {}
             /\ best.len >= 0 /\ best.gw \in Table!NextHops(d)
  <2>1. Prefix(s[i]) \in Table!Covering(d) /\ RoutesOf(s)[Prefix(s[i])] = best.gw
    BY <1>5, MatchCovers
  <2>2. \A r \in Table!Covering(d) : r[2] <= Prefix(s[i])[2]
    BY <1>2, <1>3, <1>5
  <2>3. best.gw \in Table!NextHops(d)
    BY <2>1, <2>2 DEF Table!NextHops
  <2> QED BY <1>3, <1>5, <2>1, <2>3
<1> QED BY <1>1, <1>4, <1>5 DEF BestOf, best

(***************************************************************************)
(* Whatever routes are added and deleted over netlink, the one scan that   *)
(* RouteOutput and RouteInput make of the unsorted vector routes a packet  *)
(* as the abstract table does: to the gateway of a longest prefix whose    *)
(* bits lead the destination, or nowhere when there is none.               *)
(***************************************************************************)
THEOREM PacketsRouted == Spec => []LongestPrefixMatch
<1>1. TableInv => LongestPrefixMatch
  BY BestIsNextHop
<1> QED BY <1>1, TableInvariant, PTL
=============================================================================
