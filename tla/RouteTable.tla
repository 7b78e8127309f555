----------------------------- MODULE RouteTable -----------------------------
(***************************************************************************)
(* What the routing table of a node promises to the application that       *)
(* configures it over netlink: a map from prefixes to gateways.  The       *)
(* requests of one send are applied one by one, in order, each once; to    *)
(* add a prefix that is in the map replaces its gateway, and to delete one *)
(* removes it through whatever gateway it went.                            *)
(***************************************************************************)
EXTENDS AddressBits, Sequences

VARIABLES
  routes,    \* routes[p]: the gateway of prefix p = <<destination, length>>
  pending    \* requests the application has sent that are not applied yet

Applied(m) ==
  LET p == <<m.dst, m.len>> IN
  CASE m.type = "newroute" ->
         [q \in DOMAIN routes \cup {p} |-> IF q = p THEN m.gw ELSE routes[q]]
    [] m.type = "delroute" ->
         [q \in DOMAIN routes \ {p} |-> routes[q]]
    [] OTHER -> routes

TableInit == routes = << >> /\ pending = << >>

Submit ==
  /\ pending = << >>
  /\ pending' # << >>
  /\ UNCHANGED routes

Apply ==
  /\ pending # << >>
  /\ routes' = Applied(Head(pending))
  /\ pending' = Tail(pending)

TableSpec == TableInit /\ [][Submit \/ Apply]_<<routes, pending>>

-----------------------------------------------------------------------------
\* The prefixes of the map that contain address d: the leading bits agree.
Covering(d) ==
  {p \in DOMAIN routes :
     \A k \in (Width - p[2]) .. (Width - 1) : Bit(p[1], k) = Bit(d, k)}

\* The gateways a packet for d may take: those of the longest such prefixes.
NextHops(d) ==
  {routes[p] : p \in {q \in Covering(d) : \A r \in Covering(d) : r[2] <= q[2]}}
=============================================================================
