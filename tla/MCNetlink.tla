------------------------------ MODULE MCNetlink ------------------------------
(***************************************************************************)
(* Small instances of Netlink: addresses of two bits, a node with two      *)
(* interface addresses, and the messages its application sends.            *)
(***************************************************************************)
EXTENDS Netlink

Msg(type, dst, len, gw) == [type |-> type, dst |-> dst, len |-> len, gw |-> gw]

\* 0/1 and 2/2: gateways 1 and 2 are on a link, gateway 3 is on none.
MCInterfaces == <<[local |-> 0, len |-> 1], [local |-> 2, len |-> 2]>>

GetLink == Msg("getlink", 0, 0, 0)
GetAddr == Msg("getaddr", 0, 0, 0)
Other   == Msg("other", 0, 0, 0)

\* A default route, and two prefixes of the same network.
MCRoutes == {<<0, 0, 1>>, <<2, 1, 1>>, <<2, 1, 3>>}

MCBatches ==
  {<<GetLink>>, <<GetAddr, Msg("delroute", 2, 1, 2)>>, <<Other>>}
    \cup {<<Msg("newroute", p[1], p[2], p[3])>> : p \in MCRoutes}
    \cup {<<Msg("newroute", 3, 1, 2), GetLink>>,
          <<Msg("delroute", 0, 0, 1), Msg("newroute", 2, 1, 1)>>}
=============================================================================
