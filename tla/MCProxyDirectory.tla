-------------------------- MODULE MCProxyDirectory --------------------------
(* A small directory: two proxies, and configurations that keep, reorder   *)
(* or drop nodes and change the clearance mode.                            *)
EXTENDS ProxyDirectory

CONSTANTS r1, r2, n1, n2

Pool(nodes, resources, clearance) ==
    [egress |-> "proxy_pool", clearance |-> clearance,
     nodes |-> nodes, resources |-> resources]

(* Two proxies; one of them, with the other for media downloads, and the   *)
(* operator's cookies; no proxy and no clearance.                          *)
MCConfig ==
    {Pool(<<n1, n2>>, <<>>, "flaresolverr"),
     [egress |-> "single_proxy", clearance |-> "manual",
      nodes |-> <<n1>>, resources |-> <<n2>>],
     [egress |-> "direct", clearance |-> "none",
      nodes |-> <<>>, resources |-> <<>>]}

MCOnePool == {Pool(<<n1, n2>>, <<>>, "flaresolverr")}
=============================================================================
