----------------------------- MODULE MCDemoData -----------------------------
(***************************************************************************)
(* A scaled generate_instances: main() asks for 20 instances from a list  *)
(* of 10 web, 6 database, 2 search and 2 vpn types, over 6 nodes and 2    *)
(* images, from pools of 2024, 253 and 253 addresses.  Here 4 instances   *)
(* come from a list with the same types in the same order, over 3 nodes   *)
(* (so the round robin wraps), from pools of 4 addresses (a draw of a     *)
(* used address is a stuttering retry, so larger pools add nothing).      *)
(***************************************************************************)
EXTENDS DemoData

CONSTANTS p1, p2, p3, p4, u1, u2, u3, u4, h1, h2, h3, h4

MCInstanceTypes == <<"web", "database", "search", "vpn">>
MCNodeIds == <<"689733b2a7a35eae0dbaea0a", "689733b2a7a35eae0dbaea0b",
               "689733b2a7a35eae0dbaea0c">>
MCImageIds == <<"650a2c36aed15f1f1f5e96e1", "650a2c36aed15f1f1f5e96e2">>
MCPrivPool == {p1, p2, p3, p4}
MCPubPool == {u1, u2, u3, u4}
MCHostPool == {h1, h2, h3, h4}

=============================================================================
