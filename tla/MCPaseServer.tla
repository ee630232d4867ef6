---------------------------- MODULE MCPaseServer ----------------------------
(* Instances of PaseServer for TLC.                                        *)
EXTENDS PaseServer, TLC

Symmetric == Permutations(Peer)
=============================================================================
