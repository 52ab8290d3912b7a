------------------------------- MODULE MCPeerPush -------------------------------
(* PeerPush as TLC checks it: the symmetry of the safety runs.             *)
EXTENDS PeerPush, TLC

Symmetry == Permutations(Node) \cup Permutations(Client)

================================================================================
