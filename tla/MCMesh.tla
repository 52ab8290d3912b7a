--------------------------------- MODULE MCMesh ---------------------------------
(* Mesh as TLC checks it, and read against the documents. *)
EXTENDS Mesh

\* The default of cmd/node, which is not the leader's.
NodeDefaultPort == [n \in Node |-> 58081]

\* CheckHTTP: somebody answers at this address.
CheckHTTP(n, port) == at[n] /= "boot" /\ port = ListenPort[n]

\* README.md:96, "Node HTTP: from NODE_URL (default 58081)": a node that runs
\* answers the HTTP checks of its peers.
RunningAnswers ==
  \A n \in Node : \A p \in Node :
    Peers[n][p] /= 0 /\ at[p] /= "boot" => CheckHTTP(p, Peers[n][p])

================================================================================
