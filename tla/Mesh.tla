---------------------------------- MODULE Mesh ----------------------------------
(***************************************************************************)
(* The mesh over restarts of its leader: the nodes' main loop              *)
(* (cmd/node/main.go), the leader's registry with the port and URL of each *)
(* node as HandleRegister and HandleSubmit write it                        *)
(* (internal/leader/handlers.go, internal/leader/registry.go), the address *)
(* a push goes to (internal/leader/peerpush.go) and the port a peer is     *)
(* checked at (internal/node/httpcheck.go).                                *)
(*                                                                         *)
(* The registry lives in memory only: a leader that starts again knows no  *)
(* node, and learns of the running ones from what they submit.             *)
(*                                                                         *)
(* Of a node's results only their presence is kept (NodeSubmit has the     *)
(* buffer), and one push is one step (PeerPush has its parts).             *)
(***************************************************************************)
EXTENDS Integers

CONSTANTS
  Node,               \* the nodes, by their IP
  Extra,              \* those started with NODE_EXTRA_TARGETS
  ListenPort,         \* of each node: the port its listener is on
  DefaultListenPort,  \* of the leader: the port it takes for one not given
  MaxUpdates,         \* bound: updates of the configuration
  MaxFailures,        \* bound: calls and answers the network loses
  MaxRestarts,        \* bound: restarts of the leader
  MaxCrashes          \* bound: restarts of nodes

ASSUME MeshAssumption ==
  /\ Extra \subseteq Node
  /\ ListenPort \in [Node -> Nat \ {0}]
  /\ DefaultListenPort \in Nat \ {0}
  /\ {MaxUpdates, MaxFailures, MaxRestarts, MaxCrashes} \subseteq Nat

VARIABLES
  WithURL,     \* the nodes started with a NODE_URL
  up,          \* the leader's process runs
  registry,    \* of each node: its NodeInfo
  config,      \* the leader's configuration; 0 is the default
  token,       \* tokens in peersCh
  todo,        \* the nodes PushPeersToAll has yet to notify
  at,          \* of each node: where its main goroutine is
  Peers,       \* of each node: the port of each of its peers
  held,        \* the nodes with results to submit, new or buffered
  nodeConfig,  \* of each node: the configuration it runs on
  updates, failures, restarts, crashes

\* History variable: nodes whose last push was lost.
VARIABLE missed

leader == <<up, registry, config, token, todo, missed>>
nodes == <<at, Peers, held, nodeConfig>>
rest == <<WithURL, updates, failures, restarts, crashes>>
vars == <<leader, nodes, rest>>

Unknown == [port |-> 0, url |-> FALSE]
NoPeers == [n \in Node |-> 0]

Registered == {n \in Node : registry[n] /= Unknown}

\* What HandleNodeList answers, and a push carries.
PeerDicts == [n \in Node |-> registry[n].port]

--------------------------------------------------------------------------------
(* The leader *)

\* Mutant: every notification adds a token.
notifyMore == token' = token + 1

notifyPeers == token' = 1

Enter(n, port) == registry' = [registry EXCEPT ![n] = [port |-> port, url |-> n \in WithURL]]

UpdateConfig ==
  /\ up
  /\ updates < MaxUpdates
  /\ updates' = updates + 1
  /\ config' = updates'
  /\ notifyPeers
  /\ UNCHANGED <<up, registry, todo, missed, nodes, WithURL, failures, restarts, crashes>>

\* A node starts: HandleRegister and its answer.
Register(n) ==
  /\ up
  /\ at[n] = "boot"
  /\ Enter(n, ListenPort[n])
  /\ notifyPeers
  /\ Peers' = [Peers EXCEPT ![n] = PeerDicts']
  /\ at' = [at EXCEPT ![n] = "fetch"]
  /\ UNCHANGED <<up, config, todo, missed, held, nodeConfig, rest>>

TakeToken ==
  /\ up
  /\ token = 1 /\ todo = {}
  /\ token' = 0
  /\ todo' = Registered
  /\ UNCHANGED <<up, registry, config, missed, nodes, rest>>

\* PeerNotifyURL is where the node listens: its URL, or the port registered.
Reaches(n) == IF registry[n].url THEN n \in WithURL ELSE registry[n].port = ListenPort[n]

\* notifyNode; the listener applies the payload.
Push(n) ==
  /\ up
  /\ n \in todo
  /\ todo' = todo \ {n}
  /\ IF Reaches(n)
       THEN /\ Peers' = [Peers EXCEPT ![n] = PeerDicts]
            /\ nodeConfig' = [nodeConfig EXCEPT ![n] = config]
            /\ missed' = missed \ {n}
       ELSE UNCHANGED <<Peers, nodeConfig, missed>>
  /\ UNCHANGED <<up, registry, config, token, at, held, rest>>

\* notifyNode meets a node that is down, or the network loses the push.
PushError(n) ==
  /\ up
  /\ n \in todo
  /\ todo' = todo \ {n}
  /\ \/ at[n] = "boot" /\ failures' = failures
     \/ failures < MaxFailures /\ failures' = failures + 1
  /\ missed' = missed \cup {n}
  /\ UNCHANGED <<up, registry, config, token, nodes, WithURL, updates, restarts, crashes>>

\* The process ends, with everything the registry and the configuration held.
LeaderCrash ==
  /\ up
  /\ restarts < MaxRestarts
  /\ restarts' = restarts + 1
  /\ up' = FALSE
  /\ registry' = [n \in Node |-> Unknown]
  /\ config' = 0
  /\ token' = 0
  /\ todo' = {}
  /\ missed' = {}
  /\ UNCHANGED <<nodes, WithURL, updates, failures, crashes>>

NewLeader ==
  /\ ~up
  /\ up' = TRUE
  /\ UNCHANGED <<registry, config, token, todo, missed, nodes, rest>>

--------------------------------------------------------------------------------
(* The nodes' main loop *)

\* The answer of a leader that knows no node is an empty list, not nil: it
\* replaces the peers.
FetchPeers(n) ==
  /\ up
  /\ at[n] = "fetch"
  /\ Peers' = [Peers EXCEPT ![n] = PeerDicts]
  /\ at' = [at EXCEPT ![n] = "check"]
  /\ UNCHANGED <<leader, held, nodeConfig, rest>>

\* No answer: the node goes on with the peers it has.
FetchError(n) ==
  /\ at[n] = "fetch"
  /\ \/ ~up /\ failures' = failures
     \/ failures < MaxFailures /\ failures' = failures + 1
  /\ at' = [at EXCEPT ![n] = "check"]
  /\ UNCHANGED <<leader, Peers, held, nodeConfig, WithURL, updates, restarts, crashes>>

\* Mutant: a node without peers does not look at its extra targets.
RunCheckCyclePeers(n) ==
  /\ at[n] = "check"
  /\ held' = IF Peers[n] /= NoPeers THEN held \cup {n} ELSE held
  /\ at' = [at EXCEPT ![n] = "submit"]
  /\ UNCHANGED <<leader, Peers, nodeConfig, rest>>

\* RunCheckCycle has results if there is anything to check.
RunCheckCycle(n) ==
  /\ at[n] = "check"
  /\ held' = IF Peers[n] /= NoPeers \/ n \in Extra THEN held \cup {n} ELSE held
  /\ at' = [at EXCEPT ![n] = "submit"]
  /\ UNCHANGED <<leader, Peers, nodeConfig, rest>>

\* Mutant: a node registered by its submit is not told to the others.
HandleSubmitQuietly(n) ==
  /\ up
  /\ at[n] = "submit" /\ n \in held
  /\ IF n \in WithURL THEN Enter(n, DefaultListenPort) ELSE registry' = registry
  /\ \/ held' = held \ {n} /\ failures' = failures
     \/ held' = held /\ failures < MaxFailures /\ failures' = failures + 1
  /\ at' = [at EXCEPT ![n] = "fetch"]
  /\ UNCHANGED <<up, config, token, todo, missed, Peers, nodeConfig, WithURL, updates, restarts, crashes>>

\* HandleSubmit accepts the results; a node that gives its URL is registered,
\* anew if it was, with the leader's default port.  The answer may be lost.
HandleSubmit(n) ==
  /\ up
  /\ at[n] = "submit" /\ n \in held
  /\ IF n \in WithURL
       THEN /\ Enter(n, DefaultListenPort)
            /\ IF n \in Registered THEN token' = token ELSE notifyPeers
       ELSE UNCHANGED <<registry, token>>
  /\ \/ held' = held \ {n} /\ failures' = failures
     \/ held' = held /\ failures < MaxFailures /\ failures' = failures + 1
  /\ at' = [at EXCEPT ![n] = "fetch"]
  /\ UNCHANGED <<up, config, todo, missed, Peers, nodeConfig, WithURL, updates, restarts, crashes>>

\* Without results the leader answers 400 before it looks at the URL; without a
\* leader the results are buffered.
SubmitError(n) ==
  /\ at[n] = "submit"
  /\ n \notin held \/ ~up
  /\ at' = [at EXCEPT ![n] = "fetch"]
  /\ UNCHANGED <<leader, Peers, held, nodeConfig, rest>>

\* A node ends, and is started again.
Crash(n) ==
  /\ at[n] /= "boot"
  /\ crashes < MaxCrashes
  /\ crashes' = crashes + 1
  /\ at' = [at EXCEPT ![n] = "boot"]
  /\ Peers' = [Peers EXCEPT ![n] = NoPeers]
  /\ held' = held \ {n}
  /\ nodeConfig' = [nodeConfig EXCEPT ![n] = 0]
  /\ UNCHANGED <<leader, WithURL, updates, failures, restarts>>

--------------------------------------------------------------------------------
Init ==
  /\ WithURL \in SUBSET Node
  /\ up = TRUE
  /\ registry = [n \in Node |-> Unknown]
  /\ config = 0
  /\ token = 0
  /\ todo = {}
  /\ at = [n \in Node |-> "boot"]
  /\ Peers = [n \in Node |-> NoPeers]
  /\ held = {}
  /\ nodeConfig = [n \in Node |-> 0]
  /\ updates = 0 /\ failures = 0 /\ restarts = 0 /\ crashes = 0
  /\ missed = {}

Pusher == TakeToken \/ \E n \in Node : Push(n) \/ PushError(n)

Loop(n) ==
  \/ Register(n)
  \/ FetchPeers(n) \/ FetchError(n)
  \/ RunCheckCycle(n)
  \/ HandleSubmit(n) \/ SubmitError(n)

Next ==
  \/ UpdateConfig
  \/ Pusher
  \/ LeaderCrash \/ NewLeader
  \/ \E n \in Node : Loop(n) \/ Crash(n)

Spec == Init /\ [][Next]_vars

\* Every loop runs on, and the leader and the nodes are started again.
Fairness ==
  /\ WF_vars(Pusher)
  /\ WF_vars(NewLeader)
  /\ \A n \in Node : WF_vars(Loop(n))

FairSpec == Spec /\ Fairness

--------------------------------------------------------------------------------
(* Properties *)

Port == {ListenPort[n] : n \in Node} \cup {DefaultListenPort}

\* Every variable stays in its range; only registered nodes are notified.
TypeOK ==
  /\ WithURL \subseteq Node
  /\ up \in BOOLEAN
  /\ registry \in [Node -> [port : Port, url : BOOLEAN] \cup {Unknown}]
  /\ config \in 0..MaxUpdates /\ updates \in 0..MaxUpdates
  /\ token \in 0..1
  /\ todo \subseteq Registered
  /\ at \in [Node -> {"boot", "fetch", "check", "submit"}]
  /\ Peers \in [Node -> [Node -> Port \cup {0}]]
  /\ held \subseteq Node
  /\ nodeConfig \in [Node -> 0..MaxUpdates]
  /\ failures \in 0..MaxFailures /\ restarts \in 0..MaxRestarts /\ crashes \in 0..MaxCrashes
  /\ missed \subseteq Node

\* Over restarts of the leader and of nodes, and whichever of HandleRegister and
\* HandleSubmit wrote a node's entry last: when there is nothing left to push,
\* every running node the leader knows, and whose last push the network did not
\* lose, runs on the leader's configuration.  The entry a submit writes must
\* lead to the node's listener, and the first one must be followed by a push.
RegisteredInSync ==
  token = 0 /\ todo = {} =>
    \A n \in Registered \ missed : at[n] = "boot" \/ nodeConfig[n] = config

\* Its inductive strengthening.
AddressRight == \A n \in Registered : Reaches(n)

ChangeIsOwed ==
  token = 0 =>
    \A n \in Registered \ (missed \cup todo) : at[n] = "boot" \/ nodeConfig[n] = config

MeshInv == TypeOK /\ AddressRight /\ ChangeIsOwed

\* A leader that restarts has forgotten every node, a node without peers has
\* nothing to submit, and a node that submits nothing stays forgotten.  One node
\* with a URL and extra targets gets the mesh out of this: in the end all nodes
\* with a URL are registered and every node has the leader's list.
MeshRecovers ==
  WithURL \cap Extra /= {} =>
    <>[](/\ WithURL \subseteq Registered
         /\ \A n \in Node : Peers[n] = PeerDicts)

================================================================================
