-------------------------------- MODULE PeerPush --------------------------------
(***************************************************************************)
(* How peers and configuration reach the nodes: the leader's HandleRegister*)
(* and HandleUpdateConfig with notifyPeers (internal/leader/handlers.go),  *)
(* the push goroutine ListenForPeerPush (internal/leader/peerpush.go), the *)
(* nodes' /update-peers listener and their Register and FetchPeers calls   *)
(* (internal/node/listener.go, internal/node/node.go).                     *)
(*                                                                         *)
(* Each critical section and each channel operation is one action.  A      *)
(* configuration value is its version: every accepted update writes the    *)
(* next one.                                                               *)
(***************************************************************************)
EXTENDS Integers, FiniteSets

CONSTANTS
  Node,         \* the nodes, by their IP
  Client,       \* the clients of POST /updateConfig
  Sizes,        \* the buffer_size of a request: absent, valid, or below 1
  MaxUpdates,   \* bound: versions of each configuration value
  MaxFailures,  \* bound: pushes that fail or time out
  MaxRestarts   \* bound: restarts of nodes

ASSUME PushAssumption ==
  /\ Sizes \subseteq {"none", "good", "bad"}
  /\ {MaxUpdates, MaxFailures, MaxRestarts} \subseteq Nat

VARIABLES
  registry,       \* Registry.nodes: the nodes registered
  CheckInterval,  \* Leader.CheckInterval
  BufferSize,     \* Leader.BufferSize
  peersCh,        \* tokens in the channel of capacity 1
  handler,        \* of each client: where its HandleUpdateConfig is
  registering,    \* nodes whose HandleRegister has yet to call notifyPeers
  pusher,         \* where ListenForPeerPush is
  todo,           \* the nodes its PushPeersToAll has yet to notify
  push,           \* the payload notifyNode is assembling
  inflight,       \* the payloads posted and not yet fully applied
  at,             \* of each node: where its main goroutine is
  reply,          \* of each node: the peers in the answer it waits for
  Peers,          \* of each node: Node.Peers
  nodeInterval,   \* of each node: Node.CheckInterval
  nodeSize,       \* of each node: Node.BufferSize
  failures,       \* pushes that have failed
  restarts        \* restarts there have been

\* History variable: nodes whose last push failed or was overtaken.
VARIABLE missed

config == <<CheckInterval, BufferSize>>
leader == <<registry, config, handler, registering>>
pushing == <<pusher, todo, push>>
nodes == <<at, reply, Peers, nodeInterval, nodeSize>>
vars == <<leader, peersCh, pushing, inflight, nodes, failures, restarts, missed>>

\* The clients whose request has yet to write BufferSize.
Sizing == {c \in Client : handler[c] = "size"}

NoPush == [to |-> "none", peers |-> {}, interval |-> 0, size |-> 0]

--------------------------------------------------------------------------------
(* The leader's handlers *)

\* Mutant: every notification adds a token.
notifyMore == peersCh' = peersCh + 1

\* A send that does not block: the token is there or is put there.
notifyPeers == peersCh' = 1

\* HandleRegister: Registry.Register; its result is the answer.
Register(n) ==
  /\ at[n] = "boot"
  /\ registry' = registry \cup {n}
  /\ reply' = [reply EXCEPT ![n] = registry']
  /\ registering' = registering \cup {n}
  /\ at' = [at EXCEPT ![n] = "registering"]
  /\ UNCHANGED <<config, handler, peersCh, pushing, inflight, Peers, nodeInterval, nodeSize,
                 failures, restarts, missed>>

RegisterNotify(n) ==
  /\ n \in registering
  /\ notifyPeers
  /\ registering' = registering \ {n}
  /\ UNCHANGED <<registry, config, handler, pushing, inflight, nodes, failures, restarts, missed>>

\* HandleUpdateConfig writes check_interval if the request has one, and only
\* then looks at buffer_size; one below 1 ends it there, with an error.
UpdateInterval(c, given, size) ==
  /\ handler[c] = "idle"
  /\ given \/ size /= "none"
  /\ given => CheckInterval < MaxUpdates
  /\ size = "good" => BufferSize + Cardinality(Sizing) < MaxUpdates
  /\ CheckInterval' = IF given THEN CheckInterval + 1 ELSE CheckInterval
  /\ handler' = [handler EXCEPT ![c] = CASE size = "none" -> "notify"
                                         [] size = "good" -> "size"
                                         [] size = "bad"  -> "idle"]
  /\ UNCHANGED <<registry, BufferSize, registering, peersCh, pushing, inflight, nodes,
                 failures, restarts, missed>>

UpdateSize(c) ==
  /\ handler[c] = "size"
  /\ BufferSize' = BufferSize + 1
  /\ handler' = [handler EXCEPT ![c] = "notify"]
  /\ UNCHANGED <<registry, CheckInterval, registering, peersCh, pushing, inflight, nodes,
                 failures, restarts, missed>>

\* Mutant: no token while a round of pushes is going on.
UpdateNotifyIdle(c) ==
  /\ handler[c] = "notify"
  /\ peersCh' = IF pusher = "wait" THEN 1 ELSE peersCh
  /\ handler' = [handler EXCEPT ![c] = "idle"]
  /\ UNCHANGED <<registry, config, registering, pushing, inflight, nodes, failures, restarts,
                 missed>>

UpdateNotify(c) ==
  /\ handler[c] = "notify"
  /\ notifyPeers
  /\ handler' = [handler EXCEPT ![c] = "idle"]
  /\ UNCHANGED <<registry, config, registering, pushing, inflight, nodes, failures, restarts,
                 missed>>

--------------------------------------------------------------------------------
(* The push goroutine *)

ReceiveToken ==
  /\ pusher = "wait"
  /\ peersCh = 1
  /\ peersCh' = 0
  /\ pusher' = "list"
  /\ UNCHANGED <<leader, todo, push, inflight, nodes, failures, restarts, missed>>

\* PushPeersToAll: AllIPs.
ListIPs ==
  /\ pusher = "list"
  /\ todo' = registry
  /\ pusher' = "next"
  /\ UNCHANGED <<leader, peersCh, push, inflight, nodes, failures, restarts, missed>>

\* notifyNode reads the peers, the interval and the size one after the other.
ReadPeers(n) ==
  /\ pusher = "next"
  /\ n \in todo
  /\ todo' = todo \ {n}
  /\ push' = [NoPush EXCEPT !.to = n, !.peers = registry]
  /\ pusher' = "interval"
  /\ UNCHANGED <<leader, peersCh, inflight, nodes, failures, restarts, missed>>

ReadInterval ==
  /\ pusher = "interval"
  /\ push' = [push EXCEPT !.interval = CheckInterval]
  /\ pusher' = "size"
  /\ UNCHANGED <<leader, peersCh, todo, inflight, nodes, failures, restarts, missed>>

\* Mutant: the POST has a goroutine of its own.
PostAsync ==
  /\ pusher = "size"
  /\ push' = [push EXCEPT !.size = BufferSize]
  /\ inflight' = inflight \cup {[push |-> push', stage |-> "peers", awaited |-> TRUE]}
  /\ pusher' = "next"
  /\ UNCHANGED <<leader, peersCh, todo, nodes, failures, restarts, missed>>

\* The last read, and the POST.
Post ==
  /\ pusher = "size"
  /\ push' = [push EXCEPT !.size = BufferSize]
  /\ inflight' = inflight \cup {[push |-> push', stage |-> "peers", awaited |-> TRUE]}
  /\ pusher' = "posted"
  /\ UNCHANGED <<leader, peersCh, todo, nodes, failures, restarts, missed>>

Awaited == {m \in inflight : m.awaited}

\* No connection, an error, or the 5 second time-out: logged, not retried.  The
\* node may apply a push that has timed out later.
PostError ==
  /\ pusher = "posted"
  /\ \/ Awaited = {} /\ failures' = failures
     \/ failures < MaxFailures /\ failures' = failures + 1
  /\ \/ /\ \A m \in Awaited : m.stage = "peers"
        /\ inflight' = inflight \ Awaited
     \/ /\ Awaited /= {}
        /\ inflight' = (inflight \ Awaited) \cup {[m EXCEPT !.awaited = FALSE] : m \in Awaited}
  /\ missed' = missed \cup {push.to}
  /\ pusher' = "next"
  /\ UNCHANGED <<leader, peersCh, todo, push, nodes, restarts>>

\* Mutant: the channel is drained after a round.
PushedAndDrained ==
  /\ pusher = "next"
  /\ todo = {}
  /\ pusher' = "wait"
  /\ peersCh' = 0
  /\ UNCHANGED <<leader, todo, push, inflight, nodes, failures, restarts, missed>>

PushedToAll ==
  /\ pusher = "next"
  /\ todo = {}
  /\ pusher' = "wait"
  /\ UNCHANGED <<leader, peersCh, todo, push, inflight, nodes, failures, restarts, missed>>

--------------------------------------------------------------------------------
(* The nodes *)

\* The listener: UpdatePeers, then UpdateConfig, then the answer.
ApplyPeers(m) ==
  /\ m.stage = "peers"
  /\ Peers' = [Peers EXCEPT ![m.push.to] = m.push.peers]
  /\ inflight' = (inflight \ {m}) \cup {[m EXCEPT !.stage = "config"]}
  /\ UNCHANGED <<leader, peersCh, pushing, at, reply, nodeInterval, nodeSize, failures,
                 restarts, missed>>

ApplyConfig(m) ==
  /\ m.stage = "config"
  /\ nodeInterval' = [nodeInterval EXCEPT ![m.push.to] = m.push.interval]
  /\ nodeSize' = [nodeSize EXCEPT ![m.push.to] = m.push.size]
  /\ inflight' = inflight \ {m}
  /\ IF m.awaited
       THEN /\ pusher' = "next"
            /\ missed' = missed \ {m.push.to}
       ELSE /\ pusher' = pusher
            /\ missed' = missed \cup {m.push.to}
  /\ UNCHANGED <<leader, peersCh, todo, push, at, reply, Peers, failures, restarts>>

\* The answer to Register, or to FetchPeers in every cycle.
ReplyArrives(n) ==
  /\ \/ at[n] = "registering" /\ n \notin registering
     \/ at[n] = "fetching"
  /\ Peers' = [Peers EXCEPT ![n] = reply[n]]
  /\ at' = [at EXCEPT ![n] = "loop"]
  /\ UNCHANGED <<leader, peersCh, pushing, inflight, reply, nodeInterval, nodeSize, failures,
                 restarts, missed>>

\* Mutant: a node that has peers keeps them.
FetchPeersOnce(n) ==
  /\ at[n] = "loop"
  /\ reply' = [reply EXCEPT ![n] = IF Peers[n] = {} THEN registry ELSE Peers[n]]
  /\ at' = [at EXCEPT ![n] = "fetching"]
  /\ UNCHANGED <<leader, peersCh, pushing, inflight, Peers, nodeInterval, nodeSize, failures,
                 restarts, missed>>

\* HandleNodeList takes its snapshot.
FetchPeers(n) ==
  /\ at[n] = "loop"
  /\ reply' = [reply EXCEPT ![n] = registry]
  /\ at' = [at EXCEPT ![n] = "fetching"]
  /\ UNCHANGED <<leader, peersCh, pushing, inflight, Peers, nodeInterval, nodeSize, failures,
                 restarts, missed>>

\* The node goes on without an answer.
FetchError(n) ==
  /\ at[n] = "fetching"
  /\ at' = [at EXCEPT ![n] = "loop"]
  /\ UNCHANGED <<leader, peersCh, pushing, inflight, reply, Peers, nodeInterval, nodeSize,
                 failures, restarts, missed>>

\* A node starts over with the defaults, after a crash or because its Register
\* failed; pushes it was applying die with it.
Restart(n) ==
  /\ at[n] /= "boot"
  /\ n \notin registering
  /\ restarts < MaxRestarts
  /\ restarts' = restarts + 1
  /\ at' = [at EXCEPT ![n] = "boot"]
  /\ Peers' = [Peers EXCEPT ![n] = {}]
  /\ nodeInterval' = [nodeInterval EXCEPT ![n] = 0]
  /\ nodeSize' = [nodeSize EXCEPT ![n] = 0]
  /\ inflight' = {m \in inflight : m.push.to /= n}
  /\ UNCHANGED <<leader, peersCh, pushing, reply, failures, missed>>

--------------------------------------------------------------------------------
Init ==
  /\ registry = {}
  /\ CheckInterval = 0
  /\ BufferSize = 0
  /\ peersCh = 0
  /\ handler = [c \in Client |-> "idle"]
  /\ registering = {}
  /\ pusher = "wait"
  /\ todo = {}
  /\ push = NoPush
  /\ inflight = {}
  /\ at = [n \in Node |-> "boot"]
  /\ reply = [n \in Node |-> {}]
  /\ Peers = [n \in Node |-> {}]
  /\ nodeInterval = [n \in Node |-> 0]
  /\ nodeSize = [n \in Node |-> 0]
  /\ failures = 0
  /\ restarts = 0
  /\ missed = {}

UpdateConfig(c) ==
  \/ \E given \in BOOLEAN, size \in Sizes : UpdateInterval(c, given, size)
  \/ UpdateSize(c)
  \/ UpdateNotify(c)

Pusher ==
  \/ ReceiveToken
  \/ ListIPs
  \/ \E n \in Node : ReadPeers(n)
  \/ ReadInterval
  \/ Post
  \/ PostError
  \/ PushedToAll

Listener == \E m \in inflight : ApplyPeers(m) \/ ApplyConfig(m)

Loop(n) == Register(n) \/ RegisterNotify(n) \/ ReplyArrives(n) \/ FetchPeers(n) \/ FetchError(n)

Next ==
  \/ \E c \in Client : UpdateConfig(c)
  \/ Pusher
  \/ Listener
  \/ \E n \in Node : Loop(n) \/ Restart(n)

Spec == Init /\ [][Next]_vars

\* Every goroutine runs on; a push is applied or fails; a node that asks for
\* the node list again and again is answered again and again.
Fairness ==
  /\ WF_vars(Pusher)
  /\ WF_vars(Listener)
  /\ \A c \in Client : WF_vars(UpdateSize(c) \/ UpdateNotify(c))
  /\ \A n \in Node : /\ WF_vars(Register(n) \/ FetchPeers(n))
                     /\ WF_vars(RegisterNotify(n))
                     /\ SF_vars(ReplyArrives(n))

FairSpec == Spec /\ Fairness

--------------------------------------------------------------------------------
(* Properties *)

Payload == [to : Node, peers : SUBSET Node, interval : Nat, size : Nat]

Request == [push : Payload, stage : {"peers", "config"}, awaited : BOOLEAN]

\* Every variable stays in its range; in particular the channel holds at most
\* one token, and only registered nodes are notified.
TypeOK ==
  /\ registry \subseteq Node /\ registering \subseteq registry
  /\ CheckInterval \in Nat /\ BufferSize \in Nat
  /\ peersCh \in 0..1
  /\ handler \in [Client -> {"idle", "size", "notify"}]
  /\ pusher \in {"wait", "list", "next", "interval", "size", "posted"}
  /\ todo \subseteq registry
  /\ push \in Payload \cup {NoPush}
  /\ pusher \in {"interval", "size", "posted"} => push \in Payload /\ push.to \in registry
  /\ inflight \subseteq Request
  /\ at \in [Node -> {"boot", "registering", "loop", "fetching"}]
  /\ {reply, Peers} \subseteq [Node -> SUBSET Node]
  /\ {nodeInterval, nodeSize} \subseteq [Node -> Nat]
  /\ failures \in 0..MaxFailures /\ restarts \in 0..MaxRestarts
  /\ missed \subseteq Node

\* Nobody has anything left to tell the nodes, and nothing is on its way.
Quiescent ==
  /\ peersCh = 0 /\ registering = {} /\ pusher = "wait" /\ inflight = {}
  /\ \A c \in Client : handler[c] = "idle"

\* No change is lost in the channel of capacity 1 (handlers.go notifyPeers): a
\* notification dropped because a token is waiting, or that comes in while
\* PushPeersToAll is between two reads, still has its values pushed.  When all
\* is quiet a node that could be reached runs on the leader's configuration.
QuiescentInSync ==
  Quiescent => \A n \in registry \ missed :
                 at[n] /= "boot" => /\ nodeInterval[n] = CheckInterval
                                   /\ nodeSize[n] = BufferSize

\* The inductive strengthening of QuiescentInSync: the push the pusher waits for
\* is the one it posted last, a push with values that are out of date has another
\* round behind it, and whenever a node that could be reached differs from the
\* leader, some step to come owes it the current values.
AwaitedIsPosted ==
  \A m \in Awaited : pusher = "posted" /\ m.push = push /\ Awaited = {m}

InSync(n) == nodeInterval[n] = CheckInterval /\ nodeSize[n] = BufferSize

RoundToCome ==
  \/ peersCh = 1 \/ pusher = "list" \/ registering /= {}
  \/ \E c \in Client : handler[c] /= "idle"

\* The values read so far for the push under way are the leader's.
PushIsCurrent ==
  \/ pusher = "interval"
  \/ pusher = "size" /\ push.interval = CheckInterval
  \/ pusher = "posted" /\ push.interval = CheckInterval /\ push.size = BufferSize

InThisRound(n) ==
  \/ pusher /= "wait" /\ n \in todo
  \/ push.to = n /\ PushIsCurrent

StalePushIsFollowed ==
  pusher \in {"interval", "size", "posted"} => PushIsCurrent \/ RoundToCome

ChangeIsOwed ==
  \A n \in registry \ missed :
    at[n] = "boot" \/ InSync(n) \/ RoundToCome \/ InThisRound(n)

PushInv == TypeOK /\ AwaitedIsPosted /\ StalePushIsFollowed /\ ChangeIsOwed

\* The inductive strengthening of NeverBack: no node and no push has a value that
\* is yet to come, and what the pusher has read is no older than what the node
\* has, or may yet get from pushes that were given up.
NoneAhead(interval, size) == interval <= CheckInterval /\ size <= BufferSize

PushIsNewest ==
  /\ \A n \in Node : NoneAhead(nodeInterval[n], nodeSize[n])
  /\ \A m \in inflight : NoneAhead(m.push.interval, m.push.size)
  /\ pusher \in {"size", "posted"} =>
       /\ push.interval <= CheckInterval
       /\ nodeInterval[push.to] <= push.interval
       /\ \A m \in inflight : m.push.to = push.to => m.push.interval <= push.interval
  /\ pusher = "posted" =>
       /\ nodeSize[push.to] <= push.size
       /\ \A m \in inflight : m.push.to = push.to => m.push.size <= push.size

\* The values of a push are read one by one while updates go on, and several
\* pushes follow one another: a node goes back to an older configuration only
\* by a restart or by a push its sender had given up.
NeverBack ==
  [][\A n \in Node : \/ nodeInterval'[n] >= nodeInterval[n] /\ nodeSize'[n] >= nodeSize[n]
                     \/ at'[n] = "boot"
                     \/ n \in missed']_vars

\* The lists a node gets by Register, by FetchPeers and by pushes overwrite each
\* other in any order, stale ones included; in the end every node has them all.
PeersConverge == <>[](\A n \in Node : Peers[n] = Node)

\* Each value of check_interval a registered node can be told gets to it, or a
\* later one does, unless a push to the node fails or the node restarts.
ConfigArrives ==
  \A n \in Node, v \in 0..MaxUpdates :
    n \in registry /\ CheckInterval = v ~> nodeInterval[n] >= v \/ n \in missed \/ at[n] = "boot"

================================================================================
