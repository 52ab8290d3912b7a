------------------------------ MODULE Mesh_proofs ------------------------------
(* Proofs about Mesh, for any set of nodes, with or without URLs and extra     *)
(* targets, on any ports, and any number of restarts and lost calls.           *)
EXTENDS Mesh, TLAPS

--------------------------------------------------------------------------------
(* The entries of the registry *)

LEMMA PortsAreSet == \A p \in Port : p \in Nat \ {0}
BY MeshAssumption DEF Port

\* An entry written for a node, by either handler, is not that of an unknown one.
LEMMA EnterTypes ==
  ASSUME TypeOK, NEW n \in Node, NEW port \in Port, Enter(n, port)
  PROVE  /\ registry' \in [Node -> [port : Port, url : BOOLEAN] \cup {Unknown}]
         /\ registry'[n] = [port |-> port, url |-> n \in WithURL]
         /\ \A m \in Node \ {n} : registry'[m] = registry[m]
         /\ Registered' = Registered \cup {n}
<1> DEFINE entry == [port |-> port, url |-> n \in WithURL]
<1>1. entry \in [port : Port, url : BOOLEAN]
  OBVIOUS
<1>2. entry /= Unknown
  <2>1. port /= 0
    BY PortsAreSet
  <2>2. entry.port = port /\ Unknown.port = 0
    BY DEF Unknown
  <2>3. QED
    BY <2>1, <2>2
<1>3. registry' = [registry EXCEPT ![n] = entry]
  BY DEF Enter
<1> HIDE DEF entry
<1>4. registry'[n] = entry /\ \A m \in Node \ {n} : registry'[m] = registry[m]
  BY <1>3 DEF TypeOK
<1>5. registry' \in [Node -> [port : Port, url : BOOLEAN] \cup {Unknown}]
  BY <1>1, <1>3 DEF TypeOK
<1>6. Registered' = Registered \cup {n}
  BY <1>2, <1>4 DEF Registered
<1>7. QED
  BY <1>4, <1>5, <1>6 DEF entry

LEMMA PeerDictsTypes ==
  ASSUME registry \in [Node -> [port : Port, url : BOOLEAN] \cup {Unknown}]
  PROVE  PeerDicts \in [Node -> Port \cup {0}]
BY DEF PeerDicts, Unknown

LEMMA OwnPort == \A n \in Node : ListenPort[n] \in Port
BY DEF Port

LEMMA DefaultPort == DefaultListenPort \in Port
BY DEF Port

--------------------------------------------------------------------------------
(* Types *)

LEMMA MeshTypesInit == Init => TypeOK
BY MeshAssumption DEF Init, TypeOK, NoPeers, Registered

LEMMA MeshTypesStep == TypeOK /\ [Next]_vars => TypeOK'
<1> SUFFICES ASSUME TypeOK, [Next]_vars PROVE TypeOK'
  OBVIOUS
<1> USE DEF leader, nodes, rest
<1>1. CASE UpdateConfig
  <2>1. config' \in 0..MaxUpdates /\ updates' \in 0..MaxUpdates
    BY <1>1, MeshAssumption DEF UpdateConfig, TypeOK
  <2>2. QED
    BY <1>1, <2>1 DEF UpdateConfig, notifyPeers, TypeOK, Registered, Port
<1>2. ASSUME NEW n \in Node, Register(n) PROVE TypeOK'
  <2>1. /\ registry' \in [Node -> [port : Port, url : BOOLEAN] \cup {Unknown}]
        /\ Registered' = Registered \cup {n}
    BY <1>2, EnterTypes, OwnPort DEF Register
  <2>2. PeerDicts' \in [Node -> Port \cup {0}]
    BY <2>1 DEF PeerDicts, Unknown
  <2>3. Peers' \in [Node -> [Node -> Port \cup {0}]]
    BY <1>2, <2>2 DEF Register, TypeOK
  <2>4. QED
    BY <1>2, <2>1, <2>3 DEF Register, notifyPeers, TypeOK, Port
<1>3. CASE TakeToken
  BY <1>3 DEF TakeToken, TypeOK, Registered, Port
<1>4. ASSUME NEW n \in Node, Push(n) PROVE TypeOK'
  <2>1. PeerDicts \in [Node -> Port \cup {0}]
    BY PeerDictsTypes DEF TypeOK
  <2>2. /\ Peers' \in [Node -> [Node -> Port \cup {0}]]
        /\ nodeConfig' \in [Node -> 0..MaxUpdates]
        /\ missed' \subseteq Node
    BY <1>4, <2>1 DEF Push, TypeOK
  <2>3. Registered' = Registered
    BY <1>4 DEF Push, Registered
  <2>4. QED
    BY <1>4, <2>2, <2>3 DEF Push, TypeOK, Port
<1>5. ASSUME NEW n \in Node, PushError(n) PROVE TypeOK'
  <2>1. failures' \in 0..MaxFailures
    BY <1>5, MeshAssumption DEF PushError, TypeOK
  <2>2. QED
    BY <1>5, <2>1 DEF PushError, TypeOK, Registered, Port
<1>6. CASE LeaderCrash
  <2>1. restarts' \in 0..MaxRestarts
    BY <1>6, MeshAssumption DEF LeaderCrash, TypeOK
  <2>2. config' \in 0..MaxUpdates
    BY <1>6, MeshAssumption DEF LeaderCrash
  <2>3. registry' \in [Node -> [port : Port, url : BOOLEAN] \cup {Unknown}]
    BY <1>6 DEF LeaderCrash
  <2>4. up' \in BOOLEAN
    BY <1>6, Zenon DEF LeaderCrash
  <2>5. todo' = {} /\ token' = 0 /\ missed' = {}
    BY <1>6 DEF LeaderCrash
  <2>6. UNCHANGED <<WithURL, updates, nodes, failures, crashes>>
    BY <1>6 DEF LeaderCrash
  <2>7. QED
    BY <2>1, <2>2, <2>3, <2>4, <2>5, <2>6 DEF TypeOK, Port
<1>7. CASE NewLeader
  BY <1>7 DEF NewLeader, TypeOK, Registered, Port
<1>8. ASSUME NEW n \in Node, FetchPeers(n) PROVE TypeOK'
  <2>1. PeerDicts \in [Node -> Port \cup {0}]
    BY PeerDictsTypes DEF TypeOK
  <2>2. QED
    BY <1>8, <2>1 DEF FetchPeers, TypeOK, Registered, Port
<1>9. ASSUME NEW n \in Node, FetchError(n) PROVE TypeOK'
  <2>1. failures' \in 0..MaxFailures
    BY <1>9, MeshAssumption DEF FetchError, TypeOK
  <2>2. QED
    BY <1>9, <2>1 DEF FetchError, TypeOK, Registered, Port
<1>10. ASSUME NEW n \in Node, RunCheckCycle(n) PROVE TypeOK'
  BY <1>10 DEF RunCheckCycle, TypeOK, Registered, Port
<1>11. ASSUME NEW n \in Node, HandleSubmit(n) PROVE TypeOK'
  <2>1. /\ registry' \in [Node -> [port : Port, url : BOOLEAN] \cup {Unknown}]
        /\ Registered \subseteq Registered'
    <3>1. CASE n \in WithURL
      BY <1>11, <3>1, EnterTypes, DefaultPort DEF HandleSubmit
    <3>2. CASE n \notin WithURL
      BY <1>11, <3>2 DEF HandleSubmit, TypeOK, Registered
    <3>3. QED
      BY <3>1, <3>2
  <2>2. failures' \in 0..MaxFailures
    BY <1>11, MeshAssumption DEF HandleSubmit, TypeOK
  <2>3. token' \in 0..1
    BY <1>11 DEF HandleSubmit, notifyPeers, TypeOK
  <2>4. at' \in [Node -> {"boot", "fetch", "check", "submit"}] /\ held' \subseteq Node
    BY <1>11 DEF HandleSubmit, TypeOK
  <2>5. QED
    BY <1>11, <2>1, <2>2, <2>3, <2>4 DEF HandleSubmit, TypeOK, Port
<1>12. ASSUME NEW n \in Node, SubmitError(n) PROVE TypeOK'
  BY <1>12 DEF SubmitError, TypeOK, Registered, Port
<1>13. ASSUME NEW n \in Node, Crash(n) PROVE TypeOK'
  <2>1. crashes' \in 0..MaxCrashes
    BY <1>13, MeshAssumption DEF Crash, TypeOK
  <2>2. Peers' \in [Node -> [Node -> Port \cup {0}]]
    BY <1>13 DEF Crash, TypeOK, NoPeers
  <2>3. nodeConfig' \in [Node -> 0..MaxUpdates]
    BY <1>13, MeshAssumption DEF Crash, TypeOK
  <2>4. QED
    BY <1>13, <2>1, <2>2, <2>3 DEF Crash, TypeOK, Registered, Port
<1>14. CASE UNCHANGED vars
  BY <1>14 DEF vars, TypeOK, Registered, Port
<1>15. QED
  BY <1>1, <1>2, <1>3, <1>4, <1>5, <1>6, <1>7, <1>8, <1>9, <1>10, <1>11, <1>12, <1>13, <1>14
  DEF Next, Pusher, Loop

\* Every variable of the mesh keeps its range.
THEOREM MeshTypes == Spec => []TypeOK
BY MeshTypesInit, MeshTypesStep, PTL DEF Spec

--------------------------------------------------------------------------------
(* The address of a push *)

\* Whichever handler wrote a node's entry last, a push to it finds the listener.
LEMMA AddressStep ==
  ASSUME TypeOK, AddressRight, [Next]_vars
  PROVE  AddressRight'
<1> USE DEF AddressRight, leader, nodes, rest
<1>1. CASE UNCHANGED <<registry, WithURL>>
  BY <1>1 DEF Registered, Reaches
<1>2. ASSUME NEW n \in Node, Register(n) PROVE AddressRight'
  <2>1. /\ registry'[n] = [port |-> ListenPort[n], url |-> n \in WithURL]
        /\ \A m \in Node \ {n} : registry'[m] = registry[m]
        /\ Registered' = Registered \cup {n}
    BY <1>2, EnterTypes, OwnPort DEF Register
  <2>2. WithURL' = WithURL
    BY <1>2 DEF Register
  <2>3. registry'[n].url = (n \in WithURL) /\ registry'[n].port = ListenPort[n]
    BY <2>1
  <2>4. QED
    BY <2>1, <2>2, <2>3 DEF Registered, Reaches
<1>3. CASE LeaderCrash
  BY <1>3 DEF LeaderCrash, Registered
<1>4. ASSUME NEW n \in Node, HandleSubmit(n) PROVE AddressRight'
  <2>1. CASE n \in WithURL
    <3>1. /\ registry'[n] = [port |-> DefaultListenPort, url |-> n \in WithURL]
          /\ \A m \in Node \ {n} : registry'[m] = registry[m]
          /\ Registered' = Registered \cup {n}
      BY <1>4, <2>1, EnterTypes, DefaultPort DEF HandleSubmit
    <3>2. WithURL' = WithURL
      BY <1>4 DEF HandleSubmit
    <3>3. registry'[n].url = (n \in WithURL)
      BY <3>1
    <3>4. QED
      BY <2>1, <3>1, <3>2, <3>3 DEF Registered, Reaches
  <2>2. CASE n \notin WithURL
    <3>1. UNCHANGED <<registry, WithURL>>
      BY <1>4, <2>2 DEF HandleSubmit
    <3>2. QED
      BY <1>1, <3>1
  <2>3. QED
    BY <2>1, <2>2
<1>5. CASE UpdateConfig \/ TakeToken \/ NewLeader \/ UNCHANGED vars
  BY <1>1, <1>5 DEF UpdateConfig, TakeToken, NewLeader, vars
<1>6. ASSUME NEW n \in Node, Push(n) \/ PushError(n) PROVE AddressRight'
  BY <1>1, <1>6 DEF Push, PushError
<1>7. ASSUME NEW n \in Node,
             FetchPeers(n) \/ FetchError(n) \/ RunCheckCycle(n) \/ SubmitError(n) \/ Crash(n)
      PROVE  AddressRight'
  BY <1>1, <1>7 DEF FetchPeers, FetchError, RunCheckCycle, SubmitError, Crash
<1>8. QED
  BY <1>2, <1>3, <1>4, <1>5, <1>6, <1>7 DEF Next, Pusher, Loop

--------------------------------------------------------------------------------
(* The configuration of a node *)

\* A node that differs from the leader has a push to come.
LEMMA OwedStep ==
  ASSUME TypeOK, AddressRight, ChangeIsOwed, [Next]_vars
  PROVE  ChangeIsOwed'
<1> USE DEF ChangeIsOwed, leader, nodes, rest
<1>1. CASE UpdateConfig
  BY <1>1 DEF UpdateConfig, notifyPeers
<1>2. ASSUME NEW n \in Node, Register(n) PROVE ChangeIsOwed'
  BY <1>2 DEF Register, notifyPeers
<1>3. CASE TakeToken
  BY <1>3 DEF TakeToken, Registered
<1>4. ASSUME NEW n \in Node, Push(n) PROVE ChangeIsOwed'
  <2>1. Reaches(n) /\ n \in Registered
    BY <1>4 DEF Push, AddressRight, TypeOK
  <2>2. nodeConfig'[n] = config /\ \A m \in Node \ {n} : nodeConfig'[m] = nodeConfig[m]
    BY <1>4, <2>1 DEF Push, TypeOK
  <2>3. /\ todo' = todo \ {n} /\ missed' = missed \ {n}
        /\ UNCHANGED <<registry, config, token, at>>
    BY <1>4, <2>1 DEF Push
  <2>4. Registered' = Registered
    BY <2>3 DEF Registered
  <2>5. QED
    BY <2>2, <2>3, <2>4 DEF Registered
<1>5. ASSUME NEW n \in Node, PushError(n) PROVE ChangeIsOwed'
  BY <1>5 DEF PushError, Registered
<1>6. CASE LeaderCrash
  BY <1>6 DEF LeaderCrash, Registered
<1>7. CASE NewLeader \/ UNCHANGED vars
  BY <1>7 DEF NewLeader, vars, Registered
<1>8. ASSUME NEW n \in Node,
             FetchPeers(n) \/ FetchError(n) \/ RunCheckCycle(n) \/ SubmitError(n)
      PROVE  ChangeIsOwed'
  <2>1. UNCHANGED <<registry, missed, todo, token, config, nodeConfig>>
    BY <1>8 DEF FetchPeers, FetchError, RunCheckCycle, SubmitError
  <2>2. \A m \in Node : at[m] = "boot" => at'[m] = "boot"
    BY <1>8 DEF FetchPeers, FetchError, RunCheckCycle, SubmitError, TypeOK
  <2>3. QED
    BY <2>1, <2>2 DEF Registered
<1>9. ASSUME NEW n \in Node, HandleSubmit(n) PROVE ChangeIsOwed'
  <2>1. UNCHANGED <<missed, todo, config, nodeConfig>>
    BY <1>9 DEF HandleSubmit
  <2>2. \A m \in Node : at[m] = "boot" => at'[m] = "boot"
    BY <1>9 DEF HandleSubmit, TypeOK
  <2>3. token' = 1 \/ (token' = token /\ Registered' = Registered)
    <3>1. CASE n \in WithURL
      <4>1. Registered' = Registered \cup {n}
        BY <1>9, <3>1, EnterTypes, DefaultPort DEF HandleSubmit
      <4>2. QED
        BY <1>9, <3>1, <4>1 DEF HandleSubmit, notifyPeers
    <3>2. CASE n \notin WithURL
      BY <1>9, <3>2 DEF HandleSubmit, Registered
    <3>3. QED
      BY <3>1, <3>2
  <2>4. QED
    BY <2>1, <2>2, <2>3 DEF Registered
<1>10. ASSUME NEW n \in Node, Crash(n) PROVE ChangeIsOwed'
  <2>1. /\ at'[n] = "boot"
        /\ \A m \in Node \ {n} : at'[m] = at[m] /\ nodeConfig'[m] = nodeConfig[m]
    BY <1>10 DEF Crash, TypeOK
  <2>2. UNCHANGED <<registry, missed, todo, token, config>>
    BY <1>10 DEF Crash
  <2>3. QED
    BY <2>1, <2>2 DEF Registered
<1>11. QED
  BY <1>1, <1>2, <1>3, <1>4, <1>5, <1>6, <1>7, <1>8, <1>9, <1>10 DEF Next, Pusher, Loop

LEMMA MeshInvInit == Init => MeshInv
<1> SUFFICES ASSUME Init PROVE MeshInv
  OBVIOUS
<1>1. TypeOK
  BY MeshTypesInit
<1>2. Registered = {}
  BY DEF Init, Registered
<1>3. QED
  BY <1>1, <1>2 DEF MeshInv, AddressRight, ChangeIsOwed

LEMMA MeshInvStep == MeshInv /\ [Next]_vars => MeshInv'
BY MeshTypesStep, AddressStep, OwedStep DEF MeshInv

\* Over any number of restarts of the leader and of nodes, and whichever handler
\* registered a node last, a node the leader knows ends up with the leader's
\* configuration unless the network lost its last push.
THEOREM KnownNodesInSync == Spec => []RegisteredInSync
<1>1. MeshInv => RegisteredInSync
  BY DEF MeshInv, ChangeIsOwed, RegisteredInSync
<1>2. QED
  BY <1>1, MeshInvInit, MeshInvStep, PTL DEF Spec

================================================================================
