---------------------------- MODULE PeerPush_proofs ----------------------------
(* Proofs about PeerPush, for any sets of nodes and clients and any number of *)
(* updates, failing pushes and restarts.                                      *)
EXTENDS PeerPush, TLAPS

--------------------------------------------------------------------------------
(* Types *)

LEMMA PushTypesInit == Init => TypeOK
BY PushAssumption DEF Init, TypeOK, NoPush, Payload, Awaited

LEMMA PushTypesStep == TypeOK /\ [Next]_vars => TypeOK'
<1> SUFFICES ASSUME TypeOK, [Next]_vars PROVE TypeOK'
  OBVIOUS
<1> USE DEF TypeOK, leader, config, pushing, nodes
<1>1. ASSUME NEW n \in Node, Register(n) PROVE TypeOK'
  BY <1>1 DEF Register
<1>2. ASSUME NEW n \in Node, RegisterNotify(n) PROVE TypeOK'
  BY <1>2 DEF RegisterNotify, notifyPeers
<1>3. ASSUME NEW c \in Client, NEW given \in BOOLEAN, NEW size \in Sizes,
             UpdateInterval(c, given, size)
      PROVE  TypeOK'
  <2>1. size \in {"none", "good", "bad"}
    BY PushAssumption
  <2>2. handler' \in [Client -> {"idle", "size", "notify"}]
    BY <1>3, <2>1 DEF UpdateInterval
  <2>3. CheckInterval' \in Nat
    BY <1>3 DEF UpdateInterval
  <2>4. QED
    BY <1>3, <2>2, <2>3 DEF UpdateInterval
<1>4. ASSUME NEW c \in Client, UpdateSize(c) PROVE TypeOK'
  BY <1>4 DEF UpdateSize
<1>5. ASSUME NEW c \in Client, UpdateNotify(c) PROVE TypeOK'
  BY <1>5 DEF UpdateNotify, notifyPeers
<1>6. CASE ReceiveToken
  BY <1>6 DEF ReceiveToken
<1>7. CASE ListIPs
  BY <1>7 DEF ListIPs
<1>8. ASSUME NEW n \in Node, ReadPeers(n) PROVE TypeOK'
  BY <1>8 DEF ReadPeers, NoPush, Payload
<1>9. CASE ReadInterval
  BY <1>9 DEF ReadInterval, Payload
<1>10. CASE Post
  <2>1. push' \in Payload /\ push'.to = push.to
    BY <1>10 DEF Post, Payload
  <2>2. [push |-> push', stage |-> "peers", awaited |-> TRUE] \in Request
    BY <2>1 DEF Request
  <2>3. inflight' \subseteq Request
    BY <1>10, <2>2 DEF Post
  <2>4. QED
    BY <1>10, <2>1, <2>3 DEF Post
<1>11. CASE PostError
  <2>1. \A m \in inflight : [m EXCEPT !.awaited = FALSE] \in Request
    BY DEF Request
  <2>2. inflight' \subseteq Request
    BY <1>11, <2>1 DEF PostError, Awaited
  <2>3. failures' \in 0..MaxFailures
    BY <1>11, PushAssumption DEF PostError
  <2>4. missed' \subseteq Node
    BY <1>11 DEF PostError
  <2>5. QED
    BY <1>11, <2>2, <2>3, <2>4 DEF PostError
<1>12. CASE PushedToAll
  BY <1>12 DEF PushedToAll
<1>13. ASSUME NEW m \in inflight, ApplyPeers(m) PROVE TypeOK'
  BY <1>13 DEF ApplyPeers, Payload, Request
<1>14. ASSUME NEW m \in inflight, ApplyConfig(m) PROVE TypeOK'
  BY <1>14 DEF ApplyConfig, Payload, Request
<1>15. ASSUME NEW n \in Node, ReplyArrives(n) PROVE TypeOK'
  BY <1>15 DEF ReplyArrives
<1>16. ASSUME NEW n \in Node, FetchPeers(n) PROVE TypeOK'
  BY <1>16 DEF FetchPeers
<1>17. ASSUME NEW n \in Node, FetchError(n) PROVE TypeOK'
  BY <1>17 DEF FetchError
<1>18. ASSUME NEW n \in Node, Restart(n) PROVE TypeOK'
  BY <1>18, PushAssumption DEF Restart
<1>19. CASE UNCHANGED vars
  BY <1>19 DEF vars
<1>20. QED
  BY <1>1, <1>2, <1>3, <1>4, <1>5, <1>6, <1>7, <1>8, <1>9, <1>10, <1>11, <1>12, <1>13, <1>14,
     <1>15, <1>16, <1>17, <1>18, <1>19
  DEF Next, UpdateConfig, Pusher, Listener, Loop

\* Every variable of the push protocol keeps its range, also for updates that
\* are rejected half way.
THEOREM PushTypes == Spec => []TypeOK
BY PushTypesInit, PushTypesStep, PTL DEF Spec

--------------------------------------------------------------------------------
(* The push under way *)

LEMMA AwaitedStep ==
  ASSUME TypeOK, AwaitedIsPosted, [Next]_vars
  PROVE  AwaitedIsPosted'
<1> USE DEF AwaitedIsPosted, Awaited
<1>1. CASE UNCHANGED <<pusher, push, inflight>>
  BY <1>1
<1>2. CASE ReceiveToken \/ ListIPs \/ ReadInterval \/ PushedToAll
  BY <1>2 DEF ReceiveToken, ListIPs, ReadInterval, PushedToAll
<1>3. ASSUME NEW n \in Node, ReadPeers(n) PROVE AwaitedIsPosted'
  BY <1>3 DEF ReadPeers
<1>4. CASE Post
  <2> DEFINE new == [push |-> push', stage |-> "peers", awaited |-> TRUE]
  <2>1. \A k \in inflight : ~k.awaited
    BY <1>4 DEF Post
  <2>2. inflight' = inflight \cup {new} /\ pusher' = "posted"
    BY <1>4 DEF Post
  <2>3. new.push = push' /\ new.awaited
    OBVIOUS
  <2> HIDE DEF new
  <2>4. QED
    BY <2>1, <2>2, <2>3
<1>5. CASE PostError
  <2>1. \A m \in inflight : ~[m EXCEPT !.awaited = FALSE].awaited
    BY DEF TypeOK, Request
  <2>2. ASSUME NEW k \in inflight' PROVE ~k.awaited
    <3>1. CASE k \in inflight \ Awaited
      BY <3>1
    <3>2. CASE k \notin inflight \ Awaited
      <4>1. PICK m \in Awaited : k = [m EXCEPT !.awaited = FALSE]
        BY <1>5, <3>2 DEF PostError
      <4>2. QED
        BY <2>1, <4>1
    <3>3. QED
      BY <3>1, <3>2
  <2>3. QED
    BY <2>2
<1>6. ASSUME NEW m \in inflight, ApplyPeers(m) PROVE AwaitedIsPosted'
  <2>1. /\ [m EXCEPT !.stage = "config"].push = m.push
        /\ [m EXCEPT !.stage = "config"].awaited = m.awaited
    BY DEF TypeOK, Request
  <2>2. CASE m.awaited
    <3>1. \A k \in inflight : k.awaited => k = m
      BY <2>2
    <3>2. \A k \in inflight' : k.awaited => k = [m EXCEPT !.stage = "config"]
      BY <1>6, <3>1 DEF ApplyPeers
    <3>3. QED
      BY <1>6, <2>1, <2>2, <3>2 DEF ApplyPeers, pushing
  <2>3. CASE ~m.awaited
    BY <1>6, <2>1, <2>3 DEF ApplyPeers, pushing
  <2>4. QED
    BY <2>2, <2>3
<1>7. ASSUME NEW m \in inflight, ApplyConfig(m) PROVE AwaitedIsPosted'
  <2>1. CASE m.awaited
    <3>1. \A k \in inflight : k.awaited => k = m
      BY <2>1
    <3>2. QED
      BY <1>7, <3>1 DEF ApplyConfig
  <2>2. CASE ~m.awaited
    BY <1>7, <2>2 DEF ApplyConfig
  <2>3. QED
    BY <2>1, <2>2
<1>8. ASSUME NEW n \in Node, Restart(n) PROVE AwaitedIsPosted'
  BY <1>8 DEF Restart, pushing
<1>9. QED
  BY <1>1, <1>2, <1>3, <1>4, <1>5, <1>6, <1>7, <1>8
  DEF Next, UpdateConfig, UpdateInterval, UpdateSize, UpdateNotify, Pusher, Listener, Loop,
      Register, RegisterNotify, ReplyArrives, FetchPeers, FetchError, vars, pushing

--------------------------------------------------------------------------------
(* No change is forgotten *)

\* A step that leaves the configuration, the nodes and the obligations alone.
LEMMA OwedStutter ==
  ASSUME StalePushIsFollowed, ChangeIsOwed,
         UNCHANGED <<registry, CheckInterval, BufferSize, missed, nodeInterval, nodeSize, at,
                     peersCh, handler, registering, pusher, todo, push>>
  PROVE  StalePushIsFollowed' /\ ChangeIsOwed'
BY DEF StalePushIsFollowed, ChangeIsOwed, InSync, RoundToCome, InThisRound, PushIsCurrent

\* Steps of the leader's handlers: each leaves a round of pushes to come.
LEMMA HandlerStep ==
  ASSUME "bad" \notin Sizes, TypeOK,
         \/ \E n \in Node : Register(n) \/ RegisterNotify(n)
         \/ \E c \in Client : UpdateConfig(c)
  PROVE  StalePushIsFollowed' /\ ChangeIsOwed'
<1> SUFFICES RoundToCome'
  BY DEF StalePushIsFollowed, ChangeIsOwed
<1>1. ASSUME NEW n \in Node, Register(n) PROVE RoundToCome'
  BY <1>1 DEF Register, RoundToCome
<1>2. ASSUME NEW n \in Node, RegisterNotify(n) PROVE RoundToCome'
  BY <1>2 DEF RegisterNotify, notifyPeers, RoundToCome
<1>3. ASSUME NEW c \in Client, NEW given \in BOOLEAN, NEW size \in Sizes,
             UpdateInterval(c, given, size)
      PROVE  RoundToCome'
  <2>1. size \in {"none", "good"}
    BY PushAssumption
  <2>2. handler'[c] /= "idle"
    BY <1>3, <2>1 DEF UpdateInterval, TypeOK
  <2>3. QED
    BY <2>2 DEF RoundToCome
<1>4. ASSUME NEW c \in Client, UpdateSize(c) PROVE RoundToCome'
  <2>1. handler'[c] = "notify"
    BY <1>4 DEF UpdateSize, TypeOK
  <2>2. QED
    BY <2>1 DEF RoundToCome
<1>5. ASSUME NEW c \in Client, UpdateNotify(c) PROVE RoundToCome'
  BY <1>5 DEF UpdateNotify, notifyPeers, RoundToCome
<1>6. QED
  BY <1>1, <1>2, <1>3, <1>4, <1>5 DEF UpdateConfig

\* Steps of the push goroutine and of the nodes leave the configuration alone,
\* and the push under way goes on with current values if it began with them.
LEMMA FollowedStep ==
  ASSUME TypeOK, AwaitedIsPosted, StalePushIsFollowed,
         \/ Pusher
         \/ Listener
         \/ \E n \in Node : ReplyArrives(n) \/ FetchPeers(n) \/ FetchError(n) \/ Restart(n)
  PROVE  StalePushIsFollowed'
<1> USE DEF leader, config, pushing
<1>1. UNCHANGED <<CheckInterval, BufferSize, handler, registering>>
  BY DEF Pusher, Listener, ReceiveToken, ListIPs, ReadPeers, ReadInterval, Post, PostError,
         PushedToAll, ApplyPeers, ApplyConfig, ReplyArrives, FetchPeers, FetchError, Restart
<1>2. CASE ReceiveToken \/ ListIPs \/ PostError \/ PushedToAll
  BY <1>2 DEF ReceiveToken, ListIPs, PostError, PushedToAll, StalePushIsFollowed
<1>3. ASSUME NEW k \in Node, ReadPeers(k) PROVE StalePushIsFollowed'
  BY <1>3 DEF ReadPeers, StalePushIsFollowed, PushIsCurrent
<1>4. CASE ReadInterval
  <2>1. push'.interval = CheckInterval
    BY <1>4 DEF ReadInterval, TypeOK, Payload
  <2>2. QED
    BY <1>1, <1>4, <2>1 DEF ReadInterval, StalePushIsFollowed, PushIsCurrent
<1>5. CASE Post
  <2>1. push'.interval = push.interval /\ push'.size = BufferSize
    BY <1>5 DEF Post, TypeOK, Payload
  <2>2. QED
    BY <1>1, <1>5, <2>1 DEF Post, StalePushIsFollowed, PushIsCurrent, RoundToCome
<1>6. CASE UNCHANGED <<pusher, push, peersCh>>
  BY <1>1, <1>6 DEF StalePushIsFollowed, PushIsCurrent, RoundToCome
<1>7. ASSUME NEW m \in inflight, ApplyConfig(m) PROVE StalePushIsFollowed'
  <2>1. CASE m.awaited
    BY <1>7, <2>1 DEF ApplyConfig, StalePushIsFollowed
  <2>2. CASE ~m.awaited
    BY <1>6, <1>7, <2>2 DEF ApplyConfig
  <2>3. QED
    BY <2>1, <2>2
<1>8. QED
  BY <1>2, <1>3, <1>4, <1>5, <1>6, <1>7
  DEF Pusher, Listener, ApplyPeers, ReplyArrives, FetchPeers, FetchError, Restart

\* Steps of the push goroutine: what a round owes it keeps owing until the POST
\* is answered or fails.
LEMMA PusherStep ==
  ASSUME TypeOK, ChangeIsOwed, Pusher
  PROVE  ChangeIsOwed'
<1> USE DEF TypeOK, leader, config, nodes
<1>1. UNCHANGED <<registry, CheckInterval, BufferSize, handler, registering, at, nodeInterval,
                  nodeSize>>
  BY DEF Pusher, ReceiveToken, ListIPs, ReadPeers, ReadInterval, Post, PostError, PushedToAll
<1>2. missed \subseteq missed'
  BY DEF Pusher, ReceiveToken, ListIPs, ReadPeers, ReadInterval, Post, PostError, PushedToAll
<1>3. SUFFICES ASSUME NEW n \in registry \ missed', at[n] /= "boot", ~InSync(n)
               PROVE  RoundToCome' \/ InThisRound(n)'
  BY <1>1 DEF ChangeIsOwed, InSync
<1>4. RoundToCome \/ InThisRound(n)
  BY <1>2, <1>3 DEF ChangeIsOwed
<1>5. CASE ReceiveToken
  BY <1>5 DEF ReceiveToken, RoundToCome
<1>6. CASE ListIPs
  BY <1>3, <1>6 DEF ListIPs, InThisRound, PushIsCurrent
<1>7. ASSUME NEW k \in Node, ReadPeers(k) PROVE RoundToCome' \/ InThisRound(n)'
  <2>1. push'.to = k /\ pusher' = "interval" /\ todo' = todo \ {k}
    BY <1>7 DEF ReadPeers, NoPush
  <2>2. QED
    BY <1>1, <1>4, <1>7, <2>1 DEF ReadPeers, RoundToCome, InThisRound, PushIsCurrent
<1>8. CASE ReadInterval
  <2>1. push'.to = push.to /\ push'.interval = CheckInterval
    BY <1>8 DEF ReadInterval, Payload
  <2>2. QED
    BY <1>1, <1>4, <1>8, <2>1 DEF ReadInterval, RoundToCome, InThisRound, PushIsCurrent
<1>9. CASE Post
  <2>1. push'.to = push.to /\ push'.interval = push.interval /\ push'.size = BufferSize
    BY <1>9 DEF Post, Payload
  <2>2. QED
    BY <1>1, <1>4, <1>9, <2>1 DEF Post, RoundToCome, InThisRound, PushIsCurrent
<1>10. CASE PostError
  <2>1. push.to /= n
    BY <1>3, <1>10 DEF PostError
  <2>2. QED
    BY <1>1, <1>4, <1>10, <2>1 DEF PostError, RoundToCome, InThisRound, PushIsCurrent
<1>11. CASE PushedToAll
  BY <1>1, <1>4, <1>11 DEF PushedToAll, RoundToCome, InThisRound, PushIsCurrent
<1>12. QED
  BY <1>5, <1>6, <1>7, <1>8, <1>9, <1>10, <1>11 DEF Pusher

\* Steps of the nodes: an awaited push brings its node what the pusher read, a
\* push that was given up is accounted for as missed.
LEMMA NodeStep ==
  ASSUME TypeOK, AwaitedIsPosted, StalePushIsFollowed, ChangeIsOwed,
         \/ Listener
         \/ \E n \in Node : ReplyArrives(n) \/ FetchPeers(n) \/ FetchError(n) \/ Restart(n)
  PROVE  ChangeIsOwed'
<1> USE DEF leader, config, pushing
<1>1. ASSUME NEW m \in inflight, ApplyPeers(m) PROVE ChangeIsOwed'
  BY <1>1, OwedStutter DEF ApplyPeers
<1>2. ASSUME NEW m \in inflight, ApplyConfig(m) PROVE ChangeIsOwed'
  <2> DEFINE t == m.push.to
  <2>1. t \in Node /\ m.push \in Payload
    BY DEF TypeOK, Request, Payload
  <2>2. /\ UNCHANGED <<registry, CheckInterval, BufferSize, handler, registering, at, peersCh,
                       todo, push>>
        /\ \A n \in Node \ {t} : nodeInterval'[n] = nodeInterval[n] /\ nodeSize'[n] = nodeSize[n]
        /\ nodeInterval'[t] = m.push.interval /\ nodeSize'[t] = m.push.size
    BY <1>2, <2>1 DEF ApplyConfig, TypeOK
  <2> SUFFICES ASSUME NEW n \in registry \ missed', at[n] /= "boot"
               PROVE  InSync(n)' \/ RoundToCome' \/ InThisRound(n)'
    BY <2>2 DEF ChangeIsOwed
  <2>3. CASE m.awaited
    <3>1. pusher = "posted" /\ m.push = push /\ pusher' = "next" /\ missed' = missed \ {t}
      BY <1>2, <2>3 DEF AwaitedIsPosted, Awaited, ApplyConfig
    <3>2. CASE n = t
      <4>1. CASE push.interval = CheckInterval /\ push.size = BufferSize
        BY <2>2, <3>1, <3>2, <4>1 DEF InSync
      <4>2. CASE RoundToCome
        BY <2>2, <3>1, <4>2 DEF RoundToCome
      <4>3. QED
        BY <3>1, <4>1, <4>2 DEF StalePushIsFollowed, PushIsCurrent
    <3>3. CASE n /= t
      <4>1. n \in Node \ {t} /\ n \notin missed
        BY <3>1, <3>3 DEF TypeOK
      <4>2. InSync(n) \/ RoundToCome \/ InThisRound(n)
        BY <4>1 DEF ChangeIsOwed
      <4>3. push.to /= n
        BY <3>1, <3>3
      <4>4. QED
        BY <2>2, <3>1, <4>1, <4>2, <4>3 DEF InSync, RoundToCome, InThisRound, PushIsCurrent
    <3>4. QED
      BY <3>2, <3>3
  <2>4. CASE ~m.awaited
    <3>1. pusher' = pusher /\ missed' = missed \cup {t}
      BY <1>2, <2>4 DEF ApplyConfig
    <3>2. n \in Node \ {t} /\ n \notin missed
      BY <3>1 DEF TypeOK
    <3>3. InSync(n) \/ RoundToCome \/ InThisRound(n)
      BY <3>2 DEF ChangeIsOwed
    <3>4. QED
      BY <2>2, <3>1, <3>2, <3>3 DEF InSync, RoundToCome, InThisRound, PushIsCurrent
  <2>5. QED
    BY <2>3, <2>4
<1>3. ASSUME NEW n \in Node, ReplyArrives(n) \/ FetchPeers(n) \/ FetchError(n)
      PROVE  ChangeIsOwed'
  <2>1. /\ UNCHANGED <<registry, CheckInterval, BufferSize, missed, nodeInterval, nodeSize,
                       peersCh, handler, registering, pusher, todo, push>>
        /\ at[n] /= "boot"
        /\ \A k \in Node : at[k] = "boot" => at'[k] = "boot"
    BY <1>3 DEF ReplyArrives, FetchPeers, FetchError, TypeOK
  <2>2. registry \subseteq Node
    BY DEF TypeOK
  <2>3. QED
    BY <2>1, <2>2 DEF ChangeIsOwed, InSync, RoundToCome, InThisRound, PushIsCurrent
<1>4. ASSUME NEW n \in Node, Restart(n) PROVE ChangeIsOwed'
  <2>1. /\ UNCHANGED <<registry, CheckInterval, BufferSize, missed, peersCh, handler,
                       registering, pusher, todo, push>>
        /\ at'[n] = "boot"
        /\ \A k \in Node \ {n} : /\ at'[k] = at[k]
                                 /\ nodeInterval'[k] = nodeInterval[k]
                                 /\ nodeSize'[k] = nodeSize[k]
    BY <1>4 DEF Restart, TypeOK
  <2>2. registry \subseteq Node
    BY DEF TypeOK
  <2>3. QED
    BY <2>1, <2>2 DEF ChangeIsOwed, InSync, RoundToCome, InThisRound, PushIsCurrent
<1>5. QED
  BY <1>1, <1>2, <1>3, <1>4 DEF Listener

LEMMA PushInvariant ==
  ASSUME "bad" \notin Sizes
  PROVE  Spec => []PushInv
<1>1. Init => PushInv
  <2>1. SUFFICES ASSUME Init PROVE PushInv
    OBVIOUS
  <2>2. AwaitedIsPosted /\ StalePushIsFollowed /\ ChangeIsOwed
    BY <2>1 DEF Init, AwaitedIsPosted, Awaited, StalePushIsFollowed, ChangeIsOwed
  <2>3. QED
    BY <2>1, <2>2, PushTypesInit DEF PushInv
<1>2. PushInv /\ [Next]_vars => PushInv'
  <2>1. SUFFICES ASSUME PushInv, [Next]_vars PROVE PushInv'
    OBVIOUS
  <2>2. CASE UNCHANGED vars
    BY <2>1, <2>2, OwedStutter, PushTypesStep, AwaitedStep
    DEF PushInv, vars, leader, config, pushing, nodes
  <2>3. CASE Next
    <3>1. StalePushIsFollowed' /\ ChangeIsOwed'
      BY <2>1, <2>3, HandlerStep, FollowedStep, PusherStep, NodeStep DEF PushInv, Next, Loop
    <3>2. QED
      BY <2>1, <3>1, PushTypesStep, AwaitedStep DEF PushInv
  <2>4. QED
    BY <2>1, <2>2, <2>3
<1>3. QED
  BY <1>1, <1>2, PTL DEF Spec

\* No change of the configuration and no registration is lost in the channel of
\* capacity one, in whatever order handlers, pushes, failures and restarts come,
\* as long as no update is rejected half way.
THEOREM NoChangeLost ==
  ASSUME "bad" \notin Sizes
  PROVE  Spec => []QuiescentInSync
<1>1. PushInv => QuiescentInSync
  BY DEF PushInv, TypeOK, ChangeIsOwed, QuiescentInSync, Quiescent, InSync, RoundToCome,
         InThisRound, PushIsCurrent
<1>2. QED
  BY PushInvariant, <1>1, PTL

--------------------------------------------------------------------------------
(* No node goes back *)

\* The steps that touch neither the nodes' values nor the push nor a payload.
LEMMA NewestStutter ==
  ASSUME TypeOK, PushIsNewest,
         UNCHANGED <<pusher, push, inflight, nodeInterval, nodeSize>>,
         CheckInterval' \in Nat, CheckInterval' >= CheckInterval,
         BufferSize' \in Nat, BufferSize' >= BufferSize
  PROVE  PushIsNewest'
<1>1. \A n \in Node : nodeInterval[n] \in Nat /\ nodeSize[n] \in Nat
  BY DEF TypeOK
<1>2. \A m \in inflight : m.push.interval \in Nat /\ m.push.size \in Nat
  BY DEF TypeOK, Request, Payload
<1>3. CheckInterval \in Nat /\ BufferSize \in Nat
  BY DEF TypeOK
<1>4. (\A n \in Node : NoneAhead(nodeInterval[n], nodeSize[n]))'
  BY <1>1, <1>3 DEF PushIsNewest, NoneAhead
<1>5. (\A m \in inflight : NoneAhead(m.push.interval, m.push.size))'
  BY <1>2, <1>3 DEF PushIsNewest, NoneAhead
<1>6. ASSUME pusher \in {"size", "posted"} PROVE push.interval \in Nat
  BY <1>6 DEF TypeOK, Payload
<1>7. ASSUME pusher' \in {"size", "posted"} PROVE push'.interval <= CheckInterval'
  <2>1. pusher \in {"size", "posted"} /\ push' = push
    BY <1>7
  <2>2. push.interval <= CheckInterval
    BY <2>1 DEF PushIsNewest
  <2>3. push.interval <= CheckInterval'
    BY <2>1, <2>2, <1>3, <1>6
  <2>4. QED
    BY <2>1, <2>3
<1>8. QED
  BY <1>4, <1>5, <1>7 DEF PushIsNewest

\* The steps of the pusher that read or post.
LEMMA NewestRead ==
  ASSUME TypeOK, PushIsNewest, ReadInterval \/ Post
  PROVE  PushIsNewest'
<1> USE DEF PushIsNewest, NoneAhead
<1>1. push \in Payload /\ push.to \in Node /\ UNCHANGED <<config, nodeInterval, nodeSize>>
  BY DEF TypeOK, ReadInterval, Post, leader, nodes, Payload
<1>2. /\ \A n \in Node : nodeInterval[n] \in Nat /\ nodeSize[n] \in Nat
      /\ \A m \in inflight : m.push.interval \in Nat /\ m.push.size \in Nat
      /\ CheckInterval \in Nat /\ BufferSize \in Nat
  BY DEF TypeOK, Request, Payload
<1>3. CASE ReadInterval
  <2>1. /\ push' = [push EXCEPT !.interval = CheckInterval] /\ pusher' = "size"
        /\ inflight' = inflight
    BY <1>3 DEF ReadInterval
  <2>2. push'.to = push.to /\ push'.interval = CheckInterval
    BY <1>1, <2>1 DEF Payload
  <2>3. QED
    BY <1>1, <1>2, <2>1, <2>2 DEF config
<1>4. CASE Post
  <2> DEFINE new == [push |-> push', stage |-> "peers", awaited |-> TRUE]
  <2>1. /\ push' = [push EXCEPT !.size = BufferSize] /\ pusher' = "posted"
        /\ inflight' = inflight \cup {new} /\ pusher = "size"
    BY <1>4 DEF Post
  <2>2. /\ push'.to = push.to /\ push'.interval = push.interval /\ push'.size = BufferSize
        /\ push'.interval \in Nat
    BY <1>1, <2>1 DEF Payload
  <2>3. new.push = push'
    OBVIOUS
  <2> HIDE DEF new
  <2>4. push.interval <= CheckInterval
    BY <2>1
  <2>5. UNCHANGED <<CheckInterval, BufferSize>>
    BY <1>1 DEF config
  <2>6. (\A n \in Node : NoneAhead(nodeInterval[n], nodeSize[n]))'
    BY <1>1, <2>5
  <2>7. \A m \in inflight' : /\ m.push.interval <= CheckInterval
                              /\ m.push.size <= BufferSize
    <3>1. TAKE m \in inflight'
    <3>2. CASE m \in inflight
      BY <3>2
    <3>3. CASE m = new
      BY <3>3, <1>2, <2>2, <2>3, <2>4
    <3>4. QED
      BY <3>2, <3>3, <2>1
  <2>8. nodeInterval'[push'.to] <= push'.interval /\ nodeSize'[push'.to] <= push'.size
    BY <1>1, <2>1, <2>2
  <2>9. \A m \in inflight' : m.push.to = push'.to => /\ m.push.interval <= push'.interval
                                                    /\ m.push.size <= push'.size
    <3>1. TAKE m \in inflight'
    <3>2. CASE m \in inflight
      BY <3>2, <2>1, <2>2
    <3>3. CASE m = new
      BY <3>3, <1>2, <2>2, <2>3
    <3>4. QED
      BY <3>2, <3>3, <2>1
  <2>10. QED
    BY <2>1, <2>2, <2>4, <2>5, <2>6, <2>7, <2>8, <2>9
<1>5. QED
  BY <1>3, <1>4

\* The other steps of the pusher leave the values of the push or take them away.
LEMMA NewestPusher ==
  ASSUME TypeOK, PushIsNewest, Pusher
  PROVE  PushIsNewest'
<1> USE DEF PushIsNewest
<1>1. CASE ReadInterval \/ Post
  BY <1>1, NewestRead
<1>2. CASE ReceiveToken \/ ListIPs \/ PushedToAll \/ \E n \in Node : ReadPeers(n)
  <2>1. /\ pusher' \notin {"size", "posted"}
        /\ UNCHANGED <<inflight, nodeInterval, nodeSize, CheckInterval, BufferSize>>
    BY <1>2 DEF ReceiveToken, ListIPs, PushedToAll, ReadPeers, leader, config, nodes
  <2>2. QED
    BY <2>1 DEF NoneAhead
<1>3. CASE PostError
  <2>1. /\ pusher' = "next"
        /\ UNCHANGED <<nodeInterval, nodeSize, CheckInterval, BufferSize>>
    BY <1>3 DEF PostError, leader, config, nodes
  <2>2. ASSUME NEW k \in inflight' PROVE \E m \in inflight : k.push = m.push
    <3>1. CASE k \in inflight
      BY <3>1
    <3>2. CASE k \notin inflight
      <4>1. PICK m \in Awaited : k = [m EXCEPT !.awaited = FALSE]
        BY <1>3, <2>2, <3>2 DEF PostError
      <4>2. m \in inflight /\ m \in Request
        BY DEF Awaited, TypeOK
      <4>3. k.push = m.push
        BY <4>1, <4>2 DEF Request
      <4>4. QED
        BY <4>2, <4>3
    <3>3. QED
      BY <3>1, <3>2
  <2>3. QED
    BY <2>1, <2>2 DEF NoneAhead
<1>4. QED
  BY <1>1, <1>2, <1>3 DEF Pusher

\* The listener: a payload is applied as it is, and the one awaited is the push.
LEMMA NewestListener ==
  ASSUME TypeOK, AwaitedIsPosted, PushIsNewest, NEW m \in inflight,
         ApplyPeers(m) \/ ApplyConfig(m)
  PROVE  PushIsNewest'
<1> USE DEF PushIsNewest
<1>1. m \in Request /\ m.push \in Payload /\ m.push.to \in Node
  BY DEF TypeOK, Request, Payload
<1>2. CASE ApplyPeers(m)
  <2>1. /\ inflight' = (inflight \ {m}) \cup {[m EXCEPT !.stage = "config"]}
        /\ UNCHANGED <<pusher, push, nodeInterval, nodeSize, CheckInterval, BufferSize>>
    BY <1>2 DEF ApplyPeers, leader, config, pushing
  <2>2. [m EXCEPT !.stage = "config"].push = m.push
    BY <1>1 DEF Request
  <2>3. \A k \in inflight' : \E j \in inflight : k.push = j.push
    BY <2>1, <2>2
  <2>4. QED
    BY <2>1, <2>3 DEF NoneAhead
<1>3. CASE ApplyConfig(m)
  <2> DEFINE n == m.push.to
  <2>1. /\ nodeInterval' = [nodeInterval EXCEPT ![n] = m.push.interval]
        /\ nodeSize' = [nodeSize EXCEPT ![n] = m.push.size]
        /\ inflight' \subseteq inflight /\ pusher' \in {"next", pusher}
        /\ UNCHANGED <<push, CheckInterval, BufferSize>>
    BY <1>3 DEF ApplyConfig, leader, config
  <2>2. /\ nodeInterval'[n] = m.push.interval /\ nodeSize'[n] = m.push.size
        /\ \A i \in Node \ {n} : nodeInterval'[i] = nodeInterval[i] /\ nodeSize'[i] = nodeSize[i]
    BY <1>1, <2>1 DEF TypeOK
  <2> HIDE DEF n
  <2>3. (\A i \in Node : NoneAhead(nodeInterval[i], nodeSize[i]))'
    BY <2>1, <2>2 DEF NoneAhead
  <2>4. (\A k \in inflight : NoneAhead(k.push.interval, k.push.size))'
    BY <2>1 DEF NoneAhead
  <2>5. pusher' \in {"size", "posted"} => pusher' = pusher /\ push.to \in Node
    BY <2>1 DEF TypeOK, Payload
  <2>6. pusher' \in {"size", "posted"} => nodeInterval'[push.to] <= push.interval
    BY <2>2, <2>5 DEF n
  <2>7. pusher' = "posted" => nodeSize'[push.to] <= push.size
    BY <2>2, <2>5 DEF n
  <2>8. QED
    BY <2>1, <2>3, <2>4, <2>5, <2>6, <2>7
<1>4. QED
  BY <1>2, <1>3

LEMMA NewestRestart ==
  ASSUME TypeOK, PushIsNewest, NEW n \in Node, Restart(n)
  PROVE  PushIsNewest'
<1> USE DEF PushIsNewest
<1>1. /\ nodeInterval' = [nodeInterval EXCEPT ![n] = 0]
      /\ nodeSize' = [nodeSize EXCEPT ![n] = 0]
      /\ inflight' \subseteq inflight
      /\ UNCHANGED <<pusher, push, CheckInterval, BufferSize>>
  BY DEF Restart, leader, config, pushing
<1>2. \A i \in Node : /\ nodeInterval'[i] = IF i = n THEN 0 ELSE nodeInterval[i]
                      /\ nodeSize'[i] = IF i = n THEN 0 ELSE nodeSize[i]
  BY <1>1 DEF TypeOK
<1>3. CheckInterval \in Nat /\ BufferSize \in Nat
  BY DEF TypeOK
<1>4. (\A i \in Node : NoneAhead(nodeInterval[i], nodeSize[i]))'
  BY <1>1, <1>2, <1>3 DEF NoneAhead
<1>5. (\A k \in inflight : NoneAhead(k.push.interval, k.push.size))'
  BY <1>1 DEF NoneAhead
<1>6. pusher \in {"size", "posted"} => /\ push.to \in Node /\ push.interval \in Nat
                                       /\ push.size \in Nat
  BY DEF TypeOK, Payload
<1>7. QED
  BY <1>1, <1>2, <1>4, <1>5, <1>6

LEMMA NewestStep ==
  ASSUME TypeOK, AwaitedIsPosted, PushIsNewest, [Next]_vars
  PROVE  PushIsNewest'
<1>1. CheckInterval \in Nat /\ BufferSize \in Nat
  BY DEF TypeOK
<1>2. CASE \E c \in Client : UpdateConfig(c)
  <2>1. /\ UNCHANGED <<pusher, push, inflight, nodeInterval, nodeSize>>
        /\ CheckInterval' \in {CheckInterval, CheckInterval + 1}
        /\ BufferSize' \in {BufferSize, BufferSize + 1}
    BY <1>2 DEF UpdateConfig, UpdateInterval, UpdateSize, UpdateNotify, pushing, nodes, config
  <2>2. QED
    BY <1>1, <2>1, NewestStutter
<1>3. CASE Pusher
  BY <1>3, NewestPusher
<1>4. CASE Listener
  BY <1>4, NewestListener DEF Listener
<1>5. CASE \E n \in Node : Restart(n)
  BY <1>5, NewestRestart
<1>6. CASE UNCHANGED vars \/ \E n \in Node : Loop(n)
  <2>1. UNCHANGED <<pusher, push, inflight, nodeInterval, nodeSize, CheckInterval, BufferSize>>
    BY <1>6 DEF Loop, Register, RegisterNotify, ReplyArrives, FetchPeers, FetchError, vars,
                leader, config, pushing, nodes
  <2>2. QED
    BY <1>1, <2>1, NewestStutter
<1>7. QED
  BY <1>2, <1>3, <1>4, <1>5, <1>6 DEF Next

NewestInv == TypeOK /\ AwaitedIsPosted /\ PushIsNewest

\* Rejected updates included: what a push carries is never older than what its
\* node may have by then.
THEOREM PushesAreNewest == Spec => []NewestInv
<1>1. Init => NewestInv
  <2>1. SUFFICES ASSUME Init PROVE NewestInv
    OBVIOUS
  <2>2. TypeOK
    BY <2>1, PushTypesInit
  <2>3. AwaitedIsPosted /\ PushIsNewest
    BY <2>1 DEF Init, AwaitedIsPosted, Awaited, PushIsNewest, NoneAhead
  <2>4. QED
    BY <2>2, <2>3 DEF NewestInv
<1>2. NewestInv /\ [Next]_vars => NewestInv'
  BY PushTypesStep, AwaitedStep, NewestStep DEF NewestInv
<1>3. QED
  BY <1>1, <1>2, PTL DEF Spec

\* A node goes back to an older configuration only by a restart or by a push
\* its sender had given up.
THEOREM NodesNeverGoBack == Spec => NeverBack
<1>1. NewestInv /\ [Next]_vars =>
        [\A n \in Node : \/ nodeInterval'[n] >= nodeInterval[n] /\ nodeSize'[n] >= nodeSize[n]
                         \/ at'[n] = "boot"
                         \/ n \in missed']_vars
  <2> SUFFICES ASSUME NewestInv, [Next]_vars, NEW n \in Node
               PROVE  \/ nodeInterval'[n] >= nodeInterval[n] /\ nodeSize'[n] >= nodeSize[n]
                      \/ at'[n] = "boot"
                      \/ n \in missed'
    OBVIOUS
  <2> USE DEF NewestInv
  <2>1. nodeInterval[n] \in Nat /\ nodeSize[n] \in Nat
    BY DEF TypeOK
  <2>2. CASE UNCHANGED <<nodeInterval, nodeSize>>
    BY <2>1, <2>2
  <2>3. ASSUME NEW m \in inflight, ApplyConfig(m), m.push.to = n, m.awaited
        PROVE  nodeInterval'[n] >= nodeInterval[n] /\ nodeSize'[n] >= nodeSize[n]
    <3>1. pusher = "posted" /\ m.push = push
      BY <2>3 DEF AwaitedIsPosted, Awaited
    <3>2. /\ nodeInterval'[n] = push.interval /\ nodeSize'[n] = push.size
          /\ push.interval \in Nat /\ push.size \in Nat
      BY <2>3, <3>1 DEF ApplyConfig, TypeOK, Request, Payload
    <3>3. QED
      BY <2>1, <2>3, <3>1, <3>2 DEF PushIsNewest
  <2>4. ASSUME NEW m \in inflight, ApplyConfig(m), m.push.to = n, ~m.awaited
        PROVE  n \in missed'
    BY <2>4 DEF ApplyConfig
  <2>5. ASSUME NEW m \in inflight, ApplyConfig(m), m.push.to /= n
        PROVE  nodeInterval'[n] = nodeInterval[n] /\ nodeSize'[n] = nodeSize[n]
    BY <2>5 DEF ApplyConfig, TypeOK, Request, Payload
  <2>6. CASE \E i \in Node : Restart(i)
    BY <2>1, <2>6 DEF Restart, TypeOK
  <2>7. CASE Listener
    <3>1. PICK m \in inflight : ApplyPeers(m) \/ ApplyConfig(m)
      BY <2>7 DEF Listener
    <3>2. CASE ApplyPeers(m)
      BY <2>2, <3>2 DEF ApplyPeers
    <3>3. CASE ApplyConfig(m)
      BY <2>1, <2>3, <2>4, <2>5, <3>3
    <3>4. QED
      BY <3>1, <3>2, <3>3
  <2>8. CASE UNCHANGED vars \/ Pusher \/ (\E c \in Client : UpdateConfig(c))
             \/ \E i \in Node : Loop(i)
    <3>1. UNCHANGED <<nodeInterval, nodeSize>>
      BY <2>8 DEF Loop, Register, RegisterNotify, ReplyArrives, FetchPeers, FetchError, vars,
                  UpdateConfig, UpdateInterval, UpdateSize, UpdateNotify, Pusher, ReceiveToken,
                  ListIPs, ReadPeers, ReadInterval, Post, PostError, PushedToAll, nodes
    <3>2. QED
      BY <2>2, <3>1
  <2>9. QED
    BY <2>6, <2>7, <2>8 DEF Next
<1>2. QED
  BY <1>1, PushesAreNewest, PTL DEF Spec, NeverBack

================================================================================
