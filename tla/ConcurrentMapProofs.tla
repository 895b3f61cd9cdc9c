------------------------- MODULE ConcurrentMapProofs -------------------------
(***************************************************************************)
(* For every set of threads, keys and nodes: the tree keeps one node per   *)
(* key, nothing dangles, and ConcurrentMap implements AtomicMap.           *)
(***************************************************************************)
EXTENDS ConcurrentMap, TLAPS

USE ConcurrentMapAssumption

\* The edges of a node are edges, and each other edge differs from them.
LEMMA EdgesOfNode ==
  /\ Root \in Edge
  /\ \A n \in Node : Left(n) \in Edge /\ Right(n) \in Edge /\ Left(n) # Right(n)
                     /\ Left(n) # Root /\ Right(n) # Root
                     /\ Left(n)[1] = n /\ Right(n)[1] = n
  /\ \A e \in Edge : e = Root \/ \E n \in Node : e = Left(n) \/ e = Right(n)
  /\ \A n, m \in Node : /\ Left(n) # Right(m)
                        /\ Left(n) = Left(m) => n = m
                        /\ Right(n) = Right(m) => n = m
  /\ Root[1] = Null
BY DEF Edge, Root, Left, Right

\* The tree is part of the state that a step may leave alone.
LEMMA TreeUnchanged ==
  ASSUME ptr' = ptr
  PROVE  Linked' = Linked /\ LiveEdge' = LiveEdge
BY DEF Linked, LiveEdge

LEMMA LinkedFacts ==
  ASSUME TypeOK
  PROVE  /\ Linked \subseteq Node
         /\ LiveEdge \subseteq Edge
         /\ \A e \in Edge : ptr[e] # Null => ptr[e] \in Linked
         /\ \A n \in Linked : Left(n) \in LiveEdge /\ Right(n) \in LiveEdge
         /\ Root \in LiveEdge
BY EdgesOfNode DEF TypeOK, Linked, LiveEdge

\* A new map satisfies the invariant.
LEMMA InitInv ==
  ASSUME Init
  PROVE  IInv
<1> USE DEF Init, EmptyMap
<1>1. Garbage \in Key
  BY DEF Garbage
<1>2. TypeOK
  BY <1>1, EdgesOfNode DEF TypeOK, Label, Result
<1>3. Linked = {}
  BY EdgesOfNode DEF Linked
<1>4. LiveEdge = {Root}
  BY <1>3 DEF LiveEdge
<1>5. LinksInv
  BY <1>3 DEF LinksInv
<1>6. SpanInv
  BY <1>3, <1>4, EdgesOfNode DEF SpanInv
<1>7. ThreadsInv
  BY <1>3, <1>4 DEF ThreadsInv, ThreadInv
<1> QED
  BY <1>2, <1>5, <1>6, <1>7 DEF IInv

\* Types are kept.
LEMMA TypeStep ==
  ASSUME IInv, [Next]_vars
  PROVE  TypeOK'
<1>a. Garbage \in Key
  BY DEF Garbage
<1>b. Root \in Edge
  BY EdgesOfNode
<1>c. \A t \in Thread : pc[t] # "idle" => key[t] \in Key
  BY DEF IInv, ThreadsInv, ThreadInv
<1>d. \A k \in Key, n \in Node : Towards(k, n) \in Edge
  BY EdgesOfNode DEF Towards
<1>e. TypeOK
  BY DEF IInv
<1> USE DEF TypeOK
<1>1. CASE UNCHANGED vars
  BY <1>e, <1>1 DEF vars
<1>2. ASSUME NEW t \in Thread, NEW f \in {"find", "getOrInsert"}, NEW k \in Key, Call(t, f, k)
      PROVE  TypeOK'
  BY <1>e, <1>2 DEF Call, Goto, shared, Result, Label
<1>3. ASSUME NEW t \in Thread, LoadLastSearch(t) PROVE TypeOK'
  <2>1. CASE LastHit(t)
    <3>1. Return(t, lastSearch, FALSE) /\ UNCHANGED shared
      BY <1>3, <2>1 DEF LoadLastSearch
    <3> QED BY <1>e, <1>b, <3>1 DEF Return, Goto, shared, Result, Label
  <2>2. CASE ~LastHit(t)
    BY <1>e, <1>b, <1>3, <2>2 DEF LoadLastSearch, Goto, shared, Label
  <2> QED BY <2>1, <2>2
<1>s. ASSUME NEW t \in Thread, NEW n \in Node, SearchFromNode(t, n), pc[t] # "idle"
      PROVE  /\ node' \in [Thread -> Node \cup {Null}]
             /\ edge' \in [Thread -> Edge]
             /\ pc' \in [Thread -> Label]
  <2>1. Towards(key[t], n) \in Edge
    BY <1>c, <1>d, <1>s
  <2>2. CASE nodeKey[n] = key[t]
    <3> DEFINE l == IF newNode[t] = Null THEN "store" ELSE "destroy"
    <3>1. l \in Label
      BY DEF Label
    <3>2. pc' = [pc EXCEPT ![t] = l] /\ node' = [node EXCEPT ![t] = n] /\ edge' = edge
      BY <1>s, <2>2 DEF SearchFromNode, Goto
    <3> HIDE DEF l
    <3> QED BY <1>e, <3>1, <3>2
  <2>3. CASE nodeKey[n] # key[t]
    BY <1>e, <1>s, <2>1, <2>3 DEF SearchFromNode, Goto, Label
  <2> QED BY <2>2, <2>3
<1>4. ASSUME NEW t \in Thread, LoadEdge(t) PROVE TypeOK'
  <2>1. CASE ptr[edge[t]] = Null /\ op[t] = "find"
    <3>1. Return(t, Null, FALSE) /\ UNCHANGED shared
      BY <1>4, <2>1 DEF LoadEdge, NullEdge
    <3> QED BY <1>e, <1>b, <3>1 DEF Return, Goto, shared, Result, Label
  <2>2. CASE ptr[edge[t]] = Null /\ op[t] # "find"
    BY <1>e, <1>4, <2>2 DEF LoadEdge, NullEdge, Goto, shared, Label
  <2>3. CASE ptr[edge[t]] # Null
    BY <1>e, <1>s, <1>4, <2>3 DEF LoadEdge, shared
  <2> QED BY <2>1, <2>2, <2>3
<1>5. ASSUME NEW t \in Thread, AllocateNode(t) PROVE TypeOK'
  BY <1>c, <1>e, <1>5, EdgesOfNode DEF AllocateNode, Goto, Label
<1>6. ASSUME NEW t \in Thread, CompareExchangeEdge(t) PROVE TypeOK'
  <2>1. CASE ptr[edge[t]] = Null
    <3>1. newNode[t] \in Node
      BY <1>e, <1>6 DEF CompareExchangeEdge, IInv, ThreadsInv, ThreadInv
    <3>2. span' \in [Edge -> SUBSET Key]
      BY <1>e, <1>6, <2>1, <3>1 DEF CompareExchangeEdge, Narrow
    <3> QED
      BY <1>e, <1>6, <2>1, <3>1, <3>2 DEF CompareExchangeEdge, Goto, Label
  <2>2. CASE ptr[edge[t]] # Null
    BY <1>e, <1>s, <1>6, <2>2 DEF CompareExchangeEdge
  <2> QED BY <2>1, <2>2
<1>7. ASSUME NEW t \in Thread, PublishNewNode(t) PROVE TypeOK'
  BY <1>b, <1>e, <1>7 DEF PublishNewNode, Return, Goto, Result, Label
<1>8. ASSUME NEW t \in Thread, DestroyNode(t) PROVE TypeOK'
  BY <1>a, <1>e, <1>8 DEF DestroyNode, Goto, Label
<1>9. ASSUME NEW t \in Thread, StoreFoundNode(t) PROVE TypeOK'
  BY <1>b, <1>e, <1>9 DEF StoreFoundNode, Return, Goto, Result, Label
<1>10. CASE DestroyMap
  BY <1>a, <1>e, <1>10 DEF DestroyMap, locals
<1> HIDE DEF TypeOK
<1> QED
  BY <1>1, <1>2, <1>3, <1>4, <1>5, <1>6, <1>7, <1>8, <1>9, <1>10 DEF Next, Step

\* A step that adds no node keeps the tree's invariants if the nodes of the
\* tree stay allocated.
LEMMA TreeFrame ==
  ASSUME IInv, ptr' = ptr, span' = span,
         \A n \in Linked : n \in alloc' /\ nodeKey'[n] = nodeKey[n],
         lastSearch' \in Linked \cup {Null}
  PROVE  LinksInv' /\ SpanInv'
<1>1. TypeOK /\ LinksInv /\ SpanInv
  BY DEF IInv
<1>2. Linked' = Linked /\ LiveEdge' = LiveEdge
  BY TreeUnchanged
<1>3. \A e \in Edge : ptr[e] # Null => ptr[e] \in Linked
  BY <1>1, LinkedFacts
<1>4. LinksInv'
  BY <1>1, <1>2, <1>3 DEF LinksInv
<1>5. SpanInv'
  BY <1>1, <1>2, <1>3 DEF SpanInv, Towards
<1> QED BY <1>4, <1>5

\* A thread whose locals a step leaves alone keeps what it relies on, if the
\* tree only grows.
LEMMA ThreadFrame ==
  ASSUME TypeOK, NEW u \in Thread, ThreadInv(u),
         op'[u] = op[u], pc'[u] = pc[u], key'[u] = key[u], edge'[u] = edge[u],
         node'[u] = node[u], newNode'[u] = newNode[u],
         Linked \subseteq Linked',
         \A e \in LiveEdge : span'[e] = span[e],
         \A n \in Linked : nodeKey'[n] = nodeKey[n],
         newNode[u] # Null =>
           /\ newNode[u] \in alloc'
           /\ nodeKey'[newNode[u]] = nodeKey[newNode[u]]
           /\ newNode[u] \notin Linked => newNode[u] \notin Linked'
  PROVE  ThreadInv(u)'
<1>1. LiveEdge \subseteq LiveEdge'
  BY DEF LiveEdge
<1> QED
  BY <1>1 DEF ThreadInv

\* A step on the locals of one thread alone.
LEMMA LocalStep ==
  ASSUME IInv, NEW t \in Thread, UNCHANGED <<ptr, nodeKey, alloc, span>>,
         \A u \in Thread \ {t} :
            /\ op'[u] = op[u] /\ pc'[u] = pc[u] /\ key'[u] = key[u]
            /\ edge'[u] = edge[u] /\ node'[u] = node[u] /\ newNode'[u] = newNode[u],
         newNode'[t] \in {newNode[t], Null},
         lastSearch' \in Linked \cup {Null},
         ThreadInv(t)'
  PROVE  LinksInv' /\ SpanInv' /\ ThreadsInv'
<1>1. Linked \subseteq alloc
  BY DEF IInv, LinksInv, Linked
<1>2. LinksInv' /\ SpanInv'
  BY <1>1, TreeFrame
<1>3. Linked' = Linked /\ LiveEdge' = LiveEdge
  BY TreeUnchanged
<1>4. ASSUME NEW u \in Thread \ {t} PROVE ThreadInv(u)'
  <2>1. ThreadInv(u) /\ TypeOK
    BY DEF IInv, ThreadsInv
  <2>2. newNode[u] # Null => newNode[u] \in alloc
    BY <2>1 DEF ThreadInv
  <2> QED BY <1>3, <2>1, <2>2, ThreadFrame
<1>5. ThreadsInv'
  BY <1>4 DEF IInv, ThreadsInv
<1> QED BY <1>2, <1>5

\* What searchFromNode establishes.
LEMMA SearchStep ==
  ASSUME IInv, NEW t \in Thread, pc[t] \in {"load", "cas"},
         ptr[edge[t]] # Null, SearchFromNode(t, ptr[edge[t]]),
         UNCHANGED <<shared, op, key, newNode, result>>
  PROVE  LinksInv' /\ SpanInv' /\ ThreadsInv'
<1> DEFINE n == ptr[edge[t]]
<1>1. TypeOK /\ LinksInv /\ SpanInv /\ ThreadInv(t)
  BY DEF IInv, ThreadsInv
<1>2. edge[t] \in Edge /\ n \in Linked /\ n \in Node /\ key[t] \in Key /\ key[t] \in span[edge[t]]
  BY <1>1, LinkedFacts DEF TypeOK, ThreadInv
<1>3. Linked' = Linked /\ LiveEdge' = LiveEdge
  BY TreeUnchanged DEF shared
<1>4. lastSearch' \in Linked \cup {Null} /\ UNCHANGED <<ptr, nodeKey, alloc, span>>
  BY <1>1 DEF shared, LinksInv
<1>5. ThreadInv(t)'
  <2>1. CASE nodeKey[n] = key[t]
    <3>1. pc'[t] = (IF newNode[t] = Null THEN "store" ELSE "destroy")
          /\ node'[t] = n /\ edge'[t] = edge[t]
      BY <1>1, <2>1 DEF SearchFromNode, Goto, TypeOK
    <3> QED BY <1>1, <1>2, <1>3, <1>4, <2>1, <3>1 DEF ThreadInv
  <2>2. CASE nodeKey[n] # key[t]
    <3>1. pc'[t] = "load" /\ edge'[t] = Towards(key[t], n)
      BY <1>1, <2>2 DEF SearchFromNode, Goto, TypeOK
    <3>2. nodeKey[n] \in Key
      BY <1>1, <1>2 DEF TypeOK
    <3>3. key[t] \in span[Towards(key[t], n)]
      BY <1>1, <1>2, <2>2, <3>2 DEF SpanInv
    <3>4. Towards(key[t], n) \in LiveEdge
      BY <1>1, <1>2, LinkedFacts DEF Towards
    <3> QED BY <1>1, <1>3, <1>4, <2>2, <3>1, <3>3, <3>4 DEF ThreadInv
  <2> QED BY <2>1, <2>2
<1>6. \A u \in Thread \ {t} :
         pc'[u] = pc[u] /\ edge'[u] = edge[u] /\ node'[u] = node[u]
  BY <1>1 DEF SearchFromNode, Goto, TypeOK
<1> QED BY <1>4, <1>5, <1>6, LocalStep

\* A return leaves a thread with nothing.
LEMMA ReturnStep ==
  ASSUME IInv, NEW t \in Thread, NEW n, NEW inserted, Return(t, n, inserted),
         UNCHANGED <<ptr, nodeKey, alloc, span>>, lastSearch' \in Linked \cup {Null}
  PROVE  LinksInv' /\ SpanInv' /\ ThreadsInv'
<1>1. TypeOK
  BY DEF IInv
<1>2. /\ pc'[t] = "idle" /\ op'[t] = "none" /\ edge'[t] = Root /\ newNode'[t] = Null
      /\ \A u \in Thread \ {t} :
            /\ op'[u] = op[u] /\ pc'[u] = pc[u] /\ key'[u] = key[u]
            /\ edge'[u] = edge[u] /\ node'[u] = node[u] /\ newNode'[u] = newNode[u]
  BY <1>1 DEF Return, Goto, TypeOK
<1>3. ThreadInv(t)'
  BY <1>2 DEF ThreadInv, LiveEdge
<1> QED BY <1>2, <1>3, LocalStep

LEMMA CallStep ==
  ASSUME IInv, NEW t \in Thread, NEW f \in {"find", "getOrInsert"}, NEW k \in Key, Call(t, f, k)
  PROVE  LinksInv' /\ SpanInv' /\ ThreadsInv'
<1>1. TypeOK /\ ThreadInv(t) /\ LinksInv
  BY DEF IInv, ThreadsInv
<1>2. Linked' = Linked /\ LiveEdge' = LiveEdge
  BY TreeUnchanged DEF Call, shared
<1>3. pc'[t] = "last" /\ op'[t] = f /\ key'[t] = k /\ edge'[t] = edge[t] /\ newNode'[t] = Null
  BY <1>1 DEF Call, Goto, TypeOK, ThreadInv
<1>4. ThreadInv(t)'
  BY <1>1, <1>2, <1>3 DEF ThreadInv
<1>5. \A u \in Thread \ {t} :
            /\ op'[u] = op[u] /\ pc'[u] = pc[u] /\ key'[u] = key[u]
            /\ edge'[u] = edge[u] /\ node'[u] = node[u] /\ newNode'[u] = newNode[u]
  BY <1>1 DEF Call, Goto, TypeOK
<1>6. UNCHANGED <<ptr, nodeKey, alloc, span>> /\ lastSearch' \in Linked \cup {Null}
      /\ newNode' = newNode
  BY <1>1 DEF Call, shared, LinksInv
<1> QED BY <1>4, <1>5, <1>6, LocalStep

LEMMA LoadLastSearchStep ==
  ASSUME IInv, NEW t \in Thread, LoadLastSearch(t)
  PROVE  LinksInv' /\ SpanInv' /\ ThreadsInv'
<1>1. TypeOK /\ ThreadInv(t) /\ LinksInv /\ SpanInv
  BY DEF IInv, ThreadsInv
<1>2. UNCHANGED <<ptr, nodeKey, alloc, span>> /\ lastSearch' \in Linked \cup {Null}
  BY <1>1 DEF LoadLastSearch, shared, LinksInv
<1>3. CASE LastHit(t)
  BY <1>2, <1>3, ReturnStep DEF LoadLastSearch
<1>4. CASE ~LastHit(t)
  <2>1. /\ pc'[t] = "load" /\ edge'[t] = Root
        /\ \A u \in Thread \ {t} : pc'[u] = pc[u] /\ edge'[u] = edge[u]
        /\ UNCHANGED <<op, key, node, newNode>>
    BY <1>1, <1>4 DEF LoadLastSearch, Goto, TypeOK
  <2>2. key[t] \in span[Root]
    BY <1>1 DEF LoadLastSearch, ThreadInv, SpanInv
  <2>3. Linked' = Linked /\ LiveEdge' = LiveEdge /\ Root \in LiveEdge
    BY <1>1, <1>2, TreeUnchanged, LinkedFacts
  <2>4. ThreadInv(t)'
    BY <1>1, <1>2, <2>1, <2>2, <2>3 DEF ThreadInv, LoadLastSearch
  <2> QED BY <1>2, <2>1, <2>4, LocalStep
<1> QED BY <1>3, <1>4

LEMMA LoadEdgeStep ==
  ASSUME IInv, NEW t \in Thread, LoadEdge(t)
  PROVE  LinksInv' /\ SpanInv' /\ ThreadsInv'
<1>1. TypeOK /\ ThreadInv(t) /\ LinksInv
  BY DEF IInv, ThreadsInv
<1>2. UNCHANGED <<ptr, nodeKey, alloc, span>> /\ lastSearch' \in Linked \cup {Null}
  BY <1>1 DEF LoadEdge, shared, LinksInv
<1>3. CASE ptr[edge[t]] # Null
  BY <1>3, SearchStep DEF LoadEdge
<1>4. CASE ptr[edge[t]] = Null /\ Return(t, Null, FALSE)
  BY <1>2, <1>4, ReturnStep
<1>5. CASE ptr[edge[t]] = Null /\ ~Return(t, Null, FALSE)
  <2>1. /\ pc' = [pc EXCEPT ![t] = IF newNode[t] = Null THEN "alloc" ELSE "cas"]
        /\ op[t] = "getOrInsert"
        /\ UNCHANGED <<op, key, edge, node, newNode>>
    BY <1>5 DEF LoadEdge, NullEdge, Goto
  <2>2. pc'[t] = (IF newNode[t] = Null THEN "alloc" ELSE "cas")
        /\ \A u \in Thread \ {t} : pc'[u] = pc[u]
    BY <1>1, <2>1 DEF TypeOK
  <2>3. Linked' = Linked /\ LiveEdge' = LiveEdge
    BY <1>2, TreeUnchanged
  <2>4. ThreadInv(t)'
    BY <1>1, <1>2, <2>1, <2>2, <2>3 DEF ThreadInv, LoadEdge
  <2> QED BY <1>2, <2>1, <2>2, <2>4, LocalStep
<1> QED BY <1>3, <1>4, <1>5

\* A fresh node is nowhere in the tree and no thread has it.
LEMMA AllocateNodeStep ==
  ASSUME IInv, NEW t \in Thread, AllocateNode(t)
  PROVE  LinksInv' /\ SpanInv' /\ ThreadsInv'
<1>1. TypeOK /\ ThreadInv(t) /\ LinksInv
  BY DEF IInv, ThreadsInv
<1>2. PICK n \in Node \ alloc :
        /\ alloc' = alloc \cup {n}
        /\ newNode' = [newNode EXCEPT ![t] = n]
        /\ nodeKey' = [nodeKey EXCEPT ![n] = key[t]]
        /\ ptr' = [ptr EXCEPT ![Left(n)] = Null, ![Right(n)] = Null]
  BY DEF AllocateNode
<1>3. n \notin Linked /\ Linked \subseteq alloc /\ n # Null
  BY <1>1, <1>2 DEF LinksInv, Linked
<1>4. ptr[Left(n)] = Null /\ ptr[Right(n)] = Null
  BY <1>1, <1>2, <1>3, EdgesOfNode DEF LinksInv, LiveEdge
<1>5. ptr' = ptr
  BY <1>1, <1>2, <1>4 DEF TypeOK
<1>6. /\ pc'[t] = "cas" /\ newNode'[t] = n /\ nodeKey'[n] = key[t]
      /\ \A m \in Node \ {n} : nodeKey'[m] = nodeKey[m]
      /\ \A u \in Thread \ {t} : pc'[u] = pc[u] /\ newNode'[u] = newNode[u]
      /\ UNCHANGED <<lastSearch, span, op, key, edge, node>>
  BY <1>1, <1>2 DEF AllocateNode, Goto, TypeOK
<1>7. Linked' = Linked /\ LiveEdge' = LiveEdge
  BY <1>5, TreeUnchanged
<1>8. LinksInv' /\ SpanInv'
  <2>1. \A m \in Linked : m \in alloc' /\ nodeKey'[m] = nodeKey[m]
    BY <1>2, <1>3, <1>6 DEF Linked
  <2>2. lastSearch' \in Linked \cup {Null}
    BY <1>1, <1>6 DEF LinksInv
  <2> QED BY <1>5, <1>6, <2>1, <2>2, TreeFrame
<1>9. ThreadInv(t)'
  BY <1>1, <1>2, <1>3, <1>6, <1>7 DEF ThreadInv, AllocateNode
<1>10. \A u \in Thread \ {t} : newNode[u] # Null => newNode[u] \in alloc /\ newNode[u] # n
  BY <1>2 DEF IInv, ThreadsInv, ThreadInv
<1>11. ASSUME NEW u \in Thread \ {t} PROVE ThreadInv(u)'
  <2>1. ThreadInv(u)
    BY DEF IInv, ThreadsInv
  <2>2. newNode[u] # Null =>
           /\ newNode[u] \in alloc'
           /\ nodeKey'[newNode[u]] = nodeKey[newNode[u]]
    BY <1>1, <1>2, <1>6, <1>10 DEF TypeOK
  <2>3. \A m \in Linked : nodeKey'[m] = nodeKey[m]
    BY <1>3, <1>6 DEF Linked
  <2> QED BY <1>1, <1>6, <1>7, <2>1, <2>2, <2>3, ThreadFrame
<1>12. ThreadsInv'
  BY <1>6, <1>9, <1>10, <1>11 DEF IInv, ThreadsInv
<1> QED BY <1>8, <1>12

LEMMA PublishNewNodeStep ==
  ASSUME IInv, NEW t \in Thread, PublishNewNode(t)
  PROVE  LinksInv' /\ SpanInv' /\ ThreadsInv'
<1>1. newNode[t] \in Linked
  BY DEF IInv, ThreadsInv, ThreadInv, PublishNewNode
<1> QED BY <1>1, ReturnStep DEF PublishNewNode

LEMMA StoreFoundNodeStep ==
  ASSUME IInv, NEW t \in Thread, StoreFoundNode(t)
  PROVE  LinksInv' /\ SpanInv' /\ ThreadsInv'
<1>1. node[t] \in Linked
  BY DEF IInv, ThreadsInv, ThreadInv, StoreFoundNode
<1> QED BY <1>1, ReturnStep DEF StoreFoundNode

\* The node that is destroyed is in no tree and in no other thread's hands.
LEMMA DestroyNodeStep ==
  ASSUME IInv, NEW t \in Thread, DestroyNode(t)
  PROVE  LinksInv' /\ SpanInv' /\ ThreadsInv'
<1>1. TypeOK /\ ThreadInv(t) /\ LinksInv
  BY DEF IInv, ThreadsInv
<1> DEFINE n == newNode[t]
<1>2. n \in Node /\ n \notin Linked /\ Linked \subseteq alloc
  BY <1>1 DEF DestroyNode, ThreadInv, TypeOK, LinksInv, Linked
<1>3. /\ pc'[t] = "store" /\ newNode'[t] = Null /\ alloc' = alloc \ {n}
      /\ \A m \in Node \ {n} : nodeKey'[m] = nodeKey[m]
      /\ \A u \in Thread \ {t} : pc'[u] = pc[u] /\ newNode'[u] = newNode[u]
      /\ UNCHANGED <<ptr, lastSearch, span, op, key, edge, node>>
  BY <1>1 DEF DestroyNode, Goto, TypeOK
<1>4. Linked' = Linked /\ LiveEdge' = LiveEdge
  BY <1>3, TreeUnchanged
<1>5. \A m \in Linked : m \in alloc' /\ nodeKey'[m] = nodeKey[m]
  BY <1>2, <1>3 DEF Linked
<1>6. LinksInv' /\ SpanInv'
  <2>1. lastSearch' \in Linked \cup {Null}
    BY <1>1, <1>3 DEF LinksInv
  <2> QED BY <1>3, <1>5, <2>1, TreeFrame
<1>7. ThreadInv(t)'
  BY <1>1, <1>3, <1>4, <1>5 DEF ThreadInv, DestroyNode
<1>8. ASSUME NEW u \in Thread \ {t} PROVE ThreadInv(u)'
  <2>1. ThreadInv(u)
    BY DEF IInv, ThreadsInv
  <2>2. newNode[u] # Null => newNode[u] # n /\ newNode[u] \in alloc /\ newNode[u] \in Node
    BY <1>1, <2>1 DEF IInv, ThreadsInv, ThreadInv, TypeOK
  <2>3. newNode[u] # Null =>
           /\ newNode[u] \in alloc'
           /\ nodeKey'[newNode[u]] = nodeKey[newNode[u]]
    BY <1>3, <2>2
  <2> QED BY <1>1, <1>3, <1>4, <1>5, <2>1, <2>3, ThreadFrame
<1>9. ThreadsInv'
  BY <1>3, <1>7, <1>8 DEF IInv, ThreadsInv
<1> QED BY <1>6, <1>9

\* With no call underway, the new map is empty.
LEMMA DestroyMapStep ==
  ASSUME IInv, DestroyMap
  PROVE  LinksInv' /\ SpanInv' /\ ThreadsInv'
<1>1. Linked' = {}
  BY EdgesOfNode DEF DestroyMap, Linked
<1>2. LiveEdge' = {Root}
  BY <1>1 DEF LiveEdge
<1>3. LinksInv'
  BY <1>1 DEF DestroyMap, LinksInv
<1>4. SpanInv'
  BY <1>1, <1>2, EdgesOfNode DEF DestroyMap, SpanInv
<1>5. ASSUME NEW t \in Thread PROVE ThreadInv(t)' /\ newNode'[t] = Null
  <2>1. ThreadInv(t) /\ pc[t] = "idle"
    BY DEF DestroyMap, IInv, ThreadsInv
  <2> QED BY <1>2, <2>1 DEF ThreadInv, DestroyMap, locals
<1>6. ThreadsInv'
  BY <1>5 DEF ThreadsInv
<1> QED BY <1>3, <1>4, <1>6

\* The compare-exchange that succeeds: the new node takes over the span of the
\* null edge it is linked to, and splits the rest between its own edges.
LEMMA LinkStep ==
  ASSUME IInv, NEW t \in Thread, CompareExchangeEdge(t), ptr[edge[t]] = Null
  PROVE  LinksInv' /\ SpanInv' /\ ThreadsInv'
         /\ Linked' = Linked \cup {newNode[t]} /\ newNode[t] \notin Linked
         /\ \A n \in Linked : nodeKey[n] # key[t]
<1> DEFINE n == newNode[t]
           e0 == edge[t]
<1>1. TypeOK /\ ThreadInv(t) /\ LinksInv /\ SpanInv
  BY DEF IInv, ThreadsInv
<1>2. /\ pc[t] = "cas" /\ n \in Node /\ n \notin Linked /\ n \in alloc /\ n # Null
      /\ e0 \in LiveEdge /\ e0 \in Edge /\ key[t] \in span[e0] /\ nodeKey[n] = key[t]
      /\ key[t] \in Int
  BY <1>1 DEF CompareExchangeEdge, ThreadInv, TypeOK
<1>3. /\ ptr' = [ptr EXCEPT ![e0] = n]
      /\ span' = [span EXCEPT ![Left(n)] = {k \in span[e0] : k < nodeKey[n]},
                              ![Right(n)] = {k \in span[e0] : k > nodeKey[n]}]
      /\ pc' = [pc EXCEPT ![t] = "publish"]
      /\ UNCHANGED <<nodeKey, lastSearch, alloc, op, key, edge, node, newNode>>
  BY DEF CompareExchangeEdge, Narrow, Goto
<1>4. /\ Left(n) \in Edge /\ Right(n) \in Edge /\ Left(n) # Right(n)
      /\ Left(n) \notin LiveEdge /\ Right(n) \notin LiveEdge
      /\ Left(n) # Root /\ Right(n) # Root
      /\ ptr[Left(n)] = Null /\ ptr[Right(n)] = Null
  BY <1>1, <1>2, EdgesOfNode DEF LiveEdge, LinksInv
<1>5. /\ ptr'[e0] = n
      /\ \A e \in Edge \ {e0} : ptr'[e] = ptr[e]
      /\ span'[Left(n)] = {k \in span[e0] : k < nodeKey[n]}
      /\ span'[Right(n)] = {k \in span[e0] : k > nodeKey[n]}
      /\ \A e \in Edge \ {Left(n), Right(n)} : span'[e] = span[e]
  BY <1>1, <1>2, <1>3, <1>4 DEF TypeOK
<1>6. Linked' = Linked \cup {n}
  <2>1. ASSUME NEW m \in Node, \E e \in Edge : ptr'[e] = m PROVE m \in Linked \cup {n}
    BY <1>5, <2>1 DEF Linked
  <2>2. ASSUME NEW m \in Linked PROVE \E e \in Edge : ptr'[e] = m
    <3>1. PICK e \in Edge : ptr[e] = m
      BY DEF Linked
    <3>2. e # e0
      BY <3>1 DEF Linked
    <3> QED BY <1>5, <3>1, <3>2
  <2>3. \E e \in Edge : ptr'[e] = n
    BY <1>2, <1>5
  <2> QED BY <1>2, <2>1, <2>2, <2>3 DEF Linked
<1>7. LiveEdge' = LiveEdge \cup {Left(n), Right(n)}
  <2>1. \A e \in Edge : e[1] = n => e \in {Left(n), Right(n)}
    BY <1>2, EdgesOfNode
  <2> QED BY <1>2, <1>4, <1>6, <2>1, EdgesOfNode DEF LiveEdge
<1>8. LiveEdge \subseteq Edge /\ \A e \in Edge : ptr[e] # Null => ptr[e] \in Linked
  BY <1>1, LinkedFacts
<1>9. LinksInv'
  <2>1. \A e \in Edge : ptr'[e] # Null => e \in LiveEdge' /\ ptr'[e] \in alloc'
    BY <1>1, <1>2, <1>3, <1>5, <1>7 DEF LinksInv
  <2>2. \A e, f \in Edge : ptr'[e] # Null /\ ptr'[e] = ptr'[f] => e = f
    BY <1>1, <1>2, <1>5, <1>8 DEF LinksInv
  <2> QED BY <1>1, <1>3, <1>6, <2>1, <2>2 DEF LinksInv
<1>10. \A m \in Linked : nodeKey[m] # key[t]
  BY <1>1, <1>2 DEF SpanInv
<1>11. SpanInv'
  <2>1. ASSUME NEW e \in Edge, ptr'[e] # Null
        PROVE  \A k \in span'[e] : k # nodeKey'[ptr'[e]] => k \in span'[Towards(k, ptr[e])']
    <3>1. CASE e = e0
      <4>1. ptr'[e] = n /\ span'[e] = span[e0] /\ nodeKey' = nodeKey
        BY <1>2, <1>3, <1>4, <1>5, <3>1
      <4>2. nodeKey[n] \in Int /\ span[e0] \subseteq Int
        BY <1>1, <1>2 DEF TypeOK
      <4> QED BY <1>5, <4>1, <4>2 DEF Towards
    <3>2. CASE e # e0
      <4>1. ptr'[e] = ptr[e] /\ ptr[e] \in Linked /\ ptr[e] # n /\ e \in LiveEdge /\ ptr[e] \in Node
        BY <1>1, <1>2, <1>5, <1>8, <2>1, <3>2 DEF LinksInv, Linked
      <4>2. /\ Left(ptr[e]) \in Edge \ {Left(n), Right(n)}
            /\ Right(ptr[e]) \in Edge \ {Left(n), Right(n)}
        BY <1>2, <4>1, EdgesOfNode
      <4>3. e \in Edge \ {Left(n), Right(n)}
        BY <1>4, <4>1
      <4>4. \A k \in span[e] : Towards(k, ptr[e])' \in {Left(ptr[e]), Right(ptr[e])}
                                /\ Towards(k, ptr[e])' = Towards(k, ptr[e])
        BY <1>3, <4>1 DEF Towards
      <4>5. \A k \in span[e] : k # nodeKey[ptr[e]] => k \in span[Towards(k, ptr[e])]
        BY <1>1, <2>1, <4>1 DEF SpanInv
      <4>6. span'[e] = span[e] /\ nodeKey' = nodeKey
        BY <1>3, <1>5, <4>3
      <4> QED BY <1>5, <4>1, <4>2, <4>4, <4>5, <4>6
    <3> QED BY <3>1, <3>2
  <2>2. \A e \in LiveEdge : span'[e] = span[e]
    BY <1>4, <1>5, <1>8
  <2>3. /\ span'[Left(n)] \subseteq span[e0] /\ span'[Right(n)] \subseteq span[e0]
        /\ span'[Left(n)] \cap span'[Right(n)] = {}
        /\ nodeKey[n] \notin span'[Left(n)] /\ nodeKey[n] \notin span'[Right(n)]
    <3>1. span[e0] \subseteq Int
      BY <1>1, <1>2 DEF TypeOK
    <3> QED BY <1>2, <1>5, <3>1
  <2>4. ASSUME NEW e \in LiveEdge', ptr'[e] = Null
        PROVE  \/ e \in {Left(n), Right(n)}
               \/ e \in LiveEdge /\ e # e0 /\ ptr[e] = Null /\ span'[e] = span[e]
    BY <1>2, <1>5, <1>7, <1>8, <2>2, <2>4
  <2>5. \A e, f \in LiveEdge' : e # f /\ ptr'[e] = Null /\ ptr'[f] = Null => span'[e] \cap span'[f] = {}
    <3>1. \A e \in LiveEdge : e # e0 /\ ptr[e] = Null => span[e] \cap span[e0] = {}
      BY <1>1, <1>2 DEF SpanInv
    <3>2. \A e, f \in LiveEdge : e # f /\ ptr[e] = Null /\ ptr[f] = Null => span[e] \cap span[f] = {}
      BY <1>1 DEF SpanInv
    <3> QED BY <2>3, <2>4, <3>1, <3>2
  <2>6. \A e \in LiveEdge', m \in Linked' : ptr'[e] = Null => nodeKey'[m] \notin span'[e]
    <3>1. \A e \in LiveEdge, m \in Linked : ptr[e] = Null => nodeKey[m] \notin span[e]
      BY <1>1 DEF SpanInv
    <3>2. \A e \in LiveEdge : e # e0 /\ ptr[e] = Null => nodeKey[n] \notin span[e]
      BY <1>1, <1>2 DEF SpanInv
    <3> QED BY <1>2, <1>3, <1>6, <2>3, <2>4, <3>1, <3>2
  <2>7. \A m, l \in Linked' : nodeKey'[m] = nodeKey'[l] => m = l
    BY <1>1, <1>2, <1>3, <1>6, <1>10 DEF SpanInv
  <2>8. span'[Root] = Key
    BY <1>1, <1>4, <1>5, EdgesOfNode DEF SpanInv
  <2> QED BY <2>1, <2>5, <2>6, <2>7, <2>8 DEF SpanInv
<1>12. ThreadInv(t)'
  <2>1. pc'[t] = "publish"
    BY <1>1, <1>3 DEF TypeOK
  <2> QED BY <1>1, <1>2, <1>3, <1>6, <1>7, <2>1 DEF ThreadInv
<1>13. ASSUME NEW u \in Thread \ {t} PROVE ThreadInv(u)'
  <2>1. ThreadInv(u) /\ (newNode[u] # Null => newNode[u] # n /\ newNode[u] \in alloc)
    BY DEF IInv, ThreadsInv, ThreadInv
  <2>2. pc'[u] = pc[u]
    BY <1>1, <1>3 DEF TypeOK
  <2>3. \A e \in LiveEdge : span'[e] = span[e]
    BY <1>4, <1>5, <1>8
  <2> QED BY <1>1, <1>3, <1>6, <2>1, <2>2, <2>3, ThreadFrame
<1>14. ThreadsInv'
  BY <1>3, <1>12, <1>13 DEF IInv, ThreadsInv
<1> QED BY <1>2, <1>6, <1>9, <1>10, <1>11, <1>14

\* Every step keeps the invariant.
LEMMA NextInv ==
  ASSUME IInv, [Next]_vars
  PROVE  IInv'
<1>1. TypeOK'
  BY TypeStep
<1>2. LinksInv' /\ SpanInv' /\ ThreadsInv'
  <2>1. CASE UNCHANGED vars
    <3>1. Linked' = Linked /\ LiveEdge' = LiveEdge
      BY <2>1, TreeUnchanged DEF vars
    <3>2. LinksInv'
      BY <2>1, <3>1 DEF vars, IInv, LinksInv
    <3>3. SpanInv'
      BY <2>1, <3>1 DEF vars, IInv, SpanInv, Towards
    <3>4. ThreadsInv'
      BY <2>1, <3>1 DEF vars, IInv, ThreadsInv, ThreadInv
    <3> QED BY <3>2, <3>3, <3>4
  <2>2. ASSUME NEW t \in Thread, CompareExchangeEdge(t)
        PROVE  LinksInv' /\ SpanInv' /\ ThreadsInv'
    <3>1. CASE ptr[edge[t]] = Null
      BY <2>2, <3>1, LinkStep
    <3>2. CASE ptr[edge[t]] # Null
      <4>1. pc[t] = "cas" /\ SearchFromNode(t, ptr[edge[t]])
            /\ UNCHANGED <<shared, op, key, newNode, result>>
        BY <2>2, <3>2 DEF CompareExchangeEdge, shared
      <4> QED BY <3>2, <4>1, SearchStep
    <3> QED BY <3>1, <3>2
  <2> QED
    BY <2>1, <2>2, CallStep, LoadLastSearchStep, LoadEdgeStep, AllocateNodeStep,
       PublishNewNodeStep, DestroyNodeStep, StoreFoundNodeStep, DestroyMapStep
    DEF Next, Step
<1> QED BY <1>1, <1>2 DEF IInv

\* No two nodes of the tree have the same key, whatever inserts raced, and
\* each is linked once; types are kept.
THEOREM TreeInvariant == Spec => []IInv
<1>1. Init => IInv
  BY InitInv
<1>2. IInv /\ [Next]_vars => IInv'
  BY NextInv
<1> QED BY <1>1, <1>2, PTL DEF Spec

\* ConcurrentMap never follows a pointer to a node that has been destroyed.
THEOREM Safe == Spec => []NoDangling
<1>1. IInv => NoDangling
  <2> SUFFICES ASSUME IInv PROVE NoDangling
    OBVIOUS
  <2>1. Linked \subseteq alloc
    BY DEF IInv, LinksInv, Linked
  <2> QED BY <2>1 DEF IInv, LinksInv, ThreadsInv, ThreadInv, LiveEdge, NoDangling
<1> QED BY <1>1, TreeInvariant, PTL

-----------------------------------------------------------------------------
\* Nothing leaks.  Every node of the tree is reached from the root: an
\* invariant of its own, because the destructor gives back what it reaches.
Reached == alloc = Linked \cup Carried /\ Linked \subseteq Tree

LEMMA CarriedFacts ==
  ASSUME IInv
  PROVE  /\ Carried \subseteq alloc
         /\ \A n \in Carried : n \in Linked <=> \E t \in Thread : pc[t] = "publish" /\ newNode[t] = n
BY DEF IInv, TypeOK, ThreadsInv, ThreadInv, Carried

\* A step that leaves the edges alone leaves the tree alone.
LEMMA ReachedFrame ==
  ASSUME Reached, ptr' = ptr, alloc' = alloc, Carried' \cup Linked = Carried \cup Linked
  PROVE  Reached'
<1>1. Linked' = Linked
  BY TreeUnchanged
<1>2. Tree' = Tree
  BY DEF Tree
<1> QED BY <1>1, <1>2 DEF Reached

\* A thread that carries nothing, before and after, has no part in Carried.
LEMMA CarriedReturn ==
  ASSUME IInv, NEW t \in Thread, NEW n, NEW inserted, Return(t, n, inserted),
         newNode[t] = Null \/ newNode[t] \in Linked
  PROVE  Carried' \cup Linked = Carried \cup Linked
<1>1. newNode' = [newNode EXCEPT ![t] = Null] /\ newNode \in [Thread -> Node \cup {Null}]
  BY DEF Return, IInv, TypeOK
<1>2. newNode'[t] = Null /\ \A u \in Thread \ {t} : newNode'[u] = newNode[u]
  BY <1>1
<1>3. Null \notin Node
  OBVIOUS
<1> QED BY <1>2, <1>3 DEF Carried

\* A fresh node joins those that are carried, and its edges were null before.
LEMMA ReachedAllocate ==
  ASSUME IInv, Reached, NEW t \in Thread, AllocateNode(t)
  PROVE  Reached'
<1>1. TypeOK /\ LinksInv /\ ThreadInv(t)
  BY DEF IInv, ThreadsInv
<1>2. PICK n \in Node \ alloc :
         /\ alloc' = alloc \cup {n} /\ newNode' = [newNode EXCEPT ![t] = n]
         /\ ptr' = [ptr EXCEPT ![Left(n)] = Null, ![Right(n)] = Null]
  BY DEF AllocateNode
<1>3. n \notin Linked
  BY <1>1, <1>2 DEF LinksInv, Linked
<1>4. ptr[Left(n)] = Null /\ ptr[Right(n)] = Null
  BY <1>1, <1>3, EdgesOfNode DEF LinksInv, LiveEdge
<1>5. ptr' = ptr
  BY <1>1, <1>2, <1>4, EdgesOfNode DEF TypeOK
<1>6. Linked' = Linked /\ Tree' = Tree
  BY <1>5, TreeUnchanged DEF Tree
<1>7. newNode[t] = Null
  BY <1>1 DEF AllocateNode, ThreadInv
<1>8. newNode'[t] = n /\ \A u \in Thread \ {t} : newNode'[u] = newNode[u]
  BY <1>1, <1>2 DEF TypeOK
<1>9. Carried' = Carried \cup {n}
  BY <1>7, <1>8 DEF Carried
<1> QED BY <1>2, <1>6, <1>9 DEF Reached

\* What is closed under the new edges is closed under the old ones and has
\* the node from which the new node hangs.
LEMMA ReachedLink ==
  ASSUME IInv, Reached, NEW t \in Thread, CompareExchangeEdge(t), ptr[edge[t]] = Null
  PROVE  Reached'
<1> DEFINE n == newNode[t]
           e0 == edge[t]
<1>1. TypeOK /\ ThreadInv(t)
  BY DEF IInv, ThreadsInv
<1>2. e0 \in Edge /\ e0 \in LiveEdge /\ n \in Node
  BY <1>1 DEF ThreadInv, TypeOK, CompareExchangeEdge
<1>3. ptr' = [ptr EXCEPT ![e0] = n] /\ UNCHANGED <<alloc, newNode>>
  BY DEF CompareExchangeEdge
<1>4. ptr'[e0] = n /\ \A e \in Edge \ {e0} : ptr'[e] = ptr[e]
  BY <1>1, <1>2, <1>3 DEF TypeOK
<1>5. Linked' = Linked \cup {n}
  BY LinkStep
<1>6. Carried' = Carried /\ n \in Carried
  BY <1>2, <1>3 DEF Carried
<1>7. ASSUME NEW S \in SUBSET Node,
             \A e \in Edge : ptr'[e] \in Node /\ (e = Root \/ e[1] \in S) => ptr'[e] \in S
      PROVE  Linked \cup {n} \subseteq S
  <2>1. \A e \in Edge : ptr[e] \in Node /\ (e = Root \/ e[1] \in S) => ptr[e] \in S
    BY <1>4, <1>7
  <2>2. Linked \subseteq S
    BY <2>1 DEF Reached, Tree
  <2>3. e0 = Root \/ e0[1] \in S
    BY <1>2, <2>2 DEF LiveEdge
  <2> QED BY <1>2, <1>4, <1>7, <2>2, <2>3
<1>8. Linked' \subseteq Tree'
  BY <1>2, <1>5, <1>7 DEF Tree, Linked
<1> QED BY <1>3, <1>5, <1>6, <1>8 DEF Reached

LEMMA ReachedDestroyNode ==
  ASSUME IInv, Reached, NEW t \in Thread, DestroyNode(t)
  PROVE  Reached'
<1>1. TypeOK /\ ThreadInv(t)
  BY DEF IInv, ThreadsInv
<1>2. newNode[t] \in Node /\ newNode[t] \notin Linked
  BY <1>1 DEF ThreadInv, TypeOK, DestroyNode
<1>3. /\ alloc' = alloc \ {newNode[t]} /\ ptr' = ptr /\ newNode'[t] = Null
      /\ \A u \in Thread \ {t} : newNode'[u] = newNode[u]
  BY <1>1 DEF DestroyNode, TypeOK
<1>4. \A u \in Thread \ {t} : newNode[u] # newNode[t]
  BY <1>2 DEF IInv, ThreadsInv
<1>5. Carried' = Carried \ {newNode[t]}
  BY <1>2, <1>3, <1>4 DEF Carried
<1>6. Linked' = Linked /\ Tree' = Tree
  BY <1>3, TreeUnchanged DEF Tree
<1> QED BY <1>2, <1>3, <1>5, <1>6 DEF Reached

LEMMA ReachedStep ==
  ASSUME IInv, Reached, [Next]_vars
  PROVE  Reached'
<1>1. CASE UNCHANGED vars
  BY <1>1, ReachedFrame DEF vars, Carried
<1>2. ASSUME NEW t \in Thread, NEW f \in {"find", "getOrInsert"}, NEW k \in Key, Call(t, f, k)
      PROVE  Reached'
  BY <1>2, ReachedFrame DEF Call, shared, Carried
<1>3. ASSUME NEW t \in Thread, NEW n, NEW inserted, Return(t, n, inserted), ptr' = ptr, alloc' = alloc,
             pc[t] \in {"last", "store", "publish"} \/ (pc[t] = "load" /\ op[t] = "find")
      PROVE  Reached'
  <2>1. newNode[t] = Null \/ newNode[t] \in Linked
    BY <1>3 DEF IInv, ThreadsInv, ThreadInv
  <2> QED BY <1>3, <2>1, CarriedReturn, ReachedFrame
<1>4. ASSUME NEW t \in Thread, LoadLastSearch(t) PROVE Reached'
  <2>1. CASE LastHit(t)
    BY <1>3, <1>4, <2>1 DEF LoadLastSearch, shared
  <2>2. CASE ~LastHit(t)
    BY <1>4, <2>2, ReachedFrame DEF LoadLastSearch, shared, Carried
  <2> QED BY <2>1, <2>2
<1>5. ASSUME NEW t \in Thread, LoadEdge(t) PROVE Reached'
  <2>1. CASE Return(t, Null, FALSE) /\ op[t] = "find"
    BY <1>3, <1>5, <2>1 DEF LoadEdge, shared
  <2>2. CASE newNode' = newNode
    BY <1>5, <2>2, ReachedFrame DEF LoadEdge, shared, Carried
  <2> QED BY <1>5, <2>1, <2>2 DEF LoadEdge, NullEdge
<1>6. ASSUME NEW t \in Thread, CompareExchangeEdge(t) PROVE Reached'
  <2>1. CASE ptr[edge[t]] = Null
    BY <1>6, <2>1, ReachedLink
  <2>2. CASE ptr[edge[t]] # Null
    BY <1>6, <2>2, ReachedFrame DEF CompareExchangeEdge, Carried
  <2> QED BY <2>1, <2>2
<1>7. ASSUME NEW t \in Thread, PublishNewNode(t) PROVE Reached'
  BY <1>3, <1>7 DEF PublishNewNode
<1>8. ASSUME NEW t \in Thread, StoreFoundNode(t) PROVE Reached'
  BY <1>3, <1>8 DEF StoreFoundNode
<1>9. CASE DestroyMap
  <2>1. Carried = {}
    BY <1>9 DEF DestroyMap, IInv, ThreadsInv, ThreadInv, Carried
  <2>2. Linked' = {} /\ Carried' = {}
    BY <1>9, <2>1 DEF DestroyMap, Linked, Carried, locals
  <2>3. alloc' = {}
    BY <1>9, <2>1 DEF DestroyMap, Reached
  <2> QED BY <2>2, <2>3 DEF Reached
<1> QED
  BY <1>1, <1>2, <1>4, <1>5, <1>6, <1>7, <1>8, <1>9, ReachedAllocate, ReachedDestroyNode DEF Next, Step

\* A node that was allocated is linked or carried by exactly one thread: the
\* loser of a race gives its node back, and the destructor gives back the rest.
THEOREM NothingLeaks == Spec => []NoLeak
<1>1. Init => IInv /\ Reached
  <2> SUFFICES ASSUME Init PROVE Reached
    BY InitInv
  <2>1. Linked = {} /\ Carried = {} /\ alloc = {}
    BY EdgesOfNode DEF Init, EmptyMap, Linked, Carried
  <2> QED BY <2>1 DEF Reached
<1>2. IInv /\ Reached /\ [Next]_vars => (IInv /\ Reached)'
  BY NextInv, ReachedStep
<1>3. IInv /\ Reached => NoLeak
  <2> SUFFICES ASSUME IInv, Reached PROVE NoLeak
    OBVIOUS
  <2>1. Linked \cap Carried = {n \in Node : \E t \in Thread : pc[t] = "publish" /\ newNode[t] = n}
    <3>1. Linked \subseteq Node /\ Carried \subseteq Node
      BY DEF Linked, Carried
    <3>2. \A n \in Node : (\E t \in Thread : pc[t] = "publish" /\ newNode[t] = n) => n \in Carried
      BY DEF Carried
    <3> QED BY <3>1, <3>2, CarriedFacts
  <2> QED BY <2>1 DEF NoLeak, Reached, IInv, ThreadsInv
<1> QED BY <1>1, <1>2, <1>3, PTL DEF Spec

-----------------------------------------------------------------------------
\* A search goes down.  The spans of a node's edges are parts of the span of
\* the edge it hangs from, without the node's own key.
Nested ==
  \A e \in Edge : ptr[e] # Null =>
    /\ nodeKey[ptr[e]] \in span[e]
    /\ span[Left(ptr[e])] \subseteq span[e] \ {nodeKey[ptr[e]]}
    /\ span[Right(ptr[e])] \subseteq span[e] \ {nodeKey[ptr[e]]}

LEMMA NestedFrame ==
  ASSUME IInv, Nested, ptr' = ptr, span' = span, \A n \in Linked : nodeKey'[n] = nodeKey[n]
  PROVE  Nested'
<1>1. \A e \in Edge : ptr[e] # Null => ptr[e] \in Linked
  BY LinkedFacts DEF IInv
<1> QED BY <1>1 DEF Nested

LEMMA NestedLink ==
  ASSUME IInv, Nested, NEW t \in Thread, CompareExchangeEdge(t), ptr[edge[t]] = Null
  PROVE  Nested'
<1> DEFINE n == newNode[t]
           e0 == edge[t]
<1>1. TypeOK /\ ThreadInv(t) /\ LinksInv
  BY DEF IInv, ThreadsInv
<1>2. /\ n \in Node /\ n \notin Linked /\ e0 \in LiveEdge /\ e0 \in Edge
      /\ key[t] \in span[e0] /\ nodeKey[n] = key[t] /\ key[t] \in Int
  BY <1>1 DEF CompareExchangeEdge, ThreadInv, TypeOK
<1>3. /\ ptr' = [ptr EXCEPT ![e0] = n] /\ nodeKey' = nodeKey
      /\ span' = [span EXCEPT ![Left(n)] = {k \in span[e0] : k < nodeKey[n]},
                              ![Right(n)] = {k \in span[e0] : k > nodeKey[n]}]
  BY DEF CompareExchangeEdge, Narrow
<1>4. /\ Left(n) \in Edge /\ Right(n) \in Edge /\ Left(n) # Right(n)
      /\ Left(n) \notin LiveEdge /\ Right(n) \notin LiveEdge
  BY <1>1, <1>2, EdgesOfNode DEF LiveEdge, LinksInv
<1>5. /\ ptr'[e0] = n
      /\ \A e \in Edge \ {e0} : ptr'[e] = ptr[e]
      /\ span'[Left(n)] = {k \in span[e0] : k < nodeKey[n]}
      /\ span'[Right(n)] = {k \in span[e0] : k > nodeKey[n]}
      /\ \A e \in Edge \ {Left(n), Right(n)} : span'[e] = span[e]
  BY <1>1, <1>2, <1>3, <1>4 DEF TypeOK
<1>6. ASSUME NEW e \in Edge, ptr'[e] # Null
      PROVE  /\ nodeKey'[ptr'[e]] \in span'[e]
             /\ span'[Left(ptr'[e])] \subseteq span'[e] \ {nodeKey'[ptr'[e]]}
             /\ span'[Right(ptr'[e])] \subseteq span'[e] \ {nodeKey'[ptr'[e]]}
  <2>1. CASE e = e0
    <3>1. span'[e] = span[e0] /\ ptr'[e] = n
      BY <1>2, <1>4, <1>5, <2>1
    <3>2. span[e0] \subseteq Int
      BY <1>1, <1>2 DEF TypeOK
    <3>3. nodeKey[n] \in span[e0] /\ nodeKey[n] \in Int
      BY <1>2
    <3>4. span'[Left(n)] \subseteq span[e0] \ {nodeKey[n]}
      BY <1>5, <3>2, <3>3
    <3>5. span'[Right(n)] \subseteq span[e0] \ {nodeKey[n]}
      BY <1>5, <3>2, <3>3
    <3>6. nodeKey'[ptr'[e]] = nodeKey[n] /\ Left(ptr'[e]) = Left(n) /\ Right(ptr'[e]) = Right(n)
      BY <1>3, <3>1
    <3> HIDE DEF n, e0
    <3> QED BY <3>1, <3>3, <3>4, <3>5, <3>6
  <2>2. CASE e # e0
    <3>1. ptr'[e] = ptr[e] /\ ptr[e] # n /\ ptr[e] \in Node /\ e \in LiveEdge
      BY <1>1, <1>2, <1>5, <1>6, <2>2 DEF LinksInv, Linked, TypeOK
    <3>2. {e, Left(ptr[e]), Right(ptr[e])} \subseteq Edge \ {Left(n), Right(n)}
      BY <1>2, <1>4, <3>1, EdgesOfNode
    <3>3. /\ span'[e] = span[e] /\ span'[Left(ptr[e])] = span[Left(ptr[e])]
          /\ span'[Right(ptr[e])] = span[Right(ptr[e])]
      BY <1>5, <3>2
    <3>4. nodeKey'[ptr'[e]] = nodeKey[ptr[e]]
      BY <1>3, <3>1
    <3>5. ptr[e] # Null
      BY <1>6, <3>1
    <3>6. Left(ptr'[e]) = Left(ptr[e]) /\ Right(ptr'[e]) = Right(ptr[e])
      BY <3>1
    <3>7. /\ nodeKey[ptr[e]] \in span[e]
          /\ span[Left(ptr[e])] \subseteq span[e] \ {nodeKey[ptr[e]]}
          /\ span[Right(ptr[e])] \subseteq span[e] \ {nodeKey[ptr[e]]}
      BY <3>5 DEF Nested
    <3> QED BY <3>3, <3>4, <3>6, <3>7
  <2> QED BY <2>1, <2>2
<1> QED BY <1>6 DEF Nested

LEMMA NestedStep ==
  ASSUME IInv, Nested, [Next]_vars
  PROVE  Nested'
<1>1. CASE UNCHANGED <<ptr, span, nodeKey>>
  BY <1>1, NestedFrame
<1>2. ASSUME NEW t \in Thread, CompareExchangeEdge(t) PROVE Nested'
  BY <1>1, <1>2, NestedLink DEF CompareExchangeEdge
<1>3. ASSUME NEW t \in Thread, AllocateNode(t) PROVE Nested'
  <2>1. TypeOK /\ LinksInv
    BY DEF IInv
  <2>2. PICK n \in Node \ alloc :
           /\ nodeKey' = [nodeKey EXCEPT ![n] = key[t]]
           /\ ptr' = [ptr EXCEPT ![Left(n)] = Null, ![Right(n)] = Null]
           /\ span' = span
    BY <1>3 DEF AllocateNode
  <2>3. n \notin Linked
    BY <2>1, <2>2 DEF LinksInv, Linked
  <2>4. ptr[Left(n)] = Null /\ ptr[Right(n)] = Null
    BY <2>1, <2>3, EdgesOfNode DEF LinksInv, LiveEdge
  <2>5. ptr' = ptr
    BY <2>1, <2>2, <2>4, EdgesOfNode DEF TypeOK
  <2>6. \A m \in Linked : nodeKey'[m] = nodeKey[m]
    BY <2>1, <2>2, <2>3 DEF TypeOK, Linked
  <2> QED BY <2>2, <2>5, <2>6, NestedFrame
<1>4. ASSUME NEW t \in Thread, DestroyNode(t) PROVE Nested'
  <2>1. TypeOK /\ newNode[t] \notin Linked
    BY <1>4 DEF DestroyNode, IInv, ThreadsInv, ThreadInv
  <2>2. \A m \in Linked : nodeKey'[m] = nodeKey[m]
    BY <1>4, <2>1 DEF DestroyNode, TypeOK, Linked
  <2> QED BY <1>4, <2>2, NestedFrame DEF DestroyNode
<1>5. CASE DestroyMap
  BY <1>5 DEF DestroyMap, Nested
<1>6. ASSUME NEW t \in Thread,
             LoadLastSearch(t) \/ LoadEdge(t) \/ PublishNewNode(t) \/ StoreFoundNode(t)
      PROVE  Nested'
  BY <1>1, <1>6 DEF LoadLastSearch, LoadEdge, PublishNewNode, StoreFoundNode, shared
<1>7. ASSUME NEW t \in Thread, NEW f, NEW k, Call(t, f, k) PROVE Nested'
  BY <1>1, <1>7 DEF Call, shared
<1> QED BY <1>1, <1>2, <1>3, <1>4, <1>5, <1>6, <1>7 DEF Next, Step, vars

\* One step of a thread that is in a call, as SearchDescends wants it.
Descends(t) ==
  pc[t] # "idle" /\ <<pc[t], edge[t]>>' # <<pc[t], edge[t]>> =>
    \/ Rank[pc'[t]] > Rank[pc[t]]
    \/ span'[edge'[t]] \subseteq span[edge[t]] /\ span'[edge'[t]] # span[edge[t]]

\* The edge a search takes from a node has fewer keys than the one it came by.
LEMMA TowardsNarrows ==
  ASSUME IInv, Nested, NEW e \in Edge, ptr[e] # Null, NEW k
  PROVE  /\ span[Towards(k, ptr[e])] \subseteq span[e]
         /\ span[Towards(k, ptr[e])] # span[e]
<1>1. /\ nodeKey[ptr[e]] \in span[e]
      /\ span[Left(ptr[e])] \subseteq span[e] \ {nodeKey[ptr[e]]}
      /\ span[Right(ptr[e])] \subseteq span[e] \ {nodeKey[ptr[e]]}
  BY DEF Nested
<1>2. Towards(k, ptr[e]) = Left(ptr[e]) \/ Towards(k, ptr[e]) = Right(ptr[e])
  BY DEF Towards
<1> QED BY <1>1, <1>2

\* A thread that moves and whose search goes on from a node it met.
LEMMA FromNodeDescends ==
  ASSUME IInv, Nested, NEW t \in Thread, pc[t] \in {"load", "cas"}, ptr[edge[t]] # Null,
         SearchFromNode(t, ptr[edge[t]]), span' = span
  PROVE  Descends(t)
<1>1. TypeOK
  BY DEF IInv
<1>2. CASE nodeKey[ptr[edge[t]]] = key[t]
  <2>1. pc'[t] \in {"store", "destroy"}
    BY <1>1, <1>2 DEF SearchFromNode, Goto, TypeOK
  <2> QED BY <2>1 DEF Descends, Rank
<1>3. CASE nodeKey[ptr[edge[t]]] # key[t]
  <2>1. edge'[t] = Towards(key[t], ptr[edge[t]]) /\ edge[t] \in Edge
    BY <1>1, <1>3 DEF SearchFromNode, TypeOK
  <2> QED BY <2>1, TowardsNarrows DEF Descends
<1> QED BY <1>2, <1>3

LEMMA StepDescends ==
  ASSUME IInv, Nested, [Next]_vars
  PROVE  \A t \in Thread : Descends(t)
<1>1. TypeOK
  BY DEF IInv
<1>2. ASSUME NEW t \in Thread, Step(t) PROVE Descends(t)
  <2>1. CASE LoadLastSearch(t)
    <3>1. pc[t] = "last" /\ pc'[t] \in {"idle", "load"}
      BY <1>1, <2>1 DEF LoadLastSearch, Return, Goto, TypeOK
    <3> QED BY <3>1 DEF Descends, Rank
  <2>2. CASE LoadEdge(t)
    <3>1. CASE ptr[edge[t]] = Null
      <4>1. pc[t] = "load" /\ pc'[t] \in {"idle", "alloc", "cas"}
        BY <1>1, <2>2, <3>1 DEF LoadEdge, NullEdge, Return, Goto, TypeOK
      <4> QED BY <4>1 DEF Descends, Rank
    <3>2. CASE ptr[edge[t]] # Null
      BY <2>2, <3>2, FromNodeDescends DEF LoadEdge, shared
    <3> QED BY <3>1, <3>2
  <2>3. CASE AllocateNode(t)
    <3>1. pc[t] = "alloc" /\ pc'[t] = "cas"
      BY <1>1, <2>3 DEF AllocateNode, Goto, TypeOK
    <3> QED BY <3>1 DEF Descends, Rank
  <2>4. CASE CompareExchangeEdge(t)
    <3>1. CASE ptr[edge[t]] = Null
      <4>1. pc[t] = "cas" /\ pc'[t] = "publish"
        BY <1>1, <2>4, <3>1 DEF CompareExchangeEdge, Goto, TypeOK
      <4> QED BY <4>1 DEF Descends, Rank
    <3>2. CASE ptr[edge[t]] # Null
      BY <2>4, <3>2, FromNodeDescends DEF CompareExchangeEdge
    <3> QED BY <3>1, <3>2
  <2>5. CASE PublishNewNode(t)
    <3>1. pc[t] = "publish" /\ pc'[t] = "idle"
      BY <1>1, <2>5 DEF PublishNewNode, Return, Goto, TypeOK
    <3> QED BY <3>1 DEF Descends, Rank
  <2>6. CASE DestroyNode(t)
    <3>1. pc[t] = "destroy" /\ pc'[t] = "store"
      BY <1>1, <2>6 DEF DestroyNode, Goto, TypeOK
    <3> QED BY <3>1 DEF Descends, Rank
  <2>7. CASE StoreFoundNode(t)
    <3>1. pc[t] = "store" /\ pc'[t] = "idle"
      BY <1>1, <2>7 DEF StoreFoundNode, Return, Goto, TypeOK
    <3> QED BY <3>1 DEF Descends, Rank
  <2> QED BY <1>2, <2>1, <2>2, <2>3, <2>4, <2>5, <2>6, <2>7 DEF Step
<1>3. ASSUME NEW t \in Thread, NEW u \in Thread, t # u, Step(u)
      PROVE  pc'[t] = pc[t] /\ edge'[t] = edge[t]
  <2>1. CASE LoadLastSearch(u)
    BY <1>1, <1>3, <2>1 DEF LoadLastSearch, Return, Goto, TypeOK
  <2>2. CASE LoadEdge(u)
    BY <1>1, <1>3, <2>2 DEF LoadEdge, NullEdge, SearchFromNode, Return, Goto, TypeOK
  <2>3. CASE AllocateNode(u)
    BY <1>1, <1>3, <2>3 DEF AllocateNode, Goto, TypeOK
  <2>4. CASE CompareExchangeEdge(u)
    BY <1>1, <1>3, <2>4 DEF CompareExchangeEdge, SearchFromNode, Goto, TypeOK
  <2>5. CASE PublishNewNode(u) \/ StoreFoundNode(u)
    BY <1>1, <1>3, <2>5 DEF PublishNewNode, StoreFoundNode, Return, Goto, TypeOK
  <2>6. CASE DestroyNode(u)
    BY <1>1, <1>3, <2>6 DEF DestroyNode, Goto, TypeOK
  <2> QED BY <1>3, <2>1, <2>2, <2>3, <2>4, <2>5, <2>6 DEF Step
<1>4. ASSUME NEW t \in Thread, NEW u \in Thread, NEW f, NEW k, Call(u, f, k)
      PROVE  Descends(t)
  BY <1>1, <1>4 DEF Call, Goto, TypeOK, Descends
<1>5. CASE DestroyMap \/ UNCHANGED vars
  BY <1>5 DEF DestroyMap, Descends, locals, vars
<1> QED BY <1>2, <1>3, <1>4, <1>5 DEF Next, Descends

\* A call takes a bounded number of steps, however many inserts it loses to:
\* what SearchDescends says of the loops of find and getOrInsert.
THEOREM SearchGoesDown == Spec => SearchDescends
<1>1. Init => IInv /\ Nested
  <2> SUFFICES ASSUME Init PROVE Nested
    BY InitInv
  <2> QED BY DEF Init, EmptyMap, Nested
<1>2. IInv /\ Nested /\ [Next]_vars => (IInv /\ Nested)'
  BY NextInv, NestedStep
<1>3. IInv /\ Nested /\ [Next]_vars => [\A t \in Thread : Descends(t)]_vars
  BY StepDescends
<1>4. Spec => [][\A t \in Thread : Descends(t)]_vars
  BY <1>1, <1>2, <1>3, PTL DEF Spec
<1> QED BY <1>4 DEF SearchDescends, Descends

-----------------------------------------------------------------------------
LEMMA EntryInUnique ==
  ASSUME NEW S, NEW keyOf, NEW n \in S, \A m \in S : keyOf[m] = keyOf[n] => m = n
  PROVE  EntryIn(S, keyOf, keyOf[n]) = n
BY DEF EntryIn

LEMMA EntryInNone ==
  ASSUME NEW S, NEW keyOf, NEW k, \A m \in S : keyOf[m] # k
  PROVE  EntryIn(S, keyOf, k) = Null
BY DEF EntryIn

\* The entry of a key that has a node, and of one that has none.
LEMMA EntriesFacts ==
  ASSUME IInv
  PROVE  /\ \A n \in Linked : nodeKey[n] \in Key /\ Entries[nodeKey[n]] = n
         /\ \A k \in Key : (\A n \in Linked : nodeKey[n] # k) => Entries[k] = Null
<1>1. ASSUME NEW n \in Linked PROVE nodeKey[n] \in Key /\ Entries[nodeKey[n]] = n
  <2>1. nodeKey[n] \in Key
    BY DEF IInv, TypeOK, Linked
  <2>2. EntryIn(Linked, nodeKey, nodeKey[n]) = n
    BY EntryInUnique DEF IInv, SpanInv
  <2> QED BY <2>1, <2>2 DEF Entries
<1>2. ASSUME NEW k \in Key, \A n \in Linked : nodeKey[n] # k PROVE Entries[k] = Null
  BY <1>2, EntryInNone DEF Entries
<1> QED BY <1>1, <1>2

\* Entries that a step leaves alone.
LEMMA EntriesFrame ==
  ASSUME IInv, NEW k \in Key, \A n \in Linked : n \in Linked' /\ nodeKey'[n] = nodeKey[n],
         \A n \in Linked' \ Linked : nodeKey'[n] # k,
         \A n, m \in Linked' : nodeKey'[n] = nodeKey'[m] => n = m
  PROVE  EntryIn(Linked', nodeKey', k) = EntryIn(Linked, nodeKey, k)
<1>1. CASE \E n \in Linked : nodeKey[n] = k
  <2>1. PICK n \in Linked : nodeKey[n] = k
    BY <1>1
  <2>2. EntryIn(Linked, nodeKey, k) = n
    BY <2>1, EntryInUnique DEF IInv, SpanInv
  <2>3. n \in Linked' /\ nodeKey'[n] = k
    BY <2>1
  <2>4. EntryIn(Linked', nodeKey', nodeKey'[n]) = n
    BY <2>3, EntryInUnique
  <2> QED BY <2>2, <2>3, <2>4
<1>2. CASE \A n \in Linked : nodeKey[n] # k
  <2>1. \A n \in Linked' : nodeKey'[n] # k
    BY <1>2
  <2>2. EntryIn(Linked', nodeKey', k) = Null
    BY <2>1, EntryInNone
  <2>3. EntryIn(Linked, nodeKey, k) = Null
    BY <1>2, EntryInNone
  <2> QED BY <2>2, <2>3
<1> QED BY <1>1, <1>2

LEMMA EntriesUnchanged ==
  ASSUME IInv, IInv', ptr' = ptr, \A n \in Linked : nodeKey'[n] = nodeKey[n]
  PROVE  Entries' = Entries
<1>1. Linked' = Linked
  BY TreeUnchanged
<1>2. \A n, m \in Linked' : nodeKey'[n] = nodeKey'[m] => n = m
  BY DEF IInv, SpanInv
<1>3. \A k \in Key : EntryIn(Linked', nodeKey', k) = EntryIn(Linked, nodeKey, k)
  BY <1>1, <1>2, EntriesFrame
<1> QED BY <1>3 DEF Entries

\* A step in which one thread neither takes effect nor is called.
LEMMA Stutter ==
  ASSUME IInv, IInv', NEW t \in Thread, ptr' = ptr,
         \A n \in Linked : nodeKey'[n] = nodeKey[n],
         \A u \in Thread \ {t} :
            /\ op'[u] = op[u] /\ pc'[u] = pc[u] /\ key'[u] = key[u]
            /\ newNode'[u] = newNode[u] /\ result'[u] = result[u],
         Requests'[t] = Requests[t], Replies'[t] = Replies[t]
  PROVE  UNCHANGED <<Entries, Requests, Replies>>
<1>1. Entries' = Entries
  BY EntriesUnchanged
<1>2. Requests' = Requests
  BY DEF Requests
<1>3. Replies' = Replies
  BY DEF Replies
<1> QED BY <1>1, <1>2, <1>3

\* A return that gives the key's entry is a lookup.
LEMMA LookupStep ==
  ASSUME IInv, IInv', NEW t \in Thread, pc[t] \notin {"idle", "publish"}, NEW n,
         Return(t, n, FALSE), UNCHANGED <<ptr, nodeKey>>,
         n = Entries[key[t]], op[t] = "find" \/ n # Null
  PROVE  Map!Lookup(t)
<1>1. TypeOK /\ ThreadInv(t)
  BY DEF IInv, ThreadsInv
<1>2. Entries' = Entries
  BY EntriesUnchanged
<1>3. Requests[t] = [op |-> op[t], key |-> key[t]] /\ op[t] # "none"
  BY <1>1 DEF Requests, ThreadInv
<1>4. Requests' = [Requests EXCEPT ![t] = [op |-> "none", key |-> Null]]
  BY <1>1 DEF Requests, Return, Goto, TypeOK
<1>5. Replies' = [Replies EXCEPT ![t] = Result(n, FALSE)]
  BY <1>1 DEF Replies, Return, Goto, TypeOK
<1>6. Requests[t] # [op |-> "none", key |-> Null]
  BY <1>3
<1>7. Requests[t].op = op[t] /\ Requests[t].key = key[t]
  BY <1>3
<1> QED
  BY <1>2, <1>4, <1>5, <1>6, <1>7 DEF Map!Lookup, Map!Answer, Map!NoRequest, Map!Reply, Result

LEMMA CallRefines ==
  ASSUME IInv, IInv', NEW t \in Thread, NEW f \in {"find", "getOrInsert"}, NEW k \in Key,
         Call(t, f, k)
  PROVE  Map!Call(t, f, k)
<1>1. TypeOK
  BY DEF IInv
<1>2. Entries' = Entries
  BY EntriesUnchanged DEF Call, shared
<1>3. Requests[t] = [op |-> "none", key |-> Null]
  BY DEF Requests, Call
<1>4. Requests' = [Requests EXCEPT ![t] = [op |-> f, key |-> k]]
  BY <1>1 DEF Requests, Call, Goto, TypeOK
<1>5. Replies' = [Replies EXCEPT ![t] = Result(Null, FALSE)]
  BY <1>1 DEF Replies, Call, Goto, TypeOK
<1> QED BY <1>2, <1>3, <1>4, <1>5 DEF Map!Call, Map!NoRequest, Map!Reply, Result

LEMMA LoadLastSearchRefines ==
  ASSUME IInv, IInv', NEW t \in Thread, LoadLastSearch(t)
  PROVE  Map!Lookup(t) \/ UNCHANGED <<Entries, Requests, Replies>>
<1>1. TypeOK /\ LinksInv /\ UNCHANGED <<ptr, nodeKey>> /\ pc[t] = "last"
  BY DEF IInv, LoadLastSearch, shared
<1>2. CASE LastHit(t)
  <2>1. lastSearch \in Linked /\ nodeKey[lastSearch] = key[t] /\ lastSearch # Null
    BY <1>1, <1>2 DEF LastHit, LinksInv
  <2>2. Entries[key[t]] = lastSearch
    BY <2>1, EntriesFacts
  <2>3. Return(t, lastSearch, FALSE)
    BY <1>2 DEF LoadLastSearch
  <2> QED BY <1>1, <2>1, <2>2, <2>3, LookupStep
<1>3. CASE ~LastHit(t)
  <2>1. pc' = [pc EXCEPT ![t] = "load"] /\ UNCHANGED <<op, key, newNode, result>>
    BY <1>3 DEF LoadLastSearch, Goto
  <2>2. pc'[t] = "load" /\ \A u \in Thread \ {t} : pc'[u] = pc[u]
    BY <1>1, <2>1 DEF TypeOK
  <2>3. Requests'[t] = Requests[t] /\ Replies'[t] = Replies[t]
    BY <1>1, <2>1, <2>2 DEF Requests, Replies
  <2> QED BY <1>1, <2>1, <2>2, <2>3, Stutter
<1> QED BY <1>2, <1>3

\* Where searchFromNode leads, the call is still to take effect.
LEMMA SearchRefines ==
  ASSUME IInv, IInv', NEW t \in Thread, NEW n, pc[t] \in {"load", "cas"}, SearchFromNode(t, n),
         UNCHANGED <<ptr, nodeKey, op, key, newNode, result>>
  PROVE  UNCHANGED <<Entries, Requests, Replies>>
<1>1. TypeOK
  BY DEF IInv
<1>2. pc'[t] \in {"store", "destroy", "load"} /\ \A u \in Thread \ {t} : pc'[u] = pc[u]
  BY <1>1 DEF SearchFromNode, Goto, TypeOK
<1>3. Requests'[t] = Requests[t] /\ Replies'[t] = Replies[t]
  BY <1>2 DEF Requests, Replies
<1> QED BY <1>2, <1>3, Stutter

LEMMA LoadEdgeRefines ==
  ASSUME IInv, IInv', NEW t \in Thread, LoadEdge(t)
  PROVE  Map!Lookup(t) \/ UNCHANGED <<Entries, Requests, Replies>>
<1>1. TypeOK /\ ThreadInv(t) /\ SpanInv /\ UNCHANGED <<ptr, nodeKey>> /\ pc[t] = "load"
  BY DEF IInv, ThreadsInv, LoadEdge, shared
<1>2. CASE ptr[edge[t]] # Null
  BY <1>1, <1>2, SearchRefines DEF LoadEdge
<1>3. CASE ptr[edge[t]] = Null /\ op[t] = "find"
  <2>1. Return(t, Null, FALSE)
    BY <1>3 DEF LoadEdge, NullEdge
  <2>2. \A n \in Linked : nodeKey[n] # key[t]
    BY <1>1, <1>3 DEF ThreadInv, SpanInv
  <2>3. Entries[key[t]] = Null
    BY <1>1, <2>2, EntriesFacts DEF ThreadInv
  <2> QED BY <1>1, <1>3, <2>1, <2>3, LookupStep
<1>4. CASE ptr[edge[t]] = Null /\ op[t] # "find"
  <2>1. pc' = [pc EXCEPT ![t] = IF newNode[t] = Null THEN "alloc" ELSE "cas"]
        /\ UNCHANGED <<op, key, newNode, result>>
    BY <1>4 DEF LoadEdge, NullEdge, Goto
  <2>2. pc'[t] \in {"alloc", "cas"} /\ \A u \in Thread \ {t} : pc'[u] = pc[u]
    BY <1>1, <2>1 DEF TypeOK
  <2>3. Requests'[t] = Requests[t] /\ Replies'[t] = Replies[t]
    BY <1>1, <2>1, <2>2 DEF Requests, Replies
  <2> QED BY <1>1, <2>1, <2>2, <2>3, Stutter
<1> QED BY <1>2, <1>3, <1>4

LEMMA AllocateNodeRefines ==
  ASSUME IInv, IInv', NEW t \in Thread, AllocateNode(t)
  PROVE  UNCHANGED <<Entries, Requests, Replies>>
<1>1. TypeOK /\ ThreadInv(t) /\ LinksInv /\ pc[t] = "alloc"
  BY DEF IInv, ThreadsInv, AllocateNode
<1>2. PICK n \in Node \ alloc :
        /\ newNode' = [newNode EXCEPT ![t] = n]
        /\ nodeKey' = [nodeKey EXCEPT ![n] = key[t]]
        /\ ptr' = [ptr EXCEPT ![Left(n)] = Null, ![Right(n)] = Null]
  BY DEF AllocateNode
<1>3. n \notin Linked
  BY <1>1, <1>2 DEF LinksInv, Linked
<1>4. ptr[Left(n)] = Null /\ ptr[Right(n)] = Null
  BY <1>1, <1>2, <1>3, EdgesOfNode DEF LinksInv, LiveEdge
<1>5. ptr' = ptr
  BY <1>1, <1>2, <1>4 DEF TypeOK
<1>6. \A m \in Linked : nodeKey'[m] = nodeKey[m]
  BY <1>1, <1>2, <1>3 DEF TypeOK, Linked
<1>7. /\ pc'[t] = "cas" /\ UNCHANGED <<op, key, result>>
      /\ \A u \in Thread \ {t} : pc'[u] = pc[u] /\ newNode'[u] = newNode[u]
  BY <1>1, <1>2 DEF AllocateNode, Goto, TypeOK
<1>8. Requests'[t] = Requests[t] /\ Replies'[t] = Replies[t]
  BY <1>1, <1>7 DEF Requests, Replies
<1> QED BY <1>5, <1>6, <1>7, <1>8, Stutter

LEMMA DestroyNodeRefines ==
  ASSUME IInv, IInv', NEW t \in Thread, DestroyNode(t)
  PROVE  UNCHANGED <<Entries, Requests, Replies>>
<1>1. TypeOK /\ ThreadInv(t) /\ pc[t] = "destroy" /\ ptr' = ptr
  BY DEF IInv, ThreadsInv, DestroyNode
<1>2. newNode[t] \notin Linked
  BY <1>1 DEF ThreadInv
<1>3. \A m \in Linked : nodeKey'[m] = nodeKey[m]
  BY <1>1, <1>2 DEF TypeOK, Linked, DestroyNode
<1>4. /\ pc'[t] = "store" /\ UNCHANGED <<op, key, result>>
      /\ \A u \in Thread \ {t} : pc'[u] = pc[u] /\ newNode'[u] = newNode[u]
  BY <1>1 DEF DestroyNode, Goto, TypeOK
<1>5. Requests'[t] = Requests[t] /\ Replies'[t] = Replies[t]
  BY <1>1, <1>4 DEF Requests, Replies
<1> QED BY <1>1, <1>3, <1>4, <1>5, Stutter

LEMMA PublishNewNodeRefines ==
  ASSUME IInv, IInv', NEW t \in Thread, PublishNewNode(t)
  PROVE  UNCHANGED <<Entries, Requests, Replies>>
<1>1. TypeOK /\ pc[t] = "publish" /\ UNCHANGED <<ptr, nodeKey>>
  BY DEF IInv, PublishNewNode
<1>2. /\ pc'[t] = "idle" /\ result'[t] = Result(newNode[t], TRUE)
      /\ \A u \in Thread \ {t} :
            /\ op'[u] = op[u] /\ pc'[u] = pc[u] /\ key'[u] = key[u]
            /\ newNode'[u] = newNode[u] /\ result'[u] = result[u]
  BY <1>1 DEF PublishNewNode, Return, Goto, TypeOK
<1>3. Requests'[t] = Requests[t] /\ Replies'[t] = Replies[t]
  BY <1>1, <1>2 DEF Requests, Replies
<1> QED BY <1>1, <1>2, <1>3, Stutter

LEMMA StoreFoundNodeRefines ==
  ASSUME IInv, IInv', NEW t \in Thread, StoreFoundNode(t)
  PROVE  Map!Lookup(t)
<1>1. ThreadInv(t) /\ TypeOK /\ pc[t] = "store" /\ UNCHANGED <<ptr, nodeKey>>
      /\ Return(t, node[t], FALSE)
  BY DEF IInv, ThreadsInv, StoreFoundNode
<1>2. node[t] \in Linked /\ nodeKey[node[t]] = key[t] /\ node[t] # Null
  BY <1>1 DEF ThreadInv, Linked
<1>3. Entries[key[t]] = node[t]
  BY <1>2, EntriesFacts
<1> QED BY <1>1, <1>2, <1>3, LookupStep

\* The compare-exchange that links the node is the insertion.
LEMMA LinkRefines ==
  ASSUME IInv, IInv', NEW t \in Thread, CompareExchangeEdge(t), ptr[edge[t]] = Null
  PROVE  \E n \in Node : Map!Insert(t, n)
<1> DEFINE n == newNode[t]
<1>1. TypeOK /\ ThreadInv(t) /\ pc[t] = "cas"
  BY DEF IInv, ThreadsInv, CompareExchangeEdge
<1>2. /\ n \in Node /\ nodeKey[n] = key[t] /\ key[t] \in Key /\ op[t] = "getOrInsert"
      /\ n # Null
  BY <1>1 DEF ThreadInv, TypeOK
<1>3. Linked' = Linked \cup {n} /\ n \notin Linked /\ \A m \in Linked : nodeKey[m] # key[t]
  BY LinkStep
<1>4. /\ pc' = [pc EXCEPT ![t] = "publish"]
      /\ UNCHANGED <<nodeKey, op, key, newNode, result>>
  BY DEF CompareExchangeEdge, Goto
<1>5. \A m, l \in Linked' : nodeKey'[m] = nodeKey'[l] => m = l
  BY DEF IInv, SpanInv
<1>6. EntryIn(Linked', nodeKey', key[t]) = n
  <2>1. n \in Linked' /\ nodeKey'[n] = key[t]
    BY <1>2, <1>3, <1>4
  <2>2. \A m \in Linked' : nodeKey'[m] = nodeKey'[n] => m = n
    BY <1>5, <2>1
  <2> HIDE DEF n
  <2>3. EntryIn(Linked', nodeKey', nodeKey'[n]) = n
    BY <2>1, <2>2, EntryInUnique
  <2> QED BY <2>1, <2>3
<1>7. ASSUME NEW k \in Key, k # key[t]
      PROVE  EntryIn(Linked', nodeKey', k) = EntryIn(Linked, nodeKey, k)
  <2>1. \A m \in Linked' \ Linked : nodeKey'[m] # k
    BY <1>2, <1>3, <1>4, <1>7
  <2>2. \A m \in Linked : m \in Linked' /\ nodeKey'[m] = nodeKey[m]
    BY <1>3, <1>4
  <2> QED BY <1>5, <2>1, <2>2, EntriesFrame
<1>8. Entries' = [Entries EXCEPT ![key[t]] = n]
  BY <1>2, <1>6, <1>7 DEF Entries
<1>9. Entries[key[t]] = Null
  BY <1>2, <1>3, EntriesFacts
<1>10. \A k \in Key : Entries[k] # n
  <2> SUFFICES ASSUME NEW k \in Key PROVE Entries[k] # n
    OBVIOUS
  <2>1. CASE \E m \in Linked : nodeKey[m] = k
    BY <1>3, <2>1, EntriesFacts
  <2>2. CASE \A m \in Linked : nodeKey[m] # k
    BY <1>2, <2>2, EntriesFacts
  <2> QED BY <2>1, <2>2
<1>11. Requests[t] = [op |-> op[t], key |-> key[t]]
  BY <1>1 DEF Requests
<1>12. Requests' = [Requests EXCEPT ![t] = [op |-> "none", key |-> Null]]
  BY <1>1, <1>4 DEF Requests, TypeOK
<1>13. Replies' = [Replies EXCEPT ![t] = Result(n, TRUE)]
  BY <1>1, <1>4 DEF Replies, TypeOK
<1>14. Map!Insert(t, n)
  BY <1>2, <1>8, <1>9, <1>10, <1>11, <1>12, <1>13
  DEF Map!Insert, Map!Answer, Map!NoRequest, Map!Reply, Result
<1> QED BY <1>2, <1>14

LEMMA DestroyMapRefines ==
  ASSUME IInv, IInv', DestroyMap
  PROVE  Map!Destroy
<1>1. \A t \in Thread : Requests[t] = [op |-> "none", key |-> Null]
  BY DEF DestroyMap, Requests
<1>2. Linked' = {}
  BY EdgesOfNode DEF DestroyMap, Linked
<1>3. Entries' = [k \in Key |-> Null]
  <2>1. \A k \in Key : EntryIn(Linked', nodeKey', k) = Null
    BY <1>2, EntryInNone
  <2> QED BY <2>1 DEF Entries
<1>4. Requests' = Requests /\ Replies' = Replies
  BY DEF DestroyMap, locals, Requests, Replies
<1> QED BY <1>1, <1>3, <1>4 DEF Map!Destroy, Map!NoRequest

LEMMA InitRefines ==
  ASSUME Init
  PROVE  Map!Init
<1>1. Linked = {}
  BY EdgesOfNode DEF Init, EmptyMap, Linked
<1>2. Entries = [k \in Key |-> Null]
  <2>1. \A k \in Key : EntryIn(Linked, nodeKey, k) = Null
    BY <1>1, EntryInNone
  <2> QED BY <2>1 DEF Entries
<1>3. Requests = [t \in Thread |-> [op |-> "none", key |-> Null]]
  BY DEF Init, Requests
<1>4. Replies = [t \in Thread |-> Result(Null, FALSE)]
  BY DEF Init, Replies
<1> QED BY <1>2, <1>3, <1>4 DEF Map!Init, Map!NoRequest, Map!Reply, Result

LEMMA NextRefines ==
  ASSUME IInv, IInv', [Next]_vars
  PROVE  [Map!Next]_<<Entries, Requests, Replies>>
<1>1. CASE UNCHANGED vars
  <2>1. Entries' = Entries
    BY <1>1, EntriesUnchanged DEF vars
  <2>2. pc' = pc /\ op' = op /\ key' = key /\ newNode' = newNode /\ result' = result
    BY <1>1 DEF vars
  <2>3. Requests' = Requests /\ Replies' = Replies
    BY <2>2 DEF Requests, Replies
  <2> QED BY <2>1, <2>3
<1>2. ASSUME NEW t \in Thread, CompareExchangeEdge(t)
      PROVE  (\E n \in Node : Map!Insert(t, n)) \/ UNCHANGED <<Entries, Requests, Replies>>
  <2>1. CASE ptr[edge[t]] = Null
    BY <1>2, <2>1, LinkRefines
  <2>2. CASE ptr[edge[t]] # Null
    <3>1. pc[t] = "cas" /\ SearchFromNode(t, ptr[edge[t]])
          /\ UNCHANGED <<ptr, nodeKey, op, key, newNode, result>>
      BY <1>2, <2>2 DEF CompareExchangeEdge
    <3> QED BY <3>1, SearchRefines
  <2> QED BY <2>1, <2>2
<1>3. ASSUME NEW t \in Thread, Step(t)
      PROVE  Map!Lookup(t) \/ (\E n \in Node : Map!Insert(t, n))
             \/ UNCHANGED <<Entries, Requests, Replies>>
  BY <1>2, <1>3, LoadLastSearchRefines, LoadEdgeRefines, AllocateNodeRefines,
     PublishNewNodeRefines, DestroyNodeRefines, StoreFoundNodeRefines DEF Step
<1>4. CASE \E t \in Thread, f \in {"find", "getOrInsert"}, k \in Key : Call(t, f, k)
  BY <1>4, CallRefines DEF Map!Next
<1>5. CASE DestroyMap
  BY <1>5, DestroyMapRefines DEF Map!Next
<1> QED BY <1>1, <1>3, <1>4, <1>5 DEF Next, Map!Next

\* Find and getOrInsert of Concurrent.h implement an atomic map: however the
\* calls of any number of threads interleave, each takes effect at one instant,
\* one of them inserts each key, and all get the same entry.
THEOREM Refinement == Spec => ImplementsMap
<1>1. Init => Map!Init
  BY InitRefines
<1>2. IInv /\ IInv' /\ [Next]_vars => [Map!Next]_<<Entries, Requests, Replies>>
  BY NextRefines
<1> QED BY <1>1, <1>2, TreeInvariant, PTL DEF Spec, ImplementsMap, Map!Spec
==============================================================================
