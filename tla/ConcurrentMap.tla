---------------------------- MODULE ConcurrentMap ----------------------------
(***************************************************************************)
(* ConcurrentMap of Concurrent.h: a binary search tree that threads search *)
(* and extend without a lock.  Nodes are added by a compare-exchange on a  *)
(* null edge and are never removed; the tree goes as a whole when the map  *)
(* is destroyed, which the program must not let race with anything.        *)
(*                                                                         *)
(* Every load, store and compare-exchange of Root, Left, Right and         *)
(* LastSearch is a step.  A node is its address, so an address that was    *)
(* given back can be handed out again.  span is auxiliary: the code does   *)
(* not keep it.                                                            *)
(***************************************************************************)
EXTENDS Integers, FiniteSets

CONSTANTS Thread, Key, Node, Null

ASSUME ConcurrentMapAssumption ==
  /\ Key \subseteq Int /\ Key # {}
  /\ Null \notin Node \cup Key

VARIABLES
  ptr,         \* the value of every edge: Root, and Left and Right of each node
  nodeKey,     \* the key of each node's Payload
  lastSearch,  \* LastSearch
  alloc,       \* the nodes that are allocated
  op,          \* the member function each thread is in
  pc,          \* where it is there
  key,         \* its parameter
  edge,        \* its local variables
  node,
  newNode,
  result,      \* what its last call returned
  span         \* auxiliary: the keys a search for which passes each edge

shared == <<ptr, nodeKey, lastSearch, alloc, span>>
locals == <<op, pc, key, edge, node, newNode, result>>
vars == <<ptr, nodeKey, lastSearch, alloc, op, pc, key, edge, node, newNode, result, span>>

Root == <<Null, "Root">>
Left(n) == <<n, "Left">>
Right(n) == <<n, "Right">>
Edge == {Root} \cup (Node \X {"Left", "Right"})

Linked == {n \in Node : \E e \in Edge : ptr[e] = n}
Carried == {n \in Node : \E t \in Thread : newNode[t] = n}

Result(n, inserted) == [entry |-> n, inserted |-> inserted]

\* What is left in a node's memory once its destructor has run; never read.
Garbage == CHOOSE k \in Key : TRUE

\* The map's constructor.
EmptyMap ==
  /\ ptr = [e \in Edge |-> Null]
  /\ lastSearch = Null
  /\ span = [e \in Edge |-> IF e = Root THEN Key ELSE {}]

Init ==
  /\ EmptyMap
  /\ nodeKey = [n \in Node |-> Garbage]
  /\ alloc = {}
  /\ op = [t \in Thread |-> "none"]
  /\ pc = [t \in Thread |-> "idle"]
  /\ key = [t \in Thread |-> Null]
  /\ edge = [t \in Thread |-> Root]
  /\ node = [t \in Thread |-> Null]
  /\ newNode = [t \in Thread |-> Null]
  /\ result = [t \in Thread |-> Result(Null, FALSE)]

-----------------------------------------------------------------------------
Goto(t, label) == pc' = [pc EXCEPT ![t] = label]

Call(t, f, k) ==
  /\ pc[t] = "idle"
  /\ Goto(t, "last")
  /\ op' = [op EXCEPT ![t] = f]
  /\ key' = [key EXCEPT ![t] = k]
  /\ result' = [result EXCEPT ![t] = Result(Null, FALSE)]
  /\ UNCHANGED <<shared, edge, node, newNode>>

\* The return of a call ends the life of its local variables.
Return(t, n, inserted) ==
  /\ Goto(t, "idle")
  /\ result' = [result EXCEPT ![t] = Result(n, inserted)]
  /\ op' = [op EXCEPT ![t] = "none"]
  /\ key' = [key EXCEPT ![t] = Null]
  /\ edge' = [edge EXCEPT ![t] = Root]
  /\ node' = [node EXCEPT ![t] = Null]
  /\ newNode' = [newNode EXCEPT ![t] = Null]

\* The node found last has the key that is wanted.
LastHit(t) == lastSearch # Null /\ nodeKey[lastSearch] = key[t]

LoadLastSearch(t) ==
  /\ pc[t] = "last"
  /\ IF LastHit(t)
     THEN Return(t, lastSearch, FALSE)
     ELSE /\ Goto(t, "load")
          /\ edge' = [edge EXCEPT ![t] = Root]
          /\ UNCHANGED <<op, key, node, newNode, result>>
  /\ UNCHANGED shared

MutantTowards(k, n) == IF k > nodeKey[n] THEN Left(n) ELSE Right(n)  \* an operand is swapped

\* compareWithKey, and the child the search goes to.
Towards(k, n) == IF k < nodeKey[n] THEN Left(n) ELSE Right(n)

MutantSearchFromNode(t, n) ==  \* does not descend
  \/ /\ nodeKey[n] = key[t]
     /\ node' = [node EXCEPT ![t] = n]
     /\ Goto(t, IF newNode[t] = Null THEN "store" ELSE "destroy")
     /\ UNCHANGED <<edge>>
  \/ /\ nodeKey[n] # key[t]
     /\ Goto(t, "load")
     /\ UNCHANGED <<node, edge>>

\* From searchFromNode to the end of the block.
SearchFromNode(t, n) ==
  \/ /\ nodeKey[n] = key[t]
     /\ node' = [node EXCEPT ![t] = n]
     /\ Goto(t, IF newNode[t] = Null THEN "store" ELSE "destroy")
     /\ UNCHANGED <<edge>>
  \/ /\ nodeKey[n] # key[t]
     /\ edge' = [edge EXCEPT ![t] = Towards(key[t], n)]
     /\ Goto(t, "load")
     /\ UNCHANGED <<node>>

NullEdge(t) ==
  \/ op[t] = "find" /\ Return(t, Null, FALSE)
  \/ /\ op[t] = "getOrInsert"
     /\ Goto(t, IF newNode[t] = Null THEN "alloc" ELSE "cas")
     /\ UNCHANGED <<op, key, edge, node, newNode, result>>

LoadEdge(t) ==
  /\ pc[t] = "load"
  /\ IF ptr[edge[t]] = Null
     THEN NullEdge(t)
     ELSE SearchFromNode(t, ptr[edge[t]]) /\ UNCHANGED <<op, key, newNode, result>>
  /\ UNCHANGED shared

\* Allocate gives any address that is not in use; the constructor of Node
\* makes its edges null.
AllocateNode(t) ==
  /\ pc[t] = "alloc"
  /\ \E n \in Node \ alloc :
       /\ alloc' = alloc \cup {n}
       /\ newNode' = [newNode EXCEPT ![t] = n]
       /\ nodeKey' = [nodeKey EXCEPT ![n] = key[t]]
       /\ ptr' = [ptr EXCEPT ![Left(n)] = Null, ![Right(n)] = Null]
  /\ Goto(t, "cas")
  /\ UNCHANGED <<lastSearch, span, op, key, edge, node, result>>

Narrow(n, e) ==
  span' = [span EXCEPT ![Left(n)] = {k \in span[e] : k < nodeKey[n]},
                       ![Right(n)] = {k \in span[e] : k > nodeKey[n]}]

MutantCas(t) ==  \* a plain store in place of the compare-exchange
  /\ pc[t] = "cas"
  /\ ptr' = [ptr EXCEPT ![edge[t]] = newNode[t]]
  /\ Narrow(newNode[t], edge[t])
  /\ Goto(t, "publish")
  /\ UNCHANGED <<nodeKey, lastSearch, alloc, op, key, edge, node, newNode, result>>

CompareExchangeEdge(t) ==
  /\ pc[t] = "cas"
  /\ \/ /\ ptr[edge[t]] = Null
        /\ ptr' = [ptr EXCEPT ![edge[t]] = newNode[t]]
        /\ Narrow(newNode[t], edge[t])
        /\ Goto(t, "publish")
        /\ UNCHANGED <<edge, node>>
     \/ /\ ptr[edge[t]] # Null
        /\ SearchFromNode(t, ptr[edge[t]])
        /\ UNCHANGED <<ptr, span>>
  /\ UNCHANGED <<nodeKey, lastSearch, alloc, op, key, newNode, result>>

PublishNewNode(t) ==
  /\ pc[t] = "publish"
  /\ lastSearch' = newNode[t]
  /\ Return(t, newNode[t], TRUE)
  /\ UNCHANGED <<ptr, nodeKey, alloc, span>>

MutantDestroyNode(t) ==  \* caches the node that was just destroyed
  /\ pc[t] = "destroy"
  /\ alloc' = alloc \ {newNode[t]}
  /\ lastSearch' = newNode[t]
  /\ newNode' = [newNode EXCEPT ![t] = Null]
  /\ Goto(t, "store")
  /\ UNCHANGED <<ptr, nodeKey, span, op, key, edge, node, result>>

\* The node was never linked, so only this thread knows it.
DestroyNode(t) ==
  /\ pc[t] = "destroy"
  /\ alloc' = alloc \ {newNode[t]}
  /\ nodeKey' = [nodeKey EXCEPT ![newNode[t]] = Garbage]
  /\ newNode' = [newNode EXCEPT ![t] = Null]
  /\ Goto(t, "store")
  /\ UNCHANGED <<ptr, lastSearch, span, op, key, edge, node, result>>

StoreFoundNode(t) ==
  /\ pc[t] = "store"
  /\ lastSearch' = node[t]
  /\ Return(t, node[t], FALSE)
  /\ UNCHANGED <<ptr, nodeKey, alloc, span>>

\* What destroyTree(Root) visits: the least set with the root node and the
\* children of its members.
Tree ==
  {n \in Node :
     \A S \in SUBSET Node :
       (\A e \in Edge : ptr[e] \in Node /\ (e = Root \/ e[1] \in S) => ptr[e] \in S) => n \in S}

MutantDestroyMap ==  \* the right children are not visited
  /\ \A t \in Thread : pc[t] = "idle"
  /\ alloc' = alloc \ {n \in Tree : \A m \in Node : ptr[Right(m)] # n}
  /\ ptr' = [e \in Edge |-> Null]
  /\ lastSearch' = Null
  /\ span' = [e \in Edge |-> IF e = Root THEN Key ELSE {}]
  /\ UNCHANGED <<nodeKey, locals>>

\* The destructor, with no call underway; another map may be constructed in
\* its place.
DestroyMap ==
  /\ \A t \in Thread : pc[t] = "idle"
  /\ alloc' = alloc \ Tree
  /\ nodeKey' = [n \in Node |-> IF n \in Tree THEN Garbage ELSE nodeKey[n]]
  /\ ptr' = [e \in Edge |-> Null]
  /\ lastSearch' = Null
  /\ span' = [e \in Edge |-> IF e = Root THEN Key ELSE {}]
  /\ UNCHANGED locals

Step(t) ==
  \/ LoadLastSearch(t) \/ LoadEdge(t) \/ AllocateNode(t) \/ CompareExchangeEdge(t)
  \/ PublishNewNode(t) \/ DestroyNode(t) \/ StoreFoundNode(t)

Next ==
  \/ \E t \in Thread, f \in {"find", "getOrInsert"}, k \in Key : Call(t, f, k)
  \/ \E t \in Thread : Step(t)
  \/ DestroyMap

Spec == Init /\ [][Next]_vars

-----------------------------------------------------------------------------
Label == {"idle", "last", "load", "alloc", "cas", "publish", "destroy", "store"}

TypeOK ==
  /\ ptr \in [Edge -> Node \cup {Null}]
  /\ nodeKey \in [Node -> Key]
  /\ lastSearch \in Node \cup {Null}
  /\ alloc \in SUBSET Node
  /\ op \in [Thread -> {"none", "find", "getOrInsert"}]
  /\ pc \in [Thread -> Label]
  /\ key \in [Thread -> Key \cup {Null}]
  /\ edge \in [Thread -> Edge]
  /\ node \in [Thread -> Node \cup {Null}]
  /\ newNode \in [Thread -> Node \cup {Null}]
  /\ result \in [Thread -> [entry : Node \cup {Null}, inserted : BOOLEAN]]
  /\ span \in [Edge -> SUBSET Key]

\* A node that was allocated is linked or carried by one thread, and nothing
\* else is allocated: the node of the thread that loses a race is destroyed
\* once, and the destructor destroys all others.
NoLeak ==
  /\ alloc = Linked \cup Carried
  /\ Linked \cap Carried = {n \in Node : \E t \in Thread : pc[t] = "publish" /\ newNode[t] = n}
  /\ \A t, u \in Thread : t # u /\ newNode[t] # Null => newNode[t] # newNode[u]

\* Nothing a thread follows is a destroyed node: neither LastSearch nor a
\* link nor the edge it is about to read.
NoDangling ==
  /\ lastSearch \in alloc \cup {Null}
  /\ \A t \in Thread : edge[t] = Root \/ edge[t][1] \in alloc

\* The edges a search can come to.
LiveEdge == {Root} \cup {e \in Edge : e[1] \in Linked}

\* A node hangs from one edge, and that edge is part of the tree.
LinksInv ==
  /\ \A e \in Edge : ptr[e] # Null => e \in LiveEdge /\ ptr[e] \in alloc
  /\ \A e, f \in Edge : ptr[e] # Null /\ ptr[e] = ptr[f] => e = f
  /\ lastSearch \in Linked \cup {Null}

\* A null edge of the tree is the place for the keys of its span, and for no
\* key that has a node already.
SpanInv ==
  /\ span[Root] = Key
  /\ \A e \in Edge : ptr[e] # Null =>
       \A k \in span[e] : k # nodeKey[ptr[e]] => k \in span[Towards(k, ptr[e])]
  /\ \A e, f \in LiveEdge : e # f /\ ptr[e] = Null /\ ptr[f] = Null => span[e] \cap span[f] = {}
  /\ \A e \in LiveEdge, n \in Linked : ptr[e] = Null => nodeKey[n] \notin span[e]
  /\ \A n, m \in Linked : nodeKey[n] = nodeKey[m] => n = m

\* What a thread relies on at each place in find and getOrInsert.
ThreadInv(t) ==
  /\ pc[t] # "idle" => op[t] # "none" /\ key[t] \in Key
  /\ pc[t] \in {"alloc", "cas", "publish", "destroy"} => op[t] = "getOrInsert"
  /\ edge[t] \in LiveEdge
  /\ pc[t] = "idle" => edge[t] = Root
  /\ pc[t] \in {"load", "alloc", "cas"} => key[t] \in span[edge[t]]
  /\ pc[t] \in {"cas", "publish", "destroy"} => newNode[t] # Null
  /\ pc[t] \in {"idle", "last", "alloc", "store"} => newNode[t] = Null
  /\ newNode[t] # Null =>
       op[t] = "getOrInsert" /\ newNode[t] \in alloc /\ nodeKey[newNode[t]] = key[t]
  /\ newNode[t] # Null /\ pc[t] # "publish" => newNode[t] \notin Linked
  /\ pc[t] = "publish" => newNode[t] \in Linked
  /\ pc[t] \in {"destroy", "store"} => node[t] \in Linked /\ nodeKey[node[t]] = key[t]

ThreadsInv ==
  /\ \A t \in Thread : ThreadInv(t)
  /\ \A t, u \in Thread : t # u /\ newNode[t] # Null => newNode[t] # newNode[u]

\* Holds initially and is kept by every step.
IInv == TypeOK /\ LinksInv /\ SpanInv /\ ThreadsInv

\* The abstract map the tree stands for.  A call has taken effect once its
\* node is linked, before it stores LastSearch and returns.
EntryIn(S, keyOf, k) ==
  IF \E n \in S : keyOf[n] = k THEN CHOOSE n \in S : keyOf[n] = k ELSE Null

Entries == [k \in Key |-> EntryIn(Linked, nodeKey, k)]

Requests ==
  [t \in Thread |-> IF pc[t] \in {"idle", "publish"}
                    THEN [op |-> "none", key |-> Null] ELSE [op |-> op[t], key |-> key[t]]]

Replies ==
  [t \in Thread |-> IF pc[t] = "publish" THEN Result(newNode[t], TRUE) ELSE result[t]]

Map == INSTANCE AtomicMap WITH
  Entry <- Node, entries <- Entries, request <- Requests, reply <- Replies

\* Every call takes effect at one instant: getOrInsert at the compare-exchange
\* that links its node or when it finds one, find when it finds a node or
\* reads the null edge its key would hang from.  So the calls of all threads
\* agree on one entry per key, exactly one of them has inserted it, and no
\* call misses an entry whose insertion had returned.
ImplementsMap == Map!Spec

\* The order of the places in one round of getOrInsert.
Rank ==
  [last |-> 1, load |-> 2, alloc |-> 3, cas |-> 4, publish |-> 5, destroy |-> 5, store |-> 6, idle |-> 7]

\* A call takes a bounded number of steps, however many inserts it loses to:
\* every step of it goes on in the round, or begins a round at an edge with
\* fewer keys.  A lost compare-exchange only ever sends the search down.
SearchDescends ==
  [][\A t \in Thread :
       pc[t] # "idle" /\ <<pc[t], edge[t]>>' # <<pc[t], edge[t]>> =>
         \/ Rank[pc'[t]] > Rank[pc[t]]
         \/ span'[edge'[t]] \subseteq span[edge[t]] /\ span'[edge'[t]] # span[edge[t]]]_vars
==============================================================================
