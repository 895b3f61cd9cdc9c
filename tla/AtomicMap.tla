------------------------------ MODULE AtomicMap ------------------------------
(***************************************************************************)
(* What a ConcurrentMap promises: each call of find and getOrInsert takes  *)
(* effect at one instant between its call and its return, on a map that    *)
(* only grows until it is destroyed.                                       *)
(***************************************************************************)
CONSTANTS Thread, Key, Entry, Null

VARIABLES
  entries,   \* the entry of each key, or Null
  request,   \* the call of each thread still to take effect
  reply      \* what the last call of each thread that took effect returns

NoRequest == [op |-> "none", key |-> Null]
Reply(entry, inserted) == [entry |-> entry, inserted |-> inserted]

Init ==
  /\ entries = [k \in Key |-> Null]
  /\ request = [t \in Thread |-> NoRequest]
  /\ reply = [t \in Thread |-> Reply(Null, FALSE)]

Call(t, op, k) ==
  /\ request[t] = NoRequest
  /\ request' = [request EXCEPT ![t] = [op |-> op, key |-> k]]
  /\ reply' = [reply EXCEPT ![t] = Reply(Null, FALSE)]
  /\ UNCHANGED entries

Answer(t, entry, inserted) ==
  /\ request' = [request EXCEPT ![t] = NoRequest]
  /\ reply' = [reply EXCEPT ![t] = Reply(entry, inserted)]

\* find and getOrInsert give the entry that is there; find gives null
\* otherwise.
Lookup(t) ==
  /\ request[t] # NoRequest
  /\ request[t].op = "find" \/ entries[request[t].key] # Null
  /\ Answer(t, entries[request[t].key], FALSE)
  /\ UNCHANGED entries

\* getOrInsert adds an entry that is not in the map yet.
Insert(t, entry) ==
  /\ request[t].op = "getOrInsert"
  /\ entries[request[t].key] = Null
  /\ \A k \in Key : entries[k] # entry
  /\ entries' = [entries EXCEPT ![request[t].key] = entry]
  /\ Answer(t, entry, TRUE)

Destroy ==
  /\ \A t \in Thread : request[t] = NoRequest
  /\ entries' = [k \in Key |-> Null]
  /\ UNCHANGED <<request, reply>>

Next ==
  \/ \E t \in Thread, op \in {"find", "getOrInsert"}, k \in Key : Call(t, op, k)
  \/ \E t \in Thread : Lookup(t)
  \/ \E t \in Thread, entry \in Entry : Insert(t, entry)
  \/ Destroy

Spec == Init /\ [][Next]_<<entries, request, reply>>
==============================================================================
