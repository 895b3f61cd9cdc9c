-------------------------- MODULE ExclusivityProofs --------------------------
(***************************************************************************)
(* Proofs about Exclusivity: the list of each thread is exact, so that     *)
(* accesses that conflict are always found, and accesses that end are too. *)
(***************************************************************************)
EXTENDS Exclusivity, TLAPS, FiniteSetTheorems, WellFoundedInduction

OpenAccess == [buffer : Buffer, pointer : Variable, action : Action, warningOnly : BOOLEAN]

TypeOK ==
  /\ head \in [Thread -> Buffer \cup {Null}]
  /\ access \in [Buffer -> [pointer : Variable \cup {Null}, action : Action,
                            next : Buffer \cup {Null}]]
  /\ disabled \in BOOLEAN
  /\ reported \in 0..MaxReported
  /\ open \in [Thread -> Seq(OpenAccess)]
  /\ silent \in [Thread -> SUBSET Buffer]
  /\ died \in {"no", "conflict", "access not found in set"}

\* A buffer serves one access.
BuffersInv ==
  /\ \A t, u \in Thread : \A i \in DOMAIN open[t], j \in DOMAIN open[u] :
       open[t][i].buffer = open[u][j].buffer => t = u /\ i = j
  /\ \A t, u \in Thread : silent[t] \cap Opened(u) = {}
  /\ \A t, u \in Thread : t # u => silent[t] \cap silent[u] = {}

\* Where the pointer to the i-th access of thread t should lead.
Link(t, i) == IF i \in DOMAIN open[t] THEN open[t][i].buffer ELSE Null

\* The pointers from the head of each thread go through its accesses.
LinksInv ==
  died # "conflict" =>
    /\ \A t \in Thread : head[t] = Link(t, 1)
    /\ \A t \in Thread : \A i \in DOMAIN open[t] :
         /\ access[open[t][i].buffer].pointer = open[t][i].pointer
         /\ access[open[t][i].buffer].action = open[t][i].action
         /\ access[open[t][i].buffer].next = Link(t, i + 1)

\* swift_endAccess can tell that an access is not in a list.
SilentInv == \A t \in Thread : \A b \in silent[t] : Untracked(b)

IInv ==
  TypeOK /\ BuffersInv /\ LinksInv /\ SilentInv /\ LawOfExclusivity /\ EndFindsAccess

-----------------------------------------------------------------------------
\* Sequences.

LEMMA RemoveAtFacts ==
  ASSUME NEW S, NEW s \in Seq(S), NEW i \in DOMAIN s
  PROVE  /\ RemoveAt(s, i) \in Seq(S) /\ Len(RemoveAt(s, i)) = Len(s) - 1
         /\ \A j \in 1..(i - 1) : RemoveAt(s, i)[j] = s[j]
         /\ \A j \in i..(Len(s) - 1) : RemoveAt(s, i)[j] = s[j + 1]
<1> DEFINE u == SubSeq(s, 1, i - 1)
           v == SubSeq(s, i + 1, Len(s))
<1>1. i \in Nat /\ 1 <= i /\ i <= Len(s) /\ Len(s) \in Nat
  OBVIOUS
<1>2. /\ u \in Seq(S) /\ Len(u) = i - 1
      /\ \A j \in 1..(i - 1) : u[j] = s[j]
  BY <1>1
<1>3. /\ v \in Seq(S) /\ Len(v) = Len(s) - i
      /\ \A j \in 1..(Len(s) - i) : v[j] = s[i + j]
  BY <1>1
<1> HIDE DEF u, v
<1>4. u \o v \in Seq(S) /\ Len(u \o v) = Len(s) - 1
  BY <1>1, <1>2, <1>3
<1>5. \A j \in 1..(i - 1) : (u \o v)[j] = s[j]
  BY <1>1, <1>2, <1>3
<1>6. ASSUME NEW j \in i..(Len(s) - 1) PROVE (u \o v)[j] = s[j + 1]
  <2>1. (u \o v)[j] = v[j - (i - 1)]
    BY <1>1, <1>2, <1>3
  <2>2. v[j - (i - 1)] = s[i + (j - (i - 1))]
    BY <1>1, <1>3
  <2> QED BY <1>1, <2>1, <2>2
<1>7. RemoveAt(s, i) = u \o v
  BY DEF RemoveAt, u, v
<1> QED BY <1>4, <1>5, <1>6, <1>7

LEMMA LeastExists ==
  ASSUME NEW S, S \subseteq Nat, S # {}
  PROVE  \E m \in S : \A n \in S : m <= n
<1> DEFINE R == OpToRel(<, Nat)
<1>1. IsWellFoundedOn(R, Nat)
  BY NatLessThanWellFounded, Zenon
<1> HIDE DEF R
<1>2. PICK m \in S : \A n \in S : ~(<<n, m>> \in R)
  BY <1>1, WFMin
<1>3. ASSUME NEW n \in S PROVE m <= n
  <2>1. SUFFICES ASSUME n < m PROVE FALSE
    OBVIOUS
  <2>2. <<n, m>> \in R
    BY <2>1 DEF R, OpToRel
  <2> QED BY <1>2, <2>2
<1> QED BY <1>3

LEMMA ConsFacts ==
  ASSUME NEW S, NEW s \in Seq(S), NEW x \in S
  PROVE  /\ Cons(x, s) \in Seq(S) /\ Len(Cons(x, s)) = Len(s) + 1
         /\ Cons(x, s)[1] = x
         /\ \A j \in 1..Len(s) : Cons(x, s)[j + 1] = s[j]
<1>1. /\ <<x>> \in Seq(S) /\ Len(<<x>>) = 1 /\ <<x>>[1] = x /\ Len(s) \in Nat
  OBVIOUS
<1>2. /\ <<x>> \o s \in Seq(S) /\ Len(<<x>> \o s) = Len(s) + 1 /\ (<<x>> \o s)[1] = x
  BY <1>1
<1>3. ASSUME NEW j \in 1..Len(s) PROVE (<<x>> \o s)[j + 1] = s[j]
  BY <1>1
<1> QED BY <1>2, <1>3 DEF Cons

-----------------------------------------------------------------------------
\* The walk along the list.

LEMMA OpenFacts ==
  ASSUME TypeOK, NEW t \in Thread
  PROVE  /\ open[t] \in Seq(OpenAccess) /\ Len(open[t]) \in Nat /\ DOMAIN open[t] = 1..Len(open[t])
         /\ \A i \in DOMAIN open[t] :
              /\ open[t][i] \in OpenAccess /\ open[t][i].buffer \in Buffer
              /\ open[t][i].buffer # Null
              /\ open[t][i].pointer \in Variable /\ open[t][i].pointer # Null
              /\ open[t][i].action \in Action /\ open[t][i].warningOnly \in BOOLEAN
<1>1. open[t] \in Seq(OpenAccess)
  BY DEF TypeOK
<1>2. /\ Len(open[t]) \in Nat /\ DOMAIN open[t] = 1..Len(open[t])
      /\ \A i \in DOMAIN open[t] : open[t][i] \in OpenAccess
  BY <1>1
<1> QED BY <1>1, <1>2, ExclusivityAssumption DEF OpenAccess

\* A thread has no more accesses than there are buffers.
LEMMA AccessesFit ==
  ASSUME TypeOK, BuffersInv, NEW t \in Thread
  PROVE  Cardinality(Buffer) \in Nat /\ Len(open[t]) \in Nat /\ Len(open[t]) <= Cardinality(Buffer)
<1> DEFINE n == Len(open[t])
           f == [i \in 1..n |-> open[t][i].buffer]
<1>1. n \in Nat /\ DOMAIN open[t] = 1..n
  BY OpenFacts
<1>2. \A i \in 1..n : open[t][i].buffer \in Buffer
  BY <1>1, OpenFacts
<1>3. f \in Injection(1..n, Buffer)
  <2>1. f \in [1..n -> Buffer]
    BY <1>2
  <2>2. \A i, j \in 1..n : f[i] = f[j] => i = j
    BY <1>1 DEF BuffersInv
  <2> HIDE DEF f, n
  <2> QED BY <2>1, <2>2 DEF Injection, IsInjective
<1>4. Cardinality(1..n) <= Cardinality(Buffer)
  BY <1>3, FS_Injection, ExclusivityAssumption
<1>5. Cardinality(1..n) = n
  <2> HIDE DEF n
  <2>1. n \in Int /\ 1 \in Int
    BY <1>1
  <2>2. Cardinality(1..n) = IF 1 > n THEN 0 ELSE n - 1 + 1
    BY <2>1, FS_Interval
  <2> QED BY <1>1, <2>2
<1>6. Cardinality(Buffer) \in Nat
  BY FS_CardinalityType, ExclusivityAssumption
<1> QED BY <1>1, <1>4, <1>5, <1>6

\* The loops over the list see the thread's accesses and then its end.
LEMMA WalkFacts ==
  ASSUME TypeOK, BuffersInv, LinksInv, died # "conflict", NEW t \in Thread
  PROVE  Walk(t) = [i \in 1..(Cardinality(Buffer) + 1) |-> Link(t, i)]
<1> DEFINE N == Cardinality(Buffer) + 1
           Step(cur, i) == IF i = 1 THEN head[t]
                           ELSE IF cur[i - 1] = Null THEN Null ELSE access[cur[i - 1]].next
           w == [i \in 1..N |-> Link(t, i)]
<1>1. /\ N \in Nat /\ Len(open[t]) \in Nat /\ Len(open[t]) < N
      /\ DOMAIN open[t] = 1..Len(open[t])
  BY AccessesFit, OpenFacts
<1>2. ASSUME NEW i \in 1..N, i # 1
      PROVE  Link(t, i) = IF Link(t, i - 1) = Null THEN Null ELSE access[Link(t, i - 1)].next
  <2>1. CASE i - 1 \in DOMAIN open[t]
    <3>2. Link(t, i - 1) = open[t][i - 1].buffer /\ Link(t, i - 1) # Null
      BY <2>1, OpenFacts DEF Link
    <3>3. PICK k \in DOMAIN open[t] : k = i - 1
      BY <2>1
    <3>4. access[open[t][k].buffer].next = Link(t, k + 1)
      BY DEF LinksInv
    <3>5. k + 1 = i
      BY <1>1, <3>3
    <3> QED BY <3>2, <3>3, <3>4, <3>5
  <2>2. CASE i - 1 \notin DOMAIN open[t]
    BY <2>2, <1>1, <1>2 DEF Link
  <2> QED BY <2>1, <2>2
<1>3. w = [i \in 1..N |-> Step(w, i)]
  <2>1. ASSUME NEW i \in 1..N PROVE w[i] = Step(w, i)
    <3>1. CASE i = 1
      BY <3>1 DEF LinksInv
    <3>2. CASE i # 1
      <4>1. i - 1 \in 1..N
        BY <3>2, <1>1
      <4>2. w[i] = Link(t, i) /\ w[i - 1] = Link(t, i - 1)
        BY <4>1
      <4> HIDE DEF w
      <4> QED BY <3>2, <4>2, <1>2
    <3> QED BY <3>1, <3>2
  <2> QED BY <2>1
<1>4. Walk(t) = [i \in 1..N |-> Step(Walk(t), i)]
  BY <1>3 DEF Walk
<1> DEFINE Wrong == {i \in 1..N : Walk(t)[i] # w[i]}
<1>5. SUFFICES ASSUME Wrong # {} PROVE FALSE
  <2>1. Wrong = {} => \A i \in 1..N : Walk(t)[i] = w[i]
    OBVIOUS
  <2> HIDE DEF w
  <2>2. DOMAIN Walk(t) = 1..N
    BY <1>4
  <2>3. DOMAIN w = 1..N
    BY DEF w
  <2>4. Walk(t) = [i \in 1..N |-> Walk(t)[i]]
    BY <1>4
  <2>5. w = [i \in 1..N |-> w[i]]
    BY DEF w
  <2>6. Wrong = {} => Walk(t) = w
    BY <2>1, <2>4, <2>5
  <2> QED BY <2>6 DEF w
<1>6. PICK m \in Wrong : \A i \in Wrong : m <= i
  <2> HIDE DEF w, N
  <2>1. Wrong \subseteq Nat
    BY <1>1
  <2> QED BY <1>5, <2>1, LeastExists
<1>7. m \in 1..N /\ Walk(t)[m] # w[m]
  OBVIOUS
<1>8. Walk(t)[m] = Step(Walk(t), m)
  BY <1>4, <1>7
<1>9. CASE m = 1
  BY <1>3, <1>7, <1>8, <1>9
<1>10. CASE m # 1
  <2>1. m - 1 \in 1..N /\ m - 1 \notin Wrong
    BY <1>1, <1>6, <1>7, <1>10
  <2>2. Walk(t)[m - 1] = w[m - 1]
    BY <2>1
  <2>3. w[m] = Step(w, m)
    BY <1>3, <1>7
  <2> HIDE DEF w
  <2> QED BY <1>7, <1>8, <1>10, <2>2, <2>3
<1> QED BY <1>9, <1>10

-----------------------------------------------------------------------------
\* Accesses that overlap.

\* Thread t has an access underway that conflicts with a new one.
Overlaps(t, pointer, action) ==
  \E i \in DOMAIN open[t] : /\ open[t][i].pointer = pointer
                            /\ ~(action = "read" /\ open[t][i].action = "read")

\* The loop of AccessSet::insert finds a conflict if and only if there is one.
LEMMA ConflictFound ==
  ASSUME TypeOK, BuffersInv, LinksInv, died # "conflict", NEW t \in Thread,
         NEW pointer, NEW action
  PROVE  Overlaps(t, pointer, action) <=>
           \E i \in DOMAIN Walk(t) : Walk(t)[i] # Null /\ Conflicts(Walk(t)[i], pointer, action)
<1>1. /\ DOMAIN Walk(t) = 1..(Cardinality(Buffer) + 1)
      /\ \A i \in DOMAIN Walk(t) : Walk(t)[i] = Link(t, i)
  BY WalkFacts
<1>2. DOMAIN open[t] \subseteq DOMAIN Walk(t)
  BY <1>1, AccessesFit, OpenFacts
<1>3. ASSUME NEW i \in DOMAIN open[t]
      PROVE  /\ Link(t, i) = open[t][i].buffer /\ Link(t, i) # Null
             /\ Conflicts(Link(t, i), pointer, action) <=>
                  open[t][i].pointer = pointer /\ ~(action = "read" /\ open[t][i].action = "read")
  <2>1. Link(t, i) = open[t][i].buffer /\ Link(t, i) # Null
    BY OpenFacts DEF Link
  <2>2. /\ access[open[t][i].buffer].pointer = open[t][i].pointer
        /\ access[open[t][i].buffer].action = open[t][i].action
    BY DEF LinksInv
  <2> QED BY <2>1, <2>2 DEF Conflicts
<1>4. ASSUME NEW i \in DOMAIN Walk(t), Walk(t)[i] # Null PROVE i \in DOMAIN open[t]
  BY <1>1, <1>4 DEF Link
<1> QED BY <1>1, <1>2, <1>3, <1>4 DEF Overlaps

LEMMA PairOfReads ==
  \A a, c : {a, c} # {"read"} <=> ~(a = "read" /\ c = "read")
OBVIOUS

\* What an access that begins changes: it violates the law if it overlaps one
\* it conflicts with, and those that are underway violate it as before.
LEMMA BeginViolates ==
  ASSUME TypeOK, NEW t \in Thread, NEW new \in OpenAccess,
         open' = [open EXCEPT ![t] = Cons(new, @)]
  PROVE  /\ open' \in [Thread -> Seq(OpenAccess)]
         /\ \A u \in Thread \ {t} : open'[u] = open[u]
         /\ DOMAIN open'[t] = 1..(Len(open[t]) + 1) /\ Len(open'[t]) = Len(open[t]) + 1
         /\ open'[t][1] = new
         /\ \A i \in DOMAIN open[t] : open'[t][i + 1] = open[t][i]
         /\ \A j \in DOMAIN open'[t] : j = 1 \/ (j - 1 \in DOMAIN open[t] /\ open'[t][j] = open[t][j - 1])
         /\ Violates(t, 1)' <=> Overlaps(t, new.pointer, new.action)
         /\ \A j \in DOMAIN open[t] : Violates(t, j + 1)' => Violates(t, j)
<1>1. /\ open[t] \in Seq(OpenAccess) /\ Len(open[t]) \in Nat
      /\ DOMAIN open[t] = 1..Len(open[t])
  BY OpenFacts
<1>2. open'[t] = Cons(new, open[t]) /\ \A u \in Thread \ {t} : open'[u] = open[u]
  BY DEF TypeOK
<1>3. /\ open'[t] \in Seq(OpenAccess) /\ Len(open'[t]) = Len(open[t]) + 1
      /\ open'[t][1] = new
      /\ \A i \in 1..Len(open[t]) : open'[t][i + 1] = open[t][i]
  <2>1. /\ Cons(new, open[t]) \in Seq(OpenAccess)
        /\ Len(Cons(new, open[t])) = Len(open[t]) + 1
        /\ Cons(new, open[t])[1] = new
        /\ \A i \in 1..Len(open[t]) : Cons(new, open[t])[i + 1] = open[t][i]
    <3> HIDE DEF OpenAccess
    <3> DEFINE s == open[t]
    <3>1. s \in Seq(OpenAccess) /\ new \in OpenAccess
      BY <1>1
    <3> HIDE DEF s
    <3>2. /\ Cons(new, s) \in Seq(OpenAccess) /\ Len(Cons(new, s)) = Len(s) + 1
          /\ Cons(new, s)[1] = new /\ \A j \in 1..Len(s) : Cons(new, s)[j + 1] = s[j]
      BY <3>1, ConsFacts
    <3> QED BY <3>2 DEF s
  <2> QED BY <1>2, <2>1
<1>4. DOMAIN open'[t] = 1..(Len(open[t]) + 1)
  BY <1>3, <1>1
<1>5. open' \in [Thread -> Seq(OpenAccess)]
  BY <1>1, <1>2, <1>3 DEF TypeOK
<1>6. ASSUME NEW j \in DOMAIN open'[t], j # 1
      PROVE  j - 1 \in DOMAIN open[t] /\ open'[t][j] = open[t][j - 1]
  <2>1. PICK k \in 1..Len(open[t]) : k = j - 1
    BY <1>1, <1>4, <1>6
  <2>2. k + 1 = j
    BY <2>1, <1>4, <1>1
  <2> QED BY <2>1, <2>2, <1>1, <1>3
<1>7. ASSUME Violates(t, 1)' PROVE Overlaps(t, new.pointer, new.action)
  <2>1. PICK i \in (1 + 1)..Len(open'[t]) : /\ open'[t][i].pointer = open'[t][1].pointer
                                            /\ {open'[t][i].action, open'[t][1].action} # {"read"}
    BY <1>7 DEF Violates
  <2>2. i \in DOMAIN open'[t] /\ i # 1
    BY <1>1, <1>3, <1>4
  <2>3. i - 1 \in DOMAIN open[t] /\ open'[t][i] = open[t][i - 1]
    BY <1>6, <2>2
  <2> QED BY <1>3, <2>1, <2>3, PairOfReads DEF Overlaps
<1>8. ASSUME Overlaps(t, new.pointer, new.action) PROVE Violates(t, 1)'
  <2>1. PICK i \in DOMAIN open[t] : /\ open[t][i].pointer = new.pointer
                                    /\ ~(new.action = "read" /\ open[t][i].action = "read")
    BY <1>8 DEF Overlaps
  <2>2. i + 1 \in (1 + 1)..Len(open'[t]) /\ open'[t][i + 1] = open[t][i]
    BY <1>1, <1>3
  <2>3. {open'[t][i + 1].action, open'[t][1].action} # {"read"}
    BY <2>1, <2>2, <1>3, PairOfReads
  <2> QED BY <1>3, <2>1, <2>2, <2>3 DEF Violates
<1>9. ASSUME NEW j \in DOMAIN open[t], Violates(t, j + 1)' PROVE Violates(t, j)
  <2>1. PICK i \in ((j + 1) + 1)..Len(open'[t]) :
          /\ open'[t][i].pointer = open'[t][j + 1].pointer
          /\ {open'[t][i].action, open'[t][j + 1].action} # {"read"}
    BY <1>9 DEF Violates
  <2>2. i \in DOMAIN open'[t] /\ i # 1 /\ i - 1 \in (j + 1)..Len(open[t])
    BY <1>1, <1>3, <1>4
  <2>3. open'[t][i] = open[t][i - 1] /\ open'[t][j + 1] = open[t][j]
    BY <1>1, <1>3, <1>6, <2>2
  <2> QED BY <2>1, <2>2, <2>3 DEF Violates
<1> QED BY <1>2, <1>3, <1>4, <1>5, <1>1, <1>6, <1>7, <1>8, <1>9

\* What an access that ends changes: the accesses before it keep their places,
\* those after it move up, and no violation of the law is new.
LEMMA EndViolates ==
  ASSUME TypeOK, NEW t \in Thread, NEW i \in DOMAIN open[t],
         open' = [open EXCEPT ![t] = RemoveAt(@, i)]
  PROVE  /\ open' \in [Thread -> Seq(OpenAccess)]
         /\ \A u \in Thread \ {t} : open'[u] = open[u]
         /\ DOMAIN open'[t] = 1..(Len(open[t]) - 1)
         /\ \A j \in DOMAIN open'[t] :
              \/ j < i /\ j \in DOMAIN open[t] /\ open'[t][j] = open[t][j]
              \/ j >= i /\ j + 1 \in DOMAIN open[t] /\ open'[t][j] = open[t][j + 1]
         /\ \A j \in DOMAIN open'[t] :
              Violates(t, j)' => Violates(t, IF j < i THEN j ELSE j + 1)
<1> DEFINE o(j) == IF j < i THEN j ELSE j + 1
<1>1. /\ open[t] \in Seq(OpenAccess) /\ Len(open[t]) \in Nat
      /\ DOMAIN open[t] = 1..Len(open[t])
  BY OpenFacts
<1>2. open'[t] = RemoveAt(open[t], i) /\ \A u \in Thread \ {t} : open'[u] = open[u]
  BY DEF TypeOK
<1>3. /\ open'[t] \in Seq(OpenAccess) /\ Len(open'[t]) = Len(open[t]) - 1
      /\ \A j \in 1..(i - 1) : open'[t][j] = open[t][j]
      /\ \A j \in i..(Len(open[t]) - 1) : open'[t][j] = open[t][j + 1]
  <2>1. /\ RemoveAt(open[t], i) \in Seq(OpenAccess)
        /\ Len(RemoveAt(open[t], i)) = Len(open[t]) - 1
        /\ \A j \in 1..(i - 1) : RemoveAt(open[t], i)[j] = open[t][j]
        /\ \A j \in i..(Len(open[t]) - 1) : RemoveAt(open[t], i)[j] = open[t][j + 1]
    BY <1>1, RemoveAtFacts
  <2> QED BY <1>2, <2>1
<1>4. DOMAIN open'[t] = 1..(Len(open[t]) - 1) /\ i \in Nat /\ 1 <= i /\ i <= Len(open[t])
  BY <1>3, <1>1
<1>5. open' \in [Thread -> Seq(OpenAccess)]
  BY <1>1, <1>2, <1>3 DEF TypeOK
<1>6. ASSUME NEW j \in DOMAIN open'[t]
      PROVE  \/ j < i /\ j \in DOMAIN open[t] /\ open'[t][j] = open[t][j]
             \/ j >= i /\ j + 1 \in DOMAIN open[t] /\ open'[t][j] = open[t][j + 1]
  BY <1>1, <1>3, <1>4
<1>7. ASSUME NEW j \in DOMAIN open'[t] PROVE open'[t][j] = open[t][o(j)]
  BY <1>4, <1>6
<1>8. ASSUME NEW j \in DOMAIN open'[t], Violates(t, j)' PROVE Violates(t, o(j))
  <2>1. PICK k \in (j + 1)..Len(open'[t]) :
          /\ open'[t][k].pointer = open'[t][j].pointer
          /\ {open'[t][k].action, open'[t][j].action} # {"read"}
    BY <1>8 DEF Violates
  <2>2. k \in DOMAIN open'[t]
    BY <1>1, <1>3, <1>4
  <2>3. open'[t][k] = open[t][o(k)] /\ open'[t][j] = open[t][o(j)]
    BY <1>7, <2>2
  <2>4. o(k) \in (o(j) + 1)..Len(open[t])
    BY <1>1, <1>3, <1>4
  <2> HIDE DEF o
  <2> QED BY <2>1, <2>3, <2>4 DEF Violates
<1> QED BY <1>2, <1>4, <1>5, <1>6, <1>8

-----------------------------------------------------------------------------
\* Every step preserves the invariant.

LEMMA Initial ==
  Init => IInv
<1> SUFFICES ASSUME Init PROVE IInv
  OBVIOUS
<1>1. /\ \A t \in Thread : open[t] = <<>> /\ DOMAIN open[t] = {}
      /\ \A t \in Thread : head[t] = Null /\ silent[t] = {}
      /\ died = "no"
  BY DEF Init
<1>2. TypeOK
  <2>1. head \in [Thread -> Buffer \cup {Null}] /\ silent \in [Thread -> SUBSET Buffer]
    BY DEF Init
  <2>2. access \in [Buffer -> [pointer : Variable \cup {Null}, action : Action,
                               next : Buffer \cup {Null}]]
    BY DEF Init, Scratch, Action
  <2>3. open \in [Thread -> Seq(OpenAccess)]
    BY DEF Init
  <2>4. disabled \in BOOLEAN
    BY DEF Init
  <2>5. reported \in 0..MaxReported
    BY ExclusivityAssumption DEF Init
  <2> QED BY <1>1, <2>1, <2>2, <2>3, <2>4, <2>5 DEF TypeOK
<1>3. BuffersInv
  BY <1>1 DEF BuffersInv
<1>4. LinksInv
  BY <1>1 DEF LinksInv, Link
<1>5. SilentInv
  BY <1>1 DEF SilentInv
<1>6. LawOfExclusivity /\ EndFindsAccess
  BY <1>1 DEF LawOfExclusivity, EndFindsAccess
<1> QED BY <1>2, <1>3, <1>4, <1>5, <1>6 DEF IInv

\* An access that begins while tracking is suspended stays out of the lists.
LEMMA BeginSilent ==
  ASSUME IInv, NEW t \in Thread, NEW b \in Buffer, died = "no", b \notin InUse,
         access' = [access EXCEPT ![b].pointer = Null],
         silent' = [silent EXCEPT ![t] = @ \cup {b}],
         UNCHANGED <<head, disabled, reported, open, died>>
  PROVE  IInv'
<1>1. TypeOK /\ BuffersInv /\ LinksInv /\ SilentInv /\ LawOfExclusivity /\ EndFindsAccess
  BY DEF IInv
<1>2. \A u \in Thread : b \notin Opened(u) /\ b \notin silent[u]
  BY DEF InUse
<1>3. /\ access' \in [Buffer -> [pointer : Variable \cup {Null}, action : Action,
                                 next : Buffer \cup {Null}]]
      /\ access'[b].pointer = Null /\ \A c \in Buffer \ {b} : access'[c] = access[c]
  BY <1>1 DEF TypeOK
<1>4. /\ silent' \in [Thread -> SUBSET Buffer] /\ silent'[t] = silent[t] \cup {b}
      /\ \A u \in Thread \ {t} : silent'[u] = silent[u]
  BY <1>1 DEF TypeOK
<1>5. TypeOK'
  BY <1>1, <1>3, <1>4 DEF TypeOK
<1>6. BuffersInv'
  <2>1. \A u \in Thread : Opened(u)' = Opened(u)
    BY DEF Opened
  <2>2. \A v, u \in Thread : (silent[v] \cap Opened(u) = {})'
    BY <1>1, <1>2, <1>4, <2>1 DEF BuffersInv
  <2>3. \A v, u \in Thread : v # u => (silent[v] \cap silent[u] = {})'
    BY <1>1, <1>2, <1>4 DEF BuffersInv
  <2>4. \A v, u \in Thread : \A i \in DOMAIN open'[v], j \in DOMAIN open'[u] :
          open'[v][i].buffer = open'[u][j].buffer => v = u /\ i = j
    BY <1>1 DEF BuffersInv
  <2> QED BY <2>2, <2>3, <2>4 DEF BuffersInv
<1>7. LinksInv'
  <2>1. \A u, i : Link(u, i)' = Link(u, i)
    BY DEF Link
  <2>2. ASSUME NEW u \in Thread, NEW i \in DOMAIN open[u]
        PROVE  access'[open[u][i].buffer] = access[open[u][i].buffer]
    <3>1. open[u][i].buffer \in Opened(u) /\ open[u][i].buffer \in Buffer
      BY <1>1, OpenFacts DEF Opened
    <3> QED BY <3>1, <1>2, <1>3
  <2>3. \A u \in Thread : head'[u] = Link(u, 1)'
    BY <1>1, <2>1 DEF LinksInv
  <2>4. ASSUME NEW u \in Thread, NEW i \in DOMAIN open'[u]
        PROVE  /\ access'[open'[u][i].buffer].pointer = open'[u][i].pointer
               /\ access'[open'[u][i].buffer].action = open'[u][i].action
               /\ access'[open'[u][i].buffer].next = Link(u, i + 1)'
    <3>1. i \in DOMAIN open[u] /\ open'[u][i] = open[u][i] /\ Link(u, i + 1)' = Link(u, i + 1)
      BY <2>1
    <3>2. /\ access[open[u][i].buffer].pointer = open[u][i].pointer
          /\ access[open[u][i].buffer].action = open[u][i].action
          /\ access[open[u][i].buffer].next = Link(u, i + 1)
      BY <1>1, <3>1 DEF LinksInv
    <3> QED BY <2>2, <3>1, <3>2
  <2> QED BY <2>3, <2>4 DEF LinksInv
<1>8. SilentInv'
  <2> SUFFICES ASSUME NEW u \in Thread, NEW c \in silent'[u] PROVE access'[c].pointer = Null
    BY DEF SilentInv, Untracked
  <2>1. CASE c = b
    BY <2>1, <1>3
  <2>2. CASE c # b
    <3>1. c \in silent[u] /\ c \in Buffer
      BY <2>2, <1>1, <1>4 DEF TypeOK
    <3> QED BY <3>1, <2>2, <1>1, <1>3 DEF SilentInv, Untracked
  <2> QED BY <2>1, <2>2
<1>9. LawOfExclusivity' /\ EndFindsAccess'
  BY <1>1 DEF LawOfExclusivity, EndFindsAccess, Violates
<1> QED BY <1>5, <1>6, <1>7, <1>8, <1>9 DEF IInv

\* AccessSet::insert.
LEMMA InsertStep ==
  ASSUME IInv, NEW t \in Thread, NEW b \in Buffer, died = "no", b \notin InUse,
         NEW p \in Variable, NEW a \in Action, NEW w \in BOOLEAN,
         Insert(t, b, p, a, w), UNCHANGED disabled
  PROVE  IInv' /\ (reported' # reported \/ died' = "conflict" => Violates(t, 1)')
<1> DEFINE new == [buffer |-> b, pointer |-> p, action |-> a, warningOnly |-> w]
           conflict == \E i \in DOMAIN Walk(t) :
                         Walk(t)[i] # Null /\ Conflicts(Walk(t)[i], p, a)
<1>1. TypeOK /\ BuffersInv /\ LinksInv /\ SilentInv /\ LawOfExclusivity /\ EndFindsAccess
  BY DEF IInv
<1>2. \A u \in Thread : b \notin Opened(u) /\ b \notin silent[u]
  BY DEF InUse
<1>3. new \in OpenAccess /\ new.pointer = p /\ new.action = a /\ new.buffer = b /\ new.warningOnly = w
  BY DEF OpenAccess
<1>4. open' = [open EXCEPT ![t] = Cons(new, @)] /\ UNCHANGED silent
  BY DEF Insert
<1>5. reported' = IF conflict /\ reported < MaxReported THEN reported + 1 ELSE reported
  BY DEF Insert
<1>6. \/ /\ conflict /\ ~Survives(w) /\ died' = "conflict" /\ UNCHANGED <<access, head>>
      \/ /\ conflict => Survives(w)
         /\ access' = [access EXCEPT ![b] = [pointer |-> p, action |-> a, next |-> head[t]]]
         /\ head' = [head EXCEPT ![t] = b]
         /\ UNCHANGED died
  BY DEF Insert
<1>7. conflict <=> Overlaps(t, p, a)
  BY <1>1, ConflictFound
<1> HIDE DEF new, conflict
<1>8. /\ open' \in [Thread -> Seq(OpenAccess)]
      /\ \A u \in Thread \ {t} : open'[u] = open[u]
      /\ DOMAIN open'[t] = 1..(Len(open[t]) + 1) /\ Len(open'[t]) = Len(open[t]) + 1
      /\ open'[t][1] = new
      /\ \A i \in DOMAIN open[t] : open'[t][i + 1] = open[t][i]
      /\ \A j \in DOMAIN open'[t] : j = 1 \/ (j - 1 \in DOMAIN open[t] /\ open'[t][j] = open[t][j - 1])
      /\ Violates(t, 1)' <=> Overlaps(t, new.pointer, new.action)
      /\ \A j \in DOMAIN open[t] : Violates(t, j + 1)' => Violates(t, j)
  BY <1>1, <1>3, <1>4, BeginViolates
<1>9. reported' # reported \/ died' = "conflict" => Violates(t, 1)'
  BY <1>3, <1>5, <1>6, <1>7, <1>8
<1>10. DOMAIN open[t] = 1..Len(open[t]) /\ Len(open[t]) \in Nat
  BY <1>1, OpenFacts
<1>11. BuffersInv'
  <2>1. ASSUME NEW u \in Thread, NEW j \in DOMAIN open'[u]
        PROVE  \/ u = t /\ j = 1 /\ open'[u][j].buffer = b
               \/ /\ \E i \in DOMAIN open[u] : /\ i = IF u = t THEN j - 1 ELSE j
                                               /\ open'[u][j] = open[u][i]
                  /\ open'[u][j].buffer \in Opened(u)
                  /\ open'[u][j].buffer # b
    <3>1. CASE u = t /\ j = 1
      BY <3>1, <1>3, <1>8
    <3>2. CASE u = t /\ j # 1
      <4>1. j - 1 \in DOMAIN open[t] /\ open'[t][j] = open[t][j - 1]
        BY <3>2, <1>8
      <4>2. open'[u][j].buffer \in Opened(u)
        BY <3>2, <4>1 DEF Opened
      <4> QED BY <3>2, <4>1, <4>2, <1>2
    <3>3. CASE u # t
      <4>1. j \in DOMAIN open[u] /\ open'[u][j] = open[u][j]
        BY <3>3, <1>8
      <4>2. open'[u][j].buffer \in Opened(u)
        BY <4>1 DEF Opened
      <4> QED BY <3>3, <4>1, <4>2, <1>2
    <3> QED BY <3>1, <3>2, <3>3
  <2>2. ASSUME NEW u \in Thread, NEW v \in Thread, NEW i \in DOMAIN open'[u], NEW j \in DOMAIN open'[v],
               open'[u][i].buffer = open'[v][j].buffer
        PROVE  u = v /\ i = j
    <3>1. CASE open'[u][i].buffer = b
      <4>1. u = t /\ i = 1
        BY <2>1, <3>1
      <4>2. v = t /\ j = 1
        BY <2>1, <2>2, <3>1
      <4> QED BY <4>1, <4>2
    <3>2. CASE open'[u][i].buffer # b
      <4>1. PICK k \in DOMAIN open[u] : k = (IF u = t THEN i - 1 ELSE i) /\ open'[u][i] = open[u][k]
        BY <2>1, <3>2
      <4>2. PICK l \in DOMAIN open[v] : l = (IF v = t THEN j - 1 ELSE j) /\ open'[v][j] = open[v][l]
        BY <2>1, <2>2, <3>2
      <4>3. u = v /\ k = l
        BY <4>1, <4>2, <2>2, <1>1 DEF BuffersInv
      <4>4. u = t => i \in Nat /\ j \in Nat
        BY <4>3, <1>8, <1>10
      <4> QED BY <4>1, <4>2, <4>3, <4>4
    <3> QED BY <3>1, <3>2
  <2>3. ASSUME NEW u \in Thread, NEW v \in Thread PROVE silent'[u] \cap Opened(v)' = {}
    <3>1. Opened(v)' \subseteq Opened(v) \cup {b}
      BY <2>1 DEF Opened
    <3> QED BY <3>1, <1>1, <1>2, <1>4 DEF BuffersInv
  <2>4. \A u, v \in Thread : u # v => (silent[u] \cap silent[v] = {})'
    BY <1>1, <1>4 DEF BuffersInv
  <2> QED BY <2>2, <2>3, <2>4 DEF BuffersInv
<1>12. reported' \in 0..MaxReported /\ (reported = MaxReported => reported' = MaxReported)
  BY <1>1, <1>5, ExclusivityAssumption DEF TypeOK
<1>13. CASE /\ conflict /\ ~Survives(w) /\ died' = "conflict" /\ UNCHANGED <<access, head>>
  <2>1. TypeOK'
    BY <1>1, <1>4, <1>8, <1>12, <1>13 DEF TypeOK
  <2>2. LinksInv' /\ LawOfExclusivity' /\ EndFindsAccess'
    BY <1>13 DEF LinksInv, LawOfExclusivity, EndFindsAccess
  <2>3. SilentInv'
    BY <1>1, <1>4, <1>13 DEF SilentInv, Untracked
  <2> QED BY <2>1, <2>2, <2>3, <1>9, <1>11 DEF IInv
<1>14. CASE /\ conflict => Survives(w)
            /\ access' = [access EXCEPT ![b] = [pointer |-> p, action |-> a, next |-> head[t]]]
            /\ head' = [head EXCEPT ![t] = b]
            /\ UNCHANGED died
  <2>1. /\ head[t] \in Buffer \cup {Null} /\ head'[t] = b
        /\ \A u \in Thread \ {t} : head'[u] = head[u]
        /\ head' \in [Thread -> Buffer \cup {Null}]
    BY <1>1, <1>14 DEF TypeOK
  <2>2. /\ access' \in [Buffer -> [pointer : Variable \cup {Null}, action : Action,
                                   next : Buffer \cup {Null}]]
        /\ access'[b] = [pointer |-> p, action |-> a, next |-> head[t]]
        /\ \A c \in Buffer \ {b} : access'[c] = access[c]
    BY <1>1, <1>14, <2>1 DEF TypeOK
  <2>3. TypeOK'
    BY <1>1, <1>4, <1>8, <1>12, <1>14, <2>1, <2>2 DEF TypeOK
  <2>4. /\ \A u \in Thread \ {t} : \A i : Link(u, i)' = Link(u, i)
        /\ Link(t, 1)' = b
        /\ \A i \in Nat \ {0} : Link(t, i + 1)' = Link(t, i)
    <3>1. \A u \in Thread \ {t} : \A i : Link(u, i)' = Link(u, i)
      BY <1>8 DEF Link
    <3>2. Link(t, 1)' = b
      <4>1. 1 \in DOMAIN open'[t]
        BY <1>8, <1>10
      <4> QED BY <4>1, <1>3, <1>8 DEF Link
    <3>3. ASSUME NEW i \in Nat \ {0} PROVE Link(t, i + 1)' = Link(t, i)
      <4>1. i + 1 \in DOMAIN open'[t] <=> i \in DOMAIN open[t]
        BY <1>8, <1>10
      <4> QED BY <4>1, <1>8 DEF Link
    <3> QED BY <3>1, <3>2, <3>3
  <2>5. head[t] = Link(t, 1)
    BY <1>1 DEF LinksInv
  <2>6. ASSUME NEW u \in Thread, NEW i \in DOMAIN open[u]
        PROVE  access'[open[u][i].buffer] = access[open[u][i].buffer]
    <3>1. open[u][i].buffer \in Opened(u) /\ open[u][i].buffer \in Buffer
      BY <1>1, OpenFacts DEF Opened
    <3> QED BY <3>1, <1>2, <2>2
  <2>7. ASSUME NEW u \in Thread, NEW j \in DOMAIN open'[u]
        PROVE  /\ access'[open'[u][j].buffer].pointer = open'[u][j].pointer
               /\ access'[open'[u][j].buffer].action = open'[u][j].action
               /\ access'[open'[u][j].buffer].next = Link(u, j + 1)'
    <3>1. CASE u = t /\ j = 1
      <4>1. open'[u][j] = new
        BY <3>1, <1>8
      <4>2. Link(u, j + 1)' = head[t]
        BY <3>1, <2>4, <2>5
      <4> QED BY <4>1, <4>2, <1>3, <2>2
    <3>2. CASE u = t /\ j # 1
      <4>1. PICK i \in DOMAIN open[t] : i = j - 1 /\ open'[t][j] = open[t][i]
        BY <3>2, <1>8
      <4>2. i + 1 \in Nat \ {0} /\ j = i + 1
        BY <3>2, <4>1, <1>8, <1>10
      <4>3. Link(t, j + 1)' = Link(t, i + 1)
        BY <4>2, <2>4
      <4>4. /\ access[open[t][i].buffer].pointer = open[t][i].pointer
            /\ access[open[t][i].buffer].action = open[t][i].action
            /\ access[open[t][i].buffer].next = Link(t, i + 1)
        BY <1>1 DEF LinksInv
      <4> QED BY <3>2, <4>1, <4>3, <4>4, <2>6
    <3>3. CASE u # t
      <4>1. j \in DOMAIN open[u] /\ open'[u] = open[u]
        BY <3>3, <1>8
      <4>2. /\ access[open[u][j].buffer].pointer = open[u][j].pointer
            /\ access[open[u][j].buffer].action = open[u][j].action
            /\ access[open[u][j].buffer].next = Link(u, j + 1)
        BY <4>1, <1>1 DEF LinksInv
      <4> QED BY <3>3, <4>1, <4>2, <2>4, <2>6
    <3> QED BY <3>1, <3>2, <3>3
  <2>8. \A u \in Thread : head'[u] = Link(u, 1)'
    BY <1>1, <2>1, <2>4 DEF LinksInv
  <2>9. LinksInv'
    BY <2>7, <2>8 DEF LinksInv
  <2>10. SilentInv'
    <3> SUFFICES ASSUME NEW u \in Thread, NEW c \in silent[u] PROVE access'[c].pointer = Null
      BY <1>4 DEF SilentInv, Untracked
    <3>1. c \in Buffer /\ c # b
      BY <1>1, <1>2 DEF TypeOK
    <3> QED BY <3>1, <2>2, <1>1 DEF SilentInv, Untracked
  <2>11. LawOfExclusivity'
    <3> SUFFICES ASSUME NEW u \in Thread, NEW j \in DOMAIN open'[u], Violates(u, j)'
                 PROVE  open'[u][j].warningOnly \/ reported' = MaxReported
      BY DEF LawOfExclusivity
    <3>1. CASE u = t /\ j = 1
      <4>1. Survives(w)
        BY <3>1, <1>3, <1>7, <1>8, <1>14
      <4>2. w \/ reported = MaxReported
        BY <4>1, <1>1, ExclusivityAssumption DEF Survives, TypeOK
      <4> QED BY <3>1, <4>2, <1>3, <1>8, <1>12
    <3>2. CASE u = t /\ j # 1
      <4>1. PICK i \in DOMAIN open[t] : i = j - 1 /\ open'[t][j] = open[t][i]
        BY <3>2, <1>8
      <4>2. j = i + 1
        BY <3>2, <4>1, <1>8, <1>10
      <4>3. Violates(t, i)
        BY <3>2, <4>2, <1>8
      <4> QED BY <3>2, <4>1, <4>3, <1>1, <1>12, <1>14 DEF LawOfExclusivity
    <3>3. CASE u # t
      <4>1. j \in DOMAIN open[u] /\ open'[u] = open[u]
        BY <3>3, <1>8
      <4>2. Violates(u, j)
        BY <4>1 DEF Violates
      <4> QED BY <4>1, <4>2, <1>1, <1>12, <1>14 DEF LawOfExclusivity
    <3> QED BY <3>1, <3>2, <3>3
  <2>12. EndFindsAccess'
    BY <1>14 DEF EndFindsAccess
  <2> QED BY <2>3, <2>9, <2>10, <2>11, <2>12, <1>9, <1>11 DEF IInv
<1> QED BY <1>6, <1>13, <1>14

\* An access outside the lists ends or is abandoned.
LEMMA EndSilent ==
  ASSUME IInv, NEW t \in Thread, NEW b \in silent[t], died = "no",
         access' = [access EXCEPT ![b] = Scratch],
         silent' = [silent EXCEPT ![t] = @ \ {b}],
         UNCHANGED <<head, disabled, reported, open, died>>
  PROVE  IInv'
<1>1. TypeOK /\ BuffersInv /\ LinksInv /\ SilentInv /\ LawOfExclusivity /\ EndFindsAccess
  BY DEF IInv
<1>2. b \in Buffer /\ \A u \in Thread : b \notin Opened(u)
  BY <1>1 DEF TypeOK, BuffersInv
<1>3. /\ access' \in [Buffer -> [pointer : Variable \cup {Null}, action : Action,
                                 next : Buffer \cup {Null}]]
      /\ access'[b].pointer = Null /\ \A c \in Buffer \ {b} : access'[c] = access[c]
  <2>1. Scratch \in [pointer : Variable \cup {Null}, action : Action, next : Buffer \cup {Null}]
    BY DEF Scratch, Action
  <2>2. Scratch.pointer = Null
    BY DEF Scratch
  <2> QED BY <1>1, <1>2, <2>1, <2>2 DEF TypeOK
<1>4. /\ silent' \in [Thread -> SUBSET Buffer] /\ silent'[t] = silent[t] \ {b}
      /\ \A u \in Thread \ {t} : silent'[u] = silent[u]
  BY <1>1 DEF TypeOK
<1>5. TypeOK'
  BY <1>1, <1>3, <1>4 DEF TypeOK
<1>6. BuffersInv'
  <2>1. \A u \in Thread : Opened(u)' = Opened(u) /\ silent'[u] \subseteq silent[u]
    BY <1>4 DEF Opened
  <2>2. \A v, u \in Thread : (silent[v] \cap Opened(u) = {})'
    BY <1>1, <2>1 DEF BuffersInv
  <2>3. \A v, u \in Thread : v # u => (silent[v] \cap silent[u] = {})'
    BY <1>1, <2>1 DEF BuffersInv
  <2>4. \A v, u \in Thread : \A i \in DOMAIN open'[v], j \in DOMAIN open'[u] :
          open'[v][i].buffer = open'[u][j].buffer => v = u /\ i = j
    BY <1>1 DEF BuffersInv
  <2> QED BY <2>2, <2>3, <2>4 DEF BuffersInv
<1>7. LinksInv'
  <2>1. \A u, i : Link(u, i)' = Link(u, i)
    BY DEF Link
  <2>2. ASSUME NEW u \in Thread, NEW i \in DOMAIN open[u]
        PROVE  access'[open[u][i].buffer] = access[open[u][i].buffer]
    <3>1. open[u][i].buffer \in Opened(u) /\ open[u][i].buffer \in Buffer
      BY <1>1, OpenFacts DEF Opened
    <3> QED BY <3>1, <1>2, <1>3
  <2>3. \A u \in Thread : head'[u] = Link(u, 1)'
    BY <1>1, <2>1 DEF LinksInv
  <2>4. ASSUME NEW u \in Thread, NEW i \in DOMAIN open'[u]
        PROVE  /\ access'[open'[u][i].buffer].pointer = open'[u][i].pointer
               /\ access'[open'[u][i].buffer].action = open'[u][i].action
               /\ access'[open'[u][i].buffer].next = Link(u, i + 1)'
    <3>1. i \in DOMAIN open[u] /\ open'[u][i] = open[u][i] /\ Link(u, i + 1)' = Link(u, i + 1)
      BY <2>1
    <3>2. /\ access[open[u][i].buffer].pointer = open[u][i].pointer
          /\ access[open[u][i].buffer].action = open[u][i].action
          /\ access[open[u][i].buffer].next = Link(u, i + 1)
      BY <1>1, <3>1 DEF LinksInv
    <3> QED BY <2>2, <3>1, <3>2
  <2> QED BY <2>3, <2>4 DEF LinksInv
<1>8. SilentInv'
  <2> SUFFICES ASSUME NEW u \in Thread, NEW c \in silent'[u] PROVE access'[c].pointer = Null
    BY DEF SilentInv, Untracked
  <2>1. CASE c = b
    BY <2>1, <1>3
  <2>2. CASE c # b
    <3>1. c \in silent[u] /\ c \in Buffer
      BY <2>2, <1>1, <1>4 DEF TypeOK
    <3> QED BY <3>1, <2>2, <1>1, <1>3 DEF SilentInv, Untracked
  <2> QED BY <2>1, <2>2
<1>9. LawOfExclusivity' /\ EndFindsAccess'
  BY <1>1 DEF LawOfExclusivity, EndFindsAccess, Violates
<1> QED BY <1>5, <1>6, <1>7, <1>8, <1>9 DEF IInv

\* What the two ways of taking access i out of its list have in common: the
\* pointer that led to it leads to its successor, and nothing else changes.
Unlinked(t, i) ==
  /\ head'[t] = IF i = 1 THEN Link(t, 2) ELSE head[t]
  /\ \A u \in Thread \ {t} : head'[u] = head[u]
  /\ \A u \in Thread : \A j \in DOMAIN open[u] : ~(u = t /\ j = i) =>
       LET c == open[u][j].buffer
       IN /\ access'[c].pointer = access[c].pointer /\ access'[c].action = access[c].action
          /\ access'[c].next = IF u = t /\ j + 1 = i THEN Link(t, i + 1) ELSE access[c].next

\* AccessSet::remove finds the access and takes it out.
LEMMA RemoveUnlinks ==
  ASSUME IInv, NEW t \in Thread, NEW i \in DOMAIN open[t], died = "no",
         RemoveAccess(t, open[t][i].buffer)
  PROVE  /\ head' \in [Thread -> Buffer \cup {Null}]
         /\ access' \in [Buffer -> [pointer : Variable \cup {Null}, action : Action,
                                    next : Buffer \cup {Null}]]
         /\ UNCHANGED died
         /\ Unlinked(t, i)
         /\ \A c \in Buffer : access[c].pointer = Null => access'[c].pointer = Null
<1> DEFINE b == open[t][i].buffer
<1>1. TypeOK /\ BuffersInv /\ LinksInv
  BY DEF IInv
<1>2. /\ DOMAIN open[t] = 1..Len(open[t]) /\ Len(open[t]) \in Nat
      /\ i \in Nat \ {0} /\ b \in Buffer /\ b # Null
  BY <1>1, OpenFacts
<1>3. /\ DOMAIN Walk(t) = 1..(Cardinality(Buffer) + 1)
      /\ \A j \in DOMAIN Walk(t) : Walk(t)[j] = Link(t, j)
  BY <1>1, WalkFacts
<1>4. Cardinality(Buffer) \in Nat /\ i <= Cardinality(Buffer)
  BY <1>1, <1>2, AccessesFit
<1>5. Link(t, i) = b /\ access[b].next = Link(t, i + 1) /\ head[t] = Link(t, 1)
  BY <1>1 DEF Link, LinksInv
<1>6. ASSUME NEW j, Link(t, j) = b PROVE j = i
  BY <1>1, <1>2, <1>6 DEF Link, BuffersInv
<1>7. /\ Scratch \in [pointer : Variable \cup {Null}, action : Action, next : Buffer \cup {Null}]
      /\ Scratch.pointer = Null
  BY DEF Scratch, Action
<1>8. access[b].next \in Buffer \cup {Null}
  BY <1>1, <1>2 DEF TypeOK
<1>9. ASSUME NEW u \in Thread, NEW j \in DOMAIN open[u], ~(u = t /\ j = i)
      PROVE  open[u][j].buffer # b /\ open[u][j].buffer \in Buffer
  BY <1>1, <1>9, OpenFacts DEF BuffersInv
<1> HIDE DEF b
<1>10. CASE /\ head[t] = b
            /\ head' = [head EXCEPT ![t] = access[b].next]
            /\ access' = [access EXCEPT ![b] = Scratch]
            /\ UNCHANGED died
  <2>1. i = 1
    BY <1>5, <1>6, <1>10
  <2>2. /\ head' \in [Thread -> Buffer \cup {Null}] /\ head'[t] = Link(t, 2)
        /\ \A u \in Thread \ {t} : head'[u] = head[u]
    BY <1>1, <1>5, <1>8, <1>10, <2>1 DEF TypeOK
  <2>3. /\ access' \in [Buffer -> [pointer : Variable \cup {Null}, action : Action,
                                   next : Buffer \cup {Null}]]
        /\ access'[b].pointer = Null
        /\ \A c \in Buffer \ {b} : access'[c] = access[c]
    BY <1>1, <1>2, <1>7, <1>10 DEF TypeOK
  <2>4. ASSUME NEW u \in Thread, NEW j \in DOMAIN open[u], u = t PROVE j + 1 # i
    BY <1>2, <2>1, <2>4
  <2>5. Unlinked(t, i)
    BY <1>9, <2>1, <2>2, <2>3, <2>4 DEF Unlinked
  <2> QED BY <1>10, <2>2, <2>3, <2>5
<1>11. CASE head[t] # b /\ Relink(t, b) /\ UNCHANGED <<head, died>>
  <2>1. PICK k \in 1..Cardinality(Buffer) :
          /\ Walk(t)[k + 1] = b
          /\ access' = [access EXCEPT ![Walk(t)[k]].next = access[b].next, ![b] = Scratch]
    BY <1>11 DEF Relink
  <2>2. k + 1 = i /\ Walk(t)[k] = Link(t, k)
    BY <1>3, <1>4, <1>6, <2>1
  <2>3. k \in DOMAIN open[t] /\ k # i
    BY <1>2, <2>2
  <2>4. Link(t, k) = open[t][k].buffer /\ Link(t, k) # b /\ Link(t, k) \in Buffer
    BY <1>9, <2>3 DEF Link
  <2> DEFINE last == Link(t, k)
  <2> HIDE DEF last
  <2>5. access' = [access EXCEPT ![last].next = access[b].next, ![b] = Scratch]
    BY <2>1, <2>2 DEF last
  <2>6. last \in Buffer /\ last # b
    BY <2>4 DEF last
  <2>7. /\ access' \in [Buffer -> [pointer : Variable \cup {Null}, action : Action,
                                   next : Buffer \cup {Null}]]
        /\ access'[b].pointer = Null
        /\ access'[last] = [access[last] EXCEPT !.next = access[b].next]
        /\ \A c \in Buffer \ {b, last} : access'[c] = access[c]
    BY <1>1, <1>2, <1>7, <1>8, <2>5, <2>6 DEF TypeOK
  <2>8. /\ access'[last].pointer = access[last].pointer /\ access'[last].action = access[last].action
        /\ access'[last].next = Link(t, i + 1)
    BY <1>1, <1>5, <2>6, <2>7 DEF TypeOK
  <2>9. ASSUME NEW u \in Thread, NEW j \in DOMAIN open[u], ~(u = t /\ j = i)
        PROVE  LET c == open[u][j].buffer
               IN /\ access'[c].pointer = access[c].pointer /\ access'[c].action = access[c].action
                  /\ access'[c].next = IF u = t /\ j + 1 = i THEN Link(t, i + 1) ELSE access[c].next
    <3>1. CASE u = t /\ j = k
      BY <3>1, <2>2, <2>4, <2>8 DEF last
    <3>2. CASE ~(u = t /\ j = k)
      <4>1. open[u][j].buffer # last
        BY <3>2, <2>3, <2>4, <1>1 DEF last, BuffersInv
      <4>2. ~(u = t /\ j + 1 = i)
        BY <3>2, <1>2, <2>2
      <4>3. access'[open[u][j].buffer] = access[open[u][j].buffer]
        BY <4>1, <1>9, <2>7, <2>9
      <4> QED BY <4>2, <4>3
    <3> QED BY <3>1, <3>2
  <2>10. i # 1 /\ head' = head
    BY <1>2, <1>11, <2>2, <2>1
  <2>11. Unlinked(t, i)
    BY <2>9, <2>10 DEF Unlinked
  <2>12. \A c \in Buffer : access[c].pointer = Null => access'[c].pointer = Null
    BY <2>7, <2>8
  <2> QED BY <1>1, <1>11, <2>7, <2>10, <2>11, <2>12 DEF TypeOK
<1>12. ~(\A j \in DOMAIN Walk(t) : Walk(t)[j] # b)
  <2>1. i \in DOMAIN Walk(t)
    BY <1>2, <1>3, <1>4
  <2> QED BY <2>1, <1>3, <1>5
<1> QED BY <1>10, <1>11, <1>12 DEF RemoveAccess, b

\* An access in a list ends.
LEMMA EndTracked ==
  ASSUME IInv, NEW t \in Thread, NEW i \in DOMAIN open[t], died = "no",
         RemoveAccess(t, open[t][i].buffer),
         open' = [open EXCEPT ![t] = RemoveAt(@, i)],
         UNCHANGED <<disabled, reported, silent>>
  PROVE  IInv'
<1>1. TypeOK /\ BuffersInv /\ LinksInv /\ SilentInv /\ LawOfExclusivity /\ EndFindsAccess
  BY DEF IInv
<1>2. /\ head' \in [Thread -> Buffer \cup {Null}]
      /\ access' \in [Buffer -> [pointer : Variable \cup {Null}, action : Action,
                                 next : Buffer \cup {Null}]]
      /\ UNCHANGED died
      /\ Unlinked(t, i)
      /\ \A c \in Buffer : access[c].pointer = Null => access'[c].pointer = Null
  BY RemoveUnlinks
<1>3. /\ open' \in [Thread -> Seq(OpenAccess)]
      /\ \A u \in Thread \ {t} : open'[u] = open[u]
      /\ DOMAIN open'[t] = 1..(Len(open[t]) - 1)
      /\ \A j \in DOMAIN open'[t] :
           \/ j < i /\ j \in DOMAIN open[t] /\ open'[t][j] = open[t][j]
           \/ j >= i /\ j + 1 \in DOMAIN open[t] /\ open'[t][j] = open[t][j + 1]
      /\ \A j \in DOMAIN open'[t] :
           Violates(t, j)' => Violates(t, IF j < i THEN j ELSE j + 1)
  BY <1>1, EndViolates
<1>4. DOMAIN open[t] = 1..Len(open[t]) /\ Len(open[t]) \in Nat /\ i \in Nat \ {0}
  BY <1>1, OpenFacts
<1> DEFINE o(u, j) == IF u = t /\ j >= i THEN j + 1 ELSE j
<1>5. ASSUME NEW u \in Thread, NEW j \in DOMAIN open'[u]
      PROVE  /\ o(u, j) \in DOMAIN open[u] /\ open'[u][j] = open[u][o(u, j)]
             /\ ~(u = t /\ o(u, j) = i)
  <2>1. CASE u = t
    <3>1. j \in Nat
      BY <2>1, <1>3, <1>4
    <3>2. CASE j < i
      <4>1. o(u, j) = j
        BY <3>1, <3>2, <1>4
      <4>2. j \in DOMAIN open[t] /\ open'[t][j] = open[t][j]
        BY <2>1, <3>1, <3>2, <1>3, <1>4
      <4> HIDE DEF o
      <4> QED BY <2>1, <3>1, <3>2, <4>1, <4>2, <1>4
    <3>3. CASE j >= i
      <4>1. o(u, j) = j + 1
        BY <2>1, <3>3
      <4>2. j + 1 \in DOMAIN open[t] /\ open'[t][j] = open[t][j + 1]
        <5>1. j \in DOMAIN open'[t] /\ ~(j < i)
          BY <2>1, <3>1, <3>3, <1>4
        <5> QED BY <5>1, <1>3
      <4>3. j + 1 # i
        BY <3>1, <3>3, <1>4
      <4> HIDE DEF o
      <4> QED BY <2>1, <4>1, <4>2, <4>3
    <3> QED BY <3>1, <3>2, <3>3, <1>4
  <2>2. CASE u # t
    BY <2>2, <1>3
  <2> QED BY <2>1, <2>2
<1>6. TypeOK'
  BY <1>1, <1>2, <1>3 DEF TypeOK
<1>7. BuffersInv'
  <2>1. ASSUME NEW u \in Thread, NEW v \in Thread, NEW j \in DOMAIN open'[u], NEW k \in DOMAIN open'[v],
               open'[u][j].buffer = open'[v][k].buffer
        PROVE  u = v /\ j = k
    <3>1. u = v /\ o(u, j) = o(v, k)
      <4> HIDE DEF o
      <4> QED BY <2>1, <1>1, <1>5 DEF BuffersInv
    <3>2. u = t => j \in Nat /\ k \in Nat
      BY <3>1, <1>3, <1>4
    <3> QED BY <3>1, <3>2, <1>4
  <2>2. \A u \in Thread : Opened(u)' \subseteq Opened(u)
    <3> HIDE DEF o
    <3> QED BY <1>5 DEF Opened
  <2>3. \A u, v \in Thread : (silent[u] \cap Opened(v) = {})'
    BY <1>1, <2>2 DEF BuffersInv
  <2>4. \A u, v \in Thread : u # v => (silent[u] \cap silent[v] = {})'
    BY <1>1 DEF BuffersInv
  <2> QED BY <2>1, <2>3, <2>4 DEF BuffersInv
<1>8. /\ \A u \in Thread \ {t} : \A j : Link(u, j)' = Link(u, j)
      /\ \A j \in Nat \ {0} : Link(t, j)' = IF j < i THEN Link(t, j) ELSE Link(t, j + 1)
  <2>1. \A u \in Thread \ {t} : \A j : Link(u, j)' = Link(u, j)
    BY <1>3 DEF Link
  <2>2. ASSUME NEW j \in Nat \ {0}, j < i PROVE Link(t, j)' = Link(t, j)
    <3>1. j \in DOMAIN open[t] /\ j \in DOMAIN open'[t] /\ open'[t][j] = open[t][j]
      BY <2>2, <1>3, <1>4
    <3> QED BY <3>1 DEF Link
  <2>3. ASSUME NEW j \in Nat \ {0}, ~(j < i) PROVE Link(t, j)' = Link(t, j + 1)
    <3>1. j + 1 \in DOMAIN open[t] <=> j \in DOMAIN open'[t]
      BY <2>3, <1>3, <1>4
    <3>2. j \in DOMAIN open'[t] => open'[t][j] = open[t][j + 1]
      BY <2>3, <1>3, <1>4
    <3> QED BY <3>1, <3>2 DEF Link
  <2> QED BY <2>1, <2>2, <2>3
<1>9. LinksInv'
  <2>1. ASSUME NEW u \in Thread PROVE head'[u] = Link(u, 1)'
    <3>1. head[u] = Link(u, 1)
      BY <1>1 DEF LinksInv
    <3>2. CASE u = t /\ i = 1
      BY <3>2, <1>2, <1>8 DEF Unlinked
    <3>3. CASE u = t /\ i # 1
      BY <3>1, <3>3, <1>2, <1>4, <1>8 DEF Unlinked
    <3>4. CASE u # t
      BY <3>1, <3>4, <1>2, <1>8 DEF Unlinked
    <3> QED BY <3>2, <3>3, <3>4
  <2>2. ASSUME NEW u \in Thread, NEW j \in DOMAIN open'[u]
        PROVE  /\ access'[open'[u][j].buffer].pointer = open'[u][j].pointer
               /\ access'[open'[u][j].buffer].action = open'[u][j].action
               /\ access'[open'[u][j].buffer].next = Link(u, j + 1)'
    <3> DEFINE k == o(u, j)
               c == open[u][k].buffer
    <3>1. k \in DOMAIN open[u] /\ open'[u][j] = open[u][k] /\ ~(u = t /\ k = i)
      BY <1>5
    <3>2. Link(u, j + 1)' = IF u = t /\ k + 1 = i THEN Link(t, i + 1) ELSE Link(u, k + 1)
      <4>1. CASE u = t
        <5>1. j \in Nat \ {0}
          BY <4>1, <1>3, <1>4
        <5>2. Link(t, j + 1)' = IF j + 1 < i THEN Link(t, j + 1) ELSE Link(t, (j + 1) + 1)
          BY <5>1, <1>8
        <5>3. CASE j + 1 < i
          <6>1. k = j /\ k + 1 # i
            BY <5>1, <5>3, <1>4
          <6> QED BY <4>1, <5>2, <5>3, <6>1
        <5>4. CASE j + 1 = i
          <6>1. k = j /\ k + 1 = i /\ (j + 1) + 1 = i + 1 /\ ~(j + 1 < i)
            BY <5>1, <5>4, <1>4
          <6> HIDE DEF k
          <6> QED BY <4>1, <5>2, <6>1
        <5>5. CASE j >= i
          <6>1. k = j + 1 /\ k + 1 # i /\ ~(j + 1 < i)
            BY <4>1, <5>1, <5>5, <1>4
          <6> HIDE DEF k
          <6> QED BY <4>1, <5>2, <6>1
        <5> QED BY <5>1, <1>4, <5>3, <5>4, <5>5
      <4>2. CASE u # t
        BY <4>2, <1>8
      <4> QED BY <4>1, <4>2
    <3> HIDE DEF k
    <3>3. /\ access[c].pointer = open[u][k].pointer
          /\ access[c].action = open[u][k].action
          /\ access[c].next = Link(u, k + 1)
      BY <1>1, <3>1 DEF LinksInv
    <3>4. /\ access'[c].pointer = access[c].pointer /\ access'[c].action = access[c].action
          /\ access'[c].next = IF u = t /\ k + 1 = i THEN Link(t, i + 1) ELSE access[c].next
      BY <1>2, <3>1 DEF Unlinked
    <3> QED BY <3>1, <3>2, <3>3, <3>4
  <2> QED BY <2>1, <2>2 DEF LinksInv
<1>10. SilentInv'
  <2> SUFFICES ASSUME NEW u \in Thread, NEW c \in silent[u] PROVE access'[c].pointer = Null
    BY DEF SilentInv, Untracked
  <2>1. c \in Buffer
    BY <1>1 DEF TypeOK
  <2> QED BY <2>1, <1>1, <1>2 DEF SilentInv, Untracked
<1>11. LawOfExclusivity'
  <2> SUFFICES ASSUME NEW u \in Thread, NEW j \in DOMAIN open'[u], Violates(u, j)'
               PROVE  open'[u][j].warningOnly \/ reported = MaxReported
    BY DEF LawOfExclusivity
  <2>1. CASE u = t
    <3>1. PICK k \in DOMAIN open[t] : k = (IF j < i THEN j ELSE j + 1) /\ open'[t][j] = open[t][k]
      BY <2>1, <1>3, <1>4
    <3>2. Violates(t, k)
      BY <2>1, <3>1, <1>3
    <3> QED BY <2>1, <3>1, <3>2, <1>1 DEF LawOfExclusivity
  <2>2. CASE u # t
    <3>1. open'[u] = open[u]
      BY <2>2, <1>3
    <3>2. Violates(u, j)
      BY <3>1 DEF Violates
    <3> QED BY <3>1, <3>2, <1>1 DEF LawOfExclusivity
  <2> QED BY <2>1, <2>2
<1>12. EndFindsAccess'
  BY <1>2 DEF EndFindsAccess
<1> QED BY <1>6, <1>7, <1>9, <1>10, <1>11, <1>12 DEF IInv

\* A report and a death by conflict come with an access that violates the law.
Justified ==
  reported' # reported \/ (died' = "conflict" /\ died = "no") =>
    \E t \in Thread : Len(open'[t]) > Len(open[t]) /\ Violates(t, 1)'

LEMMA NextStep ==
  IInv /\ [Next]_vars => IInv' /\ Justified
<1> SUFFICES ASSUME IInv, [Next]_vars PROVE IInv' /\ Justified
  OBVIOUS
<1>1. TypeOK /\ SilentInv
  BY DEF IInv
<1>2. ASSUME NEW t \in Thread, NEW b \in Buffer, NEW p \in Variable, NEW a \in Action, NEW w \in BOOLEAN,
             swift_beginAccess(t, b, p, a, w)
      PROVE  IInv' /\ Justified
  <2>1. died = "no" /\ b \notin InUse /\ UNCHANGED disabled
    BY <1>2 DEF swift_beginAccess
  <2>2. CASE disabled
    <3>1. /\ access' = [access EXCEPT ![b].pointer = Null]
          /\ silent' = [silent EXCEPT ![t] = @ \cup {b}]
          /\ UNCHANGED <<head, reported, open, died>>
      BY <1>2, <2>2 DEF swift_beginAccess
    <3>2. IInv'
      BY <2>1, <3>1, BeginSilent
    <3> QED BY <2>1, <3>1, <3>2 DEF Justified
  <2>3. CASE ~disabled
    <3>1. Insert(t, b, p, a, w)
      BY <1>2, <2>3 DEF swift_beginAccess
    <3>2. IInv' /\ (reported' # reported \/ died' = "conflict" => Violates(t, 1)')
      BY <2>1, <3>1, InsertStep
    <3>3. Len(open'[t]) > Len(open[t])
      <4> DEFINE new == [buffer |-> b, pointer |-> p, action |-> a, warningOnly |-> w]
      <4>1. open' = [open EXCEPT ![t] = Cons(new, @)] /\ new \in OpenAccess
        BY <3>1 DEF Insert, OpenAccess
      <4> HIDE DEF new
      <4>2. Len(open'[t]) = Len(open[t]) + 1
        BY <1>1, <4>1, BeginViolates
      <4>3. Len(open[t]) \in Nat
        BY <1>1, OpenFacts
      <4> QED BY <4>2, <4>3
    <3> QED BY <3>2, <3>3 DEF Justified
  <2> QED BY <2>2, <2>3
<1>3. ASSUME NEW t \in Thread, NEW b \in Buffer, swift_endAccess(t, b) PROVE IInv' /\ Justified
  <2>1. died = "no" /\ UNCHANGED <<disabled, reported>> /\ Close(t, b)
    BY <1>3 DEF swift_endAccess
  <2>2. CASE b \in silent[t] /\ silent' = [silent EXCEPT ![t] = @ \ {b}] /\ UNCHANGED open
    <3>1. Untracked(b)
      BY <1>1, <2>2 DEF SilentInv
    <3>2. access' = [access EXCEPT ![b] = Scratch] /\ UNCHANGED <<head, died>>
      BY <1>3, <3>1 DEF swift_endAccess
    <3>3. IInv'
      BY <2>1, <2>2, <3>2, EndSilent
    <3> QED BY <2>1, <3>2, <3>3 DEF Justified
  <2>3. ASSUME NEW i \in DOMAIN open[t], open[t][i].buffer = b,
               open' = [open EXCEPT ![t] = RemoveAt(@, i)], UNCHANGED silent
        PROVE  IInv' /\ Justified
    <3>1. access[b].pointer = open[t][i].pointer /\ open[t][i].pointer # Null
      BY <1>1, <2>1, <2>3, OpenFacts DEF IInv, LinksInv
    <3>2. RemoveAccess(t, open[t][i].buffer)
      BY <1>3, <2>3, <3>1 DEF swift_endAccess, Untracked
    <3>3. IInv'
      BY <2>1, <2>3, <3>2, EndTracked
    <3>4. UNCHANGED died
      BY <2>1, <3>2, RemoveUnlinks
    <3> QED BY <2>1, <3>3, <3>4 DEF Justified
  <2> QED BY <2>1, <2>2, <2>3 DEF Close
<1>4. ASSUME NEW t \in Thread, NEW b \in Buffer, Abandon(t, b) PROVE IInv' /\ Justified
  <2>1. IInv'
    BY <1>4, EndSilent DEF Abandon
  <2> QED BY <1>4, <2>1 DEF Abandon, Justified
<1>5. CASE SetDisabled
  <2>1. TypeOK'
    BY <1>1, <1>5 DEF SetDisabled, TypeOK
  <2>2. BuffersInv' /\ SilentInv'
    BY <1>5 DEF SetDisabled, IInv, BuffersInv, SilentInv, Opened, Untracked
  <2>3. LinksInv'
    BY <1>5 DEF SetDisabled, IInv, LinksInv, Link
  <2>4. LawOfExclusivity' /\ EndFindsAccess'
    BY <1>5 DEF SetDisabled, IInv, LawOfExclusivity, Violates, EndFindsAccess
  <2> QED BY <1>5, <2>1, <2>2, <2>3, <2>4 DEF IInv, SetDisabled, Justified
<1>6. CASE UNCHANGED vars
  <2>1. TypeOK'
    BY <1>1, <1>6 DEF vars, TypeOK
  <2>2. BuffersInv' /\ SilentInv'
    BY <1>6 DEF vars, IInv, BuffersInv, SilentInv, Opened, Untracked
  <2>3. LinksInv'
    BY <1>6 DEF vars, IInv, LinksInv, Link
  <2>4. LawOfExclusivity' /\ EndFindsAccess'
    BY <1>6 DEF vars, IInv, LawOfExclusivity, Violates, EndFindsAccess
  <2> QED BY <1>6, <2>1, <2>2, <2>3, <2>4 DEF IInv, vars, Justified
<1> QED BY <1>2, <1>3, <1>4, <1>5, <1>6 DEF Next

\* The inductive invariant: the pointers of each list go through the accesses
\* of its thread, and every buffer serves one access.
THEOREM Invariance == Spec => []IInv
<1>1. Init => IInv
  BY Initial
<1>2. IInv /\ [Next]_vars => IInv'
  BY NextStep
<1> QED BY <1>1, <1>2, PTL DEF Spec

\* A loop over the list of a thread, as in AccessSet::insert and remove, sees
\* the tracked accesses of the thread, the latest first, and no others.
THEOREM ListIsExact == Spec => []ListExact
<1>1. IInv => ListExact
  <2> SUFFICES ASSUME IInv, died # "conflict", NEW t \in Thread
               PROVE  /\ DOMAIN open[t] \subseteq DOMAIN Walk(t)
                      /\ \A i \in DOMAIN Walk(t) :
                           Walk(t)[i] = IF i \in DOMAIN open[t] THEN open[t][i].buffer ELSE Null
                      /\ \A i \in DOMAIN open[t] :
                           /\ access[open[t][i].buffer].pointer = open[t][i].pointer
                           /\ access[open[t][i].buffer].action = open[t][i].action
    BY DEF ListExact
  <2>1. TypeOK /\ BuffersInv /\ LinksInv
    BY DEF IInv
  <2>2. /\ DOMAIN Walk(t) = 1..(Cardinality(Buffer) + 1)
        /\ \A i \in DOMAIN Walk(t) : Walk(t)[i] = Link(t, i)
    BY <2>1, WalkFacts
  <2>3. DOMAIN open[t] \subseteq DOMAIN Walk(t)
    BY <2>1, <2>2, AccessesFit, OpenFacts
  <2>4. \A i \in DOMAIN open[t] : /\ access[open[t][i].buffer].pointer = open[t][i].pointer
                                  /\ access[open[t][i].buffer].action = open[t][i].action
    BY <2>1 DEF LinksInv
  <2> QED BY <2>2, <2>3, <2>4 DEF Link
<1> QED BY <1>1, Invariance, PTL

\* swift_beginAccess lets no two accesses of a thread to a variable overlap,
\* one of them a modification, but for warnings and after the report limit.
THEOREM LawIsKept == Spec => []LawOfExclusivity
<1>1. IInv => LawOfExclusivity
  BY DEF IInv
<1> QED BY <1>1, Invariance, PTL

\* swift_endAccess never ends in "access not found in set".
THEOREM EndIsFound == Spec => []EndFindsAccess
<1>1. IInv => EndFindsAccess
  BY DEF IInv
<1> QED BY <1>1, Invariance, PTL

\* reportExclusivityConflict is called only for an access that overlaps one it
\* conflicts with.
THEOREM ReportsAreTrue == Spec => NoFalseReport
<1>1. IInv /\ [Next]_vars =>
        [reported' # reported \/ (died' = "conflict" /\ died = "no") =>
           \E t \in Thread : /\ Len(open'[t]) > Len(open[t])
                             /\ Violates(t, 1)']_vars
  BY NextStep DEF Justified
<1> QED BY <1>1, Invariance, PTL DEF Spec, NoFalseReport
==============================================================================
