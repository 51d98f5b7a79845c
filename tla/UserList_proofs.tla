---------------------------- MODULE UserList_proofs ----------------------------
(***************************************************************************)
(* What holds of list.c for any addresses, any carts and any number of     *)
(* users, by one inductive invariant: there is an order of the allocated   *)
(* addresses along which next and prev lead.                               *)
(***************************************************************************)
EXTENDS UserList, FiniteSetTheorems, SequenceTheorems, TLAPS

\* r has HEAD at both ends and the n nodes of S between them, each once.
IsOrder(r, n, S) ==
  /\ r \in [0 .. n + 1 -> Nodes]
  /\ r[0] = HEAD /\ r[n + 1] = HEAD
  /\ \A k \in 1 .. n : r[k] \in S
  /\ \A a \in S : \E k \in 1 .. n : r[k] = a
  /\ \A j, k \in 1 .. n : r[j] = r[k] => j = k

\* succ leads from one place of r to the next, pred back.
Leads(r, n, succ) == \A k \in 0 .. n : succ[r[k]] = r[k + 1]
LeadsBack(r, n, pred) == \A k \in 0 .. n : pred[r[k + 1]] = r[k]

IsRing(r, n, succ, pred, S) ==
  IsOrder(r, n, S) /\ Leads(r, n, succ) /\ LeadsBack(r, n, pred)

\* The names that have been deleted before operation at.
Deleted == {m \in {1, 4} : IF m = 1 THEN at > 6 ELSE at > 8}

\* The list is built and not freed yet.
Serving == pc \in {"op", "walk", "cart", "live"}

\* The users are in the order of their names, which are those added so far or
\* those not deleted so far; user 3 has its new cart once it is updated.
NameInv(r, n) ==
  /\ pc = "build" => n <= N_USER_INFOS /\ \A k \in 1 .. n : user[r[k]].name = k - 1
  /\ Serving =>
       /\ \A j, k \in 1 .. n : j < k => user[r[j]].name < user[r[k]].name
       /\ \A k \in 1 .. n : user[r[k]].name \notin Deleted
       /\ \A m \in 0 .. N_USER_INFOS - 1 :
            m \in Deleted \/ \E k \in 1 .. n : user[r[k]].name = m
       /\ at > 5 => \A k \in 1 .. n : user[r[k]].name = 3 => user[r[k]].cart = MilkAndHam

Sought(a) == Script[at].op # "print" /\ user[a].name = Script[at].name

\* A walk has passed no user it looks for; the freeing loop is at the first user.
CursorInv(r, n) ==
  /\ pc \in {"build", "op", "live", "gone"} => pos = HEAD /\ tmp = HEAD
  /\ pc \in {"walk", "cart"} =>
       /\ tmp = HEAD
       /\ \E j \in 1 .. n + 1 : pos = r[j] /\ \A k \in 1 .. j - 1 : ~Sought(r[k])
  /\ pc = "free" => pos = next[HEAD] /\ tmp = next[pos]
  /\ pc = "gone" => allocated = {}
  /\ pc = "build" => at = 1
  /\ pc = "live" => at = Len(Script)

\* Ten items with ten characters and a separator each fit into the buffer.
LineInv ==
  IF pc = "cart"
  THEN /\ pos # HEAD /\ Script[at].op = "print"
       /\ item \in 1 .. Len(user[pos].cart) + 1
       /\ wanted <= 12 * (item - 1) /\ len = wanted
  ELSE item = 0 /\ len = 0 /\ wanted = 0

Inv(r, n) ==
  /\ TypeOK /\ IsRing(r, n, next, prev, allocated)
  /\ NameInv(r, n) /\ CursorInv(r, n) /\ LineInv

IInv == \E n \in Nat : \E r \in [0 .. n + 1 -> Nodes] : Inv(r, n)
-----------------------------------------------------------------------------
(***************************************************************************)
(* The ring: what list_add_tail() and list_del() make of it, and that the  *)
(* chain from HEAD is its order.                                           *)
(***************************************************************************)

\* A set of numbers has a smallest one.
LEMMA SmallestElement ==
  ASSUME NEW T \in SUBSET Nat, T # {}
  PROVE  \E n \in T : \A m \in T : n <= m
<1>1. IsWellFoundedOn(OpToRel(<, Nat), Nat)
  BY NatLessThanWellFounded
<1>2. PICK n \in T : \A m \in T : <<m, n>> \notin OpToRel(<, Nat)
  BY <1>1, WFMin
<1>3. \A m \in T : ~ (m < n)
  BY <1>2 DEF OpToRel
<1> QED
  BY <1>3

\* HEAD, POISON and the addresses are different.
LEMMA NodeFacts ==
  /\ HEAD \notin Addrs /\ POISON \notin Nodes /\ HEAD \in Nodes
  /\ Nodes = Addrs \cup {HEAD}
  BY ListAssumption DEF ListAssumption, Nodes

\* A ring has as many nodes as its order says.
LEMMA OrderCardinality ==
  ASSUME NEW r, NEW n \in Nat, NEW S, IsOrder(r, n, S)
  PROVE  IsFiniteSet(S) /\ Cardinality(S) = n
<1> DEFINE b == [k \in 1 .. n |-> r[k]]
<1>1. b \in Bijection(1 .. n, S)
  BY DEF IsOrder, Bijection, Injection, Surjection, IsInjective
<1>2. ExistsBijection(1 .. n, S)
  BY <1>1 DEF ExistsBijection
<1> QED
  BY <1>2, FS_CountingElements, FS_NatBijection

\* No node of a ring is HEAD; the order numbers its nodes.
LEMMA OrderNodes ==
  ASSUME NEW r, NEW n \in Nat, NEW S \in SUBSET Addrs, IsOrder(r, n, S)
  PROVE  /\ \A k \in 0 .. n + 1 : r[k] \in Nodes /\ r[k] \in S \cup {HEAD}
         /\ \A k \in 1 .. n : r[k] \in S /\ r[k] # HEAD
         /\ \A j, k \in 0 .. n : r[j] = r[k] => j = k
         /\ \A j, k \in 1 .. n + 1 : r[j] = r[k] => j = k
         /\ n = 0 <=> S = {}
<1>1. r \in [0 .. n + 1 -> Nodes] /\ r[0] = HEAD /\ r[n + 1] = HEAD
  BY DEF IsOrder
<1>2. \A k \in 1 .. n : r[k] \in S /\ r[k] # HEAD
  BY NodeFacts DEF IsOrder
<1>3. \A j, k \in 1 .. n : r[j] = r[k] => j = k
  BY DEF IsOrder
<1>4. \A k \in 0 .. n + 1 : k = 0 \/ k = n + 1 \/ k \in 1 .. n
  OBVIOUS
<1>5. \A k \in 0 .. n + 1 : r[k] \in Nodes /\ r[k] \in S \cup {HEAD}
  BY <1>1, <1>2, <1>4
<1>6. \A j, k \in 0 .. n : r[j] = r[k] => j = k
  BY <1>1, <1>2, <1>3
<1>7. \A j, k \in 1 .. n + 1 : r[j] = r[k] => j = k
  BY <1>1, <1>2, <1>3
<1>8. n = 0 <=> S = {}
  BY DEF IsOrder
<1> QED
  BY <1>2, <1>5, <1>6, <1>7, <1>8

\* list_add_tail(), the order.
LEMMA OrderAppend ==
  ASSUME NEW r, NEW n \in Nat, NEW S \in SUBSET Addrs, NEW a \in Addrs \ S,
         IsOrder(r, n, S),
         NEW q, q = [k \in 0 .. n + 2 |->
                       IF k <= n THEN r[k] ELSE IF k = n + 1 THEN a ELSE HEAD]
  PROVE  IsOrder(q, n + 1, S \cup {a})
<1>1. r \in [0 .. n + 1 -> Nodes] /\ r[0] = HEAD
  BY DEF IsOrder
<1>2. /\ q \in [0 .. (n + 1) + 1 -> Nodes] /\ q[0] = HEAD /\ q[(n + 1) + 1] = HEAD
      /\ q[n + 1] = a /\ \A k \in 1 .. n : q[k] = r[k]
  BY <1>1, NodeFacts
<1>3. \A k \in 1 .. n : r[k] \in S /\ r[k] # a
  BY DEF IsOrder
<1>4. \A k \in 1 .. n + 1 : k = n + 1 \/ k \in 1 .. n
  OBVIOUS
<1>5. \A k \in 1 .. n + 1 : q[k] \in S \cup {a}
  BY <1>2, <1>3, <1>4
<1>6. \A b \in S \cup {a} : \E k \in 1 .. n + 1 : q[k] = b
  <2>1. ASSUME NEW b \in S PROVE \E k \in 1 .. n + 1 : q[k] = b
    <3>1. PICK k \in 1 .. n : r[k] = b
      BY DEF IsOrder
    <3>2. k \in 1 .. n + 1
      OBVIOUS
    <3> QED
      BY <3>1, <3>2, <1>2
  <2>2. n + 1 \in 1 .. n + 1
    OBVIOUS
  <2> QED
    BY <2>1, <2>2, <1>2
<1>7. \A j, k \in 1 .. n + 1 : q[j] = q[k] => j = k
  <2>1. \A j, k \in 1 .. n : r[j] = r[k] => j = k
    BY DEF IsOrder
  <2> QED
    BY <1>2, <1>3, <1>4, <2>1
<1> QED
  BY <1>2, <1>5, <1>6, <1>7 DEF IsOrder

\* list_add_tail(), the pointers.
LEMMA RingAppend ==
  ASSUME NEW r, NEW n \in Nat, NEW S \in SUBSET Addrs, NEW a \in Addrs \ S,
         NEW succ \in [Nodes -> Nodes \cup {POISON}],
         NEW pred \in [Nodes -> Nodes \cup {POISON}],
         IsRing(r, n, succ, pred, S),
         NEW succ2, succ2 = [succ EXCEPT ![pred[HEAD]] = a, ![a] = HEAD],
         NEW pred2, pred2 = [pred EXCEPT ![HEAD] = a, ![a] = pred[HEAD]],
         NEW q, q = [k \in 0 .. n + 2 |->
                       IF k <= n THEN r[k] ELSE IF k = n + 1 THEN a ELSE HEAD]
  PROVE  IsRing(q, n + 1, succ2, pred2, S \cup {a})
<1>1. IsOrder(r, n, S) /\ Leads(r, n, succ) /\ LeadsBack(r, n, pred)
  BY DEF IsRing
<1>2. IsOrder(q, n + 1, S \cup {a})
  BY <1>1, OrderAppend
<1>3. /\ \A k \in 0 .. n : r[k] \in Nodes /\ r[k] # a
      /\ \A k \in 1 .. n : r[k] # HEAD
      /\ \A j, k \in 0 .. n : r[j] = r[k] => j = k
  BY <1>1, NodeFacts, OrderNodes
<1>4. r[n + 1] = HEAD
  BY <1>1 DEF IsOrder
<1>5. pred[HEAD] = r[n] /\ r[n] \in Nodes /\ r[n] # a /\ a \in Nodes /\ a # HEAD
  BY <1>1, <1>3, <1>4, NodeFacts DEF LeadsBack
<1>6. /\ \A k \in 0 .. n : q[k] = r[k]
      /\ q[n + 1] = a /\ q[(n + 1) + 1] = HEAD
  OBVIOUS
<1>7. succ2[r[n]] = a /\ succ2[a] = HEAD /\ pred2[HEAD] = a /\ pred2[a] = r[n]
  BY <1>5, NodeFacts
<1>8. ASSUME NEW k \in 0 .. n + 1
      PROVE  succ2[q[k]] = q[k + 1] /\ pred2[q[k + 1]] = q[k]
  <2>1. CASE k \in 0 .. n - 1
    <3>1. q[k] = r[k] /\ q[k + 1] = r[k + 1]
      BY <2>1, <1>6
    <3>2. succ[r[k]] = r[k + 1] /\ pred[r[k + 1]] = r[k]
      BY <2>1, <1>1 DEF Leads, LeadsBack
    <3>3. r[k] \in Nodes /\ r[k] # a /\ r[k] # r[n]
      BY <2>1, <1>3
    <3>4. r[k + 1] \in Nodes /\ r[k + 1] # a /\ r[k + 1] # HEAD
      BY <2>1, <1>3
    <3> QED
      BY <3>1, <3>2, <3>3, <3>4, <1>5
  <2>2. CASE k = n
    BY <2>2, <1>6, <1>7
  <2>3. CASE k = n + 1
    BY <2>3, <1>6, <1>7
  <2> QED
    BY <2>1, <2>2, <2>3
<1> QED
  BY <1>2, <1>8 DEF IsRing, Leads, LeadsBack

\* list_del() of the j-th node, the order.
LEMMA OrderRemove ==
  ASSUME NEW r, NEW n \in Nat, NEW S \in SUBSET Addrs, NEW j \in 1 .. n,
         IsOrder(r, n, S),
         NEW q, q = [k \in 0 .. n |-> IF k < j THEN r[k] ELSE r[k + 1]]
  PROVE  IsOrder(q, n - 1, S \ {r[j]})
<1>1. r \in [0 .. n + 1 -> Nodes] /\ r[0] = HEAD /\ r[n + 1] = HEAD
  BY DEF IsOrder
<1>2. q \in [0 .. n -> Nodes] /\ q[0] = HEAD /\ q[n] = HEAD
  BY <1>1
<1>3. \A k \in 1 .. n - 1 : q[k] = IF k < j THEN r[k] ELSE r[k + 1]
  OBVIOUS
<1>4. \A i, k \in 1 .. n : r[i] = r[k] => i = k
  BY DEF IsOrder
<1>5. \A k \in 1 .. n - 1 : q[k] \in S \ {r[j]}
  <2>1. \A k \in 1 .. n : r[k] \in S
    BY DEF IsOrder
  <2> QED
    BY <1>3, <1>4, <2>1
<1>6. ASSUME NEW b \in S \ {r[j]} PROVE \E k \in 1 .. n - 1 : q[k] = b
  <2>1. PICK k \in 1 .. n : r[k] = b
    BY DEF IsOrder
  <2>2. k < j \/ k > j
    BY <2>1
  <2>3. CASE k < j
    <3>1. k \in 1 .. n - 1
      BY <2>3
    <3> QED
      BY <2>1, <2>3, <3>1, <1>3
  <2>4. CASE k > j
    <3>1. PICK i \in 1 .. n - 1 : k = i + 1 /\ ~ (i < j)
      BY <2>4, k - 1 \in 1 .. n - 1, k = (k - 1) + 1
    <3> QED
      BY <2>1, <3>1, <1>3
  <2> QED
    BY <2>2, <2>3, <2>4
<1>7. \A i, k \in 1 .. n - 1 : q[i] = q[k] => i = k
  <2> SUFFICES ASSUME NEW i \in 1 .. n - 1, NEW k \in 1 .. n - 1, q[i] = q[k]
               PROVE  i = k
    OBVIOUS
  <2>1. i \in 1 .. n /\ i + 1 \in 1 .. n /\ k \in 1 .. n /\ k + 1 \in 1 .. n
    OBVIOUS
  <2>2. (IF i < j THEN r[i] ELSE r[i + 1]) = (IF k < j THEN r[k] ELSE r[k + 1])
    BY <1>3
  <2> QED
    BY <2>1, <2>2, <1>4
<1>8. (n - 1) + 1 = n
  OBVIOUS
<1> QED
  BY <1>2, <1>5, <1>6, <1>7, <1>8 DEF IsOrder

\* list_del() of the j-th node, the pointers.
LEMMA RingRemove ==
  ASSUME NEW r, NEW n \in Nat, NEW S \in SUBSET Addrs, NEW j \in 1 .. n,
         NEW succ \in [Nodes -> Nodes \cup {POISON}],
         NEW pred \in [Nodes -> Nodes \cup {POISON}],
         IsRing(r, n, succ, pred, S),
         NEW e, e = r[j],
         NEW succ2, succ2 = [succ EXCEPT ![pred[e]] = succ[e], ![e] = POISON],
         NEW pred2, pred2 = [pred EXCEPT ![succ[e]] = pred[e], ![e] = POISON],
         NEW q, q = [k \in 0 .. n |-> IF k < j THEN r[k] ELSE r[k + 1]]
  PROVE  IsRing(q, n - 1, succ2, pred2, S \ {e})
<1>1. IsOrder(r, n, S) /\ Leads(r, n, succ) /\ LeadsBack(r, n, pred)
  BY DEF IsRing
<1>2. IsOrder(q, n - 1, S \ {e})
  BY <1>1, OrderRemove
<1>3. /\ \A k \in 0 .. n + 1 : r[k] \in Nodes
      /\ \A i, k \in 0 .. n : r[i] = r[k] => i = k
      /\ \A i, k \in 1 .. n + 1 : r[i] = r[k] => i = k
  BY <1>1, OrderNodes
<1>4. pred[e] = r[j - 1] /\ succ[e] = r[j + 1]
  <2>1. j - 1 \in 0 .. n /\ (j - 1) + 1 = j /\ j \in 0 .. n
    OBVIOUS
  <2> QED
    BY <2>1, <1>1 DEF Leads, LeadsBack
<1>5. r[j - 1] \in Nodes /\ r[j + 1] \in Nodes /\ e \in Nodes
  BY <1>3
<1>6. r[j - 1] # e /\ r[j + 1] # e
  <2>1. j - 1 \in 0 .. n /\ j \in 0 .. n /\ j - 1 # j
    OBVIOUS
  <2>2. j + 1 \in 1 .. n + 1 /\ j \in 1 .. n + 1 /\ j + 1 # j
    OBVIOUS
  <2> QED
    BY <2>1, <2>2, <1>3
<1>7. succ2[r[j - 1]] = r[j + 1] /\ pred2[r[j + 1]] = r[j - 1]
  BY <1>4, <1>5, <1>6
<1>8. ASSUME NEW k \in 0 .. n, k # j, k # j - 1
      PROVE  succ2[r[k]] = r[k + 1] /\ pred2[r[k + 1]] = r[k]
  <2>1. succ[r[k]] = r[k + 1] /\ pred[r[k + 1]] = r[k]
    BY <1>1 DEF Leads, LeadsBack
  <2>2. r[k] \in Nodes /\ r[k] # e /\ r[k] # r[j - 1]
    <3>1. j \in 0 .. n /\ j - 1 \in 0 .. n
      OBVIOUS
    <3> QED
      BY <3>1, <1>3, <1>8
  <2>3. r[k + 1] \in Nodes /\ r[k + 1] # e /\ r[k + 1] # r[j + 1]
    <3>1. /\ j \in 1 .. n + 1 /\ j + 1 \in 1 .. n + 1 /\ k + 1 \in 1 .. n + 1
          /\ k + 1 # j /\ k + 1 # j + 1 /\ k + 1 \in 0 .. n + 1
      BY <1>8
    <3> QED
      BY <3>1, <1>3
  <2> QED
    BY <2>1, <2>2, <2>3, <1>4, <1>5
<1>9. ASSUME NEW k \in 0 .. n - 1
      PROVE  succ2[q[k]] = q[k + 1] /\ pred2[q[k + 1]] = q[k]
  <2>0. /\ q[k] = IF k < j THEN r[k] ELSE r[k + 1]
        /\ q[k + 1] = IF k + 1 < j THEN r[k + 1] ELSE r[(k + 1) + 1]
    OBVIOUS
  <2>1. CASE k < j - 1
    <3>1. q[k] = r[k] /\ q[k + 1] = r[k + 1] /\ k \in 0 .. n /\ k # j /\ k # j - 1
      BY <2>0, <2>1
    <3> QED
      BY <3>1, <1>8
  <2>2. CASE k = j - 1
    <3>1. q[k] = r[j - 1] /\ q[k + 1] = r[j + 1]
      BY <2>0, <2>2
    <3> QED
      BY <3>1, <1>7
  <2>3. CASE k > j - 1
    <3>1. /\ q[k] = r[k + 1] /\ q[k + 1] = r[(k + 1) + 1]
          /\ k + 1 \in 0 .. n /\ k + 1 # j /\ k + 1 # j - 1
      BY <2>0, <2>3
    <3> QED
      BY <3>1, <1>8
  <2> QED
    BY <2>1, <2>2, <2>3
<1>10. Leads(q, n - 1, succ2) /\ LeadsBack(q, n - 1, pred2)
  BY <1>9 DEF Leads, LeadsBack
<1> QED
  BY <1>2, <1>10 DEF IsRing

\* The recursion of the nodes that follow HEAD.
Following(succ, n, node) ==
  node = [k \in 0 .. n |->
            IF k = 0 THEN HEAD
            ELSE IF node[k - 1] \in Nodes THEN succ[node[k - 1]] ELSE POISON]

LEMMA ChainUnfolds ==
  ASSUME NEW succ, NEW n
  PROVE  ChainOf(succ, n) = [k \in 1 .. n |-> (CHOOSE node : Following(succ, n, node))[k]]
  BY DEF ChainOf, Following

\* The chain from HEAD is the order of the ring: it follows HEAD in the same way,
\* and a smallest place at which another that does differs is none.
LEMMA ChainIsOrder ==
  ASSUME NEW r, NEW n \in Nat, NEW succ, NEW S \in SUBSET Addrs,
         IsOrder(r, n, S), Leads(r, n, succ)
  PROVE  ChainOf(succ, n) = [k \in 1 .. n |-> r[k]]
<1> DEFINE h == [k \in 0 .. n |-> r[k]]
           g == CHOOSE node : Following(succ, n, node)
           Wrong == {k \in 0 .. n : g[k] # r[k]}
<1>1. \A k \in 0 .. n : r[k] = IF k = 0 THEN HEAD
                               ELSE IF r[k - 1] \in Nodes THEN succ[r[k - 1]] ELSE POISON
  <2>1. r[0] = HEAD
    BY DEF IsOrder
  <2>2. ASSUME NEW k \in 1 .. n PROVE r[k] = succ[r[k - 1]] /\ r[k - 1] \in Nodes
    <3>1. k - 1 \in 0 .. n /\ (k - 1) + 1 = k /\ k - 1 \in 0 .. n + 1
      OBVIOUS
    <3> QED
      BY <3>1, OrderNodes DEF Leads
  <2> QED
    BY <2>1, <2>2
<1>2. Following(succ, n, h)
  <2>1. \A k \in 0 .. n : k # 0 => k - 1 \in 0 .. n
    OBVIOUS
  <2>2. \A k \in 0 .. n : h[k] = IF k = 0 THEN HEAD
                                 ELSE IF h[k - 1] \in Nodes THEN succ[h[k - 1]] ELSE POISON
    BY <1>1, <2>1
  <2>3. h = [k \in 0 .. n |-> h[k]]
    OBVIOUS
  <2> HIDE DEF h
  <2>4. h = [k \in 0 .. n |-> IF k = 0 THEN HEAD
                              ELSE IF h[k - 1] \in Nodes THEN succ[h[k - 1]] ELSE POISON]
    BY <2>2, <2>3
  <2> QED
    BY <2>4 DEF Following
<1>3. Following(succ, n, g)
  BY <1>2
<1> HIDE DEF g, h
<1>4. \A k \in 0 .. n : g[k] = IF k = 0 THEN HEAD
                               ELSE IF g[k - 1] \in Nodes THEN succ[g[k - 1]] ELSE POISON
  BY <1>3 DEF Following
<1>5. Wrong = {}
  <2> SUFFICES ASSUME Wrong # {} PROVE FALSE
    OBVIOUS
  <2>1. Wrong \in SUBSET Nat
    OBVIOUS
  <2>2. PICK k \in Wrong : \A j \in Wrong : k <= j
    BY <2>1, SmallestElement
  <2>3. k \in 0 .. n /\ g[k] # r[k] /\ k # 0
    BY <2>2, <1>1, <1>4
  <2>4. k - 1 \in 0 .. n /\ k - 1 \notin Wrong
    BY <2>2, <2>3
  <2>5. g[k - 1] = r[k - 1]
    BY <2>4
  <2> QED
    BY <2>3, <2>5, <1>1, <1>4
<1>6. \A k \in 1 .. n : g[k] = r[k]
  <2>1. \A k \in 1 .. n : k \in 0 .. n
    OBVIOUS
  <2> QED
    BY <1>5, <2>1
<1>7. ChainOf(succ, n) = [k \in 1 .. n |-> g[k]]
  BY ChainUnfolds DEF g
<1> QED
  BY <1>6, <1>7

-----------------------------------------------------------------------------
(***************************************************************************)
(* What the steps rely on.                                                 *)
(***************************************************************************)

\* The operations of init, one by one.
LEMMA ScriptFacts ==
  /\ Len(Script) = 10
  /\ \A k \in {1, 10} : Script[k].op = "print"
  /\ \A k \in 2 .. 4 : Script[k].op = "get"
  /\ Script[5].op = "update" /\ Script[5].name = 3
  /\ \A k \in 6 .. 9 : Script[k].op = "delete"
  /\ Script[6].name = 1 /\ Script[7].name = 1
  /\ Script[8].name = 4 /\ Script[9].name = N_USER_INFOS
<1>1. Len(Script) = 10
  BY DEF Script
<1>2. /\ Script[1].op = "print" /\ Script[10].op = "print"
      /\ Script[2].op = "get" /\ Script[3].op = "get" /\ Script[4].op = "get"
      /\ Script[5].op = "update" /\ Script[5].name = 3
  BY DEF Script
<1>3. /\ Script[6].op = "delete" /\ Script[7].op = "delete"
      /\ Script[8].op = "delete" /\ Script[9].op = "delete"
  BY DEF Script
<1>4. /\ Script[6].name = 1 /\ Script[7].name = 1
      /\ Script[8].name = 4 /\ Script[9].name = N_USER_INFOS
  BY DEF Script, nobody
<1>5. /\ \A k \in 2 .. 4 : k = 2 \/ k = 3 \/ k = 4
      /\ \A k \in 6 .. 9 : k = 6 \/ k = 7 \/ k = 8 \/ k = 9
  OBVIOUS
<1> QED
  BY <1>1, <1>2, <1>3, <1>4, <1>5

\* A cart has at most ten items, each of at most ten characters.
LEMMA CartFacts ==
  ASSUME NEW cart \in Carts \cup {<< >>, MilkAndHam}
  PROVE  /\ Len(cart) \in 0 .. MAX_CART_SIZE
         /\ \A i \in 1 .. Len(cart) : cart[i] \in 3 .. 10
<1>1. CASE cart \in Carts
  <2>1. cart \in Seq(FoodLengths) /\ Len(cart) <= MAX_CART_SIZE
    BY <1>1, ListAssumption DEF ListAssumption
  <2>2. FoodLengths \subseteq 3 .. 10
    BY DEF FoodLengths
  <2>3. Len(cart) \in Nat /\ \A i \in 1 .. Len(cart) : cart[i] \in FoodLengths
    BY <2>1
  <2>4. Len(cart) \in 0 .. MAX_CART_SIZE
    <3>1. \A m \in Nat : m <= MAX_CART_SIZE => m \in 0 .. MAX_CART_SIZE
      BY DEF MAX_CART_SIZE
    <3> QED
      BY <2>1, <2>3, <3>1
  <2> QED
    BY <2>2, <2>3, <2>4
<1>2. CASE cart = << >>
  BY <1>2 DEF MAX_CART_SIZE
<1>3. CASE cart = MilkAndHam
  BY <1>3 DEF MilkAndHam, MAX_CART_SIZE
<1> QED
  BY <1>1, <1>2, <1>3

\* Where the places of the ring are, and what follows them.
LEMMA Places ==
  ASSUME NEW n \in Nat, NEW r \in [0 .. n + 1 -> Nodes], Inv(r, n)
  PROVE  /\ \A k \in 0 .. n + 1 : r[k] \in Nodes /\ r[k] \in allocated \cup {HEAD}
         /\ \A k \in 1 .. n : r[k] \in allocated /\ r[k] \in Addrs /\ r[k] # HEAD
         /\ \A j, k \in 1 .. n : r[j] = r[k] => j = k
         /\ r[0] = HEAD /\ r[n + 1] = HEAD
         /\ \A k \in 0 .. n : next[r[k]] = r[k + 1]
         /\ next[HEAD] = r[1]
         /\ Cardinality(allocated) = n
         /\ n = 0 <=> allocated = {}
<1>1. allocated \in SUBSET Addrs /\ IsOrder(r, n, allocated) /\ Leads(r, n, next)
  BY DEF Inv, TypeOK, IsRing
<1>2. Cardinality(allocated) = n
  BY <1>1, OrderCardinality
<1>3. r[0] = HEAD /\ r[n + 1] = HEAD /\ \A j, k \in 1 .. n : r[j] = r[k] => j = k
  BY <1>1 DEF IsOrder
<1>4. \A k \in 0 .. n : next[r[k]] = r[k + 1]
  BY <1>1 DEF Leads
<1>5. next[HEAD] = r[1]
  BY <1>3, <1>4, 0 \in 0 .. n
<1>6. /\ \A k \in 0 .. n + 1 : r[k] \in Nodes /\ r[k] \in allocated \cup {HEAD}
      /\ \A k \in 1 .. n : r[k] \in allocated /\ r[k] # HEAD
      /\ n = 0 <=> allocated = {}
  BY <1>1, OrderNodes
<1> QED
  BY <1>1, <1>2, <1>3, <1>4, <1>5, <1>6

\* The place of the cursor of a walk.
LEMMA WalkPlace ==
  ASSUME NEW n \in Nat, NEW r \in [0 .. n + 1 -> Nodes], Inv(r, n),
         pc \in {"walk", "cart"}
  PROVE  \E j \in 1 .. n + 1 :
           /\ pos = r[j]
           /\ \A k \in 1 .. j - 1 : ~ Sought(r[k])
           /\ pos # HEAD <=> j \in 1 .. n
           /\ j \in 1 .. n => next[pos] = r[j + 1] /\ pos \in allocated
<1>1. PICK j \in 1 .. n + 1 : pos = r[j] /\ \A k \in 1 .. j - 1 : ~ Sought(r[k])
  BY DEF Inv, CursorInv
<1>2. pos # HEAD <=> j \in 1 .. n
  <2>1. j = n + 1 \/ j \in 1 .. n
    OBVIOUS
  <2> QED
    BY <1>1, <2>1, Places
<1>3. j \in 1 .. n => next[pos] = r[j + 1] /\ pos \in allocated
  <2>1. j \in 1 .. n => j \in 0 .. n
    OBVIOUS
  <2> QED
    BY <1>1, <2>1, Places
<1> QED
  BY <1>1, <1>2, <1>3

\* No two users have one name.
LEMMA NamesDiffer ==
  ASSUME NEW n \in Nat, NEW r \in [0 .. n + 1 -> Nodes], Inv(r, n), Serving
  PROVE  \A j, k \in 1 .. n : user[r[j]].name = user[r[k]].name => j = k
<1>1. \A k \in 1 .. n : user[r[k]].name \in Nat
  BY Places DEF Inv, TypeOK
<1>2. \A j, k \in 1 .. n : j < k => user[r[j]].name < user[r[k]].name
  BY DEF Inv, NameInv
<1>3. \A j, k \in 1 .. n : j < k \/ k < j \/ j = k
  OBVIOUS
<1> QED
  BY <1>1, <1>2, <1>3

-----------------------------------------------------------------------------
(***************************************************************************)
(* The steps that leave the users and their links alone.                   *)
(***************************************************************************)

LEMMA StutterKeeps ==
  ASSUME NEW n \in Nat, NEW r \in [0 .. n + 1 -> Nodes], Inv(r, n), UNCHANGED vars
  PROVE  Inv(r, n)'
  BY DEF vars, heap, cursor, line, Inv, TypeOK, NameInv, Deleted, Serving, CursorInv,
         Sought, LineInv

\* Building ends: the names are 0 to N_USER_INFOS - 1.
LEMMA BuiltKeeps ==
  ASSUME NEW n \in Nat, NEW r \in [0 .. n + 1 -> Nodes], Inv(r, n), Built
  PROVE  Inv(r, n)'
<1>1. n = N_USER_INFOS /\ at = 1 /\ \A k \in 1 .. n : user[r[k]].name = k - 1
  BY Places DEF Built, Inv, CursorInv, NameInv
<1>2. TypeOK' /\ LineInv'
  BY DEF Inv, TypeOK, LineInv, Built, heap, cursor, line
<1>3. IsRing(r, n, next', prev', allocated')
  BY DEF Inv, Built, heap
<1>4. NameInv(r, n)'
  <2>1. pc' = "op" /\ user' = user /\ at' = 1
    BY <1>1 DEF Built, heap
  <2>2. Deleted' = {} /\ ~ (at' > 5)
    BY <2>1 DEF Deleted
  <2>3. \A j, k \in 1 .. n : j < k => user[r[j]].name < user[r[k]].name
    BY <1>1
  <2>4. ASSUME NEW m \in 0 .. N_USER_INFOS - 1
        PROVE  \E k \in 1 .. n : user[r[k]].name = m
    <3>1. m + 1 \in 1 .. n /\ m = (m + 1) - 1
      BY <1>1
    <3> QED
      BY <1>1, <3>1
  <2> QED
    BY <2>1, <2>2, <2>3, <2>4 DEF NameInv
<1>5. CursorInv(r, n)'
  BY DEF Inv, CursorInv, Built, cursor
<1> QED
  BY <1>2, <1>3, <1>4, <1>5 DEF Inv

\* Freeing begins, at the first user.
LEMMA FreeBeginsKeeps ==
  ASSUME NEW n \in Nat, NEW r \in [0 .. n + 1 -> Nodes], Inv(r, n), FreeBegins,
         pc \in {"build", "live"}
  PROVE  Inv(r, n)'
<1>1. pos' \in Nodes /\ tmp' \in Nodes
  <2>1. pos' = r[1] /\ r[1] \in Nodes
    BY Places, 1 \in 0 .. n + 1 DEF FreeBegins
  <2>2. tmp' = next[r[1]]
    BY Places DEF FreeBegins
  <2>3. CASE n = 0
    <3>1. r[1] = HEAD
      BY <2>3, Places, 0 + 1 = 1
    <3> QED
      BY <2>1, <2>2, <3>1, Places
  <2>4. CASE n > 0
    <3>1. 1 \in 0 .. n /\ 2 \in 0 .. n + 1 /\ 1 + 1 = 2
      BY <2>4
    <3>2. next[r[1]] = r[1 + 1] /\ r[2] \in Nodes
      BY <3>1, Places
    <3> QED
      BY <2>1, <2>2, <3>1, <3>2
  <2> QED
    BY <2>3, <2>4, <2>1
<1>2. TypeOK' /\ LineInv'
  BY <1>1 DEF Inv, TypeOK, LineInv, FreeBegins, heap, line
<1>3. IsRing(r, n, next', prev', allocated') /\ NameInv(r, n)' /\ CursorInv(r, n)'
  BY DEF Inv, NameInv, Serving, CursorInv, FreeBegins, heap
<1> QED
  BY <1>2, <1>3 DEF Inv

LEMMA FreedAllKeeps ==
  ASSUME NEW n \in Nat, NEW r \in [0 .. n + 1 -> Nodes], Inv(r, n), FreedAll
  PROVE  Inv(r, n)'
<1>1. allocated = {}
  <2>1. r[1] = HEAD
    BY Places DEF Inv, CursorInv, FreedAll
  <2>2. n = 0
    BY <2>1, Places, 1 \in 1 .. n \/ n = 0
  <2> QED
    BY <2>2, Places
<1>2. TypeOK' /\ LineInv'
  BY NodeFacts DEF Inv, TypeOK, LineInv, FreedAll, heap, line
<1>3. IsRing(r, n, next', prev', allocated') /\ NameInv(r, n)' /\ CursorInv(r, n)'
  BY <1>1 DEF Inv, NameInv, Serving, CursorInv, FreedAll, heap
<1> QED
  BY <1>2, <1>3 DEF Inv

\* A walk begins at the first user.
LEMMA WalkBeginsKeeps ==
  ASSUME NEW n \in Nat, NEW r \in [0 .. n + 1 -> Nodes], Inv(r, n), WalkBegins
  PROVE  Inv(r, n)'
<1>1. pos' = r[1] /\ r[1] \in Nodes
  BY Places, 1 \in 0 .. n + 1 DEF WalkBegins
<1>2. TypeOK' /\ LineInv'
  BY <1>1 DEF Inv, TypeOK, LineInv, WalkBegins, heap, line
<1>3. IsRing(r, n, next', prev', allocated') /\ NameInv(r, n)'
  BY DEF Inv, NameInv, Serving, Deleted, WalkBegins, heap
<1>4. CursorInv(r, n)'
  <2>1. 1 \in 1 .. n + 1 /\ \A k \in 1 .. 1 - 1 : FALSE
    OBVIOUS
  <2> QED
    BY <1>1, <2>1 DEF Inv, CursorInv, WalkBegins
<1> QED
  BY <1>2, <1>3, <1>4 DEF Inv

\* A walk goes on, past a user it does not look for or has printed.
LEMMA WalkOnKeeps ==
  ASSUME NEW n \in Nat, NEW r \in [0 .. n + 1 -> Nodes], Inv(r, n),
         WalkOn \/ CartPrinted
  PROVE  Inv(r, n)'
<1>1. PICK j \in 1 .. n + 1 : /\ pos = r[j]
                              /\ \A k \in 1 .. j - 1 : ~ Sought(r[k])
                              /\ j \in 1 .. n /\ next[pos] = r[j + 1]
  <2>1. pos # HEAD /\ pc \in {"walk", "cart"}
    BY DEF WalkOn, CartPrinted, Inv, LineInv
  <2> QED
    BY <2>1, WalkPlace
<1>2. ~ Sought(r[j])
  BY <1>1 DEF WalkOn, CartPrinted, Matches, Sought, Inv, LineInv
<1>3. pos' = r[j + 1] /\ r[j + 1] \in Nodes /\ pc' = "walk" /\ UNCHANGED <<at, heap, tmp>>
  <2>1. j + 1 \in 0 .. n + 1
    BY <1>1
  <2> QED
    BY <1>1, <2>1, Places DEF WalkOn, CartPrinted
<1>4. TypeOK' /\ LineInv'
  <2>1. item' = 0 /\ len' = 0 /\ wanted' = 0
    BY DEF WalkOn, CartPrinted, line, Inv, LineInv
  <2> QED
    BY <1>3, <2>1 DEF Inv, TypeOK, LineInv, heap, MAX_CART_SIZE, CART_BUFFER
<1>5. IsRing(r, n, next', prev', allocated') /\ NameInv(r, n)'
  <2>1. Serving /\ Serving'
    BY <1>3 DEF WalkOn, CartPrinted, Serving
  <2> QED
    BY <1>3, <2>1 DEF Inv, NameInv, Serving, Deleted, heap
<1>6. CursorInv(r, n)'
  <2>1. j + 1 \in 1 .. n + 1 /\ \A k \in 1 .. (j + 1) - 1 : k = j \/ k \in 1 .. j - 1
    BY <1>1
  <2>2. \A k \in 1 .. (j + 1) - 1 : ~ Sought(r[k])'
    BY <1>1, <1>2, <1>3, <2>1 DEF Sought, heap
  <2>3. tmp' = HEAD
    BY <1>3 DEF Inv, CursorInv, WalkOn, CartPrinted
  <2> QED
    BY <1>3, <2>1, <2>2, <2>3 DEF CursorInv
<1> QED
  BY <1>4, <1>5, <1>6 DEF Inv

\* A cart is printed, item by item, and none is cut off.
LEMMA CartKeeps ==
  ASSUME NEW n \in Nat, NEW r \in [0 .. n + 1 -> Nodes], Inv(r, n),
         PrintUser \/ PrintItem
  PROVE  Inv(r, n)'
<1> DEFINE cart == user[pos].cart
<1>1. pos # HEAD /\ pc \in {"walk", "cart"}
  BY DEF PrintUser, PrintItem, Inv, LineInv
<1>2. pos \in Addrs
  BY <1>1, WalkPlace DEF Inv, TypeOK
<1>3. PICK size \in 0 .. 10 : size = Len(cart) /\ \A i \in 1 .. size : cart[i] \in 3 .. 10
  <2>1. cart \in Carts \cup {<< >>, MilkAndHam}
    BY <1>2 DEF Inv, TypeOK
  <2> HIDE DEF cart
  <2> QED
    BY <2>1, CartFacts DEF MAX_CART_SIZE
<1>4. pc' = "cart" /\ UNCHANGED <<at, heap, cursor>>
  BY DEF PrintUser, PrintItem
<1>5. /\ item' \in 1 .. size + 1 /\ len' = wanted' /\ wanted' \in Nat
      /\ wanted' <= 12 * (item' - 1) /\ Script[at].op = "print"
  <2>1. CASE PrintUser
    BY <2>1, <1>3 DEF PrintUser
  <2>2. CASE PrintItem
    <3>1. PICK text : text = Separator(item) + cart[item]
      OBVIOUS
    <3>2. /\ item \in 1 .. size /\ len = wanted /\ wanted \in Nat
          /\ wanted <= 12 * (item - 1) /\ Script[at].op = "print"
      <4>1. item \in 1 .. size + 1 /\ item <= size
        BY <2>2, <1>3 DEF PrintItem, Inv, LineInv
      <4>2. item \in 1 .. size
        BY <4>1
      <4> QED
        BY <2>2, <4>2 DEF PrintItem, Inv, LineInv, TypeOK
    <3>3. text \in 0 .. 12
      <4>1. cart[item] \in 3 .. 10
        BY <3>2, <1>3
      <4> QED
        BY <3>1, <4>1 DEF Separator
    <3>4. len' = CutOff(len + text) /\ wanted' = wanted + text /\ item' = item + 1
      BY <2>2, <3>1 DEF PrintItem
    <3>5. wanted + text \in Nat /\ wanted + text <= 12 * item /\ wanted + text <= 120
      <4>1. /\ item \in 1 .. 10
            /\ \A i \in 1 .. 10 : \A w \in Nat : \A t \in 0 .. 12 :
                 w <= 12 * (i - 1) =>
                   w + t \in Nat /\ w + t <= 12 * i /\ w + t <= 120
        BY <3>2
      <4> QED
        BY <3>2, <3>3, <4>1
    <3>6. CutOff(len + text) = wanted + text
      BY <3>2, <3>5 DEF CutOff, CART_BUFFER
    <3> QED
      BY <3>2, <3>4, <3>5, <3>6, <1>3
  <2> QED
    BY <2>1, <2>2
<1>6. TypeOK'
  <2>1. item' \in 0 .. MAX_CART_SIZE + 1 /\ len' \in 0 .. CART_BUFFER - 1
    <3>1. \A i, w : i \in 1 .. size + 1 /\ w \in Nat /\ w <= 12 * (i - 1) =>
            i \in 0 .. MAX_CART_SIZE + 1 /\ w \in 0 .. CART_BUFFER - 1
      BY DEF MAX_CART_SIZE, CART_BUFFER
    <3> QED
      BY <1>5, <3>1
  <2> QED
    BY <1>4, <1>5, <2>1 DEF Inv, TypeOK, heap, cursor
<1>7. LineInv'
  BY <1>1, <1>3, <1>4, <1>5 DEF LineInv, heap, cursor
<1>8. IsRing(r, n, next', prev', allocated') /\ NameInv(r, n)'
  <2>1. Serving /\ Serving'
    BY <1>1, <1>4 DEF Serving
  <2> QED
    BY <1>4, <2>1 DEF PrintUser, PrintItem, Inv, NameInv, Serving, Deleted, heap
<1>9. CursorInv(r, n)'
  BY <1>1, <1>4 DEF Inv, CursorInv, Sought, heap, cursor
<1> QED
  BY <1>6, <1>7, <1>8, <1>9 DEF Inv

-----------------------------------------------------------------------------
(***************************************************************************)
(* The end of a walk.                                                      *)
(***************************************************************************)

\* Where init is after a walk, and the names it counts as deleted.
LEMMA WalkEndFacts ==
  ASSUME NEW n \in Nat, NEW r \in [0 .. n + 1 -> Nodes], Inv(r, n),
         pc = "walk", WalkEnds
  PROVE  /\ pc' \in {"op", "live"} /\ Serving' /\ Serving
         /\ at \in 1 .. 10 /\ at' = (IF at = 10 THEN 10 ELSE at + 1)
         /\ pc' = "live" => at' = 10
         /\ pos' = HEAD /\ tmp' = HEAD
         /\ item' = 0 /\ len' = 0 /\ wanted' = 0
         /\ Deleted' = Deleted \cup (IF at = 6 THEN {1} ELSE IF at = 8 THEN {4} ELSE {})
<1>1. at \in 1 .. 10 /\ at' = (IF at = 10 THEN 10 ELSE at + 1)
  BY ScriptFacts DEF Inv, TypeOK, WalkEnds
<1>2. pc' \in {"op", "live"} /\ Serving' /\ Serving /\ (pc' = "live" => at' = 10)
  BY <1>1, ScriptFacts DEF WalkEnds, Serving
<1>3. pos' = HEAD /\ tmp' = HEAD /\ item' = 0 /\ len' = 0 /\ wanted' = 0
  BY DEF WalkEnds, line, Inv, CursorInv, LineInv
<1>4. Deleted' = Deleted \cup (IF at = 6 THEN {1} ELSE IF at = 8 THEN {4} ELSE {})
  BY <1>1 DEF Deleted
<1> QED
  BY <1>1, <1>2, <1>3, <1>4

\* After a walk there is no cursor and no line.
LEMMA WalkEndKeeps ==
  ASSUME NEW n \in Nat, NEW r \in [0 .. n + 1 -> Nodes], Inv(r, n),
         pc = "walk", WalkEnds, NEW q, NEW m
  PROVE  CursorInv(q, m)' /\ LineInv'
<1>1. /\ pc' \in {"op", "live"} /\ (pc' = "live" => at' = 10)
      /\ pos' = HEAD /\ tmp' = HEAD /\ item' = 0 /\ len' = 0 /\ wanted' = 0
  BY WalkEndFacts
<1> QED
  BY <1>1, ScriptFacts DEF CursorInv, LineInv

\* The types after a walk, if those of the heap are right.
LEMMA WalkEndType ==
  ASSUME NEW n \in Nat, NEW r \in [0 .. n + 1 -> Nodes], Inv(r, n),
         pc = "walk", WalkEnds,
         allocated' \subseteq Addrs,
         next' \in [Nodes -> Nodes \cup {POISON}],
         prev' \in [Nodes -> Nodes \cup {POISON}],
         user' \in [Addrs -> [name : 0 .. N_USER_INFOS - 1,
                              cart : Carts \cup {<< >>, MilkAndHam}]]
  PROVE  TypeOK'
<1>1. /\ pc' \in {"op", "live"} /\ at \in 1 .. 10 /\ at' = (IF at = 10 THEN 10 ELSE at + 1)
      /\ pos' = HEAD /\ tmp' = HEAD /\ item' = 0 /\ len' = 0 /\ wanted' = 0
  BY WalkEndFacts
<1>2. at' \in 1 .. Len(Script)
  BY <1>1, ScriptFacts
<1> QED
  BY <1>1, <1>2, NodeFacts DEF TypeOK, MAX_CART_SIZE, CART_BUFFER

\* A walk ends and changes nothing: at the end of the list, or at the user looked up.
LEMMA WalkedKeeps ==
  ASSUME NEW n \in Nat, NEW r \in [0 .. n + 1 -> Nodes], Inv(r, n),
         WalkedAll \/ GetFound
  PROVE  Inv(r, n)'
<1>1. pc = "walk" /\ WalkEnds /\ UNCHANGED heap
  BY DEF WalkedAll, GetFound, Found
<1>2. CursorInv(r, n)' /\ LineInv'
  BY <1>1, WalkEndKeeps
<1>3. TypeOK' /\ IsRing(r, n, next', prev', allocated')
  BY <1>1, WalkEndType DEF Inv, TypeOK, heap
<1>4. /\ Serving /\ Serving' /\ pc' # "build" /\ at \in 1 .. 10
      /\ at' = (IF at = 10 THEN 10 ELSE at + 1)
      /\ Deleted' = Deleted \cup (IF at = 6 THEN {1} ELSE IF at = 8 THEN {4} ELSE {})
  BY <1>1, WalkEndFacts
<1>5. /\ at \in {6, 8} => \A k \in 1 .. n : user[r[k]].name # Script[at].name
      /\ at = 5 => \A k \in 1 .. n : user[r[k]].name # 3
  <2>1. CASE WalkedAll
    <3>1. PICK j \in 1 .. n + 1 : /\ \A k \in 1 .. j - 1 : ~ Sought(r[k])
                                  /\ pos # HEAD <=> j \in 1 .. n
      BY <1>1, WalkPlace
    <3>2. j = n + 1
      BY <3>1, <2>1 DEF WalkedAll
    <3>3. \A k \in 1 .. n : ~ Sought(r[k])
      BY <3>1, <3>2
    <3> QED
      BY <3>3, ScriptFacts DEF Sought
  <2>2. CASE GetFound
    BY <2>2, <1>4, ScriptFacts DEF GetFound, Found
  <2> QED
    BY <2>1, <2>2
<1>6. NameInv(r, n)'
  <2>1. user' = user
    BY <1>1 DEF heap
  <2>2. \A j, k \in 1 .. n : j < k => user[r[j]].name < user[r[k]].name
    BY <1>4 DEF Inv, NameInv
  <2>3. \A k \in 1 .. n : user[r[k]].name \notin Deleted'
    BY <1>4, <1>5, ScriptFacts DEF Inv, NameInv
  <2>4. \A m \in 0 .. N_USER_INFOS - 1 :
          m \in Deleted' \/ \E k \in 1 .. n : user[r[k]].name = m
    BY <1>4 DEF Inv, NameInv
  <2>5. at' > 5 => \A k \in 1 .. n : user[r[k]].name = 3 => user[r[k]].cart = MilkAndHam
    BY <1>4, <1>5 DEF Inv, NameInv
  <2> QED
    BY <1>4, <2>1, <2>2, <2>3, <2>4, <2>5 DEF NameInv
<1> QED
  BY <1>2, <1>3, <1>6 DEF Inv

\* The user found for the update is the third, and the operation is the fifth.
LEMMA UpdateKeeps ==
  ASSUME NEW n \in Nat, NEW r \in [0 .. n + 1 -> Nodes], Inv(r, n), UpdateFound
  PROVE  Inv(r, n)'
<1>1. /\ pc = "walk" /\ pos # HEAD /\ Script[at].op = "update"
      /\ user[pos].name = Script[at].name
      /\ WalkEnds /\ UNCHANGED <<allocated, next, prev>>
      /\ user' = [user EXCEPT ![pos].cart = MilkAndHam]
  BY DEF UpdateFound, Found, Matches
<1>2. PICK j \in 1 .. n : pos = r[j] /\ pos \in allocated
  BY <1>1, WalkPlace
<1>3. CursorInv(r, n)' /\ LineInv'
  BY <1>1, WalkEndKeeps
<1>4. pos \in Addrs /\ user \in [Addrs -> [name : 0 .. N_USER_INFOS - 1,
                                           cart : Carts \cup {<< >>, MilkAndHam}]]
  BY <1>2 DEF Inv, TypeOK
<1>5. user' \in [Addrs -> [name : 0 .. N_USER_INFOS - 1,
                           cart : Carts \cup {<< >>, MilkAndHam}]]
  BY <1>1, <1>4
<1>6. TypeOK' /\ IsRing(r, n, next', prev', allocated')
  BY <1>1, <1>5, WalkEndType DEF Inv, TypeOK
<1>7. at = 5 /\ at' = 6 /\ Serving /\ Serving' /\ pc' # "build" /\ Deleted' = Deleted
  <2>1. /\ at \in 1 .. 10 /\ Serving /\ Serving' /\ pc' \in {"op", "live"}
        /\ at' = (IF at = 10 THEN 10 ELSE at + 1)
        /\ Deleted' = Deleted \cup (IF at = 6 THEN {1} ELSE IF at = 8 THEN {4} ELSE {})
    BY <1>1, WalkEndFacts
  <2>2. at = 5
    BY <2>1, <1>1, ScriptFacts
  <2> QED
    BY <2>1, <2>2
<1>8. NameInv(r, n)'
  <2>1. \A k \in 1 .. n : user'[r[k]].name = user[r[k]].name
    BY <1>1, <1>4, Places
  <2>2. \A k \in 1 .. n : user[r[k]].name = 3 => user'[r[k]].cart = MilkAndHam
    <3>1. \A k \in 1 .. n : user[r[k]].name = 3 => k = j
      BY <1>1, <1>2, <1>7, NamesDiffer, ScriptFacts
    <3>2. user'[r[j]].cart = MilkAndHam
      BY <1>1, <1>2, <1>4
    <3> QED
      BY <3>1, <3>2
  <2> QED
    BY <1>7, <2>1, <2>2 DEF Inv, NameInv
<1> QED
  BY <1>3, <1>6, <1>8 DEF Inv

-----------------------------------------------------------------------------
(***************************************************************************)
(* The steps that add, delete and free a user.                             *)
(***************************************************************************)

\* The orders after a user is added, and after the j-th is taken out.
Longer(r, n, a) ==
  [k \in 0 .. n + 2 |-> IF k <= n THEN r[k] ELSE IF k = n + 1 THEN a ELSE HEAD]
Shorter(r, n, j) == [k \in 0 .. n |-> IF k < j THEN r[k] ELSE r[k + 1]]

\* The heap after list_add_tail() of a new user.
LEMMA AddedHeap ==
  ASSUME NEW n \in Nat, NEW r \in [0 .. n + 1 -> Nodes], Inv(r, n),
         NEW a \in Addrs, NEW cart \in Carts, AddUser(a, cart)
  PROVE  /\ n < N_USER_INFOS /\ n + 1 \in Nat
         /\ Longer(r, n, a) \in [0 .. (n + 1) + 1 -> Nodes]
         /\ allocated' \subseteq Addrs
         /\ next' \in [Nodes -> Nodes \cup {POISON}]
         /\ prev' \in [Nodes -> Nodes \cup {POISON}]
         /\ IsRing(Longer(r, n, a), n + 1, next', prev', allocated')
         /\ user' = [user EXCEPT ![a] = [name |-> n, cart |-> cart]]
         /\ pc = "build" /\ a \notin allocated
         /\ UNCHANGED <<pc, at, cursor, line>>
<1>1. /\ pc = "build" /\ Cardinality(allocated) < N_USER_INFOS /\ a \notin allocated
      /\ allocated' = allocated \cup {a}
      /\ user' = [user EXCEPT ![a] = [name |-> Cardinality(allocated), cart |-> cart]]
      /\ next' = [next EXCEPT ![prev[HEAD]] = a, ![a] = HEAD]
      /\ prev' = [prev EXCEPT ![HEAD] = a, ![a] = prev[HEAD]]
      /\ UNCHANGED <<pc, at, cursor, line>>
  BY DEF AddUser, list_add_tail, Insert
<1>2. /\ allocated \in SUBSET Addrs
      /\ next \in [Nodes -> Nodes \cup {POISON}] /\ prev \in [Nodes -> Nodes \cup {POISON}]
      /\ IsRing(r, n, next, prev, allocated) /\ Cardinality(allocated) = n
  BY Places DEF Inv, TypeOK
<1>3. prev[HEAD] \in Nodes \cup {POISON} /\ a \in Nodes
  BY <1>2, NodeFacts
<1>4. /\ next' \in [Nodes -> Nodes \cup {POISON}]
      /\ prev' \in [Nodes -> Nodes \cup {POISON}]
  BY <1>1, <1>2, <1>3, NodeFacts
<1>5. IsRing(Longer(r, n, a), n + 1, next', prev', allocated')
  <2> DEFINE q == Longer(r, n, a)
  <2>1. q = [k \in 0 .. n + 2 |->
               IF k <= n THEN r[k] ELSE IF k = n + 1 THEN a ELSE HEAD]
    BY DEF Longer
  <2> HIDE DEF q
  <2>2. IsRing(q, n + 1, next', prev', allocated \cup {a})
    <3>1. /\ n \in Nat /\ allocated \in SUBSET Addrs /\ a \in Addrs \ allocated
          /\ next' = [next EXCEPT ![prev[HEAD]] = a, ![a] = HEAD]
          /\ prev' = [prev EXCEPT ![HEAD] = a, ![a] = prev[HEAD]]
          /\ next \in [Nodes -> Nodes \cup {POISON}]
          /\ prev \in [Nodes -> Nodes \cup {POISON}]
          /\ IsRing(r, n, next, prev, allocated)
      BY <1>1, <1>2
    <3> QED
      BY <3>1, <2>1, RingAppend, ZenonT(60)
  <2> QED
    BY <1>1, <2>2 DEF q
<1>6. Longer(r, n, a) \in [0 .. (n + 1) + 1 -> Nodes]
  BY <1>5 DEF IsRing, IsOrder
<1>7. n < N_USER_INFOS /\ n + 1 \in Nat
  BY <1>1, <1>2
<1>8. allocated' \subseteq Addrs
  BY <1>1, <1>2
<1>9. user' = [user EXCEPT ![a] = [name |-> n, cart |-> cart]]
  BY <1>1, <1>2
<1> HIDE DEF Longer
<1> QED
  BY <1>1, <1>4, <1>5, <1>6, <1>7, <1>8, <1>9

\* A user is added: its name is the number of those before it.
LEMMA AddKeeps ==
  ASSUME NEW n \in Nat, NEW r \in [0 .. n + 1 -> Nodes], Inv(r, n),
         NEW a \in Addrs, NEW cart \in Carts, AddUser(a, cart)
  PROVE  Inv(Longer(r, n, a), n + 1)'
<1> DEFINE q == Longer(r, n, a)
<1>1. /\ n < N_USER_INFOS /\ IsRing(q, n + 1, next', prev', allocated')
      /\ allocated' \subseteq Addrs
      /\ next' \in [Nodes -> Nodes \cup {POISON}]
      /\ prev' \in [Nodes -> Nodes \cup {POISON}]
      /\ user' = [user EXCEPT ![a] = [name |-> n, cart |-> cart]]
      /\ pc = "build" /\ a \notin allocated
      /\ UNCHANGED <<pc, at, cursor, line>>
  BY AddedHeap
<1>2. N_USER_INFOS \in Nat /\ user \in [Addrs -> [name : 0 .. N_USER_INFOS - 1,
                                                  cart : Carts \cup {<< >>, MilkAndHam}]]
  BY ListAssumption DEF ListAssumption, Inv, TypeOK
<1>3. user' \in [Addrs -> [name : 0 .. N_USER_INFOS - 1,
                           cart : Carts \cup {<< >>, MilkAndHam}]]
  BY <1>1, <1>2
<1>4. TypeOK'
  BY <1>1, <1>3 DEF Inv, TypeOK, cursor, line
<1>5. NameInv(q, n + 1)'
  <2>1. \A k \in 1 .. n : q[k] = r[k] /\ r[k] # a
    BY <1>1, Places DEF Longer
  <2>2. q[n + 1] = a
    BY DEF Longer
  <2>3. \A k \in 1 .. n : user[r[k]].name = k - 1
    BY <1>1 DEF Inv, NameInv
  <2>4. \A k \in 1 .. n : user'[q[k]].name = k - 1
    BY <1>1, <1>2, <2>1, <2>3, Places
  <2>5. user'[q[n + 1]].name = (n + 1) - 1
    BY <1>1, <1>2, <2>2
  <2>6. \A k \in 1 .. n + 1 : k \in 1 .. n \/ k = n + 1
    OBVIOUS
  <2>7. n + 1 <= N_USER_INFOS
    BY <1>1, <1>2
  <2> HIDE DEF q
  <2> QED
    BY <1>1, <2>4, <2>5, <2>6, <2>7 DEF NameInv, Serving
<1>6. CursorInv(q, n + 1)' /\ LineInv'
  BY <1>1 DEF Inv, CursorInv, LineInv, cursor, line
<1> QED
  BY <1>1, <1>4, <1>5, <1>6 DEF Inv

\* The heap after list_del() and kfree() of the j-th user.
LEMMA RemovedHeap ==
  ASSUME NEW n \in Nat, NEW r \in [0 .. n + 1 -> Nodes], Inv(r, n),
         NEW j \in 1 .. n, NEW e, e = r[j], list_del(e), kfree(e)
  PROVE  /\ n - 1 \in Nat
         /\ Shorter(r, n, j) \in [0 .. (n - 1) + 1 -> Nodes]
         /\ allocated' \subseteq Addrs
         /\ next' \in [Nodes -> Nodes \cup {POISON}]
         /\ prev' \in [Nodes -> Nodes \cup {POISON}]
         /\ user' \in [Addrs -> [name : 0 .. N_USER_INFOS - 1,
                                 cart : Carts \cup {<< >>, MilkAndHam}]]
         /\ IsRing(Shorter(r, n, j), n - 1, next', prev', allocated')
         /\ \A k \in 1 .. n : k # j => user'[r[k]] = user[r[k]]
<1>1. /\ allocated' = allocated \ {e}
      /\ user' = [user EXCEPT ![e] = Blank]
      /\ next' = [next EXCEPT ![prev[e]] = next[e], ![e] = POISON]
      /\ prev' = [prev EXCEPT ![next[e]] = prev[e], ![e] = POISON]
  BY DEF list_del, kfree
<1>2. /\ allocated \in SUBSET Addrs
      /\ next \in [Nodes -> Nodes \cup {POISON}] /\ prev \in [Nodes -> Nodes \cup {POISON}]
      /\ IsRing(r, n, next, prev, allocated)
      /\ user \in [Addrs -> [name : 0 .. N_USER_INFOS - 1,
                             cart : Carts \cup {<< >>, MilkAndHam}]]
  BY DEF Inv, TypeOK
<1>3. e \in Nodes /\ e \in Addrs
  BY Places, NodeFacts
<1>4. /\ next' \in [Nodes -> Nodes \cup {POISON}]
      /\ prev' \in [Nodes -> Nodes \cup {POISON}]
  BY <1>1, <1>2, <1>3
<1>5. user' \in [Addrs -> [name : 0 .. N_USER_INFOS - 1,
                           cart : Carts \cup {<< >>, MilkAndHam}]]
  <2>1. 0 \in 0 .. N_USER_INFOS - 1
    <3>1. user[e].name \in 0 .. N_USER_INFOS - 1
      BY <1>2, <1>3
    <3>2. N_USER_INFOS \in Nat
      BY ListAssumption DEF ListAssumption
    <3> QED
      BY <3>1, <3>2
  <2> QED
    BY <1>1, <1>2, <2>1 DEF Blank
<1>6. IsRing(Shorter(r, n, j), n - 1, next', prev', allocated')
  <2> DEFINE q == Shorter(r, n, j)
  <2>1. q = [k \in 0 .. n |-> IF k < j THEN r[k] ELSE r[k + 1]]
    BY DEF Shorter
  <2> HIDE DEF q
  <2>2. IsRing(q, n - 1, next', prev', allocated \ {e})
    <3>1. /\ next' = [next EXCEPT ![prev[e]] = next[e], ![e] = POISON]
          /\ prev' = [prev EXCEPT ![next[e]] = prev[e], ![e] = POISON]
          /\ e = r[j] /\ n \in Nat /\ j \in 1 .. n /\ allocated \in SUBSET Addrs
          /\ next \in [Nodes -> Nodes \cup {POISON}]
          /\ prev \in [Nodes -> Nodes \cup {POISON}]
          /\ IsRing(r, n, next, prev, allocated)
      BY <1>1, <1>2
    <3> QED
      BY <3>1, <2>1, RingRemove, ZenonT(60)
  <2> QED
    BY <1>1, <2>2 DEF q
<1>7. Shorter(r, n, j) \in [0 .. (n - 1) + 1 -> Nodes]
  BY <1>6 DEF IsRing, IsOrder
<1>8. \A k \in 1 .. n : k # j => user'[r[k]] = user[r[k]]
  BY <1>1, <1>2, Places
<1>9. n - 1 \in Nat
  OBVIOUS
<1>10. allocated' \subseteq Addrs
  BY <1>1, <1>2
<1> QED
  BY <1>4, <1>5, <1>6, <1>7, <1>8, <1>9, <1>10

\* A user is deleted: the operation is the sixth or the eighth, and the name of the
\* user is no other's.
LEMMA DeleteKeeps ==
  ASSUME NEW n \in Nat, NEW r \in [0 .. n + 1 -> Nodes], Inv(r, n), DeleteFound
  PROVE  \E j \in 1 .. n : pos = r[j] /\ Inv(Shorter(r, n, j), n - 1)'
<1>1. /\ pc = "walk" /\ pos # HEAD /\ Script[at].op = "delete"
      /\ user[pos].name = Script[at].name
      /\ WalkEnds /\ list_del(pos) /\ kfree(pos)
  BY DEF DeleteFound, Found, Matches
<1>2. PICK j \in 1 .. n : pos = r[j]
  BY <1>1, WalkPlace
<1> DEFINE q == Shorter(r, n, j)
<1>3. /\ n - 1 \in Nat /\ q \in [0 .. (n - 1) + 1 -> Nodes]
      /\ IsRing(q, n - 1, next', prev', allocated')
      /\ \A k \in 1 .. n : k # j => user'[r[k]] = user[r[k]]
  BY <1>1, <1>2, RemovedHeap
<1>4. CursorInv(q, n - 1)' /\ LineInv'
  BY <1>1, WalkEndKeeps
<1>5. TypeOK'
  BY <1>1, <1>2, RemovedHeap, WalkEndType
<1>6. /\ Serving /\ Serving' /\ pc' # "build" /\ at' = at + 1
      /\ at \in {6, 8}
      /\ Deleted' = Deleted \cup {Script[at].name}
  <2>1. /\ at \in 1 .. 10 /\ Serving /\ Serving' /\ pc' \in {"op", "live"}
        /\ at' = (IF at = 10 THEN 10 ELSE at + 1)
        /\ Deleted' = Deleted \cup (IF at = 6 THEN {1} ELSE IF at = 8 THEN {4} ELSE {})
    BY <1>1, WalkEndFacts
  <2>2. at \in 6 .. 9
    BY <1>1, <2>1, ScriptFacts
  <2>3. user[r[j]].name \notin Deleted
    BY <2>1 DEF Inv, NameInv
  <2>4. at # 7
    BY <1>1, <1>2, <2>3, ScriptFacts DEF Deleted
  <2>5. at # 9
    <3>1. user[r[j]].name \in 0 .. N_USER_INFOS - 1
      BY Places DEF Inv, TypeOK
    <3>2. N_USER_INFOS \in Nat
      BY ListAssumption DEF ListAssumption
    <3> QED
      BY <1>1, <1>2, <3>1, <3>2, ScriptFacts
  <2> QED
    BY <2>1, <2>2, <2>4, <2>5, ScriptFacts
<1>7. NameInv(q, n - 1)'
  <2>1. \A k \in 1 .. n - 1 :
          LET i == IF k < j THEN k ELSE k + 1
          IN  i \in 1 .. n /\ i # j /\ q[k] = r[i] /\ user'[q[k]] = user[r[i]]
    <3>1. \A k \in 1 .. n - 1 :
            LET i == IF k < j THEN k ELSE k + 1
            IN  i \in 1 .. n /\ i # j /\ k \in 0 .. n /\ q[k] = r[i]
      BY DEF Shorter
    <3> HIDE DEF q
    <3> QED
      BY <1>3, <3>1
  <2>2. \A i, k \in 1 .. n : i < k => user[r[i]].name < user[r[k]].name
    BY <1>6 DEF Inv, NameInv
  <2>3. \A i, k \in 1 .. n - 1 : i < k => user'[q[i]].name < user'[q[k]].name
    <3> SUFFICES ASSUME NEW i \in 1 .. n - 1, NEW k \in 1 .. n - 1, i < k
                 PROVE  user'[q[i]].name < user'[q[k]].name
      OBVIOUS
    <3>1. PICK i2 \in 1 .. n : i2 = (IF i < j THEN i ELSE i + 1)
                              /\ user'[q[i]] = user[r[i2]]
      BY <2>1
    <3>2. PICK k2 \in 1 .. n : k2 = (IF k < j THEN k ELSE k + 1)
                              /\ user'[q[k]] = user[r[k2]]
      BY <2>1
    <3>3. i2 < k2
      BY <3>1, <3>2
    <3> QED
      BY <2>2, <3>1, <3>2, <3>3
  <2>4. \A k \in 1 .. n - 1 : user'[q[k]].name \notin Deleted'
    <3>1. \A k \in 1 .. n : k # j => user[r[k]].name # Script[at].name
      BY <1>1, <1>2, <1>6, NamesDiffer
    <3>2. \A k \in 1 .. n : user[r[k]].name \notin Deleted
      BY <1>6 DEF Inv, NameInv
    <3> QED
      BY <1>6, <2>1, <3>1, <3>2
  <2>5. ASSUME NEW m \in 0 .. N_USER_INFOS - 1, m \notin Deleted'
        PROVE  \E k \in 1 .. n - 1 : user'[q[k]].name = m
    <3>1. PICK i \in 1 .. n : user[r[i]].name = m
      BY <1>6, <2>5 DEF Inv, NameInv
    <3>2. i # j
      BY <1>1, <1>2, <1>6, <2>5, <3>1
    <3>3. PICK k \in 1 .. n - 1 : i = IF k < j THEN k ELSE k + 1
      <4>1. CASE i < j
        BY <4>1, i \in 1 .. n - 1
      <4>2. CASE i > j
        BY <4>2, i - 1 \in 1 .. n - 1, (i - 1) + 1 = i, ~ (i - 1 < j)
      <4> QED
        BY <3>2, <4>1, <4>2
    <3> QED
      BY <2>1, <3>1, <3>3
  <2>6. ASSUME NEW k \in 1 .. n - 1, user'[q[k]].name = 3
        PROVE  user'[q[k]].cart = MilkAndHam
    <3>1. \A i \in 1 .. n : user[r[i]].name = 3 => user[r[i]].cart = MilkAndHam
      BY <1>6 DEF Inv, NameInv
    <3> QED
      BY <2>1, <2>6, <3>1
  <2> HIDE DEF q
  <2> QED
    BY <1>6, <2>3, <2>4, <2>5, <2>6 DEF NameInv
<1>8. Inv(q, n - 1)'
  BY <1>3, <1>4, <1>5, <1>7 DEF Inv
<1> QED
  BY <1>2, <1>8

\* The first user is freed; the cursor is at the next, which was saved.
LEMMA FreeKeeps ==
  ASSUME NEW n \in Nat, NEW r \in [0 .. n + 1 -> Nodes], Inv(r, n), FreeOne
  PROVE  /\ n \in Nat \ {0} /\ pos = r[1]
         /\ Inv(Shorter(r, n, 1), n - 1)'
<1> DEFINE q == Shorter(r, n, 1)
<1>1. /\ pc = "free" /\ pos # HEAD /\ list_del(pos) /\ kfree(pos)
      /\ pos' = tmp /\ tmp' = next'[tmp] /\ UNCHANGED <<pc, at, line>>
  BY DEF FreeOne
<1>2. pos = r[1] /\ tmp = next[r[1]]
  BY <1>1, Places DEF Inv, CursorInv
<1>3. n \in Nat \ {0} /\ 1 \in 1 .. n
  <2>1. n # 0
    BY <1>1, <1>2, Places, 0 + 1 = 1
  <2> QED
    BY <2>1
<1>4. /\ n - 1 \in Nat /\ q \in [0 .. (n - 1) + 1 -> Nodes]
      /\ IsRing(q, n - 1, next', prev', allocated')
      /\ allocated' \subseteq Addrs
      /\ next' \in [Nodes -> Nodes \cup {POISON}]
      /\ prev' \in [Nodes -> Nodes \cup {POISON}]
      /\ user' \in [Addrs -> [name : 0 .. N_USER_INFOS - 1,
                              cart : Carts \cup {<< >>, MilkAndHam}]]
  BY <1>1, <1>2, <1>3, RemovedHeap
<1>5. tmp = r[2] /\ q[0] = HEAD /\ q[1] = r[2] /\ r[2] \in Nodes
  <2>1. 1 \in 0 .. n /\ 1 + 1 = 2 /\ 2 \in 0 .. n + 1 /\ 0 \in 0 .. n
    BY <1>3
  <2> QED
    BY <1>2, <2>1, Places DEF Shorter
<1>6. next'[HEAD] = q[1]
  <2>1. Leads(q, n - 1, next')
    BY <1>4 DEF IsRing
  <2>2. 0 \in 0 .. n - 1 /\ 0 + 1 = 1
    BY <1>3
  <2> QED
    BY <1>5, <2>1, <2>2 DEF Leads
<1>7. tmp' \in Nodes
  <2>1. CASE n = 1
    <3>1. n + 1 = 2 /\ r[n + 1] = HEAD
      <4>1. r[n + 1] = HEAD
        BY Places
      <4> QED
        BY <2>1, <4>1
    <3>2. tmp = HEAD
      BY <1>5, <3>1
    <3> QED
      BY <1>1, <1>5, <1>6, <3>2
  <2>2. CASE n # 1
    <3>1. 1 \in 0 .. n - 1 /\ 1 + 1 = 2 /\ 2 \in 0 .. (n - 1) + 1
      BY <1>3, <2>2
    <3>2. next'[q[1]] = q[2] /\ q[2] \in Nodes
      BY <1>4, <3>1 DEF IsRing, Leads
    <3> QED
      BY <1>1, <1>5, <3>2
  <2> QED
    BY <2>1, <2>2
<1>8. TypeOK' /\ LineInv'
  BY <1>1, <1>4, <1>5, <1>7 DEF Inv, TypeOK, LineInv, line
<1>9. NameInv(q, n - 1)' /\ CursorInv(q, n - 1)'
  BY <1>1, <1>5, <1>6 DEF NameInv, Serving, CursorInv
<1> QED
  BY <1>2, <1>3, <1>4, <1>8, <1>9 DEF Inv

-----------------------------------------------------------------------------
(***************************************************************************)
(* The invariant holds of every state.                                     *)
(***************************************************************************)

\* The freeing loop is over the users that are left.
LEMMA FreeingFacts ==
  ASSUME NEW n \in Nat, NEW r \in [0 .. n + 1 -> Nodes], Inv(r, n)
  PROVE  {pos, tmp} \subseteq allocated \cup {HEAD}
<1>1. CASE pc \in {"build", "op", "live", "gone"}
  BY <1>1 DEF Inv, CursorInv
<1>2. CASE pc \in {"walk", "cart"}
  <2>1. PICK j \in 1 .. n + 1 : pos = r[j]
    BY <1>2 DEF Inv, CursorInv
  <2>2. tmp = HEAD
    BY <1>2 DEF Inv, CursorInv
  <2>3. j \in 0 .. n + 1
    OBVIOUS
  <2> QED
    BY <2>1, <2>2, <2>3, Places
<1>3. CASE pc = "free"
  <2>1. pos = r[1] /\ tmp = next[r[1]] /\ 1 \in 0 .. n + 1
    BY <1>3, Places DEF Inv, CursorInv
  <2>2. CASE n = 0
    <3>1. r[1] = HEAD
      BY <2>2, Places, 0 + 1 = 1
    <3> QED
      BY <2>1, <3>1, Places
  <2>3. CASE n # 0
    <3>1. 1 \in 0 .. n /\ 1 + 1 \in 0 .. n + 1
      BY <2>3
    <3>2. tmp = r[1 + 1]
      BY <2>1, <3>1, Places
    <3> QED
      BY <2>1, <3>1, <3>2, Places
  <2> QED
    BY <2>2, <2>3
<1> QED
  BY <1>1, <1>2, <1>3 DEF Inv, TypeOK

\* The empty list is a ring, and the first.
LEMMA InitIInv == Init => IInv
<1> SUFFICES ASSUME Init PROVE IInv
  OBVIOUS
<1> DEFINE r == [k \in 0 .. 1 |-> HEAD]
<1>1. r \in [0 .. 0 + 1 -> Nodes] /\ r[0] = HEAD /\ r[1] = HEAD /\ 0 + 1 = 1
  BY NodeFacts
<1> HIDE DEF r
<1>2. IsOrder(r, 0, allocated)
  BY <1>1 DEF Init, IsOrder
<1>3. next[HEAD] = HEAD /\ prev[HEAD] = HEAD
  BY NodeFacts DEF Init
<1>4. IsRing(r, 0, next, prev, allocated)
  <2>1. \A k \in 0 .. 0 : k = 0
    OBVIOUS
  <2> QED
    BY <1>1, <1>2, <1>3, <2>1 DEF IsRing, Leads, LeadsBack
<1>5. TypeOK
  <2>1. user \in [Addrs -> [name : 0 .. N_USER_INFOS - 1,
                            cart : Carts \cup {<< >>, MilkAndHam}]]
    BY ListAssumption DEF ListAssumption, Init, Blank
  <2>2. at \in 1 .. Len(Script)
    BY ScriptFacts DEF Init
  <2>3. len \in 0 .. CART_BUFFER - 1 /\ item \in 0 .. MAX_CART_SIZE + 1
    BY DEF Init, CART_BUFFER, MAX_CART_SIZE
  <2>4. /\ next \in [Nodes -> Nodes \cup {POISON}]
        /\ prev \in [Nodes -> Nodes \cup {POISON}]
    BY NodeFacts DEF Init
  <2> QED
    BY <2>1, <2>2, <2>3, <2>4, NodeFacts DEF Init, TypeOK
<1>6. NameInv(r, 0) /\ CursorInv(r, 0) /\ LineInv
  BY ListAssumption DEF ListAssumption, Init, NameInv, Serving, CursorInv, LineInv
<1>7. Inv(r, 0)
  BY <1>4, <1>5, <1>6 DEF Inv
<1> QED
  BY <1>1, <1>7 DEF IInv

\* Every step keeps the ring: of the same nodes, of one more or of one less.
LEMMA StepIInv == IInv /\ [Next]_vars => IInv'
<1> SUFFICES ASSUME IInv, [Next]_vars PROVE IInv'
  OBVIOUS
<1>1. PICK n \in Nat : \E r \in [0 .. n + 1 -> Nodes] : Inv(r, n)
  BY DEF IInv
<1>2. PICK r \in [0 .. n + 1 -> Nodes] : Inv(r, n)
  BY <1>1
<1>3. ASSUME Inv(r, n)' PROVE IInv'
  BY <1>3 DEF IInv
<1>4. ASSUME NEW a \in Addrs, NEW cart \in Carts, AddUser(a, cart) PROVE IInv'
  <2>1. n + 1 \in Nat /\ Longer(r, n, a) \in [0 .. (n + 1) + 1 -> Nodes]
    BY <1>2, <1>4, AddedHeap
  <2>2. Inv(Longer(r, n, a), n + 1)'
    BY <1>2, <1>4, AddKeeps
  <2> QED
    BY <2>1, <2>2 DEF IInv
<1>5. CASE AllocFails
  BY <1>2, <1>3, <1>5, FreeBeginsKeeps DEF AllocFails
<1>6. CASE Built
  BY <1>2, <1>3, <1>6, BuiltKeeps
<1>7. CASE WalkBegins
  BY <1>2, <1>3, <1>7, WalkBeginsKeeps
<1>8. CASE WalkOn \/ CartPrinted
  BY <1>2, <1>3, <1>8, WalkOnKeeps
<1>9. CASE WalkedAll \/ GetFound
  BY <1>2, <1>3, <1>9, WalkedKeeps
<1>10. CASE UpdateFound
  BY <1>2, <1>3, <1>10, UpdateKeeps
<1>11. CASE DeleteFound
  <2>1. PICK j \in 1 .. n : pos = r[j] /\ Inv(Shorter(r, n, j), n - 1)'
    BY <1>2, <1>11, DeleteKeeps
  <2>2. n - 1 \in Nat /\ Shorter(r, n, j) \in [0 .. (n - 1) + 1 -> Nodes]
    BY <1>2, <1>11, <2>1, RemovedHeap DEF DeleteFound
  <2> QED
    BY <2>1, <2>2 DEF IInv
<1>12. CASE PrintUser \/ PrintItem
  BY <1>2, <1>3, <1>12, CartKeeps
<1>13. CASE Rmmod
  BY <1>2, <1>3, <1>13, FreeBeginsKeeps DEF Rmmod
<1>14. CASE FreeOne
  <2>1. n \in Nat \ {0} /\ pos = r[1] /\ Inv(Shorter(r, n, 1), n - 1)'
    BY <1>2, <1>14, FreeKeeps
  <2>2. 1 \in 1 .. n
    BY <2>1
  <2>3. n - 1 \in Nat /\ Shorter(r, n, 1) \in [0 .. (n - 1) + 1 -> Nodes]
    BY <1>2, <1>14, <2>1, <2>2, RemovedHeap DEF FreeOne
  <2> QED
    BY <2>1, <2>3 DEF IInv
<1>15. CASE FreedAll
  BY <1>2, <1>3, <1>15, FreedAllKeeps
<1>16. CASE Unloaded \/ UNCHANGED vars
  BY <1>2, <1>3, <1>16, StutterKeeps DEF Unloaded
<1> QED
  BY <1>4, <1>5, <1>6, <1>7, <1>8, <1>9, <1>10, <1>11, <1>12, <1>13, <1>14, <1>15,
     <1>16 DEF Next

LEMMA Invariance == Spec => []IInv
  BY InitIInv, StepIInv, PTL DEF Spec

-----------------------------------------------------------------------------
(***************************************************************************)
(* What every state of the list is.                                        *)
(***************************************************************************)

\* A ring leads from HEAD to all its nodes and back.
LEMMA RingFacts ==
  ASSUME NEW r, NEW n \in Nat, NEW succ, NEW pred, NEW S \in SUBSET Addrs,
         IsRing(r, n, succ, pred, S)
  PROVE  /\ ChainOf(succ, Cardinality(S)) = [k \in 1 .. n |-> r[k]]
         /\ Range([k \in 1 .. n |-> r[k]]) = S
         /\ \A x \in S \cup {HEAD} :
              succ[x] \in S \cup {HEAD} /\ pred[succ[x]] = x
<1>1. /\ IsOrder(r, n, S)
      /\ \A k \in 0 .. n : succ[r[k]] = r[k + 1] /\ pred[r[k + 1]] = r[k]
  BY DEF IsRing, Leads, LeadsBack
<1>2. Cardinality(S) = n /\ ChainOf(succ, n) = [k \in 1 .. n |-> r[k]]
  BY OrderCardinality, ChainIsOrder DEF IsRing
<1>3. Range([k \in 1 .. n |-> r[k]]) = S
  BY <1>1 DEF Range, IsOrder
<1>4. ASSUME NEW x \in S \cup {HEAD}
      PROVE  succ[x] \in S \cup {HEAD} /\ pred[succ[x]] = x
  <2>1. PICK k \in 0 .. n : r[k] = x
    <3>1. CASE x = HEAD
      BY <1>1, <3>1, 0 \in 0 .. n DEF IsOrder
    <3>2. CASE x \in S
      <4>1. PICK i \in 1 .. n : r[i] = x
        BY <1>1, <3>2 DEF IsOrder
      <4> QED
        BY <4>1, i \in 0 .. n
    <3> QED
      BY <3>1, <3>2
  <2>2. k + 1 \in 0 .. n + 1
    OBVIOUS
  <2>3. r[k + 1] \in S \cup {HEAD}
    BY <1>1, <2>2, OrderNodes
  <2> QED
    BY <1>1, <2>1, <2>3
<1> QED
  BY <1>2, <1>3, <1>4

\* The chain is the order, and the list well linked.
LEMMA ChainNow ==
  ASSUME NEW n \in Nat, NEW r \in [0 .. n + 1 -> Nodes], Inv(r, n)
  PROVE  Chain = [k \in 1 .. n |-> r[k]] /\ WellLinked
<1>1. IsRing(r, n, next, prev, allocated) /\ allocated \in SUBSET Addrs
  BY DEF Inv, TypeOK
<1>2. /\ ChainOf(next, Cardinality(allocated)) = [k \in 1 .. n |-> r[k]]
      /\ Range([k \in 1 .. n |-> r[k]]) = allocated
      /\ \A x \in allocated \cup {HEAD} :
           next[x] \in allocated \cup {HEAD} /\ prev[next[x]] = x
  BY <1>1, RingFacts
<1> QED
  BY <1>2 DEF Chain, WellLinked

(***************************************************************************)
(* Every variable of the list keeps its type, for any number of users,     *)
(* carts and addresses.                                                    *)
(***************************************************************************)
THEOREM ListTypes == Spec => []TypeOK
<1>1. IInv => TypeOK
  BY DEF IInv, Inv
<1> QED
  BY <1>1, Invariance, PTL

(***************************************************************************)
(* The list is always one ring through HEAD of exactly the users that are  *)
(* allocated, forwards and backwards: whatever allocation fails, and       *)
(* whichever user is deleted (lines 119-120, 130-133, 147-160).            *)
(***************************************************************************)
THEOREM UsersStayLinked == Spec => []WellLinked
<1>1. IInv => WellLinked
  BY ChainNow DEF IInv
<1> QED
  BY <1>1, Invariance, PTL

(***************************************************************************)
(* No loop over the list reads a user that is freed, and the module leaks  *)
(* none when it goes (lines 68-72, 130-133 and 202-210).                   *)
(***************************************************************************)
THEOREM NoUseAfterFree == Spec => []NoDanglingCursor
<1>1. ASSUME NEW n \in Nat, NEW r \in [0 .. n + 1 -> Nodes], Inv(r, n)
      PROVE  NoDanglingCursor
  BY <1>1, FreeingFacts DEF NoDanglingCursor, Inv, CursorInv
<1>2. IInv => NoDanglingCursor
  BY <1>1 DEF IInv
<1> QED
  BY <1>2, Invariance, PTL

(***************************************************************************)
(* The buffer of a cart is large enough: a cart has at most ten items of   *)
(* at most ten characters (lines 80-89 and 155-158).                       *)
(***************************************************************************)
THEOREM CartsFitTheLine == Spec => []CartsPrintedInFull
<1>1. IInv => CartsPrintedInFull
  BY DEF IInv, Inv, LineInv, CartsPrintedInFull
<1> QED
  BY <1>1, Invariance, PTL

\* Three increasing names that are all of 0, 2 and 3 are these, in this order.
LEMMA ThreeNames ==
  ASSUME NEW n \in Nat, NEW f, \A k \in 1 .. n : f[k] \in {0, 2, 3},
         \A j, k \in 1 .. n : j < k => f[j] < f[k],
         \A m \in {0, 2, 3} : \E k \in 1 .. n : f[k] = m
  PROVE  n = 3 /\ f[1] = 0 /\ f[2] = 2 /\ f[3] = 3
<1>1. PICK a \in 1 .. n : f[a] = 0
  OBVIOUS
<1>2. PICK b \in 1 .. n : f[b] = 2
  OBVIOUS
<1>3. PICK c \in 1 .. n : f[c] = 3
  OBVIOUS
<1>4. \A j, k \in 1 .. n : f[j] = f[k] => j = k
  <2> SUFFICES ASSUME NEW j \in 1 .. n, NEW k \in 1 .. n, f[j] = f[k], j # k
               PROVE  FALSE
    OBVIOUS
  <2>1. f[j] \in Nat /\ f[k] \in Nat
    OBVIOUS
  <2>2. j < k \/ k < j
    OBVIOUS
  <2> QED
    BY <2>1, <2>2
<1>5. a < b /\ b < c
  <2>1. \A j, k \in 1 .. n : f[j] < f[k] => j < k
    <3> SUFFICES ASSUME NEW j \in 1 .. n, NEW k \in 1 .. n, f[j] < f[k], ~ (j < k)
                 PROVE  FALSE
      OBVIOUS
    <3>1. f[j] \in Nat /\ f[k] \in Nat
      OBVIOUS
    <3>2. j = k \/ k < j
      OBVIOUS
    <3> QED
      BY <3>1, <3>2
  <2> QED
    BY <1>1, <1>2, <1>3, <2>1
<1>6. \A k \in 1 .. n : k = a \/ k = b \/ k = c
  BY <1>1, <1>2, <1>3, <1>4
<1>7. n = 3 /\ a = 1 /\ b = 2 /\ c = 3
  <2>1. 1 \in 1 .. n /\ 2 \in 1 .. n /\ 3 \in 1 .. n /\ n \in 1 .. n
    BY <1>5
  <2> QED
    BY <1>5, <1>6, <2>1
<1> QED
  BY <1>1, <1>2, <1>3, <1>7

(***************************************************************************)
(* With the five users of the source a module that is loaded has users #0, *)
(* #2 and #3, whatever carts were drawn and wherever the users are (lines  *)
(* 138-140, 175-186 and 188-195).                                          *)
(***************************************************************************)
THEOREM ThreeUsersAreLeft ==
  ASSUME N_USER_INFOS = 5
  PROVE  Spec => []LoadedUsers
<1>1. ASSUME NEW n \in Nat, NEW r \in [0 .. n + 1 -> Nodes], Inv(r, n), pc = "live"
      PROVE  /\ [k \in DOMAIN Chain |-> user[Chain[k]].name] = <<0, 2, 3>>
             /\ user[Chain[3]].cart = MilkAndHam
  <2> DEFINE f == [k \in 1 .. n |-> user[r[k]].name]
  <2>1. at = 10 /\ Deleted = {1, 4}
    <3>1. at = 10
      BY <1>1, ScriptFacts DEF Inv, CursorInv
    <3> QED
      BY <3>1 DEF Deleted
  <2>2. NameInv(r, n) /\ Serving
    BY <1>1 DEF Inv, Serving
  <2>3. \A k \in 1 .. n : f[k] \in 0 .. 4
    <3>1. user \in [Addrs -> [name : 0 .. 5 - 1, cart : Carts \cup {<< >>, MilkAndHam}]]
      BY <1>1 DEF Inv, TypeOK
    <3> QED
      BY <1>1, <3>1, Places
  <2>4. \A k \in 1 .. n : f[k] \in {0, 2, 3}
    <3>1. \A k \in 1 .. n : f[k] \notin {1, 4}
      BY <2>1, <2>2 DEF NameInv
    <3> QED
      BY <2>3, <3>1
  <2>5. \A j, k \in 1 .. n : j < k => f[j] < f[k]
    BY <2>2 DEF NameInv
  <2>6. \A m \in {0, 2, 3} : \E k \in 1 .. n : f[k] = m
    <3>1. \A m \in 0 .. 5 - 1 : m \in {1, 4} \/ \E k \in 1 .. n : user[r[k]].name = m
      BY <2>1, <2>2 DEF NameInv
    <3> QED
      BY <3>1
  <2> HIDE DEF f
  <2>7. n = 3 /\ f[1] = 0 /\ f[2] = 2 /\ f[3] = 3
    BY <2>4, <2>5, <2>6, ThreeNames
  <2>8. Chain = [k \in 1 .. 3 |-> r[k]]
    BY <1>1, <2>7, ChainNow
  <2>9. [k \in DOMAIN Chain |-> user[Chain[k]].name] = [k \in 1 .. 3 |-> f[k]]
    BY <2>7, <2>8 DEF f
  <2>10. [k \in 1 .. 3 |-> f[k]] = <<0, 2, 3>>
    BY <2>7
  <2>11. user[r[3]].cart = MilkAndHam
    <3>1. user[r[3]].name = 3 /\ 3 \in 1 .. n
      BY <2>7 DEF f
    <3>2. \A k \in 1 .. n : user[r[k]].name = 3 => user[r[k]].cart = MilkAndHam
      BY <2>1, <2>2 DEF NameInv
    <3> QED
      BY <3>1, <3>2
  <2> QED
    BY <2>8, <2>9, <2>10, <2>11
<1>2. IInv => LoadedUsers
  BY <1>1 DEF IInv, LoadedUsers
<1> QED
  BY <1>2, Invariance, PTL
-----------------------------------------------------------------------------
(***************************************************************************)
(* The pointers implement the sequence.                                    *)
(***************************************************************************)

\* The users of an order, one after the other, and the variables of UserSeq.
Served(r, n, usr) == [k \in 1 .. n |-> usr[r[k]]]

BarUsers == IF WellLinked THEN [k \in DOMAIN Chain |-> user[Chain[k]]] ELSE << >>

BarStage == CASE pc = "build"            -> "build"
              [] pc \in {"free", "gone"} -> "clear"
              [] OTHER                   -> "serve"

\* The abstract sequence lists the users in the order of the ring, before a step
\* and after it.
LEMMA BarNow ==
  ASSUME NEW n \in Nat, NEW r \in [0 .. n + 1 -> Nodes], Inv(r, n)
  PROVE  BarUsers = Served(r, n, user)
<1>1. Chain = [k \in 1 .. n |-> r[k]] /\ WellLinked
  BY ChainNow
<1> QED
  BY <1>1 DEF BarUsers, Served

LEMMA BarNext ==
  ASSUME NEW n \in Nat, NEW r, IsRing(r, n, next', prev', allocated'),
         allocated' \subseteq Addrs
  PROVE  BarUsers' = Served(r, n, user')
<1>1. PICK succ, pred, S : succ = next' /\ pred = prev' /\ S = allocated'
  OBVIOUS
<1>2. /\ ChainOf(succ, Cardinality(S)) = [k \in 1 .. n |-> r[k]]
      /\ Range([k \in 1 .. n |-> r[k]]) = S
      /\ \A x \in S \cup {HEAD} :
           succ[x] \in S \cup {HEAD} /\ pred[succ[x]] = x
  <2>1. S \in SUBSET Addrs /\ IsRing(r, n, succ, pred, S)
    BY <1>1
  <2> QED
    BY <2>1, RingFacts
<1>3. Chain' = [k \in 1 .. n |-> r[k]] /\ WellLinked'
  BY <1>1, <1>2 DEF Chain, WellLinked
<1> QED
  BY <1>3 DEF BarUsers, Served

\* A step that leaves the heap alone leaves the sequence alone.
LEMMA BarStays ==
  ASSUME UNCHANGED heap
  PROVE  BarUsers' = BarUsers
  BY DEF heap, BarUsers, WellLinked, Chain

\* A sequence, given by its elements.
LEMMA SequenceOf ==
  ASSUME NEW S, NEW n \in Nat, NEW s \in [1 .. n -> S]
  PROVE  s \in Seq(S) /\ Len(s) = n /\ DOMAIN s = 1 .. n
<1>1. s \in Seq(S)
  BY SeqDef
<1>2. PICK L \in Nat : L = Len(s)
  BY <1>1
<1>3. 1 .. L = 1 .. n
  BY <1>1, <1>2
<1>4. L = n
  BY <1>2, <1>3
<1> QED
  BY <1>1, <1>2, <1>4

\* One more element; the first one less; the j-th one less.
LEMMA AppendOf ==
  ASSUME NEW S, NEW n \in Nat, NEW s \in [1 .. n -> S], NEW e \in S,
         NEW t \in [1 .. n + 1 -> S], \A k \in 1 .. n : t[k] = s[k], t[n + 1] = e
  PROVE  t = Append(s, e)
<1>1. s \in Seq(S) /\ Len(s) = n /\ t \in Seq(S) /\ Len(t) = n + 1
  BY SequenceOf, n + 1 \in Nat
<1>2. /\ Append(s, e) \in Seq(S) /\ Len(Append(s, e)) = n + 1
      /\ Append(s, e)[n + 1] = e /\ \A k \in 1 .. n : Append(s, e)[k] = s[k]
  BY <1>1
<1> QED
  BY <1>1, <1>2

LEMMA TailOf ==
  ASSUME NEW S, NEW n \in Nat \ {0}, NEW s \in [1 .. n -> S],
         NEW t \in [1 .. n - 1 -> S], \A k \in 1 .. n - 1 : t[k] = s[k + 1]
  PROVE  t = Tail(s) /\ s # << >>
<1>1. s \in Seq(S) /\ Len(s) = n /\ t \in Seq(S) /\ Len(t) = n - 1
  BY SequenceOf, n - 1 \in Nat
<1>2. s # << >>
  BY <1>1
<1>3. /\ Tail(s) \in Seq(S) /\ Len(Tail(s)) = n - 1
      /\ \A k \in 1 .. n - 1 : Tail(s)[k] = s[k + 1]
  BY <1>1, <1>2
<1> QED
  BY <1>1, <1>2, <1>3

LEMMA RemovedOf ==
  ASSUME NEW S, NEW n \in Nat, NEW s \in [1 .. n -> S], NEW j \in 1 .. n,
         NEW t \in [1 .. n - 1 -> S],
         \A k \in 1 .. j - 1 : t[k] = s[k],
         \A k \in j .. n - 1 : t[k] = s[k + 1]
  PROVE  t = SubSeq(s, 1, j - 1) \o SubSeq(s, j + 1, n)
<1> DEFINE a == SubSeq(s, 1, j - 1)
           b == SubSeq(s, j + 1, n)
<1>1. s \in Seq(S) /\ Len(s) = n /\ t \in Seq(S) /\ Len(t) = n - 1
  BY SequenceOf, n - 1 \in Nat
<1>2. /\ a \in Seq(S) /\ Len(a) = j - 1
      /\ \A k \in 1 .. j - 1 : a[k] = s[k]
  BY <1>1
<1>3. /\ b \in Seq(S) /\ Len(b) = n - j
      /\ \A k \in 1 .. n - j : b[k] = s[j + k]
  BY <1>1
<1> HIDE DEF a, b
<1>4. /\ a \o b \in Seq(S) /\ Len(a \o b) = n - 1
      /\ \A k \in 1 .. n - 1 : (a \o b)[k] = IF k < j THEN a[k] ELSE b[k - (j - 1)]
  <2>1. /\ a \o b \in Seq(S) /\ Len(a \o b) = Len(a) + Len(b)
        /\ \A k \in 1 .. Len(a) + Len(b) :
             (a \o b)[k] = IF k <= Len(a) THEN a[k] ELSE b[k - Len(a)]
    BY <1>2, <1>3, ConcatProperties
  <2>2. Len(a) = j - 1 /\ Len(a) + Len(b) = n - 1
    BY <1>2, <1>3
  <2>3. \A k \in 1 .. n - 1 : k <= j - 1 <=> k < j
    OBVIOUS
  <2> QED
    BY <2>1, <2>2, <2>3
<1>5. \A k \in 1 .. n - 1 : (a \o b)[k] = t[k]
  <2> SUFFICES ASSUME NEW k \in 1 .. n - 1 PROVE (a \o b)[k] = t[k]
    OBVIOUS
  <2>1. CASE k < j
    BY <1>2, <1>4, <2>1
  <2>2. CASE ~ (k < j)
    <3>1. k \in j .. n - 1
      BY <2>2
    <3>2. k - (j - 1) \in 1 .. n - j /\ j + (k - (j - 1)) = k + 1
      BY <2>2
    <3>3. b[k - (j - 1)] = s[k + 1]
      BY <1>3, <3>2
    <3> QED
      BY <1>4, <2>2, <3>1, <3>3
  <2> QED
    BY <2>1, <2>2
<1>6. a \o b = t
  BY <1>1, <1>4, <1>5
<1> QED
  BY <1>1, <1>6 DEF a, b

\* The stage goes by the program point.
LEMMA Stages ==
  /\ pc = "build" => BarStage = "build"
  /\ pc \in {"free", "gone"} => BarStage = "clear"
  /\ pc \in {"op", "walk", "cart", "live"} => BarStage = "serve"
  BY DEF BarStage

LEMMA NextStages ==
  /\ pc' = "build" => BarStage' = "build"
  /\ pc' \in {"free", "gone"} => BarStage' = "clear"
  /\ pc' \in {"op", "walk", "cart", "live"} => BarStage' = "serve"
  BY DEF BarStage

\* What the users of an order are, and how many.
Values == [name : 0 .. N_USER_INFOS - 1, cart : Carts \cup {<< >>, MilkAndHam}]

LEMMA BarFacts ==
  ASSUME NEW n \in Nat, NEW r \in [0 .. n + 1 -> Nodes], Inv(r, n)
  PROVE  /\ BarUsers \in [1 .. n -> Values]
         /\ \A k \in 1 .. n : BarUsers[k] = user[r[k]]
         /\ Len(BarUsers) = n /\ DOMAIN BarUsers = 1 .. n
<1>1. user \in [Addrs -> Values]
  BY DEF Inv, TypeOK, Values
<1>2. BarUsers = [k \in 1 .. n |-> user[r[k]]]
  BY BarNow DEF Served
<1>3. BarUsers \in [1 .. n -> Values]
  BY <1>1, <1>2, Places
<1>4. Len(BarUsers) = n /\ DOMAIN BarUsers = 1 .. n
  BY <1>3, SequenceOf
<1> QED
  BY <1>2, <1>3, <1>4

\* AddUser is Add.
LEMMA AddImplements ==
  ASSUME NEW n \in Nat, NEW r \in [0 .. n + 1 -> Nodes], Inv(r, n),
         NEW a \in Addrs, NEW cart \in Carts, AddUser(a, cart)
  PROVE  Users!Add(cart)
<1> DEFINE q == Longer(r, n, a)
           u == [name |-> n, cart |-> cart]
<1>1. /\ n < N_USER_INFOS /\ n + 1 \in Nat
      /\ allocated' \subseteq Addrs
      /\ IsRing(q, n + 1, next', prev', allocated')
      /\ user' = [user EXCEPT ![a] = u]
      /\ pc = "build" /\ pc' = "build" /\ a \notin allocated
  BY AddedHeap
<1>2. /\ BarUsers \in [1 .. n -> Values] /\ Len(BarUsers) = n
      /\ \A k \in 1 .. n : BarUsers[k] = user[r[k]]
  BY BarFacts
<1>3. u \in Values /\ user \in [Addrs -> Values]
  BY <1>1, ListAssumption DEF ListAssumption, Values, Inv, TypeOK
<1>4. user' \in [Addrs -> Values]
  BY <1>1, <1>3
<1>5. BarUsers' = [k \in 1 .. n + 1 |-> user'[q[k]]]
  BY <1>1, BarNext DEF Served
<1>6. /\ \A k \in 1 .. n : q[k] = r[k] /\ r[k] # a /\ r[k] \in Addrs
      /\ q[n + 1] = a
  <2>1. \A k \in 1 .. n : r[k] \in Addrs /\ r[k] # a
    BY <1>1, Places
  <2>2. \A k \in 1 .. n : k \in 0 .. n + 2 /\ k <= n
    OBVIOUS
  <2>3. n + 1 \in 0 .. n + 2 /\ ~ (n + 1 <= n)
    OBVIOUS
  <2> QED
    BY <2>1, <2>2, <2>3 DEF Longer
<1> HIDE DEF q, u
<1>7. /\ \A k \in 1 .. n : user'[q[k]] = user[r[k]]
      /\ user'[q[n + 1]] = u
  BY <1>1, <1>3, <1>6
<1>8. \A k \in 1 .. n + 1 : k \in 1 .. n \/ k = n + 1
  OBVIOUS
<1>9. /\ BarUsers' \in [1 .. n + 1 -> Values] /\ BarUsers'[n + 1] = u
      /\ \A k \in 1 .. n : BarUsers'[k] = BarUsers[k]
  <2>1. \A k \in 1 .. n + 1 : user'[q[k]] \in Values
    BY <1>4, <1>6, <1>8
  <2>2. n + 1 \in 1 .. n + 1 /\ \A k \in 1 .. n : k \in 1 .. n + 1
    OBVIOUS
  <2> QED
    BY <1>2, <1>5, <1>7, <2>1, <2>2
<1>10. BarUsers' = Append(BarUsers, u)
  <2>1. PICK s, t : s = BarUsers /\ t = BarUsers'
    OBVIOUS
  <2>2. t = Append(s, u)
    BY <1>2, <1>3, <1>9, <2>1, AppendOf
  <2> QED
    BY <2>1, <2>2
<1>11. BarStage = "build" /\ BarStage' = "build"
  BY <1>1, Stages, NextStages
<1> QED
  BY <1>1, <1>2, <1>10, <1>11 DEF u, Users!Add, BarUsers, BarStage

\* UpdateFound is Change.
LEMMA UpdateImplements ==
  ASSUME NEW n \in Nat, NEW r \in [0 .. n + 1 -> Nodes], Inv(r, n), UpdateFound
  PROVE  \E j \in DOMAIN BarUsers : Users!Change(j, MilkAndHam)
<1>1. /\ pc = "walk" /\ pos # HEAD /\ WalkEnds
      /\ UNCHANGED <<allocated, next, prev>>
      /\ user' = [user EXCEPT ![pos].cart = MilkAndHam]
  BY DEF UpdateFound, Found
<1>2. PICK j \in 1 .. n : pos = r[j]
  BY <1>1, WalkPlace
<1>3. /\ BarUsers \in [1 .. n -> Values] /\ DOMAIN BarUsers = 1 .. n
      /\ \A k \in 1 .. n : BarUsers[k] = user[r[k]]
  BY BarFacts
<1>4. user \in [Addrs -> Values] /\ allocated \subseteq Addrs
  BY DEF Values, Inv, TypeOK
<1>5. BarUsers' = [k \in 1 .. n |-> user'[r[k]]]
  BY <1>1, <1>4, BarNext DEF Inv, Served
<1>6. BarUsers' = [BarUsers EXCEPT ![j].cart = MilkAndHam]
  <2>1. \A k \in 1 .. n : r[k] \in Addrs /\ (k # j => r[k] # r[j])
    <3>1. \A k \in 1 .. n : r[k] \in Addrs
      BY Places
    <3>2. \A i, k \in 1 .. n : r[i] = r[k] => i = k
      BY Places
    <3> QED
      BY <3>1, <3>2
  <2>2. \A k \in 1 .. n : k # j => user'[r[k]] = user[r[k]]
    BY <1>1, <1>2, <1>4, <2>1
  <2>3. user'[r[j]] = [user[r[j]] EXCEPT !.cart = MilkAndHam]
    BY <1>1, <1>2, <1>4, <2>1
  <2>4. [BarUsers EXCEPT ![j].cart = MilkAndHam]
          = [k \in 1 .. n |-> IF k = j THEN [user[r[j]] EXCEPT !.cart = MilkAndHam]
                              ELSE user[r[k]]]
    BY <1>3
  <2> QED
    BY <1>5, <2>2, <2>3, <2>4
<1>7. BarStage = "serve" /\ BarStage' = "serve"
  BY <1>1, WalkEndFacts, Stages, NextStages
<1> QED
  BY <1>3, <1>6, <1>7 DEF Users!Change, BarUsers, BarStage

\* Taking the j-th node out of the ring takes the j-th user out of the sequence.
LEMMA RemoveImplements ==
  ASSUME NEW n \in Nat, NEW r \in [0 .. n + 1 -> Nodes], Inv(r, n),
         NEW j \in 1 .. n, NEW e, e = r[j], list_del(e), kfree(e)
  PROVE  /\ BarUsers \in [1 .. n -> Values] /\ BarUsers' \in [1 .. n - 1 -> Values]
         /\ \A k \in 1 .. n - 1 :
              BarUsers'[k] = IF k < j THEN BarUsers[k] ELSE BarUsers[k + 1]
<1> DEFINE q == Shorter(r, n, j)
<1>1. /\ n - 1 \in Nat /\ allocated' \subseteq Addrs
      /\ user' \in [Addrs -> Values]
      /\ IsRing(q, n - 1, next', prev', allocated')
      /\ \A k \in 1 .. n : k # j => user'[r[k]] = user[r[k]]
  BY RemovedHeap DEF Values
<1>2. /\ BarUsers \in [1 .. n -> Values]
      /\ \A k \in 1 .. n : BarUsers[k] = user[r[k]]
  BY BarFacts
<1>3. BarUsers' = [k \in 1 .. n - 1 |-> user'[q[k]]]
  BY <1>1, BarNext DEF Served
<1>4. \A k \in 1 .. n - 1 :
        LET i == IF k < j THEN k ELSE k + 1
        IN  /\ i \in 1 .. n /\ i # j /\ q[k] = r[i]
            /\ user'[q[k]] = BarUsers[i] /\ BarUsers[i] \in Values
  <2>1. \A k \in 1 .. n - 1 :
          LET i == IF k < j THEN k ELSE k + 1
          IN  i \in 1 .. n /\ i # j /\ k \in 0 .. n /\ q[k] = r[i]
    BY DEF Shorter
  <2> HIDE DEF q
  <2>2. \A i \in 1 .. n : BarUsers[i] \in Values
    BY <1>2
  <2> QED
    BY <1>1, <1>2, <2>1, <2>2
<1> HIDE DEF q
<1>5. BarUsers' \in [1 .. n - 1 -> Values]
  BY <1>3, <1>4
<1>6. \A k \in 1 .. n - 1 :
        BarUsers'[k] = IF k < j THEN BarUsers[k] ELSE BarUsers[k + 1]
  BY <1>3, <1>4
<1> QED
  BY <1>2, <1>5, <1>6

\* DeleteFound is TakeOut.
LEMMA DeleteImplements ==
  ASSUME NEW n \in Nat, NEW r \in [0 .. n + 1 -> Nodes], Inv(r, n), DeleteFound
  PROVE  \E j \in DOMAIN BarUsers : Users!TakeOut(j)
<1>1. pc = "walk" /\ pos # HEAD /\ WalkEnds /\ list_del(pos) /\ kfree(pos)
  BY DEF DeleteFound, Found
<1>2. PICK j \in 1 .. n : pos = r[j]
  BY <1>1, WalkPlace
<1>3. PICK s, t : s = BarUsers /\ t = BarUsers'
  OBVIOUS
<1>4. /\ s \in [1 .. n -> Values] /\ t \in [1 .. n - 1 -> Values]
      /\ \A k \in 1 .. n - 1 : t[k] = IF k < j THEN s[k] ELSE s[k + 1]
  BY <1>1, <1>2, <1>3, RemoveImplements
<1>5. t = SubSeq(s, 1, j - 1) \o SubSeq(s, j + 1, Len(s))
  <2>1. \A k \in 1 .. j - 1 : t[k] = s[k]
    BY <1>4
  <2>2. \A k \in j .. n - 1 : t[k] = s[k + 1]
    BY <1>4
  <2>3. Len(s) = n
    BY <1>4, SequenceOf
  <2>4. t = SubSeq(s, 1, j - 1) \o SubSeq(s, j + 1, n)
    BY <1>4, <2>1, <2>2, RemovedOf, SMTT(30)
  <2> QED
    BY <2>3, <2>4
<1>6. DOMAIN BarUsers = 1 .. n
  BY <1>3, <1>4
<1>7. BarStage = "serve" /\ BarStage' = "serve"
  BY <1>1, WalkEndFacts, Stages, NextStages
<1> QED
  BY <1>3, <1>5, <1>6, <1>7 DEF Users!TakeOut, Users!RemoveAt, BarUsers, BarStage

\* FreeOne is TakeFirst.
LEMMA FreeImplements ==
  ASSUME NEW n \in Nat, NEW r \in [0 .. n + 1 -> Nodes], Inv(r, n), FreeOne
  PROVE  Users!TakeFirst
<1>1. pc = "free" /\ list_del(pos) /\ kfree(pos) /\ UNCHANGED pc
  BY DEF FreeOne
<1>2. n \in Nat \ {0} /\ pos = r[1] /\ 1 \in 1 .. n
  BY FreeKeeps
<1>3. PICK s, t : s = BarUsers /\ t = BarUsers'
  OBVIOUS
<1>4. /\ s \in [1 .. n -> Values] /\ t \in [1 .. n - 1 -> Values]
      /\ \A k \in 1 .. n - 1 : t[k] = IF k < 1 THEN s[k] ELSE s[k + 1]
  BY <1>1, <1>2, <1>3, RemoveImplements
<1>5. t = Tail(s) /\ s # << >>
  <2>1. \A k \in 1 .. n - 1 : t[k] = s[k + 1]
    BY <1>4
  <2> QED
    BY <1>2, <1>4, <2>1, TailOf
<1>6. BarStage = "clear" /\ BarStage' = "clear"
  BY <1>1, Stages, NextStages
<1> QED
  BY <1>3, <1>5, <1>6 DEF Users!TakeFirst, BarUsers, BarStage

\* Every step of the list is one of the sequence, or changes nothing of it.
LEMMA StepImplements ==
  ASSUME IInv, [Next]_vars
  PROVE  [Users!Next]_(Users!vars)
<1>1. PICK n \in Nat : \E r \in [0 .. n + 1 -> Nodes] : Inv(r, n)
  BY DEF IInv
<1>2. PICK r \in [0 .. n + 1 -> Nodes] : Inv(r, n)
  BY <1>1
<1>3. Users!vars = <<BarStage, BarUsers>>
  BY DEF Users!vars, BarStage, BarUsers
<1>4. ASSUME UNCHANGED heap, BarStage' = BarStage PROVE UNCHANGED Users!vars
  BY <1>4, BarStays DEF Users!vars, BarStage, BarUsers
<1>5. ASSUME NEW a \in Addrs, NEW cart \in Carts, AddUser(a, cart) PROVE Users!Next
  <2>1. Users!Add(cart)
    BY <1>2, <1>5, AddImplements
  <2>2. cart \in Carts \cup {MilkAndHam}
    OBVIOUS
  <2> QED
    BY <2>1, <2>2 DEF Users!Next
<1>6. CASE Built
  <2>1. BarStage = "build" /\ BarStage' = "serve"
    BY <1>6, Stages, NextStages DEF Built
  <2>2. BarUsers' = BarUsers
    BY <1>6, BarStays DEF Built
  <2>3. Len(BarUsers) = N_USER_INFOS
    BY <1>2, <1>6, BarFacts, Places DEF Built
  <2>4. Users!Serve
    BY <2>1, <2>2, <2>3 DEF Users!Serve, BarStage, BarUsers
  <2> QED
    BY <2>4 DEF Users!Next
<1>7. CASE AllocFails \/ Rmmod
  <2>1. FreeBegins /\ pc \in {"build", "live"} /\ pc' = "free"
    BY <1>7 DEF AllocFails, Rmmod, FreeBegins
  <2>2. BarStage # "clear" /\ BarStage' = "clear"
    BY <2>1, Stages, NextStages
  <2>3. BarUsers' = BarUsers
    BY <2>1, BarStays DEF FreeBegins
  <2>4. Users!Clear
    BY <2>2, <2>3 DEF Users!Clear, BarStage, BarUsers
  <2> QED
    BY <2>4 DEF Users!Next
<1>8. CASE UpdateFound
  <2>1. PICK j \in DOMAIN BarUsers : Users!Change(j, MilkAndHam)
    BY <1>2, <1>8, UpdateImplements
  <2> QED
    BY <2>1 DEF Users!Next, BarUsers
<1>9. CASE DeleteFound
  <2>1. PICK j \in DOMAIN BarUsers : Users!TakeOut(j)
    BY <1>2, <1>9, DeleteImplements
  <2> QED
    BY <2>1 DEF Users!Next, BarUsers
<1>10. CASE FreeOne
  BY <1>2, <1>10, FreeImplements DEF Users!Next
<1>11. CASE WalkedAll \/ GetFound
  <2>1. pc = "walk" /\ pc' \in {"op", "live"} /\ UNCHANGED heap
    BY <1>2, <1>11, WalkEndFacts DEF WalkedAll, GetFound, Found
  <2> QED
    BY <1>4, <2>1, Stages, NextStages
<1>12. CASE WalkBegins \/ WalkOn \/ PrintUser \/ PrintItem \/ CartPrinted
  <2>1. /\ pc \in {"op", "walk", "cart"} /\ pc' \in {"op", "walk", "cart"}
        /\ UNCHANGED heap
    BY <1>12 DEF WalkBegins, WalkOn, PrintUser, PrintItem, CartPrinted
  <2> QED
    BY <1>4, <2>1, Stages, NextStages
<1>13. CASE FreedAll
  <2>1. pc = "free" /\ pc' = "gone" /\ UNCHANGED heap
    BY <1>13 DEF FreedAll
  <2> QED
    BY <1>4, <2>1, Stages, NextStages
<1>14. CASE Unloaded \/ UNCHANGED vars
  <2>1. UNCHANGED <<pc, heap>>
    BY <1>14 DEF Unloaded, vars
  <2>2. BarStage' = BarStage
    BY <2>1 DEF BarStage
  <2> QED
    BY <1>4, <2>1, <2>2
<1> QED
  BY <1>5, <1>6, <1>7, <1>8, <1>9, <1>10, <1>11, <1>12, <1>13, <1>14 DEF Next

\* The list begins empty.
LEMMA InitImplements == Init => Users!Init
<1> SUFFICES ASSUME Init PROVE Users!Init
  OBVIOUS
<1>1. PICK n \in Nat : \E r \in [0 .. n + 1 -> Nodes] : Inv(r, n)
  BY InitIInv DEF IInv
<1>2. PICK r \in [0 .. n + 1 -> Nodes] : Inv(r, n)
  BY <1>1
<1>3. n = 0
  BY <1>2, Places DEF Init
<1>4. BarUsers = << >>
  <2>1. BarUsers \in [1 .. 0 -> Values] /\ Len(BarUsers) = 0
    BY <1>2, <1>3, BarFacts
  <2>2. BarUsers \in Seq(Values)
    BY <2>1, SequenceOf
  <2> QED
    BY <2>1, <2>2
<1>5. BarStage = "build"
  BY Stages DEF Init
<1> QED
  BY <1>4, <1>5 DEF Users!Init, BarStage, BarUsers

(***************************************************************************)
(* The ring of pointers is the sequence of users UserSeq promises: adding  *)
(* a user appends it, deleting one keeps the order of the others, freeing  *)
(* empties the sequence from its front, and printing and looking up leave  *)
(* it as it is (lines 119-120, 130-133, 146-161 and 175-186).              *)
(***************************************************************************)
THEOREM ListIsSequence == Spec => ImplementsSequence
<1>1. Init => Users!Init
  BY InitImplements
<1>2. IInv /\ [Next]_vars => [Users!Next]_(Users!vars)
  BY StepImplements
<1> QED
  BY <1>1, <1>2, Invariance, PTL DEF Spec, ImplementsSequence, Users!Spec
=============================================================================
