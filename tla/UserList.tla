------------------------------ MODULE UserList ------------------------------
(***************************************************************************)
(* data_structure/list.c: users on the heap, linked by a list_head in each *)
(* of them; init builds the list, prints it, looks users up, changes one   *)
(* and deletes some; it frees them all on exit, or when an allocation      *)
(* fails.  The addresses are those of the list_heads, from which           *)
(* container_of() gets the users.                                          *)
(*                                                                         *)
(* A cart is a sequence of the lengths of its food names, which is all     *)
(* print_shopping_cart() depends on.  The age of a user, which nothing     *)
(* depends on, is left out.                                                *)
(***************************************************************************)
EXTENDS Naturals, Sequences, FiniteSets, Functions

CONSTANTS
  Addrs,          \* where kzalloc() can place a user
  HEAD,           \* gs_user_info_list
  POISON,         \* what list_del() leaves in a node
  N_USER_INFOS,
  Carts           \* the carts that init may draw

MAX_CART_SIZE == 10

\* The lengths of "ham", "kiwi" and "milk", "bread", "banana", "strawberry".
FoodLengths == {3, 4, 5, 6, 10}

ASSUME ListAssumption ==
  /\ IsFiniteSet(Addrs) /\ Cardinality(Addrs) >= N_USER_INFOS
  /\ HEAD \notin Addrs /\ POISON \notin Addrs \cup {HEAD}
  /\ N_USER_INFOS \in Nat \ {0}
  /\ \A cart \in Carts : cart \in Seq(FoodLengths) /\ Len(cart) <= MAX_CART_SIZE

VARIABLES
  pc,           \* build, op, walk, cart, live, free, gone
  at,           \* the operation of Script that init is at
  allocated,    \* the addresses that hold a user
  next, prev,   \* the list_head of each address and of HEAD
  user,         \* the users
  pos, tmp,     \* the cursor of a loop over the list, and its saved successor
  item, len,    \* print_shopping_cart(): the item it is at, what it has written
  wanted        \* history: what it would have written without an end of the buffer

heap == <<allocated, next, prev, user>>
cursor == <<pos, tmp>>
line == <<item, len, wanted>>
vars == <<pc, at, heap, cursor, line>>

Nodes == Addrs \cup {HEAD}
Blank == [name |-> 0, cart |-> << >>]
nobody == N_USER_INFOS
MilkAndHam == <<4, 3>>

\* What init does with the list once it is built, by the names of the users.
Script ==
  << [op |-> "print", name |-> nobody],
     [op |-> "get", name |-> 2], [op |-> "get", name |-> 4],
     [op |-> "get", name |-> nobody],
     [op |-> "update", name |-> 3],
     [op |-> "delete", name |-> 1], [op |-> "delete", name |-> 1],
     [op |-> "delete", name |-> 4], [op |-> "delete", name |-> nobody],
     [op |-> "print", name |-> nobody] >>

\* Fault: the buffer has no room for the separators.
RoomForNames == MAX_CART_SIZE * 10 + 1

CART_BUFFER == 128

TypeOK ==
  /\ pc \in {"build", "op", "walk", "cart", "live", "free", "gone"}
  /\ at \in 1 .. Len(Script)
  /\ allocated \subseteq Addrs
  /\ next \in [Nodes -> Nodes \cup {POISON}] /\ prev \in [Nodes -> Nodes \cup {POISON}]
  /\ user \in [Addrs -> [name : 0 .. N_USER_INFOS - 1,
                         cart : Carts \cup {<< >>, MilkAndHam}]]
  /\ pos \in Nodes /\ tmp \in Nodes
  /\ item \in 0 .. MAX_CART_SIZE + 1 /\ len \in 0 .. CART_BUFFER - 1 /\ wanted \in Nat

Init ==
  /\ pc = "build" /\ at = 1
  /\ allocated = {}
  /\ next = [x \in Nodes |-> IF x = HEAD THEN HEAD ELSE POISON]
  /\ prev = [x \in Nodes |-> IF x = HEAD THEN HEAD ELSE POISON]
  /\ user = [a \in Addrs |-> Blank]
  /\ pos = HEAD /\ tmp = HEAD
  /\ item = 0 /\ len = 0 /\ wanted = 0

-----------------------------------------------------------------------------
(***************************************************************************)
(* list.h and the allocator.                                               *)
(***************************************************************************)

\* __list_add(): e between two nodes that follow each other.
Insert(e, before, after) ==
  /\ next' = [next EXCEPT ![before] = e, ![e] = after]
  /\ prev' = [prev EXCEPT ![after] = e, ![e] = before]

\* Fault: list_add(), which adds at the front.
Prepend(e) == Insert(e, HEAD, next[HEAD])

list_add_tail(e) == Insert(e, prev[HEAD], HEAD)

list_del(e) ==
  /\ next' = [next EXCEPT ![prev[e]] = next[e], ![e] = POISON]
  /\ prev' = [prev EXCEPT ![next[e]] = prev[e], ![e] = POISON]

kfree(e) ==
  /\ allocated' = allocated \ {e}
  /\ user' = [user EXCEPT ![e] = Blank]

-----------------------------------------------------------------------------
(***************************************************************************)
(* Building the list.                                                      *)
(***************************************************************************)

\* One user is allocated, filled in and added.
AddUser(a, cart) ==
  /\ pc = "build" /\ Cardinality(allocated) < N_USER_INFOS
  /\ a \notin allocated
  /\ allocated' = allocated \cup {a}
  /\ user' = [user EXCEPT ![a] = [name |-> Cardinality(allocated), cart |-> cart]]
  /\ list_add_tail(a)
  /\ UNCHANGED <<pc, at, cursor, line>>

\* The first user of list_for_each_entry_safe(), and the one after it.
FreeBegins ==
  /\ pc' = "free" /\ pos' = next[HEAD] /\ tmp' = next[next[HEAD]]
  /\ UNCHANGED <<at, heap, line>>

\* kzalloc() fails: err_free.
AllocFails ==
  /\ pc = "build" /\ Cardinality(allocated) < N_USER_INFOS
  /\ FreeBegins

Built ==
  /\ pc = "build" /\ Cardinality(allocated) = N_USER_INFOS
  /\ pc' = "op"
  /\ UNCHANGED <<at, heap, cursor, line>>

-----------------------------------------------------------------------------
(***************************************************************************)
(* Printing, looking up, changing and deleting: each is a walk.            *)
(***************************************************************************)

WalkBegins ==
  /\ pc = "op" /\ pc' = "walk"
  /\ pos' = next[HEAD]
  /\ UNCHANGED <<at, heap, tmp, line>>

\* Fault: strcmp() without the "!".
MatchesOther == Script[at].op # "print" /\ user[pos].name # Script[at].name

Matches == Script[at].op # "print" /\ user[pos].name = Script[at].name

\* The walk is over; the next operation, or the end of init.
WalkEnds ==
  /\ IF at = Len(Script) THEN pc' = "live" /\ UNCHANGED at ELSE pc' = "op" /\ at' = at + 1
  /\ pos' = HEAD
  /\ UNCHANGED <<tmp, line>>

\* list_for_each() in get_user_info(): not the one.
WalkOn ==
  /\ pc = "walk" /\ pos # HEAD
  /\ Script[at].op # "print" /\ ~Matches
  /\ pos' = next[pos]
  /\ UNCHANGED <<pc, at, heap, tmp, line>>

\* The end of the list: printed, or there is no such user (-ENOENT).
WalkedAll ==
  /\ pc = "walk" /\ pos = HEAD
  /\ WalkEnds
  /\ UNCHANGED heap

Found(op) == pc = "walk" /\ pos # HEAD /\ Matches /\ Script[at].op = op

GetFound == Found("get") /\ WalkEnds /\ UNCHANGED heap

\* Fault: n_cart_items is not set, and the old cart is longer.
UpdateKeepsSize ==
  /\ Found("update")
  /\ user' = [user EXCEPT ![pos].cart = MilkAndHam \o SubSeq(@, 3, Len(@))]
  /\ WalkEnds
  /\ UNCHANGED <<allocated, next, prev>>

UpdateFound ==
  /\ Found("update")
  /\ user' = [user EXCEPT ![pos].cart = MilkAndHam]
  /\ WalkEnds
  /\ UNCHANGED <<allocated, next, prev>>

\* Fault: delete_user_info() frees the user and leaves it in the list.
DeleteStaysLinked ==
  /\ Found("delete")
  /\ kfree(pos)
  /\ WalkEnds
  /\ UNCHANGED <<next, prev>>

DeleteFound ==
  /\ Found("delete")
  /\ list_del(pos) /\ kfree(pos)
  /\ WalkEnds

-----------------------------------------------------------------------------
(***************************************************************************)
(* print_shopping_cart(): ", " and names, each cut off by scnprintf() at   *)
(* the end of the buffer, whose last byte is for the NUL.                  *)
(***************************************************************************)

\* list_for_each_entry() in print_all_user_infos(): one more that is printed.
PrintUser ==
  /\ pc = "walk" /\ pos # HEAD
  /\ Script[at].op = "print"
  /\ pc' = "cart"
  /\ item' = 1 /\ len' = 0 /\ wanted' = 0
  /\ UNCHANGED <<at, heap, cursor>>

\* ", " before every item but the first.
Separator(i) == IF i = 1 THEN 0 ELSE 2

CutOff(n) == IF n < CART_BUFFER THEN n ELSE CART_BUFFER - 1

\* One item is appended to the line.
PrintItem ==
  LET cart == user[pos].cart
      text == Separator(item) + cart[item]
  IN  /\ pc = "cart" /\ item <= Len(cart)
      /\ len' = CutOff(len + text)
      /\ wanted' = wanted + text
      /\ item' = item + 1
      /\ UNCHANGED <<pc, at, heap, cursor>>

\* The line is complete; on to the next user.
CartPrinted ==
  /\ pc = "cart" /\ item > Len(user[pos].cart)
  /\ pc' = "walk" /\ pos' = next[pos]
  /\ item' = 0 /\ len' = 0 /\ wanted' = 0
  /\ UNCHANGED <<at, heap, tmp>>

-----------------------------------------------------------------------------
(***************************************************************************)
(* free_all_user_infos().                                                  *)
(***************************************************************************)

Rmmod ==
  /\ pc = "live"
  /\ FreeBegins

\* Fault: list_for_each_entry(), which reads the successor of what is freed.
FreeOneUnsafe ==
  /\ pc = "free" /\ pos # HEAD
  /\ list_del(pos) /\ kfree(pos)
  /\ pos' = next'[pos]
  /\ UNCHANGED <<pc, at, tmp, line>>

\* A user is unlinked and freed; the loop goes on with the one saved before.
FreeOne ==
  /\ pc = "free" /\ pos # HEAD
  /\ list_del(pos) /\ kfree(pos)
  /\ pos' = tmp /\ tmp' = next'[tmp]
  /\ UNCHANGED <<pc, at, line>>

FreedAll ==
  /\ pc = "free" /\ pos = HEAD
  /\ pc' = "gone" /\ tmp' = HEAD
  /\ UNCHANGED <<at, heap, pos, line>>

-----------------------------------------------------------------------------
\* The module is unloaded.
Unloaded == pc = "gone" /\ UNCHANGED vars

Next ==
  \/ \E a \in Addrs, cart \in Carts : AddUser(a, cart)
  \/ AllocFails \/ Built
  \/ WalkBegins \/ WalkOn \/ WalkedAll
  \/ GetFound \/ UpdateFound \/ DeleteFound
  \/ PrintUser \/ PrintItem \/ CartPrinted
  \/ Rmmod \/ FreeOne \/ FreedAll
  \/ Unloaded

Spec == Init /\ [][Next]_vars

-----------------------------------------------------------------------------
(***************************************************************************)
(* Properties.                                                             *)
(***************************************************************************)

\* The first n nodes that follow HEAD by the pointers of succ, in order.
ChainOf(succ, n) ==
  LET node[k \in 0 .. n] ==
        IF k = 0 THEN HEAD
        ELSE IF node[k - 1] \in Nodes THEN succ[node[k - 1]] ELSE POISON
  IN  [k \in 1 .. n |-> node[k]]

Chain == ChainOf(next, Cardinality(allocated))

(***************************************************************************)
(* The list is one ring through HEAD of exactly the users that are         *)
(* allocated, in both directions: none leaks, none is freed and still      *)
(* linked, after any allocation that fails and any user that is deleted    *)
(* (lines 119-120, 130-133, 147-160).                                      *)
(***************************************************************************)
WellLinked ==
  /\ Range(Chain) = allocated
  /\ \A x \in allocated \cup {HEAD} :
       next[x] \in allocated \cup {HEAD} /\ prev[next[x]] = x

(***************************************************************************)
(* No loop looks at a user that is freed: the cursor of a walk and the     *)
(* saved successor of the freeing loop are allocated, and a module that is *)
(* gone has freed every user (lines 68-72, 130-133 and 202-210).           *)
(***************************************************************************)
NoDanglingCursor ==
  /\ {pos, tmp} \subseteq allocated \cup {HEAD}
  /\ pc = "gone" => allocated = {}

(***************************************************************************)
(* The pointers implement the sequence of users UserSeq promises: added at *)
(* its end, changed or taken out by name, emptied from its front.          *)
(***************************************************************************)
Users == INSTANCE UserSeq
  WITH stage <- CASE pc = "build"           -> "build"
                  [] pc \in {"free", "gone"} -> "clear"
                  [] OTHER                   -> "serve",
       users <- IF WellLinked THEN [k \in DOMAIN Chain |-> user[Chain[k]]] ELSE << >>,
       Carts <- Carts \cup {MilkAndHam}

ImplementsSequence == Users!Spec

(***************************************************************************)
(* A module that is loaded has users #0, #2 and #3, in this order, and #3  *)
(* has its new cart: deleting #1 a second time and "nobody" has changed    *)
(* nothing (lines 138-140, 175-186 and 188-195).                           *)
(***************************************************************************)
LoadedUsers ==
  pc = "live" =>
    /\ [k \in DOMAIN Chain |-> user[Chain[k]].name] = <<0, 2, 3>>
    /\ user[Chain[3]].cart = MilkAndHam

(***************************************************************************)
(* No cart is cut off by the buffer, whatever its number of items and      *)
(* their names: at every item that is printed the line is as long as what  *)
(* was to be printed (lines 80-89 and 155-158).                            *)
(***************************************************************************)
CartsPrintedInFull == pc = "cart" => len = wanted
=============================================================================
