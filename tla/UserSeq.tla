------------------------------- MODULE UserSeq -------------------------------
(***************************************************************************)
(* What the list sample promises of its users, without pointers and        *)
(* memory: a sequence in the order in which they were added, any one of    *)
(* which may be changed or taken out with the rest left in order, and      *)
(* which is emptied from its front at the end, or as soon as a user cannot *)
(* be added.                                                               *)
(***************************************************************************)
EXTENDS Naturals, Sequences, SequencesExt

CONSTANTS N_USER_INFOS, Carts

VARIABLES
  stage,   \* build, serve, clear
  users    \* the users, each with a name and a cart

vars == <<stage, users>>

Init == stage = "build" /\ users = << >>

Add(cart) ==
  /\ stage = "build" /\ Len(users) < N_USER_INFOS
  /\ users' = Append(users, [name |-> Len(users), cart |-> cart])
  /\ UNCHANGED stage

Serve ==
  /\ stage = "build" /\ Len(users) = N_USER_INFOS
  /\ stage' = "serve"
  /\ UNCHANGED users

Change(k, cart) ==
  /\ stage = "serve"
  /\ users' = [users EXCEPT ![k].cart = cart]
  /\ UNCHANGED stage

TakeOut(k) ==
  /\ stage = "serve"
  /\ users' = RemoveAt(users, k)
  /\ UNCHANGED stage

Clear == stage # "clear" /\ stage' = "clear" /\ UNCHANGED users

TakeFirst ==
  /\ stage = "clear" /\ users # << >>
  /\ users' = Tail(users)
  /\ UNCHANGED stage

Next ==
  \/ \E cart \in Carts : Add(cart)
  \/ Serve
  \/ \E k \in DOMAIN users : TakeOut(k) \/ \E cart \in Carts : Change(k, cart)
  \/ Clear \/ TakeFirst

Spec == Init /\ [][Next]_vars
=============================================================================
