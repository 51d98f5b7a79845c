----------------------------- MODULE MCUserList -----------------------------
(* The list sample as an instance for TLC: five users at any of five        *)
(* addresses, with empty carts, full ones and one item, of the longest name.*)
EXTENDS UserList, TLC

MCCarts == {[k \in 1 .. n |-> 10] : n \in {0, 1, MAX_CART_SIZE}}
AddrSymmetry == Permutations(Addrs)
=============================================================================
