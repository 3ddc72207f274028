----------------------------- MODULE MCGateway ------------------------------
(* An instance of Gateway: the fields of a call follow from its name.      *)
EXTENDS Gateway

CONSTANTS u, x, h,        \* a peer, a mailbox, a group
          au, au2,        \* auth, twice; the deletes carry the token of au2
          bad,            \* auth with a wrong password
          put, del,       \* calls for u; put names u with its mailbox
          create, delh,   \* the creation of h, and a delete of its row
          get             \* a read of the row of u

MCMethod == [c \in Calls |->
  CASE c \in {au, au2, bad} -> "auth"
    [] c = put -> "user_put"
    [] c \in {del, delh} -> "user_del"
    [] c = create -> "group_create"
    [] OTHER -> "user_get"]
MCShape == [c \in Calls |-> "good"]
MCTokenOf == [c \in Calls |-> CASE c \in {au, au2, bad} -> NoCall
                              [] c \in {del, delh} -> au2 [] OTHER -> au]
MCGoodPwd == {au, au2} \cap Calls
MCById == {put} \cap Calls
MCKey == [c \in Calls |-> CASE c \in {create, delh} -> <<h, x>> [] c = put -> <<u, x>>
                           [] OTHER -> <<u>>]
=============================================================================
