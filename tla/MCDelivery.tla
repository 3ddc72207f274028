----------------------------- MODULE MCDelivery ----------------------------
(***************************************************************************)
(* Instances of Delivery: a sends, b receives, x is the mailbox of b.  The *)
(* envelope of a message follows from its name.                            *)
(***************************************************************************)
EXTENDS Delivery

CONSTANTS a, b, x,         \* nodes
          b1, b2,          \* normal messages to b, b2 made a second later
          big,             \* a message to b that is longer than MAX_PKG
          bare,            \* a normal message to b that names no mailbox
          grp,             \* a group message, of a group kept by x
          sys,             \* a message of a type SendMsg does not know
          t1, t2           \* sessions on b

MCMail == [n \in Nodes |-> IF n = b THEN x ELSE NoId]
MCFrom == [m \in Msgs |-> a]
MCTo == [m \in Msgs |-> CASE m = bare -> <<b>> [] m = grp -> <<>>
                          [] OTHER -> <<b, x>>]
MCGid == [m \in Msgs |-> IF m = grp THEN <<a, x>> ELSE <<>>]
MCType == [m \in Msgs |-> CASE m = grp -> "GroupMsg" [] m = sys -> "OtherMsg"
                            [] OTHER -> "NormalMsg"]
MCSentAt == [m \in Msgs |-> IF m = b2 THEN 2300 ELSE 1100]
MCOverPkg == {big} \cap Msgs
MCHome == [s \in Sessions |-> b]

Symmetry == Permutations({t1, t2} \cap Sessions)
=============================================================================
