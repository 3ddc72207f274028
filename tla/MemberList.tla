----------------------------- MODULE MemberList -----------------------------
(***************************************************************************)
(* What a mailbox node keeps of a group, without the items and their       *)
(* links: a list of members.  Each request is a few operations on it, done *)
(* in their order, once and at one stroke: a first member when there is    *)
(* none, a new member at the end, a member taken out.  The first one       *)
(* stays.                                                                  *)
(***************************************************************************)
EXTENDS Naturals, Sequences

CONSTANTS Gids, Nodes, Reqs,
          Ops   \* the operations of a request: [op |-> .., gid |-> .., id |-> ..]

VARIABLES
  list,     \* the members of each group
  served,   \* how many operations of each request have been done
  lost      \* the database has failed: nothing is promised any more

listVars == <<list, served, lost>>

Empty == list = [g \in Gids |-> <<>>] /\ served = [r \in Reqs |-> 0]

ListInit == Empty /\ lost = FALSE

Listed(g, i) == \E k \in DOMAIN list[g] : list[g][k] = i

First(g, i) == IF list[g] = <<>> THEN <<i>> ELSE list[g]

\* A member cannot be added twice, and the first one not be taken out.
Apply(r) ==
  /\ ~lost /\ served[r] < Len(Ops[r])
  /\ LET o == Ops[r][served[r] + 1]
         without == SelectSeq(list[o.gid], LAMBDA i : i # o.id)
     IN /\ o.op = "+" => ~Listed(o.gid, o.id)
        /\ list' = [list EXCEPT ![o.gid] =
                     CASE o.op = "first" -> First(o.gid, o.id)
                       [] o.op = "+" -> Append(@, o.id)
                       [] OTHER -> IF @ # <<>> /\ Head(@) # o.id THEN without ELSE @]
  /\ served' = [served EXCEPT ![r] = @ + 1]
  /\ UNCHANGED lost

Lose == lost' = TRUE /\ Empty'

ListNext == Lose \/ \E r \in Reqs : Apply(r)

ListSpec == ListInit /\ [][ListNext]_listVars
=============================================================================
