------------------------------ MODULE Courier ------------------------------
(***************************************************************************)
(* What sending and /chat promise together, without the mechanism: an     *)
(* outcome for each call of SendMsg, and on each session a stream of       *)
(* messages, each tagged with where it came from ("mail": fetched offline  *)
(* messages, "live": pushed as they arrive).                               *)
(***************************************************************************)
EXTENDS Types

CONSTANT Home   \* the node a session is opened on

VARIABLES
  status,   \* outcome of SendMsg for each message
  got       \* what the client of each session has received, <<source, msg>>

courierVars == <<status, got>>

CourierInit ==
  /\ status = [m \in Msgs |-> "new"]
  /\ got = [s \in Sessions |-> <<>>]

Begin(m) ==
  /\ status[m] = "new"
  /\ \E r \in {"sending", "err"} : status' = [status EXCEPT ![m] = r]
  /\ UNCHANGED got

Settle(S) ==
  /\ S # {} /\ \A m \in S : status[m] = "sending"
  /\ \E r \in {"ok", "err", "dead"} :
       status' = [m \in Msgs |-> IF m \in S THEN r ELSE status[m]]
  /\ UNCHANGED got

\* Offline messages come first, in the order of Ct; the live ones may come
\* in any order; each source hands a message over at most once, and only to
\* a session of the node it is addressed to.
Hand(s, src, m) ==
  LET seen == ToSet(got[s]) IN
  /\ status[m] # "new"
  /\ Peerid(To[m]) = Home[s]
  /\ <<src, m>> \notin seen
  /\ src = "mail" => \A e \in seen : e[1] = "mail" /\ ~Less(m, e[2])
  /\ got' = [got EXCEPT ![s] = Append(@, <<src, m>>)]
  /\ UNCHANGED status

CourierNext ==
  \/ \E m \in Msgs : Begin(m)
  \/ \E S \in SUBSET Msgs : Settle(S)
  \/ \E s \in Sessions, m \in Msgs, src \in {"mail", "live"} : Hand(s, src, m)

CourierSpec == CourierInit /\ [][CourierNext]_courierVars
=============================================================================
