---------------------------- MODULE CourierProofs ----------------------------
(***************************************************************************)
(* Delivery implements Courier, for any nodes, messages, sessions and      *)
(* process ends: every step of the whole path is one step of Courier or    *)
(* none, with the outcome of SendMsg for the status of a message and what  *)
(* the sockets have carried for what the clients got.                      *)
(***************************************************************************)
EXTENDS DeliveryProofs

\* The refinement mapping of the status.
Status == [m \in Msgs |-> IF snd[m] \in {"direct", "mailbox"} THEN "sending" ELSE snd[m]]

-----------------------------------------------------------------------------
(* The actions of Courier, in terms of the mapping.                        *)

LEMMA Begins ==
  ASSUME NEW m \in Msgs, Status[m] = "new", NEW r \in {"sending", "err"},
         Status' = [Status EXCEPT ![m] = r], UNCHANGED sock
  PROVE  Abstract!CourierNext
<1>1. Abstract!Begin(m)
  BY DEF Abstract!Begin, Status
<1> QED
  BY <1>1 DEF Abstract!CourierNext

LEMMA Settles ==
  ASSUME NEW S \in SUBSET Msgs, S # {}, \A m \in S : Status[m] = "sending",
         NEW r \in {"ok", "err", "dead"},
         Status' = [m \in Msgs |-> IF m \in S THEN r ELSE Status[m]], UNCHANGED sock
  PROVE  Abstract!CourierNext
<1>1. Abstract!Settle(S)
  BY DEF Abstract!Settle, Status
<1> QED
  BY <1>1 DEF Abstract!CourierNext

LEMMA Hands ==
  ASSUME NEW s \in Sessions, NEW m \in Msgs, NEW src \in {"mail", "live"},
         Status[m] # "new", Peerid(To[m]) = Home[s],
         <<src, m>> \notin ToSet(sock[s]),
         src = "mail" => \A e \in ToSet(sock[s]) : e[1] = "mail" /\ ~Less(m, e[2]),
         sock' = [sock EXCEPT ![s] = Append(sock[s], <<src, m>>)],
         UNCHANGED snd
  PROVE  Abstract!CourierNext
<1>1. Abstract!Hand(s, src, m)
  BY DEF Abstract!Hand, Status, Abstract!ToSet, ToSet, Abstract!Peerid, Peerid,
    Abstract!Less, Less, Abstract!Ct, Ct
<1> QED
  BY <1>1 DEF Abstract!CourierNext

-----------------------------------------------------------------------------
(* The steps of Delivery.                                                  *)

\* One call of SendMsg moves: it begins, or it settles alone.
LEMMA SendingCourier ==
  ASSUME SendTyped, NEW m \in Msgs, Sending(m)
  PROVE  Abstract!CourierNext \/ UNCHANGED <<Status, sock>>
<1>0. snd \in [Msgs -> SendStates] /\ UNCHANGED sock
  BY DEF SendTyped, Sending, SendMsg, SendRefused, SendOk, SendFallback, SendFail, wsVars
<1>1. ASSUME NEW st \in SendStates, SendTo(m, st)
      PROVE  Status' = [Status EXCEPT ![m] = IF st \in {"direct", "mailbox"} THEN "sending" ELSE st]
  BY <1>0, <1>1 DEF SendTo, Status
<1>2. CASE SendMsg(m)
  <2>1. Status[m] = "new" /\ Status' = [Status EXCEPT ![m] = "sending"]
    BY <1>1, <1>2 DEF SendMsg, Status, SendStates
  <2> QED
    BY <1>0, <2>1, Begins
<1>3. CASE SendRefused(m)
  <2>1. Status[m] = "new" /\ Status' = [Status EXCEPT ![m] = "err"]
    BY <1>1, <1>3 DEF SendRefused, Status, SendStates
  <2> QED
    BY <1>0, <2>1, Begins
<1>4. CASE SendFallback(m)
  <2>1. Status[m] = "sending" /\ Status' = [Status EXCEPT ![m] = "sending"]
    BY <1>1, <1>4 DEF SendFallback, Status, SendStates
  <2>2. Status = [k \in Msgs |-> Status[k]]
    BY DEF Status
  <2> QED
    BY <1>0, <2>1, <2>2
<1>5. CASE SendOk(m) \/ SendFail(m)
  <2>1. PICK r \in {"ok", "err"} : SendTo(m, r)
    BY <1>5 DEF SendOk, SendFail
  <2>2. Status[m] = "sending" /\ Status' = [Status EXCEPT ![m] = r]
    BY <1>1, <1>5, <2>1 DEF SendOk, SendFail, Status, SendStates
  <2>3. Status' = [k \in Msgs |-> IF k \in {m} THEN r ELSE Status[k]]
    BY <2>2 DEF Status
  <2>4. {m} \in SUBSET Msgs /\ {m} # {} /\ \A k \in {m} : Status[k] = "sending"
    BY <2>2
  <2> QED
    BY <1>0, <2>3, <2>4, Settles
<1> QED
  BY <1>2, <1>3, <1>4, <1>5 DEF Sending

\* The calls of a process that ends die together.
LEMMA EndCourier ==
  ASSUME NEW n \in Nodes, ProcessEnd(n)
  PROVE  Abstract!CourierNext \/ UNCHANGED <<Status, sock>>
<1> DEFINE S == {m \in Msgs : From[m] = n /\ snd[m] \in {"direct", "mailbox"}}
<1>1. UNCHANGED sock /\ Status' = [m \in Msgs |-> IF m \in S THEN "dead" ELSE Status[m]]
  BY DEF ProcessEnd, WsCrash, Status
<1>2. \A m \in S : Status[m] = "sending"
  BY DEF Status
<1>3. CASE S = {}
  BY <1>1, <1>3 DEF Status
<1>4. CASE S # {}
  <2> HIDE DEF S
  <2>1. S \in SUBSET Msgs
    BY DEF S
  <2> QED
    BY <1>1, <1>2, <1>4, <2>1, Settles
<1> QED
  BY <1>3, <1>4

\* The next offline message: it has not been written before, nothing written
\* is newer, and no handler of the session has run yet.
LEMMA PushCourier ==
  ASSUME DeliveryInv, NEW s \in Sessions, Push(s), UNCHANGED snd
  PROVE  Abstract!CourierNext \/ UNCHANGED <<Status, sock>>
<1> DEFINE m == Head(bag[s])
<1>0. /\ bag[s] \in Seq(Msgs) /\ bag[s] # <<>> /\ Ordered(bag[s])
      /\ sock \in [Sessions -> Seq({"mail", "live"} \X Msgs)] /\ Home[s] \in Nodes
      /\ spc[s] = "push" /\ Write(s, "mail", m)
  BY SessionAssumption DEF DeliveryInv, WsTyped, BagInv, Push
<1>1. m \in Msgs /\ m \in ToSet(bag[s])
  BY <1>0, OrderedTail
<1> HIDE DEF m
<1>2. CASE ~ws[s]
  BY <1>0, <1>2 DEF Write, Status
<1>3. CASE ws[s]
  <2>1. sock' = [sock EXCEPT ![s] = Append(sock[s], <<"mail", m>>)]
    BY <1>0, <1>3 DEF Write
  <2>2. snd[m] # "new" /\ Peerid(To[m]) = Home[s]
    BY <1>1 DEF DeliveryInv, BagInv
  <2>3. Status[m] # "new"
    BY <1>1, <2>2 DEF Status
  <2>4. <<"mail", m>> \notin ToSet(sock[s])
    BY <1>1 DEF DeliveryInv, SockInv, BagInv
  <2>5. ASSUME NEW e \in ToSet(sock[s]) PROVE e[1] = "mail" /\ ~Less(m, e[2])
    <3>1. e \in {"mail", "live"} \X Msgs
      BY <1>0, <2>5 DEF ToSet
    <3>2. PICK src \in {"mail", "live"}, k \in Msgs : e = <<src, k>>
      BY <3>1
    <3>3. src # "live"
      <4>1. fn[Home[s]][s] = "fresh"
        BY <1>0 DEF DeliveryInv, RegisteredInv
      <4>2. <<s, k>> \notin ran[Home[s]]
        BY <1>0, <4>1 DEF DeliveryInv, ChatInv, DispatchInv
      <4> QED
        BY <2>5, <3>2, <4>2 DEF DeliveryInv, SockInv
    <3>4. k \in ToSet(ids[s])
      BY <2>5, <3>2, <3>3 DEF DeliveryInv, SockInv
    <3>5. ~Less(m, k)
      BY <1>1, <3>4 DEF DeliveryInv, BagInv
    <3> QED
      BY <3>2, <3>3, <3>5
  <2> QED
    BY <1>1, <2>1, <2>2, <2>3, <2>4, <2>5, Hands
<1> QED
  BY <1>2, <1>3

\* A handler runs once for a message, on the node it was addressed to.
LEMMA LiveCourier ==
  ASSUME DeliveryInv, NEW s \in Sessions, NEW m \in Msgs, SessionLive(s, m)
  PROVE  Abstract!CourierNext \/ UNCHANGED <<Status, sock>>
<1>0. /\ Home[s] \in Nodes /\ UNCHANGED snd /\ Write(s, "live", m)
      /\ <<s, m>> \in spawned[Home[s]] /\ <<s, m>> \notin ran[Home[s]]
  BY SessionAssumption DEF SessionLive, RunHandler, LiveWrite
<1>1. CASE ~ws[s]
  BY <1>0, <1>1 DEF Write, Status
<1>2. CASE ws[s]
  <2>1. sock' = [sock EXCEPT ![s] = Append(sock[s], <<"live", m>>)]
    BY <1>0, <1>2 DEF Write
  <2>2. inbox[Home[s]][m] = "taken"
    BY <1>0 DEF DeliveryInv, ChatInv, DispatchInv
  <2>3. Peerid(To[m]) = Home[s] /\ Status[m] # "new"
    BY <1>0, <2>2 DEF DeliveryInv, RequestsInv, Status
  <2>4. <<"live", m>> \notin ToSet(sock[s])
    BY <1>0 DEF DeliveryInv, SockInv
  <2> QED
    BY <1>0, <2>1, <2>3, <2>4, Hands
<1> QED
  BY <1>1, <1>2

\* All other steps do not show.
LEMMA CourierStep ==
  ASSUME DeliveryInv, [Next]_vars
  PROVE  [Abstract!CourierNext]_(Abstract!courierVars)
<1>1. UNCHANGED <<Status, sock>> => UNCHANGED Abstract!courierVars
  BY DEF Abstract!courierVars, Status
<1>2. CASE UNCHANGED <<snd, sock>>
  BY <1>1, <1>2 DEF Status
<1>3. CASE \E m \in Msgs : Sending(m)
  BY <1>1, <1>3, SendingCourier DEF DeliveryInv
<1>4. CASE \E n \in Nodes : ProcessEnd(n)
  BY <1>1, <1>4, EndCourier
<1>5. CASE \E s \in Sessions : Push(s) /\ UNCHANGED snd
  BY <1>1, <1>5, PushCourier
<1>6. CASE \E s \in Sessions, m \in Msgs : SessionLive(s, m)
  BY <1>1, <1>6, LiveCourier
<1>7. \/ UNCHANGED <<snd, sock>>
      \/ \E m \in Msgs : Sending(m)
      \/ \E n \in Nodes : ProcessEnd(n)
      \/ \E s \in Sessions : Push(s) /\ UNCHANGED snd
      \/ \E s \in Sessions, m \in Msgs : SessionLive(s, m)
  BY Steps DEF vars, wsVars, ServeWs, Open, Reject, CleanEnd, ClientClose, SessionQuery, QueryErr,
    QueryOk, SessionClean, PushEnd, SessionRegister, Register, SessionEnd, LoopEnd
<1> QED
  BY <1>2, <1>3, <1>4, <1>5, <1>6, <1>7

-----------------------------------------------------------------------------

\* Sending and /chat together keep what Courier promises: one outcome for
\* each call of SendMsg, and on each connection the offline messages in their
\* order, before any live one, each handed over at most once and only on the
\* node it was addressed to, whatever is lost, late, repeated or ended.
THEOREM DeliveryImplementsCourier == Spec => ImplementsCourier
<1>1. Init => Abstract!CourierInit
  BY DEF Init, WsInit, Abstract!CourierInit
<1> QED
  BY <1>1, CourierStep, DeliveryInvariant, PTL DEF Spec, ImplementsCourier, Abstract!CourierSpec
=============================================================================
