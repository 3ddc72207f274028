------------------------- MODULE ChatServiceProofs --------------------------
(***************************************************************************)
(* Proofs about ChatService, for any nodes, messages, sessions and any     *)
(* capacity of the channel: its type invariant, that the channel holds     *)
(* each queued message once, and that the dispatcher calls every handler   *)
(* once per message although registrations race with its range.            *)
(***************************************************************************)
EXTENDS ChatService, SequenceTheorems, TLAPS

\* What the dispatcher keeps true besides DispatchComplete and AtMostOneCall:
\* only a message off the channel is dispatched, and only to a handler that
\* was registered at some time.
DispatchInv ==
  \A n \in Nodes :
    /\ ran[n] \subseteq spawned[n]
    /\ loop[n] = "range" => inbox[n][cur[n]] = "taken"
    /\ todo[n] # {} => loop[n] = "range"
    /\ \A f \in Sessions : f \in todo[n] => fn[n][f] # "fresh"
    /\ \A f \in Sessions, m \in Msgs :
         /\ <<f, m>> \in spawned[n] => inbox[n][m] = "taken" /\ fn[n][f] # "fresh"
         /\ <<f, m>> \in due[n] => fn[n][f] # "fresh"

\* The inductive invariant.
ChatInv == ChatTypeOK /\ QueuedOnce /\ DispatchInv /\ DispatchComplete /\ AtMostOneCall

-----------------------------------------------------------------------------
(* Facts about the channel.                                                *)

\* The sender puts a message at the end of the channel: what the channel
\* holds grows by that message, and stays without repetition.
LEMMA AppendFacts ==
  ASSUME NEW q \in Seq(Msgs), NEW m \in Msgs
  PROVE  /\ Append(q, m) \in Seq(Msgs)
         /\ Len(Append(q, m)) = Len(q) + 1
         /\ ToSet(Append(q, m)) = ToSet(q) \cup {m}
         /\ IsInjective(q) /\ m \notin ToSet(q) => IsInjective(Append(q, m))
<1>1. /\ Append(q, m) \in Seq(Msgs)
      /\ Len(Append(q, m)) = Len(q) + 1
      /\ \A i \in 1 .. Len(q) : Append(q, m)[i] = q[i]
      /\ Append(q, m)[Len(q) + 1] = m
  BY AppendProperties
<1>2. DOMAIN Append(q, m) = 1 .. Len(q) + 1 /\ DOMAIN q = 1 .. Len(q) /\ Len(q) \in Nat
  BY <1>1, LenProperties
<1>3. ToSet(Append(q, m)) = ToSet(q) \cup {m}
  BY <1>1, <1>2 DEF ToSet
<1>4. IsInjective(q) /\ m \notin ToSet(q) => IsInjective(Append(q, m))
  BY <1>1, <1>2 DEF ToSet, IsInjective
<1> QED
  BY <1>1, <1>3, <1>4

\* The dispatcher takes the message at the head: what the channel holds
\* shrinks by that message only.
LEMMA TakeFacts ==
  ASSUME NEW q \in Seq(Msgs), q # <<>>, IsInjective(q)
  PROVE  /\ Head(q) \in ToSet(q)
         /\ Head(q) \in Msgs
         /\ Tail(q) \in Seq(Msgs)
         /\ Len(Tail(q)) = Len(q) - 1
         /\ ToSet(Tail(q)) = ToSet(q) \ {Head(q)}
         /\ IsInjective(Tail(q))
<1>1. /\ Head(q) \in Msgs /\ Head(q) = q[1]
      /\ Tail(q) \in Seq(Msgs)
      /\ Len(Tail(q)) = Len(q) - 1
      /\ \A i \in 1 .. Len(q) - 1 : Tail(q)[i] = q[i + 1]
  BY HeadTailProperties
<1>2. /\ DOMAIN q = 1 .. Len(q) /\ Len(q) \in Nat \ {0}
      /\ DOMAIN Tail(q) = 1 .. Len(q) - 1
  BY <1>1, LenProperties, EmptySeq
<1>3. Head(q) \in ToSet(q)
  BY <1>1, <1>2 DEF ToSet
<1>4. IsInjective(Tail(q))
  BY <1>1, <1>2 DEF IsInjective
<1>5. ToSet(Tail(q)) = ToSet(q) \ {Head(q)}
  <2>1. ASSUME NEW e \in ToSet(Tail(q)) PROVE e \in ToSet(q) \ {Head(q)}
    BY <1>1, <1>2 DEF ToSet, IsInjective
  <2>2. ASSUME NEW e \in ToSet(q) \ {Head(q)} PROVE e \in ToSet(Tail(q))
    <3>1. PICK i \in 1 .. Len(q) : e = q[i] /\ i # 1
      BY <1>1, <1>2 DEF ToSet
    <3>2. i - 1 \in 1 .. Len(q) - 1 /\ Tail(q)[i - 1] = q[i]
      BY <1>1, <1>2, <3>1
    <3> QED
      BY <1>2, <3>1, <3>2 DEF ToSet
  <2> QED
    BY <2>1, <2>2
<1> QED
  BY <1>1, <1>3, <1>4, <1>5

-----------------------------------------------------------------------------
(* Type correctness.                                                       *)

\* Every step of a node keeps the type of the state and the bound on the
\* channel.
LEMMA TypeStep == ChatTypeOK /\ QueuedOnce /\ [ChatNext]_chatVars => ChatTypeOK'
<1> SUFFICES ASSUME ChatTypeOK, QueuedOnce, [ChatNext]_chatVars PROVE ChatTypeOK'
  OBVIOUS
<1> USE ChatAssumption DEF ChatTypeOK, InboxStates
<1>1. CASE UNCHANGED chatVars
  BY <1>1 DEF chatVars
<1>2. ASSUME NEW n \in Nodes, ChatNode(n) PROVE ChatTypeOK'
  <2>1. ASSUME NEW m \in Msgs, RequestNormal(n, m) PROVE ChatTypeOK'
    BY <2>1 DEF RequestNormal
  <2>2. ASSUME NEW m \in Msgs, Receive(n, m) PROVE ChatTypeOK'
    BY <2>2 DEF Receive
  <2>3. ASSUME NEW m \in Msgs, Enqueue(n, m) PROVE ChatTypeOK'
    <3>1. Append(recvMsgCh[n], m) \in Seq(Msgs) /\ Len(Append(recvMsgCh[n], m)) <= Cap
      BY <2>3, AppendFacts, LenProperties DEF Enqueue
    <3> QED
      BY <2>3, <3>1 DEF Enqueue
  <2>4. ASSUME NEW m \in Msgs, DropOnStop(n, m) PROVE ChatTypeOK'
    BY <2>4 DEF DropOnStop
  <2>5. CASE Take(n)
    <3>1. /\ Head(recvMsgCh[n]) \in Msgs
          /\ Tail(recvMsgCh[n]) \in Seq(Msgs) /\ Len(Tail(recvMsgCh[n])) <= Cap
      BY <2>5, TakeFacts, LenProperties DEF Take, QueuedOnce
    <3> QED
      BY <2>5, <3>1 DEF Take, handleMsgFn
  <2>6. CASE RangeEnd(n)
    BY <2>6 DEF RangeEnd
  <2>7. CASE DispatcherExit(n)
    BY <2>7 DEF DispatcherExit
  <2>8. ASSUME NEW f \in Sessions, Spawn(n, f) PROVE ChatTypeOK'
    BY <2>8 DEF Spawn
  <2>9. ASSUME NEW f \in Sessions, AppendHandleMsg(n, f) PROVE ChatTypeOK'
    <3>1. todo' \in [Nodes -> SUBSET Sessions]
      <4>1. CASE UNCHANGED todo
        BY <4>1
      <4>2. CASE todo' = [todo EXCEPT ![n] = @ \cup {f}]
        BY <4>2
      <4> QED
        BY <2>9, <4>1, <4>2 DEF AppendHandleMsg
    <3>2. fn' \in [Nodes -> [Sessions -> {"fresh", "in", "out"}]]
      BY <2>9 DEF AppendHandleMsg
    <3> QED
      BY <2>9, <3>1, <3>2 DEF AppendHandleMsg
  <2>10. ASSUME NEW f \in Sessions, DropHandleMsg(n, f) PROVE ChatTypeOK'
    <3>1. todo' \in [Nodes -> SUBSET Sessions]
      <4>1. CASE UNCHANGED todo
        BY <4>1
      <4>2. CASE todo' = [todo EXCEPT ![n] = @ \ {f}]
        BY <4>2
      <4> QED
        BY <2>10, <4>1, <4>2 DEF DropHandleMsg
    <3>2. fn' \in [Nodes -> [Sessions -> {"fresh", "in", "out"}]]
      BY <2>10 DEF DropHandleMsg
    <3> QED
      BY <2>10, <3>1, <3>2 DEF DropHandleMsg
  <2>11. ASSUME NEW f \in Sessions, NEW m \in Msgs, RunHandler(n, f, m) PROVE ChatTypeOK'
    BY <2>11 DEF RunHandler
  <2>12. CASE Stop(n)
    BY <2>12 DEF Stop
  <2>13. CASE Crash(n)
    <3>1. <<>> \in Seq(Msgs) /\ Len(<<>>) <= Cap
      BY EmptySeq
    <3> QED
      BY <2>13, <3>1 DEF Crash
  <2> QED
    BY <1>2, <2>1, <2>2, <2>3, <2>4, <2>5, <2>6, <2>7, <2>8, <2>9, <2>10,
       <2>11, <2>12, <2>13 DEF ChatNode
<1> QED
  BY <1>1, <1>2 DEF ChatNext

-----------------------------------------------------------------------------
(* The channel.                                                            *)

\* Only Enqueue, Take and the end of the process touch the channel or move a
\* message into or out of the state "queued", and each does both.
LEMMA QueuedStep == ChatTypeOK /\ QueuedOnce /\ [ChatNext]_chatVars => QueuedOnce'
<1> SUFFICES ASSUME ChatTypeOK, QueuedOnce, [ChatNext]_chatVars PROVE QueuedOnce'
  OBVIOUS
<1>1. CASE UNCHANGED <<recvMsgCh, inbox>>
  BY <1>1 DEF QueuedOnce
<1>2. ASSUME NEW n \in Nodes, ChatNode(n) PROVE QueuedOnce'
  <2>1. ASSUME UNCHANGED recvMsgCh,
               NEW m \in Msgs, NEW st \in InboxStates,
               inbox' = [inbox EXCEPT ![n][m] = st],
               inbox[n][m] # "queued", st # "queued"
        PROVE  QueuedOnce'
    BY <2>1 DEF ChatTypeOK, QueuedOnce
  <2>2. ASSUME NEW m \in Msgs, RequestNormal(n, m) PROVE QueuedOnce'
    BY <2>1, <2>2 DEF RequestNormal, InboxStates
  <2>3. ASSUME NEW m \in Msgs, Receive(n, m) PROVE QueuedOnce'
    BY <2>1, <2>3 DEF Receive, InboxStates
  <2>4. ASSUME NEW m \in Msgs, DropOnStop(n, m) PROVE QueuedOnce'
    BY <2>1, <2>4 DEF DropOnStop, InboxStates
  <2>5. ASSUME NEW m \in Msgs, Enqueue(n, m) PROVE QueuedOnce'
    <3>1. m \notin ToSet(recvMsgCh[n])
      BY <2>5 DEF Enqueue, QueuedOnce
    <3>2. /\ ToSet(Append(recvMsgCh[n], m)) = ToSet(recvMsgCh[n]) \cup {m}
          /\ IsInjective(Append(recvMsgCh[n], m))
      BY <3>1, AppendFacts DEF ChatTypeOK, QueuedOnce
    <3> QED
      BY <2>5, <3>2 DEF Enqueue, ChatTypeOK, QueuedOnce
  <2>6. CASE Take(n)
    <3> DEFINE m == Head(recvMsgCh[n])
    <3>1. /\ recvMsgCh[n] \in Seq(Msgs) /\ recvMsgCh[n] # <<>>
          /\ IsInjective(recvMsgCh[n])
          /\ recvMsgCh' = [recvMsgCh EXCEPT ![n] = Tail(@)]
          /\ inbox' = [inbox EXCEPT ![n][m] = "taken"]
      BY <2>6 DEF Take, ChatTypeOK, QueuedOnce
    <3>2. /\ m \in Msgs
          /\ ToSet(Tail(recvMsgCh[n])) = ToSet(recvMsgCh[n]) \ {m}
          /\ IsInjective(Tail(recvMsgCh[n]))
      BY <3>1, TakeFacts
    <3> HIDE DEF m
    <3> QED
      BY <3>1, <3>2 DEF ChatTypeOK, QueuedOnce
  <2>7. CASE Crash(n)
    <3>1. ToSet(<<>>) = {} /\ IsInjective(<<>>)
      BY DEF ToSet, IsInjective
    <3>2. ASSUME NEW k \in Nodes
          PROVE  /\ ToSet(recvMsgCh'[k]) = {m \in Msgs : inbox'[k][m] = "queued"}
                 /\ IsInjective(recvMsgCh'[k])
      <4>1. CASE k = n
        BY <2>7, <3>1, <4>1 DEF Crash, ChatTypeOK
      <4>2. CASE k # n
        BY <2>7, <4>2 DEF Crash, ChatTypeOK, QueuedOnce
      <4> QED
        BY <4>1, <4>2
    <3> QED
      BY <3>2 DEF QueuedOnce
  <2>8. CASE RangeEnd(n) \/ DispatcherExit(n) \/ Stop(n)
    BY <1>1, <2>8 DEF RangeEnd, DispatcherExit, Stop
  <2>9. CASE \E f \in Sessions : \/ Spawn(n, f)
                                \/ AppendHandleMsg(n, f)
                                \/ DropHandleMsg(n, f)
                                \/ \E m \in Msgs : RunHandler(n, f, m)
    BY <1>1, <2>9 DEF Spawn, AppendHandleMsg, DropHandleMsg, RunHandler
  <2> QED
    BY <1>2, <2>2, <2>3, <2>4, <2>5, <2>6, <2>7, <2>8, <2>9 DEF ChatNode
<1> QED
  BY <1>1, <1>2 DEF ChatNext, chatVars

-----------------------------------------------------------------------------
(* The dispatcher.                                                         *)

DispatchAll == DispatchInv /\ DispatchComplete /\ AtMostOneCall

\* The steps that concern neither the dispatcher nor the registrations.
LEMMA DispatchQuiet ==
  ASSUME ChatTypeOK, DispatchAll, NEW n \in Nodes,
         UNCHANGED <<fn, loop, cur, todo, spawned, due>>,
         \A k \in Nodes : ran'[k] \subseteq spawned[k],
         \A k \in Nodes, m \in Msgs : inbox[k][m] = "taken" => inbox'[k][m] = "taken"
  PROVE  DispatchAll'
BY DEF DispatchAll, DispatchInv, DispatchComplete, AtMostOneCall, ChatTypeOK

\* Every step keeps the dispatcher's books: a message is dispatched for the
\* first time when it leaves the channel, a handler is visited at most once
\* in a range, and one that is skipped has been dropped.
LEMMA DispatcherStep ==
  ChatTypeOK /\ QueuedOnce /\ DispatchAll /\ [ChatNext]_chatVars => DispatchAll'
<1> SUFFICES ASSUME ChatTypeOK, QueuedOnce, DispatchAll, [ChatNext]_chatVars
             PROVE  DispatchAll'
  OBVIOUS
<1> USE DEF DispatchAll, DispatchInv, DispatchComplete, AtMostOneCall
<1>1. CASE UNCHANGED chatVars
  BY <1>1 DEF chatVars
<1>2. ASSUME NEW n \in Nodes, ChatNode(n) PROVE DispatchAll'
  <2>1. CASE \E m \in Msgs : \/ RequestNormal(n, m) \/ Receive(n, m)
                             \/ Enqueue(n, m) \/ DropOnStop(n, m)
    <3>1. UNCHANGED <<fn, loop, cur, todo, spawned, due, ran>>
      BY <2>1 DEF RequestNormal, Receive, Enqueue, DropOnStop
    <3>2. \A k \in Nodes, m \in Msgs : inbox[k][m] = "taken" => inbox'[k][m] = "taken"
      <4>1. ASSUME NEW m \in Msgs, NEW st, inbox' = [inbox EXCEPT ![n][m] = st],
                   inbox[n][m] # "taken"
            PROVE  \A k \in Nodes, e \in Msgs : inbox[k][e] = "taken" => inbox'[k][e] = "taken"
        BY <4>1 DEF ChatTypeOK
      <4>2. PICK m \in Msgs : \/ RequestNormal(n, m) \/ Receive(n, m)
                              \/ Enqueue(n, m) \/ DropOnStop(n, m)
        BY <2>1
      <4>3. /\ inbox[n][m] # "taken"
            /\ \E st : inbox' = [inbox EXCEPT ![n][m] = st]
        BY <4>2 DEF RequestNormal, Receive, Enqueue, DropOnStop
      <4> QED
        BY <4>1, <4>3
    <3> QED
      BY <3>1, <3>2, DispatchQuiet
  <2>2. CASE Stop(n)
    BY <2>2, DispatchQuiet DEF Stop
  <2>3. ASSUME NEW f \in Sessions, NEW m \in Msgs, RunHandler(n, f, m) PROVE DispatchAll'
    <3>1. ASSUME NEW k \in Nodes PROVE ran'[k] \subseteq spawned[k]
      <4>1. <<f, m>> \in spawned[n] /\ ran' = [ran EXCEPT ![n] = @ \cup {<<f, m>>}]
        BY <2>3 DEF RunHandler
      <4>2. CASE k = n
        <5>1. ran'[n] = ran[n] \cup {<<f, m>>}
          BY <4>1 DEF ChatTypeOK
        <5>2. ran[n] \subseteq spawned[n]
          OBVIOUS
        <5> QED
          BY <4>1, <4>2, <5>1, <5>2
      <4>3. CASE k # n
        BY <4>1, <4>3 DEF ChatTypeOK
      <4> QED
        BY <4>2, <4>3
    <3> QED
      BY <2>3, <3>1, DispatchQuiet DEF RunHandler
  <2>4. CASE Take(n)
    <3> DEFINE m == Head(recvMsgCh[n])
    <3>1. /\ m \in Msgs /\ inbox[n][m] = "queued"
      BY <2>4, TakeFacts DEF Take, QueuedOnce, ChatTypeOK
    <3>2. \A f \in Sessions : <<f, m>> \notin spawned[n]
      BY <3>1
    <3>3. /\ inbox' = [inbox EXCEPT ![n][m] = "taken"]
          /\ cur' = [cur EXCEPT ![n] = m]
          /\ todo' = [todo EXCEPT ![n] = handleMsgFn(n)]
          /\ loop' = [loop EXCEPT ![n] = "range"]
          /\ due' = [due EXCEPT ![n] = @ \cup (handleMsgFn(n) \X {m})]
          /\ cur[n] \notin Msgs
          /\ UNCHANGED <<fn, spawned, ran>>
      BY <2>4 DEF Take, ChatTypeOK
    <3> HIDE DEF m
    <3>4. DispatchInv'
      BY <3>1, <3>2, <3>3 DEF ChatTypeOK, handleMsgFn
    <3>5. DispatchComplete'
      <4>1. ASSUME NEW k \in Nodes, k # n, NEW f \in Sessions, NEW e \in Msgs,
                   <<f, e>> \in due'[k]
            PROVE  \/ <<f, e>> \in spawned'[k]
                   \/ cur'[k] = e /\ f \in todo'[k]
                   \/ fn'[k][f] = "out"
        BY <3>3, <4>1 DEF ChatTypeOK
      <4>2. ASSUME NEW f \in Sessions, NEW e \in Msgs, <<f, e>> \in due'[n]
            PROVE  \/ <<f, e>> \in spawned'[n]
                   \/ cur'[n] = e /\ f \in todo'[n]
                   \/ fn'[n][f] = "out"
        BY <3>1, <3>3, <4>2 DEF ChatTypeOK, handleMsgFn
      <4> QED
        BY <4>1, <4>2
    <3>6. AtMostOneCall'
      BY <3>1, <3>2, <3>3 DEF ChatTypeOK, handleMsgFn
    <3> QED
      BY <3>4, <3>5, <3>6
  <2>5. ASSUME NEW f \in Sessions, Spawn(n, f) PROVE DispatchAll'
    <3>1. /\ cur[n] \in Msgs
          /\ f \in todo[n] /\ loop[n] = "range"
          /\ spawned' = [spawned EXCEPT ![n] = @ \cup {<<f, cur[n]>>}]
          /\ todo' = [todo EXCEPT ![n] = @ \ {f}]
          /\ UNCHANGED <<inbox, fn, loop, cur, ran, due>>
      BY <2>5 DEF Spawn, ChatTypeOK
    <3>2. DispatchInv'
      BY <3>1 DEF ChatTypeOK
    <3>3. DispatchComplete'
      BY <3>1 DEF ChatTypeOK
    <3>4. AtMostOneCall'
      BY <3>1 DEF ChatTypeOK
    <3> QED
      BY <3>2, <3>3, <3>4
  <2>6. CASE RangeEnd(n)
    BY <2>6 DEF RangeEnd, ChatTypeOK
  <2>7. CASE DispatcherExit(n)
    BY <2>7 DEF DispatcherExit, ChatTypeOK
  <2>8. ASSUME NEW f \in Sessions, AppendHandleMsg(n, f) PROVE DispatchAll'
    <3>1. /\ fn[n][f] = "fresh" /\ fn' = [fn EXCEPT ![n][f] = "in"]
          /\ UNCHANGED <<inbox, loop, cur, spawned, ran, due>>
      BY <2>8 DEF AppendHandleMsg
    <3>2. \A k \in Nodes : \/ todo'[k] = todo[k]
                           \/ k = n /\ loop[k] = "range" /\ todo'[k] = todo[k] \cup {f}
      BY <2>8 DEF AppendHandleMsg, ChatTypeOK
    <3>3. \A m \in Msgs : <<f, m>> \notin spawned[n]
      BY <3>1
    <3>4. DispatchInv'
      BY <3>1, <3>2 DEF ChatTypeOK
    <3>5. DispatchComplete'
      BY <3>1, <3>2 DEF ChatTypeOK
    <3>6. ASSUME NEW k \in Nodes, NEW h \in Sessions, h \in todo'[k]
          PROVE  <<h, cur'[k]>> \notin spawned'[k]
      <4>1. CASE h \in todo[k]
        BY <3>1, <4>1
      <4>2. CASE h \notin todo[k]
        <5>1. k = n /\ h = f /\ loop[n] = "range"
          BY <3>2, <3>6, <4>2
        <5>2. cur[n] \in Msgs
          BY <5>1 DEF ChatTypeOK
        <5> QED
          BY <3>1, <3>3, <5>1, <5>2
      <4> QED
        BY <4>1, <4>2
    <3> QED
      BY <3>4, <3>5, <3>6
  <2>9. ASSUME NEW f \in Sessions, DropHandleMsg(n, f) PROVE DispatchAll'
    <3>1. /\ fn[n][f] = "in" /\ fn' = [fn EXCEPT ![n][f] = "out"]
          /\ UNCHANGED <<inbox, loop, cur, spawned, ran, due>>
      BY <2>9 DEF DropHandleMsg
    <3>2. \A k \in Nodes : \/ todo'[k] = todo[k]
                           \/ k = n /\ loop[k] = "range" /\ todo'[k] = todo[k] \ {f}
      BY <2>9 DEF DropHandleMsg, ChatTypeOK
    <3>3. DispatchInv'
      BY <3>1, <3>2 DEF ChatTypeOK
    <3>4. DispatchComplete'
      BY <3>1, <3>2 DEF ChatTypeOK
    <3>5. ASSUME NEW k \in Nodes, NEW h \in Sessions, h \in todo'[k]
          PROVE  <<h, cur'[k]>> \notin spawned'[k]
      <4>1. h \in todo[k]
        BY <3>2, <3>5
      <4> QED
        BY <3>1, <4>1
    <3> QED
      BY <3>3, <3>4, <3>5
  <2>10. CASE Crash(n)
    <3>1. /\ \A k \in Nodes : k # n => /\ inbox'[k] = inbox[k] /\ fn'[k] = fn[k]
                                       /\ loop'[k] = loop[k] /\ cur'[k] = cur[k]
                                       /\ todo'[k] = todo[k] /\ spawned'[k] = spawned[k]
          /\ loop'[n] = "select" /\ todo'[n] = {} /\ spawned'[n] = ran[n]
          /\ \A m \in Msgs : inbox[n][m] = "taken" => inbox'[n][m] = "taken"
          /\ \A f \in Sessions : /\ fn[n][f] # "fresh" => fn'[n][f] = "out"
          /\ UNCHANGED <<ran, due>>
      BY <2>10 DEF Crash, ChatTypeOK
    <3>2. ASSUME NEW k \in Nodes, k # n
          PROVE  /\ inbox'[k] = inbox[k] /\ fn'[k] = fn[k] /\ loop'[k] = loop[k]
                 /\ cur'[k] = cur[k] /\ todo'[k] = todo[k] /\ spawned'[k] = spawned[k]
                 /\ ran'[k] = ran[k] /\ due'[k] = due[k]
      BY <3>1, <3>2
    <3>3. ASSUME NEW k \in Nodes
          PROVE  /\ ran'[k] \subseteq spawned'[k]
                 /\ loop'[k] = "range" => inbox'[k][cur'[k]] = "taken"
                 /\ todo'[k] # {} => loop'[k] = "range"
      BY <3>1, <3>2
    <3>4. ASSUME NEW k \in Nodes, NEW f \in Sessions, f \in todo'[k]
          PROVE  fn'[k][f] # "fresh" /\ <<f, cur'[k]>> \notin spawned'[k]
      <4>1. k # n
        BY <3>1, <3>4
      <4> QED
        BY <3>2, <3>4, <4>1
    <3>5. ASSUME NEW k \in Nodes, NEW f \in Sessions, NEW m \in Msgs,
                 <<f, m>> \in spawned'[k]
          PROVE  inbox'[k][m] = "taken" /\ fn'[k][f] # "fresh"
      <4>1. <<f, m>> \in spawned[k]
        BY <3>1, <3>2, <3>5
      <4>2. inbox[k][m] = "taken" /\ fn[k][f] # "fresh"
        BY <4>1
      <4> QED
        BY <3>1, <3>2, <4>2
    <3>6. ASSUME NEW k \in Nodes, NEW f \in Sessions, NEW m \in Msgs,
                 <<f, m>> \in due'[k]
          PROVE  /\ fn'[k][f] # "fresh"
                 /\ \/ <<f, m>> \in spawned'[k]
                    \/ cur'[k] = m /\ f \in todo'[k]
                    \/ fn'[k][f] = "out"
      <4>1. <<f, m>> \in due[k]
        BY <3>1, <3>6
      <4>2. CASE k # n
        BY <3>2, <4>1, <4>2
      <4>3. CASE k = n
        BY <3>1, <4>1, <4>3
      <4> QED
        BY <4>2, <4>3
    <3>7. DispatchInv'
      <4> SUFFICES ASSUME NEW k \in Nodes
                   PROVE  /\ \A f \in Sessions : f \in todo'[k] => fn'[k][f] # "fresh"
                          /\ \A f \in Sessions, m \in Msgs :
                               <<f, m>> \in spawned'[k] =>
                                 inbox'[k][m] = "taken" /\ fn'[k][f] # "fresh"
                          /\ \A f \in Sessions, m \in Msgs :
                               <<f, m>> \in due'[k] => fn'[k][f] # "fresh"
        BY <3>3
      <4>1. ASSUME NEW f \in Sessions, f \in todo'[k] PROVE fn'[k][f] # "fresh"
        BY ONLY <3>4, <4>1, k \in Nodes
      <4>2. \A f \in Sessions, m \in Msgs :
               <<f, m>> \in spawned'[k] => inbox'[k][m] = "taken" /\ fn'[k][f] # "fresh"
        BY <3>5
      <4>3. \A f \in Sessions, m \in Msgs : <<f, m>> \in due'[k] => fn'[k][f] # "fresh"
        BY <3>6
      <4> QED
        BY <4>1, <4>2, <4>3
    <3>8. DispatchComplete'
      BY <3>6
    <3>9. AtMostOneCall'
      BY <3>4
    <3> QED
      BY <3>7, <3>8, <3>9
  <2> QED
    BY <1>2, <2>1, <2>2, <2>3, <2>4, <2>5, <2>6, <2>7, <2>8, <2>9, <2>10 DEF ChatNode
<1> QED
  BY <1>1, <1>2 DEF ChatNext

-----------------------------------------------------------------------------
(* The theorems.                                                           *)

\* A node that has just started satisfies the invariant.
LEMMA InitInv == ChatInit => ChatInv
<1> SUFFICES ASSUME ChatInit PROVE ChatInv
  OBVIOUS
<1> USE DEF ChatInit
<1>1. <<>> \in Seq(Msgs) /\ Len(<<>>) <= Cap
  BY EmptySeq, ChatAssumption
<1>2. ChatTypeOK
  BY <1>1, ChatAssumption DEF ChatTypeOK, InboxStates
<1>3. ToSet(<<>>) = {} /\ IsInjective(<<>>)
  BY DEF ToSet, IsInjective
<1>4. QueuedOnce
  BY <1>3 DEF QueuedOnce
<1>5. DispatchInv /\ DispatchComplete /\ AtMostOneCall
  BY DEF DispatchInv, DispatchComplete, AtMostOneCall
<1> QED
  BY <1>2, <1>4, <1>5 DEF ChatInv

\* Every step of a node keeps it.
LEMMA ChatInvStep == ChatInv /\ [ChatNext]_chatVars => ChatInv'
BY TypeStep, QueuedStep, DispatcherStep DEF ChatInv, DispatchAll

\* The invariant of the receiving side holds in every state the node reaches.
THEOREM ChatInvariant == ChatSpec => []ChatInv
BY InitInv, ChatInvStep, PTL DEF ChatSpec

\* Type correctness; recvMsgCh never holds more than its capacity.
THEOREM TypeCorrect == ChatSpec => []ChatTypeOK
<1>1. ChatInv => ChatTypeOK
  BY DEF ChatInv
<1> QED
  BY <1>1, ChatInvariant, PTL

\* A message answered through the channel case is on the channel exactly once
\* until the dispatcher has it or the process ends.
THEOREM ChannelHoldsQueued == ChatSpec => []QueuedOnce
<1>1. ChatInv => QueuedOnce
  BY DEF ChatInv
<1> QED
  BY <1>1, ChatInvariant, PTL

\* The unlocked range misses no handler that was registered when it began and
\* was not dropped meanwhile.
THEOREM NoHandlerMissed == ChatSpec => []DispatchComplete
<1>1. ChatInv => DispatchComplete
  BY DEF ChatInv
<1> QED
  BY <1>1, ChatInvariant, PTL

\* The unlocked range calls no handler twice for one message, even one that is
\* registered while it runs.
THEOREM NoHandlerCalledTwice == ChatSpec => []AtMostOneCall
<1>1. ChatInv => AtMostOneCall
  BY DEF ChatInv
<1> QED
  BY <1>1, ChatInvariant, PTL
=============================================================================
