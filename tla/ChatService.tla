---------------------------- MODULE ChatService ----------------------------
(***************************************************************************)
(* service.go: the receiving side of a node.  The PID_NORMAL handler puts  *)
(* decoded messages on the bounded channel recvMsgCh; one dispatcher       *)
(* goroutine takes them off and starts, for every registered MsgHandle, a  *)
(* goroutine that runs it.  The sending side (SendMsg) is in Delivery.     *)
(*                                                                         *)
(* The dispatcher ranges over handleMsgFn without taking the lock that     *)
(* AppendHandleMsg and DropHandleMsg hold.  A write during the range is a  *)
(* data race: the entry may be visited or not, or the Go runtime may stop  *)
(* the process, which is one of the causes of Crash.                       *)
(***************************************************************************)
EXTENDS Types

CONSTANTS NoMsg,   \* the dispatcher holds no message
          Cap      \* capacity of recvMsgCh

ASSUME ChatAssumption == Cap \in Nat \ {0} /\ NoMsg \notin Msgs

VARIABLES
  inbox,      \* where each message is on each node (see InboxStates)
  recvMsgCh,  \* the channel of each node
  stop,       \* the stop channel of each node is closed
  fn,         \* life of each handler id on each node
  loop,       \* the dispatcher goroutine of each node
  cur, todo,  \* the message it dispatches, the handlers it has yet to visit
  spawned,    \* <<fid, msg>>: handler goroutines started
  ran,        \* <<fid, msg>>: handler goroutines that have run
  due         \* history: <<fid, msg>> with fid registered when msg was taken

chatVars == <<inbox, recvMsgCh, stop, fn, loop, cur, todo, spawned, ran, due>>

(***************************************************************************)
(* sent: request on the wire; select: decoded, the handler is in its       *)
(* select; queued: on recvMsgCh; taken: off the channel, by the            *)
(* dispatcher; refused: did not decode; dropped: the select took the stop  *)
(* case; dead / lost: the process ended before / after it was queued.      *)
(***************************************************************************)
InboxStates == {"none", "sent", "select", "queued", "taken",
                "refused", "dropped", "dead", "lost"}

\* The handler has written its reply: the caller sees a request that worked.
Answered(n, m) ==
  inbox[n][m] \in {"queued", "taken", "lost", "refused", "dropped"}

handleMsgFn(n) == {f \in Sessions : fn[n][f] = "in"}

ChatInit ==
  /\ inbox = [n \in Nodes |-> [m \in Msgs |-> "none"]]
  /\ recvMsgCh = [n \in Nodes |-> <<>>]
  /\ stop = [n \in Nodes |-> FALSE]
  /\ fn = [n \in Nodes |-> [f \in Sessions |-> "fresh"]]
  /\ loop = [n \in Nodes |-> "select"]
  /\ cur = [n \in Nodes |-> NoMsg]
  /\ todo = [n \in Nodes |-> {}]
  /\ spawned = [n \in Nodes |-> {}]
  /\ ran = [n \in Nodes |-> {}]
  /\ due = [n \in Nodes |-> {}]

-----------------------------------------------------------------------------
(* The PID_NORMAL handler.                                                 *)

\* A peer sends m to n with RequestWithTimeout; each message is sent once.
RequestNormal(n, m) ==
  /\ inbox[n][m] = "none"
  /\ inbox' = [inbox EXCEPT ![n][m] = "sent"]
  /\ UNCHANGED <<recvMsgCh, stop, fn, loop, cur, todo, spawned, ran, due>>

\* FromReader: on an error its text is the reply and the message is gone.
Receive(n, m) ==
  /\ inbox[n][m] = "sent"
  /\ inbox' = [inbox EXCEPT ![n][m] = IF Decodes(m) THEN "select" ELSE "refused"]
  /\ UNCHANGED <<recvMsgCh, stop, fn, loop, cur, todo, spawned, ran, due>>

\* Mutant of Enqueue: a channel without a bound.
EnqueueUnbounded(n, m) ==
  /\ inbox[n][m] = "select"
  /\ recvMsgCh' = [recvMsgCh EXCEPT ![n] = Append(@, m)]
  /\ inbox' = [inbox EXCEPT ![n][m] = "queued"]
  /\ UNCHANGED <<stop, fn, loop, cur, todo, spawned, ran, due>>

\* Mutant of Enqueue: the select has a default case that replies as well.
EnqueueOrDefault(n, m) ==
  /\ inbox[n][m] = "select"
  /\ recvMsgCh' = [recvMsgCh EXCEPT ![n] = IF Len(@) < Cap THEN Append(@, m) ELSE @]
  /\ inbox' = [inbox EXCEPT ![n][m] = "queued"]
  /\ UNCHANGED <<stop, fn, loop, cur, todo, spawned, ran, due>>

\* case c.recvMsgCh <- msg, then Write(SUCCESS).
Enqueue(n, m) ==
  /\ inbox[n][m] = "select"
  /\ Len(recvMsgCh[n]) < Cap
  /\ recvMsgCh' = [recvMsgCh EXCEPT ![n] = Append(@, m)]
  /\ inbox' = [inbox EXCEPT ![n][m] = "queued"]
  /\ UNCHANGED <<stop, fn, loop, cur, todo, spawned, ran, due>>

\* Mutant of DropOnStop: a select without the stop case.
OnlyEnqueue(n, m) == Enqueue(n, m)

\* case <-c.stop, then Write(SUCCESS) all the same.
DropOnStop(n, m) ==
  /\ inbox[n][m] = "select"
  /\ stop[n]
  /\ inbox' = [inbox EXCEPT ![n][m] = "dropped"]
  /\ UNCHANGED <<recvMsgCh, stop, fn, loop, cur, todo, spawned, ran, due>>

-----------------------------------------------------------------------------
(* The dispatcher goroutine of Start.                                      *)

\* Mutant of Take: the range is over a map copied when the service started.
TakeStale(n) ==
  /\ loop[n] = "select"
  /\ recvMsgCh[n] # <<>>
  /\ cur' = [cur EXCEPT ![n] = Head(recvMsgCh[n])]
  /\ inbox' = [inbox EXCEPT ![n][Head(recvMsgCh[n])] = "taken"]
  /\ recvMsgCh' = [recvMsgCh EXCEPT ![n] = Tail(@)]
  /\ todo' = [todo EXCEPT ![n] = {}]
  /\ loop' = [loop EXCEPT ![n] = "range"]
  /\ UNCHANGED <<stop, fn, spawned, ran, due>>

Take(n) ==
  /\ loop[n] = "select"
  /\ recvMsgCh[n] # <<>>
  /\ LET m == Head(recvMsgCh[n]) IN
       /\ cur' = [cur EXCEPT ![n] = m]
       /\ inbox' = [inbox EXCEPT ![n][m] = "taken"]
       /\ due' = [due EXCEPT ![n] = @ \cup (handleMsgFn(n) \X {m})]
  /\ recvMsgCh' = [recvMsgCh EXCEPT ![n] = Tail(@)]
  /\ todo' = [todo EXCEPT ![n] = handleMsgFn(n)]
  /\ loop' = [loop EXCEPT ![n] = "range"]
  /\ UNCHANGED <<stop, fn, spawned, ran>>

\* Mutant of Spawn: a break after the first handler.
SpawnFirst(n, f) ==
  /\ loop[n] = "range"
  /\ f \in todo[n]
  /\ spawned' = [spawned EXCEPT ![n] = @ \cup {<<f, cur[n]>>}]
  /\ todo' = [todo EXCEPT ![n] = {}]
  /\ UNCHANGED <<inbox, recvMsgCh, stop, fn, loop, cur, ran, due>>

\* go fn(c, msg)
Spawn(n, f) ==
  /\ loop[n] = "range"
  /\ f \in todo[n]
  /\ spawned' = [spawned EXCEPT ![n] = @ \cup {<<f, cur[n]>>}]
  /\ todo' = [todo EXCEPT ![n] = @ \ {f}]
  /\ UNCHANGED <<inbox, recvMsgCh, stop, fn, loop, cur, ran, due>>

\* Mutants of RangeEnd: a return instead of the next turn of the loop; the
\* message is kept.
RangeEndReturns(n) ==
  /\ loop[n] = "range"
  /\ todo[n] = {}
  /\ loop' = [loop EXCEPT ![n] = "exited"]
  /\ cur' = [cur EXCEPT ![n] = NoMsg]
  /\ UNCHANGED <<inbox, recvMsgCh, stop, fn, todo, spawned, ran, due>>

RangeEndKeeps(n) ==
  /\ loop[n] = "range"
  /\ todo[n] = {}
  /\ loop' = [loop EXCEPT ![n] = "select"]
  /\ UNCHANGED <<inbox, recvMsgCh, stop, fn, cur, todo, spawned, ran, due>>

RangeEnd(n) ==
  /\ loop[n] = "range"
  /\ todo[n] = {}
  /\ loop' = [loop EXCEPT ![n] = "select"]
  /\ cur' = [cur EXCEPT ![n] = NoMsg]
  /\ UNCHANGED <<inbox, recvMsgCh, stop, fn, todo, spawned, ran, due>>

\* case <-c.stop: return.  A ready channel may be served first.
DispatcherExit(n) ==
  /\ loop[n] = "select"
  /\ stop[n]
  /\ loop' = [loop EXCEPT ![n] = "exited"]
  /\ UNCHANGED <<inbox, recvMsgCh, stop, fn, cur, todo, spawned, ran, due>>

\* A handler goroutine runs, in any order with the others.
RunHandler(n, f, m) ==
  /\ <<f, m>> \in spawned[n] \ ran[n]
  /\ ran' = [ran EXCEPT ![n] = @ \cup {<<f, m>>}]
  /\ UNCHANGED <<inbox, recvMsgCh, stop, fn, loop, cur, todo, spawned, due>>

-----------------------------------------------------------------------------
(* Calls from the rest of the node.                                        *)

\* Mutant of AppendHandleMsg: a handler may be registered anew.
AppendAgain(n, f) ==
  /\ fn[n][f] # "out"
  /\ fn' = [fn EXCEPT ![n][f] = "in"]
  /\ \/ UNCHANGED todo
     \/ loop[n] = "range" /\ todo' = [todo EXCEPT ![n] = @ \cup {f}]
  /\ UNCHANGED <<inbox, recvMsgCh, stop, loop, cur, spawned, ran, due>>

AppendHandleMsg(n, f) ==
  /\ fn[n][f] = "fresh"
  /\ fn' = [fn EXCEPT ![n][f] = "in"]
  /\ \/ UNCHANGED todo
     \/ loop[n] = "range" /\ todo' = [todo EXCEPT ![n] = @ \cup {f}]
  /\ UNCHANGED <<inbox, recvMsgCh, stop, loop, cur, spawned, ran, due>>

DropHandleMsg(n, f) ==
  /\ fn[n][f] = "in"
  /\ fn' = [fn EXCEPT ![n][f] = "out"]
  /\ \/ UNCHANGED todo
     \/ loop[n] = "range" /\ todo' = [todo EXCEPT ![n] = @ \ {f}]
  /\ UNCHANGED <<inbox, recvMsgCh, stop, loop, cur, spawned, ran, due>>

Stop(n) ==
  /\ ~stop[n]
  /\ stop' = [stop EXCEPT ![n] = TRUE]
  /\ UNCHANGED <<inbox, recvMsgCh, fn, loop, cur, todo, spawned, ran, due>>

\* The process ends and is started again: everything here is in memory.
Crash(n) ==
  /\ inbox' = [inbox EXCEPT ![n] =
                 [m \in Msgs |-> IF @[m] \in {"sent", "select"} THEN "dead"
                                 ELSE IF @[m] = "queued" THEN "lost" ELSE @[m]]]
  /\ recvMsgCh' = [recvMsgCh EXCEPT ![n] = <<>>]
  /\ stop' = [stop EXCEPT ![n] = FALSE]
  /\ fn' = [fn EXCEPT ![n] = [f \in Sessions |-> IF @[f] = "in" THEN "out" ELSE @[f]]]
  /\ loop' = [loop EXCEPT ![n] = "select"]
  /\ cur' = [cur EXCEPT ![n] = NoMsg]
  /\ todo' = [todo EXCEPT ![n] = {}]
  /\ spawned' = [spawned EXCEPT ![n] = ran[n]]
  /\ UNCHANGED <<ran, due>>

ChatNode(n) ==
  \/ \E m \in Msgs : \/ RequestNormal(n, m)
                     \/ Receive(n, m)
                     \/ Enqueue(n, m)
                     \/ DropOnStop(n, m)
  \/ Take(n) \/ RangeEnd(n) \/ DispatcherExit(n)
  \/ \E f \in Sessions : \/ Spawn(n, f)
                     \/ AppendHandleMsg(n, f)
                     \/ DropHandleMsg(n, f)
                     \/ \E m \in Msgs : RunHandler(n, f, m)
  \/ Stop(n)
  \/ Crash(n)

ChatNext == \E n \in Nodes : ChatNode(n)

ChatSpec == ChatInit /\ [][ChatNext]_chatVars

\* The Go scheduler runs every goroutine that can go on: the handlers in
\* their select, the dispatcher, the handler goroutines.  A request on the
\* wire may be lost, so Receive is not fair.
ChatFairness ==
  \A n \in Nodes :
    /\ WF_chatVars(Take(n)) /\ WF_chatVars(RangeEnd(n))
    /\ \A m \in Msgs : /\ WF_chatVars(Enqueue(n, m))
                       /\ WF_chatVars(DropOnStop(n, m))
    /\ \A f \in Sessions : /\ WF_chatVars(Spawn(n, f))
                       /\ \A m \in Msgs : WF_chatVars(RunHandler(n, f, m))

ChatFairSpec == ChatSpec /\ ChatFairness

-----------------------------------------------------------------------------
(* Properties.                                                             *)

\* Type invariant of the receiving side; the channel never holds more than Cap.
ChatTypeOK ==
  /\ inbox \in [Nodes -> [Msgs -> InboxStates]]
  /\ recvMsgCh \in [Nodes -> Seq(Msgs)]
  /\ \A n \in Nodes : Len(recvMsgCh[n]) <= Cap
  /\ stop \in [Nodes -> BOOLEAN]
  /\ fn \in [Nodes -> [Sessions -> {"fresh", "in", "out"}]]
  /\ loop \in [Nodes -> {"select", "range", "exited"}]
  /\ cur \in [Nodes -> Msgs \cup {NoMsg}]
  /\ \A n \in Nodes : cur[n] \in Msgs <=> loop[n] = "range"
  /\ todo \in [Nodes -> SUBSET Sessions]
  /\ spawned \in [Nodes -> SUBSET (Sessions \X Msgs)]
  /\ ran \in [Nodes -> SUBSET (Sessions \X Msgs)]
  /\ due \in [Nodes -> SUBSET (Sessions \X Msgs)]

\* A message whose handler answered SUCCESS through the channel case is on
\* recvMsgCh exactly once until the dispatcher takes it or the process ends.
QueuedOnce ==
  \A n \in Nodes :
    /\ ToSet(recvMsgCh[n]) = {m \in Msgs : inbox[n][m] = "queued"}
    /\ IsInjective(recvMsgCh[n])

\* Every handler registered when a message is taken off the channel gets a
\* call for it, unless it is dropped meanwhile, whatever registrations race
\* with the range.
DispatchComplete ==
  \A n \in Nodes : \A f \in Sessions, m \in Msgs :
    <<f, m>> \in due[n] =>
      \/ <<f, m>> \in spawned[n]
      \/ cur[n] = m /\ f \in todo[n]
      \/ fn[n][f] = "out"

\* No handler is ever called a second time for the same message.
AtMostOneCall ==
  \A n \in Nodes : \A f \in Sessions :
    f \in todo[n] => <<f, cur[n]>> \notin spawned[n]

\* A PID_NORMAL handler that has decoded its message always returns: a full
\* channel is drained, or stop releases the select.
HandlerReturns ==
  \A n \in Nodes : \A m \in Msgs :
    inbox[n][m] = "select" ~> inbox[n][m] # "select"

\* A queued message reaches the dispatcher unless the node stops or ends.
QueueDrains ==
  \A n \in Nodes : \A m \in Msgs :
    inbox[n][m] = "queued" ~> (inbox[n][m] # "queued" \/ stop[n])
=============================================================================
