----------------------------- MODULE WsSession -----------------------------
(***************************************************************************)
(* rpc/server.go, the /chat websocket handler: after the token is checked  *)
(* the session reports success, fetches the offline messages, writes them  *)
(* to the socket one by one, asks the mailbox to delete them, registers    *)
(* its live handler and then reads the socket until it breaks.             *)
(* The calls into ChatService and Mailbox are composed in Delivery.        *)
(***************************************************************************)
EXTENDS Types

CONSTANT Home   \* the node a session is opened on

ASSUME SessionAssumption == Home \in [Sessions -> Nodes]

VARIABLES
  spc,    \* where the handler of each session is
  ws,     \* the client's end of the socket is open
  bag,    \* offline messages still to be written
  ids,    \* ids of the offline messages written so far
  sock    \* what the client has received, <<source, msg>>

wsVars == <<spc, ws, bag, ids, sock>>

SessionStates == {"idle", "query", "push", "clean", "register", "loop", "end"}

WsInit ==
  /\ spc = [s \in Sessions |-> "idle"]
  /\ ws = [s \in Sessions |-> FALSE]
  /\ bag = [s \in Sessions |-> <<>>]
  /\ ids = [s \in Sessions |-> <<>>]
  /\ sock = [s \in Sessions |-> <<>>]

Goto(s, l) == spc' = [spc EXCEPT ![s] = l]

\* ws.Write(m.Json()); its error is ignored.
Write(s, src, m) ==
  sock' = IF ws[s] THEN [sock EXCEPT ![s] = Append(@, <<src, m>>)] ELSE sock

-----------------------------------------------------------------------------

\* The first frame carries a known token: success is reported.
Open(s) ==
  /\ spc[s] = "idle"
  /\ Goto(s, "query")
  /\ ws' = [ws EXCEPT ![s] = TRUE]
  /\ UNCHANGED <<bag, ids, sock>>

\* No first frame, or a token that is not in tokenmap.
Reject(s) ==
  /\ spc[s] = "idle"
  /\ Goto(s, "end")
  /\ UNCHANGED <<ws, bag, ids, sock>>

\* QueryMsg returned a bag.
QueryOk(s, msgs) ==
  /\ spc[s] = "query"
  /\ Goto(s, "push")
  /\ bag' = [bag EXCEPT ![s] = msgs]
  /\ UNCHANGED <<ws, ids, sock>>

\* QueryMsg returned an error: nothing is pushed or cleaned.
QueryErr(s) ==
  /\ spc[s] = "query"
  /\ Goto(s, "register")
  /\ UNCHANGED <<ws, bag, ids, sock>>

Push(s) ==
  /\ spc[s] = "push"
  /\ bag[s] # <<>>
  /\ ids' = [ids EXCEPT ![s] = Append(@, Head(bag[s]))]
  /\ Write(s, "mail", Head(bag[s]))
  /\ bag' = [bag EXCEPT ![s] = Tail(@)]
  /\ UNCHANGED <<spc, ws>>

\* CleanMsg(ids): with no id it returns at once.
PushEnd(s) ==
  /\ spc[s] = "push"
  /\ bag[s] = <<>>
  /\ Goto(s, IF ids[s] = <<>> THEN "register" ELSE "clean")
  /\ UNCHANGED <<ws, bag, ids, sock>>

\* Mutant of CleanEnd: the clean is repeated until it has an effect.
CleanEndRepeats(s) ==
  /\ spc[s] = "clean"
  /\ Goto(s, "push")
  /\ UNCHANGED <<ws, bag, ids, sock>>

\* CleanMsg returned; its error is ignored.
CleanEnd(s) ==
  /\ spc[s] = "clean"
  /\ Goto(s, "register")
  /\ UNCHANGED <<ws, bag, ids, sock>>

Register(s) ==
  /\ spc[s] = "register"
  /\ Goto(s, "loop")
  /\ UNCHANGED <<ws, bag, ids, sock>>

\* The MsgHandle of the session: ws.Write(msg.Json()).
LiveWrite(s, m) ==
  /\ Write(s, "live", m)
  /\ UNCHANGED <<spc, ws, bag, ids>>

\* The client goes away; the handler notices only in its read loop.
ClientClose(s) ==
  /\ ws[s]
  /\ ws' = [ws EXCEPT ![s] = FALSE]
  /\ UNCHANGED <<spc, bag, ids, sock>>

LoopEnd(s) ==
  /\ spc[s] = "loop"
  /\ ~ws[s]
  /\ Goto(s, "end")
  /\ UNCHANGED <<ws, bag, ids, sock>>

\* The process of n ends, and its connections with it.
WsCrash(n) ==
  /\ spc' = [s \in Sessions |->
               IF Home[s] = n /\ spc[s] # "idle" THEN "end" ELSE spc[s]]
  /\ ws' = [s \in Sessions |-> ws[s] /\ Home[s] # n]
  /\ UNCHANGED <<bag, ids, sock>>
=============================================================================
