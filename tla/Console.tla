------------------------------ MODULE Console -------------------------------
(***************************************************************************)
(* app/achat/cmd/achat/console.go and main.go: the terminal client.        *)
(*                                                                         *)
(* "achat attach" talks to a node of another process.  "achat console"     *)
(* starts the node in a goroutine, waits two seconds and attaches to it,   *)
(* so that the node ends with the client.                                  *)
(*                                                                         *)
(* The main goroutine reads lines.  opensession and exit set targetId, the *)
(* instructions call the node at once, and any other line gets a goroutine *)
(* of its own, which reads targetId without a lock and hands a request to  *)
(* the only reader of reqCh, the write loop.                               *)
(***************************************************************************)
EXTENDS Naturals

CONSTANTS
  Lines,       \* lines the user may type, each once
  NoLine,
  Kind,        \* what the first word of a line is
  Arg,         \* the id after opensession, or NoId if the line ends there
  Peers, NoId, \* ids a session can be opened with, the empty id
  Short,       \* those of less than six characters
  NoReq,
  MaxRestart   \* bound: how often the node attached to starts again

Ids == Peers \cup {NoId}

\* "call" stands for myid, conns, group_create and user_query.
Kinds == {"opensession", "exit", "call", "other"}

ASSUME ConsoleAssumption ==
  /\ {NoLine, "off"} \cap Lines = {} /\ NoId \notin Peers
  /\ Kind \in [Lines -> Kinds]
  /\ Arg \in [Lines -> Ids]
  /\ Short \subseteq Peers
  /\ MaxRestart \in Nat

\* NewReq: a line is the content of a sendmsg, or a method and its parameters.
Requests == [method : {"sendmsg", "word"}, to : Ids]
NewReq(m, i) == [method |-> m, to |-> i]

ASSUME NoReqAssumption == NoReq \notin Requests

VARIABLES
  inproc,    \* console: the node is in the process of the client
  node,      \* whether /rpc and /chat are served
  starts,    \* how often the node has started: tokenmap is of that start
  main,      \* where the main goroutine is
  token,     \* the start of the node that handed out the token, or 0
  targetId,
  job,       \* what became of each line
  req,       \* the request of its goroutine
  since,     \* history: the values of targetId while that was made
  wl,        \* the line the write loop posts, NoLine, or "off"
  Stop       \* whether Stop is closed

nodeVars == <<node, starts>>
lineVars == <<job, req, since>>
consoleVars == <<inproc, nodeVars, main, token, targetId, lineVars, wl, Stop>>

Init ==
  /\ inproc \in BOOLEAN
  /\ node = FALSE /\ starts = 0
  /\ main = "sleep"
  /\ token = 0
  /\ targetId = NoId
  /\ job = [l \in Lines |-> "new"]
  /\ req = [l \in Lines |-> NoReq]
  /\ since = [l \in Lines |-> {}]
  /\ wl = "off"
  /\ Stop = FALSE

-----------------------------------------------------------------------------
(* The node: StartRPC at the end of achat.                                 *)

NodeUp ==
  /\ ~node /\ main # "ended"
  /\ starts < (IF inproc THEN 1 ELSE 1 + MaxRestart)
  /\ node' = TRUE /\ starts' = starts + 1
  /\ UNCHANGED <<inproc, main, token, targetId, lineVars, wl, Stop>>

\* Another process: it may end at any time.
NodeDown ==
  /\ node /\ ~inproc /\ main # "ended"
  /\ node' = FALSE
  /\ UNCHANGED <<inproc, starts, main, token, targetId, lineVars, wl, Stop>>

\* A panic of achat, or the os.Exit of StartRPC when the port is taken.
NodeFails ==
  /\ inproc /\ ~node /\ main # "ended"
  /\ main' = "ended"
  /\ UNCHANGED <<inproc, nodeVars, token, targetId, lineVars, wl, Stop>>

-----------------------------------------------------------------------------
(* AttachCmd up to the prompt.                                             *)

\* The two seconds of console; attach begins at once.
Attach ==
  /\ main = "sleep"
  /\ main' = "auth"
  /\ UNCHANGED <<inproc, nodeVars, token, targetId, lineVars, wl, Stop>>

\* console gives the node and the client the same password.
Auth ==
  /\ main = "auth"
  /\ \/ node /\ token' = starts /\ main' = "dial"
     \/ (~node \/ ~inproc) /\ main' = "ended" /\ UNCHANGED token
  /\ UNCHANGED <<inproc, nodeVars, targetId, lineVars, wl, Stop>>

\* The error of Dial is not looked at: the read loop then reads from nil.
Dial ==
  /\ main = "dial"
  /\ IF node THEN main' = "label" /\ wl' = NoLine
             ELSE main' = "ended" /\ UNCHANGED wl
  /\ UNCHANGED <<inproc, nodeVars, token, targetId, lineVars, Stop>>

-----------------------------------------------------------------------------
(* The loop over the lines.                                                *)

\* The prompt shows the last six characters of targetId.
Label ==
  /\ main = "label"
  /\ main' = IF targetId \in Short THEN "quit" ELSE "prompt"
  /\ UNCHANGED <<inproc, nodeVars, token, targetId, lineVars, wl, Stop>>

\* A goroutine that has not made its request may read the new value.
SetTarget(i) ==
  /\ targetId' = i
  /\ since' = [l \in Lines |->
       since[l] \cup (IF job[l] \in {"ready", "chosen"} THEN {i} ELSE {})]

Typed(l, k) ==
  /\ main = "prompt"
  /\ job[l] = "new"
  /\ Kind[l] = k

\* Without an id, cmdArg[1] panics.
OpenSession(l) ==
  /\ Typed(l, "opensession")
  /\ job' = [job EXCEPT ![l] = "done"]
  /\ IF Arg[l] = NoId THEN main' = "quit" /\ UNCHANGED <<targetId, since>>
                      ELSE main' = "label" /\ SetTarget(Arg[l])
  /\ UNCHANGED <<inproc, nodeVars, token, req, wl, Stop>>

\* The first exit leaves the session, the next one the program.
Exit(l) ==
  /\ Typed(l, "exit")
  /\ job' = [job EXCEPT ![l] = "done"]
  /\ IF targetId = NoId THEN main' = "quit" /\ UNCHANGED <<targetId, since>>
                        ELSE main' = "label" /\ SetTarget(NoId)
  /\ UNCHANGED <<inproc, nodeVars, token, req, wl, Stop>>

Call(l) ==
  /\ Typed(l, "call")
  /\ job' = [job EXCEPT ![l] = "calling"]
  /\ main' = "call"
  /\ UNCHANGED <<inproc, nodeVars, token, targetId, req, since, wl, Stop>>

Say(l) ==
  /\ Typed(l, "other")
  /\ job' = [job EXCEPT ![l] = "ready"]
  /\ since' = [since EXCEPT ![l] = {targetId}]
  /\ main' = "label"
  /\ UNCHANGED <<inproc, nodeVars, token, targetId, req, wl, Stop>>

\* An abort or the end of the input.
Abort ==
  /\ main = "prompt"
  /\ main' = "quit"
  /\ UNCHANGED <<inproc, nodeVars, token, targetId, lineVars, wl, Stop>>

\* The deferred function, after a return and after a panic.
CloseStop ==
  /\ main = "quit"
  /\ Stop' = TRUE
  /\ main' = "closed"
  /\ UNCHANGED <<inproc, nodeVars, token, targetId, lineVars, wl>>

\* main returns or the panic goes on: the other goroutines end with it.
End ==
  /\ main = "closed"
  /\ main' = "ended"
  /\ UNCHANGED <<inproc, nodeVars, token, targetId, lineVars, wl, Stop>>

-----------------------------------------------------------------------------
(* The goroutine of a line.  It reads targetId twice, and does not look at *)
(* the second value: after an exit it is the empty id.                     *)

Running == main # "ended"

\* Mutant of Choose: the line is handed off before its request is made.
ChooseOffers(l) ==
  /\ Running /\ job[l] = "ready"
  /\ job' = [job EXCEPT ![l] = "offer"]
  /\ req' = [req EXCEPT ![l] = IF targetId = NoId THEN NewReq("word", NoId) ELSE NoReq]
  /\ UNCHANGED <<inproc, nodeVars, main, token, targetId, since, wl, Stop>>

Choose(l) ==
  /\ Running /\ job[l] = "ready"
  /\ IF targetId = NoId
     THEN job' = [job EXCEPT ![l] = "offer"] /\ req' = [req EXCEPT ![l] = NewReq("word", NoId)]
     ELSE job' = [job EXCEPT ![l] = "chosen"] /\ UNCHANGED req
  /\ UNCHANGED <<inproc, nodeVars, main, token, targetId, since, wl, Stop>>

Build(l) ==
  /\ Running /\ job[l] = "chosen"
  /\ job' = [job EXCEPT ![l] = "offer"]
  /\ req' = [req EXCEPT ![l] = NewReq("sendmsg", targetId)]
  /\ UNCHANGED <<inproc, nodeVars, main, token, targetId, since, wl, Stop>>

Drop(l) ==
  /\ Running /\ job[l] = "offer" /\ Stop
  /\ job' = [job EXCEPT ![l] = "dropped"]
  /\ UNCHANGED <<inproc, nodeVars, main, token, targetId, req, since, wl, Stop>>

-----------------------------------------------------------------------------
(* The write loop, and callrpc.                                            *)

\* Mutant of Take: the request is made when the write loop is free.
TakeBuilds(l) ==
  /\ Running /\ wl = NoLine /\ job[l] = "offer"
  /\ wl' = l
  /\ job' = [job EXCEPT ![l] = "calling"]
  /\ req' = [req EXCEPT ![l] = IF targetId = NoId THEN @ ELSE NewReq("sendmsg", targetId)]
  /\ UNCHANGED <<inproc, nodeVars, main, token, targetId, since, Stop>>

\* The select may take a request although Stop is closed.
Take(l) ==
  /\ Running /\ wl = NoLine /\ job[l] = "offer"
  /\ wl' = l
  /\ job' = [job EXCEPT ![l] = "calling"]
  /\ UNCHANGED <<inproc, nodeVars, main, token, targetId, req, since, Stop>>

LoopStops ==
  /\ Running /\ wl = NoLine /\ Stop
  /\ wl' = "off"
  /\ UNCHANGED <<inproc, nodeVars, main, token, targetId, lineVars, Stop>>

\* A node that has started again does not know the token.
Outcomes == IF node /\ token = starts THEN {"done", "failed"} ELSE {"failed"}

\* Mutant of Posted: an error ends the write loop.
PostedOrOff(l) ==
  /\ Running /\ wl = l
  /\ \E v \in Outcomes : /\ job' = [job EXCEPT ![l] = v]
                         /\ wl' = IF v = "failed" THEN "off" ELSE NoLine
  /\ UNCHANGED <<inproc, nodeVars, main, token, targetId, req, since, Stop>>

\* The result or the error is printed.
Posted(l) ==
  /\ Running /\ wl = l
  /\ \E v \in Outcomes : job' = [job EXCEPT ![l] = v]
  /\ wl' = NoLine
  /\ UNCHANGED <<inproc, nodeVars, main, token, targetId, req, since, Stop>>

CallReturns(l) ==
  /\ main = "call" /\ Kind[l] = "call" /\ job[l] = "calling"
  /\ \E v \in Outcomes : job' = [job EXCEPT ![l] = v]
  /\ main' = "label"
  /\ UNCHANGED <<inproc, nodeVars, token, targetId, req, since, wl, Stop>>

-----------------------------------------------------------------------------

User(l) == OpenSession(l) \/ Exit(l) \/ Call(l) \/ Say(l)

Goroutine(l) == Choose(l) \/ Build(l) \/ Drop(l) \/ Take(l) \/ Posted(l)

AttachCmd ==
  \/ Attach \/ Auth \/ Dial \/ Label \/ CloseStop \/ End
  \/ \E l \in Lines : CallReturns(l)

Next ==
  \/ NodeUp \/ NodeDown \/ NodeFails
  \/ AttachCmd \/ LoopStops \/ Abort
  \/ \E l \in Lines : User(l) \/ Goroutine(l)

\* The lines that get a goroutine.
Spoken == {l \in Lines : Kind[l] = "other"}

\* The scheduler runs every goroutine, and a post returns: SendMsg is bounded
\* by its timeouts, a node that is gone refuses the connection.  The user and
\* the node need do nothing.
ConsoleFairness ==
  /\ WF_consoleVars(AttachCmd)
  /\ \A l \in Spoken : WF_consoleVars(Goroutine(l))

Spec == Init /\ [][Next]_consoleVars /\ ConsoleFairness

-----------------------------------------------------------------------------
(* Properties.                                                             *)

\* Type invariant of the client; the write loop posts a line that waits for it.
ConsoleTypeOK ==
  /\ inproc \in BOOLEAN /\ node \in BOOLEAN /\ Stop \in BOOLEAN
  /\ starts \in 0 .. 1 + MaxRestart /\ token \in 0 .. starts
  /\ main \in {"sleep", "auth", "dial", "label", "prompt", "call", "quit", "closed", "ended"}
  /\ targetId \in Ids
  /\ job \in [Lines -> {"new", "ready", "chosen", "offer", "calling",
                        "done", "failed", "dropped"}]
  /\ req \in [Lines -> Requests \cup {NoReq}]
  /\ since \in [Lines -> SUBSET Ids]
  /\ wl \in Lines => job[wl] = "calling" /\ req[wl] # NoReq

\* A request goes where targetId pointed at some time between the typing of
\* its line and the making of the request, however long the write loop keeps
\* it waiting afterwards: a session opened then does not get it.  A line is
\* made a message only if a session was open meanwhile.  That session need not
\* be the one it goes to: when exit comes between the two reads of targetId,
\* it is a message to the empty id, to nobody.
TargetWasCurrent ==
  \A l \in Lines : req[l] # NoReq =>
    /\ req[l].to \in since[l]
    /\ req[l].method = "sendmsg" => since[l] \ {NoId} # {}

\* A line that got a goroutine is posted and answered, or dropped because the
\* client stops, or the client ends: none waits for ever for the write loop,
\* whatever the node does and whenever it goes away.
LineSettles ==
  \A l \in Spoken : job[l] = "ready" ~>
    job[l] \in {"done", "failed", "dropped"} \/ main = "ended"
=============================================================================
