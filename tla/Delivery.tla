----------------------------- MODULE Delivery ------------------------------
(***************************************************************************)
(* The whole path of a message: SendMsg of service.go on the sender, the   *)
(* PID_NORMAL handler and the dispatcher of the recipient (ChatService),   *)
(* the offline store (Mailbox) and the /chat sessions of the recipient     *)
(* (WsSession).  Processes end and start again; a request may be lost, or  *)
(* be served after its caller has given up on it.                          *)
(***************************************************************************)
EXTENDS ChatService, Mailbox, WsSession

CONSTANTS MaxCrash,  \* bound: how often a process ends
          Consoles   \* nodes started by the console command, which calls Stop

ASSUME DeliveryAssumption == MaxCrash \in Nat /\ Consoles \in SUBSET Nodes

VARIABLES
  snd,      \* the call of SendMsg for each message
  crashes   \* how often a process has ended

vars == <<snd, crashes, chatVars, mailVars, wsVars>>

\* direct, mailbox: in the first, the second RequestWithTimeout.
SendStates == {"new", "direct", "mailbox", "ok", "err", "dead"}

Init ==
  /\ snd = [m \in Msgs |-> "new"]
  /\ crashes = 0
  /\ ChatInit /\ MailInit /\ WsInit

-----------------------------------------------------------------------------
(* SendMsg.                                                                *)

SendTo(m, st) == snd' = [snd EXCEPT ![m] = st]

\* The peers of the two requests.
Target(m) == IF Type[m] = "NormalMsg" THEN Peerid(To[m]) ELSE Peerid(Gid[m])

Fallback(m) == IF Type[m] = "NormalMsg" THEN Mailid(To[m]) ELSE Mailid(Gid[m])

\* The direct request.  No node sets a handler for PID_GROUP, and no peer
\* has the id "": such a request can only fail.
SendMsg(m) ==
  /\ snd[m] = "new"
  /\ Type[m] \in {"NormalMsg", "GroupMsg"}
  /\ SendTo(m, "direct")
  /\ IF Type[m] = "NormalMsg" /\ Target(m) \in Nodes
     THEN RequestNormal(Target(m), m) ELSE UNCHANGED chatVars
  /\ UNCHANGED <<crashes, mailVars, wsVars>>

\* "not support yet"
SendRefused(m) ==
  /\ snd[m] = "new"
  /\ Type[m] \notin {"NormalMsg", "GroupMsg"}
  /\ SendTo(m, "err")
  /\ UNCHANGED <<crashes, chatVars, mailVars, wsVars>>

\* A request got a reply.  SendMsg does not look at its bytes.
SendOk(m) ==
  /\ \/ /\ snd[m] = "direct"
        /\ Type[m] = "NormalMsg" /\ Target(m) \in Nodes
        /\ Answered(Target(m), m)
     \/ /\ snd[m] = "mailbox"
        /\ Fallback(m) \in Nodes
        /\ PutAnswered(Fallback(m), m)
  /\ SendTo(m, "ok")
  /\ UNCHANGED <<crashes, chatVars, mailVars, wsVars>>

\* The direct request failed: the peer cannot be reached, the stream broke,
\* or the timeout passed, whether or not the message has been received.
SendFallback(m) ==
  /\ snd[m] = "direct"
  /\ SendTo(m, "mailbox")
  /\ IF Fallback(m) \in Nodes THEN RequestPut(Fallback(m), m) ELSE UNCHANGED mailVars
  /\ UNCHANGED <<crashes, chatVars, wsVars>>

\* Mutants of SendFail: the error is dropped; all is tried again.
SendFailIgnored(m) ==
  /\ snd[m] = "mailbox"
  /\ SendTo(m, "ok")
  /\ UNCHANGED <<crashes, chatVars, mailVars, wsVars>>

SendFailRetried(m) ==
  /\ snd[m] = "mailbox"
  /\ SendTo(m, "direct")
  /\ UNCHANGED <<crashes, chatVars, mailVars, wsVars>>

\* So did the second one.
SendFail(m) ==
  /\ snd[m] = "mailbox"
  /\ SendTo(m, "err")
  /\ UNCHANGED <<crashes, chatVars, mailVars, wsVars>>

-----------------------------------------------------------------------------
(* Steps of the servers.                                                   *)

ChatStep(A) == A /\ UNCHANGED <<snd, crashes, mailVars, wsVars>>

MailStep(A) == A /\ UNCHANGED <<snd, crashes, chatVars, wsVars>>

-----------------------------------------------------------------------------
(* Steps of the /chat sessions.                                            *)

MailboxOf(s) == Mailid(Myid(Home[s]))

WsStep(A) == A /\ UNCHANGED <<snd, crashes, chatVars, mailVars>>

\* The handler reads a snapshot of the database; the reply may get lost.
SessionQuery(s) ==
  /\ \/ QueryErr(s)
     \/ /\ MailboxOf(s) \in Nodes
        /\ \E msgs \in SortedBags(doQueryMsg(MailboxOf(s), Myid(Home[s]))) :
             QueryOk(s, msgs)
  /\ UNCHANGED <<snd, crashes, chatVars, mailVars>>

SessionClean(s) ==
  /\ PushEnd(s)
  /\ IF ids[s] # <<>>
     THEN RequestClean(MailboxOf(s), s, Myid(Home[s]), ids[s])
     ELSE UNCHANGED mailVars
  /\ UNCHANGED <<snd, crashes, chatVars>>

SessionRegister(s) ==
  /\ Register(s)
  /\ AppendHandleMsg(Home[s], s)
  /\ UNCHANGED <<snd, crashes, mailVars>>

\* Mutant of SessionEnd: the deferred DropHandleMsg is missing.
SessionEndLeaks(s) ==
  /\ LoopEnd(s)
  /\ UNCHANGED <<snd, crashes, chatVars, mailVars>>

SessionEnd(s) ==
  /\ LoopEnd(s)
  /\ DropHandleMsg(Home[s], s)
  /\ UNCHANGED <<snd, crashes, mailVars>>

SessionLive(s, m) ==
  /\ RunHandler(Home[s], s, m)
  /\ LiveWrite(s, m)
  /\ UNCHANGED <<snd, crashes, mailVars>>

-----------------------------------------------------------------------------

\* exit at the console prompt.
ConsoleExit(n) == n \in Consoles /\ ChatStep(Stop(n))

\* The process of n ends, between any two steps, and is started again.
ProcessEnd(n) ==
  /\ crashes < MaxCrash
  /\ crashes' = crashes + 1
  /\ Crash(n) /\ MailCrash(n) /\ WsCrash(n)
  /\ snd' = [m \in Msgs |-> IF From[m] = n /\ snd[m] \in {"direct", "mailbox"}
                            THEN "dead" ELSE snd[m]]

SendStep(m) == SendOk(m) \/ SendFallback(m) \/ SendFail(m)

HandleStep(n, m) == ChatStep(Enqueue(n, m)) \/ ChatStep(DropOnStop(n, m))

DispatchStep(n) ==
  ChatStep(Take(n) \/ RangeEnd(n) \/ \E f \in Sessions : Spawn(n, f))

SessionStep(s) ==
  \/ SessionQuery(s)
  \/ WsStep(Push(s))
  \/ SessionClean(s)
  \/ WsStep(CleanEnd(s))
  \/ SessionRegister(s)
  \/ SessionEnd(s)

Next ==
  \/ \E m \in Msgs : SendMsg(m) \/ SendRefused(m) \/ SendStep(m)
  \/ \E n \in Nodes, m \in Msgs :
       \/ ChatStep(Receive(n, m))
       \/ HandleStep(n, m)
       \/ MailStep(PutMsg(n, m))
       \/ MailStep(PutError(n, m))
  \/ \E n \in Nodes : \/ DispatchStep(n)
                      \/ ChatStep(DispatcherExit(n))
                      \/ ConsoleExit(n)
                      \/ ProcessEnd(n)
  \/ \E s \in Sessions : \/ WsStep(Open(s))
                         \/ WsStep(Reject(s))
                         \/ SessionStep(s)
                         \/ WsStep(ClientClose(s))
                         \/ MailStep(CleanStep(s))
                         \/ \E m \in Msgs : SessionLive(s, m)

Spec == Init /\ [][Next]_vars

\* Every call of RequestWithTimeout returns within its 10 seconds; the Go
\* scheduler runs every goroutine that can go on; ws.Write, which has no
\* deadline, returns.  Nothing else is assumed of the network or of the client.
Fairness ==
  /\ \A m \in Msgs : WF_vars(SendStep(m))
  /\ \A n \in Nodes : WF_vars(DispatchStep(n))
  /\ \A n \in Nodes, m \in Msgs : WF_vars(HandleStep(n, m))
  /\ \A s \in Sessions : /\ WF_vars(SessionStep(s))
                         /\ \A m \in Msgs : WF_vars(SessionLive(s, m))

FairSpec == Spec /\ Fairness

-----------------------------------------------------------------------------
(* Properties.                                                             *)

\* Type invariant of the composition.
TypeOK ==
  /\ snd \in [Msgs -> SendStates]
  /\ crashes \in 0 .. MaxCrash
  /\ ChatTypeOK /\ MailTypeOK
  /\ spc \in [Sessions -> SessionStates]
  /\ ws \in [Sessions -> BOOLEAN]
  /\ bag \in [Sessions -> Seq(Msgs)]
  /\ ids \in [Sessions -> Seq(Msgs)]
  /\ sock \in [Sessions -> Seq({"mail", "live"} \X Msgs)]

\* The /chat handler of a session of n has taken m out of its bag.
Pushed(n, m) == \E s \in Sessions : Home[s] = n /\ m \in ToSet(ids[s])

\* A message SendMsg reported as sent, and that fits in a package, is never
\* without a trace: the recipient queued it, or the mailbox holds it until a
\* session of the recipient has had it to write; the three ways out are a
\* recipient that was told to stop, the end of its process with the message
\* in memory, and a database that refused the row.
SentIsAccounted ==
  \A m \in Msgs : snd[m] = "ok" /\ Decodes(m) =>
    \/ /\ Type[m] = "NormalMsg" /\ Target(m) \in Nodes
       /\ \/ inbox[Target(m)][m] \in {"taken", "lost", "dropped"}
          \/ m \in ToSet(recvMsgCh[Target(m)])
    \/ /\ Fallback(m) \in Nodes
       /\ \/ Row(Peerid(To[m]), m) \in tab[Fallback(m)]
          \/ put[Fallback(m)][m] = "failed"
          \/ Pushed(Peerid(To[m]), m)

\* A stored message leaves the mailbox only after the /chat handler of a
\* session of its recipient had it in hand, whatever sessions, cleans and
\* crashes overlap.
CleanedWasPushed ==
  \A n \in Nodes, m \in Msgs :
    put[n][m] = "stored" => \/ Row(Peerid(To[m]), m) \in tab[n]
                            \/ Pushed(Peerid(To[m]), m)

\* A handler is registered exactly while its session is in the read loop,
\* so no handler outlives its connection and none is left behind.
RegisteredInLoop ==
  \A s \in Sessions : fn[Home[s]][s] = "in" <=> spc[s] = "loop"

\* Sending and /chat together keep the promises of Courier.
Abstract == INSTANCE Courier WITH
  status <- [m \in Msgs |-> IF snd[m] \in {"direct", "mailbox"} THEN "sending" ELSE snd[m]],
  got <- sock

ImplementsCourier == Abstract!CourierSpec

\* Every call of SendMsg returns, unless the process of the caller ends.
SendReturns ==
  \A m \in Msgs : snd[m] = "direct" ~> snd[m] \in {"ok", "err", "dead"}

\* A message queued on a node reaches every client whose session is in its
\* read loop, unless the client goes away, or the node stops or ends.
LiveReaches ==
  \A s \in Sessions, m \in Msgs :
    (inbox[Home[s]][m] = "queued" /\ spc[s] = "loop") ~>
      (<<"live", m>> \in ToSet(sock[s]) \/ ~ws[s] \/ stop[Home[s]] \/ spc[s] = "end")

\* A session that was accepted gets to its read loop or ends, whatever the
\* mailbox does.
SessionStarts == \A s \in Sessions : spc[s] = "query" ~> spc[s] \in {"loop", "end"}

-----------------------------------------------------------------------------
(* What the documents and comments say.                                    *)

\* README: once `open stream` has succeeded the chat messages come on the
\* connection.  A message queued while the client is connected reaches it.
OpenStreamGetsAll ==
  \A s \in Sessions, m \in Msgs :
    (inbox[Home[s]][m] = "queued" /\ ws[s]) ~>
      (<<"live", m>> \in ToSet(sock[s]) \/ ~ws[s] \/ stop[Home[s]] \/ spc[s] = "end")

\* README: the mailbox node is there to receive offline messages.  A stored
\* message that is gone from the mailbox has reached a client.
CleanedWasReceived ==
  \A n \in Nodes, m \in Msgs :
    put[n][m] = "stored" =>
      \/ Row(Peerid(To[m]), m) \in tab[n]
      \/ \E s \in Sessions : <<"mail", m>> \in ToSet(sock[s])
=============================================================================
