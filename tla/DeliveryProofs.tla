--------------------------- MODULE DeliveryProofs ---------------------------
(***************************************************************************)
(* Proofs about Delivery, for any nodes, messages, sessions and process    *)
(* ends: each part keeps its own specification inside the whole, so that   *)
(* what ChatServiceProofs and MailboxProofs show holds there; and what a   *)
(* message that was sent, stored or cleaned has been through.              *)
(***************************************************************************)
EXTENDS Delivery, ChatServiceProofs, MailboxProofs

\* The state that Delivery adds to those of its parts.
SendTyped ==
  /\ snd \in [Msgs -> SendStates]
  /\ crashes \in 0 .. MaxCrash

WsTyped ==
  /\ spc \in [Sessions -> SessionStates]
  /\ ws \in [Sessions -> BOOLEAN]
  /\ bag \in [Sessions -> Seq(Msgs)]
  /\ ids \in [Sessions -> Seq(Msgs)]
  /\ sock \in [Sessions -> Seq({"mail", "live"} \X Msgs)]

\* A request exists only for a message that SendMsg was called with, the
\* direct one only at the peer it names, and only what does not decode is
\* refused.
RequestsInv ==
  \A n \in Nodes, m \in Msgs :
    /\ inbox[n][m] # "none" => n = Peerid(To[m]) /\ snd[m] # "new"
    /\ put[n][m] # "none" => snd[m] # "new"
    /\ inbox[n][m] = "refused" => ~Decodes(m)
    /\ put[n][m] = "refused" => ~Decodes(m)

\* SendMsg reports what one of its two requests has been answered.
DirectDone(m) ==
  Type[m] = "NormalMsg" /\ Target(m) \in Nodes /\ Answered(Target(m), m)

MailboxDone(m) == Fallback(m) \in Nodes /\ PutAnswered(Fallback(m), m)

SentInv == \A m \in Msgs : snd[m] = "ok" => DirectDone(m) \/ MailboxDone(m)

\* How far the handler of a session is, and what it has registered.
RegisteredInv ==
  \A s \in Sessions :
    /\ spc[s] \notin {"loop", "end"} => fn[Home[s]][s] = "fresh"
    /\ fn[Home[s]][s] = "in" <=> spc[s] = "loop"

\* The clean request of a session names its own mailbox and what it wrote.
CleanInv ==
  \A s \in Sessions :
    /\ spc[s] \in {"idle", "query", "push"} => cleaning[s].st = "none"
    /\ spc[s] \in {"idle", "query"} => ids[s] = <<>>
    /\ spc[s] = "push" => MailboxOf(s) \in Nodes
    /\ cleaning[s].st = "none" => cleaning[s].at = NoId
    /\ cleaning[s].st # "none" =>
         cleaning[s].jid = Myid(Home[s]) /\ cleaning[s].ids = ids[s]

\* No message twice, and none before an older one.
Ordered(q) ==
  \A i, j \in DOMAIN q : (q[i] = q[j] => i = j) /\ (Less(q[i], q[j]) => i < j)

\* What a session has in its bag is for its node, and comes after what it
\* has written.
BagInv ==
  \A s \in Sessions :
    /\ \A m \in ToSet(bag[s]) : Peerid(To[m]) = Home[s] /\ snd[m] # "new"
    /\ Ordered(bag[s]) /\ IsInjective(ids[s])
    /\ \A m \in ToSet(ids[s]), k \in ToSet(bag[s]) : m # k /\ ~Less(k, m)

\* What a client has received was written by its session or its handler.
SockInv ==
  \A s \in Sessions, m \in Msgs :
    /\ <<"mail", m>> \in ToSet(sock[s]) => m \in ToSet(ids[s])
    /\ <<"live", m>> \in ToSet(sock[s]) => <<s, m>> \in ran[Home[s]]

-----------------------------------------------------------------------------
(* The steps, by what they touch.                                          *)

\* The PID_NORMAL handler, the dispatcher and Stop.
ServeChat(n) ==
  \/ \E m \in Msgs : Receive(n, m) \/ Enqueue(n, m) \/ DropOnStop(n, m)
  \/ Take(n) \/ RangeEnd(n) \/ DispatcherExit(n) \/ Stop(n)
  \/ \E f \in Sessions : Spawn(n, f)

\* The two handlers of the mailbox.
ServeMail ==
  \/ \E n \in Nodes, m \in Msgs : PutMsg(n, m) \/ PutError(n, m)
  \/ \E s \in Sessions : CleanStep(s)

\* The /chat handler between its calls, and its client.
ServeWs(s) == Open(s) \/ Reject(s) \/ Push(s) \/ CleanEnd(s) \/ ClientClose(s)

Sending(m) ==
  SendMsg(m) \/ SendRefused(m) \/ SendOk(m) \/ SendFallback(m) \/ SendFail(m)

LEMMA Steps ==
  ASSUME Next
  PROVE  \/ \E m \in Msgs : Sending(m)
         \/ \E n \in Nodes : ServeChat(n) /\ UNCHANGED <<snd, crashes, mailVars, wsVars>>
         \/ ServeMail /\ UNCHANGED <<snd, crashes, chatVars, wsVars>>
         \/ \E s \in Sessions :
              \/ ServeWs(s) /\ UNCHANGED <<snd, crashes, chatVars, mailVars>>
              \/ SessionQuery(s) \/ SessionClean(s) \/ SessionRegister(s) \/ SessionEnd(s)
              \/ \E m \in Msgs : SessionLive(s, m)
         \/ \E n \in Nodes : ProcessEnd(n)
BY DEF Next, SendStep, HandleStep, DispatchStep, SessionStep, ConsoleExit, ChatStep, MailStep,
  WsStep, ServeChat, ServeMail, ServeWs, Sending

\* Inside Delivery, a node takes only the steps of its chat service.
LEMMA ChatSteps == ASSUME [Next]_vars PROVE [ChatNext]_chatVars
<1> USE DEF ChatNext, ChatNode
<1>1. ASSUME NEW m \in Msgs, Sending(m) PROVE [ChatNext]_chatVars
  BY <1>1 DEF Sending, SendMsg, SendRefused, SendOk, SendFallback, SendFail
<1>2. ASSUME NEW n \in Nodes, ServeChat(n) PROVE ChatNext
  BY <1>2 DEF ServeChat
<1>3. ASSUME NEW s \in Sessions,
             \/ SessionQuery(s) \/ SessionClean(s) \/ SessionRegister(s) \/ SessionEnd(s)
             \/ \E m \in Msgs : SessionLive(s, m)
      PROVE  [ChatNext]_chatVars
  BY <1>3, SessionAssumption
  DEF SessionQuery, SessionClean, SessionRegister, SessionEnd, SessionLive
<1>4. ASSUME NEW n \in Nodes, ProcessEnd(n) PROVE ChatNext
  BY <1>4 DEF ProcessEnd
<1>5. CASE UNCHANGED vars
  BY <1>5 DEF vars
<1> QED
  BY <1>1, <1>2, <1>3, <1>4, <1>5, Steps

\* service.go: as a part of Delivery, a node is a chat service.
THEOREM DeliveryRunsChat == Spec => ChatSpec
<1>1. Init => ChatInit
  BY DEF Init
<1> QED
  BY <1>1, ChatSteps, PTL DEF Spec, ChatSpec

-----------------------------------------------------------------------------
(* Facts about the lists of messages.                                      *)

LEMMA AppendToSet ==
  ASSUME NEW T, NEW q \in Seq(T), NEW e \in T
  PROVE  Append(q, e) \in Seq(T) /\ ToSet(Append(q, e)) = ToSet(q) \cup {e}
<1>1. /\ Append(q, e) \in Seq(T)
      /\ Len(Append(q, e)) = Len(q) + 1
      /\ \A i \in 1 .. Len(q) : Append(q, e)[i] = q[i]
      /\ Append(q, e)[Len(q) + 1] = e
  BY AppendProperties
<1>2. DOMAIN Append(q, e) = 1 .. Len(q) + 1 /\ DOMAIN q = 1 .. Len(q) /\ Len(q) \in Nat
  BY <1>1, LenProperties
<1> QED
  BY <1>1, <1>2 DEF ToSet

\* What a session has written is a list of ids that a client may clean.
LEMMA InjectiveIsIdList ==
  ASSUME NEW q \in Seq(Msgs), IsInjective(q)
  PROVE  q \in IdLists
<1> DEFINE S == ToSet(q)
<1>1. DOMAIN q = 1 .. Len(q) /\ Len(q) \in Nat /\ q \in [1 .. Len(q) -> Msgs]
  BY LenProperties
<1>2. S \in SUBSET Msgs /\ q \in [1 .. Len(q) -> S]
  BY <1>1 DEF ToSet
<1>3. q \in Bijection(1 .. Len(q), S)
  BY <1>1, <1>2 DEF ToSet, IsInjective, Bijection, Injection, Surjection
<1>4. Cardinality(S) = Len(q)
  BY <1>1, <1>3, FS_CountingElements DEF ExistsBijection
<1>5. q \in SetToSeqs(S)
  BY <1>1, <1>2, <1>4 DEF SetToSeqs, IsInjective
<1> QED
  BY <1>2, <1>5 DEF IdLists

\* What QueryMsg returns: messages of the table, each once, sorted by Ct.
LEMMA SortedBagsFacts ==
  ASSUME NEW S \in SUBSET Msgs, NEW q \in SortedBags(S)
  PROVE  q \in Seq(Msgs) /\ ToSet(q) \subseteq S /\ Ordered(q)
<1>1. Cardinality(S) \in Nat
  BY TypesAssumption, FS_Subset, FS_CardinalityType
<1>2. /\ q \in [1 .. Cardinality(S) -> S]
      /\ \A i, j \in 1 .. Cardinality(S) : i # j => q[i] # q[j]
      /\ \A i, j \in DOMAIN q : Less(q[i], q[j]) => i < j
  BY DEF SortedBags, SetToSeqs
<1>3. DOMAIN q = 1 .. Cardinality(S)
  BY <1>2
<1> QED
  BY <1>1, <1>2, <1>3 DEF Ordered, ToSet

\* The next message of a bag comes before the rest.
LEMMA OrderedTail ==
  ASSUME NEW q \in Seq(Msgs), q # <<>>, Ordered(q)
  PROVE  /\ Head(q) \in Msgs /\ Head(q) \in ToSet(q)
         /\ Tail(q) \in Seq(Msgs) /\ Ordered(Tail(q))
         /\ ToSet(Tail(q)) \subseteq ToSet(q)
         /\ \A k \in ToSet(Tail(q)) : k # Head(q) /\ ~Less(k, Head(q))
<1>1. IsInjective(q)
  BY DEF Ordered, IsInjective
<1>2. /\ Head(q) \in Msgs /\ Head(q) \in ToSet(q)
      /\ Tail(q) \in Seq(Msgs) /\ ToSet(Tail(q)) = ToSet(q) \ {Head(q)}
  BY <1>1, TakeFacts
<1>3. /\ Head(q) = q[1] /\ Len(Tail(q)) = Len(q) - 1
      /\ \A i \in 1 .. Len(q) - 1 : Tail(q)[i] = q[i + 1]
  BY HeadTailProperties
<1>4. /\ DOMAIN q = 1 .. Len(q) /\ Len(q) \in Nat \ {0}
      /\ DOMAIN Tail(q) = 1 .. Len(q) - 1
  BY <1>2, <1>3, LenProperties, EmptySeq
<1>5. Ordered(Tail(q))
  BY <1>3, <1>4 DEF Ordered
<1>6. ASSUME NEW k \in ToSet(Tail(q)) PROVE ~Less(k, Head(q))
  <2>1. PICK i \in 1 .. Len(q) : k = q[i]
    BY <1>2, <1>4, <1>6 DEF ToSet
  <2> QED
    BY <1>3, <1>4, <2>1 DEF Ordered
<1> QED
  BY <1>2, <1>5, <1>6

\* ws.Write: at most the message is added to what the client has.
LEMMA WriteFacts ==
  ASSUME WsTyped, NEW s \in Sessions, NEW m \in Msgs, NEW src \in {"mail", "live"},
         Write(s, src, m)
  PROVE  /\ sock' \in [Sessions -> Seq({"mail", "live"} \X Msgs)]
         /\ \A t \in Sessions \ {s} : sock'[t] = sock[t]
         /\ ToSet(sock'[s]) \subseteq ToSet(sock[s]) \cup {<<src, m>>}
<1>1. sock \in [Sessions -> Seq({"mail", "live"} \X Msgs)]
  BY DEF WsTyped
<1>2. CASE ws[s]
  <2>1. sock' = [sock EXCEPT ![s] = Append(sock[s], <<src, m>>)]
    BY <1>1, <1>2 DEF Write
  <2>2. /\ Append(sock[s], <<src, m>>) \in Seq({"mail", "live"} \X Msgs)
        /\ ToSet(Append(sock[s], <<src, m>>)) = ToSet(sock[s]) \cup {<<src, m>>}
    BY <1>1, AppendToSet
  <2> QED
    BY <1>1, <2>1, <2>2
<1>3. CASE ~ws[s]
  BY <1>1, <1>3 DEF Write
<1> QED
  BY <1>2, <1>3

-----------------------------------------------------------------------------
(* What the steps do to the requests and to the sessions.                  *)

\* The inductive invariant.
DeliveryInv ==
  /\ ChatInv /\ MailInv
  /\ SendTyped /\ WsTyped
  /\ RequestsInv /\ SentInv
  /\ RegisteredInv /\ CleanInv /\ BagInv /\ SockInv

\* A direct request is made by SendMsg, to the peer that the message names;
\* the bytes of its reply are not taken back.
LEMMA InboxSteps ==
  ASSUME ChatInv, Next, NEW n \in Nodes, NEW m \in Msgs
  PROVE  /\ inbox[n][m] = "none" =>
              \/ inbox'[n][m] = "none"
              \/ SendMsg(m) /\ Type[m] = "NormalMsg" /\ n = Target(m)
         /\ inbox'[n][m] = "refused" => inbox[n][m] = "refused" \/ ~Decodes(m)
         /\ Answered(n, m) => Answered(n, m)'
<1> USE DEF Answered
<1>0. /\ inbox \in [Nodes -> [Msgs -> InboxStates]]
      /\ \A k \in Nodes : recvMsgCh[k] \in Seq(Msgs)
  BY DEF ChatInv, ChatTypeOK
<1>a. ASSUME NEW k \in Nodes, NEW e \in Msgs, NEW st, inbox' = [inbox EXCEPT ![k][e] = st]
      PROVE  inbox'[n][m] = IF n = k /\ m = e THEN st ELSE inbox[n][m]
  BY <1>0, <1>a
<1>1. ASSUME NEW e \in Msgs, Sending(e), inbox' # inbox
      PROVE  /\ SendMsg(e) /\ Type[e] = "NormalMsg" /\ Target(e) \in Nodes
             /\ inbox[Target(e)][e] = "none"
             /\ inbox' = [inbox EXCEPT ![Target(e)][e] = "sent"]
  BY <1>1 DEF Sending, SendMsg, SendRefused, SendOk, SendFallback, SendFail, RequestNormal, chatVars
<1>2. CASE \E e \in Msgs : Sending(e)
  <2>1. PICK e \in Msgs : Sending(e)
    BY <1>2
  <2>2. CASE inbox' = inbox
    BY <2>2
  <2>3. CASE inbox' # inbox
    BY <1>1, <1>a, <2>1, <2>3
  <2> QED
    BY <2>2, <2>3
<1>3. ASSUME NEW k \in Nodes, ServeChat(k)
      PROVE  \/ UNCHANGED inbox
             \/ \E e \in Msgs :
                  \/ /\ inbox[k][e] = "sent"
                     /\ inbox' = [inbox EXCEPT ![k][e] = IF Decodes(e) THEN "select" ELSE "refused"]
                  \/ inbox[k][e] = "select" /\ inbox' = [inbox EXCEPT ![k][e] = "queued"]
                  \/ inbox[k][e] = "select" /\ inbox' = [inbox EXCEPT ![k][e] = "dropped"]
                  \/ inbox[k][e] = "queued" /\ inbox' = [inbox EXCEPT ![k][e] = "taken"]
  <2>1. CASE Take(k)
    <3>1. Head(recvMsgCh[k]) \in Msgs /\ inbox[k][Head(recvMsgCh[k])] = "queued"
      BY <1>0, <2>1, TakeFacts DEF Take, ChatInv, QueuedOnce
    <3> QED
      BY <2>1, <3>1 DEF Take
  <2>2. CASE \E e \in Msgs : Receive(k, e) \/ Enqueue(k, e) \/ DropOnStop(k, e)
    BY <2>2 DEF Receive, Enqueue, DropOnStop
  <2>3. CASE RangeEnd(k) \/ DispatcherExit(k) \/ Stop(k) \/ \E f \in Sessions : Spawn(k, f)
    BY <2>3 DEF RangeEnd, DispatcherExit, Stop, Spawn
  <2> QED
    BY <1>3, <2>1, <2>2, <2>3 DEF ServeChat
<1>4. CASE \E k \in Nodes : ServeChat(k)
  BY <1>3, <1>4, <1>a
<1>5. CASE UNCHANGED inbox
  BY <1>5
<1>6. ASSUME NEW k \in Nodes, Crash(k)
      PROVE  inbox'[n][m] = IF n # k THEN inbox[n][m]
                            ELSE IF inbox[n][m] \in {"sent", "select"} THEN "dead"
                            ELSE IF inbox[n][m] = "queued" THEN "lost" ELSE inbox[n][m]
  BY <1>0, <1>6 DEF Crash
<1>7. CASE \E k \in Nodes : Crash(k)
  BY <1>6, <1>7
<1>8. \/ \E e \in Msgs : Sending(e)
      \/ \E k \in Nodes : ServeChat(k)
      \/ UNCHANGED inbox
      \/ \E k \in Nodes : Crash(k)
  BY Steps DEF SessionQuery, SessionClean, SessionRegister, SessionEnd, SessionLive, ProcessEnd,
    chatVars, AppendHandleMsg, DropHandleMsg, RunHandler
<1> QED
  BY <1>2, <1>4, <1>5, <1>7, <1>8

\* A mailbox request is made by SendMsg; what its handler has done stays.
LEMMA PutSteps ==
  ASSUME MailInv, Next, NEW n \in Nodes, NEW m \in Msgs
  PROVE  /\ put[n][m] = "none" => put'[n][m] = "none" \/ SendFallback(m)
         /\ put'[n][m] = "refused" => put[n][m] = "refused" \/ ~Decodes(m)
         /\ PutAnswered(n, m) => PutAnswered(n, m)'
<1> USE DEF PutAnswered
<1>0. put \in [Nodes -> [Msgs -> PutStates]]
  BY DEF MailInv, MailTypeOK
<1>a. ASSUME NEW k \in Nodes, NEW e \in Msgs, NEW st, put' = [put EXCEPT ![k][e] = st]
      PROVE  put'[n][m] = IF n = k /\ m = e THEN st ELSE put[n][m]
  BY <1>0, <1>a
<1>1. ASSUME NEW e \in Msgs, Sending(e), put' # put
      PROVE  /\ SendFallback(e) /\ Fallback(e) \in Nodes
             /\ put[Fallback(e)][e] = "none"
             /\ put' = [put EXCEPT ![Fallback(e)][e] = "sent"]
  BY <1>1 DEF Sending, SendMsg, SendRefused, SendOk, SendFallback, SendFail, RequestPut, mailVars
<1>2. CASE \E e \in Msgs : Sending(e)
  <2>1. PICK e \in Msgs : Sending(e)
    BY <1>2
  <2>2. CASE put' = put
    BY <2>2
  <2>3. CASE put' # put
    BY <1>1, <1>a, <2>1, <2>3
  <2> QED
    BY <2>2, <2>3
<1>3. CASE \E k \in Nodes, e \in Msgs : PutMsg(k, e) \/ PutError(k, e)
  <2>1. PICK k \in Nodes, e \in Msgs : PutMsg(k, e) \/ PutError(k, e)
    BY <1>3
  <2>2. /\ put[k][e] = "sent"
        /\ \/ \E st \in {"stored", "unsupported", "failed"} : put' = [put EXCEPT ![k][e] = st]
           \/ ~Decodes(e) /\ put' = [put EXCEPT ![k][e] = "refused"]
    BY <2>1 DEF PutMsg, PutError
  <2> QED
    BY <1>a, <2>2
<1>4. CASE UNCHANGED put
  BY <1>4
<1>5. ASSUME NEW k \in Nodes, MailCrash(k)
      PROVE  put'[n][m] = IF n = k /\ put[n][m] = "sent" THEN "dead" ELSE put[n][m]
  BY <1>0, <1>5 DEF MailCrash
<1>6. CASE \E k \in Nodes : MailCrash(k)
  BY <1>5, <1>6
<1>7. \/ \E e \in Msgs : Sending(e)
      \/ \E k \in Nodes, e \in Msgs : PutMsg(k, e) \/ PutError(k, e)
      \/ UNCHANGED put
      \/ \E k \in Nodes : MailCrash(k)
  BY Steps DEF SessionQuery, SessionClean, SessionRegister, SessionEnd, SessionLive, ProcessEnd,
    mailVars, ServeMail, CleanStep, RequestClean
<1> QED
  BY <1>2, <1>3, <1>4, <1>6, <1>7

\* SendMsg begins once, and its outcome is final.
LEMMA SndSteps ==
  ASSUME SendTyped, Next, NEW m \in Msgs
  PROVE  /\ snd'[m] \in SendStates
         /\ snd[m] # "new" => snd'[m] # "new"
         /\ SendMsg(m) => snd'[m] # "new"
         /\ SendFallback(m) => snd'[m] # "new"
         /\ snd'[m] = "ok" => snd[m] = "ok" \/ SendOk(m)
<1>0. snd \in [Msgs -> SendStates]
  BY DEF SendTyped
<1>1. ASSUME NEW e \in Msgs, NEW st \in SendStates, SendTo(e, st)
      PROVE  snd'[m] = IF m = e THEN st ELSE snd[m]
  BY <1>0, <1>1 DEF SendTo
<1>2. ASSUME NEW e \in Msgs
      PROVE  /\ SendMsg(e) => snd[e] = "new" /\ SendTo(e, "direct")
             /\ SendRefused(e) => snd[e] = "new" /\ SendTo(e, "err")
             /\ SendOk(e) => SendTo(e, "ok")
             /\ SendFallback(e) => SendTo(e, "mailbox")
             /\ SendFail(e) => SendTo(e, "err")
  BY DEF SendMsg, SendRefused, SendOk, SendFallback, SendFail
<1>3. CASE \E e \in Msgs : Sending(e)
  <2>1. PICK e \in Msgs : Sending(e)
    BY <1>3
  <2>2. CASE SendMsg(e) \/ SendRefused(e) \/ SendFallback(e) \/ SendFail(e)
    BY <1>0, <1>1, <1>2, <2>2 DEF SendStates
  <2>3. CASE SendOk(e)
    BY <1>0, <1>1, <1>2, <2>3 DEF SendStates
  <2> QED
    BY <2>1, <2>2, <2>3 DEF Sending
<1>4. ASSUME NEW k \in Nodes, ProcessEnd(k)
      PROVE  /\ ~SendMsg(m) /\ ~SendFallback(m)
             /\ snd'[m] = IF From[m] = k /\ snd[m] \in {"direct", "mailbox"} THEN "dead" ELSE snd[m]
  <2>1. crashes' = crashes + 1 /\ crashes \in 0 .. MaxCrash
    BY <1>4 DEF ProcessEnd, SendTyped
  <2>2. crashes' # crashes
    BY <2>1
  <2>3. ~SendMsg(m) /\ ~SendFallback(m)
    BY <2>2 DEF SendMsg, SendFallback
  <2> QED
    BY <1>4, <2>3 DEF ProcessEnd
<1>5. CASE \E k \in Nodes : ProcessEnd(k)
  BY <1>0, <1>4, <1>5 DEF SendStates
<1>6. CASE UNCHANGED snd
  <2>1. SendMsg(m) \/ SendFallback(m) => snd'[m] # snd[m]
    BY <1>0, <1>1, <1>2 DEF SendMsg, SendFallback, SendStates
  <2> QED
    BY <1>0, <1>6, <2>1
<1>7. \/ \E e \in Msgs : Sending(e)
      \/ \E k \in Nodes : ProcessEnd(k)
      \/ UNCHANGED snd
  BY Steps DEF SessionQuery, SessionClean, SessionRegister, SessionEnd, SessionLive
<1> QED
  BY <1>3, <1>5, <1>6, <1>7

\* Inside Delivery, a node takes only the steps of its mailbox: a session
\* asks its own mailbox to clean for its own node, each id once.
LEMMA MailSteps ==
  ASSUME WsTyped, CleanInv, BagInv, [Next]_vars
  PROVE  [MailNext]_mailVars
<1>1. ASSUME NEW m \in Msgs, Sending(m) PROVE [MailNext]_mailVars
  BY <1>1 DEF Sending, SendMsg, SendRefused, SendOk, SendFallback, SendFail, MailNext
<1>2. CASE ServeMail
  BY <1>2 DEF ServeMail, MailNext
<1>3. ASSUME NEW s \in Sessions, SessionClean(s) PROVE [MailNext]_mailVars
  <2>1. CASE ids[s] = <<>>
    BY <1>3, <2>1 DEF SessionClean
  <2>2. CASE ids[s] # <<>>
    <3>1. RequestClean(MailboxOf(s), s, Myid(Home[s]), ids[s])
      BY <1>3, <2>2 DEF SessionClean
    <3>2. MailboxOf(s) \in Nodes /\ Home[s] \in Nodes
      BY <1>3, SessionAssumption DEF SessionClean, PushEnd, CleanInv
    <3>3. ids[s] \in IdLists
      BY InjectiveIsIdList DEF WsTyped, BagInv
    <3> QED
      BY <3>1, <3>2, <3>3 DEF MailNext
  <2> QED
    BY <2>1, <2>2
<1>4. ASSUME NEW n \in Nodes, ProcessEnd(n) PROVE MailNext
  BY <1>4 DEF ProcessEnd, MailNext
<1>5. CASE UNCHANGED mailVars
  BY <1>5
<1>6. \/ \E m \in Msgs : Sending(m)
      \/ ServeMail
      \/ \E s \in Sessions : SessionClean(s)
      \/ \E n \in Nodes : ProcessEnd(n)
      \/ UNCHANGED mailVars
  BY Steps DEF SessionQuery, SessionRegister, SessionEnd, SessionLive, vars
<1> QED
  BY <1>1, <1>2, <1>3, <1>4, <1>5, <1>6

\* The variables of the sessions keep their types.
LEMMA WsTypedStep == ASSUME WsTyped, Next PROVE WsTyped'
<1> USE DEF WsTyped
<1>0. ASSUME NEW s \in Sessions, NEW l \in SessionStates, Goto(s, l)
      PROVE  spc' \in [Sessions -> SessionStates]
  BY <1>0 DEF Goto
<1>1. CASE UNCHANGED wsVars
  BY <1>1 DEF wsVars
<1>2. ASSUME NEW s \in Sessions, Push(s) PROVE WsTyped'
  <2>1. bag[s] \in Seq(Msgs) /\ bag[s] # <<>>
    BY <1>2 DEF Push
  <2>2. Head(bag[s]) \in Msgs /\ Tail(bag[s]) \in Seq(Msgs)
    BY <2>1, HeadTailProperties
  <2>3. Append(ids[s], Head(bag[s])) \in Seq(Msgs)
    BY <2>2, AppendToSet
  <2>4. sock' \in [Sessions -> Seq({"mail", "live"} \X Msgs)]
    BY <1>2, <2>2, WriteFacts DEF Push
  <2> QED
    BY <1>2, <2>2, <2>3, <2>4 DEF Push
<1>3. ASSUME NEW s \in Sessions, SessionQuery(s) PROVE WsTyped'
  <2>1. CASE QueryErr(s)
    BY <1>0, <2>1 DEF QueryErr, SessionStates
  <2>2. CASE \E q \in SortedBags(doQueryMsg(MailboxOf(s), Myid(Home[s]))) : QueryOk(s, q)
    <3>1. PICK q \in SortedBags(doQueryMsg(MailboxOf(s), Myid(Home[s]))) : QueryOk(s, q)
      BY <2>2
    <3>2. doQueryMsg(MailboxOf(s), Myid(Home[s])) \in SUBSET Msgs
      BY DEF doQueryMsg
    <3>3. q \in Seq(Msgs)
      BY <3>2, SortedBagsFacts
    <3> QED
      BY <1>0, <3>1, <3>3 DEF QueryOk, SessionStates
  <2> QED
    BY <1>3, <2>1, <2>2 DEF SessionQuery
<1>4. ASSUME NEW s \in Sessions, Open(s) \/ Reject(s) \/ CleanEnd(s) \/ ClientClose(s)
                                 \/ PushEnd(s) \/ Register(s) \/ LoopEnd(s)
      PROVE  WsTyped'
  <2>1. spc' \in [Sessions -> SessionStates]
    <3>1. \/ UNCHANGED spc
          \/ \E l \in SessionStates : Goto(s, l)
      BY <1>4 DEF Open, Reject, CleanEnd, ClientClose, PushEnd, Register, LoopEnd, SessionStates
    <3> QED
      BY <1>0, <3>1
  <2>2. ws' \in [Sessions -> BOOLEAN] /\ UNCHANGED <<bag, ids, sock>>
    BY <1>4 DEF Open, Reject, CleanEnd, ClientClose, PushEnd, Register, LoopEnd
  <2> QED
    BY <2>1, <2>2
<1>5. ASSUME NEW s \in Sessions, NEW m \in Msgs, LiveWrite(s, m) PROVE WsTyped'
  BY <1>5, WriteFacts DEF LiveWrite
<1>6. ASSUME NEW n \in Nodes, WsCrash(n) PROVE WsTyped'
  BY <1>6 DEF WsCrash, SessionStates
<1>7. \/ UNCHANGED wsVars
      \/ \E s \in Sessions :
           \/ Push(s) \/ SessionQuery(s)
           \/ Open(s) \/ Reject(s) \/ CleanEnd(s) \/ ClientClose(s)
           \/ PushEnd(s) \/ Register(s) \/ LoopEnd(s)
           \/ \E m \in Msgs : LiveWrite(s, m)
      \/ \E n \in Nodes : WsCrash(n)
  BY Steps DEF Sending, SendMsg, SendRefused, SendOk, SendFallback, SendFail, ServeWs,
    SessionClean, SessionRegister, SessionEnd, SessionLive, ProcessEnd
<1> QED
  BY <1>1, <1>2, <1>3, <1>4, <1>5, <1>6, <1>7

\* The requests of a message.
LEMMA RequestsStep == ASSUME ChatInv, MailInv, SendTyped, RequestsInv, Next PROVE RequestsInv'
<1> SUFFICES ASSUME NEW n \in Nodes, NEW m \in Msgs
             PROVE  /\ inbox'[n][m] # "none" => n = Peerid(To[m]) /\ snd'[m] # "new"
                    /\ put'[n][m] # "none" => snd'[m] # "new"
                    /\ inbox'[n][m] = "refused" => ~Decodes(m)
                    /\ put'[n][m] = "refused" => ~Decodes(m)
  BY DEF RequestsInv
<1>1. inbox'[n][m] # "none" => n = Peerid(To[m]) /\ snd'[m] # "new"
  BY InboxSteps, SndSteps DEF RequestsInv, Target
<1>2. put'[n][m] # "none" => snd'[m] # "new"
  BY PutSteps, SndSteps DEF RequestsInv
<1> QED
  BY <1>1, <1>2, InboxSteps, PutSteps DEF RequestsInv

LEMMA SentStep == ASSUME ChatInv, MailInv, SendTyped, SentInv, Next PROVE SentInv'
<1> SUFFICES ASSUME NEW m \in Msgs, snd'[m] = "ok" PROVE DirectDone(m)' \/ MailboxDone(m)'
  BY DEF SentInv
<1>1. DirectDone(m) \/ MailboxDone(m)
  BY SndSteps DEF SentInv, SendOk, DirectDone, MailboxDone
<1>2. CASE DirectDone(m)
  BY <1>2, InboxSteps DEF DirectDone, Target
<1>3. CASE MailboxDone(m)
  BY <1>3, PutSteps DEF MailboxDone, Fallback
<1> QED
  BY <1>1, <1>2, <1>3

\* A handler is registered when its session enters the read loop and dropped
\* when it leaves it.
LEMMA RegisteredStep == ASSUME ChatInv, WsTyped, RegisteredInv, Next PROVE RegisteredInv'
<1> USE DEF RegisteredInv
<1>0. /\ fn \in [Nodes -> [Sessions -> {"fresh", "in", "out"}]]
      /\ spc \in [Sessions -> SessionStates]
      /\ \A s \in Sessions : Home[s] \in Nodes
  BY SessionAssumption DEF ChatInv, ChatTypeOK, WsTyped
<1>1. CASE UNCHANGED <<fn, spc>>
  BY <1>1
<1>2. ASSUME NEW s \in Sessions, NEW l \in SessionStates \ {"loop"}, UNCHANGED fn, Goto(s, l),
             spc[s] \notin {"loop", "end"}
      PROVE  RegisteredInv'
  BY <1>0, <1>2 DEF Goto
<1>3. ASSUME NEW s \in Sessions, SessionRegister(s) PROVE RegisteredInv'
  <2>1. spc' = [spc EXCEPT ![s] = "loop"] /\ fn' = [fn EXCEPT ![Home[s]][s] = "in"]
    BY <1>3 DEF SessionRegister, Register, Goto, AppendHandleMsg
  <2> QED
    BY <1>0, <2>1
<1>4. ASSUME NEW s \in Sessions, SessionEnd(s) PROVE RegisteredInv'
  <2>1. spc' = [spc EXCEPT ![s] = "end"] /\ fn' = [fn EXCEPT ![Home[s]][s] = "out"]
    BY <1>4 DEF SessionEnd, LoopEnd, Goto, DropHandleMsg
  <2> QED
    BY <1>0, <2>1
<1>5. ASSUME NEW n \in Nodes, ProcessEnd(n) PROVE RegisteredInv'
  <2>1. /\ fn' = [fn EXCEPT ![n] = [f \in Sessions |-> IF fn[n][f] = "in" THEN "out" ELSE fn[n][f]]]
        /\ spc' = [s \in Sessions |-> IF Home[s] = n /\ spc[s] # "idle" THEN "end" ELSE spc[s]]
    BY <1>5 DEF ProcessEnd, Crash, WsCrash
  <2>2. ASSUME NEW s \in Sessions
        PROVE  fn'[Home[s]][s] = IF Home[s] = n /\ fn[Home[s]][s] = "in" THEN "out" ELSE fn[Home[s]][s]
    BY <1>0, <2>1
  <2> QED
    BY <1>0, <2>1, <2>2
<1>6. ASSUME NEW s \in Sessions,
             \/ (Open(s) \/ Reject(s) \/ CleanEnd(s)) /\ UNCHANGED chatVars
             \/ SessionQuery(s) \/ SessionClean(s)
      PROVE  \E l \in SessionStates \ {"loop"} :
               UNCHANGED fn /\ Goto(s, l) /\ spc[s] \notin {"loop", "end"}
  BY <1>6 DEF Open, Reject, CleanEnd, SessionQuery, QueryOk, QueryErr, SessionClean, PushEnd,
    SessionStates, chatVars
<1>7. \/ UNCHANGED <<fn, spc>>
      \/ \E s \in Sessions :
           \/ (Open(s) \/ Reject(s) \/ CleanEnd(s)) /\ UNCHANGED chatVars
           \/ SessionQuery(s) \/ SessionClean(s)
           \/ SessionRegister(s) \/ SessionEnd(s)
      \/ \E n \in Nodes : ProcessEnd(n)
  <2>1. ASSUME NEW m \in Msgs, Sending(m) PROVE UNCHANGED <<fn, spc>>
    BY <2>1 DEF Sending, SendMsg, SendRefused, SendOk, SendFallback, SendFail, RequestNormal,
      chatVars, wsVars
  <2>2. ASSUME NEW n \in Nodes, ServeChat(n) PROVE UNCHANGED fn
    BY <2>2 DEF ServeChat, Receive, Enqueue, DropOnStop, Take, RangeEnd, DispatcherExit, Stop, Spawn
  <2>3. ASSUME NEW s \in Sessions, NEW m \in Msgs, SessionLive(s, m) PROVE UNCHANGED <<fn, spc>>
    BY <2>3 DEF SessionLive, RunHandler, LiveWrite
  <2>4. ASSUME NEW s \in Sessions, Push(s) \/ ClientClose(s) PROVE UNCHANGED spc
    BY <2>4 DEF Push, ClientClose
  <2> QED
    BY <2>1, <2>2, <2>3, <2>4, Steps DEF ServeWs, chatVars, wsVars
<1> QED
  BY <1>1, <1>2, <1>3, <1>4, <1>5, <1>6, <1>7

\* A clean request is made once, after the last message was written.
LEMMA CleanInvStep == ASSUME MailInv, WsTyped, CleanInv, Next PROVE CleanInv'
<1> USE DEF CleanInv
<1>0. /\ cleaning \in [Sessions -> CleanRecords]
      /\ spc \in [Sessions -> SessionStates] /\ ids \in [Sessions -> Seq(Msgs)]
  BY DEF MailInv, MailTypeOK, CleanRecords, WsTyped
<1>1. CASE UNCHANGED <<cleaning, spc, ids>>
  BY <1>1 DEF MailboxOf
<1>2. ASSUME NEW s \in Sessions, NEW l \in SessionStates, UNCHANGED <<cleaning, ids>>, Goto(s, l),
             l \in {"query", "push"} => spc[s] \in {"idle", "query"},
             l = "query" => spc[s] = "idle", l # "idle",
             l = "push" => MailboxOf(s) \in Nodes
      PROVE  CleanInv'
  BY <1>0, <1>2 DEF Goto, MailboxOf
<1>3. ASSUME NEW s \in Sessions, Push(s) PROVE spc[s] = "push" /\ UNCHANGED spc
                                            /\ \A t \in Sessions \ {s} : ids'[t] = ids[t]
  BY <1>0, <1>3 DEF Push
<1>4. ASSUME NEW s \in Sessions, Push(s), UNCHANGED cleaning PROVE CleanInv'
  BY <1>3, <1>4 DEF MailboxOf
<1>5. ASSUME NEW s \in Sessions, SessionClean(s) PROVE CleanInv'
  <2>1. /\ spc[s] = "push" /\ UNCHANGED ids
        /\ spc' = [spc EXCEPT ![s] = IF ids[s] = <<>> THEN "register" ELSE "clean"]
    BY <1>5 DEF SessionClean, PushEnd, Goto
  <2>2. CASE ids[s] = <<>>
    BY <1>0, <1>5, <2>1, <2>2 DEF SessionClean, mailVars, MailboxOf
  <2>3. CASE ids[s] # <<>>
    <3>1. cleaning' = [cleaning EXCEPT ![s] = [st |-> "sent", at |-> MailboxOf(s),
                         jid |-> Myid(Home[s]), ids |-> ids[s], next |-> 1]]
      BY <1>5, <2>3 DEF SessionClean, RequestClean
    <3> QED
      BY <1>0, <2>1, <3>1, <2>3 DEF MailboxOf
  <2> QED
    BY <2>2, <2>3
<1>6. ASSUME NEW s \in Sessions, CleanStep(s), UNCHANGED wsVars PROVE CleanInv'
  <2>1. cleaning' = [cleaning EXCEPT ![s] = [cleaning[s] EXCEPT !.next = cleaning[s].next + 1]]
    BY <1>0, <1>6 DEF CleanStep
  <2>2. cleaning[s].next + 1 \in Nat
    BY <1>0 DEF CleanRecords
  <2>3. ASSUME NEW t \in Sessions
        PROVE  /\ cleaning'[t].st = cleaning[t].st /\ cleaning'[t].jid = cleaning[t].jid
               /\ cleaning'[t].ids = cleaning[t].ids /\ cleaning'[t].at = cleaning[t].at
    <3>1. CASE t = s
      BY <1>0, <2>1, <2>2, <3>1 DEF CleanRecords
    <3>2. CASE t # s
      BY <1>0, <2>1, <3>2
    <3> QED
      BY <3>1, <3>2
  <2> QED
    BY <1>6, <2>3 DEF wsVars, MailboxOf
<1>7. ASSUME NEW n \in Nodes, ProcessEnd(n) PROVE CleanInv'
  <2>1. /\ spc' = [s \in Sessions |-> IF Home[s] = n /\ spc[s] # "idle" THEN "end" ELSE spc[s]]
        /\ UNCHANGED ids
        /\ cleaning' = [s \in Sessions |-> IF cleaning[s].at = n
                          THEN [cleaning[s] EXCEPT !.st = "dead"] ELSE cleaning[s]]
    BY <1>7 DEF ProcessEnd, MailCrash, WsCrash
  <2>2. ASSUME NEW t \in Sessions
        PROVE  /\ cleaning'[t].st = IF cleaning[t].at = n THEN "dead" ELSE cleaning[t].st
               /\ cleaning'[t].jid = cleaning[t].jid
               /\ cleaning'[t].ids = cleaning[t].ids /\ cleaning'[t].at = cleaning[t].at
    BY <1>0, <2>1 DEF CleanRecords
  <2>3. n # NoId
    BY TypesAssumption
  <2> QED
    BY <1>0, <2>1, <2>2, <2>3 DEF MailboxOf
<1>8. ASSUME NEW s \in Sessions,
             \/ (Open(s) \/ Reject(s) \/ CleanEnd(s)) /\ UNCHANGED mailVars
             \/ SessionQuery(s) \/ SessionRegister(s) \/ SessionEnd(s)
      PROVE  CleanInv'
  <2>1. \E l \in SessionStates :
          /\ UNCHANGED <<cleaning, ids>> /\ Goto(s, l) /\ l # "idle"
          /\ l \in {"query", "push"} => spc[s] \in {"idle", "query"}
          /\ l = "query" => spc[s] = "idle"
          /\ l = "push" => MailboxOf(s) \in Nodes
    BY <1>8 DEF Open, Reject, CleanEnd, SessionQuery, QueryOk, QueryErr, SessionRegister, Register,
      SessionEnd, LoopEnd, SessionStates, mailVars
  <2> QED
    BY <1>2, <2>1
<1>9. \/ UNCHANGED <<cleaning, spc, ids>>
      \/ \E s \in Sessions :
           \/ Push(s) /\ UNCHANGED cleaning
           \/ SessionClean(s)
           \/ CleanStep(s) /\ UNCHANGED wsVars
           \/ (Open(s) \/ Reject(s) \/ CleanEnd(s)) /\ UNCHANGED mailVars
           \/ SessionQuery(s) \/ SessionRegister(s) \/ SessionEnd(s)
      \/ \E n \in Nodes : ProcessEnd(n)
  <2>1. ASSUME NEW m \in Msgs, Sending(m) PROVE UNCHANGED <<cleaning, spc, ids>>
    BY <2>1 DEF Sending, SendMsg, SendRefused, SendOk, SendFallback, SendFail, RequestPut,
      mailVars, wsVars
  <2>2. ASSUME NEW n \in Nodes, NEW m \in Msgs, PutMsg(n, m) \/ PutError(n, m)
        PROVE  UNCHANGED cleaning
    BY <2>2 DEF PutMsg, PutError
  <2>3. ASSUME NEW s \in Sessions, NEW m \in Msgs, SessionLive(s, m)
        PROVE  UNCHANGED <<cleaning, spc, ids>>
    BY <2>3 DEF SessionLive, LiveWrite, mailVars
  <2>4. ASSUME NEW s \in Sessions, ClientClose(s) PROVE UNCHANGED <<spc, ids>>
    BY <2>4 DEF ClientClose
  <2> QED
    BY <2>1, <2>2, <2>3, <2>4, Steps DEF ServeWs, ServeMail, mailVars, wsVars
<1> QED
  BY <1>1, <1>4, <1>5, <1>6, <1>7, <1>8, <1>9

\* A session writes the messages of its bag from the oldest on, and each once.
LEMMA BagStep ==
  ASSUME MailInv, SendTyped, WsTyped, RequestsInv, CleanInv, BagInv, Next
  PROVE  BagInv'
<1>0. /\ bag \in [Sessions -> Seq(Msgs)] /\ ids \in [Sessions -> Seq(Msgs)]
      /\ \A m \in Msgs : snd[m] # "new" => snd'[m] # "new"
  BY SndSteps DEF WsTyped
<1>1. CASE UNCHANGED <<bag, ids>>
  <2>1. ASSUME NEW s \in Sessions, NEW m \in ToSet(bag[s]) PROVE m \in Msgs
    BY <1>0, <2>1 DEF ToSet
  <2> QED
    BY <1>0, <1>1, <2>1 DEF BagInv
<1>2. ASSUME NEW s \in Sessions, bag'[s] \in Seq(Msgs),
             \A t \in Sessions \ {s} : bag'[t] = bag[t] /\ ids'[t] = ids[t],
             \A m \in ToSet(bag'[s]) : Peerid(To[m]) = Home[s] /\ snd[m] # "new",
             Ordered(bag'[s]), IsInjective(ids'[s]),
             \A m \in ToSet(ids'[s]), k \in ToSet(bag'[s]) : m # k /\ ~Less(k, m)
      PROVE  BagInv'
  <2>1. ASSUME NEW t \in Sessions
        PROVE  /\ \A m \in ToSet(bag'[t]) : Peerid(To[m]) = Home[t] /\ snd'[m] # "new"
               /\ Ordered(bag'[t]) /\ IsInjective(ids'[t])
               /\ \A m \in ToSet(ids'[t]), k \in ToSet(bag'[t]) : m # k /\ ~Less(k, m)
    <3>0. bag'[t] \in Seq(Msgs)
      BY <1>0, <1>2
    <3>1. \A m \in ToSet(bag'[t]) : m \in Msgs
      BY <3>0 DEF ToSet
    <3>2. CASE t = s
      BY <1>0, <1>2, <3>1, <3>2
    <3>3. CASE t # s
      BY <1>0, <1>2, <3>1, <3>3 DEF BagInv
    <3> QED
      BY <3>2, <3>3
  <2> QED
    BY <2>1 DEF BagInv
<1>3. ASSUME NEW s \in Sessions, Push(s) PROVE BagInv'
  <2> DEFINE m == Head(bag[s])
  <2>1. /\ bag[s] \in Seq(Msgs) /\ bag[s] # <<>> /\ ids[s] \in Seq(Msgs)
        /\ Ordered(bag[s]) /\ IsInjective(ids[s])
        /\ \A e \in ToSet(ids[s]), k \in ToSet(bag[s]) : e # k /\ ~Less(k, e)
    BY <1>0, <1>3 DEF Push, BagInv
  <2>2. /\ m \in Msgs /\ m \in ToSet(bag[s])
        /\ Tail(bag[s]) \in Seq(Msgs) /\ Ordered(Tail(bag[s]))
        /\ ToSet(Tail(bag[s])) \subseteq ToSet(bag[s])
        /\ \A k \in ToSet(Tail(bag[s])) : k # m /\ ~Less(k, m)
    BY <2>1, OrderedTail
  <2>3. IsInjective(Append(ids[s], m)) /\ ToSet(Append(ids[s], m)) = ToSet(ids[s]) \cup {m}
    BY <2>1, <2>2, AppendFacts
  <2>4. /\ bag'[s] = Tail(bag[s]) /\ ids'[s] = Append(ids[s], m)
        /\ \A t \in Sessions \ {s} : bag'[t] = bag[t] /\ ids'[t] = ids[t]
    BY <1>0, <1>3 DEF Push
  <2> HIDE DEF m
  <2>5. \A k \in ToSet(bag'[s]) : Peerid(To[k]) = Home[s] /\ snd[k] # "new"
    BY <2>2, <2>4 DEF BagInv
  <2>6. \A e \in ToSet(ids'[s]), k \in ToSet(bag'[s]) : e # k /\ ~Less(k, e)
    BY <2>1, <2>2, <2>3, <2>4
  <2> QED
    BY <1>2, <2>2, <2>3, <2>4, <2>5, <2>6
<1>4. ASSUME NEW s \in Sessions, NEW q \in SortedBags(doQueryMsg(MailboxOf(s), Myid(Home[s]))),
             MailboxOf(s) \in Nodes, QueryOk(s, q)
      PROVE  BagInv'
  <2>1. doQueryMsg(MailboxOf(s), Myid(Home[s])) \in SUBSET Msgs
    BY DEF doQueryMsg
  <2>2. q \in Seq(Msgs) /\ Ordered(q) /\ ToSet(q) \subseteq doQueryMsg(MailboxOf(s), Myid(Home[s]))
    BY <2>1, SortedBagsFacts
  <2>3. /\ bag'[s] = q /\ ids'[s] = <<>>
        /\ \A t \in Sessions \ {s} : bag'[t] = bag[t] /\ ids'[t] = ids[t]
    BY <1>0, <1>4 DEF QueryOk, CleanInv
  <2>4. ASSUME NEW m \in ToSet(q) PROVE Peerid(To[m]) = Home[s] /\ snd[m] # "new"
    <3>1. Peerid(Myid(Home[s])) = Home[s]
      BY SessionAssumption, TypesAssumption DEF Myid, NewJID, Peerid
    <3>2. m \in Msgs /\ \E row \in tab[MailboxOf(s)] : row[2] = m /\ Kfilter(Home[s], row)
      BY <2>2, <2>4, <3>1 DEF doQueryMsg
    <3>3. PICK row \in tab[MailboxOf(s)] : row[2] = m /\ Kfilter(Home[s], row)
      BY <3>2
    <3>4. Home[s] # NoId /\ Home[s] \in Nodes
      BY SessionAssumption, TypesAssumption
    <3>5. row[1] = Home[s]
      BY <3>3, <3>4 DEF Kfilter
    <3>6. row \in (Nodes \cup {NoId}) \X Msgs
      BY <1>4, <3>3 DEF MailInv, MailTypeOK
    <3>7. row = Row(Home[s], m)
      BY <3>3, <3>5, <3>6 DEF Row
    <3>8. Home[s] = Peerid(To[m]) /\ put[MailboxOf(s)][m] = "stored"
      BY <1>4, <3>2, <3>3, <3>4, <3>7 DEF MailInv, StoredUntilCleaned
    <3> QED
      BY <1>4, <3>2, <3>8 DEF RequestsInv
  <2>5. IsInjective(ids'[s]) /\ ToSet(ids'[s]) = {}
    BY <2>3 DEF IsInjective, ToSet
  <2> QED
    BY <1>2, <2>2, <2>3, <2>4, <2>5
<1>5. \/ UNCHANGED <<bag, ids>>
      \/ \E s \in Sessions : Push(s)
      \/ \E s \in Sessions : /\ MailboxOf(s) \in Nodes
                             /\ \E q \in SortedBags(doQueryMsg(MailboxOf(s), Myid(Home[s]))) : QueryOk(s, q)
  BY Steps DEF Sending, SendMsg, SendRefused, SendOk, SendFallback, SendFail, wsVars, ServeWs,
    Open, Reject, CleanEnd, ClientClose, SessionQuery, QueryErr, SessionClean, PushEnd,
    SessionRegister, Register, SessionEnd, LoopEnd, SessionLive, LiveWrite, ProcessEnd, WsCrash
<1> QED
  BY <1>1, <1>3, <1>4, <1>5

\* Only Push and the handlers write to a client.
LEMMA SockStep == ASSUME ChatInv, WsTyped, SockInv, Next PROVE SockInv'
<1>0. /\ ids \in [Sessions -> Seq(Msgs)] /\ bag \in [Sessions -> Seq(Msgs)]
      /\ \A n \in Nodes : ran[n] \subseteq ran'[n]
  <2>1. ran \in [Nodes -> SUBSET (Sessions \X Msgs)]
    BY DEF ChatInv, ChatTypeOK
  <2>2. \/ UNCHANGED ran
        \/ \E n \in Nodes, f \in Sessions, m \in Msgs : RunHandler(n, f, m)
    BY ChatSteps DEF ChatNext, ChatNode, RequestNormal, Receive, Enqueue, DropOnStop, Take, RangeEnd,
      DispatcherExit, Spawn, AppendHandleMsg, DropHandleMsg, Stop, Crash, chatVars
  <2> QED
    BY <2>1, <2>2 DEF RunHandler, WsTyped
<1>1. ASSUME NEW s \in Sessions, NEW m \in Msgs, SessionLive(s, m) PROVE SockInv'
  <2>1. /\ <<s, m>> \in ran'[Home[s]] /\ UNCHANGED ids
        /\ \A t \in Sessions \ {s} : sock'[t] = sock[t]
        /\ ToSet(sock'[s]) \subseteq ToSet(sock[s]) \cup {<<"live", m>>}
    <3>1. ran \in [Nodes -> SUBSET (Sessions \X Msgs)] /\ Home[s] \in Nodes
      BY SessionAssumption DEF ChatInv, ChatTypeOK
    <3>2. UNCHANGED ids /\ Write(s, "live", m)
      BY <1>1 DEF SessionLive, LiveWrite
    <3> QED
      BY <1>1, <3>1, <3>2, WriteFacts DEF SessionLive, RunHandler
  <2>2. ASSUME NEW t \in Sessions, NEW e \in Msgs
        PROVE  /\ <<"mail", e>> \in ToSet(sock'[t]) => <<"mail", e>> \in ToSet(sock[t])
               /\ <<"live", e>> \in ToSet(sock'[t]) =>
                    <<"live", e>> \in ToSet(sock[t]) \/ (t = s /\ e = m)
    BY <2>1
  <2> QED
    BY <1>0, <2>1, <2>2, SessionAssumption DEF SockInv
<1>2. ASSUME NEW s \in Sessions, Push(s) PROVE SockInv'
  <2> DEFINE m == Head(bag[s])
  <2>1. bag[s] # <<>> /\ bag[s] \in Seq(Msgs) /\ Write(s, "mail", m)
        /\ ids' = [ids EXCEPT ![s] = Append(ids[s], m)]
    BY <1>0, <1>2 DEF Push
  <2>2. m \in Msgs
    BY <2>1, HeadTailProperties
  <2>3. /\ \A t \in Sessions \ {s} : sock'[t] = sock[t] /\ ids'[t] = ids[t]
        /\ ToSet(sock'[s]) \subseteq ToSet(sock[s]) \cup {<<"mail", m>>}
        /\ ToSet(ids'[s]) = ToSet(ids[s]) \cup {m}
    BY <1>0, <2>1, <2>2, WriteFacts, AppendToSet
  <2> HIDE DEF m
  <2>4. ASSUME NEW t \in Sessions, NEW e \in Msgs
        PROVE  /\ <<"mail", e>> \in ToSet(sock'[t]) =>
                    <<"mail", e>> \in ToSet(sock[t]) \/ (t = s /\ e = m)
               /\ <<"live", e>> \in ToSet(sock'[t]) => <<"live", e>> \in ToSet(sock[t])
    BY <2>3
  <2> QED
    BY <1>0, <2>3, <2>4, SessionAssumption DEF SockInv
<1>3. CASE UNCHANGED <<sock, ids>>
  BY <1>0, <1>3, SessionAssumption DEF SockInv
<1>4. \/ UNCHANGED <<sock, ids>>
      \/ \E s \in Sessions : Push(s)
      \/ \E s \in Sessions, m \in Msgs : SessionLive(s, m)
  BY Steps DEF Sending, SendMsg, SendRefused, SendOk, SendFallback, SendFail, wsVars, ServeWs,
    Open, Reject, CleanEnd, ClientClose, SessionQuery, QueryErr, QueryOk, SessionClean, PushEnd,
    SessionRegister, Register, SessionEnd, LoopEnd, ProcessEnd, WsCrash
<1> QED
  BY <1>1, <1>2, <1>3, <1>4

LEMMA SendTypedStep == ASSUME SendTyped, Next PROVE SendTyped'
<1>1. crashes' \in 0 .. MaxCrash
  <2>1. UNCHANGED crashes \/ \E n \in Nodes : ProcessEnd(n)
    BY Steps DEF Sending, SendMsg, SendRefused, SendOk, SendFallback, SendFail, SessionQuery,
      SessionClean, SessionRegister, SessionEnd, SessionLive
  <2> QED
    BY <2>1, DeliveryAssumption DEF SendTyped, ProcessEnd
<1>2. snd' \in [Msgs -> SendStates]
  <2>1. \A m \in Msgs : snd'[m] \in SendStates
    BY SndSteps
  <2>2. snd' = [m \in Msgs |-> snd'[m]]
    <3>1. \/ UNCHANGED snd
          \/ \E m \in Msgs, st \in SendStates : SendTo(m, st)
          \/ \E n \in Nodes : ProcessEnd(n)
      BY Steps DEF Sending, SendMsg, SendRefused, SendOk, SendFallback, SendFail, SessionQuery,
        SessionClean, SessionRegister, SessionEnd, SessionLive, SendStates
    <3> QED
      BY <3>1 DEF SendTyped, SendTo, ProcessEnd
  <2> QED
    BY <2>1, <2>2
<1> QED
  BY <1>1, <1>2 DEF SendTyped

-----------------------------------------------------------------------------
(* The theorems.                                                           *)

LEMMA DeliveryInit == Init => DeliveryInv
<1> SUFFICES ASSUME Init PROVE DeliveryInv
  OBVIOUS
<1>0. ChatInit /\ MailInit /\ WsInit /\ snd = [m \in Msgs |-> "new"] /\ crashes = 0
  BY DEF Init
<1>1. ChatInv /\ MailInv
  BY <1>0, InitInv, MailInitInv
<1>2. SendTyped
  BY <1>0, DeliveryAssumption DEF SendTyped, SendStates
<1>3. WsTyped
  BY <1>0, EmptySeq DEF WsInit, WsTyped, SessionStates
<1>4. RequestsInv /\ SentInv /\ RegisteredInv /\ CleanInv
  BY <1>0, SessionAssumption DEF ChatInit, MailInit, WsInit, RequestsInv, SentInv, RegisteredInv, CleanInv
<1>5. ToSet(<<>>) = {} /\ IsInjective(<<>>) /\ Ordered(<<>>)
  BY DEF ToSet, IsInjective, Ordered
<1>6. BagInv /\ SockInv
  BY <1>0, <1>5 DEF WsInit, BagInv, SockInv
<1> QED
  BY <1>1, <1>2, <1>3, <1>4, <1>6 DEF DeliveryInv

LEMMA DeliveryStep == DeliveryInv /\ [Next]_vars => DeliveryInv'
<1> SUFFICES ASSUME DeliveryInv, [Next]_vars PROVE DeliveryInv'
  OBVIOUS
<1>0. /\ ChatInv /\ MailInv /\ SendTyped /\ WsTyped
      /\ RequestsInv /\ SentInv /\ RegisteredInv /\ CleanInv /\ BagInv /\ SockInv
  BY DEF DeliveryInv
<1>1. ChatInv' /\ MailInv'
  BY <1>0, ChatSteps, MailSteps, ChatInvStep, MailInvStep
<1>2. CASE Next
  BY <1>0, <1>1, <1>2, SendTypedStep, WsTypedStep, RequestsStep, SentStep, RegisteredStep,
    CleanInvStep, BagStep, SockStep DEF DeliveryInv
<1>3. CASE UNCHANGED vars
  <2>1. SendTyped' /\ WsTyped'
    BY <1>0, <1>3 DEF vars, wsVars, SendTyped, WsTyped
  <2>2. RequestsInv' /\ SentInv'
    BY <1>0, <1>3 DEF vars, chatVars, mailVars, RequestsInv, SentInv, DirectDone, MailboxDone,
      Answered, PutAnswered, Target, Fallback
  <2>3. RegisteredInv' /\ CleanInv' /\ BagInv' /\ SockInv'
    BY <1>0, <1>3 DEF vars, chatVars, mailVars, wsVars, RegisteredInv, CleanInv, BagInv, SockInv,
      MailboxOf
  <2> QED
    BY <1>1, <2>1, <2>2, <2>3 DEF DeliveryInv
<1> QED
  BY <1>2, <1>3

\* The invariant of the whole path, for any number of nodes, messages,
\* sessions and process ends.
THEOREM DeliveryInvariant == Spec => []DeliveryInv
BY DeliveryInit, DeliveryStep, PTL DEF Spec

\* mailbox.go: as a part of Delivery, a node is a mailbox, so that what
\* MailboxProofs shows of any requests is true of those that sessions make.
THEOREM DeliveryRunsMailbox == Spec => MailSpec
<1>1. Init => MailInit
  BY DEF Init
<1>2. DeliveryInv /\ [Next]_vars => [MailNext]_mailVars
  BY MailSteps DEF DeliveryInv
<1> QED
  BY <1>1, <1>2, DeliveryInvariant, PTL DEF Spec, MailSpec

\* The composition keeps its types: the channel its capacity, and the loop
\* of doCleanMsg its bounds, whatever the senders and sessions do.
THEOREM DeliveryTypeCorrect == Spec => []TypeOK
<1>1. DeliveryInv => TypeOK
  BY DEF DeliveryInv, ChatInv, MailInv, SendTyped, WsTyped, TypeOK
<1> QED
  BY <1>1, DeliveryInvariant, PTL

\* service.go and rpc/server.go: a handler is registered exactly while its
\* session is in the read loop, on whatever node and through whatever ends of
\* processes, although DropHandleMsg is a deferred call.
THEOREM HandlersFollowSessions == Spec => []RegisteredInLoop
<1>1. DeliveryInv => RegisteredInLoop
  BY DEF DeliveryInv, RegisteredInv, RegisteredInLoop
<1> QED
  BY <1>1, DeliveryInvariant, PTL

\* A row that is gone was named by the clean of a session that has written it.
LEMMA StoredOrPushed == DeliveryInv => CleanedWasPushed
<1> SUFFICES ASSUME DeliveryInv, NEW n \in Nodes, NEW m \in Msgs, put[n][m] = "stored",
                    Row(Peerid(To[m]), m) \notin tab[n]
             PROVE  Pushed(Peerid(To[m]), m)
  BY DEF CleanedWasPushed
<1>1. PICK s \in Sessions : CleanedBy(s, n, m)
  BY DEF DeliveryInv, MailInv, StoredUntilCleaned
<1>2. /\ cleaning[s].at = n /\ Peerid(cleaning[s].jid) = Peerid(To[m])
      /\ \E i \in 1 .. cleaning[s].next - 1 : cleaning[s].ids[i] = m
  BY <1>1 DEF CleanedBy
<1>3. cleaning[s].st # "none"
  BY <1>2, TypesAssumption DEF DeliveryInv, CleanInv
<1>4. cleaning[s].jid = Myid(Home[s]) /\ cleaning[s].ids = ids[s]
  BY <1>3 DEF DeliveryInv, CleanInv
<1>5. Peerid(Myid(Home[s])) = Home[s]
  BY SessionAssumption, TypesAssumption DEF Myid, NewJID, Peerid
<1>6. m \in ToSet(ids[s])
  <2>1. PICK i \in 1 .. cleaning[s].next - 1 : cleaning[s].ids[i] = m
    BY <1>2
  <2>2. cleaning[s].next \in 1 .. Len(cleaning[s].ids) + 1 /\ ids[s] \in Seq(Msgs)
    BY DEF DeliveryInv, MailInv, MailTypeOK, WsTyped
  <2>3. i \in DOMAIN ids[s] /\ ids[s][i] = m
    BY <1>4, <2>1, <2>2, LenProperties
  <2> QED
    BY <2>3 DEF ToSet
<1> QED
  BY <1>2, <1>4, <1>5, <1>6 DEF Pushed

\* mailbox.go and rpc/server.go: whatever sessions, cleans and ends of
\* processes overlap, and whether or not the database fails, a message leaves
\* the mailbox only after a session of its recipient has had it in hand.
THEOREM CleanedMessagesPushed == Spec => []CleanedWasPushed
BY StoredOrPushed, DeliveryInvariant, PTL

\* service.go: what SendMsg has reported as sent is accounted for, whatever is
\* lost, late or ended on the way.
THEOREM SentMessagesAccounted == Spec => []SentIsAccounted
<1>1. DeliveryInv => SentIsAccounted
  <2> SUFFICES ASSUME DeliveryInv, NEW m \in Msgs, snd[m] = "ok", Decodes(m)
               PROVE  \/ /\ Type[m] = "NormalMsg" /\ Target(m) \in Nodes
                         /\ \/ inbox[Target(m)][m] \in {"taken", "lost", "dropped"}
                            \/ m \in ToSet(recvMsgCh[Target(m)])
                      \/ /\ Fallback(m) \in Nodes
                         /\ \/ Row(Peerid(To[m]), m) \in tab[Fallback(m)]
                            \/ put[Fallback(m)][m] = "failed"
                            \/ Pushed(Peerid(To[m]), m)
    BY DEF SentIsAccounted
  <2>1. DirectDone(m) \/ MailboxDone(m)
    BY DEF DeliveryInv, SentInv
  <2>2. CASE DirectDone(m)
    BY <2>2 DEF DirectDone, Answered, DeliveryInv, RequestsInv, ChatInv, QueuedOnce
  <2>3. CASE MailboxDone(m)
    BY <2>3, StoredOrPushed DEF MailboxDone, PutAnswered, DeliveryInv, RequestsInv, CleanedWasPushed
  <2> QED
    BY <2>1, <2>2, <2>3
<1> QED
  BY <1>1, DeliveryInvariant, PTL
=============================================================================
