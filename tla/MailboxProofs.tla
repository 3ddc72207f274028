--------------------------- MODULE MailboxProofs ----------------------------
(***************************************************************************)
(* Proofs about Mailbox: for any peers, messages and requests, a message   *)
(* that a node has acknowledged as stored stays in its database until a    *)
(* clean request of the recipient has named it, whatever else the node     *)
(* serves and whenever its process ends.                                   *)
(***************************************************************************)
EXTENDS Mailbox, SequenceTheorems, FiniteSetTheorems, TLAPS

\* A request that was not made yet has cleaned nothing.
CleanFresh == \A s \in Sessions : cleaning[s].st = "none" => cleaning[s].next = 1

\* What is kept of a clean request.
CleanRecords == [st : CleanStates, at : Nodes \cup {NoId},
                 jid : JIDs, ids : Seq(Msgs), next : Nat]

\* The inductive invariant.
MailInv == MailTypeOK /\ CleanFresh /\ StoredUntilCleaned

-----------------------------------------------------------------------------

\* The first block of a JID is a peer id or nothing.
LEMMA PeeridType == ASSUME NEW j \in JIDs PROVE Peerid(j) \in Nodes \cup {NoId}
<1>1. CASE Len(j) < 1
  BY <1>1 DEF Peerid
<1>2. CASE ~(Len(j) < 1)
  <2>1. Len(j) \in Nat /\ j \in [1 .. Len(j) -> Nodes]
    BY LenProperties DEF JIDs
  <2> QED
    BY <1>2, <2>1 DEF Peerid
<1> QED
  BY <1>1, <1>2

\* The JID of a node is one.
LEMMA MyidType == ASSUME NEW n \in Nodes PROVE Myid(n) \in JIDs
BY TypesAssumption DEF Myid, NewJID, JIDs

\* The ids a client cleans are ids of messages.
LEMMA IdListsType == ASSUME NEW q \in IdLists PROVE q \in Seq(Msgs)
<1>1. PICK S \in SUBSET Msgs : q \in SetToSeqs(S)
  BY DEF IdLists
<1>2. PICK k \in Nat : q \in [1 .. k -> S]
  <2>1. Cardinality(S) \in Nat
    BY TypesAssumption, FS_Subset, FS_CardinalityType
  <2> QED
    BY <1>1, <2>1 DEF SetToSeqs
<1>3. q \in Seq(S)
  BY <1>2
<1> QED
  BY <1>1, <1>3, SeqMonotonic

\* Setting one field of such a record changes no other.
LEMMA RecordFacts ==
  ASSUME NEW c \in CleanRecords, NEW i \in Nat, NEW st \in CleanStates
  PROVE  /\ [c EXCEPT !.next = i] = [st |-> c.st, at |-> c.at, jid |-> c.jid,
                                    ids |-> c.ids, next |-> i]
         /\ [c EXCEPT !.st = st] = [st |-> st, at |-> c.at, jid |-> c.jid,
                                   ids |-> c.ids, next |-> c.next]
         /\ [c EXCEPT !.next = i] \in CleanRecords
         /\ [c EXCEPT !.st = st] \in CleanRecords
BY DEF CleanRecords

-----------------------------------------------------------------------------
(* The steps.                                                              *)

\* Every step keeps the type of the store.
LEMMA MailTypeStep == MailTypeOK /\ CleanFresh /\ [MailNext]_mailVars => MailTypeOK' /\ CleanFresh'
<1> SUFFICES ASSUME MailTypeOK, CleanFresh, [MailNext]_mailVars
             PROVE  MailTypeOK' /\ CleanFresh'
  OBVIOUS
<1> USE DEF MailTypeOK, CleanFresh, PutStates, CleanStates
<1>1. CASE UNCHANGED mailVars
  BY <1>1 DEF mailVars
<1>2. ASSUME NEW n \in Nodes, NEW m \in Msgs,
             RequestPut(n, m) \/ PutMsg(n, m) \/ PutError(n, m)
      PROVE  MailTypeOK' /\ CleanFresh'
  <2>1. UNCHANGED cleaning
    BY <1>2 DEF RequestPut, PutMsg, PutError
  <2>2. CASE RequestPut(n, m)
    BY <2>1, <2>2 DEF RequestPut
  <2>3. CASE PutMsg(n, m)
    <3>1. <<Peerid(To[m]), m>> \in (Nodes \cup {NoId}) \X Msgs
      BY PeeridType, TypesAssumption
    <3> QED
      BY <2>1, <2>3, <3>1 DEF PutMsg, Row
  <2>4. CASE PutError(n, m)
    <3>1. UNCHANGED tab /\ \E st \in PutStates : put' = [put EXCEPT ![n][m] = st]
      BY <2>4 DEF PutError
    <3> QED
      BY <2>1, <3>1
  <2> QED
    BY <1>2, <2>2, <2>3, <2>4
<1>3. ASSUME NEW n \in Nodes, NEW k \in Nodes, NEW s \in Sessions, NEW q \in IdLists,
             RequestClean(n, s, Myid(k), q)
      PROVE  MailTypeOK' /\ CleanFresh'
  <2>1. q \in Seq(Msgs) /\ Len(q) \in Nat /\ Myid(k) \in JIDs
    BY IdListsType, MyidType, LenProperties
  <2>2. cleaning' \in [Sessions -> [st : CleanStates, at : Nodes \cup {NoId},
                                   jid : JIDs, ids : Seq(Msgs), next : Nat]]
    BY <1>3, <2>1 DEF RequestClean
  <2> QED
    BY <1>3, <2>1, <2>2 DEF RequestClean
<1>4. ASSUME NEW s \in Sessions, CleanStep(s) PROVE MailTypeOK' /\ CleanFresh'
  <2> DEFINE c == cleaning[s]
  <2>1. /\ c.st = "sent" /\ c.at \in Nodes /\ c.next \in 1 .. Len(c.ids)
        /\ cleaning' = [cleaning EXCEPT ![s].next = c.next + 1]
        /\ UNCHANGED put
    BY <1>4 DEF CleanStep
  <2>2. tab' \in [Nodes -> SUBSET ((Nodes \cup {NoId}) \X Msgs)]
    <3>1. tab' = tab \/ tab' = [tab EXCEPT ![c.at] = @ \ {CleanRow(s)}]
      BY <1>4 DEF CleanStep
    <3>2. CASE tab' = tab
      BY <3>2
    <3>3. CASE tab' = [tab EXCEPT ![c.at] = @ \ {CleanRow(s)}]
      <4> HIDE DEF c
      <4> QED
        BY <3>3, <2>1
    <3> QED
      BY <3>1, <3>2, <3>3
  <2>3. c \in CleanRecords /\ c.ids \in Seq(Msgs) /\ Len(c.ids) \in Nat
    BY LenProperties DEF CleanRecords
  <2>4. cleaning' \in [Sessions -> CleanRecords]
    <3>1. cleaning \in [Sessions -> CleanRecords]
      BY DEF CleanRecords
    <3>2. cleaning' = [cleaning EXCEPT ![s] = [c EXCEPT !.next = c.next + 1]]
      BY <2>1
    <3>3. c \in CleanRecords /\ c.next + 1 \in Nat /\ "dead" \in CleanStates
      BY <2>3, <2>1
    <3> HIDE DEF c
    <3>4. [c EXCEPT !.next = c.next + 1] \in CleanRecords
      BY ONLY <3>3, RecordFacts
    <3> QED
      BY ONLY <3>1, <3>2, <3>4
  <2>5. \A t \in Sessions : /\ cleaning'[t].st = "sent" => cleaning'[t].at \in Nodes
                            /\ cleaning'[t].next \in 1 .. Len(cleaning'[t].ids) + 1
                            /\ cleaning'[t].st = "none" => cleaning'[t].next = 1
    BY <2>1, <2>3
  <2> QED
    BY <2>1, <2>2, <2>4, <2>5 DEF CleanRecords
<1>5. ASSUME NEW n \in Nodes, MailCrash(n) PROVE MailTypeOK' /\ CleanFresh'
  <2>1. put' \in [Nodes -> [Msgs -> PutStates]] /\ UNCHANGED tab
    BY <1>5 DEF MailCrash
  <2>2. ASSUME NEW s \in Sessions
        PROVE  /\ cleaning'[s] \in CleanRecords
               /\ cleaning'[s].st = cleaning[s].st \/ cleaning'[s].st = "dead"
               /\ cleaning'[s].at = cleaning[s].at
               /\ cleaning'[s].ids = cleaning[s].ids
               /\ cleaning'[s].next = cleaning[s].next
    <3>1. \/ cleaning'[s] = cleaning[s]
          \/ cleaning'[s] = [cleaning[s] EXCEPT !.st = "dead"]
      BY <1>5 DEF MailCrash
    <3>2. cleaning[s] \in CleanRecords
      BY DEF CleanRecords
    <3>3. [cleaning[s] EXCEPT !.st = "dead"] =
            [st |-> "dead", at |-> cleaning[s].at, jid |-> cleaning[s].jid,
             ids |-> cleaning[s].ids, next |-> cleaning[s].next]
      BY <3>2, RecordFacts
    <3> QED
      BY <3>1, <3>2, <3>3, RecordFacts
  <2>3. cleaning' \in [Sessions -> CleanRecords]
    <3>1. cleaning' = [s \in Sessions |-> IF cleaning[s].at = n
                        THEN [cleaning[s] EXCEPT !.st = "dead"] ELSE cleaning[s]]
      BY <1>5 DEF MailCrash
    <3>2. DOMAIN cleaning' = Sessions /\ cleaning' = [s \in Sessions |-> cleaning'[s]]
      BY ONLY <3>1, Zenon
    <3> QED
      BY ONLY <3>2, <2>2
  <2>4. \A s \in Sessions : /\ cleaning'[s].st = "sent" => cleaning'[s].at \in Nodes
                            /\ cleaning'[s].next \in 1 .. Len(cleaning'[s].ids) + 1
                            /\ cleaning'[s].st = "none" => cleaning'[s].next = 1
    BY <2>2
  <2> QED
    BY <2>1, <2>3, <2>4 DEF CleanRecords
<1> QED
  BY <1>1, <1>2, <1>3, <1>4, <1>5 DEF MailNext

\* A clean request that has gone past a message has gone past it for good.
LEMMA CleanedStays ==
  ASSUME MailTypeOK, CleanFresh, [MailNext]_mailVars,
         NEW s \in Sessions, NEW n \in Nodes, NEW m \in Msgs, CleanedBy(s, n, m)
  PROVE  CleanedBy(s, n, m)'
<1> USE DEF CleanedBy, MailTypeOK, CleanFresh
<1>1. PICK i \in 1 .. cleaning[s].next - 1 : cleaning[s].ids[i] = m
  OBVIOUS
<1>2. cleaning[s].next \in Nat /\ cleaning[s].next > 1 /\ cleaning[s].st # "none"
  BY <1>1
<1>3. /\ cleaning'[s].at = cleaning[s].at
      /\ cleaning'[s].jid = cleaning[s].jid
      /\ cleaning'[s].ids = cleaning[s].ids
      /\ cleaning'[s].next \in {cleaning[s].next, cleaning[s].next + 1}
  <2>1. CASE UNCHANGED cleaning
    BY <2>1
  <2>2. ASSUME NEW k \in Nodes, NEW j \in Nodes, NEW t \in Sessions, NEW q \in IdLists,
               RequestClean(k, t, Myid(j), q)
        PROVE  cleaning'[s] = cleaning[s]
    BY <1>2, <2>2 DEF RequestClean
  <2>3. ASSUME NEW t \in Sessions, CleanStep(t)
        PROVE  \/ cleaning'[s] = cleaning[s]
               \/ cleaning'[s] = [cleaning[s] EXCEPT !.next = @ + 1]
    BY <2>3 DEF CleanStep
  <2>4. ASSUME NEW k \in Nodes, MailCrash(k)
        PROVE  \/ cleaning'[s] = cleaning[s]
               \/ cleaning'[s] = [cleaning[s] EXCEPT !.st = "dead"]
    BY <2>4 DEF MailCrash
  <2> QED
    BY <2>1, <2>2, <2>3, <2>4
       DEF MailNext, mailVars, RequestPut, PutMsg, PutError
<1>4. i \in 1 .. cleaning'[s].next - 1
  BY <1>1, <1>2, <1>3
<1> QED
  BY <1>1, <1>3, <1>4

\* The rows of a node and the acknowledged puts, less what was cleaned.
LEMMA StoredStep ==
  ASSUME MailTypeOK, CleanFresh, StoredUntilCleaned, [MailNext]_mailVars
  PROVE  StoredUntilCleaned'
<1> USE DEF MailTypeOK, PutStates
<1> SUFFICES ASSUME NEW n \in Nodes, NEW m \in Msgs
             PROVE  /\ put'[n][m] = "stored" =>
                         \/ <<Peerid(To[m]), m>> \in tab'[n]
                         \/ \E s \in Sessions : CleanedBy(s, n, m)'
                    /\ \A p \in Nodes \cup {NoId} :
                         <<p, m>> \in tab'[n] => p = Peerid(To[m]) /\ put'[n][m] = "stored"
  BY DEF StoredUntilCleaned, Row
<1>1. /\ put[n][m] = "stored" => \/ <<Peerid(To[m]), m>> \in tab[n]
                                \/ \E s \in Sessions : CleanedBy(s, n, m)
      /\ \A p \in Nodes \cup {NoId} :
           <<p, m>> \in tab[n] => p = Peerid(To[m]) /\ put[n][m] = "stored"
  BY DEF StoredUntilCleaned, Row
<1>2. (\E s \in Sessions : CleanedBy(s, n, m)) => \E s \in Sessions : CleanedBy(s, n, m)'
  BY CleanedStays
\* A step that adds no row, removes none, and acknowledges nothing.
<1>3. CASE tab'[n] = tab[n] /\ (put'[n][m] = "stored" <=> put[n][m] = "stored")
  BY ONLY <1>1, <1>2, <1>3
<1>4. CASE UNCHANGED mailVars
  BY <1>3, <1>4 DEF mailVars
<1>5. ASSUME NEW k \in Nodes, NEW j \in Msgs,
             RequestPut(k, j) \/ PutError(k, j)
      PROVE  tab'[n] = tab[n] /\ (put'[n][m] = "stored" <=> put[n][m] = "stored")
  <2>1. /\ UNCHANGED tab
        /\ put[k][j] # "stored"
        /\ \E st \in PutStates \ {"stored"} : put' = [put EXCEPT ![k][j] = st]
    BY <1>5 DEF RequestPut, PutError
  <2> QED
    BY <2>1
<1>6. ASSUME NEW k \in Nodes, NEW j \in Msgs, PutMsg(k, j)
      PROVE  /\ \/ tab'[n] = tab[n] /\ put'[n][m] = put[n][m]
                \/ /\ m = j
                   /\ put'[n][m] = "stored"
                   /\ tab'[n] = tab[n] \cup {<<Peerid(To[m]), m>>}
                \/ /\ m # j
                   /\ put'[n][m] = put[n][m]
                   /\ tab'[n] = tab[n] \cup {<<Peerid(To[j]), j>>}
  BY <1>6 DEF PutMsg, Row
<1>7. ASSUME NEW k \in Nodes, NEW j \in Nodes, NEW s \in Sessions, NEW q \in IdLists,
             RequestClean(k, s, Myid(j), q)
      PROVE  tab'[n] = tab[n] /\ (put'[n][m] = "stored" <=> put[n][m] = "stored")
  BY <1>7 DEF RequestClean
<1>8. ASSUME NEW k \in Nodes, MailCrash(k)
      PROVE  tab'[n] = tab[n] /\ (put'[n][m] = "stored" <=> put[n][m] = "stored")
  BY <1>8 DEF MailCrash
\* The row that a turn of the loop deletes is the one it goes past.
<1>9. ASSUME NEW s \in Sessions, CleanStep(s)
      PROVE  /\ put'[n][m] = "stored" =>
                  \/ <<Peerid(To[m]), m>> \in tab'[n]
                  \/ \E t \in Sessions : CleanedBy(t, n, m)'
             /\ \A p \in Nodes \cup {NoId} :
                  <<p, m>> \in tab'[n] => p = Peerid(To[m]) /\ put'[n][m] = "stored"
  <2>1. /\ put' = put
        /\ cleaning[s].next \in Nat \ {0}
        /\ cleaning' = [cleaning EXCEPT ![s] = [cleaning[s] EXCEPT !.next = cleaning[s].next + 1]]
        /\ tab' = tab \/ tab' = [tab EXCEPT ![cleaning[s].at] = @ \ {CleanRow(s)}]
    BY <1>9 DEF CleanStep
  <2>2. tab'[n] \subseteq tab[n]
    BY <2>1
  <2>3. ASSUME <<Peerid(To[m]), m>> \in tab[n], <<Peerid(To[m]), m>> \notin tab'[n]
        PROVE  CleanedBy(s, n, m)'
    <3>1. cleaning[s].at = n /\ CleanRow(s) = <<Peerid(To[m]), m>>
      BY <2>1, <2>3
    <3>2. /\ Peerid(cleaning[s].jid) = Peerid(To[m])
          /\ cleaning[s].ids[cleaning[s].next] = m
      BY <3>1 DEF CleanRow, Row
    <3>3. cleaning'[s] = [cleaning[s] EXCEPT !.next = cleaning[s].next + 1]
      BY <2>1
    <3>4. /\ cleaning'[s].at = n
          /\ cleaning'[s].jid = cleaning[s].jid
          /\ cleaning'[s].ids = cleaning[s].ids
          /\ cleaning'[s].next = cleaning[s].next + 1
      BY <3>1, <3>3
    <3>5. cleaning[s].next \in 1 .. cleaning'[s].next - 1
      BY <3>4, <2>1
    <3> QED
      BY <3>2, <3>4, <3>5 DEF CleanedBy
  <2> QED
    BY <1>1, <1>2, <2>1, <2>2, <2>3
<1>10. ASSUME NEW k \in Nodes, NEW j \in Msgs, PutMsg(k, j)
       PROVE  /\ put'[n][m] = "stored" =>
                  \/ <<Peerid(To[m]), m>> \in tab'[n]
                  \/ \E t \in Sessions : CleanedBy(t, n, m)'
              /\ \A p \in Nodes \cup {NoId} :
                  <<p, m>> \in tab'[n] => p = Peerid(To[m]) /\ put'[n][m] = "stored"
  BY ONLY <1>1, <1>2, <1>6, <1>10
<1> QED
  BY <1>3, <1>4, <1>5, <1>7, <1>8, <1>9, <1>10 DEF MailNext

-----------------------------------------------------------------------------
(* The theorems.                                                           *)

\* No request has been made in the initial states.
LEMMA MailInitInv == MailInit => MailInv
<1> SUFFICES ASSUME MailInit PROVE MailInv
  OBVIOUS
<1>1. MailTypeOK
  <2>1. <<>> \in JIDs /\ <<>> \in Seq(Msgs) /\ Len(<<>>) = 0
    BY DEF JIDs
  <2> QED
    BY <2>1 DEF MailInit, MailTypeOK, PutStates, CleanStates
<1>2. CleanFresh
  BY DEF MailInit, CleanFresh
<1>3. StoredUntilCleaned
  BY DEF MailInit, StoredUntilCleaned, Row
<1> QED
  BY <1>1, <1>2, <1>3 DEF MailInv

\* Every step of a node, or of a session that asks for a clean, keeps it.
LEMMA MailInvStep == MailInv /\ [MailNext]_mailVars => MailInv'
<1> SUFFICES ASSUME MailInv, [MailNext]_mailVars PROVE MailInv'
  OBVIOUS
<1>1. MailTypeOK /\ CleanFresh /\ StoredUntilCleaned
  BY DEF MailInv
<1>2. MailTypeOK' /\ CleanFresh'
  BY <1>1, MailTypeStep
<1>3. StoredUntilCleaned'
  BY <1>1, StoredStep
<1> QED
  BY <1>2, <1>3 DEF MailInv

\* The invariant holds for any number of peers, messages and requests.
THEOREM MailInvariant == MailSpec => []MailInv
BY MailInvStep, MailInitInv, PTL DEF MailSpec

\* mailbox.go: the store keeps its type, and the index of the loop of
\* doCleanMsg stays inside the list of ids.
THEOREM MailTypeCorrect == MailSpec => []MailTypeOK
<1>1. MailInv => MailTypeOK
  BY DEF MailInv
<1> QED
  BY <1>1, MailInvariant, PTL

\* mailbox.go: what putMsg has acknowledged is stored until doCleanMsg of the
\* recipient has come to it, and every row was acknowledged.
THEOREM StoredMessagesKept == MailSpec => []StoredUntilCleaned
<1>1. MailInv => StoredUntilCleaned
  BY DEF MailInv
<1> QED
  BY <1>1, MailInvariant, PTL
=============================================================================
