------------------------------ MODULE Mailbox ------------------------------
(***************************************************************************)
(* mailbox.go and the table of ldb/database.go: the offline-message store  *)
(* every node serves.  One LevelDB holds all tables; a row of a table is   *)
(* the table's prefix (the peer id of the recipient) and a message id.     *)
(* LevelDB serialises the calls, and what is written survives the process. *)
(***************************************************************************)
EXTENDS Types

CONSTANT DbErrors   \* whether the calls of LevelDB may fail

ASSUME MailAssumption == DbErrors \in BOOLEAN

VARIABLES
  tab,       \* rows <<prefix, msg>> in the database of each node
  put,       \* the PID_MAILBOX request of each message, on each node
  cleaning   \* the PID_MAILBOX_CLEAN request of each session

mailVars == <<tab, put, cleaning>>

PutStates == {"none", "sent", "stored", "refused", "unsupported", "failed", "dead"}

CleanStates == {"none", "sent", "dead"}

MailInit ==
  /\ tab = [n \in Nodes |-> {}]
  /\ put = [n \in Nodes |-> [m \in Msgs |-> "none"]]
  /\ cleaning = [s \in Sessions |-> [st |-> "none", at |-> NoId, jid |-> <<>>,
                                     ids |-> <<>>, next |-> 1]]

\* The handler has written its reply: the caller sees a request that worked,
\* the text of an error included.
PutAnswered(n, m) == put[n][m] \in {"stored", "refused", "failed"}

\* The key of a row: the prefix of the table of id, the id of the message.
Row(id, m) == <<id, m>>

\* Kfilter: whether a key starts with id; every key starts with "".
Kfilter(id, row) == id \in {NoId, row[1]}

\* Mutant of doQueryMsg: no Kfilter.
QueryAll(n, jid) == {m \in Msgs : \E row \in tab[n] : row[2] = m}

\* NewIterator of a table runs over the whole database.
doQueryMsg(n, jid) ==
  {m \in Msgs : \E row \in tab[n] : row[2] = m /\ Kfilter(Peerid(jid), row)}

-----------------------------------------------------------------------------
(* PID_MAILBOX                                                             *)

RequestPut(n, m) ==
  /\ put[n][m] = "none"
  /\ put' = [put EXCEPT ![n][m] = "sent"]
  /\ UNCHANGED <<tab, cleaning>>

\* Mutant of PutMsg: only the rows of normal messages are written.
PutNormalOnly(n, m) ==
  /\ put[n][m] = "sent"
  /\ Decodes(m)
  /\ Type[m] \in {"NormalMsg", "GroupMsg"}
  /\ tab' = [tab EXCEPT ![n] =
               @ \cup {<<Peerid(To[k]), k>> : k \in {m} \cap {j \in Msgs : Type[j] = "NormalMsg"}}]
  /\ put' = [put EXCEPT ![n][m] = "stored"]
  /\ UNCHANGED cleaning

\* putMsg: the row is written before SUCCESS is.
PutMsg(n, m) ==
  /\ put[n][m] = "sent"
  /\ Decodes(m)
  /\ Type[m] \in {"NormalMsg", "GroupMsg"}
  /\ tab' = [tab EXCEPT ![n] = @ \cup {Row(Peerid(To[m]), m)}]
  /\ put' = [put EXCEPT ![n][m] = "stored"]
  /\ UNCHANGED cleaning

\* The early returns of the handler: a message that does not decode, a type
\* that is not supported (no reply), an error of the database.
PutError(n, m) ==
  /\ put[n][m] = "sent"
  /\ \/ ~Decodes(m) /\ put' = [put EXCEPT ![n][m] = "refused"]
     \/ /\ Decodes(m)
        /\ Type[m] \notin {"NormalMsg", "GroupMsg"}
        /\ put' = [put EXCEPT ![n][m] = "unsupported"]
     \/ /\ DbErrors /\ Decodes(m)
        /\ Type[m] \in {"NormalMsg", "GroupMsg"}
        /\ put' = [put EXCEPT ![n][m] = "failed"]
  /\ UNCHANGED <<tab, cleaning>>

-----------------------------------------------------------------------------
(* PID_MAILBOX_CLEAN                                                       *)

\* Mutant of RequestClean: the loop starts one id too early.
RequestCleanEarly(n, s, jid, ids) ==
  /\ cleaning[s].st = "none"
  /\ cleaning' = [cleaning EXCEPT ![s] = [st |-> "sent", at |-> n, jid |-> jid,
                                         ids |-> ids, next |-> 0]]
  /\ UNCHANGED <<tab, put>>

RequestClean(n, s, jid, ids) ==
  /\ cleaning[s].st = "none"
  /\ cleaning' = [cleaning EXCEPT ![s] = [st |-> "sent", at |-> n, jid |-> jid,
                                         ids |-> ids, next |-> 1]]
  /\ UNCHANGED <<tab, put>>

\* The row the loop of doCleanMsg deletes next.
CleanRow(s) == Row(Peerid(cleaning[s].jid), cleaning[s].ids[cleaning[s].next])

\* Mutant of CleanStep: all rows of the recipient are deleted.
CleanAll(s) ==
  LET c == cleaning[s] IN
  /\ c.st = "sent"
  /\ c.next <= Len(c.ids)
  /\ tab' = [tab EXCEPT ![c.at] = {row \in @ : row[1] # Peerid(c.jid)}]
  /\ cleaning' = [cleaning EXCEPT ![s].next = @ + 1]
  /\ UNCHANGED put

\* One turn of the loop of doCleanMsg; an error of Delete is ignored.
CleanStep(s) ==
  LET c == cleaning[s] IN
  /\ c.st = "sent"
  /\ c.next <= Len(c.ids)
  /\ \/ tab' = [tab EXCEPT ![c.at] = @ \ {CleanRow(s)}]
     \/ DbErrors /\ UNCHANGED tab
  /\ cleaning' = [cleaning EXCEPT ![s].next = @ + 1]
  /\ UNCHANGED put

\* Mutant of MailCrash: the rows are kept in memory only.
MailCrashVolatile(n) ==
  /\ put' = [put EXCEPT ![n] = [m \in Msgs |-> IF @[m] = "sent" THEN "dead" ELSE @[m]]]
  /\ cleaning' = [s \in Sessions |->
                    IF cleaning[s].at = n THEN [cleaning[s] EXCEPT !.st = "dead"]
                                          ELSE cleaning[s]]
  /\ tab' = [tab EXCEPT ![n] = {}]

\* The process of n ends: requests under way die, the database stays.
MailCrash(n) ==
  /\ put' = [put EXCEPT ![n] = [m \in Msgs |-> IF @[m] = "sent" THEN "dead" ELSE @[m]]]
  /\ cleaning' = [s \in Sessions |->
                    IF cleaning[s].at = n THEN [cleaning[s] EXCEPT !.st = "dead"]
                                          ELSE cleaning[s]]
  /\ UNCHANGED tab

\* The id lists a client can have read from a bag: no id twice.
IdLists == UNION {SetToSeqs(S) : S \in SUBSET Msgs}

MailNext ==
  \/ \E n \in Nodes, m \in Msgs : RequestPut(n, m) \/ PutMsg(n, m) \/ PutError(n, m)
  \/ \E n, k \in Nodes, s \in Sessions, q \in IdLists : RequestClean(n, s, Myid(k), q)
  \/ \E s \in Sessions : CleanStep(s)
  \/ \E n \in Nodes : MailCrash(n)

MailSpec == MailInit /\ [][MailNext]_mailVars

-----------------------------------------------------------------------------
(* Properties.                                                             *)

\* Type invariant of the store.
MailTypeOK ==
  /\ tab \in [Nodes -> SUBSET ((Nodes \cup {NoId}) \X Msgs)]
  /\ put \in [Nodes -> [Msgs -> PutStates]]
  /\ cleaning \in [Sessions -> [st : CleanStates, at : Nodes \cup {NoId},
                                jid : JIDs, ids : Seq(Msgs), next : Nat]]
  /\ \A s \in Sessions :
       /\ cleaning[s].st = "sent" => cleaning[s].at \in Nodes
       /\ cleaning[s].next \in 1 .. Len(cleaning[s].ids) + 1

\* The loop of doCleanMsg of s has gone past m, on n.
CleanedBy(s, n, m) ==
  /\ cleaning[s].at = n
  /\ Peerid(cleaning[s].jid) = Peerid(To[m])
  /\ \E i \in 1 .. cleaning[s].next - 1 : cleaning[s].ids[i] = m

\* The rows of a node are exactly the messages it acknowledged as stored,
\* less those a clean request of their recipient has named: neither a put,
\* a failure of the database, the clean of another peer nor the end of the
\* process at any point of the loop of doCleanMsg removes or invents a row.
StoredUntilCleaned ==
  \A n \in Nodes : \A m \in Msgs :
    /\ put[n][m] = "stored" =>
         \/ Row(Peerid(To[m]), m) \in tab[n]
         \/ \E s \in Sessions : CleanedBy(s, n, m)
    /\ \A p \in Nodes \cup {NoId} :
         Row(p, m) \in tab[n] => p = Peerid(To[m]) /\ put[n][m] = "stored"
=============================================================================
