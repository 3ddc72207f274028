------------------------------- MODULE Types -------------------------------
(***************************************************************************)
(* types.go: envelopes and the limits of their encoding.                   *)
(* A message is a model value; its envelope is given by the constant       *)
(* functions below.                                                        *)
(***************************************************************************)
EXTENDS Ids, FiniteSets, SequencesExt

CONSTANTS Mail,     \* --mailbox of each node, NoId when the flag is not given
          Msgs,     \* messages, one model value per Envelope.Id (a uuid)
          From,     \* the node that calls SendMsg with the message
          To, Gid,  \* Envelope.To and Envelope.Gid, as JIDs
          Type,     \* Envelope.Type
          SentAt,   \* the instant newMessage ran, in milliseconds
          OverPkg,  \* messages whose encoding is longer than MAX_PKG
          Sessions  \* /chat connections; each names the handler it registers
                    \* and the clean request it issues

MsgTypes == {"NormalMsg", "GroupMsg", "OtherMsg"}

ASSUME TypesAssumption ==
  /\ NoId \notin Nodes
  /\ Mail \in [Nodes -> Nodes \cup {NoId}]
  /\ IsFiniteSet(Msgs)
  /\ From \in [Msgs -> Nodes]
  /\ To \in [Msgs -> JIDs]
  /\ Gid \in [Msgs -> JIDs]
  /\ Type \in [Msgs -> MsgTypes]
  /\ SentAt \in [Msgs -> Nat]
  /\ OverPkg \in SUBSET Msgs

\* The JID a node is started with.
Myid(n) == NewJID(n, Mail[n])

\* Envelope.Ct: the clock of the sender, in whole seconds.
Ct(m) == SentAt[m] \div 1000

\* FromReader refuses what does not fit in MAX_PKG.
Decodes(m) == m \notin OverPkg

\* The bags doQueryMsg can return for a set of messages: sort.Sort by Ct,
\* which is not stable, over the order of the random message ids.
Less(m1, m2) == Ct(m1) < Ct(m2)

\* Mutant of SortedBags: the messages are not sorted.
UnsortedBags(S) == SetToSeqs(S)

SortedBags(S) ==
  {q \in SetToSeqs(S) : \A i, j \in DOMAIN q : Less(q[i], q[j]) => i < j}
=============================================================================
