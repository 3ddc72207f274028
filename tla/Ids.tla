-------------------------------- MODULE Ids ---------------------------------
(***************************************************************************)
(* types.go: identifiers.  A JID is the text peerid + mailboxid, a GID the *)
(* text groupid + mailboxid.  Every peer id is 53 characters long, and a   *)
(* group id is made like one, so such a text is modelled as the sequence   *)
(* of its whole 53-character blocks: a text shorter than one block is <<>>,*)
(* "" is NoId.                                                             *)
(***************************************************************************)
EXTENDS Integers, Sequences

CONSTANTS Nodes,    \* peer ids; every peer runs the program
          NoId      \* the empty id ""

JIDs == Seq(Nodes)

NewJID(id, mailbox) == IF mailbox # NoId THEN <<id, mailbox>> ELSE <<id>>

Peerid(j) == IF Len(j) < 1 THEN NoId ELSE j[1]

Mailid(j) == IF Len(j) < 2 THEN NoId ELSE j[2]
=============================================================================
