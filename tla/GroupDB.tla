------------------------------ MODULE GroupDB ------------------------------
(***************************************************************************)
(* mailbox_group.go: the groups a mailbox node keeps.  Two handlers serve  *)
(* them, PID_MAILBOX_GROUP_UPDATE and PID_MAILBOX_GROUP_MEMBER; each is a  *)
(* sequence of calls on LevelDB with no lock around it, so a step here is  *)
(* one call, and the calls of several requests interleave.  The process    *)
(* may end between any two calls; the database stays.                      *)
(*                                                                         *)
(* The members of a group are a chain of items, each naming the one before *)
(* (prve) and the one after (next), with a copy of the last one under a    *)
(* key of its own; the log of changes is a chain of the same kind.         *)
(***************************************************************************)
EXTENDS Integers, Sequences, FiniteSets

CONSTANTS
  Nodes, NoId,    \* peer ids, the empty id
  Gids, NoGid,    \* group ids, the empty id
  None,           \* a key that is not in the database
  Reqs,           \* requests, each served once
  Kind,           \* which protocol a request comes on
  Action,         \* GroupMemberReq.Action of a member request
  ReqGid,         \* Group.Id, GroupMemberReq.Gid
  Caller,         \* the peer a request comes from
  Members,        \* GroupMemberReq.Members: <<[gid |-> .., id |-> ..], ..>>
  StartId,        \* GroupMemberReq.Id: where a query starts
  Malformed,      \* requests that do not decode
  Decode,         \* what amino makes of the field GroupMember.action
  Failing,        \* requests during which calls of LevelDB may fail
  MaxCrash        \* bound: how often the process ends

Actions == {"+", "-", "f", "t", "?"}   \* ADD, SUB, FROM, TO, any other

Ids == Nodes \cup {NoId}

\* MemberItem.
Items == [id : Nodes, prve : Ids, next : Ids]

ASSUME NoneAssumption == None \notin Nodes \cup Items

ASSUME GroupAssumption ==
  /\ NoId \notin Nodes /\ NoGid \notin Gids
  /\ Kind \in [Reqs -> {"update", "member"}]
  /\ Action \in [Reqs -> Actions]
  /\ ReqGid \in [Reqs -> Gids \cup {NoGid}]
  /\ Caller \in [Reqs -> Nodes]
  /\ Members \in [Reqs -> Seq([gid : Gids, id : Nodes])]
  /\ StartId \in [Reqs -> Ids]
  /\ Malformed \in SUBSET Reqs
  /\ Decode \in [{"+", "-"} -> {"+", "-", ""}]
  /\ Failing \in SUBSET Reqs
  /\ MaxCrash \in Nat

VARIABLES
  groupTab,    \* owner in the record of each group
  member,      \* MemberItem under memberK
  memberLast,  \* MemberItem under memberLastK
  memberLog,   \* MemberLog under memberLogK
  lastlog,     \* MemberLog under memberLastlogK
  pc,          \* where the handler of each request is
  at,          \* index of the member it handles; 0 in saveGroup
  lg, itm,     \* its locals lastLog, itm
  prve, nxt,   \* its locals itmPrve (last in the ADD case), itmNext
  rsp,         \* its reply
  crashes

db == <<groupTab, member, memberLast, memberLog, lastlog>>
locals == <<at, lg, itm, prve, nxt>>
gvars == <<db, pc, locals, rsp, crashes>>

Item(i, p, n) == [id |-> i, prve |-> p, next |-> n]

\* A MemberLog is named by the call of handleMember that makes it.
LogOf(r) == <<r, at[r]>>

Init ==
  /\ groupTab = [g \in Gids |-> None]
  /\ member = [g \in Gids |-> [i \in Ids |-> None]]
  /\ memberLast = [g \in Gids |-> None]
  /\ memberLog = [g \in Gids |-> <<>>]
  /\ lastlog = [g \in Gids |-> None]
  /\ pc = [r \in Reqs |-> "sent"]
  /\ at = [r \in Reqs |-> 0]
  /\ lg = [r \in Reqs |-> None]
  /\ itm = [r \in Reqs |-> None]
  /\ prve = [r \in Reqs |-> None]
  /\ nxt = [r \in Reqs |-> None]
  /\ rsp = [r \in Reqs |-> "none"]
  /\ crashes = 0

-----------------------------------------------------------------------------
(* Helpers.                                                                *)

\* Get: an error reads like a key that is not there.
Got(r, v) == {v} \cup (IF r \in Failing THEN {None} ELSE {})

\* Put and Delete whose error is ignored leave the row as it was.
Stores(r, old, new) == {new} \cup (IF r \in Failing THEN {old} ELSE {})

Goto(r, l) == pc' = [pc EXCEPT ![r] = l]

Reply(r, v) ==
  /\ pc' = [pc EXCEPT ![r] = "done"]
  /\ rsp' = [rsp EXCEPT ![r] = v]

\* The group and the id handleMember works on, and the action it sees.
OpGid(r) == IF at[r] = 0 THEN ReqGid[r] ELSE Members[r][at[r]].gid

OpId(r) == IF at[r] = 0 THEN Caller[r] ELSE Members[r][at[r]].id

OpAction(r) == IF at[r] = 0 THEN "+" ELSE Decode[Action[r]]

PutMember(r, g, i, v) ==
  \E x \in Stores(r, member[g][i], v) : member' = [member EXCEPT ![g][i] = x]

PutLast(r, g, v) ==
  \E x \in Stores(r, memberLast[g], v) : memberLast' = [memberLast EXCEPT ![g] = x]

\* The memberlog rows of a group: a function on the logs that are stored.
PutLog(r, g, id, v) ==
  \E x \in Stores(r, memberLog[g], [k \in DOMAIN memberLog[g] \cup {id} |->
                                   IF k = id THEN v ELSE memberLog[g][k]]) :
    memberLog' = [memberLog EXCEPT ![g] = x]

\* Mutant of Return: one turn too many of the loop over req.Members.
ReturnLate(r) ==
  IF at[r] # 0 /\ at[r] <= Len(Members[r])
  THEN at' = [at EXCEPT ![r] = @ + 1] /\ Goto(r, "readlog")
  ELSE UNCHANGED at /\ Goto(r, "reply")

\* handleMember returned: saveGroup goes on to the reply, the loop over
\* req.Members to the next one, whatever was returned.
Return(r) ==
  IF at[r] # 0 /\ at[r] < Len(Members[r])
  THEN at' = [at EXCEPT ![r] = @ + 1] /\ Goto(r, "readlog")
  ELSE UNCHANGED at /\ Goto(r, "reply")

-----------------------------------------------------------------------------
(* The two handlers up to handleMember.                                    *)

\* Decoding, and req.Id == "".
Accept(r) ==
  /\ pc[r] = "sent"
  /\ IF r \in Malformed \/ (Kind[r] = "update" /\ ReqGid[r] = NoGid)
     THEN Reply(r, "error")
     ELSE Goto(r, IF Kind[r] = "update" THEN "savegroup" ELSE "getgroup") /\ UNCHANGED rsp
  /\ UNCHANGED <<db, locals, crashes>>

\* groupTab.Put with the caller as owner.
SaveGroup(r) ==
  /\ pc[r] = "savegroup"
  /\ \/ /\ groupTab' = [groupTab EXCEPT ![ReqGid[r]] = Caller[r]]
        /\ Goto(r, "checklast")
        /\ UNCHANGED rsp
     \/ r \in Failing /\ Reply(r, "error") /\ UNCHANGED groupTab
  /\ UNCHANGED <<member, memberLast, memberLog, lastlog, locals, crashes>>

\* Mutant of CheckLast: it looks for any item of the group instead.
CheckItems(r) ==
  /\ pc[r] = "checklast"
  /\ Goto(r, IF \A i \in Ids : member[ReqGid[r]][i] = None THEN "readlog" ELSE "reply")
  /\ UNCHANGED <<db, locals, rsp, crashes>>

\* Mutant of CheckLast: every update adds its owner.
CheckNever(r) ==
  /\ pc[r] = "checklast"
  /\ Goto(r, "readlog")
  /\ UNCHANGED <<db, locals, rsp, crashes>>

\* No last member: the owner becomes the first one.
CheckLast(r) ==
  /\ pc[r] = "checklast"
  /\ \E v \in Got(r, memberLast[ReqGid[r]]) :
       Goto(r, IF v = None THEN "readlog" ELSE "reply")
  /\ UNCHANGED <<db, locals, rsp, crashes>>

\* getGroup in the member handler, then the switch on req.Action.
GetGroup(r) ==
  /\ pc[r] = "getgroup"
  /\ \E v \in Got(r, IF ReqGid[r] \in Gids THEN groupTab[ReqGid[r]] ELSE None) :
       IF v = None THEN Reply(r, "error") /\ UNCHANGED <<at, itm>>
       ELSE CASE Action[r] \in {"f", "t"} ->
                   /\ Goto(r, "walk")
                   /\ itm' = [itm EXCEPT ![r] = StartId[r]]
                   /\ UNCHANGED <<at, rsp>>
              [] Action[r] \in {"+", "-"} /\ Members[r] # <<>> ->
                   /\ Goto(r, "readlog")
                   /\ at' = [at EXCEPT ![r] = 1]
                   /\ UNCHANGED <<itm, rsp>>
              [] OTHER ->
                   /\ Reply(r, IF Action[r] = "?" THEN "error" ELSE "ok")
                   /\ UNCHANGED <<at, itm>>
  /\ UNCHANGED <<db, lg, prve, nxt, crashes>>

\* queryMember: from item to item until one is not found.
Walk(r) ==
  /\ pc[r] = "walk"
  /\ \E m \in Got(r, IF ReqGid[r] \in Gids THEN member[ReqGid[r]][itm[r]] ELSE None) :
       IF m = None THEN Goto(r, "reply") /\ UNCHANGED itm
       ELSE /\ itm' = [itm EXCEPT ![r] = IF Action[r] = "f" THEN m.next ELSE m.prve]
            /\ UNCHANGED pc
  /\ UNCHANGED <<db, at, lg, prve, nxt, rsp, crashes>>

\* The update handler reads the group back; the error is replied.
Respond(r) ==
  /\ pc[r] = "reply"
  /\ \/ Reply(r, "ok")
     \/ r \in Failing /\ Kind[r] = "update" /\ Reply(r, "error")
  /\ UNCHANGED <<db, locals, crashes>>

-----------------------------------------------------------------------------
(* handleMember: the log.                                                  *)

ReadLog(r) ==
  /\ pc[r] = "readlog"
  /\ \E v \in Got(r, lastlog[OpGid(r)]) :
       /\ lg' = [lg EXCEPT ![r] = v]
       /\ Goto(r, IF v = None THEN "putlog" ELSE "linklog")
  /\ UNCHANGED <<db, at, itm, prve, nxt, rsp, crashes>>

LinkLog(r) ==
  /\ pc[r] = "linklog"
  /\ PutLog(r, OpGid(r), lg[r].id, [prve |-> lg[r].prve, next |-> LogOf(r)])
  /\ Goto(r, "putlog")
  /\ UNCHANGED <<groupTab, member, memberLast, lastlog, locals, rsp, crashes>>

LogPrve(r) == IF lg[r] = None THEN None ELSE lg[r].id

\* Mutant of PutNewLog: the copy under memberLastlogK is written first.
PutNewLogLast(r) ==
  LET last == [id |-> LogOf(r), prve |-> LogPrve(r)]
  IN /\ pc[r] = "putlog"
     /\ IF lastlog[OpGid(r)] # last
        THEN lastlog' = [lastlog EXCEPT ![OpGid(r)] = last] /\ UNCHANGED <<memberLog, pc, at>>
        ELSE /\ PutLog(r, OpGid(r), LogOf(r), [prve |-> LogPrve(r), next |-> None])
             /\ IF OpAction(r) = "+" THEN Goto(r, "addread") /\ UNCHANGED at ELSE Return(r)
             /\ UNCHANGED lastlog
     /\ UNCHANGED <<groupTab, member, memberLast, lg, itm, prve, nxt, rsp, crashes>>

\* The new log is stored; an action it does not know returns here.
PutNewLog(r) ==
  /\ pc[r] = "putlog"
  /\ PutLog(r, OpGid(r), LogOf(r), [prve |-> LogPrve(r), next |-> None])
  /\ CASE OpAction(r) = "+" -> Goto(r, "addread") /\ UNCHANGED at
       [] OpAction(r) = "-" -> Goto(r, "subitm") /\ UNCHANGED at
       [] OTHER -> Return(r)
  /\ UNCHANGED <<groupTab, member, memberLast, lastlog, lg, itm, prve, nxt, rsp, crashes>>

SetLastlog(r) ==
  /\ pc[r] = "lastlog"
  /\ \E x \in Stores(r, lastlog[OpGid(r)], [id |-> LogOf(r), prve |-> LogPrve(r)]) :
       lastlog' = [lastlog EXCEPT ![OpGid(r)] = x]
  /\ Return(r)
  /\ UNCHANGED <<groupTab, member, memberLast, memberLog, lg, itm, prve, nxt, rsp, crashes>>

-----------------------------------------------------------------------------
(* handleMember, ADD.                                                      *)

\* Mutant of AddRead: the new item links back to itself.
AddReadSelf(r) ==
  /\ pc[r] = "addread"
  /\ \E v \in Got(r, memberLast[OpGid(r)]) :
       /\ prve' = [prve EXCEPT ![r] = v]
       /\ itm' = [itm EXCEPT ![r] =
                    Item(OpId(r), IF v = None THEN NoId ELSE OpId(r), NoId)]
       /\ Goto(r, IF v = None THEN "additm" ELSE "addlink")
  /\ UNCHANGED <<db, at, lg, nxt, rsp, crashes>>

\* The new item links back to the last one, if there is one.
AddRead(r) ==
  /\ pc[r] = "addread"
  /\ \E v \in Got(r, memberLast[OpGid(r)]) :
       /\ prve' = [prve EXCEPT ![r] = v]
       /\ itm' = [itm EXCEPT ![r] =
                    Item(OpId(r), IF v = None THEN NoId ELSE v.id, NoId)]
       /\ Goto(r, IF v = None THEN "additm" ELSE "addlink")
  /\ UNCHANGED <<db, at, lg, nxt, rsp, crashes>>

AddLink(r) ==
  /\ pc[r] = "addlink"
  /\ PutMember(r, OpGid(r), prve[r].id, [prve[r] EXCEPT !.next = OpId(r)])
  /\ Goto(r, "additm")
  /\ UNCHANGED <<groupTab, memberLast, memberLog, lastlog, locals, rsp, crashes>>

\* Mutant of AddItem: the copy under memberLastK is written first.
AddItemLast(r) ==
  /\ pc[r] = "additm"
  /\ IF memberLast[OpGid(r)] # itm[r]
     THEN PutLast(r, OpGid(r), itm[r]) /\ UNCHANGED <<member, pc>>
     ELSE PutMember(r, OpGid(r), OpId(r), itm[r]) /\ Goto(r, "addlast") /\ UNCHANGED memberLast
  /\ UNCHANGED <<groupTab, memberLog, lastlog, locals, rsp, crashes>>

AddItem(r) ==
  /\ pc[r] = "additm"
  /\ PutMember(r, OpGid(r), OpId(r), itm[r])
  /\ Goto(r, "addlast")
  /\ UNCHANGED <<groupTab, memberLast, memberLog, lastlog, locals, rsp, crashes>>

AddLast(r) ==
  /\ pc[r] = "addlast"
  /\ PutLast(r, OpGid(r), itm[r])
  /\ Goto(r, "lastlog")
  /\ UNCHANGED <<groupTab, member, memberLog, lastlog, locals, rsp, crashes>>

-----------------------------------------------------------------------------
(* handleMember, SUB.                                                      *)

SubItem(r) ==
  /\ pc[r] = "subitm"
  /\ \E v \in Got(r, member[OpGid(r)][OpId(r)]) :
       /\ itm' = [itm EXCEPT ![r] = v]
       /\ IF v = None THEN Return(r) ELSE Goto(r, "subprve") /\ UNCHANGED at
  /\ UNCHANGED <<db, lg, prve, nxt, rsp, crashes>>

SubPrve(r) ==
  /\ pc[r] = "subprve"
  /\ \E v \in Got(r, member[OpGid(r)][itm[r].prve]) :
       /\ prve' = [prve EXCEPT ![r] = v]
       /\ IF v = None THEN Return(r) ELSE Goto(r, "subnext") /\ UNCHANGED at
  /\ UNCHANGED <<db, lg, itm, nxt, rsp, crashes>>

SubNext(r) ==
  /\ pc[r] = "subnext"
  /\ \E v \in Got(r, member[OpGid(r)][itm[r].next]) :
       nxt' = [nxt EXCEPT ![r] = v]
  /\ Goto(r, "subfix")
  /\ UNCHANGED <<db, at, lg, itm, prve, rsp, crashes>>

\* The item after it, or the copy of the last one, is mended.
SubFix(r) ==
  /\ pc[r] = "subfix"
  /\ LET g == OpGid(r)
         p == [prve[r] EXCEPT !.next = IF nxt[r] = None THEN NoId ELSE nxt[r].id]
     IN /\ prve' = [prve EXCEPT ![r] = p]
        /\ IF nxt[r] = None
           THEN PutLast(r, g, p) /\ UNCHANGED member
           ELSE PutMember(r, g, nxt[r].id, [nxt[r] EXCEPT !.prve = p.id]) /\ UNCHANGED memberLast
  /\ Goto(r, "sublink")
  /\ UNCHANGED <<groupTab, memberLog, lastlog, at, lg, itm, nxt, rsp, crashes>>

SubLink(r) ==
  /\ pc[r] = "sublink"
  /\ PutMember(r, OpGid(r), prve[r].id, prve[r])
  /\ Goto(r, "subdel")
  /\ UNCHANGED <<groupTab, memberLast, memberLog, lastlog, locals, rsp, crashes>>

SubDelete(r) ==
  /\ pc[r] = "subdel"
  /\ PutMember(r, OpGid(r), itm[r].id, None)
  /\ Goto(r, "lastlog")
  /\ UNCHANGED <<groupTab, memberLast, memberLog, lastlog, locals, rsp, crashes>>

-----------------------------------------------------------------------------

\* The process ends: requests not yet answered die.
ProcessEnd ==
  /\ crashes < MaxCrash
  /\ crashes' = crashes + 1
  /\ pc' = [r \in Reqs |-> IF pc[r] \in {"sent", "done"} THEN pc[r] ELSE "dead"]
  /\ UNCHANGED <<db, locals, rsp>>

HandleMember(r) ==
  \/ ReadLog(r) \/ LinkLog(r) \/ PutNewLog(r) \/ SetLastlog(r)
  \/ AddRead(r) \/ AddLink(r) \/ AddItem(r) \/ AddLast(r)
  \/ SubItem(r) \/ SubPrve(r) \/ SubNext(r)
  \/ SubFix(r) \/ SubLink(r) \/ SubDelete(r)

Serve(r) ==
  \/ SaveGroup(r) \/ CheckLast(r) \/ GetGroup(r)
  \/ Walk(r) \/ Respond(r) \/ HandleMember(r)

Next == ProcessEnd \/ \E r \in Reqs : Accept(r) \/ Serve(r)

Spec == Init /\ [][Next]_gvars

-----------------------------------------------------------------------------
(* Properties.                                                             *)

LogIds == {<<r, k>> : r \in Reqs, k \in Nat}

PCs == {"sent", "savegroup", "checklast", "getgroup", "walk", "reply", "readlog",
        "linklog", "putlog", "lastlog", "addread", "addlink", "additm", "addlast",
        "subitm", "subprve", "subnext", "subfix", "sublink", "subdel", "done", "dead"}

\* Type invariant of the database and of the handlers.
GroupTypeOK ==
  /\ groupTab \in [Gids -> Nodes \cup {None}]
  /\ member \in [Gids -> [Ids -> Items \cup {None}]]
  /\ memberLast \in [Gids -> Items \cup {None}]
  /\ \A g \in Gids : \A k \in DOMAIN memberLog[g] : k[1] \in Reqs /\ k[2] \in Nat
  /\ pc \in [Reqs -> PCs]
  /\ \A r \in Reqs : at[r] \in 0 .. Len(Members[r])
  /\ rsp \in [Reqs -> {"none", "ok", "error"}]
  /\ crashes \in 0 .. MaxCrash

\* No call of LevelDB has failed so far.
NoFailure == \A r \in Failing : pc[r] = "sent"

\* Wherever the process ends, and however requests interleave, the copy of
\* the last member and every backward link of the chain name a row that is
\* stored: a reader who starts at the end of the chain never meets a gap, as
\* long as the database works.
ChainsUnbroken == NoFailure =>
  \A g \in Gids :
    /\ memberLast[g] # None => member[g][memberLast[g].id] # None
    /\ \A i \in Nodes : member[g][i] # None =>
         member[g][i].prve = NoId \/ member[g][member[g][i].prve] # None

\* The same of the chain of logs: what getGroup gives out as Lastlog, and
\* every backward link, names a log that is stored.
LogsUnbroken == NoFailure =>
  \A g \in Gids :
    /\ lastlog[g] # None => lastlog[g].id \in DOMAIN memberLog[g]
    /\ \A k \in DOMAIN memberLog[g] :
         memberLog[g][k].prve \in DOMAIN memberLog[g] \cup {None}

\* An update that was answered with the group has left a group with a last
\* member and a log that is stored, even when another update of the same
\* group, served at the same time, or one that died half way, began its
\* initialisation.  The copy under memberLastlogK may be missing: where the
\* process ends between AddLast and SetLastlog, no later update writes it.
UpdateLeavesMember == NoFailure =>
  \A r \in Reqs : Kind[r] = "update" /\ rsp[r] = "ok" =>
    /\ groupTab[ReqGid[r]] # None
    /\ memberLast[ReqGid[r]] # None
    /\ DOMAIN memberLog[ReqGid[r]] # {}

\* Two updates of one peer have both got as far as making its item: saveGroup
\* of one has read memberLastK before the other wrote it.
AddedTwice(g) ==
  \E q, r \in Reqs :
    /\ q # r /\ Caller[q] = Caller[r]
    /\ \A x \in {q, r} : Kind[x] = "update" /\ ReqGid[x] = g /\ itm[x] # None

\* A walk along the chain comes to an end, in either direction: no set of
\* members whose links lead round in it comes about, however updates of
\* several peers interleave and wherever the process ends.  Two of one peer
\* that overlap are the exception: they make its item the one before itself,
\* and the query goes on for ever.
NoWayRound == NoFailure =>
  \A g \in Gids : AddedTwice(g) \/
    \A S \in (SUBSET Nodes) \ {{}} :
      /\ \E i \in S : member[g][i] = None \/ member[g][i].prve \notin S
      /\ \E i \in S : member[g][i] = None \/ member[g][i].next \notin S

-----------------------------------------------------------------------------
(* What handleMember does to the list of members.                          *)

\* The members of a group, from the item without a predecessor along next; a
\* link to an item that is not stored ends the chain.
Chain(g) ==
  LET stored == {i \in Nodes : member[g][i] # None}
      first == {i \in stored : member[g][i].prve = NoId}
      step[k \in 1 .. Cardinality(Nodes)] ==
        IF k = 1 THEN IF first = {} THEN NoId ELSE CHOOSE i \in first : TRUE
        ELSE IF step[k - 1] \in stored THEN member[g][step[k - 1]].next ELSE NoId
  IN SelectSeq(step, LAMBDA i : i \in stored)

\* What a request asks for, in the terms of MemberList.
OpsOf(r) ==
  IF Kind[r] = "update" THEN <<[op |-> "first", gid |-> ReqGid[r], id |-> Caller[r]]>>
  ELSE IF Action[r] \notin {"+", "-"} THEN <<>>
  ELSE [k \in DOMAIN Members[r] |->
          [op |-> Action[r], gid |-> Members[r][k].gid, id |-> Members[r][k].id]]

\* The member the handler is at is in the chain, or out of it.
Linked(r) ==
  pc[r] \in {"addlast", "subdel", "lastlog", "reply", "done"} /\ rsp[r] # "error"

OpsDone(r) ==
  IF Kind[r] = "update" THEN IF Linked(r) THEN 1 ELSE 0
  ELSE IF at[r] = 0 \/ Linked(r) THEN at[r] ELSE at[r] - 1

\* handleMember by itself: a request is taken when no other is served, in a
\* process that stays.  Nothing in the code serves requests so; the question
\* is whether its writes are right before they interleave.
Idle == \A r \in Reqs : pc[r] \in {"sent", "done"}

SerialNext == \E r \in Reqs : (Idle /\ Accept(r)) \/ Serve(r)

SerialSpec == Init /\ [][SerialNext]_gvars

\* Request by request, the chains of items are the lists of MemberList: the
\* writes of handleMember come in an order that makes each change at one
\* stroke, no member request and no later owner takes the place of the first
\* member, and a request that was served has had all its effects.
Abstract == INSTANCE MemberList WITH
  Ops <- [r \in Reqs |-> OpsOf(r)],
  list <- [g \in Gids |-> IF NoFailure THEN Chain(g) ELSE <<>>],
  served <- [r \in Reqs |-> IF NoFailure THEN OpsDone(r) ELSE 0],
  lost <- ~NoFailure

ImplementsMemberList == Abstract!ListSpec

-----------------------------------------------------------------------------
(* What the comments say.                                                  *)

\* mailbox_group.go:348, "add / remove members": a request to add members
\* that was answered with SUCCESS has added them.
MembersAdded ==
  \A r \in Reqs : Kind[r] = "member" /\ Action[r] = "+" /\ rsp[r] = "ok" =>
    \A k \in DOMAIN Members[r] : member[Members[r][k].gid][Members[r][k].id] # None
=============================================================================
