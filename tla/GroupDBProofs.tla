--------------------------- MODULE GroupDBProofs ---------------------------
(***************************************************************************)
(* Proofs about GroupDB, for any requests, served at the same time, over a *)
(* database that may fail, with any number of process ends.                *)
(***************************************************************************)
EXTENDS GroupDB, SequenceTheorems, TLAPS

LogRecs == [id : LogIds, prve : LogIds \cup {None}]

\* Where a handler is inside handleMember.
Handling == {"readlog", "linklog", "putlog", "lastlog", "addread", "addlink", "additm",
             "addlast", "subitm", "subprve", "subnext", "subfix", "sublink", "subdel"}

InSub == {"subitm", "subprve", "subnext", "subfix", "sublink", "subdel"}

\* The database.
DbTyped ==
  /\ groupTab \in [Gids -> Nodes \cup {None}]
  /\ member \in [Gids -> [Ids -> Items \cup {None}]]
  /\ memberLast \in [Gids -> Items \cup {None}]
  /\ memberLog = [g \in Gids |-> memberLog[g]]
  /\ \A g \in Gids : \A k \in DOMAIN memberLog[g] : k \in LogIds
  /\ lastlog \in [Gids -> LogRecs \cup {None}]

\* The handlers.
LocalsTyped ==
  /\ at \in [Reqs -> Nat]
  /\ lg \in [Reqs -> LogRecs \cup {None}]
  /\ itm \in [Reqs -> Items \cup {None} \cup Ids]
  /\ prve \in [Reqs -> Items \cup {None}]
  /\ nxt \in [Reqs -> Items \cup {None}]

ControlTyped ==
  /\ pc \in [Reqs -> PCs]
  /\ rsp \in [Reqs -> {"none", "ok", "error"}]
  /\ crashes \in 0 .. MaxCrash

\* The locals that the next calls of a handler use, by where it is.
LocalOK(q) ==
  /\ at[q] \in 0 .. Len(Members[q])
  /\ pc[q] = "sent" => at[q] = 0
  /\ pc[q] \in {"savegroup", "checklast"} =>
       at[q] = 0 /\ Kind[q] = "update" /\ ReqGid[q] \in Gids
  /\ pc[q] \in {"getgroup", "walk"} => Kind[q] = "member"
  /\ pc[q] \in Handling /\ at[q] = 0 => Kind[q] = "update" /\ ReqGid[q] \in Gids
  /\ at[q] # 0 => Kind[q] = "member" /\ Action[q] \in {"+", "-"}
  /\ pc[q] \in InSub => at[q] # 0
  /\ pc[q] = "walk" => itm[q] \in Ids
  /\ pc[q] = "linklog" => lg[q] \in LogRecs /\ lg[q] # None
  /\ pc[q] \in {"addlink", "additm", "addlast", "subprve", "subnext",
                "subfix", "sublink", "subdel"} => itm[q] \in Items
  /\ pc[q] \in {"addlink", "subnext", "subfix", "sublink"} => prve[q] \in Items

Typed ==
  /\ DbTyped /\ LocalsTyped /\ ControlTyped
  /\ \A q \in Reqs : LocalOK(q)

-----------------------------------------------------------------------------
(* Facts about the helpers.                                                *)

LEMMA CallerType ==
  ASSUME NEW r \in Reqs
  PROVE  Caller[r] \in Nodes /\ Caller[r] # None
<1>1. Caller[r] \in Nodes
  BY GroupAssumption
<1>2. None \notin Nodes
  BY NoneAssumption
<1> QED
  BY <1>1, <1>2

LEMMA MembersType ==
  ASSUME NEW r \in Reqs
  PROVE  /\ Members[r] \in Seq([gid : Gids, id : Nodes])
         /\ Len(Members[r]) \in Nat
         /\ Members[r] # <<>> => 1 \in 0 .. Len(Members[r])
<1> DEFINE M == [gid : Gids, id : Nodes]
<1>1. Members[r] \in Seq(M)
  BY GroupAssumption
<1> HIDE DEF M
<1>2. Len(Members[r]) \in Nat /\ (Members[r] # <<>> => Len(Members[r]) # 0)
  BY <1>1, LenProperties, EmptySeq
<1> QED
  BY <1>1, <1>2 DEF M

\* What handleMember works on is a group and a peer.
LEMMA OpType ==
  ASSUME Typed, NEW r \in Reqs, pc[r] \in Handling
  PROVE  OpGid(r) \in Gids /\ OpId(r) \in Nodes
<1>1. at[r] = 0 => ReqGid[r] \in Gids /\ Caller[r] \in Nodes
  BY GroupAssumption DEF Typed, LocalOK
<1>2. at[r] # 0 => Members[r][at[r]] \in [gid : Gids, id : Nodes]
  <2> DEFINE M == [gid : Gids, id : Nodes]
  <2>1. Members[r] \in Seq(M)
    BY MembersType
  <2>2. at[r] \in 0 .. Len(Members[r])
    BY DEF Typed, LocalOK
  <2> HIDE DEF M
  <2>3. at[r] # 0 => Members[r][at[r]] \in M
    BY <2>1, <2>2
  <2> QED
    BY <2>3 DEF M
<1> QED
  BY <1>1, <1>2 DEF OpGid, OpId

\* The handler r, and no other, is at l.
Moved(r, l) ==
  /\ pc' \in [Reqs -> PCs] /\ pc'[r] = l
  /\ \A q \in Reqs \ {r} : pc'[q] = pc[q]

\* Goto moves one handler.
LEMMA GotoMoves ==
  ASSUME Typed, NEW r \in Reqs, NEW l \in PCs, Goto(r, l)
  PROVE  Moved(r, l)
BY DEF Typed, ControlTyped, Goto, Moved

\* So does Reply, which is the only one to touch rsp.
LEMMA ReplyMoves ==
  ASSUME Typed, NEW r \in Reqs, NEW v \in {"ok", "error"}, Reply(r, v)
  PROVE  /\ Moved(r, "done")
         /\ rsp' \in [Reqs -> {"none", "ok", "error"}] /\ rsp'[r] = v
         /\ \A q \in Reqs \ {r} : rsp'[q] = rsp[q]
BY DEF Typed, ControlTyped, Reply, Moved, PCs

\* Where a handler is after a call of handleMember.
LEMMA ReturnMoves ==
  ASSUME Typed, NEW r \in Reqs, Return(r)
  PROVE  /\ at' \in [Reqs -> Nat] /\ \A q \in Reqs \ {r} : at'[q] = at[q]
         /\ \/ Moved(r, "reply") /\ at' = at
            \/ Moved(r, "readlog") /\ at[r] # 0 /\ at'[r] # 0
         /\ at'[r] \in 0 .. Len(Members[r])
<1>1. /\ at \in [Reqs -> Nat] /\ at[r] \in 0 .. Len(Members[r])
      /\ Len(Members[r]) \in Nat
  BY MembersType DEF Typed, LocalOK, LocalsTyped
<1>2. CASE at[r] # 0 /\ at[r] < Len(Members[r])
  BY <1>1, <1>2, GotoMoves DEF Return, PCs
<1>3. CASE ~(at[r] # 0 /\ at[r] < Len(Members[r]))
  BY <1>1, <1>3, GotoMoves DEF Return, PCs
<1> QED
  BY <1>2, <1>3

\* A step of one handler leaves the others where they are.
LEMMA StepTyped ==
  ASSUME Typed, NEW r \in Reqs, NEW l, Moved(r, l),
         DbTyped', LocalsTyped', LocalOK(r)',
         rsp' \in [Reqs -> {"none", "ok", "error"}], UNCHANGED crashes,
         \A q \in Reqs \ {r} : /\ at'[q] = at[q] /\ lg'[q] = lg[q]
                               /\ itm'[q] = itm[q] /\ prve'[q] = prve[q]
  PROVE  Typed'
<1>1. \A q \in Reqs : LocalOK(q)'
  BY DEF Typed, LocalOK, Moved
<1> QED
  BY <1>1 DEF Typed, ControlTyped, Moved

\* A row of the chain of members keeps its type.
LEMMA PutMemberType ==
  ASSUME Typed, NEW r, NEW g \in Gids, NEW i \in Ids, NEW v \in Items \cup {None},
         PutMember(r, g, i, v)
  PROVE  /\ member' \in [Gids -> [Ids -> Items \cup {None}]]
         /\ \A h \in Gids, j \in Ids : h # g \/ j # i => member'[h][j] = member[h][j]
         /\ member'[g][i] = v \/ (r \in Failing /\ member' = member)
<1>1. member \in [Gids -> [Ids -> Items \cup {None}]]
  BY DEF Typed, DbTyped
<1>2. PICK x \in Stores(r, member[g][i], v) : member' = [member EXCEPT ![g][i] = x]
  BY DEF PutMember
<1>3. x = v \/ (r \in Failing /\ x = member[g][i])
  BY <1>2 DEF Stores
<1>4. x \in Items \cup {None}
  BY <1>1, <1>3
<1>5. CASE x = v
  BY <1>1, <1>2, <1>4, <1>5
<1>6. CASE r \in Failing /\ x = member[g][i]
  BY <1>1, <1>2, <1>6
<1> QED
  BY <1>3, <1>5, <1>6

\* So does the copy of the last one.
LEMMA PutLastType ==
  ASSUME Typed, NEW r, NEW g \in Gids, NEW v \in Items, PutLast(r, g, v)
  PROVE  /\ memberLast' \in [Gids -> Items \cup {None}]
         /\ \A h \in Gids \ {g} : memberLast'[h] = memberLast[h]
         /\ memberLast'[g] = v \/ (r \in Failing /\ memberLast' = memberLast)
BY DEF Typed, DbTyped, PutLast, Stores

\* A put of a log adds at most its own row.
LEMMA PutLogType ==
  ASSUME Typed, NEW r, NEW g \in Gids, NEW k \in LogIds, NEW v, PutLog(r, g, k, v)
  PROVE  /\ memberLog' = [h \in Gids |-> memberLog'[h]]
         /\ \A h \in Gids : \A j \in DOMAIN memberLog'[h] : j \in LogIds
         /\ \A h \in Gids \ {g} : memberLog'[h] = memberLog[h]
         /\ \/ /\ DOMAIN memberLog'[g] = DOMAIN memberLog[g] \cup {k}
               /\ \A j \in DOMAIN memberLog'[g] :
                    memberLog'[g][j] = IF j = k THEN v ELSE memberLog[g][j]
            \/ r \in Failing /\ memberLog' = memberLog
<1> DEFINE new == [j \in DOMAIN memberLog[g] \cup {k} |-> IF j = k THEN v ELSE memberLog[g][j]]
<1>1. /\ memberLog = [h \in Gids |-> memberLog[h]]
      /\ \A h \in Gids : \A j \in DOMAIN memberLog[h] : j \in LogIds
  BY DEF Typed, DbTyped
<1>2. PICK x \in Stores(r, memberLog[g], new) : memberLog' = [memberLog EXCEPT ![g] = x]
  BY DEF PutLog
<1>3. x = new \/ (r \in Failing /\ x = memberLog[g])
  BY <1>2 DEF Stores
<1> HIDE DEF new
<1>4. /\ memberLog' = [h \in Gids |-> IF h = g THEN x ELSE memberLog[h]]
      /\ memberLog'[g] = x
  BY <1>1, <1>2
<1>5. /\ memberLog' = [h \in Gids |-> memberLog'[h]]
      /\ \A h \in Gids \ {g} : memberLog'[h] = memberLog[h]
  BY <1>4
<1>6. CASE x = new
  <2>1. /\ DOMAIN memberLog'[g] = DOMAIN memberLog[g] \cup {k}
        /\ \A j \in DOMAIN memberLog'[g] :
             memberLog'[g][j] = IF j = k THEN v ELSE memberLog[g][j]
    BY <1>4, <1>6 DEF new
  <2>2. \A h \in Gids : \A j \in DOMAIN memberLog'[h] : j \in LogIds
    BY <1>1, <1>5, <2>1
  <2> QED
    BY <1>5, <2>1, <2>2
<1>7. CASE r \in Failing /\ x = memberLog[g]
  BY <1>1, <1>4, <1>5, <1>7
<1> QED
  BY <1>3, <1>6, <1>7

-----------------------------------------------------------------------------
(* The type invariant.                                                     *)

\* The handlers up to handleMember, and after it.
LEMMA HandlerTyped ==
  ASSUME Typed, NEW r \in Reqs,
         \/ Accept(r) \/ SaveGroup(r) \/ CheckLast(r)
         \/ GetGroup(r) \/ Walk(r) \/ Respond(r)
  PROVE  Typed'
<1>0. LocalOK(r) /\ ControlTyped /\ DbTyped /\ LocalsTyped
  BY DEF Typed
<1>r. ASSUME UNCHANGED <<db, at, lg, itm, prve, nxt, crashes>>,
             NEW v \in {"ok", "error"}, Reply(r, v)
      PROVE  Typed'
  <2>1. Moved(r, "done") /\ rsp' \in [Reqs -> {"none", "ok", "error"}]
    BY <1>r, ReplyMoves
  <2>2. LocalOK(r)'
    BY <1>0, <1>r, <2>1 DEF LocalOK, Moved, Handling, InSub
  <2>3. DbTyped' /\ LocalsTyped'
    BY <1>0, <1>r DEF DbTyped, LocalsTyped, db
  <2> QED
    BY <1>r, <2>1, <2>2, <2>3, StepTyped
<1>g. ASSUME UNCHANGED <<db, at, lg, itm, prve, nxt, rsp, crashes>>,
             NEW l \in PCs, Moved(r, l), LocalOK(r)'
      PROVE  Typed'
  <2>1. DbTyped' /\ LocalsTyped'
    BY <1>0, <1>g DEF DbTyped, LocalsTyped, db
  <2>2. rsp' \in [Reqs -> {"none", "ok", "error"}]
    BY <1>0, <1>g DEF ControlTyped
  <2> QED
    BY <1>g, <2>1, <2>2, StepTyped
<1>1. CASE Accept(r)
  <2>1. UNCHANGED <<db, locals, crashes>> /\ pc[r] = "sent"
    BY <1>1 DEF Accept
  <2>2. CASE Reply(r, "error")
    BY <2>1, <2>2, <1>r DEF locals
  <2>3. CASE /\ Goto(r, IF Kind[r] = "update" THEN "savegroup" ELSE "getgroup")
             /\ UNCHANGED rsp
             /\ ~(Kind[r] = "update" /\ ReqGid[r] = NoGid)
    <3>1. PICK l \in {"savegroup", "getgroup"} :
            Goto(r, l) /\ l = (IF Kind[r] = "update" THEN "savegroup" ELSE "getgroup")
      BY <2>3
    <3>2. Moved(r, l)
      BY <3>1, GotoMoves DEF PCs
    <3>3. at[r] = 0 /\ (Kind[r] = "update" => ReqGid[r] \in Gids) /\ Kind[r] \in {"update", "member"}
      BY <1>0, <2>1, <2>3, GroupAssumption DEF LocalOK
    <3>4. LocalOK(r)'
      BY <1>0, <2>1, <3>1, <3>2, <3>3 DEF LocalOK, Moved, Handling, InSub, locals
    <3> QED
      BY <2>1, <2>3, <3>2, <3>4, <1>g DEF locals, PCs
  <2> QED
    BY <1>1, <2>2, <2>3 DEF Accept
<1>2. CASE SaveGroup(r)
  <2>1. /\ UNCHANGED <<member, memberLast, memberLog, lastlog, locals, crashes>>
        /\ pc[r] = "savegroup"
    BY <1>2 DEF SaveGroup
  <2>2. CASE Reply(r, "error") /\ UNCHANGED groupTab
    BY <2>1, <2>2, <1>r DEF locals, db
  <2>3. CASE /\ groupTab' = [groupTab EXCEPT ![ReqGid[r]] = Caller[r]]
             /\ Goto(r, "checklast") /\ UNCHANGED rsp
    <3>1. Moved(r, "checklast")
      BY <2>3, GotoMoves DEF PCs
    <3>2. LocalOK(r)'
      BY <1>0, <2>1, <3>1 DEF LocalOK, Moved, Handling, InSub, locals
    <3>3. Caller[r] \in Nodes
      BY GroupAssumption
    <3>4. DbTyped' /\ LocalsTyped'
      BY <1>0, <2>1, <2>3, <3>3 DEF DbTyped, LocalsTyped, locals
    <3>5. rsp' \in [Reqs -> {"none", "ok", "error"}]
      BY <1>0, <2>3 DEF ControlTyped
    <3> QED
      BY <2>1, <3>1, <3>2, <3>4, <3>5, StepTyped DEF locals
  <2> QED
    BY <1>2, <2>2, <2>3 DEF SaveGroup
<1>3. CASE CheckLast(r)
  <2>1. PICK l \in {"readlog", "reply"} : Goto(r, l)
    BY <1>3 DEF CheckLast
  <2>2. UNCHANGED <<db, locals, rsp, crashes>> /\ pc[r] = "checklast"
    BY <1>3 DEF CheckLast
  <2>3. Moved(r, l)
    BY <2>1, GotoMoves DEF PCs
  <2>4. LocalOK(r)'
    BY <1>0, <2>1, <2>2, <2>3 DEF LocalOK, Moved, Handling, InSub, locals
  <2> QED
    BY <2>1, <2>2, <2>3, <2>4, <1>g DEF locals, PCs
<1>4. CASE GetGroup(r)
  <2>1. UNCHANGED <<db, lg, prve, nxt, crashes>> /\ pc[r] = "getgroup"
    BY <1>4 DEF GetGroup
  <2>2. CASE \E v \in {"ok", "error"} : Reply(r, v) /\ UNCHANGED <<at, itm>>
    BY <2>1, <2>2, <1>r
  <2>3. CASE /\ Goto(r, "walk") /\ itm' = [itm EXCEPT ![r] = StartId[r]]
             /\ UNCHANGED <<at, rsp>>
    <3>1. Moved(r, "walk")
      BY <2>3, GotoMoves DEF PCs
    <3>2. /\ itm' \in [Reqs -> Items \cup {None} \cup Ids] /\ itm'[r] \in Ids
          /\ \A q \in Reqs \ {r} : itm'[q] = itm[q]
      BY <1>0, <2>3, GroupAssumption DEF LocalsTyped
    <3>3. LocalOK(r)'
      BY <1>0, <2>1, <2>3, <3>1, <3>2 DEF LocalOK, Moved, Handling, InSub
    <3>4. DbTyped' /\ LocalsTyped'
      BY <1>0, <2>1, <2>3, <3>2 DEF DbTyped, LocalsTyped, db
    <3>5. rsp' \in [Reqs -> {"none", "ok", "error"}]
      BY <1>0, <2>3 DEF ControlTyped
    <3> QED
      BY <2>1, <2>3, <3>1, <3>2, <3>3, <3>4, <3>5, StepTyped
  <2>4. CASE /\ Goto(r, "readlog") /\ at' = [at EXCEPT ![r] = 1] /\ UNCHANGED <<itm, rsp>>
             /\ Action[r] \in {"+", "-"} /\ Members[r] # <<>>
    <3>1. Moved(r, "readlog")
      BY <2>4, GotoMoves DEF PCs
    <3>2. at' \in [Reqs -> Nat] /\ at'[r] = 1 /\ \A q \in Reqs \ {r} : at'[q] = at[q]
      BY <1>0, <2>4 DEF LocalsTyped
    <3>3. LocalOK(r)'
      BY <1>0, <2>1, <2>4, <3>1, <3>2, MembersType DEF LocalOK, Moved, Handling, InSub
    <3>4. DbTyped' /\ LocalsTyped'
      BY <1>0, <2>1, <2>4, <3>2 DEF DbTyped, LocalsTyped, db
    <3>5. rsp' \in [Reqs -> {"none", "ok", "error"}]
      BY <1>0, <2>4 DEF ControlTyped
    <3> QED
      BY <2>1, <2>4, <3>1, <3>2, <3>3, <3>4, <3>5, StepTyped
  <2>5. PICK v \in Got(r, IF ReqGid[r] \in Gids THEN groupTab[ReqGid[r]] ELSE None) :
          IF v = None THEN Reply(r, "error") /\ UNCHANGED <<at, itm>>
          ELSE \/ /\ Goto(r, "walk") /\ itm' = [itm EXCEPT ![r] = StartId[r]]
                  /\ UNCHANGED <<at, rsp>>
               \/ /\ Goto(r, "readlog") /\ at' = [at EXCEPT ![r] = 1] /\ UNCHANGED <<itm, rsp>>
                  /\ Action[r] \in {"+", "-"} /\ Members[r] # <<>>
               \/ \E w \in {"ok", "error"} : Reply(r, w) /\ UNCHANGED <<at, itm>>
    BY <1>4 DEF GetGroup
  <2> QED
    BY <2>2, <2>3, <2>4, <2>5
<1>5. CASE Walk(r)
  <2>1. UNCHANGED <<db, at, lg, prve, nxt, rsp, crashes>> /\ pc[r] = "walk"
    BY <1>5 DEF Walk
  <2>2. CASE Goto(r, "reply") /\ UNCHANGED itm
    <3>1. Moved(r, "reply")
      BY <2>2, GotoMoves DEF PCs
    <3>2. LocalOK(r)'
      BY <1>0, <2>1, <2>2, <3>1 DEF LocalOK, Moved, Handling, InSub
    <3> QED
      BY <2>1, <2>2, <3>1, <3>2, <1>g DEF PCs
  <2>3. CASE \E m \in Items : /\ itm' = [itm EXCEPT ![r] = IF Action[r] = "f" THEN m.next ELSE m.prve]
                               /\ UNCHANGED pc
    <3>1. /\ itm' \in [Reqs -> Items \cup {None} \cup Ids] /\ itm'[r] \in Ids
          /\ \A q \in Reqs \ {r} : itm'[q] = itm[q]
      BY <1>0, <2>3 DEF LocalsTyped, Items
    <3>2. LocalOK(r)' /\ Moved(r, "walk")
      BY <1>0, <2>1, <2>3, <3>1 DEF LocalOK, Handling, InSub, Moved, ControlTyped
    <3>3. DbTyped' /\ LocalsTyped' /\ rsp' \in [Reqs -> {"none", "ok", "error"}]
      BY <1>0, <2>1, <3>1 DEF DbTyped, LocalsTyped, db, ControlTyped
    <3> QED
      BY <2>1, <3>1, <3>2, <3>3, StepTyped
  <2>4. PICK m \in Got(r, IF ReqGid[r] \in Gids THEN member[ReqGid[r]][itm[r]] ELSE None) :
          IF m = None THEN Goto(r, "reply") /\ UNCHANGED itm
          ELSE /\ itm' = [itm EXCEPT ![r] = IF Action[r] = "f" THEN m.next ELSE m.prve]
               /\ UNCHANGED pc
    BY <1>5 DEF Walk
  <2>5. m # None => m \in Items
    BY <1>0, <2>1, <2>4 DEF Got, DbTyped, LocalOK
  <2> QED
    BY <2>2, <2>3, <2>4, <2>5
<1>6. CASE Respond(r)
  BY <1>6, <1>r DEF Respond, locals
<1> QED
  BY <1>1, <1>2, <1>3, <1>4, <1>5, <1>6

\* handleMember, the log.
LEMMA LogTyped ==
  ASSUME Typed, NEW r \in Reqs,
         ReadLog(r) \/ LinkLog(r) \/ PutNewLog(r) \/ SetLastlog(r)
  PROVE  Typed'
<1>0. LocalOK(r) /\ ControlTyped /\ DbTyped /\ LocalsTyped
  BY DEF Typed
<1>a. pc[r] \in Handling
  BY DEF ReadLog, LinkLog, PutNewLog, SetLastlog, Handling
<1>b. OpGid(r) \in Gids /\ OpId(r) \in Nodes
  BY <1>a, OpType
<1>c. LogOf(r) \in LogIds
  BY <1>0 DEF LogOf, LogIds, LocalsTyped
<1>1. CASE ReadLog(r)
  <2>1. PICK v \in Got(r, lastlog[OpGid(r)]) :
          /\ lg' = [lg EXCEPT ![r] = v]
          /\ Goto(r, IF v = None THEN "putlog" ELSE "linklog")
    BY <1>1 DEF ReadLog
  <2>2. v \in LogRecs \cup {None}
    BY <1>0, <1>b, <2>1 DEF Got, DbTyped
  <2>3. UNCHANGED <<db, at, itm, prve, nxt, rsp, crashes>> /\ pc[r] = "readlog"
    BY <1>1 DEF ReadLog
  <2>4. PICK l \in {"putlog", "linklog"} : Moved(r, l) /\ (l = "linklog" => v # None)
    BY <2>1, GotoMoves DEF PCs
  <2>5. /\ lg' \in [Reqs -> LogRecs \cup {None}] /\ lg'[r] = v
        /\ \A q \in Reqs \ {r} : lg'[q] = lg[q]
    BY <1>0, <2>1, <2>2 DEF LocalsTyped
  <2>6. LocalOK(r)'
    BY <1>0, <2>2, <2>3, <2>4, <2>5 DEF LocalOK, Moved, Handling, InSub
  <2>7. DbTyped' /\ LocalsTyped' /\ rsp' \in [Reqs -> {"none", "ok", "error"}]
    BY <1>0, <2>3, <2>5 DEF DbTyped, LocalsTyped, ControlTyped, db
  <2> QED
    BY <2>3, <2>4, <2>5, <2>6, <2>7, StepTyped
<1>2. CASE LinkLog(r)
  <2>1. /\ UNCHANGED <<groupTab, member, memberLast, lastlog, locals, rsp, crashes>>
        /\ pc[r] = "linklog" /\ Moved(r, "putlog")
    BY <1>2, GotoMoves DEF LinkLog, PCs
  <2>2. lg[r].id \in LogIds
    BY <1>0, <2>1 DEF LocalOK, LogRecs
  <2>3. /\ memberLog' = [h \in Gids |-> memberLog'[h]]
        /\ \A h \in Gids : \A j \in DOMAIN memberLog'[h] : j \in LogIds
    BY <1>2, <1>b, <2>2, PutLogType DEF LinkLog
  <2>4. LocalOK(r)'
    BY <1>0, <2>1 DEF LocalOK, Moved, Handling, InSub, locals
  <2>5. DbTyped' /\ LocalsTyped' /\ rsp' \in [Reqs -> {"none", "ok", "error"}]
    BY <1>0, <2>1, <2>3 DEF DbTyped, LocalsTyped, ControlTyped, locals
  <2> QED
    BY <2>1, <2>4, <2>5, StepTyped DEF locals
<1>3. CASE PutNewLog(r)
  <2>1. /\ UNCHANGED <<groupTab, member, memberLast, lastlog, lg, itm, prve, nxt, rsp, crashes>>
        /\ pc[r] = "putlog"
    BY <1>3 DEF PutNewLog
  <2>2. /\ memberLog' = [h \in Gids |-> memberLog'[h]]
        /\ \A h \in Gids : \A j \in DOMAIN memberLog'[h] : j \in LogIds
    BY <1>3, <1>b, <1>c, PutLogType DEF PutNewLog
  <2>3. CASE \E l \in {"addread", "subitm"} : /\ Goto(r, l) /\ UNCHANGED at
                                              /\ l = "subitm" => OpAction(r) = "-"
    <3>1. PICK l \in {"addread", "subitm"} : Moved(r, l) /\ (l = "subitm" => at[r] # 0)
      BY <2>3, GotoMoves DEF PCs, OpAction
    <3>2. LocalOK(r)'
      BY <1>0, <2>1, <2>3, <3>1 DEF LocalOK, Moved, Handling, InSub
    <3>3. DbTyped' /\ LocalsTyped' /\ rsp' \in [Reqs -> {"none", "ok", "error"}]
      BY <1>0, <2>1, <2>2, <2>3 DEF DbTyped, LocalsTyped, ControlTyped
    <3> QED
      BY <2>1, <2>3, <3>1, <3>2, <3>3, StepTyped
  <2>4. CASE Return(r)
    <3>1. PICK l \in {"reply", "readlog"} :
            /\ Moved(r, l) /\ at' \in [Reqs -> Nat]
            /\ \A q \in Reqs \ {r} : at'[q] = at[q]
            /\ l = "reply" => at' = at
            /\ l = "readlog" => at[r] # 0 /\ at'[r] # 0
            /\ at'[r] \in 0 .. Len(Members[r])
      BY <2>4, ReturnMoves
    <3>2. LocalOK(r)'
      BY <1>0, <2>1, <3>1 DEF LocalOK, Moved, Handling, InSub
    <3>3. DbTyped' /\ LocalsTyped' /\ rsp' \in [Reqs -> {"none", "ok", "error"}]
      BY <1>0, <2>1, <2>2, <3>1 DEF DbTyped, LocalsTyped, ControlTyped
    <3> QED
      BY <2>1, <3>1, <3>2, <3>3, StepTyped
  <2> QED
    BY <1>3, <2>3, <2>4 DEF PutNewLog
<1>4. CASE SetLastlog(r)
  <2>1. /\ UNCHANGED <<groupTab, member, memberLast, memberLog, lg, itm, prve, nxt, rsp, crashes>>
        /\ pc[r] = "lastlog"
    BY <1>4 DEF SetLastlog
  <2>2. lastlog' \in [Gids -> LogRecs \cup {None}]
    <3>1. LogPrve(r) \in LogIds \cup {None}
      BY <1>0 DEF LogPrve, LocalsTyped, LogRecs
    <3>2. [id |-> LogOf(r), prve |-> LogPrve(r)] \in LogRecs
      BY <1>c, <3>1 DEF LogRecs
    <3> QED
      BY <1>0, <1>4, <1>b, <3>2 DEF SetLastlog, Stores, DbTyped
  <2>3. PICK l \in {"reply", "readlog"} :
          /\ Moved(r, l) /\ at' \in [Reqs -> Nat]
          /\ \A q \in Reqs \ {r} : at'[q] = at[q]
          /\ l = "reply" => at' = at
          /\ l = "readlog" => at[r] # 0 /\ at'[r] # 0
          /\ at'[r] \in 0 .. Len(Members[r])
    BY <1>4, ReturnMoves DEF SetLastlog
  <2>4. LocalOK(r)'
    BY <1>0, <2>1, <2>3 DEF LocalOK, Moved, Handling, InSub
  <2>5. DbTyped' /\ LocalsTyped' /\ rsp' \in [Reqs -> {"none", "ok", "error"}]
    BY <1>0, <2>1, <2>2, <2>3 DEF DbTyped, LocalsTyped, ControlTyped
  <2> QED
    BY <2>1, <2>3, <2>4, <2>5, StepTyped
<1> QED
  BY <1>1, <1>2, <1>3, <1>4

\* A call of handleMember that reads or writes the chain of members and goes
\* on to the next call, with other values of itm, prve and nxt.
LEMMA ChainStep ==
  ASSUME Typed, NEW r \in Reqs, NEW l \in PCs, Moved(r, l),
         pc[r] \in Handling, l \in Handling \ {"linklog", "readlog"},
         UNCHANGED <<groupTab, memberLog, lastlog, at, lg, rsp, crashes>>,
         member' \in [Gids -> [Ids -> Items \cup {None}]],
         memberLast' \in [Gids -> Items \cup {None}],
         itm' \in [Reqs -> Items \cup {None} \cup Ids],
         prve' \in [Reqs -> Items \cup {None}],
         nxt' \in [Reqs -> Items \cup {None}],
         \A q \in Reqs \ {r} : itm'[q] = itm[q] /\ prve'[q] = prve[q],
         l \in {"addlink", "additm", "addlast", "subprve", "subnext",
                "subfix", "sublink", "subdel"} => itm'[r] \in Items,
         l \in {"addlink", "subnext", "subfix", "sublink"} => prve'[r] \in Items,
         l \in InSub => at[r] # 0
  PROVE  Typed'
<1>1. LocalOK(r)'
  BY DEF Typed, LocalOK, Moved, Handling, InSub
<1>2. DbTyped' /\ LocalsTyped' /\ rsp' \in [Reqs -> {"none", "ok", "error"}]
  BY DEF Typed, DbTyped, LocalsTyped, ControlTyped
<1> QED
  BY <1>1, <1>2, StepTyped

\* SUB returns early when there is no such item, or none before it.
LEMMA EarlyReturn ==
  ASSUME Typed, NEW r \in Reqs, Return(r), pc[r] \in Handling,
         UNCHANGED <<db, lg, rsp, crashes>>, LocalsTyped',
         \A q \in Reqs \ {r} : itm'[q] = itm[q] /\ prve'[q] = prve[q]
  PROVE  Typed'
<1>1. PICK l \in {"reply", "readlog"} :
        /\ Moved(r, l)
        /\ \A q \in Reqs \ {r} : at'[q] = at[q]
        /\ l = "reply" => at' = at
        /\ l = "readlog" => at[r] # 0 /\ at'[r] # 0
        /\ at'[r] \in 0 .. Len(Members[r])
  BY ReturnMoves
<1>2. LocalOK(r)'
  BY <1>1 DEF Typed, LocalOK, Moved, Handling, InSub
<1>3. DbTyped' /\ rsp' \in [Reqs -> {"none", "ok", "error"}]
  BY DEF Typed, DbTyped, ControlTyped, db
<1> QED
  BY <1>1, <1>2, <1>3, StepTyped

\* handleMember, ADD.
LEMMA AddTyped ==
  ASSUME Typed, NEW r \in Reqs,
         AddRead(r) \/ AddLink(r) \/ AddItem(r) \/ AddLast(r)
  PROVE  Typed'
<1>0. LocalOK(r) /\ DbTyped /\ LocalsTyped
  BY DEF Typed
<1>a. pc[r] \in Handling
  BY DEF AddRead, AddLink, AddItem, AddLast, Handling
<1>b. OpGid(r) \in Gids /\ OpId(r) \in Nodes /\ OpId(r) \in Ids
  BY <1>a, OpType DEF Ids
<1>1. CASE AddRead(r)
  <2>1. /\ UNCHANGED <<db, at, lg, nxt, rsp, crashes>>
        /\ pc[r] = "addread"
    BY <1>1 DEF AddRead
  <2>2. PICK v \in Got(r, memberLast[OpGid(r)]) :
          /\ prve' = [prve EXCEPT ![r] = v]
          /\ itm' = [itm EXCEPT ![r] = Item(OpId(r), IF v = None THEN NoId ELSE v.id, NoId)]
          /\ Goto(r, IF v = None THEN "additm" ELSE "addlink")
    BY <1>1 DEF AddRead
  <2>3. v \in Items \cup {None}
    BY <1>0, <1>b, <2>2 DEF Got, DbTyped
  <2>4. Item(OpId(r), IF v = None THEN NoId ELSE v.id, NoId) \in Items
    BY <1>b, <2>3 DEF Item, Items, Ids
  <2>5. PICK l \in {"additm", "addlink"} : Moved(r, l) /\ (l = "addlink" => v # None)
    BY <2>2, GotoMoves DEF PCs
  <2>6. /\ prve' \in [Reqs -> Items \cup {None}] /\ prve'[r] = v
        /\ itm' \in [Reqs -> Items \cup {None} \cup Ids] /\ itm'[r] \in Items
        /\ \A q \in Reqs \ {r} : itm'[q] = itm[q] /\ prve'[q] = prve[q]
    BY <1>0, <2>2, <2>3, <2>4 DEF LocalsTyped
  <2>7. /\ member' \in [Gids -> [Ids -> Items \cup {None}]]
        /\ memberLast' \in [Gids -> Items \cup {None}]
        /\ nxt' \in [Reqs -> Items \cup {None}]
    BY <1>0, <2>1 DEF DbTyped, LocalsTyped, db
  <2>8. l \in PCs /\ l \in Handling \ {"linklog", "readlog"} /\ l \notin InSub
    BY <2>5 DEF PCs, Handling, InSub
  <2> QED
    BY <1>a, <2>1, <2>3, <2>5, <2>6, <2>7, <2>8, ChainStep DEF db
<1>2. CASE AddLink(r)
  <2>1. /\ UNCHANGED <<groupTab, memberLast, memberLog, lastlog, locals, rsp, crashes>>
        /\ pc[r] = "addlink" /\ Moved(r, "additm")
    BY <1>2, GotoMoves DEF AddLink, PCs
  <2>2. /\ prve[r].id \in Ids /\ [prve[r] EXCEPT !.next = OpId(r)] \in Items
        /\ itm[r] \in Items
    BY <1>0, <1>b, <2>1 DEF LocalOK, Items, Ids
  <2>3. member' \in [Gids -> [Ids -> Items \cup {None}]]
    BY <1>2, <1>b, <2>2, PutMemberType DEF AddLink
  <2> QED
    BY <1>0, <1>a, <2>1, <2>2, <2>3, ChainStep DEF locals, DbTyped, LocalsTyped, PCs, Handling, InSub
<1>3. CASE AddItem(r)
  <2>1. /\ UNCHANGED <<groupTab, memberLast, memberLog, lastlog, locals, rsp, crashes>>
        /\ pc[r] = "additm" /\ Moved(r, "addlast")
    BY <1>3, GotoMoves DEF AddItem, PCs
  <2>2. itm[r] \in Items
    BY <1>0, <2>1 DEF LocalOK
  <2>3. member' \in [Gids -> [Ids -> Items \cup {None}]]
    BY <1>3, <1>b, <2>2, PutMemberType DEF AddItem
  <2> QED
    BY <1>0, <1>a, <2>1, <2>2, <2>3, ChainStep DEF locals, DbTyped, LocalsTyped, PCs, Handling, InSub
<1>4. CASE AddLast(r)
  <2>1. /\ UNCHANGED <<groupTab, member, memberLog, lastlog, locals, rsp, crashes>>
        /\ pc[r] = "addlast" /\ Moved(r, "lastlog")
    BY <1>4, GotoMoves DEF AddLast, PCs
  <2>2. itm[r] \in Items
    BY <1>0, <2>1 DEF LocalOK
  <2>3. memberLast' \in [Gids -> Items \cup {None}]
    BY <1>4, <1>b, <2>2, PutLastType DEF AddLast
  <2> QED
    BY <1>0, <1>a, <2>1, <2>2, <2>3, ChainStep DEF locals, DbTyped, LocalsTyped, PCs, Handling, InSub
<1> QED
  BY <1>1, <1>2, <1>3, <1>4

\* handleMember, SUB.
LEMMA SubTyped ==
  ASSUME Typed, NEW r \in Reqs,
         \/ SubItem(r) \/ SubPrve(r) \/ SubNext(r)
         \/ SubFix(r) \/ SubLink(r) \/ SubDelete(r)
  PROVE  Typed'
<1>0. LocalOK(r) /\ DbTyped /\ LocalsTyped
  BY DEF Typed
<1>a. pc[r] \in Handling
  BY DEF SubItem, SubPrve, SubNext, SubFix, SubLink, SubDelete, Handling
<1>b. OpGid(r) \in Gids /\ OpId(r) \in Nodes /\ OpId(r) \in Ids
  BY <1>a, OpType DEF Ids
<1>c. ASSUME NEW i \in Ids, NEW v \in Got(r, member[OpGid(r)][i])
      PROVE  v \in Items \cup {None}
  BY <1>0, <1>b, <1>c DEF Got, DbTyped
<1>e. at[r] # 0
  BY <1>0 DEF SubItem, SubPrve, SubNext, SubFix, SubLink, SubDelete, LocalOK, InSub
<1>d. UNCHANGED db => /\ member' \in [Gids -> [Ids -> Items \cup {None}]]
                     /\ memberLast' \in [Gids -> Items \cup {None}]
  BY <1>0 DEF DbTyped, db
<1>1. CASE SubItem(r)
  <2>1. UNCHANGED <<db, lg, prve, nxt, rsp, crashes>> /\ pc[r] = "subitm"
    BY <1>1 DEF SubItem
  <2>2. PICK v \in Got(r, member[OpGid(r)][OpId(r)]) :
          /\ itm' = [itm EXCEPT ![r] = v]
          /\ IF v = None THEN Return(r) ELSE Goto(r, "subprve") /\ UNCHANGED at
    BY <1>1 DEF SubItem
  <2>3. v \in Items \cup {None}
    BY <1>b, <1>c
  <2>4. /\ itm' \in [Reqs -> Items \cup {None} \cup Ids] /\ itm'[r] = v
        /\ \A q \in Reqs \ {r} : itm'[q] = itm[q]
    BY <1>0, <2>2, <2>3 DEF LocalsTyped
  <2>5. CASE v = None
    <3>1. LocalsTyped'
      BY <1>0, <2>1, <2>2, <2>4, <2>5, ReturnMoves DEF LocalsTyped
    <3> QED
      BY <1>a, <1>e, <2>1, <2>2, <2>4, <2>5, <3>1, EarlyReturn
  <2>6. CASE v # None
    <3>1. Moved(r, "subprve")
      BY <2>2, <2>6, GotoMoves DEF PCs
    <3> QED
      BY <1>0, <1>a, <1>e, <1>d, <2>1, <2>2, <2>3, <2>4, <2>6, <3>1, ChainStep
      DEF db, LocalsTyped, PCs, Handling
  <2> QED
    BY <2>5, <2>6
<1>2. CASE SubPrve(r)
  <2>1. UNCHANGED <<db, lg, itm, nxt, rsp, crashes>> /\ pc[r] = "subprve"
    BY <1>2 DEF SubPrve
  <2>2. PICK v \in Got(r, member[OpGid(r)][itm[r].prve]) :
          /\ prve' = [prve EXCEPT ![r] = v]
          /\ IF v = None THEN Return(r) ELSE Goto(r, "subnext") /\ UNCHANGED at
    BY <1>2 DEF SubPrve
  <2>3. itm[r] \in Items /\ v \in Items \cup {None}
    BY <1>0, <1>c, <2>1, <2>2 DEF LocalOK, Items
  <2>4. /\ prve' \in [Reqs -> Items \cup {None}] /\ prve'[r] = v
        /\ \A q \in Reqs \ {r} : prve'[q] = prve[q]
    BY <1>0, <2>2, <2>3 DEF LocalsTyped
  <2>5. CASE v = None
    <3>1. LocalsTyped'
      BY <1>0, <2>1, <2>2, <2>4, <2>5, ReturnMoves DEF LocalsTyped
    <3> QED
      BY <1>a, <1>e, <2>1, <2>2, <2>4, <2>5, <3>1, EarlyReturn
  <2>6. CASE v # None
    <3>1. Moved(r, "subnext")
      BY <2>2, <2>6, GotoMoves DEF PCs
    <3> QED
      BY <1>0, <1>a, <1>e, <1>d, <2>1, <2>2, <2>3, <2>4, <2>6, <3>1, ChainStep
      DEF db, LocalsTyped, PCs, Handling
  <2> QED
    BY <2>5, <2>6
<1>3. CASE SubNext(r)
  <2>1. /\ UNCHANGED <<db, at, lg, itm, prve, rsp, crashes>>
        /\ pc[r] = "subnext" /\ Moved(r, "subfix")
    BY <1>3, GotoMoves DEF SubNext, PCs
  <2>2. itm[r] \in Items /\ prve[r] \in Items
    BY <1>0, <2>1 DEF LocalOK
  <2>3. nxt' \in [Reqs -> Items \cup {None}]
    <3>1. PICK v \in Got(r, member[OpGid(r)][itm[r].next]) : nxt' = [nxt EXCEPT ![r] = v]
      BY <1>3 DEF SubNext
    <3>2. v \in Items \cup {None}
      BY <1>c, <2>2 DEF Items
    <3> QED
      BY <1>0, <3>1, <3>2 DEF LocalsTyped
  <2> QED
    BY <1>0, <1>a, <1>e, <1>d, <2>1, <2>2, <2>3, ChainStep DEF db, LocalsTyped, PCs, Handling
<1>4. CASE SubFix(r)
  <2> DEFINE p == [prve[r] EXCEPT !.next = IF nxt[r] = None THEN NoId ELSE nxt[r].id]
  <2>1. /\ UNCHANGED <<groupTab, memberLog, lastlog, at, lg, itm, nxt, rsp, crashes>>
        /\ pc[r] = "subfix" /\ Moved(r, "sublink")
        /\ prve' = [prve EXCEPT ![r] = p]
    BY <1>4, GotoMoves DEF SubFix, PCs
  <2>2. itm[r] \in Items /\ prve[r] \in Items /\ nxt[r] \in Items \cup {None}
    BY <1>0, <2>1 DEF LocalOK, LocalsTyped
  <2>3. p \in Items
    BY <2>2 DEF Items, Ids
  <2>4. /\ member' \in [Gids -> [Ids -> Items \cup {None}]]
        /\ memberLast' \in [Gids -> Items \cup {None}]
    <3>1. CASE nxt[r] = None
      <4>1. PutLast(r, OpGid(r), p) /\ UNCHANGED member
        BY <1>4, <3>1 DEF SubFix
      <4> HIDE DEF p
      <4> QED
        BY <1>0, <1>b, <2>3, <4>1, PutLastType DEF DbTyped
    <3>2. CASE nxt[r] # None
      <4>1. /\ PutMember(r, OpGid(r), nxt[r].id, [nxt[r] EXCEPT !.prve = p.id])
            /\ UNCHANGED memberLast
        BY <1>4, <3>2 DEF SubFix
      <4>2. nxt[r].id \in Ids /\ p.id \in Ids
        BY <2>2, <2>3, <3>2 DEF Items, Ids
      <4> HIDE DEF p
      <4>3. [nxt[r] EXCEPT !.prve = p.id] \in Items
        BY <2>2, <3>2, <4>2 DEF Items
      <4> QED
        BY <1>0, <1>b, <4>1, <4>2, <4>3, PutMemberType DEF DbTyped
    <3> QED
      BY <3>1, <3>2
  <2> HIDE DEF p
  <2>5. /\ prve' \in [Reqs -> Items \cup {None}] /\ prve'[r] \in Items
        /\ \A q \in Reqs \ {r} : prve'[q] = prve[q]
    BY <1>0, <2>1, <2>3 DEF LocalsTyped
  <2> QED
    BY <1>0, <1>a, <1>e, <2>1, <2>2, <2>4, <2>5, ChainStep DEF LocalsTyped, PCs, Handling
<1>5. CASE SubLink(r)
  <2>1. /\ UNCHANGED <<groupTab, memberLast, memberLog, lastlog, locals, rsp, crashes>>
        /\ pc[r] = "sublink" /\ Moved(r, "subdel")
    BY <1>5, GotoMoves DEF SubLink, PCs
  <2>2. prve[r] \in Items /\ itm[r] \in Items /\ prve[r].id \in Ids
    BY <1>0, <2>1 DEF LocalOK, Items, Ids
  <2>3. member' \in [Gids -> [Ids -> Items \cup {None}]]
    BY <1>5, <1>b, <2>2, PutMemberType DEF SubLink
  <2> QED
    BY <1>0, <1>a, <1>e, <2>1, <2>2, <2>3, ChainStep DEF locals, DbTyped, LocalsTyped, PCs, Handling
<1>6. CASE SubDelete(r)
  <2>1. /\ UNCHANGED <<groupTab, memberLast, memberLog, lastlog, locals, rsp, crashes>>
        /\ pc[r] = "subdel" /\ Moved(r, "lastlog")
    BY <1>6, GotoMoves DEF SubDelete, PCs
  <2>2. itm[r].id \in Ids
    BY <1>0, <2>1 DEF LocalOK, Items, Ids
  <2>3. member' \in [Gids -> [Ids -> Items \cup {None}]]
    BY <1>6, <1>b, <2>2, PutMemberType DEF SubDelete
  <2> QED
    BY <1>0, <1>a, <1>e, <2>1, <2>3, ChainStep DEF locals, DbTyped, LocalsTyped, PCs, Handling
<1> QED
  BY <1>1, <1>2, <1>3, <1>4, <1>5, <1>6

\* The end of the process moves every handler that has begun to "dead".
LEMMA EndTyped ==
  ASSUME Typed, ProcessEnd
  PROVE  Typed'
<1>1. /\ UNCHANGED <<db, locals, rsp>>
      /\ pc' = [q \in Reqs |-> IF pc[q] \in {"sent", "done"} THEN pc[q] ELSE "dead"]
      /\ crashes < MaxCrash /\ crashes' = crashes + 1
  BY DEF ProcessEnd
<1>2. \A q \in Reqs : LocalOK(q)'
  BY <1>1 DEF Typed, LocalOK, locals, Handling, InSub
<1>3. DbTyped' /\ LocalsTyped'
  BY <1>1 DEF Typed, DbTyped, LocalsTyped, db, locals
<1>4. ControlTyped'
  <2>1. MaxCrash \in Nat
    BY GroupAssumption
  <2>2. crashes' \in 0 .. MaxCrash
    BY <1>1, <2>1 DEF Typed, ControlTyped
  <2>3. pc' \in [Reqs -> PCs]
    BY <1>1 DEF Typed, ControlTyped, PCs
  <2> QED
    BY <1>1, <2>2, <2>3 DEF Typed, ControlTyped
<1> QED
  BY <1>2, <1>3, <1>4 DEF Typed

\* Every step.
LEMMA TypedStep ==
  ASSUME Typed, [Next]_gvars
  PROVE  Typed'
<1>1. CASE UNCHANGED gvars
  BY <1>1 DEF gvars, db, locals, Typed, DbTyped, LocalsTyped, ControlTyped, LocalOK
<1>2. CASE ProcessEnd
  BY <1>2, EndTyped
<1>3. ASSUME NEW r \in Reqs, Accept(r) \/ Serve(r) PROVE Typed'
  BY <1>3, HandlerTyped, LogTyped, AddTyped, SubTyped DEF Serve, HandleMember
<1> QED
  BY <1>1, <1>2, <1>3 DEF Next

LEMMA TypedInit == Init => Typed
<1> SUFFICES ASSUME Init PROVE Typed
  OBVIOUS
<1>1. DbTyped /\ LocalsTyped
  BY DEF Init, DbTyped, LocalsTyped, Items, Ids
<1>2. ControlTyped
  <2>1. MaxCrash \in Nat
    BY GroupAssumption
  <2>2. crashes \in 0 .. MaxCrash
    BY <2>1 DEF Init
  <2>3. pc \in [Reqs -> PCs]
    BY DEF Init, PCs
  <2> QED
    BY <2>2, <2>3 DEF Init, ControlTyped
<1>3. \A q \in Reqs : LocalOK(q)
  BY MembersType DEF Init, LocalOK, Handling, InSub
<1> QED
  BY <1>1, <1>2, <1>3 DEF Typed

LEMMA TypedIsTypeOK == Typed => GroupTypeOK
<1> SUFFICES ASSUME Typed PROVE GroupTypeOK
  OBVIOUS
<1>1. \A g \in Gids : \A k \in DOMAIN memberLog[g] : k[1] \in Reqs /\ k[2] \in Nat
  BY DEF Typed, DbTyped, LogIds
<1>2. \A q \in Reqs : at[q] \in 0 .. Len(Members[q])
  BY DEF Typed, LocalOK
<1> QED
  BY <1>1, <1>2 DEF Typed, DbTyped, ControlTyped, GroupTypeOK

LEMMA AlwaysTyped == Spec => []Typed
BY TypedInit, TypedStep, PTL DEF Spec

\* The database and the handlers keep their types, whatever fails or ends,
\* and no handler goes past the end of req.Members.
THEOREM GroupTypeCorrect == Spec => []GroupTypeOK
BY AlwaysTyped, TypedIsTypeOK, PTL

-----------------------------------------------------------------------------
(* What a step of one handler touches.                                     *)

Frame(r) ==
  /\ pc'[r] # "sent"
  /\ \A q \in Reqs \ {r} :
       /\ pc'[q] = pc[q] /\ at'[q] = at[q] /\ rsp'[q] = rsp[q]
       /\ lg'[q] = lg[q] /\ itm'[q] = itm[q] /\ prve'[q] = prve[q]

\* A handler has begun with its first step, and leaves the others alone.
LEMMA StepFrame ==
  ASSUME Typed, NEW r \in Reqs, Accept(r) \/ Serve(r)
  PROVE  Frame(r)
<1>0. LocalsTyped /\ ControlTyped
  BY DEF Typed
<1>1. CASE Accept(r) \/ SaveGroup(r) \/ CheckLast(r) \/ Respond(r)
  BY <1>0, <1>1 DEF Accept, SaveGroup, CheckLast, Respond, Goto, Reply, Frame,
                    locals, ControlTyped
<1>2. CASE GetGroup(r)
  <2>1. UNCHANGED <<lg, prve>>
    BY <1>2 DEF GetGroup
  <2>2. \/ Reply(r, "error") /\ UNCHANGED <<at, itm>>
        \/ Reply(r, "ok") /\ UNCHANGED <<at, itm>>
        \/ /\ Goto(r, "walk") /\ itm' = [itm EXCEPT ![r] = StartId[r]]
           /\ UNCHANGED <<at, rsp>>
        \/ /\ Goto(r, "readlog") /\ at' = [at EXCEPT ![r] = 1] /\ UNCHANGED <<itm, rsp>>
    BY <1>2 DEF GetGroup
  <2> QED
    BY <1>0, <2>1, <2>2 DEF Goto, Reply, Frame, ControlTyped, LocalsTyped
<1>3. CASE Walk(r)
  BY <1>0, <1>3 DEF Walk, Goto, Frame, ControlTyped, LocalsTyped
<1>4. CASE ReadLog(r)
  BY <1>0, <1>4 DEF ReadLog, Goto, Frame, ControlTyped, LocalsTyped
<1>5. CASE LinkLog(r)
  BY <1>0, <1>5 DEF LinkLog, Goto, Frame, ControlTyped, locals
<1>6. CASE PutNewLog(r) \/ SetLastlog(r)
  <2>1. UNCHANGED <<lg, itm, prve, rsp>>
    BY <1>6 DEF PutNewLog, SetLastlog
  <2>2. Return(r) \/ ((Goto(r, "addread") \/ Goto(r, "subitm")) /\ UNCHANGED at)
    BY <1>6 DEF PutNewLog, SetLastlog
  <2> QED
    BY <1>0, <2>1, <2>2, ReturnMoves DEF Goto, Moved, Frame, ControlTyped, LocalsTyped
<1>7. CASE AddRead(r)
  BY <1>0, <1>7 DEF AddRead, Goto, Frame, ControlTyped, LocalsTyped
<1>8. CASE AddLink(r) \/ AddItem(r) \/ AddLast(r) \/ SubLink(r) \/ SubDelete(r)
  BY <1>0, <1>8 DEF AddLink, AddItem, AddLast, SubLink, SubDelete, Goto, Frame,
                    ControlTyped, locals
<1>9. CASE SubItem(r) \/ SubPrve(r)
  <2>1. /\ UNCHANGED <<lg, rsp>>
        /\ \A q \in Reqs \ {r} : itm'[q] = itm[q] /\ prve'[q] = prve[q]
    BY <1>0, <1>9 DEF SubItem, SubPrve, LocalsTyped
  <2>2. Return(r) \/ ((Goto(r, "subprve") \/ Goto(r, "subnext")) /\ UNCHANGED at)
    BY <1>9 DEF SubItem, SubPrve
  <2> QED
    BY <1>0, <2>1, <2>2, ReturnMoves DEF Goto, Moved, Frame, ControlTyped, LocalsTyped
<1>10. CASE SubNext(r)
  BY <1>0, <1>10 DEF SubNext, Goto, Frame, ControlTyped
<1>11. CASE SubFix(r)
  BY <1>0, <1>11 DEF SubFix, Goto, Frame, ControlTyped, LocalsTyped
<1> QED
  BY <1>1, <1>2, <1>3, <1>4, <1>5, <1>6, <1>7, <1>8, <1>9, <1>10, <1>11
  DEF Serve, HandleMember

\* While no call has failed, the handler that moves is not of Failing.
LEMMA NoFailureBack ==
  ASSUME Typed, NEW r \in Reqs, Accept(r) \/ Serve(r), NoFailure'
  PROVE  NoFailure /\ r \notin Failing
<1>1. Frame(r)
  BY StepFrame
<1>2. r \notin Failing
  BY <1>1 DEF Frame, NoFailure
<1> QED
  BY <1>1, <1>2, GroupAssumption DEF Frame, NoFailure

-----------------------------------------------------------------------------
(* The chain of logs.                                                      *)

\* The log x of the group g is stored, and so is the one before it.
LogStored(g, x) ==
  x.id \in DOMAIN memberLog[g] /\ x.prve \in DOMAIN memberLog[g] \cup {None}

LogsLinked ==
  \A g \in Gids :
    /\ lastlog[g] # None => LogStored(g, lastlog[g])
    /\ \A k \in DOMAIN memberLog[g] :
         memberLog[g][k].prve \in DOMAIN memberLog[g] \cup {None}

\* The logs that a call of handleMember has in its hands.
CallLogs(q) ==
  /\ pc[q] \in Handling \ {"readlog"} /\ lg[q] # None => LogStored(OpGid(q), lg[q])
  /\ pc[q] \in Handling \ {"readlog", "linklog", "putlog"} =>
       LogOf(q) \in DOMAIN memberLog[OpGid(q)]

LogsInv == LogsLinked /\ \A q \in Reqs : CallLogs(q)

\* Which steps write logs, whatever action handleMember sees.
LEMMA LogWriters ==
  ASSUME NEW r \in Reqs, Accept(r) \/ Serve(r)
  PROVE  UNCHANGED <<memberLog, lastlog>> \/ LinkLog(r) \/ PutNewLog(r) \/ SetLastlog(r)
BY DEF Serve, HandleMember, Accept, SaveGroup, CheckLast, GetGroup, Walk, Respond,
  ReadLog, AddRead, AddLink, AddItem, AddLast,
  SubItem, SubPrve, SubNext, SubFix, SubLink, SubDelete, db

\* No log is taken out.
LEMMA LogsStay ==
  ASSUME Typed, NEW r \in Reqs, Accept(r) \/ Serve(r), NEW g \in Gids
  PROVE  DOMAIN memberLog[g] \subseteq DOMAIN memberLog'[g]
<1>0. Typed /\ LocalOK(r)
  BY DEF Typed
<1>1. CASE LinkLog(r)
  <2>1. OpGid(r) \in Gids /\ lg[r].id \in LogIds
    BY <1>0, <1>1, OpType DEF LinkLog, Handling, LocalOK, LogRecs
  <2> QED
    BY <1>0, <1>1, <2>1, PutLogType DEF LinkLog
<1>2. CASE PutNewLog(r)
  <2>1. OpGid(r) \in Gids /\ LogOf(r) \in LogIds
    BY <1>0, <1>2, OpType DEF PutNewLog, Handling, LogOf, LogIds, Typed, LocalsTyped
  <2> QED
    BY <1>0, <1>2, <2>1, PutLogType DEF PutNewLog
<1>3. CASE SetLastlog(r)
  BY <1>3 DEF SetLastlog
<1> QED
  BY <1>1, <1>2, <1>3, LogWriters

\* The steps that write logs.
LEMMA LogWrites ==
  ASSUME Typed, LogsInv, NEW r \in Reqs, r \notin Failing,
         LinkLog(r) \/ PutNewLog(r) \/ SetLastlog(r)
  PROVE  LogsLinked'
<1> DEFINE g == OpGid(r)
<1>0. Typed /\ LocalOK(r) /\ DbTyped /\ CallLogs(r)
  BY DEF Typed, LogsInv
<1>1. g \in Gids /\ LogOf(r) \in LogIds
  BY <1>0, OpType DEF LinkLog, PutNewLog, SetLastlog, Handling, LogOf, LogIds, Typed, LocalsTyped
<1>2. CASE LinkLog(r)
  <2>1. lg[r].id \in LogIds /\ UNCHANGED lastlog
    BY <1>0, <1>2 DEF LinkLog, LocalOK, LogRecs
  <2>2. lg[r] # None => LogStored(g, lg[r])
    BY <1>0, <1>2 DEF CallLogs, LinkLog, Handling
  <2>3. PICK k, v : k \in LogIds /\ PutLog(r, g, k, v) /\ v.prve = lg[r].prve /\ k = lg[r].id
    BY <1>2, <2>1 DEF LinkLog
  <2>4. /\ \A h \in Gids \ {g} : memberLog'[h] = memberLog[h]
        /\ DOMAIN memberLog'[g] = DOMAIN memberLog[g] \cup {k}
        /\ \A j \in DOMAIN memberLog'[g] : memberLog'[g][j] = IF j = k THEN v ELSE memberLog[g][j]
    BY <1>0, <1>1, <2>3, PutLogType
  <2>5. lg[r] # None
    BY <1>0, <1>2 DEF LinkLog, LocalOK
  <2> QED
    BY <1>1, <2>1, <2>2, <2>3, <2>4, <2>5 DEF LogsInv, LogsLinked, LogStored
<1>3. CASE PutNewLog(r)
  <2>1. UNCHANGED lastlog
    BY <1>3 DEF PutNewLog
  <2>2. LogPrve(r) \in DOMAIN memberLog[g] \cup {None}
    BY <1>0, <1>3 DEF CallLogs, PutNewLog, Handling, LogPrve, LogStored
  <2>3. PICK k, v : k \in LogIds /\ PutLog(r, g, k, v) /\ v.prve = LogPrve(r)
    BY <1>1, <1>3 DEF PutNewLog
  <2>4. /\ \A h \in Gids \ {g} : memberLog'[h] = memberLog[h]
        /\ DOMAIN memberLog'[g] = DOMAIN memberLog[g] \cup {k}
        /\ \A j \in DOMAIN memberLog'[g] : memberLog'[g][j] = IF j = k THEN v ELSE memberLog[g][j]
    BY <1>0, <1>1, <2>3, PutLogType
  <2> QED
    BY <1>1, <2>1, <2>2, <2>3, <2>4 DEF LogsInv, LogsLinked, LogStored
<1>4. CASE SetLastlog(r)
  <2>1. UNCHANGED memberLog /\ pc[r] = "lastlog"
    BY <1>4 DEF SetLastlog
  <2>2. /\ LogPrve(r) \in DOMAIN memberLog[g] \cup {None}
        /\ LogOf(r) \in DOMAIN memberLog[g]
    BY <1>0, <2>1 DEF CallLogs, Handling, LogPrve, LogStored
  <2>3. lastlog' = [lastlog EXCEPT ![g] = [id |-> LogOf(r), prve |-> LogPrve(r)]]
    BY <1>4 DEF SetLastlog, Stores
  <2> HIDE DEF g
  <2> QED
    BY <1>0, <1>1, <2>1, <2>2, <2>3 DEF LogsInv, LogsLinked, LogStored, DbTyped
<1> QED
  BY <1>2, <1>3, <1>4

\* The call that moves.
LEMMA MoverLogs ==
  ASSUME Typed, LogsInv, NEW r \in Reqs, r \notin Failing, Accept(r) \/ Serve(r)
  PROVE  CallLogs(r)'
<1>0. Typed /\ LocalOK(r) /\ ControlTyped /\ LocalsTyped /\ DbTyped /\ CallLogs(r)
  BY DEF Typed, LogsInv
<1>1. CASE ReadLog(r)
  <2>1. OpGid(r) \in Gids /\ OpGid(r)' = OpGid(r)
    BY <1>0, <1>1, OpType DEF ReadLog, Handling, OpGid
  <2>2. lg' = [lg EXCEPT ![r] = lastlog[OpGid(r)]] /\ UNCHANGED memberLog
    BY <1>1 DEF ReadLog, Got, db
  <2>3. pc'[r] \in {"putlog", "linklog"}
    BY <1>0, <1>1 DEF ReadLog, Goto, ControlTyped
  <2> QED
    BY <1>0, <2>1, <2>2, <2>3 DEF LogsInv, LogsLinked, CallLogs, LogStored, LocalsTyped
<1>2. CASE LinkLog(r)
  <2>1. OpGid(r) \in Gids /\ OpGid(r)' = OpGid(r) /\ UNCHANGED lg
    BY <1>0, <1>2, OpType DEF LinkLog, Handling, OpGid, locals
  <2>2. DOMAIN memberLog[OpGid(r)] \subseteq DOMAIN memberLog'[OpGid(r)]
    BY <1>2, <2>1, LogsStay DEF Serve, HandleMember
  <2>3. pc'[r] = "putlog" /\ pc[r] = "linklog"
    BY <1>0, <1>2 DEF LinkLog, Goto, ControlTyped
  <2> QED
    BY <1>0, <2>1, <2>2, <2>3 DEF CallLogs, LogStored, Handling
<1>3. CASE PutNewLog(r)
  <2>1. OpGid(r) \in Gids /\ UNCHANGED lg /\ pc[r] = "putlog" /\ LogOf(r) \in LogIds
    BY <1>0, <1>3, OpType DEF PutNewLog, Handling, LogOf, LogIds, LocalsTyped
  <2>2. DOMAIN memberLog'[OpGid(r)] = DOMAIN memberLog[OpGid(r)] \cup {LogOf(r)}
    BY <1>0, <1>3, <2>1, PutLogType DEF PutNewLog
  <2>3. CASE Return(r)
    BY <1>0, <2>3, ReturnMoves DEF Moved, CallLogs, Handling
  <2>4. CASE UNCHANGED at
    <3>1. OpGid(r)' = OpGid(r) /\ LogOf(r)' = LogOf(r)
      BY <2>4 DEF OpGid, LogOf
    <3> QED
      BY <1>0, <2>1, <2>2, <3>1 DEF CallLogs, LogStored, Handling
  <2> QED
    BY <1>3, <2>3, <2>4 DEF PutNewLog
<1>4. CASE SetLastlog(r)
  BY <1>0, <1>4, ReturnMoves DEF SetLastlog, Moved, CallLogs, Handling
<1>5. CASE AddRead(r) \/ AddLink(r) \/ AddItem(r) \/ AddLast(r)
  <2>1. UNCHANGED <<memberLog, lg, at>> /\ pc[r] \in {"addread", "addlink", "additm", "addlast"}
    BY <1>5 DEF AddRead, AddLink, AddItem, AddLast, locals, db
  <2>2. OpGid(r)' = OpGid(r) /\ LogOf(r)' = LogOf(r)
    BY <2>1 DEF OpGid, LogOf
  <2>3. pc'[r] \in Handling
    BY <1>0, <1>5 DEF AddRead, AddLink, AddItem, AddLast, Goto, ControlTyped, Handling
  <2> QED
    BY <1>0, <2>1, <2>2, <2>3 DEF CallLogs, LogStored, Handling
<1>6. CASE Accept(r) \/ SaveGroup(r) \/ CheckLast(r) \/ Walk(r) \/ Respond(r)
  <2>1. pc'[r] \in {"done", "savegroup", "getgroup", "checklast", "readlog", "walk", "reply"}
    BY <1>0, <1>6 DEF Accept, SaveGroup, CheckLast, Walk, Respond, Goto, Reply, ControlTyped
  <2> QED
    BY <2>1 DEF CallLogs, Handling
<1>7. CASE GetGroup(r)
  <2>1. Reply(r, "error") \/ Reply(r, "ok") \/ Goto(r, "walk") \/ Goto(r, "readlog")
    BY <1>7 DEF GetGroup
  <2>2. pc'[r] \in {"done", "walk", "readlog"}
    BY <1>0, <2>1 DEF Goto, Reply, ControlTyped
  <2> QED
    BY <2>2 DEF CallLogs, Handling
<1>8. CASE \/ SubItem(r) \/ SubPrve(r) \/ SubNext(r)
           \/ SubFix(r) \/ SubLink(r) \/ SubDelete(r)
  <2>1. UNCHANGED <<memberLog, lg>> /\ pc[r] \in InSub
    BY <1>8 DEF SubItem, SubPrve, SubNext, SubFix, SubLink, SubDelete, locals, db, InSub
  <2>2. CASE Return(r)
    BY <1>0, <2>2, ReturnMoves DEF Moved, CallLogs, Handling
  <2>3. CASE UNCHANGED at
    <3>1. OpGid(r)' = OpGid(r) /\ LogOf(r)' = LogOf(r)
      BY <2>3 DEF OpGid, LogOf
    <3> QED
      BY <1>0, <2>1, <3>1 DEF CallLogs, LogStored, Handling, InSub
  <2> QED
    BY <1>8, <2>2, <2>3 DEF SubItem, SubPrve, SubNext, SubFix, SubLink, SubDelete, locals
<1> QED
  BY <1>1, <1>2, <1>3, <1>4, <1>5, <1>6, <1>7, <1>8 DEF Serve, HandleMember

LEMMA LogsStep ==
  ASSUME Typed, LogsInv, NEW r \in Reqs, r \notin Failing, Accept(r) \/ Serve(r)
  PROVE  LogsInv'
<1>0. Typed /\ Frame(r)
  BY StepFrame
<1>1. LogsLinked'
  BY LogWrites, LogWriters DEF LogsInv, LogsLinked, LogStored
<1>2. ASSUME NEW q \in Reqs \ {r}, pc[q] \in Handling PROVE CallLogs(q)'
  <2>1. /\ OpGid(q) \in Gids /\ OpGid(q)' = OpGid(q)
        /\ LogOf(q)' = LogOf(q) /\ lg'[q] = lg[q] /\ pc'[q] = pc[q]
    BY <1>0, <1>2, OpType DEF Frame, OpGid, LogOf
  <2>2. DOMAIN memberLog[OpGid(q)] \subseteq DOMAIN memberLog'[OpGid(q)]
    BY <2>1, LogsStay
  <2> QED
    BY <2>1, <2>2 DEF LogsInv, CallLogs, LogStored
<1>3. ASSUME NEW q \in Reqs \ {r}, pc[q] \notin Handling PROVE CallLogs(q)'
  BY <1>0, <1>3 DEF Frame, CallLogs
<1> QED
  BY <1>1, <1>2, <1>3, MoverLogs DEF LogsInv

LogsSafe == NoFailure => LogsInv

LEMMA LogsSafeStep ==
  ASSUME Typed, LogsSafe, [Next]_gvars
  PROVE  LogsSafe'
<1>1. CASE UNCHANGED gvars
  BY <1>1 DEF gvars, db, locals, LogsSafe, NoFailure, LogsInv, LogsLinked, CallLogs,
    LogStored, OpGid, LogOf
<1>2. CASE ProcessEnd
  <2>1. UNCHANGED <<memberLog, lastlog, at, lg>>
    BY <1>2 DEF ProcessEnd, db, locals
  <2>2. \A q \in Reqs : (pc'[q] = pc[q] \/ pc'[q] = "dead") /\ (pc'[q] = "sent" => pc[q] = "sent")
    BY <1>2 DEF ProcessEnd
  <2>3. NoFailure' => NoFailure
    BY <2>2, GroupAssumption DEF NoFailure
  <2>4. LogsLinked => LogsLinked'
    BY <2>1 DEF LogsLinked, LogStored
  <2>5. ASSUME NEW q \in Reqs, CallLogs(q) PROVE CallLogs(q)'
    BY <2>1, <2>2, <2>5 DEF CallLogs, LogStored, OpGid, LogOf, Handling
  <2> QED
    BY <2>3, <2>4, <2>5 DEF LogsSafe, LogsInv
<1>3. ASSUME NEW r \in Reqs, Accept(r) \/ Serve(r), NoFailure'
      PROVE  LogsInv'
  <2>1. NoFailure /\ r \notin Failing
    BY <1>3, NoFailureBack
  <2> QED
    BY <1>3, <2>1, LogsStep DEF LogsSafe
<1> QED
  BY <1>1, <1>2, <1>3 DEF Next, LogsSafe

LEMMA LogsSafeInit == Init => LogsSafe
<1> SUFFICES ASSUME Init PROVE LogsInv
  BY DEF LogsSafe
<1>1. LogsLinked
  BY DEF Init, LogsLinked
<1>2. \A q \in Reqs : CallLogs(q)
  BY DEF Init, CallLogs, Handling
<1> QED
  BY <1>1, <1>2 DEF LogsInv

LEMMA AlwaysLogsSafe == Spec => []LogsSafe
BY LogsSafeInit, LogsSafeStep, AlwaysTyped, PTL DEF Spec

\* No request, and no process that ends between two of its writes, leaves a
\* gap in the chain of logs, however many requests interleave and whatever
\* handleMember sees of the action: a log is written before the first link or
\* copy that names it, and none is ever taken out.
THEOREM NoGapInLogs == Spec => []LogsUnbroken
<1>1. LogsSafe => LogsUnbroken
  BY DEF LogsSafe, LogsInv, LogsLinked, LogStored, LogsUnbroken
<1> QED
  BY <1>1, AlwaysLogsSafe, PTL

-----------------------------------------------------------------------------
(* An update leaves a group with a member.                                 *)

\* What a call of an update has made, by where it is.
Left(r) ==
  /\ pc[r] \in {"checklast", "reply"} \cup Handling \/ rsp[r] = "ok" =>
       ReqGid[r] \in Gids /\ groupTab[ReqGid[r]] # None
  /\ pc[r] \in {"lastlog", "reply"} \/ rsp[r] = "ok" => memberLast[ReqGid[r]] # None

\* A group with a last member has a log.
LogFirst == \A g \in Gids : memberLast[g] # None => DOMAIN memberLog[g] # {}

UpdateInv == NoFailure =>
  LogFirst /\ \A r \in Reqs : Kind[r] = "update" => Left(r)

\* No group, and no copy of a last member, is ever taken out, and only two
\* steps put one.
LEMMA GroupsStay ==
  ASSUME Typed, NEW r \in Reqs, Accept(r) \/ Serve(r), NEW g \in Gids
  PROVE  /\ groupTab[g] # None => groupTab'[g] # None
         /\ memberLast[g] # None => memberLast'[g] # None
         /\ \/ memberLast'[g] = memberLast[g]
            \/ pc[r] \in {"addlast", "subfix"} /\ OpGid(r) = g
<1>0. LocalOK(r) /\ DbTyped
  BY DEF Typed
<1>1. CASE SaveGroup(r)
  <2>1. Caller[r] # None
    BY CallerType
  <2> QED
    BY <1>0, <1>1, <2>1 DEF SaveGroup, DbTyped
<1>2. CASE AddLast(r)
  <2>1. OpGid(r) \in Gids /\ itm[r] \in Items
    BY <1>0, <1>2, OpType DEF AddLast, Handling, LocalOK
  <2>2. memberLast'[OpGid(r)] = itm[r] \/ memberLast' = memberLast
    BY <1>2, <2>1, PutLastType DEF AddLast
  <2>3. \A h \in Gids \ {OpGid(r)} : memberLast'[h] = memberLast[h]
    BY <1>2, <2>1, PutLastType DEF AddLast
  <2> QED
    BY <1>2, <2>1, <2>2, <2>3, NoneAssumption DEF AddLast
<1>3. CASE SubFix(r)
  <2> DEFINE p == [prve[r] EXCEPT !.next = IF nxt[r] = None THEN NoId ELSE nxt[r].id]
  <2>1. OpGid(r) \in Gids /\ prve[r] \in Items /\ nxt[r] \in Items \cup {None}
    BY <1>0, <1>3, OpType DEF SubFix, Handling, LocalOK, LocalsTyped, Typed
  <2>2. p \in Items
    BY <2>1 DEF Items, Ids
  <2>3. PutLast(r, OpGid(r), p) \/ UNCHANGED memberLast
    BY <1>3 DEF SubFix
  <2> HIDE DEF p
  <2>4. \/ UNCHANGED memberLast
        \/ /\ memberLast'[OpGid(r)] = p
           /\ \A h \in Gids \ {OpGid(r)} : memberLast'[h] = memberLast[h]
    BY <2>1, <2>2, <2>3, PutLastType
  <2> QED
    BY <1>3, <2>2, <2>4, NoneAssumption DEF SubFix
<1>4. CASE UNCHANGED <<groupTab, memberLast>>
  BY <1>4
<1> QED
  BY <1>1, <1>2, <1>3, <1>4 DEF Serve, HandleMember, Accept, CheckLast, GetGroup, Walk, Respond,
    ReadLog, LinkLog, PutNewLog, SetLastlog, AddRead, AddLink, AddItem,
    SubItem, SubPrve, SubNext, SubLink, SubDelete, db

\* The call that moves keeps it.
LEMMA MoverLeft ==
  ASSUME Typed, NEW r \in Reqs, Accept(r) \/ Serve(r), r \notin Failing,
         Kind[r] = "update", Left(r)
  PROVE  Left(r)'
<1>0. LocalOK(r) /\ DbTyped /\ LocalsTyped /\ ControlTyped
  BY DEF Typed
<1>a. at[r] = 0 /\ OpGid(r) = ReqGid[r] /\ OpAction(r) = "+"
  BY <1>0 DEF LocalOK, OpGid, OpAction
<1>1. CASE Accept(r)
  BY <1>0, <1>1 DEF Accept, Goto, Reply, ControlTyped, Left, Handling, db
<1>2. CASE SaveGroup(r)
  <2>1. ReqGid[r] \in Gids /\ Caller[r] # None
    BY <1>0, <1>2, CallerType DEF SaveGroup, LocalOK
  <2> QED
    BY <1>0, <1>2, <2>1 DEF SaveGroup, Goto, ControlTyped, DbTyped, Left, Handling
<1>3. CASE CheckLast(r)
  <2>1. ReqGid[r] \in Gids
    BY <1>0, <1>3 DEF CheckLast, LocalOK
  <2>2. Goto(r, IF memberLast[ReqGid[r]] = None THEN "readlog" ELSE "reply")
    BY <1>3 DEF CheckLast, Got
  <2> QED
    BY <1>0, <1>3, <2>1, <2>2 DEF CheckLast, Goto, ControlTyped, Left, Handling, db
<1>4. CASE Respond(r)
  BY <1>0, <1>4 DEF Respond, Reply, ControlTyped, Left, Handling, db
<1>5. CASE ReadLog(r) \/ LinkLog(r) \/ AddRead(r) \/ AddLink(r) \/ AddItem(r)
  <2>1. PICK l \in {"putlog", "linklog", "additm", "addlink", "addlast"} : Goto(r, l)
    BY <1>5 DEF ReadLog, LinkLog, AddRead, AddLink, AddItem
  <2>2. UNCHANGED <<groupTab, memberLast, rsp>> /\ pc[r] \in Handling
    BY <1>5 DEF ReadLog, LinkLog, AddRead, AddLink, AddItem, Handling, db
  <2> QED
    BY <1>0, <2>1, <2>2 DEF Goto, ControlTyped, Left, Handling
<1>6. CASE PutNewLog(r)
  BY <1>0, <1>a, <1>6 DEF PutNewLog, Goto, ControlTyped, Left, Handling
<1>7. CASE SetLastlog(r)
  BY <1>0, <1>a, <1>7 DEF SetLastlog, Return, Goto, ControlTyped, Left, Handling
<1>8. CASE AddLast(r)
  <2>1. OpGid(r) \in Gids /\ itm[r] \in Items /\ itm[r] # None
    BY <1>0, <1>8, OpType, NoneAssumption DEF AddLast, Handling, LocalOK
  <2>2. memberLast'[ReqGid[r]] # None
    BY <1>a, <1>8, <2>1, PutLastType DEF AddLast
  <2> QED
    BY <1>0, <1>8, <2>2 DEF AddLast, Goto, ControlTyped, Left, Handling
<1>9. CASE GetGroup(r) \/ Walk(r)
  BY <1>0, <1>9 DEF GetGroup, Walk, LocalOK
<1>10. CASE \/ SubItem(r) \/ SubPrve(r) \/ SubNext(r)
            \/ SubFix(r) \/ SubLink(r) \/ SubDelete(r)
  <2>1. pc[r] \in InSub
    BY <1>10 DEF SubItem, SubPrve, SubNext, SubFix, SubLink, SubDelete, InSub
  <2> QED
    BY <1>0, <1>a, <2>1 DEF LocalOK
<1> QED
  BY <1>1, <1>2, <1>3, <1>4, <1>5, <1>6, <1>7, <1>8, <1>9, <1>10 DEF Serve, HandleMember

\* The log comes before the member.
LEMMA LogFirstStep ==
  ASSUME Typed, LogsInv, LogFirst, NEW r \in Reqs, Accept(r) \/ Serve(r)
  PROVE  LogFirst'
<1> SUFFICES ASSUME NEW g \in Gids, memberLast'[g] # None
             PROVE  DOMAIN memberLog[g] # {}
  BY LogsStay DEF LogFirst
<1>1. CASE memberLast'[g] = memberLast[g]
  BY <1>1 DEF LogFirst
<1>2. CASE pc[r] \in {"addlast", "subfix"} /\ OpGid(r) = g
  BY <1>2 DEF LogsInv, CallLogs, Handling
<1> QED
  BY <1>1, <1>2, GroupsStay

LEMMA UpdateStep ==
  ASSUME Typed, LogsSafe, UpdateInv, [Next]_gvars
  PROVE  UpdateInv'
<1>1. CASE UNCHANGED gvars
  BY <1>1 DEF gvars, db, UpdateInv, NoFailure, Left, LogFirst
<1>2. CASE ProcessEnd
  <2>1. /\ UNCHANGED <<db, rsp>>
        /\ \A q \in Reqs : pc'[q] = pc[q] \/ pc'[q] = "dead"
        /\ \A q \in Reqs : pc'[q] = "sent" => pc[q] = "sent"
    BY <1>2 DEF ProcessEnd
  <2>2. NoFailure' => NoFailure
    BY <2>1, GroupAssumption DEF NoFailure
  <2> QED
    BY <2>1, <2>2 DEF UpdateInv, Left, Handling, db, LogFirst
<1>3. ASSUME NEW r \in Reqs, Accept(r) \/ Serve(r), NoFailure'
      PROVE  LogFirst'
  BY <1>3, NoFailureBack, LogFirstStep DEF UpdateInv, LogsSafe
<1>4. ASSUME NEW r \in Reqs, Accept(r) \/ Serve(r), NoFailure',
             NEW q \in Reqs, Kind[q] = "update"
      PROVE  Left(q)'
  <2>1. NoFailure /\ r \notin Failing /\ Left(q)
    BY <1>4, NoFailureBack DEF UpdateInv
  <2>2. CASE q = r
    BY <1>4, <2>1, <2>2, MoverLeft
  <2>3. CASE q # r
    <3>1. pc'[q] = pc[q] /\ rsp'[q] = rsp[q]
      BY <1>4, <2>3, StepFrame DEF Frame
    <3> QED
      BY <1>4, <2>1, <3>1, GroupsStay DEF Left, Handling
  <2> QED
    BY <2>2, <2>3
<1> QED
  BY <1>1, <1>2, <1>3, <1>4 DEF Next, UpdateInv

\* An update that was answered with the group has left a group with a last
\* member and a stored log, whatever requests are served with it, wherever
\* they die and whatever handleMember sees of the action: the read of
\* CheckLast and the write of AddLast need no lock for that.
THEOREM UpdatesLeaveMember == Spec => []UpdateLeavesMember
<1>1. Init => UpdateInv
  BY DEF Init, UpdateInv, Left, Handling, LogFirst
<1>2. Typed /\ LogsSafe /\ UpdateInv /\ [Next]_gvars => UpdateInv'
  BY UpdateStep
<1>3. Typed /\ UpdateInv => UpdateLeavesMember
  <2> SUFFICES ASSUME Typed, UpdateInv, NoFailure,
                      NEW r \in Reqs, Kind[r] = "update", rsp[r] = "ok"
               PROVE  /\ groupTab[ReqGid[r]] # None
                      /\ memberLast[ReqGid[r]] # None
                      /\ DOMAIN memberLog[ReqGid[r]] # {}
    BY DEF UpdateLeavesMember
  <2> QED
    BY DEF UpdateInv, Left, LogFirst
<1> QED
  BY <1>1, <1>2, <1>3, AlwaysTyped, AlwaysLogsSafe, PTL DEF Spec

-----------------------------------------------------------------------------
(* The chain of members, with the action lost on the way.                  *)

\* GroupMember.action is not exported: what handleMember sees of it.
LostField == \A a \in {"+", "-"} : Decode[a] = ""

\* Only saveGroup gets as far as the chain.
WireOK(q) ==
  /\ pc[q] \notin InSub
  /\ pc[q] \in {"addread", "addlink", "additm", "addlast", "lastlog"} => at[q] = 0
  /\ pc[q] \in {"addlink", "additm", "addlast"} => itm[q].id = Caller[q] /\ itm[q].next = NoId

Wire == Typed /\ \A q \in Reqs : WireOK(q)

\* Which member a call works on while it is in saveGroup.
LEMMA WireOp ==
  ASSUME Wire, NEW r \in Reqs,
         pc[r] \in {"addread", "addlink", "additm", "addlast", "lastlog"}
  PROVE  /\ at[r] = 0 /\ Kind[r] = "update"
         /\ OpGid(r) = ReqGid[r] /\ ReqGid[r] \in Gids
         /\ OpId(r) = Caller[r] /\ Caller[r] \in Nodes
BY CallerType DEF Wire, WireOK, Typed, LocalOK, OpGid, OpId, Handling

LEMMA WireStep ==
  ASSUME LostField, Wire, [Next]_gvars
  PROVE  Wire'
<1>0. Typed /\ Typed' /\ ControlTyped /\ LocalsTyped
  BY TypedStep DEF Wire, Typed
<1>1. CASE UNCHANGED gvars
  BY <1>0, <1>1 DEF gvars, locals, Wire, WireOK
<1>2. CASE ProcessEnd
  BY <1>0, <1>2 DEF ProcessEnd, locals, Wire, WireOK, InSub
<1>3. ASSUME NEW r \in Reqs, Accept(r) \/ Serve(r)
      PROVE  WireOK(r)'
  <2>0. LocalOK(r) /\ WireOK(r)
    BY DEF Wire, Typed
  <2>1. CASE Accept(r) \/ SaveGroup(r) \/ CheckLast(r) \/ Respond(r)
    <3>1. pc'[r] \in {"done", "savegroup", "getgroup", "checklast", "readlog", "reply"}
      BY <1>0, <2>1 DEF Accept, SaveGroup, CheckLast, Respond, Goto, Reply, ControlTyped
    <3> QED
      BY <3>1 DEF WireOK, InSub
  <2>2. CASE GetGroup(r)
    <3>1. Reply(r, "error") \/ Reply(r, "ok") \/ Goto(r, "walk") \/ Goto(r, "readlog")
      BY <2>2 DEF GetGroup
    <3>2. pc'[r] \in {"done", "walk", "readlog"}
      BY <1>0, <3>1 DEF Goto, Reply, ControlTyped
    <3> QED
      BY <3>2 DEF WireOK, InSub
  <2>3. CASE Walk(r)
    <3>1. pc'[r] \in {"walk", "reply"}
      BY <1>0, <2>3 DEF Walk, Goto, ControlTyped
    <3> QED
      BY <3>1 DEF WireOK, InSub
  <2>4. CASE ReadLog(r) \/ LinkLog(r)
    <3>1. pc'[r] \in {"putlog", "linklog"}
      BY <1>0, <2>4 DEF ReadLog, LinkLog, Goto, ControlTyped
    <3> QED
      BY <3>1 DEF WireOK, InSub
  <2>5. CASE PutNewLog(r)
    <3>1. at[r] # 0 => OpAction(r) = ""
      BY <2>0 DEF OpAction, LocalOK, LostField
    <3>2. at[r] = 0 => OpAction(r) = "+"
      BY DEF OpAction
    <3>3. CASE at[r] = 0
      <4>1. Goto(r, "addread") /\ UNCHANGED at
        BY <2>5, <3>2, <3>3 DEF PutNewLog
      <4> QED
        BY <1>0, <3>3, <4>1 DEF Goto, ControlTyped, WireOK, InSub
    <3>4. CASE at[r] # 0
      <4>1. Return(r)
        BY <2>5, <3>1, <3>4 DEF PutNewLog
      <4> QED
        BY <1>0, <4>1, ReturnMoves DEF Moved, WireOK, InSub
    <3> QED
      BY <3>3, <3>4
  <2>6. CASE SetLastlog(r)
    BY <1>0, <2>6, ReturnMoves DEF SetLastlog, Moved, WireOK, InSub
  <2>7. CASE AddRead(r)
    <3>1. OpId(r) = Caller[r] /\ at[r] = 0
      BY <2>7, WireOp DEF AddRead
    <3>2. itm'[r].id = Caller[r] /\ itm'[r].next = NoId
      BY <1>0, <2>7, <3>1 DEF AddRead, Item, LocalsTyped
    <3>3. pc'[r] \in {"additm", "addlink"} /\ at' = at
      BY <1>0, <2>7 DEF AddRead, Goto, ControlTyped
    <3> QED
      BY <3>1, <3>2, <3>3 DEF WireOK, InSub
  <2>8. CASE AddLink(r) \/ AddItem(r) \/ AddLast(r)
    BY <1>0, <2>0, <2>8 DEF AddLink, AddItem, AddLast, Goto, ControlTyped, locals, WireOK, InSub
  <2>9. pc[r] \notin InSub
    BY <2>0 DEF WireOK
  <2> QED
    BY <1>3, <2>1, <2>2, <2>3, <2>4, <2>5, <2>6, <2>7, <2>8, <2>9
    DEF Serve, HandleMember, SubItem, SubPrve, SubNext, SubFix, SubLink, SubDelete, InSub
<1>4. ASSUME NEW r \in Reqs, Accept(r) \/ Serve(r)
      PROVE  \A q \in Reqs : WireOK(q)'
  <2>1. Frame(r)
    BY <1>0, <1>4, StepFrame
  <2> QED
    BY <1>3, <1>4, <2>1 DEF Wire, WireOK, Frame
<1> QED
  BY <1>0, <1>1, <1>2, <1>4 DEF Next, Wire

LEMMA WireInit == Init => Wire
BY TypedInit DEF Init, Wire, WireOK, InSub

\* What a step does to the chain.
LEMMA WireWrites ==
  ASSUME Wire, NEW r \in Reqs, Accept(r) \/ Serve(r)
  PROVE  UNCHANGED <<member, memberLast>> \/ AddLink(r) \/ AddItem(r) \/ AddLast(r)
<1>1. pc[r] \notin InSub
  BY DEF Wire, WireOK
<1> QED
  BY <1>1 DEF Serve, HandleMember, Accept, SaveGroup, CheckLast, GetGroup, Walk, Respond,
    ReadLog, LinkLog, PutNewLog, SetLastlog, AddRead, AddLink, AddItem, AddLast,
    SubItem, SubPrve, SubNext, SubFix, SubLink, SubDelete, InSub, db

-----------------------------------------------------------------------------
(* The chain of members.                                                   *)

Stored(g, i) == i = NoId \/ member[g][i] # None

MembersLinked ==
  \A g \in Gids :
    /\ memberLast[g] # None => /\ member[g][memberLast[g].id] # None
                               /\ Stored(g, memberLast[g].prve)
    /\ \A i \in Ids : member[g][i] # None => Stored(g, member[g][i].prve)

\* The items that a call has in its hands.
CallMembers(q) ==
  /\ pc[q] = "addlink" => Stored(OpGid(q), prve[q].prve)
  /\ pc[q] \in {"addlink", "additm", "addlast"} => Stored(OpGid(q), itm[q].prve)
  /\ pc[q] = "addlast" => member[OpGid(q)][itm[q].id] # None

MembersInv == MembersLinked /\ \A q \in Reqs : CallMembers(q)

\* What the writes of ADD put.
LEMMA AddLinkPuts ==
  ASSUME Wire, NEW r \in Reqs, r \notin Failing, AddLink(r)
  PROVE  /\ OpGid(r) \in Gids /\ prve[r].id \in Ids
         /\ member'[OpGid(r)][prve[r].id] \in Items
         /\ member'[OpGid(r)][prve[r].id].prve = prve[r].prve
         /\ member'[OpGid(r)][prve[r].id].next = OpId(r)
         /\ \A h \in Gids, j \in Ids :
              h # OpGid(r) \/ j # prve[r].id => member'[h][j] = member[h][j]
<1>1. Typed /\ OpGid(r) \in Gids /\ OpId(r) \in Nodes /\ prve[r] \in Items
  BY OpType DEF Wire, Typed, LocalOK, AddLink, Handling
<1>2. PICK v \in Items \cup {None}, i \in Ids :
        /\ PutMember(r, OpGid(r), i, v) /\ i = prve[r].id
        /\ v \in Items /\ v.prve = prve[r].prve /\ v.next = OpId(r)
  <2>1. [prve[r] EXCEPT !.next = OpId(r)] \in Items /\ prve[r].id \in Ids
    BY <1>1 DEF Items, Ids
  <2>2. /\ [prve[r] EXCEPT !.next = OpId(r)].prve = prve[r].prve
        /\ [prve[r] EXCEPT !.next = OpId(r)].next = OpId(r)
    BY <1>1 DEF Items
  <2> QED
    BY <2>1, <2>2 DEF AddLink
<1>3. PutMember(r, OpGid(r), i, v)
  BY <1>2
<1>4. /\ \A h \in Gids, j \in Ids : h # OpGid(r) \/ j # i => member'[h][j] = member[h][j]
      /\ member'[OpGid(r)][i] = v
  BY <1>1, <1>3, PutMemberType
<1> QED
  BY <1>1, <1>2, <1>4

LEMMA AddItemPuts ==
  ASSUME Wire, NEW r \in Reqs, r \notin Failing, AddItem(r)
  PROVE  /\ OpGid(r) \in Gids /\ OpId(r) \in Ids
         /\ itm[r] \in Items /\ itm[r].id = OpId(r)
         /\ member'[OpGid(r)][OpId(r)] = itm[r]
         /\ \A h \in Gids, j \in Ids :
              h # OpGid(r) \/ j # OpId(r) => member'[h][j] = member[h][j]
<1>1. Typed /\ OpGid(r) \in Gids /\ OpId(r) \in Ids
  BY OpType DEF Wire, AddItem, Handling, Ids
<1>2. itm[r] \in Items /\ itm[r].id = OpId(r)
  BY WireOp DEF Wire, WireOK, Typed, LocalOK, AddItem
<1>3. PutMember(r, OpGid(r), OpId(r), itm[r])
  BY DEF AddItem
<1> QED
  BY <1>1, <1>2, <1>3, PutMemberType

LEMMA NoneIsNoItem == \A x \in Items : x # None
BY NoneAssumption

\* No item is taken out.
LEMMA ItemsStay ==
  ASSUME Wire, NEW r \in Reqs, r \notin Failing, Accept(r) \/ Serve(r),
         NEW g \in Gids, NEW i \in Ids, member[g][i] # None
  PROVE  member'[g][i] # None
<1>1. CASE AddLink(r)
  BY <1>1, AddLinkPuts, NoneIsNoItem
<1>2. CASE AddItem(r)
  BY <1>2, AddItemPuts, NoneIsNoItem
<1>3. CASE AddLast(r)
  BY <1>3 DEF AddLast
<1> QED
  BY <1>1, <1>2, <1>3, WireWrites

LEMMA MemberWrites ==
  ASSUME Wire, MembersInv, NEW r \in Reqs, r \notin Failing, Accept(r) \/ Serve(r)
  PROVE  MembersLinked'
<1> DEFINE Kept(h, x) == x = NoId \/ member'[h][x] # None
<1>0. Typed /\ DbTyped /\ LocalOK(r) /\ CallMembers(r)
  BY DEF Wire, Typed, MembersInv
<1>a. ASSUME NEW g \in Gids, NEW x \in Ids, Stored(g, x) PROVE Kept(g, x)
  BY <1>a, ItemsStay DEF Stored
<1>b. \A x \in Items : x.id \in Ids /\ x.prve \in Ids
  BY DEF Items, Ids
<1>1. CASE AddLink(r)
  <2> DEFINE g == OpGid(r)
             k == prve[r].id
  <2>1. /\ g \in Gids /\ k \in Ids /\ UNCHANGED memberLast
        /\ member'[g][k].prve = prve[r].prve
        /\ \A h \in Gids, j \in Ids : h # g \/ j # k => member'[h][j] = member[h][j]
    BY <1>1, AddLinkPuts DEF AddLink
  <2>2. prve[r] \in Items /\ Stored(g, prve[r].prve)
    BY <1>0, <1>1 DEF AddLink, LocalOK, CallMembers
  <2> HIDE DEF g, k
  <2>3. ASSUME NEW h \in Gids, NEW j \in Ids, member'[h][j] # None
        PROVE  Kept(h, member'[h][j].prve)
    <3>1. CASE h = g /\ j = k
      BY <1>a, <1>b, <2>1, <2>2, <3>1
    <3>2. CASE h # g \/ j # k
      <4>1. member'[h][j] = member[h][j] /\ member[h][j] \in Items
        BY <1>0, <2>1, <2>3, <3>2 DEF DbTyped
      <4> QED
        BY <1>a, <1>b, <2>3, <4>1 DEF MembersInv, MembersLinked
    <3> QED
      BY <3>1, <3>2
  <2>4. ASSUME NEW h \in Gids, memberLast'[h] # None
        PROVE  member'[h][memberLast'[h].id] # None /\ Kept(h, memberLast'[h].prve)
    <3>1. memberLast'[h] = memberLast[h] /\ memberLast[h] \in Items
      BY <1>0, <2>1, <2>4 DEF DbTyped
    <3> QED
      BY <1>a, <1>b, <2>4, <3>1, ItemsStay DEF MembersInv, MembersLinked
  <2> QED
    BY <2>3, <2>4 DEF MembersLinked, Stored
<1>2. CASE AddItem(r)
  <2> DEFINE g == OpGid(r)
             k == OpId(r)
  <2>1. /\ g \in Gids /\ k \in Ids /\ UNCHANGED memberLast
        /\ member'[g][k] = itm[r]
        /\ \A h \in Gids, j \in Ids : h # g \/ j # k => member'[h][j] = member[h][j]
    BY <1>2, AddItemPuts DEF AddItem
  <2>2. itm[r] \in Items /\ Stored(g, itm[r].prve)
    BY <1>0, <1>2 DEF AddItem, LocalOK, CallMembers
  <2> HIDE DEF g, k
  <2>3. ASSUME NEW h \in Gids, NEW j \in Ids, member'[h][j] # None
        PROVE  Kept(h, member'[h][j].prve)
    <3>1. CASE h = g /\ j = k
      BY <1>a, <1>b, <2>1, <2>2, <3>1
    <3>2. CASE h # g \/ j # k
      <4>1. member'[h][j] = member[h][j] /\ member[h][j] \in Items
        BY <1>0, <2>1, <2>3, <3>2 DEF DbTyped
      <4> QED
        BY <1>a, <1>b, <2>3, <4>1 DEF MembersInv, MembersLinked
    <3> QED
      BY <3>1, <3>2
  <2>4. ASSUME NEW h \in Gids, memberLast'[h] # None
        PROVE  member'[h][memberLast'[h].id] # None /\ Kept(h, memberLast'[h].prve)
    <3>1. memberLast'[h] = memberLast[h] /\ memberLast[h] \in Items
      BY <1>0, <2>1, <2>4 DEF DbTyped
    <3> QED
      BY <1>a, <1>b, <2>4, <3>1, ItemsStay DEF MembersInv, MembersLinked
  <2> QED
    BY <2>3, <2>4 DEF MembersLinked, Stored
<1>3. CASE AddLast(r)
  <2>1. OpGid(r) \in Gids /\ itm[r] \in Items /\ UNCHANGED member
    BY <1>0, <1>3, WireOp DEF AddLast, LocalOK
  <2>2. /\ memberLast'[OpGid(r)] = itm[r]
        /\ \A h \in Gids \ {OpGid(r)} : memberLast'[h] = memberLast[h]
    BY <1>0, <1>3, <2>1, PutLastType DEF AddLast
  <2>3. Stored(OpGid(r), itm[r].prve) /\ member[OpGid(r)][itm[r].id] # None
    BY <1>0, <1>3 DEF AddLast, CallMembers
  <2> QED
    BY <2>1, <2>2, <2>3 DEF MembersInv, MembersLinked, Stored
<1>4. CASE UNCHANGED <<member, memberLast>>
  BY <1>4 DEF MembersInv, MembersLinked, Stored
<1> QED
  BY <1>1, <1>2, <1>3, <1>4, WireWrites

\* The call that moves.
LEMMA MoverMembers ==
  ASSUME Wire, MembersInv, NEW r \in Reqs, r \notin Failing, Accept(r) \/ Serve(r)
  PROVE  CallMembers(r)'
<1>0. Typed /\ DbTyped /\ LocalOK(r) /\ CallMembers(r) /\ ControlTyped /\ LocalsTyped
  BY DEF Wire, Typed, MembersInv
<1>1. CASE AddRead(r)
  <2>1. OpGid(r) \in Gids /\ OpGid(r)' = OpGid(r) /\ UNCHANGED member
    BY <1>1, WireOp DEF AddRead, OpGid, db
  <2>2. PICK v : /\ v = memberLast[OpGid(r)] /\ prve' = [prve EXCEPT ![r] = v]
                 /\ itm' = [itm EXCEPT ![r] = Item(OpId(r), IF v = None THEN NoId ELSE v.id, NoId)]
                 /\ Goto(r, IF v = None THEN "additm" ELSE "addlink")
    BY <1>1 DEF AddRead, Got
  <2>3. CASE v = None
    <3>1. pc'[r] = "additm" /\ itm'[r].prve = NoId
      BY <1>0, <2>2, <2>3 DEF Goto, ControlTyped, LocalsTyped, Item
    <3> QED
      BY <3>1 DEF CallMembers, Stored
  <2>4. CASE v # None
    <3>1. pc'[r] = "addlink" /\ itm'[r].prve = v.id /\ prve'[r] = v
      BY <1>0, <2>2, <2>4 DEF Goto, ControlTyped, LocalsTyped, Item
    <3>2. member[OpGid(r)][v.id] # None /\ Stored(OpGid(r), v.prve)
      BY <2>1, <2>2, <2>4 DEF MembersInv, MembersLinked
    <3> QED
      BY <2>1, <3>1, <3>2 DEF CallMembers, Stored
  <2> QED
    BY <2>3, <2>4
<1>2. CASE AddLink(r)
  <2>1. /\ OpGid(r) \in Gids /\ OpGid(r)' = OpGid(r) /\ UNCHANGED <<itm, prve>>
        /\ pc'[r] = "additm" /\ itm[r] \in Items
    BY <1>0, <1>2, WireOp DEF AddLink, OpGid, locals, Goto, ControlTyped, LocalOK
  <2>2. Stored(OpGid(r), itm[r].prve) /\ itm[r].prve \in Ids
    BY <1>0, <1>2, <2>1 DEF AddLink, CallMembers, Items
  <2>3. Stored(OpGid(r), itm[r].prve)'
    BY <1>2, <2>1, <2>2, ItemsStay DEF Stored, Serve, HandleMember
  <2> QED
    BY <2>1, <2>3 DEF CallMembers, Stored
<1>3. CASE AddItem(r)
  <2>1. /\ OpGid(r) \in Gids /\ OpGid(r)' = OpGid(r) /\ UNCHANGED <<itm, prve>>
        /\ pc'[r] = "addlast" /\ itm[r] \in Items /\ itm[r].id = OpId(r)
        /\ member'[OpGid(r)][OpId(r)] = itm[r]
    BY <1>0, <1>3, AddItemPuts DEF AddItem, OpGid, locals, Goto, ControlTyped
  <2>2. Stored(OpGid(r), itm[r].prve) /\ itm[r].prve \in Ids
    BY <1>0, <1>3, <2>1 DEF AddItem, CallMembers, Items
  <2>3. Stored(OpGid(r), itm[r].prve)'
    BY <1>3, <2>1, <2>2, ItemsStay DEF Stored, Serve, HandleMember
  <2> QED
    BY <2>1, <2>3, NoneIsNoItem DEF CallMembers, Stored
<1>4. CASE AddLast(r) \/ ReadLog(r) \/ LinkLog(r)
  <2>1. pc'[r] \in {"lastlog", "putlog", "linklog"}
    BY <1>0, <1>4 DEF AddLast, ReadLog, LinkLog, Goto, ControlTyped
  <2> QED
    BY <2>1 DEF CallMembers
<1>5. CASE PutNewLog(r) \/ SetLastlog(r)
  <2>1. Return(r) \/ Goto(r, "addread") \/ Goto(r, "subitm")
    BY <1>5 DEF PutNewLog, SetLastlog
  <2>2. pc'[r] \in {"reply", "readlog", "addread", "subitm"}
    BY <1>0, <2>1, ReturnMoves DEF Moved, Goto, ControlTyped
  <2> QED
    BY <2>2 DEF CallMembers
<1>6. CASE Accept(r) \/ SaveGroup(r) \/ CheckLast(r) \/ Walk(r) \/ Respond(r)
  <2>1. pc'[r] \in {"done", "savegroup", "getgroup", "checklast", "readlog", "walk", "reply"}
    BY <1>0, <1>6 DEF Accept, SaveGroup, CheckLast, Walk, Respond, Goto, Reply, ControlTyped
  <2> QED
    BY <2>1 DEF CallMembers
<1>7. CASE GetGroup(r)
  <2>1. Reply(r, "error") \/ Reply(r, "ok") \/ Goto(r, "walk") \/ Goto(r, "readlog")
    BY <1>7 DEF GetGroup
  <2>2. pc'[r] \in {"done", "walk", "readlog"}
    BY <1>0, <2>1 DEF Goto, Reply, ControlTyped
  <2> QED
    BY <2>2 DEF CallMembers
<1>8. pc[r] \notin InSub
  BY DEF Wire, WireOK
<1> QED
  BY <1>1, <1>2, <1>3, <1>4, <1>5, <1>6, <1>7, <1>8
  DEF Serve, HandleMember, SubItem, SubPrve, SubNext, SubFix, SubLink, SubDelete, InSub

LEMMA MembersStep ==
  ASSUME Wire, MembersInv, NEW r \in Reqs, r \notin Failing, Accept(r) \/ Serve(r)
  PROVE  MembersInv'
<1>0. Typed /\ Frame(r)
  BY StepFrame DEF Wire
<1>1. ASSUME NEW q \in Reqs \ {r}, pc[q] \in {"addlink", "additm", "addlast"}
      PROVE  CallMembers(q)'
  <2>1. /\ OpGid(q) \in Gids /\ OpGid(q)' = OpGid(q) /\ itm'[q] = itm[q]
        /\ prve'[q] = prve[q] /\ pc'[q] = pc[q]
    BY <1>0, <1>1, WireOp DEF Frame, OpGid
  <2>2. /\ itm[q].id \in Ids /\ itm[q].prve \in Ids
        /\ pc[q] = "addlink" => prve[q].prve \in Ids
    BY <1>0, <1>1 DEF Typed, LocalOK, Items, Ids
  <2>3. CallMembers(q)
    BY DEF MembersInv
  <2> QED
    BY <1>1, <2>1, <2>2, <2>3, ItemsStay DEF CallMembers, Stored
<1>2. ASSUME NEW q \in Reqs \ {r}, pc[q] \notin {"addlink", "additm", "addlast"}
      PROVE  CallMembers(q)'
  BY <1>0, <1>2 DEF Frame, CallMembers
<1> QED
  BY <1>1, <1>2, MemberWrites, MoverMembers DEF MembersInv

-----------------------------------------------------------------------------

ChainsInv == NoFailure => MembersInv

LEMMA ChainsStep ==
  ASSUME LostField, Wire, ChainsInv, [Next]_gvars
  PROVE  ChainsInv'
<1>1. CASE UNCHANGED gvars
  BY <1>1 DEF gvars, db, locals, ChainsInv, NoFailure, MembersInv, MembersLinked, CallMembers,
    Stored, OpGid
<1>2. CASE ProcessEnd
  <2>1. UNCHANGED <<member, memberLast, at, itm, prve>>
    BY <1>2 DEF ProcessEnd, db, locals
  <2>2. \A q \in Reqs : (pc'[q] = pc[q] \/ pc'[q] = "dead") /\ (pc'[q] = "sent" => pc[q] = "sent")
    BY <1>2 DEF ProcessEnd
  <2>3. NoFailure' => NoFailure
    BY <2>2, GroupAssumption DEF NoFailure
  <2>4. MembersLinked => MembersLinked'
    BY <2>1 DEF MembersLinked, Stored
  <2>5. ASSUME NEW q \in Reqs, CallMembers(q) PROVE CallMembers(q)'
    BY <2>1, <2>2, <2>5 DEF CallMembers, Stored, OpGid
  <2> QED
    BY <2>3, <2>4, <2>5 DEF ChainsInv, MembersInv
<1>3. ASSUME NEW r \in Reqs, Accept(r) \/ Serve(r), NoFailure'
      PROVE  MembersInv'
  <2>1. NoFailure /\ r \notin Failing
    BY <1>3, NoFailureBack DEF Wire
  <2> QED
    BY <1>3, <2>1, MembersStep DEF ChainsInv
<1> QED
  BY <1>1, <1>2, <1>3 DEF Next, ChainsInv

LEMMA ChainsInit == Init => ChainsInv
BY DEF Init, ChainsInv, MembersInv, MembersLinked, CallMembers

LEMMA AlwaysChained == LostField => (Spec => [](Wire /\ ChainsInv))
<1> SUFFICES ASSUME LostField PROVE Spec => [](Wire /\ ChainsInv)
  OBVIOUS
<1>1. Init => Wire /\ ChainsInv
  BY WireInit, ChainsInit
<1>2. Wire /\ ChainsInv /\ [Next]_gvars => Wire' /\ ChainsInv'
  BY WireStep, ChainsStep
<1> QED
  BY <1>1, <1>2, PTL DEF Spec

\* As long as the action of a member does not reach handleMember, no update,
\* and no process that ends between two of its writes, leaves a gap in the
\* chain of members, however many updates interleave: a row is written before
\* the first row or copy that names it.
THEOREM NoGapInChains == LostField => (Spec => []ChainsUnbroken)
<1> SUFFICES ASSUME LostField PROVE Spec => []ChainsUnbroken
  OBVIOUS
<1>1. ChainsInv => ChainsUnbroken
  BY DEF ChainsInv, MembersInv, MembersLinked, Stored, ChainsUnbroken, Ids
<1> QED
  BY <1>1, AlwaysChained, PTL

-----------------------------------------------------------------------------
(* No walk goes round.                                                     *)

\* The row of the item x is stored, with the link backward that x has.
InPlace(g, x) == member[g][x.id] # None /\ member[g][x.id].prve = x.prve

\* The update q of the peer i has stored its item, or died after making it.
Added(g, i, q) ==
  /\ Kind[q] = "update" /\ ReqGid[q] = g /\ Caller[q] = i /\ itm[q] # None
  /\ pc[q] \in {"addlast", "lastlog", "reply", "done", "dead"}

\* Every item whose row is written again is held as it is stored, and every
\* stored item is of an update that is past storing it.
HeldRight(g) ==
  /\ memberLast[g] # None => InPlace(g, memberLast[g])
  /\ \A q \in Reqs : ReqGid[q] = g =>
       /\ pc[q] = "addlink" => InPlace(g, prve[q])
       /\ pc[q] = "addlast" => InPlace(g, itm[q])
  /\ \A i \in Nodes : member[g][i] # None => \E q \in Reqs : Added(g, i, q)

\* The links of S lead out of it.
LeadsOut(g, S) ==
  /\ \E i \in S : member[g][i] = None \/ member[g][i].prve \notin S
  /\ \E i \in S : member[g][i] = None \/ member[g][i].next \notin S

Straight(g) ==
  HeldRight(g) /\ \A S \in (SUBSET Nodes) \ {{}} : LeadsOut(g, S)

RoundInv == NoFailure => \A g \in Gids : AddedTwice(g) \/ Straight(g)

\* An update that has made its item keeps it, and goes on from storing it.
LEMMA MadeStays ==
  ASSUME LostField, Wire, NEW r \in Reqs, Accept(r) \/ Serve(r),
         NEW q \in Reqs, Kind[q] = "update"
  PROVE  /\ itm[q] # None => itm'[q] # None
         /\ \A g, i : Added(g, i, q) => Added(g, i, q)'
<1>0. Typed /\ Frame(r) /\ LocalOK(r) /\ ControlTyped /\ LocalsTyped /\ WireOK(r)
  BY StepFrame DEF Wire, Typed
<1>1. CASE q # r
  BY <1>0, <1>1 DEF Frame, Added
<1>2. CASE q = r
  <2>1. at[r] = 0
    BY <1>0, <1>2 DEF LocalOK
  <2>2. CASE AddRead(r)
    <3>1. OpId(r) \in Nodes /\ OpGid(r) \in Gids
      BY <1>0, <2>2, OpType DEF AddRead, Handling
    <3>2. PICK v \in Got(r, memberLast[OpGid(r)]) :
            itm' = [itm EXCEPT ![r] = Item(OpId(r), IF v = None THEN NoId ELSE v.id, NoId)]
      BY <2>2 DEF AddRead
    <3>3. v \in Items \cup {None}
      BY <1>0, <3>1, <3>2 DEF Got, Typed, DbTyped
    <3>4. Item(OpId(r), IF v = None THEN NoId ELSE v.id, NoId) \in Items
      BY <3>1, <3>3 DEF Item, Items, Ids
    <3>5. itm'[r] # None
      BY <1>0, <3>2, <3>4, NoneIsNoItem DEF LocalsTyped
    <3> QED
      BY <1>2, <2>2, <3>5 DEF AddRead, Added
  <2>3. CASE AddLast(r)
    BY <1>0, <1>2, <2>3 DEF AddLast, locals, Goto, ControlTyped, Added
  <2>4. CASE SetLastlog(r)
    <3>1. Goto(r, "reply")
      BY <2>1, <2>4 DEF SetLastlog, Return
    <3> QED
      BY <1>0, <1>2, <2>4, <3>1 DEF SetLastlog, Goto, ControlTyped, Added
  <2>5. CASE Respond(r)
    BY <1>0, <1>2, <2>5 DEF Respond, locals, Reply, ControlTyped, Added
  <2>6. CASE GetGroup(r) \/ Walk(r)
    BY <1>0, <1>2, <2>6 DEF GetGroup, Walk, LocalOK
  <2>7. CASE \/ Accept(r) \/ SaveGroup(r) \/ CheckLast(r) \/ ReadLog(r) \/ LinkLog(r)
             \/ PutNewLog(r) \/ AddLink(r) \/ AddItem(r)
    <3>1. /\ UNCHANGED itm
          /\ pc[r] \notin {"addlast", "lastlog", "reply", "done", "dead"}
      BY <2>7 DEF Accept, SaveGroup, CheckLast, ReadLog, LinkLog, PutNewLog, AddLink, AddItem,
        locals
    <3> QED
      BY <1>2, <3>1 DEF Added
  <2>8. pc[r] \notin InSub
    BY <1>0 DEF WireOK
  <2> QED
    BY <2>2, <2>3, <2>4, <2>5, <2>6, <2>7, <2>8 DEF Serve, HandleMember,
      SubItem, SubPrve, SubNext, SubFix, SubLink, SubDelete, InSub
<1> QED
  BY <1>1, <1>2

\* A group that two updates of one peer have added it to stays one.
LEMMA TwiceStays ==
  ASSUME LostField, Wire, NEW r \in Reqs, Accept(r) \/ Serve(r), NEW g \in Gids, AddedTwice(g)
  PROVE  AddedTwice(g)'
BY MadeStays DEF AddedTwice

\* An update that has yet to store its item is the first of its peer.
LEMMA NotYetStored ==
  ASSUME Wire, NEW g \in Gids, ~AddedTwice(g), HeldRight(g),
         NEW r \in Reqs, pc[r] \in {"addlink", "additm"}, ReqGid[r] = g
  PROVE  Caller[r] \in Nodes /\ member[g][Caller[r]] = None
<1>1. Kind[r] = "update" /\ Caller[r] \in Nodes
  BY WireOp
<1>2. itm[r] # None
  BY NoneIsNoItem DEF Wire, Typed, LocalOK
<1>3. ASSUME NEW q \in Reqs, Added(g, Caller[r], q) PROVE FALSE
  <2>1. q # r
    BY <1>3 DEF Added
  <2> QED
    BY <1>1, <1>2, <1>3, <2>1 DEF Added, AddedTwice
<1> QED
  BY <1>1, <1>3 DEF HeldRight

\* Who comes to link an item, and to copy it.
LEMMA ComesToAdd ==
  ASSUME Wire, NEW r \in Reqs, Accept(r) \/ Serve(r)
  PROVE  /\ pc'[r] = "addlink" => AddRead(r)
         /\ pc'[r] = "addlast" => AddItem(r)
<1>0. Typed /\ ControlTyped
  BY DEF Wire, Typed
<1>1. CASE PutNewLog(r) \/ SetLastlog(r)
  <2>1. Return(r) \/ Goto(r, "addread") \/ Goto(r, "subitm")
    BY <1>1 DEF PutNewLog, SetLastlog
  <2> QED
    BY <1>0, <2>1, ReturnMoves DEF Moved, Goto, ControlTyped
<1>2. CASE GetGroup(r)
  <2>1. Reply(r, "error") \/ Reply(r, "ok") \/ Goto(r, "walk") \/ Goto(r, "readlog")
    BY <1>2 DEF GetGroup
  <2> QED
    BY <1>0, <2>1 DEF Goto, Reply, ControlTyped
<1>3. pc[r] \notin InSub
  BY DEF Wire, WireOK
<1>4. CASE \/ Accept(r) \/ SaveGroup(r) \/ CheckLast(r) \/ Walk(r) \/ Respond(r) \/ ReadLog(r)
           \/ LinkLog(r) \/ AddRead(r) \/ AddLink(r) \/ AddItem(r) \/ AddLast(r)
  BY <1>0, <1>4 DEF Accept, SaveGroup, CheckLast, Walk, Respond, ReadLog, LinkLog,
    AddRead, AddLink, AddItem, AddLast, Goto, Reply, ControlTyped
<1> QED
  BY <1>1, <1>2, <1>3, <1>4 DEF Serve, HandleMember,
    SubItem, SubPrve, SubNext, SubFix, SubLink, SubDelete, InSub

\* An item held as it is stored stays so: a row is written again with the
\* link backward it has.
LEMMA RowsStay ==
  ASSUME Wire, NEW r \in Reqs, r \notin Failing, Accept(r) \/ Serve(r),
         NEW g \in Gids, ~AddedTwice(g), HeldRight(g), NEW x \in Items, InPlace(g, x)
  PROVE  InPlace(g, x)'
<1>0. x.id \in Nodes /\ x.id \in Ids
  BY DEF Items, Ids
<1>1. CASE AddLink(r)
  <2>1. /\ member'[OpGid(r)][prve[r].id] # None
        /\ member'[OpGid(r)][prve[r].id].prve = prve[r].prve
        /\ \A h \in Gids, j \in Ids :
             h # OpGid(r) \/ j # prve[r].id => member'[h][j] = member[h][j]
    BY <1>1, AddLinkPuts, NoneIsNoItem
  <2>2. OpGid(r) = g => InPlace(g, prve[r])
    BY <1>1, WireOp DEF AddLink, HeldRight
  <2> QED
    BY <1>0, <2>1, <2>2 DEF InPlace
<1>2. CASE AddItem(r)
  <2>1. OpGid(r) = g => x.id # OpId(r)
    BY <1>2, WireOp, NotYetStored DEF AddItem, InPlace
  <2> QED
    BY <1>0, <1>2, <2>1, AddItemPuts DEF InPlace
<1>3. CASE UNCHANGED member
  BY <1>3 DEF InPlace
<1> QED
  BY <1>1, <1>2, <1>3, WireWrites DEF AddLast

LEMMA HeldStep ==
  ASSUME LostField, Wire, NEW r \in Reqs, r \notin Failing, Accept(r) \/ Serve(r),
         NEW g \in Gids, ~AddedTwice(g), HeldRight(g)
  PROVE  HeldRight(g)'
<1>0. Typed /\ Frame(r) /\ DbTyped /\ ControlTyped /\ LocalsTyped
  BY StepFrame DEF Wire, Typed
<1>1. ASSUME memberLast'[g] # None PROVE InPlace(g, memberLast[g])'
  <2>1. CASE AddLast(r) /\ OpGid(r) = g
    <3>1. itm[r] \in Items /\ InPlace(g, itm[r])
      BY <2>1, WireOp DEF AddLast, HeldRight, Wire, Typed, LocalOK
    <3>2. memberLast'[g] = itm[r]
      BY <1>0, <2>1, <3>1, PutLastType DEF AddLast
    <3> QED
      BY <3>1, <3>2, RowsStay DEF InPlace
  <2>2. CASE ~(AddLast(r) /\ OpGid(r) = g)
    <3>1. memberLast'[g] = memberLast[g]
      <4>1. CASE AddLast(r)
        <5>1. OpGid(r) \in Gids /\ itm[r] \in Items
          BY <4>1, WireOp DEF AddLast, Wire, Typed, LocalOK
        <5> QED
          BY <1>0, <2>2, <4>1, <5>1, PutLastType DEF AddLast
      <4> QED
        BY <4>1, WireWrites DEF AddLink, AddItem
    <3>2. memberLast[g] \in Items /\ InPlace(g, memberLast[g])
      BY <1>0, <1>1, <3>1 DEF DbTyped, HeldRight
    <3> QED
      BY <3>1, <3>2, RowsStay DEF InPlace
  <2> QED
    BY <2>1, <2>2
<1>2. ASSUME NEW q \in Reqs, ReqGid[q] = g, pc'[q] = "addlink"
      PROVE  InPlace(g, prve[q])'
  <2>1. CASE q # r
    <3>1. prve'[q] = prve[q] /\ prve[q] \in Items /\ InPlace(g, prve[q])
      BY <1>0, <1>2, <2>1 DEF Frame, HeldRight, Typed, LocalOK
    <3> QED
      BY <3>1, RowsStay DEF InPlace
  <2>2. CASE q = r
    <3>1. AddRead(r)
      BY <1>2, <2>2, ComesToAdd
    <3>2. OpGid(r) = g
      BY <1>2, <2>2, <3>1, WireOp DEF AddRead
    <3>3. /\ prve' = [prve EXCEPT ![r] = memberLast[g]] /\ UNCHANGED member
          /\ Goto(r, IF memberLast[g] = None THEN "additm" ELSE "addlink")
      BY <3>1, <3>2 DEF AddRead, Got, db
    <3>4. memberLast[g] # None /\ prve'[r] = memberLast[g]
      BY <1>0, <1>2, <2>2, <3>3 DEF Goto, ControlTyped, LocalsTyped
    <3> QED
      BY <2>2, <3>3, <3>4 DEF HeldRight, InPlace
  <2> QED
    BY <2>1, <2>2
<1>3. ASSUME NEW q \in Reqs, ReqGid[q] = g, pc'[q] = "addlast"
      PROVE  InPlace(g, itm[q])'
  <2>1. CASE q # r
    <3>1. itm'[q] = itm[q] /\ itm[q] \in Items /\ InPlace(g, itm[q])
      BY <1>0, <1>3, <2>1 DEF Frame, HeldRight, Typed, LocalOK
    <3> QED
      BY <3>1, RowsStay DEF InPlace
  <2>2. CASE q = r
    <3>1. AddItem(r)
      BY <1>3, <2>2, ComesToAdd
    <3>2. OpGid(r) = g /\ UNCHANGED itm
      BY <1>3, <2>2, <3>1, WireOp DEF AddItem, locals
    <3> QED
      BY <2>2, <3>1, <3>2, AddItemPuts, NoneIsNoItem DEF InPlace
  <2> QED
    BY <2>1, <2>2
<1>4. ASSUME NEW i \in Nodes, member'[g][i] # None
      PROVE  \E q \in Reqs : Added(g, i, q)'
  <2>1. CASE member[g][i] # None
    <3>1. PICK q \in Reqs : Added(g, i, q)
      BY <2>1 DEF HeldRight
    <3> QED
      BY <3>1, MadeStays DEF Added
  <2>2. CASE member[g][i] = None
    <3>1. i \in Ids
      BY DEF Ids
    <3>2. CASE AddItem(r)
      <4>1. OpGid(r) = g /\ OpId(r) = i
        BY <1>4, <2>2, <3>1, <3>2, AddItemPuts
      <4>2. Kind[r] = "update" /\ ReqGid[r] = g /\ Caller[r] = i
        BY <3>2, <4>1, WireOp DEF AddItem
      <4>3. itm'[r] # None /\ pc'[r] = "addlast"
        BY <1>0, <3>2, AddItemPuts, NoneIsNoItem DEF AddItem, locals, Goto, ControlTyped
      <4> QED
        BY <4>2, <4>3 DEF Added
    <3>3. CASE AddLink(r)
      <4>1. OpGid(r) = g => member[g][prve[r].id] # None
        BY <3>3, WireOp DEF AddLink, HeldRight, InPlace
      <4> QED
        BY <1>4, <2>2, <3>1, <3>3, <4>1, AddLinkPuts
    <3> QED
      BY <1>4, <2>2, <3>2, <3>3, WireWrites DEF AddLast
  <2> QED
    BY <2>1, <2>2
<1> QED
  BY <1>1, <1>2, <1>3, <1>4 DEF HeldRight

\* The step that matters: no link that a step writes closes a way round.
LEMMA LeadsOutStep ==
  ASSUME Wire, MembersInv, NEW r \in Reqs, r \notin Failing, Accept(r) \/ Serve(r),
         NEW g \in Gids, ~AddedTwice(g), HeldRight(g),
         \A T \in (SUBSET Nodes) \ {{}} : LeadsOut(g, T),
         NEW S \in (SUBSET Nodes) \ {{}}
  PROVE  LeadsOut(g, S)'
<1> DEFINE Same(i) == member'[g][i] = member[g][i]
           x == Caller[r]
<1>0. LeadsOut(g, S) /\ (\A i \in S : i \in Nodes /\ i \in Ids) /\ NoId \notin S
  BY GroupAssumption DEF Ids
<1>1. ASSUME \A i \in S : Same(i) PROVE LeadsOut(g, S)'
  BY <1>0, <1>1 DEF LeadsOut
<1>2. CASE AddLink(r) /\ OpGid(r) = g
  <2> DEFINE k == prve[r].id
  <2>1. x \in Nodes /\ x \in Ids /\ member[g][x] = None /\ OpId(r) = x /\ InPlace(g, prve[r])
    BY <1>2, WireOp, NotYetStored DEF AddLink, HeldRight, Ids
  <2>2. /\ member[g][k] # None /\ k # x
        /\ member'[g][k].prve = member[g][k].prve /\ member'[g][k].next = x
        /\ \A i \in Ids : i # k => Same(i)
    BY <1>2, <2>1, AddLinkPuts DEF InPlace
  <2> HIDE DEF k, x
  <2>3. \E i \in S : member'[g][i] = None \/ member'[g][i].prve \notin S
    <3>1. PICK i \in S : member[g][i] = None \/ member[g][i].prve \notin S
      BY <1>0 DEF LeadsOut
    <3> QED
      BY <1>0, <2>2, <3>1
  <2>4. \E i \in S : member'[g][i] = None \/ member'[g][i].next \notin S
    <3>1. CASE k \notin S
      BY <1>0, <2>2, <3>1 DEF LeadsOut
    <3>2. CASE k \in S /\ x \notin S
      BY <2>2, <3>2
    <3>3. CASE x \in S
      BY <2>1, <2>2, <3>3
    <3> QED
      BY <3>1, <3>2, <3>3
  <2> QED
    BY <2>3, <2>4 DEF LeadsOut
<1>3. CASE AddItem(r) /\ OpGid(r) = g
  <2>1. /\ x \in Nodes /\ x \in Ids /\ member[g][x] = None /\ OpId(r) = x
        /\ itm[r].next = NoId
    BY <1>3, WireOp, NotYetStored DEF AddItem, Ids, Wire, WireOK
  <2>2. member'[g][x] = itm[r] /\ \A i \in Ids : i # x => Same(i)
    BY <1>3, <2>1, AddItemPuts
  <2>3. Stored(g, itm[r].prve)
    BY <1>3 DEF AddItem, MembersInv, CallMembers
  <2> HIDE DEF x
  <2>4. CASE x \notin S
    BY <1>0, <1>1, <2>2, <2>4
  <2>5. CASE x \in S
    <3>1. \E i \in S : member'[g][i] = None \/ member'[g][i].next \notin S
      BY <1>0, <2>1, <2>2, <2>5
    <3>2. \E i \in S : member'[g][i] = None \/ member'[g][i].prve \notin S
      <4>1. CASE itm[r].prve \notin S
        BY <2>2, <2>5, <4>1
      <4>2. CASE itm[r].prve \in S
        <5> DEFINE T == S \ {x}
        <5>1. itm[r].prve \in T
          BY <1>0, <2>1, <2>3, <4>2 DEF Stored
        <5>2. T \in (SUBSET Nodes) \ {{}}
          BY <1>0, <5>1
        <5>3. PICK i \in T : member[g][i] = None \/ member[g][i].prve \notin T
          BY <5>2 DEF LeadsOut
        <5>4. i \in S /\ i \in Ids /\ Same(i)
          BY <1>0, <2>2, <5>3
        <5>5. member[g][i] # None => member[g][i].prve # x
          <6>1. x # NoId
            BY <2>1, GroupAssumption
          <6> QED
            BY <2>1, <5>4, <6>1 DEF MembersInv, MembersLinked, Stored
        <5> QED
          BY <5>3, <5>4, <5>5
      <4> QED
        BY <4>1, <4>2
    <3> QED
      BY <3>1, <3>2 DEF LeadsOut
  <2> QED
    BY <2>4, <2>5
<1>4. CASE ~((AddLink(r) \/ AddItem(r)) /\ OpGid(r) = g)
  <2>1. CASE AddLink(r)
    BY <1>0, <1>1, <1>4, <2>1, AddLinkPuts
  <2>2. CASE AddItem(r)
    BY <1>0, <1>1, <1>4, <2>2, AddItemPuts
  <2>3. CASE UNCHANGED member
    BY <1>1, <2>3
  <2> QED
    BY <2>1, <2>2, <2>3, WireWrites DEF AddLast
<1> QED
  BY <1>2, <1>3, <1>4

LEMMA RoundStep ==
  ASSUME LostField, Wire, ChainsInv, RoundInv, [Next]_gvars
  PROVE  RoundInv'
<1>1. CASE ProcessEnd \/ UNCHANGED gvars
  <2>1. UNCHANGED <<member, memberLast, itm, prve>>
    BY <1>1 DEF ProcessEnd, gvars, db, locals
  <2>2. \A q \in Reqs : (pc'[q] = pc[q] \/ pc'[q] = "dead") /\ (pc'[q] = "sent" => pc[q] = "sent")
    BY <1>1 DEF ProcessEnd, gvars
  <2>3. NoFailure' => NoFailure
    BY <2>2, GroupAssumption DEF NoFailure
  <2>4. ASSUME NEW g \in Gids, AddedTwice(g) PROVE AddedTwice(g)'
    BY <2>1, <2>4 DEF AddedTwice
  <2>5. ASSUME NEW g \in Gids, Straight(g) PROVE Straight(g)'
    <3>1. \A i, q : q \in Reqs /\ Added(g, i, q) => Added(g, i, q)'
      BY <2>1, <2>2 DEF Added
    <3>2. HeldRight(g)'
      BY <2>1, <2>2, <2>5, <3>1 DEF Straight, HeldRight, InPlace
    <3> QED
      BY <2>1, <2>5, <3>2 DEF Straight, LeadsOut
  <2> QED
    BY <2>3, <2>4, <2>5 DEF RoundInv
<1>2. ASSUME NEW r \in Reqs, Accept(r) \/ Serve(r), NoFailure', NEW g \in Gids, ~AddedTwice(g)'
      PROVE  Straight(g)'
  <2>1. NoFailure /\ r \notin Failing /\ ~AddedTwice(g)
    BY <1>2, NoFailureBack, TwiceStays DEF Wire
  <2>2. MembersInv /\ Straight(g)
    BY <2>1 DEF ChainsInv, RoundInv
  <2>3. HeldRight(g)'
    BY <1>2, <2>1, <2>2, HeldStep DEF Straight
  <2>4. ASSUME NEW S \in (SUBSET Nodes) \ {{}} PROVE LeadsOut(g, S)'
    BY <1>2, <2>1, <2>2, LeadsOutStep DEF Straight
  <2> QED
    BY <2>3, <2>4 DEF Straight
<1> QED
  BY <1>1, <1>2 DEF Next, RoundInv

LEMMA RoundInit == Init => RoundInv
<1> SUFFICES ASSUME Init, NEW g \in Gids PROVE Straight(g)
  BY DEF RoundInv
<1>1. /\ \A i \in Nodes : member[g][i] = None
      /\ memberLast[g] = None /\ \A q \in Reqs : pc[q] = "sent"
  BY DEF Init, Ids
<1>2. HeldRight(g)
  BY <1>1 DEF HeldRight
<1>3. ASSUME NEW S \in (SUBSET Nodes) \ {{}} PROVE LeadsOut(g, S)
  <2>1. S # {} /\ \A i \in S : i \in Nodes
    OBVIOUS
  <2>2. \E i \in S : member[g][i] = None
    BY <1>1, <2>1
  <2> QED
    BY <2>2 DEF LeadsOut
<1> QED
  BY <1>2, <1>3 DEF Straight

\* As long as the action of a member does not reach handleMember and no peer
\* updates the group twice at once, a query along the chain ends: an item is
\* linked to the one before it before it is stored, and none is stored twice,
\* so no link closes a way round, whatever updates of other peers interleave
\* and wherever the process ends.
THEOREM QueriesEnd == LostField => (Spec => []NoWayRound)
<1> SUFFICES ASSUME LostField PROVE Spec => []NoWayRound
  OBVIOUS
<1>1. Init => RoundInv
  BY RoundInit
<1>2. Wire /\ ChainsInv /\ RoundInv /\ [Next]_gvars => RoundInv'
  BY RoundStep
<1>3. RoundInv => NoWayRound
  BY DEF RoundInv, Straight, LeadsOut, NoWayRound
<1> QED
  BY <1>1, <1>2, <1>3, AlwaysChained, PTL DEF Spec
=============================================================================
