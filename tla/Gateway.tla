------------------------------ MODULE Gateway -------------------------------
(***************************************************************************)
(* rpc/server.go, rpc/user.go and rpc/group.go: the HTTP side of a node.   *)
(* A call carries a token of an earlier auth; the services keep users and  *)
(* the groups made on this node in a LevelDB of their own.                 *)
(*                                                                         *)
(* Every call runs in a goroutine of net/http.  tokenmap has no lock: when *)
(* auth writes it while another call reads or writes it, the Go runtime    *)
(* may end the process.  A panic of a handler ends the call: net/http      *)
(* closes the connection without a response.                               *)
(*                                                                         *)
(* What SendMsg does is in Delivery, what the mailbox does with a group in *)
(* GroupDB; here they are an outcome.                                      *)
(***************************************************************************)
EXTENDS Ids

CONSTANTS
  Calls,      \* calls of /rpc and first frames of /chat
  NoCall,
  Method,     \* Req.Method; "chat" is the first frame of /chat
  Shape,      \* Req.Params: as expected, missing, or of another type
  TokenOf,    \* the auth call whose token the call carries, or NoCall
  GoodPwd,    \* auth calls with the right password
  ById,       \* user_put calls whose user has an Id; the others have a Gid
  Key,        \* the user id, group id or key that the call names
  DbErrors,   \* whether calls of LevelDB may fail
  MaxCrash    \* bound: how often the process ends

Methods == {"auth", "chat", "myid", "sendmsg", "user_put", "user_get",
            "user_del", "user_query", "group_create", "other"}

ASSUME GatewayAssumption ==
  /\ NoCall \notin Calls
  /\ Method \in [Calls -> Methods]
  /\ Shape \in [Calls -> {"good", "missing", "mistyped"}]
  /\ TokenOf \in [Calls -> Calls \cup {NoCall}]
  /\ GoodPwd \in SUBSET Calls /\ ById \in SUBSET Calls
  /\ Key \in [Calls -> JIDs]
  /\ DbErrors \in BOOLEAN
  /\ MaxCrash \in Nat

VARIABLES
  tokenmap,   \* auth calls whose token is in the map
  userdb,     \* for each key, the call that put the row, or NoCall
  pc,         \* where each call is
  out,        \* what its method has returned, answered or not
  rsp,        \* its response
  made,       \* group_create calls whose group the mailbox has stored
  lost,       \* group_create calls whose user_put failed
  crashes

gatewayVars == <<tokenmap, userdb, pc, out, rsp, made, lost, crashes>>

\* user.Id is cut to its peer id when a user is put.
StoreKey(c) ==
  IF Method[c] = "user_put" /\ c \in ById THEN <<Peerid(Key[c])>> ELSE Key[c]

Keys == {StoreKey(c) : c \in Calls}

Init ==
  /\ tokenmap = {}
  /\ userdb = [k \in Keys |-> NoCall]
  /\ pc = [c \in Calls |-> "new"]
  /\ out = [c \in Calls |-> "none"]
  /\ rsp = [c \in Calls |-> "none"]
  /\ made = {} /\ lost = {}
  /\ crashes = 0

-----------------------------------------------------------------------------
(* The /rpc handler.                                                       *)

Goto(c, l) == pc' = [pc EXCEPT ![c] = l]

\* fn(req) returns; its response is written in a step of its own.
Return(c, v) == Goto(c, "write") /\ out' = [out EXCEPT ![c] = v]

\* A client has a token only from the response of auth.
Arrive(c) ==
  /\ pc[c] = "new"
  /\ TokenOf[c] # NoCall => rsp[TokenOf[c]] = "ok"
  /\ Goto(c, IF Method[c] = "auth" THEN "auth" ELSE "check")
  /\ UNCHANGED <<tokenmap, userdb, out, rsp, made, lost, crashes>>

\* The password is right, or the node has none.
Auth(c) ==
  /\ pc[c] = "auth"
  /\ IF c \in GoodPwd
     THEN tokenmap' = tokenmap \cup {c} /\ Return(c, "ok")
     ELSE UNCHANGED tokenmap /\ Return(c, "error")
  /\ UNCHANGED <<userdb, rsp, made, lost, crashes>>

\* Mutant of CheckToken: only calls without a token are refused.
CheckAnyToken(c) ==
  /\ pc[c] = "check"
  /\ IF TokenOf[c] = NoCall
     THEN Return(c, "denied") ELSE Goto(c, "run") /\ UNCHANGED out
  /\ UNCHANGED <<tokenmap, userdb, rsp, made, lost, crashes>>

\* Mutant of CheckToken: the return after the error is missing.
CheckFallsThrough(c) ==
  /\ pc[c] = "check"
  /\ Goto(c, "run")
  /\ rsp' = [rsp EXCEPT ![c] = IF TokenOf[c] \in tokenmap THEN @ ELSE "denied"]
  /\ UNCHANGED <<tokenmap, userdb, out, made, lost, crashes>>

CheckToken(c) ==
  /\ pc[c] = "check"
  /\ IF TokenOf[c] \notin tokenmap
     THEN Return(c, "denied") ELSE Goto(c, "run") /\ UNCHANGED out
  /\ UNCHANGED <<tokenmap, userdb, rsp, made, lost, crashes>>

\* The process ends: what is in memory goes, the databases stay.
ProcessDies ==
  /\ tokenmap' = {}
  /\ pc' = [c \in Calls |-> IF pc[c] \in {"new", "done", "closed"} THEN pc[c] ELSE "dead"]
  /\ UNCHANGED <<userdb, out, rsp, made, lost>>

\* A write of tokenmap that overlaps another access of it.
MapFault ==
  /\ \E c, d \in Calls : /\ c # d
                         /\ pc[c] = "auth" /\ c \in GoodPwd
                         /\ pc[d] = "check" \/ (pc[d] = "auth" /\ d \in GoodPwd)
  /\ ProcessDies
  /\ UNCHANGED crashes

-----------------------------------------------------------------------------
(* The methods.                                                            *)

Running(c, m) == pc[c] = "run" /\ Method[c] = m

\* A handler panics: the call ends without a response.
Panic(c) == Goto(c, "closed") /\ UNCHANGED out

\* What the methods that leave the gateway alone may answer; req.Params[0] of
\* sendmsg, and the type assertions of sendmsg and user_get, may panic.
Answers(c) ==
  CASE Method[c] \in {"chat", "myid", "user_query"} -> {"ok"}
    [] Method[c] = "sendmsg" -> IF Shape[c] = "good" THEN {"ok", "error"} ELSE {"panic"}
    [] Method[c] = "user_get" ->
         CASE Shape[c] = "missing" -> {"error"}
           [] Shape[c] = "mistyped" -> {"panic"}
           [] OTHER -> {IF userdb[Key[c]] = NoCall THEN "error" ELSE "ok"}
                         \cup (IF DbErrors THEN {"error"} ELSE {})
    [] Method[c] = "other" -> {"error"}
    [] OTHER -> {}

Plain(c) ==
  /\ pc[c] = "run"
  /\ \E v \in Answers(c) : IF v = "panic" THEN Panic(c) ELSE Return(c, v)
  /\ UNCHANGED <<tokenmap, userdb, rsp, made, lost, crashes>>

\* Mutant of UserPut: the error of put is dropped.
UserPutUnchecked(c) ==
  /\ Running(c, "user_put")
  /\ \/ Shape[c] = "good" /\ userdb' = [userdb EXCEPT ![StoreKey(c)] = c] /\ Return(c, "ok")
     \/ DbErrors /\ UNCHANGED userdb /\ Return(c, "ok")
  /\ UNCHANGED <<tokenmap, rsp, made, lost, crashes>>

UserPut(c) ==
  /\ Running(c, "user_put")
  /\ \/ Shape[c] = "good" /\ userdb' = [userdb EXCEPT ![StoreKey(c)] = c] /\ Return(c, "ok")
     \/ (Shape[c] # "good" \/ DbErrors) /\ UNCHANGED userdb /\ Return(c, "error")
  /\ UNCHANGED <<tokenmap, rsp, made, lost, crashes>>

\* Delete does not fail on a key that is not there.
UserDel(c) ==
  /\ Running(c, "user_del")
  /\ CASE Shape[c] = "missing" -> Return(c, "error") /\ UNCHANGED userdb
       [] Shape[c] = "mistyped" -> Panic(c) /\ UNCHANGED userdb
       [] OTHER -> \/ userdb' = [userdb EXCEPT ![Key[c]] = NoCall] /\ Return(c, "ok")
                   \/ DbErrors /\ UNCHANGED userdb /\ Return(c, "error")
  /\ UNCHANGED <<tokenmap, rsp, made, lost, crashes>>

-----------------------------------------------------------------------------
(* group_create.                                                           *)

\* A parameter of another type is an empty group, the error of the parser is
\* overwritten: both go on.
CreateGroup(c) ==
  /\ Running(c, "group_create")
  /\ IF Shape[c] = "missing" THEN Return(c, "error")
     ELSE Goto(c, "group") /\ UNCHANGED out
  /\ UNCHANGED <<tokenmap, userdb, rsp, made, lost, crashes>>

\* The mailbox stores the group; its response may come late or never.
GroupMade(c) ==
  /\ pc[c] = "group"
  /\ c \notin made
  /\ made' = made \cup {c}
  /\ UNCHANGED <<tokenmap, userdb, pc, out, rsp, lost, crashes>>

CreateOk(c) ==
  /\ pc[c] = "group"
  /\ c \in made
  /\ Goto(c, "put")
  /\ UNCHANGED <<tokenmap, userdb, out, rsp, made, lost, crashes>>

\* Mutant of CreateErr: the row is put whatever the mailbox has done.
CreateErrPuts(c) ==
  /\ pc[c] = "group"
  /\ Goto(c, "put")
  /\ UNCHANGED <<tokenmap, userdb, out, rsp, made, lost, crashes>>

\* No mailbox, no response, or GroupRsp.Err: grsp.Group is read all the same.
CreateErr(c) ==
  /\ pc[c] = "group"
  /\ Panic(c)
  /\ UNCHANGED <<tokenmap, userdb, rsp, made, lost, crashes>>

\* Mutant of PutGroup: the response is written before user_put is called.
PutGroupLate(c) ==
  /\ pc[c] = "put"
  /\ \/ rsp[c] = "none" /\ rsp' = [rsp EXCEPT ![c] = "ok"] /\ UNCHANGED <<pc, userdb>>
     \/ /\ rsp[c] = "ok" /\ Goto(c, "done") /\ UNCHANGED rsp
        /\ userdb' = [userdb EXCEPT ![Key[c]] = c]
  /\ UNCHANGED <<tokenmap, out, made, lost, crashes>>

\* user_put of the group; what it returns is ignored.
PutGroup(c) ==
  /\ pc[c] = "put"
  /\ \/ userdb' = [userdb EXCEPT ![Key[c]] = c] /\ UNCHANGED lost
     \/ DbErrors /\ UNCHANGED userdb /\ lost' = lost \cup {c}
  /\ Return(c, "ok")
  /\ UNCHANGED <<tokenmap, rsp, made, crashes>>

-----------------------------------------------------------------------------

\* The response is written after the method has returned.
WriteTo(c) ==
  /\ pc[c] = "write"
  /\ Goto(c, "done")
  /\ rsp' = [rsp EXCEPT ![c] = out[c]]
  /\ UNCHANGED <<tokenmap, userdb, out, made, lost, crashes>>

ProcessEnd ==
  /\ crashes < MaxCrash
  /\ crashes' = crashes + 1
  /\ ProcessDies

Handle(c) ==
  \/ Auth(c) \/ CheckToken(c) \/ Plain(c) \/ UserPut(c) \/ UserDel(c)
  \/ CreateGroup(c) \/ CreateOk(c) \/ CreateErr(c) \/ PutGroup(c)
  \/ WriteTo(c)

Next ==
  \/ \E c \in Calls : Arrive(c) \/ Handle(c) \/ GroupMade(c)
  \/ MapFault
  \/ ProcessEnd

Spec == Init /\ [][Next]_gatewayVars

-----------------------------------------------------------------------------
(* Properties.                                                             *)

\* Type invariant of the gateway.
GatewayTypeOK ==
  /\ tokenmap \in SUBSET Calls
  /\ userdb \in [Keys -> Calls \cup {NoCall}]
  /\ pc \in [Calls -> {"new", "auth", "check", "run", "group", "put",
                       "write", "done", "closed", "dead"}]
  /\ out \in [Calls -> {"none", "ok", "error", "denied"}]
  /\ rsp \in [Calls -> {"none", "ok", "error", "denied"}]
  /\ \A c \in Calls : rsp[c] # "none" => pc[c] = "done"
  /\ made \in SUBSET Calls /\ lost \in SUBSET Calls
  /\ crashes \in 0 .. MaxCrash

\* A method that is running was called with a token that the auth of this
\* very process handed out for the password: a token from before a restart,
\* or from before the Go runtime ended the process, opens nothing.
RunningIsAuthorised ==
  \A c \in Calls : pc[c] \in {"run", "group", "put"} =>
    TokenOf[c] \in tokenmap \cap GoodPwd

\* A user_del has taken the row of the key k out, answered or not: the
\* process may end between the delete and the response.
Deleted(k) ==
  \E d \in Calls : Method[d] = "user_del" /\ out[d] = "ok" /\ Key[d] = k

\* A row that was acknowledged outlives the process: its key has a row, of
\* this call or of a later one, until a call deletes it.
PutIsKept ==
  \A c \in Calls : Method[c] = "user_put" /\ rsp[c] = "ok" =>
    userdb[StoreKey(c)] # NoCall \/ Deleted(StoreKey(c))

\* A group whose creation was reported as a success is stored by the mailbox
\* and listed on this node, unless its row could not be written or has been
\* deleted since.
CreatedIsListed ==
  \A c \in Calls : Method[c] = "group_create" /\ rsp[c] = "ok" =>
    /\ c \in made
    /\ userdb[Key[c]] # NoCall \/ c \in lost \/ Deleted(Key[c])

\* A group that is listed on this node exists: a creation that failed, died
\* or got no response from the mailbox leaves no row behind, although the
\* code goes on to read the result of the failed call.
ListedIsMade ==
  \A k \in Keys : userdb[k] # NoCall /\ Method[userdb[k]] = "group_create" =>
    userdb[k] \in made
=============================================================================
