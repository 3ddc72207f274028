---------------------------- MODULE GatewayProofs ---------------------------
(***************************************************************************)
(* Proofs about Gateway: for any calls, with any tokens and parameters, a  *)
(* method runs only with a token of the process that serves it, and an     *)
(* acknowledged row or group is kept until it is deleted, wherever between *)
(* a method and its response the process ends.                             *)
(***************************************************************************)
EXTENDS Gateway, TLAPS

\* Only the right password puts a token in the map.
TokensAreAuth == tokenmap \subseteq GoodPwd

\* Where a call is fits its method, the mailbox, and whether it has returned.
Places ==
  \A c \in Calls :
    /\ pc[c] = "auth" => Method[c] = "auth"
    /\ pc[c] \in {"group", "put"} => Method[c] = "group_create"
    /\ pc[c] = "put" => c \in made
    /\ out[c] # "none" => pc[c] \in {"write", "done", "dead"}
    /\ rsp[c] # "none" => rsp[c] = out[c]

\* A user_put that has returned has its row, before it is acknowledged.
RowsKept ==
  \A c \in Calls : Method[c] = "user_put" /\ out[c] = "ok" =>
    userdb[StoreKey(c)] # NoCall \/ Deleted(StoreKey(c))

\* So has a group_create, and its group.
GroupsKept ==
  \A c \in Calls : Method[c] = "group_create" /\ out[c] = "ok" =>
    /\ c \in made
    /\ userdb[Key[c]] # NoCall \/ c \in lost \/ Deleted(Key[c])

\* The inductive invariant.
GatewayInv == /\ GatewayTypeOK /\ Places
              /\ RunningIsAuthorised /\ TokensAreAuth
              /\ RowsKept /\ GroupsKept /\ ListedIsMade

-----------------------------------------------------------------------------

\* Every call names a key of the database.
LEMMA KeysType ==
  ASSUME NEW c \in Calls
  PROVE  StoreKey(c) \in Keys /\ (Method[c] # "user_put" => Key[c] \in Keys)
BY DEF Keys, StoreKey

-----------------------------------------------------------------------------
(* The steps.                                                              *)

\* Every step keeps the type.
LEMMA TypeStep ==
  ASSUME GatewayTypeOK, Places, [Next]_gatewayVars
  PROVE  GatewayTypeOK'
<1> USE GatewayAssumption DEF GatewayTypeOK, Places, Goto, Return
<1>1. CASE UNCHANGED gatewayVars
  BY <1>1 DEF gatewayVars
<1>2. ASSUME NEW c \in Calls, Arrive(c) PROVE GatewayTypeOK'
  BY <1>2 DEF Arrive, Running
<1>3. ASSUME NEW c \in Calls, Auth(c) PROVE GatewayTypeOK'
  BY <1>3 DEF Auth, Running
<1>4. ASSUME NEW c \in Calls, CheckToken(c) PROVE GatewayTypeOK'
  BY <1>4 DEF CheckToken, Running
<1>5. ASSUME NEW c \in Calls, Plain(c) PROVE GatewayTypeOK'
  BY <1>5, KeysType DEF Plain, Answers, Panic, Running
<1>6. ASSUME NEW c \in Calls, UserPut(c) PROVE GatewayTypeOK'
  BY <1>6, KeysType DEF UserPut, Running
<1>7. ASSUME NEW c \in Calls, UserDel(c) PROVE GatewayTypeOK'
  BY <1>7, KeysType DEF UserDel, Panic, Running
<1>8. ASSUME NEW c \in Calls, CreateGroup(c) PROVE GatewayTypeOK'
  BY <1>8 DEF CreateGroup, Running
<1>9. ASSUME NEW c \in Calls, GroupMade(c) PROVE GatewayTypeOK'
  BY <1>9 DEF GroupMade, Running
<1>10. ASSUME NEW c \in Calls, CreateOk(c) PROVE GatewayTypeOK'
  BY <1>10 DEF CreateOk, Running
<1>11. ASSUME NEW c \in Calls, CreateErr(c) PROVE GatewayTypeOK'
  BY <1>11 DEF CreateErr, Panic, Running
<1>12. ASSUME NEW c \in Calls, PutGroup(c) PROVE GatewayTypeOK'
  BY <1>12, KeysType DEF PutGroup, Running
<1>13. ASSUME NEW c \in Calls, WriteTo(c) PROVE GatewayTypeOK'
  BY <1>13 DEF WriteTo, Running
<1>14. ASSUME ProcessDies,
              UNCHANGED crashes \/ (crashes' = crashes + 1 /\ crashes < MaxCrash)
       PROVE  GatewayTypeOK'
  BY <1>14 DEF ProcessDies
<1>15. CASE MapFault
  BY <1>14, <1>15 DEF MapFault
<1>16. CASE ProcessEnd
  BY <1>14, <1>16 DEF ProcessEnd
<1> QED
  BY <1>1, <1>2, <1>3, <1>4, <1>5, <1>6, <1>7, <1>8,
     <1>9, <1>10, <1>11, <1>12, <1>13, <1>15, <1>16
     DEF Next, Handle

\* A token enters the map only by auth, and a call runs only past the check.
LEMMA AuthorisedStep ==
  ASSUME GatewayTypeOK, TokensAreAuth, RunningIsAuthorised, [Next]_gatewayVars
  PROVE  TokensAreAuth' /\ RunningIsAuthorised'
<1> USE GatewayAssumption DEF GatewayTypeOK, TokensAreAuth, RunningIsAuthorised, Goto, Return
<1>1. CASE UNCHANGED gatewayVars
  BY <1>1 DEF gatewayVars
<1>2. ASSUME NEW c \in Calls, Arrive(c) PROVE TokensAreAuth' /\ RunningIsAuthorised'
  BY <1>2 DEF Arrive, Running
<1>3. ASSUME NEW c \in Calls, Auth(c) PROVE TokensAreAuth' /\ RunningIsAuthorised'
  BY <1>3 DEF Auth, Running
<1>4. ASSUME NEW c \in Calls, CheckToken(c) PROVE TokensAreAuth' /\ RunningIsAuthorised'
  BY <1>4 DEF CheckToken, Running
<1>5. ASSUME NEW c \in Calls, Plain(c) PROVE TokensAreAuth' /\ RunningIsAuthorised'
  BY <1>5 DEF Plain, Answers, Panic, Running
<1>6. ASSUME NEW c \in Calls, UserPut(c) PROVE TokensAreAuth' /\ RunningIsAuthorised'
  BY <1>6 DEF UserPut, Running
<1>7. ASSUME NEW c \in Calls, UserDel(c) PROVE TokensAreAuth' /\ RunningIsAuthorised'
  BY <1>7 DEF UserDel, Panic, Running
<1>8. ASSUME NEW c \in Calls, CreateGroup(c) PROVE TokensAreAuth' /\ RunningIsAuthorised'
  BY <1>8 DEF CreateGroup, Running
<1>9. ASSUME NEW c \in Calls, GroupMade(c) PROVE TokensAreAuth' /\ RunningIsAuthorised'
  BY <1>9 DEF GroupMade, Running
<1>10. ASSUME NEW c \in Calls, CreateOk(c) PROVE TokensAreAuth' /\ RunningIsAuthorised'
  BY <1>10 DEF CreateOk, Running
<1>11. ASSUME NEW c \in Calls, CreateErr(c) PROVE TokensAreAuth' /\ RunningIsAuthorised'
  BY <1>11 DEF CreateErr, Panic, Running
<1>12. ASSUME NEW c \in Calls, PutGroup(c) PROVE TokensAreAuth' /\ RunningIsAuthorised'
  BY <1>12 DEF PutGroup, Running
<1>13. ASSUME NEW c \in Calls, WriteTo(c) PROVE TokensAreAuth' /\ RunningIsAuthorised'
  BY <1>13 DEF WriteTo, Running
<1>14. ASSUME ProcessDies,
              UNCHANGED crashes \/ (crashes' = crashes + 1 /\ crashes < MaxCrash)
       PROVE  TokensAreAuth' /\ RunningIsAuthorised'
  BY <1>14 DEF ProcessDies
<1>15. CASE MapFault
  BY <1>14, <1>15 DEF MapFault
<1>16. CASE ProcessEnd
  BY <1>14, <1>16 DEF ProcessEnd
<1> QED
  BY <1>1, <1>2, <1>3, <1>4, <1>5, <1>6, <1>7, <1>8,
     <1>9, <1>10, <1>11, <1>12, <1>13, <1>15, <1>16
     DEF Next, Handle

\* A call goes from place to place with its method, and returns once.
LEMMA PlacesStep ==
  ASSUME GatewayTypeOK, Places, [Next]_gatewayVars
  PROVE  Places'
<1> USE GatewayAssumption DEF GatewayTypeOK, Places, Goto, Return
<1>1. CASE UNCHANGED gatewayVars
  BY <1>1 DEF gatewayVars
<1>2. ASSUME NEW c \in Calls, Arrive(c) PROVE Places'
  BY <1>2 DEF Arrive, Running
<1>3. ASSUME NEW c \in Calls, Auth(c) PROVE Places'
  BY <1>3 DEF Auth, Running
<1>4. ASSUME NEW c \in Calls, CheckToken(c) PROVE Places'
  BY <1>4 DEF CheckToken, Running
<1>5. ASSUME NEW c \in Calls, Plain(c) PROVE Places'
  BY <1>5 DEF Plain, Answers, Panic, Running
<1>6. ASSUME NEW c \in Calls, UserPut(c) PROVE Places'
  BY <1>6 DEF UserPut, Running
<1>7. ASSUME NEW c \in Calls, UserDel(c) PROVE Places'
  BY <1>7 DEF UserDel, Panic, Running
<1>8. ASSUME NEW c \in Calls, CreateGroup(c) PROVE Places'
  BY <1>8 DEF CreateGroup, Running
<1>9. ASSUME NEW c \in Calls, GroupMade(c) PROVE Places'
  BY <1>9 DEF GroupMade, Running
<1>10. ASSUME NEW c \in Calls, CreateOk(c) PROVE Places'
  BY <1>10 DEF CreateOk, Running
<1>11. ASSUME NEW c \in Calls, CreateErr(c) PROVE Places'
  BY <1>11 DEF CreateErr, Panic, Running
<1>12. ASSUME NEW c \in Calls, PutGroup(c) PROVE Places'
  BY <1>12 DEF PutGroup, Running
<1>13. ASSUME NEW c \in Calls, WriteTo(c) PROVE Places'
  BY <1>13 DEF WriteTo, Running
<1>14. ASSUME ProcessDies,
              UNCHANGED crashes \/ (crashes' = crashes + 1 /\ crashes < MaxCrash)
       PROVE  Places'
  BY <1>14 DEF ProcessDies
<1>15. CASE MapFault
  BY <1>14, <1>15 DEF MapFault
<1>16. CASE ProcessEnd
  BY <1>14, <1>16 DEF ProcessEnd
<1> QED
  BY <1>1, <1>2, <1>3, <1>4, <1>5, <1>6, <1>7, <1>8,
     <1>9, <1>10, <1>11, <1>12, <1>13, <1>15, <1>16
     DEF Next, Handle

\* What a method has returned stays, answered or not; so does what the mailbox
\* has stored, and what could not be written.
LEMMA OutcomeStays ==
  ASSUME GatewayTypeOK, Places, [Next]_gatewayVars
  PROVE  /\ \A d \in Calls : out[d] = "ok" => out'[d] = "ok"
         /\ made \subseteq made' /\ lost \subseteq lost'
<1> USE GatewayAssumption DEF GatewayTypeOK, Places, Goto, Return
<1>1. CASE UNCHANGED gatewayVars
  BY <1>1 DEF gatewayVars
<1>2. ASSUME NEW c \in Calls, Arrive(c) PROVE /\ \A d \in Calls : out[d] = "ok" => out'[d] = "ok"
         /\ made \subseteq made' /\ lost \subseteq lost'
  BY <1>2 DEF Arrive, Running
<1>3. ASSUME NEW c \in Calls, Auth(c) PROVE /\ \A d \in Calls : out[d] = "ok" => out'[d] = "ok"
         /\ made \subseteq made' /\ lost \subseteq lost'
  BY <1>3 DEF Auth, Running
<1>4. ASSUME NEW c \in Calls, CheckToken(c) PROVE /\ \A d \in Calls : out[d] = "ok" => out'[d] = "ok"
         /\ made \subseteq made' /\ lost \subseteq lost'
  BY <1>4 DEF CheckToken, Running
<1>5. ASSUME NEW c \in Calls, Plain(c) PROVE /\ \A d \in Calls : out[d] = "ok" => out'[d] = "ok"
         /\ made \subseteq made' /\ lost \subseteq lost'
  BY <1>5 DEF Plain, Answers, Panic, Running
<1>6. ASSUME NEW c \in Calls, UserPut(c) PROVE /\ \A d \in Calls : out[d] = "ok" => out'[d] = "ok"
         /\ made \subseteq made' /\ lost \subseteq lost'
  BY <1>6 DEF UserPut, Running
<1>7. ASSUME NEW c \in Calls, UserDel(c) PROVE /\ \A d \in Calls : out[d] = "ok" => out'[d] = "ok"
         /\ made \subseteq made' /\ lost \subseteq lost'
  BY <1>7 DEF UserDel, Panic, Running
<1>8. ASSUME NEW c \in Calls, CreateGroup(c) PROVE /\ \A d \in Calls : out[d] = "ok" => out'[d] = "ok"
         /\ made \subseteq made' /\ lost \subseteq lost'
  BY <1>8 DEF CreateGroup, Running
<1>9. ASSUME NEW c \in Calls, GroupMade(c) PROVE /\ \A d \in Calls : out[d] = "ok" => out'[d] = "ok"
         /\ made \subseteq made' /\ lost \subseteq lost'
  BY <1>9 DEF GroupMade, Running
<1>10. ASSUME NEW c \in Calls, CreateOk(c) PROVE /\ \A d \in Calls : out[d] = "ok" => out'[d] = "ok"
         /\ made \subseteq made' /\ lost \subseteq lost'
  BY <1>10 DEF CreateOk, Running
<1>11. ASSUME NEW c \in Calls, CreateErr(c) PROVE /\ \A d \in Calls : out[d] = "ok" => out'[d] = "ok"
         /\ made \subseteq made' /\ lost \subseteq lost'
  BY <1>11 DEF CreateErr, Panic, Running
<1>12. ASSUME NEW c \in Calls, PutGroup(c) PROVE /\ \A d \in Calls : out[d] = "ok" => out'[d] = "ok"
         /\ made \subseteq made' /\ lost \subseteq lost'
  BY <1>12 DEF PutGroup, Running
<1>13. ASSUME NEW c \in Calls, WriteTo(c) PROVE /\ \A d \in Calls : out[d] = "ok" => out'[d] = "ok"
         /\ made \subseteq made' /\ lost \subseteq lost'
  BY <1>13 DEF WriteTo, Running
<1>14. ASSUME ProcessDies,
              UNCHANGED crashes \/ (crashes' = crashes + 1 /\ crashes < MaxCrash)
       PROVE  /\ \A d \in Calls : out[d] = "ok" => out'[d] = "ok"
         /\ made \subseteq made' /\ lost \subseteq lost'
  BY <1>14 DEF ProcessDies
<1>15. CASE MapFault
  BY <1>14, <1>15 DEF MapFault
<1>16. CASE ProcessEnd
  BY <1>14, <1>16 DEF ProcessEnd
<1> QED
  BY <1>1, <1>2, <1>3, <1>4, <1>5, <1>6, <1>7, <1>8,
     <1>9, <1>10, <1>11, <1>12, <1>13, <1>15, <1>16
     DEF Next, Handle

\* Only a delete takes a row out, and it has returned when it has.
LEMMA RowStays ==
  ASSUME GatewayTypeOK, Places, [Next]_gatewayVars, NEW k \in Keys, userdb[k] # NoCall
  PROVE  userdb'[k] # NoCall \/ Deleted(k)'
<1> USE GatewayAssumption DEF GatewayTypeOK, Goto, Return
<1>1. CASE UNCHANGED gatewayVars
  BY <1>1 DEF gatewayVars
<1>2. ASSUME NEW c \in Calls, Arrive(c) PROVE userdb'[k] # NoCall \/ Deleted(k)'
  BY <1>2 DEF Arrive, Running
<1>3. ASSUME NEW c \in Calls, Auth(c) PROVE userdb'[k] # NoCall \/ Deleted(k)'
  BY <1>3 DEF Auth, Running
<1>4. ASSUME NEW c \in Calls, CheckToken(c) PROVE userdb'[k] # NoCall \/ Deleted(k)'
  BY <1>4 DEF CheckToken, Running
<1>5. ASSUME NEW c \in Calls, Plain(c) PROVE userdb'[k] # NoCall \/ Deleted(k)'
  BY <1>5, KeysType DEF Plain, Answers, Panic, Running
<1>6. ASSUME NEW c \in Calls, UserPut(c) PROVE userdb'[k] # NoCall \/ Deleted(k)'
  BY <1>6, KeysType DEF UserPut, Running
<1>7. ASSUME NEW c \in Calls, UserDel(c) PROVE userdb'[k] # NoCall \/ Deleted(k)'
  <2>1. Method[c] = "user_del" /\ Key[c] \in Keys
    BY <1>7, KeysType DEF UserDel, Running
  <2>2. CASE userdb' = userdb
    BY <2>2
  <2>3. CASE userdb' = [userdb EXCEPT ![Key[c]] = NoCall] /\ Return(c, "ok")
    BY <2>1, <2>3 DEF Deleted
  <2> QED
    BY <1>7, <2>2, <2>3 DEF UserDel
<1>8. ASSUME NEW c \in Calls, CreateGroup(c) PROVE userdb'[k] # NoCall \/ Deleted(k)'
  BY <1>8 DEF CreateGroup, Running
<1>9. ASSUME NEW c \in Calls, GroupMade(c) PROVE userdb'[k] # NoCall \/ Deleted(k)'
  BY <1>9 DEF GroupMade, Running
<1>10. ASSUME NEW c \in Calls, CreateOk(c) PROVE userdb'[k] # NoCall \/ Deleted(k)'
  BY <1>10 DEF CreateOk, Running
<1>11. ASSUME NEW c \in Calls, CreateErr(c) PROVE userdb'[k] # NoCall \/ Deleted(k)'
  BY <1>11 DEF CreateErr, Panic, Running
<1>12. ASSUME NEW c \in Calls, PutGroup(c) PROVE userdb'[k] # NoCall \/ Deleted(k)'
  BY <1>12, KeysType DEF PutGroup, Running
<1>13. ASSUME NEW c \in Calls, WriteTo(c) PROVE userdb'[k] # NoCall \/ Deleted(k)'
  BY <1>13 DEF WriteTo, Running
<1>14. ASSUME ProcessDies,
              UNCHANGED crashes \/ (crashes' = crashes + 1 /\ crashes < MaxCrash)
       PROVE  userdb'[k] # NoCall \/ Deleted(k)'
  BY <1>14 DEF ProcessDies
<1>15. CASE MapFault
  BY <1>14, <1>15 DEF MapFault
<1>16. CASE ProcessEnd
  BY <1>14, <1>16 DEF ProcessEnd
<1> QED
  BY <1>1, <1>2, <1>3, <1>4, <1>5, <1>6, <1>7, <1>8,
     <1>9, <1>10, <1>11, <1>12, <1>13, <1>15, <1>16
     DEF Next, Handle

\* A user_put returns with its row written.
LEMMA NewPut ==
  ASSUME GatewayTypeOK, Places, [Next]_gatewayVars,
         NEW d \in Calls, Method[d] = "user_put", out[d] # "ok", out'[d] = "ok"
  PROVE  userdb'[StoreKey(d)] # NoCall
<1> USE GatewayAssumption DEF GatewayTypeOK, Places, Goto, Return
<1>1. CASE UNCHANGED gatewayVars
  BY <1>1 DEF gatewayVars
<1>2. ASSUME NEW c \in Calls, Arrive(c) PROVE userdb'[StoreKey(d)] # NoCall
  BY <1>2 DEF Arrive, Running
<1>3. ASSUME NEW c \in Calls, Auth(c) PROVE userdb'[StoreKey(d)] # NoCall
  BY <1>3 DEF Auth, Running
<1>4. ASSUME NEW c \in Calls, CheckToken(c) PROVE userdb'[StoreKey(d)] # NoCall
  BY <1>4 DEF CheckToken, Running
<1>5. ASSUME NEW c \in Calls, Plain(c) PROVE userdb'[StoreKey(d)] # NoCall
  BY <1>5, KeysType DEF Plain, Answers, Panic, Running
<1>6. ASSUME NEW c \in Calls, UserPut(c) PROVE userdb'[StoreKey(d)] # NoCall
  BY <1>6, KeysType DEF UserPut, Running
<1>7. ASSUME NEW c \in Calls, UserDel(c) PROVE userdb'[StoreKey(d)] # NoCall
  BY <1>7, KeysType DEF UserDel, Panic, Running
<1>8. ASSUME NEW c \in Calls, CreateGroup(c) PROVE userdb'[StoreKey(d)] # NoCall
  BY <1>8 DEF CreateGroup, Running
<1>9. ASSUME NEW c \in Calls, GroupMade(c) PROVE userdb'[StoreKey(d)] # NoCall
  BY <1>9 DEF GroupMade, Running
<1>10. ASSUME NEW c \in Calls, CreateOk(c) PROVE userdb'[StoreKey(d)] # NoCall
  BY <1>10 DEF CreateOk, Running
<1>11. ASSUME NEW c \in Calls, CreateErr(c) PROVE userdb'[StoreKey(d)] # NoCall
  BY <1>11 DEF CreateErr, Panic, Running
<1>12. ASSUME NEW c \in Calls, PutGroup(c) PROVE userdb'[StoreKey(d)] # NoCall
  BY <1>12, KeysType DEF PutGroup, Running
<1>13. ASSUME NEW c \in Calls, WriteTo(c) PROVE userdb'[StoreKey(d)] # NoCall
  BY <1>13 DEF WriteTo, Running
<1>14. ASSUME ProcessDies,
              UNCHANGED crashes \/ (crashes' = crashes + 1 /\ crashes < MaxCrash)
       PROVE  userdb'[StoreKey(d)] # NoCall
  BY <1>14 DEF ProcessDies
<1>15. CASE MapFault
  BY <1>14, <1>15 DEF MapFault
<1>16. CASE ProcessEnd
  BY <1>14, <1>16 DEF ProcessEnd
<1> QED
  BY <1>1, <1>2, <1>3, <1>4, <1>5, <1>6, <1>7, <1>8,
     <1>9, <1>10, <1>11, <1>12, <1>13, <1>15, <1>16
     DEF Next, Handle

\* A group_create returns with its group made, and its row written or refused.
LEMMA NewGroup ==
  ASSUME GatewayTypeOK, Places, [Next]_gatewayVars,
         NEW d \in Calls, Method[d] = "group_create", out[d] # "ok", out'[d] = "ok"
  PROVE  d \in made' /\ (userdb'[Key[d]] # NoCall \/ d \in lost')
<1> USE GatewayAssumption DEF GatewayTypeOK, Places, Goto, Return
<1>1. CASE UNCHANGED gatewayVars
  BY <1>1 DEF gatewayVars
<1>2. ASSUME NEW c \in Calls, Arrive(c) PROVE d \in made' /\ (userdb'[Key[d]] # NoCall \/ d \in lost')
  BY <1>2 DEF Arrive, Running
<1>3. ASSUME NEW c \in Calls, Auth(c) PROVE d \in made' /\ (userdb'[Key[d]] # NoCall \/ d \in lost')
  BY <1>3 DEF Auth, Running
<1>4. ASSUME NEW c \in Calls, CheckToken(c) PROVE d \in made' /\ (userdb'[Key[d]] # NoCall \/ d \in lost')
  BY <1>4 DEF CheckToken, Running
<1>5. ASSUME NEW c \in Calls, Plain(c) PROVE d \in made' /\ (userdb'[Key[d]] # NoCall \/ d \in lost')
  BY <1>5, KeysType DEF Plain, Answers, Panic, Running
<1>6. ASSUME NEW c \in Calls, UserPut(c) PROVE d \in made' /\ (userdb'[Key[d]] # NoCall \/ d \in lost')
  BY <1>6, KeysType DEF UserPut, Running
<1>7. ASSUME NEW c \in Calls, UserDel(c) PROVE d \in made' /\ (userdb'[Key[d]] # NoCall \/ d \in lost')
  BY <1>7, KeysType DEF UserDel, Panic, Running
<1>8. ASSUME NEW c \in Calls, CreateGroup(c) PROVE d \in made' /\ (userdb'[Key[d]] # NoCall \/ d \in lost')
  BY <1>8 DEF CreateGroup, Running
<1>9. ASSUME NEW c \in Calls, GroupMade(c) PROVE d \in made' /\ (userdb'[Key[d]] # NoCall \/ d \in lost')
  BY <1>9 DEF GroupMade, Running
<1>10. ASSUME NEW c \in Calls, CreateOk(c) PROVE d \in made' /\ (userdb'[Key[d]] # NoCall \/ d \in lost')
  BY <1>10 DEF CreateOk, Running
<1>11. ASSUME NEW c \in Calls, CreateErr(c) PROVE d \in made' /\ (userdb'[Key[d]] # NoCall \/ d \in lost')
  BY <1>11 DEF CreateErr, Panic, Running
<1>12. ASSUME NEW c \in Calls, PutGroup(c) PROVE d \in made' /\ (userdb'[Key[d]] # NoCall \/ d \in lost')
  BY <1>12, KeysType DEF PutGroup, Running
<1>13. ASSUME NEW c \in Calls, WriteTo(c) PROVE d \in made' /\ (userdb'[Key[d]] # NoCall \/ d \in lost')
  BY <1>13 DEF WriteTo, Running
<1>14. ASSUME ProcessDies,
              UNCHANGED crashes \/ (crashes' = crashes + 1 /\ crashes < MaxCrash)
       PROVE  d \in made' /\ (userdb'[Key[d]] # NoCall \/ d \in lost')
  BY <1>14 DEF ProcessDies
<1>15. CASE MapFault
  BY <1>14, <1>15 DEF MapFault
<1>16. CASE ProcessEnd
  BY <1>14, <1>16 DEF ProcessEnd
<1> QED
  BY <1>1, <1>2, <1>3, <1>4, <1>5, <1>6, <1>7, <1>8,
     <1>9, <1>10, <1>11, <1>12, <1>13, <1>15, <1>16
     DEF Next, Handle

\* A row is put before it is acknowledged, and only a delete removes one.
LEMMA KeptStep ==
  ASSUME GatewayTypeOK, Places, RowsKept, [Next]_gatewayVars
  PROVE  RowsKept'
<1>1. ASSUME NEW k, Deleted(k) PROVE Deleted(k)'
  BY <1>1, OutcomeStays DEF Deleted
<1>2. ASSUME NEW c \in Calls, Method[c] = "user_put", out'[c] = "ok"
      PROVE  userdb'[StoreKey(c)] # NoCall \/ Deleted(StoreKey(c))'
  <2>1. CASE out[c] = "ok"
    BY <1>1, <1>2, <2>1, KeysType, RowStays DEF RowsKept
  <2>2. CASE out[c] # "ok"
    BY <1>2, <2>2, NewPut
  <2> QED
    BY <2>1, <2>2
<1> QED
  BY <1>2 DEF RowsKept, StoreKey

\* A group is made, then listed, before its creation is acknowledged.
LEMMA ListedStep ==
  ASSUME GatewayTypeOK, Places, GroupsKept, [Next]_gatewayVars
  PROVE  GroupsKept'
<1>1. ASSUME NEW k, Deleted(k) PROVE Deleted(k)'
  BY <1>1, OutcomeStays DEF Deleted
<1>2. ASSUME NEW c \in Calls, Method[c] = "group_create", out'[c] = "ok"
      PROVE  /\ c \in made'
             /\ userdb'[Key[c]] # NoCall \/ c \in lost' \/ Deleted(Key[c])'
  <2>1. CASE out[c] = "ok"
    <3>1. c \in made' /\ (c \in lost => c \in lost') /\ Key[c] \in Keys
      BY <1>2, <2>1, KeysType, OutcomeStays DEF GroupsKept
    <3> QED
      BY <1>1, <1>2, <2>1, <3>1, RowStays DEF GroupsKept
  <2>2. CASE out[c] # "ok"
    BY <1>2, <2>2, NewGroup
  <2> QED
    BY <2>1, <2>2
<1> QED
  BY <1>2 DEF GroupsKept

\* Only a call that has the answer of the mailbox puts the row of a group.
LEMMA MadeStep ==
  ASSUME GatewayTypeOK, Places, ListedIsMade, [Next]_gatewayVars
  PROVE  ListedIsMade'
<1> USE GatewayAssumption DEF GatewayTypeOK, Places, ListedIsMade, Goto, Return
<1>1. CASE UNCHANGED gatewayVars
  BY <1>1 DEF gatewayVars
<1>2. ASSUME NEW c \in Calls, Arrive(c) PROVE ListedIsMade'
  BY <1>2 DEF Arrive, Running
<1>3. ASSUME NEW c \in Calls, Auth(c) PROVE ListedIsMade'
  BY <1>3 DEF Auth, Running
<1>4. ASSUME NEW c \in Calls, CheckToken(c) PROVE ListedIsMade'
  BY <1>4 DEF CheckToken, Running
<1>5. ASSUME NEW c \in Calls, Plain(c) PROVE ListedIsMade'
  BY <1>5, KeysType DEF Plain, Answers, Panic, Running
<1>6. ASSUME NEW c \in Calls, UserPut(c) PROVE ListedIsMade'
  BY <1>6, KeysType DEF UserPut, Running
<1>7. ASSUME NEW c \in Calls, UserDel(c) PROVE ListedIsMade'
  BY <1>7, KeysType DEF UserDel, Panic, Running
<1>8. ASSUME NEW c \in Calls, CreateGroup(c) PROVE ListedIsMade'
  BY <1>8 DEF CreateGroup, Running
<1>9. ASSUME NEW c \in Calls, GroupMade(c) PROVE ListedIsMade'
  BY <1>9 DEF GroupMade, Running
<1>10. ASSUME NEW c \in Calls, CreateOk(c) PROVE ListedIsMade'
  BY <1>10 DEF CreateOk, Running
<1>11. ASSUME NEW c \in Calls, CreateErr(c) PROVE ListedIsMade'
  BY <1>11 DEF CreateErr, Panic, Running
<1>12. ASSUME NEW c \in Calls, PutGroup(c) PROVE ListedIsMade'
  BY <1>12, KeysType DEF PutGroup, Running
<1>13. ASSUME NEW c \in Calls, WriteTo(c) PROVE ListedIsMade'
  BY <1>13 DEF WriteTo, Running
<1>14. ASSUME ProcessDies,
              UNCHANGED crashes \/ (crashes' = crashes + 1 /\ crashes < MaxCrash)
       PROVE  ListedIsMade'
  BY <1>14 DEF ProcessDies
<1>15. CASE MapFault
  BY <1>14, <1>15 DEF MapFault
<1>16. CASE ProcessEnd
  BY <1>14, <1>16 DEF ProcessEnd
<1> QED
  BY <1>1, <1>2, <1>3, <1>4, <1>5, <1>6, <1>7, <1>8,
     <1>9, <1>10, <1>11, <1>12, <1>13, <1>15, <1>16
     DEF Next, Handle

-----------------------------------------------------------------------------
(* The theorems.                                                           *)

\* The invariant holds for any calls, keys and number of process ends.
THEOREM GatewayInvariant == Spec => []GatewayInv
<1>1. Init => GatewayInv
  <2> SUFFICES ASSUME Init PROVE GatewayInv
    OBVIOUS
  <2>1. GatewayTypeOK
    BY GatewayAssumption DEF Init, GatewayTypeOK
  <2>2. /\ Places /\ TokensAreAuth /\ RunningIsAuthorised
        /\ RowsKept /\ GroupsKept /\ ListedIsMade
    BY DEF Init, Places, TokensAreAuth, RunningIsAuthorised, RowsKept, GroupsKept,
           ListedIsMade
  <2> QED
    BY <2>1, <2>2 DEF GatewayInv
<1>2. GatewayInv /\ [Next]_gatewayVars => GatewayInv'
  BY TypeStep, PlacesStep, AuthorisedStep, KeptStep, ListedStep, MadeStep
     DEF GatewayInv
<1> QED
  BY <1>1, <1>2, PTL DEF Spec

\* The state of the gateway keeps its type; no call has a response before its
\* method has returned.
THEOREM GatewayTypeCorrect == Spec => []GatewayTypeOK
<1>1. GatewayInv => GatewayTypeOK
  BY DEF GatewayInv
<1> QED
  BY <1>1, GatewayInvariant, PTL

\* server.go, the /rpc handler: no method runs for a token that auth of this
\* process did not hand out for the password.
THEOREM MethodsAuthorised == Spec => []RunningIsAuthorised
<1>1. GatewayInv => RunningIsAuthorised
  BY DEF GatewayInv
<1> QED
  BY <1>1, GatewayInvariant, PTL

\* user.go: what user_put acknowledged is there until user_del takes it out,
\* which it may have done although the process ended before it answered.
THEOREM UsersKept == Spec => []PutIsKept
<1>1. GatewayInv => PutIsKept
  BY DEF GatewayInv, Places, RowsKept, PutIsKept
<1> QED
  BY <1>1, GatewayInvariant, PTL

\* group.go: a group whose creation was reported as a success is made and
\* listed, unless its row was refused or a user_del has taken it out.
THEOREM GroupsListed == Spec => []CreatedIsListed
<1>1. GatewayInv => CreatedIsListed
  BY DEF GatewayInv, Places, GroupsKept, CreatedIsListed
<1> QED
  BY <1>1, GatewayInvariant, PTL

\* group.go: whatever the mailbox answers, and whenever the process ends, a
\* group that is listed was made by the mailbox.
THEOREM ListedGroupsMade == Spec => []ListedIsMade
<1>1. GatewayInv => ListedIsMade
  BY DEF GatewayInv
<1> QED
  BY <1>1, GatewayInvariant, PTL
=============================================================================
