---------------------------- MODULE ConsoleProofs ---------------------------
(***************************************************************************)
(* Proofs about Console: for any lines, ids and restarts of the node, a    *)
(* line goes where targetId pointed while its request was made, and the    *)
(* write loop only posts lines that have one.                              *)
(***************************************************************************)
EXTENDS Console, TLAPS

\* What the stages of a line say about its request: a line that waits for its
\* request has the current target in its history, one that was taken for a
\* message has seen a session, and one that is handed off has its request.
Stages ==
  \A l \in Lines :
    /\ job[l] \in {"ready", "chosen", "offer"} => Kind[l] = "other"
    /\ job[l] \in {"new", "ready", "chosen"} => req[l] = NoReq
    /\ job[l] \in {"ready", "chosen"} => targetId \in since[l]
    /\ job[l] = "chosen" => since[l] \ {NoId} # {}
    /\ job[l] = "offer" => req[l] # NoReq
    /\ wl = l => Kind[l] = "other"

\* The inductive invariant.
ConsoleInv == ConsoleTypeOK /\ Stages /\ TargetWasCurrent

-----------------------------------------------------------------------------
(* The steps.                                                              *)

\* Every step keeps the type.
LEMMA TypeStep ==
  ASSUME ConsoleTypeOK, Stages, [Next]_consoleVars
  PROVE  ConsoleTypeOK'
<1> USE ConsoleAssumption, NoReqAssumption DEF Ids, nodeVars, lineVars, Running, ConsoleTypeOK, Stages, Kinds
<1>1. CASE UNCHANGED consoleVars
  BY <1>1 DEF consoleVars, nodeVars, lineVars
<1>2. CASE NodeUp
  BY <1>2 DEF NodeUp
<1>3. CASE NodeDown
  BY <1>3 DEF NodeDown
<1>4. CASE NodeFails
  BY <1>4 DEF NodeFails
<1>5. CASE Attach
  BY <1>5 DEF Attach
<1>6. CASE Auth
  BY <1>6 DEF Auth
<1>7. CASE Dial
  BY <1>7 DEF Dial
<1>8. CASE Label
  BY <1>8 DEF Label
<1>9. ASSUME NEW l \in Lines, OpenSession(l) PROVE ConsoleTypeOK'
  BY <1>9 DEF OpenSession, Typed, SetTarget
<1>10. ASSUME NEW l \in Lines, Exit(l) PROVE ConsoleTypeOK'
  BY <1>10 DEF Exit, Typed, SetTarget
<1>11. ASSUME NEW l \in Lines, Call(l) PROVE ConsoleTypeOK'
  BY <1>11 DEF Call, Typed
<1>12. ASSUME NEW l \in Lines, Say(l) PROVE ConsoleTypeOK'
  BY <1>12 DEF Say, Typed
<1>13. CASE Abort
  BY <1>13 DEF Abort
<1>14. CASE CloseStop
  BY <1>14 DEF CloseStop
<1>15. CASE End
  BY <1>15 DEF End
<1>16. ASSUME NEW l \in Lines, Choose(l) PROVE ConsoleTypeOK'
  BY <1>16 DEF Choose, NewReq, Requests
<1>17. ASSUME NEW l \in Lines, Build(l) PROVE ConsoleTypeOK'
  BY <1>17 DEF Build, NewReq, Requests
<1>18. ASSUME NEW l \in Lines, Drop(l) PROVE ConsoleTypeOK'
  BY <1>18 DEF Drop
<1>19. ASSUME NEW l \in Lines, Take(l) PROVE ConsoleTypeOK'
  BY <1>19 DEF Take
<1>20. CASE LoopStops
  BY <1>20 DEF LoopStops
<1>21. ASSUME NEW l \in Lines, Posted(l) PROVE ConsoleTypeOK'
  BY <1>21 DEF Posted, Outcomes
<1>22. ASSUME NEW l \in Lines, CallReturns(l) PROVE ConsoleTypeOK'
  BY <1>22 DEF CallReturns, Outcomes
<1> QED
  BY <1>1, <1>2, <1>3, <1>4, <1>5, <1>6, <1>7, <1>8, <1>9, <1>10,
     <1>11, <1>12, <1>13, <1>14, <1>15, <1>16, <1>17, <1>18, <1>19, <1>20, <1>21, <1>22
     DEF Next, AttachCmd, User, Goroutine

\* A line goes from stage to stage with its request.
LEMMA StagesStep ==
  ASSUME ConsoleTypeOK, Stages, [Next]_consoleVars
  PROVE  Stages'
<1> USE ConsoleAssumption, NoReqAssumption DEF Ids, nodeVars, lineVars, Running, ConsoleTypeOK, Stages, Kinds
<1>1. CASE UNCHANGED consoleVars
  BY <1>1 DEF consoleVars, nodeVars, lineVars
<1>2. CASE NodeUp
  BY <1>2 DEF NodeUp
<1>3. CASE NodeDown
  BY <1>3 DEF NodeDown
<1>4. CASE NodeFails
  BY <1>4 DEF NodeFails
<1>5. CASE Attach
  BY <1>5 DEF Attach
<1>6. CASE Auth
  BY <1>6 DEF Auth
<1>7. CASE Dial
  BY <1>7 DEF Dial
<1>8. CASE Label
  BY <1>8 DEF Label
<1>9. ASSUME NEW l \in Lines, OpenSession(l) PROVE Stages'
  BY <1>9 DEF OpenSession, Typed, SetTarget
<1>10. ASSUME NEW l \in Lines, Exit(l) PROVE Stages'
  BY <1>10 DEF Exit, Typed, SetTarget
<1>11. ASSUME NEW l \in Lines, Call(l) PROVE Stages'
  BY <1>11 DEF Call, Typed
<1>12. ASSUME NEW l \in Lines, Say(l) PROVE Stages'
  BY <1>12 DEF Say, Typed
<1>13. CASE Abort
  BY <1>13 DEF Abort
<1>14. CASE CloseStop
  BY <1>14 DEF CloseStop
<1>15. CASE End
  BY <1>15 DEF End
<1>16. ASSUME NEW l \in Lines, Choose(l) PROVE Stages'
  BY <1>16 DEF Choose, NewReq, Requests
<1>17. ASSUME NEW l \in Lines, Build(l) PROVE Stages'
  BY <1>17 DEF Build, NewReq, Requests
<1>18. ASSUME NEW l \in Lines, Drop(l) PROVE Stages'
  BY <1>18 DEF Drop
<1>19. ASSUME NEW l \in Lines, Take(l) PROVE Stages'
  BY <1>19 DEF Take
<1>20. CASE LoopStops
  BY <1>20 DEF LoopStops
<1>21. ASSUME NEW l \in Lines, Posted(l) PROVE Stages'
  BY <1>21 DEF Posted, Outcomes
<1>22. ASSUME NEW l \in Lines, CallReturns(l) PROVE Stages'
  BY <1>22 DEF CallReturns, Outcomes
<1> QED
  BY <1>1, <1>2, <1>3, <1>4, <1>5, <1>6, <1>7, <1>8, <1>9, <1>10,
     <1>11, <1>12, <1>13, <1>14, <1>15, <1>16, <1>17, <1>18, <1>19, <1>20, <1>21, <1>22
     DEF Next, AttachCmd, User, Goroutine

\* A request is made of a value that targetId had meanwhile.
LEMMA TargetStep ==
  ASSUME ConsoleTypeOK, Stages, TargetWasCurrent, [Next]_consoleVars
  PROVE  TargetWasCurrent'
<1> USE ConsoleAssumption, NoReqAssumption DEF Ids, nodeVars, lineVars, Running, ConsoleTypeOK, Stages, TargetWasCurrent
<1>1. CASE UNCHANGED consoleVars
  BY <1>1 DEF consoleVars, nodeVars, lineVars
<1>2. CASE NodeUp
  BY <1>2 DEF NodeUp
<1>3. CASE NodeDown
  BY <1>3 DEF NodeDown
<1>4. CASE NodeFails
  BY <1>4 DEF NodeFails
<1>5. CASE Attach
  BY <1>5 DEF Attach
<1>6. CASE Auth
  BY <1>6 DEF Auth
<1>7. CASE Dial
  BY <1>7 DEF Dial
<1>8. CASE Label
  BY <1>8 DEF Label
<1>9. ASSUME NEW l \in Lines, OpenSession(l) PROVE TargetWasCurrent'
  BY <1>9 DEF OpenSession, Typed, SetTarget
<1>10. ASSUME NEW l \in Lines, Exit(l) PROVE TargetWasCurrent'
  BY <1>10 DEF Exit, Typed, SetTarget
<1>11. ASSUME NEW l \in Lines, Call(l) PROVE TargetWasCurrent'
  BY <1>11 DEF Call, Typed
<1>12. ASSUME NEW l \in Lines, Say(l) PROVE TargetWasCurrent'
  BY <1>12 DEF Say, Typed
<1>13. CASE Abort
  BY <1>13 DEF Abort
<1>14. CASE CloseStop
  BY <1>14 DEF CloseStop
<1>15. CASE End
  BY <1>15 DEF End
<1>16. ASSUME NEW l \in Lines, Choose(l) PROVE TargetWasCurrent'
  BY <1>16 DEF Choose, NewReq, Requests
<1>17. ASSUME NEW l \in Lines, Build(l) PROVE TargetWasCurrent'
  BY <1>17 DEF Build, NewReq, Requests
<1>18. ASSUME NEW l \in Lines, Drop(l) PROVE TargetWasCurrent'
  BY <1>18 DEF Drop
<1>19. ASSUME NEW l \in Lines, Take(l) PROVE TargetWasCurrent'
  BY <1>19 DEF Take
<1>20. CASE LoopStops
  BY <1>20 DEF LoopStops
<1>21. ASSUME NEW l \in Lines, Posted(l) PROVE TargetWasCurrent'
  BY <1>21 DEF Posted, Outcomes
<1>22. ASSUME NEW l \in Lines, CallReturns(l) PROVE TargetWasCurrent'
  BY <1>22 DEF CallReturns, Outcomes
<1> QED
  BY <1>1, <1>2, <1>3, <1>4, <1>5, <1>6, <1>7, <1>8, <1>9, <1>10,
     <1>11, <1>12, <1>13, <1>14, <1>15, <1>16, <1>17, <1>18, <1>19, <1>20, <1>21, <1>22
     DEF Next, AttachCmd, User, Goroutine

-----------------------------------------------------------------------------
(* The theorems.                                                           *)

\* The invariant holds for any lines and any number of restarts of the node.
THEOREM ConsoleInvariant == Spec => []ConsoleInv
<1>1. Init => ConsoleInv
  <2> SUFFICES ASSUME Init PROVE ConsoleInv
    OBVIOUS
  <2>1. ConsoleTypeOK
    <3>1. inproc \in BOOLEAN /\ node \in BOOLEAN /\ Stop \in BOOLEAN
      BY Zenon DEF Init
    <3>2. starts \in 0 .. 1 + MaxRestart /\ token \in 0 .. starts
      BY ConsoleAssumption DEF Init
    <3>3. wl \notin Lines
      BY ConsoleAssumption DEF Init
    <3>4. /\ job \in [Lines -> {"new"}]
          /\ req \in [Lines -> {NoReq}]
          /\ since \in [Lines -> {{}}]
      BY DEF Init
    <3>5. main = "sleep" /\ targetId = NoId
      BY DEF Init
    <3> QED
      BY <3>1, <3>2, <3>3, <3>4, <3>5 DEF ConsoleTypeOK, Ids
  <2>2. Stages /\ TargetWasCurrent
    BY ConsoleAssumption DEF Init, Stages, TargetWasCurrent
  <2> QED
    BY <2>1, <2>2 DEF ConsoleInv
<1>2. ConsoleInv /\ [Next]_consoleVars => ConsoleInv'
  BY TypeStep, StagesStep, TargetStep DEF ConsoleInv
<1> QED
  BY <1>1, <1>2, PTL DEF Spec

\* The client keeps its type; what the write loop posts has a request.
THEOREM ConsoleTypeCorrect == Spec => []ConsoleTypeOK
<1>1. ConsoleInv => ConsoleTypeOK
  BY DEF ConsoleInv
<1> QED
  BY <1>1, ConsoleInvariant, PTL

\* console.go, the goroutine of a line: its request goes where targetId pointed
\* between its typing and the making of the request, which may be nowhere, and
\* is a message only if a session was open meanwhile.
THEOREM LinesReachCurrentTargets == Spec => []TargetWasCurrent
<1>1. ConsoleInv => TargetWasCurrent
  BY DEF ConsoleInv
<1> QED
  BY <1>1, ConsoleInvariant, PTL
=============================================================================
