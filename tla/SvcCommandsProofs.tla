-------------------------- MODULE SvcCommandsProofs --------------------------
(***************************************************************************)
(* What a command reports is so, and a service that controls itself from   *)
(* its loop never succeeds: proofs for any number of commands and of       *)
(* controls.                                                               *)
(***************************************************************************)
EXTENDS SvcCommands, TLAPS

Requests == Bridge!Requests
States == {"STOPPED", "START_PENDING", "RUNNING", "STOP_PENDING"}
Stops == {"STOP_PENDING", "STOPPED"}

TypeOK ==
    /\ at \in [Callers -> {"none", "path", "manager", "service", "work", "control",
                           "answer", "closeService", "closeManager", "returned"}]
    /\ verb \in [Commands -> {"none", "install", "delete", "start", "stop"}]
    /\ log \in [Callers -> {"none", "failed", "succeeded"}]
    /\ shown \in [Callers -> States \cup {"none", "garbage"}]
    /\ req \in [Callers -> 0 .. MaxControls]
    /\ state \in States
    /\ threw \subseteq Requests
    /\ nreq \in 0 .. MaxControls
    /\ handled \in [Requests -> Codes \cup {NotYet}]
    /\ answer \in [Requests -> Codes \cup {NotYet}]

\* A control that is answered has been handled; the service was running then.
ControlsInv ==
    /\ \A r \in Requests : /\ answer[r] # NotYet => handled[r] # NotYet
                           /\ r > nreq => handled[r] = NotYet
    /\ nreq > 0 \/ state \in {"START_PENDING", "RUNNING", "STOP_PENDING"} => started

\* Whoever waits has sent; what the loop thread sent is not handled, for it is
\* the loop thread that would handle it.
WaitInv ==
    /\ \A c \in Callers : at[c] = "answer" => req[c] \in 1 .. nreq
    /\ at[Loop] = "answer" => handled[req[Loop]] = NotYet

\* A handler that came through has told the service to stop.
StopsInv ==
    \A r \in Requests : handled[r] # NotYet => r \in threw \/ state \in Stops

\* A command has reported nothing before it began, and only a control that was
\* sent makes a stop succeed.
ReportOK(p) ==
    /\ at[p] \notin {"closeService", "closeManager", "returned"} => log[p] = "none"
    /\ at[p] = "work" => verb[p] # "stop"
    /\ shown[p] # "garbage"
    /\ verb[p] = "stop" /\ log[p] = "succeeded" => shown[p] \in Stops \/ req[p] \in threw

ReportInv == SelfControlFails /\ \A p \in Commands : ReportOK(p)

CommandInv == TypeOK /\ ControlsInv /\ WaitInv /\ StopsInv /\ ReportInv

USE LoopAssumption DEF Callers, Requests, Bridge!Requests, Codes, NotYet, NO_ERROR, ERROR

LEMMA CommandInitially == Init => CommandInv
<1> SUFFICES ASSUME Init PROVE CommandInv
  OBVIOUS
<1>1. TypeOK
  BY DEF Init, Bridge!Init, TypeOK, States
<1>2. ControlsInv /\ WaitInv /\ StopsInv
  BY DEF Init, Bridge!Init, ControlsInv, WaitInv, StopsInv
<1>3. ReportInv
  BY DEF Init, ReportInv, ReportOK, SelfControlFails
<1> QED
  BY <1>1, <1>2, <1>3 DEF CommandInv

\* The step concerns caller c, who does not begin to wait for an answer.
Alone(c) ==
    /\ at'[c] # "answer"
    /\ \A d \in Callers \ {c} : at'[d] = at[d] /\ log'[d] = log[d] /\ shown'[d] = shown[d]
    /\ \A p \in Commands \ {c} : verb'[p] = verb[p]

\* A step of one caller that the service's process does not notice.
LEMMA QuietStep ==
  ASSUME CommandInv, TypeOK', NEW c \in Callers, Alone(c),
         UNCHANGED <<req, state, started, threw, nreq, handled, answer>>,
         c \in Commands => ReportOK(c)',
         c = Loop => SelfControlFails'
  PROVE  CommandInv'
<1>2. ControlsInv'
  BY DEF CommandInv, ControlsInv
<1>3. WaitInv'
  BY DEF CommandInv, WaitInv, Alone
<1>4. StopsInv'
  BY DEF CommandInv, StopsInv
<1>5. ReportInv'
  BY DEF CommandInv, ReportInv, ReportOK, SelfControlFails, Alone
<1> QED
  BY <1>2, <1>3, <1>4, <1>5 DEF CommandInv

-----------------------------------------------------------------------------
(* The steps of a command, but for ControlService.                         *)
LEMMA StartStep ==
  ASSUME CommandInv, NEW p \in Commands, StartService(p), state' # state
  PROVE  CommandInv'
<1>1. /\ state = "STOPPED" /\ ~started
      /\ state' = "START_PENDING" /\ started'
      /\ at[p] = "work" /\ at' = [at EXCEPT ![p] = "closeService"]
      /\ log' = [log EXCEPT ![p] = "succeeded"] /\ shown' = [shown EXCEPT ![p] = "none"]
      /\ UNCHANGED <<req, verb, threw, nreq, handled, answer>>
  BY DEF StartService, Goes, Reports, openVars, svcVars
<1>2. TypeOK'
  BY <1>1 DEF CommandInv, TypeOK, States
<1>3. ControlsInv'
  BY <1>1 DEF CommandInv, ControlsInv
<1>4. WaitInv'
  BY <1>1 DEF CommandInv, TypeOK, WaitInv
<1>5. StopsInv'
  <2>1. nreq = 0
    BY <1>1 DEF CommandInv, ControlsInv, TypeOK
  <2> QED
    BY <1>1, <2>1 DEF CommandInv, TypeOK, ControlsInv, StopsInv
<1>6. ReportInv'
  BY <1>1 DEF CommandInv, TypeOK, ReportInv, ReportOK, SelfControlFails
<1> QED
  BY <1>2, <1>3, <1>4, <1>5, <1>6 DEF CommandInv

LEMMA CommandStep ==
  ASSUME CommandInv, NEW p \in Commands, Command(p)
  PROVE  CommandInv'
<1> USE DEF CommandInv, TypeOK, States, Goes, Reports, ReportInv, ReportOK, Alone,
            callVars, openVars, scmVars, svcVars
<1>1. CASE \E v \in {"install", "delete", "start", "stop"} : Runs(p, v)
  <2>1. TypeOK'
    BY <1>1 DEF Runs
  <2>2. ReportOK(p)'
    BY <1>1 DEF Runs
  <2>3. Alone(p)
    BY <1>1 DEF Runs
  <2>4. UNCHANGED <<req, state, started, threw, nreq, handled, answer>>
    BY <1>1 DEF Runs
  <2> QED
    BY <2>1, <2>2, <2>3, <2>4, QuietStep, ZenonT(60)
<1>2. CASE GetModuleFileName(p)
  <2>1. TypeOK'
    BY <1>2, ZenonT(60) DEF GetModuleFileName
  <2>2. ReportOK(p)'
    BY <1>2 DEF GetModuleFileName
  <2>3. Alone(p)
    BY <1>2 DEF GetModuleFileName
  <2>4. UNCHANGED <<req, state, started, threw, nreq, handled, answer>>
    BY <1>2 DEF GetModuleFileName
  <2> QED
    BY <2>1, <2>2, <2>3, <2>4, QuietStep
<1>3. CASE OpenSCManager(p)
  <2>1. TypeOK'
    BY <1>3, ZenonT(60) DEF OpenSCManager
  <2>2. ReportOK(p)'
    BY <1>3 DEF OpenSCManager
  <2>3. Alone(p)
    BY <1>3 DEF OpenSCManager
  <2>4. UNCHANGED <<req, state, started, threw, nreq, handled, answer>>
    BY <1>3 DEF OpenSCManager
  <2> QED
    BY <2>1, <2>2, <2>3, <2>4, QuietStep
<1>4. CASE NoService(p)
  <2>1. TypeOK'
    BY <1>4 DEF NoService, AfterNoService
  <2>2. ReportOK(p)'
    BY <1>4 DEF NoService, AfterNoService
  <2>3. Alone(p)
    BY <1>4 DEF NoService, AfterNoService
  <2>4. UNCHANGED <<req, state, started, threw, nreq, handled, answer>>
    BY <1>4 DEF NoService, AfterNoService
  <2> QED
    BY <2>1, <2>2, <2>3, <2>4, QuietStep
<1>5. CASE OpenService(p)
  <2>1. TypeOK'
    BY <1>5 DEF OpenService, Holds
  <2>2. ReportOK(p)'
    BY <1>5 DEF OpenService, Holds
  <2>3. Alone(p)
    BY <1>5 DEF OpenService, Holds
  <2>4. UNCHANGED <<req, state, started, threw, nreq, handled, answer>>
    BY <1>5 DEF OpenService, Holds
  <2> QED
    BY <2>1, <2>2, <2>3, <2>4, QuietStep
<1>6. CASE CreateService(p)
  <2>1. TypeOK'
    BY <1>6 DEF CreateService
  <2>2. ReportOK(p)'
    BY <1>6 DEF CreateService
  <2>3. Alone(p)
    BY <1>6 DEF CreateService
  <2>4. UNCHANGED <<req, state, started, threw, nreq, handled, answer>>
    BY <1>6 DEF CreateService
  <2> QED
    BY <2>1, <2>2, <2>3, <2>4, QuietStep
<1>7. CASE ChangeServiceConfig2(p)
  <2>1. TypeOK'
    BY <1>7 DEF ChangeServiceConfig2
  <2>2. ReportOK(p)'
    BY <1>7 DEF ChangeServiceConfig2
  <2>3. Alone(p)
    BY <1>7 DEF ChangeServiceConfig2
  <2>4. UNCHANGED <<req, state, started, threw, nreq, handled, answer>>
    BY <1>7 DEF ChangeServiceConfig2
  <2> QED
    BY <2>1, <2>2, <2>3, <2>4, QuietStep
<1>8. CASE DeleteService(p)
  <2>1. TypeOK'
    BY <1>8, ZenonT(60) DEF DeleteService
  <2>2. ReportOK(p)'
    BY <1>8 DEF DeleteService
  <2>3. Alone(p)
    BY <1>8 DEF DeleteService
  <2>4. UNCHANGED <<req, state, started, threw, nreq, handled, answer>>
    BY <1>8 DEF DeleteService
  <2> QED
    BY <2>1, <2>2, <2>3, <2>4, QuietStep
<1>9. CASE CloseServiceHandle(p)
  <2>1. TypeOK'
    BY <1>9 DEF CloseServiceHandle
  <2>2. ReportOK(p)'
    BY <1>9 DEF CloseServiceHandle
  <2>3. Alone(p)
    BY <1>9 DEF CloseServiceHandle
  <2>4. UNCHANGED <<req, state, started, threw, nreq, handled, answer>>
    BY <1>9 DEF CloseServiceHandle
  <2> QED
    BY <2>1, <2>2, <2>3, <2>4, QuietStep
<1>10. CASE StartService(p)
  <2>1. CASE state' # state
    BY <1>10, <2>1, StartStep
  <2>2. CASE state' = state
    <3>0. /\ at' = [at EXCEPT ![p] = "closeService"]
          /\ log' = [log EXCEPT ![p] = "failed"] /\ shown' = [shown EXCEPT ![p] = "none"]
          /\ UNCHANGED <<state, started, req, openVars, service, svcVars>>
      BY <1>10, <2>2 DEF StartService
    <3>1. TypeOK'
      BY <3>0, ZenonT(60)
    <3>2. ReportOK(p)'
      BY <1>10 DEF StartService
    <3>3. Alone(p)
      BY <1>10 DEF StartService
    <3>4. UNCHANGED <<req, state, started, threw, nreq, handled, answer>>
      BY <1>10, <2>2 DEF StartService
    <3> QED
      BY <2>2, <3>1, <3>2, <3>3, <3>4, QuietStep, ZenonT(60)
  <2> QED
    BY <2>1, <2>2
<1> QED
  BY <1>1, <1>2, <1>3, <1>4, <1>5, <1>6, <1>7, <1>8, <1>9, <1>10 DEF Command

-----------------------------------------------------------------------------
(* ControlService.                                                         *)
LEMMA SendsStep ==
  ASSUME CommandInv, NEW c \in Callers, Sends(c)
  PROVE  CommandInv'
<1>1. /\ at[c] = "control" /\ at' = [at EXCEPT ![c] = "answer"]
      /\ req' = [req EXCEPT ![c] = nreq + 1]
      /\ nreq < MaxControls /\ nreq' = nreq + 1
      /\ state = "RUNNING"
      /\ UNCHANGED <<log, shown, verb, state, started, threw, handled, answer>>
  BY DEF Sends, Goes, Bridge!Send, openVars, scmVars
<1>2. nreq + 1 \in Requests /\ handled[nreq + 1] = NotYet
  BY <1>1 DEF CommandInv, TypeOK, ControlsInv
<1>3. TypeOK'
  BY <1>1, <1>2 DEF CommandInv, TypeOK
<1>4. ControlsInv'
  BY <1>1 DEF CommandInv, TypeOK, ControlsInv
<1>5. WaitInv'
  BY <1>1, <1>2 DEF CommandInv, TypeOK, WaitInv
<1>6. StopsInv'
  BY <1>1 DEF CommandInv, StopsInv
<1>7. ReportInv'
  <2>1. SelfControlFails'
    BY <1>1 DEF CommandInv, ReportInv, SelfControlFails
  <2>2. ASSUME NEW p \in Commands PROVE ReportOK(p)'
    <3>1. CASE p # c
      BY <1>1, <3>1 DEF CommandInv, TypeOK, ReportInv, ReportOK
    <3>2. CASE p = c
      BY <1>1, <3>2 DEF CommandInv, TypeOK, ReportInv, ReportOK
    <3> QED
      BY <3>1, <3>2
  <2> QED
    BY <2>1, <2>2 DEF ReportInv
<1> QED
  BY <1>3, <1>4, <1>5, <1>6, <1>7 DEF CommandInv

\* lua_ControlService returns: only an answer is a success, and the service it
\* shows then stops, unless the handler raised an error.
LEMMA ReturnsStep ==
  ASSUME CommandInv, NEW c \in Callers, at[c] \in {"control", "answer"},
         NEW ok \in BOOLEAN, NEW status \in States \cup {"garbage"},
         Returns(c, ok, status),
         ok => /\ c # Loop /\ status \in States
               /\ status \in Stops \/ req[c] \in threw
  PROVE  CommandInv'
<1>1. /\ at' = [at EXCEPT ![c] = IF c = Loop THEN "none" ELSE "closeService"]
      /\ log' = [log EXCEPT ![c] = IF ok THEN "succeeded" ELSE "failed"]
      /\ shown' = [shown EXCEPT ![c] = IF ok THEN status ELSE "none"]
      /\ UNCHANGED <<verb, req, state, started, threw, nreq, handled, answer>>
  BY DEF Returns, Reports, StatusShown, openVars, scmVars, svcVars
<1>2. TypeOK'
  BY <1>1 DEF CommandInv, TypeOK, States
<1>3. Alone(c)
  BY <1>1 DEF CommandInv, TypeOK, Alone
<1>4. c \in Commands => ReportOK(c)'
  BY <1>1 DEF CommandInv, TypeOK, States, ReportOK
<1>5. c = Loop => SelfControlFails'
  BY <1>1 DEF CommandInv, TypeOK, SelfControlFails
<1> QED
  BY <1>1, <1>2, <1>3, <1>4, <1>5, QuietStep

LEMMA ControlStep ==
  ASSUME CommandInv, NEW c \in Callers, ControlService(c)
  PROVE  CommandInv'
<1>1. CASE Sends(c)
  BY <1>1, SendsStep
<1>2. CASE NotActive(c)
  BY <1>2, ReturnsStep DEF NotActive, CommandInv, TypeOK
<1>3. CASE TimesOut(c)
  BY <1>3, ReturnsStep DEF TimesOut, TimeLimit
<1>4. CASE Answered(c)
  <2>1. /\ at[c] = "answer" /\ answer[req[c]] # NotYet
        /\ Returns(c, answer[req[c]] = NO_ERROR,
                   IF answer[req[c]] = NO_ERROR THEN state ELSE "garbage")
    BY <1>4 DEF Answered
  <2>2. req[c] \in Requests /\ handled[req[c]] # NotYet
    BY <2>1 DEF CommandInv, TypeOK, WaitInv, ControlsInv
  <2>3. c # Loop
    BY <2>1, <2>2 DEF CommandInv, WaitInv
  <2>4. state \in Stops \/ req[c] \in threw
    BY <2>2 DEF CommandInv, StopsInv
  <2>5. state \in States
    BY DEF CommandInv, TypeOK
  <2> QED
    BY <2>1, <2>3, <2>4, <2>5, ReturnsStep
<1> QED
  BY <1>1, <1>2, <1>3, <1>4 DEF ControlService

-----------------------------------------------------------------------------
(* The service's process.                                                  *)

\* A step of it in which the callers stay where they are and no control is
\* handled: the service goes on, or to its end.
LEMMA ServiceStep ==
  ASSUME CommandInv,
         UNCHANGED <<at, verb, log, shown, req, started, threw, nreq, handled, answer>>,
         \/ state' \in Stops /\ started
         \/ state = "START_PENDING" /\ state' = "RUNNING"
  PROVE  CommandInv'
<1>1. TypeOK'
  BY DEF CommandInv, TypeOK, States, Stops
<1>2. ControlsInv' /\ WaitInv'
  BY DEF CommandInv, ControlsInv, WaitInv
<1>3. StopsInv'
  BY DEF CommandInv, StopsInv, Stops
<1>4. ReportInv'
  BY DEF CommandInv, ReportInv, ReportOK, SelfControlFails
<1> QED
  BY <1>1, <1>2, <1>3, <1>4 DEF CommandInv

LEMMA HandlerStep ==
  ASSUME CommandInv, SvcHandler
  PROVE  CommandInv'
<1>1. /\ at[Loop] = "none"
      /\ nreq > 0 /\ handled[nreq] = NotYet
      /\ handled' = [handled EXCEPT ![nreq] = 0]
      /\ \/ state' = "STOP_PENDING" /\ threw' = threw
         \/ state' \in {state, "STOP_PENDING"} /\ threw' = threw \cup {nreq}
      /\ UNCHANGED <<at, verb, log, shown, req, started, nreq, answer>>
  BY DEF SvcHandler, LoopFree, Bridge!Handle, ReportsStopPending, callVars, openVars
<1>2. nreq \in Requests /\ started
  BY <1>1 DEF CommandInv, TypeOK, ControlsInv
<1>3. TypeOK'
  BY <1>1, <1>2 DEF CommandInv, TypeOK, States
<1>4. ControlsInv'
  BY <1>1, <1>2 DEF CommandInv, TypeOK, ControlsInv
<1>5. WaitInv'
  BY <1>1 DEF CommandInv, TypeOK, WaitInv
<1>6. StopsInv'
  <2> SUFFICES ASSUME NEW r \in Requests, handled'[r] # NotYet
               PROVE  r \in threw' \/ state' \in Stops
    BY DEF StopsInv
  <2>1. CASE r = nreq
    BY <1>1, <2>1 DEF Stops
  <2>2. CASE r # nreq
    <3>1. r \in threw \/ state \in Stops
      BY <1>1, <2>2 DEF CommandInv, TypeOK, StopsInv
    <3> QED
      BY <1>1, <3>1 DEF Stops
  <2> QED
    BY <2>1, <2>2
<1>7. ReportInv'
  BY <1>1 DEF CommandInv, ReportInv, ReportOK, SelfControlFails
<1> QED
  BY <1>3, <1>4, <1>5, <1>6, <1>7 DEF CommandInv

LEMMA AnswerStep ==
  ASSUME CommandInv, HandlerExReturns
  PROVE  CommandInv'
<1>1. /\ nreq > 0 /\ handled[nreq] # NotYet
      /\ answer' = [answer EXCEPT ![nreq] = handled[nreq]]
      /\ UNCHANGED <<at, verb, log, shown, req, state, started, threw, nreq, handled>>
  BY DEF HandlerExReturns, Bridge!Answer, callVars, openVars, scmVars
<1>2. nreq \in Requests
  BY <1>1 DEF CommandInv, TypeOK
<1>3. TypeOK'
  BY <1>1, <1>2 DEF CommandInv, TypeOK
<1>4. ControlsInv'
  BY <1>1, <1>2 DEF CommandInv, TypeOK, ControlsInv
<1>5. WaitInv' /\ StopsInv' /\ ReportInv'
  BY <1>1 DEF CommandInv, WaitInv, StopsInv, ReportInv, ReportOK, SelfControlFails
<1> QED
  BY <1>3, <1>4, <1>5 DEF CommandInv

LEMMA LeavesStep ==
  ASSUME CommandInv, Leaves
  PROVE  CommandInv'
<1>1. /\ started /\ state' = "STOPPED"
      /\ at' = [at EXCEPT ![Loop] = "returned"]
      /\ UNCHANGED <<verb, log, shown, req, started, threw, nreq, handled, answer>>
  BY DEF Leaves, Bridge!Leave, callVars, openVars
<1>2. TypeOK'
  BY <1>1 DEF CommandInv, TypeOK, States
<1>3. ControlsInv' /\ StopsInv'
  BY <1>1 DEF CommandInv, ControlsInv, StopsInv, Stops
<1>4. WaitInv'
  BY <1>1 DEF CommandInv, TypeOK, WaitInv
<1>5. ReportInv'
  BY <1>1 DEF CommandInv, TypeOK, ReportInv, ReportOK, SelfControlFails
<1> QED
  BY <1>2, <1>3, <1>4, <1>5 DEF CommandInv

LEMMA ProcessStep ==
  ASSUME CommandInv, Process
  PROVE  CommandInv'
<1>1. CASE ControlsItself
  <2>1. /\ at' = [at EXCEPT ![Loop] = "control"]
        /\ UNCHANGED <<verb, log, shown, req, state, started, threw, nreq, handled, answer>>
    BY <1>1 DEF ControlsItself, Goes, callVars, openVars, scmVars, svcVars
  <2>2. TypeOK'
    BY <2>1 DEF CommandInv, TypeOK
  <2>3. Alone(Loop)
    BY <2>1 DEF CommandInv, TypeOK, Alone
  <2>4. SelfControlFails'
    BY <2>1 DEF CommandInv, ReportInv, SelfControlFails
  <2> QED
    BY <2>1, <2>2, <2>3, <2>4, QuietStep
<1>2. CASE SvcInit
  BY <1>2, ServiceStep DEF SvcInit, callVars, openVars, svcVars, Stops, CommandInv, ControlsInv
<1>3. CASE SvcHandler
  BY <1>3, HandlerStep
<1>4. CASE HandlerExReturns
  BY <1>4, AnswerStep
<1>5. CASE TimerStops
  <2>1. state # "STOPPED" /\ state' = "STOPPED"
        /\ UNCHANGED <<at, verb, log, shown, req, started, threw, nreq, handled, answer>>
    BY <1>5 DEF TimerStops, callVars, openVars, svcVars
  <2>2. started
    BY <2>1 DEF CommandInv, TypeOK, States, ControlsInv
  <2> QED
    BY <2>1, <2>2, ServiceStep DEF Stops
<1>6. CASE Leaves
  BY <1>6, LeavesStep
<1> QED
  BY <1>1, <1>2, <1>3, <1>4, <1>5, <1>6 DEF Process

LEMMA CommandInvStep == CommandInv /\ [Next]_vars => CommandInv'
<1> SUFFICES ASSUME CommandInv, [Next]_vars
             PROVE  CommandInv'
  OBVIOUS
<1>1. CASE UNCHANGED vars
  <2>1. UNCHANGED <<at, verb, log, shown, req, state, started, threw, nreq, handled, answer>>
    BY <1>1 DEF vars, callVars, openVars, scmVars, svcVars
  <2> QED
    BY <2>1 DEF CommandInv, TypeOK, ControlsInv, WaitInv, StopsInv, ReportInv, ReportOK,
                SelfControlFails
<1> QED
  BY <1>1, CommandStep, ControlStep, ProcessStep DEF Next

-----------------------------------------------------------------------------
LEMMA CommandInvariant == Spec => []CommandInv
  BY CommandInitially, CommandInvStep, PTL DEF Spec

\* A callback that controls its own service never succeeds, at any time and
\* whatever the other callers do (winsvc.c:256-268).
THEOREM SelfControlNeverSucceeds == Spec => []SelfControlFails
<1>1. CommandInv => SelfControlFails
  BY DEF CommandInv, ReportInv
<1> QED
  BY <1>1, CommandInvariant, PTL

\* A stop reported as succeeded shows a service that stops, unless its handler
\* raised an error, and no command shows a structure that was not filled in
\* (winsvc.c:256-268, main.lua:286-297).
THEOREM StopToldTrue == Spec => []StopTold
<1>1. CommandInv => StopTold
  BY DEF CommandInv, ReportInv, ReportOK, StopTold, Stops
<1> QED
  BY <1>1, CommandInvariant, PTL
-----------------------------------------------------------------------------
(* The handles of a command.                                               *)

HandleInv == handles \in [Commands -> SUBSET {"manager", "service"}] /\ HandlesClosed

LEMMA HandlesInitially == Init => HandleInv
  BY DEF Init, HandleInv, HandlesClosed

\* A step of command p that opens or closes handles, or none, and goes on.
LEMMA HandlesMove ==
  ASSUME CommandInv, HandleInv, NEW p \in Commands,
         NEW to \in {"path", "manager", "service", "work", "control", "closeService",
                     "closeManager", "returned"},
         NEW hs \in SUBSET {"manager", "service"},
         at' = [at EXCEPT ![p] = to], handles' = [handles EXCEPT ![p] = hs],
         hs = CASE to \in {"path", "manager", "returned"} -> {}
                [] to \in {"service", "closeManager"} -> {"manager"}
                [] OTHER -> {"manager", "service"}
  PROVE  HandleInv'
<1>1. handles' \in [Commands -> SUBSET {"manager", "service"}]
  BY DEF HandleInv
<1>2. at'[p] = to /\ handles'[p] = hs
      /\ \A q \in Commands \ {p} : at'[q] = at[q] /\ handles'[q] = handles[q]
  BY DEF CommandInv, TypeOK, HandleInv
<1> QED
  BY <1>1, <1>2 DEF HandleInv, HandlesClosed

\* A step that leaves every command where it is.
LEMMA HandlesKept ==
  ASSUME HandleInv, UNCHANGED handles, \A p \in Commands : at'[p] = at[p]
  PROVE  HandleInv'
BY DEF HandleInv, HandlesClosed

LEMMA CommandHandles ==
  ASSUME CommandInv, HandleInv, NEW p \in Commands, Command(p)
  PROVE  HandleInv'
<1>1. handles[p] \in SUBSET {"manager", "service"}
      /\ handles = [handles EXCEPT ![p] = handles[p]]
  BY DEF HandleInv
<1> USE DEF Goes
<1>2. CASE \E v \in {"install", "delete", "start", "stop"} : Runs(p, v)
  <2>1. PICK to \in {"path", "manager"} : at[p] = "none" /\ at' = [at EXCEPT ![p] = to]
    BY <1>2 DEF Runs
  <2>2. handles' = handles /\ handles[p] = {}
    BY <1>2, <2>1 DEF Runs, HandleInv, HandlesClosed
  <2> QED
    BY <1>1, <2>1, <2>2, HandlesMove
<1>3. CASE GetModuleFileName(p)
  <2>1. PICK to \in {"manager", "returned"} : at[p] = "path" /\ at' = [at EXCEPT ![p] = to]
    BY <1>3 DEF GetModuleFileName
  <2>2. handles' = handles /\ handles[p] = {}
    BY <1>3, <2>1 DEF GetModuleFileName, openVars, HandleInv, HandlesClosed
  <2> QED
    BY <1>1, <2>1, <2>2, HandlesMove
<1>4. CASE OpenSCManager(p)
  <2>1. at[p] = "manager" /\ handles[p] = {}
    BY <1>4 DEF OpenSCManager, HandleInv, HandlesClosed
  <2>2. \/ at' = [at EXCEPT ![p] = "service"] /\ handles' = [handles EXCEPT ![p] = {"manager"}]
        \/ at' = [at EXCEPT ![p] = "returned"] /\ handles' = handles
    BY <1>4 DEF OpenSCManager, Holds
  <2> QED
    BY <1>1, <2>1, <2>2, HandlesMove
<1>5. CASE NoService(p)
  <2>1. /\ at[p] = "service" /\ at' = [at EXCEPT ![p] = "closeManager"] /\ handles' = handles
    BY <1>5 DEF NoService, AfterNoService, openVars
  <2>2. handles[p] = {"manager"}
    BY <2>1 DEF HandleInv, HandlesClosed
  <2> QED
    BY <1>1, <2>1, <2>2, HandlesMove
<1>6. CASE OpenService(p) \/ CreateService(p)
  <2>1. PICK to \in {"work", "control"} : at' = [at EXCEPT ![p] = to]
    BY <1>6 DEF OpenService, CreateService
  <2>2. handles' = [handles EXCEPT ![p] = {"manager", "service"}]
    BY <1>6 DEF OpenService, CreateService, Holds
  <2> QED
    BY <2>1, <2>2, HandlesMove
<1>7. CASE ChangeServiceConfig2(p) \/ DeleteService(p) \/ StartService(p)
  <2>1. at[p] = "work" /\ at' = [at EXCEPT ![p] = "closeService"] /\ handles' = handles
    BY <1>7 DEF ChangeServiceConfig2, DeleteService, StartService, openVars
  <2>2. handles[p] = {"manager", "service"}
    BY <2>1 DEF HandleInv, HandlesClosed
  <2> QED
    BY <1>1, <2>1, <2>2, HandlesMove
<1>8. CASE CloseServiceHandle(p)
  <2>1. CASE at[p] = "closeService"
    <3>1. /\ at' = [at EXCEPT ![p] = "closeManager"]
          /\ handles' = [handles EXCEPT ![p] = handles[p] \ {"service"}]
      BY <1>8, <2>1 DEF CloseServiceHandle, Holds
    <3>2. handles[p] \ {"service"} = {"manager"}
      BY <2>1 DEF HandleInv, HandlesClosed
    <3> QED
      BY <3>1, <3>2, HandlesMove
  <2>2. CASE at[p] = "closeManager"
    <3>1. /\ at' = [at EXCEPT ![p] = "returned"]
          /\ handles' = [handles EXCEPT ![p] = handles[p] \ {"manager"}]
      BY <1>8, <2>2 DEF CloseServiceHandle, Holds
    <3>2. handles[p] \ {"manager"} = {}
      BY <2>2 DEF HandleInv, HandlesClosed
    <3> QED
      BY <3>1, <3>2, HandlesMove
  <2> QED
    BY <1>8, <2>1, <2>2 DEF CloseServiceHandle
<1> QED
  BY <1>2, <1>3, <1>4, <1>5, <1>6, <1>7, <1>8 DEF Command

\* ControlService keeps both handles open: while it waits, and when it returns.
LEMMA ControlHandles ==
  ASSUME CommandInv, HandleInv, NEW c \in Callers, ControlService(c)
  PROVE  HandleInv'
<1>1. /\ handles' = handles
      /\ at[c] \in {"control", "answer"}
      /\ \E to \in {"answer", "closeService", "none"} :
            at' = [at EXCEPT ![c] = to] /\ (to = "none" => c = Loop)
  BY DEF ControlService, Sends, Goes, NotActive, Answered, TimesOut, TimeLimit, Returns, openVars
<1>2. PICK to \in {"answer", "closeService", "none"} :
          at' = [at EXCEPT ![c] = to] /\ (to = "none" => c = Loop)
  BY <1>1
<1>3. \A p \in Commands : p # c => at'[p] = at[p]
  BY <1>2 DEF CommandInv, TypeOK
<1>4. c \in Commands => at'[c] \in {"answer", "closeService"}
  BY <1>2 DEF CommandInv, TypeOK
<1> QED
  BY <1>1, <1>3, <1>4 DEF HandleInv, HandlesClosed

LEMMA HandlesStep == CommandInv /\ HandleInv /\ [Next]_vars => HandleInv'
<1> SUFFICES ASSUME CommandInv, HandleInv, [Next]_vars
             PROVE  HandleInv'
  OBVIOUS
<1>1. CASE Process
  <2>1. /\ handles' = handles
        /\ at' = at \/ \E to \in {"control", "returned"} : at' = [at EXCEPT ![Loop] = to]
    BY <1>1 DEF Process, ControlsItself, SvcInit, SvcHandler, HandlerExReturns, TimerStops,
                Leaves, Goes, openVars
  <2>2. \A p \in Commands : at'[p] = at[p]
    BY <2>1 DEF CommandInv, TypeOK
  <2> QED
    BY <2>1, <2>2, HandlesKept
<1>2. CASE UNCHANGED vars
  BY <1>2, HandlesKept DEF vars, openVars
<1> QED
  BY <1>1, <1>2, CommandHandles, ControlHandles DEF Next

\* Every path through a command closes what it has opened, each handle once and
\* the service's before the manager's (main.lua:147-302).
THEOREM HandlesAlwaysClosed == Spec => []HandlesClosed
<1>1. HandleInv => HandlesClosed
  BY DEF HandleInv
<1> QED
  BY <1>1, HandlesInitially, HandlesStep, CommandInvariant, PTL DEF Spec
==============================================================================
