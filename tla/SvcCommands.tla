---------------------------- MODULE SvcCommands ----------------------------
(***************************************************************************)
(* The calls of winsvc.c that reach a service from outside, as the sample  *)
(* makes them: several processes run it with install, delete, start or     *)
(* stop, while the service's own process serves its controls and may, from *)
(* a callback of its loop, control itself.  The service's process is the   *)
(* bridge as ServiceControl describes it, which WinSvcControl justifies,   *)
(* with the callbacks of the sample.  Windows: a control that is not       *)
(* answered in time fails, and a service is deleted when it has stopped    *)
(* and nobody holds a handle to it.                                        *)
(***************************************************************************)
EXTENDS Integers

CONSTANTS
    Commands,      \* processes that run the sample with an argument
    Loop,          \* the loop thread of the service's process
    MaxControls    \* bound: controls that reach the service

ASSUME LoopAssumption == Loop \notin Commands /\ MaxControls \in Nat

Callers == Commands \cup {Loop}
NO_ERROR == 0
ERROR    == 0
NotYet   == -1
Codes    == {NO_ERROR, ERROR}

VARIABLES
    \* a command, and the loop thread as a caller
    at,            \* where it is
    verb,          \* args[1]
    handles,       \* what it has opened
    log,           \* what it has reported
    shown,         \* the service's state it has printed
    req,           \* the control it waits for
    \* the SCM
    service,       \* its entry in the database
    config,        \* what ChangeServiceConfig2 has set for it
    state,         \* the state the service has reported
    started,       \* it has been started (bound: once)
    \* the service's process
    stopping,      \* gRunning is cleared
    threw,         \* controls whose handler raised an error
    nreq, handled, answer, gone

Bridge == INSTANCE ServiceControl

callVars == <<log, shown, req>>
openVars == <<verb, handles, config>>
scmVars == <<service, state, started>>
svcVars == <<stopping, threw, nreq, handled, answer, gone>>
vars == <<at, callVars, openVars, scmVars, svcVars>>

Init ==
    /\ at = [c \in Callers |-> "none"]
    /\ verb = [p \in Commands |-> "none"]
    /\ handles = [p \in Commands |-> {}]
    /\ log = [c \in Callers |-> "none"]
    /\ shown = [c \in Callers |-> "none"]
    /\ req = [c \in Callers |-> 0]
    /\ service \in {"absent", "installed"}
    /\ config = {}
    /\ started \in {FALSE, service = "installed"}
    /\ state = IF started THEN "RUNNING" ELSE "STOPPED"
    /\ stopping = FALSE
    /\ threw = {}
    /\ Bridge!Init

-----------------------------------------------------------------------------
\* Going on, and what a process reports on the way.
Goes(c, from, to) == at[c] = from /\ at' = [at EXCEPT ![c] = to]
Reports(c, result, status) ==
    /\ log' = [log EXCEPT ![c] = result]
    /\ shown' = [shown EXCEPT ![c] = status]
Holds(p, hs) == handles' = [handles EXCEPT ![p] = hs]

\* The database drops a marked service that is stopped and not held.
Dropped(entry, st, held) ==
    IF entry = "marked" /\ st = "STOPPED" /\ \A p \in Commands : "service" \notin held[p]
    THEN "absent" ELSE entry

\* The main chunk takes the command.
Runs(p, v) ==
    /\ Goes(p, "none", IF v = "install" THEN "path" ELSE "manager")
    /\ verb' = [verb EXCEPT ![p] = v]
    /\ UNCHANGED <<callVars, handles, config, scmVars, svcVars>>

GetModuleFileName(p) ==
    /\ \/ Goes(p, "path", "manager") /\ UNCHANGED callVars
       \/ Goes(p, "path", "returned") /\ Reports(p, "failed", "none") /\ UNCHANGED req
    /\ UNCHANGED <<openVars, scmVars, svcVars>>

OpenSCManager(p) ==
    /\ \/ /\ Goes(p, "manager", "service")
          /\ Holds(p, {"manager"})
          /\ UNCHANGED callVars
       \/ /\ Goes(p, "manager", "returned")
          /\ Reports(p, "failed", "none")
          /\ UNCHANGED <<req, handles>>
    /\ UNCHANGED <<verb, config, scmVars, svcVars>>

CloseNothing == "returned"              \* mutant: the manager's handle stays open
AfterNoService == "closeManager"

\* OpenService and CreateService, which may also be denied.
NoService(p) ==
    /\ Goes(p, "service", AfterNoService)
    /\ Reports(p, "failed", "none")
    /\ UNCHANGED <<req, openVars, scmVars, svcVars>>

OpenService(p) ==
    /\ verb[p] # "install" /\ service # "absent"
    /\ Goes(p, "service", IF verb[p] = "stop" THEN "control" ELSE "work")
    /\ Holds(p, {"manager", "service"})
    /\ UNCHANGED <<callVars, verb, config, scmVars, svcVars>>

CreateService(p) ==
    /\ verb[p] = "install" /\ service = "absent"
    /\ Goes(p, "service", "work")
    /\ Holds(p, {"manager", "service"})
    /\ service' = "installed" /\ config' = {}
    /\ UNCHANGED <<callVars, verb, state, started, svcVars>>

\* Two calls of ChangeServiceConfig2, whose results are not looked at.
ChangeServiceConfig2(p) ==
    /\ verb[p] = "install"
    /\ Goes(p, "work", "closeService")
    /\ config' \in SUBSET IF service = "installed" THEN {"description", "failure actions"} ELSE {}
    /\ Reports(p, "succeeded", "none")
    /\ UNCHANGED <<req, verb, handles, scmVars, svcVars>>

DeleteService(p) ==
    /\ verb[p] = "delete"
    /\ Goes(p, "work", "closeService")
    /\ \/ service = "installed" /\ service' = "marked" /\ Reports(p, "succeeded", "none")
       \/ Reports(p, "failed", "none") /\ UNCHANGED service
    /\ UNCHANGED <<req, openVars, state, started, svcVars>>

StartService(p) ==
    /\ verb[p] = "start"
    /\ Goes(p, "work", "closeService")
    /\ \/ /\ service = "installed" /\ state = "STOPPED" /\ ~started
          /\ state' = "START_PENDING" /\ started' = TRUE
          /\ Reports(p, "succeeded", "none")
       \/ Reports(p, "failed", "none") /\ UNCHANGED <<state, started>>
    /\ UNCHANGED <<req, openVars, service, svcVars>>

CloseServiceHandle(p) ==
    /\ \/ Goes(p, "closeService", "closeManager") /\ Holds(p, handles[p] \ {"service"})
       \/ Goes(p, "closeManager", "returned") /\ Holds(p, handles[p] \ {"manager"})
    /\ service' = Dropped(service, state, handles')
    /\ UNCHANGED <<callVars, verb, config, state, started, svcVars>>

-----------------------------------------------------------------------------
\* ControlService: the SCM passes one control at a time on to the service ...
Sends(c) ==
    /\ state = "RUNNING"
    /\ Goes(c, "control", "answer")
    /\ req' = [req EXCEPT ![c] = nreq + 1]
    /\ Bridge!Send
    /\ UNCHANGED <<log, shown, openVars, scmVars, stopping, threw>>

StatusShown(ok, status) == IF ok THEN status ELSE "none"

\* ... and lua_ControlService returns with the structure as the call left it.
\* The sample prints it if the call succeeded.
Returns(c, ok, status) ==
    /\ at' = [at EXCEPT ![c] = IF c = Loop THEN "none" ELSE "closeService"]
    /\ Reports(c, IF ok THEN "succeeded" ELSE "failed", StatusShown(ok, status))
    /\ UNCHANGED <<req, openVars, scmVars, svcVars>>

\* Refused by the SCM, which fills the structure in.
NotActive(c) == at[c] = "control" /\ state # "RUNNING" /\ Returns(c, FALSE, state)

Answered(c) ==
    /\ at[c] = "answer" /\ answer[req[c]] # NotYet
    /\ LET ok == answer[req[c]] = NO_ERROR
       IN  Returns(c, ok, IF ok THEN state ELSE "garbage")

NoTimeLimit(c) == FALSE                 \* mutant: the call waits for ever
TimeLimit(c) == at[c] \in {"control", "answer"}

\* The SCM gives up, at any time: the structure is not initialized.
TimesOut(c) == TimeLimit(c) /\ Returns(c, FALSE, "garbage")

ControlService(c) == Sends(c) \/ NotActive(c) \/ Answered(c) \/ TimesOut(c)

-----------------------------------------------------------------------------
\* The service's process.
AnyTime == TRUE                         \* mutant: HandlerEx calls Lua on its own thread
LoopFree == at[Loop] = "none"

\* A callback of the loop calls ControlService for its own service.
ControlsItself ==
    /\ state = "RUNNING" /\ ~gone /\ nreq < MaxControls
    /\ Goes(Loop, "none", "control")
    /\ UNCHANGED <<callVars, openVars, scmVars, svcVars>>

SvcInit ==
    /\ LoopFree /\ ~gone /\ state = "START_PENDING"
    /\ state' \in {"RUNNING", "STOPPED"}
    /\ service' = Dropped(service, state', handles)
    /\ UNCHANGED <<at, callVars, openVars, started, svcVars>>

ReportsLater == UNCHANGED state         \* mutant: STOP_PENDING is not reported
ReportsStopPending == state' = "STOP_PENDING"

\* svchandler_cb runs SvcHandler, which may raise an error at each of its calls.
SvcHandler ==
    /\ LoopFree
    /\ Bridge!Handle
    /\ \/ /\ ReportsStopPending
          /\ stopping' = TRUE
          /\ UNCHANGED threw
       \/ /\ \/ UNCHANGED <<state, stopping>>
             \/ state' = "STOP_PENDING" /\ stopping' \in {stopping, TRUE}
          /\ threw' = threw \cup {nreq}
    /\ UNCHANGED <<at, callVars, openVars, service, started>>

HandlerExReturns ==
    /\ Bridge!Answer
    /\ UNCHANGED <<at, callVars, openVars, scmVars, stopping, threw>>

TimerStops ==
    /\ LoopFree /\ ~gone /\ stopping /\ state # "STOPPED"
    /\ state' = "STOPPED"
    /\ service' = Dropped(service, state', handles)
    /\ UNCHANGED <<at, callVars, openVars, started, svcVars>>

\* The process ends, by itself or not, and the SCM takes note.
Leaves ==
    /\ started
    /\ Bridge!Leave
    /\ state' = "STOPPED"
    /\ service' = Dropped(service, state', handles)
    /\ at' = [at EXCEPT ![Loop] = "returned"]
    /\ UNCHANGED <<callVars, openVars, started, stopping, threw>>

Command(p) ==
    \/ \E v \in {"install", "delete", "start", "stop"} : Runs(p, v)
    \/ GetModuleFileName(p) \/ OpenSCManager(p) \/ NoService(p) \/ OpenService(p)
    \/ CreateService(p) \/ ChangeServiceConfig2(p) \/ DeleteService(p)
    \/ StartService(p) \/ CloseServiceHandle(p)

Process ==
    ControlsItself \/ SvcInit \/ SvcHandler \/ HandlerExReturns \/ TimerStops \/ Leaves

Next ==
    \/ \E p \in Commands : Command(p)
    \/ \E c \in Callers : ControlService(c)
    \/ Process

\* The SCM's time limit passes, the service's threads are scheduled, and libuv
\* delivers a pending message before the loop repeats another callback.
Spec ==
    /\ Init /\ [][Next]_vars
    /\ SF_vars(SvcHandler) /\ WF_vars(HandlerExReturns)
    /\ \A c \in Callers : WF_vars(TimesOut(c) \/ NotActive(c) \/ Answered(c))

-----------------------------------------------------------------------------
\* The service's process keeps the bridge's promise, also when its loop waits
\* in ControlService for the SCM, which waits for HandlerEx, which waits for
\* the loop: no control is lost, and none waits for ever (winsvc.c:81-112,
\* 256-268).
ControlsServed == Bridge!Spec

\* A callback that controls its own service gets an error at all times, and
\* never the answer of its own handler (winsvc.c:256-268).
SelfControlFails == log[Loop] # "succeeded"

\* A stop that the command reports as succeeded shows a service that stops,
\* unless its handler raised an error; a structure that ControlService has not
\* filled in is never shown (winsvc.c:256-268, main.lua:286-297).
StopTold ==
    \A p \in Commands :
        /\ shown[p] # "garbage"
        /\ verb[p] = "stop" /\ log[p] = "succeeded" =>
            shown[p] \in {"STOP_PENDING", "STOPPED"} \/ req[p] \in threw

\* Every path through a command closes what it has opened, each handle once and
\* the service's before the manager's (main.lua:147-302).
HandlesClosed ==
    \A p \in Commands :
        handles[p] = CASE at[p] \in {"none", "path", "manager", "returned"} -> {}
                       [] at[p] \in {"service", "closeManager"} -> {"manager"}
                       [] OTHER -> {"manager", "service"}
=============================================================================
