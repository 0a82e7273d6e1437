------------------------------- MODULE WinSvc -------------------------------
(***************************************************************************)
(* The Windows service bridge of luvi, src/winsvc.c, run by an application *)
(* written like samples/winsvc.app/main.lua.                               *)
(*                                                                         *)
(* Three kinds of threads meet here.  The loop thread runs Lua and libuv,  *)
(* one callback at a time.  SpawnServiceCtrlDispatcher creates a           *)
(* dispatcher thread, which sits in StartServiceCtrlDispatcher and runs    *)
(* HandlerEx for each control the service control manager (SCM) sends.     *)
(* Every service the SCM starts gets a thread that runs ServiceMain.  The  *)
(* threads share a list of batons, one for each entry of the service       *)
(* table; they talk through uv_async handles and manual-reset events.      *)
(*                                                                         *)
(* The steps of a thread that another thread can come between are actions  *)
(* of their own.                                                           *)
(***************************************************************************)
EXTENDS Integers, FiniteSets

CONSTANTS
    Services,     \* the keys of the service table
    NoService,    \* stands for no service
    MaxSpawns,    \* bound: SpawnServiceCtrlDispatcher calls past its first check
    MaxStarts,    \* bound: SCM starts of one service under one dispatcher
    MaxControls   \* bound: controls the SCM sends

ASSUME ServicesAssumption == IsFiniteSet(Services) /\ NoService \notin Services
ASSUME BoundsAssumption ==
    /\ MaxSpawns \in Nat \ {0}
    /\ MaxStarts \in Nat \ {0}
    /\ MaxControls \in Nat

Spawns   == 1 .. MaxSpawns
Starts   == 1 .. MaxStarts
Requests == 1 .. MaxControls

\* The baton that spawn n makes for the service name s.
Batons  == Spawns \X Services
NoBaton == <<0, NoService>>

\* dwControl: the controls the sample tells apart.
Controls == {"STOP", "INTERROGATE", "OTHER"}

NO_ERROR == 0
ERROR    == 0                        \* wingdi.h
ERROR_CALL_NOT_IMPLEMENTED == 120
NotYet == -1                         \* history only: no code yet
Codes  == {NO_ERROR, ERROR, ERROR_CALL_NOT_IMPLEMENTED}

VARIABLES
    \* the process and the loop thread
    process,      \* "up", or how it ended
    loopAt,       \* where the loop thread is; "idle" is inside uv_run
    loopB,        \* the baton of the callback it runs
    gRunning,     \* main.lua: cleared when the STOP control arrives
    timer,        \* main.lua: the service's timer is active
    spawns,       \* number of tables SpawnServiceCtrlDispatcher has taken
    spawnResult,  \* what its last call told Lua
    \* memory the threads share
    gBatons,      \* the batons on the global list
    baton,        \* the life of a baton's memory
    block,        \* svc_handler_block: the control under way and its code
    blockEnd,     \* block_end_event
    svcEnd,       \* svc_end_event
    argvOf,       \* lpszArgv: the start that owns the vector
    \* libuv
    ctlSent,      \* block.async_handle has been sent to
    mainSent,     \* svc_async_handle has been sent to
    endSent,      \* end_async_handle has been sent to
    endOpen,      \* end_async_handle is open
    closing,      \* handles wait for the close phase of the loop
    \* the other threads
    dispAt,       \* where the dispatcher thread of a spawn is
    dispS,        \* the service whose HandlerEx it runs
    dispOk,       \* info->return_code
    svcAt,        \* where the ServiceMain thread of a start is
    \* the SCM
    scm,          \* the state the SCM has for a service
    registered,   \* RegisterServiceCtrlHandlerEx has been called
    \* history
    nreq,         \* controls sent so far
    handled,      \* the code the Lua side settled on for a control
    answer,       \* the code HandlerEx returned for it
    mainRan       \* calls of the service's Lua main function

loopVars    == <<loopAt, loopB, gRunning, timer>>
spawnVars   == <<spawns, spawnResult>>
batonVars   == <<gBatons, baton>>
blockVars   == <<block, blockEnd>>
uvVars      == <<ctlSent, mainSent, endSent, endOpen, closing>>
dispVars    == <<dispAt, dispS, dispOk>>
scmVars     == <<scm, registered>>
historyVars == <<nreq, handled, answer, mainRan>>
sharedVars  == <<batonVars, blockVars, svcEnd, argvOf>>
threadVars  == <<dispVars, svcAt, scmVars>>
vars == <<process, loopVars, spawnVars, sharedVars, uvVars, threadVars, historyVars>>

Up == process = "up"
IdleLoop == Up /\ loopAt = "idle"

InCallback  == {"svcmain", "starting", "handler", "set", "ending"}
InHandlerEx == {"reset", "send", "wait", "read"}
Started(b) == {k \in Starts : svcAt[<<b, k>>] # "none"}

TypeOK ==
    /\ process \in {"up", "finished", "aborted", "faulted"}
    /\ loopAt \in {"main", "idle", "endcb"} \cup InCallback
    /\ loopB \in Batons \cup {NoBaton}
    /\ loopAt \in InCallback <=> loopB \in Batons
    /\ gRunning \in [Services -> BOOLEAN]
    /\ timer \in [Batons -> BOOLEAN]
    /\ spawns \in 0 .. MaxSpawns
    /\ spawnResult \in {"none", "true", "false", "error", "already running"}
    /\ gBatons \in SUBSET Batons
    /\ baton \in [Batons -> {"none", "live", "freed"}]
    /\ block \in [Batons -> [req : 0 .. MaxControls, dwControl : Controls,
                             return_code : Codes]]
    /\ blockEnd \in [Batons -> BOOLEAN]
    /\ svcEnd \in [Batons -> BOOLEAN]
    /\ argvOf \in [Batons -> 0 .. MaxStarts]
    /\ ctlSent \in [Batons -> BOOLEAN]
    /\ mainSent \in [Batons -> BOOLEAN]
    /\ endSent \in [Spawns -> BOOLEAN]
    /\ endOpen \in [Spawns -> BOOLEAN]
    /\ closing \in BOOLEAN
    /\ dispAt \in [Spawns -> {"none", "connect", "serving", "returned", "gone"}
                             \cup InHandlerEx]
    /\ dispS \in [Spawns -> Services \cup {NoService}]
    /\ \A n \in Spawns : dispAt[n] \in InHandlerEx => dispS[n] \in Services
    /\ dispOk \in [Spawns -> BOOLEAN]
    /\ svcAt \in [Batons \X Starts ->
                    {"none", "register", "send", "enter", "wait", "lost", "exited"}]
    /\ scm \in [Services -> {"STOPPED", "START_PENDING", "RUNNING", "STOP_PENDING"}]
    /\ registered \in [Batons -> BOOLEAN]
    /\ nreq \in 0 .. MaxControls
    /\ handled \in [Requests -> Codes \cup {NotYet}]
    /\ answer \in [Requests -> Codes \cup {NotYet}]
    /\ mainRan \in [Batons -> 0 .. MaxStarts]

\* A fresh baton is zeroed memory (LocalAlloc with LPTR).
Zeroed == [req |-> 0, dwControl |-> "OTHER", return_code |-> 0]

Init ==
    /\ process = "up"
    /\ loopAt = "main"
    /\ loopB = NoBaton
    /\ gRunning = [s \in Services |-> TRUE]
    /\ timer = [b \in Batons |-> FALSE]
    /\ spawns = 0
    /\ spawnResult = "none"
    /\ gBatons = {}
    /\ baton = [b \in Batons |-> "none"]
    /\ block = [b \in Batons |-> Zeroed]
    /\ blockEnd = [b \in Batons |-> FALSE]
    /\ svcEnd = [b \in Batons |-> FALSE]
    /\ argvOf = [b \in Batons |-> 0]
    /\ ctlSent = [b \in Batons |-> FALSE]
    /\ mainSent = [b \in Batons |-> FALSE]
    /\ endSent = [n \in Spawns |-> FALSE]
    /\ endOpen = [n \in Spawns |-> FALSE]
    /\ closing = FALSE
    /\ dispAt = [n \in Spawns |-> "none"]
    /\ dispS = [n \in Spawns |-> NoService]
    /\ dispOk = [n \in Spawns |-> FALSE]
    /\ svcAt = [t \in Batons \X Starts |-> "none"]
    /\ scm = [s \in Services |-> "STOPPED"]
    /\ registered = [b \in Batons |-> FALSE]
    /\ nreq = 0
    /\ handled = [r \in Requests |-> NotYet]
    /\ answer = [r \in Requests |-> NotYet]
    /\ mainRan = [b \in Batons |-> 0]

(***************************************************************************)
(* SpawnServiceCtrlDispatcher, called from the main chunk or from the end  *)
(* callback of the dispatcher before.  It refuses while there are batons,  *)
(* before it has changed anything.                                         *)
(***************************************************************************)
InLua == Up /\ loopAt \in {"main", "endcb"}

NotRunningUnchecked == TRUE             \* mutant: the check is missing
NotRunning == gBatons = {}

SpawnRefused ==
    /\ InLua
    /\ ~NotRunning
    /\ spawnResult' = "already running"
    /\ UNCHANGED <<process, loopVars, spawns, sharedVars, uvVars, threadVars,
                   historyVars>>

\* svc_create_baton for each table entry walked, on the global list at once.
CreateBatons(n, entries) ==
    /\ gBatons' = {n} \X entries
    /\ baton' = [b \in Batons |-> IF b \in {n} \X entries THEN "live" ELSE baton[b]]

\* The calls that pass the check: the table walk stops at a bad entry (or finds
\* no entry), CreateThread fails, or the dispatcher thread is created.
Spawn(entries, result) ==
    LET n == spawns + 1 IN
    /\ InLua
    /\ NotRunning
    /\ n \in Spawns
    /\ spawns' = n
    /\ endOpen' = [endOpen EXCEPT ![n] = TRUE]
    /\ CreateBatons(n, entries)
    /\ spawnResult' = result
    /\ dispAt' = [dispAt EXCEPT ![n] = IF result = "true" THEN "connect" ELSE @]
    /\ UNCHANGED <<process, loopVars, blockVars, svcEnd, argvOf, ctlSent, mainSent,
                   endSent, closing, dispS, dispOk, svcAt, scmVars, historyVars>>

SpawnBadTable ==
    \E entries \in SUBSET Services : entries # Services /\ Spawn(entries, "error")

SpawnNoThread == Spawn(Services, "false")

SpawnStarts == Services # {} /\ Spawn(Services, "true")

\* An error the application does not catch leaves uv_run, and main returns -1.
LuaError ==
    /\ InLua
    /\ process' = "aborted"
    /\ UNCHANGED <<loopVars, spawnVars, sharedVars, uvVars, threadVars, historyVars>>

(***************************************************************************)
(* The dispatcher thread of spawn n.                                       *)
(***************************************************************************)
Connects(n) ==
    /\ Up
    /\ dispAt[n] = "connect"
    /\ dispAt' = [dispAt EXCEPT ![n] = "serving"]
    /\ UNCHANGED <<process, loopVars, spawnVars, sharedVars, uvVars, dispS, dispOk,
                   svcAt, scmVars, historyVars>>

\* StartServiceCtrlDispatcher returns: FALSE if the process was not started by
\* the SCM, TRUE once every service of the process has reported STOPPED.
DispatcherReturns(n) ==
    /\ Up
    /\ \/ /\ dispAt[n] = "connect"
          /\ dispOk' = dispOk
       \/ /\ dispAt[n] = "serving"
          /\ \E s \in Services : Started(<<n, s>>) # {}
          /\ \A s \in Services : scm[s] = "STOPPED"
          /\ dispOk' = [dispOk EXCEPT ![n] = TRUE]
    /\ dispAt' = [dispAt EXCEPT ![n] = "returned"]
    /\ UNCHANGED <<process, loopVars, spawnVars, sharedVars, uvVars, dispS, svcAt,
                   scmVars, historyVars>>

SendNoEnd(n) == UNCHANGED endSent       \* mutant: uv_async_send is missing
SendEnd(n) == endSent' = [endSent EXCEPT ![n] = TRUE]

\* StartServiceCtrlDispatcherThread: the end message, and the thread is gone.
SendsEnd(n) ==
    /\ Up
    /\ dispAt[n] = "returned"
    /\ dispAt' = [dispAt EXCEPT ![n] = "gone"]
    /\ SendEnd(n)
    /\ UNCHANGED <<process, loopVars, spawnVars, sharedVars, ctlSent, mainSent, endOpen,
                   closing, dispS, dispOk, svcAt, scmVars, historyVars>>

\* The SCM starts s: a thread runs ServiceMain.  A service alone in its process
\* is restarted in a new process, one that shares it is restarted here.
ScmStarts(n, s, k) ==
    /\ Up
    /\ dispAt[n] = "serving"
    /\ scm[s] = "STOPPED"
    /\ Started(<<n, s>>) = 1 .. k - 1
    /\ k > 1 => \E t \in Services \ {s} : scm[t] # "STOPPED"
    /\ svcAt' = [svcAt EXCEPT ![<<<<n, s>>, k>>] = "register"]
    /\ scm' = [scm EXCEPT ![s] = "START_PENDING"]
    /\ UNCHANGED <<process, loopVars, spawnVars, sharedVars, uvVars, dispVars,
                   registered, historyVars>>

(***************************************************************************)
(* HandlerEx, on the dispatcher thread: store the arguments in the block,  *)
(* reset the event, send, wait, read the code.                             *)
(***************************************************************************)
HandlerExStores(n, s, c) ==
    LET b == <<n, s>> IN
    /\ Up
    /\ dispAt[n] = "serving"
    /\ registered[b]
    /\ scm[s] \in IF c = "INTERROGATE" THEN {"START_PENDING", "RUNNING", "STOP_PENDING"}
                  ELSE {"RUNNING"}
    /\ nreq < MaxControls
    /\ nreq' = nreq + 1
    /\ block' = [block EXCEPT ![b].req = nreq + 1, ![b].dwControl = c]
    /\ dispS' = [dispS EXCEPT ![n] = s]
    /\ dispAt' = [dispAt EXCEPT ![n] = "reset"]
    /\ UNCHANGED <<process, loopVars, spawnVars, batonVars, blockEnd, svcEnd, argvOf,
                   uvVars, dispOk, svcAt, scmVars, handled, answer, mainRan>>

KeepBlockEnd(b) == UNCHANGED blockEnd   \* mutant: ResetEvent is missing
ResetBlockEnd(b) == blockEnd' = [blockEnd EXCEPT ![b] = FALSE]

HandlerExResets(n) ==
    /\ Up
    /\ dispAt[n] = "reset"
    /\ ResetBlockEnd(<<n, dispS[n]>>)
    /\ dispAt' = [dispAt EXCEPT ![n] = "send"]
    /\ UNCHANGED <<process, loopVars, spawnVars, batonVars, block, svcEnd, argvOf,
                   uvVars, dispS, dispOk, svcAt, scmVars, historyVars>>

HandlerExSends(n) ==
    /\ Up
    /\ dispAt[n] = "send"
    /\ ctlSent' = [ctlSent EXCEPT ![<<n, dispS[n]>>] = TRUE]
    /\ dispAt' = [dispAt EXCEPT ![n] = "wait"]
    /\ UNCHANGED <<process, loopVars, spawnVars, sharedVars, mainSent, endSent, endOpen,
                   closing, dispS, dispOk, svcAt, scmVars, historyVars>>

NoBlockWait(b) == TRUE                  \* mutant: the wait is missing
BlockEnded(b) == blockEnd[b]

HandlerExWakes(n) ==
    /\ Up
    /\ dispAt[n] = "wait"
    /\ BlockEnded(<<n, dispS[n]>>)
    /\ dispAt' = [dispAt EXCEPT ![n] = "read"]
    /\ UNCHANGED <<process, loopVars, spawnVars, sharedVars, uvVars, dispS, dispOk,
                   svcAt, scmVars, historyVars>>

HandlerExReturns(n) ==
    LET b == <<n, dispS[n]>> IN
    /\ Up
    /\ dispAt[n] = "read"
    /\ answer' = [answer EXCEPT ![block[b].req] = block[b].return_code]
    /\ dispS' = [dispS EXCEPT ![n] = NoService]
    /\ dispAt' = [dispAt EXCEPT ![n] = "serving"]
    /\ UNCHANGED <<process, loopVars, spawnVars, sharedVars, uvVars, dispOk, svcAt,
                   scmVars, nreq, handled, mainRan>>

(***************************************************************************)
(* ServiceMain, on the thread the SCM's start made.  Start k of baton b.   *)
(***************************************************************************)
ServiceMainRegisters(b, k) ==
    /\ Up
    /\ svcAt[<<b, k>>] = "register"
    /\ b \in gBatons                       \* find_baton
    /\ registered' = [registered EXCEPT ![b] = TRUE]
    /\ argvOf' = [argvOf EXCEPT ![b] = k]
    /\ svcAt' = [svcAt EXCEPT ![<<b, k>>] = "send"]
    /\ UNCHANGED <<process, loopVars, spawnVars, batonVars, blockVars, svcEnd, uvVars,
                   dispVars, scm, historyVars>>

ServiceMainSends(b, k) ==
    /\ Up
    /\ svcAt[<<b, k>>] = "send"
    /\ mainSent' = [mainSent EXCEPT ![b] = TRUE]
    /\ svcAt' = [svcAt EXCEPT ![<<b, k>>] = "enter"]
    /\ UNCHANGED <<process, loopVars, spawnVars, sharedVars, ctlSent, endSent, endOpen,
                   closing, dispVars, scmVars, historyVars>>

\* It reads baton->svc_end_event to wait on it.  By now the baton may be freed:
\* the handle read is then garbage, on which the wait fails at once or lasts,
\* or the read faults.
ServiceMainEnters(b, k) ==
    /\ Up
    /\ svcAt[<<b, k>>] = "enter"
    /\ \/ /\ baton[b] = "live"
          /\ svcAt' = [svcAt EXCEPT ![<<b, k>>] = "wait"]
          /\ UNCHANGED process
       \/ /\ baton[b] = "freed"
          /\ \E at \in {"exited", "lost"} : svcAt' = [svcAt EXCEPT ![<<b, k>>] = at]
          /\ process' \in {"up", "faulted"}
    /\ UNCHANGED <<loopVars, spawnVars, sharedVars, uvVars, dispVars, scmVars,
                   historyVars>>

NoServiceWait(b) == TRUE                \* mutant: the wait is missing
ServiceEnded(b) == svcEnd[b]

ServiceMainReturns(b, k) ==
    /\ Up
    /\ svcAt[<<b, k>>] = "wait"
    /\ ServiceEnded(b)
    /\ svcAt' = [svcAt EXCEPT ![<<b, k>>] = "exited"]
    /\ UNCHANGED <<process, loopVars, spawnVars, sharedVars, uvVars, dispVars, scmVars,
                   historyVars>>

\* The event it waits on was closed: nothing says whether the wait ends.
ServiceMainLosesEvent(b, k) ==
    /\ Up
    /\ svcAt[<<b, k>>] = "wait"
    /\ baton[b] = "freed" /\ ~svcEnd[b]
    /\ svcAt' = [svcAt EXCEPT ![<<b, k>>] = "exited"]
    /\ UNCHANGED <<process, loopVars, spawnVars, sharedVars, uvVars, dispVars, scmVars,
                   historyVars>>

(***************************************************************************)
(* The loop thread: callbacks of the bridge, and the application in them.  *)
(***************************************************************************)
SetServiceStatus(b, state) == scm' = [scm EXCEPT ![b[2]] = state]

EnterCallback(at, b) == loopAt' = at /\ loopB' = b
LeaveCallback        == loopAt' = "idle" /\ loopB' = NoBaton

\* The main chunk is done, or the end callback returns: (back) in uv_run.
EntersLoop ==
    /\ InLua
    /\ LeaveCallback
    /\ UNCHANGED <<process, gRunning, timer, spawnVars, sharedVars, uvVars, threadVars,
                   historyVars>>

\* svcmain_cb hands the arguments to the service's main function.
svcmain_cb(b) ==
    /\ IdleLoop
    /\ mainSent[b] /\ baton[b] = "live"
    /\ mainSent' = [mainSent EXCEPT ![b] = FALSE]
    /\ mainRan' = [mainRan EXCEPT ![b] = IF @ < MaxStarts THEN @ + 1 ELSE @]
    /\ EnterCallback("svcmain", b)
    /\ UNCHANGED <<process, gRunning, timer, spawnVars, sharedVars, ctlSent, endSent,
                   endOpen, closing, threadVars, nreq, handled, answer>>

SvcMain ==
    /\ Up
    /\ loopAt = "svcmain"
    /\ SetServiceStatus(loopB, "START_PENDING")
    /\ loopAt' = "starting"
    /\ UNCHANGED <<process, loopB, gRunning, timer, spawnVars, sharedVars, uvVars,
                   dispVars, svcAt, registered, historyVars>>

\* SvcInit reports RUNNING and starts the timer; if initialization fails it
\* reports STOPPED and starts none.
SvcInit(ok) ==
    /\ Up
    /\ loopAt = "starting"
    /\ SetServiceStatus(loopB, IF ok THEN "RUNNING" ELSE "STOPPED")
    /\ timer' = [timer EXCEPT ![loopB] = ok]
    /\ LeaveCallback
    /\ UNCHANGED <<process, gRunning, spawnVars, sharedVars, uvVars, dispVars, svcAt,
                   registered, historyVars>>

\* svcmain_cb ignores what lua_pcall returns.
SvcMainThrows ==
    /\ Up
    /\ loopAt \in {"svcmain", "starting"}
    /\ LeaveCallback
    /\ UNCHANGED <<process, gRunning, timer, spawnVars, sharedVars, uvVars, threadVars,
                   historyVars>>

\* svchandler_cb calls the service's control handler ...
svchandler_cb(b) ==
    /\ IdleLoop
    /\ ctlSent[b] /\ baton[b] = "live"
    /\ ctlSent' = [ctlSent EXCEPT ![b] = FALSE]
    /\ EnterCallback("handler", b)
    /\ UNCHANGED <<process, gRunning, timer, spawnVars, sharedVars, mainSent, endSent,
                   endOpen, closing, threadVars, historyVars>>

ForgetCode(code) == UNCHANGED block     \* mutant: the code is not stored
StoreCode(code) == block' = [block EXCEPT ![loopB].return_code = code]

\* ... which returns a code that goes into the block ...
Settles(code) ==
    /\ StoreCode(code)
    /\ handled' = [handled EXCEPT ![block[loopB].req] = code]
    /\ loopAt' = "set"
    /\ UNCHANGED <<process, loopB, timer, spawnVars, batonVars, blockEnd, svcEnd,
                   argvOf, uvVars, dispVars, svcAt, registered, nreq, answer, mainRan>>

SignalNothing(s) == UNCHANGED gRunning  \* mutant: gRunning stays true
SignalStop(s) == gRunning' = [gRunning EXCEPT ![s] = FALSE]

\* SvcHandler: STOP clears gRunning after reporting STOP_PENDING.
SvcHandler ==
    /\ Up
    /\ loopAt = "handler"
    /\ IF block[loopB].dwControl = "STOP"
       THEN /\ SetServiceStatus(loopB, "STOP_PENDING")
            /\ SignalStop(loopB[2])
       ELSE UNCHANGED <<scm, gRunning>>
    /\ Settles(IF block[loopB].dwControl = "OTHER" THEN ERROR_CALL_NOT_IMPLEMENTED
               ELSE NO_ERROR)

NoThrowCode == NotYet                   \* mutant: the error branch has no code
ThrowCode == ERROR

\* A handler that throws is answered with ERROR.
SvcHandlerThrows ==
    /\ Up
    /\ loopAt = "handler"
    /\ Settles(ThrowCode)
    /\ UNCHANGED <<scm, gRunning>>

\* A handler whose result is no integer: luaL_checkinteger raises outside the
\* lua_pcall, the error unwinds uv_run and ends the process.
SvcHandlerBadReturn ==
    /\ Up
    /\ loopAt = "handler"
    /\ process' = "aborted"
    /\ UNCHANGED <<loopVars, spawnVars, sharedVars, uvVars, threadVars, historyVars>>

LeaveBlockEnd(b) == UNCHANGED blockEnd  \* mutant: SetEvent is missing
SetBlockEnd(b) == blockEnd' = [blockEnd EXCEPT ![b] = TRUE]

\* ... and HandlerEx is woken.
SetsBlockEnd ==
    /\ Up
    /\ loopAt = "set"
    /\ SetBlockEnd(loopB)
    /\ LeaveCallback
    /\ UNCHANGED <<process, gRunning, timer, spawnVars, batonVars, block, svcEnd,
                   argvOf, uvVars, threadVars, historyVars>>

ToldToStop(s) == ~gRunning[s]

\* The sample's timer, once gRunning is cleared: it reports STOPPED ...
TimerStops(b) ==
    /\ IdleLoop
    /\ timer[b] /\ ToldToStop(b[2])
    /\ timer' = [timer EXCEPT ![b] = FALSE]
    /\ SetServiceStatus(b, "STOPPED")
    /\ EnterCallback("ending", b)
    /\ UNCHANGED <<process, gRunning, spawnVars, sharedVars, uvVars, dispVars, svcAt,
                   registered, historyVars>>

\* ... and ends the service.
EndService ==
    /\ Up
    /\ loopAt = "ending"
    /\ svcEnd' = [svcEnd EXCEPT ![loopB] = baton[loopB] = "live" \/ @]
    /\ LeaveCallback
    /\ UNCHANGED <<process, gRunning, timer, spawnVars, batonVars, blockVars, argvOf,
                   uvVars, threadVars, historyVars>>

KeepEnd(n) == UNCHANGED endOpen         \* mutant: uv_close is missing
CloseEnd(n) == endOpen' = [endOpen EXCEPT ![n] = FALSE]

KeepList == UNCHANGED gBatons           \* mutant: gBatons = NULL is missing
ClearList == gBatons' = {}

\* svcdispatcher_end_cb: destroy every baton of the list, close the end handle,
\* clear the list, and only then call into Lua.  A message to a handle that is
\* closed is dropped.
svcdispatcher_end_cb(n) ==
    /\ IdleLoop
    /\ endSent[n]
    /\ endSent' = [endSent EXCEPT ![n] = FALSE]
    /\ CloseEnd(n)
    /\ baton' = [b \in Batons |-> IF b \in gBatons THEN "freed" ELSE baton[b]]
    /\ ctlSent' = [b \in Batons |-> ctlSent[b] /\ b \notin gBatons]
    /\ mainSent' = [b \in Batons |-> mainSent[b] /\ b \notin gBatons]
    /\ ClearList
    /\ closing' = TRUE
    /\ EnterCallback("endcb", NoBaton)
    /\ UNCHANGED <<process, gRunning, timer, spawnVars, blockVars, svcEnd, argvOf,
                   threadVars, historyVars>>

\* libuv finishes closing the handles, which LocalFree has freed by now.
ClosesHandles ==
    /\ IdleLoop
    /\ closing
    /\ closing' = FALSE
    /\ process' \in {"up", "faulted"}
    /\ UNCHANGED <<loopVars, spawnVars, sharedVars, ctlSent, mainSent, endSent, endOpen,
                   threadVars, historyVars>>

NoOpenHandles ==
    /\ \A b \in Batons : baton[b] # "live" /\ ~timer[b]
    /\ \A n \in Spawns : ~endOpen[n]

\* uv_run returns when no handle is open, and with it main: every thread ends.
Exits ==
    /\ IdleLoop
    /\ ~closing
    /\ NoOpenHandles
    /\ process' = "finished"
    /\ UNCHANGED <<loopVars, spawnVars, sharedVars, uvVars, threadVars, historyVars>>

LuaCalls == SpawnRefused \/ SpawnBadTable \/ SpawnNoThread \/ SpawnStarts \/ LuaError

LoopThread ==
    \/ EntersLoop \/ SvcMain \/ SvcHandler \/ SvcHandlerThrows
    \/ SvcHandlerBadReturn \/ SetsBlockEnd \/ EndService \/ ClosesHandles \/ Exits
    \/ SvcMainThrows
    \/ \E ok \in BOOLEAN : SvcInit(ok)
    \/ \E b \in Batons : svcmain_cb(b) \/ svchandler_cb(b) \/ TimerStops(b)
    \/ \E n \in Spawns : svcdispatcher_end_cb(n)

HandlerEx(n) ==
    HandlerExResets(n) \/ HandlerExSends(n) \/ HandlerExWakes(n) \/ HandlerExReturns(n)

DispatcherThread(n) ==
    Connects(n) \/ DispatcherReturns(n) \/ SendsEnd(n) \/ HandlerEx(n)

Scm ==
    \E n \in Spawns, s \in Services :
        \/ \E k \in Starts : ScmStarts(n, s, k)
        \/ \E c \in Controls : HandlerExStores(n, s, c)

ServiceMain(b, k) ==
    \/ ServiceMainRegisters(b, k) \/ ServiceMainSends(b, k)
    \/ ServiceMainEnters(b, k) \/ ServiceMainReturns(b, k)

Next ==
    \/ LuaCalls
    \/ LoopThread
    \/ \E n \in Spawns : DispatcherThread(n)
    \/ \E b \in Batons, k \in Starts : ServiceMain(b, k) \/ ServiceMainLosesEvent(b, k)
    \/ Scm

Spec == Init /\ [][Next]_vars

(***************************************************************************)
(* Fairness: the loop thread runs what is due, each handle in its turn (a  *)
(* libuv iteration handles every pending message), and the other threads   *)
(* are scheduled.  Nothing makes the SCM send or the application spawn.    *)
(***************************************************************************)
LoopFairness ==
    /\ WF_vars(EntersLoop) /\ WF_vars(SetsBlockEnd) /\ WF_vars(EndService)
    /\ WF_vars(SvcMain \/ SvcMainThrows)
    /\ WF_vars((\E ok \in BOOLEAN : SvcInit(ok)) \/ SvcMainThrows)
    /\ WF_vars(SvcHandler \/ SvcHandlerThrows \/ SvcHandlerBadReturn)
    /\ WF_vars(ClosesHandles) /\ WF_vars(Exits)
    /\ \A b \in Batons :
        WF_vars(svcmain_cb(b)) /\ WF_vars(svchandler_cb(b)) /\ WF_vars(TimerStops(b))
    /\ \A n \in Spawns : WF_vars(svcdispatcher_end_cb(n))

ThreadFairness ==
    /\ \A n \in Spawns : WF_vars(DispatcherThread(n))
    /\ \A b \in Batons, k \in Starts : WF_vars(ServiceMain(b, k))

FairSpec == Spec /\ LoopFairness /\ ThreadFairness

(***************************************************************************)
(* Properties.                                                             *)
(***************************************************************************)
Running(n) == dispAt[n] \in {"connect", "serving", "returned"} \cup InHandlerEx

\* HandlerEx returns to the SCM the very code the Lua handler settled on for
\* that control: never a code left in the block by an earlier control, and
\* never before the handler has run (winsvc.c:81-112).
AnswersMatch ==
    \A r \in Requests : answer[r] # NotYet => answer[r] = handled[r]

\* Batons are only used while their memory is live: by HandlerEx all the way
\* through its wait, by ServiceMain until it has sent its message, by every
\* callback of the loop thread and by EndService (winsvc.c:149-181, 301-329).
BatonsLive ==
    /\ \A n \in Spawns :
        dispAt[n] \in InHandlerEx => <<n, dispS[n]>> \in gBatons
    /\ \A b \in Batons, k \in Starts :
        svcAt[<<b, k>>] \in {"register", "send"} => b \in gBatons
    /\ loopB # NoBaton => loopB \in gBatons
    /\ \A b \in gBatons : baton[b] = "live"

\* Two dispatcher threads never run at once, and while one runs gBatons holds
\* its service table: a second table would overwrite the list the first
\* one's threads search (winsvc.c:346-352).
OneDispatcher ==
    \A n \in Spawns : Running(n) =>
        /\ gBatons = {n} \X Services
        /\ \A m \in Spawns : Running(m) => m = n

\* When Lua is told that the dispatcher ended, the Lua side has handled every
\* control the SCM sent and has run the main function of every start; nothing
\* arrives for a dispatcher that is over (winsvc.c:301-324).
DrainedAtEnd ==
    [][\A n \in Spawns : svcdispatcher_end_cb(n) =>
        /\ \A r \in 1 .. nreq : handled[r] # NotYet
        /\ \A b \in Batons : Cardinality(Started(b)) = mainRan[b]]_vars

\* svcmain_cb walks lpszArgv, which belongs to the ServiceMain thread: in the
\* first start of a service the thread is still there while the message that
\* leads to svcmain_cb is pending (winsvc.c:114-129, 173-181).
ArgsAlive ==
    \A b \in Batons :
        mainSent[b] /\ Started(b) = {1} => svcAt[<<b, argvOf[b]>>] \in {"enter", "wait"}

\* main.lua never sets gRunning back, so it serves one start of a service.
FirstStart(s) ==
    \A t, u \in Spawns \X Starts :
        svcAt[<<<<t[1], s>>, t[2]>>] # "none" /\ svcAt[<<<<u[1], s>>, u[2]>>] # "none" => t = u

\* A dispatcher that returned is reported to Lua, and the batons are released
\* (winsvc.c:301-340).
EndReported ==
    \A n \in Spawns : dispAt[n] = "returned" ~> (loopAt = "endcb" \/ ~Up)

\* Once the dispatcher of spawn n is over, and no spawn up to it failed, no
\* handle of the bridge keeps the loop from ending: the process exits, unless
\* the application spawns again (winsvc.c:149-158, 313).
LoopDrains ==
    \A n \in Spawns :
        loopAt = "endcb" /\ spawns = n /\ (\A m \in 1 .. n : dispAt[m] = "gone")
            ~> (~Up \/ spawns > n)

\* A handled STOP leads to STOPPED, in the first start of a service in the
\* process (main.lua:66-71, 113-125).
StopsWhenTold ==
    \A s \in Services :
        scm[s] = "STOP_PENDING" /\ FirstStart(s) ~> (scm[s] = "STOPPED" \/ ~Up)

\* SpawnServiceCtrlDispatcher says "already running" only while a dispatcher
\* runs, its end is still to be handled, or an earlier call failed half way and
\* left its batons behind (winsvc.c:346-348, 355-420).
RefusedForReason ==
    [][SpawnRefused => \E n \in Spawns :
        Running(n) \/ endSent[n] \/ (n <= spawns /\ dispAt[n] = "none")]_vars
=============================================================================
