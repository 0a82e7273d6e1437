---------------------------- MODULE WinSvcProofs ----------------------------
(***************************************************************************)
(* Proofs about the service bridge, for every service table and every      *)
(* number of spawns, starts and controls.                                  *)
(***************************************************************************)
EXTENDS WinSvcControl, FiniteSetTheorems, TLAPS

\* The counters' bounds are numbers and NoBaton is no baton.
LEMMA Constants ==
    /\ MaxSpawns \in Nat /\ MaxStarts \in Nat /\ MaxControls \in Nat
    /\ NoBaton \notin Batons
BY BoundsAssumption DEF NoBaton, Batons, Spawns

\* mainRan counts up to its bound.
LEMMA Capped ==
    \A m \in 0 .. MaxStarts : (IF m < MaxStarts THEN m + 1 ELSE m) \in 0 .. MaxStarts
<1> TAKE m \in 0 .. MaxStarts
<1>. QED
    BY Constants

LEMMA StartsBounded == \A k \in Starts : k \in 0 .. MaxStarts
BY Constants DEF Starts

LEMMA NextRequest ==
    \A m \in 0 .. MaxControls : m < MaxControls => m + 1 \in 0 .. MaxControls /\ m + 1 \in Requests
BY Constants DEF Requests

\* Where the functions that steps write at one place are defined.
LEMMA Domains ==
    ASSUME TypeOK
    PROVE  /\ DOMAIN dispAt = Spawns /\ DOMAIN dispS = Spawns /\ DOMAIN endSent = Spawns
           /\ DOMAIN blockEnd = Batons /\ DOMAIN ctlSent = Batons
           /\ DOMAIN mainSent = Batons /\ DOMAIN mainRan = Batons
           /\ DOMAIN svcAt = Batons \X Starts /\ DOMAIN scm = Services
BY DEF TypeOK

LEMMA TypeInit == Init => TypeOK
<1> SUFFICES ASSUME Init PROVE TypeOK
    OBVIOUS
<1> USE Constants DEF Init
<1>1. block \in [Batons -> [req : 0 .. MaxControls, dwControl : Controls,
                            return_code : Codes]]
    <2>1. Zeroed \in [req : 0 .. MaxControls, dwControl : Controls, return_code : Codes]
        BY DEF Zeroed, Controls, Codes, NO_ERROR, ERROR
    <2>. QED
        BY <2>1
<1>2. /\ loopAt \in {"main", "idle", "endcb"} \cup InCallback
      /\ loopB \in Batons \cup {NoBaton}
      /\ loopAt \in InCallback <=> loopB \in Batons
    BY DEF InCallback
<1>3. \A n \in Spawns : dispAt[n] \in InHandlerEx => dispS[n] \in Services
    BY DEF InHandlerEx
<1>4. /\ handled \in [Requests -> Codes \cup {NotYet}]
      /\ answer \in [Requests -> Codes \cup {NotYet}]
    OBVIOUS
<1>5. /\ gRunning \in [Services -> BOOLEAN]
      /\ scm \in [Services -> {"STOPPED", "START_PENDING", "RUNNING", "STOP_PENDING"}]
    OBVIOUS
<1>6. /\ timer \in [Batons -> BOOLEAN] /\ baton \in [Batons -> {"none", "live", "freed"}]
      /\ blockEnd \in [Batons -> BOOLEAN] /\ svcEnd \in [Batons -> BOOLEAN]
      /\ argvOf \in [Batons -> 0 .. MaxStarts] /\ ctlSent \in [Batons -> BOOLEAN]
      /\ mainSent \in [Batons -> BOOLEAN] /\ registered \in [Batons -> BOOLEAN]
      /\ mainRan \in [Batons -> 0 .. MaxStarts]
    OBVIOUS
<1>7. /\ dispAt \in [Spawns -> {"none", "connect", "serving", "returned", "gone"}
                               \cup InHandlerEx]
      /\ dispS \in [Spawns -> Services \cup {NoService}]
      /\ dispOk \in [Spawns -> BOOLEAN]
      /\ endSent \in [Spawns -> BOOLEAN] /\ endOpen \in [Spawns -> BOOLEAN]
    OBVIOUS
<1>8. svcAt \in [Batons \X Starts ->
                   {"none", "register", "send", "enter", "wait", "lost", "exited"}]
    OBVIOUS
<1>9. /\ process \in {"up", "finished", "aborted", "faulted"}
      /\ spawns \in 0 .. MaxSpawns /\ nreq \in 0 .. MaxControls
      /\ spawnResult \in {"none", "true", "false", "error", "already running"}
      /\ gBatons \in SUBSET Batons
    OBVIOUS
<1>10. closing \in BOOLEAN
    OBVIOUS
<1> HIDE DEF Init
<1>. QED
    BY <1>1, <1>2, <1>3, <1>4, <1>5, <1>6, <1>7, <1>8, <1>9, <1>10 DEF TypeOK

\* SpawnServiceCtrlDispatcher keeps the types, whatever part of the table it took.
LEMMA SpawnType ==
    ASSUME TypeOK, NEW entries \in SUBSET Services, NEW result \in {"true", "false", "error"},
           Spawn(entries, result)
    PROVE  TypeOK'
<1> USE Constants
<1> DEFINE n == spawns + 1
<1>1. n \in Spawns /\ spawns' = n
    BY DEF Spawn, NotRunning
<1>2. dispAt' \in [Spawns -> {"none", "connect", "serving", "returned", "gone"} \cup InHandlerEx]
    BY <1>1 DEF Spawn, NotRunning, TypeOK
<1>3. \A m \in Spawns : dispAt'[m] \in InHandlerEx => dispS'[m] \in Services
    BY <1>1 DEF Spawn, NotRunning, TypeOK, InHandlerEx
<1>4. gBatons' \in SUBSET Batons /\ baton' \in [Batons -> {"none", "live", "freed"}]
    BY <1>1 DEF Spawn, NotRunning, CreateBatons, TypeOK, Batons
<1>5. spawns' \in 0 .. MaxSpawns /\ endOpen' \in [Spawns -> BOOLEAN]
    <2>1. spawns' \in 0 .. MaxSpawns
        BY <1>1 DEF Spawns
    <2>2. endOpen' \in [Spawns -> BOOLEAN]
        BY <1>1 DEF Spawn, NotRunning, TypeOK
    <2>. QED
        BY <2>1, <2>2
<1>6. spawnResult' \in {"none", "true", "false", "error", "already running"}
    BY DEF Spawn, NotRunning
<1>7. UNCHANGED <<process, loopVars, blockVars, svcEnd, argvOf, ctlSent, mainSent,
                  endSent, closing, dispS, dispOk, svcAt, scmVars, historyVars>>
    BY DEF Spawn, NotRunning
<1>8. (loopAt \in InCallback <=> loopB \in Batons)' /\ (closing \in BOOLEAN)'
    BY <1>7 DEF TypeOK, loopVars
<1>. QED
    BY <1>2, <1>3, <1>4, <1>5, <1>6, <1>7, <1>8
    DEF TypeOK, loopVars, blockVars, scmVars, historyVars

LEMMA SpawnsType == TypeOK /\ LuaCalls => TypeOK'
<1> SUFFICES ASSUME TypeOK, LuaCalls PROVE TypeOK'
    OBVIOUS
<1>1. CASE SpawnRefused
    BY <1>1 DEF SpawnRefused, NotRunning, TypeOK, vars, loopVars, spawnVars, batonVars,
        blockVars, sharedVars,
        uvVars, dispVars, threadVars, scmVars, historyVars
<1>2. CASE SpawnBadTable
    BY <1>2, SpawnType DEF SpawnBadTable
<1>3. CASE SpawnNoThread
    BY <1>3, SpawnType DEF SpawnNoThread
<1>4. CASE SpawnStarts
    BY <1>4, SpawnType DEF SpawnStarts
<1>5. CASE LuaError
    BY <1>5 DEF LuaError, TypeOK, vars, loopVars, spawnVars, batonVars, blockVars, sharedVars,
        uvVars, dispVars, threadVars, scmVars, historyVars
<1>. QED
    BY <1>1, <1>2, <1>3, <1>4, <1>5 DEF LuaCalls

\* What svchandler_cb stores is a code.
LEMMA SettlesType ==
    ASSUME TypeOK, NEW code \in Codes, Up, loopAt = "handler", Settles(code), UNCHANGED process,
           gRunning' \in [Services -> BOOLEAN],
           scm' \in [Services -> {"STOPPED", "START_PENDING", "RUNNING", "STOP_PENDING"}]
    PROVE  TypeOK'
<1>1. loopB \in Batons
    BY DEF TypeOK, InCallback
<1>2. block' \in [Batons -> [req : 0 .. MaxControls, dwControl : Controls,
                             return_code : Codes]]
    <2>1. block[loopB] \in [req : 0 .. MaxControls, dwControl : Controls, return_code : Codes]
        BY <1>1 DEF TypeOK
    <2>2. [block[loopB] EXCEPT !.return_code = code]
            \in [req : 0 .. MaxControls, dwControl : Controls, return_code : Codes]
        BY <2>1
    <2>. QED
        BY <1>1, <2>2 DEF Settles, StoreCode, TypeOK
<1>3. handled' \in [Requests -> Codes \cup {NotYet}]
    BY DEF Settles, StoreCode, TypeOK
<1>4. /\ loopAt' \in {"main", "idle", "endcb"} \cup InCallback
      /\ loopB' \in Batons \cup {NoBaton}
      /\ (loopAt \in InCallback <=> loopB \in Batons)'
    BY <1>1 DEF Settles, StoreCode, InCallback
<1>. QED
    BY <1>2, <1>3, <1>4 DEF TypeOK, Settles, StoreCode, spawnVars, batonVars, sharedVars,
        uvVars, dispVars, threadVars

LEMMA LoopThreadType == TypeOK /\ LoopThread => TypeOK'
<1> SUFFICES ASSUME TypeOK, LoopThread PROVE TypeOK'
    OBVIOUS
<1> USE Constants DEF TypeOK, InCallback, loopVars, spawnVars, batonVars, blockVars,
    sharedVars,
        uvVars, dispVars, threadVars, scmVars, historyVars, IdleLoop, Up, InLua, EnterCallback,
        LeaveCallback, SetServiceStatus
<1>1. CASE EntersLoop
    BY <1>1 DEF EntersLoop
<1>2. CASE SvcMain
    BY <1>2 DEF SvcMain
<1>3. CASE SetsBlockEnd
    BY <1>3 DEF SetsBlockEnd, SetBlockEnd
<1>4. CASE EndService
    BY <1>4 DEF EndService
<1>5. CASE ClosesHandles
    BY <1>5 DEF ClosesHandles
<1>6. CASE Exits
    BY <1>6 DEF Exits
<1>7. CASE SvcMainThrows
    BY <1>7 DEF SvcMainThrows
<1>8. CASE SvcHandler
    <2>1. loopB \in Batons
        BY <1>8 DEF SvcHandler, SignalStop
    <2>2. /\ gRunning' \in [Services -> BOOLEAN]
          /\ scm' \in [Services -> {"STOPPED", "START_PENDING", "RUNNING", "STOP_PENDING"}]
        BY <1>8, <2>1, ZenonT(60) DEF SvcHandler, SignalStop, Batons
    <2>3. \E code \in Codes : Settles(code)
        BY <1>8 DEF SvcHandler, SignalStop, Codes
    <2>. QED
        BY <1>8, <2>2, <2>3, SettlesType DEF SvcHandler, SignalStop, Settles, StoreCode
<1>9. CASE SvcHandlerThrows
    <2>1. ERROR \in Codes
        BY DEF Codes
    <2>. QED
        BY <1>9, <2>1, SettlesType DEF SvcHandlerThrows, ThrowCode, Settles, StoreCode
<1>10. CASE SvcHandlerBadReturn
    BY <1>10 DEF SvcHandlerBadReturn
<1>11. ASSUME NEW ok \in BOOLEAN, SvcInit(ok) PROVE TypeOK'
    <2>1. CASE ok = TRUE
        BY <1>11, <2>1 DEF SvcInit
    <2>2. CASE ok = FALSE
        BY <1>11, <2>2 DEF SvcInit
    <2>. QED
        BY <2>1, <2>2
<1>12. ASSUME NEW b \in Batons, svcmain_cb(b) PROVE TypeOK'
    <2>1. mainRan' \in [Batons -> 0 .. MaxStarts]
        <3>1. mainRan \in [Batons -> 0 .. MaxStarts]
            OBVIOUS
        <3>2. mainRan' = [mainRan EXCEPT ![b] = IF @ < MaxStarts THEN @ + 1 ELSE @]
            BY <1>12 DEF svcmain_cb
        <3> HIDE DEF TypeOK
        <3>. QED
            BY <1>12, <3>1, <3>2, Capped
    <2>2. mainSent' \in [Batons -> BOOLEAN]
        BY <1>12 DEF svcmain_cb
    <2>3. loopAt' = "svcmain" /\ loopB' = b
        BY <1>12 DEF svcmain_cb
    <2>4. UNCHANGED <<process, gRunning, timer, spawnVars, batonVars, blockVars,
                      svcEnd, argvOf, ctlSent, endSent, endOpen, closing, dispVars,
                      svcAt, scmVars, nreq, handled, answer>>
        BY <1>12 DEF svcmain_cb
    <2>5. (loopAt \in InCallback <=> loopB \in Batons)' /\ (closing \in BOOLEAN)'
        BY <1>12, <2>3, <2>4
    <2>. QED
        BY <1>12, <2>1, <2>2, <2>3, <2>4, <2>5
<1>13. ASSUME NEW b \in Batons, svchandler_cb(b) PROVE TypeOK'
    BY <1>13 DEF svchandler_cb
<1>14. ASSUME NEW b \in Batons, TimerStops(b) PROVE TypeOK'
    BY <1>14 DEF TimerStops, ToldToStop
<1>15. ASSUME NEW n \in Spawns, svcdispatcher_end_cb(n) PROVE TypeOK'
    BY <1>15 DEF svcdispatcher_end_cb, CloseEnd, ClearList
<1>. QED
    BY <1>1, <1>2, <1>3, <1>4, <1>5, <1>6, <1>7, <1>8, <1>9, <1>10, <1>11, <1>12, <1>13,
        <1>14, <1>15 DEF LoopThread

\* The dispatcher thread keeps the types.
LEMMA DispatcherThreadType ==
    ASSUME TypeOK, NEW n \in Spawns, DispatcherThread(n)
    PROVE  TypeOK'
<1> USE Constants DEF TypeOK, InHandlerEx, loopVars, spawnVars, batonVars, blockVars,
    sharedVars,
        uvVars, dispVars, threadVars, scmVars, historyVars, Up
<1>1. CASE Connects(n)
    BY <1>1, ZenonT(60) DEF Connects
<1>2. CASE DispatcherReturns(n)
    BY <1>2, ZenonT(60) DEF DispatcherReturns
<1>3. CASE SendsEnd(n)
    BY <1>3, ZenonT(60) DEF SendsEnd, SendEnd
<1>4. CASE HandlerExResets(n)
    BY <1>4, ZenonT(60) DEF HandlerExResets, ResetBlockEnd
<1>5. CASE HandlerExSends(n)
    BY <1>5, ZenonT(60) DEF HandlerExSends
<1>6. CASE HandlerExWakes(n)
    BY <1>6, ZenonT(60) DEF HandlerExWakes, BlockEnded
<1>7. CASE HandlerExReturns(n)
    <2>1. <<n, dispS[n]>> \in Batons
        BY <1>7 DEF HandlerExReturns, Batons
    <2>2. block[<<n, dispS[n]>>].return_code \in Codes
        BY <2>1
    <2>3. answer' \in [Requests -> Codes \cup {NotYet}]
        BY <1>7, <2>2 DEF HandlerExReturns
    <2>. QED
        BY <1>7, <2>3, ZenonT(60) DEF HandlerExReturns
<1>. QED
    BY <1>1, <1>2, <1>3, <1>4, <1>5, <1>6, <1>7 DEF DispatcherThread, HandlerEx

\* So do the ServiceMain threads ...
LEMMA ServiceMainType ==
    ASSUME TypeOK, NEW b \in Batons, NEW k \in Starts,
           ServiceMain(b, k) \/ ServiceMainLosesEvent(b, k)
    PROVE  TypeOK'
<1> USE Constants DEF Starts, TypeOK, InHandlerEx, loopVars, spawnVars, batonVars,
    blockVars, sharedVars,
        uvVars, dispVars, threadVars, scmVars, historyVars, Up
<1>1. CASE ServiceMainRegisters(b, k)
    <2>1. k \in 0 .. MaxStarts
        BY StartsBounded
    <2>2. argvOf' \in [Batons -> 0 .. MaxStarts]
        BY <1>1, <2>1 DEF ServiceMainRegisters
    <2>. QED
        BY <1>1, <2>2 DEF ServiceMainRegisters
<1>2. CASE ServiceMainSends(b, k)
    BY <1>2 DEF ServiceMainSends
<1>3. CASE ServiceMainEnters(b, k)
    <2>1. CASE baton[b] = "live" /\ svcAt' = [svcAt EXCEPT ![<<b, k>>] = "wait"]
                 /\ UNCHANGED process
        BY <1>3, <2>1 DEF ServiceMainEnters
    <2>2. ASSUME NEW at \in {"exited", "lost"}, svcAt' = [svcAt EXCEPT ![<<b, k>>] = at],
                 process' \in {"up", "faulted"}
          PROVE  TypeOK'
        BY <1>3, <2>2, ZenonT(60) DEF ServiceMainEnters
    <2>. QED
        BY <1>3, <2>1, <2>2 DEF ServiceMainEnters
<1>4. CASE ServiceMainReturns(b, k)
    BY <1>4 DEF ServiceMainReturns, ServiceEnded
<1>5. CASE ServiceMainLosesEvent(b, k)
    BY <1>5 DEF ServiceMainLosesEvent
<1>. QED
    BY <1>1, <1>2, <1>3, <1>4, <1>5 DEF ServiceMain

\* ... and the SCM's calls.
LEMMA ScmType ==
    ASSUME TypeOK, Scm
    PROVE  TypeOK'
<1> USE Constants DEF Batons, TypeOK, InHandlerEx, loopVars, spawnVars, batonVars,
    blockVars, sharedVars,
        uvVars, dispVars, threadVars, scmVars, historyVars, Up
<1>1. ASSUME NEW n \in Spawns, NEW s \in Services, NEW k \in Starts, ScmStarts(n, s, k) PROVE TypeOK'
    BY <1>1 DEF ScmStarts
<1>2. ASSUME NEW n \in Spawns, NEW s \in Services, NEW c \in Controls, HandlerExStores(n, s, c) PROVE TypeOK'
    <2>1. <<n, s>> \in Batons
        OBVIOUS
    <2>2. nreq < MaxControls /\ nreq' = nreq + 1
        BY <1>2 DEF HandlerExStores
    <2>3. nreq + 1 \in 0 .. MaxControls
        BY <2>2, NextRequest
    <2>4. block' \in [Batons -> [req : 0 .. MaxControls, dwControl : Controls,
                                 return_code : Codes]]
        <3> DEFINE Block == [req : 0 .. MaxControls, dwControl : Controls, return_code : Codes]
        <3>1. block[<<n, s>>] \in Block
            BY <2>1
        <3>2. [block[<<n, s>>] EXCEPT !.req = nreq + 1, !.dwControl = c] \in Block
            BY <1>2, <2>3, <3>1
        <3>3. block' = [block EXCEPT ![<<n, s>>] =
                            [block[<<n, s>>] EXCEPT !.req = nreq + 1, !.dwControl = c]]
            BY <1>2, <2>1 DEF HandlerExStores
        <3>4. block \in [Batons -> Block]
            OBVIOUS
        <3> HIDE DEF Block, TypeOK
        <3>. QED
            BY <3>2, <3>3, <3>4 DEF Block
    <2>5. /\ dispAt' \in [Spawns -> {"none", "connect", "serving", "returned", "gone"}
                                    \cup InHandlerEx]
          /\ dispS' \in [Spawns -> Services \cup {NoService}]
          /\ \A m \in Spawns : dispAt'[m] \in InHandlerEx => dispS'[m] \in Services
        BY <1>2, ZenonT(60) DEF HandlerExStores
    <2>. QED
        BY <1>2, <2>2, <2>3, <2>4, <2>5, ZenonT(60) DEF HandlerExStores
<1>. QED
    BY <1>1, <1>2 DEF Scm

LEMMA TypeStep == TypeOK /\ [Next]_vars => TypeOK'
<1> SUFFICES ASSUME TypeOK, [Next]_vars PROVE TypeOK'
    OBVIOUS
<1>1. CASE LuaCalls
    BY <1>1, SpawnsType
<1>2. CASE LoopThread
    BY <1>2, LoopThreadType
<1>3. ASSUME NEW n \in Spawns, DispatcherThread(n) PROVE TypeOK'
    BY <1>3, DispatcherThreadType
<1>4. ASSUME NEW b \in Batons, NEW k \in Starts,
             ServiceMain(b, k) \/ ServiceMainLosesEvent(b, k)
      PROVE  TypeOK'
    BY <1>4, ServiceMainType
<1>5. CASE Scm
    BY <1>5, ScmType
<1>6. CASE UNCHANGED vars
    BY <1>6, ZenonT(60) DEF TypeOK, vars, loopVars, spawnVars, batonVars, sharedVars, blockVars, uvVars,
        dispVars, threadVars, scmVars, historyVars
<1>. QED
    BY <1>1, <1>2, <1>3, <1>4, <1>5, <1>6 DEF Next

\* Every reachable state is well typed: no callback runs without a baton, no
\* HandlerEx without a service, and no counter leaves its bounds.
THEOREM TypeCorrect == Spec => []TypeOK
<1>1. Init => TypeOK
    BY TypeInit
<1>2. TypeOK /\ [Next]_vars => TypeOK'
    BY TypeStep
<1>. QED
    BY <1>1, <1>2, PTL DEF Spec

(***************************************************************************)
(* The passage of a control.  Most steps leave it alone: they change no    *)
(* variable of it, and move no dispatcher into or out of HandlerEx.        *)
(***************************************************************************)
ProtocolInv == PassingInv /\ SettledInv /\ HistoryInv

SameDispatchers ==
    /\ UNCHANGED <<spawns, gBatons, baton>>
    /\ \A n \in Spawns : endSent'[n] = endSent[n]
    /\ \A n \in Spawns : Running(n)' <=> Running(n)
    /\ \A n \in Spawns : dispAt'[n] = "none" <=> dispAt[n] = "none"

SamePassage ==
    /\ UNCHANGED <<block, blockEnd, nreq, handled, answer, dispS>>
    /\ \A b \in Batons : ctlSent'[b] <=> ctlSent[b]
    /\ \A n \in Spawns : dispAt[n] \in InHandlerEx \/ dispAt'[n] \in InHandlerEx
                            => dispAt'[n] = dispAt[n]
    /\ \A b \in Batons : Handling(b) \/ Handling(b)' => loopB' = loopB /\ loopAt' = loopAt

LEMMA DispatchersKept ==
    ASSUME TypeOK, TypeOK', DispatcherInv, SameDispatchers
    PROVE  DispatcherInv'
<1>1. /\ dispAt \in [Spawns -> {"none", "connect", "serving", "returned", "gone"}
                               \cup InHandlerEx]
      /\ dispAt' \in [Spawns -> {"none", "connect", "serving", "returned", "gone"}
                                \cup InHandlerEx]
    BY DEF TypeOK
<1>2. \A n \in Spawns : dispAt'[n] = "gone" <=> dispAt[n] = "gone"
    BY <1>1 DEF SameDispatchers, Running, InHandlerEx
<1>. QED
    BY <1>2 DEF DispatcherInv, SameDispatchers

LEMMA PassageKept ==
    ASSUME TypeOK, ProtocolInv, SamePassage
    PROVE  ProtocolInv'
<1>1. \A b \in Batons : UnderControl(b)' <=> UnderControl(b)
    BY DEF SamePassage, UnderControl, Batons
<1>2. \A b \in Batons : Handling(b)' <=> Handling(b)
    BY DEF SamePassage, Handling
<1>3. \A b \in Batons : UnderControl(b) => dispAt'[b[1]] = dispAt[b[1]]
    BY DEF SamePassage, UnderControl, Batons
<1>4. \A b \in Batons : Handling(b) => loopAt' = loopAt
    BY DEF SamePassage
<1>5. (\E n \in Spawns : dispAt[n] \in InHandlerEx)
        => \E n \in Spawns : dispAt'[n] \in InHandlerEx
    BY DEF SamePassage
<1>6. UNCHANGED <<block, blockEnd, nreq, handled, answer>>
        /\ \A b \in Batons : ctlSent'[b] <=> ctlSent[b]
    BY DEF SamePassage
<1>7. PassingInv'
    BY <1>1, <1>2, <1>3, <1>6 DEF ProtocolInv, PassingInv
<1>8. SettledInv'
    BY <1>1, <1>2, <1>3, <1>4, <1>6 DEF ProtocolInv, SettledInv
<1>9. HistoryInv'
    BY <1>5, <1>6 DEF ProtocolInv, HistoryInv
<1>. QED
    BY <1>7, <1>8, <1>9 DEF ProtocolInv

\* At most one baton is under control at a time.
LEMMA OneUnderControl ==
    ASSUME TypeOK, DispatcherInv,
           NEW b \in Batons, NEW c \in Batons, UnderControl(b), UnderControl(c)
    PROVE  b = c
<1>1. b[1] = spawns /\ c[1] = spawns
    BY DEF UnderControl, DispatcherInv, Running, Batons
<1>. QED
    BY <1>1 DEF UnderControl, Batons

LEMMA ControlInit == Init => ControlInv
<1> SUFFICES ASSUME Init PROVE ControlInv
    OBVIOUS
<1> USE Constants DEF Init, Running, InHandlerEx, UnderControl, Handling
<1>1. DispatcherInv
    BY DEF DispatcherInv
<1>2. PassingInv
    BY DEF PassingInv, Batons
<1>3. SettledInv
    BY DEF SettledInv, Batons
<1>4. HistoryInv
    BY DEF HistoryInv, Requests
<1>. QED
    BY <1>1, <1>2, <1>3, <1>4 DEF ControlInv

LEMMA BothKept ==
    ASSUME TypeOK, TypeOK', ControlInv, SameDispatchers, SamePassage
    PROVE  ControlInv'
BY DispatchersKept, PassageKept DEF ControlInv, ProtocolInv

\* A call of SpawnServiceCtrlDispatcher that passes its check finds no dispatcher.
LEMMA SpawnControl ==
    ASSUME TypeOK, TypeOK', ControlInv, NEW entries \in SUBSET Services,
           NEW result \in {"true", "false", "error"}, Spawn(entries, result),
           result = "true" => entries = Services /\ Services # {}
    PROVE  ControlInv'
<1> DEFINE m == spawns + 1
<1>1. m \in Spawns /\ spawns' = m /\ dispAt[m] = "none" /\ m > spawns
    <2>1. m \in Spawns /\ spawns' = m
        BY DEF Spawn, NotRunning
    <2>2. spawns \in 0 .. MaxSpawns
        BY DEF TypeOK
    <2>3. m > spawns
        BY <2>2, Constants
    <2>. QED
        BY <2>1, <2>3 DEF ControlInv, DispatcherInv
<1>2. \A n \in Spawns : ~Running(n) /\ ~endSent[n]
    BY DEF Spawn, NotRunning, ControlInv, DispatcherInv
<1>3. \A n \in Spawns : n # m => dispAt'[n] = dispAt[n]
    BY <1>1, ZenonT(60) DEF Spawn, NotRunning, TypeOK
<1>4. dispAt'[m] = IF result = "true" THEN "connect" ELSE "none"
    BY <1>1, ZenonT(60) DEF Spawn, NotRunning, TypeOK
<1>5. UNCHANGED <<endSent, block, blockEnd, nreq, handled, answer, dispS, ctlSent,
                  loopB, loopAt>>
    BY DEF Spawn, NotRunning, blockVars, historyVars, loopVars
<1>6. SamePassage
    BY <1>1, <1>3, <1>4, <1>5 DEF SamePassage, InHandlerEx
<1>7. DispatcherInv'
    <2>1. \A n \in Spawns : Running(n)' \/ endSent'[n] => n = m /\ result = "true"
        BY <1>2, <1>3, <1>4, <1>5 DEF Running, InHandlerEx
    <2>2. gBatons' = {m} \X entries /\ \A b \in gBatons' : baton'[b] = "live"
        BY <1>1 DEF Spawn, NotRunning, CreateBatons, Batons
    <2>3. result = "true" => gBatons' = {m} \X Services /\ gBatons' # {}
        <3> SUFFICES ASSUME result = "true"
                     PROVE  gBatons' = {m} \X Services /\ gBatons' # {}
            OBVIOUS
        <3>1. entries = Services /\ Services # {}
            OBVIOUS
        <3>2. PICK s \in Services : TRUE
            BY <3>1
        <3>3. <<m, s>> \in {m} \X Services
            BY <3>2
        <3>. QED
            BY <2>2, <3>1, <3>3
    <2>4. \A n \in Spawns : n > spawns' => dispAt'[n] = "none" /\ ~endSent'[n]
        <3> TAKE n \in Spawns
        <3> HAVE n > spawns'
        <3>1. n > spawns /\ n # m
            <4>1. spawns \in 0 .. MaxSpawns
                BY DEF TypeOK
            <4>. QED
                BY <1>1, <4>1, Constants DEF Spawns
        <3>. QED
            BY <1>2, <1>3, <1>5, <3>1 DEF ControlInv, DispatcherInv
    <2>5. \A n \in Spawns : ~endSent'[n]
        BY <1>2, <1>5
    <2>. QED
        BY <1>1, <2>1, <2>2, <2>3, <2>4, <2>5 DEF DispatcherInv
<1>. QED
    BY <1>6, <1>7, PassageKept DEF ControlInv, ProtocolInv

LEMMA LuaCallsControl ==
    ASSUME TypeOK, TypeOK', ControlInv, LuaCalls
    PROVE  ControlInv'
<1>1. CASE SpawnRefused
    <2>1. SameDispatchers /\ SamePassage
        BY <1>1 DEF SpawnRefused, NotRunning, SameDispatchers, SamePassage, Running,
            InHandlerEx, Handling,
            loopVars, spawnVars, batonVars, blockVars, sharedVars,
        uvVars, dispVars, threadVars, scmVars, historyVars
    <2>. QED
        BY <2>1, BothKept
<1>2. CASE SpawnBadTable
    BY <1>2, SpawnControl DEF SpawnBadTable
<1>3. CASE SpawnNoThread
    BY <1>3, SpawnControl DEF SpawnNoThread
<1>4. CASE SpawnStarts
    BY <1>4, SpawnControl DEF SpawnStarts
<1>5. CASE LuaError
    <2>1. SameDispatchers /\ SamePassage
        BY <1>5 DEF LuaError, SameDispatchers, SamePassage, Running, InHandlerEx, Handling,
            loopVars, spawnVars, batonVars, blockVars, sharedVars,
        uvVars, dispVars, threadVars, scmVars, historyVars
    <2>. QED
        BY <2>1, BothKept
<1>. QED
    BY <1>1, <1>2, <1>3, <1>4, <1>5 DEF LuaCalls

\* The ServiceMain threads and the SCM's starts have no part in it.
LEMMA ServiceMainControl ==
    ASSUME TypeOK, TypeOK', ControlInv, NEW b \in Batons, NEW k \in Starts,
           ServiceMain(b, k) \/ ServiceMainLosesEvent(b, k)
    PROVE  ControlInv'
<1>1. SameDispatchers /\ SamePassage
    BY DEF ServiceMain, ServiceMainRegisters, ServiceMainSends, ServiceMainEnters,
        ServiceMainReturns, ServiceEnded, ServiceMainLosesEvent, SameDispatchers, SamePassage, Running, InHandlerEx, Handling,
        loopVars, spawnVars, batonVars, blockVars, sharedVars,
        uvVars, dispVars, threadVars, scmVars, historyVars
<1>. QED
    BY <1>1, BothKept

LEMMA ScmStartsControl ==
    ASSUME TypeOK, TypeOK', ControlInv, NEW n \in Spawns, NEW s \in Services, NEW k \in Starts,
           ScmStarts(n, s, k)
    PROVE  ControlInv'
<1>1. SameDispatchers /\ SamePassage
    BY DEF ScmStarts, SameDispatchers, SamePassage, Running, InHandlerEx, Handling,
        loopVars, spawnVars, batonVars, blockVars, sharedVars,
        uvVars, dispVars, threadVars, scmVars, historyVars
<1>. QED
    BY <1>1, BothKept

\* So have the callbacks of a start, of the timer, and the ends of a callback.
LEMMA OtherCallbacksControl ==
    ASSUME TypeOK, TypeOK', ControlInv,
           \/ EntersLoop \/ SvcMain \/ SvcHandlerBadReturn \/ EndService
           \/ ClosesHandles \/ Exits \/ SvcMainThrows
           \/ \E ok \in BOOLEAN : SvcInit(ok)
           \/ \E b \in Batons : svcmain_cb(b) \/ TimerStops(b)
    PROVE  ControlInv'
<1>1. NoBaton \notin Batons
    BY Constants
<1>2. CASE EntersLoop
    <2>1. SameDispatchers /\ SamePassage
        BY <1>1, <1>2 DEF EntersLoop, InLua, IdleLoop, LeaveCallback, SameDispatchers,
            SamePassage, Running, InHandlerEx, Handling,
            loopVars, spawnVars, batonVars, sharedVars,
            blockVars, uvVars, dispVars, threadVars, scmVars, historyVars
    <2>. QED
        BY <2>1, BothKept
<1>3. CASE SvcMain
    <2>1. SameDispatchers /\ SamePassage
        BY <1>1, <1>3 DEF SvcMain, InLua, IdleLoop, LeaveCallback, SameDispatchers,
            SamePassage, Running, InHandlerEx, Handling,
            loopVars, spawnVars, batonVars, sharedVars,
            blockVars, uvVars, dispVars, threadVars, scmVars, historyVars
    <2>. QED
        BY <2>1, BothKept
<1>4. CASE SvcHandlerBadReturn
    <2>1. SameDispatchers /\ SamePassage
        BY <1>1, <1>4 DEF SvcHandlerBadReturn, InLua, IdleLoop, LeaveCallback,
            SameDispatchers, SamePassage, Running, InHandlerEx, Handling,
            loopVars, spawnVars, batonVars, sharedVars,
            blockVars, uvVars, dispVars, threadVars, scmVars, historyVars
    <2>. QED
        BY <2>1, BothKept
<1>5. CASE EndService
    <2>1. SameDispatchers /\ SamePassage
        BY <1>1, <1>5 DEF EndService, InLua, IdleLoop, LeaveCallback, SameDispatchers,
            SamePassage, Running, InHandlerEx, Handling,
            loopVars, spawnVars, batonVars, sharedVars,
            blockVars, uvVars, dispVars, threadVars, scmVars, historyVars
    <2>. QED
        BY <2>1, BothKept
<1>6. CASE ClosesHandles
    <2>1. SameDispatchers /\ SamePassage
        BY <1>1, <1>6 DEF ClosesHandles, InLua, IdleLoop, LeaveCallback, SameDispatchers,
            SamePassage, Running, InHandlerEx, Handling,
            loopVars, spawnVars, batonVars, sharedVars,
            blockVars, uvVars, dispVars, threadVars, scmVars, historyVars
    <2>. QED
        BY <2>1, BothKept
<1>7. CASE Exits
    <2>1. SameDispatchers /\ SamePassage
        BY <1>1, <1>7 DEF Exits, InLua, IdleLoop, LeaveCallback, SameDispatchers,
            SamePassage, Running, InHandlerEx, Handling,
            loopVars, spawnVars, batonVars, sharedVars,
            blockVars, uvVars, dispVars, threadVars, scmVars, historyVars
    <2>. QED
        BY <2>1, BothKept
<1>8. CASE SvcMainThrows
    <2>1. SameDispatchers /\ SamePassage
        BY <1>1, <1>8 DEF SvcMainThrows, InLua, IdleLoop, LeaveCallback, SameDispatchers,
            SamePassage, Running, InHandlerEx, Handling,
            loopVars, spawnVars, batonVars, sharedVars,
            blockVars, uvVars, dispVars, threadVars, scmVars, historyVars
    <2>. QED
        BY <2>1, BothKept
<1>9. ASSUME NEW ok \in BOOLEAN, SvcInit(ok) PROVE ControlInv'
    <2>1. SameDispatchers /\ SamePassage
        BY <1>1, <1>9 DEF SvcInit, IdleLoop, EnterCallback, LeaveCallback,
            SameDispatchers, SamePassage, Running, InHandlerEx, Handling,
            loopVars, spawnVars, batonVars, sharedVars,
            blockVars, uvVars, dispVars, threadVars, scmVars, historyVars
    <2>. QED
        BY <2>1, BothKept
<1>10. ASSUME NEW b \in Batons, svcmain_cb(b) PROVE ControlInv'
    <2>1. SameDispatchers /\ SamePassage
        BY <1>1, <1>10 DEF svcmain_cb, IdleLoop, EnterCallback, LeaveCallback,
            SameDispatchers, SamePassage, Running, InHandlerEx, Handling,
            loopVars, spawnVars, batonVars, sharedVars,
            blockVars, uvVars, dispVars, threadVars, scmVars, historyVars
    <2>. QED
        BY <2>1, BothKept
<1>11. ASSUME NEW b \in Batons, TimerStops(b) PROVE ControlInv'
    <2>1. SameDispatchers /\ SamePassage
        BY <1>1, <1>11 DEF TimerStops, ToldToStop, IdleLoop, EnterCallback, LeaveCallback,
            SameDispatchers, SamePassage, Running, InHandlerEx, Handling,
            loopVars, spawnVars, batonVars, sharedVars,
            blockVars, uvVars, dispVars, threadVars, scmVars, historyVars
    <2>. QED
        BY <2>1, BothKept
<1>. QED
    BY <1>2, <1>3, <1>4, <1>5, <1>6, <1>7, <1>8, <1>9, <1>10, <1>11

\* A dispatcher that returns leaves no control under way, and the end callback
\* meets none.
LEMMA DispatcherEndsControl ==
    ASSUME TypeOK, TypeOK', ControlInv, NEW n \in Spawns,
           Connects(n) \/ DispatcherReturns(n) \/ SendsEnd(n) \/ svcdispatcher_end_cb(n)
    PROVE  ControlInv'
<1> DEFINE Moves(to) == dispAt'[n] \in to /\ \A m \in Spawns : m # n => dispAt'[m] = dispAt[m]
<1>1. CASE Connects(n) \/ DispatcherReturns(n)
    <2>1. dispAt[n] \in {"connect", "serving"} /\ Moves({"serving", "returned"})
        <3> dispAt \in [Spawns -> {"none", "connect", "serving", "returned", "gone"}
                                  \cup InHandlerEx]
            BY DEF TypeOK
        <3>1. CASE Connects(n)
            BY <3>1 DEF Connects
        <3>2. CASE DispatcherReturns(n)
            BY <3>2 DEF DispatcherReturns
        <3>. QED
            BY <1>1, <3>1, <3>2
    <2>2. UNCHANGED <<spawns, gBatons, baton, endSent, block, blockEnd, nreq, handled,
                      answer, dispS, ctlSent, loopB, loopAt>>
        BY <1>1 DEF Connects, DispatcherReturns, loopVars, spawnVars, batonVars, blockVars,
            sharedVars,
            uvVars, dispVars, threadVars, scmVars, historyVars
    <2>3. SameDispatchers
        BY <2>1, <2>2 DEF SameDispatchers, Running
    <2>4. SamePassage
        BY <2>1, <2>2 DEF SamePassage, InHandlerEx
    <2>. QED
        BY <2>3, <2>4, BothKept
<1>2. CASE SendsEnd(n)
    <2>1. dispAt[n] = "returned" /\ Moves({"gone"})
        BY <1>2, Domains DEF SendsEnd, SendEnd
    <2>2. UNCHANGED <<spawns, gBatons, baton, block, blockEnd, nreq, handled,
                      answer, dispS, ctlSent, loopB, loopAt>>
        BY <1>2 DEF SendsEnd, SendEnd, loopVars, spawnVars, batonVars, blockVars, sharedVars,
            uvVars, dispVars, threadVars, scmVars, historyVars
    <2>3. endSent'[n] /\ \A m \in Spawns : m # n => endSent'[m] = endSent[m]
        BY <1>2, Domains DEF SendsEnd, SendEnd
    <2>4. SamePassage
        BY <2>1, <2>2 DEF SamePassage, InHandlerEx
    <2>5. DispatcherInv'
        BY <2>1, <2>2, <2>3 DEF ControlInv, DispatcherInv, Running, InHandlerEx
    <2>. QED
        BY <2>4, <2>5, PassageKept DEF ControlInv, ProtocolInv
<1>3. CASE svcdispatcher_end_cb(n)
    <2>1. \A m \in Spawns : ~Running(m)
        BY <1>3 DEF svcdispatcher_end_cb, CloseEnd, ClearList, ControlInv, DispatcherInv,
            Running, InHandlerEx
    <2>2. \A b \in Batons : ~ctlSent[b] /\ ~Handling(b)
        BY <2>1 DEF ControlInv, PassingInv, UnderControl, Running, Batons
    <2>3. UNCHANGED <<spawns, block, blockEnd, nreq, handled, answer, dispS, dispAt>>
        BY <1>3 DEF svcdispatcher_end_cb, CloseEnd, ClearList, loopVars, spawnVars,
            batonVars, blockVars, sharedVars,
        uvVars, dispVars, threadVars, scmVars, historyVars
    <2>4. \A b \in Batons : ~ctlSent'[b] /\ ~Handling(b)'
        BY <1>3, <2>2, Constants DEF svcdispatcher_end_cb, CloseEnd, ClearList,
            EnterCallback, Handling
    <2>5. SamePassage
        BY <2>2, <2>3, <2>4 DEF SamePassage
    <2>6. \A m \in Spawns : ~endSent'[m]
        <3>1. endSent[n] /\ \A m \in Spawns : endSent[m] => m = n
            BY <1>3 DEF svcdispatcher_end_cb, CloseEnd, ClearList, ControlInv, DispatcherInv
        <3>2. ~endSent'[n] /\ \A m \in Spawns : m # n => endSent'[m] = endSent[m]
            BY <1>3, Domains DEF svcdispatcher_end_cb
        <3>. QED
            BY <3>1, <3>2
    <2>7. gBatons' = {}
        BY <1>3 DEF svcdispatcher_end_cb, CloseEnd, ClearList
    <2>8. DispatcherInv'
        BY <2>1, <2>3, <2>6, <2>7 DEF ControlInv, DispatcherInv, Running
    <2>. QED
        BY <2>5, <2>8, PassageKept DEF ControlInv, ProtocolInv
<1>. QED
    BY <1>1, <1>2, <1>3

\* HandlerEx begins: no other control is under way, and this one is new.
LEMMA HandlerExStoresControl ==
    ASSUME TypeOK, TypeOK', ControlInv, NEW n \in Spawns, NEW s \in Services, NEW c \in Controls,
           HandlerExStores(n, s, c)
    PROVE  ControlInv'
<1> DEFINE b == <<n, s>>
           r == nreq + 1
<1>1. b \in Batons
    BY DEF Batons
<1>2. nreq \in 0 .. MaxControls /\ nreq' = r /\ r \in Requests /\ r > nreq
    <2>1. nreq \in 0 .. MaxControls /\ nreq < MaxControls /\ nreq' = r
        BY DEF HandlerExStores, TypeOK
    <2>. QED
        BY <2>1, NextRequest
<1>3. /\ dispAt[n] = "serving" /\ dispAt'[n] = "reset" /\ dispS'[n] = s
      /\ \A m \in Spawns : m # n => dispAt'[m] = dispAt[m] /\ dispS'[m] = dispS[m]
    BY Domains DEF HandlerExStores
<1>4. block'[b].req = r
    <2>1. block[b] \in [req : 0 .. MaxControls, dwControl : Controls, return_code : Codes]
        BY <1>1 DEF TypeOK
    <2>2. block'[b] = [block[b] EXCEPT !.req = r, !.dwControl = c]
        BY <1>1, ZenonT(60) DEF HandlerExStores, TypeOK
    <2>. QED
        BY <2>1, <2>2
<1>5. UNCHANGED <<spawns, gBatons, baton, endSent, blockEnd, handled, answer, ctlSent,
                  loopB, loopAt>>
    BY DEF HandlerExStores, loopVars, spawnVars, batonVars, blockVars, sharedVars,
        uvVars, dispVars, threadVars, scmVars, historyVars
<1>6. \A m \in Spawns : dispAt[m] \notin InHandlerEx
    BY <1>3 DEF ControlInv, DispatcherInv, Running, InHandlerEx
<1>7. \A x \in Batons : ~UnderControl(x) /\ ~ctlSent[x] /\ ~Handling(x)
    BY <1>6 DEF ControlInv, PassingInv, UnderControl, Batons
<1>8. \A x \in Batons : UnderControl(x)' => x = b
    BY <1>3, <1>6 DEF UnderControl, Batons
<1>9. handled'[r] = NotYet /\ answer'[r] = NotYet
    BY <1>2, <1>5 DEF ControlInv, HistoryInv
<1>10. DispatcherInv'
    <2>1. SameDispatchers
        BY <1>3, <1>5 DEF SameDispatchers, Running, InHandlerEx
    <2>. QED
        BY <2>1, DispatchersKept DEF ControlInv
<1>11. PassingInv'
    <2>1. \A x \in Batons : ~ctlSent'[x] /\ ~Handling(x)'
        BY <1>5, <1>7 DEF Handling
    <2>2. nreq' > 0
        BY <1>2
    <2>. QED
        BY <1>2, <1>3, <1>4, <1>8, <1>9, <2>1, <2>2 DEF PassingInv
<1>12. SettledInv'
    <2>1. \A x \in Batons : ~ctlSent'[x] /\ ~Handling(x)'
        BY <1>5, <1>7 DEF Handling
    <2>. QED
        BY <1>2, <1>3, <1>8, <1>9, <2>1 DEF SettledInv
<1>13. HistoryInv'
    <2> SUFFICES ASSUME NEW q \in Requests
                 PROVE  /\ q > r => handled[q] = NotYet /\ answer[q] = NotYet
                        /\ q <= r /\ answer[q] = NotYet => q = r
                        /\ answer[q] # NotYet => answer[q] = handled[q]
        BY <1>2, <1>3, <1>5 DEF HistoryInv, InHandlerEx
    <2>1. q \in Int /\ nreq \in Int
        BY <1>2 DEF Requests
    <2>2. q <= nreq => answer[q] # NotYet
        BY <1>6 DEF ControlInv, HistoryInv
    <2>3. q > nreq => handled[q] = NotYet /\ answer[q] = NotYet
        BY DEF ControlInv, HistoryInv
    <2>4. answer[q] # NotYet => answer[q] = handled[q]
        BY DEF ControlInv, HistoryInv
    <2>5. q > r => q > nreq
        BY <2>1
    <2>6. q <= r /\ ~(q <= nreq) => q = r
        BY <2>1
    <2>. QED
        BY <2>2, <2>3, <2>4, <2>5, <2>6
<1>. QED
    BY <1>10, <1>11, <1>12, <1>13 DEF ControlInv

\* While HandlerEx resets, sends or waits, the same baton stays under control.
LEMMA StillUnderControl ==
    ASSUME TypeOK, DispatcherInv, NEW n \in Spawns, dispAt[n] \in InHandlerEx,
           UNCHANGED dispS, dispAt'[n] \in InHandlerEx,
           \A m \in Spawns : m # n => dispAt'[m] = dispAt[m]
    PROVE  /\ <<n, dispS[n]>> \in Batons
           /\ \A x \in Batons : UnderControl(x) <=> x = <<n, dispS[n]>>
           /\ \A x \in Batons : UnderControl(x)' <=> x = <<n, dispS[n]>>
<1> DEFINE b == <<n, dispS[n]>>
<1>1. b \in Batons /\ UnderControl(b)
    BY DEF TypeOK, Batons, UnderControl
<1>2. \A x \in Batons : UnderControl(x) => x = b
    BY <1>1, OneUnderControl
<1>3. UnderControl(b)'
    BY DEF UnderControl
<1>4. \A x \in Batons : UnderControl(x)' => UnderControl(x)
    BY DEF UnderControl, Batons
<1>. QED
    BY <1>1, <1>2, <1>3, <1>4

LEMMA HandlerExResetsControl ==
    ASSUME TypeOK, TypeOK', ControlInv, NEW n \in Spawns, HandlerExResets(n)
    PROVE  ControlInv'
<1> DEFINE b == <<n, dispS[n]>>
<1>1. /\ dispAt[n] = "reset" /\ dispAt'[n] = "send"
      /\ \A m \in Spawns : m # n => dispAt'[m] = dispAt[m]
    BY Domains DEF HandlerExResets
<1>2. UNCHANGED <<spawns, gBatons, baton, endSent, block, nreq, handled, answer, ctlSent,
                  loopB, loopAt, dispS>>
    BY DEF HandlerExResets, ResetBlockEnd, loopVars, spawnVars, batonVars, blockVars,
        sharedVars,
        uvVars, dispVars, threadVars, scmVars, historyVars
<1>3. /\ b \in Batons
      /\ \A x \in Batons : UnderControl(x) <=> x = b
      /\ \A x \in Batons : UnderControl(x)' <=> x = b
    BY <1>1, <1>2, StillUnderControl DEF ControlInv, InHandlerEx
<1>4. ~blockEnd'[b]
    BY <1>3, Domains DEF HandlerExResets, ResetBlockEnd
<1>5. \A x \in Batons : ~ctlSent[x] /\ ~Handling(x)
    BY <1>1, <1>3 DEF ControlInv, PassingInv
<1>6. \A x \in Batons : ~ctlSent'[x] /\ ~Handling(x)'
    BY <1>2, <1>5 DEF Handling
<1>7. DispatcherInv'
    <2>1. SameDispatchers
        BY <1>1, <1>2 DEF SameDispatchers, Running, InHandlerEx
    <2>. QED
        BY <2>1, DispatchersKept DEF ControlInv
<1>8. PassingInv'
    BY <1>1, <1>2, <1>3, <1>4, <1>6 DEF ControlInv, PassingInv
<1>9. SettledInv'
    BY <1>1, <1>2, <1>3, <1>6 DEF ControlInv, SettledInv
<1>10. HistoryInv'
    BY <1>1, <1>2 DEF ControlInv, HistoryInv, InHandlerEx
<1>. QED
    BY <1>7, <1>8, <1>9, <1>10 DEF ControlInv

LEMMA HandlerExSendsControl ==
    ASSUME TypeOK, TypeOK', ControlInv, NEW n \in Spawns, HandlerExSends(n)
    PROVE  ControlInv'
<1> DEFINE b == <<n, dispS[n]>>
<1>1. /\ dispAt[n] = "send" /\ dispAt'[n] = "wait"
      /\ \A m \in Spawns : m # n => dispAt'[m] = dispAt[m]
    BY Domains DEF HandlerExSends
<1>2. UNCHANGED <<spawns, gBatons, baton, endSent, block, blockEnd, nreq, handled, answer,
                  loopB, loopAt, dispS>>
    BY DEF HandlerExSends, loopVars, spawnVars, batonVars, blockVars, sharedVars,
        uvVars, dispVars, threadVars, scmVars, historyVars
<1>3. /\ b \in Batons
      /\ \A x \in Batons : UnderControl(x) <=> x = b
      /\ \A x \in Batons : UnderControl(x)' <=> x = b
    BY <1>1, <1>2, StillUnderControl DEF ControlInv, InHandlerEx
<1>4. ctlSent'[b] /\ \A x \in Batons : x # b => ctlSent'[x] = ctlSent[x]
    BY <1>3, Domains DEF HandlerExSends
<1>5. \A x \in Batons : ~ctlSent[x] /\ ~Handling(x)
    BY <1>1, <1>3 DEF ControlInv, PassingInv
<1>6. \A x \in Batons : (ctlSent'[x] <=> x = b) /\ ~Handling(x)'
    BY <1>2, <1>4, <1>5 DEF Handling
<1>7. ~blockEnd[b] /\ handled[nreq] = NotYet
    BY <1>1, <1>3 DEF ControlInv, PassingInv, SettledInv
<1>8. DispatcherInv'
    <2>1. SameDispatchers
        BY <1>1, <1>2 DEF SameDispatchers, Running, InHandlerEx
    <2>. QED
        BY <2>1, DispatchersKept DEF ControlInv
<1>9. PassingInv'
    BY <1>1, <1>2, <1>3, <1>6, <1>7 DEF ControlInv, PassingInv
<1>10. SettledInv'
    BY <1>1, <1>2, <1>3, <1>6, <1>7 DEF ControlInv, SettledInv
<1>11. HistoryInv'
    BY <1>1, <1>2 DEF ControlInv, HistoryInv, InHandlerEx
<1>. QED
    BY <1>8, <1>9, <1>10, <1>11 DEF ControlInv

LEMMA HandlerExWakesControl ==
    ASSUME TypeOK, TypeOK', ControlInv, NEW n \in Spawns, HandlerExWakes(n)
    PROVE  ControlInv'
<1> DEFINE b == <<n, dispS[n]>>
<1>1. /\ dispAt[n] = "wait" /\ dispAt'[n] = "read"
      /\ \A m \in Spawns : m # n => dispAt'[m] = dispAt[m]
    BY Domains DEF HandlerExWakes, BlockEnded
<1>2. UNCHANGED <<spawns, gBatons, baton, endSent, block, blockEnd, nreq, handled, answer,
                  ctlSent, loopB, loopAt, dispS>>
    BY DEF HandlerExWakes, BlockEnded, loopVars, spawnVars, batonVars, blockVars, sharedVars,
        uvVars, dispVars, threadVars, scmVars, historyVars
<1>3. /\ b \in Batons
      /\ \A x \in Batons : UnderControl(x) <=> x = b
      /\ \A x \in Batons : UnderControl(x)' <=> x = b
    BY <1>1, <1>2, StillUnderControl DEF ControlInv, InHandlerEx
<1>4. blockEnd[b]
    BY DEF HandlerExWakes, BlockEnded
<1>5. \A x \in Batons : ~ctlSent[x] /\ ~Handling(x)
    BY <1>3, <1>4 DEF ControlInv, PassingInv
<1>6. \A x \in Batons : ~ctlSent'[x] /\ ~Handling(x)'
    BY <1>2, <1>5 DEF Handling
<1>7. handled[nreq] = block[b].return_code
    BY <1>1, <1>3, <1>4 DEF ControlInv, SettledInv
<1>8. DispatcherInv'
    <2>1. SameDispatchers
        BY <1>1, <1>2 DEF SameDispatchers, Running, InHandlerEx
    <2>. QED
        BY <2>1, DispatchersKept DEF ControlInv
<1>9. PassingInv'
    BY <1>1, <1>2, <1>3, <1>6 DEF ControlInv, PassingInv
<1>10. SettledInv'
    BY <1>1, <1>2, <1>3, <1>6, <1>7 DEF SettledInv
<1>11. HistoryInv'
    BY <1>1, <1>2 DEF ControlInv, HistoryInv, InHandlerEx
<1>. QED
    BY <1>8, <1>9, <1>10, <1>11 DEF ControlInv

\* HandlerEx returns what was settled, and no control is under way.
LEMMA HandlerExReturnsControl ==
    ASSUME TypeOK, TypeOK', ControlInv, NEW n \in Spawns, HandlerExReturns(n)
    PROVE  ControlInv'
<1> DEFINE b == <<n, dispS[n]>>
<1>1. /\ dispAt[n] = "read" /\ dispAt'[n] = "serving"
      /\ \A m \in Spawns : m # n => dispAt'[m] = dispAt[m]
    BY Domains DEF HandlerExReturns
<1>2. UNCHANGED <<spawns, gBatons, baton, endSent, block, blockEnd, nreq, handled,
                  ctlSent, loopB, loopAt>>
    BY DEF HandlerExReturns, loopVars, spawnVars, batonVars, blockVars, sharedVars,
        uvVars, dispVars, threadVars, scmVars, historyVars
<1>3. b \in Batons /\ UnderControl(b)
    BY <1>1 DEF TypeOK, Batons, UnderControl, InHandlerEx
<1>4. \A x \in Batons : UnderControl(x) => x = b
    BY <1>3, OneUnderControl DEF ControlInv
<1>5. \A m \in Spawns : dispAt'[m] \notin InHandlerEx
    BY <1>1 DEF ControlInv, DispatcherInv, Running, InHandlerEx
<1>6. \A x \in Batons : ~UnderControl(x)'
    BY <1>5 DEF UnderControl, Batons
<1>7. \A x \in Batons : ~ctlSent[x] /\ ~Handling(x)
    BY <1>1, <1>4 DEF ControlInv, PassingInv
<1>8. \A x \in Batons : ~ctlSent'[x] /\ ~Handling(x)'
    BY <1>2, <1>7 DEF Handling
<1>9. block[b].req = nreq /\ nreq > 0 /\ handled[nreq] = block[b].return_code
    BY <1>1, <1>3 DEF ControlInv, PassingInv, SettledInv
<1>10. block[b].return_code \in Codes /\ nreq \in Requests
    <2>1. nreq \in 0 .. MaxControls /\ block[b].return_code \in Codes
        BY <1>3 DEF TypeOK
    <2>. QED
        BY <1>9, <2>1, Constants DEF Requests
<1>11. /\ answer'[nreq] = handled[nreq] /\ answer'[nreq] # NotYet
       /\ \A q \in Requests : q # nreq => answer'[q] = answer[q]
    <2>1. NotYet \notin Codes
        BY DEF Codes, NotYet, NO_ERROR, ERROR, ERROR_CALL_NOT_IMPLEMENTED
    <2>2. answer' = [answer EXCEPT ![nreq] = handled[nreq]]
        BY <1>9 DEF HandlerExReturns
    <2>3. answer \in [Requests -> Codes \cup {NotYet}]
        BY DEF TypeOK
    <2>. QED
        BY <1>9, <1>10, <2>1, <2>2, <2>3
<1>12. DispatcherInv'
    <2>1. SameDispatchers
        BY <1>1, <1>2 DEF SameDispatchers, Running, InHandlerEx
    <2>. QED
        BY <2>1, DispatchersKept DEF ControlInv
<1>13. PassingInv'
    BY <1>6, <1>8 DEF PassingInv
<1>14. SettledInv'
    BY <1>6 DEF SettledInv
<1>15. HistoryInv'
    <2> SUFFICES ASSUME NEW q \in Requests
                 PROVE  /\ q > nreq => handled[q] = NotYet /\ answer'[q] = NotYet
                        /\ q <= nreq => answer'[q] # NotYet
                        /\ answer'[q] # NotYet => answer'[q] = handled[q]
        BY <1>2 DEF HistoryInv
    <2>1. CASE q = nreq
        BY <1>10, <1>11, <2>1 DEF Requests
    <2>2. CASE q # nreq
        BY <1>11, <2>2 DEF ControlInv, HistoryInv
    <2>. QED
        BY <2>1, <2>2
<1>. QED
    BY <1>12, <1>13, <1>14, <1>15 DEF ControlInv

\* svchandler_cb takes the message over.
LEMMA svchandler_cbControl ==
    ASSUME TypeOK, TypeOK', ControlInv, NEW b \in Batons, svchandler_cb(b)
    PROVE  ControlInv'
<1>1. /\ ctlSent[b] /\ loopAt = "idle" /\ loopAt' = "handler" /\ loopB' = b
    BY DEF svchandler_cb, IdleLoop, EnterCallback
<1>2. ~ctlSent'[b] /\ \A x \in Batons : x # b => ctlSent'[x] = ctlSent[x]
    BY Domains DEF svchandler_cb
<1>3. UNCHANGED <<spawns, gBatons, baton, endSent, block, blockEnd, nreq, handled, answer,
                  dispAt, dispS>>
    BY DEF svchandler_cb, loopVars, spawnVars, batonVars, blockVars, sharedVars,
        uvVars, dispVars, threadVars, scmVars, historyVars
<1>4. UnderControl(b) /\ dispAt[b[1]] = "wait" /\ ~blockEnd[b]
    BY <1>1 DEF ControlInv, PassingInv
<1>5. \A x \in Batons : UnderControl(x) => x = b
    BY <1>4, OneUnderControl DEF ControlInv
<1>6. \A x \in Batons : UnderControl(x)' <=> UnderControl(x)
    BY <1>3 DEF UnderControl
<1>7. \A x \in Batons : ~Handling(x) /\ (Handling(x)' <=> x = b) /\ ~ctlSent'[x]
    BY <1>1, <1>2, <1>5 DEF Handling, ControlInv, PassingInv
<1>8. handled[nreq] = NotYet
    BY <1>1, <1>4 DEF ControlInv, SettledInv
<1>9. DispatcherInv'
    <2>1. SameDispatchers
        BY <1>3 DEF SameDispatchers, Running
    <2>. QED
        BY <2>1, DispatchersKept DEF ControlInv
<1>10. PassingInv'
    BY <1>3, <1>4, <1>5, <1>6, <1>7 DEF ControlInv, PassingInv
<1>11. SettledInv'
    BY <1>1, <1>3, <1>4, <1>5, <1>6, <1>7, <1>8 DEF SettledInv
<1>12. HistoryInv'
    BY <1>3 DEF ControlInv, HistoryInv
<1>. QED
    BY <1>9, <1>10, <1>11, <1>12 DEF ControlInv

\* The handler settles the control under way, once.
LEMMA SettlesControl ==
    ASSUME TypeOK, TypeOK', ControlInv, NEW code \in Codes, loopAt = "handler", Settles(code)
    PROVE  ControlInv'
<1> DEFINE b == loopB
<1>1. b \in Batons /\ Handling(b)
    BY DEF TypeOK, InCallback, Handling
<1>2. /\ UnderControl(b) /\ dispAt[b[1]] = "wait" /\ ~blockEnd[b] /\ ~ctlSent[b]
      /\ block[b].req = nreq /\ nreq > 0 /\ answer[nreq] = NotYet
    BY <1>1 DEF ControlInv, PassingInv
<1>3. \A x \in Batons : UnderControl(x) => x = b
    BY <1>1, <1>2, OneUnderControl DEF ControlInv
<1>4. loopAt' = "set" /\ loopB' = b
    BY DEF Settles, StoreCode
<1>5. UNCHANGED <<spawns, gBatons, baton, endSent, blockEnd, nreq, answer, ctlSent,
                  dispAt, dispS>>
    BY DEF Settles, StoreCode, loopVars, spawnVars, batonVars, blockVars, sharedVars,
        uvVars, dispVars, threadVars, scmVars, historyVars
<1>6. nreq \in Requests
    <2>1. nreq \in 0 .. MaxControls
        BY DEF TypeOK
    <2>. QED
        BY <1>2, <2>1, Constants DEF Requests
<1>7. handled'[nreq] = code /\ \A q \in Requests : q # nreq => handled'[q] = handled[q]
    BY <1>2, <1>6, ZenonT(60) DEF Settles, StoreCode, TypeOK
<1>8. block'[b].return_code = code /\ block'[b].req = nreq
    <2>1. block[b] \in [req : 0 .. MaxControls, dwControl : Controls, return_code : Codes]
        BY <1>1 DEF TypeOK
    <2>2. block'[b] = [block[b] EXCEPT !.return_code = code]
        BY <1>1 DEF Settles, StoreCode, TypeOK
    <2>. QED
        BY <1>2, <2>1, <2>2
<1>9. \A x \in Batons : UnderControl(x)' <=> UnderControl(x)
    BY <1>5 DEF UnderControl
<1>10. \A x \in Batons : Handling(x)' <=> x = b
    BY <1>4 DEF Handling
<1>11. \A x \in Batons : ~ctlSent[x]
    BY <1>2, <1>3 DEF ControlInv, PassingInv
<1>12. DispatcherInv'
    <2>1. SameDispatchers
        BY <1>5 DEF SameDispatchers, Running
    <2>. QED
        BY <2>1, DispatchersKept DEF ControlInv
<1>13. PassingInv'
    BY <1>2, <1>3, <1>5, <1>8, <1>9, <1>10, <1>11 DEF PassingInv
<1>14. SettledInv'
    BY <1>2, <1>3, <1>4, <1>5, <1>7, <1>8, <1>9, <1>11 DEF SettledInv
<1>15. HistoryInv'
    <2> SUFFICES ASSUME NEW q \in Requests
                 PROVE  /\ q > nreq => handled'[q] = NotYet /\ answer[q] = NotYet
                        /\ answer[q] # NotYet => answer[q] = handled'[q]
        BY <1>5 DEF ControlInv, HistoryInv
    <2>1. CASE q = nreq
        BY <1>2, <1>6, <2>1 DEF Requests
    <2>2. CASE q # nreq
        BY <1>7, <2>2 DEF ControlInv, HistoryInv
    <2>. QED
        BY <2>1, <2>2
<1>. QED
    BY <1>12, <1>13, <1>14, <1>15 DEF ControlInv

\* Setting the event hands the settled code to HandlerEx.
LEMMA SetsBlockEndControl ==
    ASSUME TypeOK, TypeOK', ControlInv, SetsBlockEnd
    PROVE  ControlInv'
<1> DEFINE b == loopB
<1>1. b \in Batons /\ Handling(b) /\ loopAt = "set"
    BY DEF TypeOK, InCallback, Handling, SetsBlockEnd, SetBlockEnd
<1>2. /\ UnderControl(b) /\ dispAt[b[1]] = "wait" /\ ~ctlSent[b]
      /\ handled[nreq] = block[b].return_code
    BY <1>1 DEF ControlInv, PassingInv, SettledInv
<1>3. \A x \in Batons : UnderControl(x) => x = b
    BY <1>1, <1>2, OneUnderControl DEF ControlInv
<1>4. loopAt' = "idle"
    BY DEF SetsBlockEnd, SetBlockEnd, LeaveCallback
<1>5. UNCHANGED <<spawns, gBatons, baton, endSent, block, nreq, handled, answer, ctlSent,
                  dispAt, dispS>>
    BY DEF SetsBlockEnd, SetBlockEnd, loopVars, spawnVars, batonVars, blockVars, sharedVars,
        uvVars, dispVars, threadVars, scmVars, historyVars
<1>6. blockEnd'[b]
    BY <1>1 DEF SetsBlockEnd, SetBlockEnd, TypeOK
<1>7. \A x \in Batons : UnderControl(x)' <=> UnderControl(x)
    BY <1>5 DEF UnderControl
<1>8. \A x \in Batons : ~Handling(x)'
    BY <1>4 DEF Handling
<1>9. \A x \in Batons : ~ctlSent[x]
    BY <1>2, <1>3 DEF ControlInv, PassingInv
<1>10. DispatcherInv'
    <2>1. SameDispatchers
        BY <1>5 DEF SameDispatchers, Running
    <2>. QED
        BY <2>1, DispatchersKept DEF ControlInv
<1>11. PassingInv'
    BY <1>2, <1>3, <1>5, <1>6, <1>7, <1>8, <1>9 DEF ControlInv, PassingInv
<1>12. SettledInv'
    BY <1>2, <1>3, <1>5, <1>7, <1>8, <1>9 DEF ControlInv, SettledInv
<1>13. HistoryInv'
    BY <1>5 DEF ControlInv, HistoryInv
<1>. QED
    BY <1>10, <1>11, <1>12, <1>13 DEF ControlInv

LEMMA LoopThreadControl ==
    ASSUME TypeOK, TypeOK', ControlInv, LoopThread
    PROVE  ControlInv'
<1>1. CASE SvcHandler
    <2>1. \E code \in Codes : Settles(code)
        BY <1>1 DEF SvcHandler, SignalStop, Codes
    <2>. QED
        BY <1>1, <2>1, SettlesControl DEF SvcHandler, SignalStop
<1>2. CASE SvcHandlerThrows
    <2>1. ERROR \in Codes
        BY DEF Codes
    <2>. QED
        BY <1>2, <2>1, SettlesControl DEF SvcHandlerThrows, ThrowCode
<1>. QED
    BY <1>1, <1>2, OtherCallbacksControl, svchandler_cbControl, SetsBlockEndControl,
        DispatcherEndsControl
    DEF LoopThread

LEMMA ControlStep == TypeOK /\ TypeOK' /\ ControlInv /\ [Next]_vars => ControlInv'
<1> SUFFICES ASSUME TypeOK, TypeOK', ControlInv, [Next]_vars PROVE ControlInv'
    OBVIOUS
<1>1. CASE LuaCalls
    BY <1>1, LuaCallsControl
<1>2. CASE LoopThread
    BY <1>2, LoopThreadControl
<1>3. ASSUME NEW n \in Spawns, DispatcherThread(n) PROVE ControlInv'
    BY <1>3, DispatcherEndsControl, HandlerExResetsControl, HandlerExSendsControl,
        HandlerExWakesControl, HandlerExReturnsControl
    DEF DispatcherThread, HandlerEx
<1>4. ASSUME NEW b \in Batons, NEW k \in Starts,
             ServiceMain(b, k) \/ ServiceMainLosesEvent(b, k)
      PROVE  ControlInv'
    BY <1>4, ServiceMainControl
<1>5. CASE Scm
    BY <1>5, ScmStartsControl, HandlerExStoresControl DEF Scm
<1>6. CASE UNCHANGED vars
    <2>1. SameDispatchers /\ SamePassage
        BY <1>6 DEF vars, SameDispatchers, SamePassage, Running, Handling, loopVars,
            spawnVars, batonVars, blockVars, sharedVars,
        uvVars, dispVars, threadVars, scmVars, historyVars
    <2>. QED
        BY <2>1, BothKept
<1>. QED
    BY <1>1, <1>2, <1>3, <1>4, <1>5, <1>6 DEF Next

\* In every reachable state one dispatcher at most runs, one control at most is
\* under way, and exactly one of the message, svchandler_cb and the event holds it.
THEOREM ControlInvariant == Spec => []ControlInv
<1>1. Init => TypeOK /\ ControlInv
    BY TypeInit, ControlInit
<1>2. TypeOK /\ ControlInv /\ [Next]_vars => (TypeOK /\ ControlInv)'
    BY TypeStep, ControlStep
<1>. QED
    BY <1>1, <1>2, PTL DEF Spec

\* HandlerEx never returns a stale code: what the SCM is told is what the Lua
\* handler settled on for that very control.
THEOREM AnswersCorrect == Spec => []AnswersMatch
<1>1. ControlInv => AnswersMatch
    BY DEF ControlInv, HistoryInv, AnswersMatch
<1>. QED
    BY <1>1, ControlInvariant, PTL

\* The check of gBatons keeps a second dispatcher from starting while one runs.
THEOREM DispatcherUnique == Spec => []OneDispatcher
<1>1. ControlInv => OneDispatcher
    BY DEF ControlInv, DispatcherInv, OneDispatcher
<1>. QED
    BY <1>1, ControlInvariant, PTL

(***************************************************************************)
(* The bridge implements ServiceControl (its safety part).                 *)
(***************************************************************************)
LEMMA ControlRefinesInit == Init => Control!Init
BY DEF Init, Control!Init, Requests, Control!Requests, Up

LEMMA ControlRefinesStep ==
    TypeOK /\ TypeOK' /\ ControlInv /\ [Next]_vars => [Control!Next]_(Control!vars)
<1> SUFFICES ASSUME TypeOK, TypeOK', ControlInv, [Next]_vars
             PROVE  [Control!Next]_(Control!vars)
    OBVIOUS
<1> DEFINE Silent == UNCHANGED <<nreq, handled, answer>> /\ (Up \/ UNCHANGED process)
<1>1. Silent => [Control!Next]_(Control!vars)
    BY DEF Control!Next, Control!Leave, Control!vars, Up
<1>2. CASE LuaCalls
    <2>1. Silent
        BY <1>2 DEF LuaCalls, SpawnRefused, NotRunning, SpawnBadTable, SpawnNoThread,
            SpawnStarts, Spawn,
            LuaError, InLua, historyVars
    <2>. QED
        BY <1>1, <2>1
<1>3. ASSUME NEW code \in Codes, Up, loopAt = "handler", Settles(code)
      PROVE  Control!Handle
    <2>1. loopB \in Batons /\ Handling(loopB)
        BY <1>3 DEF TypeOK, InCallback, Handling
    <2>2. UnderControl(loopB) /\ block[loopB].req = nreq /\ nreq > 0 /\ handled[nreq] = NotYet
        BY <1>3, <2>1 DEF ControlInv, PassingInv, SettledInv
    <2>3. handled' = [handled EXCEPT ![nreq] = code] /\ UNCHANGED <<nreq, answer, process>>
        BY <1>3, <2>2 DEF Settles, StoreCode
    <2>. QED
        BY <1>3, <2>2, <2>3 DEF Control!Handle, Up
<1>4. CASE LoopThread
    <2>1. CASE SvcHandler
        <3>1. \E code \in Codes : Settles(code)
            BY <2>1 DEF SvcHandler, SignalStop, Codes
        <3>. QED
            BY <1>3, <2>1, <3>1 DEF SvcHandler, SignalStop, Control!Next
    <2>2. CASE SvcHandlerThrows
        <3>1. ERROR \in Codes
            BY DEF Codes
        <3>. QED
            BY <1>3, <2>2, <3>1 DEF SvcHandlerThrows, ThrowCode, Control!Next
    <2>3. CASE ~SvcHandler /\ ~SvcHandlerThrows
        <3>1. Silent
            BY <1>4, <2>3 DEF LoopThread, EntersLoop, SvcMain, SvcHandlerBadReturn,
                SetsBlockEnd, SetBlockEnd,
                EndService, ClosesHandles, Exits, SvcMainThrows, SvcInit, svcmain_cb,
                svchandler_cb, TimerStops, ToldToStop, svcdispatcher_end_cb, CloseEnd, ClearList, InLua, IdleLoop, historyVars
        <3>. QED
            BY <1>1, <3>1
    <2>. QED
        BY <2>1, <2>2, <2>3
<1>5. ASSUME NEW n \in Spawns, HandlerExReturns(n) PROVE Control!Answer
    <2> DEFINE b == <<n, dispS[n]>>
    <2>1. b \in Batons /\ UnderControl(b) /\ dispAt[b[1]] = "read"
        BY <1>5 DEF HandlerExReturns, TypeOK, Batons, UnderControl, InHandlerEx
    <2>2. /\ block[b].req = nreq /\ nreq > 0 /\ answer[nreq] = NotYet
          /\ handled[nreq] = block[b].return_code
        BY <2>1 DEF ControlInv, PassingInv, SettledInv
    <2>3. handled[nreq] # NotYet
        <3>1. block[b].return_code \in Codes
            BY <2>1 DEF TypeOK
        <3>. QED
            BY <2>2, <3>1 DEF Codes, NotYet, NO_ERROR, ERROR, ERROR_CALL_NOT_IMPLEMENTED
    <2>4. answer' = [answer EXCEPT ![nreq] = handled[nreq]] /\ UNCHANGED <<nreq, handled, process>>
        BY <1>5, <2>2 DEF HandlerExReturns
    <2>. QED
        BY <1>5, <2>2, <2>3, <2>4 DEF HandlerExReturns, Control!Answer, Up
<1>6. ASSUME NEW n \in Spawns, DispatcherThread(n) PROVE [Control!Next]_(Control!vars)
    <2>1. HandlerExReturns(n) \/ Silent
        BY <1>6 DEF DispatcherThread, HandlerEx, Connects, DispatcherReturns, SendsEnd,
            SendEnd,
            HandlerExResets, ResetBlockEnd, HandlerExSends, HandlerExWakes, BlockEnded, historyVars
    <2>. QED
        BY <1>1, <1>5, <2>1 DEF Control!Next
<1>7. ASSUME NEW b \in Batons, NEW k \in Starts,
             ServiceMain(b, k) \/ ServiceMainLosesEvent(b, k)
      PROVE  [Control!Next]_(Control!vars)
    <2>1. Silent
        BY <1>7 DEF ServiceMain, ServiceMainRegisters, ServiceMainSends, ServiceMainEnters,
            ServiceMainReturns, ServiceEnded, ServiceMainLosesEvent, historyVars
    <2>. QED
        BY <1>1, <2>1
<1>8. ASSUME NEW n \in Spawns, NEW s \in Services, NEW c \in Controls, HandlerExStores(n, s, c)
      PROVE  Control!Send
    <2>1. \A m \in Spawns : dispAt[m] \notin InHandlerEx
        BY <1>8 DEF HandlerExStores, ControlInv, DispatcherInv, Running, InHandlerEx
    <2>2. nreq \in 0 .. MaxControls
        BY DEF TypeOK
    <2>3. nreq > 0 => answer[nreq] # NotYet
        <3>1. nreq > 0 => nreq \in Requests /\ nreq <= nreq
            BY <2>2, Constants DEF Requests
        <3>. QED
            BY <2>1, <3>1 DEF ControlInv, HistoryInv
    <2>4. /\ Up /\ nreq < MaxControls /\ nreq' = nreq + 1
          /\ UNCHANGED <<handled, answer, process>>
        BY <1>8 DEF HandlerExStores
    <2>. QED
        BY <2>3, <2>4 DEF Control!Send, Up
<1>9. CASE Scm
    <2>1. ASSUME NEW n \in Spawns, NEW s \in Services, NEW k \in Starts, ScmStarts(n, s, k)
          PROVE  Silent
        BY <2>1 DEF ScmStarts, historyVars
    <2>. QED
        BY <1>1, <1>8, <1>9, <2>1 DEF Scm, Control!Next
<1>10. CASE UNCHANGED vars
    BY <1>10 DEF vars, historyVars, Control!vars, Up
<1>. QED
    BY <1>2, <1>4, <1>6, <1>7, <1>9, <1>10 DEF Next

\* To the SCM the three threads are one handler, called once for each control and
\* answered in the order the controls came.
THEOREM ControlRefined == Spec => Control!Safe
<1>1. Init => Control!Init
    BY ControlRefinesInit
<1>2. TypeOK /\ TypeOK' /\ ControlInv /\ [Next]_vars => [Control!Next]_(Control!vars)
    BY ControlRefinesStep
<1>. QED
    BY <1>1, <1>2, TypeCorrect, ControlInvariant, PTL DEF Spec, Control!Safe

-----------------------------------------------------------------------------
(***************************************************************************)
(* How long the memory of the bridge lives.  The inductive invariant       *)
(* follows a start of a service from the SCM's call to the end of its      *)
(* service: at any time one of ServiceMain, its message, svcmain_cb and    *)
(* the sample's timer has it, and while one of them has it the SCM does    *)
(* not see the service STOPPED, so that the dispatcher serves on and the   *)
(* batons stay.                                                            *)
(***************************************************************************)
\* ServiceMain of start k of b has not sent its message yet.
Beginning(b, k) == svcAt[<<b, k>>] \in {"register", "send"}

\* The service's main function runs.
InMain(b) == loopB = b /\ loopAt \in {"svcmain", "starting"}

\* The loop thread has the start, or will have it.
OnTurn(b) == mainSent[b] \/ InMain(b) \/ timer[b]

Ending(b) == loopB = b /\ loopAt = "ending"

Serving(n) == dispAt[n] \in {"serving"} \cup InHandlerEx

\* One of the four has the start, and then the service is not STOPPED.
TurnOf(b) ==
    /\ OnTurn(b) => scm[b[2]] # "STOPPED" /\ Serving(b[1])
    /\ mainSent[b] => ~InMain(b) /\ ~timer[b]
    /\ InMain(b) => ~timer[b]
    /\ \A k \in Starts : Beginning(b, k) =>
        /\ scm[b[2]] # "STOPPED" /\ Serving(b[1])
        /\ ~OnTurn(b)
        /\ \A j \in Starts : Beginning(b, j) => j = k

TurnInv == \A b \in Batons : TurnOf(b)

\* What is live is on the list, and so is the baton the loop thread uses.
LiveInv ==
    /\ \A b \in Batons : baton[b] = "live" => b \in gBatons
    /\ loopB # NoBaton => loopB \in gBatons

\* What the list is there for.
ReasonInv ==
    gBatons # {} => \E n \in Spawns :
        Running(n) \/ endSent[n] \/ (n <= spawns /\ dispAt[n] = "none")

\* A start whose main function has not been called yet.
Due(b) == mainSent[b] \/ \E k \in Starts : Beginning(b, k)

CountInv ==
    \A b \in Batons : Cardinality(Started(b)) = mainRan[b] + (IF Due(b) THEN 1 ELSE 0)

\* The first start owns the argument vector, and its thread waits for an event
\* that nobody has set.
ArgsOf(b) ==
    /\ OnTurn(b) => Started(b) # {}
    /\ Started(b) = {} => ~svcEnd[b] /\ ~Ending(b)
    /\ Started(b) = {1} /\ (OnTurn(b) \/ Beginning(b, 1)) => ~svcEnd[b] /\ ~Ending(b)
    /\ Started(b) = {1} /\ (mainSent[b] \/ svcAt[<<b, 1>>] = "send") => argvOf[b] = 1
    /\ Started(b) = {1} /\ mainSent[b] => svcAt[<<b, 1>>] \in {"enter", "wait"}

ArgsInv == \A b \in Batons : ArgsOf(b)

LifeInv == TurnInv /\ LiveInv /\ ReasonInv /\ CountInv /\ ArgsInv

-----------------------------------------------------------------------------
\* The dispatcher that serves is the newest, and the batons on its list are live.
LEMMA ServingNewest ==
    ASSUME TypeOK, DispatcherInv, NEW n \in Spawns, Serving(n)
    PROVE  /\ Running(n) /\ n = spawns /\ gBatons = {n} \X Services
           /\ \A s \in Services : <<n, s>> \in gBatons /\ baton[<<n, s>>] = "live"
<1>1. Running(n)
    BY DEF Serving, Running
<1>. QED
    BY <1>1 DEF DispatcherInv

LEMMA LifeInitially == Init => LifeInv
<1> SUFFICES ASSUME Init PROVE LifeInv
    OBVIOUS
<1> USE DEF Init
<1>1. \A b \in Batons : /\ ~OnTurn(b) /\ ~Ending(b) /\ Started(b) = {}
                        /\ \A k \in Starts : ~Beginning(b, k)
    BY DEF OnTurn, InMain, Ending, Started, Beginning
<1>2. TurnInv
    BY <1>1 DEF TurnInv, TurnOf, OnTurn
<1>3. LiveInv /\ ReasonInv
    BY DEF LiveInv, ReasonInv
<1>4. CountInv
    <2> SUFFICES ASSUME NEW b \in Batons
                 PROVE  Cardinality(Started(b)) = mainRan[b] + (IF Due(b) THEN 1 ELSE 0)
        BY DEF CountInv
    <2>1. ~Due(b) /\ mainRan[b] = 0
        BY <1>1 DEF Due
    <2>2. Cardinality(Started(b)) = 0
        BY <1>1, FS_EmptySet
    <2>. QED
        BY <2>1, <2>2
<1>5. ArgsInv
    BY <1>1 DEF ArgsInv, ArgsOf, OnTurn
<1>. QED
    BY <1>2, <1>3, <1>4, <1>5 DEF LifeInv

-----------------------------------------------------------------------------
(* What most steps do.                                                     *)

\* No start is passed on; one may be given up.
TurnsDrop ==
    \A b \in Batons :
        /\ mainSent'[b] => mainSent[b]
        /\ InMain(b)' => InMain(b)
        /\ timer'[b] => timer[b]
        /\ \A k \in Starts : Beginning(b, k)' => Beginning(b, k)
        /\ Serving(b[1]) => Serving(b[1])'
        /\ scm[b[2]] # "STOPPED" => scm'[b[2]] # "STOPPED"

SameBatons == UNCHANGED <<gBatons, baton>> /\ loopB' \in {loopB, NoBaton}

SameReason ==
    /\ UNCHANGED <<gBatons, spawns>>
    /\ \A n \in Spawns : /\ Running(n) \/ endSent[n] => (Running(n) \/ endSent[n])'
                         /\ dispAt[n] = "none" => dispAt'[n] = "none"

SameCount == UNCHANGED <<svcAt, mainSent, mainRan>>

SameArgs ==
    /\ UNCHANGED <<svcAt, svcEnd, argvOf>>
    /\ \A b \in Batons : /\ Ending(b)' => Ending(b)
                         /\ mainSent'[b] => mainSent[b]
                         /\ OnTurn(b)' => OnTurn(b)

LEMMA TurnsDropped == ASSUME TurnInv, TurnsDrop PROVE TurnInv'
BY DEF TurnInv, TurnOf, TurnsDrop, OnTurn

LEMMA BatonsKept == ASSUME LiveInv, SameBatons PROVE LiveInv'
BY DEF LiveInv, SameBatons

LEMMA ReasonKept == ASSUME ReasonInv, SameReason PROVE ReasonInv'
BY DEF ReasonInv, SameReason

LEMMA CountKept == ASSUME CountInv, SameCount PROVE CountInv'
<1>1. \A b \in Batons : Started(b)' = Started(b) /\ mainRan'[b] = mainRan[b] /\ (Due(b)' <=> Due(b))
    BY DEF SameCount, Started, Due, Beginning
<1>. QED
    BY <1>1 DEF CountInv

LEMMA ArgsKept == ASSUME ArgsInv, SameArgs PROVE ArgsInv'
<1>1. \A b \in Batons : /\ Started(b)' = Started(b)
                        /\ \A k \in Starts : Beginning(b, k)' <=> Beginning(b, k)
                        /\ Beginning(b, 1)' <=> Beginning(b, 1)
    BY DEF SameArgs, Started, Beginning
<1>. QED
    BY <1>1 DEF ArgsInv, ArgsOf, SameArgs

LEMMA AllKept ==
    ASSUME LifeInv, TurnsDrop, SameBatons, SameReason, SameCount, SameArgs
    PROVE  LifeInv'
BY TurnsDropped, BatonsKept, ReasonKept, CountKept, ArgsKept DEF LifeInv

-----------------------------------------------------------------------------
(* The steps that keep the starts, the batons and the list as they are.    *)

\* What they leave alone.
Untouched ==
    UNCHANGED <<svcAt, mainSent, mainRan, timer, svcEnd, argvOf, gBatons, baton, spawns,
                endSent>>

LEMMA UntouchedKeeps ==
    ASSUME LifeInv, Untouched, loopB' \in {loopB, NoBaton},
           \A b \in Batons : (InMain(b)' => InMain(b)) /\ (Ending(b)' => Ending(b)),
           \A n \in Spawns : /\ Serving(n) => Serving(n)'
                             /\ Running(n) => Running(n)'
                             /\ dispAt[n] = "none" => dispAt'[n] = "none",
           \A s \in Services : scm[s] # "STOPPED" => scm'[s] # "STOPPED"
    PROVE  LifeInv'
<1>1. TurnsDrop
    BY DEF TurnsDrop, Untouched, Beginning, Batons
<1>2. SameBatons /\ SameReason /\ SameCount
    BY DEF SameBatons, SameReason, SameCount, Untouched
<1>3. SameArgs
    BY DEF SameArgs, Untouched, OnTurn
<1>. QED
    BY <1>1, <1>2, <1>3, AllKept

\* The calls of SpawnServiceCtrlDispatcher and of error() that change nothing.
LEMMA LuaCallsLife ==
    ASSUME TypeOK, LifeInv, SpawnRefused \/ LuaError
    PROVE  LifeInv'
<1>1. Untouched /\ UNCHANGED <<loopAt, loopB, dispAt, scm>>
    BY DEF SpawnRefused, LuaError, Untouched, loopVars, spawnVars, batonVars, blockVars,
        sharedVars, uvVars, dispVars, threadVars, scmVars, historyVars
<1>. QED
    BY <1>1, UntouchedKeeps DEF InMain, Ending, Serving, Running

\* The dispatcher thread while it connects and serves.
LEMMA ServesLife ==
    ASSUME TypeOK, LifeInv, NEW n \in Spawns,
           \/ Connects(n) \/ HandlerEx(n)
           \/ \E s \in Services, c \in Controls : HandlerExStores(n, s, c)
    PROVE  LifeInv'
<1>1. Untouched /\ UNCHANGED <<loopAt, loopB, scm>>
    BY DEF Connects, HandlerEx, HandlerExResets, ResetBlockEnd, HandlerExSends, HandlerExWakes,
        HandlerExReturns, HandlerExStores, Untouched, loopVars, spawnVars, batonVars, blockVars,
        sharedVars, uvVars, dispVars, threadVars, scmVars, historyVars
<1>2. /\ \/ dispAt[n] = "connect" /\ dispAt'[n] = "serving"
         \/ Serving(n) /\ Serving(n)'
      /\ \A m \in Spawns : m # n => dispAt'[m] = dispAt[m]
    <2>1. CASE Connects(n)
        BY <2>1, Domains DEF Connects
    <2>2. CASE HandlerEx(n)
        <3>1. \E to \in {"serving"} \cup InHandlerEx : dispAt' = [dispAt EXCEPT ![n] = to]
            BY <2>2 DEF HandlerEx, HandlerExResets, HandlerExSends, HandlerExWakes,
                HandlerExReturns, InHandlerEx
        <3>2. Serving(n)
            BY <2>2 DEF HandlerEx, HandlerExResets, HandlerExSends, HandlerExWakes,
                HandlerExReturns, Serving, InHandlerEx
        <3>. QED
            BY <3>1, <3>2 DEF Serving, TypeOK
    <2>3. CASE \E s \in Services, c \in Controls : HandlerExStores(n, s, c)
        <3>1. dispAt[n] = "serving" /\ dispAt' = [dispAt EXCEPT ![n] = "reset"]
            BY <2>3 DEF HandlerExStores
        <3>. QED
            BY <3>1 DEF Serving, InHandlerEx, TypeOK
    <2>. QED
        BY <2>1, <2>2, <2>3
<1>3. \A m \in Spawns : /\ Serving(m) => Serving(m)'
                        /\ Running(m) => Running(m)'
                        /\ dispAt[m] = "none" => dispAt'[m] = "none"
    BY <1>2 DEF Serving, Running, InHandlerEx
<1>. QED
    BY <1>1, <1>3, UntouchedKeeps DEF InMain, Ending

\* The loop thread where it passes no start on.
LEMMA LoopLife ==
    ASSUME TypeOK, LifeInv,
           \/ EntersLoop \/ SvcMain \/ SvcHandler \/ SvcHandlerThrows \/ SvcHandlerBadReturn
           \/ SetsBlockEnd \/ ClosesHandles \/ Exits \/ SvcMainThrows
    PROVE  LifeInv'
<1> USE DEF loopVars, spawnVars, batonVars, blockVars, sharedVars, uvVars, dispVars, threadVars,
            scmVars, historyVars
<1>1. Untouched /\ UNCHANGED dispAt
    BY DEF EntersLoop, SvcMain, SvcHandler, SignalStop, SvcHandlerThrows, Settles,
        SvcHandlerBadReturn, SetsBlockEnd, ClosesHandles, Exits, SvcMainThrows, Untouched
<1>2. loopB' \in {loopB, NoBaton}
    BY DEF EntersLoop, SvcMain, SvcHandler, SvcHandlerThrows, Settles,
        SvcHandlerBadReturn, SetsBlockEnd, ClosesHandles, Exits, SvcMainThrows, LeaveCallback
<1>3. \A b \in Batons : (InMain(b)' => InMain(b)) /\ (Ending(b)' => Ending(b))
    BY Constants DEF EntersLoop, SvcMain, SvcHandler, SvcHandlerThrows, Settles,
        SvcHandlerBadReturn, SetsBlockEnd, ClosesHandles, Exits, SvcMainThrows, LeaveCallback,
        InMain, Ending
<1>4. \A s \in Services : scm[s] # "STOPPED" => scm'[s] # "STOPPED"
    BY DEF EntersLoop, SvcMain, SvcHandler, SvcHandlerThrows, Settles, SetServiceStatus,
        SvcHandlerBadReturn, SetsBlockEnd, ClosesHandles, Exits, SvcMainThrows, TypeOK
<1>. QED
    BY <1>1, <1>2, <1>3, <1>4, UntouchedKeeps DEF Serving, Running

-----------------------------------------------------------------------------
(* The steps that make, end or drop batons.                                *)

LEMMA SpawnLife ==
    ASSUME TypeOK, TypeOK', DispatcherInv, LifeInv, NEW entries \in SUBSET Services,
           NEW result \in {"true", "false", "error"}, Spawn(entries, result)
    PROVE  LifeInv'
<1> DEFINE m == spawns + 1
<1> USE DEF loopVars, blockVars, scmVars, historyVars
<1>1. /\ m \in Spawns /\ spawns' = m /\ m > spawns /\ gBatons = {}
      /\ dispAt[m] = "none"
      /\ dispAt'[m] = (IF result = "true" THEN "connect" ELSE "none")
      /\ \A n \in Spawns : n # m => dispAt'[n] = dispAt[n]
    <2>1. m \in Spawns /\ spawns' = m /\ m > spawns /\ gBatons = {}
        <3>1. m \in Spawns /\ spawns' = m /\ gBatons = {}
            BY DEF Spawn, NotRunning
        <3>2. spawns \in 0 .. MaxSpawns
            BY DEF TypeOK
        <3>. QED
            BY <3>1, <3>2, Constants
    <2>2. dispAt' = [dispAt EXCEPT ![m] = IF result = "true" THEN "connect" ELSE @]
        BY DEF Spawn
    <2>3. dispAt[m] = "none"
        BY <2>1 DEF DispatcherInv
    <2>. QED
        BY <2>1, <2>2, <2>3, ZenonT(60) DEF TypeOK
<1>2. loopB = NoBaton /\ UNCHANGED <<loopAt, loopB, scm, svcAt, mainSent, mainRan, timer, svcEnd,
                                     argvOf, endSent>>
    BY DEF Spawn, InLua, TypeOK, InCallback
<1>3. TurnsDrop
    BY <1>1, <1>2 DEF TurnsDrop, InMain, Beginning, Serving, Batons, InHandlerEx
<1>4. LiveInv'
    BY <1>1, <1>2 DEF LifeInv, LiveInv, Spawn, CreateBatons
<1>5. ReasonInv'
    BY <1>1 DEF ReasonInv, Running
<1>6. SameCount /\ SameArgs
    BY <1>2 DEF SameCount, SameArgs, Ending, OnTurn, InMain
<1>. QED
    BY <1>3, <1>4, <1>5, <1>6, TurnsDropped, CountKept, ArgsKept DEF LifeInv

\* The dispatcher returns when every service is STOPPED: no start is on its way.
LEMMA DispatcherReturnsLife ==
    ASSUME TypeOK, TypeOK', DispatcherInv, LifeInv, NEW n \in Spawns, DispatcherReturns(n)
    PROVE  LifeInv'
<1>1. /\ dispAt[n] \in {"connect", "serving"} /\ dispAt'[n] = "returned"
      /\ \A m \in Spawns : m # n => dispAt'[m] = dispAt[m]
      /\ dispAt[n] = "serving" => \A s \in Services : scm[s] = "STOPPED"
    <2>1. dispAt' = [dispAt EXCEPT ![n] = "returned"]
        BY DEF DispatcherReturns
    <2>2. /\ dispAt[n] \in {"connect", "serving"}
          /\ dispAt[n] = "serving" => \A s \in Services : scm[s] = "STOPPED"
        BY DEF DispatcherReturns
    <2>. QED
        BY <2>1, <2>2, Domains
<1>2. /\ Untouched
      /\ UNCHANGED <<loopAt, loopB, scm>>
    BY DEF DispatcherReturns, Untouched, loopVars, spawnVars, batonVars, sharedVars, uvVars,
        scmVars, historyVars
<1>3. TurnInv'
    <2>1. \A b \in Batons : /\ OnTurn(b)' <=> OnTurn(b)
                            /\ InMain(b)' <=> InMain(b)
                            /\ \A k \in Starts : Beginning(b, k)' <=> Beginning(b, k)
        BY <1>2 DEF OnTurn, InMain, Beginning, Untouched
    <2>2. \A b \in Batons : OnTurn(b) \/ (\E k \in Starts : Beginning(b, k)) => Serving(b[1])'
        BY <1>1 DEF LifeInv, TurnInv, TurnOf, Serving, InHandlerEx, Batons
    <2>. QED
        BY <1>2, <2>1, <2>2 DEF LifeInv, TurnInv, TurnOf, Untouched
<1>4. SameBatons /\ SameReason /\ SameCount
    BY <1>1, <1>2 DEF SameBatons, SameReason, SameCount, Untouched, Running
<1>5. SameArgs
    BY <1>2 DEF SameArgs, Untouched, OnTurn, InMain, Ending
<1>. QED
    BY <1>3, <1>4, <1>5, BatonsKept, ReasonKept, CountKept, ArgsKept DEF LifeInv

LEMMA SendsEndLife ==
    ASSUME TypeOK, TypeOK', LifeInv, NEW n \in Spawns, SendsEnd(n)
    PROVE  LifeInv'
<1>1. /\ dispAt[n] = "returned" /\ dispAt'[n] = "gone" /\ endSent'[n]
      /\ \A m \in Spawns : m # n => dispAt'[m] = dispAt[m] /\ endSent'[m] = endSent[m]
    BY Domains DEF SendsEnd, SendEnd
<1>2. UNCHANGED <<loopAt, loopB, scm, svcAt, mainSent, mainRan, timer, svcEnd, argvOf, gBatons,
                  baton, spawns>>
    BY DEF SendsEnd, loopVars, spawnVars, batonVars, sharedVars, scmVars, historyVars
<1>3. TurnsDrop
    BY <1>1, <1>2 DEF TurnsDrop, InMain, Beginning, Serving, InHandlerEx, Batons
<1>4. SameBatons /\ SameReason /\ SameCount
    BY <1>1, <1>2 DEF SameBatons, SameReason, SameCount, Running, InHandlerEx
<1>5. SameArgs
    BY <1>2 DEF SameArgs, OnTurn, InMain, Ending
<1>. QED
    BY <1>3, <1>4, <1>5, AllKept

\* Whoever handles the end finds no dispatcher at work, and so no start on its way.
LEMMA EndFindsNone ==
    ASSUME TypeOK, DispatcherInv, LifeInv, NEW n \in Spawns, endSent[n]
    PROVE  /\ \A m \in Spawns : ~Serving(m)
           /\ \A b \in Batons : ~OnTurn(b) /\ ~Due(b)
<1>1. \A m \in Spawns : ~Serving(m)
    <2> SUFFICES ASSUME NEW m \in Spawns, Serving(m) PROVE FALSE
        OBVIOUS
    <2>1. m = spawns /\ n = spawns /\ dispAt[n] = "gone"
        BY ServingNewest DEF DispatcherInv
    <2>. QED
        BY <2>1 DEF Serving, InHandlerEx
<1>. QED
    BY <1>1 DEF LifeInv, TurnInv, TurnOf, Due, OnTurn, Batons

LEMMA EndLife ==
    ASSUME TypeOK, TypeOK', DispatcherInv, LifeInv, NEW n \in Spawns, svcdispatcher_end_cb(n)
    PROVE  LifeInv'
<1>1. endSent[n] /\ gBatons' = {} /\ loopAt' = "endcb" /\ loopB' = NoBaton
    BY DEF svcdispatcher_end_cb, ClearList, EnterCallback
<1>2. /\ \A b \in Batons : /\ baton'[b] = IF b \in gBatons THEN "freed" ELSE baton[b]
                           /\ mainSent'[b] => mainSent[b]
      /\ UNCHANGED <<dispAt, scm, svcAt, mainRan, timer, svcEnd, argvOf>>
    BY DEF svcdispatcher_end_cb, threadVars, dispVars, scmVars, historyVars
<1>3. \A b \in Batons : ~OnTurn(b) /\ ~Due(b)
    BY <1>1, EndFindsNone
<1>4. TurnsDrop
    BY <1>1, <1>2, Constants DEF TurnsDrop, InMain, Beginning, Serving
<1>5. LiveInv' /\ ReasonInv'
    BY <1>1, <1>2 DEF LifeInv, LiveInv, ReasonInv
<1>6. CountInv'
    <2>1. \A b \in Batons : Started(b)' = Started(b) /\ ~Due(b)'
        BY <1>2, <1>3 DEF Started, Due, Beginning
    <2>. QED
        BY <1>2, <1>3, <2>1 DEF LifeInv, CountInv
<1>7. SameArgs
    BY <1>1, <1>2, Constants DEF SameArgs, OnTurn, InMain, Ending
<1>. QED
    BY <1>4, <1>5, <1>6, <1>7, TurnsDropped, ArgsKept DEF LifeInv

-----------------------------------------------------------------------------
(* The steps that pass a start on.                                         *)

\* The SCM starts a service only while it is STOPPED: no start is on its way.
LEMMA ScmStartsLife ==
    ASSUME TypeOK, TypeOK', DispatcherInv, LifeInv,
           NEW n \in Spawns, NEW s \in Services, NEW k \in Starts, ScmStarts(n, s, k)
    PROVE  LifeInv'
<1> DEFINE b == <<n, s>>
<1>1. /\ b \in Batons /\ b[1] = n /\ b[2] = s
      /\ dispAt[n] = "serving" /\ scm[s] = "STOPPED" /\ Started(b) = 1 .. k - 1
    BY DEF ScmStarts, Batons
<1>2. /\ svcAt' = [svcAt EXCEPT ![<<b, k>>] = "register"]
      /\ scm' = [scm EXCEPT ![s] = "START_PENDING"]
      /\ UNCHANGED <<loopAt, loopB, timer, spawns, gBatons, baton, svcEnd, argvOf, mainSent,
                     endSent, dispAt, mainRan>>
    BY DEF ScmStarts, loopVars, spawnVars, batonVars, sharedVars, uvVars, dispVars, historyVars
<1>3. ~OnTurn(b) /\ ~Due(b) /\ (\A j \in Starts : ~Beginning(b, j))
    BY <1>1 DEF LifeInv, TurnInv, TurnOf, Due, OnTurn
<1>4. /\ svcAt'[<<b, k>>] = "register"
      /\ \A c \in Batons, j \in Starts : c # b \/ j # k => svcAt'[<<c, j>>] = svcAt[<<c, j>>]
      /\ \A c \in Batons : OnTurn(c)' <=> OnTurn(c)
      /\ \A c \in Batons : Ending(c)' <=> Ending(c)
    BY <1>1, <1>2, Domains DEF OnTurn, InMain, Ending
<1>5. /\ Started(b)' = 1 .. k
      /\ \A c \in Batons : c # b => Started(c)' = Started(c)
    <2>1. Started(b)' = Started(b) \cup {k}
        BY <1>1, <1>4 DEF Started
    <2>2. (1 .. k - 1) \cup {k} = 1 .. k
        BY DEF Starts
    <2>. QED
        BY <1>1, <1>4, <2>1, <2>2 DEF Started
<1>6. TurnInv'
    <2>1. scm'[s] = "START_PENDING" /\ \A t \in Services : t # s => scm'[t] = scm[t]
        <3>1. scm \in [Services -> {"STOPPED", "START_PENDING", "RUNNING", "STOP_PENDING"}]
            BY DEF TypeOK
        <3>. QED
            BY <1>2, <3>1
    <2>2. Serving(n)' /\ \A m \in Spawns : Serving(m)' <=> Serving(m)
        BY <1>1, <1>2 DEF Serving
    <2> SUFFICES ASSUME NEW c \in Batons PROVE TurnOf(c)'
        BY DEF TurnInv
    <2>3. CASE c = b
        BY <1>1, <1>2, <1>3, <1>4, <2>1, <2>2, <2>3 DEF TurnOf, Beginning, OnTurn
    <2>4. CASE c # b
        <3>1. \A j \in Starts : Beginning(c, j)' <=> Beginning(c, j)
            BY <1>4, <2>4 DEF Beginning
        <3>2. scm[c[2]] # "STOPPED" => scm'[c[2]] # "STOPPED"
            BY <2>1 DEF Batons
        <3>3. c[1] \in Spawns
            BY DEF Batons
        <3>. QED
            BY <1>2, <1>4, <2>2, <3>1, <3>2, <3>3 DEF LifeInv, TurnInv, TurnOf, InMain
    <2>. QED
        BY <2>3, <2>4
<1>7. SameBatons /\ SameReason
    BY <1>2 DEF SameBatons, SameReason, Running
<1>8. CountInv'
    <2>1. Cardinality(Started(b)) = k - 1 /\ Cardinality(Started(b)') = k
        <3>1. k \in Nat \ {0} /\ k - 1 \in Int /\ 1 \in Int
            BY DEF Starts
        <3>2. Cardinality(1 .. k - 1) = k - 1
            BY <3>1, FS_Interval
        <3>3. Cardinality(1 .. k) = k
            BY <3>1, FS_Interval
        <3>. QED
            BY <1>1, <1>5, <3>2, <3>3
    <2>2. Due(b)' /\ mainRan'[b] = mainRan[b] /\ mainRan[b] \in Nat
        <3>1. mainRan[b] \in 0 .. MaxStarts
            BY <1>1 DEF TypeOK
        <3>2. mainRan[b] \in Nat
            BY <3>1, Constants
        <3>. QED
            BY <1>1, <1>2, <1>4, <3>2 DEF Due, Beginning
    <2>3. Cardinality(Started(b)) = mainRan[b]
        BY <1>1, <1>3, <2>2 DEF LifeInv, CountInv
    <2>4. \A c \in Batons : c # b => (Due(c)' <=> Due(c)) /\ mainRan'[c] = mainRan[c]
        BY <1>2, <1>4 DEF Due, Beginning
    <2>5. k \in Nat
        BY DEF Starts
    <2>. QED
        BY <1>5, <2>1, <2>2, <2>3, <2>4, <2>5 DEF LifeInv, CountInv
<1>9. ArgsInv'
    <2> SUFFICES ASSUME NEW c \in Batons PROVE ArgsOf(c)'
        BY DEF ArgsInv
    <2>1. CASE c # b
        <3>1. 1 \in Starts
            BY Constants, BoundsAssumption DEF Starts
        <3>. QED
            BY <1>2, <1>4, <1>5, <2>1, <3>1 DEF LifeInv, ArgsInv, ArgsOf, Beginning
    <2>2. CASE c = b
        <3>1. 1 \in 1 .. k /\ (1 .. k = {1} => k = 1)
            BY DEF Starts
        <3>2. k = 1 => Started(b) = {}
            BY <1>1
        <3>3. Started(b)' = {1} => ~svcEnd'[b] /\ ~Ending(b)' /\ svcAt'[<<b, 1>>] = "register"
            BY <1>1, <1>2, <1>4, <1>5, <3>1, <3>2 DEF LifeInv, ArgsInv, ArgsOf
        <3>4. Started(b)' # {} /\ ~mainSent'[b] /\ ~OnTurn(b)'
            BY <1>1, <1>2, <1>3, <1>4, <1>5, <3>1 DEF OnTurn
        <3>. QED
            BY <2>2, <3>3, <3>4 DEF ArgsOf
    <2>. QED
        BY <2>1, <2>2
<1>. QED
    BY <1>6, <1>7, <1>8, <1>9, BatonsKept, ReasonKept DEF LifeInv

\* ServiceMain while it has the start: it registers, and sends the message.
LEMMA ServiceMainRegistersLife ==
    ASSUME TypeOK, TypeOK', LifeInv, NEW b \in Batons, NEW k \in Starts,
           ServiceMainRegisters(b, k)
    PROVE  LifeInv'
<1>1. /\ svcAt[<<b, k>>] = "register"
      /\ svcAt' = [svcAt EXCEPT ![<<b, k>>] = "send"]
      /\ argvOf' = [argvOf EXCEPT ![b] = k]
      /\ UNCHANGED <<loopAt, loopB, scm, timer, spawns, gBatons, baton, svcEnd, mainSent, endSent,
                     dispAt, mainRan>>
    BY DEF ServiceMainRegisters, loopVars, spawnVars, batonVars, uvVars, dispVars, historyVars
<1>2. /\ svcAt'[<<b, k>>] = "send" /\ argvOf'[b] = k
      /\ \A c \in Batons, j \in Starts : c # b \/ j # k => svcAt'[<<c, j>>] = svcAt[<<c, j>>]
      /\ \A c \in Batons : c # b => argvOf'[c] = argvOf[c]
    BY <1>1, Domains, ZenonT(60) DEF TypeOK
<1>3. \A c \in Batons : /\ Started(c)' = Started(c)
                        /\ \A j \in Starts : Beginning(c, j)' <=> Beginning(c, j)
                        /\ OnTurn(c)' <=> OnTurn(c)
                        /\ InMain(c)' <=> InMain(c)
                        /\ Ending(c)' <=> Ending(c)
                        /\ Due(c)' <=> Due(c)
    BY <1>1, <1>2, ZenonT(60) DEF Started, Beginning, OnTurn, InMain, Ending, Due
<1>4. TurnsDrop /\ SameBatons /\ SameReason
    BY <1>1, <1>3 DEF TurnsDrop, SameBatons, SameReason, Running, Serving
<1>5. CountInv'
    BY <1>1, <1>3 DEF LifeInv, CountInv
<1>6. ArgsInv'
    <2>1. 1 \in Starts
        BY Constants, BoundsAssumption DEF Starts
    <2>2. Started(b) = {1} => k = 1 /\ argvOf'[b] = 1
        <3>1. k \in Started(b)
            BY <1>1 DEF Started
        <3>. QED
            BY <1>2, <3>1
    <2>3. ~mainSent[b]
        BY <1>1 DEF LifeInv, TurnInv, TurnOf, Beginning, OnTurn
    <2> SUFFICES ASSUME NEW c \in Batons PROVE ArgsOf(c)'
        BY DEF ArgsInv
    <2>4. CASE c # b
        BY <1>1, <1>2, <1>3, <2>1, <2>4 DEF LifeInv, ArgsInv, ArgsOf
    <2>5. CASE c = b
        BY <1>1, <1>2, <1>3, <2>1, <2>2, <2>3, <2>5 DEF LifeInv, ArgsInv, ArgsOf
    <2>. QED
        BY <2>4, <2>5
<1>. QED
    BY <1>4, <1>5, <1>6, TurnsDropped, BatonsKept, ReasonKept DEF LifeInv

LEMMA ServiceMainSendsLife ==
    ASSUME TypeOK, TypeOK', LifeInv, NEW b \in Batons, NEW k \in Starts,
           ServiceMainSends(b, k)
    PROVE  LifeInv'
<1>1. /\ svcAt[<<b, k>>] = "send"
      /\ svcAt' = [svcAt EXCEPT ![<<b, k>>] = "enter"]
      /\ mainSent' = [mainSent EXCEPT ![b] = TRUE]
      /\ UNCHANGED <<loopAt, loopB, scm, timer, spawns, gBatons, baton, svcEnd, argvOf, endSent,
                     dispAt, mainRan>>
    BY DEF ServiceMainSends, loopVars, spawnVars, sharedVars, batonVars, dispVars, scmVars,
        historyVars
<1>2. /\ svcAt'[<<b, k>>] = "enter" /\ mainSent'[b]
      /\ \A c \in Batons, j \in Starts : c # b \/ j # k => svcAt'[<<c, j>>] = svcAt[<<c, j>>]
      /\ \A c \in Batons : c # b => mainSent'[c] = mainSent[c]
    BY <1>1, Domains
<1>3. /\ Beginning(b, k) /\ ~OnTurn(b)
      /\ scm[b[2]] # "STOPPED" /\ Serving(b[1])
      /\ \A j \in Starts : ~Beginning(b, j)'
    BY <1>1, <1>2 DEF LifeInv, TurnInv, TurnOf, Beginning
<1>4. \A c \in Batons : /\ Started(c)' = Started(c)
                        /\ Ending(c)' <=> Ending(c)
                        /\ InMain(c)' <=> InMain(c)
                        /\ Due(c)' <=> Due(c)
    BY <1>1, <1>2, <1>3 DEF Started, Ending, InMain, Due, Beginning
<1>5. \A c \in Batons : c # b => /\ \A j \in Starts : Beginning(c, j)' <=> Beginning(c, j)
                                 /\ OnTurn(c)' <=> OnTurn(c)
    BY <1>1, <1>2 DEF Beginning, OnTurn, InMain
<1>6. TurnInv'
    <2> SUFFICES ASSUME NEW c \in Batons PROVE TurnOf(c)'
        BY DEF TurnInv
    <2>1. CASE c # b
        BY <1>1, <1>2, <1>4, <1>5, <2>1 DEF LifeInv, TurnInv, TurnOf, Serving
    <2>2. CASE c = b
        BY <1>1, <1>3, <1>4, <2>2 DEF TurnOf, OnTurn, Serving
    <2>. QED
        BY <2>1, <2>2
<1>7. SameBatons /\ SameReason
    BY <1>1 DEF SameBatons, SameReason, Running
<1>8. CountInv'
    BY <1>1, <1>4 DEF LifeInv, CountInv
<1>9. ArgsInv'
    <2>1. 1 \in Starts
        BY Constants, BoundsAssumption DEF Starts
    <2>2. k \in Started(b)
        BY <1>1 DEF Started
    <2> SUFFICES ASSUME NEW c \in Batons PROVE ArgsOf(c)'
        BY DEF ArgsInv
    <2>3. CASE c # b
        BY <1>1, <1>2, <1>4, <1>5, <2>1, <2>3 DEF LifeInv, ArgsInv, ArgsOf
    <2>4. CASE c = b
        <3>1. Started(b) = {1} => k = 1 /\ argvOf[b] = 1 /\ ~svcEnd[b] /\ ~Ending(b)
            BY <1>1, <1>3, <2>2 DEF LifeInv, ArgsInv, ArgsOf
        <3>. QED
            BY <1>1, <1>2, <1>4, <2>2, <2>4, <3>1 DEF ArgsOf
    <2>. QED
        BY <2>3, <2>4
<1>. QED
    BY <1>6, <1>7, <1>8, <1>9, BatonsKept, ReasonKept DEF LifeInv

\* ServiceMain afterwards: its thread ends only once its event is set, or its
\* baton is freed; no start is on its way then.
LEMMA ServiceMainEndsLife ==
    ASSUME TypeOK, TypeOK', DispatcherInv, LifeInv, NEW b \in Batons, NEW k \in Starts,
           \/ ServiceMainEnters(b, k) \/ ServiceMainReturns(b, k)
           \/ ServiceMainLosesEvent(b, k)
    PROVE  LifeInv'
<1>1. UNCHANGED <<loopAt, loopB, scm, timer, spawns, gBatons, baton, svcEnd, argvOf, mainSent,
                  endSent, dispAt, mainRan>>
    BY DEF ServiceMainEnters, ServiceMainReturns, ServiceMainLosesEvent, loopVars, spawnVars,
        sharedVars, batonVars, uvVars, dispVars, scmVars, historyVars
<1>2. /\ svcAt[<<b, k>>] \in {"enter", "wait"}
      /\ \E to \in {"wait", "lost", "exited"} :
            /\ svcAt' = [svcAt EXCEPT ![<<b, k>>] = to]
            /\ to # "wait" => svcEnd[b] \/ baton[b] = "freed"
    BY DEF ServiceMainEnters, ServiceMainReturns, ServiceEnded, ServiceMainLosesEvent
<1>3. /\ svcAt'[<<b, k>>] \in {"wait", "lost", "exited"}
      /\ svcAt'[<<b, k>>] # "wait" => svcEnd[b] \/ baton[b] = "freed"
      /\ \A c \in Batons, j \in Starts : c # b \/ j # k => svcAt'[<<c, j>>] = svcAt[<<c, j>>]
    <2>1. PICK to \in {"wait", "lost", "exited"} :
            /\ svcAt' = [svcAt EXCEPT ![<<b, k>>] = to]
            /\ to # "wait" => svcEnd[b] \/ baton[b] = "freed"
        BY <1>2
    <2>. QED
        BY <2>1, Domains
<1>4. \A c \in Batons : /\ Started(c)' = Started(c)
                        /\ \A j \in Starts : Beginning(c, j)' <=> Beginning(c, j)
                        /\ OnTurn(c)' <=> OnTurn(c)
                        /\ InMain(c)' <=> InMain(c)
                        /\ Ending(c)' <=> Ending(c)
                        /\ Due(c)' <=> Due(c)
    BY <1>1, <1>2, <1>3, ZenonT(60) DEF Started, Beginning, OnTurn, InMain, Ending, Due
<1>5. TurnsDrop /\ SameBatons /\ SameReason
    BY <1>1, <1>4 DEF TurnsDrop, SameBatons, SameReason, Running, Serving
<1>6. CountInv'
    BY <1>1, <1>4 DEF LifeInv, CountInv
<1>7. ArgsInv'
    <2>1. 1 \in Starts
        BY Constants, BoundsAssumption DEF Starts
    <2>2. mainSent[b] => baton[b] = "live"
        BY ServingNewest DEF LifeInv, TurnInv, TurnOf, OnTurn, Batons
    <2>3. Started(b) = {1} /\ mainSent[b] => ~svcEnd[b]
        BY DEF LifeInv, ArgsInv, ArgsOf, OnTurn
    <2>4. \A c \in Batons : svcAt'[<<c, 1>>] = "send" <=> svcAt[<<c, 1>>] = "send"
        BY <1>2, <1>3, <2>1
    <2>5. \A c \in Batons : Started(c) = {1} /\ mainSent[c] => svcAt'[<<c, 1>>] \in {"enter", "wait"}
        <3> SUFFICES ASSUME NEW c \in Batons, Started(c) = {1}, mainSent[c]
                     PROVE  svcAt'[<<c, 1>>] \in {"enter", "wait"}
            OBVIOUS
        <3>1. svcAt[<<c, 1>>] \in {"enter", "wait"}
            BY DEF LifeInv, ArgsInv, ArgsOf
        <3>2. CASE c # b \/ k # 1
            BY <1>3, <2>1, <3>1, <3>2
        <3>3. CASE c = b /\ k = 1
            BY <1>3, <2>2, <2>3, <3>3
        <3>. QED
            BY <3>2, <3>3
    <2>. QED
        BY <1>1, <1>4, <2>1, <2>4, <2>5 DEF LifeInv, ArgsInv, ArgsOf
<1>. QED
    BY <1>5, <1>6, <1>7, TurnsDropped, BatonsKept, ReasonKept DEF LifeInv

-----------------------------------------------------------------------------
(* The callbacks of the loop thread.                                       *)

LEMMA CallsMainLife ==
    ASSUME TypeOK, TypeOK', DispatcherInv, LifeInv, NEW b \in Batons, svcmain_cb(b)
    PROVE  LifeInv'
<1>1. /\ mainSent[b] /\ baton[b] = "live" /\ loopAt = "idle"
      /\ loopAt' = "svcmain" /\ loopB' = b
      /\ mainSent' = [mainSent EXCEPT ![b] = FALSE]
      /\ mainRan' = [mainRan EXCEPT ![b] = IF @ < MaxStarts THEN @ + 1 ELSE @]
      /\ UNCHANGED <<scm, timer, spawns, gBatons, baton, svcAt, svcEnd, argvOf, endSent, dispAt>>
    BY DEF svcmain_cb, IdleLoop, EnterCallback, spawnVars, sharedVars, batonVars, threadVars,
        dispVars, scmVars
<1>2. /\ ~mainSent'[b]
      /\ \A c \in Batons : c # b => mainSent'[c] = mainSent[c] /\ mainRan'[c] = mainRan[c]
    BY <1>1, Domains
<1>3. /\ \A c \in Batons : ~InMain(c) /\ ~Ending(c) /\ ~Ending(c)'
      /\ InMain(b)' /\ \A c \in Batons : c # b => ~InMain(c)'
    BY <1>1 DEF InMain, Ending
<1>4. /\ OnTurn(b) /\ OnTurn(b)' /\ \A c \in Batons : c # b => (OnTurn(c)' <=> OnTurn(c))
      /\ \A c \in Batons, j \in Starts : Beginning(c, j)' <=> Beginning(c, j)
      /\ \A c \in Batons : Started(c)' = Started(c)
    BY <1>1, <1>2, <1>3 DEF OnTurn, Beginning, Started
<1>5. TurnInv'
    BY <1>1, <1>2, <1>3, <1>4 DEF LifeInv, TurnInv, TurnOf, Serving
<1>6. LiveInv'
    BY <1>1 DEF LifeInv, LiveInv
<1>7. SameReason
    BY <1>1 DEF SameReason, Running
<1>8. CountInv'
    <2>1. Due(b) /\ ~Due(b)' /\ \A c \in Batons : c # b => (Due(c)' <=> Due(c))
        BY <1>1, <1>2, <1>4 DEF Due, LifeInv, TurnInv, TurnOf
    <2>2. Cardinality(Started(b)) = mainRan[b] + 1
        BY <2>1 DEF LifeInv, CountInv
    <2>3. Cardinality(Started(b)) <= MaxStarts
        <3>1. IsFiniteSet(Starts) /\ Cardinality(Starts) = MaxStarts
            BY FS_Interval, Constants, BoundsAssumption DEF Starts
        <3>2. Started(b) \subseteq Starts
            BY DEF Started
        <3>. QED
            BY <3>1, <3>2, FS_Subset
    <2>4. mainRan[b] \in Nat
        <3>1. mainRan[b] \in 0 .. MaxStarts
            BY DEF TypeOK
        <3>. QED
            BY <3>1, Constants
    <2>5. mainRan'[b] = mainRan[b] + 1
        <3>1. mainRan[b] < MaxStarts
            BY <2>2, <2>3, <2>4, Constants
        <3>2. mainRan \in [Batons -> 0 .. MaxStarts]
            BY DEF TypeOK
        <3>. QED
            BY <1>1, <3>1, <3>2
    <2>. QED
        BY <1>2, <1>4, <2>1, <2>2, <2>4, <2>5 DEF LifeInv, CountInv
<1>9. ArgsInv'
    <2>1. 1 \in Starts
        BY Constants, BoundsAssumption DEF Starts
    <2> SUFFICES ASSUME NEW c \in Batons PROVE ArgsOf(c)'
        BY DEF ArgsInv
    <2>2. CASE c # b
        BY <1>1, <1>2, <1>3, <1>4, <2>1, <2>2 DEF LifeInv, ArgsInv, ArgsOf
    <2>3. CASE c = b
        BY <1>1, <1>2, <1>3, <1>4, <2>1, <2>3 DEF LifeInv, ArgsInv, ArgsOf
    <2>. QED
        BY <2>2, <2>3
<1>. QED
    BY <1>5, <1>6, <1>7, <1>8, <1>9, ReasonKept DEF LifeInv

LEMMA CallsHandlerLife ==
    ASSUME TypeOK, LifeInv, NEW b \in Batons, svchandler_cb(b)
    PROVE  LifeInv'
<1>1. /\ Untouched /\ UNCHANGED <<dispAt, scm>> /\ baton[b] = "live"
      /\ loopAt = "idle" /\ loopAt' = "handler" /\ loopB' = b
    BY DEF svchandler_cb, IdleLoop, EnterCallback, Untouched, spawnVars, sharedVars, batonVars,
        threadVars, dispVars, scmVars, historyVars
<1>2. \A c \in Batons : ~InMain(c)' /\ ~Ending(c)'
    BY <1>1 DEF InMain, Ending
<1>3. TurnsDrop /\ SameReason /\ SameCount
    BY <1>1, <1>2 DEF TurnsDrop, SameReason, SameCount, Untouched, Beginning, Serving, Running
<1>4. LiveInv'
    BY <1>1 DEF LifeInv, LiveInv, Untouched
<1>5. SameArgs
    BY <1>1, <1>2 DEF SameArgs, Untouched, OnTurn
<1>. QED
    BY <1>3, <1>4, <1>5, TurnsDropped, ReasonKept, CountKept, ArgsKept DEF LifeInv

LEMMA SvcInitLife ==
    ASSUME TypeOK, TypeOK', DispatcherInv, LifeInv, NEW ok \in BOOLEAN, SvcInit(ok)
    PROVE  LifeInv'
<1> DEFINE b == loopB
<1>1. /\ loopAt = "starting" /\ loopAt' = "idle" /\ loopB' = NoBaton
      /\ timer' = [timer EXCEPT ![b] = ok]
      /\ scm' = [scm EXCEPT ![b[2]] = IF ok THEN "RUNNING" ELSE "STOPPED"]
      /\ UNCHANGED <<spawns, gBatons, baton, svcAt, svcEnd, argvOf, mainSent, endSent, dispAt,
                     mainRan>>
    BY DEF SvcInit, LeaveCallback, SetServiceStatus, spawnVars, sharedVars, batonVars, uvVars,
        dispVars, historyVars
<1>2. b \in Batons /\ b[1] \in Spawns /\ b[2] \in Services
    BY <1>1 DEF TypeOK, InCallback, Batons
<1>3. /\ timer'[b] = ok /\ \A c \in Batons : c # b => timer'[c] = timer[c]
      /\ scm'[b[2]] = (IF ok THEN "RUNNING" ELSE "STOPPED")
      /\ \A s \in Services : s # b[2] => scm'[s] = scm[s]
    <2>1. /\ timer \in [Batons -> BOOLEAN]
          /\ scm \in [Services -> {"STOPPED", "START_PENDING", "RUNNING", "STOP_PENDING"}]
        BY DEF TypeOK
    <2>. QED
        BY <1>1, <1>2, <2>1
<1>4. /\ InMain(b) /\ OnTurn(b) /\ Serving(b[1]) /\ ~mainSent[b]
      /\ \A j \in Starts : ~Beginning(b, j)
    BY <1>1, <1>2 DEF LifeInv, TurnInv, TurnOf, InMain, OnTurn
<1>5. \A c \in Batons : /\ ~InMain(c)' /\ ~Ending(c)' /\ ~Ending(c)
                        /\ Started(c)' = Started(c)
                        /\ \A j \in Starts : Beginning(c, j)' <=> Beginning(c, j)
                        /\ OnTurn(c)' => OnTurn(c)
    BY <1>1, <1>3, <1>4, Constants DEF InMain, Ending, Started, Beginning, OnTurn
<1>6. TurnInv'
    <2> SUFFICES ASSUME NEW c \in Batons PROVE TurnOf(c)'
        BY DEF TurnInv
    <2>1. CASE c = b
        BY <1>1, <1>2, <1>3, <1>4, <1>5, <2>1 DEF TurnOf, OnTurn, Serving
    <2>2. CASE c # b /\ ~Serving(c[1])
        BY <1>1, <1>5, <2>2 DEF LifeInv, TurnInv, TurnOf, OnTurn
    <2>3. CASE c # b /\ Serving(c[1])
        <3>1. c[1] = b[1]
            BY <1>2, <1>4, <2>3, ServingNewest DEF Batons
        <3>2. c[2] # b[2] /\ c[2] \in Services
            BY <1>2, <2>3, <3>1 DEF Batons
        <3>. QED
            BY <1>1, <1>3, <1>5, <2>3, <3>2 DEF LifeInv, TurnInv, TurnOf, Serving
    <2>. QED
        BY <2>1, <2>2, <2>3
<1>7. SameBatons /\ SameReason /\ SameCount
    BY <1>1 DEF SameBatons, SameReason, SameCount, Running
<1>8. SameArgs
    BY <1>1, <1>5 DEF SameArgs
<1>. QED
    BY <1>6, <1>7, <1>8, BatonsKept, ReasonKept, CountKept, ArgsKept DEF LifeInv

LEMMA TimerStopsLife ==
    ASSUME TypeOK, TypeOK', DispatcherInv, LifeInv, NEW b \in Batons, TimerStops(b)
    PROVE  LifeInv'
<1>1. /\ timer[b] /\ loopAt = "idle" /\ loopAt' = "ending" /\ loopB' = b
      /\ timer' = [timer EXCEPT ![b] = FALSE]
      /\ scm' = [scm EXCEPT ![b[2]] = "STOPPED"]
      /\ UNCHANGED <<spawns, gBatons, baton, svcAt, svcEnd, argvOf, mainSent, endSent, dispAt,
                     mainRan>>
    BY DEF TimerStops, IdleLoop, EnterCallback, SetServiceStatus, spawnVars, sharedVars, batonVars,
        uvVars, dispVars, historyVars
<1>2. b[1] \in Spawns /\ b[2] \in Services
    BY DEF Batons
<1>3. /\ ~timer'[b] /\ \A c \in Batons : c # b => timer'[c] = timer[c]
      /\ \A s \in Services : s # b[2] => scm'[s] = scm[s]
    <2>1. /\ timer \in [Batons -> BOOLEAN]
          /\ scm \in [Services -> {"STOPPED", "START_PENDING", "RUNNING", "STOP_PENDING"}]
        BY DEF TypeOK
    <2>. QED
        BY <1>1, <1>2, <2>1
<1>4. /\ OnTurn(b) /\ Serving(b[1]) /\ ~mainSent[b]
      /\ \A j \in Starts : ~Beginning(b, j)
    BY <1>1 DEF LifeInv, TurnInv, TurnOf, OnTurn
<1>5. \A c \in Batons : /\ ~InMain(c)' /\ ~InMain(c) /\ ~Ending(c)
                        /\ c # b => ~Ending(c)'
                        /\ Started(c)' = Started(c)
                        /\ \A j \in Starts : Beginning(c, j)' <=> Beginning(c, j)
                        /\ OnTurn(c)' => OnTurn(c) /\ c # b
    BY <1>1, <1>3, <1>4 DEF InMain, Ending, Started, Beginning, OnTurn
<1>6. TurnInv'
    <2> SUFFICES ASSUME NEW c \in Batons PROVE TurnOf(c)'
        BY DEF TurnInv
    <2>1. CASE c = b
        BY <1>3, <1>4, <1>5, <2>1 DEF TurnOf
    <2>2. CASE c # b /\ ~Serving(c[1])
        BY <1>1, <1>5, <2>2 DEF LifeInv, TurnInv, TurnOf, OnTurn
    <2>3. CASE c # b /\ Serving(c[1])
        <3>1. c[1] = b[1]
            BY <1>2, <1>4, <2>3, ServingNewest DEF Batons
        <3>2. c[2] # b[2] /\ c[2] \in Services
            BY <1>2, <2>3, <3>1 DEF Batons
        <3>. QED
            BY <1>1, <1>3, <1>5, <2>3, <3>2 DEF LifeInv, TurnInv, TurnOf, Serving
    <2>. QED
        BY <2>1, <2>2, <2>3
<1>7. LiveInv'
    BY <1>1, <1>2, <1>4, ServingNewest DEF LifeInv, LiveInv, Batons
<1>8. SameReason /\ SameCount
    BY <1>1 DEF SameReason, SameCount, Running
<1>9. ArgsInv'
    <2>1. Started(b) # {} /\ ~mainSent'[b] /\ ~OnTurn(b)' /\ \A j \in Starts : ~Beginning(b, j)'
        BY <1>1, <1>4, <1>5 DEF LifeInv, ArgsInv, ArgsOf
    <2>2. 1 \in Starts
        BY Constants, BoundsAssumption DEF Starts
    <2>. QED
        BY <1>1, <1>4, <1>5, <2>1, <2>2, ZenonT(60) DEF LifeInv, ArgsInv, ArgsOf
<1>. QED
    BY <1>6, <1>7, <1>8, <1>9, ReasonKept, CountKept DEF LifeInv

LEMMA EndServiceLife ==
    ASSUME TypeOK, TypeOK', LifeInv, EndService
    PROVE  LifeInv'
<1> DEFINE b == loopB
<1>1. /\ loopAt = "ending" /\ loopAt' = "idle" /\ loopB' = NoBaton
      /\ svcEnd' = [svcEnd EXCEPT ![b] = baton[b] = "live" \/ @]
      /\ UNCHANGED <<scm, timer, spawns, gBatons, baton, svcAt, argvOf, mainSent, endSent, dispAt,
                     mainRan>>
    BY DEF EndService, LeaveCallback, spawnVars, batonVars, uvVars, threadVars, dispVars, scmVars,
        historyVars
<1>2. b \in Batons /\ Ending(b) /\ \A c \in Batons : c # b => svcEnd'[c] = svcEnd[c]
    BY <1>1, ZenonT(60) DEF TypeOK, InCallback, Ending
<1>3. \A c \in Batons : /\ ~InMain(c)' /\ ~InMain(c) /\ ~Ending(c)'
                        /\ OnTurn(c)' <=> OnTurn(c)
                        /\ Started(c)' = Started(c)
                        /\ \A j \in Starts : Beginning(c, j)' <=> Beginning(c, j)
    BY <1>1, Constants DEF InMain, Ending, OnTurn, Started, Beginning
<1>4. TurnsDrop /\ SameBatons /\ SameReason /\ SameCount
    BY <1>1, <1>3 DEF TurnsDrop, SameBatons, SameReason, SameCount, Serving, Running
<1>5. ArgsInv'
    <2>1. 1 \in Starts
        BY Constants, BoundsAssumption DEF Starts
    <2>. QED
        BY <1>1, <1>2, <1>3, <2>1, ZenonT(60) DEF LifeInv, ArgsInv, ArgsOf
<1>. QED
    BY <1>4, <1>5, TurnsDropped, BatonsKept, ReasonKept, CountKept DEF LifeInv

-----------------------------------------------------------------------------
(* The whole next-state relation.                                          *)

LEMMA LoopThreadLife ==
    ASSUME TypeOK, TypeOK', DispatcherInv, LifeInv, LoopThread
    PROVE  LifeInv'
<1>1. CASE EndService
    BY <1>1, EndServiceLife
<1>2. ASSUME NEW ok \in BOOLEAN, SvcInit(ok) PROVE LifeInv'
    BY <1>2, SvcInitLife
<1>3. ASSUME NEW b \in Batons, svcmain_cb(b) \/ svchandler_cb(b) \/ TimerStops(b)
      PROVE  LifeInv'
    BY <1>3, CallsMainLife, CallsHandlerLife, TimerStopsLife
<1>4. ASSUME NEW n \in Spawns, svcdispatcher_end_cb(n) PROVE LifeInv'
    BY <1>4, EndLife
<1>5. CASE \/ EntersLoop \/ SvcMain \/ SvcHandler \/ SvcHandlerThrows \/ SvcHandlerBadReturn
           \/ SetsBlockEnd \/ ClosesHandles \/ Exits \/ SvcMainThrows
    BY <1>5, LoopLife
<1>. QED
    BY <1>1, <1>2, <1>3, <1>4, <1>5 DEF LoopThread

LEMMA LuaCallsKeepLife ==
    ASSUME TypeOK, TypeOK', DispatcherInv, LifeInv, LuaCalls
    PROVE  LifeInv'
<1>1. CASE SpawnRefused \/ LuaError
    BY <1>1, LuaCallsLife
<1>2. CASE SpawnBadTable
    BY <1>2, SpawnLife DEF SpawnBadTable
<1>3. CASE SpawnNoThread
    BY <1>3, SpawnLife DEF SpawnNoThread
<1>4. CASE SpawnStarts
    BY <1>4, SpawnLife DEF SpawnStarts
<1>. QED
    BY <1>1, <1>2, <1>3, <1>4 DEF LuaCalls

LEMMA LifeStep == TypeOK /\ TypeOK' /\ ControlInv /\ LifeInv /\ [Next]_vars => LifeInv'
<1> SUFFICES ASSUME TypeOK, TypeOK', ControlInv, LifeInv, [Next]_vars PROVE LifeInv'
    OBVIOUS
<1>1. DispatcherInv
    BY DEF ControlInv
<1>2. CASE LuaCalls
    BY <1>1, <1>2, LuaCallsKeepLife
<1>3. CASE LoopThread
    BY <1>1, <1>3, LoopThreadLife
<1>4. ASSUME NEW n \in Spawns, DispatcherThread(n) PROVE LifeInv'
    <2>1. CASE Connects(n) \/ HandlerEx(n)
        BY <2>1, ServesLife
    <2>2. CASE DispatcherReturns(n)
        BY <1>1, <2>2, DispatcherReturnsLife
    <2>3. CASE SendsEnd(n)
        BY <2>3, SendsEndLife
    <2>. QED
        BY <1>4, <2>1, <2>2, <2>3 DEF DispatcherThread
<1>5. ASSUME NEW b \in Batons, NEW k \in Starts,
             ServiceMain(b, k) \/ ServiceMainLosesEvent(b, k)
      PROVE  LifeInv'
    <2>1. CASE ServiceMainRegisters(b, k)
        BY <2>1, ServiceMainRegistersLife
    <2>2. CASE ServiceMainSends(b, k)
        BY <2>2, ServiceMainSendsLife
    <2>3. CASE \/ ServiceMainEnters(b, k) \/ ServiceMainReturns(b, k)
               \/ ServiceMainLosesEvent(b, k)
        BY <1>1, <2>3, ServiceMainEndsLife
    <2>. QED
        BY <1>5, <2>1, <2>2, <2>3 DEF ServiceMain
<1>6. CASE Scm
    <2>1. ASSUME NEW n \in Spawns, NEW s \in Services, NEW k \in Starts, ScmStarts(n, s, k)
          PROVE  LifeInv'
        BY <1>1, <2>1, ScmStartsLife
    <2>2. ASSUME NEW n \in Spawns, NEW s \in Services, NEW c \in Controls,
                 HandlerExStores(n, s, c)
          PROVE  LifeInv'
        <3>1. \E t \in Services, d \in Controls : HandlerExStores(n, t, d)
            BY <2>2
        <3>. QED
            BY <3>1, ServesLife
    <2>. QED
        BY <1>6, <2>1, <2>2 DEF Scm
<1>7. CASE UNCHANGED vars
    <2>1. Untouched /\ UNCHANGED <<loopAt, loopB, dispAt, scm>>
        BY <1>7 DEF vars, Untouched, loopVars, spawnVars, batonVars, sharedVars, uvVars, dispVars,
            threadVars, scmVars, historyVars
    <2>. QED
        BY <2>1, UntouchedKeeps DEF InMain, Ending, Serving, Running
<1>. QED
    BY <1>2, <1>3, <1>4, <1>5, <1>6, <1>7 DEF Next

\* One of ServiceMain, its message, svcmain_cb and the timer of the sample has a
\* start, and the batons stay while one has it (winsvc.c:114-181, 301-329).
THEOREM LifeInvariant == Spec => []LifeInv
<1>1. Init => LifeInv
    BY LifeInitially
<1>2. TypeOK /\ TypeOK' /\ ControlInv /\ LifeInv /\ [Next]_vars => LifeInv'
    BY LifeStep
<1>. QED
    BY <1>1, <1>2, TypeCorrect, ControlInvariant, PTL DEF Spec

-----------------------------------------------------------------------------
(* What follows from it.                                                   *)

\* No thread ever uses a baton whose memory is freed: not HandlerEx up to the
\* end of its wait, not ServiceMain up to its message, and no callback of the
\* loop thread (winsvc.c:149-181, 301-329).
THEOREM BatonsStayLive == Spec => []BatonsLive
<1>1. TypeOK /\ ControlInv /\ LifeInv => BatonsLive
    <2> SUFFICES ASSUME TypeOK, ControlInv, LifeInv PROVE BatonsLive
        OBVIOUS
    <2>1. DispatcherInv
        BY DEF ControlInv
    <2>2. \A n \in Spawns : dispAt[n] \in InHandlerEx => <<n, dispS[n]>> \in gBatons
        BY <2>1, ServingNewest DEF Serving, TypeOK
    <2>3. \A b \in Batons, k \in Starts :
            svcAt[<<b, k>>] \in {"register", "send"} => b \in gBatons
        <3> SUFFICES ASSUME NEW b \in Batons, NEW k \in Starts, Beginning(b, k)
                     PROVE  b \in gBatons
            BY DEF Beginning
        <3>1. Serving(b[1]) /\ b[1] \in Spawns /\ b[2] \in Services /\ b = <<b[1], b[2]>>
            BY DEF LifeInv, TurnInv, TurnOf, Batons
        <3>. QED
            BY <2>1, <3>1, ServingNewest
    <2>. QED
        BY <2>1, <2>2, <2>3 DEF BatonsLive, LifeInv, LiveInv, DispatcherInv
<1>. QED
    BY <1>1, TypeCorrect, ControlInvariant, LifeInvariant, PTL

\* When svcmain_cb walks the argument vector of the first start of a service,
\* the ServiceMain thread that owns it is still there (winsvc.c:114-129, 173-181).
THEOREM ArgsStayAlive == Spec => []ArgsAlive
<1>1. LifeInv => ArgsAlive
    BY DEF LifeInv, ArgsInv, ArgsOf, ArgsAlive
<1>. QED
    BY <1>1, LifeInvariant, PTL

\* When Lua is told that the dispatcher ended, every control has been handled and
\* every start has had its main function called (winsvc.c:301-324).
THEOREM EndIsLast == Spec => DrainedAtEnd
<1>1. TypeOK /\ ControlInv /\ LifeInv /\ [Next]_vars =>
        [\A n \in Spawns : svcdispatcher_end_cb(n) =>
            /\ \A r \in 1 .. nreq : handled[r] # NotYet
            /\ \A b \in Batons : Cardinality(Started(b)) = mainRan[b]]_vars
    <2> SUFFICES ASSUME TypeOK, ControlInv, LifeInv, NEW n \in Spawns, svcdispatcher_end_cb(n)
                 PROVE  /\ \A r \in 1 .. nreq : handled[r] # NotYet
                        /\ \A b \in Batons : Cardinality(Started(b)) = mainRan[b]
        OBVIOUS
    <2>1. /\ \A m \in Spawns : ~Serving(m)
          /\ \A b \in Batons : ~Due(b)
        BY EndFindsNone DEF ControlInv, svcdispatcher_end_cb
    <2>2. \A r \in 1 .. nreq : handled[r] # NotYet
        <3> SUFFICES ASSUME NEW r \in 1 .. nreq PROVE handled[r] # NotYet
            OBVIOUS
        <3>1. r \in Requests /\ r <= nreq
            <4>1. nreq \in 0 .. MaxControls
                BY DEF TypeOK
            <4>. QED
                BY <4>1, Constants DEF Requests
        <3>2. answer[r] # NotYet
            BY <2>1, <3>1 DEF ControlInv, HistoryInv, Serving
        <3>. QED
            BY <3>1, <3>2 DEF ControlInv, HistoryInv
    <2>3. \A b \in Batons : Cardinality(Started(b)) = mainRan[b]
        <3> SUFFICES ASSUME NEW b \in Batons PROVE Cardinality(Started(b)) = mainRan[b]
            OBVIOUS
        <3>1. Cardinality(Started(b)) = mainRan[b] + 0
            BY <2>1 DEF LifeInv, CountInv
        <3>2. mainRan[b] \in Nat
            <4>1. mainRan[b] \in 0 .. MaxStarts
                BY DEF TypeOK
            <4>. QED
                BY <4>1, Constants
        <3>. QED
            BY <3>1, <3>2
    <2>. QED
        BY <2>2, <2>3
<1>. QED
    BY <1>1, TypeCorrect, ControlInvariant, LifeInvariant, PTL DEF Spec, DrainedAtEnd

\* Lua is told "already running" only for a dispatcher at work, an end still to
\* be handled, or the batons of a call that failed (winsvc.c:346-348, 355-420).
THEOREM RefusedOnlyForReason == Spec => RefusedForReason
<1>1. LifeInv /\ [Next]_vars =>
        [SpawnRefused => \E n \in Spawns :
            Running(n) \/ endSent[n] \/ (n <= spawns /\ dispAt[n] = "none")]_vars
    BY DEF LifeInv, ReasonInv, SpawnRefused, NotRunning
<1>. QED
    BY <1>1, LifeInvariant, PTL DEF Spec, RefusedForReason

=============================================================================
