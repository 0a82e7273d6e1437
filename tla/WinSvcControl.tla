---------------------------- MODULE WinSvcControl ----------------------------
(***************************************************************************)
(* The bridge implements ServiceControl, and the inductive invariant that  *)
(* shows it: who holds the control under way, from the moment HandlerEx    *)
(* stores it to the moment it returns.                                     *)
(***************************************************************************)
EXTENDS WinSvc

Control == INSTANCE ServiceControl WITH gone <- ~Up

\* HandlerEx on the dispatcher thread, svchandler_cb on the loop thread and the
\* event between them are, to the SCM, one handler called once for each control
\* and answered in order (winsvc.c:81-112).
ControlSpec == Control!Spec

\* HandlerEx is running for baton b.
UnderControl(b) == dispAt[b[1]] \in InHandlerEx /\ dispS[b[1]] = b[2]

\* The loop thread is in svchandler_cb of b.
Handling(b) == loopB = b /\ loopAt \in {"handler", "set"}

\* A dispatcher that runs, or whose end message is under way, is the newest one,
\* and gBatons is its table.
DispatcherInv ==
    /\ \A n \in Spawns : Running(n) \/ endSent[n] =>
        n = spawns /\ gBatons # {} /\ gBatons = {n} \X Services
    /\ \A n \in Spawns : endSent[n] => dispAt[n] = "gone"
    /\ \A n \in Spawns : n > spawns => dispAt[n] = "none" /\ ~endSent[n]
    /\ \A b \in gBatons : baton[b] = "live"

\* The control under way has the number nreq.  Its message, svchandler_cb and the
\* event pass it on: at any time exactly one of them has it.
PassingInv ==
    \A b \in Batons :
        /\ UnderControl(b) => nreq > 0 /\ block[b].req = nreq /\ answer[nreq] = NotYet
        /\ ctlSent[b] \/ Handling(b) =>
            UnderControl(b) /\ dispAt[b[1]] = "wait" /\ ~blockEnd[b]
        /\ ctlSent[b] => ~Handling(b)
        /\ UnderControl(b) /\ dispAt[b[1]] = "send" => ~blockEnd[b]
        /\ UnderControl(b) /\ dispAt[b[1]] = "wait" =>
            ctlSent[b] \/ Handling(b) \/ blockEnd[b]

\* What the handler has settled on, at each point of that passage.
SettledInv ==
    \A b \in Batons : UnderControl(b) =>
        LET settled == handled[nreq] = block[b].return_code
            unsettled == handled[nreq] = NotYet
        IN  /\ dispAt[b[1]] \in {"reset", "send"} => unsettled
            /\ ctlSent[b] => unsettled
            /\ Handling(b) /\ loopAt = "handler" => unsettled
            /\ Handling(b) /\ loopAt = "set" => settled
            /\ dispAt[b[1]] = "wait" /\ blockEnd[b] => settled
            /\ dispAt[b[1]] = "read" => settled

\* Only the newest control can be unanswered, and only while HandlerEx runs.
HistoryInv ==
    \A r \in Requests :
        /\ r > nreq => handled[r] = NotYet /\ answer[r] = NotYet
        /\ r <= nreq /\ answer[r] = NotYet =>
            r = nreq /\ \E n \in Spawns : dispAt[n] \in InHandlerEx
        /\ answer[r] # NotYet => answer[r] = handled[r]

\* The inductive invariant: at most one dispatcher, one control under way, and
\* one holder of it (winsvc.c:81-112, 301-340, 346-352).
ControlInv == DispatcherInv /\ PassingInv /\ SettledInv /\ HistoryInv
=============================================================================
