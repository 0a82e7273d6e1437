--------------------------- MODULE ServiceControl ---------------------------
(***************************************************************************)
(* What the service bridge promises the service control manager, seen from *)
(* outside: a control is handled once, by one call of the Lua handler, and *)
(* what that call settles on is what the SCM is told.  Controls come one   *)
(* at a time; each is answered, unless the process goes first.             *)
(***************************************************************************)
EXTENDS Integers

CONSTANTS MaxControls, Codes, NotYet

VARIABLES
    nreq,       \* controls sent so far
    handled,    \* the code the handler settled on, for each control
    answer,     \* the code the SCM was told
    gone        \* the process has ended

vars == <<nreq, handled, answer, gone>>

Requests == 1 .. MaxControls

Init ==
    /\ nreq = 0
    /\ handled = [r \in Requests |-> NotYet]
    /\ answer = [r \in Requests |-> NotYet]
    /\ gone = FALSE

Send ==
    /\ ~gone
    /\ nreq < MaxControls
    /\ nreq > 0 => answer[nreq] # NotYet
    /\ nreq' = nreq + 1
    /\ UNCHANGED <<handled, answer, gone>>

Handle ==
    /\ ~gone
    /\ nreq > 0 /\ handled[nreq] = NotYet
    /\ \E code \in Codes : handled' = [handled EXCEPT ![nreq] = code]
    /\ UNCHANGED <<nreq, answer, gone>>

Answer ==
    /\ ~gone
    /\ nreq > 0 /\ handled[nreq] # NotYet /\ answer[nreq] = NotYet
    /\ answer' = [answer EXCEPT ![nreq] = handled[nreq]]
    /\ UNCHANGED <<nreq, handled, gone>>

Leave ==
    /\ ~gone
    /\ gone' = TRUE
    /\ UNCHANGED <<nreq, handled, answer>>

Next == Send \/ Handle \/ Answer \/ Leave

Safe == Init /\ [][Next]_vars

Spec == Safe /\ WF_vars(Handle) /\ WF_vars(Answer)
=============================================================================
