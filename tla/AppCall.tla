------------------------------ MODULE AppCall ------------------------------
(***************************************************************************)
(* What a call of one of the apps' clients promises its caller, the poll   *)
(* loop: it returns exactly once.  When it returns without an exception    *)
(* the app has acted on it; when it raises, the app has acted or has not,  *)
(* and the caller cannot tell which.  These are the outcomes Controller    *)
(* gives every call.                                                       *)
(***************************************************************************)
CONSTANTS
    Calls,             \* what may be asked of the app
    NoCall,            \* no call is being made
    Effect(_, _)       \* Effect(c, s): the app's settings s after call c

VARIABLES
    settings,   \* the app's settings
    call,       \* the call being made
    result      \* how the last call ended

vars == <<settings, call, result>>

Init == call = NoCall /\ result = "none"

Begin ==
    /\ call = NoCall
    /\ call' \in Calls
    /\ UNCHANGED <<settings, result>>

Return(how) ==
    /\ call # NoCall
    /\ call' = NoCall
    /\ result' = how

Done == Return("ok") /\ settings' = Effect(call, settings)
Failed == Return("error") /\ UNCHANGED settings
Unanswered == Return("error") /\ settings' = Effect(call, settings)

Next == Begin \/ Done \/ Failed \/ Unanswered

Spec == Init /\ [][Next]_vars
=============================================================================
