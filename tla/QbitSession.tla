---------------------------- MODULE QbitSession ----------------------------
(***************************************************************************)
(* qbittorrent.py's client: a session that logs in before its first        *)
(* request, and that answers a 403 by one new login and one retry.  Each   *)
(* exchange with the app may fail, before the app acts or after it (a lost *)
(* reply), and the app may forget the session between any two of them.     *)
(*                                                                         *)
(* The app is external.  Whether it takes the credentials, and whether it  *)
(* asks for any (it can be told to trust the local network), is fixed for  *)
(* a behaviour, as is what the client was configured with.                 *)
(***************************************************************************)
EXTENDS Naturals

CONSTANTS
    Limits,     \* the limits a caller sets
    NoCall      \* no call is being made

\* get_download_speed(), set_download_limit() and set_upload_limit()
Calls == [what : {"speed"}] \cup [what : {"download", "upload"}, value : Limits]

ASSUME QbitSessionAssumption == NoCall \notin Calls

VARIABLES
    pc,         \* what the client does next
    logged_in,  \* _logged_in
    call,       \* the call being made
    result,     \* how the last call ended
    settings,   \* the limits set in the app
    session,    \* the app accepts the session's cookie
    given,      \* what the client was given: a user, a password
    app,        \* whether the app takes them, and whether it needs them
    lapses,     \* history: the app forgetting the session, in this call
    broken      \* history: an exchange of this call failed

vars == <<pc, logged_in, call, result, settings, session, given, app, lapses, broken>>

TypeOK ==
    /\ pc \in {"idle", "login", "request", "relogin", "retry"}
    /\ call \in Calls \cup {NoCall}
    /\ call = NoCall <=> pc = "idle"
    /\ result \in {"none", "ok", "error"}
    /\ settings \in [{"download", "upload"} -> Limits]
    /\ given \in [user : BOOLEAN, password : BOOLEAN]
    /\ app \in [accepts : BOOLEAN, open : BOOLEAN]
    /\ {logged_in, session, broken} \subseteq BOOLEAN
    /\ logged_in => given.user /\ given.password
    /\ lapses \in 0..2

Init ==
    /\ pc = "idle"
    /\ logged_in = FALSE
    /\ call = NoCall
    /\ result = "none"
    /\ settings \in [{"download", "upload"} -> Limits]
    /\ session = FALSE
    /\ given \in [user : BOOLEAN, password : BOOLEAN]
    /\ app \in [accepts : BOOLEAN, open : BOOLEAN]
    /\ lapses = 0
    /\ broken = FALSE

-----------------------------------------------------------------------------
\* The app's side of a call it carries out.
Effect(c, s) == IF c.what = "speed" THEN s ELSE [s EXCEPT ![c.what] = c.value]

Raise == pc' = "idle" /\ result' = "error" /\ call' = NoCall

\* A method of the client is called; _request() logs in first if it has to.
Begin ==
    /\ pc = "idle"
    /\ call' \in Calls
    /\ pc' = IF given.user /\ ~logged_in THEN "login" ELSE "request"
    /\ lapses' = IF logged_in /\ ~session THEN 1 ELSE 0
    /\ broken' = FALSE
    /\ UNCHANGED <<logged_in, result, settings, session, given, app>>

HasCredentials == given.user /\ given.password

\* _login(): nothing without credentials, "Fails." for bad ones.
Login(next) ==
    IF ~HasCredentials
    THEN pc' = next /\ UNCHANGED <<logged_in, call, result, session>>
    ELSE IF app.accepts \/ app.open
    THEN /\ pc' = next
         /\ logged_in' = TRUE
         /\ session' = TRUE
         /\ UNCHANGED <<call, result>>
    ELSE Raise /\ UNCHANGED <<logged_in, session>>

\* Mutant: the request is repeated on the session the app has forgotten.
RetryAtOnce == "retry"

AfterForbidden == "relogin"

\* Mutant: the status of the retried request is not looked at.
ForbiddenUnseen == pc' = "idle" /\ result' = "ok" /\ call' = NoCall

\* raise_for_status()
ForbiddenAgain == Raise

\* The session's one request, and what _request() makes of its answer.
Exchange ==
    IF app.open \/ session
    THEN /\ settings' = Effect(call, settings)
         /\ pc' = "idle" /\ result' = "ok" /\ call' = NoCall
         /\ UNCHANGED logged_in
    ELSE /\ IF pc = "request" /\ given.user
            THEN pc' = AfterForbidden /\ logged_in' = FALSE /\ UNCHANGED <<call, result>>
            ELSE ForbiddenAgain /\ UNCHANGED logged_in
         /\ UNCHANGED settings

LogIn ==
    /\ \/ pc = "login" /\ Login("request")
       \/ pc = "relogin" /\ Login("retry")
    /\ UNCHANGED <<settings, given, app, lapses, broken>>

Request ==
    /\ pc \in {"request", "retry"}
    /\ Exchange
    /\ UNCHANGED <<session, given, app, lapses, broken>>

\* Timeout, connection error or an error status: before the app has acted, or
\* after it.  A login whose reply is lost leaves the client without its cookie.
ExchangeFails ==
    /\ pc \in {"login", "relogin", "request", "retry"}
    /\ pc \in {"login", "relogin"} => HasCredentials
    /\ Raise
    /\ broken' = TRUE
    /\ \/ UNCHANGED settings
       \/ /\ pc \in {"request", "retry"} /\ (app.open \/ session)
          /\ settings' = Effect(call, settings)
    /\ UNCHANGED <<logged_in, session, given, app, lapses>>

\* The app restarts or ages the session out.
Expire ==
    /\ session
    /\ session' = FALSE
    /\ lapses' = IF pc = "idle" \/ lapses = 2 THEN lapses ELSE lapses + 1
    /\ UNCHANGED <<pc, logged_in, call, result, settings, given, app, broken>>

Next == Begin \/ LogIn \/ Request \/ ExchangeFails \/ Expire

Spec == Init /\ [][Next]_vars

-----------------------------------------------------------------------------
\* A call has one of the outcomes its caller reckons with: success only if the
\* app has acted, and a retry or a failure never makes it act twice.
Call == INSTANCE AppCall
ImplementsAppCall == Call!Spec

\* The app lets this client in.
MayEnter == app.open \/ (HasCredentials /\ app.accepts)

\* The one retry is enough: an error tells of a failed exchange, of bad
\* credentials, or of a session lost twice within one call; one that had
\* lapsed before the call, or lapses during it, is never noticed.
OneLapseIsAbsorbed ==
    [][ result' = "error" /\ call # NoCall /\ call' = NoCall
        => broken' \/ lapses >= 2 \/ ~MayEnter ]_vars
=============================================================================
