------------------------- MODULE QbitSession_proofs -------------------------
(***************************************************************************)
(* The qBittorrent client for every set of limits: its types, and that a   *)
(* call through a session, logins, retry and lost replies included, is a   *)
(* call as AppCall has it.                                                 *)
(***************************************************************************)
EXTENDS QbitSession, TLAPS

\* The steps that end a call or leave it as it is, as the caller sees them.
Visible == Call!Done \/ Call!Failed \/ Call!Unanswered \/ UNCHANGED Call!vars

\* What the app makes of a call is again a setting of its two limits.
LEMMA EffectType ==
    ASSUME NEW c \in Calls, NEW s \in [{"download", "upload"} -> Limits]
    PROVE  Effect(c, s) \in [{"download", "upload"} -> Limits]
<1>1. CASE c.what = "speed"
  BY <1>1 DEF Effect
<1>2. CASE c.what # "speed"
  <2>1. c \in [what : {"download", "upload"}, value : Limits]
    BY <1>2 DEF Calls
  <2> QED
    BY <1>2, <2>1 DEF Effect
<1> QED
  BY <1>1, <1>2

-----------------------------------------------------------------------------
\* A call begins with nothing said of it yet.
LEMMA BeginStep == TypeOK /\ Begin => TypeOK' /\ Call!Begin
<1> SUFFICES ASSUME TypeOK, Begin PROVE TypeOK' /\ Call!Begin
  OBVIOUS
<1>1. call = NoCall /\ call' \in Calls /\ UNCHANGED <<settings, result>>
  BY DEF Begin, TypeOK
<1>2. call' # NoCall
  BY <1>1, QbitSessionAssumption DEF QbitSessionAssumption
<1>3. /\ pc' \in {"login", "request"} /\ lapses' \in 0..2 /\ broken' = FALSE
      /\ UNCHANGED <<logged_in, session, given, app>>
  BY DEF Begin
<1>4. TypeOK'
  BY <1>1, <1>2, <1>3 DEF TypeOK
<1> QED
  BY <1>1, <1>4 DEF Call!Begin

\* A login is part of the call it is made for; a refused one ends it.
LEMMA LogInStep == TypeOK /\ LogIn => TypeOK' /\ Visible
<1> SUFFICES ASSUME TypeOK, LogIn PROVE TypeOK' /\ Visible
  OBVIOUS
<1>1. /\ call \in Calls /\ call # NoCall
      /\ UNCHANGED <<settings, given, app, lapses, broken>>
  BY DEF LogIn, TypeOK
<1>2. PICK next \in {"request", "retry"} : Login(next)
  BY DEF LogIn
<1>3. CASE ~HasCredentials
  <2>1. pc' = next /\ UNCHANGED <<logged_in, call, result, session>>
    BY <1>2, <1>3 DEF Login
  <2> QED
    BY <1>1, <2>1 DEF TypeOK, Visible, Call!vars
<1>4. CASE HasCredentials /\ (app.accepts \/ app.open)
  <2>1. /\ pc' = next /\ logged_in' = TRUE /\ session' = TRUE
        /\ UNCHANGED <<call, result>>
    BY <1>2, <1>4 DEF Login
  <2> QED
    BY <1>1, <1>4, <2>1 DEF TypeOK, HasCredentials, Visible, Call!vars
<1>5. CASE HasCredentials /\ ~(app.accepts \/ app.open)
  <2>1. /\ pc' = "idle" /\ result' = "error" /\ call' = NoCall
        /\ UNCHANGED <<logged_in, session>>
    BY <1>2, <1>5 DEF Login, Raise
  <2>2. Call!Failed
    BY <1>1, <2>1 DEF Call!Failed, Call!Return
  <2> QED
    BY <1>1, <2>1, <2>2 DEF TypeOK, Visible
<1> QED
  BY <1>3, <1>4, <1>5

\* A request ends the call, unless it is answered by the first 403.
LEMMA RequestStep == TypeOK /\ Request => TypeOK' /\ Visible
<1> SUFFICES ASSUME TypeOK, Request PROVE TypeOK' /\ Visible
  OBVIOUS
<1>1. /\ call \in Calls /\ call # NoCall
      /\ UNCHANGED <<session, given, app, lapses, broken>>
  BY DEF Request, TypeOK
<1>2. CASE app.open \/ session
  <2>1. /\ settings' = Effect(call, settings) /\ UNCHANGED logged_in
        /\ pc' = "idle" /\ result' = "ok" /\ call' = NoCall
    BY <1>2 DEF Request, Exchange
  <2>2. settings' \in [{"download", "upload"} -> Limits]
    BY <1>1, <2>1, EffectType DEF TypeOK
  <2>3. Call!Done
    BY <1>1, <2>1 DEF Call!Done, Call!Return
  <2> QED
    BY <1>1, <2>1, <2>2, <2>3 DEF TypeOK, Visible
<1>3. CASE ~(app.open \/ session) /\ pc = "request" /\ given.user
  <2>1. /\ pc' = "relogin" /\ logged_in' = FALSE
        /\ UNCHANGED <<call, result, settings>>
    BY <1>3 DEF Request, Exchange, AfterForbidden
  <2> QED
    BY <1>1, <2>1 DEF TypeOK, Visible, Call!vars
<1>4. CASE ~(app.open \/ session) /\ ~(pc = "request" /\ given.user)
  <2>1. /\ pc' = "idle" /\ result' = "error" /\ call' = NoCall
        /\ UNCHANGED <<settings, logged_in>>
    BY <1>4 DEF Request, Exchange, ForbiddenAgain, Raise
  <2>2. Call!Failed
    BY <1>1, <2>1 DEF Call!Failed, Call!Return
  <2> QED
    BY <1>1, <2>1, <2>2 DEF TypeOK, Visible
<1> QED
  BY <1>2, <1>3, <1>4

\* An exchange that fails ends the call, whether or not the app has acted.
LEMMA ExchangeFailsStep == TypeOK /\ ExchangeFails => TypeOK' /\ Visible
<1> SUFFICES ASSUME TypeOK, ExchangeFails PROVE TypeOK' /\ Visible
  OBVIOUS
<1>1. /\ call \in Calls /\ call # NoCall
      /\ pc' = "idle" /\ result' = "error" /\ call' = NoCall /\ broken' = TRUE
      /\ UNCHANGED <<logged_in, session, given, app, lapses>>
      /\ settings' = settings \/ settings' = Effect(call, settings)
  BY DEF ExchangeFails, Raise, TypeOK
<1>2. settings' \in [{"download", "upload"} -> Limits]
  BY <1>1, EffectType DEF TypeOK
<1>3. Call!Failed \/ Call!Unanswered
  BY <1>1 DEF Call!Failed, Call!Unanswered, Call!Return
<1> QED
  BY <1>1, <1>2, <1>3 DEF TypeOK, Visible

\* The app forgets the session behind the caller's back.
LEMMA ExpireStep == TypeOK /\ Expire => TypeOK' /\ Visible
<1> SUFFICES ASSUME TypeOK, Expire PROVE TypeOK' /\ Visible
  OBVIOUS
<1>1. lapses' \in 0..2
  BY DEF Expire, TypeOK
<1> QED
  BY <1>1 DEF Expire, TypeOK, Visible, Call!vars

-----------------------------------------------------------------------------
\* Every step keeps the types and is a step of AppCall or none.
LEMMA NextStep == TypeOK /\ [Next]_vars => TypeOK' /\ [Call!Next]_(Call!vars)
<1> SUFFICES ASSUME TypeOK, [Next]_vars PROVE TypeOK' /\ [Call!Next]_(Call!vars)
  OBVIOUS
<1>1. CASE Begin
  BY <1>1, BeginStep DEF Call!Next
<1>2. CASE LogIn \/ Request \/ ExchangeFails \/ Expire
  BY <1>2, LogInStep, RequestStep, ExchangeFailsStep, ExpireStep DEF Visible, Call!Next
<1>3. CASE UNCHANGED vars
  BY <1>3 DEF vars, TypeOK, Call!vars
<1> QED
  BY <1>1, <1>2, <1>3 DEF Next

\* The types hold to begin with.
LEMMA InitType == Init => TypeOK
<1> SUFFICES ASSUME Init PROVE TypeOK
  OBVIOUS
<1>1. /\ pc = "idle" /\ call = NoCall /\ result = "none" /\ lapses = 0
      /\ ~logged_in /\ {logged_in, session, broken} \subseteq BOOLEAN
  BY DEF Init
<1>2. /\ settings \in [{"download", "upload"} -> Limits]
      /\ given \in [user : BOOLEAN, password : BOOLEAN]
      /\ app \in [accepts : BOOLEAN, open : BOOLEAN]
  BY DEF Init
<1> QED
  BY <1>1, <1>2 DEF TypeOK

\* The client's fields, the app's settings and the session have their types
\* throughout; in particular the client only ever takes itself for logged in
\* when it has both a user and a password.
THEOREM TypeCorrect == Spec => []TypeOK
BY InitType, NextStep, PTL DEF Spec

\* Whatever the session goes through, a call returns once, with success only
\* if the app has carried it out, and is carried out at most once.
THEOREM Refinement == Spec => ImplementsAppCall
<1>1. Init => Call!Init
  BY DEF Init, Call!Init
<1> QED
  BY <1>1, TypeCorrect, NextStep, PTL DEF Spec, ImplementsAppCall, Call!Spec

-----------------------------------------------------------------------------
\* A client the app lets in, and only for its credentials.
EntersByLogin == HasCredentials /\ app.accepts /\ ~app.open

\* How often the session was lost before the client can be where it is: a
\* request that is about to be turned away has lost it once, a retry twice.
LapsesTold ==
    EntersByLogin =>
        /\ pc = "request" /\ ~session => lapses >= 1
        /\ pc \in {"relogin", "retry"} => lapses >= 1
        /\ pc = "retry" /\ ~session => lapses >= 2

\* A call starts on a session it has just lost, or logs in first.
LEMMA BeginTold == TypeOK /\ Begin => LapsesTold'
<1> SUFFICES ASSUME TypeOK, Begin, EntersByLogin' PROVE LapsesTold'
  BY DEF LapsesTold
<1>1. /\ given.user
      /\ pc' = IF given.user /\ ~logged_in THEN "login" ELSE "request"
      /\ lapses' = IF logged_in /\ ~session THEN 1 ELSE 0
      /\ session' = session
  BY DEF Begin, EntersByLogin, HasCredentials
<1>2. {logged_in, session} \subseteq BOOLEAN
  BY DEF TypeOK
<1> QED
  BY <1>1, <1>2 DEF LapsesTold

\* A login gives the client a session, and a request takes it nowhere but to
\* the login that precedes the retry.
LEMMA WithinCallTold == TypeOK /\ LapsesTold /\ (LogIn \/ Request) => LapsesTold'
<1> SUFFICES ASSUME TypeOK, LapsesTold, LogIn \/ Request, EntersByLogin' PROVE LapsesTold'
  BY DEF LapsesTold
<1>1. UNCHANGED <<given, app, lapses>>
  BY DEF LogIn, Request
<1>2. EntersByLogin
  BY <1>1 DEF EntersByLogin, HasCredentials
<1>3. CASE LogIn
  <2>1. PICK next \in {"request", "retry"} :
            Login(next) /\ (next = "retry" => pc = "relogin")
    BY <1>3 DEF LogIn
  <2>2. pc' = next /\ session' = TRUE
    BY <1>2, <2>1 DEF Login, EntersByLogin
  <2> QED
    BY <1>1, <1>2, <2>1, <2>2 DEF LapsesTold
<1>4. CASE Request
  <2>1. UNCHANGED session /\ pc \in {"request", "retry"}
    BY <1>4 DEF Request
  <2>2. CASE session
    BY <1>4, <2>2 DEF Request, Exchange, LapsesTold
  <2>3. CASE ~session
    <3>1. pc' = "idle" \/ (pc = "request" /\ pc' = "relogin")
      BY <1>2, <1>4, <2>3 DEF Request, Exchange, AfterForbidden, ForbiddenAgain, Raise,
                             EntersByLogin
    <3> QED
      BY <1>1, <1>2, <2>3, <3>1 DEF LapsesTold
  <2> QED
    BY <2>2, <2>3
<1> QED
  BY <1>3, <1>4

\* Every loss of the session within a call is counted.
LEMMA ExpireTold == TypeOK /\ LapsesTold /\ Expire => LapsesTold'
<1> SUFFICES ASSUME TypeOK, LapsesTold, Expire, EntersByLogin' PROVE LapsesTold'
  BY DEF LapsesTold
<1>1. UNCHANGED <<pc, given, app>> /\ session /\ lapses \in 0..2
  BY DEF Expire, TypeOK
<1>2. EntersByLogin
  BY <1>1 DEF EntersByLogin, HasCredentials
<1>3. CASE pc = "idle"
  BY <1>1, <1>3 DEF LapsesTold
<1>4. CASE pc # "idle" /\ lapses = 2
  <2>1. lapses' = 2
    BY <1>4 DEF Expire
  <2> QED
    BY <2>1 DEF LapsesTold
<1>5. CASE pc # "idle" /\ lapses # 2
  <2>1. lapses' = lapses + 1
    BY <1>5 DEF Expire
  <2>2. pc = "retry" => lapses >= 1
    BY <1>2 DEF LapsesTold
  <2> QED
    BY <1>1, <2>1, <2>2 DEF LapsesTold
<1> QED
  BY <1>3, <1>4, <1>5

\* The count and the client's progress stay together.
LEMMA ToldInductive == Spec => [](TypeOK /\ LapsesTold)
<1>1. Init => LapsesTold
  BY DEF Init, LapsesTold
<1>2. TypeOK /\ LapsesTold /\ [Next]_vars => LapsesTold'
  <2> SUFFICES ASSUME TypeOK, LapsesTold, [Next]_vars PROVE LapsesTold'
    OBVIOUS
  <2>1. CASE ExchangeFails
    BY <2>1 DEF ExchangeFails, Raise, LapsesTold
  <2>2. CASE UNCHANGED vars
    BY <2>2 DEF vars, LapsesTold, EntersByLogin, HasCredentials
  <2> QED
    BY <2>1, <2>2, BeginTold, WithinCallTold, ExpireTold DEF Next
<1> QED
  BY InitType, <1>1, <1>2, NextStep, PTL DEF Spec

\* _request()'s one new login is enough: a call of a client the app would let in
\* raises only if an exchange failed or the session was lost twice during it,
\* once before the first 403 and once more before the second.
THEOREM RetryIsEnough == Spec => OneLapseIsAbsorbed
<1>1. TypeOK /\ LapsesTold /\ [Next]_vars
        => [result' = "error" /\ call # NoCall /\ call' = NoCall
              => broken' \/ lapses >= 2 \/ ~MayEnter]_vars
  <2> SUFFICES ASSUME TypeOK, LapsesTold, Next,
                      result' = "error", call # NoCall, call' = NoCall, MayEnter,
                      ~broken'
               PROVE  lapses >= 2
    BY DEF TypeOK
  <2>1. CASE LogIn
    <3>1. PICK next \in {"request", "retry"} : Login(next)
      BY <2>1 DEF LogIn
    <3> QED
      BY <3>1 DEF Login, MayEnter
  <2>2. CASE Request
    <3>1. ~app.open /\ ~session
      BY <2>2 DEF Request, Exchange
    <3>2. EntersByLogin /\ given.user
      BY <3>1 DEF MayEnter, EntersByLogin, HasCredentials
    <3>3. pc = "retry"
      BY <2>2, <3>1, <3>2 DEF Request, Exchange
    <3> QED
      BY <3>1, <3>2, <3>3 DEF LapsesTold
  <2>3. CASE Begin \/ ExchangeFails \/ Expire
    BY <2>3, QbitSessionAssumption
       DEF Begin, ExchangeFails, Expire, TypeOK, QbitSessionAssumption
  <2> QED
    BY <2>1, <2>2, <2>3 DEF Next
<1> QED
  BY ToldInductive, <1>1, PTL DEF Spec, OneLapseIsAbsorbed
=============================================================================
