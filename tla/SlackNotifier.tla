--------------------------- MODULE SlackNotifier ---------------------------
(***************************************************************************)
(* slack.py's SlackNotifier: notify() starts a thread of its own for each  *)
(* message, which posts it up to MAX_ATTEMPTS times.  A post may reach     *)
(* Slack and its answer be lost; threads run side by side and die with the *)
(* process, so messages may come twice, out of order, or not at all.       *)
(***************************************************************************)
EXTENDS Naturals

CONSTANTS
    Messages,    \* the messages watched, each named by the flip it reports
    MaxAttempts  \* MAX_ATTEMPTS

ASSUME SlackAssumption == MaxAttempts \in Nat \ {0}

VARIABLE message  \* message[m]: its thread, posts made, times it arrived

NoMessage == [thread |-> "none", attempts |-> 0, delivered |-> 0]

SlackInit == message = [m \in Messages |-> NoMessage]

Sending(m) == message[m].thread = "sending"

\* notify()
Notify(m) ==
    /\ message[m] = NoMessage
    /\ message' = [message EXCEPT ![m].thread = "sending"]

\* Mutants: the last attempt is seen one too early; posts are counted in a ring.
LastTooEarly(n) == n + 1 >= MaxAttempts
CountedInARing(m) == (message[m].attempts + 1) % MaxAttempts

IsLast(n) == n = MaxAttempts

Counted(m) == message[m].attempts + 1

\* One post of _send_with_retries(): it arrives or not, and its answer comes
\* back as a success or not.  Between two of them the thread sleeps.
Attempt(m) ==
    /\ Sending(m)
    /\ \E arrives, answered \in BOOLEAN :
          /\ answered => arrives
          /\ message' = [message EXCEPT ![m] =
                [thread |-> IF answered THEN "sent"
                            ELSE IF IsLast(Counted(m)) THEN "given_up" ELSE "sending",
                 attempts |-> Counted(m),
                 delivered |-> IF arrives /\ @.delivered < MaxAttempts
                               THEN @.delivered + 1 ELSE @.delivered]]

\* Daemon threads: the process does not wait for them.
ThreadsDie ==
    message' = [m \in Messages |->
        IF Sending(m) THEN [message[m] EXCEPT !.thread = "killed"] ELSE message[m]]

-----------------------------------------------------------------------------
\* A message has arrived if its thread ended well, and its thread gives it up
\* after no less than MAX_ATTEMPTS posts.
SlackIsHonest ==
    \A m \in Messages :
        /\ message[m] \in [thread : {"none", "sending", "sent", "given_up", "killed"},
                           attempts : 0..MaxAttempts, delivered : 0..MaxAttempts]
        /\ message[m].thread = "sent" => message[m].delivered > 0
        /\ message[m].thread = "given_up" => message[m].attempts = MaxAttempts

\* No thread is left posting for ever, however Slack behaves.
EveryMessageEnds == \A m \in Messages : Sending(m) ~> ~Sending(m)
=============================================================================
