----------------------------- MODULE Published -----------------------------
(***************************************************************************)
(* What becomes of a confirmed flip: main.py's _on_link_flip() has it      *)
(* posted to Slack in the middle of the cycle, and the cycle's last call,  *)
(* state.update(), publishes and logs it.  The poll loop of FailoverLog    *)
(* and the threads of SlackNotifier, which the process takes down with it. *)
(***************************************************************************)
EXTENDS FailoverLog, SlackNotifier

\* The threads share only the HTTP session, which no post changes: some of the
\* messages are enough to watch.
ASSUME PublishedAssumption == Messages \subseteq 1..MaxFlips

pubVars == <<vars, message>>

PubInit == Init /\ SlackInit

\* Mutant: only failovers are worth a message.
FailoversOnly(to) == to = Backup

IsAnnounced(to) == TRUE

CycleFlips ==
    /\ RunCycle
    /\ flips' # flips
    /\ IF flips' \in Messages /\ IsAnnounced(confirmed') THEN Notify(flips') ELSE UNCHANGED message

Publish ==
    /\ \/ RunCycle /\ flips' = flips
       \/ Update \/ AppendEvent \/ Save \/ Release
    /\ UNCHANGED message

PollThread == CycleFlips \/ Publish

PostMessage(m) == Attempt(m) /\ UNCHANGED vars

GoesDown == (ProcessCrash \/ PowerLoss) /\ ThreadsDie

PubNext ==
    \/ PollThread
    \/ \E m \in Messages : PostMessage(m)
    \/ (Snapshot \/ RenameSettles) /\ UNCHANGED message
    \/ GoesDown

\* Every post has a timeout (slack.py:14), so a thread is never stuck in one.
PubFairness == \A m \in Messages : WF_pubVars(PostMessage(m))

PubSpec == PubInit /\ [][PubNext]_pubVars /\ PubFairness

-----------------------------------------------------------------------------
\* Whoever reads of a flip in the log, before or after crashes and power
\* losses, can know of it from Slack: it was announced before it was logged,
\* and the message is on its way, has arrived, or was given up or cut off.
LoggedIsAnnounced ==
    \A i \in 1..Len(log) : log[i].at \in Messages => message[log[i].at].thread # "none"
=============================================================================
