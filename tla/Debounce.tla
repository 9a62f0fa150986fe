------------------------------ MODULE Debounce ------------------------------
(***************************************************************************)
(* What LinkStateTracker promises: the confirmed link changes exactly when *)
(* the last Window readings all name another one.                          *)
(***************************************************************************)
EXTENDS Integers, Sequences

CONSTANTS
    Links,
    Initial,  \* the link confirmed at first, one of Links
    Window    \* how many readings confirm a link, at least one

VARIABLES
    confirmed,
    recent      \* the last Window readings, the latest one last

Slide(reading) ==
    IF Len(recent) < Window THEN Append(recent, reading)
                            ELSE Append(Tail(recent), reading)

Unanimous(window, reading) ==
    Len(window) = Window /\ \A i \in 1..Window : window[i] = reading

Init == confirmed = Initial /\ recent = <<>>

Read(reading) ==
    /\ recent' = Slide(reading)
    /\ confirmed' = IF Unanimous(recent', reading) THEN reading ELSE confirmed

Next == \E reading \in Links : Read(reading)

Spec == Init /\ [][Next]_<<confirmed, recent>>
=============================================================================
