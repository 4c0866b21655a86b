------------------------------ MODULE SessionLog ------------------------------
(***************************************************************************)
(* What a session timeline promises its readers: it only grows, at its     *)
(* end, by one event at a time, and no event is in it twice.               *)
(***************************************************************************)
EXTENDS Sequences, Integers

CONSTANTS Sessions, Appends

VARIABLE log

logVars == <<log>>

Written == UNION {{log[s][n] : n \in 1 .. Len(log[s])} : s \in Sessions}

LogInit == log = [s \in Sessions |-> <<>>]

Write(s, a) ==
    /\ a \notin Written
    /\ log' = [log EXCEPT ![s] = Append(@, a)]

LogNext == \E s \in Sessions, a \in Appends : Write(s, a)

LogSpec == LogInit /\ [][LogNext]_logVars

=============================================================================
