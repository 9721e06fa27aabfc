----------------------------- MODULE MCDiscord -----------------------------
(***************************************************************************)
(* The instance of the Discord adapter that TLC checks.                    *)
(***************************************************************************)
EXTENDS Discord, TLC

\* What no guard and no property reads is left out: which client a channel is of,
\* what a send did before it ended, how often a stopped timer fired, whether a
\* silence was reported, what a measurement that is off knew, what became of a
\* client no one uses or waits for, and of the refreshes all but how many are on
\* their way.
MCSend(s) ==
  [at |-> send[s].at, notice |-> send[s].notice /\ (At(s, "asked") \/ At(s, "fetching")),
   ended |-> IF At(s, "ending") THEN send[s].ended ELSE None,
   raised |-> IF At(s, "ending") \/ At(s, "sending") THEN send[s].raised ELSE {}]

Pending == {c \in Clients : login[c] = "pending"}

MCView ==
  <<client, Pending, closing, attempted, live \cap (met \cup Pending),
    met \cap (live \cup {client}), dm = None,
    [s \in Sends |-> MCSend(s)], handler, active, timer, [m \in timer |-> ticks[m]], cleared,
    IF monitor.on THEN [monitor EXCEPT !.reported = FALSE]
    ELSE [Unmeasured EXCEPT !.probing = monitor.probing], issued - landed,
    [m \in Messages |-> IF last[m] > landed THEN last[m] - landed ELSE 0]>>
=============================================================================
