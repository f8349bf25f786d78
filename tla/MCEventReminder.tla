---- MODULE MCEventReminder ----
EXTENDS EventReminder, TLC

\* The requests of one event are interchangeable.
Symmetric == Permutations(Requests)

\* What a run goes by, unless it is about what the message tells: that is
\* written and read by nothing else.  Nobody looks at the dates again once the
\* reminder was pushed, nor at the leads once the event was recalled.
Dates(r) == IF sent THEN [r EXCEPT !.at = 0] ELSE r
Steps == <<now, event, rule, Dates(note), [q \in Requests |-> Dates(request[q])], updates, lost, changes,
           mended, recalled, IF sent \/ recalled THEN {} ELSE leads, sent>>
====
