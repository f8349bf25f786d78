\* Three requests, the longest queue holds one; Chromium may hang for ever.
SPECIFICATION FairSpec
CONSTANTS
    Requests = {r1, r2, r3}
    Documents = {d1, d2}
    MaxWaiting = 1
INVARIANTS
    SecondBrowserIsLate
    NoWastedDraw
PROPERTY EveryRequestIsAnswered
CHECK_DEADLOCK FALSE
