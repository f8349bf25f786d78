-------------------------- MODULE NotificationService --------------------------
(***************************************************************************)
(* The queue of notifications and the two screens that follow it in the    *)
(* browser: the centre of the managers and the bell of every user.  Each   *)
(* screen has the steps of the queue that it can see among its own, so an  *)
(* instance follows one of the three at a time.                            *)
(***************************************************************************)
EXTENDS NotificationQueue, NotificationCentre, InboxBell

VARIABLE stage \* which of the three goes on

serviceVars == <<stage, vars, centreVars, bellVars>>

\* Those that do not go on have nothing to do.
ServiceInit ==
    /\ stage \in {"queue", "centre", "bell"}
    /\ Init /\ CentreInit /\ BellInit
    /\ stage # "queue" => owner = [s \in Subs |-> NoUser]
    /\ stage # "centre" => notice = [n \in Notices |-> Absent]
    /\ stage # "bell" => inbox = [m \in Messages |-> "none"]

ServiceNext ==
    /\ UNCHANGED stage
    /\ IF stage = "queue" THEN Next ELSE UNCHANGED vars
    /\ IF stage = "centre" THEN CentreNext ELSE UNCHANGED centreVars
    /\ IF stage = "bell" THEN BellNext ELSE UNCHANGED bellVars

\* The fairness of each, while it goes on.
ServiceFairness ==
    /\ Fairness
    /\ \A n \in Notices : WF_centreVars(stage = "centre" /\ noticeGoesOn(n))
    /\ WF_centreVars(stage = "centre" /\ pollList) /\ WF_centreVars(stage = "centre" /\ pollDetail)
    /\ \A c \in Calls : WF_centreVars(stage = "centre" /\ callGoesOn(c))
    /\ WF_bellVars(stage = "bell" /\ everyMinute)
    /\ \A s \in Slots : WF_bellVars(stage = "bell" /\ answerGoesOn(s))

ServiceSpec == ServiceInit /\ [][ServiceNext]_serviceVars /\ ServiceFairness
-----------------------------------------------------------------------------
\* What the screens show settles: a state that is shown as under way does not
\* stay when it is over, and the bell agrees with the inbox in the end.
ScreensSettle == ShownStatusSettles /\ BellSettles
=============================================================================
