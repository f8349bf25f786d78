------------------------------ MODULE WebClient ------------------------------
(***************************************************************************)
(* The pages of the web application that write, and what a browser keeps   *)
(* for all of its tabs: the session and the push subscription.  A user has *)
(* one page open; leaving it loses what it keeps, and the pages share      *)
(* nothing but the records of the server, which each models for itself: an *)
(* instance follows one page, or one of the two, at a time, the scene.     *)
(***************************************************************************)
EXTENDS ScheduleEditor, MinistryDialog, RecordPages, SettingsPages, BrowserSession, PushDevice,
        DocumentShare

CONSTANT OpenPages \* the pages an instance follows

ASSUME OpenPagesAssumption == OpenPages \subseteq {"schedule", "ministry", "records", "settings", "session", "device", "share"}

VARIABLE scene

webVars == <<scene, editorVars, dialogVars, recordVars, settingVars, sessionVars, deviceVars, shareVars>>

\* A page that is not open begins in one way only.
WebInit ==
    /\ scene \in OpenPages
    /\ EditorInit /\ DialogInit /\ RecordPagesInit
    /\ SettingsInit /\ BrowserInit /\ PushInit /\ ShareInit
    /\ scene # "ministry" => employed = [m \in Ministries |-> {}]
    /\ scene # "records" => section = "members"
    /\ scene # "settings" => group = "profile"
    /\ scene # "device" => sessionOf = NoOne
    /\ scene # "share" => rowsOf = [f \in Searches |-> [weeks |-> Weeks, late |-> {}, version |-> 0]]

WebNext ==
    /\ UNCHANGED scene
    /\ IF scene = "schedule" THEN EditorNext ELSE UNCHANGED editorVars
    /\ IF scene = "ministry" THEN DialogNext ELSE UNCHANGED dialogVars
    /\ IF scene = "records" THEN RecordPagesNext ELSE UNCHANGED recordVars
    /\ IF scene = "settings" THEN SettingsNext ELSE UNCHANGED settingVars
    /\ IF scene = "session" THEN BrowserNext ELSE UNCHANGED sessionVars
    /\ IF scene = "device" THEN PushNext ELSE UNCHANGED deviceVars
    /\ IF scene = "share" THEN ShareNext ELSE UNCHANGED shareVars

WebSpec == WebInit /\ [][WebNext]_webVars
-----------------------------------------------------------------------------
WebTypeOK ==
    /\ scene \in OpenPages /\ EditorTypeOK /\ DialogTypeOK /\ RecordPagesTypeOK
    /\ SettingsTypeOK /\ BrowserTypeOK /\ PushTypeOK /\ ShareTypeOK
=============================================================================
