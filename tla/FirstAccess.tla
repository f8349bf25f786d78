------------------------------ MODULE FirstAccess ------------------------------
(***************************************************************************)
(* The first access of a user, and the application on the home page      *)
(* (onboarding/page.tsx, install-app-prompt.tsx, dashboard-shell.tsx,      *)
(* completeOnboarding of auth.service.ts).                                 *)
(*                                                                         *)
(* The wizard has three steps: install, allow notifications, finish; what  *)
(* it awaits in one of them may come when the user is in another.  Then a  *)
(* page of the application offers to install it, and the application asks  *)
(* to be installed again when the tenant has changed its icon.  One device *)
(* with one page open; nobody uninstalls, the application installed last   *)
(* is the one that opens and keeps its icon, and the wizard is enabled.    *)
(***************************************************************************)
EXTENDS Naturals

CONSTANTS
    Patches,     \* requests that finish the first access
    NoPatch,
    MaxBrand,    \* bound: versions of the tenant's icon (pwaUpdatedAt), 0 for none
    WholeBrands, \* those that have both a name and an icon
    MaxTurns     \* bound on what the user, the browser and the network do

ASSUME FirstAccessAssumption ==
    NoPatch \notin Patches /\ MaxBrand \in Nat /\ WholeBrands \subseteq 1..MaxBrand /\ MaxTurns \in Nat

VARIABLES
    phone,      \* the device: what is installed or on its way, and its push
    brandNow,   \* the version of the tenant
    local,      \* localStorage: versions dismissed, and the version installed
    completion, \* [done, audits] of the user
    patch,      \* where each request is at the API
    page,       \* the page open, the version it has and the prompt it holds
    wizard,     \* the state of the wizard
    marks,      \* stepState
    checks,     \* getPushStatus under way: [first, value]
    enabling,   \* how far enablePushNotifications is
    offer,      \* the state of the prompt of the application
    turns,
    outdated,   \* history: an older status was shown over a newer one
    overlapped  \* history: two requests to finish were past their read

firstVars ==
    <<phone, brandNow, local, completion, patch, page, wizard, marks, checks, enabling, offer, turns, outdated, overlapped>>
serverVars == <<completion, patch, overlapped>>
wizardVars == <<wizard, marks, checks, enabling, outdated>>

Steps == {"install", "notifications", "profile"}
NotComing == [brand |-> 0, by |-> "nobody"]
Check(first) == [first |-> first, value |-> "none"]

\* What a browser takes from the manifest of a page: the icon of the tenant, if
\* it has one whole, or that of the product, as in the wizard.
ManifestOf(b) == IF b \in WholeBrands THEN b ELSE 0

Spend == turns < MaxTurns /\ turns' = turns + 1
OnWizard == page.name = "wizard"
OnApp == page.name = "app"
Marked(step, mark) == marks' = [marks EXCEPT ![step] = mark]

\* goNext: the step after the given one, whatever step the user is in.
StepAfter(step) == IF step = "install" THEN "notifications" ELSE "profile"

\* getPushStatus; an iPhone has push in the application only.
PushStatusNow ==
    IF (phone.platform = "safari" /\ page.window = "tab") \/ phone.permission = "denied" THEN "blocked"
    ELSE IF phone.endpoint THEN "enabled"
    ELSE IF phone.permission = "default" THEN "default" ELSE "disabled"

PageOf(name, window, b) ==
    [name |-> name, window |-> window, brand |-> b, standalone |-> window = "app", prompt |-> FALSE, asked |-> FALSE,
     askedAs |-> 0]

\* The wizard as it is mounted; in the application of an iPhone its first step
\* is over.
StepIsOver(window) == phone.platform = "safari" /\ window = "app"
WizardOf(window) ==
    [shown |-> FALSE, step |-> IF StepIsOver(window) THEN "notifications" ELSE "install",
     push |-> "blocked", pushing |-> TRUE, finishing |-> NoPatch]
MarksOf(window) == [s \in Steps |-> IF s = "install" /\ StepIsOver(window) THEN "done" ELSE "pending"]

\* A mutated form of OfferOf, used by no action.
OfferOfEveryVersion(window, b) == [dismissed |-> b \in local.dismissed, notice |-> b \in WholeBrands /\ window = "app"]

\* The prompt of the application as its effect sets it, which in the Safari of
\* an iPhone takes the version for the one that will be installed.
OfferOf(window, b) ==
    [dismissed |-> b \in local.dismissed, notice |-> b \in WholeBrands /\ window = "app" /\ local.brand # b]
LocalOf(window, b) ==
    IF b \in WholeBrands /\ window = "tab" /\ phone.platform = "safari" THEN [local EXCEPT !.brand = b] ELSE local

\* The user has installed it: the version is dismissed, and kept if there is one.
LocalInstalled(b) ==
    [dismissed |-> local.dismissed \cup {b}, brand |-> IF b = 0 THEN local.brand ELSE b]

FirstAccessInit ==
    /\ phone \in [platform : {"safari", "android"}, installed : {FALSE}, brand : {0}, by : {"nobody"}, coming : {NotComing},
                  event : {FALSE}, endpoint : {FALSE}, permission : {"default"}, registered : {FALSE}]
    /\ brandNow = 0
    /\ local = [dismissed |-> {}, brand |-> 0]
    /\ completion = [done |-> FALSE, audits |-> 0]
    /\ patch = [p \in Patches |-> "idle"]
    /\ page = PageOf("wizard", "tab", 0)
    /\ wizard = WizardOf("tab") /\ marks = MarksOf("tab")
    /\ checks = {Check(TRUE)} /\ enabling = "none"
    /\ offer = [dismissed |-> TRUE, notice |-> FALSE]
    /\ turns = 0 /\ outdated = FALSE /\ overlapped = FALSE
-----------------------------------------------------------------------------
(* Pages *)

\* What a page awaits ends with it; a request at the API goes on.
OpensWizard(window) ==
    /\ page' = PageOf("wizard", window, 0)
    /\ wizard' = WizardOf(window) /\ marks' = MarksOf(window)
    /\ checks' = {Check(TRUE)} /\ enabling' = "none" /\ outdated' = FALSE
    /\ UNCHANGED <<local, offer>>

OpensApp(window) ==
    /\ page' = PageOf("app", window, brandNow)
    /\ offer' = OfferOf(window, brandNow) /\ local' = LocalOf(window, brandNow)
    /\ wizard' = [wizard EXCEPT !.finishing = NoPatch]
    /\ checks' = {} /\ enabling' = "none"
    /\ UNCHANGED <<marks, outdated>>

Forgotten == [p \in Patches |-> IF patch[p] = "done" THEN "idle" ELSE patch[p]]

\* The shell sends to the wizard whoever has not finished it.
visit(name, window) ==
    /\ Spend
    /\ window = "app" => phone.installed
    /\ IF name = "app" /\ completion.done THEN OpensApp(window) ELSE OpensWizard(window)
    /\ patch' = Forgotten
    /\ UNCHANGED <<phone, brandNow, completion, overlapped>>

\* The wizard asks who the user is, and sends away who has finished.
userRead ==
    /\ OnWizard /\ ~wizard.shown
    /\ IF completion.done THEN OpensApp(page.window)
       ELSE /\ wizard' = [wizard EXCEPT !.shown = TRUE]
            /\ UNCHANGED <<page, local, marks, checks, enabling, offer, outdated>>
    /\ UNCHANGED <<phone, brandNow, serverVars, turns>>
userNotRead ==
    /\ OnWizard /\ ~wizard.shown /\ Spend
    /\ page' = PageOf("login", page.window, 0)
    /\ checks' = {} /\ enabling' = "none"
    /\ UNCHANGED <<phone, brandNow, local, serverVars, wizard, marks, offer, outdated>>
-----------------------------------------------------------------------------
(* Installation *)

\* The guide for the Safari of an iPhone offers nothing to go on with.
ShowsGuide == phone.platform = "safari" /\ ~page.standalone
Offers(step) == OnWizard /\ wizard.shown /\ ~ShowsGuide /\ wizard.step = step

CanShowPrompt == OnApp /\ ~offer.notice /\ ~page.standalone /\ ~offer.dismissed /\ (page.prompt \/ phone.platform = "safari")

\* handleBeforeInstallPrompt of both pages.
beforeInstallPrompt ==
    /\ phone.platform = "android" /\ page.window = "tab" /\ page.name # "login" /\ ~page.prompt
    /\ ~(phone.installed /\ phone.brand = ManifestOf(page.brand)) /\ Spend
    /\ page' = [page EXCEPT !.prompt = TRUE, !.standalone = FALSE]
    /\ offer' = IF OnApp THEN [offer EXCEPT !.dismissed = page.brand \in local.dismissed] ELSE offer
    /\ UNCHANGED <<phone, brandNow, local, serverVars, wizardVars>>

\* handleInstall of both pages: the browser asks the user.
handleInstall ==
    /\ page.prompt /\ ~page.asked
    /\ (Offers("install") /\ ~page.standalone) \/ CanShowPrompt
    /\ page' = [page EXCEPT !.asked = TRUE, !.askedAs = page.brand]
    /\ UNCHANGED <<phone, brandNow, local, serverVars, wizardVars, offer, turns>>

\* The choice, wherever the user is by now, for the version at the click.  The
\* manifest may be newer.
choose(accepted, b) ==
    /\ page.asked /\ b \in {page.askedAs, brandNow}
    /\ page' = [page EXCEPT !.asked = FALSE, !.prompt = FALSE]
    /\ phone' = IF ~accepted THEN phone
                ELSE [phone EXCEPT !.coming = [brand |-> IF OnWizard THEN 0 ELSE ManifestOf(b),
                                               by |-> IF OnApp /\ b = page.askedAs THEN "prompt" ELSE "other"]]
    /\ IF OnWizard
       THEN /\ Marked("install", IF accepted THEN "done" ELSE "skipped")
            /\ wizard' = [wizard EXCEPT !.step = StepAfter("install")]
            /\ UNCHANGED <<local, offer>>
       ELSE /\ local' = IF accepted THEN LocalInstalled(page.askedAs) ELSE local
            /\ offer' = IF accepted THEN [dismissed |-> TRUE, notice |-> FALSE] ELSE offer
            /\ UNCHANGED <<wizard, marks>>
    /\ UNCHANGED <<brandNow, serverVars, checks, enabling, turns, outdated>>

\* The prompt itself fails.
promptFails ==
    /\ page.asked /\ Spend
    /\ page' = [page EXCEPT !.asked = FALSE]
    /\ UNCHANGED <<phone, brandNow, local, serverVars, wizardVars, offer>>

\* From the menu of the browser.
installByMenu ==
    /\ page.window = "tab" /\ phone.coming = NotComing /\ Spend
    /\ phone' = [phone EXCEPT !.coming = [brand |-> ManifestOf(page.brand), by |-> "other"]]
    /\ UNCHANGED <<brandNow, local, serverVars, page, wizardVars, offer>>

\* The installation ends; an iPhone tells no page of it.
installEnds(done) ==
    /\ phone.coming # NotComing
    /\ phone' = IF done
                THEN [phone EXCEPT !.installed = TRUE, !.brand = phone.coming.brand, !.by = phone.coming.by,
                                   !.coming = NotComing, !.event = phone.platform = "android"]
                ELSE [phone EXCEPT !.coming = NotComing, !.by = IF phone.installed THEN @ ELSE "failed"]
    /\ UNCHANGED <<brandNow, local, serverVars, page, wizardVars, offer, turns>>

\* handleAppInstalled, of the page that is open by then, if one hears of it.
appInstalled(heard) ==
    /\ phone.event
    /\ phone' = [phone EXCEPT !.event = FALSE]
    /\ IF ~heard \/ page.name = "login" THEN UNCHANGED <<page, wizard, marks, local, offer>>
       ELSE /\ page' = [page EXCEPT !.prompt = FALSE, !.standalone = TRUE]
            /\ IF OnWizard
               THEN /\ Marked("install", "done")
                    /\ wizard' = [wizard EXCEPT !.step = StepAfter("install")]
                    /\ UNCHANGED <<local, offer>>
               ELSE local' = LocalInstalled(page.brand) /\ offer' = [offer EXCEPT !.notice = FALSE] /\ UNCHANGED <<wizard, marks>>
    /\ UNCHANGED <<brandNow, serverVars, checks, enabling, turns, outdated>>

\* skipInstall, and leaveCompletedInstallStep, which is there in the application.
leaveInstall ==
    /\ Offers("install")
    /\ Marked("install", IF page.standalone THEN "done" ELSE "skipped")
    /\ wizard' = [wizard EXCEPT !.step = StepAfter("install")]
    /\ UNCHANGED <<phone, brandNow, local, serverVars, page, checks, enabling, offer, turns, outdated>>

\* A step that was passed, or the one the user is in.
visitStep(s) ==
    /\ OnWizard /\ wizard.shown /\ ~ShowsGuide
    /\ s = "install" \/ (s = "notifications" /\ wizard.step = "profile")
    /\ wizard' = [wizard EXCEPT !.step = s]
    /\ UNCHANGED <<phone, brandNow, local, serverVars, page, marks, checks, enabling, offer, turns, outdated>>
-----------------------------------------------------------------------------
(* Notifications *)

\* The status is read, and shown later.
pushRead(c) ==
    /\ c \in checks /\ c.value = "none"
    /\ checks' = (checks \ {c}) \cup {[c EXCEPT !.value = PushStatusNow]}
    /\ UNCHANGED <<phone, brandNow, local, serverVars, page, wizard, marks, enabling, offer, turns, outdated>>

pushShown(c) ==
    /\ c \in checks /\ c.value # "none"
    /\ checks' = checks \ {c}
    /\ wizard' = [wizard EXCEPT !.push = c.value, !.pushing = IF c.first THEN FALSE ELSE @]
    /\ marks' = IF c.first /\ c.value = "enabled" THEN [marks EXCEPT !["notifications"] = "done"] ELSE marks
    /\ outdated' = (outdated \/ (wizard.push = "enabled" /\ c.value # "enabled"))
    /\ UNCHANGED <<phone, brandNow, local, serverVars, page, enabling, offer, turns>>

handleEnablePush ==
    /\ Offers("notifications") /\ ~wizard.pushing /\ wizard.push \in {"default", "disabled"} /\ Spend
    /\ wizard' = [wizard EXCEPT !.pushing = TRUE]
    /\ enabling' = "key"
    /\ UNCHANGED <<phone, brandNow, local, serverVars, page, marks, checks, offer, outdated>>

\* The key of the API, the permission and the subscription, and then its row.
subscribed ==
    /\ enabling = "key" /\ phone.permission # "denied"
    /\ enabling' = "post"
    /\ phone' = [phone EXCEPT !.permission = "granted", !.endpoint = TRUE]
    /\ UNCHANGED <<brandNow, local, serverVars, page, wizard, marks, checks, offer, turns, outdated>>

pushEnabled ==
    /\ enabling = "post"
    /\ enabling' = "none"
    /\ phone' = [phone EXCEPT !.registered = TRUE]
    /\ wizard' = [wizard EXCEPT !.push = "enabled", !.pushing = FALSE, !.step = StepAfter("notifications")]
    /\ Marked("notifications", "done")
    /\ UNCHANGED <<brandNow, local, serverVars, page, checks, offer, turns, outdated>>

\* It fails at any point, or the user refuses: the status is read again, and
\* the buttons are there meanwhile.
pushFails(refused) ==
    /\ enabling # "none" /\ Spend
    /\ refused => enabling = "key" /\ phone.permission = "default"
    /\ enabling' = "none"
    /\ phone' = IF refused THEN [phone EXCEPT !.permission = "denied"] ELSE phone
    /\ wizard' = [wizard EXCEPT !.pushing = FALSE]
    /\ checks' = checks \cup {Check(FALSE)}
    /\ UNCHANGED <<brandNow, local, serverVars, page, marks, offer, outdated>>

\* skipNotifications, or the button that goes on when they are enabled.
leaveNotifications ==
    /\ Offers("notifications") /\ ~wizard.pushing
    /\ IF wizard.push = "enabled" THEN UNCHANGED marks ELSE Marked("notifications", "skipped")
    /\ wizard' = [wizard EXCEPT !.step = StepAfter("notifications")]
    /\ UNCHANGED <<phone, brandNow, local, serverVars, page, checks, enabling, offer, turns, outdated>>
-----------------------------------------------------------------------------
(* The end of the first access *)

PatchGoes(p, state) == patch' = [patch EXCEPT ![p] = IF state = "done" /\ wizard.finishing # p THEN "idle" ELSE state]

completeOnboarding(p) ==
    /\ Offers("profile") /\ wizard.finishing = NoPatch /\ patch[p] = "idle" /\ Spend
    /\ wizard' = [wizard EXCEPT !.finishing = p]
    /\ Marked("profile", "done") /\ PatchGoes(p, "sent")
    /\ UNCHANGED <<phone, brandNow, local, completion, page, checks, enabling, offer, outdated, overlapped>>

\* A mutated form of AfterLookUp, used by no action.
AfterLookUpOfTheUser == "found"

AfterLookUp == IF completion.done THEN "done" ELSE "found"

\* The API reads the row, and completes it with an audit if it was not.
lookUpCompletion(p) ==
    /\ patch[p] = "sent"
    /\ PatchGoes(p, AfterLookUp)
    /\ overlapped' = (overlapped \/ \E q \in Patches : patch[q] = "found")
    /\ UNCHANGED <<phone, brandNow, local, completion, page, wizardVars, offer, turns>>

writeCompletion(p) ==
    /\ patch[p] = "found"
    /\ completion' = [done |-> TRUE, audits |-> completion.audits + 1]
    /\ PatchGoes(p, "done")
    /\ UNCHANGED <<phone, brandNow, local, page, wizardVars, offer, turns, overlapped>>

\* The row is written and the audit is not.
auditFails(p) ==
    /\ patch[p] = "found" /\ Spend
    /\ completion' = [completion EXCEPT !.done = TRUE]
    /\ patch' = [patch EXCEPT ![p] = "idle"]
    /\ wizard' = IF wizard.finishing = p THEN [wizard EXCEPT !.finishing = NoPatch] ELSE wizard
    /\ UNCHANGED <<phone, brandNow, local, page, marks, checks, enabling, offer, outdated, overlapped>>

\* The page leaves with the answer.
finished(p) ==
    /\ wizard.finishing = p /\ patch[p] = "done"
    /\ OpensApp(page.window)
    /\ patch' = [patch EXCEPT ![p] = "idle"]
    /\ UNCHANGED <<phone, brandNow, completion, turns, overlapped>>

\* A refusal, or an answer that does not come: the request may go on.
notFinished(p, reached) ==
    /\ wizard.finishing = p /\ Spend
    /\ wizard' = [wizard EXCEPT !.finishing = NoPatch]
    /\ patch' = [patch EXCEPT ![p] = IF (@ = "sent" /\ ~reached) \/ @ = "done" THEN "idle" ELSE @]
    /\ UNCHANGED <<phone, brandNow, local, completion, page, marks, checks, enabling, offer, outdated, overlapped>>
-----------------------------------------------------------------------------
(* The prompt of the application *)

handleDismiss ==
    /\ CanShowPrompt
    /\ local' = [local EXCEPT !.dismissed = @ \cup {page.brand}]
    /\ offer' = [offer EXCEPT !.dismissed = TRUE]
    /\ UNCHANGED <<phone, brandNow, serverVars, page, wizardVars, turns>>

\* postponeReinstallNotice and confirmReinstall, which takes the user's word.
answerNotice(confirmed) ==
    /\ OnApp /\ offer.notice
    /\ offer' = [offer EXCEPT !.notice = FALSE]
    /\ local' = IF confirmed THEN [local EXCEPT !.brand = page.brand] ELSE local
    /\ UNCHANGED <<phone, brandNow, serverVars, page, wizardVars, turns>>

\* The tenant changes its name or its icon (updateTenantPwaSettings).
brandChanges ==
    /\ brandNow < MaxBrand /\ Spend
    /\ brandNow' = brandNow + 1
    /\ UNCHANGED <<phone, local, serverVars, page, wizardVars, offer>>

\* On the page of the administrator who changed it, the effect runs again.
brandTaken ==
    /\ OnApp /\ page.brand # brandNow
    /\ page' = [page EXCEPT !.brand = brandNow, !.standalone = page.window = "app"]
    /\ offer' = OfferOf(page.window, brandNow) /\ local' = LocalOf(page.window, brandNow)
    /\ UNCHANGED <<phone, brandNow, serverVars, wizardVars, turns>>

FirstAccessNext ==
    \/ \E name \in {"wizard", "app"}, window \in {"tab", "app"} : visit(name, window)
    \/ userRead \/ userNotRead
    \/ beforeInstallPrompt \/ handleInstall \/ promptFails \/ installByMenu \/ leaveInstall
    \/ \E b \in 0..MaxBrand, sure \in BOOLEAN : choose(sure, b)
    \/ \E sure \in BOOLEAN : installEnds(sure) \/ appInstalled(sure) \/ pushFails(sure) \/ answerNotice(sure)
    \/ \E s \in Steps : visitStep(s)
    \/ \E c \in checks : pushRead(c) \/ pushShown(c)
    \/ handleEnablePush \/ subscribed \/ pushEnabled \/ leaveNotifications
    \/ \E p \in Patches :
         \/ completeOnboarding(p) \/ lookUpCompletion(p) \/ writeCompletion(p) \/ auditFails(p) \/ finished(p)
         \/ \E reached \in BOOLEAN : notFinished(p, reached)
    \/ handleDismiss \/ brandChanges \/ brandTaken

FirstAccessSpec == FirstAccessInit /\ [][FirstAccessNext]_firstVars
-----------------------------------------------------------------------------
Brands == 0..MaxBrand
Pushes == {"blocked", "default", "disabled", "enabled"}
Ways == {"nobody", "prompt", "other", "failed"}

FirstAccessTypeOK ==
    /\ phone \in [platform : {"safari", "android"}, installed : BOOLEAN, brand : Brands, by : Ways,
                  coming : [brand : Brands, by : Ways], event : BOOLEAN, endpoint : BOOLEAN,
                  permission : {"default", "granted", "denied"}, registered : BOOLEAN]
    /\ brandNow \in Brands
    /\ local \in [dismissed : SUBSET Brands, brand : Brands]
    /\ completion \in [done : BOOLEAN, audits : Nat]
    /\ patch \in [Patches -> {"idle", "sent", "found", "done"}]
    /\ page \in [name : {"wizard", "app", "login"}, window : {"tab", "app"}, brand : Brands, standalone : BOOLEAN,
                 prompt : BOOLEAN, asked : BOOLEAN, askedAs : Brands]
    /\ wizard \in [shown : BOOLEAN, step : Steps, push : Pushes, pushing : BOOLEAN, finishing : Patches \cup {NoPatch}]
    /\ marks \in [Steps -> {"pending", "done", "skipped"}]
    /\ checks \subseteq [first : BOOLEAN, value : Pushes \cup {"none"}]
    /\ enabling \in {"none", "key", "post"}
    /\ offer \in [dismissed : BOOLEAN, notice : BOOLEAN]
    /\ turns \in 0..MaxTurns /\ outdated \in BOOLEAN /\ overlapped \in BOOLEAN

\* The wizard tells what is so, whichever of the things it awaits comes first and
\* wherever the user has gone: a step it shows as done was done on this device
\* (an installation may fail after it was accepted), one whose device it has
\* registered is not shown as put off, unless a status read before is shown
\* after; nobody is in the application who has not finished, and that is
\* audited once, unless two requests overlapped.
WizardTellsTheTruth ==
    /\ OnWizard /\ marks["install"] = "done" => phone.installed \/ phone.coming # NotComing \/ phone.by = "failed"
    /\ OnWizard /\ marks["notifications"] = "done" => phone.endpoint
    /\ OnWizard /\ marks["notifications"] = "skipped" /\ phone.registered => outdated
    /\ OnApp => completion.done
    /\ completion.audits > 1 => overlapped

\* Nobody is asked to install again what the prompt of the application installed
\* with the icon the tenant has: however versions, tabs and events crossed, the
\* notice is for another icon or for an installation made elsewhere.
ReinstallIsDue == OnApp /\ offer.notice => phone.brand # page.brand \/ phone.by # "prompt"
=============================================================================
