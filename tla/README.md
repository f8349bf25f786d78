# Verification of OneElo

OneElo is a multi-tenant application for churches: members, ministries, the
agenda of events, monthly schedules (*escalas*), a notification centre,
finances, exports as PDF or PNG, and the accounts of its users. This directory
holds TLA+ models of its API (`src/apps/api`) and of the pages of its web
application that keep state (`src/apps/web`), the TLC runs that check them on small
instances, and theorems about them that TLAPS checks for every instance.

Paths below are relative to `src/apps/api/src/`, or to `src/apps/web/src/` where
they begin with `app`, `components`, `hooks` or `lib`, unless they say otherwise.

## 1. The system

The API is one or more NestJS processes over one PostgreSQL database (through
Prisma), a file store (Supabase), the Web Push gateways, Google as an OAuth
provider, and a Chromium process per export. Handlers and cron jobs interleave at
every `await`. The common pattern, and the source of most of what can go wrong,
is: read some rows, decide, and write *by id* in a later statement, with no
transaction and no condition on what was read.

The web application (Next.js, React) keeps a copy of rows on each page. A gesture
starts a call; its answer is put into the copy, or the copy is loaded again. Calls
overlap, answers come in any order or never, and what a handler closed over may
be another page's by then. The pages share the cookies, the push subscription of the
browser, and nothing else.

| Component (source) | State | Operations | Talks to | What is hard | What makes it correct |
|---|---|---|---|---|---|
| Notification queue and dispatch (`modules/notifications/services/notification-queue-processor`, `notification-dispatch`) | header and one row per user, with status, attempts, lease | create, claim, deliver, settle, cancel, reschedule, update, retry, clean up | database, push gateways | several processes over one queue; leases that lapse; crashes; a centre that rewrites rows under a worker | one delivery per person, no stranded row, honest and final status |
| Push subscriptions and daily jobs (`notifications.service`) | endpoints and their owner | subscribe, unsubscribe, birthdays, pending confirmations | queue | the same job in every process | one notice per person and day |
| Automation rules, preferences (`notification-automation-rules`) | rules by tenant | switch, configure | agenda, jobs | a rule read before a statement that uses it | switched-off rules tell nobody |
| Agenda (`modules/eventos/eventos.service`) | events | create, batch, update, remove | queue (reminder), schedules (linked days) | the event and its reminder are two rows with no transaction over both | reminder and linked days follow the event |
| Conflict engine (`modules/escalas/conflitos/validador-conflitos`) | none | one pure function | called by `addMembro` | order, symmetric pairs, boundaries of time | what the compatibility plan says |
| Monthly schedules (`modules/escalas/escalas.service`) | schedules, days, assignments | days, links to events, assign, answer, publish, close, delete | agenda, engine, queue | checks against rows that change before the write | no unexcused conflict; closed means closed |
| Configuration of schedules (`configuracao-escalas.service`) | segments, places, rules | write, reorder, delete | engine | existing assignments under new rules | as above |
| Exports (`common/export/chromium-renderer`, the two document renderers) | promise chain, two counters, browsers | request, render, time out | Chromium, cache | timers, hung browsers, hand-kept counters | bounded, serial, every request answered |
| Document and logo cache (`common/export/document-cache`, `tenant-logo`) | entries in order of use, bytes counted by hand | get, set, evict, fetch of a logo | exports, file store | a count kept by hand over four ways to lose an entry; two fetches of one logo that end in any order | the count is true and within the limit; nothing is handed out past its time |
| Accounts (`modules/auth/auth.service`) | account, status, activation link | create, activate, password, update, disable | — | a link used twice, an account disabled under an activation | every active account can get in; links are used once |
| Social login (`modules/auth/social-auth.service`) | link to Google | offer, confirm, activate, unlink | accounts | reads spread over many statements and minutes | the right Google account on the right account |
| Finance permissions (`modules/financeiro/financeiro.service`, `finance-authorization`) | levels of users | grant, revoke, bootstrap | accounts | a count read before a write | somebody can always manage |
| Finance ledger (`financial-transactions`, `-accounts`, `-categories`) | transactions, accounts, receipts | write, cancel, attach, summarise | file store | cancel against edit; file against row | a cancelled transaction stays so |
| Members, tenants and plans (`modules/membros`, `modules/super-admin`, `common/utils/tenant-plan`) | members, limit of the plan | create, remove, change plan | file store | a count read before a write | the limit holds |
| Media storage (`common/storage`) | files and the rows that name them | upload, replace, delete | database | two systems, no transaction | no row names a file that is gone |
| Ministries (`modules/ministerios`) | ministries, members, positions | add and remove people, sync positions, switch schedules off | agenda, schedules | three statements for one list; a count read before a switch | no position of a stranger; no event waits for a ministry without schedules |
| Notices of schedules (`escalas.service`, `notifications.service`) | rows under idempotency keys | first publication, answers, reminders of the day | queue | look-up, recipients and creation are three statements, in several processes | whoever is found is told, once |
| Editor of schedules (`app/(dashboard)/escalas/page.tsx`, `components/app/escala-grid.tsx`) | the sheet shown, dialogs, a local order | choose, add, remove, hide, order, link, publish | schedules | optimistic changes, refreshes that close over a choice | the grid shows the rows and acts on what it shows |
| Dialog of a ministry (`app/(dashboard)/ministerios/page.tsx`) | one typed list for every ministry | load, type, save, rename, remove | ministries | a late load over what is typed; saving deletes what is missing | a position that was kept survives |
| Lists and forms (members, agenda, ministries, finance, users, tenants, segments, rules) | a list, a filter, a form | load, filter, create, update, remove, a second call for a photo or level | the services | crossed loads, answers put in by hand, two-step saves | the list is what is stored; one form, one record |
| Settings (`meu-perfil`, the panels under `configuracoes`) | fields and copies | save, upload, toggle, reset | accounts, rules, media | a button for each part of one page | what is typed is not taken away |
| Session (`app/(auth)`, `middleware.ts`, `modules/auth/*.controller`) | three cookies | sign in, Google, link, activate, sign out | accounts | tabs share cookies; callbacks late or failed | flows of two tabs do not mix |
| Push of a browser (`lib/push-notifications.ts`) | subscription, row of the API | enable, disable, check | subscriptions | steps that fail half way, a device of another user | what the page told of the device holds |
| Views and shared documents (`hooks/use-document-share.ts`, `use-filter-state.ts`) | filter, list, files | filter, export, share, download | exports | a debounce, documents made while rows change, page numbers | a document is the one that was asked for |
| Centre and bell (`configuracoes/notificacoes/page.tsx`, `components/app/notification-bell-inbox.tsx`) | list, detail, count | poll, retry, cancel, read | queue, inbox | polling that stops by itself, lost answers | the screens come to show what is stored |
| First access and installation (`app/onboarding/page.tsx`, `components/app/install-app-prompt.tsx`, `dashboard-shell.tsx`, `completeOnboarding` of `modules/auth/auth.service`) | the steps of the wizard, the device, versions of the icon in localStorage, completion of the user | install, choose, enable push, finish, dismiss, install again | accounts, push of the browser | the wizard awaits the prompt, the status, the subscription and the answer while the user moves on | a step shown as done was done; one audit; asked to install again only when due |
| Tags, leads, dashboard, PWA manifest | rows | single statements, listings | — | little | — |
| HTTP layer | none | — | the services | — | — |

`PROJECT.json` lists every component with its status, and under `hazards` each
place of the code that is hard to test, with the properties that watch it.

## 2. What is modelled

One action is one statement or transaction of the database with the local
computation up to the next `await`; what a handler has read is kept in its
request and used later without another look, as in the code. Handlers keep the
names they have in the code; a handler that is cut by awaits is several actions,
the first of which has its name. Operators marked *a mutated form of* are plausible bugs of
the definition they follow: no action uses them, and each makes TLC find the
property named with it in `PROJECT.json` violated.

### `NotificationQueue` — the queue, its workers and the centre

State: `header`, `due`, `status`, `attempts`, `lock`, `owner` are the columns of
the three tables; `pc` … `verdict` are the locals of `processQueue` in each
process; `request` holds what a request of the centre has read; `delivered`,
`reclaimed` and `retried` are history. Time is two booleans' worth: a date is
reached or not, and a lease is null, live or lapsed; `LockLapses` may lapse any
lease at any moment, so a slow process, a paused one and a dead one are all there.

| Action | Code |
|---|---|
| `createNotification` | `createNotification` with its targets; the unique idempotency key is the id |
| `claimBatch` | the `UPDATE … FOR UPDATE SKIP LOCKED` of `claimBatch` |
| `readSubscriptions`, `sendPush`, `finishRecipient` | `deliverRecipient`, up to each await |
| `countRows`, `writeVerdict`, `endBatch` | `updateNotificationCompletionStatus`, which counts and writes in two statements |
| `rowIsGone`, `throwAway`, `crash` | a row deleted under the worker, an exception, a dead process |
| `start…` and `cancelNotification`, `rescheduleNotification`, `updateScheduledNotification`, `retryFailedRecipients`, `requeueHeader` | the read and the write(s) of each endpoint of the centre |
| `cleanupOldNotifications`, `upsertSubscription`, `deleteSubscription` | the same |

### `EventReminder` — one event and its reminder

`create`, `update` and `remove` of an event, each as its sequence of statements:
write the event, read the rule, find the notification under its key, write it.
The `rule` is what a reminder reads of it, `ativo` and the lead
(`antecedenciaHoras`); `updateRules` makes it any other and `resetRule` the
default, and neither touches a notification. A request that reschedules keeps the lead it
read (`readRule`) until it has found the notification (`findReminder`); one
that schedules reads the rule again.
The queue is one step, `deliver`; `lose` cuts a request off between two
statements. The history `mended` is `no` after a race or a loss and until a later
request runs on its own; `recalled` tells whether the event was cancelled, its rule
switched on or off or its removal begun; `leads` holds the leads the rule has had since a
request that goes on to the reminder last read it.

### `ScheduleConflicts` and `ScheduleAssignments` — the engine and who calls it

`ScheduleConflicts` is the whole of `validador-conflitos.ts` as operators
(`Motivo` is one iteration of its loop). `ScheduleAssignments` EXTENDS it: the
days of the schedules with their links to events, the assignments, the status of
a schedule, the events, and the configuration the engine is given. `addMembro` is
five steps (`addMembro`, `lerFuncao`, `lerItens`, `validar`, `gravar`), between
which everything else may happen; `removeMembro`, `removeDia`, `addDia`,
`updateDiaEvento`, `update` (status) and `updateEvento` are two or three. The foreign
keys do what the schema says: a removed event unlinks its days, a removed day
takes its assignments. Checks that only serve access control are `recusar`, which may
end any request at any step. The civil day of an instant is a function for each of
the three time zones the code mixes.

### `RenderQueue` — the exports of one process

`task`, `line`, `activeRenders`, `waitingCount`, `wasQueued` are the promise
chain and the counters of `runSerialRender`; `exec` is what `executeWithTimeout`
has started, which survives its own timeout. `timeout` may fire whenever a task runs;
a browser may fail, or hang for ever.

### `Accounts` — accounts, activation links, passwords, Google

`user` has the status, the flag, whether a password is set, the activation link and the
e-mail; `provider` is the row of `UserAuthProvider` (never deleted, only
revoked). Activation by password is a read and a write with the hashing in
between; activation or linking by Google is up to five steps; `updateUser` reads
and writes; `deleteUser` disables without looking. Signing in writes none of this.
A link that has expired is one nobody uses. `atropelado` is history: the
account was written after the request last read it.

### `FirstAccess` and `UserAccess` — the wizard and the installed application

`FirstAccess` is one device with one page open: `wizard` and `marks` are the state of the
three steps (`stepState`), `checks` and `enabling` what it awaits of push, `offer` the prompt and
the notice of the application, `local` the keys of localStorage, `brandNow` the version of the
tenant's icon (`pwaUpdatedAt`), `completion` and `patch` the row and the requests at the API. The device
(`phone`) is external: an Android that offers a prompt, or an iPhone with its guide, and what is installed
or on its way. The prompt is `handleInstall` → `choose` → `installEnds` and `appInstalled`, in whichever order; push is
`pushRead` → `pushShown` beside `handleEnablePush` → `subscribed` → `pushEnabled`; the end is
`completeOnboarding` → `lookUpCompletion` → `writeCompletion` (or `auditFails`) → `finished` or `notFinished`;
the application has `handleDismiss`, `answerNotice`, `brandChanges` and `brandTaken`. `UserAccess` EXTENDS
`Accounts` and `FirstAccess`, which share no row, and follows one of them in a behaviour (`part`).

### `DeliveryContract` — what the queue promises

An abstract specification of four variables: the phase of a notification, the fate of
each row, the rows somebody has in hand and how often each user was told. Whoever
has a row may tell its user and conclude; a row is concluded as told, and a
notification completed, only if somebody was. `NotificationQueue` names the
refinement (`Phases`, `RowFates`, `Held`) and `KeepsContract` is the abstract
specification of its instance; the run `queue_centre` checks it and
`NotificationQueueProofs` proves it.

### `NotificationService` — the queue and the screens that follow it

`NotificationCentre` is the page of the managers: the list, the detail, the two
polls that go on while something shown is under way, the retry, the dialogs.
`InboxBell` is the bell: a copy of the inbox and a count the server makes in another
statement, both changed by the page before the server does. A request for the list
carries the filter it was sent with, which may not be the one applied when it is
served. The variable
`stage` says which of the queue, the page and the bell goes on; each screen has the
steps of the queue it can see among its own.

### `BackOffice` — the records of a tenant

Eight modules, one of which goes on in a behaviour (`scene`), since each keeps rows
of its own and makes by itself the changes to the few rows of others that it reads.

| Module | State | Actions and what they cut |
|---|---|---|
| `FinancePermissions` | `grant`, `enabled` | `updateUserPermission` → `ensureCanManagePermissions` → `readPermission` → `countActiveManagers` → `writePermission`; an account is switched beside it |
| `FinanceLedger` | account, category, member, `entry` | `createTransaction`, `updateTransaction` → `validateAccountAndCategory` → `validateMember` → `writeTransaction`; `cancelTransaction` → `writeCancellation`; the rows they refer to change |
| `StoredMedia` | files in the store, the column that names one | upload, delete the former and write the row, in the order of each kind of file; each call fails with or without its effect, a request is cut off |
| `MemberRegistry` | plan, limit, members | `createMember` → `countMembers` → `writeMember`; `updateTenant` → `writeTenant` |
| `Memberships` | people, memberships, positions, skills | `addMembro`, `updateMembroRole` → `validateFuncoes` → `deleteOthers` → `insertSkills`, with the cascades of the schema; a request is cut off |
| `EventNeeds` | an event, a ministry and its switches | creation and update of the event against `updateMinistry` → `countEvents` → `writeMinistry` |
| `DocumentCache` | entries in insertion order, bytes counted by hand, logos, fetches | `get`, `set` in its three passes (`WithoutFormer`, `Swept`, `Evicted`: each takes the bytes of an entry off the counter, and eviction goes by the counter); `resolveTenantLogo` → `storeLogo` |
| `ScheduleNotices` | schedule, turns, notices under their keys, jobs, requests | publication, answers and their notices to the leaders, three daily jobs in two processes; look-up, recipients and creation are steps of their own |

### `WebClient` — the pages

Seven modules, again one `scene` at a time. In each, a call has a slot: it is sent
with what the page knew then, served by one step of the API (or refused, or served with
its answer lost), and its answer is taken in by the handler that awaited it, which reads
what React gives it: the value it closed over, or the present one. Others write
meanwhile. A dialog of the editor carries the schedule whose day or copy it was opened
on: a confirmed volunteer and a removed day go to that one, by the id of the day,
whatever is chosen by then, and the refresh that follows loads the schedule that was chosen
at the gesture (`back`).

| Module | Pages | State of the page |
|---|---|---|
| `ScheduleEditor` | editor of the schedules of a month | the chosen schedule, the sheet shown, the roster, the dialogs, a local order of days |
| `MinistryDialog` | dialog of a ministry | one typed list of positions, the selects of removal and renaming |
| `RecordPages` | members, agenda, ministries, finance, users, tenants, segments, rules | a list, a filter, a form; the eight pages are one machine with the traits that tell them apart (`MembersList` … `RulesForm`): whether answers are put in or the list is loaded again, whether a save has a second call, which buttons wait |
| `SettingsPages` | profile, preferences, rules, media of the tenant | what was loaded, what is typed, which button waits |
| `BrowserSession` | login, activation, Google, linking | the three cookies of the browser and the page of each tab, with the controllers and `middleware.ts` |
| `PushDevice` | the button and the status of push | permission, subscription, the rows of the API, what each tab told |
| `DocumentShare` | views of schedules and agenda | filter, debounce, list, dialog, documents on their way, kept and prepared |

## 3. What is checked

| Run | Instance | Properties | Shows |
|---|---|---|---|
| `queue_leases` | 1 header, 1 user, 1 endpoint, 2 processes, a crash, 1 request | `NoDuplicateDelivery`, `SettledHeader` | the only way to tell somebody twice, or to close a header early, is a lapsed lease or a retry by hand |
| `queue_centre` | 1 header, 2 users, 1 process, 2 racing requests | `HonestStatus`, `CancelIsOverriddenOnlyByStaleWork`, `KeepsContract` (refinement) | SENT and COMPLETED are only said of what happened; a cancellation is undone only by work begun before it, or by a retry; every step is one of the contract |
| `queue_drains` | queue: 2 processes, 2 endpoints, a crash; page: 3 deeds; bell: 2 messages, 3 turns | `OpenRowDrains`, `ScreensSettle` (liveness) | a waiting row of a live header is finished; what is shown as under way does not stay when it is over, and the bell agrees with the inbox in the end |
| `queue_master` | 1 process | `MasterStatusSettles`, **violated** | a header without a claimable row is never settled |
| `reminder_races` | 2 requests, 2 updates, 1 loss, 2 dates, 2 leads and 1 change of the rule, 2 instants | `ReminderIsInStep`, `FutureEventHasReminder`, `CancelledEventIsSilent` | whatever a race or a cut-off request leaves, the next update on its own puts the date and the existence of the reminder right, by a lead the rule has had since that update read it, and the next cancellation silences it |
| `reminder_reconciled` | 1 request | `ReminderIsReconciled`, **violated** | … but not in its text |
| `render_requests` | 3 requests, 2 documents, queue of 1 | `SecondBrowserIsLate`, `NoWastedDraw`, `EveryRequestIsAnswered` (liveness) | the serial order up to timeouts, no document drawn twice, an answer for all |
| `schedule_pairs` | 1 day, 1 member, 2 functions, 2 requests, 1 change of configuration | `BlockedPairIsExcused`, `WarnedPairWasConfirmed` | `addMembro` lets a conflict through only in a race or by a later change |
| `schedule_closing` | 1 day, 1 event, 2 dates, 2 requests, 2 moves or removals of the event | `LinkedDayFollowsEvent`, `ClosedScheduleChangesLate` | a linked day has the date of its event; a closed schedule changes only by a request under way when it was closed |
| `accounts_links` | account: 2 accounts, 2 e-mails, 2 requests, 2 links; first access: 2 versions of the icon, 2 requests to finish, 4 turns | `WayIn`, `ActivationUsesLiveLink`, `LinkMatchesEmail`, `WizardTellsTheTruth`, `ReinstallIsDue` | nobody is locked out, links are used while they are good, Google is linked by e-mail; the wizard shows what was done, and the application asks to be installed again only when its icon is another or it came another way |
| `records` | the eight parts of the back office, 2 requests each | `AManagerRemains`, `EntriesAreConsistent`, `CancelledIsFinal`, `FilesAndRowsAgree`, `PlanIsHonoured`, `MembershipsAreWhole`, `NoEventWaitsForNothing`, `CachesAreBounded`, `EveryFindIsToldOnce`, `LeadersHearTheAnswer` | what each part keeps in spite of two requests, and by which race or failure alone it loses it |
| `web_pages` | the seven scenes of the web application, 2 calls, tabs or documents each | `GridTellsTheTruth`, `KeptPositionsSurvive`, `ListTellsTheTruth`, `OneRecordPerForm`, `SettingsTellTheTruth`, `FlowsDoNotMix`, `PushPromiseHolds`, `SharedIsWhatIsShown` | pages agree with the rows and with themselves once nothing is awaited, unless one of the accidents the properties name happened |

The type invariants (`TypeOK`, `AccessTypeOK`, `BackOfficeTypeOK`, `WebTypeOK` and those of
their parts), `ClaimsAreExclusive`, `RetryBudget`, `SemaphoreIsTruthful` and `AdmissionBound`
are not repeated in the runs. Where section 4 names a `TypeCorrect` or an inductive
invariant that begins with the type they are theorems, and so are the four others; the
rest were checked by TLC on the instances of their runs.

Several properties excuse states that follow a race the code lets happen: a history
variable (`crossed`, `skew`, `excused`, `doubt`, `astray`, `outdated`, …) marks the moment two
requests cross, and the property holds of everything else. What they excuse is listed
below, since it is what a user can meet.

**Why the bounds are enough to be interesting.** Two requests (or workers) are what
any race in this code needs: every property relates what one of them has read to what
the other has written, and histories (`reclaimed`, `mudou`, `atropelado`, …)
mark the moment they cross. `MaxAttempts` is 2 where retries matter, so that one retry
and its exhaustion both occur; the code's 3 only adds a second retry like the first.
`MaxWaiting` is 1 with three requests: one runs, one waits and one is refused.
Three turns of the bell are one to open the panel, one to mark a
message or all of them, and one for the call that fails after the mark was shown; two leads are one
that schedules and one that a change puts in its place. Two links are one to use and one that replaces it; two e-mails are a change and a
clash. `MaxMudancas`, `MaxUpdates`, `MaxChanges`, `MaxLosses`, `MaxCrashes`, `MaxNow`,
`MaxTokens`, `Formularios`, `MaxEffort`, `MaxBrand` and `MaxMinute` bound what is unbounded in the code, and the constants that bound the
inputs of an instance (`Operacoes`, `Confirmacoes`, `Forms`, `EventForms`, and `Typed` of the forms) are marked as such where they are declared.
On the pages it is the gestures of the user and the writes of others that are bounded
(`MaxGestures`, `MaxMoves`, `MaxVisits`, `MaxEdits`, `MaxClicks`, `MaxTaps`, `MaxPicks`, and `MaxDeeds`, `MaxTurns` of
the two screens and of the first access), never the answers (`Scenes` and `Parts` choose what an instance follows): three or four of them are one to set the
page up, two whose calls cross, and one that acts on what they leave. `Sizes` of
documents reach past `MaxBytes`, and the caches hold one entry less than they are
asked for. One process runs one job at a time, as the scheduler does.
Symmetry is used only for sets whose members no operator tells apart, and never with a
liveness property; a VIEW leaves out only history, and dates and texts of what was
sent, that no action and no property of the run reads again.

**Fairness.** `queue_drains` assumes that the worker of a process that has rows to do
goes on (the cron fires every 15 s and the event loop runs promises), that a reached
date is noticed, and that a lease lapses (two minutes pass). Nothing is assumed of the centre, of
subscriptions or of crashes, which are bounded. Of the screens it assumes that an
interval fires again and again (`setInterval` of 3.5 s and of a minute) and that a call that is sent ends; that it
fails is never excluded, but failures, like gestures, are bounded. `render_requests` assumes only that the event loop starts the
next task on the chain and that the timer of a running task fires; nothing of Chromium. The runs whose
system may really stop (requests end, days are removed, users rest) say `CHECK_DEADLOCK FALSE`;
`queue_leases` and `queue_centre` do not.

### Divergences the runs exhibit

1. `queue_master`: a notification whose users have no active endpoint has
   only `NO_SUBSCRIPTION` rows, is never claimed and stays `SCHEDULED`; one whose
   batch is cut off after its last delivery stays `PROCESSING`. The processor's
   own comment (`notification-queue-processor.service.ts:283`) says the
   master status is updated when all recipients are done.
2. `reminder_reconciled`: an event moved to another hour reschedules its reminder, whose
   text still tells the former hour (`eventos.service.ts:946`, `:1044`;
   `src/ai-context/backlog/notification-center.md:118`).

Three more were met, which no run exhibits by itself:

3. A render that times out while its browser is being launched finds no browser to
   close, and is drawing beside the next one (`chromium-renderer.service.ts:180`), where
   `src/ai-context/plans/escala-export-memory-stability-plan.md:14` wants one at a time.
   `SecondBrowserIsLate` says that nothing else brings this about.
4. Two events that begin together, one of them without an end, are found not to
   overlap (`validador-conflitos.ts:103`;
   `src/ai-context/plans/plano-compatibilidade-funcoes-escalas.md:113`).
5. The page counts the weeks of the agenda by the day of UTC
   (`lib/export-calendar-weeks.ts:126`), the server by that of America/Sao_Paulo
   (`modules/eventos/export/evento-document-renderer.service.ts:200`), where
   `src/ai-core/skills/oneelo-design-system/EXPORT_STANDARD.md:109` promises one
   grouping by civil week: a late event on the last day of a week shifts the numbers, and the image shared
   is of another week than the one chosen. `SharedIsWhatIsShown` excuses just that (`late`).

### Seen while modelling, without a run of their own

Each is a behaviour of the model, reached in a run unless it says otherwise, that
the properties excuse or are not about.

*Notifications.*
- A retry, or a reschedule that has read the header before, revives a
  cancelled notification (the second disjuncts of `CancelIsOverriddenOnlyByStaleWork`), and a row already
  claimed is pushed after the cancellation (`notification-queue-processor.service.ts:155`).
- `updateScheduledNotification` writes back the time it has read (`notification-dispatch.service.ts:233`).
- A notice that has no recipient, because their preference is off, takes its key all
  the same; whoever switches it on later is not told.
- The first publication is told from a later one by `|updatedAt − createdAt| < 1 s`, where
  `src/ai-context/plans/pwa-push-foundation-plan.md:503` speaks of the transition; by the same plan (:518) a member
  who has not answered may be reminded again at 13 h, which the key of the day forbids.
- Answers that change and change back within a minute share a key, so the leaders keep the word
  in between. One creation that fails ends its job for everybody after it. Birthdays of
  29 February are kept in leap years only (dates are not modelled).

*Agenda and schedules.*
- The run of divergence 2 has two more: an event cancelled and put back is
  never reminded of again, and one that becomes an internal meeting keeps its
  reminder (`IsRemindedAgain` and `MeetingIsSilent` are conjuncts of the property).
- A new `antecedenciaHoras` moves no reminder that exists: each keeps its date until the event's next
  update that gives a date or puts it back to AGENDADO (`leads`; `notification-automation-rules.service.ts:224`).
- Two racing updates, or an update racing a removal, leave a reminder for a cancelled or
  deleted event, for as long as no later request runs on its own (`mended` is `no`).
- `createBatch` of events has no unique key, and an update compares `dataFim` with `dataInicio` only when
  both are given (`eventos.service.ts:688`).
- Two racing `addMembro` store a pair the engine blocks; `desculpados` marks them. A schedule closed
  under a request is still written (`escalas.service.ts:1672`).
- `getDateRangeForScheduleDay` uses the civil day of the server, other code that of
  America/Sao_Paulo (`escalas.service.ts:99`).
- An event linked to a deactivated ministry cannot be updated without naming its ministries; deactivating or removing a
  ministry looks at no event. Concurrent syncs of positions mix.

*Accounts, finances, members.*
- An account disabled, or a link replaced, under `activateWithPassword` is
  activated all the same; `atropelado` marks it.
- `canBootstrap` counts managers whose accounts are disabled (`finance-authorization.service.ts:18`), so that
  nobody may be left who can manage; two managers who demote each other do likewise (`crossed`).
- An update may set a transaction CANCELLED without `cancelledAt`. A receipt whose file is gone cannot be replaced where the store
  refuses to delete what is missing.
- Concurrent creations pass the limit of a plan, and two racing updates of a tenant leave a
  GRATUITO with the 999999 of PROFISSIONAL.

*First access.*
- A status of push that was read before the notifications were enabled, and shown after, offers to enable them again and
  lets the step be put off (`outdated`).
- Two requests to finish (a reload while the first is under way) both find the user unfinished, and both
  write and audit (`overlapped`).

*Pages.*
- Editor: details of one schedule that come late are shown under the choice of another; the dialog of the status names the shown
  schedule and acts on the chosen one; a refused order is kept on the page; a day removed whose
  refresh fails is told as an error.
- Dialog of a ministry: until details arrive the list is that of the former ministry, and
  saves as such; a late answer replaces what was typed; a slow save closes whichever dialog is open.
- Forms of two calls (member and photo, entry and receipt, user and level, tenant and logo) that fail
  in the second stay forms of creation: saving again makes another record, or is refused. The button that saves a ministry does not wait.
- Crossed loads show the list of another filter, and a record that no longer matches stays until the next load.
- Settings: what is typed into a rule while its save is awaited is dropped; rules are saved as a whole list; there is one
  `savingKey`; defaults are shown when preferences cannot be loaded; the answer to a photo restores an older user.
- Signing out does not unsubscribe the browser: the next user sees "enabled" while the row is of the former one,
  and disabling ends the subscription without deactivating that row. After a failed registration
  the browser still says "enabled". A refused logout keeps the cookie, and a callback that fails in one tab
  ends the flow of the other.
- Documents: one on its way when the filter changes is kept, and offered, under the new one; the end of one share
  frees the button while another is made; page numbers are counted on rows that may differ. The button to download hands
  its click event to `downloadAllFiles` as the list of files
  (`app/(dashboard)/escalas/visualizacao/page.tsx:270`): nothing is downloaded and the prepared files are dropped, against
  `EXPORT_STANDARD.md:108` (the model drops them, and tells nothing of the disk).
- Centre: a notification due more than a minute after the page loaded does not start the polling; the detail keeps
  another's data while it loads, and the retry acts on the selected one; a cancelled one with rows that wait is polled as long as it is open.

## 4. What is proved

Every theorem is for any value of the constants that satisfies the module's
ASSUME, and TLC evaluates those assumptions in each run. The proofs rest on nothing else.
Every safety property of a passing run is a theorem, for any number of requests, rows,
tabs, calls or documents.

| Module | Theorems | Inductive invariant, and why it is needed |
|---|---|---|
| `NotificationQueueProofs` | `TypeCorrect`, `Exclusive`, `AtMostOnce`, `NoStrandedRow`, `ClosedHeader` | `WorkerShape` (where a worker's locals point), `FreshRows` (a header not yet created has no rows), `HeldRows` (until it is reclaimed, only its holder changes a row) and the link between a verdict and the rows counted for it |
| | `HonestlyReported`, `Refinement` | `Noted`: what a worker has counted as sent reached the user of its row, and a header it found completed has a user who was told; with it every action of the queue is a step of `DeliveryContract`, one lemma each, or none |
| | `CancelHolds` | `Readings`: a reschedule under way has read a header that was not cancelled |
| `EventReminderProofs` | `TypeCorrect`, `CancelledIsSilent`, `FutureIsReminded`, `StaysInStep` | `OneAtATime` and `CalmOK` (once a race or a loss is mended one request at most is under way, and the event it read is the one stored, the lead and the date it has in hand by a lead of `leads`), `NotesOK`, and `DebtsOK`: a reminder that is missing, out of date or left over is owed by a request, which is at a statement that still does it; when all is quiet nobody owes anything |
| `RenderQueueProofs` | `TypeCorrect`, `Semaphore`, `Admission`, `LateBrowser`, `DrawnOnce` | `OneHolder` (one task counts as active and not as waiting), `Chain` (the line holds each waiting task once, and the one that found the queue free is its head), `Books` and `Executions` (one without its task was answered late) |
| | `CacheInvariant`, `CachesStayBounded` | `DocumentsInv` (the counter is the sum of what is kept, one entry a key, each lasting from when it was made), `LogosInv` (a fetch began in the past, so that a failure it stores ends soon); see the induction below |
| `ScheduleAssignmentsProofs` | `OrderIsIrrelevant` | none: the engine is symmetric because pairs, times and segments are |
| | `TypeCorrect`, `BlockedPairsAreExcused`, `WarnedPairsWereConfirmed` | `Ligados` (a link is to a stored event), `ItensEmDias` (an assignment is on a stored day) and `Conferidos`: what a request past its check has in hand is still compatible with every assignment of the member, or was confirmed, except with those written or changed since its read, which its history names |
| | `LinkedDaysFollowEvents` | `VinculosInv`: the date a request has read of an event, or of a day that it moves, is still the one stored, unless the history says that the event was moved since (`DatasLidas`) |
| | `ClosedSchedulesChangeLate` | `FechadosInv`: a request past its check found the schedule open, or it was closed under it |
| `AccountsProofs` | `TypeCorrect`, `ActiveAccountsHaveAWayIn`, `ActivationIsByLiveLink`, `LinkIsOfTheEmail` | `Pedidos`: a password is never removed, so the account about to lose its provider keeps one, and a way in the administrator saw is lost only to a password; `Leituras`: while nobody has written the account, what the request read is still so |
| | `FirstAccessInvariant`, `TheWizardIsTruthful`, `ReinstallOnlyWhenDue`, `AccountAndFirstAccess` | `FirstAccessInv`: type, `BrandsInv` (what the prompt installed, or is installing, is no newer than the version kept, nor than the one being asked about), `InstallInv` (an installation that is shown was accepted), `StepsInv` (the wizard is at a status that tells of the registration, or will come to one), `CompletionInv` (a request that found the user unfinished is alone to write, unless two were past their read) |
| `RecordsProofs` | `ManagerRemains`, `EntriesStayConsistent`, `CancelledStays`, `PlanHonoured` (with their invariants) | `ChangeOK`, `ClerkOK`, `TaskOK`: what each request holds past its checks is still true of the rows while its history calls it fresh; whoever is about to demote a manager has another one by a count of two (`FiniteSetTheorems`), and a count that is fresh bounds the members |
| `OfficeProofs` | `NoEventIsLeftWaiting` | `NeedsInv`: the link, the switches and the count that a request has read are those stored while nobody has written |
| | `MembershipsStayWhole` | `MembershipsInv`: a request that nobody crosses finds the positions of its member as it left them, between its three statements |
| | `MediaInvariant`, `FilesStayWithTheirRows` | `MediaInv`: a file a request has brought is known to it alone until the row names it, and what it deletes is no longer named, or will not be where the code deletes first |
| | `FindsAreToldOnce`, `LeadersHear` | `FindInv`: whoever a job has found and not yet told has its key free or taken for the same day, and the job is still to visit or to conclude; `HeardInv`: the last answer of a turn was told, or is in the hands of a request, or one of the named cases happened; both over `NoticesShape` (the sorts of jobs and requests) |
| | `EachPartIsItself` | none: a behaviour of `BackOffice` is one of each of its eight parts |
| `WebProofs` | `PromisesHold` | `PushInv`: what a tab told of the device is so, and what a call on its way is about to make it tell will be |
| | `BrowserInvariant`, `FlowsStayApart` | `BrowserInv`: each tab knows the cookies it relies on (`KnowsFlow`, `KnowsShown`), and so does what it awaits (`WillShow`), unless another set them since |
| | `FormsInvariant`, `FormsMakeOneRecord` | `FormsInv`: each visit of a form has made one record at most, or was told of a failure, or has a button that does not wait; a form whose button waits awaits one answer at a time |
| | `ListInvariant`, `ListsTellTheTruth` | `ListInv`: unless it went astray, a list is right about each record or awaits the answer that makes it so, and shows nothing that nobody made |
| | `SettingsInvariant`, `SettingsAreShown` | `SettingsInv`: what a page shows is stored, typed, or carried by a call that brings it there or back |
| | `LoadedPositionsSurvive` | `DialogInv`: what the list of the dialog relies on is on it, or was mixed with another ministry's; a call carries what it was sent with |
| | `SharingInvariant`, `SharedIsShown` | `SharingInv`: a document that nothing crossed was made of the applied filter and of rows no older than those shown, whether it is on its way, kept or prepared |
| | `EditorInvariant`, `GridIsTruthful` | `EditorInv`: `OneIsChosen`, and `GridFollows` while there is no `doubt`: between two answers the copy of the page differs from the rows only where an answer that is awaited will change it |
| | `EachPageIsItself` | none: a behaviour of `WebClient` is one of each of its pages |

The proofs have one lemma per action (or per kind of step) and conclude with PTL.

`RecordsProofs`, `OfficeProofs`, `WebProofs` and the cache are about the specifications of the parts
on their own (`PermissionsSpec`, `MediaSpec`, `CacheSpec`, `ShareSpec`, …); the runs check the
same properties in the whole (`BackOffice`, `WebClient`, `UserAccess`), and `EachPartIsItself`,
`EachPageIsItself` and `AccountAndFirstAccess` carry the theorems over to it. The theorems `TypeCorrect`,
`Exclusive`, `NoStrandedRow`, `Semaphore` and `Admission` state properties that no run repeats.

**Induction over data.** The installed provers cannot instantiate an induction theorem, whose
parameter is an operator. The counter of the cache is a sum over a sequence all the same, and its proof
takes another way: the finite subsets of the numbers are well-founded under inclusion (`FiniteSetTheorems`),
which makes every nonempty set of numbers have a least member (`Least`); the set of places where a
claim about `0..n` fails is then empty, because its least member would have one before it that fails as
well. `StepByStep` says so of the existence of a recursive function, once, and `SumsAreBytes` and `SweepIs` of its being
the only one. `DocumentCache` is written with recursive functions for it (`BytesOf`, `Sweep`), not RECURSIVE operators.

**What the proofs found in the models.** The code was right in each case, the models were not.

- `Disturbs` of `MinistryDialog` forgot that an answer to a call which was itself mixed with another ministry disturbs
  again: the property held on the instance and was not inductive.
- The markers of absence have to differ from the data, which nothing said: `BrowserSessionAssumption`, `NoticesAssumption`,
  `SettingsAssumption` (what is not typed is not a value), `RecordPagesAssumption` (`"new"` is no record),
  `EditorAssumption` (`Nothing` is no schedule, day or order). Each instance satisfied them.
- `DocumentShareAssumption` says that the weeks are finite, for the page numbers count them.
- The eviction of `DocumentCache` was stated by the bytes of what remains; the code's loop goes by its counter. They are the
  same, which is now what `CachesStayBounded` says and not what the model assumes. `WithoutDay` of the editor, likewise,
  removes one place of a list and does not filter it.

`RecordsProofs` needs what the plans of `tenant-plan.ts` give: no plan allows zero members
(`SmallLimit \in Nat \ {0}`), since a request that states zero states no limit.

**Only model-checked.** The liveness properties `OpenRowDrains`, `ScreensSettle` and `EveryRequestIsAnswered`
(the prover does not do fairness or ENABLED); the two runs that exhibit a violation; and the type
invariants that no theorem above states, of `NotificationCentre` and `InboxBell` among them, whose only property is
liveness.

## 5. What is not modelled, and why

- Wording, templates, layout, logging, audit rows, listings and pagination beyond what a page keeps: no property is about them.
- Tenants: every query is by tenant, so one tenant is modelled. Roles and guards only refuse, and are the refusals of the models.
- The signatures of tokens, and the exchange with Google: external, and an answer or a refusal.
- `validateEvento` of `createTransaction` and `updateTransaction` (`financial-transactions.service.ts:139`, `:183`): the event of a
  transaction is only looked up, and a stranger refused; nothing modelled reads the column.
- The audience of a notification and of an event: data the queue takes as given.
- The dashboard, cards, calendars and menus of the web application: they read or lay out, and keep
  nothing that another page or row could contradict. The order of segments is a list written in one statement.
- The logo of a tenant arriving late also drops kept documents: one more way of dropping what may always be dropped.
- The rule `horario` of the automation rules is stored and read by no job.
- The components marked `not_modelled` in `PROJECT.json`.

## 6. The plan

Done: the queue, its contract and its screens; exports and caches; the reminder; the conflict engine and assignments;
accounts and the first access; the back office; the pages; a theorem for every safety property of a
passing run (section 4). Left, in this order:

1. A safety property of the two screens of the notification centre besides the liveness they have, and its proof.
2. The batch creation of events, as a page of `RecordPages` with more than two calls.
3. A composition of `Accounts` with `BrowserSession`, which now holds what a request does to the rows in one step.
4. A contract for the daily jobs as `DeliveryContract` is one for the queue, with `ScheduleNotices` shown to refine it.
