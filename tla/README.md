# Verification of LOG (Learning, Observation, Guidance)

LOG is a learning platform for schools with poor connectivity: a Next.js
client that keeps working without a network, and a Go server over SQLite. This
directory holds TLA+ models of its core, the TLC runs that check them on small
instances, and theorems about them with proofs checked by TLAPS. Paths below
are relative to `src/`.

## 1. Inventory

| Component | State | Operations | What makes it correct |
|---|---|---|---|
| Offline mutation queue (`frontend/src/lib/api.ts`, `syncExport.ts`) | IndexedDB `sync-queue`, `isAppOnline`, the token in localStorage | `fetchWithCache` (mutations), `queueRequest`, `mergeQueuedBody`, `syncQueue`, `importSyncFile`, `logout` | work reported as saved is kept until answered; newest (or best) body wins; replays go out under the right account; flushes end |
| Payload encryption (`crypto.ts`) | `sync-keys`, `enc` and `fp` of a record | `ensureQueueKey`, `encryptQueuePayload`, `decryptQueuePayload`, `wipeLocalData` | what is sealed can be read again; a failed decryption deletes nothing |
| API response cache (`api.ts`) | `api-cache` with `cachedAt` | GET of `fetchWithCache`, `getFromCache`, `invalidateRelatedCache`, `clearApiCache` | no read older than a write of this client that is settled; nothing of another account |
| Completion engine (`backend/internal/repository/completion_engine.go`, `completion_repo.go`, `sync_repo.go`) | `learner_activities`, `progress`, `daily_activities`, notes | `CompleteActivityTx`, `SyncBulk`, `applyCompletion` | best score kept; replays idempotent; counted once; every day of a streak earned; all or nothing |
| Learner service (`learner_service.go`) | the same rows | dashboard (creates a progress row), journey, charts | reads do not undo writes |
| Catalogue (`admin_repo.go`, `oer_service_impl.go`) | `activities` | create, import a pack | unique order, complete packs |
| Authentication and sessions (`auth_service_impl.go`, `auth_repo.go`, `AuthContext.tsx`, `frontend/src/middleware.ts`) | users, OTP codes, revoked tokens; token in localStorage and cookie, React state of each tab | register, login, OTP, Google, password, restore, expiry, logout, logout everywhere | a code is used once; a revoked token opens nothing; storage, cookie and cache are of one session |
| Middleware (`backend/internal/handler/middleware.go`) | counters per address, request ids | rate limit, consent gate, token check | limits hold over time; the gate follows the consent |
| Consent and erasure (`privacy_repo.go`, `privacy_service.go`) | consent records, audit log | record and withdraw consent, purge, delete account | the consent on record is the one given; erasure leaves no row |
| Accounts and roles (`admin_repo.go`, `app/settings/page.tsx`) | users, revocations, consents | change role, change password, erase, analytics switch | an admin always remains; what is erased stays erased |
| Schools, classes and assignments (`school_service_impl.go`, `app/moderator`, `components/moderator`) | classes, enrolments, assignments, submissions; the selection and tables of the teacher's page | create class, join by code, import roster, enrol, assign, submit, switch class | what is shown belongs to what is selected; codes unique; imports all reported |
| Parents (`parent_repo.go`) | links, invitations | invite, claim, sign up, digest | an invitation is claimed once |
| Support and gradebook | issues, notes | create, resolve, annotate | no answer overwrites another |
| Pilot scans (`app/qr`, `pilot_service_impl.go`) | counters, the poster page | scan, outcome | what the page says was counted was counted |
| Spaced repetition (`spacedRepetition.ts`, `reviewStore.ts`, `ReviewQueueCard.tsx`) | `review-schedule` | SM-2 step, what is due | reviews follow recorded work; nothing comes back on its day |
| Pages and widgets | journey, lesson, viewer, island, digest, menus, forms | trigger the above | what they show is so |

How they interact: pages call `fetchWithCache`; a GET is cached and shown from
the cache offline; a mutation that cannot be sent is queued. A flush, started by
the load event, the online event, leaving offline mode, the palette, the island,
a login or an import, replays the queue against the same routes that live calls
use, and drops the cached reads that the mutation changes. Routes pass the token
check and the consent gate before the completion engine. A queue can also be
exported to a file and uploaded to `/sync/bulk`, or imported on another device.
The tabs of a browser share storage, cookie, cache and queue. The dashboard
route shares the progress row with the engine.

What is hard: JavaScript suspends at each `await` and nothing locks the queue,
the cache or the storage; answers are lost, late and repeated; the page can go
away at any time; the account can change between enqueue and replay; pages show
what older calls bring; on the server, statements outside a transaction
interleave, clients report their own clocks and zones, and work arrives out of
order. `PROJECT.json` lists each hazard at its line.

## 2. Modules

| Module | Role |
|---|---|
| `SyncQueue` | the offline queue, the token of the device, and the server as a client sees it |
| `SyncQueueProofs` | its theorems |
| `CompletionEngine` | the completion engine, bulk sync and the dashboard's write |
| `ScoreLedger` | abstract: a best score per learner and activity; `CompletionEngine` implements it |
| `CompletionProofs` | theorems of the engine |
| `Lesson` | a learner's way through lessons, reports, review schedule, posters |
| `Session` | login, expiry and logout in the tabs of one browser |
| `Account` | settings page, passwords, roles, erasure, revocation of all tokens |
| `Classroom` | the teacher's page with late and reordered answers |
| `Shell` | sync island, digest and the flushes they start |
| `ResponseCache` | cached reads, invalidation, pages that show what they change |
| `LessonProofs`, `SessionProofs`, `AccountProofs`, `ClassroomProofs`, `ShellProofs`, `ResponseCacheProofs` | the theorems of each |
| `MC...` | the instance of each for TLC |

The modules meet at small interfaces. What one details, the others take as an
outcome: to `Lesson` a completion is accepted, queued or refused, to `Shell` a
record of a flush goes or stays, to `ResponseCache` a replay is taken, turned
down or not answered. `SyncQueue` is what makes these outcomes the possible
ones; `CompletionEngine` is what `SyncQueue`'s completions do on the server.

### SyncQueue

State: `queue` and `nextId` are the object store and its key generator; `user`
is whose token is in localStorage, `online` is `isAppOnline`; `cpc`, `creq` are
the position and the locals of each running `fetchWithCache`; `fpc`, `todo`,
`attempt` those of each running `syncQueue`; `wire` the requests under way;
`up`, `consent`, `done`, `refused` the server. `promised`, `exposed` and `erased`
are history variables that no guard of an operation reads.

Each action is the code between two awaits. A call is `Act`, then an answer
(`CallEnds`, `CallExpired`, `CallFallsBack`), then the look for a duplicate
(`LookFindsNone`, `LookFindsSame`, `LookFindsOther`) and, later, the write (`Add`,
`Put`). A flush is `StartFlush` (the snapshot), `Send`, and one of `Settle`,
`Stop`, `Retry`, `GiveUp` or `Undecryptable`, then `EndFlush`. `Merge` is
`mergeQueuedBody`. `Rewritten` shows what a rewrite does: the headers of a sealed
record are gone, since what is encrypted again are the plaintext ones it no longer
has, while an imported record, which is not sealed, keeps its own; and without
`crypto.subtle` the old body stays. A call to one of the `Credentials` endpoints is
never queued, and a record for one, which only an import can bring, is deleted
unsent. The server handles any
request on the wire in any order (`Handle`), or its answer is lost with or
without it having been handled (`LoseAnswer`). `Halt` is a page that goes away;
its requests stay on the wire.

Abstracted: a body is a model value with an accuracy; one method per endpoint, so
(endpoint, method) is the endpoint; delays are only order. 409 on a replay is
counted with the accepted answers, which is how the code treats it. A token whose
`exp` the client itself finds in the past has the effect of `Logout`. Refused
requests leave the server as it was. The guards of `Disturb` bound everything that
goes wrong, by `MaxTrouble`.

### CompletionEngine and ScoreLedger

State: `db` holds per learner the activity rows, the progress row, the daily
counts and the number of observation and guidance pairs, as committed; `tx` is
the open bulk transaction and its uncommitted view; `dash` what a dashboard
request has read; `published` the activities table; `now` the server's clock.
The history fields `tried`, `first` and `reset` record what was applied.

`ApplyCompletion` is `applyCompletion` as a pure operator, split as the code is:
`FirstCompletion`, `BetterAttempt`, `Replay`. Live completions are one action,
because the pool has a single connection (`database/db.go`,
`SetMaxOpenConns(1)`), so a transaction excludes every other statement; a bulk
upload is taken item by item so that a rollback in the middle can be checked.
The dashboard is two actions, because its two statements are not in a
transaction; the first takes a failed look-up for a missing row, as the code does.
`applyCompletion` makes the same mistake, but there an error takes the transaction
with it, so it is one of the ways into `BulkAbort`.

Accuracies are a small scale of natural numbers, `Score` is the same number
(`accuracy * 100` in the code). A local day is named by the instant it began, as
`LastActivityDate` is. The running mean of a day is kept as its sum and its
weight. `Zones` are fixed offsets: daylight saving is a change of offset. A
completion is dated by the client's stamp, held within `PastWindow` and
`FutureWindow` of the server's clock (`CompletedAt`), in the zone the client sends.

`ScoreLedger` has one variable, the best score of each learner and activity, and
one action: a batch of attempts of one learner raises some. `Ledger` in
`CompletionEngine` maps it (`best <- BestShown`): a live completion and a commit
are one batch each; items before the commit, rollbacks and dashboard requests are
stutters.

### Lesson

State: `page` is the page on screen with the viewer's index, first tries and
counts (`statsRef`, `firstTryRef`) or the poster's state; `calls` the
`handleComplete` calls under way, which outlive the page; `server`, `queued` what
became of completions; `schedule` the `review-schedule` store; `journey` and
`card` what the two views have loaded; `visits` the poster scans; `today` the
day. `accepted` is history.

`Answer`, `NextModule`, `Previous` and `Finish` are the viewer; `Accepted`,
`Queued`, `Refused` the answers; `ReadReview`, `SaveReview` and `Scheduled` are the
read of the store, the write, and the way to the journey once the write has
resolved, so that a card may be read and shown in between; `ReviewFails` is a store
that cannot be used. Only `Queued` goes on to the schedule: the answer of the server
has no field `ok`, without which the page takes the completion for unrecorded.
`Deliver` is a replay. `ScheduleReview` is `scheduleReview`
in integers: ease in hundredths, `Math.round` as a division of integers.

### Session

State: `tabs` with page, React state (`tok`) and calls of each tab; `store`
localStorage; `cookie`; `cache` whose answer is cached; `owner`, `late`,
`revoked` the tokens as the server has them. `ended` and `strays` are history.

`Visit` and `Follow` are requests that `middleware.ts` routes by the cookie
(`Routed`), `Restore` and `RestoreExpired` the mount effect, `ExpiryCheck` the
interval, `Submit` with `SignedIn`, `SignInRefused`, `SignInFailed` the forms,
`FindsOver` a token that `fetchWithCache` finds expired, `Get...` the reads that fill
the cache. `logout` is taken await by await: `ClickLogout` drops state and cookie and
asks the server (`Revoke` is the request arriving), `LogoutAnswered` clears storage
and cookie, `FinishLogout` wipes the cache, or fails to, and leads to the login page;
a tab may be closed, or taken elsewhere, between any two of them (`Visit`). The
branch for a token that cannot be parsed is left out: storage holds what the server
has issued.

### Account

State: `rows` the user rows, `cutoff` the `user_revocations`, `granted` the
analytics consents, `pages` each user's settings page with its token, `jobs`
`UpdatePassword` between its two statements, `toggles` the switch's calls, `now`
in the seconds that tokens are dated by. The rest is history.

A token is accepted as `AuthMiddleware` does (`Accepts`): also a revoked one, while
`user_revocations` cannot be read (`unread`, `LookupTurns`). `RevokeAll`,
`DeleteAccount` and `Toggle` are the request as the server carries it out, with
the answer a step of its own that may be lost. `ChangeRole` is `ChangeRoleTx`
with its count of admins (`MayChange`).

### Classroom

State: `taught` and `posted` the server; `listed`, `sel`, `wizard`, `table`,
`view`, `subs` the page; `calls` those under way with the entries that their
answer will bring; a call knows whether its request id is still the newest, which
is all `requestSeq` is used for. `picked`, `early`, `doubt` are history.

### Shell

State: `queue` the stored records; `online`, `manual`; `flush` the flushes under
way; `checks` the counts asked for; `island` with `pendingCount`, `prevPending`,
`syncComplete`, `isFlushing`; `digest`. A flush is of three origins: the listener
(`syncQueue` itself, which tells nobody), `flushSyncQueue`, or a tap. It goes through
three steps, `called`, `sending` and `returned`: `flushSyncQueue` counts before it
calls `syncQueue` and again after it, and `syncQueue` takes its own snapshot. Each of
these reads may fail: a count then is 0 (`Counts`), a snapshot ends the flush
(`Begin`). `Import` adds the records of a file and flushes; `ImportFails` is one that
stops half-way, with some records added and nobody told. The instance is one tab.
`untold` is history: what the island was not told of.

### ResponseCache

One read is followed, any of the thirteen that pages make and some mutation changes.
State: `done` the mutations carried out, `cache` the cached version (the set of
mutations it takes account of), `page` the version shown, `gets`, `calls`,
`queue`, `replay` what is under way. `Related` is the list of
`invalidateRelatedCache`, `Changes` what each route changes, `Reloads` and `Edits`
what each page does after its own mutation. `Forgotten` are the reads that are in
`Changes` and not in `Related`. `gaps`, `live`, `blurred`, `dropped` are history.

## 3. Runs

| Run | Question | Bounds |
|---|---|---|
| `races` | does a record leave only when answered, is saved work kept outside the named races | 2 calls, 2 flushes, 2 mutations or imports (`MaxActs`), 1 trouble (`MaxTrouble`) |
| `queue` | do flushes end, does the queue drain | 1 call, 1 flush, 3 endpoints, 2 mutations, 1 trouble, fairness |
| `kept` | best attempt, replays, flag, counts, streak, the ledger | 2 activities, 2 accuracies and none, 2 stamps, 2 zones, 2 instants, 1 dashboard, 1 bulk transaction at a time |
| `lessons` | whole reports, honest schedule, posters | 2 lessons, 2 calls, `MaxAnswers` 2, `Visits` 2, 2 days (`MaxDay` 1), `MCApart`, `MCFew` |
| `session` | one session in storage, cookie and cache; expiry ends | 2 tabs, 2 users of different roles, 2 tokens (`MaxTokens`), fairness |
| `account` | revocation, erasure, last admin, switch | an admin and a student, 2 toggles at a time, 2 seconds (`MaxSec` 1), `MCSwitch`, `MCUnread` |
| `classroom` | selection, table and panel agree | 2 classes, an assignment of each, 2 calls |
| `badge` | the count and the digest are so | 2 records, 2 flushes, `MaxQueued` 1, `MaxChecks` 1 |
| `cache` | the cache keeps up, the page shows the user's work, nothing unbacked | each read with each mutation that changes it, 2 pairs, 2 GETs (`Explored`) |

What each run checks, beside the type invariants:

| Run | Property | What it says |
|---|---|---|
| `races` | `LeftWithAnswer` | a record leaves the queue only with an answer of the server to it, or with the account |
| | `SavedUnlessRaced` | work reported as saved is queued or answered, in at least as good a version, but for three named races |
| `queue` | `FlushTerminates`, `QueueDrains` | every flush ends; with a server that stays up the queue drains |
| `lost` | `NeverLosesWork` | violated: `SavedUnlessRaced` without its exceptions |
| `author` | `ReplayedForAuthor` | violated: a replay goes out under the account that queued it |
| `twice` | `OneEntryPerAction` | violated: the queue never holds two entries for one action |
| `kept` | `BestAttemptKept` | the row holds the best of all attempts, in any order |
| | `ReplayIsIdempotent` | whatever was applied once changes nothing when applied again |
| | `FlagFollowsBest` | needs-practice is cleared by the first attempt that reaches the threshold |
| | `CountedOnce` | rows, daily counts and progress agree, also after rollbacks |
| | `StreakEarned` | as many days in a row as the streak says had a first completion each |
| | `KeepsLedger` | the engine implements `ScoreLedger` |
| `lessons` | `ReportIsWhole` | a completion reports every check, and each once if the learner did not go back |
| | `ScheduleBacked` | every scheduled review goes back to recorded or queued work of that day and quality |
| | `NotAskedTwiceADay` | nothing is left listed as due that was reviewed that day |
| | `RecordedMeansCounted` | a poster page that says "counted" is right |
| `session` | `CookieIsStored` | the cookie never outlives the stored session and is never of another |
| | `LoggedOutStaysOut` | no tab brings back a session that was logged out of |
| | `OneUserCache` | the cache holds reads of the stored session only, or is about to be wiped |
| | `ExpiredSessionEnds` | a session that is over is ended |
| `account` | `RevokedStaysRevoked`, `ErasedStaysErased` | over role changes, erasure, later logouts, and after look-ups that failed |
| | `AlwaysAnAdmin` | role changes leave an admin |
| | `SwitchShowsRecord` | the analytics switch shows what is on record |
| `classroom` | `PickKept` | the class picked stays selected |
| | `TableIsCurrent`, `PanelMatches` | table and panel are those of the selection, once loaded |
| `badge` | `BadgeShowsQueue` | the island counts what is queued, unless it was not told |
| | `NoFakeAllSynced` | a digest without failures means that nothing older waits |
| `cache` | `CacheKeepsUp` | cached reads take account of every settled mutation, the two `Forgotten` reads excepted |
| | `OwnWorkShown`, `ShownIsBacked` | a page shows the user's own change, and only what is with the server or queued |

Why these bounds are enough to show something. `races`: two bodies, one worse and
one better, give the merge a side to take; two calls and two flushes are the
least that race in each pair; one retry makes both sides of the retry test
reachable. `kept`: a day is two units long, so that an offset of one unit moves
midnight; the client's clock is believed one unit back and one ahead, and reports
the start or a day earlier, so that work arrives dated before the last active day,
after it, and in another zone. `lessons`: two answers count a check twice; two calls
are the two presses of a button that stays enabled, or one that is late on another
page; the second day makes a review due; two visits let the answer to one scan come
on the page of the other. Two constraints keep it small. `MCApart`: posters are
scanned by learners with no completion under way or taken, as neither reads what the
other writes. `MCFew`: at most two kinds of completion are taken, overlapping calls
are of attempts without a way back, and of the journey it matters that it is loaded.
`session`: two tokens are the least for an old and a new session; one tab reads
the cache, as tabs are alike. `account`: `MCSwitch` takes the steps of the switch for
one user, in one second, before a revocation, an erasure or a password update: the
switch changes no other state but `granted`, and what ends the page may still come
while its calls are under way. `MCUnread` lets look-ups fail once something was
revoked, beside logins, role changes, erasures and further revocations, and not
beside a switch or a password update under way. `classroom`: two classes and two
calls let the answer of each overtake the other. `badge`: one record queued, or some
imported, beside two flushes over one or two records; more counts unread would read
the same. `cache`: a mutation that changes no read followed does to it at most what
one that does may.

Deadlock is checked where the system never stops; in the other configurations
(`CHECK_DEADLOCK FALSE`) the bounds stop it: all accounts may be erased.

Three runs end in a counterexample to what the repository's comments or documents
say:

| Run | What TLC finds |
|---|---|
| `lost` | no failure needed: a flush sends a record, a better attempt is merged into that record, the answer arrives and the record is deleted by id |
| `author` | a replay goes out under the next learner's account |
| `twice` | no failure needed: two calls look for a duplicate before either has written, and both add (`api.ts:330`: "the queue never holds two entries for one action") |

`SavedUnlessRaced` and `NeverLosesWork` belong together. The second is what the
comments promise and fails; the first names exactly when: the record was
rewritten while a flush held its snapshot, from a copy that was not current any
more, or without having been readable. Outside these, TLC finds no loss.

Several properties hold only with an exception that a history variable names. The
exception is a behaviour of the code, not a bound of the model, and the property does
not cover it: `PROJECT.json` says so at the hazard.

| Exception | Behaviour of the code |
|---|---|
| `exposed` (`SavedUnlessRaced`) | the three races above |
| `reset` (`CountedOnce`) | a dashboard request saves an empty progress row over a completion's |
| `back` (`ReportIsWhole`) | going back forgets the first try |
| `strays` (`OneUserCache`) | an answer is cached after its session ended, a session ends without a logout, or a clean-up is cut off before its wipe |
| `raced` (`Account`) | a password update puts a row back as it had been read |
| `left` (`AlwaysAnAdmin`) | the last admin erases her own account |
| `unread` (`RevokedStaysRevoked`) | revocations cannot be read: revoked tokens pass meanwhile |
| `unsure` (`SwitchShowsRecord`) | two switch calls overlap, or an answer is lost |
| `early`, `doubt` (`Classroom`) | loads that overlap or drop each other |
| `untold` (`BadgeShowsQueue`) | a flush of the online event or of the switch, an import that fails or is not counted, a count that fails |
| `since` (`NoFakeAllSynced`) | what came after the flush of the digest had begun |
| `gaps`, `Forgotten` (`CacheKeepsUp`) | a GET answered before a mutation, a closed browser, a refused replay; the two reads that no pattern drops |
| `blurred`, `dropped` (`ResponseCache`) | overlapping or failed GETs of a page; a replay the server turns down |

### Fairness

`SyncQueue.FairSpec`: the event loop resumes every task whose await has settled,
and every `fetch` settles (an unreachable server is an answer, `Fail`), hence weak
fairness of the steps of each call and each flush and of the handling of each
process's request. No learner has to act. `LiveSpec` adds that the learner comes
back: someone logs in, and flushes keep being triggered, which every page load,
online event and login does. `QueueDrains` needs it, and further assumes that the
server stays up and consent stands. There is no fairness for `Recover`; a server
that never comes back is a behaviour too.

`Session.FairSpec`: React runs the mount effect, and the browser fires the
interval, while there is a tab. That is all `ExpiredSessionEnds` needs; nobody
has to click, and no call has to be answered.

## 4. Divergences seen while modelling

Beyond `lost`, `author` and `twice`, with no run of their own:

* queue: an older submission queued before a newer live one is replayed after it
  and wins (`api.ts:513`, against "last write wins" at `:312`); a refusal for
  consent at the head of the queue keeps a consent queued behind it from being
  sent (`api.ts:547`, against `login/page.tsx:61`); that same consent is cut off
  if the redirect after the login is faster; a queued attempt that cannot be
  decrypted is merged as if it were empty (`api.ts:323`, `exposed`); without
  `crypto.subtle` a record has neither body nor headers (`api.ts:345`;
  `crypto.ts:22` speaks of a plaintext fallback); the body of a form is dropped
  (`api.ts:343`), so a roster imported offline is empty and the wizard's report
  (`ClassWizard.tsx:191`) has no `passwords`; a merged record loses its headers unless it was imported
  (`api.ts:331`); a refused and deleted record counts among those that "still
  wait" (`api.ts:560`); a file with two equal records is imported twice
  (`syncExport.ts:87`); `wipeLocalData` clears the records of every learner of the
  device; `OFFLINE_SYNC.md` describes an older store layout;
* engine: an offline completion dated before the last active day resets the
  streak, and so does a change of zone (`completion_engine.go:115`); a dashboard
  request that found no progress row saves an empty one over what a completion
  wrote meanwhile (`learner_service.go:84`); a row "Completed", as `seedData`
  writes, counts as not completed (`:47`), so a lower re-attempt replaces its
  score; a low quiz after a quiz-less completion stays "completed" (`:81`); a
  quiz-less completion enters the day's mean (`:156`; `completion_repo.go:50` says
  excluded); any database error is read as a missing row (`:41`);
* lessons: a review made from nothing is stored under an empty key
  (`spacedRepetition.ts:34`), so first reviews share one entry; a completion whose
  answer carries no `ok` schedules nothing (`learning/[id]/page.tsx:107`), which is
  every answer the server gives, so only queued completions move the schedule; a slow
  completion takes the learner out of whatever she has opened since (`:118`);
  going back counts an answer again (`MicroModuleViewer.tsx:87`); a check without
  `correct_index` cannot be passed (`:57`); the schedule is the device's and
  outlives the account; a lost answer of a counted scan is shown as not counted;
* sessions: a stale tab whose token is over logs out the newer session of
  another tab (`AuthContext.tsx:111`); an expired session leaves its cached
  answers to the next user (`api.ts:461`), and so does a logout whose tab is closed
  before the wipe (`api.ts:161`, against "so next user doesn't see stale data");
* accounts: a revoked token is accepted while the revocations cannot be read
  (`middleware.go:282`, against "rejected even though unexpired"; the blocklist look-up
  above it refuses on an error); a password update saves the row it has read and so undoes an erasure
  or a role change (`auth_service_impl.go:249`); erasure does not look whether an
  admin remains (`privacy_repo.go:175`) and deletes the revocations with the
  account; if the device cannot be wiped the page reports a failed deletion
  (`settings/page.tsx:152`);
* classroom: a creation answered after a switch reloads the class it was for into
  the table of the other (`AssignmentManager.tsx:80`), and the number shared by
  both loads drops one of them; the wizard goes on without a class when offline
  (`ClassWizard.tsx:53`); the gradebook numbers nothing
  (`GradebookOverview.tsx:33`), and a note that failed to load is empty for good
  (`:74`); a queued join is shown as joined (`JoinClassCard.tsx:32`);
* cache: creating or resolving a support issue writes to the audit log
  (`support_handler.go:59`, `:116`), and a completion changes the console's figures, but
  `invalidateRelatedCache` drops neither `/admin/audit-log` nor `/admin/dashboard`
  (`api.ts:397`, against `:243`, "successful live mutations must invalidate the related
  cached reads immediately");
* shell: the flush of the online event does not tell the island (`api.ts:82`); a count
  that cannot be read is 0 (`api.ts:653`), so the island may show nothing, or "Sync
  Complete", over a queue that is not empty (`SyncIsland.tsx:36`, `:52`); an import that
  fails half-way leaves what it has added and tells nobody
  (`dashboard/page.tsx:362`); "Sync Complete" may stay, its timer cleared
  (`SyncIsland.tsx:39`); a flush that is stopped writes no digest (`api.ts:539`).

## 5. Proofs

Every safety property that a passing run checks is also a theorem, for all values of
the constants: any number of calls, flushes, tabs, users, learners, classes or
records. The assumptions on the constants are in each module (`...Assumption`) and
say little: ids and sentinels (`None`, `Idle`, `Unset`, `NoBody`) are not values of
the data they stand beside; records and activities are finitely many; bounds are
natural numbers. Where a theorem needs more, its statement says so in an ASSUME.
Each invariant below was first checked by TLC on the instance of its run.

### SyncQueueProofs

* `TypeCorrect`: `Spec => []TypeOK`.
* `NoRecordLeavesUnanswered`: `Spec => []LeftWithAnswer`. On its own it is not
  inductive: when a flush settles a record, that the server has answered it is known
  only from the flush's position. The invariant adds that a flush in position
  "ok" or "refused" has a current record whose id is in `done` or `refused`, that
  a request on the wire from a waiting flush is for that flush's current record,
  and that ids are below `nextId`.
* `SavedWorkIsKept`: `SavedUnlessRaced`, where `crypto.subtle` is available
  (`SubtleAvailable`; without it a record is stored without its body, and the
  learner is told it is saved). A record is held in four places at once: the store,
  the snapshots of flushes, the duplicate that a call is about to write over, and
  what the learner was told. The invariant `SavedInv` says that these agree on what
  an id names (`NamesAgree`), that store and snapshots hold one version of it unless
  the id was exposed to one of the three races (`OneVersion`), and that what a call
  is about to write is at least as good as what it replaces (`Improving`, from
  `mergeQueuedBody`).

### CompletionProofs

The learners are any of whom nothing was recorded here (`Unrecorded`), whatever rows
of unfinished or older work they have: those who register, and the demo learner of
`seedData`. Two theorems exclude her: `CountsAgree` asks for progress rows that count
only what was recorded here (`SeedsCounted`; hers counts two activities), and
`StreakIsEarned` for none that knows of an earlier active day (`SeedsIdle`).

* `TypeCorrect`, whatever rows of the right types the database holds.
* `BestKept`, `FlagCorrect`, `CountsAgree`, `ReplaysChangeNothing`, `StreakIsEarned` and
  the refinement `LedgerImplemented`: `CompletionEngine` implements `ScoreLedger`. One
  predicate on what is held about a learner, `Consistent`, says that the row agrees
  with the attempts recorded in `tried`, the daily counts with the days of the first
  completions, and the progress row with their number and with the days its streak
  counts. Lemmas show that `FirstCompletion`, `BetterAttempt` and `Replay` each keep
  it, so `ApplyCompletion` does. The invariant is that every committed learner and the
  view of an open transaction are consistent; so a commit and a rollback both keep it.
  The properties follow without looking at steps again, except the refinement: there a
  step touches what is held about one learner at most (`OneLearner`) and what the
  ledger shows of her only rises (`ShownRises`, from `NoWorse`), so the batch of the
  step is what it shows of her afterwards.
* `StreakIsEarned` holds for all stamps, windows and zones: a streak of n says that
  the n days up to the last activity, a `Day` apart, had a first completion each. That
  the streak is as long as it could be is not so (section 4).

### LessonProofs

* `RecordedIsCounted`: `RecordedMeansCounted`, and the page's own part of the types,
  by `PosterInv`: how many checks lie before the module on screen and were answered,
  and which scan a poster's answer belongs to.
* `TypeCorrect`, `ReportsAreWhole`, `ScheduleIsBacked`, `NothingTwiceADay`, by
  `LessonInv`. A report is whole because the viewer has counted every check passed
  (`AttemptOK`), and each once unless the learner went back. A review is backed because
  a call between its two awaits on the store carries a completion that was taken. What a
  card lists is due in the store, unless a call has just saved a review and is about to
  close the card (`StillListed`): so nothing that was done that day is left listed,
  whichever completions overlap.

### SessionProofs

`TypeCorrect` (`TypeOK`, which no run checks: its conjuncts are what the others need),
`CookieFollowsStorage`, `LogoutIsFinal` and `CacheIsOneUsers`. The three properties are
proved together (`SessionInv`): each is inductive only beside the others, with the
additions that what storage, the cookie and pending logouts hold was issued, that a tab
which logs out has no session of its own any more (`Sound`), and that a tab which is to
wipe the cache goes on being one until it has, or has been taken away (`WipingStays`).

### AccountProofs

* `TypeCorrect`, with `AnswersFindPage`: a call that is to find its page again finds
  it open.
* `RevocationHolds` and `ErasureHolds`, by `AccountInv`, which no failed look-up
  disturbs, as what a revoked token is used for meanwhile lowers no cutoff: the cutoff of a user whose
  tokens were revoked is at least their date (`RevokedOnRecord`), and erased rows are gone
  (`Gone`); both except the users whose row a password update has brought back.
* `AdminRemains`: `AlwaysAnAdmin` is inductive with the types.
* `SwitchIsHonest`: `SwitchShowsRecord`, by `SwitchInv`: of a user whose calls were
  answered one by one, at most one call is under way, and its answer puts the switch
  where the record is.

### ClassroomProofs

* `TypeCorrect`: that at most one load is the newest of its kind, among others.
* `PickStays`: `PickKept`, by `PickInv`, which follows the first load of the classes.
* `TableIsRight` and `PanelIsRight`: `TableIsCurrent` and `PanelMatches`, by `TableInv`
  and `PanelInv`: the answer that the newest load carries covers its class, but for
  works whose creation is still under way, and is of the assignment that is open.

### ShellProofs

* `TypeCorrect` (`TypeOK`, which no run checks), with `OneTap`: the island's flag is
  set exactly while one tap is under way.
* `BadgeIsRight` and `DigestIsHonest`, by `ShellInv`: what is queued is still to be
  dealt with by each flush that sends and has not failed, or came after it began
  (`FlushCovers`); the count is right, or a count is still asked for, or a flush that
  tells is under way, or something is `untold` (`Counted`). Nothing is proved of "Sync
  Complete", which a count that fails raises over a queue that is not empty (section 4).

### ResponseCacheProofs

* `TypeCorrect`, `CacheIsCurrent` and `ShownIsHonest`, by `FlowInv`: where each
  mutation is, by the step of its call and of the replay (`Placed`, `Replayed`), and
  that no answer takes account of what is not done. `RelatedCovers` is where the list
  of `invalidateRelatedCache` is used: it covers what each mutation changes but for the
  named gaps and the two `Forgotten` reads.
* `OwnWorkIsShown`: `OwnWorkShown`, by `OwnWork`: what was answered on the open page
  has been shown, or will be by the one GET of the page under way; a page that edits
  in place loads once. The theorems cover any choice of reads and of mutations that
  change them (`Explored`); the run makes one.

### What is only model-checked

Liveness: `FlushTerminates`, `QueueDrains` and `ExpiredSessionEnds`. With `ENABLED` it
is out of the prover's reach. So is induction over data; no module here uses
`RECURSIVE` operators. Three promises of the comments and documents are false and no
theorem could state them (`lost`, `author`, `twice`).

What could be proved next: that one flush and one call at a time never queue two
entries for one action; lemmas that give `CompletionEngine`'s operators their values
(the mean of a day, the overall score) for properties not stated yet.

## 6. Not modelled

* One-time codes, mail, SMS, the forgot-password page: codes and their delivery
  by outside services.
* The rate limiter: windows per address with a clock of their own, on which
  nothing else depends.
* The retention purge, the disclosure hash, the export: reads, or windows of years.
* The creation of the queue key by two tabs at once; `SyncQueue` and `Shell` have
  one tab, and `SyncQueue` a record that cannot be read (`Undecryptable`), whatever
  the cause.
* Class codes and roster columns: random draws and file formats.
* A parent's invitation, claimed inside one transaction; the weekly digest.
* Two users changing one record at once: issues, notes (`ResponseCache` follows
  one user).
* Pages that only show what they load: observation, guidance, admin, audit log,
  roster, gradebook, charts; the reminder toggle, the sheet of posters; rendering,
  translations, calendar and motion helpers; OER pack parsing, migrations, metrics,
  start-up wiring. They hold no state that others rely on, or are pure input and
  output.
