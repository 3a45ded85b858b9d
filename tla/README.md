# Nueco in TLA+

Nueco is an offline-first, end-to-end encrypted notebook: an Expo / React
Native client (`frontend/`) and a FastAPI / MongoDB backend (`backend/`). This
directory holds TLA+ modules of its stateful parts, the TLC configurations that
check them on small instances, and TLAPS proofs of the properties that hold for
every instance. `PROJECT.json` ties every definition to the lines it models.

## The system

| part | source | state | hard behaviour | module |
|---|---|---|---|---|
| note sync | `frontend/src/offlineSync.ts`, `useOfflineNotes.ts` | notes file, sync queue, temp-id aliases, two running flags | screens, push and pull interleave at every `await`; ids change under the screens; requests fail or lose their reply; the app is killed | `NoteSync`, `NoteSyncProps` |
| files on the device | `offlineSync.ts` | JSON files, their mirrors in memory, a mutex | a first read overlaps a save; writes fail or are cut off; the wipe of a deleted account | `LocalStore` |
| merge of a pull | `syncMergeCore.ts` | none | unreadable timestamps, tombstones, incomplete pulls | `SyncMerge` |
| paged pull | `pagedPullCore.ts`, `notes/service.py` | none | the collection is sorted anew while its pages are read | `PagedPull` |
| events on the device | `offlineSync.ts`, `app/event-editor.tsx`, `notifications.ts` | events file, the same queue, the OS's notifications | two paths create one event; reminders are rescheduled under those who hold their id | `EventSync` |
| days of a series | `recurrence.ts`, `events/service.py` | none | the app steps absolute days, the server local ones | `Recurrence` |
| trips | `offlineSync.ts`, `trip-editor.tsx`, `voice-event.tsx`, `trips/service.py` | trips file, links of events | links to ids that change or die | `Trips` |
| calendar import | `calendarSync.ts`, `calendarSyncCore.ts`, `calendarSyncTask.ts` | hashes, lock, settings in storage | two runs at once, a lock that expires, partial runs | `CalendarSync` |
| note editor | `app/editor.tsx` | refs of one note, a chain of saves, a web view | autosave, gesture, Back and dictation each save; the screen is gone before the answer; events made on its screen are handed back on three ways | `NoteEditor`, `OpenNote`, `NoteLinks` |
| sharing | `ShareIntentHandler.tsx`, `pendingShareDraft.ts`, `share-target.tsx`, `editor.tsx` | one draft in memory, screens over each other | an intent may be reset, replaced or wait for a sign-in; the note that is picked changes its id or is open below | `Shares` |
| session | `api.ts`, `auth/` of the client | stored tokens, the refresh in flight | many requests meet a 401 at once, two refresh paths, late replies after a logout | `SignIn`, `SignInProps` |
| keys, migrations | `crypto/` | data key, escrow row | two devices set up at once, an interrupted re-wrap, a snapshot written over an edit | `Keys` |
| encrypted fields | `crypto/noteCryptoCore.ts`, `noteCrypto.ts`, `eventCryptoCore.ts`, `offlineSync.ts` | the mark `enc_version`, the key on each device | a device without the key reads ciphertext and writes plain text; the key comes and goes between a save and its push | `Ciphertext` |
| attachments | `crypto/attachmentCrypto.ts` | streams | the last chunk is only known when nothing follows | `AttachmentStream` |
| accounts | `backend/auth/service.py` | users, sessions, counters | concurrent requests on one row | `Accounts`, `AccountsProps`, `Sessions` |
| reminders | `backend/reminders/service.py`, `events/service.py` | reminder fields of events, tickets, tokens | overlapping ticks, slow sends, edits during a tick | `Reminders`, `RemindersProps` |
| erasure, attachments | `backend/accounts`, `attachments` | rows, objects, quota | requests under way while the account goes | `Records` |
| limits | `core/ratelimit.py`, `auth/router.py` | windows | two windows, one slot each or none | `Limiter` |
| transcription | `textai/transcription.py` | jobs at the provider | every delete may fail, the process may die | `Transcription` |
| daily brew | `dailybrew/service.py`, `DailyBrewCard.tsx`, `news-source-settings.tsx` | a cache per outlet; a cache on the device | one lock, late answers written into a cleared cache | `DailyBrew`, `NewsCard` |
| Canva | `canva/service.py` | tokens of a connection | refresh tokens that can be used once | `Canva` |

The screens call the sync; the sync reads and writes the files through caches
and calls the services through `fetchApi`, which refreshes the session when a
request answers 401; the services write the collections that the reminder
scheduler reads and other devices of the account change. `Sessions` is what the
server promises of sessions: `Accounts` implements it and `SignIn` builds on it.

Everywhere a step is the code between two `await`s that wait for something
outside of the process: JavaScript and asyncio run nothing in between. A request
may fail before or after the server did it. Time is a natural number.

`past`, in each module that has it, is a history variable: it changes nothing
and says which behaviours of the code excuse a property. A property thus reads
"this holds, unless the following named thing has happened", and each of these
things is listed under *Known deviations*.

## Modules

### SyncMerge, NoteSync, NoteSyncProps

`mergeRecords(server, local, complete, pullStartedAt)` is the set of results
the function of the same name can return. 0 is a timestamp that cannot be
parsed, which makes "NaN loses" the order of the naturals. The local array is a
set and may hold two records with one id (after a restart in the middle of an
id swap), of which the code's `Map` keeps one: any of them here.

| state of NoteSync | code |
|---|---|
| `server` | the notes collection; `gone` rows have been deleted |
| `local`, `queue` | `notes.json`, `syncQueue.json` and their caches |
| `alias` | `_noteIdAliases` |
| `handle` | temp ids that an open editor or a list not yet reloaded still uses |
| `scr[u]` | the note operation screen `u` is in, and the values it read |
| `push`, `full` | `processSyncQueue` and `fullSync` in progress |

`updateNoteOffline` is three steps: the read of the note, the write under the
notes lock (`SaveLocally`), the enqueue. Every item of a push goes through its
case in `processNoteOperation`: POST, id swap and alias; GET, comparison and PUT
with the `catch` that PUTs again; DELETE. The push ends with the write of the
failed items over the queue (`SaveFailed`). `OtherEdit` and `OtherDelete` are
other devices, `Restart` kills the app. A note's fields hold the time of the
edit that wrote them, so that a lost edit shows.

The cache and the file change together; what becomes of that between them is
`LocalStore`'s: one collection with its file, its mirror, the older
`AsyncStorage` key, the mutex, and the writes the file system has been asked for.
The pull reads all pages in one step or stops with a part of them; several pages
are `PagedPull`'s. Items of a push do not depend on each other and
are taken in any order. All devices read one clock.

### EventSync

One repeating event with a reminder: the editor (`ed`, with the timer of the
autosave and the save lock), the saves that wait for the lock (`wants`), the
save, delete and refresh in progress, the queue, push and pull, the OS's
notifications (`os`). Unlike a note, an event has no alias and no comparison
before the PUT, and its creation sends a POST of its own beside the queued one.
An edit is two steps: `WriteEvent` reads the record and writes it, and keeps in
`save.isLocal` whether what it read was local; `EnqueueEvent` takes create or
update from that, as `updateEventOffline` does from its `existing`. A push that
swaps the temp id between the two sets `stale` (`SwapEventId`): once the push has
also written the queue back, the edit is a create of its own and the server makes a
second event, against the comment at that line, which has it join the queued create.
`EventCreatedOnce` and `EventsCarried` except `stale`.
A pull that began before an edit was sent may bring the older copy back until the
next one: `EventsCarried` says that the server then has the newer edit.

### Recurrence

`nextOccurrenceOnOrAfter` and `occursOnDay` are the app's search: steps of 24
hours of absolute time from an aligned start, each looked at by its local day.
`next_occurrence_on_or_after` is the server's `rrule` on local time. Both are
operators over a series, a change of the clocks and a day, and the run compares
them on every day of a year of three short months, for all four frequencies.

### Trips

Trips have temp ids, no alias, no `updated_at` and the queue of the notes. The
one event stands for the events that link to trips; `otherLinks` and
`otherDelete` are the account's other devices, and a delete on the server is two
steps, as in the service. The event's merge is by time, that of the trips is not.

### PagedPull, NewsCard, DailyBrew, Canva, AttachmentStream

`PagedPull` reads a list sorted by pin and time page by page while one write,
pin or delete goes on between the pages. `NewsCard` is the card's effect (cache,
fetch, write) against the saves of its settings, whose reply replaces the user
and then clears the cache. `DailyBrew` has the double-checked lock of
`_fetch_outlet` with several actors, the pre-warmer among them, and the choice of
the headlines. `Canva` has the one-use links and refresh tokens of several users
with overlapping requests. `AttachmentStream` reads a file in pieces of any
size, encrypts it frame by frame, damages the stored copy and decrypts it.

### NoteEditor, OpenNote, NoteLinks

`NoteEditor` has the body in the web view, its copy in `contentRef`, the saves
in their chain (`enqueuePersist`), the way out by gesture, Back or delete, and a
dictation that is shown in steps. `OpenNote` opens a stored note twice: the seed
from the local copy, the server's answer, the newer of the two, and the saves,
pushes and uploads that the last visit left behind.

`NoteLinks` has notes and the events made on their screens: the editor (`scr`),
the forms and voice screens over it (`stack`, `form`), the id on its way back
(`mail` in memory, `key` in `AsyncStorage`, `links` for the form's own write to
the note on the server), the focus effect that takes or re-reads the links
(`focus`, `reads`), and the note's saves, queue, push and pull. A push and a pull
are one step: what happens within them is `NoteSync`'s. A read of the key takes
less time than to fill in a form and post it.

### Shares

A post on its way from the system's intent (`os`) through the handler (`run`) and
the one staged draft (`draft`) to a note picked or made on the screen that asks.
`stack` holds the screens over the list, editors among them; `list` is what the
list has read, so that its cards may carry an id that a push has replaced. What
is typed, and what a push does within, is `NoteEditor`'s and `NoteSync`'s.

### CalendarSync

The keys of `AsyncStorage` (`keys`), the copies among the server's events, one
run per context (the app and the background task) at the line it has reached.
A device event's content and hash are the time of its last change. `priorHash`
is the repair of a failed action's hash at the end of the run. `queue` holds the
deletes in the device's sync queue. `deleteEventOffline` catches what its push
throws, so a delete that could not be sent is no failed action (`Queued`): its hash
is dropped, and not the next run but a later push sends it (`CarryDelete`), gives it
up after its retries or overwrites it (`DropDelete`). By then the event may be back
on the device and its copy updated: `past.late` names it, and `Imported` excepts it
until it is imported again. The deletes of another user stay in the queue and find
nothing. Nothing is assumed of when, or whether, the queue is pushed.

### Accounts, Sessions, SignIn, Keys

In `Accounts` each handler of `auth/service.py` is the read that finds its row,
and one step per later database call; two requests on one address overlap in
every way. A row or session is named by the number of the request that makes it,
as `uuid4` names it by a value nobody has. `Sessions` says that an id, once
retired, never opens again.

`SignIn` is one device: the stored tokens, `fetchApi` with its 401, the shared
refresh, the second refresh path of a cold start, login, logout, kill. The
server's side is `Sessions`, so that what `Accounts` is shown to do is what the
device relies on. `Keys` follows the account's key over two devices and one
escrow row: set-up, unlock, recovery, re-wrap, logout, and the migration of notes.

`Ciphertext` is one note or event (`kind`) on the server and on devices that have
the key or not (`dek`). A text is what it says and how often it is encrypted
(`coats`); `encryptNoteFields` and `decryptNoteFields` are those of
`noteCryptoCore.ts`, of which `eventCryptoCore.ts` is a copy without filenames.
The queue, the comparison before the PUT and the merge are kept as far as they
decide which text is sent; what they lose is `NoteSync`'s.

### Reminders

| state | code |
|---|---|
| `ev` | the events collection: what the user set (`plan`) and the reminder fields (`send`) |
| `active` | the push tokens with `active: True` |
| `tick[t]` | one call of `run_tick`: its claimed documents, messages, processed ids, receipts |
| `edit` | a PUT between its `find_one` and its `update_one` |
| `receipts` | the `push_receipts` collection |

A tick makes one step per database or Expo call. Ticks overlap in every way and
`TickDies` ends one anywhere. A tick keeps the *claimed copy* of its events, for
the advance computes from it and writes over a row that may have changed since.
Lists are sets: order only decides how messages are cut into batches, and a batch
is any `BATCH` of them. One PUT is in flight at a time, all events belong to one
user, a series is `start, start + period, ...` up to `until`.

### Records, Limiter, Transcription

`Records` is one account's rows, objects and quota, one request under way and
the erasure in the order of its code. `Limiter` is the sliding window with the
shared and the user's quota. `Transcription` is a job per request at the
provider, the sweeper and its sleep, with failures and restarts.

## Runs

| run | instance | what it shows |
|---|---|---|
| `Notes` | one screen, a note on both sides and a temp id with two server ids, one worked on at a time; one pull, one remote change, failures, one kill | A note is created once and a withdrawn one never, its temp id leads to it, edits and deletes are carried unless a named step lost them, the device never goes back to an older copy. |
| `OperationsEnd` | one screen, one pull, failures, one kill, one remote change | Push, pull and the screens that wait for them end; no update names a note the server does not have. |
| `Ticks` | two ticks slower than the limit of 1, one dies, one event that is moved | Who can have one event at once, no device gets two tickets for one fire time, nothing is sent early, and what is marked sent was answered. |
| `Repeating` | one tick, three series, three edits | A pending reminder fires at the lead before an occurrence of the event as it is; every claim ends. |
| `Accounts` | two requests at a time, four in all, two passwords | Wrong passwords in a row lock, a reset leaves no session of the old password, sessions have accounts; `Accounts` implements `Sessions`. |
| `SignIn` | two accounts, two sessions, two requests | Stored tokens are one session's, the key is the account's own, a live session is not thrown away for want of a network, every request ends. |
| `EventSync` | one event, two edits, one retry, one kill | One event is made, the OS's reminders are known, edits are carried, unless an edit's write overlapped the swap of the temp id. |
| `CalendarSync` | two device events, three changes, two faults, two contexts | One copy each, nothing is deleted that did not leave, whenever the queue carries it, and everything is imported in the end, unless a late delete took it. |
| `Parts` | eighteen small components, one per behaviour | See the next table. |
| `SameOccurrence`, `NewTrip`, `QuietOpen` | as small as the case needs | Violations of what comments say (see *Findings*). |

| property of `Parts` | module | what it says |
|---|---|---|
| `EditorKeeps` | `NoteEditor`, `OpenNote` | One note is made, and what was typed before the way out is saved, unless the web view failed to answer; opening a note whose push is under way does not undo it. |
| `LinksLand` | `NoteLinks` | When all is quiet an event is linked to the note it was made on and to no other, and notes have their last text, unless a step of *Known deviations* came in between. |
| `SharesArrive` | `Shares` | Once every screen is left, a shared post is in the note chosen for it and in no other, unless a step of *Known deviations* came in between. |
| `LinksLive` | `Trips` | No event of the server links to a trip that is gone, nor does the device's after its next pull. |
| `SameDays` | `Recurrence` | App and server agree on the days of a series, but for a shortened day. |
| `OpensWhole` | `AttachmentStream` | What opens is the whole file, or its beginning up to a frame's edge; an undamaged file opens and has the announced size. |
| `NewsHolds` | `NewsCard`, `DailyBrew` | Once the settings are left, the server has the last choice and the cache no news of other sources. No outlet is fetched again while its cache is fresh; the slots are filled and shared. |
| `ConnectionLives` | `Canva` | A connected user has Canva's good token. |
| `KeyIsKept` | `Keys` | The notes' key can be recovered, the current password opens it, and a migration carries the newest text, unless the note was saved between its read and its write. |
| `StoreKeeps` | `LocalStore`, `PagedPull` | What a call reported as saved or removed is what the next read returns. A note stays on the device through a pull, unless it was written meanwhile or moved a place up. |
| `SealHolds` | `Ciphertext` | A text of the server is encrypted once if its record is marked and plain if not, unless it was sent without the key, with a stale mark, or was saved as the ciphertext a screen showed. Filenames can always be read. |
| `QuotaHolds` | `Limiter` | No window holds more than its limit, and who is told to wait is let in after it. |
| `AudioGoes` | `Transcription` | A recording is kept while a request waits for it, and goes within a bounded time. |
| `ErasedLeavesNothing` | `Records` | After an erasure nothing of the account is left but what requests under way wrote. |

### Bounds

One note, one event or one account is enough for most questions: no handler
relates two, and queue, snapshot and merge work id by id. Limits of the code are
small but reached: `MAX_RETRIES` 1 (fail, retry, fail, drop), `MAX_FAILED` 2,
`STUCK` 1 or 2, `BATCH` 1, pages of 2,
chunks of 2 bytes, files of up to 6. Each
`Max...` constant bounds the environment's steps (edits, kills, faults, pulls) or
the clock, high enough that an edit falls before, within and after each operation.

Some runs also have a `CONSTRAINT`, defined in their MC module: a state whose
`past` excuses the properties for ever is checked but not followed further
(`Undisturbed`, `Alone`, and `Followed` of `Parts`). `Alone` also allows four
changes and faults together, `OneNote` of `Notes` work on the first note or on the new one, and one edit less
once the app was killed, and `OneDisturbance` of `OperationsEnd` a kill or a remote
edit but not both. In `Parts` it also keeps a few parts small: one request at a time waits to write in `Records`, one trip
operation is queued at a time, a push of trips does not overlap a pull or a
server's delete, and one push or pull of the encrypted record runs at a time.
`Followed` of `SignIn` follows one request once tokens are mixed; without it the
run passes too. A liveness property speaks of the behaviours within the
constraint: each of these only ends behaviours that go beyond a bound, as a
bound in a guard would, or, in `Alone`, that have overlapped, where
`GetsImported` holds by its exception. `Accounts` treats the two requests as
symmetric; its action property speaks of all of them.


Deadlock checking is off everywhere: users may rest and bounds be used up. That
nothing is stuck inside an operation is `OperationsEnd`, `ClaimsEnd`,
`FetchEnds` and `GetsImported`.

### Fairness

- `NoteSync`: a push, a pull and each screen's operation go on when they can.
  JavaScript runs every continuation whose promise is settled, so this is what
  the code gives when every request settles. `fetchApi` aborts after 30 s, but
  the read of the body and the refresh have no timeout: a stalled one holds the
  flags, and no property covers that.
- `SignIn`: the same for requests, refreshes, login and logout.
- `Reminders`: each tick is started again and again (cron, once a minute) and
  goes on when it can (Expo calls have a timeout of 30 s), and the clock goes on.
  No send is assumed to succeed.
- `CalendarSync`: the app's runs are started again and again (each focus of the
  tabs, throttled) and go on; locks expire. Nothing is assumed of the background
  task, of users, of the sync queue or of the device's calendar.

The parts of `Parts`, `EventSync` and `Accounts` state safety only and assume
no fairness.

## Findings

Each is a run of its own whose property is the comment it contradicts:

- `SameOccurrence`: after a reminder of a series is sent the next occurrence is
  looked for from now on, and the one just announced is still ahead. It is found
  again, its fire time is past, and each later tick sends it once more until the
  occurrence starts. The test of the advance has an event that started long ago.
- `NewTrip`: a new trip is linked to under the temp id it was created with. The
  comment of `createTripOffline` says nothing links to a brand-new trip; the
  voice screen and the trip editor do, and the id is gone once the trip is pushed.
- `QuietOpen`: a note opened while another device's newer body is on the server
  takes the server's title but not its body, and leaving the screen, unedited,
  saves the mixture over the other device's edit.

## Known deviations

What the modules found besides, each an exception some property names or a step
that is left out for the reason given. Line numbers are those of the files below
`frontend/` and `backend/`.

Notes on the device (`src/offlineSync.ts`):
- An operation enqueued during a push is overwritten by the write of what failed
  (:755, against "stays queued", :423); an item dropped after its retries leaves
  the newer text on the device only; a tombstone is removed although its delete
  failed (:459, :622), so the note comes back (against `syncMergeCore.ts:70`).
- The payload of a queued operation is replaced (:330): a pin toggle before the
  first push makes a create without text (against :292), and of two screens' edits
  the one that is enqueued last is sent, even if it is the older one.
- A note that was never pushed, deleted on one screen while another is saving it,
  is written again: the first screen then takes the second one's operation out of
  the queue (:442), or the note is back under an id that leads nowhere.
- The list's delete of a note that was never pushed leaves its create queued
  (`useOfflineNotes.ts:168`). Between the swapped id and its alias an edit under
  the temp id is dropped silently. The `catch` of an update PUTs without comparing.
- A pull in several pages misses a note that another device writes meanwhile, or
  that moves a place up, calls itself complete and drops it until the next pull.
- A first read of a file that overlaps a save puts the old array back into the
  mirror (:256, against "invalidated by every write", :205), and the next save
  writes it; deletes and the queue do not take the lock. Of two first reads while
  the old key is moved the second finds nothing; a write that fails in the move
  drops the key (:164, which speaks of a value too big to read); a torn file reads
  as empty (:171). A wipe that fails is ignored, calls under way at the wipe write
  the old account's records again, and a logout wipes nothing.

Events: a save that holds the temp id after the swap returns silently (:571), and one
that read its record before the swap creates the event again (:583, against the
comment at :581); the inline POST races the queued one (:541), and a kill before the
queue is filtered duplicates the event (:553); deleting neither stops the autosave nor
takes the save lock (`event-editor.tsx:812, 988`); the lists' delete leaves the local
reminder (`events.tsx:208`, `event.tsx:113`); the refresh of reminders works from a
snapshot; Back saves without rescheduling; a pull that overlaps a delete brings the
event back, one read before a POST landed drops it until the next.

Recurrence: on a day the clocks shorten, the app does not find a series in the
last hour at all (`recurrence.ts:17` speaks of one day off), and its reminders are
an hour off afterwards; a series of 29 February lies beyond the search's three
years; the server stops after 3650 occurrences.

Trips: an edit or delete under the temp id after the swap does nothing, or
queues a DELETE nobody answers; a pull reverts a rename that has not landed (trips
have no `updated_at`); voice `saveAll` retried after a partial failure repeats the
trip; events keep a deleted trip's id until the next pull, and an edit pushes it.

Calendar import: events that leave the window of seven days are deleted
(`calendarSync.ts:126` against :8); a skipped deletion is never caught, for the hashes
are written anew (`calendarSyncCore.ts:133`); a deletion whose push fails is not
retried by the next run (`offlineSync.ts:618`, against `calendarSync.ts:167`) but
stays queued, where it is dropped after five failures, with the copy left for ever, or
takes the copy of an event that has come back and is not imported again before its
next change; a kill between the hashes and the ids can delete a deselected calendar's
copies; the lock is read and then set, and a run that outlives it removes the next
one's; a run in progress at a logout writes its keys into the next account's.

Editor (`app/editor.tsx`): emptying a note and going back does not save it (:2321); a dictation left
while it is revealed is saved half (against :1331), what is typed meanwhile is
overwritten by the next frame, and tidying drops what was typed after (:1816); an
upload that ends after the screen is gone saves that screen's copy over later
edits; edits made while a note loads are overwritten by the answer.

Links to events: the focus effect's read replaces links not yet saved (:1058,
against `event-editor.tsx:139`, which rules out a stale read); the form's own PUT
of a link is stamped with the server's time, so that a note edit queued before it
is dropped by the push or hidden when the note is opened (`offlineSync.ts:786`),
and two such PUTs overwrite each other; a note left before its focus effect or an
unlink's push answers keeps the old links (:2213, against :2199); an event saved
after its form was left by the gesture (`event-editor.tsx:809`), or dictated
before another screen was opened (:1750), goes to whichever note is on the screen
next; a key whose note was killed with the app is taken by another note; an event
made offline leaves its temporary id in the note (`offlineSync.ts:556`).

Sharing: a post shared while another waits or is handled replaces it or is reset
with it (`ShareIntentHandler.tsx:78`; one draft, `pendingShareDraft.ts:14`); one
that waits for a sign-in is reset when the app goes to the background
(`_layout.tsx:72`, against `ShareIntentHandler.tsx:33`); an editor left before it
has loaded leaves the draft staged; a note picked that is open in an editor below
loses the post when that one saves; after a swipe the draft stays. A card
or row whose temporary id a push has replaced opens a blank screen
(`editor.tsx:918`, which takes the id for one that was never pushed), and every
way out saves the blank over the note through the alias (`offlineSync.ts:246`).

Sessions and keys: an offline logout throws after the tokens went, so the key and
the shown user stay (`AuthContext.tsx:204`); the three token writes of a login
are not one; a late refresh writes its tokens after a logout; the comment at
`api.ts:21` speaks of rotating refresh tokens, which `auth/service.py:424` does
not do; two devices may set up keys at once, and a set-up cut before the recovery
code is shown leaves none; a migration overwrites an edit made meanwhile
(`E2EE_MIGRATION_ENABLED` is taken as on). Concurrent failed logins count once;
discarding an account deletes it although it was verified meanwhile.

Encrypted fields: with the recovery code skipped, or in the browser, an edit of an
encrypted record is sent as it is while the server keeps its mark
(`noteCrypto.ts:47`, `notes/service.py:159`), so that devices with the key show
"Unable to decrypt" and a save there makes that the text. The update of an event
carries the mark of a copy pulled without the key (`offlineSync.ts:584`) and is
then sent plain although the key is there. A note saved as the ciphertext its
screen showed is encrypted again (against `noteCryptoCore.ts:63`).

Attachments: a copy cut at a frame's edge opens without its end
(`attachmentCrypto.ts:184` against `attachmentCryptoCore.ts:22`); legacy files
shorter than the header do not open. The quota counts claims and fails open, an
upload's URL outlives an erasure, and requests under way write after the wipe.

Reminders: a repeating event whose batch failed is advanced
(`reminders/service.py:148` against :95); a PUT of an unrelated field resets an
advanced series (`events/service.py:285` against :278); a claim is recovered by its
age alone, so two ticks may hold one event (against :130); an event whose messages
Expo refused is marked sent.

Daily brew: the pre-warmer runs more often than caches age, finds them fresh, and
they go stale between its cycles (`dailybrew/service.py:212`); a failing feed is
fetched again by every request; leaving the settings saves them unchanged
(`news-source-settings.tsx:344`); the user is replaced before the cache is cleared
(`AuthContext.tsx:197`), so old news may be shown once more; a failed fetch is
cached as no news. Canva: concurrent refreshes end in a disconnect, any answer but
200 disconnects, a disconnect does not revoke at Canva. The month cache of
`api.ts` (:183) may keep a list read before an edit, and outlives a logout.


## Proofs

Eight modules hold proofs; the other properties are TLC's alone.

`NoteSyncProofs` first proves of every merge, whatever its inputs: a tombstone the
server still returns stays (`TombstoneStays`), a record that was never pushed
survives (`LocalOnlySurvives`), what is kept is older than neither copy
(`NewestWins`), a record the pull did not return goes only when the pull is
complete and started after its last change (`AbsentSurvives`), and the result
has one record per id (`MergeIsAMap`). The hypothesis `OnlyOne` says the store
holds one record with the id, which is what the code's `Map` needs too.

Then it proves for any number of notes, screens, edits, kills and pulls that the types
are right (`TypeCorrect`) and that an update is only sent for a note the server has made (`NoDoomedUpdate`). The latter is not inductive: a
queued update comes from a local note, which comes from a screen, an id swap or
a pull. `IdsMatchKinds` says of each of these places that a local note has a
temp id and any other a known one, a create is filed under a temp id and an
update under a known one. The assumptions are those `NoteSync` names: ids are
disjoint, synced notes are on the server, bounds are naturals, and no screen is
called "none" or "full" (the other callers of a push).

It also proves, of the same behaviours with their history and for any number of
screens at work on one note, every property the run `Notes` checks.
All rest on `Shape`, which says what the steps rely on between two `await`s: what each
screen has in hand at its line (`ScreenShape`), that a push's caller is there when
it ends (`CallerWaits`), one item per id in the queue and in what a push has taken
(`ItemsApart`), none of the future, that the reply of a create is a row of its item
(`PushShape`), that a note with a temp id exists once and is no tombstone
(`TempNotes`), that what was read from the server is not ahead of it unless a PUT
took it back (`Behind`), and that temp ids in use were given out (`TempsBorn`).
Over it:

- `NotesMadeOnce`: two rows of one temp id mean that it is in doubt. `OnceInv` adds
  that a create which is still to be posted is the first one or in doubt, in the
  queue when no push runs, and in the snapshot and the failed items while one does
  (the queue may then hold creates whose note is already made). `DroppedInv` says of
  a withdrawn note that all there is of it anywhere are deletes.
- `HandlesLead`: a temp id a screen holds is in the store, or its alias leads to a
  row of it, or the alias is being written (`Leads`); the same of a screen about to
  enqueue an edit, while one about to enqueue a delete knows the note was made.
- `DeletesGetThrough`: while a push has a delete the queue has it too, so that the
  write-back cannot lose it; and while a push runs, a delete is in it, on its way to
  the queue, or among those the write-back throws away (`past.late`).
- `EditsGetThrough`: an item `Covers` a note when it is not older, under either of
  the note's names. `EditsInv` says of every unsynced note that such an item is queued
  or about to be, and, while a push runs, that the push has one or a late one is
  queued. The id swap renames the note under its items, which is why an item may have
  the name the note had.
- `NeverGoesBack`: of a note the device has once, no step puts an older copy in its
  place; `MergeForward` is the lemma about `mergeRecords`.

The proofs found what one screen is too few to show: three of the six ways in
`ThrownNow`, and `past.crossed`, are of two screens at one note (see *Known
deviations*).

`EventSyncProofs` proves for any number of edits, events, notifications, pulls and
kills the properties of `EventSync`. All rest on `Shape`: ids and creates
have the temp id exactly on the device (`IdsGiven`), one item per id in the queue
and in what a push has taken (`PushShape`), a save has the lock with the reminder
the editor holds and is the only one that makes the event (`SaveShape`), and an
editor that does not know its event has nothing, anywhere, but a save that is making
it (`Stage`). Over it:

- `EventMadeOnce`: once the event is made nobody is left to make it again (`Made`):
  no save is before its POST, no create is queued, or in a push, but the one that is
  being swapped and the one the editor is about to take out of the queue, and an edit
  that took its record for a local one waits only while that swap is to come. A save between its
  write and its queue holds a local record while the event has its temp id
  (`SaveShape`), so that only the step that swaps the id can leave it a stale one,
  and that step sets `stale` (`SwapExcused`).
- `RemindersKnown`: every number the OS holds is the editor's, a record's or the
  refresh's (`Held`). That is not inductive by itself. `EditorKnows` says that the
  editor's number is in the record, or will be when the autosave ends, and that what
  the record holds is what the editor has; `RefreshKnows` and `DeleteKnows` that the
  number they cancelled is the only one the record can still name. Most steps
  schedule nothing, and `Calm` is the lemma about those.
- `EditsCarried`: what is still to be sent is `Items`, the queue or what a push has
  taken of it. An edit under the temp id is in a create, or in the hands of the save
  that enqueues one (`NewCovered`); an edit under a real id is on the server, in an
  item, or in those hands (`OldCovered`). That the item carries the edit in the end,
  and nothing older, needs the order of times (`Latest`, `ServerForward`): an item is
  enqueued with the newest edit there is, and no item, pull or reply is older than its
  row. An edit that read its record before the swap is excepted by `stale`: it ends
  in a row of its own, and the first row stays as it was.

The assumption is that the bounds are naturals.

`RemindersProofs` proves for any number of events, ticks, tokens and schedules
that the types are right (`TypeCorrect`; a repeating event's next fire time is
never before the beginning of time), and four things about whoever overlaps.

- Two ticks have one event only if its claim was undone under one of them
  (`EventsHaveOneHolder`). `OneHolder` alone is not inductive: a second tick can
  claim an event only while it is pending, so `HolderInv` adds that an event a
  tick has is pending only if its claim was undone (`PendingIsLoose`), that a
  tick with two copies of an event lost it between them (`TwiceIsLoose`: the
  advance of one copy makes the event pending under the other), and that what a
  tick has was created (`HeldExist`: a new event is nobody's).
- What waits to be sent is due before an occurrence of the event as it is
  planned now (`WaitingIsCurrent`). `CurrentInv` says so of every row that is not
  sent, of the fields a PUT has computed and not yet written, and that whatever
  a tick has copied has a reminder at all.
- What was sent was due, and a tick's result handled it (`SentIsRight`).
  `SentInv` says of a tick what it has claimed and processed (`TickShape`,
  `HeldAsClaimed`, `ProcessedHandled`) and of a PUT when its fields are due.
- Where no event repeats, no device is told twice of one fire time unless the
  event was recovered as stuck (`OneTicketOnce`). The hypothesis `OneShot` keeps
  series out, as the run does: by the finding `SameOccurrence` a series *is*
  announced again at the same occurrence. `OnceInv` says that a time which was
  claimed or has a ticket is not asked for again (`TicketsArePast`,
  `ClaimedNotAsked`), is claimed by one tick (`ClaimedByOne`), who also got its tickets (`TicketIsOwn`), and that a PUT
  which asks anew asks for a time nobody has taken (`EditAsksAnew`).

The assumptions are that a reminder's lead is shorter than its start and that
limits and bounds are naturals.

`AccountsProofs` proves for any number of requests, passwords and limits that
the types are right (`TypeCorrect`) and that the handlers, however their
database calls interleave, implement `Sessions` (`ImplementsSessions`). A step of
a handler has one of five shapes, each a lemma: a request arrives, moves on,
ends, opens a session, or closes some. The refinement maps the first three to
stutters and the others to `Open` and `Retire`. That `Open` takes a fresh id needs
an invariant of the numbers: `Numbered` says that sessions and requests in
flight have numbers already given out, and no two share one. Over it the history
is added, and `PInv` proves the three properties of `AccountsProps`:

- `LimitLocks`: as many failures as the limit lock the account, unless two
  attempts overlapped. `Counting` ties the row, the rows that logins have read
  and the failures that happened together.
- `ResetsEndSessions`: a session, a login about to open one, and a login that has
  read the old hash, with a password that is no longer the account's, are
  excused or a reset is still to sweep them (`Swept`).
- `SessionsOwned`: sessions, and logins on their way to one, are of users that
  are verified or were under a delete (`Owned`), and the number of a signup is
  nobody's until its row is inserted (`Fresh`).

The assumptions are that there is a password, that limits are naturals, that at
least one request is allowed and that a failure is needed to lock (`SomeFailure`).

`SignInProofs` proves for any accounts, sessions and calls of `fetchApi` that the
stored tokens are of one account, the one that is shown, and that none are left
after a logout (`TokensOfOneAccount`), that the key is that of who is shown
(`KeyOfWhoIsShown`), and that tokens the server still honours go only with a
logout or with the refusal of another session (`NoLiveTokenLost`, of every
step). The exceptions are those the properties name. `MInv` says what the three
need at every await of a login, a logout and a start: what a login has written
so far (`SoFar`), that tokens go and come whole (`Whole`), whose they are
(`OneAccount`), and whose key there is (`KeyOfUser`). The proof found what two
sessions are too few to show: a cold start's refusal clears what a login has
written so far, and the login goes on with the rest; `TokensMatch` excuses it.
The assumptions are that a session has an owner and that `None` is neither an
account nor a session.

`CalendarSyncProofs` proves for any events, changes and faults that the import
makes one copy of a device event (`CopiedOnce`) and deletes copies only of events
that are gone (`OnlyGoneDeleted`). `CopyInv` says that one run at most is past the
lock, that what a run knows when it plans names every copy there is (`KnownWhole`),
and that what it is still to create is not there (`CreatesFit`), which a create
whose answer is lost keeps: it leaves the plan, and the next run reads the copy.
`GoneInv` ties the stored hashes to the stored calendar ids: an event with a hash is
of a calendar that was synced or is gone (`HashesFit`; `SavedFits` while a run has
written the one and not the other), and what a run does not see of its own calendars
is gone or the read failed as a whole (`UnseenFits`). That a queued delete is of an
event that is gone (`QueueGone`) carries this over to whenever the queue is pushed. The assumption is that no event
is the mark of ids that are not stored (`UnsetApart`).

`ServerPartsProofs` and `DevicePartsProofs` prove eight of the properties of `Parts`, a
section each (`StoreKeeps` has two), of `MCParts`'s own `Spec` and for any values of its
constants. None needs `Followed`: the bounds that keep `Parts` small for TLC are no
hypotheses. The values that `MCParts`'s INSTANCE lines fix stay: two calls at a time
and two items for the local store, one write of other devices to a paged collection,
one save of a note while its key changes, two requests to Canva, two saves of a text.

- `QuotaAlwaysHolds`: the limiter remembers the end of what it has let through, in
  order, and what it has forgotten has left the window (`Tailed`, `Ordered`); so two
  calls a quota apart are a window apart (`Spaced`), and who was told a time was told
  when the oldest call he is remembered by leaves (`ToldRight`). That a window's
  oldest call is the first index left in it needs the least of a set of numbers
  (`Least`, from the well-foundedness of `<`, in the place of induction).
- `ErasureIsWhole`: what the erasure has behind it is gone in its order (`Behind`).
  Receipts are found by the tokens, so no receipt is there without one while the
  tokens are still to be wiped, and none is about to be (`ReceiptsFound`): this is
  where the order of `eraseOrder` matters.
- `ConnectionsLive`: a grant is used by one user (`LinkGrants`), the steps of a user
  that have not crossed are one at a time (`LinkOneStep`), and a refresh on its way
  has the good token of a connection that is wanted (`LinkConnected`).
- `TextsAreSealed`: what `SealHolds` says of the server's record is also said of the
  pages devices have read (`SealServed`), of their copies (`SealCopied`), of the
  updates that wait (`SealWaits`) and of those being sent (`SealSent`). A record that
  is marked stays marked, and `SealGrows` is the lemma that keeps all four across
  another device's push.
- `LinksAreLive`: the server's event has no link to a trip whose delete is under way
  (`TripServed`), so the delete's second step breaks none; the device's names a trip of
  the server or one deleted since its last pull (`TripShown`), what it queues and pushes
  carries ids the server gave (`TripSent`), and an event a pull has read names no trip
  that was dead when it was read (`TripRead`), which is what the merge then stores. The
  excuses are those `LinksLive` names.
- `KeysAreKept`: all that devices have or have read is of one key and of one recovery
  code, until two set-ups overlap (`KeyOne`); the last change of the password is in
  the wrap, or in a flow that still takes it there (`KeyOpens`).

- `RecordingsGo`: a job that is waited for is younger than what a sweep lists
  (`SpeechWaits`), so no sweep takes it, and every other job has, with what the sweeper
  sleeps yet, at most the age it may reach, or is on the list of the sweep under way
  (`SpeechDue`). Each fault, a failed call or a restart, moves that age by an interval.
- `NothingIsLost`, of the local store: the disk has what was reported (`StoreDisk`), the
  writes that wait take it, one after the other, to what the mirror has (`StoreQueue`,
  where `Before` is what a write finds), and a call that reads has read what is on the
  disk, or the old key while there is no file (`StoreCall`); who saves has the lock or
  nobody reads. The invariant is of the runs in which nothing of what `StoreKeeps`
  names has happened.
- `NothingIsLost`, of a pull by pages: a note that is there, was not written and has lost
  none above it is among those found, or its rank is on a page still to be read
  (`PageFound`). A write takes no other note's rank up (`PagesWritten`). That a page
  which is not full is the last is a matter of counting: the notes above a note have
  every rank below its own (`PagesTaken`, by the pigeonhole facts of the library), so
  a page above a note is full (`PageFull`).

The assumptions are that quotas are positive and no user is called "global", the key
all users share (`SomeQuota`), that a job times out before it is stale (`SomeTimes`:
five and ten minutes in the code), that notes have numbers, pages a place and
stamps are not in the future (`SomePages`), that the server has ids for trips and the
device's own are none of them (`SomeTrips`), that the bound on grants is a natural, and
that `None` is neither a text nor the row of an escrow.

TLC checked each inductive invariant before it was proved.

Only model-checked: of `Parts`, the editor and reopened notes (`EditorKeeps`),
encrypted attachments (`OpensWhole`), the news card and the headlines (`NewsHolds`), the
days of a series (`SameDays`), links from notes to events (`LinksLand`) and shared posts
(`SharesArrive`), of which `OpensWhole` and `SameDays` need induction over bytes and
days; the liveness properties `OperationsEnd`, `ClaimsEnd`, `FetchEnds` and
`GetsImported`, which are outside of what the prover does, as is what `Recurrence`'s
searches compute for every input.

## Plan

1. Proofs of the other components of `Parts`, `Shares` first.
2. `Recurrence` on leap years, and trips and series composed with `EventSync`.
3. The lists of the tabs, the month cache of `api.ts`, uploads of the editor
   (placeholders and thumbnails) and the sketch screen.

## Not modelled

- Layout, gestures, text and its formatting, rendering of attachments and maps:
  no state that two actors share.
- AI text, feedback, voice hints, analytics, link previews: calls of services
  that keep nothing for the app, or text processing.
- Regions, configuration and the database's driver: read once at start.
- The ciphers, and the codec of trips, which is that of events again.
- Copies of events in the device's own calendar: the OS's calendar is external,
  and what the import makes of a copy is as for any other event of the device.
- Google sign-in: another company's protocol; what follows it is `SignIn`'s login.
- Timeouts of bodies and refreshes, which the code does not have.

`PROJECT.json` names what is left out within the parts that are modelled.
