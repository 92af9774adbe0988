# Spectro in TLA+

Models, model-checking runs and machine-checked proofs for Spectro: a browser SDK that
captures and delivers events, an ingest service and processor that store them, a control
plane that manages issues, organizations and logins, and a console over all of it. Every
definition follows the source; `PROJECT.json` maps each one to its file and lines.

## The system

| Part | State | Operations | Talks to |
|---|---|---|---|
| SDK client (`packages/core`, `packages/browser`) | queue, flush in flight, follow-up, timers, retry gate | capture, flush, page exit, online/offline, destroy | outbox, ingest |
| SDK outbox (`browser/src/outbox.ts`) | IndexedDB records of urgent events | load, save, remove | the client's chained writes |
| SDK session and page (`lifecycle.ts`, `index.ts`) | session, its stored copy, page, contexts of recent URLs | start, touch, navigate, resolve a context | sessionStorage, every capture |
| SDK captures (errors, network, performance, interactions) | patched globals, subscribers, requests in flight | init, observe, capture, destroy | the client; other libraries' wrappers |
| Ingest (`apps/ingest`) | none of its own | POST /v1/envelope | key store, JetStream |
| Admitted stream (`packages/pipeline`) | work queue, duplicate window, deliveries | publish, next, ack, nak, term | ingest, processor |
| Processor (`services/processor`) | the delivery in hand | run loop, insert | JetStream, ClickHouse |
| Query API (`apps/api/src/app.ts`, ClickHouse stores) | none | lists by keyset pages, live window | ClickHouse, issue statuses |
| Issue lifecycle (`postgres-issue-lifecycle.ts`) | status row, history rows | set, getMany, history | PostgreSQL |
| Organization (`postgres-organization-members.ts`, `postgres-project-write-keys.ts`, `postgres-workspaces.ts`) | memberships, invitations, keys, audit log | invite, revoke, accept, change role, remove, create project/key, revoke key | PostgreSQL, logins |
| Hosted auth (`hosted-auth.ts`, `postgres-auth-control-plane.ts`) | login attempts, identities, sessions | login, callback, session, logout, authorization | OpenID provider, PostgreSQL, cookies |
| Web console (`apps/web`) | cached lists, walks, live buffer, URL, forms | page on, poll, pause, mutate, set up, join | API |

What is hard here, and what makes each part correct:

- **Event plane.** Every message between processes can be lost, late or repeated; processors
  crash between the insert and the acknowledgement; inserts are neither atomic nor final when
  they fail. Correct means: a 202 is never lost, an acknowledged message is stored, and
  nothing reaches the table that was not admitted. Repeats are allowed.
- **SDK delivery.** One thread, but captures, timers, storage and fetches interleave at every
  `await`; the page may end anywhere. Correct means: an event is in one place, urgent events
  are preferred and recoverable, dropped ones are forgotten, and nothing waits forever.
- **SDK capture.** Clients come and go on a page that reloads and navigates, among requests in
  flight, late observers and other libraries' wrappers. Correct means: one event per
  observation, with the context in which it began, in a session that was announced.
- **Control plane.** READ COMMITTED transactions, whose statements interleave and wait for
  row locks. Correct means: history and audit log explain the state, authority holds at the
  moment of the change, an owner remains, and no call waits forever.
- **Hosted auth.** Callbacks repeated, replayed or opened elsewhere, answers in any order, a
  failure after any statement. Correct means: a browser is signed in by its own login, a login and
  a logout leave the session they carried dead, dead sessions do nothing, and a page acts for the user it showed.
- **Console.** Everything it shows is a copy that ages: lists while events arrive, roles while
  others change them, URLs after memberships end. Correct means: lists are complete and free of
  duplicates, gaps are reported, and what is shown and changed belongs together.

`PROJECT.json` lists the hazards at their lines with the properties that cover them. Left
out of that list: JetStream's max_msg_size counts headers that the envelope limit does not
(`jetstream.ts:84`); `protectOwner` does not lock the other owners against being disabled, which
no code does (`postgres-organization-members.ts:95`); an IndexedDB that failed to open stays
failed for the page (`outbox.ts:183`).

## Modules

| Module | What it models |
|---|---|
| `AtLeastOnce` | Abstract: what the event plane promises a producer. Custody of an envelope ends only when it is stored or cannot be decoded. |
| `EventPlane` | Ingest handler, stream and consumer as provisioned, any number of processor workers, ClickHouse inserts. Implements `AtLeastOnce`. |
| `Subsequences` | The elements of a sequence at chosen indices, which queue, outbox, contexts and buffers keep. |
| `EventQueue` | The pure part of delivery: the two-priority queue (enqueue, drain, prepend, retry, restore) and the outbox's save and load. |
| `SdkDelivery` | Client, browser timers and listeners, flushes and outbox transactions, over `EventQueue`. |
| `PageSession` | The pure part of sessions and pages: start, touch, navigation, rotation, stored session, contexts by URL. |
| `RequestBridge` | The pure part of the instrumentation: wrappers around fetch and XMLHttpRequest, subscribers, resource entries. |
| `BrowserCapture` | Clients on a tab, over `PageSession` and `RequestBridge`, with their captures. |
| `IssueLifecycle` | Concurrent `set` transactions on one issue. |
| `Organization` | Concurrent transactions on one organization with PostgreSQL's row locks, logins and expiry beside them. |
| `HostedAuth` | Login, callback, logout and requests of several browsers, statement by statement. |
| `HistoryPages` | Walks over seven lists with keyset cursors while their rows change. |
| `LiveObservation` | The live view's polls, windows and buffer over the API's live query. |
| `SettingsPages` | Member directory and write keys: cached lists, mutations, other people's changes. |
| `WorkspaceGate` | The gate's redirects, the first organization and project, and joining by invitation. |
| `MCConsole` | Composes the last four: one is open, the others stay at an initial state. |
| `MC*` | Constants for TLC. Definitions named "Mutant" in a comment are the plausible bugs each property is tested against; no specification uses them. |
| `EventPlaneProofs`, `SdkDeliveryProofs`, `BrowserCaptureProofs`, `IssueLifecycleProofs`, `OrganizationProofs`, `HostedAuthProofs` | Theorems about these modules and their proofs. |
| `ConsoleProofs` | The same for the four modules of the console. |
| `SubsequencesProofs` | What `Subsequence` returns, least numbers, and recursion along a sequence. |

### How state and actions correspond to the code

**EventPlane.** `request[r]` is where the handler is in `app.post('/v1/envelope')`; `wire` and
`acks` are messages under way; `status`, `envelope`, `deliveries` are the stream and its
consumer; `worker[w]` is the delivery of `ProcessorWorker.runOnce` and what its insert has left.
`Fetch` is `source.next` that decodes, `Terminate` one that throws; `Commit`,
`InsertResolves`, `InsertRejects` and `StragglerCommits` are the insert, which may commit one
part after the other, and also after it was rejected; `Acknowledge` and `Retry` are the two
ends of `runOnce`, `Crash` a process that stops. Requests that fail a check (key, origin, size, schema)
publish nothing and are not made. The duplicate window and `ack_wait` may elapse at any time.

**SdkDelivery.** An action is one task with its microtasks. `queue` is the `EventQueue`,
`writes` the chain `#persistenceWrites`, `flush` the one in flight (`waiting` for `#ready`
and the writes chained when it began, `sending`, `removing`), `follow` the merged options of
the calls that came meanwhile, `retry` the retry timer that holds the gate shut. `Draining` gives the
continuation of the awaits precedence over other tasks, as the microtask queue does. `fate`
is a history variable. An event is a number in capture order, with a size and whether it is
urgent; `Nearby` stands for the context that an urgent batch takes along.

**BrowserCapture.** An action is one task: `InitClient`, `Destroy` and `Reload` (with `Begin` and
`Destroyed`, the order of the constructors and what a failing one undoes), `Navigate`, `SetHash`
and `HashChange`, `Touch`, `CaptureThenTouch` and `Capture` by what comes first in the source, and the
steps of requests and of the performance observers. `tab` is what survives a reload, `bridge`
the instrumentation, `history` the patched `pushState`/`replaceState`, `events` what the last
step captured. A session's start is folded into its last activity; requests are well formed; of the constructors
those of the lifecycle and of performance may fail; the clock starts at `PersistInterval`.

**IssueLifecycle.** A writer is one call of `set`; its steps are the statements of the
transaction. `lock` is the row lock, or the unique key's while the row is inserted.

**Organization.** A call is one `sql.begin`; a step is a statement, which waits for the row
locks in `Wants` (FOR UPDATE, FOR SHARE, the UPDATE of a key, and the key-share lock that a
foreign key takes on the organization), checks, and either goes on or ends the call.
Statements under one lock with nothing observable between them are one step. Writes
become visible at `Commit`, with the audit row. `call[c].expired` is what had expired when the
transaction began, since `now()` is that moment. `DeadlockVictim` is PostgreSQL's deadlock
detector. The name of a call doubles as the random id it inserts.

**HostedAuth.** `attempt`, `account`, `disabled`, `members` and `session` are rows, `jar[b]` the
cookies of a browser, `discovery` the provider's configuration that calls share. A call's `stage`
is the await it is at; `Reported` is a statement that took effect and failed for the caller all
the same. `Send` takes the cookies of that moment, `Arrive` changes them when the answer
comes. Cryptography and the provider's pages are external. Lost answers, restarts, expiry and
exclusion are spent from `budget`.

**HistoryPages.** A view is a list of the console; its events have times in a fixed window and
are listed themselves or in groups by their latest. `Listings` is the query below a cursor,
`Continue` and `ReadStatuses` the issue handler's loop, which joins pages with statuses, `walk` what the view
shows, `query` the request of `useInfiniteQuery`, which is external.

**LiveObservation.** `Process` and `Appear` are the processor's stamp and its row becoming
visible; `StartPoll`, `AnswerPage`, `TakePage` and `PollFails` a drain; `Hide`, `Show`, `Pause`,
`Reveal`, `RetryNow` the user. Client and server share one clock, limits of bytes act as limits of
rows, the delay of the backoff is not modelled, the selected detail is left out, and the notice
that results were truncated belongs to the update on screen.

**SettingsPages.** `version` stands for a list's contents, `list` and `fetch` for its query. The `Confirm*` and
`Submit*` actions ask, `Serve*` is the API's transaction (see `Organization`), `*Told` the mutation's
callbacks, which follow react-query's rules: invalidating does not cancel a first read, asking
for more rows cancels one under way, only a mounted component's options run. An
organization stands for its project and environment and has one other member; the session asked for before
a mutation is covered by `HostedAuth`; that a list may be read again on mount
covers `staleTime`, and one retry is part of a failure. A change of one's own role comes from others.

**WorkspaceGate.** `Screen` is what the gate decides from the cached lists and the URL, `Redirect`
its effect. `submits` are submissions of the setup form, which go on after it is unmounted; `join` and `cookie`
are the invitation page's. `location.of` is a history variable: the projects whose filters, selection or
session the URL holds. `SetFilter`, `OpenSession`, `Navigate`, `TypeProject` and `TypeEnvironment` are what a
page does to the URL; the Project ID field keeps the filters, which `typed` records. Reads are atomic; the
committed and the live location are one; claims and previews that fail change nothing; links lead to
projects the user has or had.

## Runs

| Run | Bounds | What it shows |
|---|---|---|
| `event_plane` | 1 envelope of 2 events posted twice, 2 messages, 2 workers, max_deliver 2 | types, no lost acknowledged or accepted envelope, refinement of `AtLeastOnce` |
| `event_plane_live` | 1 decodable and 1 undecodable envelope, 2 workers, max_ack_pending 1 | every accepted envelope settles |
| `sdk` | 3 events (2 urgent), queue of 2, 1 reload (660 000 states) | an event is in one place; captures spare urgent events |
| `sdk_live` | 2 events, 1 outage (43 000 states) | every event of an open page settles |
| `sdk_recovery` | 2 urgent events, queue and outbox of 1, storage that fails and expires, 2 reloads (430 000 states) | urgent events and their attempts survive; dropped ones are not stored |
| `issue_lifecycle` | 3 transactions, 2 statuses, no row (12 000 states) | the history leads to the row |
| `organization` | 2 transactions of any of 15 inputs, 6 users, 1 invitation allowed (130 000 states) | ownership, joining, authority, changes side by side, audit log, bounds, calls end |
| `browser_capture` | five budgets, one per kind of hazard, up to 3 clients, 3 requests, 5 ticks (200 000 states) | sessions, contexts, one event per observation, wrappers |
| `hosted_auth` | 3 calls of which 2 at a time, 2 browsers, 2 people, 1 failing statement or mishap (660 000 states) | logins, tokens, sessions, users |
| `console` | one of four parts: 4 events on pages of 1; 3 rows in a buffer of 2; 2 organizations with 2 changes; 2 given and 2 fresh organizations (1 890 000 states) | lists, live view, settings, gate |
| `sdk_stale_copy`, `issue_first_writes` | smaller instances of their components | two of the findings below |

The bounds let the interesting cases happen: two workers overlap on one message, and a
message can be redelivered and then parked; a queue of two is full while a batch of two is in
flight; an outbox of one evicts; two reloads let an event be loaded, lost and loaded again.
The hazards of the control plane are between two transactions, and the two of `organization`
range over all pairs of inputs, a call beside itself included; three writers let one commit
while two wait. Two login calls at a time meet in every statement, and the third lets a page or
callback follow them. Three clients let one be destroyed and two more meet a wrapper that stayed;
two contexts kept among three URLs let one fall out and return. A page of one row puts a
cursor between any two rows; a store limit of two makes the issue handler read more than it returns;
a buffer and a memory of two ids evict with three rows. The parts of the console share nothing that
the properties look at, so that one at a time loses nothing.

Bounds that the program does not have are `Messages` (messages that can ever be stored), `MaxEvent`,
`MaxExpired`, `MaxOutages`, `MaxRestarts`, `Concurrent`, `MaxChanges`, `MaxWalks`, and the records
`Budgets`, `LiveBounds`, `SettingsBounds` and `GateBounds`, of which a behaviour chooses one at the
start; the others are limits of the code made small. `CHECK_DEADLOCK FALSE` because each
instance ends: its requests, events, calls or budgets are used up. Symmetry is used where
neither the properties nor the constants tell the values apart, never in a run with a liveness property.

### Fairness

- `EventPlane`: the run loop keeps pulling (`server.ts` loops over `runOnce` and goes on after
  errors), a started insert resolves or rejects (the client has a request timeout), its outcome
  is acted on, and the consumer's redelivery timer runs. Nothing is asked of commits, of
  acknowledgements arriving or of the ingest side, so every insert may be refused and every
  acknowledgement lost.
- `SdkDelivery`: storage transactions and fetches settle, and the browser comes back online. The
  task of a timer that is due stays queued while other tasks and their microtasks come first,
  so the interval and the retry timer are strongly fair. A send may fail every time. A `fetch` that never settles is
  outside this assumption and blocks the client (a hazard without a property).
- `Organization`: a transaction goes on whenever its locks are granted, and
  the deadlock detector runs. Whether calls are made is not assumed.
- The other modules have safety properties only and no fairness.

## What is proved

Each theorem is for every value of the constants that satisfies the assumptions named in its
module, each of which TLC evaluates in a run. Every invariant and every safety action property
that the runs check is stated by a theorem. The argument is the same throughout: an inductive
invariant that says what must be true between the steps for the property to hold at its step, one
lemma per action that keeps it, and the property from it.

**`EventPlaneProofs`**: `AcknowledgementSafety` (`AcknowledgedIsStored`), `AcceptanceSafety`
(`AcceptedIsNotLost`) and `Implementation` (`Spec => Promise!Spec`), for every number of envelopes, events,
requests, messages and workers. `AcknowledgedIsStored` is not inductive: an acknowledgement
arrives long after the insert. `IInv` follows the envelope along its way: `MessagesOK` (stored
messages hold envelopes, undelivered ones have deliveries left), `WorkersOK` (an insert accounts
for each event of its envelope, in the table or still to be committed; once resolved, all are
there), `AcksOK` (an acknowledgement under way is for a stored envelope), `TerminatedOK`,
`RequestsOK` (what the handler takes as published was stored) and `StragglersOK` (what may
commit late was admitted). `StepMonotone` (messages are never forgotten, rows never leave) carries
the facts about the others' messages across each step. `StepImplements` maps each action to
`Hold`, `Accept`, `Store`, `Release` or a stutter.

**`SdkDeliveryProofs`**: `NothingIsForgotten` (`EachEventOnce`), `UrgentSurvives`
(`UrgentIsRecoverable`), `AttemptsAreCurrent` (`StoredAttemptsAreCurrent`), `DroppedStaysDropped`
(`DroppedIsForgotten`) and `CaptureEvictsRoutineFirst` (`CaptureSparesUrgent`), for every number of
events, sizes, limits and reloads. First, what the queue's operators do: each returns a line of
different events within the limits, and says which entries stayed, left or came
(`Enqueued`, `Restored`, `Prepended`, `RetriedBatch`). Then `DeliveryInv`. `LinesOK` and `AccountedOK` say
that memory, batch and outbox hold each event once and that every captured event is somewhere.
The difficulty is that writes run late: what an entry in memory has in the outbox
is decided by the last write of the chain that is about it. `CopiesOK` says that this write saves
that very entry, attempts included, or else that the outbox has it already. `FirstPageOK` says the like of dropped
events: their last write removes them. That needs to know that no save follows, so a captured event has no write but
its capture's save (`IsYoung`) or none (`IsQuiet`) until its first send has failed, and the
writes of a batch come before the barrier that a waiting flush waits for. It is claimed for the first page only, since a
later one may load what an earlier one's unfinished removal left.

**`BrowserCaptureProofs`**: `LatestContexts` (`ContextsAreRecent`), `OwnRoute`
(`ObservationKeepsItsRoute`), `EachOnce` (`CapturedOnce`), `Announced` (`SessionAnnounced`), `RotationIsDue`
(`RotationFollowsIdleness`), `ActivityIsNow` (`ActivityIsFresh`), `Witnessed`
(`OnlyWitnessesCapture`) and `Respectful` (`WrappersAreRespected`), for every number of clients,
requests, URLs and ticks, and a clock that may go back. The calls into the lifecycle are operators on records;
`LivesOn` says what any of them does to session, storage and events, and start, touch and
navigation are shown to do it, whichever write or constructor fails. `CaptureInv` relates
client and tab: the current session was announced, its contexts are those of the last pages
(`LifeOK`), the last activity is the session's, and what is stored of it is older by less than a persist interval while
writing works (`ActiveOK`). It relates wrappers and subscribers (`PatchesOK`): one wrapper of fetch
at most unless another library has covered it, and none without a subscriber. And it bounds the events of a request together with
the answers that are pending (`RequestsOK`). `StepActs` shows each step to be the activity of a session that was
announced or of a new one, or none at all; the action properties follow.

**`IssueLifecycleProofs`**: `HistoryExplainsRow` (`HistoryLeadsToRow`), for every number of writers. What
a writer has read is the row only while the lock is its own (`WriterOK`), or it has found none;
that is what the history row needs when it commits.

**`OrganizationProofs`**: `OwnerRemains` (`AnOwnerRemains`), `JoinsInvited` (`JoinsAreInvited`),
`AuthorityAtCommit` (`AuthorityHolds`), `ChangesExpected` (`ChangesAreExpected`), `InvitationsBounded` (`InvitationsAreBounded`) and `AuditExplains`
(`AuditExplainsState`), for every number of users, calls and inputs. None is inductive: each
speaks of a commit and rests on a check some statements before. `IInv` says that the check is
still true and which lock keeps it so: `InsideOK` (whoever changes memberships or invitations
holds the organization, so by `OneInside` nobody else does), `ActorOK` (the share lock on the
actor's membership, which `CommitKeepsActors` sets against another call's update lock),
`TargetOK` (the member still has the role that was compared with what the manager saw),
`InvitationOK` (the share lock on the person, which a login's update waits for) and
`LocksOK` (no two transactions hold conflicting locks). `Stable` says what a step of another call
may not disturb; every action's lemma cites it. Two more invariants stand on it: `BoundsInv` (the
email that was found free is still free, the room found is still there, the ids a call will insert
are unused, a key to be revoked is active and locked) and `AuditInv` (each audit row of a person
starts from the role that the rows before it leave; a key has one row of its creation and one of its
revocation).

**`HostedAuthProofs`**: all that the run checks, for every number of browsers, people and calls: `OwnLogins`
(`LoginsAreOwned`), `FirstLogins` (`FirstLoginsDoNotCollide`), `SameUser` (`ActsAsSeen`),
`DeadDoNothing` (`DeadSessionsAreRefused`) and `CarriedIsDead` (`CarriedSessionIsDead`). The answer of a call says what a
statement did long before, so `IInv` follows each call by its stage: which rows its random values
name by now (`FreshOK`), what has become of the session that it carries (`CarriedOK`), whose session the CSRF token is
for (`SeenOK`), and for a callback that its browser began the login, and that nobody else has the
attempt from consuming it until there is a session (`AttemptOK`, `PairsOK`); `JarOK` and `SessionsOK` say
the same of the cookies and the rows that are left. Its steps rest on `Older`: calls that are over,
sessions and used attempts stay what they are. `WritesIInv` then asks of a step only what it
leaves to the other calls (`Leaves`). The assumption of `HostedAuth` that random values
differ from each other and from what is known is what the proof needs of the generator.

**`ConsoleProofs`**, for all events, limits, organizations, projects and roles:

- *Lists*: `NothingTwice` (`ListedOnce`) and `NothingLeftOut` (`SettledIsListed`). Rows move while a walk reads
  them, but only up, past the cursor (`Moved`). So what is listed was passed by the cursor and never comes below it again
  (`Passed`), and what has not changed and comes before the cursor is listed (`Complete`). `QueryOK` and
  `PageOK` say so of a request under way, and of the store's page whose statuses the issue handler has still to read.
- *Live view*: `MissedAreReported` (`MissedIsReported`) and `ShownAtMostOnce` (`ShownOnce`). `PollOK`: what a
  poll has not brought, of the rows that had appeared before its snapshot, lies beyond its cursor. A row that
  appears later than the snapshot is in the overlap of the next window, whose bounds are the last
  snapshot's.
- *Settings*: `LinkStaysHome` (`LinkIsOfOrganization`). The invariant adds that a mutation of the directory that is still mounted finds its own
  organization's directory open (`CallOK`), because the page is keyed by it.
- *Gate*: `RouteConsistency` (`RouteIsOfProject`) and `SetupReuse` (`SetupReusesOrganization`). A live
  route's state is of its project, or filters of a list that the user typed another project over
  (`RouteOK`, `StateOK`), the form is mounted only where the
  screen is the setup (`FormOK`), and, of the submissions (`SubmitsOK`), only the last of a
  mounted form goes on, what one has made is the user's, and a form which has seen its organization keeps it.

**What recursive functions compute** is proved where the properties rest on it: sizes of a queue,
entries that stay, the last audit row about a person. The library's induction theorems take an operator
and cannot be instantiated here; `SubsequencesProofs` has what takes their place, in terms of
sets and functions: a set of numbers that is not empty has a least one (`LeastNumber`, from the
well-foundedness of `<`), what holds at 0 and is passed on holds up to n (`UpToInduction`), and a recursion of n steps has
its values (`RecursionExists`).

Only model-checked: the liveness properties `AcceptedSettles`, `EventsSettle` and
`EveryCallEnds`. Liveness under fairness and ENABLED are outside what the prover does. The
properties of the findings are violated and stay with TLC too.

## Findings

Two are violated by runs of their own:

1. `DeliveredIsForgotten` (`sdk_stale_copy`): the copy of a delivered event is removed before its save has run, and then stays (ADR-049:20).
2. `OnlyChangesAreRecorded` (`issue_first_writes`): two first calls on an issue both record a change (ADR-044:15).

The others are stated at the end of their modules and violated when they are checked in the run named
in `PROJECT.json`:

3. `EveryDropIsReported`: restoring the outbox into a full queue evicts queued events without a report (ADR-049:18).
4. `FetchCapturedOnce`: a wrapper that another library covers stays, and the next client adds another: one fetch, two events (ADR-039:29).
5. `MeasuresAreListed`: measures that differ in their unit only share a cursor, and one is listed on no page (ADR-045:15).
6. `FailuresAreRetried`: a late drain asks for more than five minutes, is answered 400 and stops polling (ADR-051:24).
7. `RemovedAreCountedOnce`: a row whose id is forgotten is shown and counted as evicted again (ADR-051:23).
8. `SnippetIsOfItsScope`: the snippet joins the key of one scope with the project of another (workspace-provisioning.md:11).
9. `ShownIsAccepted`: the invitation accepted is the cookie's, not the one reviewed (`invite-acceptance.tsx:83`).
10. `OwnChangesAreListed`: asking for more rows cancels the read that would show one's own change (`workspace-members.tsx:134`).

Further divergences from the documentation, stated at the end of `SdkDelivery` and
`IssueLifecycle`, each violated in a small instance:

- `RoutineIsEvictedFirst` (ADR-049:18): putting a failed batch back can evict urgent events before routine ones.
- `WrittenBeforeSent` (ADR-049:19): an urgent event captured while a flush waits is sent before its save has run.
- `BackoffIsKept` (ADR-049:21): the follow-up of a failed flush does not pass the retry gate.
- `FollowUpIsAttempted` (ADR-048): merging a keepalive follow-up with an urgent one can drain nothing although routine events fit.
- `LatestIsListedFirst` (ADR-044:16): `changed_at` is the start of the transaction, so a call that began first and committed last is listed as the older change.

Met while modelling and visible in the definitions, without a property:

- A URL left and visited again gives its in-flight requests the later visit's context
  (SPECTRO_PROTOCOL_SDK_V1.md:116); long tasks and navigation timing are captured again by a new client
  (ADR-038); a client that fails or is destroyed early loses its queued `session_start` while
  sessionStorage keeps the session.
- A callback that fails or crashes after `createSession`, or runs beside another, leaves a live session that no browser
  holds. The answer of a logout or of a late callback clears whatever cookie is there by then,
  a newer login's included: `CarriedSessionIsDead` speaks only of the session that the answered request carried.
  An issue update does not look at the membership again after `authorizeProject`.
- A project typed into the Project ID field of a list keeps the filters, and so does the gate's redirect
  (`console-app.tsx:238`): the list of one project is then filtered by a session, release or fingerprint of another. So
  `RouteIsOfProject` allows filters of another project there, and only there.

## Not modelled, and the plan

- Ingest write-key authorization: one uncached read per request, with nothing to interleave
  with but the revocation.
- Protocol schemas, sanitising, fingerprints, rate limits of captures: pure data, covered by tests.
- Processor status and operator commands: reads that change nothing.
- Aggregates and filters of the analytics queries, rendering, forms, illustrative data.
- Migrations: one transaction per file under a ledger's primary key. Deployment, drill and release scripts: run by hand.
- Two tabs over one outbox, and the composition of `SdkDelivery` with `AtLeastOnce`: the state
  spaces of both runs are at their limits; the interface between them is the answer to a POST,
  which each side leaves free.

Next are proofs: what a detailed module implements of a simpler one (`IssueLifecycle` of a history that grows
with its row, `Organization` of transactions that take place at their commits), and the step lemmas behind
the liveness properties (what each fair action brings closer).

## Running

In this directory: `tlc -config MCEventPlane.cfg MCEventPlane` (likewise the other cfgs, whose
module `PROJECT.json` names) and `tlapm OrganizationProofs.tla` (likewise the other proof modules).
