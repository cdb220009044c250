# TLA+ project for Aera Desktop

Aera is an Electron application around the Aera (Hermes) Runtime, a Python
program it installs, configures, starts and updates.  The logic that is hard to
get right lives in the main process (`src/src/main`): it keeps files that other
processes read, changes the signed-in account while work is going on, replaces
the Runtime under a user's feet and talks to a cloud whose answers come late or
not at all.  This directory holds TLA+ models of that logic, the TLC
configurations that check them and TLAPS proofs of their main theorems.

Paths below are relative to `src/src/main` unless they start with `src/`,
`lat.md/`, `docs/` or `contracts/` (all under `src/`).

1. [What is here](#1-what-is-here)
2. [Inventory of the system](#2-inventory-of-the-system)
3. [The models](#3-the-models)
4. [Runs, bounds and what they show](#4-runs-bounds-and-what-they-show)
5. [Fairness](#5-fairness)
6. [Proofs](#6-proofs)
7. [Findings and limits of the code](#7-findings-and-limits-of-the-code)
8. [What is not modelled](#8-what-is-not-modelled)
9. [Plan](#9-plan)

## 1. What is here

| Component | Code | Specification | Promise it implements | Proofs | Instances |
|---|---|---|---|---|---|
| Model-configuration transaction | `model-configuration-coordinator.ts`, `-operation-store.ts`, `-runtime.ts` | `ModelConfig` | `AtomicConfig`, by `ModelConfigRefinement` | `ModelConfigProofs` | `MCModelConfig` |
| Managed-file write authority | `model-configuration-write-authority.ts` | `WriteAuthority` | `PermitQueue`, by `WriteAuthorityRefinement` | `WriteAuthorityProofs` | `MCWriteAuthority` |
| Owner switch, leases, runs | `agentera-connection-owner.ts`, `runtime-activity.ts`, `ipc/register.ts`, `app/start.ts` | `OwnerSwitch` | `OwnerMount`, by `OwnerSwitchRefinement` | `OwnerSwitchProofs` | `MCOwnerSwitch` |
| Runtime installation and update | `agentera-runtime-distribution/` | `RuntimeUpdate` | | `RuntimeUpdateProofs` | itself |
| Account session | `agentera-auth/` | `AuthSession` | | `AuthSessionProofs` | `MCAuthSession` |
| Desktop control | `agentera-desktop-control/` | `DesktopControl` | | `DesktopControlProofs` | `MCDesktopControl` |
| Gateway ledger | `gateway-process-ownership.ts` | `GatewayLedger` | `DurableRegister` | `GatewayProofs` | in `Gateway` |
| Gateway lifecycle | `hermes.ts`, `process-tree.ts` | `Gateway`, over `GatewayLedger` | `DurableRegister` | `GatewayProofs` | `MCGateway` |
| Official quality | `agentera-official-quality/`, `app/start.ts` | `OfficialQuality` | | `OfficialQualityProofs` | `MCOfficialQuality` |

A component's module has its state, one action per step of the code between two
awaits or two durable writes, and its properties at the end.  Altered operators
(`Name_WhatIsWrong`, marked *Variant* or *Altered* where they carry a comment)
stand directly before the operator they alter.  They are not part of any
specification: each is what a plausible mistake would make of the operator, and
shows that a property depends on it.  `PROJECT.json` lists components, runs,
altered operators, the lines of code behind every definition, the hazards and
the theorems.

`tlc -config <cfg> <module>` repeats a run, `tlapm <Module>Proofs.tla` the
proofs of a module.

## 2. Inventory of the system

Each entry gives the state a component keeps, what changes it, whom it talks
to, what is hard about it and what must hold.

### Modelled components

**Model-configuration transaction.**  *State:* five files per profile that the
Runtime reads (`.env`, `providers.json`, `config.yaml` of the profile;
`models.json` and `model-definitions.json` shared by all profiles), one SQLite
row per operation, sibling backup files, and in memory the recovery locks and
the per-profile chains.  *Operations:* `mutate` (a save from the screens),
`runManagedWrite` (writes of other main-process code, global or per profile),
`initializeManagedModelFiles`, startup recovery.  *Talks to:* the write
authority for its permit, the owner switch for its lease, the gateway for a
restart after a commit.  *Hard:* the plan is older than the permit; five files
are not replaced atomically; every step may fail or be the last of the process;
two profiles share two of the files.  *Must hold:* all or nothing, no stale
plan applied, complete evidence for undoing, no undoing of somebody else's
work, everybody answered.

**Managed-file write authority.**  *State:* a map of promise chains, one per
key, and the permits that are live.  *Operations:* `run(scope, callback)`,
`assertManagedWritePath`.  *Hard:* several locks taken one after the other; map
entries removed while others are chained to them; async-local permits that
outlive the callback.  *Must hold:* exclusion, order of arrival, no deadlock,
no write under a permit of the past.

**Owner switch, leases and Runtime activity.**  *State:* owner, epoch and state
of the coordinator, its queue; active runs, their abort functions, idle
waiters, restart and snapshot reservations.  *Operations:* `transitionTo`,
`acquireLease`, `assertCurrent`; `beginRun`, `attachAbort`, `finish`, `abort`,
`abortAll`, `waitForIdle`, `beginTransition`, `beginSnapshot`.  *Talks to:* the
account session (sign-in and sign-out call `transitionTo`), every IPC handler
that uses the owner's context.  *Hard:* handlers are suspended between lease,
run and use; transitions overlap; the drain has a deadline that runs and
cleanups may miss; renderers reuse run ids.  *Must hold:* work stays with the
owner it was begun for, fail-closed mounting, every abort delivered, backups
and restarts never overlap a run, every caller answered.

**Runtime installation and update.**  *State:* version directories, pointer
files `current`, `previous`, `candidate`, a last-failure record; in memory the
manager's phase, offer and last seen pointer.  *Operations:* bootstrap at
launch (recover, health-check, promote, roll back), check, download, restart to
apply, repair, Seed installation by the manager and by the welcome screen.
*Hard:* each pointer is atomic but sets of them are not; two writers of one
journal; directories are removed by what was read earlier; disks lose things.
A check of a good version may fail for a passing reason.
*Must hold:* only reviewed and asked-for versions become current, no step takes
away the last Runtime that verifies, nothing referenced is removed, a candidate
whose rejection was put on record is not tried again by itself.

**Account session.**  *State:* an encrypted file with the session and the
pending revocation, the bearer token and offline entitlement in memory, the
published state, the refresh timer, the operations in flight.  *Operations:*
startup, refresh (single flight, retry), browser sign-in over a loopback
listener, restart and cancel of it, sign-out, expiry.  *Talks to:* the cloud,
the owner switch, desktop control.  *Hard:* three kinds of operations with
several awaits each, all writing the same file; rotating refresh tokens; lost
answers; exits at any point; a platform key store that throws.  *Must hold:*
nobody signed out comes back, token and entitlement are of one account,
revocations are delivered, renewal goes on, the gate never hangs.

**Desktop control.**  *State:* a journal of receipts for health checks, the
heartbeat session of the signed-in account, its timer.  *Operations:*
heartbeat, replay of results, execution of a health check, abort on a change
of the account.  *Hard:* answers lost on either way, a health check that
outlives its session, exits at any point.  *Must hold:* a command runs at most
once, its outcome is not lost, heartbeats go on.

**Gateway.**  *State:* a ledger file that says which wrapper and which listener
the app has launched for a profile, with a pending file and a backup beside it
(`gateway-process-ownership.ts`); in memory the tracked child, the launches
whose exit is awaited, the termination and adoption timers (`hermes.ts`); at
the operating system the processes, their pids and `gateway.pid`.
*Operations:* start with a readiness deadline, recovery, restart, stop, the
drain at an owner switch and at quit, cold start after a crash, the close
event, two timers.  *Talks to:* the ledger, the operating system, the owner
switch (which drains).  *Hard:* a wrapper forks a listener and exits at any
point; pids are used again; every function awaits and is overtaken by the
others; a write of the ledger fails or is the last act of the process; evidence
of who has a pid cannot always be read.  *Must hold:* nobody else's process is
signalled, a process of ours that is on record stays on record while it lives,
a finished write is read back after any crash.

**Official quality.**  *State:* two tables, the consents per account and purpose
with their versions and an outbox of events; in memory the candidates for
feedback, the upload in flight and the principal the manager was last told of.
*Operations:* set a consent, record the end of a conversation, rate it, upload
what is due, take notice of a changed principal.  *Talks to:* the cloud, the
account session for principal and token, the queue of owner transitions.
*Hard:* a consent is local at once and reaches the cloud late, in another order
or never; the upload works from a list over many awaits, while the user changes
consents and accounts; no transaction covers a withdrawal.  *Must hold:* nothing
is sent ahead of its consent, nothing unsent outlives its consent or sign-in.

### Components not modelled, or only where they touch the others

| Component | State and operations | Hard behaviour |
|---|---|---|
| Owner routing and profile binding (`agent-identity.ts`, `agentera-profile-binding.ts`, `agentera-user-profile-store.ts`) | which profile belongs to which owner; one record per owner | consistency of records across failures |
| Staged profile activation (`model-configuration-staged-profile.ts`) | staging directory, journal; stage, activate, recover | death between the rename and the record |
| Reconciler, managed files (`model-configuration-reconciler.ts`) | comparison of records with files | uses the transaction above |
| Agent installations (`agentera-agent-control/installation-*.ts`) | operation journal with phases from prepared to committed; resume, repair | local and cloud steps interleaved, death between phases |
| Conversations and runtime bindings (`agentera-agent-control/conversation-*.ts`, `runtime-binding-store.ts`) | threads, segments, immutable bindings | a send and its segment across failures |
| Agent model execution leases (`agent-model-execution-lease.ts`) | leases on model routes | release on every path |
| Agent sync (`agent-sync.ts`) | base hashes per profile part; three-way sync | edits and failures between requests |
| Encrypted backup (`agentera-encrypted-backup/`) | schedules, snapshots, keys, uploads, restores | exclusion with runs, resumable upload, interrupted restore |
| Organizations, workspaces, product space (`agentera-organization/`, `agentera-workspace/`, `agentera-product-space/`) | caches of cloud state, idempotent requests | stale caches |
| Global profile and memory candidates (`agentera-global-profile/`) | files behind confirmations | little concurrency |
| Capabilities, drafts, experience candidates, publication, trust (`agentera-agent-control/`) | single SQLite transactions; pure validation | data, not protocol |
| Models, providers, credentials (`models.ts`, `providers-store.ts`, …) | configuration data | text formats |
| Application updater (`app/internal-beta-updater.ts`, `app/updater.ts`) | staged installers | handover at quit |
| Sessions, memory, skills, kanban, cron views | files of the Runtime | none of its own |
| Remote mode and tunnels (`ssh-*.ts`, `remote-*.ts`) | tunnels, remote commands | partial failure of shell commands |
| Dashboard, relays, MCP, messaging | helper processes | supervision |
| Wallet, secrets, askpass | key storage | none |
| Preload, renderer, shared, contracts, tooling | user interface, types, build | none |

## 3. The models

### ModelConfig

`file` maps every managed file to who wrote it (`<<operation, stage>>`,
`<<0, "base">>` or absent); digests are compared as contents.  `journal` holds
the rows of the operation store, `backup` the roles whose sibling backup
exists, `intent` (history) what an operation set out to write.  These survive
`Crash`; `phase`, `list`, `recoveryRequired`, `queue`, `pc`, `req`, `tx` are the
memory of the process and do not.

A request goes through `planned` (bytes read, plan made, no permit yet),
`queued`, and with the permit `backup`, `stage`, `verify`, `commit`, `cleanup`,
or `rollback`/`restore` when something fails; `recover` is startup recovery,
which runs row by row before the IPC is registered.  Backups are made and
removed role by role and files restored role by role, each a step, so the
process can die anywhere between.  A failure of a stage, of a restoration or
of a verification is a disjunct of its step.  The queue of permits is the
promise of `PermitQueue`; `WriteAuthority` shows separately that the code's
promise chains keep it.

Requests are sets of `<<stage, file>>` with the kind of the entry point
(`mutate`, global or profile-scoped managed write) and whether they change the
active route, which is what startup recovery can see of an operation besides
its digests.

### WriteAuthority

Key 0 is the catalog's lock, the others are profiles in the order in which they
are taken.  A link of a chain is named by the call and key it was made for;
`tails` is the code's map, `previous` what a link awaits, `released` the gates
that are open.  `Write` is a write attempted at any time under the async-local
permit a call left behind; `assertPermitObject` lets it through only while
`active` holds the call.

### OwnerSwitch

A step is what happens between two awaits.  `call` is where each `transitionTo`
is, `cleanup` where the `stopActiveRuntimeContext` it started is (it may go on
after its deadline), `run` where each request of an IPC handler is: asked for
a lease, leased, run begun (`open`), at work (`busy`), finished or refused.
`currentRuns`, `abortRequested`, `attached`, `signalled` are
`RuntimeActivityCoordinator`'s run states.  `reserved` is its restart or
snapshot reservation.  Assertions of the lease after an await are `Enter` and
the return from `Pause`.

The coordinator is left open to overlapping callers, as its tests do; the
application itself chains its calls through one queue.

### RuntimeUpdate

A version is the number of its directory; `current`, `previous`, `candidate`
are pointer files.  `step` is the place in the bootstrap, `op` the manager's
operation (its queue runs one at a time), `welcome` the installer of the
welcome screen, which writes the same journal through a store with a lock of
its own.  Each pointer write is a step, `Crash` may come between any two.
`Damage` loses or alters an installed version from outside.  `RareFault` is a
double fault: a pointer write that fails after its rename, or a failure while a
failure is handled; the handlers then remove a directory that a pointer names.
`Baseline` is the check of `current` and `previous` at a launch: a damaged
version never verifies, a usable one may fail to, as `pointerIsUsable` takes
every error for a no.  `RejectCandidate` is the moment at which a candidate is
given up, `Suppress` and `Record` the two writes that follow it.

History variables guard no action: `proven`, `seeds` and `asked` (which versions
passed their health check, came from the Seed, were asked for), `rejected` (the
candidate last rejected, until it is downloaded or accepted), `died` (at which
of the two steps of a rejection the process died, until the next rejection or
the user's next request) and `misread` (the usable versions that some launch
took for unusable).

### AuthSession

A session is the number the cloud gave it and stands for user, device and
refresh-token chain.  `disk` is the encrypted file (session, whether its token
has been rotated at the cloud since, pending revocation).  One refresh, one
browser attempt and one sign-out per session interleave freely; each is a chain
of awaits, and each continuation is an action of its own with the outcome of
the request it awaited.  `refresh.current` is the comparison of
`sessionRevision`.  `Budgets` says how many sign-ins and which faults, by name, a
behaviour has.

### DesktopControl

The session of heartbeats is one record: what it awaits (`replay`, `beat`,
`announce`, `report`, the timer, the health check) and, when the cloud has
acted, the reply still under way.  `Lands` is the cloud acting on a request, so
that a request can fail before or after that.  The cloud is modelled by
`contracts/agentera-cloud.openapi.yaml`, lines 388-477; until it has a result
for a command it may hand it out again with any heartbeat.  A change of the account
aborts the request in flight, but nothing aborts a health check: it becomes a
*stray* that saves its result and reports it with whichever bearer token there
is by then.  `fresh` marks a timer set after an accepted heartbeat.

### GatewayLedger and Gateway

`GatewayLedger` has the three files of the ledger, the state in memory and the
writes that ended badly (`asked`).  A write goes through the pending file; its
possible ends are the set `Persist`, one for every file operation that can fail
and for the process dying at any of them.  `Load` is `readState` at a start.
The abstract specification `DurableRegister` says what a reader may find: what
was written last, or one of the writes that ended badly since.

`Gateway` extends it for the entry of one profile.  A process is its evidence:
`os[p].who` says which process has pid `p` (a wrapper or listener of a launch,
a legacy gateway, a stranger or nobody), so that evidence read before an await
can be compared with what is there after it.  `flow` has a record for each
function that awaits (`startGatewayWithReadiness`, `startGatewayWithRecovery`,
`restartGateway`, `stopAeraOwnedGateway`): where it is and its local variables.
A step is what happens between two awaits; `Synchronous` lists the places from
which a function goes on without one, so that nothing of the app comes in
between.  `Fork`, `Publish`, `Exits`, `Reuse`, `Blind` and `Sight` are the
machine's, `Crash` ends the app and leaves processes and files.

| Code | Actions |
|---|---|
| `startGatewayDetailed`, spawn and its record | `BeginLaunch`, `Spawn`, `SpawnFails`, `LaunchRefused` |
| the readiness wait of `startGatewayWithReadiness` | `Look`, `Probed`, `Judge`, `Adopt` |
| `cleanupGatewayLaunch` | `Cleanup`, `CleanupKill`, `CleanupEnds` |
| the close event of the wrapper | `Closed` |
| termination and adoption timers | `Terminate`, `AdoptionTick`, `AdoptionProbed` |
| `startGatewayWithRecoveryOnce`, `restartGatewayLocallyOnce` | `Check`, `Release`, `RestartBegins`, `Takeover`, `StopOld`, `Stopped`, `Restore`, `RestartFails`, `RestartRetries` |
| `stopGateway` | `Stop` (and within the restart) |
| `stopAeraOwnedGateway` | `DrainBegins`, `DrainWrapper`, `DrainListener`, `DrainKill`, `Settle` |
| `recoverAeraOwnedGatewaysFromPreviousRun` | `Start`, `ColdStart` |

### OfficialQuality

`consent` and `outbox` are the tables, `upload` is the one upload in flight:
waiting for the answer to a consent or to an event, with what it keeps over the
awaits (its principal `who`, the ids `due` when it began, the entries listed).
`letters` are consent requests that may still reach the cloud, in any order;
one that never arrives is lost.  The token of a request is `auth` at the moment
it is sent.  `queue` is the queue of owner transitions: `Publish` is a state the
session publishes, `Mount` a transition with the notice to the manager at its
end, which passes the principal of that moment.  `UploadPending`, `Reconcile` and
`SendEvents` give what the state can be at the next await of `performUpload`.
`left` and `strayed` are history: the events an exit left in the outbox, and that
a consent request of one account went out under the token of another.

## 4. Runs, bounds and what they show

Twelve runs.  Times are for two to four workers.

| Run | Instance | States | Shows |
|---|---|---|---|
| `config_save` | two profiles, one save that moves the route and one that trespasses on the catalog, two operations, one death, symmetry | 340 thousand | one unfinished row per profile, complete local evidence, no stale overwrite, all or nothing |
| `config_catalog` | two profiles, two globally scoped writes of the catalog and a route, one death, with fairness | 90 thousand | evidence for all five files, nothing torn at rest, commits survive, everybody answered, the transaction implements `AtomicConfig` |
| `config_lost` | two profiles, saves | | **violation**: a commit is undone by another profile's recovery |
| `authority` | four calls: catalog only, profile 1, profile 2, both | 25 thousand | exclusion, no foreign writes, implements `PermitQueue` including its liveness |
| `owner_switch` | two owners, three transitions, two chats of one run id | 1.3 million | five safety properties, implements `OwnerMount` |
| `owner_answers` | one owner signed in and out, three transitions, one managed change | 122 thousand | every caller is answered |
| `runtime_update` | three directories, one death, one damage, one double fault, a wrong verdict at any launch | 4.5 million | six safety properties |
| `session` | two sign-ins of an app that goes on; one sign-in with exits and locked storage | 12 thousand | nobody comes back, one account in memory, revocations delivered, renewal goes on, gate never stuck |
| `session_late` | two sign-ins, no faults | | **violation**: a late sign-out takes the next session's file |
| `desktop` | two accounts, two commands, one failed request, one exit | 104 thousand | at most once, results kept, heartbeats resume |
| `gateway` | two pids; a launch and the drain with one trouble, a restart with two launches, a recovery with one, a recovery with a restart that launch nothing; symmetry | 623 thousand | nobody else is signalled, what is on record and alive stays there, the ledger implements `DurableRegister` |
| `quality` | two accounts; five budgets of up to three events, three consents, three published sessions, one exit; symmetry | 1.1 million | no event goes ahead of its consent, nothing unsent outlives its consent and sign-in |

*Are the bounds large enough?*  Two profiles, owners or accounts are enough for
one to disturb the other; the shared files have no third kind of owner.  Two
journalled operations of two profiles nest in both orders; with one death, any
step of either can be the last.  Three transitions are the least in which one that overlaps
another leaves a state that a third one finds.  Three directories are a
current, a previous and a candidate; how often a launch misjudges a version
needs no bound, as only the set of such versions is kept.  For the session two
sign-ins are the case in which one account's late answer meets the other.  One
failed request suffices to put a receipt in every state; exits come on top.
For the gateway two pids are a wrapper and its listener, or a process of ours
and whoever gets its pid next.  One trouble is enough for a write that fails, a
death of the app, a stranger with an old pid or evidence that cannot be read to
meet every step of a launch, of its cleanup and of the drain.  `MCBudgets` says
which functions are called in a behaviour; larger budgets (two launches that
overlap, with a trouble) have several million states and were not searched to
the end.  What holds of them is proved (section 6).
For the quality events, two choices of consent and one event are the least in
which an upload that began before a consent could list an event recorded under
it; three published sessions take one account out and another in; three events
exceed the outbox of an instance, which holds two.

A type invariant that is proved for all constants is not repeated in a run.

The counters of the models (operations, deaths, damages, faults, directories,
sign-ins, failed requests) are bounded by the constants named `Max...`, each in
the guard of the action that counts.

`CHECK_DEADLOCK FALSE` is set for `ModelConfig` (the operations of a behaviour
are used up, or every profile waits for the repair of a restart) and
`WriteAuthority` (every call is made once).  `OfficialQuality` has it set as
well: a behaviour ends with its budget.  The
other models never stop.

Symmetry is used in `config_save`, `owner_switch`, `gateway` and `quality` only,
which have no liveness property.

*Where a property needed a narrower instance.*  `RecoveryIsSafe`, `NoTornRest`
and `CommittedSurvives` hold when all writers of the shared catalog take the
global entry point (`config_catalog`); with profile-scoped saves they do not
(section 7).  `NoResurrection` holds for two sign-ins without exits and locked
storage, and for one with them (the two instances of `MCAuthSession`); beyond
that it fails, in ways section 7 tells; `FirstAccount` proves the part about one
session.  `IntentsAreDelivered` is about states
in which only one session has been.  `OnlyOwnSignalled` needs that a pid that
the readiness wait has read from `gateway.pid` is not a stranger's before its
evidence is read (`Unproven` in `Reuse`), and for more launches than the
instance has the hypothesis of `OnlyOwn`; `ListenerStaysOwned` and
`WrapperStaysOwned` name the step of a cleanup that breaks them (section 7).
`KeepsAUsableRuntime` and `PromotionCanBeUndone` except what a launch does to
versions it misjudged, and only where all the usable ones, or the very version
concerned, were; `NoUnaskedRetry` excepts a death before the suppression of the
rejected candidate, `RejectedIsShown` one between that and the failure record.
TLC finds each of the four violated without its exception (section 7).
No managed change is in `owner_switch`, so there a lease that waits for its run
is a chat's; the theorems `OwnWork` and `Implementation` have both.
`RefusedOnlyIfWithdrawn` holds until a consent request of one account has gone
out under the token of another, and
`OutboxIsCurrent` the events an exit left behind (section 7).

## 5. Fairness

Liveness is claimed only under what the event loop and timeouts give.

- `ModelConfig`: a step under a permit, the next in the queue and the next row
  of startup recovery happen (local file work ends).  Nothing is assumed of new
  requests or of deaths, which are finitely many by their bound.
- `WriteAuthority`: reactions of settled promises run, callbacks end.
- `OwnerSwitch`: continuations of settled promises run and deadlines fire.
  Nothing is assumed of runs, cleanups and users: a run may ignore its abort
  and a cleanup may never return, and every caller is still answered.
- `AuthSession`: due timers fire, requests end by their timeout, the browser
  listener ends by its own (300 seconds).  Nothing is assumed of the user.
- `DesktopControl`: timers fire, requests are answered, the health check has a
  timeout; only `MaxFailures` requests fail.

No fairness is assumed of the cloud's operators, of users, of faults or of the
process staying alive.

## 6. Proofs

All theorems are checked by TLAPS down to the last leaf, for every value of the
constants that satisfies the named assumptions of the modules (which TLC
evaluates on the instances).

| Module | Theorems | Inductive invariant |
|---|---|---|
| `ModelConfigProofs` | `TypeCorrect`, `OneIncomplete`, `LocalEvidence` | `IndInv`: `TypeOK` ∧ `Control` ∧ `BackupsFirst` ∧ `LocalRecoveryIsSafe` |
| | `FreshOnly`, `AllOrNothing` | `IndInv` ∧ `Evidence` |
| | `CatalogEvidence`, `AtRest`, `Survival` (one operation at a time) | `IndInv` ∧ `Evidence` ∧ `Catalog` |
| | `Implementation` (one at a time, operations that change the route) | the same ∧ `Moving` |
| `WriteAuthorityProofs` | `TypeCorrect`, `Exclusive`, `OwnWritesOnly` | `TypeOK` ∧ `Numbered` ∧ `CatalogFirst` ∧ `GatesOpen` ∧ `EarlierOver` ∧ `TailIsLatest` ∧ `ChainedInOrder` |
| | `Implementation` | the same ∧ `InOrder` |
| `OwnerSwitchProofs` | `TypeCorrect`, `OwnWork`, `FailsClosed`, `Aborts`, `LiveRuns`, `Reservations`, `Implementation` | `TypeOK` ∧ `Queue` ∧ `Context` ∧ `Activity` |
| `RuntimeUpdateProofs` | `TypeCorrect`, `Reviews`, `StaysUsable`, `KeepsReferenced`, `Undoable`, `NoRetry`, `RejectedShown` | `TypeOK` ∧ `Provenance` ∧ `Apart` ∧ `Progress` ∧ `Undo` ∧ `Rejection` |
| `AuthSessionProofs` | `TypeCorrect`, `OneAccount` | `TypeOK`, `OneAccountInMemory` |
| | `Intents`, `FirstAccount`, `Renewal` | `TypeOK` ∧ `Created` ∧ `FirstSession` |
| `GatewayProofs` (ledger) | `LedgerIsDurable`, `BackupIsNeverAll` | `LedgerInv`: the files, the memory and the writes that ended badly agree |
| `GatewayProofs` (gateway) | `GatewayTypes`, `GatewayKeepsItsLedger`, `RecordsAreDurable`, `ListenersStayOwned`, `WrappersStayOwned` | `GatewayInv` (`TypeOK` ∧ `LedgerInv`) ∧ `Ownership` |
| | `OnlyOwn` (strangers only where the record knows them) | the same ∧ `OwnEvidence` |
| `OfficialQualityProofs` | `TypeCorrect`, `NothingOutlivesConsent`, `ConsentGoesFirst` | `TypeOK` ∧ `OneOwner` ∧ `Held` ∧ `CandidatesAreCurrent` ∧ `Fresh` ∧ `Honest` ∧ `Reconciling` ∧ `Reconciled` ∧ the two properties |
| `DesktopControlProofs` | `TypeCorrect`, `OncePerCommand`, `OutcomesKept` | `TypeOK` ∧ `Faithful` ∧ `Acknowledged` ∧ `Kept` ∧ `Begun` ∧ `NoneForgotten` ∧ `ReplayedFirst` ∧ `Settled` ∧ the two properties |

*ModelConfig.*  That an unfinished operation can be undone is not inductive by
itself: one has to know that a profile's permit holder is the only one with an
open row (`PermitOwner`, `OneIncompletePerProfile`), that the rows startup still
has to handle are the unfinished ones (`ListedIncomplete`), that rows name
profiles, and that no stage is written before all backups are made
(`BackupsFirst`).  The conjuncts hold each other up; the proof has a step per
action and under it one per conjunct.

The other theorems stand on layers above it, each proved with the help of the
ones below.  `Evidence` needs no assumption: bytes are numbered by operations
that were journalled before (`Numbered`), an operation at work has replaced
exactly the bytes it was planned against in the stages that are done
(`Progress`), the old bytes of an open row select its old route (`OldRoute`),
and digests that show the new route show every stage (`AfterIsWhole`).  From it
follow `FreshOnly` and `AllOrNothing`, whatever the kinds of request.

`Catalog` is about the shared files and holds when one operation is unfinished
at a time (`OneAtATime`: all requests take the global entry point, or there is
one profile).  The hypothesis is what the code ensures for the entry point
`runManagedWrite` with global scope, which asks again under the permit whether
any profile needs recovery; `mutate` asks for its own profile only, and run
`config_lost` shows what that costs (section 7).  Under it the unfinished row is
the youngest (`Alone`), each of its files is as found or as intended (`Owned`),
and all other bytes are committed ones, and so are those it replaced (`Origin`):
`CatalogEvidence`, `AtRest` and `Survival`.  `Implementation` adds that requests
move the route (`RoutesMove`; section 7 has the case that does not), which
stays true while they wait (`Moving`): the commit of a row is then the one step
that installs an operation, every other step of the coordinator, a rollback and
startup recovery included, leaves the view of `AtomicConfig` alone.

*WriteAuthority.*  Exclusion follows from the first key alone: everybody takes
the catalog's lock first (`CatalogFirst`), the links of its chain are numbered
in the order they were made (`Numbered`, `ChainedInOrder`), the map's entry is
the latest of them (`TailIsLatest`), and an open gate means that its caller and
all before it are over (`GatesOpen`, `EarlierOver`), so the map's entry can be
removed without letting anyone pass.  `Implementation` maps the queue of
`PermitQueue` to the calls that are not over, in the order of their numbers:
these are the last ones, without a gap (`InOrder`), so the promise chains of
all keys together are one queue, and a call's end is the end of its head.

*OwnerSwitch.*  `Queue` says that calls take turns (the auxiliary variable
`turn`), that only the one whose turn it is drains, and that the counter of
pending calls counts them.  `Context` has `WorkStaysWithItsOwner` and the two
facts it rests on: during a drain no run has a current lease
(`DrainIsVisible`), and a cleanup stops things only when nobody is at work
(`IdleWhenStopping`).  `Implementation` maps the owner of `OwnerMount` to the
active owner while ready and the workers to the busy runs; every step is a step
of it or a stutter.

*RuntimeUpdate.*  `Provenance` ties every pointer to a review, `Apart` keeps
directories being installed apart from referenced ones, `Progress` says what
each step of the bootstrap may rely on.  `StaysUsable` and `KeepsReferenced` are
action properties about every step that is not itself a damage or a double
fault, whatever happened before; of the bootstrap, only the two steps that give
a pointer up after a bad verdict can take the last usable version, and then each
of those was misjudged (`Suspect`: unusable, or misread once).  `Undo` explains
when a promotion can make a version its own predecessor: a candidate that
`previous` names already was rolled back from, so it is suspect; when it is in
fact unusable it does not verify again, and there remain the misread ones.
`Rejection` follows a candidate from the step that rejects it: until the two
writes are done the bootstrap is at them; afterwards the candidate is not
approved and its failure record stays as long as the journal names it, unless
the process died at one of the two (`died`), which says exactly what is missing.

*AuthSession.*  `OneAccountInMemory` is inductive over well-typed states; the
work is in typing the records.  `Renewal` needs that whatever names a session
names one the cloud has created (`Created`).  `FirstSession` says how file,
publication, refresh and sign-outs agree while there has been one session: an
intent, stored or being delivered, means signed out; then no answer in flight
will be accepted (`Awaited`) and the file holds the session only beside the
intent.  `Intents` and `FirstAccount` follow, with every fault and any number of
exits.  `FirstAccount` cannot be had for more sessions: TLC finds an earlier
account published again (section 7).

*DesktopControl.*  The code remembers no command whose result was delivered: its
receipt is gone.  What keeps it from running again is an order of events.  The
receipt is written before the announcement (`Begun`) and leaves only with the
cloud's acceptance of the result (`Acknowledged`, `Kept`); a new session finds
no receipt running that has no health check of its own (`NoneForgotten`), and it
delivers every result before it asks the cloud for a command (`ReplayedFirst`).
So whatever the cloud hands out with a heartbeat was not executed (`Settled`).

*GatewayLedger.*  A write leaves its value in one of the files, and which one
depends on the operation at which it ended.  `LedgerInv` says that what is read
next (`Read`) is what memory has, or one of the writes that ended badly, and
that a backup is never the only whole file.

*Gateway.*  The records of the model have many fields, each variable of each
action its own type; `GatewayTypes` is proved variable by variable.  With it
every write of the gateway is one of `Entries`, so a step of the gateway is a
step of the ledger or leaves it alone (`GatewayKeepsItsLedger`), and the
theorems of the ledger carry over (`RecordsAreDurable`).

That a process on record stays there while it lives is a property of steps, and
needs to know what a step that rewrites the record may rely on.  `Ownership`
says it: a flow about to spawn has the newest launch, for which no process
exists and which no other flow follows (`SpawnsAlone`), a launch that is
kept until the exit of a failed spawn has no pid on record (`RetainedIsBare`), the record of a
launch names the wrapper its flow has spawned (`FollowsItsOwn`), a cleanup that
looks clean has seen its wrapper gone (`CleanMeansGone`), and an app that is
down has no flows (`DownIsIdle`).  Every step is then one of three: the record is kept or grows
(`Grown`), the processes it forgets are over (`Over`), or it is the last step of
a cleanup, which section 7 tells about (`Exceptional`).  `ListenersStayOwned` and
`WrappersStayOwned` follow for any number of launches that overlap, with any
troubles, where the instances stop.

`OnlyOwn` follows the evidence by which the app kills.  No record, none that
will be read after a crash either, holds a stranger's evidence (`OwnRecords`),
nor has a function seen one (`OwnFlows`) or a function that waits a pid of one
to go by (`WaitsForOwn`), and evidence of a stranger in the adoption timer
cannot be adopted, as the record has its listener (`OwnTick`).  Every signal is
preceded by a comparison with evidence of one of these places, in the same
step.  This needs the hypothesis `KnownStranger`: a stranger has the pid that
`gateway.pid` names, or a function goes by, only while the record names that pid
as its listener.  It is about what the operating system does with a free pid,
and with what the app leaves in `gateway.pid`: the code takes whoever has that
pid for its own as long as nothing is on record to compare with (section 7).
Pids that only the record, the tracked child or a timer names may be anybody's
at any time.  The hypothesis does not hold in every behaviour of the run, where
`OnlyOwnSignalled` is checked without it.

*OfficialQuality.*  Consent versions only grow, so a row's consent either holds
or has been followed by a later choice (`Held`), and a consent the cloud or a
request knows is one that was made here (`Honest`; this is what a request under
another account's token destroys, and why `ConsentGoesFirst` ends there).  An
upload takes its due ids when it begins, and ids are drawn once, so a row
recorded during its awaits is not due in it (`Fresh`); the rows that are due have
the consents of the purposes already passed known to the cloud
(`Reconciling`), and so has every event in hand (`Reconciled`).  That the
conversations that run belong to the account the manager was told of
(`OneOwner`) needs the end of the transition queue to be the session published
last.

*Only model-checked:* liveness (`EveryRequestAnswered`, `EverythingIsAnswered`,
`GateIsNeverStuck`, `HeartbeatsResume`, and that every call of `PermitQueue` gets
its turn), which this prover cannot treat with fairness.  Of two invariants the
theorems say less, or something else, than the runs: `NoResurrection` is checked
for two sign-ins without exits and locked storage, and proved for one with all
faults;
`OnlyOwnSignalled` is checked on the instance and proved under `KnownStranger`.

## 7. Findings and limits of the code

Two runs show a disagreement between the code and what its documents say.

**A committed save can be undone by another profile's recovery**
(`config_lost`).  `mutate` asks only whether its own profile needs recovery
(`model-configuration-coordinator.ts:690`), although it writes the shared
`models.json`.  While another profile's row is `recovery_required`, a save
commits; recovery of that row puts the shared bytes of before the commit back.
The design (`docs/superpowers/specs/2026-08-11-beta27-model-enterprise-reliability-design.md:137`)
says of a committed operation that "persistence and authoritative readback
succeeded".

**A late sign-out removes the next session** (`session_late`).  `logout`
publishes "unauthenticated", awaits the delivery of the revocation and then
clears the file whatever it holds (`agentera-auth/controller.ts:478`).  A
sign-in that completed meanwhile is removed from the file; the app looks signed
in until its next refresh or start.  `lat.md/agentera-app-authentication.md:169`
says that the controller rejects "a late response after logout or account
switching".

The models also show these limits; each narrowed a property rather than getting
a run of its own.

- A save that keeps the active route and dies between two stages is committed
  half done by startup recovery (`model-configuration-coordinator.ts:1121`), as
  the digests recorded after its first stage and the route are all that
  recovery compares.  `AtomicOutcome` is therefore about operations that change
  the route.
- With profile-scoped and global writes mixed, rows of two profiles nest over
  the shared files and startup restores them oldest first
  (`model-configuration-operation-store.ts:798`); a half-done file can come
  back.  `NoTornRest` is checked for global writes only.
- Backups left by a death between the terminal row and their removal stay
  (`model-configuration-coordinator.ts:1337`).
- When the welcome screen's installer has just written the pointers,
  `retryRepair` of the Runtime manager still answers from what it cached before
  (`agentera-runtime-distribution/manager.ts:612`); only a message depends on
  it.
- A pointer write that fails after its rename, or a failure inside a failure
  handler, makes the installer or `downloadConfirmed` remove a directory that a
  pointer names; the next launch falls back to `previous` or to repair.
  `KeepsAUsableRuntime` and `ReferencedVersionsKept` except exactly the step
  that does so (`RareFault`).
- `pointerIsUsable` takes every error for a no
  (`agentera-runtime-distribution/bootstrap.ts:383`), also a passing one such as
  too many open files while it hashes the inventory.  The launch then rolls back
  from a good version, or, when no other verifies, clears `current` and
  `previous`; the next one installs the Seed again and a version newer than it
  has to be downloaded once more.
  `lat.md/agentera-runtime-distribution.md:49` wants that an operational read
  failure deletes no pointer, and says so of reading the pointer files, where
  the code does so (`recoverForBootstrap`); of the files of a version it says
  only that an unusable `current` is replaced.  `KeepsAUsableRuntime` excepts
  the steps `clearCurrent` and `clearPrevious` of a launch that misjudged every
  usable version named.
- Two such errors in a row, on a candidate just promoted and on the version it
  replaced, in launches whose rollback stops halfway, leave `current`,
  `previous` and `candidate` on one version.  The launch that verifies it
  finishes the promotion, and the next rollback has nowhere to go.
  `PromotionCanBeUndone` excepts a current version that was misread.
- A launch rejects a candidate, takes the approval back and writes the failure
  record one after the other (`bootstrap.ts:495`, `:496`, `:497`).  After a
  death before the first write the candidate is still approved, and the next
  launch tries it once more unasked; after a death between the two it has no
  failure record and is offered as ready to apply, as long as no launch rejects
  it again.  `NoUnaskedRetry` and `RejectedIsShown` except these two deaths: a
  launch that lives to its end leaves neither, and a second retry needs a second
  death.
- A refresh that began before a sign-in and waited for an old revocation reads
  the new session, uses its token and drops the rotated one
  (`agentera-auth/controller.ts:330`).
- With exits or locked storage and two sign-ins, or with three sign-ins, an
  earlier account can be published again: only the start of a sign-in advances
  `sessionRevision`, and a failed write can leave the file of before.  The races
  need a request in flight (up to 15 seconds) across a browser sign-in.
- The answer to one revocation clears the intent of a later sign-out
  (`agentera-auth/controller.ts:479`).
- A result the cloud answers 409 is replayed before every heartbeat and stops
  them for good (`agentera-desktop-control/coordinator.ts:197`);
  `HeartbeatsResume` excepts this case and no other.
- A health check that outlives its session sets `lastHealthSummary` for the
  next account's heartbeat, and a direct switch of accounts does not clear it
  (`agentera-desktop-control/coordinator.ts:300`).  It describes the computer,
  not the account.
- A health check whose announcement fails is neither executed nor answered
  before the account changes or the app restarts
  (`agentera-desktop-control/coordinator.ts:287`).
- When the readiness deadline passes after the wrapper exited and before its
  listener wrote `gateway.pid`, the cleanup finds nothing to stop, clears the
  record, and the gateway comes up unrecorded, although a comment
  (`hermes.ts:4959`) says it stops "every process identity left by one
  readiness-gated launch".
- The last step of a cleanup compares only the launch (`hermes.ts:5179`): it
  forgets a listener the adoption timer has adopted while the wrapper was being
  stopped.  And it looks at the record there is, not at the launch it was
  called for, so with two launches that overlap it clears the record of the
  other one.  `ListenerStaysOwned` and `WrapperStaysOwned` except these steps
  and no others.
- The wait for a release reconciles without knowing that the wrapper exited
  cleanly, so it can erase the record of a hand-off that the close event keeps
  for the adoption timer (`hermes.ts:5607`); a second gateway is then started.
- A stale `gateway.pid` whose pid another Python has taken is evidence to the
  readiness wait, and the cleanup stops that process.  The instance excludes
  this (`Unproven`).
- `restoreGatewayAfterRestartFailure` writes a remembered pid into
  `gateway.pid` after a liveness check only (`hermes.ts:6802`), and the
  take-over of a gateway older than the ledger trusts `gateway.pid`.  Together
  with a cleanup that forgets an adopted listener this can reach a stranger: a
  launch, a restart and a recovery with two launches and one reused pid (one
  budget more than the instance has) give a behaviour of 31 states in which the
  listener's pid is used again before the cleanup ends, a restart remembers it,
  `stopGateway` removes the pid file, the restart fails and writes it back, the
  recovery's launch adopts it, and the next stop signals it.  `OnlyOwn` excludes
  it by its hypothesis.
- An upload of quality events keeps its principal over its awaits, while each
  request takes the token of the moment (`agentera-official-quality/manager.ts:252`):
  after a change of account in between, the consent version of the first
  account is recorded in the cloud for the second, which may never have given
  one, and the second account's own versions conflict with it later.
- The withdrawal of a consent and the deletion of its unsent events are two
  statements (`agentera-official-quality/manager.ts:161`, `:169`); an exit
  between them leaves events that the next upload sends.  The deletion at a
  sign-out rests on a principal kept in memory (`manager.ts:188`) and on the
  principal at the end of the transition, not the one published
  (`app/start.ts:737`): after an exit, or a sign-out and sign-in that overtake
  the queue, it does not happen, although
  `docs/superpowers/specs/2026-07-23-agentera-official-agent-privacy-quality-feedback-v1-design.md:118`
  says that sign-out removes the account's unsent data.
- Entries already listed are sent although their consent is withdrawn meanwhile
  (`manager.ts:267`).
- An answer that is not JSON is final whatever its status
  (`agentera-official-quality/client.ts:92`, read before the status at `:285`):
  the error page of a proxy deletes an event that the cloud never had.
- `stopGateway` without a record removes `gateway.pid` whoever it names.

## 8. What is not modelled

Within the modelled components:

- *ModelConfig:* the remote (SSH) mutation path, the renderer's catalog
  revision handshake, external writers of the files (the Runtime itself), a
  journal that cannot be read, route repair at startup, equal or reversed
  timestamps of rows, and notification of a rollback.  A failed operation that
  cannot restore is in the model, the operator's repair of it is not.
- *WriteAuthority:* which path belongs to which key.
- *OwnerSwitch:* what each cleanup step stops (a cleanup waits for the runs and
  then succeeds, fails, hangs or ends late), gateways, the encrypted store of
  the owner record, snapshots as a reason to wait during a drain.
- *RuntimeUpdate:* what verification and extraction look at (a version is good
  or it is not, and a check of a good one may fail), the external Runtime mode, cancelling a download (nothing is published
  before it is complete), stale staging directories,
  `cleanupUnreferencedVersions` (no code calls it), damage while the
  application works with the version.
- *AuthSession:* signatures and clock arithmetic of entitlements (an
  entitlement holds or is expired), opening the portal, the identity of the
  installation.
- *GatewayLedger:* the migration of ledgers of versions 1 and 2; power loss (a
  write is lost with the process, not with the disk); `beginRestart` and
  `restoreRestart`, which only tests call.
- *Gateway:* remote mode, ports, credentials, health polling, several profiles
  in one ledger, `restartGatewayViaCli`, the chat streams; a spawn that reports
  no pid and then an error.  Terminating a tree ends its root and perhaps its
  listener; strangers look like the same executable; a wait changes no state
  unless an action says so; each function is called once in a behaviour.  No
  liveness: whether a gateway comes up depends on the Runtime.
- *DesktopControl:* the public status, the limit of 32 receipts, a corrupt
  journal file (it is read as empty), `close` at quit.  An aborted request was
  acted on by the cloud before or is not acted on at all.

- *OfficialQuality:* what an event says and its signature, the provenance of the
  binding, the minimiser, schema and files; the ages of rows (any row goes where
  the code takes the oldest, and due rows are sent in any order), batches of 25,
  rows of thirty days except where an upload deletes them; a clock that is set
  back or does not move between two calls, which
  would make a row due that is younger than the upload; capacity is two.

The components of the second table in section 2 are not modelled, or only where
their table entry in `PROJECT.json` says so.  Three reasons occur: it is planned
(section 9); it is data (formats, signatures, cryptography, classification)
rather than steps; it is plain input and output to another process.

## 9. Plan

The order follows how much depends on a part and how many steps of several
actors it takes to break it.

Done: `PermitQueue`, `WriteAuthority`, `ModelConfig` with `AtomicConfig`;
`OwnerSwitch` with `OwnerMount`; `RuntimeUpdate`; `AuthSession`;
`DesktopControl`; `GatewayLedger` with `DurableRegister` and `Gateway` over it;
`OfficialQuality`; proofs for each, so that every safety property a run checks is
stated by a theorem, some of them under a hypothesis that section 6 explains.

Next modules, in order:

1. `AgentSync`: no edit is lost between the requests of a sync.
2. `InstallationOperation`: phases, resumption, the cloud's activation.
3. `StagedProfile`: activation and recovery, under `PermitQueue`.
4. `BackupSchedule` and the snapshot lease during a drain; conversations and
   segments; the updater.
5. `Gateway` composed with `OwnerSwitch` for `start-gateway`
   (`ipc/register.ts:4434`), which takes neither lease nor run.

Further runs will be weighed against the present ones: a question that a
theorem has settled for all constants needs no run of its own.

Theorems planned: `NoResurrection` for two sessions without exits and locked
storage; that at most one launch of the gateway is under way when its functions
do not overlap, and with it `ListenerStaysOwned` without its exception.
