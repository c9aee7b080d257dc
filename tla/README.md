# Birdbox: TLA+ specifications

Birdbox is a controller for BIRD routers: it keeps an inventory of nodes,
sessions and policies in MySQL, renders one BIRD configuration per managed node
and deploys it through an agent (long polling) or SSH.  This directory holds
TLA+ models of the parts of it that are hard to test, the TLC configurations that
check them and proofs for the TLA+ proof system (TLAPS).

Run a check with `tlc -config Deployment_safety.cfg MCDeployment.tla`, a proof
with `tlapm Deployment_proofs.tla`.  Source paths below are relative to the
repository.

## 1. Inventory of the system

| Component (source) | State | Operations | Hard behaviour | What makes it correct |
| --- | --- | --- | --- | --- |
| Remote-change transaction (`src/deployment-service.ts`) | one operation in memory; the deployment journal in `birdbox_state` | `mutateAndApply`, `beginJournal`, `setJournalDirection`, `clearJournal`, `recover` | partial failure on several nodes, lost replies, retries after a revision conflict, a crash between any two steps | nodes and inventory change together; whatever is half done is in the journal |
| Recovery loop and startup (`src/deployment-recovery.ts`, `src/server.ts`) | `recoveryState`, back-off | retry `recover` for ever; refuse changes meanwhile | recovery itself fails half-way and is repeated | it completes, and never overwrites an unknown inventory |
| Deployment lock (`src/server.ts`) | `deploymentLocked`, `activeDeployment`, advisory lock in MySQL, `nodeOperationLocks`, `shuttingDown` | `withDeploymentLock`, `withNodeOperationLock`, shutdown, the IRR schedule | writers that bypass the lock; removals that wait for it; a shutdown at any moment | one change at a time; no lock is held and no request waits for ever |
| Store and state database (`src/store.ts`, `src/database.ts`) | `birdbox_state` rows with revisions, OSPF drafts and layouts, audit log | `read`, `replace` (CAS with confirmation read), `mutate`, migrations | CAS response lost, deadlock retries, concurrent layout saves | no lost update; a committed value is reported as committed |
| Sessions (`src/session-application-service.ts`) | preview tokens (at most 200, 5 minutes) | `preview`, `apply`, `delete` | token older than the inventory; its own copy of the transaction | a preview is applied at most once and only to the inventory it was made for |
| Resource use cases (`src/resource-application-service.ts`, `src/resource-impact.ts`, `src/bird-resource-dependencies.ts`, `src/bird-inventory.ts`) | preview tokens; the resource lists of the inventory | create, update, move and delete for twelve kinds of resources | references by name and by id between resources of different scopes; AS-SET answers that arrive late | nothing in use loses what it refers to; every node whose text changes is deployed to |
| Agent broker (`src/agent-broker.ts`, `src/http/agent-routes.ts`, `agent/client.go`) | per node: credential, queue, waiting polls, pending tasks; upgrade job | `dispatch`, `poll`, `requeue`, `result`, `issueToken`, `revoke`, upgrades | deadline against late result, aborted polls, credential rotation with tasks in flight, queue limits | a task runs at most once and never after it was refused; every call is answered |
| Node configuration (`agent/bird.go`, `src/bird-runtime.ts`) | generated file, resources, each with `.candidate` and `.rollback`; version files | `stage`, `apply`, `rollback`, garbage collection | failure between two file operations, reload that fails or times out | a failed change leaves the old configuration; a collected version is never needed again |
| Onboarding (`src/node-onboarding-service.ts`) | script deliveries (256, 15 minutes, 3 downloads) | setup and reinstallation scripts, `promoteToAgent`, `create`, `decommission`, forced removal | credentials issued outside the lock; removal that revokes between commit and journal clear | a removed node stays out; recovery reaches the nodes it replays |
| Authentication (`src/auth.ts`, `src/http/auth-routes.ts`) | password record, sessions, login throttle; import of `auth.json` | set-up, login, logout, revocation, password change | scrypt runs between the read and the transaction; records made anew by a login | sessions belong to the password in force; what ended stays ended |
| IRR refresh (`src/server.ts`, `src/irr-as-set.ts`) | last refresh per set | scheduled refresh through the transaction | timer against the lock, a Define changed while it is resolved | a refresh never overwrites a newer Define |
| OSPF domains (`src/ospf.ts`, `src/inventory-redaction.ts`) | one domain in two shapes: compact, and topology first | normalise, adapt, redact, restore, compile to interfaces | edits through either shape in turn, masked secrets, links that share an interface | reading changes nothing; each link is rendered with its own parameters |
| OSPF page (`apps/web/src/ospf`) | the draft being edited, its preview token, the domains it has read | load, edit, save draft, preview, apply, delete, compare | answers late, overtaken or lost; other editors; a login in between | what is applied is what was previewed; changes of others are not replaced unseen |
| Rendering, parsing, normalisation (`src/bird-*.ts`, `src/ibgp-domain.ts`, ...) | none | pure functions | order of declarations | deterministic text |
| Rest of the web UI (`apps/web`), contracts (`packages/contracts`) | browser state | HTTP calls | - | - |

Interaction: the HTTP routes call the use cases; these call the transaction
under the deployment lock; the transaction calls the store (MySQL) and, per
node, `stageAndValidate`, `applyStagedConfig` and `rollbackNode`
(`src/bird-runtime.ts`), which for an agent node become tasks of the broker that
the agent fetches by long polling and answers with a result.  Onboarding runs its
own copy of the transaction for one node and issues and revokes the credentials
the broker checks.

## 2. Plan

Order: what loses or corrupts a network's configuration first, then what the
transaction relies on, then the services around it.

| | Module | State |
| --- | --- | --- |
| 1 | `Deployment`, implementing `AtomicChange` | done, safety and refinement proved |
| 2 | `AgentBroker`, implementing `RemoteCall` | done except the upgrade jobs; safety and refinement proved |
| 3 | `Inventory`: what a change is, and which nodes it names | done for all kinds of resources; nodes constant; safety proved |
| 4 | `Requests`: the lock, previews, removals that wait, schedule, shutdown | done, safety proved |
| 5 | `NodeFiles`, implementing `AtomicNode` | done for the include mode of both transports; safety and refinement proved |
| 6 | `NodeLifecycle`: scripts, creation, promotion, removal with their credentials | done, safety proved |
| 7 | `OspfDomain`, `OspfEditor`: the domain's two shapes and the page that edits it | done, safety proved |
| 8 | `Accounts`: password, sessions, throttle, import | done, safety proved |
| 9 | Source policies: the ip rules of a node beside its BIRD text | left |
| 10 | Upgrade jobs of the broker, single and batch | left |
| 11 | A composition of `Deployment` with `RemoteCall`: node steps that are calls | left |
| 12 | Other pages of the web UI (iBGP, resources, nodes), after the form of `OspfEditor` | left |

How the models fit together.  `Deployment` takes a node step to be atomic or to
leave a fault behind; `NodeFiles` shows which calls are (`CallsAreAtomic`).  It
takes a call to have one honest answer or none; `AgentBroker` shows that
(`IsRemoteCall`).  It assumes that every node whose text a change alters is among
the targets; `Inventory` shows that of every operation (`InSync`).  `Inventory`
takes a change to happen as a whole or not at all; that is what `Deployment`
shows.  `Requests` takes a change for its phases only and adds who may begin one
and on which inventory.

## 3. The models

### Deployment

One controller process, any set of nodes.  `inventory` and `revision` are the
`inventory` row of `birdbox_state`, `journal` its `deployment_journal` row;
`running`, `staged` and `saved` are per node the active generated
configuration, the `.candidate` and the `.rollback`; `op` holds the local
variables of the one operation that has the deployment lock (phase, the
inventory it read and its revision, the inventory it wants, targets, position,
`journalMarkedForRollback`, `rollbackSucceeded`, attempts left), `recovery` is
`recoveryState`, `told` what the requester of the last change saw.  An inventory
is reduced to what each node runs (`conf`) and the rest no node configuration
depends on (`layout`).

Each action is the code between two awaits of `mutateAndApply` (`BeginChange`,
`Stage`, `BeginJournal`, `Apply`, `Commit`, `Confirm`, `Clear`, `MarkRollback`,
`Rollback`, `Settle`) or of `recover` (`StartRecovery`, `Restage`, `Reapply`,
`Recommit`, `Reconfirm`, `Reclear`), and `Restart` may come between any two of
them.  `Preview` stages under the lock; `EditLayout` is the one inventory write
that does not take the lock.  `Faults` selects the failures that are not
harmless: an apply that never starts or fails before it saved its rollback copy, a
lost reply of the commit, the read after it that is missed too (it fails, or a layout
save comes before it), a failed or unanswered journal write, a layout save.  Failures of
staging, applying, rolling back and committing are always possible.

Abstractions: a remote call is one step (the agent works on one task at a time
and stops at its deadline, so a late effect comes before the next call to the
node); one controller replica (docs/architecture.md requires it); the files of a
node configuration are one value; the system rules of source policies are part
of the step they follow (a failing rule is an apply that took effect and
reported failure); the nodes whose configuration changes are among the targets.
Session apply/delete and decommissioning repeat the same steps with one attempt
(`tries = 1`).

### AtomicChange

What a requester may rely on: the committed configurations and the running ones
change together.  `Deployment` implements it with `committed <- inventory.conf`
and the journal as the open change.

### AgentBroker

One node: every map of the broker is keyed by node and no operation modelled
here touches two.  `pending`, `queue`, `waiters` are `#pending`, `#queues`,
`#waiters`, `seen` is what `#agents` knows of the node's last sign of life,
`valid` the tokens of `#credentials`; `poll` and `socket` are the poll requests in
the controller with their connections, `agent` is the agent process (`main`,
`RunPoll`), `late` the tasks whose `deadlineAt` has passed.  `answer` is how each
dispatch was answered; `runs` and `lost` only record what happened.

`Dispatch` is `dispatch` as a whole - pruning, preempting queued background tasks,
the two limits, and handing the task to a waiting poll or queueing it by
priority; `DispatchOffline` its early return.  `SendPoll` is the poll request with
`poll` up to the point where it has a task or waits, `PollTimeout` and
`CloseEvent` are the two other ends of a wait, and `Respond` is the route after
its `await`: between these the connection may break (`ConnectionBreaks`) and the
task must then be queued again (`Requeue`).  `Deadline` is the moment
`deadlineAt`, which the agent observes too, `Timer` the controller's reaction to
it, which may come later.  `Register`, `Begin`, `Finish`, `Heartbeat`, `Report`,
`AgentGivesUp` and `AgentRestart` are the agent; `AddToken`, `ResetToken` and
`Revoke` are `issueToken`, `rotateToken` and `revoke` with `#disconnect`.

Abstractions: controller and agent agree on the time (`deadlineAt` is compared
with both clocks in the code); a result is lost or arrives before the agent goes
on (the agent sends it synchronously); one agent process per node; parameters,
sizes and capabilities of a task are not looked at; the credential row and the
broker's map change in one step.

### RemoteCall

What the broker, the network and the agent promise a caller together: a call
takes effect at most once and only while its caller waits, and its one answer is
honest - a result only for a call that was started, a refusal only for one that
was not, anything else says "unknown".  Tasks a caller was told nothing certain
about are the case `Deployment` models as a failed apply that took effect.

### Inventory

`inventory` has a list of resources per kind; of a resource are kept the BIRD
symbols it declares, its scope (`None` is `null`: every node), whether it is
enabled, the symbols its text mentions, the ids it refers to and its content.
Each operation of `resource-application-service.ts` and the apply and deletion of a
session is an action: its own checks, `Preflight` (`assertReferencesUsable`,
`assertSymbolsUnique`), and `Deploy`, which marks every node whose rendered text
changes and which the operation did not name as `stale`.  `StartSync`, `FinishSync`
and `GiveUpSync` are the resolution of an AS-SET, which runs without the lock.
`DependenciesHold`, `Provider`, `Satisfied` follow `bird-resource-dependencies.ts`
(scope against scope), `Render` and `Renders` `bird-render.ts` (one node, in order).

Abstractions: the staging check of BIRD itself is left out, so that nothing shown
rests on it: whatever the controller lets through may happen.  Names of protocols are
not among `Symbols`.  References inside an inline filter source are invisible to
`resourceReferencesSymbol`, as in the code.  A Function's `callable` flag, the types
of Defines and the checks of gateways and of the agents' capabilities are left out.
The nodes are constant: a forced removal takes a node's iBGP sessions and OSPF links
out of the inventory without deploying to the others, which the interface documents
as clean-up left to the operator.

### Requests

`lock` and `waiters` are `deploymentLocked` and the removals in `waitForActive`;
`tokens`, `issued` and `expired` the preview maps of the three families of
resources, which differ in where they look a token up; `stopping` and `captured`
the shutdown.  A request is sent, prepared (policies read the inventory before the
lock), enters or waits (`Enter`, `Wake`), is checked, switches nodes, commits,
retries, or is undone; a preview ends by storing its token (`StorePreview`).
`EditLayout` raises the revision without the lock, `Expire` passes five minutes,
`HangUp` is a client that leaves, `Stop` to `Exit` the shutdown in its order.

Abstractions: the exit forced after 30 minutes, the second preview of an RPKI source
and the previews of source-policy plans outside the lock are left out.  A server
that is closing refuses requests and ends idle polls (Fastify, external), so agents
are lost then (`LoseAgents`).  The lock of a single node is left out.

### NodeFiles and AtomicNode

The files of one node in include mode: `active`, `candidate` and `rollback` are
the links of the main text and of each resource, `stored` the version files,
`daemon` what BIRD has loaded.  A call (`task`) goes link by link in the order of
the code (`StagePath`, `StageCheck`, `SaveCopy`, `SwitchPath`, `SwitchBack`,
`Configure`, `Undo`, `Reload`, `Cleanup`); every file operation may fail
(`FileError`, with what the code then restores), and the agent may die between any
two (`Crash`).  A call may also never start (`NotStarted`): its task expires in the
queue, the node is not reached, or `bird.go` returns before it touches a file.
`control` is the controller's change, with its recovery; a change of a session calls
the node without a bundle (`Naming`), and the agent then works on the resources that
have a `.candidate` (`Concerned`).  The
transport is chosen in `Init`: the SSH scripts stop at the first failing command
without restoring anything, put only the main text back when a rollback's reload
fails (`bird-runtime.ts:917`) and collect `.rollback` versions when staging, which
`NothingDangles` allows for.

The controller rolls back whatever it attempted (`deployment-service.ts:197,233-236`).
After an apply that never started, the `.rollback` links are those of an earlier
change, so that the rollback takes the node to a configuration nobody asked for:
`RollBack` records it as "stale" in `faulted`, and `SettledInSync` and
`CallsAreAtomic` say what holds of everything else (section 6).

`AtomicNode` is how `Deployment` sees a node: an apply or rollback changes it as a
whole.  `CallsAreAtomic` shows it of the agent up to the first fault; no promise is
made for SSH.  The standalone mode (no include) and an agent that still works
when the controller has moved on are left out.

### NodeLifecycle

`nodes` is the inventory (each node's transport), `credentials` the broker's
tokens, `host` the token installed on each host, `loaded` whether a configuration
runs there, `journal`, `lock` and `recovering` as in `Deployment`.  A request is one
of nine kinds (setup, rotation, reinstallation and upgrade scripts; creation with
agent or SSH; promotion; removal; forced removal) and goes through the points
of its code (`Read`, `IssueToken`, `Lock`, `Begin`, `Stage`, `Journal`, `Apply`,
`Commit`, `RevokeCredential`, `Clear`, `Mark`, `Undo`); requests interleave at every
await.  `Install` runs a script on the host, `Crash` and `Recover` are a restart.
A script's text, its delivery, the SSH inspection and everything in the inventory but
the transport are abstracted.

### OspfDomain

`domain` is one domain; `Model` is the topology-first projection
(`toOspfDomainModel`), `Adapt` the way back, `Normalize`, `Redact` and `Restore` what
every save and read applies.  An action takes the response, edits one thing through
one of four shapes of body and saves it.  `Blocks` is the compilation to interfaces
(`renderOspfForNode`).  A link's cost stands for all parameters both ends share, its
type for those of one interface; an area's id and address are one name; options left
out count as defaults.  The legacy IPsec links, the rendering of an area's options
and the secrets of drafts are left out.  `RestoreLink` takes the stored ends of a link
to have their passwords; a link stored in the compact shape may have no endpoints
(`inventory-redaction.ts:49-63`, `ospf.ts:225-246`).  No property depends on what is
restored but that it leaves the rest of the domain alone.

### OspfEditor

`page` holds the refs of `OspfWorkspace.vue`; `stored`, `drafts` and `revision` are
the controller's.  Requests (`requests`) are handled and answered in separate
steps, may be answered never (`TimeOut`) or lost with the controller (`Crash`), and a
load may be overtaken by the next.  `Others` are other editors.  `Watched` is the
watch on the serialized draft and runs after each step.  The fields `base` and
`misled` record what was compared; they are not in the code.

### Accounts

`row` is the state `auth` (record and sessions), `marker` and `file` the import of
`auth.json`, `calls` the requests between a read, a scrypt and the transaction that
follows, `attempts` the throttle.  The transactions may fail or lose their answer,
the process may die anywhere (`Crash`), sessions expire.  A record made with old
parameters is made anew by a login (`Rehashed`), against which logins check twice.
`Reset` is the operator who deletes the row.  Records of older programs count as
outdated; scrypt does not fail (in the code such a failure is reported as a wrong
password and the attempt counts, `auth.ts:188-190`); one client address; cookies,
CSRF tokens, the set-up token and the checks of a new password are left out.

## 4. Runs

Each run uses the MC module of its specification.  Deadlock checking is off where the
model really stops: when its bounds are used up or the process has exited.  The
broker never stops, as its agent can always restart.

| Run | Instance | States | Shows |
| --- | --- | --- | --- |
| `deployment_safety` | two nodes, lost commit replies, journal faults, layout saves, two restarts | 608,068 | the journal and the candidates are the operation's own; `WriteAhead`, `CommittedIsNotRolledBack`; no layout save is lost; refinement of `AtomicChange` |
| `deployment_progress` | `FairSpec`, one node, early apply failures, lost commit replies and missed reads, layout saves, two restarts | 59,876 | types; every change ends, retries included; recovery completes or refuses an unknown inventory; a change reported as failed is not committed later |
| `agentbroker_calls` | one background and two control tasks, limits 2 and 1, two connections | 490,813 | nothing is lost inside the broker; no task is worked on that nobody waits for; refinement of `RemoteCall` |
| `agentbroker_credentials` | `FairSpec`, one task of each kind, limits 1 and 1, three tokens, all credential operations | 260,279 | polls with a replaced token get nothing; a control task is refused only when nothing could make room; every dispatch is answered |
| `inventory_policies` | two Defines, an RPKI source, a Function and a source policy on two nodes, two names | 4,025 | what validation accepts scope against scope resolves on each node; no symbol in use loses its provider |
| `inventory_protocols` | all other kinds, one policy and one protocol at a time, two contents | 15,293 | every node whose text a change alters is deployed to |
| `requests_lock` | `FairSpec`, three requests, token maps of one, two tokens, three revisions | 396,765 | what is committed is what was previewed; removals get the lock; the shutdown ends and spares what it must |
| `nodefiles_calls` | two resources, three configurations, two changes, all faults, both transports | 3.7 M | no link in use dangles; a node at rest has the inventory's configuration; refinement of `AtomicNode` |
| `lifecycle_removal` | one node, four requests, one restart | 1.69 M | recovery reaches its node; a removed node's tokens stay dead; a reinstallation keeps the agent |
| `ospf_domain` | three nodes, two areas, two links, two saves from six domains | 16,297 | `ReadsAreStable`, `LinksAsConfigured`, `SettledAreasKept` |
| `ospf_editor` | two domains, two contents, six steps of user and faults | 2.0 M | `PreviewIsCurrent`, `ClosedOnlyWhileBusy`, `NoBlindOverwrite` |
| `accounts` | four calls, two passwords, two sessions, one restart | 498,154 | sessions belong to the password in force; ended ones stay ended; the import happens once; a right password gets in |

Bounds.  Deployment: two nodes (a target list with a first and a last) are enough for
every partial outcome, two configurations and layouts for an old and a new one, two
attempts for a retry after a conflict, two restarts for a recovery interrupted by a
crash.  `deployment_safety` leaves out early apply failures and missed confirming
reads, because `WriteAhead` and `CommittedIsNotRolledBack` do not hold with them
(section 6); `deployment_progress` has them, on one node.  Nodes and configurations are symmetric.

AgentBroker: two connections give a stale poll beside the live one, which every
requeue race needs; two tasks allowed and three present make every admission
outcome occur; three tokens are a first one, an added one and a reset.
`IsRemoteCall` and `NoLateWork` are checked without credential operations, because a
reset answers the callers of tasks an agent still works on (section 6).

Inventory: two nodes give every pair of scopes (one node, the other, all); three
policies a provider, another provider of the same symbol and a consumer; contents
differ only where they matter.  The list of a kind is not bounded but by these.

Requests: three requests are a holder of the lock, a removal that waits and a third
that comes between; maps of one token make eviction happen.  NodeFiles: three
configurations (see `MCBundle`) and two changes, so that copies of the first are there
in the second; `Losable` bounds the links a restore that fails leaves removed to that of the
main text (the proofs have no such bound).  NodeLifecycle:
four requests are a creation, its removal, and two scripts or another round around
them; nodes do not touch each other but through the lock and the journal, and the
proofs hold for any number.  OspfDomain: two saves show what one edit leaves for the
next (the proof holds for any number); three nodes a link between two and a third that is in an area or not.
OspfEditor: six steps of user and faults; seven steps and two requests at a time
(11.3 M states, 305 s) passed too.  Accounts: four calls are a setup and three
that race each other on its record; two sessions make the limit evict.

Fairness.  Deployment: `WF` of the change and of the recovery says that the process
keeps running and that every await ends, which the time-outs of remote calls, of
the pool and of the back-off guarantee.  The recovery runner retries for ever;
that its steps succeed at last when they are tried again and again is assumed by
`SF` of the successful outcomes.  Requests: `WF` of each request's own steps until
the process exits, for the same reason, and of the shutdown; nothing is assumed of
clients, expiry or layout saves.  AgentBroker: time passes and timers fire (`WF` of
`Deadline` and `Timer`); nothing is assumed of the agent or of the network, so
`Answered` shows that the timer alone is enough.

## 5. Proofs

All theorems hold for every set of nodes, configurations, requests, calls and so
on, for any bounds, from the assumptions named in the modules (finite nodes and tasks, `None`
distinct from what it stands beside, disjoint names, bounds that are numbers, in
`NodeFiles` that a main text includes a fixed set of resources, in `OspfDomain` that
clients send what the contracts type).

| Module | Theorem | Condition |
| --- | --- | --- |
| `Deployment_proofs` | `TypeCorrect`: `TypeOK`; `JournalOwned`: `OwnJournal`; `CandidatesOwned`: `OwnCandidate`; `LayoutKept`: `LayoutIsKept` | |
| | `FailedStaysFailed`: `FailedChangeStaysFailed` | `JournalAnswered` |
| | `CommittedStays`: `CommittedIsNotRolledBack` | `ReadBack` |
| | `WriteAheadHolds`: `WriteAhead`; `DeploymentIsAtomic`: `ChangesAreAtomic` | `Benign` |
| `AgentBroker_proofs` | `TypeCorrect`: `TypeOK`; `KeepsTasks`: `NothingLost`; `KeepsToNewTokens`: `OldPollsGetNothing`; `ControlFirst`: `ControlHasPriority` | |
| | `WorksInTime`: `NoLateWork`; `AtMostOnceCall`: `IsRemoteCall` | `CredentialOps = {}` |
| `Inventory_proofs` | `TypeCorrect`: `TypeOK`; `NodesInSync`: `InSync`; `NamesAlwaysResolve`: `NamesResolve`; `ReferencesAlwaysResolve`: `ReferencesResolve`; `ReferencesKept`: `ReferencesAreKept` | |
| `Requests_proofs` | `AppliedIsPreviewed`: `AppliedAsPreviewed`; `ExitSpares`: `ExitSparesActive` | |
| `NodeFiles_proofs` | `NothingNamedIsCollected`: `NothingDangles`; `RestsInSync`: `SettledInSync`; `AgentIsAtomic`: `CallsAreAtomic` | |
| `NodeLifecycle_proofs` | `RemovedStayOut`: `RemovedStaysOut`; `RecoveryReaches`: `RecoveryCanReach`; `ReinstallKeeps`: `ReinstallKeepsAgent` | |
| `Ospf_proofs` | `TypeCorrect`: `TypeOK`; `PreviewStaysCurrent`: `PreviewIsCurrent`; `ReopensAfterwards`: `ClosedOnlyWhileBusy`; `OverwritesNothingUnseen`: `NoBlindOverwrite` | |
| | `StableReads`: `ReadsAreStable`; `ConfiguredLinks`: `LinksAsConfigured`; `KeptAreas`: `SettledAreasKept` | |
| `Accounts_proofs` | `SessionsOwned`: `SessionsOfPassword`; `EndedStays`: `EndedStaysEnded`; `ImportsAreOnce`: `ImportedOnce`; `RightPasswordAccepted`: `RightPasswordGetsIn` | |

### Deployment

Types.  `TypeInv` adds to `TypeOK` where an operation stands (`OpShape`: a phase
that works on a node has its position inside the target list; only changes with
targets reach the journal) and that a journal has targets.

Ownership.  The lemmas `*Moves` say how the operation goes on in each step.
`OwnJournal` becomes inductive with `Fresh` (an attempt that has not reached the
journal has marked nothing), `OwnCandidate` with `StagedSoFar` (the targets passed
hold the operation's candidates).

Layouts.  `LayoutIsKept` needs `ReadLayout` (an operation wants to commit the
layout it read, which is the saved one as long as the revision is the one it read)
and `JournalLayout` (both sides of a journal have one layout).

Reports.  `FailedChangeStaysFailed` follows from `Reported`: nobody is told an outcome
while a change is under way, a rollback under way is recorded in the journal, and what
a failed change leaves in the journal says "rollback".  `JournalAnswered` excludes one
fault, a journal write that ends with an error; section 6 says what happens with it.

Atomicity.  `WriteAhead` says nothing of an operation in memory and is far from
inductive.  `AtomicInv` adds `Covered` (how inventory and nodes stand to the two
sides of the journal; an inventory past the commit has all nodes with it),
`Pending` (the inventory does not move before the commit, "rollback" is written
only to undo), and where the nodes are while a change goes forward (`Forward`), is
undone (`Backward`) or is replayed (`Replay`).  That no committed change is undone
(`CommittedStays`) needs only `ReadBack`: the read after an error of the commit finds a
commit that was made.  Lost commit replies are not excluded: they are what that read is
for (`store.ts:533-544`).  The other two assume `Benign`, which is `ReadBack` and that
every apply starts and saves its rollback copy.  Both assumptions are needed
(section 6).  Journal faults, layout saves and restarts are not excluded.

Refinement.  Seen through the mapping each step is one of `AtomicChange` or a
stutter: a journal entry opens the change, an apply or a rollback switches one
node, the CAS commits, clearing the journal closes it; the last two need `AtomicInv`.

### Accounts

`SessionInv` is inductive by itself: the types, `Running` (calls exist only while the
process is up) and `SessionsOfPassword`; a transaction puts the record it read and
the session it opens into the row together, or neither.  `EndedStays` follows from
it, since a token names one call and a call opens one session.

The other two need what a call knows.  `HistoryInv` says that ids are distinct, that
eras and salts in the database come from calls already made (so that a new one
repeats none), per round of a login what `seen` and the record in force have in common
(`CallOK`), and for the import that the marker stands once the process has been up and
that the file's record is in place between import and marker.  The point of `CallOK`
is that a record changes twice during one login only if the password changed: a
record made anew is current, and no login makes a current record anew.

### NodeLifecycle

`TypeInv` adds to the types which kinds reach which point, what is in the journal
then, and that a token is issued by one request at most (`Shape`).  `LockInv` says
that the holder of the lock owns the journal, that recovery excludes all other
holders, and that while an agent's change is open its credential is in force; that is
what `RecoveryCanReach` needs, and it fails without the lock's part, since a
removal revokes before it clears the journal.  `TokenInv` ties tokens to nodes: each
token belongs to one node, tokens of removed nodes are issued and banned, and no
request can still bring a banned one back.

### AgentBroker

`PlaceInv` says that a task is in one place at most (queue, a poll, the agent), that
queued tasks are waited for until they are late; `RunInv` that a task which the agent
has not begun has run no time and one that it works on once; `TimeInv` that the agent
has stopped at the deadline.  The two theorems about calls have `CredentialOps = {}`
since a reset or a revocation answers callers of tasks that an agent works on
(section 6).  The library has no theorems on filtered sequences; the module states
what it needs of `Filter` (`Filtered`), by descent along finite intervals since
induction over an operator is out of reach.

### Inventory

`ConfInv` is what every accepted change leaves behind: each resource once and in its
kind's list (`Sound`), the controller's checks hold (`Valid`), each node can be rendered,
and no node is stale.  A request is taken apart into what it does to the lists
(`Edited`: one id's resource and its place), whom it names (`Covered`: the nodes it is
deployed to include all it applied to before or applies to now) and what it gives up
(`Spared`: no symbol that something mentions).  `ElsewhereSame` is the core of
`NodesInSync`: what a node is given, with its order, depends on nothing that does not
apply to it; it needs that providers are found (`ProviderFits`), hence the checks.
`NamesAlwaysResolve` shows that checking scope against scope is enough for each node.

### Requests

`LockInv` ties the lock to the requests inside it and the waiters to removals.
`BasisInv` carries a preview's revision from its token to the commit: what a request
saw outside the lock is the token's, what it reads inside is no older, and past the
second check the two are equal, so that the conditional commit can only follow the
inventory that was previewed.  `StopInv` says which requests may still be inside at each
point of the shutdown.

### NodeFiles

The invariant says link by link how far a call has come: which candidates a stage has
written, which links an apply has saved and switched (`ApplyInv`), which of them a
rollback has put back (`RollbackInv`).  `SyncInv` adds what the node has as long as
nothing fails, `StoredInv` that the versions these links name exist: the collection
spares whatever an active, candidate or rollback link names at that moment.
A call that never starts is one that has touched nothing (`Untouched`); the rollback that
follows finds no copy and fails, or sets "stale", so that `SyncInv` need not know whose
copies they are.  `AgentIsAtomic` maps the switching of single links to stutters, and the
end of the call to the step of `AtomicNode`, up to the first fault.

### OspfEditor

`BasedInv` says of everything the page, a load in flight, a draft or a request carries
with a revision that it is the stored content as long as that revision is the current
one.  An apply passes only at the current revision, so that what it replaces is what
was compared.  The exceptions are recorded in `misled`, and `NoBlindOverwrite` names them
(section 6).

### OspfDomain

Its theorems are in `Ospf_proofs`, after those of the page.
`Steady` is inductive: the stored domain has the types of the schemas with no node,
link or area twice (`Good`), it normalises to itself, and a compact one has no
areas.  The step is an algebra of the two shapes.  A save normalises twice;
`Stable` shows that a third time changes nothing.  It takes the second: the first
compares areas with the configurations sent beside them (`Retained`), and only after it do
the configurations and the projections say the same (`VirtualsKept`, `AreasKept`,
`OptsKept`).  `NextSends` says what all edits have in common: the body is good
and outside the edited area has what the response had.  `OneBlock` shows from the
checks of `Agree` that links which share an interface share a block; `Settled` takes an
untouched area through redaction, edit, restoration and both normalisations.

Two assumptions of the module are used: `Numbers` (ids of nodes and links are numbers,
which stands for their order in the lists) and `Schemas` (what clients send has the
types of the contracts, with no node, link or area twice).

### What is only model-checked

- Liveness: `ChangeEnds`, `RecoveryCompletesOrRefuses`, `Answered`, `RemovalGetsLock`,
  `ShutdownEnds`.  The provers do not reason about fairness of actions (`ENABLED`).

## 6. Known deviations

Where the code does something else than its comments, docs or users expect.  They
came up while the models were written; the runs above exclude them where a fault or
operation can be excluded, or state what holds beside them.  The definitions in
brackets say what would have to hold and are checked by no run.

Transaction.

- A commit whose reply is lost, and whose confirming read fails too or reads a layout
  saved after it, is undone although it is in the database (`store.ts:533-540`);
  `CommittedIsNotRolledBack` holds with lost replies, without the fault
  `confirm_missed`.
- An apply that never starts (its task expires in the queue, `bird.go:827-831` returns),
  or that fails before it saved its rollback copies, is undone with those of an earlier
  change (`deployment-service.ts:236`, against `README.md:11`): both rollbacks report
  success, the journal is cleared, and the node has a configuration the inventory does
  not have [`NodeFiles.FailedChangeRestoresNode`].  In `NodeFiles` the first case is
  "stale" in `faulted`, the second a "file" fault; in `Deployment` both are
  `apply_refused`.
- A failed write of the journal's direction leaves the journal "forward": after a
  crash the recovery completes a change that was reported as failed
  (`deployment-service.ts:229`).
- A layout save while a change is open makes the recovery meet an inventory it does
  not know, which it refuses for ever (`deployment-service.ts:137`): hence
  RecoveryCompletes*OrRefuses*.

Requests.

- The shutdown closes the server before it waits for the operation that runs
  (`server.ts:341`, against `docs/development.md:43`); a removal woken after that
  can be cut off between its nodes and its commit [`Requests.NothingInterrupted`].

Broker.

- After a reset or a revocation the callers of delivered tasks are answered while
  the agent still works (`agent-broker.ts:129`, against `agent/client.go:156-159`):
  `NoLateWork` and `IsRemoteCall` hold without credential operations.

Nodes and onboarding.

- A rollback by SSH whose reload fails puts the main text back but not the resources
  (`bird-runtime.ts:917`).
- A crash or a failed revocation after the commit of a removal leaves the removed
  node's credential valid, and the retry answers 404 (`node-onboarding-service.ts:997`).
- A setup script that races a creation resets the credential the created node's agent
  uses, although only an explicit rotation is to issue a new one
  (`docs/production-readiness-checklist.md:25`, P2-1).
- Of two creations of one node, one may answer 201 with a token that is dead
  already, or the node may stay with a revoked credential until a reinstallation.
- `promoteToAgent` builds its candidate from an inventory read outside the lock.

OSPF.

- An edit of one area can change what nodes have for another through the way back from
  the topology-first shape (`ospf.ts:128-131`) [`OspfDomain.UnchangedAreasKept`];
  `SettledAreasKept` says what does hold.
- Secrets are restored by the id *and* the area of a link: an authenticated link that
  moves to another area is stored with the mask as its password
  (`inventory-redaction.ts:59-63`, against `docs/production-readiness-checklist.md:42`);
  sending the topology shape of a compact domain back leaves masks in virtual links;
  virtual links of two members to one peer through one area share what is restored.
- The page's `selectOspfDomain` (`OspfWorkspace.vue:1110-1135`) keeps the newer
  `inventoryRevision` and clears the conflict, so that the next apply may replace what
  the page never compared (`:2044`, `docs/ospf-verification.md:9`); after a lost
  reply of the first apply of a new domain the comparison calls it absent (`:392`) and
  retries get 409; the comparison may be of another domain after a load in flight
  [`OspfEditor.ListedIsComparedToo`].
- A login or an update of the node list replaces unsaved edits of a new domain
  (`:2112`, `:2115-2138`); another editor's apply drops the saved draft;
  `deleteOspfDraft` runs after the lock was released.

Accounts.

- A change to the same password and a record made anew during one login can refuse the
  right password, since a login tries twice only; `RightPasswordGetsIn` states the
  rest.  A login whose answer is lost leaves a session nobody holds; a restart
  empties the throttle.

Source policies.

- `updateNode` can change a node's `igpAddress` without the hooks that reconcile its
  ip rules (`resource-application-service.ts:778-798`), so that the rule for the
  former gateway stays (`bird-source-policy.ts:278-283`).  Found by reading; no module
  has the rules.

## 7. Not modelled

- Source policies' ip rules (`src/bird-source-policy.ts`): a failing rule is, in
  `Deployment`, an apply that took effect and reported failure.
- The broker's upgrade jobs, which exclude each other by two flags
  (`agent-broker.ts:235`); that a requeued task does not wake a poll that waits already
  (`:405`); capabilities and parameters of tasks; agent self-update (`agent/`).
- The advisory lock's MySQL connection (`database.ts:552`): the architecture asks
  for one replica (docs/architecture.md).  Migrations, audit log, backups.
- The lock of a single node (`withNodeOperationLock`), the forced exit.
- Delivery of scripts by address and count, their text, the SSH inspection of a node.
- Parsers of BIRD's output, the text of configurations, metrics and looking glass:
  pure data transformations with golden tests in the repository.
- The pages of the web UI other than the OSPF page, which are mostly templates and
  styles, and the type declarations of `packages/contracts`.  About half of the
  repository's implementation lines are of this kind; a model of them would only
  repeat them.
