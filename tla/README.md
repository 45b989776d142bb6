# VAN: a verification project

VAN is an owner's assistant gateway with a trading system behind it: Python services
(`trading/`, `backend/van_gateway/`, `services/`), a Kotlin client (`android/`) and an MQL5
Expert Advisor (`deploy/van-trading-core/mql5/`).  This directory holds TLA+ models of the parts
whose correctness depends on the order in which processes, messages and failures meet, the TLC
runs that check them and the theorems TLAPS proves about them.

Two parts of the system are modelled.  The trading core, which moves money: who may trade an
account, how a command reaches the venue and what is believed of it, when an order may leave at
all, and how open positions are protected and closed.  And the path of an owner's command through
the gateway and back: how it is taken in exactly once, the mission it opens, the logs that record
it, and the events by which the owner's phone hears of it.

## Inventory

| Component | State | Operations | What is hard | What makes it correct |
|---|---|---|---|---|
| Account runtime lease (`app/account_lease.py`) | one row per account in PostgreSQL; `_held` per process | acquire, renew, fence, submission_guard, release | two hosts; clocks read before the lock; connections that die under a process; lost commit acknowledgements; crashes | one attached submission, by the holder; authority moves only after expiry; epochs only advance |
| MT5 pull bridge (`execution/mt5_pull.py`, `VanBridgeEA.mq5`) | SQLite tables commands, state, nonces; the advisor's `pendingResults` | enqueue and await; poll; execute | lost, repeated and late polls; deadlines that pass while the command is still queued; restarts of all three processes | each command executed at most once; receipts that claim no more than happened; every command answered |
| Position protection (`execution/protection.py`, exits of `execution/router.py`, mark and recovery of `app/trade_lifecycle.py`) | rules by position, open entries, kill switch | register, tighten, on_mark, apply_exits, apply_preservation, recover | adapter calls that refuse, answer late or raise in the middle of a batch; restarts; stale entries | the believed stop is never better than the venue's; a filled position is managed or no new risk is taken; exits get through |
| Order router (`execution/router.py`) | `_seen`, ledger, kill switch | execute | crash between command, submission and receipt; unconfirmed stops; UNKNOWN outcomes; idempotency keys that change with every pass | a candidate is sent once; no unprotected position without a halt; new risk only over a known book |
| Account service and coordinator (`app/account_service.py`, `account_coordinator.py`, `candidate_pool.py`) | last bar per symbol, candidates | start, step_once, admission | faults in the middle of a pass, bars evaluated again, clearing of the kill switch by a restart | budgets hold, a process sends one order for a bar |
| Risk authority (`risk/`) | mandate, exposure | evaluate | arithmetic; open risk at admission | limits hold for the book after admission |
| Reconciliation (`execution/reconciliation.py`) | none (pure) | reconcile | duplicates and missing positions | agrees with the set difference it stands for |
| Ledger (`core/ledger.py`, `ledger_pg.py`) | hash chain; in PostgreSQL also the row of its head | append, verify_chain | two writers; rollbacks; rows changed or lost outside | an untouched chain verifies; a chain that verifies is what was recorded |
| Audit log and its retention (`audit/service.py`, `ops/retention.py`) | hash chain with sequence numbers, anchors | record, verify_chain, prune_audit_prefix | appends and prunes while it is verified | the same, from the anchor on |
| Command intake (`orchestrator.py`, `idempotency/`, `command/`) | claim rows, nonces, sealed authorities, missions | begin, complete, fail; consume; seal; dispatch | repeats and copies signed again; two retries at once; claims taken from a slow holder; crashes between dispatch and answer | a key carries out one command, once; accepted means handed over |
| Approvals (`approval/service.py`) | challenges | issue, verify_and_consume | a proof sent twice, expiry in between | one challenge carries one command |
| Missions (`mission/`, `command/mission_link.py`) | mission rows, events, learning outcomes | create, transition, apply_hermes_result, set_deadline, expire_overdue | reads and updates with awaits in between, by the handler, Hermes, the owner, agents and a sweeper; crashes | legal edges only, ends are final, success only with a record that supports it; what was accepted ends |
| Event stream (`events/`, `session/`, Android `events/`) | table of events; history and cursor on the device | publish, replay, pump; apply, save, announce | two carriers without a lock; pages that are cut; lost replies; a process that dies while it applies a page | nothing is skipped, everything is announced |
| Action runtime (`action/`) | executions, receipts | begin, mark, verify, revoke | statuses read and then written without comparing | not stated by the code |
| Browser control (`browser/control_lease.py`, ...) | control leases by generation | issue, delegate, preempt, revoke | owner preemption racing delegation | one holder, the owner always wins |
| Automation dispatch (`automation/`) | runs, grants, dead letters | dispatch, retry, bury | repeated deliveries | a run is dispatched once or buried |
| Authentication, throttles, scheduler, backup | device keys, counters, job rows | | | |
| Android offline queue (`QueueReplayer.kt`) | queued commands | enqueue, replay, sign again | repeated sends | commands reach the gateway once |

Interaction: the account service acquires the lease, recovers positions from the venue and the
ledger, then runs passes: mark the open positions (protection), then let the coordinator renew
the lease and admit new intents, which the router submits under the lease's guard.  The router
calls a venue adapter; for MT5 the adapter is the session side of the pull bridge.  The gateway
talks to the trading core through ledger events and read models only.

A command from the phone is claimed under its idempotency key, vetted, approved, given a mission
and a sealed authority, and handed to Hermes or to a local executor; the mission then moves by
the handler's own steps, by what Hermes reports, by the owner and by deadlines.  Every refusal
and answer is recorded in the audit log, and mission changes are published as events, which the
phone replays by two carriers into one history.

## Modules

| Module | Models | Status |
|---|---|---|
| `AccountLease` | the lease as the account service drives it | done |
| `FencingToken` | what the lease promises: the abstract specification | done |
| `AccountLeaseImplements` | the refinement mapping between the two | done |
| `AccountLeaseProofs` | the theorems about the lease | done |
| `OnceExecutor` | what bridge, orders and intake promise of what they carry out: an abstract specification | done |
| `Mt5PullBridge` | queue, pull server, advisor and venue | done |
| `Mt5PullBridgeImplements` | its refinement mapping to the once-only executor | done |
| `Mt5PullBridgeProofs` | the theorems about the bridge | done |
| `PositionProtection` | stops and exits of open positions | done |
| `PositionProtectionProofs` | the theorems about protection | done |
| `OrderExecution` | passes, admission, execute, recovery and the ledger between them | done |
| `OrderExecutionImplements` | its refinement mapping to the once-only executor | done |
| `OrderExecutionProofs` | the theorems about orders | done |
| `CommandIntake` | the handler of a command, claim, nonce, approval, seal and dispatch | done |
| `CommandIntakeImplements` | its refinement mapping to the once-only executor | done |
| `CommandIntakeProofs` | the theorems about the intake | done |
| `MissionStates` | the states of a mission and its legal edges | done |
| `MissionLadder` | what a mission promises: the abstract specification | done |
| `MissionLifecycle` | transitions and everybody who makes them | done |
| `MissionLifecycleProofs` | its theorems and the refinement | done |
| `HashChain` | the audit log with its retention, and both trading ledgers | done |
| `HashChainProofs` | the theorems about the logs | done |
| `EventStream` | replay at the gateway, two carriers, history and cursor on the device | done |
| `EventFeed` | what the phone is promised of its events: the abstract specification | done |
| `EventStreamImplements` | the refinement mapping between the two | done |
| `EventStreamProofs` | the theorems about the stream | done |
| `MC...` | symmetry for TLC; the constants are in the `.cfg` files | done |

A definition whose comment begins with "Mutant:" is a plausible bug of the code; no specification
uses it, and it serves to show that a property can fail.

### AccountLease

An instance is one account service process.  `row` is the alias's row in
`vati.account_runtime_leases` (epoch 0: no row), `guard` the transaction that holds its row lock,
`conn` each process's store connection, `held` is `AccountRuntimeLease._held`, `now` the `now_ms`
an operation was given and `snap` the row an acquire or renew has read.  Every operation is split
where another process may step in: the read, the compare-and-set (`AcquireRead`, `AcquireCas`,
`RenewRead`, `RenewCas`), the clock reading before the lock is asked for and the lock itself
(`AskGuard`, `EnterGuard`).  A store call may fail without effect (`StoreUnreachable`) or after
its commit (`...Unacknowledged`), a connection may die with its lock while the process is still
talking to the broker (`ConnectionDies`), and a process may crash anywhere.  The instance id is
`nodename:pid`; the model gives a restarted process its id back, which is the case to worry
about (a pid is used again, always so in a container).

`FencingToken` has no rows, clocks or connections: an epoch counter, its holder, at most one
attached submission that only the holder starts and during which authority does not move, and
strays, submissions whose attachment was lost, each marked with its epoch.  A venue that compared
epochs could refuse the strays; the adapters of this code do not.

### OnceExecutor

The three layers through which a wish becomes a deed (an owner's command at the gateway, a
candidate on the order path, a command at the venue) promise the same: a request is carried out
only after it was asked for under its key, once unless it may be repeated, no other request under
that key is, and it is confirmed only when it was carried out.  The executor has no queue, ledger
or message.  Its mappings:

| | requests | keys | repeatable | asked | carried out | confirmed |
|---|---|---|---|---|---|---|
| bridge | commands | their ids | none | rows of the queue | at the venue (`executed`) | receipts that affirm |
| orders | candidates | themselves | none | generated | commands in the ledger | receipts in the ledger |
| intake | envelopes | idempotency keys | those without a nonce | holders of a claim | handed over (`runs`) | told "accepted" |

An order the venue has only taken (ACCEPTED) counts as carried out at the venue: it was placed.

The key of the orders' mapping is the candidate, not the router's idempotency key, which changes
with every pass.  A candidate is a setup and the pass that generated it, so the mapping says
nothing of a bar that is evaluated in two passes; `OneOrderPerBar` does.  An envelope without a
nonce can run twice (see the observations).

### Mt5PullBridge

`queue` is the commands table (a command's id is its index), `snapshot` the positions in the
state table, `waiting` and `told` the session's wait and what it told its caller.  Polls are
messages in `requests`; the pull server works on one of them statement by statement
(`Receive`, `SetState`, `Complete`, `Take`), since each statement commits by itself, and may die
in between.  The advisor polls, executes the lines of the reply one by one and keeps its results
until a poll is answered with 200.  `executed` counts what the venue really did for each command.
An order the venue answers with TRADE_RETCODE_PLACED is told ACCEPTED and stays in `placed`; its
position opens later (`PlacedFills`), with or without its stop, or never (`PlacedDies`).  Every
order goes out as a market order: the advisor takes one for a LIMIT only if its comment says so.
The signature, the nonce check and the skew are reduced to what they decide: a repeated request
is refused, and `Late` says whether a request that arrives after the advisor gave up on it may
still be within the skew.  `None` stands for "no reply" and is assumed not to be a sequence.

### PositionProtection

`rules` is `ProtectionManager.rules`, `entries` the lifecycle's open entries, `venue` what is open
at the venue with its stop, `late` the moves that were told rejected and may still be carried out
(for the pull bridge: a deadline that passed).  A mark is `Mark`, the supervision of every entry
(preservation, then thesis), `ApplyExits`, one `SendClose` per instruction, `EndMark`.  What
supervision decides is left open: it depends on health, envelopes and theses, which are data
here.  Each adapter call has every outcome it can have: done, refused, not answered, raised
before or after the venue acted.  A raised exception is `Abandon`: `run_forever` trips the switch
and the next pass marks again.  `Restart` is a new process: rules come from venue and ledger,
positions that cannot be joined trip the switch.

Scope: long positions with venue stops.  Short positions mirror them.  Break-even and trailing
stops are never configured outside tests, the thesis action MOVE_PROTECTION is permitted by no
shipped capsule, and owner tickets (software stops) have a channel of their own; all four are
left out.  The four marks of a bar are four marks.

### OrderExecution

One process is the account service: `pc` is where it is between its ledger writes, its reads and
its calls to the venue, `pass` counts the calls of `step_once` and is the clock.  A symbol stands for one setup; `bars` is
the latest closed bar each pass saw of it, `last` is `last_bar_end_ms`, and only the symbols that
are `Advanced` (their bar is newer than `last`) are evaluated.  A pass that ends notes its bars; one
that fails does not, and a restart forgets all of them.  `pool` is the
set of candidates that are ACTIVE or DEFERRED, `todo` the ranked ones this pass has not looked at,
`order` the intent between the risk authority's approval and the end of `execute`, `entries` the
open entries of the lifecycle, `kill` the switch.  `book` and `afloat` are the venue: what is
open, and what it was given and may still fill.  `commands`, `receipts` and `halt` are the ledger
and outlive the process.

A pass is `BeginPass` (owner's halt, marks), `Evaluate` (lease, evaluators, pool), then for every
candidate `Defer`, `TurnDown` or `Approve`; an approved intent goes through `Disconnected` or
`Command` and one of the ends of `execute`: `Filled`, `NotFilled`, `Flattened` and the three ways
of raising.  Every exception is the same: `run_forever` trips the switch and the pass is over,
while the candidate keeps the state it has.  `Crash` may come between any two steps; `Start` is a
new process that recovers from venue and ledger.  The venue fills and closes whenever it likes.

What the risk authority and the gates compute from prices is left open (`TurnDown` and `Fault`
are always possible); the kill switch, the reconciliation and the position counts are not.
`NamesIntents` says whether the adapter's positions and close receipts name their intent: the
paper and the Deriv adapter's do, those of the pull adapter do not, since the order comment it reads them from
holds a cut id.  With such an adapter nothing is restored and new orders stay blocked while a
position is open, which is safe; the run shows with `NamesIntents` what the rest of the code does
when orders do go on.

How it composes: `AccountLease` shows that one process at a time submits, so there is one here;
`Mt5PullBridge` shows what `positions()` and receipts are worth, and both are taken as exact
here; `PositionProtection` has the marks that `BeginPass` reduces to the positions they close.
Scale-in orders (`_execute_delta`), owner tickets and quantities are left out, and so are stops
the owner removes by hand in the terminal.

### CommandIntake

An envelope is one signed request, the same bytes whenever it is delivered; two envelopes with
the same key are two requests (the offline queue signs a command again).  `claims` is the
idempotency table by key, `consumed` the nonces, `challenges` the approvals, `missions` how many
missions were opened for an envelope, `sealed` the command authority records, `runs` how often an
envelope was really handed over, and `told` what reached a client.  `jobs` are the handlers: `pc`
is the await a handler is at.  `Begin` is the transaction of `begin` with its verdict;
`MarkConflict` and `Reclaim` are the updates begin makes after that transaction; `Store` is
`complete` or `fail`, which look at nothing.  In between come `RefuseSender`, `CheckNonce`,
`RefuseIntent`, `Gate`, `FindMission`, `OpenMission`, `StopBeforeSeal`, `ReadSeal`, `WriteSeal`
and the three ends of the dispatch, each an await of `_handle` in its order.  Two handlers may
work under one key: a claim grows old while its holder is slow (`ClaimGrowsOld`), two failed
claims are reclaimed at once, and a conflicting request marks the row of a running claim CONFLICT
and then FAILED, after which the command may be claimed again beside it.  What keeps such a
command from being carried out twice is not the claim but the nonce, and for the mission the
unique index; `OnceUnderItsKey` says exactly that, and that a command without a nonce (signature
v1) may run twice.

Routing, context, reasoning and truth decide whether a command is refused at the places
`RefuseIntent`, `StopBeforeSeal` and `RefuseDispatch` and are otherwise an open choice.

### MissionLifecycle

One mission, since missions share nothing and each Hermes run has an id of its own.  `tasks` holds
each caller's place in `transition` or in its own code: `Enter` is the read and the check of the
edge, `Verify` the await of the verifier, `Write` the update that compares the state with the one
read, `Note` the event that binds the run, `Settle` the second read and the outcome that is
learned.  The handler climbs (`Climb`, `Block`, `Stall`), dispatches (`Delegate`, `DenyLocal`),
starts, arms the deadline in an update of its own, works and answers; Hermes reports by
`Report`, `Resumed`, `Conclude`; `Cancel`, `Steer` and `Sweep` are the owner, an agent and the
job of deadlines; `Crash` ends all calls.  `local`, `checkable` and what the verifier answers are
open.

`MissionLadder` is what a mission promises whoever moves it; `ImplementsLadder` checks that the
non-atomic transitions implement its atomic ones, by the identity on `state`, `record` and
`checkable`.

### HashChain

Each behaviour is about one of the three logs.  `rows` are the records with what was hashed, a
hash being the sequence of everything below it, so that equal hashes mean equal histories.
A row holds the text its hash is made of (`id`) and what the hash leaves out (`rest`): of an
event of a ledger nothing, of an audit row the columns project_id, capability, approval,
model_delegate, tool and evidence_pointer, and where in the "|"-joined text one field ends
(`Hashed`).  `ReadEnd` and `Insert` are the two statements of an append, under the database's write
lock (audit), the lock on the head's row (PostgreSQL), or none (SQLite, an autocommit connection).
`forkable` remembers that two appends to a SQLite file have overlapped, or that retention has left
the audit log without a row: the two ways an untouched log comes to fail its verification.  `ReadRows` and `Judge` are the two reads of a verification.  `Prune`
removes a prefix and leaves an anchor; `Change` and `Lose` are what somebody may do to the rows
outside the services.  The last rows of the audit log and of a SQLite ledger can be lost without
a trace, as nothing outside the rows says where they end; `Lose` leaves them alone there.

### EventStream

`log` is the table of events, `replays` the replay of each carrier at the gateway (it reads the
ceiling and the rows by two statements), `pushed`, `linked` and `wire` the session's pump and
socket.  On the device `hands` is the page each carrier's thread is applying: `ReadState`,
`WriteState`, `SaveCursor`, `Announce` are the statements of `VanEventStreamStore.apply`, which
takes no lock, `KeepState` the write of `fail`.  `shown` is the history, `saved` the cursor on
disk; `seen` and `announced` remember what was ever brought to the history and emitted.
`Restart` is the death of the app's process: the history is empty, the cursor comes from disk,
and the new session's pump starts from the first event.

`EventFeed` has no pages, carriers, threads or restarts: events are published ahead of both
cursors, brought to the history, announced, and a cursor stands only where everything behind it
was brought.  `EventStreamImplements` maps it to the stream: `published` is what the log holds for
this device, `brought` is `seen`, the cursors are `shown.cursor` and `saved`.

## Runs

| Run | Result | Question |
|---|---|---|
| `lease` | pass | Is there ever more than one attached submission, is it the holder's, and does the lease implement the fencing token? |
| `bridge` | pass | Does the bridge implement the once-only executor, are receipts grounded and results final, does a fill that is recorded find its position in the snapshot? |
| `bridge_live` | pass | Is every command answered while no message is lost, also when the session gave up on it, and is the venue's stop never widened? |
| `protection` | pass | Is the believed stop never better than the real one, is every filled position managed or the account halted, is a rule kept until its position is closed, is a request to close lost only on a halted account, and is a due exit carried out at last unless exceptions keep cutting marks short? |
| `protection_trap` | violation | Also when another position was closed before? No: its entry stays, and raises in every later mark before exits are sent. |
| `orders` | pass | Does a process send one order for a bar, is an owner's halt honoured by every pass that begins under it, does new risk leave only over a known book and within the limits, does a position without a stop keep the account halted, does a restart find every position's command? |
| `orders_tag` | violation | Also when the adapter cuts the intent id, as the pull adapter does? No: nothing is restored. |
| `intake` | pass | Is a command carried out once under its key and on one approval, and does the intake implement the once-only executor, whatever is repeated, retried, signed again or left behind by a crash? |
| `missions` | pass | Do the racing callers of a mission only ever climb legal edges, is what is learned true, and does an accepted command end? |
| `chains` | pass | Does an untouched log verify, and is a log that verifies what was recorded? |
| `chains_shared` | violation | Also a SQLite ledger to which two processes append? No: both link to the same row. |
| `stream` | pass | Does the stream implement the feed, whose cursors never pass an event that was not shown, and is every event announced? |

Each passing property has a mutant in `PROJECT.json`, a plausible bug of the same code under
which TLC finds the property violated.

### Bounds

`lease`: three processes, a clock of four instants with a TTL of two, three epochs.  Three
processes allow a submission that lost its lock, its successor and a third contender; the clock
covers grant, expiry and takeover; two takeovers happen.  The theorems have no such bounds.
`bridge`: two commands of which one opens a position, two polls in flight, so that a late poll can
overtake the one the advisor waits for; two commands are enough for one to be taken while the other
is reported.  `bridge_live` has three commands (open, move, close) and no losses, so that the
advisor never gives up on a poll and there is one at a time (`OnePoll` of `Mt5PullBridgeProofs`); a
reply takes two commands in both, so that with three the server also hands out in turns.
`protection`: two positions (one is closed while the other is handled), three stop levels
(a stop, a refused move beyond it, a later one).
`orders`: two instruments with room for one position each, two passes, candidates that stay
fresh for a second pass, two intents per pass, in every pass a new bar of each instrument or none:
enough for a candidate to come back after a fault, for a bar to be evaluated in two passes, for an
order to fill after its pass, and for a restart in the middle of either; one instrument with three
passes was also checked and shows nothing else.  The theorems have no such
bounds.
`intake`: two handlers and two scenarios.  In the first an A4 command asks for approval, is sent
again with the proof, and the same proof is then offered for another command; in the second one
command is sent, signed again under the same key, and sent once more without a nonce.  Every
envelope may be delivered any number of times.
`missions`: the command's handler, two callbacks from Hermes, the owner, the agent's process and
the sweeper; each caller calls at most twice (`MaxCalls`), the gateway dies at most once.
`chains`: two writers, six records, two rows changed or lost; `chains_shared`: a SQLite ledger, two
writers, three records and nobody who touches the rows.
`stream`: pages of one event and a history of one, so that two events already cut a page and
overflow the history; one restart of the app.  The theorems have no such bounds.
Positions, instruments, writers, handlers and processes are interchangeable; symmetry is used
only in runs without liveness.  Deadlock is not checked where the system really stops: `missions`
(a mission ends and its callers are done) and `chains` (the records are used up).

### Fairness

`bridge_live`: the session, the pull server and the advisor keep taking steps (weak fairness of
each): the session polls in a loop with a deadline, the server is driven by requests, the advisor
by its timer.  `protection` and `protection_trap`: bars keep arriving and the thread keeps
running (weak fairness), and a venue that is asked to close the same position again and again
reports it closed at last (strong fairness of that outcome alone).  Nothing is assumed about the
order of supervision or what it decides.  In `protection` calls raise and the process restarts:
`ExitsUnlessCutShort` promises the exit unless marks are cut short for ever (`CutShort`) or the
request was lost to a raise, which leaves the rest of its batch pending until a restart, the account
being halted meanwhile (`UnsentMeansHalted`).  In `protection_trap` nothing raises but the stale
entry itself.

`missions`: time passes, the command's handler goes on once it has begun, and the scheduler runs
its sweep again and again.  Nothing is assumed of Hermes, the owner or the agent: an accepted
command ends because the sweeper ends it (`AcceptedEnds`).
`stream`: the feed polls in a loop, not every request fails (strong fairness of a successful answer),
and a thread that holds a page goes on applying it.  The code justifies it while the activity screen
is composed and the device is not so short of resources that `nextDelayMillis` is null
(WorkModules.kt:89-99); when the loop has ended, `EveryEventAnnounced` is about the time after the
screen is composed again.
Nothing is assumed of the socket or of the gateway's pump, which may be silent for ever.

## Proofs

`AccountLeaseProofs`, for any set of processes, any TTL, any bound on time and epochs:

* `LeaseInvariant` (`LeaseInv`) is the inductive invariant.  It says what each phase of each
  process knows: whoever holds a memory of a lease has one that was granted, with an epoch not
  above the row's; the same epoch means the same holder; who holds the row lock is submitting on
  the row's lease; a takeover under way has read an expired row or its own.  Exclusion alone is
  not inductive: it needs the relation between memory, row and lock.
* `Exclusion`, `EpochIsIdentity`, `OrphansAreOlder` are the invariants the run checks,
  `NoEarlyTakeover` its action property; `GuardMeansHolder` (while a submission is attached, the
  row names its process under its epoch) and `EpochsOnlyAdvance` are theorems only.
* `LeaseRefinesToken`: the lease implements `FencingToken` under the mapping of
  `AccountLeaseImplements`, one lemma per action of the lease.

`PositionProtectionProofs`, for any set of positions and stop levels:

* `ProtectionTypeOK` from `ProtInv`, which adds to the types that a batch exists only while exits
  are sent and a thesis is assessed only during supervision: without it a full close could drop a
  rule that a batch still names.
* `StepShape` divides the steps into those that only shrink what is there (`Shrinks`), openings,
  moves and restarts; the three results follow from it: `MirrorIsNotTighter`,
  `FilledStaysManaged` and `RulesOutliveOnlyClosed`.  The last two assume that no close fills in
  part (`~PartialFills`): such a close drops the rule of what is left.
* What holds without that assumption are two theorems only.  `OnlyItsCloseEndsARule`: within a life
  of the process a rule ends only in the step that answers its own position's close as filled.
  `OnlyMisreportedFillsOrphan`: an open position becomes unwatched on an account that still trades
  in that way alone, with a part left open; no refusal, raise, late move or restart does it.
* `NoStopIsLoosened`: no step lowers a stop, at the venue or in a rule; a rollback and a late move
  are among the steps.  It rests on `MirrorNotTighter` and on `FreshInv` (a position that was never
  opened has no rule), for an opening sets both stops.
* `RequestsAreAnswered` assumes that no adapter call raises (`~Raises`): a raise leaves the rest of
  its batch pending with nothing sent.  `LostRequestsHalt` is what holds without the assumption:
  the account is then halted until a restart (`UnsentMeansHalted`).  Both follow from `PendingInv`, and so does
  `EveryDueExitIsAsked`: a mark that reaches its exits asks for each that is due.

`OrderExecutionProofs`, for any set of instruments, any number of passes, any freshness and any
limits:

* `OrderInv` is the inductive invariant, in parts that are each kept by every step
  (`DatedStep`, `HeldStep`, ...).  `SentOnce`, which the executor's refinement needs, shows why it is needed: that no candidate is sent
  twice holds neither because of `_seen`, whose keys change with every pass, nor because of the
  state in the pool alone, which a raise leaves as it was, but because of `SentOut`: a candidate
  that was sent is out of the pool, or the switch is tripped, or it is the one under way; and a
  restart, which clears the switch, empties the pool.
* `SeenNeverRefuses` says what `_seen` adds to them: nothing.  An order that reaches the replay guard
  with the switch clear is not in it, by `SentOut` and `Held` (its candidate is in the pool).
* `BarOrderedOnce`: a process sends one order for a bar.  It rests on `BarsNoted`: of what may still
  be sent, or was sent by this process, no two candidates share a bar and each bar is noted in
  `last` or belongs to the pass under way, as long as the switch is clear; a pass that fails without
  noting its bars has tripped the switch.
* `OwnerHaltStops`, `BookIsKnown`, `BareIsHalted`, `LimitsAreKept` are the invariants the run
  checks; the last counts finite sets and needs `Room`, that between approval and answer one
  position less than the limit is known.
* `StartRestoresOrHalts` is `RestartRestores` for every adapter: where positions name their intents
  a start restores all of them, and where they do not (both MT5 adapters) it trips the switch as
  soon as any position is open.
* `OrdersImplementExecutor`, of the candidates: a pass asks for its candidates, `Command` carries one
  out, and a receipt is written only of a command that is there.

`Mt5PullBridgeProofs`, for any number of commands, polls, stop levels and rows in a reply:

* `BridgeInvariant` (`IInv`) has three parts that hold whatever happens.  `PlaceInv`: a command that
  was taken is at one place only, the reply, the advisor's hands, or carried out, and one still in
  the queue is at none of them; that is why nothing runs twice although polls repeat and replies
  are lost.  `GroundInv`: no result on its way, recorded or told claims what was not done.  With
  them go the types.  `AtMostOnce`, `ReceiptsHold` and `RecordedIsFinal` follow; `StopsOnlyTighten`
  needs beside the types only that an order opens a position which was not there, as the advisor
  compares with the stop of the venue itself.
* `FillsAreCovered` (`SnapshotCoversFills`), with late polls and orders that open later: after a poll
  in time has stored its state, every recorded fill whose position is open is in the snapshot, and
  no other step but the state of a late poll leaves one out.  `CoverInv` says why: a poll carries
  the positions of all the fills it reports, the one the advisor waits for those of every fill there
  is, and the server has recorded no result of a poll whose positions it has not stored.  An order
  told ACCEPTED promises no position.
* `SnapshotLagsBehind` bounds the snapshot from the other side: it names only positions that were
  opened, at stops no higher than the venue's are now (and it may name closed ones).  This is what
  protection rests on when `recover_from_venue` takes a rule's stop from `positions()`: a stale
  answer is never the tighter one.  `StaleInv` says the same of the positions that every poll on its
  way carries; that they only grow older needs `StopsOnlyTighten` and `ClosedIsClosed`, that a closed
  position never comes back, which `PlaceInv` gives: what would open it again was carried out.
* `BridgeImplementsExecutor`: enqueueing asks, the advisor's executions carry out, `ReadResult`
  confirms; every other step, the losses and restarts among them, stutters.  That `ReadResult` takes
  back no confirmation needs `WaitingIsUntold` (who still waits was told nothing).
* `NoCommandIsLost` assumes `~Losses` and is the safety `EveryCommandAnswered` rests on: there is one
  poll at a time (`OnePoll`), it brings every result that is not recorded, and all results are
  recorded before the reply for which the advisor drops them leaves the server.

`CommandIntakeProofs`, for any set of envelopes, keys, handlers and scenarios:

* The invariant `IInv` relates what each handler holds in its hands to the tables it wrote:
  `HandlerInv` (what a handler at each stage has), `KeyInv` (whoever works under a key holds its
  row, and the row's request is never replaced), `NonceInv` (a nonce lets one handler through),
  `ProofInv` (so does a challenge) and `AnswerInv` ("accepted" is stored only for what ran).
  `Moves(h)` summarises what a step of one handler does to the others, so that each action is
  examined once and each part of the invariant once.
* `OnceUnderItsKeyAlways` and `ApprovalCarriesOneAlways` are invariants the run checks,
  `AcceptedIsTrueAlways` is a theorem only.
* `IntakeImplementsExecutor`: a claim that is taken asks, the dispatch carries out, an answer
  confirms; that a row keeps its request through failures and reclaims makes the keys of the executor
  permanent.

`MissionLifecycleProofs`, for any set of callbacks and any bound on calls and crashes: `IInv` says
that a caller with a transition in its hands holds one that was legal for the state it has read
(`Permitted`), and that what is learned is true.  The update that compares the state makes a legal
step of the ladder out of a legal plan; `MissionImplementsLadder` shows every step to be a step of
`MissionLadder` or a stutter.  Theorems only: `OutcomesAreEvidenced` (a verification outcome never
stands without the record that supports it), `MissionEndsAreFinal` (the state and record of a mission
that ended stay, and what is learned stays true) and `AcceptedIsTimedAlways` (an accepted mission has
its deadline armed), the safety `AcceptedEnds` rests on; its `TimedInv` says where the handler has
`set_deadline` behind it.

`EventStreamProofs`, for any page size, any history and any number of events and restarts: `IInv`
says of every cursor, the ones in memory, on disk, in a thread's hands, in a reply and in the
socket's buffer, that it covers (`Covers`) no event that was not shown or is not in those very
hands.  `FirstPageIsPrefix`, `ShortPageIsAll` and `PageOfMeans` are the facts about a cut page on
which it rests.  `NothingSkippedAlways` is this of the two cursors; `StreamImplementsFeed` makes a
step or a stutter of the feed of every step of the stream (`WriteState` brings a page, `SaveCursor`
saves, `Announce` announces, a restart brings nothing and moves the cursor back to the saved one).  `ShownIsAnnouncedAlways`, the safety `EveryEventAnnounced` rests on: what is in the
history was announced, or a thread owes it.  By itself that is not kept, as a thread announces what
was not in the state it has read: `OwedInv` says the same of what the threads have read, so that
neither leaves an event to the other that leaves it to the first; and that a poll under way holds no
page, so that its failure drops none.

`HashChainProofs`, for any writers and any number of records, prunes and rows changed or lost.
`ChainInvariant` has two parts.  `AnyInv` holds of every log: rows, appends and anchors were made of
recorded texts and of hashes of recorded texts, whatever became of the texts (`TextInv`).  `IInv`
holds until the log could fork: the end an append has read is still the end when it inserts
(`WriterInv`, where the locks are needed), every row was recorded as the record of its number
(`Genuine`), and the largest anchor is where the rows go on (`WholeInv`).  `HonestVerifies` follows
from the second; of `OkIsHonestAlways` the part about changed texts follows from the first, for any
log, and the rest from the lemma `LinkedMeans`: rows that link from record m on are the records
after m, since a hash determines all that is below it, so the first row out of order cannot
reconcile.

The assumptions are the named ones of the modules (`ConstantsAssumption`, `BridgeAssumption`, ...),
which TLC evaluates in every run, and the ones a theorem states itself: `~PartialFills`,
`~Losses` and, for `RequestsAreAnswered`, `~Raises`.  Each excludes a
behaviour under which the statement is false and which the observations below describe (or, for
`~Losses`, plainly loses the commands of a reply).  Every invariant and action property that a
passing run checks is also a theorem (`RestartRestores` as part of `StartRestoresOrHalts`).  No run
lets a close fill in part: that it drops the rule of what is left, and nothing worse, is what
`OnlyItsCloseEndsARule` and `OnlyMisreportedFillsOrphan` prove.  Liveness under fairness
(`EveryCommandAnswered`, `ExitsUnlessCutShort`, `AcceptedEnds`, `EveryEventAnnounced`) is out of the
prover's reach and is model-checked only; of each the safety it rests on is proved (`NoCommandIsLost`,
`EveryDueExitIsAsked`, `AcceptedIsTimedAlways`, `ShownIsAnnouncedAlways`).

## Observations

Where the models and the code agree with each other but not with what one might expect of them.
The first three are runs with a counterexample and are listed as findings in `PROJECT.json`; the
others were met while modelling, and the models behave as the code does.

Trading core:

* An entry outlives its closed position, and the next exit of it raises before the exits of other
  positions are sent (`protection_trap`).
* The pull adapter cuts the intent id to 26 characters, so a restart restores no position
  (`orders_tag`).
* The gateway and the commander append an owner's halt or ticket to the SQLite ledger the session
  writes (van_gateway/trading/service.py:376-380, 402-415, commander/app.py:330).  `append` reads the
  end and inserts in two transactions (ledger.py:59-67): two that overlap link to the same row, and
  the ledger fails its verification from then on (`chains_shared`).
* After a restart a bar may get a second order.  candidate.py:130 says of a candidate's id
  "Deterministic across restart: the same economic decision keeps its id", and candidate_pool.py:70-72
  that SELECTED "must never become ACTIVE again simply because the same bar was evaluated twice"; but
  the id is made of the time of the pass (opportunity.py:167-169), and the pool and `last_bar_end_ms`
  are in memory.  When the first order is unanswered or its position has closed, nothing else stands
  against a second; `OneOrderPerBar` is therefore about one life of the process.
* `submission_guard` judges liveness by a clock read before it waited for the row lock
  (account_lease.py:410; its docstring, lines 389-392, says a lease that expired is not admitted).
  Holder and epoch are checked under the lock, so submissions still exclude each other.
* A poll that arrives late but within the accepted skew overwrites a newer snapshot
  (mt5_pull.py:297): a recorded fill may be missing from the snapshot until the next poll in time,
  and nothing else takes it away (`SnapshotCoversFills`).  The stops a late poll brings are never
  higher than the venue's (`SnapshotLagsBehind`).
* The advisor's PARTIAL and ACCEPTED reach the caller as REJECTED (mt5_pull.py:197) although
  something is open at the venue, or may open at any later time (ACCEPTED).
* A close that fills in part drops the rule of what is left (router.py:342,
  protection.py:153-154).  A call that raises in a batch leaves the exits behind it pending and
  unsent until a restart, the account being halted meanwhile.

Missions and intake:

* A crash between the update to RUNNING and `set_deadline` leaves a mission that nothing ends;
  `AcceptedEnds` is about missions whose deadline was armed.
* The loser of a compare-and-set still records its event and the learning outcome of the state it
  reads; the sweeper lists missions it did not expire.  The owner's cancel between AUTHORIZED and
  `create_run` does not stop the dispatch.
* A request that conflicts with a running claim marks its row CONFLICT and then FAILED, after
  which the command can be claimed a second time; its nonce stops it, and a command without a
  nonce may run twice.
* Retention deletes idempotency rows and consumed nonces after 7 days (retention.py:223-230).  The
  model of the intake keeps both; a request repeated after that is new to the code, as far as its
  signature is still accepted.

Logs:

* A verification reads the rows and then the anchor or head by another statement
  (audit/service.py:161, ledger_pg.py:135), so an append or a prune in between makes it report an
  untouched log as broken.  It never vouches for a broken one.
* An audit log of which retention has pruned every row (nothing appended for the horizon, 730 days)
  starts again at sequence number 1 behind an anchor that says otherwise, and every later
  verification fails.  The loss of the last rows of the audit log or of a SQLite ledger goes
  unnoticed.
* `entry_digest` (audit/service.py:110-135) leaves out the columns project_id, capability, approval,
  model_delegate, tool and evidence_pointer, which `record` stores, and joins the others by "|" without
  escaping it: an audit row changed there still verifies.  The comment of `record` (lines 63-65) and
  the docstring ("Hash covering the fields that make an audit row meaningful") suggest more.
  `OkIsHonest` speaks of the hashed text of an audit row and of all columns of an event.
* The gateway verifies the audit log on request (`/v1/observability/health`, app.py:2651).

Event stream:

* An event may be announced twice: two threads apply pages without a lock, and after a restart the
  pump begins at the first event while the history is empty, though VanEventStreamStore.kt:73-75
  says a producer must not fire again for an event VAN already reacted to.  What is promised and
  checked is that none is left out.
* A failure recorded by one thread can drop a page the other has just added from the history in
  memory; the cursor stays behind it.  Retention deletes events after 30 days (retention.py:233-235),
  which the model leaves out: a device that has been away longer is not shown them.  The socket is not opened again in a process, and the buffer
  between history and producers drops its oldest event when a producer is slow.

## Plan

Every component the first plan named first is modelled.  What could follow, each with its module,
run and mutants:

1. Scale-in orders (`_execute_delta`) and owner tickets, with quantities; reconciliation with
   quantities against its reference definition.
2. The session's upstream messages and the phone's outbox, which end in the intake modelled here.
3. The action runtime and browser control, once the code says what overlapping calls may do.
4. Composition: intake, mission and stream over one gateway that crashes as one.

Proofs that could follow: `MissionLadder` composed with the executor of the intake, so that one
command is one mission that ends; the protection of a position across the bridge, its mirror
compared with the snapshot `SnapshotLagsBehind` is about instead of with the venue.

## What is not modelled

Cryptography, serialisation and wire formats; decimal arithmetic of sizing, costs and features;
model calls, retrieval and prompts; user interfaces.  Beyond these:

* Action runtime: statuses are read and then written without being compared, so overlapping calls
  overwrite each other, a revocation included; neither code nor documents promise anything about
  them, and a model could only repeat that.
* Browser control: no production path brings a browser session to INTERACTIVE and
  `assert_may_actuate` has no caller, so a model would have to invent who contends.
* Automation dispatch: no production code redeems a run's grants (`RunGrantService.redeem`), and the
  health of a workflow is read, changed and written back by two statements, so two failures at once
  may count as one.
* Session upstream, outbox and paths; the scheduler, one loop in one process, whose jobs are
  actions of the components they change; authentication and throttles, whose verdicts the intake
  takes as given.

The list of components in `PROJECT.json` says for each part whether it is modelled and why not.
