# Horyzond in TLA+

Horyzond is a window manager and compositor written in Rust. One process runs
one event loop on one thread (`docs/decisions/0001-module-boundaries.md`); its
concurrency is with the Wayland clients, with the user's editor on the
configuration files, with IPC clients, and with other Horyzond processes.
These modules model its state machines, check them with TLC on small instances
and prove the most important facts with TLAPS for every instance. Paths below
are relative to the repository root, line numbers belong to the modelled commit.

## The system

| Part | State | Operations | What makes it correct |
| --- | --- | --- | --- |
| `wm-scene` | rectangles, paint order, generation, damage | set, remove, raise, set_order, clear, take_damage | the order lists every window once; damage covers every change |
| `wm-core` | windows; per workspace a scene, focus, layout, saved geometry | backend events, workspace create/switch, layout runs, manual placement, restore | no workspace remembers an unmapped window; a scene shows what is saved; workspaces do not touch each other |
| `wm-layout` | providers; a Lua provider per layout, recovery layout | calculate, interact, reload | a run answers for every window once; a broken provider keeps the last good one |
| `wm-backend` | configure ledger | issue, acknowledge, expire, forget | the newest request is the one that counts |
| `wm-backend-wayland` | xdg lifecycle; protocol id -> window, painted geometry and order, event queue; smithay's seat | protocol handlers, retry, geometry synchronisation, frame | only acknowledged content is mapped; what is painted, focused and managed agree |
| `src/main.rs`, nested loop | the order of an iteration | input, dispatch, retry, events, services, synchronise, frame | everything queued is applied before a frame shows it |
| `wm-runtime` | generation, providers, input, rules, pending spawn | synchronize, dispatch, reapply | a reload is taken over entirely or not at all |
| `src/main.rs`, start and end | the order of lock, defaults, log, load, socket; what is dropped and what is not | main, `exit_with_error`, panic | files survive every end; one instance; the next start knows how the last one ended |
| `wm-input` | modes, current mode, consumed chords | press, release, replace | a release goes where its press went; the current mode exists |
| `wm-script`, `wm-config` | candidate, generation, fingerprints; instance lock | load, reload, install defaults, acquire, drop | an invalid candidate changes nothing; no edit is missed; one instance per display |
| `wm-ipc`, IPC dispatch | listener, connections | bind, poll, request, drop; the methods of `handle_ipc` | a request is handled at most once and answered as it was handled; a failed one leaves the desktop alone; nobody can silence the socket |
| `wm-render` | frame ledger | acquire, submit, complete | a frame passes through each owner once |
| `wm-hooks`, `wm-rules` | busy flag, quota; rules by priority | begin, finish, evaluate | a hook runs as long as the quota lasts; rules act on changes, in order, until one stops |
| `wm-diagnostics` | log files, session marker | open, record, close | an unclean end is noticed by the next start |
| `wm-backend-headless`, `wm-types`, `horyctl` | test backend; value types; command line | | |

The parts interact by plain calls. `NestedState` (the smithay handlers) never
calls the core: it queues `BackendEvent`s, which `run_nested`'s first callback
applies after each dispatch. The second callback, once per iteration, serves
one IPC request, polls the configuration, and then hands the core's scene back
to the server, which compares it with what it paints and sends configures. The
server's `window_geometry`, `window_order` and `focused_window` are therefore a
*copy* of the core's scene that handlers also edit; the core's window set is a
*delayed copy* of the toplevels; keyboard focus lives in smithay and the focus
border in the core. Client answers arrive at any later time, out of date, or
never. That is where the hard behaviour is, and where the modules begin.

## The modules

`Scene` holds the methods of `wm_scene::Scene` as operators from a scene to a
scene. `NoRect` stands for "not a key" in a map. It has no variables because it
is used twice:

* `SceneDamage` animates one scene with its generation and `DamageTracker`, and
  adds `painted`, the scene a renderer last drew from a drained damage. Regions
  are a set: the tracker only ever folds them into one bound.
* `CoreState` (`crates/wm-core/src/lib.rs`) holds one scene per workspace. Each
  method that changes state is an action, guarded by its early returns. A layout
  run is `CommitLayout`, the common tail of `apply_layout` and
  `interact_layout`, with an answer chosen freely among those `run_lua`
  (`crates/wm-layout/src/lib.rs:297`) accepts (`RunProvider`) or with what the
  recovery layout computes (`RunRecovery`).

`XdgLifecycle` has the methods of `XdgLifecycle` and of the `ConfigureLedger`
inside it, and no `Next`. Ages are stored instead of timestamps, since the code
compares `now - requested_at` with one timeout. Two modules drive it:

* `XdgProtocol` calls the methods in any order with any acknowledgement. History
  variables `latest` and `accepted` remember arguments only. `XdgHandshake` is
  the abstract specification: proposals, agreement, and content shown only when
  it answers the proposal that stands. `ImplementsHandshake` is the refinement.
* `NestedSession` calls them from the handlers of the nested server. It implements
  the handshake too, without history variables and in the clients' terms: a
  toplevel has been asked for something (`Asked`), and its client's queue is empty
  again (`Settled`).

`NestedSession` composes `CoreState` (one workspace, one layout), `XdgLifecycle`,
the server's own tables, smithay's toplevels and keyboard, and the clients. `phase`
walks through one iteration of `run_with_callbacks`:

    input -> clients -> retry -> events (<-> relayout) -> services -> sync -> resize -> frame

`clients` is `dispatch_clients`: client requests (`NewToplevel`, `Ack`,
`CommitBuffer`, `CommitNull`, `DestroyToplevel`) arrive in any number and order.
`retry` and `resize` send the configures in `outgoing` one per step and in any
order (each goes to a client of its own); `events` applies one queued event per
step, oldest first. `inbox` is what each client has received and not answered;
`unflushed` keeps a client from answering in the dispatch that sends. smithay is
modelled from how the code uses it: `toplevel_surfaces().find(..)` finds the
oldest match, acknowledgements it passes on name a serial still in the client's
queue, and remove the older ones. `Key` gives surfaces the protocol ids that
`surface_key` goes by.

`ClientSizes` adds to it the size each client draws at.

`Configuration` is the other half of the loop, against the user's editor instead
of the clients. A text of `config.lua` is the data that `ScriptLoader::load`
extracts from it (`ScriptText`: does it load, are its default layout and bindings
acceptable to the runtime, which providers it names, what its modes bind); a
provider text is valid or not. `Save` and `Remove` may happen between any two
accesses to the files: `StartReload` compares the fingerprints, `Read` evaluates
the candidate, `CommitCandidate` fingerprints its files and makes it the
generation, `Synchronize` is `LayoutRuntime::synchronize` with the order of its
failures (default layout, then providers replaced, then bindings refused).
`Press` and `Release` are `InputState`'s, reached through the IPC requests. A
generation number is only compared for equality, so `synchronized` stands for
the comparison. A stamp is new with every edit: two saves of one length within
the clock's resolution are outside the model. Imported files are part of the
text, so a mixture of an old and a new import is one more text.

`SessionProcess` is the life of the processes around all that: several processes
of one configuration root, started, refused, failing, panicking or killed at any
step, next to a user who saves files, anew (`EditDefault`) or in place
(`SaveInPlace`), and deletes them, at any time. `step` is where `main` is. Everything
another process, the user or a crash can come between is an action of its own: creating a default and writing
it, removing the old session marker and creating the new one, moving the log
away and starting one, dropping the socket and dropping the lock. A process that
writes a default writes to the file it has created, which need no longer be the one
at its path: `replaced` says so. A process
ends in one of three ways, and the difference is what the module is about: `main`
returns and drops its locals in reverse order (`DropServer`, `DropLock`); a panic
unwinds and drops them too, but closes no session (`Panic`); `exit_with_error`,
`process::exit` and signals drop nothing (`Die`). History variables (`ended`,
`ended_before`, `torn`) say how sessions really ended; no step reads them.

`ServiceRequests` is the coordinator of one process: each method of `handle_ipc`
with the answer it gives, `dispatch_action` as a function from what it may change
to what it makes of it (`Effect`, so that a failing action shows what it leaves
behind), hooks with their quota, pending spawns, window metadata and rules. What
a reload does to it is reduced to its effect here (`Synchronize`), applied or
not; which reload is applied is `Configuration`'s business. `RuleEvaluation` has
the rule engine: the stable sort, which gives each rule the place that the number
of rules preceding it says, and the loop with its stop; next to it the
specification without an order of evaluation (`Acts`).

`SessionServices` composes the two with the transport of `wm-ipc` and the clients
of the socket. A connection holds a whole request (`sent`) or not; the
backlog is the listener's queue; a client may give up at any time, and what it
sent stays queued and is handled. Which request a connection holds is chosen when
it is read. A process that dies takes its
listener's queue with it; after a panic, connections stay queued until the
listener is dropped. `clients`, `events`, `poll`, `reading`, `reload` are the phases of both
loops. Windows here are what queues `Mapped`, `Unmapped` and `MetadataChanged`:
a commit that ends a handshake queues both the first and the last, a title at
any time the last. They are named directly: `push_metadata_for` goes through
`surface_key` (`crates/wm-backend-wayland/src/lib.rs:981-1001`), so that what is said
of metadata here assumes distinct protocol ids, as `nested` does. The history variable
`news` collects the windows of which there is something new for the rules since the
last iteration's events were applied.

## What TLC checks

| Run | Instance | Shows |
| --- | --- | --- |
| `scene_damage` | 3 windows, 3 rectangles of a 3x2 grid (two overlap, one is apart), 6 changes | order exact; `take_damage` covers every stale point at any time it is called |
| `core` | 2 workspaces, 2 layouts, 2 windows, 2 rectangles, all 9 saved geometries | type, order, no leftovers, scene = saved geometry, `set_order` never refuses a provider; inactive workspaces keep layout, places, paint order and focus of what stays mapped |
| `xdg` | 2 toplevels, 2 sizes, 6 serials, timeout 2 | ledger and states agree; refinement of the handshake |
| `nested` | 2 clients, 2 window ids, 2 rectangles, 2 unanswered configures per client, 3 events per window and iteration | whenever a frame is painted, core, server and clients agree; a live toplevel keeps its window |
| `nested_answers` | the same with 1 rectangle and 2 events per window, fairness | a client that keeps answering is managed; the server implements the handshake towards its clients |
| `configuration` | 2 layouts, 2 modes, 2 chords; 6 texts of `config.lua` (3 good, 1 whose bindings and 1 whose default layout are refused, 1 that fails), 3 provider texts, any initial files, 2 edits | what the runtime reports is what it runs; working providers survive broken files; a held chord survives no reload; visible edits are loaded and applied |
| `session_services` | 2 processes, 2 defaults, 2 clients of which one waits for as long as it takes, 1 window with 2 kinds of metadata, 2 modes, 1 chord, 2 layouts of which one is configured, 4 rules, all 4 hooks with a quota of 3, 2 events per iteration | the files and the socket of a root belong to one process at a time, unclean ends are reported, user files survive but for one instant (below); requests are handled once and answered truthfully; hooks follow the windows, rules act on news of them and on nothing else; a patient client is answered |
| `partial_reload` | the `configuration` instance | a refused generation is half in force |
| `nested_focus`, `nested_null_buffer`, `nested_shared_key`, `nested_stale_size` | the same instance | four disagreements between code and documentation, below |

Each property of a passing run has a mutant: an operator marked `Mutant:` next to
the definition it replaces, a plausible bug that breaks that property.

Why the bounds are enough. Two windows give every relation between a window and
another one (order, focus, superseded request, retry of one while the other
answers); three give the scene an order with a middle. Two rectangles
distinguish moved from unmoved. Six serials let a window's request be superseded,
expire, be answered late and be asked again while another window's is pending.
Two unanswered configures let a client answer the older one. Serials are
numbered afresh from those not in flight, so a session is not bounded in length.
Window ids are not reused by the code, so a `nested` run has two toplevels in its
lifetime (a destroyed one followed by another, or two at a time). `MaxEvents` bounds one
dispatch: map, unmap and destroy of one window in one iteration fit in it. One
press and one host resize per iteration: both only append an event.

Two edits put one between any two accesses of a reload and let another follow it;
every pair of texts and files is an initial state or one edit away from one. A
third edit meets a load in the same states, since nothing but the stamps of the
files and of the candidate is remembered of the edits before.

Fairness of `Configuration`: `WF(Reload)`, the loop polls the files in every
iteration and evaluation is limited in instructions; users owe nothing.

Fairness of `NestedSession` (`FairSpec`). `WF(Loop)`: the loop polls, sleeps at most one frame and
never blocks on a client, so an iteration ends; the clients' steps of one
dispatch are finite in number. `Answers(s)`, strong fairness of one client's acknowledgement of its newest configure
and of the commit after it: the client is alive, and answers within the two
seconds again and again. Without it the claim is false and ought to be, since
each retry invalidates the request before it: a client that always needs longer
than `CONFIGURE_TIMEOUT` is never mapped. The other client gets no fairness.

The instance of `session_services`. Two processes are enough for the properties of
`SessionProcess`, which are about a process and another one, or about a process
and the one before it; two defaults put a whole file before or after a torn one. Those
interleavings and the ones of clients and windows hardly meet, and their product
is large, so `Scope` in `MCSessionServices` lets clients connect and windows
appear only while the second process is off and the defaults are whole: a
session that is being used, from its start to any of its ends. Processes,
crashes and edits without a client or a window are explored in full, and the
theorems below carry both halves over to every instance without `Scope`. A quota
of 3 is used up by the startup hook and two events. Two clients give a request
behind another one that is slow, silent or gone; two events are a map with its
metadata, or an unmap and a new title. The rule specification is compared with
`Evaluate` on all lists of up to four rules of two priorities (an assumption TLC
evaluates).

Fairness of `SessionServices`: `WF(Loop)`, the running loop goes on: `poll` does
not wait for a connection, and reads with a deadline. The deadline is one per
`read` call (`crates/wm-ipc/src/lib.rs:259`), so a client that trickles bytes
holds the loop for longer than 100 ms, up to 64 KiB times 100 ms, but not for ever. `WF` of
`CloseListener`: a process whose loop has returned or panicked drops its
locals. Nobody has to start, and a process may die at any point; then the
connection ends, which counts as an answer.

### Disagreements found

* `nested_focus`: every reconfigured toplevel goes back through
  `AwaitingConfigure`, so its first commit at the new size runs the branch for
  first maps and takes the keyboard (`resume.md:11` says initial maps and
  presses).
* `nested_null_buffer`: for the same reason a null buffer committed while a resize
  is unanswered is ignored, and the toplevel stays on screen (`resume.md:9`).
* `nested_shared_key`: protocol ids are per client, the `windows` table is not
  (`crates/wm-types/src/lib.rs:9` calls the identifier stable).
* `nested_stale_size`: the painted rectangle is updated before the early return
  of `reconfigure_mapped_toplevel`, so a second layout change is never sent
  (`resume.md:9`).

* `partial_reload`: `synchronize` replaces the providers before the bindings can
  be refused; the new layouts are then in use with the old default layout, whose
  provider is gone, until another reload
  (`docs/decisions/0004-configuration-policy.md:11`: one generation is committed,
  an invalid candidate preserves the last one).

The `configuration` run also contains, and its properties except, the edit made
between evaluation and fingerprinting: its fingerprint is taken for that of the
version loaded, and it is not loaded until the file changes again.
`IMPLEMENTATION_PLAN.md:205` plans for it.

Also met, and left without a run of their own, the third because the exception in
`UserFilesAreKept` says as much, the others because what the documents say is not
a property of one state or step of the models:

* `acquire_instance_lock` is documented to fail when "another Horyzond instance
  already uses this config root" (`crates/wm-config/src/lib.rs:52-53`). It fails
  whenever the lock file exists, and every error exit after line 32 of `main`
  leaves it: one invalid configuration, and no start succeeds until the user
  deletes the file (`RemoveStaleLock` is the only way on in the model).
* `IMPLEMENTATION_PLAN.md` (section 4.3) plans to "complete an interrupted
  first-run installation on the next startup". A start that dies while writing a
  default leaves a partial file that every later start preserves
  (`TornOnlyByDeath` allows exactly this one case).
* The default files are installed by code that "creates absent files and never
  replaces user configuration" (`crates/wm-config/src/lib.rs:3-4`, and
  `IMPLEMENTATION_PLAN.md:14`: "Never overwrite user edits during normal startup").
  `write_if_absent` creates a file and writes it afterwards (lines 344-352). Text that
  the user saves into the same file in between can be overwritten (`OverwriteEdit`),
  and a write that fails removes what is at the path by then, the user's new file
  too (`WriteFails`). `UserFilesAreKept` names this instant as its one exception.
* `config.reload` over the socket runs no `on_reload` hook; only the loop's own
  poll does (`ReloadConfig`, `PollReload`).
* Nothing creates a second workspace, so `workspace.switch` can only succeed for
  the active one, and runs the hook then.

`nested` uses one protocol id per surface, as if all were of one client, so that its
properties are not lost in the third disagreement; the theorems about
`NestedSession` assume the same (`DistinctIds`), but for the two about the coordinator.

## What is proved

For every value of the constants that satisfies the assumptions named in the
modules:

* `SceneTheorems`: lemmas, method by method, that `SceneState` and `PaintOrder`
  are preserved. The one that is not obvious is `set_order`: an order of the
  right length without repeats or strangers is a permutation of the scene's
  windows (a pigeonhole argument on cardinalities).
* `SceneDamageTheorems`: the paint order is exact, and `DamageCoversChanges`. The last rests on `Covered`: every point whose picture
  has changed since the last frame lies in one of finitely many regions, those the
  operations since reported. Each operation is shown to be local to what it reports
  (`SetWindowIsLocal`, `RemoveWindowIsLocal`, `RaiseWindowIsLocal`: the topmost
  window at any other point stays), and the coalesced rectangle covers its parts
  because finite sets of numbers have least and greatest elements, obtained from
  the strict-subset ordering being well founded.
* `CoreStateTheorems`: all six properties of the `core` run. Its `IInv` proves
  `TypeOK`, `ScenesAreOrdered`, `OnlyMappedWindows` and `SceneIsSavedGeometry`
  together, one lemma per action: a layout run replaces the saved geometry by
  its answer for the mapped windows but only overlays the scene, so the two stay
  equal only because the scene holds mapped windows only; and the order stays
  exact only because what is overlaid and listed already is exact.
  `ProviderOrderIsAccepted` follows from it. `InactiveWorkspacesAreLeftAlone` rests on
  the two ways in which a scene can lose or gain a window: removing one keeps the
  order of the others (`WithoutKeepsOrder`, `UnmapKeepsOthers`), and everything else
  names the active workspace.
* `XdgProtocolTheorems`: `TypeOK`, ledger and states agree, and `Spec => Handshake!Spec`.
  The invariant adds what the history variables say in each state;
  `StepRefines` shows each method to be a step of the handshake or a stutter.
  `MappedContentIsAgreed` is what it comes to: what is mapped answers the request
  that stands.

* `ConfigurationTheorems`: all five safety properties of the `configuration` run.
  `RuntimeHoldsItsGeneration` is not inductive: the invariant adds that a
  generation being taken over is not the runtime's yet (`CommittedIsPending`,
  else a refusal halfway would break it) and that every provider in use is
  validated even when its generation was refused (`ProvidersValidated`, else a
  retained provider could be a bad one).

* `NestedSessionTheorems`: all six properties of the `nested` run, for any number of
  clients, windows, geometries and bounds, from one assumption: no two surfaces
  share a protocol id (`DistinctIds`; `nested_shared_key` shows what happens
  without it). None of the six is inductive. `ServerInv` ties the tables together:
  each live toplevel has a window of its own, a request in the ledger is the last
  configure in its client's queue, a client that has answered has an empty queue,
  and a serial is always free because queues are bounded. `EventsInv` is about the
  events between server and core. Whether the core will manage a window, or have
  it focused, is decided by the last event about it (`Wins`); so appending an event
  and handling the oldest one each change the outcome in one way only
  (`AppendQueue`, `PopQueue`), and that outcome is tied to the lifecycle state and
  to the keyboard. `CoreInv` takes the coordinator's invariant from
  `CoreStateTheorems` and adds that outside a layout run every managed window is
  placed, and `PhaseInv` says which part of an iteration finds the queue drained
  and the painted windows those of the scene. The core's part is instantiated with
  its theorems as `CoreT`; the `Same..` lemmas say it is the copy `NestedSession`
  itself uses.
* Two refinements (same module). `ServerImplementsHandshake`: under `ServerInv` and
  the fact that what awaits an answer has its request in the ledger
  (`RequestStands`), a queue is empty exactly when the lifecycle is past the
  handshake (`SettledMeans`); the abstract variables are then functions of the
  lifecycle states, and `StatesStep` lists what a step can do to those. It also
  follows that a mapped toplevel's client owes no answer
  (`MappedClientsOweNothing`). `ServerImplementsCore`: the server drives the
  coordinator through its methods only, which needs no more than a queue that
  names windows (`QueueTyped`) and holds with shared protocol ids as well, so what
  `CoreStateTheorems` proves of the coordinator holds inside the server
  (`ServerKeepsCore`) even where the server's own tables go wrong.

* `SessionProcessTheorems`: the five properties of `SessionProcess` for any set of
  processes and any number of defaults. `OneInstance` alone is not inductive:
  `SessionInv` adds that only the process at a step works on the files of that
  step, that a process that listens owns the socket file, and how marker, log
  and the history of endings agree at each step of a start, which is what the
  report of an unclean end rests on.
* `SessionServicesTheorems`: `Spec => SessionSpec`, a refinement: whatever clients,
  windows and the coordinator do, the processes behave as in `SessionProcess`, so
  the five properties carry over (`ServicesKeepSession`). `AnswersHold`,
  `FailedRequestsHold`, `HooksHold` and `RulesHold` are the properties of the
  composition, for any number of clients, windows, layouts, rules and hooks.
  `AnswersInv` relates a client's state, its connection's place (queued, being
  read, gone) and what has been executed: a connection is in one place only, and
  not at all once its request was handled. `WindowsInv`: no hook is active between
  steps, whatever the hook's script did, and what is queued are events of windows.
* `CurrentMetadataHolds` (same module) is `RulesSeeCurrentMetadata`, which says
  nothing of the queue and so is far from inductive: titles are announced before
  a window is mapped and after it is unmapped, when the core drops them.
  `MetadataInv` speaks of the places in the queue. A window in sight has been mapped
  or its last map is still queued, with no unmap after it, and its current title has
  reached the rules or is queued behind that map; a window out of sight has a
  queued unmap after every queued map, so that it ends up forgotten.
* `RulesHold` (same module) is `RulesActOnNews`. `NewsInv`, on top of `MetadataInv`, says
  that core and server agree on a window without news whatever of it is still
  queued: it is managed exactly when it is shown, under its current title, and the
  queue unmaps it nowhere, maps it only if it is shown and says only what is known.
* `TypeCorrect` (same module) is the type invariant of the whole, with `LoopInv`: a
  running process has a phase, and only the phase that reads has a connection. What
  the actions of a rule leave of the services is a fold over a sequence, and the
  library's facts about folds take an operator as a parameter. `FoldExists` says
  that there is a function from the lengths of prefixes to results, by well-founded
  induction over the subsets of `Nat` (`UpTo`), and `DispatchPrefixes` that each
  result has its type.
* `RuleEvaluationHolds`: `Evaluate` returns what `EvaluatesAsSpecified` says for a list
  of rules of any length. That a sorted order exists (`OrderExists`) is the same
  induction: an order of the first n rules and a place for the next one give an
  order of n + 1. That it is `RuleOrder` is counting: it lists every rule once, so
  the rules before its k-th are the first k - 1 (`RuleOrderSorts`). Then the fold
  is followed rule by rule (`EvaluatePrefixes`). TLC evaluates both definitions for
  all lists of up to four rules.

Assumptions worth knowing: windows are finitely many natural numbers and a set
of them can be listed in increasing order (`IdOrderAssumption`, what iterating a
`BTreeSet` does; true of any finite set of numbers, but its proof is an induction
over data); the "none" values are outside their types; `Timeout` and `MaxBehind` are
not zero.

Every invariant and action property of a passing run is thereby a theorem. Only
model-checked: the liveness properties `AnsweringClientIsManaged`,
`ConfigEditsAreLoaded`, `ProviderEditsAreApplied` and `PatientClientsAreAnswered`,
since what rests on fairness is out of the prover's reach.

## What is not modelled

Rendering, fonts, cursors, popups and pointer motion; in `NestedSession` titles and
rules, whose only effect on its state is a layout run, which `Services` may do in
the same iteration; Lua evaluation; log and crash report contents, directories
and permissions; answers of the socket that are too large for a frame, a
listener whose backlog is full, and `Subscriptions`, which nothing uses; the
headless backend, a test double whose events only tests inject; the frame
ledger, one fixed sequence of calls per frame that nothing reads (its `submit` is inside
a `debug_assert!`, so release builds leave it out); `horyctl`'s
parsing and offline commands; `f64` arithmetic of cameras and
rectangles (a non-finite rectangle is rejected where it enters). Serials do not
overflow: `u64` counters saturate after 2^64 requests, and the 32-bit protocol
serials are taken as unique while one of them is in flight.

## Plan

1. Done: `Scene`, `SceneDamage`, `CoreState`, `XdgLifecycle`, `XdgHandshake`,
   `XdgProtocol`, `NestedSession`, `ClientSizes`, and their five theorem modules.
2. Done: `Configuration` and its theorems.
3. Done: `SessionProcess`, `ServiceRequests`, `RuleEvaluation` and `SessionServices`
   with their theorems: the planned instance lock and exchange, in one composition.
4. Done: every invariant and action property of a passing run is a theorem; the
   nested server refines the handshake and the coordinator.
5. Left to prove: an abstract specification of one request's exchange, with
   `SessionServices` as its refinement; that `ClientSizes` adds nothing but history.
6. Left to model: popups of the nested server, whose table shares the protocol ids of
   `surface_key`; `FrameLedger`, if anything comes to depend on it.
