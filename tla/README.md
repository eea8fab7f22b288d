# A verification development for kube-aiops

kube-aiops installs K8sGPT into a Kubernetes cluster with two shell scripts,
serves its findings through a read-only HTTP API written in Go, correlates a
finding with evidence from other sources, and shows all this in a small browser
portal. This directory holds TLA+ models of the parts of it where order,
failure and concurrency decide whether it is right, TLC configurations that
check them on small instances, and proofs for TLAPS of what can be proved for
every instance. Paths below are relative to `src/`.

## 1. The system and its parts

| Part | State it keeps | Operations | Talks to |
| --- | --- | --- | --- |
| Correlation core (`internal/correlation`) | per request: a goroutine per source, a goroutine per adapter call, a channel of one answer per call, a channel of results, the slice `ordered` | `Correlate`, `collectSource` | HTTP handler above, adapters (`SignalSource`) below |
| Lifecycle lease (`scripts/lifecycle-common.sh`) | the Lease object; per script `LC_LOCK_HELD`, heartbeat subshell, its failure flag | `lc_acquire_lock`, `lc_renew_lock`, heartbeat, `lc_assert_lock_held`, `lc_release_lock`, EXIT trap | API server; the scripts |
| `install.sh` | Helm release, RBAC, service account, network policy, K8sGPT CR; snapshot directory | survey, `helm upgrade --install --atomic`, apply, rollout, rollback | lease, cluster |
| `uninstall.sh` | the same objects, secret, CRDs, namespace | ordered deletes with waits, purges, residue check | lease, cluster |
| Policy authorizer (`internal/authorization`) | an immutable policy | `NewPolicyAuthorizer`, `Authorize` | HTTP pipeline |
| HTTP pipeline (`internal/httpapi`, `internal/audit`) | per request: principal, recorder, response | audit, authentication, authorization, handlers | authorizer, findings, correlator, sanitizer, sink |
| Audit event (`internal/audit`, `internal/httpapi/request_context.go`, `internal/identity`) | per request: IDs, the recorder | metadata, `SetPrincipal`, `SetScope`, `Event`, `Validate` | pipeline, sink |
| Findings (`internal/kubernetes/findings.go`, `internal/finding`) | none between pages; a cursor in the client's hands | `ListFindings`, the listing in chunks, cursor encoding and decoding | Kubernetes API |
| Response sanitizer (`internal/sanitizer`) | none | text rules, bounds of a page, structural checks of bundles | handlers |
| Events adapter (`internal/kubernetes/events.go`) | none | one bounded listing per query | Kubernetes API, correlation core |
| Portal (`web/src/app.ts`) | hash, `renderGeneration`, caches, screen | `route`, its continuations | API |
| The server process (`cmd/api`, `internal/config`, `internal/security`) | configuration, bundle, listener, requests under way | load, build or refuse to start, serve, shut down | everything |

What is hard about each, and what makes it correct:

- **Correlation.** An answer races the deadline; adapters may ignore their
  context, answer late, answer never, overrun the budget, label signals with
  another source, or give signals and an error together. Correct means: always
  one reply; one verdict per source in the order of the sources; the verdict is
  the truth about the adapter; no failure looks like an empty success; no
  goroutine stays behind.
- **Lease.** Two scripts on two machines, two clocks, writes that are lost,
  applied without a reply or applied late, a heartbeat that outlives its shell,
  signals. Correct means mutual exclusion of blocks of mutations, nothing
  stolen, a clean hand-over.
- **Install and uninstall.** Every call may fail, with or without effect, and the
  lock may be lost between two calls; other systems may use the same names.
  Correct means that "rolled back" and "uninstalled" are said only when they are
  true, that the CR goes before the operator that serves its finalizer, that the
  release and the cluster-wide objects are changed only after the checks of their
  identity, and that nothing changes without the lock.
- **Authorizer.** An order-dependent walk must give an order-independent
  decision.
- **Pipeline.** The finding is read, authorized and used at different moments.
  Correct means that data leave only on a decision about their own scope, that a
  missing part of the security set-up refuses, that a refusal is final, and that
  the audit event says what the client got.
- **Audit event.** It is validated last, with bounds of its own, and dropped when
  it fails. Correct means that nothing the other packages let into it is refused.
- **Pages.** The listing shifts between two pages and is read in chunks. A page
  is also refused as a whole when its texts are too long together.
- **Events.** Their times come from recorders with different clocks, some with
  fractions of a second, and are clamped, cut to seconds, sorted and cut off
  before a sanitizer looks at the whole. Correct means that the answer stays
  within its window, holds the newest, and is not refused for good events.
- **Server process.** It must not serve unguarded, whatever the environment, and
  must end in time, whatever its requests do.
- **Portal.** Asynchronous runs overlap.

## 2. Modules and how they correspond to the code

`PROJECT.json` ("map") names the source lines of every definition.

**`Correlation`** models one call of `Correlate`. A source is its index in
`calls`. `collector[s]` is the worker of `collectSource`, `adapter[s]` the
goroutine it starts, `buffered[s]` the channel `callResults`, `results` the
result channel and `ordered` the slice. A signal is abstracted to the source it
is labelled with. `TakeAnswer` and `TakeDeadline` are the two branches of the
`select`; both may be enabled. `CancelParent` is the client that goes away.
`CorrelationPromise` is the abstract specification: sources settle once each, in
any order, with a state that fits their number of signals, and the reply is made
of exactly those verdicts. `Correlation!Promise` instantiates it under a
refinement mapping.

**`LifecycleLease`** models the Lease. `TakeDate`, `Create`, `Read`, `Patch` are
the loop of `lc_acquire_lock`; `HeartbeatRead`, `HeartbeatPatch` the renewals;
`StartBlock`/`EndBlock` the commands behind one `lc_assert_lock_held`;
`Leave`, `ReleasePatch` the EXIT trap; `Terminate` and `Kill` signals to the
shell. Every write may fail, may succeed without a reply, or may become a
*stray* that reaches the API server later (`StrayArrives`). `now` is true time,
`Clock(p)` what operation p reads. `FencedLock` is what the scripts expect of
it: the lock never leaves its owner during a block.

**`Lifecycle`** models the two scripts against that abstract lock: objects carry
whose version they are, every call succeeds, fails, or fails after its effect.
`Interrupt` is a signal to a script and the call it waits for: the trap runs with
status 0 and skips the rollback; a rollback that is under way dies, and keeps lock
and snapshot. `HelmUpgrade` may leave a broken release and any of its chart's
objects behind when the undo of `--atomic` fails as well. A server-side apply or a
`helm rollback` over a newer version gives back what was recorded, but may keep
fields that others own: such an object is "mixed". Two others take part.
`Intrude` is another system: what the constant `Contested` names it may create or
rewrite at any moment, and any object may be "foreign" from the start; the scripts
check only release, cluster role and binding, once, and overwrite or delete the rest.
`DeleteNamespace` only begins a deletion; `Collect` is the namespace controller, which
removes what the Namespace holds in any order, the Lease among it, while
`AwaitNamespace` waits or runs out of time. From `deletion = "begun"` on nothing new is
created in the Namespace (`CanHold`, `CanRecord`); once the Lease is gone nobody owns
the lock (`LockGone`).
The lease model and this one meet in `FencedLock`: `LifecycleLease` implements
it under `SafeMargin`, and `Lifecycle` lets `owner` change only as it allows, as
long as the Lease exists.

**`PolicyAuthorizer`** models validation and the walk; `DecidesByMeaning` compares
it with `Permitted`, a declarative reading of a policy.

**`FindingPages`** models a client that follows `next_cursor` while Results are
created, deleted and changed. `Ask` fixes the snapshot a listing shows, each
`Chunk` is one request of `listCurrentResults`, the last of them serves the page,
and `ChunkFails` is a failed request, an expired continue token or a chunk too
large to be decoded. The Results go on changing between two chunks.

**`EventSignals`** models one correlation as the server is shipped, with
Kubernetes events as the only source: recorders (`Emit`, `Repeat`), expiry, the
window of `Correlate` (`Query`), the request, fetch limit, clamping, order and cut
of `Client.Events` (`List`, `Signal`, `Signals`) and the sanitizer (`Safe`). Time
is counted in half seconds, the coarsest unit in which "whole seconds" and
"fractions" differ. The other sources and the deadline are in `Correlation`,
where an adapter may answer anything.

**`PageSanitizer`** models `FindingPage` item by item. A text is its length after
redaction; a cut may fall anywhere within one character before the bound.

**`SanitizedAnswers`** puts these two side by side as the two reads whose answer the
sanitizer may refuse as a whole: a request takes one of the routes.

**`AuditEvent`** models one request of a protected route, in a server with all
its security components, as far as it fills the audit event:
`Metadata`, `Authenticate`, `Authorize`, `Redirect`, `Handle`, `Record`. A text is its length
and whether it may be an ID, is clean, or is anything else. Each package keeps
its own bound; the assumption `BoundsAgree` is what the constants of the code
satisfy (128 = 128, 256 = 256, 64 = 64, 253 = 253).

**`ApiServer`** models the process: `Load` and `Build` for every environment and
bundle, `Listen`, `Signal`, `StartShutdown`, `ShutdownDone`, `ShutdownFails`, and
of every connection whether its request was served, cut off or never begun. One
unit of time is 5 s: the deadline of `Shutdown` is 2, the grace period of
`deploy/api/deployment.yaml` is 3.

**`AuditedServer`** composes the two: the middlewares of the request `Watched` take
their steps between those of the process, which may be told to stop, fail to
listen or be killed before any of them. The two share the moments at which a
request may be answered (`MayAnswer`: not before its event was handed over) and
may panic (`MayPanic`: not afterwards).

**`RequestPipeline`** models one request, from any of the routes, in any
configuration of authenticator, authorizer and sink, while the finding behind it
is rewritten or deleted. `PolicyAuthorizer` is represented by the set of scopes
it permits. `form` is how the path is written: the mux answers a path that is not
clean with a redirect to the clean one, whose pattern the audit middleware is given
all the same, and whether authentication comes first depends on the path as it is
written (`RequiresAuthentication`). So a redirect may be audited as a success
without a principal, a scope or data, which is what `auditOutcomeForStatus` makes of
every status from 200 to 399.

**`Portal`** models overlapping runs of `route`. Its `PortalInit`, `PortalNext`,
`PortalTypeOK` carry the name of the module because `FindingViewsProofs` is about
pages and screens together.

The `MC...` modules only give constants their values. An operator introduced by
a comment "Fault:" is a plausible bug next to the definition it replaces; no
specification uses it, and `PROJECT.json` ("mutants") says which property
notices it.

## 3. Runs

| Run | Question | Bounds, and why they are enough |
| --- | --- | --- |
| `MCCorrelation` | Is the bundle truthful, complete, ordered, acceptable to the sanitizer, final; is there always a reply, do adapter goroutines end, is the promise implemented? | Two sources, budget 1, answers of up to two signals with any labels and any error: every branch of the classification, the truncation by one, and every pair of sources in every combination of outcomes. |
| `MCLeaseExclusive` | Is there mutual exclusion if blocks are short? | Lease of 4, lag 1, block 1, clock skew 1: just inside the margin; time 6 lets a lease expire and be taken again; one stray; three writes of the Lease (taken, taken over, renewed or given back). |
| `MCLeaseHandover` | What holds whatever the signals and however long the blocks? | Lease of 2, block 2, TERM and KILL; four writes, so that a lost lease can be taken over, given back and reached by a late write of its former holder. |
| `MCLeaseTerminate` | Does exclusion survive SIGTERM? **No.** | Short blocks, no skew, no strays: nothing but the signal. |
| `MCLifecycle` | Do the scripts keep their promises? | One install and one uninstall, from an empty cluster and from a damaged installation (cluster role gone, another system's network policy) with four states of the release, with and without Namespace and Secret; another system that writes the cluster role at any moment; a signal at any step; every purge or none. Each script meets every kind of object (absent, its own, an older one, a foreign one, one that becomes foreign under its hands) in each of its calls; a third script could only take the lock that these two hand each other already. 2.7 million states. |
| `MCLifecyclePurge` | Does the lock cover the whole uninstall? **No.** | The same. |
| `MCPolicyAuthorizer` | Does the walk decide by meaning? | All pairs out of 82 rules, and triples of the ten that differ in effect and scope only; an early exit needs two rules, an order effect at most three. |
| `MCFindingPages` | Do pages repeat or skip? | Four names, pages of two, three seconds, a scan limit of three, chunks of two: two pages, listings of two chunks, a cursor whose finding was deleted, ties in time, one Result too many. |
| `MCSanitizedAnswers` | Is a correlation within its window, the newest, and served; do published pages fit, are small ones served? | Three events of which two are fetched and one is shown, so that every cut happens; windows of one second and of one and a half; one and a half seconds of time and half a second of skew, so that an event may span the window, end on its edge, tie in seconds and differ in halves. Pages of up to four findings where three are the limit, texts that are empty, between the two bounds and over both, a page that holds two findings in full and not three; characters of two bytes. |
| `MCAuditedServer` | Is the server guarded, does it end in time and say so, is any audit event invalid or missing? | All environments and bundles, two connections, one of them watched, the other idle, served or cut meanwhile; lengths 0 to 3 and bounds 1 and 2: below, at and above each of them; latencies outside the range on both sides. |
| `MCRequestPipeline` | Do data leave only as permitted, does the audit event tell the truth? | Two namespaces (the one decided on, another), the cluster scope, all scopes, an unknown cluster, a malformed value; all eight configurations; paths that are clean, that are not and begin with the API's prefix, and that are not and hide it. |
| `MCPortal` | Does the screen follow the hash? | Two lists, a finding and a malformed hash; three runs, so that two can be outdated in either order. |

Runs in which deadlock is not checked are of systems that stop: scripts end,
requests end, users stop. `Correlation` has an explicit last step (`AllExited`)
and is checked for deadlock.

Two promises about one matter are often one property, a conjunction of named
parts. `ReleasedForGood` (the lease) is `CleanRelease` (what was given back is free
and nothing renews it) and `UnreleasedAges`; `ChangesHandsOnce` is `NoTheft` and
`LostForGood`. `UninstallHonest` (the scripts) is `CrGoneBeforeOperator` and
`NoResidue`; `CheckedUnderLock` is `OnlyAfterCheck` and `LockedMutation`.
`GuardedReads` (the pipeline) is `OnlyPermittedData` and `FailsClosed`;
`ScreenMovesOn` (the portal) is `NeverBack` and `SettledOnce`; `BestOfWindow` (the
events) is `NewestServed` and `WithinWindow`; `StopsInTime` (the server) is
`EndsItself` and `StopsWhenTold`. `TypeOK` of a composition joins those of its
parts. The parts are stated, each with its comment, above the conjunction.

**Fairness.** `Correlation`: the Go scheduler runs every goroutine that can run
and timers fire; nothing is assumed of adapters (`AdapterReturns` is never
fair) or of the client. `Portal`: the browser delivers events, runs
continuations and ends fetches; nothing makes a user do anything. `AuditedServer`: the
main goroutine runs (`Main`) and time passes (`Tick`), the timer of `Shutdown`
among it; nothing is assumed of handlers, which may hang in a call to an API
server that does not answer, or of clients and listener. Its `Tick` waits for
the main goroutine while that is enabled: taking up a signal and ending at the
deadline take no time in units of 5 s. The other specifications state no
fairness, and no liveness is claimed of them.

**Timing assumptions.** `LifecycleLease!InTime` bounds what one renewal and one
block may take (`RenewLag`, `BlockMax`). The scripts do not enforce the second:
a rollback may take longer (section 4). `SafeMargin` is the inequality under
which exclusion holds: block + lag + difference of clocks < duration.

## 4. Where the documents and the code disagree

Two disagreements are shown by runs that find a violation:

1. **SIGTERM releases the lock under a running call** (`MCLeaseTerminate`).
   `trap 'on_exit $?' EXIT` runs at once with status 0 when the shell is
   terminated; helm or kubectl goes on. The comment above `lc_acquire_lock`
   promises mutual exclusion. For the same reason the rollback is skipped.
2. **Purging the namespace happens without the lock** (`MCLifecyclePurge`),
   although `README.md` says that the Lease covers the whole lifecycle.

The others are behind the conditions of properties that hold:

3. **A half-done `helm --atomic` is not undone.** When Helm's own undo fails, the
   script believes that nothing was upgraded, leaves the broken release and what its
   chart created, and deletes the snapshot, although `docs/phase-1.1-acceptance.md`
   (line 143) says that a failed new install restores it. `Lifecycle` has this
   failure; of installs that fail before `HELM_UPGRADE_SUCCEEDED` `RollbackHonest`
   says only that nothing outside the chart has changed.
4. **A rollback may outlive the lease.** `install.sh` checks the lock once and then
   makes up to six calls of five minutes each, and a heartbeat ends for good at its
   first failure; the default lease is 1800 s. `Exclusive` holds in
   `MCLeaseExclusive` because `BlockMax` is within the margin; with
   `BlockMax = Duration` it fails.
5. **A signal skips the rollback.** With only EXIT trapped the status in the trap is
   0; release and objects stay, the snapshot goes. The README says that a first
   install is undone when a later step fails. Of an install that a signal ended
   `RollbackHonest` says only that what was found outside the chart is still there.
6. **One inverted event hides all evidence.** First and last time of an event come
   from different fields and are not compared; for an event that a recorder
   with a slower clock repeated the sanitizer refuses the bundle with 502, where the
   design has 200 for a source that succeeds. `GoodEventsServed` speaks only of
   events that do not end before they begin.
7. **Windows with fractions of a second are refused**, always below one second and
   often above, although `NewService` names 1ns as the least; the shipped default is
   not affected. `GoodEventsServed` speaks only of whole seconds.
8. **A cut answer is called available.** The adapter cuts before the service
   counts, so the state "partial", which `docs/security.md` asks for, cannot be
   reached with events. `NewestServed` says what such an answer holds, as long as no
   more events exist than the adapter fetches.
9. **Foreign objects are protected once, and not all of them.** The scripts check
   release, cluster role and binding before their first change and never again, and
   the service account, the network policy and the custom resource not at all.
   `CheckedUnderLock` says that the checks come first and under the same lock, and no
   more. The acceptance table speaks of the identity checks, which exist.
10. **A redirect is recorded as a successful read.** A path that is not clean is
   audited under its protected route, without principal or scope, as a success.
   `TruthfulEvent` has it as a case of its own; no document says otherwise.

## 5. What is proved

Proofs are in modules of their own and hold for every value of the constants
that satisfies the named assumptions. Every invariant and every action property
of a passing run is stated by a theorem; what is left to TLC is at the end.

### Correlation

`CorrelationProofs` (from `CorrelationAssumption`: at least one source, a positive
budget, answers of the right type):

- `TypeCorrect`, `Truthful`: `[]TypeOK` and `[]TruthfulSources`.
- `RefinesPromise`: every behaviour of `SafeSpec` is one of `Promise!SafeSpec`.

Neither is inductive by itself. The state of a source is read off a result that
is first in the channel, then in the slice, so the invariant `IInv` has to say
that a result is in exactly one of these places, under its own index, and only
when its collector is done (`InChannel`, `InSlice`, `NothingLost`), that the
counter of receives is the number of filled slots, which is what allows
`ReturnReply` to conclude that all sources settled; that a result says whether its
source was configured (`Labelled`); and how adapter, buffer and answer go
together (`AdapterFacts`), which makes the answer in the buffer the answer the
verdict is about. `Inductive` proves `IInv`; `Truthful` adds that answers do not
change once given and that contexts stay done.

The second half of the module is about what the caller gets:

- `SettledForGood` (`SettledIsFinal`): no step removes or changes a result that was
  reported. It follows from `IInv` alone: a collector settles only before it is done.
- `OneResult` (`OneResultEach`): a reply comes from exactly one result per source.
- `NoEmptySuccess` (`NoFakeEmptySuccess`): failed adapters and adapters that were
  never heard are not turned into a success without signals.
- `AcceptedBySanitizer` (`BundlePassesSanitizer`): the sanitizer never refuses what
  the service assembles; the bound on a source's signals is a counting argument
  on the places in the bundle that carry the source's name.

Its invariant `ReplyInv` adds to `IInv` that every kept signal was relabelled and
that a configured source which is not unavailable has an adapter that ended and
gave something usable (`AllSourced`), and that a reply is given last and is what
`Assemble` makes of the slice (`RepliedLast`).

### The lifecycle lease

`LifecycleLeaseProofs`, for any number of operations, clocks, lost replies and
late writes. Without any assumption on timing (`LeaseAssumption` only):

- `TypeCorrect`; `ReleaseIsForGood` (`ReleasedForGood`); `HandedOverOnce`
  (`ChangesHandsOnce`).

Under `SafeMargin` (no shell is terminated; block + lag + difference of clocks is
below the duration), which the scripts do not enforce and section 4 is about:

- `BlocksExclude` (`Exclusive`): two operations never change the cluster at once.
- `LeaseIsAFencedLock` (`ImplementsFencedLock`): every step of lease, heartbeats and
  checks is a step of `FencedLock` or a stutter. This is what entitles `Lifecycle`
  to work with the abstract lock.

`Exclusive` only speaks of who is busy. The danger is in what is under way:
requests whose sender waits for them, and strays nobody waits for. The invariant
says of all of them what they could still do to the lease.

- `AllSound`: no pending write knows a version later than the lease's or a date
  later than its sender's clock, and one that would take the lease at its present
  version comes from an operation on whose clock the lease was expired.
- `StraysFit`, `Left`: which strays an operation may have left at each of its
  steps, and what one that releases leaves behind. A stray acquisition of an
  operation that already holds the lease knows an old version and is refused.
- `Timely`: the timing assumptions in terms of the dates operations remember.
- `Fenced` (the step to `SafeMargin`): a busy operation holds the lease, the lease's
  date is at most the lag older than its check, and nothing that is still to
  arrive dates it further back. So on no clock is the lease expired before the block
  is over.

### The scripts

`LifecycleProofs` (from `LifecycleAssumption`, which only says what values the
constants take), for any number of installs and uninstalls, any cluster they find,
foreign objects included, and anything that another system contests:

- `TypeCorrect`.
- `RollbackIsHonest` (`RollbackHonest`), about an install that gives the lock back,
  with its Lease in place, and keeps no snapshot. If it failed after its
  `helm upgrade` had succeeded, release and objects are as found, up to the fields a
  merge keeps and what another system made of them since. If it failed in
  `helm upgrade` or before, only the release and the chart's objects can differ:
  this is all that holds there (section 4, item 3). If it was interrupted, what was
  found outside the chart is there, perhaps in the new version.
- `UninstallIsHonest` (`UninstallHonest`): the CR goes before its operator, and an
  uninstall that still owns the lock at its last check left nothing of its own.
- `OnlyCheckedUnderLock` (`CheckedUnderLock`): a script changes the release and the
  cluster-wide objects only after its own checks found none of them foreign, and
  anything only while it owns the lock or after the Lease went with its Namespace.

The invariant is `LifecycleInv`, five conjuncts that are proved one on the other.
`Base` is the types, what each place of a script implies (`Placed`: a loop that is
not over has an object to visit, only installs roll back), and the lock
(`LockKept`: it stays with its owner during a block until its Lease is gone).
`Prepared` says what a script has behind it at each place: its checks, its snapshot,
its Helm step. The other three say how far a script has come that *holds* the lock:
an install on its way forward (`Installed`), its rollback (`Restored`: what the loop
has visited is as recorded, if no failure was counted), an uninstall (`Removed`:
what each of its steps has removed is absent or foreign). They cannot say more,
since somebody else may change everything the moment the lock is lost; that is why
`owner = p` is a premise of each. `LifecycleWorld` shows that neither another system
nor the namespace controller disturbs them: the one only turns things foreign, the
other only removes things from a Namespace that is being deleted, which the premise
`deletion = "none"` excludes for installs.

### The policy authorizer

`PolicyAuthorizerProofs` (from `PolicyAssumption`):

- `TypeCorrect` and `WalkDecidesByMeaning`: for policies of any length the walk
  decides as the declarative reading. The invariant says what the walk knows at
  rule i: no deny before i speaks about the request, and `allowed` tells whether an
  allow before i does.

### The request pipeline

`RequestPipelineProofs` (from `PipelineAssumption`), for any set of namespaces, any
set of permitted scopes and any of the security parts missing:

- `TypeCorrect`, `AlwaysGuardedReads` (`GuardedReads`), `EventsAreTrue`
  (`TruthfulEvent`), `RefusalsAreFinal` (`RefusalIsFinal`).

The order of the middlewares carries the argument, so the invariant says what
each stage may count on: which requests reach it (`Routed`), that a response is
there only behind the handlers (`Answered`), what was resolved and asked
(`Resolved`), and on which permitted scope the stage rests (`Decided`; in
`sanitize` it is the scope of what was *loaded*, which may not be the one first asked
about when a finding was rewritten meanwhile). For the audit event `NotedOutcome`
and `NotedScope` say the same of the recorder: it holds the outcome of exactly the
refusals, and the scope behind the data; a redirect is answered before any of the
layers that would put something into it (`RedirectUnscoped`).

### Findings: pages and screens

`FindingViewsProofs` (from `PagesAssumption`, any names, page size, chunk size and
scan limit):

- `TypeCorrect`, `PagesRepeatNothing` (`NothingTwice`), `PagesMissNothing`
  (`NothingMissed`).

`Aged` says that a name never gets younger: what the client or a listing holds of
it is no younger than what the cluster holds now. Since pages go from new to old,
a finding that was deleted and created again is before the cursor and not
served twice. `Walked` says that every finding that was there all the time is in
the listing and either was served or is behind the cursor. That a page is sorted and
cut at the right place is proved from the number of predecessors of each
finding, so that no induction over sequences is needed.

From `PortalAssumption`, any views, runs and moves:

- `ScreenTypeCorrect` (`PortalTypeOK`), `ScreenNeverGoesBack` (`ScreenMovesOn`).
  The invariant adds that a screen with a result or an error is of a run that is
  over, and that no more events wait than there were moves.

### Answers that the sanitizer may refuse

`SanitizedAnswersProofs` (from `EventAssumption` and `PolicyAssumption`, what
`Policy.Validate` accepts):

- `TypeCorrect`: no scan fetches more than its limit, no answer exceeds its budget,
  no text leaves longer than its bound, the marker of a cut included.
- `SmallPagesAlwaysPass`: the invariant is that the texts counted so far weigh at
  most the number of sanitized findings times what one may weigh (`Share`), so
  the next finding cannot exceed the bound as long as all of them fit in full.
- `PublishedPagesFit` (`PublishedFits`): the running total is the sum of the texts of
  the page. `Summed` says that some function sums up the findings so far and ends
  in the total; a step extends it. That two such functions agree (`OneSum`) is
  shown at the least place where they would differ, which replaces induction.
- `AnswersAreBest` (`BestOfWindow`) and `GoodEventsAreServed` (`GoodEventsServed`). The
  events go on changing after they were listed, so the invariant keeps what the
  answer was made of: the query is of one window (`Asked`), what was fetched is
  what was stored then (`Taken`), and the answer is what `Signals` makes of the two
  (`Settled`). That nothing newer was cut is again an argument on ranks.

Each of the two parts is proved by itself and carries over, since a step of
`SanitizedAnswers` is a step of one of them and leaves the other alone.

### Audit event and server

`AuditedServerProofs` (from `AuditAssumption`, `BoundsAgree`; for the server
`ApiServerAssumption`: the deadline of `Shutdown` is below the grace period, and
`WatchedAssumption`), for any number of connections:

- `TypeCorrect`, `EventsAreValid`: `AuditTypeOK` carries the argument: IDs are given
  from the first step on, principal and scope are set as a whole or not at all, and
  each text is clean and within its own package's bound; `BoundsAgree` turns that
  into the bounds of the event (`UsableIsBounded`, `BuiltEventValid`).
- `ServerEventsAreValid`: every step of the composition is a step of the audit event or
  leaves it alone, so `EventsAreValid` carries over.
- `AlwaysGuarded` (`ProductionGuarded`): not inductive, because nothing in it says
  why a connection exists. `Guarded` adds that nothing is accepted before `Build`
  and that a process that got past it was composed completely or asked for
  development mode.
- `AllTypeCorrect` (`TypeOK`): no connection is left open after the end of the process
  only because of what `Guarded`, above, says of every step that has one.
- `AlwaysEndsItself` (`EndsItself`, the safety part of `StopsInTime`): `Timed` says that
  time is 0 until the shutdown begins and at most its deadline while it lasts.
- `ExitIsClean` (`CleanExit`): `Accounted` adds to `Guarded` that requests are cut off
  only at the end, that only development mode answers without an event, and that
  the middleware ends with its event handed over; the last needs
  `ServerEventsAreValid`, since an invalid event is handed to nobody.

### Only model-checked

Liveness: `ReplyEventually`, `AdaptersDrain`, the fairness part of
`ImplementsPromise` (`Correlation`), `SettlesOnHash` (`Portal`), `StopsWhenTold`
(`AuditedServer`). The prover handles neither fairness nor ENABLED, so for these the
bounds of section 3 are all there is. The two runs that find a violation need no
proof; their counterexamples are behaviours of the models.

No module declares a RECURSIVE operator, and no proof uses induction over data, whose
theorems take an operator the installed provers cannot instantiate: orders are
reasoned about by counting predecessors, sums at a least counterexample. The
assumptions about the environment that the proofs share with the runs (the API
server's clock, the continue token, `net/http`) are in section 6.

## 6. What is not modelled

Text (the sanitizer's regular expressions, layout of the portal), pure input and
output (token and CA files, log sink, manifests, generated client), the read-only
scripts (`preflight.sh`, `status.sh`, `verify.sh`), the decoding of policies and
Results, the summary of findings, single resources. `PROJECT.json` gives the reason
for each, and lists the hazards that no property covers, with the reason.

Abstractions to keep in mind: `FindingPages` assumes that the API server's
clock does not go back and that the chunks of one listing show one state, as the
Kubernetes API promises of a continue token; `Lifecycle` lets a signal reach
script and call together (the call that survives its script is in
`LifecycleLease`), and a script dies by a signal, not by SIGKILL; an object is
one version as a whole, or "mixed";
`EventSignals` gives every event a first time, as the recorders do, and does not
follow what happens to stored events after they were listed; `RequestPipeline` has
no clock, so the server's write timeout is outside it; `Portal` knows which caches
are filled and not with what; `ApiServer` takes `net/http` at its documentation.

## 7. Plan

1. `PolicyAuthorizer` inside `RequestPipeline`: the permitted scopes as those the walk
   allows instead of a constant, so that `AlwaysGuardedReads` and
   `WalkDecidesByMeaning` join in one theorem: data leave only as the policy means.
2. `Lifecycle` over `LifecycleLease` instead of over the lock: the theorem
   `LeaseIsAFencedLock` justifies the abstraction, a composition would state
   `CheckedUnderLock` of scripts and lease together under `SafeMargin`.
3. `FindingPages`: the summary on the same snapshot; the content of the portal's
   caches; `RequestPipeline` with the write timeout of the server.
