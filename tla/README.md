# Proxmox AIops: a TLA+ model of its governance core

Proxmox AIops lets an agent (over MCP) or a person (over a CLI) operate virtual
machines and containers of a Proxmox VE cluster. It does not decide whether a
write may happen. What it promises is about the *record*: every call lands an
audit row, a write is declared in that row before it is sent, a verdict is never
stronger than what the node confirmed, and a reversible write leaves a token
whose inverse gives the old state back. This directory models the code that has
to keep these promises, checks it with TLC, and proves its core with TLAPS.

Source paths below are relative to `src/proxmox_aiops/`.

## 1. Inventory

### The components, their state and their operations

| Component | Code | State | Operations | Module |
|---|---|---|---|---|
| Audit trail | `governance/audit.py` | `audit.db` (rows with an id and a status), archives, a lock file; per process `_ok`, `_write_blocked` | `log`, `begin_write`, `finish_write`, `reconcile_pending`, `_maybe_rotate`, `_cleanup_archives`, `health` | `AuditLog`, `WriteAhead` |
| Governed call | `governance/decorators.py`, `outcome.py` | one `_CallState` per call | `_pre_check`, `_begin_write`, the body, `_record_undo`, `_finalize` | `AuditLog`, `CallOutcome` |
| Task waiting | `ops/_task.py` | none | `wait_for_task`, `settle` | `CallOutcome` |
| Error flattening | `mcp_server/_shared.py` | none | `tool_errors` | `CallOutcome` |
| CLI outcome | `cli/_common.py` | none | `checked`, `dry_run_preview`, `double_confirm`, `cli_errors` | `CallOutcome`, `Commands` |
| Undo | `governance/undo.py`, `mcp_server/tools/undo.py` | `undo.db`: tokens, recorded or applied | `record`, `get`, `mark`; `undo_apply` | `UndoExecutor` (recording: `CallOutcome`) |
| Budget | `governance/budget.py` | one window of time stamps per fingerprint, two counters | `check_and_record`, `add_duration` | `Budget` |
| Patterns | `governance/patterns.py` | loaded files and their times; arms, failures and cool-down per pattern and target | `_maybe_reload`, `match`, `report_outcome` | `PatternEngine` |
| Secret store | `secretstore.py`, `config.py`, `cli/secret.py` | `secrets.enc`, its temporary file, `.env`; a cached store in a server | `set`, `rm`, `rotate-password`, `migrate`; `_resolve_secret` | `SecretStore` |
| Set-up wizard | `cli/init.py` | `config.yaml` | one secret and one list entry per target | `SecretStore` |
| Guest writes | `ops/vm_lifecycle.py`, `ops/disk.py`, `ops/backup.py`, `ops/lxc.py` and their tools | none of its own: the machines, containers and backups of the node, and the tokens | the write operations, their guards and inverses | `GuestOps` |
| Write commands | `cli/vm.py`, `cli/lxc.py`, `cli/backup.py`, `cli/undo.py` | none | preview, two confirmations, the call, the exit code | `Commands` |
| Diagnostics | `ops/diagnostics.py` | none | ranking, thresholds | not modelled, see section 8 |
| Reads, connection, sanitising, telemetry, policy labels, server registration | the rest | none that matters | | not modelled, see section 8 |

### How they interact

    agent / CLI
       |  governed_tool wrapper                 (decorators.py)
       |    1 budget.check_and_record           -> BudgetExceeded, row "budget_exceeded"
       |    2 patterns.match (fail-open)
       |    3 audit.begin_write                 -> row "pending", or AuditUnavailable
       |    4 the body: request, wait for task  -> result, error payload, or unknown
       |    5 undo.record                       (decorators.py, in the wrapper)
       |    6 _finalize: add_duration, report_outcome, audit.finish_write
       |
       +-- undo_apply is such a call itself, and its body makes another one.

Several processes share `audit.db`, `undo.db` and `secrets.enc` (an MCP server,
CLI commands, cron jobs); inside a server several threads share the budget, the
pattern engine and the audit engine.

### What is hard, and what makes each component correct

- *Audit trail.* Rotation renames a file that others have open intents in; ids
  start again; a process may die, or storage fail, at any step. Correct: no
  request without a committed intent, open intents stay in the live file, a row
  carries its own call's verdict, an orphan is visible, `ok` means applied.
- *Governed call.* An answer or a probe is lost, a task outlives its wait, the
  storage fails after the effect. Correct: row, token and exit code agree with
  each other and with the node, and a script that repeats what was reported as
  failed does not apply a change twice.
- *Undo.* Status test, dispatch and mark are three steps. Correct: applied once,
  spent only by an inverse that was sent, sent where the original went.
- *Budget.* The time stamp is read before the lock, time is added after the
  call. Correct: bounds on what is let through, no trip that was not earned, and
  a guard that lets go again.
- *Patterns.* Files are listed, timed, read and selected from without a lock, the
  look at them may fail, outcomes arrive after the breaker tripped. Correct: caps,
  breaker, approval and revocation hold.
- *Secret store.* Three file steps per save, no lock, one save per migrated line,
  names that share a variable, a server with an old copy or none. Correct: readers see
  whole commands, the plaintext is set aside only when what the migration reads of it
  is stored, the plaintext variable answers for a stored name only where the store
  cannot be read. The wizard rewrites a second file, in place, between saves. Correct:
  a target is listed only when its secret is stored.
- *Guest writes.* The inverse is computed from arguments, result and defaults.
  Correct: it gives the machine back, and never removes a machine of another call.
- *Write commands.* A command asks before it reads, reads before it writes, and an
  agent works on the same guests all the while; previews repeat guards in code of
  their own. Correct: the token still inverts the write, nothing is destroyed that
  nobody was asked about twice, a preview refuses what the call refuses.

The hazards, each at its line with the properties that cover it, are listed in
`PROJECT.json`.

## 2. Modules

`WriteAhead.tla` is the abstract specification: a write is *declared*, may
*happen* on the node, is *closed* with a verdict once, and may then be *retired*;
a trusted write is closed `ok` only if it happened. It knows no files, locks or
processes.

`AuditLog.tla` models `audit.py` with the parts of the wrapper around it, one
action per step of a call at which another process can get in between:
`PreCheck`, `BeginRead`/`BeginWrite`, `AcquireGuard` (lock file),
`DecideRotation` (size test, look-up of pending rows, checkpoint),
`RenameLive`, `InitLive`, `InsertRow`/`InsertFails`, the body
(`ReadBody`, `RefuseBody`, `SendRequest`, `Conclude`),
`FinishWrite`/`FinishFails`, `LogFinal`; beside them `Interrupt` (Ctrl-C),
`CrashProcess`, `StartProcess`, `Reconcile` (the operator) and `NodeDecides`.
`live` is the number of the file at the `audit.db` path and `segment[c]` the file
that holds c's row, so that a rename changes no row. SQLite itself is external:
a commit is atomic, an update by id touches the live file only.

`CallOutcome.tla` follows one write end to end: the request, a lost or cut
answer, the UPID, probes that fail, the wait budget, the payload, the token,
`finish_write`, and the CLI's exit code, on which a script decides whether to
make the call again. A preview (`dry_run`) takes the same way and sends nothing.
A write whose intent cannot be committed ends before its body (`RefuseIntent`);
the one row of a preview is appended by `audit.log` without `strict`, so that it
may be lost while the command goes on (`AppendRow`).
Its faults are a cut connection, storage that fails, and a task that stops with
a status other than `OK` although its change is there ("warn": Proxmox tasks may
end in warnings); the code reports the last as a failure (`ops/_task.py:186`), and
`Misreporting` names the attempts that meet it.

`UndoExecutor.tla` is `undo_apply` by several appliers over one token store.
`faults` chooses in `Init` what may go wrong in a behaviour: overlapping calls,
crashes, lost answers, a token store that cannot mark, audit storage that fails, a
default target that moves. A property says under which of these it is claimed. The
call's passage through its own wrapper (`Call`, `RefuseCall`), the status test
(`Check`), the dispatch and the mark are steps of their own. When the row of the
inverse cannot be closed, `AuditUnavailable` takes the place of its result
(`ConcludeUnaudited`): the outer row reads `error`, though the inverse was sent.

`Budget.tla` has ages instead of time stamps: `Begin` reads the clock, `Check`
takes the lock up to `Delay` ticks later. The histories `ledger` and `spent`
record what was really admitted, by the time of the admission; no guard reads them.
The inverse inside `undo_apply` is a governed call of its own, inside another: to
the tracker it is a second call in flight, whose time counts as well as that of
the outer one. `Threads` are therefore the calls that can be in flight, and every
nesting of two calls is among the interleavings of two threads.

`PatternEngine.tla` has the files as logs of their contents, and ages in place of
times: the arms of a pattern are in the order of their times, so that pruning
keeps a suffix (`Youngest`), as the deque of `Budget` does. A match goes through the
steps of the code: `List` and `Stat` (`_maybe_reload`, with `GiveUp` for the
exception it catches, after which the old patterns stay), `Load` (the second
listing), per file `ReadTime` and `ReadContents`, either of which may skip the file,
`InstallPatterns` and `InstallMtimes` (the two assignments), `Select` (the first
armable pattern, without the lock) and `Arm` (breaker, pruning, caps and the
arming, with the lock, for the contents that were selected). `Report` is
`report_outcome`. `overlap` says whether two threads may be at the files together.
`streak`, `broken` and `ledger` are histories, and so are the fields `seen`,
`since` and `blind` of a match.

`SecretStore.tla` has writers that are commands of their own: `Unlock`, `Truncate`,
`Write`, `Rename`, `MoveAside`, and `Crash` between any two; and a server with
`Resolve` and `RestartServer`. The plaintext is a sequence of `Lines`, each of a
variable, a value and whether the migration reads it; `EnvKey` is the variable
`config.py` asks for a target, `ImportName` the name the migration turns a variable
into, so that names may collide or not come back. `UnlockFor` is the server's first
look at the store: the password may be missing or wrong (an error of its own), the
file unreadable or of another version (the plaintext variable). Encryption is modelled
by what it does: a blob opens with its own password only. `writer[w].file` follows an
open file across renames. The wizard is a writer that goes on after the rename:
`TruncateConfig` and `WriteConfig` are the two halves of `write_text` on
`config.yaml`, of which the model keeps the set of targets it lists, and `Again` is
the next target typed into it, with the copies of store and list it already has.

`GuestOps.tla` applies confirmed operations to a few machines and containers. A
call is split by what the code splits: `Host` (named node, default, scan),
`Guards` (refusals of the tool's own), `NodeTakes` (what the node carries out),
`Effect`, and `Inverse`, what the tools' `undo=` lambdas return from the call and
the result. `Undo(i)` performs the call of token i, which may record a token itself.

`Commands.tla` puts one command of a terminal beside it: `EnterCommand` or
`EnterUndo`, `Preview`, `Confirm` twice or `Decline`, `Read` and `Write`. The agent
is `GuestOps!Next`, before the command and between its read and its write; so the
token of the command is made of `seen`, what was read, and its effect is on
`before`, what was there. `Overtaken` names the three changes in between that
neither the code nor the node notices; each of them is needed, the property
fails without it.

What the node does is external and assumed from how the code uses it: it refuses a
start of a running machine, a stop of a stopped container, a second snapshot of
the name, a clone onto a taken vmid, a restore onto one without `force`, the
deletion of a running machine and a smaller disk; it carries out the stop of a
stopped machine, for which the code records a token like any other.

`MCAuditLog`, `MCCallOutcome`, `MCUndoExecutor`, `MCBudget`, `MCPatternEngine`,
`MCSecretStore`, `MCGuestOps` and `MCCommands` give the constants their values.
Operators marked *Faulty* are variants of an operation with a plausible bug; no
specification uses them. Each property is violated when one of them takes the
place of the operation it is named after, which shows that the property can tell
the code from a wrong one.

`AuditLogProofs`, `CallOutcomeProofs`, `UndoExecutorProofs`, `BudgetProofs`,
`PatternEngineProofs`, `SecretStoreProofs`, `GuestOpsProofs` and `CommandsProofs` hold
the theorems about the modules they are named after; the last builds on the one
before it, as `Commands` does on `GuestOps`.

## 3. Runs

| Run | Configuration | Question |
|---|---|---|
| `audit_log` | `AuditLog.cfg` | Do rotation, faults, a crash, a Ctrl-C and reconciliation leave the trail complete and true, and does it implement `WriteAhead`? |
| `audit_live` | `AuditLogLive.cfg` | Does every call end, whoever holds the rotation lock when it fails or dies? |
| `audit_interrupt` | `AuditLogInterrupt.cfg` | A violation: a Ctrl-C during a write leaves a row that says `ok`. |
| `call_outcome` | `CallOutcome.cfg` | Do row, token and exit code agree with the node, and is a script's retry safe? Does every command end? |
| `outcome_cut` | `CallOutcomeCut.cfg` | A violation: a connection closed after the request was read is reported as a plain failure, and the retry applies the change twice. |
| `undo` | `UndoExecutor.cfg` | What spends a token, where is its inverse sent, what do the rows say? |
| `undo_twice` | `UndoTwice.cfg` | A violation: two overlapping `undo_apply` calls both apply one token. |
| `budget` | `Budget.cfg` | What do the guard and the ceilings let through, when do they trip, do they let go? |
| `patterns` | `PatternEngine.cfg` | Do caps, breaker, approval and revocation hold while files are edited and threads interleave? |
| `secrets` | `SecretStore.cfg` | What do readers and a server see of a store whose writers may die at any step, and does the wizard list a target before its secret is stored? |
| `guests` | `Commands.cfg` | Does the newest inverse give back exactly the guests from before, also when an agent writes between a command's read and its write? Does a delete token ever reach another machine? Is anything lost that nobody was asked about? Do previews refuse what their calls refuse? |
| `guests_unset` | `GuestOpsUnset.cfg` | A violation: undoing a change of cores on a machine with no `cores` key changes nothing. |

The four violations are disagreements between the code and what its own
docstrings and comments say; `PROJECT.json` quotes both sides. A property whose
name ends in `Always` is the claim as the code's text makes it; the property
without the suffix states the condition under which the code keeps it, and is
checked in a passing run.

## 4. Bounds, and why they are enough

- `AuditLog`: two processes, two writes and a read, `RotateAt = 1` row and
  `MaxArchives = 1`, so every append finds a file that is due for rotation and
  every second rotation deletes an archive. Two writes of two processes are enough
  for every race over one file; the read adds the appends that open no intent.
  `Interruptible` and `Crashable` name one of each, which keeps the run short;
  `audit_live` lets both processes crash. The theorems cover all values.
- `CallOutcome`: `MaxAttempts = 2` (a second application needs two), `WaitBudget
  = 3` rounds of probes after which the deadline has passed.
- `UndoExecutor`: two appliers, two tokens (one whose original named its target
  and one that did not), two targets.
- `Budget`: two threads, one fingerprint, windows of 3 or 4 ticks, `Delay = 1`
  between clock and lock, `LongestCall = 2`. Time stamps older than the window
  and `Delay` are indistinguishable to the code, so ages stop there. Four sets of
  limits: none, the guard alone twice, everything.
- `PatternEngine`: two threads, one pattern and target (engine state is per
  pair), `Hour = 1` and `Day = 3` ticks with caps of one an hour and two a day, so that
  each cap binds alone. The file is approved (and may expire), unapproved or absent,
  and is edited once (`MaxEdits = 1`): a revocation, an approval, a file that comes
  or goes, before, between and after any steps of both matches, by an engine built
  before or after the file. Failures are counted up to `MaxThreshold = 3`, which
  breaks any pattern. Threads are interchangeable. About four million states, a
  minute and a half.
- `SecretStore`: two writers, three names, two values, two passwords,
  `MaxCommands = 2` commands or targets typed into the wizard, over no store or one of
  two made before. Two of the names (`my-lab` and `my_lab`) share a variable; the
  `.env` has four lines, of which one is not read and two are for the same name, so
  the migration's loop runs three times and overwrites both its own and a stored
  value. Writers and passwords are interchangeable (`SYMMETRY`; all its properties
  are about single states and steps). Over a million states.
- `GuestOps` with `Commands`: one machine, one container and a free vmid, two nodes
  and storages, two sizes. Without a command the agent makes `MaxSteps = 4` writes
  and undos: enough for clone, undo, clone again, undo again. With one, it makes
  `MaxSetup = 1` step before and, those included, `MaxRivals = 2` in all: a
  token to undo, a rival write in between, or both. About three million states,
  over a minute. `guests_unset` has three steps on a machine without `cores`.

`CHECK_DEADLOCK FALSE` is set where a behaviour ends because its calls, attempts
or steps are used up.

## 5. Fairness

- `AuditLog!FairSpec`: weak fairness of each call's own steps: a process that
  runs goes on running its code. The operating system releases the lock of a
  process that dies. Nothing is assumed of crashes, restarts, the node, the
  operator or the keyboard.
- `CallOutcome!FairSpec`: weak fairness of the command. Each request has a client
  timeout and each sleep an end. The node need never answer nor a task stop.
- `UndoExecutor!FairSpec`: weak fairness of each applier, whose inverse is a call
  of the kind above.
- `Budget`: weak fairness of time, of `Check` and of `End` (calls end, as above),
  and strong fairness of `Begin`: the caller keeps trying. The last is an
  assumption about the caller, needed because the property is about what the
  guard does to one that does not give up.

The others are safety properties under no fairness.

## 6. What is proved

Every safety property a passing run checks is also proved, with the refinements
and the action properties, for all values of the constants that the assumption in
its module allows. These assumptions say what the constants are (limits are
numbers, a call has a process, `None` is not a value of anything it stands beside)
and little more; TLC evaluates each on the instances of the runs. The few that
restrict something are named below. Each proof has the same shape: an inductive
invariant `IInv` (`CInv` in `CommandsProofs`), one lemma per action that keeps it,
and the theorems as consequences. TLC found each invariant to hold on a small
instance before it was proved.

**`AuditLogProofs`**, for any number of processes, calls and rotations. Few of the
invariants are inductive by themselves. `PendingStaysLive` needs to
know that between the look-up of pending rows and the rename no intent can be
inserted, which is a fact about the lock: `GuardInv` says that exactly the calls
in the guarded steps hold it, and `RotationInv` that while its holder is between
decision and rename there is no pending row. `RowsAreOwn` needs `IdInv` (two
calls with the same id are in different files) and `PlaceInv` (a row's file is
not newer than the live one, and its id not larger than the rows inserted).
`IntentPrecedesEffect` and the refinement need `StagesInv`, which ties the step a
call is at to the state of its row, verdict and effect. The refinement
`ImplementsWriteAhead` maps each action to a step of `WriteAhead` or to a
stutter: a rename retires every row of the file, and is allowed to since none of
them is pending.

**`CallOutcomeProofs`**, for any number of attempts, any wait budget and any set of
faults. The argument goes from the node outwards: `NodeInv` says what a task means for
the effect; `Honest` what the payload claims of it, chosen so that no later step of
the node can make it false (a payload of "unsettled" or "lost" claims nothing);
`EndInv` the three ways a command ends: before its body (`Stopped`), with a row that
says what the payload says, or that a preview lost (`Recorded`), or with a row that
could not be closed and stays pending. `OrderInv` says that an attempt is made only
after all before it were reported as failed, and `FailuresAreReal` that such an
attempt left nothing on the node; together they give `RetryIsSafe`.

**`UndoExecutorProofs`**, for any number of tokens, appliers and targets and
any set of faults. `StageInv` says how far each step has taken the inverse and its row;
with it `SpentInv`, from which `SpentMeansSent` follows, and `FailedUndoSentNothing`
keep themselves under every fault. `InverseGoesHome` follows from the fact that the
default moves only with that fault, and `AppliedOnce` from `SoloInv`: of calls made
one after the other, the one under way holds a token nobody has spent, and the ones
that left a token unspent have changed nothing.

**`BudgetProofs`**, for any number of threads, fingerprints and limits; the delay of
the lock is at most the longest call and the window. What the guard compares is
the deque, what `RunawayHolds` speaks of is the history of admissions. `Aligned`
relates the two: counted from the right they are the same calls, and their ages
differ by at most `Delay`, so a call the history still has in the window less
`Delay` is in the deque, and one the guard counts was admitted within the window
and `Delay`. The first gives `RunawayHolds`, the second `TripsAreEarned`. `SpentInv`
is the potential behind `OvershootBounded`: once the counter stands at its
ceiling no call is admitted, and each of those in flight adds one longest call at
most.

**`PatternEngineProofs`**, for any number of threads, patterns, targets and edits and
any contents of the files. `ArmsInv` says that the arms kept are the history of a
day, in the order of their ages, which the caps are read from; `BreakerInv` that
the engine's count is that of the reports. `Sound` says of each thread, whatever
overlaps and fails, that the contents it read are no older than the time it took
before them, and that what it has selected was signed, approved and, since the
match began, not expired: `ApprovalHolds` and `CapsHold` rest on it. `ReadInv` is
for threads at the files one at a time: patterns are never older than the times
installed with them, so a match that finds no difference, or has loaded, selects from
contents no older than those it began with, unless its look failed. That is
`RevocationHolds`. A reload by another thread between installation and selection
only brings newer contents, which is the last conjunct of `ReadInv`.

**`SecretStoreProofs`**, for any number of writers, names, passwords and commands, any
`.env`, any naming of variables and any first store. `SoloInv` says what a writer that
is alone knows at each step: the map it will write is the outcome of its command on
the visible store (`Prepared`), or it is the visible map (`Fresh`). A rename therefore
changes the visible store by one whole command, and the plaintext is moved aside after
every line the migration reads: lines are passed in their order (`InOrder`), and of
those passed the last of each name has set its secret (`Imported`). `ServerInv` holds
whatever overlaps: the names held since the server started are in the store, if it is
not torn, and in the server's copy, if it has one. `StoreComesFirst` is what that
means for an answer.

**`GuestOpsProofs`**, for any vmids, nodes, storages, first guests and number of
steps; sizes have a largest one. The key is a lemma about one call, `InverseInverts`:
if `op` read the guests g and the node carried it out on the guests h, and the values
its inverse restores are the same in both, then the inverse is accepted afterwards and
yields h, whatever serial number comes next. It goes through the tools one by one,
since each computes its inverse in its own way. `Restorable` says of every entry of
the trail that its token takes the guests from the next entry to this one; that is
more than `UndoRestores`, which speaks of the last entry only, and it has to be: an
undo makes the entry before it the last. It also needs `Named` (every configuration
the node has, also in snapshots and archives, names its cores and memory, since a
rollback or a restore brings them back) and `Ordered` (tokens of the trail are
recorded, each once). `TrailRestoring` states the whole chain. `UndoOwnWork` needs,
beside what it says, that two recorded tokens never delete the same vmid (`Owned`):
otherwise the undo of one would leave the other with a machine it did not make.

**`CommandsProofs`** carries the same invariant through the steps of a command, and
adds where the command stands: what it has been confirmed (`Asked`), what it may send
(`Sending`: what it read allowed the call), that a preview never gets to the write
(`Parted`). `RacedTokens` is `InverseInverts` with `seen` for g and the guests the
write found for h; that the two agree is what `Overtaken` excludes, and nothing else
has to be excluded. `Loss` follows from what a call does to the one guest it changes
(`EffectShape`, `Changed`): only a deletion removes a guest, only a restore or a clone
puts one in the place of another, and a clone is taken only where there was none. Here
`MaxSetup` and `MaxRivals` may be any numbers: the agent may make as many writes
between the command's read and its write as it likes.

## 7. What is only model-checked

Liveness (`CallsEnd`, `CallReturns`, `ApplyEnds`, `GuardLetsGo`), for which the
prover has no means. `GuardLetsGo` is the one of them that is not only about a
call's own steps: that a guard which has refused lets go again needs the fairness
of section 5.

That the node does what `NodeTakes` and `Effect` say, that SQLite commits are
atomic, and what else section 2 calls external is assumed by both.

## 8. What is not modelled, and why

- Text: redaction, sanitising, length caps, teaching hints, help and tables.
- Read-only operations and diagnostics: they change nothing; a read's way
  through the harness is in `AuditLog`. Diagnostics are functions of one reading.
- Telemetry, lineage ids and policy labels: write-only, nothing depends on them.
- The node: its answers are free choices in `CallOutcome`; in `GuestOps` it does
  what a confirmed request says (section 2). Other clients of the node appear as the
  agent of `Commands`.
- `move_disk`'s removal of the source, and what a guest does by itself.
- Windows, where the rotation lock is local to a process (`audit.py:24`): the
  model's lock is the one of POSIX systems.
- `time.time` going backwards; two rotations in one second.
- How a server loads `config.yaml` (once) and keeps its sessions; a reader that sees
  `config.yaml` between truncation and writing is in the model, as an empty list.
- Several patterns at once in the instance (`Chosen` is written for them): two files
  that are edited and reported on do not finish in the time a run may take.
- Nothing is left out of the models where writers of the secret store, or reloads of
  pattern files, overlap, but some properties are claimed without it, since the code
  takes no lock there, and updates can be lost or a stale file stay loaded.
  `ChangesAreWhole`, `MigrationIsWhole` and `ListedHaveSecrets` assume one writer at a
  time, `RevocationHolds` and the order of times in `PatternEngine!TypeOK` one thread
  at the files. `StoreComesFirst`, `CapsHold`, `ApprovalHolds`, `BreakerHolds`,
  `BreaksAreEarned` and the rest of both type invariants are claimed with overlap.
- A patterns directory that is missing is one without files; two files with one
  `pattern_id`. Salts and the text of `.env`: a line is read or not (`Lines`).
- An operator who reconciles a call that is still at work: `Reconcile` in `AuditLog`
  closes the rows of dead processes and of calls whose resolution failed.

## 9. Plan

1. Done: the modules of section 2, their runs, and proofs of all their safety
   properties.
2. Next: a server's configuration and sessions beside `SecretStore`; the removal of
   a moved disk's source; several patterns in the instance of `PatternEngine`
   (its theorems already cover them).

## 10. Observations

Met while modelling, and not given a run of their own:

- `undo apply` exits 0 when its inverse was refused: the error is inside the result
  that is printed, and `checked` looks at the top level only (`cli/undo.py:67`).
  `Commands!Failure` has it.
- The previews of most commands are put together from their arguments. A
  `resize-disk --dry-run` to a smaller size shows the banner of a call that will be
  refused, where `dry_run_preview` says every guard has run (`cli/_common.py:147`).
  `PreviewsRefuseAlike` is claimed for the three that read the guests.
- A migration reads no line that starts with `export`, or whose key has other ends, and
  sets the whole file aside if it read any other (`secretstore.py:295`). `my_lab` and
  `my-lab` share one variable (`config.py:43`), which is imported as `my-lab`; of lines
  that repeat a name the last wins; a secret stored later than the line was written
  is replaced by it.
- A server that cannot read `secrets.enc`, or finds another version in it, uses the
  plaintext variable though the store has the secret (`config.py:58`).
- A patterns directory that cannot be listed, or a file that cannot be timed, leaves
  the patterns that were loaded armable, revoked ones among them (`patterns.py:178`).
- A preview whose audit row is lost exits 0 (`audit.py:222`); a write whose row cannot be
  closed exits 1 like a failure, though it was applied (`decorators.py:456`).
- An `undo_apply` whose inverse was applied, and its row not closed, is audited as an
  error and leaves its token to be applied again.
- A wizard that dies between truncating and writing `config.yaml` leaves no targets.
