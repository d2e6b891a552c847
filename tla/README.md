# chtypes, specified in TLA+

chtypes gives programs ClickHouse's type system as a library: a C image per
ClickHouse line, four bindings over one C ABI (Go, Python, TypeScript, Rust),
and in each binding a fetch layer that installs signed images from OCI
registries into a cache all of them share. This directory models the Python
binding (`src/python/src/chtypes/`), because its source is the shortest
statement of rules the four share, and because every process-wide hazard of the
others (a setup that latches, references closed under calls, a cache written by
several processes) is in it. It also models the two programs of the repository
that act on GitHub while people and other runs do: the one that decides which
pull requests enter the merge queue, and the one that keeps an issue of every
dependency advisory.

## Inventory

| part | source | state | operations | what is hard | what makes it correct |
| --- | --- | --- | --- | --- | --- |
| process setup | `_setup.py` | the record, latched, replaceable, generation | `setup`, `effective`, `latch`, `open_failed` | a setup between an open's claim and its load; an attempt settled late; a failed open must stay correctable | every open image runs under the record; a latched record stands |
| opening images | `library.py`, `registry.py`, `_abi1/_loader.py` | opened images, a memo and a lock per registry, the image's own zone and defaults | `Registry._open`, `open_image`, `open_unverified`, loader steps 1 to 7 | two nested locks, exceptions at every step, Ctrl-C | locks released, one Library per request, step 7 once |
| handles | `library.py`, `_guard.py`, `_abi1/_decls.py` | per object: calls inside, closed; the raw handle's flag | calls, `close`, `__del__` | close racing calls on two objects, lost wake-ups, Ctrl-C between any two steps of a call, a close or a finalizer | no free under a call, one free, no leak, and where Ctrl-C leaves less than that, exactly where |
| cache entry | `_ocifetch/_layout.py` | `unpacked/sha256/<hex>`, temporary and aside directories | `write_verified_install`, `_install_dir`, `read_verified_record` | many processes, stale reads, crashes, bounded retries | what is published is complete, an installed entry is not lost |
| `index.json` | `_ocifetch/_layout.py`, `_ensure.py` | the list of manifests | `update_index_json` | read, compare, rename in three steps | an update is not overwritten, a failure of it fails nothing else |
| HTTP | `_ocifetch/_http.py` | base, attempt, hops, credentials, budget | `fetch_from_bases`, `_http_get_once` | every order of answers, retries, redirects and bases | it ends, waits within the schedule, and names the right failure |
| ensure | `_ocifetch/_ensure.py` | none of its own: cache, lock, network | `ensure`, frozen, floating, offline | decisions over stale reads | nothing untrusted installed, a pin followed |
| lock file | `_ocifetch/_lock.py` | pins per request and platform | `load_lock`, `with_pin`, `save_lock` | read at the start, written at the end | a pin is not lost |
| installed search | `_ocifetch/_ensure.py`, `_faults.py` | the roots' records | `resolve_installed`, `list_installed`, `verify_installed` | ties, faulty roots, pre-seeded entries | newest record wins, strict mode hides no fault |
| merge policy | `scripts/policy-merge-check.py`, `.github/workflows/policy-merge.yml` | none of its own: the pull request, its checks and reviews, main's counts | gate, second reading, enqueue, per run | a judgment is many calls, each stale at the next; three workflows end in any order, newer runs replace waiting ones, be it to judge or to be skipped | what is handed on was ready, a refusal is right, nothing ready is forgotten |
| dependency audit | `scripts/audit-issues.py`, `.github/workflows/dependency-audit.yml` | none of its own: the labeled issues | scan, list, plan, create, edit, reopen, comment, close | a run may die between two calls, a scan may fail, people edit, relabel and retitle issues | one issue each, none closed on an unknown, in the end in line with the reports |
| signatures, unpacking, OCI documents, conversion | `_dsse.py`, `_ed25519.py`, `_unpack.py`, `_oci.py`, `_referrers.py`, `_input.py`, `_decode.py` | none | parsing, arithmetic | bytes | a yes or no the rest relies on |

The parts meet in three places. `Registry._open` calls `resolve_installed` and
then `open_image`, under its own lock and then the process's setup lock.
`ensure` runs HTTP, trust and unpacking, then installs a cache entry, appends to
`index.json` and writes the lock file; each of these is shared with other
processes through the file system only. A `Library` hands out handles, which
threads share. The two GitHub programs meet nothing but GitHub: runs of the same
workflow, people, and the events GitHub sends.

## Modules

| module | models |
| --- | --- |
| `SetupOnce` | what the setup promises: one record that images run under, fixed by the first of them |
| `ProcessSetup` | setup, opening, locks, memo, step 7 and failures, per thread; shown to implement `SetupOnce` |
| `HandleLife` | what a handle promises: entered while open, shut for good, freed once when nobody is inside, and again only after it was torn |
| `CloseGuard` | guarded calls and closes, the raw handle and the finalizer; shown to implement `HandleLife` |
| `EntryOnce` | what the cache promises of an entry: its record is installed once and stands |
| `CacheInstall` | the installers of one cache entry; shown to implement `EntryOnce` on a clean cache |
| `Ensure` | `ensure` by several processes over one cache and one lock file; its cache is shown to implement `EntryOnce` |
| `IndexJson` | the writers of `index.json` |
| `FetchBases` | one fetch over a list of bases, against every server |
| `PolicyMerge` | the runs of policy-merge against one pull request |
| `AuditIssues` | the runs of the dependency audit against the issues |
| `*_proofs` | the theorems of the module they are named after |
| `MC*` | constants and symmetry for TLC |

### ProcessSetup

A thread's `pc` names the statement it is at; an action runs to the next point
where another thread can act. `state`, `latched`, `replaceable` and `generation`
are `_state`, `_latched`, `_replaceable` and the attempt counter of `_setup.py`;
`lock` is `LOCK`, `registryLock` and `memo` a registry's, `images` is
`_IMAGES`. `imageZone` and `imageDefaults` are the C library's own state, which
no Python code can read back: that they agree with the record is the point.
Setups are values with a zone and defaults, so two setups may share the zone and
differ in the defaults, which is where an unguarded path first shows. Loader
steps 1 to 6 change nothing and are one refusal. `Interrupt` ends an open
anywhere with its locks released and `open_failed` skipped, as a
`KeyboardInterrupt` does under `except Exception`; it may hit any thread, more
than CPython's main thread alone.

`OpenUnderSetup`, `NoSwapUnderLoad`, `LatchedStands`, `OwnFailureReplaces`,
`Correctable` and `MemoStands` are the setup rules of
`docs/reference/bindings-v1.md` section 6 that a single-threaded test cannot
reach. An open that began before a record was made, claims it and then fails
does not unlock it; rule 4 says so, and `OwnFailureReplaces` keeps to it.

### CloseGuard

A block under the guard's condition is one action, and a call is inside between
two of them. `first` and `second` are the objects of one call
(`Filter.eval(block)`, `Schema.rows(row_filter=...)`). `freed` counts calls of the
library's free function, so a double free is a count of two. The finalizer may
run once neither the program nor a thread's frame refers to the object.

Ctrl-C is raised in the main thread (`Interruptible`) between two steps of its
Python code, and each place where that leaves a different state is an action:
before a guard is entered (`CutBefore`); after it counted the call and before the
`with` that would leave it (`CutEntered`); on the way out, before the count goes
down (`CutLeaving`) or between the last decrement and its notify (`CutLeft`); in a
close's wait or before its free (`CutClose`); between the free function's return
and the flag (`CutFreed`, `_decls.py:152-153`); in `__del__` before its free
(`CutFinalizer`), where Python drops the exception and never calls again. One that
arrives during a C function is raised as it returns, and then leaves the call as
an error does (`CallReturns`) or is `CutFreed`. `struck` is a history of what was
cut off for good, per object. What the properties say of it:

- *flag*: the raw handle was freed and does not know it. Its guard is closed, so
  no close frees again, but `__del__` (156-158) does. `FreedOnce` and
  `FreedExactly` allow exactly this second free, by the finalizer, and no other;
  `HandleLife` calls such a handle `torn` and has a step for it, so the refinement
  shows that nothing else is freed twice.
- *count*, *notify*: the count never comes back to zero, or nobody is told that it
  did. A close of that object waits for good (`Stranded`), on which `NoLostWakeUp`
  and `EveryCallReturns` except it; the frame of that close keeps the object, on
  which `ForgottenFreed` does. Without such a close the finalizer frees the object.
- *finalizer*: the object is never freed.
- A close that was interrupted before its free leaves a closed guard and an open
  raw handle: the finalizer frees it, and no exception is made for it.

Not in the model: Ctrl-C inside the code of `threading.Condition` and
`contextlib` themselves, and in the moment a creating call has returned a native
handle no Python object refers to yet, which leaks it.

`NoLostWakeUp` is the condition variable's half of `close`: no thread sleeps in
the wait of an object nobody is inside any more, so the last caller to leave has
woken every close that waits for it, the closes of the other object included.
`ImplementsHandleLife` maps a handle's users to the threads inside, by either
argument of their call, `shut` to `closed` and `torn` to the objects whose flag
was cut off: counters, waits, other interrupts, the raw handle's own flag and the
finalizer are not seen there.

### CacheInstall

One action per file system call whose effect another process can see. A
directory's content is `Absent`, `Empty`, `Torn` or an installer, which stands
for the complete entry it unpacked. POSIX `rename` lands on nothing and on an
empty directory only. `CrashSpec` adds death at any step; a new life uses new
random names and never sees the old ones.

`ReadBackFinds` is what `ensure` relies on after its install. It holds, with
deaths, where no torn directory stood (`install_clean`), and fails where one did
(`install_read_back`).

### Ensure

A call of a process reads the lock file, takes its way by the options (offline,
frozen or pinned, floating), and each look at the cache, each answer of a source,
the install and the write of the lock is a step. `cache` and `system` give per
manifest the record of the root, `lock` the file, `read` the copy the call took
at its start, `offer` what the tag's index names per platform, `want` the
manifest being fetched with what its signature was worth, `answer` the `Resolved`
being built. A manifest digest fixes everything under it, so its platform, its
version's order (`Rank`) and the requests it lies within are constants; a tag may
name any manifest at any moment. A pin says where its other fields agree with its
manifest (`agrees`) and whether it names a bundle.

A source that does not answer, a full disk, strict mode's refusal and anything
else that ends a call early are one `Fail`, which may come anywhere. A lock of
another schema, one that lacks a field and one that is no JSON are all `Refused`
here; the guide calls every failed validation PINNED (`docs/guides/fetch-v1.md:151`),
the code does only for the schema and the generation and raises other errors for
the rest. The command line's loop over several requests is
several calls. The signed predicate and the image's own configuration are taken
to say the same version and platform. System directories are filled beforehand,
by another `ensure`.

`NeverBackwards` is the rule that a cache does not go backwards, against
everything others install while the call runs. `RecordsAreEarned` is the trust
rule, `PinsFollowed` and `PinsFollowable` what a lock file is for, and
`LostPinsWereStale` the exact extent of the lost update of a file that is read
at the start and replaced at the end.

The install is one step here because `CacheInstall` has its steps: both implement
`EntryOnce`, `CacheInstall` where no foreign directory stood. In the other
case the entry may be away for a moment, which `Ensure` does not show and
`install_read_back` does.

### EntryOnce

The entries of a cache, each missing or holding a content that never changes.
`CacheInstall` maps its path and the directory a process holds aside to one entry
(`InstalledOnce`), `Ensure` its whole cache (`EntriesStand`).

### IndexJson

A writer is a process that installed a build of its own; the list is the set of
writers whose entry it holds. Reading, comparing and renaming are three steps.
`Torn` is no JSON and reads as empty; `Alien` is what the merge itself fails on.

### FetchBases

One call of `fetch_from_bases`; every action is one answer and what it leads to.
`attempt`, `hops`, `tried` and `auth` are the locals of `_http_get_once`
(`tried_anon_flow`, the `Authorization` header), `base` the loop of
`fetch_from_bases`. A host may answer anything at any request: a body, one over
the cap, a refusal, a stall, a redirect, a challenge that a realm grants or not,
403, 404, a retryable status with any `Retry-After`, something else, or something
no handler expects. `http` stands for `http` and `https`. Times are whole
seconds. The external parts are what `urllib` raises for a server's behaviour.
`requests`, `slept`, `failures` and `issued` are history variables that the
properties read and no guard does.

### PolicyMerge

A run's `pc` is the call to GitHub it makes next; `phase` says which of its two
readings (`cmd_gate`, `cmd_enqueue`) it is in. `facts` is the `Facts` record with
what a verdict is computed from: the pull request object, the commit whose files
were listed, whether the required checks and api-surface were green, the reviews.
`Diff` gives per commit what the pull request changes there; which glob a path
matches, whether a bump is proved and what a log says are fixed by the commit.
`Create` is GitHub's concurrency group: a newer run of a group replaces the one
that waits, and one of a group runs. The group is the workflow run's, the `if:` the
job's: the completion of a run of `ci`, `v1` or `v1-abi` that is not the pull
request's creates a run all the same, which takes its place in the group and when
its turn comes is `skipped` (`Judges`). On a pull request's head these are runs
somebody dispatched (`RunByHand`, `byHand`, `ByHandEnds`); their jobs are check
runs of the required names like any other, and their api-surface job prints no
verdict and may be the one whose log is read. A `push` or `merge_group` run with
the same commit would do the same. `Follow` keeps the histories the properties
read: the conditions that held at some moment of a run's present reading, whether
all held throughout it, whether the branch moved.

The model has one pull request of one repository. Forks and commits of several
pull requests are refused at once and left out, review states are one flag, a
merge conflict is one GitHub knows of, and the completion event of a run that a
push cancelled is left out. A dispatched run that fails is not told apart from
one that does not end: either way its check is not green.

`NothingStale` says how old a judgment can be: what is handed on comes from a
second reading that is no dry run, and every condition held at some moment of
that reading. It exempts the class of the files and the counts if the branch
moved during that reading: the files are listed by number of the pull request and
compared by count only (`decide`, 1625-1631). If the branch stays away, GitHub
declines the enqueue, which is pinned to the commit that was judged; where it
moved away and back between two calls, nothing later declines.
`RefusedRightly` is its counterpart.
`LastRunEnqueues` is the reason for the three triggers and the group: nobody else
asks again. It is about the completions of the pull request's own workflows, and
its exception (`Displaced`) is the judgment whose place in the group a dispatched
workflow's completion took: the ready pull request is then enqueued by nobody until
something triggers another judgment. In the model a run may wait while none of its
group runs, so two runs show what takes a third, running one at GitHub.

### AuditIssues

`issues` is the repository's list of advisory issues in order of number; a body is
the set of scans whose reports it was written from, which stands for the
ecosystems, packages, versions and branches it lists. A run reads the scans one by
one (`found`, `errors`), lists and plans once (`todo`), and makes its calls one at
a time (`doing`), and may die before any of them. People close, reopen, edit,
relabel and retitle issues in between, and reports change. An issue is found by
its label (`labeled`, what `gh` lists) and its title (`titled`, what `plan`
matches); an edit writes the title again and leaves the label. `absent`,
`relabeled` and `clean` (nothing has failed, died or been changed since this run
began) are histories.

`OneIssueEach` and `ClosedOnlyWhenGone` are the two promises of the script's
header. `EventuallyInSync` is the point of having no state: whatever half of a plan
was carried out, later runs make up for it. `CleanRunSyncs` says how soon: one
run that nothing disturbs leaves the issues saying what is reported. It exempts
an advisory that is gone and has two issues, which takes a person who puts a label
or a title back: a run closes one of them. Two things they do not make up for,
which the header does not say either: a comment that was to follow an edit is
not written if the run died between them, since the next run sees no change; and
a run with a failed scan, which closes nothing, still rewrites "Found on" and the
fixed versions of open issues from the scans it has. The list is limited to 1000
issues; the model has no limit.

## Runs

Runs marked V are expected to find their one property violated: each is a
disagreement between the code and something the repository says of it, quoted in
`PROJECT.json` under "findings".

| run | bounds | shows |
| --- | --- | --- |
| `setup_safety` | 2 threads, 3 public calls each, 2 zones, 2 default sets, 2 images, 1 registry | the setup rules, refinement of `SetupOnce` |
| `setup_interrupt` | 2 threads, 2 calls, 2 registries, Ctrl-C anywhere | locks are released, every call returns, zones still agree with the record |
| `guard` | 3 threads, 1 call or close each, Ctrl-C in one of them and in finalizers, a schema and the filter a call compiles from it | nothing freed under a call, nothing twice but what Ctrl-C tore from its flag, no wake-up lost, every call and close ends and nothing forgotten leaks but where Ctrl-C cut a call or a finalizer, refinement of `HandleLife` |
| `install_race` | 3 processes, 2 attempts, 2 calls each, any directory at the start | an entry is in place or about to be put back; failed turns have a cause; an install leads to an entry that stays |
| `install_clean` | 3 processes, 3 attempts, with deaths, no torn directory at the start | refinement of `EntryOnce`, only complete entries appear, a read-back finds its record |
| `install_read_back` V | 2 processes, a torn directory | an entry is moved aside under its installer, whose read-back aborts |
| `index_updates` | 4 writers, 3 turns, any file | an update that gives up has lost every turn to another's success or met a file it cannot decode; an entry is lost in one gap only |
| `fetch` | 9 lists of up to 3 bases, 3 attempts, waits 1 and 2, `Retry-After` 0, 2, 3, 4, 2 redirects | requests and waits are bounded, credentials stay, the last base decides |
| `ensure` | 2 processes, 1 call each with one of 7 option sets, 4 manifests, 6 lock files, 2 system directories | the cache never goes backwards, pins are followed and can be, records are earned, pins are lost to stale copies only, refinement of `EntryOnce` |
| `ensure_request` V | as `ensure` | a record outside the request answers because its manifest is named |
| `policy` | 2 runs, 2 commits, 2 workflows, 2 events | nothing stale is handed on, no refusal is wrong, the last workflow to end enqueues unless a dispatched one displaces its judgment |
| `audit` | 2 advisories, 2 scans, 3 events (failures, deaths, people's changes, new reports) | one listed issue each, none closed on an unknown, one undisturbed run brings them into line, in the end they stay so |

Why the bounds are enough. The setup's rules are about one record, an open that
claimed it and a second actor: two threads and two records reach every pair, and
the theorems carry them to any number. A guard needs a caller on either object and
a closer: three threads. Ctrl-C goes to one of them, as CPython gives it to the
main thread alone; that thread may be the caller or the closer, and the finalizer
may come after either. The bad moment of an install is between one process's look
and its move, filled by another's rename; the third process is the one that finds
the path taken at the put-back. Attempts are lost one per other process, so two or
three show the pattern eight (the code's number) has. An index update loses turns
the same way: with four writers and three turns an update may just run out of
them. Two calls of `ensure` reach every pair of a reader and a writer of the cache
and of the lock; the four manifests are an older and a newer build of a line, one
of another line and one for another platform, and only some are signed or
pre-seeded. In `policy` an event is anything that is no run's step: two are enough
for a push or a red check between any two calls and its undoing, or for a
dispatched run whose end takes the waiting judgment's place; the exempted case of
`NothingStale`, which needs more, is in its proof. In `audit` three events allow a
run that dies, a change under it and a failed scan in the next one, or a label or
title that goes, a second issue and the label or title back. A fetch's counters
are independent; two redirects and three attempts interleave in every order, the
`Retry-After` values lie below, at and above what each attempt has left, and a
base list of three has a first, a middle and a last base.

The runs leave `TypeOK` out: of each component it is a theorem for every value of
the constants (`TypeCorrect`), which the other proofs rest on.

Deadlock is checked in every run but `policy`; a `Finished` step stands for a
program that has ended (in `guard` also for one that hangs in a close Ctrl-C
stranded), so a deadlock would be threads waiting for each other.
`policy` switches it off: its runs and events run out.

Symmetry is used in safety runs only, over processes, threads, images or
registries no constant tells apart.

The disagreement of `install_read_back` is a check and an act in two steps: the
directory that is moved aside is not the one that was looked at. That of
`ensure_request` is a check one path makes and two do not: the guide wants every
path to compare a build with the request, and a record found under a name is
answered as it is.

Other places where code and text differ, read while modelling and shown by no run:

- `fetch --lock` "resolves normally and then writes the lock"
  (`docs/guides/fetch-v1.md:150`), but over an existing pin `_ensure` takes the
  frozen path (1008-1012), which neither resolves nor writes.
- An unsigned record in the cache answers a later call that does not allow unsigned
  builds (`_ensure.py:678`, 867), against `fetch-v1.md:253`; `RecordsAreEarned`
  says how far that goes.
- `index.json`: an entry published between another writer's last comparison and its
  rename is overwritten (`LostInGapOnly`), and an update that fails with something
  that is no `OSError` ends `ensure` after the install (`_ensure.py:820`).
- A body that cannot be read while an error answer is handled raises an exception
  `fetch_from_bases` does not catch, so no other base is asked (`_http.py:225`).
- `_decls.py:131-137` says of a raw handle that "closing it releases this binding's
  own reference, any number of times, from any thread". Its `close` reads the
  flag, frees and sets the flag in three steps (151-153): two threads that close it
  without the guard free it twice, and a Ctrl-C after 152 makes the finalizer free
  it again. The library's own classes close behind the guard, which rules out the
  first and not the second; `FreedOnce` says that this is all.
- `CloseGuard.close` is to "wait for in-flight ones" (`_guard.py:56`); a call that
  Ctrl-C ended on its way into or out of the guard is counted for ever, and a
  later close of the object waits without end (`Stranded`).
- `policy-merge.yml:185-188` says a second run "finds the pull request already
  enqueued and refuses quietly"; `decide` has no such condition, and the second run
  judges and hands on again.
- `policy-merge.yml:152-154` says "the last of them to finish is the run that finds
  every required check green". If somebody dispatched one of the workflows on the
  commit, its completion may replace that run while it waits and is then skipped
  by the job's `if:` (207): a ready pull request is enqueued by nobody until
  something triggers another judgment (`Displaced` in `LastRunEnqueues`).

## Fairness

Weak fairness of a thread's or process's own steps once it is inside a call: the
operating system runs it, C calls return (the library takes no callback), and a
free lock is taken. Nobody is obliged to start a call, to fail, to crash or to
press Ctrl-C, and a close that Ctrl-C stranded is enabled no more. A
`threading.Lock` gives no order, so a thread may wait as long as others keep
taking the lock; the runs bound the calls of each thread, so the others run out
and weak fairness suffices. What is shown is that nobody waits for a lock nobody
will leave. The finalizer of an unreachable object is weakly fair: CPython runs it
when the last reference goes. A fetch needs no fairness: a bound on its requests
is a safety property, and `Ensure` is checked for safety only.

In `PolicyMerge` a run's next step and GitHub's delivery of a completion event are
weakly fair; nobody is obliged to push, review, re-run or fail. In `AuditIssues`
the schedule starts runs for ever and a run goes on; failures, deaths and people
use up the events, which is the assumption that they end, without which nothing
could be kept in line.

## Proofs

All theorems are for every value of the constants, from the named assumptions of
the modules (distinct model values, finite sets of threads or processes where a
count is taken, at least one attempt). Every leaf is checked by the SMT, Zenon or
PTL backend.

- **ProcessSetup.** `SetupInv` is inductive together with the types: the setup
  lock is held by exactly the thread inside a load, what a load claimed is the
  record until it ends, an image has a zone and defaults only under the latched
  record or within the running load. `OpenUnderSetup`, `NoSwapUnderLoad` and
  `LatchedStands` follow, and the step lemma of the refinement uses it to show
  that `setup` and the opening of an image are the only steps `SetupOnce` sees.
  Which failure unlocks a record is an argument about the attempt counter:
  no attempt settles under a generation to come, a replaceable record is one whose
  own attempt has failed (`OwnFailureReplacesAlways`), and where that failure was the
  last and the record is locked again, an open that will settle holds it
  (`CorrectableAlways`). `MemoStandsAlways` rests on
  `HoldsItsMiss`: an open holds its registry's lock from the miss to its end.
  Under `InterruptibleSpec`, where Ctrl-C may end any open, `SetupInv` fails, because
  an interrupted load leaves its defaults in the image; what survives is `ZoneInv`,
  the same without defaults, and from it `OpenUnderZone`, the latch and
  `LocksOwnedAlways`: a lock is only ever held from within an open, and the
  holder of the setup lock waits for none, so there is no circle of waiting.
  `Correctable` is proved without Ctrl-C only: an interrupted open skips
  `open_failed` and leaves its record locked.
- **CloseGuard.** For any threads, any of them interruptible. `GuardInv` is
  `GuardCounts` (a counter is the number of threads inside, and more for good once
  Ctrl-C cut a decrement off), `OneCloser`, `FreedExactly` (the raw flag and the
  number of frees agree, but between a free and its flag; where Ctrl-C made that
  moment last, the finalizer is the only one left to free) and `FreedUnused`. The
  type of the counters is not inductive alone, because a counter that goes down
  stays natural only if somebody was inside; so the proof carries `Shape`, the types
  with integer counters, and gets `TypeOK` from `Shape` and `GuardCounts`. Lemmas
  say how a step changes the counts: not at all, one thread in, one thread out, one
  counted that never got in, one out that was not counted down.
  `NoLostWakeUpAlways` needs them too, since a counter that reaches zero is the
  moment of the waking. `Implements` shows each step to be one of `HandleLife` or a
  stutter: an entry finds the object open and unfreed, a free finds nobody inside,
  a cut flag is `HandleLife`'s tearing and a second free follows only that, by
  `GuardInv`.
- **CacheInstall.** The types give `PublishedWhole` with crashes: whoever renames
  holds its complete directory. `EntryNotLost` needs `EntryInv`: an installed path
  is empty only while somebody holds the entry aside. Without a torn directory at
  the start nobody ever gets to the move (`CleanCacheStands`, which is the step
  simulation to `EntryOnce`), so a read-back finds its record (`CleanReadBack`).
  `ContendedAlways` gives every lost turn its cause.
- **Ensure.** For any processes, manifests, requests and options. Each of the
  promises has an invariant of the call that carries it from the first read to the
  answer: what was in the roots at the start is in them still, because `EntryOnce`
  holds of the cache; the answer is at least as new as the offer and as everything
  the search saw; what is wanted was matched with the request before it is
  fetched. `PinsFollowable` rests on the last and on what a signature was worth,
  `RecordsEarned` on `want` being trusted only for signed manifests.
- **IndexJson.** `TurnsAreContended` carries the argument that a turn costs
  another writer's rename: a writer whose base is out of date has lost strictly
  fewer turns than there are recorded writers. `Converges` is a count over it: an
  update gives up only over a file it cannot decode or after as many others
  succeeded as it has turns, so never with as many turns as writers.
  `LostInGapOnly` is the exact extent of the lost update.
- **FetchBases.** `FetchInv` accounts for every request: while the call runs, what
  was sent to a base is its attempts, its hops and two for a used token flow, and
  the bases before it have failed. `RequestsBounded` and `LastBaseDecides` need
  it; every answer is reduced by `StepCases` to one of three ways a step goes (an
  end, a failed base, a retry), a redirect or a grant, so the invariant is proved
  once per way and not once per answer. `WaitsAllowedAlways` is about sums over
  the schedule, written as recursive functions; they are shown to be what their
  equations say, and to be numbers, by the well-foundedness of the numbers applied
  to sets (no induction theorem is used). `EveryAnswerMoves` leaves no answer that
  stands still, which with `RequestsBounded` and a finite list ends every fetch.
- **PolicyMerge.** For any runs, commits, workflows and events. `ReadRight` says of
  every fact a run holds that it was so at some moment of the present reading, and
  of the files that they are the head's as long as the branch has not moved;
  `NothingStaleAlways` follows because `Fails` is evaluated on such facts; a run
  that is skipped never reads.
  `ReadReady` is the same for `RefusedRightlyAlways`: while everything held
  throughout, every fact is favourable.
- **AuditIssues.** For any advisories, scans and events. `NoSecond` counts a
  planned creation as an issue that is there already, and an issue whose title a
  run is about to write as one of its advisory (`Mine`): while a creation is
  pending there is room for it. `Grounded` carries what scans did not report from
  the reading to the plan and into the call that closes. `CleanRunAlways` follows
  a run that nothing disturbs: what it has found is what is reported
  (`FoundTrue`), and every advisory is in line already or has one action of the
  plan left that brings it there (`OnTrack`); at the end there is none left.

Only model-checked: liveness (`EveryCallReturns` of setup and guard,
`ForgottenFreed`, `EventuallyUsable`, `LastRunEnqueues`, `EventuallyInSync`),
since fairness and ENABLED are outside the prover. The safety each of them rests
on is proved: `LocksOwned` and `NoLostWakeUp` for the returns, `EntryInv` for
`EventuallyUsable`, `CleanRunSyncs` for `EventuallyInSync`. The theorems are of
every value of the constants but of the same models, so what a model leaves out
they leave out too.

## Not modelled

- The Go, TypeScript and Rust bindings: the same rules from other sources, each with
  the concurrency of its language. A model of one would be a second `ProcessSetup`
  and `CloseGuard`, not more of the system.
- The C library: only its header is in the repository. What the bindings rely on
  of it is external in `ProcessSetup` and `CloseGuard`.
- Signatures, unpacking and OCI documents: arithmetic and parsing without state;
  one yes or no in `Ensure`, one success or failure in `CacheInstall`.
- Conversion of arguments and results, errors and constants, the command line,
  generated declarations: stateless, or printing over the functions above.
- The cache faults of `_faults.py`, `list_installed` and `verify_installed`: they
  change nothing. Strict mode is a failure that may come anywhere in `Ensure`.
- The generators and emitters under `scripts/abi-v1`, `scripts/parity-surface.py`,
  `scripts/api-surface.py`, the conformance runners, and `examples/`: programs that
  read files once and write a text or a status. Most of the repository's Python is
  of this kind; it has no state between two steps and nothing runs beside it, so a
  model of it would repeat its text.

## Plan

1. (done) Setup and opening, the close guard, the cache entry, `index.json`, one
   fetch over its bases; each with its theorems.
2. (done) `Ensure` with the lock file, composed with the cache through `EntryOnce`;
   the merge policy; the dependency audit; each with its theorems.
3. (done) The setup's failures and Ctrl-C, the waits of a fetch, the guard as an
   implementation of `HandleLife`, one clean run of the audit; as theorems.
   (left) The composition of `IndexJson` with `Ensure`'s pre-seeded entries.
4. (left) The five cache faults, default and strict, as a table over root states
   against the guide's, over bounded inputs; the search over roots by directory
   order where versions tie.
5. (left) `scripts/close-linked-issues.py`, the third program that acts on GitHub.
