# otx-lookup: specifications, model checks and proofs

`otx-lookup` asks the LevelBlue Open Threat Exchange (OTX) what community
reports ("pulses") say of an indicator, as a CLI and as a local MCP server. It
is a small program with few goroutines; what is hard about it is not locking
but *evidence*: answers that are cached, aged, assembled from several requests
of which some fail, paged while they change, shared by processes through a
directory of files, and paced against a budget that upstream never states. A
wrong answer looks exactly like a right one ("no pulses"), so the properties
here are mostly about what a result, a cache entry, a total or an exit code may
be taken to mean.

All specifications are plain TLA+; the proofs are checked by TLAPS. File and
line references are to the repository (`engine.go` is
`src/internal/engine/engine.go`, and so on).

## 1. Inventory

| Component | State it keeps | Operations | Interacts with | What makes it correct |
|---|---|---|---|---|
| Request limiter (`otx/client.go`: `pace`, `limiter`) | `times`, the stamps of the requests in the window | `take`, `prune`, `Requests` | called by `get` before every request; sleeps | never more than `max` starts in a window; sleeps neither too long nor for ever; what upstream sees, although a request arrives later than its stamp |
| HTTP client (`otx/client.go`, `types.go`) | the key, the limiter | one method per endpoint, all through `get`; `statusError` | OTX over HTTPS | every exchange ends, in a body or in an error with a code; no request for a key-only endpoint without a key |
| Engine lookup (`engine/engine.go`) | none between calls | `Lookup`, `validateSections`, `general`, `fetchExtraSections`, `fill`, `aggregate` | cache, client | no false negative; no answer older than allowed, or for another type, target or scope; failures are carried to the result; counts are of reports |
| Engine pulse and search (`engine/pulse.go`) | none | `Pulse`, `fillIndicators`, `Search` | cache, client | pages neither lose nor repeat indicators; totals marked exact only when they are |
| Result cache (`cache/cache.go`) | a directory of files, shared by processes | `Get`, `Put`, `Stat`, `Clear` | the file system, other processes, kills | a name holds a whole record or is a miss; Put atomic; Clear thorough and its count right |
| Indicator classification (`indicator/indicator.go`) | tables | `Classify`, `Types`, `HasSection` | engine | each shape has one reading; the type list covers both `domain` and `hostname` |
| Lookup command (`app/lookup.go`, `app.go`) | outcome flags of a run | read targets, loop, print, exit code | engine | exit codes tell the outcomes apart; the run ends |
| Pulse, search, auth, cache commands (`app/*.go`) | none | one run each | engine, client, cache | exit codes; four states of a key |
| MCP server (`mcp/*.go`, `app/mcpcmd.go`) | none between calls | `Serve`, `handle`, `callTool`, the tools, `trimLookup` | a new client, limiter and engine per call; two pipes | each request answered once and in order; nothing lost at the end of the input; what is trimmed is counted |
| Configuration (`config/config.go`, `app/common.go`) | settings | `Load`, `parseTOML`, `validate`, `RateCeiling`, `Anonymous`, `buildClient` | everything | precedence; an accepted configuration can be worked with; an anonymous client has no key |
| Build, release, e2e (`scripts/`, `Makefile`, `e2e/`) | – | – | – | outside the program's logic |

The behaviours that are hard, each listed with its line in `PROJECT.json`
("hazards"): requests that reach upstream later than they were counted; one type of
a name failing while the other answers "nothing"; evidence that is older than its
stamp; a page and the detail beside it from different revisions; a walk over pages
that fails half way; processes that overlap in one cache directory; kills and
outages between a write and a rename; overlapping clears; outcomes of many targets
folded into one code; a client that writes ahead of its answers into bounded pipes,
or does not read them; budgets counted per client; layers of settings, some of them
unreadable.

## 2. Modules

| Module | Models | Checked by | Proved in |
|---|---|---|---|
| `SlidingWindow` | the abstract limiter: a request starts when fewer than `Max` are in the window | – | – |
| `Limiter` | pacing and one exchange at a time (`client.go`: `get`, `pace`, `limiter`); implements `SlidingWindow` | `MCLimiter` | `LimiterProofs` |
| `Lookup` | `Engine.Lookup` by several processes, the cache as single reads and writes, a changing upstream (`engine.go`, `cache.go`) | `MCLookup` | `LookupProofs` |
| `CliRun` | the loop of `runLookup` and its exit code; extends `Lookup` | `MCCliRun` | `CliRunProofs` |
| `Report` | `fill`, `aggregate`, `countUnique` and the tool's `trimLookup` on one answer (`engine.go`, `tools.go`) | `MCReport` | `ReportProofs` |
| `Pulse` | `Engine.Pulse`, `fillIndicators`, `Engine.Search` under a caller that pages (`pulse.go`, `client.go`) | `MCPulse` | `PulseProofs` |
| `CacheMap` | the abstract cache: a map of whole records | – | – |
| `CacheStore` | the file operations of `Put`, `Get`, `Clear`; implements `CacheMap` | `MCCacheStore` | `CacheStoreProofs` |
| `McpServer` | `Serve` and `handle` between two pipes, a new client per tool call (`server.go`, `mcpcmd.go`); extends `Limiter` | `MCMcpServer` | `McpProofs` |
| `Settings` | `Load`, `parseTOML`, `buildClient`, `auth check` (`config.go`, `common.go`, `auth.go`) | `MCSettings` | `SettingsProofs` |

Operators marked "A slip" beside a definition are the wrong versions of it
(a dropped guard, a swapped order) that the properties are known to catch;
nothing else uses them. `PROJECT.json` pairs one with each property.

### SlidingWindow and Limiter

`take` re-slices `l.times` on every prune. The model keeps the backing array
(`taken`) and where the live slice starts (`lo`), so the whole history is there
for the properties and the code's slice is `taken[lo+1 ..]`. The clock (`now`)
is Go's monotonic clock, in ticks. `pc` follows one request: `idle`, `sleeping`
(in `take`), `sending` (stamped, not yet on the wire), `awaiting` (on the wire).
`TakeNow`, `TakeWait` and `Wake` are the paths through `take`; `Wake` prunes
once and appends *without* testing the length again, as the code does. `Send`,
`SendFails` and `Return` are `HTTP.Do` and the reading of the body. `arrived` is
a ghost: when upstream saw the request, which the code never knows. One stamp is
one arrival: what `net/http` does on its own (following a redirect, trying again
on a connection that had been idle) is not modelled.

`PrunedTo(c, t)` describes where the loop of `prune` stops by its exit
condition, so that nothing recursive is needed. `max <= 0` disables the limiter
in the code; `config.validate` and `RateCeiling` make it positive (proved in
`SettingsProofs`, theorem `UsableHolds`), which is `MaxAssumption`.

`SlidingWindow` says what all this is for, without a slice: a request starts
only if fewer than `Max` started within the last `Window` ticks, and one waits
only if that is not so. In the refinement mapping the starts are `taken` and the
next one waits while the limiter sleeps; `Send`, `SendFails` and `Return` are
stutters.

### Lookup

A *slot* is what upstream can be asked: section, type, target, and the account
that asks. `Key` is what the cache makes of it: `Fold` says which targets its
lower-casing makes one, and `AuthScope` which accounts it takes for one, namely
all that have a key. `Alike` slots share an entry.
`held` is upstream's present answer for each slot (`Publish` changes it), and
`left` is a ghost that remembers when upstream last stopped giving an answer;
`HeldSince(s, n, x)` then says that `n` was upstream's answer at some instant
not before `x`. An answer is a number: the count of pulses of a general section,
the version of any other. That is all the code's control depends on, and all the
properties tell apart.

A call's `pos` is its place in the loop over the types, then over the extra
sections. For each one, `CacheHit` takes a fresh entry, or `CacheMiss`, `Serve`
and `Store` (or `FetchFails`) make the exchange in three steps: before it (the
limiter may hold a request back as long as it likes), upstream's answer, and the
write of the entry with the time *after* the exchange. `Store` may fail to write
the entry, which the code ignores. `EndTypes`, `Skip` and `EndSections` are the
remaining branches. `Drop` is one removal of another process's `cache clear`.

`res` is the `Result` under construction. `Degraded` is a set of names, without
the texts. `TypesOf[i]` is what `Classify` makes of a target: its list of types,
empty if it is rejected. `HeldFirst` is a set of answers upstream may give at
first.  `SectionsAssumption` says that the types of one target offer the same
sections, which is so of `sectionsByType` (`indicator.go`): a name is asked as a
hostname and as a domain, and their lists are equal. So the silent `continue` of
`engine.go:266-268`, which skips a section the answering type lacks (`Skip`),
drops nothing today; it would if the two lists came to differ.

### CliRun

The calls of `Lookup` are the targets of one run, looked up one after another.
`ReportError`, `PrintResult`, `PrintFails` and `Exit` are the branches of the loop
of `runLookup` and its final switch. With `--json` a write that fails ends the run
(`PrintFails`); in text `renderText` does not look at what its writes return
(`lookup.go:185-281`), so a target may be dealt with and not `printed`. All targets
are looked up for one account (`ClientAssumption`). The sleeps of the limiter are
not in this module: a call that waits is one that has not moved yet.

### Report

What becomes of the pulses once they have arrived, from the answer to what a
tool returns: `Sort` and `List` are the two halves of `fill`, `Count` is one
round of `aggregate`'s loop (all categories of a pulse), `Trim` is `trimLookup`.
A text is a number and whether it is padded, because trimming and blankness are
all the code looks at; a date is a number, 0 when it cannot be read. `held` is
the count the answer states, which has nothing to do with what it lists: it may be
more (the page cap), or less. What upstream really has is not in the model, because
nothing in an answer tells it. `Label` is the rule
that a display name stands for an id. Package `sort` is external and modelled by
what it promises: `Enumeration(S, R)` lists a set in the order of a relation.
`fill`'s stable sort enumerates positions (`Ahead`: by date, then name, then
place in the answer), `rank`'s sort the values that have votes (`Outranks`).

### Pulse

`job` is a caller who asks for page after page until the answers tell it to
stop; the caller is external, the calls are the code. `DetailHit`,
`DetailServed`, `StoreDetail` and `CallFails` are `Engine.Pulse` and its cached
detail; `PageServed` is the page endpoint a client with a key uses;
`Embedded` is the fallback to the set embedded in the detail, taken without a
key or when the page fails, with the slice bounds computed in `int`s of
`IntBits` bits (`Cut`, `Wrap`); `SearchServed` is `Engine.Search`. Upstream's
pulse has revisions (`Revise`), and the sources of a list (as each account sees
it, on the page endpoint, in a search) order and filter it differently. `Key` is
the scope of the caller's account, the same for every API key, and `OtherStores`
another process, of any account, writing an entry; the detail remembers which
account it was shown to. `origins` is a ghost:
from which lists the pages so far were cut.

### CacheMap and CacheStore

`CacheMap` is the promise: a Put takes effect at one instant, whole, or never; a Get
returns the map's record at one instant, unless it is too old; a Clear only removes;
and when the machine goes down each key falls back to a record it has had since the
machine last came up, or to none. `CacheStore` has one action per file operation:
`CreateTemp`, `Write`, `Rename`, the deferred `Remove`, `Open` and `Read`, `ReadDir`
and each `Remove`. A step of Put or Clear may fail, the removal of a Put's own
temporary file included (`CleanUpFails`: the code ignores that error, and the file
stays); a Get that cannot read an existing file, a miss in the code, is left out. A
process may be killed between any two (`Kill`), and the machine may go down
(`Outage`). Neither a file nor the directory is ever synced (`cache.go:164-178`), so
after an outage each name may be what it was at any time since the machine last came
up (`past`, a ghost): a rename or a removal that had taken effect may be undone, a
temporary file be back or be gone, and data that was written be torn although the
name is there. An open file survives the replacement of its name, hence `open`. The
refinement mapping is at the end of the module: the map has a record under a key
when its inode is whole, a Put takes effect at its rename and a Get at its open.

### McpServer

A frame is what `handle` makes of it: blank, garbled, too long for the scanner, a
notification, a method answered at once, one that is unknown, a tool call answered
locally, one that goes upstream with or without `anonymous`, and one for a page so
large that `get_pulse` panics. `asks` says whether it has an id; a notification that
has one is a request and gets no answer all the same (`server.go:117`), which is why
`Due` leaves it out. `sent` and `read` are the input pipe, `out` and `seen` the
output pipe, each of bounded size; `ClientWrites`, `ClientCloses`, `ClientReads` and
`ClientHangsUp` are the client. `Scan` is one round of `Serve` up to the call of a
tool, `Eof` the end of the loop, `Reply` and `ReplyFails` the encoder. `NewClient`
is the function `runMCP` passes to the server: a client, and so an *empty* limiter,
for each tool call, while `taken` goes on recording the requests of all of them. The
requests of a call are `Limiter`'s own actions. `ToolPanics` ends the process:
nothing recovers from the out-of-range slice that `Pulse` has at `Embedded`
(`pulse.go:169-176`).

### Settings

Every setting is a number; the settings fall into texts, integers and lengths of
time, because those are the three ways a word is read (`Read`). A length of time
is counted in fractions of a nanosecond, since `parseSeconds` tests the sign of
the float and then converts it, and the conversion of a float that does not fit
is unspecified in Go (`Unspecified`: either bound, or zero). `ReadLine` is one
round of `parseTOML`'s loop, with the section it is in computed from the lines
read; `ApplyFile`, `ApplyEnv` and `Resolve` are the layers, each of which fails
the run if a word cannot be read. `AuthCheck` is `runAuth`.

## 3. Runs

| Run | Instance | Checks | Shows |
|---|---|---|---|
| `limiter` | Max 2, Window 3, Timeout 1, Horizon 7 | `TypeOK` `LocalCeiling` `UpstreamSlack` `UpstreamWithinTimeout` `SleepIsBounded` `SleepEnds` `ImplementsWindow` | the limiter implements the sliding window; upstream sees at most one more |
| `lookup` | two processes, with and without a key, one name with two types, TTL 0, Timeout 1, Horizon 2, one change upstream, with and without `--refresh`, `general` asked for by name or not | `CacheIsTrue` `AnswerIsTrue` `UncachedIsCurrent` `CleanIsTrue` `FailureIsNamed` | no false negatives, no stale evidence, none of the other scope |
| `lookup_urls` | two URLs that differ in case | `AnswerIsOwn`, **violated** | they share one entry |
| `cli` | a name of two types with an extra section, a rejected target, text and JSON, TTL 0, Timeout 0, Horizon 1, two error codes | `SectionsAreTrue` `SectionsAccounted` `ExitOkIsVerified` `ExitCodeTells` `RunEnds` | sections are of the type that answered, as recent as it, and none is lost; exit codes mean what they say; the run ends |
| `cache_store` | two Puts, a Get, two Clears on one key, TTL 0, Horizon 1, kills, one outage | `NamesAreWhole` `TempsAreOwned` `RemovalsAddUp` `ClearIsThorough` `ImplementsMap` | the directory implements the map |
| `pulse` | walks from page 0, 1 or 5 with limit -1, 1 or 2, by nobody and by one of two keys, one revision, TTL 0, Timeout 1, Horizon 2, a 4-bit `int`, 2 items a page upstream | `ExactIsTrue` `EmbeddedIsRecent` `WalkReachesAll` `PanicIsOverflow` `WalkIsShort` `WalkEnds` | totals are current, embedded pages recent and of the caller's scope, a walk over one list returns all of it, every walk ends |
| `mcp` | three frames of every kind, pipes of 2 and 1, budget 1 in a window of 2, two requests a call | `RepliesInOrder` `ExitOkIsDrained` `KeyAsAsked` `CallCeiling` `ServerEnds` | answers in order, nothing lost, the server ends if it does not wait for ever for a reader |
| `mcp_tool` | tool calls only | `ToolCeiling`, **violated** | the budget is one call's, not the tool's |
| `mcp_notes` | as `mcp` | `NotificationsSilent`, **violated** | a ping without an id is answered |
| `report` | up to three of four pulses with blank, padded and repeated values, every stated count to 4, every limit and cap | `VotesAreReports` `ListedAreNewest` `TrimIsHonest` `RankingIsStable` | counts are of reports; what is cut is accounted for; a ranking has one order |
| `settings` | files of up to three lines, the key and one other variable in the environment, three values of `--timeout`, eight statuses | `SettingsAreAsWritten` `ConfigIsUsable` `AuthIsTrue` | precedence; usable values; four verdicts |
| `settings_flag` | as `settings` | `TimeoutFlagWins`, **violated** | a negative `--timeout` is passed over |

**Bounds.** Every bound is a named constant. `Horizon` ends the clock: in `limiter`,
7 ticks hold two full windows of 3 and a third sleep, so each stamp can leave the
window and be replaced twice. `Max = 2` is the least budget for which a prune can
cut off one stamp and keep another. In `lookup`, two processes and three instants
are enough for one to store an answer that changed during its exchange and the other
to find it at the edge of its age; `TTL = 0` puts that edge one tick away. The two
accounts there are told different things from the first (`MCHeldFirst`), so an
answer of the other scope shows. In `cli`, `TTL` and `Timeout` are 0 and the clock
reaches 1, so evidence may be of the instant the call begins and no older: an entry
one tick old must be a miss, for a section as for the rest. The section differs with
the type, so one of the wrong type shows; the exchange that outlasts a tick is
`lookup`'s. `MaxChanges = 1` suffices to make any answer stale once; `LastRevision =
1` does the same for `pulse`, whose lists are up to three long, so that a walk with
limit 1 or 2 crosses them in several pages and past the end; the second key only
stores details, which is how its answers come to the first. With 4 bits, page 5 of 2
is the least product that overflows. `MaxCount = 4` in `report` is one more than an
answer can list. In `cache_store` all calls share one key, because calls on
different keys touch different names; two Clears and two Puts are what the counting
and the overwriting need. In `mcp` three frames exceed both pipes, and `Horizon = 2`
is one full window. In `settings` three lines are what a header and two pairs of the
same name need, or two headers and a pair; the words include each way of being
unreadable, and the lengths 0, half a nanosecond, and one that does not fit.

**Symmetry** is used for the interchangeable processes of `lookup` and
`lookup_urls` and for the Puts and Clears of `cache_store`; no run with symmetry
checks liveness.

**Deadlock** is not checked: the clocks stop at `Horizon`, every call is made at
most once, and a program that has answered may stop. What must not stop is
stated as liveness instead.

**Fairness.** `limiter`: a started request goes on and time passes (the process
is scheduled, `time.Sleep` returns, `http.Client.Timeout` ends an exchange);
nobody has to start another request. `cli`: the run as a whole goes on, for the
same reasons; nothing obliges upstream to answer, only the exchange to end.
`pulse`: the caller and its call go on (`Step`), an exchange ends in an answer or
an error. `mcp`: `Serve`, the exchange in progress, and time; the client need not
write, read, close its pipe or hang up. `ServerEnds` speaks of the runs in which it
closes its pipe and in which the server does not wait for ever on a full stdout: it
may fill again and again, as long as somebody reads in between or hangs up. A server
nobody reads from does hang, with stdin closed or not. Other
processes, upstream's changes and outages are never fair.

### What the violated runs show

- **URL case** (`lookup_urls`): `cache.Key` folds the whole key to lower case, so
  `http://h/A` and `http://h/a` share an entry, and for the TTL one is answered
  with the other's pulses; `cache_test.go:94` says that "distinct inputs must not
  collide". Every other type is already case-insensitive.
- **Budget per call, not per tool** (`mcp_tool`): in the MCP server
  `max_per_hour` bounds each tool call by itself; `config.example.toml:56` says
  what "this tool will spend before pausing".
- **Notifications answered** (`mcp_notes`): `initialize`, `ping` and `tools/list`
  are answered before `handle` looks for an id; `server.go:104` says notifications
  "must not be answered".
- **A negative timeout** (`settings_flag`): `Load` looks at `--timeout` only if it is
  above zero (`config.go:80`), so `--timeout=-1s` is neither used nor refused;
  `config.go:49` says a "non-zero" one wins. `SettingsAreAsWritten` counts such a
  flag as none.

Met while modelling, and stated by the models, though no run is a counterexample:

- **Two keys, one scope.** `AuthScope` keeps of the account only whether there is a
  key (`cache.go:39-44`), and the base URL is in no key. After a change of key, or
  with two in use, one account is answered for the TTL with what the other was given.
  `AnswerIsTrue` and `EmbeddedIsRecent` promise no more than the scope.
- **The page cap.** A count is a lower bound (`types.go:72-74`, `engine.go:109-112`).
  An answer that states exactly 50 and lists 50 is not marked capped unless the limit
  cuts it, though upstream may hold more; `ListedAreNewest` says only that a result
  is marked when the *answer* shows more than the result does. (`live_test.go:96-100`
  expects 50 to be marked, which the default limit sees to.)
- **A panic ends the MCP server.** `get_pulse` with a page whose product with the
  limit overflows slices out of range (`pulse.go:169-176`) and `server.go` has no
  recover (`PanicIsOverflow`, `ToolPanics`). A product that wraps to a positive
  offset is a wrong page instead; no walk from the first page reaches one.
- **A request that is never answered.** `notifications/initialized` and
  `notifications/cancelled` get no answer even with an id (`server.go:117`): a client
  that sends one with an id and waits, waits for ever.
- **Text that is lost.** `renderText` ignores its write errors (`lookup.go:185-281`),
  so a run whose text did not fit on the disk can exit 0. Writing to a closed pipe
  kills the process instead.
- **A mixed walk.** A walk over a pulse's indicators that falls back to the embedded
  set half-way, or that a revision overtakes, may skip or repeat some.

And notes on what no property speaks of: `Requests()` is the length of a slice that
only the next request prunes, so it also counts requests that have left the window
since (`client.go:92`; it never counts too few, theorem `RequestsHold`); a 404 for a
hash OTX has never seen exits 1 (`lookup.go:65`); the note of a trimmed result says
that the values left out were named by "one or two pulses each", which the caps do
not ensure (`tools.go:270`); a `--config` path that does not exist is ignored
silently (`config.go:72`); a length of time cut to 0 means no timeout at all to
`http.Client` (the exceptions of `ConfigIsUsable`).

### What the properties say about age

`AnswerIsTrue` and `EmbeddedIsRecent` allow evidence from up to `TTL + Timeout`
before the call began, and not `TTL`: the entry is stamped after the exchange, so
it can pass for one exchange younger than its evidence. With `--refresh` the
slack is zero.

## 4. Proofs

Proved for every value of the constants, with no assumption but the named
`ASSUME`s of the modules (which the runs evaluate), unless stated:

| Module | Theorems | Inductive invariant |
|---|---|---|
| `LimiterProofs` | `TypeCorrect` `CeilingHolds` `BudgetHolds` `UpstreamSeesOneMore` `LatenessIsBounded` `SleepsAreBounded` `RequestsHold` `Refinement` | `IInv` |
| `LookupProofs` | `TypeCorrect` `CacheHolds` `UncachedHolds` `AloneHolds` `AnswerHolds` `CleanHolds` `SectionsHold` `SectionsAccountedHolds` `FailureHolds` | `IInv`, a conjunct per call |
| `CliRunProofs` | `RunIsLookup` `ExitCodeHolds` `ExitOkAloneHolds` `ExitOkHolds` | `CliInv` |
| `PulseProofs` | `ExactHolds` `EmbeddedHolds` `PanicHolds` | `Inv` |
| | `WalkReaches` `WalkStaysShort` | `WalkInv`, beside `Inv` |
| `CacheStoreProofs` | `TypeCorrect` `NamesHold` `TempsHold` `ClearHolds` `RemovalsHold` `Refinement` | `Inv`, `Counts` |
| `McpProofs` | `RepliesHold` `ExitOkHolds` `KeyHolds` `CallCeilingHolds` | `McpInv` |
| `ReportProofs` | `TypeCorrect` `VotesHold` `ListHolds` `TrimHolds` `RankingHolds` `SortLosesNothing` | `Inv` |
| `SettingsProofs` | `PrecedenceHolds` `UsableHolds` `AuthHolds` | `Inv` |

- **Limiter.** `IInv` strengthens the types with: the stamps are in order and not in
  the future; the live slice has at most `Max` stamps; what was pruned is a whole
  window old; while asleep the slice is full and `wake` is a window after its head;
  and an arrival lies between its stamp and the next one, at most one exchange late.
  `Refinement` rests on `CurrentIsTail`: after a prune the window's requests are
  exactly the live slice, because the stamps are in order, so the code's comparison
  of a length is the specification's count. The ceiling follows from the fullness
  while asleep: when `Wake` prunes at or after `wake` the head leaves, so the one
  append without a test is safe (lemma `WakeMakesRoom`). The bounds on upstream's
  view follow from the ceiling and from where arrivals lie.
- **Lookup**, for any number of processes, targets, types, sections and scopes. What
  came through the cache is known only up to what `Key` keeps of a slot: the folded
  target and the scope (`HeldAlike`). That much the properties `AnswerIsTrue`,
  `CleanIsTrue` and `SectionsAreTrue` say, and they hold with no assumption on what
  is folded. `AloneHolds` says that a target and account that are folded together
  with no other (every name, address and hash, where one API key is in use) are
  answered truly, whatever the others share; `AnswerIsOwn` claims this of all
  targets, and `lookup_urls` refutes it. What was fetched and not cached is the
  target's and the account's own (`UncachedHolds`). `SectionsAccountedHolds` is the
  one theorem that rests on `SectionsAssumption`: where one type of a target lacked
  a section the other has, the code would drop it. The invariant carries, for every
  call in progress, that the evidence gathered so far was held within the slack
  (which stays so as time passes), that an answer in flight is at most one exchange
  old, that every type passed over without an answer is in `Degraded` and marks the
  result incomplete, and that a loop past its end with nothing has an error.
- **CliRun.** `RunIsLookup` (a run of the command is a run of `Lookup`) brings the
  theorems above over. `ExitOkHolds` says that every target was answered, what was
  answered empty is empty up to `Alike`, and, with `--json`, that it was all
  written; of text it says nothing, because the code does not know.
  `ExitOkAloneHolds` is the sharper half for a target and account that are folded
  with no other. `ExitCodeHolds`: the flags tell which outcomes the targets dealt
  with have had, and those no longer change.
- **Pulse.** What is stored was current an exchange before its stamp, what a call
  holds is as recent as its result will say, and a revision that was current since
  an instant stays so (`CurrentStays`). That an entry found is of the caller's
  scope, and nothing more, is what the invariant knows of whose it is. `PanicHolds`
  holds for every width of `int`: when page times limit fits, the slice bounds are
  in order (`CutFits`).
- **Walks** (`PulseProofs`, second part). While all pages came from one list, what
  the caller has is the front of that list, page number times page size long
  (`Walked`), and the last answer is read right: the caller goes on only if its page
  began before the end of its list, and stops only if that list is exhausted
  (`LastFrom`). The embedded set cut here and a page cut upstream are then the same
  slice (`CutIsServed`); since the caller went on only before an end, the offset is
  at most twice the largest `int`, and an offset that wrapped is negative, so it
  panics rather than pass for another page (`WrapShows`).
- **CacheStore.** The invariant adds that an inode under a name, open, or seen by a
  Clear belongs to a Put that has renamed it (`Named`) and will not touch it again,
  and that what a Clear in progress has found is still on its list (`Sweeps`).
  `Refinement` then shows, one lemma per kind of call, that each file operation is a
  step of the map or a stutter. Of an outage it shows that what each name falls back
  to, and what a torn file stands for, is among what the map allows; so the map's
  own outage, which lets earlier records return, is what an unsynced directory can
  do: no record appears that its key never had. `RemovalsHold` counts from the time
  the machine last came up and needs no bound on the calls (`KeysAssumption`: the
  names are finitely many): `Counts` says that the names occupied and the removals
  counted are finite, and each step adds one entry to either, or moves one from the
  first to the second, or leaves both alone. `NamesHold` and `TempsHold` are of
  machines that have not been down.
- **Report**, for any number of pulses, categories, values and caps. That a set of
  positions or values can be listed in order is proved from an order that is total
  and transitive (`EnumerationExists`), and that there is one such list
  (`EnumerationUnique`, hence `RankingHolds`). Both need induction on the size of a
  set, which `NatSetInduction` gives for a *set* of numbers instead of an operator.
  `Inv` adds that once sorted the pulses are in order, that the ranking's head has
  the greatest counts (`FrontCounts`), and what each stage has done so far.
  `SortLosesNothing` is an action property: the pulses change once, into a
  rearrangement of themselves.
- **McpServer.** What is read, answered and still due agree with where `Serve` is,
  with no assumption on which frames have an id but that what is blank, garbled or
  too long shows none (`FramesAssumption`); each client remembers the frame it was
  built for; and the limiter's own invariant holds for the part of `taken` that
  belongs to the current client.
- **Settings.** The table is, after every line, what the file says (`RecordKeeps`),
  and after each layer every setting is what the layers so far say. `UsableHolds`
  reads the three exceptions off `Read`.

Only model-checked: liveness (`SleepEnds`, `RunEnds`, `WalkEnds`, `ServerEnds`),
which is outside the prover's reach. Every other property of a passing run is
stated by a theorem; the four violated ones are refuted by their runs.

## 5. Not modelled

Rendering, JSON layout, flag parsing, the dispatch over the first argument,
version and usage texts, the tools' descriptions and manual, packaging and the
live tests. The characters of the TOML reader: `Settings` has its lines, and what
each says. `Stat` and `cache status` only read; `summarize` copies fields;
`parseInterleaved` and `readTargets` order arguments and lines. `Classify`
recognises shapes by regular expressions: only its outcome is modelled. Second
clock reads between two lines of code that do not wait are merged. The wall clock
never goes back in the models: `Get` compares wall-clock stamps, so an entry
written before the clock is set back stays fresh longer, which no code here could
notice. Several processes spend one account's budget together; no document claims
otherwise.

## 6. Plan

1. More action properties of the modules already proved about: what a step of
   one call may never do to another's entry or result.
2. `Classify` on shapes, if a bounded alphabet that tells the rules apart can be
   found that is shorter than the rules.
