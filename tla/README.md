# A TLA+ model of pyflologic

pyflologic is an asyncio client library for FloLogic's Web API: it
authenticates, reads water valves, commands them, and decodes the webhooks that
FloLogic calls. This directory models the parts of it that keep state across
`await`s or that combine many cases, checks them with TLC on small instances,
and proves the central properties with TLAPS for instances of every size.
Paths below are relative to the repository; `auth.py` is
`src/pyflologic/auth.py` and so on.

## Inventory

| Component | State | Operations | Interacts through |
| --- | --- | --- | --- |
| Token providers, `auth.py` | `_token`, `_expires_at`, `_lock`, `tokens` | `async_get_token(force)`, `_async_obtain`, `async_exchange_code`, the application's `on_refresh` | called by every request; shared by all tasks; persists through the application |
| Authenticated requests, `client.py` `_async_request` | local only | two rounds, the second with a forced token | the provider, FloLogic's API |
| Confirmed writes, `client.py` `_async_command` | local only; updates `_valves` | `async_set_mode`, `async_set_flow_sensitivity` | PUT and status requests; other commands through the valves |
| Mode words, `enums.py`, `models.py` | none | `from_flag`, `mode_reflects`, `status`, `problem`, `shutoff_reason` | read by the writes and by the application |
| Discovery and valve cache, `client.py` | `_vids`, `_discovered_at`, `_valves` | `async_refresh`, `async_list_vids`, `async_get_valves`, `valves`, `get_valve` | status requests; overlapping readers |
| Callback definitions, `client.py` | kept by FloLogic | get, set, delete, add, remove | the company's list, shared with other consumers |
| Users, `client.py` | none | paged listing, one user | |
| Session lifecycle, `client.py` | `_session`, `_owns_session` | `_ensure_session`, `async_close`, `__aexit__` | every request holds a session across its awaits; the application may close one it supplied |
| Webhooks, `webhook.py`, `models.py`, `enums.py` | none | `build_callback_url`, `verify_callback`, `parse_callback`, `CallbackEvent.from_params`, `ValveMode.from_names` | FloLogic calls the application, by way of whatever lies between; the clocks of both |
| `AccessTokenAuth` | none | passes a call on | |
| Tools, `tools/` | none | scripts run by hand | |

asyncio tasks interleave only at `await`s, so an action of a model is what one
task does between two of them. What is hard in this code:

* **Tokens.** Many requests find one token stale or rejected at the same time.
  Refresh tokens rotate: each use of one spends it at the service before the
  client has seen, cached and persisted the next. Answers get lost, tasks are
  cancelled, `on_refresh` raises, the process dies, each at any `await`.
* **Retries.** A 401 is retried and a timeout is not; the retry takes a token
  that another task may have fetched.
* **Writes.** Accepted is not applied. A write takes effect late, never, twice
  (a resend crosses the first), or is overtaken by the valve itself or by
  another command, while three attempts share one timeout.
* **Valve cache.** A refresh lists the account page by page and then reads the
  valves chunk by chunk, while valves join, leave and change, and while another
  call does the same: the answers of one call overtake those of another, and a
  list of VIDs outlives the account it was made from.
* **Callback definitions.** The company's list is read in one request and
  written in another, by several consumers, and a write that was given up may
  still be applied.
* **Session.** A request looks up its session once and uses it after two or four
  `await`s; `async_close` waits for one session to close and then forgets
  whatever session is there.
* **Webhooks.** The receiver never sees the URL that was signed. It rebuilds it
  from a template and a query that may have been re-encoded on the way, in one of
  five ways, and each way it tries must let no other value pass.
* **Mode words.** 28 flags in any combination are read through five
  hand-written tables and three functions that must agree.

`PROJECT.json` lists each hazard at its line with the properties about it.

What makes each component correct: one renewal at a time, shared; nothing used
before it is saved; a spent refresh token never presented by a caller unless the
next one was lost; a retry that can succeed; a request applied at most once; a
confirmation that was observed; an error only after the timeout; a timeout that
holds up to a stated overrun; every call ends; readings that never contradict
each other; a listing that misses only what its moving pages hid; a cache that
shows what was true during the call that filled it; a definition lost only to a
write made from an outdated list; a URL registered twice only by a list that has
it twice; a session left open, or closed under a request, only by a close that
overlaps; a callback accepted only with the signed values in the parameters the
template asks for, refused only for a reason, and decoded to what happened
unless a parameter was added beside those of the event.

## Modules

| Module | Models | Built on |
| --- | --- | --- |
| `CachingProvider` | `_CachingProvider` with `ApiKeyAuth` and `OAuthAuth`, the token service, the application's store | |
| `AuthedRequest` | `_async_request`, FloLogic's API | extends `CachingProvider`; every step joins a provider step |
| `AuthedRequestProofs` | theorems about the two | |
| `ValveModes` | the flag tables and the functions that read a mode word | |
| `ModeWords` | the words themselves: bits come and go | extends `ValveModes` |
| `ModeWordsProofs` | theorems about every word | |
| `ConfirmedWrite` | `async_set_mode`, `async_set_flow_sensitivity`, `_async_command`, `_async_await_reflected`, `async_get_valves` | extends `ValveModes` |
| `ConfirmedWriteProofs` | theorems about it | |
| `Resends` | `ConfirmedWrite` with a history of which writes took effect | extends `ConfirmedWrite` |
| `Selections` | what a comprehension over a list keeps | used by `ValveCache` and `Callbacks` |
| `SelectionsProofs` | theorems about it, for every list | |
| `ValveReads` | what the caller of `get_valve` may rely on (abstract) | |
| `ValveCache` | `async_refresh`, `async_list_vids`, `async_get_valves` on one client, FloLogic's account | implements `ValveReads` |
| `ValveCacheProofs` | theorems about it, the refinement among them | |
| `Callbacks` | the four operations on callback definitions, FloLogic's list | |
| `CallbacksProofs` | theorems about it | |
| `Sessions` | the session, the requests that hold it, `async_close` | |
| `SessionsProofs` | theorems about it | |
| `Deliveries` | `build_callback_url`, `verify_callback` with all it calls, `from_params`, `from_names`, FloLogic's sending, relays | extends `ValveModes` |
| `DeliveriesProofs` | theorems about it | |
| `MC...` | symmetry sets, and the templates and events of `Deliveries`, for TLC | |

Some definitions are introduced by a comment "Mutant of ...". No specification
uses them. Each is a variant of the definition after it with a plausible bug,
and `PROJECT.json` pairs it with the property that the bug breaks.

### CachingProvider

A pair of tokens is named by the position of its issue, so pair `n` replaces
pair `n - 1`, and `issued` is the one whose refresh token is live. The
variables follow the source: `token` and `expiresAt` are `_token` and
`_expires_at`, `refresh` is `self.tokens.refresh_token`, `lock` and `ahead` are
the `asyncio.Lock` with its queue (for each waiter, who is before it), `pc`,
`force`, `stale` and `hand` are where each task is, the argument and the local
variable of its call, and the token it holds. `stored` is what the application
wrote in `on_refresh`; `lost` and `unsaved` are histories.

`Call` runs to the first `await` that really suspends: it answers from the
cache, sends a renewal, or queues. `Acquire` is the wake-up of the first
waiter. A renewal is `Mint` at the service, `Receive` at the client, `Saved` or
`SaveFails` in `on_refresh`; `Refused` is `invalid_grant`; `Fail` is every
other failure and cancellation, before or after the service granted the request.
`Crash` restarts from `stored`. `Reauthorize` is `async_exchange_code` after a
loss. An `ApiKeyAuth` is `Rotating = FALSE`: it starts with no token, and its
key is always accepted; a wrong key is one of the failures of `Fail`.

A request that a caller gave up (`Abandon`) may never reach the service, or be in
`pending` until the service handles it (`HandledLate`): at any time, even while
the next caller is renewing with the same refresh token. If it comes first, the
pair it makes reaches nobody, which counts as `lost`. If it comes after the next
caller was granted a pair, the service sees a spent refresh token although
nothing was lost, and may treat that as a compromise; the code cannot prevent it,
since a refresh that timed out must be tried again with the only token there is.
`ReplayOnlyAfterLoss` is about the other presentations, those a caller waits for:
none of them is of a spent token unless a pair was lost. What the service does to
an account whose spent token it sees is outside the model.

`TokenExpiry` is `token_expiry` by what it returns: the claim, or 0 when there
is none. `_cache` tests the result with `or`, so an `exp` of 0 is treated as
unreadable, here as there. The runs have readable tokens with lifetimes above 0
only: an expiry that cannot be read is a guess of 24 hours, of which the code
claims nothing.

### AuthedRequest

A task of the provider is one request of the client. `Start` opens it with
`Call(t, FALSE)`; `Proceed`, `TokenRefused`, `NoToken` and `Cancelled` are what
the provider does; `Arrive` is the request at the API, which takes a token until
its end unless it is revoked; `Finish`, `Retry`, `GiveUp` and `Timeout` are the
branches after the answer. A 404 and every other error status end the request in
the same way as a result does, so `Finish` stands for them all. `LateRenewal` is
the token service that handles a renewal whose request has ended.

### ValveModes and ModeWords

A word is the set of its bits by their names in `ValveMode`. All bits without a
name are one element, because the code only asks whether there is any. A
priority table is a sequence and `First` is the loop over it. `ShutoffReason`
has the table from flags to reasons and the fallback to the first flag there is,
which today's tables never reach. `ConfirmationMatchesReading` compares closed
with open only: `{HOME, BYPASS}` confirms a command of HOME and is read as
BYPASS, and that is what the code means by both.

### ConfirmedWrite

Each command has the local variables of the three functions: `deadline`,
`attempt`, `pending`, `until` (the deadline of `_async_await_reflected`),
`found`, and `rest`, the part of `pending` that the current pass of chunks has
yet to reach. Variables are reset where the function that owns them returns.
`due` is when the current sleep ends, or when the current request must have
ended; `Tick` never passes it. `PutChunk` and `ReadChunk` are FloLogic's
handling of one chunk; `Accepted` and `EndOfRead` are the arrival of the last
answer; `Judge` is the decision after a pass of reads, shared with `ReadFails`,
the `FloLogicConnectionError` that the code swallows. `Raises` is every other
exception and cancellation.

FloLogic is a count of accepted writes per command and valve; `Land` takes one
up at any time, or never. `Trip` closes a valve on a leak. With Delay Away a
valve answers an Away command with `{HOME, DELAY_AWAY}`, as
`tests/test_client.py` has it.

Sleeps and requests are whole ticks; a timeout is `Attempts` whole shares, so
that the rounding of `timeout / 3` is left out. The order of the VIDs is left
open: a chunk is any part of the right size.

The argument of a command is its `target`, a mode or a flow sensitivity, and
`status` has what a valve reports of both. `Reflects` is the predicate that the
two operations pass on: `mode_reflects` or `_drip_rate_reflects`. A rate that
FloLogic accepts and drops, because it is below the winter setting, is a write
that never lands. `OtherRate` is every other rate, and also a rate that is not
reported.

### ValveReads and ValveCache

`ValveReads` has the states of the valves, the states kept, and the tasks that
are inside a call. A call may take any time and find any valves; what it keeps
of a valve is a state the valve was in since the call began. `ValveCache`
implements it with `reading <- Reading`, the tasks that are busy; the other
variables have the same names in both.

`vids`, `discoveredAt` and `valves` are `_vids`, `_discovered_at` and `_valves`;
`page`, `listed`, `rest` and `found` are the local variables of
`async_list_vids` and `async_get_valves`. The state of a valve is the number of
times it has changed, which is all that matters of it here. `account` is a
sequence, because the pages of FloLogic's listing are pieces of it: a valve that
leaves moves the rows behind it to an earlier place, and one that joins moves
them to a later one. A page envelope is taken to be truthful.

`Refresh` and `GetValves` run to the first request, `ListPage` is one page,
`EndOfListing` and `EndOfRead` are the arrival of the last answer with all that
follows before the next `await`, and `ReadChunk` is FloLogic's handling of one
request. `Fails` is an exception or a cancellation at any of them. `Join`,
`Depart` and `Change` are FloLogic's. `Opens` and the variables `since`,
`before`, `owed`, `was` and `departed` are histories: what was so when the call
began, and what has joined and left since.

`_async_command` changes `_valves` only through `async_get_valves`
(`ConfirmedWrite`), so its reads are calls of `GetValves` here.

### Sessions

`owned`, `session` and `held` are `_owns_session`, `_session` and the local
variable `session` of each request; sessions are numbered as they are opened.
`Start` is `_ensure_session`, `Sends` and `Answered` are the two awaits of a
round, with the retry after a first 401 on the session held since the start.
`Close` runs to the `await` inside `aiohttp`'s `close()`, which marks the session
closed before it waits, and may not wait at all; `CloseEnds` is what follows,
and `CloseFails` is a `close()` that raises or is cancelled, after which the
client keeps the session.
`SuppliedCloses` is the application that closes the session it supplied. A
request that is made on a closed session gets a `RuntimeError` from `aiohttp`,
which no handler of the client catches; one whose session is closed while it is
out gets a `ClientError`. `overlaid` and `disturbed` are histories: the sessions
that were opened while a close was waiting, and the requests whose session was
closed while they held it.

### Deliveries

A URL is its path and its parameters, each of them a constant or a placeholder.
A text is the value it decodes to together with the spelling of its spaces and
its percent escapes, in so far as the value has any: that is all the four
encoders of `_encoder` differ in. A signature is the record of what it covers
(the secret, the time and the URL), so that equality of signatures is equality of
those; HMAC itself is taken to be sound. `Candidates` are the URL from the query
as it arrived and the four that substitute the parameters into the template.
`Receive` is `verify_callback`: `Verified` and then `FromParams`.

The key of a parameter is a name and whether it is written with a capital. The
code folds keys in two places, and reads them without folding in a third:
`Values` is the dictionary by `key.lower()` that fills the template, where the
last parameter of a name wins; `Params` is the one by the key as it stands, from
which `Clean` drops blanks and placeholders and then folds, so that of two
spellings of a name the one inserted later wins.

FloLogic (`Send`) fills the placeholders it knows, in any of the four spellings,
signs with its own clock and one of two secrets, and writes a mode as one
number, or as a list in which each bit has FloLogic's name, the client's or its
number; `BitsOfName` reads any number, of whichever bits. `Reencode`, `Reorder`,
`Tag` and `Damage` are what may happen on the way, up to `MaxHops` times. `Tag`
adds a parameter with one of `RelayKeys`: a key of the relay's own, an alias of
a parameter of the event, or another case of one. The path that the receiver
sees is the one it registered, as in the code.

`heard` holds what was accepted with its event, `refused` what was not and when.
`Rebuildable` names the deliveries that the code cannot accept: FloLogic filled a
placeholder in the path that the query does not repeat, or the query was changed
and the template has a placeholder that FloLogic does not know. In the second
case the placeholder arrives as a parameter whose value is its own text, and is
encoded like any other value.

Both properties of what is accepted have a limit that is the code's. The
signature covers the template as filled: `HeardIsWhatWasSent` says that the last
parameter of each name the template asks for, in whatever case of its key, has
the value that was signed. Whatever else the query has comes along, in
`event.params` too. So `EventIsWhatHappened` is about a `Legible` query: each
parameter of an event has one key, and is one that FloLogic fills or is blank. An
alias of such a parameter that is added on the way, `message=` beside a blank
`reason` for one, may leave a callback that is accepted with an event that shows
the addition, and so may another case of its key; an application that registers
`?reason=leak` has written the reason itself. The run has such deliveries:
without `Legible` TLC finds the property violated.

### Callbacks

A row of FloLogic's list is a definition or one that
`CallbackDefinition.from_json` rejects; `Parsed` drops those, so the next write
drops them from the list too. `BeginUpdate` and `BeginReplace` are the calls up
to their first request, `Get` reads the list and makes the new one, `Put` writes
it. `async_set_callbacks` writes the list it is given as it is, so `Lists` has
lists with one URL twice too. `GiveUp` is every failure and cancellation; a
write that was given up may be in `late`, and `Late` applies it at any time
after. `outdated`, `overwritten`, `meant` and `doubled` are histories: who holds
a list that was replaced since, whether one of those was written, the
definitions that the calls applied one after another leave, and the URLs that a
list which was set, or the one the company began with, has twice.

## Runs

| Run | Instance | States | Shows |
| --- | --- | --- | --- |
| `provider_oauth` | 3 tasks, lifetimes 1 and 2, margin 1, time 0..1, 4 pairs | 1,121,000 | `RenewalsAreShared`, `SavedBeforeUse`, `ReplayOnlyAfterLoss`, `RestartCanRefresh`, `NeverBackToAnOlderToken` |
| `request_oauth` | 3 requests, lifetimes 1 and 3, time 0..1, 3 pairs, 1 revocation | 579,000 | `RetryCarriesANewerToken`, `AcceptedAtMostOnce`, and `UsesProvider`, the refinement |
| `request_live` | 3 requests, 2 pairs, no clock | 22,400 | `EveryRequestEnds`, `EveryCallEnds` |
| `valve_modes` | all words of at most 3 of 29 bits | 4,090 | confirmation, headline, reason and problem agree |
| `write_chunks` | 1 command, a mode or a rate, 2 valves, 1 per request, 2 attempts of 2 polls | 633,000 | what return, error and timeout mean; every command ends |
| `write_concurrent` | 2 commands, 1 valve, 2 attempts | 1,511,000 | `ConfirmedMeansObserved` under opposite commands |
| `valve_cache` | 2 callers, 2 valves, 1 per page and per request, interval 1, time 0..1, 3 calls, 2 changes | 1,948,000 | `ListingMissesOnlyDepartures`, `ReturnsTheAccount`, `ReadsGoForward`, and `KeepsWhatWasTrue`, the refinement |
| `callbacks` | 2 consumers, 2 URLs, lists of up to 2 definitions, 3 calls | 2,377,000 | `LossNeedsAnOutdatedWrite`, `OneRowPerUrl` |
| `sessions` | 3 tasks, 2 that close, 4 sessions | 1,996,000 | `LeaksOnlyWhileClosing`, `OnlyACloseBreaksARequest` |
| `deliveries` | 7 templates, 3 events, 1 callback, 2 relays that may add 3 keys, clock 0..1, skew -1 and 2, tolerance 1 | 629,000 | `HeardIsWhatWasSent`, `GenuineIsHeard`, `EventIsWhatHappened` |
| `good_credentials`, `resend` | 2 requests; 1 command on 1 valve, 3 attempts | | two statements of comments and docstrings that the code does not keep, below |

The bounds are named constants. `MaxTokens`, `MaxTime`, `MaxRevokes`,
`MaxStart`, `MaxTrips`, `MaxBits`, `MaxCalls`, `MaxChanges`, `MaxSessions`,
`MaxSends` and `MaxHops` bound the model and not the code. Three tasks give one
that renews, one that waits and one that arrives late; four pairs give an old, a
spent, a live and a fresh one with one to spare. A lifetime of 1 with a margin
of 1 gives tokens that are stale on arrival, and 2 gives tokens that one tick
makes stale; `async_get_token` compares a token with the clock in `_valid` only,
so that it tells no expired token from a stale one. A lifetime of 3, in
`request_oauth`, gives one that stays valid while time passes. No table test
looks at more than three bits at once. Two attempts give a first one and a
resend, and two polls an attempt whose first read is not its last; `resend` has
the three attempts of the code. `MaxTime` of the writes is beyond the last
moment `RetriesShareTheTimeout` allows, so it does not hide an overrun. One row
per page and one VID per request make a listing of two valves, and their
reading, take two requests. Three calls give two that overlap and one that
follows; two changes give a valve that leaves between two pages and one that
joins, or a state that changes twice. The expiry of the list needs one tick.
Four sessions give one that a waiting close forgets, one in its place, and two
more for those who come after. The templates of `deliveries` ask for everything
by its own name; for the aliases; for the VID in the path, repeated in the query
or not; for a name that FloLogic does not know, in the query and in the path;
and carry a constant parameter before one whose key has a capital. The three
keys a relay may add are one that nothing reads, an alias and another case of a
parameter of the event. Callbacks do not interact, so one is enough; two relays
give one that changes the order or the spelling after another that damaged or
added something. A skew of 2 with a tolerance of 1 puts a callback outside the
window that one tick brings into it, and a skew of -1 one at its edge that one
tick takes out. Three calls of `callbacks` give two consumers that overlap and a
third call that tries again after one that was given up; lists of two
definitions have a URL twice or not.

`ApiKeyAuth` (`Rotating = FALSE`) has no run of its own: the steps are those of
`provider_oauth` without the refresh token, and the theorems below hold for both
values of the constant.

Deadlock is not checked: with its clock, its tokens and its commands used up, a
bounded instance stops.

### Fairness

`request_live` assumes that a renewal that is under way, a waiter whose turn it
is, and a request that is out each make some step: the event loop runs ready
tasks, and `aiohttp.ClientTimeout(total=...)` ends every exchange that gets no
answer. It includes an `on_refresh` that returns or raises. It does not assume
that anything succeeds. `write_chunks` assumes the same of the requests and
sleeps of a command, and that time passes.

### What the comments say and the code does not do

* `good_credentials`. `client.py:224`: "only a second rejection means the
  credentials themselves are bad". A retry may carry a token that another task
  fetched and that was revoked since. `FloLogicAuthError` is raised while a
  renewal would have worked.
* `resend`. `client.py:69`: "resending one that did land changes nothing". A
  valve takes up HOME, closes on a leak before it is read, is read as not in
  HOME, and is sent HOME again, which opens it.

Three more differences are no run of their own. `auth.py:180` says "a forced
renewal is only needed if the token is still the one that failed", but `stale` is
read when `async_get_token` is called and not when the rejected request was sent:
a 401 that comes after another task's renewal renews again, one needless
rotation. `exceptions.py:70` says "The requested valve has not been seen by this
client", but a valve that joins after a discovery and is read with
`async_get_valves` is dropped by the next refresh, which reads the older list and
puts its valves in place of all. `RuntimeError` leaves a request whose session
was closed while it waited for its token: `OnlyACloseBreaksARequest` says when,
and `exceptions.py` has no name for it.

## Proofs

Every invariant and action property that a passing run checks is also a theorem
of its specification, and so are both refinements; what is left to TLC alone is
at the end of this part.

The first part of `AuthedRequestProofs` proves the properties of
`CachingProvider` for every set of tasks, every bound and every lifetime, from
the named assumptions of `CachingProvider` only. The properties are not
inductive, and the invariant `IInv` adds what they rest on:

* `HandsOK`: no token held by a task or in the store is newer than the last one
  issued, and a task whose renewal was granted carries exactly that one, which
  no request that was given up presents. It ties the task inside the lock to the
  service, and is why a request that is handled late takes nothing from a
  renewal under way.
* `ChainOK`: the refresh token presented is the one held; the one held is live
  unless its successor is on the wire or was lost; the one stored is no newer
  than the one held.
* mutual exclusion, as the part of `TypeOK` that says that a task renews exactly
  if it has the lock.

The proof has one lemma per action. `Enter`, the end of a renewal and a restart
occur in several actions and have lemmas of their own. `NoNeedlessReplay` then
follows from `HandsOK` and `ChainOK`, and `TokensOnlyGetNewer` from the
invariant and one step.

The second part proves that each step of the requests is a step of
the provider or leaves it alone (`ClientUsesProvider`), so that every theorem
about the provider carries over (`RequestsCarrySavedTokens` is one that does).
`RetriesAreWorthIt` needs two facts that relate the two state machines:
`Behind`, that what a task knows of the cached token is never newer than it, and
`SecondRound`, that a task in its second round either waits with a forced call
off a token no older than the rejected one, or holds a newer token.
`NothingIsAppliedTwice` needs one more, `Once`: a request that may yet be sent has
not been accepted.

`ModeWordsProofs` proves the four properties of `ModeWords` for words of any
number of bits. `FirstIsFirst` says what the loop over a priority table returns;
the rest are facts about the tables.

`ValveCacheProofs` proves that `ValveCache` implements `ValveReads`
(`CacheImplementsReads`) and that only calls that overlap can turn the cache
back (`OnlyOverlapsTurnBack`), for every set of tasks, every finite set of
valves, every page and chunk size and every interval. Both rest on `Ordered`,
four facts about the order of states: no state that is kept is newer than the
valve's, what a call has found lies between the state when it began and the
present one, what was kept when it began is no newer than the state then, and
that state is no newer than the present one. `ReadsGoForward` is the second and
the third put together. The refinement has one step per action of `ValveCache`:
the requests and the account are stutters of `ValveReads`, and the arrival of
the last answer is `CallEnds` with what the call found as the witness.

`ConfirmedWriteProofs` proves the properties of `ConfirmedWrite` for every set
of commands and valves, every chunk size, number of attempts, share, poll
interval and request time, but for liveness. Its invariant adds, for each
command, `Counted` (a valve has as many writes in flight as there were attempts
at most, and one less until the current pass reaches it), `Observed` and `Cached`
(a valve that is no longer pending was seen at the target, and is in the cache at
the target unless another command reads it), and the two that are about time.
`Timely` is the reason why no command fails early: after `k` attempts the part
`Left(k)` of the timeout remains, attempt `k` starts no earlier than `k - 1`
shares after the command and ends no earlier than `k` shares after it or at the
deadline, so that the last one ends at the deadline.

Its last part proves `RetriesShareTheTimeout` on top of that. `Cost` is the time
that the requests for a set of valves may take. It grows with the set and falls
by one request time with each chunk (`CostOfChunk`, from the quotient that
counts the requests). The invariant `Bounded` says that the end of the current
request and the cost of those that follow it in the pass lie within one `Cost`
of the deadline for writes, and within two for reads: a pass of writes begins
before the deadline, a sleep ends by the deadline or at once, and only a pass of
reads may follow.

`SessionsProofs` rests on `Kept`, that the session which a waiting close is going
to forget is closed, or was opened meanwhile, and that a supplied session is
never replaced; and on `Known`, that a request whose session is closed held it
when it was closed, since it started on an open one.

`DeliveriesProofs` reduces its first two theorems to what one callback carries
along the way. `Signed` says that the signature is the one of the URL that
FloLogic filled, none of its values being a placeholder. `VerifiedIsGenuine`
is the core of `HeardIsGenuine`: whichever candidate matches, a parameter that
fills a placeholder of the signed URL decodes to the value that was signed,
because the record of a spelling includes its value. `GenuineVerifies` is the
core of `OnlyDamageIsRefused`: from intact values one of the four substitutions
gives the signed URL.

The third theorem, `EventTellsWhatHappened`, follows a callback further, into
the tables of names. `Told` says of each one under way that its values are what
FloLogic may write for its event, which no relay changes. What was accepted
carries those values, by the first theorem; if its query is `Legible`, each
parameter of an event has one key (`KeysTold`), so that the dictionary by folded
keys and the one by keys as they stand agree on it (`CleanOfOneKey`), and one
that FloLogic does not fill is absent (`CleanOfNone`). `WordRead` is about the
tables: from any of the ways a word may be written, `from_names` gets no bit
that was not in it, and the bits it cannot name are kept as names.

`SelectionsProofs` is about `[row for row in rows if ...]`, which three operations
of the client use. `Kept` is a recursive function over the length of the list;
that it exists, that it keeps the rows selected and no others, each as often as
it occurs and in their order, is proved for every list by induction, in the form
of the least number that fails (`UpTo`).

`CallbacksProofs` shows that the list FloLogic holds is what the applied calls
leave, as long as no outdated list was written. `UpdateHasItsEffect` relates what
`async_add_callback` and `async_remove_callbacks` make of a list to what the call
means for the set of definitions. The invariant says that a list a consumer is
about to write, or gave up and may yet be applied, is what the call makes of the
present one or is marked as outdated; `ListChanges` is the step in which
another write turns the first into the second. `Apart` says of a list that only
the URLs of `doubled` are in it twice, which `Update` keeps (`KeptStaysApart`)
and which is `OneRowPerUrl` of the present list (`ApartIsTwice`).

The second part of `ValveCacheProofs` is about the listing. `LInv` says what each
stage of a call may still miss. While the pages are read, what has been passed by
is in the rows that were read (`Passed`) without having been read itself
(`Missed`). A valve that leaves moves the rows behind it up by one, so that at
most one of them moves into those passed (`Removal`); a valve that joins moves
rows only away from them (`Insertion`); and a page takes in every row between
its first and its last. So `Missed` never has more members than valves have left,
and at the last page it is all that is missed. TLC checked `LInv` on two
instances before it was proved. The bound on pages in `CacheTypeOK` comes with it:
a page after the first is asked for only if the rows before it are fewer than the
valves there are, while an account without valves still has one page.

Only model-checked: `EveryCallEnds`, `EveryRequestEnds` and `EveryCommandEnds`,
the liveness properties, which are out of the prover's reach. What the two runs
that end in a violation show is a counterexample and needs no proof.

## Not modelled

* *Users.* Read-only, and nothing is kept. The paging is that of
  `async_list_vids` (`ListPage`) without the test for duplicates, so a row that
  moves between two pages while they are read is listed twice or not at all.
* *`AccessTokenAuth`* passes a call on and keeps nothing.
* *`on_refresh` that calls the client.* It waits for the lock that its own caller
  holds, for ever: `asyncio.Lock` is not reentrant. The model's `on_refresh`
  returns or raises.
* *Conversions of one value*: `lookup`, `_as_int`, `parse_datetime`, the numeric
  fields, device and event types of a callback. They depend on nothing but the
  value, and the unit tests enumerate them.
* *Webhooks*: a missing or malformed timestamp or signature, and how a header is
  found, which are single tests with no state. Of the parameters that the
  template does not ask for, which no signature covers, only what they do to the
  reason and the modes is modelled (`Deliveries`).
* *Unreadable expiries.* `TokenExpiry` has them and no run does: a token whose
  claim is missing, or 0, is kept for 24 hours.
* *What the application cannot tell*: which valves a command had reached when a
  later chunk raised, that an accepted command ended with an error of a status
  read (`Raises` covers both), and that a callback row which does not parse was
  dropped by a rewrite of the list (`Parsed`). The code does so and no document
  denies it.
* *Rates*: `_NUMERIC_TOLERANCE` is equality here.
* HTTP forms and headers, error texts, HMAC, URL parsing, logging, the tools.
