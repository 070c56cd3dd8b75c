--------------------------- MODULE CachingProvider ---------------------------
(***************************************************************************)
(* The token cache of src/pyflologic/auth.py: _CachingProvider with its    *)
(* two obtaining strategies, ApiKeyAuth (a key is exchanged for a token)   *)
(* and OAuthAuth (a refresh token is exchanged for a new pair of access    *)
(* and refresh token, and every exchange invalidates the refresh token     *)
(* before it).  Asyncio tasks share one provider.  A task gives up control *)
(* only at an await, so one action is what a task does between two awaits. *)
(*                                                                         *)
(* The token service and the application's store are the environment.  A   *)
(* pair is named by the position of its issue: pair n is access token n    *)
(* together with refresh token n, and None is "no token".                  *)
(***************************************************************************)
EXTENDS Naturals

CONSTANTS
    Tasks,          \* asyncio tasks that use the provider
    NoTask,         \* the value of a free lock
    Rotating,       \* TRUE: OAuthAuth; FALSE: ApiKeyAuth
    Saves,          \* TRUE: OAuthAuth was given an on_refresh callback
    Readable,       \* TRUE: access tokens are JWTs with an exp claim
    Lifetimes,      \* lifetimes the token service gives to access tokens
    TokenLifetime,  \* const.TOKEN_LIFETIME: assumed of an unreadable token
    Margin,         \* const.TOKEN_REFRESH_MARGIN
    MaxTime, MaxTokens   \* bounds of the model, not of the code

ASSUME TaskAssumption == NoTask \notin Tasks

ASSUME FlowAssumption ==
    /\ Rotating \in BOOLEAN /\ Saves \in BOOLEAN /\ Readable \in BOOLEAN
    /\ Saves => Rotating

ASSUME TimeAssumption ==
    /\ Lifetimes \subseteq Nat \ {0}
    /\ TokenLifetime \in Nat \ {0}
    /\ Margin \in Nat

ASSUME BoundAssumption ==
    /\ MaxTime \in Nat
    /\ MaxTokens \in Nat \ {0}

VARIABLES
    now,        \* the Unix clock
    issued,     \* token service: last pair issued, whose refresh token is live
    ends,       \* token service: when each access token stops working
    pending,    \* token service: the refresh tokens of the requests it has yet to
                \* handle though their callers gave up on them
    token,      \* self._token
    expiresAt,  \* self._expires_at
    refresh,    \* self.tokens.refresh_token (OAuthAuth)
    lock,       \* self._lock: the task inside, or NoTask
    ahead,      \* self._lock: for each waiting task, the waiters before it
    pc,         \* where each task is in async_get_token
    force,      \* the force argument of each task's call
    stale,      \* the local variable "stale" of each task's call
    hand,       \* the token a task presents, is sent, or has been given
    stored,     \* the pair the application last wrote in on_refresh
    lost,       \* history: a rotated pair never reached the program or store
    unsaved     \* history: on_refresh failed before it wrote the last pair

service == <<issued, ends, pending>>
cache == <<token, expiresAt>>
queue == <<lock, ahead>>
locals == <<force, stale>>
history == <<lost, unsaved>>
vars == <<now, service, cache, refresh, queue, pc, locals, hand, stored, history>>

None == 0
Token == 1..MaxTokens
Maybe == 0..MaxTokens

\* A task outside async_get_token: without a token, or with the one it got.
Quiet == {"idle", "returned"}
\* A task inside _async_obtain, or in the on_refresh it awaits.
Renewing == {"asking", "minted", "saving"}
Waiting == {t \in Tasks : pc[t] = "waiting"}

-----------------------------------------------------------------------------
\* token_expiry: what the claim says, 0 for a token without a readable one.
\* An exp claim of 0 is a number, and "or" in _cache discards it all the same.
TokenExpiry(n, e) == IF Readable THEN e[n] ELSE 0

\* _cache: remember access token n, given the table e of end times.
Cache(n, e) ==
    /\ token' = n
    /\ expiresAt' = IF TokenExpiry(n, e) # 0 THEN TokenExpiry(n, e)
                                             ELSE now + TokenLifetime

\* _valid.  now < expires_at - margin, without a negative number.
Valid == token # None /\ now + Margin < expiresAt

\* Mutants of Usable: a forced caller does not look again once it has the lock,
\* or takes the cached token whatever it is.
UsableIfPlain(f, old) == Valid /\ ~f
UsableIfValid(f, old) == Valid

\* The condition under which async_get_token answers from the cache.
Usable(f, old) == Valid /\ (~f \/ token # old)

-----------------------------------------------------------------------------
\* ApiKeyAuth starts without a token; OAuthAuth caches the tokens it is given.
Init ==
    /\ now = 0
    /\ issued = IF Rotating THEN 1 ELSE None
    /\ \E life \in Lifetimes :
          ends = [n \in Token |-> IF Rotating /\ n = 1 THEN life ELSE 0]
    /\ pending = {}
    /\ token = issued
    /\ expiresAt = IF ~Rotating THEN 0
                   ELSE IF Readable THEN ends[1] ELSE TokenLifetime
    /\ refresh = issued /\ stored = issued
    /\ lock = NoTask
    /\ ahead = [t \in Tasks |-> {}]
    /\ pc = [t \in Tasks |-> "idle"]
    /\ force = [t \in Tasks |-> FALSE]
    /\ stale = [t \in Tasks |-> None]
    /\ hand = [t \in Tasks |-> None]
    /\ lost = FALSE /\ unsaved = FALSE

-----------------------------------------------------------------------------
\* Mutant of Release: the lock stays taken.
KeepLock == UNCHANGED lock

\* The end of "async with self._lock".
Release == lock' = NoTask

\* Task t leaves async_get_token, with access token n or (None) an exception.
Leave(t, n) ==
    /\ pc' = [pc EXCEPT ![t] = IF n = None THEN "idle" ELSE "returned"]
    /\ hand' = [hand EXCEPT ![t] = n]
    /\ force' = [force EXCEPT ![t] = FALSE]
    /\ stale' = [stale EXCEPT ![t] = None]

\* The body of "async with self._lock" up to its first await: answer from the
\* cache and let the lock go, or keep it and send the renewal request.
Enter(t, f, old) ==
    \/ /\ Usable(f, old)
       /\ Leave(t, token)
       /\ Release
    \/ /\ ~Usable(f, old)
       /\ pc' = [pc EXCEPT ![t] = "asking"]
       /\ hand' = [hand EXCEPT ![t] = refresh]
       /\ force' = [force EXCEPT ![t] = f]
       /\ stale' = [stale EXCEPT ![t] = old]
       /\ lock' = t

\* A call: read the stale token, then take the lock or queue for it.  An
\* asyncio.Lock is fair: while others wait, a newcomer waits behind them.
Call(t, f) ==
    /\ pc[t] \in Quiet
    /\ \/ /\ lock = NoTask /\ Waiting = {}
          /\ Enter(t, f, token)
          /\ UNCHANGED ahead
       \/ /\ lock # NoTask \/ Waiting # {}
          /\ pc' = [pc EXCEPT ![t] = "waiting"]
          /\ hand' = [hand EXCEPT ![t] = None]
          /\ force' = [force EXCEPT ![t] = f]
          /\ stale' = [stale EXCEPT ![t] = token]
          /\ ahead' = [ahead EXCEPT ![t] = Waiting]
          /\ UNCHANGED lock
    /\ UNCHANGED <<now, service, cache, refresh, stored, history>>

\* The first waiter is woken and enters.
Acquire(t) ==
    /\ pc[t] = "waiting" /\ lock = NoTask /\ ahead[t] = {}
    /\ Enter(t, force[t], stale[t])
    /\ ahead' = [u \in Tasks |-> ahead[u] \ {t}]
    /\ UNCHANGED <<now, service, cache, refresh, stored, history>>

\* A waiter is cancelled; those behind it move up.
CancelWaiting(t) ==
    /\ pc[t] = "waiting"
    /\ Leave(t, None)
    /\ ahead' = [u \in Tasks |-> IF u = t THEN {} ELSE ahead[u] \ {t}]
    /\ UNCHANGED <<now, service, cache, refresh, lock, stored, history>>

\* The caller is done with the token it got.
Forget(t) ==
    /\ pc[t] = "returned"
    /\ Leave(t, None)
    /\ UNCHANGED <<now, service, cache, refresh, queue, stored, history>>

-----------------------------------------------------------------------------
\* The token service issues a new pair, with an access token that lives as
\* long as the service likes.
Issue ==
    /\ issued < MaxTokens
    /\ issued' = issued + 1
    /\ \E life \in Lifetimes : ends' = [ends EXCEPT ![issued + 1] = now + life]

\* The service grants the request of task t, and the answer is on its way.  It
\* takes the API key at any time, and only the live refresh token.
Mint(t) ==
    /\ pc[t] = "asking"
    /\ Rotating => hand[t] = issued
    /\ Issue
    /\ pc' = [pc EXCEPT ![t] = "minted"]
    /\ hand' = [hand EXCEPT ![t] = issued + 1]
    /\ UNCHANGED <<now, pending, cache, refresh, queue, locals, stored, history>>

\* invalid_grant: the refresh token was rotated away, and FloLogicAuthError
\* leaves async_get_token.
Refused(t) ==
    /\ pc[t] = "asking" /\ Rotating /\ hand[t] # issued
    /\ Leave(t, None)
    /\ Release
    /\ UNCHANGED <<now, service, cache, refresh, ahead, stored, history>>

\* The refresh tokens that tasks are waiting for an answer to.  A second request
\* with an API key changes nothing for the first, and needs no such account.
Presented(T) == {hand[t] : t \in {u \in T : Rotating /\ pc[u] = "asking"}}

\* The client lets go of the requests of tasks T: they never reached the service,
\* or they are on their way to it all the same.
Abandon(T) == pending' = pending \/ pending' = pending \cup Presented(T)

\* The renewal fails some other way: no connection, a timeout, an error
\* status, an unusable body, or the task is cancelled.  After "minted" the new
\* pair is gone.
Fail(t) ==
    /\ pc[t] \in {"asking", "minted"}
    /\ Leave(t, None)
    /\ Release
    /\ Abandon({t})
    /\ lost' = (lost \/ (Rotating /\ pc[t] = "minted"))
    /\ UNCHANGED <<now, issued, ends, cache, refresh, ahead, stored, unsaved>>

\* The service handles a request that nobody waits for any more.  A live token
\* is exchanged for a pair that reaches nobody; one that a later caller has
\* exchanged meanwhile is refused, and the service has seen it twice.
HandledLate(r) ==
    /\ pending' = pending \ {r}
    /\ \/ r = issued /\ Issue /\ lost' = TRUE
       \/ r # issued /\ UNCHANGED <<issued, ends, lost>>
    /\ UNCHANGED <<now, cache, refresh, queue, pc, locals, hand, stored, unsaved>>

\* Mutants of Receive: the token is cached and used before on_refresh is done
\* with it, and self.tokens keeps the pair that was just rotated away.
ReceiveAndUse(t) ==
    /\ pc[t] = "minted"
    /\ refresh' = IF Rotating THEN hand[t] ELSE refresh
    /\ Cache(hand[t], ends)
    /\ Leave(t, hand[t])
    /\ Release
    /\ UNCHANGED <<now, service, ahead, stored, history>>

ReceiveTokenOnly(t) ==
    /\ pc[t] = "minted"
    /\ pc' = [pc EXCEPT ![t] = "saving"]
    /\ UNCHANGED <<now, service, cache, refresh, queue, locals, hand, stored, history>>

\* The answer arrives.  OAuthAuth takes the pair and, if there is an
\* on_refresh, awaits it before the access token is cached and returned.
Receive(t) ==
    /\ pc[t] = "minted"
    /\ refresh' = IF Rotating THEN hand[t] ELSE refresh
    /\ \/ /\ Saves
          /\ pc' = [pc EXCEPT ![t] = "saving"]
          /\ UNCHANGED <<cache, lock, locals, hand>>
       \/ /\ ~Saves
          /\ Cache(hand[t], ends)
          /\ Leave(t, hand[t])
          /\ Release
    /\ UNCHANGED <<now, service, ahead, stored, history>>

\* Mutant of Saved: the awaitable that on_refresh returned is not awaited.
SavedUnawaited(t) ==
    /\ pc[t] = "saving"
    /\ unsaved' = FALSE
    /\ Cache(hand[t], ends)
    /\ Leave(t, hand[t])
    /\ Release
    /\ UNCHANGED <<now, service, refresh, ahead, stored, lost>>

\* on_refresh has written the pair and returns.
Saved(t) ==
    /\ pc[t] = "saving"
    /\ stored' = hand[t] /\ unsaved' = FALSE
    /\ Cache(hand[t], ends)
    /\ Leave(t, hand[t])
    /\ Release
    /\ UNCHANGED <<now, service, refresh, ahead, lost>>

\* on_refresh raises, or the task is cancelled in it, before or after the
\* write.  The pair stays in self.tokens and its access token is not cached.
SaveFails(t) ==
    /\ pc[t] = "saving"
    /\ \/ stored' = hand[t] /\ unsaved' = FALSE
       \/ stored' = stored /\ unsaved' = TRUE
    /\ Leave(t, None)
    /\ Release
    /\ UNCHANGED <<now, service, cache, refresh, ahead, lost>>

-----------------------------------------------------------------------------
\* A new process: every task is gone, and the provider is constructed again,
\* OAuthAuth from pair n.
Restart(n) ==
    /\ \/ Rotating /\ Cache(n, ends')
       \/ ~Rotating /\ token' = None /\ expiresAt' = 0
    /\ refresh' = n
    /\ lock' = NoTask
    /\ ahead' = [t \in Tasks |-> {}]
    /\ pc' = [t \in Tasks |-> "idle"]
    /\ force' = [t \in Tasks |-> FALSE]
    /\ stale' = [t \in Tasks |-> None]
    /\ hand' = [t \in Tasks |-> None]
    /\ unsaved' = FALSE

\* The process dies and comes back with what the application stored.
Crash ==
    /\ Abandon(Tasks)
    /\ UNCHANGED <<now, issued, ends, stored>>
    /\ Restart(stored)
    /\ lost' = (Rotating /\ stored # issued)

\* async_exchange_code: the user authorizes again, which is the only way out
\* once the live refresh token is lost.  No token issued before is live then.
Reauthorize ==
    /\ Rotating /\ lost
    /\ Issue
    /\ stored' = issued + 1
    /\ Restart(issued + 1)
    /\ lost' = FALSE
    /\ UNCHANGED <<now, pending>>

Tick ==
    /\ now < MaxTime
    /\ now' = now + 1
    /\ UNCHANGED <<service, cache, refresh, queue, pc, locals, hand, stored, history>>

-----------------------------------------------------------------------------
\* What the renewal of task t does next, once its request is out.
Renewal(t) == Mint(t) \/ Refused(t) \/ Fail(t) \/ Receive(t) \/ Saved(t) \/ SaveFails(t)

Environment == Crash \/ Reauthorize \/ Tick \/ \E r \in pending : HandledLate(r)

Next ==
    \/ \E t \in Tasks :
          \/ \E f \in BOOLEAN : Call(t, f)
          \/ Acquire(t) \/ CancelWaiting(t) \/ Forget(t) \/ Renewal(t)
    \/ Environment

Spec == Init /\ [][Next]_vars
-----------------------------------------------------------------------------
\* Types, and the shape of the lock: the task inside it is the one that renews,
\* and only a waiting task has anybody before it in the queue.
TypeOK ==
    /\ now \in 0..MaxTime
    /\ issued \in Maybe
    /\ ends \in [Token -> Nat] /\ pending \subseteq Maybe
    /\ token \in Maybe /\ expiresAt \in Nat
    /\ refresh \in Maybe /\ stored \in Maybe
    /\ lock \in Tasks \cup {NoTask}
    /\ ahead \in [Tasks -> SUBSET Tasks]
    /\ pc \in [Tasks -> Quiet \cup Renewing \cup {"waiting"}]
    /\ force \in [Tasks -> BOOLEAN]
    /\ stale \in [Tasks -> Maybe]
    /\ hand \in [Tasks -> Maybe]
    /\ lost \in BOOLEAN /\ unsaved \in BOOLEAN
    /\ \A t \in Tasks : pc[t] \in Renewing <=> lock = t
    /\ \A t \in Tasks : pc[t] # "waiting" => ahead[t] = {}

\* "Concurrent requests that all find the token stale must share one renewal"
\* (auth.py:154): at any moment at most one task is renewing, and it does so
\* because the cached token has lapsed or is still the one it was forced off.
RenewalsAreShared ==
    \A t \in Tasks : pc[t] \in Renewing =>
        /\ \A u \in Tasks : pc[u] \in Renewing => u = t
        /\ ~Valid \/ (force[t] /\ stale[t] = token)

\* "on_refresh is called with the new tokens before the access token is used"
\* (auth.py:337): no caller has, and the cache does not hold, an access token
\* newer than the pair the application has written.
SavedBeforeUse ==
    Saves => /\ token <= stored
             /\ \A t \in Tasks : pc[t] = "returned" => hand[t] <= stored

\* A caller never presents a refresh token that has been rotated away, which
\* the service may treat as a compromise, unless the pair that replaced it never
\* reached the program.  This holds whatever the interleaving of the tasks,
\* forced renewals, cancellations and failed on_refresh calls.  It is about the
\* request a caller waits for: one that its caller gave up may still come to the
\* service after the next caller has exchanged the same token (HandledLate).
ReplayOnlyAfterLoss ==
    \A t \in Tasks : Rotating /\ pc[t] = "asking" => hand[t] = issued \/ lost

\* The application can always restart from what it stored, except while a
\* rotation is under way, after its answer was lost, and after its own
\* on_refresh failed to write it.
RestartCanRefresh ==
    Saves => \/ stored = issued
             \/ lost \/ unsaved
             \/ \E t \in Tasks : pc[t] \in {"minted", "saving"}

\* The provider never returns to an older access token, not even when it is
\* rebuilt from the store of an application that saves every pair.
NeverBackToAnOlderToken ==
    [][(Rotating => Saves) => token' = None \/ token' >= token]_vars

\* Every call of async_get_token ends: nobody starves in the queue and no
\* failure leaves the lock held.
EveryCallEnds ==
    \A t \in Tasks : pc[t] \notin Quiet ~> pc[t] \in Quiet
=============================================================================
