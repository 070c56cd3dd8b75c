---------------------------- MODULE AuthedRequest ----------------------------
(***************************************************************************)
(* FloLogicClient._async_request of src/pyflologic/client.py on top of the *)
(* shared token cache: a request asks the provider for a token, is sent    *)
(* with it, and on a first 401 asks again with force and is sent again.    *)
(* The tasks of CachingProvider are the requests of one client; each of    *)
(* their provider steps is a step of the same name there, joined with what *)
(* it means for the request.  FloLogic's API is the environment: it takes  *)
(* a token until the token's end, unless it was revoked.                   *)
(***************************************************************************)
EXTENDS CachingProvider

CONSTANT MaxRevokes     \* bound of the model: revocations of the access tokens

ASSUME RevokeAssumption == MaxRevokes \in Nat

VARIABLES
    rq,         \* where the request of each task is
    attempt,    \* the loop variable "attempt"
    failed,     \* history: the token the first attempt was rejected with
    taken,      \* history: how often the API accepted the request
    revoked,    \* API: access tokens up to this one are revoked
    revokes     \* number of revocations so far

request == <<rq, attempt, failed, taken>>
api == <<revoked, revokes>>
reqvars == <<vars, request, api>>

\* idle: no request; open: asking for a token, or on its way to the API with
\* one; accepted, denied: the API's answer is on its way back; auth_error: the
\* request raised FloLogicAuthError.
RequestStates == {"idle", "open", "accepted", "denied", "auth_error"}

\* The request is out: it carries the token its task was given.
Sent(t) == pc[t] = "returned" /\ rq[t] \in {"open", "accepted", "denied"}

Becomes(t, where) == rq' = [rq EXCEPT ![t] = where]

ReqInit ==
    /\ Init
    /\ rq = [t \in Tasks |-> "idle"]
    /\ attempt = [t \in Tasks |-> 0]
    /\ failed = [t \in Tasks |-> None]
    /\ taken = [t \in Tasks |-> 0]
    /\ revoked = None /\ revokes = 0

-----------------------------------------------------------------------------
\* First round of the loop: async_get_token(force=False).
Start(t) ==
    /\ rq[t] \in {"idle", "auth_error"}
    /\ Call(t, FALSE)
    /\ Becomes(t, "open")
    /\ attempt' = [attempt EXCEPT ![t] = 0]
    /\ failed' = [failed EXCEPT ![t] = None]
    /\ taken' = [taken EXCEPT ![t] = 0]
    /\ UNCHANGED api

\* The provider works on the call; once it returns, the request is sent.
Proceed(t) ==
    /\ Acquire(t) \/ Mint(t) \/ Receive(t) \/ Saved(t)
    /\ UNCHANGED <<request, api>>

\* The provider raises: FloLogicAuthError for a refused refresh token, and
\* another error for everything else.
TokenRefused(t) ==
    /\ Refused(t)
    /\ Becomes(t, "auth_error")
    /\ UNCHANGED <<attempt, failed, taken, api>>

NoToken(t) ==
    /\ Fail(t) \/ SaveFails(t)
    /\ Becomes(t, "idle")
    /\ UNCHANGED <<attempt, failed, taken, api>>

\* The task is cancelled while it waits for the provider's lock.
Cancelled(t) ==
    /\ CancelWaiting(t)
    /\ Becomes(t, "idle")
    /\ UNCHANGED <<attempt, failed, taken, api>>

\* The request reaches the API, which takes the token or answers 401.
Good(n) == revoked < n /\ now < ends[n]

Arrive(t) ==
    /\ rq[t] = "open" /\ pc[t] = "returned"
    /\ \/ /\ Good(hand[t])
          /\ Becomes(t, "accepted")
          /\ taken' = [taken EXCEPT ![t] = taken[t] + 1]
       \/ /\ ~Good(hand[t])
          /\ Becomes(t, "denied")
          /\ UNCHANGED taken
    /\ UNCHANGED <<vars, attempt, failed, api>>

\* The answer arrives: the body, or the error of a 404 or of another status.
Finish(t) ==
    /\ rq[t] = "accepted"
    /\ Forget(t)
    /\ Becomes(t, "idle")
    /\ UNCHANGED <<attempt, failed, taken, api>>

\* Mutants of Retry: one round too many, and a renewal that does not take the
\* provider's lock.
RetryTwice(t) ==
    /\ rq[t] = "denied" /\ attempt[t] < 2
    /\ Call(t, TRUE)
    /\ Becomes(t, "open")
    /\ attempt' = [attempt EXCEPT ![t] = attempt[t] + 1]
    /\ failed' = [failed EXCEPT ![t] = hand[t]]
    /\ UNCHANGED <<taken, api>>

RetryUnlocked(t) ==
    /\ rq[t] = "denied" /\ attempt[t] = 0
    /\ Enter(t, TRUE, token)
    /\ Becomes(t, "open")
    /\ attempt' = [attempt EXCEPT ![t] = 1]
    /\ failed' = [failed EXCEPT ![t] = hand[t]]
    /\ UNCHANGED <<now, service, cache, refresh, ahead, stored, history, taken, api>>

\* A 401 arrives in the first round: async_get_token(force=True).
Retry(t) ==
    /\ rq[t] = "denied" /\ attempt[t] = 0
    /\ Call(t, TRUE)
    /\ Becomes(t, "open")
    /\ attempt' = [attempt EXCEPT ![t] = 1]
    /\ failed' = [failed EXCEPT ![t] = hand[t]]
    /\ UNCHANGED <<taken, api>>

\* A 401 arrives in the second round.
GiveUp(t) ==
    /\ rq[t] = "denied" /\ attempt[t] = 1
    /\ Forget(t)
    /\ Becomes(t, "auth_error")
    /\ UNCHANGED <<attempt, failed, taken, api>>

\* Mutant of Timeout: a request without an answer is sent once more.
TimeoutResends(t) ==
    /\ Sent(t) /\ attempt[t] = 0
    /\ Call(t, FALSE)
    /\ Becomes(t, "open")
    /\ attempt' = [attempt EXCEPT ![t] = 1]
    /\ UNCHANGED <<failed, taken, api>>

\* The connection fails, the request times out or its task is cancelled,
\* whether or not the API has seen the request.
Timeout(t) ==
    /\ Sent(t)
    /\ Forget(t)
    /\ Becomes(t, "idle")
    /\ UNCHANGED <<attempt, failed, taken, api>>

-----------------------------------------------------------------------------
\* A restart ends every request.
NewProcess ==
    /\ Crash \/ Reauthorize
    /\ rq' = [t \in Tasks |-> "idle"]
    /\ attempt' = [t \in Tasks |-> 0]
    /\ failed' = [t \in Tasks |-> None]
    /\ taken' = [t \in Tasks |-> 0]
    /\ UNCHANGED api

\* FloLogic revokes every access token issued so far.
Revoke ==
    /\ revokes < MaxRevokes /\ revoked < issued
    /\ revoked' = issued
    /\ revokes' = revokes + 1
    /\ UNCHANGED <<vars, request>>

TimePasses == Tick /\ UNCHANGED <<request, api>>

\* The token service handles a renewal whose request has ended.
LateRenewal ==
    /\ \E r \in pending : HandledLate(r)
    /\ UNCHANGED <<request, api>>

Answered(t) == Arrive(t) \/ Finish(t) \/ Retry(t) \/ GiveUp(t) \/ Timeout(t)

Round(t) == Proceed(t) \/ TokenRefused(t) \/ NoToken(t) \/ Cancelled(t) \/ Answered(t)

ReqNext ==
    \/ \E t \in Tasks : Start(t) \/ Round(t)
    \/ NewProcess \/ Revoke \/ TimePasses \/ LateRenewal

ReqSpec == ReqInit /\ [][ReqNext]_reqvars

\* The event loop runs every ready task, and aiohttp's total timeout ends a
\* request that gets no answer: each of a task's waits ends.
ReqFairSpec ==
    /\ ReqSpec
    /\ \A t \in Tasks : /\ WF_reqvars(Proceed(t) \/ TokenRefused(t) \/ NoToken(t))
                        /\ WF_reqvars(Answered(t))

-----------------------------------------------------------------------------
\* Types, and that a request is open while its task is in async_get_token.
ReqTypeOK ==
    /\ TypeOK
    /\ rq \in [Tasks -> RequestStates]
    /\ attempt \in [Tasks -> {0, 1}]
    /\ failed \in [Tasks -> Maybe]
    /\ taken \in [Tasks -> Nat]
    /\ revoked \in Maybe /\ revokes \in 0..MaxRevokes
    /\ \A t \in Tasks : /\ pc[t] \notin Quiet => rq[t] = "open"
                        /\ pc[t] = "returned" <=> Sent(t)
                        /\ pc[t] = "idle" <=> rq[t] \in {"idle", "auth_error"}

\* The retry after a 401 is worth its request: it never carries the rejected
\* token or an older one, though other tasks may have renewed the cache before,
\* while and after this one queued for the forced renewal.
RetryCarriesANewerToken ==
    \A t \in Tasks : Sent(t) /\ attempt[t] = 1 => hand[t] > failed[t]

\* The API accepts a request at most once: it is sent again only after the
\* API turned it away, never because its answer was lost or late.
AcceptedAtMostOnce == \A t \in Tasks : taken[t] <= 1

\* The requests use the provider as its specification allows: everything shown
\* of the provider for arbitrary callers holds under this client.
UsesProvider == Spec

\* Every request ends, with a result or an exception.
EveryRequestEnds ==
    \A t \in Tasks : rq[t] \in {"open", "accepted", "denied"}
                        ~> rq[t] \in {"idle", "auth_error"}

-----------------------------------------------------------------------------
\* What the docstring says and the code does not do: "only a second rejection
\* means the credentials themselves are bad" (client.py:224).
OnlyBadCredentialsAreRejected ==
    \A t \in Tasks : rq[t] = "auth_error" => Rotating /\ lost
=============================================================================
