------------------------- MODULE AuthedRequestProofs -------------------------
(***************************************************************************)
(* Theorems about the requests of a client and the token cache they share. *)
(*                                                                         *)
(* The first part is about CachingProvider alone, for every number of      *)
(* tasks and tokens, every lifetime and every margin.  The safety          *)
(* properties follow from one inductive invariant, IInv, which says what   *)
(* TypeOK leaves open: how the pair the program holds, the pair the        *)
(* application stored and the pair on the wire relate to the last pair the *)
(* service issued.                                                         *)
(*                                                                         *)
(* The second is about the client: that its requests use the cache only as *)
(* the cache's own specification allows, so that what is proved of it for  *)
(* arbitrary callers holds under this client; and that a retry after a 401 *)
(* carries a newer token than the one that was rejected.                   *)
(***************************************************************************)
EXTENDS AuthedRequest, TLAPS

\* No token in the program is newer than the last one issued, and a renewal
\* that got its answer carries exactly that one, which nobody has presented yet.
HandsOK ==
    /\ token <= issued /\ refresh <= issued /\ stored <= issued
    /\ \A r \in pending : Rotating /\ r <= issued
    /\ (\E t \in Tasks : pc[t] \in {"minted", "saving"}) => issued \notin pending
    /\ \A t \in Tasks :
          /\ pc[t] \in {"minted", "saving"} => hand[t] = issued /\ hand[t] # None
          /\ pc[t] = "saving" => Saves
          /\ pc[t] = "returned" => hand[t] <= issued

\* The refresh token: the one presented is the one held, the one held is live
\* unless its successor is on the wire or was lost, and the one stored is no
\* newer than the one held.  ApiKeyAuth has none to hold or to store.
ChainOK ==
    /\ ~Rotating => refresh = None /\ stored = None
    /\ Rotating =>
        /\ refresh # None /\ stored # None
        /\ stored <= refresh
        /\ \A t \in Tasks : pc[t] = "asking" => hand[t] = refresh
        /\ \A t \in Tasks : pc[t] = "saving" => refresh = issued
        /\ refresh = issued \/ lost \/ \E t \in Tasks : pc[t] = "minted"

IInv ==
    /\ TypeOK
    /\ HandsOK
    /\ ChainOK
    /\ RenewalsAreShared
    /\ SavedBeforeUse
    /\ RestartCanRefresh

USE TaskAssumption, FlowAssumption, TimeAssumption, BoundAssumption
USE DEF TaskAssumption, FlowAssumption, TimeAssumption, BoundAssumption

-----------------------------------------------------------------------------
LEMMA InitIInv == Init => IInv
  <1> SUFFICES ASSUME Init PROVE IInv
    OBVIOUS
  <1> USE DEF Init, None, Token, Maybe, Quiet, Renewing
  <1>1. PICK life \in Lifetimes :
           ends = [n \in Token |-> IF Rotating /\ n = 1 THEN life ELSE 0]
    OBVIOUS
  <1>2. ends \in [Token -> Nat] /\ expiresAt \in Nat
    BY <1>1
  <1>3. /\ issued \in Maybe /\ token \in Maybe /\ refresh \in Maybe
        /\ stored \in Maybe
    OBVIOUS
  <1>4. TypeOK
    <2>1. /\ now \in 0..MaxTime
          /\ lock \in Tasks \cup {NoTask}
          /\ ahead \in [Tasks -> SUBSET Tasks]
          /\ pc \in [Tasks -> Quiet \cup Renewing \cup {"waiting"}]
      OBVIOUS
    <2>2. /\ force \in [Tasks -> BOOLEAN]
          /\ stale \in [Tasks -> Maybe]
          /\ hand \in [Tasks -> Maybe]
      OBVIOUS
    <2>3. /\ lost \in BOOLEAN /\ unsaved \in BOOLEAN
      OBVIOUS
    <2>4. /\ \A t \in Tasks : pc[t] \in Renewing <=> lock = t
          /\ \A t \in Tasks : pc[t] # "waiting" => ahead[t] = {}
      OBVIOUS
    <2>5. QED
      BY <1>2, <1>3, <2>1, <2>2, <2>3, <2>4 DEF TypeOK
  <1>5. HandsOK /\ ChainOK
    BY DEF HandsOK, ChainOK
  <1>6. RenewalsAreShared /\ SavedBeforeUse /\ RestartCanRefresh
    BY DEF RenewalsAreShared, SavedBeforeUse, RestartCanRefresh
  <1>7. QED
    BY <1>4, <1>5, <1>6 DEF IInv

LEMMA EnterStep ==
    ASSUME IInv, NEW t \in Tasks, NEW f \in BOOLEAN, NEW old \in Maybe,
           lock = NoTask, Enter(t, f, old),
           ahead' \in [Tasks -> SUBSET Tasks],
           \A u \in Tasks : u = t \/ pc[u] # "waiting" => ahead'[u] = {},
           UNCHANGED <<now, service, cache, refresh, stored, history>>
    PROVE  IInv'
  <1> USE DEF IInv, None, Token, Maybe, Quiet, Renewing, service, cache, history
  <1>1. CASE Usable(f, old)
    <2>1. /\ Leave(t, token) /\ lock' = NoTask /\ token # None
      BY <1>1 DEF Enter, Usable, Valid, Release
    <2>2. TypeOK'
      BY <2>1 DEF Leave, TypeOK
    <2>3. HandsOK'
      BY <2>1 DEF Leave, TypeOK, HandsOK
    <2>4. ChainOK'
      BY <2>1 DEF Leave, TypeOK, ChainOK
    <2>5. RenewalsAreShared'
      BY <2>1 DEF Leave, TypeOK, RenewalsAreShared, Valid
    <2>6. SavedBeforeUse' 
      BY <2>1 DEF Leave, TypeOK, SavedBeforeUse
    <2>7. RestartCanRefresh'
      BY <2>1 DEF Leave, TypeOK, RestartCanRefresh
    <2> QED BY <2>2, <2>3, <2>4, <2>5, <2>6, <2>7
  <1>2. CASE ~Usable(f, old)
    <2>1. /\ pc' = [pc EXCEPT ![t] = "asking"]
          /\ hand' = [hand EXCEPT ![t] = refresh]
          /\ force' = [force EXCEPT ![t] = f]
          /\ stale' = [stale EXCEPT ![t] = old]
          /\ lock' = t
          /\ ~Valid \/ (f /\ token = old)
      BY <1>2 DEF Enter, Usable
    <2>2. TypeOK'
      BY <2>1 DEF TypeOK
    <2>3. HandsOK'
      BY <2>1 DEF  TypeOK, HandsOK
    <2>4. ChainOK'
      BY <2>1 DEF  TypeOK, ChainOK
    <2>5. RenewalsAreShared'
      BY <2>1 DEF  TypeOK, RenewalsAreShared, Valid
    <2>6. SavedBeforeUse' 
      BY <2>1 DEF TypeOK, SavedBeforeUse
    <2>7. RestartCanRefresh'
      BY <2>1 DEF  TypeOK, RestartCanRefresh
    <2> QED BY <2>2, <2>3, <2>4, <2>5, <2>6, <2>7
  <1>3. QED BY <1>1, <1>2

LEMMA CallStep ==
    ASSUME IInv, NEW t \in Tasks, NEW f \in BOOLEAN, Call(t, f)
    PROVE  IInv'
  <1> USE DEF IInv, None, Token, Maybe, Quiet, Renewing, Waiting, service, cache, history
  <1>1. CASE lock = NoTask /\ Waiting = {}
    <2>1. Enter(t, f, token) /\ UNCHANGED ahead
      BY <1>1 DEF Call
    <2>2. \A u \in Tasks : ahead[u] = {}
      BY <1>1 DEF TypeOK
    <2>3. /\ token \in Maybe
          /\ ahead' \in [Tasks -> SUBSET Tasks]
          /\ \A u \in Tasks : u = t \/ pc[u] # "waiting" => ahead'[u] = {}
          /\ UNCHANGED <<now, service, cache, refresh, stored, history>>
      BY <2>1, <2>2 DEF Call, TypeOK
    <2>4. QED
      BY <1>1, <2>1, <2>3, EnterStep
  <1>2. CASE lock # NoTask \/ Waiting # {}
    <2>1. /\ pc' = [pc EXCEPT ![t] = "waiting"]
          /\ hand' = [hand EXCEPT ![t] = None]
          /\ force' = [force EXCEPT ![t] = f]
          /\ stale' = [stale EXCEPT ![t] = token]
          /\ ahead' = [ahead EXCEPT ![t] = Waiting]
          /\ pc[t] \in Quiet
          /\ UNCHANGED <<lock, now, service, cache, refresh, stored, history>>
      BY <1>2 DEF Call
    <2>2. TypeOK'
      BY <2>1 DEF TypeOK
    <2>3. HandsOK'
      BY <2>1 DEF TypeOK, HandsOK
    <2>4. ChainOK'
      BY <2>1 DEF TypeOK, ChainOK
    <2>5. RenewalsAreShared'
      BY <2>1 DEF TypeOK, RenewalsAreShared, Valid
    <2>6. SavedBeforeUse'
      BY <2>1 DEF TypeOK, SavedBeforeUse
    <2>7. RestartCanRefresh'
      BY <2>1 DEF TypeOK, RestartCanRefresh
    <2>8. QED
      BY <2>2, <2>3, <2>4, <2>5, <2>6, <2>7 DEF IInv
  <1>3. QED
    BY <1>1, <1>2

LEMMA AcquireStep ==
    ASSUME IInv, NEW t \in Tasks, Acquire(t)
    PROVE  IInv'
  <1>1. /\ force[t] \in BOOLEAN /\ stale[t] \in Maybe
        /\ ahead' \in [Tasks -> SUBSET Tasks]
        /\ \A u \in Tasks : u = t \/ pc[u] # "waiting" => ahead'[u] = {}
    BY DEF IInv, TypeOK, Acquire
  <1>2. QED
    BY <1>1, EnterStep DEF Acquire

LEMMA CancelWaitingStep ==
    ASSUME IInv, NEW t \in Tasks, CancelWaiting(t)
    PROVE  IInv'
  <1> USE DEF IInv, None, Token, Maybe, Quiet, Renewing, service, cache, queue, locals, history
  <1>1. pc[t] = "waiting" /\ Leave(t, None)
    BY DEF CancelWaiting
  <1>2. TypeOK'
    BY <1>1 DEF TypeOK, CancelWaiting, Leave
  <1>3. HandsOK'
    BY <1>1 DEF TypeOK, HandsOK, CancelWaiting, Leave
  <1>4. ChainOK'
    BY <1>1 DEF TypeOK, ChainOK, CancelWaiting, Leave
  <1>5. RenewalsAreShared'
    BY <1>1 DEF TypeOK, RenewalsAreShared, Valid, CancelWaiting, Leave
  <1>6. SavedBeforeUse'
    BY <1>1 DEF TypeOK, SavedBeforeUse, CancelWaiting, Leave
  <1>7. RestartCanRefresh'
    BY <1>1 DEF TypeOK, RestartCanRefresh, CancelWaiting, Leave
  <1>8. QED
    BY <1>2, <1>3, <1>4, <1>5, <1>6, <1>7 DEF IInv

LEMMA ForgetStep ==
    ASSUME IInv, NEW t \in Tasks, Forget(t)
    PROVE  IInv'
  <1> USE DEF IInv, None, Token, Maybe, Quiet, Renewing, service, cache, queue, locals, history
  <1>1. pc[t] = "returned" /\ Leave(t, None)
    BY DEF Forget
  <1>2. TypeOK'
    <2>1. /\ pc' = [pc EXCEPT ![t] = "idle"]
          /\ hand' = [hand EXCEPT ![t] = None]
          /\ force' = [force EXCEPT ![t] = FALSE]
          /\ stale' = [stale EXCEPT ![t] = None]
          /\ UNCHANGED <<now, service, cache, refresh, queue, stored, history>>
      BY <1>1 DEF Forget, Leave
    <2>2. /\ pc' \in [Tasks -> Quiet \cup Renewing \cup {"waiting"}]
          /\ hand' \in [Tasks -> Maybe] /\ stale' \in [Tasks -> Maybe]
          /\ force' \in [Tasks -> BOOLEAN]
      BY <2>1 DEF TypeOK
    <2>3. /\ \A u \in Tasks : pc'[u] \in Renewing <=> lock' = u
          /\ \A u \in Tasks : pc'[u] # "waiting" => ahead'[u] = {}
      BY <1>1, <2>1 DEF TypeOK
    <2>4. QED
      BY <2>1, <2>2, <2>3 DEF TypeOK
  <1>3. HandsOK'
    BY <1>1 DEF TypeOK, HandsOK, Forget, Leave
  <1>4. ChainOK'
    BY <1>1 DEF TypeOK, ChainOK, Forget, Leave
  <1>5. RenewalsAreShared'
    BY <1>1 DEF TypeOK, RenewalsAreShared, Valid, Forget, Leave
  <1>6. SavedBeforeUse'
    BY <1>1 DEF TypeOK, SavedBeforeUse, Forget, Leave
  <1>7. RestartCanRefresh'
    BY <1>1 DEF TypeOK, RestartCanRefresh, Forget, Leave
  <1>8. QED
    BY <1>2, <1>3, <1>4, <1>5, <1>6, <1>7 DEF IInv

LEMMA MintStep ==
    ASSUME IInv, NEW t \in Tasks, Mint(t)
    PROVE  IInv'
  <1> USE DEF IInv, None, Token, Maybe, Quiet, Renewing, service, cache, queue, locals, history
  <1>1. PICK life \in Lifetimes : ends' = [ends EXCEPT ![issued + 1] = now + life]
    BY DEF Mint, Issue
  <1>2. TypeOK'
    BY <1>1 DEF TypeOK, Mint, Issue
  <1>3. HandsOK'
    BY <1>1 DEF TypeOK, HandsOK, Mint, Issue
  <1>4. ChainOK'
    BY <1>1 DEF TypeOK, ChainOK, Mint, Issue
  <1>5. RenewalsAreShared'
    BY <1>1 DEF TypeOK, RenewalsAreShared, Valid, Mint, Issue
  <1>6. SavedBeforeUse'
    BY <1>1 DEF TypeOK, SavedBeforeUse, Mint, Issue
  <1>7. RestartCanRefresh'
    BY <1>1 DEF TypeOK, RestartCanRefresh, Mint, Issue
  <1>8. QED
    BY <1>2, <1>3, <1>4, <1>5, <1>6, <1>7 DEF IInv

LEMMA RefusedStep ==
    ASSUME IInv, NEW t \in Tasks, Refused(t)
    PROVE  IInv'
  <1> USE DEF IInv, None, Token, Maybe, Quiet, Renewing, service, cache, queue, locals, history
  <1>1. pc[t] = "asking" /\ Leave(t, None)
    BY DEF Refused
  <1>2. TypeOK'
    BY <1>1 DEF TypeOK, Refused, Leave, Release
  <1>3. HandsOK'
    BY <1>1 DEF TypeOK, HandsOK, Refused, Leave, Release
  <1>4. ChainOK'
    BY <1>1 DEF TypeOK, ChainOK, Refused, Leave, Release
  <1>5. RenewalsAreShared'
    BY <1>1 DEF TypeOK, RenewalsAreShared, Valid, Refused, Leave, Release
  <1>6. SavedBeforeUse'
    BY <1>1 DEF TypeOK, SavedBeforeUse, Refused, Leave, Release
  <1>7. RestartCanRefresh'
    BY <1>1 DEF TypeOK, RestartCanRefresh, Refused, Leave, Release
  <1>8. QED
    BY <1>2, <1>3, <1>4, <1>5, <1>6, <1>7 DEF IInv

LEMMA AbandonedTypes ==
    ASSUME IInv, NEW T \in SUBSET Tasks, Abandon(T)
    PROVE  /\ pending' \subseteq Maybe
           /\ \A r \in pending' : Rotating /\ r <= issued
  BY DEF Abandon, Presented, IInv, TypeOK, HandsOK, ChainOK

LEMMA FailStep ==
    ASSUME IInv, NEW t \in Tasks, Fail(t)
    PROVE  IInv'
  <1> USE DEF IInv, None, Token, Maybe, Quiet, Renewing, cache, queue, locals, history
  <1>1. pc[t] \in {"asking", "minted"} /\ Leave(t, None)
    BY DEF Fail
  <1>0. /\ pending' \subseteq Maybe
        /\ \A r \in pending' : Rotating /\ r <= issued
        /\ \A u \in Tasks : pc'[u] \notin Renewing
    <2>1. {t} \in SUBSET Tasks /\ Abandon({t})
      BY DEF Fail
    <2>2. \A u \in Tasks : pc'[u] \notin Renewing
      BY <1>1 DEF Leave, TypeOK
    <2>3. QED
      BY <2>1, <2>2, AbandonedTypes
  <1>2. TypeOK'
    BY <1>0, <1>1 DEF TypeOK, Fail, Leave, Release
  <1>3. HandsOK'
    BY <1>0, <1>1 DEF TypeOK, HandsOK, Fail, Leave, Release
  <1>4. ChainOK'
    BY <1>1 DEF TypeOK, ChainOK, Fail, Leave, Release
  <1>5. RenewalsAreShared'
    BY <1>1 DEF TypeOK, RenewalsAreShared, Valid, Fail, Leave, Release
  <1>6. SavedBeforeUse'
    BY <1>1 DEF TypeOK, SavedBeforeUse, Fail, Leave, Release
  <1>7. RestartCanRefresh'
    BY <1>1 DEF TypeOK, RestartCanRefresh, Fail, Leave, Release
  <1>8. QED
    BY <1>2, <1>3, <1>4, <1>5, <1>6, <1>7 DEF IInv

\* A request that its caller gave up is granted only while no other answer is
\* on its way, and the pair that nobody gets counts as lost.
LEMMA HandledLateStep ==
    ASSUME IInv, NEW r \in pending, HandledLate(r)
    PROVE  IInv'
  <1> USE DEF IInv, None, Token, Maybe, Quiet, Renewing, cache, queue, locals
  <1>1. CASE r # issued
    <2>1. UNCHANGED <<now, issued, ends, cache, refresh, queue, pc, locals, hand,
                      stored, lost, unsaved>> /\ pending' \subseteq pending
      BY <1>1 DEF HandledLate
    <2>2. TypeOK' /\ HandsOK' /\ ChainOK'
      BY <2>1 DEF TypeOK, HandsOK, ChainOK
    <2>3. RenewalsAreShared' /\ SavedBeforeUse' /\ RestartCanRefresh'
      BY <2>1 DEF RenewalsAreShared, Valid, SavedBeforeUse, RestartCanRefresh
    <2>4. QED
      BY <2>2, <2>3
  <1>2. CASE r = issued
    <2>1. PICK life \in Lifetimes : ends' = [ends EXCEPT ![issued + 1] = now + life]
      BY <1>2 DEF HandledLate, Issue
    <2>2. /\ UNCHANGED <<now, cache, refresh, queue, pc, locals, hand, stored, unsaved>>
          /\ pending' \subseteq pending /\ issued' = issued + 1
          /\ issued' \in Maybe /\ lost' = TRUE
          /\ \A t \in Tasks : pc[t] \notin {"minted", "saving"}
      BY <1>2 DEF HandledLate, Issue, TypeOK, HandsOK
    <2>3. ends' \in [Token -> Nat]
      <3>1. now + life \in Nat /\ ends \in [Token -> Nat]
        BY DEF TypeOK
      <3>2. QED
        BY <2>1, <3>1
    <2>4. TypeOK'
      BY <2>2, <2>3 DEF TypeOK
    <2>5. HandsOK' /\ ChainOK'
      BY <2>2 DEF TypeOK, HandsOK, ChainOK
    <2>6. RenewalsAreShared' /\ SavedBeforeUse' /\ RestartCanRefresh'
      BY <2>2 DEF RenewalsAreShared, Valid, SavedBeforeUse, RestartCanRefresh
    <2>7. QED
      BY <2>4, <2>5, <2>6
  <1>3. QED
    BY <1>1, <1>2

\* A renewal ends well: the newest pair is cached, held and, where there is an
\* on_refresh, stored.
LEMMA ReturnStep ==
    ASSUME IInv, NEW t \in Tasks, pc[t] \in {"minted", "saving"},
           Cache(hand[t], ends), Leave(t, hand[t]), Release,
           refresh' = IF Rotating THEN hand[t] ELSE refresh,
           stored' = IF Saves THEN hand[t] ELSE stored,
           lost' = lost, unsaved' \in BOOLEAN,
           UNCHANGED <<now, service, ahead>>
    PROVE  IInv'
  <1> USE DEF IInv, None, Token, Maybe, Quiet, Renewing, service
  <1>1. /\ token' = issued /\ issued # 0 /\ expiresAt' \in Nat
        /\ pc' = [pc EXCEPT ![t] = "returned"]
        /\ hand' = [hand EXCEPT ![t] = hand[t]] /\ hand[t] = issued
        /\ force' = [force EXCEPT ![t] = FALSE]
        /\ stale' = [stale EXCEPT ![t] = 0]
        /\ lock' = NoTask
        /\ refresh' \in Maybe /\ stored' \in Maybe
        /\ refresh' <= issued /\ stored' <= issued
        /\ Rotating => refresh' = issued
        /\ stored' = stored \/ stored' = issued
        /\ Saves => stored' = issued
        /\ \A u \in Tasks : pc'[u] \notin Renewing
    <2>1. hand[t] = issued /\ hand[t] \in Token
      BY DEF HandsOK, TypeOK
    <2>2. expiresAt' \in Nat
      BY <2>1 DEF Cache, TokenExpiry, TypeOK
    <2>3. /\ token' = issued /\ lock' = NoTask
          /\ issued # 0
      BY <2>1 DEF Cache, Release
    <2>8. /\ hand' = [hand EXCEPT ![t] = hand[t]] /\ hand[t] = issued
          /\ force' = [force EXCEPT ![t] = FALSE]
          /\ stale' = [stale EXCEPT ![t] = 0]
      BY <2>1 DEF Leave
    <2>4. pc' = [pc EXCEPT ![t] = "returned"]
      <3>1. (IF hand[t] = None THEN "idle" ELSE "returned") = "returned"
        BY <2>1
      <3>2. QED
        BY <3>1 DEF Leave
    <2>5. /\ refresh' \in Maybe /\ stored' \in Maybe
          /\ refresh' <= issued /\ stored' <= issued
          /\ Rotating => refresh' = issued
          /\ stored' = stored \/ stored' = issued
          /\ Saves => stored' = issued
      BY <2>1 DEF TypeOK, HandsOK
    <2>6. \A u \in Tasks : pc'[u] \notin Renewing
      BY <2>4 DEF TypeOK
    <2>7. QED
      BY <2>2, <2>3, <2>8, <2>4, <2>5, <2>6
  <1>2. TypeOK'
    BY <1>1 DEF TypeOK
  <1>3. HandsOK'
    BY <1>1 DEF TypeOK, HandsOK
  <1>4. ChainOK'
    BY <1>1 DEF TypeOK, ChainOK
  <1>5. RenewalsAreShared'
    BY <1>1 DEF TypeOK, RenewalsAreShared, Valid
  <1>6. SavedBeforeUse'
    BY <1>1 DEF TypeOK, SavedBeforeUse, HandsOK
  <1>7. RestartCanRefresh'
    BY <1>1 DEF TypeOK, RestartCanRefresh
  <1>8. QED
    BY <1>2, <1>3, <1>4, <1>5, <1>6, <1>7 DEF IInv

LEMMA ReceiveStep ==
    ASSUME IInv, NEW t \in Tasks, Receive(t)
    PROVE  IInv'
  <1> USE DEF IInv, None, Token, Maybe, Quiet, Renewing, service, cache, locals, history
  <1>1. CASE ~Saves
    BY <1>1, ReturnStep DEF Receive, TypeOK
  <1>2. CASE Saves
    <2>1. /\ pc[t] = "minted" /\ hand[t] = issued /\ issued # 0
          /\ Rotating /\ Saves
          /\ \A u \in Tasks \ {t} : pc[u] \notin Renewing
          /\ pc' = [pc EXCEPT ![t] = "saving"]
          /\ refresh' = issued
          /\ UNCHANGED <<now, service, cache, lock, ahead, locals, hand, stored, history>>
      BY <1>2 DEF Receive, HandsOK, TypeOK
    <2>2. TypeOK'
      BY <2>1 DEF TypeOK
    <2>3. HandsOK'
      BY <2>1 DEF TypeOK, HandsOK
    <2>4. ChainOK'
      BY <2>1 DEF TypeOK, ChainOK, HandsOK
    <2>5. RenewalsAreShared'
      BY <2>1 DEF TypeOK, RenewalsAreShared, Valid
    <2>6. SavedBeforeUse'
      BY <2>1 DEF TypeOK, SavedBeforeUse
    <2>7. RestartCanRefresh'
      BY <2>1 DEF TypeOK, RestartCanRefresh
    <2>8. QED
      BY <2>2, <2>3, <2>4, <2>5, <2>6, <2>7 DEF IInv
  <1>3. QED
    BY <1>1, <1>2

LEMMA SavedStep ==
    ASSUME IInv, NEW t \in Tasks, Saved(t)
    PROVE  IInv'
  <1>1. pc[t] = "saving" /\ hand[t] = issued /\ Saves
    BY DEF Saved, IInv, HandsOK
  <1>2. /\ refresh' = IF Rotating THEN hand[t] ELSE refresh
        /\ stored' = IF Saves THEN hand[t] ELSE stored
    BY <1>1 DEF Saved, IInv, ChainOK
  <1>3. QED
    BY <1>1, <1>2, ReturnStep DEF Saved

LEMMA SaveFailsStep ==
    ASSUME IInv, NEW t \in Tasks, SaveFails(t)
    PROVE  IInv'
  <1> USE DEF IInv, None, Token, Maybe, Quiet, Renewing, service, cache
  <1>1. pc[t] = "saving" /\ lock = t /\ hand[t] = issued /\ Saves
    BY DEF SaveFails, TypeOK, HandsOK
  <1>2. /\ pc' = [pc EXCEPT ![t] = "idle"]
        /\ hand' = [hand EXCEPT ![t] = 0]
        /\ force' = [force EXCEPT ![t] = FALSE]
        /\ stale' = [stale EXCEPT ![t] = 0]
        /\ lock' = NoTask
        /\ UNCHANGED <<now, service, cache, refresh, ahead, lost>>
    BY DEF SaveFails, Leave, Release
  <1>3. \A u \in Tasks : pc'[u] \notin Renewing
    BY <1>1, <1>2 DEF TypeOK
  <1>4. refresh = issued
    BY <1>1 DEF ChainOK
  <1>5. \/ stored' = issued /\ unsaved' = FALSE
        \/ stored' = stored /\ unsaved' = TRUE
    BY <1>1 DEF SaveFails
  <1>6. TypeOK'
    <2>1. stored' \in Maybe /\ unsaved' \in BOOLEAN
      BY <1>5 DEF TypeOK
    <2>2. /\ hand' \in [Tasks -> Maybe]
          /\ stale' \in [Tasks -> Maybe]
          /\ force' \in [Tasks -> BOOLEAN]
          /\ pc' \in [Tasks -> Quiet \cup Renewing \cup {"waiting"}]
      BY <1>2 DEF TypeOK
    <2>3. /\ \A u \in Tasks : pc'[u] \in Renewing <=> lock' = u
          /\ \A u \in Tasks : pc'[u] # "waiting" => ahead'[u] = {}
      BY <1>1, <1>2, <1>3 DEF TypeOK
    <2>4. QED
      BY <1>2, <2>1, <2>2, <2>3 DEF TypeOK
  <1>7. HandsOK'
    BY <1>2, <1>3, <1>5 DEF TypeOK, HandsOK
  <1>8. ChainOK'
    BY <1>1, <1>2, <1>3, <1>4, <1>5 DEF TypeOK, ChainOK, HandsOK
  <1>9. RenewalsAreShared'
    BY <1>3 DEF RenewalsAreShared
  <1>10. SavedBeforeUse' /\ RestartCanRefresh'
    BY <1>2, <1>5 DEF TypeOK, SavedBeforeUse, HandsOK, RestartCanRefresh
  <1>11. QED
    BY <1>6, <1>7, <1>8, <1>9, <1>10

\* A new process that holds pair n and has it stored.
LEMMA RestartStep ==
    ASSUME IInv, NEW n \in Maybe, Restart(n),
           ends' \in [Token -> Nat], issued' \in Maybe, n <= issued',
           Rotating <=> n # None,
           stored' = n, lost' = (Rotating /\ n # issued'), now' = now,
           pending' \subseteq Maybe, \A r \in pending' : Rotating /\ r <= issued'
    PROVE  IInv'
  <1> USE DEF IInv, None, Token, Maybe, Quiet, Renewing
  <1>1. /\ token' = n /\ expiresAt' \in Nat
    BY DEF Restart, Cache, TokenExpiry, TypeOK
  <1>2. /\ refresh' = n /\ lock' = NoTask
        /\ ahead' = [t \in Tasks |-> {}]
        /\ pc' = [t \in Tasks |-> "idle"]
        /\ force' = [t \in Tasks |-> FALSE]
        /\ stale' = [t \in Tasks |-> 0]
        /\ hand' = [t \in Tasks |-> 0]
        /\ unsaved' = FALSE
    BY DEF Restart
  <1>3. lost' \in BOOLEAN /\ (n # issued' /\ Rotating => lost')
    OBVIOUS
  <1>4. TypeOK'
    <2>1. /\ ahead' \in [Tasks -> SUBSET Tasks]
          /\ pc' \in [Tasks -> Quiet \cup Renewing \cup {"waiting"}]
          /\ force' \in [Tasks -> BOOLEAN]
          /\ stale' \in [Tasks -> Maybe]
          /\ hand' \in [Tasks -> Maybe]
      BY <1>2
    <2>2. /\ \A t \in Tasks : pc'[t] \in Renewing <=> lock' = t
          /\ \A t \in Tasks : pc'[t] # "waiting" => ahead'[t] = {}
      BY <1>2
    <2>3. now' \in 0..MaxTime /\ unsaved' \in BOOLEAN
      BY <1>2 DEF TypeOK
    <2>4. QED
      BY <1>1, <1>2, <1>3, <2>1, <2>2, <2>3 DEF TypeOK
  <1>5. HandsOK' /\ ChainOK'
    BY <1>1, <1>2, <1>3 DEF HandsOK, ChainOK
  <1>6. RenewalsAreShared' /\ SavedBeforeUse' /\ RestartCanRefresh'
    BY <1>1, <1>2, <1>3 DEF RenewalsAreShared, SavedBeforeUse, RestartCanRefresh
  <1>7. QED
    BY <1>4, <1>5, <1>6

LEMMA CrashStep == ASSUME IInv, Crash PROVE IInv'
  <1>1. /\ stored \in Maybe /\ stored <= issued /\ issued \in Maybe
        /\ ends \in [Token -> Nat]
        /\ Rotating <=> stored # None
    BY DEF IInv, TypeOK, HandsOK, ChainOK
  <1>2. /\ pending' \subseteq Maybe
        /\ \A r \in pending' : Rotating /\ r <= issued
    BY AbandonedTypes DEF Crash
  <1>3. QED
    BY <1>1, <1>2, RestartStep DEF Crash

LEMMA ReauthorizeStep == ASSUME IInv, Reauthorize PROVE IInv'
  <1> USE DEF None, Token, Maybe
  <1>1. PICK life \in Lifetimes : ends' = [ends EXCEPT ![issued + 1] = now + life]
    BY DEF Reauthorize, Issue
  <1>2. /\ ends' \in [Token -> Nat]
        /\ issued' = issued + 1 /\ issued + 1 \in Maybe
        /\ issued + 1 # None
    BY <1>1 DEF Reauthorize, Issue, IInv, TypeOK
  <1>3. /\ Rotating /\ lost' = FALSE /\ stored' = issued + 1 /\ now' = now
        /\ Restart(issued + 1)
        /\ lost' = (Rotating /\ issued + 1 # issued')
    BY <1>2 DEF Reauthorize
  <1>4. pending' \subseteq Maybe /\ \A r \in pending' : Rotating /\ r <= issued'
    <2>1. pending' = pending /\ issued \in Nat
      BY DEF Reauthorize, IInv, TypeOK
    <2>2. pending \subseteq Maybe /\ \A r \in pending : Rotating /\ r <= issued
      BY DEF IInv, TypeOK, HandsOK
    <2>3. QED
      BY <1>2, <2>1, <2>2
  <1>5. QED
    BY <1>2, <1>3, <1>4, RestartStep

LEMMA TickStep == ASSUME IInv, Tick PROVE IInv'
  <1> USE DEF IInv, Tick, None, Token, Maybe, Quiet, Renewing, service, cache,
              queue, locals, history
  <1>1. TypeOK' /\ HandsOK' /\ ChainOK'
    BY DEF TypeOK, HandsOK, ChainOK
  <1>2. RenewalsAreShared'
    BY DEF TypeOK, RenewalsAreShared, Valid
  <1>3. SavedBeforeUse' /\ RestartCanRefresh'
    BY DEF SavedBeforeUse, RestartCanRefresh
  <1>4. QED
    BY <1>1, <1>2, <1>3

-----------------------------------------------------------------------------
LEMMA NextIInv == IInv /\ [Next]_vars => IInv'
  <1> SUFFICES ASSUME IInv, [Next]_vars PROVE IInv'
    OBVIOUS
  <1>1. CASE \E t \in Tasks, f \in BOOLEAN : Call(t, f)
    BY <1>1, CallStep
  <1>2. CASE \E t \in Tasks : Acquire(t) \/ CancelWaiting(t) \/ Forget(t)
    BY <1>2, AcquireStep, CancelWaitingStep, ForgetStep
  <1>3. CASE \E t \in Tasks : Renewal(t)
    BY <1>3, MintStep, RefusedStep, FailStep, ReceiveStep, SavedStep,
       SaveFailsStep DEF Renewal
  <1>4. CASE Environment
    BY <1>4, CrashStep, ReauthorizeStep, TickStep, HandledLateStep DEF Environment
  <1>5. CASE UNCHANGED vars
    BY <1>5 DEF vars, service, cache, queue, locals, history, IInv, TypeOK,
       HandsOK, ChainOK, RenewalsAreShared, SavedBeforeUse, RestartCanRefresh,
       Valid
  <1>6. QED
    BY <1>1, <1>2, <1>3, <1>4, <1>5 DEF Next

\* IInv holds in every reachable state.
LEMMA Invariance == Spec => []IInv
  BY InitIInv, NextIInv, PTL DEF Spec

\* The provider's state is well formed: in particular the lock is held exactly
\* by the task that renews.
THEOREM TypeCorrect == Spec => []TypeOK
  <1>1. IInv => TypeOK
    BY DEF IInv
  <1>2. QED
    BY <1>1, Invariance, PTL

\* However many tasks find the token stale, one of them renews at a time, and
\* none renews a token that is neither lapsed nor the one it was forced off.
THEOREM OneRenewalAtATime == Spec => []RenewalsAreShared
  <1>1. IInv => RenewalsAreShared
    BY DEF IInv
  <1>2. QED
    BY <1>1, Invariance, PTL

\* The application has stored the pair of every access token it can meet.
THEOREM SaveComesFirst == Spec => []SavedBeforeUse
  <1>1. IInv => SavedBeforeUse
    BY DEF IInv
  <1>2. QED
    BY <1>1, Invariance, PTL

\* Every crash can be recovered from, but for the named exceptions.
THEOREM Recoverable == Spec => []RestartCanRefresh
  <1>1. IInv => RestartCanRefresh
    BY DEF IInv
  <1>2. QED
    BY <1>1, Invariance, PTL

\* A caller presents a spent refresh token only after its successor was lost:
\* the lock lets nobody ask while an answer is on the wire, the pair is held
\* before the lock is free again, and a request that was given up and is granted
\* late is a loss.
THEOREM NoNeedlessReplay == Spec => []ReplayOnlyAfterLoss
  <1>1. IInv => ReplayOnlyAfterLoss
    BY DEF IInv, TypeOK, ChainOK, ReplayOnlyAfterLoss, Renewing
  <1>2. QED
    BY <1>1, Invariance, PTL

\* Access tokens only get newer, across restarts too if every pair is saved.
THEOREM TokensOnlyGetNewer == Spec => NeverBackToAnOlderToken
  <1>1. ASSUME IInv, [Next]_vars, Rotating => Saves
        PROVE  token' = None \/ token' >= token
    <2> USE DEF IInv, None, Token, Maybe
    <2>1. token \in Nat /\ issued \in Nat /\ token <= issued
      BY <1>1 DEF TypeOK, HandsOK
    <2>2. CASE UNCHANGED cache
      BY <2>1, <2>2 DEF cache
    <2>3. ASSUME NEW t \in Tasks, Receive(t) \/ Saved(t)
          PROVE  token' = token \/ token' = issued
      BY <1>1, <2>3 DEF Receive, Saved, Cache, HandsOK, cache
    <2>4. ASSUME Crash
          PROVE  token' = None \/ (token' = stored /\ Saves)
      BY <1>1, <2>4 DEF Crash, Restart, Cache
    <2>5. ASSUME Reauthorize
          PROVE  token' = issued + 1
      BY <2>5, SMT DEF Reauthorize, Restart, Cache
    <2>6. Saves => token <= stored
      BY <1>1 DEF SavedBeforeUse
    <2>7. \/ UNCHANGED cache
          \/ \E t \in Tasks : Receive(t) \/ Saved(t)
          \/ Crash \/ Reauthorize
      BY <1>1 DEF Next, vars, Environment, Renewal, Call, Acquire,
         CancelWaiting, Forget, Mint, Refused, Fail, SaveFails, Tick,
         HandledLate
    <2>8. QED
      BY <2>1, <2>2, <2>3, <2>4, <2>5, <2>6, <2>7
  <1>2. IInv /\ [Next]_vars
           => [(Rotating => Saves) => token' = None \/ token' >= token]_vars
    BY <1>1
  <1>3. QED
    BY <1>2, Invariance, PTL DEF Spec, NeverBackToAnOlderToken

-----------------------------------------------------------------------------
USE RevokeAssumption, BoundAssumption

LEMMA ReqStepIsProviderStep == [ReqNext]_reqvars => [Next]_vars
  <1> SUFFICES ASSUME [ReqNext]_reqvars PROVE [Next]_vars
    OBVIOUS
  <1>1. ASSUME NEW t \in Tasks, Start(t) \/ Retry(t)
        PROVE  Next
    BY <1>1 DEF Start, Retry, Next
  <1>2. ASSUME NEW t \in Tasks, Proceed(t) \/ TokenRefused(t) \/ NoToken(t) \/ Cancelled(t)
        PROVE  Next
    BY <1>2 DEF Proceed, TokenRefused, NoToken, Cancelled, Next, Renewal
  <1>3. ASSUME NEW t \in Tasks, Finish(t) \/ GiveUp(t) \/ Timeout(t)
        PROVE  Next
    BY <1>3 DEF Finish, GiveUp, Timeout, Next
  <1>4. ASSUME NEW t \in Tasks, Arrive(t)
        PROVE  UNCHANGED vars
    BY <1>4 DEF Arrive
  <1>5. CASE NewProcess \/ TimePasses \/ LateRenewal
    BY <1>5 DEF NewProcess, TimePasses, LateRenewal, Next, Environment
  <1>6. CASE Revoke \/ UNCHANGED reqvars
    BY <1>6 DEF Revoke, reqvars
  <1>7. QED
    BY <1>1, <1>2, <1>3, <1>4, <1>5, <1>6 DEF ReqNext, Round, Answered

\* The client is one of the callers the provider is specified for.
THEOREM ClientUsesProvider == ReqSpec => UsesProvider
  <1>1. ReqInit => Init
    BY DEF ReqInit
  <1>2. QED
    BY <1>1, ReqStepIsProviderStep, PTL DEF ReqSpec, Spec, UsesProvider

\* No request carries an access token whose pair the application has not stored.
THEOREM RequestsCarrySavedTokens == ReqSpec => []SavedBeforeUse
  BY ClientUsesProvider, SaveComesFirst, PTL DEF UsesProvider

-----------------------------------------------------------------------------
\* What a task knows of the cached token never runs ahead of it: tokens reach a
\* task through the cache, and the cache only moves on while the task lives.
Behind ==
    \A t \in Tasks : /\ stale[t] <= token
                     /\ pc[t] = "returned" => hand[t] <= token

\* A second round is a forced one, off a token no older than the rejected one,
\* and from the answer on it has a newer one.
SecondRound ==
    \A t \in Tasks : attempt[t] = 1 =>
        /\ pc[t] \in {"waiting", "asking"} => force[t] /\ failed[t] <= stale[t]
        /\ pc[t] \in {"minted", "saving", "returned"} => failed[t] < hand[t]

RInv == IInv /\ ReqTypeOK /\ Behind /\ SecondRound

LEMMA InitRInv == ReqInit => RInv
  <1> SUFFICES ASSUME ReqInit PROVE RInv
    OBVIOUS
  <1>1. IInv
    BY InitIInv DEF ReqInit
  <1>2. ReqTypeOK
    <2>1. /\ rq \in [Tasks -> RequestStates]
          /\ attempt \in [Tasks -> {0, 1}]
          /\ failed \in [Tasks -> Maybe]
          /\ taken \in [Tasks -> Nat]
          /\ revoked \in Maybe /\ revokes \in 0..MaxRevokes
      BY DEF ReqInit, RequestStates, Maybe, None
    <2>2. \A t \in Tasks : /\ pc[t] \notin Quiet => rq[t] = "open"
                           /\ pc[t] = "returned" <=> Sent(t)
                           /\ pc[t] = "idle" <=> rq[t] \in {"idle", "auth_error"}
      BY DEF ReqInit, Init, Quiet, Sent
    <2>3. QED
      BY <1>1, <2>1, <2>2 DEF ReqTypeOK, IInv
  <1>3. Behind /\ SecondRound
    BY <1>1 DEF ReqInit, Init, Behind, SecondRound, IInv, TypeOK, Maybe, None
  <1>4. QED
    BY <1>1, <1>2, <1>3 DEF RInv

LEMMA LeaveStaysBehind ==
    ASSUME TypeOK, Behind, NEW t \in Tasks, NEW n \in Maybe, Leave(t, n),
           n = None \/ n = token', token' \in Nat, token <= token'
    PROVE  Behind'
  <1>1. CASE n = None
    <2>1. pc' = [pc EXCEPT ![t] = "idle"]
      BY <1>1 DEF Leave
    <2>2. QED
      BY <2>1 DEF Leave, Behind, TypeOK, Maybe, None
  <1>2. CASE n # None
    <2>1. pc' = [pc EXCEPT ![t] = "returned"]
      BY <1>2 DEF Leave
    <2>2. QED
      BY <1>2, <2>1 DEF Leave, Behind, TypeOK, Maybe, None
  <1>3. QED
    BY <1>1, <1>2

LEMMA EnterStaysBehind ==
    ASSUME TypeOK, Behind, NEW t \in Tasks, NEW f \in BOOLEAN, NEW old \in Maybe,
           Enter(t, f, old), old <= token, token' = token
    PROVE  Behind'
  <1>1. CASE Leave(t, token)
    BY <1>1, LeaveStaysBehind DEF TypeOK, Maybe
  <1>2. CASE /\ pc' = [pc EXCEPT ![t] = "asking"]
             /\ hand' = [hand EXCEPT ![t] = refresh]
             /\ stale' = [stale EXCEPT ![t] = old]
    BY <1>2 DEF Behind, TypeOK
  <1>3. QED
    BY <1>1, <1>2 DEF Enter

\* A step of the provider leaves every task behind the cache.
LEMMA BehindStep == IInv /\ Behind /\ [Next]_vars => Behind'
  <1> SUFFICES ASSUME IInv, Behind, [Next]_vars PROVE Behind'
    OBVIOUS
  <1> USE DEF IInv, None, Token, Maybe, cache, service, queue, locals, history
  <1>0. TypeOK /\ token \in Nat /\ token <= issued /\ issued \in Nat
    BY DEF TypeOK, HandsOK
  <1>1. ASSUME NEW t \in Tasks, NEW f \in BOOLEAN, Call(t, f)
        PROVE  Behind'
    <2>1. CASE Enter(t, f, token)
      BY <1>0, <1>1, <2>1, EnterStaysBehind DEF Call, TypeOK
    <2>2. CASE /\ pc' = [pc EXCEPT ![t] = "waiting"]
               /\ hand' = [hand EXCEPT ![t] = None]
               /\ stale' = [stale EXCEPT ![t] = token]
      BY <1>0, <1>1, <2>2 DEF Call, Behind, TypeOK
    <2>3. QED
      BY <1>1, <2>1, <2>2 DEF Call
  <1>2. ASSUME NEW t \in Tasks, Acquire(t)
        PROVE  Behind'
    <2>1. /\ force[t] \in BOOLEAN /\ stale[t] \in Maybe /\ stale[t] <= token
          /\ Enter(t, force[t], stale[t]) /\ token' = token
      BY <1>0, <1>2 DEF Acquire, Behind, TypeOK
    <2>2. QED
      BY <1>0, <2>1, EnterStaysBehind
  <1>3. ASSUME NEW t \in Tasks,
               CancelWaiting(t) \/ Forget(t) \/ Refused(t) \/ Fail(t) \/ SaveFails(t)
        PROVE  Behind'
    <2>1. Leave(t, None) /\ token' = token /\ None \in Maybe
      BY <1>3 DEF CancelWaiting, Forget, Refused, Fail, SaveFails
    <2>2. QED
      BY <1>0, <2>1, LeaveStaysBehind
  <1>4. ASSUME NEW t \in Tasks, Mint(t)
        PROVE  Behind'
    BY <1>4 DEF Mint, TypeOK, Behind
  <1>5. ASSUME NEW t \in Tasks, Receive(t) \/ Saved(t)
        PROVE  Behind'
    <2>1. hand[t] = issued /\ hand[t] \in Maybe
      BY <1>5 DEF Receive, Saved, TypeOK, HandsOK
    <2>2. CASE Leave(t, hand[t]) /\ token' = hand[t]
      BY <1>0, <2>1, <2>2, LeaveStaysBehind
    <2>3. CASE pc' = [pc EXCEPT ![t] = "saving"] /\ UNCHANGED <<cache, locals, hand>>
      BY <2>3 DEF Behind, TypeOK
    <2>4. QED
      BY <1>5, <2>2, <2>3 DEF Receive, Saved, Cache
  <1>6. CASE Crash \/ Reauthorize
    <2>1. token' \in Nat
      BY NextIInv DEF TypeOK
    <2>2. stale' = [t \in Tasks |-> None] /\ pc' = [t \in Tasks |-> "idle"]
      BY <1>6 DEF Crash, Reauthorize, Restart
    <2>3. QED
      BY <2>1, <2>2 DEF Behind
  <1>7. CASE Tick \/ (\E r \in pending : HandledLate(r)) \/ UNCHANGED vars
    BY <1>7 DEF Tick, HandledLate, vars, Behind
  <1>8. QED
    BY <1>1, <1>2, <1>3, <1>4, <1>5, <1>6, <1>7 DEF Next, Renewal, Environment

-----------------------------------------------------------------------------
\* The second round of a task changes only with that task's own steps, or with
\* a restart, which ends it.
LEMMA SecondRoundStep == RInv /\ [ReqNext]_reqvars => SecondRound'
  <1> SUFFICES ASSUME RInv, [ReqNext]_reqvars PROVE SecondRound'
    OBVIOUS
  <1> USE DEF None, Token, Maybe, cache, service, queue, locals, history, request, api
  <1>0. /\ TypeOK /\ Behind /\ SecondRound /\ token \in Nat /\ issued \in Nat
        /\ token <= issued
        /\ attempt \in [Tasks -> {0, 1}] /\ failed \in [Tasks -> Maybe]
    BY DEF RInv, IInv, ReqTypeOK, TypeOK, HandsOK
  <1>1. ASSUME NEW t \in Tasks, Start(t)
        PROVE  SecondRound'
    <2>1. \A u \in Tasks \ {t} : /\ pc'[u] = pc[u] /\ hand'[u] = hand[u]
                                 /\ force'[u] = force[u] /\ stale'[u] = stale[u]
      BY <1>0, <1>1 DEF Start, Call, Enter, Leave, TypeOK
    <2>2. QED
      BY <1>0, <1>1, <2>1 DEF Start, SecondRound
  <1>2. ASSUME NEW t \in Tasks, Retry(t)
        PROVE  SecondRound'
    <2>1. \A u \in Tasks \ {t} : /\ pc'[u] = pc[u] /\ hand'[u] = hand[u]
                                 /\ force'[u] = force[u] /\ stale'[u] = stale[u]
      BY <1>0, <1>2 DEF Retry, Call, Enter, Leave, TypeOK
    <2>2. hand[t] <= token
      BY <1>0, <1>2 DEF RInv, ReqTypeOK, Retry, Call, Quiet, Behind, Sent
    <2>3. /\ pc'[t] \in {"waiting", "asking"}
          /\ force'[t] = TRUE /\ stale'[t] = token
      BY <1>0, <1>2 DEF Retry, Call, Enter, Usable, TypeOK
    <2>4. QED
      BY <1>0, <1>2, <2>1, <2>2, <2>3 DEF Retry, SecondRound
  <1>3. ASSUME NEW t \in Tasks, Acquire(t), UNCHANGED <<request, api>>
        PROVE  SecondRound'
    <2>1. \A u \in Tasks \ {t} : /\ pc'[u] = pc[u] /\ hand'[u] = hand[u]
                                 /\ force'[u] = force[u] /\ stale'[u] = stale[u]
      BY <1>0, <1>3 DEF Acquire, Enter, Leave, TypeOK
    <2>2. CASE Leave(t, token) /\ Usable(force[t], stale[t])
      <3>1. pc'[t] = "returned" /\ hand'[t] = token
        BY <1>0, <2>2 DEF Leave, Usable, Valid, TypeOK
      <3>2. attempt[t] = 1 => failed[t] < token
        BY <1>0, <1>3, <2>2 DEF Acquire, Usable, SecondRound, Behind, TypeOK
      <3>3. QED
        BY <1>0, <1>3, <2>1, <3>1, <3>2 DEF SecondRound
    <2>3. CASE /\ pc' = [pc EXCEPT ![t] = "asking"]
               /\ force' = [force EXCEPT ![t] = force[t]]
               /\ stale' = [stale EXCEPT ![t] = stale[t]]
      <3>1. pc'[t] = "asking" /\ force'[t] = force[t] /\ stale'[t] = stale[t]
        BY <1>0, <2>3 DEF TypeOK
      <3>2. QED
        BY <1>0, <1>3, <2>1, <3>1 DEF Acquire, SecondRound
    <2>4. QED
      BY <1>3, <2>2, <2>3 DEF Acquire, Enter
  <1>4. ASSUME NEW t \in Tasks, Mint(t), UNCHANGED <<request, api>>
        PROVE  SecondRound'
    <2>1. attempt[t] = 1 => failed[t] < issued + 1
      BY <1>0, <1>4 DEF Mint, SecondRound, Behind, TypeOK
    <2>2. QED
      BY <1>0, <1>4, <2>1 DEF Mint, SecondRound, TypeOK
  <1>5. ASSUME NEW t \in Tasks, Receive(t) \/ Saved(t), UNCHANGED <<request, api>>
        PROVE  SecondRound'
    <2>1. \A u \in Tasks \ {t} : /\ pc'[u] = pc[u] /\ hand'[u] = hand[u]
                                 /\ force'[u] = force[u] /\ stale'[u] = stale[u]
      BY <1>0, <1>5 DEF Receive, Saved, Leave, TypeOK
    <2>2. /\ pc[t] \in {"minted", "saving"} /\ hand'[t] = hand[t]
          /\ pc'[t] \in {"saving", "returned", "idle"}
      BY <1>0, <1>5 DEF Receive, Saved, Leave, TypeOK
    <2>3. QED
      BY <1>0, <1>5, <2>1, <2>2 DEF SecondRound
  <1>6. ASSUME NEW t \in Tasks, Leave(t, None), attempt' = attempt, failed' = failed
        PROVE  SecondRound'
    <2>1. pc' = [pc EXCEPT ![t] = "idle"]
      BY <1>6 DEF Leave
    <2>2. QED
      BY <1>0, <1>6, <2>1 DEF Leave, SecondRound, TypeOK
  <1>7. CASE NewProcess
    BY <1>7 DEF NewProcess, SecondRound
  <1>8. CASE UNCHANGED <<pc, hand, force, stale, attempt, failed>>
    BY <1>0, <1>8 DEF SecondRound
  <1>9. ASSUME NEW t \in Tasks, Round(t)
        PROVE  SecondRound'
    <2>1. CASE Proceed(t)
      BY <2>1, <1>3, <1>4, <1>5 DEF Proceed
    <2>2. CASE TokenRefused(t) \/ NoToken(t) \/ Cancelled(t)
      BY <2>2, <1>6 DEF TokenRefused, NoToken, Cancelled, Refused, Fail,
         SaveFails, CancelWaiting
    <2>3. CASE Finish(t) \/ GiveUp(t) \/ Timeout(t)
      BY <2>3, <1>6 DEF Finish, GiveUp, Timeout, Forget
    <2>4. CASE Arrive(t)
      BY <2>4, <1>8 DEF Arrive, vars
    <2>5. QED
      BY <1>2, <1>9, <2>1, <2>2, <2>3, <2>4 DEF Round, Answered
  <1>10. CASE Revoke \/ TimePasses \/ LateRenewal \/ UNCHANGED reqvars
    BY <1>8, <1>10 DEF Revoke, TimePasses, Tick, LateRenewal, HandledLate, vars, reqvars
  <1>11. QED
    BY <1>1, <1>7, <1>9, <1>10 DEF ReqNext

-----------------------------------------------------------------------------
\* The part of ReqTypeOK that relates a request to its task's provider call.
Paired(where, what) ==
    \/ where = "idle" /\ what \in {"idle", "auth_error"}
    \/ where = "returned" /\ what \in {"open", "accepted", "denied"}
    \/ where \in Renewing \cup {"waiting"} /\ what = "open"

LEMMA PairedIsShape ==
    ASSUME TypeOK, rq \in [Tasks -> RequestStates]
    PROVE  (\A t \in Tasks : Paired(pc[t], rq[t]))
              <=> \A t \in Tasks : /\ pc[t] \notin Quiet => rq[t] = "open"
                                   /\ pc[t] = "returned" <=> Sent(t)
                                   /\ pc[t] = "idle" <=> rq[t] \in {"idle", "auth_error"}
  BY DEF TypeOK, RequestStates, Paired, Sent, Quiet, Renewing

LEMMA PairedStep ==
    ASSUME TypeOK, HandsOK, rq \in [Tasks -> RequestStates],
           \A u \in Tasks : Paired(pc[u], rq[u]),
           [ReqNext]_reqvars
    PROVE  \A u \in Tasks : Paired(pc'[u], rq'[u])
  <1> USE DEF None, vars, request, Becomes
  <1>1. ASSUME NEW t \in Tasks, NEW where, NEW what,
               pc' = [pc EXCEPT ![t] = where], rq' = [rq EXCEPT ![t] = what],
               Paired(where, what)
        PROVE  \A u \in Tasks : Paired(pc'[u], rq'[u])
    BY <1>1 DEF TypeOK
  <1>2. ASSUME NEW t \in Tasks, NEW f, NEW old, Enter(t, f, old)
        PROVE  \/ pc' = [pc EXCEPT ![t] = "asking"]
               \/ pc' = [pc EXCEPT ![t] = "returned"]
    <2>1. CASE Usable(f, old) /\ Leave(t, token)
      BY <2>1 DEF Usable, Valid, Leave
    <2>2. QED
      BY <1>2, <2>1 DEF Enter
  <1>3. ASSUME NEW t \in Tasks, Start(t) \/ Retry(t)
        PROVE  \A u \in Tasks : Paired(pc'[u], rq'[u])
    <2>1. \/ pc' = [pc EXCEPT ![t] = "asking"]
          \/ pc' = [pc EXCEPT ![t] = "returned"]
          \/ pc' = [pc EXCEPT ![t] = "waiting"]
      BY <1>2, <1>3 DEF Start, Retry, Call
    <2>2. rq' = [rq EXCEPT ![t] = "open"]
      BY <1>3 DEF Start, Retry
    <2>3. QED
      BY <1>1, <2>1, <2>2 DEF Paired, Renewing
  <1>4. ASSUME NEW t \in Tasks, Proceed(t)
        PROVE  \A u \in Tasks : Paired(pc'[u], rq'[u])
    <2>1. pc[t] \in {"waiting", "asking", "minted", "saving"} /\ rq' = rq
      BY <1>4 DEF Proceed, Acquire, Mint, Receive, Saved
    <2>2. rq[t] = "open" /\ rq' = [rq EXCEPT ![t] = "open"]
      BY <2>1 DEF Paired
    <2>3. CASE Acquire(t)
      BY <1>1, <1>2, <2>2, <2>3 DEF Acquire, Paired, Renewing
    <2>4. CASE Mint(t)
      BY <1>1, <2>2, <2>4 DEF Mint, Paired, Renewing
    <2>5. CASE Receive(t) \/ Saved(t)
      <3>1. CASE pc' = [pc EXCEPT ![t] = "saving"]
        BY <1>1, <2>2, <3>1 DEF Paired, Renewing
      <3>2. CASE Leave(t, hand[t])
        <4>1. hand[t] # None
          BY <2>5 DEF HandsOK, Receive, Saved
        <4>2. pc' = [pc EXCEPT ![t] = "returned"]
          BY <3>2, <4>1 DEF Leave
        <4>3. QED
          BY <1>1, <2>2, <4>2 DEF Paired
      <3>3. QED
        BY <2>5, <3>1, <3>2 DEF Receive, Saved
    <2>6. QED
      BY <1>4, <2>3, <2>4, <2>5 DEF Proceed
  <1>5. ASSUME NEW t \in Tasks, Leave(t, None),
               rq' = [rq EXCEPT ![t] = "idle"] \/ rq' = [rq EXCEPT ![t] = "auth_error"]
        PROVE  \A u \in Tasks : Paired(pc'[u], rq'[u])
    <2>1. pc' = [pc EXCEPT ![t] = "idle"]
      BY <1>5 DEF Leave
    <2>2. QED
      BY <1>1, <1>5, <2>1 DEF Paired
  <1>6. ASSUME NEW t \in Tasks, TokenRefused(t) \/ NoToken(t) \/ Cancelled(t)
        PROVE  \A u \in Tasks : Paired(pc'[u], rq'[u])
    BY <1>5, <1>6 DEF TokenRefused, NoToken, Cancelled, Refused, Fail, SaveFails,
       CancelWaiting
  <1>7. ASSUME NEW t \in Tasks, Finish(t) \/ GiveUp(t) \/ Timeout(t)
        PROVE  \A u \in Tasks : Paired(pc'[u], rq'[u])
    BY <1>5, <1>7 DEF Finish, GiveUp, Timeout, Forget
  <1>8. ASSUME NEW t \in Tasks, Arrive(t)
        PROVE  \A u \in Tasks : Paired(pc'[u], rq'[u])
    <2>1. pc[t] = "returned" /\ pc' = pc
      BY <1>8 DEF Arrive
    <2>2. pc' = [pc EXCEPT ![t] = "returned"]
      BY <2>1 DEF TypeOK
    <2>3. \/ rq' = [rq EXCEPT ![t] = "accepted"]
          \/ rq' = [rq EXCEPT ![t] = "denied"]
      BY <1>8 DEF Arrive
    <2>4. QED
      BY <1>1, <2>2, <2>3 DEF Paired
  <1>9. CASE NewProcess
    BY <1>9 DEF NewProcess, Crash, Reauthorize, Restart, Paired
  <1>10. CASE Revoke \/ TimePasses \/ LateRenewal \/ UNCHANGED reqvars
    BY <1>10 DEF Revoke, TimePasses, Tick, LateRenewal, HandledLate, reqvars
  <1>11. QED
    BY <1>3, <1>4, <1>6, <1>7, <1>8, <1>9, <1>10 DEF ReqNext, Round, Answered

LEMMA RequestTypesStep ==
    ASSUME ReqTypeOK, [ReqNext]_reqvars, issued \in Maybe
    PROVE  /\ rq' \in [Tasks -> RequestStates]
           /\ attempt' \in [Tasks -> {0, 1}]
           /\ failed' \in [Tasks -> Maybe]
           /\ taken' \in [Tasks -> Nat]
           /\ revoked' \in Maybe /\ revokes' \in 0..MaxRevokes
  <1> USE DEF ReqTypeOK, RequestStates, Becomes, Maybe, None, request, api
  <1>1. ASSUME NEW t \in Tasks, Start(t) \/ Round(t)
        PROVE  /\ rq' \in [Tasks -> RequestStates]
               /\ attempt' \in [Tasks -> {0, 1}]
               /\ UNCHANGED api
    BY <1>1 DEF Start, Round, Proceed, TokenRefused, NoToken, Cancelled, Answered,
       Arrive, Finish, Retry, GiveUp, Timeout
  <1>2. ASSUME NEW t \in Tasks, Start(t) \/ Round(t)
        PROVE  /\ failed' \in [Tasks -> Maybe]
               /\ taken' \in [Tasks -> Nat]
    <2>1. CASE Start(t)
      BY <2>1 DEF Start
    <2>2. CASE Retry(t)
      BY <2>2 DEF Retry, TypeOK
    <2>3. CASE Arrive(t)
      BY <2>3 DEF Arrive
    <2>4. Start(t) \/ Retry(t) \/ Arrive(t) \/ UNCHANGED <<failed, taken>>
      BY <1>2 DEF Round, Proceed, TokenRefused, NoToken, Cancelled, Answered,
         Finish, GiveUp, Timeout
    <2>5. QED
      BY <2>1, <2>2, <2>3, <2>4
  <1>3. CASE NewProcess \/ Revoke \/ TimePasses \/ LateRenewal \/ UNCHANGED reqvars
    BY <1>3 DEF NewProcess, Revoke, TimePasses, LateRenewal, reqvars
  <1>4. QED
    BY <1>1, <1>2, <1>3 DEF ReqNext

LEMMA NextRInv == RInv /\ [ReqNext]_reqvars => RInv'
  <1> SUFFICES ASSUME RInv, [ReqNext]_reqvars PROVE RInv'
    OBVIOUS
  <1>1. [Next]_vars
    BY ReqStepIsProviderStep
  <1>2. IInv'
    BY <1>1, NextIInv DEF RInv
  <1>3. Behind'
    BY <1>1, BehindStep DEF RInv
  <1>4. /\ rq' \in [Tasks -> RequestStates]
        /\ attempt' \in [Tasks -> {0, 1}]
        /\ failed' \in [Tasks -> Maybe]
        /\ taken' \in [Tasks -> Nat]
        /\ revoked' \in Maybe /\ revokes' \in 0..MaxRevokes
    BY RequestTypesStep DEF RInv, IInv, TypeOK
  <1>5. \A t \in Tasks : Paired(pc'[t], rq'[t])
    BY PairedStep, PairedIsShape DEF RInv, IInv, ReqTypeOK
  <1>6. TypeOK'
    BY <1>2 DEF IInv
  <1>7. \A t \in Tasks : /\ pc'[t] \notin Quiet => rq'[t] = "open"
                         /\ pc'[t] = "returned" <=> Sent(t)'
                         /\ pc'[t] = "idle" <=> rq'[t] \in {"idle", "auth_error"}
    BY <1>4, <1>5, <1>6 DEF TypeOK, RequestStates, Paired, Sent, Quiet, Renewing
  <1>8. ReqTypeOK'
    BY <1>4, <1>6, <1>7 DEF ReqTypeOK
  <1>9. QED
    BY <1>2, <1>3, <1>8, SecondRoundStep DEF RInv

\* The client's state is well formed: a request is open while its task is in
\* the provider, and a task with a token has a request that carries it.
THEOREM RequestTypeCorrect == ReqSpec => []ReqTypeOK
  <1>1. RInv => ReqTypeOK
    BY DEF RInv
  <1>2. QED
    BY <1>1, InitRInv, NextRInv, PTL DEF ReqSpec

\* For every number of requests, revocations and renewals, a request that was
\* rejected is sent again with a newer token or not at all.
THEOREM RetriesAreWorthIt == ReqSpec => []RetryCarriesANewerToken
  <1>1. RInv => RetryCarriesANewerToken
    BY DEF RInv, IInv, ReqTypeOK, TypeOK, SecondRound, RetryCarriesANewerToken,
       Sent, Maybe, None
  <1>2. QED
    BY <1>1, InitRInv, NextRInv, PTL DEF ReqSpec

-----------------------------------------------------------------------------
\* A request that may yet be sent has not been accepted.
Once ==
    \A t \in Tasks : /\ taken[t] \in {0, 1}
                     /\ rq[t] \in {"open", "denied"} => taken[t] = 0

\* Only a request that is open is accepted, and an accepted one only ends.
LEMMA OnceStep == ReqTypeOK /\ Once /\ [ReqNext]_reqvars => Once'
  <1> SUFFICES ASSUME ReqTypeOK, Once, [ReqNext]_reqvars PROVE Once'
    OBVIOUS
  <1> USE DEF Once, Becomes, request
  <1>1. rq \in [Tasks -> RequestStates] /\ taken \in [Tasks -> Nat]
    BY DEF ReqTypeOK
  <1>2. ASSUME NEW t \in Tasks, Start(t)
        PROVE  Once'
    BY <1>1, <1>2 DEF Start
  <1>3. ASSUME NEW t \in Tasks, Arrive(t)
        PROVE  Once'
    BY <1>1, <1>3 DEF Arrive
  <1>4. ASSUME NEW t \in Tasks, Retry(t)
        PROVE  Once'
    BY <1>1, <1>4 DEF Retry
  <1>5. ASSUME NEW t \in Tasks,
               rq' = [rq EXCEPT ![t] = "idle"] \/ rq' = [rq EXCEPT ![t] = "auth_error"],
               taken' = taken
        PROVE  Once'
    BY <1>1, <1>5
  <1>6. ASSUME NEW t \in Tasks,
               \/ TokenRefused(t) \/ NoToken(t) \/ Cancelled(t)
               \/ Finish(t) \/ GiveUp(t) \/ Timeout(t)
        PROVE  Once'
    BY <1>5, <1>6 DEF TokenRefused, NoToken, Cancelled, Finish, GiveUp, Timeout
  <1>7. ASSUME NEW t \in Tasks, Proceed(t)
        PROVE  Once'
    BY <1>7 DEF Proceed
  <1>8. CASE NewProcess
    BY <1>8 DEF NewProcess
  <1>9. CASE Revoke \/ TimePasses \/ LateRenewal \/ UNCHANGED reqvars
    BY <1>9 DEF Revoke, TimePasses, LateRenewal, reqvars
  <1>10. QED
    BY <1>2, <1>3, <1>4, <1>6, <1>7, <1>8, <1>9 DEF ReqNext, Round, Answered

\* No request is applied twice, whatever is lost, late, rejected or tried again:
\* only a 401 is followed by another sending (client.py:250).
THEOREM NothingIsAppliedTwice == ReqSpec => []AcceptedAtMostOnce
  <1>1. ReqInit => Once
    BY DEF ReqInit, Once
  <1>2. Once => AcceptedAtMostOnce
    <2>1. \A n \in {0, 1} : n <= 1
      OBVIOUS
    <2>2. SUFFICES ASSUME Once, NEW t \in Tasks PROVE taken[t] <= 1
      BY DEF AcceptedAtMostOnce
    <2>3. QED
      BY <2>1, <2>2, Zenon DEF Once
  <1>3. QED
    BY <1>1, <1>2, OnceStep, RequestTypeCorrect, PTL DEF ReqSpec
==============================================================================
