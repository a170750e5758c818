----------------------------- MODULE FedexClient ----------------------------
(***************************************************************************)
(* The FedEx client (src/src/shipments/fedex.service.ts) under the limiter *)
(* that fans a tracking-sync request out: every closure the limiter runs   *)
(* makes one call of trackPackage, and settles with it.  All calls share   *)
(* one token, kept in memory and in a file that survives restarts, and one *)
(* refresh at a time.  Each await of getSmartToken, forceRefreshToken,     *)
(* requestNewToken and postTracking is a point where other calls run.      *)
(* Tokens are numbered as FedEx issues them.                               *)
(***************************************************************************)
EXTENDS ConcurrencyLimit

CONSTANTS MaxAttempts,    \* maxAttempts of postTracking (4 in the code)
          MaxTroubles     \* bound: revocations, agings and faults in a behaviour

ASSUME AttemptsAssumption == MaxAttempts \in Nat \ {0}
ASSUME TroublesAssumption == MaxTroubles \in Nat

VARIABLES cachedToken,  \* 0: null
          tokenFile,    \* fedex-token.json, 0: absent
          tokenRefreshPromise, \* the refresh under way and the token it got
          call,         \* each closure's call of postTracking
          issued,       \* tokens issued so far
          revoked,      \* FedEx refuses the tokens up to this one
          aged,         \* the tokens up to this one are past the margin here
          revocations,  \* times FedEx withdrew the tokens it had issued
          agings,       \* times the tokens issued reached the 5 minute margin
          faults,       \* timeouts, 429, 5xx and other errors answered
          unauthorized, \* ghost: 401 answers of each call
          backdated     \* ghost: times the file put a refused token into the cache

server  == <<issued, revoked, aged, revocations, agings>>
client  == <<cachedToken, tokenFile, tokenRefreshPromise, call, faults, unauthorized, backdated>>
limiter == <<active, queue, stage>>
fvars   == <<limiter, client, server>>

NoRefresh == [step |-> "none", token |-> 0]
At(pc, n, tok) == [pc |-> pc, attempt |-> n, token |-> tok]

(* The process starts with the file of the previous one, or none.          *)
FInit ==
  /\ Init
  /\ cachedToken = 0
  /\ tokenFile \in {0, 1}
  /\ tokenRefreshPromise = NoRefresh
  /\ call = [t \in Tasks |-> At("start", 1, 0)]
  /\ issued = 1
  /\ revoked \in {0, 1}
  /\ aged = 0
  /\ revocations = 0
  /\ agings = 0
  /\ faults = 0
  /\ unauthorized = [t \in Tasks |-> 0]
  /\ backdated = 0

Trouble == revocations + agings + faults < MaxTroubles

Usable(tok) == tok > aged   \* now < expiresAt - 300000; 0 never is

Is(t, pc) == stage[t] = "running" /\ call[t].pc = pc
Goto(t, pc, tok) == call' = [call EXCEPT ![t] = At(pc, @.attempt, tok)]

(* The end of an attempt that failed: the next one, or the call rejects.   *)
AfterAttempt(c) ==
  IF c.attempt = MaxAttempts THEN At("rejected", c.attempt, 0) ELSE At("start", c.attempt + 1, 0)

-----------------------------------------------------------------------------
(* refreshToken: join the refresh under way, or start one.                 *)
JoinRefresh(t, pc) ==
  /\ Goto(t, pc, 0)
  /\ tokenRefreshPromise' = IF tokenRefreshPromise.step = "none"
                            THEN [step |-> "posting", token |-> 0] ELSE tokenRefreshPromise

(* getSmartToken up to its first await.                                    *)
SmartToken(t) ==
  /\ Is(t, "start")
  /\ IF Usable(cachedToken) THEN Goto(t, "posted", cachedToken) ELSE Goto(t, "reading", 0)
  /\ UNCHANGED <<limiter, server, cachedToken, tokenFile, tokenRefreshPromise, faults, unauthorized, backdated>>

ReadFile(t) ==
  /\ Is(t, "reading")
  /\ Goto(t, "read", IF Usable(tokenFile) THEN tokenFile ELSE 0)
  /\ UNCHANGED <<limiter, server, cachedToken, tokenFile, tokenRefreshPromise, faults, unauthorized, backdated>>

(* The rest of getSmartToken, with what the file held when it was read.    *)
FromFile(t) ==
  /\ Is(t, "read")
  /\ LET tok == call[t].token
     IN  IF tok # 0
         THEN /\ cachedToken' = tok
              /\ Goto(t, "posted", tok)
              /\ backdated' = IF tok <= revoked THEN backdated + 1 ELSE backdated
              /\ UNCHANGED tokenRefreshPromise
         ELSE /\ JoinRefresh(t, "smart")
              /\ UNCHANGED <<cachedToken, backdated>>
  /\ UNCHANGED <<limiter, server, tokenFile, faults, unauthorized>>

(* The tracking request is answered.                                       *)
Accepted(t) ==
  /\ Is(t, "posted")
  /\ call[t].token > revoked
  /\ Goto(t, "resolved", 0)
  /\ UNCHANGED <<limiter, server, cachedToken, tokenFile, tokenRefreshPromise, faults, unauthorized, backdated>>

(* mutant: the refused token stays in the cache.                           *)
CacheKept == cachedToken

(* forceRefreshToken up to its first await.                                *)
CacheAfter401 == 0

Unauthorized(t) ==
  /\ Is(t, "posted")
  /\ call[t].token <= revoked
  /\ cachedToken' = CacheAfter401
  /\ unauthorized' = [unauthorized EXCEPT ![t] = @ + 1]
  /\ Goto(t, "unlinking", 0)
  /\ UNCHANGED <<limiter, server, tokenFile, tokenRefreshPromise, faults, backdated>>

Unlink(t) ==
  /\ Is(t, "unlinking")
  /\ tokenFile' = 0
  /\ Goto(t, "unlinked", 0)
  /\ UNCHANGED <<limiter, server, cachedToken, tokenRefreshPromise, faults, unauthorized, backdated>>

ForceRefresh(t) ==
  /\ Is(t, "unlinked")
  /\ JoinRefresh(t, "forced")
  /\ UNCHANGED <<limiter, server, cachedToken, tokenFile, faults, unauthorized, backdated>>

(* A timeout, 429 or 5xx is retried after a wait; another 4xx rejects.     *)
Fault(t) ==
  /\ Is(t, "posted")
  /\ Trouble
  /\ faults' = faults + 1
  /\ \/ call' = [call EXCEPT ![t] = AfterAttempt(@)]
     \/ Goto(t, "rejected", 0)
  /\ UNCHANGED <<limiter, server, cachedToken, tokenFile, tokenRefreshPromise, unauthorized, backdated>>

-----------------------------------------------------------------------------
(* requestNewToken: the answer of the auth endpoint fills the cache, and   *)
(* the promise settles when the file is written.                           *)
AuthAnswer ==
  /\ tokenRefreshPromise.step = "posting"
  /\ issued' = issued + 1
  /\ cachedToken' = issued + 1
  /\ tokenRefreshPromise' = [step |-> "saving", token |-> issued + 1]
  /\ UNCHANGED <<limiter, tokenFile, call, faults, unauthorized, backdated,
                 revoked, aged, revocations, agings>>

(* mutant: only the caller that started the refresh goes on.               *)
ResumedOne(tok) ==
  [t \in Tasks |->
     IF \E u \in Tasks : u # t /\ call[u].pc = "smart" THEN call[t]
     ELSE IF call[t].pc = "smart" THEN At("posted", call[t].attempt, tok)
     ELSE IF call[t].pc = "forced" THEN AfterAttempt(call[t])
     ELSE call[t]]

(* Every caller that awaits the refresh goes on: with the token, or after  *)
(* a 401 with its next attempt.                                            *)
Resumed(tok) ==
  [t \in Tasks |->
     IF call[t].pc = "smart" THEN At("posted", call[t].attempt, tok)
     ELSE IF call[t].pc = "forced" THEN AfterAttempt(call[t])
     ELSE call[t]]

SaveToken ==
  /\ tokenRefreshPromise.step = "saving"
  /\ tokenFile' = tokenRefreshPromise.token
  /\ call' = Resumed(tokenRefreshPromise.token)
  /\ tokenRefreshPromise' = NoRefresh
  /\ UNCHANGED <<limiter, server, cachedToken, faults, unauthorized, backdated>>

(* The auth request fails.  After a 401 that is the end of the attempt;    *)
(* whoever wanted a token treats the error as one of the tracking request: *)
(* retried, refused for good, or a 401 that forces one more refresh.       *)
AuthFails ==
  /\ tokenRefreshPromise.step = "posting"
  /\ Trouble
  /\ faults' = faults + 1
  /\ \E after \in {"retry", "rejected", "unlinking"} :
       /\ call' = [t \in Tasks |->
                     IF call[t].pc = "forced" \/ (call[t].pc = "smart" /\ after = "retry")
                     THEN AfterAttempt(call[t])
                     ELSE IF call[t].pc = "smart" THEN At(after, call[t].attempt, 0)
                     ELSE call[t]]
       /\ cachedToken' = IF after = "unlinking" /\ (\E t \in Tasks : call[t].pc = "smart")
                         THEN CacheAfter401 ELSE cachedToken
  /\ tokenRefreshPromise' = NoRefresh
  /\ UNCHANGED <<limiter, server, tokenFile, unauthorized, backdated>>

(* FedEx withdraws its tokens; the tokens reach the margin here.           *)
Revoke ==
  /\ Trouble
  /\ revoked < issued
  /\ revoked' = issued
  /\ revocations' = revocations + 1
  /\ UNCHANGED <<limiter, client, issued, aged, agings>>

Age ==
  /\ Trouble
  /\ aged < issued
  /\ aged' = issued
  /\ agings' = agings + 1
  /\ UNCHANGED <<limiter, client, issued, revoked, revocations>>

(* The closure settles with its call; the limiter does the rest.           *)
SettleCall(t) ==
  /\ call[t].pc \in {"resolved", "rejected"}
  /\ Settle(t)
  /\ UNCHANGED <<client, server>>

Step(t) ==
  \/ SmartToken(t) \/ ReadFile(t) \/ FromFile(t)
  \/ Accepted(t) \/ Unauthorized(t) \/ Unlink(t) \/ ForceRefresh(t)
  \/ SettleCall(t)
  \/ Release(t) /\ UNCHANGED <<client, server>>

Refresh == AuthAnswer \/ SaveToken

FNext ==
  \/ \E t \in Tasks : Submit(t) /\ UNCHANGED <<client, server>>
  \/ \E t \in Tasks : Step(t) \/ Fault(t)
  \/ Refresh \/ AuthFails
  \/ Revoke \/ Age

(* The event loop runs every continuation, and every request has a 15 s    *)
(* timeout, so that it is answered or fails: the process never stops while *)
(* a call can go on.                                                       *)
FSpec == FInit /\ [][FNext]_fvars /\ WF_fvars((\E t \in Tasks : Step(t)) \/ Refresh)

-----------------------------------------------------------------------------
Tokens == 0..issued

(* Type invariant of the client and of the limiter under it.  Besides the  *)
(* types: a closure that left its slot has made its call, and a caller     *)
(* awaits a refresh only while there is one.                               *)
FTypeOK ==
  /\ TypeOK
  /\ cachedToken \in Tokens /\ tokenFile \in Tokens
  /\ tokenRefreshPromise \in [step : {"none", "posting", "saving"}, token : Tokens]
  /\ \A t \in Tasks :
       /\ call[t].attempt \in 1..MaxAttempts /\ call[t].token \in Tokens
       /\ call[t].pc \in {"smart", "forced"} => tokenRefreshPromise.step # "none"
       /\ stage[t] \in {"settled", "done"} => call[t].pc \in {"resolved", "rejected"}
  /\ revoked \in Tokens /\ aged \in Tokens

(* A call is answered 401 at most once for every time FedEx withdrew its   *)
(* tokens, plus once for every time a late read of the file put a refused  *)
(* token back into the cache: refusing one token costs a call one of its   *)
(* attempts, whichever of the concurrent calls refreshes it.               *)
UnauthorizedBounded == \A t \in Tasks : unauthorized[t] <= revocations + backdated
=============================================================================
