------------------------------ MODULE Connection ------------------------------
(***************************************************************************)
(* How the API talks to the ERP: the connection settings in the database,  *)
(* the access token kept with them, the refresh that all callers share,    *)
(* and the requests of the ERP client, which refresh the token when it is  *)
(* old and once more when the ERP answers 401.                             *)
(*                                                                         *)
(* One step is what one process does between two awaits.  Time runs in     *)
(* ticks of 300 seconds, the unit of both safety margins in the code.  The *)
(* lastTest fields of the settings are only shown and are left out, as is  *)
(* a database that fails outside the try block of a refresh.               *)
(***************************************************************************)
EXTENDS Integers, Sequences, FiniteSets

CONSTANTS
  Requests,       \* calls of the ERP client, each made once
  Admins,         \* users who log in, and save or test credentials
  Keys,           \* integration keys an admin may enter
  EnvKey,         \* the integration key of the environment
  Lifetimes,      \* expires_in of an access token, in ticks
  MaxConcurrent,  \* slots of the rate limiter
  MaxRetries,     \* attempts of requestWithRetry on 429 and 5xx
  MaxTime,        \* bound: ticks
  MaxTokens,      \* bound: access tokens the ERP issues
  MaxRevoked,     \* bound: access tokens the ERP withdraws
  MaxRows         \* bound: settings documents

ASSUME LifetimesAssumption == Lifetimes \subseteq Nat /\ \A l \in Lifetimes : l > 1

(* A key stands for who gave it: the environment or an admin. *)
ASSUME EnvKeyAssumption == EnvKey \notin Keys

ASSUME BoundsAssumption ==
  /\ MaxConcurrent \in Nat /\ MaxRetries \in Nat /\ MaxRetries > 0
  /\ MaxTime \in Nat /\ MaxTokens \in Nat
  /\ MaxRevoked \in Nat /\ MaxRows \in Nat \ {0}
  /\ "refresh" \notin Admins

VARIABLES
  now,     \* the clock
  env,     \* are the credentials in the environment as well?
  rows,    \* the settings documents, in the order of insertion
  tokens,  \* the tokens the ERP issued, in order
  task,    \* the shared refresh, and what each user is doing
  req,     \* the requests
  causes   \* history: what happened that may harm a request (see Causes)

vars == <<now, env, rows, tokens, task, req, causes>>

Tasks == {"refresh"} \cup Admins

AnyKey == Keys \cup {EnvKey}

(* tokenExpiresAt: undefined, the Date(0) of a cleared token, or a time. *)
Undefined == -1
Expiry    == Nat \cup {Undefined}

(* token 0: none. *)
Row == [active : BOOLEAN, key : AnyKey, token : Nat, expiresAt : Expiry]

Token == [key : AnyKey, issued : Nat, life : Lifetimes, revoked : BOOLEAN]

TaskPoints == {"idle", "settings", "fetch", "login", "check", "find", "deactivate",
               "insert", "refind", "store", "report"}

(* What a task holds: the key and the token, and the document it read. *)
Task == [pc : TaskPoints, key : AnyKey, token : Nat, row : Nat]

RequestPoints == {"idle", "queued", "read", "waiting", "go", "refreshing",
                  "invalidate", "marking", "ok", "failed", "authError"}

(* row, token and expiresAt: the copy of the document, row 0 if none. *)
Request == [pc : RequestPoints, attempt : Nat, authRetried : BOOLEAN,
            row : Nat, token : Nat, expiresAt : Expiry]

(* A refresh that failed; one that found no credentials; a look for active *)
(* settings between the two steps of a save, or after a save broke off     *)
(* there; a token under way for longer than the margin; settings inserted  *)
(* while a token was under way; a test with another key; two saves at      *)
(* once; a token withdrawn before it was stored; a token of an admin that  *)
(* is stored while the refresh has another in hand.                        *)
Causes == {"refreshFailed", "noCredentials", "gap", "slow", "switched",
           "testedOther", "overlap", "revokedEarly", "crossed"}

NewRow(k) == [active |-> TRUE, key |-> k, token |-> 0, expiresAt |-> Undefined]

NewRequest == [pc |-> "idle", attempt |-> 0, authRetried |-> FALSE,
               row |-> 0, token |-> 0, expiresAt |-> Undefined]

IdleTask == [pc |-> "idle", key |-> EnvKey, token |-> 0, row |-> 0]

Init ==
  /\ now = 0
  /\ env \in BOOLEAN
  /\ \/ rows = <<>>
     \/ \E k \in Keys : rows = <<NewRow(k)>>
  /\ tokens = <<>>
  /\ task   = [t \in Tasks |-> IdleTask]
  /\ req    = [r \in Requests |-> NewRequest]
  /\ causes = {}

-----------------------------------------------------------------------------
(* The settings documents and the tokens *)

ActiveRows == {i \in DOMAIN rows : rows[i].active}

(* findOne({isActive: true}): any active document, 0 for null. *)
Found(i) == i \in ActiveRows \/ (i = 0 /\ ActiveRows = {})

Saving == {t \in Tasks : task[t].pc \in {"deactivate", "insert"}}

Gap(i) == IF i = 0 /\ (rows # <<>> \/ Saving # {}) THEN {"gap"} ELSE {}

Expires(n) == tokens[n].issued + tokens[n].life

Accepted(n) == n # 0 /\ ~tokens[n].revoked /\ now < Expires(n)

Margin == 1

(* Mutant: the stored expiry is the real one. *)
StoredExpiryExact(n) == now + tokens[n].life

(* saveAccessToken: Date.now() + (expiresIn - 300) * 1000. *)
StoredExpiry(n) == now + tokens[n].life - Margin

(* tokenNeedsRefresh *)
NeedsRefresh(expiresAt) == expiresAt <= now + Margin

Tick ==
  /\ now < MaxTime
  /\ \A r \in Requests : req[r].pc # "go"
  /\ now' = now + 1
  /\ causes' = IF \E t \in Tasks : /\ task[t].token # 0
                                   /\ now + 1 > tokens[task[t].token].issued + Margin
                 THEN causes \cup {"slow"} ELSE causes
  /\ UNCHANGED <<env, rows, tokens, task, req>>

Revoked == {n \in DOMAIN tokens : tokens[n].revoked}

(* The ERP may withdraw a token before it expires. *)
Revoke(n) ==
  /\ ~tokens[n].revoked
  /\ Cardinality(Revoked) < MaxRevoked
  /\ tokens' = [tokens EXCEPT ![n].revoked = TRUE]
  /\ causes' = IF \E t \in Tasks : task[t].token = n
                 THEN causes \cup {"revokedEarly"} ELSE causes
  /\ UNCHANGED <<now, env, rows, task, req>>

-----------------------------------------------------------------------------
(* saveSettings and saveAccessToken: steps of a refresh or of an admin *)

Goto(t, point) == task' = [task EXCEPT ![t].pc = point]

(* Mutant: the new settings do not replace the old ones. *)
DeactivateNone(t) ==
  /\ task[t].pc = "deactivate"
  /\ Goto(t, "insert")
  /\ UNCHANGED <<now, env, rows, tokens, req, causes>>

(* updateMany({}, {isActive: false}) *)
Deactivate(t) ==
  /\ task[t].pc = "deactivate"
  /\ Len(rows) < MaxRows
  /\ Goto(t, "insert")
  /\ rows' = [i \in DOMAIN rows |-> [rows[i] EXCEPT !.active = FALSE]]
  /\ causes' = IF Saving # {t} THEN causes \cup {"overlap"} ELSE causes
  /\ UNCHANGED <<now, env, tokens, req>>

(* new connectionSettingsModel(...).save(), without a token. *)
Insert(t) ==
  /\ task[t].pc = "insert"
  /\ Len(rows) < MaxRows
  /\ Goto(t, IF task[t].token = 0 THEN "idle" ELSE "refind")
  /\ rows' = Append(rows, NewRow(task[t].key))
  /\ causes' = IF \E u \in Tasks : task[u].pc \notin {"idle", "deactivate", "insert"}
                 THEN causes \cup {"switched"} ELSE causes
  /\ UNCHANGED <<now, env, tokens, req>>

(* Mutant: the credentials of the environment come before the database. *)
FindRowEnvFirst(t) ==
  /\ task[t].pc = "find"
  /\ \E i \in DOMAIN rows \cup {0} :
       /\ Found(i)
       /\ task' = [task EXCEPT
            ![t].row = i,
            ![t].key = IF env THEN EnvKey ELSE @,
            ![t].pc  = IF env THEN "deactivate" ELSE IF i # 0 THEN "store"
                                                            ELSE "report"]
       /\ causes' = causes \cup Gap(i)
  /\ UNCHANGED <<now, env, rows, tokens, req>>

(* The document to store the token in; without one the credentials of the  *)
(* environment become one first, and without those nothing is stored.      *)
FindRow(t) ==
  /\ task[t].pc = "find"
  /\ \E i \in DOMAIN rows \cup {0} :
       /\ Found(i)
       /\ task' = [task EXCEPT
            ![t].row = i,
            ![t].key = IF i = 0 THEN EnvKey ELSE @,
            ![t].pc  = IF i # 0 THEN "store" ELSE IF env THEN "deactivate"
                                                        ELSE "report"]
       /\ causes' = causes \cup Gap(i)
  /\ UNCHANGED <<now, env, rows, tokens, req>>

FindAgain(t) ==
  /\ task[t].pc = "refind"
  /\ \E i \in DOMAIN rows \cup {0} :
       /\ Found(i)
       /\ task' = [task EXCEPT ![t].row = i,
                               ![t].pc  = IF i # 0 THEN "store" ELSE "report"]
  /\ UNCHANGED <<now, env, rows, tokens, req, causes>>

(* settings.save(): the token and its expiry, in the document read before. *)
StoreToken(t) ==
  /\ task[t].pc = "store"
  /\ rows' = [rows EXCEPT ![task[t].row].token     = task[t].token,
                          ![task[t].row].expiresAt = StoredExpiry(task[t].token)]
  /\ Goto(t, "report")
  /\ causes' = IF t # "refresh" /\ task["refresh"].token # 0
                 THEN causes \cup {"crossed"} ELSE causes
  /\ UNCHANGED <<now, env, tokens, req>>

(* The token endpoint issues a token for the key of the task; only a test  *)
(* looks at the active settings before it stores the token.                *)
FetchToken(t) ==
  /\ task[t].pc \in {"fetch", "login"}
  /\ Len(tokens) < MaxTokens
  /\ \E l \in Lifetimes :
       tokens' = Append(tokens, [key |-> task[t].key, issued |-> now,
                                 life |-> l, revoked |-> FALSE])
  /\ task' = [task EXCEPT ![t].token = Len(tokens) + 1,
                          ![t].pc    = IF t = "refresh" \/ task[t].pc = "login"
                                         THEN "find" ELSE "check"]
  /\ UNCHANGED <<now, env, rows, req, causes>>

SaveSteps(t) == \/ Deactivate(t) \/ Insert(t) \/ FindRow(t) \/ FindAgain(t)
                \/ StoreToken(t) \/ FetchToken(t)

-----------------------------------------------------------------------------
(* The refresh that all callers share *)

(* refreshAccessToken: join the refresh under way, or start one. *)
JoinRefresh ==
  task' = IF task["refresh"].pc # "idle" THEN task
          ELSE [task EXCEPT !["refresh"] = [IdleTask EXCEPT !.pc = "settings"]]

(* Mutant: the second try goes out with the token of the first. *)
SettledSameToken(r, token) ==
  CASE r.pc = "waiting" /\ token # 0 -> [r EXCEPT !.pc = "go", !.token = token]
    [] r.pc = "waiting" /\ token = 0 ->
         [r EXCEPT !.pc = "go", !.token = IF r.expiresAt > now THEN @ ELSE 0]
    [] r.pc = "refreshing" /\ token # 0 ->
         [r EXCEPT !.pc = "go", !.authRetried = TRUE, !.attempt = 0]
    [] r.pc = "refreshing" /\ token = 0 -> [r EXCEPT !.pc = "invalidate"]
    [] OTHER -> r

(* The promise settles: each caller goes on with the result, token 0 for   *)
(* a failure.  getValidAccessToken falls back on the token it read before  *)
(* if that one is not expired; a request that saw 401 tries again or fails.*)
Settled(r, token) ==
  CASE r.pc = "waiting" /\ token # 0 -> [r EXCEPT !.pc = "go", !.token = token]
    [] r.pc = "waiting" /\ token = 0 ->
         [r EXCEPT !.pc = "go", !.token = IF r.expiresAt > now THEN @ ELSE 0]
    [] r.pc = "refreshing" /\ token # 0 ->
         [r EXCEPT !.pc = "queued", !.authRetried = TRUE, !.attempt = 0]
    [] r.pc = "refreshing" /\ token = 0 -> [r EXCEPT !.pc = "invalidate"]
    [] OTHER -> r

SettleRefresh(token) ==
  /\ task' = [task EXCEPT !["refresh"] = IdleTask]
  /\ req'  = [r \in Requests |-> Settled(req[r], token)]

(* Mutant: the key of the environment comes first, as in the worker. *)
RefreshSettingsEnvFirst ==
  /\ task["refresh"].pc = "settings"
  /\ \E i \in DOMAIN rows \cup {0} :
       /\ Found(i)
       /\ IF i = 0 /\ ~env
            THEN /\ SettleRefresh(0)
                 /\ causes' = causes \cup {"noCredentials"} \cup Gap(i)
            ELSE /\ task' = [task EXCEPT
                       !["refresh"].pc  = "fetch",
                       !["refresh"].key = IF env THEN EnvKey ELSE rows[i].key]
                 /\ causes' = causes \cup Gap(i)
                 /\ UNCHANGED req
  /\ UNCHANGED <<now, env, rows, tokens>>

(* performTokenRefresh: the key of the active settings or of the           *)
(* environment; without either the refresh fails.                          *)
RefreshSettings ==
  /\ task["refresh"].pc = "settings"
  /\ \E i \in DOMAIN rows \cup {0} :
       /\ Found(i)
       /\ IF i = 0 /\ ~env
            THEN /\ SettleRefresh(0)
                 /\ causes' = causes \cup {"noCredentials"} \cup Gap(i)
            ELSE /\ task' = [task EXCEPT
                       !["refresh"].pc  = "fetch",
                       !["refresh"].key = IF i = 0 THEN EnvKey ELSE rows[i].key]
                 /\ causes' = causes \cup Gap(i)
                 /\ UNCHANGED req
  /\ UNCHANGED <<now, env, rows, tokens>>

RefreshDone ==
  /\ task["refresh"].pc = "report"
  /\ SettleRefresh(task["refresh"].token)
  /\ UNCHANGED <<now, env, rows, tokens, causes>>

(* The catch block: the token endpoint or the database fails. *)
RefreshFails ==
  /\ task["refresh"].pc \notin {"idle", "settings"}
  /\ SettleRefresh(0)
  /\ causes' = causes \cup {"refreshFailed"}
  /\ UNCHANGED <<now, env, rows, tokens>>

(* POST connection-settings/refresh-token *)
ManualRefresh ==
  /\ task["refresh"].pc = "idle"
  /\ JoinRefresh
  /\ UNCHANGED <<now, env, rows, tokens, req, causes>>

Refresh == \/ RefreshSettings \/ RefreshDone \/ RefreshFails
           \/ SaveSteps("refresh")

-----------------------------------------------------------------------------
(* The admins *)

SaveSettings(a, k) ==
  /\ task[a].pc = "idle"
  /\ Len(rows) < MaxRows
  /\ task' = [task EXCEPT ![a] = [IdleTask EXCEPT !.pc = "deactivate", !.key = k]]
  /\ UNCHANGED <<now, env, rows, tokens, req, causes>>

(* testConnection: the token of the tested key goes to the active settings.*)
TestConnection(a, k) ==
  /\ task[a].pc = "idle"
  /\ Len(tokens) < MaxTokens
  /\ task' = [task EXCEPT ![a] = [IdleTask EXCEPT !.pc = "fetch", !.key = k]]
  /\ causes' = IF ActiveRows # {} /\ \A i \in ActiveRows : rows[i].key = k
                 THEN causes ELSE causes \cup {"testedOther"}
  /\ UNCHANGED <<now, env, rows, tokens, req>>

CheckSettings(a) ==
  /\ task[a].pc = "check"
  /\ Goto(a, IF ActiveRows = {} /\ ~env THEN "report" ELSE "find")
  /\ UNCHANGED <<now, env, rows, tokens, req, causes>>

(* Every login of a user fetches a token too, with the key of the active   *)
(* settings or of the environment, and stores it; no caller shares it.     *)
Login(a) ==
  /\ task[a].pc = "idle"
  /\ Len(tokens) < MaxTokens
  /\ \E i \in DOMAIN rows \cup {0} :
       /\ Found(i)
       /\ i = 0 => env
       /\ task' = [task EXCEPT ![a] = [IdleTask EXCEPT
                     !.pc = "login", !.key = IF i = 0 THEN EnvKey ELSE rows[i].key]]
       /\ causes' = causes \cup Gap(i)
  /\ UNCHANGED <<now, env, rows, tokens, req>>

(* The answer, or an error at any await: nothing is rolled back. *)
AdminEnds(a) ==
  /\ task[a].pc # "idle"
  /\ task' = [task EXCEPT ![a] = IdleTask]
  /\ UNCHANGED <<now, env, rows, tokens, req, causes>>

Admin(a) == \/ \E k \in Keys : SaveSettings(a, k) \/ TestConnection(a, k)
            \/ Login(a) \/ CheckSettings(a) \/ AdminEnds(a) \/ SaveSteps(a)

-----------------------------------------------------------------------------
(* The requests: requestWithRetry and the interceptor of the ERP client *)

Begin(r) ==
  /\ req[r].pc = "idle"
  /\ req' = [req EXCEPT ![r].pc = "queued"]
  /\ UNCHANGED <<now, env, rows, tokens, task, causes>>

InLimiter == {r \in Requests : req[r].pc \in {"read", "waiting", "go"}}

(* limiter.schedule; getValidAccessToken reads the active settings. *)
TakeSlot(r) ==
  /\ req[r].pc = "queued"
  /\ Cardinality(InLimiter) < MaxConcurrent
  /\ \E i \in DOMAIN rows \cup {0} :
       /\ Found(i)
       /\ req' = [req EXCEPT
            ![r].pc = "read", ![r].row = i,
            ![r].token     = IF i = 0 THEN 0 ELSE rows[i].token,
            ![r].expiresAt = IF i = 0 THEN Undefined ELSE rows[i].expiresAt]
  /\ UNCHANGED <<now, env, rows, tokens, task, causes>>

(* The stored token if it lasts, or else the one of the shared refresh. *)
DecideToken(r) ==
  /\ req[r].pc = "read"
  /\ IF req[r].token # 0 /\ ~NeedsRefresh(req[r].expiresAt)
       THEN /\ req' = [req EXCEPT ![r].pc = "go"]
            /\ UNCHANGED task
       ELSE /\ req' = [req EXCEPT ![r].pc = "waiting"]
            /\ JoinRefresh
  /\ UNCHANGED <<now, env, rows, tokens, causes>>

Ends(r, end) == req' = [req EXCEPT ![r] = [NewRequest EXCEPT !.pc = end]]

Answered(r) ==
  /\ req[r].pc = "go"
  /\ Accepted(req[r].token)
  /\ Ends(r, "ok")
  /\ UNCHANGED <<now, env, rows, tokens, task, causes>>

(* 401: refresh and try again, once. *)
Unauthorized(r) ==
  /\ req[r].pc = "go"
  /\ ~Accepted(req[r].token)
  /\ IF req[r].authRetried
       THEN /\ req' = [req EXCEPT ![r].pc = "invalidate"]
            /\ UNCHANGED task
       ELSE /\ req' = [req EXCEPT ![r].pc = "refreshing"]
            /\ JoinRefresh
  /\ UNCHANGED <<now, env, rows, tokens, causes>>

(* Mutant: every attempt starts the count again. *)
BusyUncounted(r) ==
  /\ req[r].pc = "go"
  /\ req' = [req EXCEPT ![r].pc = "queued"]
  /\ UNCHANGED <<now, env, rows, tokens, task, causes>>

(* 429 or 5xx: again after a delay, MaxRetries attempts in all. *)
Busy(r) ==
  /\ req[r].pc = "go"
  /\ req[r].attempt + 1 < MaxRetries
  /\ req' = [req EXCEPT ![r].pc = "queued", ![r].attempt = @ + 1]
  /\ UNCHANGED <<now, env, rows, tokens, task, causes>>

(* The last 429 or 5xx, any other status, or no answer. *)
Fails(r) ==
  /\ req[r].pc = "go"
  /\ Ends(r, "failed")
  /\ UNCHANGED <<now, env, rows, tokens, task, causes>>

(* markConnectionInvalid: a copy of the settings that are active now.      *)
MarkInvalid(r) ==
  /\ req[r].pc = "invalidate"
  /\ \/ \E i \in ActiveRows :
           req' = [req EXCEPT ![r].pc = "marking", ![r].row = i,
                              ![r].token     = rows[i].token,
                              ![r].expiresAt = rows[i].expiresAt]
     \/ ActiveRows = {} /\ Ends(r, "authError")
  /\ UNCHANGED <<now, env, rows, tokens, task, causes>>

(* No token and Date(0): save() writes what differs from the copy.         *)
ClearToken(r) ==
  /\ req[r].pc = "marking"
  /\ rows' = [rows EXCEPT
       ![req[r].row].token     = IF req[r].token # 0 THEN 0 ELSE @,
       ![req[r].row].expiresAt = IF req[r].expiresAt # 0 THEN 0 ELSE @]
  /\ Ends(r, "authError")
  /\ UNCHANGED <<now, env, tokens, task, causes>>

RequestStep(r) ==
  \/ TakeSlot(r) \/ DecideToken(r) \/ Answered(r) \/ Unauthorized(r)
  \/ Busy(r) \/ Fails(r) \/ MarkInvalid(r) \/ ClearToken(r)

-----------------------------------------------------------------------------

Next ==
  \/ Tick
  \/ \E n \in DOMAIN tokens : Revoke(n)
  \/ Refresh \/ ManualRefresh
  \/ \E a \in Admins : Admin(a)
  \/ \E r \in Requests : Begin(r) \/ RequestStep(r)

Spec == Init /\ [][Next]_vars

(* Every call of the database and of the ERP comes back, if only with an   *)
(* error: their clients have timeouts.                                     *)
Fairness == WF_vars(Refresh) /\ \A r \in Requests : WF_vars(RequestStep(r))

FairSpec == Spec /\ Fairness

-----------------------------------------------------------------------------
(* Properties *)

(* The shape of the state. *)
TypeOK ==
  /\ now \in 0 .. MaxTime
  /\ env \in BOOLEAN
  /\ rows \in Seq(Row) /\ Len(rows) <= MaxRows
  /\ tokens \in Seq(Token) /\ Len(tokens) <= MaxTokens
  /\ task \in [Tasks -> Task]
  /\ req \in [Requests -> Request]
  /\ causes \subseteq Causes

(* The active settings are one document, unless two saves overlapped.      *)
OneActiveRow == Cardinality(ActiveRows) > 1 => "overlap" \in causes

(* The token in a settings document was issued for its integration key,    *)
(* unless the settings changed while a token was under way or an admin     *)
(* tested other credentials than the active ones.                          *)
TokenOfItsKey ==
  causes \cap {"switched", "testedOther", "gap", "overlap"} = {}
    => \A i \in DOMAIN rows :
         rows[i].token # 0 => tokens[rows[i].token].key = rows[i].key

(* The credentials of the environment never replace those of an admin,     *)
(* unless a save of settings was caught between its steps.                 *)
EnvNeverReplaces ==
  causes \cap {"gap", "overlap"} = {}
    => \A i \in DOMAIN rows : rows[i].key = EnvKey => i = 1

(* No request goes out with an expired token: the two margins cover the    *)
(* way of a token from the ERP to the database, unless it takes longer.    *)
NoExpiredToken ==
  "slow" \notin causes
    => \A r \in Requests :
         req[r].pc = "go" /\ req[r].token # 0 => now < Expires(req[r].token)

(* A caller sees an authentication error only after a failed refresh, or   *)
(* without credentials, or if the ERP withdrew more than one token: one    *)
(* withdrawn or expired token is replaced behind the caller's back, unless *)
(* saves overlapped, so that more than one document is active, or an admin *)
(* stored the token of a test while the refresh ended with another.        *)
AuthErrorNeedsCause ==
  (\E r \in Requests : req[r].pc \in {"invalidate", "marking", "authError"})
    => \/ causes \cap {"refreshFailed", "noCredentials", "slow",
                       "revokedEarly", "crossed", "overlap"} # {}
       \/ Cardinality(Revoked) > 1

Ended == {"idle", "ok", "failed", "authError"}

(* Every request ends, however often the ERP answers 401, and nobody waits *)
(* for ever for the shared refresh or for a slot of the limiter.           *)
EveryRequestEnds == \A r \in Requests : req[r].pc = "queued" ~> req[r].pc \in Ended

=============================================================================
