--------------------------- MODULE ConnectionProofs ---------------------------
(***************************************************************************)
(* Theorems about Connection, for any number of requests, admins, keys,    *)
(* tokens and ticks, and any lifetimes of more than one tick: the types;   *)
(* no request goes out with an expired token; one document of settings is  *)
(* active, with a token of its own key; the environment comes first; a     *)
(* caller sees an authentication error only for a cause; and no request    *)
(* and no refresh goes on forever.                                         *)
(***************************************************************************)
EXTENDS Connection, SequenceTheorems, FiniteSetTheorems, TLAPS

-----------------------------------------------------------------------------
(* Sequences as functions *)

(* A function on 1 .. n is a sequence of length n. *)
LEMMA FunIsSeq ==
  ASSUME NEW S, NEW n \in Nat, NEW f \in [1 .. n -> S]
  PROVE  f \in Seq(S) /\ Len(f) = n
  BY SeqDef

(* The documents and the tokens as functions on their numbers. *)
LEMMA SeqFacts ==
  ASSUME TypeOK
  PROVE  /\ Len(rows) \in Nat /\ DOMAIN rows = 1 .. Len(rows)
         /\ rows \in [1 .. Len(rows) -> Row]
         /\ Len(tokens) \in Nat /\ DOMAIN tokens = 1 .. Len(tokens)
         /\ tokens \in [1 .. Len(tokens) -> Token]
  BY LenProperties DEF TypeOK

(* The refresh is a task, and no admin is the refresh. *)
LEMMA TaskFacts == "refresh" \in Tasks /\ Admins \subseteq Tasks /\ "refresh" \notin Admins
  BY BoundsAssumption DEF Tasks

-----------------------------------------------------------------------------
(* References: the tokens and documents that the state names exist *)

(* The points of a task that has a token in hand. *)
Holding == {"check", "find", "refind", "store", "report"}

TaskRefs(k, tokenCount, rowCount) ==
  /\ k.token \in 0 .. tokenCount
  /\ k.pc \in Holding => k.token # 0
  /\ k.pc = "store" => k.row \in 1 .. rowCount

Refs ==
  /\ \A t \in Tasks : TaskRefs(task[t], Len(tokens), Len(rows))
  /\ \A i \in 1 .. Len(rows) : rows[i].token \in 0 .. Len(tokens)
  /\ \A r \in Requests : req[r].token \in 0 .. Len(tokens)

(* What the ERP issued stays on record, withdrawn or not. *)
Grown ==
  /\ tokens' \in Seq(Token)
  /\ Len(tokens) <= Len(tokens') /\ Len(tokens') <= MaxTokens
  /\ \A n \in 1 .. Len(tokens) : /\ tokens'[n].issued = tokens[n].issued
                                 /\ tokens'[n].life = tokens[n].life

(* The documents keep their numbers. *)
RowsKept == rows' \in Seq(Row) /\ Len(rows) <= Len(rows') /\ Len(rows') <= MaxRows

(* A task that is replaced by a sound one. *)
LEMMA TaskStep ==
  ASSUME TypeOK, Refs, Grown, RowsKept, NEW t \in Tasks, NEW k \in Task,
         task' = [task EXCEPT ![t] = k],
         TaskRefs(k, Len(tokens'), Len(rows'))
  PROVE  task' \in [Tasks -> Task] /\ \A u \in Tasks : TaskRefs(task'[u], Len(tokens'), Len(rows'))
<1>1. task' \in [Tasks -> Task]
  BY DEF TypeOK
<1>2. \A u \in Tasks : task'[u] = IF u = t THEN k ELSE task[u]
  BY DEF TypeOK
<1>3. Len(tokens) \in Nat /\ Len(tokens') \in Nat /\ Len(rows) \in Nat /\ Len(rows') \in Nat
  BY LenProperties DEF TypeOK, Grown, RowsKept
<1>4. \A u \in Tasks \ {t} : TaskRefs(task'[u], Len(tokens'), Len(rows'))
  BY <1>2, <1>3 DEF Refs, TaskRefs, Grown, RowsKept
<1> QED
  BY <1>1, <1>2, <1>4 DEF TaskRefs

(* What a step that leaves tokens and documents alone keeps. *)
LEMMA NothingGrew ==
  ASSUME TypeOK
  PROVE  /\ UNCHANGED tokens => Grown
         /\ UNCHANGED rows => RowsKept
  BY LenProperties DEF TypeOK, Grown, RowsKept

(* What is on record stays valid for the documents and the requests. *)
LEMMA RefsKept ==
  ASSUME TypeOK, Refs, Grown
  PROVE  /\ UNCHANGED rows => \A i \in 1 .. Len(rows) : rows'[i].token \in 0 .. Len(tokens')
         /\ UNCHANGED req => \A r \in Requests : req'[r].token \in 0 .. Len(tokens')
<1>1. Len(tokens) \in Nat /\ Len(tokens') \in Nat
  BY LenProperties DEF TypeOK, Grown
<1> QED
  BY <1>1 DEF Refs, Grown

(* saveSettings and saveAccessToken keep types and references. *)
LEMMA SaveStep ==
  ASSUME TypeOK, Refs, NEW t \in Tasks, SaveSteps(t)
  PROVE  TypeOK' /\ Refs'
<1>s. /\ Len(rows) \in Nat /\ DOMAIN rows = 1 .. Len(rows)
      /\ rows \in [1 .. Len(rows) -> Row]
      /\ Len(tokens) \in Nat /\ DOMAIN tokens = 1 .. Len(tokens)
      /\ tokens \in [1 .. Len(tokens) -> Token]
  BY SeqFacts
<1> USE <1>s
<1>k. task[t] \in Task /\ TaskRefs(task[t], Len(tokens), Len(rows))
  BY DEF TypeOK, Refs
<1>1. CASE Deactivate(t)
  <2> DEFINE k == [task[t] EXCEPT !.pc = "insert"]
  <2>1. rows' \in [1 .. Len(rows) -> Row] /\ \A i \in 1 .. Len(rows) : rows'[i].token = rows[i].token
    BY <1>1 DEF Deactivate, Row
  <2>2. RowsKept /\ Len(rows') = Len(rows)
    <3>1. rows' \in Seq(Row) /\ Len(rows') = Len(rows)
      BY <2>1, FunIsSeq
    <3> QED
      BY <3>1 DEF RowsKept, TypeOK
  <2>3. Grown
    BY <1>1, NothingGrew DEF Deactivate
  <2>4. k \in Task /\ TaskRefs(k, Len(tokens'), Len(rows')) /\ task' = [task EXCEPT ![t] = k]
    <3>1. k \in Task
      BY <1>k DEF Task, TaskPoints
    <3>2. TaskRefs(k, Len(tokens'), Len(rows'))
      BY <1>k, <1>1 DEF TaskRefs, Task, Holding, Deactivate
    <3>3. task' = [task EXCEPT ![t] = k]
      BY <1>1 DEF Deactivate, Goto, TypeOK
    <3> QED
      BY <3>1, <3>2, <3>3
  <2>5. causes' \subseteq Causes
    BY <1>1 DEF Deactivate, TypeOK, Causes
  <2>6. \A u \in Tasks : TaskRefs(task'[u], Len(tokens'), Len(rows'))
    BY <2>2, <2>3, <2>4, TaskStep
  <2>7. task' \in [Tasks -> Task]
    BY <2>2, <2>3, <2>4, TaskStep
  <2> QED
    BY <1>1, <2>1, <2>2, <2>5, <2>6, <2>7 DEF Deactivate, TypeOK, Refs, RowsKept
<1>2. CASE Insert(t)
  <2> DEFINE k == [task[t] EXCEPT !.pc = IF task[t].token = 0 THEN "idle" ELSE "refind"]
             d == NewRow(task[t].key)
  <2>1. d \in Row /\ d.token = 0
    BY <1>k DEF Task, NewRow, Row, Expiry, Undefined
  <2>2. /\ RowsKept /\ Len(rows') = Len(rows) + 1
        /\ \A i \in 1 .. Len(rows) : rows'[i] = rows[i]
        /\ rows'[Len(rows) + 1].token = 0
    <3>1. rows \in Seq(Row) /\ rows' = Append(rows, d) /\ Len(rows) < MaxRows
      BY <1>2 DEF Insert, TypeOK
    <3>2. /\ rows' \in Seq(Row) /\ Len(rows') = Len(rows) + 1
          /\ \A i \in 1 .. Len(rows) : rows'[i] = rows[i]
          /\ rows'[Len(rows) + 1] = d
      BY <2>1, <3>1, AppendProperties
    <3> QED
      BY <2>1, <3>1, <3>2, BoundsAssumption DEF RowsKept
  <2>3. Grown
    BY <1>2, NothingGrew DEF Insert
  <2>4. k \in Task /\ TaskRefs(k, Len(tokens'), Len(rows')) /\ task' = [task EXCEPT ![t] = k]
    <3>1. k \in Task
      BY <1>k DEF Task, TaskPoints
    <3>2. TaskRefs(k, Len(tokens'), Len(rows'))
      BY <1>k, <1>2 DEF TaskRefs, Task, Holding, Insert
    <3>3. task' = [task EXCEPT ![t] = k]
      BY <1>2 DEF Insert, Goto, TypeOK
    <3> QED
      BY <3>1, <3>2, <3>3
  <2>5. causes' \subseteq Causes
    BY <1>2 DEF Insert, TypeOK, Causes
  <2>6. \A u \in Tasks : TaskRefs(task'[u], Len(tokens'), Len(rows'))
    BY <2>2, <2>3, <2>4, TaskStep
  <2>7. task' \in [Tasks -> Task]
    BY <2>2, <2>3, <2>4, TaskStep
  <2>8. \A i \in 1 .. Len(rows') : rows'[i].token \in 0 .. Len(tokens')
    BY <1>2, <2>2 DEF Insert, Refs
  <2> QED
    BY <1>2, <2>2, <2>5, <2>6, <2>7, <2>8 DEF Insert, TypeOK, Refs, RowsKept
<1>3. CASE FindRow(t)
  <2>1. PICK i \in DOMAIN rows \cup {0} :
          task' = [task EXCEPT
            ![t].row = i,
            ![t].key = IF i = 0 THEN EnvKey ELSE @,
            ![t].pc  = IF i # 0 THEN "store" ELSE IF env THEN "deactivate" ELSE "report"]
    BY <1>3 DEF FindRow
  <2> DEFINE k == [task[t] EXCEPT
            !.row = i,
            !.key = IF i = 0 THEN EnvKey ELSE @,
            !.pc  = IF i # 0 THEN "store" ELSE IF env THEN "deactivate" ELSE "report"]
  <2>3. Grown /\ RowsKept
    BY <1>3, NothingGrew DEF FindRow
  <2>4. k \in Task /\ TaskRefs(k, Len(tokens'), Len(rows')) /\ task' = [task EXCEPT ![t] = k]
    <3>1. k \in Task
      <4>1. i \in Nat
        BY <2>1
      <4>2. k.pc \in TaskPoints
        BY <1>k DEF Task, TaskPoints
      <4>3. k.key \in AnyKey
        BY <1>k DEF Task, AnyKey
      <4> QED
        BY <1>k, <4>1, <4>2, <4>3 DEF Task
    <3>2. TaskRefs(k, Len(tokens'), Len(rows'))
      BY <1>k, <1>3 DEF TaskRefs, Task, Holding, FindRow
    <3>3. task' = [task EXCEPT ![t] = k]
      BY <2>1 DEF TypeOK
    <3> QED
      BY <3>1, <3>2, <3>3
  <2>5. causes' \subseteq Causes
    BY <1>3 DEF FindRow, TypeOK, Causes, Gap
  <2>6. \A u \in Tasks : TaskRefs(task'[u], Len(tokens'), Len(rows'))
    BY <2>3, <2>4, TaskStep
  <2>7. task' \in [Tasks -> Task]
    BY <2>3, <2>4, TaskStep
  <2> QED
    BY <1>3, <2>5, <2>6, <2>7 DEF FindRow, TypeOK, Refs
<1>4. CASE FindAgain(t)
  <2>1. PICK i \in DOMAIN rows \cup {0} :
          task' = [task EXCEPT ![t].row = i,
                               ![t].pc  = IF i # 0 THEN "store" ELSE "report"]
    BY <1>4 DEF FindAgain
  <2> DEFINE k == [task[t] EXCEPT !.row = i,
                                  !.pc  = IF i # 0 THEN "store" ELSE "report"]
  <2>2. Grown /\ RowsKept
    BY <1>4, NothingGrew DEF FindAgain
  <2>3. k \in Task /\ TaskRefs(k, Len(tokens'), Len(rows')) /\ task' = [task EXCEPT ![t] = k]
    <3>1. k \in Task
      <4>1. i \in Nat
        BY <2>1
      <4>2. (IF i # 0 THEN "store" ELSE "report") \in TaskPoints
        BY DEF TaskPoints
      <4> QED
        BY <1>k, <4>1, <4>2 DEF Task
    <3>2. TaskRefs(k, Len(tokens'), Len(rows'))
      BY <1>k, <1>4 DEF TaskRefs, Task, Holding, FindAgain
    <3>3. task' = [task EXCEPT ![t] = k]
      BY <2>1 DEF TypeOK
    <3> QED
      BY <3>1, <3>2, <3>3
  <2>4. /\ task' \in [Tasks -> Task]
        /\ \A u \in Tasks : TaskRefs(task'[u], Len(tokens'), Len(rows'))
    BY <2>2, <2>3, TaskStep
  <2> QED
    BY <1>4, <2>4 DEF FindAgain, TypeOK, Refs
<1>5. CASE StoreToken(t)
  <2> DEFINE k == [task[t] EXCEPT !.pc = "report"]
             n == task[t].token
             d == [rows[task[t].row] EXCEPT !.token = n, !.expiresAt = StoredExpiry(n)]
  <2>1. n \in 1 .. Len(tokens) /\ task[t].row \in 1 .. Len(rows)
    BY <1>k, <1>5 DEF StoreToken, TaskRefs, Holding, Task
  <2>2. d \in Row
    <3>1. tokens[n].life \in Nat /\ tokens[n].life > 1 /\ now \in Nat
      <4>1. tokens[n] \in Token
        BY <2>1
      <4> QED
        <5>1. tokens[n].life \in Lifetimes
          BY <4>1 DEF Token
        <5>2. now \in Nat
          BY BoundsAssumption DEF TypeOK
        <5> QED
          BY <5>1, <5>2, LifetimesAssumption
    <3>2. StoredExpiry(n) \in Expiry
      <4>1. now + tokens[n].life - 1 \in Nat
        BY <3>1
      <4> QED
        BY <4>1 DEF StoredExpiry, Margin, Expiry
    <3> QED
      <4>1. n \in Nat /\ rows[task[t].row] \in Row
        BY <2>1
      <4> QED
        BY <3>2, <4>1 DEF Row
  <2>3. /\ rows' = [rows EXCEPT ![task[t].row] = d]
        /\ rows' \in [1 .. Len(rows) -> Row]
    BY <1>5, <2>1, <2>2 DEF StoreToken
  <2>4. RowsKept /\ Len(rows') = Len(rows)
    <3>1. rows' \in Seq(Row) /\ Len(rows') = Len(rows)
      BY <2>3, FunIsSeq
    <3> QED
      BY <3>1 DEF RowsKept, TypeOK
  <2>5. Grown
    BY <1>5, NothingGrew DEF StoreToken
  <2>6. k \in Task /\ TaskRefs(k, Len(tokens'), Len(rows')) /\ task' = [task EXCEPT ![t] = k]
    <3>1. k \in Task
      BY <1>k DEF Task, TaskPoints
    <3>2. TaskRefs(k, Len(tokens'), Len(rows'))
      BY <1>k, <1>5 DEF TaskRefs, Task, Holding, StoreToken
    <3>3. task' = [task EXCEPT ![t] = k]
      BY <1>5 DEF StoreToken, Goto, TypeOK
    <3> QED
      BY <3>1, <3>2, <3>3
  <2>7. /\ task' \in [Tasks -> Task]
        /\ \A u \in Tasks : TaskRefs(task'[u], Len(tokens'), Len(rows'))
    BY <2>4, <2>5, <2>6, TaskStep
  <2>8. \A i \in 1 .. Len(rows') : rows'[i].token \in 0 .. Len(tokens)
    BY <2>1, <2>2, <2>3, <2>4 DEF Refs
  <2>9. causes' \subseteq Causes /\ UNCHANGED <<now, env, tokens, req>>
    BY <1>5 DEF StoreToken, TypeOK, Causes
  <2> QED
    BY <2>4, <2>7, <2>8, <2>9 DEF TypeOK, Refs, RowsKept
<1>6. CASE FetchToken(t)
  <2>1. PICK l \in Lifetimes :
          tokens' = Append(tokens, [key |-> task[t].key, issued |-> now,
                                    life |-> l, revoked |-> FALSE])
    BY <1>6 DEF FetchToken
  <2> DEFINE k == [task[t] EXCEPT !.token = Len(tokens) + 1,
                                  !.pc = IF t = "refresh" \/ task[t].pc = "login"
                                           THEN "find" ELSE "check"]
             n == [key |-> task[t].key, issued |-> now, life |-> l, revoked |-> FALSE]
  <2>2. n \in Token
    BY <1>k, BoundsAssumption DEF Token, Task, TypeOK
  <2>3. Grown /\ Len(tokens') = Len(tokens) + 1
    <3>1. tokens \in Seq(Token) /\ tokens' = Append(tokens, n) /\ Len(tokens) < MaxTokens
      BY <1>6, <2>1 DEF FetchToken, TypeOK
    <3>2. /\ tokens' \in Seq(Token) /\ Len(tokens') = Len(tokens) + 1
          /\ \A i \in 1 .. Len(tokens) : tokens'[i] = tokens[i]
      BY <2>2, <3>1, AppendProperties
    <3> QED
      BY <3>1, <3>2, BoundsAssumption DEF Grown
  <2>4. RowsKept
    BY <1>6, NothingGrew DEF FetchToken
  <2>5. k \in Task /\ TaskRefs(k, Len(tokens'), Len(rows')) /\ task' = [task EXCEPT ![t] = k]
    <3>1. k \in Task
      <4>1. (IF t = "refresh" \/ task[t].pc = "login" THEN "find" ELSE "check") \in TaskPoints
        BY DEF TaskPoints
      <4>2. Len(tokens) + 1 \in Nat
        OBVIOUS
      <4> QED
        BY <1>k, <4>1, <4>2 DEF Task
    <3>2. TaskRefs(k, Len(tokens'), Len(rows'))
      BY <1>k, <2>3 DEF TaskRefs, Task, Holding
    <3>3. task' = [task EXCEPT ![t] = k]
      BY <1>6 DEF FetchToken, TypeOK
    <3> QED
      BY <3>1, <3>2, <3>3
  <2>6. /\ task' \in [Tasks -> Task]
        /\ \A u \in Tasks : TaskRefs(task'[u], Len(tokens'), Len(rows'))
    BY <2>3, <2>4, <2>5, TaskStep
  <2>7. UNCHANGED <<now, env, rows, req, causes>>
    BY <1>6 DEF FetchToken
  <2>8. /\ \A i \in 1 .. Len(rows) : rows'[i].token \in 0 .. Len(tokens')
        /\ \A r \in Requests : req'[r].token \in 0 .. Len(tokens')
    BY <2>3, <2>7, RefsKept
  <2> QED
    BY <2>3, <2>6, <2>7, <2>8 DEF TypeOK, Refs, Grown
<1> QED
  BY <1>1, <1>2, <1>3, <1>4, <1>5, <1>6 DEF SaveSteps

-----------------------------------------------------------------------------
(* The shared refresh *)

(* A request that gets the result of the refresh stays well formed. *)
LEMMA SettledType ==
  ASSUME TypeOK, Refs, NEW r \in Requests, NEW token \in 0 .. Len(tokens)
  PROVE  /\ Settled(req[r], token) \in Request
         /\ Settled(req[r], token).token \in 0 .. Len(tokens)
<1>1. req[r] \in Request /\ req[r].token \in 0 .. Len(tokens) /\ token \in Nat
  BY SeqFacts DEF TypeOK, Refs
<1>2. {"go", "queued", "invalidate"} \subseteq RequestPoints
  BY DEF RequestPoints
<1>3. CASE req[r].pc = "waiting" /\ token # 0
  <2>1. Settled(req[r], token) = [req[r] EXCEPT !.pc = "go", !.token = token]
    BY <1>3 DEF Settled
  <2> QED
    BY <1>1, <1>2, <2>1 DEF Request
<1>4. CASE req[r].pc = "waiting" /\ token = 0
  <2> DEFINE old == IF req[r].expiresAt > now THEN req[r].token ELSE 0
  <2>1. Settled(req[r], token) = [req[r] EXCEPT !.pc = "go", !.token = old]
    BY <1>1, <1>4 DEF Settled, Request
  <2>2. old \in 0 .. Len(tokens) /\ old \in Nat
    BY <1>1, SeqFacts
  <2> HIDE DEF old
  <2> QED
    BY <1>1, <1>2, <2>1, <2>2 DEF Request
<1>5. CASE req[r].pc = "refreshing" /\ token # 0
  <2>1. Settled(req[r], token)
          = [req[r] EXCEPT !.pc = "queued", !.authRetried = TRUE, !.attempt = 0]
    BY <1>5 DEF Settled
  <2>2. [req[r] EXCEPT !.authRetried = TRUE] \in Request
    BY <1>1 DEF Request
  <2>3. [[[req[r] EXCEPT !.authRetried = TRUE] EXCEPT !.attempt = 0] EXCEPT !.pc = "queued"]
          \in Request
    BY <1>2, <2>2 DEF Request
  <2>4. Settled(req[r], token)
          = [[[req[r] EXCEPT !.authRetried = TRUE] EXCEPT !.attempt = 0] EXCEPT !.pc = "queued"]
    BY <1>1, <2>1 DEF Request
  <2>5. Settled(req[r], token).token = req[r].token
    BY <1>1, <2>1 DEF Request
  <2> QED
    BY <1>1, <2>3, <2>4, <2>5
<1>6. CASE req[r].pc = "refreshing" /\ token = 0
  <2>1. Settled(req[r], token) = [req[r] EXCEPT !.pc = "invalidate"]
    BY <1>6 DEF Settled
  <2> QED
    BY <1>1, <1>2, <2>1 DEF Request
<1>7. CASE req[r].pc \notin {"waiting", "refreshing"}
  <2>1. Settled(req[r], token) = req[r]
    BY <1>7 DEF Settled
  <2> QED
    BY <1>1, <2>1
<1> QED
  BY <1>3, <1>4, <1>5, <1>6, <1>7

(* An idle task is sound. *)
LEMMA IdleTaskFacts ==
  ASSUME TypeOK, NEW point \in {"idle", "settings"}
  PROVE  /\ [IdleTask EXCEPT !.pc = point] \in Task
         /\ TaskRefs([IdleTask EXCEPT !.pc = point], Len(tokens), Len(rows))
         /\ IdleTask = [IdleTask EXCEPT !.pc = "idle"]
  BY SeqFacts DEF IdleTask, Task, TaskPoints, AnyKey, TaskRefs, Holding

(* Settling and joining the refresh keep types and references. *)
LEMMA SettleStep ==
  ASSUME TypeOK, Refs, NEW token \in 0 .. Len(tokens), SettleRefresh(token),
         UNCHANGED <<now, env, rows, tokens>>, causes' \subseteq Causes
  PROVE  TypeOK' /\ Refs'
<1>1. Grown /\ RowsKept
  BY NothingGrew
<1>2. /\ task' \in [Tasks -> Task]
      /\ \A u \in Tasks : TaskRefs(task'[u], Len(tokens'), Len(rows'))
  BY <1>1, TaskStep, TaskFacts, IdleTaskFacts DEF SettleRefresh
<1>3. req' \in [Requests -> Request]
  BY SettledType DEF SettleRefresh
<1>4. \A r \in Requests : req'[r].token \in 0 .. Len(tokens)
  BY SettledType DEF SettleRefresh
<1> QED
  BY <1>2, <1>3, <1>4 DEF TypeOK, Refs

(* Joining the shared refresh keeps types and references.                  *)
LEMMA JoinStep ==
  ASSUME TypeOK, Refs, JoinRefresh, UNCHANGED <<rows, tokens>>
  PROVE  /\ task' \in [Tasks -> Task]
         /\ \A u \in Tasks : TaskRefs(task'[u], Len(tokens'), Len(rows'))
<1>1. Grown /\ RowsKept
  BY NothingGrew
<1>2. CASE task["refresh"].pc # "idle"
  BY <1>2 DEF JoinRefresh, TypeOK, Refs
<1>3. CASE task["refresh"].pc = "idle"
  <2> DEFINE k == [IdleTask EXCEPT !.pc = "settings"]
  <2>1. k \in Task /\ TaskRefs(k, Len(tokens'), Len(rows'))
    BY IdleTaskFacts
  <2>2. task' = [task EXCEPT !["refresh"] = k]
    BY <1>3 DEF JoinRefresh
  <2> HIDE DEF k
  <2> QED
    BY <1>1, <2>1, <2>2, TaskStep, TaskFacts
<1> QED
  BY <1>2, <1>3

(* Every step of the refresh keeps types and references. *)
LEMMA RefreshStep ==
  ASSUME TypeOK, Refs, Refresh \/ ManualRefresh
  PROVE  TypeOK' /\ Refs'
<1>k. task["refresh"] \in Task /\ TaskRefs(task["refresh"], Len(tokens), Len(rows))
  BY TaskFacts DEF TypeOK, Refs
<1>1. CASE RefreshSettings
  <2>1. PICK i \in DOMAIN rows \cup {0} :
          IF i = 0 /\ ~env
            THEN /\ SettleRefresh(0)
                 /\ causes' = causes \cup {"noCredentials"} \cup Gap(i)
            ELSE /\ task' = [task EXCEPT
                       !["refresh"].pc  = "fetch",
                       !["refresh"].key = IF i = 0 THEN EnvKey ELSE rows[i].key]
                 /\ causes' = causes \cup Gap(i)
                 /\ UNCHANGED req
    BY <1>1 DEF RefreshSettings
  <2>2. UNCHANGED <<now, env, rows, tokens>>
    BY <1>1 DEF RefreshSettings
  <2>3. causes' \subseteq Causes
    BY <2>1 DEF Gap, Causes, TypeOK
  <2>4. CASE i = 0 /\ ~env
    BY <2>1, <2>2, <2>3, <2>4, SettleStep, SeqFacts
  <2>5. CASE ~(i = 0 /\ ~env)
    <3> DEFINE key == IF i = 0 THEN EnvKey ELSE rows[i].key
               k == [task["refresh"] EXCEPT !.pc = "fetch", !.key = key]
    <3>1. key \in AnyKey
      BY <2>1, SeqFacts DEF AnyKey, Row
    <3> HIDE DEF key
    <3>2. k \in Task
      BY <1>k, <3>1 DEF Task, TaskPoints
    <3>3. TaskRefs(k, Len(tokens'), Len(rows'))
      BY <1>k, <2>2 DEF TaskRefs, Task, Holding
    <3>4. task' = [task EXCEPT !["refresh"] = k]
      BY <2>1, <2>5 DEF key
    <3>5. Grown /\ RowsKept
      BY <2>2, NothingGrew
    <3> HIDE DEF k
    <3>6. /\ task' \in [Tasks -> Task]
          /\ \A u \in Tasks : TaskRefs(task'[u], Len(tokens'), Len(rows'))
      BY <3>2, <3>3, <3>4, <3>5, TaskStep, TaskFacts
    <3>7. UNCHANGED req
      BY <2>1, <2>5
    <3> QED
      BY <2>2, <2>3, <3>6, <3>7 DEF TypeOK, Refs
  <2> QED
    BY <2>4, <2>5
<1>2. CASE RefreshDone
  BY <1>k, <1>2, SettleStep DEF RefreshDone, TaskRefs, TypeOK
<1>3. CASE RefreshFails
  <2>1. causes' \subseteq Causes
    BY <1>3 DEF RefreshFails, TypeOK, Causes
  <2> QED
    BY <1>3, <2>1, SettleStep, SeqFacts DEF RefreshFails
<1>4. CASE ManualRefresh
  <2>1. JoinRefresh /\ UNCHANGED <<now, env, rows, tokens, req, causes>>
    BY <1>4 DEF ManualRefresh
  <2> QED
    BY <2>1, JoinStep DEF TypeOK, Refs
<1>5. CASE SaveSteps("refresh")
  BY <1>5, SaveStep, TaskFacts
<1> QED
  BY <1>1, <1>2, <1>3, <1>4, <1>5 DEF Refresh

-----------------------------------------------------------------------------
(* The admins, the requests and the ERP *)

(* Every step of an admin keeps types and references. *)
LEMMA AdminStep ==
  ASSUME TypeOK, Refs, NEW a \in Admins, Admin(a)
  PROVE  TypeOK' /\ Refs'
<1>a. a \in Tasks
  BY TaskFacts
<1>k. task[a] \in Task /\ TaskRefs(task[a], Len(tokens), Len(rows))
  BY <1>a DEF TypeOK, Refs
(* A step that replaces the admin's task, and at most adds a cause. *)
<1>1. ASSUME NEW k \in Task, TaskRefs(k, Len(tokens), Len(rows)),
             task' = [task EXCEPT ![a] = k], causes' \subseteq Causes,
             UNCHANGED <<now, env, rows, tokens, req>>
      PROVE  TypeOK' /\ Refs'
  <2>1. Grown /\ RowsKept /\ TaskRefs(k, Len(tokens'), Len(rows'))
    BY <1>1, NothingGrew
  <2>2. /\ task' \in [Tasks -> Task]
        /\ \A u \in Tasks : TaskRefs(task'[u], Len(tokens'), Len(rows'))
    BY <1>1, <1>a, <2>1, TaskStep
  <2> QED
    BY <1>1, <2>2 DEF TypeOK, Refs
<1>2. ASSUME NEW k \in Keys, SaveSettings(a, k)
      PROVE  TypeOK' /\ Refs'
  <2> DEFINE n == [IdleTask EXCEPT !.pc = "deactivate", !.key = k]
  <2>1. n \in Task /\ TaskRefs(n, Len(tokens), Len(rows))
    <3>1. IdleTask \in Task /\ IdleTask.token = 0
      BY IdleTaskFacts DEF IdleTask
    <3>2. "deactivate" \in TaskPoints \ Holding
      BY DEF TaskPoints, Holding
    <3>3. k \in AnyKey
      BY DEF AnyKey
    <3>4. n \in Task /\ n.pc = "deactivate" /\ n.token = 0
      BY <3>1, <3>2, <3>3 DEF Task
    <3> HIDE DEF n
    <3> QED
      BY <3>2, <3>4, SeqFacts DEF TaskRefs
  <2>2. task' = [task EXCEPT ![a] = n] /\ UNCHANGED <<now, env, rows, tokens, req, causes>>
    BY <1>2 DEF SaveSettings
  <2> HIDE DEF n
  <2> QED
    BY <1>1, <2>1, <2>2 DEF TypeOK
<1>3. ASSUME NEW k \in Keys, TestConnection(a, k)
      PROVE  TypeOK' /\ Refs'
  <2> DEFINE n == [IdleTask EXCEPT !.pc = "fetch", !.key = k]
  <2>1. n \in Task /\ TaskRefs(n, Len(tokens), Len(rows))
    <3>1. IdleTask \in Task /\ IdleTask.token = 0
      BY IdleTaskFacts DEF IdleTask
    <3>2. "fetch" \in TaskPoints \ Holding
      BY DEF TaskPoints, Holding
    <3>3. k \in AnyKey
      BY DEF AnyKey
    <3>4. n \in Task /\ n.pc = "fetch" /\ n.token = 0
      BY <3>1, <3>2, <3>3 DEF Task
    <3> HIDE DEF n
    <3> QED
      BY <3>2, <3>4, SeqFacts DEF TaskRefs
  <2>2. task' = [task EXCEPT ![a] = n] /\ UNCHANGED <<now, env, rows, tokens, req>>
    BY <1>3 DEF TestConnection
  <2>3. causes' \subseteq Causes
    BY <1>3 DEF TestConnection, TypeOK, Causes
  <2> HIDE DEF n
  <2> QED
    BY <1>1, <2>1, <2>2, <2>3
<1>4. CASE CheckSettings(a)
  <2> DEFINE n == [task[a] EXCEPT !.pc = IF ActiveRows = {} /\ ~env THEN "report" ELSE "find"]
  <2>1. n \in Task
    <3>1. (IF ActiveRows = {} /\ ~env THEN "report" ELSE "find") \in TaskPoints
      BY DEF TaskPoints
    <3> QED
      BY <1>k, <3>1 DEF Task
  <2>2. TaskRefs(n, Len(tokens), Len(rows))
    <3>1. task[a].pc = "check" /\ n.token = task[a].token /\ n.pc # "store"
      BY <1>4, <1>k DEF CheckSettings, Task
    <3> QED
      BY <1>k, <3>1 DEF TaskRefs, Holding
  <2>3. task' = [task EXCEPT ![a] = n] /\ UNCHANGED <<now, env, rows, tokens, req, causes>>
    BY <1>4, <1>a DEF CheckSettings, Goto, TypeOK
  <2> HIDE DEF n
  <2> QED
    BY <1>1, <2>1, <2>2, <2>3 DEF TypeOK
<1>5. CASE AdminEnds(a)
  <2>1. task' = [task EXCEPT ![a] = IdleTask] /\ UNCHANGED <<now, env, rows, tokens, req, causes>>
    BY <1>5 DEF AdminEnds
  <2>2. IdleTask \in Task /\ TaskRefs(IdleTask, Len(tokens), Len(rows))
    BY IdleTaskFacts
  <2> QED
    BY <1>1, <2>1, <2>2 DEF TypeOK
<1>6. CASE SaveSteps(a)
  BY <1>a, <1>6, SaveStep
<1>7. CASE Login(a)
  <2>1. PICK i \in DOMAIN rows \cup {0} :
          /\ task' = [task EXCEPT ![a] = [IdleTask EXCEPT
                       !.pc = "login", !.key = IF i = 0 THEN EnvKey ELSE rows[i].key]]
          /\ causes' = causes \cup Gap(i)
    BY <1>7 DEF Login
  <2> DEFINE key == IF i = 0 THEN EnvKey ELSE rows[i].key
             n   == [IdleTask EXCEPT !.pc = "login", !.key = key]
  <2>2. n \in Task /\ TaskRefs(n, Len(tokens), Len(rows))
    <3>1. IdleTask \in Task /\ IdleTask.token = 0
      BY IdleTaskFacts DEF IdleTask
    <3>2. "login" \in TaskPoints \ Holding
      BY DEF TaskPoints, Holding
    <3>3. key \in AnyKey
      BY <2>1, SeqFacts DEF AnyKey, Row
    <3> HIDE DEF key
    <3>4. n \in Task /\ n.pc = "login" /\ n.token = 0
      BY <3>1, <3>2, <3>3 DEF Task
    <3> HIDE DEF n
    <3> QED
      BY <3>2, <3>4, SeqFacts DEF TaskRefs
  <2>3. task' = [task EXCEPT ![a] = n] /\ UNCHANGED <<now, env, rows, tokens, req>>
    BY <1>7, <2>1 DEF Login
  <2>4. causes' \subseteq Causes
    BY <2>1 DEF Gap, TypeOK, Causes
  <2> HIDE DEF n
  <2> QED
    BY <1>1, <2>2, <2>3, <2>4
<1> QED
  BY <1>2, <1>3, <1>4, <1>5, <1>6, <1>7 DEF Admin

(* A new request is well formed. *)
LEMMA NewRequestFacts == NewRequest \in Request /\ NewRequest.token = 0
<1>1. "idle" \in RequestPoints /\ Undefined \in Expiry /\ 0 \in Nat
  BY DEF RequestPoints, Expiry
<1>2. FALSE \in BOOLEAN
  OBVIOUS
<1> QED
  BY <1>1, <1>2 DEF NewRequest, Request

(* Every step of a request keeps types and references. *)
LEMMA RequestKeeps ==
  ASSUME TypeOK, Refs, NEW r \in Requests, Begin(r) \/ RequestStep(r)
  PROVE  TypeOK' /\ Refs'
<1>q. req[r] \in Request /\ req[r].token \in 0 .. Len(tokens)
  BY DEF TypeOK, Refs
<1>s. /\ Len(rows) \in Nat /\ DOMAIN rows = 1 .. Len(rows)
      /\ rows \in [1 .. Len(rows) -> Row] /\ Len(tokens) \in Nat
  BY SeqFacts
<1>n. \A point \in {"ok", "failed", "authError"} :
        /\ [NewRequest EXCEPT !.pc = point] \in Request
        /\ [NewRequest EXCEPT !.pc = point].token \in 0 .. Len(tokens)
  <2>1. \A point \in {"ok", "failed", "authError"} : point \in RequestPoints
    BY DEF RequestPoints
  <2> QED
    BY <1>s, <2>1, NewRequestFacts DEF Request
<1>p. \A point \in RequestPoints :
        /\ [req[r] EXCEPT !.pc = point] \in Request
        /\ [req[r] EXCEPT !.pc = point].token = req[r].token
  BY <1>q DEF Request
(* A step that replaces the request. *)
<1>1. ASSUME NEW q \in Request, q.token \in 0 .. Len(tokens),
             req' = [req EXCEPT ![r] = q],
             UNCHANGED <<now, env, rows, tokens, causes>>,
             UNCHANGED task \/ JoinRefresh
      PROVE  TypeOK' /\ Refs'
  <2>1. req' \in [Requests -> Request] /\ \A p \in Requests : req'[p].token \in 0 .. Len(tokens)
    BY <1>1 DEF TypeOK, Refs
  <2>2. /\ task' \in [Tasks -> Task]
        /\ \A u \in Tasks : TaskRefs(task'[u], Len(tokens'), Len(rows'))
    BY <1>1, JoinStep DEF TypeOK, Refs
  <2> QED
    BY <1>1, <2>1, <2>2 DEF TypeOK, Refs
<1>2. CASE Begin(r) \/ DecideToken(r) \/ Unauthorized(r)
  <2>1. PICK point \in {"queued", "go", "waiting", "invalidate", "refreshing"} :
          req' = [req EXCEPT ![r].pc = point]
    BY <1>2 DEF Begin, DecideToken, Unauthorized
  <2>2. req' = [req EXCEPT ![r] = [req[r] EXCEPT !.pc = point]] /\ point \in RequestPoints
    BY <2>1 DEF RequestPoints
  <2>3. /\ UNCHANGED <<now, env, rows, tokens, causes>>
        /\ UNCHANGED task \/ JoinRefresh
    BY <1>2 DEF Begin, DecideToken, Unauthorized
  <2> QED
    BY <1>1, <1>p, <1>q, <2>2, <2>3
<1>3. CASE TakeSlot(r)
  <2>1. PICK i \in DOMAIN rows \cup {0} :
          req' = [req EXCEPT
            ![r].pc = "read", ![r].row = i,
            ![r].token     = IF i = 0 THEN 0 ELSE rows[i].token,
            ![r].expiresAt = IF i = 0 THEN Undefined ELSE rows[i].expiresAt]
    BY <1>3 DEF TakeSlot
  <2> DEFINE token   == IF i = 0 THEN 0 ELSE rows[i].token
             expires == IF i = 0 THEN Undefined ELSE rows[i].expiresAt
             q == [req[r] EXCEPT !.pc = "read", !.row = i, !.token = token,
                                 !.expiresAt = expires]
  <2>2. token \in 0 .. Len(tokens) /\ i \in Nat
    BY <1>s, <2>1 DEF Refs
  <2>3. expires \in Expiry
    BY <1>s, <2>1 DEF Row, Expiry
  <2>4. req' = [req EXCEPT ![r] = q]
    BY <2>1
  <2>5. UNCHANGED <<now, env, rows, tokens, causes, task>>
    BY <1>3 DEF TakeSlot
  <2> HIDE DEF token, expires
  <2>6. q \in Request /\ q.token = token
    <3>1. "read" \in RequestPoints /\ token \in Nat
      BY <1>s, <2>2 DEF RequestPoints
    <3> QED
      BY <1>q, <2>2, <2>3, <3>1 DEF Request
  <2> HIDE DEF q
  <2> QED
    BY <1>1, <2>2, <2>4, <2>5, <2>6
<1>4. CASE Answered(r) \/ Fails(r) \/ (MarkInvalid(r) /\ Ends(r, "authError"))
  <2>1. PICK point \in {"ok", "failed", "authError"} :
          req' = [req EXCEPT ![r] = [NewRequest EXCEPT !.pc = point]]
    BY <1>4 DEF Answered, Fails, Ends
  <2>2. UNCHANGED <<now, env, rows, tokens, causes, task>>
    BY <1>4 DEF Answered, Fails, MarkInvalid
  <2> QED
    BY <1>1, <1>n, <2>1, <2>2
<1>5. CASE Busy(r)
  <2> DEFINE q == [req[r] EXCEPT !.pc = "queued", !.attempt = req[r].attempt + 1]
  <2>1. q \in Request /\ q.token = req[r].token
    <3>1. "queued" \in RequestPoints
      BY DEF RequestPoints
    <3>2. req[r].attempt + 1 \in Nat
      BY <1>q DEF Request
    <3> QED
      BY <1>q, <3>1, <3>2 DEF Request
  <2>2. req' = [req EXCEPT ![r] = q] /\ UNCHANGED <<now, env, rows, tokens, causes, task>>
    BY <1>5 DEF Busy
  <2> HIDE DEF q
  <2> QED
    BY <1>1, <1>q, <2>1, <2>2
<1>6. ASSUME NEW i \in ActiveRows, MarkInvalid(r),
             req' = [req EXCEPT ![r].pc = "marking", ![r].row = i,
                                ![r].token     = rows[i].token,
                                ![r].expiresAt = rows[i].expiresAt]
      PROVE  TypeOK' /\ Refs'
  <2> DEFINE q == [req[r] EXCEPT !.pc = "marking", !.row = i,
                                 !.token = rows[i].token,
                                 !.expiresAt = rows[i].expiresAt]
  <2>1. i \in 1 .. Len(rows) /\ rows[i] \in Row /\ rows[i].token \in 0 .. Len(tokens)
    BY <1>s DEF ActiveRows, Refs
  <2>2. q \in Request /\ q.token = rows[i].token
    <3>1. "marking" \in RequestPoints /\ i \in Nat
      BY <1>s, <2>1 DEF RequestPoints
    <3>2. rows[i].token \in Nat /\ rows[i].expiresAt \in Expiry
      BY <2>1 DEF Row
    <3> QED
      BY <1>q, <3>1, <3>2 DEF Request
  <2>3. req' = [req EXCEPT ![r] = q] /\ UNCHANGED <<now, env, rows, tokens, causes, task>>
    <3>1. req' = [req EXCEPT ![r] = q]
      BY <1>6
    <3>2. UNCHANGED <<now, env, rows, tokens, causes, task>>
      BY <1>6 DEF MarkInvalid
    <3> QED
      BY <3>1, <3>2
  <2> HIDE DEF q
  <2> QED
    BY <1>1, <2>1, <2>2, <2>3
<1>7. CASE ClearToken(r)
  <2>1. /\ rows' \in [1 .. Len(rows) -> Row]
        /\ \A i \in 1 .. Len(rows) : rows'[i].token \in {0, rows[i].token}
    <3>1. \A d \in Row : \A token \in {0, d.token}, expires \in {0, d.expiresAt} :
            [d EXCEPT !.token = token, !.expiresAt = expires] \in Row
      <4>1. \A d \in Row : \A token \in {0, d.token}, expires \in {0, d.expiresAt} :
              token \in Nat /\ expires \in Expiry
        BY DEF Row, Expiry
      <4> QED
        BY <4>1 DEF Row
    <3>2. rows' = [i \in 1 .. Len(rows) |->
                     IF i = req[r].row
                       THEN [rows[i] EXCEPT
                               !.token     = IF req[r].token # 0 THEN 0 ELSE @,
                               !.expiresAt = IF req[r].expiresAt # 0 THEN 0 ELSE @]
                       ELSE rows[i]]
      BY <1>7, <1>s DEF ClearToken
    <3> QED
      BY <1>s, <3>1, <3>2 DEF Row
  <2>2. rows' \in Seq(Row) /\ Len(rows') = Len(rows)
    BY <1>s, <2>1, FunIsSeq
  <2>3. RowsKept /\ Grown
    BY <1>7, <1>s, <2>2, NothingGrew DEF ClearToken, RowsKept, TypeOK
  <2>4. /\ req' \in [Requests -> Request]
        /\ \A p \in Requests : req'[p].token \in 0 .. Len(tokens)
    BY <1>7, <1>n DEF ClearToken, Ends, TypeOK, Refs
  <2>5. UNCHANGED <<now, env, tokens, task, causes>>
    BY <1>7 DEF ClearToken
  <2> QED
    BY <1>s, <2>1, <2>2, <2>3, <2>4, <2>5 DEF TypeOK, Refs, RowsKept
<1> QED
  BY <1>2, <1>3, <1>4, <1>5, <1>6, <1>7 DEF RequestStep, MarkInvalid

(* The clock and the withdrawal of a token keep types and references. *)
LEMMA WorldStep ==
  ASSUME TypeOK, Refs, Tick \/ \E n \in DOMAIN tokens : Revoke(n)
  PROVE  TypeOK' /\ Refs'
<1>1. CASE Tick
  <2>1. now' \in 0 .. MaxTime
    BY <1>1, BoundsAssumption DEF Tick, TypeOK
  <2>2. causes' \subseteq Causes
    BY <1>1 DEF Tick, TypeOK, Causes
  <2> QED
    BY <1>1, <2>1, <2>2 DEF Tick, TypeOK, Refs
<1>2. ASSUME NEW n \in DOMAIN tokens, Revoke(n)
      PROVE  TypeOK' /\ Refs'
  <2>1. tokens' \in [1 .. Len(tokens) -> Token]
    <3>1. tokens \in [1 .. Len(tokens) -> Token] /\ n \in 1 .. Len(tokens)
      BY SeqFacts
    <3>2. tokens' = [tokens EXCEPT ![n] = [tokens[n] EXCEPT !.revoked = TRUE]]
      BY <1>2 DEF Revoke
    <3>3. [tokens[n] EXCEPT !.revoked = TRUE] \in Token
      BY <3>1 DEF Token
    <3> QED
      BY <3>1, <3>2, <3>3
  <2>2. tokens' \in Seq(Token) /\ Len(tokens') = Len(tokens)
    BY <2>1, SeqFacts, FunIsSeq
  <2>3. causes' \subseteq Causes
    BY <1>2 DEF Revoke, TypeOK, Causes
  <2> QED
    BY <1>2, <2>2, <2>3 DEF Revoke, TypeOK, Refs
<1> QED
  BY <1>1, <1>2

(* Types and references hold at the start and are kept by every step. *)
LEMMA InitRefs == Init => TypeOK /\ Refs
<1> SUFFICES ASSUME Init
             PROVE  TypeOK /\ Refs
  OBVIOUS
<1>1. rows \in Seq(Row) /\ Len(rows) \in 0 .. 1 /\ \A i \in 1 .. Len(rows) : rows[i].token = 0
  <2>1. \A k \in Keys : NewRow(k) \in Row /\ NewRow(k).token = 0
    <3>1. Undefined \in Expiry /\ Keys \subseteq AnyKey
      BY DEF Expiry, AnyKey
    <3> QED
      BY <3>1 DEF NewRow, Row
  <2> QED
    <3>1. CASE rows = <<>>
      BY <3>1, EmptySeq
    <3>2. ASSUME NEW k \in Keys, rows = <<NewRow(k)>>
          PROVE  rows \in Seq(Row) /\ Len(rows) = 1 /\ rows[1] = NewRow(k)
      BY <2>1, <3>2
    <3> QED
      BY <2>1, <3>1, <3>2 DEF Init
<1>2. MaxRows >= 1 /\ MaxTokens >= 0 /\ 0 \in 0 .. MaxTime
  BY BoundsAssumption
<1>3. tokens \in Seq(Token) /\ Len(tokens) = 0
  BY EmptySeq DEF Init
<1>4. IdleTask \in Task /\ TaskRefs(IdleTask, Len(tokens), Len(rows))
  BY <1>1, <1>3 DEF IdleTask, Task, TaskPoints, AnyKey, TaskRefs, Holding
<1>5. NewRequest \in Request /\ NewRequest.token = 0
  BY NewRequestFacts
<1>6. TypeOK
  <2>1. now \in 0 .. MaxTime /\ env \in BOOLEAN /\ causes \subseteq Causes
    BY <1>2 DEF Init
  <2>2. task \in [Tasks -> Task] /\ req \in [Requests -> Request]
    BY <1>4, <1>5 DEF Init
  <2>3. Len(rows) <= MaxRows /\ Len(tokens) <= MaxTokens
    BY <1>1, <1>3, BoundsAssumption
  <2> QED
    BY <1>1, <1>3, <2>1, <2>2, <2>3 DEF TypeOK
<1>7. Refs
  BY <1>1, <1>3, <1>4, <1>5 DEF Init, Refs
<1> QED
  BY <1>6, <1>7

(* Every step keeps types and references.                                  *)
LEMMA NextRefs == TypeOK /\ Refs /\ [Next]_vars => TypeOK' /\ Refs'
<1> SUFFICES ASSUME TypeOK, Refs, [Next]_vars
             PROVE  TypeOK' /\ Refs'
  OBVIOUS
<1>1. CASE UNCHANGED vars
  BY <1>1 DEF vars, TypeOK, Refs
<1>2. CASE Next
  BY <1>2, WorldStep, RefreshStep, AdminStep, RequestKeeps DEF Next
<1> QED
  BY <1>1, <1>2

(* Every document, token, task and request has its shape, and what they    *)
(* name exists: no refresh, admin or request ever refers to a token that   *)
(* was not issued or stores into a document that is not there.             *)
THEOREM WellFormed == Spec => [](TypeOK /\ Refs)
  BY InitRefs, NextRefs, PTL DEF Spec

(* connection-settings.service.ts, snelstart.client.ts: the shape of the   *)
(* settings, the tokens, the tasks and the requests.                       *)
THEOREM TypeCorrect == Spec => []TypeOK
  BY WellFormed, PTL

-----------------------------------------------------------------------------
(* No expired token *)

(* A token in hand is at most one tick old; a stored expiry is not after   *)
(* the real one; a request that goes out has a token that lasts.           *)
HandFresh(token, time, issued) == token # 0 => time <= issued[token].issued + Margin

Lasts(issued, n) == issued[n].issued + issued[n].life

StoredFresh(token, expiresAt, issued) == token # 0 => expiresAt <= Lasts(issued, token)

RequestFresh(q, time, issued) ==
  /\ q.pc \in {"read", "waiting"} => StoredFresh(q.token, q.expiresAt, issued)
  /\ q.pc = "go" /\ q.token # 0 => time < Lasts(issued, q.token)

Fresh ==
  /\ \A t \in Tasks : HandFresh(task[t].token, now, tokens)
  /\ \A i \in 1 .. Len(rows) : StoredFresh(rows[i].token, rows[i].expiresAt, tokens)
  /\ \A r \in Requests : RequestFresh(req[r], now, tokens)

(* The history of causes only grows. *)
LEMMA CausesGrow ==
  ASSUME Next
  PROVE  causes \subseteq causes'
<1>1. ASSUME NEW t \in Tasks, SaveSteps(t)
      PROVE  causes \subseteq causes'
  BY <1>1 DEF SaveSteps, Deactivate, Insert, FindRow, FindAgain, StoreToken, FetchToken
<1>2. CASE Refresh \/ ManualRefresh
  BY <1>1, <1>2, TaskFacts DEF Refresh, ManualRefresh, RefreshSettings, RefreshDone, RefreshFails
<1>3. ASSUME NEW a \in Admins, Admin(a)
      PROVE  causes \subseteq causes'
  BY <1>1, <1>3, TaskFacts DEF Admin, SaveSettings, TestConnection, Login, CheckSettings, AdminEnds
<1>4. ASSUME NEW r \in Requests, Begin(r) \/ RequestStep(r)
      PROVE  causes \subseteq causes'
  BY <1>4 DEF RequestStep, Begin, TakeSlot, DecideToken, Answered, Unauthorized, Busy,
     Fails, MarkInvalid, ClearToken
<1>5. CASE Tick \/ \E n \in DOMAIN tokens : Revoke(n)
  BY <1>5 DEF Tick, Revoke
<1> QED
  BY <1>2, <1>3, <1>4, <1>5 DEF Next

(* Issued tokens keep their time and their life. *)
LEMMA TokensGrow ==
  ASSUME TypeOK, Next
  PROVE  Grown
<1>1. CASE UNCHANGED tokens
  BY <1>1, NothingGrew
<1>2. ASSUME NEW t \in Tasks, FetchToken(t)
      PROVE  Grown
  <2>1. PICK l \in Lifetimes :
          tokens' = Append(tokens, [key |-> task[t].key, issued |-> now,
                                    life |-> l, revoked |-> FALSE])
    BY <1>2 DEF FetchToken
  <2> DEFINE n == [key |-> task[t].key, issued |-> now, life |-> l, revoked |-> FALSE]
  <2>2. n \in Token
    BY BoundsAssumption DEF Token, Task, TypeOK
  <2>3. tokens \in Seq(Token) /\ tokens' = Append(tokens, n) /\ Len(tokens) < MaxTokens
    BY <1>2, <2>1 DEF FetchToken, TypeOK
  <2>4. /\ tokens' \in Seq(Token) /\ Len(tokens') = Len(tokens) + 1
        /\ \A i \in 1 .. Len(tokens) : tokens'[i] = tokens[i]
    BY <2>2, <2>3, AppendProperties
  <2> QED
    BY <2>3, <2>4, SeqFacts, BoundsAssumption DEF Grown
<1>3. ASSUME NEW n \in DOMAIN tokens, Revoke(n)
      PROVE  Grown
  <2>1. /\ tokens' \in [1 .. Len(tokens) -> Token]
        /\ \A i \in 1 .. Len(tokens) : /\ tokens'[i].issued = tokens[i].issued
                                       /\ tokens'[i].life = tokens[i].life
    BY <1>3, SeqFacts DEF Revoke, Token
  <2>2. tokens' \in Seq(Token) /\ Len(tokens') = Len(tokens)
    BY <2>1, SeqFacts, FunIsSeq
  <2> QED
    BY <2>1, <2>2, SeqFacts DEF Grown, TypeOK
<1>4. ASSUME NEW t \in Tasks, SaveSteps(t)
      PROVE  UNCHANGED tokens \/ FetchToken(t)
  BY <1>4 DEF SaveSteps, Deactivate, Insert, FindRow, FindAgain, StoreToken
<1>5. CASE Refresh \/ ManualRefresh
  BY <1>1, <1>2, <1>4, <1>5, TaskFacts
  DEF Refresh, ManualRefresh, RefreshSettings, RefreshDone, RefreshFails
<1>6. ASSUME NEW a \in Admins, Admin(a)
      PROVE  Grown
  BY <1>1, <1>2, <1>4, <1>6, TaskFacts
  DEF Admin, SaveSettings, TestConnection, Login, CheckSettings, AdminEnds
<1>7. ASSUME NEW r \in Requests, Begin(r) \/ RequestStep(r)
      PROVE  UNCHANGED tokens
  BY <1>7 DEF RequestStep, Begin, TakeSlot, DecideToken, Answered, Unauthorized, Busy,
     Fails, MarkInvalid, ClearToken
<1>8. CASE Tick
  BY <1>1, <1>8 DEF Tick
<1> QED
  BY <1>1, <1>3, <1>5, <1>6, <1>7, <1>8 DEF Next

(* How a step may change the tokens in hand. *)
LEMMA TaskMoves ==
  ASSUME TypeOK, Next
  PROVE  \/ Tick
         \/ UNCHANGED now /\ \E t \in Tasks : FetchToken(t)
         \/ UNCHANGED now /\ \A t \in Tasks : task'[t].token \in {0, task[t].token}
<1> DEFINE Kept == UNCHANGED now /\ \A t \in Tasks : task'[t].token \in {0, task[t].token}
<1>0. task \in [Tasks -> Task]
  BY DEF TypeOK
<1>a. ASSUME NEW t \in Tasks, NEW k \in Task, k.token \in {0, task[t].token},
             task' = [task EXCEPT ![t] = k], UNCHANGED now
      PROVE  Kept
  BY <1>0, <1>a
<1>b. IdleTask \in Task /\ IdleTask.token = 0
  BY IdleTaskFacts DEF IdleTask
<1>1. ASSUME NEW t \in Tasks, SaveSteps(t)
      PROVE  Kept \/ (UNCHANGED now /\ FetchToken(t))
  <2>1. CASE Deactivate(t) \/ Insert(t) \/ StoreToken(t)
    <3>1. UNCHANGED now /\ \E point : task' = [task EXCEPT ![t].pc = point]
      BY <2>1 DEF Deactivate, Insert, StoreToken, Goto
    <3>2. \A u \in Tasks : task'[u].token = task[u].token
      BY <1>0, <3>1 DEF Task
    <3> QED
      BY <3>1, <3>2
  <2>2. CASE FindRow(t) \/ FindAgain(t)
    <3>1. PICK i, key, point :
            task' = [task EXCEPT ![t].row = i, ![t].key = key, ![t].pc = point]
      <4>1. CASE FindRow(t)
        <5>1. PICK i \in DOMAIN rows \cup {0} :
                task' = [task EXCEPT
                  ![t].row = i,
                  ![t].key = IF i = 0 THEN EnvKey ELSE @,
                  ![t].pc  = IF i # 0 THEN "store" ELSE IF env THEN "deactivate" ELSE "report"]
          BY <4>1 DEF FindRow
        <5>2. task' = [task EXCEPT
                  ![t].row = i,
                  ![t].key = IF i = 0 THEN EnvKey ELSE task[t].key,
                  ![t].pc  = IF i # 0 THEN "store" ELSE IF env THEN "deactivate" ELSE "report"]
          BY <1>0, <5>1 DEF Task
        <5> QED
          BY <5>2
      <4>2. CASE FindAgain(t)
        <5>1. PICK i \in DOMAIN rows \cup {0} :
                task' = [task EXCEPT ![t].row = i,
                                     ![t].pc  = IF i # 0 THEN "store" ELSE "report"]
          BY <4>2 DEF FindAgain
        <5>2. task' = [task EXCEPT ![t].row = i, ![t].key = task[t].key,
                                   ![t].pc  = IF i # 0 THEN "store" ELSE "report"]
          BY <1>0, <5>1 DEF Task
        <5> QED
          BY <5>2
      <4> QED
        BY <2>2, <4>1, <4>2
    <3>2. task'[t].token = task[t].token /\ \A u \in Tasks \ {t} : task'[u] = task[u]
      BY <1>0, <3>1 DEF Task
    <3>3. UNCHANGED now
      BY <2>2 DEF FindRow, FindAgain
    <3> QED
      BY <3>2, <3>3
  <2>3. CASE FetchToken(t)
    BY <2>3 DEF FetchToken
  <2> QED
    BY <1>1, <2>1, <2>2, <2>3 DEF SaveSteps
<1>2. ASSUME JoinRefresh, UNCHANGED now
      PROVE  Kept
  BY <1>0, <1>2 DEF JoinRefresh, Task, IdleTask
<1>3. ASSUME NEW token, SettleRefresh(token), UNCHANGED now
      PROVE  Kept
  BY <1>0, <1>3 DEF SettleRefresh, TypeOK, Task, IdleTask
<1>4. ASSUME UNCHANGED <<now, task>>
      PROVE  Kept
  BY <1>4
<1>5. CASE Refresh \/ ManualRefresh
  <2>1. CASE RefreshSettings
    <3>1. UNCHANGED now
      BY <2>1 DEF RefreshSettings
    <3>2. CASE SettleRefresh(0)
      BY <1>3, <3>1, <3>2
    <3>3. CASE \E key : task' = [task EXCEPT !["refresh"].pc = "fetch", !["refresh"].key = key]
      <4>1. \A t \in Tasks : task'[t].token = task[t].token
        BY <1>0, <3>3 DEF Task
      <4> QED
        BY <3>1, <4>1
    <3> QED
      BY <2>1, <3>2, <3>3 DEF RefreshSettings
  <2>2. CASE RefreshDone \/ RefreshFails
    BY <1>3, <2>2 DEF RefreshDone, RefreshFails
  <2>3. CASE ManualRefresh
    BY <1>2, <2>3 DEF ManualRefresh
  <2> QED
    BY <1>1, <1>5, <2>1, <2>2, <2>3, TaskFacts DEF Refresh
<1>6. ASSUME NEW a \in Admins, Admin(a)
      PROVE  Kept \/ (UNCHANGED now /\ FetchToken(a))
  <2> USE TaskFacts
  <2>1. ASSUME NEW k \in Keys, SaveSettings(a, k) \/ TestConnection(a, k)
        PROVE  Kept
    <3>1. UNCHANGED now /\ \E point : task' = [task EXCEPT ![a] = [IdleTask EXCEPT !.pc = point, !.key = k]]
      BY <2>1 DEF SaveSettings, TestConnection
    <3>2. \A t \in Tasks : task'[t].token \in {0, task[t].token}
      BY <1>0, <1>b, <3>1 DEF Task
    <3> QED
      BY <3>1, <3>2
  <2>2. CASE CheckSettings(a) \/ AdminEnds(a)
    <3>1. CASE CheckSettings(a)
      <4>1. UNCHANGED now /\ \E point : task' = [task EXCEPT ![a].pc = point]
        BY <3>1 DEF CheckSettings, Goto
      <4> QED
        BY <1>0, <4>1 DEF Task
    <3>2. CASE AdminEnds(a)
      BY <1>a, <1>b, <3>2 DEF AdminEnds
    <3> QED
      BY <2>2, <3>1, <3>2
  <2>3. CASE Login(a)
    <3>1. UNCHANGED now /\ \E key : task' = [task EXCEPT ![a] = [IdleTask EXCEPT !.pc = "login", !.key = key]]
      BY <2>3 DEF Login
    <3>2. \A t \in Tasks : task'[t].token \in {0, task[t].token}
      BY <1>0, <1>b, <3>1 DEF Task
    <3> QED
      BY <3>1, <3>2
  <2> QED
    BY <1>1, <1>6, <2>1, <2>2, <2>3 DEF Admin
<1>7. ASSUME NEW r \in Requests, Begin(r) \/ RequestStep(r)
      PROVE  Kept
  <2>1. UNCHANGED now /\ (UNCHANGED task \/ JoinRefresh)
    BY <1>7 DEF RequestStep, Begin, TakeSlot, DecideToken, Answered, Unauthorized, Busy,
       Fails, MarkInvalid, ClearToken
  <2> QED
    BY <1>2, <1>4, <2>1
<1>8. ASSUME NEW n \in DOMAIN tokens, Revoke(n)
      PROVE  Kept
  BY <1>4, <1>8 DEF Revoke
<1> QED
  BY <1>5, <1>6, <1>7, <1>8, TaskFacts, <1>1 DEF Next, Refresh

(* How a step may change the stored tokens. *)
LEMMA RowMoves ==
  ASSUME TypeOK, Refs, Next
  PROVE  \/ \E t \in Tasks : StoreToken(t)
         \/ \A i \in 1 .. Len(rows') :
              \/ rows'[i].token = 0
              \/ /\ i \in 1 .. Len(rows)
                 /\ rows'[i].token = rows[i].token
                 /\ rows'[i].expiresAt \in {0, rows[i].expiresAt}
<1> DEFINE Kept == \A i \in 1 .. Len(rows') :
                     \/ rows'[i].token = 0
                     \/ /\ i \in 1 .. Len(rows)
                        /\ rows'[i].token = rows[i].token
                        /\ rows'[i].expiresAt \in {0, rows[i].expiresAt}
<1>0. /\ Len(rows) \in Nat /\ DOMAIN rows = 1 .. Len(rows)
      /\ rows \in [1 .. Len(rows) -> Row]
  BY SeqFacts
<1>1. CASE UNCHANGED rows
  BY <1>1
<1>2. ASSUME NEW t \in Tasks, SaveSteps(t)
      PROVE  Kept \/ StoreToken(t)
  <2>1. CASE Deactivate(t)
    <3>1. rows' \in [1 .. Len(rows) -> Row]
          /\ \A i \in 1 .. Len(rows) : /\ rows'[i].token = rows[i].token
                                       /\ rows'[i].expiresAt = rows[i].expiresAt
      BY <1>0, <2>1 DEF Deactivate, Row
    <3>2. Len(rows') = Len(rows)
      BY <1>0, <3>1, FunIsSeq
    <3> QED
      BY <3>1, <3>2
  <2>2. CASE Insert(t)
    <3> DEFINE d == NewRow(task[t].key)
    <3>1. d \in Row /\ d.token = 0
      <4>1. task[t].key \in AnyKey /\ Undefined \in Expiry
        BY DEF TypeOK, Task, Expiry
      <4> QED
        BY <4>1 DEF NewRow, Row
    <3>2. rows \in Seq(Row) /\ rows' = Append(rows, d)
      BY <2>2 DEF Insert, TypeOK
    <3> HIDE DEF d
    <3>3. /\ Len(rows') = Len(rows) + 1
          /\ \A i \in 1 .. Len(rows) : rows'[i] = rows[i]
          /\ rows'[Len(rows) + 1] = d
      BY <3>1, <3>2, AppendProperties
    <3> QED
      BY <1>0, <3>1, <3>3
  <2>3. CASE FindRow(t) \/ FindAgain(t) \/ FetchToken(t)
    BY <1>1, <2>3 DEF FindRow, FindAgain, FetchToken
  <2> QED
    BY <1>2, <2>1, <2>2, <2>3 DEF SaveSteps
<1>3. CASE Refresh \/ ManualRefresh
  BY <1>1, <1>2, <1>3, TaskFacts
  DEF Refresh, ManualRefresh, RefreshSettings, RefreshDone, RefreshFails
<1>4. ASSUME NEW a \in Admins, Admin(a)
      PROVE  Kept \/ StoreToken(a)
  BY <1>1, <1>2, <1>4, TaskFacts
  DEF Admin, SaveSettings, TestConnection, Login, CheckSettings, AdminEnds
<1>5. ASSUME NEW r \in Requests, Begin(r) \/ RequestStep(r)
      PROVE  Kept
  <2>1. CASE ClearToken(r)
    <3>1. rows' = [i \in 1 .. Len(rows) |->
                     IF i = req[r].row
                       THEN [rows[i] EXCEPT
                               !.token     = IF req[r].token # 0 THEN 0 ELSE @,
                               !.expiresAt = IF req[r].expiresAt # 0 THEN 0 ELSE @]
                       ELSE rows[i]]
      BY <1>0, <2>1 DEF ClearToken
    <3>2. Len(rows') = Len(rows)
      <4>1. rows' \in [1 .. Len(rows) -> {rows'[i] : i \in 1 .. Len(rows)}]
        BY <3>1
      <4> QED
        BY <1>0, <4>1, FunIsSeq
    <3> QED
      BY <1>0, <3>1, <3>2 DEF Row
  <2>2. CASE ~ClearToken(r)
    BY <1>1, <1>5, <2>2
    DEF RequestStep, Begin, TakeSlot, DecideToken, Answered, Unauthorized, Busy,
        Fails, MarkInvalid
  <2> QED
    BY <2>1, <2>2
<1>6. CASE Tick \/ \E n \in DOMAIN tokens : Revoke(n)
  BY <1>1, <1>6 DEF Tick, Revoke
<1> QED
  BY <1>3, <1>4, <1>5, <1>6, TaskFacts DEF Next

(* How a step may change a request. *)
LEMMA RequestMoves ==
  ASSUME TypeOK, Next, NEW r \in Requests
  PROVE  \/ req'[r] = req[r] /\ (UNCHANGED now \/ req[r].pc # "go")
         \/ req'[r].pc \notin {"read", "waiting", "go"}
         \/ TakeSlot(r)
         \/ DecideToken(r)
         \/ SettleRefresh(0) /\ UNCHANGED now
         \/ RefreshDone
<1>1. CASE UNCHANGED <<now, req>>
  BY <1>1
<1>2. ASSUME NEW t \in Tasks, SaveSteps(t)
      PROVE  UNCHANGED <<now, req>>
  BY <1>2 DEF SaveSteps, Deactivate, Insert, FindRow, FindAgain, StoreToken, FetchToken
<1>3. CASE Refresh \/ ManualRefresh
  BY <1>1, <1>2, <1>3, TaskFacts DEF Refresh, ManualRefresh, RefreshSettings, RefreshFails
<1>4. ASSUME NEW a \in Admins, Admin(a)
      PROVE  UNCHANGED <<now, req>>
  BY <1>2, <1>4, TaskFacts DEF Admin, SaveSettings, TestConnection, Login, CheckSettings, AdminEnds
<1>5. CASE Tick \/ \E n \in DOMAIN tokens : Revoke(n)
  BY <1>5 DEF Tick, Revoke
<1>6. ASSUME NEW p \in Requests, Begin(p) \/ RequestStep(p)
      PROVE  \/ req'[r] = req[r] /\ UNCHANGED now
             \/ req'[r].pc \notin {"read", "waiting", "go"}
             \/ TakeSlot(r)
             \/ DecideToken(r)
  <2>0. req \in [Requests -> Request]
    BY DEF TypeOK
  <2>1. CASE p # r
    BY <1>6, <2>0, <2>1
    DEF RequestStep, Begin, TakeSlot, DecideToken, Answered, Unauthorized, Busy,
        Fails, MarkInvalid, ClearToken, Ends
  <2>2. CASE p = r /\ (Begin(r) \/ Unauthorized(r) \/ Busy(r))
    BY <2>0, <2>2 DEF Begin, Unauthorized, Busy, Request
  <2>3. CASE p = r /\ (Answered(r) \/ Fails(r) \/ MarkInvalid(r) \/ ClearToken(r))
    <3>1. ASSUME NEW point \in {"ok", "failed", "authError"}, Ends(r, point)
          PROVE  req'[r].pc = point
      BY <2>0, <3>1 DEF Ends, NewRequest
    <3>2. CASE MarkInvalid(r)
      <4>1. ASSUME NEW i \in ActiveRows,
                   req' = [req EXCEPT ![r].pc = "marking", ![r].row = i,
                                      ![r].token     = rows[i].token,
                                      ![r].expiresAt = rows[i].expiresAt]
            PROVE  req'[r].pc = "marking"
        BY <2>0, <4>1 DEF Request
      <4> QED
        BY <3>1, <3>2, <4>1 DEF MarkInvalid
    <3>3. CASE ~MarkInvalid(r)
      BY <2>3, <3>1, <3>3 DEF Answered, Fails, ClearToken
    <3> QED
      BY <3>2, <3>3
  <2> QED
    BY <1>6, <2>1, <2>2, <2>3 DEF RequestStep
<1> QED
  BY <1>1, <1>3, <1>4, <1>5, <1>6 DEF Next

(* A token of the record keeps its times, and they are numbers. *)
LEMMA TokenKept ==
  ASSUME TypeOK, Next, NEW n \in 1 .. Len(tokens)
  PROVE  /\ tokens'[n].issued = tokens[n].issued
         /\ Lasts(tokens', n) = Lasts(tokens, n) /\ Lasts(tokens, n) \in Nat
         /\ tokens[n].issued \in Nat /\ tokens[n].life \in Nat /\ tokens[n].life > 1
<1>1. tokens[n] \in Token
  BY SeqFacts
<1>2. tokens[n].issued \in Nat /\ tokens[n].life \in Nat /\ tokens[n].life > 1
  BY <1>1, LifetimesAssumption DEF Token
<1>3. tokens'[n].issued = tokens[n].issued /\ tokens'[n].life = tokens[n].life
  BY TokensGrow DEF Grown
<1> QED
  BY <1>2, <1>3 DEF Lasts

(* The clock is a number. *)
LEMMA ClockFacts == ASSUME TypeOK PROVE now \in Nat
  BY BoundsAssumption DEF TypeOK

(* A token is fresh when it is issued; the clock passes the margin of a    *)
(* token in hand only with the cause "slow".                               *)
LEMMA HandsStayFresh ==
  ASSUME TypeOK, Refs, Fresh, Next, "slow" \notin causes', NEW t \in Tasks
  PROVE  HandFresh(task'[t].token, now', tokens')
<1>1. task[t].token # 0 =>
        /\ task[t].token \in 1 .. Len(tokens)
        /\ now <= tokens[task[t].token].issued + Margin
  <2>1. task[t].token \in 0 .. Len(tokens) /\ Len(tokens) \in Nat
    BY SeqFacts DEF Refs, TaskRefs
  <2> QED
    BY <2>1 DEF Fresh, HandFresh
<1>2. CASE Tick
  <2>1. UNCHANGED <<task, tokens>> /\ now' = now + 1
    BY <1>2 DEF Tick
  <2>2. task[t].token # 0 => ~(now + 1 > tokens[task[t].token].issued + Margin)
    BY <1>2 DEF Tick
  <2> QED
    BY <1>1, <2>1, <2>2, ClockFacts, TokenKept DEF HandFresh, Margin
<1>3. ASSUME NEW u \in Tasks, FetchToken(u), UNCHANGED now
      PROVE  HandFresh(task'[t].token, now', tokens')
  <2>1. /\ task' = [task EXCEPT ![u].token = Len(tokens) + 1,
                                ![u].pc    = IF u = "refresh" \/ task[u].pc = "login"
                                               THEN "find" ELSE "check"]
        /\ \E l \in Lifetimes :
             tokens' = Append(tokens, [key |-> task[u].key, issued |-> now,
                                       life |-> l, revoked |-> FALSE])
    BY <1>3 DEF FetchToken
  <2>2. CASE t = u
    <3>1. task'[t].token = Len(tokens) + 1
      BY <2>1, <2>2 DEF TypeOK, Task
    <3>2. tokens'[Len(tokens) + 1].issued = now
      BY <2>1, AppendProperties, SeqFacts DEF TypeOK
    <3> QED
      BY <1>3, <3>1, <3>2, ClockFacts DEF HandFresh, Margin
  <2>3. CASE t # u
    <3>1. task'[t] = task[t]
      BY <2>1, <2>3 DEF TypeOK
    <3> QED
      BY <1>1, <1>3, <3>1, TokenKept DEF HandFresh
  <2> QED
    BY <2>2, <2>3
<1>4. ASSUME UNCHANGED now, task'[t].token \in {0, task[t].token}
      PROVE  HandFresh(task'[t].token, now', tokens')
  BY <1>1, <1>4, TokenKept DEF HandFresh
<1> QED
  BY <1>2, <1>3, <1>4, TaskMoves

(* A token within the margin is stored with an expiry that it lasts for.   *)
LEMMA RowsStayFresh ==
  ASSUME TypeOK, Refs, Fresh, Next, NEW i \in 1 .. Len(rows')
  PROVE  StoredFresh(rows'[i].token, rows'[i].expiresAt, tokens')
<1>0. /\ Len(rows) \in Nat /\ DOMAIN rows = 1 .. Len(rows)
      /\ rows \in [1 .. Len(rows) -> Row]
      /\ Len(tokens) \in Nat
  BY SeqFacts
<1>1. ASSUME i \in 1 .. Len(rows), rows'[i].token = rows[i].token,
             rows'[i].expiresAt \in {0, rows[i].expiresAt}
      PROVE  StoredFresh(rows'[i].token, rows'[i].expiresAt, tokens')
  <2>1. rows[i].token # 0 => /\ rows[i].token \in 1 .. Len(tokens)
                             /\ rows[i].expiresAt <= Lasts(tokens, rows[i].token)
    BY <1>0, <1>1 DEF Refs, Fresh, StoredFresh
  <2>2. rows[i].token # 0 => /\ Lasts(tokens, rows[i].token) \in Nat
                             /\ Lasts(tokens', rows[i].token) = Lasts(tokens, rows[i].token)
    BY <2>1, TokenKept
  <2> QED
    BY <1>1, <2>1, <2>2 DEF StoredFresh
<1>2. ASSUME NEW t \in Tasks, StoreToken(t)
      PROVE  StoredFresh(rows'[i].token, rows'[i].expiresAt, tokens')
  <2> DEFINE n == task[t].token
             d == [rows[task[t].row] EXCEPT !.token = n, !.expiresAt = StoredExpiry(n)]
  <2>1. task[t] \in Task /\ TaskRefs(task[t], Len(tokens), Len(rows)) /\ HandFresh(n, now, tokens)
    BY DEF TypeOK, Refs, Fresh
  <2>2. n \in 1 .. Len(tokens) /\ task[t].row \in 1 .. Len(rows)
    BY <1>0, <1>2, <2>1 DEF StoreToken, TaskRefs, Holding, Task
  <2>3. rows' = [rows EXCEPT ![task[t].row] = d]
    BY <1>0, <1>2, <2>2 DEF StoreToken
  <2>4. rows' \in [1 .. Len(rows) -> {rows[j] : j \in 1 .. Len(rows)} \cup {d}]
    BY <1>0, <2>3
  <2>5. i \in 1 .. Len(rows)
    BY <1>0, <2>4, FunIsSeq
  <2>6. CASE i = task[t].row
    <3>1. rows'[i] = d
      BY <1>0, <2>3, <2>5, <2>6
    <3>2. d.token = n /\ d.expiresAt = StoredExpiry(n)
      BY <1>0, <2>2 DEF Row
    <3>3. StoredExpiry(n) <= Lasts(tokens', n)
      <4>1. n # 0 /\ now <= tokens[n].issued + 1
        BY <2>1, <2>2 DEF HandFresh, Margin
      <4>2. /\ Lasts(tokens', n) = tokens[n].issued + tokens[n].life
            /\ tokens[n].issued \in Nat /\ tokens[n].life \in Nat
        BY <2>2, TokenKept DEF Lasts
      <4>3. StoredExpiry(n) = now + tokens[n].life - 1
        BY DEF StoredExpiry, Margin
      <4> HIDE DEF n, d
      <4> QED
        BY <4>1, <4>2, <4>3, ClockFacts
    <3> QED
      BY <3>1, <3>2, <3>3 DEF StoredFresh
  <2>7. CASE i # task[t].row
    <3>1. rows'[i] = rows[i]
      BY <1>0, <2>3, <2>5, <2>7
    <3> QED
      BY <1>1, <2>5, <3>1
  <2> QED
    BY <2>6, <2>7
<1>3. CASE rows'[i].token = 0
  BY <1>3 DEF StoredFresh
<1> QED
  BY <1>1, <1>2, <1>3, RowMoves

(* Whoever waited gets the token of the refresh, or its own if that lasts. *)
LEMMA SettledFresh ==
  ASSUME TypeOK, NEW q \in Request, NEW token, NEW issued,
         RequestFresh(q, now, issued),
         q.token # 0 => Lasts(issued, q.token) \in Nat,
         token # 0 => now < Lasts(issued, token)
  PROVE  RequestFresh(Settled(q, token), now, issued)
<1>0. now \in Nat /\ q.expiresAt \in Expiry
  BY ClockFacts DEF Request
<1>1. CASE q.pc = "waiting" /\ token # 0
  <2>1. Settled(q, token) = [q EXCEPT !.pc = "go", !.token = token]
    BY <1>1 DEF Settled
  <2>2. Settled(q, token).pc = "go" /\ Settled(q, token).token = token
    BY <2>1 DEF Request
  <2> QED
    BY <2>2, <1>1 DEF RequestFresh
<1>2. CASE q.pc = "waiting" /\ token = 0
  <2> DEFINE own == IF q.expiresAt > now THEN q.token ELSE 0
  <2>1. Settled(q, token) = [q EXCEPT !.pc = "go", !.token = own]
    BY <1>2 DEF Settled, Request
  <2>2. Settled(q, token).pc = "go" /\ Settled(q, token).token = own
    BY <2>1 DEF Request
  <2>3. own # 0 => now < Lasts(issued, own)
    BY <1>0, <1>2 DEF RequestFresh, StoredFresh, Expiry, Undefined
  <2> QED
    BY <2>2, <2>3 DEF RequestFresh
<1>3. CASE q.pc = "refreshing"
  <2>1. Settled(q, token).pc \in {"queued", "invalidate"}
    BY <1>3 DEF Settled, Request
  <2> QED
    BY <2>1 DEF RequestFresh
<1>4. CASE q.pc \notin {"waiting", "refreshing"}
  BY <1>4 DEF Settled
<1> QED
  BY <1>1, <1>2, <1>3, <1>4

(* A request goes out with a stored token that lasts, with the one the     *)
(* refresh just got, or with its own before it expires.                    *)
LEMMA RequestsStayFresh ==
  ASSUME TypeOK, Refs, Fresh, Next, NEW r \in Requests
  PROVE  RequestFresh(req'[r], now', tokens')
<1>0. req \in [Requests -> Request] /\ req[r] \in Request /\ Len(tokens) \in Nat
  BY SeqFacts DEF TypeOK
<1>1. req[r].token # 0 => /\ req[r].token \in 1 .. Len(tokens)
                          /\ Lasts(tokens', req[r].token) = Lasts(tokens, req[r].token)
                          /\ Lasts(tokens', req[r].token) \in Nat
  <2>1. req[r].token # 0 => req[r].token \in 1 .. Len(tokens)
    BY <1>0 DEF Refs
  <2> QED
    BY <2>1, TokenKept
<1>2. RequestFresh(req[r], now, tokens')
  <2>1. RequestFresh(req[r], now, tokens)
    BY DEF Fresh
  <2> QED
    BY <1>1, <2>1 DEF RequestFresh, StoredFresh
<1>3. ASSUME req'[r] = req[r], UNCHANGED now \/ req[r].pc # "go"
      PROVE  RequestFresh(req'[r], now', tokens')
  BY <1>2, <1>3 DEF RequestFresh
<1>4. CASE req'[r].pc \notin {"read", "waiting", "go"}
  BY <1>4 DEF RequestFresh
<1>5. CASE TakeSlot(r)
  <2>1. PICK i \in DOMAIN rows \cup {0} :
          req' = [req EXCEPT
            ![r].pc = "read", ![r].row = i,
            ![r].token     = IF i = 0 THEN 0 ELSE rows[i].token,
            ![r].expiresAt = IF i = 0 THEN Undefined ELSE rows[i].expiresAt]
    BY <1>5 DEF TakeSlot
  <2>2. /\ req'[r].pc = "read"
        /\ req'[r].token = IF i = 0 THEN 0 ELSE rows[i].token
        /\ req'[r].expiresAt = IF i = 0 THEN Undefined ELSE rows[i].expiresAt
    BY <1>0, <2>1 DEF Request
  <2>3. UNCHANGED rows
    BY <1>5 DEF TakeSlot
  <2>4. CASE i = 0
    BY <2>2, <2>4 DEF RequestFresh, StoredFresh
  <2>5. CASE i # 0
    <3>1. i \in 1 .. Len(rows')
      BY <2>1, <2>3, <2>5, SeqFacts
    <3>2. StoredFresh(rows'[i].token, rows'[i].expiresAt, tokens')
      BY <3>1, RowsStayFresh
    <3> QED
      BY <2>2, <2>3, <2>5, <3>2 DEF RequestFresh
  <2> QED
    BY <2>4, <2>5
<1>6. CASE DecideToken(r)
  <2>1. req[r].pc = "read" /\ UNCHANGED now
    BY <1>6 DEF DecideToken
  <2>2. StoredFresh(req[r].token, req[r].expiresAt, tokens')
    BY <1>2, <2>1 DEF RequestFresh
  <2>3. ASSUME req' = [req EXCEPT ![r].pc = "go"],
               req[r].token # 0, ~NeedsRefresh(req[r].expiresAt)
        PROVE  RequestFresh(req'[r], now', tokens')
    <3>1. req'[r].pc = "go" /\ req'[r].token = req[r].token
      BY <1>0, <2>3 DEF Request
    <3>2. req[r].expiresAt \in Expiry
      BY <1>0 DEF Request
    <3>3. now < Lasts(tokens', req[r].token)
      BY <1>1, <2>2, <2>3, <3>2, ClockFacts DEF NeedsRefresh, StoredFresh, Margin, Expiry, Undefined
    <3> QED
      BY <2>1, <3>1, <3>3 DEF RequestFresh
  <2>4. ASSUME req' = [req EXCEPT ![r].pc = "waiting"]
        PROVE  RequestFresh(req'[r], now', tokens')
    <3>1. /\ req'[r].pc = "waiting" /\ req'[r].token = req[r].token
          /\ req'[r].expiresAt = req[r].expiresAt
      BY <1>0, <2>4 DEF Request
    <3> QED
      BY <2>2, <3>1 DEF RequestFresh
  <2> QED
    BY <1>6, <2>3, <2>4 DEF DecideToken
<1>7. CASE SettleRefresh(0) /\ UNCHANGED now
  <2>1. req'[r] = Settled(req[r], 0)
    BY <1>7 DEF SettleRefresh
  <2>2. RequestFresh(Settled(req[r], 0), now, tokens')
    BY <1>0, <1>1, <1>2, SettledFresh
  <2> QED
    BY <1>7, <2>1, <2>2
<1>8. CASE RefreshDone
  <2> DEFINE n == task["refresh"].token
  <2>1. req'[r] = Settled(req[r], n) /\ UNCHANGED now
    BY <1>8 DEF RefreshDone, SettleRefresh
  <2>2. n \in 1 .. Len(tokens) /\ now <= tokens[n].issued + 1
    <3>1. n \in 1 .. Len(tokens)
      <4>1. TaskRefs(task["refresh"], Len(tokens), Len(rows)) /\ task["refresh"].pc = "report"
        BY <1>8, TaskFacts DEF Refs, RefreshDone
      <4> QED
        BY <1>0, <4>1 DEF TaskRefs, Holding
    <3>2. HandFresh(n, now, tokens)
      BY TaskFacts DEF Fresh
    <3> QED
      BY <3>1, <3>2 DEF HandFresh, Margin
  <2>3. now < Lasts(tokens', n)
    <3>1. /\ Lasts(tokens', n) = tokens[n].issued + tokens[n].life
          /\ tokens[n].issued \in Nat /\ tokens[n].life \in Nat /\ tokens[n].life > 1
      BY <2>2, TokenKept DEF Lasts
    <3> QED
      BY <2>2, <3>1, ClockFacts
  <2> HIDE DEF n
  <2>4. RequestFresh(Settled(req[r], n), now, tokens')
    BY <1>0, <1>1, <1>2, <2>3, SettledFresh
  <2> QED
    BY <2>1, <2>4
<1> QED
  BY <1>3, <1>4, <1>5, <1>6, <1>7, <1>8, RequestMoves

-----------------------------------------------------------------------------
(* The invariant: as long as no token was under way for too long, every    *)
(* token in hand, in a document or in a request is fresh.                  *)
TokenInv == TypeOK /\ Refs /\ ("slow" \notin causes => Fresh)

(* At first there is no token. *)
LEMMA InitFresh == Init => TokenInv
<1> SUFFICES ASSUME Init
             PROVE  TypeOK /\ Refs /\ Fresh
  BY DEF TokenInv
<1>1. TypeOK /\ Refs
  BY InitRefs
<1>2. \A t \in Tasks : task[t].token = 0
  BY DEF Init, IdleTask
<1>3. \A i \in 1 .. Len(rows) : rows[i].token = 0
  BY <1>1, SeqFacts DEF Init, NewRow
<1>4. \A r \in Requests : req[r].token = 0
  BY DEF Init, NewRequest
<1> QED
  BY <1>1, <1>2, <1>3, <1>4 DEF Fresh, HandFresh, StoredFresh, RequestFresh

(* Every step keeps the invariant. *)
LEMMA NextFresh == TokenInv /\ [Next]_vars => TokenInv'
<1> SUFFICES ASSUME TokenInv, [Next]_vars
             PROVE  TokenInv'
  OBVIOUS
<1>1. TypeOK' /\ Refs'
  BY NextRefs DEF TokenInv
<1>2. CASE UNCHANGED vars
  BY <1>1, <1>2 DEF vars, TokenInv, Fresh
<1>3. ASSUME Next, "slow" \notin causes'
      PROVE  Fresh'
  <2>1. TypeOK /\ Refs /\ Fresh
    BY <1>3, CausesGrow DEF TokenInv
  <2> QED
    BY <1>3, <2>1, HandsStayFresh, RowsStayFresh, RequestsStayFresh DEF Fresh
<1> QED
  BY <1>1, <1>2, <1>3 DEF TokenInv

(* snelstart.client.ts, connection-settings.service.ts: no request goes    *)
(* out with an expired token, unless a token took longer than the margin   *)
(* on its way from the ERP to the database.                                *)
THEOREM NoExpired == Spec => []NoExpiredToken
<1>1. TokenInv => NoExpiredToken
  <2> SUFFICES ASSUME TokenInv, "slow" \notin causes, NEW r \in Requests,
                      req[r].pc = "go", req[r].token # 0
               PROVE  now < Expires(req[r].token)
    BY DEF NoExpiredToken
  <2>1. RequestFresh(req[r], now, tokens)
    BY DEF TokenInv, Fresh
  <2> QED
    BY <2>1 DEF RequestFresh, Lasts, Expires
<1> QED
  BY <1>1, InitFresh, NextFresh, PTL DEF Spec

-----------------------------------------------------------------------------
(* The settings: what each step does to the documents and the tasks *)

(* A task that starts again from nothing, idle or as the shared refresh.   *)
Resets(t) ==
  \E point \in {"idle", "settings"} :
     task' = [task EXCEPT ![t] = [IdleTask EXCEPT !.pc = point]]

(* A task that will fetch a token for the key of the settings it found.    *)
Asks(t, i) ==
  /\ Found(i)
  /\ Gap(i) \subseteq causes'
  /\ task[t].pc \in {"idle", "settings"} /\ task'[t].pc \in {"fetch", "login"}
  /\ task'[t].key = IF i = 0 THEN EnvKey ELSE rows[i].key
  /\ task'[t].token \in {0, task[t].token}
  /\ \A u \in Tasks \ {t} : task'[u] = task[u]

(* Every step is one of these for the settings and the tasks.              *)
LEMMA Moves ==
  ASSUME TypeOK, Next
  PROVE  \/ UNCHANGED <<rows, task>>
         \/ \E r \in Requests : ClearToken(r)
         \/ \E t \in Tasks : SaveSteps(t)
         \/ UNCHANGED <<rows, tokens>> /\ \E t \in Tasks : Resets(t)
         \/ UNCHANGED <<rows, tokens>> /\ \E t \in Tasks, i \in DOMAIN rows \cup {0} : Asks(t, i)
         \/ \E a \in Admins : \/ \E k \in Keys : SaveSettings(a, k) \/ TestConnection(a, k)
                              \/ CheckSettings(a)
<1>0. task \in [Tasks -> Task]
  BY DEF TypeOK
<1>j. ASSUME JoinRefresh
      PROVE  UNCHANGED task \/ Resets("refresh")
  BY <1>j DEF JoinRefresh, Resets
<1>i. ASSUME NEW t \in Tasks, task' = [task EXCEPT ![t] = IdleTask]
      PROVE  Resets(t)
  <2>1. IdleTask = [IdleTask EXCEPT !.pc = "idle"]
    BY DEF IdleTask
  <2> QED
    BY <1>i, <2>1 DEF Resets
<1>s. ASSUME NEW token, SettleRefresh(token)
      PROVE  Resets("refresh")
  BY <1>s, <1>i, TaskFacts DEF SettleRefresh
<1>1. CASE Tick \/ \E n \in DOMAIN tokens : Revoke(n)
  BY <1>1 DEF Tick, Revoke
<1>2. CASE RefreshSettings
  <2>1. PICK i \in DOMAIN rows \cup {0} :
          /\ Found(i)
          /\ IF i = 0 /\ ~env
               THEN /\ SettleRefresh(0)
                    /\ causes' = causes \cup {"noCredentials"} \cup Gap(i)
               ELSE /\ task' = [task EXCEPT
                          !["refresh"].pc  = "fetch",
                          !["refresh"].key = IF i = 0 THEN EnvKey ELSE rows[i].key]
                    /\ causes' = causes \cup Gap(i)
                    /\ UNCHANGED req
    BY <1>2 DEF RefreshSettings
  <2>2. UNCHANGED <<rows, tokens>> /\ task["refresh"].pc = "settings"
    BY <1>2 DEF RefreshSettings
  <2>3. CASE i = 0 /\ ~env
    BY <1>s, <2>1, <2>2, <2>3, TaskFacts
  <2>4. CASE ~(i = 0 /\ ~env)
    <3>1. /\ task'["refresh"].pc = "fetch"
          /\ task'["refresh"].key = IF i = 0 THEN EnvKey ELSE rows[i].key
          /\ task'["refresh"].token = task["refresh"].token
          /\ \A u \in Tasks \ {"refresh"} : task'[u] = task[u]
      BY <1>0, <2>1, <2>4, TaskFacts DEF Task
    <3> QED
      BY <2>1, <2>2, <2>4, <3>1, TaskFacts DEF Asks
  <2> QED
    BY <2>3, <2>4
<1>3. CASE RefreshDone \/ RefreshFails \/ ManualRefresh \/ SaveSteps("refresh")
  BY <1>3, <1>j, <1>s, TaskFacts DEF RefreshDone, RefreshFails, ManualRefresh
<1>4. ASSUME NEW a \in Admins, Login(a)
      PROVE  UNCHANGED <<rows, tokens>> /\ \E i \in DOMAIN rows \cup {0} : Asks(a, i)
  <2>1. PICK i \in DOMAIN rows \cup {0} :
          /\ Found(i)
          /\ task' = [task EXCEPT ![a] = [IdleTask EXCEPT
                       !.pc = "login", !.key = IF i = 0 THEN EnvKey ELSE rows[i].key]]
          /\ causes' = causes \cup Gap(i)
    BY <1>4 DEF Login
  <2>2. /\ task'[a].pc = "login" /\ task'[a].token = 0
        /\ task'[a].key = IF i = 0 THEN EnvKey ELSE rows[i].key
        /\ \A u \in Tasks \ {a} : task'[u] = task[u]
    BY <1>0, <2>1, TaskFacts DEF IdleTask
  <2> QED
    BY <1>4, <2>1, <2>2 DEF Asks, Login
<1>5. ASSUME NEW a \in Admins, Admin(a)
      PROVE  \/ \E t \in Tasks : SaveSteps(t)
             \/ UNCHANGED <<rows, tokens>> /\ \E t \in Tasks : Resets(t)
             \/ UNCHANGED <<rows, tokens>> /\ \E t \in Tasks, i \in DOMAIN rows \cup {0} : Asks(t, i)
             \/ \E k \in Keys : SaveSettings(a, k) \/ TestConnection(a, k)
             \/ CheckSettings(a)
  BY <1>5, <1>4, <1>i, TaskFacts DEF Admin, AdminEnds
<1>6. ASSUME NEW r \in Requests, Begin(r) \/ RequestStep(r)
      PROVE  \/ UNCHANGED <<rows, task>> \/ ClearToken(r)
             \/ UNCHANGED <<rows, tokens>> /\ Resets("refresh")
  BY <1>6, <1>j DEF RequestStep, Begin, TakeSlot, DecideToken, Answered, Unauthorized, Busy,
     Fails, MarkInvalid
<1> QED
  BY <1>1, <1>2, <1>3, <1>5, <1>6, TaskFacts DEF Next, Refresh

(* updateMany leaves no document active and keeps their keys and tokens.   *)
LEMMA DeactivateMeans ==
  ASSUME TypeOK, NEW t \in Tasks, Deactivate(t)
  PROVE  /\ DOMAIN rows' = DOMAIN rows /\ ActiveRows' = {}
         /\ \A i \in DOMAIN rows : rows'[i].key = rows[i].key /\ rows'[i].token = rows[i].token
         /\ task[t].pc = "deactivate" /\ task'[t].pc = "insert" /\ UNCHANGED tokens
         /\ task'[t].key = task[t].key /\ task'[t].token = task[t].token
         /\ \A u \in Tasks \ {t} : task'[u] = task[u]
         /\ "overlap" \notin causes' => Saving = {t}
<1>0. task \in [Tasks -> Task] /\ DOMAIN rows = 1 .. Len(rows)
      /\ rows \in [1 .. Len(rows) -> Row] /\ Len(rows) \in Nat
  BY SeqFacts DEF TypeOK
<1>1. \A i \in DOMAIN rows : /\ rows'[i].active = FALSE
                             /\ rows'[i].key = rows[i].key /\ rows'[i].token = rows[i].token
  BY <1>0 DEF Deactivate, Row
<1>2. DOMAIN rows' = DOMAIN rows /\ UNCHANGED tokens
  BY DEF Deactivate
<1>3. /\ task[t].pc = "deactivate" /\ task'[t].pc = "insert"
      /\ task'[t].key = task[t].key /\ task'[t].token = task[t].token
      /\ \A u \in Tasks \ {t} : task'[u] = task[u]
  BY <1>0 DEF Deactivate, Goto, Task
<1>4. "overlap" \notin causes' => Saving = {t}
  BY DEF Deactivate
<1> QED
  BY <1>1, <1>2, <1>3, <1>4 DEF ActiveRows

(* save() adds one active document, with the key of the task and no token. *)
LEMMA InsertMeans ==
  ASSUME TypeOK, NEW t \in Tasks, Insert(t)
  PROVE  /\ DOMAIN rows = 1 .. Len(rows) /\ Len(rows) \in Nat
         /\ DOMAIN rows' = 1 .. Len(rows) + 1
         /\ ActiveRows' = ActiveRows \cup {Len(rows) + 1}
         /\ \A i \in DOMAIN rows : rows'[i] = rows[i]
         /\ rows'[Len(rows) + 1].key = task[t].key /\ rows'[Len(rows) + 1].token = 0
         /\ task[t].pc = "insert" /\ UNCHANGED tokens
         /\ task'[t].pc = IF task[t].token = 0 THEN "idle" ELSE "refind"
         /\ task'[t].key = task[t].key /\ task'[t].token = task[t].token
         /\ \A u \in Tasks \ {t} : task'[u] = task[u]
         /\ "switched" \notin causes' =>
              \A u \in Tasks : task[u].pc \in {"idle", "deactivate", "insert"}
<1>0. task \in [Tasks -> Task] /\ DOMAIN rows = 1 .. Len(rows) /\ Len(rows) \in Nat
  BY SeqFacts DEF TypeOK
<1> DEFINE d == NewRow(task[t].key)
<1>1. d.active = TRUE /\ d.key = task[t].key /\ d.token = 0 /\ d \in Row
  <2>1. task[t].key \in AnyKey /\ Undefined \in Expiry
    BY <1>0 DEF Task, Expiry
  <2> QED
    BY <2>1 DEF NewRow, Row
<1>2. /\ DOMAIN rows' = 1 .. Len(rows) + 1
      /\ \A i \in DOMAIN rows : rows'[i] = rows[i]
      /\ rows'[Len(rows) + 1] = d
  <2>1. rows \in Seq(Row) /\ rows' = Append(rows, d)
    BY DEF Insert, TypeOK
  <2>2. /\ rows' \in Seq(Row) /\ Len(rows') = Len(rows) + 1
        /\ \A i \in 1 .. Len(rows) : rows'[i] = rows[i]
        /\ rows'[Len(rows) + 1] = d
    BY <1>1, <2>1, AppendProperties
  <2> QED
    BY <1>0, <2>2, LenProperties
<1>3. ActiveRows' = ActiveRows \cup {Len(rows) + 1}
  BY <1>0, <1>1, <1>2 DEF ActiveRows
<1>4. /\ task[t].pc = "insert" /\ UNCHANGED tokens
      /\ task'[t].pc = IF task[t].token = 0 THEN "idle" ELSE "refind"
      /\ task'[t].key = task[t].key /\ task'[t].token = task[t].token
      /\ \A u \in Tasks \ {t} : task'[u] = task[u]
  BY <1>0 DEF Insert, Goto, Task
<1>5. "switched" \notin causes' => \A u \in Tasks : task[u].pc \in {"idle", "deactivate", "insert"}
  BY DEF Insert
<1> HIDE DEF d
<1> QED
  BY <1>0, <1>1, <1>2, <1>3, <1>4, <1>5

(* settings.save() writes a token into one document.                       *)
LEMMA StoreMeans ==
  ASSUME TypeOK, Refs, NEW t \in Tasks, StoreToken(t)
  PROVE  /\ DOMAIN rows' = DOMAIN rows /\ ActiveRows' = ActiveRows
         /\ task[t].row \in DOMAIN rows
         /\ \A i \in DOMAIN rows :
              /\ rows'[i].key = rows[i].key
              /\ rows'[i].token = IF i = task[t].row THEN task[t].token ELSE rows[i].token
         /\ task[t].pc = "store" /\ task'[t].pc = "report" /\ UNCHANGED tokens
         /\ task'[t].key = task[t].key /\ task'[t].token = task[t].token
         /\ \A u \in Tasks \ {t} : task'[u] = task[u]
<1>0. task \in [Tasks -> Task] /\ DOMAIN rows = 1 .. Len(rows)
      /\ rows \in [1 .. Len(rows) -> Row] /\ Len(rows) \in Nat
  BY SeqFacts DEF TypeOK
<1>1. task[t].row \in DOMAIN rows
  BY <1>0 DEF StoreToken, Refs, TaskRefs
<1>2. /\ DOMAIN rows' = DOMAIN rows
      /\ \A i \in DOMAIN rows :
           /\ rows'[i].active = rows[i].active /\ rows'[i].key = rows[i].key
           /\ rows'[i].token = IF i = task[t].row THEN task[t].token ELSE rows[i].token
  BY <1>0, <1>1 DEF StoreToken, Row
<1>3. /\ task[t].pc = "store" /\ task'[t].pc = "report" /\ UNCHANGED tokens
      /\ task'[t].key = task[t].key /\ task'[t].token = task[t].token
      /\ \A u \in Tasks \ {t} : task'[u] = task[u]
  BY <1>0 DEF StoreToken, Goto, Task
<1> QED
  BY <1>1, <1>2, <1>3 DEF ActiveRows

(* markConnectionInvalid clears at most the token of one document.         *)
LEMMA ClearMeans ==
  ASSUME TypeOK, NEW r \in Requests, ClearToken(r)
  PROVE  /\ DOMAIN rows' = DOMAIN rows /\ ActiveRows' = ActiveRows
         /\ \A i \in DOMAIN rows : rows'[i].key = rows[i].key /\ rows'[i].token \in {0, rows[i].token}
         /\ UNCHANGED <<tokens, task>>
<1>0. DOMAIN rows = 1 .. Len(rows) /\ rows \in [1 .. Len(rows) -> Row]
  BY SeqFacts
<1>1. /\ DOMAIN rows' = DOMAIN rows
      /\ \A i \in DOMAIN rows :
           /\ rows'[i].active = rows[i].active /\ rows'[i].key = rows[i].key
           /\ rows'[i].token \in {0, rows[i].token}
  <2>1. rows' = [i \in DOMAIN rows |->
                   IF i = req[r].row
                     THEN [rows[i] EXCEPT
                             !.token     = IF req[r].token # 0 THEN 0 ELSE @,
                             !.expiresAt = IF req[r].expiresAt # 0 THEN 0 ELSE @]
                     ELSE rows[i]]
    BY <1>0 DEF ClearToken
  <2> QED
    BY <1>0, <2>1 DEF Row
<1> QED
  BY <1>1 DEF ActiveRows, ClearToken

(* A look for the active settings; without any the task goes on with the   *)
(* credentials of the environment.                                         *)
LEMMA FindMeans ==
  ASSUME TypeOK, NEW t \in Tasks, FindRow(t)
  PROVE  /\ UNCHANGED <<rows, tokens>> /\ task[t].pc = "find"
         /\ \A u \in Tasks \ {t} : task'[u] = task[u]
         /\ task'[t].token = task[t].token
         /\ \/ /\ task'[t].pc = "store" /\ task'[t].row \in ActiveRows
               /\ task'[t].key = task[t].key
            \/ /\ task'[t].pc \in {"deactivate", "report"} /\ task'[t].key = EnvKey
               /\ ActiveRows = {}
               /\ "gap" \notin causes' => rows = <<>> /\ Saving = {}
<1>0. task \in [Tasks -> Task] /\ DOMAIN rows = 1 .. Len(rows)
  BY SeqFacts DEF TypeOK
<1>1. PICK i \in DOMAIN rows \cup {0} :
        /\ Found(i)
        /\ task' = [task EXCEPT
             ![t].row = i,
             ![t].key = IF i = 0 THEN EnvKey ELSE @,
             ![t].pc  = IF i # 0 THEN "store" ELSE IF env THEN "deactivate" ELSE "report"]
        /\ causes' = causes \cup Gap(i)
  BY DEF FindRow
<1>2. /\ UNCHANGED <<rows, tokens>> /\ task[t].pc = "find"
      /\ \A u \in Tasks \ {t} : task'[u] = task[u]
      /\ task'[t].token = task[t].token
      /\ task'[t].row = i
      /\ task'[t].key = IF i = 0 THEN EnvKey ELSE task[t].key
      /\ task'[t].pc = IF i # 0 THEN "store" ELSE IF env THEN "deactivate" ELSE "report"
  BY <1>0, <1>1 DEF FindRow, Task
<1>3. i = 0 => ActiveRows = {} /\ ("gap" \notin causes' => rows = <<>> /\ Saving = {})
  BY <1>0, <1>1 DEF Found, ActiveRows, Gap
<1>4. i # 0 => i \in ActiveRows
  BY <1>1 DEF Found
<1> QED
  BY <1>2, <1>3, <1>4

(* The look after the save of the environment's credentials.               *)
LEMMA FindAgainMeans ==
  ASSUME TypeOK, NEW t \in Tasks, FindAgain(t)
  PROVE  /\ UNCHANGED <<rows, tokens>> /\ task[t].pc = "refind"
         /\ \A u \in Tasks \ {t} : task'[u] = task[u]
         /\ task'[t].token = task[t].token /\ task'[t].key = task[t].key
         /\ \/ task'[t].pc = "store" /\ task'[t].row \in ActiveRows
            \/ task'[t].pc = "report" /\ ActiveRows = {}
<1>0. task \in [Tasks -> Task] /\ DOMAIN rows = 1 .. Len(rows)
  BY SeqFacts DEF TypeOK
<1>1. PICK i \in DOMAIN rows \cup {0} :
        /\ Found(i)
        /\ task' = [task EXCEPT ![t].row = i, ![t].pc  = IF i # 0 THEN "store" ELSE "report"]
  BY DEF FindAgain
<1>2. /\ UNCHANGED <<rows, tokens>> /\ task[t].pc = "refind"
      /\ \A u \in Tasks \ {t} : task'[u] = task[u]
      /\ task'[t].token = task[t].token /\ task'[t].key = task[t].key
      /\ task'[t].row = i
      /\ task'[t].pc = IF i # 0 THEN "store" ELSE "report"
  BY <1>0, <1>1 DEF FindAgain, Task
<1>3. (i # 0 => i \in ActiveRows) /\ (i = 0 => ActiveRows = {})
  BY <1>0, <1>1 DEF Found, ActiveRows
<1> QED
  BY <1>2, <1>3

(* A new token carries the key of the task that asked for it.              *)
LEMMA FetchMeans ==
  ASSUME TypeOK, NEW t \in Tasks, FetchToken(t)
  PROVE  /\ UNCHANGED rows /\ task[t].pc \in {"fetch", "login"}
         /\ \A u \in Tasks \ {t} : task'[u] = task[u]
         /\ task'[t].key = task[t].key
         /\ task'[t].pc = (IF t = "refresh" \/ task[t].pc = "login" THEN "find" ELSE "check")
         /\ task'[t].token = Len(tokens) + 1
         /\ Len(tokens) \in Nat /\ Len(tokens') = Len(tokens) + 1
         /\ \A n \in 1 .. Len(tokens) : tokens'[n] = tokens[n]
         /\ tokens'[Len(tokens) + 1].key = task[t].key
         /\ tokens'[Len(tokens) + 1].revoked = FALSE
<1>0. task \in [Tasks -> Task] /\ Len(tokens) \in Nat
  BY SeqFacts DEF TypeOK
<1>1. PICK l \in Lifetimes :
        tokens' = Append(tokens, [key |-> task[t].key, issued |-> now,
                                  life |-> l, revoked |-> FALSE])
  BY DEF FetchToken
<1> DEFINE n == [key |-> task[t].key, issued |-> now, life |-> l, revoked |-> FALSE]
<1>2. n \in Token
  BY <1>0, BoundsAssumption DEF Token, Task, TypeOK
<1>3. /\ Len(tokens') = Len(tokens) + 1
      /\ \A i \in 1 .. Len(tokens) : tokens'[i] = tokens[i]
      /\ tokens'[Len(tokens) + 1] = n
  BY <1>1, <1>2, AppendProperties DEF TypeOK
<1>4. /\ UNCHANGED rows /\ task[t].pc \in {"fetch", "login"}
      /\ \A u \in Tasks \ {t} : task'[u] = task[u]
      /\ task'[t].key = task[t].key
      /\ task'[t].pc = (IF t = "refresh" \/ task[t].pc = "login" THEN "find" ELSE "check")
      /\ task'[t].token = Len(tokens) + 1
  BY <1>0 DEF FetchToken, Task
<1> QED
  BY <1>0, <1>3, <1>4

(* A task that starts again holds nothing.                                 *)
LEMMA ResetMeans ==
  ASSUME TypeOK, NEW t \in Tasks, Resets(t)
  PROVE  /\ task'[t].pc \in {"idle", "settings"} /\ task'[t].token = 0
         /\ \A u \in Tasks \ {t} : task'[u] = task[u]
<1>1. task \in [Tasks -> Task]
  BY DEF TypeOK
<1> QED
  BY <1>1 DEF Resets, IdleTask

(* The first step of an admin.                                             *)
LEMMA AdminStarts ==
  ASSUME TypeOK, NEW a \in Admins, NEW k \in Keys,
         SaveSettings(a, k) \/ TestConnection(a, k)
  PROVE  /\ UNCHANGED <<rows, tokens>> /\ task'[a].token = 0 /\ task'[a].key = k
         /\ \A u \in Tasks \ {a} : task'[u] = task[u]
         /\ \/ task'[a].pc = "deactivate"
            \/ /\ task'[a].pc = "fetch"
               /\ "testedOther" \notin causes' =>
                    ActiveRows # {} /\ \A i \in ActiveRows : rows[i].key = k
<1>1. task \in [Tasks -> Task] /\ a \in Tasks
  BY TaskFacts DEF TypeOK
<1>2. CASE SaveSettings(a, k)
  BY <1>1, <1>2 DEF SaveSettings, IdleTask
<1>3. CASE TestConnection(a, k)
  BY <1>1, <1>3 DEF TestConnection, IdleTask
<1> QED
  BY <1>2, <1>3

(* A test stores its token only if there is something to store it in.      *)
LEMMA CheckMeans ==
  ASSUME TypeOK, NEW a \in Admins, CheckSettings(a)
  PROVE  /\ UNCHANGED <<rows, tokens>> /\ task[a].pc = "check"
         /\ task'[a].pc \in {"report", "find"}
         /\ task'[a].token = task[a].token /\ task'[a].key = task[a].key
         /\ \A u \in Tasks \ {a} : task'[u] = task[u]
<1>1. task \in [Tasks -> Task] /\ a \in Tasks
  BY TaskFacts DEF TypeOK
<1> QED
  BY <1>1 DEF CheckSettings, Goto, Task

-----------------------------------------------------------------------------
(* Saves: one document is active, and the environment comes first          *)

(* Nothing is active while a task is between the two steps of a save, and  *)
(* one task at a time is there.                                            *)
Between(t) == ActiveRows = {} /\ \A u \in Tasks : task[u].pc = "insert" => u = t

OneSave ==
  "overlap" \notin causes =>
    /\ \A i, j \in ActiveRows : i = j
    /\ \A t \in Tasks : task[t].pc = "insert" => Between(t)

(* A task that asks for a token holds none yet.                            *)
EmptyHand ==
  \A t \in Tasks : task[t].pc \in {"idle", "settings", "fetch", "login"} => task[t].token = 0

(* Who saves the credentials of the environment found no document, and     *)
(* nobody else is about to insert one.                                     *)
EnvFirst ==
  causes \cap {"gap", "overlap"} = {} =>
    /\ \A i \in DOMAIN rows : rows[i].key = EnvKey => i = 1
    /\ \A t \in Saving : task[t].key = EnvKey =>
         rows = <<>> /\ \A u \in Tasks : task[u].pc = "insert" => u = t

SaveInv == TypeOK /\ Refs /\ EmptyHand /\ OneSave /\ EnvFirst

(* At first nobody saves, and the one document is an admin's.              *)
LEMMA InitSave == Init => SaveInv
<1> SUFFICES ASSUME Init
             PROVE  EmptyHand /\ OneSave /\ EnvFirst
  BY InitRefs DEF SaveInv
<1>1. \A t \in Tasks : task[t].pc = "idle" /\ task[t].token = 0
  BY DEF Init, IdleTask
<1>2. /\ DOMAIN rows \subseteq {1}
      /\ \A i \in DOMAIN rows : rows[i].key \in Keys
  BY DEF Init, NewRow
<1> QED
  BY <1>1, <1>2 DEF EmptyHand, OneSave, EnvFirst, ActiveRows, Saving

(* Every step keeps tasks that ask for a token empty-handed.               *)
LEMMA HandStep ==
  ASSUME TypeOK, Refs, EmptyHand, Next
  PROVE  EmptyHand'
<1> SUFFICES ASSUME NEW t \in Tasks, task'[t].pc \in {"idle", "settings", "fetch", "login"}
             PROVE  task'[t].token = 0
  BY DEF EmptyHand
<1>1. CASE task'[t] = task[t]
  BY <1>1 DEF EmptyHand
<1>2. ASSUME NEW u \in Tasks, SaveSteps(u), u = t
      PROVE  task'[t].token = 0
  <2>1. CASE Insert(t)
    <3>1. task'[t].token = task[t].token
          /\ task'[t].pc = IF task[t].token = 0 THEN "idle" ELSE "refind"
      BY <2>1, InsertMeans
    <3> QED
      BY <3>1
  <2>2. CASE Deactivate(t) \/ StoreToken(t) \/ FindRow(t) \/ FindAgain(t) \/ FetchToken(t)
    <3>1. task'[t].pc \in {"insert", "report", "store", "deactivate", "find", "check"}
      BY <2>2, DeactivateMeans, StoreMeans, FindMeans, FindAgainMeans, FetchMeans
    <3> QED
      BY <3>1
  <2> QED
    BY <1>2, <2>1, <2>2 DEF SaveSteps
<1>3. ASSUME NEW u \in Tasks, SaveSteps(u), u # t
      PROVE  task'[t] = task[t]
  BY <1>3, DeactivateMeans, InsertMeans, StoreMeans, FindMeans, FindAgainMeans, FetchMeans
  DEF SaveSteps
<1>4. ASSUME NEW i \in DOMAIN rows \cup {0}, Asks(t, i)
      PROVE  task'[t].token = 0
  BY <1>4 DEF Asks, EmptyHand
<1>5. ASSUME NEW u \in Tasks, NEW i \in DOMAIN rows \cup {0}, Asks(u, i), u # t
      PROVE  task'[t] = task[t]
  BY <1>5 DEF Asks
<1>6. ASSUME NEW u \in Tasks, Resets(u)
      PROVE  task'[t] = task[t] \/ task'[t].token = 0
  BY <1>6, ResetMeans
<1>7. ASSUME NEW a \in Admins,
             \/ \E k \in Keys : SaveSettings(a, k) \/ TestConnection(a, k)
             \/ CheckSettings(a)
      PROVE  task'[t] = task[t] \/ task'[t].token = 0
  BY <1>7, AdminStarts, CheckMeans
<1>8. ASSUME NEW r \in Requests, ClearToken(r)
      PROVE  task'[t] = task[t]
  BY <1>8, ClearMeans
<1> QED
  BY <1>1, <1>2, <1>3, <1>4, <1>5, <1>6, <1>7, <1>8, Moves

(* Two saves that do not overlap leave one document active.                *)
LEMMA OneSaveStep ==
  ASSUME TypeOK, Refs, OneSave, Next
  PROVE  OneSave'
<1> SUFFICES ASSUME "overlap" \notin causes'
             PROVE  OneSave'
  BY DEF OneSave
<1>0. /\ "overlap" \notin causes
      /\ \A i, j \in ActiveRows : i = j
      /\ \A t \in Tasks : task[t].pc = "insert" => Between(t)
  BY CausesGrow DEF OneSave
<1>1. ASSUME NEW t \in Tasks, Deactivate(t)
      PROVE  OneSave'
  <2>1. ActiveRows' = {} /\ Saving = {t} /\ \A u \in Tasks \ {t} : task'[u] = task[u]
    BY <1>1, DeactivateMeans
  <2> QED
    BY <2>1 DEF OneSave, Between, Saving
<1>2. ASSUME NEW t \in Tasks, Insert(t)
      PROVE  OneSave'
  <2>1. /\ ActiveRows' = ActiveRows \cup {Len(rows) + 1}
        /\ task[t].pc = "insert" /\ task'[t].pc # "insert"
        /\ \A u \in Tasks \ {t} : task'[u] = task[u]
    BY <1>2, InsertMeans
  <2>2. ActiveRows = {} /\ \A u \in Tasks : task[u].pc = "insert" => u = t
    BY <1>0, <1>2, <2>1 DEF Between
  <2> QED
    BY <2>1, <2>2 DEF OneSave
<1>3. ASSUME ActiveRows' = ActiveRows, \A u \in Tasks : task'[u].pc = "insert" => task[u].pc = "insert"
      PROVE  OneSave'
  BY <1>0, <1>3 DEF OneSave, Between
<1>4. ASSUME NEW t \in Tasks, StoreToken(t) \/ FindRow(t) \/ FindAgain(t) \/ FetchToken(t)
      PROVE  OneSave'
  <2>1. ActiveRows' = ActiveRows
    BY <1>4, StoreMeans, FindMeans, FindAgainMeans, FetchMeans DEF ActiveRows
  <2>2. task'[t].pc # "insert" /\ \A u \in Tasks \ {t} : task'[u] = task[u]
    BY <1>4, StoreMeans, FindMeans, FindAgainMeans, FetchMeans
  <2> QED
    BY <1>3, <2>1, <2>2
<1>5. CASE UNCHANGED <<rows, task>>
  <2>1. /\ ActiveRows' = ActiveRows
        /\ \A u \in Tasks : task'[u].pc = "insert" => task[u].pc = "insert"
    BY <1>5 DEF ActiveRows
  <2> QED
    BY <1>3, <2>1
<1>6. ASSUME NEW r \in Requests, ClearToken(r)
      PROVE  OneSave'
  BY <1>3, <1>6, ClearMeans
<1>7. ASSUME NEW t \in Tasks, UNCHANGED rows,
             Resets(t) \/ \E i \in DOMAIN rows \cup {0} : Asks(t, i)
      PROVE  OneSave'
  <2>1. task'[t].pc # "insert" /\ \A u \in Tasks \ {t} : task'[u] = task[u]
    BY <1>7, ResetMeans DEF Asks
  <2>2. ActiveRows' = ActiveRows
    BY <1>7 DEF ActiveRows
  <2> QED
    BY <1>3, <1>7, <2>1, <2>2
<1>8. ASSUME NEW a \in Admins,
             \/ \E k \in Keys : SaveSettings(a, k) \/ TestConnection(a, k)
             \/ CheckSettings(a)
      PROVE  OneSave'
  <2>1. task'[a].pc # "insert" /\ UNCHANGED rows /\ \A u \in Tasks \ {a} : task'[u] = task[u]
    BY <1>8, AdminStarts, CheckMeans
  <2> QED
    BY <1>3, <2>1 DEF ActiveRows
<1>9. ASSUME NEW t \in Tasks, SaveSteps(t)
      PROVE  OneSave'
  BY <1>1, <1>2, <1>4, <1>9 DEF SaveSteps
<1> QED
  BY <1>5, <1>6, <1>7, <1>8, <1>9, Moves

(* The documents and their keys stay; a task does not come to save the     *)
(* environment's credentials.                                              *)
KeysKept ==
  /\ DOMAIN rows' = DOMAIN rows
  /\ \A i \in DOMAIN rows : rows'[i].key = rows[i].key

NoEnvSave(u) ==
  \/ task'[u] = task[u]
  \/ task'[u].pc \notin {"deactivate", "insert"}
  \/ task'[u].pc = "deactivate" /\ task'[u].key # EnvKey

(* The environment's credentials are saved only where there was nothing.   *)
LEMMA EnvStep ==
  ASSUME TypeOK, Refs, OneSave, EnvFirst, Next
  PROVE  EnvFirst'
<1> SUFFICES ASSUME causes' \cap {"gap", "overlap"} = {}
             PROVE  EnvFirst'
  BY DEF EnvFirst
<1>0. /\ causes \cap {"gap", "overlap"} = {}
      /\ \A i \in DOMAIN rows : rows[i].key = EnvKey => i = 1
      /\ \A t \in Saving : task[t].key = EnvKey =>
           rows = <<>> /\ \A u \in Tasks : task[u].pc = "insert" => u = t
  BY CausesGrow DEF EnvFirst
<1>d. rows = <<>> <=> DOMAIN rows = {}
  BY SeqFacts, EmptySeq DEF TypeOK
<1>e. rows' = <<>> <=> DOMAIN rows' = {}
  <2>1. TypeOK'
    BY NextRefs
  <2> QED
    BY <2>1, LenProperties, EmptySeq DEF TypeOK
<1>1. ASSUME NEW t \in Tasks, Deactivate(t)
      PROVE  EnvFirst'
  <2>1. /\ DOMAIN rows' = DOMAIN rows /\ \A i \in DOMAIN rows : rows'[i].key = rows[i].key
        /\ task'[t].pc = "insert" /\ task'[t].key = task[t].key
        /\ \A u \in Tasks \ {t} : task'[u] = task[u]
        /\ Saving = {t}
    BY <1>1, DeactivateMeans
  <2>2. Saving' = {t} /\ \A u \in Tasks : task'[u].pc = "insert" => u = t
    BY <2>1 DEF Saving
  <2> QED
    BY <1>0, <1>d, <1>e, <2>1, <2>2 DEF EnvFirst
<1>2. ASSUME NEW t \in Tasks, Insert(t)
      PROVE  EnvFirst'
  <2>1. /\ DOMAIN rows = 1 .. Len(rows) /\ Len(rows) \in Nat
        /\ DOMAIN rows' = 1 .. Len(rows) + 1
        /\ \A i \in DOMAIN rows : rows'[i] = rows[i]
        /\ rows'[Len(rows) + 1].key = task[t].key
        /\ task[t].pc = "insert" /\ task'[t].pc \in {"idle", "refind"}
        /\ \A u \in Tasks \ {t} : task'[u] = task[u]
    BY <1>2, InsertMeans
  <2>2. t \in Saving /\ Saving' \subseteq Saving \ {t}
    BY <2>1 DEF Saving
  <2>3. \A u \in Saving' : task'[u].key # EnvKey
    BY <1>0, <1>2, <2>1, <2>2 DEF Saving
  <2>4. task[t].key = EnvKey => Len(rows) = 0
    <3>1. task[t].key = EnvKey => DOMAIN rows = {}
      BY <1>0, <1>d, <2>2
    <3> QED
      BY <2>1, <3>1
  <2>5. \A i \in DOMAIN rows' : rows'[i].key = EnvKey => i = 1
    <3>1. \A i \in DOMAIN rows' : i \in DOMAIN rows \/ i = Len(rows) + 1
      BY <2>1
    <3> QED
      BY <1>0, <2>1, <2>4, <3>1
  <2> QED
    BY <2>3, <2>5 DEF EnvFirst
(* A step that starts no save and moves no task between the two steps.     *)
<1>3. ASSUME KeysKept, \A u \in Tasks : NoEnvSave(u)
      PROVE  EnvFirst'
  <2>1. \A u \in Saving' : task'[u].key = EnvKey => u \in Saving /\ task[u].key = EnvKey
    BY <1>3 DEF Saving, NoEnvSave
  <2>2. \A u \in Tasks : task'[u].pc = "insert" => task[u].pc = "insert"
    BY <1>3 DEF NoEnvSave
  <2> QED
    BY <1>0, <1>3, <1>d, <1>e, <2>1, <2>2 DEF EnvFirst, KeysKept
<1>4. ASSUME NEW t \in Tasks, FindRow(t)
      PROVE  EnvFirst'
  <2>1. UNCHANGED rows /\ \A u \in Tasks \ {t} : task'[u] = task[u]
    BY <1>4, FindMeans
  <2>2. CASE task'[t].pc \notin {"deactivate", "insert"}
    BY <1>3, <2>1, <2>2 DEF KeysKept, NoEnvSave
  <2>3. CASE task'[t].pc = "deactivate" /\ rows = <<>> /\ Saving = {}
    <3>1. Saving' = {t} /\ \A u \in Tasks : task'[u].pc # "insert"
      BY <2>1, <2>3 DEF Saving
    <3> QED
      BY <2>1, <2>3, <3>1 DEF EnvFirst
  <2> QED
    BY <1>4, <2>2, <2>3, FindMeans
<1>5. ASSUME NEW t \in Tasks, StoreToken(t) \/ FindAgain(t) \/ FetchToken(t)
      PROVE  EnvFirst'
  <2>1. /\ DOMAIN rows' = DOMAIN rows
        /\ \A i \in DOMAIN rows : rows'[i].key = rows[i].key
    BY <1>5, StoreMeans, FindAgainMeans, FetchMeans
  <2>2. task'[t].pc \notin {"deactivate", "insert"} /\ \A u \in Tasks \ {t} : task'[u] = task[u]
    BY <1>5, StoreMeans, FindAgainMeans, FetchMeans
  <2> QED
    BY <1>3, <2>1, <2>2 DEF KeysKept, NoEnvSave
<1>6. CASE UNCHANGED <<rows, task>>
  BY <1>3, <1>6 DEF KeysKept, NoEnvSave
<1>7. ASSUME NEW r \in Requests, ClearToken(r)
      PROVE  EnvFirst'
  BY <1>3, <1>7, ClearMeans DEF KeysKept, NoEnvSave
<1>8. ASSUME NEW t \in Tasks, UNCHANGED rows,
             Resets(t) \/ \E i \in DOMAIN rows \cup {0} : Asks(t, i)
      PROVE  EnvFirst'
  <2>1. /\ task'[t].pc \notin {"deactivate", "insert"}
        /\ \A u \in Tasks \ {t} : task'[u] = task[u]
    BY <1>8, ResetMeans DEF Asks
  <2> QED
    BY <1>3, <1>8, <2>1 DEF KeysKept, NoEnvSave
<1>9. ASSUME NEW a \in Admins,
             \/ \E k \in Keys : SaveSettings(a, k) \/ TestConnection(a, k)
             \/ CheckSettings(a)
      PROVE  EnvFirst'
  <2>1. /\ UNCHANGED rows /\ \A u \in Tasks \ {a} : task'[u] = task[u]
        /\ \/ task'[a].pc \notin {"deactivate", "insert"}
           \/ task'[a].pc = "deactivate" /\ task'[a].key # EnvKey
    BY <1>9, AdminStarts, CheckMeans, EnvKeyAssumption
  <2> QED
    BY <1>3, <2>1 DEF KeysKept, NoEnvSave
<1> QED
  BY <1>1, <1>2, <1>4, <1>5, <1>6, <1>7, <1>8, <1>9, Moves DEF SaveSteps

(* The settings of a save: every step keeps the invariant.                 *)
LEMMA NextSave == SaveInv /\ [Next]_vars => SaveInv'
<1> SUFFICES ASSUME SaveInv, [Next]_vars
             PROVE  SaveInv'
  OBVIOUS
<1>1. TypeOK' /\ Refs'
  BY NextRefs DEF SaveInv
<1>2. CASE UNCHANGED vars
  BY <1>1, <1>2 DEF vars, SaveInv, EmptyHand, OneSave, Between, EnvFirst, ActiveRows, Saving
<1>3. CASE Next
  BY <1>1, <1>3, HandStep, OneSaveStep, EnvStep DEF SaveInv
<1> QED
  BY <1>2, <1>3

(* Saves keep their order in every behaviour.                              *)
LEMMA SavesSound == Spec => []SaveInv
  BY InitSave, NextSave, PTL DEF Spec

(* connection-settings.service.ts saveSettings: the active settings are    *)
(* one document, unless two saves overlapped.                              *)
THEOREM OneActive == Spec => []OneActiveRow
<1>1. SaveInv => OneActiveRow
  <2> SUFFICES ASSUME SaveInv, "overlap" \notin causes
               PROVE  ~(Cardinality(ActiveRows) > 1)
    BY DEF OneActiveRow
  <2>1. \A i, j \in ActiveRows : i = j
    BY DEF SaveInv, OneSave
  <2>2. CASE ActiveRows = {}
    BY <2>2, FS_EmptySet
  <2>3. CASE ActiveRows # {}
    <3>1. PICK i \in ActiveRows : ActiveRows = {i}
      BY <2>1, <2>3
    <3> QED
      BY <3>1, FS_Singleton
  <2> QED
    BY <2>2, <2>3
<1> QED
  BY <1>1, SavesSound, PTL

(* connection-settings.service.ts saveAccessToken: the credentials of the  *)
(* environment never replace those of an admin, unless a save was caught   *)
(* between its steps.                                                      *)
THEOREM EnvComesFirst == Spec => []EnvNeverReplaces
<1>1. SaveInv => EnvNeverReplaces
  BY DEF SaveInv, EnvFirst, EnvNeverReplaces
<1> QED
  BY <1>1, SavesSound, PTL

-----------------------------------------------------------------------------
(* Keys: a token is stored with the key it was issued for                  *)

(* The ERP issues or withdraws one token at a time.                        *)
LEMMA TokensMove ==
  ASSUME TypeOK, Next
  PROVE  \/ UNCHANGED tokens
         \/ \E t \in Tasks : FetchToken(t)
         \/ \E n \in DOMAIN tokens : Revoke(n)
<1>1. ASSUME NEW t \in Tasks, SaveSteps(t)
      PROVE  UNCHANGED tokens \/ FetchToken(t)
  BY <1>1 DEF SaveSteps, Deactivate, Insert, FindRow, FindAgain, StoreToken
<1>2. CASE Refresh \/ ManualRefresh
  BY <1>1, <1>2, TaskFacts
  DEF Refresh, ManualRefresh, RefreshSettings, RefreshDone, RefreshFails
<1>3. ASSUME NEW a \in Admins, Admin(a)
      PROVE  UNCHANGED tokens \/ FetchToken(a)
  BY <1>1, <1>3, TaskFacts
  DEF Admin, SaveSettings, TestConnection, Login, CheckSettings, AdminEnds
<1>4. ASSUME NEW r \in Requests, Begin(r) \/ RequestStep(r)
      PROVE  UNCHANGED tokens
  BY <1>4 DEF RequestStep, Begin, TakeSlot, DecideToken, Answered, Unauthorized, Busy,
     Fails, MarkInvalid, ClearToken
<1>5. CASE Tick
  BY <1>5 DEF Tick
<1> QED
  BY <1>2, <1>3, <1>4, <1>5, TaskFacts DEF Next

(* A token that the ERP withdraws is marked, and nothing else changes.     *)
LEMMA RevokeMeans ==
  ASSUME TypeOK, NEW n \in DOMAIN tokens, Revoke(n)
  PROVE  /\ DOMAIN tokens = 1 .. Len(tokens) /\ DOMAIN tokens' = 1 .. Len(tokens)
         /\ \A i \in 1 .. Len(tokens) : /\ tokens'[i].key = tokens[i].key
                                        /\ tokens'[i].revoked = (tokens[i].revoked \/ i = n)
         /\ n \notin Revoked /\ Revoked' = Revoked \cup {n}
         /\ "revokedEarly" \notin causes' => \A t \in Tasks : task[t].token # n
         /\ UNCHANGED <<rows, task, req>>
<1>1. tokens \in [1 .. Len(tokens) -> Token] /\ DOMAIN tokens = 1 .. Len(tokens)
  BY SeqFacts
<1>2. DOMAIN tokens' = 1 .. Len(tokens)
  BY <1>1 DEF Revoke
<1>3. \A i \in 1 .. Len(tokens) :
        /\ tokens'[i].key = tokens[i].key
        /\ i # n => tokens'[i].revoked = tokens[i].revoked
        /\ i = n => tokens'[i].revoked = TRUE
  BY <1>1 DEF Revoke, Token
<1>4. \A i \in 1 .. Len(tokens) : tokens'[i].revoked = (tokens[i].revoked \/ i = n)
  <2>1. \A i \in 1 .. Len(tokens) : tokens[i].revoked \in BOOLEAN
    BY <1>1 DEF Token
  <2> QED
    BY <1>3, <2>1
<1>5. n \notin Revoked /\ Revoked' = Revoked \cup {n}
  BY <1>1, <1>2, <1>4 DEF Revoked, Revoke
<1> QED
  BY <1>1, <1>2, <1>3, <1>4, <1>5 DEF Revoke

(* A token on record keeps its key.                                        *)
LEMMA TokenKeyKept ==
  ASSUME TypeOK, Next, NEW n \in 1 .. Len(tokens)
  PROVE  tokens'[n].key = tokens[n].key
  BY TokensMove, FetchMeans, RevokeMeans

(* The token in hand was issued for the key in hand.                       *)
HandKey(t) == task[t].token # 0 => tokens[task[t].token].key = task[t].key

(* Whoever is about to look for the settings has their key.                *)
LooksKey(t) ==
  task[t].pc \in {"fetch", "login", "check", "find", "refind"} =>
    /\ \A i \in ActiveRows : rows[i].key = task[t].key
    /\ rows = <<>> => task[t].key = EnvKey

(* The document that a task writes to has the key of the task.             *)
StoreKey(t) == task[t].pc = "store" => rows[task[t].row].key = task[t].key

TaskKeys(t) == HandKey(t) /\ LooksKey(t) /\ StoreKey(t)

RowKeys == \A i \in DOMAIN rows :
             rows[i].token # 0 => tokens[rows[i].token].key = rows[i].key

KeyHarm == {"switched", "testedOther", "gap", "overlap"}

OwnKeys == causes \cap KeyHarm = {} => RowKeys /\ \A t \in Tasks : TaskKeys(t)

KeyInv == SaveInv /\ OwnKeys

(* At first there is no token.                                             *)
LEMMA InitKeys == Init => KeyInv
<1> SUFFICES ASSUME Init
             PROVE  OwnKeys
  BY InitSave DEF KeyInv
<1>1. \A t \in Tasks : task[t].pc = "idle" /\ task[t].token = 0
  BY DEF Init, IdleTask
<1>2. \A i \in DOMAIN rows : rows[i].token = 0
  BY DEF Init, NewRow
<1> QED
  BY <1>1, <1>2 DEF OwnKeys, RowKeys, TaskKeys, HandKey, LooksKey, StoreKey

(* A task that a step leaves alone keeps its keys, if no document became   *)
(* active that was not.                                                    *)
LEMMA TaskKeysKept ==
  ASSUME TypeOK, Refs, Next, KeysKept, ActiveRows' \subseteq ActiveRows,
         NEW t \in Tasks, TaskKeys(t), task'[t] = task[t]
  PROVE  TaskKeys(t)'
<1>1. task[t].token # 0 => task[t].token \in 1 .. Len(tokens)
  BY SeqFacts DEF Refs, TaskRefs
<1>2. HandKey(t)'
  BY <1>1, TokenKeyKept DEF TaskKeys, HandKey
<1>3. task[t].pc = "store" => task[t].row \in DOMAIN rows
  BY SeqFacts DEF Refs, TaskRefs
<1>4. StoreKey(t)'
  BY <1>3 DEF TaskKeys, StoreKey, KeysKept
<1>5. \A i \in ActiveRows' : i \in DOMAIN rows /\ rows'[i].key = rows[i].key
  BY DEF KeysKept, ActiveRows
<1>6. rows' = <<>> => rows = <<>>
  <2>1. TypeOK'
    BY NextRefs
  <2> QED
    BY <2>1, LenProperties, EmptySeq DEF TypeOK, KeysKept
<1>7. LooksKey(t)'
  BY <1>5, <1>6 DEF TaskKeys, LooksKey
<1> QED
  BY <1>2, <1>4, <1>7 DEF TaskKeys

(* Every step keeps the keys of tokens, tasks and documents together.      *)
LEMMA KeysStep ==
  ASSUME SaveInv, OwnKeys, Next
  PROVE  OwnKeys'
<1> SUFFICES ASSUME causes' \cap KeyHarm = {}
             PROVE  OwnKeys'
  BY DEF OwnKeys
<1>0. /\ TypeOK /\ Refs /\ EmptyHand
      /\ RowKeys /\ \A t \in Tasks : TaskKeys(t)
      /\ \A i, j \in ActiveRows : i = j
      /\ \A t \in Tasks : task[t].pc = "insert" => ActiveRows = {}
      /\ "gap" \notin causes' /\ "switched" \notin causes' /\ "testedOther" \notin causes'
  <2>1. causes \cap KeyHarm = {} /\ "overlap" \notin causes
    BY CausesGrow DEF KeyHarm
  <2>2. \A i, j \in ActiveRows : i = j
    BY <2>1 DEF SaveInv, OneSave
  <2>3. \A t \in Tasks : task[t].pc = "insert" => ActiveRows = {}
    BY <2>1 DEF SaveInv, OneSave, Between
  <2> QED
    BY <2>1, <2>2, <2>3 DEF OwnKeys, SaveInv, KeyHarm
<1>t. \A i \in DOMAIN rows : rows[i].token # 0 => rows[i].token \in 1 .. Len(tokens)
  BY <1>0, SeqFacts DEF Refs
(* No token is stored, or only a cleared one; the tasks that move are sound.*)
<1>1. ASSUME KeysKept, ActiveRows' \subseteq ActiveRows,
             \A i \in DOMAIN rows : rows'[i].token \in {0, rows[i].token},
             \A t \in Tasks : task'[t] = task[t] \/ TaskKeys(t)'
      PROVE  OwnKeys'
  <2>1. \A t \in Tasks : TaskKeys(t)'
    BY <1>0, <1>1, TaskKeysKept
  <2>2. RowKeys'
    BY <1>0, <1>1, <1>t, TokenKeyKept DEF RowKeys, KeysKept
  <2> QED
    BY <2>1, <2>2 DEF OwnKeys
(* Without a change of the documents, one task moves.                      *)
<1>2. ASSUME NEW t \in Tasks, UNCHANGED rows, TaskKeys(t)',
             \A u \in Tasks \ {t} : task'[u] = task[u]
      PROVE  OwnKeys'
  BY <1>1, <1>2 DEF KeysKept, ActiveRows
<1>e. \A t \in Tasks : task[t].token # 0 => task[t].token \in 1 .. Len(tokens)
  BY <1>0, SeqFacts DEF Refs, TaskRefs
<1>3. ASSUME NEW t \in Tasks, Deactivate(t)
      PROVE  OwnKeys'
  <2>1. /\ DOMAIN rows' = DOMAIN rows /\ ActiveRows' = {}
        /\ \A i \in DOMAIN rows : rows'[i].key = rows[i].key /\ rows'[i].token = rows[i].token
        /\ task'[t].pc = "insert" /\ UNCHANGED tokens
        /\ task'[t].key = task[t].key /\ task'[t].token = task[t].token
        /\ \A u \in Tasks \ {t} : task'[u] = task[u]
    BY <1>0, <1>3, DeactivateMeans
  <2>2. TaskKeys(t)'
    BY <1>0, <1>3, <2>1 DEF TaskKeys, HandKey, LooksKey, StoreKey
  <2> QED
    BY <1>1, <2>1, <2>2 DEF KeysKept
<1>4. ASSUME NEW t \in Tasks, Insert(t)
      PROVE  OwnKeys'
  <2>1. /\ DOMAIN rows = 1 .. Len(rows) /\ Len(rows) \in Nat
        /\ DOMAIN rows' = 1 .. Len(rows) + 1
        /\ ActiveRows' = ActiveRows \cup {Len(rows) + 1}
        /\ \A i \in DOMAIN rows : rows'[i] = rows[i]
        /\ rows'[Len(rows) + 1].key = task[t].key /\ rows'[Len(rows) + 1].token = 0
        /\ task[t].pc = "insert" /\ UNCHANGED tokens
        /\ task'[t].pc \in {"idle", "refind"}
        /\ task'[t].key = task[t].key /\ task'[t].token = task[t].token
        /\ \A u \in Tasks \ {t} : task'[u] = task[u]
        /\ \A u \in Tasks : task[u].pc \in {"idle", "deactivate", "insert"}
    BY <1>0, <1>4, InsertMeans
  <2>2. ActiveRows' = {Len(rows) + 1} /\ rows' # <<>>
    BY <1>0, <1>4, <2>1
  <2>3. TaskKeys(t)'
    BY <1>0, <1>4, <2>1, <2>2 DEF TaskKeys, HandKey, LooksKey, StoreKey
  <2>4. \A u \in Tasks \ {t} : TaskKeys(u)'
    BY <1>0, <2>1 DEF TaskKeys, HandKey, LooksKey, StoreKey
  <2>5. RowKeys'
    <3>1. \A i \in DOMAIN rows' : i \in DOMAIN rows \/ i = Len(rows) + 1
      BY <2>1
    <3> QED
      BY <1>0, <2>1, <3>1 DEF RowKeys
  <2> QED
    BY <2>3, <2>4, <2>5 DEF OwnKeys
<1>5. ASSUME NEW t \in Tasks, FindRow(t)
      PROVE  OwnKeys'
  <2>1. /\ UNCHANGED <<rows, tokens>> /\ task[t].pc = "find"
        /\ \A u \in Tasks \ {t} : task'[u] = task[u]
        /\ task'[t].token = task[t].token
        /\ \/ /\ task'[t].pc = "store" /\ task'[t].row \in ActiveRows
              /\ task'[t].key = task[t].key
           \/ /\ task'[t].pc \in {"deactivate", "report"} /\ task'[t].key = EnvKey
              /\ rows = <<>>
    BY <1>0, <1>5, FindMeans
  <2>2. HandKey(t) /\ LooksKey(t)
    BY <1>0, <1>5 DEF TaskKeys
  <2>3. TaskKeys(t)'
    BY <2>1, <2>2 DEF TaskKeys, HandKey, LooksKey, StoreKey
  <2> QED
    BY <1>2, <1>5, <2>1, <2>3
<1>6. ASSUME NEW t \in Tasks, FindAgain(t)
      PROVE  OwnKeys'
  <2>1. /\ UNCHANGED <<rows, tokens>> /\ task[t].pc = "refind"
        /\ \A u \in Tasks \ {t} : task'[u] = task[u]
        /\ task'[t].token = task[t].token /\ task'[t].key = task[t].key
        /\ \/ task'[t].pc = "store" /\ task'[t].row \in ActiveRows
           \/ task'[t].pc = "report"
    BY <1>0, <1>6, FindAgainMeans
  <2>2. HandKey(t) /\ LooksKey(t)
    BY <1>0, <1>6 DEF TaskKeys
  <2>3. TaskKeys(t)'
    BY <2>1, <2>2 DEF TaskKeys, HandKey, LooksKey, StoreKey
  <2> QED
    BY <1>2, <1>6, <2>1, <2>3
<1>7. ASSUME NEW t \in Tasks, StoreToken(t)
      PROVE  OwnKeys'
  <2>1. /\ DOMAIN rows' = DOMAIN rows /\ ActiveRows' = ActiveRows
        /\ task[t].row \in DOMAIN rows
        /\ \A i \in DOMAIN rows :
             /\ rows'[i].key = rows[i].key
             /\ rows'[i].token = IF i = task[t].row THEN task[t].token ELSE rows[i].token
        /\ task[t].pc = "store" /\ task'[t].pc = "report" /\ UNCHANGED tokens
        /\ task'[t].key = task[t].key /\ task'[t].token = task[t].token
        /\ \A u \in Tasks \ {t} : task'[u] = task[u]
    BY <1>0, <1>7, StoreMeans
  <2>2. HandKey(t) /\ StoreKey(t)
    BY <1>0, <1>7 DEF TaskKeys
  <2>3. TaskKeys(t)'
    BY <2>1, <2>2 DEF TaskKeys, HandKey, LooksKey, StoreKey
  <2>4. \A u \in Tasks \ {t} : TaskKeys(u)'
    BY <1>0, <2>1, TaskKeysKept DEF KeysKept
  <2>5. RowKeys'
    BY <1>0, <2>1, <2>2 DEF RowKeys, HandKey, StoreKey
  <2> QED
    BY <2>3, <2>4, <2>5 DEF OwnKeys
<1>8. ASSUME NEW t \in Tasks, FetchToken(t)
      PROVE  OwnKeys'
  <2>1. /\ UNCHANGED rows /\ task[t].pc \in {"fetch", "login"}
        /\ \A u \in Tasks \ {t} : task'[u] = task[u]
        /\ task'[t].key = task[t].key /\ task'[t].pc \in {"find", "check"}
        /\ task'[t].token = Len(tokens) + 1
        /\ tokens'[Len(tokens) + 1].key = task[t].key
    BY <1>0, <1>8, FetchMeans
  <2>2. LooksKey(t)
    BY <1>0, <1>8 DEF TaskKeys
  <2>3. TaskKeys(t)'
    BY <2>1, <2>2 DEF TaskKeys, HandKey, LooksKey, StoreKey, ActiveRows
  <2> QED
    BY <1>2, <1>8, <2>1, <2>3
<1>9. CASE UNCHANGED <<rows, task>>
  BY <1>1, <1>9 DEF KeysKept, ActiveRows
<1>10. ASSUME NEW r \in Requests, ClearToken(r)
       PROVE  OwnKeys'
  <2>1. /\ KeysKept /\ ActiveRows' = ActiveRows /\ UNCHANGED task
        /\ \A i \in DOMAIN rows : rows'[i].token \in {0, rows[i].token}
    BY <1>0, <1>10, ClearMeans DEF KeysKept
  <2> QED
    BY <1>1, <2>1
<1>11. ASSUME NEW t \in Tasks, UNCHANGED rows, Resets(t)
       PROVE  OwnKeys'
  <2>1. TaskKeys(t)' /\ \A u \in Tasks \ {t} : task'[u] = task[u]
    BY <1>0, <1>11, ResetMeans DEF TaskKeys, HandKey, LooksKey, StoreKey
  <2> QED
    BY <1>2, <1>11, <2>1
<1>12. ASSUME NEW t \in Tasks, UNCHANGED rows, NEW i \in DOMAIN rows \cup {0}, Asks(t, i)
       PROVE  OwnKeys'
  <2>1. /\ task'[t].token = 0 /\ task'[t].pc \in {"fetch", "login"}
        /\ task'[t].key = IF i = 0 THEN EnvKey ELSE rows[i].key
        /\ \A u \in Tasks \ {t} : task'[u] = task[u]
    BY <1>0, <1>12 DEF Asks, EmptyHand
  <2>2. \A j \in ActiveRows' : rows'[j].key = task'[t].key
    <3>1. ActiveRows' = ActiveRows /\ rows' = rows /\ Found(i)
      BY <1>12 DEF ActiveRows, Asks
    <3>2. ActiveRows \subseteq {i} /\ (i = 0 => ActiveRows = {})
      BY <1>0, <3>1, SeqFacts DEF Found, ActiveRows
    <3> QED
      BY <2>1, <3>1, <3>2
  <2>3. rows' = <<>> => task'[t].key = EnvKey
    BY <1>12, <2>1, EmptySeq
  <2>4. TaskKeys(t)'
    BY <2>1, <2>2, <2>3 DEF TaskKeys, HandKey, LooksKey, StoreKey
  <2> QED
    BY <1>2, <1>12, <2>1, <2>4
<1>13. ASSUME NEW a \in Admins, NEW k \in Keys, SaveSettings(a, k) \/ TestConnection(a, k)
       PROVE  OwnKeys'
  <2>1. /\ UNCHANGED rows /\ task'[a].token = 0 /\ task'[a].key = k
        /\ \A u \in Tasks \ {a} : task'[u] = task[u]
        /\ \/ task'[a].pc = "deactivate"
           \/ /\ task'[a].pc = "fetch"
              /\ ActiveRows # {} /\ \A i \in ActiveRows : rows[i].key = k
    BY <1>0, <1>13, AdminStarts
  <2>2. ActiveRows # {} => rows # <<>>
    BY EmptySeq DEF ActiveRows
  <2>3. TaskKeys(a)'
    BY <2>1, <2>2 DEF TaskKeys, HandKey, LooksKey, StoreKey, ActiveRows
  <2> QED
    BY <1>2, <2>1, <2>3, TaskFacts
<1>14. ASSUME NEW a \in Admins, CheckSettings(a)
       PROVE  OwnKeys'
  <2>1. /\ UNCHANGED <<rows, tokens>> /\ task[a].pc = "check"
        /\ task'[a].pc \in {"report", "find"}
        /\ task'[a].token = task[a].token /\ task'[a].key = task[a].key
        /\ \A u \in Tasks \ {a} : task'[u] = task[u]
    BY <1>0, <1>14, CheckMeans
  <2>2. TaskKeys(a) /\ a \in Tasks
    BY <1>0, TaskFacts
  <2>3. TaskKeys(a)'
    BY <2>1, <2>2 DEF TaskKeys, HandKey, LooksKey, StoreKey, ActiveRows
  <2> QED
    BY <1>2, <2>1, <2>2, <2>3
<1>15. ASSUME NEW t \in Tasks, SaveSteps(t)
       PROVE  OwnKeys'
  BY <1>3, <1>4, <1>5, <1>6, <1>7, <1>8, <1>15 DEF SaveSteps
<1> QED
  BY <1>0, <1>9, <1>10, <1>11, <1>12, <1>13, <1>14, <1>15, Moves

(* Every step keeps the invariant.                                         *)
LEMMA NextKeys == KeyInv /\ [Next]_vars => KeyInv'
<1> SUFFICES ASSUME KeyInv, [Next]_vars
             PROVE  KeyInv'
  OBVIOUS
<1>1. SaveInv'
  BY NextSave DEF KeyInv
<1>2. CASE UNCHANGED vars
  BY <1>1, <1>2 DEF vars, KeyInv, OwnKeys, RowKeys, TaskKeys, HandKey, LooksKey, StoreKey,
     ActiveRows
<1>3. CASE Next
  BY <1>1, <1>3, KeysStep DEF KeyInv
<1> QED
  BY <1>2, <1>3

(* connection-settings.service.ts saveAccessToken, performTokenRefresh:    *)
(* the token of a settings document was issued for its key, unless the     *)
(* settings changed under a token under way, a save was caught between its *)
(* steps, or an admin tested other credentials than the active ones.       *)
THEOREM OwnToken == Spec => []TokenOfItsKey
<1>1. KeyInv => TokenOfItsKey
  BY DEF KeyInv, OwnKeys, KeyHarm, RowKeys, TokenOfItsKey
<1> QED
  BY <1>1, InitKeys, NextKeys, PTL DEF Spec

-----------------------------------------------------------------------------
(* Authentication errors: one withdrawn token is replaced unseen           *)

AuthHarm == {"refreshFailed", "noCredentials", "slow", "revokedEarly", "crossed", "overlap"}

(* No cause of an error so far, and at most one token withdrawn.           *)
Calm == causes \cap AuthHarm = {} /\ \A m, n \in Revoked : m = n

(* What a task has in hand is accepted by the ERP.                         *)
HandsValid == \A t \in Tasks : task[t].token \notin Revoked

(* When the refresh ends, the active settings hold its token or none.      *)
StoredValid ==
  /\ task["refresh"].pc = "report" =>
       \A i \in ActiveRows : rows[i].token \in {0, task["refresh"].token}
  /\ task["refresh"].pc = "store" =>
       \A i \in ActiveRows : i # task["refresh"].row => rows[i].token = 0

(* After a second try the withdrawn token is out of the settings.          *)
RetryValid ==
  (\E r \in Requests : req[r].authRetried) =>
    Revoked # {} /\ \A i \in ActiveRows : rows[i].token \notin Revoked

RequestCalm(r) ==
  /\ req[r].pc \notin {"invalidate", "marking", "authError"}
  /\ req[r].pc = "go" => req[r].token # 0
  /\ req[r].pc = "refreshing" => Revoked # {}
  /\ req[r].authRetried /\ req[r].pc \in {"read", "waiting", "go"} => req[r].token \notin Revoked

AuthCalm ==
  Calm => HandsValid /\ StoredValid /\ RetryValid /\ \A r \in Requests : RequestCalm(r)

AuthInv == SaveInv /\ TokenInv /\ AuthCalm

(* The withdrawn tokens are tokens, and only the ERP adds one.             *)
LEMMA RevokedMove ==
  ASSUME TypeOK, Next
  PROVE  /\ 0 \notin Revoked /\ Len(tokens) + 1 \notin Revoked
         /\ \/ Revoked' = Revoked
            \/ \E n \in DOMAIN tokens : Revoke(n)
<1>0. DOMAIN tokens = 1 .. Len(tokens) /\ Len(tokens) \in Nat
  BY SeqFacts
<1>1. 0 \notin Revoked /\ Len(tokens) + 1 \notin Revoked
  BY <1>0 DEF Revoked
<1>2. CASE UNCHANGED tokens
  BY <1>1, <1>2 DEF Revoked
<1>3. ASSUME NEW t \in Tasks, FetchToken(t)
      PROVE  Revoked' = Revoked
  <2>1. /\ Len(tokens') = Len(tokens) + 1
        /\ \A n \in 1 .. Len(tokens) : tokens'[n] = tokens[n]
        /\ tokens'[Len(tokens) + 1].revoked = FALSE
    BY <1>3, FetchMeans
  <2>2. DOMAIN tokens' = 1 .. Len(tokens) + 1
    BY <2>1, TokensGrow, LenProperties DEF Grown
  <2>3. \A n : n \in Revoked' <=> n \in Revoked
    <3>1. \A n : n \in 1 .. Len(tokens) + 1 <=> n \in 1 .. Len(tokens) \/ n = Len(tokens) + 1
      BY <1>0
    <3> QED
      BY <1>0, <2>1, <2>2, <3>1 DEF Revoked
  <2> QED
    BY <2>3
<1> QED
  BY <1>1, <1>2, <1>3, TokensMove

(* While there is no cause, there was none.                                *)
LEMMA CalmBefore ==
  ASSUME TypeOK, Next, Calm'
  PROVE  Calm /\ causes' \cap AuthHarm = {}
<1>1. Revoked \subseteq Revoked'
  BY RevokedMove, RevokeMeans
<1> QED
  BY <1>1, CausesGrow DEF Calm

(* A first withdrawal: whoever had tried twice would make it the second.   *)
LEMMA FirstRevoked ==
  ASSUME TypeOK, Calm', NEW n \in DOMAIN tokens, Revoke(n)
  PROVE  Revoked = {} /\ Revoked' = {n}
<1>1. n \notin Revoked /\ Revoked' = Revoked \cup {n}
  BY RevokeMeans
<1>2. \A i, j \in Revoked' : i = j
  BY DEF Calm
<1> QED
  BY <1>1, <1>2

(* Tokens in hand are not withdrawn: a new one is valid, and the loss of   *)
(* one under way is the cause "revokedEarly".                              *)
LEMMA HandsStayValid ==
  ASSUME TypeOK, Refs, HandsValid, Next, Calm'
  PROVE  HandsValid'
<1> SUFFICES ASSUME NEW t \in Tasks
             PROVE  task'[t].token \notin Revoked'
  BY DEF HandsValid
<1>1. task[t].token \notin Revoked /\ 0 \notin Revoked /\ Len(tokens) + 1 \notin Revoked
  BY RevokedMove DEF HandsValid
<1>2. CASE Tick
  BY <1>1, <1>2 DEF Tick, Revoked
<1>3. ASSUME NEW u \in Tasks, FetchToken(u)
      PROVE  task'[t].token \notin Revoked'
  <2>1. ~\E n \in DOMAIN tokens : Revoke(n)
    <3> SUFFICES ASSUME NEW n \in DOMAIN tokens, Revoke(n)
                 PROVE  FALSE
      OBVIOUS
    <3>1. UNCHANGED task /\ task'[u].token = Len(tokens) + 1 /\ task'[u].pc \in {"find", "check"}
          /\ task[u].pc \in {"fetch", "login"}
      BY <1>3, RevokeMeans, FetchMeans
    <3> QED
      BY <3>1
  <2>2. Revoked' = Revoked
    BY <2>1, RevokedMove
  <2>3. task'[t].token \in {task[t].token, Len(tokens) + 1}
    BY <1>3, FetchMeans
  <2> QED
    BY <1>1, <2>2, <2>3
<1>4. CASE task'[t].token \in {0, task[t].token}
  <2>1. ASSUME NEW n \in DOMAIN tokens, Revoke(n)
        PROVE  task'[t].token \notin Revoked'
    <3>1. "revokedEarly" \notin causes'
      BY CalmBefore DEF AuthHarm
    <3>2. task[t].token # n /\ Revoked' = Revoked \cup {n} /\ n # 0
      BY <2>1, <3>1, RevokeMeans, SeqFacts
    <3> QED
      BY <1>1, <1>4, <3>2
  <2> QED
    BY <1>1, <1>4, <2>1, RevokedMove
<1> QED
  BY <1>2, <1>3, <1>4, TaskMoves

(* Every token of an active document was there before.                     *)
NoNewToken ==
  \A i \in ActiveRows' :
    \/ i \in ActiveRows /\ rows'[i].token = rows[i].token
    \/ rows'[i].token = 0

(* The refresh stores its token where callers find it, and an admin who    *)
(* stores another meanwhile is the cause "crossed".                        *)
LEMMA StoredStaysValid ==
  ASSUME SaveInv, StoredValid, Next, Calm'
  PROVE  StoredValid'
<1>0. /\ TypeOK /\ Refs /\ \A i, j \in ActiveRows : i = j
      /\ causes' \cap AuthHarm = {} /\ "refresh" \in Tasks
  <2>1. "overlap" \notin causes
    BY CalmBefore DEF SaveInv, Calm, AuthHarm
  <2> QED
    BY <2>1, CalmBefore, TaskFacts DEF SaveInv, OneSave
<1>1. ASSUME task'["refresh"] = task["refresh"],
             NoNewToken
      PROVE  StoredValid'
  BY <1>1 DEF StoredValid, NoNewToken
<1>2. ASSUME UNCHANGED rows, task'["refresh"].pc \notin {"report", "store"}
      PROVE  StoredValid'
  BY <1>2 DEF StoredValid
<1>3. ASSUME NEW t \in Tasks, Deactivate(t)
      PROVE  StoredValid'
  <2>1. ActiveRows' = {}
    BY <1>0, <1>3, DeactivateMeans
  <2> QED
    BY <2>1 DEF StoredValid
<1>4. ASSUME NEW t \in Tasks, Insert(t)
      PROVE  StoredValid'
  <2>1. /\ ActiveRows' = ActiveRows \cup {Len(rows) + 1}
        /\ \A i \in DOMAIN rows : rows'[i] = rows[i]
        /\ rows'[Len(rows) + 1].token = 0
        /\ task'[t].pc \in {"idle", "refind"}
        /\ \A u \in Tasks \ {t} : task'[u] = task[u]
    BY <1>0, <1>4, InsertMeans
  <2>2. NoNewToken
    <3>1. \A i \in ActiveRows : i \in DOMAIN rows
      BY DEF ActiveRows
    <3> QED
      BY <2>1, <3>1 DEF NoNewToken
  <2>3. CASE t = "refresh"
    BY <2>1, <2>3 DEF StoredValid
  <2> QED
    BY <1>0, <1>1, <2>1, <2>2, <2>3
<1>5. ASSUME NEW t \in Tasks, FindRow(t) \/ FindAgain(t)
      PROVE  StoredValid'
  <2>1. /\ UNCHANGED rows /\ \A u \in Tasks \ {t} : task'[u] = task[u]
        /\ \/ task'[t].pc = "store" /\ task'[t].row \in ActiveRows
           \/ task'[t].pc \in {"deactivate", "report"} /\ ActiveRows = {}
    BY <1>0, <1>5, FindMeans, FindAgainMeans
  <2>2. ActiveRows' = ActiveRows
    BY <2>1 DEF ActiveRows
  <2>3. CASE t = "refresh"
    BY <1>0, <2>1, <2>2, <2>3 DEF StoredValid
  <2>4. CASE t # "refresh"
    BY <1>0, <1>1, <2>1, <2>2, <2>4 DEF NoNewToken
  <2> QED
    BY <2>3, <2>4
<1>6. ASSUME NEW t \in Tasks, StoreToken(t)
      PROVE  StoredValid'
  <2>1. /\ DOMAIN rows' = DOMAIN rows /\ ActiveRows' = ActiveRows
        /\ \A i \in DOMAIN rows :
             rows'[i].token = IF i = task[t].row THEN task[t].token ELSE rows[i].token
        /\ task[t].pc = "store" /\ task'[t].pc = "report"
        /\ task'[t].token = task[t].token
        /\ \A u \in Tasks \ {t} : task'[u] = task[u]
    BY <1>0, <1>6, StoreMeans
  <2>2. CASE t = "refresh"
    <3>1. \A i \in ActiveRows : i \in DOMAIN rows
      BY DEF ActiveRows
    <3> QED
      BY <2>1, <2>2, <3>1 DEF StoredValid
  <2>3. CASE t # "refresh"
    <3>1. task["refresh"].token = 0
      BY <1>0, <1>6, <2>3 DEF StoreToken, AuthHarm
    <3>2. task'["refresh"].pc \notin {"report", "store"}
      BY <1>0, <2>1, <2>3, <3>1 DEF Refs, TaskRefs, Holding
    <3> QED
      BY <3>2 DEF StoredValid
  <2> QED
    BY <2>2, <2>3
<1>7. ASSUME NEW t \in Tasks, UNCHANGED rows,
             \A u \in Tasks \ {t} : task'[u] = task[u],
             t # "refresh" \/ task'[t].pc \notin {"report", "store"}
      PROVE  StoredValid'
  <2>1. CASE t = "refresh"
    BY <1>2, <1>7, <2>1
  <2>2. CASE t # "refresh"
    BY <1>0, <1>1, <1>7, <2>2 DEF NoNewToken, ActiveRows
  <2> QED
    BY <2>1, <2>2
<1>8. ASSUME NEW t \in Tasks, FetchToken(t)
      PROVE  StoredValid'
  <2>1. /\ UNCHANGED rows /\ \A u \in Tasks \ {t} : task'[u] = task[u]
        /\ task'[t].pc \notin {"report", "store"}
    BY <1>0, <1>8, FetchMeans
  <2> QED
    BY <1>7, <1>8, <2>1
<1>9. CASE UNCHANGED <<rows, task>>
  BY <1>1, <1>9 DEF NoNewToken, ActiveRows
<1>10. ASSUME NEW r \in Requests, ClearToken(r)
       PROVE  StoredValid'
  <2>1. /\ ActiveRows' = ActiveRows /\ UNCHANGED task
        /\ \A i \in DOMAIN rows : rows'[i].token \in {0, rows[i].token}
    BY <1>0, <1>10, ClearMeans
  <2>2. \A i \in ActiveRows : i \in DOMAIN rows
    BY DEF ActiveRows
  <2> QED
    BY <1>1, <2>1, <2>2 DEF NoNewToken
<1>11. ASSUME NEW t \in Tasks, UNCHANGED rows,
              Resets(t) \/ \E i \in DOMAIN rows \cup {0} : Asks(t, i)
       PROVE  StoredValid'
  <2>1. /\ \A u \in Tasks \ {t} : task'[u] = task[u]
        /\ task'[t].pc \notin {"report", "store"}
    BY <1>0, <1>11, ResetMeans DEF Asks
  <2> QED
    BY <1>7, <1>11, <2>1
<1>12. ASSUME NEW a \in Admins,
              \/ \E k \in Keys : SaveSettings(a, k) \/ TestConnection(a, k)
              \/ CheckSettings(a)
       PROVE  StoredValid'
  <2>1. UNCHANGED rows /\ \A u \in Tasks \ {a} : task'[u] = task[u]
    BY <1>0, <1>12, AdminStarts, CheckMeans
  <2> QED
    BY <1>7, <2>1, TaskFacts
<1>13. ASSUME NEW t \in Tasks, SaveSteps(t)
       PROVE  StoredValid'
  BY <1>3, <1>4, <1>5, <1>6, <1>8, <1>13 DEF SaveSteps
<1> QED
  BY <1>0, <1>9, <1>10, <1>11, <1>12, <1>13, Moves

(* Every step is one of these for the requests.                            *)
LEMMA RequestKinds ==
  ASSUME Next
  PROVE  \/ UNCHANGED req
         \/ \E r \in Requests : (Begin(r) \/ RequestStep(r)) /\ UNCHANGED tokens
         \/ RefreshDone
         \/ causes' \cap AuthHarm # {}
<1>1. ASSUME NEW t \in Tasks, SaveSteps(t)
      PROVE  UNCHANGED req
  BY <1>1 DEF SaveSteps, Deactivate, Insert, FindRow, FindAgain, StoreToken, FetchToken
<1>2. CASE Refresh \/ ManualRefresh
  BY <1>1, <1>2, TaskFacts DEF Refresh, ManualRefresh, RefreshSettings, RefreshFails, AuthHarm
<1>3. ASSUME NEW a \in Admins, Admin(a)
      PROVE  UNCHANGED req
  BY <1>1, <1>3, TaskFacts DEF Admin, SaveSettings, TestConnection, Login, CheckSettings, AdminEnds
<1>4. ASSUME NEW r \in Requests, Begin(r) \/ RequestStep(r)
      PROVE  UNCHANGED tokens
  BY <1>4 DEF RequestStep, Begin, TakeSlot, DecideToken, Answered, Unauthorized, Busy,
     Fails, MarkInvalid, ClearToken
<1>5. CASE Tick \/ \E n \in DOMAIN tokens : Revoke(n)
  BY <1>5 DEF Tick, Revoke
<1> QED
  BY <1>2, <1>3, <1>4, <1>5 DEF Next

(* Settling keeps a caller calm: who waited gets a token, who saw a 401    *)
(* tries again.                                                            *)
LEMMA SettledCalm ==
  ASSUME TypeOK, RefreshDone, HandsValid, NEW r \in Requests, RequestCalm(r),
         task["refresh"].token # 0
  PROVE  /\ RequestCalm(r)' /\ Revoked' = Revoked
         /\ req'[r].authRetried => req[r].authRetried \/ req[r].pc = "refreshing"
<1> DEFINE n == task["refresh"].token
<1>1. /\ req'[r] = Settled(req[r], n) /\ n \notin Revoked /\ n # 0
      /\ Revoked' = Revoked /\ req[r] \in Request
  BY TaskFacts DEF RefreshDone, SettleRefresh, HandsValid, Revoked, TypeOK
<1> HIDE DEF n
<1>2. CASE req[r].pc = "waiting"
  <2>1. req'[r] = [req[r] EXCEPT !.pc = "go", !.token = n]
    BY <1>1, <1>2 DEF Settled
  <2>2. req'[r].pc = "go" /\ req'[r].token = n /\ req'[r].authRetried = req[r].authRetried
    BY <1>1, <2>1 DEF Request
  <2> QED
    BY <1>1, <2>2 DEF RequestCalm
<1>3. CASE req[r].pc = "refreshing"
  <2>1. req'[r] = [req[r] EXCEPT !.pc = "queued", !.authRetried = TRUE, !.attempt = 0]
    BY <1>1, <1>3 DEF Settled
  <2>2. req'[r].pc = "queued"
    BY <1>1, <2>1 DEF Request
  <2> QED
    BY <1>1, <1>3, <2>2 DEF RequestCalm
<1>4. CASE req[r].pc \notin {"waiting", "refreshing"}
  <2>1. req'[r] = req[r]
    BY <1>1, <1>4 DEF Settled
  <2> QED
    BY <1>1, <2>1 DEF RequestCalm
<1> QED
  BY <1>2, <1>3, <1>4

(* The step of a request keeps it calm: its token has not expired, so a    *)
(* 401 means that the ERP withdrew it, and that the first try only.        *)
LEMMA RequestStaysCalm ==
  ASSUME TypeOK, Refs, Fresh, RetryValid, NEW r \in Requests, RequestCalm(r),
         Begin(r) \/ RequestStep(r), UNCHANGED tokens
  PROVE  /\ RequestCalm(r)' /\ Revoked' = Revoked
         /\ req'[r].authRetried => req[r].authRetried
         /\ \A p \in Requests \ {r} : req'[p] = req[p]
         /\ UNCHANGED rows
<1>0. /\ req \in [Requests -> Request] /\ req[r] \in Request
      /\ DOMAIN tokens = 1 .. Len(tokens) /\ DOMAIN rows = 1 .. Len(rows)
      /\ req[r].pc \notin {"invalidate", "marking", "authError"}
      /\ req[r].token \in 0 .. Len(tokens) /\ 0 \notin Revoked /\ Revoked' = Revoked
  BY SeqFacts DEF TypeOK, Refs, RequestCalm, Revoked
<1>n. ASSUME NEW point \in {"ok", "failed"}, Ends(r, point)
      PROVE  /\ req'[r].pc = point /\ req'[r].authRetried = FALSE
             /\ \A p \in Requests \ {r} : req'[p] = req[p]
  BY <1>0, <1>n DEF Ends, NewRequest
<1>p. ASSUME NEW point \in RequestPoints, req' = [req EXCEPT ![r].pc = point]
      PROVE  /\ req'[r].pc = point /\ req'[r].authRetried = req[r].authRetried
             /\ req'[r].token = req[r].token
             /\ \A p \in Requests \ {r} : req'[p] = req[p]
  BY <1>0, <1>p DEF Request
<1>w. {"queued", "go", "waiting", "refreshing", "invalidate"} \subseteq RequestPoints
  BY DEF RequestPoints
<1>1. CASE Begin(r)
  BY <1>0, <1>1, <1>p, <1>w DEF Begin, RequestCalm
<1>2. CASE TakeSlot(r)
  <2>1. PICK i \in DOMAIN rows \cup {0} :
          /\ Found(i)
          /\ req' = [req EXCEPT
               ![r].pc = "read", ![r].row = i,
               ![r].token     = IF i = 0 THEN 0 ELSE rows[i].token,
               ![r].expiresAt = IF i = 0 THEN Undefined ELSE rows[i].expiresAt]
    BY <1>2 DEF TakeSlot
  <2>2. /\ req'[r].pc = "read" /\ req'[r].authRetried = req[r].authRetried
        /\ req'[r].token = IF i = 0 THEN 0 ELSE rows[i].token
        /\ \A p \in Requests \ {r} : req'[p] = req[p]
    BY <1>0, <2>1 DEF Request
  <2>3. req[r].authRetried => req'[r].token \notin Revoked
    BY <1>0, <2>1, <2>2 DEF RetryValid, Found
  <2> QED
    BY <1>0, <1>2, <2>2, <2>3 DEF RequestCalm, TakeSlot
<1>3. CASE DecideToken(r)
  <2>1. /\ UNCHANGED rows /\ req[r].pc = "read"
        /\ \/ req' = [req EXCEPT ![r].pc = "go"] /\ req[r].token # 0
           \/ req' = [req EXCEPT ![r].pc = "waiting"]
    BY <1>3 DEF DecideToken
  <2>2. /\ req'[r].pc \in {"go", "waiting"} /\ req'[r].authRetried = req[r].authRetried
        /\ req'[r].token = req[r].token /\ (req'[r].pc = "go" => req[r].token # 0)
        /\ \A p \in Requests \ {r} : req'[p] = req[p]
    BY <1>p, <1>w, <2>1
  <2> QED
    BY <1>0, <2>1, <2>2 DEF RequestCalm
<1>4. CASE Answered(r) \/ Fails(r)
  <2>1. /\ req'[r].pc \in {"ok", "failed"} /\ req'[r].authRetried = FALSE
        /\ \A p \in Requests \ {r} : req'[p] = req[p]
        /\ UNCHANGED rows
    BY <1>4, <1>n DEF Answered, Fails
  <2> QED
    BY <1>0, <2>1 DEF RequestCalm
<1>5. CASE Unauthorized(r)
  <2>1. req[r].pc = "go" /\ ~Accepted(req[r].token) /\ UNCHANGED rows
    BY <1>5 DEF Unauthorized
  <2>2. req[r].token # 0 /\ req[r].token \in DOMAIN tokens
    BY <1>0, <2>1, SeqFacts DEF RequestCalm
  <2>3. now < Expires(req[r].token)
    BY <2>1, <2>2 DEF Fresh, RequestFresh, Lasts, Expires
  <2>4. req[r].token \in Revoked
    BY <2>1, <2>2, <2>3 DEF Accepted, Revoked
  <2>5. ~req[r].authRetried
    BY <2>1, <2>4 DEF RequestCalm
  <2>6. req' = [req EXCEPT ![r].pc = "refreshing"]
    BY <1>5, <2>5 DEF Unauthorized
  <2>7. /\ req'[r].pc = "refreshing" /\ req'[r].authRetried = req[r].authRetried
        /\ \A p \in Requests \ {r} : req'[p] = req[p]
    BY <1>p, <1>w, <2>6
  <2> QED
    BY <1>0, <2>1, <2>4, <2>5, <2>7 DEF RequestCalm
<1>6. CASE Busy(r)
  <2>1. /\ req'[r].pc = "queued" /\ req'[r].authRetried = req[r].authRetried
        /\ \A p \in Requests \ {r} : req'[p] = req[p]
        /\ UNCHANGED rows
    BY <1>0, <1>6 DEF Busy, Request
  <2> QED
    BY <1>0, <2>1 DEF RequestCalm
<1>7. CASE MarkInvalid(r) \/ ClearToken(r)
  BY <1>0, <1>7 DEF MarkInvalid, ClearToken
<1> QED
  BY <1>1, <1>2, <1>3, <1>4, <1>5, <1>6, <1>7 DEF RequestStep

(* No step puts a withdrawn token into the active settings.                *)
LEMMA RowsStayValid ==
  ASSUME TypeOK, Refs, HandsValid, \A i \in ActiveRows : rows[i].token \notin Revoked,
         Next, Revoked' = Revoked
  PROVE  \A i \in ActiveRows' : rows'[i].token \notin Revoked'
<1>0. 0 \notin Revoked /\ \A i \in ActiveRows : i \in DOMAIN rows
  BY RevokedMove DEF ActiveRows
<1>1. CASE UNCHANGED rows
  BY <1>1 DEF ActiveRows
<1>2. CASE \E r \in Requests : ClearToken(r)
  <2>1. ActiveRows' = ActiveRows /\ \A i \in DOMAIN rows : rows'[i].token \in {0, rows[i].token}
    BY <1>2, ClearMeans
  <2> QED
    BY <1>0, <2>1
<1>3. ASSUME NEW t \in Tasks, Deactivate(t)
      PROVE  ActiveRows' = {}
  BY <1>3, DeactivateMeans
<1>4. ASSUME NEW t \in Tasks, Insert(t)
      PROVE  \A i \in ActiveRows' : rows'[i].token \notin Revoked'
  <2>1. /\ ActiveRows' = ActiveRows \cup {Len(rows) + 1}
        /\ \A i \in DOMAIN rows : rows'[i] = rows[i]
        /\ rows'[Len(rows) + 1].token = 0
    BY <1>4, InsertMeans
  <2> QED
    BY <1>0, <2>1
<1>5. ASSUME NEW t \in Tasks, StoreToken(t)
      PROVE  \A i \in ActiveRows' : rows'[i].token \notin Revoked'
  <2>1. /\ ActiveRows' = ActiveRows
        /\ \A i \in DOMAIN rows :
             rows'[i].token = IF i = task[t].row THEN task[t].token ELSE rows[i].token
    BY <1>5, StoreMeans
  <2>2. task[t].token \notin Revoked
    BY <1>5 DEF HandsValid
  <2> QED
    BY <1>0, <2>1, <2>2
<1>6. ASSUME NEW t \in Tasks, SaveSteps(t)
      PROVE  UNCHANGED rows \/ Deactivate(t) \/ Insert(t) \/ StoreToken(t)
  BY <1>6, FindMeans, FindAgainMeans, FetchMeans DEF SaveSteps
<1>7. ASSUME NEW a \in Admins,
             \/ \E k \in Keys : SaveSettings(a, k) \/ TestConnection(a, k)
             \/ CheckSettings(a)
      PROVE  UNCHANGED rows
  BY <1>7, AdminStarts, CheckMeans
<1> QED
  BY <1>1, <1>2, <1>3, <1>4, <1>5, <1>6, <1>7, Moves

(* Everything is calm, and the step adds no cause.                         *)
AllCalm ==
  /\ SaveInv /\ Fresh /\ HandsValid /\ StoredValid /\ RetryValid
  /\ \A r \in Requests : RequestCalm(r)

(* The refresh reports a token.                                            *)
LEMMA DoneHasToken ==
  ASSUME TypeOK, Refs, RefreshDone
  PROVE  task["refresh"].token # 0 /\ UNCHANGED <<rows, tokens>>
  BY TaskFacts DEF RefreshDone, Refs, TaskRefs, Holding

(* After a second try the settings hold no withdrawn token: the refresh    *)
(* that allowed the try has stored its own.                                *)
LEMMA RetryStaysValid ==
  ASSUME AllCalm, Next, Calm'
  PROVE  RetryValid'
<1> SUFFICES ASSUME NEW r \in Requests, req'[r].authRetried
             PROVE  Revoked' # {} /\ \A i \in ActiveRows' : rows'[i].token \notin Revoked'
  BY DEF RetryValid
<1>0. TypeOK /\ Refs /\ causes' \cap AuthHarm = {}
  BY CalmBefore DEF AllCalm, SaveInv
<1>1. CASE \E p \in Requests : req[p].authRetried
  <2>1. Revoked # {} /\ \A i \in ActiveRows : rows[i].token \notin Revoked
    BY <1>1 DEF AllCalm, RetryValid
  <2>2. Revoked' = Revoked
    BY <1>0, <2>1, RevokedMove, FirstRevoked
  <2> QED
    BY <1>0, <2>1, <2>2, RowsStayValid DEF AllCalm
<1>2. CASE RefreshDone /\ req[r].pc = "refreshing"
  <2>1. task["refresh"].token # 0 /\ UNCHANGED <<rows, tokens>>
    BY <1>0, <1>2, DoneHasToken
  <2>2. Revoked' = Revoked /\ ActiveRows' = ActiveRows /\ 0 \notin Revoked
    BY <1>0, <2>1, RevokedMove DEF Revoked, ActiveRows
  <2>3. Revoked # {} /\ task["refresh"].token \notin Revoked
    BY <1>2, TaskFacts DEF AllCalm, RequestCalm, HandsValid
  <2>4. \A i \in ActiveRows : rows[i].token \in {0, task["refresh"].token}
    BY <1>2 DEF RefreshDone, AllCalm, StoredValid
  <2> QED
    BY <2>1, <2>2, <2>3, <2>4
<1>3. ASSUME RefreshDone
      PROVE  req[r].authRetried \/ req[r].pc = "refreshing"
  BY <1>0, <1>3, DoneHasToken, SettledCalm DEF AllCalm
<1>4. ASSUME NEW p \in Requests, Begin(p) \/ RequestStep(p), UNCHANGED tokens
      PROVE  req[r].authRetried
  <2>1. /\ req'[p].authRetried => req[p].authRetried
        /\ \A q \in Requests \ {p} : req'[q] = req[q]
    BY <1>0, <1>4, RequestStaysCalm DEF AllCalm
  <2> QED
    BY <2>1
<1> QED
  BY <1>0, <1>1, <1>2, <1>3, <1>4, RequestKinds

(* No request comes to an error.                                           *)
LEMMA RequestsStayCalm ==
  ASSUME AllCalm, Next, Calm', NEW r \in Requests
  PROVE  RequestCalm(r)'
<1>0. TypeOK /\ Refs /\ causes' \cap AuthHarm = {} /\ RequestCalm(r)
  BY CalmBefore DEF AllCalm, SaveInv
<1>1. ASSUME req'[r] = req[r], Revoked' = Revoked
      PROVE  RequestCalm(r)'
  BY <1>0, <1>1 DEF RequestCalm
<1>2. ASSUME NEW n \in DOMAIN tokens, Revoke(n)
      PROVE  RequestCalm(r)'
  <2>1. Revoked = {} /\ UNCHANGED req
    BY <1>0, <1>2, FirstRevoked, RevokeMeans
  <2>2. ~req[r].authRetried /\ req[r].pc # "refreshing"
    BY <1>0, <2>1 DEF AllCalm, RetryValid, RequestCalm
  <2> QED
    BY <1>0, <2>1, <2>2 DEF RequestCalm
<1>3. CASE UNCHANGED req
  BY <1>0, <1>1, <1>2, <1>3, RevokedMove
<1>4. ASSUME NEW p \in Requests, Begin(p) \/ RequestStep(p), UNCHANGED tokens
      PROVE  RequestCalm(r)'
  <2>1. /\ RequestCalm(p)' /\ Revoked' = Revoked
        /\ \A q \in Requests \ {p} : req'[q] = req[q]
    BY <1>0, <1>4, RequestStaysCalm DEF AllCalm
  <2> QED
    BY <1>1, <2>1
<1>5. CASE RefreshDone
  BY <1>0, <1>5, DoneHasToken, SettledCalm DEF AllCalm
<1> QED
  BY <1>0, <1>3, <1>4, <1>5, RequestKinds

(* At first nobody has tried anything.                                     *)
LEMMA InitAuth == Init => AuthInv
<1> SUFFICES ASSUME Init
             PROVE  AuthCalm
  BY InitSave, InitFresh DEF AuthInv
<1>1. Revoked = {}
  BY EmptySeq DEF Init, Revoked
<1>2. task["refresh"].pc = "idle"
  BY TaskFacts DEF Init, IdleTask
<1>3. \A r \in Requests : req[r].pc = "idle" /\ req[r].authRetried = FALSE
  BY DEF Init, NewRequest
<1> QED
  BY <1>1, <1>2, <1>3 DEF AuthCalm, HandsValid, StoredValid, RetryValid, RequestCalm

(* Every step keeps the invariant.                                         *)
LEMMA NextAuth == AuthInv /\ [Next]_vars => AuthInv'
<1> SUFFICES ASSUME AuthInv, [Next]_vars
             PROVE  AuthInv'
  OBVIOUS
<1>1. SaveInv' /\ TokenInv'
  BY NextSave, NextFresh DEF AuthInv
<1>2. CASE UNCHANGED vars
  BY <1>1, <1>2 DEF vars, AuthInv, AuthCalm, Calm, Revoked, ActiveRows, HandsValid,
     StoredValid, RetryValid, RequestCalm
<1>3. ASSUME Next, Calm'
      PROVE  HandsValid' /\ StoredValid' /\ RetryValid' /\ \A r \in Requests : RequestCalm(r)'
  <2>1. TypeOK /\ Refs /\ Calm
    BY <1>3, CalmBefore DEF AuthInv, SaveInv
  <2>2. AllCalm
    BY <2>1 DEF AuthInv, AuthCalm, TokenInv, AllCalm, Calm, AuthHarm
  <2>3. HandsValid' /\ StoredValid'
    BY <1>3, <2>1, <2>2, HandsStayValid, StoredStaysValid DEF AllCalm
  <2> QED
    BY <1>3, <2>2, <2>3, RetryStaysValid, RequestsStayCalm
<1> QED
  BY <1>1, <1>2, <1>3 DEF AuthInv, AuthCalm

(* At most one token withdrawn, counted or not.                            *)
LEMMA OneRevoked ==
  ASSUME TypeOK, ~(Cardinality(Revoked) > 1), NEW m \in Revoked, NEW n \in Revoked
  PROVE  m = n
<1> SUFFICES ASSUME m # n
             PROVE  FALSE
  OBVIOUS
<1>1. IsFiniteSet(Revoked)
  <2>1. Revoked \subseteq 1 .. Len(tokens) /\ Len(tokens) \in Nat
    BY SeqFacts DEF Revoked
  <2> QED
    <3>1. IsFiniteSet(1 .. Len(tokens))
      BY <2>1, FS_Interval
    <3> QED
      BY <2>1, <3>1, FS_Subset
<1>2. IsFiniteSet({m}) /\ Cardinality({m}) = 1
  BY FS_Singleton
<1>3. Cardinality({m} \cup {n}) = 2
  BY <1>2, FS_AddElement
<1>4. Cardinality({m} \cup {n}) <= Cardinality(Revoked)
  BY <1>1, FS_Subset
<1>5. Cardinality(Revoked) \in Nat
  BY <1>1, FS_CardinalityType
<1> QED
  BY <1>3, <1>4, <1>5

(* snelstart.client.ts: one expired or withdrawn token is replaced behind  *)
(* the caller's back; a caller sees an authentication error only after a   *)
(* failed refresh, without credentials, after two withdrawals, or if one   *)
(* of the rare races of the settings happened.                             *)
THEOREM AuthErrors == Spec => []AuthErrorNeedsCause
<1>1. AuthInv => AuthErrorNeedsCause
  <2> SUFFICES ASSUME AuthInv, causes \cap AuthHarm = {}, ~(Cardinality(Revoked) > 1),
                      NEW r \in Requests
               PROVE  req[r].pc \notin {"invalidate", "marking", "authError"}
    BY DEF AuthErrorNeedsCause, AuthHarm
  <2>1. TypeOK
    BY DEF AuthInv, SaveInv
  <2>2. Calm
    BY <2>1, OneRevoked DEF Calm
  <2> QED
    BY <2>2 DEF AuthInv, AuthCalm, RequestCalm
<1> QED
  BY <1>1, InitAuth, NextAuth, PTL DEF Spec
-----------------------------------------------------------------------------
(* Every request ends: what an attempt uses up *)

(* The steps that a request has left before it hears from the ERP. *)
WayLeft(point) ==
  CASE point = "queued"  -> 4
    [] point = "read"    -> 3
    [] point = "waiting" -> 2
    [] OTHER             -> 1

SendsLeft(q) == MaxRetries - q.attempt

(* The steps a request has left at most: after a first 401 it may begin    *)
(* again, with all its attempts, and after a second it may not.            *)
RequestLeft(q) ==
  CASE q.pc = "idle"       -> 10 * MaxRetries + 20
    [] q.pc = "refreshing" -> 5 * MaxRetries + 8
    [] q.pc = "invalidate" -> 2
    [] q.pc = "marking"    -> 1
    [] q.pc \in {"ok", "failed", "authError"} -> 0
    [] OTHER -> 5 * SendsLeft(q) + WayLeft(q.pc)
                  + (IF q.authRetried THEN 3 ELSE 5 * MaxRetries + 9)

(* The steps the shared refresh has left at most. *)
RefreshLeft(k) ==
  CASE k.pc = "settings"   -> 8
    [] k.pc = "fetch"      -> 7
    [] k.pc = "find"       -> 6
    [] k.pc = "deactivate" -> 5
    [] k.pc = "insert"     -> 4
    [] k.pc = "refind"     -> 3
    [] k.pc = "store"      -> 2
    [] k.pc = "report"     -> 1
    [] OTHER               -> 0

(* A request that has not begun has all its attempts. *)
Counted(q) ==
  /\ q.attempt <= MaxRetries
  /\ q.pc = "idle" => q.attempt = 0 /\ ~q.authRetried

(* The refresh is not on the way of an admin, and saves the environment's  *)
(* credentials with a token in hand.                                       *)
OnItsWay(k) ==
  /\ k.pc \notin {"login", "check"}
  /\ k.pc \in {"deactivate", "insert"} => k.token # 0

(* Who joined the refresh waits for one that is under way. *)
Served(q, k) == q.pc \in {"waiting", "refreshing"} => k.pc # "idle"

LeftInv ==
  /\ OnItsWay(task["refresh"])
  /\ \A r \in Requests : Counted(req[r]) /\ Served(req[r], task["refresh"])

(* requestWithRetry: each step of a request uses one up, and so does the   *)
(* end of the refresh it waits for; nothing gives one back.  Its two       *)
(* recursions, after a 401 and after a 429 or 5xx, end.                    *)
RequestsWearOut ==
  [][\A r \in Requests :
       /\ RequestLeft(req'[r]) <= RequestLeft(req[r])
       /\ Begin(r) \/ RequestStep(r) => RequestLeft(req'[r]) < RequestLeft(req[r])]_vars

(* performTokenRefresh: once begun it only comes nearer to its end, who    *)
(* ever joins it, and each step of its own uses one up.                    *)
RefreshWearsOut ==
  [][/\ task["refresh"].pc # "idle"
          => RefreshLeft(task'["refresh"]) <= RefreshLeft(task["refresh"])
     /\ Refresh => RefreshLeft(task'["refresh"]) < RefreshLeft(task["refresh"])]_vars

(* A request that waits does not wait in vain: for the refresh while one   *)
(* is under way, and for a slot while another request in the limiter, or   *)
(* the refresh that it waits for, has a step to take.                      *)
NobodyWaitsInVain ==
  \A r \in Requests :
    /\ req[r].pc \in {"waiting", "refreshing"} => RefreshLeft(task["refresh"]) > 0
    /\ req[r].pc = "queued" /\ MaxConcurrent > 0
         => \/ Cardinality(InLimiter) < MaxConcurrent
            \/ \E q \in InLimiter : req[q].pc \in {"read", "go"}
            \/ RefreshLeft(task["refresh"]) > 0

(* A join starts the refresh, or leaves it as it is. *)
LEMMA JoinMeans ==
  ASSUME TypeOK, JoinRefresh
  PROVE  /\ task["refresh"].pc # "idle" => task' = task
         /\ task["refresh"].pc = "idle" => task'["refresh"].pc = "settings"
         /\ task'["refresh"].pc # "idle"
  BY TaskFacts DEF JoinRefresh, IdleTask, TypeOK

(* Each step of the refresh brings it nearer to its end; it ends by        *)
(* settling.                                                               *)
LEMMA RefreshNearer ==
  ASSUME TypeOK, Refs, OnItsWay(task["refresh"]), Refresh
  PROVE  /\ OnItsWay(task'["refresh"])
         /\ RefreshLeft(task'["refresh"]) < RefreshLeft(task["refresh"])
         /\ \/ UNCHANGED req /\ task'["refresh"].pc # "idle"
            \/ \E token : SettleRefresh(token)
<1> DEFINE k == task["refresh"]
           n == task'["refresh"]
<1>1. /\ task \in [Tasks -> Task] /\ k \in Task
      /\ k.pc \in Holding => k.token # 0
  BY TaskFacts DEF TypeOK, Refs, TaskRefs
<1>2. ASSUME NEW token, SettleRefresh(token)
      PROVE  n.pc = "idle"
  BY <1>1, <1>2, TaskFacts DEF SettleRefresh, IdleTask
<1>3. CASE RefreshSettings
  <2>1. k.pc = "settings"
    BY <1>3 DEF RefreshSettings
  <2>2. (\E token : SettleRefresh(token)) \/ (UNCHANGED req /\ n.pc = "fetch")
    BY <1>1, <1>3, TaskFacts DEF RefreshSettings, Task
  <2> QED
    BY <1>2, <2>1, <2>2 DEF OnItsWay, RefreshLeft
<1>4. CASE RefreshDone
  BY <1>2, <1>4 DEF RefreshDone, OnItsWay, RefreshLeft
<1>5. CASE RefreshFails
  <2>1. k.pc \in TaskPoints \ {"idle", "settings", "login", "check"}
    BY <1>1, <1>5 DEF RefreshFails, OnItsWay, Task
  <2>2. n.pc = "idle" /\ \E token : SettleRefresh(token)
    BY <1>2, <1>5 DEF RefreshFails
  <2> QED
    BY <2>1, <2>2 DEF OnItsWay, RefreshLeft, TaskPoints
<1>6. CASE Deactivate("refresh")
  <2>1. k.pc = "deactivate" /\ n.pc = "insert" /\ n.token = k.token /\ UNCHANGED req
    BY <1>1, <1>6, TaskFacts DEF Deactivate, Goto, Task
  <2> QED
    BY <2>1 DEF OnItsWay, RefreshLeft
<1>7. CASE Insert("refresh")
  <2>1. k.pc = "insert" /\ k.token # 0 /\ UNCHANGED req
    BY <1>7 DEF Insert, OnItsWay
  <2>2. n.pc = "refind"
    BY <1>1, <1>7, <2>1, TaskFacts DEF Insert, Goto, Task
  <2> QED
    BY <2>1, <2>2 DEF OnItsWay, RefreshLeft
<1>8. CASE FindRow("refresh")
  <2>1. k.pc = "find" /\ k.token # 0 /\ UNCHANGED req
    BY <1>1, <1>8 DEF FindRow, Holding
  <2>2. n.pc \in {"store", "deactivate", "report"} /\ n.token = k.token
    BY <1>1, <1>8, TaskFacts DEF FindRow, Task
  <2> QED
    BY <2>1, <2>2 DEF OnItsWay, RefreshLeft
<1>9. CASE FindAgain("refresh")
  <2>1. k.pc = "refind" /\ n.pc \in {"store", "report"} /\ UNCHANGED req
    BY <1>1, <1>9, TaskFacts DEF FindAgain, Task
  <2> QED
    BY <2>1 DEF OnItsWay, RefreshLeft
<1>10. CASE StoreToken("refresh")
  <2>1. k.pc = "store" /\ n.pc = "report" /\ UNCHANGED req
    BY <1>1, <1>10, TaskFacts DEF StoreToken, Goto, Task
  <2> QED
    BY <2>1 DEF OnItsWay, RefreshLeft
<1>11. CASE FetchToken("refresh")
  <2>1. k.pc = "fetch" /\ n.pc = "find" /\ UNCHANGED req
    BY <1>1, <1>11, TaskFacts DEF FetchToken, OnItsWay, Task
  <2> QED
    BY <2>1 DEF OnItsWay, RefreshLeft
<1> QED
  BY <1>3, <1>4, <1>5, <1>6, <1>7, <1>8, <1>9, <1>10, <1>11 DEF Refresh, SaveSteps

(* Nobody else moves the refresh, but to start it. *)
LEMMA RefreshAlone ==
  ASSUME TypeOK, Next, ~Refresh
  PROVE  \/ task'["refresh"] = task["refresh"]
         \/ task["refresh"].pc = "idle" /\ task'["refresh"].pc = "settings"
<1>0. task \in [Tasks -> Task]
  BY DEF TypeOK
<1>1. CASE Tick \/ \E n \in DOMAIN tokens : Revoke(n)
  BY <1>1 DEF Tick, Revoke
<1>2. CASE ManualRefresh
  BY <1>2, JoinMeans DEF ManualRefresh
<1>3. ASSUME NEW a \in Admins, Admin(a)
      PROVE  task'["refresh"] = task["refresh"]
  <2>1. \E k : task' = [task EXCEPT ![a] = k]
    BY <1>3
    DEF Admin, SaveSettings, TestConnection, Login, CheckSettings, AdminEnds, SaveSteps,
        Deactivate, Insert, FindRow, FindAgain, StoreToken, FetchToken, Goto
  <2> QED
    BY <1>0, <2>1, TaskFacts
<1>4. ASSUME NEW r \in Requests, Begin(r) \/ RequestStep(r)
      PROVE  UNCHANGED task \/ JoinRefresh
  BY <1>4
  DEF RequestStep, Begin, TakeSlot, DecideToken, Answered, Unauthorized, Busy,
      Fails, MarkInvalid, ClearToken
<1> QED
  BY <1>1, <1>2, <1>3, <1>4, JoinMeans DEF Next

(* What is left of a request is a number. *)
LEMMA LeftIsNumber ==
  ASSUME NEW q \in Request, Counted(q)
  PROVE  RequestLeft(q) \in Nat
<1>1. q.attempt \in Nat /\ MaxRetries \in Nat /\ q.authRetried \in BOOLEAN
  BY BoundsAssumption DEF Request
<1>2. SendsLeft(q) \in Nat
  BY <1>1 DEF SendsLeft, Counted
<1>3. WayLeft(q.pc) \in Nat
  BY DEF WayLeft
<1> QED
  BY <1>1, <1>2, <1>3 DEF RequestLeft

(* The end of the refresh frees its waiters and uses up some of their way. *)
LEMMA SettledNearer ==
  ASSUME NEW q \in Request, Counted(q), NEW token
  PROVE  /\ Counted(Settled(q, token))
         /\ RequestLeft(Settled(q, token)) <= RequestLeft(q)
         /\ Settled(q, token).pc \notin {"waiting", "refreshing"}
<1>1. /\ q.attempt \in Nat /\ q.authRetried \in BOOLEAN /\ q.pc \in RequestPoints
      /\ MaxRetries \in Nat /\ RequestLeft(q) \in Nat
      /\ SendsLeft(q) \in Nat
  BY BoundsAssumption, LeftIsNumber DEF Request, SendsLeft, Counted
<1>2. CASE q.pc = "waiting"
  <2>1. /\ Settled(q, token).pc = "go"
        /\ Settled(q, token).attempt = q.attempt
        /\ Settled(q, token).authRetried = q.authRetried
    BY <1>2 DEF Settled, Request
  <2> QED
    BY <1>1, <1>2, <2>1 DEF Counted, RequestLeft, SendsLeft, WayLeft
<1>3. CASE q.pc = "refreshing"
  <2>1. \/ /\ Settled(q, token).pc = "queued"
           /\ Settled(q, token).attempt = 0
           /\ Settled(q, token).authRetried = TRUE
        \/ /\ Settled(q, token).pc = "invalidate"
           /\ Settled(q, token).attempt = q.attempt
    BY <1>3 DEF Settled, Request
  <2> QED
    BY <1>1, <1>3, <2>1 DEF Counted, RequestLeft, SendsLeft, WayLeft
<1>4. CASE q.pc \notin {"waiting", "refreshing"}
  <2>1. Settled(q, token) = q
    BY <1>4 DEF Settled
  <2> QED
    BY <1>1, <1>4, <2>1
<1> QED
  BY <1>2, <1>3, <1>4

(* A step of a request brings it nearer to its end; if it waits then, the  *)
(* refresh is under way.                                                   *)
LEMMA RequestNearer ==
  ASSUME TypeOK, NEW r \in Requests, Counted(req[r]), Begin(r) \/ RequestStep(r)
  PROVE  /\ Counted(req'[r])
         /\ RequestLeft(req'[r]) < RequestLeft(req[r])
         /\ Served(req'[r], task'["refresh"])
<1> DEFINE q == req[r]
           n == req'[r]
<1>1. /\ req \in [Requests -> Request] /\ q \in Request
      /\ q.attempt \in Nat /\ q.authRetried \in BOOLEAN
      /\ MaxRetries \in Nat /\ SendsLeft(q) \in Nat
  BY BoundsAssumption DEF TypeOK, Request, SendsLeft, Counted
<1>2. ASSUME NEW end \in {"ok", "failed", "authError"}, Ends(r, end)
      PROVE  n.pc = end /\ n.attempt = 0
  BY <1>1, <1>2 DEF Ends, NewRequest
<1>3. CASE Begin(r)
  <2>1. q.pc = "idle" /\ n.pc = "queued" /\ n.attempt = 0 /\ ~n.authRetried
    BY <1>1, <1>3 DEF Begin, Request, Counted
  <2> QED
    BY <1>1, <2>1 DEF Counted, RequestLeft, SendsLeft, WayLeft, Served
<1>4. CASE TakeSlot(r)
  <2>1. /\ q.pc = "queued" /\ n.pc = "read"
        /\ n.attempt = q.attempt /\ n.authRetried = q.authRetried
    BY <1>1, <1>4 DEF TakeSlot, Request
  <2> QED
    BY <1>1, <2>1 DEF Counted, RequestLeft, SendsLeft, WayLeft, Served
<1>5. CASE DecideToken(r)
  <2>1. /\ q.pc = "read" /\ n.pc \in {"go", "waiting"}
        /\ n.attempt = q.attempt /\ n.authRetried = q.authRetried
        /\ n.pc = "waiting" => task'["refresh"].pc # "idle"
    BY <1>1, <1>5, JoinMeans DEF DecideToken, Request
  <2> QED
    BY <1>1, <2>1 DEF Counted, RequestLeft, SendsLeft, WayLeft, Served
<1>6. CASE Unauthorized(r)
  <2>1. /\ q.pc = "go" /\ n.attempt = q.attempt
        /\ \/ n.pc = "invalidate"
           \/ n.pc = "refreshing" /\ ~q.authRetried /\ task'["refresh"].pc # "idle"
    BY <1>1, <1>6, JoinMeans DEF Unauthorized, Request
  <2> QED
    BY <1>1, <2>1 DEF Counted, RequestLeft, SendsLeft, WayLeft, Served
<1>7. CASE Busy(r)
  <2>1. /\ q.pc = "go" /\ n.pc = "queued" /\ q.attempt + 1 < MaxRetries
        /\ n.attempt = q.attempt + 1 /\ n.authRetried = q.authRetried
    BY <1>1, <1>7 DEF Busy, Request
  <2> QED
    BY <1>1, <2>1 DEF Counted, RequestLeft, SendsLeft, WayLeft, Served
<1>8. CASE Answered(r) \/ Fails(r)
  <2>1. q.pc = "go" /\ n.pc \in {"ok", "failed"} /\ n.attempt = 0
    BY <1>2, <1>8 DEF Answered, Fails
  <2> QED
    BY <1>1, <2>1 DEF Counted, RequestLeft, WayLeft, Served
<1>9. CASE MarkInvalid(r)
  <2>1. /\ q.pc = "invalidate"
        /\ \/ n.pc = "marking" /\ n.attempt = q.attempt
           \/ n.pc = "authError" /\ n.attempt = 0
    <3>1. ASSUME NEW i \in ActiveRows,
                 req' = [req EXCEPT ![r].pc = "marking", ![r].row = i,
                                    ![r].token     = rows[i].token,
                                    ![r].expiresAt = rows[i].expiresAt]
          PROVE  n.pc = "marking" /\ n.attempt = q.attempt
      BY <1>1, <3>1 DEF Request
    <3> QED
      BY <1>2, <1>9, <3>1 DEF MarkInvalid
  <2> QED
    BY <1>1, <2>1 DEF Counted, RequestLeft, Served
<1>10. CASE ClearToken(r)
  <2>1. q.pc = "marking" /\ n.pc = "authError" /\ n.attempt = 0
    BY <1>2, <1>10 DEF ClearToken
  <2> QED
    BY <1>1, <2>1 DEF Counted, RequestLeft, Served
<1> QED
  BY <1>3, <1>4, <1>5, <1>6, <1>7, <1>8, <1>9, <1>10 DEF RequestStep

(* A request moves by its own steps and by the end of the refresh only. *)
LEMMA OthersStay ==
  ASSUME TypeOK, Next, NEW r \in Requests
  PROVE  \/ req'[r] = req[r]
         \/ Begin(r) \/ RequestStep(r)
         \/ Refresh /\ \E token : SettleRefresh(token)
<1>0. req \in [Requests -> Request]
  BY DEF TypeOK
<1>1. ASSUME NEW t, SaveSteps(t)
      PROVE  UNCHANGED req
  BY <1>1 DEF SaveSteps, Deactivate, Insert, FindRow, FindAgain, StoreToken, FetchToken
<1>2. CASE Tick \/ ManualRefresh \/ \E n \in DOMAIN tokens : Revoke(n)
  BY <1>2 DEF Tick, ManualRefresh, Revoke
<1>3. CASE Refresh
  BY <1>1, <1>3 DEF Refresh, RefreshSettings, RefreshDone, RefreshFails
<1>4. ASSUME NEW a \in Admins, Admin(a)
      PROVE  UNCHANGED req
  BY <1>1, <1>4 DEF Admin, SaveSettings, TestConnection, Login, CheckSettings, AdminEnds
<1>5. ASSUME NEW p \in Requests, p # r, Begin(p) \/ RequestStep(p)
      PROVE  req'[r] = req[r]
  BY <1>0, <1>5
  DEF RequestStep, Begin, TakeSlot, DecideToken, Answered, Unauthorized, Busy,
      Fails, MarkInvalid, ClearToken, Ends
<1> QED
  BY <1>2, <1>3, <1>4, <1>5 DEF Next

(* Every step keeps LeftInv, and uses up what it should. *)
LEMMA LeftStep ==
  ASSUME TypeOK, Refs, LeftInv, Next
  PROVE  /\ LeftInv'
         /\ \A r \in Requests :
              /\ RequestLeft(req'[r]) <= RequestLeft(req[r])
              /\ Begin(r) \/ RequestStep(r) => RequestLeft(req'[r]) < RequestLeft(req[r])
         /\ task["refresh"].pc # "idle"
              => RefreshLeft(task'["refresh"]) <= RefreshLeft(task["refresh"])
         /\ Refresh => RefreshLeft(task'["refresh"]) < RefreshLeft(task["refresh"])
<1> DEFINE k == task["refresh"]
           n == task'["refresh"]
<1>1. /\ OnItsWay(n)
      /\ k.pc # "idle" => RefreshLeft(n) <= RefreshLeft(k)
      /\ Refresh => RefreshLeft(n) < RefreshLeft(k)
  <2>1. RefreshLeft(k) \in Nat /\ RefreshLeft(n) \in Nat
    BY DEF RefreshLeft
  <2> QED
    BY <2>1, RefreshNearer, RefreshAlone DEF LeftInv, OnItsWay
<1>2. ASSUME NEW r \in Requests
      PROVE  /\ Counted(req'[r]) /\ Served(req'[r], n)
             /\ RequestLeft(req'[r]) <= RequestLeft(req[r])
             /\ Begin(r) \/ RequestStep(r) => RequestLeft(req'[r]) < RequestLeft(req[r])
  <2>1. /\ req[r] \in Request /\ Counted(req[r]) /\ Served(req[r], k)
        /\ RequestLeft(req[r]) \in Nat /\ req'[r] \in Request
    BY LeftIsNumber, NextRefs DEF LeftInv, TypeOK
  <2>2. CASE Begin(r) \/ RequestStep(r)
    <3>1. RequestLeft(req'[r]) \in Nat
      BY <2>1, <2>2, RequestNearer, LeftIsNumber
    <3> QED
      BY <2>1, <2>2, <3>1, RequestNearer
  <2>3. CASE \E token : SettleRefresh(token)
    <3>1. PICK token : req'[r] = Settled(req[r], token)
      BY <2>3 DEF SettleRefresh
    <3> QED
      BY <2>1, <2>2, <3>1, SettledNearer DEF Served
  <2>4. CASE /\ req'[r] = req[r] /\ ~(Begin(r) \/ RequestStep(r))
             /\ ~\E token : SettleRefresh(token)
    <3>1. k.pc # "idle" => n.pc # "idle"
      BY <2>4, RefreshNearer, RefreshAlone DEF LeftInv
    <3> QED
      BY <2>1, <2>4, <3>1 DEF Served
  <2> QED
    BY <2>2, <2>3, <2>4, OthersStay
<1> QED
  BY <1>1, <1>2 DEF LeftInv

(* LeftInv holds in every reachable state. *)
LEMMA LeftKept == Spec => []LeftInv
<1>1. Init => LeftInv
  BY TaskFacts, BoundsAssumption
  DEF Init, LeftInv, OnItsWay, Counted, Served, IdleTask, NewRequest
<1>2. TypeOK /\ Refs /\ LeftInv /\ [Next]_vars => LeftInv'
  <2>1. LeftInv /\ UNCHANGED vars => LeftInv'
    BY DEF vars, LeftInv
  <2> QED
    BY <2>1, LeftStep
<1> QED
  BY <1>1, <1>2, WellFormed, PTL DEF Spec

(* snelstart.client.ts, requestWithRetry: whatever the ERP answers and the *)
(* refresh comes to, a request takes at most 10 MaxRetries + 20 steps.     *)
THEOREM EveryRequestWearsOut == Spec => RequestsWearOut
<1>1. TypeOK /\ Refs /\ LeftInv /\ [Next]_vars
      => [\A r \in Requests :
            /\ RequestLeft(req'[r]) <= RequestLeft(req[r])
            /\ Begin(r) \/ RequestStep(r) => RequestLeft(req'[r]) < RequestLeft(req[r])]_vars
  BY LeftStep
<1> QED
  BY <1>1, LeftKept, WellFormed, PTL DEF Spec, RequestsWearOut

(* connection-settings.service.ts, performTokenRefresh: a refresh takes at *)
(* most eight steps, whoever joins it and whatever admins do meanwhile.    *)
THEOREM TheRefreshWearsOut == Spec => RefreshWearsOut
<1>1. TypeOK /\ Refs /\ LeftInv /\ [Next]_vars
      => [/\ task["refresh"].pc # "idle"
               => RefreshLeft(task'["refresh"]) <= RefreshLeft(task["refresh"])
          /\ Refresh => RefreshLeft(task'["refresh"]) < RefreshLeft(task["refresh"])]_vars
  BY LeftStep
<1> QED
  BY <1>1, LeftKept, WellFormed, PTL DEF Spec, RefreshWearsOut

(* Nobody waits for a refresh that is not under way, or for a slot that no *)
(* other request can free.                                                 *)
THEOREM WaitersAreServed == Spec => []NobodyWaitsInVain
<1>1. TypeOK /\ LeftInv => NobodyWaitsInVain
  <2> SUFFICES ASSUME TypeOK, LeftInv
               PROVE  NobodyWaitsInVain
    OBVIOUS
  <2> DEFINE k == task["refresh"]
  <2>1. k.pc # "idle" => RefreshLeft(k) > 0
    <3>1. k.pc \in TaskPoints \ {"login", "check"}
      BY TaskFacts DEF LeftInv, OnItsWay, TypeOK, Task
    <3> QED
      BY <3>1 DEF RefreshLeft, TaskPoints
  <2>2. \A r \in Requests : req[r].pc \in {"waiting", "refreshing"} => k.pc # "idle"
    BY DEF LeftInv, Served
  <2>3. MaxConcurrent > 0 /\ ~(Cardinality(InLimiter) < MaxConcurrent) => InLimiter # {}
    BY FS_EmptySet, BoundsAssumption
  <2>4. \A q \in InLimiter : q \in Requests /\ req[q].pc \in {"read", "waiting", "go"}
    BY DEF InLimiter
  <2> QED
    BY <2>1, <2>2, <2>3, <2>4 DEF NobodyWaitsInVain
<1> QED
  BY <1>1, LeftKept, WellFormed, PTL

=============================================================================
