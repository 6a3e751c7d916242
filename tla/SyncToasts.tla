------------------------------ MODULE SyncToasts ------------------------------
(***************************************************************************)
(* The two order pages of the web client, which poll the orders and tell   *)
(* the user when one is no longer being synced.  A page shows what its     *)
(* query's cache entry holds, or else what it showed last; the entries     *)
(* outlive the pages.  The list page remembers the status it last saw of   *)
(* each order, the detail page the last status only, whatever its order.   *)
(*                                                                         *)
(* One page is open at a time; a status is numbered, so that it can be     *)
(* told whether a page shows an older one than the user has already seen.  *)
(***************************************************************************)
EXTENDS Naturals, FiniteSets

CONSTANTS
  Orders,   \* the orders
  Lists,    \* the query keys of the list page: pages and filters
  Listed,   \* list -> the orders on it
  LastStatus, \* bound: changes of one order's status
  MaxMoves   \* bound: pages opened and keys changed

ASSUME ToastsAssumption ==
  /\ Listed \in [Lists -> SUBSET Orders]
  /\ Orders \cap Lists = {}
  /\ LastStatus \in Nat /\ MaxMoves \in Nat

VARIABLES
  status,    \* the orders' statuses, as the API would answer now
  answers,   \* the answers on their way, by query key
  entries,   \* the query cache: key -> the answer it last received
  opened,    \* the key of the page that is open, or "none"
  moves,     \* how often it changed
  shown,     \* the orders and statuses on that page
  before,    \* prevStatusByIdRef of the list page, by order
  lastBefore, \* prevStatusRef of the detail page: one status, or none
  told,      \* history: the toasts, each with its order and number
  seen,      \* history: the statuses that a page has shown of each order
  toastCauses \* history: what happened that can make a toast wrong

toastVars == <<status, answers, entries, opened, moves, shown, before, lastBefore, told,
               seen, toastCauses>>

Keys == Orders \cup Lists

(* The orders a key asks for: a list's, or the one of a detail page. *)
Asked(k) == IF k \in Lists THEN Listed[k] ELSE {k}

StatusNames == {"PENDING_SYNC", "SYNCED", "SYNC_FAILED"}
StatusValue == [number : 0 .. LastStatus, name : StatusNames]
Answer(k)   == [Asked(k) -> StatusValue]

InProgress(s) == s.name = "PENDING_SYNC"

Empty == [o \in {} |-> 0]

(* f where it is defined, and g elsewhere. *)
Over(f, g) == [x \in DOMAIN f \cup DOMAIN g |-> IF x \in DOMAIN f THEN f[x] ELSE g[x]]

(* table with answer as the entry of key k. *)
Entered(k, answer, table) ==
  [x \in DOMAIN table \cup {k} |-> IF x = k THEN answer ELSE table[x]]

ToastsInit ==
  /\ status      = [o \in Orders |-> [number |-> 0, name |-> "PENDING_SYNC"]]
  /\ answers     = Empty
  /\ entries     = Empty
  /\ opened      = "none"
  /\ moves       = 0
  /\ shown       = Empty
  /\ before      = Empty
  /\ lastBefore  = {}
  /\ told        = {}
  /\ seen        = {}
  /\ toastCauses = {}

-----------------------------------------------------------------------------
(* The orders *)

(* The sync ends, or a failed one is retried. *)
ChangeStatus(o, name) ==
  /\ status[o].number < LastStatus
  /\ \/ InProgress(status[o]) /\ name # "PENDING_SYNC"
     \/ status[o].name = "SYNC_FAILED" /\ name = "PENDING_SYNC"
  /\ status' = [status EXCEPT ![o] = [number |-> @.number + 1, name |-> name]]
  /\ UNCHANGED <<answers, entries, opened, moves, shown, before, lastBefore, told, seen,
                 toastCauses>>

-----------------------------------------------------------------------------
(* The effects of the two hooks *)

Toast(o, s) == [order |-> o, number |-> s.number, name |-> s.name]

(* notifySyncTerminalTransition, for a previous status of o and a new one. *)
Tells(o, was, is) == IF InProgress(was) /\ ~InProgress(is) THEN {Toast(o, is)} ELSE {}

(* Mutant: an order without a previous status counts as in progress. *)
ListTellsNew(prev, data) ==
  {Toast(o, data[o]) : o \in {x \in DOMAIN data :
     ~InProgress(data[x]) /\ (x \in DOMAIN prev => InProgress(prev[x]))}}

(* Mutant: only the first status of an order is remembered. *)
RememberedFirst(prev, data) == Over(prev, data)

(* prevStatusByIdRef after the effect: orders that are no longer listed    *)
(* keep their last status.                                                 *)
Remembered(prev, data) == Over(data, prev)

(* useOrdersSyncTransitionToasts: an order seen for the first time is only *)
(* remembered.                                                             *)
ListTells(prev, data) ==
  UNION {Tells(o, prev[o], data[o]) : o \in DOMAIN prev \cap DOMAIN data}

(* useOrderDetailSyncTransitionToast: the data may be another order's, and *)
(* so may the status it is compared with; the toast is about the page's.   *)
DetailTells(o, prev, data) ==
  UNION {Tells(o, was, data[x]) : was \in prev, x \in DOMAIN data}

(* again: the user has had this toast before. *)
Recorded(toasts) ==
  {[toast |-> x, again |-> \E y \in told : y.toast = x] : x \in toasts}

(* What the page shows under key k becomes data, and its effect runs.      *)
(* fresh: the page is mounted anew, and its refs are empty.                *)
Render(k, data, fresh) ==
  LET prevs == IF fresh THEN Empty ELSE before
      prev  == IF fresh THEN {} ELSE lastBefore
      list  == k \in Lists
  IN
  /\ shown' = data
  /\ before' = IF list THEN Remembered(prevs, data) ELSE Empty
  /\ lastBefore' = IF list THEN {}
                   ELSE IF DOMAIN data = {} THEN prev
                   ELSE {data[x] : x \in DOMAIN data}
  /\ told' = told \cup Recorded(IF list THEN ListTells(prevs, data)
                                        ELSE DetailTells(k, prev, data))
  /\ seen' = seen \cup {<<o, data[o].number>> : o \in DOMAIN data}
  /\ toastCauses' = toastCauses
       \cup {c \in {"older"} : \E x \in seen : x[1] \in DOMAIN data /\ data[x[1]].number < x[2]}
       \cup {c \in {"switched"} : ~list /\ ~fresh /\ k # opened}

(* What a page shows under k: the cached entry, or what it showed last     *)
(* (keepPreviousData).                                                     *)
InCache(k, otherwise) == IF k \in DOMAIN entries THEN entries[k] ELSE otherwise

(* A page is mounted. *)
OpenOrders(k) ==
  /\ opened # k
  /\ (k \in Lists) # (opened \in Lists) \/ opened = "none"
  /\ moves < MaxMoves
  /\ opened' = k /\ moves' = moves + 1
  /\ Render(k, InCache(k, Empty), TRUE)
  /\ UNCHANGED <<status, answers, entries>>

(* The mounted page gets another key: a page or filter of the list, or an  *)
(* order that the notification bell leads to.                              *)
SwitchTo(k) ==
  /\ opened # "none" /\ opened # k
  /\ (k \in Lists) = (opened \in Lists)
  /\ moves < MaxMoves
  /\ opened' = k /\ moves' = moves + 1
  /\ Render(k, InCache(k, shown), FALSE)
  /\ UNCHANGED <<status, answers, entries>>

-----------------------------------------------------------------------------
(* The queries *)

(* The API answers a poll, a focus or a mount: one query per key. *)
Poll(k) ==
  /\ opened = k
  /\ k \notin DOMAIN answers
  /\ answers' = Entered(k, [o \in Asked(k) |-> status[o]], answers)
  /\ UNCHANGED <<status, entries, opened, moves, shown, before, lastBefore, told, seen,
                 toastCauses>>

(* The answer arrives, in the cache even if its page is gone. *)
Receive(k) ==
  /\ k \in DOMAIN answers
  /\ entries' = Entered(k, answers[k], entries)
  /\ answers' = [x \in DOMAIN answers \ {k} |-> answers[x]]
  /\ IF opened = k
       THEN Render(k, answers[k], FALSE)
       ELSE UNCHANGED <<shown, before, lastBefore, told, seen, toastCauses>>
  /\ UNCHANGED <<status, opened, moves>>

(* The request fails: the page shows what it showed. *)
PollFails(k) ==
  /\ k \in DOMAIN answers
  /\ answers' = [x \in DOMAIN answers \ {k} |-> answers[x]]
  /\ UNCHANGED <<status, entries, opened, moves, shown, before, lastBefore, told, seen,
                 toastCauses>>

(* An entry of a page that is not open is dropped after five minutes. *)
Collect(k) ==
  /\ k \in DOMAIN entries /\ k # opened
  /\ entries' = [x \in DOMAIN entries \ {k} |-> entries[x]]
  /\ UNCHANGED <<status, answers, opened, moves, shown, before, lastBefore, told, seen,
                 toastCauses>>

-----------------------------------------------------------------------------

ToastsNext ==
  \/ \E o \in Orders, name \in StatusNames : ChangeStatus(o, name)
  \/ \E k \in Keys : \/ OpenOrders(k) \/ SwitchTo(k)
                     \/ Poll(k) \/ Receive(k) \/ PollFails(k) \/ Collect(k)

ToastsSpec == ToastsInit /\ [][ToastsNext]_toastVars

-----------------------------------------------------------------------------
(* Properties *)

(* The shape of the state. *)
ToastsTypeOK ==
  /\ status \in [Orders -> StatusValue]
  /\ \A k \in DOMAIN answers : k \in Keys /\ answers[k] \in Answer(k)
  /\ \A k \in DOMAIN entries : k \in Keys /\ entries[k] \in Answer(k)
  /\ opened \in Keys \cup {"none"} /\ moves \in 0 .. MaxMoves
  /\ \A o \in DOMAIN shown : shown[o] \in StatusValue
  /\ \A o \in DOMAIN before : before[o] \in StatusValue
  /\ lastBefore \subseteq StatusValue /\ Cardinality(lastBefore) <= 1
  /\ seen \subseteq Orders \X (0 .. LastStatus)
  /\ toastCauses \subseteq {"older", "switched"}

(* useOrderSyncTransitionToasts.ts:38 and :64 "at-most-once toasts": the   *)
(* same end of a sync is told once, however often pages are left, opened   *)
(* and polled, unless a page showed an older status than the user had seen *)
(* (from the query cache, or an answer that was late), or the detail page  *)
(* went from one order to another.                                         *)
ToldOnce == toastCauses = {} => \A x \in told : ~x.again

(* A toast is about an order that the user has seen in progress, and that  *)
(* has since ended as the toast says, for the same two exceptions: an older *)
(* entry under another filter tells again how an earlier sync ended.       *)
ToldTruly ==
  toastCauses = {} =>
    \A x \in told : LET s == status[x.toast.order] IN
      /\ x.toast.number <= s.number
      /\ x.toast.number = s.number => x.toast.name = s.name
      /\ \E y \in seen : /\ y[1] = x.toast.order /\ y[2] < x.toast.number
                         /\ y[2] % 2 = 0

=============================================================================
