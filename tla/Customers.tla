------------------------------ MODULE Customers ------------------------------
(***************************************************************************)
(* Customer records between the ERP, the database and the Redis cache.     *)
(* Every request runs as a chain of awaits; create, update and delete then *)
(* start a whole sync that nobody waits for.  The ERP is written as a      *)
(* whole record that was read before, the database by upserts of copies in *)
(* hand, and the caches are filled from database reads.                    *)
(*                                                                         *)
(* A record is the set of edits it carries: each request edits a field of  *)
(* its own, so an edit that is missing was overwritten.                    *)
(***************************************************************************)
EXTENDS Naturals, FiniteSets, Functions

CONSTANTS
  CustomerIds,   \* the ids the ERP may give
  Initially,     \* the customers that exist at the start
  Tasks,         \* the requests, each served once; also the edits they make
  Outsider,      \* the edit an ERP user makes outside this program
  MaxFaults      \* bound: kinds of fault that may happen in one run

ASSUME CustomersAssumption ==
  Initially \subseteq CustomerIds /\ CustomerIds # {} /\ Outsider \notin Tasks

VARIABLES
  erp,         \* the ERP's records: id -> edits, for the ids that exist
  given,       \* the ids the ERP ever gave: it gives none twice
  custDb,      \* the rows of the customers collection, likewise
  detailCache, \* the cached rows under customer:<id>
  listCache,   \* the cached lists under customers:*, at most one here
  proc,        \* the requests and the background syncs they start
  saved,       \* the updates whose PUT the ERP answered
  custCauses   \* history: what happened that can harm a record (see below)

custVars == <<erp, given, custDb, detailCache, listCache, proc, saved, custCauses>>

Edits  == Tasks \cup {Outsider}
Tables == UNION {[ids -> SUBSET Edits] : ids \in SUBSET CustomerIds}

(* A request and the sync it leaves behind run as two processes. *)
Procs == Tasks \X {"request", "sync"}

Steps == {"idle", "read", "put", "upsert", "clear", "get", "fetch", "store",
          "reread", "fill", "erase", "remove", "post", "lookup", "query",
          "keep", "load", "merge", "flushLists", "flushDetails", "done"}

(* copy: the records or rows in hand, read before and written later. *)
Process == [at : Steps, about : CustomerIds, copy : Tables]

Faults == {"erp", "database", "redis", "crash", "outside"}
Races  == {"crossed", "overlap", "lateFill"}

Nothing == [id \in {} |-> {}]

Only(c, table) == [id \in {c} \cap DOMAIN table |-> table[id]]
Without(c, table) == Restrict(table, DOMAIN table \ {c})
Over(new, table) ==
  [id \in DOMAIN new \cup DOMAIN table |-> IF id \in DOMAIN new THEN new[id] ELSE table[id]]

Idle(p)    == proc[p].at \in {"idle", "done"}
CustQuiet  == \A p \in Procs : Idle(p)

Init_proc == [p \in Procs |-> [at |-> "idle", copy |-> Nothing,
                               about |-> CHOOSE c \in CustomerIds : TRUE]]

CustInit ==
  /\ erp         = [c \in Initially |-> {}]
  /\ given       = Initially
  /\ custDb      = [c \in Initially |-> {}]
  /\ detailCache = Nothing
  /\ listCache   = {}
  /\ proc        = Init_proc
  /\ saved       = {}
  /\ custCauses  = {}

-----------------------------------------------------------------------------
(* The pieces of an action *)

Goto(p, step, copy) ==
  proc' = [proc EXCEPT ![p].at = step, ![p].copy = copy]

(* The request ends; with a sync left behind, that sync starts. *)
EndRequest(p, left) ==
  proc' = [q \in Procs |->
             IF q = <<p[1], "sync">> /\ left THEN [proc[q] EXCEPT !.at = "load"]
             ELSE IF q = p THEN [proc[p] EXCEPT !.at = "done", !.copy = Nothing]
             ELSE proc[q]]

Fault(kind) ==
  /\ Cardinality((custCauses \cup {kind}) \cap Faults) <= MaxFaults
  /\ custCauses' = custCauses \cup {kind}

(* Copies of c that came from the ERP and go to the database. *)
HoldsErp(p, c) ==
  /\ c \in DOMAIN proc[p].copy
  /\ proc[p].at \in {"upsert", "store", "merge"}

(* Rows of c that came from the database and go to a cache.  A list that   *)
(* was read without c is a reader of c, too.                               *)
HoldsRow(p, c) ==
  \/ proc[p].at = "fill" /\ proc[p].about = c
  \/ proc[p].at = "keep"

(* The ERP's record of c changes under a copy somebody still has to write. *)
CrossedBy(p, c) ==
  IF \E q \in Procs \ {p} : HoldsErp(q, c)
    THEN custCauses \cup {"crossed"} ELSE custCauses

(* The row of c changes between a reader's query and its cache write. *)
FilledLate(p, c, rows) ==
  IF \E q \in Procs \ {p} :
       HoldsRow(q, c) /\ Only(c, custDb) # Only(c, rows)
    THEN custCauses \cup {"lateFill"} ELSE custCauses

-----------------------------------------------------------------------------
(* updateCustomer *)

StartUpdate(t, c) ==
  /\ proc[<<t, "request">>].at = "idle"
  /\ proc' = [proc EXCEPT ![<<t, "request">>].at = "read",
                          ![<<t, "request">>].about = c]
  /\ UNCHANGED <<erp, given, custDb, detailCache, listCache, saved, custCauses>>

(* The whole record is read; an unknown id ends the request. *)
ReadErp(p) ==
  LET c == proc[p].about IN
  /\ proc[p].at = "read"
  /\ IF c \in DOMAIN erp THEN Goto(p, "put", Only(c, erp))
                         ELSE EndRequest(p, FALSE)
  /\ custCauses' = IF \E q \in Procs : proc[q].at = "put" /\ proc[q].about = c
                     THEN custCauses \cup {"overlap"} ELSE custCauses
  /\ UNCHANGED <<erp, given, custDb, detailCache, listCache, saved>>

(* Mutant: the payload is only what this request edits. *)
MergedEditOnly(p) == {p[1]}

(* mergedPayload: the record as it was read, with this request's fields. *)
Merged(p) == proc[p].copy[proc[p].about] \cup {p[1]}

PutErp(p) ==
  LET c == proc[p].about IN
  /\ proc[p].at = "put"
  /\ IF c \in DOMAIN erp
       THEN /\ erp' = [erp EXCEPT ![c] = Merged(p)]
            /\ saved' = saved \cup {p[1]}
            /\ Goto(p, "upsert", [id \in {c} |-> Merged(p)])
            /\ custCauses' = CrossedBy(p, c)
       ELSE EndRequest(p, FALSE) /\ UNCHANGED <<erp, saved, custCauses>>
  /\ UNCHANGED <<given, custDb, detailCache, listCache>>

(* delete('customers:*') names no key; only customer:<id> is deleted.  The *)
(* sync starts, and the request goes on with its own getCustomerById.      *)
ClearDetail(p) ==
  /\ proc[p].at = "clear"
  /\ detailCache' = Without(proc[p].about, detailCache)
  /\ proc' = [proc EXCEPT ![p].at = "get", ![<<p[1], "sync">>].at = "load"]
  /\ UNCHANGED <<erp, given, custDb, listCache, saved, custCauses>>

-----------------------------------------------------------------------------
(* getCustomerById *)

StartRead(t, c) ==
  /\ proc[<<t, "request">>].at = "idle"
  /\ proc' = [proc EXCEPT ![<<t, "request">>].at = "get",
                          ![<<t, "request">>].about = c]
  /\ UNCHANGED <<erp, given, custDb, detailCache, listCache, saved, custCauses>>

GetDetail(p) ==
  /\ proc[p].at = "get"
  /\ IF proc[p].about \in DOMAIN detailCache
       THEN EndRequest(p, FALSE)
       ELSE Goto(p, "fetch", Nothing)
  /\ UNCHANGED <<erp, given, custDb, detailCache, listCache, saved, custCauses>>

(* The ERP is asked whether or not the row is there. *)
FetchDetail(p) ==
  LET c == proc[p].about IN
  /\ proc[p].at = "fetch"
  /\ IF c \in DOMAIN erp THEN Goto(p, "store", Only(c, erp))
                         ELSE EndRequest(p, FALSE)
  /\ UNCHANGED <<erp, given, custDb, detailCache, listCache, saved, custCauses>>

Reread(p) ==
  LET c == proc[p].about IN
  /\ proc[p].at = "reread"
  /\ IF c \in DOMAIN custDb THEN Goto(p, "fill", Only(c, custDb))
                            ELSE EndRequest(p, FALSE)
  /\ UNCHANGED <<erp, given, custDb, detailCache, listCache, saved, custCauses>>

FillDetail(p) ==
  /\ proc[p].at = "fill"
  /\ detailCache' = Over(proc[p].copy, detailCache)
  /\ EndRequest(p, FALSE)
  /\ UNCHANGED <<erp, given, custDb, listCache, saved, custCauses>>

-----------------------------------------------------------------------------
(* deleteCustomer and createCustomer *)

StartDelete(t, c) ==
  /\ proc[<<t, "request">>].at = "idle"
  /\ proc' = [proc EXCEPT ![<<t, "request">>].at = "erase",
                          ![<<t, "request">>].about = c]
  /\ UNCHANGED <<erp, given, custDb, detailCache, listCache, saved, custCauses>>

EraseErp(p) ==
  LET c == proc[p].about IN
  /\ proc[p].at = "erase"
  /\ IF c \in DOMAIN erp
       THEN /\ erp' = Without(c, erp)
            /\ Goto(p, "remove", Nothing)
            /\ custCauses' = CrossedBy(p, c)
       ELSE EndRequest(p, FALSE) /\ UNCHANGED <<erp, custCauses>>
  /\ UNCHANGED <<given, custDb, detailCache, listCache, saved>>

(* Mutant: the row is left to the sync. *)
RemoveRowNever(p) ==
  /\ proc[p].at = "remove"
  /\ EndRequest(p, TRUE)
  /\ UNCHANGED <<erp, given, custDb, detailCache, listCache, saved, custCauses>>

(* The row goes; no cache key does (the pattern names none). *)
RemoveRow(p) ==
  LET c == proc[p].about IN
  /\ proc[p].at = "remove"
  /\ custDb' = Without(c, custDb)
  /\ custCauses' = FilledLate(p, c, Without(c, custDb))
  /\ EndRequest(p, TRUE)
  /\ UNCHANGED <<erp, given, detailCache, listCache, saved>>

StartCreate(t) ==
  /\ proc[<<t, "request">>].at = "idle"
  /\ proc' = [proc EXCEPT ![<<t, "request">>].at = "post"]
  /\ UNCHANGED <<erp, given, custDb, detailCache, listCache, saved, custCauses>>

(* Nothing is written but the ERP: the row comes with the sync. *)
PostErp(p, c) ==
  /\ proc[p].at = "post"
  /\ c \notin given
  /\ erp' = Over([id \in {c} |-> {p[1]}], erp)
  /\ given' = given \cup {c}
  /\ custCauses' = CrossedBy(p, c)
  /\ EndRequest(p, TRUE)
  /\ UNCHANGED <<custDb, detailCache, listCache, saved>>

-----------------------------------------------------------------------------
(* getCustomers *)

StartList(t) ==
  /\ proc[<<t, "request">>].at = "idle"
  /\ proc' = [proc EXCEPT ![<<t, "request">>].at = "lookup"]
  /\ UNCHANGED <<erp, given, custDb, detailCache, listCache, saved, custCauses>>

LookupList(p) ==
  /\ proc[p].at = "lookup"
  /\ IF listCache # {} THEN EndRequest(p, FALSE) ELSE Goto(p, "query", Nothing)
  /\ UNCHANGED <<erp, given, custDb, detailCache, listCache, saved, custCauses>>

QueryList(p) ==
  /\ proc[p].at = "query"
  /\ Goto(p, "keep", custDb)
  /\ UNCHANGED <<erp, given, custDb, detailCache, listCache, saved, custCauses>>

(* A database of fewer than ten rows is synced in the background. *)
KeepList(p) ==
  /\ proc[p].at = "keep"
  /\ listCache' = {proc[p].copy}
  /\ \E few \in BOOLEAN : EndRequest(p, few)
  /\ UNCHANGED <<erp, given, custDb, detailCache, saved, custCauses>>

-----------------------------------------------------------------------------
(* syncCustomers, by hand or in the background *)

StartSync(t) ==
  /\ proc[<<t, "request">>].at = "idle"
  /\ proc' = [proc EXCEPT ![<<t, "request">>].at = "load"]
  /\ UNCHANGED <<erp, given, custDb, detailCache, listCache, saved, custCauses>>

LoadErp(p) ==
  /\ proc[p].at = "load"
  /\ Goto(p, "merge", erp)
  /\ UNCHANGED <<erp, given, custDb, detailCache, listCache, saved, custCauses>>

AfterUpsert == [upsert |-> "clear", store |-> "reread", merge |-> "merge"]

(* syncCustomerToDb: one of the records in hand replaces its row. *)
Upsert(p, c) ==
  LET row == Only(c, proc[p].copy) IN
  /\ proc[p].at \in DOMAIN AfterUpsert
  /\ c \in DOMAIN proc[p].copy
  /\ custDb' = Over(row, custDb)
  /\ custCauses' = FilledLate(p, c, row)
  /\ Goto(p, AfterUpsert[proc[p].at], Without(c, proc[p].copy))
  /\ UNCHANGED <<erp, given, detailCache, listCache, saved>>

EndMerge(p) ==
  /\ proc[p].at = "merge"
  /\ DOMAIN proc[p].copy = {}
  /\ Goto(p, "flushLists", Nothing)
  /\ UNCHANGED <<erp, given, custDb, detailCache, listCache, saved, custCauses>>

(* Mutant: the lists are thought to be cleared already. *)
FlushListsNot(p) ==
  /\ proc[p].at = "flushLists"
  /\ Goto(p, "flushDetails", Nothing)
  /\ UNCHANGED <<erp, given, custDb, detailCache, listCache, saved, custCauses>>

FlushLists(p) ==
  /\ proc[p].at = "flushLists"
  /\ listCache' = {}
  /\ Goto(p, "flushDetails", Nothing)
  /\ UNCHANGED <<erp, given, custDb, detailCache, saved, custCauses>>

FlushDetails(p) ==
  /\ proc[p].at = "flushDetails"
  /\ detailCache' = Nothing
  /\ EndRequest(p, FALSE)
  /\ UNCHANGED <<erp, given, custDb, listCache, saved, custCauses>>

-----------------------------------------------------------------------------
(* Faults *)

AsksErp == {"read", "put", "fetch", "erase", "post", "load"}

(* An ERP call fails for good: the request or the sync ends there. *)
ErpFails(p) ==
  /\ proc[p].at \in AsksErp
  /\ Fault("erp")
  /\ EndRequest(p, FALSE)
  /\ UNCHANGED <<erp, given, custDb, detailCache, listCache, saved>>

(* The ERP did what it was asked, and answers 5xx (the client asks again)  *)
(* or not at all (the request fails).                                      *)
ErpAppliesUnanswered(p, c) ==
  /\ \/ /\ proc[p].at = "put" /\ c = proc[p].about /\ c \in DOMAIN erp
        /\ erp' = [erp EXCEPT ![c] = Merged(p)] /\ UNCHANGED given
     \/ /\ proc[p].at = "erase" /\ c = proc[p].about /\ c \in DOMAIN erp
        /\ erp' = Without(c, erp) /\ UNCHANGED given
     \/ /\ proc[p].at = "post" /\ c \notin given
        /\ erp' = Over([id \in {c} |-> {p[1]}], erp) /\ given' = given \cup {c}
  /\ Fault("erp")
  /\ EndRequest(p, FALSE) \/ UNCHANGED proc
  /\ UNCHANGED <<custDb, detailCache, listCache, saved>>

(* An upsert that fails is only logged; a failed deleteOne fails the       *)
(* request when the ERP has already lost the customer.                     *)
DatabaseFails(p, c) ==
  /\ Fault("database")
  /\ \/ proc[p].at \in DOMAIN AfterUpsert /\ c \in DOMAIN proc[p].copy
        /\ Goto(p, AfterUpsert[proc[p].at], Without(c, proc[p].copy))
     \/ proc[p].at = "remove" /\ c = proc[p].about /\ EndRequest(p, FALSE)
  /\ UNCHANGED <<erp, given, custDb, detailCache, listCache, saved>>

(* safeRedisOperation gives up silently: a lookup misses, a write or a     *)
(* deletion does nothing.                                                  *)
RedisFails(p) ==
  /\ Fault("redis")
  /\ \/ proc[p].at = "get" /\ Goto(p, "fetch", Nothing)
     \/ proc[p].at = "lookup" /\ Goto(p, "query", Nothing)
     \/ proc[p].at \in {"fill", "keep", "flushDetails"} /\ EndRequest(p, FALSE)
     \/ proc[p].at = "flushLists" /\ Goto(p, "flushDetails", Nothing)
     \/ proc[p].at = "clear"
        /\ proc' = [proc EXCEPT ![p].at = "get", ![<<p[1], "sync">>].at = "load"]
  /\ UNCHANGED <<erp, given, custDb, detailCache, listCache, saved>>

(* The API restarts: requests and syncs are gone, Redis and Mongo stay. *)
CustCrash ==
  /\ ~CustQuiet
  /\ Fault("crash")
  /\ proc' = [p \in Procs |-> IF Idle(p) THEN proc[p]
                              ELSE [proc[p] EXCEPT !.at = "done", !.copy = Nothing]]
  /\ UNCHANGED <<erp, given, custDb, detailCache, listCache, saved>>

(* Somebody edits or deletes a customer in the ERP itself. *)
EditOutside(c) ==
  /\ c \in DOMAIN erp
  /\ "outside" \notin custCauses
  /\ Fault("outside")
  /\ erp' \in {[erp EXCEPT ![c] = @ \cup {Outsider}], Without(c, erp)}
  /\ UNCHANGED <<given, custDb, detailCache, listCache, proc, saved>>

(* The entries live for half an hour and an hour. *)
Expire ==
  /\ \/ listCache # {} /\ listCache' = {} /\ UNCHANGED detailCache
     \/ detailCache # Nothing /\ detailCache' = Nothing /\ UNCHANGED listCache
  /\ UNCHANGED <<erp, given, custDb, proc, saved, custCauses>>

-----------------------------------------------------------------------------

Start(t) ==
  \/ \E c \in CustomerIds : StartUpdate(t, c) \/ StartRead(t, c) \/ StartDelete(t, c)
  \/ StartCreate(t) \/ StartList(t) \/ StartSync(t)

Advance(p) ==
  \/ ReadErp(p) \/ PutErp(p) \/ ClearDetail(p)
  \/ GetDetail(p) \/ FetchDetail(p) \/ Reread(p) \/ FillDetail(p)
  \/ EraseErp(p) \/ RemoveRow(p)
  \/ LookupList(p) \/ QueryList(p) \/ KeepList(p)
  \/ LoadErp(p) \/ EndMerge(p) \/ FlushLists(p) \/ FlushDetails(p)
  \/ \E c \in CustomerIds : PostErp(p, c) \/ Upsert(p, c)

Fails(p) ==
  \/ ErpFails(p) \/ RedisFails(p)
  \/ \E c \in CustomerIds : ErpAppliesUnanswered(p, c) \/ DatabaseFails(p, c)

CustNext ==
  \/ \E t \in Tasks : Start(t)
  \/ \E p \in Procs : Advance(p) \/ Fails(p)
  \/ \E c \in CustomerIds : EditOutside(c)
  \/ CustCrash \/ Expire

CustSpec == CustInit /\ [][CustNext]_custVars

-----------------------------------------------------------------------------
(* Properties *)

(* The shape of the state. *)
CustTypeOK ==
  /\ erp \in Tables /\ given \subseteq CustomerIds
  /\ custDb \in Tables /\ detailCache \in Tables
  /\ listCache \subseteq Tables
  /\ proc \in [Procs -> Process]
  /\ saved \subseteq Tasks
  /\ custCauses \subseteq Faults \cup Races

(* When every request and every sync it left behind has ended, the         *)
(* database has the ERP's customers as the ERP has them, created, updated  *)
(* and deleted ones alike, unless a call or a write failed, the ERP was    *)
(* changed by others, or an ERP write crossed a copy in another's hands.   *)
DatabaseFollowsErp ==
  CustQuiet /\ custCauses \cap {"erp", "database", "crash", "outside", "crossed"} = {}
    => custDb = erp

(* Then, too, a cached list or customer is what the database has, although *)
(* no request clears the lists itself: only the sync behind it does.  (Of  *)
(* the lists this is not claimed when an ERP write crossed a copy: a page  *)
(* that stores an old record starts no sync.)                              *)
CachesFollowDatabase ==
  CustQuiet /\ custCauses \cap (Faults \cup {"lateFill"}) = {}
    => /\ "crossed" \notin custCauses => listCache \subseteq {custDb}
       /\ \A c \in DOMAIN detailCache : Only(c, detailCache) = Only(c, custDb)

(* An edit whose PUT the ERP answered stays in the ERP's record as long as *)
(* the customer does, although every PUT carries a whole record that was   *)
(* read before, unless two updates of one customer overlapped.             *)
NoEditLost ==
  "overlap" \notin custCauses =>
    \A t \in saved :
      LET c == proc[<<t, "request">>].about IN c \in DOMAIN erp => t \in erp[c]

=============================================================================
