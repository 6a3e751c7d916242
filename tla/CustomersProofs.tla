--------------------------- MODULE CustomersProofs ---------------------------
(***************************************************************************)
(* Theorems about Customers, for any customers, requests and bound of      *)
(* faults: the types, that no edit is lost unless two updates of one       *)
(* customer overlap, that the database follows the ERP, and the caches the *)
(* database.                                                               *)
(***************************************************************************)
EXTENDS Customers, TLAPS

-----------------------------------------------------------------------------
(* Tables of records *)

(* A table maps some ids to sets of edits. *)
LEMMA TableFacts ==
  ASSUME NEW f \in Tables
  PROVE  /\ DOMAIN f \in SUBSET CustomerIds
         /\ f \in [DOMAIN f -> SUBSET Edits]
  BY DEF Tables

(* And every such map is a table. *)
LEMMA IsTable ==
  ASSUME NEW ids \in SUBSET CustomerIds, NEW f \in [ids -> SUBSET Edits]
  PROVE  f \in Tables
  BY DEF Tables

(* The empty table. *)
LEMMA NothingTable == Nothing \in Tables /\ DOMAIN Nothing = {}
  <1>1. Nothing \in [{} -> SUBSET Edits]
    BY DEF Nothing
  <1> QED BY <1>1, IsTable DEF Nothing

(* The lookup of one id. *)
LEMMA OnlyTable ==
  ASSUME NEW c, NEW f \in Tables
  PROVE  /\ Only(c, f) \in Tables
         /\ DOMAIN Only(c, f) = {c} \cap DOMAIN f
         /\ c \in DOMAIN f => Only(c, f)[c] = f[c]
  <1>1. DOMAIN f \in SUBSET CustomerIds /\ f \in [DOMAIN f -> SUBSET Edits]
    BY TableFacts
  <1>2. {c} \cap DOMAIN f \in SUBSET CustomerIds
        /\ Only(c, f) \in [{c} \cap DOMAIN f -> SUBSET Edits]
    BY <1>1 DEF Only
  <1> QED BY <1>2, IsTable DEF Only

(* A table without one id. *)
LEMMA WithoutTable ==
  ASSUME NEW c, NEW f \in Tables
  PROVE  /\ Without(c, f) \in Tables
         /\ DOMAIN Without(c, f) = DOMAIN f \ {c}
         /\ \A d \in DOMAIN f \ {c} : Without(c, f)[d] = f[d]
  <1>1. DOMAIN f \in SUBSET CustomerIds /\ f \in [DOMAIN f -> SUBSET Edits]
    BY TableFacts
  <1>2. DOMAIN f \ {c} \in SUBSET CustomerIds
        /\ Without(c, f) \in [DOMAIN f \ {c} -> SUBSET Edits]
    BY <1>1 DEF Without, Restrict
  <1> QED BY <1>2, IsTable DEF Without, Restrict

(* One table laid over another. *)
LEMMA OverTable ==
  ASSUME NEW f \in Tables, NEW g \in Tables
  PROVE  /\ Over(f, g) \in Tables
         /\ DOMAIN Over(f, g) = DOMAIN f \cup DOMAIN g
         /\ \A d \in DOMAIN f : Over(f, g)[d] = f[d]
         /\ \A d \in DOMAIN g \ DOMAIN f : Over(f, g)[d] = g[d]
  <1>1. /\ DOMAIN f \in SUBSET CustomerIds /\ f \in [DOMAIN f -> SUBSET Edits]
        /\ DOMAIN g \in SUBSET CustomerIds /\ g \in [DOMAIN g -> SUBSET Edits]
    BY TableFacts
  <1>2. DOMAIN f \cup DOMAIN g \in SUBSET CustomerIds
        /\ Over(f, g) \in [DOMAIN f \cup DOMAIN g -> SUBSET Edits]
    BY <1>1 DEF Over
  <1> QED BY <1>2, IsTable DEF Over

(* A record of one customer. *)
LEMMA OneTable ==
  ASSUME NEW c \in CustomerIds, NEW e \in SUBSET Edits
  PROVE  /\ [id \in {c} |-> e] \in Tables
         /\ DOMAIN [id \in {c} |-> e] = {c} /\ [id \in {c} |-> e][c] = e
  <1>1. {c} \in SUBSET CustomerIds /\ [id \in {c} |-> e] \in [{c} -> SUBSET Edits]
    OBVIOUS
  <1>2. [id \in {c} |-> e] \in Tables
    BY <1>1, IsTable
  <1> QED BY <1>2

(* Tables that agree on every id are the same. *)
LEMMA SameTable ==
  ASSUME NEW f \in Tables, NEW g \in Tables, DOMAIN f = DOMAIN g,
         \A d \in DOMAIN f : f[d] = g[d]
  PROVE  f = g
  BY TableFacts

-----------------------------------------------------------------------------
(* The pieces of an action *)

(* Goto moves one process. *)
LEMMA GotoFacts ==
  ASSUME proc \in [Procs -> Process], NEW p \in Procs,
         NEW step \in Steps, NEW copy \in Tables, Goto(p, step, copy)
  PROVE  /\ proc' \in [Procs -> Process]
         /\ proc'[p].at = step /\ proc'[p].copy = copy /\ proc'[p].about = proc[p].about
         /\ \A q \in Procs : q # p => proc'[q] = proc[q]
  BY DEF Goto, Process

(* A request and the sync it may start. *)
LEMMA ProcFacts ==
  /\ \A t \in Tasks : <<t, "request">> \in Procs /\ <<t, "sync">> \in Procs
                      /\ <<t, "request">> # <<t, "sync">>
  /\ \A p \in Procs : /\ p[1] \in Tasks /\ p[2] \in {"request", "sync"}
                      /\ p = <<p[1], p[2]>>
  BY DEF Procs

(* EndRequest ends one process, and starts the sync beside it or not. *)
LEMMA EndFacts ==
  ASSUME proc \in [Procs -> Process], NEW p \in Procs, NEW left \in BOOLEAN,
         EndRequest(p, left)
  PROVE  /\ proc' \in [Procs -> Process]
         /\ \A q \in Procs : proc'[q].about = proc[q].about
         /\ \A q \in Procs : \/ proc'[q] = proc[q] /\ q # p
                             \/ proc'[q].at = "done" /\ q = p
                             \/ proc'[q].at = "load" /\ q[2] = "sync"
         /\ left => proc'[<<p[1], "sync">>].at = "load"
  <1>1. <<p[1], "sync">> \in Procs /\ <<p[1], "sync">>[2] = "sync"
    BY ProcFacts
  <1>2. \A q \in Procs :
          /\ [proc[q] EXCEPT !.at = "load"] \in Process
          /\ [proc[q] EXCEPT !.at = "load"].at = "load"
          /\ [proc[q] EXCEPT !.at = "load"].about = proc[q].about
    BY DEF Process, Steps
  <1>3. /\ [proc[p] EXCEPT !.at = "done", !.copy = Nothing] \in Process
        /\ [proc[p] EXCEPT !.at = "done", !.copy = Nothing].at = "done"
        /\ [proc[p] EXCEPT !.at = "done", !.copy = Nothing].about = proc[p].about
    BY NothingTable DEF Process, Steps
  <1> QED BY <1>1, <1>2, <1>3 DEF EndRequest

(* updateCustomer goes on with its own read, and starts the sync.          *)
ClearsDetail(p) ==
  proc' = [proc EXCEPT ![p].at = "get", ![<<p[1], "sync">>].at = "load"]

LEMMA ClearFacts ==
  ASSUME proc \in [Procs -> Process], NEW p \in Procs, ClearsDetail(p)
  PROVE  /\ proc' \in [Procs -> Process]
         /\ \A q \in Procs : proc'[q].about = proc[q].about
         /\ \A q \in Procs : \/ proc'[q] = proc[q] /\ q # p
                             \/ proc'[q].at = "get" /\ q = p
                             \/ proc'[q].at = "load" /\ q[2] = "sync"
         /\ proc'[<<p[1], "sync">>].at = "load"
  <1> DEFINE s == <<p[1], "sync">>
             first == [proc EXCEPT ![p].at = "get"]
  <1>1. s \in Procs /\ s[2] = "sync"
    BY ProcFacts
  <1>2. first \in [Procs -> Process]
    BY DEF Process, Steps
  <1>3. /\ first[p].at = "get" /\ first[p].about = proc[p].about
        /\ \A q \in Procs : q # p => first[q] = proc[q]
    BY DEF Process
  <1>4. proc' = [first EXCEPT ![s].at = "load"]
    BY DEF ClearsDetail
  <1> HIDE DEF first, s
  <1>5. proc' \in [Procs -> Process]
    BY <1>1, <1>2, <1>4 DEF Process, Steps
  <1>6. /\ \A q \in Procs : q # s => proc'[q] = first[q]
        /\ proc'[s].at = "load" /\ proc'[s].about = first[s].about
    BY <1>1, <1>2, <1>4 DEF Process
  <1> QED BY <1>1, <1>3, <1>5, <1>6 DEF s

-----------------------------------------------------------------------------
(* Types *)

(* Where a process stands when it holds the record it is about to change,  *)
(* and which steps only a request takes: a sync begins by loading.         *)
RequestOnly == {"read", "put", "erase", "remove", "post"}

PutHolds ==
  \A p \in Procs :
    /\ proc[p].at = "put" => proc[p].about \in DOMAIN proc[p].copy
    /\ proc[p].at \in RequestOnly => p[2] = "request"

Shape == CustTypeOK /\ PutHolds

(* The payload of a PUT is a record. *)
LEMMA MergedType ==
  ASSUME Shape, NEW p \in Procs, proc[p].at = "put"
  PROVE  Merged(p) \in SUBSET Edits /\ p[1] \in Merged(p)
  <1>1. proc[p].copy \in Tables /\ proc[p].about \in DOMAIN proc[p].copy
    BY DEF Shape, CustTypeOK, PutHolds, Process
  <1>2. proc[p].copy[proc[p].about] \in SUBSET Edits
    BY <1>1, TableFacts
  <1> QED BY <1>2, ProcFacts DEF Merged, Edits

(* The initial state. *)
LEMMA InitShape == CustInit => Shape
  <1> SUFFICES ASSUME CustInit PROVE Shape
    OBVIOUS
  <1>1. [c \in Initially |-> {}] \in Tables
    BY CustomersAssumption, IsTable
  <1>2. (CHOOSE c \in CustomerIds : TRUE) \in CustomerIds
    BY CustomersAssumption
  <1>3. proc \in [Procs -> Process] /\ \A p \in Procs : proc[p].at = "idle"
    BY <1>2, NothingTable DEF CustInit, Init_proc, Process, Steps
  <1> QED BY <1>1, <1>3, NothingTable, CustomersAssumption
          DEF CustInit, Shape, CustTypeOK, PutHolds, RequestOnly

(* The records of the causes only grow, by known ones. *)
LEMMA CauseTypes ==
  ASSUME custCauses \subseteq Faults \cup Races
  PROVE  /\ \A p, c : CrossedBy(p, c) \subseteq Faults \cup Races
         /\ \A p, c, rows : FilledLate(p, c, rows) \subseteq Faults \cup Races
         /\ \A kind \in Faults : Fault(kind) => custCauses' \subseteq Faults \cup Races
  BY DEF CrossedBy, FilledLate, Fault, Faults, Races

(* The processes keep their shape, and PutHolds, in every step of Goto     *)
(* that does not lead to a PUT or that leads there with the record,        *)
(* and in every end of a request.                                          *)
LEMMA GotoShape ==
  ASSUME Shape, NEW p \in Procs, NEW step \in Steps, NEW copy \in Tables, Goto(p, step, copy),
         step = "put" => proc[p].about \in DOMAIN copy,
         step \in RequestOnly => p[2] = "request"
  PROVE  proc' \in [Procs -> Process] /\ PutHolds'
  BY GotoFacts DEF Shape, CustTypeOK, PutHolds

LEMMA EndShape ==
  ASSUME Shape, NEW p \in Procs, NEW left \in BOOLEAN, EndRequest(p, left)
  PROVE  proc' \in [Procs -> Process] /\ PutHolds'
  BY EndFacts DEF Shape, CustTypeOK, PutHolds, RequestOnly

(* A request that arrives moves its own process from idle, and nothing     *)
(* else.                                                                   *)
LEMMA StartFacts ==
  ASSUME proc \in [Procs -> Process], NEW t \in Tasks, Start(t)
  PROVE  /\ proc' \in [Procs -> Process]
         /\ proc[<<t, "request">>].at = "idle"
         /\ proc'[<<t, "request">>].at \in {"read", "get", "erase", "post", "lookup", "load"}
         /\ \A q \in Procs : q # <<t, "request">> => proc'[q] = proc[q]
         /\ UNCHANGED <<erp, given, custDb, detailCache, listCache, saved, custCauses>>
  <1> DEFINE r == <<t, "request">>
  <1>1. r \in Procs
    BY ProcFacts
  <1>2. ASSUME NEW step \in {"read", "get", "erase"}, NEW c \in CustomerIds,
               proc' = [proc EXCEPT ![r].at = step, ![r].about = c]
        PROVE  /\ proc' \in [Procs -> Process] /\ proc'[r].at = step
               /\ \A q \in Procs : q # r => proc'[q] = proc[q]
    <2>1. step \in Steps
      BY DEF Steps
    <2> QED BY <1>1, <1>2, <2>1 DEF Process
  <1>3. ASSUME NEW step \in {"post", "lookup", "load"},
               proc' = [proc EXCEPT ![r].at = step]
        PROVE  /\ proc' \in [Procs -> Process] /\ proc'[r].at = step
               /\ \A q \in Procs : q # r => proc'[q] = proc[q]
    <2>1. step \in Steps
      BY DEF Steps
    <2> QED BY <1>1, <1>3, <2>1 DEF Process
  <1>4. CASE \E c \in CustomerIds : StartUpdate(t, c) \/ StartRead(t, c) \/ StartDelete(t, c)
    BY <1>2, <1>4 DEF StartUpdate, StartRead, StartDelete
  <1>5. CASE StartCreate(t) \/ StartList(t) \/ StartSync(t)
    BY <1>3, <1>5 DEF StartCreate, StartList, StartSync
  <1> QED BY <1>4, <1>5 DEF Start

LEMMA StartShape ==
  ASSUME Shape, NEW t \in Tasks, Start(t)
  PROVE  Shape'
  <1>1. <<t, "request">>[2] = "request"
    OBVIOUS
  <1> QED BY <1>1, StartFacts DEF Shape, CustTypeOK, PutHolds, RequestOnly

(* A step of a request or of a sync keeps the shape. *)
LEMMA AdvanceShape ==
  ASSUME Shape, NEW p \in Procs, Advance(p)
  PROVE  Shape'
  <1>1. /\ proc \in [Procs -> Process] /\ erp \in Tables /\ custDb \in Tables
        /\ given \subseteq CustomerIds /\ detailCache \in Tables /\ listCache \subseteq Tables
        /\ saved \subseteq Tasks /\ custCauses \subseteq Faults \cup Races
        /\ proc[p].copy \in Tables /\ proc[p].about \in CustomerIds
    BY DEF Shape, CustTypeOK, Process
  <1>2. /\ \A step \in {"put", "upsert", "clear", "get", "fetch", "store", "reread", "fill",
                       "remove", "query", "keep", "merge", "flushLists", "flushDetails"} :
               step \in Steps
        /\ \A step \in {"upsert", "clear", "get", "fetch", "store", "reread", "fill",
                       "query", "keep", "merge", "flushLists", "flushDetails"} :
               step \notin RequestOnly /\ step # "put"
    BY DEF Steps, RequestOnly
  <1>3. ASSUME proc' \in [Procs -> Process], PutHolds', erp' \in Tables, custDb' \in Tables,
               given' \subseteq CustomerIds, detailCache' \in Tables, listCache' \subseteq Tables,
               saved' \subseteq Tasks, custCauses' \subseteq Faults \cup Races
        PROVE  Shape'
    BY <1>3 DEF Shape, CustTypeOK
  <1>4. CASE ReadErp(p)
    <2>1. proc' \in [Procs -> Process] /\ PutHolds'
      <3>1. CASE EndRequest(p, FALSE)
        BY <3>1, EndShape
      <3>2. CASE proc[p].about \in DOMAIN erp /\ Goto(p, "put", Only(proc[p].about, erp))
        <4>1. p[2] = "request"
          BY <1>4 DEF ReadErp, Shape, PutHolds, RequestOnly
        <4>2. /\ Only(proc[p].about, erp) \in Tables
              /\ proc[p].about \in DOMAIN Only(proc[p].about, erp)
          BY <1>1, <3>2, OnlyTable
        <4> QED BY <1>2, <3>2, <4>1, <4>2, GotoShape
      <3> QED BY <1>4, <3>1, <3>2 DEF ReadErp
    <2>2. custCauses' \subseteq Faults \cup Races
      BY <1>1, <1>4 DEF ReadErp, Races
    <2> QED BY <1>1, <1>3, <1>4, <2>1, <2>2 DEF ReadErp
  <1>5. CASE PutErp(p)
    <2>1. CASE EndRequest(p, FALSE) /\ UNCHANGED <<erp, saved, custCauses>>
      BY <1>1, <1>3, <1>5, <2>1, EndShape DEF PutErp
    <2>2. CASE proc[p].about \in DOMAIN erp
      <3>1. Merged(p) \in SUBSET Edits
        BY <1>5, MergedType DEF PutErp
      <3>2. erp' \in Tables
        <4>1. /\ DOMAIN erp \in SUBSET CustomerIds
              /\ [erp EXCEPT ![proc[p].about] = Merged(p)] \in [DOMAIN erp -> SUBSET Edits]
          BY <1>1, <3>1, TableFacts
        <4> QED BY <1>5, <2>2, <4>1, IsTable DEF PutErp
      <3>3. [id \in {proc[p].about} |-> Merged(p)] \in Tables
        BY <1>1, <3>1, OneTable
      <3>4. proc' \in [Procs -> Process] /\ PutHolds'
        BY <1>2, <1>5, <2>2, <3>3, GotoShape DEF PutErp
      <3>5. saved' \subseteq Tasks
        BY <1>1, <1>5, <2>2, ProcFacts DEF PutErp
      <3> QED BY <1>1, <1>3, <1>5, <2>2, <3>2, <3>4, <3>5, CauseTypes DEF PutErp
    <2> QED BY <1>5, <2>1, <2>2 DEF PutErp
  <1>6. CASE ClearDetail(p)
    <2>1. ClearsDetail(p)
      BY <1>6 DEF ClearDetail, ClearsDetail
    <2>2. proc' \in [Procs -> Process] /\ PutHolds'
      BY <1>1, <2>1, ClearFacts DEF Shape, PutHolds, RequestOnly
    <2> QED BY <1>1, <1>3, <1>6, <2>2, WithoutTable DEF ClearDetail
  <1>7. CASE GetDetail(p) \/ LookupList(p)
    <2>1. proc' \in [Procs -> Process] /\ PutHolds'
      BY <1>2, <1>7, GotoShape, EndShape, NothingTable DEF GetDetail, LookupList
    <2> QED BY <1>1, <1>3, <1>7, <2>1 DEF GetDetail, LookupList
  <1>8. CASE FetchDetail(p) \/ Reread(p)
    <2>1. proc' \in [Procs -> Process] /\ PutHolds'
      BY <1>1, <1>2, <1>8, GotoShape, EndShape, OnlyTable DEF FetchDetail, Reread
    <2> QED BY <1>1, <1>3, <1>8, <2>1 DEF FetchDetail, Reread
  <1>9. CASE FillDetail(p)
    BY <1>1, <1>3, <1>9, EndShape, OverTable DEF FillDetail
  <1>10. CASE EraseErp(p)
    <2>1. proc' \in [Procs -> Process] /\ PutHolds'
      <3>1. p[2] = "request"
        BY <1>10 DEF EraseErp, Shape, PutHolds, RequestOnly
      <3> QED BY <1>2, <1>10, <3>1, GotoShape, EndShape, NothingTable DEF EraseErp
    <2>2. CASE UNCHANGED <<erp, custCauses>>
      BY <1>1, <1>3, <1>10, <2>1, <2>2 DEF EraseErp
    <2>3. CASE erp' = Without(proc[p].about, erp) /\ custCauses' = CrossedBy(p, proc[p].about)
      <3>1. erp' \in Tables
        BY <1>1, <2>3, WithoutTable
      <3>2. custCauses' \subseteq Faults \cup Races
        BY <1>1, <2>3, CauseTypes
      <3> QED BY <1>1, <1>3, <1>10, <2>1, <3>1, <3>2 DEF EraseErp
    <2> QED BY <1>10, <2>2, <2>3 DEF EraseErp
  <1>11. CASE RemoveRow(p)
    BY <1>1, <1>3, <1>11, EndShape, WithoutTable, CauseTypes DEF RemoveRow
  <1>12. CASE QueryList(p) \/ LoadErp(p)
    <2>1. proc' \in [Procs -> Process] /\ PutHolds'
      BY <1>1, <1>2, <1>12, GotoShape DEF QueryList, LoadErp
    <2> QED BY <1>1, <1>3, <1>12, <2>1 DEF QueryList, LoadErp
  <1>13. CASE KeepList(p)
    BY <1>1, <1>3, <1>13, EndShape DEF KeepList
  <1>14. CASE EndMerge(p) \/ FlushLists(p)
    <2>1. proc' \in [Procs -> Process] /\ PutHolds'
      BY <1>2, <1>14, GotoShape, NothingTable DEF EndMerge, FlushLists
    <2> QED BY <1>1, <1>3, <1>14, <2>1 DEF EndMerge, FlushLists
  <1>15. CASE FlushDetails(p)
    BY <1>1, <1>3, <1>15, EndShape, NothingTable DEF FlushDetails
  <1>16. ASSUME NEW c \in CustomerIds, PostErp(p, c) PROVE Shape'
    <2>1. {p[1]} \in SUBSET Edits
      BY ProcFacts DEF Edits
    <2>2. erp' \in Tables
      BY <1>1, <1>16, <2>1, OneTable, OverTable DEF PostErp
    <2> QED BY <1>1, <1>3, <1>16, <2>2, EndShape, CauseTypes DEF PostErp
  <1>17. ASSUME NEW c \in CustomerIds, Upsert(p, c) PROVE Shape'
    <2>1. AfterUpsert[proc[p].at] \in {"clear", "reread", "merge"}
      BY <1>17 DEF Upsert, AfterUpsert
    <2>2. proc' \in [Procs -> Process] /\ PutHolds'
      BY <1>1, <1>2, <1>17, <2>1, GotoShape, WithoutTable DEF Upsert
    <2> QED BY <1>1, <1>3, <1>17, <2>2, OnlyTable, OverTable, CauseTypes DEF Upsert
  <1> QED BY <1>4, <1>5, <1>6, <1>7, <1>8, <1>9, <1>10, <1>11, <1>12, <1>13, <1>14, <1>15,
             <1>16, <1>17 DEF Advance

(* So does a fault. *)
LEMMA FaultShape ==
  ASSUME Shape,
         CustCrash \/ (\E c \in CustomerIds : EditOutside(c)) \/ (\E p \in Procs : Fails(p))
  PROVE  Shape'
  <1>1. /\ proc \in [Procs -> Process] /\ erp \in Tables /\ custDb \in Tables
        /\ given \subseteq CustomerIds /\ detailCache \in Tables /\ listCache \subseteq Tables
        /\ saved \subseteq Tasks /\ custCauses \subseteq Faults \cup Races
        /\ \A p \in Procs : proc[p].copy \in Tables /\ proc[p].about \in CustomerIds
    BY DEF Shape, CustTypeOK, Process
  <1>2. /\ \A step \in {"clear", "get", "fetch", "reread", "query", "merge", "flushDetails"} :
               step \in Steps /\ step \notin RequestOnly /\ step # "put"
        /\ {"erp", "database", "redis", "crash", "outside"} \subseteq Faults
    BY DEF Steps, RequestOnly, Faults
  <1>3. ASSUME proc' \in [Procs -> Process], PutHolds', erp' \in Tables,
               given' \subseteq CustomerIds, NEW kind \in Faults, Fault(kind),
               UNCHANGED <<custDb, detailCache, listCache, saved>>
        PROVE  Shape'
    BY <1>1, <1>3, CauseTypes DEF Shape, CustTypeOK
  <1>4. CASE CustCrash
    <2>1. proc' \in [Procs -> Process] /\ PutHolds'
      <3>1. \A q \in Procs : /\ [proc[q] EXCEPT !.at = "done", !.copy = Nothing] \in Process
                             /\ [proc[q] EXCEPT !.at = "done", !.copy = Nothing].at = "done"
        BY <1>1, NothingTable DEF Process, Steps
      <3>2. /\ proc' \in [Procs -> Process]
            /\ \A q \in Procs : proc'[q] = proc[q] \/ proc'[q].at = "done"
        BY <1>1, <1>4, <3>1 DEF CustCrash
      <3> QED BY <3>2 DEF Shape, PutHolds, RequestOnly
    <2> QED BY <1>1, <1>2, <1>3, <1>4, <2>1 DEF CustCrash
  <1>5. ASSUME NEW c \in CustomerIds, EditOutside(c) PROVE Shape'
    <2>1. erp' \in Tables
      <3>1. DOMAIN erp \in SUBSET CustomerIds /\ erp \in [DOMAIN erp -> SUBSET Edits]
        BY <1>1, TableFacts
      <3>2. [erp EXCEPT ![c] = erp[c] \cup {Outsider}] \in Tables
        BY <3>1, <1>5, IsTable DEF Edits, EditOutside
      <3>3. erp' = [erp EXCEPT ![c] = erp[c] \cup {Outsider}] \/ erp' = Without(c, erp)
        BY <1>5 DEF EditOutside
      <3>4. Without(c, erp) \in Tables
        BY <1>1, WithoutTable
      <3> QED BY <3>2, <3>3, <3>4
    <2>2. proc' \in [Procs -> Process] /\ PutHolds'
      BY <1>1, <1>5 DEF EditOutside, Shape, PutHolds
    <2> QED BY <1>1, <1>2, <1>3, <1>5, <2>1, <2>2 DEF EditOutside
  <1>6. ASSUME NEW p \in Procs, ErpFails(p) PROVE Shape'
    BY <1>1, <1>2, <1>3, <1>6, EndShape DEF ErpFails
  <1>7. ASSUME NEW p \in Procs, RedisFails(p) PROVE Shape'
    <2>1. proc' \in [Procs -> Process] /\ PutHolds'
      <3>1. CASE \E step \in {"fetch", "query", "flushDetails"} : Goto(p, step, Nothing)
        BY <1>2, <3>1, GotoShape, NothingTable
      <3>2. CASE EndRequest(p, FALSE)
        BY <3>2, EndShape
      <3>3. CASE ClearsDetail(p)
        BY <1>1, <3>3, ClearFacts DEF Shape, PutHolds, RequestOnly
      <3> QED BY <1>7, <3>1, <3>2, <3>3 DEF RedisFails, ClearsDetail
    <2> QED BY <1>1, <1>2, <1>3, <1>7, <2>1 DEF RedisFails
  <1>8. ASSUME NEW p \in Procs, NEW c \in CustomerIds, ErpAppliesUnanswered(p, c) PROVE Shape'
    <2>1. erp' \in Tables /\ given' \subseteq CustomerIds
      <3>1. CASE proc[p].at = "put" /\ c \in DOMAIN erp /\ UNCHANGED given
                 /\ erp' = [erp EXCEPT ![c] = Merged(p)]
        <4>1. /\ DOMAIN erp \in SUBSET CustomerIds
              /\ [erp EXCEPT ![c] = Merged(p)] \in [DOMAIN erp -> SUBSET Edits]
          BY <1>1, <3>1, MergedType, TableFacts
        <4> QED BY <1>1, <3>1, <4>1, IsTable
      <3>2. CASE erp' = Without(c, erp) /\ UNCHANGED given
        BY <1>1, <3>2, WithoutTable
      <3>3. CASE erp' = Over([id \in {c} |-> {p[1]}], erp) /\ given' = given \cup {c}
        <4>1. {p[1]} \in SUBSET Edits
          BY ProcFacts DEF Edits
        <4> QED BY <1>1, <3>3, <4>1, OneTable, OverTable, ZenonT(30)
      <3> QED BY <1>8, <3>1, <3>2, <3>3 DEF ErpAppliesUnanswered
    <2>2. proc' \in [Procs -> Process] /\ PutHolds'
      <3>1. CASE UNCHANGED proc
        BY <1>1, <3>1 DEF Shape, PutHolds
      <3> QED BY <1>8, <3>1, EndShape DEF ErpAppliesUnanswered
    <2> QED BY <1>1, <1>2, <1>3, <1>8, <2>1, <2>2 DEF ErpAppliesUnanswered
  <1>9. ASSUME NEW p \in Procs, NEW c \in CustomerIds, DatabaseFails(p, c) PROVE Shape'
    <2>1. proc' \in [Procs -> Process] /\ PutHolds'
      <3>1. CASE proc[p].at \in DOMAIN AfterUpsert
                 /\ Goto(p, AfterUpsert[proc[p].at], Without(c, proc[p].copy))
        <4>1. AfterUpsert[proc[p].at] \in {"clear", "reread", "merge"}
          BY <3>1 DEF AfterUpsert
        <4> QED BY <1>1, <1>2, <3>1, <4>1, GotoShape, WithoutTable
      <3>2. CASE EndRequest(p, FALSE)
        BY <3>2, EndShape
      <3> QED BY <1>9, <3>1, <3>2 DEF DatabaseFails
    <2> QED BY <1>1, <1>2, <1>3, <1>9, <2>1 DEF DatabaseFails
  <1> QED BY <1>4, <1>5, <1>6, <1>7, <1>8, <1>9 DEF Fails

(* Every step keeps the shape. *)
LEMMA NextShape == Shape /\ [CustNext]_custVars => Shape'
  <1> SUFFICES ASSUME Shape, [CustNext]_custVars PROVE Shape'
    OBVIOUS
  <1>1. CASE Expire
    BY <1>1, NothingTable DEF Expire, Shape, CustTypeOK, PutHolds
  <1>2. CASE UNCHANGED custVars
    BY <1>2 DEF custVars, Shape, CustTypeOK, PutHolds
  <1> QED BY <1>1, <1>2, StartShape, AdvanceShape, FaultShape DEF CustNext

(* The ERP, the database, the caches and the processes keep their shape.   *)
THEOREM ShapeKept == CustSpec => []CustTypeOK
  <1>1. Shape => CustTypeOK
    BY DEF Shape
  <1> QED BY <1>1, InitShape, NextShape, PTL DEF CustSpec

-----------------------------------------------------------------------------
(* The steps that neither read nor write the ERP's records or the rows     *)

(* What happened that may leave the database behind the ERP. *)
Bad == {"erp", "database", "crash", "outside", "crossed"}

(* One process: old becomes new.  It takes no record in hand, and drops    *)
(* one, or the plan to load, only when something bad happened.             *)
Rests(q, old, new, bad) ==
  /\ new.about # old.about => old.at = "idle"
  /\ old.at # "idle" => new.at # "idle"
  /\ new.at \notin {"put", "remove", "upsert", "store", "merge"}
  /\ \/ bad
     \/ new.at = "load" /\ old.at # "remove"
     \/ /\ old.at \notin {"load", "remove", "upsert", "store"}
        /\ old.at = "merge" => DOMAIN old.copy = {}

Quiet ==
  /\ UNCHANGED <<erp, given, custDb, saved>>
  /\ custCauses \subseteq custCauses'
  /\ \A q \in Procs : \/ proc'[q] = proc[q]
                      \/ Rests(q, proc[q], proc'[q], custCauses' \cap Bad # {})

(* The end of a request is quiet where it leaves nothing in hand.          *)
LEMMA EndRests ==
  ASSUME Shape, NEW p \in Procs, NEW left \in BOOLEAN, EndRequest(p, left),
         NEW bad \in BOOLEAN, proc[p].at # "idle",
         \/ bad
         \/ /\ proc[p].at \notin {"load", "remove", "upsert", "store"}
            /\ proc[p].at = "merge" => DOMAIN proc[p].copy = {}
  PROVE  \A q \in Procs : \/ proc'[q] = proc[q]
                          \/ Rests(q, proc[q], proc'[q], bad)
  <1>1. \A q \in Procs : q[2] = "sync" => proc[q].at # "remove"
    BY DEF Shape, PutHolds, RequestOnly
  <1>2. /\ \A q \in Procs : proc'[q].about = proc[q].about
        /\ \A q \in Procs : \/ proc'[q] = proc[q] /\ q # p
                            \/ proc'[q].at = "done" /\ q = p
                            \/ proc'[q].at = "load" /\ q[2] = "sync"
    BY EndFacts DEF Shape, CustTypeOK
  <1>3. ASSUME NEW q \in Procs, proc'[q].at = "load", q[2] = "sync"
        PROVE  Rests(q, proc[q], proc'[q], bad)
    BY <1>1, <1>2, <1>3 DEF Rests
  <1>4. ASSUME proc'[p].at = "done"
        PROVE  Rests(p, proc[p], proc'[p], bad)
    BY <1>2, <1>4 DEF Rests
  <1> QED BY <1>2, <1>3, <1>4

(* A move is, too. *)
LEMMA GotoRests ==
  ASSUME Shape, NEW p \in Procs, NEW step \in Steps, NEW copy \in Tables, Goto(p, step, copy),
         step \notin {"idle", "put", "remove", "upsert", "store", "merge"},
         NEW bad \in BOOLEAN,
         \/ bad
         \/ /\ proc[p].at \notin {"load", "remove", "upsert", "store"}
            /\ proc[p].at = "merge" => DOMAIN proc[p].copy = {}
  PROVE  \A q \in Procs : \/ proc'[q] = proc[q]
                          \/ Rests(q, proc[q], proc'[q], bad)
  BY GotoFacts DEF Shape, CustTypeOK, Rests

(* The quiet steps. *)
LEMMA QuietSteps ==
  ASSUME Shape, NEW p \in Procs,
         \/ ClearDetail(p) \/ GetDetail(p) \/ Reread(p) \/ FillDetail(p) \/ LookupList(p)
         \/ QueryList(p) \/ KeepList(p) \/ EndMerge(p) \/ FlushLists(p) \/ FlushDetails(p)
         \/ ErpFails(p) \/ RedisFails(p)
  PROVE  Quiet
  <1>1. proc \in [Procs -> Process] /\ custDb \in Tables /\ FALSE \in BOOLEAN
    BY DEF Shape, CustTypeOK
  <1>2. \A step \in {"get", "fetch", "fill", "query", "keep", "flushLists", "flushDetails"} :
          step \in Steps
    BY DEF Steps
  <1>3. \A c : Only(c, custDb) \in Tables
    BY <1>1, OnlyTable
  <1>4. ASSUME proc[p].at # "idle",
               /\ proc[p].at \notin {"load", "remove", "upsert", "store"}
               /\ proc[p].at = "merge" => DOMAIN proc[p].copy = {},
               \/ EndRequest(p, TRUE) \/ EndRequest(p, FALSE) \/ ClearsDetail(p)
               \/ \E step \in {"get", "fetch", "fill", "query", "keep", "flushLists",
                               "flushDetails"}, copy \in Tables : Goto(p, step, copy)
        PROVE  \A bad \in BOOLEAN, q \in Procs :
                 proc'[q] = proc[q] \/ Rests(q, proc[q], proc'[q], bad)
    <2>1. CASE ClearsDetail(p)
      <3>1. \A q \in Procs : q[2] = "sync" => proc[q].at # "remove"
        BY DEF Shape, PutHolds, RequestOnly
      <3> QED BY <1>1, <1>4, <2>1, <3>1, ClearFacts DEF Rests
    <2>2. CASE \E left \in BOOLEAN : EndRequest(p, left)
      BY <1>4, <2>2, EndRests
    <2>3. CASE \E step \in {"get", "fetch", "fill", "query", "keep", "flushLists",
                            "flushDetails"}, copy \in Tables : Goto(p, step, copy)
      BY <1>2, <1>4, <2>3, GotoRests
    <2> QED BY <1>4, <2>1, <2>2, <2>3
  <1>5. CASE ClearDetail(p)
    BY <1>4, <1>5 DEF ClearDetail, ClearsDetail, Quiet
  <1>6. CASE GetDetail(p) \/ LookupList(p)
    BY <1>4, <1>6, NothingTable DEF GetDetail, LookupList, Quiet
  <1>7. CASE Reread(p)
    BY <1>3, <1>4, <1>7 DEF Reread, Quiet
  <1>8. CASE FillDetail(p)
    BY <1>4, <1>8 DEF FillDetail, Quiet
  <1>9. CASE QueryList(p)
    BY <1>1, <1>4, <1>9 DEF QueryList, Quiet
  <1>10. CASE KeepList(p)
    BY <1>4, <1>10 DEF KeepList, Quiet
  <1>11. CASE EndMerge(p) \/ FlushLists(p)
    BY <1>4, <1>11, NothingTable DEF EndMerge, FlushLists, Quiet
  <1>12. CASE FlushDetails(p)
    BY <1>4, <1>12 DEF FlushDetails, Quiet
  <1>13. CASE ErpFails(p)
    <2>1. custCauses \subseteq custCauses' /\ "erp" \in custCauses' \cap Bad
      BY <1>13 DEF ErpFails, Fault, Bad
    <2>2. proc[p].at # "idle" /\ EndRequest(p, FALSE)
      BY <1>13 DEF ErpFails, AsksErp
    <2>3. \A q \in Procs : proc'[q] = proc[q] \/ Rests(q, proc[q], proc'[q], TRUE)
      BY <2>2, EndRests
    <2> QED BY <1>13, <2>1, <2>3 DEF ErpFails, Quiet, Rests
  <1>14. CASE RedisFails(p)
    <2>1. custCauses \subseteq custCauses'
      BY <1>14 DEF RedisFails, Fault
    <2> QED BY <1>4, <1>14, <2>1, NothingTable DEF RedisFails, ClearsDetail, Quiet
  <1> QED BY <1>5, <1>6, <1>7, <1>8, <1>9, <1>10, <1>11, <1>12, <1>13, <1>14

(* So are the arrival of a request, a crash and the passing of time.       *)
LEMMA QuietOthers ==
  ASSUME Shape, Expire \/ CustCrash \/ (\E t \in Tasks : Start(t)) \/ UNCHANGED custVars
  PROVE  Quiet
  <1>1. proc \in [Procs -> Process]
    BY DEF Shape, CustTypeOK
  <1>2. CASE Expire \/ UNCHANGED custVars
    BY <1>2 DEF Expire, custVars, Quiet
  <1>3. CASE CustCrash
    <2>1. custCauses \subseteq custCauses' /\ "crash" \in custCauses' \cap Bad
      BY <1>3 DEF CustCrash, Fault, Bad
    <2>2. \A q \in Procs :
            /\ [proc[q] EXCEPT !.at = "done", !.copy = Nothing].at = "done"
            /\ [proc[q] EXCEPT !.at = "done", !.copy = Nothing].about = proc[q].about
      BY <1>1 DEF Process
    <2>3. \A q \in Procs : \/ proc'[q] = proc[q]
                           \/ proc'[q].at = "done" /\ proc'[q].about = proc[q].about
      BY <1>3, <2>2 DEF CustCrash
    <2> QED BY <1>3, <2>1, <2>3 DEF CustCrash, Quiet, Rests
  <1>4. ASSUME NEW t \in Tasks, Start(t) PROVE Quiet
    <2>1. <<t, "request">> \in Procs
      BY ProcFacts
    <2> QED BY <1>1, <1>4, <2>1, StartFacts DEF Quiet, Rests
  <1> QED BY <1>2, <1>3, <1>4

-----------------------------------------------------------------------------
(* No edit is lost *)

Request(t) == <<t, "request">>

(* Without an overlap, one update at a time holds a customer's record, and *)
(* the record in its hands has every edit that was saved before.           *)
AloneWithRecord ==
  \A p, q \in Procs :
    proc[p].at = "put" /\ proc[q].at = "put" /\ proc[p].about = proc[q].about => p = q

SavedInErp ==
  \A t \in saved :
    /\ proc[Request(t)].at # "idle" /\ proc[Request(t)].about \in given
    /\ proc[Request(t)].about \in DOMAIN erp => t \in erp[proc[Request(t)].about]

RecordHasSaved ==
  \A p \in Procs : proc[p].at = "put" =>
    /\ proc[p].about \in given
    /\ \A t \in saved : proc[Request(t)].about = proc[p].about
                         => t \in proc[p].copy[proc[p].about]

EditsInv ==
  /\ DOMAIN erp \subseteq given
  /\ "overlap" \notin custCauses => AloneWithRecord /\ SavedInErp /\ RecordHasSaved

(* What a step may do to a process that does not take a record to change.  *)
Continues(old, new) ==
  /\ new.about # old.about => old.at = "idle"
  /\ old.at # "idle" => new.at # "idle"
  /\ new.at # "put"

(* Steps that take no record to change and keep saved edits in the ERP.    *)
LEMMA EditsKept ==
  ASSUME Shape, EditsInv, given \subseteq given', DOMAIN erp' \subseteq given', UNCHANGED saved,
         custCauses \subseteq custCauses',
         \A q \in Procs : proc'[q] = proc[q] \/ Continues(proc[q], proc'[q]),
         "overlap" \notin custCauses =>
           \A t \in saved : proc[Request(t)].about \in DOMAIN erp'
                            => t \in erp'[proc[Request(t)].about]
  PROVE  EditsInv'
  <1> SUFFICES ASSUME "overlap" \notin custCauses'
               PROVE  AloneWithRecord' /\ SavedInErp' /\ RecordHasSaved'
    BY DEF EditsInv
  <1>1. AloneWithRecord /\ SavedInErp /\ RecordHasSaved
    BY DEF EditsInv
  <1>2. \A t \in saved : /\ Request(t) \in Procs
                         /\ proc'[Request(t)].at # "idle"
                         /\ proc'[Request(t)].about = proc[Request(t)].about
    <2>1. \A t \in saved : Request(t) \in Procs
      BY ProcFacts DEF Request, Shape, CustTypeOK
    <2> QED BY <1>1, <2>1 DEF SavedInErp, Continues
  <1>3. \A q \in Procs : proc'[q].at = "put" => proc'[q] = proc[q]
    BY DEF Continues
  <1>4. AloneWithRecord'
    BY <1>1, <1>3 DEF AloneWithRecord
  <1>5. SavedInErp'
    BY <1>1, <1>2 DEF SavedInErp
  <1>6. RecordHasSaved'
    BY <1>1, <1>2, <1>3 DEF RecordHasSaved
  <1> QED BY <1>4, <1>5, <1>6

LEMMA QuietEdits == Shape /\ EditsInv /\ Quiet => EditsInv'
  <1> SUFFICES ASSUME Shape, EditsInv, Quiet PROVE EditsInv'
    OBVIOUS
  <1>1. \A q \in Procs : proc'[q] = proc[q] \/ Continues(proc[q], proc'[q])
    BY DEF Quiet, Rests, Continues
  <1> QED BY <1>1, EditsKept DEF Quiet, EditsInv, SavedInErp

(* Ends and moves. *)
LEMMA EndContinues ==
  ASSUME Shape, NEW p \in Procs, NEW left \in BOOLEAN, EndRequest(p, left)
  PROVE  \A q \in Procs : proc'[q] = proc[q] \/ Continues(proc[q], proc'[q])
  BY EndFacts DEF Shape, CustTypeOK, Continues

LEMMA GotoContinues ==
  ASSUME Shape, NEW p \in Procs, NEW step \in Steps \ {"idle", "put"}, NEW copy \in Tables,
         Goto(p, step, copy)
  PROVE  \A q \in Procs : proc'[q] = proc[q] \/ Continues(proc[q], proc'[q])
  BY GotoFacts DEF Shape, CustTypeOK, Continues

(* The steps that read or write the ERP or the rows. *)
LEMMA ReadErpEdits ==
  ASSUME Shape, EditsInv, NEW p \in Procs, ReadErp(p) PROVE EditsInv'
  <1> DEFINE c == proc[p].about
  <1>1. UNCHANGED <<erp, given, saved>> /\ custCauses \subseteq custCauses'
        /\ proc[p].at = "read"
    BY DEF ReadErp
  <1>2. CASE EndRequest(p, FALSE)
    <2>1. \A q \in Procs : proc'[q] = proc[q] \/ Continues(proc[q], proc'[q])
      BY <1>2, EndContinues
    <2> QED BY <1>1, <2>1, EditsKept DEF EditsInv, SavedInErp
  <1>3. CASE c \in DOMAIN erp /\ Goto(p, "put", Only(c, erp))
    <2> SUFFICES ASSUME "overlap" \notin custCauses'
                 PROVE  AloneWithRecord' /\ SavedInErp' /\ RecordHasSaved'
      BY <1>1 DEF EditsInv
    <2>1. AloneWithRecord /\ SavedInErp /\ RecordHasSaved
      BY <1>1 DEF EditsInv
    <2>2. \A q \in Procs : ~(proc[q].at = "put" /\ proc[q].about = c)
      BY DEF ReadErp
    <2>3. /\ proc'[p].at = "put" /\ proc'[p].copy = Only(c, erp) /\ proc'[p].about = c
          /\ \A q \in Procs : q # p => proc'[q] = proc[q]
      <3>1. proc \in [Procs -> Process] /\ "put" \in Steps /\ Only(c, erp) \in Tables
        BY OnlyTable DEF Shape, CustTypeOK, Steps
      <3> QED BY <1>3, <3>1, GotoFacts
    <2>4. Only(c, erp)[c] = erp[c]
      BY <1>3, OnlyTable DEF Shape, CustTypeOK
    <2>5. \A t \in saved : /\ proc'[Request(t)].at # "idle"
                           /\ proc'[Request(t)].about = proc[Request(t)].about
      <3>1. \A t \in saved : Request(t) \in Procs
        BY ProcFacts DEF Request, Shape, CustTypeOK
      <3> QED BY <2>1, <2>3, <3>1 DEF SavedInErp
    <2>6. AloneWithRecord'
      BY <2>1, <2>2, <2>3 DEF AloneWithRecord
    <2>7. SavedInErp'
      BY <1>1, <2>1, <2>5 DEF SavedInErp
    <2>8. RecordHasSaved'
      <3>1. c \in given
        BY <1>3 DEF EditsInv
      <3>2. \A t \in saved : proc[Request(t)].about = c => t \in erp[c]
        BY <1>3, <2>1 DEF SavedInErp
      <3> HIDE DEF c
      <3>3. ASSUME NEW q \in Procs, proc'[q].at = "put"
            PROVE  /\ proc'[q].about \in given
                   /\ \A t \in saved : proc'[Request(t)].about = proc'[q].about
                                        => t \in proc'[q].copy[proc'[q].about]
        <4>1. CASE q = p
          BY <2>3, <2>4, <2>5, <3>1, <3>2, <4>1
        <4>2. CASE q # p
          BY <2>1, <2>3, <2>5, <3>3, <4>2 DEF RecordHasSaved
        <4> QED BY <4>1, <4>2
      <3> QED BY <1>1, <3>3 DEF RecordHasSaved
    <2> QED BY <2>6, <2>7, <2>8
  <1> QED BY <1>2, <1>3 DEF ReadErp

LEMMA PutErpEdits ==
  ASSUME Shape, EditsInv, NEW p \in Procs, PutErp(p) PROVE EditsInv'
  <1> DEFINE c == proc[p].about
  <1>1. proc[p].at = "put" /\ UNCHANGED given /\ p \in Procs
        /\ proc \in [Procs -> Process]
    BY DEF PutErp, Shape, CustTypeOK
  <1>2. CASE EndRequest(p, FALSE) /\ UNCHANGED <<erp, saved, custCauses>>
    <2>1. \A q \in Procs : proc'[q] = proc[q] \/ Continues(proc[q], proc'[q])
      BY <1>2, EndContinues
    <2> QED BY <1>1, <1>2, <2>1, EditsKept DEF EditsInv, SavedInErp
  <1>3. CASE c \in DOMAIN erp
    <2>1. /\ erp' = [erp EXCEPT ![c] = Merged(p)] /\ saved' = saved \cup {p[1]}
          /\ Goto(p, "upsert", [id \in {c} |-> Merged(p)])
          /\ custCauses' = CrossedBy(p, c)
      BY <1>3 DEF PutErp
    <2>2. Merged(p) \in SUBSET Edits /\ p[1] \in Merged(p) /\ c \in CustomerIds
      BY <1>1, MergedType DEF Process
    <2>3. DOMAIN erp' = DOMAIN erp /\ erp'[c] = Merged(p)
          /\ \A d \in DOMAIN erp : d # c => erp'[d] = erp[d]
      BY <1>3, <2>1
    <2>4. /\ proc'[p].at = "upsert" /\ proc'[p].about = c
          /\ \A q \in Procs : q # p => proc'[q] = proc[q]
      <3>1. "upsert" \in Steps /\ [id \in {c} |-> Merged(p)] \in Tables
        BY <2>2, OneTable DEF Steps
      <3> QED BY <1>1, <2>1, <3>1, GotoFacts
    <2>5. p = Request(p[1])
      <3>1. p[2] = "request"
        BY <1>1 DEF Shape, PutHolds, RequestOnly
      <3> QED BY <3>1, ProcFacts DEF Request
    <2> SUFFICES ASSUME "overlap" \notin custCauses'
                 PROVE  AloneWithRecord' /\ SavedInErp' /\ RecordHasSaved'
      BY <1>1, <2>3 DEF EditsInv
    <2>6. AloneWithRecord /\ SavedInErp /\ RecordHasSaved
      BY <2>1 DEF EditsInv, CrossedBy
    <2>7. \A t \in saved : Request(t) \in Procs
      BY ProcFacts DEF Request, Shape, CustTypeOK
    <2>8. AloneWithRecord'
      BY <2>4, <2>6 DEF AloneWithRecord
    <2>9. \A t \in saved' : /\ proc'[Request(t)].at # "idle"
                            /\ proc'[Request(t)].about = proc[Request(t)].about
                            /\ proc[Request(t)].about \in given
      BY <1>1, <2>1, <2>4, <2>5, <2>6, <2>7 DEF SavedInErp, RecordHasSaved
    <2>10. \A t \in saved : proc[Request(t)].about = c => t \in Merged(p)
      BY <1>1, <2>6 DEF RecordHasSaved, Merged
    <2> HIDE DEF c
    <2>11. ASSUME NEW t \in saved', proc'[Request(t)].about \in DOMAIN erp'
           PROVE  t \in erp'[proc'[Request(t)].about]
      <3>1. CASE t = p[1]
        BY <2>2, <2>3, <2>4, <2>5, <3>1
      <3>2. CASE t \in saved /\ proc[Request(t)].about = c
        BY <2>3, <2>9, <2>10, <3>2
      <3>3. CASE t \in saved /\ proc[Request(t)].about # c
        BY <2>3, <2>6, <2>9, <2>11, <3>3 DEF SavedInErp
      <3> QED BY <2>1, <3>1, <3>2, <3>3
    <2>12. SavedInErp'
      BY <1>1, <2>9, <2>11 DEF SavedInErp
    <2>13. RecordHasSaved'
      <3>1. ASSUME NEW q \in Procs, proc'[q].at = "put"
            PROVE  /\ proc'[q].about \in given
                   /\ \A t \in saved' : proc'[Request(t)].about = proc'[q].about
                                         => t \in proc'[q].copy[proc'[q].about]
        <4>1. q # p /\ proc'[q] = proc[q]
          BY <2>4, <3>1
        <4>2. proc[q].about # c
          BY <1>1, <2>6, <3>1, <4>1 DEF AloneWithRecord, c
        <4> QED BY <2>1, <2>4, <2>5, <2>6, <2>9, <3>1, <4>1, <4>2 DEF RecordHasSaved
      <3> QED BY <1>1, <3>1 DEF RecordHasSaved
    <2> QED BY <2>8, <2>12, <2>13
  <1> QED BY <1>2, <1>3 DEF PutErp

LEMMA OtherEdits ==
  ASSUME Shape, EditsInv, NEW p \in Procs,
         \/ FetchDetail(p) \/ LoadErp(p) \/ EraseErp(p) \/ RemoveRow(p)
         \/ \E c \in CustomerIds : \/ PostErp(p, c) \/ Upsert(p, c) \/ DatabaseFails(p, c)
                                   \/ ErpAppliesUnanswered(p, c)
  PROVE  EditsInv'
  <1> DEFINE Keeps(new) ==
        \A t \in saved : proc[Request(t)].about \in DOMAIN new
                         => t \in new[proc[Request(t)].about]
             ProcsContinue == \A q \in Procs : proc'[q] = proc[q] \/ Continues(proc[q], proc'[q])
  <1>1. /\ proc \in [Procs -> Process] /\ erp \in Tables
        /\ proc[p].copy \in Tables /\ proc[p].about \in CustomerIds
    BY DEF Shape, CustTypeOK, Process
  <1>2. {"store", "remove", "merge", "clear", "reread"} \subseteq Steps \ {"idle", "put"}
    BY DEF Steps
  <1>3. "overlap" \notin custCauses => Keeps(erp)
    BY DEF EditsInv, SavedInErp
  <1>4. ASSUME NEW c, erp' = Without(c, erp)
        PROVE  /\ DOMAIN erp' \subseteq DOMAIN erp
               /\ Keeps(erp) => Keeps(erp')
    <2>1. DOMAIN Without(c, erp) = DOMAIN erp \ {c}
      BY <1>1, WithoutTable
    <2>2. \A d \in DOMAIN erp \ {c} : Without(c, erp)[d] = erp[d]
      BY <1>1, WithoutTable
    <2> QED BY <1>4, <2>1, <2>2
  <1>5. ASSUME NEW c \in CustomerIds, c \notin given
        PROVE  LET new == Over([id \in {c} |-> {p[1]}], erp) IN
               /\ DOMAIN new \subseteq given \cup {c}
               /\ "overlap" \notin custCauses => Keeps(new)
    <2>1. {p[1]} \in SUBSET Edits
      BY ProcFacts DEF Edits
    <2> DEFINE one == [id \in {c} |-> {p[1]}]
    <2>2. one \in Tables /\ DOMAIN one = {c}
      BY <2>1, OneTable
    <2> HIDE DEF one
    <2>3. /\ DOMAIN Over(one, erp) = {c} \cup DOMAIN erp
          /\ \A d \in DOMAIN erp : d # c => Over(one, erp)[d] = erp[d]
      BY <1>1, <2>2, OverTable
    <2>4. "overlap" \notin custCauses => \A t \in saved : proc[Request(t)].about # c
      BY <1>5 DEF EditsInv, SavedInErp
    <2>5. DOMAIN Over(one, erp) \subseteq given \cup {c}
      BY <2>3 DEF EditsInv
    <2>6. "overlap" \notin custCauses => Keeps(Over(one, erp))
      BY <1>3, <2>3, <2>4
    <2> QED BY <2>5, <2>6 DEF one
  <1>6. ASSUME EndRequest(p, TRUE) \/ EndRequest(p, FALSE) \/ UNCHANGED proc
        PROVE  ProcsContinue
    BY <1>6, EndContinues
  <1>7. ASSUME NEW step \in {"store", "remove", "merge", "clear", "reread"},
               NEW copy \in Tables, Goto(p, step, copy)
        PROVE  ProcsContinue
    BY <1>2, <1>7, GotoContinues
  <1>8. ASSUME given \subseteq given', DOMAIN erp' \subseteq given', UNCHANGED saved,
               custCauses \subseteq custCauses', ProcsContinue,
               "overlap" \notin custCauses => Keeps(erp')
        PROVE  EditsInv'
    BY <1>8, EditsKept
  <1>9. DOMAIN erp \subseteq given
    BY DEF EditsInv
  <1>10. /\ \A c : custCauses \subseteq CrossedBy(p, c)
         /\ \A c, rows : custCauses \subseteq FilledLate(p, c, rows)
         /\ \A kind : Fault(kind) => custCauses \subseteq custCauses'
    BY DEF CrossedBy, FilledLate, Fault
  <1> HIDE DEF ProcsContinue, Keeps
  <1>11. CASE FetchDetail(p)
    <2>1. Only(proc[p].about, erp) \in Tables
      BY <1>1, OnlyTable
    <2>2. ProcsContinue
      BY <1>6, <1>7, <1>11, <2>1 DEF FetchDetail
    <2> QED BY <1>3, <1>8, <1>9, <1>11, <2>2 DEF FetchDetail
  <1>12. CASE LoadErp(p)
    <2>1. ProcsContinue
      BY <1>1, <1>7, <1>12 DEF LoadErp
    <2> QED BY <1>3, <1>8, <1>9, <1>12, <2>1 DEF LoadErp
  <1>13. CASE EraseErp(p)
    <2>1. CASE EndRequest(p, FALSE) /\ UNCHANGED <<erp, custCauses>>
      BY <1>3, <1>6, <1>8, <1>9, <1>13, <2>1 DEF EraseErp
    <2>2. CASE /\ erp' = Without(proc[p].about, erp) /\ Goto(p, "remove", Nothing)
               /\ custCauses' = CrossedBy(p, proc[p].about)
      <3>1. ProcsContinue
        BY <1>7, <2>2, NothingTable
      <3>2. "overlap" \notin custCauses => Keeps(erp')
        BY <1>3, <1>4, <2>2
      <3>3. DOMAIN erp' \subseteq given' /\ given \subseteq given' /\ UNCHANGED saved
        BY <1>4, <1>9, <1>13, <2>2 DEF EraseErp
      <3>4. custCauses \subseteq custCauses'
        BY <1>10, <2>2
      <3> QED BY <1>8, <3>1, <3>2, <3>3, <3>4
    <2> QED BY <1>13, <2>1, <2>2 DEF EraseErp
  <1>14. CASE RemoveRow(p)
    BY <1>3, <1>6, <1>8, <1>9, <1>10, <1>14 DEF RemoveRow
  <1>15. ASSUME NEW c \in CustomerIds, PostErp(p, c) PROVE EditsInv'
    <2>1. c \notin given /\ given' = given \cup {c} /\ UNCHANGED saved
          /\ erp' = Over([id \in {c} |-> {p[1]}], erp) /\ custCauses' = CrossedBy(p, c)
      BY <1>15 DEF PostErp
    <2>2. ProcsContinue
      BY <1>6, <1>15 DEF PostErp
    <2> QED BY <1>5, <1>8, <1>10, <2>1, <2>2
  <1>16. ASSUME NEW c \in CustomerIds, Upsert(p, c) PROVE EditsInv'
    <2>1. AfterUpsert[proc[p].at] \in {"clear", "reread", "merge"}
      BY <1>16 DEF Upsert, AfterUpsert
    <2>2. Without(c, proc[p].copy) \in Tables
      BY <1>1, WithoutTable
    <2>3. ProcsContinue
      BY <1>7, <1>16, <2>1, <2>2 DEF Upsert
    <2> QED BY <1>3, <1>8, <1>9, <1>10, <1>16, <2>3 DEF Upsert
  <1>17. ASSUME NEW c \in CustomerIds, DatabaseFails(p, c) PROVE EditsInv'
    <2>1. proc[p].at \in DOMAIN AfterUpsert => AfterUpsert[proc[p].at] \in {"clear", "reread", "merge"}
      BY DEF AfterUpsert
    <2>2. Without(c, proc[p].copy) \in Tables
      BY <1>1, WithoutTable
    <2>3. ProcsContinue
      BY <1>6, <1>7, <1>17, <2>1, <2>2 DEF DatabaseFails
    <2> QED BY <1>3, <1>8, <1>9, <1>10, <1>17, <2>3 DEF DatabaseFails
  <1>18. ASSUME NEW c \in CustomerIds, ErpAppliesUnanswered(p, c) PROVE EditsInv'
    <2>1. ProcsContinue
      BY <1>6, <1>18 DEF ErpAppliesUnanswered
    <2>2. custCauses \subseteq custCauses' /\ UNCHANGED saved
      BY <1>10, <1>18 DEF ErpAppliesUnanswered
    <2>3. CASE /\ proc[p].at = "put" /\ c = proc[p].about /\ c \in DOMAIN erp
               /\ erp' = [erp EXCEPT ![c] = Merged(p)] /\ UNCHANGED given
      <3>1. DOMAIN erp' = DOMAIN erp /\ erp'[c] = Merged(p)
            /\ \A d \in DOMAIN erp : d # c => erp'[d] = erp[d]
        BY <1>1, <2>3
      <3>2. "overlap" \notin custCauses =>
              \A t \in saved : proc[Request(t)].about = c => t \in Merged(p)
        BY <2>3 DEF EditsInv, RecordHasSaved, Merged
      <3>3. "overlap" \notin custCauses => Keeps(erp')
        BY <1>3, <3>1, <3>2 DEF Keeps
      <3> QED BY <1>8, <1>9, <2>1, <2>2, <2>3, <3>1, <3>3
    <2>4. CASE erp' = Without(c, erp) /\ UNCHANGED given
      <3>1. "overlap" \notin custCauses => Keeps(erp')
        BY <1>3, <1>4, <2>4
      <3>2. DOMAIN erp' \subseteq given' /\ given \subseteq given'
        BY <1>4, <1>9, <2>4
      <3> QED BY <1>8, <2>1, <2>2, <3>1, <3>2
    <2>5. CASE /\ c \notin given /\ given' = given \cup {c}
               /\ erp' = Over([id \in {c} |-> {p[1]}], erp)
      BY <1>5, <1>8, <2>1, <2>2, <2>5
    <2> QED BY <1>18, <2>3, <2>4, <2>5 DEF ErpAppliesUnanswered
  <1> QED BY <1>11, <1>12, <1>13, <1>14, <1>15, <1>16, <1>17, <1>18

LEMMA OutsideEdits ==
  ASSUME Shape, EditsInv, NEW c \in CustomerIds, EditOutside(c) PROVE EditsInv'
  <1>1. erp \in Tables /\ c \in DOMAIN erp
    BY DEF Shape, CustTypeOK, EditOutside
  <1>2. /\ DOMAIN erp' \subseteq DOMAIN erp
        /\ \A d \in DOMAIN erp' : erp[d] \subseteq erp'[d]
    <2>1. CASE erp' = [erp EXCEPT ![c] = erp[c] \cup {Outsider}]
      BY <1>1, <2>1
    <2>2. CASE erp' = Without(c, erp)
      <3>1. DOMAIN Without(c, erp) = DOMAIN erp \ {c}
        BY <1>1, WithoutTable
      <3>2. \A d \in DOMAIN erp \ {c} : Without(c, erp)[d] = erp[d]
        BY <1>1, WithoutTable
      <3> QED BY <2>2, <3>1, <3>2
    <2> QED BY <2>1, <2>2 DEF EditOutside
  <1>3. UNCHANGED <<given, proc, saved>> /\ custCauses \subseteq custCauses'
    BY DEF EditOutside, Fault
  <1> QED BY <1>2, <1>3, EditsKept DEF EditsInv, SavedInErp

(* An edit whose PUT the ERP answered stays in the ERP's record as long as *)
(* the customer does, whatever requests, syncs and faults come between,    *)
(* unless two updates of one customer overlapped.                          *)
THEOREM EditsStay == CustSpec => []NoEditLost
  <1>1. CustInit => EditsInv
    BY DEF CustInit, Init_proc, EditsInv, AloneWithRecord, SavedInErp, RecordHasSaved
  <1>2. Shape /\ EditsInv /\ [CustNext]_custVars => EditsInv'
    BY QuietSteps, QuietOthers, QuietEdits, ReadErpEdits, PutErpEdits, OtherEdits, OutsideEdits
       DEF CustNext, Advance, Fails
  <1>3. EditsInv => NoEditLost
    BY DEF EditsInv, SavedInErp, NoEditLost, Request
  <1> QED BY <1>1, <1>2, <1>3, InitShape, NextShape, PTL DEF CustSpec

-----------------------------------------------------------------------------
(* The database follows the ERP *)

(* What is pending: a request holds one record; the ERP has no more the    *)
(* customer whose row is to be removed, nor gives its id again.            *)
Pending ==
  /\ DOMAIN erp \subseteq given
  /\ \A p \in Procs :
       /\ proc[p].at \in {"upsert", "store"} => DOMAIN proc[p].copy \subseteq {proc[p].about}
       /\ proc[p].at = "remove" => proc[p].about \in given \ DOMAIN erp

(* The records in hand are the ERP's of now; a row that is missing or old  *)
(* has a process that will load or holds the record; a row too many has    *)
(* a process that is about to remove it.                                   *)
CopiesCurrent ==
  \A p \in Procs, c \in CustomerIds :
    HoldsErp(p, c) => c \in DOMAIN erp /\ proc[p].copy[c] = erp[c]

OldRowsPending ==
  \A c \in DOMAIN erp :
    \/ c \in DOMAIN custDb /\ custDb[c] = erp[c]
    \/ \E p \in Procs : proc[p].at = "load" \/ HoldsErp(p, c)

LeftRowsPending ==
  \A c \in DOMAIN custDb \ DOMAIN erp :
    \E p \in Procs : proc[p].at = "remove" /\ proc[p].about = c

FollowInv ==
  /\ Pending
  /\ custCauses \cap Bad = {} => CopiesCurrent /\ OldRowsPending /\ LeftRowsPending

(* Pending outlasts every step that takes no record in hand and removes    *)
(* none, and in which the ERP gives new ids only.                          *)
LEMMA PendingKept ==
  ASSUME Shape, Pending, given \subseteq given', DOMAIN erp' \subseteq given',
         DOMAIN erp' \cap given \subseteq DOMAIN erp,
         \A q \in Procs : \/ proc'[q] = proc[q]
                          \/ proc'[q].at \notin {"upsert", "store", "remove"}
  PROVE  Pending'
  BY DEF Pending

(* A step that leaves the ERP and the rows alone, takes nothing in hand    *)
(* and drops nothing unless something bad happened.                        *)
LeavesRows(old, new, bad) ==
  /\ new.at \notin {"remove", "upsert", "store", "merge"}
  /\ \/ bad
     \/ new.at = "load" /\ old.at # "remove"
     \/ /\ old.at \notin {"load", "remove", "upsert", "store"}
        /\ old.at = "merge" => DOMAIN old.copy = {}

LEMMA FollowKept ==
  ASSUME Shape, FollowInv, UNCHANGED <<erp, given, custDb>>, custCauses \subseteq custCauses',
         \A q \in Procs : \/ proc'[q] = proc[q]
                          \/ LeavesRows(proc[q], proc'[q], custCauses' \cap Bad # {})
  PROVE  FollowInv'
  <1>1. Pending'
    BY PendingKept DEF FollowInv, Pending, LeavesRows
  <1> SUFFICES ASSUME custCauses' \cap Bad = {}
               PROVE  CopiesCurrent' /\ OldRowsPending' /\ LeftRowsPending'
    BY <1>1 DEF FollowInv
  <1>2. CopiesCurrent /\ OldRowsPending /\ LeftRowsPending
    BY DEF FollowInv
  <1>3. \A q \in Procs : \/ proc'[q] = proc[q]
                         \/ /\ proc'[q].at \notin {"remove", "upsert", "store", "merge"}
                            /\ \/ proc'[q].at = "load" /\ proc[q].at # "remove"
                               \/ /\ proc[q].at \notin {"load", "remove", "upsert", "store"}
                                  /\ proc[q].at = "merge" => DOMAIN proc[q].copy = {}
    BY DEF LeavesRows
  <1>4. CopiesCurrent'
    BY <1>2, <1>3 DEF CopiesCurrent, HoldsErp
  <1>5. OldRowsPending'
    BY <1>2, <1>3 DEF OldRowsPending, HoldsErp
  <1>6. LeftRowsPending'
    BY <1>2, <1>3 DEF LeftRowsPending
  <1> QED BY <1>4, <1>5, <1>6

LEMMA QuietFollow ==
  ASSUME Shape, FollowInv, Quiet PROVE FollowInv'
  <1>1. \A q \in Procs : \/ proc'[q] = proc[q]
                         \/ LeavesRows(proc[q], proc'[q], custCauses' \cap Bad # {})
    BY DEF Quiet, Rests, LeavesRows
  <1> QED BY <1>1, FollowKept DEF Quiet

(* A request that ends leaves the rows alone where it has nothing in hand. *)
LEMMA EndLeavesRows ==
  ASSUME Shape, NEW p \in Procs, NEW left \in BOOLEAN, EndRequest(p, left),
         proc[p].at \in {"read", "put", "fetch", "erase", "post"}
  PROVE  \A bad \in BOOLEAN, q \in Procs :
           proc'[q] = proc[q] \/ LeavesRows(proc[q], proc'[q], bad)
  <1>1. /\ proc[p].at # "idle"
        /\ proc[p].at \notin {"load", "remove", "upsert", "store"} /\ proc[p].at # "merge"
    OBVIOUS
  <1>2. \A bad \in BOOLEAN, q \in Procs :
          proc'[q] = proc[q] \/ Rests(q, proc[q], proc'[q], bad)
    BY <1>1, EndRests
  <1> QED BY <1>2 DEF Rests, LeavesRows

LEMMA ReadErpFollow ==
  ASSUME Shape, FollowInv, NEW p \in Procs, ReadErp(p) PROVE FollowInv'
  <1>1. /\ UNCHANGED <<erp, given, custDb>> /\ custCauses \subseteq custCauses'
        /\ proc[p].at = "read" /\ proc \in [Procs -> Process] /\ erp \in Tables
    BY DEF ReadErp, Shape, CustTypeOK
  <1>2. CASE EndRequest(p, FALSE)
    BY <1>1, <1>2, EndLeavesRows, FollowKept
  <1>3. CASE Goto(p, "put", Only(proc[p].about, erp))
    <2>1. "put" \in Steps /\ Only(proc[p].about, erp) \in Tables
      BY <1>1, OnlyTable DEF Steps
    <2>2. proc'[p].at = "put" /\ \A q \in Procs : q # p => proc'[q] = proc[q]
      BY <1>1, <1>3, <2>1, GotoFacts
    <2> QED BY <1>1, <2>2, FollowKept DEF LeavesRows
  <1> QED BY <1>2, <1>3 DEF ReadErp

LEMMA PutErpFollow ==
  ASSUME Shape, FollowInv, NEW p \in Procs, PutErp(p) PROVE FollowInv'
  <1>0. PICK c \in CustomerIds : c = proc[p].about
    BY DEF Shape, CustTypeOK, Process
  <1>1. /\ proc[p].at = "put" /\ UNCHANGED <<given, custDb>>
        /\ proc \in [Procs -> Process] /\ c = proc[p].about
    BY <1>0 DEF PutErp, Shape, CustTypeOK
  <1>2. CASE EndRequest(p, FALSE) /\ UNCHANGED <<erp, custCauses>>
    BY <1>1, <1>2, EndLeavesRows, FollowKept
  <1>3. CASE c \in DOMAIN erp
    <2> DEFINE one == [id \in {c} |-> Merged(p)]
    <2>1. /\ erp' = [erp EXCEPT ![c] = Merged(p)] /\ Goto(p, "upsert", one)
          /\ custCauses' = CrossedBy(p, c)
      BY <1>1, <1>3 DEF PutErp
    <2>2. one \in Tables /\ DOMAIN one = {c} /\ one[c] = Merged(p)
      BY <1>1, MergedType, OneTable
    <2>3. DOMAIN erp' = DOMAIN erp /\ erp'[c] = Merged(p)
          /\ \A d \in DOMAIN erp : d # c => erp'[d] = erp[d]
      BY <1>3, <2>1
    <2>4. /\ proc'[p].at = "upsert" /\ proc'[p].about = c /\ proc'[p].copy = one
          /\ \A q \in Procs : q # p => proc'[q] = proc[q]
      <3>1. "upsert" \in Steps
        BY DEF Steps
      <3> QED BY <1>1, <2>1, <2>2, <3>1, GotoFacts
    <2> HIDE DEF one
    <2>5. Pending'
      BY <1>1, <2>2, <2>3, <2>4 DEF FollowInv, Pending
    <2> SUFFICES ASSUME custCauses' \cap Bad = {}
                 PROVE  CopiesCurrent' /\ OldRowsPending' /\ LeftRowsPending'
      BY <2>5 DEF FollowInv
    <2>6. /\ CopiesCurrent /\ OldRowsPending /\ LeftRowsPending
          /\ \A q \in Procs \ {p} : ~HoldsErp(q, c)
      BY <2>1 DEF FollowInv, CrossedBy, Bad
    <2>7. CopiesCurrent'
      BY <1>3, <2>2, <2>3, <2>4, <2>6 DEF CopiesCurrent, HoldsErp
    <2>8. OldRowsPending'
      <3>1. HoldsErp(p, c)'
        BY <2>2, <2>4 DEF HoldsErp
      <3>2. \A q \in Procs : \A d : HoldsErp(q, d) => HoldsErp(q, d)'
        BY <1>1, <2>4 DEF HoldsErp
      <3> QED BY <1>1, <2>3, <2>4, <2>6, <3>1, <3>2 DEF OldRowsPending
    <2>9. LeftRowsPending'
      BY <1>1, <2>3, <2>4, <2>6 DEF LeftRowsPending
    <2> QED BY <2>7, <2>8, <2>9
  <1> QED BY <1>1, <1>2, <1>3 DEF PutErp

LEMMA FetchFollow ==
  ASSUME Shape, FollowInv, NEW p \in Procs, FetchDetail(p) PROVE FollowInv'
  <1>0. PICK c \in CustomerIds : c = proc[p].about
    BY DEF Shape, CustTypeOK, Process
  <1>1. /\ proc[p].at = "fetch" /\ UNCHANGED <<erp, given, custDb, custCauses>>
        /\ proc \in [Procs -> Process] /\ c = proc[p].about /\ erp \in Tables
    BY <1>0 DEF FetchDetail, Shape, CustTypeOK
  <1>2. CASE EndRequest(p, FALSE)
    BY <1>1, <1>2, EndLeavesRows, FollowKept
  <1>3. CASE c \in DOMAIN erp /\ Goto(p, "store", Only(c, erp))
    <2>1. Only(c, erp) \in Tables /\ DOMAIN Only(c, erp) = {c} /\ Only(c, erp)[c] = erp[c]
      <3>1. /\ Only(c, erp) \in Tables /\ DOMAIN Only(c, erp) = {c} \cap DOMAIN erp
            /\ c \in DOMAIN erp => Only(c, erp)[c] = erp[c]
        BY <1>1, OnlyTable
      <3> QED BY <1>3, <3>1
    <2>2. /\ proc'[p].at = "store" /\ proc'[p].about = c /\ proc'[p].copy = Only(c, erp)
          /\ \A q \in Procs : q # p => proc'[q] = proc[q]
      <3>1. "store" \in Steps
        BY DEF Steps
      <3> QED BY <1>1, <1>3, <2>1, <3>1, GotoFacts
    <2>3. Pending'
      BY <1>1, <2>1, <2>2 DEF FollowInv, Pending
    <2> SUFFICES ASSUME custCauses \cap Bad = {}
                 PROVE  CopiesCurrent' /\ OldRowsPending' /\ LeftRowsPending'
      BY <1>1, <2>3 DEF FollowInv
    <2>4. CopiesCurrent /\ OldRowsPending /\ LeftRowsPending
      BY DEF FollowInv
    <2>5. CopiesCurrent'
      BY <1>1, <1>3, <2>1, <2>2, <2>4 DEF CopiesCurrent, HoldsErp
    <2>6. OldRowsPending'
      <3>1. \A q \in Procs : \A d : HoldsErp(q, d) => HoldsErp(q, d)'
        BY <1>1, <2>2 DEF HoldsErp
      <3> QED BY <1>1, <2>2, <2>4, <3>1 DEF OldRowsPending
    <2>7. LeftRowsPending'
      BY <1>1, <2>2, <2>4 DEF LeftRowsPending
    <2> QED BY <2>5, <2>6, <2>7
  <1> QED BY <1>1, <1>2, <1>3 DEF FetchDetail

LEMMA EraseFollow ==
  ASSUME Shape, FollowInv, NEW p \in Procs, EraseErp(p) PROVE FollowInv'
  <1>0. PICK c \in CustomerIds : c = proc[p].about
    BY DEF Shape, CustTypeOK, Process
  <1>1. /\ proc[p].at = "erase" /\ UNCHANGED <<given, custDb>>
        /\ proc \in [Procs -> Process] /\ c = proc[p].about /\ erp \in Tables
    BY <1>0 DEF EraseErp, Shape, CustTypeOK
  <1>2. CASE EndRequest(p, FALSE) /\ UNCHANGED <<erp, custCauses>>
    BY <1>1, <1>2, EndLeavesRows, FollowKept
  <1>3. CASE c \in DOMAIN erp
    <2>1. /\ erp' = Without(c, erp) /\ Goto(p, "remove", Nothing)
          /\ custCauses' = CrossedBy(p, c)
      BY <1>1, <1>3 DEF EraseErp
    <2>2. /\ DOMAIN erp' = DOMAIN erp \ {c}
          /\ \A d \in DOMAIN erp \ {c} : erp'[d] = erp[d]
      <3>1. /\ DOMAIN Without(c, erp) = DOMAIN erp \ {c}
            /\ \A d \in DOMAIN erp \ {c} : Without(c, erp)[d] = erp[d]
        BY <1>1, WithoutTable
      <3> QED BY <2>1, <3>1
    <2>3. /\ proc'[p].at = "remove" /\ proc'[p].about = c
          /\ \A q \in Procs : q # p => proc'[q] = proc[q]
      <3>1. "remove" \in Steps
        BY DEF Steps
      <3> QED BY <1>1, <2>1, <3>1, NothingTable, GotoFacts
    <2>4. Pending'
      BY <1>1, <1>3, <2>2, <2>3 DEF FollowInv, Pending
    <2> SUFFICES ASSUME custCauses' \cap Bad = {}
                 PROVE  CopiesCurrent' /\ OldRowsPending' /\ LeftRowsPending'
      BY <2>4 DEF FollowInv
    <2>5. /\ CopiesCurrent /\ OldRowsPending /\ LeftRowsPending
          /\ \A q \in Procs \ {p} : ~HoldsErp(q, c)
      BY <2>1 DEF FollowInv, CrossedBy, Bad
    <2>6. CopiesCurrent'
      BY <2>2, <2>3, <2>5 DEF CopiesCurrent, HoldsErp
    <2>7. OldRowsPending'
      <3>1. \A q \in Procs : \A d : HoldsErp(q, d) => HoldsErp(q, d)'
        BY <1>1, <2>3 DEF HoldsErp
      <3> QED BY <1>1, <2>2, <2>3, <2>5, <3>1 DEF OldRowsPending
    <2>8. LeftRowsPending'
      BY <1>1, <2>2, <2>3, <2>5 DEF LeftRowsPending
    <2> QED BY <2>6, <2>7, <2>8
  <1> QED BY <1>1, <1>2, <1>3 DEF EraseErp

(* A request that ends with a sync behind it. *)
LEMMA EndMoves ==
  ASSUME proc \in [Procs -> Process], NEW p \in Procs, EndRequest(p, TRUE)
  PROVE  \A q \in Procs : \/ proc'[q] = proc[q] /\ q # p
                          \/ proc'[q].at = "done" /\ q = p
                          \/ proc'[q].at = "load" /\ q[2] = "sync"
  <1>1. TRUE \in BOOLEAN
    OBVIOUS
  <1> QED BY <1>1, EndFacts

LEMMA RemoveFollow ==
  ASSUME Shape, FollowInv, NEW p \in Procs, RemoveRow(p) PROVE FollowInv'
  <1>0. PICK c \in CustomerIds : c = proc[p].about
    BY DEF Shape, CustTypeOK, Process
  <1>1. /\ proc[p].at = "remove" /\ UNCHANGED <<erp, given>> /\ EndRequest(p, TRUE)
        /\ proc \in [Procs -> Process] /\ c = proc[p].about /\ custDb \in Tables
        /\ custDb' = Without(c, custDb) /\ custCauses \subseteq custCauses'
    BY <1>0 DEF RemoveRow, FilledLate, Shape, CustTypeOK
  <1>2. /\ DOMAIN custDb' = DOMAIN custDb \ {c}
        /\ \A d \in DOMAIN custDb \ {c} : custDb'[d] = custDb[d]
    <2>1. /\ DOMAIN Without(c, custDb) = DOMAIN custDb \ {c}
          /\ \A d \in DOMAIN custDb \ {c} : Without(c, custDb)[d] = custDb[d]
      BY <1>1, WithoutTable
    <2> QED BY <1>1, <2>1
  <1>3. \A q \in Procs : \/ proc'[q] = proc[q] /\ q # p
                         \/ proc'[q].at = "done" /\ q = p
                         \/ proc'[q].at = "load" /\ proc[q].at # "remove"
    <2>1. \A q \in Procs : q[2] = "sync" => proc[q].at # "remove"
      BY DEF Shape, PutHolds, RequestOnly
    <2>2. \A q \in Procs : \/ proc'[q] = proc[q] /\ q # p
                           \/ proc'[q].at = "done" /\ q = p
                           \/ proc'[q].at = "load" /\ q[2] = "sync"
      BY <1>1, EndMoves
    <2> QED BY <2>1, <2>2
  <1>4. Pending'
    BY <1>1, <1>3, PendingKept DEF FollowInv, Pending
  <1> SUFFICES ASSUME custCauses' \cap Bad = {}
               PROVE  CopiesCurrent' /\ OldRowsPending' /\ LeftRowsPending'
    BY <1>4 DEF FollowInv
  <1>5. CopiesCurrent /\ OldRowsPending /\ LeftRowsPending
    BY <1>1 DEF FollowInv
  <1>6. c \notin DOMAIN erp
    BY <1>1 DEF FollowInv, Pending
  <1>7. CopiesCurrent'
    BY <1>1, <1>3, <1>5 DEF CopiesCurrent, HoldsErp
  <1>8. OldRowsPending'
    <2>1. \A q \in Procs : \A d : proc[q].at = "load" \/ HoldsErp(q, d)
                             => proc'[q].at = "load" \/ HoldsErp(q, d)'
      BY <1>1, <1>3 DEF HoldsErp
    <2> QED BY <1>1, <1>2, <1>5, <1>6, <2>1 DEF OldRowsPending
  <1>9. LeftRowsPending'
    BY <1>1, <1>2, <1>3, <1>5 DEF LeftRowsPending
  <1> QED BY <1>7, <1>8, <1>9

LEMMA PostFollow ==
  ASSUME Shape, FollowInv, NEW p \in Procs, NEW c \in CustomerIds, PostErp(p, c)
  PROVE  FollowInv'
  <1> DEFINE one == [id \in {c} |-> {p[1]}]
  <1>1. /\ proc[p].at = "post" /\ UNCHANGED custDb /\ EndRequest(p, TRUE)
        /\ proc \in [Procs -> Process] /\ erp \in Tables
        /\ c \notin given /\ given' = given \cup {c} /\ erp' = Over(one, erp)
        /\ custCauses \subseteq custCauses'
    BY DEF PostErp, CrossedBy, Shape, CustTypeOK
  <1>2. /\ DOMAIN erp' = DOMAIN erp \cup {c}
        /\ \A d \in DOMAIN erp : d # c => erp'[d] = erp[d]
    <2>1. {p[1]} \in SUBSET Edits
      BY ProcFacts DEF Edits
    <2>2. one \in Tables /\ DOMAIN one = {c}
      BY <2>1, OneTable
    <2> HIDE DEF one
    <2>3. /\ DOMAIN Over(one, erp) = DOMAIN one \cup DOMAIN erp
          /\ \A d \in DOMAIN erp \ DOMAIN one : Over(one, erp)[d] = erp[d]
      BY <1>1, <2>2, OverTable
    <2> QED BY <1>1, <2>2, <2>3
  <1>3. \A q \in Procs : \/ proc'[q] = proc[q] /\ q # p
                         \/ proc'[q].at = "done" /\ q = p
                         \/ proc'[q].at = "load" /\ proc[q].at # "remove"
    <2>1. \A q \in Procs : q[2] = "sync" => proc[q].at # "remove"
      BY DEF Shape, PutHolds, RequestOnly
    <2>2. \A q \in Procs : \/ proc'[q] = proc[q] /\ q # p
                           \/ proc'[q].at = "done" /\ q = p
                           \/ proc'[q].at = "load" /\ q[2] = "sync"
      BY <1>1, EndMoves
    <2> QED BY <2>1, <2>2
  <1>4. \E q \in Procs : proc'[q].at = "load"
    <2>1. <<p[1], "sync">> \in Procs /\ TRUE \in BOOLEAN
      BY ProcFacts
    <2> QED BY <1>1, <2>1, EndFacts
  <1>5. c \notin DOMAIN erp /\ DOMAIN erp \subseteq given
    BY <1>1 DEF FollowInv, Pending
  <1>6. Pending'
    BY <1>1, <1>2, <1>3, <1>5, PendingKept DEF FollowInv
  <1> SUFFICES ASSUME custCauses' \cap Bad = {}
               PROVE  CopiesCurrent' /\ OldRowsPending' /\ LeftRowsPending'
    BY <1>6 DEF FollowInv
  <1>7. CopiesCurrent /\ OldRowsPending /\ LeftRowsPending
    BY <1>1 DEF FollowInv
  <1>8. CopiesCurrent'
    <2>1. \A q \in Procs, d \in CustomerIds :
            HoldsErp(q, d)' => HoldsErp(q, d) /\ proc'[q] = proc[q]
      BY <1>3 DEF HoldsErp
    <2> QED BY <1>2, <1>5, <1>7, <2>1 DEF CopiesCurrent
  <1>9. OldRowsPending'
    BY <1>4 DEF OldRowsPending
  <1>10. LeftRowsPending'
    BY <1>1, <1>2, <1>3, <1>7 DEF LeftRowsPending
  <1> QED BY <1>8, <1>9, <1>10

LEMMA LoadFollow ==
  ASSUME Shape, FollowInv, NEW p \in Procs, LoadErp(p) PROVE FollowInv'
  <1>1. /\ proc[p].at = "load" /\ UNCHANGED <<erp, given, custDb, custCauses>>
        /\ proc'[p].at = "merge" /\ proc'[p].copy = erp
        /\ \A q \in Procs : q # p => proc'[q] = proc[q]
    <2>1. proc \in [Procs -> Process] /\ erp \in Tables /\ "merge" \in Steps
      BY DEF Shape, CustTypeOK, Steps
    <2> QED BY <2>1, GotoFacts DEF LoadErp
  <1>2. Pending'
    BY <1>1, PendingKept DEF FollowInv, Pending
  <1> SUFFICES ASSUME custCauses \cap Bad = {}
               PROVE  CopiesCurrent' /\ OldRowsPending' /\ LeftRowsPending'
    BY <1>1, <1>2 DEF FollowInv
  <1>3. CopiesCurrent /\ OldRowsPending /\ LeftRowsPending
    BY DEF FollowInv
  <1>4. CopiesCurrent'
    BY <1>1, <1>3 DEF CopiesCurrent, HoldsErp
  <1>5. OldRowsPending'
    <2>1. \A d \in DOMAIN erp : HoldsErp(p, d)'
      BY <1>1 DEF HoldsErp
    <2>2. \A q \in Procs : \A d : q # p /\ HoldsErp(q, d) => HoldsErp(q, d)'
      BY <1>1 DEF HoldsErp
    <2> QED BY <1>1, <1>3, <2>1, <2>2 DEF OldRowsPending
  <1>6. LeftRowsPending'
    BY <1>1, <1>3 DEF LeftRowsPending
  <1> QED BY <1>4, <1>5, <1>6

-----------------------------------------------------------------------------
(* The write of a row *)

(* A process that writes the row of c, or fails to, goes on without c. *)
Moves(p, c) == Goto(p, AfterUpsert[proc[p].at], Without(c, proc[p].copy))

LEMMA MovesFacts ==
  ASSUME Shape, NEW p \in Procs, NEW c, proc[p].at \in DOMAIN AfterUpsert, Moves(p, c)
  PROVE  /\ proc[p].at \in {"upsert", "store", "merge"}
         /\ proc'[p].at = AfterUpsert[proc[p].at]
         /\ proc'[p].at \in {"clear", "reread", "merge"}
         /\ proc'[p].at = "merge" => proc[p].at = "merge"
         /\ proc'[p].copy = Without(c, proc[p].copy) /\ proc'[p].about = proc[p].about
         /\ \A q \in Procs : q # p => proc'[q] = proc[q]
  <1>1. proc \in [Procs -> Process] /\ proc[p].copy \in Tables
    BY DEF Shape, CustTypeOK, Process
  <1>2. proc[p].at \in {"upsert", "store", "merge"}
    BY DEF AfterUpsert
  <1>3. /\ AfterUpsert[proc[p].at] \in {"clear", "reread", "merge"}
        /\ AfterUpsert[proc[p].at] = "merge" => proc[p].at = "merge"
    BY <1>2 DEF AfterUpsert
  <1>4. AfterUpsert[proc[p].at] \in Steps /\ Without(c, proc[p].copy) \in Tables
    BY <1>1, <1>3, WithoutTable DEF Steps
  <1> QED BY <1>1, <1>2, <1>3, <1>4, GotoFacts DEF Moves

LEMMA UpsertFollow ==
  ASSUME Shape, FollowInv, NEW p \in Procs, NEW c \in CustomerIds, Upsert(p, c)
  PROVE  FollowInv'
  <1> DEFINE row == Only(c, proc[p].copy)
  <1>1. /\ UNCHANGED <<erp, given>> /\ custDb' = Over(row, custDb)
        /\ custCauses \subseteq custCauses' /\ c \in DOMAIN proc[p].copy
        /\ proc[p].at \in DOMAIN AfterUpsert /\ Moves(p, c)
        /\ custDb \in Tables /\ proc[p].copy \in Tables
    BY DEF Upsert, FilledLate, Moves, Shape, CustTypeOK, Process
  <1>2. /\ proc[p].at \in {"upsert", "store", "merge"}
        /\ proc'[p].at \in {"clear", "reread", "merge"}
        /\ proc'[p].at = "merge" => proc[p].at = "merge"
        /\ proc'[p].copy = Without(c, proc[p].copy)
        /\ \A q \in Procs : q # p => proc'[q] = proc[q]
    BY <1>1, MovesFacts
  <1>3. /\ DOMAIN Without(c, proc[p].copy) = DOMAIN proc[p].copy \ {c}
        /\ \A d \in DOMAIN proc[p].copy \ {c} :
              Without(c, proc[p].copy)[d] = proc[p].copy[d]
    BY <1>1, WithoutTable
  <1>4. /\ DOMAIN custDb' = DOMAIN custDb \cup {c} /\ custDb'[c] = proc[p].copy[c]
        /\ \A d \in DOMAIN custDb : d # c => custDb'[d] = custDb[d]
    <2>1. row \in Tables /\ DOMAIN row = {c} \cap DOMAIN proc[p].copy
          /\ row[c] = proc[p].copy[c]
      BY <1>1, OnlyTable
    <2>2. DOMAIN row = {c}
      BY <1>1, <2>1
    <2> HIDE DEF row
    <2>3. /\ DOMAIN Over(row, custDb) = DOMAIN row \cup DOMAIN custDb
          /\ \A d \in DOMAIN row : Over(row, custDb)[d] = row[d]
          /\ \A d \in DOMAIN custDb \ DOMAIN row : Over(row, custDb)[d] = custDb[d]
      BY <1>1, <2>1, OverTable
    <2> QED BY <1>1, <2>1, <2>2, <2>3
  <1>5. Pending'
    BY <1>1, <1>2, PendingKept DEF FollowInv, Pending
  <1> SUFFICES ASSUME custCauses' \cap Bad = {}
               PROVE  CopiesCurrent' /\ OldRowsPending' /\ LeftRowsPending'
    BY <1>5 DEF FollowInv
  <1>6. CopiesCurrent /\ OldRowsPending /\ LeftRowsPending /\ Pending
    BY <1>1 DEF FollowInv
  <1>7. c \in DOMAIN erp /\ custDb'[c] = erp[c]
    BY <1>1, <1>2, <1>4, <1>6 DEF CopiesCurrent, HoldsErp
  <1>8. CopiesCurrent'
    <2>1. \A q \in Procs, d \in CustomerIds :
            HoldsErp(q, d)' => HoldsErp(q, d) /\ proc'[q].copy[d] = proc[q].copy[d]
      BY <1>2, <1>3 DEF HoldsErp
    <2> QED BY <1>1, <1>6, <2>1 DEF CopiesCurrent
  <1>9. OldRowsPending'
    <2>1. \A q \in Procs : proc[q].at = "load" => proc'[q].at = "load"
      BY <1>2
    <2>2. \A q \in Procs : \A d : HoldsErp(q, d) /\ d # c => HoldsErp(q, d)'
      <3>1. \A d : HoldsErp(p, d) /\ d # c => HoldsErp(p, d)'
        <4>1. CASE proc[p].at \in {"upsert", "store"}
          <5>1. DOMAIN proc[p].copy \subseteq {proc[p].about}
            BY <1>6, <4>1 DEF Pending
          <5> QED BY <1>1, <5>1 DEF HoldsErp
        <4>2. CASE proc[p].at = "merge"
          <5>1. proc'[p].at = "merge"
            BY <1>1, <4>2, MovesFacts DEF AfterUpsert
          <5> QED BY <1>2, <1>3, <5>1 DEF HoldsErp
        <4> QED BY <1>2, <4>1, <4>2
      <3> QED BY <1>2, <3>1 DEF HoldsErp
    <2> QED BY <1>1, <1>4, <1>6, <1>7, <2>1, <2>2 DEF OldRowsPending
  <1>10. LeftRowsPending'
    BY <1>1, <1>2, <1>4, <1>6, <1>7 DEF LeftRowsPending
  <1> QED BY <1>8, <1>9, <1>10

-----------------------------------------------------------------------------
(* What goes wrong *)

(* A fault in Bad leaves Pending to keep, and nothing else. *)
LEMMA BadKept ==
  ASSUME FollowInv, Pending', custCauses' \cap Bad # {} PROVE FollowInv'
  BY DEF FollowInv

LEMMA DatabaseFailsFollow ==
  ASSUME Shape, FollowInv, NEW p \in Procs, NEW c \in CustomerIds, DatabaseFails(p, c)
  PROVE  FollowInv'
  <1>1. /\ UNCHANGED <<erp, given>> /\ "database" \in custCauses'
        /\ proc \in [Procs -> Process]
    BY DEF DatabaseFails, Fault, Shape, CustTypeOK
  <1>2. Pending /\ custCauses' \cap Bad # {}
    BY <1>1 DEF FollowInv, Bad
  <1>3. CASE proc[p].at \in DOMAIN AfterUpsert /\ Moves(p, c)
    BY <1>1, <1>2, <1>3, MovesFacts, PendingKept, BadKept DEF Pending
  <1>4. CASE EndRequest(p, FALSE)
    <2>1. \A q \in Procs : \/ proc'[q] = proc[q]
                           \/ proc'[q].at \notin {"upsert", "store", "remove"}
      BY <1>1, <1>4, EndFacts
    <2> QED BY <1>1, <1>2, <2>1, PendingKept, BadKept DEF Pending
  <1> QED BY <1>3, <1>4 DEF DatabaseFails, Moves

LEMMA UnansweredFollow ==
  ASSUME Shape, FollowInv, NEW p \in Procs, NEW c \in CustomerIds, ErpAppliesUnanswered(p, c)
  PROVE  FollowInv'
  <1>1. /\ "erp" \in custCauses' /\ proc \in [Procs -> Process] /\ erp \in Tables
        /\ EndRequest(p, FALSE) \/ UNCHANGED proc
    BY DEF ErpAppliesUnanswered, Fault, Shape, CustTypeOK
  <1>2. Pending /\ custCauses' \cap Bad # {}
    BY <1>1 DEF FollowInv, Bad
  <1>3. \A q \in Procs : \/ proc'[q] = proc[q]
                         \/ proc'[q].at \notin {"upsert", "store", "remove"}
    BY <1>1, EndFacts
  <1>4. /\ given \subseteq given' /\ DOMAIN erp' \subseteq given'
        /\ DOMAIN erp' \cap given \subseteq DOMAIN erp
    <2>1. DOMAIN erp \subseteq given
      BY <1>2 DEF Pending
    <2>2. CASE erp' = [erp EXCEPT ![c] = Merged(p)] /\ UNCHANGED given
      BY <2>1, <2>2
    <2>3. CASE erp' = Without(c, erp) /\ UNCHANGED given
      <3>1. DOMAIN Without(c, erp) = DOMAIN erp \ {c}
        BY <1>1, WithoutTable
      <3> QED BY <2>1, <2>3, <3>1
    <2>4. CASE /\ c \notin given /\ given' = given \cup {c}
               /\ erp' = Over([id \in {c} |-> {p[1]}], erp)
      <3> DEFINE one == [id \in {c} |-> {p[1]}]
      <3>1. {p[1]} \in SUBSET Edits
        BY ProcFacts DEF Edits
      <3>2. one \in Tables /\ DOMAIN one = {c}
        BY <3>1, OneTable
      <3> HIDE DEF one
      <3>3. DOMAIN Over(one, erp) = DOMAIN one \cup DOMAIN erp
        BY <1>1, <3>2, OverTable
      <3>4. erp' = Over(one, erp)
        BY <2>4 DEF one
      <3> QED BY <2>1, <2>4, <3>2, <3>3, <3>4
    <2> QED BY <2>2, <2>3, <2>4 DEF ErpAppliesUnanswered
  <1> QED BY <1>2, <1>3, <1>4, PendingKept, BadKept

LEMMA OutsideFollow ==
  ASSUME Shape, FollowInv, NEW c \in CustomerIds, EditOutside(c) PROVE FollowInv'
  <1>1. /\ UNCHANGED <<given, proc>> /\ "outside" \in custCauses' /\ erp \in Tables
    BY DEF EditOutside, Fault, Shape, CustTypeOK
  <1>2. Pending /\ custCauses' \cap Bad # {}
    BY <1>1 DEF FollowInv, Bad
  <1>3. DOMAIN erp' \subseteq DOMAIN erp
    <2>1. DOMAIN Without(c, erp) = DOMAIN erp \ {c}
      BY <1>1, WithoutTable
    <2>2. CASE erp' = [erp EXCEPT ![c] = erp[c] \cup {Outsider}]
      BY <2>2
    <2>3. CASE erp' = Without(c, erp)
      BY <2>1, <2>3
    <2> QED BY <2>2, <2>3 DEF EditOutside
  <1> QED BY <1>1, <1>2, <1>3, PendingKept, BadKept DEF Pending

-----------------------------------------------------------------------------
(* At the start nothing is pending. *)
LEMMA InitFollow == CustInit => FollowInv
  <1> SUFFICES ASSUME CustInit PROVE FollowInv
    OBVIOUS
  <1>1. erp = custDb /\ DOMAIN erp \subseteq given /\ \A p \in Procs : proc[p].at = "idle"
    BY DEF CustInit, Init_proc
  <1> QED BY <1>1 DEF FollowInv, Pending, CopiesCurrent, OldRowsPending,
                      LeftRowsPending, HoldsErp

(* Every step keeps what is pending. *)
LEMMA NextFollow == Shape /\ FollowInv /\ [CustNext]_custVars => FollowInv'
  BY QuietSteps, QuietOthers, QuietFollow, ReadErpFollow, PutErpFollow, FetchFollow,
     EraseFollow, RemoveFollow, PostFollow, LoadFollow, UpsertFollow,
     DatabaseFailsFollow, UnansweredFollow, OutsideFollow
     DEF CustNext, Advance, Fails

(* When every request and every sync it left behind has ended, the         *)
(* database has the ERP's customers as the ERP has them, unless a call or  *)
(* a write failed, others changed the ERP, or an ERP write crossed a copy  *)
(* in another's hands.                                                     *)
THEOREM DatabaseFollows == CustSpec => []DatabaseFollowsErp
  <1>1. Shape /\ FollowInv => DatabaseFollowsErp
    <2> SUFFICES ASSUME Shape, FollowInv, CustQuiet, custCauses \cap Bad = {}
                 PROVE  custDb = erp
      BY DEF DatabaseFollowsErp, Bad
    <2>1. \A p \in Procs : proc[p].at \in {"idle", "done"}
      BY DEF CustQuiet, Idle
    <2>2. \A p \in Procs : \A c : proc[p].at # "load" /\ proc[p].at # "remove" /\ ~HoldsErp(p, c)
      BY <2>1 DEF HoldsErp
    <2>3. /\ \A c \in DOMAIN erp : c \in DOMAIN custDb /\ custDb[c] = erp[c]
          /\ DOMAIN custDb \subseteq DOMAIN erp
      BY <2>2 DEF FollowInv, OldRowsPending, LeftRowsPending
    <2> QED BY <2>3, SameTable DEF Shape, CustTypeOK
  <1> QED BY <1>1, InitShape, NextShape, InitFollow, NextFollow, PTL DEF CustSpec

-----------------------------------------------------------------------------
(* The caches follow the database *)

CalmCaches == custCauses \cap (Faults \cup {"lateFill"}) = {}

(* What a process has in hand for a cache is what the database has. *)
FreshHand(x) ==
  /\ x.at = "keep" => x.copy = custDb
  /\ x.at = "fill" => x.copy = Only(x.about, custDb) /\ x.about \in DOMAIN custDb

(* A process that will yet clear, or fill, the entry of c; *)
WillDrop(x, c) ==
  \/ x.at \in {"load", "merge", "flushLists", "flushDetails"}
  \/ x.at \in {"clear", "fill"} /\ x.about = c
  \/ x.at = "reread" /\ x.about = c /\ c \in DOMAIN custDb

(* one that will yet clear the lists, itself or by the sync it starts;     *)
WillFlush(x) == x.at \in {"upsert", "clear", "load", "merge", "flushLists"}

(* and one of those that will write the row of c.                          *)
WillSync(x, c) == x.at = "load" \/ (x.at \in {"upsert", "merge"} /\ c \in DOMAIN x.copy)

DetailsFollow ==
  \A c \in DOMAIN detailCache :
    \/ Only(c, detailCache) = Only(c, custDb)
    \/ \E p \in Procs : WillDrop(proc[p], c)

ListsFollow == listCache \subseteq {custDb} \/ \E p \in Procs : WillFlush(proc[p])

(* No row is left to a page's store alone. *)
RowsFollow ==
  \A c \in DOMAIN erp :
    \/ c \in DOMAIN custDb /\ custDb[c] = erp[c]
    \/ \E p \in Procs : WillSync(proc[p], c)

CacheInv ==
  /\ "lateFill" \notin custCauses => \A p \in Procs : FreshHand(proc[p])
  /\ CalmCaches => DetailsFollow
  /\ CalmCaches /\ "crossed" \notin custCauses => ListsFollow /\ RowsFollow

(* The steps that write no row: no process takes an old row in hand, and   *)
(* while nothing went wrong each entry is the database's, or is as before  *)
(* and still has who will clear it; likewise the lists, and the rows.      *)
LEMMA CachesKept ==
  ASSUME CacheInv, UNCHANGED custDb, custCauses \subseteq custCauses',
         \A q \in Procs : proc'[q] = proc[q] \/ FreshHand(proc'[q]),
         CalmCaches' =>
           /\ erp' = erp
           /\ \A c \in DOMAIN detailCache' :
                \/ Only(c, detailCache') = Only(c, custDb)
                \/ /\ c \in DOMAIN detailCache /\ Only(c, detailCache') = Only(c, detailCache)
                   /\ \A q \in Procs : WillDrop(proc[q], c) => WillDrop(proc'[q], c)
           /\ \/ listCache' \subseteq {custDb}
              \/ /\ listCache' \subseteq listCache
                 /\ \A q \in Procs : WillFlush(proc[q]) => WillFlush(proc'[q])
           /\ \A q \in Procs : \A c \in DOMAIN erp :
                WillSync(proc[q], c) => WillSync(proc'[q], c)
  PROVE  CacheInv'
  <1>1. "lateFill" \notin custCauses' => \A p \in Procs : FreshHand(proc[p])'
    BY DEF CacheInv, FreshHand
  <1>2. ASSUME CalmCaches'
        PROVE  DetailsFollow' /\ ("crossed" \notin custCauses' => ListsFollow' /\ RowsFollow')
    <2>1. /\ CalmCaches /\ DetailsFollow
          /\ "crossed" \notin custCauses' => ListsFollow /\ RowsFollow
      BY <1>2 DEF CacheInv, CalmCaches
    <2>2. \A x, c : WillDrop(x, c)' <=> WillDrop(x, c)
      BY DEF WillDrop
    <2>3. DetailsFollow'
      <3> SUFFICES ASSUME NEW c \in DOMAIN detailCache', Only(c, detailCache') # Only(c, custDb)
                   PROVE  \E p \in Procs : WillDrop(proc'[p], c)
        BY DEF DetailsFollow, WillDrop
      <3> QED BY <1>2, <2>1 DEF DetailsFollow
    <2>4. "crossed" \notin custCauses' => ListsFollow'
      BY <1>2, <2>1 DEF ListsFollow, WillFlush
    <2>5. "crossed" \notin custCauses' => RowsFollow'
      BY <1>2, <2>1 DEF RowsFollow, WillSync
    <2> QED BY <2>3, <2>4, <2>5
  <1> QED BY <1>1, <1>2 DEF CacheInv

(* A sync that is about to load will bring everything. *)
LEMMA LoadCovers ==
  ASSUME NEW s \in Procs, proc'[s].at = "load",
         "lateFill" \notin custCauses' => \A p \in Procs : FreshHand(proc[p])'
  PROVE  CacheInv'
  BY DEF CacheInv, DetailsFollow, ListsFollow, RowsFollow, WillDrop, WillFlush, WillSync

(* After a fault only the hands matter. *)
LEMMA FaultyCaches ==
  ASSUME CacheInv, UNCHANGED custDb, NEW kind \in Faults, kind \in custCauses',
         custCauses \subseteq custCauses',
         \A q \in Procs : proc'[q] = proc[q] \/ proc'[q].at \notin {"keep", "fill"}
  PROVE  CacheInv'
  <1>1. ~CalmCaches'
    BY DEF CalmCaches
  <1>2. \A q \in Procs : proc'[q] = proc[q] \/ FreshHand(proc'[q])
    BY DEF FreshHand
  <1> QED BY <1>1, <1>2, CachesKept

(* The others keep what they are about to do when a request ends. *)
LEMMA EndKeepsOthers ==
  ASSUME Shape, NEW p \in Procs, NEW left \in BOOLEAN, EndRequest(p, left)
  PROVE  /\ \A q \in Procs : proc'[q] = proc[q] \/ FreshHand(proc'[q])
         /\ \A q \in Procs \ {p} :
              /\ \A c : WillDrop(proc[q], c) => WillDrop(proc'[q], c)
              /\ WillFlush(proc[q]) => WillFlush(proc'[q])
              /\ \A c : WillSync(proc[q], c) => WillSync(proc'[q], c)
<1>1. \A q \in Procs : \/ proc'[q] = proc[q] /\ q # p
                       \/ proc'[q].at = "done" /\ q = p
                       \/ proc'[q].at = "load"
  BY EndFacts DEF Shape, CustTypeOK
<1> QED BY <1>1 DEF FreshHand, WillDrop, WillFlush, WillSync

(* So they do when a process moves. *)
LEMMA MoveKeepsOthers ==
  ASSUME Shape, NEW p \in Procs, NEW step \in Steps, NEW copy \in Tables, Goto(p, step, copy)
  PROVE  /\ proc'[p].at = step /\ proc'[p].copy = copy /\ proc'[p].about = proc[p].about
         /\ \A q \in Procs \ {p} : proc'[q] = proc[q]
BY GotoFacts DEF Shape, CustTypeOK

(* The steps that write nothing at all. *)
LEMMA IdleCaches ==
  ASSUME Shape, CacheInv, NEW p \in Procs,
         ReadErp(p) \/ GetDetail(p) \/ FetchDetail(p) \/ LookupList(p) \/ QueryList(p)
  PROVE  CacheInv'
<1>1. /\ UNCHANGED <<erp, custDb, detailCache, listCache>> /\ custCauses \subseteq custCauses'
      /\ proc[p].at \in {"read", "get", "fetch", "lookup", "query"}
  BY DEF ReadErp, GetDetail, FetchDetail, LookupList, QueryList
<1>2. erp \in Tables /\ custDb \in Tables /\ FALSE \in BOOLEAN
      /\ \A step \in {"put", "fetch", "store", "query", "keep"} : step \in Steps
  BY DEF Shape, CustTypeOK, Steps
<1>3. ~WillFlush(proc[p]) /\ \A c : ~WillDrop(proc[p], c) /\ ~WillSync(proc[p], c)
  BY <1>1 DEF WillDrop, WillFlush, WillSync
<1>4. /\ \A q \in Procs : proc'[q] = proc[q] \/ FreshHand(proc'[q])
      /\ \A q \in Procs \ {p} :
           /\ \A c : WillDrop(proc[q], c) => WillDrop(proc'[q], c)
           /\ WillFlush(proc[q]) => WillFlush(proc'[q])
           /\ \A c : WillSync(proc[q], c) => WillSync(proc'[q], c)
  <2>1. CASE EndRequest(p, FALSE)
    BY <1>2, <2>1, EndKeepsOthers
  <2>2. CASE \E step \in {"put", "fetch", "store", "query"}, copy \in Tables : Goto(p, step, copy)
    <3>1. PICK step \in {"put", "fetch", "store", "query"}, copy \in Tables : Goto(p, step, copy)
      BY <2>2
    <3>2. proc'[p].at = step /\ \A q \in Procs \ {p} : proc'[q] = proc[q]
      BY <1>2, <3>1, MoveKeepsOthers
    <3> QED BY <3>1, <3>2 DEF FreshHand
  <2>3. CASE Goto(p, "keep", custDb)
    <3>1. /\ proc'[p].at = "keep" /\ proc'[p].copy = custDb
          /\ \A q \in Procs \ {p} : proc'[q] = proc[q]
      BY <1>2, <2>3, MoveKeepsOthers
    <3> QED BY <3>1 DEF FreshHand
  <2>4. \A c : Only(c, erp) \in Tables
    BY <1>2, OnlyTable
  <2> QED BY <2>1, <2>2, <2>3, <2>4, NothingTable
          DEF ReadErp, GetDetail, FetchDetail, LookupList, QueryList
<1> QED BY <1>1, <1>3, <1>4, CachesKept

(* A request arrives, entries expire, or nothing happens. *)
LEMMA OutsideCaches ==
  ASSUME Shape, CacheInv, (\E t \in Tasks : Start(t)) \/ Expire \/ UNCHANGED custVars
  PROVE  CacheInv'
<1>1. CASE Expire \/ UNCHANGED custVars
  <2>1. /\ UNCHANGED <<erp, custDb, proc, custCauses>>
        /\ listCache' \subseteq listCache
        /\ detailCache' \in {detailCache, Nothing}
    BY <1>1 DEF Expire, custVars
  <2>2. DOMAIN Nothing = {}
    BY NothingTable
  <2> QED BY <2>1, <2>2, CachesKept
<1>2. ASSUME NEW t \in Tasks, Start(t) PROVE CacheInv'
  <2>1. /\ UNCHANGED <<erp, custDb, detailCache, listCache, custCauses>>
        /\ proc[<<t, "request">>].at = "idle"
        /\ proc'[<<t, "request">>].at \in {"read", "get", "erase", "post", "lookup", "load"}
        /\ \A q \in Procs : q # <<t, "request">> => proc'[q] = proc[q]
    BY <1>2, StartFacts DEF Shape, CustTypeOK
  <2>2. \A q \in Procs : proc'[q] = proc[q] \/ FreshHand(proc'[q])
    BY <2>1 DEF FreshHand
  <2>3. \A q \in Procs :
          /\ \A c : WillDrop(proc[q], c) => WillDrop(proc'[q], c)
          /\ WillFlush(proc[q]) => WillFlush(proc'[q])
          /\ \A c : WillSync(proc[q], c) => WillSync(proc'[q], c)
    BY <2>1 DEF WillDrop, WillFlush, WillSync
  <2> QED BY <2>1, <2>2, <2>3, CachesKept
<1> QED BY <1>1, <1>2

(* A page reads its row again, and keeps it. *)
LEMMA PageCaches ==
  ASSUME Shape, CacheInv, NEW p \in Procs, Reread(p) \/ FillDetail(p)
  PROVE  CacheInv'
<1> DEFINE a == proc[p].about
<1>1. /\ UNCHANGED <<erp, custDb, listCache, custCauses>>
      /\ custDb \in Tables /\ detailCache \in Tables /\ proc[p].copy \in Tables
      /\ proc[p].at \in {"reread", "fill"} /\ FALSE \in BOOLEAN
  BY DEF Reread, FillDetail, Shape, CustTypeOK, Process
<1>2. ~WillFlush(proc[p]) /\ (\A c : ~WillSync(proc[p], c))
      /\ \A c : c # a => ~WillDrop(proc[p], c)
  BY <1>1 DEF WillDrop, WillFlush, WillSync
<1>3. CASE Reread(p) /\ a \in DOMAIN custDb
  <2>1. Only(a, custDb) \in Tables /\ "fill" \in Steps
    BY <1>1, OnlyTable DEF Steps
  <2>2. Goto(p, "fill", Only(a, custDb)) /\ detailCache' = detailCache
    BY <1>3 DEF Reread
  <2>3. /\ proc'[p].at = "fill" /\ proc'[p].copy = Only(a, custDb) /\ proc'[p].about = a
        /\ \A q \in Procs \ {p} : proc'[q] = proc[q]
    BY <2>1, <2>2, MoveKeepsOthers
  <2>4. \A q \in Procs : proc'[q] = proc[q] \/ FreshHand(proc'[q])
    BY <1>3, <2>3 DEF FreshHand
  <2>5. \A q \in Procs : \A c : WillDrop(proc[q], c) => WillDrop(proc'[q], c)
    BY <1>2, <2>3 DEF WillDrop
  <2> QED BY <1>1, <1>2, <2>2, <2>3, <2>4, <2>5, CachesKept
<1>4. CASE Reread(p) /\ a \notin DOMAIN custDb
  <2>1. EndRequest(p, FALSE) /\ detailCache' = detailCache /\ proc[p].at = "reread"
    BY <1>4 DEF Reread
  <2>2. \A c : ~WillDrop(proc[p], c)
    BY <1>4, <2>1 DEF WillDrop
  <2>3. /\ \A q \in Procs : proc'[q] = proc[q] \/ FreshHand(proc'[q])
        /\ \A q \in Procs \ {p} :
             /\ \A c : WillDrop(proc[q], c) => WillDrop(proc'[q], c)
             /\ WillFlush(proc[q]) => WillFlush(proc'[q])
             /\ \A c : WillSync(proc[q], c) => WillSync(proc'[q], c)
    BY <1>1, <2>1, EndKeepsOthers
  <2> QED BY <1>1, <1>2, <2>1, <2>2, <2>3, CachesKept
<1>5. CASE FillDetail(p)
  <2>1. /\ EndRequest(p, FALSE) /\ detailCache' = Over(proc[p].copy, detailCache)
        /\ proc[p].at = "fill"
    BY <1>5 DEF FillDetail
  <2>2. /\ \A q \in Procs : proc'[q] = proc[q] \/ FreshHand(proc'[q])
        /\ \A q \in Procs \ {p} :
             /\ \A c : WillDrop(proc[q], c) => WillDrop(proc'[q], c)
             /\ WillFlush(proc[q]) => WillFlush(proc'[q])
             /\ \A c : WillSync(proc[q], c) => WillSync(proc'[q], c)
    BY <1>1, <2>1, EndKeepsOthers
  <2>3. ASSUME CalmCaches'
        PROVE  \A c \in DOMAIN detailCache' :
                 \/ Only(c, detailCache') = Only(c, custDb)
                 \/ /\ c \in DOMAIN detailCache /\ Only(c, detailCache') = Only(c, detailCache)
                    /\ \A q \in Procs : WillDrop(proc[q], c) => WillDrop(proc'[q], c)
    <3>1. proc[p].copy = Only(a, custDb) /\ a \in DOMAIN custDb
      BY <1>1, <2>1, <2>3 DEF CacheInv, CalmCaches, FreshHand
    <3>2. DOMAIN proc[p].copy = {a} /\ proc[p].copy[a] = custDb[a]
      <4>1. /\ DOMAIN Only(a, custDb) = {a} \cap DOMAIN custDb
            /\ a \in DOMAIN custDb => Only(a, custDb)[a] = custDb[a]
        BY <1>1, OnlyTable
      <4> QED BY <3>1, <4>1
    <3>3. /\ DOMAIN detailCache' = {a} \cup DOMAIN detailCache
          /\ detailCache'[a] = custDb[a]
          /\ \A d \in DOMAIN detailCache \ {a} : detailCache'[d] = detailCache[d]
      <4> DEFINE new == proc[p].copy
      <4>1. new \in Tables /\ detailCache' = Over(new, detailCache)
            /\ DOMAIN new = {a} /\ new[a] = custDb[a]
        BY <1>1, <2>1, <3>2
      <4> HIDE DEF new, a
      <4>2. /\ DOMAIN Over(new, detailCache) = DOMAIN new \cup DOMAIN detailCache
            /\ \A d \in DOMAIN new : Over(new, detailCache)[d] = new[d]
            /\ \A d \in DOMAIN detailCache \ DOMAIN new :
                  Over(new, detailCache)[d] = detailCache[d]
        BY <1>1, <4>1, OverTable
      <4> QED BY <4>1, <4>2
    <3>4. Only(a, detailCache') = Only(a, custDb)
      BY <3>1, <3>3 DEF Only
    <3>5. ASSUME NEW c \in DOMAIN detailCache', c # a
          PROVE  c \in DOMAIN detailCache /\ Only(c, detailCache') = Only(c, detailCache)
      BY <3>3, <3>5 DEF Only
    <3> QED BY <1>2, <2>2, <3>4, <3>5
  <2> QED BY <1>1, <1>2, <2>1, <2>2, <2>3, CachesKept
<1> QED BY <1>3, <1>4, <1>5

(* A list is kept, or the caches are cleared. *)
LEMMA ClearCaches ==
  ASSUME Shape, CacheInv, NEW p \in Procs, KeepList(p) \/ FlushLists(p) \/ FlushDetails(p)
  PROVE  CacheInv'
<1>1. /\ UNCHANGED <<erp, custDb, custCauses>>
      /\ proc[p].at \in {"keep", "flushLists", "flushDetails"} /\ FALSE \in BOOLEAN
      /\ "flushDetails" \in Steps
  BY DEF KeepList, FlushLists, FlushDetails, Steps
<1>2. \A c : ~WillSync(proc[p], c)
  BY <1>1 DEF WillSync
<1>3. CASE KeepList(p)
  <2>1. PICK few \in BOOLEAN : EndRequest(p, few)
    BY <1>3 DEF KeepList
  <2>2. proc[p].at = "keep" /\ listCache' = {proc[p].copy} /\ detailCache' = detailCache
    BY <1>3 DEF KeepList
  <2>3. /\ \A q \in Procs : proc'[q] = proc[q] \/ FreshHand(proc'[q])
        /\ \A q \in Procs \ {p} :
             /\ \A c : WillDrop(proc[q], c) => WillDrop(proc'[q], c)
             /\ \A c : WillSync(proc[q], c) => WillSync(proc'[q], c)
    BY <2>1, EndKeepsOthers
  <2>4. \A c : ~WillDrop(proc[p], c)
    BY <2>2 DEF WillDrop
  <2>5. CalmCaches' => proc[p].copy = custDb
    BY <1>1, <2>2 DEF CacheInv, CalmCaches, FreshHand
  <2> QED BY <1>1, <1>2, <2>2, <2>3, <2>4, <2>5, CachesKept
<1>4. CASE FlushLists(p)
  <2>1. /\ proc[p].at = "flushLists" /\ listCache' = {} /\ detailCache' = detailCache
        /\ Goto(p, "flushDetails", Nothing)
    BY <1>4 DEF FlushLists
  <2>2. proc'[p].at = "flushDetails" /\ \A q \in Procs \ {p} : proc'[q] = proc[q]
    BY <1>1, <2>1, NothingTable, MoveKeepsOthers
  <2>3. \A q \in Procs : proc'[q] = proc[q] \/ FreshHand(proc'[q])
    BY <2>2 DEF FreshHand
  <2>4. \A q \in Procs : \A c : WillDrop(proc[q], c) => WillDrop(proc'[q], c)
    BY <2>2 DEF WillDrop
  <2> QED BY <1>1, <1>2, <2>1, <2>2, <2>3, <2>4, CachesKept
<1>5. CASE FlushDetails(p)
  <2>1. /\ proc[p].at = "flushDetails" /\ detailCache' = Nothing /\ listCache' = listCache
        /\ EndRequest(p, FALSE) /\ DOMAIN Nothing = {}
    BY <1>5, NothingTable DEF FlushDetails
  <2>2. /\ \A q \in Procs : proc'[q] = proc[q] \/ FreshHand(proc'[q])
        /\ \A q \in Procs \ {p} :
             /\ WillFlush(proc[q]) => WillFlush(proc'[q])
             /\ \A c : WillSync(proc[q], c) => WillSync(proc'[q], c)
    BY <1>1, <2>1, EndKeepsOthers
  <2>3. ~WillFlush(proc[p])
    BY <2>1 DEF WillFlush
  <2> QED BY <1>1, <1>2, <2>1, <2>2, <2>3, CachesKept
<1> QED BY <1>3, <1>4, <1>5

(* A sync holds the ERP's customers, and has written them all. *)
LEMMA MergeCaches ==
  ASSUME Shape, CacheInv, NEW p \in Procs, LoadErp(p) \/ EndMerge(p)
  PROVE  CacheInv'
<1>1. /\ UNCHANGED <<erp, custDb, detailCache, listCache, custCauses>>
      /\ erp \in Tables /\ "merge" \in Steps /\ "flushLists" \in Steps
  BY DEF LoadErp, EndMerge, Shape, CustTypeOK, Steps
<1>2. \/ /\ proc[p].at = "load" /\ proc'[p].at = "merge" /\ proc'[p].copy = erp
      \/ /\ proc[p].at = "merge" /\ proc'[p].at = "flushLists" /\ DOMAIN proc[p].copy = {}
  <2>1. CASE LoadErp(p)
    BY <1>1, <2>1, MoveKeepsOthers DEF LoadErp
  <2>2. CASE EndMerge(p)
    BY <1>1, <2>2, NothingTable, MoveKeepsOthers DEF EndMerge
  <2> QED BY <2>1, <2>2
<1>3. \A q \in Procs \ {p} : proc'[q] = proc[q]
  BY <1>1, NothingTable, MoveKeepsOthers DEF LoadErp, EndMerge
<1>4. \A q \in Procs : proc'[q] = proc[q] \/ FreshHand(proc'[q])
  BY <1>2, <1>3 DEF FreshHand
<1>5. \A q \in Procs : /\ \A c : WillDrop(proc[q], c) => WillDrop(proc'[q], c)
                       /\ WillFlush(proc[q]) => WillFlush(proc'[q])
  BY <1>2, <1>3 DEF WillDrop, WillFlush
<1>6. \A q \in Procs : \A c \in DOMAIN erp : WillSync(proc[q], c) => WillSync(proc'[q], c)
  BY <1>2, <1>3 DEF WillSync
<1> QED BY <1>1, <1>4, <1>5, <1>6, CachesKept

(* The steps that start a sync. *)
LEMMA SyncsCaches ==
  ASSUME Shape, CacheInv, NEW p \in Procs,
         ClearDetail(p) \/ RemoveRow(p) \/ \E c \in CustomerIds : PostErp(p, c)
  PROVE  CacheInv'
<1> DEFINE s == <<p[1], "sync">>
<1>1. s \in Procs /\ TRUE \in BOOLEAN /\ proc \in [Procs -> Process]
  BY ProcFacts DEF Shape, CustTypeOK
<1>2. CASE ClearDetail(p) \/ \E c \in CustomerIds : PostErp(p, c)
  <2>1. /\ custDb' = custDb /\ custCauses \subseteq custCauses'
        /\ ClearsDetail(p) \/ EndRequest(p, TRUE)
    BY <1>2 DEF ClearDetail, ClearsDetail, PostErp, CrossedBy
  <2>2. /\ proc'[s].at = "load"
        /\ \A q \in Procs : proc'[q] = proc[q] \/ proc'[q].at \in {"get", "done", "load"}
    BY <1>1, <2>1, ClearFacts, EndFacts
  <2>3. "lateFill" \notin custCauses' => \A q \in Procs : FreshHand(proc[q])'
    BY <2>1, <2>2 DEF CacheInv, FreshHand
  <2> QED BY <1>1, <2>2, <2>3, LoadCovers
<1>3. CASE RemoveRow(p)
  <2> DEFINE a == proc[p].about
  <2>1. /\ custDb' = Without(a, custDb) /\ EndRequest(p, TRUE)
        /\ custCauses' = FilledLate(p, a, custDb') /\ proc[p].at = "remove"
        /\ custDb \in Tables /\ custDb' \in Tables
    BY <1>3, WithoutTable DEF RemoveRow, Shape, CustTypeOK
  <2>2. /\ proc'[s].at = "load"
        /\ \A q \in Procs : \/ proc'[q] = proc[q] /\ q # p
                            \/ proc'[q].at \in {"done", "load"}
    BY <1>1, <2>1, EndFacts
  <2>3. /\ DOMAIN custDb' = DOMAIN custDb \ {a}
        /\ \A d \in DOMAIN custDb' : custDb'[d] = custDb[d]
    <3>1. /\ DOMAIN Without(a, custDb) = DOMAIN custDb \ {a}
          /\ \A d \in DOMAIN custDb \ {a} : Without(a, custDb)[d] = custDb[d]
      BY <2>1, WithoutTable
    <3> QED BY <2>1, <3>1
  <2>4. \A d : d # a => Only(d, custDb') = Only(d, custDb)
    BY <2>3 DEF Only
  <2> HIDE DEF s, a
  <2>5. ASSUME "lateFill" \notin custCauses', NEW q \in Procs
        PROVE  FreshHand(proc[q])'
    <3>1. CASE proc'[q] # proc[q] \/ q = p
      BY <2>2, <3>1 DEF FreshHand
    <3>2. CASE proc'[q] = proc[q] /\ q # p
      <4>1. FreshHand(proc[q]) /\ ~(HoldsRow(q, a) /\ Only(a, custDb) # Only(a, custDb'))
        BY <2>1, <2>5, <3>2 DEF CacheInv, FilledLate
      <4>2. CASE proc[q].at = "keep"
        <5>1. Only(a, custDb) = Only(a, custDb')
          BY <4>1, <4>2 DEF HoldsRow
        <5>2. a \notin DOMAIN custDb
          BY <2>3, <5>1 DEF Only
        <5>3. custDb' = custDb
          BY <2>1, <2>3, <5>2, SameTable
        <5> QED BY <3>2, <4>1, <5>3 DEF FreshHand
      <4>3. CASE proc[q].at = "fill" /\ proc[q].about = a
        <5>1. Only(a, custDb) = Only(a, custDb')
          BY <4>1, <4>3 DEF HoldsRow
        <5>2. a \notin DOMAIN custDb
          BY <2>3, <5>1 DEF Only
        <5> QED BY <4>1, <4>3, <5>2 DEF FreshHand
      <4>4. CASE proc[q].at = "fill" /\ proc[q].about # a
        BY <2>3, <2>4, <3>2, <4>1, <4>4 DEF FreshHand
      <4> QED BY <3>2, <4>2, <4>3, <4>4 DEF FreshHand
    <3> QED BY <3>1, <3>2
  <2> QED BY <1>1, <2>2, <2>5, LoadCovers DEF s
<1> QED BY <1>2, <1>3

(* The steps that change the ERP's record of one customer: an update will  *)
(* write the row itself.                                                   *)
LEMMA ErpCaches ==
  ASSUME Shape, CacheInv, NEW p \in Procs, PutErp(p) \/ EraseErp(p)
  PROVE  CacheInv'
<1> DEFINE a == proc[p].about
<1>1. /\ UNCHANGED <<custDb, detailCache, listCache>> /\ custCauses \subseteq custCauses'
      /\ proc[p].at \in {"put", "erase"} /\ FALSE \in BOOLEAN
      /\ a \in CustomerIds /\ erp \in Tables
      /\ "upsert" \in Steps /\ "remove" \in Steps
  BY DEF PutErp, EraseErp, CrossedBy, Shape, CustTypeOK, Process, Steps
<1>2. ~WillFlush(proc[p]) /\ \A c : ~WillDrop(proc[p], c) /\ ~WillSync(proc[p], c)
  BY <1>1 DEF WillDrop, WillFlush, WillSync
<1>3. CASE EndRequest(p, FALSE) /\ UNCHANGED erp
  <2>1. /\ \A q \in Procs : proc'[q] = proc[q] \/ FreshHand(proc'[q])
        /\ \A q \in Procs \ {p} :
             /\ \A c : WillDrop(proc[q], c) => WillDrop(proc'[q], c)
             /\ WillFlush(proc[q]) => WillFlush(proc'[q])
             /\ \A c : WillSync(proc[q], c) => WillSync(proc'[q], c)
    BY <1>1, <1>3, EndKeepsOthers
  <2> QED BY <1>1, <1>2, <1>3, <2>1, CachesKept
<1>4. CASE a \in DOMAIN erp
  <2>1. /\ \A q \in Procs \ {p} : proc'[q] = proc[q]
        /\ \/ proc'[p].at = "upsert" /\ DOMAIN proc'[p].copy = {a} /\ DOMAIN erp' = DOMAIN erp
           \/ proc'[p].at = "remove" /\ DOMAIN erp' = DOMAIN erp \ {a}
        /\ \A d \in DOMAIN erp' : d # a => erp'[d] = erp[d]
    <3>1. CASE PutErp(p)
      <4> DEFINE one == [id \in {a} |-> Merged(p)]
      <4>1. erp' = [erp EXCEPT ![a] = Merged(p)] /\ Goto(p, "upsert", one)
            /\ proc[p].at = "put"
        BY <1>4, <3>1 DEF PutErp
      <4>2. one \in Tables /\ DOMAIN one = {a}
        BY <1>1, <4>1, MergedType, OneTable
      <4> HIDE DEF one
      <4>3. proc'[p].at = "upsert" /\ proc'[p].copy = one
            /\ \A q \in Procs \ {p} : proc'[q] = proc[q]
        BY <1>1, <4>1, <4>2, MoveKeepsOthers
      <4> QED BY <4>1, <4>2, <4>3
    <3>2. CASE EraseErp(p)
      <4>1. erp' = Without(a, erp) /\ Goto(p, "remove", Nothing)
        BY <1>4, <3>2 DEF EraseErp
      <4>2. /\ DOMAIN Without(a, erp) = DOMAIN erp \ {a}
            /\ \A d \in DOMAIN erp \ {a} : Without(a, erp)[d] = erp[d]
        BY <1>1, WithoutTable
      <4>3. proc'[p].at = "remove" /\ \A q \in Procs \ {p} : proc'[q] = proc[q]
        BY <1>1, <4>1, NothingTable, MoveKeepsOthers
      <4> QED BY <4>1, <4>2, <4>3
    <3> QED BY <3>1, <3>2
  <2> HIDE DEF a
  <2>2. "lateFill" \notin custCauses' => \A q \in Procs : FreshHand(proc[q])'
    BY <1>1, <2>1 DEF CacheInv, FreshHand
  <2>3. ASSUME CalmCaches'
        PROVE  DetailsFollow' /\ ("crossed" \notin custCauses' => ListsFollow' /\ RowsFollow')
    <3>1. /\ DetailsFollow
          /\ "crossed" \notin custCauses' => ListsFollow /\ RowsFollow
      BY <1>1, <2>3 DEF CacheInv, CalmCaches
    <3>2. DetailsFollow'
      <4> SUFFICES ASSUME NEW c \in DOMAIN detailCache, Only(c, detailCache) # Only(c, custDb)
                   PROVE  \E q \in Procs : WillDrop(proc'[q], c)
        BY <1>1 DEF DetailsFollow, WillDrop
      <4> QED BY <1>2, <2>1, <3>1 DEF DetailsFollow
    <3>3. "crossed" \notin custCauses' => ListsFollow'
      BY <1>1, <1>2, <2>1, <3>1 DEF ListsFollow, WillFlush
    <3>4. "crossed" \notin custCauses' => RowsFollow'
      <4> SUFFICES ASSUME "crossed" \notin custCauses', NEW c \in DOMAIN erp',
                          ~(c \in DOMAIN custDb /\ custDb[c] = erp'[c])
                   PROVE  \E q \in Procs : WillSync(proc'[q], c)
        BY <1>1 DEF RowsFollow, WillSync
      <4>1. CASE c = a
        BY <2>1, <4>1 DEF WillSync
      <4>2. CASE c # a
        <5>1. PICK q \in Procs : WillSync(proc[q], c)
          BY <2>1, <3>1, <4>2 DEF RowsFollow
        <5> QED BY <1>2, <2>1, <5>1
      <4> QED BY <4>1, <4>2
    <3> QED BY <3>2, <3>3, <3>4
  <2> QED BY <2>2, <2>3 DEF CacheInv
<1> QED BY <1>3, <1>4 DEF PutErp, EraseErp

(* The row of c is written: who fills a cache from the old one is late,    *)
(* and the writer, or another, will clear what was filled from it.         *)
LEMMA UpsertCaches ==
  ASSUME Shape, CacheInv, FollowInv, NEW p \in Procs, NEW c \in CustomerIds, Upsert(p, c)
  PROVE  CacheInv'
<1> DEFINE row == Only(c, proc[p].copy)
<1>1. /\ erp' = erp /\ UNCHANGED <<detailCache, listCache>> /\ custDb' = Over(row, custDb)
      /\ custCauses' = FilledLate(p, c, row) /\ custCauses \subseteq custCauses'
      /\ c \in DOMAIN proc[p].copy
      /\ proc[p].at \in DOMAIN AfterUpsert /\ Moves(p, c)
      /\ custDb \in Tables /\ proc[p].copy \in Tables
  BY DEF Upsert, FilledLate, Moves, Shape, CustTypeOK, Process
<1>2. /\ proc[p].at \in {"upsert", "store", "merge"}
      /\ proc'[p].at = AfterUpsert[proc[p].at]
      /\ proc'[p].copy = Without(c, proc[p].copy) /\ proc'[p].about = proc[p].about
      /\ \A q \in Procs : q # p => proc'[q] = proc[q]
  BY <1>1, MovesFacts
<1>3. DOMAIN Without(c, proc[p].copy) = DOMAIN proc[p].copy \ {c}
  BY <1>1, WithoutTable
<1>4. /\ proc[p].at = "upsert" => proc'[p].at = "clear"
      /\ proc[p].at = "store" => proc'[p].at = "reread"
      /\ proc[p].at = "merge" => proc'[p].at = "merge"
  BY <1>2 DEF AfterUpsert
<1>5. row \in Tables /\ DOMAIN row = {c} /\ row[c] = proc[p].copy[c]
  <2>1. /\ row \in Tables /\ DOMAIN row = {c} \cap DOMAIN proc[p].copy
        /\ c \in DOMAIN proc[p].copy => row[c] = proc[p].copy[c]
    BY <1>1, OnlyTable
  <2> QED BY <1>1, <2>1
<1> HIDE DEF row
<1>6. /\ DOMAIN custDb' = DOMAIN custDb \cup {c} /\ custDb'[c] = row[c]
      /\ \A d \in DOMAIN custDb : d # c => custDb'[d] = custDb[d]
      /\ custDb' \in Tables
  <2>1. /\ DOMAIN Over(row, custDb) = DOMAIN row \cup DOMAIN custDb
        /\ \A d \in DOMAIN row : Over(row, custDb)[d] = row[d]
        /\ \A d \in DOMAIN custDb \ DOMAIN row : Over(row, custDb)[d] = custDb[d]
        /\ Over(row, custDb) \in Tables
    BY <1>1, <1>5, OverTable
  <2> QED BY <1>1, <1>5, <2>1
<1>7. /\ \A d : d # c => Only(d, custDb') = Only(d, custDb)
      /\ Only(c, custDb') = Only(c, row)
  BY <1>5, <1>6 DEF Only
<1>8. Only(c, custDb) = Only(c, row) => custDb' = custDb
  <2> SUFFICES ASSUME Only(c, custDb) = Only(c, row)
               PROVE  custDb' = custDb
    OBVIOUS
  <2>1. /\ DOMAIN Only(c, custDb) = {c} \cap DOMAIN custDb
        /\ c \in DOMAIN custDb => Only(c, custDb)[c] = custDb[c]
        /\ DOMAIN Only(c, row) = {c} \cap DOMAIN row /\ Only(c, row)[c] = row[c]
    BY <1>1, <1>5, OnlyTable
  <2>2. c \in DOMAIN custDb /\ custDb[c] = row[c]
    BY <1>5, <2>1
  <2>3. DOMAIN custDb' = DOMAIN custDb /\ \A d \in DOMAIN custDb' : custDb'[d] = custDb[d]
    BY <1>6, <2>2
  <2> QED BY <1>1, <1>6, <2>3, SameTable
<1>9. "lateFill" \notin custCauses' => \A q \in Procs : FreshHand(proc[q])'
  <2> SUFFICES ASSUME "lateFill" \notin custCauses', NEW q \in Procs
               PROVE  FreshHand(proc[q])'
    OBVIOUS
  <2>1. CASE q = p
    BY <1>2, <1>4, <2>1 DEF FreshHand
  <2>2. CASE q # p
    <3>1. /\ FreshHand(proc[q]) /\ proc'[q] = proc[q]
          /\ HoldsRow(q, c) => Only(c, custDb) = Only(c, row)
      BY <1>1, <1>2, <2>2 DEF CacheInv, FilledLate
    <3>2. CASE HoldsRow(q, c)
      BY <1>8, <3>1, <3>2 DEF FreshHand
    <3>3. CASE ~HoldsRow(q, c)
      BY <1>6, <1>7, <3>1, <3>3 DEF FreshHand, HoldsRow
    <3> QED BY <3>2, <3>3
  <2> QED BY <2>1, <2>2
<1>10. proc[p].at \in {"upsert", "store"} => proc[p].about = c /\ DOMAIN proc[p].copy = {c}
  BY <1>1 DEF FollowInv, Pending
<1>11. ASSUME CalmCaches'
       PROVE  DetailsFollow' /\ ("crossed" \notin custCauses' => ListsFollow' /\ RowsFollow')
  <2>1. /\ CalmCaches /\ DetailsFollow
        /\ "crossed" \notin custCauses' =>
             ListsFollow /\ RowsFollow /\ custCauses \cap Bad = {} /\ CopiesCurrent
    BY <1>1, <1>11 DEF CacheInv, CalmCaches, Bad, Faults, FollowInv
  <2>2. DetailsFollow'
    <3> SUFFICES ASSUME NEW d \in DOMAIN detailCache, Only(d, detailCache) # Only(d, custDb')
                 PROVE  \E q \in Procs : WillDrop(proc[q], d)'
      BY <1>1 DEF DetailsFollow
    <3>1. CASE d = c
      BY <1>2, <1>4, <1>6, <1>10, <3>1 DEF WillDrop
    <3>2. CASE d # c
      <4>1. PICK q \in Procs : WillDrop(proc[q], d)
        BY <1>7, <2>1, <3>2 DEF DetailsFollow
      <4> QED BY <1>2, <1>4, <1>6, <4>1 DEF WillDrop
    <3> QED BY <3>1, <3>2
  <2>3. \A q \in Procs : WillFlush(proc[q]) => WillFlush(proc'[q])
    BY <1>2, <1>4 DEF WillFlush
  <2>4. ASSUME "crossed" \notin custCauses'
        PROVE  ListsFollow'
    <3>1. CASE custDb' = custDb
      BY <1>1, <2>1, <2>3, <2>4, <3>1 DEF ListsFollow, WillFlush
    <3>2. CASE proc[p].at \in {"upsert", "merge"}
      BY <2>3, <3>2 DEF ListsFollow, WillFlush
    <3>3. CASE custDb' # custDb /\ proc[p].at = "store"
      <4>1. c \in DOMAIN erp /\ proc[p].copy[c] = erp[c]
        BY <1>1, <2>1, <2>4, <3>3 DEF CopiesCurrent, HoldsErp
      <4>2. ~(c \in DOMAIN custDb /\ custDb[c] = erp[c])
        <5> SUFFICES ASSUME c \in DOMAIN custDb, custDb[c] = erp[c]
                     PROVE  custDb' = custDb
          BY <3>3
        <5>1. DOMAIN custDb' = DOMAIN custDb /\ \A d \in DOMAIN custDb' : custDb'[d] = custDb[d]
          BY <1>5, <1>6, <4>1
        <5> QED BY <1>1, <1>6, <5>1, SameTable
      <4>3. PICK q \in Procs : WillSync(proc[q], c)
        BY <2>1, <2>4, <4>1, <4>2 DEF RowsFollow
      <4>4. WillFlush(proc'[q])
        BY <2>3, <4>3 DEF WillSync, WillFlush
      <4> QED BY <4>4 DEF ListsFollow, WillFlush
    <3> QED BY <1>2, <3>1, <3>2, <3>3
  <2>5. ASSUME "crossed" \notin custCauses'
        PROVE  RowsFollow'
    <3> SUFFICES ASSUME NEW d \in DOMAIN erp, ~(d \in DOMAIN custDb' /\ custDb'[d] = erp[d])
                 PROVE  \E q \in Procs : WillSync(proc'[q], d)
      BY <1>1 DEF RowsFollow, WillSync
    <3>1. d # c
      <4>1. proc[p].copy[c] = erp[c]
        BY <1>1, <1>2, <2>1, <2>5 DEF CopiesCurrent, HoldsErp
      <4> QED BY <1>5, <1>6, <4>1
    <3>2. PICK q \in Procs : WillSync(proc[q], d)
      BY <1>6, <2>1, <2>5, <3>1 DEF RowsFollow
    <3>3. WillSync(proc'[q], d)
      BY <1>2, <1>3, <1>4, <1>10, <3>1, <3>2 DEF WillSync
    <3> QED BY <3>3
  <2> QED BY <2>2, <2>4, <2>5
<1> QED BY <1>9, <1>11 DEF CacheInv

(* Whatever goes wrong. *)
LEMMA FaultCaches ==
  ASSUME Shape, CacheInv,
         \/ CustCrash \/ \E c \in CustomerIds : EditOutside(c)
         \/ \E p \in Procs : Fails(p)
  PROVE  CacheInv'
<1>1. proc \in [Procs -> Process] /\ FALSE \in BOOLEAN
  BY DEF Shape, CustTypeOK
<1>2. /\ custDb' = custDb /\ custCauses \subseteq custCauses'
      /\ \E kind \in Faults : kind \in custCauses'
  BY DEF CustCrash, EditOutside, Fails, ErpFails, RedisFails, ErpAppliesUnanswered,
         DatabaseFails, Fault, Faults
<1>3. \A q \in Procs : proc'[q] = proc[q] \/ proc'[q].at \notin {"keep", "fill"}
  <2>1. CASE CustCrash
    BY <1>1, <2>1 DEF CustCrash, Process
  <2>2. CASE \E c \in CustomerIds : EditOutside(c)
    BY <2>2 DEF EditOutside
  <2>3. ASSUME NEW p \in Procs, Fails(p)
        PROVE  \A q \in Procs : proc'[q] = proc[q] \/ proc'[q].at \notin {"keep", "fill"}
    <3>1. CASE EndRequest(p, FALSE)
      BY <1>1, <3>1, EndFacts
    <3>2. CASE ClearsDetail(p)
      BY <1>1, <3>2, ClearFacts
    <3>3. CASE \E c \in CustomerIds : proc[p].at \in DOMAIN AfterUpsert /\ Moves(p, c)
      BY <3>3, MovesFacts
    <3>4. CASE \E step \in {"fetch", "query", "flushDetails"} : Goto(p, step, Nothing)
      <4>1. PICK step \in {"fetch", "query", "flushDetails"} : Goto(p, step, Nothing)
        BY <3>4
      <4>2. step \in Steps
        BY DEF Steps
      <4> QED BY <4>1, <4>2, NothingTable, MoveKeepsOthers
    <3> QED BY <2>3, <3>1, <3>2, <3>3, <3>4
            DEF Fails, ErpFails, RedisFails, ErpAppliesUnanswered, DatabaseFails, Moves,
                ClearsDetail
  <2> QED BY <2>1, <2>2, <2>3
<1> QED BY <1>2, <1>3, FaultyCaches

-----------------------------------------------------------------------------
(* When every request and every sync it left behind has ended, the cached  *)
(* lists and customers are the database's, for any customers and any       *)
(* number of requests, unless a call failed, a reader was late, or (of the *)
(* lists) an ERP write crossed a copy.                                     *)
THEOREM CachesFollow == CustSpec => []CachesFollowDatabase
<1>1. CustInit => CacheInv
  <2> SUFFICES ASSUME CustInit PROVE CacheInv
    OBVIOUS
  <2>1. /\ erp = custDb /\ listCache = {} /\ DOMAIN detailCache = {}
        /\ \A p \in Procs : proc[p].at = "idle"
    BY NothingTable DEF CustInit, Init_proc
  <2> QED BY <2>1 DEF CacheInv, FreshHand, DetailsFollow, ListsFollow, RowsFollow
<1>2. Shape /\ FollowInv /\ CacheInv /\ [CustNext]_custVars => CacheInv'
  BY IdleCaches, OutsideCaches, PageCaches, ClearCaches, MergeCaches, SyncsCaches,
     ErpCaches, UpsertCaches, FaultCaches
     DEF CustNext, Advance
<1>3. CacheInv => CachesFollowDatabase
  <2> SUFFICES ASSUME CacheInv, CustQuiet, CalmCaches
               PROVE  /\ "crossed" \notin custCauses => listCache \subseteq {custDb}
                      /\ \A c \in DOMAIN detailCache : Only(c, detailCache) = Only(c, custDb)
    BY DEF CachesFollowDatabase, CalmCaches
  <2>1. \A p \in Procs : proc[p].at \in {"idle", "done"}
    BY DEF CustQuiet, Idle
  <2>2. \A p \in Procs : ~WillFlush(proc[p]) /\ \A c : ~WillDrop(proc[p], c)
    BY <2>1 DEF WillFlush, WillDrop
  <2> QED BY <2>2 DEF CacheInv, DetailsFollow, ListsFollow
<1> QED BY <1>1, <1>2, <1>3, InitShape, NextShape, InitFollow, NextFollow, PTL DEF CustSpec

=============================================================================
