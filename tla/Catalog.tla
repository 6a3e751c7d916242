------------------------------- MODULE Catalog -------------------------------
(***************************************************************************)
(* The products between the ERP, the database and the Redis cache.  Full   *)
(* and delta syncs copy the ERP's products into rows, a product page       *)
(* copies the one it shows; administrators hide and show products and      *)
(* their category; lists and pages are served from caches that are filled  *)
(* from rows read before.                                                  *)
(*                                                                         *)
(* Time counts in units longer than the delta sync's ten seconds overlap.  *)
(* A product's version is the time of its last change in the ERP.          *)
(***************************************************************************)
EXTENDS Naturals, FiniteSets

CONSTANTS
  Products,    \* the products the ERP may come to have, of one category
  OldProducts, \* those it has at the start
  Visits,      \* the requests, each served once
  MaxTime      \* bound: the clock

ASSUME CatalogAssumption == OldProducts \subseteq Products /\ Products # {} /\ MaxTime \in Nat

VARIABLES
  time,       \* the clock
  article,    \* the ERP's products: id -> version, for those that exist
  rows,       \* the products collection: id -> version, flag and lastSyncedAt
  category,   \* the category's isActive
  idsCache,   \* categories:active-ids: a flag, or nothing
  shopCache,  \* products:*: a list of products, or nothing
  pageCache,  \* product:<id>:<customer>:active: the ids with an entry
  visit,      \* the requests
  catCauses   \* history: what happened that can harm the rows or caches

catVars == <<time, article, rows, category, idsCache, shopCache, pageCache,
             visit, catCauses>>

Time == 0 .. MaxTime
Row  == [version : Time, active : BOOLEAN, syncedAt : Time]
Find == {"unread", "there", "absent"}

Versions == UNION {[ids -> Time] : ids \in SUBSET Products}
Loaded   == UNION {[ids -> [version : Time, row : Find]] : ids \in SUBSET Products}

Stages == {"idle", "categories", "since", "load", "write", "flush",
           "ids", "idsQuery", "idsKeep", "query", "keep",
           "page", "pageRow", "pageErp", "pageUpsert", "pageKeep",
           "flag", "flagFlush", "catFlag", "catFlush", "done"}

(* from: where a lookup of the active categories returns to; ids: what it  *)
(* returned; seen: the ERP's products in hand; shop: the list in hand.     *)
Visit == [at : Stages, about : Products, from : {"query", "pageErp", "pageUpsert"},
          ids : BOOLEAN, seen : Loaded, shop : SUBSET Products]

NoneSeen == [p \in {} |-> [version |-> 0, row |-> "unread"]]

CatInit ==
  /\ time      = 0
  /\ article   = [p \in OldProducts |-> 0]
  /\ rows      = [p \in OldProducts |-> [version |-> 0, active |-> TRUE, syncedAt |-> 0]]
  /\ category  = TRUE
  /\ idsCache  = {}
  /\ shopCache = {}
  /\ pageCache = {}
  /\ visit     = [v \in Visits |-> [at |-> "idle", from |-> "query", ids |-> TRUE,
                                    about |-> CHOOSE p \in Products : TRUE,
                                    seen |-> NoneSeen, shop |-> {}]]
  /\ catCauses = {}

-----------------------------------------------------------------------------
(* What a request or a reader can see *)

CatQuiet == \A v \in Visits : visit[v].at \in {"idle", "done"}

Hidden(p) == p \in DOMAIN rows /\ ~rows[p].active
Visible(p) == p \in DOMAIN rows /\ rows[p].active /\ category

(* The row of p lacks a change the ERP has. *)
Behind(p) == p \in DOMAIN article /\ ~(p \in DOMAIN rows /\ rows[p].version = article[p])

(* getLastSyncTimestamp: the newest lastSyncedAt of any row, or else a     *)
(* week ago, taken here as before everything.                              *)
Since ==
  IF DOMAIN rows = {} THEN 0
  ELSE CHOOSE s \in {rows[p].syncedAt : p \in DOMAIN rows} :
         \A q \in DOMAIN rows : rows[q].syncedAt <= s

(* A request that read rows or flags, or that a product has no row, and    *)
(* has yet to fill a cache.                                                *)
Filling(v) ==
  \/ visit[v].at \in {"idsKeep", "query", "keep", "page", "pageErp", "pageUpsert",
                      "pageKeep"}
  \/ visit[v].at \in {"ids", "idsQuery"} /\ visit[v].from # "query"

(* A request that holds the ERP's products and has yet to write rows. *)
Holding(v) == DOMAIN visit[v].seen # {}

Move(v, stage) == visit' = [visit EXCEPT ![v].at = stage]

-----------------------------------------------------------------------------
(* The ERP and the clock *)

Tick ==
  /\ time < MaxTime
  /\ time' = time + 1
  /\ UNCHANGED <<article, rows, category, idsCache, shopCache, pageCache, visit, catCauses>>

(* A product is created or changed; modifiedOn is now. *)
EditArticle(p) ==
  /\ article' = [q \in DOMAIN article \cup {p} |-> IF q = p THEN time ELSE article[q]]
  /\ catCauses' = IF \E v \in Visits : Holding(v)
                    THEN catCauses \cup {"editDuringSync"} ELSE catCauses
  /\ UNCHANGED <<time, rows, category, idsCache, shopCache, pageCache, visit>>

-----------------------------------------------------------------------------
(* syncProducts and syncProductsDelta *)

StartSyncAll(v) ==
  /\ visit[v].at = "idle"
  /\ Move(v, "categories")
  /\ UNCHANGED <<time, article, rows, category, idsCache, shopCache, pageCache, catCauses>>

(* syncCategories inserts what is new as active, leaves the others' flags, *)
(* and clears products:* and categories:*.                                 *)
SyncCategories(v) ==
  /\ visit[v].at = "categories"
  /\ Move(v, "load")
  /\ idsCache' = {} /\ shopCache' = {}
  /\ UNCHANGED <<time, article, rows, category, pageCache, catCauses>>

LoadProducts(v, ids) ==
  visit' = [visit EXCEPT ![v].at   = "write",
                         ![v].seen = [p \in ids |-> [version |-> article[p],
                                                     row |-> "unread"]]]

LoadAll(v) ==
  /\ visit[v].at = "load"
  /\ LoadProducts(v, DOMAIN article)
  /\ UNCHANGED <<time, article, rows, category, idsCache, shopCache, pageCache, catCauses>>

StartDelta(v) ==
  /\ visit[v].at = "idle"
  /\ Move(v, "since")
  /\ UNCHANGED <<time, article, rows, category, idsCache, shopCache, pageCache, catCauses>>

(* Mutant: the delta asks for what changed after, without the overlap. *)
LoadDeltaAfter(v) ==
  /\ visit[v].at = "since"
  /\ LoadProducts(v, {p \in DOMAIN article : article[p] > Since})
  /\ UNCHANGED <<time, article, rows, category, idsCache, shopCache, pageCache, catCauses>>

(* The products changed since the newest lastSyncedAt, less the overlap. *)
LoadDelta(v) ==
  /\ visit[v].at = "since"
  /\ LoadProducts(v, {p \in DOMAIN article : article[p] >= Since})
  /\ UNCHANGED <<time, article, rows, category, idsCache, shopCache, pageCache, catCauses>>

FindRow(v, p) ==
  /\ visit[v].at = "write"
  /\ p \in DOMAIN visit[v].seen
  /\ visit[v].seen[p].row = "unread"
  /\ visit' = [visit EXCEPT ![v].seen[p].row =
                              IF p \in DOMAIN rows THEN "there" ELSE "absent"]
  /\ UNCHANGED <<time, article, rows, category, idsCache, shopCache, pageCache, catCauses>>

Handled(v, p) ==
  visit' = [visit EXCEPT ![v].seen = [q \in DOMAIN @ \ {p} |-> @[q]]]

(* Mutant: the update shows the product, as the insert does. *)
UpdateRowShows(v, p) ==
  /\ visit[v].at = "write"
  /\ p \in DOMAIN visit[v].seen
  /\ visit[v].seen[p].row = "there"
  /\ rows' = [rows EXCEPT ![p].version = visit[v].seen[p].version, ![p].syncedAt = time,
                          ![p].active = TRUE]
  /\ Handled(v, p)
  /\ UNCHANGED <<time, article, category, idsCache, shopCache, pageCache, catCauses>>

(* findOneAndUpdate without isActive. *)
UpdateRow(v, p) ==
  /\ visit[v].at = "write"
  /\ p \in DOMAIN visit[v].seen
  /\ visit[v].seen[p].row = "there"
  /\ rows' = [rows EXCEPT ![p].version = visit[v].seen[p].version, ![p].syncedAt = time]
  /\ Handled(v, p)
  /\ UNCHANGED <<time, article, category, idsCache, shopCache, pageCache, catCauses>>

(* create({..., isActive: true}); the unique index refuses a second row,   *)
(* which only counts as an error.                                          *)
CreateRow(v, p) ==
  /\ visit[v].at = "write"
  /\ p \in DOMAIN visit[v].seen
  /\ visit[v].seen[p].row = "absent"
  /\ rows' = [q \in DOMAIN rows \cup {p} |->
                IF q \in DOMAIN rows THEN rows[q]
                ELSE [version |-> visit[v].seen[p].version, active |-> TRUE,
                      syncedAt |-> time]]
  /\ Handled(v, p)
  /\ UNCHANGED <<time, article, category, idsCache, shopCache, pageCache, catCauses>>

(* A write fails: the sync counts it and ends with success all the same. *)
RowFails(v, p) ==
  /\ visit[v].at = "write"
  /\ p \in DOMAIN visit[v].seen
  /\ Handled(v, p)
  /\ catCauses' = catCauses \cup {"rowFailed"}
  /\ UNCHANGED <<time, article, rows, category, idsCache, shopCache, pageCache>>

(* Mutant: the sync does not wait for its writes. *)
EndWritesEarly(v) ==
  /\ visit[v].at = "write"
  /\ Move(v, "flush")
  /\ UNCHANGED <<time, article, rows, category, idsCache, shopCache, pageCache, catCauses>>

EndWrites(v) ==
  /\ visit[v].at = "write"
  /\ DOMAIN visit[v].seen = {}
  /\ Move(v, "flush")
  /\ UNCHANGED <<time, article, rows, category, idsCache, shopCache, pageCache, catCauses>>

(* invalidateProductCache(): the lists only, no product:<id>:* entry. *)
FlushShop(v) ==
  /\ visit[v].at = "flush"
  /\ shopCache' = {}
  /\ Move(v, "done")
  /\ UNCHANGED <<time, article, rows, category, idsCache, pageCache, catCauses>>

-----------------------------------------------------------------------------
(* getActiveCategoryIds, for a list or a product page *)

(* What is cached may be older than a change whose flush is still to come. *)
LookupIds(v) ==
  /\ visit[v].at = "ids"
  /\ \/ idsCache = {} /\ Move(v, "idsQuery") /\ UNCHANGED catCauses
     \/ \E ids \in idsCache :
          /\ visit' = [visit EXCEPT ![v].at = visit[v].from, ![v].ids = ids]
          /\ catCauses' = IF ids # category THEN catCauses \cup {"lateFill"} ELSE catCauses
  /\ UNCHANGED <<time, article, rows, category, idsCache, shopCache, pageCache>>

QueryIds(v) ==
  /\ visit[v].at = "idsQuery"
  /\ visit' = [visit EXCEPT ![v].at = "idsKeep", ![v].ids = category]
  /\ UNCHANGED <<time, article, rows, category, idsCache, shopCache, pageCache, catCauses>>

KeepIds(v) ==
  /\ visit[v].at = "idsKeep"
  /\ idsCache' = {visit[v].ids}
  /\ Move(v, visit[v].from)
  /\ UNCHANGED <<time, article, rows, category, shopCache, pageCache, catCauses>>

-----------------------------------------------------------------------------
(* getProducts *)

StartShop(v) ==
  /\ visit[v].at = "idle"
  /\ visit' = [visit EXCEPT ![v].at = IF shopCache = {} THEN "ids" ELSE "done",
                            ![v].from = "query"]
  /\ UNCHANGED <<time, article, rows, category, idsCache, shopCache, pageCache, catCauses>>

QueryShop(v) ==
  /\ visit[v].at = "query"
  /\ visit' = [visit EXCEPT
                 ![v].at   = "keep",
                 ![v].shop = {p \in DOMAIN rows : rows[p].active /\ visit[v].ids}]
  /\ UNCHANGED <<time, article, rows, category, idsCache, shopCache, pageCache, catCauses>>

KeepShop(v) ==
  /\ visit[v].at = "keep"
  /\ shopCache' = {visit[v].shop}
  /\ Move(v, "done")
  /\ UNCHANGED <<time, article, rows, category, idsCache, pageCache, catCauses>>

-----------------------------------------------------------------------------
(* getProductById as a customer asks it: enforceActive *)

StartPage(v, p) ==
  /\ visit[v].at = "idle"
  /\ visit' = [visit EXCEPT ![v].at = IF p \in pageCache THEN "done" ELSE "pageRow",
                            ![v].about = p]
  /\ UNCHANGED <<time, article, rows, category, idsCache, shopCache, pageCache, catCauses>>

(* A hidden product is not found; a row's category is checked next. *)
PageRow(v) ==
  LET p == visit[v].about IN
  /\ visit[v].at = "pageRow"
  /\ visit' = [visit EXCEPT
                 ![v].at = IF Hidden(p) THEN "done"
                           ELSE IF p \in DOMAIN rows THEN "ids" ELSE "page",
                 ![v].from = "pageErp"]
  /\ UNCHANGED <<time, article, rows, category, idsCache, shopCache, pageCache, catCauses>>

(* The ERP answers, and the category is checked again. *)
PageErp(v) ==
  LET p == visit[v].about IN
  /\ \/ visit[v].at = "pageErp" /\ visit[v].ids
     \/ visit[v].at = "page"
  /\ IF p \in DOMAIN article
       THEN visit' = [visit EXCEPT ![v].at = "ids", ![v].from = "pageUpsert",
                        ![v].seen = [q \in {p} |-> [version |-> article[q], row |-> "unread"]]]
       ELSE Move(v, "done")
  /\ UNCHANGED <<time, article, rows, category, idsCache, shopCache, pageCache, catCauses>>

(* The category is not active: not found. *)
PageRefused(v) ==
  /\ visit[v].at \in {"pageErp", "pageUpsert"}
  /\ ~visit[v].ids
  /\ visit' = [visit EXCEPT ![v].at = "done", ![v].seen = NoneSeen]
  /\ UNCHANGED <<time, article, rows, category, idsCache, shopCache, pageCache, catCauses>>

(* The row is written with lastSyncedAt, its isActive left alone; a new    *)
(* one is active.  The caches of the product and of the lists are cleared. *)
PageUpsert(v) ==
  LET p == visit[v].about IN
  /\ visit[v].at = "pageUpsert"
  /\ visit[v].ids
  /\ rows' = [q \in DOMAIN rows \cup {p} |->
                IF q # p THEN rows[q]
                ELSE [version  |-> visit[v].seen[p].version,
                      active   |-> ~Hidden(p),
                      syncedAt |-> time]]
  /\ shopCache' = {}
  /\ pageCache' = pageCache \ {p}
  /\ visit' = [visit EXCEPT ![v].at = "pageKeep", ![v].seen = NoneSeen]
  /\ catCauses' = IF \E q \in Products \ {p} : Behind(q)
                    THEN catCauses \cup {"viewed"} ELSE catCauses
  /\ UNCHANGED <<time, article, category, idsCache>>

KeepPage(v) ==
  /\ visit[v].at = "pageKeep"
  /\ pageCache' = pageCache \cup {visit[v].about}
  /\ Move(v, "done")
  /\ UNCHANGED <<time, article, rows, category, idsCache, shopCache, catCauses>>

-----------------------------------------------------------------------------
(* updateProductVisibility and updateCategoryVisibility *)

StartFlag(v, p) ==
  /\ visit[v].at = "idle"
  /\ p \in DOMAIN rows
  /\ visit' = [visit EXCEPT ![v].at = "flag", ![v].about = p]
  /\ UNCHANGED <<time, article, rows, category, idsCache, shopCache, pageCache, catCauses>>

(* A flag changes under a reader that will fill a cache. *)
LateFills == IF \E v \in Visits : Filling(v)
               THEN catCauses \cup {"lateFill"} ELSE catCauses

SetFlag(v, active) ==
  /\ visit[v].at = "flag"
  /\ rows' = [rows EXCEPT ![visit[v].about].active = active]
  /\ catCauses' = LateFills
  /\ Move(v, "flagFlush")
  /\ UNCHANGED <<time, article, category, idsCache, shopCache, pageCache>>

(* Mutant: as after a sync, the entries of the product stay. *)
FlushFlagListsOnly(v) ==
  /\ visit[v].at = "flagFlush"
  /\ shopCache' = {} /\ idsCache' = {}
  /\ Move(v, "done")
  /\ UNCHANGED <<time, article, rows, category, pageCache, catCauses>>

(* invalidateCatalogCache(id) *)
FlushFlag(v) ==
  /\ visit[v].at = "flagFlush"
  /\ shopCache' = {} /\ idsCache' = {}
  /\ pageCache' = pageCache \ {visit[v].about}
  /\ Move(v, "done")
  /\ UNCHANGED <<time, article, rows, category, catCauses>>

StartCategory(v) ==
  /\ visit[v].at = "idle"
  /\ Move(v, "catFlag")
  /\ UNCHANGED <<time, article, rows, category, idsCache, shopCache, pageCache, catCauses>>

SetCategory(v, active) ==
  /\ visit[v].at = "catFlag"
  /\ category' = active
  /\ catCauses' = LateFills
  /\ Move(v, "catFlush")
  /\ UNCHANGED <<time, article, rows, idsCache, shopCache, pageCache>>

(* invalidateCatalogCache(): lists and categories, no product:<id>:* entry. *)
FlushCategory(v) ==
  /\ visit[v].at = "catFlush"
  /\ shopCache' = {} /\ idsCache' = {}
  /\ Move(v, "done")
  /\ UNCHANGED <<time, article, rows, category, pageCache, catCauses>>

-----------------------------------------------------------------------------
(* Faults *)

(* The request ends in an ERP error, or the API restarts: a sync leaves    *)
(* the rows it wrote, an administrator's change the caches as they are.    *)
Abandon(v) ==
  /\ visit[v].at \notin {"idle", "done"}
  /\ visit' = [visit EXCEPT ![v].at = "done", ![v].seen = NoneSeen]
  /\ catCauses' = IF visit[v].at \in {"flagFlush", "catFlush"}
                    THEN catCauses \cup {"flushLost"}
                    ELSE IF visit[v].at = "write"
                    THEN catCauses \cup {"syncCut"} ELSE catCauses
  /\ UNCHANGED <<time, article, rows, category, idsCache, shopCache, pageCache>>

(* The entries live for minutes. *)
CatExpire ==
  /\ \/ idsCache # {} /\ idsCache' = {} /\ UNCHANGED <<shopCache, pageCache>>
     \/ shopCache # {} /\ shopCache' = {} /\ UNCHANGED <<idsCache, pageCache>>
     \/ \E p \in pageCache : pageCache' = pageCache \ {p} /\ UNCHANGED <<idsCache, shopCache>>
  /\ UNCHANGED <<time, article, rows, category, visit, catCauses>>

-----------------------------------------------------------------------------

Begin(v) ==
  \/ StartSyncAll(v) \/ StartDelta(v) \/ StartShop(v) \/ StartCategory(v)
  \/ \E p \in Products : StartPage(v, p) \/ StartFlag(v, p)

SyncStep(v) ==
  \/ SyncCategories(v) \/ LoadAll(v) \/ LoadDelta(v) \/ EndWrites(v) \/ FlushShop(v)
  \/ \E p \in Products : FindRow(v, p) \/ UpdateRow(v, p) \/ CreateRow(v, p)
                         \/ RowFails(v, p)

ReadStep(v) ==
  \/ LookupIds(v) \/ QueryIds(v) \/ KeepIds(v) \/ QueryShop(v) \/ KeepShop(v)
  \/ PageRow(v) \/ PageErp(v) \/ PageRefused(v) \/ PageUpsert(v) \/ KeepPage(v)

AdminStep(v) ==
  \/ \E active \in BOOLEAN : SetFlag(v, active) \/ SetCategory(v, active)
  \/ FlushFlag(v) \/ FlushCategory(v)

CatNext ==
  \/ Tick \/ CatExpire
  \/ \E p \in Products : EditArticle(p)
  \/ \E v \in Visits : Begin(v) \/ SyncStep(v) \/ ReadStep(v) \/ AdminStep(v) \/ Abandon(v)

CatSpec == CatInit /\ [][CatNext]_catVars

-----------------------------------------------------------------------------
(* Properties *)

(* The shape of the state. *)
CatTypeOK ==
  /\ time \in Time /\ article \in Versions
  /\ rows \in UNION {[ids -> Row] : ids \in SUBSET Products}
  /\ category \in BOOLEAN /\ idsCache \subseteq BOOLEAN
  /\ shopCache \subseteq SUBSET Products /\ pageCache \subseteq Products
  /\ visit \in [Visits -> Visit]
  /\ \A v \in Visits : Holding(v) =>
       visit[v].at \in {"write", "ids", "idsQuery", "idsKeep", "pageUpsert"}
  /\ catCauses \subseteq {"editDuringSync", "rowFailed", "viewed", "lateFill",
                          "flushLost", "syncCut"}

(* products.service.ts:214 "Product visibility is managed by admins and    *)
(* must not be overwritten by SnelStart sync": no sync and no product page *)
(* shows a hidden product again, not even a sync that found no row before  *)
(* another request made and an administrator hid one.                      *)
HiddenStaysHidden ==
  [][\A p \in Products :
       Hidden(p) /\ ~Hidden(p)' => \E v \in Visits : visit[v].at = "flag"
                                                     /\ visit[v].about = p]_catVars

(* Once an administrator's change has cleared the caches, no cached list   *)
(* has a product that is hidden or whose category is, and no product page  *)
(* of a hidden product is cached, unless a reader of the old flags, or of  *)
(* the row's absence, filled a cache after the change.  (The pages of a    *)
(* hidden category stay: they are cleared for single products only.)       *)
HiddenLeavesTheShop ==
  catCauses \cap {"lateFill", "flushLost"} = {} =>
    \A p \in Products :
      \/ \E v \in Visits : visit[v].at = "flagFlush" /\ visit[v].about = p
      \/ /\ p \in pageCache => ~Hidden(p)
         /\ \/ \E v \in Visits : visit[v].at = "catFlush"
            \/ \A shop \in shopCache : p \in shop => Visible(p)

(* A delta sync fetches every product whose row is behind the ERP: the     *)
(* newest lastSyncedAt skips no change, unless a product page was opened   *)
(* while another product was behind, the ERP changed during a sync, or a   *)
(* sync lost a row or was cut off.                                         *)
DeltaSkipsNothing ==
  CatQuiet /\ catCauses \cap {"viewed", "editDuringSync", "rowFailed", "syncCut"} = {}
    => \A p \in Products : Behind(p) => article[p] >= Since

=============================================================================
