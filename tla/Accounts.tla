------------------------------ MODULE Accounts ------------------------------
(***************************************************************************)
(* One account of the application, from its creation to its deletion: its  *)
(* role, its permissions and the limit of its price changes.  The page     *)
(* that edits an account sends two requests, one for the profile, with the *)
(* role and the limit, and one for the permissions; each reads the account *)
(* and saves the fields it changed.  Several administrators may do so at   *)
(* once, and the user edits the own profile.                               *)
(*                                                                         *)
(* Mongoose refuses a save that replaces the list of permissions when the  *)
(* document's version has moved on; a save of other fields is not checked. *)
(***************************************************************************)
EXTENDS Naturals

CONSTANTS
  Admins,   \* the administrators, each with a page of users open
  MaxEdits  \* bound: requests to change or delete the account

ASSUME AccountsAssumption == MaxEdits \in Nat \ {0}

VARIABLES
  account,   \* the document
  form,      \* what each administrator's edit page has loaded
  update,    \* the open requests about the account, by who sent them
  edits,     \* how many there were
  accCauses  \* history: what can harm the account

accVars == <<account, form, update, edits, accCauses>>

Rank == [customer |-> 0, sales_rep |-> 1, admin |-> 2, super_admin |-> 3]
Role == DOMAIN Rank

(* staff: any permission that is forbidden to customers; full, limited:    *)
(* price.override.full and .limited.  What customers may have is left out. *)
Permission        == {"staff", "full", "limited"}
CustomerForbidden == {"staff", "full", "limited"}
Confined(allowed) == allowed \ CustomerForbidden
EffectiveOf(role, allowed) == IF role = "super_admin" THEN Permission ELSE allowed

(* No limit stored, or a percentage. *)
Limit == {"none", "percent"}

Account == [there : BOOLEAN, role : Role, permissions : SUBSET Permission, limit : Limit,
            customer : BOOLEAN, version : Nat]
NoAccount == [there |-> FALSE, role |-> "sales_rep", permissions |-> {}, limit |-> "none",
              customer |-> FALSE, version |-> 0]

View == [role : Role, permissions : SUBSET Permission, limit : Limit]
Form == [open : BOOLEAN, seen : View]

ViewOf(doc) == [role |-> doc.role, permissions |-> doc.permissions, limit |-> doc.limit]

(* The user: PUT /users/me needs no rank. *)
Actors == Admins \cup {"owner"}

Requesters == {"admin", "super_admin"}

(* limit: what is sent, null to remove it, absent to leave it; more: the   *)
(* permissions follow in a second request; copy: the document as read.     *)
Update == [at : {"find", "save"}, op : {"profile", "me", "permissions", "delete"},
           by : Requesters, role : Role, limit : {"absent", "null", "percent"},
           permissions : SUBSET Permission, more : BOOLEAN, copy : Account]
NewUpdate == [at |-> "find", op |-> "profile", by |-> "admin", role |-> "sales_rep",
              limit |-> "absent", permissions |-> {}, more |-> FALSE, copy |-> NoAccount]

AccInit ==
  /\ account   = NoAccount
  /\ form      = [a \in Admins |-> [open |-> FALSE, seen |-> ViewOf(NoAccount)]]
  /\ update    = <<>>
  /\ edits     = 0
  /\ accCauses = {}

Begins(a, u) ==
  update' = [b \in DOMAIN update \cup {a} |-> IF b = a THEN u ELSE update[b]]

Ends(a) == update' = [b \in DOMAIN update \ {a} |-> update[b]]

-----------------------------------------------------------------------------
(* validateLimitPercentForPermissions: what it refuses, what it returns    *)

LimitRefused(allowed, limit) ==
  \/ {"full", "limited"} \subseteq allowed
  \/ "limited" \notin allowed /\ limit \notin {"absent", "null"}
  \/ "limited" \in allowed /\ limit = "absent"

(* Number(null) is 0, a percentage too. *)
LimitFor(allowed) ==
  IF "limited" \in allowed THEN "percent" ELSE "none"

(* createUser; the unique name lets one insertion pass.                    *)
Create ==
  /\ edits = 0 /\ ~account.there
  /\ \E by \in Requesters, role \in Role, asked \in SUBSET Permission,
        limit \in {"absent", "percent"} :
       LET allowed == IF role = "super_admin" THEN {}
                      ELSE IF role = "customer" THEN Confined(asked) ELSE asked
       IN  /\ role = "super_admin" => by = "super_admin"
           /\ role = "super_admin" \/ ~LimitRefused(allowed, limit)
           /\ account' = [there |-> TRUE, role |-> role, permissions |-> allowed,
                          limit |-> LimitFor(allowed),
                          customer |-> role = "customer", version |-> 0]
  /\ edits' = 1
  /\ UNCHANGED <<form, update, accCauses>>

-----------------------------------------------------------------------------
(* EditUserPage; PortalAccountsPage sends the same two requests            *)

OpenForm(a) ==
  /\ a \notin DOMAIN update
  /\ account.there
  /\ form' = [form EXCEPT ![a] = [open |-> TRUE, seen |-> ViewOf(account)]]
  /\ UNCHANGED <<account, update, edits, accCauses>>

(* handleSubmit: the two price permissions exclude each other on the page, *)
(* which offers 10 percent where there is no limit.  A limit is sent when  *)
(* it or the permissions differ from what was loaded.                      *)
SubmitForm(a) ==
  /\ form[a].open /\ a \notin DOMAIN update
  /\ edits < MaxEdits
  /\ \E by \in Requesters, role \in Role, asked \in SUBSET Permission, newLimit \in BOOLEAN :
       LET seen      == form[a].seen
           different == asked # seen.permissions
           more      == different /\ seen.role # "super_admin"
       IN  /\ different => ~({"full", "limited"} \subseteq asked)
           /\ Begins(a, [NewUpdate EXCEPT
                !.by = by, !.role = role, !.more = more,
                !.permissions = IF more THEN asked ELSE {},
                !.limit = IF ~different /\ ~newLimit THEN "absent"
                          ELSE IF "limited" \in asked THEN "percent" ELSE "null"])
  /\ edits' = edits + 1
  /\ UNCHANGED <<account, form, accCauses>>

(* UserPage: name, mail address and password, of which nothing is kept.    *)
SubmitMe ==
  /\ account.there /\ "owner" \notin DOMAIN update
  /\ edits < MaxEdits
  /\ Begins("owner", [NewUpdate EXCEPT !.op = "me"])
  /\ edits' = edits + 1
  /\ UNCHANGED <<account, form, accCauses>>

(* UsersPage, PortalAccountsPage *)
SubmitDelete(a) ==
  /\ form[a].open /\ a \notin DOMAIN update
  /\ edits < MaxEdits
  /\ \E by \in Requesters : Begins(a, [NewUpdate EXCEPT !.op = "delete", !.by = by])
  /\ edits' = edits + 1
  /\ UNCHANGED <<account, form, accCauses>>

-----------------------------------------------------------------------------
(* updateUser, updateUserPermissions, deleteUser *)

CanManage(by, role) == by = "super_admin" \/ Rank[role] < Rank[by]

CanAssign(by, role) == by = "super_admin" \/ Rank[role] < Rank["admin"]

(* findById and the guards before the next await.                          *)
Refuses(u) ==
  \/ ~account.there
  \/ u.op # "me" /\ ~CanManage(u.by, account.role)
  \/ u.op = "profile" /\ ~CanAssign(u.by, u.role)
  \/ u.op = "permissions" /\ account.role = "super_admin"

FindUser(a) ==
  /\ update[a].at = "find"
  /\ IF Refuses(update[a])
       THEN Ends(a)
       ELSE Begins(a, [update[a] EXCEPT !.at = "save", !.copy = account])
  /\ UNCHANGED <<account, form, edits, accCauses>>

(* updateUser: what becomes of the copy. *)
Profile(u) ==
  LET role == IF u.op = "me" THEN u.copy.role ELSE u.role IN
  IF role = "customer"
    THEN [u.copy EXCEPT !.role = role, !.customer = TRUE, !.limit = "none",
                        !.permissions = Confined(u.copy.permissions)]
    ELSE [u.copy EXCEPT !.role = role,
                        !.limit = IF u.limit = "absent" THEN @
                          ELSE LimitFor(EffectiveOf(role, u.copy.permissions))]

ProfileRefused(u) ==
  /\ u.op = "profile" /\ u.role # "customer" /\ u.limit # "absent"
  /\ LimitRefused(EffectiveOf(u.role, u.copy.permissions), u.limit)

Assigned(u) == IF u.copy.role = "customer" THEN Confined(u.permissions) ELSE u.permissions

(* Mutant: the limit stays when the permission goes. *)
PermittedKeepsLimit(u) == [u.copy EXCEPT !.permissions = Assigned(u)]

(* updateUserPermissions: what becomes of the copy. *)
Permitted(u) ==
  [u.copy EXCEPT !.permissions = Assigned(u),
                 !.limit = IF "limited" \in Assigned(u) THEN @ ELSE "none"]

PermittedRefused(u) == "limited" \in Assigned(u) /\ u.copy.limit = "none"

(* save: the fields that differ from what was read.                        *)
Save(copy, next) ==
  [there |-> TRUE,
   role        |-> IF next.role # copy.role THEN next.role ELSE account.role,
   permissions |-> IF next.permissions # copy.permissions
                     THEN next.permissions ELSE account.permissions,
   limit       |-> IF next.limit # copy.limit THEN next.limit ELSE account.limit,
   customer    |-> next.customer \/ account.customer,
   version     |-> account.version + (IF next.permissions # copy.permissions THEN 1 ELSE 0)]

Accepted(copy, next) ==
  /\ account.there
  /\ next.permissions # copy.permissions => account.version = copy.version

(* Another request changed the account since it was read. *)
Crossed(copy) ==
  IF [account EXCEPT !.version = 0] # [copy EXCEPT !.version = 0] THEN {"crossed"} ELSE {}

SaveUpdate(a, next) ==
  /\ Accepted(update[a].copy, next)
  /\ account' = Save(update[a].copy, next)
  /\ accCauses' = accCauses \cup Crossed(update[a].copy)

SaveProfile(a) ==
  LET u == update[a] IN
  /\ u.at = "save" /\ u.op \in {"profile", "me"}
  /\ ~ProfileRefused(u)
  /\ SaveUpdate(a, Profile(u))
  /\ IF u.more
       THEN Begins(a, [u EXCEPT !.at = "find", !.op = "permissions", !.more = FALSE,
                                !.copy = NoAccount])
       ELSE Ends(a)
  /\ UNCHANGED <<form, edits>>

SavePermissions(a) ==
  LET u == update[a] IN
  /\ u.at = "save" /\ u.op = "permissions"
  /\ ~PermittedRefused(u)
  /\ SaveUpdate(a, Permitted(u))
  /\ Ends(a)
  /\ UNCHANGED <<form, edits>>

(* findByIdAndDelete asks nothing more. *)
DeleteUser(a) ==
  /\ update[a].at = "save" /\ update[a].op = "delete"
  /\ account' = NoAccount
  /\ Ends(a)
  /\ UNCHANGED <<form, edits, accCauses>>

(* A refusal, by the checks above, of a permission the requester lacks or  *)
(* of a save, or a lost call: a second request is not sent.                *)
UpdateFails(a) ==
  /\ Ends(a)
  /\ UNCHANGED <<account, form, edits, accCauses>>

-----------------------------------------------------------------------------

Manage(a)  == OpenForm(a) \/ SubmitForm(a) \/ SubmitDelete(a)
Handle(a) ==
  FindUser(a) \/ SaveProfile(a) \/ SavePermissions(a) \/ DeleteUser(a) \/ UpdateFails(a)

AccNext ==
  \/ Create \/ SubmitMe
  \/ \E a \in Admins : Manage(a)
  \/ \E a \in DOMAIN update : Handle(a)

AccSpec == AccInit /\ [][AccNext]_accVars

-----------------------------------------------------------------------------
(* Properties *)

(* The shape of the state. *)
AccTypeOK ==
  /\ account \in Account
  /\ form \in [Admins -> Form]
  /\ DOMAIN update \subseteq Actors /\ \A a \in DOMAIN update : update[a] \in Update
  /\ edits \in 0 .. MaxEdits
  /\ accCauses \subseteq {"crossed"}

(* Whatever requests come in whatever order, and whichever of the two that *)
(* an edit takes fails: a limit is stored exactly when the permission to   *)
(* change prices within a limit is, and a customer's account has its       *)
(* customer and none of the permissions that customers may not have; unless*)
(* a request changed the account between the read and the save of another. *)
AccountIsWhole ==
  account.there /\ accCauses = {} =>
    /\ ("limited" \in account.permissions) <=> (account.limit # "none")
    /\ account.role = "customer" =>
         account.customer /\ account.permissions \cap CustomerForbidden = {}

=============================================================================
