---------------------------- MODULE MCOrderEdits ----------------------------
(* Small instances of OrderEdits: two requests with one key, or one order  *)
(* that is retried or edited.                                              *)
EXTENDS MCOrderSync, OrderEdits

CONSTANTS e1, e2

TwoEdits == {e1, e2}

Unedited  == (\A e \in Edits : edit[e].pc = "new") /\ DOMAIN invoiced = {}
Unretried == \A j \in RetryJobs : retry[j].pc = "new"

(* One fault and no confirmation by hand; a retry and an edit, two retries *)
(* or two edits.                                                           *)
OneOrderAlone ==
  /\ Cardinality(trouble[o1]) <= MaxFaultKinds /\ confirm[o1] = "idle"
  /\ \/ Unedited
     \/ edit[e2].pc = "new" /\ retry[<<o1, 2>>].pc = "new"
     \/ Unretried
  /\ "late" \in editCauses => editCauses = {"late"}

(* Two requests with one key, neither retried nor edited, or one of them   *)
(* alone.                                                                  *)
OneMatter ==
  \/ Unretried /\ Unedited
  \/ intake[o2] = "new" /\ OneOrderAlone

=============================================================================
