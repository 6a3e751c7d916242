------------------------------ MODULE MCTokens ------------------------------
(* A small instance of Connection for the tokens: two requests and no      *)
(* administrator, or one request and an administrator, as focus says.      *)
EXTENDS MCConnection

VARIABLE focus

TokensNext ==
  /\ Next
  /\ UNCHANGED focus
  /\ focus = "requests" => \A a \in Admins : task'[a] = task[a]

TokensSpec == Init /\ focus \in {"requests", "admin"} /\ [][TokensNext]_<<vars, focus>>

(* What excuses an authentication error. *)
AuthCauses == {"refreshFailed", "noCredentials", "slow", "revokedEarly", "crossed", "overlap"}

(* Nothing is claimed of a token that was under way for too long, nor of   *)
(* authentication errors after the other causes; causes only grow.         *)
TokenClaims ==
  /\ "slow" \notin causes
  /\ focus = "admin" =>
       /\ causes \cap AuthCauses = {}
       /\ now <= 1
       /\ Cardinality({r \in Requests : req[r].pc # "idle"}) <= 1

(* Of the causes, whether an authentication error is excused and whether a *)
(* token was slow; no step depends on any.                                 *)
TokensView ==
  <<now, env, rows, tokens, task, req, focus,
    causes \cap AuthCauses = {}, "slow" \in causes>>

=============================================================================
