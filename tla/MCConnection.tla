---------------------------- MODULE MCConnection ----------------------------
(* Small instances of Connection. *)
EXTENDS Connection, TLC

CONSTANTS r1, r2, a1, a2, k1, k2, envKey

TwoRequests == {r1, r2}
NoRequest   == {}
NoAdmin     == {}
OneAdmin    == {a1}
TwoAdmins   == {a1, a2}
OneKey      == {k1}
TwoKeys     == {k1, k2}

Long == {3}

(* Nothing is claimed of settings that two saves replaced at once.  The    *)
(* clock moves only while there is one document and no administrator is at *)
(* work.                                                                   *)
SettingsClaims ==
  /\ "overlap" \notin causes
  /\ now > 0 => Len(rows) <= 1 /\ \A a \in Admins : task[a].pc = "idle"

(* Of the causes, those that the properties of the settings speak of; no   *)
(* step depends on any.                                                    *)
SettingsView ==
  <<now, env, rows, tokens, task, req,
    causes \cap {"switched", "testedOther", "gap", "overlap"}>>

RequestSymmetry == Permutations(TwoRequests)
AdminSymmetry   == Permutations(TwoAdmins) \cup Permutations(TwoKeys)

=============================================================================
