------------------------- MODULE MCEnforcedRecovery -------------------------
(* Eight trees: one per way to fail, one that is right, and one whose fix   *)
(* is in a file git does not track.                                         *)
EXTENDS EnforcedRecovery

TheTrees == {"head", "previous", "candidate", "mixed", "good", "offIntent", "broken", "untracked"}

TheDiff == [t \in TheTrees |-> CASE t = "head" -> "none"
                                 [] t = "untracked" -> "none"
                                 [] OTHER -> t]

TheFindings ==
    [x \in TheTrees \cup {"none", "placeholder"} |->
        CASE x = "head"      -> {"invariants", "compiles", "collects"}
          [] x = "previous"  -> {"compiles", "collects", "collected"}
          [] x = "candidate" -> {"invariants", "intent", "compiles", "collects"}
          [] x = "mixed"     -> {"invariants", "intent", "compiles"}
          [] x = "good"      -> Findings
          [] x = "offIntent" -> Findings \ {"intent"}
          [] x = "broken"    -> {"invariants", "intent"}
          [] x = "untracked" -> Findings
          [] OTHER           -> {"invariants"}]

Plain == [scope |-> "patcher_fixed_localization", bounded |-> TRUE, commands |-> "validated",
          previous |-> "off", candidate |-> "none", gate |-> "invariant", audit |-> FALSE,
          intent |-> "off", intentRevision |-> FALSE, syntaxRevision |-> FALSE,
          spanRevision |-> FALSE]

(* Every scope with every patch it may replay, commands of every kind.     *)
Replays == {[Plain EXCEPT !.scope = s, !.previous = p, !.candidate = k, !.commands = v,
                          !.bounded = b, !.audit = TRUE] :
              s \in Scopes, p \in {"off", "missing", "fails", "applies"},
              k \in {"none", "filtered", "fails", "applies"},
              v \in {"blocked", "plain", "validated"}, b \in BOOLEAN}

(* Every combination of gates and revisions.                               *)
Revisions == {[Plain EXCEPT !.commands = v, !.gate = g, !.audit = a, !.intent = i,
                            !.intentRevision = r, !.syntaxRevision = x, !.spanRevision = n] :
                v \in {"plain", "validated"}, g \in {"none", "invariant", "span_delta"},
                a \in BOOLEAN, i \in {"off", "gate", "advisory"}, r \in BOOLEAN,
                x \in BOOLEAN, n \in BOOLEAN}

AllRuns == Replays \cup Revisions

=============================================================================
