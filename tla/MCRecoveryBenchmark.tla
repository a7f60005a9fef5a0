------------------------ MODULE MCRecoveryBenchmark ------------------------
(* Three groups: what happens to rows, which programs are chosen, and what *)
(* trials leave to each other.                                             *)
EXTENDS RecoveryBenchmark

Fine == [id |-> "a", manifest |-> "ok", wrong |-> "other", regions |-> "some"]
Plain == [family |-> "localization_pollution", profile |-> "anchor_restore", version |-> "legacy",
          diagnosis |-> "none", selector |-> "raw_order_top1", limit |-> 1, filter |-> {},
          resume |-> TRUE, faultOnly |-> FALSE]

(* Two instances and two starts; the second instance is anything.          *)
Rows == {[instances |-> <<Fine, [Fine EXCEPT !.id = "b", !.manifest = m, !.wrong = w]>>,
          commands |-> {[Plain EXCEPT !.resume = r, !.faultOnly = f] : r, f \in BOOLEAN}
                       \cup {[Plain EXCEPT !.filter = {"no_such_program"}]},
          edits |-> {{}}, starts |-> 2] :
            m \in {"ok", "manifest_not_found", "invalid_manifest_targets", "no_patch_paths"},
            w \in {"other", "", "gone"}}

(* Every pool there is, and one program of it: any of them, for each of    *)
(* the selectors that rank, or the recommended one.                        *)
Selectors == {"heuristic_rerank", "llm_recommended_top1"}
Selections == {[instances |-> <<Fine>>,
           commands |-> {[Plain EXCEPT !.family = f, !.profile = p, !.version = v, !.selector = s,
                                       !.diagnosis = d]},
           edits |-> {{"suspect"}}, starts |-> 1] :
             f \in Families, p \in RunProfiles, v \in Versions, s \in Selectors,
             d \in {"none", "contaminated_post_patch_v1"}}

(* Three programs one after the other, of a fixed pool and of one whose    *)
(* ids may repeat, and edits of every class.                               *)
Trials == {[instances |-> <<Fine>>,
            commands |-> {[Plain EXCEPT !.limit = 0, !.family = v[1], !.version = v[2], !.profile = v[3]] :
                             v \in {<<"partial_patch", "atomic_actions_v1", "full_matrix">>,
                                    <<"post_patch_regression", "semantic_object_loop_v2", "local_rebuild">>}},
            edits |-> {{"test"}, {"suspect", "kept"}}, starts |-> 1]}

AllBatches == Rows \cup Selections \cup Trials
TheNames == {"P1", "P2"}

=============================================================================
