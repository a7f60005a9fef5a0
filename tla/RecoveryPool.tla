---------------------------- MODULE RecoveryPool ----------------------------
(***************************************************************************)
(* Which recovery programs the recovery-only benchmark may try on a failed *)
(* state, and in which order (run_recovery_only_benchmark.py with          *)
(* recovery/action_schema.py and recovery/semantic_language.py).           *)
(*                                                                         *)
(* A program keeps its id, the kind of space it comes from, its family,    *)
(* the scope of its last replay and the checkpoint it goes back to.  Its   *)
(* estimates, and the scores a selector makes of them, are left out: what  *)
(* a selector ranks may come in any order.                                 *)
(***************************************************************************)
EXTENDS Integers, Sequences, SequencesExt

CONSTANT Names    \* the ids the model that synthesizes programs may give them
ASSUME NamesAssumption == Names \subseteq STRING

Families == {"post_patch_regression", "contaminated_post_patch",
             "localization_pollution", "partial_patch"}
RunProfiles == {"anchor_restore", "local_rebuild", "full_matrix"}
Versions == {"legacy", "intent_discovery_v1", "intent_discovery_v2", "intent_schema_v1",
             "intent_schema_v2", "intent_schema_v3", "rollback_only_v1", "atomic_actions_v1",
             "semantic_dual_v1", "semantic_closed_loop_v1", "semantic_action_loop_v1",
             "semantic_object_loop_v2"}

Program(id, unit, family, scope, to) ==
    [id |-> id, unit |-> unit, family |-> family, scope |-> scope, to |-> to]

Template(id, family, scope, to) == Program(id, "legacy", family, scope, to)
Minimal == Template("local_anchor_restore", "local_minimal", "", "post_patch")
LocalRebuild == Template("local_patch_replay", "local_broader", "patcher+verifier", "post_locate")
GlobalRestart == Template("global_full_restart", "global", "full", "initial")
EvidenceLocal == Template("evidence_recheck_patch_replay", "evidence_recheck", "patcher+verifier", "")
BeliefLocal == Template("belief_cleanup_patch_replay", "belief_cleanup", "patcher+verifier", "")
BoostLocal == Template("capability_boost_patch_replay", "capability_boost", "patcher+verifier", "")
Relocalize == Template("relocalize_and_rebuild", "relocalize", "locator+patcher+verifier", "")

(* _contaminated_diagnosis_programs; the second revokes a fact first.      *)
DiagnosisPrograms ==
    <<Template("diagnostic_post_locate_patch_replay", "local_broader", "patcher+verifier", "post_locate"),
      Template("diagnostic_revoke_then_post_locate_patch_replay", "belief_cleanup",
               "patcher+verifier", "post_locate")>>

(* The schemas, in the order all of the lists have them.  Boosting is for  *)
(* the contaminated family.                                                *)
Schemas(family) ==
    <<Minimal, BeliefLocal, EvidenceLocal>>
    \o (IF family = "contaminated_post_patch" THEN <<BoostLocal>> ELSE <<>>)
    \o <<LocalRebuild, GlobalRestart>>
OfFamilies(programs, families) == SelectSeq(programs, LAMBDA p : p.family \in families)

TemplatePool(version, profile, family) ==
    LET boost == IF family = "contaminated_post_patch" THEN <<BoostLocal>> ELSE <<>>
    IN  CASE profile = "anchor_restore" -> <<Minimal, GlobalRestart>>
          [] profile = "local_rebuild" /\ version = "intent_discovery_v1" ->
                <<LocalRebuild, EvidenceLocal, BoostLocal, GlobalRestart>>
          [] profile = "local_rebuild" /\ version = "intent_discovery_v2" ->
                <<LocalRebuild, BeliefLocal, EvidenceLocal>> \o boost \o <<GlobalRestart>>
          [] profile = "local_rebuild" -> <<LocalRebuild, GlobalRestart>>
          [] version = "intent_discovery_v1" ->
                <<Minimal, BeliefLocal, EvidenceLocal, BoostLocal, Relocalize, LocalRebuild, GlobalRestart>>
          [] version = "intent_discovery_v2" ->
                <<Minimal, BeliefLocal, EvidenceLocal>> \o boost \o <<LocalRebuild, GlobalRestart>>
          [] OTHER -> <<Minimal, LocalRebuild, GlobalRestart>>

SchemaPool(version, profile, family) ==
    CASE version = "rollback_only_v1" ->
            OfFamilies(Schemas(family), {"local_minimal", "local_broader", "global"})
      [] version = "intent_schema_v2" ->
            OfFamilies(Schemas(family), {"local_minimal", "evidence_recheck", "local_broader", "global"})
      [] version = "intent_schema_v1" /\ profile = "anchor_restore" ->
            OfFamilies(Schemas(family), {"local_minimal", "global"})
      [] OTHER -> Schemas(family)

(* semantic_programs_v1; the closed loop starts with the same ones.        *)
Pick(programs, positions) == [i \in DOMAIN positions |-> programs[positions[i]]]
Fragments ==
    LET p(id, fam, scope, to) == Program(id, "fragment", fam, scope, to)
    IN  <<p("semantic_local_restore", "semantic_local_restore", "restore_only", "post_patch"),
          p("semantic_evidence_local_repair", "semantic_evidence_recheck", "patcher+verifier", ""),
          p("semantic_target_reset_local_repair", "semantic_target_reset", "patcher+verifier", "post_locate"),
          p("semantic_scope_expand_rebuild", "semantic_scope_expand", "locator+patcher+verifier", "post_locate"),
          p("semantic_capability_boost_local_repair", "semantic_capability_boost", "patcher+verifier", ""),
          p("semantic_global_reset_rebuild", "semantic_global_reset", "full", "initial")>>
FragmentPool(profile, family) ==
    Pick(Fragments, CASE profile = "anchor_restore" -> IF family = "contaminated_post_patch" THEN <<6>> ELSE <<1, 6>>
                      [] profile = "local_rebuild" -> IF family = "post_patch_regression" THEN <<2, 3, 6>> ELSE <<2, 3, 5, 6>>
                      [] family = "post_patch_regression" -> <<1, 2, 3, 5, 6>>
                      [] family = "contaminated_post_patch" -> <<2, 3, 4, 5, 6>>
                      [] OTHER -> <<1, 2, 3, 4, 5, 6>>)

(* semantic_action_loop_programs_v1.                                       *)
Starters(family) ==
    LET p(id, fam, scope, to) == Program(id, "action", fam, scope, to)
        anchor == IF family = "post_patch_regression" THEN "post_patch" ELSE "post_locate"
    IN  <<p("semantic_action_object_recheck_start", "semantic_object_recheck", "object+verify", ""),
          p("semantic_action_object_revoke_start", "semantic_object_revoke", "object_reset", "post_locate"),
          p("semantic_action_evidence_start", "semantic_evidence_recheck", "read+verify", ""),
          p("semantic_action_target_reset_start", "semantic_target_reset", "reset_only", anchor),
          p("semantic_action_scope_expand_start", "semantic_scope_expand", "locator+patcher+verifier", ""),
          p("semantic_action_capability_boost_start", "semantic_capability_boost", "patcher", ""),
          p("semantic_action_global_reset_start", "semantic_global_reset", "global_reset_only", "initial")>>
StarterPool(profile, family) ==
    Pick(Starters(family), CASE profile = "anchor_restore" -> <<7>>
                             [] profile = "local_rebuild" -> <<1, 2, 3, 4, 6>>
                             [] family = "post_patch_regression" -> <<1, 2, 3, 4, 6, 7>>
                             [] OTHER -> <<1, 2, 3, 4, 5, 6, 7>>)

(* semantic_object_loop_programs_v2.                                       *)
Macros ==
    LET p(id, fam, scope, to) == Program(id, "macro", fam, scope, to)
    IN  <<p("semantic_object_recheck_then_repair", "semantic_object_recheck", "patcher+verifier", ""),
          p("semantic_object_revoke_then_repair", "semantic_object_revoke", "patcher+verifier", "post_locate"),
          p("semantic_object_expand_then_repair", "semantic_object_expand", "locator+patcher+verifier", ""),
          p("semantic_object_revoke_then_boosted_repair", "semantic_object_revoke_boosted", "patcher+verifier", "post_locate")>>
MacroPool(profile, family) ==
    Pick(Macros, CASE profile = "anchor_restore" -> <<2>>
                   [] profile = "local_rebuild" -> <<1, 2, 4>>
                   [] family = "post_patch_regression" -> <<1, 2>>
                   [] OTHER -> <<1, 2, 3, 4>>)

(* _synthesized_atomic_programs: the templates stand for what is           *)
(* synthesized.  Its ids are the defaults' own or what the model that      *)
(* wrote the programs calls them, and nothing keeps them apart:            *)
(* _prune_programs compares skeletons and scopes.                          *)
Synthesized ==
    LET pool == <<BeliefLocal, EvidenceLocal, LocalRebuild>>
    IN  {pool} \cup {[i \in DOMAIN pool |-> [pool[i] EXCEPT !.id = ids[i]]] :
                      ids \in [DOMAIN pool -> Names]}

(* _candidate_programs_for_profile and what comes before it: the pools     *)
(* there may be.                                                           *)
Pools(version, profile, family, diagnosis) ==
    CASE version = "atomic_actions_v1" ->
            IF diagnosis # "none" /\ family = "contaminated_post_patch" THEN {DiagnosisPrograms}
            ELSE Synthesized
      [] version \in {"legacy", "intent_discovery_v1", "intent_discovery_v2"} ->
            {TemplatePool(version, profile, family)}
      [] version \in {"semantic_dual_v1", "semantic_closed_loop_v1"} ->
            {FragmentPool(profile, family)}
      [] version = "semantic_action_loop_v1" -> {StarterPool(profile, family)}
      [] version = "semantic_object_loop_v2" -> {MacroPool(profile, family)}
      [] OTHER -> {SchemaPool(version, profile, family)}

-----------------------------------------------------------------------------
UpTo(limit, programs) == SubSeq(programs, 1, IF limit < Len(programs) THEN limit ELSE Len(programs))

(* The scores of the five selectors that rank, with the estimates, the     *)
(* health of the checkpoints, the signals of the state and the advice of a *)
(* controller in them: any programs, each at most once.                    *)
Ranked(limit, programs) ==
    LET n == Len(UpTo(limit, programs))
    IN  {[i \in 1..n |-> programs[rank[i]]] :
            rank \in {r \in [1..n -> DOMAIN programs] : \A i, k \in 1..n : r[i] = r[k] => i = k}}

(* The first of the programs that has the recommended id, and the others   *)
(* that do not have it.                                                    *)
RecommendedFirst(programs, recommended) ==
    LET named == SelectSeq(programs, LAMBDA p : p.id = recommended)
    IN  IF named = <<>> THEN programs
        ELSE <<Head(named)>> \o SelectSeq(programs, LAMBDA p : p.id # recommended)

(* _limit_programs_for_online_execution: what may be tried.                *)
Limited(programs, selector, limit, recommended) ==
    CASE limit = 0 -> {programs}
      [] limit # 0 /\ selector = "raw_order_top1" -> {UpTo(limit, programs)}
      [] limit # 0 /\ selector = "llm_recommended_top1" ->
            {UpTo(limit, RecommendedFirst(programs, recommended))}
      [] OTHER -> Ranked(limit, programs)

=============================================================================
