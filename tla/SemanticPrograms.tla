-------------------------- MODULE SemanticPrograms --------------------------
(***************************************************************************)
(* The semantic recovery programs of bcmr_swe: the actions, the programs a *)
(* recovery may start with, and what an action is compiled to              *)
(* (bcmr_swe/recovery/semantic_language.py).                               *)
(*                                                                         *)
(* A step keeps the arguments the executor or a budget gate reads.  The    *)
(* new names REPAIR_LOCAL and EXPAND_SCOPE are treated like LOCAL_REPAIR   *)
(* and SCOPE_EXPAND everywhere and are written that way here.              *)
(***************************************************************************)
EXTENDS Naturals, Sequences

Preparing == {"EVIDENCE_RECHECK", "RECHECK_OBJECT", "REVOKE_OBJECT",
              "TARGET_RESET", "CAPABILITY_BOOST"}
Repairing == {"LOCAL_REPAIR", "SCOPE_EXPAND"}
Actions == Preparing \cup Repairing

Profiles == {"normal", "compact", "boosted"}
Scopes == {"patcher+verifier", "locator+patcher+verifier", "full"}
Modes == {"local", "local_boosted", "expanded", "evidence_rechecked_local",
          "object_rechecked_local", "object_revoked_local",
          "object_revoked_boosted_local", "rebuild_from_local_anchor",
          "candidate_preserving_local", "candidate_preserving_refine",
          "candidate_preserving_boosted_refine"}
Preconditions == {"", "source_candidate_refine", "evidence_bounded_scope_expand",
                  "post_evidence_source_repair"}
Anchors == {"", "initial", "post_locate", "post_patch", "source_candidate"}

(* A profile of "" is left to the ledger.  recheck: pre_evidence_recheck   *)
(* with focused_verify; repair: repair_after_clear; all: invalidate is     *)
(* ["all"] and not the target of the action.                               *)
SemanticStep == [act : Actions, scope : Scopes, mode : Modes, pre : Preconditions,
                 profile : Profiles \cup {""}, recheck : BOOLEAN, repair : BOOLEAN,
                 all : BOOLEAN, anchor : Anchors]

Do(act) ==
    [act |-> act, scope |-> "patcher+verifier", mode |-> "local", pre |-> "",
     profile |-> "normal", recheck |-> FALSE, repair |-> FALSE, all |-> FALSE,
     anchor |-> ""]

Recheck == Do("EVIDENCE_RECHECK")
RecheckObject == Do("RECHECK_OBJECT")
Revoke == [Do("REVOKE_OBJECT") EXCEPT !.anchor = "post_locate"]
ResetTo(anchor) == [Do("TARGET_RESET") EXCEPT !.anchor = anchor]
ResetAll == [Do("TARGET_RESET") EXCEPT !.anchor = "initial", !.all = TRUE]
Boost == Do("CAPABILITY_BOOST")
Repair(mode, profile) == [Do("LOCAL_REPAIR") EXCEPT !.mode = mode, !.profile = profile]
Expand ==
    [Do("SCOPE_EXPAND") EXCEPT !.scope = "locator+patcher+verifier", !.mode = "expanded",
        !.pre = "evidence_bounded_scope_expand", !.profile = "compact", !.recheck = TRUE]
Restart == [Do("SCOPE_EXPAND") EXCEPT !.scope = "full", !.mode = "expanded"]

(* semantic_programs_v1; semantic_closed_loop_programs_v1 starts with the  *)
(* same ones.                                                              *)
ProgramsV1 ==
    {<<ResetTo("post_patch")>>,
     <<Recheck, Repair("local", "normal")>>,
     <<ResetTo("post_locate"), Repair("rebuild_from_local_anchor", "normal")>>,
     <<ResetTo("post_locate"), Expand>>,
     <<Boost, Repair("local_boosted", "")>>,
     <<ResetAll, Restart>>}

(* semantic_action_loop_programs_v1: one action each.                      *)
ActionStarters ==
    {<<RecheckObject>>, <<Revoke>>, <<Recheck>>, <<ResetTo("post_locate")>>,
     <<Expand>>, <<Boost>>, <<ResetAll>>}

(* semantic_object_loop_programs_v2.                                       *)
ObjectPrograms ==
    {<<RecheckObject, Repair("object_rechecked_local", "normal")>>,
     <<Revoke, Repair("object_revoked_local", "normal")>>,
     <<Expand>>,
     <<Revoke, Repair("object_revoked_boosted_local", "boosted")>>}

(***************************************************************************)
(* Compilation.  What a primitive step takes over from its action is kept  *)
(* with it; `stronger` tells the boost of the patcher's model from the     *)
(* broader search of a SCOPE_EXPAND.                                       *)
(***************************************************************************)
Ops == {"READ_EVIDENCE", "FOCUSED_VERIFY", "CLEAR_LOCAL_STATE", "ROLLBACK_ANCHOR",
        "BOOST_EXECUTION", "CONSTRAINED_REPLAY"}

PrimRecord == [op : Ops, scope : Scopes, mode : Modes, pre : Preconditions, stronger : BOOLEAN]
Prim(op, s) == [op |-> op, scope |-> s.scope, mode |-> s.mode, pre |-> s.pre,
                stronger |-> s.act # "SCOPE_EXPAND"]

Inspection(s) == <<Prim("READ_EVIDENCE", s), Prim("FOCUSED_VERIFY", s)>>
When(cond, steps) == IF cond THEN steps ELSE <<>>

(* compile_semantic_program, one branch per family of actions.  A step     *)
(* takes the profile the ledger has when it names none.                    *)
Compile(s, ledgerProfile) ==
    LET profile == IF s.profile = "" THEN ledgerProfile ELSE s.profile
        boosted == When(profile = "boosted", <<Prim("BOOST_EXECUTION", s)>>)
        inspected == When(s.recheck, Inspection(s))
        restored == When(s.anchor # "", <<Prim("ROLLBACK_ANCHOR", s)>>)
        replay == <<Prim("CONSTRAINED_REPLAY", s)>>
    IN  CASE s.act \in {"EVIDENCE_RECHECK", "RECHECK_OBJECT"} -> Inspection(s)
          [] s.act \in {"TARGET_RESET", "REVOKE_OBJECT"} ->
                <<Prim("CLEAR_LOCAL_STATE", s)>> \o restored
                \o When(s.repair, boosted \o <<Prim("CONSTRAINED_REPLAY", [s EXCEPT !.pre = ""])>>)
          [] s.act = "LOCAL_REPAIR" -> restored \o inspected \o boosted \o replay
          [] s.act = "SCOPE_EXPAND" -> inspected \o <<Prim("BOOST_EXECUTION", s)>> \o replay
          [] s.act = "CAPABILITY_BOOST" -> <<Prim("BOOST_EXECUTION", s)>>

=============================================================================
