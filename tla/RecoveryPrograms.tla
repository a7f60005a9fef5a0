-------------------------- MODULE RecoveryPrograms --------------------------
(***************************************************************************)
(* The recovery programs of bcmr_swe: what a step is                       *)
(* (bcmr_swe/types.py) and which sequences of steps the grammar lets       *)
(* through (recovery/program_grammar.py).  A REPLAY is kept by the stage   *)
(* it starts from ("full" starts from the locator), an id of 0 is one the  *)
(* model that wrote the program left out or made up.                       *)
(***************************************************************************)
EXTENDS Naturals, Sequences, FiniteSets

Stages == {"locator", "patcher", "verifier"}
FactKeys == {"localized_path", "latest_patch"}

OpType == {"INSPECT", "REVOKE", "ROLLBACK", "REPLAY", "ESCALATE", "SELECTIVE_REPLAY"}

RecoveryStep == [op : OpType, stage : Stages, key : FactKeys \cup {""}, id : Nat,
                 hint : BOOLEAN, cached : BOOLEAN]

MaxProgramSteps == 5

(* How the steps of a program are written down.                            *)
Blank(op) == [op |-> op, stage |-> "patcher", key |-> "", id |-> 0,
              hint |-> FALSE, cached |-> TRUE]
Inspect == Blank("INSPECT")
Escalate == Blank("ESCALATE")
Rollback == Blank("ROLLBACK")
Revoke(key) == [Blank("REVOKE") EXCEPT !.key = key]
Replay(stage, hint) == [Blank("REPLAY") EXCEPT !.stage = stage, !.hint = hint]
SelectiveReplay(role, cached) ==
    [Blank("SELECTIVE_REPLAY") EXCEPT !.stage = role, !.hint = TRUE, !.cached = cached]

StepsOf(p, ops) == {i \in DOMAIN p : p[i].op \in ops}

(* validate_program: 1 to 5 steps, one of them a ROLLBACK or a REPLAY, no  *)
(* ESCALATE at the end, and not only REPLAYs of the verifier unless the    *)
(* program also rolls back.                                                *)
ValidateProgram(p) ==
    /\ Len(p) \in 1 .. MaxProgramSteps
    /\ StepsOf(p, {"ROLLBACK", "REPLAY"}) # {}
    /\ p[Len(p)].op # "ESCALATE"
    /\ \/ StepsOf(p, {"REPLAY"}) = {}
       \/ StepsOf(p, {"ROLLBACK"}) # {}
       \/ \E i \in StepsOf(p, {"REPLAY"}) : p[i].stage # "verifier"

=============================================================================
