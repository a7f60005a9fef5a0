----------------------------- MODULE MCCleanStart -----------------------------
(* Five trees: the fresh one, the diff that failed before, one that is      *)
(* right, one beside the targets that does not compile, one that changes a  *)
(* test only.  The edits are guarded fallbacks.                             *)
EXTENDS CleanStartInputs

Patch == [
    clean |-> PatchOf({}, {}, {}, {}, <<>>),
    old   |-> PatchOf({"here"}, {}, {"boundary", "narrow", "broad", "swallow", "fallback", "signal"},
                      {"effect"}, <<"narrow", "garbled">>),
    good  |-> PatchOf({"here", "text"}, {}, {"boundary", "guard", "fallback", "signal"},
                      {"effect"}, <<"other", "guard">>),
    aside |-> PatchOf({"there"}, {"there"}, {"plain"}, {}, <<"guard">>),
    tests |-> PatchOf({"test"}, {}, {"plain"}, {"effect"}, <<>>)]
Outcomes == [
    clean |-> {"collects"},
    old   |-> {"collects", "oracle"},
    good  |-> {"collects", "target", "oracle"},
    aside |-> {"collects", "oracle"},
    tests |-> {"target", "oracle"}]

TheTrees == DOMAIN Patch
TheFailure == FailureOf(FALSE, {"here"}, {"here"}, FALSE, {"assert", "equal"})
FindingsAt(t) ==
    FindingsOf(Patch[t], TheFailure, "guarded_fallback", {"here"}, Patch["clean"], Patch["old"],
               Outcomes[t])

(* What the audits find of the five, spelled out for TLC.                  *)
TheFindings == [
    clean |-> {"only", "compiles", "unknown", "environment", "collects"},
    old   |-> {"changed", "source", "only", "edit", "compiles", "means", "repeats", "covers",
               "no_diff", "location", "abstraction", "condition", "unknown", "collects", "oracle"},
    good  |-> {"changed", "source", "only", "edit", "compiles", "means", "covers", "no_diff",
               "location", "abstraction", "condition", "unknown", "collects", "target", "oracle"},
    aside |-> {"changed", "source", "only", "abstraction", "unknown", "collects", "oracle"},
    tests |-> {"changed", "compiles", "unknown", "environment", "target", "oracle"}]
ASSUME FindingsAreFound == \A t \in TheTrees : TheFindings[t] = FindingsAt(t)

Plain == [request |-> "execute", preflight |-> FALSE, external |-> "none", others |-> "none",
          script |-> FALSE, sourceOnly |-> TRUE, edit |-> TRUE, meaning |-> TRUE,
          syntaxGuard |-> TRUE, salvage |-> FALSE, bounded |-> FALSE, conditioned |-> TRUE,
          contract |-> FALSE, feedback |-> FALSE, preOracle |-> FALSE, diffFirst |-> FALSE,
          commands |-> "plain"]

(* Runs that end early, by what they are given.                            *)
File(state, rows) == [state |-> state, rows |-> rows]
Nothing == File("none", <<>>)
Row(instance, success) ==
    RowOf(instance, success, {"here"}, "", TRUE, "unstated", IF success THEN {} ELSE {"output"})
Externals == {Nothing, File("missing", <<>>), File("read", <<Row("other", FALSE), Row("this", FALSE)>>)}
Cases == {Nothing, File("read", <<Row("", TRUE)>>), File("read", <<Row("other", FALSE), Row("other", TRUE)>>)}
Controller(state, leaks) == [state |-> state, leaks |-> leaks, action |-> "probe"]
Program(state, has) ==
    [state |-> state, leaks |-> FALSE, action |-> "source-action", mode |-> "direct_script", has |-> has]
Programs == {Program("none", {}), Program("read", {"patterns", "invariants", "stop"}),
             Program("read", {"patterns", "invariants", "script", "stop"})}
Hosts == {HostOf("answers", {}, i, "runs", r) : i \in {"none", "present"}, r \in BOOLEAN}

Given(request, host, external, baseline, history, controller, program) ==
    [Plain EXCEPT !.request = request, !.preflight = PreflightBlocks(host),
                  !.external = Standing(external, ExternalAdmitted(external)),
                  !.others = OthersOf(baseline, history, controller, program),
                  !.script = RunsScript(program), !.commands = "blocked"]
Starts == {Given(r, h, e, b, c, Controller(k, l), p) :
             r \in {"execute", "plan", "unsupported"}, h \in Hosts, e \in Externals, b \in Cases,
             c \in Cases, k \in {"none", "read"}, l \in BOOLEAN, p \in Programs}

(* Every way to set up the audits.                                         *)
Audited == {[Plain EXCEPT !.script = s, !.sourceOnly = o, !.edit = o, !.meaning = m,
                          !.syntaxGuard = m, !.preOracle = ~s, !.bounded = TRUE,
                          !.conditioned = m, !.contract = m, !.commands = "validated"] :
              s \in BOOLEAN, o \in BOOLEAN, m \in BOOLEAN}

(* The retries, after the stages and after a script; with the salvage or    *)
(* with the audit before the oracle: each two of the three settings in     *)
(* every combination, with and without the failure of an earlier run.      *)
Retries == {[Plain EXCEPT !.external = IF b /\ f THEN "none" ELSE "admitted",
                          !.salvage = ~p, !.bounded = b, !.contract = b,
                          !.feedback = f, !.preOracle = p, !.diffFirst = p] :
              <<b, f, p>> \in {<<TRUE, TRUE, FALSE>>, <<TRUE, FALSE, TRUE>>,
                               <<FALSE, TRUE, TRUE>>, <<FALSE, FALSE, FALSE>>}}
Scripts == {[Plain EXCEPT !.script = TRUE, !.meaning = FALSE, !.external = e,
                          !.others = "admitted", !.bounded = TRUE, !.contract = TRUE, !.feedback = TRUE,
                          !.conditioned = FALSE, !.diffFirst = (e = "none")] :
              e \in {"none", "admitted"}}

AllRuns == Starts \cup Audited \cup Retries \cup Scripts

(***************************************************************************)
(* What the audits do and do not tell apart, over small sets of patches,   *)
(* failures and artifacts.                                                 *)
(***************************************************************************)
Patches ==
    {PatchOf(files, {}, lines, {}, choices) :
       files \in SUBSET Files, choices \in {<<>>, <<"guard">>, <<"guard", "narrow">>},
       lines \in SUBSET {"guard", "narrow", "broad", "swallow", "fallback", "signal", "boundary"}}
Failures ==
    {FailureOf(b, t, s, e, o) : b \in BOOLEAN, t \in SUBSET Modules, s \in SUBSET Modules,
                                e \in BOOLEAN, o \in SUBSET {"assert", "equal"}}

(* A patch without a diff never satisfies the contract its failure is put  *)
(* under; one that missed the place of the failure always does, since the  *)
(* files it changed are among the targets.                                 *)
ASSUME NoDiffIsRefused ==
    \A f \in Failures, p \in {q \in Patches : q.lines = {}} :
        FailureClass(f, p) = "no_diff" =>
            ~ClassSatisfied("no_diff", "none", p, ContractTargets(f, p))
ASSUME MissedFileIsATarget ==
    \A f \in Failures, p \in {q \in Patches : q.lines = {}} :
        FailureClass(f, p) = "location" /\ NonTest(p) # {} =>
            ClassSatisfied("location", "none", p, ContractTargets(f, p))

(* What the guarded fallback allows the class contract allows too, broad   *)
(* exceptions included; the minimal contract never allows them.            *)
ASSUME FallbackMaySwallow ==
    \A p \in Patches :
        /\ EditSatisfied("guarded_fallback", p, {}) => ClassSatisfied("abstraction", "guarded_fallback", p, {})
        /\ EditSatisfied("minimal_targeted", p, {}) => ~BroadSwallowing(p)
ASSUME SwallowingFallbackExists ==
    \E p \in Patches : BroadSwallowing(p) /\ EditSatisfied("guarded_fallback", p, {})

(* One file is never admitted as the failure and as the baseline of the    *)
(* same instance; with two rows it may be the baseline and a case.         *)
SmallRows == {RowOf(i, s, f, "", TRUE, "unstated", c) :
                i \in {"", "this", "other"}, s \in BOOLEAN, f \in {{}, {"here"}, {"here", "test"}},
                c \in {{}, {"code"}, {"output"}}}
SmallFiles == {File("read", rows) : rows \in {<<r>> : r \in SmallRows} \cup (SmallRows \X SmallRows)}
ASSUME FailureIsNoBaseline ==
    \A a \in SmallFiles : ~(ExternalAdmitted(a) /\ BaselineAdmitted(a))
ASSUME CaseMayBeBaseline ==
    /\ \E a \in SmallFiles : BaselineAdmitted(a) /\ HistoryAdmitted(a)
    /\ \A a \in SmallFiles : BaselineAdmitted(a) /\ HistoryAdmitted(a) => Len(a.rows) = 2

===============================================================================
