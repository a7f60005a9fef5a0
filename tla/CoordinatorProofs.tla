------------------------- MODULE CoordinatorProofs -------------------------
(***************************************************************************)
(* Theorems about Coordinator, for every set of settings and of programs   *)
(* and every number of candidates: trials are contained, successes are     *)
(* verified, the run is a RecoveryLoop, and checkpoints a program names    *)
(* are checkpoints of the memory.                                          *)
(***************************************************************************)
EXTENDS Coordinator, TLAPS, FiniteSetTheorems

(***************************************************************************)
(* The inductive invariant.  A group of trials remembers the switches the  *)
(* run was set up with and a number of calls within the budget; there is   *)
(* one group at most; and what the switches are while it is on the stack   *)
(* keeps a second one from being opened.                                   *)
(***************************************************************************)
Groups(s) == {i \in DOMAIN s : s[i].kind = "group"}

FrameOK(f, cfg) ==
    /\ "kind" \in DOMAIN f
    /\ f.kind = "program" => "ok" \in DOMAIN f
    /\ f.kind = "group" =>
         /\ "base" \in DOMAIN f
         /\ f.base.calls \in 0 .. cfg.budget
         /\ f.base.enabled = TRUE
         /\ f.base.limit = cfg.budget
         /\ f.base.capturing = cfg.capture

FramesOK(s, cfg) ==
    /\ \E F : s \in Seq(F)
    /\ \A i \in DOMAIN s : FrameOK(s[i], cfg)

Switches ==
    /\ setting \in Settings
    /\ calls \in Nat /\ limit \in Nat
    /\ enabled \in BOOLEAN /\ capturing \in BOOLEAN

StackShape ==
    /\ FramesOK(stack, setting)
    /\ \A i, j \in Groups(stack) : i = j
    /\ pc = "trial" => stack # <<>> /\ Top.kind = "group"
    /\ pc = "step" => stack # <<>> /\ Top.kind = "program"

HeldBack ==
    \A i \in Groups(stack) : pc # "trial" =>
        IF setting.v3
        THEN enabled = FALSE /\ calls = stack[i].base.calls
        ELSE /\ capturing = FALSE
             /\ limit = stack[i].base.calls + setting.followups
             /\ calls <= limit

NoTrace ==
    Groups(stack) = {} =>
        /\ enabled = TRUE /\ capturing = setting.capture
        /\ limit = setting.budget /\ calls <= limit

ContainedInv == Switches /\ StackShape /\ HeldBack /\ NoTrace

(***************************************************************************)
(* Stacks.                                                                 *)
(***************************************************************************)
LEMMA SettingParts ==
    ASSUME NEW c \in Settings
    PROVE  /\ c.v3 \in BOOLEAN /\ c.capture \in BOOLEAN
           /\ c.budget \in Nat /\ c.followups \in Nat
  BY SettingsAssumption DEF Setting

LEMMA PushFrame ==
    ASSUME NEW s, NEW f, NEW c, FramesOK(s, c), FrameOK(f, c)
    PROVE  /\ FramesOK(Append(s, f), c)
           /\ Append(s, f) # <<>>
           /\ Len(Append(s, f)) \in DOMAIN Append(s, f)
           /\ Append(s, f)[Len(Append(s, f))] = f
           /\ \A i \in DOMAIN s : Append(s, f)[i] = s[i]
           /\ f.kind # "group" => Groups(Append(s, f)) = Groups(s)
           /\ f.kind = "group" => Groups(Append(s, f)) = Groups(s) \cup {Len(s) + 1}
  <1>1. PICK F : s \in Seq(F)
    BY DEF FramesOK
  <1> DEFINE t == Append(s, f)
  <1>2. t \in Seq(F \cup {f}) /\ Len(s) \in Nat /\ Len(t) = Len(s) + 1
    BY <1>1
  <1>3. /\ DOMAIN s = 1 .. Len(s) /\ DOMAIN t = 1 .. Len(s) + 1
        /\ \A i \in 1 .. Len(s) : t[i] = s[i]
        /\ t[Len(s) + 1] = f
    BY <1>1, <1>2
  <1>4. t # <<>>
    BY <1>2
  <1>5. FramesOK(t, c)
    BY <1>2, <1>3 DEF FramesOK
  <1>6. f.kind # "group" => Groups(t) = Groups(s)
    BY <1>2, <1>3 DEF Groups
  <1>7. f.kind = "group" => Groups(t) = Groups(s) \cup {Len(s) + 1}
    BY <1>2, <1>3 DEF Groups
  <1> QED
    BY <1>2, <1>3, <1>4, <1>5, <1>6, <1>7

LEMMA PopFrame ==
    ASSUME NEW s, NEW c, FramesOK(s, c), s # <<>>
    PROVE  LET t == SubSeq(s, 1, Len(s) - 1) IN
           /\ FramesOK(t, c)
           /\ Len(t) = Len(s) - 1
           /\ Len(s) \in DOMAIN s
           /\ \A i \in DOMAIN t : i \in DOMAIN s /\ i # Len(s) /\ t[i] = s[i]
           /\ Groups(t) = Groups(s) \ {Len(s)}
  <1>1. PICK F : s \in Seq(F)
    BY DEF FramesOK
  <1> DEFINE t == SubSeq(s, 1, Len(s) - 1)
  <1>2. Len(s) \in Nat /\ Len(s) # 0 /\ DOMAIN s = 1 .. Len(s)
    BY <1>1
  <1>3. /\ t \in Seq(F) /\ Len(t) = Len(s) - 1 /\ DOMAIN t = 1 .. Len(s) - 1
        /\ \A i \in 1 .. Len(s) - 1 : t[i] = s[i]
    BY <1>1, <1>2
  <1>4. FramesOK(t, c)
    <2>1. \E G : t \in Seq(G)
      BY <1>3
    <2>2. ASSUME NEW i \in DOMAIN t
          PROVE  FrameOK(t[i], c)
      <3>1. i \in DOMAIN s /\ t[i] = s[i]
        BY <1>2, <1>3
      <3> QED
        BY <3>1 DEF FramesOK
    <2> QED
      BY <2>1, <2>2 DEF FramesOK
  <1>5. Groups(t) = Groups(s) \ {Len(s)}
    BY <1>2, <1>3 DEF Groups
  <1> QED
    BY <1>2, <1>3, <1>4, <1>5

(* Replacing the frame on top.                                             *)
LEMMA SetFrame ==
    ASSUME NEW s, NEW f, NEW c, FramesOK(s, c), s # <<>>, FrameOK(f, c)
    PROVE  LET t == Append(SubSeq(s, 1, Len(s) - 1), f) IN
           /\ FramesOK(t, c)
           /\ t # <<>>
           /\ Len(t) = Len(s)
           /\ Len(s) \in DOMAIN s
           /\ t[Len(t)] = f
           /\ \A i \in DOMAIN s : i # Len(s) => t[i] = s[i]
           /\ f.kind # "group" => Groups(t) = Groups(s) \ {Len(s)}
           /\ f.kind = "group" => Groups(t) = (Groups(s) \ {Len(s)}) \cup {Len(s)}
  <1> DEFINE r == SubSeq(s, 1, Len(s) - 1)
             t == Append(r, f)
  <1>1. PICK F : s \in Seq(F)
    BY DEF FramesOK
  <1>2. Len(s) \in Nat /\ Len(s) # 0 /\ DOMAIN s = 1 .. Len(s)
    BY <1>1
  <1>3. /\ r \in Seq(F) /\ Len(r) = Len(s) - 1 /\ DOMAIN r = 1 .. Len(s) - 1
        /\ \A i \in 1 .. Len(s) - 1 : r[i] = s[i]
    BY <1>1, <1>2
  <1>4. FramesOK(r, c) /\ Groups(r) = Groups(s) \ {Len(s)}
    BY PopFrame
  <1>5. /\ FramesOK(t, c) /\ t # <<>> /\ t[Len(t)] = f
        /\ \A i \in DOMAIN r : t[i] = r[i]
        /\ f.kind # "group" => Groups(t) = Groups(r)
        /\ f.kind = "group" => Groups(t) = Groups(r) \cup {Len(r) + 1}
    BY <1>4, PushFrame
  <1>6. Len(t) = Len(s) /\ Len(r) + 1 = Len(s)
    BY <1>2, <1>3
  <1>7. \A i \in DOMAIN s : i # Len(s) => t[i] = s[i]
    BY <1>2, <1>3, <1>5
  <1> HIDE DEF t, r
  <1> QED
    BY <1>2, <1>4, <1>5, <1>6, <1>7 DEF t, r

(***************************************************************************)
(* Steps that leave the switches alone.                                    *)
(***************************************************************************)
LEMMA InitContained == Init => ContainedInv
  <1> SUFFICES ASSUME Init PROVE ContainedInv
    OBVIOUS
  <1>1. /\ setting \in Settings /\ calls = 0 /\ limit = setting.budget
        /\ enabled = TRUE /\ capturing = setting.capture /\ stack = <<>> /\ pc = "stage"
    BY DEF Init
  <1>2. /\ setting.v3 \in BOOLEAN /\ setting.capture \in BOOLEAN
        /\ setting.budget \in Nat /\ setting.followups \in Nat
    BY <1>1, SettingParts
  <1>3. Groups(stack) = {} /\ FramesOK(stack, setting)
    <2>1. stack \in Seq({}) /\ DOMAIN stack = {}
      BY <1>1
    <2> QED
      BY <2>1 DEF Groups, FramesOK
  <1> QED
    BY <1>1, <1>2, <1>3 DEF ContainedInv, Switches, StackShape, HeldBack, NoTrace

LEMMA SameStack ==
    ASSUME ContainedInv, UNCHANGED <<setting, flags, stack>>,
           pc # "trial", pc' \notin {"trial", "step"}
    PROVE  ContainedInv'
  BY DEF ContainedInv, Switches, StackShape, HeldBack, NoTrace, flags, Top

(* The program on top of the stack goes on.                                *)
LEMMA ProgramReplaced ==
    ASSUME ContainedInv, stack # <<>>, Top.kind = "program",
           NEW f, {"kind", "ok"} \subseteq DOMAIN f, f.kind = "program", stack' = SetTop(f)
    PROVE  /\ FramesOK(stack', setting) /\ stack' # <<>>
           /\ stack'[Len(stack')] = f
           /\ Groups(stack') = Groups(stack)
           /\ \A i \in Groups(stack) : stack'[i] = stack[i]
  <1>1. FramesOK(stack, setting) /\ FrameOK(f, setting) /\ f.kind # "group"
    BY DEF ContainedInv, StackShape, FrameOK
  <1>2. /\ FramesOK(stack', setting) /\ stack' # <<>>
        /\ stack'[Len(stack')] = f
        /\ \A i \in DOMAIN stack : i # Len(stack) => stack'[i] = stack[i]
        /\ Groups(stack') = Groups(stack) \ {Len(stack)}
    <2> DEFINE t == Append(SubSeq(stack, 1, Len(stack) - 1), f)
    <2>1. /\ FramesOK(t, setting) /\ t # <<>>
          /\ t[Len(t)] = f
          /\ \A i \in DOMAIN stack : i # Len(stack) => t[i] = stack[i]
          /\ Groups(t) = Groups(stack) \ {Len(stack)}
      BY <1>1, SetFrame
    <2>2. stack' = t
      BY DEF SetTop, Pop
    <2> HIDE DEF t
    <2> QED
      BY <2>1, <2>2
  <1>3. Len(stack) \notin Groups(stack)
    BY DEF Groups, Top
  <1>4. /\ Groups(stack') = Groups(stack)
        /\ \A i \in Groups(stack) : stack'[i] = stack[i]
    BY <1>2, <1>3 DEF Groups
  <1> QED
    BY <1>2, <1>4

LEMMA ProgramGoesOn ==
    ASSUME ContainedInv, UNCHANGED <<setting, flags>>, pc # "trial", pc' # "trial",
           stack # <<>>, Top.kind = "program",
           NEW f, {"kind", "ok"} \subseteq DOMAIN f, f.kind = "program", stack' = SetTop(f)
    PROVE  ContainedInv'
  <1>1. /\ FramesOK(stack', setting) /\ stack' # <<>>
        /\ stack'[Len(stack')] = f
        /\ Groups(stack') = Groups(stack)
        /\ \A i \in Groups(stack) : stack'[i] = stack[i]
    BY ProgramReplaced
  <1>2. StackShape'
    BY <1>1 DEF ContainedInv, StackShape, Top
  <1>3. Switches' /\ HeldBack' /\ NoTrace'
    BY <1>1 DEF ContainedInv, Switches, HeldBack, NoTrace, flags
  <1> QED
    BY <1>2, <1>3 DEF ContainedInv

(* A frame on top that is a program has an ok.                             *)
LEMMA ProgramOnTop ==
    ASSUME ContainedInv, stack # <<>>, Top.kind = "program"
    PROVE  {"kind", "ok"} \subseteq DOMAIN Top
  <1>1. FramesOK(stack, setting)
    BY DEF ContainedInv, StackShape
  <1>2. Len(stack) \in DOMAIN stack
    BY <1>1, PopFrame
  <1> QED
    BY <1>1, <1>2 DEF FramesOK, FrameOK, Top

LEMMA StepIsDone ==
    ASSUME ContainedInv, UNCHANGED <<setting, flags>>, pc = "step", pc' = pc,
           NEW h, StepDone(h)
    PROVE  ContainedInv'
  <1>1. stack # <<>> /\ Top.kind = "program"
    BY DEF ContainedInv, StackShape
  <1> DEFINE f == [Top EXCEPT !.at = @ + 1, !.hinted = @ \/ h]
  <1>2. {"kind", "ok"} \subseteq DOMAIN f /\ f.kind = "program"
    BY <1>1, ProgramOnTop
  <1>3. stack' = SetTop(f)
    BY DEF StepDone
  <1> HIDE DEF f
  <1> QED
    BY <1>1, <1>2, <1>3, ProgramGoesOn

LEMMA StagesContained ==
    ContainedInv /\ (RunLocator \/ RunPatcher \/ VerifierPasses \/ VerifierFails \/ GiveUp
                     \/ ExecReplay \/ Finish) => ContainedInv'
  <1> SUFFICES ASSUME ContainedInv,
                      RunLocator \/ RunPatcher \/ VerifierPasses \/ VerifierFails \/ GiveUp
                        \/ ExecReplay \/ Finish
               PROVE  ContainedInv'
    OBVIOUS
  <1>1. UNCHANGED <<setting, flags, stack>> /\ pc # "trial" /\ pc' \notin {"trial", "step"}
    <2>1. CASE RunLocator
      BY <2>1 DEF RunLocator
    <2>2. CASE RunPatcher
      BY <2>2 DEF RunPatcher
    <2>3. CASE VerifierPasses
      BY <2>3 DEF VerifierPasses
    <2>4. CASE VerifierFails
      BY <2>4 DEF VerifierFails
    <2>5. CASE GiveUp
      BY <2>5 DEF GiveUp
    <2>6. CASE ExecReplay
      BY <2>6 DEF ExecReplay, Executing
    <2>7. CASE Finish
      BY <2>7 DEF Finish
    <2> QED
      BY <2>1, <2>2, <2>3, <2>4, <2>5, <2>6, <2>7
  <1> QED
    BY <1>1, SameStack

LEMMA ProgramsContained ==
    ContainedInv /\ (ExecInspect \/ ExecEscalate \/ ExecRevoke \/ ExecRollback)
        => ContainedInv'
  <1> SUFFICES ASSUME ContainedInv,
                      ExecInspect \/ ExecEscalate \/ ExecRevoke \/ ExecRollback
               PROVE  ContainedInv'
    OBVIOUS
  <1>1. /\ UNCHANGED <<setting, flags>> /\ pc = "step" /\ pc' = pc
        /\ \E h : StepDone(h)
    <2>1. CASE ExecInspect
      BY <2>1 DEF ExecInspect, Executing
    <2>2. CASE ExecEscalate
      BY <2>2 DEF ExecEscalate, Executing
    <2>3. CASE ExecRevoke
      BY <2>3 DEF ExecRevoke, Executing
    <2>4. CASE ExecRollback
      BY <2>4 DEF ExecRollback, Executing
    <2> QED
      BY <2>1, <2>2, <2>3, <2>4
  <1> QED
    BY <1>1, StepIsDone

LEMMA EndProgramContained == ContainedInv /\ EndProgram => ContainedInv'
  <1> SUFFICES ASSUME ContainedInv, EndProgram PROVE ContainedInv'
    OBVIOUS
  <1>1. /\ UNCHANGED <<setting, flags>> /\ pc = "step" /\ pc' = "return" /\ stack' = Pop
    BY DEF EndProgram
  <1>2. stack # <<>> /\ Top.kind = "program" /\ FramesOK(stack, setting)
    BY <1>1 DEF ContainedInv, StackShape
  <1>3. /\ FramesOK(stack', setting)
        /\ \A i \in DOMAIN stack' : i \in DOMAIN stack /\ stack'[i] = stack[i]
        /\ Groups(stack') = Groups(stack) \ {Len(stack)}
    BY <1>1, <1>2, PopFrame DEF Pop
  <1>4. /\ Groups(stack') = Groups(stack)
        /\ \A i \in Groups(stack) : stack'[i] = stack[i]
    <2>1. Groups(stack') = Groups(stack)
      BY <1>2, <1>3 DEF Groups, Top
    <2>2. Groups(stack') \subseteq DOMAIN stack'
      BY DEF Groups
    <2> QED
      BY <1>3, <2>1, <2>2
  <1>5. StackShape'
    BY <1>1, <1>3, <1>4 DEF ContainedInv, StackShape
  <1>6. Switches' /\ HeldBack' /\ NoTrace'
    BY <1>1, <1>4 DEF ContainedInv, Switches, HeldBack, NoTrace, flags
  <1> QED
    BY <1>5, <1>6 DEF ContainedInv

LEMMA ReturnToProgramContained == ContainedInv /\ ReturnToProgram => ContainedInv'
  <1> SUFFICES ASSUME ContainedInv, ReturnToProgram PROVE ContainedInv'
    OBVIOUS
  <1> DEFINE f == [Top EXCEPT !.at = @ + 1, !.ok = ret, !.hinted = TRUE]
  <1>1. /\ UNCHANGED <<setting, flags>> /\ pc = "return" /\ pc' = "step"
        /\ stack # <<>> /\ Top.kind = "program" /\ stack' = SetTop(f)
    BY DEF ReturnToProgram
  <1>2. {"kind", "ok"} \subseteq DOMAIN Top
    BY <1>1, ProgramOnTop
  <1>3. {"kind", "ok"} \subseteq DOMAIN f /\ f.kind = "program"
    BY <1>1, <1>2
  <1> HIDE DEF f
  <1> QED
    BY <1>1, <1>3, ProgramGoesOn

(***************************************************************************)
(* Steps of the trials.                                                    *)
(***************************************************************************)

(* The group on top is the only one, and remembers how the run was set up. *)
LEMMA GroupOnTop ==
    ASSUME ContainedInv, stack # <<>>, Top.kind = "group"
    PROVE  /\ Len(stack) \in DOMAIN stack
           /\ Groups(stack) = {Len(stack)}
           /\ {"kind", "base"} \subseteq DOMAIN Top
           /\ Top.base.calls \in 0 .. setting.budget
           /\ Top.base.enabled = TRUE
           /\ Top.base.limit = setting.budget
           /\ Top.base.capturing = setting.capture
  <1>1. FramesOK(stack, setting) /\ \A i, j \in Groups(stack) : i = j
    BY DEF ContainedInv, StackShape
  <1>2. Len(stack) \in DOMAIN stack
    BY <1>1, PopFrame
  <1>3. FrameOK(Top, setting)
    BY <1>1, <1>2 DEF FramesOK, Top
  <1>4. Len(stack) \in Groups(stack)
    BY <1>2 DEF Groups, Top
  <1>5. Groups(stack) = {Len(stack)}
    BY <1>1, <1>4
  <1> QED
    BY <1>2, <1>3, <1>5 DEF FrameOK

LEMMA ReturnToTrialsContained == ContainedInv /\ ReturnToTrials => ContainedInv'
  <1> SUFFICES ASSUME ContainedInv, ReturnToTrials PROVE ContainedInv'
    OBVIOUS
  <1> DEFINE f == [Top EXCEPT !.at = @ + 1]
  <1>1. /\ UNCHANGED <<setting, flags>> /\ pc' = "trial"
        /\ stack # <<>> /\ Top.kind = "group" /\ stack' = SetTop(f)
    BY DEF ReturnToTrials
  <1>2. FrameOK(f, setting) /\ f.kind = "group"
    <2>1. {"kind", "base"} \subseteq DOMAIN Top
      BY <1>1, GroupOnTop
    <2>2. {"kind", "base"} \subseteq DOMAIN f /\ f.kind = Top.kind /\ f.base = Top.base
      BY <2>1
    <2> QED
      BY <1>1, <2>2, GroupOnTop DEF FrameOK
  <1> HIDE DEF f
  <1>3. /\ FramesOK(stack', setting) /\ stack' # <<>>
        /\ stack'[Len(stack')] = f
        /\ Groups(stack') = (Groups(stack) \ {Len(stack)}) \cup {Len(stack)}
    BY <1>1, <1>2, SetFrame DEF SetTop, Pop, ContainedInv, StackShape
  <1>4. Groups(stack') = {Len(stack)}
    BY <1>1, <1>3, GroupOnTop
  <1>5. StackShape'
    BY <1>1, <1>2, <1>3, <1>4 DEF StackShape, Top
  <1>6. Switches' /\ HeldBack' /\ NoTrace'
    BY <1>1, <1>4 DEF ContainedInv, Switches, HeldBack, NoTrace, flags
  <1> QED
    BY <1>5, <1>6 DEF ContainedInv

LEMMA TryContained == ContainedInv /\ (TryProgram \/ TryAction) => ContainedInv'
  <1> SUFFICES ASSUME ContainedInv, TryProgram \/ TryAction PROVE ContainedInv'
    OBVIOUS
  <1>1. stack # <<>> /\ Top.kind = "group" /\ setting' = setting
    BY DEF TryProgram, TryAction, ContainedInv, StackShape
  <1>2. Groups(stack) = {Len(stack)} /\ stack[Len(stack)] = Top
    BY <1>1, GroupOnTop DEF Top
  <1>3. /\ setting \in Settings /\ setting.followups \in Nat /\ setting.budget \in Nat
        /\ setting.capture \in BOOLEAN /\ setting.v3 \in BOOLEAN
        /\ limit \in Nat /\ capturing \in BOOLEAN
    BY SettingParts DEF ContainedInv, Switches
  <1>4. Top.base.calls \in Nat
    BY <1>1, <1>3, GroupOnTop
  <1>5. CASE TryProgram
    <2> DEFINE f == ProgramFrame(Top.all[Top.at])
    <2>1. /\ setting.v3 = TRUE /\ calls' = Top.base.calls /\ enabled' = FALSE
          /\ stack' = Append(stack, f) /\ pc' = "step"
          /\ limit' = limit /\ capturing' = capturing
      BY <1>3, <1>5 DEF TryProgram
    <2>2. FrameOK(f, setting) /\ f.kind = "program"
      BY DEF ProgramFrame, FrameOK
    <2> HIDE DEF f
    <2>3. /\ FramesOK(stack', setting) /\ stack' # <<>>
          /\ stack'[Len(stack')] = f
          /\ \A i \in DOMAIN stack : stack'[i] = stack[i]
          /\ Groups(stack') = Groups(stack)
      <3>1. FramesOK(stack, setting) /\ f.kind # "group"
        BY <2>2 DEF ContainedInv, StackShape
      <3> DEFINE t == Append(stack, f)
      <3>2. /\ FramesOK(t, setting) /\ t # <<>> /\ t[Len(t)] = f
            /\ \A i \in DOMAIN stack : t[i] = stack[i]
            /\ Groups(t) = Groups(stack)
        BY <2>2, <3>1, PushFrame
      <3>3. stack' = t
        BY <2>1
      <3> HIDE DEF t
      <3> QED
        BY <3>2, <3>3
    <2>4. stack'[Len(stack)] = Top
      BY <1>1, <1>2, <2>3, GroupOnTop
    <2>5. StackShape'
      BY <1>1, <1>2, <2>1, <2>2, <2>3 DEF StackShape, Top
    <2>6. Switches' /\ HeldBack' /\ NoTrace'
      BY <1>1, <1>2, <1>3, <1>4, <2>1, <2>3, <2>4 DEF Switches, HeldBack, NoTrace
    <2> QED
      BY <2>5, <2>6 DEF ContainedInv
  <1>6. CASE TryAction
    <2>1. /\ setting.v3 = FALSE /\ calls' = Top.base.calls /\ capturing' = FALSE
          /\ enabled' = (setting.followups > 0)
          /\ limit' = Top.base.calls + setting.followups
          /\ stack' = stack /\ pc' = "stage"
      BY <1>3, <1>6 DEF TryAction, ApplyRecoveryAction
    <2>2. StackShape'
      BY <1>1, <2>1 DEF ContainedInv, StackShape
    <2>3. Switches'
      <3>1. enabled' \in BOOLEAN
        BY <2>1
      <3>2. calls' \in Nat /\ limit' \in Nat
        BY <1>3, <1>4, <2>1
      <3> QED
        BY <1>1, <1>3, <2>1, <3>1, <3>2 DEF Switches
    <2>4. HeldBack' /\ NoTrace'
      BY <1>1, <1>2, <1>3, <1>4, <2>1 DEF HeldBack, NoTrace
    <2> QED
      BY <2>2, <2>3, <2>4 DEF ContainedInv
  <1> QED
    BY <1>5, <1>6

LEMMA EndTrialsContained ==
    ContainedInv /\ (EndProgramTrials \/ EndActionTrials) => ContainedInv'
  <1> SUFFICES ASSUME ContainedInv, EndProgramTrials \/ EndActionTrials PROVE ContainedInv'
    OBVIOUS
  <1>1. /\ stack # <<>> /\ Top.kind = "group" /\ setting' = setting
        /\ calls' = Top.base.calls /\ enabled' = Top.base.enabled
        /\ limit' = Top.base.limit /\ capturing' = Top.base.capturing
    BY DEF EndProgramTrials, EndActionTrials, PutBack, ContainedInv, StackShape
  <1>2. /\ setting \in Settings /\ setting.budget \in Nat /\ setting.capture \in BOOLEAN
    BY SettingParts DEF ContainedInv, Switches
  <1>3. /\ Groups(stack) = {Len(stack)} /\ FramesOK(stack, setting)
        /\ calls' \in 0 .. setting.budget /\ enabled' = TRUE
        /\ limit' = setting.budget /\ capturing' = setting.capture
    BY <1>1, GroupOnTop DEF ContainedInv, StackShape
  <1>4. /\ FramesOK(stack', setting) /\ Groups(stack') = {}
        /\ pc' # "trial"
        /\ pc' = "step" => stack' # <<>> /\ stack'[Len(stack')].kind = "program"
    <2>1. CASE stack' = Pop /\ pc' \notin {"trial", "step"}
      BY <1>1, <1>3, <2>1, PopFrame DEF Pop
    <2>2. CASE /\ \E p : stack' = SetTop(ProgramFrame(p))
               /\ pc' = "step"
      <3>1. PICK p : stack' = SetTop(ProgramFrame(p))
        BY <2>2
      <3> DEFINE f == ProgramFrame(p)
      <3>2. FrameOK(f, setting) /\ f.kind = "program"
        BY DEF ProgramFrame, FrameOK
      <3>3. stack' = SetTop(f)
        BY <3>1
      <3> HIDE DEF f
      <3>4. /\ FramesOK(stack', setting) /\ stack' # <<>>
            /\ stack'[Len(stack')] = f
            /\ Groups(stack') = Groups(stack) \ {Len(stack)}
        BY <1>1, <1>3, <3>2, <3>3, SetFrame DEF SetTop, Pop
      <3> QED
        BY <1>3, <2>2, <3>2, <3>4
    <2>3. \/ stack' = Pop /\ pc' \notin {"trial", "step"}
          \/ /\ \E p : stack' = SetTop(ProgramFrame(p))
             /\ pc' = "step"
      <3>1. CASE EndProgramTrials
        BY <3>1 DEF EndProgramTrials
      <3>2. CASE EndActionTrials
        BY <3>2 DEF EndActionTrials, ApplyRecoveryAction
      <3> QED
        BY <3>1, <3>2
    <2> QED
      BY <2>1, <2>2, <2>3
  <1>5. StackShape'
    BY <1>1, <1>4 DEF StackShape, Top
  <1>6. calls' \in Nat /\ limit' \in Nat /\ calls' <= limit'
    BY <1>2, <1>3
  <1>7. Switches' /\ HeldBack' /\ NoTrace'
    BY <1>1, <1>2, <1>3, <1>4, <1>6 DEF Switches, HeldBack, NoTrace
  <1> QED
    BY <1>5, <1>7 DEF ContainedInv

(***************************************************************************)
(* Recoveries.  One that opens a group finds none on the stack: in a trial *)
(* of programs recovery is off, in one of actions nothing is captured.     *)
(***************************************************************************)
LEMMA OpenGroup ==
    ASSUME ContainedInv, Groups(stack) = {}, calls < limit, calls' = calls + 1,
           UNCHANGED <<setting, enabled, limit, capturing>>, pc' = "trial",
           NEW all, NEW pick, stack' = Append(stack, GroupFrame(all, pick, calls'))
    PROVE  ContainedInv'
  <1> DEFINE f == GroupFrame(all, pick, calls')
             t == Append(stack, f)
  <1>1. /\ enabled = TRUE /\ capturing = setting.capture
        /\ limit = setting.budget /\ calls <= limit
        /\ calls \in Nat /\ limit \in Nat /\ FramesOK(stack, setting)
    BY DEF ContainedInv, Switches, StackShape, NoTrace
  <1>2. calls' \in 0 .. setting.budget
    BY <1>1
  <1>3. FrameOK(f, setting) /\ f.kind = "group"
    BY <1>1, <1>2 DEF GroupFrame, FrameOK
  <1> HIDE DEF f
  <1>4. /\ FramesOK(t, setting) /\ t # <<>> /\ t[Len(t)] = f
        /\ Groups(t) = {Len(stack) + 1}
    BY <1>1, <1>3, PushFrame
  <1>5. stack' = t
    BY DEF f
  <1> HIDE DEF t
  <1>6. StackShape'
    <2>1. FramesOK(stack', setting')
      BY <1>4, <1>5
    <2>2. \A i, j \in Groups(stack') : i = j
      <3>1. Groups(stack') = {Len(stack) + 1}
        BY <1>4, <1>5
      <3> QED
        BY <3>1, Zenon
    <2>3. stack' # <<>> /\ stack'[Len(stack')].kind = "group"
      BY <1>3, <1>4, <1>5
    <2> QED
      BY <2>1, <2>2, <2>3 DEF StackShape, Top
  <1>7. Switches' /\ HeldBack' /\ NoTrace'
    BY <1>1, <1>4, <1>5 DEF ContainedInv, Switches, HeldBack, NoTrace
  <1> QED
    BY <1>6, <1>7 DEF ContainedInv

LEMMA RecoverByProgramContained == ContainedInv /\ RecoverByProgram => ContainedInv'
  <1> SUFFICES ASSUME ContainedInv, RecoverByProgram PROVE ContainedInv'
    OBVIOUS
  <1>1. /\ pc = "fail" /\ enabled /\ calls < limit /\ setting.v3 = TRUE
        /\ calls' = calls + 1 /\ UNCHANGED <<setting, enabled, limit, capturing>>
    BY DEF RecoverByProgram, Recovering
  <1>2. Groups(stack) = {}
    BY <1>1 DEF ContainedInv, HeldBack
  <1>3. /\ enabled = TRUE /\ capturing = setting.capture
        /\ limit = setting.budget /\ calls \in Nat /\ limit \in Nat
        /\ FramesOK(stack, setting) /\ setting \in Settings
    BY <1>2 DEF ContainedInv, Switches, StackShape, NoTrace
  <1>4. CASE /\ \E c : stack' = Append(stack, GroupFrame(c, 0, calls'))
             /\ pc' = "trial"
    <2>1. PICK c : stack' = Append(stack, GroupFrame(c, 0, calls'))
      BY <1>4
    <2> QED
      BY <1>1, <1>2, <1>4, <2>1, OpenGroup
  <1>5. CASE stack' = stack /\ pc' = "return"
    <2>1. StackShape'
      BY <1>1, <1>5 DEF ContainedInv, StackShape
    <2>2. Switches' /\ HeldBack' /\ NoTrace'
      BY <1>1, <1>2, <1>3, <1>5 DEF ContainedInv, Switches, HeldBack, NoTrace
    <2> QED
      BY <2>1, <2>2 DEF ContainedInv
  <1>6. CASE /\ \E p : stack' = Append(stack, ProgramFrame(p))
             /\ pc' = "step"
    <2>1. PICK p : stack' = Append(stack, ProgramFrame(p))
      BY <1>6
    <2> DEFINE f == ProgramFrame(p)
               t == Append(stack, f)
    <2>2. FrameOK(f, setting) /\ f.kind = "program"
      BY DEF ProgramFrame, FrameOK
    <2> HIDE DEF f
    <2>3. FramesOK(t, setting) /\ t # <<>> /\ t[Len(t)] = f /\ Groups(t) = {}
      BY <1>2, <1>3, <2>2, PushFrame
    <2>4. stack' = t
      BY <2>1 DEF f
    <2> HIDE DEF t
    <2>5. StackShape'
      BY <1>1, <1>6, <2>2, <2>3, <2>4 DEF StackShape, Top
    <2>6. Switches' /\ HeldBack' /\ NoTrace'
      BY <1>1, <1>3, <2>3, <2>4 DEF ContainedInv, Switches, HeldBack, NoTrace
    <2> QED
      BY <2>5, <2>6 DEF ContainedInv
  <1>7. \/ /\ \E c : stack' = Append(stack, GroupFrame(c, 0, calls'))
           /\ pc' = "trial"
        \/ stack' = stack /\ pc' = "return"
        \/ /\ \E p : stack' = Append(stack, ProgramFrame(p))
           /\ pc' = "step"
    BY DEF RecoverByProgram, ExecuteLive
  <1> QED
    BY <1>4, <1>5, <1>6, <1>7

LEMMA RecoverByActionContained == ContainedInv /\ RecoverByAction => ContainedInv'
  <1> SUFFICES ASSUME ContainedInv, RecoverByAction PROVE ContainedInv'
    OBVIOUS
  <1>1. /\ pc = "fail" /\ enabled /\ calls < limit /\ setting.v3 = FALSE
        /\ calls' = calls + 1 /\ UNCHANGED <<setting, enabled, limit, capturing>>
    BY DEF RecoverByAction, Recovering
  <1>2. CASE capturing /\ pc' = "trial"
             /\ \E i : stack' = Append(stack, GroupFrame(Actions, i, calls'))
    <2>1. Groups(stack) = {}
      BY <1>1, <1>2 DEF ContainedInv, HeldBack
    <2>2. PICK i : stack' = Append(stack, GroupFrame(Actions, i, calls'))
      BY <1>2
    <2> QED
      BY <1>1, <1>2, <2>1, <2>2, OpenGroup
  <1>3. CASE stack' = stack /\ pc' = "stage"
    <2>1. StackShape'
      BY <1>1, <1>3 DEF ContainedInv, StackShape
    <2>2. calls' \in Nat /\ calls' <= limit
      BY <1>1 DEF ContainedInv, Switches
    <2>3. Switches' /\ NoTrace' /\ HeldBack'
      BY <1>1, <1>3, <2>2 DEF ContainedInv, Switches, HeldBack, NoTrace
    <2> QED
      BY <2>1, <2>3 DEF ContainedInv
  <1>4. \/ /\ capturing /\ pc' = "trial"
           /\ \E i : stack' = Append(stack, GroupFrame(Actions, i, calls'))
        \/ stack' = stack /\ pc' = "stage"
    BY DEF RecoverByAction, ApplyRecoveryAction
  <1> QED
    BY <1>2, <1>3, <1>4

LEMMA StepContained == ContainedInv /\ [Next]_vars => ContainedInv'
  <1> SUFFICES ASSUME ContainedInv, [Next]_vars PROVE ContainedInv'
    OBVIOUS
  <1>1. CASE UNCHANGED vars
    BY <1>1 DEF vars, ContainedInv, Switches, StackShape, HeldBack, NoTrace, Top
  <1>2. CASE Next
    <2>1. CASE RunLocator \/ RunPatcher \/ VerifierPasses \/ VerifierFails \/ GiveUp
                 \/ ExecReplay \/ Finish
      BY <2>1, StagesContained
    <2>2. CASE ExecInspect \/ ExecEscalate \/ ExecRevoke \/ ExecRollback
      BY <2>2, ProgramsContained
    <2>3. CASE EndProgram
      BY <2>3, EndProgramContained
    <2>4. CASE ReturnToProgram
      BY <2>4, ReturnToProgramContained
    <2>5. CASE ReturnToTrials
      BY <2>5, ReturnToTrialsContained
    <2>6. CASE TryProgram \/ TryAction
      BY <2>6, TryContained
    <2>7. CASE EndProgramTrials \/ EndActionTrials
      BY <2>7, EndTrialsContained
    <2>8. CASE RecoverByProgram
      BY <2>8, RecoverByProgramContained
    <2>9. CASE RecoverByAction
      BY <2>9, RecoverByActionContained
    <2> QED
      BY <1>2, <2>1, <2>2, <2>3, <2>4, <2>5, <2>6, <2>7, <2>8, <2>9 DEF Next
  <1> QED
    BY <1>1, <1>2

LEMMA ContainedInvSuffices == ContainedInv => TrialsAreContained
  <1> SUFFICES ASSUME ContainedInv PROVE TrialsAreContained
    OBVIOUS
  <1>1. GroupFrames = Groups(stack) /\ (InTrial <=> Groups(stack) # {})
    BY DEF GroupFrames, Groups, InTrial
  <1>2. Cardinality(Groups(stack)) <= 1
    <2>1. CASE Groups(stack) = {}
      BY <2>1, FS_EmptySet
    <2>2. ASSUME NEW i \in Groups(stack)
          PROVE  Cardinality(Groups(stack)) <= 1
      <3>1. Groups(stack) = {i}
        BY <2>2 DEF ContainedInv, StackShape
      <3> QED
        BY <3>1, FS_Singleton
    <2> QED
      BY <2>1, <2>2
  <1>3. setting \in Settings /\ setting.budget \in Nat /\ setting.followups \in Nat
    BY SettingParts DEF ContainedInv, Switches
  <1>4. \A i \in Groups(stack) : pc # "trial" =>
          IF setting.v3 THEN ~enabled /\ calls = stack[i].base.calls
          ELSE ~capturing /\ calls <= stack[i].base.calls + setting.followups
    BY DEF ContainedInv, HeldBack
  <1>5. Groups(stack) = {} =>
          /\ enabled /\ capturing = setting.capture
          /\ limit = setting.budget /\ calls <= setting.budget
    BY DEF ContainedInv, NoTrace
  <1> QED
    BY <1>1, <1>2, <1>4, <1>5 DEF TrialsAreContained

(* At most one group of trials is on the stack, held back while a trial    *)
(* runs; outside of trials the switches are as the run was set up, and the *)
(* calls within its budget.                                                *)
THEOREM TrialsContained == Spec => []TrialsAreContained
  <1>1. Spec => []ContainedInv
    BY InitContained, StepContained, PTL DEF Spec
  <1> QED
    BY <1>1, ContainedInvSuffices, PTL

(***************************************************************************)
(* A success is verified.  What a call returns, and what a program has for *)
(* its last replay, is only TRUE when the last verdict was a pass on the   *)
(* tree, unless a later ROLLBACK replaced that.                            *)
(***************************************************************************)
Verified == judged.pass = TRUE /\ (judged.tree = tree \/ judged.undone = TRUE)

VerifiedInv ==
    Groups(stack) = {} =>
        /\ pc \in {"return", "done"} /\ ret = TRUE => Verified
        /\ pc = "step" /\ Top.ok = TRUE => Verified

SuccessInv ==
    /\ VerifiedInv
    /\ {"pass", "tree", "undone"} \subseteq DOMAIN judged
    /\ pc = "done" => stack = <<>>

LEMMA InitSuccess == Init => SuccessInv
  BY DEF Init, SuccessInv, VerifiedInv

LEMMA VerdictSuccess ==
    ContainedInv /\ SuccessInv /\ (VerifierPasses \/ VerifierFails) => SuccessInv'
  <1> SUFFICES ASSUME SuccessInv, VerifierPasses \/ VerifierFails
               PROVE  SuccessInv'
    OBVIOUS
  <1>1. stack' = stack /\ pc' \in {"return", "fail"} /\ tree' = tree
    BY DEF VerifierPasses, VerifierFails
  <1>2. {"pass", "tree", "undone"} \subseteq DOMAIN judged'
    BY DEF VerifierPasses, VerifierFails, Judge, SuccessInv
  <1>3. ASSUME Groups(stack) = {}, pc' = "return"
        PROVE  Verified'
    <2>1. ~InTrial
      BY <1>3 DEF InTrial, GroupFrames, Groups
    <2>2. judged' = [pass |-> TRUE, tree |-> tree, undone |-> FALSE]
      BY <1>3, <2>1 DEF VerifierPasses, VerifierFails, Judge
    <2> QED
      BY <1>1, <2>2 DEF Verified
  <1> QED
    BY <1>1, <1>2, <1>3 DEF SuccessInv, VerifiedInv

(* Steps of the other stages, of the switches and of v2 recoveries.        *)
LEMMA QuietSuccess ==
    ASSUME SuccessInv, judged' = judged, pc' \notin {"return", "step", "done"}
    PROVE  SuccessInv'
  BY DEF SuccessInv, VerifiedInv

LEMMA StepSuccess ==
    ContainedInv /\ SuccessInv /\ (ExecInspect \/ ExecEscalate \/ ExecRevoke \/ ExecRollback)
        => SuccessInv'
  <1> SUFFICES ASSUME ContainedInv, SuccessInv,
                      ExecInspect \/ ExecEscalate \/ ExecRevoke \/ ExecRollback
               PROVE  SuccessInv'
    OBVIOUS
  <1>1. pc = "step" /\ pc' = "step" /\ \E h : StepDone(h)
    BY DEF ExecInspect, ExecEscalate, ExecRevoke, ExecRollback, Executing
  <1>2. PICK h : StepDone(h)
    BY <1>1
  <1>3. stack # <<>> /\ Top.kind = "program"
    BY <1>1 DEF ContainedInv, StackShape
  <1> DEFINE f == [Top EXCEPT !.at = @ + 1, !.hinted = @ \/ h]
  <1>4. {"kind", "ok"} \subseteq DOMAIN f /\ f.kind = "program" /\ f.ok = Top.ok
    BY <1>3, ProgramOnTop
  <1>5. stack' = SetTop(f)
    BY <1>2 DEF StepDone
  <1> HIDE DEF f
  <1>6. Groups(stack') = Groups(stack) /\ stack'[Len(stack')] = f
    BY <1>3, <1>4, <1>5, ProgramReplaced
  <1>7. Top'.ok = Top.ok
    BY <1>4, <1>6 DEF Top
  <1>8. {"pass", "tree", "undone"} \subseteq DOMAIN judged'
    BY DEF SuccessInv, ExecInspect, ExecEscalate, ExecRevoke, ExecRollback, history
  <1>9. ASSUME Groups(stack) = {}, Verified
        PROVE  Verified'
    <2>1. CASE ExecInspect \/ ExecEscalate \/ ExecRevoke
      BY <1>9, <2>1 DEF ExecInspect, ExecEscalate, ExecRevoke, history, Verified
    <2>2. CASE ExecRollback
      <3>1. ~InTrial
        BY <1>9 DEF InTrial, GroupFrames, Groups
      <3>2. judged'.undone = TRUE /\ judged'.pass = judged.pass
        BY <2>2, <3>1 DEF ExecRollback, SuccessInv
      <3> QED
        BY <1>9, <3>2 DEF Verified
    <2> QED
      BY <2>1, <2>2
  <1> QED
    BY <1>1, <1>6, <1>7, <1>8, <1>9 DEF SuccessInv, VerifiedInv

LEMMA EndProgramSuccess == ContainedInv /\ SuccessInv /\ EndProgram => SuccessInv'
  <1> SUFFICES ASSUME ContainedInv, SuccessInv, EndProgram PROVE SuccessInv'
    OBVIOUS
  <1>1. /\ pc = "step" /\ pc' = "return" /\ stack' = Pop /\ ret' = Top.ok
        /\ judged' = judged /\ tree' = tree
    BY DEF EndProgram, history
  <1>2. stack # <<>> /\ Top.kind = "program" /\ FramesOK(stack, setting)
    BY <1>1 DEF ContainedInv, StackShape
  <1>3. Groups(stack') = Groups(stack)
    <2>1. Groups(stack') = Groups(stack) \ {Len(stack)}
      BY <1>1, <1>2, PopFrame DEF Pop
    <2> QED
      BY <1>2, <2>1 DEF Groups, Top
  <1> QED
    BY <1>1, <1>3 DEF SuccessInv, VerifiedInv, Verified

LEMMA ReturnToProgramSuccess == ContainedInv /\ SuccessInv /\ ReturnToProgram => SuccessInv'
  <1> SUFFICES ASSUME ContainedInv, SuccessInv, ReturnToProgram PROVE SuccessInv'
    OBVIOUS
  <1> DEFINE f == [Top EXCEPT !.at = @ + 1, !.ok = ret, !.hinted = TRUE]
  <1>1. /\ pc = "return" /\ pc' = "step" /\ judged' = judged /\ tree' = tree
        /\ stack # <<>> /\ Top.kind = "program" /\ stack' = SetTop(f)
    BY DEF ReturnToProgram, history
  <1>2. {"kind", "ok"} \subseteq DOMAIN f /\ f.kind = "program" /\ f.ok = ret
    BY <1>1, ProgramOnTop
  <1> HIDE DEF f
  <1>3. Groups(stack') = Groups(stack) /\ Top'.ok = ret
    BY <1>1, <1>2, ProgramReplaced DEF Top
  <1> QED
    BY <1>1, <1>3 DEF SuccessInv, VerifiedInv, Verified

(* A recovery that opens no trials starts a program with no success yet,   *)
(* or has none.                                                            *)
LEMMA NoSuccessYet ==
    ASSUME ContainedInv, SuccessInv, judged' = judged,
           \/ pc' = "return" /\ ret' = FALSE
           \/ pc' = "step" /\ Top'.ok = FALSE
    PROVE  SuccessInv'
  BY DEF SuccessInv, VerifiedInv

LEMMA TrialSuccess ==
    ContainedInv /\ SuccessInv /\ (ReturnToTrials \/ TryProgram \/ TryAction) => SuccessInv'
  <1> SUFFICES ASSUME ContainedInv, SuccessInv, ReturnToTrials \/ TryProgram \/ TryAction
               PROVE  SuccessInv'
    OBVIOUS
  <1>1. judged' = judged /\ pc' # "done" /\ stack # <<>> /\ Top.kind = "group"
    BY DEF ReturnToTrials, TryProgram, TryAction, ApplyRecoveryAction, history,
           ContainedInv, StackShape
  <1>2. Len(stack) \in Groups(stack) /\ FramesOK(stack, setting)
    BY <1>1, GroupOnTop DEF ContainedInv, StackShape
  <1>3. CASE ReturnToTrials \/ TryAction
    BY <1>1, <1>3, QuietSuccess DEF ReturnToTrials, TryAction, ApplyRecoveryAction
  <1>4. CASE TryProgram
    <2> DEFINE f == ProgramFrame(Top.all[Top.at])
               t == Append(stack, f)
    <2>1. FrameOK(f, setting) /\ f.kind # "group"
      BY DEF ProgramFrame, FrameOK
    <2> HIDE DEF f
    <2>2. Groups(t) = Groups(stack)
      BY <1>2, <2>1, PushFrame
    <2>3. stack' = t
      BY <1>4 DEF TryProgram, f
    <2>4. Groups(stack') # {}
      BY <1>2, <2>2, <2>3
    <2> QED
      BY <1>1, <2>4 DEF SuccessInv, VerifiedInv
  <1> QED
    BY <1>3, <1>4

LEMMA LiveSuccess ==
    ContainedInv /\ SuccessInv /\ (EndProgramTrials \/ RecoverByProgram) => SuccessInv'
  <1> SUFFICES ASSUME ContainedInv, SuccessInv, EndProgramTrials \/ RecoverByProgram
               PROVE  SuccessInv'
    OBVIOUS
  <1>1. FramesOK(stack, setting)
    BY DEF ContainedInv, StackShape
  <1>2. judged' = judged
    BY DEF EndProgramTrials, RecoverByProgram, history
  <1>3. ASSUME NEW p
        PROVE  /\ FrameOK(ProgramFrame(p), setting)
               /\ ProgramFrame(p).ok = FALSE
    BY DEF ProgramFrame, FrameOK
  <1>4. ASSUME NEW p, stack # <<>>, stack' = SetTop(ProgramFrame(p))
        PROVE  Top'.ok = FALSE
    <2> DEFINE f == ProgramFrame(p)
               t == Append(SubSeq(stack, 1, Len(stack) - 1), f)
    <2>1. FrameOK(f, setting) /\ f.ok = FALSE
      BY <1>3
    <2> HIDE DEF f
    <2>2. t[Len(t)] = f
      BY <1>1, <1>4, <2>1, SetFrame
    <2>3. stack' = t
      BY <1>4 DEF SetTop, Pop, f
    <2> QED
      BY <2>1, <2>2, <2>3 DEF Top
  <1>5. ASSUME NEW p, stack' = Append(stack, ProgramFrame(p))
        PROVE  Top'.ok = FALSE
    <2> DEFINE f == ProgramFrame(p)
               t == Append(stack, f)
    <2>1. FrameOK(f, setting) /\ f.ok = FALSE
      BY <1>3
    <2> HIDE DEF f
    <2>2. t[Len(t)] = f
      BY <1>1, <2>1, PushFrame
    <2>3. stack' = t
      BY <1>5 DEF f
    <2> QED
      BY <2>1, <2>2, <2>3 DEF Top
  <1>6. CASE EndProgramTrials
    <2>1. stack # <<>>
      BY <1>6 DEF EndProgramTrials, PutBack, ContainedInv, StackShape
    <2>2. \/ pc' = "return" /\ ret' = FALSE
          \/ pc' = "step" /\ \E p : stack' = SetTop(ProgramFrame(p))
      BY <1>6 DEF EndProgramTrials
    <2> QED
      BY <1>2, <1>4, <2>1, <2>2, NoSuccessYet
  <1>7. CASE RecoverByProgram
    <2>1. \/ pc' = "trial"
          \/ pc' = "return" /\ ret' = FALSE
          \/ pc' = "step" /\ \E p : stack' = Append(stack, ProgramFrame(p))
      BY <1>7 DEF RecoverByProgram, ExecuteLive
    <2> QED
      BY <1>2, <1>5, <2>1, NoSuccessYet, QuietSuccess
  <1> QED
    BY <1>6, <1>7

LEMMA NextSuccess == ContainedInv /\ SuccessInv /\ [Next]_vars => SuccessInv'
  <1> SUFFICES ASSUME ContainedInv, SuccessInv, [Next]_vars PROVE SuccessInv'
    OBVIOUS
  <1>1. CASE UNCHANGED vars
    BY <1>1 DEF vars, SuccessInv, VerifiedInv, Verified, Top, history
  <1>2. CASE Next
    <2>1. CASE RunLocator \/ RunPatcher \/ ExecReplay
      BY <2>1, QuietSuccess DEF RunLocator, RunPatcher, ExecReplay, history
    <2>2. CASE RecoverByAction \/ EndActionTrials
      BY <2>2, QuietSuccess
         DEF RecoverByAction, EndActionTrials, Recovering, ApplyRecoveryAction, history
    <2>3. CASE VerifierPasses \/ VerifierFails
      BY <2>3, VerdictSuccess
    <2>4. CASE GiveUp
      BY <2>4, NoSuccessYet DEF GiveUp, history
    <2>5. CASE Finish
      BY <2>5 DEF Finish, history, SuccessInv, VerifiedInv, Verified
    <2>6. CASE ExecInspect \/ ExecEscalate \/ ExecRevoke \/ ExecRollback
      BY <2>6, StepSuccess
    <2>7. CASE EndProgram
      BY <2>7, EndProgramSuccess
    <2>8. CASE ReturnToProgram
      BY <2>8, ReturnToProgramSuccess
    <2>9. CASE ReturnToTrials \/ TryProgram \/ TryAction
      BY <2>9, TrialSuccess
    <2>10. CASE EndProgramTrials \/ RecoverByProgram
      BY <2>10, LiveSuccess
    <2> QED
      BY <1>2, <2>1, <2>2, <2>3, <2>4, <2>5, <2>6, <2>7, <2>8, <2>9, <2>10 DEF Next
  <1> QED
    BY <1>1, <1>2

LEMMA SuccessInvSuffices == SuccessInv => SuccessIsVerified
  <1> SUFFICES ASSUME SuccessInv, pc = "done", ret
               PROVE  judged.pass /\ (judged.tree = tree \/ judged.undone)
    BY DEF SuccessIsVerified
  <1>1. Groups(stack) = {}
    BY DEF SuccessInv, Groups
  <1> QED
    BY <1>1 DEF SuccessInv, VerifiedInv, Verified

(* A run that returns success had its last verdict pass, on the tree that  *)
(* is there or on one that a later ROLLBACK of the program replaced, for   *)
(* every program and however deep the recoveries nest.                     *)
THEOREM SuccessesAreVerified == Spec => []SuccessIsVerified
  <1>1. Spec => []ContainedInv
    BY InitContained, StepContained, PTL DEF Spec
  <1>2. Spec => []SuccessInv
    BY <1>1, InitSuccess, NextSuccess, PTL DEF Spec
  <1> QED
    BY <1>2, SuccessInvSuffices, PTL

(***************************************************************************)
(* A run of Coordinator is, step by step, a run of RecoveryLoop: for every *)
(* setting, every program and every number of candidates.                  *)
(***************************************************************************)

(***************************************************************************)
(* The calls charged to the run, as a function of the stack.               *)
(***************************************************************************)
Charged(s, c) ==
    IF Groups(s) = {} THEN c ELSE s[CHOOSE i \in Groups(s) : TRUE].base.calls

LEMMA ChargedIsLive ==
    LiveCalls = Charged(stack, calls) /\ LiveCalls' = Charged(stack', calls')
  BY DEF LiveCalls, Charged, InTrial, GroupFrames, Groups

(* They stay while the groups on the stack do.                             *)
LEMMA ChargedStays ==
    ASSUME NEW s, NEW t, NEW c, Groups(t) = Groups(s),
           \A i \in Groups(s) : t[i].base.calls = s[i].base.calls
    PROVE  Charged(t, c) = Charged(s, c)
  <1>1. CASE Groups(s) = {}
    BY <1>1 DEF Charged
  <1>2. CASE Groups(s) # {}
    <2> DEFINE i == CHOOSE j \in Groups(s) : TRUE
    <2>1. i \in Groups(s)
      BY <1>2
    <2> QED
      BY <1>2, <2>1 DEF Charged
  <1> QED
    BY <1>1, <1>2

(* Inside of trials they are those the group remembers.                    *)
LEMMA ChargedInside ==
    ASSUME NEW s, NEW c, NEW i, Groups(s) = {i}
    PROVE  Charged(s, c) = s[i].base.calls
  BY DEF Charged

(* What RecoveryLoop sees of a step.                                       *)
LEMMA Unseen ==
    ASSUME setting' = setting, judged'.pass = judged.pass, pc # "done", pc' # "done",
           Charged(stack', calls') = Charged(stack, calls)
    PROVE  UNCHANGED Loop!loopVars
  BY ChargedIsLive DEF Loop!loopVars

LEMMA SameStackUnseen ==
    ASSUME setting' = setting, judged'.pass = judged.pass, pc # "done", pc' # "done",
           stack' = stack, calls' = calls
    PROVE  UNCHANGED Loop!loopVars
  BY Unseen

(* One more call, outside of trials, is a recovery within the budget.      *)
LEMMA SeenAsRecover ==
    ASSUME ContainedInv, Groups(stack) = {}, setting' = setting, judged' = judged,
           pc # "done", pc' # "done", calls < limit,
           Charged(stack', calls') = calls + 1
    PROVE  Loop!Recover
  <1>1. limit = setting.budget
    BY DEF ContainedInv, NoTrace
  <1>2. LiveCalls = calls /\ LiveCalls' = calls + 1
    BY ChargedIsLive DEF Charged
  <1> QED
    BY <1>1, <1>2 DEF Loop!Recover

(***************************************************************************)
(* The actions.                                                            *)
(***************************************************************************)
LEMMA StagesUnseen ==
    ASSUME RunLocator \/ RunPatcher \/ GiveUp \/ ExecReplay
    PROVE  UNCHANGED Loop!loopVars
  <1>1. /\ UNCHANGED <<setting, stack, calls>> /\ judged'.pass = judged.pass
        /\ pc # "done" /\ pc' # "done"
    <2>1. CASE RunLocator
      BY <2>1 DEF RunLocator, flags, history
    <2>2. CASE RunPatcher
      BY <2>2 DEF RunPatcher, flags
    <2>3. CASE GiveUp
      BY <2>3 DEF GiveUp, flags, history
    <2>4. CASE ExecReplay
      BY <2>4 DEF ExecReplay, Executing, flags, history
    <2> QED
      BY <2>1, <2>2, <2>3, <2>4
  <1> QED
    BY <1>1, SameStackUnseen

(* A verdict counts outside of trials only.                                *)
LEMMA VerdictSeen ==
    ASSUME VerifierPasses \/ VerifierFails
    PROVE  Loop!Verify \/ UNCHANGED Loop!loopVars
  <1>1. /\ UNCHANGED <<setting, stack, calls>> /\ pc = "stage" /\ pc' \in {"return", "fail"}
        /\ Judge(TRUE) \/ Judge(FALSE)
    BY DEF VerifierPasses, VerifierFails, flags
  <1>2. CASE InTrial
    BY <1>1, <1>2, SameStackUnseen DEF Judge
  <1>3. CASE ~InTrial
    <2>1. \/ judged' = [pass |-> TRUE, tree |-> tree, undone |-> FALSE]
          \/ judged' = [pass |-> FALSE, tree |-> tree, undone |-> FALSE]
      BY <1>1, <1>3 DEF Judge
    <2>2. judged'.pass \in BOOLEAN
      <3>1. judged'.pass = TRUE \/ judged'.pass = FALSE
        BY <2>1
      <3> QED
        BY <3>1
    <2>3. LiveCalls' = LiveCalls
      BY <1>1, ChargedIsLive
    <2> QED
      BY <1>1, <2>2, <2>3 DEF Loop!Verify
  <1> QED
    BY <1>2, <1>3

(* A program that goes on leaves the groups below it alone.                *)
LEMMA ProgramUnseen ==
    ASSUME ContainedInv, UNCHANGED <<setting, calls>>, judged'.pass = judged.pass,
           pc # "done", pc' # "done", stack # <<>>, Top.kind = "program",
           NEW f, {"kind", "ok"} \subseteq DOMAIN f, f.kind = "program", stack' = SetTop(f)
    PROVE  UNCHANGED Loop!loopVars
  <1>1. Groups(stack') = Groups(stack) /\ \A i \in Groups(stack) : stack'[i] = stack[i]
    BY ProgramReplaced
  <1>2. Charged(stack', calls) = Charged(stack, calls)
    BY <1>1, ChargedStays
  <1> QED
    BY <1>2, Unseen

LEMMA StepsUnseen ==
    ASSUME ContainedInv, SuccessInv,
           ExecInspect \/ ExecEscalate \/ ExecRevoke \/ ExecRollback
    PROVE  UNCHANGED Loop!loopVars
  <1>1. /\ pc = "step" /\ pc' = "step" /\ UNCHANGED <<setting, calls>>
        /\ \E h : StepDone(h)
    BY DEF ExecInspect, ExecEscalate, ExecRevoke, ExecRollback, Executing, flags
  <1>2. judged'.pass = judged.pass
    BY DEF ExecInspect, ExecEscalate, ExecRevoke, ExecRollback, history, SuccessInv
  <1>3. PICK h : StepDone(h)
    BY <1>1
  <1>4. stack # <<>> /\ Top.kind = "program"
    BY <1>1 DEF ContainedInv, StackShape
  <1> DEFINE f == [Top EXCEPT !.at = @ + 1, !.hinted = @ \/ h]
  <1>5. {"kind", "ok"} \subseteq DOMAIN f /\ f.kind = "program"
    BY <1>4, ProgramOnTop
  <1>6. stack' = SetTop(f)
    BY <1>3 DEF StepDone
  <1> HIDE DEF f
  <1> QED
    BY <1>1, <1>2, <1>4, <1>5, <1>6, ProgramUnseen

LEMMA ReturnToProgramUnseen ==
    ASSUME ContainedInv, ReturnToProgram
    PROVE  UNCHANGED Loop!loopVars
  <1> DEFINE f == [Top EXCEPT !.at = @ + 1, !.ok = ret, !.hinted = TRUE]
  <1>1. /\ pc = "return" /\ pc' = "step" /\ judged' = judged /\ UNCHANGED <<setting, calls>>
        /\ stack # <<>> /\ Top.kind = "program" /\ stack' = SetTop(f)
    BY DEF ReturnToProgram, flags, history
  <1>2. {"kind", "ok"} \subseteq DOMAIN f /\ f.kind = "program"
    BY <1>1, ProgramOnTop
  <1> HIDE DEF f
  <1> QED
    BY <1>1, <1>2, ProgramUnseen

LEMMA EndProgramUnseen ==
    ASSUME ContainedInv, EndProgram
    PROVE  UNCHANGED Loop!loopVars
  <1>1. /\ pc = "step" /\ pc' = "return" /\ judged' = judged /\ UNCHANGED <<setting, calls>>
        /\ stack' = Pop
    BY DEF EndProgram, flags, history
  <1>2. stack # <<>> /\ Top.kind = "program" /\ FramesOK(stack, setting)
    BY <1>1 DEF ContainedInv, StackShape
  <1>3. /\ \A i \in DOMAIN stack' : stack'[i] = stack[i]
        /\ Groups(stack') = Groups(stack) \ {Len(stack)}
    BY <1>1, <1>2, PopFrame DEF Pop
  <1>4. Groups(stack') = Groups(stack) /\ Groups(stack') \subseteq DOMAIN stack'
    BY <1>2, <1>3 DEF Groups, Top
  <1>5. Charged(stack', calls) = Charged(stack, calls)
    BY <1>3, <1>4, ChargedStays
  <1> QED
    BY <1>1, <1>5, Unseen

(* Between two trials, and at their end, the calls are what the group      *)
(* remembers.                                                              *)
LEMMA TrialsUnseen ==
    ASSUME ContainedInv, TryProgram \/ TryAction \/ ReturnToTrials
    PROVE  UNCHANGED Loop!loopVars
  <1>1. /\ stack # <<>> /\ Top.kind = "group" /\ setting' = setting /\ judged' = judged
        /\ pc # "done" /\ pc' # "done"
    BY DEF TryProgram, TryAction, ReturnToTrials, ApplyRecoveryAction, history,
           ContainedInv, StackShape
  <1>2. /\ Groups(stack) = {Len(stack)} /\ Len(stack) \in DOMAIN stack
        /\ {"kind", "base"} \subseteq DOMAIN Top /\ FramesOK(stack, setting)
        /\ FrameOK(Top, setting)
    BY <1>1, GroupOnTop DEF ContainedInv, StackShape, FramesOK, Top
  <1>3. Groups(stack') = {Len(stack)} /\ stack'[Len(stack)].base = Top.base
    <2>1. CASE TryAction
      BY <1>2, <2>1 DEF TryAction, Top
    <2>2. CASE TryProgram
      <3> DEFINE f == ProgramFrame(Top.all[Top.at])
                 t == Append(stack, f)
      <3>1. FrameOK(f, setting) /\ f.kind # "group"
        BY DEF ProgramFrame, FrameOK
      <3> HIDE DEF f
      <3>2. FramesOK(stack, setting)
        BY <1>2
      <3>3. Groups(t) = Groups(stack) /\ \A i \in DOMAIN stack : t[i] = stack[i]
        <4>1. /\ FramesOK(t, setting) /\ t # <<>> /\ t[Len(t)] = f
              /\ \A i \in DOMAIN stack : t[i] = stack[i]
              /\ Groups(t) = Groups(stack)
          BY <3>1, <3>2, PushFrame
        <4> QED
          BY <4>1
      <3>4. stack' = t
        BY <2>2 DEF TryProgram, f
      <3> HIDE DEF t
      <3> QED
        BY <1>2, <3>3, <3>4 DEF Top
    <2>3. CASE ReturnToTrials
      <3> DEFINE f == [Top EXCEPT !.at = @ + 1]
                 t == Append(SubSeq(stack, 1, Len(stack) - 1), f)
      <3>1. {"kind", "base"} \subseteq DOMAIN f /\ f.kind = Top.kind /\ f.base = Top.base
        BY <1>2
      <3>2. FrameOK(f, setting) /\ f.kind = "group"
        BY <1>1, <1>2, <3>1 DEF FrameOK
      <3> HIDE DEF f
      <3>3. /\ t[Len(t)] = f /\ Len(t) = Len(stack)
            /\ Groups(t) = (Groups(stack) \ {Len(stack)}) \cup {Len(stack)}
        BY <1>1, <1>2, <3>2, SetFrame
      <3>4. stack' = t
        BY <2>3 DEF ReturnToTrials, SetTop, Pop, f
      <3> HIDE DEF t
      <3> QED
        BY <1>2, <3>1, <3>3, <3>4
    <2> QED
      BY <2>1, <2>2, <2>3
  <1>4. Charged(stack', calls') = Charged(stack, calls)
    <2>1. Charged(stack, calls) = Top.base.calls
      BY <1>2, ChargedInside DEF Top
    <2>2. Charged(stack', calls') = stack'[Len(stack)].base.calls
      BY <1>3, ChargedInside
    <2> QED
      BY <1>3, <2>1, <2>2
  <1> QED
    BY <1>1, <1>4, Unseen

LEMMA EndTrialsUnseen ==
    ASSUME ContainedInv, EndProgramTrials \/ EndActionTrials
    PROVE  UNCHANGED Loop!loopVars
  <1>1. /\ stack # <<>> /\ Top.kind = "group" /\ setting' = setting /\ judged' = judged
        /\ pc # "done" /\ pc' # "done" /\ calls' = Top.base.calls
    BY DEF EndProgramTrials, EndActionTrials, PutBack, ApplyRecoveryAction, history,
           ContainedInv, StackShape
  <1>2. Groups(stack) = {Len(stack)} /\ FramesOK(stack, setting)
    BY <1>1, GroupOnTop DEF ContainedInv, StackShape
  <1>3. Groups(stack') = {}
    <2>1. CASE stack' = Pop
      <3>1. Groups(stack') = Groups(stack) \ {Len(stack)}
        BY <1>1, <1>2, <2>1, PopFrame DEF Pop
      <3> QED
        BY <1>2, <3>1
    <2>2. ASSUME NEW p, stack' = SetTop(ProgramFrame(p))
          PROVE  Groups(stack') = {}
      <3> DEFINE f == ProgramFrame(p)
                 t == Append(SubSeq(stack, 1, Len(stack) - 1), f)
      <3>1. FrameOK(f, setting) /\ f.kind # "group"
        BY DEF ProgramFrame, FrameOK
      <3> HIDE DEF f
      <3>2. Groups(t) = Groups(stack) \ {Len(stack)}
        BY <1>1, <1>2, <3>1, SetFrame
      <3>3. stack' = t
        BY <2>2 DEF SetTop, Pop, f
      <3> HIDE DEF t
      <3> QED
        BY <1>2, <3>2, <3>3
    <2> QED
      BY <2>1, <2>2 DEF EndProgramTrials, EndActionTrials
  <1>4. Charged(stack', calls') = calls' /\ Charged(stack, calls) = Top.base.calls
    BY <1>2, <1>3, ChargedInside DEF Charged, Top
  <1> QED
    BY <1>1, <1>4, Unseen

LEMMA OpenGroupSeen ==
    ASSUME ContainedInv, Groups(stack) = {}, calls < limit, calls' = calls + 1,
           UNCHANGED <<setting, enabled, limit, capturing, judged>>,
           pc = "fail", pc' = "trial",
           NEW all, NEW pick, stack' = Append(stack, GroupFrame(all, pick, calls'))
    PROVE  Loop!Recover
  <1> DEFINE f == GroupFrame(all, pick, calls')
             t == Append(stack, f)
  <1>1. /\ enabled = TRUE /\ capturing = setting.capture
        /\ limit = setting.budget /\ calls <= limit
        /\ calls \in Nat /\ limit \in Nat /\ FramesOK(stack, setting)
    BY DEF ContainedInv, Switches, StackShape, NoTrace
  <1>2. calls' \in 0 .. setting.budget
    BY <1>1
  <1>3. FrameOK(f, setting) /\ f.kind = "group" /\ f.base.calls = calls'
    BY <1>1, <1>2 DEF GroupFrame, FrameOK
  <1> HIDE DEF f
  <1>4. Groups(t) = {Len(t)} /\ t[Len(t)] = f
    <2>1. /\ Groups(t) = Groups(stack) \cup {Len(stack) + 1}
          /\ t[Len(t)] = f /\ Len(t) \in DOMAIN t
      BY <1>1, <1>3, PushFrame
    <2>2. Len(t) \in Groups(t)
      BY <1>3, <2>1 DEF Groups
    <2> QED
      BY <2>1, <2>2
  <1>5. Charged(t, calls') = calls'
    BY <1>3, <1>4, ChargedInside
  <1>6. stack' = t
    BY DEF f
  <1> HIDE DEF t
  <1> QED
    BY <1>5, <1>6, SeenAsRecover

LEMMA RecoverByProgramSeen ==
    ASSUME ContainedInv, RecoverByProgram
    PROVE  Loop!Recover
  <1>1. /\ pc = "fail" /\ enabled /\ calls < limit /\ setting.v3 = TRUE
        /\ calls' = calls + 1 /\ UNCHANGED <<setting, enabled, limit, capturing, judged>>
    BY DEF RecoverByProgram, Recovering, history
  <1>2. Groups(stack) = {} /\ FramesOK(stack, setting)
    BY <1>1 DEF ContainedInv, HeldBack, StackShape
  <1>3. CASE /\ \E c : stack' = Append(stack, GroupFrame(c, 0, calls'))
             /\ pc' = "trial"
    <2>1. PICK c : stack' = Append(stack, GroupFrame(c, 0, calls'))
      BY <1>3
    <2> QED
      BY <1>1, <1>2, <1>3, <2>1, OpenGroupSeen
  <1>4. CASE stack' = stack /\ pc' = "return"
    <2>1. Charged(stack', calls') = calls + 1
      BY <1>1, <1>2, <1>4 DEF Charged
    <2> QED
      BY <1>1, <1>2, <1>4, <2>1, SeenAsRecover
  <1>5. CASE /\ \E p : stack' = Append(stack, ProgramFrame(p))
             /\ pc' = "step"
    <2>1. PICK p : stack' = Append(stack, ProgramFrame(p))
      BY <1>5
    <2> DEFINE f == ProgramFrame(p)
               t == Append(stack, f)
    <2>2. FrameOK(f, setting) /\ f.kind # "group"
      BY DEF ProgramFrame, FrameOK
    <2> HIDE DEF f
    <2>3. Groups(t) = {}
      BY <1>2, <2>2, PushFrame
    <2>4. stack' = t
      BY <2>1 DEF f
    <2> HIDE DEF t
    <2>5. Charged(stack', calls') = calls + 1
      BY <1>1, <2>3, <2>4 DEF Charged
    <2> QED
      BY <1>1, <1>2, <1>5, <2>5, SeenAsRecover
  <1>6. \/ /\ \E c : stack' = Append(stack, GroupFrame(c, 0, calls'))
           /\ pc' = "trial"
        \/ stack' = stack /\ pc' = "return"
        \/ /\ \E p : stack' = Append(stack, ProgramFrame(p))
           /\ pc' = "step"
    BY DEF RecoverByProgram, ExecuteLive
  <1> QED
    BY <1>3, <1>4, <1>5, <1>6

(* A v2 recovery inside of a trial is not charged to the run.              *)
LEMMA RecoverByActionSeen ==
    ASSUME ContainedInv, RecoverByAction
    PROVE  Loop!Recover \/ UNCHANGED Loop!loopVars
  <1>1. /\ pc = "fail" /\ enabled /\ calls < limit /\ setting.v3 = FALSE
        /\ calls' = calls + 1 /\ UNCHANGED <<setting, enabled, limit, capturing, judged>>
    BY DEF RecoverByAction, Recovering, history
  <1>2. CASE capturing /\ pc' = "trial"
             /\ \E i : stack' = Append(stack, GroupFrame(Actions, i, calls'))
    <2>1. Groups(stack) = {}
      BY <1>1, <1>2 DEF ContainedInv, HeldBack
    <2>2. PICK i : stack' = Append(stack, GroupFrame(Actions, i, calls'))
      BY <1>2
    <2> QED
      BY <1>1, <1>2, <2>1, <2>2, OpenGroupSeen
  <1>3. CASE stack' = stack /\ pc' = "stage"
    <2>1. CASE Groups(stack) = {}
      <3>1. Charged(stack', calls') = calls + 1
        BY <1>1, <1>3, <2>1 DEF Charged
      <3> QED
        BY <1>1, <1>3, <2>1, <3>1, SeenAsRecover
    <2>2. CASE Groups(stack) # {}
      <3>1. Charged(stack', calls') = Charged(stack, calls)
        BY <1>3, <2>2 DEF Charged
      <3> QED
        BY <1>1, <1>3, <3>1, Unseen
    <2> QED
      BY <2>1, <2>2
  <1>4. \/ /\ capturing /\ pc' = "trial"
           /\ \E i : stack' = Append(stack, GroupFrame(Actions, i, calls'))
        \/ stack' = stack /\ pc' = "stage"
    BY DEF RecoverByAction, ApplyRecoveryAction
  <1> QED
    BY <1>2, <1>3, <1>4

LEMMA FinishSeen ==
    ASSUME SuccessInv, SuccessInv', Finish
    PROVE  Loop!End
  <1>1. /\ pc = "return" /\ pc' = "done"
        /\ UNCHANGED <<setting, stack, calls, judged>> /\ stack' = <<>>
    BY DEF Finish, flags, history
  <1>2. Groups(stack') = {}
    BY <1>1 DEF Groups
  <1>3. ret' = TRUE => judged.pass = TRUE
    BY <1>1, <1>2 DEF SuccessInv, VerifiedInv, Verified
  <1>4. LiveCalls' = LiveCalls
    BY <1>1, ChargedIsLive
  <1>5. (pc' = "done" /\ ret') \in {FALSE, judged.pass}
    BY <1>1, <1>3
  <1> QED
    BY <1>1, <1>4, <1>5 DEF Loop!End

LEMMA LoopStep ==
    ContainedInv /\ SuccessInv /\ SuccessInv' /\ [Next]_vars
        => [Loop!LoopNext]_(Loop!loopVars)
  <1> SUFFICES ASSUME ContainedInv, SuccessInv, SuccessInv', [Next]_vars
               PROVE  \/ Loop!Verify \/ Loop!Recover \/ Loop!End
                      \/ UNCHANGED Loop!loopVars
    BY DEF Loop!LoopNext
  <1>1. CASE UNCHANGED vars
    BY <1>1, ChargedIsLive DEF vars, Loop!loopVars
  <1>2. CASE Next
    <2>1. CASE RunLocator \/ RunPatcher \/ GiveUp \/ ExecReplay
      BY <2>1, StagesUnseen
    <2>2. CASE VerifierPasses \/ VerifierFails
      BY <2>2, VerdictSeen
    <2>3. CASE ExecInspect \/ ExecEscalate \/ ExecRevoke \/ ExecRollback
      BY <2>3, StepsUnseen
    <2>4. CASE EndProgram
      BY <2>4, EndProgramUnseen
    <2>5. CASE ReturnToProgram
      BY <2>5, ReturnToProgramUnseen
    <2>6. CASE TryProgram \/ TryAction \/ ReturnToTrials
      BY <2>6, TrialsUnseen
    <2>7. CASE EndProgramTrials \/ EndActionTrials
      BY <2>7, EndTrialsUnseen
    <2>8. CASE RecoverByProgram
      BY <2>8, RecoverByProgramSeen
    <2>9. CASE RecoverByAction
      BY <2>9, RecoverByActionSeen
    <2>10. CASE Finish
      BY <2>10, FinishSeen
    <2> QED
      BY <1>2, <2>1, <2>2, <2>3, <2>4, <2>5, <2>6, <2>7, <2>8, <2>9, <2>10 DEF Next
  <1> QED
    BY <1>1, <1>2

(* A run of the coordinator is, step by step, a budgeted recovery loop     *)
(* (RunIsRecoveryLoop but for its fairness): recoveries outside of trials  *)
(* never exceed the budget, trials and what is called in them do not show, *)
(* and an end reports success only after a pass.                           *)
THEOREM RunImplementsRecoveryLoop ==
    Spec => Loop!LoopInit /\ [][Loop!LoopNext]_(Loop!loopVars)
  <1>1. Init => Loop!LoopInit
    <2> SUFFICES ASSUME Init PROVE Loop!LoopInit
      OBVIOUS
    <2>1. /\ setting \in Settings /\ calls = 0 /\ stack = <<>> /\ pc = "stage"
          /\ judged = [pass |-> FALSE, tree |-> Base, undone |-> FALSE]
      BY DEF Init
    <2>2. setting.budget \in Nat
      BY <2>1, SettingParts
    <2>3. LiveCalls = 0
      <3>1. Groups(stack) = {}
        BY <2>1 DEF Groups
      <3> QED
        BY <2>1, <3>1, ChargedIsLive DEF Charged
    <2> QED
      BY <2>1, <2>2, <2>3 DEF Loop!LoopInit
  <1> QED
    BY <1>1, InitContained, StepContained, InitSuccess, NextSuccess, LoopStep, PTL DEF Spec

(***************************************************************************)
(* Types.  A frame of v3 is a program or a group of them; v2 has groups of *)
(* actions only, and no frame for an action that is executed.              *)
(***************************************************************************)
Frames(v3) == IF v3 THEN Program \cup Group(Seq(RecoveryStep)) ELSE Group(CandidateAction)

(* Memories with a checkpoint to go back to, and the checkpoints they know.*)
Restorable == {m \in Mem : m.ckpts # <<>>}
Ids(m) == {m.ckpts[i].id : i \in DOMAIN m.ckpts}
(* What happens to a memory takes no checkpoint away.                      *)
Keeps(n, m) == n \in Restorable /\ Ids(m) \subseteq Ids(n)

LEMMA CheckpointType ==
    ASSUME NEW m \in Restorable
    PROVE  /\ LatestCheckpoint(m).id \in Ids(m)
           /\ LatestCheckpoint(m) \in [id : Nat, label : DOMAIN ResumeFrom, tree : Nat]
           /\ \A id : CheckpointFor(m, id) \in [id : Nat, label : DOMAIN ResumeFrom, tree : Nat]
           /\ \A id : id \in Ids(m) <=> GetCheckpoint(m, id) # {}
           /\ Ids(m) \subseteq Nat
           /\ DOMAIN m.ckpts = 1 .. Len(m.ckpts) /\ Len(m.ckpts) \in Nat \ {0}
  <1> DEFINE C == [id : Nat, label : DOMAIN ResumeFrom, tree : Nat]
             s == m.ckpts
  <1>1. s \in Seq(C) /\ s # <<>>
    BY DEF Restorable, Mem
  <1>2. /\ Len(s) \in Nat \ {0} /\ DOMAIN s = 1 .. Len(s)
        /\ \A i \in DOMAIN s : s[i] \in C
    <2> HIDE DEF C, s
    <2> QED
      BY <1>1
  <1>3. s[Len(s)] \in C /\ Len(s) \in DOMAIN s
    BY <1>2
  <1>4. \A id : GetCheckpoint(m, id) \subseteq C
    BY <1>2 DEF GetCheckpoint
  <1>5. \A id : id \in Ids(m) <=> GetCheckpoint(m, id) # {}
    BY DEF Ids, GetCheckpoint
  <1>6. Ids(m) \subseteq Nat
    BY <1>2 DEF Ids
  <1> QED
    BY <1>2, <1>3, <1>4, <1>5, <1>6 DEF LatestCheckpoint, CheckpointFor, Ids

LEMMA Checkpointed ==
    ASSUME NEW m \in Mem, NEW id \in Nat, NEW label \in DOMAIN ResumeFrom, NEW t \in Nat
    PROVE  Keeps(WithCheckpoint(m, id, label, t), m)
  <1> DEFINE c == [id |-> id, label |-> label, tree |-> t]
             n == WithCheckpoint(m, id, label, t)
             C == [id : Nat, label : DOMAIN ResumeFrom, tree : Nat]
  <1>1. m.ckpts \in Seq(C) /\ c \in C
    BY DEF Mem
  <1>2. /\ Append(m.ckpts, c) \in Seq(C) /\ Append(m.ckpts, c) # <<>>
        /\ \A i \in DOMAIN m.ckpts : /\ i \in DOMAIN Append(m.ckpts, c)
                                     /\ Append(m.ckpts, c)[i] = m.ckpts[i]
    BY <1>1
  <1>3. n \in Mem /\ n.ckpts = Append(m.ckpts, c)
    BY <1>2 DEF Mem, WithCheckpoint
  <1> HIDE DEF n, c
  <1>4. Ids(m) \subseteq Ids(n)
    BY <1>2, <1>3 DEF Ids
  <1> QED
    BY <1>2, <1>3, <1>4 DEF Keeps, Restorable, n

(* What leaves the checkpoints alone.                                      *)
LEMMA SameCheckpoints ==
    ASSUME NEW m \in Restorable, NEW n \in Mem, n.ckpts = m.ckpts
    PROVE  Keeps(n, m) /\ Ids(n) = Ids(m)
  BY DEF Keeps, Restorable, Ids

LEMMA MemUpdates ==
    ASSUME NEW m \in Restorable
    PROVE  /\ \A key \in FactKeys, id \in Nat : Keeps(WithFact(m, key, id), m)
           /\ \A s \in {"locator", "patcher"} : Keeps(WithFailure(m, s), m)
           /\ \A s \in Stages : Keeps([m EXCEPT !.outputs[s] = "ok"], m)
           /\ \A s : Keeps(ClearStageOutputsFrom(m, s), m)
           /\ \A s : Ids(ClearStageOutputsFrom(m, s)) = Ids(m)
           /\ \A id, key : Keeps(Quarantine(m, id, key), m) /\ Ids(Quarantine(m, id, key)) = Ids(m)
  <1>1. m \in Mem
    BY DEF Restorable
  <1>2. ASSUME NEW key \in FactKeys, NEW id \in Nat
        PROVE  Keeps(WithFact(m, key, id), m)
    <2>1. WithFact(m, key, id) \in Mem /\ WithFact(m, key, id).ckpts = m.ckpts
      BY <1>1 DEF WithFact, Mem
    <2> QED
      BY <2>1, SameCheckpoints
  <1>3. ASSUME NEW s \in {"locator", "patcher"}
        PROVE  Keeps(WithFailure(m, s), m)
    <2>1. WithFailure(m, s) \in Mem /\ WithFailure(m, s).ckpts = m.ckpts
      BY <1>1 DEF WithFailure, Mem, Stages
    <2> QED
      BY <2>1, SameCheckpoints
  <1>4. ASSUME NEW s \in Stages
        PROVE  Keeps([m EXCEPT !.outputs[s] = "ok"], m)
    <2>1. [m EXCEPT !.outputs[s] = "ok"] \in Mem /\ [m EXCEPT !.outputs[s] = "ok"].ckpts = m.ckpts
      BY <1>1 DEF Mem
    <2> QED
      BY <2>1, SameCheckpoints
  <1>5. ASSUME NEW s
        PROVE  /\ Keeps(ClearStageOutputsFrom(m, s), m)
               /\ Ids(ClearStageOutputsFrom(m, s)) = Ids(m)
    <2>1. /\ ClearStageOutputsFrom(m, s) \in Mem
          /\ ClearStageOutputsFrom(m, s).ckpts = m.ckpts
      <3> DEFINE Pos(x) == CHOOSE i \in DOMAIN StageOrder : StageOrder[i] = x
                 o == [x \in Stages |-> IF Pos(x) >= Pos(s) THEN "none" ELSE m.outputs[x]]
      <3>1. m.outputs \in [Stages -> {"none", "ok", "fail"}]
        BY <1>1 DEF Mem
      <3>2. o \in [Stages -> {"none", "ok", "fail"}]
        <4> HIDE DEF Pos
        <4> QED
          BY <3>1
      <3>3. ClearStageOutputsFrom(m, s) = [m EXCEPT !.outputs = o]
        BY DEF ClearStageOutputsFrom
      <3> HIDE DEF o
      <3> QED
        BY <1>1, <3>2, <3>3 DEF Mem
    <2> QED
      BY <2>1, SameCheckpoints
  <1>6. ASSUME NEW id, NEW key
        PROVE  Keeps(Quarantine(m, id, key), m) /\ Ids(Quarantine(m, id, key)) = Ids(m)
    <2>1. Quarantine(m, id, key) \in Mem /\ Quarantine(m, id, key).ckpts = m.ckpts
      <3> DEFINE c == m.conflicted \ {id}
                 f == [k \in FactKeys |-> IF k = key THEN 0 ELSE m.facts[k]]
      <3>1. c \in {d \in SUBSET Nat : IsFiniteSet(d)}
        BY <1>1, FS_RemoveElement DEF Mem
      <3>2. f \in [FactKeys -> Nat]
        BY <1>1 DEF Mem
      <3>3. Quarantine(m, id, key) = [m EXCEPT !.conflicted = c, !.facts = f]
        BY DEF Quarantine
      <3> HIDE DEF c, f
      <3> QED
        BY <1>1, <3>1, <3>2, <3>3 DEF Mem
    <2> QED
      BY <2>1, SameCheckpoints
  <1> QED
    BY <1>2, <1>3, <1>4, <1>5, <1>6

LEMMA KeepsMore ==
    ASSUME NEW m, NEW n, NEW o, Keeps(n, m), Keeps(o, n)
    PROVE  Keeps(o, m)
  BY DEF Keeps

(* A finite set of numbers has a greatest: the one with the smallest set   *)
(* of numbers that are no smaller.                                         *)
LEMMA GreatestExists ==
    ASSUME NEW T \in SUBSET Nat, IsFiniteSet(T), T # {}
    PROVE  Max(T) \in T
  <1> DEFINE Less == StrictSubsetOrdering(T)
             From(n) == {m \in T : m >= n}
             above == {From(n) : n \in T}
  <1>1. IsWellFoundedOn(Less, FiniteSubsetsOf(T))
    BY FS_StrictSubsetOrderingWellFounded
  <1>2. above \subseteq FiniteSubsetsOf(T) /\ above # {}
    <2>1. \A n \in T : IsFiniteSet(From(n)) /\ From(n) \subseteq T
      BY FS_Subset
    <2> QED
      BY <2>1 DEF FiniteSubsetsOf
  <1> HIDE DEF Less
  <1>3. PICK low \in above : \A other \in above : <<other, low>> \notin Less
    BY <1>1, <1>2, WFMin
  <1>4. PICK n \in T : low = From(n)
    OBVIOUS
  <1>5. ASSUME NEW m \in T, m > n
        PROVE  FALSE
    <2>1. From(m) \in above
      OBVIOUS
    <2>2. From(m) \subseteq From(n) /\ From(m) # From(n)
      <3>1. n \in From(n) /\ n \notin From(m)
        BY <1>5
      <3>2. \A k \in T : k >= m => k >= n
        BY <1>5
      <3> QED
        BY <3>1, <3>2
    <2>3. <<From(m), From(n)>> \in Less
      BY <2>2 DEF Less, StrictSubsetOrdering
    <2> QED
      BY <1>3, <1>4, <2>1, <2>3
  <1>6. \A m \in T : n >= m
    BY <1>5
  <1> QED
    BY <1>6 DEF Max

LEMMA SuspectType ==
    ASSUME NEW m \in Mem
    PROVE  Suspect(m) \in Nat
  <1> DEFINE c == m.conflicted
  <1>1. c \in SUBSET Nat /\ IsFiniteSet(c) /\ m.evidence \in Nat
    BY DEF Mem
  <1> HIDE DEF c
  <1>2. c # {} => Max(c) \in Nat
    BY <1>1, GreatestExists
  <1>3. ASSUME c # {}, Cardinality(c) # 1
        PROVE  Max(c \ {Max(c)}) \in Nat
    <2> DEFINE d == c \ {Max(c)}
    <2>1. d \in SUBSET Nat /\ IsFiniteSet(d)
      BY <1>1, FS_RemoveElement
    <2>2. d # {}
      <3> SUFFICES ASSUME d = {}
                   PROVE  FALSE
        OBVIOUS
      <3>1. c = {Max(c)}
        BY <1>3
      <3> QED
        BY <1>3, <3>1, FS_Singleton
    <2> HIDE DEF d
    <2>3. Max(d) \in Nat
      BY <2>1, <2>2, GreatestExists
    <2> QED
      BY <2>3 DEF d
  <1> QED
    BY <1>1, <1>2, <1>3 DEF Suspect, c

(***************************************************************************)
(* What programs name.  A program under way names checkpoints the memory   *)
(* knows, and so do the memories that trials above it will put back; the   *)
(* candidates of a group name those of the memory they start from.         *)
(***************************************************************************)
Named(p, from, m) ==
    \A j \in from .. Len(p) : p[j].op = "ROLLBACK" /\ p[j].id # 0 => p[j].id \in Ids(m)

CandidatesKnown(f, v3) ==
    /\ f.base.mem \in Restorable
    /\ IF v3 THEN \A k \in DOMAIN f.all : Named(f.all[k], 1, f.base.mem)
       ELSE /\ f.pick \in DOMAIN f.all
            /\ \A k \in DOMAIN f.all : f.all[k].ckpt \in Ids(f.base.mem)

KnownIn(s, m, v3) ==
    \A i \in DOMAIN s :
        /\ s[i].kind = "program" =>
              /\ Named(s[i].prog, s[i].at, m)
              /\ \A j \in DOMAIN s : i < j /\ s[j].kind = "group" =>
                    Named(s[i].prog, s[i].at, s[j].base.mem)
        /\ s[i].kind = "group" => CandidatesKnown(s[i], v3)

Known == KnownIn(stack, mem, setting.v3)

LEMMA KnownGrows ==
    ASSUME NEW s, NEW m, NEW n, NEW v3, KnownIn(s, m, v3), Ids(m) \subseteq Ids(n)
    PROVE  KnownIn(s, n, v3)
  BY DEF KnownIn, Named

LEMMA Popped ==
    ASSUME NEW S, NEW s \in Seq(S), s # <<>>
    PROVE  LET t == SubSeq(s, 1, Len(s) - 1) IN
           /\ t \in Seq(S) /\ DOMAIN t = 1 .. Len(s) - 1
           /\ DOMAIN s = 1 .. Len(s) /\ Len(s) \in Nat \ {0} /\ s[Len(s)] \in S
           /\ \A i \in DOMAIN t : t[i] = s[i]
  <1>1. /\ Len(s) \in Nat \ {0} /\ DOMAIN s = 1 .. Len(s) /\ s[Len(s)] \in S
        /\ \A i \in 1 .. Len(s) : s[i] \in S
    OBVIOUS
  <1> DEFINE t == SubSeq(s, 1, Len(s) - 1)
  <1>2. t \in Seq(S) /\ Len(t) = Len(s) - 1 /\ \A i \in 1 .. Len(s) - 1 : t[i] = s[i]
    BY <1>1
  <1>3. DOMAIN t = 1 .. Len(s) - 1
    BY <1>1, <1>2
  <1> QED
    BY <1>1, <1>2, <1>3

LEMMA Pushed ==
    ASSUME NEW S, NEW s \in Seq(S), NEW f \in S
    PROVE  LET t == Append(s, f) IN
           /\ t \in Seq(S) /\ DOMAIN t = 1 .. Len(s) + 1
           /\ DOMAIN s = 1 .. Len(s) /\ Len(s) \in Nat
           /\ t[Len(s) + 1] = f
           /\ \A i \in DOMAIN s : t[i] = s[i]
  <1>1. Len(s) \in Nat /\ DOMAIN s = 1 .. Len(s)
    OBVIOUS
  <1>2. Append(s, f) \in Seq(S) /\ Len(Append(s, f)) = Len(s) + 1
    OBVIOUS
  <1>3. DOMAIN Append(s, f) = 1 .. Len(s) + 1
    BY <1>1, <1>2
  <1>4. Append(s, f)[Len(s) + 1] = f /\ \A i \in 1 .. Len(s) : Append(s, f)[i] = s[i]
    BY <1>1
  <1> QED
    BY <1>1, <1>2, <1>3, <1>4

LEMMA KnownPop ==
    ASSUME NEW S, NEW s \in Seq(S), NEW m, NEW v3, KnownIn(s, m, v3), s # <<>>
    PROVE  KnownIn(SubSeq(s, 1, Len(s) - 1), m, v3)
  <1> DEFINE t == SubSeq(s, 1, Len(s) - 1)
  <1>1. DOMAIN t \subseteq DOMAIN s /\ \A i \in DOMAIN t : t[i] = s[i]
    BY Popped
  <1> HIDE DEF t
  <1>2. KnownIn(t, m, v3)
    BY <1>1 DEF KnownIn
  <1> QED
    BY <1>2 DEF t

(* The memory trials start from knows what the programs below them name.   *)
LEMMA KnownInBase ==
    ASSUME NEW S, NEW s \in Seq(S), NEW m, NEW v3, KnownIn(s, m, v3), s # <<>>,
           s[Len(s)].kind = "group"
    PROVE  KnownIn(s, s[Len(s)].base.mem, v3) /\ CandidatesKnown(s[Len(s)], v3)
  <1>1. Len(s) \in DOMAIN s /\ \A i \in DOMAIN s : i # Len(s) => i < Len(s)
    <2>1. Len(s) \in Nat \ {0} /\ DOMAIN s = 1 .. Len(s)
      BY Popped
    <2> QED
      BY <2>1
  <1>2. ASSUME NEW i \in DOMAIN s, s[i].kind = "program"
        PROVE  Named(s[i].prog, s[i].at, s[Len(s)].base.mem)
    <2>1. i < Len(s)
      BY <1>1, <1>2
    <2> QED
      BY <1>1, <1>2, <2>1 DEF KnownIn
  <1> QED
    BY <1>1, <1>2 DEF KnownIn

LEMMA KnownPush ==
    ASSUME NEW S, NEW s \in Seq(S), NEW f \in S, NEW m, NEW v3, KnownIn(s, m, v3),
           f.kind = "program" => Named(f.prog, f.at, m),
           f.kind = "group" => CandidatesKnown(f, v3) /\ KnownIn(s, f.base.mem, v3)
    PROVE  KnownIn(Append(s, f), m, v3)
  <1> DEFINE t == Append(s, f)
             n == Len(s) + 1
  <1>1. /\ DOMAIN t = DOMAIN s \cup {n} /\ n \notin DOMAIN s
        /\ t[n] = f /\ \A i \in DOMAIN s : t[i] = s[i] /\ i < n
    <2>1. /\ DOMAIN t = 1 .. Len(s) + 1 /\ DOMAIN s = 1 .. Len(s) /\ Len(s) \in Nat
          /\ t[Len(s) + 1] = f /\ \A i \in DOMAIN s : t[i] = s[i]
      BY Pushed
    <2> QED
      BY <2>1
  <1> HIDE DEF t
  <1>2. ASSUME NEW i \in DOMAIN s, s[i].kind = "program"
        PROVE  /\ Named(s[i].prog, s[i].at, m)
               /\ \A j \in DOMAIN t : i < j /\ t[j].kind = "group" =>
                     Named(s[i].prog, s[i].at, t[j].base.mem)
    <2>1. ASSUME f.kind = "group"
          PROVE  Named(s[i].prog, s[i].at, f.base.mem)
      BY <1>2, <2>1 DEF KnownIn
    <2> QED
      BY <1>1, <1>2, <2>1 DEF KnownIn
  <1>3. \A j \in DOMAIN t : ~(n < j)
    <2>1. n \in Nat /\ \A j \in DOMAIN t : j \in Nat /\ j <= n
      <3>1. DOMAIN t = 1 .. Len(s) + 1 /\ Len(s) \in Nat
        BY Pushed DEF t
      <3> QED
        BY <3>1
    <2> QED
      BY <2>1
  <1> HIDE DEF n
  <1>4. ASSUME NEW i \in DOMAIN t
        PROVE  /\ t[i].kind = "program" =>
                     /\ Named(t[i].prog, t[i].at, m)
                     /\ \A j \in DOMAIN t : i < j /\ t[j].kind = "group" =>
                           Named(t[i].prog, t[i].at, t[j].base.mem)
               /\ t[i].kind = "group" => CandidatesKnown(t[i], v3)
    <2>1. CASE i \in DOMAIN s
      BY <1>1, <1>2, <2>1 DEF KnownIn
    <2>2. CASE i = n
      BY <1>1, <1>3, <2>2
    <2> QED
      BY <1>1, <2>1, <2>2
  <1> QED
    BY <1>4 DEF KnownIn, t

LEMMA TypeParts ==
    ASSUME TypeOK
    PROVE  /\ setting \in Settings /\ setting.v3 \in BOOLEAN
           /\ mem \in Restorable /\ mem \in Mem /\ stack \in Seq(Frames(setting.v3))
  BY SettingParts DEF TypeOK, Restorable, Frames

LEMMA SoundAgain ==
    ASSUME TypeOK, setting' = setting, tree' \in Nat, nextId' \in Nat, mem' \in Restorable,
           enabled' \in BOOLEAN, capturing' \in BOOLEAN, pending' \in BOOLEAN,
           calls' \in Nat, limit' \in Nat, context' \in {"none", "plain", "feedback"},
           pc' \in {"stage", "fail", "trial", "step", "return", "done"}, stage' \in Stages,
           ret' \in BOOLEAN, stack' \in Seq(Frames(setting.v3)),
           judged' \in [pass : BOOLEAN, tree : Nat, undone : BOOLEAN],
           KnownIn(stack', mem', setting.v3)
    PROVE  TypeOK' /\ Known'
  <1>1. setting' \in Settings /\ mem' \in Mem /\ mem'.ckpts # <<>>
    BY DEF TypeOK, Restorable
  <1>2. stack' \in IF setting'.v3 THEN Seq(Program \cup Group(Seq(RecoveryStep)))
                   ELSE Seq(Group(CandidateAction))
    BY DEF Frames
  <1>3. TypeOK'
    BY <1>1, <1>2 DEF TypeOK
  <1> QED
    BY <1>3 DEF Known

LEMMA FrameTypes ==
    ASSUME NEW v3 \in BOOLEAN, NEW f \in Frames(v3)
    PROVE  /\ f.kind \in {"program", "group"}
           /\ f.kind = "program" => v3 /\ f \in Program
           /\ f.kind = "group" => f \in Group(IF v3 THEN Seq(RecoveryStep) ELSE CandidateAction)
  <1>1. CASE v3 = TRUE
    <2>1. f \in Program \/ f \in Group(Seq(RecoveryStep))
      BY <1>1 DEF Frames
    <2>2. f \in Program => f.kind = "program"
      BY DEF Program
    <2>3. f \in Group(Seq(RecoveryStep)) => f.kind = "group"
      BY DEF Group
    <2> QED
      BY <1>1, <2>1, <2>2, <2>3
  <1>2. CASE v3 = FALSE
    <2>1. f \in Group(CandidateAction)
      BY <1>2 DEF Frames
    <2>2. f.kind = "group"
      BY <2>1 DEF Group
    <2> QED
      BY <1>2, <2>1, <2>2
  <1> QED
    BY <1>1, <1>2

LEMMA TopFrame ==
    ASSUME TypeOK, stack # <<>>
    PROVE  /\ Top \in Frames(setting.v3) /\ Top.kind \in {"program", "group"}
           /\ Top.kind = "program" => setting.v3 /\ Top \in Program
           /\ Top.kind = "group" =>
                 Top \in Group(IF setting.v3 THEN Seq(RecoveryStep) ELSE CandidateAction)
  <1>1. setting.v3 \in BOOLEAN /\ stack \in Seq(Frames(setting.v3))
    BY TypeParts
  <1>2. Top \in Frames(setting.v3)
    BY <1>1, Popped DEF Top
  <1> QED
    BY <1>1, <1>2, FrameTypes

(* The stages, and what ends or starts them, keep the stack.               *)
LEMMA SameStackSound ==
    ASSUME TypeOK, Known, stack' = stack, Keeps(mem', mem), UNCHANGED <<setting, flags>>,
           tree' \in Nat, nextId' \in Nat, pending' \in BOOLEAN,
           context' \in {"none", "plain", "feedback"},
           pc' \in {"stage", "fail", "trial", "step", "return", "done"}, stage' \in Stages,
           ret' \in BOOLEAN,
           judged' \in [pass : BOOLEAN, tree : Nat, undone : BOOLEAN]
    PROVE  TypeOK' /\ Known'
  <1>1. KnownIn(stack', mem', setting.v3)
    BY KnownGrows DEF Known, Keeps
  <1>2. mem' \in Restorable /\ stack' \in Seq(Frames(setting.v3))
    BY TypeParts DEF Keeps
  <1>3. /\ enabled' \in BOOLEAN /\ capturing' \in BOOLEAN /\ calls' \in Nat /\ limit' \in Nat
    BY DEF TypeOK, flags
  <1> QED
    BY <1>1, <1>2, <1>3, SoundAgain

LEMMA LocatorSound ==
    ASSUME TypeOK, Known, RunLocator
    PROVE  TypeOK' /\ Known'
  <1> DEFINE WithPath == WithFact(mem, "localized_path", nextId)
             Located(m) == [m EXCEPT !.outputs["locator"] = "ok"]
  <1>1. mem \in Restorable /\ nextId \in Nat /\ tree' \in Nat
    BY TypeParts DEF TypeOK, RunLocator, Base
  <1>2. \A m \in {mem, WithPath} : Keeps(m, mem)
    BY <1>1, MemUpdates DEF FactKeys, Keeps
  <1>3. Keeps(mem', mem)
    <2>1. ASSUME NEW m \in {mem, WithPath},
                 mem' = WithCheckpoint(Located(m), nextId + 1, "post_locate", tree')
          PROVE  Keeps(mem', mem)
      <3>1. Keeps(m, mem) /\ m \in Restorable
        BY <1>2 DEF Keeps
      <3>2. Keeps(Located(m), m)
        BY <3>1, MemUpdates DEF Stages
      <3> HIDE DEF Located
      <3>3. Located(m) \in Mem /\ nextId + 1 \in Nat /\ "post_locate" \in DOMAIN ResumeFrom
        BY <1>1, <3>2 DEF Keeps, Restorable, ResumeFrom
      <3>4. Keeps(mem', Located(m))
        BY <1>1, <2>1, <3>3, Checkpointed
      <3> QED
        BY <3>1, <3>2, <3>4, KeepsMore
    <2>2. ASSUME NEW m \in {mem, WithPath}, mem' = WithFailure(m, "locator")
          PROVE  Keeps(mem', mem)
      <3>1. Keeps(m, mem) /\ m \in Restorable
        BY <1>2 DEF Keeps
      <3>2. Keeps(mem', m)
        BY <2>2, <3>1, MemUpdates
      <3> QED
        BY <3>1, <3>2, KeepsMore
    <2> QED
      BY <2>1, <2>2 DEF RunLocator
  <1>4. /\ stack' = stack /\ UNCHANGED <<setting, flags, pending, context, ret, judged>>
        /\ pc' \in {"stage", "fail"} /\ stage' \in Stages /\ nextId' \in Nat
    BY <1>1 DEF RunLocator, history, Stages
  <1> QED
    BY <1>1, <1>3, <1>4, SameStackSound DEF TypeOK

LEMMA PatcherSound ==
    ASSUME TypeOK, Known, RunPatcher
    PROVE  TypeOK' /\ Known'
  <1> DEFINE n == [mem EXCEPT !.outputs["patcher"] = "ok"]
             WithPatch(m) == WithFact(m, "latest_patch", nextId + 1)
  <1>1. /\ mem \in Restorable /\ nextId \in Nat /\ tree' \in Nat
        /\ nextId + 1 \in Nat /\ nextId + 2 \in Nat
    BY TypeParts DEF TypeOK, RunPatcher
  <1>2. Keeps(mem, mem) /\ Keeps(n, mem) /\ n \in Restorable
    BY <1>1, MemUpdates DEF Stages, Keeps
  <1> HIDE DEF n
  <1>3. \A m \in Restorable : Keeps(WithPatch(m), m)
    BY <1>1, MemUpdates DEF FactKeys
  <1> HIDE DEF WithPatch
  <1>6. Keeps(mem', mem)
    <2>4. CASE mem' = WithCheckpoint(WithPatch(n), nextId + 2, "post_patch", tree')
      <3>1. Keeps(WithPatch(n), n) /\ WithPatch(n) \in Mem /\ "post_patch" \in DOMAIN ResumeFrom
        BY <1>2, <1>3 DEF Keeps, Restorable, ResumeFrom
      <3>2. Keeps(mem', WithPatch(n))
        BY <1>1, <2>4, <3>1, Checkpointed
      <3> QED
        BY <1>2, <3>1, <3>2, KeepsMore
    <2>5. CASE \E m \in {mem, WithPatch(mem)} : mem' = WithFailure(m, "patcher")
      <3>1. PICK m \in {mem, WithPatch(mem)} : mem' = WithFailure(m, "patcher")
        BY <2>5
      <3>2. Keeps(m, mem) /\ m \in Restorable
        BY <1>1, <1>2, <1>3 DEF Keeps
      <3>3. Keeps(mem', m)
        BY <3>1, <3>2, MemUpdates
      <3> QED
        BY <3>2, <3>3, KeepsMore
    <2> QED
      BY <2>4, <2>5 DEF RunPatcher, n, WithPatch
  <1>7. /\ stack' = stack /\ UNCHANGED <<setting, flags, pending, context, ret, judged>>
        /\ pc' \in {"stage", "fail"} /\ stage' \in Stages /\ nextId' \in Nat
    BY <1>1 DEF RunPatcher, Stages
  <1> QED
    BY <1>1, <1>6, <1>7, SameStackSound DEF TypeOK

LEMMA VerdictsSound ==
    ASSUME TypeOK, Known, VerifierPasses \/ VerifierFails
    PROVE  TypeOK' /\ Known'
  <1>1. mem \in Restorable /\ mem \in Mem
    BY TypeParts
  <1>2. mem' \in Mem /\ mem'.ckpts = mem.ckpts
    <2>1. CASE VerifierPasses
      BY <1>1, <2>1 DEF VerifierPasses, Mem, Stages
    <2>2. CASE VerifierFails
      <3> DEFINE patch == mem.facts["latest_patch"]
                 failing == [mem EXCEPT !.outputs["verifier"] = "fail"]
      <3>1. failing \in Mem /\ failing.ckpts = mem.ckpts /\ patch \in Nat
        BY <1>1 DEF Mem, Stages, FactKeys
      <3> DEFINE more == failing.conflicted \cup {patch}
      <3>2. \/ mem' = [failing EXCEPT !.verdict = "conflict", !.evidence = patch,
                                      !.conflicted = more]
            \/ \E v \in {"fail", "loop"} :
                  mem' = [failing EXCEPT !.verdict = v, !.evidence = 0]
        BY <2>2 DEF VerifierFails
      <3> HIDE DEF failing, patch
      <3>3. more \in {c \in SUBSET Nat : IsFiniteSet(c)}
        <4>1. failing.conflicted \in SUBSET Nat /\ IsFiniteSet(failing.conflicted)
          BY <3>1 DEF Mem
        <4>2. IsFiniteSet(more)
          BY <4>1, FS_AddElement
        <4> QED
          BY <3>1, <4>1, <4>2
      <3> HIDE DEF more
      <3>4. CASE mem' = [failing EXCEPT !.verdict = "conflict", !.evidence = patch,
                                        !.conflicted = more]
        BY <3>1, <3>3, <3>4 DEF Mem
      <3>5. CASE \E v \in {"fail", "loop"} :
                    mem' = [failing EXCEPT !.verdict = v, !.evidence = 0]
        <4>1. PICK v \in {"fail", "loop"} :
                 mem' = [failing EXCEPT !.verdict = v, !.evidence = 0]
          BY <3>5
        <4> DEFINE F == {c \in SUBSET Nat : IsFiniteSet(c)}
                   C == Seq([id : Nat, label : DOMAIN ResumeFrom, tree : Nat])
        <4>3. failing \in [facts : [FactKeys -> Nat], conflicted : F, evidence : Nat,
                           outputs : [Stages -> {"none", "ok", "fail"}],
                           verdict : {"none", "pass", "conflict", "loop", "fail"},
                           failed : {"none", "locator", "patcher"}, ckpts : C]
          BY <3>1 DEF Mem
        <4>4. mem' \in [facts : [FactKeys -> Nat], conflicted : F, evidence : Nat,
                        outputs : [Stages -> {"none", "ok", "fail"}],
                        verdict : {"none", "pass", "conflict", "loop", "fail"},
                        failed : {"none", "locator", "patcher"}, ckpts : C]
              /\ mem'.ckpts = failing.ckpts
          <5> HIDE DEF F, C
          <5> QED
            BY <4>1, <4>3
        <4> QED
          BY <3>1, <4>4 DEF Mem
      <3> QED
        BY <3>2, <3>4, <3>5
    <2> QED
      BY <2>1, <2>2
  <1>3. Keeps(mem', mem)
    BY <1>1, <1>2, SameCheckpoints
  <1>4. judged' \in [pass : BOOLEAN, tree : Nat, undone : BOOLEAN]
    <2>1. judged \in [pass : BOOLEAN, tree : Nat, undone : BOOLEAN] /\ tree \in Nat
      BY DEF TypeOK
    <2>2. PICK pass \in BOOLEAN : Judge(pass)
      BY DEF VerifierPasses, VerifierFails
    <2> QED
      BY <2>1, <2>2 DEF Judge
  <1>5. /\ stack' = stack /\ UNCHANGED <<setting, flags, tree, context, stage, nextId>>
        /\ pc' \in {"return", "fail"} /\ pending' \in BOOLEAN /\ ret' \in BOOLEAN
    <2>1. pending \in BOOLEAN /\ ret \in BOOLEAN
      BY DEF TypeOK
    <2>2. CASE VerifierPasses
      BY <2>1, <2>2 DEF VerifierPasses
    <2>3. CASE VerifierFails
      BY <2>1, <2>3 DEF VerifierFails
    <2> QED
      BY <2>2, <2>3
  <1> QED
    BY <1>3, <1>4, <1>5, SameStackSound DEF TypeOK

LEMMA StartsAndEndsSound ==
    ASSUME ContainedInv, TypeOK, Known, GiveUp \/ ExecReplay \/ Finish
    PROVE  TypeOK' /\ Known'
  <1>1. mem \in Restorable /\ Keeps(mem, mem)
    BY TypeParts DEF Keeps
  <1>2. CASE GiveUp \/ Finish
    <2>1. /\ UNCHANGED <<setting, flags, stack, mem, tree, context, stage, nextId, pending, judged>>
          /\ pc' \in {"return", "done"} /\ ret' \in BOOLEAN
      BY <1>2 DEF GiveUp, Finish, history, TypeOK
    <2> QED
      BY <1>1, <2>1, SameStackSound DEF TypeOK
  <1>3. CASE ExecReplay
    <2>1. /\ stack # <<>> /\ Top.kind = "program" /\ Top.at <= Len(Top.prog)
      BY <1>3 DEF ExecReplay, Executing, ContainedInv, StackShape
    <2>2. Top \in Program
      BY <2>1, TopFrame
    <2>3. Step \in RecoveryStep
      <3>1. Top.prog \in Seq(RecoveryStep) /\ Top.at \in Nat \ {0}
        BY <2>2 DEF Program
      <3>2. Top.at \in 1 .. Len(Top.prog)
        BY <2>1, <3>1
      <3> QED
        BY <3>1, <3>2 DEF Step
    <2>4. stage' \in Stages
      BY <1>3, <2>3 DEF ExecReplay, RecoveryStep
    <2>5. Keeps(mem', mem)
      BY <1>1, <1>3, MemUpdates DEF ExecReplay
    <2>6. /\ UNCHANGED <<setting, flags, stack, tree, nextId, pending, judged, ret>>
          /\ pc' = "stage" /\ context' \in {"none", "plain"}
      BY <1>3 DEF ExecReplay, history
    <2> QED
      BY <2>4, <2>5, <2>6, SameStackSound DEF TypeOK
  <1> QED
    BY <1>2, <1>3

(***************************************************************************)
(* The steps of a program.                                                 *)
(***************************************************************************)
LEMMA ProgramFrameOf ==
    ASSUME NEW p \in Seq(RecoveryStep), NEW v3 \in BOOLEAN, v3
    PROVE  /\ ProgramFrame(p) \in Program /\ ProgramFrame(p) \in Frames(v3)
           /\ ProgramFrame(p).kind = "program"
           /\ ProgramFrame(p).prog = p /\ ProgramFrame(p).at = 1
  <1>1. ProgramFrame(p) \in Program
    BY DEF ProgramFrame, Program
  <1> QED
    BY <1>1 DEF ProgramFrame, Frames

LEMMA ProgramMoved ==
    ASSUME TypeOK, Known, stack # <<>>, Top.kind = "program",
           NEW f \in Program, f.prog = Top.prog, f.at = Top.at + 1, stack' = SetTop(f),
           Keeps(mem', mem)
    PROVE  stack' \in Seq(Frames(setting.v3)) /\ KnownIn(stack', mem', setting.v3)
  <1> DEFINE v == setting.v3
             S == Frames(v)
  <1>1. /\ v \in BOOLEAN /\ v /\ stack \in Seq(S) /\ Top \in Program
    BY TypeParts, TopFrame
  <1>2. f \in S /\ f.kind = "program"
    BY <1>1 DEF Frames, Program
  <1>3. KnownIn(stack, mem', v)
    BY KnownGrows DEF Known, Keeps
  <1>4. Named(Top.prog, Top.at, mem')
    <2>1. Len(stack) \in DOMAIN stack
      <3>1. Len(stack) \in Nat \ {0} /\ DOMAIN stack = 1 .. Len(stack)
        BY <1>1, Popped
      <3> QED
        BY <3>1
    <2> QED
      BY <1>3, <2>1 DEF KnownIn, Top
  <1>5. Named(f.prog, f.at, mem')
    <2>1. Top.at \in Nat
      BY <1>1 DEF Program
    <2>2. Len(Top.prog) \in Nat
      BY <1>1 DEF Program
    <2> QED
      BY <1>4, <2>1, <2>2 DEF Named
  <1> HIDE DEF S, v
  <1>6. Pop \in Seq(S) /\ KnownIn(Pop, mem', v)
    BY <1>1, <1>3, Popped, KnownPop DEF Pop
  <1>7. Append(Pop, f) \in Seq(S) /\ KnownIn(Append(Pop, f), mem', v)
    BY <1>2, <1>5, <1>6, Pushed, KnownPush
  <1> QED
    BY <1>7 DEF SetTop, S, v

LEMMA StepsSound ==
    ASSUME ContainedInv, TypeOK, Known, ExecInspect \/ ExecEscalate \/ ExecRevoke \/ ExecRollback
    PROVE  TypeOK' /\ Known'
  <1>1. mem \in Restorable /\ mem \in Mem /\ Keeps(mem, mem)
    BY TypeParts DEF Keeps
  <1>2. Keeps(mem', mem)
    <2>1. CASE ExecInspect \/ ExecEscalate
      BY <1>1, <2>1 DEF ExecInspect, ExecEscalate
    <2>2. CASE ExecRevoke
      <3> DEFINE F == {c \in SUBSET Nat : IsFiniteSet(c)}
                 C == Seq([id : Nat, label : DOMAIN ResumeFrom, tree : Nat])
                 M == [facts : [FactKeys -> Nat], conflicted : F, evidence : Nat,
                       outputs : [Stages -> {"none", "ok", "fail"}],
                       verdict : {"none", "pass", "conflict", "loop", "fail"},
                       failed : {"none", "locator", "patcher"}, ckpts : C]
      <3>1. PICK gone, keys :
               mem' = [mem EXCEPT !.conflicted = @ \ gone,
                                  !.facts = [k \in FactKeys |-> IF k \in keys THEN 0 ELSE @[k]]]
        BY <2>2 DEF ExecRevoke
      <3>2. mem \in M
        BY <1>1 DEF Mem
      <3> DEFINE c == mem.conflicted \ gone
                 f == [k \in FactKeys |-> IF k \in keys THEN 0 ELSE mem.facts[k]]
      <3>3. f \in [FactKeys -> Nat]
        BY <3>2
      <3>4. c \in F
        <4>1. mem.conflicted \in SUBSET Nat /\ IsFiniteSet(mem.conflicted)
          BY <1>1 DEF Mem
        <4>2. c \subseteq mem.conflicted
          OBVIOUS
        <4>3. IsFiniteSet(c)
          BY <4>1, <4>2, FS_Subset
        <4> QED
          BY <4>1, <4>3
      <3>5. mem' = [mem EXCEPT !.conflicted = c, !.facts = f]
        BY <3>1
      <3> HIDE DEF c, f, F, C
      <3>6. mem' \in M /\ mem'.ckpts = mem.ckpts
        BY <3>2, <3>3, <3>4, <3>5
      <3>7. M = Mem
        BY DEF Mem, F, C
      <3> QED
        BY <1>1, <3>6, <3>7, SameCheckpoints
    <2>3. CASE ExecRollback
      BY <1>1, <2>3, MemUpdates DEF ExecRollback
    <2> QED
      BY <2>1, <2>2, <2>3
  <1>3. tree' \in Nat /\ judged' \in [pass : BOOLEAN, tree : Nat, undone : BOOLEAN]
    <2>1. tree \in Nat /\ judged \in [pass : BOOLEAN, tree : Nat, undone : BOOLEAN]
      BY DEF TypeOK
    <2>2. CASE ExecRollback
      <3>1. tree' \in Nat
        BY <1>1, <2>2, CheckpointType DEF ExecRollback
      <3>2. judged' = [judged EXCEPT !.undone = @ \/ ~InTrial]
        BY <2>2 DEF ExecRollback
      <3> QED
        BY <2>1, <3>1, <3>2
    <2>3. CASE ~ExecRollback
      BY <2>1, <2>3 DEF ExecInspect, ExecEscalate, ExecRevoke, history
    <2> QED
      BY <2>2, <2>3
  <1>4. /\ pc = "step" /\ UNCHANGED <<setting, flags, pending, context, pc, stage, ret, nextId>>
        /\ \E h \in BOOLEAN : StepDone(h)
    BY DEF ExecInspect, ExecEscalate, ExecRevoke, ExecRollback, Executing
  <1>5. PICK h \in BOOLEAN : StepDone(h)
    BY <1>4
  <1>6. stack # <<>> /\ Top.kind = "program"
    BY <1>4 DEF ContainedInv, StackShape
  <1> DEFINE f == [Top EXCEPT !.at = @ + 1, !.hinted = @ \/ h]
  <1>7. f \in Program /\ f.prog = Top.prog /\ f.at = Top.at + 1
    <2>1. Top \in Program
      BY <1>6, TopFrame
    <2>2. Top.at + 1 \in Nat \ {0} /\ (Top.hinted \/ h) \in BOOLEAN
      BY <2>1 DEF Program
    <2> QED
      BY <2>1, <2>2 DEF Program
  <1>8. stack' = SetTop(f)
    BY <1>5 DEF StepDone
  <1> HIDE DEF f
  <1>9. stack' \in Seq(Frames(setting.v3)) /\ KnownIn(stack', mem', setting.v3)
    BY <1>2, <1>6, <1>7, <1>8, ProgramMoved
  <1> QED
    BY <1>2, <1>3, <1>4, <1>9, SoundAgain DEF TypeOK, Keeps, flags

LEMMA ReturnsSound ==
    ASSUME ContainedInv, TypeOK, Known, ReturnToProgram
    PROVE  TypeOK' /\ Known'
  <1> DEFINE f == [Top EXCEPT !.at = @ + 1, !.ok = ret, !.hinted = TRUE]
  <1>1. /\ stack # <<>> /\ Top.kind = "program" /\ stack' = SetTop(f) /\ pc' = "step"
        /\ UNCHANGED <<setting, tree, mem, flags, pending, context, stage, ret, nextId, history>>
    BY DEF ReturnToProgram
  <1>2. f \in Program /\ f.prog = Top.prog /\ f.at = Top.at + 1
    <2>1. Top \in Program /\ ret \in BOOLEAN
      BY <1>1, TopFrame DEF TypeOK
    <2>2. Top.at + 1 \in Nat \ {0}
      BY <2>1 DEF Program
    <2> QED
      BY <2>1, <2>2 DEF Program
  <1> HIDE DEF f
  <1>3. Keeps(mem', mem)
    BY <1>1, TypeParts DEF Keeps
  <1>4. stack' \in Seq(Frames(setting.v3)) /\ KnownIn(stack', mem', setting.v3)
    BY <1>1, <1>2, <1>3, ProgramMoved
  <1> QED
    BY <1>1, <1>3, <1>4, SoundAgain DEF TypeOK, Keeps, flags, history

LEMMA EndProgramSound ==
    ASSUME ContainedInv, TypeOK, Known, EndProgram
    PROVE  TypeOK' /\ Known'
  <1>1. /\ pc = "step" /\ pc' = "return" /\ ret' = Top.ok /\ stack' = Pop
        /\ UNCHANGED <<setting, tree, mem, flags, pending, context, stage, nextId, history>>
    BY DEF EndProgram
  <1>2. stack # <<>> /\ Top.kind = "program"
    BY <1>1 DEF ContainedInv, StackShape
  <1>3. ret' \in BOOLEAN
    BY <1>1, <1>2, TopFrame DEF Program
  <1>4. stack' \in Seq(Frames(setting.v3)) /\ KnownIn(stack', mem', setting.v3)
    BY <1>1, <1>2, TypeParts, Popped, KnownPop DEF Known, Pop
  <1> QED
    BY <1>1, <1>3, <1>4, TypeParts, SoundAgain DEF TypeOK, flags, history

(***************************************************************************)
(* Trials.                                                                 *)
(***************************************************************************)
(* The group on top of the stack, what it remembers and what is known.     *)
LEMMA TopGroup ==
    ASSUME TypeOK, Known, stack # <<>>, Top.kind = "group"
    PROVE  /\ Top \in Group(IF setting.v3 THEN Seq(RecoveryStep) ELSE CandidateAction)
           /\ Top.at \in Nat \ {0} /\ Top.base.mem \in Restorable
           /\ Top.base.calls \in Nat /\ Top.base.limit \in Nat
           /\ Top.base.enabled \in BOOLEAN /\ Top.base.capturing \in BOOLEAN
           /\ Top.all \in Seq(IF setting.v3 THEN Seq(RecoveryStep) ELSE CandidateAction)
           /\ CandidatesKnown(Top, setting.v3)
           /\ KnownIn(stack, Top.base.mem, setting.v3)
           /\ Pop \in Seq(Frames(setting.v3))
           /\ KnownIn(Pop, mem, setting.v3) /\ KnownIn(Pop, Top.base.mem, setting.v3)
  <1> DEFINE X == IF setting.v3 THEN Seq(RecoveryStep) ELSE CandidateAction
             S == Frames(setting.v3)
  <1>1. Top \in Group(X) /\ stack \in Seq(S)
    BY TopFrame, TypeParts
  <1> HIDE DEF X, S
  <1>2. /\ Top.at \in Nat \ {0} /\ Top.all \in Seq(X)
        /\ Top.base.calls \in Nat /\ Top.base.limit \in Nat
        /\ Top.base.enabled \in BOOLEAN /\ Top.base.capturing \in BOOLEAN
    BY <1>1 DEF Group
  <1>3. CandidatesKnown(Top, setting.v3) /\ KnownIn(stack, Top.base.mem, setting.v3)
    BY <1>1, KnownInBase DEF Known, Top
  <1>4. Top.base.mem \in Restorable
    BY <1>3 DEF CandidatesKnown
  <1>5. Pop \in Seq(S) /\ KnownIn(Pop, mem, setting.v3) /\ KnownIn(Pop, Top.base.mem, setting.v3)
    BY <1>1, <1>3, Popped, KnownPop DEF Pop, Known
  <1> QED
    BY <1>1, <1>2, <1>3, <1>4, <1>5 DEF X, S

LEMMA ReturnToTrialsSound ==
    ASSUME ContainedInv, TypeOK, Known, ReturnToTrials
    PROVE  TypeOK' /\ Known'
  <1> DEFINE v == setting.v3
             X == IF v THEN Seq(RecoveryStep) ELSE CandidateAction
             f == [Top EXCEPT !.at = @ + 1]
  <1>1. /\ stack # <<>> /\ Top.kind = "group" /\ stack' = SetTop(f) /\ pc' = "trial"
        /\ UNCHANGED <<setting, tree, mem, flags, pending, context, stage, ret, nextId, history>>
    BY DEF ReturnToTrials
  <1>2. /\ Top \in Group(X) /\ CandidatesKnown(Top, v) /\ v \in BOOLEAN
        /\ Pop \in Seq(Frames(v)) /\ KnownIn(Pop, mem, v) /\ KnownIn(Pop, Top.base.mem, v)
    BY <1>1, TopGroup, TypeParts
  <1>3. /\ f \in Group(X) /\ f.kind = "group" /\ f.base = Top.base /\ f.all = Top.all
        /\ f.pick = Top.pick
    <2> HIDE DEF X
    <2>1. Top.at + 1 \in Nat \ {0}
      BY <1>2 DEF Group
    <2> QED
      BY <1>2, <2>1 DEF Group
  <1>4. f \in Frames(v)
    BY <1>2, <1>3 DEF Frames
  <1>5. CandidatesKnown(f, v)
    BY <1>2, <1>3 DEF CandidatesKnown
  <1> HIDE DEF f, v
  <1>6. Append(Pop, f) \in Seq(Frames(v)) /\ KnownIn(Append(Pop, f), mem, v)
    BY <1>2, <1>3, <1>4, <1>5, Pushed, KnownPush
  <1>7. stack' \in Seq(Frames(setting.v3)) /\ KnownIn(stack', mem', setting.v3)
    BY <1>1, <1>6 DEF SetTop, v
  <1> QED
    BY <1>1, <1>7, TypeParts, SoundAgain DEF TypeOK, flags, history

LEMMA TryProgramSound ==
    ASSUME ContainedInv, TypeOK, Known, TryProgram
    PROVE  TypeOK' /\ Known'
  <1> DEFINE p == Top.all[Top.at]
             f == ProgramFrame(p)
             v == setting.v3
  <1>1. /\ stack # <<>> /\ Top.kind = "group" /\ v = TRUE /\ Top.at <= Len(Top.all)
        /\ stack' = Append(stack, f) /\ pc' = "step" /\ mem' = Top.base.mem
        /\ calls' = Top.base.calls /\ enabled' = FALSE /\ tree' = LatestCheckpoint(mem).tree
        /\ UNCHANGED <<setting, limit, capturing, pending, context, stage, ret, nextId, history>>
    BY TypeParts DEF TryProgram, ContainedInv, StackShape
  <1>2. /\ Top.all \in Seq(Seq(RecoveryStep)) /\ Top.at \in Nat \ {0}
        /\ Top.base.mem \in Restorable /\ Top.base.calls \in Nat
        /\ CandidatesKnown(Top, v) /\ KnownIn(stack, Top.base.mem, v)
        /\ stack \in Seq(Frames(v))
    BY <1>1, TopGroup, TypeParts
  <1>3. Top.at \in DOMAIN Top.all /\ p \in Seq(RecoveryStep)
    <2> DEFINE P == Seq(RecoveryStep)
    <2> HIDE DEF P
    <2>1. Top.all \in Seq(P)
      BY <1>2 DEF P
    <2>2. Top.at \in 1 .. Len(Top.all) /\ DOMAIN Top.all = 1 .. Len(Top.all)
      BY <1>1, <1>2, <2>1
    <2>3. p \in P
      BY <2>1, <2>2
    <2> QED
      BY <2>2, <2>3 DEF P
  <1>4. Named(p, 1, Top.base.mem)
    BY <1>1, <1>2, <1>3 DEF CandidatesKnown
  <1>5. /\ f \in Frames(v) /\ f.kind = "program" /\ f.prog = p /\ f.at = 1
    BY <1>1, <1>3, ProgramFrameOf
  <1> HIDE DEF f, v, p
  <1>6. Append(stack, f) \in Seq(Frames(v)) /\ KnownIn(Append(stack, f), Top.base.mem, v)
    BY <1>2, <1>4, <1>5, Pushed, KnownPush
  <1>7. stack' \in Seq(Frames(setting.v3)) /\ KnownIn(stack', mem', setting.v3)
    BY <1>1, <1>6 DEF v
  <1>8. tree' \in Nat
    BY <1>1, TypeParts, CheckpointType
  <1> QED
    BY <1>1, <1>2, <1>7, <1>8, SoundAgain DEF TypeOK, history

LEMMA AppliedAction ==
    ASSUME NEW m \in Restorable, NEW a \in CandidateAction, NEW t \in Nat, TypeOK,
           ApplyRecoveryAction(a, m, t)
    PROVE  /\ Keeps(mem', m) /\ tree' \in Nat
           /\ context' \in {"none", "plain", "feedback"} /\ pending' \in BOOLEAN
           /\ stage' \in Stages /\ pc' = "stage"
  <1> DEFINE q == IF a.kind = "QUARANTINE_FACT" THEN Quarantine(m, a.fact, "latest_patch") ELSE m
             told == pending /\ a.kind # "INSERT_VERIFIER" /\ a.resume # "verifier"
  <1>1. /\ IF a.kind = "INSERT_VERIFIER"
           THEN mem' = q /\ tree' = t
           ELSE mem' = ClearStageOutputsFrom(q, a.resume) /\ tree' = CheckpointFor(q, a.ckpt).tree
        /\ context' = IF told THEN "feedback" ELSE "plain"
        /\ pending' = (pending /\ ~told)
        /\ stage' = a.resume /\ pc' = "stage"
    BY DEF ApplyRecoveryAction
  <1>2. Keeps(q, m) /\ q \in Restorable
    BY MemUpdates DEF Keeps
  <1> HIDE DEF q
  <1>3. Keeps(mem', m)
    <2>1. Keeps(ClearStageOutputsFrom(q, a.resume), q)
      BY <1>2, MemUpdates
    <2> QED
      BY <1>1, <1>2, <2>1, KeepsMore
  <1>4. tree' \in Nat
    <2>1. CheckpointFor(q, a.ckpt).tree \in Nat
      BY <1>2, CheckpointType
    <2> QED
      BY <1>1, <2>1
  <1>5. pending' \in BOOLEAN /\ stage' \in Stages /\ context' \in {"none", "plain", "feedback"}
    BY <1>1 DEF TypeOK, CandidateAction
  <1> QED
    BY <1>1, <1>3, <1>4, <1>5

LEMMA TryActionSound ==
    ASSUME ContainedInv, TypeOK, Known, TryAction
    PROVE  TypeOK' /\ Known'
  <1> DEFINE a == Top.all[Top.at]
             t == CheckpointFor(mem, a.ckpt).tree
  <1>1. /\ stack # <<>> /\ Top.kind = "group" /\ setting.v3 = FALSE /\ Top.at <= Len(Top.all)
        /\ ApplyRecoveryAction(a, Top.base.mem, t)
        /\ calls' = Top.base.calls /\ enabled' = (setting.followups > 0) /\ capturing' = FALSE
        /\ limit' = Top.base.calls + setting.followups
        /\ UNCHANGED <<setting, ret, stack, nextId, history>>
    BY TypeParts DEF TryAction, ContainedInv, StackShape
  <1>2. /\ Top.all \in Seq(CandidateAction) /\ Top.at \in Nat \ {0}
        /\ Top.base.mem \in Restorable /\ Top.base.calls \in Nat
        /\ KnownIn(stack, Top.base.mem, setting.v3)
    BY <1>1, TopGroup
  <1>3. a \in CandidateAction
    <2>1. Top.at \in 1 .. Len(Top.all)
      BY <1>1, <1>2
    <2> QED
      BY <1>2, <2>1
  <1>4. t \in Nat
    BY TypeParts, CheckpointType
  <1> HIDE DEF a, t
  <1>5. /\ Keeps(mem', Top.base.mem) /\ tree' \in Nat
        /\ context' \in {"none", "plain", "feedback"} /\ pending' \in BOOLEAN
        /\ stage' \in Stages /\ pc' = "stage"
    BY <1>1, <1>2, <1>3, <1>4, AppliedAction
  <1>6. KnownIn(stack', mem', setting.v3) /\ stack' \in Seq(Frames(setting.v3))
    BY <1>1, <1>2, <1>5, KnownGrows, TypeParts DEF Keeps
  <1>7. calls' \in Nat /\ limit' \in Nat
    <2>1. setting.followups \in Nat
      BY TypeParts, SettingParts
    <2> QED
      BY <1>1, <1>2, <2>1
  <1>8. enabled' \in BOOLEAN
    BY <1>1
  <1>9. capturing' \in BOOLEAN
    BY <1>1
  <1> QED
    BY <1>1, <1>5, <1>6, <1>7, <1>8, <1>9, SoundAgain DEF TypeOK, Keeps, history

LEMMA EndTrialsSound ==
    ASSUME ContainedInv, TypeOK, Known, EndProgramTrials \/ EndActionTrials
    PROVE  TypeOK' /\ Known'
  <1> DEFINE v == setting.v3
             t == LatestCheckpoint(mem).tree
  <1>1. /\ stack # <<>> /\ Top.kind = "group"
        /\ calls' = Top.base.calls /\ enabled' = Top.base.enabled
        /\ limit' = Top.base.limit /\ capturing' = Top.base.capturing
        /\ UNCHANGED <<setting, nextId, judged>>
    BY DEF EndProgramTrials, EndActionTrials, PutBack, ContainedInv, StackShape, history
  <1>2. /\ Top.all \in Seq(IF v THEN Seq(RecoveryStep) ELSE CandidateAction)
        /\ Top.base.mem \in Restorable /\ CandidatesKnown(Top, v)
        /\ calls' \in Nat /\ limit' \in Nat /\ enabled' \in BOOLEAN /\ capturing' \in BOOLEAN
        /\ Pop \in Seq(Frames(v)) /\ KnownIn(Pop, Top.base.mem, v) /\ v \in BOOLEAN
    BY <1>1, TopGroup, TypeParts
  <1>3. t \in Nat
    BY TypeParts, CheckpointType
  <1>4. CASE EndProgramTrials
    <2>1. /\ v = TRUE /\ tree' = t /\ mem' = Top.base.mem
          /\ UNCHANGED <<pending, context, stage>>
          /\ \/ /\ \E p \in Range(Top.all) : stack' = SetTop(ProgramFrame(p))
                /\ pc' = "step" /\ ret' = ret
             \/ stack' = Pop /\ pc' = "return" /\ ret' = FALSE
      BY <1>2, <1>4 DEF EndProgramTrials
    <2>2. stack' \in Seq(Frames(v)) /\ KnownIn(stack', Top.base.mem, v)
      <3>1. CASE stack' = Pop
        BY <1>2, <3>1
      <3>2. CASE \E p \in Range(Top.all) : stack' = SetTop(ProgramFrame(p))
        <4>1. PICK i \in DOMAIN Top.all : stack' = SetTop(ProgramFrame(Top.all[i]))
          BY <3>2 DEF Range
        <4> DEFINE p == Top.all[i]
                   f == ProgramFrame(p)
                   P == Seq(RecoveryStep)
        <4>2. p \in P
          <5> HIDE DEF P
          <5>1. Top.all \in Seq(P)
            BY <1>2, <2>1 DEF P
          <5> QED
            BY <5>1
        <4>3. Named(p, 1, Top.base.mem)
          BY <1>2, <2>1 DEF CandidatesKnown
        <4>4. f \in Frames(v) /\ f.kind = "program" /\ f.prog = p /\ f.at = 1
          BY <2>1, <4>2, ProgramFrameOf
        <4>5. stack' = Append(Pop, f)
          BY <4>1 DEF SetTop
        <4> HIDE DEF f, p
        <4> HIDE DEF v
        <4> QED
          BY <1>2, <4>3, <4>4, <4>5, Pushed, KnownPush
      <3> QED
        BY <2>1, <3>1, <3>2
    <2>3. ret' \in BOOLEAN /\ pc' \in {"step", "return"}
      BY <2>1 DEF TypeOK
    <2> QED
      BY <1>1, <1>2, <1>3, <2>1, <2>2, <2>3, SoundAgain DEF TypeOK
  <1>5. CASE EndActionTrials
    <2> DEFINE a == Top.all[Top.pick]
    <2>1. /\ v = FALSE /\ ApplyRecoveryAction(a, Top.base.mem, t)
          /\ stack' = Pop /\ ret' = ret
      BY <1>2, <1>5 DEF EndActionTrials
    <2>2. a \in CandidateAction
      <3>1. Top.all \in Seq(CandidateAction) /\ Top.pick \in DOMAIN Top.all
        BY <1>2, <2>1 DEF CandidatesKnown
      <3> QED
        BY <3>1
    <2> HIDE DEF a, t
    <2>3. /\ Keeps(mem', Top.base.mem) /\ tree' \in Nat
          /\ context' \in {"none", "plain", "feedback"} /\ pending' \in BOOLEAN
          /\ stage' \in Stages /\ pc' = "stage"
      BY <1>2, <1>3, <2>1, <2>2, AppliedAction
    <2>4. KnownIn(stack', mem', v) /\ stack' \in Seq(Frames(v))
      BY <1>2, <2>1, <2>3, KnownGrows DEF Keeps
    <2> QED
      BY <1>1, <1>2, <2>1, <2>3, <2>4, SoundAgain DEF TypeOK, Keeps
  <1> QED
    BY <1>4, <1>5

(***************************************************************************)
(* What is synthesised, and the actions that are enumerated, name          *)
(* checkpoints of the memory as it stands.                                 *)
(***************************************************************************)
LEMMA IdsForType ==
    ASSUME TypeOK, NEW op
    PROVE  /\ IdsFor(op) \subseteq Nat
           /\ op = "ROLLBACK" => IdsFor(op) \subseteq {0} \cup Ids(mem)
  <1>1. Ids(mem) \subseteq Nat
    BY TypeParts, CheckpointType
  <1>2. {mem.ckpts[i].id : i \in {j \in DOMAIN mem.ckpts : j > Len(mem.ckpts) - 4}}
            \subseteq Ids(mem)
    BY DEF Ids
  <1>3. {mem.facts[k] : k \in FactKeys} \subseteq Nat
    BY TypeParts DEF Mem
  <1>4. CASE op = "ROLLBACK"
    BY <1>1, <1>2, <1>4 DEF IdsFor
  <1>5. CASE op = "REVOKE"
    BY <1>3, <1>5 DEF IdsFor
  <1>6. CASE op # "ROLLBACK" /\ op # "REVOKE"
    BY <1>6 DEF IdsFor
  <1> QED
    BY <1>4, <1>5, <1>6

LEMMA SynthesisedType ==
    ASSUME TypeOK, NEW q \in Synthesised
    PROVE  q \in Seq(RecoveryStep) /\ Named(q, 1, mem)
  <1>1. PICK p \in Programs :
           \E ids \in [DOMAIN p -> UNION {IdsFor(p[i].op) : i \in DOMAIN p}] :
              /\ q = [i \in DOMAIN p |-> [p[i] EXCEPT !.id = ids[i]]]
              /\ \A i \in DOMAIN p : ids[i] \in IdsFor(p[i].op)
    BY DEF Synthesised
  <1>2. PICK ids \in [DOMAIN p -> UNION {IdsFor(p[i].op) : i \in DOMAIN p}] :
              /\ q = [i \in DOMAIN p |-> [p[i] EXCEPT !.id = ids[i]]]
              /\ \A i \in DOMAIN p : ids[i] \in IdsFor(p[i].op)
    BY <1>1
  <1>3. p \in Seq(RecoveryStep) /\ DOMAIN p = 1 .. Len(p) /\ Len(p) \in Nat
    BY ProgramsAssumption
  <1>4. ASSUME NEW i \in DOMAIN p
        PROVE  /\ q[i] \in RecoveryStep /\ q[i].op = p[i].op
               /\ q[i].op = "ROLLBACK" /\ q[i].id # 0 => q[i].id \in Ids(mem)
    <2>1. p[i] \in RecoveryStep
      BY <1>3
    <2>2. /\ ids[i] \in Nat
          /\ p[i].op = "ROLLBACK" => ids[i] \in {0} \cup Ids(mem)
      BY <1>2, IdsForType
    <2>3. q[i] = [p[i] EXCEPT !.id = ids[i]]
      BY <1>2
    <2> QED
      BY <2>1, <2>2, <2>3 DEF RecoveryStep
  <1>5. q \in [1 .. Len(p) -> RecoveryStep]
    BY <1>2, <1>3, <1>4
  <1>6. q \in Seq(RecoveryStep) /\ Len(q) = Len(p)
    BY <1>3, <1>5
  <1> QED
    BY <1>3, <1>4, <1>6 DEF Named

LEMMA AnchorType ==
    ASSUME NEW m \in Mem, Anchor(m) # "none"
    PROVE  Anchor(m) \in Stages
  BY DEF Anchor, Mem, Stages

LEMMA ActionsType ==
    ASSUME TypeOK, Anchor(mem) # "none"
    PROVE  /\ Actions \in Seq(CandidateAction) /\ DOMAIN Actions = 1 .. Len(Actions)
           /\ \A i \in DOMAIN Actions : Actions[i] \in CandidateAction /\ Actions[i].ckpt \in Ids(mem)
  <1> DEFINE C == {a \in CandidateAction : a.ckpt \in Ids(mem)}
             anchor == Anchor(mem)
  <1>1. /\ LatestCheckpoint(mem).id \in Ids(mem) /\ LatestCheckpoint(mem).id \in Nat
        /\ LatestCheckpoint(mem).label \in DOMAIN ResumeFrom
    BY TypeParts, CheckpointType
  <1>2. Suspect(mem) \in Nat
    BY TypeParts, SuspectType
  <1>3. anchor \in Stages
    BY TypeParts, AnchorType
  <1>4. ResumeFrom[LatestCheckpoint(mem).label] \in Stages
    BY <1>1 DEF ResumeFrom, Stages
  <1>5. ASSUME NEW kind \in {"QUARANTINE_FACT", "ROLLBACK_TO_CHECKPOINT", "REPLAY_SUBGRAPH",
                             "INSERT_VERIFIER", "ESCALATE_NODE"}, NEW resume \in Stages
        PROVE  Action(kind, resume) \in C
    BY <1>1, <1>2 DEF Action, CandidateAction
  <1>6. /\ Action("QUARANTINE_FACT", IF anchor = "locator" THEN "locator" ELSE "patcher") \in C
        /\ Action("ROLLBACK_TO_CHECKPOINT", ResumeFrom[LatestCheckpoint(mem).label]) \in C
        /\ Action("REPLAY_SUBGRAPH", anchor) \in C
        /\ Action("INSERT_VERIFIER", "verifier") \in C
        /\ Action("ESCALATE_NODE", anchor) \in C
    BY <1>3, <1>4, <1>5 DEF Stages
  <1> HIDE DEF C
  <1>7. Actions \in Seq(C)
    BY <1>6 DEF Actions
  <1>8. DOMAIN Actions = 1 .. Len(Actions) /\ \A i \in DOMAIN Actions : Actions[i] \in C
    BY <1>7
  <1>9. C \subseteq CandidateAction
    BY DEF C
  <1>10. Actions \in Seq(CandidateAction)
    BY <1>7, <1>9
  <1> QED
    BY <1>8, <1>10 DEF C

LEMMA GroupOpened ==
    ASSUME TypeOK, Known, NEW c \in Nat, NEW pick \in Nat, NEW all,
           all \in Seq(IF setting.v3 THEN Seq(RecoveryStep) ELSE CandidateAction),
           IF setting.v3 THEN \A k \in DOMAIN all : Named(all[k], 1, mem)
           ELSE pick \in DOMAIN all /\ \A k \in DOMAIN all : all[k].ckpt \in Ids(mem)
    PROVE  /\ Append(stack, GroupFrame(all, pick, c)) \in Seq(Frames(setting.v3))
           /\ KnownIn(Append(stack, GroupFrame(all, pick, c)), mem, setting.v3)
  <1> DEFINE f == GroupFrame(all, pick, c)
             v == setting.v3
             C == IF v THEN Seq(RecoveryStep) ELSE CandidateAction
  <1>1. /\ v \in BOOLEAN /\ mem \in Restorable /\ mem \in Mem /\ stack \in Seq(Frames(v))
        /\ KnownIn(stack, mem, v)
    BY TypeParts DEF Known
  <1>2. enabled \in BOOLEAN /\ capturing \in BOOLEAN /\ limit \in Nat
    BY DEF TypeOK
  <1>3. f.kind = "group" /\ f.all = all /\ f.pick = pick /\ f.base.mem = mem
    BY DEF GroupFrame
  <1>4. f \in Group(C)
    <2> DEFINE S == Seq(C)
    <2>1. all \in S
      OBVIOUS
    <2> HIDE DEF S, C
    <2>2. f \in Group(C)
      BY <1>1, <1>2, <2>1 DEF GroupFrame, Group, S
    <2> QED
      BY <2>2
  <1>5. f \in Frames(v)
    BY <1>1, <1>4 DEF Frames
  <1>6. CandidatesKnown(f, v)
    BY <1>1, <1>3 DEF CandidatesKnown
  <1> HIDE DEF f, v, C
  <1>7. Append(stack, f) \in Seq(Frames(v)) /\ KnownIn(Append(stack, f), mem, v)
    BY <1>1, <1>3, <1>5, <1>6, Pushed, KnownPush
  <1> QED
    BY <1>7 DEF f, v

LEMMA RecoverByProgramSound ==
    ASSUME TypeOK, Known, RecoverByProgram
    PROVE  TypeOK' /\ Known'
  <1>1. /\ setting.v3 = TRUE /\ calls' = calls + 1
        /\ UNCHANGED <<setting, tree, mem, enabled, limit, capturing, pending, context,
                       stage, nextId, judged>>
        /\ \/ /\ \E c \in CandidateLists : stack' = Append(stack, GroupFrame(c, 0, calls'))
              /\ pc' = "trial" /\ ret' = ret
           \/ ret' = FALSE /\ pc' = "return" /\ stack' = stack
           \/ /\ \E p \in Synthesised : stack' = Append(stack, ProgramFrame(p))
              /\ pc' = "step" /\ ret' = ret
    BY TypeParts DEF RecoverByProgram, Recovering, ExecuteLive, history
  <1>2. calls' \in Nat /\ mem \in Restorable /\ stack \in Seq(Frames(setting.v3))
    BY <1>1, TypeParts DEF TypeOK
  <1>3. stack' \in Seq(Frames(setting.v3)) /\ KnownIn(stack', mem, setting.v3)
    <2>1. CASE \E c \in CandidateLists : stack' = Append(stack, GroupFrame(c, 0, calls'))
      <3>1. PICK c \in CandidateLists : stack' = Append(stack, GroupFrame(c, 0, calls'))
        BY <2>1
      <3>2. PICK n \in 1 .. MaxCandidates : c \in [1 .. n -> Synthesised]
        BY DEF CandidateLists
      <3>3. \A k \in 1 .. n : c[k] \in Seq(RecoveryStep) /\ Named(c[k], 1, mem)
        BY <3>2, SynthesisedType
      <3>4. n \in Nat /\ DOMAIN c = 1 .. n
        BY <3>2, CandidatesAssumption
      <3> DEFINE P == Seq(RecoveryStep)
      <3>5. \A k \in 1 .. n : c[k] \in P
        BY <3>3
      <3> HIDE DEF P
      <3>6. c \in [1 .. n -> P]
        BY <3>2, <3>5
      <3>7. c \in Seq(P)
        BY <3>4, <3>6
      <3>8. c \in Seq(IF setting.v3 THEN Seq(RecoveryStep) ELSE CandidateAction)
        BY <1>1, <3>7 DEF P
      <3>9. IF setting.v3 THEN \A k \in DOMAIN c : Named(c[k], 1, mem)
            ELSE 0 \in DOMAIN c /\ \A k \in DOMAIN c : c[k].ckpt \in Ids(mem)
        BY <1>1, <3>3, <3>4
      <3>10. PICK spent \in Nat : spent = calls'
        BY <1>2
      <3> QED
        BY <3>1, <3>8, <3>9, <3>10, GroupOpened
    <2>2. CASE \E p \in Synthesised : stack' = Append(stack, ProgramFrame(p))
      <3>1. PICK p \in Synthesised : stack' = Append(stack, ProgramFrame(p))
        BY <2>2
      <3> DEFINE f == ProgramFrame(p)
                 v == setting.v3
      <3>2. p \in Seq(RecoveryStep) /\ Named(p, 1, mem)
        BY SynthesisedType
      <3>3. f \in Frames(v) /\ f.kind = "program" /\ f.prog = p /\ f.at = 1
        BY <1>1, <3>2, ProgramFrameOf
      <3>4. stack \in Seq(Frames(v)) /\ KnownIn(stack, mem, v) /\ stack' = Append(stack, f)
        BY <1>2, <3>1 DEF Known
      <3> HIDE DEF f, v
      <3>5. stack' \in Seq(Frames(v)) /\ KnownIn(stack', mem, v)
        BY <3>2, <3>3, <3>4, Pushed, KnownPush
      <3> QED
        BY <3>5 DEF v
    <2>3. CASE stack' = stack
      BY <1>2, <2>3 DEF Known
    <2> QED
      BY <1>1, <2>1, <2>2, <2>3
  <1>4. pc' \in {"trial", "return", "step"} /\ ret' \in BOOLEAN
    BY <1>1 DEF TypeOK
  <1> QED
    BY <1>1, <1>2, <1>3, <1>4, SoundAgain DEF TypeOK

LEMMA RecoverByActionSound ==
    ASSUME TypeOK, Known, RecoverByAction
    PROVE  TypeOK' /\ Known'
  <1>1. /\ setting.v3 = FALSE /\ calls' = calls + 1 /\ Anchor(mem) # "none"
        /\ UNCHANGED <<setting, enabled, limit, capturing, ret, nextId, judged>>
        /\ \E i \in DOMAIN Actions :
              \/ /\ stack' = Append(stack, GroupFrame(Actions, i, calls')) /\ pc' = "trial"
                 /\ UNCHANGED <<mem, tree, context, pending, stage>>
              \/ ApplyRecoveryAction(Actions[i], mem, tree) /\ stack' = stack
    BY TypeParts DEF RecoverByAction, Recovering, history
  <1>2. calls' \in Nat /\ mem \in Restorable /\ stack \in Seq(Frames(setting.v3)) /\ tree \in Nat
    BY <1>1, TypeParts DEF TypeOK
  <1>3. /\ Actions \in Seq(CandidateAction) /\ DOMAIN Actions = 1 .. Len(Actions)
        /\ \A i \in DOMAIN Actions : Actions[i] \in CandidateAction /\ Actions[i].ckpt \in Ids(mem)
    BY <1>1, ActionsType
  <1>4. PICK i \in DOMAIN Actions :
              \/ /\ stack' = Append(stack, GroupFrame(Actions, i, calls')) /\ pc' = "trial"
                 /\ UNCHANGED <<mem, tree, context, pending, stage>>
              \/ ApplyRecoveryAction(Actions[i], mem, tree) /\ stack' = stack
    BY <1>1
  <1>5. CASE /\ stack' = Append(stack, GroupFrame(Actions, i, calls')) /\ pc' = "trial"
             /\ UNCHANGED <<mem, tree, context, pending, stage>>
    <2>1. PICK all : all = Actions
      OBVIOUS
    <2>2. PICK spent \in Nat : spent = calls'
      BY <1>2
    <2>3. i \in Nat /\ i \in DOMAIN all
      BY <1>3, <2>1
    <2>4. all \in Seq(IF setting.v3 THEN Seq(RecoveryStep) ELSE CandidateAction)
      BY <1>1, <1>3, <2>1
    <2>5. IF setting.v3 THEN \A k \in DOMAIN all : Named(all[k], 1, mem)
          ELSE i \in DOMAIN all /\ \A k \in DOMAIN all : all[k].ckpt \in Ids(mem)
      BY <1>1, <1>3, <2>1
    <2>6. stack' \in Seq(Frames(setting.v3)) /\ KnownIn(stack', mem', setting.v3)
      BY <1>5, <2>1, <2>2, <2>3, <2>4, <2>5, GroupOpened
    <2> QED
      BY <1>1, <1>2, <1>5, <2>6, SoundAgain DEF TypeOK
  <1>6. CASE ApplyRecoveryAction(Actions[i], mem, tree) /\ stack' = stack
    <2>1. PICK a \in CandidateAction : a = Actions[i]
      BY <1>3
    <2>2. /\ Keeps(mem', mem) /\ tree' \in Nat
          /\ context' \in {"none", "plain", "feedback"} /\ pending' \in BOOLEAN
          /\ stage' \in Stages /\ pc' = "stage"
      BY <1>2, <1>6, <2>1, AppliedAction
    <2>3. stack' \in Seq(Frames(setting.v3)) /\ KnownIn(stack', mem', setting.v3)
      BY <1>2, <1>6, <2>2, KnownGrows DEF Keeps, Known
    <2> QED
      BY <1>1, <1>2, <2>2, <2>3, SoundAgain DEF TypeOK, Keeps
  <1> QED
    BY <1>4, <1>5, <1>6

LEMMA SoundInit == Init => TypeOK /\ Known
  <1> SUFFICES ASSUME Init
               PROVE  TypeOK /\ Known
    OBVIOUS
  <1> DEFINE C == [id : Nat, label : DOMAIN ResumeFrom, tree : Nat]
             c == [id |-> 1, label |-> "initial", tree |-> Base]
  <1>1. <<c>> \in Seq(C)
    <2>1. c \in C
      BY DEF Base, ResumeFrom
    <2> HIDE DEF C, c
    <2> QED
      BY <2>1
  <1>2. IsFiniteSet({})
    BY FS_EmptySet
  <1>3. mem \in Mem /\ mem.ckpts # <<>>
    <2>1. mem = [EmptyMem EXCEPT !.ckpts = <<c>>] /\ <<c>> # <<>>
      BY DEF Init, StartMem
    <2> HIDE DEF c
    <2> QED
      BY <1>1, <1>2, <2>1 DEF EmptyMem, Mem
  <1>4. setting \in Settings /\ setting.budget \in Nat /\ setting.capture \in BOOLEAN
    BY SettingParts DEF Init
  <1>5. stack \in IF setting.v3 THEN Seq(Program \cup Group(Seq(RecoveryStep)))
                 ELSE Seq(Group(CandidateAction))
    <2>1. \A S : <<>> \in Seq(S)
      OBVIOUS
    <2>2. stack = <<>>
      BY DEF Init
    <2> QED
      BY <2>1, <2>2
  <1>6. /\ enabled \in BOOLEAN /\ capturing \in BOOLEAN /\ pending \in BOOLEAN /\ ret \in BOOLEAN
        /\ judged \in [pass : BOOLEAN, tree : Nat, undone : BOOLEAN]
    BY <1>4 DEF Init, Base
  <1>7. /\ tree \in Nat /\ nextId \in Nat /\ calls \in Nat /\ limit \in Nat
        /\ context = "none" /\ pc = "stage" /\ stage \in Stages
    BY <1>4 DEF Init, Base, Stages
  <1>8. TypeOK
    BY <1>3, <1>4, <1>5, <1>6, <1>7 DEF TypeOK
  <1>9. Known
    BY DEF Init, Known, KnownIn
  <1> QED
    BY <1>8, <1>9

LEMMA SoundNext == ContainedInv /\ TypeOK /\ Known /\ [Next]_vars => TypeOK' /\ Known'
  <1> SUFFICES ASSUME ContainedInv, TypeOK, Known, [Next]_vars
               PROVE  TypeOK' /\ Known'
    OBVIOUS
  <1>1. CASE UNCHANGED vars
    BY <1>1 DEF vars, TypeOK, Known
  <1>2. CASE RunLocator
    BY <1>2, LocatorSound
  <1>3. CASE RunPatcher
    BY <1>3, PatcherSound
  <1>4. CASE VerifierPasses \/ VerifierFails
    BY <1>4, VerdictsSound
  <1>5. CASE GiveUp \/ ExecReplay \/ Finish
    BY <1>5, StartsAndEndsSound
  <1>6. CASE RecoverByProgram
    BY <1>6, RecoverByProgramSound
  <1>7. CASE RecoverByAction
    BY <1>7, RecoverByActionSound
  <1>8. CASE TryProgram
    BY <1>8, TryProgramSound
  <1>9. CASE TryAction
    BY <1>9, TryActionSound
  <1>10. CASE EndProgramTrials \/ EndActionTrials
    BY <1>10, EndTrialsSound
  <1>11. CASE ExecInspect \/ ExecEscalate \/ ExecRevoke \/ ExecRollback
    BY <1>11, StepsSound
  <1>12. CASE EndProgram
    BY <1>12, EndProgramSound
  <1>13. CASE ReturnToProgram
    BY <1>13, ReturnsSound
  <1>14. CASE ReturnToTrials
    BY <1>14, ReturnToTrialsSound
  <1> QED
    BY <1>1, <1>2, <1>3, <1>4, <1>5, <1>6, <1>7, <1>8, <1>9, <1>10, <1>11, <1>12, <1>13, <1>14
       DEF Next

LEMMA KnownSuffices == TypeOK /\ Known => NamedCheckpointsSurvive
  <1> SUFFICES ASSUME TypeOK, Known, NEW i \in DOMAIN stack
               PROVE  LET f == stack[i] IN
                      IF f.kind = "program"
                      THEN \A j \in f.at .. Len(f.prog) :
                              f.prog[j].op = "ROLLBACK" /\ f.prog[j].id # 0 =>
                                  GetCheckpoint(mem, f.prog[j].id) # {}
                      ELSE \A j \in DOMAIN f.all :
                              IF setting.v3
                              THEN \A k \in 1 .. Len(f.all[j]) :
                                      f.all[j][k].op = "ROLLBACK" /\ f.all[j][k].id # 0 =>
                                          GetCheckpoint(f.base.mem, f.all[j][k].id) # {}
                              ELSE GetCheckpoint(f.base.mem, f.all[j].ckpt) # {}
    BY DEF NamedCheckpointsSurvive
  <1>1. \A m \in Restorable : \A id : id \in Ids(m) <=> GetCheckpoint(m, id) # {}
    BY CheckpointType
  <1>2. mem \in Restorable /\ KnownIn(stack, mem, setting.v3)
    BY TypeParts DEF Known
  <1>3. stack[i].kind \in {"program", "group"}
    <2> DEFINE F == Frames(setting.v3)
    <2>1. stack \in Seq(F) /\ setting.v3 \in BOOLEAN
      BY TypeParts
    <2> HIDE DEF F
    <2>2. stack[i] \in F
      BY <2>1
    <2> QED
      BY <2>1, <2>2, FrameTypes DEF F
  <1>4. CASE stack[i].kind = "program"
    <2>1. Named(stack[i].prog, stack[i].at, mem)
      BY <1>2, <1>4 DEF KnownIn
    <2> QED
      BY <1>1, <1>2, <1>4, <2>1 DEF Named
  <1>5. CASE stack[i].kind = "group"
    <2>1. CandidatesKnown(stack[i], setting.v3)
      BY <1>2, <1>5 DEF KnownIn
    <2> QED
      BY <1>1, <1>5, <2>1 DEF CandidatesKnown, Named
  <1> QED
    BY <1>3, <1>4, <1>5

(* Every variable keeps to its values, whatever the settings, the programs *)
(* and the number of candidates; so a restore finds a checkpoint, however  *)
(* the trials and the nested recoveries have put the index back.           *)
THEOREM TypeCorrect == Spec => []TypeOK
  <1> QED
    BY InitContained, StepContained, SoundInit, SoundNext, PTL DEF Spec

(* A ROLLBACK whose program names a checkpoint finds that one: the         *)
(* get_checkpoint of the coordinator and of the executor never silently    *)
(* turns into latest_checkpoint, for programs and actions that still wait  *)
(* for their trial either.                                                 *)
THEOREM NamedCheckpointsStay == Spec => []NamedCheckpointsSurvive
  <1> QED
    BY InitContained, StepContained, SoundInit, SoundNext, KnownSuffices, PTL DEF Spec

=============================================================================
