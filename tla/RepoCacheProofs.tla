-------------------------- MODULE RepoCacheProofs --------------------------
(***************************************************************************)
(* What the lock file and the shared clone guarantee, for every set of     *)
(* workers and every bound of RepoCache.                                   *)
(***************************************************************************)
EXTENDS RepoCache, TLAPS

(* Who holds the lock file is between its creation and its removal.        *)
Holding == \A w \in Workers : acquired[w] => pc[w] \in InCache

LockInv == LockHeldByOne /\ Holding

(* Without timeouts a directory that is being filled is filled by the one  *)
(* worker whose git clone runs, nothing cleans up, and a linked tree finds *)
(* its clone whole.                                                        *)
FillingInv ==
    ~ ClonesTimeOut =>
        /\ \A w \in Workers : imported[w] = FALSE /\ (pc[w] = "cloning" => author = w)
        /\ author # Nobody => cache = "partial" /\ pc[author] = "cloning"
        /\ \A w \in Workers : tree[w] = "linked" => cache = "full"

(* Undisturbed, nobody is past the lock without it, there is no lock file  *)
(* without its maker, and no partial clone without a git at work on it.    *)
CalmInv ==
    Undisturbed =>
        /\ \A w \in Workers : pc[w] \in InCache => acquired[w]
        /\ lock => \E w \in Workers : acquired[w]
        /\ cache = "partial" => author # Nobody

-----------------------------------------------------------------------------
LEMMA Bounds == 0 \in 0 .. MaxAttempts /\ 1 \in 0 .. MaxAttempts /\ 0 \in 0 .. MaxRestarts
  BY AttemptsAssumption, RestartsAssumption

LEMMA InitType == Init => TypeOK
  <1> SUFFICES ASSUME Init PROVE TypeOK
    OBVIOUS
  <1>1. attempt \in [Workers -> 0 .. MaxAttempts] /\ restarts \in 0 .. MaxRestarts
    BY Bounds, Zenon DEF Init, Fresh
  <1>2. /\ pace \in Paces
        /\ lock \in BOOLEAN /\ cache \in {"none", "partial", "full"}
        /\ author \in Workers \cup {Nobody}
        /\ tree \in [Workers -> {"none", "linked", "orphan"}]
        /\ pc \in [Workers -> Labels]
        /\ acquired \in [Workers -> BOOLEAN]
        /\ imported \in [Workers -> BOOLEAN]
        /\ result \in [Workers -> {"none", "cache", "ready", "error"}]
    BY DEF Init, Fresh, Labels
  <1> QED
    BY <1>1, <1>2 DEF TypeOK

LEMMA StepType == TypeOK /\ [Next]_vars => TypeOK'
  <1> SUFFICES ASSUME TypeOK, [Next]_vars PROVE TypeOK'
    OBVIOUS
  <1> USE AttemptsAssumption, RestartsAssumption DEF TypeOK, Labels, Goto, Get, batch
  <1>1. CASE Restart
    BY <1>1 DEF Restart, Fresh
  <1>2. ASSUME NEW w \in Workers, Worker(w) PROVE TypeOK'
    <2>1. CASE TryLock(w)
      BY <2>1 DEF TryLock
    <2>2. CASE GiveUpLock(w)
      BY <2>2 DEF GiveUpLock, disk
    <2>3. CASE CheckCache(w)
      <3>1. attempt' \in [Workers -> 0 .. MaxAttempts]
        BY <2>3, Bounds DEF CheckCache
      <3> QED
        BY <2>3, <3>1 DEF CheckCache, disk
    <2>4. CASE StartClone(w)
      BY <2>4 DEF StartClone
    <2>5. CASE CloneSucceeds(w)
      BY <2>5 DEF CloneSucceeds
    <2>6. CASE CloneFails(w)
      BY <2>6 DEF CloneFails
    <2>7. CASE CleanUp(w)
      BY <2>7 DEF CleanUp, RemoveCache, Retry
    <2>8. CASE CloneTimesOut(w)
      BY <2>8 DEF CloneTimesOut, RemoveCache, Retry
    <2>9. CASE CloneRaises(w)
      BY <2>9 DEF CloneRaises, Retry, disk
    <2>10. CASE Judge(w)
      BY <2>10 DEF Judge, disk
    <2>11. CASE Unlock(w)
      BY <2>11 DEF Unlock
    <2>12. CASE AddTree(w)
      BY <2>12 DEF AddTree
    <2>13. CASE ResetTree(w)
      BY <2>13 DEF ResetTree, disk
    <2> QED
      BY <1>2, <2>1, <2>2, <2>3, <2>4, <2>5, <2>6, <2>7, <2>8, <2>9, <2>10,
         <2>11, <2>12, <2>13 DEF Worker
  <1>3. CASE UNCHANGED vars
    BY <1>3 DEF vars, disk, locals, batch
  <1> QED
    BY <1>1, <1>2, <1>3 DEF Next

(* The state is well typed in every reachable state.                       *)
THEOREM CacheTypes == Spec => []TypeOK
  BY InitType, StepType, PTL DEF Spec

-----------------------------------------------------------------------------
(* A run keeps its pace.                                                   *)
LEMMA PaceStays ==
    [Next]_vars => /\ pace' = pace
                   /\ WaitsExpire' = WaitsExpire /\ ClonesTimeOut' = ClonesTimeOut
  <1> SUFFICES ASSUME [Next]_vars PROVE pace' = pace
    BY DEF WaitsExpire, ClonesTimeOut
  <1>1. CASE Restart
    BY <1>1 DEF Restart
  <1>2. ASSUME NEW w \in Workers, Worker(w) PROVE pace' = pace
    BY <1>2, Zenon DEF Worker, TryLock, GiveUpLock, CheckCache, StartClone,
       CloneSucceeds, CloneFails, CleanUp, CloneTimesOut, CloneRaises, Judge,
       Unlock, AddTree, ResetTree, batch
  <1>3. CASE UNCHANGED vars
    BY <1>3 DEF vars, batch
  <1> QED
    BY <1>1, <1>2, <1>3 DEF Next

-----------------------------------------------------------------------------
(* The lock.                                                               *)

LEMMA InitLock == Init => LockInv
  BY DEF Init, LockInv, LockHeldByOne, Holding, Fresh

(* What a step of a worker past the lock may do to it.                     *)
LEMMA LockSteps ==
    ASSUME TypeOK, NEW w \in Workers, Worker(w)
    PROVE  \/ TryLock(w)
           \/ Unlock(w)
           \/ /\ UNCHANGED <<lock, acquired>>
              /\ \A v \in Workers : v # w => pc'[v] = pc[v]
              /\ pc[w] \in InCache \ {"unlock"} => pc'[w] \in InCache
  <1> USE DEF TypeOK, Labels, Goto, InCache
  <1>1. CASE GiveUpLock(w)
    BY <1>1 DEF GiveUpLock, disk
  <1>2. CASE CheckCache(w)
    BY <1>2 DEF CheckCache, disk
  <1>3. CASE StartClone(w)
    BY <1>3 DEF StartClone
  <1>4. CASE CloneSucceeds(w)
    BY <1>4 DEF CloneSucceeds
  <1>5. CASE CloneFails(w)
    BY <1>5 DEF CloneFails
  <1>6. CASE CleanUp(w)
    BY <1>6 DEF CleanUp, Retry
  <1>7. CASE CloneTimesOut(w)
    BY <1>7 DEF CloneTimesOut, Retry
  <1>8. CASE CloneRaises(w)
    BY <1>8 DEF CloneRaises, Retry, disk
  <1>9. CASE Judge(w)
    BY <1>9 DEF Judge, disk
  <1>10. CASE AddTree(w)
    BY <1>10 DEF AddTree
  <1>11. CASE ResetTree(w)
    BY <1>11 DEF ResetTree, disk
  <1> QED
    BY <1>1, <1>2, <1>3, <1>4, <1>5, <1>6, <1>7, <1>8, <1>9, <1>10, <1>11
       DEF Worker

LEMMA StepLock == TypeOK /\ LockInv /\ [Next]_vars => LockInv'
  <1> SUFFICES ASSUME TypeOK, LockInv, [Next]_vars PROVE LockInv'
    OBVIOUS
  <1> USE DEF TypeOK, LockInv, LockHeldByOne, Holding
  <1>1. CASE Restart
    BY <1>1 DEF Restart, Fresh
  <1>2. ASSUME NEW w \in Workers, Worker(w) PROVE LockInv'
    <2>1. CASE TryLock(w)
      BY <2>1 DEF TryLock, Goto, InCache
    <2>2. CASE Unlock(w)
      <3>1. pc[w] = "unlock" /\ acquired'[w] = FALSE
        BY <2>2 DEF Unlock
      <3>2. \A v \in Workers : v # w => acquired'[v] = acquired[v] /\ pc'[v] = pc[v]
        BY <2>2 DEF Unlock, Goto
      <3>3. ASSUME NEW v \in Workers, acquired'[v] PROVE lock' /\ v # w /\ acquired[v]
        <4>1. v # w /\ acquired[v]
          BY <3>1, <3>2, <3>3
        <4>2. lock /\ ~ acquired[w]
          BY <4>1
        <4> QED
          BY <4>1, <4>2, <2>2 DEF Unlock
      <3> QED
        BY <3>2, <3>3
    <2>3. CASE /\ UNCHANGED <<lock, acquired>>
               /\ \A v \in Workers : v # w => pc'[v] = pc[v]
               /\ pc[w] \in InCache \ {"unlock"} => pc'[w] \in InCache
               /\ ~ Unlock(w)
      <3>1. acquired[w] => pc'[w] \in InCache
        <4>1. pc[w] # "unlock"
          BY <2>3, <1>2 DEF Worker, TryLock, GiveUpLock, CheckCache, StartClone,
             CloneSucceeds, CloneFails, CleanUp, CloneTimesOut, CloneRaises, Judge,
             AddTree, ResetTree
        <4> QED
          BY <4>1, <2>3
      <3> QED
        BY <2>3, <3>1
    <2> QED
      BY <1>2, <2>1, <2>2, <2>3, LockSteps
  <1>3. CASE UNCHANGED vars
    BY <1>3 DEF vars, disk, locals, batch
  <1> QED
    BY <1>1, <1>2, <1>3 DEF Next

(* Two workers never both hold the lock file, whatever expires.            *)
THEOREM LockIsExclusive == Spec => []LockHeldByOne
  <1>1. Init => TypeOK /\ LockInv
    BY InitType, InitLock
  <1>2. TypeOK /\ LockInv /\ [Next]_vars => (TypeOK /\ LockInv)'
    BY StepType, StepLock
  <1>3. LockInv => LockHeldByOne
    BY DEF LockInv
  <1> QED
    BY <1>1, <1>2, <1>3, PTL DEF Spec

(* Before a restart a lock file has somebody who will remove it: who made  *)
(* it still has acquired set, and is not past the removal.                 *)
HeldInv == restarts = 0 /\ lock => \E w \in Workers : acquired[w]

LEMMA StepHeld == TypeOK /\ LockInv /\ HeldInv /\ [Next]_vars => HeldInv'
  <1> SUFFICES ASSUME TypeOK, LockInv, HeldInv, [Next]_vars, restarts' = 0, lock'
               PROVE  \E v \in Workers : acquired'[v]
    BY DEF HeldInv
  <1> USE DEF TypeOK
  <1>1. ~ Restart
    <2>1. restarts \in Nat
      BY RestartsAssumption
    <2>2. Restart => restarts' = restarts + 1
      BY DEF Restart
    <2> QED
      BY <2>1, <2>2
  <1>2. ASSUME NEW w \in Workers, Worker(w) PROVE \E v \in Workers : acquired'[v]
    <2>1. restarts = 0
      BY <1>2, Zenon DEF Worker, TryLock, GiveUpLock, CheckCache, StartClone,
         CloneSucceeds, CloneFails, CleanUp, CloneTimesOut, CloneRaises, Judge,
         Unlock, AddTree, ResetTree, batch
    <2>2. CASE TryLock(w)
      BY <2>2 DEF TryLock
    <2>3. CASE Unlock(w)
      <3>1. lock /\ ~ acquired[w]
        BY <2>3 DEF Unlock
      <3>2. PICK v \in Workers : acquired[v]
        BY <2>1, <3>1 DEF HeldInv
      <3>3. acquired'[v] = acquired[v]
        BY <2>3, <3>1, <3>2 DEF Unlock
      <3> QED
        BY <3>2, <3>3
    <2>4. CASE UNCHANGED <<lock, acquired>>
      BY <2>1, <2>4 DEF HeldInv
    <2> QED
      BY <1>2, <2>2, <2>3, <2>4, LockSteps
  <1>3. CASE UNCHANGED vars
    BY <1>3 DEF vars, disk, locals, batch, HeldInv
  <1> QED
    BY <1>1, <1>2, <1>3 DEF Next

(* When the first batch is over the lock file is gone, whatever waits and  *)
(* clones expired in it: everyone who made it passes its removal.          *)
THEOREM LocksAreReleased == Spec => []LockReleased
  <1>1. Init => TypeOK /\ LockInv /\ HeldInv
    BY InitType, InitLock DEF Init, HeldInv
  <1>2. TypeOK /\ LockInv /\ HeldInv /\ [Next]_vars => (TypeOK /\ LockInv /\ HeldInv)'
    BY StepType, StepLock, StepHeld
  <1>3. LockInv /\ HeldInv => LockReleased
    BY DEF LockInv, Holding, HeldInv, LockReleased, InCache
  <1> QED
    BY <1>1, <1>2, <1>3, PTL DEF Spec

-----------------------------------------------------------------------------
(* The clone and the trees, as long as no clone times out.                 *)

TreeInv == FillingInv /\ TreesStay

LEMMA InitTree == Init => TreeInv
  BY DEF Init, TreeInv, FillingInv, TreesStay, Fresh

LEMMA StepTree == TypeOK /\ TreeInv /\ [Next]_vars => TreeInv'
  <1> SUFFICES ASSUME TypeOK, TreeInv, [Next]_vars, ~ ClonesTimeOut
               PROVE  TreeInv'
    BY PaceStays DEF TreeInv, FillingInv, TreesStay
  <1> USE NobodyAssumption DEF TypeOK, TreeInv, FillingInv, TreesStay
  <1>1. CASE Restart
    BY <1>1 DEF Restart, Fresh
  <1>2. ASSUME NEW w \in Workers, Worker(w) PROVE TreeInv'
    <2> USE DEF Goto, Get, Labels
    <2>1. CASE TryLock(w)
      BY <2>1 DEF TryLock
    <2>2. CASE GiveUpLock(w)
      BY <2>2 DEF GiveUpLock, disk
    <2>3. CASE CheckCache(w)
      BY <2>3 DEF CheckCache, disk
    <2>4. CASE StartClone(w)
      BY <2>4 DEF StartClone
    <2>5. CASE CloneSucceeds(w)
      BY <2>5 DEF CloneSucceeds
    <2>6. CASE CloneFails(w)
      BY <2>6 DEF CloneFails
    <2>7. CASE CleanUp(w)
      BY <2>7 DEF CleanUp, Retry
    <2>8. CASE CloneTimesOut(w)
      BY <2>8 DEF CloneTimesOut
    <2>9. CASE CloneRaises(w)
      BY <2>9 DEF CloneRaises, Retry, disk
    <2>10. CASE Judge(w)
      BY <2>10 DEF Judge, disk
    <2>11. CASE Unlock(w)
      BY <2>11 DEF Unlock
    <2>12. CASE AddTree(w)
      BY <2>12 DEF AddTree
    <2>13. CASE ResetTree(w)
      BY <2>13 DEF ResetTree, disk
    <2> QED
      BY <1>2, <2>1, <2>2, <2>3, <2>4, <2>5, <2>6, <2>7, <2>8, <2>9, <2>10,
         <2>11, <2>12, <2>13 DEF Worker
  <1>3. CASE UNCHANGED vars
    BY <1>3 DEF vars, disk, locals, batch
  <1> QED
    BY <1>1, <1>2, <1>3 DEF Next

(* No worktree ever loses its clone as long as no clone times out: not by  *)
(* expired waits, not by refused or failed clones, not by restarts.        *)
THEOREM TreesNeverOrphaned == Spec => []TreesStay
  <1>1. Init => TypeOK /\ TreeInv
    BY InitType, InitTree
  <1>2. TypeOK /\ TreeInv /\ [Next]_vars => (TypeOK /\ TreeInv)'
    BY StepType, StepTree
  <1>3. TreeInv => TreesStay
    BY DEF TreeInv
  <1> QED
    BY <1>1, <1>2, <1>3, PTL DEF Spec

-----------------------------------------------------------------------------
(* A first batch that nothing disturbs.                                    *)

LEMMA InitCalm == Init => CalmInv /\ CacheIsWhole
  BY DEF Init, CalmInv, CacheIsWhole, Fresh, InCache

(* Of all workers only one can be past the lock.                           *)
LEMMA OnlyOneInside ==
    ASSUME LockInv, CalmInv, Undisturbed
    PROVE  \A v, w \in Workers : pc[v] \in InCache /\ pc[w] \in InCache => v = w
  BY DEF LockInv, LockHeldByOne, CalmInv

(* So a worker that sees a partial clone and is not the one filling it     *)
(* cannot be past the lock.                                                *)
LEMMA PartialIsOwn ==
    ASSUME TypeOK, LockInv, TreeInv, CalmInv, Undisturbed,
           NEW w \in Workers, pc[w] \in InCache, cache = "partial"
    PROVE  pc[w] = "cloning" /\ author = w
  <1>1. author \in Workers /\ pc[author] = "cloning"
    BY DEF TypeOK, TreeInv, FillingInv, CalmInv, Undisturbed
  <1>2. author = w
    BY <1>1, OnlyOneInside DEF InCache
  <1> QED
    BY <1>1, <1>2

LEMMA StepCalm ==
    TypeOK /\ LockInv /\ TreeInv /\ CalmInv /\ CacheIsWhole /\ [Next]_vars
    => CalmInv' /\ CacheIsWhole'
  <1> SUFFICES ASSUME TypeOK, LockInv, TreeInv, CalmInv, CacheIsWhole,
                      [Next]_vars, Undisturbed'
               PROVE  CalmInv' /\ CacheIsWhole'
    BY DEF CalmInv, CacheIsWhole
  <1>1. ~ Restart
    <2>1. restarts \in Nat /\ restarts' = 0
      BY RestartsAssumption DEF TypeOK, Undisturbed
    <2>2. Restart => restarts' = restarts + 1
      BY DEF Restart
    <2> QED
      BY <2>1, <2>2
  <1>2. ASSUME NEW w \in Workers, Worker(w) PROVE CalmInv' /\ CacheIsWhole'
    <2>1. restarts' = restarts
      BY <1>2, Zenon DEF Worker, TryLock, GiveUpLock, CheckCache, StartClone,
         CloneSucceeds, CloneFails, CleanUp, CloneTimesOut, CloneRaises, Judge,
         Unlock, AddTree, ResetTree, batch
    <2>2. Undisturbed
      BY <2>1, PaceStays DEF Undisturbed
    <2>3. /\ \A v \in Workers : pc[v] \in InCache => acquired[v]
          /\ lock => \E v \in Workers : acquired[v]
          /\ cache = "partial" => author # Nobody
          /\ \A v \in Workers : result[v] = "cache" => cache = "full"
          /\ \A v \in Workers : imported[v] = FALSE /\ (pc[v] = "cloning" => author = v)
      BY <2>2 DEF CalmInv, CacheIsWhole, TreeInv, FillingInv, Undisturbed
    <2>4. SUFFICES /\ \A v \in Workers : pc'[v] \in InCache => acquired'[v]
                   /\ lock' => \E v \in Workers : acquired'[v]
                   /\ cache' = "partial" => author' # Nobody
                   /\ \A v \in Workers : result'[v] = "cache" => cache' = "full"
      BY DEF CalmInv, CacheIsWhole
    <2>5. pc[w] \in {"check", "clone", "failed", "judge"} => cache # "partial"
      BY <2>2, PartialIsOwn DEF InCache
    <2> USE <2>3, NobodyAssumption DEF TypeOK, Goto, Get, InCache, Labels
    <2>6. CASE TryLock(w)
      BY <2>6 DEF TryLock
    <2>7. CASE GiveUpLock(w)
      BY <2>7, <2>2 DEF GiveUpLock, Undisturbed
    <2>8. CASE CheckCache(w)
      BY <2>8, <2>5 DEF CheckCache, disk
    <2>9. CASE StartClone(w)
      BY <2>9 DEF StartClone
    <2>10. CASE CloneSucceeds(w)
      BY <2>10 DEF CloneSucceeds
    <2>11. CASE CloneFails(w)
      <3>1. author = w /\ cache = "partial"
        BY <2>11, <2>2 DEF CloneFails, TreeInv, FillingInv, Undisturbed
      <3> QED
        BY <2>11, <3>1 DEF CloneFails
    <2>12. CASE CleanUp(w)
      BY <2>12 DEF CleanUp, Retry
    <2>13. CASE CloneTimesOut(w)
      BY <2>13, <2>2 DEF CloneTimesOut, Undisturbed
    <2>14. CASE CloneRaises(w)
      BY <2>14 DEF CloneRaises, Retry, disk
    <2>15. CASE Judge(w)
      BY <2>15, <2>5 DEF Judge, disk
    <2>16. CASE Unlock(w)
      <3>1. \A v \in Workers : pc[v] \in InCache /\ pc[w] \in InCache => v = w
        BY <2>2, OnlyOneInside
      <3>2. acquired[w] /\ lock' = FALSE
        BY <2>16 DEF Unlock
      <3> QED
        BY <2>16, <3>1, <3>2 DEF Unlock
    <2>17. CASE AddTree(w)
      BY <2>17 DEF AddTree
    <2>18. CASE ResetTree(w)
      BY <2>18 DEF ResetTree, disk
    <2> QED
      BY <1>2, <2>6, <2>7, <2>8, <2>9, <2>10, <2>11, <2>12, <2>13, <2>14, <2>15,
         <2>16, <2>17, <2>18 DEF Worker
  <1>3. CASE UNCHANGED vars
    <2>1. Undisturbed
      BY <1>3, PaceStays DEF vars, batch, Undisturbed
    <2> QED
      BY <1>3, <2>1 DEF vars, disk, locals, batch, CalmInv, CacheIsWhole
  <1> QED
    BY <1>1, <1>2, <1>3 DEF Next

LEMMA CacheInvariant == Spec => [](TypeOK /\ LockInv /\ TreeInv /\ CalmInv /\ CacheIsWhole)
  <1> DEFINE Inv == TypeOK /\ LockInv /\ TreeInv /\ CalmInv /\ CacheIsWhole
  <1>1. Init => Inv
    BY InitType, InitLock, InitTree, InitCalm
  <1>2. Inv /\ [Next]_vars => Inv'
    BY StepType, StepLock, StepTree, StepCalm
  <1> QED
    BY <1>1, <1>2, PTL DEF Spec

(* In an undisturbed first batch a worker that clones is alone with the    *)
(* cache.                                                                  *)
THEOREM ClonesAreAlone == Spec => []CloneAlone
  <1>1. TypeOK /\ LockInv /\ TreeInv /\ CalmInv /\ CacheIsWhole => CloneAlone
    BY OnlyOneInside DEF CloneAlone, Cloning, InCache
  <1> QED
    BY <1>1, CacheInvariant, PTL

(* In an undisturbed first batch what a worker gets is a whole clone.      *)
THEOREM CachesAreWhole == Spec => []CacheIsWhole
  BY CacheInvariant, PTL
=============================================================================
