----------------------------- MODULE RepoCache -----------------------------
(***************************************************************************)
(* The workers of a batch prepare a worktree each for instances of one     *)
(* repository (swe_mas/utils/repo_utils.py): they share a cached clone,    *)
(* guarded by a lock file, and link their worktrees to it.                 *)
(*                                                                         *)
(* The lock file, the clone and the worktrees are on disk and survive the  *)
(* end of a batch, however it ends; everything else starts afresh with the *)
(* next batch.  Git is external: a clone that fails removes what it made,  *)
(* one that is killed does not, and none starts in a non-empty directory.  *)
(***************************************************************************)
EXTENDS Integers

CONSTANTS
    Workers,         \* one per instance of the repository
    Nobody,          \* not a worker
    MaxAttempts,     \* max_retries of clone_repo_ssh
    Paces,           \* the paces a run of the model may have, see pace
    MaxRestarts      \* bound: how often the batch is started again

ASSUME NobodyAssumption == Nobody \notin Workers
ASSUME AttemptsAssumption == MaxAttempts \in Nat \ {0}
ASSUME PacesAssumption == Paces \subseteq [waits : BOOLEAN, clones : BOOLEAN]
ASSUME RestartsAssumption == MaxRestarts \in Nat

VARIABLES
    pace,        \* waits: may 300 s pass while a live worker holds the lock?
                 \* clones: may a clone take longer than 900 s?
    lock,        \* does the lock file exist?
    cache,       \* the cache directory: "none" (or empty), "partial", "full"
    author,      \* the worker whose git clone is filling it
    tree,        \* the worktree of each instance
    pc,
    acquired,    \* local of _ensure_cached_repo
    attempt,     \* local of clone_repo_ssh
    imported,    \* is the local name shutil of clone_repo_ssh bound?
    result,      \* what the worker got: a cache, a ready tree, an error
    restarts

disk   == <<lock, cache, author, tree>>
locals == <<pc, acquired, attempt, imported, result>>
batch  == <<pace, restarts>>
vars   == <<disk, locals, batch>>

WaitsExpire   == pace.waits
ClonesTimeOut == pace.clones

Fresh(value) == [w \in Workers |-> value]

Init ==
    /\ pace \in Paces
    /\ lock = FALSE /\ cache = "none" /\ author = Nobody
    /\ tree = Fresh("none")
    /\ pc = Fresh("wait") /\ acquired = Fresh(FALSE)
    /\ attempt = Fresh(0) /\ imported = Fresh(FALSE)
    /\ result = Fresh("none")
    /\ restarts = 0

Goto(w, label) == pc' = [pc EXCEPT ![w] = label]
Get(w, what)   == result' = [result EXCEPT ![w] = what]

-----------------------------------------------------------------------------
(* _ensure_cached_repo: the lock.                                          *)

TryLock(w) ==
    /\ pc[w] = "wait" /\ ~ lock
    /\ lock' = TRUE
    /\ acquired' = [acquired EXCEPT ![w] = TRUE]
    /\ Goto(w, "check")
    /\ UNCHANGED <<cache, author, tree, attempt, imported, result, batch>>

(* Faulty variant: a worker waits for the lock as long as it takes.        *)
GiveUpLockNever(w) == FALSE

(* The wait is over after 300 s, and the worker goes on without the lock.  *)
GiveUpLock(w) ==
    /\ pc[w] = "wait" /\ lock
    /\ WaitsExpire \/ \A v \in Workers : ~ acquired[v]
    /\ Goto(w, "check")
    /\ UNCHANGED <<disk, acquired, attempt, imported, result, batch>>

(* A directory with something in it is the cache: it is fetched into, and  *)
(* whether that works is not looked at.                                    *)
CheckCache(w) ==
    /\ pc[w] = "check"
    /\ IF cache = "none"
       THEN /\ Goto(w, "clone")
            /\ attempt' = [attempt EXCEPT ![w] = 1]
            /\ imported' = [imported EXCEPT ![w] = FALSE]
            /\ UNCHANGED result
       ELSE /\ Goto(w, "unlock")
            /\ Get(w, "cache")
            /\ UNCHANGED <<attempt, imported>>
    /\ UNCHANGED <<disk, acquired, batch>>

-----------------------------------------------------------------------------
(* clone_repo_ssh, which tries MaxAttempts times.                          *)

(* git clone starts in an empty place, and refuses any other.              *)
StartClone(w) ==
    /\ pc[w] = "clone"
    /\ IF cache = "none"
       THEN cache' = "partial" /\ author' = w /\ Goto(w, "cloning")
       ELSE UNCHANGED <<cache, author>> /\ Goto(w, "failed")
    /\ UNCHANGED <<lock, tree, acquired, attempt, imported, result, batch>>

CloneSucceeds(w) ==
    /\ pc[w] = "cloning" /\ author = w
    /\ cache' = "full" /\ author' = Nobody
    /\ Get(w, "cache")
    /\ Goto(w, "unlock")
    /\ UNCHANGED <<lock, tree, acquired, attempt, imported, batch>>

(* git clone fails and removes its directory, at least while it is its own; *)
(* it has to fail when another worker removed it.                          *)
CloneFails(w) ==
    /\ pc[w] = "cloning"
    /\ \/ cache' = "none" /\ author' = Nobody
       \/ author # w /\ UNCHANGED <<cache, author>>
    /\ tree' = [v \in Workers |-> IF cache = "full" /\ cache' # "full" /\ tree[v] = "linked"
                                  THEN "orphan" ELSE tree[v]]
    /\ Goto(w, "failed")
    /\ UNCHANGED <<lock, acquired, attempt, imported, result, batch>>

Retry(w) ==
    IF attempt[w] < MaxAttempts
    THEN attempt' = [attempt EXCEPT ![w] = @ + 1] /\ Goto(w, "clone")
    ELSE UNCHANGED attempt /\ Goto(w, "judge")

(* shutil.rmtree on the cache directory, whoever filled it.  It may fail,  *)
(* at once or half way.                                                    *)
RemoveCache ==
    \/ /\ cache # "none"
       /\ cache' \in {"none", "partial"} /\ author' = Nobody
       /\ tree' = [v \in Workers |-> IF tree[v] = "linked" THEN "orphan" ELSE tree[v]]
    \/ UNCHANGED <<cache, author, tree>>

(* Faulty variant: the module's shutil is the one that is used.            *)
CleanUpAlways(w) ==
    /\ pc[w] = "failed"
    /\ RemoveCache
    /\ Retry(w)
    /\ UNCHANGED <<lock, acquired, imported, result, batch>>

(* The clean-up of a failed clone uses the function's own name shutil,     *)
(* which only a timeout earlier in the same call has bound; the error this *)
(* raises is swallowed.                                                    *)
CleanUp(w) ==
    /\ pc[w] = "failed"
    /\ IF imported[w] THEN RemoveCache ELSE UNCHANGED <<cache, author, tree>>
    /\ Retry(w)
    /\ UNCHANGED <<lock, acquired, imported, result, batch>>

(* TimeoutExpired: git is killed, and the clean-up works.                  *)
CloneTimesOut(w) ==
    /\ pc[w] = "cloning" /\ ClonesTimeOut
    /\ imported' = [imported EXCEPT ![w] = TRUE]
    /\ \/ RemoveCache /\ (author = w => author' = Nobody)
       \/ author = w /\ author' = Nobody /\ UNCHANGED <<cache, tree>>
    /\ Retry(w)
    /\ UNCHANGED <<lock, acquired, result, batch>>

(* git cannot be started: no clean-up. *)
CloneRaises(w) ==
    /\ pc[w] = "clone"
    /\ Retry(w)
    /\ UNCHANGED <<disk, acquired, imported, result, batch>>

(* Faulty variant: the directory is not looked at again.                   *)
JudgeBlindly(w) ==
    /\ pc[w] = "judge"
    /\ Get(w, "cache")
    /\ Goto(w, "unlock")
    /\ UNCHANGED <<disk, acquired, attempt, imported, batch>>

(* Back in _ensure_cached_repo without a clone: what another worker left   *)
(* in the directory will do.                                               *)
Judge(w) ==
    /\ pc[w] = "judge"
    /\ Get(w, IF cache = "none" THEN "error" ELSE "cache")
    /\ Goto(w, "unlock")
    /\ UNCHANGED <<disk, acquired, attempt, imported, batch>>

(* Faulty variant: the lock file is removed whoever made it.               *)
UnlockAlways(w) ==
    /\ pc[w] = "unlock"
    /\ lock' = FALSE
    /\ acquired' = [acquired EXCEPT ![w] = FALSE]
    /\ Goto(w, IF result[w] = "error" THEN "done" ELSE "worktree")
    /\ UNCHANGED <<cache, author, tree, attempt, imported, result, batch>>

(* finally: the lock file is removed by the worker that made it.           *)
Unlock(w) ==
    /\ pc[w] = "unlock"
    /\ lock' = (lock /\ ~ acquired[w])
    /\ acquired' = [acquired EXCEPT ![w] = FALSE]
    /\ Goto(w, IF result[w] = "error" THEN "done" ELSE "worktree")
    /\ UNCHANGED <<cache, author, tree, attempt, imported, result, batch>>

-----------------------------------------------------------------------------
(* prepare_instance_repo, on the cache and without the lock.               *)

(* git worktree add: needs a whole clone, may fail, and may leave the      *)
(* directory behind when it does.                                          *)
AddTree(w) ==
    /\ pc[w] = "worktree" /\ tree[w] = "none"
    /\ \/ /\ cache = "full"
          /\ tree' = [tree EXCEPT ![w] = "linked"]
          /\ \E r \in {"ready", "error"} : Get(w, r)
       \/ Get(w, "error") /\ UNCHANGED tree
    /\ Goto(w, "done")
    /\ UNCHANGED <<lock, cache, author, acquired, attempt, imported, batch>>

(* git reset, clean and checkout in the tree of an earlier batch.          *)
ResetTree(w) ==
    /\ pc[w] = "worktree" /\ tree[w] # "none"
    /\ \/ tree[w] = "linked" /\ Get(w, "ready")
       \/ Get(w, "error")
    /\ Goto(w, "done")
    /\ UNCHANGED <<disk, acquired, attempt, imported, batch>>

-----------------------------------------------------------------------------
(* The batch is over, or is killed at any point, and is started again.  A  *)
(* clone under way is killed with it, with or without a chance to clean up. *)
Restart ==
    /\ restarts < MaxRestarts
    /\ restarts' = restarts + 1
    /\ cache' \in IF author # Nobody THEN {"partial", "none"} ELSE {cache}
    /\ author' = Nobody
    /\ pc' = Fresh("wait") /\ acquired' = Fresh(FALSE)
    /\ attempt' = Fresh(0) /\ imported' = Fresh(FALSE)
    /\ result' = Fresh("none")
    /\ UNCHANGED <<lock, tree, pace>>

Worker(w) ==
    \/ TryLock(w) \/ GiveUpLock(w) \/ CheckCache(w)
    \/ StartClone(w) \/ CloneSucceeds(w) \/ CloneFails(w) \/ CleanUp(w)
    \/ CloneTimesOut(w) \/ CloneRaises(w) \/ Judge(w) \/ Unlock(w)
    \/ AddTree(w) \/ ResetTree(w)

Next == Restart \/ \E w \in Workers : Worker(w)

(* The workers are threads, and every call they make returns or times out. *)
Fairness == \A w \in Workers : WF_vars(Worker(w))

Spec == Init /\ [][Next]_vars /\ Fairness
-----------------------------------------------------------------------------
(* What the lock and the cache guarantee.                                  *)

Labels == {"wait", "check", "clone", "cloning", "failed", "judge", "unlock",
           "worktree", "done"}

(* Every variable has the type its use in the code gives it.               *)
TypeOK ==
    /\ pace \in Paces
    /\ lock \in BOOLEAN /\ cache \in {"none", "partial", "full"}
    /\ author \in Workers \cup {Nobody}
    /\ tree \in [Workers -> {"none", "linked", "orphan"}]
    /\ pc \in [Workers -> Labels]
    /\ acquired \in [Workers -> BOOLEAN]
    /\ attempt \in [Workers -> 0 .. MaxAttempts]
    /\ imported \in [Workers -> BOOLEAN]
    /\ result \in [Workers -> {"none", "cache", "ready", "error"}]
    /\ restarts \in 0 .. MaxRestarts

(* Whatever waits expire and however often the batch is restarted, two     *)
(* workers never both hold the lock file, and it exists while one does.    *)
LockHeldByOne ==
    \A v \in Workers : acquired[v] =>
        lock /\ \A w \in Workers : acquired[w] => w = v

InCache  == {"check", "clone", "cloning", "failed", "judge", "unlock"}
Cloning  == {"clone", "cloning", "failed", "judge"}

(* In the first batch, while no wait for a live worker and no clone        *)
(* expires ...                                                             *)
Undisturbed == ~ WaitsExpire /\ ~ ClonesTimeOut /\ restarts = 0

(* ... one worker at most is busy cloning,                                 *)
CloneAlone ==
    Undisturbed =>
        \A v, w \in Workers : pc[v] \in Cloning /\ pc[w] \in InCache => v = w

(* ... and what a worker is given as the cache is a whole clone.           *)
CacheIsWhole ==
    Undisturbed =>
        \A w \in Workers : result[w] = "cache" => cache = "full"

(* As long as no clone times out, no worktree loses the clone it is linked *)
(* to, restarts and expired waits or not.                                  *)
TreesStay == ~ ClonesTimeOut => \A w \in Workers : tree[w] # "orphan"

(* When the first batch is over the lock file is gone.                     *)
LockReleased ==
    restarts = 0 /\ (\A w \in Workers : pc[w] = "done") => ~ lock

(* Every worker is done in the end, even with a lock file nobody holds.    *)
EveryoneEnds == <>[](\A w \in Workers : pc[w] = "done")
=============================================================================
