--------------------------- MODULE TyrJobsProofs ---------------------------
(***************************************************************************)
(* Proofs about the lock of the jobs of an instance of tyr: any files,     *)
(* commands and jobs, workers that die and locks that expire included.     *)
(***************************************************************************)
EXTENDS TyrJobs, TLAPS

\* What the proofs need to know of the bound.
Settings == MaxJobs \in Nat

ChainFields == {"st", "todo", "retries", "row", "snap"}
\* The chain of a job is a record with these fields.
IsChain(ch) == ch = [x \in ChainFields |-> ch[x]]

ChainsInv == DOMAIN chains = 1 .. MaxJobs /\ \A c \in 1 .. MaxJobs : IsChain(chains[c])

IInv == ChainsInv /\ LockHeld

-----------------------------------------------------------------------------
(* Chains *)

\* A new chain waits for a worker.
LEMMA NewChain ==
    /\ IsChain(Idle) /\ Idle.st = "none"
    /\ \A todo : IsChain(Queued(todo)) /\ Queued(todo).st = "queued"
  BY DEF IsChain, ChainFields, Idle, Queued

\* After a task, the chain waits again or is ended.
LEMMA AfterTask ==
    ASSUME NEW ch, IsChain(ch)
    PROVE  IsChain(Next1(ch)) /\ Next1(ch).st # "running"
  BY DEF IsChain, ChainFields, Next1

\* Chain c becomes one that runs nothing and, if it held the lock, may release it: the tasks of
\* the other chains hold what they held.
LEMMA ChainStops ==
    ASSUME Settings, IInv, NEW c, NEW new,
           c \in 1 .. MaxJobs => IsChain(new) /\ new.st # "running",
           chains' = [chains EXCEPT ![c] = new],
           lock' = lock \/ (lock = c /\ lock' = 0), UNCHANGED overran
    PROVE  IInv'
  <1>1. DOMAIN chains' = 1 .. MaxJobs
    BY DEF IInv, ChainsInv
  <1>2. ASSUME NEW o \in 1 .. MaxJobs
        PROVE  IsChain(chains'[o]) /\ (InLock(o)' /\ o \notin overran' => lock' = o)
    <2>1. CASE o = c
      <3>1. chains'[o] = new
        BY <2>1 DEF IInv, ChainsInv
      <3> QED BY <2>1, <3>1 DEF InLock
    <2>2. CASE o # c
      <3>1. chains'[o] = chains[o]
        BY <2>2 DEF IInv, ChainsInv
      <3>2. IsChain(chains[o]) /\ (InLock(o) /\ o \notin overran => lock = o)
        BY DEF IInv, ChainsInv, LockHeld
      <3>3. InLock(o)' <=> InLock(o)
        BY <3>1 DEF InLock, Current
      <3> QED BY <2>2, <3>1, <3>2, <3>3
    <2> QED BY <2>1, <2>2
  <1> QED BY <1>1, <1>2 DEF IInv, ChainsInv, LockHeld, IsChain

\* The same, when the chains are as they were.
LEMMA ChainsStay ==
    ASSUME IInv, UNCHANGED <<chains, lock, overran>>
    PROVE  IInv'
  BY DEF IInv, ChainsInv, IsChain, LockHeld, InLock, Current

\* A chain that is queued, or is retried or broken, runs nothing.
LEMMA SetState ==
    ASSUME IInv, NEW c, NEW st
    PROVE  \E new : /\ [chains EXCEPT ![c].st = st, ![c].row = 0] = [chains EXCEPT ![c] = new]
                    /\ c \in 1 .. MaxJobs => IsChain(new) /\ new.st = st
  <1> DEFINE new == [chains[c] EXCEPT !.st = st, !.row = 0]
  <1>1. [chains EXCEPT ![c].st = st, ![c].row = 0] = [chains EXCEPT ![c] = new]
    BY DEF IInv, ChainsInv
  <1>2. ASSUME c \in 1 .. MaxJobs
        PROVE  IsChain(new) /\ new.st = st
    BY <1>2 DEF IInv, ChainsInv, IsChain, ChainFields
  <1> QED BY <1>1, <1>2

-----------------------------------------------------------------------------
(* Starts and ends of tasks *)

\* A task starts: with the lock if it needs one, which nobody had.
LEMMA StartPreserves ==
    ASSUME Settings, IInv, NEW c, StartTask(c)
    PROVE  IInv'
  <1>1. PICK d : chains' = [chains EXCEPT ![c].st = "running", ![c].row = d, ![c].snap = Len(loaded)]
    BY DEF StartTask
  <1>2. UNCHANGED overran /\ ((Current(c).task.lock /\ lock = 0 /\ lock' = c) \/ (~Current(c).task.lock /\ lock' = lock))
    <2>1. UNCHANGED overran
      BY DEF StartTask
    <2>2. (Current(c).task.lock /\ Acquire(c)) \/ (~Current(c).task.lock /\ UNCHANGED lock)
      BY Zenon DEF StartTask
    <2>3. Acquire(c) => lock = 0 /\ lock' = c
      BY DEF Acquire
    <2> QED BY <2>1, <2>2, <2>3, Zenon
  <1> DEFINE new == [chains[c] EXCEPT !.st = "running", !.row = d, !.snap = Len(loaded)]
  <1>3. chains' = [chains EXCEPT ![c] = new]
    BY <1>1 DEF IInv, ChainsInv
  <1>4. c \in 1 .. MaxJobs => IsChain(new) /\ new.todo = chains[c].todo
    BY DEF IInv, ChainsInv, IsChain, ChainFields
  <1> HIDE DEF new
  <1>5. DOMAIN chains' = 1 .. MaxJobs
    BY <1>3 DEF IInv, ChainsInv
  <1>6. ASSUME NEW o \in 1 .. MaxJobs
        PROVE  IsChain(chains'[o]) /\ (InLock(o)' /\ o \notin overran' => lock' = o)
    <2>1. CASE o = c
      <3>1. chains'[o] = new
        BY <1>3, <2>1 DEF IInv, ChainsInv
      <3>2. Current(o)' = Current(c)
        BY <1>4, <2>1, <3>1 DEF Current
      <3> QED BY <1>2, <1>4, <2>1, <3>1, <3>2 DEF InLock
    <2>2. CASE o # c
      <3>1. chains'[o] = chains[o]
        BY <1>3, <2>2 DEF IInv, ChainsInv
      <3>2. IsChain(chains[o]) /\ (InLock(o) /\ o \notin overran => lock = o)
        BY DEF IInv, ChainsInv, LockHeld
      <3>3. InLock(o)' <=> InLock(o)
        BY <3>1 DEF InLock, Current
      <3>4. o # 0
        BY DEF Settings
      <3> QED BY <1>2, <3>1, <3>2, <3>3, <3>4
    <2> QED BY <2>1, <2>2
  <1> QED BY <1>5, <1>6 DEF IInv, ChainsInv, LockHeld, IsChain

\* A chain breaks.
LEMMA BreakPreserves ==
    ASSUME Settings, IInv, NEW c, chains' = Break(c), lock' = lock \/ lock' = Release(c), UNCHANGED overran
    PROVE  IInv'
  <1>1. PICK new : chains' = [chains EXCEPT ![c] = new] /\ (c \in 1 .. MaxJobs => IsChain(new) /\ new.st = "dead")
    BY SetState DEF Break
  <1>2. lock' = lock \/ (lock = c /\ lock' = 0)
    BY DEF Release
  <1> QED BY <1>1, <1>2, ChainStops

\* A task returns.
LEMMA ReturnPreserves ==
    ASSUME Settings, IInv, NEW c, chains' = [chains EXCEPT ![c] = Next1(chains[c])],
           lock' = lock \/ lock' = Release(c), UNCHANGED overran
    PROVE  IInv'
  <1>1. c \in 1 .. MaxJobs => IsChain(Next1(chains[c])) /\ Next1(chains[c]).st # "running"
    BY AfterTask DEF IInv, ChainsInv
  <1>2. lock' = lock \/ (lock = c /\ lock' = 0)
    BY DEF Release
  <1> QED BY <1>1, <1>2, ChainStops

\* A task that does not get the lock is retried, or its chain breaks.
LEMMA RetryPreserves ==
    ASSUME Settings, IInv, NEW c, RetryTask(c)
    PROVE  IInv'
  <1>1. UNCHANGED <<lock, overran>> /\ chains[c].st = "queued"
    BY DEF RetryTask
  <1>2. CASE chains' = Break(c)
    BY <1>1, <1>2, BreakPreserves
  <1>3. CASE chains' = [chains EXCEPT ![c].retries = @ + 1]
    <2> DEFINE new == [chains[c] EXCEPT !.retries = @ + 1]
    <2>1. chains' = [chains EXCEPT ![c] = new]
      BY <1>3
    <2>2. c \in 1 .. MaxJobs => IsChain(new) /\ new.st = "queued"
      BY <1>1 DEF IInv, ChainsInv, IsChain, ChainFields
    <2> HIDE DEF new
    <2> QED BY <1>1, <2>1, <2>2, ChainStops
  <1> QED BY <1>2, <1>3 DEF RetryTask

\* The steps of a chain.
LEMMA StepPreserves ==
    ASSUME Settings, IInv, NEW c, Step(c)
    PROVE  IInv'
  <1>1. CASE TaskWithoutRow(c)
    BY <1>1, BreakPreserves DEF TaskWithoutRow
  <1>2. CASE TaskSucceeds(c)
    BY <1>2, ReturnPreserves DEF TaskSucceeds
  <1>3. CASE TaskFails(c)
    <2>1. lock' = Release(c) /\ UNCHANGED overran
      BY <1>3 DEF TaskFails
    <2>2. chains' = Break(c) \/ chains' = [chains EXCEPT ![c] = Next1(chains[c])]
      BY <1>3 DEF TaskFails
    <2> QED BY <2>1, <2>2, BreakPreserves, ReturnPreserves
  <1>4. CASE TaskRaisesEarly(c)
    BY <1>4, BreakPreserves DEF TaskRaisesEarly
  <1>5. CASE FinishJob(c)
    BY <1>5, ReturnPreserves DEF FinishJob
  <1> QED BY <1>1, <1>2, <1>3, <1>4, <1>5, StartPreserves, RetryPreserves DEF Step

\* The key of the lock reaches its timeout: a task that still runs has outlived its lock.
LEMMA ExpiryPreserves ==
    ASSUME Settings, IInv, LockExpires
    PROVE  IInv'
  <1>1. chains' = chains /\ lock' = 0 /\ overran' = IF InLock(lock) THEN overran \cup {lock} ELSE overran
    BY DEF LockExpires
  <1>2. ASSUME NEW o \in 1 .. MaxJobs
        PROVE  ~(InLock(o)' /\ o \notin overran')
    <2>1. InLock(o)' <=> InLock(o)
      BY <1>1 DEF InLock, Current
    <2>2. InLock(o) /\ o \notin overran => lock = o
      BY DEF IInv, LockHeld
    <2> QED BY <1>1, <2>1, <2>2
  <1> QED BY <1>1, <1>2 DEF IInv, ChainsInv, LockHeld, IsChain

-----------------------------------------------------------------------------
(* Imports, commands and purges *)

\* A chain is queued for a job.
LEMMA QueuePreserves ==
    ASSUME Settings, IInv, NEW j, NEW todo, chains' = [chains EXCEPT ![j] = Queued(todo)], UNCHANGED <<lock, overran>>
    PROVE  IInv'
  BY NewChain, ChainStops

\* An import queues the chain of its job.
LEMMA EnqueuePreserves ==
    ASSUME Settings, IInv, NEW j, NEW files, NEW reload, NEW mimir, NEW rows0, NEW jobs0,
           Enqueue(j, files, reload, mimir, rows0, jobs0), UNCHANGED <<lock, overran>>
    PROVE  IInv'
  <1>1. \E todo : chains' = [chains EXCEPT ![j] = Queued(todo)]
    BY DEF Enqueue
  <1> QED BY <1>1, QueuePreserves

\* Commands.
LEMMA CommandPreserves ==
    ASSUME Settings, IInv,
           BuildData \/ ReloadKraken \/ \E reload, mimir \in BOOLEAN : ImportLastDataset(reload, mimir)
    PROVE  IInv'
  <1>1. ASSUME NEW task, StartJob(task)
        PROVE  IInv'
    BY <1>1, QueuePreserves DEF StartJob
  <1>2. ASSUME NEW reload, NEW mimir, ImportLastDataset(reload, mimir)
        PROVE  IInv'
    BY <1>2, EnqueuePreserves DEF ImportLastDataset
  <1> QED BY <1>1, <1>2 DEF BuildData, ReloadKraken

\* Purges: the one of a chain keeps its worker until it ends.
LEMMA PurgePreserves ==
    ASSUME Settings, IInv, PurgeSteps \/ \E c \in 0 .. MaxJobs : PurgeStart(c)
    PROVE  IInv'
  <1>1. ASSUME chains' = PurgeEnds, UNCHANGED <<lock, overran>>
        PROVE  IInv'
    BY <1>1, ReturnPreserves, ChainsStay DEF PurgeEnds
  <1>2. ASSUME NEW c, PurgeStart(c)
        PROVE  IInv'
    <2>1. UNCHANGED <<lock, overran>>
      BY <1>2 DEF PurgeStart
    <2>2. CASE chains' = chains
      BY <2>1, <2>2, ChainsStay
    <2>3. CASE chains' = [chains EXCEPT ![c].st = "purging"]
      <3> DEFINE new == [chains[c] EXCEPT !.st = "purging"]
      <3>1. chains' = [chains EXCEPT ![c] = new]
        BY <2>3
      <3>2. c \in 1 .. MaxJobs => IsChain(new) /\ new.st = "purging"
        BY DEF IInv, ChainsInv, IsChain, ChainFields
      <3> HIDE DEF new
      <3> QED BY <2>1, <3>1, <3>2, ChainStops
    <2> QED BY <1>2, <2>2, <2>3 DEF PurgeStart
  <1>3. CASE PurgeQueryLoaded
    BY <1>3, ChainsStay DEF PurgeQueryLoaded
  <1>4. CASE PurgeQueryRunning
    BY <1>1, <1>4, ChainsStay DEF PurgeQueryRunning
  <1>5. CASE PurgeRemove
    BY <1>1, <1>5 DEF PurgeRemove
  <1> QED BY <1>2, <1>3, <1>4, <1>5 DEF PurgeSteps

\* The files, the rows and the crons that touch no chain.
LEMMA OthersPreserve ==
    ASSUME Settings, IInv,
           \/ \E f \in Files : JobPost(f)
           \/ \E s \in Scanners : Scan(s) \/ UpdateDataDies(s)
           \/ \E j \in DOMAIN jobs : DeleteJob(j) \/ PurgeJobs(j)
           \/ \E type \in DataTypes : DeleteDataset(type)
    PROVE  IInv'
  <1>1. ASSUME NEW s, EnqueueImport(s)
        PROVE  IInv'
    BY <1>1, EnqueuePreserves DEF EnqueueImport
  <1>2. ASSUME NEW s, Scan(s) \/ UpdateDataDies(s), ~EnqueueImport(s)
        PROVE  UNCHANGED <<chains, lock, overran>>
    BY <1>2 DEF Scan, UpdateData, TakeFile, CommitJob, UpdateDataDies
  <1>3. ASSUME NEW x, JobPost(x) \/ DeleteJob(x) \/ PurgeJobs(x) \/ DeleteDataset(x)
        PROVE  UNCHANGED <<chains, lock, overran>>
    BY <1>3 DEF JobPost, DeleteJob, PurgeJobs, DeleteDataset
  <1> QED BY <1>1, <1>2, <1>3, ChainsStay

-----------------------------------------------------------------------------
(* Theorems *)

\* No chain runs at first.
LEMMA InitIInv ==
    ASSUME Init
    PROVE  IInv
  <1>1. chains = [j \in 1 .. MaxJobs |-> Idle]
    BY DEF Init
  <1>2. \A c \in 1 .. MaxJobs : chains[c] = Idle
    BY <1>1
  <1> QED BY <1>1, <1>2, NewChain DEF IInv, ChainsInv, LockHeld, InLock

\* Every step preserves the invariant.
LEMMA Inductive ==
    ASSUME Settings, IInv, [Next]_vars
    PROVE  IInv'
  <1>1. CASE UNCHANGED vars
    BY <1>1, ChainsStay DEF vars
  <1>2. ASSUME NEW c, WorkerDies(c)
        PROVE  IInv'
    BY <1>2, BreakPreserves DEF WorkerDies
  <1>3. CASE Next
    BY <1>2, <1>3, OthersPreserve, CommandPreserves, StepPreserves, ExpiryPreserves, PurgePreserves DEF Next
  <1> QED BY <1>1, <1>3

\* A task that runs in @Lock and has not outlived its lock holds it, in every state: no late
\* release, retry, death of a worker or expiry in other hands takes it away.
THEOREM LockIsHeld ==
    ASSUME Settings
    PROVE  Spec => []LockHeld
  <1>1. Init => IInv
    BY InitIInv
  <1>2. IInv /\ [Next]_vars => IInv'
    BY Inductive
  <1>3. IInv => LockHeld
    BY DEF IInv
  <1> QED BY <1>1, <1>2, <1>3, PTL DEF Spec

\* No two chains write ed, or the nav file, at the same time, but for the tasks that outlive
\* the timeout of their lock.
MutualExclusion ==
    \A c, o \in (1 .. MaxJobs) \ overran : InLock(c) /\ InLock(o) => c = o

\* The tasks in @Lock exclude each other until a timeout.
THEOREM LockedTasksExclude ==
    ASSUME Settings
    PROVE  Spec => []MutualExclusion
  <1>1. LockHeld => MutualExclusion
    BY DEF LockHeld, MutualExclusion
  <1> QED BY <1>1, LockIsHeld, PTL

=============================================================================
