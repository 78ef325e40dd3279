------------------------- MODULE TyrInstanceProofs -------------------------
(***************************************************************************)
(* Proofs about the PUT of an instance of tyr: any number of requests      *)
(* under way together, giving any of the declared arguments, modes and     *)
(* lists.                                                                  *)
(***************************************************************************)
EXTENDS TyrInstance, TLAPS

\* What the proofs need to know of the requests: they give what put declares.
Settings ==
  /\ Given \subseteq Declared /\ GivenModes \subseteq CrowflyModes /\ GivenLists \subseteq ListNames
  /\ MaxPuts \in Nat

CrowflyValues == {"initial", "a", "b"}

\* What a row, or what was loaded of one, may be.
RowOK(r) == DOMAIN r \subseteq Declared /\ \A c \in DOMAIN r : r[c] = "null" => c \in Nullable

\* What a request may give.
GivenOK(given) ==
  /\ DOMAIN given.columns \subseteq Declared
  /\ DOMAIN given.modes \subseteq CrowflyModes /\ \A m \in DOMAIN given.modes : given.modes[m] \in {"a", "b"}
  /\ DOMAIN given.lists \subseteq ListNames

\* What a request that loaded the instance holds.
LoadedOK(q) ==
  /\ q.phase = "loaded" /\ GivenOK(q.given)
  /\ q.crowfly \in [CrowflyModes -> CrowflyValues] /\ q.lists \in [ListNames -> SUBSET Known]

PutInv == DOMAIN put = Puts /\ \A p \in Puts : put[p] = Idle \/ LoadedOK(put[p])

IInv == TypeOK /\ PutInv

-----------------------------------------------------------------------------
(* Arguments *)

\* Every argument that put declares is assigned to the instance, and nothing else is.
LEMMA DeclaredIsAssigned == Assigned = Declared
  <1>1. FallbackArgs \subseteq Assigned
    BY DEF Assigned, AssignedJourneys, FallbackArgs
  <1>2. FilterArgs \subseteq Assigned
    BY DEF Assigned, AssignedJourneys, FilterArgs
  <1>3. TaxiArgs \cup NoDefault \subseteq Assigned
    BY DEF Assigned, AssignedJourneys, TaxiArgs, NoDefault
  <1>4. Backends \cup DirectPathArgs \subseteq Assigned
    BY DEF Assigned, AssignedServices
  <1>5. RidesharingArgs \subseteq Assigned
    BY DEF Assigned, AssignedServices, RidesharingArgs
  <1>6. PlannerArgs \subseteq Assigned
    BY DEF Assigned, AssignedServices, PlannerArgs
  <1>7. AssignedJourneys \subseteq Declared
    BY DEF Declared, AssignedJourneys, FallbackArgs, FilterArgs, TaxiArgs, NoDefault
  <1>8. AssignedServices \subseteq Declared
    BY DEF Declared, AssignedServices, RidesharingArgs, PlannerArgs
  <1>9. Assigned \subseteq Declared
    BY <1>7, <1>8 DEF Assigned
  <1>10. Declared \subseteq Assigned
    BY <1>1, <1>2, <1>3, <1>4, <1>5, <1>6 DEF Declared
  <1> QED BY <1>9, <1>10

\* The requests give what they may.
LEMMA RequestsAreOK ==
    ASSUME Settings, NEW given \in PutRequests
    PROVE  GivenOK(given)
  <1>0. DOMAIN Nothing = {} /\ "priority" \in Declared
    BY DEF Nothing, Declared, FilterArgs
  <1>1. CASE given \in UNION {{Column(c, v) : v \in Values(c)} : c \in Given}
    <2>1. PICK c \in Given : \E v \in Values(c) : given = Column(c, v)
      BY <1>1
    <2>2. PICK v \in Values(c) : given = Column(c, v)
      BY <2>1
    <2>3. given.columns = [x \in {c} |-> v] /\ given.modes = Nothing /\ given.lists = Nothing
      BY <2>2 DEF Column
    <2>4. DOMAIN given.columns = {c} /\ c \in Declared
      BY <2>3 DEF Settings
    <2> QED BY <1>0, <2>3, <2>4 DEF GivenOK
  <1>2. CASE given \in {OneMode(m, v) : m \in GivenModes, v \in {"a", "b"}}
    <2>1. PICK m \in GivenModes, v \in {"a", "b"} : given = OneMode(m, v)
      BY <1>2
    <2>2. given.columns = Nothing /\ given.modes = [x \in {m} |-> v] /\ given.lists = Nothing
      BY <2>1 DEF OneMode
    <2>3. DOMAIN given.modes = {m} /\ m \in CrowflyModes /\ given.modes[m] = v
      BY <2>2 DEF Settings
    <2> QED BY <1>0, <2>1, <2>2, <2>3 DEF GivenOK
  <1>3. CASE given \in {OneList(columns, l, ids) : columns \in {Nothing, PriorityB}, l \in GivenLists, ids \in SUBSET Services}
    <2>1. PICK columns \in {Nothing, PriorityB}, l \in GivenLists, ids \in SUBSET Services :
             given = OneList(columns, l, ids)
      BY <1>3
    <2>2. given.columns = columns /\ given.modes = Nothing /\ given.lists = [x \in {l} |-> ids]
      BY <2>1 DEF OneList
    <2>3. DOMAIN columns \subseteq {"priority"}
      <3>1. CASE columns = Nothing
        BY <1>0, <3>1
      <3>2. CASE columns = PriorityB
        BY <3>2 DEF PriorityB
      <3> QED BY <2>1, <3>1, <3>2
    <2>4. DOMAIN given.lists = {l} /\ l \in ListNames
      BY <2>2 DEF Settings
    <2> QED BY <1>0, <2>2, <2>3, <2>4 DEF GivenOK
  <1> QED BY <1>1, <1>2, <1>3 DEF PutRequests

\* What happens to the request that is under way, and to no other.
LEMMA Who ==
    ASSUME PutInv, NEW p \in Puts, NEW new, put' = [put EXCEPT ![p] = new]
    PROVE  DOMAIN put' = Puts /\ put'[p] = new /\ \A o \in Puts \ {p} : put'[o] = put[o]
  BY DEF PutInv

-----------------------------------------------------------------------------
(* The actions *)

\* The row is read.
LEMMA LoadPreserves ==
    ASSUME Settings, IInv, NEW p \in Puts, NEW given \in PutRequests, Load(p, given)
    PROVE  IInv'
  <1> DEFINE new == [phase |-> "loaded", given |-> given, row |-> row, crowfly |-> crowfly, lists |-> lists]
  <1>1. put' = [put EXCEPT ![p] = new] /\ begun < MaxPuts /\ begun' = begun + 1 /\ UNCHANGED <<row, crowfly, lists, answer>>
    BY DEF Load
  <1>2. LoadedOK(new)
    BY RequestsAreOK DEF LoadedOK, IInv, TypeOK, CrowflyValues
  <1> HIDE DEF new
  <1>3. PutInv'
    BY <1>1, <1>2, Who DEF IInv, PutInv
  <1>4. TypeOK'
    BY <1>1 DEF IInv, TypeOK, Settings
  <1> QED BY <1>3, <1>4 DEF IInv

\* What is written has its type.
LEMMA CommitPreserves ==
    ASSUME Settings, IInv, NEW p \in Puts, Commit(p)
    PROVE  IInv'
  <1> DEFINE q == put[p]
  <1>1. PICK again \in Reinserted(q) :
           /\ ~Refused(q, again)
           /\ lists' = [l \in ListNames |-> (lists[l] \ Removed(q, l, again)) \cup Added(q, l, again)]
    BY DEF Commit
  <1>2. /\ q.phase = "loaded" /\ put' = [put EXCEPT ![p] = Idle] /\ answer' = "ok" /\ begun' = begun
        /\ row' = [c \in DOMAIN row \cup Dirty(q) |-> IF c \in Dirty(q) THEN Arg(q, c) ELSE row[c]]
        /\ crowfly' = IF Merged(q) = q.crowfly THEN crowfly ELSE Merged(q)
    BY DEF Commit
  <1>3. LoadedOK(q)
    BY <1>2 DEF IInv, PutInv, Idle
  <1> HIDE DEF q
  <1>4. PutInv'
    BY <1>2, Who DEF IInv, PutInv
  <1>5. DOMAIN row' \subseteq Declared
    BY <1>2, DeclaredIsAssigned DEF Dirty, IInv, TypeOK
  <1>6. \A c \in DOMAIN row' : row'[c] = "null" => c \in Nullable
    BY <1>1, <1>2 DEF Refused, IInv, TypeOK
  <1>7. crowfly' \in [CrowflyModes -> {"initial", "a", "b"}]
    <2>1. Merged(q) \in [CrowflyModes -> {"initial", "a", "b"}]
      BY <1>3 DEF Merged, LoadedOK, GivenOK, CrowflyValues
    <2> QED BY <1>2, <2>1 DEF IInv, TypeOK
  <1>8. lists' \in [ListNames -> SUBSET Known]
    <2>1. ASSUME NEW l \in ListNames PROVE Added(q, l, again) \subseteq Known
      <3>1. ListArg(q, l) \subseteq Known
        BY <1>1 DEF Refused
      <3>2. again[l] \subseteq q.lists[l] \cap ListArg(q, l)
        BY <1>1 DEF Reinserted
      <3> QED BY <3>1, <3>2 DEF Added
    <2>2. ASSUME NEW l \in ListNames
          PROVE  (lists[l] \ Removed(q, l, again)) \cup Added(q, l, again) \in SUBSET Known
      <3>1. lists[l] \subseteq Known
        BY DEF IInv, TypeOK
      <3> QED BY <2>1, <3>1
    <2> QED BY <1>1, <2>2
  <1>9. TypeOK'
    BY <1>2, <1>5, <1>6, <1>7, <1>8 DEF IInv, TypeOK
  <1> QED BY <1>4, <1>9 DEF IInv

\* Nothing is written.
LEMMA RollbackPreserves ==
    ASSUME Settings, IInv, NEW p \in Puts, Rollback(p)
    PROVE  IInv'
  <1>1. put' = [put EXCEPT ![p] = Idle] /\ answer' = "error" /\ UNCHANGED <<row, crowfly, lists, begun>>
    BY DEF Rollback
  <1>2. PutInv'
    BY <1>1, Who DEF IInv, PutInv
  <1>3. TypeOK'
    BY <1>1 DEF IInv, TypeOK
  <1> QED BY <1>2, <1>3 DEF IInv

\* At the start nothing is under way.
LEMMA InitIInv ==
    ASSUME Settings, Init
    PROVE  IInv
  <1>1. DOMAIN row = {} /\ crowfly \in [CrowflyModes -> {"initial", "a", "b"}] /\ lists \in [ListNames -> SUBSET Known]
    BY DEF Init
  <1>2. TypeOK
    BY <1>1 DEF Init, TypeOK, Settings
  <1>3. PutInv
    BY DEF Init, PutInv
  <1> QED BY <1>2, <1>3 DEF IInv

\* Every step keeps the invariant.
LEMMA Inductive ==
    ASSUME Settings, IInv, [Next]_vars
    PROVE  IInv'
  <1>1. CASE UNCHANGED vars
    BY <1>1 DEF vars, IInv, TypeOK, PutInv
  <1> QED BY <1>1, LoadPreserves, CommitPreserves, RollbackPreserves DEF Next

\* The inductive invariant holds in every state.
THEOREM Invariance ==
    ASSUME Settings
    PROVE  Spec => []IInv
  <1>1. Init => IInv
    BY InitIInv
  <1>2. IInv /\ [Next]_vars => IInv'
    BY Inductive
  <1> QED BY <1>1, <1>2, PTL DEF Spec

\* Nothing becomes null that may not be, no column is written that put does not declare, and no service
\* without row is ever associated with the instance.
THEOREM TypeCorrectness ==
    ASSUME Settings
    PROVE  Spec => []TypeOK
  <1>1. IInv => TypeOK
    BY DEF IInv
  <1> QED BY <1>1, Invariance, PTL

-----------------------------------------------------------------------------
(* What a PUT changes *)

\* A request ends by its own commit or rollback.
LEMMA EndsByItself ==
    ASSUME Settings, IInv, Next, NEW p \in Puts, Ends(p)
    PROVE  LoadedOK(put[p]) /\ (Commit(p) \/ Rollback(p))
  <1>1. put[p].phase = "loaded" /\ put'[p] = Idle /\ put[p] # Idle
    BY DEF Ends, Idle
  <1>2. LoadedOK(put[p])
    BY <1>1 DEF IInv, PutInv
  <1>3. ASSUME NEW o \in Puts, NEW given \in PutRequests, Load(o, given)
        PROVE  FALSE
    <2> DEFINE new == [phase |-> "loaded", given |-> given, row |-> row, crowfly |-> crowfly, lists |-> lists]
    <2>1. put[o] = Idle /\ put' = [put EXCEPT ![o] = new]
      BY <1>3 DEF Load
    <2>2. new.phase = "loaded"
      OBVIOUS
    <2>3. o # p
      BY <1>1, <2>1
    <2> HIDE DEF new
    <2> QED BY <1>1, <2>1, <2>2, <2>3, Who DEF IInv
  <1>4. ASSUME NEW o \in Puts \ {p}, Commit(o) \/ Rollback(o)
        PROVE  FALSE
    <2>1. put' = [put EXCEPT ![o] = Idle]
      BY <1>4 DEF Commit, Rollback
    <2> QED BY <1>1, <2>1, Who DEF IInv
  <1> QED BY <1>2, <1>3, <1>4 DEF Next

\* What the row becomes: the columns that are dirty get their argument.
LEMMA Written ==
    ASSUME NEW p \in Puts, Commit(p), NEW c
    PROVE  Value(row', c) = IF c \in Dirty(put[p]) THEN Arg(put[p], c) ELSE Value(row, c)
  <1>1. row' = [d \in DOMAIN row \cup Dirty(put[p]) |-> IF d \in Dirty(put[p]) THEN Arg(put[p], d) ELSE row[d]]
    BY DEF Commit
  <1>2. DOMAIN row' = DOMAIN row \cup Dirty(put[p])
    BY <1>1
  <1>3. CASE c \in Dirty(put[p])
    BY <1>1, <1>2, <1>3 DEF Value
  <1>4. CASE c \notin Dirty(put[p])
    BY <1>1, <1>2, <1>4 DEF Value
  <1> QED BY <1>3, <1>4

\* A step changes no parameter that the request was not given.
LEMMA OnlyGivenStep ==
    ASSUME Settings, IInv, [Next]_vars
    PROVE  [OnlyGiven]_vars
  <1> SUFFICES ASSUME Next PROVE OnlyGiven
    OBVIOUS
  <1> SUFFICES ASSUME NEW p \in Puts, Ends(p), NEW c \in Declared \ (NoDefault \cup DOMAIN put[p].given.columns)
               PROVE  Value(row', c) = Value(row, c)
    BY DEF OnlyGiven
  <1>1. CASE Rollback(p)
    BY <1>1 DEF Rollback, Value
  <1>2. CASE Commit(p)
    <2>1. Arg(put[p], c) = Value(put[p].row, c)
      BY DEF Arg
    <2>2. c \notin Dirty(put[p])
      BY <2>1 DEF Dirty
    <2> QED BY <1>2, <2>2, Written
  <1> QED BY <1>1, <1>2, EndsByItself

\* A request that succeeds ends by its commit.
LEMMA OkIsCommit ==
    ASSUME Settings, IInv, Next, NEW p \in Puts, Ok(p)
    PROVE  LoadedOK(put[p]) /\ Commit(p)
  <1>1. ~Rollback(p)
    BY DEF Ok, Rollback
  <1> QED BY <1>1, EndsByItself DEF Ok

\* A step takes what the request was given.
LEMMA GivenTakenStep ==
    ASSUME Settings, IInv, [Next]_vars
    PROVE  [GivenTaken]_vars
  <1> SUFFICES ASSUME Next PROVE GivenTaken
    OBVIOUS
  <1> SUFFICES ASSUME NEW p \in Puts, Ok(p)
               PROVE  /\ \A c \in DOMAIN put[p].given.columns :
                           \/ Value(row', c) = put[p].given.columns[c]
                           \/ Value(put[p].row, c) = put[p].given.columns[c]
                      /\ \A m \in DOMAIN put[p].given.modes :
                           \/ crowfly'[m] = put[p].given.modes[m]
                           \/ put[p].crowfly[m] = put[p].given.modes[m]
    BY DEF GivenTaken
  <1> DEFINE q == put[p]
  <1>1. LoadedOK(q) /\ Commit(p)
    BY OkIsCommit
  <1>2. ASSUME NEW c \in DOMAIN q.given.columns
        PROVE  Value(row', c) = q.given.columns[c] \/ Value(q.row, c) = q.given.columns[c]
    <2>1. Arg(q, c) = q.given.columns[c]
      BY DEF Arg
    <2>2. c \in Assigned
      BY <1>1, DeclaredIsAssigned DEF LoadedOK, GivenOK
    <2>3. Value(q.row, c) = q.given.columns[c] \/ c \in Dirty(q)
      BY <2>1, <2>2 DEF Dirty
    <2> QED BY <1>1, <2>1, <2>3, Written
  <1>3. ASSUME NEW m \in DOMAIN q.given.modes
        PROVE  crowfly'[m] = q.given.modes[m] \/ q.crowfly[m] = q.given.modes[m]
    <2>1. m \in CrowflyModes
      BY <1>1 DEF LoadedOK, GivenOK
    <2>2. Merged(q)[m] = q.given.modes[m]
      BY <2>1 DEF Merged
    <2>3. crowfly' = IF Merged(q) = q.crowfly THEN crowfly ELSE Merged(q)
      BY <1>1 DEF Commit
    <2> QED BY <2>2, <2>3
  <1> QED BY <1>2, <1>3

\* A step of a request that nobody disturbed leaves what it should.
LEMMA AloneExactStep ==
    ASSUME Settings, IInv, [Next]_vars
    PROVE  [AloneExact]_vars
  <1> SUFFICES ASSUME Next PROVE AloneExact
    OBVIOUS
  <1> SUFFICES ASSUME NEW p \in Puts, Ok(p), Undisturbed(p)
               PROVE  /\ \A m \in CrowflyModes \ DOMAIN put[p].given.modes : crowfly'[m] = crowfly[m]
                      /\ \A l \in DOMAIN put[p].given.lists : lists'[l] = put[p].given.lists[l]
    BY DEF AloneExact
  <1> DEFINE q == put[p]
  <1>1. LoadedOK(q) /\ Commit(p) /\ q.crowfly = crowfly /\ q.lists = lists
    BY OkIsCommit DEF Undisturbed
  <1>2. ASSUME NEW m \in CrowflyModes \ DOMAIN q.given.modes
        PROVE  crowfly'[m] = crowfly[m]
    <2>1. Merged(q)[m] = q.crowfly[m]
      BY DEF Merged
    <2>2. crowfly' = IF Merged(q) = q.crowfly THEN crowfly ELSE Merged(q)
      BY <1>1 DEF Commit
    <2> QED BY <1>1, <2>1, <2>2
  <1>3. ASSUME NEW l \in DOMAIN q.given.lists
        PROVE  lists'[l] = q.given.lists[l]
    <2>1. l \in ListNames
      BY <1>1 DEF LoadedOK, GivenOK
    <2>2. PICK again \in Reinserted(q) :
             lists' = [k \in ListNames |-> (lists[k] \ Removed(q, k, again)) \cup Added(q, k, again)]
      BY <1>1 DEF Commit
    <2>3. ListArg(q, l) = q.given.lists[l]
      BY DEF ListArg
    <2>4. again[l] \subseteq q.lists[l] \cap ListArg(q, l)
      BY <2>1, <2>2 DEF Reinserted
    <2>5. lists'[l] = (lists[l] \ Removed(q, l, again)) \cup Added(q, l, again)
      BY <2>1, <2>2
    <2>6. (lists[l] \ Removed(q, l, again)) \cup Added(q, l, again) = ListArg(q, l)
      BY <1>1, <2>4 DEF Removed, Added
    <2> QED BY <2>3, <2>5, <2>6
  <1> QED BY <1>2, <1>3

\* Of any number of requests under way together, none changes a parameter that it was not given, whatever the
\* others committed since it loaded the row, but for the two arguments that have no default.
THEOREM PutsChangeOnlyGiven ==
    ASSUME Settings
    PROVE  Spec => [][OnlyGiven]_vars
  <1>1. IInv /\ [Next]_vars => [OnlyGiven]_vars
    BY OnlyGivenStep
  <1> QED BY <1>1, Invariance, PTL DEF Spec

\* Each of the arguments that put declares is taken: none is forgotten by the assignments.
THEOREM PutsTakeTheirArguments ==
    ASSUME Settings
    PROVE  Spec => [][GivenTaken]_vars
  <1>1. IInv /\ [Next]_vars => [GivenTaken]_vars
    BY GivenTakenStep
  <1> QED BY <1>1, Invariance, PTL DEF Spec

\* A request that nobody disturbed leaves the modes it was not given, and its lists become those of the instance
\* whatever the session deletes and inserts again on the way.
THEOREM UndisturbedPutsAreExact ==
    ASSUME Settings
    PROVE  Spec => [][AloneExact]_vars
  <1>1. IInv /\ [Next]_vars => [AloneExact]_vars
    BY AloneExactStep
  <1> QED BY <1>1, Invariance, PTL DEF Spec
=============================================================================
