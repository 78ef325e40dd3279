----------------------- MODULE TyrAutocompleteProofs -----------------------
(***************************************************************************)
(* Proofs about the autocomplete instances of tyr: any number of           *)
(* instances, of files and of jobs.                                        *)
(***************************************************************************)
EXTENDS TyrAutocomplete, FiniteSetTheorems, SequenceTheorems, TLAPS

\* What the proofs need to know of the files and of the versions of mimir.
Settings ==
    /\ IsFiniteSet(Files) /\ FileType \in [Files -> {"cosmogony", "bano", "oa", "osm", "none"}]
    /\ Versions \subseteq {2, 7}

Recognised == {f \in Files : FileType[f] # "none"}
JobRow == [instance : Instances, files : Seq(Files), state : {"running", "stuck", "done", "failed"}]

\* A sequence of files in the order of import, and a sequence that comes before another in it.
Ordered(s) == \A k, l \in DOMAIN s : k < l => Rank(s[k]) <= Rank(s[l])
Before(s, t) == \A k \in DOMAIN s, l \in DOMAIN t : Rank(s[k]) <= Rank(t[l])

\* A job, its chain and what it loaded have the same number.
SeqInv ==
    /\ jobs \in Seq(JobRow) /\ chains \in Seq(Seq(Files)) /\ loaded \in Seq(Seq(Files))
    /\ Len(chains) = Len(jobs) /\ Len(loaded) = Len(jobs)

\* What is loaded and what is to come are each in the order of import, and the first before
\* the second.
OrderInv ==
    \A j \in DOMAIN jobs : Ordered(loaded[j]) /\ Ordered(chains[j]) /\ Before(loaded[j], chains[j])

\* What the instances, the directories and the requests are about.
PlacesOK ==
    /\ params \subseteq Instances /\ depots \subseteq Instances /\ deleting \subseteq Instances
    /\ source \subseteq Files /\ backups \subseteq Files

IInv == PlacesOK /\ SeqInv /\ OrderInv /\ JobHasInstance

-----------------------------------------------------------------------------
(* The order of import *)

\* A file whose type is recognised has a rank.
LEMMA RankType ==
    ASSUME Settings, NEW f \in Recognised
    PROVE  Rank(f) \in 1 .. 4
  <1>1. DOMAIN ImportOrder = 1 .. 4
    BY DEF ImportOrder
  <1>2. FileType[f] \in {"cosmogony", "bano", "oa", "osm"}
    BY DEF Settings, Recognised
  <1>3. /\ ImportOrder[1] = "cosmogony" /\ ImportOrder[2] = "bano"
        /\ ImportOrder[3] = "oa" /\ ImportOrder[4] = "osm"
    BY DEF ImportOrder
  <1>4. \E k \in 1 .. 4 : ImportOrder[k] = FileType[f]
    BY <1>2, <1>3
  <1> QED BY <1>1, <1>4 DEF Rank

\* The sorted files of a set are a sequence of its members in the order of import.
LEMMA SortedIsOrdered ==
    ASSUME Settings, NEW S \in SUBSET Recognised, NEW s \in Sorted(S)
    PROVE  s \in Seq(Recognised) /\ Ordered(s)
  <1>1. IsFiniteSet(S)
    BY FS_Subset DEF Settings, Recognised
  <1>2. Cardinality(S) \in Nat
    BY <1>1, FS_CardinalityType
  <1>3. s \in SetToSeqs(S) /\ Ordered(s)
    BY DEF Sorted, Ordered
  <1>4. s \in [1 .. Cardinality(S) -> S]
    BY <1>3 DEF SetToSeqs
  <1> QED BY <1>2, <1>3, <1>4

\* At most two versions of mimir are active.
LEMMA VersionsCount ==
    ASSUME Settings, Versions # {}
    PROVE  Cardinality(Versions) \in {1, 2}
  <1>1. Versions = {2} \/ Versions = {7} \/ Versions = {2, 7}
    BY DEF Settings
  <1>2. Cardinality({2}) = 1 /\ Cardinality({7}) = 1 /\ IsFiniteSet({2})
    BY FS_Singleton
  <1>3. Cardinality({2} \cup {7}) = Cardinality({2}) + 1
    BY <1>2, FS_AddElement
  <1>4. {2, 7} = {2} \cup {7}
    OBVIOUS
  <1> QED BY <1>1, <1>2, <1>3, <1>4

\* The tasks of a job, one per file and version, are in the order of its files.
LEMMA ChainIsOrdered ==
    ASSUME Settings, Versions # {}, NEW s \in Seq(Recognised), Ordered(s)
    PROVE  ChainOf(s) \in Seq(Files) /\ Ordered(ChainOf(s))
  <1> DEFINE n == Cardinality(Versions)
             at(k) == (k - 1) \div n + 1
             chain == ChainOf(s)
  <1>1. n \in {1, 2} /\ Len(s) \in Nat
    BY VersionsCount
  <1>2. chain = [k \in 1 .. Len(s) * n |-> s[at(k)]]
    BY DEF ChainOf
  <1> HIDE DEF n, chain
  <1>3. ASSUME NEW k \in 1 .. Len(s) * n
        PROVE  at(k) \in 1 .. Len(s)
    BY <1>1
  <1>4. ASSUME NEW k \in 1 .. Len(s) * n, NEW l \in 1 .. Len(s) * n, k < l
        PROVE  at(k) <= at(l)
    BY <1>1, <1>4
  <1>5. DOMAIN s = 1 .. Len(s)
    OBVIOUS
  <1> HIDE DEF at
  <1>6. ASSUME NEW k \in 1 .. Len(s) * n
        PROVE  chain[k] = s[at(k)] /\ chain[k] \in Recognised
    BY <1>2, <1>3, <1>5
  <1>7. DOMAIN chain = 1 .. Len(s) * n /\ Len(s) * n \in Nat
    BY <1>1, <1>2
  <1>8. chain \in Seq(Recognised)
    BY <1>2, <1>6, <1>7
  <1>9. ASSUME NEW k \in DOMAIN chain, NEW l \in DOMAIN chain, k < l
        PROVE  Rank(chain[k]) <= Rank(chain[l])
    <2>1. chain[k] = s[at(k)] /\ chain[l] = s[at(l)] /\ at(k) \in DOMAIN s /\ at(l) \in DOMAIN s
      BY <1>3, <1>5, <1>6, <1>7
    <2>2. at(k) <= at(l)
      BY <1>4, <1>7, <1>9
    <2>3. CASE at(k) = at(l)
      <3>1. Rank(chain[k]) \in 1 .. 4
        BY <1>6, <1>7, RankType
      <3> QED BY <2>1, <2>3, <3>1
    <2>4. CASE at(k) < at(l)
      BY <2>1, <2>4 DEF Ordered
    <2>5. at(k) \in Int /\ at(l) \in Int
      BY <2>1, <1>5
    <2> QED BY <2>2, <2>3, <2>4, <2>5
  <1>10. chain \in Seq(Files)
    BY <1>8 DEF Recognised
  <1> QED BY <1>9, <1>10 DEF Ordered, chain

\* A task that returns takes its file from the chain...
LEMMA TailIsOrdered ==
    ASSUME NEW s, NEW chain \in Seq(Files), chain # <<>>, Ordered(chain), Before(s, chain)
    PROVE  Tail(chain) \in Seq(Files) /\ Ordered(Tail(chain)) /\ Before(s, Tail(chain))
  <1>1. /\ Tail(chain) \in Seq(Files) /\ Len(Tail(chain)) = Len(chain) - 1
        /\ \A k \in 1 .. Len(Tail(chain)) : Tail(chain)[k] = chain[k + 1]
    BY HeadTailProperties
  <1>2. DOMAIN chain = 1 .. Len(chain) /\ DOMAIN Tail(chain) = 1 .. Len(chain) - 1 /\ Len(chain) \in Nat
    BY <1>1
  <1>3. \A k \in DOMAIN Tail(chain) : k \in Int /\ k + 1 \in DOMAIN chain /\ Tail(chain)[k] = chain[k + 1]
    BY <1>1, <1>2
  <1>4. ASSUME NEW k \in DOMAIN Tail(chain), NEW l \in DOMAIN Tail(chain), k < l
        PROVE  Rank(Tail(chain)[k]) <= Rank(Tail(chain)[l])
    <2>1. k + 1 < l + 1
      BY <1>3, <1>4
    <2> QED BY <1>3, <2>1 DEF Ordered
  <1>5. Before(s, Tail(chain))
    BY <1>3 DEF Before
  <1> QED BY <1>1, <1>4, <1>5 DEF Ordered

\* ... and, when it ran the executable, adds it to what is loaded.
LEMMA AppendIsOrdered ==
    ASSUME NEW s \in Seq(Files), NEW chain \in Seq(Files), chain # <<>>, Ordered(s), Ordered(chain), Before(s, chain)
    PROVE  LET t == Append(s, Head(chain)) IN t \in Seq(Files) /\ Ordered(t) /\ Before(t, Tail(chain))
  <1> DEFINE f == Head(chain)
             t == Append(s, f)
  <1>1. /\ f \in Files /\ Tail(chain) \in Seq(Files) /\ Len(Tail(chain)) = Len(chain) - 1
        /\ \A k \in 1 .. Len(Tail(chain)) : Tail(chain)[k] = chain[k + 1]
    BY HeadTailProperties
  <1>2. f = chain[1] /\ 1 \in DOMAIN chain /\ DOMAIN chain = 1 .. Len(chain) /\ Len(chain) \in Nat
    OBVIOUS
  <1> HIDE DEF f
  <1>3. /\ t \in Seq(Files) /\ Len(t) = Len(s) + 1 /\ t[Len(s) + 1] = f
        /\ \A k \in 1 .. Len(s) : t[k] = s[k]
    BY <1>1, AppendProperties
  <1>4. DOMAIN t = 1 .. Len(s) + 1 /\ DOMAIN s = 1 .. Len(s) /\ Len(s) \in Nat
    BY <1>3
  <1> HIDE DEF t
  <1>5. ASSUME NEW k \in DOMAIN t, NEW l \in DOMAIN t, k < l
        PROVE  Rank(t[k]) <= Rank(t[l])
    <2>1. k \in DOMAIN s /\ t[k] = s[k]
      BY <1>3, <1>4, <1>5
    <2>2. CASE l \in DOMAIN s
      BY <1>3, <1>4, <1>5, <2>1, <2>2 DEF Ordered
    <2>3. CASE l = Len(s) + 1
      BY <1>2, <1>3, <2>1, <2>3 DEF Before
    <2> QED BY <1>4, <2>2, <2>3
  <1>6. ASSUME NEW k \in DOMAIN t, NEW l \in DOMAIN Tail(chain)
        PROVE  Rank(t[k]) <= Rank(Tail(chain)[l])
    <2>1. l \in Int /\ l + 1 \in DOMAIN chain /\ 1 < l + 1 /\ Tail(chain)[l] = chain[l + 1]
      BY <1>1, <1>2
    <2>2. CASE k \in DOMAIN s
      BY <1>3, <1>4, <2>1, <2>2 DEF Before
    <2>3. CASE k = Len(s) + 1
      BY <1>2, <1>3, <2>1, <2>3 DEF Ordered
    <2> QED BY <1>4, <2>2, <2>3
  <1> QED BY <1>3, <1>5, <1>6 DEF Ordered, Before, t, f

-----------------------------------------------------------------------------
(* The actions *)

\* Without a step of an import, the jobs are as they were.
LEMMA SameImports ==
    ASSUME IInv, UNCHANGED <<jobs, chains, loaded>>
    PROVE  SeqInv' /\ OrderInv'
  BY DEF IInv, SeqInv, OrderInv, Ordered, Before

\* A job is created for sorted files of an instance that has a row.
LEMMA NewJobPreserves ==
    ASSUME Settings, IInv, Versions # {}, NEW S \in SUBSET Recognised, NEW s \in Sorted(S),
           NEW i \in Instances, i \in params, NewJob(i, s), UNCHANGED params
    PROVE  SeqInv' /\ OrderInv' /\ JobHasInstance'
  <1> DEFINE job == [instance |-> i, files |-> s, state |-> "running"]
             chain == ChainOf(s)
             n == Len(jobs)
  <1>1. s \in Seq(Recognised) /\ Ordered(s)
    BY SortedIsOrdered
  <1>2. chain \in Seq(Files) /\ Ordered(chain)
    BY <1>1, ChainIsOrdered
  <1>3. job \in JobRow /\ job.instance = i
    BY <1>1 DEF JobRow, Recognised
  <1>4. jobs' = Append(jobs, job) /\ chains' = Append(chains, chain) /\ loaded' = Append(loaded, <<>>)
    BY DEF NewJob
  <1>5. <<>> \in Seq(Files) /\ Ordered(<<>>) /\ Before(<<>>, chain)
    BY DEF Ordered, Before
  <1> HIDE DEF job, chain
  <1>6. jobs \in Seq(JobRow) /\ chains \in Seq(Seq(Files)) /\ loaded \in Seq(Seq(Files))
        /\ Len(chains) = n /\ Len(loaded) = n /\ n \in Nat
    BY DEF IInv, SeqInv
  <1>7. /\ jobs' \in Seq(JobRow) /\ Len(jobs') = n + 1 /\ jobs'[n + 1] = job
        /\ \A j \in 1 .. n : jobs'[j] = jobs[j]
    BY <1>3, <1>4, <1>6, AppendProperties
  <1>8. /\ chains' \in Seq(Seq(Files)) /\ Len(chains') = n + 1 /\ chains'[n + 1] = chain
        /\ \A j \in 1 .. n : chains'[j] = chains[j]
    BY <1>2, <1>4, <1>6, AppendProperties
  <1>9. /\ loaded' \in Seq(Seq(Files)) /\ Len(loaded') = n + 1 /\ loaded'[n + 1] = <<>>
        /\ \A j \in 1 .. n : loaded'[j] = loaded[j]
    BY <1>4, <1>5, <1>6, AppendProperties
  <1>10. SeqInv'
    BY <1>7, <1>8, <1>9 DEF SeqInv
  <1>11. DOMAIN jobs' = 1 .. n + 1 /\ DOMAIN jobs = 1 .. n
    BY <1>6, <1>7
  <1>12. ASSUME NEW j \in DOMAIN jobs'
         PROVE  Ordered(loaded'[j]) /\ Ordered(chains'[j]) /\ Before(loaded'[j], chains'[j])
    <2>1. CASE j \in 1 .. n
      BY <1>8, <1>9, <1>11, <2>1 DEF IInv, OrderInv
    <2>2. CASE j = n + 1
      BY <1>2, <1>5, <1>8, <1>9, <2>2
    <2> QED BY <1>6, <1>11, <2>1, <2>2
  <1>13. OrderInv'
    BY <1>12 DEF OrderInv, Ordered, Before
  <1>14. JobHasInstance'
    <2>1. \A j \in 1 .. n : jobs[j].instance \in params
      BY <1>11 DEF IInv, JobHasInstance
    <2> QED BY <1>3, <1>6, <1>7, <1>11, <2>1 DEF JobHasInstance
  <1> QED BY <1>10, <1>13, <1>14

\* The files of the last datasets are recognised.
LEMMA LastAreRecognised ==
    ASSUME NEW i, NEW nb
    PROVE  LastDatasets(i, nb) \subseteq Recognised
  BY DEF LastDatasets, Recognised

\* import_autocomplete
LEMMA ImportPreserves ==
    ASSUME Settings, IInv, NEW i \in Instances, import_autocomplete(i)
    PROVE  IInv'
  <1> DEFINE mine == {f \in source : Owner[f] = i}
  <1>1. UNCHANGED <<params, depots, deleting>> /\ (source' = source \/ source' = source \ mine)
        /\ (backups' = backups \/ backups' = backups \cup mine)
    BY DEF import_autocomplete
  <1>2. mine \subseteq source
    OBVIOUS
  <1>3. \/ UNCHANGED <<jobs, chains, loaded>>
        \/ /\ i \in params /\ Versions # {} /\ \A f \in mine : FileType[f] # "none"
           /\ \E s \in Sorted(mine) : NewJob(i, s)
    BY DEF import_autocomplete
  <1> HIDE DEF mine
  <1>4. PlacesOK'
    BY <1>1, <1>2 DEF IInv, PlacesOK
  <1>5. CASE UNCHANGED <<jobs, chains, loaded>>
    <2>1. JobHasInstance'
      BY <1>1, <1>5 DEF IInv, JobHasInstance
    <2> QED BY <1>4, <1>5, <2>1, SameImports DEF IInv
  <1>6. CASE /\ i \in params /\ Versions # {} /\ \A f \in mine : FileType[f] # "none"
             /\ \E s \in Sorted(mine) : NewJob(i, s)
    <2>1. mine \in SUBSET Recognised
      BY <1>2, <1>6 DEF IInv, PlacesOK, Recognised
    <2>2. PICK s \in Sorted(mine) : NewJob(i, s)
      BY <1>6
    <2> QED BY <1>1, <1>4, <1>6, <2>1, <2>2, NewJobPreserves DEF IInv
  <1> QED BY <1>3, <1>5, <1>6

\* import_last_autocomplete_dataset
LEMMA ImportLastPreserves ==
    ASSUME Settings, IInv, NEW i \in Instances, import_last_autocomplete_dataset(i)
    PROVE  IInv'
  <1>1. UNCHANGED <<params, depots, source, backups, deleting>> /\ i \in params /\ Versions # {}
    BY DEF import_last_autocomplete_dataset, disk
  <1>2. PICK s \in Sorted(LastDatasets(i, 1)) : NewJob(i, s)
    BY DEF import_last_autocomplete_dataset
  <1>3. LastDatasets(i, 1) \in SUBSET Recognised
    BY LastAreRecognised
  <1>4. SeqInv' /\ OrderInv' /\ JobHasInstance'
    BY <1>1, <1>2, <1>3, NewJobPreserves
  <1>5. PlacesOK'
    BY <1>1 DEF IInv, PlacesOK
  <1> QED BY <1>4, <1>5 DEF IInv

\* A step of job j alone: its row keeps its instance, and its chain and what it loaded their order.
LEMMA StepPreserves ==
    ASSUME IInv, NEW j \in DOMAIN jobs, NEW chain \in Seq(Files), NEW done \in Seq(Files),
           NEW state \in {"running", "stuck", "done", "failed"},
           Ordered(done), Ordered(chain), Before(done, chain),
           jobs' = [jobs EXCEPT ![j].state = state], chains' = [chains EXCEPT ![j] = chain],
           loaded' = [loaded EXCEPT ![j] = done], UNCHANGED params
    PROVE  SeqInv' /\ OrderInv' /\ JobHasInstance'
  <1> DEFINE job == [jobs[j] EXCEPT !.state = state]
             n == Len(jobs)
  <1>1. jobs \in Seq(JobRow) /\ chains \in Seq(Seq(Files)) /\ loaded \in Seq(Seq(Files))
        /\ Len(jobs) = n /\ Len(chains) = n /\ Len(loaded) = n /\ n \in Nat
    BY DEF IInv, SeqInv
  <1>2. j \in 1 .. n /\ DOMAIN jobs = 1 .. n
    BY <1>1
  <1>3. jobs[j] \in JobRow
    BY <1>1, <1>2
  <1>4. job \in JobRow /\ job.instance = jobs[j].instance
    BY <1>3 DEF JobRow
  <1>5. jobs' = [jobs EXCEPT ![j] = job]
    OBVIOUS
  <1> HIDE DEF job, n
  <1>6. /\ jobs' \in Seq(JobRow) /\ Len(jobs') = n
        /\ \A k \in 1 .. n : jobs'[k] = IF k = j THEN job ELSE jobs[k]
    <2>1. /\ [jobs EXCEPT ![j] = job] \in Seq(JobRow) /\ Len([jobs EXCEPT ![j] = job]) = Len(jobs)
          /\ \A k \in 1 .. Len(jobs) : [jobs EXCEPT ![j] = job][k] = IF k = j THEN job ELSE jobs[k]
      BY <1>1, <1>2, <1>4, ExceptSeq
    <2> QED BY <1>1, <1>5, <2>1
  <1>7. /\ chains' \in Seq(Seq(Files)) /\ Len(chains') = n
        /\ \A k \in 1 .. n : chains'[k] = IF k = j THEN chain ELSE chains[k]
    BY <1>1, <1>2, ExceptSeq
  <1>8. /\ loaded' \in Seq(Seq(Files)) /\ Len(loaded') = n
        /\ \A k \in 1 .. n : loaded'[k] = IF k = j THEN done ELSE loaded[k]
    BY <1>1, <1>2, ExceptSeq
  <1>9. SeqInv'
    BY <1>6, <1>7, <1>8 DEF SeqInv
  <1>10. DOMAIN jobs' = 1 .. n
    BY <1>1, <1>6
  <1>11. ASSUME NEW k \in DOMAIN jobs'
         PROVE  Ordered(loaded'[k]) /\ Ordered(chains'[k]) /\ Before(loaded'[k], chains'[k])
    <2>1. CASE k = j
      BY <1>2, <1>7, <1>8, <2>1
    <2>2. CASE k # j
      BY <1>2, <1>7, <1>8, <1>10, <2>2 DEF IInv, OrderInv
    <2> QED BY <2>1, <2>2
  <1>12. OrderInv'
    BY <1>11 DEF OrderInv, Ordered, Before
  <1>13. JobHasInstance'
    <2>1. \A k \in 1 .. n : jobs[k].instance \in params
      BY <1>2 DEF IInv, JobHasInstance
    <2>2. \A k \in 1 .. n : jobs'[k].instance = jobs[k].instance
      BY <1>4, <1>6
    <2> QED BY <1>10, <2>1, <2>2 DEF JobHasInstance
  <1> QED BY <1>9, <1>12, <1>13

\* What the invariant says of one job.
LEMMA OneJob ==
    ASSUME IInv, NEW j \in DOMAIN jobs
    PROVE  /\ chains[j] \in Seq(Files) /\ loaded[j] \in Seq(Files)
           /\ Ordered(loaded[j]) /\ Ordered(chains[j]) /\ Before(loaded[j], chains[j])
           /\ chains = [chains EXCEPT ![j] = chains[j]] /\ loaded = [loaded EXCEPT ![j] = loaded[j]]
           /\ jobs = [jobs EXCEPT ![j].state = jobs[j].state]
           /\ jobs[j].state \in {"running", "stuck", "done", "failed"}
  <1>1. j \in 1 .. Len(jobs) /\ j \in DOMAIN chains /\ j \in DOMAIN loaded
    BY DEF IInv, SeqInv
  <1>2. chains[j] \in Seq(Files) /\ loaded[j] \in Seq(Files) /\ jobs[j] \in JobRow
    BY <1>1 DEF IInv, SeqInv
  <1>3. chains = [chains EXCEPT ![j] = chains[j]] /\ loaded = [loaded EXCEPT ![j] = loaded[j]]
    BY <1>1 DEF IInv, SeqInv
  <1>4. jobs[j] = [jobs[j] EXCEPT !.state = jobs[j].state]
    BY <1>2 DEF JobRow
  <1>5. jobs = [jobs EXCEPT ![j].state = jobs[j].state]
    BY <1>1, <1>4 DEF IInv, SeqInv
  <1> QED BY <1>2, <1>3, <1>5 DEF IInv, OrderInv, JobRow

\* A *2mimir task, and finish_job.
LEMMA TaskPreserves ==
    ASSUME IInv, NEW j \in DOMAIN jobs, ToMimir(j) \/ finish_job(j)
    PROVE  IInv'
  <1>1. UNCHANGED <<params, depots, source, backups, deleting>>
    BY DEF ToMimir, finish_job, disk
  <1>2. PlacesOK'
    BY <1>1 DEF IInv, PlacesOK
  <1>3. SeqInv' /\ OrderInv' /\ JobHasInstance'
    <2>1. CASE finish_job(j)
      <3>1. jobs' = [jobs EXCEPT ![j].state = "done"] /\ UNCHANGED <<chains, loaded>>
        BY <2>1 DEF finish_job
      <3> QED BY <1>1, <3>1, OneJob, StepPreserves
    <2>2. CASE ToMimir(j)
      <3>1. chains[j] # <<>>
        BY <2>2 DEF ToMimir
      <3>2. /\ Tail(chains[j]) \in Seq(Files) /\ Ordered(Tail(chains[j])) /\ Before(loaded[j], Tail(chains[j]))
        BY <3>1, OneJob, TailIsOrdered
      <3> DEFINE t == Append(loaded[j], Head(chains[j]))
      <3>3. t \in Seq(Files) /\ Ordered(t) /\ Before(t, Tail(chains[j]))
        BY <3>1, OneJob, AppendIsOrdered
      <3>4. <<>> \in Seq(Files) /\ Ordered(<<>>) /\ Before(loaded[j], <<>>)
        BY DEF Ordered, Before
      <3>5. \/ chains' = [chains EXCEPT ![j] = Tail(chains[j])] /\ UNCHANGED <<jobs, loaded>>
            \/ chains' = [chains EXCEPT ![j] = <<>>] /\ UNCHANGED loaded /\ jobs' = [jobs EXCEPT ![j].state = "stuck"]
            \/ chains' = [chains EXCEPT ![j] = Tail(chains[j])] /\ UNCHANGED jobs /\ loaded' = [loaded EXCEPT ![j] = t]
            \/ chains' = [chains EXCEPT ![j] = <<>>] /\ UNCHANGED loaded /\ jobs' = [jobs EXCEPT ![j].state = "failed"]
        BY <2>2 DEF ToMimir
      <3> HIDE DEF t
      <3>6. CASE chains' = [chains EXCEPT ![j] = Tail(chains[j])] /\ UNCHANGED <<jobs, loaded>>
        BY <1>1, <3>2, <3>6, OneJob, StepPreserves
      <3>7. CASE chains' = [chains EXCEPT ![j] = <<>>] /\ UNCHANGED loaded /\ jobs' = [jobs EXCEPT ![j].state = "stuck"]
        BY <1>1, <3>4, <3>7, OneJob, StepPreserves
      <3>8. CASE chains' = [chains EXCEPT ![j] = Tail(chains[j])] /\ UNCHANGED jobs /\ loaded' = [loaded EXCEPT ![j] = t]
        BY <1>1, <3>2, <3>3, <3>8, OneJob, StepPreserves
      <3>9. CASE chains' = [chains EXCEPT ![j] = <<>>] /\ UNCHANGED loaded /\ jobs' = [jobs EXCEPT ![j].state = "failed"]
        BY <1>1, <3>4, <3>9, OneJob, StepPreserves
      <3> QED BY <3>5, <3>6, <3>7, <3>8, <3>9
    <2> QED BY <2>1, <2>2
  <1> QED BY <1>2, <1>3 DEF IInv

\* The requests of the API, the tasks on the depots, the files that arrive and the crons leave the
\* jobs alone; the row of an instance goes only when no job refers to it.
LEMMA OthersPreserve ==
    ASSUME IInv,
           \/ \E i \in Instances : \/ PutAutocomplete(i) \/ DeleteAutocomplete(i) \/ CommitDelete(i)
                                   \/ create_autocomplete_depot(i) \/ remove_autocomplete_depot(i) \/ PurgeInstance(i)
           \/ \E f \in Files : FileArrives(f)
           \/ update_autocomplete \/ purge_autocomplete
    PROVE  IInv'
  <1>1. UNCHANGED <<jobs, chains, loaded>>
    BY DEF PutAutocomplete, DeleteAutocomplete, CommitDelete, create_autocomplete_depot,
           remove_autocomplete_depot, PurgeInstance, FileArrives, update_autocomplete, purge_autocomplete
  <1>2. PlacesOK'
    BY DEF PutAutocomplete, DeleteAutocomplete, CommitDelete, create_autocomplete_depot,
           remove_autocomplete_depot, PurgeInstance, FileArrives, update_autocomplete, purge_autocomplete,
           disk, IInv, PlacesOK
  <1>3. \A j \in DOMAIN jobs : jobs[j].instance \in params'
    <2>1. CASE \E i \in Instances : CommitDelete(i)
      BY <2>1 DEF CommitDelete, IInv, JobHasInstance
    <2>2. CASE ~\E i \in Instances : CommitDelete(i)
      <3>1. params \subseteq params'
        BY <2>2 DEF PutAutocomplete, DeleteAutocomplete, create_autocomplete_depot,
           remove_autocomplete_depot, PurgeInstance, FileArrives, update_autocomplete, purge_autocomplete
      <3> QED BY <3>1 DEF IInv, JobHasInstance
    <2> QED BY <2>1, <2>2
  <1>4. JobHasInstance'
    BY <1>1, <1>3 DEF JobHasInstance
  <1> QED BY <1>1, <1>2, <1>4, SameImports DEF IInv

-----------------------------------------------------------------------------
(* Theorems *)

\* Nothing is there at first.
LEMMA InitIInv ==
    ASSUME Init
    PROVE  IInv
  BY DEF Init, IInv, PlacesOK, SeqInv, OrderInv, JobHasInstance

\* Every step preserves the invariant.
LEMMA Inductive ==
    ASSUME Settings, IInv, [Next]_vars
    PROVE  IInv'
  <1>1. CASE UNCHANGED vars
    <2>1. PlacesOK' /\ JobHasInstance' /\ UNCHANGED <<jobs, chains, loaded>>
      BY <1>1 DEF vars, disk, IInv, PlacesOK, JobHasInstance
    <2> QED BY <2>1, SameImports DEF IInv
  <1>2. CASE Next
    BY <1>2, ImportPreserves, ImportLastPreserves, TaskPreserves, OthersPreserve DEF Next
  <1> QED BY <1>1, <1>2

\* The inductive invariant holds in every state.
THEOREM Invariance ==
    ASSUME Settings
    PROVE  Spec => []IInv
  <1>1. Init => IInv
    BY InitIInv
  <1>2. IInv /\ [Next]_vars => IInv'
    BY Inductive
  <1> QED BY <1>1, <1>2, PTL DEF Spec

\* Every job has a chain and a list of what it loaded, whatever is deleted meanwhile.
THEOREM TypeCorrectness ==
    ASSUME Settings
    PROVE  Spec => []TypeOK
  <1>1. IInv => TypeOK
    <2> SUFFICES ASSUME IInv PROVE TypeOK
      OBVIOUS
    <2>1. DOMAIN chains = DOMAIN jobs /\ DOMAIN loaded = DOMAIN jobs
      BY DEF IInv, SeqInv
    <2>2. ASSUME NEW j \in DOMAIN jobs
          PROVE  jobs[j].state \in {"running", "stuck", "done", "failed"}
      BY OneJob
    <2> QED BY <2>1, <2>2 DEF IInv, PlacesOK, TypeOK
  <1> QED BY <1>1, Invariance, PTL

\* What a job gives to mimir follows the order of import: the administrative regions come before
\* the addresses that refer to them, whichever files a job has, however many versions of mimir are
\* active and whatever is skipped or fails.
THEOREM ImportsAreInOrder ==
    ASSUME Settings
    PROVE  Spec => []AdminsFirst
  <1>1. IInv => AdminsFirst
    <2> SUFFICES ASSUME IInv PROVE AdminsFirst
      OBVIOUS
    <2>1. DOMAIN loaded = DOMAIN jobs
      BY DEF IInv, SeqInv
    <2> QED BY <2>1 DEF IInv, OrderInv, Ordered, AdminsFirst
  <1> QED BY <1>1, Invariance, PTL

\* No job loses the row of its instance: a DELETE that committed between the reading of the
\* row and the creation of the job makes the import end, and one that comes later is refused.
THEOREM JobsKeepTheirInstance ==
    ASSUME Settings
    PROVE  Spec => []JobHasInstance
  <1>1. IInv => JobHasInstance
    BY DEF IInv
  <1> QED BY <1>1, Invariance, PTL

=============================================================================
