------------------------- MODULE QueueServiceProofs --------------------------
(* Theorems about QueueService for any jobs, limits, defaults and options.   *)
EXTENDS QueueService, FiniteSetTheorems, TLAPS

USE QueueAssumption

\* Jobs added one by one, and not gone.
Single(j) == state[j] \in {"waiting", "delayed", "active", "completed", "failed"} /\ j \notin bulk

\* Jobs that have not ended.
Pending == {"none", "waiting", "delayed", "active"}

States == {"none", "waiting", "delayed", "active", "completed", "failed", "removed"}

Types ==
  /\ state \in [Jobs -> States]
  /\ options \in [Jobs -> [OptionNames -> Nat]]
  /\ fails \in [Jobs -> Nat] /\ stalls \in [Jobs -> 0 .. MaxStalled + 1]
  /\ ends \in Nat /\ finishedOn \in [Jobs -> 0 .. ends]
  /\ paused \in BOOLEAN /\ open \in BOOLEAN /\ cleaning \in BOOLEAN
  /\ given \in [Jobs -> CallerOptions \cup {<<>>}]
  /\ bulk \subseteq Jobs

\* The jobs that have ended, and only they, have a time.
Ended == \A j \in Jobs : state[j] \in {"completed", "failed"} <=> finishedOn[j] > 0

\* Each has its own.
Distinct == \A j, k \in Jobs : finishedOn[j] = finishedOn[k] => j = k \/ finishedOn[j] = 0

\* What its caller left open, a single job has from the defaults; while it may
\* run again it has attempts left, and one more worker to lose.
JobOK(j) ==
  /\ Single(j) => \A n \in OptionNames : n \notin DOMAIN given[j] =>
                    options[j][n] = DefaultOptions[n]
  /\ state[j] = "none" => fails[j] = 0
  /\ Single(j) /\ state[j] \in Pending /\ "attempts" \notin DOMAIN given[j] =>
       fails[j] < DefaultAttempts
  /\ state[j] \in Pending => stalls[j] <= MaxStalled
  /\ Single(j) /\ state[j] = "failed" /\ "attempts" \notin DOMAIN given[j] =>
       fails[j] = DefaultAttempts \/ stalls[j] > MaxStalled

\* The single jobs that a set keeps under the default limit.
Own(set, opt) == {j \in Jobs : state[j] = set /\ j \notin bulk /\ opt \notin DOMAIN given[j]}

Bounded(set, opt) == Cardinality(Own(set, opt)) <= DefaultOptions[opt]

IInv ==
  /\ Types /\ Ended /\ Distinct
  /\ \A j \in Jobs : JobOK(j)
  /\ Bounded("completed", "removeOnComplete") /\ Bounded("failed", "removeOnFail")

-----------------------------------------------------------------------------
\* Options.

\* A caller's options, and what they fall back to, are numbers.
LEMMA OptionsTyped ==
  ASSUME NEW low \in [OptionNames -> Nat], NEW o \in CallerOptions
  PROVE  /\ Over(low, o) \in [OptionNames -> Nat]
         /\ \A n \in OptionNames : n \notin DOMAIN o => Over(low, o)[n] = low[n]
  BY DEF Over

LEMMA DefaultsTyped ==
  /\ DefaultOptions \in [OptionNames -> Nat] /\ BullDefaults \in [OptionNames -> Nat]
  /\ DefaultOptions["attempts"] = DefaultAttempts
  /\ DefaultOptions["removeOnComplete"] = DefaultCompleted
  /\ DefaultOptions["removeOnFail"] = DefaultFailed
<1>1. KeepAll \in Nat
  BY FS_CardinalityType DEF KeepAll
<1>2. BullDefaults \in [OptionNames -> Nat]
  BY <1>1 DEF BullDefaults, OptionNames
<1>3. DefaultOptions \in [OptionNames -> Nat]
  BY DEF DefaultOptions, OptionNames
<1>4. QED
  BY <1>2, <1>3 DEF DefaultOptions

\* Of a set whose members ended at different times no more are kept than the
\* limit says: each has its own number of newer ones, below the limit.
LEMMA KeptBounded ==
  ASSUME NEW S, IsFiniteSet(S), NEW on, NEW limit \in Nat,
         \A k \in S : on[k] \in Nat,
         \A i, k \in S : on[i] = on[k] => i = k
  PROVE  IsFiniteSet(Kept(S, on, limit)) /\ Cardinality(Kept(S, on, limit)) <= limit
<1> DEFINE Newer(k) == {i \in S : on[i] > on[k]}
           T == Kept(S, on, limit)
<1>1. T \subseteq S /\ \A k \in T : Cardinality(Newer(k)) < limit
  BY DEF Kept
<1>2. \A k \in S : IsFiniteSet(Newer(k)) /\ Cardinality(Newer(k)) \in Nat
  BY FS_Subset, FS_CardinalityType
<1>3. ASSUME NEW i \in T, NEW k \in T, on[i] < on[k]
      PROVE  Cardinality(Newer(i)) # Cardinality(Newer(k))
  <2>1. i \in S /\ k \in S /\ on[i] \in Nat /\ on[k] \in Nat
    BY <1>1
  <2>2. Newer(k) \subseteq Newer(i) /\ k \in Newer(i) /\ k \notin Newer(k)
    BY <1>3, <2>1
  <2>3. QED
    BY <1>2, <2>1, <2>2, FS_Subset
<1>4. IsFiniteSet(T) /\ Cardinality(T) \in Nat
  BY <1>1, FS_Subset, FS_CardinalityType
<1>5. ASSUME Cardinality(T) > limit
      PROVE  FALSE
  <2> DEFINE f == [k \in T |-> Cardinality(Newer(k))]
             R == 0 .. limit - 1
  <2>1. IsFiniteSet(R) /\ Cardinality(R) = limit
    BY FS_Interval
  <2>2. f \in [T -> R]
    BY <1>1, <1>2
  <2>3. PICK x, y \in T : x # y /\ f[x] = f[y]
    <3> HIDE DEF f, R, T
    <3>1. QED
      BY <1>4, <1>5, <2>1, <2>2, FS_PigeonHole
  <2>4. x \in S /\ y \in S /\ on[x] \in Nat /\ on[y] \in Nat /\ on[x] # on[y]
    BY <1>1, <2>3
  <2>5. on[x] < on[y] \/ on[y] < on[x]
    BY <2>4
  <2>6. Cardinality(Newer(x)) = Cardinality(Newer(y))
    BY <2>3
  <2>7. QED
    BY <1>3, <2>5, <2>6
<1>6. QED
  BY <1>4, <1>5

-----------------------------------------------------------------------------
\* Steps that end no job.

\* A set that gains no single job stays below its limit.
LEMMA OwnShrinks ==
  ASSUME NEW set, NEW opt \in OptionNames, Bounded(set, opt), Own(set, opt)' \subseteq Own(set, opt)
  PROVE  Bounded(set, opt)'
<1>1. IsFiniteSet(Own(set, opt))
  BY FS_Subset DEF Own
<1>2. /\ IsFiniteSet(Own(set, opt)') /\ Cardinality(Own(set, opt)') <= Cardinality(Own(set, opt))
      /\ Cardinality(Own(set, opt)) \in Nat /\ Cardinality(Own(set, opt)') \in Nat
  BY <1>1, FS_Subset, FS_CardinalityType
<1>3. DefaultOptions[opt] \in Nat
  BY DefaultsTyped
<1>4. QED
  BY <1>2, <1>3 DEF Bounded

\* What touches no job keeps everything about them.
LEMMA JobsKept ==
  ASSUME IInv, UNCHANGED <<jobVars, endVars>>,
         paused' \in BOOLEAN, open' \in BOOLEAN, cleaning' \in BOOLEAN
  PROVE  IInv'
<1>1. UNCHANGED <<state, options, fails, stalls, given, bulk, finishedOn, ends>>
  BY DEF jobVars, endVars
<1>2. Types' /\ Ended' /\ Distinct'
  BY <1>1 DEF IInv, Types, Ended, Distinct
<1>3. \A j \in Jobs : JobOK(j)'
  BY <1>1 DEF IInv, JobOK, Single
<1>4. \A set, opt : Own(set, opt)' = Own(set, opt)
  BY <1>1 DEF Own
<1>5. QED
  BY <1>2, <1>3, <1>4 DEF IInv, Bounded

LEMMA ControlStep ==
  ASSUME IInv, PauseQueue \/ ResumeQueue \/ OnModuleDestroy \/ OnModuleInit
  PROVE  IInv'
<1>1. UNCHANGED <<jobVars, endVars>>
  BY DEF PauseQueue, ResumeQueue, OnModuleDestroy, OnModuleInit
<1>2. paused' \in BOOLEAN /\ open' \in BOOLEAN /\ cleaning' \in BOOLEAN
  BY DEF IInv, Types, PauseQueue, ResumeQueue, OnModuleDestroy, OnModuleInit
<1>3. QED
  BY <1>1, <1>2, JobsKept

\* New jobs have what they were given, over the defaults if they are single.
LEMMA AddStep ==
  ASSUME IInv, NEW S \in SUBSET Jobs, NEW o \in CallerOptions,
         NEW low \in [OptionNames -> Nat], Add(S, o, Over(low, o)),
         \/ low = DefaultOptions /\ bulk' = bulk
         \/ bulk' = bulk \cup S
  PROVE  IInv'
<1> DEFINE opts == Over(low, o)
<1>1. /\ \A j \in S : state[j] = "none"
      /\ state' = [j \in Jobs |-> IF j \in S THEN "waiting" ELSE state[j]]
      /\ options' = [j \in Jobs |-> IF j \in S THEN opts ELSE options[j]]
      /\ given' = [j \in Jobs |-> IF j \in S THEN o ELSE given[j]]
      /\ UNCHANGED <<fails, stalls, finishedOn, ends, paused, open, cleaning>>
  BY DEF Add, endVars, controlVars
<1>2. /\ opts \in [OptionNames -> Nat]
      /\ \A n \in OptionNames : n \notin DOMAIN o => opts[n] = low[n]
  BY OptionsTyped
<1> HIDE DEF opts
<1>3. Types'
  <2>1. state' \in [Jobs -> States] /\ options' \in [Jobs -> [OptionNames -> Nat]]
    BY <1>1, <1>2 DEF IInv, Types, States
  <2>2. given' \in [Jobs -> CallerOptions \cup {<<>>}] /\ bulk' \subseteq Jobs
    BY <1>1 DEF IInv, Types
  <2>3. QED
    BY <1>1, <2>1, <2>2 DEF IInv, Types
<1>4. Ended' /\ Distinct'
  BY <1>1 DEF IInv, Types, Ended, Distinct
<1>5. ASSUME NEW j \in Jobs PROVE JobOK(j)'
  <2>1. JobOK(j)
    BY DEF IInv
  <2>2. CASE j \in S
    <3>1. /\ state[j] = "none" /\ state'[j] = "waiting" /\ options'[j] = opts /\ given'[j] = o
          /\ fails'[j] = 0 /\ stalls'[j] <= MaxStalled
      BY <1>1, <2>1, <2>2 DEF JobOK, Pending
    <3>2. j \in bulk' \/ low = DefaultOptions
      BY <2>2
    <3>3. QED
      BY <1>2, <3>1, <3>2 DEF JobOK, Single, Pending
  <2>3. CASE j \notin S
    <3>1. /\ state'[j] = state[j] /\ options'[j] = options[j] /\ given'[j] = given[j]
          /\ fails'[j] = fails[j] /\ stalls'[j] = stalls[j] /\ (j \in bulk' <=> j \in bulk)
      BY <1>1, <2>3
    <3>2. QED
      BY <2>1, <3>1 DEF JobOK, Single
  <2>4. QED
    BY <2>2, <2>3
<1>6. \A set \in {"completed", "failed"} : \A opt : Own(set, opt)' \subseteq Own(set, opt)
  BY <1>1 DEF Own
<1>7. QED
  BY <1>3, <1>4, <1>5, <1>6, OwnShrinks DEF IInv, OptionNames

\* A job that is taken, or given another try.
LEMMA MoveStep ==
  ASSUME IInv, NEW j \in Jobs, NEW where \in {"waiting", "delayed", "active"},
         state[j] \in {"waiting", "delayed", "active"},
         state' = [state EXCEPT ![j] = where],
         UNCHANGED <<options, given, bulk, endVars, controlVars>>,
         fails' \in [Jobs -> Nat], stalls' \in [Jobs -> 0 .. MaxStalled + 1],
         \A k \in Jobs : k # j => fails'[k] = fails[k] /\ stalls'[k] = stalls[k],
         fails'[j] = fails[j] \/ fails'[j] < options[j].attempts,
         stalls'[j] <= MaxStalled
  PROVE  IInv'
<1>1. /\ UNCHANGED <<options, given, bulk, finishedOn, ends, paused, open, cleaning>>
      /\ state' \in [Jobs -> States] /\ state'[j] = where
      /\ \A k \in Jobs : k # j => state'[k] = state[k]
  BY DEF endVars, controlVars, IInv, Types, States
<1>2. Types'
  BY <1>1 DEF IInv, Types
<1>3. Ended' /\ Distinct'
  BY <1>1 DEF IInv, Ended, Distinct
<1>4. ASSUME NEW k \in Jobs PROVE JobOK(k)'
  <2>1. JobOK(k)
    BY DEF IInv
  <2>2. CASE k = j
    <3>1. (Single(k) <=> Single(k)') /\ state[k] \in Pending /\ state[k] # "none"
      BY <1>1, <2>2 DEF Single, Pending
    <3>2. Single(k) /\ "attempts" \notin DOMAIN given[k] => options[k].attempts = DefaultAttempts
      BY <2>1, DefaultsTyped DEF JobOK, OptionNames
    <3>3. Single(k) /\ "attempts" \notin DOMAIN given[k] => fails'[k] < DefaultAttempts
      BY <2>1, <2>2, <3>1, <3>2 DEF JobOK
    <3>4. QED
      BY <1>1, <2>1, <2>2, <3>1, <3>3 DEF JobOK
  <2>3. CASE k # j
    BY <1>1, <2>1, <2>3 DEF JobOK, Single
  <2>4. QED
    BY <2>2, <2>3
<1>5. \A set \in {"completed", "failed"} : \A opt : Own(set, opt)' \subseteq Own(set, opt)
  BY <1>1 DEF Own
<1>6. QED
  BY <1>2, <1>3, <1>4, <1>5, OwnShrinks DEF IInv, OptionNames

\* A cleaning takes finished jobs only.
LEMMA CleanStep ==
  ASSUME IInv, NEW set \in {"completed", "failed"}, Clean(set), cleaning' \in BOOLEAN
  PROVE  IInv'
<1>1. PICK gone \in SUBSET {j \in Jobs : state[j] = set} :
        /\ state' = [j \in Jobs |-> IF j \in gone THEN "removed" ELSE state[j]]
        /\ Remove(gone, finishedOn)
        /\ UNCHANGED <<fails, stalls, ends, paused, open>>
  BY DEF Clean
<1>2. /\ options' = [j \in Jobs |-> IF j \in gone THEN BullDefaults ELSE options[j]]
      /\ given' = [j \in Jobs |-> IF j \in gone THEN <<>> ELSE given[j]]
      /\ finishedOn' = [j \in Jobs |-> IF j \in gone THEN 0 ELSE finishedOn[j]]
      /\ bulk' = bulk \ gone
  BY <1>1 DEF Remove
<1>3. Types'
  <2>1. state' \in [Jobs -> States] /\ options' \in [Jobs -> [OptionNames -> Nat]]
    BY <1>1, <1>2, DefaultsTyped DEF IInv, Types, States
  <2>2. given' \in [Jobs -> CallerOptions \cup {<<>>}] /\ bulk' \subseteq Jobs
    BY <1>2 DEF IInv, Types
  <2>3. finishedOn' \in [Jobs -> 0 .. ends']
    BY <1>1, <1>2 DEF IInv, Types
  <2>4. QED
    BY <1>1, <2>1, <2>2, <2>3 DEF IInv, Types
<1>4. Ended' /\ Distinct'
  BY <1>1, <1>2 DEF IInv, Ended, Distinct
<1>5. ASSUME NEW j \in Jobs PROVE JobOK(j)'
  <2>1. JobOK(j)
    BY DEF IInv
  <2>2. CASE j \in gone
    BY <1>1, <2>2 DEF JobOK, Single, Pending
  <2>3. CASE j \notin gone
    <3>1. /\ state'[j] = state[j] /\ options'[j] = options[j] /\ given'[j] = given[j]
          /\ fails'[j] = fails[j] /\ stalls'[j] = stalls[j] /\ (j \in bulk' <=> j \in bulk)
      BY <1>1, <1>2, <2>3
    <3>2. QED
      BY <2>1, <3>1 DEF JobOK, Single
  <2>4. QED
    BY <2>2, <2>3
<1>6. \A s \in {"completed", "failed"} : \A opt : Own(s, opt)' \subseteq Own(s, opt)
  BY <1>1, <1>2 DEF Own
<1>7. QED
  BY <1>3, <1>4, <1>5, <1>6, OwnShrinks DEF IInv, OptionNames

-----------------------------------------------------------------------------
\* Steps that end a job.

\* The set of the job that ends is cut to the job's limit, and no other gains
\* a job, so a single job's default limit bounds the single jobs there.
LEMMA FinishStep ==
  ASSUME IInv, NEW j \in Jobs, state[j] = "active",
         NEW set, NEW opt \in OptionNames,
         \/ set = "completed" /\ opt = "removeOnComplete"
         \/ set = "failed" /\ opt = "removeOnFail",
         Finish(j, set, options[j][opt]), UNCHANGED controlVars,
         fails' \in [Jobs -> Nat], stalls' \in [Jobs -> 0 .. MaxStalled + 1],
         \A k \in Jobs : k # j => fails'[k] = fails[k] /\ stalls'[k] = stalls[k],
         set = "failed" /\ Single(j) /\ "attempts" \notin DOMAIN given[j] =>
           fails'[j] = DefaultAttempts \/ stalls'[j] > MaxStalled
  PROVE  IInv'
<1> DEFINE S == {k \in Jobs : state[k] = set} \cup {j}
           on == [finishedOn EXCEPT ![j] = ends + 1]
           limit == options[j][opt]
           kept == IF limit = 0 THEN S \ {j} ELSE Kept(S, on, limit)
           gone == S \ kept
<1>1. /\ ends' = ends + 1
      /\ state' = [k \in Jobs |-> IF k \in kept THEN set
                                  ELSE IF k \in S THEN "removed" ELSE state[k]]
      /\ options' = [k \in Jobs |-> IF k \in gone THEN BullDefaults ELSE options[k]]
      /\ given' = [k \in Jobs |-> IF k \in gone THEN <<>> ELSE given[k]]
      /\ finishedOn' = [k \in Jobs |-> IF k \in gone THEN 0 ELSE on[k]]
      /\ bulk' = bulk \ gone
      /\ UNCHANGED <<paused, open, cleaning>>
  BY DEF Finish, Remove, controlVars
<1>2. /\ ends \in Nat /\ limit \in Nat /\ finishedOn \in [Jobs -> 0 .. ends]
      /\ set \in {"completed", "failed"} /\ state \in [Jobs -> States]
  BY DEF IInv, Types
<1>3. /\ on \in [Jobs -> 0 .. ends + 1] /\ on[j] = ends + 1
      /\ \A k \in Jobs : k # j => on[k] = finishedOn[k] /\ on[k] <= ends
  BY <1>2
<1>4. S \subseteq Jobs /\ IsFiniteSet(S) /\ j \in S /\ kept \subseteq S
  BY FS_Subset DEF Kept
<1>5. \A k \in S : k = j \/ state[k] = set
  OBVIOUS
<1>6. \A k \in Jobs : k \notin S => state[k] # set /\ k # j
  OBVIOUS
<1>7. \A i, k \in Jobs : on[i] = on[k] => i = k \/ on[i] = 0
  BY <1>2, <1>3 DEF IInv, Distinct
<1>8. \A k \in S : on[k] \in Nat /\ on[k] > 0
  <2>1. \A k \in S : k # j => finishedOn[k] > 0
    BY <1>2, <1>4, <1>5 DEF IInv, Ended
  <2>2. QED
    BY <1>2, <1>3, <1>4, <2>1
<1>9. IsFiniteSet(kept) /\ (j \in kept => Cardinality(kept) <= limit)
  <2>1. \A i, k \in S : on[i] = on[k] => i = k
    BY <1>4, <1>7, <1>8
  <2>2. CASE limit = 0
    BY <1>4, <2>2, FS_Subset
  <2>3. CASE limit # 0
    <3>1. kept = Kept(S, on, limit)
      BY <2>3
    <3> HIDE DEF S, on, limit, kept
    <3>2. QED
      BY <1>2, <1>4, <1>8, <2>1, <3>1, KeptBounded
  <2>4. QED
    BY <2>2, <2>3
<1> HIDE DEF S, on, limit, kept
<1>10. Types'
  <2>1. state' \in [Jobs -> States]
    BY <1>1, <1>2 DEF States
  <2>2. options' \in [Jobs -> [OptionNames -> Nat]]
    BY <1>1, DefaultsTyped DEF IInv, Types
  <2>3. given' \in [Jobs -> CallerOptions \cup {<<>>}] /\ bulk' \subseteq Jobs
    BY <1>1 DEF IInv, Types
  <2>4. ends' \in Nat /\ finishedOn' \in [Jobs -> 0 .. ends']
    BY <1>1, <1>2, <1>3
  <2>5. QED
    BY <1>1, <2>1, <2>2, <2>3, <2>4 DEF IInv, Types
<1>11. Ended'
  <2>1. ASSUME NEW k \in Jobs
        PROVE  state'[k] \in {"completed", "failed"} <=> finishedOn'[k] > 0
    <3>1. CASE k \in kept
      BY <1>1, <1>2, <1>4, <1>8, <3>1
    <3>2. CASE k \in gone
      BY <1>1, <3>2
    <3>3. CASE k \notin S
      BY <1>1, <1>3, <1>4, <1>6, <3>3 DEF IInv, Ended
    <3>4. QED
      BY <3>1, <3>2, <3>3
  <2>2. QED
    BY <2>1 DEF Ended
<1>12. Distinct'
  BY <1>1, <1>3, <1>7 DEF Distinct
<1>13. ASSUME NEW k \in Jobs PROVE JobOK(k)'
  <2>1. JobOK(k)
    BY DEF IInv
  <2>2. CASE k \in gone
    BY <1>1, <2>2 DEF JobOK, Single, Pending
  <2>3. CASE k \in kept
    <3>1. /\ state'[k] = set /\ options'[k] = options[k] /\ given'[k] = given[k]
          /\ k \in bulk' <=> k \in bulk
      BY <1>1, <2>3
    <3>2. Single(k)' <=> Single(k)
      BY <1>2, <1>4, <1>5, <2>3, <3>1 DEF Single
    <3>3. CASE k = j
      BY <1>2, <2>1, <3>1, <3>2, <3>3 DEF JobOK, Pending
    <3>4. CASE k # j
      BY <1>2, <1>4, <1>5, <2>1, <2>3, <3>1, <3>2, <3>4 DEF JobOK, Pending
    <3>5. QED
      BY <3>3, <3>4
  <2>4. CASE k \notin S
    <3>1. /\ state'[k] = state[k] /\ options'[k] = options[k] /\ given'[k] = given[k]
          /\ fails'[k] = fails[k] /\ stalls'[k] = stalls[k] /\ (k \in bulk' <=> k \in bulk)
      BY <1>1, <1>4, <1>6, <2>4
    <3>2. QED
      BY <2>1, <3>1 DEF JobOK, Single
  <2>5. QED
    BY <2>2, <2>3, <2>4
<1>14. ASSUME NEW s \in {"completed", "failed"}, NEW name, s # set \/ j \notin Own(s, name)'
       PROVE  Own(s, name)' \subseteq Own(s, name)
  <2>1. SUFFICES ASSUME NEW k \in Jobs, state'[k] = s, k \notin bulk',
                        name \notin DOMAIN given'[k]
                 PROVE  k \in Own(s, name)
    BY DEF Own
  <2>2. k \notin gone
    BY <1>1, <2>1
  <2>3. k \notin bulk /\ given'[k] = given[k]
    BY <1>1, <2>1, <2>2
  <2>4. CASE k \in kept
    <3>1. s = set /\ k # j
      BY <1>1, <1>14, <2>1, <2>4 DEF Own
    <3>2. QED
      BY <1>4, <1>5, <2>1, <2>3, <2>4, <3>1 DEF Own
  <2>5. CASE k \notin S
    BY <1>1, <1>4, <2>1, <2>3, <2>5 DEF Own
  <2>6. QED
    BY <2>2, <2>4, <2>5
<1>15. ASSUME j \in Own(set, opt)'
       PROVE  Bounded(set, opt)'
  <2>1. state'[j] = set /\ j \notin bulk' /\ opt \notin DOMAIN given'[j] /\ j \notin gone
    BY <1>1, <1>2, <1>15 DEF Own
  <2>2. j \notin bulk /\ opt \notin DOMAIN given[j]
    BY <1>1, <2>1
  <2>3. limit = DefaultOptions[opt]
    BY <2>2 DEF IInv, JobOK, Single, limit
  <2>4. Own(set, opt)' \subseteq kept /\ j \in kept
    BY <1>1, <1>2, <1>4, <1>6, <2>1 DEF Own
  <2>5. /\ Cardinality(Own(set, opt)') <= Cardinality(kept)
        /\ Cardinality(kept) \in Nat /\ Cardinality(Own(set, opt)') \in Nat
    BY <1>9, <2>4, FS_Subset, FS_CardinalityType
  <2>6. QED
    BY <1>2, <1>9, <2>3, <2>4, <2>5 DEF Bounded
<1>16. Bounded("completed", "removeOnComplete")' /\ Bounded("failed", "removeOnFail")'
  BY <1>14, <1>15, OwnShrinks DEF IInv, OptionNames
<1>17. QED
  BY <1>10, <1>11, <1>12, <1>13, <1>16 DEF IInv

\* What a worker does with a job.
LEMMA WorkStep ==
  ASSUME IInv, NEW j \in Jobs, Take(j) \/ Complete(j) \/ Fail(j) \/ BackoffEnds(j) \/ Stall(j)
  PROVE  IInv'
<1>1. /\ JobOK(j) /\ fails \in [Jobs -> Nat] /\ stalls \in [Jobs -> 0 .. MaxStalled + 1]
      /\ options \in [Jobs -> [OptionNames -> Nat]]
  BY DEF IInv, Types
<1>2. state[j] \in {"waiting", "delayed", "active"} => stalls[j] <= MaxStalled
  BY <1>1 DEF JobOK, Pending
<1>3. CASE Take(j)
  BY <1>1, <1>2, <1>3, MoveStep DEF Take
<1>4. CASE BackoffEnds(j)
  BY <1>1, <1>2, <1>4, MoveStep DEF BackoffEnds, Again
<1>5. CASE Complete(j)
  <2>1. options[j].removeOnComplete = options[j]["removeOnComplete"]
    OBVIOUS
  <2>2. QED
    BY <1>1, <1>5, <2>1, FinishStep DEF Complete, OptionNames
<1>6. CASE Fail(j)
  <2>1. /\ state[j] = "active" /\ UNCHANGED <<stalls, controlVars>>
        /\ fails' \in [Jobs -> Nat] /\ fails'[j] = fails[j] + 1
        /\ \A k \in Jobs : k # j => fails'[k] = fails[k] /\ stalls'[k] = stalls[k]
    BY <1>1, <1>6 DEF Fail
  <2>2. CASE fails[j] + 1 < options[j].attempts /\ Again(j, "delayed")
    <3>1. fails'[j] < options[j].attempts /\ stalls' = stalls /\ stalls'[j] <= MaxStalled
      BY <1>2, <2>1, <2>2
    <3>2. /\ state' = [state EXCEPT ![j] = "delayed"]
          /\ UNCHANGED <<options, given, bulk, endVars, controlVars>>
      BY <2>1, <2>2 DEF Again
    <3>3. QED
      BY <1>1, <2>1, <3>1, <3>2, MoveStep
  <2>3. CASE fails[j] + 1 >= options[j].attempts /\ ToFailed(j)
    <3>1. Single(j) /\ "attempts" \notin DOMAIN given[j] => fails'[j] = DefaultAttempts
      <4>1. SUFFICES ASSUME Single(j), "attempts" \notin DOMAIN given[j]
                     PROVE  fails'[j] = DefaultAttempts
        OBVIOUS
      <4>2. options[j].attempts = DefaultAttempts
        BY <1>1, <4>1, DefaultsTyped DEF JobOK, OptionNames
      <4>3. fails[j] < DefaultAttempts
        BY <1>1, <2>1, <4>1 DEF JobOK, Pending
      <4>4. QED
        BY <1>1, <2>1, <2>3, <4>2, <4>3
    <3>2. QED
      BY <1>1, <2>1, <2>3, <3>1, FinishStep DEF ToFailed, OptionNames
  <2>4. QED
    BY <1>6, <2>2, <2>3 DEF Fail
<1>7. CASE Stall(j)
  <2>1. /\ state[j] = "active" /\ UNCHANGED <<fails, controlVars>>
        /\ stalls' \in [Jobs -> 0 .. MaxStalled + 1] /\ stalls'[j] = stalls[j] + 1
        /\ \A k \in Jobs : k # j => fails'[k] = fails[k] /\ stalls'[k] = stalls[k]
    BY <1>1, <1>2, <1>7 DEF Stall
  <2>2. CASE stalls[j] < MaxStalled /\ Again(j, "waiting")
    <3>1. stalls'[j] <= MaxStalled /\ fails' = fails
      BY <1>1, <2>1, <2>2
    <3>2. /\ state' = [state EXCEPT ![j] = "waiting"]
          /\ UNCHANGED <<options, given, bulk, endVars, controlVars>>
      BY <2>1, <2>2 DEF Again
    <3>3. QED
      BY <1>1, <2>1, <3>1, <3>2, MoveStep
  <2>3. CASE stalls[j] >= MaxStalled /\ ToFailed(j)
    <3>1. stalls'[j] > MaxStalled
      BY <1>1, <2>1, <2>3
    <3>2. QED
      BY <1>1, <2>1, <2>3, <3>1, FinishStep DEF ToFailed, OptionNames
  <2>4. QED
    BY <1>7, <2>2, <2>3 DEF Stall
<1>8. QED
  BY <1>3, <1>4, <1>5, <1>6, <1>7

-----------------------------------------------------------------------------
\* The induction.

LEMMA InitIInv == Init => IInv
<1> SUFFICES ASSUME Init PROVE IInv
  OBVIOUS
<1>1. Types
  <2>1. state \in [Jobs -> States] /\ options \in [Jobs -> [OptionNames -> Nat]]
    BY DefaultsTyped DEF Init, States
  <2>2. stalls \in [Jobs -> 0 .. MaxStalled + 1] /\ fails \in [Jobs -> Nat]
    BY DEF Init
  <2>3. ends \in Nat /\ finishedOn \in [Jobs -> 0 .. ends]
    BY DEF Init
  <2>4. given \in [Jobs -> CallerOptions \cup {<<>>}] /\ bulk \subseteq Jobs
    BY DEF Init
  <2>5. QED
    BY <2>1, <2>2, <2>3, <2>4 DEF Init, Types
<1>2. Ended /\ Distinct
  BY DEF Init, Ended, Distinct
<1>3. \A j \in Jobs : JobOK(j)
  BY DEF Init, JobOK, Single
<1>4. \A set \in {"completed", "failed"} : \A opt : Own(set, opt) = {}
  BY DEF Init, Own
<1>5. Bounded("completed", "removeOnComplete") /\ Bounded("failed", "removeOnFail")
  BY <1>4, FS_EmptySet, DefaultsTyped DEF Bounded
<1>6. QED
  BY <1>1, <1>2, <1>3, <1>5 DEF IInv

LEMMA StepIInv == IInv /\ [Next]_vars => IInv'
<1> SUFFICES ASSUME IInv, [Next]_vars PROVE IInv'
  OBVIOUS
<1>1. ASSUME NEW o \in CallerOptions, NEW j \in Jobs, AddJob(j, o) PROVE IInv'
  <2>1. {j} \in SUBSET Jobs /\ Add({j}, o, Over(DefaultOptions, o)) /\ bulk' = bulk
    BY <1>1 DEF AddJob, Merged
  <2>2. QED
    BY <2>1, AddStep, DefaultsTyped
<1>2. ASSUME NEW o \in CallerOptions, NEW S \in SUBSET Jobs, AddBulkJobs(S, o) PROVE IInv'
  <2>1. Add(S, o, Over(BullDefaults, o)) /\ bulk' = bulk \cup S
    BY <1>2 DEF AddBulkJobs
  <2>2. QED
    BY <2>1, AddStep, DefaultsTyped
<1>3. ASSUME CleanCompleted \/ CleanFailed PROVE IInv'
  BY <1>3, CleanStep DEF CleanCompleted, CleanFailed, SecondSet
<1>4. CASE UNCHANGED vars
  <2>1. /\ UNCHANGED <<jobVars, endVars>>
        /\ paused' \in BOOLEAN /\ open' \in BOOLEAN /\ cleaning' \in BOOLEAN
    BY <1>4 DEF vars, controlVars, IInv, Types
  <2>2. QED
    BY <2>1, JobsKept
<1>5. QED
  BY <1>1, <1>2, <1>3, <1>4, ControlStep, WorkStep DEF Next

LEMMA InvHolds == Spec => []IInv
  BY InitIInv, StepIInv, PTL DEF Spec

\* The invariant gives what the runs check.
LEMMA InvSuffices == IInv => TypeOK /\ GivenUpAfterRetries /\ FinishedBounded
<1> SUFFICES ASSUME IInv PROVE TypeOK /\ GivenUpAfterRetries /\ FinishedBounded
  OBVIOUS
<1>1. TypeOK
  BY DEF IInv, Types, Distinct, States, TypeOK
<1>2. GivenUpAfterRetries
  BY DEF IInv, JobOK, Single, GivenUpAfterRetries
<1>3. FinishedBounded
  BY DefaultsTyped DEF IInv, Bounded, Own, FinishedBounded
<1>4. QED
  BY <1>1, <1>2, <1>3

\* Jobs and options stay within their types, and no two ended at one time.
THEOREM QueueTypes == Spec => []TypeOK
  BY InvHolds, InvSuffices, PTL

\* A single job is given up only after all its attempts, or two lost workers.
THEOREM AttemptsUsed == Spec => []GivenUpAfterRetries
  BY InvHolds, InvSuffices, PTL

\* The finished single jobs stay within the default limits, whatever bulk jobs
\* share their sets.
THEOREM SetsBounded == Spec => []FinishedBounded
  BY InvHolds, InvSuffices, PTL

\* No step removes a job that has not finished.
THEOREM NoneLeavesEarly == Spec => OnlyFinishedLeave
<1>1. ASSUME IInv, [Next]_vars, NEW j \in Jobs, state'[j] = "removed"
      PROVE  state[j] \in {"active", "completed", "failed", "removed"}
  <2>1. state \in [Jobs -> States]
    BY <1>1 DEF IInv, Types
  <2>2. CASE state'[j] = state[j]
    BY <1>1, <2>2
  <2>3. ASSUME NEW S \in SUBSET Jobs, NEW o, NEW opts, Add(S, o, opts)
        PROVE  state'[j] = state[j]
    BY <1>1, <2>3 DEF Add
  <2>4. ASSUME NEW set \in {"completed", "failed"}, Clean(set)
        PROVE  state'[j] = state[j] \/ state[j] = set
    BY <1>1, <2>4 DEF Clean
  <2>5. ASSUME NEW i \in Jobs, NEW where, where # "removed",
               state' = [state EXCEPT ![i] = where]
        PROVE  state'[j] = state[j]
    BY <1>1, <2>1, <2>5
  <2>6. ASSUME NEW i \in Jobs, NEW set \in {"completed", "failed"}, NEW limit,
               state[i] = "active", Finish(i, set, limit)
        PROVE  state'[j] = state[j] \/ state[j] \in {set, "active"}
    BY <1>1, <2>6 DEF Finish
  <2>7. CASE \E o \in CallerOptions : \/ \E i \in Jobs : AddJob(i, o)
                                      \/ \E S \in SUBSET Jobs : AddBulkJobs(S, o)
    BY <1>1, <2>3, <2>7 DEF AddJob, AddBulkJobs
  <2>8. CASE \E i \in Jobs : Take(i) \/ Complete(i) \/ Fail(i) \/ BackoffEnds(i) \/ Stall(i)
    BY <1>1, <2>5, <2>6, <2>8 DEF Take, Complete, Fail, BackoffEnds, Stall, Again, ToFailed
  <2>9. CASE CleanCompleted \/ CleanFailed
    BY <1>1, <2>4, <2>9 DEF CleanCompleted, CleanFailed, SecondSet
  <2>10. CASE PauseQueue \/ ResumeQueue \/ OnModuleDestroy \/ OnModuleInit \/ UNCHANGED vars
    BY <1>1, <2>10 DEF PauseQueue, ResumeQueue, OnModuleDestroy, OnModuleInit, jobVars, vars
  <2>11. QED
    BY <1>1, <2>7, <2>8, <2>9, <2>10 DEF Next
<1>2. IInv /\ [Next]_vars =>
        [\A j \in Jobs : state'[j] = "removed" =>
           state[j] \in {"active", "completed", "failed", "removed"}]_vars
  BY <1>1
<1>3. QED
  BY <1>2, InvHolds, PTL DEF Spec, OnlyFinishedLeave

=============================================================================
