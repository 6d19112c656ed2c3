---------------------------- MODULE QueueService ----------------------------
(***************************************************************************)
(* One queue of backend/src/queue/queue.service.ts: what the service asks   *)
(* of Bull, and what comes of the jobs under Bull's rules.  Bull and the    *)
(* processors (empty files at this commit) are external: jobs are taken,    *)
(* succeed, fail or stall as they like.  The three queues share nothing;    *)
(* a name that is none of theirs is refused (AuthService, SendMail).        *)
(***************************************************************************)
EXTENDS Naturals, FiniteSets

CONSTANTS Jobs,
          DefaultAttempts,   \* attempts of addJob (3)
          DefaultCompleted,  \* its removeOnComplete (100)
          DefaultFailed,     \* its removeOnFail (1000)
          CallerOptions,     \* options callers pass: records of some of these
          MaxStalled         \* Bull's maxStalledCount (1)

OptionNames == {"attempts", "removeOnComplete", "removeOnFail"}

ASSUME QueueAssumption ==
  /\ IsFiniteSet(Jobs)
  /\ DefaultAttempts \in Nat \ {0}
  /\ DefaultCompleted \in Nat /\ DefaultFailed \in Nat /\ MaxStalled \in Nat
  /\ \A o \in CallerOptions : /\ DOMAIN o \subseteq OptionNames
                              /\ \A n \in DOMAIN o : o[n] \in Nat

VARIABLES state,     \* where each job is
          options,   \* the options Bull has for it
          fails,     \* its failed attempts
          stalls,    \* how often its worker was lost
          finishedOn, \* when each finished job ended
          ends,      \* the time: counts the jobs that ended
          paused,
          open,      \* the service runs
          cleaning,  \* cleanQueue is between its two awaits
          given,     \* history: the options its caller passed
          bulk       \* history: jobs added by addBulkJobs

jobVars == <<state, options, fails, stalls, given, bulk>>
endVars == <<finishedOn, ends>>
controlVars == <<paused, open, cleaning>>
vars == <<jobVars, endVars, controlVars>>

\* What Bull does unless told otherwise: one attempt, and it keeps all jobs.
KeepAll == Cardinality(Jobs)
BullDefaults == [attempts |-> 1, removeOnComplete |-> KeepAll, removeOnFail |-> KeepAll]

Over(low, high) == [n \in OptionNames |-> IF n \in DOMAIN high THEN high[n] ELSE low[n]]

\* defaultOptions of addJob, and a version without the two limits.
DefaultOptionsUnlimited == [BullDefaults EXCEPT !.attempts = DefaultAttempts]
DefaultOptions == [attempts |-> DefaultAttempts, removeOnComplete |-> DefaultCompleted,
                   removeOnFail |-> DefaultFailed]

\* {...defaultOptions, ...options}.  The variants give Bull the options alone,
\* as addBulkJobs does, and record them without what Bull fills in.
MergedNot(o) == Over(BullDefaults, o)
MergedCallers(o) == o
Merged(o) == Over(DefaultOptions, o)

Init ==
  /\ state = [j \in Jobs |-> "none"]
  /\ options = [j \in Jobs |-> BullDefaults]
  /\ fails = [j \in Jobs |-> 0] /\ stalls = [j \in Jobs |-> 0]
  /\ finishedOn = [j \in Jobs |-> 0] /\ ends = 0
  /\ paused = FALSE /\ open = TRUE /\ cleaning = FALSE
  /\ given = [j \in Jobs |-> <<>>] /\ bulk = {}

-----------------------------------------------------------------------------
\* The service.

Add(S, o, opts) ==
  /\ open
  /\ \A j \in S : state[j] = "none"
  /\ state' = [j \in Jobs |-> IF j \in S THEN "waiting" ELSE state[j]]
  /\ options' = [j \in Jobs |-> IF j \in S THEN opts ELSE options[j]]
  /\ given' = [j \in Jobs |-> IF j \in S THEN o ELSE given[j]]
  /\ UNCHANGED <<fails, stalls, endVars, controlVars>>

AddJob(j, o) == Add({j}, o, Merged(o)) /\ UNCHANGED bulk

AddBulkJobs(S, o) == Add(S, o, Over(BullDefaults, o)) /\ bulk' = bulk \cup S

PauseQueue ==
  /\ open
  /\ paused' = TRUE
  /\ UNCHANGED <<jobVars, endVars, open, cleaning>>

ResumeQueue ==
  /\ open
  /\ paused' = FALSE
  /\ UNCHANGED <<jobVars, endVars, open, cleaning>>

\* onModuleDestroy closes the queues; a cleaning under way fails.  What is in
\* Redis is there when the service starts again.
OnModuleDestroy ==
  /\ open
  /\ open' = FALSE
  /\ cleaning' = FALSE
  /\ UNCHANGED <<jobVars, endVars, paused>>

OnModuleInit ==
  /\ ~open
  /\ open' = TRUE
  /\ UNCHANGED <<jobVars, endVars, paused, cleaning>>

\* Jobs that are gone, with their data; on are the times of the others.
Remove(gone, on) ==
  /\ options' = [j \in Jobs |-> IF j \in gone THEN BullDefaults ELSE options[j]]
  /\ given' = [j \in Jobs |-> IF j \in gone THEN <<>> ELSE given[j]]
  /\ finishedOn' = [j \in Jobs |-> IF j \in gone THEN 0 ELSE on[j]]
  /\ bulk' = bulk \ gone

\* The sets cleanQueue cleans, one await each, and a slip in the second.
SecondSetWaiting == "waiting"
SecondSet == "failed"

\* Bull removes those of a set that are older than the grace; which of them
\* are is left open.
Clean(set) ==
  \E gone \in SUBSET {j \in Jobs : state[j] = set} :
    /\ state' = [j \in Jobs |-> IF j \in gone THEN "removed" ELSE state[j]]
    /\ Remove(gone, finishedOn)
    /\ UNCHANGED <<fails, stalls, ends, paused, open>>

CleanCompleted ==
  /\ open /\ ~cleaning
  /\ cleaning' = TRUE
  /\ Clean("completed")

CleanFailed ==
  /\ cleaning
  /\ cleaning' = FALSE
  /\ Clean(SecondSet)

-----------------------------------------------------------------------------
\* Bull.

Take(j) ==
  /\ state[j] = "waiting" /\ ~paused /\ open
  /\ state' = [state EXCEPT ![j] = "active"]
  /\ UNCHANGED <<options, fails, stalls, given, bulk, endVars, controlVars>>

\* The newest of a set that ended at the times in on.
Kept(S, on, limit) == {k \in S : Cardinality({i \in S : on[i] > on[k]}) < limit}

\* A set gets one more job and is cut down to its newest: the limit is that of
\* the job, the cut that of the whole set.  With a limit of 0 the job is not added,
\* and nothing is cut.
Finish(j, set, limit) ==
  LET S == {k \in Jobs : state[k] = set} \cup {j}
      on == [finishedOn EXCEPT ![j] = ends + 1]
      kept == IF limit = 0 THEN S \ {j} ELSE Kept(S, on, limit) IN
  /\ ends' = ends + 1
  /\ state' = [k \in Jobs |-> IF k \in kept THEN set
                             ELSE IF k \in S THEN "removed" ELSE state[k]]
  /\ Remove(S \ kept, on)

Complete(j) ==
  /\ state[j] = "active"
  /\ Finish(j, "completed", options[j].removeOnComplete)
  /\ UNCHANGED <<fails, stalls, controlVars>>

ToFailed(j) == Finish(j, "failed", options[j].removeOnFail)

Again(j, where) ==
  /\ state' = [state EXCEPT ![j] = where]
  /\ UNCHANGED <<options, given, bulk, endVars>>

\* A failed attempt is tried again after the backoff while attempts are left.
Fail(j) ==
  /\ state[j] = "active"
  /\ fails' = [fails EXCEPT ![j] = @ + 1]
  /\ \/ fails[j] + 1 < options[j].attempts /\ Again(j, "delayed")
     \/ fails[j] + 1 >= options[j].attempts /\ ToFailed(j)
  /\ UNCHANGED <<stalls, controlVars>>

BackoffEnds(j) ==
  /\ open
  /\ state[j] = "delayed"
  /\ Again(j, "waiting")
  /\ UNCHANGED <<fails, stalls, controlVars>>

\* Its worker is gone: the job is given to another, once.
Stall(j) ==
  /\ open
  /\ state[j] = "active"
  /\ stalls' = [stalls EXCEPT ![j] = @ + 1]
  /\ \/ stalls[j] < MaxStalled /\ Again(j, "waiting")
     \/ stalls[j] >= MaxStalled /\ ToFailed(j)
  /\ UNCHANGED <<fails, controlVars>>

Next ==
  \/ \E o \in CallerOptions : \/ \E j \in Jobs : AddJob(j, o)
                              \/ \E S \in SUBSET Jobs \ {{}} : AddBulkJobs(S, o)
  \/ PauseQueue \/ ResumeQueue \/ OnModuleDestroy \/ OnModuleInit
  \/ CleanCompleted \/ CleanFailed
  \/ \E j \in Jobs : Take(j) \/ Complete(j) \/ Fail(j) \/ BackoffEnds(j) \/ Stall(j)

Spec == Init /\ [][Next]_vars

-----------------------------------------------------------------------------
\* Types; the jobs that have finished did so at different times.
TypeOK ==
  /\ state \in [Jobs -> {"none", "waiting", "delayed", "active", "completed",
                         "failed", "removed"}]
  /\ options \in [Jobs -> [OptionNames -> Nat]]
  /\ fails \in [Jobs -> Nat] /\ stalls \in [Jobs -> 0 .. MaxStalled + 1]
  /\ ends \in Nat /\ finishedOn \in [Jobs -> 0 .. ends]
  /\ \A j, k \in Jobs : finishedOn[j] = finishedOn[k] => j = k \/ finishedOn[j] = 0
  /\ paused \in BOOLEAN /\ open \in BOOLEAN /\ cleaning \in BOOLEAN
  /\ \A j \in Jobs : given[j] \in CallerOptions \cup {<<>>}
  /\ bulk \subseteq Jobs

\* A job of addJob whose caller asked for nothing else is given up only after
\* three failed attempts, or when its worker was lost twice: no pause, restart
\* or cleaning costs it an attempt (queue.service.ts:63-76).
GivenUpAfterRetries ==
  \A j \in Jobs :
    (state[j] = "failed" /\ j \notin bulk /\ "attempts" \notin DOMAIN given[j]) =>
      fails[j] = DefaultAttempts \/ stalls[j] > MaxStalled

\* The finished jobs of addJob never pile up, not even next to bulk jobs, which
\* have no limit of their own (queue.service.ts:69-70, 96-98).
FinishedBounded ==
  LET Own(set, opt) == {j \in Jobs : /\ state[j] = set /\ j \notin bulk
                                     /\ opt \notin DOMAIN given[j]} IN
  /\ Cardinality(Own("completed", "removeOnComplete")) <= DefaultCompleted
  /\ Cardinality(Own("failed", "removeOnFail")) <= DefaultFailed

\* A job leaves the queue only when it has finished: with the step that ends
\* it, or from a finished set (queue.service.ts:121-125).
OnlyFinishedLeave ==
  [][\A j \in Jobs : state'[j] = "removed" =>
       state[j] \in {"active", "completed", "failed", "removed"}]_vars
=============================================================================
