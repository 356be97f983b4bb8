--------------------------- MODULE LoadGenerator ---------------------------
(***************************************************************************)
(* The load generators of the benchmark and the report made from them:     *)
(* server/scripts/sdk_distributed_benchmark.js, official_sdk_benchmark.js  *)
(* and raw_http_max_throughput.js, the wrapper scripts/aws-benchmark.sh    *)
(* and scripts/aggregate-results.js.                                       *)
(*                                                                         *)
(* One script runs on every instance.  The two SDK scripts dispatch a tier *)
(* of requests in ticks, drop what exceeds the concurrency, drain, write a *)
(* report, and go on to the next tier.  The distributed one gives up on    *)
(* the drain at a deadline, and its abandoned requests may still answer    *)
(* while the process lives.  The raw script keeps one request per worker   *)
(* in flight until its time is up.                                         *)
(*                                                                         *)
(* JavaScript runs one callback at a time: then, catch and finally of one  *)
(* promise run before any timer does, and the code between two awaits is   *)
(* one step.  Which operation is requested, latencies and rates are left   *)
(* out; of the reservoir of latencies its size is kept.                    *)
(***************************************************************************)
EXTENDS Integers, Sequences, FiniteSets

CONSTANTS Instances,       \* the machines of the wrapper
          Tiers,           \* TIERS: requests per second of each tier
          Duration,        \* DURATION_SEC
          TicksPerSecond,  \* 1000 / tickMs
          MaxConcurrency,  \* MAX_CONCURRENCY, or CONCURRENCY of the raw script
          Capacity,        \* of the reservoir of latencies
          MaxRaw           \* bound on the requests of the raw script

ASSUME LoadGeneratorAssumption ==
  /\ IsFiniteSet(Instances)
  /\ Tiers \in Seq(Nat) /\ Len(Tiers) > 0
  /\ Duration \in Nat \ {0}
  /\ TicksPerSecond \in Nat \ {0}
  /\ MaxConcurrency \in Nat \ {0}
  /\ Capacity \in Nat
  /\ MaxRaw \in Nat /\ MaxRaw >= MaxConcurrency

Scripts == {"sdk_distributed", "official_sdk", "raw_http"}
TierNumbers == 1..Len(Tiers)

VARIABLES
  script,      \* the script this benchmark runs
  pc,          \* instance: where its main is
  tier,        \* instance: the tier it runs, 0 before the first
  carry,       \* instance: accumulatedRequests, in parts of a request
  requested,   \* instance: counters of the current tier
  successful,
  failed,
  dropped,
  inFlight,
  samples,     \* instance: size of the reservoir of the current tier
  late,        \* instance, tier: requests given up that may still answer
  log,         \* instance, tier: apiCallLogStream
  results,     \* instance: the reports in its files
  fetched,     \* instance: whether the wrapper has its report
  outcome,     \* of the benchmark: "running", "failed" or "reported"
  workload     \* workload.json, once reported

counters == <<requested, successful, failed, dropped, inFlight, samples>>
process == <<script, pc, tier, carry, late, log, results>>
wrapper == <<fetched, outcome, workload>>
vars == <<process, counters, wrapper>>

Report == [tier : TierNumbers, successful : Nat, failed : Nat, dropped : Nat, samples : Nat]

CountersTypeOK ==
  /\ requested \in [Instances -> Nat] /\ successful \in [Instances -> Nat]
  /\ failed \in [Instances -> Nat] /\ dropped \in [Instances -> Nat]
  /\ inFlight \in [Instances -> Nat] /\ samples \in [Instances -> Nat]

MainTypeOK ==
  /\ pc \in [Instances ->
       {"preflight", "dispatch", "drain", "pause", "finished", "exited", "crashed"}]
  /\ tier \in [Instances -> 0..Len(Tiers)]
  /\ carry \in [Instances -> 0..(TicksPerSecond - 1)]

(* Of workload, which holds sums, see WorkloadIsWhole.                     *)
TypeOK ==
  /\ script \in Scripts
  /\ MainTypeOK
  /\ CountersTypeOK
  /\ late \in [Instances -> [TierNumbers -> Nat]]
  /\ log \in [Instances -> [TierNumbers -> {"unopened", "open", "ending", "closed"}]]
  /\ results \in [Instances -> Seq(Report)]
  /\ fetched \in [Instances -> {"no", "lost", "yes"}]
  /\ outcome \in {"running", "failed", "reported"}

Zero == [i \in Instances |-> 0]

Init ==
  /\ script \in Scripts
  /\ pc = [i \in Instances |-> "preflight"]
  /\ tier = Zero /\ carry = Zero
  /\ requested = Zero /\ successful = Zero /\ failed = Zero
  /\ dropped = Zero /\ inFlight = Zero /\ samples = Zero
  /\ late = [i \in Instances |-> [t \in TierNumbers |-> 0]]
  /\ log = [i \in Instances |-> [t \in TierNumbers |-> "unopened"]]
  /\ results = [i \in Instances |-> <<>>]
  /\ fetched = [i \in Instances |-> "no"]
  /\ outcome = "running"
  /\ workload = [target |-> 0, successful |-> 0, failed |-> 0, dropped |-> 0, samples |-> 0]

Lesser(a, b) == IF a < b THEN a ELSE b
Greater(a, b) == IF a > b THEN a ELSE b
-----------------------------------------------------------------------------
(* totalRequests of a tier of the SDK scripts.                             *)
TotalRequests(t) == Tiers[t] * Duration

(* The counters and the reservoir are local to runTier.                    *)
ResetCounters(i) ==
  /\ requested' = [requested EXCEPT ![i] = 0]
  /\ successful' = [successful EXCEPT ![i] = 0]
  /\ failed' = [failed EXCEPT ![i] = 0]
  /\ dropped' = [dropped EXCEPT ![i] = 0]
  /\ inFlight' = [inFlight EXCEPT ![i] = 0]
  /\ samples' = [samples EXCEPT ![i] = 0]

(* The start of runTier.  Only the distributed script keeps a log.         *)
StartTier(i, t) ==
  /\ tier' = [tier EXCEPT ![i] = t]
  /\ carry' = [carry EXCEPT ![i] = 0]
  /\ pc' = [pc EXCEPT ![i] = "dispatch"]
  /\ log' = IF script = "sdk_distributed" THEN [log EXCEPT ![i][t] = "open"] ELSE log
  /\ ResetCounters(i)
  /\ UNCHANGED <<script, late, results, wrapper>>

(* main of the SDK scripts: the data set is loaded, and one request made.  *)
Preflight(i) ==
  /\ pc[i] = "preflight" /\ script # "raw_http"
  /\ StartTier(i, 1)

(* No data set, one with fewer rows than the benchmark asks for, or a      *)
(* first request that fails: the process ends with an error.               *)
PreflightFails(i) ==
  /\ pc[i] = "preflight"
  /\ pc' = [pc EXCEPT ![i] = "crashed"]
  /\ UNCHANGED <<script, tier, carry, late, log, results, counters, wrapper>>

(* batchSize of a tick: the distributed script carries the fraction of a   *)
(* request over to the next tick, the hot-key one rounds it.               *)
Batch(i) ==
  LET target == Tiers[tier[i]] IN
  IF script = "sdk_distributed"
  THEN (carry[i] + target) \div TicksPerSecond
  ELSE Greater(1, (2 * target + TicksPerSecond) \div (2 * TicksPerSecond))

NextCarry(i) ==
  IF script = "sdk_distributed" THEN (carry[i] + Tiers[tier[i]]) % TicksPerSecond ELSE 0

\* Mutant: the limit is looked at once for the whole batch.
AdmittedWhole(i, batch) == IF inFlight[i] < MaxConcurrency THEN batch ELSE 0

(* How many of a batch find a free place.                                  *)
Admitted(i, batch) == Lesser(batch, MaxConcurrency - inFlight[i])

(* One turn of the dispatch loop.                                          *)
Tick(i) ==
  /\ pc[i] = "dispatch" /\ script # "raw_http"
  /\ requested[i] < TotalRequests(tier[i])
  /\ LET batch == Lesser(Batch(i), TotalRequests(tier[i]) - requested[i])
         new == Admitted(i, batch)
     IN /\ requested' = [requested EXCEPT ![i] = @ + batch]
        /\ dropped' = [dropped EXCEPT ![i] = @ + (batch - new)]
        /\ inFlight' = [inFlight EXCEPT ![i] = @ + new]
  /\ carry' = [carry EXCEPT ![i] = NextCarry(i)]
  /\ UNCHANGED <<script, pc, tier, late, log, results, successful, failed, samples, wrapper>>

DispatchEnds(i) ==
  /\ pc[i] = "dispatch" /\ script # "raw_http"
  /\ requested[i] >= TotalRequests(tier[i])
  /\ pc' = [pc EXCEPT ![i] = "drain"]
  /\ UNCHANGED <<script, tier, carry, late, log, results, counters, wrapper>>

(* ReservoirSampler.add: the reservoir grows to its capacity.              *)
Sample(n) == Lesser(n + 1, Capacity)

(* then or catch of a request, and finally.                                *)
Answer(i, answer) ==
  /\ pc[i] \in {"dispatch", "drain"} /\ script # "raw_http"
  /\ inFlight[i] > 0
  /\ inFlight' = [inFlight EXCEPT ![i] = @ - 1]
  /\ successful' = IF answer = "success" THEN [successful EXCEPT ![i] = @ + 1] ELSE successful
  /\ failed' = IF answer = "success" THEN failed ELSE [failed EXCEPT ![i] = @ + 1]
  /\ samples' = IF answer = "success" THEN [samples EXCEPT ![i] = Sample(@)] ELSE samples
  /\ UNCHANGED <<requested, dropped, process, wrapper>>
-----------------------------------------------------------------------------
(* The report, with the given number of failures.  The distributed script  *)
(* has one file, which every tier overwrites, the others a file a tier.    *)
WriteReport(i, failures) ==
  LET report == [tier |-> tier[i], successful |-> successful[i], failed |-> failures,
                 dropped |-> dropped[i], samples |-> samples[i]]
  IN results' = [results EXCEPT ![i] =
                   IF script = "sdk_distributed" THEN <<report>> ELSE Append(@, report)]

(* apiCallLogStream.end(): what is still written goes out, then it closes. *)
EndLog(i) ==
  log' = IF script = "sdk_distributed" THEN [log EXCEPT ![i][tier[i]] = "ending"] ELSE log

(* The drain loop finds nothing in flight.                                 *)
Drained(i) ==
  /\ pc[i] = "drain" /\ script # "raw_http"
  /\ inFlight[i] = 0
  /\ WriteReport(i, failed[i])
  /\ EndLog(i)
  /\ pc' = [pc EXCEPT ![i] = "pause"]
  /\ UNCHANGED <<script, tier, carry, late, counters, wrapper>>

\* Mutant: the drain waits for every request, without a deadline.
DrainDeadlineNever(i) == FALSE /\ UNCHANGED vars

\* Mutant: the abandoned requests are forgotten.
DrainDeadlineForgets(i) ==
  /\ pc[i] = "drain" /\ script = "sdk_distributed"
  /\ inFlight[i] > 0
  /\ inFlight' = [inFlight EXCEPT ![i] = 0]
  /\ late' = [late EXCEPT ![i][tier[i]] = inFlight[i]]
  /\ WriteReport(i, failed[i])
  /\ EndLog(i)
  /\ pc' = [pc EXCEPT ![i] = "pause"]
  /\ UNCHANGED <<script, tier, carry, requested, successful, failed, dropped, samples, wrapper>>

(* The drain deadline of the distributed script: what is in flight counts  *)
(* as failed.                                                              *)
DrainDeadline(i) ==
  /\ pc[i] = "drain" /\ script = "sdk_distributed"
  /\ inFlight[i] > 0
  /\ failed' = [failed EXCEPT ![i] = @ + inFlight[i]]
  /\ inFlight' = [inFlight EXCEPT ![i] = 0]
  /\ late' = [late EXCEPT ![i][tier[i]] = inFlight[i]]
  /\ WriteReport(i, failed[i] + inFlight[i])
  /\ EndLog(i)
  /\ pc' = [pc EXCEPT ![i] = "pause"]
  /\ UNCHANGED <<script, tier, carry, requested, successful, dropped, samples, wrapper>>

LogCloses(i, t) ==
  /\ pc[i] \notin {"exited", "crashed"}
  /\ log[i][t] = "ending"
  /\ log' = [log EXCEPT ![i][t] = "closed"]
  /\ UNCHANGED <<script, pc, tier, carry, late, results, counters, wrapper>>

(* An abandoned request answers.  Its tier's counters are gone with the    *)
(* report; its log line is an unhandled error of the stream while that is  *)
(* ending, and nothing once it is closed.                                  *)
LateAnswer(i, t) ==
  /\ pc[i] \notin {"exited", "crashed"}
  /\ late[i][t] > 0
  /\ late' = [late EXCEPT ![i][t] = @ - 1]
  /\ pc' = IF log[i][t] = "ending" THEN [pc EXCEPT ![i] = "crashed"] ELSE pc
  /\ UNCHANGED <<script, tier, carry, log, results, counters, wrapper>>

(* sleep(5000), and the next tier.                                         *)
NextTier(i) ==
  /\ pc[i] = "pause" /\ tier[i] < Len(Tiers)
  /\ StartTier(i, tier[i] + 1)

MainEnds(i) ==
  /\ pc[i] = "pause" /\ tier[i] = Len(Tiers)
  /\ pc' = [pc EXCEPT ![i] = "finished"]
  /\ UNCHANGED <<script, tier, carry, late, log, results, counters, wrapper>>

(* The process ends with code 0 when nothing is outstanding.               *)
Exit(i) ==
  /\ pc[i] = "finished"
  /\ \A t \in TierNumbers : late[i][t] = 0 /\ log[i][t] # "ending"
  /\ pc' = [pc EXCEPT ![i] = "exited"]
  /\ UNCHANGED <<script, tier, carry, late, log, results, counters, wrapper>>
-----------------------------------------------------------------------------
(* The raw script: every worker sends its first request.                   *)
RawStart(i) ==
  /\ pc[i] = "preflight" /\ script = "raw_http"
  /\ tier' = [tier EXCEPT ![i] = 1]
  /\ pc' = [pc EXCEPT ![i] = "dispatch"]
  /\ requested' = [requested EXCEPT ![i] = MaxConcurrency]
  /\ inFlight' = [inFlight EXCEPT ![i] = MaxConcurrency]
  /\ UNCHANGED <<script, carry, late, log, results, successful, failed, dropped, samples, wrapper>>

(* A worker's request answers: it sends the next one, or stops once the    *)
(* time is up.                                                             *)
RawAnswer(i, answer) ==
  /\ pc[i] \in {"dispatch", "drain"} /\ script = "raw_http"
  /\ inFlight[i] > 0
  /\ successful' = IF answer = "success" THEN [successful EXCEPT ![i] = @ + 1] ELSE successful
  /\ failed' = IF answer = "success" THEN failed ELSE [failed EXCEPT ![i] = @ + 1]
  /\ samples' = IF answer = "success" THEN [samples EXCEPT ![i] = Sample(@)] ELSE samples
  /\ \/ /\ pc[i] = "dispatch" /\ requested[i] < MaxRaw
        /\ requested' = [requested EXCEPT ![i] = @ + 1]
        /\ UNCHANGED inFlight
     \/ /\ pc[i] = "drain"
        /\ inFlight' = [inFlight EXCEPT ![i] = @ - 1]
        /\ UNCHANGED requested
  /\ UNCHANGED <<dropped, process, wrapper>>

RawTimeUp(i) ==
  /\ pc[i] = "dispatch" /\ script = "raw_http"
  /\ pc' = [pc EXCEPT ![i] = "drain"]
  /\ UNCHANGED <<script, tier, carry, late, log, results, counters, wrapper>>

(* Promise.all of the workers, the report, process.exit(0).                *)
RawReport(i) ==
  /\ pc[i] = "drain" /\ script = "raw_http"
  /\ inFlight[i] = 0
  /\ WriteReport(i, failed[i])
  /\ pc' = [pc EXCEPT ![i] = "exited"]
  /\ UNCHANGED <<script, tier, carry, late, log, counters, wrapper>>
-----------------------------------------------------------------------------
(* The wrapper runs the distributed script.  It takes the result of an     *)
(* instance that ended with code 0; a copy that fails is not noticed.      *)
Fetch(i) ==
  /\ script = "sdk_distributed" /\ outcome = "running"
  /\ pc[i] = "exited" /\ fetched[i] = "no"
  /\ \E copied \in {"yes", "lost"} : fetched' = [fetched EXCEPT ![i] = copied]
  /\ UNCHANGED <<outcome, workload, process, counters>>

(* An instance that failed ends the whole benchmark.                       *)
GiveUp ==
  /\ script = "sdk_distributed" /\ outcome = "running"
  /\ \E i \in Instances : pc[i] = "crashed"
  /\ outcome' = "failed"
  /\ UNCHANGED <<fetched, workload, process, counters>>

Fetched == {i \in Instances : fetched[i] = "yes"}

Total(f) ==
  LET sum[S \in SUBSET Fetched] ==
        IF S = {} THEN 0
        ELSE LET i == CHOOSE j \in S : TRUE IN f[i] + sum[S \ {i}]
  IN sum[Fetched]

(* aggregate-results.js: sums over the files, latencies put together.      *)
Aggregate ==
  LET file(i) == results[i][1] IN
  [target     |-> Total([i \in Fetched |-> Tiers[file(i).tier]]),
   successful |-> Total([i \in Fetched |-> file(i).successful]),
   failed     |-> Total([i \in Fetched |-> file(i).failed]),
   dropped    |-> Total([i \in Fetched |-> file(i).dropped]),
   samples    |-> Total([i \in Fetched |-> file(i).samples])]

\* Mutant: the aggregation does not wait for the other instances.
WriteWorkloadEarly ==
  /\ script = "sdk_distributed" /\ outcome = "running"
  /\ \E i \in Instances : fetched[i] # "no"
  /\ outcome' = IF Fetched = {} THEN "failed" ELSE "reported"
  /\ workload' = IF Fetched = {} THEN workload ELSE Aggregate
  /\ UNCHANGED <<fetched, process, counters>>

(* All instances succeeded; without any file the aggregation gives up.     *)
WriteWorkload ==
  /\ script = "sdk_distributed" /\ outcome = "running"
  /\ \A i \in Instances : fetched[i] # "no"
  /\ outcome' = IF Fetched = {} THEN "failed" ELSE "reported"
  /\ workload' = IF Fetched = {} THEN workload ELSE Aggregate
  /\ UNCHANGED <<fetched, process, counters>>

Step(i) ==
  \/ Preflight(i) \/ PreflightFails(i) \/ Tick(i) \/ DispatchEnds(i)
  \/ \E answer \in {"success", "error"} : Answer(i, answer) \/ RawAnswer(i, answer)
  \/ Drained(i) \/ DrainDeadline(i) \/ NextTier(i) \/ MainEnds(i) \/ Exit(i)
  \/ \E t \in TierNumbers : LogCloses(i, t) \/ LateAnswer(i, t)
  \/ RawStart(i) \/ RawTimeUp(i) \/ RawReport(i)

Next ==
  \/ \E i \in Instances : Step(i) \/ Fetch(i)
  \/ GiveUp \/ WriteWorkload

Spec == Init /\ [][Next]_vars

(* Timers fire and callbacks run.  Nothing is assumed of the server: a     *)
(* request may never answer.                                               *)
Timers(i) ==
  \/ Tick(i) \/ DispatchEnds(i) \/ Drained(i) \/ DrainDeadline(i) \/ NextTier(i) \/ MainEnds(i)

FairSpec == Spec /\ \A i \in Instances : WF_vars(Timers(i))
-----------------------------------------------------------------------------
Requests(report) == report.successful + report.failed + report.dropped

\* Every report of the SDK scripts accounts for every request of its tier once:
\* those that were given up at the deadline included, whenever they answer.
ReportAddsUp ==
  script # "raw_http" =>
    \A i \in Instances : \A k \in 1..Len(results[i]) :
      Requests(results[i][k]) = TotalRequests(results[i][k].tier)

\* One tier never has more than MaxConcurrency requests open, abandoned ones
\* included.  The hot-key script keeps the bound for the process, as it leaves
\* no request behind.
StaysBelowLimit ==
  \A i \in Instances :
    /\ inFlight[i] <= MaxConcurrency
    /\ \A t \in TierNumbers : late[i][t] <= MaxConcurrency
    /\ script # "sdk_distributed" => \A t \in TierNumbers : late[i][t] = 0

\* workload.json is written when every instance has ended well, and counts the
\* last tier of each whose file arrived, whole: no tier in between, no part of
\* one, and no instance that failed.
WorkloadIsWhole ==
  outcome = "reported" =>
    /\ \A i \in Instances : pc[i] = "exited" /\ fetched[i] # "no"
    /\ Requests(workload) = Cardinality(Fetched) * TotalRequests(Len(Tiers))

\* The drain of the distributed script ends in a report of its tier although
\* requests may never answer, unless the process crashes.
DrainEnds ==
  \A i \in Instances :
    pc[i] = "drain" /\ script = "sdk_distributed" ~> pc[i] \in {"pause", "crashed"}

(* The requests of the current tier add up at every step, and a sample is  *)
(* kept of each success until the reservoir is full.                       *)
CountersAddUp ==
  \A i \in Instances :
    /\ requested[i] = successful[i] + failed[i] + dropped[i] + inFlight[i]
    /\ samples[i] = Lesser(successful[i], Capacity)

(* A tier is dispatched before it is drained.                              *)
TierProgress ==
  \A i \in Instances :
    /\ pc[i] # "crashed" => (pc[i] = "preflight" <=> tier[i] = 0)
    /\ pc[i] = "preflight" => requested[i] = 0
    /\ script # "raw_http" /\ pc[i] = "dispatch" => requested[i] <= TotalRequests(tier[i])
    /\ script # "raw_http" /\ pc[i] = "drain" => requested[i] = TotalRequests(tier[i])

(* The wrapper has the file of a process that ended well, and waits for    *)
(* all of them.                                                            *)
FilesAreOfEnded ==
  /\ \A i \in Instances : fetched[i] # "no" => pc[i] = "exited"
  /\ outcome = "reported" => \A i \in Instances : fetched[i] # "no"

(* The inductive invariant.                                                *)
IInv ==
  TypeOK /\ CountersAddUp /\ TierProgress /\ FilesAreOfEnded /\ ReportAddsUp /\ StaysBelowLimit

(* The file of a distributed instance is the report of the tier it is at,  *)
(* and of the last tier once it has finished.                              *)
LastReport ==
  script = "sdk_distributed" =>
    \A i \in Instances :
      /\ pc[i] \in {"pause", "finished", "exited"} =>
           Len(results[i]) = 1 /\ results[i][1].tier = tier[i]
      /\ pc[i] \in {"finished", "exited"} => tier[i] = Len(Tiers)

(* The inductive invariant behind WorkloadIsWhole, together with IInv.     *)
WorkloadIInv == LastReport /\ WorkloadIsWhole
=============================================================================
