---------------------------- MODULE Calibration ----------------------------
(***************************************************************************)
(* vamana::calibrate (include/svs/index/vamana/calibrate.h): the search    *)
(* for search parameters that reach a target recall and are fast.  What a  *)
(* configuration gives is decided by the index; here it is any answer, and *)
(* the same when it is asked again.  Of a recall it only matters whether   *)
(* it reaches the target.  The configuration of the buffer is              *)
(* <<search window size, total capacity>>.                                 *)
(***************************************************************************)
EXTENDS Partition

CONSTANTS WindowUpper,   \* search_window_size_upper_
          CapacityUpper, \* search_window_capacity_upper_
          MaxNeighbors,  \* most neighbors asked for
          MaxDegree,     \* of the graph: the largest lookahead
          PrefetchSteps, \* number of prefetch_steps_; a step stands for its place
          MaxTime        \* times are 1 .. MaxTime

ASSUME CalibrationAssumption ==
  /\ {WindowUpper, CapacityUpper, MaxNeighbors, MaxDegree, MaxTime} \subseteq Nat \ {0}
  /\ PrefetchSteps \in Nat
  /\ WindowUpper <= CapacityUpper /\ MaxNeighbors <= CapacityUpper

VARIABLES task,      \* the request: [num_neighbors, state, reranking, capacity, train]
          stage,     \* where calibrate is
          current,   \* the configuration of the buffer
          range,     \* lower_bound: the first position and the number of positions left
          reaches,   \* configuration -> whether it reaches the target, for those tried
          sws,       \* window size of the split buffer that is tried
          min_time,  \* the time to beat
          tuning,    \* tune_prefetch: where it is
          chosen,    \* tune_prefetch: [lookahead, step] of the result
          timed      \* history: [lookahead, step] -> time, for those tuning measured

vars == <<task, stage, current, range, reaches, sws, min_time, tuning, chosen, timed>>

buffer_vars == <<current, range, reaches, sws>>

prefetch_vars == <<tuning, chosen, timed>>

Put(f, x, y) == [z \in DOMAIN f \cup {x} |-> IF z = x THEN y ELSE f[z]]

NoPrefetch == [lookahead |-> 0, step |-> 0]

\* An answer of the index to a configuration.
Answers(config) == IF config \in DOMAIN reaches THEN {reaches[config]} ELSE BOOLEAN

\* std::lower_bound over a UnitRange: the position to look at next, and the rest of
\* the range when that position is too small or not.
Over(first, last) == [first |-> first, count |-> MaxOf(last - first, 0)]

Middle == range.first + range.count \div 2

Rest(too_small) ==
  IF too_small THEN [first |-> Middle + 1, count |-> range.count - range.count \div 2 - 1]
  ELSE [first |-> range.first, count |-> range.count \div 2]

\* configure_current_buffer
Configured(window) ==
  <<window, IF task.state = "ROITuneUp" THEN MaxOf(window, task.capacity) ELSE window>>

Afterwards(converged) ==
  IF converged /\ task.train THEN "baseline" ELSE IF converged THEN "done" ELSE "missed"

\* One comparison of a binary search that sets the buffer to config.
Probe(config) ==
  /\ range.count > 0
  /\ \E answer \in Answers(config) :
       reaches' = Put(reaches, config, answer) /\ range' = Rest(~answer)
  /\ UNCHANGED <<task, stage, current, sws, min_time, prefetch_vars>>

-----------------------------------------------------------------------------
\* optimize_search_buffer: the search for the window size.
ProbeWindow == stage = "window" /\ Probe(Configured(Middle))

\* Some window reached the target.
converged == \E c \in DOMAIN reaches : reaches[c]

ExitNow == task.state # "All" \/ ~converged

\* The best window is set, and it is decided whether to split the buffer.
WindowFound ==
  /\ stage = "window" /\ range.count = 0
  /\ current' = Configured(range.first)
  /\ LET split == ~ExitNow /\ (range.first = task.num_neighbors \/ task.reranking)
     IN  /\ stage' = IF ~split THEN Afterwards(converged)
                     ELSE IF task.reranking THEN "time_uniform" ELSE "roi"
         /\ range' = Over(1, range.first)
         /\ sws' = range.first
  /\ UNCHANGED <<task, reaches, min_time, prefetch_vars>>

\* optimize_split_buffer_using_binary_search: the window below a fixed capacity.
ProbeRegion == stage = "roi" /\ Probe(<<Middle, current[2]>>)

RegionFound ==
  /\ stage = "roi" /\ range.count = 0
  /\ current' = <<range.first, current[2]>>
  /\ stage' = Afterwards(TRUE)
  /\ UNCHANGED <<task, range, reaches, sws, min_time, prefetch_vars>>

\* optimize_split_buffer: the uniform buffer is timed.
TimeUniform ==
  /\ stage = "time_uniform"
  /\ min_time' \in 1 .. MaxTime
  /\ stage' = "smaller"
  /\ UNCHANGED <<task, buffer_vars, prefetch_vars>>

\* Mutant: a smaller window is not tried at the largest capacity first.
SmallerUntried ==
  /\ stage = "smaller" /\ sws > 1
  /\ stage' = "capacity" /\ sws' = sws - 1
  /\ range' = Over(MaxOf(sws - 1, task.num_neighbors), CapacityUpper)
  /\ UNCHANGED <<task, current, reaches, min_time, prefetch_vars>>

\* The next smaller window, with the largest capacity; if that fails, it is over.
TrySmaller ==
  /\ stage = "smaller" /\ sws > 1
  /\ LET config == <<sws - 1, CapacityUpper>>
     IN  \E answer \in Answers(config) :
           /\ reaches' = Put(reaches, config, answer)
           /\ stage' = IF answer THEN "capacity" ELSE Afterwards(TRUE)
  /\ sws' = sws - 1
  /\ range' = Over(MaxOf(sws - 1, task.num_neighbors), CapacityUpper)
  /\ UNCHANGED <<task, current, min_time, prefetch_vars>>

NoSmaller ==
  /\ stage = "smaller" /\ sws <= 1
  /\ stage' = Afterwards(TRUE)
  /\ UNCHANGED <<task, buffer_vars, min_time, prefetch_vars>>

ProbeCapacity == stage = "capacity" /\ Probe(<<sws, Middle>>)

\* The smallest capacity found is timed, and kept if it is faster.
TimeSplit ==
  /\ stage = "capacity" /\ range.count = 0
  /\ \E time \in 1 .. MaxTime :
       IF time < min_time THEN min_time' = time /\ current' = <<sws, range.first>>
                          ELSE UNCHANGED <<min_time, current>>
  /\ stage' = "smaller"
  /\ UNCHANGED <<task, range, reaches, sws, prefetch_vars>>

-----------------------------------------------------------------------------
\* tune_prefetch begins without prefetching.
Baseline ==
  /\ stage = "baseline"
  /\ \E time \in 1 .. MaxTime : min_time' = time /\ timed' = Put(<<>>, NoPrefetch, time)
  /\ chosen' = NoPrefetch
  /\ tuning' = [step |-> 1, width |-> 0, next |-> 0, stop |-> 0, best |-> 0, best_time |-> 0]
  /\ stage' = "maximum"
  /\ UNCHANGED <<task, buffer_vars>>

\* search_with_refinement starts with no best.
Refinement(width, start, stop) ==
  [tuning EXCEPT !.width = width, !.next = MaxOf(start, 1), !.stop = MinOf(stop, MaxDegree),
                 !.best_time = MaxTime + 1]

\* The largest lookahead; min_time stays as it is.
TryMaximum ==
  /\ stage = "maximum"
  /\ LET config == [lookahead |-> MaxDegree, step |-> tuning.step]
     IN  \E time \in 1 .. MaxTime :
           /\ timed' = Put(timed, config, time)
           /\ chosen' = IF time < min_time THEN config ELSE chosen
  /\ tuning' = Refinement(MaxDegree \div 4, 1, MaxDegree)
  /\ stage' = "refine"
  /\ UNCHANGED <<task, buffer_vars, min_time>>

\* One lookahead of a refinement; times are remembered while the step is the same.
TryLookahead ==
  /\ stage = "refine" /\ tuning.width # 0 /\ tuning.next < tuning.stop
  /\ LET config == [lookahead |-> tuning.next, step |-> tuning.step]
     IN  \E time \in IF config \in DOMAIN timed THEN {timed[config]} ELSE 1 .. MaxTime :
           /\ timed' = Put(timed, config, time)
           /\ tuning' = [tuning EXCEPT
                           !.next = @ + tuning.width,
                           !.best = IF time < tuning.best_time THEN tuning.next ELSE @,
                           !.best_time = MinOf(@, time)]
  /\ UNCHANGED <<task, buffer_vars, stage, min_time, chosen>>

\* The best lookahead is kept if it beats min_time; the next refinement is around it.
EndRefinement ==
  /\ stage = "refine" /\ tuning.width # 0 /\ tuning.next >= tuning.stop
  /\ IF tuning.best_time < min_time
     THEN min_time' = tuning.best_time /\ chosen' = [lookahead |-> tuning.best, step |-> tuning.step]
     ELSE UNCHANGED <<min_time, chosen>>
  /\ LET width == tuning.width \div 2
     IN  tuning' = Refinement(width, tuning.best - 2 * width, tuning.best + 2 * width)
  /\ UNCHANGED <<task, buffer_vars, stage, timed>>

NextStep ==
  /\ stage = "refine" /\ tuning.width = 0
  /\ tuning' = [tuning EXCEPT !.step = @ + 1]
  /\ stage' = IF tuning.step < PrefetchSteps THEN "maximum" ELSE "done"
  /\ UNCHANGED <<task, buffer_vars, min_time, chosen, timed>>

-----------------------------------------------------------------------------
\* A call of calibrate that optimizes the buffer; task.capacity is that of the
\* parameters it starts from.
Begin(t) ==
  LET lower == IF t.state = "ROITuneUp" /\ t.capacity >= t.num_neighbors THEN 1 ELSE t.num_neighbors
  IN  /\ task = t /\ stage = "window" /\ range = Over(lower, WindowUpper)
      /\ current = <<t.capacity, t.capacity>> /\ reaches = <<>> /\ sws = 0
      /\ min_time = 0 /\ tuning = <<>> /\ chosen = NoPrefetch /\ timed = <<>>

Tasks == [num_neighbors : 1 .. MaxNeighbors, state : {"All", "ROIOnly", "ROITuneUp"},
          reranking : BOOLEAN, capacity : 1 .. CapacityUpper, train : BOOLEAN]

Init == \E t \in Tasks : Begin(t)

Next ==
  \/ ProbeWindow \/ WindowFound \/ ProbeRegion \/ RegionFound
  \/ TimeUniform \/ TrySmaller \/ NoSmaller \/ ProbeCapacity \/ TimeSplit
  \/ Baseline \/ TryMaximum \/ TryLookahead \/ EndRefinement \/ NextStep

Spec == Init /\ [][Next]_vars
-----------------------------------------------------------------------------
\* calibrate.h:36, the invariants of the algorithm: no search is made, and nothing
\* returned, with a capacity below the window or below the number of neighbors.
CapacitySuffices ==
  \A c \in DOMAIN reaches \cup (IF stage \in {"done", "missed"} THEN {current} ELSE {}) :
    c[2] >= c[1] /\ c[2] >= task.num_neighbors

\* The configuration that calibrate returns as converged has itself been tried and
\* has reached the target.  For that it does not matter whether recall is monotonic,
\* nor that the ends of the ranges are returned without a comparison.
ConvergedReachesTarget ==
  stage \in {"baseline", "maximum", "refine", "done"} =>
    current \in DOMAIN reaches /\ reaches[current]

\* Tuning the prefetching never makes the searches slower than none, although the time
\* to beat is stale after the largest lookahead was kept.
TuningNeverSlower ==
  stage = "done" /\ task.train => timed[chosen] <= timed[NoPrefetch]

\* What calibrate returns is admissible, reaches the target and is not slowed down.
CalibrationDelivers == CapacitySuffices /\ ConvergedReachesTarget /\ TuningNeverSlower

\* calibrate.h:462: returned are the search parameters discovered that yield the
\* highest QPS.
ReturnsFastest == stage = "done" /\ task.train => \A c \in DOMAIN timed : timed[chosen] <= timed[c]
=============================================================================
