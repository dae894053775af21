----------------------------- MODULE PartsProofs -----------------------------
(***************************************************************************)
(* The components that other parts take for granted, each a machine of its *)
(* own, for all bounds and numbers of threads and objects: the result of   *)
(* the calibration, the stored vectors and their compaction, the memory of *)
(* the arrays, the mapped files, and the shared search parameters.         *)
(***************************************************************************)
EXTENDS Calibration, Dataset, Allocation, MemoryMap, SharedParameters, PartitionProofs, FiniteSetTheorems

(***************************************************************************)
(* vamana::calibrate: what it returns is admissible, reaches the target    *)
(* and is not slowed down.                                                 *)
(***************************************************************************)

Holds(f, c) == c \in DOMAIN f /\ f[c]

Reached(c) == Holds(reaches, c)

Admissible(c) == c[2] >= c[1] /\ c[2] >= task.num_neighbors

Stages == {"window", "roi", "time_uniform", "smaller", "capacity",
           "baseline", "maximum", "refine", "missed", "done"}

Tuning == [step : Nat \ {0}, width : Nat, next : Nat, stop : Int, best : Nat, best_time : Nat]

TypeInv ==
  /\ task \in Tasks /\ stage \in Stages
  /\ current \in Nat \X Nat
  /\ range \in [first : Nat \ {0}, count : Nat]
  /\ DOMAIN reaches \subseteq Nat \X Nat /\ \A c \in DOMAIN reaches : reaches[c] \in BOOLEAN
  /\ sws \in 0 .. CapacityUpper /\ min_time \in 0 .. MaxTime

\* The end of the range of a binary search is where it began, or has reached the target.
End == range.first + range.count

InWindow ==
  stage = "window" =>
    /\ End <= CapacityUpper
    /\ range.first >= task.num_neighbors \/ (task.state = "ROITuneUp" /\ task.capacity >= task.num_neighbors)
    /\ converged => Reached(Configured(End))

InRegion == stage = "roi" => End <= current[2] /\ Reached(<<End, current[2]>>)

InCapacity ==
  stage = "capacity" =>
    range.first >= sws /\ range.first >= task.num_neighbors /\ Reached(<<sws, End>>)

\* A buffer that is kept has been tried; what was tried is admissible.
BufferInv ==
  /\ InWindow /\ InRegion /\ InCapacity
  /\ \A c \in DOMAIN reaches : Admissible(c)
  /\ stage \notin {"window", "missed"} => Reached(current)
  /\ stage = "missed" => Admissible(current)

Prefetch(l, s) == [lookahead |-> l, step |-> s]

\* Nothing has been measured for a step that is still to come, and neither the time to
\* beat nor the choice is worse than no prefetching.
TuningInv ==
  stage \in {"maximum", "refine"} \/ (stage = "done" /\ task.train) =>
    /\ DOMAIN timed \subseteq [lookahead : Nat, step : Nat] /\ \A c \in DOMAIN timed : timed[c] \in 1 .. MaxTime
    /\ NoPrefetch \in DOMAIN timed /\ chosen \in DOMAIN timed
    /\ timed[chosen] <= timed[NoPrefetch] /\ min_time <= timed[NoPrefetch]
    /\ tuning \in Tuning
    /\ stage = "maximum" => \A c \in DOMAIN timed : c = NoPrefetch \/ c.step < tuning.step
    /\ stage = "refine" =>
         /\ \A c \in DOMAIN timed : c.step <= tuning.step
         /\ tuning.width # 0 => tuning.next >= 1
         /\ tuning.best_time <= MaxTime =>
              /\ Prefetch(tuning.best, tuning.step) \in DOMAIN timed
              /\ timed[Prefetch(tuning.best, tuning.step)] = tuning.best_time

CalInv == TypeInv /\ BufferInv /\ TuningInv

-----------------------------------------------------------------------------
\* The answer for a configuration is remembered, and does not change what was known.
LEMMA Remembered ==
  ASSUME TypeInv, NEW c \in Nat \X Nat, NEW answer \in Answers(c), reaches' = Put(reaches, c, answer)
  PROVE  /\ answer \in BOOLEAN /\ DOMAIN reaches' = DOMAIN reaches \cup {c} /\ reaches'[c] = answer
         /\ DOMAIN reaches' \subseteq Nat \X Nat /\ \A d \in DOMAIN reaches' : reaches'[d] \in BOOLEAN
         /\ \A d \in DOMAIN reaches : reaches'[d] = reaches[d]
<1>1. answer \in BOOLEAN
  BY DEF Answers, TypeInv
<1>2. c \in DOMAIN reaches => answer = reaches[c]
  BY DEF Answers
<1>3. /\ DOMAIN reaches' = DOMAIN reaches \cup {c} /\ reaches'[c] = answer
      /\ \A d \in DOMAIN reaches : d # c => reaches'[d] = reaches[d]
  <2> DEFINE f == Put(reaches, c, answer)
  <2>1. DOMAIN f = DOMAIN reaches \cup {c} /\ f[c] = answer /\ \A z \in DOMAIN reaches : z # c => f[z] = reaches[z]
    BY DEF Put
  <2> HIDE DEF f
  <2>2. reaches' = f BY DEF f
  <2> QED BY <2>1, <2>2
<1>4. \A d \in DOMAIN reaches : reaches'[d] = reaches[d]
  BY <1>2, <1>3
<1>5. \A d \in DOMAIN reaches' : reaches'[d] \in BOOLEAN
  BY <1>1, <1>3, <1>4 DEF TypeInv
<1> QED BY <1>1, <1>3, <1>4, <1>5 DEF TypeInv

\* Whichever way a comparison goes: the range stays within the old one, and its end is
\* the old end, or the middle if that has reached the target.
LEMMA Halved ==
  ASSUME TypeInv, range.count > 0, NEW answer \in BOOLEAN, range' = Rest(~answer)
  PROVE  /\ range' \in [first : Nat \ {0}, count : Nat] /\ range'.first >= range.first /\ End' <= End
         /\ Middle \in Nat \ {0} /\ Middle >= range.first /\ Middle < End
         /\ End' = IF answer THEN Middle ELSE End
<1>1. range.first \in Nat \ {0} /\ range.count \in Nat /\ range.count \div 2 \in 0 .. range.count - 1
  BY DEF TypeInv
<1>2. CASE answer
  <2>1. range' = [first |-> range.first, count |-> range.count \div 2]
    BY <1>2 DEF Rest
  <2> QED BY <1>1, <1>2, <2>1 DEF End, Middle
<1>3. CASE ~answer
  <2>1. range' = [first |-> Middle + 1, count |-> range.count - range.count \div 2 - 1]
    BY <1>3 DEF Rest
  <2> QED BY <1>1, <1>3, <2>1 DEF End, Middle
<1> QED BY <1>2, <1>3

\* A comparison of a binary search.
LEMMA Probed ==
  ASSUME TypeInv, BufferInv, TuningInv, NEW c \in Nat \X Nat, Probe(c), Admissible(c),
         stage \in {"window", "roi", "capacity"}
  PROVE  /\ TypeInv' /\ TuningInv' /\ \A d \in DOMAIN reaches' : Admissible(d)'
         /\ stage' = stage /\ task' = task /\ current' = current /\ sws' = sws
         /\ range'.first >= range.first /\ End' <= End
         /\ \A d : Reached(d) => Holds(reaches', d)
         /\ \/ End' = Middle /\ Holds(reaches', c)
            \/ End' = End /\ \A d : Holds(reaches', d) => Reached(d)
<1>1. PICK answer \in Answers(c) : reaches' = Put(reaches, c, answer) /\ range' = Rest(~answer)
  BY DEF Probe
<1>2. UNCHANGED <<task, stage, current, sws, min_time, prefetch_vars>> /\ range.count > 0
  BY DEF Probe
<1>3. /\ answer \in BOOLEAN /\ DOMAIN reaches' = DOMAIN reaches \cup {c} /\ reaches'[c] = answer
      /\ DOMAIN reaches' \subseteq Nat \X Nat /\ \A d \in DOMAIN reaches' : reaches'[d] \in BOOLEAN
      /\ \A d \in DOMAIN reaches : reaches'[d] = reaches[d]
  BY <1>1, Remembered
<1>4. /\ range' \in [first : Nat \ {0}, count : Nat] /\ range'.first >= range.first /\ End' <= End
      /\ End' = IF answer THEN Middle ELSE End
  BY <1>1, <1>2, <1>3, Halved
<1>5. TypeInv' BY <1>2, <1>3, <1>4 DEF TypeInv
<1>6. TuningInv' BY <1>2 DEF TuningInv, prefetch_vars
<1>7. \A d \in DOMAIN reaches' : Admissible(d)'
  BY <1>2, <1>3 DEF BufferInv, Admissible
<1>8. \A d : Reached(d) => Holds(reaches', d)
  BY <1>3 DEF Reached, Holds
<1>9. \/ End' = Middle /\ Holds(reaches', c)
      \/ End' = End /\ \A d : Holds(reaches', d) => Reached(d)
  <2>1. CASE answer BY <2>1, <1>3, <1>4 DEF Reached, Holds
  <2>2. CASE ~answer BY <2>2, <1>3, <1>4 DEF Reached, Holds
  <2> QED BY <2>1, <2>2, <1>3
<1> QED BY <1>2, <1>4, <1>5, <1>6, <1>7, <1>8, <1>9

-----------------------------------------------------------------------------
\* In the search for the window the capacity is admissible at each position.
LEMMA WindowAdmissible ==
  ASSUME TypeInv, NEW w \in Nat \ {0},
         w >= task.num_neighbors \/ (task.state = "ROITuneUp" /\ task.capacity >= task.num_neighbors)
  PROVE  Configured(w) \in Nat \X Nat /\ Admissible(Configured(w))
<1>1. task.num_neighbors \in Nat /\ task.capacity \in Nat
  BY CalibrationAssumption DEF TypeInv, Tasks
<1>2. CASE task.state = "ROITuneUp"
  <2>1. Configured(w) = <<w, MaxOf(w, task.capacity)>> BY <1>2 DEF Configured
  <2>2. MaxOf(w, task.capacity) \in Nat /\ MaxOf(w, task.capacity) >= w /\ MaxOf(w, task.capacity) >= task.capacity
    BY <1>1 DEF MaxOf
  <2> QED BY <1>1, <2>1, <2>2 DEF Admissible
<1>3. CASE task.state # "ROITuneUp"
  <2>1. Configured(w) = <<w, w>> BY <1>3 DEF Configured
  <2> QED BY <1>1, <1>3, <2>1 DEF Admissible
<1> QED BY <1>2, <1>3

\* calibrate starts with what its searches rely on.
THEOREM CalibrationStarts == Init => CalInv
<1> SUFFICES ASSUME NEW t \in Tasks, Begin(t) PROVE CalInv BY DEF Init
<1> USE CalibrationAssumption
<1>1. /\ t.num_neighbors \in 1 .. MaxNeighbors /\ t.capacity \in 1 .. CapacityUpper
      /\ {WindowUpper, CapacityUpper, MaxNeighbors, MaxTime} \subseteq Nat \ {0}
  BY DEF Tasks
<1> DEFINE lower == IF t.state = "ROITuneUp" /\ t.capacity >= t.num_neighbors THEN 1 ELSE t.num_neighbors
<1>2. /\ task = t /\ stage = "window" /\ range = Over(lower, WindowUpper)
      /\ current = <<t.capacity, t.capacity>> /\ reaches = <<>> /\ sws = 0 /\ min_time = 0
  BY DEF Begin
<1>3. lower \in 1 .. MaxNeighbors BY <1>1
<1>4. /\ range \in [first : Nat \ {0}, count : Nat] /\ range.first = lower
      /\ End <= CapacityUpper
  <2>1. range = [first |-> lower, count |-> MaxOf(WindowUpper - lower, 0)] BY <1>2 DEF Over
  <2> HIDE DEF lower
  <2>2. MaxOf(WindowUpper - lower, 0) \in Nat /\ lower + MaxOf(WindowUpper - lower, 0) <= CapacityUpper
    BY <1>1, <1>3 DEF MaxOf
  <2> QED BY <1>3, <2>1, <2>2 DEF End
<1>5. DOMAIN reaches = {} BY <1>2
<1>6. TypeInv
  BY <1>1, <1>2, <1>4, <1>5 DEF TypeInv, Stages
<1>7. InWindow
  <2>1. ~converged BY <1>5 DEF converged
  <2> QED BY <1>1, <1>2, <1>4, <2>1 DEF InWindow
<1>8. BufferInv
  BY <1>2, <1>5, <1>7 DEF BufferInv, InRegion, InCapacity
<1> QED BY <1>2, <1>6, <1>8 DEF CalInv, TuningInv

-----------------------------------------------------------------------------
LEMMA WindowStep ==
  ASSUME CalInv, ProbeWindow
  PROVE  CalInv'
<1>1. TypeInv /\ BufferInv /\ TuningInv /\ stage = "window" /\ InWindow
  BY DEF CalInv, BufferInv, ProbeWindow
<1>2. range \in [first : Nat \ {0}, count : Nat] /\ range.count > 0 /\ Probe(Configured(Middle))
  BY <1>1 DEF TypeInv, ProbeWindow, Probe
<1>3. Middle \in Nat \ {0} /\ Middle >= range.first
  BY <1>2 DEF Middle
<1>4. task.num_neighbors \in Nat /\ task.capacity \in Nat
  BY <1>1, CalibrationAssumption DEF TypeInv, Tasks
<1>5. range.first >= task.num_neighbors \/ (task.state = "ROITuneUp" /\ task.capacity >= task.num_neighbors)
  BY <1>1 DEF InWindow
<1>6. Configured(Middle) \in Nat \X Nat /\ Admissible(Configured(Middle))
  BY <1>1, <1>2, <1>3, <1>4, <1>5, WindowAdmissible
<1>7. /\ TypeInv' /\ TuningInv' /\ \A d \in DOMAIN reaches' : Admissible(d)'
      /\ stage' = stage /\ task' = task
      /\ range'.first >= range.first /\ End' <= End
      /\ \A d : Reached(d) => Holds(reaches', d)
      /\ \/ End' = Middle /\ Holds(reaches', Configured(Middle))
         \/ End' = End /\ \A d : Holds(reaches', d) => Reached(d)
  BY <1>1, <1>2, <1>6, Probed
<1>8. converged' => Reached(Configured(End))'
  <2> SUFFICES ASSUME converged' PROVE Reached(Configured(End))' OBVIOUS
  <2>1. CASE End' = Middle /\ Holds(reaches', Configured(Middle))
    <3>1. Configured(End)' = Configured(Middle) BY <2>1, <1>7 DEF Configured
    <3> QED BY <2>1, <3>1 DEF Reached, Holds
  <2>2. CASE End' = End /\ \A d : Holds(reaches', d) => Reached(d)
    <3>1. PICK c \in DOMAIN reaches' : reaches'[c] BY DEF converged
    <3>2. Reached(c) BY <2>2, <3>1 DEF Reached, Holds
    <3>3. Reached(Configured(End)) BY <1>1, <3>2 DEF Reached, Holds, converged, InWindow
    <3>4. Configured(End)' = Configured(End) BY <2>2, <1>7 DEF Configured
    <3> QED BY <1>7, <3>3, <3>4 DEF Reached, Holds
  <2> QED BY <2>1, <2>2, <1>7
<1>9. End \in Nat /\ End' \in Nat /\ range'.first \in Nat /\ CapacityUpper \in Nat
  BY <1>2, <1>7, CalibrationAssumption DEF TypeInv, End
<1>10. InWindow'
  BY <1>1, <1>4, <1>5, <1>7, <1>8, <1>9, <1>2 DEF InWindow
<1> QED BY <1>1, <1>7, <1>10 DEF CalInv, BufferInv, InRegion, InCapacity

LEMMA RegionStep ==
  ASSUME CalInv, ProbeRegion
  PROVE  CalInv'
<1>1. /\ TypeInv /\ BufferInv /\ TuningInv /\ stage = "roi"
      /\ End <= current[2] /\ Reached(<<End, current[2]>>) /\ Reached(current)
  BY DEF CalInv, BufferInv, ProbeRegion, InRegion
<1>2. range \in [first : Nat \ {0}, count : Nat] /\ range.count > 0 /\ Probe(<<Middle, current[2]>>)
  BY <1>1 DEF TypeInv, ProbeRegion, Probe
<1>3. Middle \in Nat \ {0} /\ Middle < End /\ current[2] \in Nat
  BY <1>1, <1>2 DEF Middle, End, TypeInv
<1>4. Admissible(current)
  BY <1>1 DEF Reached, Holds, BufferInv
<1>5. Admissible(<<Middle, current[2]>>) /\ <<Middle, current[2]>> \in Nat \X Nat
  BY <1>1, <1>2, <1>3, <1>4 DEF Admissible, End
<1>6. /\ TypeInv' /\ TuningInv' /\ \A d \in DOMAIN reaches' : Admissible(d)'
      /\ stage' = stage /\ task' = task /\ current' = current
      /\ range'.first >= range.first /\ End' <= End
      /\ \A d : Reached(d) => Holds(reaches', d)
      /\ \/ End' = Middle /\ Holds(reaches', <<Middle, current[2]>>)
         \/ End' = End /\ \A d : Holds(reaches', d) => Reached(d)
  BY <1>1, <1>2, <1>5, Probed
<1>7. Reached(<<End, current[2]>>)'
  BY <1>1, <1>6 DEF Reached, Holds
<1>8. End' <= current'[2]
  BY <1>1, <1>2, <1>3, <1>6 DEF End, TypeInv
<1>9. Reached(current)' BY <1>1, <1>6 DEF Reached, Holds
<1> QED BY <1>1, <1>6, <1>7, <1>8, <1>9 DEF CalInv, BufferInv, InWindow, InRegion, InCapacity

LEMMA CapacityStep ==
  ASSUME CalInv, ProbeCapacity
  PROVE  CalInv'
<1>1. /\ TypeInv /\ BufferInv /\ TuningInv /\ stage = "capacity" /\ Reached(current)
      /\ range.first >= sws /\ range.first >= task.num_neighbors /\ Reached(<<sws, End>>)
  BY DEF CalInv, BufferInv, ProbeCapacity, InCapacity
<1>2. range \in [first : Nat \ {0}, count : Nat] /\ range.count > 0 /\ Probe(<<sws, Middle>>)
  BY <1>1 DEF TypeInv, ProbeCapacity, Probe
<1>3. Middle \in Nat /\ Middle >= range.first /\ sws \in Nat /\ task.num_neighbors \in Nat
  BY <1>1, <1>2, CalibrationAssumption DEF Middle, TypeInv, Tasks
<1>4. Admissible(<<sws, Middle>>) /\ <<sws, Middle>> \in Nat \X Nat
  BY <1>1, <1>2, <1>3 DEF Admissible
<1>5. /\ TypeInv' /\ TuningInv' /\ \A d \in DOMAIN reaches' : Admissible(d)'
      /\ stage' = stage /\ task' = task /\ current' = current /\ sws' = sws
      /\ range'.first >= range.first
      /\ \A d : Reached(d) => Holds(reaches', d)
      /\ \/ End' = Middle /\ Holds(reaches', <<sws, Middle>>)
         \/ End' = End /\ \A d : Holds(reaches', d) => Reached(d)
  BY <1>1, <1>2, <1>4, Probed
<1>6. Reached(<<sws, End>>)'
  BY <1>1, <1>5 DEF Reached, Holds
<1>7. range'.first >= sws' /\ range'.first >= task'.num_neighbors
  BY <1>1, <1>2, <1>3, <1>5 DEF TypeInv
<1>8. Reached(current)' BY <1>1, <1>5 DEF Reached, Holds
<1> QED BY <1>1, <1>5, <1>6, <1>7, <1>8 DEF CalInv, BufferInv, InWindow, InRegion, InCapacity

-----------------------------------------------------------------------------
LEMMA WindowFoundStep ==
  ASSUME CalInv, WindowFound
  PROVE  CalInv'
<1>1. TypeInv /\ stage = "window" /\ InWindow /\ \A c \in DOMAIN reaches : Admissible(c)
  BY DEF CalInv, BufferInv, WindowFound
<1>2. /\ range \in [first : Nat \ {0}, count : Nat] /\ range.count = 0 /\ End = range.first
      /\ current' = Configured(range.first) /\ sws' = range.first /\ range' = Over(1, range.first)
      /\ UNCHANGED <<task, reaches, min_time, prefetch_vars>>
  BY <1>1 DEF TypeInv, WindowFound, End
<1> DEFINE split == ~ExitNow /\ (range.first = task.num_neighbors \/ task.reranking)
<1>3. stage' = IF ~split THEN Afterwards(converged) ELSE IF task.reranking THEN "time_uniform" ELSE "roi"
  BY DEF WindowFound
<1>4. split => converged /\ task.state = "All"
  BY DEF ExitNow
<1>5. converged \in BOOLEAN /\ ~converged => ~split
  BY DEF ExitNow, converged
<1>6. stage' \in Stages \ {"window", "smaller", "capacity", "maximum", "refine"}
  BY <1>3 DEF Afterwards, Stages
<1>7. stage' # "missed" => converged
  BY <1>3, <1>4 DEF Afterwards
<1>8. stage' = "roi" => split BY <1>3 DEF Afterwards
<1>9. stage' = "done" => ~task.train BY <1>3 DEF Afterwards
<1> HIDE DEF split
<1>10. task.num_neighbors \in Nat /\ task.capacity \in Nat
  BY <1>1, CalibrationAssumption DEF TypeInv, Tasks
<1>11. Configured(range.first) \in Nat \X Nat /\ Admissible(Configured(range.first))
  BY <1>1, <1>2, WindowAdmissible DEF InWindow
<1>12. range' = [first |-> 1, count |-> range.first - 1]
  <2>1. MaxOf(range.first - 1, 0) = range.first - 1 BY <1>2 DEF MaxOf
  <2> QED BY <1>2, <2>1 DEF Over
<1>13. range.first \in 0 .. CapacityUpper
  BY <1>1, <1>2, CalibrationAssumption DEF InWindow
<1>14. TypeInv'
  BY <1>1, <1>2, <1>6, <1>11, <1>12, <1>13 DEF TypeInv
<1>15. converged => Holds(reaches', current')
  BY <1>1, <1>2 DEF InWindow, Reached, Holds
<1>16. InRegion'
  <2> SUFFICES ASSUME stage' = "roi" PROVE End' <= current'[2] /\ Holds(reaches', <<End', current'[2]>>)
    BY DEF InRegion, Reached
  <2>1. current' = <<range.first, range.first>>
    BY <1>2, <1>4, <1>8 DEF Configured
  <2>2. End' = range.first BY <1>2, <1>12 DEF End
  <2> QED BY <1>2, <1>4, <1>8, <1>15, <2>1, <2>2
<1>17. \A c \in DOMAIN reaches' : Admissible(c)'
  BY <1>1, <1>2 DEF Admissible
<1>18. Admissible(current)'
  BY <1>2, <1>11 DEF Admissible
<1>19. Reached(current)' <=> Holds(reaches', current')
  BY DEF Reached
<1>20. BufferInv'
  BY <1>6, <1>7, <1>15, <1>16, <1>17, <1>18, <1>19 DEF BufferInv, InWindow, InCapacity
<1> QED BY <1>2, <1>6, <1>9, <1>14, <1>20 DEF CalInv, TuningInv

LEMMA RegionFoundStep ==
  ASSUME CalInv, RegionFound
  PROVE  CalInv'
<1>1. /\ TypeInv /\ stage = "roi" /\ \A c \in DOMAIN reaches : Admissible(c)
      /\ Holds(reaches, <<End, current[2]>>)
  BY DEF CalInv, BufferInv, RegionFound, InRegion, Reached
<1>2. /\ range \in [first : Nat \ {0}, count : Nat] /\ End = range.first /\ current[2] \in Nat
      /\ current' = <<range.first, current[2]>>
      /\ UNCHANGED <<task, range, reaches, sws, min_time, prefetch_vars>>
  BY <1>1 DEF TypeInv, RegionFound, End
<1>3. stage' \in {"baseline", "done"} /\ (stage' = "done" => ~task.train)
  BY DEF RegionFound, Afterwards
<1>4. TypeInv' BY <1>1, <1>2, <1>3 DEF TypeInv, Stages
<1>5. Reached(current)' BY <1>1, <1>2 DEF Reached, Holds
<1>6. \A c \in DOMAIN reaches' : Admissible(c)' BY <1>1, <1>2 DEF Admissible
<1>7. BufferInv' BY <1>3, <1>5, <1>6 DEF BufferInv, InWindow, InRegion, InCapacity
<1> QED BY <1>2, <1>3, <1>4, <1>7 DEF CalInv, TuningInv

\* Steps that leave the buffer and what is known of it alone.
LEMMA BufferKept ==
  ASSUME CalInv, UNCHANGED <<task, current, reaches>>, stage \notin {"window", "missed"},
         stage' \notin {"window", "roi", "capacity", "missed"}
  PROVE  BufferInv'
<1>1. Reached(current)' /\ \A c \in DOMAIN reaches' : Admissible(c)'
  BY DEF CalInv, BufferInv, Reached, Holds, Admissible
<1> QED BY <1>1 DEF BufferInv, InWindow, InRegion, InCapacity

LEMMA SplitStep ==
  ASSUME CalInv, TimeUniform \/ NoSmaller
  PROVE  CalInv'
<1>1. UNCHANGED <<task, current, reaches, range, sws>> /\ min_time' \in 0 .. MaxTime
  <2>1. CASE TimeUniform BY <2>1, CalibrationAssumption DEF TimeUniform, buffer_vars
  <2>2. CASE NoSmaller BY <2>2 DEF NoSmaller, buffer_vars, CalInv, TypeInv
  <2> QED BY <2>1, <2>2
<1>2. stage \in {"time_uniform", "smaller"} /\ stage' \in {"smaller", "baseline", "done"}
  BY DEF TimeUniform, NoSmaller, Afterwards
<1>3. stage' = "done" => ~task.train
  BY DEF TimeUniform, NoSmaller, Afterwards
<1>4. BufferInv' BY <1>1, <1>2, BufferKept
<1>5. TypeInv' BY <1>1, <1>2 DEF CalInv, TypeInv, Stages
<1> QED BY <1>1, <1>2, <1>3, <1>4, <1>5 DEF CalInv, TuningInv

LEMMA SmallerStep ==
  ASSUME CalInv, TrySmaller
  PROVE  CalInv'
<1> USE CalibrationAssumption
<1>1. TypeInv /\ Reached(current) /\ (\A c \in DOMAIN reaches : Admissible(c)) /\ stage = "smaller" /\ sws > 1
  BY DEF CalInv, BufferInv, TrySmaller
<1> DEFINE config == <<sws - 1, CapacityUpper>>
<1>2. PICK answer \in Answers(config) :
        /\ reaches' = Put(reaches, config, answer)
        /\ stage' = IF answer THEN "capacity" ELSE Afterwards(TRUE)
  BY DEF TrySmaller
<1>3. /\ sws' = sws - 1 /\ range' = Over(MaxOf(sws - 1, task.num_neighbors), CapacityUpper)
      /\ UNCHANGED <<task, current, min_time, prefetch_vars>>
  BY DEF TrySmaller
<1>4. /\ sws - 1 \in 1 .. CapacityUpper /\ CapacityUpper \in Nat
      /\ task.num_neighbors \in 1 .. MaxNeighbors /\ MaxNeighbors <= CapacityUpper /\ MaxNeighbors \in Nat
  BY <1>1 DEF TypeInv, Tasks
<1>5. config \in Nat \X Nat BY <1>4
<1>6. config[1] = sws - 1 /\ config[2] = CapacityUpper OBVIOUS
<1> HIDE DEF config
<1>7. /\ answer \in BOOLEAN /\ DOMAIN reaches' = DOMAIN reaches \cup {config} /\ reaches'[config] = answer
      /\ DOMAIN reaches' \subseteq Nat \X Nat /\ \A d \in DOMAIN reaches' : reaches'[d] \in BOOLEAN
      /\ \A d \in DOMAIN reaches : reaches'[d] = reaches[d]
  BY <1>1, <1>2, <1>5, Remembered
<1> DEFINE least == MaxOf(sws - 1, task.num_neighbors)
<1>8. least \in 1 .. CapacityUpper /\ least >= sws - 1 /\ least >= task.num_neighbors
  BY <1>4 DEF MaxOf
<1> HIDE DEF least
<1>9. range' = [first |-> least, count |-> CapacityUpper - least]
  <2>1. MaxOf(CapacityUpper - least, 0) = CapacityUpper - least BY <1>4, <1>8 DEF MaxOf
  <2> QED BY <1>3, <2>1 DEF Over, least
<1>10. End' = CapacityUpper BY <1>4, <1>8, <1>9 DEF End
<1>11. stage' \in {"capacity", "baseline", "done"} /\ (stage' = "done" => ~task.train)
       /\ (stage' = "capacity" => answer)
  BY <1>2, <1>7 DEF Afterwards
<1>12. TypeInv'
  BY <1>1, <1>3, <1>4, <1>7, <1>8, <1>9, <1>11 DEF TypeInv, Stages
<1>13. \A c \in DOMAIN reaches' : Admissible(c)'
  BY <1>1, <1>3, <1>4, <1>6, <1>7 DEF Admissible
<1>14. Reached(current)'
  BY <1>1, <1>3, <1>7 DEF Reached, Holds
<1>15. InCapacity'
  <2>1. <<sws', End'>> = config BY <1>3, <1>10 DEF config
  <2>2. answer => Holds(reaches', <<sws', End'>>) BY <1>7, <2>1 DEF Holds
  <2> QED BY <1>3, <1>8, <1>9, <1>11, <2>2 DEF InCapacity, Reached
<1>16. BufferInv'
  BY <1>11, <1>13, <1>14, <1>15 DEF BufferInv, InWindow, InRegion
<1> QED BY <1>3, <1>11, <1>12, <1>16 DEF CalInv, TuningInv

LEMMA TimeSplitStep ==
  ASSUME CalInv, TimeSplit
  PROVE  CalInv'
<1>1. /\ TypeInv /\ stage = "capacity" /\ Reached(current) /\ Reached(<<sws, End>>)
      /\ \A c \in DOMAIN reaches : Admissible(c)
  BY DEF CalInv, BufferInv, TimeSplit, InCapacity
<1>2. /\ range \in [first : Nat \ {0}, count : Nat] /\ End = range.first /\ sws \in Nat
      /\ stage' = "smaller" /\ UNCHANGED <<task, range, reaches, sws, prefetch_vars>>
  BY <1>1, CalibrationAssumption DEF TypeInv, TimeSplit, End
<1>3. PICK time \in 1 .. MaxTime :
        IF time < min_time THEN min_time' = time /\ current' = <<sws, range.first>>
                           ELSE UNCHANGED <<min_time, current>>
  BY DEF TimeSplit
<1>4. min_time' \in 0 .. MaxTime /\ current' \in {current, <<sws, range.first>>}
  BY <1>1, <1>3, CalibrationAssumption DEF TypeInv
<1>5. TypeInv' BY <1>1, <1>2, <1>4 DEF TypeInv, Stages
<1>6. Reached(current)' BY <1>1, <1>2, <1>4 DEF Reached, Holds
<1>7. \A c \in DOMAIN reaches' : Admissible(c)' BY <1>1, <1>2 DEF Admissible
<1>8. BufferInv' BY <1>2, <1>6, <1>7 DEF BufferInv, InWindow, InRegion, InCapacity
<1> QED BY <1>2, <1>5, <1>8 DEF CalInv, TuningInv

-----------------------------------------------------------------------------
TuningStages == {"baseline", "maximum", "refine"}

\* While prefetching is tuned, the buffer stays.
LEMMA BufferStays ==
  ASSUME CalInv, UNCHANGED <<task, buffer_vars>>, stage \in TuningStages,
         stage' \in TuningStages \cup {"done"}, min_time' \in 0 .. MaxTime
  PROVE  TypeInv' /\ BufferInv'
<1>1. UNCHANGED <<task, current, range, reaches, sws>> BY DEF buffer_vars
<1>2. TypeInv' BY <1>1 DEF CalInv, TypeInv, Stages, TuningStages
<1>3. BufferInv' BY <1>1, BufferKept DEF TuningStages
<1> QED BY <1>2, <1>3

\* A time is put down for a configuration that has none, or that has this one.
LEMMA Timed ==
  ASSUME NEW c, NEW time, timed' = Put(timed, c, time), c \in DOMAIN timed => time = timed[c]
  PROVE  /\ DOMAIN timed' = DOMAIN timed \cup {c} /\ timed'[c] = time
         /\ \A d \in DOMAIN timed : timed'[d] = timed[d]
BY DEF Put

LEMMA BaselineStep ==
  ASSUME CalInv, Baseline
  PROVE  CalInv'
<1> USE CalibrationAssumption
<1>1. PICK time \in 1 .. MaxTime : min_time' = time /\ timed' = Put(<<>>, NoPrefetch, time)
  BY DEF Baseline
<1>2. /\ stage = "baseline" /\ stage' = "maximum" /\ chosen' = NoPrefetch /\ UNCHANGED <<task, buffer_vars>>
      /\ tuning' = [step |-> 1, width |-> 0, next |-> 0, stop |-> 0, best |-> 0, best_time |-> 0]
  BY DEF Baseline
<1>3. DOMAIN timed' = {NoPrefetch} /\ timed'[NoPrefetch] = time
  <2>1. DOMAIN <<>> = {} OBVIOUS
  <2> QED BY <1>1, <2>1 DEF Put
<1>4. TypeInv' /\ BufferInv'
  BY <1>1, <1>2, BufferStays DEF TuningStages
<1>5. TuningInv'
  BY <1>1, <1>2, <1>3 DEF TuningInv, Tuning, NoPrefetch
<1> QED BY <1>4, <1>5 DEF CalInv

\* What TuningInv says while tuning.
LEMMA WhileTuning ==
  ASSUME CalInv, stage \in {"maximum", "refine"}
  PROVE  /\ DOMAIN timed \subseteq [lookahead : Nat, step : Nat] /\ \A c \in DOMAIN timed : timed[c] \in 1 .. MaxTime
         /\ NoPrefetch \in DOMAIN timed /\ chosen \in DOMAIN timed
         /\ timed[chosen] <= timed[NoPrefetch] /\ min_time <= timed[NoPrefetch]
         /\ min_time \in 0 .. MaxTime /\ timed[chosen] \in Nat /\ timed[NoPrefetch] \in Nat
         /\ tuning \in Tuning
BY CalibrationAssumption DEF CalInv, TypeInv, TuningInv

\* A refinement begins with no best and within the lookaheads.
LEMMA Refines ==
  ASSUME tuning \in Tuning, NEW width \in Nat, NEW start \in Int, NEW stop \in Int
  PROVE  /\ Refinement(width, start, stop) \in Tuning /\ Refinement(width, start, stop).next >= 1
         /\ Refinement(width, start, stop).best_time = MaxTime + 1
         /\ Refinement(width, start, stop).step = tuning.step
<1> USE CalibrationAssumption
<1>1. MaxOf(start, 1) \in Nat /\ MaxOf(start, 1) >= 1 /\ MinOf(stop, MaxDegree) \in Int
  BY DEF MaxOf, MinOf
<1> DEFINE r == Refinement(width, start, stop)
           low == MaxOf(start, 1)
           high == MinOf(stop, MaxDegree)
<1>2. r = [tuning EXCEPT !.width = width, !.next = low, !.stop = high, !.best_time = MaxTime + 1]
  BY DEF Refinement
<1>3. MaxTime + 1 \in Nat OBVIOUS
<1> HIDE DEF r, low, high
<1>4. low \in Nat /\ low >= 1 /\ high \in Int BY <1>1 DEF low, high
<1>5. r \in Tuning /\ r.next = low /\ r.best_time = MaxTime + 1 /\ r.step = tuning.step
  BY <1>2, <1>3, <1>4 DEF Tuning
<1> QED BY <1>4, <1>5 DEF r

LEMMA MaximumStep ==
  ASSUME CalInv, TryMaximum
  PROVE  CalInv'
<1> USE CalibrationAssumption
<1>1. stage = "maximum" /\ stage' = "refine" /\ UNCHANGED <<task, buffer_vars, min_time>>
  BY DEF TryMaximum
<1> DEFINE config == Prefetch(MaxDegree, tuning.step)
<1>2. PICK time \in 1 .. MaxTime :
        timed' = Put(timed, config, time) /\ chosen' = IF time < min_time THEN config ELSE chosen
  BY DEF TryMaximum, Prefetch
<1>3. /\ DOMAIN timed \subseteq [lookahead : Nat, step : Nat] /\ \A c \in DOMAIN timed : timed[c] \in 1 .. MaxTime
      /\ NoPrefetch \in DOMAIN timed /\ chosen \in DOMAIN timed
      /\ timed[chosen] <= timed[NoPrefetch] /\ min_time <= timed[NoPrefetch]
      /\ min_time \in 0 .. MaxTime /\ timed[chosen] \in Nat /\ timed[NoPrefetch] \in Nat
      /\ tuning \in Tuning
  BY <1>1, WhileTuning
<1>4. \A c \in DOMAIN timed : c = NoPrefetch \/ c.step < tuning.step
  BY <1>1 DEF CalInv, TuningInv
<1>5. config \in [lookahead : Nat, step : Nat] /\ config.step = tuning.step /\ config # NoPrefetch
  BY <1>3 DEF Prefetch, NoPrefetch, Tuning
<1>6. config \notin DOMAIN timed
  BY <1>3, <1>4, <1>5 DEF Tuning
<1> HIDE DEF config
<1>7. /\ DOMAIN timed' = DOMAIN timed \cup {config} /\ timed'[config] = time
      /\ \A d \in DOMAIN timed : timed'[d] = timed[d]
  BY <1>2, <1>6, Timed
<1>8. tuning' = Refinement(MaxDegree \div 4, 1, MaxDegree) BY DEF TryMaximum
<1>9. MaxDegree \div 4 \in Nat /\ 1 \in Int /\ MaxDegree \in Int OBVIOUS
<1>10. tuning' \in Tuning /\ tuning'.next >= 1 /\ tuning'.best_time = MaxTime + 1 /\ tuning'.step = tuning.step
  BY <1>3, <1>8, <1>9, Refines
<1>11. chosen' \in DOMAIN timed' /\ timed'[chosen'] <= timed'[NoPrefetch] /\ min_time' <= timed'[NoPrefetch]
  BY <1>1, <1>2, <1>3, <1>7
<1>12. \A c \in DOMAIN timed' : c.step <= tuning'.step
  <2>1. NoPrefetch.step = 0 /\ tuning.step \in Nat BY <1>3 DEF NoPrefetch, Tuning
  <2> QED BY <1>3, <1>4, <1>5, <1>7, <1>10, <2>1
<1>13. TuningInv'
  BY <1>1, <1>2, <1>3, <1>5, <1>7, <1>10, <1>11, <1>12 DEF TuningInv, Tuning
<1>14. TypeInv' /\ BufferInv'
  BY <1>1, <1>3, BufferStays DEF TuningStages
<1> QED BY <1>13, <1>14 DEF CalInv

LEMMA LookaheadStep ==
  ASSUME CalInv, TryLookahead
  PROVE  CalInv'
<1> USE CalibrationAssumption
<1>1. /\ stage = "refine" /\ stage' = "refine" /\ tuning.width # 0
      /\ UNCHANGED <<task, buffer_vars, min_time, chosen>>
  BY DEF TryLookahead
<1> DEFINE config == Prefetch(tuning.next, tuning.step)
<1>2. PICK time \in IF config \in DOMAIN timed THEN {timed[config]} ELSE 1 .. MaxTime :
        /\ timed' = Put(timed, config, time)
        /\ tuning' = [tuning EXCEPT !.next = @ + tuning.width,
                                    !.best = IF time < tuning.best_time THEN tuning.next ELSE @,
                                    !.best_time = MinOf(@, time)]
  BY DEF TryLookahead, Prefetch
<1>3. /\ DOMAIN timed \subseteq [lookahead : Nat, step : Nat] /\ \A c \in DOMAIN timed : timed[c] \in 1 .. MaxTime
      /\ NoPrefetch \in DOMAIN timed /\ chosen \in DOMAIN timed
      /\ timed[chosen] <= timed[NoPrefetch] /\ min_time <= timed[NoPrefetch]
      /\ min_time \in 0 .. MaxTime /\ tuning \in Tuning
  BY <1>1, WhileTuning
<1>4. /\ \A c \in DOMAIN timed : c.step <= tuning.step
      /\ tuning.next >= 1
      /\ tuning.best_time <= MaxTime =>
           /\ Prefetch(tuning.best, tuning.step) \in DOMAIN timed
           /\ timed[Prefetch(tuning.best, tuning.step)] = tuning.best_time
  BY <1>1 DEF CalInv, TuningInv
<1>5. config \in [lookahead : Nat, step : Nat] /\ config.step = tuning.step
  BY <1>3 DEF Prefetch, Tuning
<1>6. time \in 1 .. MaxTime /\ (config \in DOMAIN timed => time = timed[config])
  BY <1>2, <1>3
<1>7. config = Prefetch(tuning.next, tuning.step) OBVIOUS
<1> HIDE DEF config
<1>8. /\ DOMAIN timed' = DOMAIN timed \cup {config} /\ timed'[config] = time
      /\ \A d \in DOMAIN timed : timed'[d] = timed[d]
  BY <1>2, <1>6, Timed
<1>9. /\ tuning'.step = tuning.step /\ tuning'.width = tuning.width /\ tuning'.next = tuning.next + tuning.width
      /\ tuning'.stop = tuning.stop
      /\ tuning'.best = (IF time < tuning.best_time THEN tuning.next ELSE tuning.best)
      /\ tuning'.best_time = (IF time < tuning.best_time THEN time ELSE tuning.best_time)
      /\ tuning' \in Tuning
  <2> DEFINE next == tuning.next + tuning.width
             best == IF time < tuning.best_time THEN tuning.next ELSE tuning.best
             least == MinOf(tuning.best_time, time)
  <2>1. least = (IF time < tuning.best_time THEN time ELSE tuning.best_time) /\ least \in Nat
    BY <1>3, <1>6 DEF Tuning, MinOf
  <2>2. next \in Nat /\ best \in Nat BY <1>3 DEF Tuning
  <2>3. tuning' = [tuning EXCEPT !.next = next, !.best = best, !.best_time = least] BY <1>2
  <2> HIDE DEF next, best, least
  <2>4. /\ tuning'.step = tuning.step /\ tuning'.width = tuning.width /\ tuning'.next = next
        /\ tuning'.stop = tuning.stop /\ tuning'.best = best /\ tuning'.best_time = least /\ tuning' \in Tuning
    BY <1>3, <2>1, <2>2, <2>3 DEF Tuning
  <2> QED BY <2>1, <2>4 DEF next, best
<1>10. tuning'.best_time <= MaxTime =>
         /\ Prefetch(tuning'.best, tuning'.step) \in DOMAIN timed'
         /\ timed'[Prefetch(tuning'.best, tuning'.step)] = tuning'.best_time
  <2>1. CASE time < tuning.best_time
    BY <1>7, <1>8, <1>9, <2>1
  <2>2. CASE ~(time < tuning.best_time)
    BY <1>4, <1>8, <1>9, <2>2
  <2> QED BY <2>1, <2>2
<1>11. tuning'.next >= 1 BY <1>3, <1>4, <1>9 DEF Tuning
<1>12. \A c \in DOMAIN timed' : c.step <= tuning'.step
  <2>1. tuning.step \in Nat BY <1>3 DEF Tuning
  <2> QED BY <1>4, <1>5, <1>8, <1>9, <2>1
<1>13. TuningInv'
  BY <1>1, <1>3, <1>5, <1>6, <1>8, <1>9, <1>10, <1>11, <1>12 DEF TuningInv
<1>14. TypeInv' /\ BufferInv'
  BY <1>1, <1>3, BufferStays DEF TuningStages
<1> QED BY <1>13, <1>14 DEF CalInv

LEMMA RefinedStep ==
  ASSUME CalInv, EndRefinement
  PROVE  CalInv'
<1> USE CalibrationAssumption
<1>1. stage = "refine" /\ stage' = "refine" /\ UNCHANGED <<task, buffer_vars, timed>>
  BY DEF EndRefinement
<1>2. /\ DOMAIN timed \subseteq [lookahead : Nat, step : Nat] /\ \A c \in DOMAIN timed : timed[c] \in 1 .. MaxTime
      /\ NoPrefetch \in DOMAIN timed /\ chosen \in DOMAIN timed
      /\ timed[chosen] <= timed[NoPrefetch] /\ min_time <= timed[NoPrefetch]
      /\ min_time \in 0 .. MaxTime /\ timed[NoPrefetch] \in Nat /\ tuning \in Tuning
  BY <1>1, WhileTuning
<1>3. /\ \A c \in DOMAIN timed : c.step <= tuning.step
      /\ tuning.best_time <= MaxTime =>
           /\ Prefetch(tuning.best, tuning.step) \in DOMAIN timed
           /\ timed[Prefetch(tuning.best, tuning.step)] = tuning.best_time
  BY <1>1 DEF CalInv, TuningInv
<1>4. IF tuning.best_time < min_time
      THEN min_time' = tuning.best_time /\ chosen' = Prefetch(tuning.best, tuning.step)
      ELSE UNCHANGED <<min_time, chosen>>
  BY DEF EndRefinement, Prefetch
<1>5. /\ min_time' \in 0 .. MaxTime /\ chosen' \in DOMAIN timed
      /\ timed[chosen'] <= timed[NoPrefetch] /\ min_time' <= timed[NoPrefetch]
  BY <1>2, <1>3, <1>4 DEF Tuning
<1> DEFINE width == tuning.width \div 2
<1>6. width \in Nat /\ tuning.best - 2 * width \in Int /\ tuning.best + 2 * width \in Int
  BY <1>2 DEF Tuning
<1>7. tuning' = Refinement(width, tuning.best - 2 * width, tuning.best + 2 * width)
  BY DEF EndRefinement
<1> HIDE DEF width
<1>8. tuning' \in Tuning /\ tuning'.next >= 1 /\ tuning'.best_time = MaxTime + 1 /\ tuning'.step = tuning.step
  BY <1>2, <1>6, <1>7, Refines
<1>9. TuningInv'
  BY <1>1, <1>2, <1>3, <1>5, <1>8 DEF TuningInv
<1>10. TypeInv' /\ BufferInv'
  BY <1>1, <1>5, BufferStays DEF TuningStages
<1> QED BY <1>9, <1>10 DEF CalInv

LEMMA StepOver ==
  ASSUME CalInv, NextStep
  PROVE  CalInv'
<1> USE CalibrationAssumption
<1>1. /\ stage = "refine" /\ stage' \in {"maximum", "done"}
      /\ UNCHANGED <<task, buffer_vars, min_time, chosen, timed>>
      /\ tuning' = [tuning EXCEPT !.step = @ + 1]
  BY DEF NextStep
<1>2. /\ DOMAIN timed \subseteq [lookahead : Nat, step : Nat] /\ \A c \in DOMAIN timed : timed[c] \in 1 .. MaxTime
      /\ NoPrefetch \in DOMAIN timed /\ chosen \in DOMAIN timed
      /\ timed[chosen] <= timed[NoPrefetch] /\ min_time <= timed[NoPrefetch]
      /\ min_time \in 0 .. MaxTime /\ tuning \in Tuning
  BY <1>1, WhileTuning
<1>3. \A c \in DOMAIN timed : c.step <= tuning.step
  BY <1>1 DEF CalInv, TuningInv
<1>4. tuning' \in Tuning /\ tuning'.step = tuning.step + 1
  BY <1>1, <1>2 DEF Tuning
<1>5. \A c \in DOMAIN timed' : c.step < tuning'.step
  BY <1>1, <1>2, <1>3, <1>4 DEF Tuning
<1>6. TuningInv' BY <1>1, <1>2, <1>4, <1>5 DEF TuningInv
<1>7. TypeInv' /\ BufferInv'
  BY <1>1, <1>2, BufferStays DEF TuningStages
<1> QED BY <1>6, <1>7 DEF CalInv

-----------------------------------------------------------------------------
\* Every step of calibrate keeps what the three searches and the tuning rely on.
THEOREM CalibrationSteps == CalInv /\ [Next]_vars => CalInv'
<1> SUFFICES ASSUME CalInv, [Next]_vars PROVE CalInv' OBVIOUS
<1>1. CASE ProbeWindow BY <1>1, WindowStep
<1>2. CASE WindowFound BY <1>2, WindowFoundStep
<1>3. CASE ProbeRegion BY <1>3, RegionStep
<1>4. CASE RegionFound BY <1>4, RegionFoundStep
<1>5. CASE TimeUniform \/ NoSmaller BY <1>5, SplitStep
<1>6. CASE TrySmaller BY <1>6, SmallerStep
<1>7. CASE ProbeCapacity BY <1>7, CapacityStep
<1>8. CASE TimeSplit BY <1>8, TimeSplitStep
<1>9. CASE Baseline BY <1>9, BaselineStep
<1>10. CASE TryMaximum BY <1>10, MaximumStep
<1>11. CASE TryLookahead BY <1>11, LookaheadStep
<1>12. CASE EndRefinement BY <1>12, RefinedStep
<1>13. CASE NextStep BY <1>13, StepOver
<1>14. CASE UNCHANGED vars
  BY <1>14 DEF CalInv, TypeInv, BufferInv, InWindow, InRegion, InCapacity, TuningInv, Reached, Holds, Admissible,
               Configured, converged, End, vars
<1> QED BY <1>1, <1>2, <1>3, <1>4, <1>5, <1>6, <1>7, <1>8, <1>9, <1>10, <1>11, <1>12, <1>13, <1>14 DEF Next

\* For all bounds, requests, answers of the index and times: what calibrate returns is
\* admissible, has reached the target if it says so, and is not slower than a search
\* without prefetching.
THEOREM CalibrationIsSound == Spec => []CalibrationDelivers
<1>1. CalInv => CalibrationDelivers
  <2> SUFFICES ASSUME CalInv PROVE CalibrationDelivers OBVIOUS
  <2>1. /\ \A c \in DOMAIN reaches : Admissible(c)
        /\ stage \notin {"window", "missed"} => Reached(current)
        /\ stage = "missed" => Admissible(current)
    BY DEF CalInv, BufferInv
  <2>2. CapacitySuffices BY <2>1 DEF CapacitySuffices, Reached, Holds, Admissible
  <2>3. ConvergedReachesTarget BY <2>1 DEF ConvergedReachesTarget, Reached, Holds
  <2>4. TuningNeverSlower BY DEF CalInv, TuningInv, TuningNeverSlower
  <2> QED BY <2>2, <2>3, <2>4 DEF CalibrationDelivers
<1> QED BY <1>1, CalibrationStarts, CalibrationSteps, PTL DEF Spec

-----------------------------------------------------------------------------
(***************************************************************************)
(* Stored vectors.                                                         *)
(***************************************************************************)

\* Where a level has what index i stands for: a move that is under way has still to fetch
\* it from where it was.
Where(l, i) ==
  IF /\ ~Idle /\ i \in DOMAIN moving.new_to_old
     /\ moving.level < l \/ (moving.level = l /\ moving.start <= i)
  THEN moving.new_to_old[i] ELSE i

Moving(L, start, f) == [level |-> L, start |-> start, new_to_old |-> f]

MovingInv == Idle \/ \E L \in level, start \in Nat, n \in Nat : \E f \in Kept(n) : moving = Moving(L, start, f)

RoomInv ==
  /\ DOMAIN slots = level
  /\ \A l \in level : /\ size[l] \in Nat /\ DOMAIN datum = 0 .. size[l] - 1
                      /\ \E m \in Nat : size[l] <= m /\ DOMAIN slots[l] = 0 .. m - 1

HeldInv == \A l \in level : \A i \in DOMAIN datum : datum[i] # Unset => slots[l][Where(l, i)] = datum[i]

DataInv == MovingInv /\ RoomInv /\ HeldInv

-----------------------------------------------------------------------------
\* Memory of n slots that starts as f did, as far as `size` slots are used in both.
Carries(g, n, f, used) ==
  /\ \E m \in Nat : n <= m /\ DOMAIN g = 0 .. m - 1
  /\ \A i \in 0 .. used - 1 : i < n => g[i] = f[i]

LEMMA MultipleCovers ==
  ASSUME NEW n \in Nat
  PROVE  Multiple(n) \in Nat /\ n <= Multiple(n)
<1> PICK B \in Nat \ {0} : B = BlockSize BY DatasetAssumption
<1>1. CASE n = 0
  <2>1. div_round_up(0, B) = 0 BY DEF div_round_up
  <2> QED BY <2>1, <1>1 DEF Multiple
<1>2. CASE n # 0
  <2>1. /\ Short(n, B) \in Nat /\ Long(n, B) \in 1 .. B /\ div_round_up(n, B) = Short(n, B) + 1
        /\ n = Short(n, B) * B + Long(n, B)
    BY <1>2, TeamSizes
  <2> PICK q \in Nat : q = Short(n, B) BY <2>1
  <2> PICK k \in 1 .. B : k = Long(n, B) BY <2>1
  <2>2. Multiple(n) = B * (q + 1) /\ n = q * B + k BY <2>1 DEF Multiple
  <2>3. B * (q + 1) = q * B + B /\ q * B \in Nat OBVIOUS
  <2> QED BY <2>2, <2>3
<1> QED BY <1>1, <1>2

LEMMA CapacityIs ==
  ASSUME NEW f, NEW m \in Nat, DOMAIN f = 0 .. m - 1
  PROVE  capacity(f) = m
<1>1. Cardinality(0 .. m - 1) = IF 0 > m - 1 THEN 0 ELSE (m - 1) - 0 + 1 BY FS_Interval
<1> QED BY <1>1 DEF capacity

LEMMA ReallocCarries ==
  ASSUME NEW f, NEW n \in Nat, NEW new \in Nat, NEW kept \in Nat, NEW used \in Nat, new <= n, used <= kept
  PROVE  Carries(Realloc(f, n, kept), new, f, used)
BY DEF Carries, Realloc

LEMMA DenseCarries ==
  ASSUME NEW f, NEW m \in Nat, DOMAIN f = 0 .. m - 1, NEW old \in Nat, old <= m, NEW new \in Nat, NEW force \in BOOLEAN
  PROVE  Carries(ResizeDense(f, old, new, force), new, f, old)
<1>1. capacity(f) = m BY CapacityIs
<1>2. Carries(Realloc(f, new, old), new, f, old) BY ReallocCarries
<1>3. new <= m => Carries(f, new, f, old) BY DEF Carries
<1>4. CASE (force /\ m # old) \/ new > m BY <1>1, <1>2, <1>4 DEF ResizeDense
<1>5. CASE ~((force /\ m # old) \/ new > m) BY <1>1, <1>3, <1>5 DEF ResizeDense
<1> QED BY <1>4, <1>5

LEMMA BlockedCarries ==
  ASSUME NEW f, NEW m \in Nat, DOMAIN f = 0 .. m - 1, NEW old \in Nat, old <= m, NEW new \in Nat
  PROVE  Carries(ResizeBlocked(f, old, new), new, f, old)
<1>1. capacity(f) = m BY CapacityIs
<1>2. new <= m => Carries(f, new, f, old) BY DEF Carries
<1>3. CASE new > old
  <2>1. Carries(Realloc(f, Multiple(new), m), new, f, old) BY MultipleCovers, ReallocCarries
  <2> QED BY <2>1, <1>1, <1>2, <1>3 DEF ResizeBlocked
<1>4. CASE new < old
  <2> PICK B \in Nat \ {0} : B = BlockSize BY DatasetAssumption
  <2> PICK q \in Nat : q = new \div B BY Euclid
  <2>1. new = q * B + (new % B) /\ new % B \in 0 .. B - 1 BY Euclid
  <2> PICK r \in 0 .. B - 1 : r = new % B BY <2>1
  <2>2. B * (q + 1) = q * B + B /\ q * B \in Nat OBVIOUS
  <2>3. B * (q + 1) \in Nat /\ new <= B * (q + 1) BY <2>1, <2>2
  <2> PICK c \in Nat : c = B * (q + 1) /\ new <= c BY <2>3
  <2> PICK n \in Nat : n = MinOf(m, c) /\ new <= n
    <3>1. CASE m <= c BY <3>1, <1>4 DEF MinOf
    <3>2. CASE ~(m <= c) BY <3>2, <1>4 DEF MinOf
    <3> QED BY <3>1, <3>2
  <2>4. Carries(Realloc(f, n, m), new, f, old) BY ReallocCarries
  <2>5. ResizeBlocked(f, old, new) = Realloc(f, n, m) BY <1>1, <1>4 DEF ResizeBlocked
  <2> QED BY <2>4, <2>5
<1>5. CASE new = old BY <1>2, <1>5 DEF ResizeBlocked
<1> QED BY <1>3, <1>4, <1>5

\* The k-th of a sequence that increases is no less than k.
LEMMA MovesDown ==
  ASSUME NEW n \in Nat, NEW f \in [0 .. n - 1 -> Nat], \A i, j \in 0 .. n - 1 : i < j => f[i] < f[j]
  PROVE  \A i \in 0 .. n - 1 : i <= f[i]
<1> SUFFICES ASSUME NEW k \in 0 .. n - 1, f[k] < k PROVE FALSE OBVIOUS
<1> DEFINE T == {i \in 0 .. n - 1 : f[i] < i}
<1>1. T \in SUBSET Nat /\ T # {} OBVIOUS
<1> HIDE DEF T
<1>2. PICK x \in T : \A y \in T : x <= y BY <1>1, LeastOf
<1>3. x \in 0 .. n - 1 /\ f[x] < x /\ f[x] \in Nat BY DEF T
<1>4. x - 1 \in 0 .. n - 1 BY <1>3
<1>5. x - 1 \notin T BY <1>2, <1>3
<1>6. f[x - 1] < f[x] /\ f[x - 1] \in Nat BY <1>3, <1>4
<1>7. ~(f[x - 1] < x - 1) BY <1>4, <1>5 DEF T
<1> QED BY <1>3, <1>6, <1>7

-----------------------------------------------------------------------------
LEMMA WhenIdle ==
  ASSUME Idle
  PROVE  \A l, i : Where(l, i) = i
BY DEF Where

LEMMA DataBegins == DataInit => DataInv
<1> SUFFICES ASSUME DataInit PROVE DataInv OBVIOUS
<1>1. Idle BY DEF DataInit, Idle
<1>2. PICK n \in 0 .. MaxData :
       /\ size = [l \in level |-> n]
       /\ slots = [l \in level |-> [i \in 0 .. (IF blocked THEN Multiple(n) ELSE n) - 1 |-> Unset]]
       /\ datum = [i \in 0 .. n - 1 |-> Unset]
  BY DEF DataInit
<1>3. n \in Nat BY DatasetAssumption
<1> PICK m \in Nat : n <= m /\ m = IF blocked THEN Multiple(n) ELSE n BY <1>3, MultipleCovers
<1>4. \A l \in level : size[l] = n /\ DOMAIN slots[l] = 0 .. m - 1 BY <1>2
<1>5. RoomInv BY <1>2, <1>3, <1>4 DEF RoomInv
<1>6. HeldInv BY <1>2 DEF HeldInv
<1> QED BY <1>1, <1>5, <1>6 DEF DataInv, MovingInv

\* New memory at every level carries what is in use.
LEMMA Carried ==
  ASSUME DataInv, Idle, UNCHANGED moving, NEW new \in Nat,
         DOMAIN slots' = level,
         \A l \in level : size'[l] = new /\ Carries(slots'[l], new, slots[l], size[l]),
         DOMAIN datum' = 0 .. new - 1,
         \A i \in 0 .. new - 1 : datum'[i] = IF i \in DOMAIN datum THEN datum[i] ELSE Unset
  PROVE  DataInv'
<1>1. Idle' BY DEF Idle
<1>2. RoomInv' BY DEF RoomInv, Carries
<1>3. HeldInv'
  <2> SUFFICES ASSUME NEW l \in level, NEW i \in 0 .. new - 1, datum'[i] # Unset PROVE slots'[l][Where(l, i)'] = datum'[i]
    BY DEF HeldInv
  <2>1. Where(l, i)' = i BY <1>1 DEF Where
  <2>2. i \in DOMAIN datum /\ datum'[i] = datum[i] OBVIOUS
  <2>3. slots[l][i] = datum[i] BY <2>2, WhenIdle DEF DataInv, HeldInv
  <2>4. i \in 0 .. size[l] - 1 /\ i < new BY <2>2 DEF DataInv, RoomInv
  <2>5. slots'[l][i] = slots[l][i] BY <2>4 DEF Carries
  <2> QED BY <2>1, <2>2, <2>3, <2>5
<1> QED BY <1>1, <1>2, <1>3 DEF DataInv, MovingInv

LEMMA ResizeStep ==
  ASSUME DataInv, NEW new \in 0 .. MaxData, Resize(new)
  PROVE  DataInv'
<1>1. Idle /\ UNCHANGED moving /\ new \in Nat BY DatasetAssumption DEF Resize
<1>2. slots' = [l \in level |-> IF blocked THEN ResizeBlocked(slots[l], size[l], new)
                                ELSE ResizeDense(slots[l], size[l], new, FALSE)]
  BY DEF Resize
<1>3. ASSUME NEW l \in level PROVE Carries(slots'[l], new, slots[l], size[l])
  <2>1. PICK m \in Nat : size[l] <= m /\ DOMAIN slots[l] = 0 .. m - 1 BY DEF DataInv, RoomInv
  <2>2. size[l] \in Nat BY DEF DataInv, RoomInv
  <2>3. Carries(ResizeBlocked(slots[l], size[l], new), new, slots[l], size[l]) BY <2>1, <2>2, <1>1, BlockedCarries
  <2>4. Carries(ResizeDense(slots[l], size[l], new, FALSE), new, slots[l], size[l]) BY <2>1, <2>2, <1>1, DenseCarries
  <2>5. slots'[l] = ResizeBlocked(slots[l], size[l], new) \/ slots'[l] = ResizeDense(slots[l], size[l], new, FALSE)
    BY <1>2
  <2> QED BY <2>3, <2>4, <2>5
<1>4. /\ DOMAIN slots' = level /\ \A l \in level : size'[l] = new
      /\ datum' = [i \in 0 .. new - 1 |-> IF i \in DOMAIN datum THEN datum[i] ELSE Unset]
  BY <1>2 DEF Resize
<1> QED BY <1>1, <1>3, <1>4, Carried

LEMMA ShrinkStep ==
  ASSUME DataInv, ShrinkToFit
  PROVE  DataInv'
<1>1. Idle /\ UNCHANGED <<size, moving, datum>> BY DEF ShrinkToFit
<1>2. slots' = IF blocked THEN slots ELSE [l \in level |-> ResizeDense(slots[l], size[l], size[l], TRUE)]
  BY DEF ShrinkToFit
<1>3. 1 \in level BY DatasetAssumption DEF level
<1> PICK n \in Nat : n = size[1] BY <1>3 DEF DataInv, RoomInv
<1>4. ASSUME NEW l \in level PROVE size[l] = n
  <2>1. size[l] \in Nat /\ 0 .. size[l] - 1 = 0 .. n - 1 BY <1>3 DEF DataInv, RoomInv
  <2>2. size[l] > n => n \in 0 .. size[l] - 1 BY <2>1
  <2>3. size[l] < n => size[l] \in 0 .. n - 1 BY <2>1
  <2> QED BY <2>1, <2>2, <2>3
<1>5. ASSUME NEW l \in level PROVE Carries(slots'[l], n, slots[l], size[l])
  <2>1. PICK m \in Nat : size[l] <= m /\ DOMAIN slots[l] = 0 .. m - 1 BY DEF DataInv, RoomInv
  <2>2. Carries(slots[l], n, slots[l], n) BY <2>1, <1>4 DEF Carries
  <2>3. Carries(ResizeDense(slots[l], n, n, TRUE), n, slots[l], n) BY <2>1, <1>4, DenseCarries
  <2>4. slots'[l] = slots[l] \/ slots'[l] = ResizeDense(slots[l], size[l], size[l], TRUE) BY <1>2
  <2> QED BY <2>2, <2>3, <2>4, <1>4
<1>6. DOMAIN slots' = level /\ \A l \in level : size'[l] = n BY <1>1, <1>2, <1>4 DEF DataInv, RoomInv
<1>7. DOMAIN datum' = 0 .. n - 1 /\ \A i \in 0 .. n - 1 : datum'[i] = IF i \in DOMAIN datum THEN datum[i] ELSE Unset
  BY <1>1, <1>3 DEF DataInv, RoomInv
<1> QED BY <1>1, <1>5, <1>6, <1>7, Carried

LEMMA SetDatumStep ==
  ASSUME DataInv, NEW k \in 0 .. MaxData - 1, NEW v \in Vectors, SetDatum(k, v)
  PROVE  DataInv'
<1>1. /\ Idle /\ k \in DOMAIN datum /\ UNCHANGED <<size, moving>>
      /\ slots' = [l \in level |-> [slots[l] EXCEPT ![k] = v]]
      /\ datum' = [datum EXCEPT ![k] = v]
  BY DEF SetDatum
<1>2. Idle' BY <1>1 DEF Idle
<1>3. /\ DOMAIN slots' = level /\ \A l \in level : DOMAIN slots'[l] = DOMAIN slots[l]
      /\ DOMAIN datum' = DOMAIN datum
  BY <1>1
<1>4. RoomInv' BY <1>1, <1>3 DEF DataInv, RoomInv
<1>5. HeldInv'
  <2> SUFFICES ASSUME NEW l \in level, NEW i \in DOMAIN datum, datum'[i] # Unset PROVE slots'[l][i] = datum'[i]
    BY <1>2, <1>3 DEF HeldInv, Where
  <2>1. PICK m \in Nat : size[l] <= m /\ DOMAIN slots[l] = 0 .. m - 1 BY DEF DataInv, RoomInv
  <2>2. i \in DOMAIN slots[l] BY <2>1 DEF DataInv, RoomInv
  <2>3. CASE i = k BY <2>2, <2>3, <1>1
  <2>4. CASE i # k
    <3>1. datum'[i] = datum[i] /\ slots'[l][i] = slots[l][i] BY <2>2, <2>4, <1>1
    <3> QED BY <3>1, <1>1, WhenIdle DEF DataInv, HeldInv
  <2> QED BY <2>3, <2>4
<1> QED BY <1>2, <1>4, <1>5 DEF DataInv, MovingInv

-----------------------------------------------------------------------------
LEMMA AreMoving ==
  ASSUME NEW L, NEW start, NEW f, moving = Moving(L, start, f)
  PROVE  /\ ~Idle /\ moving.level = L /\ moving.start = start /\ moving.new_to_old = f
         /\ \A l, i : Where(l, i) = IF i \in DOMAIN f /\ (L < l \/ (L = l /\ start <= i)) THEN f[i] ELSE i
<1>1. moving.level = L /\ moving.start = start /\ moving.new_to_old = f BY DEF Moving
<1>2. ~Idle BY DEF Idle, Moving
<1> QED BY <1>1, <1>2 DEF Where

LEMMA CompactStep ==
  ASSUME DataInv, NEW n \in 1 .. MaxData, NEW f \in Kept(n), Compact(f)
  PROVE  DataInv'
<1>1. /\ Idle /\ UNCHANGED <<slots, size>> /\ moving' = Moving(1, 0, f)
      /\ datum' = [i \in DOMAIN datum |-> IF i \in DOMAIN f THEN datum[f[i]] ELSE datum[i]]
  BY DEF Compact, Moving
<1>2. f \in [0 .. n - 1 -> DOMAIN datum] /\ DOMAIN datum' = DOMAIN datum BY <1>1 DEF Kept
<1>3. MovingInv'
  <2>1. 1 \in level BY DatasetAssumption DEF level
  <2>2. f \in Kept(n)' BY <1>1 DEF Kept
  <2> QED BY <2>1, <2>2, <1>1 DEF MovingInv
<1>4. RoomInv' BY <1>1 DEF DataInv, RoomInv
<1>5. HeldInv'
  <2> SUFFICES ASSUME NEW l \in level, NEW i \in DOMAIN datum, datum'[i] # Unset PROVE slots[l][Where(l, i)'] = datum'[i]
    BY <1>1, <1>2 DEF HeldInv
  <2>1. l \in Nat \ {0} /\ i \in Nat BY DEF level, DataInv, RoomInv
  <2>2. Where(l, i)' = IF i \in DOMAIN f /\ (1 < l \/ (1 = l /\ 0 <= i)) THEN f[i] ELSE i
    <3>1. moving' # <<>> /\ moving'.level = 1 /\ moving'.start = 0 /\ moving'.new_to_old = f BY <1>1 DEF Moving
    <3> QED BY <3>1 DEF Where, Idle
  <2>3. Where(l, i)' \in DOMAIN datum /\ datum'[i] = datum[Where(l, i)'] BY <2>1, <2>2, <1>1, <1>2
  <2> QED BY <2>3, <1>1, WhenIdle DEF DataInv, HeldInv
<1> QED BY <1>3, <1>4, <1>5 DEF DataInv

LEMMA MoveBatchStep ==
  ASSUME DataInv, MoveBatch
  PROVE  DataInv'
<1>1. ~Idle /\ UNCHANGED <<size, datum>> BY DEF MoveBatch
<1> PICK L \in level, start \in Nat, n \in Nat : \E f \in Kept(n) : moving = Moving(L, start, f)
  BY <1>1 DEF DataInv, MovingInv
<1> PICK f \in Kept(n) : moving = Moving(L, start, f) OBVIOUS
<1>2. f \in [0 .. n - 1 -> DOMAIN datum] /\ DOMAIN f = 0 .. n - 1 /\ \A i, j \in 0 .. n - 1 : i < j => f[i] < f[j]
  BY DEF Kept
<1>3. DOMAIN datum \subseteq Nat BY DEF DataInv, RoomInv
<1>4. \A i \in 0 .. n - 1 : i <= f[i] BY <1>2, <1>3, MovesDown
<1>5. Cardinality(DOMAIN f) = n
  <2>1. Cardinality(0 .. n - 1) = IF 0 > n - 1 THEN 0 ELSE (n - 1) - 0 + 1 BY FS_Interval
  <2> QED BY <2>1, <1>2
<1>6. moving.level = L /\ moving.start = start /\ moving.new_to_old = f BY AreMoving
<1> PICK many \in Nat : many = MinOf(BufferSize, size[L]) BY DatasetAssumption DEF DataInv, RoomInv, MinOf
<1> PICK stop \in Nat : stop = MinOf(start + many, n) /\ stop <= n BY DEF MinOf
<1>7. /\ slots' = [slots EXCEPT ![L] = [i \in DOMAIN @ |-> IF i \in start .. stop - 1 THEN @[f[i]] ELSE @[i]]]
      /\ moving' = IF stop < n THEN [moving EXCEPT !.start = stop]
                   ELSE IF L < Levels THEN [moving EXCEPT !.level = @ + 1, !.start = 0] ELSE <<>>
  BY <1>5, <1>6 DEF MoveBatch
<1>8. /\ DOMAIN slots' = level /\ \A l \in level : DOMAIN slots'[l] = DOMAIN slots[l]
      /\ \A l \in level : l # L => slots'[l] = slots[l]
      /\ \A i \in DOMAIN slots[L] : slots'[L][i] = IF i \in start .. stop - 1 THEN slots[L][f[i]] ELSE slots[L][i]
  BY <1>7 DEF DataInv, RoomInv
<1>9. RoomInv' BY <1>1, <1>8 DEF DataInv, RoomInv
<1>10. \/ stop < n /\ moving' = Moving(L, stop, f)
       \/ stop = n /\ L < Levels /\ moving' = Moving(L + 1, 0, f)
       \/ stop = n /\ L = Levels /\ moving' = <<>>
  <2>1. CASE stop < n BY <2>1, <1>7 DEF Moving
  <2>2. CASE stop = n /\ L < Levels BY <2>2, <1>7 DEF Moving
  <2>3. CASE stop = n /\ ~(L < Levels)
    <3>1. L = Levels BY <2>3, DatasetAssumption DEF level
    <3> QED BY <3>1, <2>3, <1>7
  <2> QED BY <2>1, <2>2, <2>3
<1>11. MovingInv'
  <2>1. f \in Kept(n)' BY <1>1 DEF Kept
  <2>2. CASE moving' = <<>> BY <2>2 DEF MovingInv, Idle
  <2>3. CASE stop < n /\ moving' = Moving(L, stop, f) BY <2>1, <2>3 DEF MovingInv
  <2>4. CASE L < Levels /\ moving' = Moving(L + 1, 0, f)
    <3>1. L + 1 \in level /\ 0 \in Nat BY <2>4, DatasetAssumption DEF level
    <3> QED BY <2>1, <2>4, <3>1 DEF MovingInv
  <2> QED BY <2>2, <2>3, <2>4, <1>10
\* What is still to fetch, afterwards.
<1>12. ASSUME NEW l \in level, NEW i \in DOMAIN datum
       PROVE  Where(l, i)' = IF i \in DOMAIN f /\ (L < l \/ (L = l /\ stop <= i)) THEN f[i] ELSE i
  <2>1. l \in 1 .. Levels /\ L \in 1 .. Levels /\ Levels \in Nat BY DatasetAssumption DEF level
  <2>2. i \in Nat BY <1>3
  <2>3. CASE stop < n /\ moving' = Moving(L, stop, f)
    <3>1. moving' # <<>> /\ moving'.level = L /\ moving'.start = stop /\ moving'.new_to_old = f BY <2>3 DEF Moving
    <3> QED BY <3>1 DEF Where, Idle
  <2>4. CASE stop = n /\ L < Levels /\ moving' = Moving(L + 1, 0, f)
    <3>1. moving' # <<>> /\ moving'.level = L + 1 /\ moving'.start = 0 /\ moving'.new_to_old = f BY <2>4 DEF Moving
    <3>2. Where(l, i)' = IF i \in DOMAIN f /\ (L + 1 < l \/ (L + 1 = l /\ 0 <= i)) THEN f[i] ELSE i
      BY <3>1 DEF Where, Idle
    <3>3. (L + 1 < l \/ (L + 1 = l /\ 0 <= i)) <=> L < l BY <2>1, <2>2
    <3>4. i \in DOMAIN f => ~(stop <= i) BY <2>4, <1>2
    <3> QED BY <3>2, <3>3, <3>4
  <2>5. CASE stop = n /\ L = Levels /\ moving' = <<>>
    <3>1. Where(l, i)' = i BY <2>5 DEF Where, Idle
    <3>2. ~(L < l) BY <2>1, <2>5
    <3>3. i \in DOMAIN f => ~(stop <= i) BY <2>5, <1>2
    <3> QED BY <3>1, <3>2, <3>3
  <2> QED BY <2>3, <2>4, <2>5, <1>10
<1>13. HeldInv'
  <2> SUFFICES ASSUME NEW l \in level, NEW i \in DOMAIN datum, datum[i] # Unset PROVE slots'[l][Where(l, i)'] = datum[i]
    BY <1>1 DEF HeldInv
  <2>1. slots[l][Where(l, i)] = datum[i] BY DEF DataInv, HeldInv
  <2>2. Where(l, i) = IF i \in DOMAIN f /\ (L < l \/ (L = l /\ start <= i)) THEN f[i] ELSE i BY AreMoving
  <2>3. CASE l # L BY <2>1, <2>2, <2>3, <1>8, <1>12
  <2>4. CASE l = L
    <3>1. /\ slots[L][IF i \in DOMAIN f /\ start <= i THEN f[i] ELSE i] = datum[i]
          /\ Where(l, i)' = IF i \in DOMAIN f /\ stop <= i THEN f[i] ELSE i
      BY <2>1, <2>2, <2>4, <1>12 DEF level
    <3>2. DOMAIN datum \subseteq DOMAIN slots[L]
      <4>1. PICK m \in Nat : size[L] <= m /\ DOMAIN slots[L] = 0 .. m - 1 BY DEF DataInv, RoomInv
      <4> QED BY <4>1 DEF DataInv, RoomInv
    <3>3. i \in Nat BY <1>3
    <3>4. CASE i \in start .. stop - 1
      <4>1. i \in DOMAIN f /\ start <= i /\ ~(stop <= i) BY <3>3, <3>4, <1>2
      <4>2. slots'[L][i] = slots[L][f[i]] BY <3>2, <3>4, <1>8
      <4> QED BY <4>1, <4>2, <3>1, <2>4
    <3>5. CASE i \notin start .. stop - 1 /\ i \in DOMAIN f /\ stop <= i /\ start <= i
      <4>1. f[i] \in DOMAIN datum /\ i <= f[i] /\ f[i] \in Nat BY <3>5, <1>2, <1>3, <1>4
      <4>2. f[i] \notin start .. stop - 1 BY <4>1, <3>3, <3>5
      <4>3. slots'[L][f[i]] = slots[L][f[i]] BY <4>1, <4>2, <3>2, <1>8
      <4> QED BY <4>3, <3>1, <3>5, <2>4
    <3>6. CASE i \notin start .. stop - 1 /\ ~(i \in DOMAIN f /\ stop <= i /\ start <= i)
      <4>1. slots'[L][i] = slots[L][i] BY <3>2, <3>6, <1>8
      <4>2. start <= stop \/ stop = n BY DEF MinOf
      <4> QED BY <4>1, <4>2, <3>1, <3>3, <3>6, <2>4, <1>2
    <3> QED BY <3>4, <3>5, <3>6
  <2> QED BY <2>3, <2>4
<1> QED BY <1>9, <1>11, <1>13 DEF DataInv

\* Growing, shrinking, trading memory and moving a batch keep the vectors held.
THEOREM DataSteps == DataInv /\ [DataNext]_data_vars => DataInv'
<1> SUFFICES ASSUME DataInv, [DataNext]_data_vars PROVE DataInv' OBVIOUS
<1>1. CASE UNCHANGED data_vars
  <2>1. UNCHANGED <<slots, size, moving, datum>> BY <1>1 DEF data_vars
  <2>2. MovingInv' BY <2>1 DEF DataInv, MovingInv, Idle, Kept
  <2>3. RoomInv' BY <2>1 DEF DataInv, RoomInv
  <2>4. HeldInv' BY <2>1 DEF DataInv, HeldInv, Where, Idle
  <2> QED BY <2>2, <2>3, <2>4 DEF DataInv
<1> QED BY <1>1, ResizeStep, ShrinkStep, SetDatumStep, CompactStep, MoveBatchStep DEF DataNext

LEMMA HeldSurvive == DataInv => DataSurvive
<1> SUFFICES ASSUME DataInv, Idle, NEW l \in level
             PROVE  /\ DOMAIN datum = 0 .. size[l] - 1 /\ DOMAIN datum \subseteq DOMAIN slots[l]
                    /\ \A i \in DOMAIN datum : datum[i] # Unset => slots[l][i] = datum[i]
  BY DEF DataSurvive
<1>1. PICK m \in Nat : size[l] <= m /\ DOMAIN slots[l] = 0 .. m - 1 BY DEF DataInv, RoomInv
<1>2. DOMAIN datum = 0 .. size[l] - 1 /\ DOMAIN datum \subseteq DOMAIN slots[l] BY <1>1 DEF DataInv, RoomInv
<1> QED BY <1>2, WhenIdle DEF DataInv, HeldInv

\* However many vectors, levels and blocks there are and however short the batches of a
\* compaction, every index in use has, at every level, what was stored for it last.
THEOREM VectorsSurvive == DataSpec => []DataSurvive
<1> QED BY DataBegins, DataSteps, HeldSurvive, PTL DEF DataSpec

-----------------------------------------------------------------------------
(***************************************************************************)
(* Arrays and the allocator.                                               *)
(***************************************************************************)

Operation == [step : {"map", "insert", "erase", "unmap"}, op : {"construct", "copy", "move", "destroy"},
              to : Arrays, from : Arrays, dims : Nat, base : Nat \cup {NoBlock}, pages : Nat]

ArrayType == [pointer : Nat \cup {NoBlock}, dims : Nat \cup {-1}]

MemoryTypes ==
  /\ arrays \in [Arrays -> ArrayType]
  /\ doing \in [Clients -> Operation \cup {Idling}]
  /\ DOMAIN expected = Arrays /\ ~terminated
  /\ \A a \in Arrays : Owns(a) => arrays[a].dims \in Nat
  /\ \A b \in DOMAIN sizes : b \in Nat /\ sizes[b] \in Nat \ {0}

\* What the operation that is `now` counts on.
Relies(now) ==
  /\ now.step \in {"erase", "unmap"} => Owns(now.to) /\ now.op # "construct"
  /\ now.step \in {"map", "insert"} => ~Owns(now.to) /\ now.op \in {"construct", "copy"}
  /\ now.op = "move" => Lives(now.from)
  /\ now.op = "copy" => Owns(now.from) /\ now.from # now.to /\ now.dims = arrays[now.from].dims
  /\ now.step = "unmap" => now.base = arrays[now.to].pointer
  /\ now.step \in {"insert", "unmap"} => now.base \in Nat /\ now.pages \in Nat \ {0}
  /\ now.step = "insert" => now.dims <= now.pages

Busy(t) == doing[t] # Idling

OperationsInv ==
  /\ \A t \in Clients : Busy(t) => Relies(doing[t])
  /\ \A t, u \in Clients : Busy(t) /\ Busy(u) /\ t # u =>
       {doing[t].to, doing[t].from} \cap {doing[u].to, doing[u].from} = {}

\* An array is given up by the thread that unmaps its pages.
Leaving(a) == \E t \in Clients : doing[t].step = "unmap" /\ doing[t].to = a

IsOwner(a) == Owns(a) /\ ~Leaving(a)

Room == [a \in Arrays |-> IF IsOwner(a) THEN Block(arrays[a].pointer, sizes[arrays[a].pointer]) ELSE {}]

Flight == [t \in Clients |-> IF doing[t].step \in {"insert", "unmap"} THEN Block(doing[t].base, doing[t].pages) ELSE {}]

\* Each of the pages M belongs to one array or thread.
Divided(M, A, C) ==
  /\ \A p : p \in M <=> (\E a \in Arrays : p \in A[a]) \/ (\E t \in Clients : p \in C[t])
  /\ \A a, b \in Arrays : a # b => A[a] \cap A[b] = {}
  /\ \A a \in Arrays, t \in Clients : A[a] \cap C[t] = {}
  /\ \A t, u \in Clients : t # u => C[t] \cap C[u] = {}

TableInv ==
  /\ \A a \in Arrays : IsOwner(a) => arrays[a].pointer \in DOMAIN sizes
  /\ \A b \in DOMAIN sizes : \E a \in Arrays : IsOwner(a) /\ arrays[a].pointer = b

ContentInv ==
  \A a \in Arrays : IsOwner(a) =>
    /\ arrays[a].dims <= sizes[arrays[a].pointer]
    /\ \A p \in Block(arrays[a].pointer, arrays[a].dims) : memory[p] = expected[a]

\* Nobody has set what has just been mapped.
FreshInv == \A t \in Clients : doing[t].step = "insert" => \A p \in Flight[t] : memory[p] = Unwritten

AllocInv ==
  /\ MemoryTypes /\ OperationsInv /\ TableInv /\ ContentInv /\ FreshInv
  /\ Divided(DOMAIN memory, Room, Flight)

-----------------------------------------------------------------------------
\* Pages that change hands stay divided.
LEMMA FromThread ==
  ASSUME NEW M, NEW A \in [Arrays -> SUBSET Int], NEW C \in [Clients -> SUBSET Int], Divided(M, A, C),
         NEW a \in Arrays, NEW t \in Clients, A[a] = {}
  PROVE  Divided(M, [A EXCEPT ![a] = C[t]], [C EXCEPT ![t] = {}])
BY DEF Divided

LEMMA ToThread ==
  ASSUME NEW M, NEW A \in [Arrays -> SUBSET Int], NEW C \in [Clients -> SUBSET Int], Divided(M, A, C),
         NEW a \in Arrays, NEW t \in Clients, C[t] = {}
  PROVE  Divided(M, [A EXCEPT ![a] = {}], [C EXCEPT ![t] = A[a]])
BY DEF Divided

LEMMA ToArray ==
  ASSUME NEW M, NEW A \in [Arrays -> SUBSET Int], NEW C \in [Clients -> SUBSET Int], Divided(M, A, C),
         NEW a \in Arrays, NEW s \in Arrays, A[a] = {}, a # s
  PROVE  Divided(M, [A EXCEPT ![a] = A[s], ![s] = {}], C)
BY DEF Divided

LEMMA Exchanged ==
  ASSUME NEW M, NEW A \in [Arrays -> SUBSET Int], NEW C \in [Clients -> SUBSET Int], Divided(M, A, C),
         NEW a \in Arrays, NEW s \in Arrays
  PROVE  Divided(M, [A EXCEPT ![a] = A[s], ![s] = A[a]], C)
BY DEF Divided

LEMMA Returned ==
  ASSUME NEW M, NEW A \in [Arrays -> SUBSET Int], NEW C \in [Clients -> SUBSET Int], Divided(M, A, C),
         NEW t \in Clients
  PROVE  Divided(M \ C[t], A, [C EXCEPT ![t] = {}])
BY DEF Divided

LEMMA Granted ==
  ASSUME NEW M, NEW A \in [Arrays -> SUBSET Int], NEW C \in [Clients -> SUBSET Int], Divided(M, A, C),
         NEW t \in Clients, C[t] = {}, NEW B, B \cap M = {}
  PROVE  Divided(M \cup B, A, [C EXCEPT ![t] = B])
BY DEF Divided

LEMMA BlockIsSet ==
  ASSUME NEW b \in Int, NEW n \in Int
  PROVE  Block(b, n) \in SUBSET Int /\ (n > 0 => b \in Block(b, n))
BY DEF Block

LEMMA Spread ==
  ASSUME AllocInv
  PROVE  /\ Room \in [Arrays -> SUBSET Int] /\ Flight \in [Clients -> SUBSET Int]
         /\ \A a \in Arrays : IsOwner(a) => arrays[a].pointer \in Nat /\ arrays[a].pointer \in DOMAIN sizes
                                            /\ sizes[arrays[a].pointer] \in Nat \ {0} /\ arrays[a].dims \in Nat
<1>1. \A a \in Arrays : IsOwner(a) => arrays[a].pointer \in Nat /\ arrays[a].pointer \in DOMAIN sizes
                                      /\ sizes[arrays[a].pointer] \in Nat \ {0} /\ arrays[a].dims \in Nat
  BY DEF AllocInv, MemoryTypes, TableInv, IsOwner
<1>2. \A a \in Arrays : IsOwner(a) => Block(arrays[a].pointer, sizes[arrays[a].pointer]) \in SUBSET Int
  BY <1>1, BlockIsSet
<1>3. \A t \in Clients : doing[t].step \in {"insert", "unmap"} => Block(doing[t].base, doing[t].pages) \in SUBSET Int
  <2> SUFFICES ASSUME NEW t \in Clients, doing[t].step \in {"insert", "unmap"}
               PROVE  Block(doing[t].base, doing[t].pages) \in SUBSET Int
    OBVIOUS
  <2>1. Busy(t) BY DEF Busy, Idling
  <2>2. doing[t].base \in Nat /\ doing[t].pages \in Nat BY <2>1 DEF AllocInv, OperationsInv, Relies
  <2> QED BY <2>2, BlockIsSet
<1> QED BY <1>1, <1>2, <1>3 DEF Room, Flight

LEMMA FreshStays ==
  ASSUME AllocInv,
         \A u \in Clients : doing'[u].step = "insert" =>
           doing[u].step = "insert" /\ Flight'[u] = Flight[u] /\ \A p \in Flight[u] : memory'[p] = memory[p]
  PROVE  FreshInv'
BY DEF AllocInv, FreshInv

LEMMA UnusedStays ==
  ASSUME NEW a \in Arrays, Unused(a)
  PROVE  ~Leaving(a) /\ \A t \in Clients : Busy(t) => a \notin {doing[t].to, doing[t].from}
BY DEF Unused, Leaving, Busy, Idling

\* The arrays of an operation are left alone by the others.
LEMMA UsedAlone ==
  ASSUME AllocInv, NEW t \in Clients, Busy(t)
  PROVE  /\ doing[t] \in Operation /\ doing[t].to \in Arrays /\ doing[t].from \in Arrays /\ Relies(doing[t])
         /\ \A u \in Clients : Busy(u) /\ u # t => {doing[t].to, doing[t].from} \cap {doing[u].to, doing[u].from} = {}
         /\ doing[t].step # "unmap" => ~Leaving(doing[t].to)
         /\ doing[t].step # "unmap" \/ doing[t].from # doing[t].to => ~Leaving(doing[t].from)
<1>1. doing[t] \in Operation BY DEF AllocInv, MemoryTypes, Busy
<1>2. \A u \in Clients : Busy(u) /\ u # t => {doing[t].to, doing[t].from} \cap {doing[u].to, doing[u].from} = {}
  BY DEF AllocInv, OperationsInv
<1>3. \A u \in Clients : doing[u].step = "unmap" => Busy(u) BY DEF Busy, Idling
<1>4. Relies(doing[t]) BY DEF AllocInv, OperationsInv
<1>5. doing[t].step # "unmap" => ~Leaving(doing[t].to) BY <1>2, <1>3 DEF Leaving
<1>6. doing[t].step # "unmap" \/ doing[t].from # doing[t].to => ~Leaving(doing[t].from) BY <1>2, <1>3 DEF Leaving
<1> QED BY <1>1, <1>2, <1>4, <1>5, <1>6 DEF Operation

-----------------------------------------------------------------------------
\* The beginning of an operation.
LEMMA Starting ==
  ASSUME AllocInv, NEW a \in Arrays, NEW s \in Arrays, Unused(a), Unused(s),
         NEW op \in {"construct", "copy", "move", "destroy"}, NEW step \in {"map", "erase"}, NEW dims \in Nat,
         Starts(a, op, s, dims, step),
         UNCHANGED <<memory, sizes, terminated, expected>>, arrays' \in [Arrays -> ArrayType],
         \A b \in Arrays : b = a \/ Owns(b) => (Owns(b)' <=> Owns(b)),
         \A b \in Arrays : b # a \/ Owns(b) => arrays'[b] = arrays[b],
         op = "construct" => step = "map",
         op \in {"move", "destroy"} => step = "erase",
         step = "map" => ~Owns(a), step = "erase" => Owns(a),
         op = "move" => Lives(s), op = "copy" => Owns(s) /\ a # s /\ dims = arrays[s].dims
  PROVE  AllocInv'
<1> PICK t \in Clients :
      /\ doing[t] = Idling
      /\ doing' = [doing EXCEPT ![t] = [step |-> step, op |-> op, to |-> a, from |-> s, dims |-> dims,
                                        base |-> NoBlock, pages |-> 0]]
  BY DEF Starts
<1> DEFINE now == [step |-> step, op |-> op, to |-> a, from |-> s, dims |-> dims, base |-> NoBlock, pages |-> 0]
<1>1. now \in Operation BY DEF Operation
<1>2. now.step = step /\ now.op = op /\ now.to = a /\ now.from = s /\ now.dims = dims OBVIOUS
<1> HIDE DEF now
<1>3. doing'[t] = now /\ \A u \in Clients : u # t => doing'[u] = doing[u]
  BY DEF AllocInv, MemoryTypes, now
<1>4. doing' \in [Clients -> Operation \cup {Idling}] BY <1>1, <1>3 DEF AllocInv, MemoryTypes, now
<1>5. \A b \in Arrays : arrays[b] \in ArrayType /\ arrays'[b] \in ArrayType BY DEF AllocInv, MemoryTypes
<1>6. \A b \in Arrays : Owns(b)' <=> Owns(b)
  <2> SUFFICES ASSUME NEW b \in Arrays PROVE Owns(b)' <=> Owns(b) OBVIOUS
  <2>1. CASE b = a \/ Owns(b) BY <2>1
  <2>2. CASE b # a BY <2>2 DEF Owns, Lives
  <2> QED BY <2>1, <2>2
<1>7. MemoryTypes' BY <1>4, <1>6 DEF AllocInv, MemoryTypes
<1>8. Relies(now)'
  <2>1. Owns(a)' <=> Owns(a) BY <1>6
  <2>2. op = "move" => Lives(s)'
    <3>1. CASE s # a BY <3>1 DEF Lives
    <3>2. CASE s = a BY <3>2, <1>5 DEF Lives, Owns
    <3> QED BY <3>1, <3>2
  <2>3. op = "copy" => Owns(s)' /\ arrays'[s].dims = arrays[s].dims BY <1>6
  <2> QED BY <2>1, <2>2, <2>3, <1>2 DEF Relies
<1>9. OperationsInv'
  <2>1. ASSUME NEW u \in Clients, Busy(u)', u # t
        PROVE  Relies(doing[u])' /\ doing'[u] = doing[u] /\ Busy(u)
               /\ {a, s} \cap {doing[u].to, doing[u].from} = {}
    <3>1. doing'[u] = doing[u] /\ Busy(u) BY <2>1, <1>3 DEF Busy
    <3>2. a \notin {doing[u].to, doing[u].from} /\ s \notin {doing[u].to, doing[u].from} BY <3>1, UnusedStays
    <3>3. doing[u] \in Operation /\ doing[u].to \in Arrays /\ doing[u].from \in Arrays /\ Relies(doing[u])
      BY <3>1, UsedAlone
    <3>4. arrays'[doing[u].to] = arrays[doing[u].to] /\ arrays'[doing[u].from] = arrays[doing[u].from] BY <3>2, <3>3
    <3>5. Relies(doing[u])' BY <3>1, <3>3, <3>4 DEF Relies, Owns, Lives
    <3> QED BY <3>1, <3>2, <3>5
  <2>2. \A u \in Clients : Busy(u)' => Relies(doing[u])' BY <2>1, <1>3, <1>8
  <2>3. ASSUME NEW u \in Clients, NEW v \in Clients, Busy(u)', Busy(v)', u # v
        PROVE  {doing'[u].to, doing'[u].from} \cap {doing'[v].to, doing'[v].from} = {}
    <3>1. CASE u = t BY <3>1, <2>3, <2>1, <1>2, <1>3
    <3>2. CASE v = t BY <3>2, <2>3, <2>1, <1>2, <1>3
    <3>3. CASE u # t /\ v # t BY <3>3, <2>3, <2>1 DEF AllocInv, OperationsInv
    <3> QED BY <3>1, <3>2, <3>3
  <2> QED BY <2>2, <2>3 DEF OperationsInv
<1>10. \A b \in Arrays : Leaving(b)' <=> Leaving(b)
  <2>1. doing[t].step # "unmap" /\ doing'[t].step # "unmap" BY <1>2, <1>3 DEF Idling
  <2> QED BY <2>1, <1>3 DEF Leaving
<1>11. \A b \in Arrays : (IsOwner(b)' <=> IsOwner(b)) /\ (IsOwner(b) => arrays'[b] = arrays[b])
  BY <1>6, <1>10 DEF IsOwner
<1>12. Room' = Room BY <1>11 DEF Room
<1>13. Flight' = Flight
  <2>1. doing[t].step \notin {"insert", "unmap"} /\ doing'[t].step \notin {"insert", "unmap"} BY <1>2, <1>3 DEF Idling
  <2> QED BY <2>1, <1>3 DEF Flight
<1>14. TableInv' BY <1>11 DEF AllocInv, TableInv
<1>15. ContentInv' BY <1>11 DEF AllocInv, ContentInv
<1>16. FreshInv' BY <1>2, <1>3, <1>13, FreshStays
<1> QED BY <1>7, <1>9, <1>12, <1>13, <1>14, <1>15, <1>16 DEF AllocInv

LEMMA ConstructStep ==
  ASSUME AllocInv, NEW a \in Arrays, NEW n \in 0 .. MaxDim, Construct(a, n)
  PROVE  AllocInv'
<1>1. Unused(a) /\ ~Lives(a) /\ Starts(a, "construct", a, n, "map") /\ UNCHANGED <<memory, sizes, terminated, expected, arrays>>
  BY DEF Construct, Ready
<1>2. ~Owns(a) BY <1>1 DEF Owns
<1>3. n \in Nat BY AllocationAssumption
<1>4. \A b \in Arrays : arrays'[b] = arrays[b] /\ (Owns(b)' <=> Owns(b)) BY <1>1 DEF Owns, Lives
<1>5. arrays' \in [Arrays -> ArrayType] BY <1>1 DEF AllocInv, MemoryTypes
<1> QED BY <1>1, <1>2, <1>3, <1>4, <1>5, Starting

LEMMA CopyConstructStep ==
  ASSUME AllocInv, NEW a \in Arrays, NEW s \in Arrays, CopyConstruct(a, s)
  PROVE  AllocInv'
<1>1. /\ Unused(a) /\ Unused(s) /\ ~Lives(a) /\ Owns(s) /\ Starts(a, "copy", s, arrays[s].dims, "map")
      /\ UNCHANGED <<memory, sizes, terminated, expected, arrays>>
  BY DEF CopyConstruct, Ready
<1>2. ~Owns(a) /\ a # s BY <1>1 DEF Owns
<1>3. arrays[s].dims \in Nat BY <1>1 DEF AllocInv, MemoryTypes
<1>4. \A b \in Arrays : arrays'[b] = arrays[b] /\ (Owns(b)' <=> Owns(b)) BY <1>1 DEF Owns, Lives
<1>5. arrays' \in [Arrays -> ArrayType] BY <1>1 DEF AllocInv, MemoryTypes
<1> QED BY <1>1, <1>2, <1>3, <1>4, <1>5, Starting

LEMMA CopyAssignStep ==
  ASSUME AllocInv, NEW a \in Arrays, NEW s \in Arrays, CopyAssign(a, s)
  PROVE  AllocInv'
<1>1. /\ Unused(a) /\ Unused(s) /\ Lives(a) /\ Owns(s) /\ a # s
      /\ Starts(a, "copy", s, arrays[s].dims, IF Owns(a) THEN "erase" ELSE "map")
      /\ arrays' = IF Owns(a) THEN arrays ELSE [arrays EXCEPT ![a].dims = arrays[s].dims]
      /\ UNCHANGED <<memory, sizes, terminated, expected>>
  BY DEF CopyAssign, Ready
<1>2. arrays[s].dims \in Nat /\ arrays \in [Arrays -> ArrayType] BY <1>1 DEF AllocInv, MemoryTypes
<1>3. CASE Owns(a)
  <2>1. \A b \in Arrays : arrays'[b] = arrays[b] /\ (Owns(b)' <=> Owns(b)) BY <1>1, <1>3 DEF Owns, Lives
  <2>2. arrays' \in [Arrays -> ArrayType] BY <1>1, <1>2, <1>3
  <2> QED BY <1>1, <1>2, <1>3, <2>1, <2>2, Starting
<1>4. CASE ~Owns(a)
  <2>1. arrays' = [arrays EXCEPT ![a].dims = arrays[s].dims] BY <1>1, <1>4
  <2>2. /\ arrays' \in [Arrays -> ArrayType] /\ arrays'[a].pointer = arrays[a].pointer
        /\ \A b \in Arrays \ {a} : arrays'[b] = arrays[b]
    BY <2>1, <1>2 DEF ArrayType
  <2>3. arrays[a].pointer = NoBlock BY <1>1, <1>4 DEF Owns
  <2>4. \A b \in Arrays : Owns(b)' <=> Owns(b)
    <3>1. ~Owns(a)' BY <2>2, <2>3 DEF Owns
    <3> QED BY <3>1, <2>2, <1>4 DEF Owns, Lives
  <2>5. \A b \in Arrays : b # a \/ Owns(b) => arrays'[b] = arrays[b] BY <2>2, <1>4
  <2>6. Starts(a, "copy", s, arrays[s].dims, "map") BY <1>1, <1>4
  <2> QED BY <1>1, <1>2, <1>4, <2>2, <2>4, <2>5, <2>6, Starting
<1> QED BY <1>3, <1>4

\* A move and a destruction of an array that owns memory begin with giving it up.
LEMMA GiveUpStep ==
  ASSUME AllocInv, NEW a \in Arrays, NEW s \in Arrays, NEW op \in {"move", "destroy"},
         Ready(a, s), Owns(a), Lives(s), Starts(a, op, s, 0, "erase"),
         UNCHANGED <<memory, sizes, mutex, arrays, terminated, expected>>
  PROVE  AllocInv'
<1>1. \A b \in Arrays : arrays'[b] = arrays[b] /\ (Owns(b)' <=> Owns(b)) BY DEF Owns, Lives
<1>2. arrays' \in [Arrays -> ArrayType] BY DEF AllocInv, MemoryTypes
<1>3. Unused(a) /\ Unused(s) BY DEF Ready
<1> QED BY <1>1, <1>2, <1>3, Starting

-----------------------------------------------------------------------------
\* What holds when two arrays that nobody uses share what they had between them.
LEMMA Rearranging ==
  ASSUME AllocInv, NEW a \in Arrays, NEW s \in Arrays, Unused(a), Unused(s), NoSystemCall,
         arrays' \in [Arrays -> ArrayType], DOMAIN expected' = Arrays,
         \A b \in Arrays \ {a, s} : arrays'[b] = arrays[b] /\ expected'[b] = expected[b],
         \A b \in {a, s} : Owns(b)' => \E c \in {a, s} : Owns(c) /\ arrays'[b] = arrays[c] /\ expected'[b] = expected[c],
         \A c \in {a, s} : Owns(c) => \E b \in {a, s} : Owns(b)' /\ arrays'[b] = arrays[c],
         Divided(DOMAIN memory, Room', Flight)
  PROVE  AllocInv'
<1>1. UNCHANGED <<memory, sizes, doing, terminated>> BY DEF NoSystemCall
<1>2. \A b \in Arrays : Leaving(b)' <=> Leaving(b) BY <1>1 DEF Leaving
<1>3. ~Leaving(a) /\ ~Leaving(s) BY UnusedStays
<1>4. \A b \in Arrays \ {a, s} : Owns(b)' <=> Owns(b) BY DEF Owns, Lives
<1>5. MemoryTypes'
  <2>1. \A b \in Arrays : Owns(b)' => arrays'[b].dims \in Nat BY <1>4 DEF AllocInv, MemoryTypes
  <2> QED BY <2>1, <1>1 DEF AllocInv, MemoryTypes
<1>6. OperationsInv'
  <2>1. ASSUME NEW u \in Clients, Busy(u)' PROVE Relies(doing[u])'
    <3>1. Busy(u) /\ doing'[u] = doing[u] BY <1>1, <2>1 DEF Busy
    <3>2. a \notin {doing[u].to, doing[u].from} /\ s \notin {doing[u].to, doing[u].from} BY <3>1, UnusedStays
    <3>3. doing[u].to \in Arrays /\ doing[u].from \in Arrays /\ Relies(doing[u]) BY <3>1, UsedAlone
    <3>4. arrays'[doing[u].to] = arrays[doing[u].to] /\ arrays'[doing[u].from] = arrays[doing[u].from] BY <3>2, <3>3
    <3> QED BY <3>1, <3>3, <3>4 DEF Relies, Owns, Lives
  <2> QED BY <2>1, <1>1 DEF AllocInv, OperationsInv, Busy
<1>7. \A b \in Arrays : IsOwner(b)' => \E c \in Arrays : IsOwner(c) /\ arrays'[b] = arrays[c] /\ expected'[b] = expected[c]
  BY <1>2, <1>3, <1>4 DEF IsOwner
<1>8. \A c \in Arrays : IsOwner(c) => \E b \in Arrays : IsOwner(b)' /\ arrays'[b] = arrays[c]
  BY <1>2, <1>3, <1>4 DEF IsOwner
<1>9. TableInv'
  <2>1. \A b \in Arrays : IsOwner(b)' => arrays'[b].pointer \in DOMAIN sizes BY <1>7 DEF AllocInv, TableInv
  <2>2. ASSUME NEW b \in DOMAIN sizes PROVE \E x \in Arrays : IsOwner(x)' /\ arrays'[x].pointer = b
    <3>1. PICK c \in Arrays : IsOwner(c) /\ arrays[c].pointer = b BY DEF AllocInv, TableInv
    <3> QED BY <3>1, <1>8
  <2> QED BY <2>1, <2>2, <1>1 DEF TableInv
<1>10. ContentInv'
  <2> SUFFICES ASSUME NEW b \in Arrays, IsOwner(b)'
               PROVE  /\ arrays'[b].dims <= sizes'[arrays'[b].pointer]
                      /\ \A p \in Block(arrays'[b].pointer, arrays'[b].dims) : memory'[p] = expected'[b]
    BY DEF ContentInv
  <2>1. PICK c \in Arrays : IsOwner(c) /\ arrays'[b] = arrays[c] /\ expected'[b] = expected[c] BY <1>7
  <2>2. /\ arrays[c].dims <= sizes[arrays[c].pointer]
        /\ \A p \in Block(arrays[c].pointer, arrays[c].dims) : memory[p] = expected[c]
    BY <2>1 DEF AllocInv, ContentInv
  <2> QED BY <2>1, <2>2, <1>1
<1>11. Flight' = Flight BY <1>1 DEF Flight
<1>12. FreshInv' BY <1>1, <1>11, FreshStays
<1> QED BY <1>1, <1>5, <1>6, <1>9, <1>10, <1>11, <1>12 DEF AllocInv

\* What a has, when s gives it its pointer and had one itself only if it is another array.
LEMMA PilferStep ==
  ASSUME AllocInv, NEW a \in Arrays, NEW s \in Arrays, Ready(a, s), ~Owns(a), Lives(s), NoSystemCall,
         arrays' = Pilfered(arrays, a, s), expected' = [expected EXCEPT ![a] = expected[s]]
  PROVE  AllocInv'
<1>1. Unused(a) /\ Unused(s) BY DEF Ready
<1>2. arrays \in [Arrays -> ArrayType] /\ DOMAIN expected = Arrays BY DEF AllocInv, MemoryTypes
<1>3. /\ arrays' \in [Arrays -> ArrayType] /\ arrays'[s].pointer = NoBlock
      /\ (a # s => arrays'[a] = arrays[s])
      /\ \A b \in Arrays \ {a, s} : arrays'[b] = arrays[b]
  BY <1>2 DEF Pilfered, ArrayType
<1>4. /\ DOMAIN expected' = Arrays /\ expected'[a] = expected[s] /\ \A b \in Arrays \ {a, s} : expected'[b] = expected[b]
  BY <1>2
<1>5. ~Owns(s)' BY <1>3 DEF Owns
<1>6. a # s => (Owns(a)' <=> Owns(s)) BY <1>3 DEF Owns, Lives
<1>7. \A b \in Arrays \ {a, s} : Owns(b)' <=> Owns(b) BY <1>3 DEF Owns, Lives
<1>8. \A b \in Arrays : Leaving(b)' <=> Leaving(b) BY DEF NoSystemCall, Leaving
<1>9. ~Leaving(a) /\ ~Leaving(s) BY <1>1, UnusedStays
<1>10. Divided(DOMAIN memory, Room', Flight)
  <2>1. /\ Room \in [Arrays -> SUBSET Int] /\ Flight \in [Clients -> SUBSET Int] /\ Divided(DOMAIN memory, Room, Flight)
    BY Spread DEF AllocInv
  <2>2. Room[a] = {} BY DEF Room, IsOwner
  <2>3. sizes' = sizes BY DEF NoSystemCall
  <2>4. CASE a # s
    <3>1. IsOwner(a)' <=> IsOwner(s) BY <2>4, <1>6, <1>8, <1>9 DEF IsOwner
    <3>2. ~IsOwner(s)' BY <1>5 DEF IsOwner
    <3>3. \A b \in Arrays \ {a, s} : IsOwner(b)' <=> IsOwner(b) BY <1>7, <1>8 DEF IsOwner
    <3>4. Room' = [Room EXCEPT ![a] = Room[s], ![s] = {}] BY <2>3, <2>4, <3>1, <3>2, <3>3, <1>3 DEF Room
    <3> QED BY <2>1, <2>2, <2>4, <3>4, ToArray
  <2>5. CASE a = s
    <3>1. \A b \in Arrays : (IsOwner(b)' <=> IsOwner(b)) /\ (IsOwner(b) => arrays'[b] = arrays[b])
      BY <2>5, <1>3, <1>5, <1>7, <1>8 DEF IsOwner
    <3>2. Room' = Room BY <3>1, <2>3 DEF Room
    <3> QED BY <3>2, <2>1
  <2> QED BY <2>4, <2>5
<1>11. \A b \in {a, s} : Owns(b)' => \E c \in {a, s} : Owns(c) /\ arrays'[b] = arrays[c] /\ expected'[b] = expected[c]
  BY <1>3, <1>4, <1>5, <1>6
<1>12. \A c \in {a, s} : Owns(c) => \E b \in {a, s} : Owns(b)' /\ arrays'[b] = arrays[c]
  BY <1>3, <1>6
<1> QED BY <1>1, <1>3, <1>4, <1>10, <1>11, <1>12, Rearranging

LEMMA SwapStep ==
  ASSUME AllocInv, NEW a \in Arrays, NEW s \in Arrays, Swap(a, s)
  PROVE  AllocInv'
<1>1. Unused(a) /\ Unused(s) /\ NoSystemCall BY DEF Swap, Ready
<1>2. arrays \in [Arrays -> ArrayType] /\ DOMAIN expected = Arrays BY DEF AllocInv, MemoryTypes
<1>3. /\ arrays' = [arrays EXCEPT ![a] = arrays[s], ![s] = arrays[a]]
      /\ expected' = [expected EXCEPT ![a] = expected[s], ![s] = expected[a]]
  BY DEF Swap
<1>4. /\ arrays' \in [Arrays -> ArrayType] /\ arrays'[a] = arrays[s] /\ arrays'[s] = arrays[a]
      /\ \A b \in Arrays \ {a, s} : arrays'[b] = arrays[b]
  BY <1>2, <1>3
<1>5. /\ DOMAIN expected' = Arrays /\ expected'[a] = expected[s] /\ expected'[s] = expected[a]
      /\ \A b \in Arrays \ {a, s} : expected'[b] = expected[b]
  BY <1>2, <1>3
<1>6. /\ (Owns(a)' <=> Owns(s)) /\ (Owns(s)' <=> Owns(a))
      /\ \A b \in Arrays \ {a, s} : Owns(b)' <=> Owns(b)
  BY <1>4 DEF Owns, Lives
<1>7. \A b \in Arrays : Leaving(b)' <=> Leaving(b) BY <1>1 DEF NoSystemCall, Leaving
<1>8. ~Leaving(a) /\ ~Leaving(s) BY <1>1, UnusedStays
<1>9. Divided(DOMAIN memory, Room', Flight)
  <2>1. /\ Room \in [Arrays -> SUBSET Int] /\ Flight \in [Clients -> SUBSET Int] /\ Divided(DOMAIN memory, Room, Flight)
    BY Spread DEF AllocInv
  <2>2. (IsOwner(a)' <=> IsOwner(s)) /\ (IsOwner(s)' <=> IsOwner(a)) /\ \A b \in Arrays \ {a, s} : IsOwner(b)' <=> IsOwner(b)
    BY <1>6, <1>7, <1>8 DEF IsOwner
  <2>3. sizes' = sizes BY <1>1 DEF NoSystemCall
  <2>4. Room' = [Room EXCEPT ![a] = Room[s], ![s] = Room[a]] BY <2>2, <2>3, <1>4 DEF Room
  <2> QED BY <2>1, <2>4, Exchanged
<1>10. \A b \in {a, s} : Owns(b)' => \E c \in {a, s} : Owns(c) /\ arrays'[b] = arrays[c] /\ expected'[b] = expected[c]
  BY <1>4, <1>5, <1>6
<1>11. \A c \in {a, s} : Owns(c) => \E b \in {a, s} : Owns(b)' /\ arrays'[b] = arrays[c] BY <1>4, <1>6
<1> QED BY <1>1, <1>4, <1>5, <1>9, <1>10, <1>11, Rearranging

LEMMA MoveConstructStep ==
  ASSUME AllocInv, NEW a \in Arrays, NEW s \in Arrays, MoveConstruct(a, s)
  PROVE  AllocInv'
<1>1. ~Owns(a) BY DEF MoveConstruct, Owns
<1> QED BY <1>1, PilferStep DEF MoveConstruct

LEMMA MoveAssignStep ==
  ASSUME AllocInv, NEW a \in Arrays, NEW s \in Arrays, MoveAssign(a, s)
  PROVE  AllocInv'
<1>1. CASE Owns(a) BY <1>1, GiveUpStep DEF MoveAssign
<1>2. CASE ~Owns(a) BY <1>2, PilferStep DEF MoveAssign
<1> QED BY <1>1, <1>2

LEMMA DestroyStep ==
  ASSUME AllocInv, NEW a \in Arrays, Destroy(a)
  PROVE  AllocInv'
<1>1. CASE Owns(a) BY <1>1, GiveUpStep DEF Destroy
<1>2. CASE ~Owns(a)
  <2>1. /\ Unused(a) /\ arrays' = [arrays EXCEPT ![a] = Unborn] /\ NoSystemCall /\ expected' = expected
    BY <1>2 DEF Destroy, Ready
  <2>2. arrays \in [Arrays -> ArrayType] /\ DOMAIN expected = Arrays BY DEF AllocInv, MemoryTypes
  <2>3. Unborn \in ArrayType BY DEF Unborn, ArrayType
  <2>4. arrays' \in [Arrays -> ArrayType] /\ arrays'[a] = Unborn /\ \A b \in Arrays \ {a} : arrays'[b] = arrays[b]
    BY <2>1, <2>2, <2>3
  <2>5. ~Owns(a)' /\ \A b \in Arrays \ {a} : Owns(b)' <=> Owns(b) BY <2>4 DEF Owns, Lives
  <2>6. Divided(DOMAIN memory, Room', Flight)
    <3>1. \A b \in Arrays : Leaving(b)' <=> Leaving(b) BY <2>1 DEF NoSystemCall, Leaving
    <3>2. \A b \in Arrays : (IsOwner(b)' <=> IsOwner(b)) /\ (IsOwner(b) => arrays'[b] = arrays[b])
      BY <2>4, <2>5, <3>1, <1>2 DEF IsOwner
    <3>3. Room' = Room BY <3>2, <2>1 DEF Room, NoSystemCall
    <3> QED BY <3>3 DEF AllocInv
  <2> QED BY <2>1, <2>2, <2>4, <2>5, <2>6, <1>2, Rearranging
<1> QED BY <1>1, <1>2

\* The elements of an array are its own.
LEMMA WithinRoom ==
  ASSUME AllocInv, NEW b \in Arrays, IsOwner(b)
  PROVE  Block(arrays[b].pointer, arrays[b].dims) \subseteq Room[b]
<1>1. /\ arrays[b].pointer \in Nat /\ sizes[arrays[b].pointer] \in Nat /\ arrays[b].dims \in Nat
      /\ arrays[b].dims <= sizes[arrays[b].pointer]
  BY Spread DEF AllocInv, ContentInv
<1> QED BY <1>1 DEF Block, Room

LEMMA FillStep ==
  ASSUME AllocInv, NEW a \in Arrays, NEW v \in Contents, Fill(a, v)
  PROVE  AllocInv'
<1> DEFINE mine == Block(arrays[a].pointer, arrays[a].dims)
<1>1. /\ Unused(a) /\ Owns(a) /\ UNCHANGED <<sizes, mutex, arrays, doing, terminated>>
      /\ memory' = [p \in DOMAIN memory |-> IF p \in mine THEN v ELSE memory[p]]
      /\ expected' = [expected EXCEPT ![a] = v]
  BY DEF Fill, Ready
<1>2. IsOwner(a) BY <1>1, UnusedStays DEF IsOwner
<1>3. \A b \in Arrays : (Owns(b)' <=> Owns(b)) /\ (Lives(b)' <=> Lives(b)) /\ (Leaving(b)' <=> Leaving(b))
  BY <1>1 DEF Owns, Lives, Leaving
<1>4. MemoryTypes' BY <1>1, <1>3 DEF AllocInv, MemoryTypes
<1>5. OperationsInv'
  <2>1. ASSUME NEW t \in Clients, Busy(t)' PROVE Relies(doing[t])'
    <3>1. Busy(t) /\ doing'[t] = doing[t] BY <1>1, <2>1 DEF Busy
    <3>2. doing[t].to \in Arrays /\ doing[t].from \in Arrays /\ Relies(doing[t]) BY <3>1, UsedAlone
    <3> QED BY <3>1, <3>2, <1>1, <1>3 DEF Relies
  <2> QED BY <2>1, <1>1 DEF AllocInv, OperationsInv, Busy
<1>6. \A b \in Arrays : IsOwner(b)' <=> IsOwner(b) BY <1>3 DEF IsOwner
<1>7. TableInv' BY <1>1, <1>6 DEF AllocInv, TableInv
<1>8. Room' = Room /\ Flight' = Flight /\ DOMAIN memory' = DOMAIN memory BY <1>1, <1>6 DEF Room, Flight
<1>9. \A b \in Arrays : IsOwner(b) => Block(arrays[b].pointer, arrays[b].dims) \subseteq Room[b] BY WithinRoom
<1>10. \A b \in Arrays : Room[b] \subseteq DOMAIN memory /\ (b # a => Room[a] \cap Room[b] = {}) BY DEF AllocInv, Divided
<1>11. ContentInv'
  <2> SUFFICES ASSUME NEW b \in Arrays, IsOwner(b)
               PROVE  /\ arrays[b].dims <= sizes[arrays[b].pointer]
                      /\ \A p \in Block(arrays[b].pointer, arrays[b].dims) : memory'[p] = expected'[b]
    BY <1>1, <1>6 DEF ContentInv
  <2>1. /\ arrays[b].dims <= sizes[arrays[b].pointer]
        /\ \A p \in Block(arrays[b].pointer, arrays[b].dims) : memory[p] = expected[b]
    BY DEF AllocInv, ContentInv
  <2> HIDE DEF mine
  <2>2. CASE b = a
    <3>1. expected'[a] = v BY <1>1 DEF AllocInv, MemoryTypes
    <3>2. \A p \in mine : p \in DOMAIN memory BY <1>2, <1>9, <1>10 DEF mine
    <3>3. \A p \in mine : memory'[p] = v BY <3>2, <1>1
    <3> QED BY <2>1, <2>2, <3>1, <3>3 DEF mine
  <2>3. CASE b # a
    <3>1. expected'[b] = expected[b] BY <2>3, <1>1 DEF AllocInv, MemoryTypes
    <3>2. \A p \in Block(arrays[b].pointer, arrays[b].dims) : p \in DOMAIN memory /\ p \notin mine
      BY <2>3, <1>2, <1>9, <1>10 DEF mine
    <3>3. \A p \in Block(arrays[b].pointer, arrays[b].dims) : memory'[p] = memory[p] BY <3>2, <1>1
    <3> QED BY <2>1, <3>1, <3>3
  <2> QED BY <2>2, <2>3
<1>12. FreshInv'
  <2>1. ASSUME NEW u \in Clients, NEW p \in Flight[u] PROVE memory'[p] = memory[p]
    <3>1. p \in DOMAIN memory /\ p \notin Room[a] BY <2>1 DEF AllocInv, Divided
    <3>2. p \notin mine BY <3>1, <1>2, <1>9
    <3> HIDE DEF mine
    <3> QED BY <3>1, <3>2, <1>1
  <2> QED BY <2>1, <1>1, <1>8, FreshStays
<1> QED BY <1>4, <1>5, <1>7, <1>8, <1>11, <1>12 DEF AllocInv

-----------------------------------------------------------------------------
\* One thread goes on with its operation, and nobody touches the arrays of the others.
LEMMA OneGoesOn ==
  ASSUME AllocInv, NEW t \in Clients, Busy(t),
         doing' \in [Clients -> Operation \cup {Idling}],
         \A u \in Clients : u # t => doing'[u] = doing[u],
         \A b \in Arrays \ {doing[t].to, doing[t].from} : arrays'[b] = arrays[b],
         doing'[t] # Idling => doing'[t].to = doing[t].to /\ doing'[t].from = doing[t].from /\ Relies(doing[t])'
  PROVE  OperationsInv'
<1>1. ASSUME NEW u \in Clients, Busy(u)', u # t
      PROVE  Relies(doing[u])' /\ doing'[u] = doing[u] /\ Busy(u)
             /\ {doing[t].to, doing[t].from} \cap {doing[u].to, doing[u].from} = {}
  <2>1. doing'[u] = doing[u] /\ Busy(u) BY <1>1 DEF Busy
  <2>2. {doing[t].to, doing[t].from} \cap {doing[u].to, doing[u].from} = {} BY <2>1, <1>1, UsedAlone
  <2>3. doing[u].to \in Arrays /\ doing[u].from \in Arrays /\ Relies(doing[u]) BY <2>1, UsedAlone
  <2>4. arrays'[doing[u].to] = arrays[doing[u].to] /\ arrays'[doing[u].from] = arrays[doing[u].from] BY <2>2, <2>3
  <2>5. Relies(doing[u])' BY <2>1, <2>3, <2>4 DEF Relies, Owns, Lives
  <2> QED BY <2>1, <2>2, <2>5
<1>2. \A u \in Clients : Busy(u)' => Relies(doing[u])' BY <1>1 DEF Busy
<1>3. ASSUME NEW u \in Clients, NEW v \in Clients, Busy(u)', Busy(v)', u # v
      PROVE  {doing'[u].to, doing'[u].from} \cap {doing'[v].to, doing'[v].from} = {}
  <2>1. CASE u = t BY <2>1, <1>3, <1>1 DEF Busy
  <2>2. CASE v = t BY <2>2, <1>3, <1>1 DEF Busy
  <2>3. CASE u # t /\ v # t BY <2>3, <1>3, <1>1 DEF AllocInv, OperationsInv
  <2> QED BY <2>1, <2>2, <2>3
<1> QED BY <1>2, <1>3 DEF OperationsInv

LEMMA MapFailsStep ==
  ASSUME AllocInv, NEW t \in Clients, MapFails(t)
  PROVE  AllocInv'
<1>1. doing[t].step = "map" /\ doing' = [doing EXCEPT ![t] = Idling] /\ UNCHANGED <<memory, sizes, mutex, arrays, terminated, expected>>
  BY DEF MapFails, In
<1>2. Busy(t) BY <1>1 DEF Busy, Idling
<1>3. /\ doing' \in [Clients -> Operation \cup {Idling}] /\ doing'[t] = Idling
      /\ \A u \in Clients : u # t => doing'[u] = doing[u]
  BY <1>1 DEF AllocInv, MemoryTypes
<1>4. OperationsInv' BY <1>1, <1>2, <1>3, OneGoesOn
<1>5. \A b \in Arrays : (Owns(b)' <=> Owns(b)) /\ (Leaving(b)' <=> Leaving(b)) BY <1>1, <1>3 DEF Owns, Lives, Leaving, Idling
<1>6. \A b \in Arrays : IsOwner(b)' <=> IsOwner(b) BY <1>5 DEF IsOwner
<1>7. MemoryTypes' BY <1>1, <1>3, <1>5 DEF AllocInv, MemoryTypes
<1>8. Room' = Room BY <1>1, <1>6 DEF Room
<1>9. Flight' = Flight BY <1>1, <1>3 DEF Flight, Idling
<1>10. TableInv' /\ ContentInv' BY <1>1, <1>6 DEF AllocInv, TableInv, ContentInv
<1>11. FreshInv' BY <1>1, <1>3, <1>9, FreshStays DEF Idling
<1> QED BY <1>1, <1>4, <1>7, <1>8, <1>9, <1>10, <1>11 DEF AllocInv

LEMMA EraseStep ==
  ASSUME AllocInv, NEW t \in Clients, Erase(t)
  PROVE  AllocInv'
<1>1. doing[t].step = "erase" BY DEF Erase, In
<1>2. Busy(t) BY <1>1 DEF Busy, Idling
<1> PICK now \in Operation : now = doing[t] BY <1>2, UsedAlone
<1> PICK a \in Arrays : a = now.to BY DEF Operation
<1> PICK p \in Nat \cup {NoBlock} : p = arrays[a].pointer BY DEF AllocInv, MemoryTypes, ArrayType
<1>3. now \in Operation /\ a \in Arrays /\ Relies(now) /\ ~Leaving(a) BY <1>1, <1>2, UsedAlone
<1>4. IsOwner(a) BY <1>1, <1>3 DEF Relies, IsOwner
<1>5. p \in Nat /\ p \in DOMAIN sizes /\ sizes[p] \in Nat \ {0} BY <1>3, <1>4, Spread
<1>6. /\ sizes' = [b \in DOMAIN sizes \ {p} |-> sizes[b]]
      /\ doing' = [doing EXCEPT ![t].step = "unmap", ![t].base = p, ![t].pages = sizes[p]]
      /\ UNCHANGED <<memory, arrays, expected, terminated>>
  BY <1>5 DEF Erase
<1>7. /\ doing'[t] = [now EXCEPT !.step = "unmap", !.base = p, !.pages = sizes[p]]
      /\ \A u \in Clients : u # t => doing'[u] = doing[u]
      /\ DOMAIN doing' = Clients /\ doing' = [u \in Clients |-> doing'[u]]
  BY <1>6 DEF AllocInv, MemoryTypes
<1>8. /\ doing'[t] \in Operation /\ doing'[t].step = "unmap" /\ doing'[t].base = p /\ doing'[t].pages = sizes[p]
      /\ doing'[t].to = a /\ doing'[t].from = now.from /\ doing'[t].op = now.op /\ doing'[t].dims = now.dims
  BY <1>3, <1>5, <1>7 DEF Operation
<1>9. doing' \in [Clients -> Operation \cup {Idling}]
  <2>1. \A u \in Clients : doing'[u] \in Operation \cup {Idling} BY <1>7, <1>8 DEF AllocInv, MemoryTypes
  <2> QED BY <2>1, <1>7
<1>10. \A b \in Arrays : (Owns(b)' <=> Owns(b)) /\ (Lives(b)' <=> Lives(b)) BY <1>6 DEF Owns, Lives
<1>11. OperationsInv'
  <2>1. now.from \in Arrays BY <1>3 DEF Operation
  <2>2. Relies(doing[t])' BY <2>1, <1>1, <1>3, <1>5, <1>6, <1>8, <1>10 DEF Relies
  <2> QED BY <2>2, <1>2, <1>6, <1>7, <1>8, <1>9, OneGoesOn
<1>121. \A u \in Clients : u # t => doing'[u] = doing[u] BY <1>7
<1>12. \A b \in Arrays : Leaving(b)' <=> (Leaving(b) \/ b = a)
  <2> SUFFICES ASSUME NEW b \in Arrays PROVE Leaving(b)' <=> (Leaving(b) \/ b = a) OBVIOUS
  <2>1. Leaving(b)' => Leaving(b) \/ b = a BY <1>8, <1>121 DEF Leaving
  <2>2. Leaving(b) => Leaving(b)' BY <1>121, <1>1 DEF Leaving
  <2>3. b = a => Leaving(b)' BY <1>8 DEF Leaving
  <2> QED BY <2>1, <2>2, <2>3
<1>13. /\ \A b \in Arrays \ {a} : IsOwner(b)' <=> IsOwner(b)
       /\ ~IsOwner(a)'
  <2>1. ASSUME NEW b \in Arrays \ {a} PROVE IsOwner(b)' <=> IsOwner(b) BY <1>10, <1>12 DEF IsOwner
  <2>2. a \in Arrays BY <1>3
  <2>3. Leaving(a)' BY <1>12, <2>2
  <2>4. ~IsOwner(a)' BY <2>3 DEF IsOwner
  <2> QED BY <2>1, <2>4
<1>14. \A b \in Arrays \ {a} : IsOwner(b) => arrays[b].pointer # p
  <2> SUFFICES ASSUME NEW b \in Arrays \ {a}, IsOwner(b), arrays[b].pointer = p PROVE FALSE OBVIOUS
  <2>1. Room[a] \cap Room[b] = {} BY <1>3 DEF AllocInv, Divided
  <2>2. Room[a] = Block(p, sizes[p]) /\ Room[b] = Block(p, sizes[p]) BY <1>3, <1>4 DEF Room
  <2>3. p \in Block(p, sizes[p]) BY <1>5, BlockIsSet
  <2> QED BY <2>1, <2>2, <2>3
<1>15. MemoryTypes' BY <1>6, <1>9, <1>10 DEF AllocInv, MemoryTypes
<1>16. \A b \in Arrays \ {a} : IsOwner(b) => sizes'[arrays[b].pointer] = sizes[arrays[b].pointer] /\ arrays[b].pointer \in DOMAIN sizes'
  BY <1>6, <1>14, Spread
<1>17. TableInv'
  <2>1. \A b \in Arrays : IsOwner(b)' => arrays'[b].pointer \in DOMAIN sizes' BY <1>6, <1>13, <1>16
  <2>2. ASSUME NEW b \in DOMAIN sizes' PROVE \E x \in Arrays : IsOwner(x)' /\ arrays'[x].pointer = b
    <3>1. b \in DOMAIN sizes /\ b # p BY <1>6
    <3>2. PICK x \in Arrays : IsOwner(x) /\ arrays[x].pointer = b BY <3>1 DEF AllocInv, TableInv
    <3>3. x # a BY <3>1, <3>2
    <3> QED BY <3>2, <3>3, <1>6, <1>13
  <2> QED BY <2>1, <2>2 DEF TableInv
<1>18. ContentInv'
  <2> SUFFICES ASSUME NEW b \in Arrays, IsOwner(b)'
               PROVE  /\ arrays[b].dims <= sizes'[arrays[b].pointer]
                      /\ \A q \in Block(arrays[b].pointer, arrays[b].dims) : memory[q] = expected[b]
    BY <1>6 DEF ContentInv
  <2>1. b # a /\ IsOwner(b) BY <1>13
  <2> QED BY <2>1, <1>16 DEF AllocInv, ContentInv
<1>20. FreshInv'
  <2>1. \A u \in Clients : u # t => Flight'[u] = Flight[u] BY <1>121 DEF Flight
  <2> QED BY <2>1, <1>6, <1>8, <1>121, FreshStays
<1>19. Divided(DOMAIN memory', Room', Flight')
  <2>1. /\ Room \in [Arrays -> SUBSET Int] /\ Flight \in [Clients -> SUBSET Int] /\ Divided(DOMAIN memory, Room, Flight)
    BY Spread DEF AllocInv
  <2>2. Flight[t] = {} BY <1>1 DEF Flight
  <2>3. Room' = [Room EXCEPT ![a] = {}] BY <1>6, <1>13, <1>16 DEF Room
  <2>4. Room[a] = Block(p, sizes[p]) BY <1>3, <1>4 DEF Room
  <2>5. Flight' = [Flight EXCEPT ![t] = Room[a]] BY <2>4, <1>8, <1>121 DEF Flight
  <2> QED BY <2>1, <2>2, <2>3, <2>5, <1>3, <1>6, ToThread
<1> QED BY <1>11, <1>15, <1>17, <1>18, <1>19, <1>20 DEF AllocInv

LEMMA GiveBackStep ==
  ASSUME AllocInv, NEW t \in Clients, GiveBack(t)
  PROVE  AllocInv'
<1>1. doing[t].step = "unmap" BY DEF GiveBack, In
<1>2. Busy(t) BY <1>1 DEF Busy, Idling
<1> PICK now \in Operation : now = doing[t] BY <1>2, UsedAlone
<1> PICK a \in Arrays : a = now.to BY DEF Operation
<1> PICK s \in Arrays : s = now.from BY DEF Operation
<1> DEFINE bare == [arrays EXCEPT ![a].pointer = NoBlock]
           block == Block(now.base, now.pages)
<1>3. Relies(now) /\ (s # a => ~Leaving(s)) /\ now.step = "unmap" /\ now.op \in {"move", "destroy", "copy"} /\ Owns(a)
  <2>1. Relies(now) /\ (s # a => ~Leaving(s)) BY <1>2, UsedAlone
  <2> QED BY <2>1, <1>1 DEF Relies, Operation
<1>4. /\ memory' = [p \in DOMAIN memory \ block |-> memory[p]]
      /\ arrays' = CASE now.op = "destroy" -> [bare EXCEPT ![a] = Unborn]
                     [] now.op = "move" -> Pilfered(bare, a, s)
                     [] now.op = "copy" -> [bare EXCEPT ![a].dims = now.dims]
      /\ expected' = [expected EXCEPT ![a] = IF now.op = "move" THEN expected[s] ELSE Unwritten]
      /\ doing' = [doing EXCEPT ![t] = IF now.op = "copy" THEN [now EXCEPT !.step = "map", !.base = NoBlock, !.pages = 0] ELSE Idling]
      /\ UNCHANGED <<sizes, terminated>>
  BY DEF GiveBack
<1>5. /\ doing' \in [Clients -> Operation \cup {Idling}] /\ \A u \in Clients : u # t => doing'[u] = doing[u]
      /\ doing'[t] \in {Idling} \/ (now.op = "copy" /\ doing'[t] = [now EXCEPT !.step = "map", !.base = NoBlock, !.pages = 0])
  <2>1. [now EXCEPT !.step = "map", !.base = NoBlock, !.pages = 0] \in Operation BY DEF Operation
  <2> QED BY <2>1, <1>4 DEF AllocInv, MemoryTypes
<1>6. doing'[t] # Idling =>
        now.op = "copy" /\ doing'[t].step = "map" /\ doing'[t].to = a /\ doing'[t].from = s /\ doing'[t].op = "copy" /\ doing'[t].dims = now.dims
  BY <1>5 DEF Operation
<1>7. doing'[t].step \notin {"unmap", "insert"} BY <1>5, <1>6 DEF Idling
<1>8. arrays \in [Arrays -> ArrayType] /\ arrays[a].dims \in Nat /\ now.dims \in Nat BY <1>3 DEF AllocInv, MemoryTypes, Operation
<1>9. /\ bare \in [Arrays -> ArrayType] /\ bare[a] = [pointer |-> NoBlock, dims |-> arrays[a].dims]
      /\ \A b \in Arrays \ {a} : bare[b] = arrays[b]
  BY <1>8 DEF ArrayType
<1> HIDE DEF bare
<1>10. /\ arrays' \in [Arrays -> ArrayType]
       /\ \A b \in Arrays \ {a, s} : arrays'[b] = arrays[b]
       /\ now.op # "move" \/ s = a => arrays'[a].pointer = NoBlock /\ (s # a => arrays'[s] = arrays[s])
       /\ now.op = "move" /\ s # a => arrays'[a] = arrays[s] /\ arrays'[s].pointer = NoBlock
  <2>1. CASE now.op = "destroy"
    <3>1. arrays' = [bare EXCEPT ![a] = Unborn] BY <2>1, <1>4
    <3>2. Unborn \in ArrayType /\ Unborn.pointer = NoBlock BY DEF Unborn, ArrayType
    <3> QED BY <2>1, <3>1, <3>2, <1>9
  <2>2. CASE now.op = "copy"
    <3>1. arrays' = [bare EXCEPT ![a].dims = now.dims] BY <2>2, <1>4
    <3>2. arrays'[a] = [pointer |-> NoBlock, dims |-> now.dims] BY <3>1, <1>9 DEF ArrayType
    <3> QED BY <2>2, <3>1, <3>2, <1>8, <1>9 DEF ArrayType
  <2>3. CASE now.op = "move"
    <3>1. arrays' = Pilfered(bare, a, s) BY <2>3, <1>4
    <3> QED BY <2>3, <3>1, <1>9 DEF Pilfered, ArrayType
  <2> QED BY <2>1, <2>2, <2>3, <1>3
<1>11. /\ DOMAIN expected' = Arrays /\ \A b \in Arrays \ {a} : expected'[b] = expected[b]
       /\ now.op = "move" => expected'[a] = expected[s]
  BY <1>4 DEF AllocInv, MemoryTypes
<1>12. OperationsInv'
  <2>1. doing'[t] # Idling => Relies(doing[t])'
    <3>1. SUFFICES ASSUME doing'[t] # Idling PROVE Relies(doing[t])' OBVIOUS
    <3>2. now.op = "copy" /\ Owns(s) /\ s # a /\ now.dims = arrays[s].dims BY <3>1, <1>3, <1>6 DEF Relies
    <3>3. arrays'[s] = arrays[s] /\ arrays'[a].pointer = NoBlock BY <3>2, <1>10
    <3>4. ~Owns(a)' /\ Owns(s)' BY <3>2, <3>3 DEF Owns, Lives
    <3> QED BY <3>1, <3>2, <3>3, <3>4, <1>6 DEF Relies
  <2>2. \A b \in Arrays \ {doing[t].to, doing[t].from} : arrays'[b] = arrays[b] BY <1>10
  <2>3. doing'[t] # Idling => doing'[t].to = doing[t].to /\ doing'[t].from = doing[t].from BY <1>6
  <2> QED BY <2>1, <2>2, <2>3, <1>2, <1>5, OneGoesOn
<1>13. \A b \in Arrays : Leaving(b)' <=> Leaving(b) /\ b # a
  <2> SUFFICES ASSUME NEW b \in Arrays PROVE Leaving(b)' <=> Leaving(b) /\ b # a OBVIOUS
  <2>1. \A u \in Clients : u # t /\ doing[u].step = "unmap" => doing[u].to # a
    <3> SUFFICES ASSUME NEW u \in Clients, u # t, doing[u].step = "unmap" PROVE doing[u].to # a OBVIOUS
    <3>1. Busy(u) BY DEF Busy, Idling
    <3> QED BY <3>1, <1>2, UsedAlone
  <2> QED BY <2>1, <1>1, <1>5, <1>7 DEF Leaving
<1>14. Leaving(a) BY <1>1 DEF Leaving
<1>15. \A b \in Arrays \ {a, s} : (Owns(b)' <=> Owns(b)) /\ (IsOwner(b)' <=> IsOwner(b))
  BY <1>10, <1>13 DEF IsOwner, Owns, Lives
<1>16. ~IsOwner(a) BY <1>14 DEF IsOwner
<1>17. sizes' = sizes /\ ~terminated' BY <1>4 DEF AllocInv, MemoryTypes
<1>18. /\ Room \in [Arrays -> SUBSET Int] /\ Flight \in [Clients -> SUBSET Int] /\ Divided(DOMAIN memory, Room, Flight)
  BY Spread DEF AllocInv
<1>19. Flight[t] = block /\ Flight' = [Flight EXCEPT ![t] = {}]
  <2>1. \A u \in Clients : u # t => Flight'[u] = Flight[u] BY <1>5 DEF Flight
  <2>2. Flight[t] = block /\ Flight'[t] = {} BY <1>1, <1>7 DEF Flight
  <2>3. Flight' = [u \in Clients |-> Flight'[u]] BY DEF Flight
  <2> QED BY <2>1, <2>2, <2>3, <1>18
<1>20. DOMAIN memory' = DOMAIN memory \ Flight[t] /\ \A p \in DOMAIN memory' : memory'[p] = memory[p]
  BY <1>4, <1>19
<1>21. Divided(DOMAIN memory', Room, Flight')
  <2>1. Divided(DOMAIN memory \ Flight[t], Room, [Flight EXCEPT ![t] = {}]) BY <1>18, Returned
  <2>2. DOMAIN memory' = DOMAIN memory \ Flight[t] BY <1>20
  <2>3. Flight' = [Flight EXCEPT ![t] = {}] BY <1>19
  <2> QED BY <2>1, <2>2, <2>3
\* The arrays share among them what they had.
<1>22. /\ Divided(DOMAIN memory', Room', Flight')
       /\ \A b \in Arrays : Owns(b)' => \E c \in Arrays : Owns(c) /\ arrays'[b] = arrays[c]
       /\ \A b \in Arrays : IsOwner(b)' => \E c \in Arrays : IsOwner(c) /\ arrays'[b] = arrays[c] /\ expected'[b] = expected[c]
       /\ \A c \in Arrays : IsOwner(c) => \E b \in Arrays : IsOwner(b)' /\ arrays'[b] = arrays[c]
  <2>1. CASE now.op # "move" \/ s = a
    <3>1. ~IsOwner(a)' /\ ~Owns(a)' BY <1>10, <2>1 DEF IsOwner, Owns
    <3>2. s # a => (IsOwner(s)' <=> IsOwner(s)) /\ (Owns(s)' <=> Owns(s)) BY <1>10, <1>13, <2>1 DEF IsOwner, Owns, Lives
    <3>3. \A b \in Arrays : (IsOwner(b)' <=> IsOwner(b)) /\ (IsOwner(b) \/ Owns(b)' => arrays'[b] = arrays[b] /\ expected'[b] = expected[b])
      BY <3>1, <3>2, <1>10, <1>11, <1>15, <1>16, <2>1
    <3>4. Room' = Room BY <3>3, <1>17 DEF Room
    <3>5. \A b \in Arrays : Owns(b)' => Owns(b) BY <3>1, <3>2, <1>15
    <3> QED BY <3>3, <3>4, <3>5, <1>21
  <2>2. CASE now.op = "move" /\ s # a
    <3>1. arrays'[a] = arrays[s] /\ arrays'[s].pointer = NoBlock /\ expected'[a] = expected[s] BY <1>10, <1>11, <2>2
    <3>2. ~Owns(s)' /\ ~IsOwner(s)' /\ (Owns(a)' <=> Owns(s)) BY <3>1 DEF Owns, Lives, IsOwner
    <3>3. IsOwner(a)' <=> IsOwner(s) BY <3>2, <1>3, <1>13, <2>2 DEF IsOwner
    <3>4. \A b \in Arrays \ {a, s} : (IsOwner(b)' <=> IsOwner(b)) /\ (Owns(b)' <=> Owns(b)) /\ arrays'[b] = arrays[b] /\ expected'[b] = expected[b]
      BY <1>10, <1>11, <1>15
    <3>5. Room[a] = {} BY <1>16 DEF Room
    <3>6. Room' = [Room EXCEPT ![a] = Room[s], ![s] = {}]
      <4>1. Room'[a] = Room[s] BY <3>1, <3>3, <1>17 DEF Room
      <4>2. Room'[s] = {} BY <3>2 DEF Room
      <4>3. \A b \in Arrays \ {a, s} : Room'[b] = Room[b] BY <3>4, <1>17 DEF Room
      <4>4. Room' = [b \in Arrays |-> Room'[b]] BY DEF Room
      <4> QED BY <4>1, <4>2, <4>3, <4>4, <1>18
    <3>7. Flight' \in [Clients -> SUBSET Int] BY <1>18, <1>19
    <3>8. Divided(DOMAIN memory', Room', Flight') BY <3>5, <3>6, <3>7, <1>18, <1>21, <2>2, ToArray
    <3>9. \A b \in Arrays : Owns(b)' => \E c \in Arrays : Owns(c) /\ arrays'[b] = arrays[c]
      BY <3>1, <3>2, <3>4
    <3>10. \A b \in Arrays : IsOwner(b)' => \E c \in Arrays : IsOwner(c) /\ arrays'[b] = arrays[c] /\ expected'[b] = expected[c]
      BY <3>1, <3>2, <3>3, <3>4
    <3>11. \A c \in Arrays : IsOwner(c) => \E b \in Arrays : IsOwner(b)' /\ arrays'[b] = arrays[c]
      BY <3>1, <3>3, <3>4, <1>16
    <3> QED BY <3>8, <3>9, <3>10, <3>11
  <2> QED BY <2>1, <2>2
<1>23. MemoryTypes'
  <2>1. \A b \in Arrays : Owns(b)' => arrays'[b].dims \in Nat BY <1>22 DEF AllocInv, MemoryTypes
  <2> QED BY <2>1, <1>5, <1>10, <1>11, <1>17 DEF AllocInv, MemoryTypes
<1>24. TableInv'
  <2>1. \A b \in Arrays : IsOwner(b)' => arrays'[b].pointer \in DOMAIN sizes BY <1>22 DEF AllocInv, TableInv
  <2>2. ASSUME NEW b \in DOMAIN sizes PROVE \E x \in Arrays : IsOwner(x)' /\ arrays'[x].pointer = b
    <3>1. PICK c \in Arrays : IsOwner(c) /\ arrays[c].pointer = b BY DEF AllocInv, TableInv
    <3> QED BY <3>1, <1>22
  <2> QED BY <2>1, <2>2, <1>17 DEF TableInv
<1>25. ContentInv'
  <2> SUFFICES ASSUME NEW b \in Arrays, IsOwner(b)'
               PROVE  /\ arrays'[b].dims <= sizes'[arrays'[b].pointer]
                      /\ \A p \in Block(arrays'[b].pointer, arrays'[b].dims) : memory'[p] = expected'[b]
    BY DEF ContentInv
  <2>1. PICK c \in Arrays : IsOwner(c) /\ arrays'[b] = arrays[c] /\ expected'[b] = expected[c] BY <1>22
  <2>2. /\ arrays[c].dims <= sizes[arrays[c].pointer]
        /\ \A p \in Block(arrays[c].pointer, arrays[c].dims) : memory[p] = expected[c]
    BY <2>1 DEF AllocInv, ContentInv
  <2>3. Block(arrays[c].pointer, arrays[c].dims) \subseteq Room[c] BY <2>1, <2>2, WithinRoom
  <2>4. Room[c] \subseteq DOMAIN memory' BY <1>18, <1>20 DEF Divided
  <2> QED BY <2>1, <2>2, <2>3, <2>4, <1>17, <1>20
<1>26. FreshInv'
  <2>1. ASSUME NEW u \in Clients, doing'[u].step = "insert"
        PROVE  doing[u].step = "insert" /\ Flight'[u] = Flight[u] /\ \A p \in Flight[u] : memory'[p] = memory[p]
    <3>1. u # t BY <2>1, <1>7
    <3>2. doing[u].step = "insert" /\ Flight'[u] = Flight[u] BY <3>1, <2>1, <1>5, <1>18, <1>19
    <3>3. Flight[u] \subseteq DOMAIN memory' BY <3>1, <1>18, <1>20 DEF Divided
    <3> QED BY <3>2, <3>3, <1>20
  <2> QED BY <2>1, FreshStays
<1> QED BY <1>12, <1>22, <1>23, <1>24, <1>25, <1>26 DEF AllocInv

\* As many pages as cover the elements.
LEMMA RoundedUp ==
  ASSUME NEW n \in Nat \ {0}, NEW page \in Nat \ {0}
  PROVE  round_up_to_multiple_of(n, page) \in Nat \ {0} /\ n <= round_up_to_multiple_of(n, page)
<1> DEFINE m == n + page - 1
           q == m \div page
           r == m % page
<1>1. m \in Nat OBVIOUS
<1> HIDE DEF m
<1>2. q \in Nat /\ r \in 0 .. page - 1 /\ m = q * page + r BY <1>1, Euclid
<1>3. round_up_to_multiple_of(n, page) = page * q BY DEF round_up_to_multiple_of, m
<1> HIDE DEF q, r
<1>4. q * page = page * q /\ page * q \in Int BY <1>2
<1> QED BY <1>2, <1>3, <1>4 DEF m

LEMMA MapPagesStep ==
  ASSUME AllocInv, NEW t \in Clients, NEW page \in HugePages \cup {1}, NEW base \in 0 .. Pages - 1, MapPages(t, page, base)
  PROVE  AllocInv'
<1>1. doing[t].step = "map" /\ doing[t].dims > 0 BY DEF MapPages, In
<1>2. Busy(t) BY <1>1 DEF Busy, Idling
<1> PICK now \in Operation : now = doing[t] BY <1>2, UsedAlone
<1> PICK a \in Arrays : a = now.to BY DEF Operation
<1>3. Relies(now) /\ now.step = "map" /\ now.dims \in Nat \ {0} /\ now.from \in Arrays BY <1>1, <1>2, UsedAlone DEF Operation
<1>4. page \in Nat \ {0} /\ base \in Nat BY AllocationAssumption
<1> PICK pages \in Nat \ {0} : pages = round_up_to_multiple_of(now.dims, page) /\ now.dims <= pages BY <1>3, <1>4, RoundedUp
<1> PICK block : block = Block(base, pages) OBVIOUS
<1>5. /\ block \subseteq (0 .. Pages - 1) \ DOMAIN memory
      /\ memory' = [p \in DOMAIN memory \cup block |-> IF p \in block THEN Unwritten ELSE memory[p]]
      /\ doing' = [doing EXCEPT ![t].step = "insert", ![t].base = base, ![t].pages = pages]
      /\ UNCHANGED <<sizes, arrays, terminated, expected>>
  BY DEF MapPages
<1>6. /\ doing'[t] = [now EXCEPT !.step = "insert", !.base = base, !.pages = pages]
      /\ \A u \in Clients : u # t => doing'[u] = doing[u]
      /\ DOMAIN doing' = Clients /\ doing' = [u \in Clients |-> doing'[u]]
  BY <1>5 DEF AllocInv, MemoryTypes
<1>7. /\ doing'[t] \in Operation /\ doing'[t].step = "insert" /\ doing'[t].base = base /\ doing'[t].pages = pages
      /\ doing'[t].to = a /\ doing'[t].from = now.from /\ doing'[t].op = now.op /\ doing'[t].dims = now.dims
  BY <1>4, <1>6 DEF Operation
<1>8. doing' \in [Clients -> Operation \cup {Idling}]
  <2>1. \A u \in Clients : doing'[u] \in Operation \cup {Idling} BY <1>6, <1>7 DEF AllocInv, MemoryTypes
  <2> QED BY <2>1, <1>6
<1>9. \A b \in Arrays : (Owns(b)' <=> Owns(b)) /\ (Lives(b)' <=> Lives(b)) BY <1>5 DEF Owns, Lives
<1>10. OperationsInv'
  <2>1. Relies(doing[t])' BY <1>3, <1>4, <1>5, <1>7, <1>9 DEF Relies
  <2> QED BY <2>1, <1>2, <1>5, <1>6, <1>7, <1>8, OneGoesOn
<1>11. \A b \in Arrays : Leaving(b)' <=> Leaving(b)
  <2>1. \A u \in Clients : (doing'[u].step = "unmap" <=> doing[u].step = "unmap") /\ (u # t => doing'[u] = doing[u])
    BY <1>1, <1>6, <1>7
  <2> QED BY <2>1, <1>1 DEF Leaving
<1>12. \A b \in Arrays : IsOwner(b)' <=> IsOwner(b) BY <1>9, <1>11 DEF IsOwner
<1>13. MemoryTypes' BY <1>5, <1>8, <1>9 DEF AllocInv, MemoryTypes
<1>14. Room' = Room BY <1>5, <1>12 DEF Room
<1>15. Flight[t] = {} /\ Flight' = [Flight EXCEPT ![t] = block]
  <2>1. \A u \in Clients : u # t => Flight'[u] = Flight[u] BY <1>6 DEF Flight
  <2>2. Flight[t] = {} /\ Flight'[t] = block BY <1>1, <1>7 DEF Flight
  <2>3. Flight' = [u \in Clients |-> Flight'[u]] /\ Flight = [u \in Clients |-> Flight[u]] BY DEF Flight
  <2> QED BY <2>1, <2>2, <2>3
<1>16. Divided(DOMAIN memory', Room', Flight')
  <2>1. /\ Room \in [Arrays -> SUBSET Int] /\ Flight \in [Clients -> SUBSET Int] /\ Divided(DOMAIN memory, Room, Flight)
    BY Spread DEF AllocInv
  <2>2. block \cap DOMAIN memory = {} BY <1>5
  <2>3. Divided(DOMAIN memory \cup block, Room, [Flight EXCEPT ![t] = block]) BY <2>1, <2>2, <1>15, Granted
  <2>4. DOMAIN memory' = DOMAIN memory \cup block BY <1>5
  <2> QED BY <2>3, <2>4, <1>14, <1>15
<1>17. \A p \in DOMAIN memory : memory'[p] = memory[p] BY <1>5
<1>18. TableInv' BY <1>5, <1>12 DEF AllocInv, TableInv
<1>19. ContentInv'
  <2> SUFFICES ASSUME NEW b \in Arrays, IsOwner(b)
               PROVE  /\ arrays[b].dims <= sizes[arrays[b].pointer]
                      /\ \A p \in Block(arrays[b].pointer, arrays[b].dims) : memory'[p] = expected[b]
    BY <1>5, <1>12 DEF ContentInv
  <2>1. Block(arrays[b].pointer, arrays[b].dims) \subseteq Room[b] BY WithinRoom
  <2>2. Room[b] \subseteq DOMAIN memory BY DEF AllocInv, Divided
  <2> QED BY <2>1, <2>2, <1>17 DEF AllocInv, ContentInv
<1>20. FreshInv'
  <2> SUFFICES ASSUME NEW u \in Clients, doing'[u].step = "insert", NEW p \in Flight'[u] PROVE memory'[p] = Unwritten
    BY DEF FreshInv
  <2>1. CASE u = t
    <3>1. p \in block BY <2>1, <1>7 DEF Flight
    <3> QED BY <3>1, <1>5
  <2>2. CASE u # t
    <3>1. doing[u].step = "insert" /\ p \in Flight[u] BY <2>2, <1>6 DEF Flight
    <3>2. memory[p] = Unwritten BY <3>1 DEF AllocInv, FreshInv
    <3>3. p \in DOMAIN memory BY <3>1 DEF AllocInv, Divided
    <3> QED BY <3>2, <3>3, <1>17
  <2> QED BY <2>1, <2>2
<1> QED BY <1>10, <1>13, <1>16, <1>18, <1>19, <1>20 DEF AllocInv

LEMMA InsertStep ==
  ASSUME AllocInv, NEW t \in Clients, Insert(t)
  PROVE  AllocInv'
<1>1. doing[t].step = "insert" BY DEF Insert, In
<1>2. Busy(t) BY <1>1 DEF Busy, Idling
<1> PICK now \in Operation : now = doing[t] BY <1>2, UsedAlone
<1> PICK a \in Arrays : a = now.to BY DEF Operation
<1> PICK s \in Arrays : s = now.from BY DEF Operation
<1>3. /\ Relies(now) /\ now.step = "insert" /\ ~Leaving(a) /\ ~Leaving(s)
      /\ ~Owns(a) /\ now.op \in {"construct", "copy"} /\ now.base \in Nat /\ now.pages \in Nat \ {0}
      /\ now.dims \in Nat /\ now.dims <= now.pages
      /\ now.op = "copy" => Owns(s) /\ s # a /\ now.dims = arrays[s].dims
  <2>1. Relies(now) /\ now.step = "insert" /\ ~Leaving(a) /\ ~Leaving(s) BY <1>1, <1>2, UsedAlone
  <2> QED BY <2>1 DEF Relies, Operation
<1> PICK base \in Nat : base = now.base BY <1>3
<1> PICK pages \in Nat \ {0} : pages = now.pages BY <1>3
<1> PICK dims \in Nat : dims = now.dims BY <1>3
<1>4. /\ Room \in [Arrays -> SUBSET Int] /\ Flight \in [Clients -> SUBSET Int] /\ Divided(DOMAIN memory, Room, Flight)
  BY Spread DEF AllocInv
<1>5. Flight[t] = Block(base, pages) /\ Block(base, dims) \subseteq Flight[t] /\ base \in Flight[t]
  <2>1. Flight[t] = Block(base, pages) BY <1>1 DEF Flight
  <2>2. Block(base, dims) \subseteq Block(base, pages) /\ base \in Block(base, pages) BY <1>3 DEF Block
  <2> QED BY <2>1, <2>2
<1>6. base \notin DOMAIN sizes
  <2> SUFFICES ASSUME base \in DOMAIN sizes PROVE FALSE OBVIOUS
  <2>1. PICK x \in Arrays : IsOwner(x) /\ arrays[x].pointer = base BY DEF AllocInv, TableInv
  <2>2. base \in Room[x] BY <2>1, Spread, BlockIsSet DEF Room
  <2> QED BY <2>2, <1>4, <1>5 DEF Divided
<1>7. /\ sizes' = [b \in DOMAIN sizes \cup {base} |-> IF b \in DOMAIN sizes THEN sizes[b] ELSE pages]
      /\ arrays' = [arrays EXCEPT ![a] = [pointer |-> base, dims |-> dims]]
      /\ doing' = [doing EXCEPT ![t] = Idling]
      /\ UNCHANGED terminated
  BY DEF Insert
<1>8. /\ IF now.op = "copy"
         THEN /\ memory' = [p \in DOMAIN memory |-> IF p \in Block(base, dims)
                                                    THEN memory[arrays[s].pointer + p - base] ELSE memory[p]]
              /\ expected' = [expected EXCEPT ![a] = expected[s]]
         ELSE memory' = memory /\ expected' = [expected EXCEPT ![a] = Unwritten]
  BY DEF Insert
<1>9. /\ arrays' \in [Arrays -> ArrayType] /\ arrays'[a].pointer = base /\ arrays'[a].dims = dims
      /\ \A b \in Arrays \ {a} : arrays'[b] = arrays[b]
  <2>1. [pointer |-> base, dims |-> dims] \in ArrayType BY DEF ArrayType
  <2> QED BY <2>1, <1>7 DEF AllocInv, MemoryTypes
<1>10. /\ doing' \in [Clients -> Operation \cup {Idling}] /\ doing'[t] = Idling
       /\ \A u \in Clients : u # t => doing'[u] = doing[u]
  BY <1>7 DEF AllocInv, MemoryTypes
<1>11. /\ DOMAIN sizes' = DOMAIN sizes \cup {base} /\ sizes'[base] = pages
       /\ \A b \in DOMAIN sizes : sizes'[b] = sizes[b]
  BY <1>6, <1>7
<1>12. DOMAIN expected' = Arrays /\ \A b \in Arrays \ {a} : expected'[b] = expected[b]
  BY <1>8 DEF AllocInv, MemoryTypes
<1>13. /\ DOMAIN memory' = DOMAIN memory
       /\ \A p \in DOMAIN memory : p \notin Block(base, dims) => memory'[p] = memory[p]
  BY <1>8
<1>14. OperationsInv' BY <1>2, <1>9, <1>10, OneGoesOn
<1>15. Owns(a)' /\ \A b \in Arrays \ {a} : Owns(b)' <=> Owns(b)
  <2>1. base # NoBlock BY AllocationAssumption
  <2>2. Owns(a)' BY <2>1, <1>9 DEF Owns, Lives, Unborn
  <2> QED BY <2>2, <1>9 DEF Owns, Lives
<1>16. \A b \in Arrays : Leaving(b)' <=> Leaving(b)
  <2>1. doing[t].step # "unmap" /\ doing'[t].step # "unmap" BY <1>1, <1>10 DEF Idling
  <2> QED BY <2>1, <1>10 DEF Leaving
<1>17. IsOwner(a)' /\ ~IsOwner(a) /\ \A b \in Arrays \ {a} : IsOwner(b)' <=> IsOwner(b)
  BY <1>3, <1>15, <1>16 DEF IsOwner
<1>18. MemoryTypes'
  <2>1. \A b \in Arrays : Owns(b)' => arrays'[b].dims \in Nat BY <1>9, <1>15 DEF AllocInv, MemoryTypes
  <2>2. \A b \in DOMAIN sizes' : b \in Nat /\ sizes'[b] \in Nat \ {0} BY <1>11 DEF AllocInv, MemoryTypes
  <2>3. ~terminated' BY <1>7 DEF AllocInv, MemoryTypes
  <2> QED BY <2>1, <2>2, <2>3, <1>9, <1>10, <1>12 DEF MemoryTypes
<1>19. \A b \in Arrays : IsOwner(b) => b # a /\ arrays'[b] = arrays[b] /\ sizes'[arrays[b].pointer] = sizes[arrays[b].pointer]
  BY <1>9, <1>11, <1>17, Spread
<1>20. Divided(DOMAIN memory', Room', Flight')
  <2>1. Room[a] = {} BY <1>17 DEF Room
  <2>2. Room' = [Room EXCEPT ![a] = Flight[t]]
    <3>1. Room'[a] = Flight[t] BY <1>5, <1>9, <1>11, <1>17 DEF Room
    <3>2. ASSUME NEW b \in Arrays \ {a} PROVE Room'[b] = Room[b] BY <1>17, <1>19 DEF Room
    <3>3. Room' = [b \in Arrays |-> Room'[b]] BY DEF Room
    <3> QED BY <3>1, <3>2, <3>3, <1>4
  <2>3. Flight' = [Flight EXCEPT ![t] = {}]
    <3>1. \A u \in Clients : u # t => Flight'[u] = Flight[u] BY <1>10 DEF Flight
    <3>2. Flight'[t] = {} BY <1>10 DEF Flight, Idling
    <3>3. Flight' = [u \in Clients |-> Flight'[u]] BY DEF Flight
    <3> QED BY <3>1, <3>2, <3>3, <1>4
  <2>4. Divided(DOMAIN memory, [Room EXCEPT ![a] = Flight[t]], [Flight EXCEPT ![t] = {}]) BY <2>1, <1>4, FromThread
  <2> QED BY <2>2, <2>3, <2>4, <1>13
<1>21. TableInv'
  <2>1. ASSUME NEW b \in Arrays, IsOwner(b)' PROVE arrays'[b].pointer \in DOMAIN sizes'
    <3>1. CASE b = a BY <3>1, <1>9, <1>11
    <3>2. CASE b # a BY <3>2, <2>1, <1>11, <1>17, <1>19 DEF AllocInv, TableInv
    <3> QED BY <3>1, <3>2
  <2>2. ASSUME NEW b \in DOMAIN sizes' PROVE \E x \in Arrays : IsOwner(x)' /\ arrays'[x].pointer = b
    <3>1. CASE b = base BY <3>1, <1>9, <1>17
    <3>2. CASE b # base
      <4>1. b \in DOMAIN sizes BY <3>2, <1>11
      <4>2. PICK x \in Arrays : IsOwner(x) /\ arrays[x].pointer = b BY <4>1 DEF AllocInv, TableInv
      <4> QED BY <4>2, <1>17, <1>19
    <3> QED BY <3>1, <3>2
  <2> QED BY <2>1, <2>2 DEF TableInv
<1>22. ContentInv'
  <2> SUFFICES ASSUME NEW b \in Arrays, IsOwner(b)'
               PROVE  /\ arrays'[b].dims <= sizes'[arrays'[b].pointer]
                      /\ \A p \in Block(arrays'[b].pointer, arrays'[b].dims) : memory'[p] = expected'[b]
    BY DEF ContentInv
  <2>1. CASE b = a
    <3>1. arrays'[b].dims <= sizes'[arrays'[b].pointer] BY <2>1, <1>3, <1>9, <1>11
    <3>2. ASSUME NEW p \in Block(base, dims) PROVE memory'[p] = expected'[a]
      <4>1. p \in DOMAIN memory BY <1>4, <1>5 DEF Divided
      <4>2. CASE now.op = "copy"
        <5>1. IsOwner(s) /\ arrays[s].dims = dims BY <4>2, <1>3 DEF IsOwner
        <5>2. arrays[s].pointer \in Nat BY <5>1, Spread
        <5>3. arrays[s].pointer + p - base \in Block(arrays[s].pointer, dims) BY <5>2 DEF Block
        <5>4. memory[arrays[s].pointer + p - base] = expected[s] BY <5>1, <5>3 DEF AllocInv, ContentInv
        <5>5. memory'[p] = memory[arrays[s].pointer + p - base] BY <4>1, <4>2, <1>8
        <5>6. expected'[a] = expected[s] BY <4>2, <1>8 DEF AllocInv, MemoryTypes
        <5> QED BY <5>4, <5>5, <5>6
      <4>3. CASE now.op # "copy"
        <5>1. memory'[p] = memory[p] BY <4>3, <1>8
        <5>2. memory[p] = Unwritten BY <1>1, <1>5 DEF AllocInv, FreshInv
        <5>3. expected'[a] = Unwritten BY <4>3, <1>8 DEF AllocInv, MemoryTypes
        <5> QED BY <5>1, <5>2, <5>3
      <4> QED BY <4>2, <4>3
    <3> QED BY <2>1, <3>1, <3>2, <1>9
  <2>2. CASE b # a
    <3>1. IsOwner(b) /\ arrays'[b] = arrays[b] /\ sizes'[arrays[b].pointer] = sizes[arrays[b].pointer] /\ expected'[b] = expected[b]
      BY <2>2, <1>12, <1>17, <1>19
    <3>2. Block(arrays[b].pointer, arrays[b].dims) \subseteq Room[b] BY <3>1, WithinRoom
    <3>3. Room[b] \subseteq DOMAIN memory /\ Room[b] \cap Flight[t] = {} BY <1>4 DEF Divided
    <3>4. \A p \in Block(arrays[b].pointer, arrays[b].dims) : memory'[p] = memory[p] BY <3>2, <3>3, <1>5, <1>13
    <3> QED BY <3>1, <3>4 DEF AllocInv, ContentInv
  <2> QED BY <2>1, <2>2
<1>23. FreshInv'
  <2>1. ASSUME NEW u \in Clients, doing'[u].step = "insert"
        PROVE  doing[u].step = "insert" /\ Flight'[u] = Flight[u] /\ \A p \in Flight[u] : memory'[p] = memory[p]
    <3>1. u # t BY <2>1, <1>10 DEF Idling
    <3>2. doing[u].step = "insert" /\ Flight'[u] = Flight[u] BY <3>1, <2>1, <1>10 DEF Flight
    <3>3. Flight[u] \subseteq DOMAIN memory /\ Flight[u] \cap Flight[t] = {} BY <3>1, <1>4 DEF Divided
    <3> QED BY <3>2, <3>3, <1>5, <1>13
  <2> QED BY <2>1, FreshStays
<1> QED BY <1>14, <1>18, <1>20, <1>21, <1>22, <1>23 DEF AllocInv

-----------------------------------------------------------------------------
LEMMA AllocationBegins == AllocationInit => AllocInv
<1> SUFFICES ASSUME AllocationInit PROVE AllocInv OBVIOUS
<1>1. /\ memory = <<>> /\ sizes = <<>> /\ terminated = FALSE
      /\ \A a \in Arrays : arrays[a] = Unborn
      /\ \A t \in Clients : doing[t] = Idling
  BY DEF AllocationInit
<1>2. DOMAIN memory = {} /\ DOMAIN sizes = {} BY <1>1
<1>3. Unborn \in ArrayType BY DEF Unborn, ArrayType
<1>4. \A a \in Arrays : ~Owns(a) /\ ~IsOwner(a) BY <1>1 DEF Owns, IsOwner, Lives
<1>5. \A t \in Clients : ~Busy(t) /\ doing[t].step = "idle" BY <1>1 DEF Busy, Idling
<1>6. MemoryTypes BY <1>2, <1>3, <1>4 DEF AllocationInit, MemoryTypes
<1>7. OperationsInv BY <1>5 DEF OperationsInv
<1>8. \A a \in Arrays : Room[a] = {} BY <1>4 DEF Room
<1>9. \A t \in Clients : Flight[t] = {} BY <1>5 DEF Flight
<1>10. Divided(DOMAIN memory, Room, Flight) BY <1>2, <1>8, <1>9 DEF Divided
<1>11. TableInv /\ ContentInv /\ FreshInv BY <1>2, <1>4, <1>5 DEF TableInv, ContentInv, FreshInv
<1> QED BY <1>6, <1>7, <1>10, <1>11 DEF AllocInv

\* Each operation on arrays and on the table keeps the memory divided.
THEOREM AllocationSteps == AllocInv /\ [AllocationNext]_memory_vars => AllocInv'
<1> SUFFICES ASSUME AllocInv, [AllocationNext]_memory_vars PROVE AllocInv' OBVIOUS
<1>1. CASE UNCHANGED memory_vars
  <2>1. UNCHANGED <<memory, sizes, arrays, doing, terminated, expected>> BY <1>1 DEF memory_vars
  <2>2. \A a \in Arrays : (Owns(a)' <=> Owns(a)) /\ (Leaving(a)' <=> Leaving(a)) /\ (Lives(a)' <=> Lives(a))
    BY <2>1 DEF Owns, Lives, Leaving
  <2>3. \A a \in Arrays : IsOwner(a)' <=> IsOwner(a) BY <2>2 DEF IsOwner
  <2>4. Room' = Room /\ Flight' = Flight BY <2>1, <2>3 DEF Room, Flight
  <2>5. MemoryTypes' BY <2>1, <2>2 DEF AllocInv, MemoryTypes
  <2>6. TableInv' /\ ContentInv' BY <2>1, <2>3 DEF AllocInv, TableInv, ContentInv
  <2>7. FreshInv' BY <2>1, <2>4, FreshStays
  <2>8. OperationsInv'
    <3>1. ASSUME NEW t \in Clients, Busy(t) PROVE Relies(doing[t])'
      <4>1. doing[t].to \in Arrays /\ doing[t].from \in Arrays /\ Relies(doing[t]) BY <3>1, UsedAlone
      <4> QED BY <4>1, <2>1, <2>2 DEF Relies
    <3> QED BY <3>1, <2>1 DEF AllocInv, OperationsInv, Busy
  <2> QED BY <2>1, <2>4, <2>5, <2>6, <2>7, <2>8 DEF AllocInv
<1>2. ASSUME NEW t \in Clients, ClientStep(t) PROVE AllocInv'
  BY <1>2, EraseStep, GiveBackStep, MapFailsStep, InsertStep, MapPagesStep DEF ClientStep
<1>3. ASSUME NEW a \in Arrays, OneArray(a) PROVE AllocInv'
  BY <1>3, DestroyStep, ConstructStep, FillStep DEF OneArray
<1>4. ASSUME NEW a \in Arrays, NEW s \in Arrays, TwoArrays(a, s) PROVE AllocInv'
  BY <1>4, CopyConstructStep, CopyAssignStep, MoveConstructStep, MoveAssignStep, SwapStep DEF TwoArrays
<1> QED BY <1>1, <1>2, <1>3, <1>4 DEF AllocationNext

LEMMA DividedIsOwned == AllocInv => MemoryIsOwned
<1> SUFFICES ASSUME AllocInv PROVE MemoryIsOwned OBVIOUS
<1> DEFINE owners == {a \in Arrays : Owns(a) /\ ~(\E t \in Clients : doing[t].step = "unmap" /\ doing[t].to = a)}
           Of(a) == Block(arrays[a].pointer, sizes[arrays[a].pointer])
           InFlight == {t \in Clients : doing[t].step \in {"insert", "unmap"}}
<1>1. \A a : a \in owners <=> a \in Arrays /\ IsOwner(a) BY DEF IsOwner, Leaving
<1>2. \A a \in owners : Of(a) = Room[a] BY <1>1 DEF Room
<1>3. \A a \in Arrays : a \notin owners => Room[a] = {} BY <1>1 DEF Room
<1>4. \A t \in InFlight : Block(doing[t].base, doing[t].pages) = Flight[t] BY DEF Flight
<1>5. \A t \in Clients : t \notin InFlight => Flight[t] = {} BY DEF Flight
<1> HIDE DEF InFlight
<1>6. InFlight \subseteq Clients /\ owners \subseteq Arrays BY DEF InFlight
<1> HIDE DEF owners, Of
<1>7. ~terminated BY DEF AllocInv, MemoryTypes
<1>8. DOMAIN sizes = {arrays[a].pointer : a \in owners} BY <1>1 DEF AllocInv, TableInv
<1>9. Divided(DOMAIN memory, Room, Flight) BY DEF AllocInv
<1>10. DOMAIN memory = UNION ({Of(a) : a \in owners} \cup {Block(doing[t].base, doing[t].pages) : t \in InFlight})
  <2>1. \A p : p \in DOMAIN memory <=> (\E a \in owners : p \in Of(a)) \/ (\E t \in InFlight : p \in Block(doing[t].base, doing[t].pages))
    BY <1>2, <1>3, <1>4, <1>5, <1>6, <1>9 DEF Divided
  <2> QED BY <2>1
<1>11. \A a \in owners : \A b \in owners \ {a} : Of(a) \cap Of(b) = {} BY <1>2, <1>6, <1>9 DEF Divided
<1>12. \A a \in owners : /\ arrays[a].dims <= sizes[arrays[a].pointer]
                         /\ \A p \in Block(arrays[a].pointer, arrays[a].dims) : memory[p] = expected[a]
  BY <1>1 DEF AllocInv, ContentInv
<1> QED BY <1>7, <1>8, <1>10, <1>11, <1>12 DEF MemoryIsOwned, owners, Of, InFlight

\* However threads interleave and wherever the system refuses memory, the table of the
\* allocator knows exactly the mappings there are, and every array has memory of its own
\* that holds what was put into it.
THEOREM MemoryStaysOwned == AllocationSpec => []MemoryIsOwned
<1> QED BY AllocationBegins, AllocationSteps, DividedIsOwned, PTL DEF AllocationSpec

-----------------------------------------------------------------------------
(***************************************************************************)
(* Mapped files.                                                           *)
(***************************************************************************)

MapTypes ==
  /\ file \in {Absent} \cup Nat
  /\ DOMAIN mappings \subseteq Nat /\ \A a \in DOMAIN mappings : mappings[a] \in Nat
  /\ held \in [Pointers -> [ptr : Nat \cup {Null}, base : Nat \cup {Null}, size : Nat]]

OneOwner ==
  /\ \A p \in Pointers : Set(p) => held[p].base \in DOMAIN mappings /\ held[p].size = mappings[held[p].base]
  /\ \A a \in DOMAIN mappings : \E p \in Pointers : Set(p) /\ held[p].base = a
  /\ \A p, q \in Pointers : Set(p) /\ Set(q) /\ held[p].base = held[q].base => p = q

WithinFile == \A a \in DOMAIN mappings : file # Absent /\ mappings[a] <= file

FileIsKept ==
  called # <<>> =>
    /\ called.before # Absent => file = called.before /\ (called.policy = "MustCreate" => called.throws)
    /\ called.before = Absent /\ file # Absent => called.policy # "MustUseExisting"

MapInv == MapTypes /\ ~unmapped /\ OneOwner /\ WithinFile /\ FileIsKept

LEMMA InvHolds == MapInv => MappingsAreHeld
<1> SUFFICES ASSUME MapInv PROVE MappingsAreHeld OBVIOUS
<1> DEFINE holders == {p \in Pointers : Set(p)}
<1>1. DOMAIN mappings = {held[p].base : p \in holders} BY DEF MapInv, OneOwner
<1>2. /\ \A p \in holders : held[p].base \in DOMAIN mappings /\ held[p].size = mappings[held[p].base]
      /\ \A p, q \in holders : held[p].base = held[q].base => p = q
  BY DEF MapInv, OneOwner
<1>3. ~unmapped /\ WithinFile /\ FileIsKept BY DEF MapInv
<1> QED BY <1>1, <1>2, <1>3 DEF MappingsAreHeld, WithinFile, FileIsKept

\* What a pointer unmaps is there, and it is its own.
LEMMA UnmapSucceeds ==
  ASSUME MapInv, NEW p \in Pointers
  PROVE  /\ ~UnmapFails(p)
         /\ Set(p) => DOMAIN Released(p) = DOMAIN mappings \ {held[p].base}
         /\ ~Set(p) => DOMAIN Released(p) = DOMAIN mappings
         /\ \A a \in DOMAIN Released(p) : Released(p)[a] = mappings[a]
BY DEF MapInv, OneOwner, UnmapFails, Released

\* Afterwards each pointer has what it had or what another had, and nobody has what p had.
LEMMA Rearranged ==
  ASSUME MapInv, NEW p \in Pointers, MapTypes', UNCHANGED <<file, called>>, ~unmapped',
         mappings' = Released(p),
         NEW f,
         \A q \in Pointers : Set(q)' => f[q] \in Pointers /\ held'[q] = held[f[q]] /\ Set(f[q]) /\ f[q] # p,
         \A q \in Pointers : Set(q) /\ q # p => \E r \in Pointers : Set(r)' /\ f[r] = q,
         \A q, r \in Pointers : Set(q)' /\ Set(r)' /\ f[q] = f[r] => q = r
  PROVE  MapInv'
<1>1. /\ Set(p) => DOMAIN mappings' = DOMAIN mappings \ {held[p].base}
      /\ ~Set(p) => DOMAIN mappings' = DOMAIN mappings
      /\ \A a \in DOMAIN mappings' : mappings'[a] = mappings[a]
  BY UnmapSucceeds
<1>2. OneOwner'
  <2>1. \A q \in Pointers : Set(q)' => held'[q].base \in DOMAIN mappings' /\ held'[q].size = mappings'[held'[q].base]
    BY <1>1 DEF MapInv, OneOwner
  <2>2. ASSUME NEW a \in DOMAIN mappings' PROVE \E q \in Pointers : Set(q)' /\ held'[q].base = a
    <3>1. PICK q \in Pointers : Set(q) /\ held[q].base = a BY <1>1 DEF MapInv, OneOwner
    <3> QED BY <1>1, <3>1
  <2>3. \A q, r \in Pointers : Set(q)' /\ Set(r)' /\ held'[q].base = held'[r].base => q = r
    BY DEF MapInv, OneOwner
  <2> QED BY <2>1, <2>2, <2>3 DEF OneOwner
<1>3. WithinFile' BY <1>1 DEF MapInv, WithinFile
<1>4. FileIsKept' BY DEF MapInv, FileIsKept
<1> QED BY <1>2, <1>3, <1>4 DEF MapInv

LEMMA UnmapStep ==
  ASSUME MapInv, NEW p \in Pointers, Unmap(p)
  PROVE  MapInv'
<1>1. /\ ~unmapped' /\ mappings' = Released(p) /\ UNCHANGED <<file, called>>
      /\ held' = [held EXCEPT ![p] = NoMapping] /\ held \in [Pointers -> [ptr : Nat \cup {Null}, base : Nat \cup {Null}, size : Nat]]
  BY UnmapSucceeds DEF Unmap, MapInv, MapTypes
<1>2. MapTypes' BY <1>1, UnmapSucceeds DEF MapInv, MapTypes, NoMapping
<1>3. \A q \in Pointers : Set(q)' <=> Set(q) /\ q # p BY <1>1 DEF Set, NoMapping
<1>4. \A q \in Pointers \ {p} : held'[q] = held[q] BY <1>1
<1> DEFINE f == [q \in Pointers |-> q]
<1>5. \A q \in Pointers : f[q] = q OBVIOUS
<1> HIDE DEF f
<1>6. \A q \in Pointers : Set(q)' => f[q] \in Pointers /\ held'[q] = held[f[q]] /\ Set(f[q]) /\ f[q] # p BY <1>3, <1>4, <1>5
<1>7. \A q \in Pointers : Set(q) /\ q # p => \E r \in Pointers : Set(r)' /\ f[r] = q BY <1>3, <1>5
<1>8. \A q, r \in Pointers : Set(q)' /\ Set(r)' /\ f[q] = f[r] => q = r BY <1>5
<1> QED BY <1>1, <1>2, <1>6, <1>7, <1>8, Rearranged

LEMMA MoveStep ==
  ASSUME MapInv, NEW p \in Pointers, NEW q \in Pointers, MoveFrom(p, q)
  PROVE  MapInv'
<1>1. /\ ~unmapped' /\ mappings' = Released(p) /\ UNCHANGED <<file, called>>
      /\ held \in [Pointers -> [ptr : Nat \cup {Null}, base : Nat \cup {Null}, size : Nat]]
  BY UnmapSucceeds DEF MoveFrom, MapInv, MapTypes
<1>2. /\ held' \in [Pointers -> [ptr : Nat \cup {Null}, base : Nat \cup {Null}, size : Nat]]
      /\ held'[q] = NoMapping /\ (p # q => held'[p] = held[q])
      /\ \A r \in Pointers \ {p, q} : held'[r] = held[r]
  BY <1>1 DEF MoveFrom, NoMapping
<1>3. MapTypes' BY <1>1, <1>2, UnmapSucceeds DEF MapInv, MapTypes
<1>4. \A r \in Pointers : Set(r)' <=> (r = p /\ p # q /\ Set(q)) \/ (r \notin {p, q} /\ Set(r))
  BY <1>2 DEF Set, NoMapping
<1> DEFINE f == [r \in Pointers |-> IF r = p THEN q ELSE r]
<1>6. \A r \in Pointers : f[r] = IF r = p THEN q ELSE r OBVIOUS
<1> HIDE DEF f
<1>7. \A r \in Pointers : Set(r)' => f[r] \in Pointers /\ held'[r] = held[f[r]] /\ Set(f[r]) /\ f[r] # p BY <1>2, <1>4, <1>6
<1>8. \A r \in Pointers : Set(r) /\ r # p => \E s \in Pointers : Set(s)' /\ f[s] = r BY <1>4, <1>6
<1>9. \A r, s \in Pointers : Set(r)' /\ Set(s)' /\ f[r] = f[s] => r = s BY <1>4, <1>6
<1> QED BY <1>1, <1>3, <1>7, <1>8, <1>9, Rearranged

\* A file that is there is not changed, and it is long enough for what is mapped.
LEMMA PreparedFiles ==
  ASSUME MapInv, NEW policy \in Policies, NEW bytes \in 0 .. MaxBytes, NEW s \in Prepared(policy, bytes)
  PROVE  /\ s.file \in {Absent} \cup Nat
         /\ file # Absent => s.file = file /\ (policy = "MustCreate" => s.ok = FALSE)
         /\ file = Absent /\ s.file # Absent => policy # "MustUseExisting"
         /\ s.ok = FALSE \/ (s.file # Absent /\ bytes <= s.file)
<1> USE MemoryMapAssumption
<1>1. file \in {Absent} \cup Nat /\ bytes \in Nat BY DEF MapInv, MapTypes
<1>2. ASSUME NEW f, s = [file |-> f, ok |-> FALSE] PROVE s.file = f /\ s.ok = FALSE BY ONLY <1>2
<1>3. ASSUME NEW f, s = [file |-> f, ok |-> TRUE] PROVE s.file = f BY ONLY <1>3
<1>4. CASE file = Absent /\ policy = "MustUseExisting"
  <2>1. s = [file |-> file, ok |-> FALSE] BY <1>4 DEF Prepared
  <2>2. s.file = file /\ s.ok = FALSE BY <2>1, <1>2
  <2> QED BY <2>2, <1>1, <1>4
<1>5. CASE file = Absent /\ policy # "MustUseExisting"
  <2>1. \/ s = [file |-> Absent, ok |-> FALSE]
        \/ s = [file |-> 0, ok |-> FALSE]
        \/ s = [file |-> bytes, ok |-> TRUE]
    BY <1>5 DEF Prepared
  <2>2. (s.ok = FALSE /\ s.file \in {Absent, 0}) \/ s.file = bytes BY <2>1, <1>2, <1>3
  <2> QED BY <2>2, <1>1, <1>5
<1>6. CASE file # Absent
  <2>1. s = [file |-> file, ok |-> FALSE] \/ (s = [file |-> file, ok |-> TRUE] /\ policy # "MustCreate" /\ file >= bytes)
    BY <1>6 DEF Prepared
  <2>2. s.file = file /\ (s.ok = FALSE \/ (policy # "MustCreate" /\ file >= bytes)) BY <2>1, <1>2, <1>3
  <2> QED BY <2>2, <1>1, <1>6
<1> QED BY <1>4, <1>5, <1>6

LEMMA MapFileStep ==
  ASSUME MapInv, NEW p \in Pointers, NEW policy \in Policies, NEW bytes \in 0 .. MaxBytes, NEW offset \in 0 .. 1,
         MapFile(p, policy, bytes, offset)
  PROVE  MapInv'
<1> USE MemoryMapAssumption
<1> PICK s \in Prepared(policy, bytes) :
      /\ file' = s.file
      /\ \/ /\ s.ok /\ bytes > 0
            /\ \E a \in Addresses \ DOMAIN mappings :
                 /\ unmapped' = UnmapFails(p)
                 /\ mappings' = [b \in DOMAIN Released(p) \cup {a} |-> IF b = a THEN bytes ELSE Released(p)[b]]
                 /\ held' = [held EXCEPT ![p] = [ptr |-> a + offset, base |-> a, size |-> bytes]]
            /\ called' = [policy |-> policy, before |-> file, throws |-> FALSE]
         \/ /\ called' = [policy |-> policy, before |-> file, throws |-> TRUE]
            /\ UNCHANGED <<mappings, held, unmapped>>
  BY DEF MapFile
<1>1. /\ file' \in {Absent} \cup Nat
      /\ file # Absent => file' = file /\ (policy = "MustCreate" => s.ok = FALSE)
      /\ (file = Absent /\ file' # Absent => policy # "MustUseExisting")
      /\ s.ok = FALSE \/ (file' # Absent /\ bytes <= file')
  BY PreparedFiles
<1>2. \/ called' = [policy |-> policy, before |-> file, throws |-> FALSE] /\ s.ok
      \/ called' = [policy |-> policy, before |-> file, throws |-> TRUE]
  OBVIOUS
<1>3. FileIsKept' BY <1>1, <1>2 DEF FileIsKept
<1>4. \A a \in DOMAIN mappings : file' # Absent /\ mappings[a] <= file'
  BY <1>1 DEF MapInv, WithinFile
<1>5. CASE UNCHANGED <<mappings, held, unmapped>>
  <2>1. MapTypes' BY <1>5, <1>1 DEF MapInv, MapTypes
  <2>2. \A q \in Pointers : Set(q)' <=> Set(q) BY <1>5 DEF Set
  <2>3. OneOwner' BY <1>5, <2>2 DEF MapInv, OneOwner
  <2>4. WithinFile' BY <1>4, <1>5 DEF WithinFile
  <2>5. ~unmapped' BY <1>5 DEF MapInv
  <2> QED BY <1>3, <2>1, <2>3, <2>4, <2>5 DEF MapInv
<1>6. ASSUME NEW a \in Addresses \ DOMAIN mappings, s.ok,
             unmapped' = UnmapFails(p),
             mappings' = [b \in DOMAIN Released(p) \cup {a} |-> IF b = a THEN bytes ELSE Released(p)[b]],
             held' = [held EXCEPT ![p] = [ptr |-> a + offset, base |-> a, size |-> bytes]]
      PROVE  MapInv'
  <2>1. a \in Nat BY FS_CardinalityType DEF Addresses
  <2>2. /\ held' \in [Pointers -> [ptr : Nat \cup {Null}, base : Nat \cup {Null}, size : Nat]]
        /\ held'[p] = [ptr |-> a + offset, base |-> a, size |-> bytes]
        /\ \A q \in Pointers \ {p} : held'[q] = held[q]
    BY <1>6, <2>1 DEF MapInv, MapTypes
  <2> DEFINE rest == DOMAIN mappings' \ {a}
  <2>3. /\ Set(p) => DOMAIN Released(p) = DOMAIN mappings \ {held[p].base}
        /\ ~Set(p) => DOMAIN Released(p) = DOMAIN mappings
        /\ \A b \in DOMAIN Released(p) : Released(p)[b] = mappings[b]
        /\ ~UnmapFails(p)
    BY UnmapSucceeds
  <2>4. /\ a \notin DOMAIN mappings /\ a \in DOMAIN mappings' /\ mappings'[a] = bytes
        /\ \A b \in rest : b \in DOMAIN mappings /\ mappings'[b] = mappings[b] /\ (Set(p) => b # held[p].base)
        /\ \A b \in DOMAIN mappings : (Set(p) => b # held[p].base) => b \in rest
    BY <1>6, <2>3
  <2>5. MapTypes' BY <1>1, <2>1, <2>2, <2>4 DEF MapInv, MapTypes
  <2>6. Set(p)' /\ \A q \in Pointers \ {p} : Set(q)' <=> Set(q)
    BY <2>1, <2>2, MemoryMapAssumption DEF Set
  <2>7. ASSUME NEW q \in Pointers, q # p, Set(q)
        PROVE  held[q].base \in rest /\ held[q].size = mappings[held[q].base]
    BY <2>4, <2>7 DEF MapInv, OneOwner
  <2> HIDE DEF rest
  <2>8. OneOwner'
    <3>1. \A q \in Pointers : Set(q)' => held'[q].base \in DOMAIN mappings' /\ held'[q].size = mappings'[held'[q].base]
      BY <2>2, <2>4, <2>6, <2>7 DEF rest
    <3>2. \A q, r \in Pointers : Set(q)' /\ Set(r)' /\ held'[q].base = held'[r].base => q = r
      <4>1. \A q \in Pointers : q # p /\ Set(q) => held[q].base # a BY <2>7 DEF rest
      <4> QED BY <4>1, <2>2, <2>6 DEF MapInv, OneOwner
    <3>3. ASSUME NEW b \in DOMAIN mappings' PROVE \E q \in Pointers : Set(q)' /\ held'[q].base = b
      <4>1. CASE b = a BY <4>1, <2>2, <2>6
      <4>2. CASE b # a
        <5>1. b \in rest BY <4>2 DEF rest
        <5>2. b \in DOMAIN mappings /\ (Set(p) => b # held[p].base) BY <5>1, <2>4
        <5>3. PICK q \in Pointers : Set(q) /\ held[q].base = b BY <5>2 DEF MapInv, OneOwner
        <5> QED BY <5>2, <5>3, <2>2, <2>6
      <4> QED BY <4>1, <4>2
    <3> QED BY <3>1, <3>2, <3>3 DEF OneOwner
  <2>9. WithinFile' BY <1>1, <1>4, <1>6, <2>4 DEF WithinFile, rest
  <2>10. ~unmapped' BY <1>6, <2>3
  <2> QED BY <1>3, <2>5, <2>8, <2>9, <2>10 DEF MapInv
<1> QED BY <1>5, <1>6

\* Opening, mapping, moving and unmapping keep what each pointer and mapping know of each other.
THEOREM MapSteps == MapInv /\ [MapNext]_map_vars => MapInv'
<1> SUFFICES ASSUME MapInv, [MapNext]_map_vars PROVE MapInv' OBVIOUS
<1>1. CASE UNCHANGED map_vars BY <1>1 DEF map_vars, MapInv, MapTypes, OneOwner, WithinFile, FileIsKept, Set
<1>2. ASSUME NEW p \in Pointers, Unmap(p) PROVE MapInv' BY <1>2, UnmapStep
<1>3. ASSUME NEW p \in Pointers, NEW q \in Pointers, MoveFrom(p, q) PROVE MapInv' BY <1>3, MoveStep
<1>4. ASSUME NEW p \in Pointers, NEW policy \in Policies, NEW bytes \in 0 .. MaxBytes, NEW offset \in 0 .. 1,
             MapFile(p, policy, bytes, offset)
      PROVE  MapInv'
  BY <1>4, MapFileStep
<1> QED BY <1>1, <1>2, <1>3, <1>4 DEF MapNext

\* MMapPtr and MemoryMapper, for any number of pointers and every size: what is mapped has
\* one owner, nothing else is unmapped, and no file is overrun or changed.
THEOREM MappingsStayHeld == MapSpec => []MappingsAreHeld
<1>1. MapInit => MapInv
  BY MemoryMapAssumption DEF MapInit, MapInv, MapTypes, OneOwner, WithinFile, FileIsKept, NoMapping, Set
<1> QED BY <1>1, InvHolds, MapSteps, PTL DEF MapSpec

-----------------------------------------------------------------------------
(***************************************************************************)
(* Shared search parameters.                                               *)
(***************************************************************************)

Caller == [stage : {"none", "get", "set", "read", "write"}, call : SharedCalls \cup {[kind |-> "none"]},
           word : {1, 2}, got : Int \X Int]

SharedTypes ==
  /\ words \in [SharedObjects -> Int \X Int]
  /\ locks \in [SharedObjects -> [shared : SUBSET SharedThreads, unique : SUBSET SharedThreads]]
  /\ callers \in [SharedThreads -> Caller]
  /\ \A t \in SharedThreads : callers[t].stage # "none" => callers[t].call \in SharedCalls
  /\ \A t \in SharedThreads : callers[t].stage \in {"none", "get", "set"} => callers[t].word = 1
  /\ budget \in Nat /\ given \subseteq Int \X Int

Moves(t) == callers[t].call.kind = "move"

Copying(t, o) == callers[t].stage = "read" /\ ~Moves(t) /\ callers[t].call.from = o

Changing(t, o) ==
  \/ callers[t].stage = "read" /\ Moves(t) /\ callers[t].call.from = o
  \/ callers[t].stage = "write" /\ callers[t].call.to = o

\* The locks are those of the threads that are in an object, and who changes one is alone.
LocksInv ==
  \A o \in SharedObjects :
    /\ \A t \in SharedThreads : (t \in locks[o].shared <=> Copying(t, o)) /\ (t \in locks[o].unique <=> Changing(t, o))
    /\ \A t, u \in SharedThreads : Changing(t, o) /\ (Changing(u, o) \/ Copying(u, o)) => t = u

\* What has been copied, and what is left of an object, half way through.
HalfWay(t) ==
  LET now == callers[t]
      from == words[now.call.from]
      to == words[now.call.to]
  IN  /\ now.stage \in {"none", "set", "write"} => now.got \in Whole
      /\ now.stage = "read" /\ ~Moves(t) /\ now.word = 2 => now.got[1] = from[1]
      /\ now.stage = "read" /\ Moves(t) /\ now.word = 1 => from \in Whole
      /\ now.stage = "read" /\ Moves(t) /\ now.word = 2 => from[1] = MovedFrom[1] /\ <<now.got[1], from[2]>> \in Whole
      /\ now.stage = "write" /\ now.word = 1 => to \in Whole
      /\ now.stage = "write" /\ now.word = 2 => to[1] = now.got[1]

HalfWayInv == \A t \in SharedThreads : HalfWay(t)

UnlockedInv == \A o \in SharedObjects : locks[o].unique = {} => words[o] \in Whole

SharedInv == SharedTypes /\ LocksInv /\ HalfWayInv /\ UnlockedInv

LEMMA CallFields ==
  ASSUME NEW c \in SharedCalls
  PROVE  /\ c.from \in SharedObjects /\ c.to \in SharedObjects
         /\ c.kind \in {"get", "update", "set", "assign", "move"}
         /\ c.kind \in {"get", "update", "set"} => c.from = c.to
         /\ c.kind \in {"assign", "move"} => c.from # c.to
BY DEF SharedCalls

LEMMA SharedStarts == SharedInit => SharedInv
<1> SUFFICES ASSUME SharedInit PROVE SharedInv OBVIOUS
<1> USE SharedAssumption DEF SharedInit, AtRest, Free, MovedFrom, Whole
<1>1. SharedTypes BY DEF SharedTypes, Caller
<1>2. LocksInv BY DEF LocksInv, Copying, Changing
<1>3. HalfWayInv BY DEF HalfWayInv, HalfWay
<1>4. UnlockedInv BY DEF UnlockedInv
<1> QED BY <1>1, <1>2, <1>3, <1>4 DEF SharedInv

LEMMA CallStep ==
  ASSUME SharedInv, NEW t \in SharedThreads, CallShared(t)
  PROVE  SharedInv'
<1> USE SharedAssumption
<1> PICK c \in SharedCalls :
      /\ callers' = [callers EXCEPT ![t] = [stage |-> IF c.kind = "set" THEN "set" ELSE "get", call |-> c, word |-> 1,
                                            got |-> IF c.kind = "set" THEN NewValue(t) ELSE <<0, 0>>]]
      /\ given' = IF c.kind = "set" THEN given \cup {NewValue(t)} ELSE given
  BY DEF CallShared
<1>1. /\ callers[t].stage = "none" /\ budget > 0 /\ budget' = budget - 1
      /\ words' = words /\ locks' = locks
  BY DEF CallShared
<1>2. NewValue(t) \in Int \X Int BY DEF NewValue, SharedInv, SharedTypes
<1>3. SharedTypes' BY <1>1, <1>2 DEF SharedInv, SharedTypes, Caller
<1>4. \A u \in SharedThreads : u # t => callers'[u] = callers[u]
  BY DEF SharedInv, SharedTypes
<1>5. callers'[t].stage \in {"get", "set"} /\ callers'[t].got = IF c.kind = "set" THEN NewValue(t) ELSE <<0, 0>>
  BY DEF SharedInv, SharedTypes
<1>51. callers'[t].stage = "set" => callers'[t].got = NewValue(t) /\ NewValue(t) \in given'
  BY <1>5 DEF SharedInv, SharedTypes
<1>6. \A u \in SharedThreads, o \in SharedObjects :
        (Copying(u, o)' <=> Copying(u, o)) /\ (Changing(u, o)' <=> Changing(u, o))
  BY <1>1, <1>4, <1>5 DEF Copying, Changing, Moves
<1>7. LocksInv' BY <1>6, <1>1 DEF LocksInv, SharedInv
<1>8. Whole \subseteq Whole' BY DEF Whole
<1>9. UnlockedInv' BY <1>8, <1>1 DEF UnlockedInv, SharedInv
<1>10. HalfWayInv'
  <2> SUFFICES ASSUME NEW u \in SharedThreads PROVE HalfWay(u)' BY DEF HalfWayInv
  <2>1. CASE u = t BY <2>1, <1>5, <1>51 DEF Whole, HalfWay
  <2>2. CASE u # t BY <2>2, <1>4, <1>8, <1>1 DEF HalfWayInv, SharedInv, Moves, HalfWay
  <2> QED BY <2>1, <2>2
<1> QED BY <1>3, <1>7, <1>9, <1>10 DEF SharedInv

LEMMA LockStep ==
  ASSUME SharedInv, NEW t \in SharedThreads, LockShared(t) \/ LockUnique(t)
  PROVE  SharedInv'
<1> USE SharedAssumption
<1> DEFINE now == callers[t]
           object == IF now.stage = "get" THEN now.call.from ELSE now.call.to
           writes == now.stage = "set" \/ (now.stage = "get" /\ Moves(t))
<1>1. /\ now.stage \in {"get", "set"} /\ locks[object].unique = {} /\ (writes => locks[object].shared = {})
      /\ locks' \in [SharedObjects -> [shared : SUBSET SharedThreads, unique : SUBSET SharedThreads]]
      /\ \A o \in SharedObjects \ {object} : locks'[o] = locks[o]
      /\ locks'[object].shared = IF writes THEN {} ELSE locks[object].shared \cup {t}
      /\ locks'[object].unique = IF writes THEN {t} ELSE {}
      /\ callers' = [callers EXCEPT ![t].stage = IF now.stage = "get" THEN "read" ELSE "write"]
      /\ words' = words /\ given' = given /\ budget' = budget
  <2>1. now.stage # "none" => now.call \in SharedCalls BY DEF SharedInv, SharedTypes
  <2>3. CASE LockShared(t)
    <3>1. /\ now.stage = "get" /\ ~writes /\ now.call.from = object /\ locks[object].unique = {}
          /\ locks' = [locks EXCEPT ![object].shared = @ \cup {t}]
          /\ callers' = [callers EXCEPT ![t].stage = "read"]
          /\ words' = words /\ given' = given /\ budget' = budget
      BY <2>3 DEF LockShared, Moves
    <3>2. object \in SharedObjects BY <3>1, <2>1, CallFields
    <3> HIDE DEF now, object, writes
    <3> QED BY <3>1, <3>2 DEF SharedInv, SharedTypes, MayWrite, Free
  <2>4. CASE LockUnique(t)
    <3>1. /\ now.stage \in {"get", "set"} /\ writes /\ MayWrite(object)
          /\ locks' = [locks EXCEPT ![object].unique = {t}]
          /\ callers' = [callers EXCEPT ![t].stage = IF now.stage = "get" THEN "read" ELSE "write"]
          /\ words' = words /\ given' = given /\ budget' = budget
      <4>1. CASE now.stage = "get" BY <2>4, <4>1 DEF LockUnique, Moves
      <4>2. CASE now.stage # "get" BY <2>4, <4>2 DEF LockUnique, Moves
      <4> QED BY <4>1, <4>2
    <3>2. object \in SharedObjects BY <3>1, <2>1, CallFields
    <3>3. locks[object].shared = {} /\ locks[object].unique = {} BY <3>1 DEF MayWrite, Free
    <3> HIDE DEF now, object, writes
    <3> QED BY <3>1, <3>2, <3>3 DEF SharedInv, SharedTypes
  <2> QED BY <2>3, <2>4
<1>2. now.call \in SharedCalls /\ now.word = 1 /\ now \in Caller /\ object \in SharedObjects
  BY <1>1, CallFields DEF SharedInv, SharedTypes
<1> HIDE DEF object
<1>3. \A u \in SharedThreads : u # t => callers'[u] = callers[u]
  BY <1>1 DEF SharedInv, SharedTypes
<1>4. callers'[t] = [now EXCEPT !.stage = IF now.stage = "get" THEN "read" ELSE "write"]
  BY <1>1 DEF SharedInv, SharedTypes
<1>5. /\ callers'[t].stage = (IF now.stage = "get" THEN "read" ELSE "write")
      /\ callers'[t].call = now.call /\ callers'[t].word = 1 /\ callers'[t].got = now.got
  BY <1>4, <1>2 DEF Caller
<1>6. SharedTypes'
  BY <1>1, <1>2, <1>3, <1>5 DEF SharedInv, SharedTypes, Caller
<1>7. /\ \A u \in SharedThreads \ {t}, o \in SharedObjects :
           (Copying(u, o)' <=> Copying(u, o)) /\ (Changing(u, o)' <=> Changing(u, o))
      /\ \A o \in SharedObjects : ~Copying(t, o) /\ ~Changing(t, o)
      /\ \A o \in SharedObjects : Copying(t, o)' <=> ~writes /\ o = object
      /\ \A o \in SharedObjects : Changing(t, o)' <=> writes /\ o = object
  <2>1. Moves(t)' <=> Moves(t) BY <1>5 DEF Moves
  <2>2. CASE now.stage = "get"
    BY <2>1, <2>2, <1>3, <1>5 DEF Copying, Changing, object, Moves
  <2>3. CASE now.stage = "set"
    BY <2>1, <2>3, <1>3, <1>5 DEF Copying, Changing, object, Moves
  <2> QED BY <2>2, <2>3, <1>1
<1>8. LocksInv'
  <2>2. \A u \in SharedThreads : ~Changing(u, object) /\ (writes => ~Copying(u, object))
    BY <1>1, <1>2 DEF SharedInv, LocksInv
  <2> HIDE DEF writes
  <2>3. ASSUME NEW o \in SharedObjects, NEW u \in SharedThreads
        PROVE  (u \in locks'[o].shared <=> Copying(u, o)') /\ (u \in locks'[o].unique <=> Changing(u, o)')
    <3>1. (u \in locks[o].shared <=> Copying(u, o)) /\ (u \in locks[o].unique <=> Changing(u, o))
      BY DEF SharedInv, LocksInv
    <3>2. CASE o = object BY <3>1, <3>2, <1>1, <2>2, <1>7
    <3>3. CASE o # object BY <3>1, <3>3, <1>1, <1>7
    <3> QED BY <3>2, <3>3
  <2>4. ASSUME NEW o \in SharedObjects, NEW u \in SharedThreads, NEW v \in SharedThreads,
               Changing(u, o)', Changing(v, o)' \/ Copying(v, o)'
        PROVE  u = v
    <3>1. Changing(u, o) /\ (Changing(v, o) \/ Copying(v, o)) => u = v BY DEF SharedInv, LocksInv
    <3> QED BY <3>1, <2>2, <2>4, <1>7
  <2> QED BY <2>3, <2>4 DEF LocksInv
<1>9. Whole' = Whole BY <1>1 DEF Whole
<1>10. words[object] \in Whole BY <1>1, <1>2 DEF SharedInv, UnlockedInv
<1>11. HalfWayInv'
  <2> SUFFICES ASSUME NEW u \in SharedThreads PROVE HalfWay(u)' BY DEF HalfWayInv
  <2>1. CASE u = t
    <3>1. Moves(t)' <=> Moves(t) BY <1>5 DEF Moves
    <3>2. CASE now.stage = "get"
      <4>1. words'[callers'[t].call.from] \in Whole BY <3>2, <1>1, <1>5, <1>10 DEF object
      <4> QED BY <2>1, <3>1, <3>2, <4>1, <1>5, <1>9 DEF HalfWay
    <3>3. CASE now.stage = "set"
      <4>1. words'[callers'[t].call.to] \in Whole BY <3>3, <1>1, <1>5, <1>10 DEF object
      <4>2. now.got \in Whole BY <3>3 DEF SharedInv, HalfWayInv, HalfWay
      <4> QED BY <2>1, <3>1, <3>3, <4>1, <4>2, <1>5, <1>9 DEF HalfWay
    <3> QED BY <3>2, <3>3, <1>1
  <2>2. CASE u # t BY <2>2, <1>1, <1>3, <1>9 DEF HalfWayInv, SharedInv, Moves, HalfWay
  <2> QED BY <2>1, <2>2
<1>12. UnlockedInv'
  <2>1. \A o \in SharedObjects : locks'[o].unique = {} => locks[o].unique = {}
    BY <1>1, <1>2 DEF SharedInv, SharedTypes
  <2> QED BY <2>1, <1>1, <1>9 DEF UnlockedInv, SharedInv
<1> QED BY <1>6, <1>8, <1>11, <1>12 DEF SharedInv

LEMMA ReadStep ==
  ASSUME SharedInv, NEW t \in SharedThreads, ReadWord(t)
  PROVE  SharedInv'
<1> USE SharedAssumption
<1> DEFINE now == callers[t]
           from == now.call.from
           kind == now.call.kind
           w == now.word
           last == w = 2
           read == [now.got EXCEPT ![w] = words[from][w]]
           kept == IF kind = "update" THEN [read EXCEPT ![1] = NewValue(t)[1]] ELSE read
           ends == IF kind = "get" THEN "none" ELSE "set"
<1>1. now.stage = "read" /\ now.call \in SharedCalls /\ from \in SharedObjects /\ w \in {1, 2} /\ now.got \in Int \X Int
  BY CallFields DEF ReadWord, SharedInv, SharedTypes, Caller
<1>2. kind \in {"get", "update", "set", "assign", "move"} BY <1>1, CallFields
<1>3. /\ words' = IF kind = "move" THEN [words EXCEPT ![from][w] = MovedFrom[w]] ELSE words
      /\ callers' = [callers EXCEPT ![t] = CASE ~last -> [@ EXCEPT !.word = 2, !.got = read]
                                             [] last /\ kind = "get" -> AtRest(read)
                                             [] OTHER -> [@ EXCEPT !.word = 1, !.got = kept, !.stage = "set"]]
      /\ given' = IF last /\ kind = "update" THEN given \cup {kept} ELSE given
      /\ locks' = IF last THEN [locks EXCEPT ![from] = [shared |-> @.shared \ {t}, unique |-> @.unique \ {t}]] ELSE locks
      /\ budget' = budget
  BY DEF ReadWord
<1>4. words[from] \in Int \X Int /\ NewValue(t) \in Int \X Int
  <2>1. words[from] \in Int \X Int BY <1>1 DEF SharedInv, SharedTypes
  <2>2. t \in Nat /\ budget \in Nat BY DEF SharedInv, SharedTypes
  <2> QED BY <2>1, <2>2 DEF NewValue
<1>5. /\ read = IF last THEN <<now.got[1], words[from][2]>> ELSE <<words[from][1], now.got[2]>>
      /\ read \in Int \X Int
  BY <1>1, <1>4
<1>6. kept \in Int \X Int /\ (kind # "update" => kept = read)
  BY <1>5, <1>4
<1> HIDE DEF read, kept
<1>7. /\ \A u \in SharedThreads : u # t => callers'[u] = callers[u]
      /\ ~last => callers'[t] = [now EXCEPT !.word = 2, !.got = read]
      /\ last => /\ callers'[t].stage = ends /\ callers'[t].word = 1 /\ callers'[t].got = kept
                 /\ kind = "get" => callers'[t] = AtRest(kept)
                 /\ kind # "get" => callers'[t] = [now EXCEPT !.word = 1, !.got = kept, !.stage = "set"]
  <2>1. callers \in [SharedThreads -> Caller] BY DEF SharedInv, SharedTypes
  <2>2. now \in Caller BY <2>1
  <2> HIDE DEF now, ends, kind, w
  <2>3. CASE ~last BY <2>1, <2>3, <1>3 DEF now
  <2>4. CASE last /\ kind = "get"
    BY <2>1, <2>4, <1>3, <1>6 DEF AtRest, ends
  <2>5. CASE last /\ kind # "get"
    <3>1. callers'[t] = [now EXCEPT !.word = 1, !.got = kept, !.stage = "set"] BY <2>1, <2>5, <1>3 DEF now
    <3> QED BY <2>1, <2>2, <2>5, <3>1, <1>3 DEF ends, Caller
  <2> QED BY <2>3, <2>4, <2>5
<1>8. /\ ~last => callers'[t].stage = "read" /\ callers'[t].call = now.call /\ callers'[t].word = 2 /\ callers'[t].got = read
      /\ last /\ kind # "get" => callers'[t].call = now.call
      /\ callers' \in [SharedThreads -> Caller]
  <2>1. callers \in [SharedThreads -> Caller] /\ now \in Caller BY DEF SharedInv, SharedTypes
  <2>2. callers'[t] \in Caller
    <3>1. CASE ~last BY <2>1, <3>1, <1>5, <1>7 DEF Caller
    <3>2. CASE last /\ kind = "get" BY <2>1, <3>2, <1>6, <1>7 DEF Caller, AtRest
    <3>3. CASE last /\ kind # "get" BY <2>1, <3>3, <1>6, <1>7 DEF Caller
    <3> QED BY <3>1, <3>2, <3>3
  <2>3. DOMAIN callers' = SharedThreads /\ callers' = [u \in SharedThreads |-> callers'[u]] BY <2>1, <1>3
  <2>4. \A u \in SharedThreads : callers'[u] \in Caller BY <2>1, <2>2, <1>7
  <2>5. callers' \in [SharedThreads -> Caller] BY <2>3, <2>4
  <2> QED BY <2>1, <2>5, <1>1, <1>7 DEF Caller
<1>9. /\ words' \in [SharedObjects -> Int \X Int]
      /\ \A o \in SharedObjects \ {from} : words'[o] = words[o]
      /\ words'[from] = IF kind # "move" THEN words[from]
                        ELSE IF last THEN <<words[from][1], MovedFrom[2]>> ELSE <<MovedFrom[1], words[from][2]>>
  <2>1. words \in [SharedObjects -> Int \X Int] BY DEF SharedInv, SharedTypes
  <2>2. MovedFrom[1] \in Int /\ MovedFrom[2] \in Int BY DEF MovedFrom
  <2> HIDE DEF kind, w, from
  <2>3. CASE kind # "move" BY <2>1, <2>3, <1>1, <1>3
  <2>4. CASE kind = "move"
    <3>1. words' = [words EXCEPT ![from] = [words[from] EXCEPT ![w] = MovedFrom[w]]] BY <2>4, <1>3
    <3>2. [words[from] EXCEPT ![w] = MovedFrom[w]] = IF last THEN <<words[from][1], MovedFrom[2]>> ELSE <<MovedFrom[1], words[from][2]>>
      BY <1>1, <1>4
    <3> QED BY <2>1, <2>2, <2>4, <3>1, <3>2, <1>1, <1>4
  <2> QED BY <2>3, <2>4
<1>10. /\ locks' \in [SharedObjects -> [shared : SUBSET SharedThreads, unique : SUBSET SharedThreads]]
       /\ \A o \in SharedObjects : last /\ o = from => locks'[o].shared = locks[o].shared \ {t} /\ locks'[o].unique = locks[o].unique \ {t}
       /\ \A o \in SharedObjects : ~last \/ o # from => locks'[o] = locks[o]
  BY <1>1, <1>3 DEF SharedInv, SharedTypes
<1>11. SharedTypes'
  <2>1. \A u \in SharedThreads : callers'[u].stage # "none" => callers'[u].call \in SharedCalls
    BY <1>1, <1>7, <1>8 DEF SharedInv, SharedTypes
  <2>2. \A u \in SharedThreads : callers'[u].stage \in {"none", "get", "set"} => callers'[u].word = 1
    BY <1>7, <1>8 DEF SharedInv, SharedTypes
  <2> QED BY <2>1, <2>2, <1>3, <1>6, <1>8, <1>9, <1>10 DEF SharedInv, SharedTypes
<1>12. Moves(t) <=> kind = "move" BY DEF Moves
<1>13. /\ \A u \in SharedThreads \ {t}, o \in SharedObjects :
            (Copying(u, o)' <=> Copying(u, o)) /\ (Changing(u, o)' <=> Changing(u, o))
       /\ \A o \in SharedObjects : (Copying(t, o) <=> kind # "move" /\ o = from) /\ (Changing(t, o) <=> kind = "move" /\ o = from)
       /\ \A o \in SharedObjects : (Copying(t, o)' <=> ~last /\ Copying(t, o)) /\ (Changing(t, o)' <=> ~last /\ Changing(t, o))
  BY <1>1, <1>7, <1>8 DEF Copying, Changing, Moves
<1>14. LocksInv'
  <2>1. ASSUME NEW o \in SharedObjects, NEW u \in SharedThreads
        PROVE  (u \in locks'[o].shared <=> Copying(u, o)') /\ (u \in locks'[o].unique <=> Changing(u, o)')
    <3>1. (u \in locks[o].shared <=> Copying(u, o)) /\ (u \in locks[o].unique <=> Changing(u, o))
      BY DEF SharedInv, LocksInv
    <3> QED BY <3>1, <1>10, <1>13
  <2>2. ASSUME NEW o \in SharedObjects, NEW u \in SharedThreads, NEW v \in SharedThreads,
               Changing(u, o)', Changing(v, o)' \/ Copying(v, o)'
        PROVE  u = v
    <3>1. Changing(u, o) /\ (Changing(v, o) \/ Copying(v, o)) => u = v BY DEF SharedInv, LocksInv
    <3> QED BY <3>1, <2>2, <1>13
  <2> QED BY <2>1, <2>2 DEF LocksInv
<1>15. Whole \subseteq Whole' BY <1>3 DEF Whole
<1>16. kind # "move" => words[from] \in Whole
  <2>1. kind # "move" => locks[from].unique = {}
    <3> SUFFICES ASSUME kind # "move", NEW u \in locks[from].unique PROVE FALSE OBVIOUS
    <3>1. u \in SharedThreads BY <1>1 DEF SharedInv, SharedTypes
    <3>2. Copying(t, from) /\ Changing(u, from) BY <3>1, <1>1, <1>13 DEF SharedInv, LocksInv
    <3>3. u = t BY <3>1, <3>2, <1>1 DEF SharedInv, LocksInv
    <3> QED BY <3>2, <3>3, <1>1, <1>13
  <2> QED BY <2>1, <1>1 DEF SharedInv, UnlockedInv
<1>17. last => kept \in Whole'
  <2>1. CASE kind = "update" BY <2>1, <1>3 DEF Whole
  <2>2. CASE kind = "move"
    <3>1. last => <<now.got[1], words[from][2]>> \in Whole
      BY <2>2, <1>1, <1>12 DEF SharedInv, HalfWayInv, HalfWay
    <3> QED BY <2>2, <3>1, <1>5, <1>6, <1>15
  <2>3. CASE kind \notin {"update", "move"}
    <3>1. last => now.got[1] = words[from][1] BY <2>3, <1>1, <1>12 DEF SharedInv, HalfWayInv, HalfWay
    <3>2. last => kept = words[from] BY <2>3, <3>1, <1>4, <1>5, <1>6
    <3> QED BY <2>3, <3>2, <1>15, <1>16
  <2> QED BY <2>1, <2>2, <2>3
<1>18. HalfWayInv'
  <2> SUFFICES ASSUME NEW u \in SharedThreads PROVE HalfWay(u)' BY DEF HalfWayInv
  <2>1. CASE u = t
    <3>1. CASE last BY <2>1, <3>1, <1>7, <1>17 DEF HalfWay
    <3>2. CASE ~last
      <4>1. Moves(t)' <=> Moves(t) BY <3>2, <1>8 DEF Moves
      <4>2. kind # "move" => words'[from] = words[from] /\ read[1] = words[from][1] BY <3>2, <1>5, <1>9, <1>4
      <4>3. kind = "move" => words[from] \in Whole BY <3>2, <1>1, <1>12 DEF SharedInv, HalfWayInv, HalfWay
      <4>4. kind = "move" => words'[from][1] = MovedFrom[1] /\ <<read[1], words'[from][2]>> = words[from]
        BY <3>2, <1>4, <1>5, <1>9
      <4> QED BY <2>1, <3>2, <4>1, <4>2, <4>3, <4>4, <1>8, <1>12, <1>15 DEF HalfWay
    <3> QED BY <3>1, <3>2
  <2>2. CASE u # t
    <3>1. callers'[u] = callers[u] /\ HalfWay(u) BY <2>2, <1>7 DEF SharedInv, HalfWayInv
    <3>2. callers[u].stage \in {"read", "write"} => callers[u].call.from \in SharedObjects /\ callers[u].call.to \in SharedObjects
      BY CallFields DEF SharedInv, SharedTypes
    <3>3. ASSUME NEW o \in SharedObjects, Copying(u, o) \/ Changing(u, o) PROVE words'[o] = words[o]
      <4>1. kind = "move" => o # from BY <2>2, <3>3, <1>1, <1>13 DEF SharedInv, LocksInv
      <4> QED BY <4>1, <1>9
    <3>4. callers[u].stage = "read" => words'[callers[u].call.from] = words[callers[u].call.from]
      BY <3>2, <3>3 DEF Copying, Changing
    <3>5. callers[u].stage = "write" => words'[callers[u].call.to] = words[callers[u].call.to]
      BY <3>2, <3>3 DEF Copying, Changing
    <3>6. Moves(u)' <=> Moves(u) BY <3>1 DEF Moves
    <3> QED BY <3>1, <3>4, <3>5, <3>6, <1>15 DEF HalfWay
  <2> QED BY <2>1, <2>2
<1>19. UnlockedInv'
  <2> SUFFICES ASSUME NEW o \in SharedObjects, locks'[o].unique = {} PROVE words'[o] \in Whole' BY DEF UnlockedInv
  <2>1. CASE o # from \/ kind # "move"
    <3>1. words'[o] = words[o] BY <2>1, <1>9
    <3>2. locks[o].unique = {}
      <4>1. ~Changing(t, o) BY <2>1, <1>13
      <4>2. t \notin locks[o].unique BY <4>1 DEF SharedInv, LocksInv
      <4> QED BY <4>2, <1>10
    <3> QED BY <3>1, <3>2, <1>15 DEF SharedInv, UnlockedInv
  <2>2. CASE o = from /\ kind = "move"
    <3>1. last
      <4>1. t \in locks[o].unique BY <2>2, <1>13 DEF SharedInv, LocksInv
      <4> QED BY <4>1, <1>10
    <3>2. words[from][1] = MovedFrom[1] BY <2>2, <3>1, <1>1, <1>12 DEF SharedInv, HalfWayInv, HalfWay
    <3>3. words'[o] = MovedFrom BY <2>2, <3>1, <3>2, <1>9 DEF MovedFrom
    <3> QED BY <3>3 DEF Whole
  <2> QED BY <2>1, <2>2
<1> QED BY <1>11, <1>14, <1>18, <1>19 DEF SharedInv

LEMMA WriteStep ==
  ASSUME SharedInv, NEW t \in SharedThreads, WriteWord(t)
  PROVE  SharedInv'
<1> DEFINE now == callers[t]
           to == now.call.to
           w == now.word
<1>1. now.stage = "write" /\ now \in Caller /\ now.call \in SharedCalls /\ to \in SharedObjects /\ w \in {1, 2}
  BY CallFields DEF WriteWord, SharedInv, SharedTypes, Caller
<1>2. /\ words' = [words EXCEPT ![to][w] = now.got[w]]
      /\ callers' = [callers EXCEPT ![t] = IF w = 1 THEN [@ EXCEPT !.word = 2] ELSE AtRest(now.got)]
      /\ locks' = IF w = 2 THEN [locks EXCEPT ![to].unique = {}] ELSE locks
      /\ budget' = budget /\ given' = given
  BY DEF WriteWord
<1>3. words[to] \in Int \X Int /\ now.got \in Int \X Int /\ now.got \in Whole
  BY <1>1 DEF SharedInv, SharedTypes, HalfWayInv, HalfWay, Caller
<1>4. /\ \A u \in SharedThreads : u # t => callers'[u] = callers[u]
      /\ w = 1 => callers'[t] = [now EXCEPT !.word = 2]
      /\ w = 2 => callers'[t] = AtRest(now.got)
  BY <1>1, <1>2 DEF SharedInv, SharedTypes
<1>5. /\ w = 1 => callers'[t].stage = "write" /\ callers'[t].call = now.call /\ callers'[t].word = 2 /\ callers'[t].got = now.got
      /\ w = 2 => callers'[t].stage = "none" /\ callers'[t].word = 1 /\ callers'[t].got = now.got
  BY <1>1, <1>4 DEF Caller, AtRest
<1>6. callers' \in [SharedThreads -> Caller]
  <2>1. callers'[t] \in Caller BY <1>1, <1>3, <1>4 DEF Caller, AtRest
  <2>2. DOMAIN callers' = SharedThreads /\ callers' = [u \in SharedThreads |-> callers'[u]]
    BY <1>2 DEF SharedInv, SharedTypes
  <2>3. \A u \in SharedThreads : callers'[u] \in Caller BY <2>1, <1>4 DEF SharedInv, SharedTypes
  <2> QED BY <2>2, <2>3
<1>7. /\ words' \in [SharedObjects -> Int \X Int]
      /\ \A o \in SharedObjects \ {to} : words'[o] = words[o]
      /\ words'[to] = IF w = 1 THEN <<now.got[1], words[to][2]>> ELSE <<words[to][1], now.got[2]>>
  <2>1. words' = [words EXCEPT ![to] = [words[to] EXCEPT ![w] = now.got[w]]] BY <1>2
  <2>2. [words[to] EXCEPT ![w] = now.got[w]] = IF w = 1 THEN <<now.got[1], words[to][2]>> ELSE <<words[to][1], now.got[2]>>
    BY <1>1, <1>3
  <2>3. words \in [SharedObjects -> Int \X Int] BY DEF SharedInv, SharedTypes
  <2> HIDE DEF w, to, now
  <2> QED BY <2>1, <2>2, <2>3, <1>1, <1>3
<1>8. w = 2 => words'[to] = now.got
  <2>1. w = 2 => words[to][1] = now.got[1] BY <1>1 DEF SharedInv, HalfWayInv, HalfWay
  <2> QED BY <2>1, <1>3, <1>7
<1>9. /\ locks' \in [SharedObjects -> [shared : SUBSET SharedThreads, unique : SUBSET SharedThreads]]
      /\ \A o \in SharedObjects : w = 2 /\ o = to => locks'[o].shared = locks[o].shared /\ locks'[o].unique = {}
      /\ \A o \in SharedObjects : w = 1 \/ o # to => locks'[o] = locks[o]
  BY <1>1, <1>2 DEF SharedInv, SharedTypes
<1>10. SharedTypes'
  <2>1. \A u \in SharedThreads : callers'[u].stage # "none" => callers'[u].call \in SharedCalls
    BY <1>1, <1>4, <1>5 DEF SharedInv, SharedTypes
  <2>2. \A u \in SharedThreads : callers'[u].stage \in {"none", "get", "set"} => callers'[u].word = 1
    BY <1>1, <1>4, <1>5 DEF SharedInv, SharedTypes
  <2> QED BY <2>1, <2>2, <1>2, <1>6, <1>7, <1>9 DEF SharedInv, SharedTypes
<1>11. /\ \A u \in SharedThreads \ {t}, o \in SharedObjects :
            (Copying(u, o)' <=> Copying(u, o)) /\ (Changing(u, o)' <=> Changing(u, o))
       /\ \A o \in SharedObjects : ~Copying(t, o) /\ ~Copying(t, o)' /\ (Changing(t, o) <=> o = to)
       /\ \A o \in SharedObjects : Changing(t, o)' <=> w = 1 /\ o = to
  BY <1>1, <1>4, <1>5 DEF Copying, Changing, Moves
<1>12. \A u \in SharedThreads \ {t} : ~Changing(u, to) /\ ~Copying(u, to)
  BY <1>1, <1>11 DEF SharedInv, LocksInv
<1>13. LocksInv'
  <2>1. ASSUME NEW o \in SharedObjects, NEW u \in SharedThreads
        PROVE  (u \in locks'[o].shared <=> Copying(u, o)') /\ (u \in locks'[o].unique <=> Changing(u, o)')
    <3>1. (u \in locks[o].shared <=> Copying(u, o)) /\ (u \in locks[o].unique <=> Changing(u, o))
      BY DEF SharedInv, LocksInv
    <3> QED BY <3>1, <1>1, <1>9, <1>11, <1>12
  <2>2. ASSUME NEW o \in SharedObjects, NEW u \in SharedThreads, NEW v \in SharedThreads,
               Changing(u, o)', Changing(v, o)' \/ Copying(v, o)'
        PROVE  u = v
    <3>1. Changing(u, o) /\ (Changing(v, o) \/ Copying(v, o)) => u = v BY DEF SharedInv, LocksInv
    <3> QED BY <3>1, <2>2, <1>11
  <2> QED BY <2>1, <2>2 DEF LocksInv
<1>14. Whole' = Whole BY <1>2 DEF Whole
<1>15. HalfWayInv'
  <2> SUFFICES ASSUME NEW u \in SharedThreads PROVE HalfWay(u)' BY DEF HalfWayInv
  <2>1. CASE u = t
    <3>1. CASE w = 1
      <4>1. words'[to][1] = now.got[1] BY <3>1, <1>7, <1>3
      <4> QED BY <2>1, <3>1, <4>1, <1>3, <1>5, <1>14 DEF HalfWay
    <3>2. CASE w = 2 BY <2>1, <3>2, <1>3, <1>5, <1>14 DEF HalfWay
    <3> QED BY <3>1, <3>2, <1>1
  <2>2. CASE u # t
    <3>1. callers'[u] = callers[u] /\ HalfWay(u) BY <2>2, <1>4 DEF SharedInv, HalfWayInv
    <3>2. callers[u].stage \in {"read", "write"} => callers[u].call.from \in SharedObjects /\ callers[u].call.to \in SharedObjects
      BY CallFields DEF SharedInv, SharedTypes
    <3>3. ASSUME NEW o \in SharedObjects, Copying(u, o) \/ Changing(u, o) PROVE words'[o] = words[o]
      BY <2>2, <3>3, <1>7, <1>12
    <3>4. callers[u].stage = "read" => words'[callers[u].call.from] = words[callers[u].call.from]
      BY <3>2, <3>3 DEF Copying, Changing
    <3>5. callers[u].stage = "write" => words'[callers[u].call.to] = words[callers[u].call.to]
      BY <3>2, <3>3 DEF Copying, Changing
    <3>6. Moves(u)' <=> Moves(u) BY <3>1 DEF Moves
    <3> QED BY <3>1, <3>4, <3>5, <3>6, <1>14 DEF HalfWay
  <2> QED BY <2>1, <2>2
<1>16. UnlockedInv'
  <2> SUFFICES ASSUME NEW o \in SharedObjects, locks'[o].unique = {} PROVE words'[o] \in Whole' BY DEF UnlockedInv
  <2>1. CASE o # to BY <2>1, <1>7, <1>9, <1>14 DEF SharedInv, UnlockedInv
  <2>2. CASE o = to
    <3>1. ~Changing(t, o)' BY <1>13 DEF LocksInv
    <3> QED BY <2>2, <3>1, <1>1, <1>3, <1>8, <1>11, <1>14
  <2> QED BY <2>1, <2>2
<1> QED BY <1>10, <1>13, <1>15, <1>16 DEF SharedInv

\* Readers and writers keep the words whole except where a writer is half-way.
THEOREM SharedSteps == SharedInv /\ [SharedNext]_shared_vars => SharedInv'
<1> SUFFICES ASSUME SharedInv, [SharedNext]_shared_vars PROVE SharedInv' OBVIOUS
<1>1. CASE UNCHANGED shared_vars
  BY <1>1 DEF shared_vars, SharedInv, SharedTypes, LocksInv, Copying, Changing, Moves, HalfWayInv, HalfWay, UnlockedInv, Whole
<1>2. ASSUME NEW t \in SharedThreads, CallShared(t) PROVE SharedInv' BY <1>2, CallStep
<1>3. ASSUME NEW t \in SharedThreads, LockShared(t) \/ LockUnique(t) PROVE SharedInv' BY <1>3, LockStep
<1>4. ASSUME NEW t \in SharedThreads, ReadWord(t) PROVE SharedInv' BY <1>4, ReadStep
<1>5. ASSUME NEW t \in SharedThreads, WriteWord(t) PROVE SharedInv' BY <1>5, WriteStep
<1> QED BY <1>1, <1>2, <1>3, <1>4, <1>5 DEF SharedNext

\* ReadWriteProtected, for any number of objects, threads and calls: what is got was given
\* whole to a set, and no thread waits for a lock while it holds one.
THEOREM ParametersAreWhole == SharedSpec => []ValuesAreWhole
<1>1. SharedInv => ValuesAreWhole
  <2> SUFFICES ASSUME SharedInv PROVE ValuesAreWhole OBVIOUS
  <2>1. \A t \in SharedThreads : callers[t].stage \in {"none", "set", "write"} => callers[t].got \in Whole
    BY DEF SharedInv, HalfWayInv, HalfWay
  <2>2. \A o \in SharedObjects : locks[o].unique = {} => words[o] \in Whole BY DEF SharedInv, UnlockedInv
  <2>3. \A t \in SharedThreads : callers[t].stage \in {"get", "set"} =>
          \A o \in SharedObjects : t \notin locks[o].shared \cup locks[o].unique
    BY DEF SharedInv, LocksInv, Copying, Changing
  <2> QED BY <2>1, <2>2, <2>3 DEF ValuesAreWhole
<1> QED BY <1>1, SharedStarts, SharedSteps, PTL DEF SharedSpec
=============================================================================
