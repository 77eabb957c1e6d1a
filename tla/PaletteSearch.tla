--------------------------- MODULE PaletteSearch ---------------------------
(***************************************************************************)
(* The `palette` command of the laboratory, src/tools/lab/palette_gate.cpp: *)
(* threads take jobs from a counter under a mutex; each job is a simulated *)
(* annealing with a seed of its own, which keeps the views of its colours  *)
(* and recomputes only the one it moves; the best results are evaluated.   *)
(*                                                                         *)
(* A colour is one channel, its linear value in thousandths, so that it is *)
(* its own luminance; View is where a vision condition puts it.  What the  *)
(* generator of a seed yields is a constant.                               *)
(***************************************************************************)
EXTENDS Integers, Sequences, FiniteSets, SequencesExt

CONSTANTS PaletteSize,     \* the colours of a palette, 4
          Conditions,      \* how many vision conditions; 1 is normal vision
          View(_, _),      \* a colour's coordinate under a condition
          Hue(_),          \* by which equivalent palettes print alike
          KeepsHue(_, _),  \* near enough in hue, and colourful enough
          FrameGrey,       \* the colour of the frame
          GateDistance,    \* 20
          Stages,          \* the searches, in order
          Picks,           \* the palettes picked by eye that are tried
          Jobs,
          Iterations(_),   \* 3000 if the run is quick, else 40000
          Draws,           \* what the generators may yield
          BandSteps        \* bisections of into_band: 40 in the program

Channel == 0..1000
Palette == [1..PaletteSize -> Channel]
Move == [slot : 1..PaletteSize, raw : Nat, lucky : BOOLEAN]

\* A stage's radius is 0 for none, and its count is how many distinct results are
\* kept.
ASSUME PaletteAssumption ==
  /\ PaletteSize \in Nat /\ PaletteSize >= 2
  /\ Conditions \in Nat \ {0} /\ Jobs \in Nat \ {0}
  /\ BandSteps \in Nat /\ 2 ^ BandSteps \in Nat \ {0}
  /\ \A quick \in BOOLEAN : Iterations(quick) \in Nat
  /\ Picks \subseteq Palette
  /\ \A c \in Channel, n \in 1..Conditions : View(c, n) \in Int
  /\ Stages \in Seq([start : {"picked", "random"}, frame : BOOLEAN, step : Nat,
                      radius : Nat, hue : BOOLEAN, count : Nat])

VARIABLES palette_pc,  \* "idle", "band", "stage", "pool", "done"
          pool,        \* how many threads there are
          iterations,  \* of a job
          draws,       \* stage, job -> its draws
          picked,      \* the palette picked by eye
          banded, band, \* its colours in the band, and the bisection of the next
          stage,
          searcher,    \* per thread: its job and the state of the search
          next, next_mutex,
          results,     \* per job
          reports,
          palette_rc

palette_job == <<pool, iterations, draws, picked>>
band_vars == <<banded, band>>
palette_vars == <<palette_pc, palette_job, band_vars, stage, searcher, next, next_mutex,
                  results, reports, palette_rc>>

-----------------------------------------------------------------------------
(* Colours *)

Distance(x, y) == IF x < y THEN y - x ELSE x - y
Lowest(S) == CHOOSE x \in S : \A y \in S : x <= y

\* At least 3:1, of two luminances.
Contrasts(y, bg) ==
  IF y < bg THEN bg + 50 >= 3 * (y + 50) ELSE y + 50 >= 3 * (bg + 50)

\* White, and #121212.
AllowedColour(c) == Contrasts(c, 1000) /\ Contrasts(c, 6)

Chromatic(c) == Distance(View(c, 1), View(FrameGrey, 1)) >= GateDistance

ViewsOf(c) == [n \in 1..Conditions |-> View(c, n)]

PairsOf(p) == {q \in (DOMAIN p) \X (DOMAIN p) : q[1] < q[2]}

\* The smallest distance of two colours under any condition.
Objective(views) ==
  Lowest({Distance(views[q[1]][n], views[q[2]][n]) :
            q \in PairsOf(views), n \in 1..Conditions})

\* The first smallest distance, by condition and then by pair; and the gate.
Evaluate(p) ==
  LET D(n, q) == Distance(View(p[q[1]], n), View(p[q[2]], n))
      least   == Lowest({D(n, q) : n \in 1..Conditions, q \in PairsOf(p)})
      where   == Lowest({n \in 1..Conditions : \E q \in PairsOf(p) : D(n, q) = least})
  IN  [colours |-> p, ucs_min |-> least, where |-> where,
       pair |-> CHOOSE q \in PairsOf(p) :
                  /\ D(where, q) = least
                  /\ \A r \in PairsOf(p) : D(where, r) = least =>
                       q[1] < r[1] \/ (q[1] = r[1] /\ q[2] <= r[2]),
       frame_min |-> Lowest({Distance(View(p[i], 1), View(FrameGrey, 1)) : i \in DOMAIN p}),
       gate |-> least >= GateDistance
                /\ \A i \in DOMAIN p : Contrasts(p[i], 1000) /\ Contrasts(p[i], 6)]

Canonical(p) == SortSeq(p, LAMBDA a, b : Hue(a) < Hue(b))

Clamped(v) == IF v < 0 THEN 0 ELSE IF v > 1000 THEN 1000 ELSE v

\* Scaled by t towards black, or mixed with white by 1 - t; t in 1/2^BandSteps.
Scaled(c, t) ==
  Clamped(IF ~Contrasts(c, 1000) THEN (c * t) \div 2 ^ BandSteps
          ELSE 1000 - ((1000 - c) * t) \div 2 ^ BandSteps)

-----------------------------------------------------------------------------
(* anneal: a search is [start, it, p, views, current, best] *)

NewSearch(start) ==
  LET views == [i \in DOMAIN start |-> ViewsOf(start[i])]
      score == Objective(views)
  IN  [start |-> start, it |-> 0, p |-> start, views |-> views, current |-> score,
       best |-> [score |-> score, colours |-> start]]

\* The bound of a move shrinks with the iterations.
StepAt(st, it) ==
  LET s == (st.step * (iterations - it)) \div iterations IN IF s < 1 THEN 1 ELSE s

Moved(st, s, draw) ==
  Clamped(s.p[draw.slot] + (draw.raw % (2 * StepAt(st, s.it) + 1)) - StepAt(st, s.it))

\* What a colour has to keep to.
Keeps(st, c, anchor) ==
  /\ AllowedColour(c) /\ (st.frame => Chromatic(c))
  /\ st.hue => KeepsHue(c, anchor)
  /\ st.radius > 0 => Distance(View(c, 1), View(anchor, 1)) <= st.radius

Accepted(s, p, views, score) ==
  [s EXCEPT !.it = @ + 1, !.p = p, !.views = views, !.current = score,
            !.best = IF score > @.score THEN [score |-> score, colours |-> p] ELSE @]

\* Mutant: the views of a colour that is turned down are kept.
RejectedStale(s, views) == [s EXCEPT !.it = @ + 1, !.views = views]

Rejected(s, views) == [s EXCEPT !.it = @ + 1]

\* A colour is moved; a palette that is worse is accepted by luck only.
Iterate(st, s, draw) ==
  LET c     == Moved(st, s, draw)
      views == [s.views EXCEPT ![draw.slot] = ViewsOf(c)]
      score == Objective(views)
  IN  IF ~Keeps(st, c, s.start[draw.slot]) THEN [s EXCEPT !.it = @ + 1]
      ELSE IF score >= s.current \/ draw.lucky
      THEN Accepted(s, [s.p EXCEPT ![draw.slot] = c], views, score)
      ELSE Rejected(s, views)

Found(s) == [s.best EXCEPT !.colours = Canonical(@)]

\* The first numbers that are allowed, one per colour of a palette.
RandomAllowed(st, numbers) ==
  SubSeq(SelectSeq(numbers, LAMBDA c : AllowedColour(c) /\ (st.frame => Chromatic(c))),
         1, PaletteSize)

\* The generators yield a move per iteration, and numbers until enough of them
\* are allowed.
ASSUME DrawsAssumption ==
  \A d \in Draws, s \in DOMAIN Stages, job \in 0..(Jobs - 1) :
    /\ \A quick \in BOOLEAN : \A n \in 1..Iterations(quick) : d[s][job].moves[n] \in Move
    /\ Stages[s].start = "random" => RandomAllowed(Stages[s], d[s][job].numbers) \in Palette

-----------------------------------------------------------------------------
(* run_jobs *)

Searchers == 0..(pool - 1)
AllEnded == \A t \in Searchers : searcher[t].at = "end"

NoSearch == [p |-> <<>>]
NoResult == [score |-> 0, colours |-> <<>>]

St == Stages[stage]
DrawsOf(job) == draws[stage][job]

StartOf(job) ==
  IF St.start = "picked" THEN banded ELSE RandomAllowed(St, DrawsOf(job).numbers)

\* Mutant: the counter is read outside the mutex.
LockCounterNot(t) ==
  /\ searcher[t].at = "lock"
  /\ searcher' = [searcher EXCEPT ![t].at = "take", ![t].job = next]
  /\ UNCHANGED <<palette_pc, palette_job, band_vars, stage, next, next_mutex,
                 results, reports, palette_rc>>

LockCounter(t) ==
  /\ searcher[t].at = "lock" /\ next_mutex = -1
  /\ next_mutex' = t
  /\ searcher' = [searcher EXCEPT ![t].at = "take", ![t].job = next]
  /\ UNCHANGED <<palette_pc, palette_job, band_vars, stage, next, results,
                 reports, palette_rc>>

\* The job is the thread's, or there is none left; the mutex is released.
TakeJob(t) ==
  LET job == searcher[t].job
  IN  /\ searcher[t].at = "take"
      /\ next_mutex' = -1
      /\ IF job >= Jobs
         THEN searcher' = [searcher EXCEPT ![t].at = "end"] /\ UNCHANGED next
         ELSE /\ next' = job + 1
              /\ searcher' = [searcher EXCEPT ![t].at = "anneal",
                                              ![t].search = NewSearch(StartOf(job))]
      /\ UNCHANGED <<palette_pc, palette_job, band_vars, stage, results,
                     reports, palette_rc>>

Anneal(t) ==
  LET me == searcher[t]
  IN  /\ me.at = "anneal"
      /\ IF me.search.it < iterations
         THEN /\ searcher' = [searcher EXCEPT ![t].search =
                   Iterate(St, @, DrawsOf(me.job).moves[@.it + 1])]
              /\ UNCHANGED results
         ELSE /\ results' = [results EXCEPT ![me.job] = Found(me.search)]
              /\ searcher' = [searcher EXCEPT ![t].at = "lock", ![t].search = NoSearch]
      /\ UNCHANGED <<palette_pc, palette_job, band_vars, stage, next,
                     next_mutex, reports, palette_rc>>

\* std::sort may leave equal scores in any order.
BestFirst ==
  {[n \in 1..Jobs |-> results[order[n]]] :
     order \in {o \in SetToSeqs(0..(Jobs - 1)) :
                  \A n \in 1..(Jobs - 1) : results[o[n]].score >= results[o[n + 1]].score}}

\* How far two palettes are from each other, colour by colour.
Apart(p, q) ==
  FoldFunction(LAMBDA d, sum : d + sum, 0,
               [i \in DOMAIN p |-> Distance(View(p[i], 1), View(q[i], 1))])

\* The best that are no near-duplicates of each other.
Distinct(found, limit) ==
  FoldLeft(LAMBDA out, r :
             IF \/ Len(out) = limit
                \/ \E n \in DOMAIN out : Apart(r.colours, out[n].colours) < GateDistance
             THEN out ELSE Append(out, r), <<>>, found)

-----------------------------------------------------------------------------
(* run_palette *)

NoBand == [n |-> 0, lo |-> 0, hi |-> 2 ^ BandSteps, best |-> <<>>]

PaletteIdle ==
  /\ palette_pc = "idle"
  /\ pool = 1 /\ iterations = 1 /\ draws = <<>> /\ picked = <<>>
  /\ banded = <<>> /\ band = NoBand
  /\ stage = 1 /\ searcher = <<>> /\ next = 0 /\ next_mutex = -1
  /\ results = [job \in 0..(Jobs - 1) |-> NoResult]
  /\ reports = <<>> /\ palette_rc = 0

StartPalette(n, quick) ==
  /\ palette_pc = "idle"
  /\ palette_pc' = "band"
  /\ pool' = n /\ iterations' = Iterations(quick)
  /\ draws' \in Draws /\ picked' \in Picks
  /\ UNCHANGED <<band_vars, stage, searcher, next, next_mutex, results, reports,
                 palette_rc>>

Colour == picked[Len(banded) + 1]

\* A bisection for the t nearest to 1 that is allowed.
Bisect ==
  LET t == (band.lo + band.hi) \div 2
      q == Scaled(Colour, t)
  IN  /\ palette_pc = "band" /\ Len(banded) < Len(picked)
      /\ ~AllowedColour(Colour) /\ band.n < BandSteps
      /\ band' = IF AllowedColour(q)
                 THEN [band EXCEPT !.n = @ + 1, !.lo = t, !.best = <<q>>]
                 ELSE [band EXCEPT !.n = @ + 1, !.hi = t]
      /\ UNCHANGED <<palette_pc, palette_job, banded, stage, searcher, next,
                     next_mutex, results, reports, palette_rc>>

\* A colour that was allowed, or that found nothing, stays as it is.
Banded ==
  /\ palette_pc = "band" /\ Len(banded) < Len(picked)
  /\ AllowedColour(Colour) \/ band.n = BandSteps
  /\ banded' = Append(banded, IF band.best = <<>> THEN Colour ELSE band.best[1])
  /\ band' = NoBand
  /\ UNCHANGED <<palette_pc, palette_job, stage, searcher, next, next_mutex,
                 results, reports, palette_rc>>

\* The palette is reported as it is and in the band, where the searches start.
ReportBand ==
  /\ palette_pc = "band" /\ Len(banded) = Len(picked)
  /\ reports' = <<[stage |-> 0, report |-> Evaluate(picked)],
                  [stage |-> 0, report |-> Evaluate(banded)]>>
  /\ palette_pc' = "stage"
  /\ UNCHANGED <<palette_job, band_vars, stage, searcher, next, next_mutex,
                 results, palette_rc>>

\* run_jobs begins: no job is taken, and the threads are made.
StartJobs ==
  /\ palette_pc = "stage" /\ stage <= Len(Stages)
  /\ palette_pc' = "pool"
  /\ next' = 0 /\ results' = [job \in 0..(Jobs - 1) |-> NoResult]
  /\ searcher' = [t \in Searchers |-> [at |-> "lock", job |-> 0, search |-> NoSearch]]
  /\ UNCHANGED <<palette_job, band_vars, stage, next_mutex, reports,
                 palette_rc>>

\* The threads are joined, and the best results reported.
JoinJobs ==
  /\ palette_pc = "pool" /\ AllEnded
  /\ \E found \in BestFirst :
       LET kept == Distinct(found, St.count)
       IN  reports' = reports \o [n \in DOMAIN kept |->
                        [stage |-> stage, report |-> Evaluate(kept[n].colours)]]
  /\ stage' = stage + 1 /\ palette_pc' = "stage"
  /\ UNCHANGED <<palette_job, band_vars, searcher, next, next_mutex, results,
                 palette_rc>>

\* The tables are written last; only the first is looked at.
WriteTables ==
  /\ palette_pc = "stage" /\ stage > Len(Stages)
  /\ palette_rc' \in {0, 1} /\ palette_pc' = "done"
  /\ UNCHANGED <<palette_job, band_vars, stage, searcher, next, next_mutex,
                 results, reports>>

Searcher(t) ==
  /\ palette_pc = "pool"
  /\ LockCounter(t) \/ TakeJob(t) \/ Anneal(t)

PaletteNext ==
  \/ Bisect \/ Banded \/ ReportBand \/ StartJobs \/ JoinJobs \/ WriteTables
  \/ \E t \in Searchers : Searcher(t)

-----------------------------------------------------------------------------
(* Properties *)

\* The state a search of anneal keeps agrees with itself at every iteration: the
\* cached views are those of its colours, whether the last move was accepted or
\* not, the best palette is as good as it says and as any seen since, and every
\* colour that is not where it started keeps to the constraints
\* (palette_gate.cpp:90-91, 245-251).
SearchIsConsistent ==
  palette_pc = "pool" =>
    \A t \in Searchers :
      LET s == searcher[t].search
          TrueScore(p) == Objective([i \in DOMAIN p |-> ViewsOf(p[i])])
      IN  searcher[t].at = "anneal" =>
            /\ \A i \in DOMAIN s.p : s.views[i] = ViewsOf(s.p[i])
            /\ s.current = TrueScore(s.p)
            /\ s.best.score = TrueScore(s.best.colours)
            /\ s.best.score >= s.current
            /\ \A p \in {s.p, s.best.colours} : \A i \in DOMAIN p :
                 p[i] # s.start[i] => Keeps(St, p[i], s.start[i])

\* The search of a job after so many iterations.
After(job) ==
  LET after[n \in 0..iterations] ==
        IF n = 0 THEN NewSearch(StartOf(job))
        ELSE Iterate(St, after[n - 1], DrawsOf(job).moves[n])
  IN  after

\* What a job finds when nothing else runs.
Alone(job) == Found(After(job)[iterations])

\* No two threads work on one job, and when they have been joined, every job has
\* been done, and has found what it finds alone (palette_gate.cpp:471 "Fixed job
\* counts and seeds keep the result independent of the machine's thread count").
JobsAreIndependent ==
  palette_pc = "pool" =>
    /\ \A t, t2 \in Searchers :
         searcher[t].at = "anneal" /\ searcher[t2].at = "anneal" /\ t # t2 =>
           searcher[t].job # searcher[t2].job
    /\ AllEnded => \A job \in 0..(Jobs - 1) : results[job] = Alone(job)

=============================================================================
