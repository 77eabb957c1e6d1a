------------------------------ MODULE Grinding ------------------------------
(***************************************************************************)
(* The `grind` command of the laboratory, src/tools/lab/grinding.cpp: per  *)
(* scheme, a pool of threads scores every candidate against every target   *)
(* into lists of its own, which are merged when the threads have ended;    *)
(* hh's threads also count matches under a mutex.  Candidate j is a hash   *)
(* of j, so here a constant; distances in pixels are numbers.              *)
(***************************************************************************)
EXTENDS Integers, Sequences, FiniteSets, SequencesExt

CONSTANTS Counts(_),        \* candidates per scheme: 2^18 if the run is quick, else 2^24
          Keep,             \* the length of a list, 5
          CellCount,        \* the cells of an image, 16
          Base,             \* 32, more than an image has cells
          Targets,          \* the cells of the targets
          Candidates(_),    \* what the cells of so many candidates may be: j -> cells
          StateDistance(_, _),  \* the table of distances of two cell states
          OtherGist(_, _, _)    \* scheme, target, j -> distance

FigureNames == <<"none", "square", "circle", "up", "right", "down", "left">>
Image == [1..CellCount -> [fig : Range(FigureNames), colour : 0..3]]

ASSUME GrindAssumption ==
  /\ Keep \in Nat \ {0}
  /\ CellCount \in Nat /\ Base \in Nat /\ CellCount < Base
  /\ Targets \in Seq(Image) /\ Targets # <<>>
ASSUME CandidatesAssumption ==
  \A quick \in BOOLEAN :
    /\ Counts(quick) \in Nat
    /\ Candidates(Counts(quick)) \subseteq [0..(Counts(quick) - 1) -> Image]
ASSUME DistancesAssumption ==
  /\ \A a, b \in 0..24 : StateDistance(a, b) \in Nat
  /\ \A quick \in BOOLEAN : \A t \in DOMAIN Targets, j \in 0..(Counts(quick) - 1) :
       \A other \in {"blockies", "jazzicon"} : OtherGist(other, t, j) \in Nat

VARIABLES grind_pc,     \* "idle", "open", "pool", "merge", "write", "done"
          threads, count,
          cells,        \* the cells of hh's candidates
          scheme,       \* whose candidates are scored
          worker,       \* per thread: what it does next, its candidate and
                        \* target, the counters it has read and its lists
          count_mutex,  \* who holds it, or -1
          stage_counts, \* per target: candidates that match in emptiness, in
                        \* colour too, in family too, in direction too
          best,         \* the merged lists
          passed,       \* threads whose lists are merged, then lists written
          tsv,          \* the rows of the table
          grind_rc

grind_input == <<threads, count, cells>>
grind_vars == <<grind_pc, grind_input, scheme, worker, count_mutex,
                stage_counts, best, passed, tsv, grind_rc>>
grind_main == <<best, passed, tsv, grind_rc>>

-----------------------------------------------------------------------------
(* best_list *)

Before(a, b) == a.score < b.score \/ (a.score = b.score /\ a.index < b.index)

\* A hit pushed back and sorted into a list that is in order.
Sorted(hits, h) ==
  [n \in 1..(Len(hits) + 1) |->
     IF n <= Len(hits) /\ Before(hits[n], h) THEN hits[n]
     ELSE IF n = 1 \/ Before(hits[n - 1], h) THEN h ELSE hits[n - 1]]

Cut(hits) == IF Len(hits) > Keep THEN SubSeq(hits, 1, Keep) ELSE hits

\* Mutant: a full list refuses what is not better than its best.
OfferBetter(hits, score, index) ==
  IF Len(hits) = Keep /\ score >= Head(hits).score THEN hits
  ELSE Cut(Sorted(hits, [score |-> score, index |-> index]))

Offer(hits, score, index) ==
  IF Len(hits) = Keep /\ score >= hits[Keep].score THEN hits
  ELSE Cut(Sorted(hits, [score |-> score, index |-> index]))

\* After n hits of the other list have been offered.
Offered(hits, other) ==
  LET kept[n \in 0..Len(other)] ==
        IF n = 0 THEN hits
        ELSE Offer(kept[n - 1], other[n].score, other[n].index)
  IN  kept

Merge(hits, other) == Offered(hits, other)[Len(other)]

-----------------------------------------------------------------------------
(* Scores of hh *)

FigureFamily(fig) ==
  CASE fig = "none" -> 0 [] fig = "square" -> 1 [] fig = "circle" -> 2 [] OTHER -> 3

FigureNumber(fig) == CHOOSE n \in 0..6 : fig = FigureNames[n + 1]

CellState(c) ==
  IF c.fig = "none" THEN 0 ELSE 1 + (FigureNumber(c.fig) - 1) * 4 + c.colour

\* How many cells differ in emptiness, colour, family and direction: a cell that
\* is empty on either side counts for the first at most.
CompareCells(target, cand) ==
  LET Filled  == {i \in DOMAIN target : target[i].fig # "none" /\ cand[i].fig # "none"}
      Differs(op(_)) == {i \in Filled : op(target[i]) # op(cand[i])}
      families == Differs(LAMBDA c : FigureFamily(c.fig))
  IN  [empty     |-> Cardinality({i \in DOMAIN target :
                       (target[i].fig = "none") # (cand[i].fig = "none")}),
       colour    |-> Cardinality(Differs(LAMBDA c : c.colour)),
       family    |-> Cardinality(families),
       direction |-> Cardinality(Differs(LAMBDA c : c.fig) \ families)]

SalienceScore(s) ==
  ((s.empty * Base + s.colour) * Base + s.family) * Base + s.direction

SalienceOf(v) ==
  [empty |-> v \div (Base * Base * Base), colour |-> (v \div (Base * Base)) % Base,
   family |-> (v \div Base) % Base, direction |-> v % Base]

\* The distances of the first n cells, added up.
GistUpTo(target, cand) ==
  LET sum[n \in 0..CellCount] ==
        IF n = 0 THEN 0
        ELSE sum[n - 1] + StateDistance(CellState(target[n]), CellState(cand[n]))
  IN  sum

Gist(t, cand) == GistUpTo(Targets[t], cand)[CellCount]

-----------------------------------------------------------------------------
(* The pool *)

Ids == 0..(threads - 1)
Ended == \A t \in Ids : worker[t].at = "end"

\* Of hh a list per target by salience, then one per target by gist.
TargetCount == Len(Targets)
Lists(sch) == 1..(IF sch = "hh" THEN 2 * TargetCount ELSE TargetCount)
KindOf(sch, l) == IF sch = "hh" /\ l <= TargetCount THEN "salience" ELSE "gist"
TargetOf(l) == IF l > TargetCount THEN l - TargetCount ELSE l
NoHits(sch) == [l \in Lists(sch) |-> <<>>]

\* Thread t begins with candidate t, and ends at once if there is none.
NewPool(sch) ==
  [t \in Ids |-> [at |-> IF t < count THEN "score" ELSE "end", j |-> t, k |-> 1,
                  seen |-> <<0, 0, 0, 0>>, lists |-> NoHits(sch)]]

\* A thread goes on to the next target, or j += threads.
Advanced(me) ==
  IF me.k < TargetCount THEN [me EXCEPT !.at = "score", !.k = @ + 1]
  ELSE [me EXCEPT !.at = IF me.j + threads < count THEN "score" ELSE "end",
                  !.j = @ + threads, !.k = 1]

Compared(me) == CompareCells(Targets[me.k], cells[me.j])

\* A target's turn for a candidate of hh, up to the lock.
ScoreHh(t) ==
  LET me == worker[t]
      s  == Compared(me)
      offered == [me EXCEPT
        !.lists[me.k] = Offer(@, SalienceScore(s), me.j),
        !.lists[TargetCount + me.k] = Offer(@, Gist(me.k, cells[me.j]), me.j)]
  IN  /\ scheme = "hh" /\ me.at = "score"
      /\ worker' = [worker EXCEPT ![t] =
           IF s.empty = 0 THEN [offered EXCEPT !.at = "lock"] ELSE Advanced(offered)]
      /\ UNCHANGED <<grind_pc, grind_input, scheme, count_mutex, stage_counts,
                     grind_main>>

\* Mutant: the counters are read without the mutex.
LockNothing(t) ==
  /\ worker[t].at = "lock"
  /\ worker' = [worker EXCEPT ![t].at = "count", ![t].seen = stage_counts[worker[t].k]]
  /\ UNCHANGED <<grind_pc, grind_input, scheme, count_mutex, stage_counts,
                 grind_main>>

Lock(t) ==
  /\ worker[t].at = "lock" /\ count_mutex = -1
  /\ count_mutex' = t
  /\ worker' = [worker EXCEPT ![t].at = "count", ![t].seen = stage_counts[worker[t].k]]
  /\ UNCHANGED <<grind_pc, grind_input, scheme, stage_counts,
                     grind_main>>

\* Each counter grows only if the ones before it did.
Counted(counts, s) ==
  [n \in 1..4 |->
     IF /\ n >= 2 => s.colour = 0
        /\ n >= 3 => s.family = 0
        /\ n = 4 => s.direction = 0
     THEN counts[n] + 1 ELSE counts[n]]

\* Mutant: the mutex is kept.
CountLocked(t) ==
  LET me == worker[t]
  IN  /\ me.at = "count"
      /\ stage_counts' = [stage_counts EXCEPT ![me.k] = Counted(me.seen, Compared(me))]
      /\ worker' = [worker EXCEPT ![t] = Advanced(me)]
      /\ UNCHANGED <<grind_pc, grind_input, scheme, count_mutex, grind_main>>

\* The increments, and the end of the lock's scope.
CountMatch(t) ==
  LET me == worker[t]
  IN  /\ me.at = "count"
      /\ stage_counts' = [stage_counts EXCEPT ![me.k] = Counted(me.seen, Compared(me))]
      /\ count_mutex' = -1
      /\ worker' = [worker EXCEPT ![t] = Advanced(me)]
      /\ UNCHANGED <<grind_pc, grind_input, scheme, grind_main>>

\* A target's turn for a candidate of Blockies or Jazzicon.
ScoreOther(t) ==
  LET me == worker[t]
  IN  /\ scheme # "hh" /\ me.at = "score"
      /\ worker' = [worker EXCEPT ![t] = Advanced(
           [me EXCEPT !.lists[me.k] =
              Offer(@, OtherGist(scheme, me.k, me.j), me.j)])]
      /\ UNCHANGED <<grind_pc, grind_input, scheme, count_mutex, stage_counts,
                     grind_main>>

-----------------------------------------------------------------------------
(* run_grinding *)

\* A row, with the candidate whose picture is put on the sheet, and what the
\* label or the last column says of it.
RowOf(l, rank, h) ==
  LET kind   == KindOf(scheme, l)
      target == TargetOf(l)
  IN  [scheme |-> scheme, kind |-> kind, target |-> target, rank |-> rank,
       score |-> h.score, index |-> h.index,
       matches |-> IF kind = "salience" THEN SubSeq(stage_counts[target], 1, 2) ELSE <<>>,
       label |-> IF kind = "salience" THEN SalienceOf(h.score)
                 ELSE IF scheme = "hh" THEN CompareCells(Targets[target], cells[h.index])
                 ELSE <<>>]

GrindIdle ==
  /\ grind_pc = "idle"
  /\ threads = 1 /\ count = 0 /\ cells = <<>>
  /\ scheme = "hh" /\ worker = <<>>
  /\ count_mutex = -1 /\ stage_counts = [t \in DOMAIN Targets |-> <<0, 0, 0, 0>>]
  /\ best = NoHits("hh") /\ passed = 0 /\ tsv = <<>> /\ grind_rc = 0

StartGrinding(n, quick) ==
  /\ grind_pc = "idle"
  /\ grind_pc' = "open"
  /\ threads' = n /\ count' = Counts(quick)
  /\ cells' \in Candidates(Counts(quick))
  /\ UNCHANGED <<scheme, worker, count_mutex, stage_counts, grind_main>>

\* The table is opened first; without it nothing is done.
OpenTable ==
  /\ grind_pc = "open"
  /\ \/ grind_pc' = "pool" /\ worker' = NewPool("hh") /\ UNCHANGED grind_rc
     \/ grind_pc' = "done" /\ grind_rc' = 1 /\ UNCHANGED worker
  /\ UNCHANGED <<grind_input, scheme, count_mutex, stage_counts, best, passed, tsv>>

\* The threads are joined, and their lists are merged, thread by thread.
Join ==
  /\ grind_pc = "pool" /\ Ended
  /\ grind_pc' = "merge" /\ best' = NoHits(scheme) /\ passed' = 0
  /\ UNCHANGED <<grind_input, scheme, worker, count_mutex, stage_counts, tsv, grind_rc>>

MergeThread ==
  /\ grind_pc = "merge"
  /\ IF passed < threads
     THEN /\ best' = [l \in Lists(scheme) |-> Merge(best[l], worker[passed].lists[l])]
          /\ passed' = passed + 1 /\ UNCHANGED grind_pc
     ELSE grind_pc' = "write" /\ passed' = 0 /\ UNCHANGED best
  /\ UNCHANGED <<grind_input, scheme, worker, count_mutex, stage_counts, tsv, grind_rc>>

WriteList ==
  LET l == passed + 1
  IN  /\ grind_pc = "write" /\ l \in Lists(scheme)
      /\ tsv' = tsv \o [rank \in DOMAIN best[l] |-> RowOf(l, rank, best[l][rank])]
      /\ passed' = l
      /\ UNCHANGED <<grind_pc, grind_input, scheme, worker, count_mutex,
                     stage_counts, best, grind_rc>>

\* The next scheme has a pool of its own.
EndScheme ==
  LET next == IF scheme = "hh" THEN "blockies" ELSE "jazzicon"
  IN  /\ grind_pc = "write" /\ passed + 1 \notin Lists(scheme)
      /\ IF scheme = "jazzicon"
         THEN grind_pc' = "done" /\ UNCHANGED <<scheme, worker>>
         ELSE grind_pc' = "pool" /\ scheme' = next /\ worker' = NewPool(next)
      /\ UNCHANGED <<grind_input, count_mutex, stage_counts, grind_main>>

Thread(t) ==
  /\ grind_pc = "pool"
  /\ ScoreHh(t) \/ Lock(t) \/ CountMatch(t) \/ ScoreOther(t)

GrindNext ==
  \/ OpenTable \/ Join \/ MergeThread \/ WriteList \/ EndScheme
  \/ \E t \in Ids : Thread(t)

-----------------------------------------------------------------------------
(* Properties *)

\* The score of a candidate in a list.
ScoreOf(sch, kind, target, n) ==
  IF sch # "hh" THEN OtherGist(sch, target, n)
  ELSE IF kind = "gist" THEN Gist(target, cells[n])
  ELSE SalienceScore(CompareCells(Targets[target], cells[n]))

\* The rows of one list.
SameList(m, n) == /\ tsv[m].scheme = tsv[n].scheme /\ tsv[m].kind = tsv[n].kind
                  /\ tsv[m].target = tsv[n].target

\* However many threads there are and however they take turns, the rows of a
\* target hold the lowest scores of all candidates, as many as a list has room
\* for, in order, each with the candidate that has it, no candidate twice, and
\* with a label that is true of it (grinding.cpp:45 "Keeps the `keep` lowest
\* scores", grinding.cpp:97-98 "the lists are merged at the end").
LowestAreKept ==
  \A n \in DOMAIN tsv :
    LET r        == tsv[n]
        rows     == {m \in DOMAIN tsv : SameList(m, n)}
        Score(i) == ScoreOf(r.scheme, r.kind, r.target, i)
    IN  /\ {tsv[m].rank : m \in rows} = 1..(IF count < Keep THEN count ELSE Keep)
        /\ r.index \in 0..(count - 1) /\ r.score = Score(r.index)
        /\ \A m \in rows : m < n => /\ tsv[m].rank < r.rank
                                    /\ tsv[m].score <= r.score
                                    /\ tsv[m].index # r.index
        /\ \A i \in 0..(count - 1) :
             (\A m \in rows : tsv[m].index # i) => Score(i) >= r.score
        /\ r.scheme = "hh" =>
             r.label = CompareCells(Targets[r.target], cells[r.index])

\* The candidates that have the target's empty cells, or its colours too.
Matching(target, colours) ==
  {i \in 0..(count - 1) :
     LET s == CompareCells(Targets[target], cells[i])
     IN  s.empty = 0 /\ (colours => s.colour = 0)}

\* The matches a row reports are the candidates that have the target's empty
\* cells, and of these the ones with its colours: no increment is lost between
\* threads (grinding.cpp:339-340, 361).
CountsAreExact ==
  \A n \in DOMAIN tsv :
    tsv[n].kind = "salience" =>
      tsv[n].matches = <<Cardinality(Matching(tsv[n].target, FALSE)),
                         Cardinality(Matching(tsv[n].target, TRUE))>>

\* What one thread keeps.
OneThread(sch, kind, target) ==
  LET kept[n \in 0..count] ==
        IF n = 0 THEN <<>>
        ELSE Offer(kept[n - 1], ScoreOf(sch, kind, target, n - 1), n - 1)
  IN  kept[count]

\* tools/lab/README.md:18-19 says of `--threads N` that it "limits the thread
\* pool. Every command is deterministic: the same build gives the same files".
\* So the table would be the one a single thread makes.
SameForAnyThreads ==
  \A n \in DOMAIN tsv :
    LET kept == OneThread(tsv[n].scheme, tsv[n].kind, tsv[n].target)
    IN  tsv[n].index = kept[tsv[n].rank].index
=============================================================================
