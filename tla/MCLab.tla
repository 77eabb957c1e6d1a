------------------------------- MODULE MCLab -------------------------------
(***************************************************************************)
(* Images of two cells and lists of two; four candidates, among them equal *)
(* ones and ones like the target, for one to three threads.  Palettes of   *)
(* two colours under two conditions, two jobs of two iterations.           *)
(***************************************************************************)
EXTENDS Lab

C(fig, colour) == [fig |-> fig, colour |-> colour]
Empty == C("none", 0)

MCTargets == << <<C("up", 1), Empty>>, <<C("square", 0), C("circle", 2)>> >>

MCCounts(quick) == IF quick THEN 1 ELSE 4
MCIterations(quick) == IF quick THEN 1 ELSE 2
\* A candidate like the first target in everything, in all but its direction,
\* in all but its colour and figure, one that is like the second, and one like
\* neither.
Like1 == <<C("up", 1), Empty>>
Turned1 == <<C("left", 1), Empty>>
Near1 == <<C("square", 3), Empty>>
Like2 == <<C("square", 0), C("circle", 2)>>
Other == <<Empty, Empty>>

MCCandidates(n) ==
  IF n = 1 THEN {[i \in {0} |-> Like1], [i \in {0} |-> Other]}
  ELSE {[i \in 0..3 |-> s[i + 1]] :
          s \in {<<Like1, Like1, Turned1, Other>>, <<Near1, Turned1, Turned1, Like2>>,
                 <<Other, Like2, Near1, Like1>>, <<Turned1, Near1, Like2, Like2>>}}

MCStateDistance(a, b) == IF a < b THEN b - a ELSE a - b

\* Candidates that tie, in both orders of the threads.
MCOtherGist(sch, target, n) ==
  IF sch = "blockies" THEN <<2, 1, 1, 1>>[n + 1] ELSE <<3, 2, 1, 2>>[n + 1]

MCView(c, n) == IF n = 1 THEN c ELSE (c * c) \div 500
MCHue(c) == 1000 - c
MCKeepsHue(c, anchor) == Distance(c, anchor) <= 40

Stage(start, frame, step, radius, hue, kept) ==
  [start |-> start, frame |-> frame, step |-> step, radius |-> radius, hue |-> hue,
   count |-> kept]
MCStages == <<Stage("picked", TRUE, 60, 50, FALSE, 1),
              Stage("random", FALSE, 30, 0, FALSE, 2),
              Stage("picked", TRUE, 30, 0, TRUE, 1)>>
MCPicks == {<<640, 200>>, <<250, 290>>}

Moves == {<<[slot |-> 1, raw |-> 100, lucky |-> FALSE], [slot |-> 2, raw |-> 7, lucky |-> FALSE]>>,
          <<[slot |-> 1, raw |-> 30, lucky |-> TRUE], [slot |-> 1, raw |-> 59, lucky |-> FALSE]>>,
          <<[slot |-> 2, raw |-> 90, lucky |-> FALSE], [slot |-> 2, raw |-> 20, lucky |-> TRUE]>>}
DrawOf(m) == [moves |-> m, numbers |-> <<900, 150, 40, 270, 200>>]
MCDraws == {[s \in 1..3 |-> [job \in 0..1 |-> DrawOf(IF (s + job) % 2 = 0 THEN m1 ELSE m2)]] :
              m1, m2 \in Moves}

MCNumbers == <<"1", "2", "3">>
MCWords == Range(MCNumbers) \cup {"grind", "palette", "sheets", "nothing", "all", "x",
                                   "--out", "--threads", "--quick", "--slow"}
MCNumber(word) == IF word \in Range(MCNumbers)
                  THEN CHOOSE n \in 1..3 : MCNumbers[n] = word ELSE -1

MCGrind == {<<"grind", "--threads", MCNumbers[n]>> : n \in 1..3}
MCMany ==
  MCGrind \cup {<<"palette", "--threads", MCNumbers[n]>> : n \in 1..3}
    \cup {<<>>, <<"grind">>, <<"palette">>, <<"sheets", "--quick">>, <<"nothing">>,
          <<"grind", "--out">>, <<"grind", "--out", "x", "--slow">>,
          <<"grind", "--threads", "x">>, <<"all", "--quick", "--threads", "1">>}
=============================================================================
