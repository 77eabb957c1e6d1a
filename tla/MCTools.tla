------------------------------ MODULE MCTools ------------------------------
(***************************************************************************)
(* The two tools, each in behaviours of its own.  Files of up to two lines *)
(* for hh_cli, drawn from one line per rule of the format and per answer;  *)
(* 2047 stands for 2^31 - 1, so that 4160 would wrap around to 64.  Two    *)
(* runs of gen_vectors, with two of its golden pictures and eight builds.  *)
(***************************************************************************)
EXTENDS CommandLine, Vectors

VARIABLE tool

Init ==
  \/ tool = "hh_cli" /\ CliInit /\ VectorsIdle
  \/ tool = "gen_vectors" /\ CliIdle /\ VectorsIdle

Next ==
  /\ UNCHANGED tool
  /\ \/ tool = "hh_cli" /\ CliNext /\ UNCHANGED v_vars
     \/ tool = "gen_vectors" /\ VectorsNext /\ UNCHANGED cli_vars

vars == <<tool, cli_vars, v_vars>>

Spec == Init /\ [][Next]_vars

-----------------------------------------------------------------------------
(* hh_cli *)

MCNumber(w) ==
  LET known == [x \in {"16", "17", "18", "64", "128", "92", "40", "255", "256", "0", "4160"} |->
                  CASE x = "16" -> 16 [] x = "17" -> 17 [] x = "18" -> 18 [] x = "64" -> 64
                    [] x = "128" -> 128 [] x = "92" -> 92 [] x = "40" -> 40
                    [] x = "255" -> 255 [] x = "256" -> 256 [] x = "0" -> 0
                    [] x = "4160" -> 4160]
  IN  IF w \in DOMAIN known THEN [valid |-> TRUE, value |-> known[w]]
      ELSE [valid |-> FALSE, value |-> 0]

Digits(prefix, size, zero) ==
  [valid |-> TRUE, prefix |-> prefix, size |-> size, zero |-> zero]

MCHex(w) ==
  CASE w = "" -> Digits(FALSE, 0, TRUE)
    [] w = "ab" -> Digits(FALSE, 1, FALSE)
    [] w = "0xab" -> Digits(TRUE, 1, FALSE)
    [] w \in {"ffffff", "808080"} -> Digits(FALSE, 3, FALSE)
    [] w \in {"ffffffff", "9e9e9eff", "00000000"} -> Digits(FALSE, 4, FALSE)
    [] w = "key" -> Digits(FALSE, 32, FALSE)
    [] w = "zero" -> Digits(FALSE, 32, TRUE)
    [] OTHER -> [valid |-> FALSE, prefix |-> FALSE, size |-> 0, zero |-> FALSE]

MCBackground(w) == [opaque |-> w # "00000000", distinct |-> w # "9e9e9eff"]

MCExtension(path) ==
  CASE path = "a.bmp" -> "bmp" [] path = "a.jpg" -> "jpg" [] path = "a.png" -> "png"
    [] OTHER -> ""

\* A line with single blanks.
LineOf(fields) ==
  FlattenSeq([i \in DOMAIN fields |-> IF i = 1 THEN <<fields[i]>> ELSE <<" ", fields[i]>>])

Plain == <<"hex", "ab", "-", "64", "square", "automatic", "ffffffff", "255", "png", "92",
           "ffffff">>
Where(i, w) == LineOf([Plain EXCEPT ![i] = w])

MCLines ==
  {<<>>, <<"\r">>, <<" ">>, <<"#", "hex">>, <<" ", "#">>,
   LineOf(Plain), LineOf(Plain) \o <<"\r">>, LineOf(Plain) \o <<"\r", "\r">>,
   <<" ">> \o LineOf(Plain) \o <<" ", " ">>, LineOf(Plain) \o <<" ", "ab">>,
   LineOf(Tail(Plain)), Where(1, "text"), Where(1, "file"), Where(2, "0xab"), Where(2, "zz"),
   LineOf([Plain EXCEPT ![1] = "text", ![2] = "0xab"]), Where(3, "key"), Where(3, "zero"),
   Where(4, "4160"), Where(4, "x"), LineOf([Plain EXCEPT ![4] = "17", ![5] = "round", ![6] = "double"]),
   Where(5, "oval"), Where(6, "ticks"), Where(7, "9e9e9eff"), Where(7, "ffffff"), Where(8, "256"),
   Where(9, "gif"), LineOf([Plain EXCEPT ![9] = "jpeg", ![10] = "40"]),
   LineOf([Plain EXCEPT ![9] = "jpeg", ![10] = "4160"]), Where(11, "ab")}

MCCaseFiles == {<<line>> : line \in MCLines} \cup {<<a, b>> : a \in MCLines, b \in MCLines} \cup {<<>>}

Out == {<<>>, <<"--out", "a.bmp">>, <<"--out", "a.jpg">>, <<"--out", "">>}
MCArgumentLists ==
  {<<"--batch", "cases", "dir">>, <<"--batch", "cases">>, <<>>, <<"--help">>, <<"ab", "-h">>,
   <<"ab", "cd">>, <<"--slow">>, <<"ab", "--size">>,
   <<"--out", "--key", "ab">>, <<"--key", "--shape", "--shape", "round", "ab">>}
    \cup {a \o o \o f : a \in {<<"ab">>, <<"--text", "ab">>, <<"--text", "">>, <<"zz">>}, o \in Out,
                        f \in {<<>>, <<"--format", "png">>, <<"--format", "gif">>}}
    \cup {<<"ab">> \o a \o b :
            a \in {<<>>, <<"--key", "key">>, <<"--key", "zz">>, <<"--key", "key", "--key", "zero">>,
                   <<"--shape", "round">>, <<"--frame", "brackets">>,
                   <<"--background", "9e9e9eff">>, <<"--matte", "ab">>,
                   <<"--matte", "808080", "--frame", "none">>,
                   <<"--frame-alpha", "0", "--frame-alpha", "64">>},
            b \in {<<>>, <<"--size", "17", "--frame", "double">>, <<"--size", "4160">>,
                   <<"--quality", "40", "--format", "jpeg">>, <<"--frame-alpha", "256">>,
                   <<"--size", "64", "--out", "a.png">>, <<"--text", "--quality", "4160">>,
                   <<"--frame-alpha", "255", "--quality", "64", "--out", "a.jpg">>}}

\* A key from a variable that is not set.
MCEmptyKey == {<<"--key", "", "ab">>, <<"--key", "key", "ab">>, <<"ab">>}

-----------------------------------------------------------------------------
(* gen_vectors *)

Golden(name, fp, size, look) ==
  [kind |-> "G", name |-> name, fp |-> fp, size |-> size, options |-> look, quality |-> 92]
MCGoldenPlan ==
  <<Golden("evm-1-universal-128.png", "universal", 128, Default),
    Golden("evm-2-keyed-128-round-gaps.png", "keyed", 128, With("round", "gaps"))>>

\* Right; another value of the first record and of the last picture; and wrong in
\* one record of a kind.
Last1 == Len(Plan)
First(kind) == CHOOSE i \in DOMAIN Plan : Plan[i].kind = kind
                                           /\ \A j \in 1..(i - 1) : Plan[j].kind # kind
MCBuilds ==
  {[wrong |-> {}, changed |-> c] : c \in {{}, {1}, {Last1}}}
    \cup {[wrong |-> {First(kind)}, changed |-> {}] : kind \in {"H", "R", "E", "W", "G"}}
=============================================================================
