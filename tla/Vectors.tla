------------------------------ MODULE Vectors ------------------------------
(***************************************************************************)
(* gen_vectors, src/tools/gen_vectors.cpp: the records of the golden       *)
(* vectors are made in memory, one after the other, and then compared with *)
(* a directory or written into it.  It is run again and again, with        *)
(* whatever library it was built with; the directory stays.                *)
(*                                                                         *)
(* Every record of the program is there, but for golden pictures, of which *)
(* there may be fewer.  Of a record the code the library answers is        *)
(* modelled, with Prepare of Render; what it hashes to, or the file of a   *)
(* picture, is a value that changes with the build.                        *)
(***************************************************************************)
EXTENDS Render, SequencesExt

CONSTANTS GoldenPlan,    \* the pictures kept as files: some of those of the program
          Builds,        \* [wrong, changed]: the records a library answers with
                         \* another code, and those of which it computes another value
          Invocations    \* bound: how often the tool is run

ASSUME InvocationsAssumption == Invocations \in Nat \ {0}

\* The files of the pictures have names of their own.
ASSUME GoldenPlanAssumption ==
  /\ GoldenPlan \in Seq([kind : {"G"}, name : STRING \ {"table"}, fp : Prints, size : Nat,
                         options : Options, quality : Nat])
  /\ \A i, j \in DOMAIN GoldenPlan : GoldenPlan[i].name = GoldenPlan[j].name => i = j

VARIABLES v_pc,       \* "idle", "generate", "check", "write" or "done"
          check,      \* whether it was asked to check
          build,
          record,     \* how many records have been made
          ids,        \* kind -> how many records of it have been numbered
          failures,
          table,      \* the rows
          golden,     \* name -> picture
          left,       \* the names not read or written yet
          disk,       \* the files of the directory, and whether they are whole
          lost,       \* whether a write failed when its file was closed
          v_rc, invoked

v_vars == <<v_pc, check, build, record, ids, failures, table, golden, left, disk,
            lost, v_rc, invoked>>

-----------------------------------------------------------------------------
(* generate: what the records ask for *)

\* The data of a derivation by its size.
DerivePlan ==
  [i \in 1..23 |->
     [kind |-> "D", name |-> i,
      size |-> <<20, 20, 20, 20, 20, 20, 32, 32, 21, 36, 32, 34, 42, 42, 14, 1, 1, 35, 36,
                 43, 44, 45, 1048576>>[i]]]

\* Of words, keys and colours only whether they are accepted.
Coded(kind, accepted, refused, code) ==
  [i \in 1..(accepted + refused) |->
     [kind |-> kind, code |-> IF i <= accepted THEN "ok" ELSE code]]
HexPlan == Coded("H", 5, 18, "invalid_hex")
KeyPlan == Coded("K", 3, 5, "invalid_key")
ContrastPlan == Coded("C", 21, 0, "ok")

Look(shape, frame, opaque, distinct) ==
  [shape |-> shape, frame |-> frame, opaque |-> opaque, distinct |-> distinct]
Default == Look("square", "automatic", TRUE, TRUE)
With(shape, frame) == Look(shape, frame, TRUE, TRUE)
Clear(shape, frame) == Look(shape, frame, FALSE, TRUE)
Faint(frame, shape) == Look(shape, frame, TRUE, FALSE)

RenderOf(fp, size, look, quality) ==
  [kind |-> "R", fp |-> fp, size |-> size, options |-> look, quality |-> quality]

\* For each look, the records with each of the sizes.
Across(fp, looks, sizes) ==
  FlattenSeq([l \in DOMAIN looks |->
    [s \in DOMAIN sizes |-> RenderOf(fp, sizes[s], looks[l], 92)]])
Styles(shape, frames) == [i \in DOMAIN frames |-> With(shape, frames[i])]

SquareFrames == <<"none", "plain", "rounded", "chamfered", "double_line", "thick", "brackets">>
RoundFrames == <<"none", "plain", "double_line", "thick", "ticks", "gaps">>

RenderPlan ==
  Across("universal", <<Default>>, <<16, 32, 48, 64, 128, 256, 1024>>)
    \o Across("keyed", <<Default>>, <<16, 32, 48, 64, 128, 256, 1024>>)
    \o Across("universal", <<Clear("square", "automatic")>>, <<32, 64, 128, 1024>>)
    \o Across("keyed", <<Clear("round", "automatic")>>, <<32, 64, 128, 1024>>)
    \o Across("keyed", Styles("square", SquareFrames), <<31, 64, 128>>)
    \o Across("keyed", Styles("round", RoundFrames), <<33, 64, 128>>)
    \o Across("universal", <<With("square", "plain")>>, <<48, 128>>)
    \o Across("universal", Styles("square", SubSeq(SquareFrames, 3, 7)), <<64>>)
    \o Across("universal", Styles("round", SubSeq(RoundFrames, 3, 6)), <<64>>)
    \o Across("universal", <<With("round", "none")>>, <<64>>)
    \o Across("universal", <<With("round", "plain")>>, <<128>>)
    \o Across("keyed", <<Clear("round", "ticks")>>, <<1024>>)
    \o Across("keyed", <<With("square", "rounded")>>, <<17, 18>>)
    \o Across("keyed", <<With("round", "thick")>>, <<18>>)
    \o Across("keyed", <<With("round", "gaps")>>, <<16>>)
    \o Across("keyed", <<Default, Default, Default>>, <<128>>)
    \o Across("keyed", <<Clear("square", "double_line"), Clear("round", "double_line"),
                         With("square", "thick"), Clear("round", "ticks")>>, <<96>>)
    \o Across("universal", <<Default, Clear("square", "automatic")>>, <<128>>)
    \o Across("keyed", <<With("round", "gaps")>>, <<200>>)
    \o Across("universal", <<Default, Default>>, <<64>>) \o Across("keyed", <<Default>>, <<64>>)
    \o Across("universal", <<Default, Default>>, <<128>>)
    \o [i \in 1..3 |-> RenderOf("universal", 64, Default, <<50, 75, 100>>[i])]
    \o <<RenderOf("keyed", 64, Clear("square", "automatic"), 92),
         RenderOf("keyed", 50, Clear("round", "thick"), 60)>>

Refusal(fp, size, look, expected) ==
  [kind |-> "E", fp |-> fp, size |-> size, options |-> look, quality |-> 92,
   expected |-> expected]

ErrorPlan ==
  [i \in 1..4 |-> Refusal("universal", <<0, 15, 1025, 4096>>[i], Default, "invalid_size")]
    \o FlattenSeq([m \in 1..2 |->
         [i \in 1..5 |->
            Refusal(<<"universal", "keyed">>[m], 64,
                    With(IF i <= 2 THEN "square" ELSE "round",
                         <<"ticks", "gaps", "rounded", "chamfered", "brackets">>[i]),
                    "invalid_frame")]])
    \o [i \in 1..6 |-> Refusal("universal", 64, Faint("automatic", "square"), "low_contrast")]
    \o <<Refusal("keyed", 16, With("round", "thick"), "invalid_size"),
         Refusal("keyed", 17, With("round", "double_line"), "invalid_size"),
         Refusal("universal", 15, Faint("thick", "square"), "invalid_size"),
         Refusal("universal", 64, Faint("ticks", "square"), "invalid_frame"),
         Refusal("universal", 64, Faint("thick", "square"), "low_contrast"),
         Refusal("keyed", 16, Faint("thick", "round"), "low_contrast")>>

Sweep(fp, look, first) ==
  [kind |-> "W", fp |-> fp, options |-> look, first |-> first, last |-> 160]

SweepPlan ==
  <<Sweep("universal", Default, 16), Sweep("keyed", Default, 16)>>
    \o [i \in 1..7 |-> Sweep("keyed", Clear("square", SquareFrames[i]), 16)]
    \o [i \in 1..4 |-> Sweep("keyed", Clear("round", <<"none", "plain", "ticks", "gaps">>[i]), 16)]
    \o [i \in 1..2 |-> Sweep("keyed", Clear("round", <<"double_line", "thick">>[i]), 18)]
    \o <<Sweep("universal", Clear("square", "rounded"), 16),
         Sweep("universal", Clear("round", "ticks"), 16)>>

Image(kind, width, height, length, quality, expected) ==
  [kind |-> kind, operation |-> "image", width |-> width, height |-> height,
   length |-> length, quality |-> quality, expected |-> expected]

ImagePlan ==
  LET sizes == << <<1, 1>>, <<1, 1>>, <<1, 1>>, <<3, 5>>, <<5, 3>>, <<8, 8>>, <<17, 9>>,
                  <<9, 64>>, <<64, 7>>, <<300, 2>>, <<33, 33>>, <<16, 16>>, <<16, 16>>,
                  <<257, 31>> >>
      qualities == <<92, 92, 92, 92, 75, 100, 50, 77, 92, 92, 100, 50, 100, 60>>
  IN  [i \in DOMAIN sizes |-> Image("I", sizes[i][1], sizes[i][2],
                                    4 * sizes[i][1] * sizes[i][2], qualities[i], "ok")]

FailurePlan ==
  [i \in 1..4 |-> [kind |-> "F", operation |-> "digest",
                   size |-> IF i <= 2 THEN 0 ELSE 1048577,
                   expected |-> IF i <= 2 THEN "empty_input" ELSE "input_too_large"]]
    \o [i \in 1..5 |-> Image("F", 8, 8, 256, <<-1, 0, 49, 101, 1000>>[i], "invalid_quality")]
    \o [i \in 1..7 |->
          LET s == << <<0, 1, 0>>, <<1, 0, 0>>, <<4097, 1, 16388>>, <<1, 4097, 16388>>,
                      <<2, 2, 15>>, <<2, 2, 17>>, <<2, 2, 0>> >>[i]
          IN  Image("F", s[1], s[2], s[3], 92, "invalid_image")]

Plan == DerivePlan \o HexPlan \o KeyPlan \o ContrastPlan \o RenderPlan \o ErrorPlan
          \o SweepPlan \o ImagePlan \o FailurePlan \o GoldenPlan

Kinds == {"D", "H", "K", "C", "R", "E", "W", "I", "F", "G"}

-----------------------------------------------------------------------------
(* What the library answers *)

\* The first size of a sweep that is refused.
SweepCode(r) ==
  LET refused == {size \in r.first..r.last : Prepare(r.fp, size, r.options) # "ok"}
  IN  IF refused = {} THEN "ok"
      ELSE Prepare(r.fp, CHOOSE s \in refused : \A t \in refused : s <= t, r.options)

\* The answer to a request for an image and its encodings.
ImageCode(r) ==
  FirstFailure(<<
    Check(r.width \notin 1..4096 \/ r.height \notin 1..4096
            \/ r.length # 4 * r.width * r.height, "invalid_image"),
    Check(r.quality \notin 50..100, "invalid_quality")>>)

RenderCode(r) ==
  IF Prepare(r.fp, r.size, r.options) # "ok" THEN Prepare(r.fp, r.size, r.options)
  ELSE IF r.quality \notin 50..100 THEN "invalid_quality" ELSE "ok"

InputCode(r) ==
  IF r.size = 0 THEN "empty_input" ELSE IF r.size > 1048576 THEN "input_too_large" ELSE "ok"

CodeOf(r) ==
  CASE r.kind \in {"R", "G", "E"} -> RenderCode(r)
    [] r.kind = "W"               -> SweepCode(r)
    [] r.kind = "I"               -> ImageCode(r)
    [] r.kind = "F"               -> IF r.operation = "digest" THEN InputCode(r) ELSE ImageCode(r)
    [] r.kind = "D"               -> InputCode(r)
    [] OTHER                      -> r.code

Codes == [i \in DOMAIN Plan |-> CodeOf(Plan[i])]

\* Another code than the right one.
Other(code) == IF code = "ok" THEN "out_of_memory" ELSE "ok"

Answer(i) == IF i \in build.wrong THEN Other(Codes[i]) ELSE Codes[i]

-----------------------------------------------------------------------------
(* generate *)

r == Plan[record + 1]
answer == Answer(record + 1)

\* Rows of numbered kinds count the records before them, those that failed too.
NextId == IF r.kind \in {"D", "G"} THEN r.name ELSE ids[r.kind] + 1

\* Whether a row shows what the library computed besides its code.
ShowsValue(kind, code) == kind \notin {"E", "F", "G"} /\ code = "ok"

Row == [kind |-> r.kind, id |-> NextId, code |-> answer,
        value |-> ShowsValue(r.kind, answer) /\ record + 1 \in build.changed]

\* A record is made: with or without a row, failed or not.
Emit(kind, row, failed) ==
  /\ v_pc = "generate" /\ record < Len(Plan) /\ r.kind = kind
  /\ record' = record + 1
  /\ ids' = [ids EXCEPT ![kind] = @ + 1]
  /\ table' = IF row THEN Append(table, Row) ELSE table
  /\ failures' = failures + (IF failed THEN 1 ELSE 0)
  /\ UNCHANGED <<v_pc, check, build, left, disk, lost, v_rc, invoked>>

\* The digest, and the fingerprint of a key.
DeriveRecord == Emit("D", answer = "ok", answer # "ok") /\ UNCHANGED golden

\* An answer of ok is compared with that for the bytes; here the build is wrong if
\* it is not the one it should be.
HexRecord == Emit("H", TRUE, answer = "ok" /\ record + 1 \in build.wrong) /\ UNCHANGED golden

\* Whatever the library says is written down.
KeyRecord == Emit("K", TRUE, FALSE) /\ UNCHANGED golden
ContrastRecord == Emit("C", TRUE, FALSE) /\ UNCHANGED golden

\* Mutant: a render that fails is not counted.
RenderRecordSilent == Emit("R", answer = "ok", FALSE) /\ UNCHANGED golden

RenderRecord == Emit("R", answer = "ok", answer # "ok") /\ UNCHANGED golden
SweepRecord == Emit("W", answer = "ok", answer # "ok") /\ UNCHANGED golden
ImageRecord == Emit("I", answer = "ok", answer # "ok") /\ UNCHANGED golden

\* The row is there even if the answer is not the expected one.
ErrorRecord == Emit("E", TRUE, answer # r.expected) /\ UNCHANGED golden
FailureRecord == Emit("F", TRUE, answer # r.expected) /\ UNCHANGED golden

GoldenRecord ==
  /\ Emit("G", answer = "ok", answer # "ok")
  /\ golden' = IF answer # "ok" THEN golden
               ELSE [f \in DOMAIN golden \cup {r.name} |->
                       IF f = r.name THEN record + 1 \in build.changed ELSE golden[f]]

-----------------------------------------------------------------------------
(* main *)

NoIds == [kind \in Kinds |-> 0]
NoFiles == [table |-> <<>>, golden |-> <<>>]

VectorsIdle ==
  /\ v_pc = "idle" /\ check = FALSE /\ build = [wrong |-> {}, changed |-> {}]
  /\ record = 0 /\ ids = NoIds /\ failures = 0
  /\ table = <<>> /\ golden = <<>> /\ left = {} /\ disk = NoFiles
  /\ lost = FALSE /\ v_rc = 0 /\ invoked = 0

\* A process of its own: only the directory is left of the one before.
Invoke ==
  /\ v_pc \in {"idle", "done"} /\ invoked < Invocations
  /\ check' \in BOOLEAN /\ build' \in Builds
  /\ v_pc' = "generate" /\ invoked' = invoked + 1
  /\ record' = 0 /\ ids' = NoIds /\ failures' = 0
  /\ table' = <<>> /\ golden' = <<>> /\ left' = {} /\ v_rc' = 0
  /\ lost' = FALSE
  /\ UNCHANGED disk

\* Nothing is compared or written if a record has failed.
Generated ==
  /\ v_pc = "generate" /\ record = Len(Plan)
  /\ v_pc' = IF failures # 0 THEN "done" ELSE IF check THEN "check" ELSE "write"
  /\ v_rc' = IF failures # 0 THEN 1 ELSE 0
  /\ left' = {"table"} \cup DOMAIN golden
  /\ UNCHANGED <<check, build, record, ids, failures, table, golden, disk, lost, invoked>>

\* The table comes first, then the names in a fixed order.
NextFile == IF "table" \in left THEN "table" ELSE CHOOSE f \in left : TRUE

\* A file that is not whole, or not there, is none.
There(file) ==
  IF file = "table" THEN disk.table # <<>> /\ disk.table[1].whole
  ELSE file \in DOMAIN disk.golden /\ disk.golden[file].whole

Same(file) ==
  /\ There(file)
  /\ IF file = "table" THEN disk.table[1].rows = table
     ELSE disk.golden[file].value = golden[file]

\* Mutant: golden files are looked at only if they are there.
CheckFilePresent ==
  /\ v_pc = "check" /\ left # {}
  /\ IF Same(NextFile) \/ (NextFile # "table" /\ NextFile \notin DOMAIN disk.golden)
     THEN left' = left \ {NextFile} /\ UNCHANGED <<v_pc, v_rc>>
     ELSE v_pc' = "done" /\ v_rc' = 1 /\ UNCHANGED left
  /\ UNCHANGED <<check, build, record, ids, failures, table, golden, disk, lost, invoked>>

\* The first difference ends it.
CheckFile ==
  /\ v_pc = "check" /\ left # {}
  /\ IF Same(NextFile)
     THEN left' = left \ {NextFile} /\ UNCHANGED <<v_pc, v_rc>>
     ELSE v_pc' = "done" /\ v_rc' = 1 /\ UNCHANGED left
  /\ UNCHANGED <<check, build, record, ids, failures, table, golden, disk, lost, invoked>>

Written(file, whole) ==
  IF file = "table" THEN [disk EXCEPT !.table = <<[rows |-> table, whole |-> whole]>>]
  ELSE [disk EXCEPT !.golden =
          [f \in DOMAIN @ \cup {file} |->
             IF f = file THEN [value |-> golden[f], whole |-> whole] ELSE @[f]]]

\* A file is written, in part only if the last buffer is lost when it is closed.
WriteFile ==
  /\ v_pc = "write" /\ left # {}
  /\ \E whole \in BOOLEAN :
       /\ disk' = Written(NextFile, whole)
       /\ lost' = (lost \/ ~whole)
  /\ left' = left \ {NextFile}
  /\ UNCHANGED <<v_pc, check, build, record, ids, failures, table, golden, v_rc, invoked>>

\* One that cannot be opened or written ends it.
WriteFileFails ==
  /\ v_pc = "write" /\ left # {}
  /\ disk' \in {disk, Written(NextFile, FALSE)}
  /\ v_pc' = "done" /\ v_rc' = 1
  /\ UNCHANGED <<check, build, record, ids, failures, table, golden, left, lost, invoked>>

AllFiles ==
  /\ v_pc \in {"check", "write"} /\ left = {}
  /\ v_pc' = "done"
  /\ UNCHANGED <<check, build, record, ids, failures, table, golden, left, disk, lost,
                 v_rc, invoked>>

VectorsNext ==
  \/ Invoke \/ Generated \/ CheckFile \/ WriteFile \/ WriteFileFails \/ AllFiles
  \/ DeriveRecord \/ HexRecord \/ KeyRecord \/ ContrastRecord \/ RenderRecord
  \/ ErrorRecord \/ SweepRecord \/ ImageRecord \/ FailureRecord \/ GoldenRecord

-----------------------------------------------------------------------------
(* Properties *)

\* The records of the program come out as it expects: every render and sweep is
\* drawn, down to the smallest size its frame leaves room for, and every refusal is
\* the one it names, in the order of the checks (gen_vectors.cpp:548-604, 624-670).
\* This holds Prepare against what the program itself says of it.
VectorsAreMade == build.wrong = {} => failures = 0

\* The table a build makes when all goes well.
TableOf(b) ==
  LET Code(i) == IF i \in b.wrong THEN Other(Codes[i]) ELSE Codes[i]
  IN  [i \in DOMAIN Plan |->
         [kind |-> Plan[i].kind,
          id |-> IF Plan[i].kind \in {"D", "G"} THEN Plan[i].name
                 ELSE Cardinality({j \in 1..i : Plan[j].kind = Plan[i].kind}),
          code |-> Code(i),
          value |-> ShowsValue(Plan[i].kind, Code(i)) /\ i \in b.changed]]

GoldenRecords == {i \in DOMAIN Plan : Plan[i].kind = "G"}

\* The files of the directory are all of them those of a build.
Holds(b) ==
  /\ There("table") /\ disk.table[1].rows = TableOf(b)
  /\ \A i \in GoldenRecords : There(Plan[i].name)
                              /\ disk.golden[Plan[i].name].value = (i \in b.changed)

\* A check succeeds on the whole product of its own build and on nothing else: not
\* on what a run left that failed half way, or lost the end of a file without
\* noticing (gen_vectors.cpp:5, 740-755 "compares, byte for byte").
CheckIsExact ==
  v_pc = "done" /\ check => (v_rc = 0 <=> failures = 0 /\ Holds(build))

\* The directory is touched only by a run that was not asked to check and in which
\* every record came out, and one that succeeds leaves its product whole but for
\* what is lost when a file is closed (gen_vectors.cpp:734-737, 756-767).
WrittenOnlyWhole ==
  [][/\ disk' # disk => ~check /\ failures = 0 /\ table = TableOf(build)
     /\ v_pc' = "done" /\ v_pc = "write" /\ v_rc' = 0 /\ ~lost => Holds(build)]_v_vars
=============================================================================
