---------------------------- MODULE CommandLine ----------------------------
(***************************************************************************)
(* hh_cli, src/examples/hh_cli.cpp, with the names of src/tools/names.hpp: *)
(* the options of a single picture, the lines of a batch, what the library *)
(* answers to a request (Prepare of Render among it), and the files that   *)
(* are written.  A word of a line or an argument is a string; what it      *)
(* means as a number, as hexadecimal digits or as a path is a constant.    *)
(***************************************************************************)
EXTENDS Render, SequencesExt, FiniteSetsExt

CONSTANTS ArgumentLists, \* the arguments tried
          CaseFiles,     \* the files tried: sequences of lines
          Number(_),     \* whether a word is 1 to 10 digits, and its value
          MaxNumber,     \* 2^31 - 1, beyond what the library takes
          Hex(_),        \* [valid, prefix, size, zero]: whether a word is hexadecimal
                         \* digits, behind 0x, and the bytes they spell
          Background(_), \* whether a colour is opaque, and figures distinct on it
          Extension(_)   \* what follows the last dot of a path of five characters
                         \* or more

ASSUME MaxNumberAssumption == MaxNumber \in Nat /\ MaxNumber > 1024

ASSUME ListsAssumption == ArgumentLists \subseteq Seq(STRING) /\ CaseFiles \subseteq Seq(Seq(STRING))

\* The words an option or a field can be.
KnownWords ==
  {"", "92", "128", "255", "glued"} \cup (UNION {Range(list) : list \in ArgumentLists})
    \cup (UNION {UNION {Range(line) : line \in Range(file)} : file \in CaseFiles})

\* Digits spell a natural number, and 92, 128 and 255 those; a path without a name has
\* no extension.
ASSUME WordsAssumption ==
  /\ \A w \in KnownWords : Number(w).valid => Number(w).value \in Nat
  /\ Number("92") = [valid |-> TRUE, value |-> 92]
  /\ Number("128") = [valid |-> TRUE, value |-> 128]
  /\ Number("255") = [valid |-> TRUE, value |-> 255]
  /\ Extension("") = ""

VARIABLES cli_pc,    \* "args", "single", "write", "batch", "line", "done"
          argv,      \* the arguments
          args,      \* those not read yet
          lines,     \* the file of cases
          at,        \* how many of its lines have been read
          rq,        \* the request
          out_path, have_input, format_given,
          n,         \* the number of the case
          printed,   \* what standard output shows: a line per case, or the result
          files,     \* path -> the bytes that are there, and whether they are whole
          unnoticed, \* the faults no call reported
          cli_rc

cli_vars == <<cli_pc, argv, args, lines, at, rq, out_path, have_input, format_given, n,
              printed, files, unnoticed, cli_rc>>

-----------------------------------------------------------------------------
(* Words *)

FrameNames ==
  [automatic |-> "automatic", none |-> "none", plain |-> "plain",
   rounded |-> "rounded", chamfered |-> "chamfered", double |-> "double_line",
   thick |-> "thick", brackets |-> "brackets", ticks |-> "ticks", gaps |-> "gaps"]

FromHex(w) == Hex(w).valid /\ ~Hex(w).prefix
IsRgb(w) == FromHex(w) /\ Hex(w).size = 3
IsRgba(w) == FromHex(w) /\ Hex(w).size = 4

IsNumber(w) == Number(w).valid

\* Mutant: the value wraps around.
ParseWrapping(w) == Number(w).value % (2 * (MaxNumber + 1))

ParseNumber(w) == Smaller(Number(w).value, MaxNumber)

DefaultRequest ==
  [text |-> FALSE, input |-> "", key |-> "", size |-> 128, shape |-> "square",
   frame |-> "automatic", background |-> "ffffffff", frame_alpha |-> 255,
   format |-> "png", quality |-> 92, matte |-> "ffffff"]

-----------------------------------------------------------------------------
(* run *)

OptionsOf(r) == [shape |-> r.shape, frame |-> r.frame,
                 opaque |-> Background(r.background).opaque,
                 distinct |-> Background(r.background).distinct]

ModeOf(r) == IF r.key = "" THEN "universal" ELSE "keyed"

\* A base digest, a fingerprint, an image and its encoding, unless one of them is
\* refused.
Run(r) ==
  LET drawn == Prepare(ModeOf(r), r.size, OptionsOf(r))
  IN  FirstFailure(<<
        Check(r.text /\ r.input = "", "empty_input"),
        Check(~r.text /\ (~Hex(r.input).valid \/ Hex(r.input).size = 0), "invalid_hex"),
        Check(r.key # "" /\ (~FromHex(r.key) \/ Hex(r.key).size # 32 \/ Hex(r.key).zero),
              "invalid_key"),
        Check(drawn # "ok", drawn),
        Check(r.format \notin {"png", "bmp", "jpeg", "rgba"}, "invalid_argument"),
        Check(r.format = "jpeg" /\ r.quality \notin 50..100, "invalid_quality")>>)

-----------------------------------------------------------------------------
(* batch *)

\* One CR before the end is dropped.
Chomp(line) ==
  IF line # <<>> /\ Last(line) = "\r" THEN Front(line) ELSE line

Skipped(line) == IF line = <<>> THEN TRUE ELSE line[1] = "#"

\* Fields are runs of what is not blank; a word glued to another is a third one.
SplitFields(line) ==
  LET split[i \in 0..Len(line)] ==
        IF i = 0 THEN [open |-> FALSE, fields |-> <<>>]
        ELSE LET s == split[i - 1]
             IN  IF line[i] = " " THEN [open |-> FALSE, fields |-> s.fields]
                 ELSE IF s.open
                 THEN [open |-> TRUE,
                       fields |-> Append(Front(s.fields), Append(Last(s.fields), line[i]))]
                 ELSE [open |-> TRUE, fields |-> Append(s.fields, <<line[i]>>)]
  IN  split[Len(line)].fields

Word(field) == IF Len(field) = 1 THEN field[1] ELSE "glued"

\* Whether the fields are a case.
IsCase(f) ==
  /\ Len(f) = 11
  /\ f[1] \in {"hex", "text"}
  /\ IsNumber(f[4]) /\ IsNumber(f[8]) /\ ParseNumber(f[8]) <= 255 /\ IsNumber(f[10])
  /\ f[5] \in Shape /\ f[6] \in DOMAIN FrameNames
  /\ IsRgba(f[7]) /\ IsRgb(f[11])
  /\ f[1] = "text" => FromHex(f[2])

RequestOf(f) ==
  [text |-> f[1] = "text", input |-> f[2], key |-> IF f[3] = "-" THEN "" ELSE f[3],
   size |-> ParseNumber(f[4]), shape |-> f[5], frame |-> FrameNames[f[6]],
   background |-> f[7], frame_alpha |-> ParseNumber(f[8]), format |-> f[9],
   quality |-> ParseNumber(f[10]), matte |-> f[11]]

TextLine == Chomp(lines[at + 1])
Fields == LET f == SplitFields(TextLine) IN [i \in DOMAIN f |-> Word(f[i])]

\* A file that cannot be read; a directory that cannot be made is not looked at.
OpenBatch ==
  /\ cli_pc = "batch"
  /\ \/ cli_pc' = "line" /\ UNCHANGED cli_rc
     \/ cli_pc' = "done" /\ cli_rc' = 1
  /\ UNCHANGED <<argv, args, lines, at, rq, out_path, have_input, format_given, n, printed,
                 files, unnoticed>>

SkipLine ==
  /\ cli_pc = "line" /\ at < Len(lines) /\ Skipped(TextLine)
  /\ at' = at + 1
  /\ UNCHANGED <<cli_pc, argv, args, lines, rq, out_path, have_input, format_given, n,
                 printed, files, unnoticed, cli_rc>>

BadCase ==
  /\ cli_pc = "line" /\ at < Len(lines) /\ ~Skipped(TextLine) /\ ~IsCase(Fields)
  /\ at' = at + 1 /\ n' = n + 1
  /\ printed' = Append(printed, [n |-> n + 1, says |-> "bad_case", whole |-> TRUE])
  /\ UNCHANGED <<cli_pc, argv, args, lines, rq, out_path, have_input, format_given, files,
                 unnoticed, cli_rc>>

\* The answer of the library; a line that says ok ends when its file is written.
AnswerCase ==
  LET r == RequestOf(Fields)
  IN  /\ cli_pc = "line" /\ at < Len(lines) /\ ~Skipped(TextLine) /\ IsCase(Fields)
      /\ at' = at + 1 /\ n' = n + 1
      /\ rq' = r
      /\ printed' = Append(printed,
           IF Run(r) # "ok" THEN [n |-> n + 1, says |-> Run(r), whole |-> TRUE]
           ELSE [n |-> n + 1, says |-> "ok", whole |-> FALSE, mode |-> ModeOf(r)])
      /\ out_path' = IF Run(r) = "ok" THEN <<n + 1, r.format>> ELSE <<>>
      /\ cli_pc' = IF Run(r) = "ok" THEN "write" ELSE "line"
      /\ UNCHANGED <<argv, args, lines, have_input, format_given, files, unnoticed, cli_rc>>

\* Mutant: the batch goes on after a file that cannot be written.
WriteFailedOn(batch) ==
  /\ files' = [p \in DOMAIN files \cup {out_path} |->
                 IF p = out_path THEN [of |-> rq, whole |-> FALSE] ELSE files[p]]
  /\ cli_pc' = IF batch THEN "line" ELSE "done"
  /\ cli_rc' = 1
  /\ UNCHANGED <<printed, unnoticed>>

\* The stream is found to have failed: some of the bytes are there, or none.
WriteFailed(batch) ==
  /\ files' = [p \in DOMAIN files \cup {out_path} |->
                 IF p = out_path THEN [of |-> rq, whole |-> FALSE] ELSE files[p]]
  /\ cli_pc' = "done"
  /\ cli_rc' = 1
  /\ UNCHANGED <<printed, unnoticed>>

\* write_file reports success before the stream is closed; what the last buffer
\* then meets nobody is told.
WriteDone(batch) ==
  \E whole \in BOOLEAN :
    /\ files' = [p \in DOMAIN files \cup {out_path} |->
                   IF p = out_path THEN [of |-> rq, whole |-> whole] ELSE files[p]]
    /\ unnoticed' = IF whole THEN unnoticed ELSE unnoticed \cup {"close"}
    /\ printed' = IF batch THEN [printed EXCEPT ![Len(printed)].whole = TRUE]
                  ELSE Append(printed, [n |-> 0, says |-> "wrote", whole |-> TRUE])
    /\ cli_pc' = IF batch THEN "line" ELSE "done"
    /\ UNCHANGED cli_rc

Write ==
  /\ cli_pc = "write"
  /\ WriteDone(at > 0) \/ WriteFailed(at > 0)
  /\ UNCHANGED <<argv, args, lines, at, rq, out_path, have_input, format_given, n>>

\* getline fails, at the end of the file or because the file can no longer be read.
EndBatch ==
  /\ cli_pc = "line"
  /\ cli_pc' = "done"
  /\ unnoticed' = IF at = Len(lines) THEN unnoticed ELSE unnoticed \cup {"read"}
  /\ UNCHANGED <<argv, args, lines, at, rq, out_path, have_input, format_given, n, printed,
                 files, cli_rc>>

-----------------------------------------------------------------------------
(* main *)

Valued == {"--key", "--size", "--shape", "--frame", "--background", "--frame-alpha",
           "--format", "--quality", "--matte", "--out"}
Dashed == Valued \cup {"--batch", "--text", "--help", "--slow"}

\* Whether an option takes a value.
Takes(option, w) ==
  CASE option \in {"--size", "--quality"} -> IsNumber(w)
    [] option = "--frame-alpha" -> IsNumber(w) /\ ParseNumber(w) <= 255
    [] option = "--shape"       -> w \in Shape
    [] option = "--frame"       -> w \in DOMAIN FrameNames
    [] option = "--background"  -> IsRgba(w)
    [] option = "--matte"       -> IsRgb(w)
    [] OTHER                    -> TRUE

\* The request with an option set.
Set(r, option, w) ==
  CASE option = "--key"         -> [r EXCEPT !.key = w]
    [] option = "--size"        -> [r EXCEPT !.size = ParseNumber(w)]
    [] option = "--shape"       -> [r EXCEPT !.shape = w]
    [] option = "--frame"       -> [r EXCEPT !.frame = FrameNames[w]]
    [] option = "--background"  -> [r EXCEPT !.background = w]
    [] option = "--frame-alpha" -> [r EXCEPT !.frame_alpha = ParseNumber(w)]
    [] option = "--format"      -> [r EXCEPT !.format = w]
    [] option = "--quality"     -> [r EXCEPT !.quality = ParseNumber(w)]
    [] option = "--matte"       -> [r EXCEPT !.matte = w]
    [] option = "--out"         -> r

CliIdle ==
  /\ cli_pc = "done" /\ argv = <<>> /\ args = <<>> /\ lines = <<>> /\ at = 0
  /\ rq = DefaultRequest
  /\ out_path = <<>> /\ have_input = FALSE /\ format_given = FALSE
  /\ n = 0 /\ printed = <<>> /\ files = <<>> /\ unnoticed = {} /\ cli_rc = 0

CliInit ==
  /\ cli_pc = "args" /\ argv \in ArgumentLists /\ args = argv
  /\ lines \in (IF "--batch" \in Range(args) THEN CaseFiles ELSE {<<>>}) /\ at = 0
  /\ rq = DefaultRequest
  /\ out_path = <<>> /\ have_input = FALSE /\ format_given = FALSE
  /\ n = 0 /\ printed = <<>> /\ files = <<>> /\ unnoticed = {} /\ cli_rc = 0

Usage ==
  /\ cli_pc' = "done" /\ cli_rc' = 2
  /\ UNCHANGED <<rq, out_path, have_input, format_given, args>>

\* The options are read one by one, and the last of a kind counts.
ReadArgument ==
  /\ cli_pc = "args" /\ args # <<>>
  /\ \/ /\ args[1] = "--text"
        /\ rq' = [rq EXCEPT !.text = TRUE] /\ args' = Tail(args)
        /\ UNCHANGED <<cli_pc, cli_rc, out_path, have_input, format_given>>
     \/ /\ args[1] \in Valued /\ Len(args) >= 2 /\ Takes(args[1], args[2])
        /\ rq' = Set(rq, args[1], args[2])
        /\ out_path' = IF args[1] # "--out" THEN out_path
                        ELSE IF args[2] = "" THEN <<>> ELSE <<args[2]>>
        /\ format_given' = (format_given \/ args[1] = "--format")
        /\ args' = Tail(Tail(args))
        /\ UNCHANGED <<cli_pc, cli_rc, have_input>>
     \/ /\ args[1] \in Valued
        /\ ~(Len(args) >= 2 /\ Takes(args[1], args[2]))
        /\ Usage
     \/ /\ args[1] = "--batch" /\ Len(args) >= 3
        /\ cli_pc' = "batch"
        /\ UNCHANGED <<args, cli_rc, rq, out_path, have_input, format_given>>
     \/ /\ args[1] = "--batch" /\ Len(args) < 3
        /\ Usage
     \/ /\ args[1] \in {"--help", "-h"}
        /\ cli_pc' = "done"
        /\ UNCHANGED <<args, cli_rc, rq, out_path, have_input, format_given>>
     \/ /\ args[1] \notin Dashed \cup {"-h"} /\ ~have_input
        /\ rq' = [rq EXCEPT !.input = args[1]] /\ have_input' = TRUE
        /\ args' = Tail(args)
        /\ UNCHANGED <<cli_pc, cli_rc, out_path, format_given>>
     \/ /\ args[1] \notin Valued \cup {"--batch", "--text", "--help", "-h"}
        /\ args[1] \in Dashed \/ have_input
        /\ Usage
  /\ UNCHANGED <<argv, lines, at, n, printed, files, unnoticed>>

\* Mutant: an extension decides even when a format was asked for.
FormatOfPathAlways ==
  LET ext == IF out_path = <<>> THEN "" ELSE Extension(out_path[1])
  IN  CASE ext \in {"bmp", "rgba"} -> ext
        [] ext \in {"jpg", "jpeg"} -> "jpeg"
        [] OTHER -> rq.format

\* The format that is asked for, or else the one the path names.
FormatOfPath ==
  LET ext == IF out_path = <<>> \/ format_given THEN "" ELSE Extension(out_path[1])
  IN  CASE ext \in {"bmp", "rgba"} -> ext
        [] ext \in {"jpg", "jpeg"} -> "jpeg"
        [] OTHER -> rq.format

EndArguments ==
  /\ cli_pc = "args" /\ args = <<>>
  /\ IF have_input
     THEN cli_pc' = "single" /\ rq' = [rq EXCEPT !.format = FormatOfPath] /\ UNCHANGED cli_rc
     ELSE cli_pc' = "done" /\ cli_rc' = 2 /\ UNCHANGED rq
  /\ UNCHANGED <<argv, args, lines, at, out_path, have_input, format_given, n, printed, files,
                 unnoticed>>

\* An error, or the values, and the picture if there is a path for it.
Single ==
  /\ cli_pc = "single"
  /\ IF Run(rq) # "ok"
     THEN /\ cli_pc' = "done" /\ cli_rc' = 1
          /\ UNCHANGED printed
     ELSE /\ cli_pc' = IF out_path = <<>> THEN "done" ELSE "write"
          /\ printed' = <<[n |-> 0, says |-> "ok", whole |-> TRUE, mode |-> ModeOf(rq)]>>
          /\ UNCHANGED cli_rc
  /\ UNCHANGED <<argv, args, lines, at, rq, out_path, have_input, format_given, n, files,
                 unnoticed>>

CliNext ==
  \/ ReadArgument \/ EndArguments \/ Single \/ Write
  \/ OpenBatch \/ SkipLine \/ BadCase \/ AnswerCase \/ EndBatch

-----------------------------------------------------------------------------
(* Properties *)

\* The fields of a line by the format: runs of what is neither space nor tab.
FieldsByFormat(line) ==
  LET Filled(i) == i \in DOMAIN line /\ line[i] # " "
      starts == {i \in DOMAIN line : Filled(i) /\ ~Filled(i - 1)}
      Start(s) == CHOOSE i \in starts : Cardinality({j \in starts : j <= i}) = s
      Length(i) == Min({k \in 1..Len(line) : ~Filled(i + k)})
  IN  [s \in 1..Cardinality(starts) |->
         Word(SubSeq(line, Start(s), Start(s) + Length(Start(s)) - 1))]

\* What the format says of a line: hh_cli.cpp:11-22.
SaysOf(line) ==
  LET f     == FieldsByFormat(line)
      Digits(k) == Number(f[k]).valid
      legal == /\ Len(f) = 11 /\ f[1] \in {"hex", "text"}
               /\ Digits(4) /\ Digits(8) /\ Digits(10) /\ Number(f[8]).value <= 255
               /\ f[5] \in Shape /\ f[6] \in DOMAIN FrameNames
               /\ IsRgba(f[7]) /\ IsRgb(f[11]) /\ (f[1] = "text" => FromHex(f[2]))
  IN  IF ~legal THEN "bad_case"
      ELSE Run([RequestOf(f) EXCEPT !.size = Number(f[4]).value,
                                    !.quality = Number(f[10]).value])

\* The lines of a file that are not skipped, among its first lines.
CasesAmong(file, m) ==
  LET cases[i \in 0..Len(file)] ==
        IF i = 0 THEN <<>>
        ELSE IF Skipped(Chomp(file[i])) THEN cases[i - 1]
        ELSE Append(cases[i - 1], Chomp(file[i]))
  IN  cases[m]

CasesRead == CasesAmong(lines, at)

\* Every line of a batch that is a case has its line of output, in order and
\* under its number, and it says what the format the other implementations share
\* asks for, however large the numbers are (hh_cli.cpp:11-22).
BatchFollowsFormat ==
  at > 0 =>
    /\ Len(printed) = Len(CasesRead)
    /\ \A k \in DOMAIN printed : printed[k].n = k /\ printed[k].says = SaysOf(CasesRead[k])

\* The files of a batch are those of the lines that end in ok, each with the
\* picture of its own request, and a batch that succeeds has read every line and
\* finished every file, but for what no call reports; one that fails shows an
\* unfinished line last (hh_cli.cpp:20-22, 227-230).
FilesMatchLines ==
  at > 0 =>
    LET Ended == {k \in DOMAIN printed : printed[k].says = "ok" /\ printed[k].whole}
        Of(k) == RequestOf(FieldsByFormat(CasesRead[k]))
        failed == cli_pc = "done" /\ cli_rc # 0
    IN  /\ DOMAIN files = {<<k, Of(k).format>> :
                             k \in Ended \cup (IF failed THEN {Len(printed)} ELSE {})}
        /\ \A k \in Ended : LET file == files[<<k, Of(k).format>>]
                             IN  file.of = Of(k) /\ (file.whole \/ "close" \in unnoticed)
        /\ \A k \in DOMAIN printed :
             ~printed[k].whole => k = Len(printed) /\ (cli_pc = "write" \/ failed)
        /\ cli_pc = "done" /\ ~failed /\ "read" \notin unnoticed => at = Len(lines)

\* The positions of the arguments that are options or an input: not those that are
\* the value of the option before them.
OptionsIn(list) ==
  LET options[i \in 0..Len(list)] ==
        IF i = 0 THEN {}
        ELSE IF i - 1 \in options[i - 1] /\ list[i - 1] \in Valued THEN options[i - 1]
        ELSE options[i - 1] \cup {i}
  IN  options[Len(list)]

\* The last value given for an option.
Given(option, default) ==
  LET where == {i \in OptionsIn(argv) : i < Len(argv) /\ argv[i] = option}
  IN  IF where = {} THEN default
      ELSE argv[1 + CHOOSE i \in where : \A j \in where : j <= i]

\* The request the arguments spell: of every option the last value given, in the
\* format that was asked for or, only if none was, the one the path names; the input
\* is the argument that is no option and no value of one.
Asked ==
  LET options == OptionsIn(argv)
      named   == Extension(Given("--out", ""))
  IN  [text        |-> \E i \in options : argv[i] = "--text",
       input       |-> argv[CHOOSE i \in options : argv[i] \notin Dashed \cup {"-h"}],
       key         |-> Given("--key", ""),
       size        |-> Number(Given("--size", "128")).value,
       shape       |-> Given("--shape", "square"),
       frame       |-> FrameNames[Given("--frame", "automatic")],
       background  |-> Given("--background", "ffffffff"),
       frame_alpha |-> Number(Given("--frame-alpha", "255")).value,
       format      |-> Given("--format", IF named \in {"bmp", "rgba", "jpeg"} THEN named
                                         ELSE IF named = "jpg" THEN "jpeg" ELSE "png"),
       quality     |-> Smaller(Number(Given("--quality", "92")).value, MaxNumber),
       matte       |-> Given("--matte", "ffffff")]

\* A single picture that is answered is of the whole request the arguments spell,
\* whatever their order and number; it is at the last path given and nowhere else,
\* and there it is at the end of a call that succeeds, but for what no call reports;
\* without success no file is taken for a whole one (hh_cli.cpp:151-172, 302-309).
SingleAsAsked ==
  cli_pc \in {"write", "done"} /\ at = 0 /\ have_input =>
    LET path   == Given("--out", "")
        places == IF path = "" THEN {} ELSE {<<path>>}
    IN  /\ printed # <<>> => rq = Asked
        /\ DOMAIN files \subseteq places
        /\ \A p \in DOMAIN files : files[p].of = Asked
        /\ cli_rc # 0 => \A p \in DOMAIN files : ~files[p].whole
        /\ cli_pc = "done" /\ cli_rc = 0 /\ printed # <<>> =>
             \A p \in places : p \in DOMAIN files /\ (files[p].whole \/ "close" \in unnoticed)

\* The usage says of `--key HEX`: "64 hex digits: render the keyed (private)
\* picture" (hh_cli.cpp:156).
KeyMeansKeyed ==
  cli_pc = "done" /\ cli_rc = 0 /\ printed # <<>> /\ "--key" \in Range(argv) =>
    printed[1].mode = "keyed"
=============================================================================
