-------------------------------- MODULE Lab --------------------------------
(***************************************************************************)
(* hh_lab, src/tools/lab/lab_main.cpp: the arguments, the directory, and   *)
(* the commands that were asked for, one after the other, each with the    *)
(* same options.  `palette` and `grind` run here; of the others only their *)
(* result is kept.                                                         *)
(***************************************************************************)
EXTENDS Grinding, PaletteSearch

CONSTANTS Words,      \* the words of a command line
          Arguments,  \* the command lines tried: the command and its options
          Number(_),  \* what stoul makes of a word, as an unsigned; -1 if it throws
          Hardware    \* what hardware_concurrency may say

ASSUME ArgumentsAssumption ==
  /\ Arguments \subseteq Seq(Words)
  /\ \A word \in Words : Number(word) \in Nat \cup {-1}
  /\ Hardware \subseteq Nat

VARIABLES lab_pc,  \* "args", "command", "running", "done"
          args,    \* the arguments not read yet
          opt,     \* threads and quick
          name,    \* the command asked for
          command, \* which command is next
          found,
          rc       \* the exit status so far

lab_vars == <<lab_pc, args, opt, name, command, found, rc>>
vars == <<lab_vars, grind_vars, palette_vars>>
parts == <<grind_vars, palette_vars>>

Commands == <<"selftest", "palette", "sheets", "markers", "surfaces", "grind",
              "directions", "bench">>

Init ==
  /\ GrindIdle /\ PaletteIdle
  /\ lab_pc = "args"
  /\ args \in Arguments
  /\ opt = [threads |-> 0, quick |-> FALSE]
  /\ name = IF args = <<>> THEN "" ELSE Head(args)
  /\ command = 1 /\ found = FALSE /\ rc = 0

\* The exit status when nobody catches an exception.
Aborted == 134

\* The options after the command; without a command, and at one that is not
\* known or lacks its value, the usage is shown.
ReadOption ==
  /\ lab_pc = "args"
  /\ \/ /\ Len(args) <= 1
        /\ lab_pc' = IF args = <<>> THEN "done" ELSE "dirs"
        /\ rc' = IF args = <<>> THEN 2 ELSE 0
        /\ UNCHANGED <<args, opt>>
     \/ /\ Len(args) >= 2 /\ args[2] = "--quick"
        /\ opt' = [opt EXCEPT !.quick = TRUE]
        /\ args' = Tail(args)
        /\ UNCHANGED <<lab_pc, rc>>
     \/ /\ Len(args) >= 3 /\ args[2] = "--out"
        /\ args' = Tail(Tail(args))
        /\ UNCHANGED <<lab_pc, opt, rc>>
     \/ /\ Len(args) >= 3 /\ args[2] = "--threads" /\ Number(args[3]) # -1
        /\ opt' = [opt EXCEPT !.threads = Number(args[3])]
        /\ args' = Tail(Tail(args))
        /\ UNCHANGED <<lab_pc, rc>>
     \/ /\ Len(args) >= 3 /\ args[2] = "--threads" /\ Number(args[3]) = -1
        /\ lab_pc' = "done" /\ rc' = Aborted
        /\ UNCHANGED <<args, opt>>
     \/ /\ Len(args) >= 2 /\ args[2] # "--quick"
        /\ Len(args) = 2 \/ args[2] \notin {"--out", "--threads"}
        /\ lab_pc' = "done" /\ rc' = 2
        /\ UNCHANGED <<args, opt>>
  /\ UNCHANGED <<name, command, found, parts>>

MakeDirs ==
  /\ lab_pc = "dirs"
  /\ \/ lab_pc' = "command" /\ UNCHANGED rc
     \/ lab_pc' = "done" /\ rc' = 1
  /\ UNCHANGED <<args, opt, name, command, found, parts>>

Selected == name \in {"all", Commands[command]}

Skip ==
  /\ lab_pc = "command" /\ command <= Len(Commands) /\ ~Selected
  /\ command' = command + 1
  /\ UNCHANGED <<lab_pc, args, opt, name, found, rc, parts>>

\* thread_count.
ThreadCount == IF opt.threads # 0 THEN {opt.threads}
               ELSE {IF n = 0 THEN 1 ELSE n : n \in Hardware}

Run ==
  /\ lab_pc = "command" /\ command <= Len(Commands) /\ Selected
  /\ found' = TRUE /\ lab_pc' = "running"
  /\ \E n \in ThreadCount :
       CASE Commands[command] = "grind"   -> StartGrinding(n, opt.quick) /\ UNCHANGED palette_vars
         [] Commands[command] = "palette" -> StartPalette(n, opt.quick) /\ UNCHANGED grind_vars
         [] OTHER                         -> UNCHANGED parts
  /\ UNCHANGED <<args, opt, name, command, rc>>

\* What the command that runs may have returned, if it has.
Results ==
  CASE Commands[command] = "grind"   -> {r \in {grind_rc} : grind_pc = "done"}
    [] Commands[command] = "palette" -> {r \in {palette_rc} : palette_pc = "done"}
    [] OTHER                         -> {0, 1}

Return ==
  /\ lab_pc = "running"
  /\ \E r \in Results : rc' = IF r = 0 THEN rc ELSE 1
  /\ command' = command + 1 /\ lab_pc' = "command"
  /\ UNCHANGED <<args, opt, name, found, parts>>

Exit ==
  /\ lab_pc = "command" /\ command > Len(Commands)
  /\ rc' = IF found THEN rc ELSE 2
  /\ lab_pc' = "done"
  /\ UNCHANGED <<args, opt, name, command, found, parts>>

Main == ReadOption \/ MakeDirs \/ Skip \/ Run \/ Return \/ Exit

Next ==
  \/ Main
  \/ GrindNext /\ UNCHANGED <<lab_vars, palette_vars>>
  \/ PaletteNext /\ UNCHANGED <<lab_vars, grind_vars>>

\* The system lets some thread that can go on do so.  No more is needed: none of
\* them spins, so none can keep the others from their turns for ever.
Spec == Init /\ [][Next]_vars /\ WF_vars(Next)

-----------------------------------------------------------------------------
(* Properties *)

\* Every command line comes to an end: no thread waits for a mutex for ever, and
\* every pool is joined.
LabEnds == <>(lab_pc = "done")
=============================================================================
