----------------------------- MODULE CommandLine -----------------------------
(***************************************************************************)
(* Command lines of the shells, Project0x01/phase1 to phase3/myshell.c:    *)
(* what parseline, eval and builtin_command make of a line.                *)
(*                                                                         *)
(* A line is the sequence of its arguments, those that blanks separate.    *)
(* An argument is a string; those whose single characters count are listed *)
(* below. MAXARGS is never reached.                                        *)
(***************************************************************************)
EXTENDS Integers, Sequences, SequencesExt

Ampersand == {"&", "&x"}                           \* begin with &
Recall    == ("!1" :> 1) @@ ("!2" :> 2) @@ ("!x" :> 0)  \* begin with !: what atoi finds
Bangs     == {"!!", "x!"}                          \* their second character is !

(* The last argument is dropped if it begins with &, whatever follows; an  *)
(* empty line counts as a background job.                                  *)
parseline(cmdline) ==
    LET bg == cmdline = <<>> \/ Last(cmdline) \in Ampersand
    IN  [argv |-> IF bg /\ cmdline # <<>> THEN Front(cmdline) ELSE cmdline,
         bg   |-> bg]

(* The argument at position k, counted from 1; NULL behind the last.       *)
Arg(cmdline, k) ==
    LET argv == parseline(cmdline).argv
    IN  IF k \in DOMAIN argv THEN argv[k] ELSE "NULL"

HasPipe(cmdline) == "|" \in ToSet(parseline(cmdline).argv)

(* The commands of a pipeline; a | at the end of the line begins none.     *)
NumCommands(cmdline) ==
    LET argv == parseline(cmdline).argv
    IN  1 + Cardinality({k \in DOMAIN argv : argv[k] = "|" /\ k < Len(argv)})

(* Where eval and builtin_command send the line.                           *)
Kind(cmdline) ==
    LET word == Arg(cmdline, 1)
    IN  CASE word \in {"NULL", "&"}     -> "blank"
          [] word \in {"exit", "quit"}  -> "exit"
          [] word = "history"           -> "history"
          [] word = "!!"                -> "!!"
          [] word \in DOMAIN Recall     -> "!n"
          [] word = "cd"                -> "cd"
          [] word \in Bangs \ {"!!"}    -> "self"
          [] OTHER -> IF HasPipe(cmdline) THEN "pipe" ELSE "run"
===============================================================================
