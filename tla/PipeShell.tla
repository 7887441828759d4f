------------------------------- MODULE PipeShell -------------------------------
(***************************************************************************)
(* The shell of phase 2, Project0x01/phase2/myshell.c: main, eval,         *)
(* builtin_command and the history, with the lines of module CommandLine   *)
(* and the pipelines of module Pipeline.                                   *)
(* Phase 1 is the same without pipelines; phase 3 repeats the text and adds*)
(* the jobs of Shell.                                                      *)
(*                                                                         *)
(* The history is kept in memory and, line by line as it grows, in the     *)
(* history.txt of the directory the shell is in, which cd changes. A shell *)
(* may be killed at any moment and started again, in any directory; killed *)
(* while it writes it leaves a torn last line, which the next shell loads  *)
(* and, without a newline, writes in front of its own next entry.          *)
(*                                                                         *)
(* Simplifications:                                                        *)
(*  - a plain command is its start and its end; one that ends in & is like *)
(*    one that ends at once, for the shell never looks at it again;        *)
(*  - a file is the sequence of what was written to it, torn entries and   *)
(*    whole ones; lines are shorter than MAXLINE, fused ones too;          *)
(*  - what a torn or fused line says, and so what eval makes of it, is any *)
(*    member of a set.                                                     *)
(***************************************************************************)
EXTENDS Pipeline, CommandLine

CONSTANTS Dirs,
          MAXHISTORY,
          Lines,      \* lines the user types
          Fragments,  \* entries without their newline, as eval takes them
          Fused,      \* lines that begin with a fragment and end as another entry
          Earlier,    \* Earlier[d]: history.txt as earlier sessions left it
          MaxLines,   \* bound of the model: lines typed
          MaxStarts   \* bound of the model: times the shell is started

Entries == Lines \cup Fragments \cup Fused

Recalls == {"!!", "!n"}
Unsaved == Recalls \cup {"exit", "blank"}

(* What the history holds, when all is well; it grows from nothing. Of a   *)
(* torn or fused entry nothing is said.                                    *)
Compact(h) == /\ Len(h) <= MAXHISTORY
              /\ \A k \in DOMAIN h : h[k] \in Lines => Kind(h[k]) \notin Unsaved
              /\ \A k \in DOMAIN h : k > 1 /\ h[k] \in Lines => h[k] # h[k - 1]

ASSUME PipeShellAssumption ==
    /\ MAXHISTORY \in Nat \ {0}
    /\ Entries \subseteq Seq(STRING)
    /\ Lines \cap (Fragments \cup Fused) = {}
    /\ Fragments \cap Fused = {}
    /\ \A l \in Fragments \cup Fused : Kind(l) \notin Recalls
    /\ Earlier \in [Dirs -> Seq(Entries)]
    /\ \A d \in Dirs : Compact(Earlier[d])
    /\ {MaxLines, MaxStarts} \subseteq Nat

NoLine == <<"none">>
Nowhere == "nowhere"

VARIABLES
    pc,       \* off, prompt, eval, save, write (history.txt is open), act, run, wait
    line,     \* cmdline
    history,  \* the entries; history_count is its length
    file,     \* file[d]: history.txt in directory d, empty if there is none
    cwd,      \* the directory the shell is in
    kept,     \* history variable: where history.txt should equal the history
    nlines,
    nstarts

shellVars == <<pc, line, history, file, cwd, kept, nlines, nstarts>>
vars == <<pipeVars, shellVars>>

Init == /\ Idle
        /\ pc = "off"
        /\ line = NoLine
        /\ history = <<>>
        /\ file = Earlier
        /\ cwd \in Dirs
        /\ kept = Nowhere
        /\ nlines = 0
        /\ nstarts = 0

----------------------------------------------------------------------------
(* main *)

(* Where the lines of a file end: fgets reads on past a fragment.          *)
LineEnds(f) == {k \in DOMAIN f : f[k] \notin Fragments \/ k = Len(f)}

(* h is what is read from f: each entry as it was written, unless the one  *)
(* before it has no newline.                                               *)
Loads(f, h) ==
    \E at \in [DOMAIN h -> LineEnds(f)] :
       /\ \A k \in DOMAIN h : k > 1 => at[k - 1] < at[k]
       /\ \A k \in DOMAIN h :
            LET from == IF k = 1 THEN 1 ELSE at[k - 1] + 1
            IN  IF from = at[k] THEN h[k] = f[at[k]]
                ELSE h[k] \in IF f[at[k]] \in Fragments THEN Fragments ELSE Fused

(* The history is loaded from the directory the shell is started in; from  *)
(* now on the file is taken line by line.                                  *)
Start(d) == /\ pc = "off"
            /\ nstarts < MaxStarts
            /\ EndPipeline
            /\ pc' = "prompt"
            /\ line' = NoLine
            /\ \E h \in [1 .. Cardinality(LineEnds(file[d])) -> Entries] :
                  /\ Loads(file[d], h)
                  /\ history' = h
                  /\ file' = [file EXCEPT ![d] = h]
            /\ cwd' = d
            /\ kept' = d
            /\ nstarts' = nstarts + 1
            /\ UNCHANGED nlines

ReadLine(l) == /\ pc = "prompt"
               /\ nlines < MaxLines
               /\ line' = l
               /\ pc' = "eval"
               /\ nlines' = nlines + 1
               /\ UNCHANGED <<pipeVars, history, file, cwd, kept, nstarts>>

(* End of file on the terminal.                                            *)
EndOfFile == /\ pc = "prompt"
             /\ pc' = "off"
             /\ UNCHANGED <<pipeVars, line, history, file, cwd, kept, nlines, nstarts>>

(* A save that has written k entries, the next of them not, or in part.    *)
Written(k) ==
    {SubSeq(history, 1, k)}
    \cup IF k < Len(history) THEN {Append(SubSeq(history, 1, k), t) : t \in Fragments}
                              ELSE {}

(* The shell is killed; of an open history.txt some part has been written. *)
Killed == /\ pc # "off"
          /\ pc' = "off"
          /\ \/ pc # "write" /\ UNCHANGED file
             \/ /\ pc = "write"
                /\ \E k \in 0 .. Len(history) : \E part \in Written(k) :
                      file' = [file EXCEPT ![cwd] = part]
          /\ UNCHANGED <<pipeVars, line, history, cwd, kept, nlines, nstarts>>

----------------------------------------------------------------------------
(* eval and builtin_command *)

Eval(kind) == pc = "eval" /\ Kind(line) = kind

(* Blank lines, and lines of a single argument that begins with &.         *)
Ignore == /\ Eval("blank")
          /\ pc' = "prompt"
          /\ UNCHANGED <<pipeVars, line, history, file, cwd, kept, nlines, nstarts>>

(* exit, quit *)
ExitCommand == /\ Eval("exit")
               /\ pc' = "off"
               /\ UNCHANGED <<pipeVars, line, history, file, cwd, kept, nlines, nstarts>>

(* !! and !n: the line becomes an entry of the history, which is evaluated.*)
Recalled(k) == /\ \/ Eval("!!") /\ k = Len(history)
                  \/ Eval("!n") /\ k = Recall[Arg(line, 1)]
               /\ IF k \in 1 .. Len(history)
                  THEN line' = history[k] /\ UNCHANGED pc
                  ELSE pc' = "prompt" /\ UNCHANGED line
               /\ UNCHANGED <<pipeVars, history, file, cwd, kept, nlines, nstarts>>

(* cd saves the line after it changed the directory, if it could.          *)
Cd == /\ Eval("cd")
      /\ cwd' \in {cwd} \cup (Dirs \cap {Arg(line, 2)})
      /\ pc' = "save"
      /\ UNCHANGED <<pipeVars, line, history, file, kept, nlines, nstarts>>

Other == /\ pc = "eval"
         /\ Kind(line) \in {"history", "run", "pipe", "self"}
         /\ pc' = "save"
         /\ UNCHANGED <<pipeVars, line, history, file, cwd, kept, nlines, nstarts>>

----------------------------------------------------------------------------
(* save_history *)

Repeated == history # <<>> /\ Last(history) = line

SaveNothing == /\ pc = "save"
               /\ Repeated
               /\ pc' = "act"
               /\ UNCHANGED <<pipeVars, line, history, file, cwd, kept, nlines, nstarts>>

(* Mutation: a full history drops the new entry instead of the oldest.     *)
PushedFull(h, l) == IF Len(h) < MAXHISTORY THEN Append(h, l) ELSE h

Pushed(h, l) == IF Len(h) < MAXHISTORY THEN Append(h, l) ELSE Append(Tail(h), l)

(* fopen with "w" empties the file; if it fails the history is not stored. *)
SaveEntry == /\ pc = "save"
             /\ ~Repeated
             /\ history' = Pushed(history, line)
             /\ \/ /\ pc' = "write"
                   /\ file' = [file EXCEPT ![cwd] = <<>>]
                   /\ UNCHANGED kept
                \/ /\ pc' = "act"
                   /\ kept' = Nowhere
                   /\ UNCHANGED file
             /\ UNCHANGED <<pipeVars, line, cwd, nlines, nstarts>>

(* Mutation: only the new entry is written, though "w" emptied the file.   *)
WriteLast == /\ pc = "write"
             /\ file' = [file EXCEPT ![cwd] = <<line>>]
             /\ kept' = cwd
             /\ pc' = "act"
             /\ UNCHANGED <<pipeVars, line, history, cwd, nlines, nstarts>>

(* The entries are written and the file is closed.                         *)
WriteHistory == /\ pc = "write"
                /\ file' = [file EXCEPT ![cwd] = history]
                /\ kept' = cwd
                /\ pc' = "act"
                /\ UNCHANGED <<pipeVars, line, history, cwd, nlines, nstarts>>

----------------------------------------------------------------------------
(* The command itself *)

BuiltinDone == /\ pc = "act"
               /\ Kind(line) \in {"cd", "history"}
               /\ pc' = "prompt"
               /\ UNCHANGED <<pipeVars, line, history, file, cwd, kept, nlines, nstarts>>

Run == /\ pc = "act"
       /\ Kind(line) = "run"
       /\ pc' = "run"
       /\ UNCHANGED <<pipeVars, line, history, file, cwd, kept, nlines, nstarts>>

RunDone == /\ pc = "run"
           /\ pc' = "prompt"
           /\ UNCHANGED <<pipeVars, line, history, file, cwd, kept, nlines, nstarts>>

RunPipeline == /\ pc = "act"
               /\ Kind(line) = "pipe"
               /\ StartPipeline(NumCommands(line))
               /\ pc' = "wait"
               /\ UNCHANGED <<line, history, file, cwd, kept, nlines, nstarts>>

PipelineDone == /\ pc = "wait"
                /\ sup = "exited"
                /\ EndPipeline
                /\ pc' = "prompt"
                /\ UNCHANGED <<line, history, file, cwd, kept, nlines, nstarts>>

(* A command whose second character is ! makes eval call itself with the   *)
(* same line until the stack overflows.                                    *)
SelfCall == /\ pc = "act"
            /\ Kind(line) = "self"
            /\ pc' = "off"
            /\ UNCHANGED <<pipeVars, line, history, file, cwd, kept, nlines, nstarts>>

----------------------------------------------------------------------------

ShellStep == \/ Ignore
             \/ ExitCommand
             \/ \E k \in 0 .. MAXHISTORY + 1 : Recalled(k)
             \/ Cd
             \/ Other
             \/ SaveNothing
             \/ SaveEntry
             \/ WriteHistory
             \/ BuiltinDone
             \/ Run
             \/ RunDone
             \/ RunPipeline
             \/ PipelineDone
             \/ SelfCall

User == \/ \E d \in Dirs : Start(d)
        \/ \E l \in Lines : ReadLine(l)
        \/ EndOfFile
        \/ Killed

Next == \/ User
        \/ ShellStep
        \/ PipelineStep /\ UNCHANGED shellVars

Spec == Init /\ [][Next]_vars

(* Every process runs when it can.                                         *)
FairSpec == /\ Spec
            /\ WF_vars(ShellStep)
            /\ WF_vars(Supervisor /\ UNCHANGED shellVars)
            /\ \A c \in Commands : WF_vars(Command(c) /\ UNCHANGED shellVars)

----------------------------------------------------------------------------
(* Properties *)

(* Type invariant.                                                         *)
TypeOK ==
    /\ sup \in {"none", "pipes", "fork", "wait", "exited"}
    /\ n \in 0 .. MAX_COMMANDS
    /\ i \in 0 .. n + 1
    /\ proc \in [Commands -> {"unborn", "forked", "run", "zombie", "gone"}]
    /\ ends \in [Procs -> SUBSET Ends]
    /\ {stdin[c] : c \in Commands} \cup {stdout[c] : c \in Commands} \subseteq Pipes \cup {0}
    /\ \A j \in Pipes : Len(pipe[j]) <= Capacity
    /\ held \in [Commands -> 0 .. Items]
    /\ made \in 0 .. Items
    /\ pc \in {"off", "prompt", "eval", "save", "write", "act", "run", "wait"}
    /\ line \in Entries \cup {NoLine}
    /\ history \in Seq(Entries)
    /\ file \in [Dirs -> Seq(Entries)]
    /\ cwd \in Dirs
    /\ kept \in Dirs \cup {Nowhere}

(* The history, in memory and in every file a shell may load, holds at most*)
(* MAXHISTORY entries; of those that are whole lines the user typed none is*)
(* blank, a recall or exit, and none is there twice in a row. What the     *)
(* shell is executing is the last entry, however it was entered. And the   *)
(* file where the last entry was stored holds the entries of the history   *)
(* one after the other, whatever directories cd has been through since. (A *)
(* shell started there has the same history, unless an entry but the last  *)
(* is a fragment: that one becomes part of the entry that follows it.)     *)
HistorySound ==
    /\ \A h \in {history} \cup {file[d] : d \in Dirs} : Compact(h)
    /\ pc \in {"act", "run", "wait"} => Repeated
    /\ pc \in {"prompt", "act", "run", "wait"} /\ kept # Nowhere => file[kept] = history

(* The prompt comes back after a pipeline whose commands end when their    *)
(* input does: every reader sees end of file, because no process keeps a   *)
(* write end it does not use.                                              *)
PipelineEnds == pc = "wait" ~> pc \in {"prompt", "off"}
===============================================================================
