------------------------------- MODULE Pipeline -------------------------------
(***************************************************************************)
(* execute_piped_commands of the shell (Project0x01/phase2/myshell.c, and  *)
(* the same in phase3): a supervisor makes the pipes, forks a process per  *)
(* command, closes its own ends and waits for as many children. Processes  *)
(* share nothing but the pipes; a step is a system call of one of them, or *)
(* the private wiring of a child before it becomes the command.            *)
(*                                                                         *)
(* The commands are external. Each copies its input, item by item, to its  *)
(* output; the first makes up Items items; any may end early or not exist. *)
(* pipe and fork succeed.                                                  *)
(***************************************************************************)
EXTENDS Integers, Sequences

CONSTANTS MAX_COMMANDS,
          Items,     \* bound of the model: items the first command makes
          Capacity   \* bound of the model: items a pipe holds

Commands == 1 .. MAX_COMMANDS
Pipes    == 1 .. MAX_COMMANDS - 1   \* pipe j is pipefds[j - 1], from j to j + 1
Ends     == Pipes \X {"read", "write"}
Procs    == 0 .. MAX_COMMANDS       \* 0 is the supervisor

ASSUME PipelineAssumption ==
    /\ MAX_COMMANDS \in Nat \ {0}
    /\ Items \in Nat
    /\ Capacity \in Nat \ {0}

VARIABLES
    sup,    \* the supervisor: none, pipes, fork, wait, exited
    n,      \* num_commands
    i,      \* its loop index
    proc,   \* proc[c]: unborn, forked, run, zombie, gone
    ends,   \* ends[p]: pipe ends process p has open, besides stdin and stdout
    stdin,  \* stdin[c]: the pipe it reads, 0 for the terminal
    stdout, \* stdout[c]: the pipe it writes, 0 for the terminal
    pipe,   \* pipe[j]: what is in it
    held,   \* held[c]: the item c read and has not written, 0 if none
    made,   \* items the first command has made
    out     \* what has come out at the terminal

supVars  == <<sup, n, i>>
dataVars == <<pipe, held, made, out>>
fdVars   == <<ends, stdin, stdout>>
pipeVars == <<supVars, proc, fdVars, dataVars>>

Idle == /\ sup = "none"
        /\ n = 0
        /\ i = 0
        /\ proc = [c \in Commands |-> "unborn"]
        /\ ends = [p \in Procs |-> {}]
        /\ stdin = [c \in Commands |-> 0]
        /\ stdout = [c \in Commands |-> 0]
        /\ pipe = [j \in Pipes |-> <<>>]
        /\ held = [c \in Commands |-> 0]
        /\ made = 0
        /\ out = <<>>

----------------------------------------------------------------------------
(* The supervisor *)

(* Mutation: the loop runs to the end of the line.                         *)
SplitAll(length) == length

(* The line is split into commands; those beyond MAX_COMMANDS are dropped. *)
Split(length) == IF length > MAX_COMMANDS THEN MAX_COMMANDS ELSE length

(* No pipes and no children yet, or any more.                              *)
Cleared == /\ proc' = [c \in Commands |-> "unborn"]
           /\ ends' = [p \in Procs |-> {}]
           /\ stdin' = [c \in Commands |-> 0]
           /\ stdout' = [c \in Commands |-> 0]
           /\ pipe' = [j \in Pipes |-> <<>>]
           /\ held' = [c \in Commands |-> 0]
           /\ made' = 0
           /\ out' = <<>>

(* The shell forks the supervisor of a line of so many commands.           *)
StartPipeline(length) == sup' = "pipes" /\ n' = Split(length) /\ i' = 1 /\ Cleared

(* The shell has waited for the supervisor.                                *)
EndPipeline == /\ sup \in {"none", "exited"}
               /\ sup' = "none"
               /\ n' = 0
               /\ i' = 0
               /\ Cleared

MakePipe == /\ sup = "pipes"
            /\ i < n
            /\ ends' = [ends EXCEPT ![0] = @ \cup {<<i, "read">>, <<i, "write">>}]
            /\ i' = i + 1
            /\ UNCHANGED <<sup, n, proc, stdin, stdout, dataVars>>

PipesMade == /\ sup = "pipes"
             /\ i = n
             /\ sup' = "fork"
             /\ i' = 1
             /\ UNCHANGED <<n, proc, fdVars, dataVars>>

(* The child inherits what the supervisor has open.                        *)
Fork == /\ sup = "fork"
        /\ i <= n
        /\ proc' = [proc EXCEPT ![i] = "forked"]
        /\ ends' = [ends EXCEPT ![i] = ends[0]]
        /\ i' = i + 1
        /\ UNCHANGED <<sup, n, stdin, stdout, dataVars>>

(* Mutation: the supervisor keeps its write ends.                          *)
CloseAllReading == /\ sup = "fork"
                   /\ i = n + 1
                   /\ ends' = [ends EXCEPT ![0] = {e \in @ : e[2] = "write"}]
                   /\ sup' = "wait"
                   /\ i' = 1
                   /\ UNCHANGED <<n, proc, stdin, stdout, dataVars>>

(* Pipes the loops over j = 1 .. n - 1 close.                              *)
Closed == {e \in Ends : e[1] < n}

CloseAll == /\ sup = "fork"
            /\ i = n + 1
            /\ ends' = [ends EXCEPT ![0] = @ \ Closed]
            /\ sup' = "wait"
            /\ i' = 1
            /\ UNCHANGED <<n, proc, stdin, stdout, dataVars>>

(* wait(NULL)                                                              *)
WaitChild(c) == /\ sup = "wait"
                /\ i <= n
                /\ proc[c] = "zombie"
                /\ proc' = [proc EXCEPT ![c] = "gone"]
                /\ i' = i + 1
                /\ UNCHANGED <<sup, n, fdVars, dataVars>>

(* Mutation: one wait too few.                                             *)
SupervisorExitEarly == /\ sup = "wait"
                       /\ i >= n
                       /\ sup' = "exited"
                       /\ UNCHANGED <<n, i, proc, fdVars, dataVars>>

SupervisorExit == /\ sup = "wait"
                  /\ i = n + 1
                  /\ sup' = "exited"
                  /\ UNCHANGED <<n, i, proc, fdVars, dataVars>>

Supervisor == MakePipe \/ PipesMade \/ Fork \/ CloseAll \/ SupervisorExit
              \/ \E c \in Commands : WaitChild(c)

----------------------------------------------------------------------------
(* A child *)

(* Mutation: every command but the first reads the first pipe.             *)
WireFirst(c) == /\ proc[c] = "forked"
                /\ stdin' = [stdin EXCEPT ![c] = IF c > 1 THEN 1 ELSE 0]
                /\ stdout' = [stdout EXCEPT ![c] = IF c < n THEN c ELSE 0]
                /\ ends' = [ends EXCEPT ![c] = @ \ Closed]
                /\ proc' = [proc EXCEPT ![c] = "run"]
                /\ UNCHANGED <<supVars, dataVars>>

(* dup2, close of the pipe ends, execvp.                                   *)
Wire(c) == /\ proc[c] = "forked"
           /\ stdin' = [stdin EXCEPT ![c] = IF c > 1 THEN c - 1 ELSE 0]
           /\ stdout' = [stdout EXCEPT ![c] = IF c < n THEN c ELSE 0]
           /\ ends' = [ends EXCEPT ![c] = @ \ Closed]
           /\ proc' = [proc EXCEPT ![c] = "run"]
           /\ UNCHANGED <<supVars, dataVars>>

Writers(j) == {p \in Procs : <<j, "write">> \in ends[p]}
              \cup {c \in Commands : proc[c] = "run" /\ stdout[c] = j}
Readers(j) == {p \in Procs : <<j, "read">> \in ends[p]}
              \cup {c \in Commands : proc[c] = "run" /\ stdin[c] = j}

(* The process ends, in whatever way; its descriptors are closed.          *)
Quit(c) == /\ proc[c] \in {"forked", "run"}
           /\ proc' = [proc EXCEPT ![c] = "zombie"]
           /\ ends' = [ends EXCEPT ![c] = {}]
           /\ UNCHANGED <<supVars, stdin, stdout, dataVars>>

Running(c) == proc[c] = "run"

Make(c) == /\ Running(c)
           /\ stdin[c] = 0
           /\ held[c] = 0
           /\ made < Items
           /\ made' = made + 1
           /\ held' = [held EXCEPT ![c] = made + 1]
           /\ UNCHANGED <<supVars, proc, fdVars, pipe, out>>

ReadItem(c) == /\ Running(c)
               /\ stdin[c] # 0
               /\ held[c] = 0
               /\ pipe[stdin[c]] # <<>>
               /\ held' = [held EXCEPT ![c] = Head(pipe[stdin[c]])]
               /\ pipe' = [pipe EXCEPT ![stdin[c]] = Tail(@)]
               /\ UNCHANGED <<supVars, proc, fdVars, made, out>>

WriteItem(c) == /\ Running(c)
                /\ held[c] # 0
                /\ stdout[c] # 0
                /\ Readers(stdout[c]) # {}
                /\ Len(pipe[stdout[c]]) < Capacity
                /\ pipe' = [pipe EXCEPT ![stdout[c]] = Append(@, held[c])]
                /\ held' = [held EXCEPT ![c] = 0]
                /\ UNCHANGED <<supVars, proc, fdVars, made, out>>

Show(c) == /\ Running(c)
           /\ held[c] # 0
           /\ stdout[c] = 0
           /\ out' = Append(out, held[c])
           /\ held' = [held EXCEPT ![c] = 0]
           /\ UNCHANGED <<supVars, proc, fdVars, pipe, made>>

(* End of file, nothing more to make, or SIGPIPE: the command must end.    *)
Finished(c) == /\ Running(c)
               /\ \/ held[c] = 0 /\ stdin[c] = 0 /\ made = Items
                  \/ held[c] = 0 /\ stdin[c] # 0 /\ pipe[stdin[c]] = <<>>
                                 /\ Writers(stdin[c]) = {}
                  \/ held[c] # 0 /\ stdout[c] # 0 /\ Readers(stdout[c]) = {}

Finish(c) == Finished(c) /\ Quit(c)

Command(c) == Wire(c) \/ Make(c) \/ ReadItem(c) \/ WriteItem(c) \/ Show(c) \/ Finish(c)

PipelineStep == Supervisor \/ \E c \in Commands : Command(c) \/ Quit(c)

----------------------------------------------------------------------------
(* Properties *)

(* Data arrive in order and without loss or repetition: the terminal has   *)
(* seen the first items, in the order the first command made them. And     *)
(* once the supervisor is gone nothing of the pipeline is left: every child*)
(* has been waited for and no end of a pipe is open; while it waits, the   *)
(* only ends open are those that children hold.                            *)
PipelineSound ==
    /\ \A k \in DOMAIN out : out[k] = k
    /\ sup \in {"wait", "exited"} => ends[0] = {}
    /\ sup = "exited" => \A c \in 1 .. n : proc[c] = "gone" /\ ends[c] = {}
===============================================================================
