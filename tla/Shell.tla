--------------------------------- MODULE Shell ---------------------------------
(***************************************************************************)
(* Jobs and signals of the phase 3 shell, Project0x01/phase3/myshell.c:    *)
(* the loop that reads a command and starts or waits for a child, the job  *)
(* table, and the SIGCHLD handler, which may run between any two steps of  *)
(* the loop. Children end whenever they like, Ctrl-Z comes at any moment.  *)
(*                                                                         *)
(* Simplifications:                                                        *)
(*  - fork and execve are one step and succeed; process ids are not reused *)
(*    and count up from 1;                                                 *)
(*  - all children share the shell's process group, so Ctrl-Z reaches them *)
(*    all; sigtstp_handler looks for a job in state FOREGROUND, which is   *)
(*    never set; so does sigint_handler, and children inherit SIGINT       *)
(*    ignored, so Ctrl-C has no effect and is left out;                    *)
(*  - a pipeline is its supervisor, which runs execute_piped_commands with *)
(*    the shell's handlers in place: Ctrl-Z stops the commands but not the *)
(*    supervisor, which then waits for them ("frozen");                    *)
(*  - job_count is never lowered, so fg, bg and kill come to accept ids    *)
(*    behind the table (Behind). In the repository's build history_count   *)
(*    and the history lie there: the number found is 0 or taken to name no *)
(*    child, and what is written over the history is left out;             *)
(*  - the loop of the SIGCHLD handler stays within the table; the fields   *)
(*    id and cmdline, and jobs, which only prints, are left out.           *)
(***************************************************************************)
EXTENDS Integers, FiniteSets, FiniteSetsExt

CONSTANTS MAXJOBS,
          MaxChildren, \* bound of the model: children ever started
          MaxStops     \* bound of the model: times the user presses Ctrl-Z

Children == 1 .. MaxChildren
Slots    == 1 .. MAXJOBS
Behind   == MAXJOBS + 1      \* any id that is not of the table
Stranger == MaxChildren + 1  \* a pid that is no child's

ASSUME ShellAssumption ==
    /\ MAXJOBS \in Nat \ {0}
    /\ MaxChildren \in Nat
    /\ MaxStops \in Nat

VARIABLES
    state,     \* state[p]: unborn; running, stopped, noticed (stopped, and a waitpid
               \* reported it); piping, frozen (for a pipeline); zombie, gone
    pc,        \* prompt, call (of waitpid), blocked (in it), add, exited, failed
    mode,      \* which call of waitpid: eval, pipe (l.157), fg
    cur,       \* its pid argument; the child to add
    job,       \* the entry fg works on, by its id
    jobs,      \* the job table
    job_count,
    pending,   \* SIGCHLD is pending
    handling,  \* sigchld_handler is running
    dropped,   \* history: children add_job found no room for
    stops      \* number of Ctrl-Z so far

vars == <<state, pc, mode, cur, job, jobs, job_count, pending, handling,
          dropped, stops>>
mainVars == <<pc, mode, cur, job>>
tableVars == <<jobs, job_count, dropped>>
childVars == <<state, pending>>

Free == [pid |-> 0, status |-> 0, state |-> "none"]

Init == /\ state = [p \in Children |-> "unborn"]
        /\ pc = "prompt"
        /\ mode = "eval"
        /\ cur = 0
        /\ job = 1
        /\ jobs = [i \in Slots |-> Free]
        /\ job_count = 0
        /\ pending = FALSE
        /\ handling = FALSE
        /\ dropped = {}
        /\ stops = 0

Unborn == {p \in Children : state[p] = "unborn"}
Alive  == {p \in Children : state[p] \notin {"unborn", "zombie", "gone"}}
Active == {p \in Children : state[p] \in {"running", "piping"}}
Stopped == {p \in Children : state[p] \in {"stopped", "noticed"}}
Ended  == pc \in {"exited", "failed"}

(* Back to the prompt; eval's and fg's locals are gone.                    *)
Return == /\ pc' = "prompt"
          /\ mode' = "eval"
          /\ cur' = 0
          /\ job' = 1

----------------------------------------------------------------------------
(* The children and the terminal *)

Exit(p) == /\ p \in Active
           /\ state' = [state EXCEPT ![p] = "zombie"]
           /\ pending' = TRUE
           /\ UNCHANGED <<mainVars, tableVars, handling, stops>>

(* The job in the foreground, if the table had one, becomes another entry  *)
(* of the count; its process group does not exist, so the kill fails.      *)
sigtstp_handler ==
    LET found == {i \in Slots : jobs[i].state = "foreground"}
    IN  /\ jobs' = [i \in Slots |-> IF i \in found /\ i = Min(found)
                                   THEN [jobs[i] EXCEPT !.state = "stop"] ELSE jobs[i]]
        /\ job_count' = job_count + (IF found = {} THEN 0 ELSE 1)
        /\ UNCHANGED dropped

(* Ctrl-Z: SIGTSTP for the whole group; every stop sends SIGCHLD.          *)
CtrlZ == /\ stops < MaxStops
         /\ ~Ended
         /\ state' = [p \in Children |-> IF state[p] = "running" THEN "stopped"
                                         ELSE IF state[p] = "piping" THEN "frozen"
                                         ELSE state[p]]
         /\ pending' = (pending \/ \E p \in Children : state[p] = "running")
         /\ stops' = stops + 1
         /\ sigtstp_handler
         /\ UNCHANGED <<mainVars, handling>>

(* kill(pid, SIGCONT) and kill(pid, SIGKILL); nothing if there is no such  *)
(* process any more.                                                       *)
Continue(p) == /\ state' = [c \in Children |-> IF c = p /\ c \in Stopped THEN "running"
                                               ELSE state[c]]
               /\ pending' = (pending \/ p \in Stopped)
Kill(p) == /\ state' = [c \in Children |-> IF c = p /\ c \in Alive THEN "zombie" ELSE state[c]]
           /\ pending' = (pending \/ p \in Alive)

(* job->pid = 0 and job->status = s: not in the table if i lies behind it. *)
Cleared(i)   == [k \in Slots |-> IF k = i THEN [jobs[k] EXCEPT !.pid = 0] ELSE jobs[k]]
Marked(i, s) == [k \in Slots |-> IF k = i THEN [jobs[k] EXCEPT !.status = s] ELSE jobs[k]]

----------------------------------------------------------------------------
(* waitpid *)

(* The children a waitpid with this argument is about; 0 means any.        *)
Targets(pid) == {p \in Children : state[p] \notin {"unborn", "gone"} /\ pid \in {0, p}}

(* Mutation: eval's waitpid lacks WUNTRACED as well.                       *)
Reportable_ended(pid) == {p \in Targets(pid) :
    state[p] = "zombie" \/ (mode = "fg" /\ state[p] = "stopped")}

(* Those it can report; the pipeline's waitpid lacks WUNTRACED.            *)
Reportable(pid) == {p \in Targets(pid) :
    state[p] = "zombie" \/ (mode # "pipe" /\ state[p] = "stopped")}

----------------------------------------------------------------------------
(* sigchld_handler *)

(* A waitpid that sleeps is woken by its own child before the handler runs.*)
HandlerStart == /\ pending
                /\ ~handling
                /\ ~Ended
                /\ ~(pc = "blocked" /\ Reportable(cur) # {})
                /\ handling' = TRUE
                /\ pending' = FALSE
                /\ pc' = IF pc = "blocked" THEN "call" ELSE pc
                /\ UNCHANGED <<state, mode, cur, job, tableVars, stops>>

Entries(p) == {i \in Slots : jobs[i].pid = p}

HandlerReap(p) == /\ handling
                  /\ ~Ended
                  /\ state[p] = "zombie"
                  /\ state' = [state EXCEPT ![p] = "gone"]
                  /\ jobs' = IF Entries(p) = {} THEN jobs
                             ELSE [jobs EXCEPT ![Min(Entries(p))].state = "done"]
                  /\ UNCHANGED <<mainVars, job_count, pending, handling, dropped, stops>>

(* Mutation: "if" for "while": one child per signal.                       *)
HandlerEndEarly == /\ handling
                   /\ ~Ended
                   /\ Cardinality({p \in Children : state[p] = "zombie"}) <= 1
                   /\ handling' = FALSE
                   /\ UNCHANGED <<state, mainVars, tableVars, pending, stops>>

(* waitpid finds no zombie any more.                                       *)
HandlerEnd == /\ handling
              /\ ~Ended
              /\ \A p \in Children : state[p] # "zombie"
              /\ handling' = FALSE
              /\ UNCHANGED <<state, mainVars, tableVars, pending, stops>>

----------------------------------------------------------------------------
(* main and eval *)

Main == ~handling

(* A command line that starts a child.                                     *)
Run(p, how, bg_) == /\ Main
                    /\ pc = "prompt"
                    /\ p = Min(Unborn)
                    /\ state' = [state EXCEPT ![p] = how]
                    /\ cur' = p
                    /\ pc' = IF bg_ THEN "add" ELSE "call"
                    /\ mode' = IF how = "piping" THEN "pipe" ELSE "eval"
                    /\ UNCHANGED <<job, tableVars, pending, handling, stops>>

Leave == /\ Main
         /\ pc = "prompt"
         /\ pc' = "exited"
         /\ UNCHANGED <<mode, cur, job, childVars, tableVars, handling, stops>>

(* Mutation: job_count is left alone.                                      *)
add_job_uncounted(p, status) ==
    IF Entries(0) = {}
    THEN /\ dropped' = dropped \cup {p}
         /\ UNCHANGED <<jobs, job_count>>
    ELSE /\ jobs' = [jobs EXCEPT ![Min(Entries(0))].pid = p, ![Min(Entries(0))].status = status]
         /\ UNCHANGED <<job_count, dropped>>

(* Mutation: every job is entered as stopped.                              *)
add_job_stopped(p, status) ==
    IF Entries(0) = {}
    THEN /\ dropped' = dropped \cup {p}
         /\ UNCHANGED <<jobs, job_count>>
    ELSE /\ jobs' = [jobs EXCEPT ![Min(Entries(0))].pid = p, ![Min(Entries(0))].status = 1]
         /\ job_count' = job_count + 1
         /\ UNCHANGED dropped

(* add_job: the first free entry, whose state stays as it was.             *)
add_job(p, status) ==
    IF Entries(0) = {}
    THEN /\ dropped' = dropped \cup {p}
         /\ UNCHANGED <<jobs, job_count>>
    ELSE /\ jobs' = [jobs EXCEPT ![Min(Entries(0))].pid = p, ![Min(Entries(0))].status = status]
         /\ job_count' = job_count + 1
         /\ UNCHANGED dropped

(* A background child is entered in the table.                             *)
AddBackground == /\ Main
                 /\ pc = "add"
                 /\ add_job(cur, 0)
                 /\ Return
                 /\ UNCHANGED <<childVars, handling, stops>>

(* waitpid has nothing to report yet.                                      *)
WaitBlocks == /\ Main
              /\ pc = "call"
              /\ Targets(cur) # {}
              /\ Reportable(cur) = {}
              /\ pc' = "blocked"
              /\ UNCHANGED <<mode, cur, job, childVars, tableVars, handling, stops>>

(* waitpid reports that p ended: fg clears the entry it works on.          *)
WaitEnded(p) == /\ Main
                /\ pc \in {"call", "blocked"}
                /\ p \in Reportable(cur)
                /\ state[p] = "zombie"
                /\ state' = [state EXCEPT ![p] = "gone"]
                /\ jobs' = IF mode = "fg" THEN Cleared(job) ELSE jobs
                /\ Return
                /\ UNCHANGED <<pending, job_count, dropped, handling, stops>>

(* Mutation: fg adds the child that stopped, as eval does.                 *)
WaitStopped_added(p) == /\ Main
                        /\ pc \in {"call", "blocked"}
                        /\ p \in Reportable(cur)
                        /\ state[p] = "stopped"
                        /\ state' = [state EXCEPT ![p] = "noticed"]
                        /\ add_job(p, 1)
                        /\ Return
                        /\ UNCHANGED <<pending, handling, stops>>

(* waitpid reports that p stopped: eval makes it a job, fg marks its entry.*)
WaitStopped(p) == /\ Main
                  /\ pc \in {"call", "blocked"}
                  /\ p \in Reportable(cur)
                  /\ state[p] = "stopped"
                  /\ state' = [state EXCEPT ![p] = "noticed"]
                  /\ \/ /\ mode = "eval"
                        /\ add_job(p, 1)
                     \/ /\ mode = "fg"
                        /\ jobs' = Marked(job, 1)
                        /\ UNCHANGED <<job_count, dropped>>
                  /\ Return
                  /\ UNCHANGED <<pending, handling, stops>>

(* ECHILD in eval: unix_error ends the shell.                              *)
WaitFails == /\ Main
             /\ pc = "call"
             /\ mode # "fg"
             /\ Targets(cur) = {}
             /\ pc' = "failed"
             /\ UNCHANGED <<mode, cur, job, childVars, tableVars, handling, stops>>

(* ECHILD in fg: the status that is examined was never written.            *)
FgFails == /\ Main
           /\ pc = "call"
           /\ mode = "fg"
           /\ Targets(cur) = {}
           /\ \/ jobs' = Marked(job, 1)
              \/ jobs' = Cleared(job)
           /\ Return
           /\ UNCHANGED <<childVars, job_count, dropped, handling, stops>>

----------------------------------------------------------------------------
(* fg, bg, kill *)

(* The ids the three accept.                                               *)
Command(i) == Main /\ pc = "prompt" /\ i <= job_count

(* What they find under an id.                                             *)
Entry(i) == IF i \in Slots THEN {jobs[i]}
            ELSE [pid : {0, Stranger}, status : {0, 1}, state : {"none"}]

(* An empty entry is reported, and waited for all the same, as pid 0.      *)
fg(i) == /\ Command(i)
         /\ \E entry \in Entry(i) :
               /\ IF entry.pid # 0 /\ entry.status = 1
                  THEN jobs' = Marked(i, 0) /\ Continue(entry.pid)
                  ELSE UNCHANGED <<jobs, state, pending>>
               /\ cur' = entry.pid
         /\ mode' = "fg"
         /\ job' = i
         /\ pc' = "call"
         /\ UNCHANGED <<job_count, dropped, handling, stops>>

bg(i) == /\ Command(i)
         /\ \E entry \in Entry(i) :
               /\ entry.pid # 0
               /\ entry.status = 1
               /\ Continue(entry.pid)
         /\ jobs' = Marked(i, 0)
         /\ UNCHANGED <<mainVars, job_count, dropped, handling, stops>>

(* Mutation: the entry is cleared, the process lives on.                   *)
terminate_job_gently(i) == /\ Command(i)
                           /\ \E entry \in Entry(i) : entry.pid # 0
                           /\ jobs' = Cleared(i)
                           /\ UNCHANGED <<state, pending>>
                           /\ UNCHANGED <<mainVars, job_count, dropped, handling, stops>>

terminate_job(i) == /\ Command(i)
                    /\ \E entry \in Entry(i) : entry.pid # 0 /\ Kill(entry.pid)
                    /\ jobs' = Cleared(i)
                    /\ UNCHANGED <<mainVars, job_count, dropped, handling, stops>>

----------------------------------------------------------------------------

Handler == HandlerStart \/ (\E p \in Children : HandlerReap(p)) \/ HandlerEnd

Wait == WaitBlocks \/ WaitFails \/ FgFails \/ (\E p \in Children : WaitEnded(p) \/ WaitStopped(p))

User == \/ \E p \in Unborn, how \in {"running", "piping"}, bg_ \in BOOLEAN : Run(p, how, bg_)
        \/ \E i \in Slots \cup {Behind} : fg(i) \/ bg(i) \/ terminate_job(i)
        \/ Leave
        \/ CtrlZ

Next == User \/ Handler \/ Wait \/ AddBackground \/ \E p \in Children : Exit(p)

Spec == Init /\ [][Next]_vars

(* The shell runs when it can, and a pending signal is delivered; users    *)
(* and children owe nothing.                                               *)
FairSpec == Spec /\ WF_vars(Handler) /\ WF_vars(Wait) /\ WF_vars(AddBackground)

----------------------------------------------------------------------------
(* Properties *)

(* Type invariant.                                                         *)
TypeOK ==
    /\ state \in [Children -> {"unborn", "running", "stopped", "noticed", "piping",
                           "frozen", "zombie", "gone"}]
    /\ pc \in {"prompt", "call", "blocked", "add", "exited", "failed"}
    /\ mode \in {"eval", "pipe", "fg"}
    /\ cur \in Children \cup {0, Stranger}
    /\ job \in Slots \cup {Behind}
    /\ jobs \in [Slots -> [pid : Children \cup {0}, status : {0, 1}, state : {"none", "done"}]]
    /\ job_count \in 0 .. MaxChildren
    /\ pending \in BOOLEAN
    /\ handling \in BOOLEAN
    /\ dropped \subseteq Children
    /\ stops \in 0 .. MaxStops

(* No child gets out of reach: one that lives and that the shell is not    *)
(* about to wait for or to enter has an entry, under an id that fg, bg and *)
(* kill accept, unless the table was full when it came.                    *)
NoJobLost == ~Ended => \A p \in Alive :
    \/ pc # "prompt" /\ cur = p
    \/ p \in dropped
    \/ \E i \in Entries(p) : i <= job_count

(* The table is right about the children it names: what it calls Stopped is*)
(* not running, for only then may fg and bg call it Running again as they  *)
(* send SIGCONT; an entry is cleared only when its child is dead; and no   *)
(* child has two entries. (The converse of the first fails: a background   *)
(* job stopped by Ctrl-Z, or ended, stays Running.)                        *)
StoppedIsStopped == \A i \in Slots :
    jobs[i].pid # 0 /\ jobs[i].status = 1 => jobs[i].pid \notin Active
EntriesKept ==
    /\ \A i \in Slots : jobs[i].pid # 0 /\ jobs'[i].pid # jobs[i].pid =>
                            jobs'[i].pid = 0 /\ jobs[i].pid \notin Alive'
    /\ \A i, j \in Slots : jobs'[i].pid = jobs'[j].pid /\ jobs'[i].pid # 0 => i = j
TableSound == []StoppedIsStopped /\ [][EntriesKept]_vars

(* Every child that ended is reaped while the shell lives, though SIGCHLD  *)
(* is not queued and may arrive while the handler runs.                    *)
ZombiesReaped == \A p \in Children : state[p] = "zombie" ~> state[p] = "gone" \/ Ended

(* The prompt comes back. The child waited for is dead: a fg returns even  *)
(* if the handler took the child's status away; a command's first wait     *)
(* returns too, or the handler had reaped the child and unix_error ended   *)
(* the shell (ShellSurvives), for no other reason. It has stopped: the     *)
(* prompt returns unless it is a pipeline. And fg of an empty entry, or of *)
(* one behind the table, which may wait for any child, returns when none   *)
(* lives.                                                                  *)
WaitsFor(p) == pc \in {"call", "blocked"} /\ cur = p
PromptReturns ==
    /\ \A p \in Children :
         /\ WaitsFor(p) /\ mode = "fg" /\ p \notin Alive ~> pc = "prompt"
         /\ WaitsFor(p) /\ mode # "fg" /\ p \notin Alive
              ~> pc = "prompt" \/ (pc = "failed" /\ state[p] = "gone")
         /\ WaitsFor(p) /\ mode # "pipe" /\ state[p] = "stopped" ~> pc = "prompt"
    /\ WaitsFor(0) /\ Alive = {} ~> pc = "prompt"
    /\ WaitsFor(Stranger) ~> pc = "prompt"

(* The exit command ends the shell (README.md:57, in Korean): children that*)
(* come to an end do not.                                                  *)
ShellSurvives == pc # "failed"
===============================================================================
