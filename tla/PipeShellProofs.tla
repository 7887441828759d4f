--------------------------- MODULE PipeShellProofs ----------------------------
(***************************************************************************)
(* Proofs about the shell of phases 1 to 3 without its jobs, for pipelines *)
(* of any length, any commands, histories and directories: no pipeline     *)
(* loses, repeats or reorders data or leaves anything behind, and the      *)
(* history in memory and on disk stays in order.                           *)
(***************************************************************************)
EXTENDS PipeShell, CountingProofs, SequenceTheorems

USE PipelineAssumption, PipeShellAssumption

----------------------------------------------------------------------------
(* The inductive invariant of the pipelines *)

PipeTypes ==
    /\ sup \in {"none", "pipes", "fork", "wait", "exited"}
    /\ n \in 0 .. MAX_COMMANDS
    /\ i \in 0 .. n + 1
    /\ proc \in [Commands -> {"unborn", "forked", "run", "zombie", "gone"}]
    /\ ends \in [Procs -> SUBSET Ends]
    /\ stdin \in [Commands -> Pipes \cup {0}]
    /\ stdout \in [Commands -> Pipes \cup {0}]
    /\ pipe \in [Pipes -> Seq(1 .. Items)]
    /\ \A j \in Pipes : Len(pipe[j]) <= Capacity
    /\ held \in [Commands -> 0 .. Items]
    /\ made \in 0 .. Items
    /\ out \in Seq(1 .. Items)

(* Ends of pipes are held by the supervisor until it has forked, and by    *)
(* children until they are wired or gone; each command is wired to its     *)
(* neighbours.                                                             *)
Wired ==
    /\ \A e \in ends[0] : e[1] < n
    /\ sup \in {"none", "wait", "exited"} => ends[0] = {}
    /\ \A c \in Commands : proc[c] \in {"unborn", "zombie", "gone"} => ends[c] = {}
    /\ \A c \in Commands : proc[c] = "run" =>
          stdin[c] = c - 1 /\ stdout[c] = IF c < n THEN c ELSE 0

Gone == {c \in 1 .. n : proc[c] = "gone"}

(* The supervisor has forked the first commands, and waited for as many as *)
(* it counts.                                                              *)
Waited ==
    /\ sup # "none" => n >= 1 /\ i >= 1
    /\ \A c \in Commands : c > n \/ sup \in {"none", "pipes"} \/ (sup = "fork" /\ c >= i) =>
          proc[c] = "unborn"
    /\ sup = "fork" => Gone = {}
    /\ sup = "wait" => Cardinality(Gone) = i - 1
    /\ sup = "exited" => Gone = 1 .. n

Live(c) == proc[c] \notin {"zombie", "gone"}
Holds(c) == IF held[c] = 0 THEN 0 ELSE 1

(* passed[c] items have left command c. Those it made or read and has not  *)
(* passed on it holds; those that left its predecessor and have not reached*)
(* it are in the pipe between them, in order. When a command has died what *)
(* came before it no longer matters: nobody reads that pipe.               *)
Flows(passed) ==
    /\ \A c \in Commands : proc[c] \in {"unborn", "forked"} => passed[c] = 0 /\ held[c] = 0
    /\ \A c \in Commands : held[c] # 0 => held[c] = passed[c] + 1
    /\ \A j \in Pipes : j < n => \A k \in 1 .. Len(pipe[j]) :
          pipe[j][k] = passed[j] - Len(pipe[j]) + k
    /\ \A c \in Commands : 1 < c /\ c <= n /\ Live(c) =>
          passed[c - 1] = Len(pipe[c - 1]) + passed[c] + Holds(c)
    /\ Live(1) => made = passed[1] + Holds(1)
    /\ IF n = 0 THEN out = <<>> ELSE passed[n] = Len(out)
    /\ \A k \in 1 .. Len(out) : out[k] = k

Flow == \E passed \in [Commands -> Nat] : Flows(passed)

PInv == PipeTypes /\ Wired /\ Waited /\ Flow

----------------------------------------------------------------------------
(* The inductive invariant of the shell and its history *)

ShellTypes ==
    /\ pc \in {"off", "prompt", "eval", "save", "write", "act", "run", "wait"}
    /\ line \in Entries \cup {NoLine}
    /\ history \in Seq(Entries)
    /\ file \in [Dirs -> Seq(Entries)]
    /\ cwd \in Dirs
    /\ kept \in Dirs \cup {Nowhere}

Saved == {"save", "write", "act", "run", "wait"}

(* HistorySound between commands and while one is saved: only while        *)
(* history.txt is open may it differ from the history.                     *)
Kept ==
    /\ Compact(history) /\ \A d \in Dirs : Compact(file[d])
    /\ pc \in Saved \cup {"eval"} => line \in Entries
    /\ pc \in Saved => Kind(line) \notin Unsaved
    /\ pc \in Saved \ {"save"} => Repeated
    /\ pc \notin {"off", "write"} /\ kept # Nowhere => file[kept] = history

SInv == ShellTypes /\ Kept

IInv == PInv /\ SInv

----------------------------------------------------------------------------
(* Lemmas *)

LEMMA Appended ==
  ASSUME NEW S, NEW s \in Seq(S), NEW x \in S
  PROVE  /\ Append(s, x) \in Seq(S) /\ Append(s, x) # <<>> /\ Len(Append(s, x)) = Len(s) + 1
         /\ \A k \in 1 .. Len(s) : Append(s, x)[k] = s[k]
         /\ Append(s, x)[Len(s) + 1] = x
  BY AppendProperties

LEMMA Taken ==
  ASSUME NEW S, NEW s \in Seq(S), s # <<>>
  PROVE  /\ Head(s) \in S /\ Head(s) = s[1] /\ Tail(s) \in Seq(S)
         /\ Len(s) \in Nat /\ Len(s) >= 1 /\ Len(Tail(s)) = Len(s) - 1
         /\ \A k \in 1 .. Len(s) - 1 : Tail(s)[k] = s[k + 1]
  <1>1. Len(s) \in Nat /\ Len(s) # 0
    OBVIOUS
  <1>2. Head(s) = s[1]
    OBVIOUS
  <1> QED
    BY <1>1, <1>2, HeadTailProperties

(* The commands the supervisor has waited for.                             *)
LEMMA GoneFinite ==
  ASSUME PipeTypes
  PROVE  /\ IsFiniteSet(Gone) /\ Cardinality(Gone) \in Nat
         /\ Cardinality(Gone) = n => Gone = 1 .. n
  <1>1. n \in Nat
    BY DEF PipeTypes
  <1>2. IsFiniteSet(1 .. n) /\ Cardinality(1 .. n) = n
    <2>3. 1 \in Int /\ n \in Int
      BY <1>1
    <2>1. IsFiniteSet(1 .. n) /\ Cardinality(1 .. n) = IF 1 > n THEN 0 ELSE n - 1 + 1
      BY <2>3, FS_Interval, Zenon
    <2>2. (IF 1 > n THEN 0 ELSE n - 1 + 1) = n
      BY <1>1
    <2> QED
      BY <2>1, <2>2
  <1>3. Gone \in SUBSET (1 .. n)
    BY DEF Gone
  <1> QED
    BY <1>2, <1>3, FS_Subset, FS_CardinalityType

(* No item moves in a step that leaves the pipes and what commands hold    *)
(* alone, though commands start and die.                                   *)
LEMMA FlowStays ==
  ASSUME Flow, UNCHANGED <<n, held, made, pipe, out>>,
         \A c \in Commands : Live(c)' => Live(c),
         \A c \in Commands : proc'[c] \in {"unborn", "forked"} => proc[c] \in {"unborn", "forked"}
  PROVE  Flow'
  <1>1. PICK passed \in [Commands -> Nat] : Flows(passed)
    BY DEF Flow
  <1>2. \A c \in Commands : Holds(c)' = Holds(c)
    BY DEF Holds
  <1>3. 1 \in Commands
    BY DEF Commands
  <1>4. Flows(passed)'
    BY <1>1, <1>2, <1>3 DEF Flows
  <1> QED
    BY <1>4 DEF Flow

----------------------------------------------------------------------------
(* The supervisor *)

LEMMA MakePipeStep ==
  ASSUME PInv, MakePipe \/ PipesMade
  PROVE  PInv'
  <1>1. /\ sup = "pipes" /\ i' \in 0 .. n + 1 /\ i' >= 1
        /\ UNCHANGED <<n, proc, stdin, stdout, pipe, held, made, out>>
        /\ sup' = "pipes" \/ (sup' = "fork" /\ i' = 1)
    BY DEF MakePipe, PipesMade, fdVars, dataVars, PInv, PipeTypes, Waited
  <1>2. /\ ends' \in [Procs -> SUBSET Ends]
        /\ \A e \in ends'[0] : e[1] < n
        /\ \A c \in Commands : ends'[c] = ends[c]
    <2>1. CASE MakePipe
      <3>1. i \in Pipes /\ i < n
        BY <2>1 DEF MakePipe, PInv, PipeTypes, Waited, Pipes
      <3>2. {<<i, "read">>, <<i, "write">>} \subseteq Ends
        BY <3>1 DEF Ends
      <3>3. 0 \in Procs /\ \A c \in Commands : c # 0
        BY DEF Procs, Commands
      <3>4. ends' = [ends EXCEPT ![0] = @ \cup {<<i, "read">>, <<i, "write">>}]
        BY <2>1 DEF MakePipe
      <3>5. ends \in [Procs -> SUBSET Ends] /\ \A e \in ends[0] : e[1] < n
        BY DEF PInv, PipeTypes, Wired
      <3> DEFINE both == {<<i, "read">>, <<i, "write">>}
      <3> HIDE DEF both
      <3>6. ends' \in [Procs -> SUBSET Ends]
        <4>1. ends[0] \cup both \in SUBSET Ends
          BY <3>2, <3>3, <3>5 DEF both
        <4> QED
          BY <3>4, <3>5, <4>1 DEF both
      <3>9. \A c \in Commands : ends'[c] = ends[c]
        <4>1. \A c \in Commands : c \in Procs
          BY DEF Commands, Procs
        <4> QED
          BY <3>3, <3>4, <3>5, <4>1
      <3>7. ends'[0] = ends[0] \cup {<<i, "read">>, <<i, "write">>}
        BY <3>3, <3>4, <3>5
      <3>8. <<i, "read">>[1] < n /\ <<i, "write">>[1] < n
        BY <3>1
      <3> QED
        BY <3>5, <3>6, <3>7, <3>8, <3>9
    <2>2. CASE PipesMade
      BY <2>2 DEF PipesMade, fdVars, PInv, PipeTypes, Wired
    <2> QED
      BY <2>1, <2>2
  <1>3. PipeTypes'
    BY <1>1, <1>2 DEF PInv, PipeTypes
  <1>4. Wired'
    BY <1>1, <1>2 DEF PInv, Wired
  <1>5. Gone' = {}
    BY <1>1 DEF Gone, PInv, PipeTypes, Waited, Commands
  <1>6. Waited'
    BY <1>1, <1>5 DEF PInv, Waited
  <1>7. Flow'
    BY <1>1, FlowStays DEF PInv, Live
  <1> QED
    BY <1>3, <1>4, <1>6, <1>7 DEF PInv

LEMMA ForkStep ==
  ASSUME PInv, Fork
  PROVE  PInv'
  <1>1. /\ i \in Commands /\ i <= n /\ sup = "fork" /\ i' = i + 1 /\ i + 1 \in 0 .. n + 1
        /\ UNCHANGED <<sup, n, stdin, stdout, pipe, held, made, out>>
    BY DEF Fork, dataVars, PInv, PipeTypes, Waited, Commands
  <1>2. /\ \A c \in Commands : proc'[c] = IF c = i THEN "forked" ELSE proc[c]
        /\ \A c \in Procs : ends'[c] = IF c = i THEN ends[0] ELSE ends[c]
        /\ proc' \in [Commands -> {"unborn", "forked", "run", "zombie", "gone"}]
        /\ ends' \in [Procs -> SUBSET Ends]
    BY <1>1 DEF Fork, PInv, PipeTypes, Procs
  <1>3. proc[i] = "unborn"
    BY <1>1 DEF PInv, PipeTypes, Waited, Commands
  <1>4. Commands \subseteq Procs /\ 0 \in Procs /\ i # 0
    BY <1>1 DEF Commands, Procs
  <1>5. PipeTypes'
    BY <1>1, <1>2 DEF PInv, PipeTypes
  <1>6. Wired'
    BY <1>1, <1>2, <1>4 DEF PInv, Wired
  <1>7. Waited'
    <2>1. Gone' = {}
      BY <1>1, <1>2 DEF Gone, PInv, PipeTypes, Waited, Commands
    <2>2. \A c \in Commands : c > n \/ c >= i + 1 => proc'[c] = "unborn"
      BY <1>1, <1>2 DEF PInv, PipeTypes, Waited, Commands
    <2> QED
      BY <1>1, <2>1, <2>2 DEF PInv, PipeTypes, Waited
  <1>8. Flow'
    BY <1>1, <1>2, <1>3, FlowStays DEF PInv, Live
  <1> QED
    BY <1>5, <1>6, <1>7, <1>8 DEF PInv

(* All the supervisor has open it made for this pipeline, and closes.      *)
LEMMA CloseAllStep ==
  ASSUME PInv, CloseAll
  PROVE  PInv'
  <1>1. /\ sup = "fork" /\ sup' = "wait" /\ i' = 1 /\ n \in Nat
        /\ UNCHANGED <<n, proc, stdin, stdout, pipe, held, made, out>>
        /\ ends' = [ends EXCEPT ![0] = @ \ Closed]
    BY DEF CloseAll, dataVars, PInv, PipeTypes
  <1>2. /\ ends' \in [Procs -> SUBSET Ends]
        /\ ends'[0] = {}
        /\ \A c \in Commands : ends'[c] = ends[c]
    <2>1. 0 \in Procs /\ \A c \in Commands : c # 0
      BY DEF Procs, Commands
    <2>2. ends[0] \subseteq Closed
      BY <2>1 DEF Closed, PInv, PipeTypes, Wired
    <2> QED
      BY <1>1, <2>1, <2>2 DEF PInv, PipeTypes
  <1>3. PipeTypes'
    BY <1>1, <1>2 DEF PInv, PipeTypes
  <1>4. Wired'
    BY <1>1, <1>2 DEF PInv, Wired
  <1>5. Waited'
    <2>1. Gone' = {} /\ Cardinality({}) = 0
      BY <1>1, FS_EmptySet DEF Gone, PInv, Waited
    <2> QED
      BY <1>1, <2>1 DEF PInv, Waited
  <1>6. Flow'
    BY <1>1, FlowStays DEF PInv, Live
  <1> QED
    BY <1>3, <1>4, <1>5, <1>6 DEF PInv

LEMMA WaitChildStep ==
  ASSUME PInv, NEW c \in Commands, WaitChild(c)
  PROVE  PInv'
  <1>1. /\ sup = "wait" /\ i <= n /\ i' = i + 1 /\ i + 1 \in 0 .. n + 1 /\ i \in Nat
        /\ UNCHANGED <<sup, n, ends, stdin, stdout, pipe, held, made, out>>
    BY DEF WaitChild, fdVars, dataVars, PInv, PipeTypes
  <1>2. /\ proc[c] = "zombie"
        /\ \A d \in Commands : proc'[d] = IF d = c THEN "gone" ELSE proc[d]
        /\ proc' \in [Commands -> {"unborn", "forked", "run", "zombie", "gone"}]
    BY DEF WaitChild, PInv, PipeTypes
  <1>3. c <= n
    BY <1>2 DEF PInv, PipeTypes, Waited, Commands
  <1>4. PipeTypes' /\ Wired'
    BY <1>1, <1>2 DEF PInv, PipeTypes, Wired
  <1>5. Waited'
    <2>1. Gone' = Gone \cup {c} /\ c \notin Gone
      BY <1>1, <1>2, <1>3 DEF Gone, Commands, PInv, PipeTypes
    <2>2. Cardinality(Gone') = Cardinality(Gone) + 1
      BY <2>1, GoneFinite, FS_AddElement DEF PInv
    <2>3. Cardinality(Gone) = i - 1 /\ i >= 1 /\ n >= 1
      BY <1>1 DEF PInv, Waited
    <2>4. \A d \in Commands : d > n => proc'[d] = "unborn"
      BY <1>1, <1>2, <1>3 DEF PInv, PipeTypes, Waited, Commands
    <2> QED
      BY <1>1, <2>2, <2>3, <2>4 DEF Waited
  <1>6. Flow'
    BY <1>1, <1>2, FlowStays DEF PInv, Live
  <1> QED
    BY <1>4, <1>5, <1>6 DEF PInv

(* As many children are gone as there are commands: all of them.           *)
LEMMA SupervisorExitStep ==
  ASSUME PInv, SupervisorExit
  PROVE  PInv'
  <1>1. /\ sup = "wait" /\ sup' = "exited" /\ i = n + 1 /\ n \in Nat
        /\ UNCHANGED <<n, i, proc, ends, stdin, stdout, pipe, held, made, out>>
    BY DEF SupervisorExit, fdVars, dataVars, PInv, PipeTypes
  <1>2. PipeTypes' /\ Wired'
    BY <1>1 DEF PInv, PipeTypes, Wired
  <1>3. Waited'
    <2>1. Cardinality(Gone) = i - 1
      BY <1>1 DEF PInv, Waited
    <2>2. Gone = 1 .. n /\ Gone' = Gone
      BY <1>1, <2>1, GoneFinite DEF PInv, Gone
    <2> QED
      BY <1>1, <2>2 DEF PInv, Waited
  <1>4. Flow'
    BY <1>1, FlowStays DEF PInv, Live
  <1> QED
    BY <1>2, <1>3, <1>4 DEF PInv

----------------------------------------------------------------------------
(* The commands *)

(* A child starts to run or ends: the supervisor has not waited for it.    *)
LEMMA ChildMoves ==
  ASSUME PInv, NEW c \in Commands, proc[c] \in {"forked", "run"}, NEW to \in {"run", "zombie"},
         proc' = [proc EXCEPT ![c] = to], UNCHANGED <<sup, n, i, pipe, held, made, out>>
  PROVE  Waited' /\ Flow'
  <1>1. \A d \in Commands : proc'[d] = IF d = c THEN to ELSE proc[d]
    BY DEF PInv, PipeTypes
  <1>2. Gone' = Gone
    BY <1>1 DEF Gone, PInv, PipeTypes, Commands, Waited
  <1>3. \A d \in Commands : proc[d] = "unborn" <=> proc'[d] = "unborn"
    BY <1>1
  <1>4. Waited'
    BY <1>2, <1>3 DEF PInv, Waited
  <1>5. Flow'
    BY <1>1, FlowStays DEF PInv, Live
  <1> QED
    BY <1>4, <1>5

LEMMA WireStep ==
  ASSUME PInv, NEW c \in Commands, Wire(c)
  PROVE  PInv'
  <1>1. /\ proc[c] = "forked" /\ proc' = [proc EXCEPT ![c] = "run"]
        /\ UNCHANGED <<sup, n, i, pipe, held, made, out>>
        /\ stdin' = [stdin EXCEPT ![c] = IF c > 1 THEN c - 1 ELSE 0]
        /\ stdout' = [stdout EXCEPT ![c] = IF c < n THEN c ELSE 0]
        /\ ends' = [ends EXCEPT ![c] = @ \ Closed]
    BY DEF Wire, supVars, dataVars
  <1>2. /\ (IF c > 1 THEN c - 1 ELSE 0) = c - 1 /\ c - 1 \in Pipes \cup {0}
        /\ (IF c < n THEN c ELSE 0) \in Pipes \cup {0}
        /\ c \in Procs /\ 0 \in Procs /\ c # 0
    <2>1. n \in 0 .. MAX_COMMANDS /\ c \in 1 .. MAX_COMMANDS
      BY DEF Commands, PInv, PipeTypes
    <2> QED
      BY <2>1 DEF Pipes, Procs
  <1>3. PipeTypes'
    BY <1>1, <1>2 DEF PInv, PipeTypes
  <1>4. Wired'
    <2>1. /\ \A d \in Commands : proc'[d] = IF d = c THEN "run" ELSE proc[d]
          /\ \A d \in Commands : stdin'[d] = IF d = c THEN c - 1 ELSE stdin[d]
          /\ \A d \in Commands : stdout'[d] = IF d = c THEN IF c < n THEN c ELSE 0 ELSE stdout[d]
          /\ \A d \in Procs : ends'[d] = IF d = c THEN ends[c] \ Closed ELSE ends[d]
          /\ Commands \subseteq Procs
      BY <1>1, <1>2 DEF PInv, PipeTypes, Commands, Procs
    <2> QED
      BY <1>1, <1>2, <2>1 DEF PInv, Wired
  <1>5. Waited' /\ Flow'
    BY <1>1, ChildMoves
  <1> QED
    BY <1>3, <1>4, <1>5 DEF PInv

LEMMA QuitStep ==
  ASSUME PInv, NEW c \in Commands, Quit(c)
  PROVE  PInv'
  <1>1. /\ proc[c] \in {"forked", "run"} /\ proc' = [proc EXCEPT ![c] = "zombie"]
        /\ UNCHANGED <<sup, n, i, pipe, held, made, out, stdin, stdout>>
        /\ ends' = [ends EXCEPT ![c] = {}]
    BY DEF Quit, supVars, dataVars
  <1>2. c \in Procs /\ 0 \in Procs /\ c # 0 /\ Commands \subseteq Procs
    BY DEF Commands, Procs
  <1>3. PipeTypes'
    BY <1>1, <1>2 DEF PInv, PipeTypes
  <1>4. Wired'
    <2>1. /\ \A d \in Commands : proc'[d] = IF d = c THEN "zombie" ELSE proc[d]
          /\ \A d \in Procs : ends'[d] = IF d = c THEN {} ELSE ends[d]
      BY <1>1, <1>2 DEF PInv, PipeTypes
    <2> QED
      BY <1>1, <1>2, <2>1 DEF PInv, Wired
  <1>5. Waited' /\ Flow'
    BY <1>1, ChildMoves
  <1> QED
    BY <1>3, <1>4, <1>5 DEF PInv

(* A command that runs is wired to its neighbours.                         *)
LEMMA RunningFacts ==
  ASSUME PInv, NEW c \in Commands, Running(c)
  PROVE  /\ n \in Nat /\ c \in Nat /\ 1 <= c /\ c <= n /\ n \in Commands
         /\ stdin[c] = c - 1 /\ stdout[c] = IF c < n THEN c ELSE 0
         /\ c > 1 => c - 1 \in Pipes
         /\ c < n => c \in Pipes
  <1>1. n \in 0 .. MAX_COMMANDS /\ c \in Commands
    BY DEF PInv, PipeTypes
  <1>2. c <= n
    BY <1>1 DEF PInv, Waited, Running, Commands
  <1> QED
    BY <1>1, <1>2 DEF PInv, Wired, Running, Commands, Pipes

(* Items move; nothing else does.                                          *)
LEMMA DataMoves ==
  ASSUME PInv, UNCHANGED <<supVars, proc, fdVars>>
  PROVE  Wired' /\ Waited'
  BY DEF PInv, Wired, Waited, Gone, supVars, fdVars

LEMMA MakeStep ==
  ASSUME PInv, NEW c \in Commands, Make(c)
  PROVE  PInv'
  <1>1. /\ Running(c) /\ stdin[c] = 0 /\ held[c] = 0 /\ made < Items /\ made' = made + 1
        /\ held' = [held EXCEPT ![c] = made + 1]
        /\ UNCHANGED <<sup, n, i, proc, ends, stdin, stdout, pipe, out>>
    BY DEF Make, supVars, fdVars
  <1>2. c = 1 /\ n \in Nat
    BY <1>1, RunningFacts
  <1>3. /\ \A d \in Commands : held'[d] = IF d = c THEN made + 1 ELSE held[d]
        /\ made + 1 \in 0 .. Items /\ made \in Nat /\ made + 1 # 0
        /\ held' \in [Commands -> 0 .. Items]
    BY <1>1 DEF PInv, PipeTypes
  <1>4. PipeTypes'
    BY <1>1, <1>3 DEF PInv, PipeTypes
  <1>5. Flow'
    <2>1. PICK passed \in [Commands -> Nat] : Flows(passed)
      BY DEF PInv, Flow
    <2>2. /\ Holds(c) = 0 /\ Holds(c)' = 1
          /\ \A d \in Commands : d # c => Holds(d)' = Holds(d)
      BY <1>1, <1>3 DEF Holds
    <2>3. \A d \in Commands : (Live(d) <=> Live(d)') /\ proc'[d] = proc[d]
      BY <1>1 DEF Live
    <2>4. Live(1) /\ made = passed[1] /\ passed[1] \in Nat
      BY <1>1, <1>2, <1>3, <2>1, <2>2 DEF Flows, Live, Running
    <2>5. \A d \in Commands : proc'[d] \in {"unborn", "forked"} => passed[d] = 0 /\ held'[d] = 0
      BY <1>1, <1>3, <2>1 DEF Flows, Running
    <2>6. \A d \in Commands : held'[d] # 0 => held'[d] = passed[d] + 1
      BY <1>2, <1>3, <2>1, <2>4 DEF Flows
    <2>7. \A d \in Commands : 1 < d /\ d <= n /\ Live(d)' =>
             passed[d - 1] = Len(pipe[d - 1]) + passed[d] + Holds(d)'
      BY <1>2, <2>1, <2>2, <2>3 DEF Flows
    <2>8. made' = passed[1] + Holds(1)'
      BY <1>1, <1>2, <2>2, <2>4
    <2>9. Flows(passed)'
      BY <1>1, <2>1, <2>5, <2>6, <2>7, <2>8 DEF Flows
    <2> QED
      BY <2>1, <2>9 DEF Flow
  <1> QED
    BY <1>1, <1>4, <1>5, DataMoves DEF PInv, supVars, fdVars

LEMMA ReadStep ==
  ASSUME PInv, NEW c \in Commands, ReadItem(c)
  PROVE  PInv'
  <1> DEFINE j == c - 1
  <1>1. /\ Running(c) /\ stdin[c] # 0 /\ held[c] = 0 /\ pipe[stdin[c]] # <<>>
        /\ held' = [held EXCEPT ![c] = Head(pipe[stdin[c]])]
        /\ pipe' = [pipe EXCEPT ![stdin[c]] = Tail(pipe[stdin[c]])]
        /\ UNCHANGED <<sup, n, i, proc, ends, stdin, stdout, made, out>>
    BY DEF ReadItem, supVars, fdVars
  <1>2. /\ stdin[c] = j /\ j \in Pipes /\ 1 < c /\ c <= n /\ c \in Nat /\ n \in Nat
        /\ j < n /\ j \in Commands /\ j = c - 1
    BY <1>1, RunningFacts DEF Pipes, Commands
  <1>3. pipe[j] \in Seq(1 .. Items) /\ pipe[j] # <<>> /\ Len(pipe[j]) \in Nat
    BY <1>1, <1>2, LenProperties DEF PInv, PipeTypes
  <1>4. /\ Head(pipe[j]) \in 1 .. Items /\ Tail(pipe[j]) \in Seq(1 .. Items)
        /\ Len(Tail(pipe[j])) = Len(pipe[j]) - 1 /\ Len(pipe[j]) >= 1
        /\ \A k \in 1 .. Len(pipe[j]) - 1 : Tail(pipe[j])[k] = pipe[j][k + 1]
        /\ Head(pipe[j]) = pipe[j][1]
    <2> DEFINE s == pipe[j]
    <2>1. s \in Seq(1 .. Items) /\ s # <<>>
      BY <1>3
    <2> HIDE DEF s
    <2>2. /\ Head(s) \in 1 .. Items /\ Tail(s) \in Seq(1 .. Items)
          /\ Len(Tail(s)) = Len(s) - 1 /\ Len(s) >= 1
          /\ \A k \in 1 .. Len(s) - 1 : Tail(s)[k] = s[k + 1]
          /\ Head(s) = s[1]
      BY <2>1, Taken
    <2> QED
      BY <2>2 DEF s
  <1>5. /\ \A d \in Commands : held'[d] = IF d = c THEN Head(pipe[j]) ELSE held[d]
        /\ \A m \in Pipes : pipe'[m] = IF m = j THEN Tail(pipe[j]) ELSE pipe[m]
        /\ held' \in [Commands -> 0 .. Items]
        /\ pipe' \in [Pipes -> Seq(1 .. Items)]
    <2>1. /\ held' = [held EXCEPT ![c] = Head(pipe[j])] /\ Head(pipe[j]) \in 0 .. Items
          /\ pipe' = [pipe EXCEPT ![j] = Tail(pipe[j])] /\ j \in Pipes
      BY <1>1, <1>2, <1>4
    <2>2. held \in [Commands -> 0 .. Items] /\ pipe \in [Pipes -> Seq(1 .. Items)]
      BY DEF PInv, PipeTypes
    <2> HIDE DEF j
    <2> QED
      BY <1>4, <2>1, <2>2
  <1>6. \A m \in Pipes : Len(pipe'[m]) <= Capacity
    <2>1. \A m \in Pipes : Len(pipe[m]) <= Capacity
      BY DEF PInv, PipeTypes
    <2>2. Len(Tail(pipe[j])) <= Capacity
      <3> DEFINE size == Len(pipe[j])
      <3>1. size \in Nat /\ size <= Capacity /\ Len(Tail(pipe[j])) = size - 1 /\ Capacity \in Nat
        BY <1>2, <1>3, <1>4, <2>1
      <3> HIDE DEF size, j
      <3> QED
        BY <3>1
    <2> QED
      BY <1>5, <2>1, <2>2
  <1>7. PipeTypes'
    BY <1>1, <1>5, <1>6 DEF PInv, PipeTypes
  <1> HIDE DEF j
  <1>8. Flow'
    <2>1. PICK passed \in [Commands -> Nat] : Flows(passed)
      BY DEF PInv, Flow
    <2>2. /\ Holds(c) = 0 /\ Holds(c)' = 1
          /\ \A d \in Commands : d # c => Holds(d)' = Holds(d)
      BY <1>1, <1>4, <1>5 DEF Holds
    <2>3. \A d \in Commands : (Live(d) <=> Live(d)') /\ proc'[d] = proc[d]
      BY <1>1 DEF Live
    <2>4. /\ passed[j] = Len(pipe[j]) + passed[c]
          /\ passed[j] \in Nat /\ passed[c] \in Nat
      <3>1. passed[c - 1] = Len(pipe[c - 1]) + passed[c] + Holds(c)
        BY <1>1, <1>2, <2>1 DEF Flows, Live, Running
      <3>2. passed[j] = Len(pipe[j]) + passed[c] + Holds(c)
        BY <1>2, <3>1
      <3> QED
        BY <1>2, <1>3, <2>1, <2>2, <3>2
    <2>5. Head(pipe[j]) = passed[c] + 1
      <3> DEFINE size == Len(pipe[j])
      <3>1. \A k \in 1 .. size : pipe[j][k] = passed[j] - size + k
        BY <1>2, <2>1 DEF Flows
      <3>2. size \in Nat /\ 1 \in 1 .. size /\ passed[j] = size + passed[c]
        BY <1>3, <1>4, <2>4
      <3> HIDE DEF size
      <3>3. pipe[j][1] = passed[j] - size + 1
        BY <3>1, <3>2
      <3> QED
        BY <1>4, <2>4, <3>2, <3>3
    <2>6. \A d \in Commands : proc'[d] \in {"unborn", "forked"} => passed[d] = 0 /\ held'[d] = 0
      BY <1>1, <1>5, <2>1 DEF Flows, Running
    <2>7. \A d \in Commands : held'[d] # 0 => held'[d] = passed[d] + 1
      BY <1>5, <2>1, <2>5 DEF Flows
    <2>8. \A m \in Pipes : m < n => \A k \in 1 .. Len(pipe'[m]) :
             pipe'[m][k] = passed[m] - Len(pipe'[m]) + k
      <3>1. \A k \in 1 .. Len(pipe[j]) : pipe[j][k] = passed[j] - Len(pipe[j]) + k
        BY <1>2, <2>1 DEF Flows
      <3>2. \A k \in 1 .. Len(Tail(pipe[j])) :
               Tail(pipe[j])[k] = passed[j] - Len(Tail(pipe[j])) + k
        <4> DEFINE size == Len(pipe[j])
        <4> SUFFICES ASSUME NEW k \in 1 .. Len(Tail(pipe[j]))
                     PROVE  Tail(pipe[j])[k] = passed[j] - Len(Tail(pipe[j])) + k
          OBVIOUS
        <4>1. size \in Nat /\ Len(Tail(pipe[j])) = size - 1 /\ k + 1 \in 1 .. size /\ k \in Nat
          <5>1. size \in Nat /\ Len(Tail(pipe[j])) = size - 1 /\ k \in 1 .. Len(Tail(pipe[j]))
            BY <1>3, <1>4
          <5> HIDE DEF size
          <5> QED
            BY <5>1
        <4>2. Tail(pipe[j])[k] = passed[j] - size + (k + 1)
          BY <1>4, <3>1, <4>1
        <4> DEFINE all == passed[j]
        <4>3. all \in Nat
          BY <2>4
        <4>4. all - size + (k + 1) = all - (size - 1) + k
          <5> HIDE DEF size, all
          <5> QED
            BY <4>1, <4>3
        <4> QED
          BY <4>1, <4>2, <4>4
      <3>3. \A m \in Pipes : m < n => \A k \in 1 .. Len(pipe[m]) :
               pipe[m][k] = passed[m] - Len(pipe[m]) + k
        BY <2>1 DEF Flows
      <3>4. pipe'[j] = Tail(pipe[j]) /\ \A m \in Pipes : m # j => pipe'[m] = pipe[m]
        BY <1>2, <1>5
      <3> TAKE m \in Pipes
      <3>5. CASE m = j
        BY <3>2, <3>4, <3>5
      <3>6. CASE m # j
        BY <3>3, <3>4, <3>6
      <3> QED
        BY <3>5, <3>6
    <2>9. \A d \in Commands : 1 < d /\ d <= n /\ Live(d)' =>
             passed[d - 1] = Len(pipe'[d - 1]) + passed[d] + Holds(d)'
      <3> SUFFICES ASSUME NEW d \in Commands, 1 < d, d <= n, Live(d)
                   PROVE  passed[d - 1] = Len(pipe'[d - 1]) + passed[d] + Holds(d)'
        BY <2>3
      <3>1. d - 1 \in Pipes /\ d \in Nat
        BY DEF Pipes, Commands
      <3>2. passed[d - 1] = Len(pipe[d - 1]) + passed[d] + Holds(d)
        BY <2>1 DEF Flows
      <3>3. CASE d = c
        <4> DEFINE size == Len(pipe[j])
        <4>1. size \in Nat /\ Len(pipe'[j]) = size - 1 /\ passed[j] = size + passed[c]
          BY <1>2, <1>3, <1>4, <1>5, <2>4
        <4>2. d - 1 = j
          BY <1>2, <3>3
        <4> HIDE DEF size
        <4> QED
          BY <2>2, <2>4, <3>3, <4>1, <4>2
      <3>4. CASE d # c
        <4>1. d - 1 # j
          BY <1>2, <3>1, <3>4
        <4> QED
          BY <1>5, <2>2, <3>1, <3>2, <3>4, <4>1
      <3> QED
        BY <3>3, <3>4
    <2>10. Holds(1)' = Holds(1) /\ 1 \in Commands
      BY <1>2, <2>2 DEF Commands
    <2>11. Flows(passed)'
      BY <1>1, <2>1, <2>3, <2>6, <2>7, <2>8, <2>9, <2>10 DEF Flows
    <2> QED
      BY <2>1, <2>11 DEF Flow
  <1> QED
    BY <1>1, <1>7, <1>8, DataMoves DEF PInv, supVars, fdVars

(* An item leaves command c.                                               *)
LEMMA Leaves ==
  ASSUME NEW c \in Commands, NEW passed \in [Commands -> Nat]
  PROVE  LET after == [passed EXCEPT ![c] = passed[c] + 1]
         IN  /\ after \in [Commands -> Nat]
             /\ \A d \in Commands : after[d] = IF d = c THEN passed[c] + 1 ELSE passed[d]
  OBVIOUS

LEMMA WriteStep ==
  ASSUME PInv, NEW c \in Commands, WriteItem(c)
  PROVE  PInv'
  <1>1. /\ Running(c) /\ held[c] # 0 /\ stdout[c] # 0
        /\ Len(pipe[stdout[c]]) < Capacity
        /\ held' = [held EXCEPT ![c] = 0]
        /\ pipe' = [pipe EXCEPT ![stdout[c]] = Append(pipe[stdout[c]], held[c])]
        /\ UNCHANGED <<sup, n, i, proc, ends, stdin, stdout, made, out>>
    BY DEF WriteItem, supVars, fdVars
  <1>2. stdout[c] = c /\ c \in Pipes /\ 1 <= c /\ c < n /\ c \in Nat /\ n \in Nat /\ n \in Commands
    BY <1>1, RunningFacts
  <1>3. pipe[c] \in Seq(1 .. Items) /\ held[c] \in 1 .. Items
    BY <1>1, <1>2 DEF PInv, PipeTypes
  <1> DEFINE size == Len(pipe[c])
             longer == Append(pipe[c], held[c])
  <1>4. /\ longer \in Seq(1 .. Items) /\ size \in Nat /\ Len(longer) = size + 1
        /\ \A k \in 1 .. size : longer[k] = pipe[c][k]
        /\ longer[size + 1] = held[c]
    BY <1>3, Appended, LenProperties
  <1>5. /\ \A d \in Commands : held'[d] = IF d = c THEN 0 ELSE held[d]
        /\ \A m \in Pipes : pipe'[m] = IF m = c THEN longer ELSE pipe[m]
        /\ held' \in [Commands -> 0 .. Items]
        /\ pipe' \in [Pipes -> Seq(1 .. Items)]
    BY <1>1, <1>2, <1>4 DEF PInv, PipeTypes
  <1>6. \A m \in Pipes : Len(pipe'[m]) <= Capacity
    <2>1. \A m \in Pipes : Len(pipe[m]) <= Capacity
      BY DEF PInv, PipeTypes
    <2>2. size < Capacity
      BY <1>1, <1>2
    <2> HIDE DEF size, longer
    <2>3. Len(longer) <= Capacity
      BY <1>4, <2>2
    <2> QED
      BY <1>5, <2>1, <2>3
  <1>7. PipeTypes'
    BY <1>1, <1>5, <1>6 DEF PInv, PipeTypes
  <1> HIDE DEF longer
  <1>8. Flow'
    <2>1. PICK passed \in [Commands -> Nat] : Flows(passed)
      BY DEF PInv, Flow
    <2> DEFINE after == [passed EXCEPT ![c] = passed[c] + 1]
    <2>2. /\ after \in [Commands -> Nat]
          /\ \A d \in Commands : after[d] = IF d = c THEN passed[c] + 1 ELSE passed[d]
      BY <2>1, Leaves
    <2> HIDE DEF after
    <2>3. /\ Holds(c) = 1 /\ Holds(c)' = 0
          /\ \A d \in Commands : d # c => Holds(d)' = Holds(d)
      BY <1>1, <1>5 DEF Holds
    <2>4. \A d \in Commands : (Live(d) <=> Live(d)') /\ proc'[d] = proc[d]
      BY <1>1 DEF Live
    <2>5. held[c] = passed[c] + 1 /\ passed[c] \in Nat
      BY <1>1, <2>1 DEF Flows
    <2>6. \A d \in Commands : proc'[d] \in {"unborn", "forked"} => after[d] = 0 /\ held'[d] = 0
      BY <1>1, <1>5, <2>1, <2>2 DEF Flows, Running
    <2>7. \A d \in Commands : held'[d] # 0 => held'[d] = after[d] + 1
      BY <1>5, <2>1, <2>2 DEF Flows
    <2>8. \A m \in Pipes : m < n => \A k \in 1 .. Len(pipe'[m]) :
             pipe'[m][k] = after[m] - Len(pipe'[m]) + k
      <3>1. \A k \in 1 .. size : pipe[c][k] = passed[c] - size + k
        BY <1>2, <2>1 DEF Flows
      <3>2. \A m \in Pipes : m < n => \A k \in 1 .. Len(pipe[m]) :
               pipe[m][k] = passed[m] - Len(pipe[m]) + k
        BY <2>1 DEF Flows
      <3>3. /\ pipe'[c] = longer /\ after[c] = passed[c] + 1
            /\ \A m \in Pipes : m # c => pipe'[m] = pipe[m] /\ m \in Commands /\ after[m] = passed[m]
        <4>1. \A m \in Pipes : m \in Commands
          BY DEF Pipes, Commands
        <4> QED
          BY <1>2, <1>5, <2>2, <4>1
      <3> HIDE DEF size
      <3>4. \A k \in 1 .. size + 1 : longer[k] = after[c] - (size + 1) + k
        <4> TAKE k \in 1 .. size + 1
        <4>1. CASE k = size + 1
          BY <1>4, <2>5, <3>3, <4>1
        <4>2. CASE k # size + 1
          <5>1. k \in 1 .. size
            BY <1>4, <4>2
          <5> QED
            BY <1>4, <2>5, <3>1, <3>3, <5>1
        <4> QED
          BY <4>1, <4>2
      <3> TAKE m \in Pipes
      <3>5. CASE m = c
        BY <1>4, <3>3, <3>4, <3>5
      <3>6. CASE m # c
        BY <3>2, <3>3, <3>6
      <3> QED
        BY <3>5, <3>6
    <2>9. \A d \in Commands : 1 < d /\ d <= n /\ Live(d)' =>
             after[d - 1] = Len(pipe'[d - 1]) + after[d] + Holds(d)'
      <3> SUFFICES ASSUME NEW d \in Commands, 1 < d, d <= n, Live(d)
                   PROVE  after[d - 1] = Len(pipe'[d - 1]) + after[d] + Holds(d)'
        BY <2>4
      <3>1. d - 1 \in Pipes /\ d - 1 \in Commands /\ d \in Nat /\ d - 1 # d
        BY DEF Pipes, Commands
      <3>2. passed[d - 1] = Len(pipe[d - 1]) + passed[d] + Holds(d)
        BY <2>1 DEF Flows
      <3>3. Len(pipe[d - 1]) \in Nat /\ passed[d] \in Nat /\ passed[d - 1] \in Nat
        BY <2>1, <3>1, LenProperties DEF PInv, PipeTypes
      <3>4. CASE d = c
        <4>1. /\ after[d - 1] = passed[d - 1] /\ pipe'[d - 1] = pipe[d - 1]
              /\ after[d] = passed[d] + 1 /\ Holds(d) = 1 /\ Holds(d)' = 0
          BY <1>5, <2>2, <2>3, <3>1, <3>4
        <4> HIDE DEF size
        <4> QED
          BY <3>2, <3>3, <4>1
      <3>5. CASE d - 1 = c
        <4>1. /\ after[d - 1] = passed[c] + 1 /\ Len(pipe'[d - 1]) = size + 1
              /\ after[d] = passed[d] /\ Holds(d) = Holds(d)' /\ passed[c] = size + passed[d] + Holds(d)
          BY <1>4, <1>5, <2>2, <2>3, <3>1, <3>2, <3>5
        <4>2. Holds(d) \in Nat
          BY DEF Holds
        <4> HIDE DEF size
        <4> QED
          BY <1>4, <3>3, <4>1, <4>2
      <3>6. CASE d # c /\ d - 1 # c
        BY <1>5, <2>2, <2>3, <3>1, <3>2, <3>6
      <3> QED
        BY <3>4, <3>5, <3>6
    <2>10. Live(1)' => made' = after[1] + Holds(1)'
      <3>1. Live(1) => made = passed[1] + Holds(1)
        BY <2>1 DEF Flows
      <3>2. 1 \in Commands /\ passed[1] \in Nat
        BY <2>1 DEF Commands
      <3> QED
        BY <1>1, <2>2, <2>3, <2>4, <2>5, <3>1, <3>2
    <2>11. after[n] = passed[n]
      BY <1>2, <2>2
    <2>12. Flows(after)'
      BY <1>1, <1>2, <2>1, <2>6, <2>7, <2>8, <2>9, <2>10, <2>11 DEF Flows
    <2> QED
      BY <2>2, <2>12 DEF Flow
  <1> QED
    BY <1>1, <1>7, <1>8, DataMoves DEF PInv, supVars, fdVars

LEMMA ShowStep ==
  ASSUME PInv, NEW c \in Commands, Show(c)
  PROVE  PInv'
  <1>1. /\ Running(c) /\ held[c] # 0 /\ stdout[c] = 0
        /\ held' = [held EXCEPT ![c] = 0]
        /\ out' = Append(out, held[c])
        /\ UNCHANGED <<sup, n, i, proc, ends, stdin, stdout, made, pipe>>
    BY DEF Show, supVars, fdVars
  <1>2. c = n /\ n \in Nat /\ n # 0
    BY <1>1, RunningFacts
  <1>3. out \in Seq(1 .. Items) /\ held[c] \in 1 .. Items
    BY <1>1, <1>2 DEF PInv, PipeTypes
  <1> DEFINE size == Len(out)
  <1>4. /\ out' \in Seq(1 .. Items) /\ size \in Nat /\ Len(out') = size + 1
        /\ \A k \in 1 .. size : out'[k] = out[k]
        /\ out'[size + 1] = held[c]
    BY <1>1, <1>3, Appended, LenProperties
  <1> HIDE DEF size
  <1>5. /\ \A d \in Commands : held'[d] = IF d = c THEN 0 ELSE held[d]
        /\ held' \in [Commands -> 0 .. Items]
    BY <1>1 DEF PInv, PipeTypes
  <1>6. PipeTypes'
    BY <1>1, <1>4, <1>5 DEF PInv, PipeTypes
  <1>7. Flow'
    <2>1. PICK passed \in [Commands -> Nat] : Flows(passed)
      BY DEF PInv, Flow
    <2> DEFINE after == [passed EXCEPT ![c] = passed[c] + 1]
    <2>2. /\ after \in [Commands -> Nat]
          /\ \A d \in Commands : after[d] = IF d = c THEN passed[c] + 1 ELSE passed[d]
      BY <2>1, Leaves
    <2> HIDE DEF after
    <2>3. /\ Holds(c) = 1 /\ Holds(c)' = 0
          /\ \A d \in Commands : d # c => Holds(d)' = Holds(d)
      BY <1>1, <1>5 DEF Holds
    <2>4. \A d \in Commands : (Live(d) <=> Live(d)') /\ proc'[d] = proc[d]
      BY <1>1 DEF Live
    <2>5. held[c] = passed[c] + 1 /\ passed[c] \in Nat /\ passed[c] = size
      BY <1>1, <1>2, <2>1 DEF Flows, size
    <2>6. \A d \in Commands : proc'[d] \in {"unborn", "forked"} => after[d] = 0 /\ held'[d] = 0
      BY <1>1, <1>5, <2>1, <2>2 DEF Flows, Running
    <2>7. \A d \in Commands : held'[d] # 0 => held'[d] = after[d] + 1
      BY <1>5, <2>1, <2>2 DEF Flows
    <2>8. \A m \in Pipes : m < n => m \in Commands /\ after[m] = passed[m]
      BY <1>2, <2>2 DEF Pipes, Commands
    <2>9. \A m \in Pipes : m < n => \A k \in 1 .. Len(pipe[m]) :
             pipe[m][k] = after[m] - Len(pipe[m]) + k
      BY <2>1, <2>8 DEF Flows
    <2>10. \A d \in Commands : 1 < d /\ d <= n /\ Live(d)' =>
              after[d - 1] = Len(pipe[d - 1]) + after[d] + Holds(d)'
      <3> SUFFICES ASSUME NEW d \in Commands, 1 < d, d <= n, Live(d)
                   PROVE  after[d - 1] = Len(pipe[d - 1]) + after[d] + Holds(d)'
        BY <2>4
      <3>1. d - 1 \in Pipes /\ d - 1 < n /\ d \in Nat
        BY <1>2 DEF Pipes, Commands
      <3>2. passed[d - 1] = Len(pipe[d - 1]) + passed[d] + Holds(d)
        BY <2>1 DEF Flows
      <3>3. Len(pipe[d - 1]) \in Nat /\ passed[d] \in Nat
        BY <2>1, <3>1, LenProperties DEF PInv, PipeTypes
      <3>4. after[d - 1] = passed[d - 1]
        BY <2>8, <3>1
      <3>5. after[d] + Holds(d)' = passed[d] + Holds(d)
        BY <2>2, <2>3, <3>3
      <3>6. Holds(d) \in Nat /\ Holds(d)' \in Nat /\ after[d] \in Nat
        BY <2>2 DEF Holds
      <3> QED
        <4> DEFINE len == Len(pipe[d - 1])
                   pd == passed[d]
                   hd == Holds(d)
                   ad == after[d]
                   hn == Holds(d)'
        <4>1. after[d - 1] = len + pd + hd
          BY <3>2, <3>4
        <4>2. len \in Nat /\ pd \in Nat /\ hd \in Nat /\ ad \in Nat /\ hn \in Nat /\ ad + hn = pd + hd
          BY <3>3, <3>5, <3>6
        <4>3. after[d - 1] = len + ad + hn
          <5> HIDE DEF len, pd, hd, ad, hn
          <5> QED
            BY <4>1, <4>2
        <4> QED
          BY <4>3
    <2>11. Live(1)' => made' = after[1] + Holds(1)'
      <3>1. Live(1) => made = passed[1] + Holds(1)
        BY <2>1 DEF Flows
      <3>2. 1 \in Commands /\ passed[1] \in Nat
        BY <2>1 DEF Commands
      <3> QED
        BY <1>1, <2>2, <2>3, <2>4, <2>5, <3>1, <3>2
    <2>12. n # 0 /\ after[n] = Len(out')
      BY <1>2, <1>4, <2>2, <2>5
    <2>13. \A k \in 1 .. Len(out') : out'[k] = k
      <3>1. \A k \in 1 .. size : out[k] = k
        BY <2>1 DEF Flows, size
      <3>2. out'[size + 1] = size + 1
        BY <1>4, <2>5
      <3> TAKE k \in 1 .. Len(out')
      <3>3. k = size + 1 \/ k \in 1 .. size
        BY <1>4
      <3> QED
        BY <1>4, <3>1, <3>2, <3>3
    <2>14. Flows(after)'
      BY <1>1, <2>6, <2>7, <2>9, <2>10, <2>11, <2>12, <2>13 DEF Flows
    <2> QED
      BY <2>2, <2>14 DEF Flow
  <1> QED
    BY <1>1, <1>6, <1>7, DataMoves DEF PInv, supVars, fdVars

LEMMA FinishStep ==
  ASSUME PInv, NEW c \in Commands, Finish(c)
  PROVE  PInv'
  BY QuitStep DEF Finish

----------------------------------------------------------------------------
(* Pipelines as a whole *)

(* Nothing is left of the one before.                                      *)
LEMMA ClearedStep ==
  ASSUME Cleared, n' \in 0 .. MAX_COMMANDS,
         \/ sup' = "none" /\ n' = 0 /\ i' = 0
         \/ sup' = "pipes" /\ n' >= 1 /\ i' = 1
  PROVE  PInv'
  <1>1. /\ proc' = [c \in Commands |-> "unborn"]
        /\ ends' = [p \in Procs |-> {}]
        /\ stdin' = [c \in Commands |-> 0]
        /\ stdout' = [c \in Commands |-> 0]
        /\ pipe' = [j \in Pipes |-> <<>>]
        /\ held' = [c \in Commands |-> 0]
        /\ made' = 0
        /\ out' = <<>>
    BY DEF Cleared
  <1>2. <<>> \in Seq(1 .. Items) /\ Len(<<>>) = 0 /\ 0 \in 0 .. Items
    BY EmptySeq
  <1>3. PipeTypes'
    <2>1. \A j \in Pipes : pipe'[j] = <<>>
      BY <1>1
    <2>2. \A j \in Pipes : Len(pipe'[j]) <= Capacity
      BY <1>2, <2>1
    <2>3. i' \in 0 .. n' + 1
      OBVIOUS
    <2> QED
      BY <1>1, <1>2, <2>2, <2>3 DEF PipeTypes
  <1>4. Wired'
    <2>1. 0 \in Procs /\ Commands \subseteq Procs
      BY DEF Procs, Commands
    <2> QED
      BY <1>1, <2>1 DEF Wired
  <1>5. Waited'
    BY <1>1 DEF Waited, Gone
  <1>6. Flow'
    <2> DEFINE none == [c \in Commands |-> 0]
    <2>1. none \in [Commands -> Nat] /\ \A c \in Commands : none[c] = 0 /\ held'[c] = 0
      BY <1>1
    <2> HIDE DEF none
    <2>2. \A c \in Commands : Holds(c)' = 0
      BY <2>1 DEF Holds
    <2>3. \A j \in Pipes : pipe'[j] = <<>> /\ Len(pipe'[j]) = 0
      BY <1>1, <1>2
    <2>4. 1 \in Commands /\ (n' # 0 => n' \in Commands)
      BY DEF Commands
    <2>5. \A c \in Commands : 1 < c => c - 1 \in Pipes /\ c - 1 \in Commands
      BY DEF Commands, Pipes
    <2>6. \A c \in Commands : 1 < c => none[c - 1] = Len(pipe'[c - 1]) + none[c] + Holds(c)'
      BY <2>1, <2>2, <2>3, <2>5
    <2>7. IF n' = 0 THEN out' = <<>> ELSE none[n'] = Len(out')
      BY <1>1, <1>2, <2>1, <2>4
    <2>8. made' = none[1] + Holds(1)'
      BY <1>1, <2>1, <2>2, <2>4
    <2>9. Flows(none)'
      BY <1>1, <1>2, <2>1, <2>3, <2>6, <2>7, <2>8 DEF Flows
    <2> QED
      BY <2>1, <2>9 DEF Flow
  <1> QED
    BY <1>3, <1>4, <1>5, <1>6 DEF PInv

(* A line has at least one command.                                        *)
LEMMA CommandsOfLine ==
  ASSUME NEW l \in Entries
  PROVE  NumCommands(l) \in Nat /\ NumCommands(l) >= 1
  <1> DEFINE argv == parseline(l).argv
             bars == {k \in DOMAIN argv : argv[k] = "|" /\ k < Len(argv)}
  <1>1. l \in Seq(STRING) /\ Len(l) \in Nat /\ DOMAIN l = 1 .. Len(l)
    BY LenProperties
  <1>2. argv = l \/ (l # <<>> /\ argv = SubSeq(l, 1, Len(l) - 1))
    BY DEF parseline, Front
  <1>3. \E len \in Nat : DOMAIN argv = 1 .. len
    <2>1. CASE argv = l
      BY <1>1, <2>1
    <2>2. CASE l # <<>> /\ argv = SubSeq(l, 1, Len(l) - 1)
      <3>1. Len(l) - 1 \in Nat /\ \A k \in 1 .. Len(l) - 1 : l[k] \in STRING
        BY <1>1, <2>2, EmptySeq
      <3>2. argv \in Seq(STRING)
        BY <2>2, <3>1, <1>1, SubSeqProperties
      <3> QED
        BY <3>2, LenProperties
    <2> QED
      BY <1>2, <2>1, <2>2
  <1>4. IsFiniteSet(DOMAIN argv)
    <2>1. PICK len \in Nat : DOMAIN argv = 1 .. len
      BY <1>3
    <2>2. 1 \in Int /\ len \in Int
      OBVIOUS
    <2>3. IsFiniteSet(1 .. len)
      BY <2>2, FS_Interval, Zenon
    <2> QED
      BY <2>1, <2>3
  <1>5. bars \in SUBSET DOMAIN argv
    OBVIOUS
  <1> HIDE DEF argv
  <1>6. Cardinality(bars) \in Nat
    BY <1>4, <1>5, FS_Subset, FS_CardinalityType
  <1>7. NumCommands(l) = 1 + Cardinality(bars)
    BY DEF NumCommands, argv
  <1> QED
    BY <1>6, <1>7

LEMMA StartPipelineStep ==
  ASSUME NEW l \in Entries, StartPipeline(NumCommands(l))
  PROVE  PInv'
  <1>1. Split(NumCommands(l)) \in 0 .. MAX_COMMANDS /\ Split(NumCommands(l)) >= 1
    BY CommandsOfLine DEF Split
  <1> QED
    BY <1>1, ClearedStep DEF StartPipeline

LEMMA EndPipelineStep ==
  ASSUME EndPipeline
  PROVE  PInv'
  <1>1. sup' = "none" /\ n' = 0 /\ i' = 0 /\ Cleared /\ n' \in 0 .. MAX_COMMANDS
    BY DEF EndPipeline
  <1> QED
    BY <1>1, ClearedStep

LEMMA PipelineStays ==
  ASSUME PInv, UNCHANGED pipeVars
  PROVE  PInv'
  <1>1. UNCHANGED <<sup, n, i, proc, ends, stdin, stdout, pipe, held, made, out>>
    BY DEF pipeVars, supVars, fdVars, dataVars
  <1>2. PipeTypes'
    BY <1>1 DEF PInv, PipeTypes
  <1>3. Wired' /\ Waited'
    BY <1>1, DataMoves DEF PInv, supVars, fdVars
  <1>4. Flow'
    BY <1>1, FlowStays DEF PInv, Live
  <1> QED
    BY <1>2, <1>3, <1>4 DEF PInv

(* Every step of a pipeline, of whichever process.                         *)
LEMMA PipelineSteps ==
  ASSUME PInv, PipelineStep
  PROVE  PInv'
  <1>1. CASE MakePipe \/ PipesMade
    BY <1>1, MakePipeStep
  <1>2. CASE Fork
    BY <1>2, ForkStep
  <1>3. CASE CloseAll
    BY <1>3, CloseAllStep
  <1>4. CASE SupervisorExit
    BY <1>4, SupervisorExitStep
  <1>5. CASE \E c \in Commands : WaitChild(c)
    BY <1>5, WaitChildStep
  <1>6. CASE \E c \in Commands : Wire(c)
    BY <1>6, WireStep
  <1>7. CASE \E c \in Commands : Make(c)
    BY <1>7, MakeStep
  <1>8. CASE \E c \in Commands : ReadItem(c)
    BY <1>8, ReadStep
  <1>9. CASE \E c \in Commands : WriteItem(c)
    BY <1>9, WriteStep
  <1>10. CASE \E c \in Commands : Show(c)
    BY <1>10, ShowStep
  <1>11. CASE \E c \in Commands : Finish(c)
    BY <1>11, FinishStep
  <1>12. CASE \E c \in Commands : Quit(c)
    BY <1>12, QuitStep
  <1> QED
    BY <1>1, <1>2, <1>3, <1>4, <1>5, <1>6, <1>7, <1>8, <1>9, <1>10, <1>11, <1>12
    DEF PipelineStep, Supervisor, Command

----------------------------------------------------------------------------
(* Histories *)

(* A compact history is one without the lines that are never entries, no   *)
(* longer than it may be and with no entry twice in a row.                 *)
LEMMA CompactFacts ==
  ASSUME NEW h \in Seq(Entries)
  PROVE  Compact(h) <=>
            /\ Len(h) <= MAXHISTORY
            /\ \A k \in 1 .. Len(h) : (h[k] \in Lines => Kind(h[k]) \notin Unsaved)
            /\ \A k \in 1 .. Len(h) : k > 1 /\ h[k] \in Lines => h[k] # h[k - 1]
  <1>1. DOMAIN h = 1 .. Len(h)
    BY LenProperties
  <1> QED
    BY <1>1 DEF Compact

LEMMA CompactEmpty == Compact(<<>>) /\ <<>> \in Seq(Entries)
  <1>1. <<>> \in Seq(Entries) /\ Len(<<>>) = 0
    BY EmptySeq
  <1> DEFINE h == <<>>
  <1>2. h \in Seq(Entries) /\ 1 .. Len(h) = {} /\ Len(h) <= MAXHISTORY
    BY <1>1
  <1> HIDE DEF h
  <1>3. Compact(h)
    BY <1>2, CompactFacts
  <1> QED
    BY <1>1, <1>3 DEF h

LEMMA CompactPrefix ==
  ASSUME NEW h \in Seq(Entries), Compact(h), NEW len \in 0 .. Len(h)
  PROVE  SubSeq(h, 1, len) \in Seq(Entries) /\ Compact(SubSeq(h, 1, len))
  <1>1. Len(h) \in Nat /\ len \in Nat /\ 1 \in Int /\ len \in Int /\ len <= Len(h)
    BY LenProperties
  <1>2. \A k \in 1 .. len : h[k] \in Entries
    BY <1>1
  <1> DEFINE p == SubSeq(h, 1, len)
  <1>3. p \in Seq(Entries) /\ Len(p) = len /\ \A k \in 1 .. len : p[k] = h[k]
    BY <1>1, <1>2, SubSeqProperties
  <1>4. /\ Len(h) <= MAXHISTORY
        /\ \A k \in 1 .. Len(h) : (h[k] \in Lines => Kind(h[k]) \notin Unsaved)
        /\ \A k \in 1 .. Len(h) : k > 1 /\ h[k] \in Lines => h[k] # h[k - 1]
    BY CompactFacts
  <1> HIDE DEF p
  <1>5. Len(p) <= MAXHISTORY
    <2> DEFINE m == Len(h)
    <2>1. m \in Nat /\ len \in Nat /\ len <= m /\ m <= MAXHISTORY /\ MAXHISTORY \in Nat
      BY <1>1, <1>4
    <2> HIDE DEF m
    <2> QED
      BY <1>3, <2>1
  <1>6. \A k \in 1 .. Len(p) : (p[k] \in Lines => Kind(p[k]) \notin Unsaved)
    <2> TAKE k \in 1 .. Len(p)
    <2>1. k \in 1 .. len /\ k \in 1 .. Len(h)
      BY <1>1, <1>3
    <2> QED
      BY <1>3, <1>4, <2>1
  <1>7. \A k \in 1 .. Len(p) : k > 1 /\ p[k] \in Lines => p[k] # p[k - 1]
    <2> SUFFICES ASSUME NEW k \in 1 .. len, k > 1, p[k] \in Lines
                 PROVE  p[k] # p[k - 1]
      BY <1>3
    <2>1. k - 1 \in 1 .. len /\ k \in 1 .. Len(h)
      BY <1>1
    <2> QED
      BY <1>3, <1>4, <2>1
  <1>8. Compact(p)
    BY <1>3, <1>5, <1>6, <1>7, CompactFacts
  <1> QED
    BY <1>3, <1>8 DEF p

LEMMA CompactTail ==
  ASSUME NEW h \in Seq(Entries), Compact(h), h # <<>>
  PROVE  /\ Tail(h) \in Seq(Entries) /\ Compact(Tail(h)) /\ Len(Tail(h)) = Len(h) - 1
         /\ Tail(h) # <<>> => Tail(h)[Len(Tail(h))] = h[Len(h)]
  <1> DEFINE len == Len(h)
             t == Tail(h)
  <1>1. /\ t \in Seq(Entries) /\ len \in Nat /\ len >= 1 /\ Len(t) = len - 1
        /\ \A k \in 1 .. len - 1 : t[k] = h[k + 1]
    BY Taken
  <1>2. /\ len <= MAXHISTORY
        /\ \A k \in 1 .. len : (h[k] \in Lines => Kind(h[k]) \notin Unsaved)
        /\ \A k \in 1 .. len : k > 1 /\ h[k] \in Lines => h[k] # h[k - 1]
    BY CompactFacts
  <1>3. t # <<>> => Len(t) # 0
    BY <1>1, EmptySeq
  <1>4. h[Len(h)] = h[len]
    OBVIOUS
  <1> HIDE DEF len, t
  <1>5. Len(t) <= MAXHISTORY
    BY <1>1, <1>2
  <1>6. \A k \in 1 .. Len(t) : (t[k] \in Lines => Kind(t[k]) \notin Unsaved)
    <2> TAKE k \in 1 .. Len(t)
    <2>1. k + 1 \in 1 .. len
      BY <1>1
    <2> QED
      BY <1>1, <1>2, <2>1
  <1>7. \A k \in 1 .. Len(t) : k > 1 /\ t[k] \in Lines => t[k] # t[k - 1]
    <2> SUFFICES ASSUME NEW k \in 1 .. len - 1, k > 1, t[k] \in Lines
                 PROVE  t[k] # t[k - 1]
      BY <1>1
    <2>1. k - 1 \in 1 .. len - 1 /\ k + 1 \in 1 .. len /\ k + 1 > 1 /\ k + 1 - 1 = k /\ k - 1 + 1 = k
      BY <1>1
    <2>2. t[k] = h[k + 1] /\ t[k - 1] = h[k]
      BY <1>1, <2>1
    <2>3. h[k + 1] # h[k + 1 - 1]
      BY <1>2, <2>1, <2>2
    <2> QED
      BY <2>1, <2>2, <2>3
  <1>8. Compact(t)
    BY <1>1, <1>5, <1>6, <1>7, CompactFacts
  <1>9. t # <<>> => t[Len(t)] = h[len]
    BY <1>1, <1>3
  <1> QED
    BY <1>1, <1>4, <1>8, <1>9 DEF len, t

LEMMA CompactAppend ==
  ASSUME NEW h \in Seq(Entries), Compact(h), Len(h) < MAXHISTORY, NEW l \in Entries,
         l \in Lines => Kind(l) \notin Unsaved,
         l \in Lines /\ h # <<>> => h[Len(h)] # l
  PROVE  /\ Append(h, l) \in Seq(Entries) /\ Compact(Append(h, l))
         /\ Append(h, l) # <<>> /\ Last(Append(h, l)) = l
  <1> DEFINE len == Len(h)
             a == Append(h, l)
  <1>1. /\ a \in Seq(Entries) /\ a # <<>> /\ len \in Nat /\ Len(a) = len + 1
        /\ \A k \in 1 .. len : a[k] = h[k]
        /\ a[len + 1] = l
    BY Appended, LenProperties
  <1>2. /\ \A k \in 1 .. len : (h[k] \in Lines => Kind(h[k]) \notin Unsaved)
        /\ \A k \in 1 .. len : k > 1 /\ h[k] \in Lines => h[k] # h[k - 1]
    BY CompactFacts
  <1>3. l \in Lines /\ len # 0 => h[len] # l
    OBVIOUS
  <1>4. len < MAXHISTORY
    OBVIOUS
  <1> HIDE DEF len, a
  <1>5. Len(a) <= MAXHISTORY
    BY <1>1, <1>4
  <1>6. \A k \in 1 .. Len(a) : (a[k] \in Lines => Kind(a[k]) \notin Unsaved)
    <2> TAKE k \in 1 .. Len(a)
    <2>1. k = len + 1 \/ k \in 1 .. len
      BY <1>1
    <2> QED
      BY <1>1, <1>2, <2>1
  <1>7. \A k \in 1 .. Len(a) : k > 1 /\ a[k] \in Lines => a[k] # a[k - 1]
    <2> SUFFICES ASSUME NEW k \in 1 .. len + 1, k > 1, a[k] \in Lines
                 PROVE  a[k] # a[k - 1]
      BY <1>1
    <2>1. CASE k = len + 1
      <3>1. k - 1 = len /\ len \in 1 .. len
        BY <1>1, <2>1
      <3> QED
        BY <1>1, <1>3, <2>1, <3>1
    <2>2. CASE k # len + 1
      <3>1. k \in 1 .. len /\ k - 1 \in 1 .. len
        BY <1>1, <2>2
      <3> QED
        BY <1>1, <1>2, <3>1
    <2> QED
      BY <2>1, <2>2
  <1>8. Compact(a)
    BY <1>1, <1>5, <1>6, <1>7, CompactFacts
  <1>9. Last(a) = l
    BY <1>1 DEF Last
  <1> QED
    BY <1>1, <1>8, <1>9 DEF a

(* save_history keeps a compact history compact, and the line is its last. *)
LEMMA CompactPushed ==
  ASSUME NEW h \in Seq(Entries), Compact(h), NEW l \in Entries,
         Kind(l) \notin Unsaved,
         h # <<>> => Last(h) # l
  PROVE  /\ Pushed(h, l) \in Seq(Entries) /\ Compact(Pushed(h, l))
         /\ Pushed(h, l) # <<>> /\ Last(Pushed(h, l)) = l
  <1>1. h # <<>> => h[Len(h)] # l
    BY DEF Last
  <1>2. CASE Len(h) < MAXHISTORY
    BY <1>1, <1>2, CompactAppend DEF Pushed
  <1>3. CASE ~(Len(h) < MAXHISTORY)
    <2>1. Len(h) = MAXHISTORY /\ h # <<>>
      BY <1>3, CompactFacts, LenProperties, EmptySeq
    <2>2. /\ Tail(h) \in Seq(Entries) /\ Compact(Tail(h)) /\ Len(Tail(h)) < MAXHISTORY
          /\ Tail(h) # <<>> => Tail(h)[Len(Tail(h))] # l
      BY <1>1, <2>1, CompactTail
    <2> QED
      BY <1>3, <2>2, CompactAppend DEF Pushed
  <1> QED
    BY <1>2, <1>3

----------------------------------------------------------------------------
(* The shell *)

(* A command line is entered, started or done with: neither the history    *)
(* nor a file changes.                                                     *)
LEMMA LineMoves ==
  ASSUME SInv, UNCHANGED <<history, file, kept>>, cwd' \in Dirs,
         line' \in Entries \cup {NoLine},
         pc \notin {"off", "write"}, pc' \notin {"write"},
         pc' \in {"off", "prompt", "eval", "save", "act", "run", "wait"},
         pc' \in Saved \cup {"eval"} => line' \in Entries,
         pc' \in Saved => Kind(line') \notin Unsaved,
         pc' \in Saved \ {"save"} => Repeated'
  PROVE  SInv'
  <1>1. ShellTypes'
    BY DEF SInv, ShellTypes
  <1>2. Compact(history)' /\ \A d \in Dirs : Compact(file[d])'
    BY DEF SInv, Kept
  <1>3. Kept'
    BY <1>2 DEF SInv, Kept
  <1> QED
    BY <1>1, <1>3 DEF SInv

LEMMA UpTo ==
  ASSUME NEW m \in Nat
  PROVE  IsFiniteSet(1 .. m) /\ Cardinality(1 .. m) = m
  <1>1. 1 \in Int /\ m \in Int
    OBVIOUS
  <1>2. IsFiniteSet(1 .. m) /\ Cardinality(1 .. m) = IF 1 > m THEN 0 ELSE m - 1 + 1
    BY <1>1, FS_Interval, Zenon
  <1>3. (IF 1 > m THEN 0 ELSE m - 1 + 1) = m
    OBVIOUS
  <1> QED
    BY <1>2, <1>3

(* The one way to count 1 .. m in increasing order.                        *)
LEMMA InOrder ==
  ASSUME NEW m \in Nat, NEW at \in [1 .. m -> 1 .. m],
         \A k \in 1 .. m : k > 1 => at[k - 1] < at[k]
  PROVE  \A k \in 1 .. m : at[k] = k
  <1>1. \A k \in 1 .. m : at[k] >= k
    <2> DEFINE Low == {k \in 1 .. m : at[k] < k}
    <2>1. Low = {}
      <3> SUFFICES ASSUME Low # {} PROVE FALSE
        OBVIOUS
      <3>1. Low \subseteq Nat
        OBVIOUS
      <3>2. PICK k \in Low : \A y \in Low : k <= y
        BY <3>1, MinIsLeast
      <3>3. k \in 1 .. m /\ at[k] < k /\ at[k] \in 1 .. m
        BY <3>2
      <3>4. k > 1 /\ k - 1 \in 1 .. m /\ k - 1 < k
        BY <3>3
      <3>5. k - 1 \notin Low
        BY <3>2, <3>4
      <3>6. at[k - 1] >= k - 1 /\ at[k - 1] < at[k] /\ at[k - 1] \in 1 .. m
        BY <3>3, <3>4, <3>5
      <3> QED
        BY <3>3, <3>6
    <2> SUFFICES ASSUME NEW k \in 1 .. m PROVE at[k] >= k
      OBVIOUS
    <2>2. k \notin Low
      BY <2>1
    <2>3. ~(at[k] < k) /\ at[k] \in 1 .. m
      BY <2>2
    <2> QED
      BY <2>3
  <1>2. \A k \in 1 .. m : at[k] <= k
    <2> DEFINE High == {j \in 0 .. m - 1 : at[m - j] > m - j}
    <2>1. High = {}
      <3> SUFFICES ASSUME High # {} PROVE FALSE
        OBVIOUS
      <3>1. High \subseteq Nat
        OBVIOUS
      <3>2. PICK j \in High : \A y \in High : j <= y
        BY <3>1, MinIsLeast
      <3>3. j \in 0 .. m - 1 /\ m - j \in 1 .. m /\ at[m - j] > m - j /\ at[m - j] \in 1 .. m
        BY <3>2
      <3>4. j > 0 /\ j - 1 \in 0 .. m - 1 /\ j - 1 < j
        BY <3>3
      <3>5. j - 1 \notin High
        <4> SUFFICES ASSUME j - 1 \in High PROVE FALSE
          OBVIOUS
        <4> HIDE DEF High
        <4>1. j <= j - 1
          BY <3>2
        <4> QED
          BY <3>3, <4>1
      <3>6. m - (j - 1) \in 1 .. m /\ m - (j - 1) > 1 /\ m - (j - 1) - 1 = m - j
        BY <3>3, <3>4
      <3>7. at[m - (j - 1)] \in 1 .. m /\ at[m - (j - 1)] <= m - (j - 1)
        BY <3>4, <3>5, <3>6
      <3>8. at[m - j] < at[m - (j - 1)]
        BY <3>6
      <3> QED
        BY <3>3, <3>4, <3>7, <3>8
    <2> SUFFICES ASSUME NEW k \in 1 .. m, at[k] > k PROVE FALSE
      OBVIOUS
    <2>2. m - k \in 0 .. m - 1 /\ m - (m - k) = k
      OBVIOUS
    <2>3. m - k \in High
      BY <2>2
    <2> QED
      BY <2>1, <2>3
  <1> QED
    BY <1>1, <1>2

(* What is loaded from a compact file is compact: fewer lines at most, and *)
(* a line the user typed, where it stands alone, follows what it followed. *)
LEMMA CompactLoaded ==
  ASSUME NEW f \in Seq(Entries), Compact(f),
         NEW h \in [1 .. Cardinality(LineEnds(f)) -> Entries], Loads(f, h)
  PROVE  h \in Seq(Entries) /\ Compact(h)
  <1>1. /\ Len(f) \in Nat /\ DOMAIN f = 1 .. Len(f) /\ LineEnds(f) \subseteq 1 .. Len(f)
        /\ \A k \in 1 .. Len(f) : f[k] \in Entries
    BY LenProperties DEF LineEnds
  <1> DEFINE m == Cardinality(LineEnds(f))
  <1>2. m \in Nat /\ m <= Len(f)
    <2>1. IsFiniteSet(1 .. Len(f)) /\ Cardinality(1 .. Len(f)) = Len(f)
      BY <1>1, UpTo
    <2>2. Cardinality(LineEnds(f)) <= Cardinality(1 .. Len(f)) /\ Cardinality(LineEnds(f)) \in Nat
      BY <1>1, <2>1, FS_Subset, FS_CardinalityType
    <2> QED
      BY <2>1, <2>2
  <1>3. h \in [1 .. m -> Entries]
    OBVIOUS
  <1> HIDE DEF m
  <1>4. h \in Seq(Entries) /\ Len(h) = m /\ DOMAIN h = 1 .. m
    BY <1>2, <1>3
  <1>5. /\ Len(f) <= MAXHISTORY
        /\ \A k \in 1 .. Len(f) : (f[k] \in Lines => Kind(f[k]) \notin Unsaved)
        /\ \A k \in 1 .. Len(f) : k > 1 /\ f[k] \in Lines => f[k] # f[k - 1]
    BY CompactFacts
  <1>6. PICK at \in [1 .. m -> LineEnds(f)] :
          /\ \A k \in 1 .. m : k > 1 => at[k - 1] < at[k]
          /\ \A k \in 1 .. m :
               LET from == IF k = 1 THEN 1 ELSE at[k - 1] + 1
               IN  IF from = at[k] THEN h[k] = f[at[k]]
                   ELSE h[k] \in IF f[at[k]] \in Fragments THEN Fragments ELSE Fused
    BY <1>4 DEF Loads
  <1>7. \A k \in 1 .. m : /\ at[k] \in 1 .. Len(f)
                         /\ (h[k] \in Lines => h[k] = f[at[k]])
                         /\ (h[k] \in Lines /\ k > 1 => at[k - 1] = at[k] - 1)
    <2> TAKE k \in 1 .. m
    <2>1. at[k] \in 1 .. Len(f) /\ (k > 1 => at[k - 1] \in 1 .. Len(f))
      <3>1. k > 1 => k - 1 \in 1 .. m
        BY <1>2
      <3> QED
        BY <1>1, <3>1
    <2>2. CASE h[k] \in Lines
      <3>1. h[k] \notin Fragments /\ h[k] \notin Fused
        BY <2>2
      <3>2. (IF k = 1 THEN 1 ELSE at[k - 1] + 1) = at[k] /\ h[k] = f[at[k]]
        BY <1>6, <3>1
      <3> QED
        BY <2>1, <3>2
    <2> QED
      BY <2>1, <2>2
  <1>8. Len(h) <= MAXHISTORY
    BY <1>1, <1>2, <1>4, <1>5
  <1>9. \A k \in 1 .. Len(h) : (h[k] \in Lines => Kind(h[k]) \notin Unsaved)
    <2> TAKE k \in 1 .. Len(h)
    <2>1. k \in 1 .. m /\ at[k] \in 1 .. Len(f)
      BY <1>4, <1>7
    <2> QED
      BY <1>5, <1>7, <2>1
  <1>10. \A k \in 1 .. Len(h) : k > 1 /\ h[k] \in Lines => h[k] # h[k - 1]
    <2> SUFFICES ASSUME NEW k \in 1 .. m, k > 1, h[k] \in Lines, h[k] = h[k - 1]
                 PROVE  FALSE
      BY <1>4
    <2>1. k - 1 \in 1 .. m
      BY <1>2
    <2>2. h[k] = f[at[k]] /\ h[k - 1] = f[at[k - 1]] /\ at[k - 1] = at[k] - 1
      <3>1. h[k] = f[at[k]] /\ at[k - 1] = at[k] - 1
        BY <1>7
      <3>2. h[k - 1] \in Lines
        OBVIOUS
      <3>3. h[k - 1] = f[at[k - 1]]
        BY <1>7, <2>1, <3>2
      <3> QED
        BY <3>1, <3>3
    <2>3. at[k] \in 1 .. Len(f) /\ at[k - 1] \in 1 .. Len(f)
      BY <1>7, <2>1
    <2>4. at[k] > 1
      BY <1>1, <2>2, <2>3
    <2>5. f[at[k]] = f[at[k] - 1] /\ f[at[k]] \in Lines
      BY <2>2
    <2> QED
      BY <1>5, <2>3, <2>4, <2>5
  <1>11. Compact(h)
    BY <1>4, <1>8, <1>9, <1>10, CompactFacts
  <1> QED
    BY <1>4, <1>11

(* A file without a fragment, but perhaps at its end, is loaded as it is:  *)
(* what HistorySound says of the file is then true of the next shell.      *)
LEMMA WholeLoaded ==
  ASSUME NEW f \in Seq(Entries), \A k \in 1 .. Len(f) - 1 : f[k] \notin Fragments,
         NEW h \in [1 .. Cardinality(LineEnds(f)) -> Entries], Loads(f, h)
  PROVE  h = f
  <1>1. Len(f) \in Nat /\ DOMAIN f = 1 .. Len(f)
    BY LenProperties
  <1>2. LineEnds(f) = 1 .. Len(f)
    BY <1>1 DEF LineEnds
  <1> DEFINE m == Len(f)
  <1>3. Cardinality(LineEnds(f)) = m
    BY <1>1, <1>2, UpTo
  <1>4. PICK at \in [1 .. m -> 1 .. m] :
          /\ \A k \in 1 .. m : k > 1 => at[k - 1] < at[k]
          /\ \A k \in 1 .. m :
               (IF k = 1 THEN 1 ELSE at[k - 1] + 1) = at[k] => h[k] = f[at[k]]
    BY <1>2, <1>3 DEF Loads
  <1>5. m \in Nat
    BY <1>1
  <1> HIDE DEF m
  <1>6. \A k \in 1 .. m : at[k] = k
    BY <1>4, <1>5, InOrder
  <1>7. \A k \in 1 .. m : h[k] = f[k]
    <2> TAKE k \in 1 .. m
    <2>1. k > 1 => k - 1 \in 1 .. m
      BY <1>5
    <2>2. (IF k = 1 THEN 1 ELSE at[k - 1] + 1) = at[k]
      BY <1>5, <1>6, <2>1
    <2> QED
      BY <1>4, <1>6, <2>2
  <1>8. h = [k \in 1 .. m |-> h[k]] /\ f = [k \in 1 .. m |-> f[k]]
    <2>1. h \in [1 .. m -> Entries]
      BY <1>3
    <2>2. f \in [1 .. m -> Entries]
      BY <1>1, LenProperties DEF m
    <2> QED
      BY <2>1, <2>2
  <1> QED
    BY <1>7, <1>8

LEMMA StartStep ==
  ASSUME SInv, NEW d \in Dirs, Start(d)
  PROVE  SInv'
  <1>1. PICK h \in [1 .. Cardinality(LineEnds(file[d])) -> Entries] :
          Loads(file[d], h) /\ history' = h /\ file' = [file EXCEPT ![d] = h]
    BY DEF Start
  <1>2. pc' = "prompt" /\ line' = NoLine /\ cwd' = d /\ kept' = d
    BY DEF Start
  <1>3. h \in Seq(Entries) /\ Compact(h)
    BY <1>1, CompactLoaded DEF SInv, ShellTypes, Kept
  <1>4. ShellTypes'
    BY <1>1, <1>2, <1>3 DEF SInv, ShellTypes
  <1>5. Compact(history') /\ (\A x \in Dirs : Compact(file'[x])) /\ file'[d] = history'
    BY <1>1, <1>3 DEF SInv, ShellTypes, Kept
  <1>6. Kept'
    BY <1>2, <1>5 DEF Kept, Saved
  <1> QED
    BY <1>4, <1>6 DEF SInv

LEMMA ReadLineStep ==
  ASSUME SInv, NEW l \in Lines, ReadLine(l)
  PROVE  SInv'
  BY LineMoves DEF ReadLine, SInv, ShellTypes, Saved, Entries

(* What a killed shell has written is compact, with a torn end or without. *)
LEMMA WrittenCompact ==
  ASSUME history \in Seq(Entries), Compact(history),
         NEW k \in 0 .. Len(history), NEW part \in Written(k)
  PROVE  part \in Seq(Entries) /\ Compact(part)
  <1> DEFINE whole == SubSeq(history, 1, k)
  <1>1. whole \in Seq(Entries) /\ Compact(whole)
    BY CompactPrefix
  <1>2. CASE part = whole
    BY <1>1, <1>2
  <1>3. CASE k < Len(history) /\ \E t \in Fragments : part = Append(whole, t)
    <2>1. PICK t \in Fragments : part = Append(whole, t)
      BY <1>3
    <2>2. k \in Nat /\ Len(history) \in Nat /\ Len(history) <= MAXHISTORY
          /\ \A j \in 1 .. k : history[j] \in Entries
      BY CompactFacts, LenProperties
    <2>3. Len(whole) = k
      BY <2>2, SubSeqProperties
    <2>4. t \in Entries /\ t \notin Lines
      BY DEF Entries
    <2> HIDE DEF whole
    <2>5. Len(whole) < MAXHISTORY
      BY <1>3, <2>2, <2>3, PipeShellAssumption
    <2>6. Append(whole, t) \in Seq(Entries) /\ Compact(Append(whole, t))
      BY <1>1, <2>4, <2>5, CompactAppend
    <2> QED
      BY <2>1, <2>6
  <1>4. \/ part = whole
        \/ k < Len(history) /\ part \in {Append(whole, t) : t \in Fragments}
    BY DEF Written
  <1> HIDE DEF whole
  <1>5. CASE k < Len(history) /\ part \in {Append(whole, t) : t \in Fragments}
    <2>1. \E t \in Fragments : part = Append(whole, t)
      BY <1>5
    <2> QED
      BY <1>3, <1>5, <2>1
  <1> QED
    BY <1>2, <1>4, <1>5

LEMMA KilledStep ==
  ASSUME SInv, Killed
  PROVE  SInv'
  <1>1. pc' = "off" /\ UNCHANGED <<line, history, cwd, kept>>
    BY DEF Killed
  <1>2. file' \in [Dirs -> Seq(Entries)] /\ \A d \in Dirs : Compact(file'[d])
    <2>1. CASE file' = file
      BY <2>1 DEF SInv, ShellTypes, Kept
    <2>2. CASE \E k \in 0 .. Len(history) : \E part \in Written(k) :
                  file' = [file EXCEPT ![cwd] = part]
      <3>1. PICK k \in 0 .. Len(history) :
                \E part \in Written(k) : file' = [file EXCEPT ![cwd] = part]
        BY <2>2
      <3> PICK part \in Written(k) : file' = [file EXCEPT ![cwd] = part]
        BY <3>1
      <3>2. part \in Seq(Entries) /\ Compact(part)
        BY WrittenCompact DEF SInv, ShellTypes, Kept
      <3> QED
        BY <3>2 DEF SInv, ShellTypes, Kept
    <2> QED
      BY <2>1, <2>2 DEF Killed
  <1>3. ShellTypes'
    BY <1>1, <1>2 DEF SInv, ShellTypes
  <1>4. Compact(history')
    BY <1>1 DEF SInv, Kept
  <1>5. Kept'
    BY <1>1, <1>2, <1>4 DEF Kept, Saved
  <1> QED
    BY <1>3, <1>5 DEF SInv

(* The line !! or !n becomes is in the history: it is no recall, and eval  *)
(* does not come back here with it.                                        *)
LEMMA RecalledStep ==
  ASSUME SInv, NEW k \in 0 .. MAXHISTORY + 1, Recalled(k)
  PROVE  SInv'
  <1>1. pc = "eval" /\ UNCHANGED <<history, file, cwd, kept>> /\ pc' \in {"eval", "prompt"}
    BY DEF Recalled, Eval
  <1>2. pc' = "eval" => line' \in Entries
    <2>1. history \in Seq(Entries)
      BY DEF SInv, ShellTypes
    <2>2. k \in 1 .. Len(history) => history[k] \in Entries
      BY <2>1
    <2>3. pc' = "eval" => k \in 1 .. Len(history) /\ line' = history[k]
      BY DEF Recalled
    <2> QED
      BY <2>2, <2>3
  <1>3. line' = line \/ line' \in Entries
    BY <1>1, <1>2 DEF Recalled
  <1> QED
    BY <1>1, <1>2, <1>3, LineMoves DEF SInv, ShellTypes, Saved

(* eval sends the line on to be saved.                                     *)
LEMMA EvalStep ==
  ASSUME SInv, Ignore \/ ExitCommand \/ Cd \/ Other
  PROVE  SInv'
  <1>1. pc = "eval" /\ UNCHANGED <<line, history, file, kept>> /\ cwd' \in Dirs
    BY DEF Ignore, ExitCommand, Cd, Other, Eval, SInv, ShellTypes
  <1>2. \/ pc' \in {"prompt", "off"}
        \/ pc' = "save" /\ Kind(line) \in {"cd", "history", "run", "pipe", "self"}
    BY DEF Ignore, ExitCommand, Cd, Other, Eval
  <1>3. line \in Entries
    BY <1>1 DEF SInv, Kept
  <1> QED
    BY <1>1, <1>2, <1>3, LineMoves DEF Saved, Unsaved, Recalls

LEMMA SaveNothingStep ==
  ASSUME SInv, SaveNothing
  PROVE  SInv'
  <1>1. /\ pc = "save" /\ pc' = "act" /\ Repeated /\ UNCHANGED <<line, history, file, cwd, kept>>
    BY DEF SaveNothing
  <1>2. Repeated'
    BY <1>1 DEF Repeated
  <1>3. line \in Entries /\ Kind(line) \notin Unsaved /\ cwd \in Dirs
    BY <1>1 DEF SInv, Kept, Saved, ShellTypes
  <1> QED
    BY <1>1, <1>2, <1>3, LineMoves

LEMMA SaveEntryStep ==
  ASSUME SInv, SaveEntry
  PROVE  SInv'
  <1>1. pc = "save" /\ ~Repeated /\ history' = Pushed(history, line) /\ UNCHANGED <<line, cwd>>
    BY DEF SaveEntry
  <1>2. /\ line \in Entries /\ Kind(line) \notin Unsaved
        /\ history \in Seq(Entries) /\ Compact(history)
        /\ history # <<>> => Last(history) # line
    BY <1>1 DEF SInv, Kept, Saved, ShellTypes, Repeated
  <1>3. history' \in Seq(Entries) /\ Compact(history') /\ history' # <<>> /\ Last(history') = line'
    BY <1>1, <1>2, CompactPushed
  <1>4. Repeated'
    BY <1>3 DEF Repeated
  <1>5. \/ pc' = "write" /\ file' = [file EXCEPT ![cwd] = <<>>] /\ kept' = kept
        \/ pc' = "act" /\ kept' = Nowhere /\ file' = file
    BY DEF SaveEntry
  <1>6. file' \in [Dirs -> Seq(Entries)] /\ \A d \in Dirs : Compact(file'[d])
    BY <1>5, CompactEmpty DEF SInv, ShellTypes, Kept
  <1>7. ShellTypes'
    BY <1>1, <1>3, <1>5, <1>6 DEF SInv, ShellTypes
  <1>8. Kept'
    BY <1>1, <1>2, <1>3, <1>4, <1>5, <1>6 DEF Kept, Saved
  <1> QED
    BY <1>7, <1>8 DEF SInv

(* The file is the history again, in the directory the shell is in.        *)
LEMMA WriteHistoryStep ==
  ASSUME SInv, WriteHistory
  PROVE  SInv'
  <1>1. /\ pc = "write" /\ pc' = "act" /\ UNCHANGED <<line, history, cwd>> /\ kept' = cwd
        /\ file' = [file EXCEPT ![cwd] = history]
    BY DEF WriteHistory
  <1>2. /\ file' \in [Dirs -> Seq(Entries)] /\ \A d \in Dirs : Compact(file'[d])
        /\ file'[cwd] = history /\ Compact(history) /\ cwd \in Dirs
    BY <1>1 DEF SInv, ShellTypes, Kept
  <1>3. Repeated'
    BY <1>1 DEF SInv, Kept, Saved, Repeated
  <1>4. ShellTypes'
    BY <1>1, <1>2 DEF SInv, ShellTypes
  <1>5. line \in Entries /\ Kind(line) \notin Unsaved
    BY <1>1 DEF SInv, Kept, Saved
  <1>6. Kept'
    BY <1>1, <1>2, <1>3, <1>5 DEF Kept, Saved
  <1> QED
    BY <1>4, <1>6 DEF SInv

(* The command is executed, or the session ends.                           *)
LEMMA ActStep ==
  ASSUME SInv,
         \/ EndOfFile \/ BuiltinDone \/ Run \/ RunDone \/ RunPipeline \/ PipelineDone \/ SelfCall
  PROVE  SInv'
  <1>1. /\ UNCHANGED <<line, history, file, cwd, kept>> /\ pc \notin {"off", "write"}
        /\ pc' \in {"off", "prompt"} \/ (pc = "act" /\ pc' \in {"run", "wait"})
    BY DEF EndOfFile, BuiltinDone, Run, RunDone, RunPipeline, PipelineDone, SelfCall
  <1>2. cwd' \in Dirs /\ line' \in Entries \cup {NoLine}
    BY <1>1 DEF SInv, ShellTypes
  <1>3. CASE pc' \in {"off", "prompt"}
    BY <1>1, <1>2, <1>3, LineMoves DEF Saved
  <1>4. CASE pc = "act" /\ pc' \in {"run", "wait"}
    <2>1. line \in Entries /\ Kind(line) \notin Unsaved /\ Repeated
      BY <1>4 DEF SInv, Kept, Saved
    <2>2. Repeated'
      BY <1>1, <2>1 DEF Repeated
    <2> QED
      BY <1>1, <1>2, <1>4, <2>1, <2>2, LineMoves
  <1> QED
    BY <1>1, <1>3, <1>4

LEMMA ShellStays ==
  ASSUME SInv, UNCHANGED shellVars
  PROVE  SInv'
  <1>1. UNCHANGED <<pc, line, history, file, cwd, kept>>
    BY DEF shellVars
  <1>2. Repeated' <=> Repeated
    BY <1>1 DEF Repeated
  <1>3. ShellTypes'
    BY <1>1 DEF SInv, ShellTypes
  <1>4. Kept'
    BY <1>1, <1>2 DEF SInv, Kept
  <1> QED
    BY <1>3, <1>4 DEF SInv

----------------------------------------------------------------------------
(* Theorems *)

LEMMA InitIInv == Init => IInv
  <1> SUFFICES ASSUME Init
               PROVE  IInv
    OBVIOUS
  <1>1. PInv
    <2>1. /\ sup = "none" /\ n = 0 /\ i = 0
          /\ proc = [c \in Commands |-> "unborn"]
          /\ ends = [p \in Procs |-> {}]
          /\ stdin = [c \in Commands |-> 0]
          /\ stdout = [c \in Commands |-> 0]
          /\ pipe = [j \in Pipes |-> <<>>]
          /\ held = [c \in Commands |-> 0]
          /\ made = 0
          /\ out = <<>>
      BY DEF Init, Idle
    <2>2. <<>> \in Seq(1 .. Items) /\ Len(<<>>) = 0 /\ 0 \in 0 .. Items
      BY EmptySeq
    <2>3. PipeTypes
      <3>1. \A j \in Pipes : pipe[j] = <<>>
        BY <2>1
      <3>2. \A j \in Pipes : Len(pipe[j]) <= Capacity
        BY <2>2, <3>1
      <3> QED
        BY <2>1, <2>2, <3>2 DEF PipeTypes
    <2>4. Wired
      <3>1. 0 \in Procs /\ Commands \subseteq Procs
        BY DEF Procs, Commands
      <3> QED
        BY <2>1, <3>1 DEF Wired
    <2>5. Waited
      BY <2>1 DEF Waited
    <2>6. Flow
      <3> DEFINE none == [c \in Commands |-> 0]
      <3>1. none \in [Commands -> Nat] /\ \A c \in Commands : none[c] = 0 /\ held[c] = 0
        BY <2>1
      <3>2. 1 \in Commands /\ none[1] = 0 /\ Holds(1) = 0
        BY <3>1 DEF Commands, Holds
      <3> HIDE DEF none
      <3>3. \A c \in Commands : c >= 1
        BY DEF Commands
      <3>4. \A j \in Pipes : ~(j < n)
        BY <2>1 DEF Pipes
      <3>5. Flows(none)
        <4>1. \A c \in Commands : ~(1 < c /\ c <= n)
          BY <2>1, <3>3 DEF Commands
        <4>2. n = 0 /\ out = <<>> /\ made = none[1] + Holds(1)
          BY <2>1, <3>2
        <4>3. \A k \in 1 .. Len(out) : out[k] = k
          BY <2>2, <4>2
        <4> QED
          BY <3>1, <3>4, <4>1, <4>2, <4>3 DEF Flows
      <3> QED
        BY <3>1, <3>5 DEF Flow
    <2> QED
      BY <2>3, <2>4, <2>5, <2>6 DEF PInv
  <1>2. ShellTypes
    BY CompactEmpty DEF Init, ShellTypes
  <1>3. Kept
    BY CompactEmpty DEF Init, Kept, Saved
  <1> QED
    BY <1>1, <1>2, <1>3 DEF IInv, SInv

LEMMA IInvStep == IInv /\ [Next]_vars => IInv'
  <1> SUFFICES ASSUME IInv, [Next]_vars
               PROVE  IInv'
    OBVIOUS
  <1> USE DEF IInv
  <1>1. CASE \E d \in Dirs : Start(d)
    <2>1. EndPipeline
      BY <1>1 DEF Start
    <2> QED
      BY <1>1, <2>1, StartStep, EndPipelineStep
  <1>2. CASE \E l \in Lines : ReadLine(l)
    BY <1>2, ReadLineStep, PipelineStays DEF ReadLine
  <1>3. CASE EndOfFile
    BY <1>3, ActStep, PipelineStays DEF EndOfFile
  <1>4. CASE Killed
    BY <1>4, KilledStep, PipelineStays DEF Killed
  <1>5. CASE Ignore \/ ExitCommand \/ Cd \/ Other
    BY <1>5, EvalStep, PipelineStays DEF Ignore, ExitCommand, Cd, Other
  <1>6. CASE \E k \in 0 .. MAXHISTORY + 1 : Recalled(k)
    BY <1>6, RecalledStep, PipelineStays DEF Recalled
  <1>7. CASE SaveNothing
    BY <1>7, SaveNothingStep, PipelineStays DEF SaveNothing
  <1>8. CASE SaveEntry
    BY <1>8, SaveEntryStep, PipelineStays DEF SaveEntry
  <1>9. CASE WriteHistory
    BY <1>9, WriteHistoryStep, PipelineStays DEF WriteHistory
  <1>10. CASE BuiltinDone \/ Run \/ RunDone \/ SelfCall
    BY <1>10, ActStep, PipelineStays DEF BuiltinDone, Run, RunDone, SelfCall
  <1>11. CASE RunPipeline
    <2>1. line \in Entries /\ StartPipeline(NumCommands(line))
      BY <1>11 DEF RunPipeline, SInv, Kept, Saved
    <2> QED
      BY <1>11, <2>1, ActStep, StartPipelineStep
  <1>12. CASE PipelineDone
    <2>1. EndPipeline
      BY <1>12 DEF PipelineDone
    <2> QED
      BY <1>12, <2>1, ActStep, EndPipelineStep
  <1>13. CASE PipelineStep /\ UNCHANGED shellVars
    BY <1>13, PipelineSteps, ShellStays
  <1>14. CASE UNCHANGED vars
    BY <1>14, PipelineStays, ShellStays DEF vars
  <1> QED
    BY <1>1, <1>2, <1>3, <1>4, <1>5, <1>6, <1>7, <1>8, <1>9, <1>10, <1>11, <1>12, <1>13, <1>14
    DEF Next, User, ShellStep

(* The state of the pipeline, its processes and their data, and that of the*)
(* shell and its history stay those of the invariant, whatever the user    *)
(* types and wherever shells are killed and started.                       *)
THEOREM IInvHolds == Spec => []IInv
  <1> QED
    BY InitIInv, IInvStep, PTL DEF Spec

(* The state of eval, execute_piped_commands and the history keeps its     *)
(* types: the loop indices within the line's commands, the pipes within    *)
(* their capacity, the history made of lines.                              *)
THEOREM TypeCorrect == Spec => []TypeOK
  <1>1. IInv => TypeOK
    <2> SUFFICES ASSUME IInv
                 PROVE  TypeOK
      OBVIOUS
    <2>1. PipeTypes /\ ShellTypes
      BY DEF IInv, PInv, SInv
    <2>2. {stdin[c] : c \in Commands} \cup {stdout[c] : c \in Commands} \subseteq Pipes \cup {0}
      BY <2>1 DEF PipeTypes
    <2> QED
      BY <2>1, <2>2 DEF PipeTypes, ShellTypes, TypeOK
  <1> QED
    BY <1>1, IInvHolds, PTL

(* Whatever is typed, recalled with !! and !n, run in whatever directory   *)
(* and killed at whatever moment, with a torn line left behind or not, the *)
(* lines of the user stay in order in the history and on disk, and the     *)
(* history is what lies, entry after entry, where it was last stored.      *)
THEOREM HistoryIsSound == Spec => []HistorySound
  <1>1. IInv => HistorySound
    BY DEF IInv, SInv, Kept, Saved, HistorySound
  <1> QED
    BY <1>1, IInvHolds, PTL

(* A shell started where the history was last stored finds it again, unless*)
(* a fragment has come to stand before the last entry.                     *)
Found == pc \in {"prompt", "act", "run", "wait"} /\ kept # Nowhere
         /\ (\A k \in 1 .. Len(history) - 1 : history[k] \notin Fragments)
    => \A h \in [1 .. Cardinality(LineEnds(file[kept])) -> Entries] :
          Loads(file[kept], h) => h = history
THEOREM HistoryIsFound == Spec => []Found
  <1>1. IInv => Found
    <2> SUFFICES ASSUME IInv, pc \in {"prompt", "act", "run", "wait"}, kept # Nowhere,
                        \A k \in 1 .. Len(history) - 1 : history[k] \notin Fragments,
                        NEW h \in [1 .. Cardinality(LineEnds(file[kept])) -> Entries],
                        Loads(file[kept], h)
                 PROVE  h = history
      BY DEF Found
    <2>1. file[kept] = history /\ history \in Seq(Entries)
      BY DEF IInv, SInv, Kept, ShellTypes
    <2> QED
      BY <2>1, WholeLoaded
  <1> QED
    BY <1>1, IInvHolds, PTL

(* A pipeline of any number of commands, any of which may die at any time, *)
(* shows the first items in their order; when its supervisor has exited all*)
(* its children have been waited for and all ends of pipes are closed.     *)
THEOREM PipelineIsSound == Spec => []PipelineSound
  <1>1. IInv => PipelineSound
    <2> SUFFICES ASSUME IInv
                 PROVE  PipelineSound
      OBVIOUS
    <2>1. PipeTypes /\ Wired /\ Waited /\ Flow
      BY DEF IInv, PInv
    <2>2. \A k \in DOMAIN out : out[k] = k
      <3>1. PICK passed \in [Commands -> Nat] : Flows(passed)
        BY <2>1 DEF Flow
      <3>2. out \in Seq(1 .. Items)
        BY <2>1 DEF PipeTypes
      <3>3. DOMAIN out = 1 .. Len(out)
        BY <3>2, LenProperties
      <3> QED
        BY <3>1, <3>3 DEF Flows
    <2>3. sup = "exited" => \A c \in 1 .. n : proc[c] = "gone" /\ ends[c] = {}
      <3> SUFFICES ASSUME sup = "exited", NEW c \in 1 .. n
                   PROVE  proc[c] = "gone" /\ ends[c] = {}
        OBVIOUS
      <3>1. proc[c] = "gone"
        BY <2>1 DEF Waited, Gone
      <3>2. c \in Commands
        BY <2>1 DEF PipeTypes, Commands
      <3> QED
        BY <2>1, <3>1, <3>2 DEF Wired
    <2> QED
      BY <2>1, <2>2, <2>3 DEF Wired, PipelineSound
  <1> QED
    BY <1>1, IInvHolds, PTL

===============================================================================
