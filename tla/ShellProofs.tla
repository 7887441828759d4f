----------------------------- MODULE ShellProofs ------------------------------
(***************************************************************************)
(* Proofs about the jobs of the phase 3 shell, for any size of the table,  *)
(* any number of children and any number of Ctrl-Z: no child gets out of   *)
(* reach of fg, bg and kill, and the table is right about those it names.  *)
(***************************************************************************)
EXTENDS Shell, CountingProofs

USE ShellAssumption

Occupied == {i \in Slots : jobs[i].pid # 0}

(* The shell has started p and not yet learned what became of it: it waits *)
(* for it for the first time, or is about to enter it in the table.        *)
Fresh(p) == pc \in {"call", "blocked", "add"} /\ mode # "fg" /\ cur = p

(* The children the shell is through with, up to a later fg.               *)
Settled == {p \in Children : state[p] # "unborn" /\ ~Fresh(p)}

(* Entries name settled children, each at most one.                        *)
Tabled ==
    /\ \A i \in Slots : jobs[i].pid # 0 => jobs[i].pid \in Settled
    /\ \A i, j \in Slots : jobs[i].pid = jobs[j].pid /\ jobs[i].pid # 0 => i = j

(* job_count is never lowered: it is no less than the entries in use, of   *)
(* which add_job takes the lowest, so ids stay within it; and no child is  *)
(* counted twice.                                                          *)
Counted == Cardinality(Occupied) <= job_count /\ job_count <= Cardinality(Settled)

(* NoJobLost, for every state of the shell, and without what fg waits for: *)
(* that is in the table all along.                                         *)
Reached == \A p \in Alive : Fresh(p) \/ p \in dropped \/ \E i \in Entries(p) : i <= job_count

(* What a call of waitpid is about.                                        *)
Waiting ==
    /\ mode = "fg" => /\ pc \in {"call", "blocked"}
                      /\ IF job \in Slots THEN jobs[job].pid = cur ELSE cur \notin Children
    /\ pc \in {"call", "blocked", "add"} /\ mode # "fg" => cur \in Children /\ state[cur] # "unborn"

(* The inductive invariant.                                                *)
IInv == TypeOK /\ Tabled /\ Counted /\ Reached /\ Waiting /\ StoppedIsStopped

----------------------------------------------------------------------------
(* Lemmas *)

(* Sets of children and of entries are finite.                             *)
LEMMA ShellSets ==
  /\ \A S \in SUBSET Children : IsFiniteSet(S) /\ Cardinality(S) \in 0 .. MaxChildren
  /\ \A S \in SUBSET Slots : IsFiniteSet(S) /\ Cardinality(S) \in Nat
  <1>1. ASSUME NEW n \in Nat, NEW S \in SUBSET (1 .. n)
        PROVE  IsFiniteSet(S) /\ Cardinality(S) \in 0 .. n
    <2>1. IsFiniteSet(1 .. n) /\ Cardinality(1 .. n) = n
      BY FS_Interval
    <2>2. IsFiniteSet(S) /\ Cardinality(S) <= n /\ Cardinality(S) \in Nat
      BY <2>1, FS_Subset, FS_CardinalityType
    <2> QED
      BY <2>2
  <1>2. \A S \in SUBSET Children : IsFiniteSet(S) /\ Cardinality(S) \in 0 .. MaxChildren
    BY <1>1 DEF Children
  <1>3. \A S \in SUBSET Slots : IsFiniteSet(S) /\ Cardinality(S) \in 0 .. MAXJOBS
    BY <1>1 DEF Slots
  <1> QED
    BY <1>2, <1>3

LEMMA FewerChildren ==
  ASSUME NEW S \in SUBSET Children, NEW T \in SUBSET S
  PROVE  Cardinality(T) <= Cardinality(S)
  BY ShellSets, FS_Subset

LEMMA FewerSlots ==
  ASSUME NEW S \in SUBSET Slots, NEW T \in SUBSET S
  PROVE  Cardinality(T) <= Cardinality(S)
  BY ShellSets, FS_Subset

(* The entry add_job takes is below every other free one, so its id is at  *)
(* most one more than the number of entries in use.                        *)
LEMMA FirstFree ==
  ASSUME TypeOK, Entries(0) # {}
  PROVE  /\ Min(Entries(0)) \in Slots /\ jobs[Min(Entries(0))].pid = 0
         /\ Min(Entries(0)) <= Cardinality(Occupied) + 1
  <1> DEFINE k == Min(Entries(0))
  <1>1. Entries(0) \subseteq Nat
    BY DEF Entries, Slots
  <1>2. k \in Entries(0) /\ \A i \in Entries(0) : k <= i
    BY <1>1, MinIsLeast
  <1>3. k \in Slots /\ jobs[k].pid = 0 /\ k \in Nat \ {0}
    BY <1>2 DEF Entries, Slots
  <1> HIDE DEF k
  <1>4. 1 .. (k - 1) \subseteq Occupied
    <2> SUFFICES ASSUME NEW i \in 1 .. (k - 1) PROVE i \in Occupied
      OBVIOUS
    <2>1. i \in Slots /\ i < k
      BY <1>3 DEF Slots
    <2>2. i \notin Entries(0)
      BY <1>2, <1>3, <2>1
    <2> QED
      BY <2>1, <2>2 DEF Entries, Occupied
  <1>5. Cardinality(1 .. (k - 1)) = k - 1
    <2>1. k - 1 \in Nat
      BY <1>3
    <2> QED
      BY <2>1, FS_Interval
  <1>6. Cardinality(1 .. (k - 1)) <= Cardinality(Occupied)
    BY <1>4, FewerSlots DEF Occupied
  <1>7. Cardinality(Occupied) \in Nat
    BY ShellSets DEF Occupied
  <1>8. k <= Cardinality(Occupied) + 1
    BY <1>3, <1>5, <1>6, <1>7
  <1> QED
    BY <1>3, <1>8 DEF k

(* A step that enters nobody and clears no entry but of a dead child keeps *)
(* the table in order.                                                     *)
LEMMA TableStays ==
  ASSUME IInv, TypeOK', job_count' = job_count, dropped' = dropped,
         \A i \in Slots : \/ jobs'[i].pid = jobs[i].pid
                          \/ jobs'[i].pid = 0 /\ jobs[i].pid \notin Alive',
         \A p \in Children : state'[p] = "unborn" <=> state[p] = "unborn",
         Alive' \subseteq Alive,
         \A p \in Children : Fresh(p)' => Fresh(p),
         \A p \in Alive' : Fresh(p) => Fresh(p)'
  PROVE  Tabled' /\ Counted' /\ Reached' /\ EntriesKept
  <1>1. Settled \subseteq Settled'
    BY DEF Settled
  <1>2. Occupied' \subseteq Occupied
    BY DEF Occupied
  <1>3. Tabled'
    BY <1>1 DEF IInv, Tabled
  <1>4. Counted'
    <2>1. Cardinality(Occupied') <= Cardinality(Occupied) /\ Cardinality(Settled) <= Cardinality(Settled')
      BY <1>1, <1>2, FewerChildren, FewerSlots DEF Occupied, Settled
    <2>2. /\ Cardinality(Occupied) \in Nat /\ Cardinality(Occupied') \in Nat
          /\ Cardinality(Settled) \in Nat /\ Cardinality(Settled') \in Nat /\ job_count \in Nat
      BY ShellSets DEF Occupied, Settled, IInv, TypeOK
    <2>3. Cardinality(Occupied) <= job_count /\ job_count <= Cardinality(Settled)
      BY DEF IInv, Counted
    <2> QED
      BY <2>1, <2>2, <2>3 DEF Counted
  <1>5. Reached'
    <2> SUFFICES ASSUME NEW p \in Alive'
                 PROVE  Fresh(p)' \/ p \in dropped' \/ \E i \in Entries(p)' : i <= job_count'
      BY DEF Reached
    <2>1. p \in Children
      BY DEF Alive
    <2>2. CASE Fresh(p) \/ p \in dropped
      BY <2>2
    <2>3. CASE \E i \in Entries(p) : i <= job_count
      <3>1. PICK i \in Slots : jobs[i].pid = p /\ i <= job_count
        BY <2>3 DEF Entries
      <3>2. jobs'[i].pid = p
        BY <3>1
      <3> QED
        BY <3>1, <3>2 DEF Entries
    <2> QED
      BY <2>2, <2>3 DEF IInv, Reached
  <1>6. EntriesKept
    BY <1>3 DEF EntriesKept, Tabled
  <1> QED
    BY <1>3, <1>4, <1>5, <1>6

(* The entry of a child is the only one.                                   *)
LEMMA OnlyEntry ==
  ASSUME IInv, NEW i \in Slots, jobs[i].pid # 0, NEW j \in Slots, j # i
  PROVE  jobs[j].pid # jobs[i].pid
  BY DEF IInv, Tabled

(* No child becomes active: what the table calls Stopped stays so.         *)
LEMMA StoppedStays ==
  ASSUME IInv, Active' \subseteq Active,
         \A i \in Slots : jobs'[i].pid # 0 =>
            jobs'[i].pid = jobs[i].pid /\ jobs'[i].status = jobs[i].status
  PROVE  StoppedIsStopped'
  BY DEF IInv, StoppedIsStopped

(* What is written to an entry, in the table or behind it.                 *)
LEMMA Written ==
  ASSUME TypeOK, NEW i, NEW s \in {0, 1}
  PROVE  LET Table == [Slots -> [pid : Children \cup {0}, status : {0, 1}, state : {"none", "done"}]]
         IN  /\ Marked(i, s) \in Table /\ Cleared(i) \in Table
             /\ \A k \in Slots : k # i => Marked(i, s)[k] = jobs[k] /\ Cleared(i)[k] = jobs[k]
             /\ i \in Slots => /\ Marked(i, s)[i].pid = jobs[i].pid /\ Marked(i, s)[i].status = s
                               /\ Cleared(i)[i].pid = 0
  <1> DEFINE Record == [pid : Children \cup {0}, status : {0, 1}, state : {"none", "done"}]
  <1>1. \A k \in Slots : jobs[k] \in Record
    BY DEF TypeOK
  <1>2. \A k \in Slots : /\ [jobs[k] EXCEPT !.status = s] \in Record
                         /\ [jobs[k] EXCEPT !.status = s].pid = jobs[k].pid
                         /\ [jobs[k] EXCEPT !.status = s].status = s
    BY <1>1
  <1>3. \A k \in Slots : [jobs[k] EXCEPT !.pid = 0] \in Record /\ [jobs[k] EXCEPT !.pid = 0].pid = 0
    BY <1>1
  <1> HIDE DEF Record
  <1>4. Marked(i, s) \in [Slots -> Record] /\ Cleared(i) \in [Slots -> Record]
    BY <1>1, <1>2, <1>3 DEF Marked, Cleared
  <1>5. \A k \in Slots : k # i => Marked(i, s)[k] = jobs[k] /\ Cleared(i)[k] = jobs[k]
    BY DEF Marked, Cleared
  <1>6. i \in Slots => /\ Marked(i, s)[i] = [jobs[i] EXCEPT !.status = s]
                       /\ Cleared(i)[i] = [jobs[i] EXCEPT !.pid = 0]
    BY DEF Marked, Cleared
  <1> QED
    BY <1>2, <1>3, <1>4, <1>5, <1>6 DEF Record

(* fg's kill and bg's kill wake a stopped child as its entry is marked.    *)
LEMMA Continued ==
  ASSUME IInv, NEW i \in Slots, jobs[i].pid # 0, Continue(jobs[i].pid),
         jobs' = Marked(i, 0), UNCHANGED <<job_count, dropped>>
  PROVE  /\ jobs' \in [Slots -> [pid : Children \cup {0}, status : {0, 1}, state : {"none", "done"}]]
         /\ state' \in [Children -> {"unborn", "running", "stopped", "noticed", "piping",
                                     "frozen", "zombie", "gone"}]
         /\ pending' \in BOOLEAN
         /\ \A j \in Slots : jobs'[j].pid = jobs[j].pid
         /\ \A p \in Children : state'[p] = "unborn" <=> state[p] = "unborn"
         /\ Alive' = Alive
         /\ StoppedIsStopped'
  <1>1. TypeOK /\ 0 \in {0, 1}
    BY DEF IInv
  <1>3. jobs' \in [Slots -> [pid : Children \cup {0}, status : {0, 1}, state : {"none", "done"}]]
    BY <1>1, Written
  <1>4. /\ jobs'[i].pid = jobs[i].pid /\ jobs'[i].status = 0
        /\ \A j \in Slots : j # i => jobs'[j] = jobs[j]
    BY <1>1, Written
  <1>5. \A j \in Slots : jobs'[j].pid = jobs[j].pid
    BY <1>4
  <1>6. \A p \in Children : state'[p] = IF p = jobs[i].pid /\ p \in Stopped THEN "running" ELSE state[p]
    BY DEF Continue
  <1>7. state' \in [Children -> {"unborn", "running", "stopped", "noticed", "piping",
                                 "frozen", "zombie", "gone"}] /\ pending' \in BOOLEAN
    BY DEF Continue, IInv, TypeOK
  <1>8. /\ \A p \in Children : state'[p] = "unborn" <=> state[p] = "unborn"
        /\ Alive' = Alive
    BY <1>6 DEF Alive, Stopped
  <1>9. StoppedIsStopped'
    <2> SUFFICES ASSUME NEW j \in Slots, jobs'[j].pid # 0, jobs'[j].status = 1
                 PROVE  jobs'[j].pid \notin Active'
      BY DEF StoppedIsStopped
    <2>1. j # i
      BY <1>4
    <2>2. jobs'[j] = jobs[j] /\ jobs[j].pid # jobs[i].pid
      BY <1>4, <2>1, OnlyEntry
    <2> QED
      BY <1>6, <2>2 DEF IInv, StoppedIsStopped, Active
  <1> QED
    BY <1>3, <1>5, <1>7, <1>8, <1>9

(* Filling in an entry keeps its type.                                     *)
LEMMA EntryFilled ==
  ASSUME NEW P, NEW Q, NEW e \in [pid : P, status : {0, 1}, state : Q], NEW p \in P, NEW s \in {0, 1}
  PROVE  [e EXCEPT !.pid = p, !.status = s] \in [pid : P, status : {0, 1}, state : Q]
  OBVIOUS

(* add_job: the child is entered under an id within job_count, or dropped. *)
LEMMA Added ==
  ASSUME IInv, NEW p \in Children, Fresh(p), NEW s \in {0, 1}, add_job(p, s), pc' = "prompt",
         \A q \in Children : state'[q] = "unborn" <=> state[q] = "unborn",
         Alive' \subseteq Alive, Active' \subseteq Active, s = 1 => p \notin Active'
  PROVE  /\ Tabled' /\ Counted' /\ Reached' /\ EntriesKept /\ StoppedIsStopped'
         /\ jobs' \in [Slots -> [pid : Children \cup {0}, status : {0, 1}, state : {"none", "done"}]]
         /\ job_count' \in 0 .. MaxChildren /\ dropped' \subseteq Children
  <1> DEFINE k == Min(Entries(0))
             Record == [pid : Children \cup {0}, status : {0, 1}, state : {"none", "done"}]
  <1>1. p # 0 /\ p \notin Settled /\ cur = p /\ state[p] # "unborn"
    BY DEF Children, Settled, Fresh, IInv, Waiting
  <1>2. Settled \cup {p} \subseteq Settled' /\ \A q \in Children : ~Fresh(q)'
    BY <1>1 DEF Settled, Fresh
  <1>3. Cardinality(Settled) + 1 <= Cardinality(Settled')
    <2>1. IsFiniteSet(Settled) /\ Cardinality(Settled) \in Nat
      BY ShellSets DEF Settled
    <2>2. Cardinality(Settled \cup {p}) = Cardinality(Settled) + 1
      BY <1>1, <2>1, FS_AddElement
    <2>3. Cardinality(Settled \cup {p}) <= Cardinality(Settled')
      BY <1>2, FewerChildren DEF Settled
    <2> QED
      BY <2>2, <2>3
  <1>4. /\ Cardinality(Settled) \in Nat /\ Cardinality(Settled') \in 0 .. MaxChildren
        /\ Cardinality(Occupied) \in Nat /\ job_count \in Nat
        /\ Cardinality(Occupied) <= job_count /\ job_count <= Cardinality(Settled)
    <2>1. Settled \in SUBSET Children /\ Settled' \in SUBSET Children /\ Occupied \in SUBSET Slots
      BY DEF Settled, Occupied
    <2> QED
      BY <2>1, ShellSets DEF IInv, Counted, TypeOK
  <1>5. CASE Entries(0) = {}
    <2>1. dropped' = dropped \cup {p} /\ jobs' = jobs /\ job_count' = job_count
      BY <1>5 DEF add_job
    <2>2. Tabled'
      BY <1>2, <2>1 DEF IInv, Tabled
    <2>3. Counted'
      BY <1>3, <1>4, <2>1 DEF Counted, Occupied
    <2>4. Reached'
      <3> SUFFICES ASSUME NEW q \in Alive, q # p
                   PROVE  q \in dropped' \/ \E i \in Entries(q)' : i <= job_count'
        BY <2>1 DEF Reached
      <3>1. ~Fresh(q)
        BY <1>1 DEF Fresh
      <3> QED
        BY <2>1, <3>1 DEF IInv, Reached, Entries
    <2>5. EntriesKept /\ StoppedIsStopped'
      BY <2>1 DEF EntriesKept, IInv, Tabled, StoppedIsStopped
    <2> QED
      BY <2>1, <2>2, <2>3, <2>4, <2>5 DEF IInv, TypeOK
  <1>6. CASE Entries(0) # {}
    <2>1. k \in Slots /\ jobs[k].pid = 0 /\ k <= Cardinality(Occupied) + 1 /\ k \in Nat
      BY <1>6, FirstFree DEF IInv, Slots
    <2>2. /\ jobs' = [jobs EXCEPT ![k].pid = p, ![k].status = s]
          /\ job_count' = job_count + 1 /\ dropped' = dropped
      BY <1>6 DEF add_job
    <2> HIDE DEF k
    <2>3. /\ \A i \in Slots : jobs[i] \in Record
          /\ \A i \in Slots : jobs'[i] = IF i = k THEN [jobs[k] EXCEPT !.pid = p, !.status = s]
                                          ELSE jobs[i]
      BY <2>1, <2>2 DEF IInv, TypeOK
    <2>4. /\ jobs'[k].pid = p /\ jobs'[k].status = s
          /\ \A i \in Slots : i # k => jobs'[i] = jobs[i]
      BY <2>1, <2>3
    <2>5. jobs' \in [Slots -> Record]
      <3>1. DOMAIN jobs' = Slots /\ jobs' = [i \in Slots |-> jobs'[i]]
        BY <2>2 DEF IInv, TypeOK
      <3>2. \A i \in Slots : jobs'[i] \in Record
        <4>1. jobs[k] \in Record
          BY <2>1, <2>3
        <4>2. p \in Children \cup {0}
          OBVIOUS
        <4>3. [jobs[k] EXCEPT !.pid = p, !.status = s] \in Record
          BY <4>1, <4>2, EntryFilled
        <4> QED
          BY <2>3, <4>3
      <3> QED
        BY <3>1, <3>2
    <2>6. Tabled'
      <3>1. \A i \in Slots : jobs[i].pid # p
        BY <1>1 DEF IInv, Tabled
      <3> QED
        BY <1>2, <2>1, <2>4, <3>1 DEF IInv, Tabled
    <2>7. Counted'
      <3>1. Occupied' = Occupied \cup {k} /\ k \notin Occupied
        BY <1>1, <2>1, <2>4 DEF Occupied
      <3>2. IsFiniteSet(Occupied)
        BY ShellSets DEF Occupied
      <3>3. Cardinality(Occupied') = Cardinality(Occupied) + 1
        BY <3>1, <3>2, FS_AddElement
      <3> QED
        BY <1>3, <1>4, <2>2, <3>3 DEF Counted
    <2>8. Reached'
      <3> SUFFICES ASSUME NEW q \in Alive
                   PROVE  q \in dropped' \/ \E i \in Slots : jobs'[i].pid = q /\ i <= job_count'
        BY DEF Reached, Entries
      <3>1. CASE q = p
        <4>1. k <= job_count'
          BY <1>4, <2>1, <2>2
        <4> QED
          BY <2>1, <2>4, <3>1, <4>1
      <3>2. CASE q # p /\ q \in dropped
        BY <2>2, <3>2
      <3>3. CASE q # p /\ q \notin dropped
        <4>1. PICK i \in Slots : jobs[i].pid = q /\ i <= job_count
          BY <1>1, <3>3 DEF IInv, Reached, Fresh, Entries
        <4>2. i # k
          BY <2>1, <4>1 DEF Alive, Children
        <4>3. i <= job_count'
          BY <1>4, <2>2, <4>1 DEF Slots
        <4> QED
          BY <2>4, <4>1, <4>2, <4>3
      <3> QED
        BY <3>1, <3>2, <3>3
    <2>9. EntriesKept
      BY <2>1, <2>4, <2>6 DEF EntriesKept, Tabled
    <2>10. StoppedIsStopped'
      BY <2>1, <2>4 DEF IInv, StoppedIsStopped
    <2>11. job_count' \in 0 .. MaxChildren
      BY <1>3, <1>4, <2>2
    <2> QED
      BY <2>2, <2>5, <2>6, <2>7, <2>8, <2>9, <2>10, <2>11 DEF IInv, TypeOK
  <1> QED
    BY <1>5, <1>6

----------------------------------------------------------------------------
(* Children, terminal and handler *)

LEMMA ExitStep ==
  ASSUME IInv, NEW p \in Children, Exit(p)
  PROVE  IInv' /\ EntriesKept
  <1>1. /\ p \in Active /\ state[p] \in {"running", "piping"}
        /\ \A q \in Children : state'[q] = IF q = p THEN "zombie" ELSE state[q]
        /\ UNCHANGED <<pc, mode, cur, job, jobs, job_count, dropped, handling, stops>>
    BY DEF Exit, Active, mainVars, tableVars, IInv, TypeOK
  <1>2. TypeOK'
    BY DEF Exit, mainVars, tableVars, IInv, TypeOK
  <1>3. /\ \A q \in Children : state'[q] = "unborn" <=> state[q] = "unborn"
        /\ Alive' \subseteq Alive /\ Active' \subseteq Active
        /\ \A q \in Children : Fresh(q)' <=> Fresh(q)
    BY <1>1 DEF Alive, Active, Fresh
  <1>4. Tabled' /\ Counted' /\ Reached' /\ EntriesKept
    BY <1>1, <1>2, <1>3, TableStays DEF Alive
  <1>5. Waiting' /\ StoppedIsStopped'
    BY <1>1, <1>3, StoppedStays DEF IInv, TypeOK, Waiting
  <1> QED
    BY <1>2, <1>4, <1>5 DEF IInv

LEMMA CtrlZStep ==
  ASSUME IInv, CtrlZ
  PROVE  IInv' /\ EntriesKept
  <1>1. {i \in Slots : jobs[i].state = "foreground"} = {}
    BY DEF IInv, TypeOK
  <1>2. jobs' = jobs /\ job_count' = job_count /\ dropped' = dropped
    BY <1>1 DEF CtrlZ, sigtstp_handler, IInv, TypeOK
  <1>3. /\ UNCHANGED <<pc, mode, cur, job, handling>>
        /\ \A q \in Children : state'[q] = IF state[q] = "running" THEN "stopped"
                                          ELSE IF state[q] = "piping" THEN "frozen"
                                          ELSE state[q]
    BY DEF CtrlZ, mainVars
  <1>4. TypeOK'
    <2>1. stops' \in 0 .. MaxStops
      BY DEF CtrlZ, IInv, TypeOK
    <2>2. state' \in [Children -> {"unborn", "running", "stopped", "noticed", "piping",
                                   "frozen", "zombie", "gone"}] /\ pending' \in BOOLEAN
      BY DEF CtrlZ, IInv, TypeOK
    <2> QED
      BY <1>2, <1>3, <2>1, <2>2 DEF IInv, TypeOK
  <1>5. /\ \A q \in Children : state'[q] = "unborn" <=> state[q] = "unborn"
        /\ Alive' \subseteq Alive /\ Active' \subseteq Active
        /\ \A q \in Children : Fresh(q)' <=> Fresh(q)
    BY <1>3 DEF Alive, Active, Fresh
  <1>6. Tabled' /\ Counted' /\ Reached' /\ EntriesKept
    BY <1>2, <1>4, <1>5, TableStays DEF Alive
  <1>7. Waiting' /\ StoppedIsStopped'
    BY <1>2, <1>3, <1>5, StoppedStays DEF IInv, TypeOK, Waiting
  <1> QED
    BY <1>4, <1>6, <1>7 DEF IInv

LEMMA HandlerStep ==
  ASSUME IInv, Handler
  PROVE  IInv' /\ EntriesKept
  <1>1. CASE HandlerStart \/ HandlerEnd
    <2> USE <1>1 DEF HandlerStart, HandlerEnd, mainVars, tableVars
    <2>1. TypeOK'
      BY DEF IInv, TypeOK
    <2>2. /\ UNCHANGED <<state, mode, cur, job, jobs, job_count, dropped>>
          /\ pc' = pc \/ (pc = "blocked" /\ pc' = "call")
      <3>1. CASE HandlerStart
        BY <3>1
      <3>2. CASE HandlerEnd
        BY <3>2
      <3> QED
        BY <1>1, <3>1, <3>2
    <2>3. \A q \in Children : Fresh(q)' <=> Fresh(q)
      BY <2>2 DEF Fresh
    <2>4. Tabled' /\ Counted' /\ Reached' /\ EntriesKept
      BY <2>1, <2>2, <2>3, TableStays DEF Alive
    <2>5. Waiting' /\ StoppedIsStopped'
      BY <2>2 DEF IInv, Waiting, StoppedIsStopped, Active
    <2> QED
      BY <2>1, <2>4, <2>5 DEF IInv
  <1>2. ASSUME NEW p \in Children, HandlerReap(p) PROVE IInv' /\ EntriesKept
    <2>1. /\ state[p] = "zombie" /\ UNCHANGED <<pc, mode, cur, job, job_count, pending, handling,
                                               dropped, stops>>
          /\ \A q \in Children : state'[q] = IF q = p THEN "gone" ELSE state[q]
          /\ state' \in [Children -> {"unborn", "running", "stopped", "noticed", "piping",
                                      "frozen", "zombie", "gone"}]
      BY <1>2 DEF HandlerReap, mainVars, IInv, TypeOK
    <2>2. /\ jobs' \in [Slots -> [pid : Children \cup {0}, status : {0, 1}, state : {"none", "done"}]]
          /\ \A i \in Slots : jobs'[i].pid = jobs[i].pid /\ jobs'[i].status = jobs[i].status
      <3> DEFINE k == Min(Entries(p))
      <3>1. CASE Entries(p) = {}
        BY <1>2, <3>1 DEF HandlerReap, IInv, TypeOK
      <3>2. CASE Entries(p) # {}
        <4>1. jobs' = [jobs EXCEPT ![k].state = "done"]
          BY <1>2, <3>2 DEF HandlerReap
        <4> HIDE DEF k
        <4>2. \A i \in Slots : jobs'[i] = IF i = k THEN [jobs[k] EXCEPT !.state = "done"] ELSE jobs[i]
          BY <4>1 DEF IInv, TypeOK
        <4>3. \A i \in Slots : jobs[i] \in [pid : Children \cup {0}, status : {0, 1},
                                            state : {"none", "done"}]
          BY DEF IInv, TypeOK
        <4>4. DOMAIN jobs' = Slots /\ jobs' = [i \in Slots |-> jobs'[i]]
          BY <4>1 DEF IInv, TypeOK
        <4> QED
          BY <4>2, <4>3, <4>4
      <3> QED
        BY <3>1, <3>2
    <2>3. TypeOK'
      BY <2>1, <2>2 DEF IInv, TypeOK
    <2>4. /\ \A q \in Children : state'[q] = "unborn" <=> state[q] = "unborn"
          /\ Alive' \subseteq Alive /\ Active' \subseteq Active
          /\ \A q \in Children : Fresh(q)' <=> Fresh(q)
      BY <2>1 DEF Alive, Active, Fresh
    <2>5. Tabled' /\ Counted' /\ Reached' /\ EntriesKept
      BY <2>1, <2>2, <2>3, <2>4, TableStays DEF Alive
    <2>6. StoppedIsStopped'
      BY <2>2, <2>4, StoppedStays
    <2>7. Waiting'
      BY <2>1, <2>2, <2>4 DEF IInv, TypeOK, Waiting
    <2> QED
      BY <2>3, <2>5, <2>6, <2>7 DEF IInv
  <1> QED
    BY <1>1, <1>2 DEF Handler

----------------------------------------------------------------------------
(* main and eval *)

LEMMA RunStep ==
  ASSUME IInv, NEW p \in Unborn, NEW how \in {"running", "piping"}, NEW bg_ \in BOOLEAN,
         Run(p, how, bg_)
  PROVE  IInv' /\ EntriesKept
  <1>1. /\ p \in Children /\ p # 0 /\ state[p] = "unborn" /\ pc = "prompt"
        /\ \A q \in Children : state'[q] = IF q = p THEN how ELSE state[q]
        /\ cur' = p /\ pc' \in {"add", "call"} /\ mode' \in {"pipe", "eval"}
        /\ UNCHANGED <<job, jobs, job_count, dropped, pending, handling, stops>>
    BY DEF Run, tableVars, Unborn, Children, IInv, TypeOK
  <1>2. TypeOK'
    <2>1. state' \in [Children -> {"unborn", "running", "stopped", "noticed", "piping",
                                  "frozen", "zombie", "gone"}]
      BY <1>1 DEF Run, IInv, TypeOK
    <2> QED
      BY <1>1, <2>1 DEF IInv, TypeOK
  <1>3. /\ Fresh(p)' /\ \A q \in Children : ~Fresh(q) /\ (Fresh(q)' => q = p)
        /\ p \notin Settled /\ Settled \subseteq Settled'
    BY <1>1 DEF Fresh, Settled
  <1>4. \A i \in Slots : jobs[i].pid # p
    BY <1>1, <1>3 DEF IInv, Tabled
  <1>5. Tabled' /\ EntriesKept
    BY <1>1, <1>3 DEF IInv, Tabled, EntriesKept
  <1>6. Counted'
    <2>1. Occupied' = Occupied /\ Cardinality(Settled) <= Cardinality(Settled')
      BY <1>1, <1>3, FewerChildren DEF Occupied, Settled
    <2>2. Settled \in SUBSET Children /\ Settled' \in SUBSET Children
      BY DEF Settled
    <2>3. Cardinality(Settled) \in Nat /\ Cardinality(Settled') \in Nat /\ job_count \in Nat
      BY <2>2, ShellSets DEF IInv, TypeOK
    <2>4. Cardinality(Occupied) <= job_count /\ job_count <= Cardinality(Settled)
      BY DEF IInv, Counted
    <2> QED
      BY <1>1, <2>1, <2>3, <2>4 DEF Counted
  <1>7. Reached'
    <2> SUFFICES ASSUME NEW q \in Alive', q # p
                 PROVE  q \in dropped \/ \E i \in Entries(q) : i <= job_count
      BY <1>1, <1>3 DEF Reached, Entries
    <2>1. q \in Alive /\ ~Fresh(q)
      BY <1>1, <1>3 DEF Alive
    <2> QED
      BY <2>1 DEF IInv, Reached
  <1>8. Waiting'
    BY <1>1 DEF Waiting
  <1>9. StoppedIsStopped'
    BY <1>1, <1>4 DEF IInv, StoppedIsStopped, Active
  <1> QED
    BY <1>2, <1>5, <1>6, <1>7, <1>8, <1>9 DEF IInv

LEMMA LeaveStep ==
  ASSUME IInv, Leave \/ WaitBlocks \/ WaitFails
  PROVE  IInv' /\ EntriesKept
  <1>1. /\ UNCHANGED <<mode, cur, job, state, pending, jobs, job_count, dropped, handling, stops>>
        /\ pc' \in {"exited", "blocked", "failed"}
        /\ pc' = "exited" => pc = "prompt"
        /\ pc' = "blocked" => pc = "call"
        /\ pc' = "failed" => pc = "call" /\ mode # "fg" /\ Targets(cur) = {}
    BY DEF Leave, WaitBlocks, WaitFails, childVars, tableVars
  <1>2. TypeOK'
    BY <1>1 DEF IInv, TypeOK
  <1>3. pc' = "failed" => cur \notin Alive
    BY <1>1 DEF Targets, Alive, IInv, Waiting
  <1>4. /\ \A q \in Children : Fresh(q)' => Fresh(q)
        /\ \A q \in Alive' : Fresh(q) => Fresh(q)'
    BY <1>1, <1>3 DEF Fresh, Alive
  <1>5. Tabled' /\ Counted' /\ Reached' /\ EntriesKept
    BY <1>1, <1>2, <1>4, TableStays DEF Alive
  <1>6. Waiting' /\ StoppedIsStopped'
    BY <1>1 DEF IInv, Waiting, StoppedIsStopped, Active
  <1> QED
    BY <1>2, <1>5, <1>6 DEF IInv

LEMMA AddBackgroundStep ==
  ASSUME IInv, AddBackground
  PROVE  IInv' /\ EntriesKept
  <1>1. /\ pc = "add" /\ mode # "fg" /\ add_job(cur, 0)
        /\ pc' = "prompt" /\ mode' = "eval" /\ cur' = 0 /\ job' = 1
        /\ UNCHANGED <<state, pending, handling, stops>>
    BY DEF AddBackground, Return, childVars, IInv, Waiting
  <1>2. cur \in Children /\ Fresh(cur)
    BY <1>1 DEF IInv, TypeOK, Waiting, Fresh
  <1>3. Alive' = Alive /\ Active' = Active
    BY <1>1 DEF Alive, Active
  <1>4. /\ Tabled' /\ Counted' /\ Reached' /\ EntriesKept /\ StoppedIsStopped'
        /\ jobs' \in [Slots -> [pid : Children \cup {0}, status : {0, 1}, state : {"none", "done"}]]
        /\ job_count' \in 0 .. MaxChildren /\ dropped' \subseteq Children
    BY <1>1, <1>2, <1>3, Added
  <1>5. TypeOK' /\ Waiting'
    BY <1>1, <1>4 DEF IInv, TypeOK, Waiting, Slots
  <1> QED
    BY <1>4, <1>5 DEF IInv

LEMMA WaitEndedStep ==
  ASSUME IInv, NEW p \in Children, WaitEnded(p)
  PROVE  IInv' /\ EntriesKept
  <1>1. /\ pc \in {"call", "blocked"} /\ state[p] = "zombie" /\ cur \in {0, p}
        /\ \A q \in Children : state'[q] = IF q = p THEN "gone" ELSE state[q]
        /\ state' \in [Children -> {"unborn", "running", "stopped", "noticed", "piping",
                                    "frozen", "zombie", "gone"}]
        /\ jobs' = IF mode = "fg" THEN Cleared(job) ELSE jobs
        /\ pc' = "prompt" /\ mode' = "eval" /\ cur' = 0 /\ job' = 1
        /\ UNCHANGED <<pending, job_count, dropped, handling, stops>>
    BY DEF WaitEnded, Return, Reportable, Targets, IInv, TypeOK
  <1>2. TypeOK /\ 0 \in {0, 1}
    BY DEF IInv
  <1>3. /\ jobs' \in [Slots -> [pid : Children \cup {0}, status : {0, 1}, state : {"none", "done"}]]
        /\ \A i \in Slots : mode # "fg" \/ i # job => jobs'[i] = jobs[i]
        /\ mode = "fg" /\ job \in Slots => jobs'[job].pid = 0
    <2>1. CASE mode = "fg"
      BY <1>1, <1>2, <2>1, Written
    <2>2. CASE mode # "fg"
      BY <1>1, <1>2, <2>2 DEF TypeOK
    <2> QED
      BY <2>1, <2>2
  <1>4. TypeOK'
    BY <1>1, <1>3 DEF IInv, TypeOK, Slots
  <1>5. /\ \A q \in Children : state'[q] = "unborn" <=> state[q] = "unborn"
        /\ Alive' \subseteq Alive /\ Active' \subseteq Active /\ cur \notin Alive'
        /\ \A q \in Children : ~Fresh(q)'
        /\ \A q \in Alive' : ~Fresh(q)
    BY <1>1 DEF Alive, Active, Fresh, Children, IInv, Waiting
  <1>6. \A i \in Slots : \/ jobs'[i] = jobs[i]
                         \/ jobs'[i].pid = 0 /\ jobs[i].pid \notin Alive'
    <2>1. mode = "fg" /\ job \in Slots => jobs[job].pid = cur /\ jobs'[job].pid = 0
      BY <1>3 DEF IInv, Waiting
    <2> QED
      BY <1>3, <1>5, <2>1
  <1>7. Tabled' /\ Counted' /\ Reached' /\ EntriesKept
    BY <1>1, <1>4, <1>5, <1>6, TableStays
  <1>8. Waiting' /\ StoppedIsStopped'
    BY <1>1, <1>5, <1>6, StoppedStays DEF Waiting
  <1> QED
    BY <1>4, <1>7, <1>8 DEF IInv

LEMMA WaitStoppedStep ==
  ASSUME IInv, NEW p \in Children, WaitStopped(p)
  PROVE  IInv' /\ EntriesKept
  <1>1. /\ pc \in {"call", "blocked"} /\ state[p] = "stopped" /\ cur \in {0, p}
        /\ \A q \in Children : state'[q] = IF q = p THEN "noticed" ELSE state[q]
        /\ state' \in [Children -> {"unborn", "running", "stopped", "noticed", "piping",
                                    "frozen", "zombie", "gone"}]
        /\ pc' = "prompt" /\ mode' = "eval" /\ cur' = 0 /\ job' = 1
        /\ UNCHANGED <<pending, handling, stops>>
    BY DEF WaitStopped, Return, Reportable, Targets, IInv, TypeOK
  <1>2. /\ \A q \in Children : state'[q] = "unborn" <=> state[q] = "unborn"
        /\ Alive' = Alive /\ Active' = Active /\ p \notin Active'
        /\ \A q \in Children : ~Fresh(q)'
    BY <1>1 DEF Alive, Active, Fresh
  <1>3. CASE mode = "eval" /\ add_job(p, 1)
    <2>1. Fresh(p)
      <3>1. cur \in Children /\ cur # 0
        BY <1>1, <1>3 DEF IInv, Waiting, Children
      <3> QED
        BY <1>1, <1>3, <3>1 DEF Fresh
    <2>2. /\ Tabled' /\ Counted' /\ Reached' /\ EntriesKept /\ StoppedIsStopped'
          /\ jobs' \in [Slots -> [pid : Children \cup {0}, status : {0, 1}, state : {"none", "done"}]]
          /\ job_count' \in 0 .. MaxChildren /\ dropped' \subseteq Children
      BY <1>1, <1>2, <1>3, <2>1, Added
    <2>3. TypeOK' /\ Waiting'
      BY <1>1, <2>2 DEF IInv, TypeOK, Waiting, Slots
    <2> QED
      BY <2>2, <2>3 DEF IInv
  <1>4. CASE mode = "fg" /\ jobs' = Marked(job, 1) /\ UNCHANGED <<job_count, dropped>>
    <2>1. TypeOK /\ 1 \in {0, 1}
      BY DEF IInv
    <2>2. TypeOK'
      <3>1. jobs' \in [Slots -> [pid : Children \cup {0}, status : {0, 1}, state : {"none", "done"}]]
        BY <1>4, <2>1, Written
      <3> QED
        BY <1>1, <1>4, <3>1 DEF IInv, TypeOK, Slots
    <2>3. \A i \in Slots : jobs'[i].pid = jobs[i].pid /\ (i # job => jobs'[i] = jobs[i])
      BY <1>4, <2>1, Written
    <2>4. \A q \in Children : ~Fresh(q)
      BY <1>4 DEF Fresh
    <2>5. Tabled' /\ Counted' /\ Reached' /\ EntriesKept
      BY <1>1, <1>2, <1>4, <2>2, <2>3, <2>4, TableStays DEF Alive
    <2>6. job \in Slots => jobs[job].pid = cur
      BY <1>4 DEF IInv, Waiting
    <2>7. StoppedIsStopped'
      BY <1>1, <1>2, <2>3, <2>6 DEF IInv, StoppedIsStopped
    <2>8. Waiting'
      BY <1>1 DEF Waiting
    <2> QED
      BY <2>2, <2>5, <2>7, <2>8 DEF IInv
  <1> QED
    BY <1>3, <1>4 DEF WaitStopped

(* The status fg looks at when its child is gone already may say anything: *)
(* the entry is of a dead child, or of none.                               *)
LEMMA FgFailsStep ==
  ASSUME IInv, FgFails
  PROVE  IInv' /\ EntriesKept
  <1>1. /\ pc = "call" /\ mode = "fg" /\ Targets(cur) = {}
        /\ job \in Slots => jobs[job].pid = cur
        /\ pc' = "prompt" /\ mode' = "eval" /\ cur' = 0 /\ job' = 1
        /\ UNCHANGED <<state, job_count, dropped, pending, handling, stops>>
    BY DEF FgFails, Return, childVars, IInv, Waiting
  <1>2. TypeOK /\ 1 \in {0, 1}
    BY DEF IInv
  <1>3. jobs' = Marked(job, 1) \/ jobs' = Cleared(job)
    BY DEF FgFails
  <1>4. /\ \A i \in Slots : i # job => jobs'[i] = jobs[i]
        /\ job \in Slots => jobs'[job].pid \in {cur, 0}
        /\ jobs' \in [Slots -> [pid : Children \cup {0}, status : {0, 1}, state : {"none", "done"}]]
    BY <1>1, <1>2, <1>3, Written
  <1>5. TypeOK'
    BY <1>1, <1>4 DEF IInv, TypeOK, Slots
  <1>6. cur \notin Alive
    BY <1>1 DEF Targets, Alive
  <1>7. /\ Alive' = Alive /\ Active' = Active /\ Active \subseteq Alive
        /\ \A q \in Children : ~Fresh(q) /\ ~Fresh(q)'
    BY <1>1 DEF Alive, Active, Fresh
  <1>8. Tabled' /\ Counted' /\ Reached' /\ EntriesKept
    BY <1>1, <1>4, <1>5, <1>6, <1>7, TableStays DEF Alive
  <1>9. StoppedIsStopped'
    BY <1>1, <1>4, <1>6, <1>7 DEF IInv, StoppedIsStopped
  <1>10. Waiting'
    BY <1>1 DEF Waiting
  <1> QED
    BY <1>5, <1>8, <1>9, <1>10 DEF IInv

----------------------------------------------------------------------------
(* fg, bg, kill *)

LEMMA FgBgStep ==
  ASSUME IInv, NEW i \in Slots \cup {Behind}, fg(i) \/ bg(i)
  PROVE  IInv' /\ EntriesKept
  <1>1. PICK entry \in Entry(i) :
          /\ \/ UNCHANGED <<jobs, state, pending>>
             \/ entry.pid # 0 /\ Continue(entry.pid) /\ jobs' = Marked(i, 0)
          /\ \/ UNCHANGED <<mode, cur, job, pc>>
             \/ mode' = "fg" /\ cur' = entry.pid /\ job' = i /\ pc' = "call"
          /\ pc = "prompt" /\ mode # "fg" /\ UNCHANGED <<job_count, dropped, handling, stops>>
    <2>1. pc = "prompt" /\ mode # "fg" /\ UNCHANGED <<job_count, dropped, handling, stops>>
      BY DEF fg, bg, Command, IInv, Waiting
    <2>2. CASE fg(i)
      BY <2>1, <2>2 DEF fg
    <2>3. CASE bg(i)
      BY <2>1, <2>3 DEF bg, mainVars
    <2> QED
      BY <2>2, <2>3
  <1>2. IF i \in Slots THEN entry.pid = jobs[i].pid /\ entry.pid \in Children \cup {0}
                       ELSE entry.pid \in {0, Stranger} /\ entry.pid \notin Children
    BY DEF Entry, Children, Stranger, IInv, TypeOK
  <1>3. /\ jobs' \in [Slots -> [pid : Children \cup {0}, status : {0, 1}, state : {"none", "done"}]]
        /\ state' \in [Children -> {"unborn", "running", "stopped", "noticed", "piping",
                                    "frozen", "zombie", "gone"}]
        /\ pending' \in BOOLEAN
        /\ \A j \in Slots : jobs'[j].pid = jobs[j].pid
        /\ \A p \in Children : state'[p] = "unborn" <=> state[p] = "unborn"
        /\ Alive' = Alive
        /\ StoppedIsStopped'
    <2>1. CASE UNCHANGED <<jobs, state, pending>>
      BY <2>1 DEF IInv, TypeOK, Alive, StoppedIsStopped, Active
    <2>2. CASE i \in Slots /\ entry.pid # 0 /\ Continue(entry.pid) /\ jobs' = Marked(i, 0)
      BY <1>1, <1>2, <2>2, Continued
    <2>3. CASE i \notin Slots /\ Continue(entry.pid) /\ jobs' = Marked(i, 0)
      <3>1. jobs' = jobs
        BY <2>3 DEF Marked, IInv, TypeOK
      <3>2. state' = state /\ pending' = pending
        BY <1>2, <2>3 DEF Continue, Stopped, IInv, TypeOK
      <3> QED
        BY <2>1, <3>1, <3>2
    <2> QED
      BY <1>1, <2>1, <2>2, <2>3
  <1>4. entry.pid \in Children \cup {0, Stranger} /\ (i \in Slots => jobs'[i].pid = entry.pid)
    BY <1>2, <1>3
  <1>5. TypeOK'
    BY <1>1, <1>3, <1>4 DEF IInv, TypeOK
  <1>6. \A q \in Children : ~Fresh(q) /\ ~Fresh(q)'
    BY <1>1 DEF Fresh
  <1>7. Tabled' /\ Counted' /\ Reached' /\ EntriesKept
    BY <1>1, <1>3, <1>5, <1>6, TableStays DEF Alive
  <1>8. Waiting'
    BY <1>1, <1>2, <1>4 DEF Waiting
  <1> QED
    BY <1>3, <1>5, <1>7, <1>8 DEF IInv

LEMMA TerminateStep ==
  ASSUME IInv, NEW i \in Slots \cup {Behind}, terminate_job(i)
  PROVE  IInv' /\ EntriesKept
  <1>1. PICK entry \in Entry(i) : entry.pid # 0 /\ Kill(entry.pid)
    BY DEF terminate_job
  <1>2. /\ pc = "prompt" /\ jobs' = Cleared(i)
        /\ UNCHANGED <<mode, cur, job, pc, job_count, dropped, handling, stops>>
        /\ \A q \in Children : state'[q] = IF q = entry.pid /\ q \in Alive THEN "zombie" ELSE state[q]
        /\ state' \in [Children -> {"unborn", "running", "stopped", "noticed", "piping",
                                    "frozen", "zombie", "gone"}]
        /\ pending' \in BOOLEAN
    BY <1>1 DEF terminate_job, Command, Kill, mainVars, IInv, TypeOK
  <1>3. i \in Slots => jobs[i].pid = entry.pid
    BY DEF Entry
  <1>4. TypeOK /\ 0 \in {0, 1}
    BY DEF IInv
  <1>5. /\ jobs' \in [Slots -> [pid : Children \cup {0}, status : {0, 1}, state : {"none", "done"}]]
        /\ i \in Slots => jobs'[i].pid = 0
        /\ \A j \in Slots : j # i => jobs'[j] = jobs[j]
    BY <1>2, <1>4, Written
  <1>6. TypeOK'
    BY <1>2, <1>5 DEF IInv, TypeOK
  <1>7. /\ \A q \in Children : state'[q] = "unborn" <=> state[q] = "unborn"
        /\ Alive' \subseteq Alive /\ Active' \subseteq Active /\ entry.pid \notin Alive'
        /\ \A q \in Children : ~Fresh(q) /\ ~Fresh(q)'
    BY <1>2 DEF Alive, Active, Fresh
  <1>8. Tabled' /\ Counted' /\ Reached' /\ EntriesKept
    BY <1>2, <1>3, <1>5, <1>6, <1>7, TableStays DEF Alive
  <1>9. Waiting' /\ StoppedIsStopped'
    BY <1>2, <1>5, <1>7, StoppedStays DEF IInv, Waiting
  <1> QED
    BY <1>6, <1>8, <1>9 DEF IInv

----------------------------------------------------------------------------
(* The specification *)

LEMMA InitIInv == Init => IInv
  <1> SUFFICES ASSUME Init PROVE IInv
    OBVIOUS
  <1> USE DEF Init, Free
  <1>1. TypeOK
    <2>1. job \in Slots /\ job_count \in 0 .. MaxChildren /\ stops \in 0 .. MaxStops
      BY DEF Slots
    <2>2. jobs \in [Slots -> [pid : Children \cup {0}, status : {0, 1}, state : {"none", "done"}]]
      <3>1. Free \in [pid : Children \cup {0}, status : {0, 1}, state : {"none", "done"}]
        OBVIOUS
      <3> HIDE DEF Free
      <3> QED
        BY <3>1
    <2> QED
      BY <2>1, <2>2 DEF TypeOK
  <1>2. Occupied = {} /\ Alive = {} /\ Settled = {}
    BY DEF Occupied, Alive, Settled
  <1>3. Tabled /\ Reached /\ StoppedIsStopped /\ Waiting
    BY <1>2 DEF Tabled, Reached, StoppedIsStopped, Waiting
  <1>4. Counted
    BY <1>2, FS_EmptySet DEF Counted
  <1> QED
    BY <1>1, <1>3, <1>4 DEF IInv

LEMMA IInvStep == IInv /\ [Next]_vars => IInv' /\ [EntriesKept]_vars
  <1> SUFFICES ASSUME IInv, [Next]_vars PROVE IInv' /\ (EntriesKept \/ vars' = vars)
    OBVIOUS
  <1>1. CASE User
    BY <1>1, RunStep, LeaveStep, CtrlZStep, FgBgStep, TerminateStep DEF User
  <1>2. CASE Handler
    BY <1>2, HandlerStep
  <1>3. CASE Wait
    BY <1>3, LeaveStep, FgFailsStep, WaitEndedStep, WaitStoppedStep DEF Wait
  <1>4. CASE AddBackground
    BY <1>4, AddBackgroundStep
  <1>5. ASSUME NEW p \in Children, Exit(p) PROVE IInv' /\ EntriesKept
    BY <1>5, ExitStep
  <1>6. CASE UNCHANGED vars
    <2> USE <1>6 DEF vars
    <2>1. TypeOK' /\ Tabled'
      BY DEF IInv, TypeOK, Tabled, Settled, Fresh
    <2>2. Settled' = Settled /\ Occupied' = Occupied
      BY DEF Settled, Fresh, Occupied
    <2>3. Counted'
      BY <2>2 DEF IInv, Counted
    <2>4. Reached' /\ Waiting' /\ StoppedIsStopped'
      BY DEF IInv, Reached, Waiting, StoppedIsStopped, Alive, Active, Fresh, Entries
    <2> QED
      BY <2>1, <2>3, <2>4 DEF IInv
  <1> QED
    BY <1>1, <1>2, <1>3, <1>4, <1>5, <1>6 DEF Next

(* The inductive invariant holds in every reachable state.                 *)
THEOREM IInvHolds == Spec => []IInv
  <1>1. IInv /\ [Next]_vars => IInv'
    BY IInvStep
  <1> QED
    BY InitIInv, <1>1, PTL DEF Spec

(* The fields of the shell have their types; in particular job_count never *)
(* counts a child twice.                                                   *)
THEOREM TypeCorrect == Spec => []TypeOK
  <1>1. IInv => TypeOK
    BY DEF IInv
  <1> QED
    BY <1>1, IInvHolds, PTL

(* Whatever the handler, the children and Ctrl-Z do in between, a child    *)
(* that lives can be named to fg, bg and kill, unless eval still has it in *)
(* hand or add_job found the table full.                                   *)
THEOREM NoJobIsLost == Spec => []NoJobLost
  <1>1. IInv => NoJobLost
    BY DEF IInv, Reached, NoJobLost, Fresh
  <1> QED
    BY <1>1, IInvHolds, PTL

(* What jobs shows as Stopped is stopped or dead, an entry is given up only*)
(* when its child is dead, and no child has two.                           *)
THEOREM TableIsSound == Spec => TableSound
  <1>1. IInv => StoppedIsStopped
    BY DEF IInv
  <1>2. IInv /\ [Next]_vars => [EntriesKept]_vars
    BY IInvStep
  <1> QED
    BY <1>1, <1>2, IInvHolds, PTL DEF Spec, TableSound

===============================================================================
