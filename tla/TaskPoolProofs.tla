--------------------------- MODULE TaskPoolProofs ---------------------------
(***************************************************************************)
(* For every number of workers, tasks and indices: the invariants of       *)
(* TaskPool.  The pieces of a task that threads are in the middle of are   *)
(* disjoint, were handed out and have not been counted; a task not yet     *)
(* added to the pipe is in one thread's hands only; what is still open is  *)
(* the number of indices not run.  These are inductive together.           *)
(***************************************************************************)
EXTENDS TaskPool, FiniteSetTheorems, SequenceTheorems, TLAPS

Kinds == {"range", "inline", "submit"}

TaskRecord ==
    [kind : Kinds, count : Nat \ {0}, next : Nat, open : Nat, freed : BOOLEAN]

Row == UNION {[Indices(c) -> {0, 1}] : c \in Nat}

Frame == [op : {"lock", "wait"}, task : Nat]
            \cup [op : {"run"}, task : Nat, from : Nat, end : Nat]

StateTyped ==
    /\ task \in Seq(TaskRecord)
    /\ ran \in Seq(Row) /\ Len(ran) = Len(task)
    /\ pending \in Seq(Nat)
    /\ mutex \in Threads \cup {NoOne}
    /\ stack \in [Threads -> Seq(Frame)]
    /\ phase \in {"up", "closing", "gone"}

Zeros(k) == {i \in Indices(task[k].count) : ran[k][i] = 0}

\* What is counted, handed out and run of a task agree.
TaskOK(k) ==
    /\ task[k].next <= task[k].count
    /\ ran[k] \in [Indices(task[k].count) -> {0, 1}]
    /\ \A j \in Indices(task[k].count) : j >= task[k].next => ran[k][j] = 0
    /\ task[k].open = Cardinality(Zeros(k))
    /\ task[k].kind = "inline" => task[k].count = 1
    /\ task[k].freed => Complete(k)

\* What a thread is in the middle of: a piece handed out and not yet counted,
\* a loop that waits, or one whose task is not in the pipe yet.
FrameOK(f) ==
    /\ f.task \in DOMAIN task
    /\ f.op = "run" =>
          /\ f.from < f.end /\ f.end <= task[f.task].next
          /\ \A j \in f.from .. f.end - 1 : ran[f.task][j] = 0
    /\ f.op # "run" => task[f.task].kind = "range"
    /\ f.op = "lock" =>
          /\ task[f.task].next = task[f.task].count
          /\ \A j \in Indices(task[f.task].count) : ran[f.task][j] = 0

PairOK(f, g) ==
    f.task = g.task =>
        /\ f.op # "lock" /\ g.op # "lock"
        /\ f.op = "run" /\ g.op = "run" => f.end <= g.from \/ g.end <= f.from

Frames == \A t \in Threads : \A i \in DOMAIN stack[t] : FrameOK(stack[t][i])

Pairs ==
    \A t, u \in Threads : \A i \in DOMAIN stack[t], j \in DOMAIN stack[u] :
        t # u \/ i # j => PairOK(stack[t][i], stack[u][j])

TasksOK == \A k \in DOMAIN task : TaskOK(k)

Submitted ==
    \A n \in DOMAIN pending : /\ pending[n] \in DOMAIN task
                              /\ task[pending[n]].kind = "submit"

Holder == mutex # NoOne => \E i \in DOMAIN stack[mutex] : stack[mutex][i].op = "wait"

Inv == StateTyped /\ TasksOK /\ Frames /\ Pairs /\ Submitted /\ Holder
-----------------------------------------------------------------------------
LEMMA TopFrame ==
    ASSUME StateTyped, NEW t \in Threads, Top(t).op # "idle"
    PROVE  /\ Len(stack[t]) \in DOMAIN stack[t]
           /\ Len(stack[t]) \in Nat \ {0}
           /\ Top(t) = stack[t][Len(stack[t])]
           /\ Top(t) \in Frame
<1>1. stack[t] # <<>> /\ stack[t] \in Seq(Frame) /\ Top(t) = stack[t][Len(stack[t])]
  BY DEF Top, Last, StateTyped
<1>2. Len(stack[t]) \in Nat \ {0} /\ Len(stack[t]) \in DOMAIN stack[t]
  BY <1>1, EmptySeq, LenProperties
<1> QED
  BY <1>1, <1>2, ElementOfSeq

LEMMA PushEffect ==
    ASSUME StateTyped, NEW t \in Threads, NEW f \in Frame, Push(t, f)
    PROVE  /\ stack' \in [Threads -> Seq(Frame)]
           /\ \A u \in Threads : \A i \in DOMAIN stack[u] :
                 i \in DOMAIN stack'[u] /\ stack'[u][i] = stack[u][i]
           /\ \A u \in Threads : \A i \in DOMAIN stack'[u] :
                 \/ i \in DOMAIN stack[u] /\ stack'[u][i] = stack[u][i]
                 \/ u = t /\ i = Len(stack[t]) + 1 /\ stack'[u][i] = f
<1>1. stack' = [stack EXCEPT ![t] = Append(stack[t], f)]
  BY DEF Push
<1>2. stack[t] \in Seq(Frame) /\ Len(stack[t]) \in Nat /\ DOMAIN stack[t] = 1 .. Len(stack[t])
  BY LenProperties DEF StateTyped
<1>3. /\ stack'[t] = Append(stack[t], f) /\ stack'[t] \in Seq(Frame)
      /\ DOMAIN stack'[t] = 1 .. Len(stack[t]) + 1
      /\ \A i \in 1 .. Len(stack[t]) : stack'[t][i] = stack[t][i]
      /\ stack'[t][Len(stack[t]) + 1] = f
  BY <1>1, <1>2, AppendProperties, LenProperties DEF StateTyped
<1>4. \A u \in Threads : u # t => stack'[u] = stack[u]
  BY <1>1 DEF StateTyped
<1>5. stack' \in [Threads -> Seq(Frame)]
  BY <1>1, <1>3, <1>4 DEF StateTyped
<1>6. ASSUME NEW u \in Threads, NEW i \in DOMAIN stack[u]
      PROVE  i \in DOMAIN stack'[u] /\ stack'[u][i] = stack[u][i]
  BY <1>2, <1>3, <1>4, <1>6
<1>7. ASSUME NEW u \in Threads, NEW i \in DOMAIN stack'[u]
      PROVE  \/ i \in DOMAIN stack[u] /\ stack'[u][i] = stack[u][i]
             \/ u = t /\ i = Len(stack[t]) + 1 /\ stack'[u][i] = f
  <2>1. CASE u = t
    BY <1>2, <1>3, <1>7, <2>1
  <2>2. CASE u # t
    BY <1>4, <1>7, <2>2
  <2> QED
    BY <2>1, <2>2
<1> QED
  BY <1>5, <1>6, <1>7

LEMMA PopEffect ==
    ASSUME StateTyped, NEW t \in Threads, Top(t).op # "idle", Pop(t)
    PROVE  /\ stack' \in [Threads -> Seq(Frame)]
           /\ \A u \in Threads : \A i \in DOMAIN stack[u] :
                 ~(u = t /\ i = Len(stack[t])) =>
                     i \in DOMAIN stack'[u] /\ stack'[u][i] = stack[u][i]
           /\ \A u \in Threads : \A i \in DOMAIN stack'[u] :
                 /\ i \in DOMAIN stack[u] /\ stack'[u][i] = stack[u][i]
                 /\ ~(u = t /\ i = Len(stack[t]))
<1>1. stack' = [stack EXCEPT ![t] = Front(stack[t])]
  BY DEF Pop
<1>2. /\ stack[t] \in Seq(Frame) /\ Len(stack[t]) \in Nat \ {0}
      /\ DOMAIN stack[t] = 1 .. Len(stack[t])
  BY TopFrame, LenProperties DEF StateTyped
<1>3. Front(stack[t]) = SubSeq(stack[t], 1, Len(stack[t]) - 1)
  BY DEF Front
<1>4. /\ stack'[t] = Front(stack[t]) /\ stack'[t] \in Seq(Frame)
      /\ DOMAIN stack'[t] = 1 .. Len(stack[t]) - 1
      /\ \A i \in 1 .. Len(stack[t]) - 1 : stack'[t][i] = stack[t][i]
  BY <1>1, <1>2, <1>3, SubSeqProperties, LenProperties DEF StateTyped
<1>5. \A u \in Threads : u # t => stack'[u] = stack[u]
  BY <1>1 DEF StateTyped
<1>6. stack' \in [Threads -> Seq(Frame)]
  BY <1>1, <1>4, <1>5 DEF StateTyped
<1>7. ASSUME NEW u \in Threads, NEW i \in DOMAIN stack[u],
             ~(u = t /\ i = Len(stack[t]))
      PROVE  i \in DOMAIN stack'[u] /\ stack'[u][i] = stack[u][i]
  <2>1. CASE u = t
    BY <1>2, <1>4, <1>7, <2>1
  <2> QED
    BY <1>5, <1>7, <2>1
<1>8. ASSUME NEW u \in Threads, NEW i \in DOMAIN stack'[u]
      PROVE  /\ i \in DOMAIN stack[u] /\ stack'[u][i] = stack[u][i]
             /\ ~(u = t /\ i = Len(stack[t]))
  <2>1. CASE u = t
    BY <1>2, <1>4, <1>8, <2>1
  <2> QED
    BY <1>5, <1>8, <2>1
<1> QED
  BY <1>6, <1>7, <1>8
-----------------------------------------------------------------------------
LEMMA Numbered ==
    ASSUME StateTyped
    PROVE  /\ Len(task) \in Nat /\ DOMAIN task = 1 .. Len(task)
           /\ DOMAIN ran = DOMAIN task
           /\ \A k \in DOMAIN task :
                 /\ task[k] \in TaskRecord /\ k \in Nat
                 /\ task[k].count \in Nat \ {0} /\ task[k].next \in Nat
                 /\ task[k].open \in Nat /\ task[k].freed \in BOOLEAN
<1>1. /\ Len(task) \in Nat /\ DOMAIN task = 1 .. Len(task) /\ DOMAIN ran = DOMAIN task
      /\ \A k \in DOMAIN task : task[k] \in TaskRecord /\ k \in Nat
  BY LenProperties, ElementOfSeq DEF StateTyped
<1> QED
  BY <1>1 DEF TaskRecord

\* The indices of a task are finitely many.
LEMMA IndicesFinite ==
    ASSUME NEW c \in Nat
    PROVE  /\ IsFiniteSet(Indices(c)) /\ Cardinality(Indices(c)) = c
           /\ Indices(c) \subseteq Nat
<1>1. c - 1 \in Int
  OBVIOUS
<1>2. /\ IsFiniteSet(0 .. c - 1)
      /\ Cardinality(0 .. c - 1) = IF 0 > c - 1 THEN 0 ELSE (c - 1) - 0 + 1
  BY <1>1, FS_Interval
<1> QED
  BY <1>2 DEF Indices

LEMMA ZerosFinite ==
    ASSUME StateTyped, NEW k \in DOMAIN task
    PROVE  IsFiniteSet(Zeros(k)) /\ Cardinality(Zeros(k)) \in 0 .. task[k].count
<1>1. task[k].count \in Nat
  BY Numbered
<1>2. Zeros(k) \in SUBSET Indices(task[k].count)
  BY DEF Zeros
<1>3. IsFiniteSet(Zeros(k)) /\ Cardinality(Zeros(k)) <= task[k].count
  BY <1>1, <1>2, IndicesFinite, FS_Subset
<1> QED
  BY <1>1, <1>3, FS_CardinalityType

LEMMA CompleteMeansRun ==
    ASSUME StateTyped, NEW k \in DOMAIN task, TaskOK(k), Complete(k)
    PROVE  \A i \in DOMAIN ran[k] : ran[k][i] = 1
<1>1. Zeros(k) = {}
  BY ZerosFinite, FS_EmptySet DEF TaskOK, Complete
<1> QED
  BY <1>1 DEF TaskOK, Zeros

LEMMA TaskKept ==
    ASSUME NEW k, TaskOK(k), ran'[k] = ran[k],
           task'[k].kind = task[k].kind, task'[k].count = task[k].count,
           task'[k].open = task[k].open, task'[k].next = task[k].next,
           task'[k].freed => Complete(k)
    PROVE  TaskOK(k)'
<1>1. Zeros(k)' = Zeros(k)
  BY DEF Zeros
<1> QED
  BY <1>1 DEF TaskOK, Complete

\* A task that has just been created.
LEMMA CreateEffect ==
    ASSUME StateTyped, TasksOK,
           NEW kind \in Kinds, NEW count \in Nat \ {0}, NEW added \in BOOLEAN,
           kind = "inline" => count = 1,
           Create(Task(kind, count, added))
    PROVE  /\ task' \in Seq(TaskRecord) /\ ran' \in Seq(Row)
           /\ Len(ran') = Len(task') /\ Len(task') = Len(task) + 1
           /\ DOMAIN task' = DOMAIN task \cup {Len(task) + 1}
           /\ Len(task) + 1 \notin DOMAIN task
           /\ \A k \in DOMAIN task : task'[k] = task[k] /\ ran'[k] = ran[k]
           /\ task'[Len(task) + 1] = Task(kind, count, added)
           /\ ran'[Len(task) + 1] = [i \in Indices(count) |-> 0]
           /\ TasksOK'
<1>0. PICK n : n = Len(task) + 1
  OBVIOUS
<1> DEFINE new == Task(kind, count, added)
           zeros == [i \in Indices(count) |-> 0]
<1>1. new \in TaskRecord /\ new.count = count /\ new.kind = kind
      /\ new.next = (IF added THEN 0 ELSE count) /\ new.open = count /\ ~new.freed
  BY DEF Task, TaskRecord
<1>2. zeros \in Row
  BY DEF Row
<1>3. task' = Append(task, new) /\ ran' = Append(ran, zeros)
  BY <1>1 DEF Create
<1> HIDE DEF new, zeros
<1>4. /\ task' \in Seq(TaskRecord) /\ ran' \in Seq(Row)
      /\ Len(ran') = Len(task') /\ Len(task') = Len(task) + 1
      /\ DOMAIN task' = 1 .. n
      /\ \A k \in DOMAIN task : task'[k] = task[k] /\ ran'[k] = ran[k]
      /\ task'[n] = new /\ ran'[n] = zeros
  BY <1>0, <1>1, <1>2, <1>3, AppendProperties, LenProperties, Numbered DEF StateTyped
<1>5. DOMAIN task' = DOMAIN task \cup {n} /\ n \notin DOMAIN task
  BY <1>0, <1>4, Numbered
<1>6. ASSUME NEW k \in DOMAIN task PROVE TaskOK(k)'
  BY <1>4, <1>6, TaskKept DEF TasksOK, TaskOK
<1>7. TaskOK(n)'
  <2>1. Zeros(n)' = Indices(count)
    BY <1>1, <1>4 DEF Zeros, zeros
  <2>2. Cardinality(Indices(count)) = count
    BY IndicesFinite
  <2> QED
    BY <1>1, <1>4, <2>1, <2>2 DEF TaskOK, zeros
<1>8. TasksOK'
  BY <1>5, <1>6, <1>7 DEF TasksOK
<1> QED
  BY <1>0, <1>4, <1>5, <1>8 DEF new, zeros
-----------------------------------------------------------------------------
\* A frame goes on being right when its task is left alone.
LEMMA FrameKept ==
    ASSUME NEW f, FrameOK(f), DOMAIN task \subseteq DOMAIN task',
           \A k \in DOMAIN task : /\ task'[k].kind = task[k].kind
                                  /\ task'[k].count = task[k].count
                                  /\ task'[k].next = task[k].next
                                  /\ ran'[k] = ran[k]
    PROVE  FrameOK(f)'
<1>1. f.task \in DOMAIN task
  BY DEF FrameOK
<1> QED
  BY <1>1 DEF FrameOK

LEMMA FrameTyped ==
    ASSUME NEW f \in Frame
    PROVE  /\ f.task \in Nat /\ f.op \in {"lock", "wait", "run"}
           /\ f.op = "run" => f.from \in Nat /\ f.end \in Nat
BY DEF Frame

LEMMA FrameOf ==
    ASSUME StateTyped, NEW u \in Threads, NEW i \in DOMAIN stack[u]
    PROVE  stack[u][i] \in Frame
BY DEF StateTyped

\* Thread t has taken up f, at place n of its stack.
TookUp(t, n, f) ==
    \A u \in Threads : \A i \in DOMAIN stack'[u] :
        \/ i \in DOMAIN stack[u] /\ stack'[u][i] = stack[u][i]
        \/ u = t /\ i = n /\ stack'[u][i] = f

\* f goes together with all that the threads are in the middle of.
Fits(f) ==
    \A u \in Threads : \A i \in DOMAIN stack[u] :
        PairOK(f, stack[u][i]) /\ PairOK(stack[u][i], f)

LEMMA PairsPushed ==
    ASSUME Pairs, NEW t, NEW n, NEW f, TookUp(t, n, f), Fits(f)
    PROVE  Pairs'
<1> SUFFICES ASSUME NEW u \in Threads, NEW v \in Threads,
                    NEW i \in DOMAIN stack'[u], NEW j \in DOMAIN stack'[v],
                    u # v \/ i # j
             PROVE  PairOK(stack'[u][i], stack'[v][j])
  BY DEF Pairs, PairOK
<1>0. /\ \/ i \in DOMAIN stack[u] /\ stack'[u][i] = stack[u][i]
         \/ u = t /\ i = n /\ stack'[u][i] = f
      /\ \/ j \in DOMAIN stack[v] /\ stack'[v][j] = stack[v][j]
         \/ v = t /\ j = n /\ stack'[v][j] = f
  BY DEF TookUp
<1>1. CASE /\ i \in DOMAIN stack[u] /\ stack'[u][i] = stack[u][i]
           /\ j \in DOMAIN stack[v] /\ stack'[v][j] = stack[v][j]
  BY <1>1 DEF Pairs
<1>2. CASE u = t /\ i = n /\ stack'[u][i] = f
  BY <1>0, <1>2 DEF Fits
<1>3. CASE v = t /\ j = n /\ stack'[v][j] = f
  BY <1>0, <1>3 DEF Fits
<1> QED
  BY <1>0, <1>1, <1>2, <1>3

LEMMA TakeKeeps ==
    ASSUME Inv, NEW t \in Threads, Take(t)
    PROVE  Inv'
<1>0. StateTyped /\ TasksOK /\ Frames /\ Pairs /\ Submitted /\ Holder
  BY DEF Inv
<1>a. PICK k \in DOMAIN task : \E end \in task[k].next + 1 .. task[k].count :
         /\ task' = [task EXCEPT ![k].next = end]
         /\ Push(t, [op |-> "run", task |-> k, from |-> task[k].next, end |-> end])
  BY DEF Take
<1>1. PICK end \in task[k].next + 1 .. task[k].count :
         /\ task' = [task EXCEPT ![k].next = end]
         /\ Push(t, [op |-> "run", task |-> k, from |-> task[k].next, end |-> end])
  BY <1>a
<1>2. UNCHANGED <<pending, mutex, phase, ran>>
  BY DEF Take
<1>3. PICK from : from = task[k].next
  OBVIOUS
<1>4. PICK f : f = [op |-> "run", task |-> k, from |-> from, end |-> end]
  OBVIOUS
<1>5. /\ task[k] \in TaskRecord /\ k \in Nat /\ from \in Nat /\ end \in Nat
      /\ from < end /\ end <= task[k].count /\ task[k].count \in Nat
  BY <1>0, <1>3, Numbered
<1>6. f \in Frame /\ f.op = "run" /\ f.task = k /\ f.from = from /\ f.end = end
  BY <1>4, <1>5 DEF Frame
<1>7. /\ DOMAIN task' = DOMAIN task /\ Len(task') = Len(task)
      /\ task' \in Seq(TaskRecord)
      /\ \A q \in DOMAIN task : q # k => task'[q] = task[q]
      /\ task'[k] = [task[k] EXCEPT !.next = end]
  <2>1. [task[k] EXCEPT !.next = end] \in TaskRecord
    BY <1>5 DEF TaskRecord
  <2> QED
    BY <1>0, <1>1, <2>1, ExceptSeq DEF StateTyped
<1>8. /\ task'[k].kind = task[k].kind /\ task'[k].count = task[k].count
      /\ task'[k].open = task[k].open /\ task'[k].next = end
      /\ task'[k].freed = task[k].freed
  BY <1>5, <1>7 DEF TaskRecord
<1>9. /\ stack' \in [Threads -> Seq(Frame)]
      /\ \A u \in Threads : \A i \in DOMAIN stack[u] :
            i \in DOMAIN stack'[u] /\ stack'[u][i] = stack[u][i]
      /\ \A u \in Threads : \A i \in DOMAIN stack'[u] :
            \/ i \in DOMAIN stack[u] /\ stack'[u][i] = stack[u][i]
            \/ u = t /\ i = Len(stack[t]) + 1 /\ stack'[u][i] = f
  BY <1>0, <1>1, <1>3, <1>4, <1>6, PushEffect
<1>10. StateTyped'
  BY <1>0, <1>2, <1>7, <1>9 DEF StateTyped
<1>11. TasksOK'
  <2>1. ASSUME NEW q \in DOMAIN task, q # k PROVE TaskOK(q)'
    BY <1>0, <1>2, <1>7, <2>1, TaskKept DEF TasksOK, TaskOK
  <2>2. TaskOK(k)'
    <3>1. Zeros(k)' = Zeros(k)
      BY <1>2, <1>8 DEF Zeros
    <3>2. TaskOK(k)
      BY <1>0 DEF TasksOK
    <3>3. \A j \in Indices(task[k].count) : j >= end => j >= task[k].next
      BY <1>3, <1>5, IndicesFinite
    <3> QED
      BY <1>2, <1>5, <1>8, <3>1, <3>2, <3>3 DEF TaskOK, Complete
  <2> QED
    BY <1>7, <2>1, <2>2 DEF TasksOK
<1>12. \A g \in Frame : FrameOK(g) => FrameOK(g)'
  <2> SUFFICES ASSUME NEW g \in Frame, FrameOK(g) PROVE FrameOK(g)'
    OBVIOUS
  <2>1. CASE g.task # k
    BY <1>2, <1>7, <2>1 DEF FrameOK
  <2>2. CASE g.task = k
    <3>1. g.op # "lock"
      BY <1>3, <1>5, <2>2 DEF FrameOK
    <3>2. g.op = "run" => g.end <= end
      BY <1>3, <1>5, <2>2, FrameTyped DEF FrameOK
    <3> QED
      BY <1>2, <1>7, <1>8, <2>2, <3>1, <3>2 DEF FrameOK
  <2> QED
    BY <2>1, <2>2
<1>13. FrameOK(f)'
  <2>1. \A j \in from .. end - 1 : ran[k][j] = 0
    BY <1>0, <1>3, <1>5 DEF TasksOK, TaskOK, Indices
  <2> QED
    BY <1>2, <1>5, <1>6, <1>7, <1>8, <2>1 DEF FrameOK
<1>14. Frames'
  BY <1>0, <1>9, <1>12, <1>13, FrameOf DEF Frames
<1>15. \A g \in Frame : FrameOK(g) => PairOK(f, g) /\ PairOK(g, f)
  <2> SUFFICES ASSUME NEW g \in Frame, FrameOK(g), g.task = k
               PROVE  g.op # "lock" /\ (g.op = "run" => g.end <= from)
    BY <1>6 DEF PairOK
  <2>1. g.op # "lock"
    BY <1>3, <1>5 DEF FrameOK
  <2> QED
    BY <1>3, <2>1 DEF FrameOK
<1>16. Pairs'
  <2>1. PICK n : n = Len(stack[t]) + 1
    OBVIOUS
  <2>2. TookUp(t, n, f)
    BY <1>9, <2>1 DEF TookUp
  <2>3. Fits(f)
    BY <1>0, <1>15, FrameOf DEF Frames, Fits
  <2> QED
    BY <1>0, <2>2, <2>3, PairsPushed
<1>17. Submitted' /\ Holder'
  BY <1>0, <1>2, <1>7, <1>8, <1>9, ZenonT(30) DEF Submitted, Holder, StateTyped
<1> QED
  BY <1>10, <1>11, <1>14, <1>16, <1>17 DEF Inv
-----------------------------------------------------------------------------
(***************************************************************************)
(* A thread that starts a loop takes up a frame for a task of its own.     *)
(***************************************************************************)
StartsWith(kind, f) ==
    \/ kind = "range" /\ f.op = "lock"
    \/ kind = "inline" /\ f.op = "run" /\ f.from = 0 /\ f.end = 1

LEMMA StartKeeps ==
    ASSUME Inv, NEW t \in Threads,
           NEW kind \in {"range", "inline"}, NEW count \in Nat \ {0},
           kind = "inline" => count = 1,
           Create(Task(kind, count, FALSE)),
           NEW f \in Frame, f.task = Len(task) + 1, Push(t, f),
           StartsWith(kind, f),
           UNCHANGED <<pending, mutex, phase>>
    PROVE  Inv'
<1>0. StateTyped /\ TasksOK /\ Frames /\ Pairs /\ Submitted /\ Holder
  BY DEF Inv
<1>1. PICK n : n = Len(task) + 1
  OBVIOUS
<1>2. /\ task' \in Seq(TaskRecord) /\ ran' \in Seq(Row) /\ Len(ran') = Len(task')
      /\ DOMAIN task' = DOMAIN task \cup {n} /\ n \notin DOMAIN task
      /\ \A k \in DOMAIN task : task'[k] = task[k] /\ ran'[k] = ran[k]
      /\ task'[n] = Task(kind, count, FALSE)
      /\ ran'[n] = [i \in Indices(count) |-> 0]
      /\ TasksOK'
  <2>1. kind \in Kinds /\ FALSE \in BOOLEAN
    BY DEF Kinds
  <2> QED
    BY <1>0, <1>1, <2>1, CreateEffect
<1>3. /\ task'[n].kind = kind /\ task'[n].count = count /\ task'[n].next = count
  BY <1>2 DEF Task
<1>4. PICK m : m = Len(stack[t]) + 1
  OBVIOUS
<1>5. /\ stack' \in [Threads -> Seq(Frame)]
      /\ \A u \in Threads : \A i \in DOMAIN stack[u] :
            i \in DOMAIN stack'[u] /\ stack'[u][i] = stack[u][i]
      /\ \A u \in Threads : \A i \in DOMAIN stack'[u] :
            \/ i \in DOMAIN stack[u] /\ stack'[u][i] = stack[u][i]
            \/ u = t /\ i = m /\ stack'[u][i] = f
  BY <1>0, <1>4, PushEffect
<1>6. StateTyped'
  BY <1>0, <1>2, <1>5 DEF StateTyped
<1>7. \A g \in Frame : FrameOK(g) => FrameOK(g)'
  BY <1>2, FrameKept
<1>8. FrameOK(f)'
  <2>1. \A i \in Indices(count) : ran'[n][i] = 0
    BY <1>2
  <2>2. f.task = n /\ n \in DOMAIN task'
    BY <1>1, <1>2
  <2>3. CASE kind = "range" /\ f.op = "lock"
    BY <1>3, <2>1, <2>2, <2>3 DEF FrameOK
  <2>4. CASE kind = "inline" /\ f.op = "run" /\ f.from = 0 /\ f.end = 1
    <3>1. count = 1 /\ \A i \in 0 .. 1 - 1 : ran'[n][i] = 0
      BY <2>1, <2>4 DEF Indices
    <3> QED
      BY <1>3, <2>2, <2>4, <3>1 DEF FrameOK
  <2> QED
    BY <2>3, <2>4 DEF StartsWith
<1>9. Frames'
  BY <1>0, <1>5, <1>7, <1>8, FrameOf DEF Frames
<1>10. Pairs'
  <2>1. TookUp(t, m, f)
    BY <1>5 DEF TookUp
  <2>2. Fits(f)
    BY <1>0, <1>1, <1>2 DEF Frames, FrameOK, Fits, PairOK
  <2> QED
    BY <1>0, <2>1, <2>2, PairsPushed
<1>11. Submitted'
  <2>1. ASSUME NEW i \in DOMAIN pending
        PROVE  pending[i] \in DOMAIN task' /\ task'[pending[i]].kind = "submit"
    BY <1>0, <1>2, <2>1 DEF Submitted
  <2> QED
    BY <2>1 DEF Submitted
<1>12. Holder'
  BY <1>0, <1>5 DEF Holder, StateTyped
<1> QED
  BY <1>2, <1>6, <1>9, <1>10, <1>11, <1>12 DEF Inv

LEMMA ParallelForOneKeeps ==
    ASSUME Inv, NEW t \in Threads, ParallelForOne(t)
    PROVE  Inv'
<1>1. PICK f : f = [op |-> "run", task |-> Len(task) + 1, from |-> 0, end |-> 1]
  OBVIOUS
<1>2. Len(task) + 1 \in Nat
  BY Numbered DEF Inv
<1>3. f \in Frame /\ f.op = "run" /\ f.task = Len(task) + 1 /\ f.from = 0 /\ f.end = 1
  BY <1>1, <1>2 DEF Frame
<1>4. /\ Create(Task("inline", 1, FALSE)) /\ Push(t, f)
      /\ UNCHANGED <<pending, mutex, phase>>
  BY <1>1 DEF ParallelForOne
<1>5. StartsWith("inline", f) /\ 1 \in Nat \ {0}
  BY <1>3 DEF StartsWith
<1> QED
  BY <1>3, <1>4, <1>5, StartKeeps

LEMMA ParallelForKeeps ==
    ASSUME Inv, NEW t \in Threads, ParallelFor(t)
    PROVE  Inv'
<1>1. PICK f : f = [op |-> "lock", task |-> Len(task) + 1]
  OBVIOUS
<1>2. Len(task) + 1 \in Nat
  BY Numbered DEF Inv
<1>3. f \in Frame /\ f.op = "lock" /\ f.task = Len(task) + 1
  BY <1>1, <1>2 DEF Frame
<1>4. PICK count \in Counts \cup NestedCounts : Create(Task("range", count, FALSE))
  BY DEF ParallelFor
<1>5. count \in Nat \ {0}
  BY <1>4, PoolAssumption
<1>6. Push(t, f) /\ UNCHANGED <<pending, mutex, phase>>
  BY <1>1 DEF ParallelFor
<1>7. StartsWith("range", f)
  BY <1>3 DEF StartsWith
<1> QED
  BY <1>3, <1>4, <1>5, <1>6, <1>7, StartKeeps
-----------------------------------------------------------------------------
(***************************************************************************)
(* A thread that is done with a piece, or with a loop, puts it down.       *)
(***************************************************************************)
\* Thread t has put down the last frame of its stack.
PutDown(t) ==
    \A u \in Threads : \A i \in DOMAIN stack'[u] :
        /\ i \in DOMAIN stack[u] /\ stack'[u][i] = stack[u][i]
        /\ ~(u = t /\ i = Len(stack[t]))

LEMMA PairsPopped ==
    ASSUME Pairs, NEW t, PutDown(t)
    PROVE  Pairs'
BY DEF Pairs, PutDown, PairOK

\* What goes on fits with the frame that is put down.
LEMMA TopPairs ==
    ASSUME Inv, NEW t \in Threads, Top(t).op # "idle", PutDown(t),
           NEW u \in Threads, NEW i \in DOMAIN stack'[u]
    PROVE  /\ stack'[u][i] \in Frame /\ FrameOK(stack'[u][i])
           /\ PairOK(stack'[u][i], Top(t))
<1>1. /\ i \in DOMAIN stack[u] /\ stack'[u][i] = stack[u][i]
      /\ u # t \/ i # Len(stack[t])
  BY DEF PutDown
<1>2. Len(stack[t]) \in DOMAIN stack[t] /\ Top(t) = stack[t][Len(stack[t])]
  BY TopFrame DEF Inv
<1> QED
  BY <1>1, <1>2, FrameOf DEF Inv, Frames, Pairs

LEMMA TopOK ==
    ASSUME Inv, NEW t \in Threads, Top(t).op # "idle"
    PROVE  FrameOK(Top(t)) /\ Top(t) \in Frame
BY TopFrame DEF Inv, Frames

LEMMA FinishKeeps ==
    ASSUME Inv, NEW t \in Threads, Finish(t)
    PROVE  Inv'
<1>0. StateTyped /\ TasksOK /\ Frames /\ Pairs /\ Submitted /\ Holder
  BY DEF Inv
<1>1. Top(t).op = "run" /\ Pop(t) /\ UNCHANGED <<pending, mutex, phase>>
  BY DEF Finish
<1>2. PICK f : f = Top(t)
  OBVIOUS
<1>3. f \in Frame /\ FrameOK(f) /\ f.op = "run"
  BY <1>1, <1>2, TopOK
<1>4. PICK k, from, end : k = f.task /\ from = f.from /\ end = f.end
  OBVIOUS
<1>5. /\ k \in DOMAIN task /\ from \in Nat /\ end \in Nat
      /\ from < end /\ end <= task[k].next
      /\ \A j \in from .. end - 1 : ran[k][j] = 0
  BY <1>3, <1>4, FrameTyped DEF FrameOK
<1>6. /\ task[k] \in TaskRecord /\ task[k].count \in Nat \ {0} /\ task[k].next \in Nat
      /\ task[k].open \in Nat /\ task[k].freed \in BOOLEAN
  BY <1>0, <1>5, Numbered
<1>7. TaskOK(k)
  BY <1>0, <1>5 DEF TasksOK
<1> DEFINE piece == from .. end - 1
           done == [task[k] EXCEPT !.open = @ - (end - from),
                                   !.freed = @ \/ task[k].kind = "inline"]
           row == [i \in DOMAIN ran[k] |-> ran[k][i] + (IF i \in piece THEN 1 ELSE 0)]
<1>8. task' = [task EXCEPT ![k] = done] /\ ran' = [ran EXCEPT ![k] = row]
  BY <1>2, <1>4 DEF Finish
\* The piece is part of what was not run, so that what is left adds up.
<1>9. piece \subseteq Zeros(k) /\ Zeros(k) \subseteq Nat
  BY <1>5, <1>6, <1>7, IndicesFinite DEF Zeros, TaskOK, Indices
<1>10. IsFiniteSet(piece) /\ Cardinality(piece) = end - from
  BY <1>5, FS_Interval
<1>11. /\ Cardinality(Zeros(k) \ piece) = task[k].open - (end - from)
       /\ Cardinality(Zeros(k) \ piece) \in Nat
  <2>1. IsFiniteSet(Zeros(k)) /\ Cardinality(Zeros(k)) = task[k].open
    BY <1>0, <1>5, <1>7, ZerosFinite DEF TaskOK
  <2>2. Zeros(k) \cap piece = piece
    BY <1>9
  <2>3. IsFiniteSet(Zeros(k) \ piece)
    BY <2>1, FS_Difference
  <2>4. Cardinality(Zeros(k) \ piece) \in Nat
    BY <2>3, FS_CardinalityType
  <2>5. Cardinality(Zeros(k) \ piece) = Cardinality(Zeros(k)) - Cardinality(Zeros(k) \cap piece)
    BY <2>1, FS_Difference
  <2> QED
    BY <1>10, <2>1, <2>2, <2>4, <2>5
<1>12. row \in [Indices(task[k].count) -> {0, 1}]
  <2>1. DOMAIN ran[k] = Indices(task[k].count)
        /\ \A i \in Indices(task[k].count) : ran[k][i] \in {0, 1}
    BY <1>7 DEF TaskOK
  <2>2. \A i \in piece : ran[k][i] = 0
    BY <1>5
  <2> HIDE DEF piece
  <2> QED
    BY <2>1, <2>2
<1>13. \A i \in Indices(task[k].count) : row[i] = 0 <=> ran[k][i] = 0 /\ i \notin piece
  <2>1. DOMAIN ran[k] = Indices(task[k].count)
        /\ \A i \in Indices(task[k].count) : ran[k][i] \in {0, 1}
    BY <1>7 DEF TaskOK
  <2> HIDE DEF piece
  <2> QED
    BY <2>1
<1>14. /\ done \in TaskRecord /\ done.kind = task[k].kind /\ done.count = task[k].count
       /\ done.next = task[k].next /\ done.open = task[k].open - (end - from)
       /\ done.freed = (task[k].freed \/ task[k].kind = "inline")
  <2>1. task[k].open - (end - from) \in Nat
    BY <1>11
  <2> QED
    BY <1>6, <2>1 DEF TaskRecord
<1>15. row \in Row
  BY <1>6, <1>12 DEF Row
<1> HIDE DEF piece, done, row
<1>16. /\ task' \in Seq(TaskRecord) /\ Len(task') = Len(task)
       /\ DOMAIN task' = DOMAIN task /\ task'[k] = done
       /\ \A q \in DOMAIN task : q # k => task'[q] = task[q]
  BY <1>0, <1>5, <1>8, <1>14, ExceptSeq DEF StateTyped
<1>17. /\ ran' \in Seq(Row) /\ Len(ran') = Len(ran) /\ ran'[k] = row
       /\ \A q \in DOMAIN task : q # k => ran'[q] = ran[q]
  BY <1>0, <1>5, <1>8, <1>15, Numbered, ExceptSeq DEF StateTyped
<1>18. /\ stack' \in [Threads -> Seq(Frame)] /\ PutDown(t)
       /\ \A u \in Threads : \A i \in DOMAIN stack[u] :
             ~(u = t /\ i = Len(stack[t])) =>
                 i \in DOMAIN stack'[u] /\ stack'[u][i] = stack[u][i]
  BY <1>0, <1>1, PopEffect DEF PutDown
<1>19. StateTyped'
  BY <1>0, <1>1, <1>16, <1>17, <1>18 DEF StateTyped
<1>20. TasksOK'
  <2>1. ASSUME NEW q \in DOMAIN task, q # k PROVE TaskOK(q)'
    BY <1>0, <1>16, <1>17, <2>1, TaskKept DEF TasksOK, TaskOK
  <2>2. TaskOK(k)'
    <3>1. Zeros(k)' = Zeros(k) \ piece
      BY <1>13, <1>14, <1>16, <1>17 DEF Zeros
    <3>2. task[k].next <= task[k].count
      BY <1>7 DEF TaskOK
    <3>3. \A j \in Indices(task[k].count) : j >= task[k].next => row[j] = 0
      <4>1. \A j \in Indices(task[k].count) : j >= task[k].next => ran[k][j] = 0 /\ j \notin piece
        BY <1>5, <1>6, <1>7, IndicesFinite DEF TaskOK, piece
      <4> QED
        BY <1>13, <4>1
    <3>4. done.open = Cardinality(Zeros(k)')
      BY <1>11, <1>14, <3>1
    <3>5. task[k].kind = "inline" => task[k].count = 1
      BY <1>7 DEF TaskOK
    <3>6. ~task[k].freed
      <4>1. from \in Zeros(k) /\ Zeros(k) # {}
        BY <1>5, <1>9 DEF piece
      <4> QED
        BY <1>0, <1>5, <1>7, <4>1, ZerosFinite, FS_EmptySet DEF TaskOK, Complete
    <3>7. ASSUME task[k].kind = "inline" PROVE done.open = 0
      <4>1. from = 0 /\ end = 1 /\ task[k].open <= 1
        BY <1>0, <1>5, <1>6, <1>7, <3>2, <3>5, <3>7, ZerosFinite DEF TaskOK
      <4> QED
        BY <1>6, <1>11, <1>14, <4>1
    <3> QED
      BY <1>12, <1>14, <1>16, <1>17, <3>2, <3>3, <3>4, <3>5, <3>6, <3>7 DEF TaskOK, Complete
  <2> QED
    BY <1>16, <2>1, <2>2 DEF TasksOK
<1>21. Frames'
  <2> SUFFICES ASSUME NEW u \in Threads, NEW i \in DOMAIN stack'[u]
               PROVE  FrameOK(stack[u][i])'
    BY DEF Frames
  <2>1. PICK g : g = stack'[u][i]
    OBVIOUS
  <2>2. g \in Frame /\ FrameOK(g) /\ PairOK(g, f)
    BY <1>1, <1>2, <1>18, <2>1, TopPairs
  <2>3. FrameOK(g)'
    <3>1. CASE g.task # k
      BY <1>16, <1>17, <2>2, <3>1 DEF FrameOK
    <3>2. CASE g.task = k
      <4>1. g.op # "lock" /\ (g.op = "run" => g.end <= from \/ end <= g.from)
        BY <1>3, <1>4, <2>2, <3>2 DEF PairOK
      <4>2. ASSUME g.op = "run" PROVE \A j \in g.from .. g.end - 1 : row[j] = 0
        <5>1. g.from \in Nat /\ g.end \in Nat /\ g.end <= task[k].next
              /\ \A j \in g.from .. g.end - 1 : ran[k][j] = 0
          BY <2>2, <3>2, <4>2, FrameTyped DEF FrameOK
        <5>2. \A j \in g.from .. g.end - 1 : j \in Indices(task[k].count)
          BY <1>6, <1>7, <5>1 DEF TaskOK, Indices
        <5>3. \A j \in g.from .. g.end - 1 : j \notin piece
          BY <1>5, <4>1, <4>2, <5>1 DEF piece
        <5> QED
          BY <1>13, <5>1, <5>2, <5>3
      <4> QED
        BY <1>14, <1>16, <1>17, <2>2, <3>2, <4>1, <4>2 DEF FrameOK
    <3> QED
      BY <3>1, <3>2
  <2> QED
    BY <2>1, <2>3
<1>22. Pairs'
  BY <1>0, <1>18, PairsPopped
<1>23. Submitted'
  BY <1>0, <1>1, <1>14, <1>16 DEF Submitted
<1>24. Holder'
  <2> SUFFICES ASSUME mutex # NoOne
               PROVE  \E i \in DOMAIN stack'[mutex] : stack'[mutex][i].op = "wait"
    BY <1>1 DEF Holder
  <2>1. PICK i \in DOMAIN stack[mutex] : stack[mutex][i].op = "wait"
    BY <1>0 DEF Holder
  <2>2. ~(mutex = t /\ i = Len(stack[t]))
    BY <1>0, <1>1, <2>1, TopFrame
  <2> QED
    BY <1>0, <1>18, <2>1, <2>2 DEF StateTyped
<1> QED
  BY <1>19, <1>20, <1>21, <1>22, <1>23, <1>24 DEF Inv

\* The loop's task is in the pipe now: the only frame that knows it waits.
LEMMA DispatchKeeps ==
    ASSUME Inv, NEW t \in Threads, Dispatch(t)
    PROVE  Inv'
<1>0. StateTyped /\ TasksOK /\ Frames /\ Pairs /\ Submitted /\ Holder
  BY DEF Inv
<1>1. PICK n, f : n = Len(stack[t]) /\ f = Top(t)
  OBVIOUS
<1>2. /\ f.op = "lock" /\ mutex = NoOne /\ mutex' = t
      /\ UNCHANGED <<pending, phase, ran>>
  BY <1>1 DEF Dispatch
<1>3. /\ f \in Frame /\ FrameOK(f) /\ f = stack[t][n]
      /\ n \in DOMAIN stack[t] /\ n \in Nat \ {0}
  BY <1>0, <1>1, <1>2, TopOK, TopFrame
<1>4. PICK k : k = f.task
  OBVIOUS
<1>5. /\ k \in DOMAIN task /\ task[k].kind = "range"
      /\ \A j \in Indices(task[k].count) : ran[k][j] = 0
  BY <1>2, <1>3, <1>4 DEF FrameOK
<1>6. /\ task[k] \in TaskRecord /\ task[k].count \in Nat \ {0} /\ task[k].next \in Nat
      /\ task[k].open \in Nat /\ task[k].freed \in BOOLEAN
  BY <1>0, <1>5, Numbered
<1>7. PICK g : g = [f EXCEPT !.op = "wait"]
  OBVIOUS
<1>8. g \in Frame /\ g.op = "wait" /\ g.task = k
  BY <1>2, <1>3, <1>4, <1>7 DEF Frame
<1>9. /\ task' = [task EXCEPT ![k] = [task[k] EXCEPT !.next = 0]]
      /\ stack' = [stack EXCEPT ![t] = [stack[t] EXCEPT ![n] = g]]
  <2>1. task' = [task EXCEPT ![k].next = 0] /\ stack' = [stack EXCEPT ![t][n].op = "wait"]
    BY <1>1, <1>4 DEF Dispatch
  <2> QED
    BY <1>3, <1>7, <2>1
<1>10. /\ task' \in Seq(TaskRecord) /\ Len(task') = Len(task)
       /\ DOMAIN task' = DOMAIN task /\ task'[k] = [task[k] EXCEPT !.next = 0]
       /\ \A q \in DOMAIN task : q # k => task'[q] = task[q]
  <2>1. [task[k] EXCEPT !.next = 0] \in TaskRecord
    BY <1>6 DEF TaskRecord
  <2> QED
    BY <1>0, <1>5, <1>9, <2>1, ExceptSeq DEF StateTyped
<1>11. /\ task'[k].kind = "range" /\ task'[k].count = task[k].count /\ task'[k].next = 0
       /\ task'[k].open = task[k].open /\ task'[k].freed = task[k].freed
  BY <1>5, <1>6, <1>10 DEF TaskRecord
<1>12. /\ stack'[t] \in Seq(Frame) /\ DOMAIN stack'[t] = DOMAIN stack[t]
       /\ stack'[t][n] = g
       /\ \A i \in DOMAIN stack[t] : i # n => stack'[t][i] = stack[t][i]
       /\ \A u \in Threads : u # t => stack'[u] = stack[u]
  <2>1. stack'[t] = [stack[t] EXCEPT ![n] = g] /\ \A u \in Threads : u # t => stack'[u] = stack[u]
    BY <1>0, <1>9 DEF StateTyped
  <2>2. stack[t] \in Seq(Frame)
    BY <1>0 DEF StateTyped
  <2> QED
    BY <1>3, <1>8, <2>1, <2>2, ExceptSeq
<1>13. stack' \in [Threads -> Seq(Frame)]
  BY <1>0, <1>9, <1>12 DEF StateTyped
<1>14. StateTyped'
  BY <1>0, <1>2, <1>10, <1>13 DEF StateTyped
<1>15. TasksOK'
  <2>1. ASSUME NEW q \in DOMAIN task, q # k PROVE TaskOK(q)'
    BY <1>0, <1>2, <1>10, <2>1, TaskKept DEF TasksOK, TaskOK
  <2>2. TaskOK(k)'
    <3>1. Zeros(k)' = Zeros(k)
      BY <1>2, <1>11 DEF Zeros
    <3>2. TaskOK(k)
      BY <1>0, <1>5 DEF TasksOK
    <3> QED
      BY <1>2, <1>5, <1>6, <1>11, <3>1, <3>2 DEF TaskOK, Complete
  <2> QED
    BY <1>10, <2>1, <2>2 DEF TasksOK
\* The others are busy with other tasks.
<1>16. ASSUME NEW u \in Threads, NEW i \in DOMAIN stack[u], u # t \/ i # n
       PROVE  /\ stack'[u][i] = stack[u][i] /\ stack[u][i].task # k
              /\ FrameOK(stack[u][i])
  <2>1. PairOK(stack[u][i], stack[t][n])
    BY <1>0, <1>3, <1>16 DEF Pairs
  <2> QED
    BY <1>0, <1>2, <1>3, <1>4, <1>12, <1>16, <2>1 DEF PairOK, Frames
<1>17. \A u \in Threads : DOMAIN stack'[u] = DOMAIN stack[u]
  BY <1>12
<1>18. Frames'
  <2> SUFFICES ASSUME NEW u \in Threads, NEW i \in DOMAIN stack'[u]
               PROVE  FrameOK(stack[u][i])'
    BY DEF Frames
  <2>1. i \in DOMAIN stack[u]
    BY <1>17
  <2>2. CASE u = t /\ i = n
    BY <1>5, <1>8, <1>10, <1>11, <1>12, <2>2 DEF FrameOK
  <2>3. CASE u # t \/ i # n
    <3>1. PICK h : h = stack[u][i]
      OBVIOUS
    <3>2. stack'[u][i] = h /\ h.task # k /\ FrameOK(h)
      BY <1>16, <2>1, <2>3, <3>1
    <3>3. FrameOK(h)'
      BY <1>2, <1>10, <3>2 DEF FrameOK
    <3> QED
      BY <3>2, <3>3
  <2> QED
    BY <2>2, <2>3
<1>19. Pairs'
  <2> SUFFICES ASSUME NEW u \in Threads, NEW v \in Threads,
                      NEW i \in DOMAIN stack'[u], NEW j \in DOMAIN stack'[v],
                      u # v \/ i # j
               PROVE  PairOK(stack'[u][i], stack'[v][j])
    BY DEF Pairs, PairOK
  <2>1. i \in DOMAIN stack[u] /\ j \in DOMAIN stack[v]
    BY <1>17
  <2>2. CASE u = t /\ i = n
    <3>1. stack'[u][i].task = k /\ stack'[v][j].task # k
      BY <1>8, <1>12, <1>16, <2>1, <2>2
    <3> QED
      BY <3>1 DEF PairOK
  <2>3. CASE v = t /\ j = n
    <3>1. stack'[v][j].task = k /\ stack'[u][i].task # k
      BY <1>8, <1>12, <1>16, <2>1, <2>3
    <3> QED
      BY <3>1 DEF PairOK
  <2>4. CASE (u # t \/ i # n) /\ (v # t \/ j # n)
    <3>1. stack'[u][i] = stack[u][i] /\ stack'[v][j] = stack[v][j]
      BY <1>16, <2>1, <2>4
    <3> QED
      BY <1>0, <2>1, <3>1 DEF Pairs
  <2> QED
    BY <2>2, <2>3, <2>4
<1>20. Submitted'
  BY <1>0, <1>2, <1>5, <1>10 DEF Submitted
<1>21. Holder'
  BY <1>2, <1>3, <1>8, <1>12 DEF Holder
<1> QED
  BY <1>14, <1>15, <1>18, <1>19, <1>20, <1>21 DEF Inv

LEMMA ReturnKeeps ==
    ASSUME Inv, NEW t \in Threads, Return(t)
    PROVE  Inv'
<1>0. StateTyped /\ TasksOK /\ Frames /\ Pairs /\ Submitted /\ Holder
  BY DEF Inv
<1>1. PICK k : k = Top(t).task
  OBVIOUS
<1>2. /\ Top(t).op = "wait" /\ Complete(k) /\ Pop(t)
      /\ task' = [task EXCEPT ![k].freed = TRUE]
      /\ mutex' = NoOne /\ UNCHANGED <<pending, phase, ran>>
  BY <1>1 DEF Return
<1>3. k \in DOMAIN task
  BY <1>1, <1>2, TopOK DEF FrameOK
<1>4. task[k] \in TaskRecord
  BY <1>0, <1>3, Numbered
<1>5. /\ task' \in Seq(TaskRecord) /\ Len(task') = Len(task)
      /\ DOMAIN task' = DOMAIN task /\ task'[k] = [task[k] EXCEPT !.freed = TRUE]
      /\ \A q \in DOMAIN task : q # k => task'[q] = task[q]
  <2>1. [task[k] EXCEPT !.freed = TRUE] \in TaskRecord
    BY <1>4 DEF TaskRecord
  <2> QED
    BY <1>0, <1>2, <1>3, <2>1, ExceptSeq DEF StateTyped
<1>6. \A q \in DOMAIN task :
         /\ task'[q].kind = task[q].kind /\ task'[q].count = task[q].count
         /\ task'[q].open = task[q].open /\ task'[q].next = task[q].next
         /\ task'[q].freed => task[q].freed \/ q = k
  BY <1>4, <1>5 DEF TaskRecord
<1>7. stack' \in [Threads -> Seq(Frame)] /\ PutDown(t)
  BY <1>0, <1>2, PopEffect DEF PutDown
<1>8. StateTyped'
  BY <1>0, <1>2, <1>5, <1>7 DEF StateTyped
<1>9. TasksOK'
  <2>1. ASSUME NEW q \in DOMAIN task PROVE TaskOK(q)'
    <3>1. TaskOK(q)
      BY <1>0, <2>1 DEF TasksOK
    <3>2. task'[q].freed => Complete(q)
      BY <1>2, <1>6, <2>1, <3>1 DEF TaskOK
    <3> QED
      BY <1>2, <1>6, <2>1, <3>1, <3>2, TaskKept
  <2> QED
    BY <1>5, <2>1 DEF TasksOK
<1>10. Frames'
  <2> SUFFICES ASSUME NEW u \in Threads, NEW i \in DOMAIN stack'[u]
               PROVE  FrameOK(stack[u][i])'
    BY DEF Frames
  <2>1. PICK g : g = stack'[u][i]
    OBVIOUS
  <2>2. FrameOK(g)
    BY <1>2, <1>7, <2>1, TopPairs
  <2>3. FrameOK(g)'
    BY <1>2, <1>5, <1>6, <2>2, FrameKept
  <2> QED
    BY <2>1, <2>3
<1>11. Pairs'
  BY <1>0, <1>7, PairsPopped
<1>12. Submitted' /\ Holder'
  BY <1>0, <1>2, <1>5, <1>6 DEF Submitted, Holder
<1> QED
  BY <1>8, <1>9, <1>10, <1>11, <1>12 DEF Inv
-----------------------------------------------------------------------------
(***************************************************************************)
(* GcCompletedPending keeps what is not complete, each once.               *)
(***************************************************************************)
LEMMA StayingFinite ==
    ASSUME StateTyped
    PROVE  /\ IsFiniteSet(Staying) /\ Cardinality(Staying) \in Nat
           /\ Staying \subseteq Nat
<1>1. Len(pending) \in Nat /\ DOMAIN pending = 1 .. Len(pending)
  BY LenProperties DEF StateTyped
<1>2. Staying \in SUBSET (1 .. Len(pending)) /\ IsFiniteSet(1 .. Len(pending))
  BY <1>1, FS_Interval DEF Staying
<1>3. IsFiniteSet(Staying)
  BY <1>2, FS_Subset
<1>4. Cardinality(Staying) \in Nat
  BY <1>3, FS_CardinalityType
<1>5. \A i \in 1 .. Len(pending) : i \in Nat
  BY <1>1
<1> QED
  BY <1>2, <1>3, <1>4, <1>5

LEMMA PlaceOrders ==
    ASSUME StateTyped, NEW i \in Staying
    PROVE  /\ Place(i) \in 1 .. Cardinality(Staying)
           /\ \A j \in Staying : j < i => Place(j) < Place(i)
<1>1. IsFiniteSet(Staying) /\ Cardinality(Staying) \in Nat /\ Staying \subseteq Nat
  BY StayingFinite
<1> DEFINE upTo(k) == {q \in Staying : q <= k}
<1>2. /\ IsFiniteSet(upTo(i)) /\ Cardinality(upTo(i)) <= Cardinality(Staying)
      /\ Cardinality(upTo(i)) \in Nat
  <2>1. upTo(i) \in SUBSET Staying
    OBVIOUS
  <2> QED
    BY <1>1, <2>1, FS_Subset, FS_CardinalityType
<1>3. Cardinality(upTo(i)) # 0
  <2>1. i \in upTo(i)
    BY <1>1
  <2> QED
    BY <1>2, <2>1, FS_EmptySet
<1>4. ASSUME NEW j \in Staying, j < i PROVE Cardinality(upTo(j)) < Cardinality(upTo(i))
  <2>0. \A q \in Staying : q <= j => q <= i
    BY <1>1, <1>4
  <2>1. upTo(j) \in SUBSET upTo(i)
    BY <2>0
  <2>5. i \in Nat /\ j \in Nat
    BY <1>1, <1>4
  <2>6. i \in upTo(i) /\ i \notin upTo(j)
    BY <1>4, <2>5
  <2> HIDE DEF upTo
  <2>2. /\ IsFiniteSet(upTo(j)) /\ Cardinality(upTo(j)) <= Cardinality(upTo(i))
        /\ Cardinality(upTo(i)) = Cardinality(upTo(j)) => upTo(i) = upTo(j)
    BY <1>2, <2>1, FS_Subset
  <2>3. Cardinality(upTo(j)) \in Nat
    BY <2>2, FS_CardinalityType
  <2> QED
    BY <1>2, <2>6, <2>2, <2>3
<1> QED
  BY <1>2, <1>3, <1>4 DEF Place

\* Every place is taken, by one task.
LEMMA PlacesTaken ==
    ASSUME StateTyped, NEW n \in 1 .. Cardinality(Staying)
    PROVE  \E i \in Staying : Place(i) = n
<1> DEFINE f == [i \in Staying |-> Place(i)]
           T == 1 .. Cardinality(Staying)
<1>1. f \in [Staying -> T]
  BY PlaceOrders
<1>2. \A i, j \in Staying : f[i] = f[j] => i = j
  <2> SUFFICES ASSUME NEW i \in Staying, NEW j \in Staying, i < j
               PROVE  f[i] # f[j]
    BY StayingFinite
  <2> QED
    BY PlaceOrders
<1>3. IsFiniteSet(Staying) /\ Cardinality(Staying) \in Nat
  BY StayingFinite
<1>4. IsFiniteSet(T) /\ Cardinality(T) = Cardinality(Staying)
  BY <1>3, FS_Interval
<1> HIDE DEF f, T
<1>5. f \in Injection(Staying, T)
  BY <1>1, <1>2 DEF Injection, IsInjective
<1>6. f \in Surjection(Staying, T)
  BY <1>4, <1>5, FS_Injection
<1> QED
  BY <1>6 DEF Surjection, f, T

LEMMA UnfinishedEffect ==
    ASSUME StateTyped
    PROVE  /\ Unfinished \in Seq(Nat)
           /\ \A n \in DOMAIN Unfinished :
                 \E i \in Staying : Place(i) = n /\ Unfinished[n] = pending[i]
           /\ \A i \in Staying :
                 \E n \in DOMAIN Unfinished : Unfinished[n] = pending[i]
<1>1. DOMAIN Unfinished = 1 .. Cardinality(Staying) /\ Cardinality(Staying) \in Nat
  BY StayingFinite DEF Unfinished
<1>2. ASSUME NEW n \in DOMAIN Unfinished
      PROVE  \E i \in Staying : Place(i) = n /\ Unfinished[n] = pending[i]
  <2>1. \E i \in Staying : Place(i) = n
    BY <1>1, <1>2, PlacesTaken
  <2>2. PICK i : i = CHOOSE j \in Staying : Place(j) = n
    OBVIOUS
  <2>3. i \in Staying /\ Place(i) = n
    BY <2>1, <2>2
  <2>4. Unfinished[n] = pending[i]
    BY <1>1, <1>2, <2>2 DEF Unfinished
  <2> QED
    BY <2>3, <2>4
<1>3. ASSUME NEW i \in Staying
      PROVE  \E n \in DOMAIN Unfinished : Unfinished[n] = pending[i]
  <2>1. Place(i) \in DOMAIN Unfinished
    BY <1>1, <1>3, PlaceOrders
  <2>2. PICK j \in Staying : Place(j) = Place(i) /\ Unfinished[Place(i)] = pending[j]
    BY <1>2, <2>1
  <2>3. ~(i < j) /\ ~(j < i)
    BY <1>1, <2>1, <2>2, PlaceOrders
  <2>4. i = j
    BY <2>3, StayingFinite
  <2> QED
    BY <2>1, <2>2, <2>4
<1>4. \A i \in Staying : pending[i] \in Nat
  BY ElementOfSeq, LenProperties DEF StateTyped, Staying
<1>5. Unfinished \in Seq(Nat)
  <2>1. \A n \in 1 .. Cardinality(Staying) : Unfinished[n] \in Nat
    BY <1>1, <1>2, <1>4
  <2>2. Unfinished \in [1 .. Cardinality(Staying) -> Nat]
    BY <2>1 DEF Unfinished
  <2> QED
    BY <1>1, <2>2, SeqDef
<1> QED
  BY <1>2, <1>3, <1>5

LEMMA OwnedKept ==
    ASSUME OwnedOnce, pending' = pending, DOMAIN task \subseteq DOMAIN task',
           \A k \in DOMAIN task : task[k].kind = "submit" =>
               task'[k].freed = task[k].freed,
           \A k \in DOMAIN task : task'[k].kind = task[k].kind,
           \A k \in DOMAIN task' : k \notin DOMAIN task => task'[k].kind # "submit"
    PROVE  OwnedOnce'
BY DEF OwnedOnce, IsInjective, ToSet

LEMMA SubmitKeeps ==
    ASSUME Inv, OwnedOnce, Submit
    PROVE  Inv' /\ OwnedOnce'
<1>0. StateTyped /\ TasksOK /\ Frames /\ Pairs /\ Submitted /\ Holder
  BY DEF Inv
<1>1. PICK n : n = Len(task) + 1
  OBVIOUS
<1> DEFINE reaped(k) == k \in ToSet(pending) /\ Reaped(k)
           left(k) == [task[k] EXCEPT !.freed = @ \/ reaped(k)]
           mid == [k \in DOMAIN task |-> left(k)]
           new == Task("submit", 1, TRUE)
           zeros == [i \in Indices(1) |-> 0]
<1>2. /\ task' = Append(mid, new) /\ ran' = Append(ran, zeros)
      /\ pending' = Append(Unfinished, n) /\ UNCHANGED <<mutex, stack, phase>>
  BY <1>1 DEF Submit
<1>3. \A k \in DOMAIN task :
         /\ left(k) \in TaskRecord /\ left(k).kind = task[k].kind
         /\ left(k).count = task[k].count /\ left(k).next = task[k].next
         /\ left(k).open = task[k].open
         /\ left(k).freed = (task[k].freed \/ reaped(k))
  <2> SUFFICES ASSUME NEW k \in DOMAIN task
               PROVE  /\ left(k) \in TaskRecord /\ left(k).kind = task[k].kind
                      /\ left(k).count = task[k].count /\ left(k).next = task[k].next
                      /\ left(k).open = task[k].open
                      /\ left(k).freed = (task[k].freed \/ reaped(k))
    OBVIOUS
  <2>1. task[k] \in TaskRecord
    BY <1>0, Numbered
  <2>2. PICK b \in BOOLEAN : b = (task[k].freed \/ reaped(k))
    OBVIOUS
  <2>3. left(k) = [task[k] EXCEPT !.freed = b]
    BY <2>2
  <2> HIDE DEF left, reaped
  <2> QED
    BY <2>1, <2>2, <2>3 DEF TaskRecord
<1>4. /\ new \in TaskRecord /\ new.count = 1 /\ new.kind = "submit"
      /\ new.next = 0 /\ new.open = 1 /\ new.freed = FALSE
  BY DEF Task, TaskRecord, Kinds
<1>5. zeros \in Row
  BY DEF Row
<1>6. n \in Nat /\ DOMAIN task = 1 .. Len(task) /\ Len(task) \in Nat /\ n \notin DOMAIN task
  BY <1>0, <1>1, Numbered
<1> HIDE DEF new, left
<1>7. mid \in Seq(TaskRecord) /\ Len(mid) = Len(task) /\ DOMAIN mid = DOMAIN task
  <2>1. mid \in [1 .. Len(task) -> TaskRecord]
    BY <1>3, <1>6
  <2> HIDE DEF mid
  <2> QED
    BY <1>6, <2>1, SeqDef, LenProperties
<1>8. \A k \in DOMAIN task : mid[k] = left(k)
  OBVIOUS
<1> HIDE DEF mid, zeros
<1>9. /\ task' \in Seq(TaskRecord) /\ ran' \in Seq(Row) /\ Len(ran') = Len(task')
      /\ DOMAIN task' = DOMAIN task \cup {n}
      /\ task'[n] = new /\ ran'[n] = zeros
      /\ \A k \in DOMAIN task : task'[k] = left(k) /\ ran'[k] = ran[k]
  <2>1. /\ task' \in Seq(TaskRecord) /\ Len(task') = Len(task) + 1
        /\ DOMAIN task' = 1 .. n /\ task'[n] = new
        /\ \A k \in DOMAIN task : task'[k] = left(k)
    BY <1>1, <1>2, <1>4, <1>6, <1>7, <1>8, AppendProperties, LenProperties
  <2>2. /\ ran' \in Seq(Row) /\ Len(ran') = Len(task) + 1
        /\ ran'[n] = zeros /\ \A k \in DOMAIN task : ran'[k] = ran[k]
    BY <1>0, <1>1, <1>2, <1>5, <1>6, AppendProperties, LenProperties DEF StateTyped
  <2> QED
    BY <1>1, <1>6, <2>1, <2>2
<1>10. \A k \in DOMAIN task :
         /\ task'[k].kind = task[k].kind /\ task'[k].count = task[k].count
         /\ task'[k].open = task[k].open /\ task'[k].next = task[k].next
         /\ task'[k].freed = (task[k].freed \/ reaped(k))
  BY <1>3, <1>9
<1>11. /\ Unfinished \in Seq(Nat)
       /\ \A m \in DOMAIN Unfinished :
             \E i \in Staying : Place(i) = m /\ Unfinished[m] = pending[i]
       /\ \A i \in Staying : \E m \in DOMAIN Unfinished : Unfinished[m] = pending[i]
  BY <1>0, UnfinishedEffect
<1>12. PICK last : last = Len(Unfinished) + 1
  OBVIOUS
<1>13. /\ pending' \in Seq(Nat) /\ pending'[last] = n
       /\ last \notin DOMAIN Unfinished
       /\ DOMAIN pending' = DOMAIN Unfinished \cup {last}
       /\ \A m \in DOMAIN Unfinished : pending'[m] = Unfinished[m]
  <2>1. Len(Unfinished) \in Nat /\ DOMAIN Unfinished = 1 .. Len(Unfinished)
    BY <1>11, LenProperties
  <2>2. /\ pending' \in Seq(Nat) /\ pending'[last] = n
        /\ DOMAIN pending' = 1 .. last
        /\ \A m \in DOMAIN Unfinished : pending'[m] = Unfinished[m]
    BY <1>2, <1>6, <1>11, <1>12, <2>1, AppendProperties, LenProperties
  <2> QED
    BY <1>12, <2>1, <2>2
<1>14. \A i \in Staying : i \in DOMAIN pending /\ ~Complete(pending[i])
  BY DEF Staying, Reaped
<1>15. StateTyped'
  BY <1>0, <1>2, <1>9, <1>13 DEF StateTyped
<1>16. TasksOK'
  <2>1. ASSUME NEW k \in DOMAIN task PROVE TaskOK(k)'
    <3>1. TaskOK(k)
      BY <1>0, <2>1 DEF TasksOK
    <3>2. task'[k].freed => Complete(k)
      BY <1>10, <2>1, <3>1 DEF TaskOK, Reaped
    <3> QED
      BY <1>9, <1>10, <2>1, <3>1, <3>2, TaskKept
  <2>2. TaskOK(n)'
    <3>1. Zeros(n)' = Indices(1)
      BY <1>4, <1>9 DEF Zeros, zeros
    <3>2. Cardinality(Indices(1)) = 1
      BY IndicesFinite
    <3> QED
      BY <1>4, <1>9, <3>1, <3>2 DEF TaskOK, zeros
  <2> QED
    BY <1>9, <2>1, <2>2 DEF TasksOK
<1>17. Frames'
  <2> SUFFICES ASSUME NEW u \in Threads, NEW i \in DOMAIN stack[u]
               PROVE  FrameOK(stack[u][i])'
    BY <1>2 DEF Frames
  <2>1. PICK g : g = stack[u][i]
    OBVIOUS
  <2>2. FrameOK(g)'
    BY <1>0, <1>9, <1>10, <2>1, FrameKept DEF Frames
  <2> QED
    BY <1>2, <2>1, <2>2
<1>18. Pairs' /\ Holder'
  BY <1>0, <1>2 DEF Pairs, Holder, PairOK
<1>19. Submitted'
  <2> SUFFICES ASSUME NEW m \in DOMAIN pending'
               PROVE  pending'[m] \in DOMAIN task' /\ task'[pending'[m]].kind = "submit"
    BY DEF Submitted
  <2>1. CASE m = last
    BY <1>4, <1>9, <1>13, <2>1
  <2>2. CASE m \in DOMAIN Unfinished
    <3>1. PICK i \in Staying : Unfinished[m] = pending[i]
      BY <1>11, <2>2
    <3>2. pending[i] \in DOMAIN task /\ task[pending[i]].kind = "submit"
      BY <1>0, <1>14 DEF Submitted
    <3> QED
      BY <1>9, <1>10, <1>13, <2>2, <3>1, <3>2
  <2> QED
    BY <1>13, <2>1, <2>2
<1>20. IsInjective(pending')
  <2> SUFFICES ASSUME NEW a \in DOMAIN pending', NEW b \in DOMAIN pending',
                      pending'[a] = pending'[b]
               PROVE  a = b
    BY DEF IsInjective
  <2>1. \A m \in DOMAIN Unfinished : pending'[m] # n
    BY <1>0, <1>6, <1>11, <1>13, <1>14 DEF Submitted
  <2>2. CASE a \in DOMAIN Unfinished /\ b \in DOMAIN Unfinished
    <3>1. PICK i \in Staying : Place(i) = a /\ Unfinished[a] = pending[i]
      BY <1>11, <2>2
    <3>2. PICK j \in Staying : Place(j) = b /\ Unfinished[b] = pending[j]
      BY <1>11, <2>2
    <3>3. i = j
      BY <1>13, <1>14, <2>2, <3>1, <3>2 DEF OwnedOnce, IsInjective
    <3> QED
      BY <3>1, <3>2, <3>3
  <2> QED
    BY <1>13, <2>1, <2>2
<1>21. ASSUME NEW k \in DOMAIN task', task'[k].kind = "submit"
       PROVE  (\E m \in DOMAIN pending' : pending'[m] = k) <=> ~task'[k].freed
  <2>1. CASE k = n
    BY <1>4, <1>9, <1>13, <2>1
  <2>2. CASE k \in DOMAIN task
    <3>1. (\E i \in DOMAIN pending : pending[i] = k) <=> ~task[k].freed
      BY <1>10, <1>21, <2>2 DEF OwnedOnce, ToSet
    <3>2. ASSUME NEW m \in DOMAIN pending', pending'[m] = k PROVE ~task'[k].freed
      <4>1. m \in DOMAIN Unfinished
        BY <1>6, <1>13, <2>2, <3>2
      <4>2. PICK i \in Staying : Unfinished[m] = pending[i]
        BY <1>11, <4>1
      <4>3. pending[i] = k /\ ~Complete(k) /\ i \in DOMAIN pending
        BY <1>13, <1>14, <3>2, <4>1, <4>2
      <4> QED
        BY <1>10, <2>2, <3>1, <4>3 DEF Reaped
    <3>3. ASSUME ~task'[k].freed PROVE \E m \in DOMAIN pending' : pending'[m] = k
      <4>1. ~task[k].freed /\ ~reaped(k)
        BY <1>10, <2>2, <3>3
      <4>2. PICK i \in DOMAIN pending : pending[i] = k
        BY <3>1, <4>1
      <4>3. i \in Staying
        BY <4>1, <4>2 DEF Staying, ToSet
      <4>4. PICK m \in DOMAIN Unfinished : Unfinished[m] = k
        BY <1>11, <4>2, <4>3
      <4> QED
        BY <1>13, <4>4
    <3> QED
      BY <3>2, <3>3
  <2> QED
    BY <1>9, <2>1, <2>2
<1>22. OwnedOnce'
  BY <1>20, <1>21 DEF OwnedOnce, ToSet
<1> QED
  BY <1>15, <1>16, <1>17, <1>18, <1>19, <1>22 DEF Inv

LEMMA ShutdownKeeps ==
    ASSUME Inv, OwnedOnce, Shutdown
    PROVE  Inv' /\ OwnedOnce'
<1>1. UNCHANGED <<task, pending, mutex, stack, ran>> /\ phase' = "closing"
  BY DEF Shutdown
<1>2. StateTyped'
  BY <1>1 DEF Inv, StateTyped
<1>3. TasksOK' /\ Submitted' /\ Holder' /\ OwnedOnce'
  BY <1>1 DEF Inv, TasksOK, TaskOK, Complete, Zeros, Submitted, Holder, OwnedOnce
<1>4. Frames' /\ Pairs'
  BY <1>1 DEF Inv, Frames, Pairs, FrameOK, PairOK
<1> QED
  BY <1>2, <1>3, <1>4 DEF Inv

LEMMA GoneKeeps ==
    ASSUME Inv, OwnedOnce, Gone
    PROVE  Inv' /\ OwnedOnce'
<1>0. StateTyped /\ TasksOK /\ Frames /\ Pairs /\ Submitted /\ Holder
  BY DEF Inv
<1> DEFINE left(k) == [task[k] EXCEPT !.freed = @ \/ k \in ToSet(pending)]
<1>1. /\ \A k \in DOMAIN task : Complete(k)
      /\ phase' = "gone" /\ pending' = <<>> /\ UNCHANGED <<mutex, stack, ran>>
      /\ task' = [k \in DOMAIN task |-> left(k)]
  BY DEF Gone
<1>2. \A k \in DOMAIN task :
         /\ left(k) \in TaskRecord /\ left(k).kind = task[k].kind
         /\ left(k).count = task[k].count /\ left(k).next = task[k].next
         /\ left(k).open = task[k].open
         /\ left(k).freed = (task[k].freed \/ k \in ToSet(pending))
  <2> SUFFICES ASSUME NEW k \in DOMAIN task
               PROVE  /\ left(k) \in TaskRecord /\ left(k).kind = task[k].kind
                      /\ left(k).count = task[k].count /\ left(k).next = task[k].next
                      /\ left(k).open = task[k].open
                      /\ left(k).freed = (task[k].freed \/ k \in ToSet(pending))
    OBVIOUS
  <2>1. task[k] \in TaskRecord
    BY <1>0, Numbered
  <2>2. PICK b \in BOOLEAN : b = (task[k].freed \/ k \in ToSet(pending))
    OBVIOUS
  <2>3. left(k) = [task[k] EXCEPT !.freed = b]
    BY <2>2
  <2> HIDE DEF left
  <2> QED
    BY <2>1, <2>2, <2>3 DEF TaskRecord
<1>3. DOMAIN task = 1 .. Len(task) /\ Len(task) \in Nat
  BY <1>0, Numbered
<1> HIDE DEF left
<1>4. /\ task' \in Seq(TaskRecord) /\ Len(task') = Len(task) /\ DOMAIN task' = DOMAIN task
      /\ \A k \in DOMAIN task : task'[k] = left(k)
  <2>1. task' \in [1 .. Len(task) -> TaskRecord]
    BY <1>1, <1>2, <1>3
  <2> QED
    BY <1>1, <1>3, <2>1, SeqDef, LenProperties
<1>5. \A k \in DOMAIN task :
         /\ task'[k].kind = task[k].kind /\ task'[k].count = task[k].count
         /\ task'[k].open = task[k].open /\ task'[k].next = task[k].next
         /\ task'[k].freed = (task[k].freed \/ k \in ToSet(pending))
  BY <1>2, <1>4
<1>6. pending' \in Seq(Nat) /\ DOMAIN pending' = {}
  BY <1>1, EmptySeq, LenProperties
<1>7. StateTyped'
  BY <1>0, <1>1, <1>4, <1>6 DEF StateTyped
<1>8. TasksOK'
  <2>1. ASSUME NEW k \in DOMAIN task PROVE TaskOK(k)'
    BY <1>0, <1>1, <1>5, <2>1, TaskKept DEF TasksOK
  <2> QED
    BY <1>4, <2>1 DEF TasksOK
<1>9. Frames'
  <2> SUFFICES ASSUME NEW u \in Threads, NEW i \in DOMAIN stack[u]
               PROVE  FrameOK(stack[u][i])'
    BY <1>1 DEF Frames
  <2>1. PICK g : g = stack[u][i]
    OBVIOUS
  <2>2. FrameOK(g)'
    BY <1>0, <1>1, <1>4, <1>5, <2>1, FrameKept DEF Frames
  <2> QED
    BY <1>1, <2>1, <2>2
<1>10. Pairs' /\ Holder'
  BY <1>0, <1>1 DEF Pairs, Holder, PairOK
<1>11. Submitted'
  BY <1>6 DEF Submitted
<1>12. OwnedOnce'
  BY <1>4, <1>5, <1>6 DEF OwnedOnce, IsInjective, ToSet
<1> QED
  BY <1>7, <1>8, <1>9, <1>10, <1>11, <1>12 DEF Inv
-----------------------------------------------------------------------------
(***************************************************************************)
(* What the pool owns is the business of Submit and the destructor alone.  *)
(***************************************************************************)
LEMMA WorkOwns ==
    ASSUME Inv, OwnedOnce, NEW t \in Threads, Work(t)
    PROVE  OwnedOnce'
<1>1. StateTyped /\ \A k \in DOMAIN task : task[k] \in TaskRecord
  BY Numbered DEF Inv
<1>2. CASE Take(t)
  <2>1. PICK k \in DOMAIN task, end \in Nat : task' = [task EXCEPT ![k].next = end]
    <3>1. \A k \in DOMAIN task : task[k].next + 1 .. task[k].count \subseteq Nat
      BY <1>1, Numbered
    <3> QED
      BY <1>2, <3>1 DEF Take
  <2> QED
    BY <1>1, <1>2, <2>1, OwnedKept DEF Take, TaskRecord
<1>3. CASE Finish(t)
  <2>1. PICK k : k = Top(t).task
    OBVIOUS
  <2>2. k \in DOMAIN task
    BY <1>3, <2>1, TopOK DEF Finish, FrameOK
  <2>3. PICK o, b : task' = [task EXCEPT ![k] = [@ EXCEPT !.open = o, !.freed = b]]
                    /\ b = (task[k].freed \/ task[k].kind = "inline")
    <3>1. task' = [task EXCEPT ![k] =
             [@ EXCEPT !.open = task[k].open - (Top(t).end - Top(t).from),
                       !.freed = task[k].freed \/ task[k].kind = "inline"]]
      BY <1>3, <2>1 DEF Finish
    <3> QED
      BY <3>1
  <2>4. /\ DOMAIN task' = DOMAIN task
        /\ \A q \in DOMAIN task : q # k => task'[q] = task[q]
        /\ task'[k] = [task[k] EXCEPT !.open = o, !.freed = b]
    BY <1>1, <2>2, <2>3
  <2>5. task'[k].kind = task[k].kind /\ task'[k].freed = b
    BY <1>1, <2>2, <2>4 DEF TaskRecord
  <2>6. b \in BOOLEAN /\ task[k].freed \in BOOLEAN
        /\ (task[k].kind = "submit" => b = task[k].freed)
    BY <1>1, <2>2, <2>3 DEF TaskRecord
  <2>7. UNCHANGED pending
    BY <1>3 DEF Finish
  <2> QED
    BY <2>4, <2>5, <2>6, <2>7, OwnedKept
<1>4. CASE Dispatch(t)
  <2>1. PICK k : k = Top(t).task
    OBVIOUS
  <2>2. task' = [task EXCEPT ![k].next = 0] /\ UNCHANGED pending
    BY <1>4, <2>1 DEF Dispatch
  <2> QED
    BY <1>1, <2>2, OwnedKept DEF TaskRecord
<1>5. CASE Return(t)
  <2>1. PICK k : k = Top(t).task
    OBVIOUS
  <2>2. task' = [task EXCEPT ![k].freed = TRUE] /\ UNCHANGED pending
    BY <1>5, <2>1 DEF Return
  <2>3. k \in DOMAIN task /\ task[k].kind = "range"
    BY <1>5, <2>1, TopOK DEF Return, FrameOK
  <2> QED
    BY <1>1, <2>2, <2>3, OwnedKept DEF TaskRecord
<1> QED
  BY <1>2, <1>3, <1>4, <1>5 DEF Work

LEMMA StartOwns ==
    ASSUME Inv, OwnedOnce, NEW t \in Threads, ParallelForOne(t) \/ ParallelFor(t)
    PROVE  OwnedOnce'
<1>0. StateTyped /\ TasksOK
  BY DEF Inv
<1>1. PICK kind \in {"range", "inline"}, count \in Nat \ {0} :
         /\ kind = "inline" => count = 1
         /\ Create(Task(kind, count, FALSE))
  <2>1. CASE ParallelForOne(t)
    <3>1. "inline" \in {"range", "inline"} /\ 1 \in Nat \ {0}
      OBVIOUS
    <3> QED
      BY <2>1, <3>1 DEF ParallelForOne
  <2>2. CASE ParallelFor(t)
    <3>1. PICK count \in Counts \cup NestedCounts : Create(Task("range", count, FALSE))
      BY <2>2 DEF ParallelFor
    <3>2. count \in Nat \ {0} /\ "range" \in {"range", "inline"} /\ "range" # "inline"
      BY <3>1, PoolAssumption
    <3> QED
      BY <3>1, <3>2
  <2> QED
    BY <2>1, <2>2
<1>2. PICK n : n = Len(task) + 1
  OBVIOUS
<1>3. /\ DOMAIN task' = DOMAIN task \cup {n} /\ n \notin DOMAIN task
      /\ \A k \in DOMAIN task : task'[k] = task[k]
      /\ task'[n] = Task(kind, count, FALSE)
  <2>1. kind \in Kinds /\ FALSE \in BOOLEAN
    BY DEF Kinds
  <2> QED
    BY <1>0, <1>1, <1>2, <2>1, CreateEffect
<1>4. task'[n].kind # "submit"
  BY <1>1, <1>3 DEF Task
<1>5. UNCHANGED pending
  BY DEF ParallelForOne, ParallelFor
<1> QED
  BY <1>3, <1>4, <1>5, OwnedKept
-----------------------------------------------------------------------------
LEMMA InitInv ==
    Init => Inv /\ OwnedOnce
<1> SUFFICES ASSUME Init PROVE Inv /\ OwnedOnce
  OBVIOUS
<1>1. /\ task = <<>> /\ pending = <<>> /\ ran = <<>> /\ mutex = NoOne /\ phase = "up"
      /\ stack = [t \in Threads |-> <<>>]
  BY DEF Init
<1>2. /\ <<>> \in Seq(TaskRecord) /\ <<>> \in Seq(Row) /\ <<>> \in Seq(Nat)
      /\ <<>> \in Seq(Frame) /\ DOMAIN <<>> = {}
  BY EmptySeq
<1>3. stack \in [Threads -> Seq(Frame)] /\ \A t \in Threads : DOMAIN stack[t] = {}
  BY <1>1, <1>2
<1>4. StateTyped
  BY <1>1, <1>2, <1>3 DEF StateTyped
<1>5. DOMAIN task = {} /\ DOMAIN pending = {}
  BY <1>1, <1>2
<1>6. TasksOK /\ Submitted /\ Holder
  BY <1>1, <1>5 DEF TasksOK, Submitted, Holder
<1>7. Frames /\ Pairs
  BY <1>3 DEF Frames, Pairs
<1>8. OwnedOnce
  BY <1>5 DEF OwnedOnce, IsInjective
<1> QED
  BY <1>4, <1>6, <1>7, <1>8 DEF Inv

LEMMA NextInv ==
    Inv /\ OwnedOnce /\ [Next]_vars => Inv' /\ OwnedOnce'
<1> SUFFICES ASSUME Inv, OwnedOnce, [Next]_vars PROVE Inv' /\ OwnedOnce'
  OBVIOUS
<1>1. ASSUME NEW t \in Threads, Work(t) PROVE Inv' /\ OwnedOnce'
  BY <1>1, TakeKeeps, FinishKeeps, DispatchKeeps, ReturnKeeps, WorkOwns DEF Work
<1>2. ASSUME NEW t \in Threads, ParallelForOne(t) \/ ParallelFor(t) PROVE Inv' /\ OwnedOnce'
  BY <1>2, ParallelForOneKeeps, ParallelForKeeps, StartOwns
<1>3. CASE Submit
  BY <1>3, SubmitKeeps
<1>4. CASE Shutdown
  BY <1>4, ShutdownKeeps
<1>5. CASE Gone
  BY <1>5, GoneKeeps
<1>6. CASE UNCHANGED vars
  <2>1. UNCHANGED <<task, pending, mutex, stack, phase, ran>>
    BY <1>6 DEF vars
  <2>2. StateTyped' /\ Submitted' /\ Holder' /\ OwnedOnce'
    BY <2>1 DEF Inv, StateTyped, Submitted, Holder, OwnedOnce
  <2>3. TasksOK'
    BY <2>1 DEF Inv, TasksOK, TaskOK, Complete, Zeros
  <2>4. Frames' /\ Pairs'
    BY <2>1 DEF Inv, Frames, Pairs, FrameOK, PairOK
  <2> QED
    BY <2>2, <2>3, <2>4 DEF Inv
<1> QED
  BY <1>1, <1>2, <1>3, <1>4, <1>5, <1>6 DEF Next

LEMMA Always ==
    Spec => [](Inv /\ OwnedOnce)
<1> QED
  BY InitInv, NextInv, PTL DEF Spec
-----------------------------------------------------------------------------
\* The types of the pool's state; the lock is held by a thread that waits,
\* so that it is never left locked by a loop that has returned.
THEOREM TypeCorrect ==
    Spec => []TypeOK
<1>1. Inv => TypeOK
  <2> SUFFICES ASSUME Inv PROVE TypeOK
    OBVIOUS
  <2>0. StateTyped /\ TasksOK /\ Submitted /\ Holder
    BY DEF Inv
  <2>1. ASSUME NEW k \in DOMAIN task
        PROVE  /\ task[k].kind \in {"range", "inline", "submit"}
               /\ task[k].next \in 0 .. task[k].count
               /\ task[k].open \in 0 .. task[k].count
    <3>1. TaskOK(k) /\ task[k].next \in Nat /\ task[k].count \in Nat
          /\ task[k] \in TaskRecord
      BY <2>0, <2>1, Numbered DEF TasksOK
    <3>2. task[k].kind \in {"range", "inline", "submit"}
      BY <3>1 DEF TaskRecord, Kinds
    <3> QED
      BY <2>0, <2>1, <3>1, <3>2, ZerosFinite DEF TaskOK
  <2>2. ToSet(pending) \subseteq DOMAIN task
    BY <2>0 DEF Submitted, ToSet
  <2>3. \A t \in Threads : \A i \in DOMAIN stack[t] :
           stack[t][i].op \in {"lock", "wait", "run"}
    BY <2>0, FrameOf, FrameTyped
  <2> QED
    BY <2>0, <2>1, <2>2, <2>3 DEF TypeOK, Holder, StateTyped
<1> QED
  BY <1>1, Always, PTL

\* A task whose loop has returned, or that was deleted, has run every index
\* exactly once: no sub-range is left in the pipe or in a thread's hands, none
\* was handed out twice.
THEOREM LoopsAreWhole ==
    Spec => []GoneIsDone
<1>1. Inv => GoneIsDone
  BY CompleteMeansRun DEF Inv, TasksOK, TaskOK, GoneIsDone
<1> QED
  BY <1>1, Always, PTL

\* The pool owns each submitted task once, from Submit to its deletion: what
\* GcCompletedPending moves up is neither lost nor kept twice.
THEOREM TasksAreOwned ==
    Spec => []OwnedOnce
<1> QED
  BY Always, PTL
=============================================================================
