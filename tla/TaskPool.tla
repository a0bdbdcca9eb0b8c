------------------------------ MODULE TaskPool ------------------------------
(***************************************************************************)
(* TaskPool: parallel loops and fire-and-forget tasks on a scheduler whose *)
(* workers take pieces of the tasks in its pipe.  A thread that waits for  *)
(* a task runs pieces meanwhile, its own or others, so that every thread   *)
(* has a stack of what it is in the middle of.                             *)
(***************************************************************************)
EXTENDS Naturals, Sequences, FiniteSets, SequencesExt

CONSTANTS
    Main,          \* the thread that constructed the pool
    Workers,       \* the scheduler's other threads
    NoOne,         \* nobody holds _submitMutex
    Counts,        \* lengths of the loops Main runs
    NestedCounts,  \* lengths of the loops that the work of a task runs
    MaxTasks       \* bound on the tasks of one behaviour

ASSUME PoolAssumption ==
    /\ Main \notin Workers /\ NoOne \notin Workers \cup {Main}
    /\ Counts \subseteq Nat \ {0} /\ NestedCounts \subseteq Nat \ {0}
    /\ MaxTasks \in Nat

VARIABLES
    task,     \* the tasks created so far
    pending,  \* _pending: the tasks of Submit that the pool owns
    mutex,    \* who holds _submitMutex
    stack,    \* what each thread is in the middle of, the innermost last
    phase,    \* the pool's life: up, closing, gone
    ran       \* history: how often each index of each task was run

vars == <<task, pending, mutex, stack, phase, ran>>

Threads == Workers \cup {Main}

Indices(c) == 0 .. c - 1

Init ==
    /\ task = <<>>
    /\ pending = <<>>
    /\ mutex = NoOne
    /\ stack = [t \in Threads |-> <<>>]
    /\ phase = "up"
    /\ ran = <<>>

(***************************************************************************)
(* The scheduler, as far as the pool relies on it.                         *)
(***************************************************************************)
\* GetIsComplete: every index of the task has been run.
Complete(k) == task[k].open = 0

Top(t) == IF stack[t] = <<>> THEN [op |-> "idle"] ELSE Last(stack[t])

Push(t, frame) == stack' = [stack EXCEPT ![t] = Append(@, frame)]

Pop(t) == stack' = [stack EXCEPT ![t] = Front(@)]

\* A task of count indices, none of them taken yet, is in the pipe once added.
Task(kind, count, added) ==
    [kind |-> kind, count |-> count, next |-> IF added THEN 0 ELSE count,
     open |-> count, freed |-> FALSE]

Create(new) ==
    /\ Len(task) < MaxTasks
    /\ task' = Append(task, new)
    /\ ran' = Append(ran, [i \in Indices(new.count) |-> 0])

\* Who looks for work: idle workers, those that wait for a task, and the main
\* thread in WaitforAllAndShutdown.
Seeks(t) ==
    \/ t \in Workers /\ Top(t).op = "idle"
    \/ Top(t).op = "wait" /\ ~Complete(Top(t).task)
    \/ t = Main /\ phase = "closing"

Take(t) ==
    /\ Seeks(t)
    /\ \E k \in DOMAIN task : \E end \in task[k].next + 1 .. task[k].count :
          /\ task' = [task EXCEPT ![k].next = end]
          /\ Push(t, [op |-> "run", task |-> k, from |-> task[k].next,
                      end |-> end])
    /\ UNCHANGED <<pending, mutex, phase, ran>>

Finish(t) ==
    /\ Top(t).op = "run"
    /\ LET f == Top(t)
       IN  /\ task' = [task EXCEPT
                 ![f.task].open = @ - (f.end - f.from),
                 ![f.task].freed = @ \/ task[f.task].kind = "inline"]
           /\ ran' = [ran EXCEPT ![f.task] =
                 [i \in DOMAIN @ |-> @[i] + (IF i \in f.from .. f.end - 1
                                             THEN 1 ELSE 0)]]
    /\ Pop(t)
    /\ UNCHANGED <<pending, mutex, phase>>
-----------------------------------------------------------------------------
(***************************************************************************)
(* The pool.                                                               *)
(***************************************************************************)
\* From the constructing thread, or from the work of a task.
Calls(t, count) ==
    \/ t = Main /\ phase = "up" /\ Top(t).op = "idle" /\ count \in Counts
    \/ Top(t).op = "run" /\ count \in NestedCounts

\* ParallelFor of one index runs it at once, without the lock.
ParallelForOne(t) ==
    /\ Calls(t, 1)
    /\ Create(Task("inline", 1, FALSE))
    /\ Push(t, [op |-> "run", task |-> Len(task) + 1, from |-> 0, end |-> 1])
    /\ UNCHANGED <<pending, mutex, phase>>

\* ParallelFor of several: wait for the lock, ...
ParallelFor(t) ==
    /\ \E count \in Counts \cup NestedCounts :
          /\ count > 1 /\ Calls(t, count)
          /\ Create(Task("range", count, FALSE))
    /\ Push(t, [op |-> "lock", task |-> Len(task) + 1])
    /\ UNCHANGED <<pending, mutex, phase>>

\* ... add the task, and wait for it with the lock held; ...
Dispatch(t) ==
    /\ Top(t).op = "lock" /\ mutex = NoOne
    /\ mutex' = t
    /\ task' = [task EXCEPT ![Top(t).task].next = 0]
    /\ stack' = [stack EXCEPT ![t][Len(stack[t])].op = "wait"]
    /\ UNCHANGED <<pending, phase, ran>>

\* Variant, a bug the runs must detect: not the whole task is waited for.
ReturnWhenTaken(t) ==
    /\ Top(t).op = "wait" /\ task[Top(t).task].next = task[Top(t).task].count
    /\ mutex' = NoOne
    /\ task' = [task EXCEPT ![Top(t).task].freed = TRUE]
    /\ Pop(t)
    /\ UNCHANGED <<pending, phase, ran>>

\* Variant, a bug the runs must detect: the lock is not released.
ReturnLocked(t) ==
    /\ Top(t).op = "wait" /\ Complete(Top(t).task)
    /\ task' = [task EXCEPT ![Top(t).task].freed = TRUE]
    /\ Pop(t)
    /\ UNCHANGED <<pending, mutex, phase, ran>>

\* ... return, which destroys the task and releases the lock.
Return(t) ==
    /\ Top(t).op = "wait" /\ Complete(Top(t).task)
    /\ mutex' = NoOne
    /\ task' = [task EXCEPT ![Top(t).task].freed = TRUE]
    /\ Pop(t)
    /\ UNCHANGED <<pending, phase, ran>>

\* GcCompletedPending: what is complete is deleted.
Reaped(k) == Complete(k)

\* Variant, a bug the runs must detect: what is deleted stays in the list.
Kept == pending

\* The rest moves up, each to the place after those that stay before it.
Staying == {i \in DOMAIN pending : ~Reaped(pending[i])}

Place(i) == Cardinality({j \in Staying : j <= i})

Unfinished ==
    [n \in 1 .. Cardinality(Staying) |->
        pending[CHOOSE i \in Staying : Place(i) = n]]

\* Variant, a bug the runs must detect: the task is not added to the pipe.
SubmitUnadded ==
    /\ phase = "up" /\ Top(Main).op = "idle" /\ mutex = NoOne
    /\ Create(Task("submit", 1, FALSE))
    /\ pending' = Append(pending, Len(task) + 1)
    /\ UNCHANGED <<mutex, stack, phase>>

Submit ==
    /\ phase = "up" /\ Top(Main).op = "idle" /\ mutex = NoOne
    /\ Len(task) < MaxTasks
    /\ task' = Append([k \in DOMAIN task |->
                          [task[k] EXCEPT !.freed =
                              @ \/ (k \in ToSet(pending) /\ Reaped(k))]],
                      Task("submit", 1, TRUE))
    /\ ran' = Append(ran, [i \in Indices(1) |-> 0])
    /\ pending' = Append(Unfinished, Len(task) + 1)
    /\ UNCHANGED <<mutex, stack, phase>>

\* ~TaskPool: WaitforAllAndShutdown, then delete what is left.
Shutdown ==
    /\ phase = "up" /\ Top(Main).op = "idle"
    /\ phase' = "closing"
    /\ UNCHANGED <<task, pending, mutex, stack, ran>>

Gone ==
    /\ phase = "closing" /\ Top(Main).op = "idle"
    /\ \A k \in DOMAIN task : Complete(k)
    /\ phase' = "gone"
    /\ task' = [k \in DOMAIN task |->
                   [task[k] EXCEPT !.freed = @ \/ k \in ToSet(pending)]]
    /\ pending' = <<>>
    /\ UNCHANGED <<mutex, stack, ran>>

Work(t) == Take(t) \/ Finish(t) \/ Dispatch(t) \/ Return(t)

Next ==
    \/ \E t \in Threads : Work(t) \/ ParallelForOne(t) \/ ParallelFor(t)
    \/ Submit \/ Shutdown \/ Gone

\* Threads go on with what they are in the middle of, and look for work.
Fairness == /\ \A t \in Threads : WF_vars(Work(t))
            /\ WF_vars(Gone)

Spec == Init /\ [][Next]_vars

FairSpec == Spec /\ Fairness
-----------------------------------------------------------------------------
(***************************************************************************)
(* Properties.                                                             *)
(***************************************************************************)
\* The types of the pool's state; the lock is held by a thread that waits.
TypeOK ==
    /\ \A k \in DOMAIN task :
          /\ task[k].kind \in {"range", "inline", "submit"}
          /\ task[k].next \in 0 .. task[k].count
          /\ task[k].open \in 0 .. task[k].count
    /\ ToSet(pending) \subseteq DOMAIN task
    /\ \A t \in Threads : \A i \in DOMAIN stack[t] :
          stack[t][i].op \in {"lock", "wait", "run"}
    /\ mutex # NoOne => \E i \in DOMAIN stack[mutex] : stack[mutex][i].op = "wait"
    /\ phase \in {"up", "closing", "gone"}

\* A task that is gone, because its loop returned or it was reaped, has run
\* every index exactly once: the sub-ranges cover [0, count) and none is
\* still running or waiting in the pipe.
GoneIsDone ==
    \A k \in DOMAIN task :
        task[k].freed => \A i \in DOMAIN ran[k] : ran[k][i] = 1

\* The pool owns each submitted task once until it deletes it, and only those:
\* none leaks, none is deleted twice.
OwnedOnce ==
    /\ IsInjective(pending)
    /\ \A k \in DOMAIN task :
          task[k].kind = "submit" => (k \in ToSet(pending) <=> ~task[k].freed)

\* The loop that holds the lock waits for a thread that waits for the lock: in
\* the middle of a piece of this very loop, or on the loop's own stack.
Tangled ==
    \E t \in Threads : \E i \in DOMAIN stack[t] : \E k \in DOMAIN task :
        /\ Top(t).op = "lock" /\ mutex # NoOne
        /\ [op |-> "wait", task |-> k] \in ToSet(stack[mutex])
        /\ t = mutex \/ (stack[t][i].op = "run" /\ stack[t][i].task = k)

\* Unless loops of several indices are nested so that they wait for one
\* another, nothing hangs, whatever loops, submissions and shutdown come: what
\* was submitted is run, a thread that calls ParallelFor gets out of it, and
\* the destructor ends.
NothingHangs ==
    /\ \A k \in 1 .. MaxTasks :
          (k \in DOMAIN task /\ task[k].kind = "submit")
              ~> ((k \in DOMAIN task /\ Complete(k)) \/ Tangled)
    /\ \A t \in Threads :
          Top(t).op \in {"lock", "wait"} ~> (stack[t] = <<>> \/ Tangled)
    /\ phase = "closing" ~> (phase = "gone" \/ Tangled)
=============================================================================
