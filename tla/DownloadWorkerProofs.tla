------------------------ MODULE DownloadWorkerProofs ------------------------
(***************************************************************************)
(* For every catalog, whatever the sizes and the failures: the invariants  *)
(* of DownloadWorker and the bar that never goes back.  Shape holds of     *)
(* every run by itself and ties the dialog to the last one; Files says     *)
(* what the run that goes on has put on the disk, as long as no two runs   *)
(* go on at once.  Shape is inductive, and Files is together with it.      *)
(***************************************************************************)
EXTENDS DownloadWorker, SequenceTheorems, TLAPS

Held       == {"stream", "replace", "rename"}
Counted    == {"stream", "replace", "rename", "landed", "write", "close",
               "manifest", "text", "complete"}
PastRename == {"landed", "write", "close", "manifest", "text", "complete",
               "finish"}
Deaf       == {"write", "close", "manifest", "text", "complete", "finish"}

\* What holds of a run wherever its thread is, n being the runs there are.
RunSound(x, n) ==
    /\ x \in Run
    /\ x.item \in DOMAIN x.todo
    /\ IsInjective(x.todo)
    /\ x.file \in 0 .. n
    /\ x.at \in Held => x.file # 0
    /\ x.at \in {"write", "close"} => x.entry # 0
    /\ ~(x.done /\ x.failed)
    /\ x.done \/ x.failed => x.at = "ended"
    /\ x.cancel /\ ~x.late => x.at \notin Deaf /\ ~x.done /\ ~x.failed
    /\ x.at = "finish" => x.item = Len(x.todo)
    /\ x.at = "open" => x.received = 0
    /\ x.at \in {"head", "open"} => x.overall = x.completed
    /\ x.at \in Counted => /\ x.overall = x.completed + x.received
                           /\ x.received <= Size[x.todo[x.item]]

AllRuns == \A r \in DOMAIN runs : RunSound(runs[r], Len(runs))

Spent == [faults : Nat, crashes : Nat, unnoticed : SUBSET (Nat \X Nat \X Nat)]

StateTyped ==
    /\ runs \in Seq(Run) /\ Len(runs) <= MaxRuns
    /\ dialog \in {"closed", "prompt", "running", "failed", "done"}
    /\ current \in 0 .. Len(runs)
    /\ job \in Seq(Mod)
    /\ part \in [Mod -> 0 .. Len(runs)]
    /\ archive \in [Mod -> 0 .. Len(runs)]
    /\ bytes \in [Mod -> [1 .. MaxRuns -> SUBSET Nat]]
    /\ installed \in [Mod -> [files : SUBSET (1 .. Manifest), shows : BOOLEAN]]
    /\ spent \in Spent
    /\ overlapped \in BOOLEAN
-----------------------------------------------------------------------------
LEMMA Constants ==
    /\ Mods \in Nat /\ Entries \in Nat \ {0} /\ MaxRuns \in Nat
    /\ \A m \in Mod : Expected[m] \in Nat /\ Size[m] \in Nat \ {0}
BY DownloadAssumption DEF Mod

LEMMA Numbers == Mods \in Nat /\ Entries \in Nat \ {0} /\ MaxRuns \in Nat
BY DownloadAssumption

LEMMA TaskTyped ==
    ASSUME AllRuns, NEW r \in DOMAIN runs
    PROVE  /\ Task(r) \in Mod /\ runs[r].item \in 1 .. Len(runs[r].todo)
           /\ Task(r) = runs[r].todo[runs[r].item]
           /\ runs[r] \in Run
BY DEF AllRuns, RunSound, Task, Run
-----------------------------------------------------------------------------
\* What a step of run r may do to the runs.
Steps(r) ==
    /\ runs' = [runs EXCEPT ![r] = runs'[r]]
    /\ RunSound(runs'[r], Len(runs))
    /\ runs'[r].todo = runs[r].todo
    /\ Announced => runs'[r].overall >= runs[r].overall

LEMMA GoToSteps ==
    ASSUME StateTyped, AllRuns, NEW r \in DOMAIN runs,
           NEW from \in Places, NEW to \in Places, GoTo(r, from, to)
    PROVE  /\ runs' = [runs EXCEPT ![r] = [runs[r] EXCEPT !.at = to]]
           /\ runs'[r] = [runs[r] EXCEPT !.at = to]
           /\ runs' = [runs EXCEPT ![r] = runs'[r]]
           /\ runs[r].at = from
BY DEF GoTo, StateTyped

\* The steps that change nothing of a run but its place.
Moves ==
    {<<"open", "refused">>, <<"stream", "replace">>, <<"stream", "discard">>,
     <<"discard", "refused">>, <<"replace", "rename">>, <<"rename", "landed">>,
     <<"rename", "discard">>, <<"write", "close">>, <<"manifest", "text">>,
     <<"text", "complete">>,
     <<"head", "ended">>, <<"landed", "ended">>, <<"refused", "ended">>}

LEMMA MoveSteps ==
    ASSUME StateTyped, AllRuns, NEW r \in DOMAIN runs,
           NEW from \in Places, NEW to \in Places, <<from, to>> \in Moves,
           GoTo(r, from, to)
    PROVE  Steps(r)
<1>1. /\ runs'[r] = [runs[r] EXCEPT !.at = to]
      /\ runs' = [runs EXCEPT ![r] = runs'[r]]
      /\ runs[r].at = from
  BY GoToSteps
<1>2. RunSound(runs[r], Len(runs))
  BY DEF AllRuns
<1>3. runs'[r] \in Run
  BY <1>1, <1>2 DEF RunSound, Run
<1>4. RunSound(runs'[r], Len(runs))
  BY <1>1, <1>2, <1>3 DEF RunSound, Run, Held, Counted, Deaf, Places, Moves
<1>5. runs'[r].todo = runs[r].todo /\ runs'[r].overall = runs[r].overall
  BY <1>1, <1>2 DEF RunSound, Run
<1>6. runs[r].overall \in Nat
  BY <1>2 DEF RunSound, Run
<1> QED
  BY <1>1, <1>4, <1>5, <1>6 DEF Steps

LEMMA FailedSteps ==
    ASSUME StateTyped, AllRuns, NEW r \in DOMAIN runs, ~Ended(r), SetFailed(r),
           runs[r].cancel /\ ~runs[r].late => runs[r].at \in Deaf
    PROVE  Steps(r)
<1>1. /\ runs'[r] = [runs[r] EXCEPT !.at = "ended", !.failed = TRUE]
      /\ runs' = [runs EXCEPT ![r] = runs'[r]]
  BY DEF SetFailed, StateTyped
<1>2. RunSound(runs[r], Len(runs))
  BY DEF AllRuns
<1>3. runs'[r] \in Run
  BY <1>1, <1>2 DEF RunSound, Run, Places
<1>4. RunSound(runs'[r], Len(runs))
  BY <1>1, <1>2, <1>3 DEF RunSound, Run, Held, Counted, Deaf, Places, Ended
<1>5. runs'[r].todo = runs[r].todo /\ runs'[r].overall = runs[r].overall
  BY <1>1, <1>2 DEF RunSound, Run
<1>6. runs[r].overall \in Nat
  BY <1>2 DEF RunSound, Run
<1> QED
  BY <1>1, <1>4, <1>5, <1>6 DEF Steps

LEMMA BeginItemSteps ==
    ASSUME StateTyped, AllRuns, NEW r \in DOMAIN runs, BeginItem(r)
    PROVE  Steps(r)
<1>1. runs'[r] = [runs[r] EXCEPT !.at = "open", !.received = 0,
                                    !.overall = runs[r].completed]
  BY DEF BeginItem, StateTyped
<1>0. runs' = [runs EXCEPT ![r] = runs'[r]]
  BY DEF BeginItem, StateTyped
<1>2. RunSound(runs[r], Len(runs))
  BY DEF AllRuns
<1>g. runs[r].at = "head"
  BY DEF BeginItem
<1>r. runs[r] \in Run
  BY <1>2 DEF RunSound
<1>3. runs'[r] \in Run
  <2>1. [runs[r] EXCEPT !.at = "open", !.received = 0,
                                    !.overall = runs[r].completed]
            \in Run
    BY <1>r DEF Run, Places
  <2> QED
    BY <2>1, <1>1
<1>4. RunSound(runs'[r], Len(runs))
  BY <1>g, <1>1, <1>2, <1>3, Numbers DEF RunSound, Run, Held, Counted, Deaf, Places
<1>z. /\ runs'[r].todo = runs[r].todo
      /\ Announced => runs'[r].overall >= runs[r].overall
  BY <1>g, <1>1, <1>r, <1>2 DEF RunSound, Run, Counted
<1> QED
  BY <1>0, <1>4, <1>z DEF Steps

LEMMA OpenPartSteps ==
    ASSUME StateTyped, AllRuns, NEW r \in DOMAIN runs, OpenPart(r)
    PROVE  Steps(r)
<1>f. PICK f : f = IF part[Task(r)] = 0 THEN r ELSE part[Task(r)]
  OBVIOUS
<1>1. runs'[r] = [runs[r] EXCEPT !.at = "stream", !.file = f]
  BY <1>f DEF OpenPart, StateTyped
<1>0. runs' = [runs EXCEPT ![r] = runs'[r]]
  BY <1>f DEF OpenPart, StateTyped
<1>2. RunSound(runs[r], Len(runs))
  BY DEF AllRuns
<1>g. runs[r].at = "open"
  BY DEF OpenPart
<1>r. runs[r] \in Run
  BY <1>2 DEF RunSound
<1>5. part[Task(r)] \in 0 .. Len(runs) /\ r \in 1 .. Len(runs) /\ Len(runs) <= MaxRuns
  BY TaskTyped DEF StateTyped
<1>6. f \in 1 .. Len(runs)
  BY <1>5, <1>f
<1>7. /\ Task(r) = runs[r].todo[runs[r].item]
      /\ Size[runs[r].todo[runs[r].item]] \in Nat
  BY TaskTyped, Constants
<1>t. f \in 0 .. MaxRuns
  BY <1>5, <1>6, <1>7, <1>1, <1>r, Numbers DEF Run, Places
<1>3. runs'[r] \in Run
  <2>1. [runs[r] EXCEPT !.at = "stream", !.file = f]
            \in Run
    BY <1>r, <1>t DEF Run, Places
  <2> QED
    BY <2>1, <1>1
<1>u. LET x == runs[r]  y == runs'[r]
      IN  /\ y.at = "stream" /\ y.file = f
          /\ y.todo = x.todo /\ y.item = x.item /\ y.entry = x.entry
          /\ y.received = x.received /\ y.completed = x.completed /\ y.overall = x.overall
          /\ y.cancel = x.cancel /\ y.late = x.late /\ y.done = x.done
          /\ y.failed = x.failed
  BY <1>5, <1>6, <1>7, <1>1, <1>r DEF Run
<1>v. LET x == runs[r]
      IN  /\ x.item \in Nat /\ x.received \in Nat /\ x.completed \in Nat
          /\ x.overall \in Nat /\ x.file \in Nat
  BY <1>r DEF Run
<1>4. RunSound(runs'[r], Len(runs))
  BY <1>5, <1>6, <1>7, <1>g, <1>u, <1>v, <1>2, <1>3, Numbers DEF RunSound, Held, Counted, Deaf
<1>z. /\ runs'[r].todo = runs[r].todo
      /\ Announced => runs'[r].overall >= runs[r].overall
  BY <1>g, <1>u, <1>r, <1>2 DEF RunSound, Run, Counted
<1> QED
  BY <1>0, <1>4, <1>z DEF Steps

LEMMA ReceiveSteps ==
    ASSUME StateTyped, AllRuns, NEW r \in DOMAIN runs, Receive(r)
    PROVE  Steps(r)
<1>1. runs'[r] = [runs[r] EXCEPT !.received = runs[r].received + 1,
                                    !.overall = runs[r].completed
                                                + (runs[r].received + 1)]
  BY DEF Receive, StateTyped
<1>0. runs' = [runs EXCEPT ![r] = runs'[r]]
  BY DEF Receive, StateTyped
<1>2. RunSound(runs[r], Len(runs))
  BY DEF AllRuns
<1>g. runs[r].at = "stream" /\ runs[r].received + 1 <= Size[Task(r)]
  BY DEF Receive
<1>r. runs[r] \in Run
  BY <1>2 DEF RunSound
<1>5. Task(r) \in Mod /\ Task(r) = runs[r].todo[runs[r].item]
  BY TaskTyped
<1>t. /\ runs[r].received + 1 \in Nat
      /\ runs[r].completed + (runs[r].received + 1) \in Nat
  BY <1>5, <1>1, <1>r, Numbers DEF Run, Places
<1>3. runs'[r] \in Run
  <2>1. [runs[r] EXCEPT !.received = runs[r].received + 1,
                                    !.overall = runs[r].completed
                                                + (runs[r].received + 1)]
            \in Run
    BY <1>r, <1>t DEF Run, Places
  <2> QED
    BY <2>1, <1>1
<1>4. RunSound(runs'[r], Len(runs))
  BY <1>5, <1>g, <1>1, <1>2, <1>3, Numbers, SMTT(30)
     DEF RunSound, Run, Held, Counted, Deaf, Places
<1>z. /\ runs'[r].todo = runs[r].todo
      /\ Announced => runs'[r].overall >= runs[r].overall
  BY <1>5, <1>g, <1>1, <1>r, <1>2 DEF RunSound, Run, Counted
<1> QED
  BY <1>0, <1>4, <1>z DEF Steps

LEMMA UnpackSteps ==
    ASSUME StateTyped, AllRuns, NEW r \in DOMAIN runs, Unpack(r)
    PROVE  Steps(r)
<1>1. runs'[r] = [runs[r] EXCEPT !.at = "write", !.entry = 1]
  BY DEF Unpack, StateTyped
<1>0. runs' = [runs EXCEPT ![r] = runs'[r]]
  BY DEF Unpack, StateTyped
<1>2. RunSound(runs[r], Len(runs))
  BY DEF AllRuns
<1>g. runs[r].at = "landed" /\ ~runs[r].cancel
  BY DEF Unpack
<1>r. runs[r] \in Run
  BY <1>2 DEF RunSound
<1>t. 1 \in 0 .. Entries
  BY <1>1, <1>r, Numbers DEF Run, Places
<1>3. runs'[r] \in Run
  <2>1. [runs[r] EXCEPT !.at = "write", !.entry = 1]
            \in Run
    BY <1>r, <1>t DEF Run, Places
  <2> QED
    BY <2>1, <1>1
<1>4. RunSound(runs'[r], Len(runs))
  BY <1>g, <1>1, <1>2, <1>3, Numbers DEF RunSound, Run, Held, Counted, Deaf, Places
<1>z. /\ runs'[r].todo = runs[r].todo
      /\ Announced => runs'[r].overall >= runs[r].overall
  BY <1>g, <1>1, <1>r, <1>2 DEF RunSound, Run, Counted
<1> QED
  BY <1>0, <1>4, <1>z DEF Steps

LEMMA NextEntrySteps ==
    ASSUME StateTyped, AllRuns, NEW r \in DOMAIN runs, NextEntry(r)
    PROVE  Steps(r)
<1>1. runs'[r] = [runs[r] EXCEPT !.at = runs'[r].at, !.entry = runs'[r].entry]
  BY DEF NextEntry, StateTyped
<1>0. runs' = [runs EXCEPT ![r] = runs'[r]]
  BY DEF NextEntry, StateTyped
<1>2. RunSound(runs[r], Len(runs))
  BY DEF AllRuns
<1>g. runs[r].at = "close"
  BY DEF NextEntry
<1>r. runs[r] \in Run
  BY <1>2 DEF RunSound
<1>5. /\ runs[r].entry \in 0 .. Entries
      /\ runs'[r].at = IF runs[r].entry = Entries THEN "manifest" ELSE "write"
      /\ runs'[r].entry = IF runs[r].entry = Entries THEN 0 ELSE runs[r].entry + 1
  BY <1>2 DEF NextEntry, StateTyped, RunSound, Run
<1>t. /\ runs'[r].at \in Places
      /\ runs'[r].entry \in 0 .. Entries
  BY <1>5, <1>1, <1>r, Numbers DEF Run, Places
<1>3. runs'[r] \in Run
  <2>1. [runs[r] EXCEPT !.at = runs'[r].at, !.entry = runs'[r].entry]
            \in Run
    BY <1>r, <1>t DEF Run, Places
  <2> QED
    BY <2>1, <1>1
<1>u. LET x == runs[r]  y == runs'[r]
      IN  /\ y.at = runs'[r].at /\ y.entry = runs'[r].entry 
          /\ y.todo = x.todo /\ y.item = x.item /\ y.file = x.file
          /\ y.received = x.received /\ y.completed = x.completed /\ y.overall = x.overall
          /\ y.cancel = x.cancel /\ y.late = x.late /\ y.done = x.done
          /\ y.failed = x.failed
  BY <1>5, <1>1, <1>r DEF Run
<1>v. LET x == runs[r]
      IN  /\ x.item \in Nat /\ x.received \in Nat /\ x.completed \in Nat
          /\ x.overall \in Nat /\ x.file \in Nat
  BY <1>r DEF Run
<1>4. RunSound(runs'[r], Len(runs))
  BY <1>5, <1>g, <1>u, <1>v, <1>2, <1>3, Numbers DEF RunSound, Held, Counted, Deaf
<1>z. /\ runs'[r].todo = runs[r].todo
      /\ Announced => runs'[r].overall >= runs[r].overall
  BY <1>g, <1>u, <1>r, <1>2 DEF RunSound, Run, Counted
<1> QED
  BY <1>0, <1>4, <1>z DEF Steps

LEMMA CompleteItemSteps ==
    ASSUME StateTyped, AllRuns, NEW r \in DOMAIN runs, CompleteItem(r)
    PROVE  Steps(r)
<1>1. runs'[r] = [runs[r] EXCEPT !.at = runs'[r].at, !.item = runs'[r].item,
                 !.completed = runs[r].completed + Credit(r),
                 !.overall = runs[r].completed + Credit(r),
                 !.received = Expected[Task(r)], !.file = 0]
  BY DEF CompleteItem, StateTyped
<1>0. runs' = [runs EXCEPT ![r] = runs'[r]]
  BY DEF CompleteItem, StateTyped
<1>2. RunSound(runs[r], Len(runs))
  BY DEF AllRuns
<1>g. runs[r].at = "complete"
  BY DEF CompleteItem
<1>r. runs[r] \in Run
  BY <1>2 DEF RunSound
<1>5. Task(r) \in Mod /\ Expected[Task(r)] \in Nat /\ Credit(r) \in Nat
  BY <1>2, TaskTyped, Constants DEF Credit, RunSound, Run
<1>6. /\ runs'[r].at = IF runs[r].item = Len(runs[r].todo) THEN "finish" ELSE "head"
      /\ runs'[r].item = IF runs[r].item = Len(runs[r].todo) THEN runs[r].item
                                                            ELSE runs[r].item + 1
  BY DEF CompleteItem, StateTyped
<1>7. /\ runs[r].todo \in Seq(Mod) /\ runs[r].item \in 1 .. Len(runs[r].todo)
      /\ runs'[r].item \in 1 .. Len(runs[r].todo)
  BY <1>2, <1>6 DEF RunSound, Run
<1>t. /\ runs'[r].at \in Places /\ runs'[r].item \in Nat \ {0}
      /\ runs[r].completed + Credit(r) \in Nat /\ Expected[Task(r)] \in Nat
      /\ 0 \in 0 .. MaxRuns
  BY <1>5, <1>6, <1>7, <1>1, <1>r, Numbers DEF Run, Places
<1>3. runs'[r] \in Run
  <2>1. [runs[r] EXCEPT !.at = runs'[r].at, !.item = runs'[r].item,
                 !.completed = runs[r].completed + Credit(r),
                 !.overall = runs[r].completed + Credit(r),
                 !.received = Expected[Task(r)], !.file = 0]
            \in Run
    BY <1>r, <1>t DEF Run, Places
  <2> QED
    BY <2>1, <1>1
<1>u. LET x == runs[r]  y == runs'[r]
      IN  /\ y.completed = x.completed + Credit(r)
          /\ y.overall = x.completed + Credit(r)
          /\ y.received = Expected[Task(r)] /\ y.file = 0
          /\ y.at \in {"finish", "head"} /\ y.item \in 1 .. Len(x.todo)
          /\ y.todo = x.todo /\ y.entry = x.entry /\ y.cancel = x.cancel
          /\ y.late = x.late /\ y.done = x.done /\ y.failed = x.failed
  BY <1>5, <1>6, <1>7, <1>1, <1>r DEF Run
<1>v. LET x == runs[r]
      IN  /\ x.item \in Nat /\ x.received \in Nat /\ x.completed \in Nat
          /\ x.overall \in Nat /\ x.file \in Nat
  BY <1>r DEF Run
<1>4. RunSound(runs'[r], Len(runs))
  BY <1>5, <1>6, <1>7, <1>g, <1>u, <1>v, <1>2, <1>3, Numbers DEF RunSound, Held, Counted, Deaf
<1>z. /\ runs'[r].todo = runs[r].todo
      /\ Announced => runs'[r].overall >= runs[r].overall
  <2>1. runs'[r].todo = runs[r].todo
    BY <1>u
  <2>2. runs[r].overall = runs[r].completed + runs[r].received
    BY <1>2, <1>g DEF RunSound, Counted
  <2>3. runs[r].received <= Size[Task(r)]
    BY <1>2, <1>g, TaskTyped DEF RunSound, Counted
  <2>4. runs[r].received \in Nat /\ runs[r].completed \in Nat
    BY <1>r DEF Run
  <2>5. Announced => Credit(r) >= runs[r].received
    BY <1>5, <2>3, <2>4, Constants DEF Credit, Announced
  <2> QED
    BY <1>u, <2>1, <2>2, <2>4, <2>5, <1>5
<1> QED
  BY <1>0, <1>4, <1>z DEF Steps

LEMMA FinishSteps ==
    ASSUME StateTyped, AllRuns, NEW r \in DOMAIN runs, Finish(r)
    PROVE  Steps(r)
<1>1. runs'[r] = [runs[r] EXCEPT !.at = "ended", !.done = TRUE]
  BY DEF Finish, StateTyped
<1>0. runs' = [runs EXCEPT ![r] = runs'[r]]
  BY DEF Finish, StateTyped
<1>2. RunSound(runs[r], Len(runs))
  BY DEF AllRuns
<1>g. runs[r].at = "finish"
  BY DEF Finish
<1>r. runs[r] \in Run
  BY <1>2 DEF RunSound
<1>3. runs'[r] \in Run
  <2>1. [runs[r] EXCEPT !.at = "ended", !.done = TRUE]
            \in Run
    BY <1>r DEF Run, Places
  <2> QED
    BY <2>1, <1>1
<1>4. RunSound(runs'[r], Len(runs))
  BY <1>g, <1>1, <1>2, <1>3, Numbers DEF RunSound, Run, Held, Counted, Deaf, Places
<1>z. /\ runs'[r].todo = runs[r].todo
      /\ Announced => runs'[r].overall >= runs[r].overall
  BY <1>g, <1>1, <1>r, <1>2 DEF RunSound, Run, Counted
<1> QED
  BY <1>0, <1>4, <1>z DEF Steps

\* Whatever the thread does, it does to its own run, which stays sound.
LEMMA ThreadSteps ==
    ASSUME StateTyped, AllRuns, NEW r \in DOMAIN runs, Thread(r)
    PROVE  Steps(r)
<1>1. CASE Quit(r)
  <2>1. PICK at \in {"head", "landed", "refused"} : GoTo(r, at, "ended")
    BY <1>1 DEF Quit
  <2> QED
    BY <2>1, MoveSteps DEF Moves, Places
<1>2. CASE OpenRefused(r)
  <2>1. GoTo(r, "open", "refused")
    BY <1>2 DEF OpenRefused
  <2> QED
    BY <2>1, MoveSteps DEF Moves, Places
<1>3. CASE Transferred(r) \/ TransferLost(r)
  <2>1. GoTo(r, "stream", "replace")
    BY <1>3 DEF Transferred, TransferLost
  <2> QED
    BY <2>1, MoveSteps DEF Moves, Places
<1>4. CASE TransferFails(r)
  <2>1. GoTo(r, "stream", "discard")
    BY <1>4 DEF TransferFails
  <2> QED
    BY <2>1, MoveSteps DEF Moves, Places
<1>5. CASE Abort(r)
  <2>1. GoTo(r, "stream", "discard")
    BY <1>5 DEF Abort
  <2> QED
    BY <2>1, MoveSteps DEF Moves, Places
<1>6. CASE RemovePart(r)
  <2>1. GoTo(r, "discard", "refused")
    BY <1>6 DEF RemovePart
  <2> QED
    BY <2>1, MoveSteps DEF Moves, Places
<1>7. CASE RemoveArchive(r)
  <2>1. GoTo(r, "replace", "rename")
    BY <1>7 DEF RemoveArchive
  <2> QED
    BY <2>1, MoveSteps DEF Moves, Places
<1>8. CASE Rename(r)
  <2>1. GoTo(r, "rename", "landed")
    BY <1>8 DEF Rename
  <2> QED
    BY <2>1, MoveSteps DEF Moves, Places
<1>9. CASE RenameFails(r)
  <2>1. GoTo(r, "rename", "discard")
    BY <1>9 DEF RenameFails
  <2> QED
    BY <2>1, MoveSteps DEF Moves, Places
<1>10. CASE OpenEntry(r)
  <2>1. GoTo(r, "write", "close")
    BY <1>10 DEF OpenEntry
  <2> QED
    BY <2>1, MoveSteps DEF Moves, Places
<1>11. CASE OpenManifest(r)
  <2>1. GoTo(r, "manifest", "text")
    BY <1>11 DEF OpenManifest
  <2> QED
    BY <2>1, MoveSteps DEF Moves, Places
<1>22. CASE WriteManifest(r) \/ ManifestLost(r)
  <2>1. GoTo(r, "text", "complete")
    BY <1>22 DEF WriteManifest, ManifestLost
  <2> QED
    BY <2>1, MoveSteps DEF Moves, Places
<1>12. CASE DownloadFailed(r)
  BY <1>12, FailedSteps DEF DownloadFailed, Ended, Deaf
<1>13. CASE UnpackRefused(r)
  BY <1>13, FailedSteps DEF UnpackRefused, Ended, Deaf
<1>14. CASE InstallFails(r)
  BY <1>14, FailedSteps DEF InstallFails, Ended, Deaf
<1>15. CASE BeginItem(r)
  BY <1>15, BeginItemSteps
<1>16. CASE OpenPart(r)
  BY <1>16, OpenPartSteps
<1>17. CASE Receive(r)
  BY <1>17, ReceiveSteps
<1>18. CASE Unpack(r)
  BY <1>18, UnpackSteps
<1>19. CASE CloseEntry(r) \/ EntryLost(r)
  BY <1>19, NextEntrySteps DEF CloseEntry, EntryLost
<1>20. CASE CompleteItem(r)
  BY <1>20, CompleteItemSteps
<1>21. CASE Finish(r)
  BY <1>21, FinishSteps
<1> QED
  BY <1>1, <1>2, <1>3, <1>4, <1>5, <1>6, <1>7, <1>8, <1>9, <1>10, <1>11, <1>12, <1>13, <1>14, <1>15, <1>16, <1>17, <1>18, <1>19, <1>20, <1>21,
     <1>22 DEF Thread, Work
-----------------------------------------------------------------------------
LEMMA Active ==
    ASSUME NEW r, Thread(r)
    PROVE  ~Ended(r)
<1>1. CASE runs[r].at = "ended"
  BY <1>1 DEF Thread, Work, Quit, BeginItem, OpenPart, Receive, Transferred,
     Abort, RemovePart, RemoveArchive, Rename, RenameFails, DownloadFailed,
     Unpack, UnpackRefused, OpenEntry, CloseEntry, EntryLost, NextEntry,
     OpenManifest, WriteManifest, ManifestLost, CompleteItem, Finish, OpenRefused,
     TransferFails, TransferLost, InstallFails, GoTo
<1> QED
  BY <1>1 DEF Ended

LEMMA StepsKeepRuns ==
    ASSUME StateTyped, AllRuns, NEW r \in DOMAIN runs, Steps(r)
    PROVE  /\ runs' \in Seq(Run) /\ Len(runs') = Len(runs)
           /\ DOMAIN runs' = DOMAIN runs
           /\ \A q \in DOMAIN runs : q # r => runs'[q] = runs[q]
           /\ AllRuns'
<1>1. runs \in Seq(Run) /\ runs'[r] \in Run
  BY DEF StateTyped, Steps, RunSound
<1>2. /\ runs' \in Seq(Run) /\ Len(runs') = Len(runs)
      /\ DOMAIN runs' = DOMAIN runs
      /\ \A q \in DOMAIN runs : q # r => runs'[q] = runs[q]
  BY <1>1, ExceptSeq DEF Steps
<1> QED
  BY <1>2 DEF AllRuns, Steps

\* What a step of a thread leaves on the disk has the right shape.
LEMMA ThreadDisk ==
    ASSUME StateTyped, AllRuns, NEW r \in DOMAIN runs, Thread(r)
    PROVE  /\ part' \in [Mod -> 0 .. Len(runs)]
           /\ archive' \in [Mod -> 0 .. Len(runs)]
           /\ bytes' \in [Mod -> [1 .. MaxRuns -> SUBSET Nat]]
           /\ installed' \in [Mod -> [files : SUBSET (1 .. Manifest),
                                      shows : BOOLEAN]]
           /\ spent' \in Spent
           /\ spent'.crashes = spent.crashes
           /\ spent.unnoticed \subseteq spent'.unnoticed
<1>1. /\ Task(r) \in Mod /\ r \in 1 .. Len(runs) /\ Len(runs) \in Nat
      /\ runs[r] \in Run /\ spent \in Spent
  BY TaskTyped, LenProperties DEF StateTyped
<1>n. /\ Task(r) \in Nat /\ r \in Nat /\ runs[r].file \in Nat
      /\ runs[r].entry \in 0 .. Entries /\ runs[r].entry \in Nat
      /\ Archive \in Nat /\ Manifest \in Nat
      /\ 1 .. Entries \subseteq 1 .. Manifest /\ Manifest \in 1 .. Manifest
  BY <1>1, Numbers DEF Run, Mod, Archive, Manifest
<1>s. /\ spent' \in Spent /\ spent'.crashes = spent.crashes
      /\ spent.unnoticed \subseteq spent'.unnoticed
  <2>1. CASE UNCHANGED spent
    BY <1>1, <2>1
  <2>2. CASE Fail
    BY <1>1, <2>2 DEF Fail, Spent
  <2>3. ASSUME NEW q \in Nat, NEW m \in Nat, NEW f \in Nat, FailUnnoticed(q, m, f)
        PROVE  /\ spent' \in Spent /\ spent'.crashes = spent.crashes
               /\ spent.unnoticed \subseteq spent'.unnoticed
    <3>1. spent' = [spent EXCEPT !.faults = spent.faults + 1,
                        !.unnoticed = spent.unnoticed \cup {<<q, m, f>>}]
      BY <2>3 DEF FailUnnoticed
    <3>2. <<q, m, f>> \in Nat \X Nat \X Nat
      BY <2>3
    <3>3. /\ spent.unnoticed \cup {<<q, m, f>>} \in SUBSET (Nat \X Nat \X Nat)
          /\ spent.faults + 1 \in Nat
      BY <1>1, <3>2 DEF Spent
    <3> QED
      BY <1>1, <3>1, <3>3 DEF Spent
  <2>4. \/ UNCHANGED spent \/ Fail
        \/ FailUnnoticed(runs[r].file, Task(r), Archive)
        \/ FailUnnoticed(r, Task(r), runs[r].entry)
        \/ FailUnnoticed(r, Task(r), Manifest)
    BY DEF Thread, Work, Quit, BeginItem, OpenPart, Receive, Transferred,
     Abort, RemovePart, RemoveArchive, Rename, RenameFails, DownloadFailed,
     Unpack, UnpackRefused, OpenEntry, CloseEntry, EntryLost, OpenManifest,
     WriteManifest, ManifestLost, CompleteItem, Finish, OpenRefused,
     TransferFails, TransferLost, InstallFails
  <2> QED
    BY <1>n, <2>1, <2>2, <2>3, <2>4
<1>2. CASE UNCHANGED disk
  BY <1>2, <1>s DEF disk, StateTyped
<1>3. CASE OpenPart(r)
  <2>1. /\ (IF part[Task(r)] = 0 THEN r ELSE part[Task(r)]) \in 1 .. Len(runs)
        /\ Len(runs) <= MaxRuns
    BY <1>1 DEF StateTyped
  <2> QED
    BY <1>1, <1>3, <2>1, Numbers DEF OpenPart, StateTyped
<1>4. CASE Receive(r)
  <2>1. runs[r].received + 1 \in Nat
    BY TaskTyped DEF Run
  <2> QED
    BY <1>1, <1>4, <2>1 DEF Receive, StateTyped
<1>5. CASE RemovePart(r)
  BY <1>1, <1>5 DEF RemovePart, StateTyped
<1>6. CASE RemoveArchive(r)
  BY <1>1, <1>6 DEF RemoveArchive, StateTyped
<1>7. CASE Rename(r)
  BY <1>1, <1>7 DEF Rename, StateTyped
<1>8. CASE OpenEntry(r) \/ OpenManifest(r)
  <2>1. PICK f : Truncated(Task(r), f) /\ UNCHANGED <<part, archive, bytes>>
    BY <1>8 DEF OpenEntry, OpenManifest
  <2>2. /\ part' = part /\ archive' = archive /\ bytes' = bytes
        /\ installed' = [installed EXCEPT
               ![Task(r)].files = installed[Task(r)].files \ {f},
               ![Task(r)].shows = TRUE]
    BY <2>1 DEF Truncated
  <2>3. installed' \in [Mod -> [files : SUBSET (1 .. Manifest), shows : BOOLEAN]]
    BY <1>1, <2>2 DEF StateTyped
  <2> QED
    BY <1>s, <2>2, <2>3 DEF StateTyped
<1>9. CASE CloseEntry(r)
  <2>1. runs[r].entry \in 1 .. Entries
    BY <1>9, <1>n, Numbers, TaskTyped DEF CloseEntry, NextEntry, AllRuns, RunSound
  <2> QED
    BY <1>1, <1>9, <1>n, <2>1 DEF CloseEntry, StateTyped
<1>10. CASE WriteManifest(r)
  BY <1>1, <1>10, <1>n DEF WriteManifest, StateTyped
<1>11. CASE TransferLost(r)
  <2>1. /\ part' = part /\ archive' = archive /\ installed' = installed
        /\ bytes' = [bytes EXCEPT ![Task(r)][runs[r].file] =
                         bytes[Task(r)][runs[r].file] \ {Size[Task(r)]}]
    BY <1>11 DEF TransferLost
  <2>2. ASSUME NEW m \in Mod, NEW q \in 1 .. MaxRuns
        PROVE  bytes'[m][q] \subseteq Nat
    <3>1. bytes[m][q] \subseteq Nat
      BY DEF StateTyped
    <3> QED
      BY <1>1, <2>1, <3>1 DEF StateTyped
  <2>3. bytes' \in [Mod -> [1 .. MaxRuns -> SUBSET Nat]]
    <3>1. ASSUME NEW m \in Mod
          PROVE  bytes'[m] \in [1 .. MaxRuns -> SUBSET Nat]
      <4>1. bytes'[m] = [q \in 1 .. MaxRuns |-> bytes'[m][q]]
        BY <1>1, <2>1 DEF StateTyped
      <4> QED
        BY <2>2, <4>1
    <3>2. bytes' = [m \in Mod |-> bytes'[m]]
      BY <2>1 DEF StateTyped
    <3> QED
      BY <3>1, <3>2
  <2> QED
    BY <1>s, <2>1, <2>3 DEF StateTyped
<1> QED
  BY <1>s, <1>2, <1>3, <1>4, <1>5, <1>6, <1>7, <1>8, <1>9, <1>10, <1>11
     DEF Thread, Work, Quit, BeginItem, Transferred, Abort, RenameFails,
         DownloadFailed, Unpack, UnpackRefused, CompleteItem, Finish,
         OpenRefused, TransferFails, InstallFails, EntryLost, ManifestLost
-----------------------------------------------------------------------------
\* The dialog follows the last run, and the runs before it have ended unless
\* it was opened while one was going on.
DialogFollows ==
    /\ dialog # "closed" => job # <<>> /\ IsInjective(job)
    /\ dialog \in {"running", "failed", "done"} =>
          /\ current = Len(runs) /\ current # 0
          /\ runs[current].todo = job
    /\ dialog = "failed" => runs[current].failed
    /\ dialog = "done" => runs[current].done
    /\ ~overlapped =>
          /\ \A r \in DOMAIN runs : r # Len(runs) => Ended(r)
          /\ dialog = "prompt" => AllEnded

Shape == StateTyped /\ AllRuns /\ DialogFollows

LEMMA ThreadShape ==
    ASSUME Shape, NEW r \in DOMAIN runs, Thread(r)
    PROVE  Shape'
<1>0. StateTyped /\ AllRuns /\ DialogFollows
  BY DEF Shape
<1>1. Steps(r)
  BY <1>0, ThreadSteps
<1>2. /\ runs' \in Seq(Run) /\ Len(runs') = Len(runs)
      /\ DOMAIN runs' = DOMAIN runs
      /\ \A q \in DOMAIN runs : q # r => runs'[q] = runs[q]
      /\ AllRuns'
  BY <1>0, <1>1, StepsKeepRuns
<1>3. /\ current' = current /\ dialog' = dialog /\ job' = job
      /\ row' = row /\ overlapped' = overlapped
  BY DEF Thread, view
<1>4. StateTyped'
  BY <1>0, <1>2, <1>3, ThreadDisk DEF StateTyped
<1>5. ~Ended(r) /\ ~runs[r].done /\ ~runs[r].failed
  BY <1>0, Active DEF AllRuns, RunSound, Ended
<1>6. \A q \in DOMAIN runs : runs'[q].todo = runs[q].todo
  BY <1>1, <1>2 DEF Steps
<1>8. dialog \in {"running", "failed", "done"} => current \in DOMAIN runs
  BY <1>0 DEF DialogFollows, StateTyped
<1>7. DialogFollows'
  <2>1. (dialog # "closed" => job # <<>> /\ IsInjective(job))'
    BY <1>0, <1>3 DEF DialogFollows
  <2>2. (dialog \in {"running", "failed", "done"} =>
          /\ current = Len(runs) /\ current # 0
          /\ runs[current].todo = job)'
    BY <1>0, <1>2, <1>3, <1>6, <1>8 DEF DialogFollows
  <2>3. (dialog = "failed" => runs[current].failed)'
    BY <1>0, <1>2, <1>3, <1>5, <1>8 DEF DialogFollows
  <2>4. (dialog = "done" => runs[current].done)'
    BY <1>0, <1>2, <1>3, <1>5, <1>8 DEF DialogFollows
  <2>5. (~overlapped =>
            /\ \A q \in DOMAIN runs : q # Len(runs) => Ended(q)
            /\ dialog = "prompt" => AllEnded)'
    BY <1>0, <1>2, <1>3, <1>5 DEF DialogFollows, Ended, AllEnded
  <2> QED
    BY <2>1, <2>2, <2>3, <2>4, <2>5 DEF DialogFollows
<1> QED
  BY <1>2, <1>4, <1>7 DEF Shape
-----------------------------------------------------------------------------
LEMMA CancelledSound ==
    ASSUME StateTyped, AllRuns, NEW r \in DOMAIN runs
    PROVE  /\ Cancelled(r) \in Run
           /\ RunSound(Cancelled(r), Len(runs))
           /\ Cancelled(r).todo = runs[r].todo
           /\ Cancelled(r).at = runs[r].at
           /\ Cancelled(r).done = runs[r].done
           /\ Cancelled(r).failed = runs[r].failed
           /\ Cancelled(r).overall = runs[r].overall
<1>1. RunSound(runs[r], Len(runs)) /\ runs[r] \in Run
  BY DEF AllRuns, RunSound
<1>2. PICK late : late = (runs[r].late \/ Late(r)) /\ late \in BOOLEAN
  BY <1>1 DEF Late, Run
<1>3. Cancelled(r) = [runs[r] EXCEPT !.cancel = TRUE, !.late = late]
  BY <1>1, <1>2 DEF Cancelled, Run
<1>4. Cancelled(r) \in Run
  <2>1. [runs[r] EXCEPT !.cancel = TRUE, !.late = late] \in Run
    BY <1>1, <1>2 DEF Run
  <2> QED
    BY <2>1, <1>3
<1>5. LET x == runs[r]  y == Cancelled(r)
      IN  /\ y.todo = x.todo /\ y.item = x.item /\ y.at = x.at
          /\ y.file = x.file /\ y.entry = x.entry /\ y.received = x.received
          /\ y.completed = x.completed /\ y.overall = x.overall
          /\ y.done = x.done /\ y.failed = x.failed
          /\ y.late = late
  BY <1>1, <1>3 DEF Run
<1>6. late \/ (runs[r].at \notin Deaf \cup {"ended"})
  BY <1>2 DEF Late, Deaf
<1>7. RunSound(Cancelled(r), Len(runs))
  BY <1>1, <1>4, <1>5, <1>6 DEF RunSound
<1> QED
  BY <1>4, <1>5, <1>7

\* Giving a run up changes nothing but its cancellation.
LEMMA AbandonedSound ==
    ASSUME StateTyped, AllRuns
    PROVE  /\ Abandoned \in Seq(Run) /\ Len(Abandoned) = Len(runs)
           /\ DOMAIN Abandoned = DOMAIN runs
           /\ \A r \in DOMAIN runs :
                 /\ RunSound(Abandoned[r], Len(runs))
                 /\ Abandoned[r] = runs[r] \/ Abandoned[r] = Cancelled(r)
                 /\ Abandoned[r].todo = runs[r].todo
                 /\ Abandoned[r].at = runs[r].at
                 /\ Abandoned[r].done = runs[r].done
                 /\ Abandoned[r].failed = runs[r].failed
                 /\ Abandoned[r].overall = runs[r].overall
<1>1. CASE current = 0
  BY <1>1 DEF Abandoned, StateTyped, AllRuns
<1>2. CASE current # 0
  <2>1. current \in DOMAIN runs /\ runs \in Seq(Run)
    BY <1>2 DEF StateTyped
  <2>2. Abandoned = [runs EXCEPT ![current] = Cancelled(current)]
    BY <1>2 DEF Abandoned
  <2>3. Cancelled(current) \in Run
    BY <2>1, CancelledSound
  <2>4. /\ Abandoned \in Seq(Run) /\ Len(Abandoned) = Len(runs)
        /\ DOMAIN Abandoned = DOMAIN runs
        /\ Abandoned[current] = Cancelled(current)
        /\ \A q \in DOMAIN runs : q # current => Abandoned[q] = runs[q]
    BY <2>1, <2>2, <2>3, ExceptSeq
  <2> QED
    BY <2>1, <2>4, CancelledSound DEF AllRuns
<1> QED
  BY <1>1, <1>2
-----------------------------------------------------------------------------
LEMMA OpenShape ==
    ASSUME Shape, NEW tasks \in Jobs, Open(tasks)
    PROVE  Shape'
<1>0. StateTyped /\ AllRuns /\ DialogFollows
  BY DEF Shape
<1>1. /\ runs' = runs /\ row' = row /\ spent' = spent /\ part' = part
      /\ archive' = archive /\ bytes' = bytes /\ installed' = installed
      /\ dialog' = "prompt" /\ job' = tasks /\ current' = 0
      /\ overlapped' = (overlapped \/ ~AllEnded)
  BY DEF Open, disk
<1>2. tasks \in Seq(Mod) /\ tasks # <<>> /\ IsInjective(tasks)
  BY DownloadAssumption DEF Mod
<1>3. StateTyped'
  <2>1. overlapped' \in BOOLEAN
    BY <1>0, <1>1 DEF StateTyped
  <2> QED
    BY <1>0, <1>1, <1>2, <2>1 DEF StateTyped
<1>4. AllRuns'
  BY <1>0, <1>1 DEF AllRuns
<1>5. DialogFollows'
  BY <1>0, <1>1, <1>2 DEF DialogFollows, AllEnded, Ended
<1> QED
  BY <1>3, <1>4, <1>5 DEF Shape

LEMMA StartShape ==
    ASSUME Shape, Start
    PROVE  Shape'
<1>0. StateTyped /\ AllRuns /\ DialogFollows
  BY DEF Shape
<1>1. /\ runs' = Append(Abandoned, NewRun(job)) /\ row' = row /\ spent' = spent
      /\ part' = part
      /\ archive' = archive /\ bytes' = bytes /\ installed' = installed
      /\ dialog \in {"prompt", "failed"} /\ dialog' = "running" /\ job' = job
      /\ current' = Len(runs) + 1
      /\ overlapped' = overlapped /\ Len(runs) < MaxRuns
  BY DEF Start, disk
<1>2. Len(runs) \in Nat /\ MaxRuns \in Nat
  BY <1>0, Numbers, LenProperties DEF StateTyped
<1>3. /\ NewRun(job) \in Run /\ RunSound(NewRun(job), Len(runs) + 1)
      /\ NewRun(job).todo = job /\ NewRun(job).at = "head"
  <2>1. job \in Seq(Mod) /\ job # <<>> /\ IsInjective(job)
    BY <1>0, <1>1 DEF StateTyped, DialogFollows
  <2>2. NewRun(job) \in Run
    <3>1. 0 \in 0 .. MaxRuns /\ 0 \in 0 .. Entries /\ 1 \in Nat \ {0}
      BY Numbers
    <3> QED
      BY <2>1, <3>1 DEF NewRun, Run, Places
  <2>3. 1 \in DOMAIN job
    BY <2>1, EmptySeq, LenProperties
  <2> QED
    BY <1>2, <2>1, <2>2, <2>3 DEF NewRun, RunSound, Held, Counted, Deaf
<1>4. /\ runs' \in Seq(Run) /\ Len(runs') = Len(runs) + 1
      /\ \A r \in DOMAIN runs : runs'[r] = Abandoned[r]
      /\ runs'[Len(runs) + 1] = NewRun(job)
      /\ DOMAIN runs' = 1 .. Len(runs) + 1 /\ DOMAIN runs = 1 .. Len(runs)
  BY <1>0, <1>1, <1>3, AbandonedSound, AppendProperties, LenProperties DEF StateTyped
<1>5. AllRuns'
  <2>1. ASSUME NEW x, RunSound(x, Len(runs))
        PROVE  RunSound(x, Len(runs) + 1)
    BY <1>2, <2>1 DEF RunSound
  <2>2. \A r \in DOMAIN runs : RunSound(runs'[r], Len(runs'))
    BY <1>0, <1>4, <2>1, AbandonedSound
  <2> QED
    BY <1>2, <1>3, <1>4, <2>2 DEF AllRuns
<1>6. StateTyped'
  <2>1. 0 .. Len(runs) \subseteq 0 .. Len(runs')
    BY <1>2, <1>4
  <2>2. part' \in [Mod -> 0 .. Len(runs')] /\ archive' \in [Mod -> 0 .. Len(runs')]
    BY <1>0, <1>1, <2>1 DEF StateTyped
  <2> QED
    BY <1>0, <1>1, <1>2, <1>4, <2>2 DEF StateTyped
<1>7. DialogFollows'
  <2>1. ~overlapped => AllEnded
    <3>1. ASSUME ~overlapped, dialog = "failed" PROVE AllEnded
      <4>1. current = Len(runs) /\ current # 0 /\ runs[current].failed
        BY <1>0, <3>1 DEF DialogFollows
      <4>2. current \in DOMAIN runs /\ Ended(current)
        BY <1>0, <4>1 DEF StateTyped, AllRuns, RunSound, Ended
      <4> QED
        BY <1>0, <3>1, <4>1, <4>2 DEF DialogFollows, AllEnded
    <3> QED
      BY <1>0, <1>1, <3>1 DEF DialogFollows
  <2>2. ~overlapped => \A r \in DOMAIN runs : runs'[r].at = "ended"
    BY <1>0, <1>4, <2>1, AbandonedSound DEF AllEnded, Ended
  <2> QED
    BY <1>0, <1>1, <1>2, <1>3, <1>4, <2>2 DEF DialogFollows, Ended
<1> QED
  BY <1>5, <1>6, <1>7 DEF Shape

LEMMA ApplyViewShape ==
    ASSUME Shape, ApplyView
    PROVE  Shape'
<1>0. StateTyped /\ AllRuns /\ DialogFollows
  BY DEF Shape
<1>1. /\ runs' = runs /\ row' = row /\ spent' = spent /\ part' = part
      /\ archive' = archive /\ bytes' = bytes /\ installed' = installed
      /\ job' = job /\ current' = current /\ overlapped' = overlapped
      /\ dialog \in {"running", "failed", "done"}
      /\ dialog' = IF runs[current].failed THEN "failed"
                   ELSE IF runs[current].done THEN "done" ELSE dialog
  BY DEF ApplyView, disk
<1>2. dialog' \in {"running", "failed", "done"}
  BY <1>1
<1>3. StateTyped' /\ AllRuns'
  BY <1>0, <1>1, <1>2 DEF StateTyped, AllRuns
<1>4. DialogFollows'
  BY <1>0, <1>1, <1>2 DEF DialogFollows, Ended
<1> QED
  BY <1>3, <1>4 DEF Shape

\* Close and Continue leave the run behind.
LEMMA LeaveShape ==
    ASSUME Shape, runs' = Abandoned, dialog' = "closed", current' = 0,
           job' = <<>>, UNCHANGED <<overlapped, disk, spent>>
    PROVE  Shape'
<1>0. StateTyped /\ AllRuns /\ DialogFollows
  BY DEF Shape
<1>1. /\ spent' = spent /\ part' = part /\ overlapped' = overlapped
      /\ archive' = archive /\ bytes' = bytes /\ installed' = installed
  BY DEF disk
<1>2. /\ runs' \in Seq(Run) /\ Len(runs') = Len(runs)
      /\ DOMAIN runs' = DOMAIN runs
      /\ \A r \in DOMAIN runs : /\ RunSound(runs'[r], Len(runs))
                                /\ runs'[r].at = runs[r].at
  BY <1>0, AbandonedSound
<1>3. Len(runs) \in Nat
  BY <1>0, LenProperties DEF StateTyped
<1>4. StateTyped' /\ AllRuns'
  BY <1>0, <1>1, <1>2, <1>3 DEF StateTyped, AllRuns
<1>5. DialogFollows'
  BY <1>0, <1>1, <1>2 DEF DialogFollows, Ended
<1> QED
  BY <1>4, <1>5 DEF Shape

LEMMA RestartShape ==
    ASSUME Shape, Restart
    PROVE  Shape'
<1>0. StateTyped /\ AllRuns /\ DialogFollows
  BY DEF Shape
<1>1. /\ part' = part /\ overlapped' = overlapped
      /\ archive' = archive /\ bytes' = bytes /\ installed' = installed
      /\ runs' = [r \in DOMAIN runs |-> [runs[r] EXCEPT !.at = "ended"]]
      /\ dialog' = "closed" /\ current' = 0 /\ job' = <<>>
      /\ spent' = [spent EXCEPT !.crashes = @ + 1]
  BY DEF Restart, disk
<1>2. ASSUME NEW r \in DOMAIN runs
      PROVE  /\ [runs[r] EXCEPT !.at = "ended"] \in Run
             /\ RunSound([runs[r] EXCEPT !.at = "ended"], Len(runs))
             /\ [runs[r] EXCEPT !.at = "ended"].at = "ended"
  <2>1. RunSound(runs[r], Len(runs)) /\ runs[r] \in Run
    BY <1>0 DEF AllRuns, RunSound
  <2>2. [runs[r] EXCEPT !.at = "ended"] \in Run
    BY <2>1 DEF Run, Places
  <2> QED
    BY <2>1, <2>2 DEF RunSound, Run, Held, Counted, Deaf
<1>3. Len(runs) \in Nat /\ DOMAIN runs = 1 .. Len(runs)
  BY <1>0, LenProperties DEF StateTyped
<1>4. /\ runs' \in Seq(Run) /\ Len(runs') = Len(runs)
      /\ DOMAIN runs' = DOMAIN runs
      /\ \A r \in DOMAIN runs : runs'[r] = [runs[r] EXCEPT !.at = "ended"]
  <2>1. runs' \in [1 .. Len(runs) -> Run]
    BY <1>1, <1>2, <1>3
  <2> QED
    BY <1>1, <1>3, <2>1, SeqDef
<1>5. StateTyped' /\ AllRuns'
  <2>1. spent' \in Spent
    <3>1. spent \in Spent /\ spent.crashes + 1 \in Nat
      BY <1>0 DEF StateTyped, Spent
    <3>2. [spent EXCEPT !.crashes = spent.crashes + 1] \in Spent
      BY <3>1 DEF Spent
    <3> QED
      BY <1>1, <3>2
  <2> QED
    BY <1>0, <1>1, <1>2, <1>3, <1>4, <2>1 DEF StateTyped, AllRuns
<1>6. DialogFollows'
  BY <1>0, <1>1, <1>2, <1>4 DEF DialogFollows, Ended
<1> QED
  BY <1>5, <1>6 DEF Shape
-----------------------------------------------------------------------------
LEMMA InitShape == Init => Shape
<1> SUFFICES ASSUME Init PROVE Shape
  OBVIOUS
<1>1. runs \in Seq(Run) /\ Len(runs) = 0 /\ DOMAIN runs = {}
  BY EmptySeq DEF Init
<1>2. StateTyped
  <2>1. /\ part \in [Mod -> 0 .. Len(runs)] /\ archive \in [Mod -> 0 .. Len(runs)]
        /\ bytes \in [Mod -> [1 .. MaxRuns -> SUBSET Nat]]
    BY <1>1 DEF Init
  <2>2. installed \in [Mod -> [files : SUBSET (1 .. Manifest), shows : BOOLEAN]]
    BY DEF Init
  <2>3. job \in Seq(Mod) /\ current \in 0 .. Len(runs) /\ Len(runs) <= MaxRuns
    BY <1>1, Numbers DEF Init
  <2>4. spent \in Spent
    BY DEF Init, Spent
  <2> QED
    BY <1>1, <2>1, <2>2, <2>3, <2>4 DEF StateTyped, Init
<1>3. AllRuns /\ DialogFollows
  BY <1>1 DEF AllRuns, DialogFollows, Init
<1> QED
  BY <1>2, <1>3 DEF Shape

LEMMA NextShape == Shape /\ [Next]_vars => Shape'
<1> SUFFICES ASSUME Shape, [Next]_vars PROVE Shape'
  OBVIOUS
<1>1. ASSUME NEW r \in DOMAIN runs, Thread(r) PROVE Shape'
  BY <1>1, ThreadShape
<1>2. ASSUME NEW tasks \in Jobs, Open(tasks) PROVE Shape'
  BY <1>2, OpenShape
<1>3. CASE Start
  BY <1>3, StartShape
<1>4. CASE ApplyView
  BY <1>4, ApplyViewShape
<1>5. CASE Close
  BY <1>5, LeaveShape DEF Close
<1>6. CASE Continue
  BY <1>6, LeaveShape DEF Continue
<1>7. CASE Restart
  BY <1>7, RestartShape
<1>8. CASE UNCHANGED vars
  BY <1>8 DEF vars, disk, view, Shape, StateTyped, AllRuns, DialogFollows,
     AllEnded, Ended
<1> QED
  BY <1>1, <1>2, <1>3, <1>4, <1>5, <1>6, <1>7, <1>8 DEF Next, User

LEMMA ShapeKept == Spec => []Shape
<1>1. QED
  BY InitShape, NextShape, PTL DEF Spec

\* Every piece of state keeps its shape (RunDownloadJobs, DisplayModDownload).
THEOREM TypeCorrect == Spec => []TypeOK
<1>1. Shape => TypeOK
  <2> SUFFICES ASSUME Shape PROVE TypeOK
    OBVIOUS
  <2>1. StateTyped /\ AllRuns /\ DialogFollows
    BY DEF Shape
  <2>2. \A m \in Mod : {part[m], archive[m]} \subseteq 0 .. Len(runs)
    BY <2>1 DEF StateTyped
  <2>3. \A r \in DOMAIN runs : /\ runs[r].item \in DOMAIN runs[r].todo
                               /\ ~(runs[r].done /\ runs[r].failed)
                               /\ runs[r].done \/ runs[r].failed => Ended(r)
    BY <2>1 DEF AllRuns, RunSound, Ended
  <2> QED
    BY <2>1, <2>2, <2>3 DEF StateTyped, DialogFollows, TypeOK
<1> QED
  BY <1>1, ShapeKept, PTL

\* A run cancelled before it has passed the last check of a file ends neither
\* done nor failed (RunDownloadJobs), whatever else goes on.
THEOREM Quiet == Spec => []CancelIsQuiet
<1>1. Shape => CancelIsQuiet
  BY DEF Shape, AllRuns, RunSound, CancelIsQuiet
<1> QED
  BY <1>1, ShapeKept, PTL

LEMMA BarStep ==
    ASSUME Shape, [Next]_vars, Announced, NEW r \in DOMAIN runs
    PROVE  runs'[r].overall >= runs[r].overall
<1>0. StateTyped /\ AllRuns /\ DialogFollows
  BY DEF Shape
<1>1. runs[r].overall \in Nat /\ runs[r] \in Run
  BY <1>0 DEF AllRuns, RunSound, Run
<1>2. CASE runs'[r] = runs[r]
  BY <1>1, <1>2
<1>3. ASSUME NEW q \in DOMAIN runs, Thread(q)
      PROVE  runs'[r].overall >= runs[r].overall
  <2>1. Steps(q)
    BY <1>0, <1>3, ThreadSteps
  <2>2. q # r => runs'[r] = runs[r]
    BY <1>0, <2>1, StepsKeepRuns
  <2> QED
    BY <1>1, <2>1, <2>2 DEF Steps
<1>4. CASE Start
  <2>1. runs' = Append(Abandoned, NewRun(job))
    BY <1>4 DEF Start
  <2>2. runs'[r] = Abandoned[r]
    BY <1>0, <2>1, AbandonedSound, AppendProperties, LenProperties
  <2> QED
    BY <1>0, <1>1, <2>2, AbandonedSound
<1>5. CASE Close \/ Continue
  BY <1>0, <1>1, <1>5, AbandonedSound DEF Close, Continue
<1>6. CASE Restart
  <2>1. runs'[r] = [runs[r] EXCEPT !.at = "ended"]
    BY <1>6 DEF Restart
  <2>2. runs'[r].overall = runs[r].overall
    BY <1>1, <2>1 DEF Run
  <2> QED
    BY <1>1, <2>2
<1> QED
  BY <1>2, <1>3, <1>4, <1>5, <1>6 DEF Next, User, Open, ApplyView, vars

\* The overall bar never goes back within a run, for whatever sizes, if no
\* file is longer than announced (BeginItem, OnBytes, CompleteItem).
THEOREM BarGoesOn == Spec => BarNeverBack
<1>1. Shape /\ [Next]_vars =>
        [Announced => \A r \in DOMAIN runs :
                         runs'[r].overall >= runs[r].overall]_vars
  BY BarStep
<1> QED
  BY <1>1, ShapeKept, PTL DEF Spec, BarNeverBack
-----------------------------------------------------------------------------
InHand(m, r) == ~Ended(r) /\ Task(r) = m
                /\ runs[r].at \in Held \cup {"discard"}

LEMMA PartStep ==
    ASSUME Shape, PartIsInHand, [Next]_vars
    PROVE  PartIsInHand'
<1>0. StateTyped /\ AllRuns /\ DialogFollows
  BY DEF Shape
<1>1. ASSUME NEW r \in DOMAIN runs, Thread(r), NEW m \in Mod, part'[m] # 0,
             spent'.crashes = 0
      PROVE  \E q \in DOMAIN runs' : InHand(m, q)'
  <2>1. Steps(r)
    BY <1>0, <1>1, ThreadSteps
  <2>2. /\ DOMAIN runs' = DOMAIN runs
        /\ \A q \in DOMAIN runs : q # r => runs'[q] = runs[q]
    BY <1>0, <2>1, StepsKeepRuns
  <2>3. spent.crashes = 0
    BY <1>0, <1>1, ThreadDisk
  <2>4. CASE OpenPart(r)
    <3>1. part' = [part EXCEPT ![Task(r)] = part'[Task(r)]]
      BY <1>0, <2>4, TaskTyped DEF OpenPart, StateTyped
    <3>2. runs'[r].at = "stream" /\ runs'[r].item = runs[r].item
      BY <1>0, <2>4, TaskTyped DEF OpenPart, StateTyped, Run
    <3>3. Task(r)' = Task(r)
      BY <2>1, <3>2 DEF Task, Steps
    <3>4. CASE m = Task(r)
      BY <2>2, <3>2, <3>3, <3>4 DEF InHand, Held, Ended
    <3>5. CASE m # Task(r)
      <4>1. part[m] # 0
        BY <1>0, <1>1, <3>1, <3>5 DEF StateTyped
      <4>2. PICK q \in DOMAIN runs : InHand(m, q)
        BY <2>3, <4>1 DEF PartIsInHand, InHand, Held
      <4>3. q # r
        BY <4>2, <3>5 DEF InHand
      <4> QED
        BY <2>2, <4>2, <4>3 DEF InHand, Ended, Task
    <3> QED
      BY <3>4, <3>5
  <2>5. CASE ~OpenPart(r)
    <3>1. part[m] # 0
      BY <1>0, <1>1, <2>5, TaskTyped DEF StateTyped, disk, Thread, Work, Quit,
         BeginItem, Receive, Transferred, Abort, RemovePart, RemoveArchive,
         Rename, RenameFails, DownloadFailed, Unpack, UnpackRefused, OpenEntry,
         CloseEntry, EntryLost, OpenManifest, WriteManifest, ManifestLost,
         CompleteItem, Finish, OpenRefused, TransferFails, TransferLost,
         InstallFails
    <3>2. PICK q \in DOMAIN runs : InHand(m, q)
      BY <2>3, <3>1 DEF PartIsInHand, InHand, Held
    <3>3. CASE q # r
      BY <2>2, <3>2, <3>3 DEF InHand, Ended, Task
    <3>4. CASE q = r
      <4>1. Task(r) = m /\ runs[r].at \in {"stream", "replace", "rename", "discard"}
        BY <3>2, <3>4 DEF InHand, Held
      <4>2. ~RemovePart(r) /\ ~Rename(r)
        BY <1>0, <1>1, <4>1, TaskTyped DEF RemovePart, Rename, StateTyped
      <4>3. \/ Receive(r)
            \/ \E to \in {"replace", "rename", "discard"} : GoTo(r, runs[r].at, to)
        BY <1>1, <2>5, <4>1, <4>2 DEF NextEntry, Thread, Work, Quit,
         BeginItem, Transferred, Abort, RemoveArchive, GoTo,
         RenameFails, DownloadFailed, Unpack, UnpackRefused, OpenEntry,
         CloseEntry, EntryLost, OpenManifest, WriteManifest, ManifestLost,
         CompleteItem, Finish, OpenRefused, TransferFails, TransferLost,
         InstallFails
      <4>4. /\ runs'[r].at \in {"stream", "replace", "rename", "discard"}
            /\ runs'[r].item = runs[r].item
        <5>1. CASE Receive(r)
          <6>1. runs'[r] = [runs[r] EXCEPT !.received = runs[r].received + 1,
                                           !.overall = runs[r].completed
                                                + (runs[r].received + 1)]
            BY <1>0, <5>1 DEF Receive, StateTyped
          <6> QED
            BY <1>0, <4>1, <6>1, TaskTyped DEF Run
        <5>2. ASSUME NEW to \in {"replace", "rename", "discard"},
                     GoTo(r, runs[r].at, to)
              PROVE  runs'[r].at = to /\ runs'[r].item = runs[r].item
          <6>1. runs'[r] = [runs[r] EXCEPT !.at = to]
            BY <1>0, <5>2 DEF GoTo, StateTyped
          <6> QED
            BY <1>0, <6>1, TaskTyped DEF Run
        <5> QED
          BY <4>3, <5>1, <5>2
      <4> QED
        BY <2>1, <2>2, <4>1, <4>4 DEF InHand, Held, Ended, Task, Steps
    <3> QED
      BY <3>3, <3>4
  <2> QED
    BY <2>4, <2>5
<1>2. ASSUME NEW m \in Mod, part'[m] # 0, spent'.crashes = 0,
             part' = part, spent' = spent, DOMAIN runs \subseteq DOMAIN runs',
             \A q \in DOMAIN runs : /\ runs'[q].at = runs[q].at
                                    /\ runs'[q].todo = runs[q].todo
                                    /\ runs'[q].item = runs[q].item
      PROVE  \E q \in DOMAIN runs' : InHand(m, q)'
  <2>1. PICK q \in DOMAIN runs : InHand(m, q)
    BY <1>2 DEF PartIsInHand, InHand, Held
  <2> QED
    BY <1>2, <2>1 DEF InHand, Ended, Task
<1>3. \A q \in DOMAIN runs : /\ Abandoned[q].at = runs[q].at
                             /\ Abandoned[q].todo = runs[q].todo
                             /\ Abandoned[q].item = runs[q].item
  <2>1. \A q \in DOMAIN runs : Cancelled(q).item = runs[q].item
    BY <1>0, TaskTyped DEF Cancelled, Run
  <2> QED
    BY <1>0, <2>1, AbandonedSound
<1>4. ASSUME NEW m \in Mod, part'[m] # 0, spent'.crashes = 0, User
      PROVE  \E q \in DOMAIN runs' : InHand(m, q)'
  <2>1. part' = part /\ spent' = spent
    BY <1>4 DEF User, Open, Start, ApplyView, Close, Continue, disk
  <2>2. CASE runs' = Append(Abandoned, NewRun(job))
    <3>1. /\ DOMAIN runs \subseteq DOMAIN runs'
          /\ \A q \in DOMAIN runs : runs'[q] = Abandoned[q]
      BY <1>0, <2>2, AbandonedSound, AppendProperties, LenProperties
    <3> QED
      BY <1>2, <1>3, <1>4, <2>1, <3>1
  <2>3. CASE runs' = Abandoned
    BY <1>0, <1>2, <1>3, <1>4, <2>1, <2>3, AbandonedSound
  <2>4. CASE runs' = runs
    BY <1>2, <1>4, <2>1, <2>4
  <2> QED
    BY <1>4, <2>2, <2>3, <2>4 DEF User, Open, Start, ApplyView, Close, Continue
<1>5. CASE UNCHANGED vars
  BY <1>5 DEF PartIsInHand, vars, disk, Ended, Task
<1>6. CASE Restart
  <2>1. spent'.crashes # 0
    BY <1>0, <1>6 DEF Restart, StateTyped, Spent
  <2> QED
    BY <2>1 DEF PartIsInHand
<1>7. CASE User
  BY <1>4, <1>7 DEF PartIsInHand, InHand, Held
<1>8. ASSUME NEW r \in DOMAIN runs, Thread(r)
      PROVE  PartIsInHand'
  BY <1>1, <1>8 DEF PartIsInHand, InHand, Held
<1> QED
  BY <1>5, <1>6, <1>7, <1>8 DEF Next

\* A .part file is some run's work in hand, however the runs interfere: none
\* is left behind when they have ended (StreamDownloadFile's clean-up).
THEOREM NoPartLeft == Spec => []PartIsInHand
<1>1. Init => PartIsInHand
  BY DEF Init, PartIsInHand
<1> QED
  BY <1>1, PartStep, ShapeKept, PTL DEF Spec
-----------------------------------------------------------------------------
\* While the runs do not overlap: what the run that goes on has put on the disk.
Renamed(r) ==
    \A j \in runs[r].item .. Len(runs[r].todo) :
        archive[runs[r].todo[j]] = r
            => j = runs[r].item /\ runs[r].at \in PastRename

\* As far as the runs have noticed.
Intact(m, f) == bytes[m][f] = Whole(m) \/ Lost(f, m, Archive)
Kept(r, m, f) == f \in installed[m].files \/ Lost(r, m, f)

Written(r) ==
    /\ runs[r].at \in Held => part[Task(r)] = runs[r].file
    /\ runs[r].at = "stream" =>
          bytes[Task(r)][runs[r].file] = 1 .. runs[r].received
    /\ runs[r].at \in {"replace", "rename"} => Intact(Task(r), runs[r].file)

Unpacked(r) ==
    /\ runs[r].at \in {"write", "close"} =>
          \A f \in 1 .. runs[r].entry - 1 : Kept(r, Task(r), f)
    /\ runs[r].at \in {"manifest", "text"} =>
          \A f \in 1 .. Entries : Kept(r, Task(r), f)
    /\ runs[r].at = "complete" => AsFarAsSeen(r, Task(r))

Before(r) ==
    /\ \A j \in 1 .. runs[r].item - 1 : AsFarAsSeen(r, runs[r].todo[j])
    /\ runs[r].at = "finish" => AsFarAsSeen(r, Task(r))

OnDisk(r) == Renamed(r) /\ Written(r) /\ Unpacked(r) /\ Before(r)

Sound(m) == archive[m] # 0 => /\ archive[m] # part[m]
                              /\ Intact(m, archive[m])

Files ==
    ~overlapped =>
        /\ \A r \in DOMAIN runs : ~Ended(r) => OnDisk(r)
        /\ \A m \in Mod : Sound(m)
        /\ \A r \in DOMAIN runs : r = Len(runs) /\ runs[r].done =>
              \A j \in DOMAIN runs[r].todo : AsFarAsSeen(r, runs[r].todo[j])

\* What a step of run r has to show.
Leaves(r) ==
    /\ runs'[r].at # "ended" => OnDisk(r)'
    /\ \A m \in Mod : Sound(m)'
    /\ runs'[r].done => (\A j \in DOMAIN runs[r].todo :
                             AsFarAsSeen(r, runs[r].todo[j]))'

\* The run that goes on is the last one.
LEMMA OnlyRun ==
    ASSUME Shape, Files, ~overlapped, NEW r \in DOMAIN runs, Thread(r)
    PROVE  /\ r = Len(runs) /\ r \in 1 .. MaxRuns /\ ~runs[r].done
           /\ \A q \in DOMAIN runs : q # r => Ended(q)
           /\ OnDisk(r) /\ \A m \in Mod : Sound(m)
           /\ StateTyped /\ AllRuns
           /\ runs[r] \in Run
           /\ Task(r) \in Mod /\ Task(r) = runs[r].todo[runs[r].item]
           /\ runs[r].item \in 1 .. Len(runs[r].todo)
           /\ \A i, j \in 1 .. Len(runs[r].todo) :
                 runs[r].todo[i] = runs[r].todo[j] => i = j
           /\ \A j \in 1 .. Len(runs[r].todo) : runs[r].todo[j] \in Mod
           /\ spent.unnoticed \subseteq spent'.unnoticed
<1>1. StateTyped /\ AllRuns /\ DialogFollows
  BY DEF Shape
<1>2. ~Ended(r) /\ spent.unnoticed \subseteq spent'.unnoticed
  BY <1>1, Active, ThreadDisk
<1>3. r = Len(runs) /\ \A q \in DOMAIN runs : q # r => Ended(q)
  BY <1>1, <1>2 DEF DialogFollows
<1>4. r \in 1 .. MaxRuns
  BY <1>1, Numbers, LenProperties DEF StateTyped
<1>5. /\ IsInjective(runs[r].todo) /\ runs[r].todo \in Seq(Mod)
      /\ ~runs[r].done
  BY <1>1, <1>2, TaskTyped DEF AllRuns, RunSound, Run, Ended
<1>6. /\ \A i, j \in 1 .. Len(runs[r].todo) :
            runs[r].todo[i] = runs[r].todo[j] => i = j
      /\ \A j \in 1 .. Len(runs[r].todo) : runs[r].todo[j] \in Mod
  BY <1>5, LenProperties, ElementOfSeq DEF IsInjective
<1> QED
  BY <1>1, <1>2, <1>3, <1>4, <1>5, <1>6, TaskTyped DEF Files

LEMMA MoveFields ==
    ASSUME StateTyped, AllRuns, NEW r \in DOMAIN runs, NEW from, NEW to,
           GoTo(r, from, to)
    PROVE  /\ runs[r].at = from /\ runs'[r].at = to
           /\ runs'[r].todo = runs[r].todo /\ runs'[r].item = runs[r].item
           /\ runs'[r].file = runs[r].file /\ runs'[r].entry = runs[r].entry
           /\ runs'[r].received = runs[r].received
           /\ runs'[r].done = runs[r].done
           /\ Task(r)' = Task(r)
<1>1. runs'[r] = [runs[r] EXCEPT !.at = to]
  BY DEF GoTo, StateTyped
<1>2. runs[r].at = from
  BY DEF GoTo
<1>3. /\ runs'[r].at = to
      /\ runs'[r].todo = runs[r].todo /\ runs'[r].item = runs[r].item
      /\ runs'[r].file = runs[r].file /\ runs'[r].entry = runs[r].entry
      /\ runs'[r].received = runs[r].received
      /\ runs'[r].done = runs[r].done
  BY <1>1, TaskTyped DEF Run
<1> QED
  BY <1>2, <1>3 DEF Task

\* Steps that do not write.
LEMMA QuietLeaves ==
    ASSUME Shape, Files, ~overlapped, NEW r \in DOMAIN runs, Thread(r),
           UNCHANGED disk, runs'[r].todo = runs[r].todo,
           runs'[r].done => /\ runs[r].at = "finish"
                            /\ runs[r].item = Len(runs[r].todo),
           runs'[r].at # "ended" => OnDisk(r)'
    PROVE  Leaves(r)
<1>1. /\ part' = part /\ archive' = archive /\ bytes' = bytes
      /\ installed' = installed
  BY DEF disk
<1>2. \A m \in Mod : Sound(m)'
  BY <1>1, OnlyRun DEF Sound, Intact, Lost, Whole
<1>4. runs'[r].done => (\A j \in DOMAIN runs[r].todo :
                              AsFarAsSeen(r, runs[r].todo[j]))'
  <2>1. SUFFICES ASSUME runs'[r].done, NEW j \in DOMAIN runs[r].todo
                 PROVE  AsFarAsSeen(r, runs[r].todo[j])
    BY <1>1, OnlyRun DEF AsFarAsSeen, Lost
  <2>2. /\ Before(r) /\ runs[r].item = Len(runs[r].todo)
        /\ Task(r) = runs[r].todo[runs[r].item]
        /\ runs[r].todo \in Seq(Mod) /\ runs[r].item \in Nat
    BY <2>1, OnlyRun DEF OnDisk, Run
  <2>3. j \in 1 .. runs[r].item - 1 \/ j = runs[r].item
    BY <2>2, LenProperties
  <2> QED
    BY <2>1, <2>2, <2>3 DEF Before
<1> QED
  BY <1>2, <1>4 DEF Leaves

LEMMA EndLeaves ==
    ASSUME Shape, Files, ~overlapped, NEW r \in DOMAIN runs, Thread(r),
           UNCHANGED disk,
           Quit(r) \/ DownloadFailed(r) \/ UnpackRefused(r) \/ InstallFails(r)
    PROVE  Leaves(r)
<1>1. StateTyped /\ AllRuns /\ runs[r] \in Run /\ ~runs[r].done
  BY OnlyRun
<1>2. \/ runs'[r] = [runs[r] EXCEPT !.at = "ended"]
      \/ runs'[r] = [runs[r] EXCEPT !.at = "ended", !.failed = TRUE]
  BY <1>1 DEF Quit, DownloadFailed, UnpackRefused, InstallFails, GoTo, SetFailed,
     StateTyped
<1>3. /\ runs'[r].at = "ended" /\ runs'[r].todo = runs[r].todo
      /\ runs'[r].done = runs[r].done
  BY <1>1, <1>2 DEF Run
<1> QED
  BY <1>1, <1>3, QuietLeaves

LEMMA MoveLeaves ==
    ASSUME Shape, Files, ~overlapped, NEW r \in DOMAIN runs, Thread(r),
           UNCHANGED disk,
           NEW from, NEW to, GoTo(r, from, to),
           \/ to = "replace" /\ from = "stream"
              /\ runs[r].received = Size[Task(r)]
           \/ <<from, to>> \in {<<"stream", "discard">>, <<"rename", "discard">>,
                                <<"open", "refused">>}
    PROVE  Leaves(r)
<1>0. /\ StateTyped /\ AllRuns /\ OnDisk(r) /\ ~runs[r].done
      /\ spent.unnoticed \subseteq spent'.unnoticed
  BY OnlyRun
<1>1. /\ part' = part /\ archive' = archive /\ bytes' = bytes
      /\ installed' = installed
  BY DEF disk
<1>2. /\ runs[r].at = from /\ runs'[r].at = to
      /\ runs'[r].todo = runs[r].todo /\ runs'[r].item = runs[r].item
      /\ runs'[r].file = runs[r].file /\ runs'[r].entry = runs[r].entry
      /\ runs'[r].received = runs[r].received
      /\ runs'[r].done = runs[r].done
      /\ Task(r)' = Task(r)
  BY <1>0, MoveFields
<1>3. Renamed(r)'
  BY <1>0, <1>1, <1>2 DEF OnDisk, Renamed, PastRename
<1>4. Written(r)'
  BY <1>0, <1>1, <1>2 DEF OnDisk, Written, Whole, Held, Intact
<1>5. Unpacked(r)'
  BY <1>2 DEF Unpacked
<1>6. Before(r)'
  BY <1>0, <1>1, <1>2 DEF OnDisk, Before, AsFarAsSeen, Lost
<1> QED
  BY <1>0, <1>2, <1>3, <1>4, <1>5, <1>6, QuietLeaves DEF OnDisk

LEMMA BeginItemLeaves ==
    ASSUME Shape, Files, ~overlapped, NEW r \in DOMAIN runs, Thread(r),
           BeginItem(r)
    PROVE  Leaves(r)
<1>0. /\ StateTyped /\ AllRuns /\ OnDisk(r) /\ ~runs[r].done
      /\ runs[r] \in Run
      /\ spent.unnoticed \subseteq spent'.unnoticed
  BY OnlyRun
<1>1. /\ part' = part /\ archive' = archive /\ bytes' = bytes
      /\ installed' = installed /\ UNCHANGED disk /\ runs[r].at = "head"
  BY DEF BeginItem, disk
<1>2. /\ runs'[r].at = "open" /\ runs'[r].todo = runs[r].todo
      /\ runs'[r].item = runs[r].item /\ runs'[r].done = runs[r].done
  <2>1. runs'[r] = [runs[r] EXCEPT !.at = "open", !.received = 0,
                                   !.overall = runs[r].completed]
    BY <1>0 DEF BeginItem, StateTyped
  <2> QED
    BY <1>0, <2>1 DEF Run
<1>3. Renamed(r)'
  BY <1>0, <1>1, <1>2 DEF OnDisk, Renamed, PastRename
<1>4. Written(r)' /\ Unpacked(r)'
  BY <1>2 DEF Written, Unpacked, Held
<1>5. Before(r)'
  BY <1>0, <1>1, <1>2 DEF OnDisk, Before, AsFarAsSeen, Lost
<1> QED
  BY <1>0, <1>1, <1>2, <1>3, <1>4, <1>5, QuietLeaves DEF OnDisk

LEMMA UnpackLeaves ==
    ASSUME Shape, Files, ~overlapped, NEW r \in DOMAIN runs, Thread(r),
           Unpack(r)
    PROVE  Leaves(r)
<1>0. /\ StateTyped /\ AllRuns /\ OnDisk(r) /\ ~runs[r].done
      /\ runs[r] \in Run
      /\ spent.unnoticed \subseteq spent'.unnoticed
  BY OnlyRun
<1>1. /\ part' = part /\ archive' = archive /\ bytes' = bytes
      /\ installed' = installed /\ UNCHANGED disk /\ runs[r].at = "landed"
  BY DEF Unpack, disk
<1>2. /\ runs'[r].at = "write" /\ runs'[r].todo = runs[r].todo
      /\ runs'[r].entry = 1
      /\ runs'[r].item = runs[r].item /\ runs'[r].done = runs[r].done
  <2>1. runs'[r] = [runs[r] EXCEPT !.at = "write", !.entry = 1]
    BY <1>0 DEF Unpack, StateTyped
  <2> QED
    BY <1>0, <2>1 DEF Run
<1>3. Renamed(r)'
  BY <1>0, <1>1, <1>2 DEF OnDisk, Renamed, PastRename
<1>4. Written(r)' /\ Unpacked(r)'
  BY <1>2 DEF Written, Unpacked, Held
<1>5. Before(r)'
  BY <1>0, <1>1, <1>2 DEF OnDisk, Before, AsFarAsSeen, Lost
<1> QED
  BY <1>0, <1>1, <1>2, <1>3, <1>4, <1>5, QuietLeaves DEF OnDisk

LEMMA CompleteItemLeaves ==
    ASSUME Shape, Files, ~overlapped, NEW r \in DOMAIN runs, Thread(r),
           CompleteItem(r)
    PROVE  Leaves(r)
<1>0. /\ StateTyped /\ AllRuns /\ OnDisk(r) /\ ~runs[r].done
      /\ runs[r] \in Run /\ Task(r) = runs[r].todo[runs[r].item]
      /\ Task(r) \in Mod /\ runs[r].item \in 1 .. Len(runs[r].todo)
      /\ spent.unnoticed \subseteq spent'.unnoticed
  BY OnlyRun
<1>1. /\ part' = part /\ archive' = archive /\ bytes' = bytes
      /\ installed' = installed /\ UNCHANGED disk /\ runs[r].at = "complete"
  BY DEF CompleteItem, disk
<1>2. /\ runs'[r].todo = runs[r].todo /\ runs'[r].done = runs[r].done
      /\ \/ /\ runs[r].item = Len(runs[r].todo) /\ runs'[r].at = "finish"
            /\ runs'[r].item = runs[r].item
         \/ /\ runs[r].item # Len(runs[r].todo) /\ runs'[r].at = "head"
            /\ runs'[r].item = runs[r].item + 1
  <2>1. PICK sum : sum = runs[r].completed + Credit(r)
    OBVIOUS
  <2>2. PICK exp : exp = Expected[Task(r)]
    OBVIOUS
  <2>3. runs'[r] = [runs[r] EXCEPT !.completed = sum, !.overall = sum,
                       !.received = exp, !.file = 0,
                       !.at = IF runs[r].item = Len(runs[r].todo) THEN "finish"
                                                                 ELSE "head",
                       !.item = IF runs[r].item = Len(runs[r].todo)
                                THEN runs[r].item ELSE runs[r].item + 1]
    BY <1>0, <2>1, <2>2 DEF CompleteItem, StateTyped
  <2> QED
    BY <1>0, <2>3 DEF Run
<1>3. Renamed(r)'
  BY <1>0, <1>1, <1>2 DEF OnDisk, Renamed, PastRename
<1>4. Written(r)' /\ Unpacked(r)'
  BY <1>2 DEF Written, Unpacked, Held
<1>5. Before(r)'
  <2>1. AsFarAsSeen(r, Task(r))
    BY <1>0, <1>1 DEF OnDisk, Unpacked
  <2>2. \A j \in 1 .. runs[r].item : AsFarAsSeen(r, runs[r].todo[j])
    BY <1>0, <2>1 DEF OnDisk, Before
  <2> QED
    BY SMTT(30), <1>0, <1>1, <1>2, <2>1, <2>2 DEF Before, AsFarAsSeen, Lost, Task
<1> QED
  BY <1>0, <1>1, <1>2, <1>3, <1>4, <1>5, QuietLeaves DEF OnDisk

LEMMA FinishLeaves ==
    ASSUME Shape, Files, ~overlapped, NEW r \in DOMAIN runs, Thread(r),
           Finish(r)
    PROVE  Leaves(r)
<1>0. /\ StateTyped /\ AllRuns /\ runs[r] \in Run /\ RunSound(runs[r], Len(runs))
      /\ spent.unnoticed \subseteq spent'.unnoticed
  BY OnlyRun DEF AllRuns
<1>1. runs'[r] = [runs[r] EXCEPT !.at = "ended", !.done = TRUE]
  BY <1>0 DEF Finish, StateTyped
<1>2. runs'[r].at = "ended" /\ runs'[r].todo = runs[r].todo
  BY <1>0, <1>1 DEF Run
<1>3. UNCHANGED disk /\ runs[r].at = "finish"
  BY DEF Finish
<1>4. runs[r].item = Len(runs[r].todo)
  BY <1>0, <1>3 DEF RunSound
<1> QED
  BY <1>2, <1>3, <1>4, QuietLeaves
-----------------------------------------------------------------------------
\* Steps on the .part file and the archive.
LEMMA OpenPartLeaves ==
    ASSUME Shape, Files, ~overlapped, NEW r \in DOMAIN runs, Thread(r),
           OpenPart(r)
    PROVE  Leaves(r)
<1>0. /\ StateTyped /\ AllRuns /\ OnDisk(r) /\ ~runs[r].done
      /\ runs[r] \in Run /\ Task(r) = runs[r].todo[runs[r].item]
      /\ Task(r) \in Mod /\ runs[r].item \in 1 .. Len(runs[r].todo)
      /\ r \in 1 .. MaxRuns /\ \A m \in Mod : Sound(m)
      /\ spent.unnoticed \subseteq spent'.unnoticed
  BY OnlyRun
<1>1. PICK f : f = IF part[Task(r)] = 0 THEN r ELSE part[Task(r)]
  OBVIOUS
<1>2. /\ part' = [part EXCEPT ![Task(r)] = f]
      /\ bytes' = [bytes EXCEPT ![Task(r)][f] = {}]
      /\ archive' = archive /\ installed' = installed /\ runs[r].at = "open"
      /\ runs' = [runs EXCEPT ![r] = [runs[r] EXCEPT !.at = "stream", !.file = f]]
  BY <1>0, <1>1 DEF OpenPart, StateTyped
<1>3. f \in 1 .. MaxRuns
  BY <1>0, <1>1, Numbers, SMTT(30) DEF StateTyped
<1>4. /\ runs'[r].at = "stream" /\ runs'[r].todo = runs[r].todo
      /\ runs'[r].file = f /\ runs'[r].item = runs[r].item
      /\ runs'[r].received = runs[r].received /\ runs'[r].done = runs[r].done
      /\ Task(r)' = Task(r)
  <2>1. runs'[r] = [runs[r] EXCEPT !.at = "stream", !.file = f]
    BY <1>2
  <2> QED
    BY <1>0, <2>1 DEF Run, Task
<1>5. runs[r].received = 0
  BY <1>0, <1>2 DEF AllRuns, RunSound
<1>6. /\ part'[Task(r)] = f /\ bytes'[Task(r)][f] = {}
      /\ \A m \in Mod : m # Task(r) => part'[m] = part[m] /\ bytes'[m] = bytes[m]
      /\ \A g \in 1 .. MaxRuns : g # f => bytes'[Task(r)][g] = bytes[Task(r)][g]
  BY <1>0, <1>2, <1>3 DEF StateTyped
<1>7. archive[Task(r)] # f \/ archive[Task(r)] = 0
  <2>1. archive[Task(r)] # r
    BY <1>0, <1>2 DEF OnDisk, Renamed, PastRename
  <2> QED
    BY <1>0, <1>1, <2>1 DEF Sound
<1>8. \A m \in Mod : Sound(m)'
  <2>1. SUFFICES ASSUME NEW m \in Mod, archive[m] # 0
                 PROVE  archive[m] # part'[m] /\ bytes'[m][archive[m]] = bytes[m][archive[m]]
    BY <1>0, <1>2 DEF Sound, Whole, Intact, Lost
  <2>2. archive[m] \in 1 .. MaxRuns
    BY <1>0, <2>1, Numbers, LenProperties DEF StateTyped
  <2> QED
    BY <1>0, <1>6, <1>7, <2>1, <2>2 DEF Sound
<1>9. Renamed(r)'
  BY <1>0, <1>2, <1>4 DEF OnDisk, Renamed, PastRename
<1>10. Written(r)'
  BY <1>4, <1>5, <1>6 DEF Written
<1>11. Unpacked(r)' /\ Before(r)'
  BY <1>0, <1>2, <1>4 DEF Unpacked, Before, OnDisk, AsFarAsSeen, Lost
<1> QED
  BY <1>0, <1>4, <1>8, <1>9, <1>10, <1>11 DEF Leaves, OnDisk

LEMMA ReceiveLeaves ==
    ASSUME Shape, Files, ~overlapped, NEW r \in DOMAIN runs, Thread(r),
           Receive(r)
    PROVE  Leaves(r)
<1>0. /\ StateTyped /\ AllRuns /\ OnDisk(r) /\ ~runs[r].done
      /\ runs[r] \in Run /\ Task(r) = runs[r].todo[runs[r].item]
      /\ Task(r) \in Mod /\ runs[r].item \in 1 .. Len(runs[r].todo)
      /\ r \in 1 .. MaxRuns /\ \A m \in Mod : Sound(m)
      /\ spent.unnoticed \subseteq spent'.unnoticed
  BY OnlyRun
<1>1. PICK n : n = runs[r].received + 1
  OBVIOUS
<1>2. PICK f : f = runs[r].file
  OBVIOUS
<1>3. /\ bytes' = [bytes EXCEPT ![Task(r)][f] = @ \cup {n}]
      /\ archive' = archive /\ installed' = installed /\ runs[r].at = "stream"
      /\ part' = part
      /\ runs'[r] = [runs[r] EXCEPT !.received = n,
                                    !.overall = runs[r].completed + n]
  BY <1>0, <1>1, <1>2 DEF Receive, StateTyped
<1>4. f \in 1 .. MaxRuns /\ part[Task(r)] = f /\ bytes[Task(r)][f] = 1 .. runs[r].received
  <2>1. RunSound(runs[r], Len(runs))
    BY <1>0 DEF AllRuns
  <2>2. part[Task(r)] = f /\ f # 0
    BY <1>0, <1>2, <1>3, <2>1 DEF OnDisk, Written, Held, RunSound
  <2>3. f \in 1 .. MaxRuns
    BY <1>0, <1>2, <2>2, Numbers DEF Run
  <2> QED
    BY <1>0, <1>2, <1>3, <2>2, <2>3 DEF OnDisk, Written
<1>5. /\ runs'[r].at = "stream" /\ runs'[r].todo = runs[r].todo
      /\ runs'[r].file = f /\ runs'[r].item = runs[r].item
      /\ runs'[r].received = n /\ runs'[r].done = runs[r].done
      /\ Task(r)' = Task(r)
  BY <1>0, <1>2, <1>3 DEF Run, Task
<1>6. /\ bytes'[Task(r)][f] = 1 .. n
      /\ \A m \in Mod : m # Task(r) => bytes'[m] = bytes[m]
      /\ \A g \in 1 .. MaxRuns : g # f => bytes'[Task(r)][g] = bytes[Task(r)][g]
  <2>1. bytes'[Task(r)][f] = (1 .. runs[r].received) \cup {n}
    BY <1>0, <1>3, <1>4 DEF StateTyped
  <2>2. runs[r].received \in Nat
    BY <1>0 DEF Run
  <2>3. (1 .. runs[r].received) \cup {n} = 1 .. n
    BY <1>1, <2>2
  <2>4. /\ \A m \in Mod : m # Task(r) => bytes'[m] = bytes[m]
        /\ \A g \in 1 .. MaxRuns : g # f => bytes'[Task(r)][g] = bytes[Task(r)][g]
    BY <1>0, <1>3, <1>4 DEF StateTyped
  <2> QED
    BY <2>1, <2>3, <2>4
<1>7. \A m \in Mod : Sound(m)'
  <2>1. SUFFICES ASSUME NEW m \in Mod, archive[m] # 0
                 PROVE  bytes'[m][archive[m]] = bytes[m][archive[m]]
    BY <1>0, <1>3 DEF Sound, Whole, Intact, Lost
  <2>2. archive[m] \in 1 .. MaxRuns
    BY <1>0, <2>1, Numbers, LenProperties DEF StateTyped
  <2> QED
    BY <1>0, <1>4, <1>6, <2>1, <2>2 DEF Sound
<1>8. Renamed(r)'
  BY <1>0, <1>3, <1>5 DEF OnDisk, Renamed
<1>9. Written(r)'
  BY <1>3, <1>4, <1>5, <1>6 DEF Written
<1>10. Unpacked(r)' /\ Before(r)'
  BY <1>0, <1>3, <1>5 DEF Unpacked, Before, OnDisk, AsFarAsSeen, Lost
<1> QED
  BY <1>0, <1>5, <1>7, <1>8, <1>9, <1>10 DEF Leaves, OnDisk

LEMMA TransferLostLeaves ==
    ASSUME Shape, Files, ~overlapped, NEW r \in DOMAIN runs, Thread(r),
           TransferLost(r)
    PROVE  Leaves(r)
<1>0. /\ StateTyped /\ AllRuns /\ OnDisk(r) /\ ~runs[r].done
      /\ runs[r] \in Run /\ Task(r) \in Mod /\ \A m \in Mod : Sound(m)
      /\ spent.unnoticed \subseteq spent'.unnoticed
  BY OnlyRun
<1>1. PICK f : f = runs[r].file
  OBVIOUS
<1>2. /\ bytes' = [bytes EXCEPT ![Task(r)][f] = @ \ {Size[Task(r)]}]
      /\ archive' = archive /\ installed' = installed /\ part' = part
      /\ GoTo(r, "stream", "replace") /\ FailUnnoticed(f, Task(r), Archive)
  BY <1>1 DEF TransferLost
<1>3. /\ runs[r].at = "stream" /\ runs'[r].at = "replace"
      /\ runs'[r].todo = runs[r].todo /\ runs'[r].file = f
      /\ runs'[r].item = runs[r].item /\ runs'[r].done = runs[r].done
      /\ Task(r)' = Task(r)
  BY <1>0, <1>1, <1>2, MoveFields
<1>4. f \in 1 .. MaxRuns /\ part[Task(r)] = f
  <2>1. RunSound(runs[r], Len(runs))
    BY <1>0 DEF AllRuns
  <2>2. part[Task(r)] = f /\ f # 0
    BY <1>0, <1>1, <1>3, <2>1 DEF OnDisk, Written, Held, RunSound
  <2> QED
    BY <1>0, <1>1, <2>2, Numbers DEF Run
<1>5. <<f, Task(r), Archive>> \in spent'.unnoticed
  BY <1>0, <1>2 DEF FailUnnoticed, StateTyped, Spent
<1>6. /\ \A m \in Mod : m # Task(r) => bytes'[m] = bytes[m]
      /\ \A g \in 1 .. MaxRuns : g # f => bytes'[Task(r)][g] = bytes[Task(r)][g]
  BY <1>0, <1>2, <1>4 DEF StateTyped
<1>7. \A m \in Mod : Sound(m)'
  <2>1. SUFFICES ASSUME NEW m \in Mod, archive[m] # 0
                 PROVE  bytes'[m][archive[m]] = bytes[m][archive[m]]
    BY <1>0, <1>2 DEF Sound, Whole, Intact, Lost
  <2>2. archive[m] \in 1 .. MaxRuns
    BY <1>0, <2>1, Numbers, LenProperties DEF StateTyped
  <2> QED
    BY <1>0, <1>4, <1>6, <2>1, <2>2 DEF Sound
<1>8. Renamed(r)'
  BY <1>0, <1>2, <1>3 DEF OnDisk, Renamed, PastRename
<1>9. Written(r)'
  BY <1>2, <1>3, <1>4, <1>5 DEF Written, Intact, Lost
<1>10. Unpacked(r)' /\ Before(r)'
  BY <1>0, <1>2, <1>3 DEF Unpacked, Before, OnDisk, AsFarAsSeen, Lost
<1> QED
  BY <1>0, <1>3, <1>7, <1>8, <1>9, <1>10 DEF Leaves, OnDisk

LEMMA RemovePartLeaves ==
    ASSUME Shape, Files, ~overlapped, NEW r \in DOMAIN runs, Thread(r),
           RemovePart(r)
    PROVE  Leaves(r)
<1>0. /\ StateTyped /\ AllRuns /\ OnDisk(r) /\ ~runs[r].done
      /\ Task(r) \in Mod /\ \A m \in Mod : Sound(m)
      /\ spent.unnoticed \subseteq spent'.unnoticed
  BY OnlyRun
<1>1. /\ bytes' = bytes /\ archive' = archive /\ installed' = installed
      /\ part' = [part EXCEPT ![Task(r)] = 0]
      /\ GoTo(r, "discard", "refused")
  BY DEF RemovePart
<1>2. /\ runs'[r].at = "refused"
      /\ runs'[r].todo = runs[r].todo /\ runs'[r].item = runs[r].item
      /\ runs'[r].done = runs[r].done /\ Task(r)' = Task(r)
      /\ runs[r].at = "discard"
  BY <1>0, <1>1, MoveFields
<1>3. \A m \in Mod : Sound(m)'
  BY <1>0, <1>1 DEF Sound, Whole, StateTyped, Intact, Lost
<1>4. Renamed(r)'
  BY <1>0, <1>1, <1>2 DEF OnDisk, Renamed, PastRename
<1>5. Written(r)' /\ Unpacked(r)'
  BY <1>2 DEF Written, Unpacked, Held
<1>6. Before(r)'
  BY <1>0, <1>1, <1>2 DEF OnDisk, Before, AsFarAsSeen, Lost
<1> QED
  BY <1>0, <1>2, <1>3, <1>4, <1>5, <1>6 DEF Leaves, OnDisk

LEMMA RemoveArchiveLeaves ==
    ASSUME Shape, Files, ~overlapped, NEW r \in DOMAIN runs, Thread(r),
           RemoveArchive(r)
    PROVE  Leaves(r)
<1>0. /\ StateTyped /\ AllRuns /\ OnDisk(r) /\ ~runs[r].done
      /\ Task(r) \in Mod /\ \A m \in Mod : Sound(m) /\ r \in 1 .. MaxRuns
      /\ \A j \in 1 .. Len(runs[r].todo) : runs[r].todo[j] \in Mod
      /\ runs[r].item \in 1 .. Len(runs[r].todo)
      /\ spent.unnoticed \subseteq spent'.unnoticed
  BY OnlyRun
<1>1. /\ bytes' = bytes /\ part' = part /\ installed' = installed
      /\ archive' = [archive EXCEPT ![Task(r)] = 0]
      /\ GoTo(r, "replace", "rename")
  BY DEF RemoveArchive
<1>2. /\ runs'[r].at = "rename" /\ runs'[r].file = runs[r].file
      /\ runs'[r].todo = runs[r].todo /\ runs'[r].item = runs[r].item
      /\ runs'[r].done = runs[r].done /\ Task(r)' = Task(r)
      /\ runs[r].at = "replace"
  BY <1>0, <1>1, MoveFields
<1>3. \A m \in Mod : Sound(m)'
  BY <1>0, <1>1 DEF Sound, Whole, StateTyped, Intact, Lost
<1>4. Renamed(r)'
  <2>1. SUFFICES ASSUME NEW j \in runs[r].item .. Len(runs[r].todo),
                        archive'[runs[r].todo[j]] = r
                 PROVE  FALSE
    BY <1>2 DEF Renamed
  <2>2. j \in 1 .. Len(runs[r].todo)
    BY <1>0, <2>1
  <2>3. archive[runs[r].todo[j]] = r
    BY <1>0, <1>1, <2>1, <2>2 DEF StateTyped
  <2> QED
    BY <1>0, <1>2, <2>1, <2>3 DEF OnDisk, Renamed, PastRename
<1>5. Written(r)'
  BY <1>0, <1>1, <1>2 DEF OnDisk, Written, Held, Whole, Intact, Lost
<1>6. Unpacked(r)' /\ Before(r)'
  BY <1>0, <1>1, <1>2 DEF OnDisk, Before, Unpacked, AsFarAsSeen, Lost
<1> QED
  BY <1>0, <1>2, <1>3, <1>4, <1>5, <1>6 DEF Leaves, OnDisk

LEMMA RenameLeaves ==
    ASSUME Shape, Files, ~overlapped, NEW r \in DOMAIN runs, Thread(r),
           Rename(r)
    PROVE  Leaves(r)
<1>0. /\ StateTyped /\ AllRuns /\ OnDisk(r) /\ ~runs[r].done
      /\ Task(r) \in Mod /\ \A m \in Mod : Sound(m) /\ r \in 1 .. MaxRuns
      /\ \A j \in 1 .. Len(runs[r].todo) : runs[r].todo[j] \in Mod
      /\ runs[r].item \in 1 .. Len(runs[r].todo)
      /\ Task(r) = runs[r].todo[runs[r].item]
      /\ \A i, j \in 1 .. Len(runs[r].todo) :
            runs[r].todo[i] = runs[r].todo[j] => i = j
      /\ spent.unnoticed \subseteq spent'.unnoticed
  BY OnlyRun
<1>1. /\ bytes' = bytes /\ installed' = installed
      /\ archive' = [archive EXCEPT ![Task(r)] = part[Task(r)]]
      /\ part' = [part EXCEPT ![Task(r)] = 0] /\ part[Task(r)] # 0
      /\ GoTo(r, "rename", "landed")
  BY DEF Rename
<1>2. /\ runs'[r].at = "landed"
      /\ runs'[r].todo = runs[r].todo /\ runs'[r].item = runs[r].item
      /\ runs'[r].done = runs[r].done /\ Task(r)' = Task(r)
      /\ runs[r].at = "rename"
  BY <1>0, <1>1, MoveFields
<1>3. Intact(Task(r), part[Task(r)])
  BY <1>0, <1>2 DEF OnDisk, Written, Held
<1>4. \A m \in Mod : Sound(m)'
  <2>1. SUFFICES ASSUME NEW m \in Mod, archive'[m] # 0
                 PROVE  archive'[m] # part'[m] /\ Intact(m, archive'[m])
    BY <1>0, <1>1 DEF Sound, Whole, Intact, Lost
  <2>2. CASE m = Task(r)
    BY <1>0, <1>1, <1>3, <2>2 DEF StateTyped
  <2>3. CASE m # Task(r)
    <3>1. archive'[m] = archive[m] /\ part'[m] = part[m]
      BY <1>0, <1>1, <2>3 DEF StateTyped
    <3> QED
      BY <1>0, <2>1, <3>1 DEF Sound
  <2> QED
    BY <2>2, <2>3
<1>5. Renamed(r)'
  <2>1. SUFFICES ASSUME NEW j \in runs[r].item .. Len(runs[r].todo),
                        archive'[runs[r].todo[j]] = r
                 PROVE  j = runs[r].item
    BY <1>2 DEF Renamed, PastRename
  <2>2. j \in 1 .. Len(runs[r].todo)
    BY <1>0, <2>1
  <2>3. CASE runs[r].todo[j] = Task(r)
    BY <1>0, <2>2, <2>3
  <2>4. CASE runs[r].todo[j] # Task(r)
    <3>1. archive[runs[r].todo[j]] = r
      BY <1>0, <1>1, <2>1, <2>2, <2>4 DEF StateTyped
    <3> QED
      BY <1>0, <1>2, <2>1, <3>1 DEF OnDisk, Renamed
  <2> QED
    BY <2>3, <2>4
<1>6. Written(r)' /\ Unpacked(r)'
  BY <1>2 DEF Written, Unpacked, Held
<1>7. Before(r)'
  BY <1>0, <1>1, <1>2 DEF OnDisk, Before, AsFarAsSeen, Lost
<1> QED
  BY <1>0, <1>2, <1>4, <1>5, <1>6, <1>7 DEF Leaves, OnDisk
-----------------------------------------------------------------------------
\* Steps on the mod's directory.
LEMMA DirectoryLeaves ==
    ASSUME Shape, Files, ~overlapped, NEW r \in DOMAIN runs, Thread(r),
           UNCHANGED <<part, archive, bytes>>,
           \A m \in Mod \ {Task(r)} : installed'[m] = installed[m],
           runs[r].at \in {"write", "close", "manifest", "text"},
           runs'[r].at \in {"write", "close", "manifest", "text", "complete"},
           runs'[r].todo = runs[r].todo, runs'[r].item = runs[r].item,
           runs'[r].done = runs[r].done, Unpacked(r)'
    PROVE  Leaves(r)
<1>0. /\ StateTyped /\ AllRuns /\ OnDisk(r) /\ ~runs[r].done
      /\ Task(r) \in Mod /\ \A m \in Mod : Sound(m)
      /\ \A j \in 1 .. Len(runs[r].todo) : runs[r].todo[j] \in Mod
      /\ runs[r].item \in 1 .. Len(runs[r].todo)
      /\ Task(r) = runs[r].todo[runs[r].item]
      /\ \A i, j \in 1 .. Len(runs[r].todo) :
            runs[r].todo[i] = runs[r].todo[j] => i = j
      /\ spent.unnoticed \subseteq spent'.unnoticed
  BY OnlyRun
<1>2. \A m \in Mod : Sound(m)'
  BY <1>0 DEF Sound, Whole, Intact, Lost
<1>3. Renamed(r)'
  BY <1>0 DEF OnDisk, Renamed, PastRename
<1>4. Written(r)'
  BY DEF Written, Held
<1>6. Before(r)'
  <2>1. SUFFICES ASSUME NEW j \in 1 .. runs[r].item - 1
                 PROVE  installed'[runs[r].todo[j]] = installed[runs[r].todo[j]]
    BY <1>0 DEF OnDisk, Before, AsFarAsSeen, Lost
  <2>2. j \in 1 .. Len(runs[r].todo) /\ j # runs[r].item
    BY <1>0, <2>1, LenProperties
  <2>3. runs[r].todo[j] \in Mod /\ runs[r].todo[j] # Task(r)
    BY <1>0, <2>2
  <2> QED
    BY <1>0, <2>3
<1> QED
  BY <1>0, <1>2, <1>3, <1>4, <1>6 DEF Leaves, OnDisk

LEMMA OpenEntryLeaves ==
    ASSUME Shape, Files, ~overlapped, NEW r \in DOMAIN runs, Thread(r),
           OpenEntry(r)
    PROVE  Leaves(r)
<1>0. /\ StateTyped /\ AllRuns /\ OnDisk(r)
      /\ Task(r) \in Mod /\ runs[r] \in Run
      /\ spent.unnoticed \subseteq spent'.unnoticed
  BY OnlyRun
<1>1. GoTo(r, "write", "close") /\ UNCHANGED <<part, archive, bytes>>
  BY DEF OpenEntry
<1>2. /\ runs[r].at = "write" /\ runs'[r].at = "close"
      /\ runs'[r].todo = runs[r].todo /\ runs'[r].item = runs[r].item
      /\ runs'[r].entry = runs[r].entry /\ runs'[r].done = runs[r].done
      /\ Task(r)' = Task(r)
  BY <1>0, <1>1, MoveFields
<1>3. /\ installed'[Task(r)].files = installed[Task(r)].files \ {runs[r].entry}
      /\ \A m \in Mod \ {Task(r)} : installed'[m] = installed[m]
  BY <1>0 DEF OpenEntry, Truncated, StateTyped
<1>4. runs[r].entry \in Nat
  BY <1>0, Numbers DEF Run
<1>5. \A f \in 1 .. runs[r].entry - 1 :
          f \in installed'[Task(r)].files \/ <<r, Task(r), f>> \in spent'.unnoticed
  BY <1>0, <1>2, <1>3, <1>4 DEF OnDisk, Unpacked, Kept, Lost
<1>6. Unpacked(r)'
  BY <1>2, <1>5 DEF Unpacked, Kept, Lost
<1> QED
  BY <1>1, <1>2, <1>3, <1>6, DirectoryLeaves

\* An entry is closed, whole or not.
LEMMA NextEntryLeaves ==
    ASSUME Shape, Files, ~overlapped, NEW r \in DOMAIN runs, Thread(r),
           CloseEntry(r) \/ EntryLost(r)
    PROVE  Leaves(r)
<1>0. /\ StateTyped /\ AllRuns /\ OnDisk(r)
      /\ Task(r) \in Mod /\ runs[r] \in Run
      /\ spent.unnoticed \subseteq spent'.unnoticed
  BY OnlyRun
<1>1. PICK e : e = runs[r].entry
  OBVIOUS
<1>2. /\ runs[r].at = "close" /\ UNCHANGED <<part, archive, bytes>>
      /\ runs'[r] = [runs[r] EXCEPT
                        !.at = IF e = Entries THEN "manifest" ELSE "write",
                        !.entry = IF e = Entries THEN 0 ELSE e + 1]
  BY <1>0, <1>1 DEF CloseEntry, EntryLost, NextEntry, StateTyped, disk
<1>3. /\ runs'[r].at = IF e = Entries THEN "manifest" ELSE "write"
      /\ runs'[r].entry = IF e = Entries THEN 0 ELSE e + 1
      /\ runs'[r].todo = runs[r].todo /\ runs'[r].item = runs[r].item
      /\ runs'[r].done = runs[r].done
  BY <1>0, <1>2 DEF Run
<1>4. Task(r)' = Task(r)
  BY <1>3 DEF Task
<1>5. /\ installed[Task(r)].files \subseteq installed'[Task(r)].files
      /\ e \in installed'[Task(r)].files \/ <<r, Task(r), e>> \in spent'.unnoticed
      /\ \A m \in Mod \ {Task(r)} : installed'[m] = installed[m]
  <2>1. CASE CloseEntry(r)
    BY <1>0, <1>1, <2>1 DEF CloseEntry, StateTyped
  <2>2. CASE EntryLost(r)
    <3>1. installed' = installed /\ FailUnnoticed(r, Task(r), e)
      BY <1>1, <2>2 DEF EntryLost, disk
    <3> QED
      BY <1>0, <3>1 DEF FailUnnoticed, StateTyped, Spent
  <2> QED
    BY <2>1, <2>2
<1>6. e \in 1 .. Entries /\ Entries \in Nat
  <2>1. RunSound(runs[r], Len(runs))
    BY <1>0 DEF AllRuns
  <2> QED
    BY <1>0, <1>1, <1>2, <2>1, Numbers DEF RunSound, Run
<1>7. \A f \in 1 .. e :
          f \in installed'[Task(r)].files \/ <<r, Task(r), f>> \in spent'.unnoticed
  <2>1. \A f \in 1 .. e - 1 : Kept(r, Task(r), f)
    BY <1>0, <1>1, <1>2 DEF OnDisk, Unpacked
  <2>2. \A f \in 1 .. e : f \in 1 .. e - 1 \/ f = e
    BY <1>6
  <2> QED
    BY <1>0, <1>5, <2>1, <2>2 DEF Kept, Lost
<1>8. Unpacked(r)'
  BY <1>3, <1>4, <1>6, <1>7 DEF Unpacked, Kept, Lost
<1> QED
  BY <1>2, <1>3, <1>5, <1>8, DirectoryLeaves

LEMMA OpenManifestLeaves ==
    ASSUME Shape, Files, ~overlapped, NEW r \in DOMAIN runs, Thread(r),
           OpenManifest(r)
    PROVE  Leaves(r)
<1>0. /\ StateTyped /\ AllRuns /\ OnDisk(r)
      /\ Task(r) \in Mod /\ runs[r] \in Run
      /\ spent.unnoticed \subseteq spent'.unnoticed
  BY OnlyRun
<1>1. GoTo(r, "manifest", "text") /\ UNCHANGED <<part, archive, bytes>>
  BY DEF OpenManifest
<1>2. /\ runs[r].at = "manifest" /\ runs'[r].at = "text"
      /\ runs'[r].todo = runs[r].todo /\ runs'[r].item = runs[r].item
      /\ runs'[r].done = runs[r].done /\ Task(r)' = Task(r)
  BY <1>0, <1>1, MoveFields
<1>3. /\ installed'[Task(r)].files = installed[Task(r)].files \ {Manifest}
      /\ \A m \in Mod \ {Task(r)} : installed'[m] = installed[m]
  BY <1>0 DEF OpenManifest, Truncated, StateTyped
<1>4. \A f \in 1 .. Entries : f # Manifest
  BY Numbers DEF Manifest
<1>5. \A f \in 1 .. Entries :
          f \in installed'[Task(r)].files \/ <<r, Task(r), f>> \in spent'.unnoticed
  BY <1>0, <1>2, <1>3, <1>4 DEF OnDisk, Unpacked, Kept, Lost
<1>6. Unpacked(r)'
  BY <1>2, <1>5 DEF Unpacked, Kept, Lost
<1> QED
  BY <1>1, <1>2, <1>3, <1>6, DirectoryLeaves

\* The manifest is written, whole or not.
LEMMA ManifestLeaves ==
    ASSUME Shape, Files, ~overlapped, NEW r \in DOMAIN runs, Thread(r),
           WriteManifest(r) \/ ManifestLost(r)
    PROVE  Leaves(r)
<1>0. /\ StateTyped /\ AllRuns /\ OnDisk(r)
      /\ Task(r) \in Mod /\ runs[r] \in Run
      /\ spent.unnoticed \subseteq spent'.unnoticed
  BY OnlyRun
<1>1. GoTo(r, "text", "complete") /\ UNCHANGED <<part, archive, bytes>>
  BY DEF WriteManifest, ManifestLost, disk
<1>2. /\ runs[r].at = "text" /\ runs'[r].at = "complete"
      /\ runs'[r].todo = runs[r].todo /\ runs'[r].item = runs[r].item
      /\ runs'[r].done = runs[r].done /\ Task(r)' = Task(r)
  BY <1>0, <1>1, MoveFields
<1>3. /\ installed[Task(r)].files \subseteq installed'[Task(r)].files
      /\ \/ Manifest \in installed'[Task(r)].files
         \/ <<r, Task(r), Manifest>> \in spent'.unnoticed
      /\ \A m \in Mod \ {Task(r)} : installed'[m] = installed[m]
  <2>1. CASE WriteManifest(r)
    BY <1>0, <2>1 DEF WriteManifest, StateTyped
  <2>2. CASE ManifestLost(r)
    <3>1. installed' = installed /\ FailUnnoticed(r, Task(r), Manifest)
      BY <2>2 DEF ManifestLost, disk
    <3> QED
      BY <1>0, <3>1 DEF FailUnnoticed, StateTyped, Spent
  <2> QED
    BY <2>1, <2>2
<1>4. \A f \in 1 .. Manifest : f \in 1 .. Entries \/ f = Manifest
  BY Numbers DEF Manifest
<1>5. \A f \in 1 .. Manifest :
          f \in installed'[Task(r)].files \/ <<r, Task(r), f>> \in spent'.unnoticed
  BY <1>0, <1>2, <1>3, <1>4 DEF OnDisk, Unpacked, Kept, Lost
<1>6. AsFarAsSeen(r, Task(r))'
  BY <1>2, <1>5 DEF AsFarAsSeen, Lost
<1>7. Unpacked(r)'
  BY <1>2, <1>6 DEF Unpacked
<1> QED
  BY <1>1, <1>2, <1>3, <1>7, DirectoryLeaves
-----------------------------------------------------------------------------
LEMMA ThreadLeaves ==
    ASSUME Shape, Files, ~overlapped, NEW r \in DOMAIN runs, Thread(r)
    PROVE  Leaves(r)
<1>1. CASE Quit(r) \/ DownloadFailed(r) \/ UnpackRefused(r) \/ InstallFails(r)
  BY <1>1, EndLeaves DEF Quit, DownloadFailed, UnpackRefused, InstallFails
<1>2. CASE OpenRefused(r) \/ Transferred(r) \/ Abort(r) \/ TransferFails(r)
           \/ RenameFails(r)
  BY <1>2, MoveLeaves DEF OpenRefused, Transferred, Abort, TransferFails,
     RenameFails
<1> QED
  BY <1>1, <1>2, BeginItemLeaves, OpenPartLeaves, ReceiveLeaves,
     RemovePartLeaves, RemoveArchiveLeaves, RenameLeaves, UnpackLeaves,
     OpenEntryLeaves, NextEntryLeaves, OpenManifestLeaves, ManifestLeaves,
     TransferLostLeaves, CompleteItemLeaves, FinishLeaves DEF Thread, Work

\* What the dialog does puts nothing on the disk and takes nothing off it.
LEMMA UserFiles ==
    ASSUME Shape, Files, UNCHANGED <<disk, spent>>, overlapped' = overlapped,
           runs' \in {runs, Abandoned}
    PROVE  Files'
<1>0. StateTyped /\ AllRuns
  BY DEF Shape
<1>1. /\ part' = part /\ archive' = archive /\ bytes' = bytes
      /\ installed' = installed /\ spent' = spent
  BY DEF disk
<1>2. /\ Len(runs') = Len(runs) /\ DOMAIN runs' = DOMAIN runs
      /\ \A r \in DOMAIN runs :
            /\ runs'[r].at = runs[r].at /\ runs'[r].todo = runs[r].todo
            /\ runs'[r].done = runs[r].done /\ runs'[r].item = runs[r].item
            /\ runs'[r].file = runs[r].file /\ runs'[r].entry = runs[r].entry
            /\ runs'[r].received = runs[r].received
  <2>1. CASE runs' = runs
    BY <2>1
  <2>2. CASE runs' = Abandoned
    <3>1. \A r \in DOMAIN runs : /\ Cancelled(r).item = runs[r].item
                                 /\ Cancelled(r).file = runs[r].file
                                 /\ Cancelled(r).entry = runs[r].entry
                                 /\ Cancelled(r).received = runs[r].received
      BY <1>0, TaskTyped DEF Cancelled, Run
    <3> QED
      BY <1>0, <2>2, <3>1, AbandonedSound
  <2> QED
    BY <2>1, <2>2
<1>3. \A m \in Mod : Sound(m)' <=> Sound(m)
  BY <1>1 DEF Sound, Whole, Intact, Lost
<1>4. ASSUME NEW r \in DOMAIN runs, ~overlapped, runs[r].at # "ended"
      PROVE  OnDisk(r)'
  <2>1. Task(r)' = Task(r)
    BY <1>2 DEF Task
  <2>2. OnDisk(r)
    BY <1>4 DEF Files, Ended
  <2>3. Renamed(r)'
    BY <1>1, <1>2, <2>2 DEF OnDisk, Renamed
  <2>4. Written(r)'
    BY <1>1, <1>2, <2>1, <2>2 DEF OnDisk, Written, Whole, Intact, Lost
  <2>5. Unpacked(r)'
    BY <1>1, <1>2, <2>1, <2>2 DEF OnDisk, Unpacked, Kept, AsFarAsSeen, Lost
  <2>6. Before(r)'
    BY <1>1, <1>2, <2>1, <2>2 DEF OnDisk, Before, AsFarAsSeen, Lost
  <2> QED
    BY <2>3, <2>4, <2>5, <2>6 DEF OnDisk
<1>5. ASSUME NEW r \in DOMAIN runs, ~overlapped, r = Len(runs), runs[r].done
      PROVE  (\A j \in DOMAIN runs[r].todo : AsFarAsSeen(r, runs[r].todo[j]))'
  <2>1. \A j \in DOMAIN runs[r].todo : AsFarAsSeen(r, runs[r].todo[j])
    BY <1>5 DEF Files
  <2> QED
    BY <1>1, <1>2, <2>1 DEF AsFarAsSeen, Lost
<1> QED
  BY <1>2, <1>3, <1>4, <1>5 DEF Files, Ended

LEMMA FilesStep ==
    ASSUME Shape, Files, [Next]_vars
    PROVE  Files'
<1>0. StateTyped /\ AllRuns /\ DialogFollows
  BY DEF Shape
<1>1. ASSUME NEW r \in DOMAIN runs, Thread(r) PROVE Files'
  <2>1. overlapped' = overlapped
    BY <1>1 DEF Thread, view
  <2>2. CASE overlapped
    BY <2>1, <2>2 DEF Files
  <2>3. CASE ~overlapped
    <3>1. Leaves(r)
      BY <1>1, <2>3, ThreadLeaves
    <3>2. /\ Len(runs') = Len(runs) /\ DOMAIN runs' = DOMAIN runs
          /\ \A q \in DOMAIN runs : q # r => runs'[q] = runs[q]
      BY <1>0, <1>1, ThreadSteps, StepsKeepRuns
    <3>3. r = Len(runs) /\ \A q \in DOMAIN runs : q # r => Ended(q)
      BY <1>1, <2>3, OnlyRun
    <3> QED
      BY <3>1, <3>2, <3>3 DEF Files, Leaves, Ended
  <2> QED
    BY <2>2, <2>3
<1>2. ASSUME NEW tasks \in Jobs, Open(tasks) PROVE Files'
  <2>1. CASE ~overlapped /\ overlapped'
    BY <2>1 DEF Files
  <2>2. CASE overlapped
    BY <1>2, <2>2 DEF Files, Open
  <2>3. CASE overlapped' = overlapped
    BY <1>2, <2>3, UserFiles DEF Open
  <2> QED
    BY <1>0, <1>2, <2>1, <2>2, <2>3 DEF Open, StateTyped
<1>3. CASE Start
  <2>1. /\ runs' = Append(Abandoned, NewRun(job)) /\ overlapped' = overlapped
        /\ part' = part /\ archive' = archive /\ bytes' = bytes
        /\ installed' = installed /\ spent' = spent /\ dialog \in {"prompt", "failed"}
    BY <1>3 DEF Start, disk
  <2>2. CASE overlapped
    BY <2>1, <2>2 DEF Files
  <2>3. CASE ~overlapped
    <3>1. Shape'
      BY <1>3, StartShape
    <3>2. /\ Len(runs') = Len(runs) + 1 /\ Len(runs) \in Nat
          /\ DOMAIN runs' = 1 .. Len(runs')
          /\ runs'[Len(runs')] = NewRun(job)
      BY <1>0, <2>1, AbandonedSound, AppendProperties, LenProperties, <3>1
         DEF Shape, StateTyped
    <3>3. \A q \in DOMAIN runs' : q # Len(runs') => Ended(q)'
      BY <2>1, <2>3, <3>1 DEF Shape, DialogFollows
    <3>4. \A m \in Mod : Sound(m)'
      BY <2>1, <2>3 DEF Sound, Whole, Intact, Lost, Files
    <3>5. /\ runs'[Len(runs')].at = "head" /\ runs'[Len(runs')].item = 1
          /\ ~runs'[Len(runs')].done /\ runs'[Len(runs')].todo = job
      BY <3>2 DEF NewRun
    <3>6. \A j \in DOMAIN job : archive[job[j]] # Len(runs')
      <4>1. job \in Seq(Mod)
        BY <1>0 DEF StateTyped
      <4>2. \A j \in DOMAIN job : job[j] \in Mod
        BY <4>1
      <4> QED
        BY <1>0, <3>2, <4>2 DEF StateTyped
    <3>7. Renamed(Len(runs))'
      <4>1. job \in Seq(Mod) /\ DOMAIN job = 1 .. Len(job)
        BY <1>0, LenProperties DEF StateTyped
      <4> QED
        BY <2>1, <3>5, <3>6, <4>1 DEF Renamed
    <3>8. Written(Len(runs))' /\ Unpacked(Len(runs))' /\ Before(Len(runs))'
      BY <3>5 DEF Written, Unpacked, Before, Held
    <3>9. OnDisk(Len(runs))'
      BY <3>7, <3>8 DEF OnDisk
    <3> QED
      BY <3>2, <3>3, <3>4, <3>5, <3>9 DEF Files
  <2> QED
    BY <2>2, <2>3
<1>4. CASE ApplyView
  BY <1>4, UserFiles DEF ApplyView
<1>5. CASE Close \/ Continue
  BY <1>5, UserFiles DEF Close, Continue
<1>6. CASE Restart
  <2>1. /\ part' = part /\ archive' = archive /\ bytes' = bytes
        /\ installed' = installed /\ overlapped' = overlapped
        /\ spent'.unnoticed = spent.unnoticed
        /\ runs' = [r \in DOMAIN runs |-> [runs[r] EXCEPT !.at = "ended"]]
    BY <1>0, <1>6 DEF Restart, disk, StateTyped, Spent
  <2>2. \A r \in DOMAIN runs : /\ runs'[r].at = "ended"
                               /\ runs'[r].todo = runs[r].todo
                               /\ runs'[r].done = runs[r].done
    BY <1>0, <2>1, TaskTyped DEF Run
  <2>3. Len(runs') = Len(runs) /\ DOMAIN runs' = DOMAIN runs
    BY <1>0, <2>1, LenProperties DEF StateTyped
  <2>4. \A m \in Mod : Sound(m)' <=> Sound(m)
    BY <2>1 DEF Sound, Whole, Intact, Lost
  <2>5. ASSUME NEW r \in DOMAIN runs, ~overlapped, r = Len(runs), runs[r].done
        PROVE  (\A j \in DOMAIN runs[r].todo : AsFarAsSeen(r, runs[r].todo[j]))'
    <3>1. \A j \in DOMAIN runs[r].todo : AsFarAsSeen(r, runs[r].todo[j])
      BY <2>5 DEF Files
    <3> QED
      BY <2>1, <2>2, <3>1 DEF AsFarAsSeen, Lost
  <2> QED
    BY <2>1, <2>2, <2>3, <2>4, <2>5 DEF Files, Ended
<1>7. CASE UNCHANGED vars
  <2>1. UNCHANGED <<disk, spent>> /\ overlapped' = overlapped /\ runs' = runs
    BY <1>7 DEF vars, view
  <2> QED
    BY <2>1, UserFiles
<1> QED
  BY <1>1, <1>2, <1>3, <1>4, <1>5, <1>6, <1>7 DEF Next, User

LEMMA FilesKept == Spec => []Files
<1>1. Init => Files
  <2> SUFFICES ASSUME Init PROVE Files
    OBVIOUS
  <2>1. DOMAIN runs = {} /\ \A m \in Mod : archive[m] = 0
    BY EmptySeq DEF Init
  <2> QED
    BY <2>1 DEF Files, Sound
<1> QED
  BY <1>1, FilesStep, ShapeKept, PTL DEF Spec

\* For any catalog: an archive that is there is whole, the process ending at
\* any moment included, unless runs overlapped or the fclose of its .part file
\* failed (StreamDownloadFile).
THEOREM ArchivesWhole == Spec => []ArchiveIsWhole
<1>1. Files => ArchiveIsWhole
  BY DEF Files, Sound, Intact, ArchiveIsWhole
<1> QED
  BY <1>1, FilesKept, PTL

\* For any catalog: the dialog says that everything is installed only when it
\* is, after whatever failures, retries and restarts, but for the files whose
\* last write failed unnoticed in that run, if no earlier run was still going
\* on when it was opened (RunDownloadJobs, DisplayModDownload).
THEOREM DoneMeansInstalled == Spec => []DoneIsInstalled
<1>1. Shape /\ Files => DoneIsInstalled
  <2> SUFFICES ASSUME Shape, Files, dialog = "done", ~overlapped,
                      NEW m \in Range(job)
               PROVE  AsFarAsSeen(current, m)
    BY DEF DoneIsInstalled
  <2>1. /\ current = Len(runs) /\ current # 0 /\ runs[current].todo = job
        /\ runs[current].done /\ runs \in Seq(Run) /\ current \in 0 .. Len(runs)
    BY DEF Shape, DialogFollows, StateTyped
  <2>2. current \in DOMAIN runs
    BY <2>1
  <2>3. PICK j \in DOMAIN job : m = job[j]
    BY DEF Range
  <2> QED
    BY <2>1, <2>2, <2>3 DEF Files
<1> QED
  BY <1>1, ShapeKept, FilesKept, PTL
=============================================================================
