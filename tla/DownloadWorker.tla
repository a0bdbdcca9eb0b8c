--------------------------- MODULE DownloadWorker ---------------------------
(***************************************************************************)
(* DownloadWorker: mods are downloaded and installed one after another on  *)
(* a thread of their own, while a dialog polls the progress and may retry  *)
(* or walk away.  Nobody ever joins the thread: a run that was cancelled   *)
(* goes on until it notices, on the same files as the next one.            *)
(***************************************************************************)
EXTENDS Naturals, Sequences, FiniteSets, SequencesExt

CONSTANTS
    Mods,       \* the mods of the catalog, numbered from 1
    Expected,   \* expectedBytes of each mod's archive, 0 if unknown
    Size,       \* the bytes each archive has
    Entries,    \* the files in each archive
    Jobs,       \* the mods that may be ticked together, as the list shows them
    MaxRuns,    \* bound on the calls of Start in one behaviour
    MaxFaults,  \* bound on the failures of transfers and of file operations
    MaxCrash    \* bound on the ends of the process

ASSUME DownloadAssumption ==
    /\ Mods \in Nat \ {0} /\ Entries \in Nat \ {0}
    /\ Expected \in [1 .. Mods -> Nat] /\ Size \in [1 .. Mods -> Nat \ {0}]
    /\ \A tasks \in Jobs : /\ tasks \in Seq(1 .. Mods) /\ tasks # <<>>
                           /\ IsInjective(tasks)
    /\ {MaxRuns, MaxFaults, MaxCrash} \subseteq Nat

VARIABLES
    runs,        \* the runs so far: each Session, and where its thread is
    current,     \* _session: the run the dialog polls, 0 before Start
    dialog,      \* closed, or the phase of DisplayModDownload
    job,         \* _tasks of the dialog: the mods it is to download
    row,         \* whether the list of mods shows each mod as Missing
    part,        \* the file <archive>.part of each mod, 0 if there is none
    archive,     \* the archive of each mod, 0 if there is none
    bytes,       \* the bytes in each file, by mod and file
    installed,   \* each mod's directory: its whole files, and whether it shows
    spent,       \* crashes and failures so far, and those nobody noticed
    overlapped   \* history: a dialog was opened while a run was going on

disk == <<part, archive, bytes, installed>>
view == <<current, dialog, job, row, overlapped>>
vars == <<runs, disk, view, spent>>

Mod  == 1 .. Mods
Whole(m) == 1 .. Size[m]

\* The files of a mod: the archive, its entries from 1, and the manifest.
Archive  == 0
Manifest == Entries + 1

\* A .part file and an archive are known by the run that created them.
NewRun(tasks) ==
    [todo |-> tasks, item |-> 1, at |-> "head", file |-> 0, entry |-> 0,
     received |-> 0, completed |-> 0, overall |-> 0,
     cancel |-> FALSE, late |-> FALSE, done |-> FALSE, failed |-> FALSE]

Task(r)   == runs[r].todo[runs[r].item]
Ended(r)  == runs[r].at = "ended"
AllEnded  == \A r \in DOMAIN runs : Ended(r)

Init ==
    /\ runs = <<>>
    /\ current = 0
    /\ dialog = "closed"
    /\ job = <<>>
    /\ row = [m \in Mod |-> "missing"]
    /\ part = [m \in Mod |-> 0]
    /\ archive = [m \in Mod |-> 0]
    /\ bytes = [m \in Mod |-> [r \in 1 .. MaxRuns |-> {}]]
    /\ installed = [m \in Mod |-> [files |-> {}, shows |-> FALSE]]
    /\ spent = [faults |-> 0, crashes |-> 0, unnoticed |-> {}]
    /\ overlapped = FALSE

Fail == /\ spent.faults < MaxFaults
        /\ spent' = [spent EXCEPT !.faults = @ + 1]

\* What was written last is lost, and who closes the file does not look.
FailUnnoticed(r, m, f) ==
    /\ spent.faults < MaxFaults
    /\ spent' = [spent EXCEPT !.faults = @ + 1,
                              !.unnoticed = @ \cup {<<r, m, f>>}]

Lost(r, m, f) == <<r, m, f>> \in spent.unnoticed
-----------------------------------------------------------------------------
(***************************************************************************)
(* The thread of run r: RunDownloadJobs.                                   *)
(***************************************************************************)
GoTo(r, from, to) ==
    /\ runs[r].at = from
    /\ runs' = [runs EXCEPT ![r].at = to]

SetFailed(r) == runs' = [runs EXCEPT ![r].at = "ended", ![r].failed = TRUE]

\* The head of the loop and the check after each file.
Quit(r) ==
    /\ runs[r].cancel
    /\ \E at \in {"head", "landed", "refused"} : GoTo(r, at, "ended")
    /\ UNCHANGED <<disk, spent>>

BeginItem(r) ==
    /\ runs[r].at = "head" /\ ~runs[r].cancel
    /\ runs' = [runs EXCEPT ![r].at = "open", ![r].received = 0,
                            ![r].overall = runs[r].completed]
    /\ UNCHANGED <<disk, spent>>

\* fopen(.part, "wb"): a file that is there is truncated, whoever writes to it.
OpenPart(r) ==
    LET m == Task(r)
        f == IF part[m] = 0 THEN r ELSE part[m]
    IN /\ runs[r].at = "open"
       /\ runs' = [runs EXCEPT ![r].at = "stream", ![r].file = f]
       /\ part' = [part EXCEPT ![m] = f]
       /\ bytes' = [bytes EXCEPT ![m][f] = {}]
       /\ UNCHANGED <<archive, installed, spent>>

OpenRefused(r) ==
    /\ GoTo(r, "open", "refused")
    /\ Fail /\ UNCHANGED disk

\* Bytes arrive, are written, and counted by onBytes.
Receive(r) ==
    LET m == Task(r)
        n == runs[r].received + 1
    IN /\ runs[r].at = "stream" /\ n <= Size[m]
       /\ runs' = [runs EXCEPT ![r].received = n,
                               ![r].overall = runs[r].completed + n]
       /\ bytes' = [bytes EXCEPT ![m][runs[r].file] = @ \cup {n}]
       /\ UNCHANGED <<part, archive, installed, spent>>

Transferred(r) ==
    /\ runs[r].received = Size[Task(r)]
    /\ GoTo(r, "stream", "replace")
    /\ UNCHANGED <<disk, spent>>

\* The last bytes are still in the buffer when fclose fails.
TransferLost(r) ==
    LET m == Task(r)
        f == runs[r].file
    IN /\ runs[r].received = Size[m]
       /\ GoTo(r, "stream", "replace")
       /\ bytes' = [bytes EXCEPT ![m][f] = @ \ {Size[m]}]
       /\ FailUnnoticed(f, m, Archive)
       /\ UNCHANGED <<part, archive, installed>>

\* Variant, a bug the runs must detect: the transfer asks when bytes arrive.
AbortOnData(r) ==
    /\ runs[r].cancel /\ runs[r].received > 0
    /\ GoTo(r, "stream", "discard")
    /\ UNCHANGED <<disk, spent>>

\* The transfer polls cancelled, whether bytes arrive or not.
Abort(r) ==
    /\ runs[r].cancel
    /\ GoTo(r, "stream", "discard")
    /\ UNCHANGED <<disk, spent>>

\* Variant, a bug the runs must detect: a transfer that broke off is kept.
TransferFailsUnnoticed(r) ==
    /\ GoTo(r, "stream", "replace")
    /\ Fail /\ UNCHANGED disk

TransferFails(r) ==
    /\ GoTo(r, "stream", "discard")
    /\ Fail /\ UNCHANGED disk

\* Variant, a bug the runs must detect: the file stays after a failed transfer.
RemovePartNot(r) ==
    /\ GoTo(r, "discard", "refused")
    /\ UNCHANGED <<disk, spent>>

RemovePart(r) ==
    /\ GoTo(r, "discard", "refused")
    /\ part' = [part EXCEPT ![Task(r)] = 0]
    /\ UNCHANGED <<archive, bytes, installed, spent>>

RemoveArchive(r) ==
    /\ GoTo(r, "replace", "rename")
    /\ archive' = [archive EXCEPT ![Task(r)] = 0]
    /\ UNCHANGED <<part, bytes, installed, spent>>

Rename(r) ==
    LET m == Task(r)
    IN /\ part[m] # 0
       /\ GoTo(r, "rename", "landed")
       /\ archive' = [archive EXCEPT ![m] = part[m]]
       /\ part' = [part EXCEPT ![m] = 0]
       /\ UNCHANGED <<bytes, installed, spent>>

\* Somebody else has moved or removed the file, or the system refuses.
RenameFails(r) ==
    /\ GoTo(r, "rename", "discard")
    /\ IF part[Task(r)] = 0 THEN UNCHANGED spent ELSE Fail
    /\ UNCHANGED disk

\* Variant, a bug the runs must detect: the result is looked at first.
DownloadFailedFirst(r) ==
    /\ runs[r].at = "refused"
    /\ SetFailed(r)
    /\ UNCHANGED <<disk, spent>>

DownloadFailed(r) ==
    /\ runs[r].at = "refused" /\ ~runs[r].cancel
    /\ SetFailed(r)
    /\ UNCHANGED <<disk, spent>>
-----------------------------------------------------------------------------
(***************************************************************************)
(* The post-step: ModArchive::Unpack and WriteInstalledModManifest.  It is *)
(* never told of a cancellation.                                           *)
(***************************************************************************)
\* The archive is decompressed to a private file first.
Readable(m) == archive[m] # 0 /\ bytes[m][archive[m]] = Whole(m)

Unpack(r) ==
    /\ runs[r].at = "landed" /\ ~runs[r].cancel /\ Readable(Task(r))
    /\ runs' = [runs EXCEPT ![r].at = "write", ![r].entry = 1]
    /\ UNCHANGED <<disk, spent>>

UnpackRefused(r) ==
    /\ runs[r].at = "landed" /\ ~runs[r].cancel
    /\ SetFailed(r)
    /\ IF Readable(Task(r)) THEN Fail ELSE UNCHANGED spent
    /\ UNCHANGED disk

\* A file is truncated when it is opened and whole when it is closed.  Its
\* directory is made before it, which is enough to look like a mod.
Truncated(m, f) ==
    installed' = [installed EXCEPT ![m].files = @ \ {f}, ![m].shows = TRUE]

OpenEntry(r) ==
    /\ GoTo(r, "write", "close")
    /\ Truncated(Task(r), runs[r].entry)
    /\ UNCHANGED <<part, archive, bytes, spent>>

NextEntry(r) ==
    LET e == runs[r].entry
    IN /\ runs[r].at = "close"
       /\ runs' = [runs EXCEPT ![r].at = IF e = Entries THEN "manifest"
                                                        ELSE "write",
                               ![r].entry = IF e = Entries THEN 0 ELSE e + 1]

CloseEntry(r) ==
    /\ NextEntry(r)
    /\ installed' = [installed EXCEPT ![Task(r)].files = @ \cup {runs[r].entry}]
    /\ UNCHANGED <<part, archive, bytes, spent>>

\* The entry, or what was decoded of it before, is short when fclose fails.
EntryLost(r) ==
    /\ NextEntry(r)
    /\ FailUnnoticed(r, Task(r), runs[r].entry)
    /\ UNCHANGED disk

OpenManifest(r) ==
    /\ GoTo(r, "manifest", "text")
    /\ Truncated(Task(r), Manifest)
    /\ UNCHANGED <<part, archive, bytes, spent>>

WriteManifest(r) ==
    /\ GoTo(r, "text", "complete")
    /\ installed' = [installed EXCEPT ![Task(r)].files = @ \cup {Manifest}]
    /\ UNCHANGED <<part, archive, bytes, spent>>

\* The state of the stream is not looked at after the text was put into it.
ManifestLost(r) ==
    /\ GoTo(r, "text", "complete")
    /\ FailUnnoticed(r, Task(r), Manifest)
    /\ UNCHANGED disk

\* Variant, a bug the runs must detect: what cannot be written is left out.
InstallFailsSkipping(r) ==
    /\ NextEntry(r)
    /\ Fail /\ UNCHANGED disk

\* Variant, a bug the runs must detect: the job goes on after a failure.
InstallFailsGoingOn(r) ==
    /\ runs[r].at \in {"write", "close", "manifest"}
    /\ runs' = [runs EXCEPT ![r].at = "complete", ![r].failed = TRUE]
    /\ Fail /\ UNCHANGED disk

InstallFails(r) ==
    /\ runs[r].at \in {"write", "close", "manifest"}
    /\ SetFailed(r)
    /\ Fail /\ UNCHANGED disk

\* Variant, a bug the runs must detect: a file of unknown size counts for nothing.
CreditExpected(r) == Expected[Task(r)]

\* What a finished file counts for.
Credit(r) == IF Expected[Task(r)] > 0 THEN Expected[Task(r)]
                                      ELSE runs[r].received

CompleteItem(r) ==
    LET sum == runs[r].completed + Credit(r)
    IN /\ runs[r].at = "complete"
       /\ runs' = [runs EXCEPT
              ![r].completed = sum, ![r].overall = sum,
              ![r].received = Expected[Task(r)], ![r].file = 0,
              ![r].at = IF runs[r].item = Len(runs[r].todo) THEN "finish"
                                                           ELSE "head",
              ![r].item = IF @ = Len(runs[r].todo) THEN @ ELSE @ + 1]
       /\ UNCHANGED <<disk, spent>>

Finish(r) ==
    /\ runs[r].at = "finish"
    /\ runs' = [runs EXCEPT ![r].at = "ended", ![r].done = TRUE]
    /\ UNCHANGED <<disk, spent>>

\* What the thread does by itself; bytes arrive and operations fail when they do.
Work(r) ==
    \/ Quit(r) \/ BeginItem(r) \/ OpenPart(r) \/ Transferred(r) \/ Abort(r)
    \/ RemovePart(r) \/ RemoveArchive(r) \/ Rename(r) \/ RenameFails(r)
    \/ DownloadFailed(r) \/ Unpack(r) \/ UnpackRefused(r) \/ OpenEntry(r)
    \/ CloseEntry(r) \/ OpenManifest(r) \/ WriteManifest(r) \/ CompleteItem(r)
    \/ Finish(r)

Thread(r) ==
    /\ \/ Work(r) \/ Receive(r)
       \/ OpenRefused(r) \/ TransferFails(r) \/ InstallFails(r)
       \/ TransferLost(r) \/ EntryLost(r) \/ ManifestLost(r)
    /\ UNCHANGED view
-----------------------------------------------------------------------------
(***************************************************************************)
(* The dialog.                                                             *)
(***************************************************************************)
\* A cancellation is late when the thread has passed the last check of its file.
Late(r) ==
    runs[r].at \in {"write", "close", "manifest", "text", "complete", "finish",
                   "ended"}

Cancelled(r) == [runs[r] EXCEPT !.cancel = TRUE, !.late = @ \/ Late(r)]

\* What Start, Cancel and the destructor do to the run before.
Abandoned == IF current = 0 THEN runs
             ELSE [runs EXCEPT ![current] = Cancelled(current)]

\* Apply with some missing mods ticked.
Open(tasks) ==
    /\ dialog = "closed"
    /\ \A i \in DOMAIN tasks : row[tasks[i]] = "missing"
    /\ dialog' = "prompt"
    /\ job' = tasks
    /\ current' = 0
    /\ overlapped' = (overlapped \/ ~AllEnded)
    /\ UNCHANGED <<runs, row, disk, spent>>

\* The button is dimmed while a run goes on.
Start ==
    /\ dialog \in {"prompt", "failed"}
    /\ Len(runs) < MaxRuns
    /\ runs' = Append(Abandoned, NewRun(job))
    /\ current' = Len(runs) + 1
    /\ dialog' = "running"
    /\ UNCHANGED <<job, row, overlapped, disk, spent>>

\* OnSimulate: Poll the run and follow it.
ApplyView ==
    /\ dialog \in {"running", "failed", "done"}
    /\ dialog' = IF runs[current].failed THEN "failed"
                 ELSE IF runs[current].done THEN "done" ELSE dialog
    /\ UNCHANGED <<runs, current, job, row, overlapped, disk, spent>>

\* Cancel, and whatever else destroys the dialog.
Close ==
    /\ dialog # "closed"
    /\ dialog' = "closed"
    /\ runs' = Abandoned
    /\ current' = 0 /\ job' = <<>>
    /\ UNCHANGED <<row, overlapped, disk, spent>>

\* GetModInstallStatus finds a directory that looks like a mod.
Found(m) == installed[m].shows

\* Continue: the rows are refreshed and the game is mounted anew.
Continue ==
    /\ dialog = "done"
    /\ dialog' = "closed"
    /\ runs' = Abandoned
    /\ current' = 0 /\ job' = <<>>
    /\ row' = [m \in Mod |-> IF Found(m) THEN "downloaded" ELSE row[m]]
    /\ UNCHANGED <<overlapped, disk, spent>>

\* The process ends at any moment; the next one scans the directories.
Restart ==
    /\ spent.crashes < MaxCrash
    /\ spent' = [spent EXCEPT !.crashes = @ + 1]
    /\ runs' = [r \in DOMAIN runs |-> [runs[r] EXCEPT !.at = "ended"]]
    /\ dialog' = "closed" /\ current' = 0 /\ job' = <<>>
    /\ row' = [m \in Mod |-> IF Found(m) THEN "downloaded" ELSE "missing"]
    /\ UNCHANGED <<disk, overlapped>>

User ==
    \/ \E tasks \in Jobs : Open(tasks)
    \/ Start \/ ApplyView \/ Close \/ Continue

Next ==
    \/ \E r \in DOMAIN runs : Thread(r)
    \/ User
    \/ Restart

Spec == Init /\ [][Next]_vars

\* A thread that can go on does, and the dialog is drawn each frame.  Nothing
\* is asked of the server: a transfer may stall for ever.
FairSpec ==
    /\ Spec
    /\ \A r \in 1 .. MaxRuns :
          WF_vars(r \in DOMAIN runs /\ Work(r) /\ UNCHANGED view)
    /\ WF_vars(ApplyView)
-----------------------------------------------------------------------------
Places ==
    {"head", "open", "stream", "replace", "rename", "discard", "refused",
     "landed", "write", "close", "manifest", "text", "complete", "finish",
     "ended"}

Run ==
    [todo : Seq(Mod), item : Nat \ {0}, at : Places, file : 0 .. MaxRuns,
     entry : 0 .. Entries, received : Nat, completed : Nat, overall : Nat,
     cancel : BOOLEAN, late : BOOLEAN, done : BOOLEAN, failed : BOOLEAN]

\* Every piece of state keeps its shape, a run has ended before it is done or
\* has failed, and the dialog follows a run that exists (DownloadWorker,
\* DisplayModDownload).
TypeOK ==
    /\ runs \in Seq(Run) /\ Len(runs) <= MaxRuns
    /\ current \in 0 .. Len(runs)
    /\ dialog \in {"closed", "prompt", "running", "failed", "done"}
    /\ dialog \in {"running", "failed", "done"} => current # 0
    /\ \A m \in Mod : {part[m], archive[m]} \subseteq 0 .. Len(runs)
    /\ \A r \in DOMAIN runs : /\ runs[r].item \in DOMAIN runs[r].todo
                              /\ ~(runs[r].done /\ runs[r].failed)
                              /\ runs[r].done \/ runs[r].failed => Ended(r)

Installed(m) == installed[m].files = 1 .. Manifest

\* Nothing of m is missing but what run r lost without noticing.
AsFarAsSeen(r, m) ==
    \A f \in 1 .. Manifest : f \in installed[m].files \/ Lost(r, m, f)

\* The dialog says that everything is there only when it is, after whatever
\* failures, retries and restarts, but for the files whose last write failed
\* where that run did not look (ModArchive.cpp:221, ModInstall.cpp:138), if no
\* earlier run was still going on when it was opened.
DoneIsInstalled ==
    dialog = "done" /\ ~overlapped
        => \A m \in Range(job) : AsFarAsSeen(current, m)

\* The same of every dialog; OptionsUIApp.cpp:1603 relies on it.
DoneIsAlwaysInstalled ==
    dialog = "done" => \A m \in Range(job) : Installed(m)

\* An archive is whole whenever it is there, the process ending at any moment
\* included, unless runs overlapped or its last bytes were lost by the fclose
\* nobody looks at (the .part file and its renaming).
ArchiveIsWhole ==
    \A m \in Mod : archive[m] # 0 /\ ~overlapped
                       => \/ bytes[m][archive[m]] = Whole(m)
                          \/ Lost(archive[m], m, Archive)

\* A .part file is some run's work in hand: none is left behind when the runs
\* have ended, however they interfered with one another.
PartIsInHand ==
    \A m \in Mod : part[m] # 0 /\ spent.crashes = 0
        => \E r \in DOMAIN runs :
              /\ ~Ended(r) /\ Task(r) = m
              /\ runs[r].at \in {"stream", "replace", "rename", "discard"}

\* A run cancelled before it has passed the last check of a file ends neither
\* done nor failed (RunDownloadJobs).
CancelIsQuiet ==
    \A r \in DOMAIN runs :
        runs[r].cancel /\ ~runs[r].late => ~runs[r].done /\ ~runs[r].failed

\* No file is longer than its announced size, if one was announced.
Announced == \A m \in Mod : Expected[m] > 0 => Size[m] <= Expected[m]

\* The overall bar never goes back within a run, from one file to the next
\* included (BeginItem, OnBytes, CompleteItem), if no file is longer than
\* announced.
BarNeverBack ==
    [][Announced => \A r \in DOMAIN runs :
                        runs'[r].overall >= runs[r].overall]_vars

\* A run that is cancelled ends, even when its server has stalled.
CancelledEnds ==
    \A r \in 1 .. MaxRuns :
        (r \in DOMAIN runs /\ runs[r].cancel)
            ~> (r \in DOMAIN runs /\ Ended(r))
=============================================================================
