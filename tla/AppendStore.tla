---------------------------- MODULE AppendStore -----------------------------
(***************************************************************************)
(* The append-only store of internal/tools/echtest/store.go: every         *)
(* domain's goroutine appends JSON lines, one record or one summary each,  *)
(* to files under --state-dir, under one mutex.                            *)
(*                                                                         *)
(* A line reaches the file in two fragments, because write(2) may take     *)
(* part of it before it fails or before the process is killed (os.File     *)
(* goes on writing after a short write); the second one carries the        *)
(* newline.  Killing the process releases the mutex with it; the next      *)
(* run's openStore leaves the files as they are.                           *)
(***************************************************************************)
EXTENDS Naturals, Sequences

CONSTANTS
    Writers,     \* the goroutines that append
    Files,       \* log and summary files
    FilesOf,     \* FilesOf[w]: the files writer w appends to
    Free,        \* the mutex is not held
    MaxLines,    \* bound: lines a writer appends in all
    MaxCrashes   \* bound: times the process is killed

ASSUME FilesOfAssumption == FilesOf \in [Writers -> SUBSET Files]
ASSUME FreeAssumption == Free \notin Writers
ASSUME StoreBoundsAssumption == MaxLines \in Nat /\ MaxCrashes \in Nat

VARIABLES
    mu,       \* who holds the store's mutex
    at,       \* at[w]: where writer w is in appendRecord or writeSummary
    file,     \* file[w]: the file it appends to
    count,    \* count[w]: lines it has begun to append
    disk,     \* disk[f]: the fragments in file f
    acked,    \* lines whose append returned without an error
    crashes

storeVars == <<mu, at, file, count, disk, acked, crashes>>

Stages == {"idle", "locking", "locked", "opened", "writing", "written"}

\* A fragment of line n of a writer; `newline` in the last one.
Fragment == [writer : Writers, n : Nat, newline : BOOLEAN]

Line == [writer : Writers, n : Nat, file : Files]

Holding == {"locked", "opened", "writing", "written"}

-----------------------------------------------------------------------------
(* Faulty variants of definitions below                                    *)

\* No mutex, or one per call.
LockUnguarded(w) == at[w] = "locking" /\ mu' = w

\* An error path that returns without unlocking.
UnlockForgotten(w) == UNCHANGED mu

\* O_TRUNC in place of O_APPEND.
OpenedTruncated(f) == disk' = [disk EXCEPT ![f] = <<>>]

-----------------------------------------------------------------------------

TakeMutex(w) == at[w] = "locking" /\ mu = Free /\ mu' = w

UnlockOnError(w) == mu' = Free

OpenedForAppend(f) == UNCHANGED disk

Put(w, newline) ==
    disk' = [disk EXCEPT ![file[w]] =
                 Append(@, [writer |-> w, n |-> count[w], newline |-> newline])]

Moves(w, stage) == at' = [at EXCEPT ![w] = stage]

StoreInit ==
    /\ mu = Free
    /\ at = [w \in Writers |-> "idle"]
    /\ file \in {g \in [Writers -> Files] : \A w \in Writers : g[w] \in FilesOf[w]}
    /\ count = [w \in Writers |-> 0]
    /\ disk = [f \in Files |-> <<>>]
    /\ acked = {}
    /\ crashes = 0

\* append or writeSummary is called and asks for the mutex.
Call(w, f) ==
    /\ at[w] = "idle"
    /\ f \in FilesOf[w]
    /\ count[w] < MaxLines
    /\ Moves(w, "locking")
    /\ file' = [file EXCEPT ![w] = f]
    /\ count' = [count EXCEPT ![w] = @ + 1]
    /\ UNCHANGED <<mu, disk, acked, crashes>>

Lock(w) ==
    /\ TakeMutex(w)
    /\ Moves(w, "locked")
    /\ UNCHANGED <<file, count, disk, acked, crashes>>

Open(w) ==
    /\ at[w] = "locked"
    /\ OpenedForAppend(file[w])
    /\ Moves(w, "opened")
    /\ UNCHANGED <<mu, file, count, acked, crashes>>

\* Opening, encoding or writing failed: the deferred Close and Unlock run, and
\* the error is logged.
ReturnError(w) ==
    /\ at[w] \in {"locked", "opened", "writing"}
    /\ UnlockOnError(w)
    /\ Moves(w, "idle")
    /\ UNCHANGED <<file, count, disk, acked, crashes>>

WritePart(w) ==
    /\ at[w] = "opened"
    /\ Put(w, FALSE)
    /\ Moves(w, "writing")
    /\ UNCHANGED <<mu, file, count, acked, crashes>>

WriteRest(w) ==
    /\ at[w] = "writing"
    /\ Put(w, TRUE)
    /\ Moves(w, "written")
    /\ UNCHANGED <<mu, file, count, acked, crashes>>

ReturnNil(w) ==
    /\ at[w] = "written"
    /\ mu' = Free
    /\ Moves(w, "idle")
    /\ acked' = acked \cup {[writer |-> w, n |-> count[w], file |-> file[w]]}
    /\ UNCHANGED <<file, count, disk, crashes>>

\* The process is killed and started again on the same directory.
CrashAndRestart ==
    /\ crashes < MaxCrashes
    /\ crashes' = crashes + 1
    /\ mu' = Free
    /\ at' = [w \in Writers |-> "idle"]
    /\ UNCHANGED <<file, count, disk, acked>>

StoreStep(w) ==
    \/ Open(w)
    \/ ReturnError(w)
    \/ WritePart(w)
    \/ WriteRest(w)
    \/ ReturnNil(w)

Quiescent ==
    /\ \A w \in Writers : at[w] = "idle" /\ count[w] = MaxLines
    /\ UNCHANGED storeVars

StoreNext ==
    \/ \E w \in Writers : Lock(w) \/ StoreStep(w)
    \/ \E w \in Writers : \E f \in Files : Call(w, f)
    \/ CrashAndRestart
    \/ Quiescent

StoreSpec == StoreInit /\ [][StoreNext]_storeVars

\* A goroutine that holds the mutex goes on, and one that waits for it gets it in
\* the end (sync.Mutex turns to strict hand-over when a waiter starves).
StoreFairness ==
    \A w \in Writers : WF_storeVars(StoreStep(w)) /\ SF_storeVars(Lock(w))

FairStoreSpec == StoreSpec /\ StoreFairness

-----------------------------------------------------------------------------
(* Properties                                                              *)

StoreTypeOK ==
    /\ mu \in Writers \cup {Free}
    /\ at \in [Writers -> Stages]
    /\ file \in [Writers -> Files]
    /\ count \in [Writers -> Nat]
    /\ disk \in [Files -> Seq(Fragment)]
    /\ acked \in SUBSET Line
    /\ crashes \in Nat

\* The first fragment of the line that x ends.
Beginning(x) == [writer |-> x.writer, n |-> x.n, newline |-> FALSE]

\* No line is broken by another one: whatever writers do at the same time, and
\* wherever one of them fails or the process is killed, the end of a line follows
\* its own beginning immediately ("do not interleave partial lines", store.go:88).
LinesUnbroken ==
    \A f \in Files : \A i \in DOMAIN disk[f] :
        disk[f][i].newline =>
            i > 1 /\ disk[f][i - 1] = Beginning(disk[f][i])

\* A line whose append returned nil is in its file once and for all, and the
\* lines of one writer are in the order in which it appended them.
AckedOnceInOrder ==
    /\ \A l \in acked : \E i \in DOMAIN disk[l.file] :
         disk[l.file][i] = [writer |-> l.writer, n |-> l.n, newline |-> TRUE]
    /\ \A f \in Files : \A i, j \in DOMAIN disk[f] :
         (i < j /\ disk[f][i].writer = disk[f][j].writer) =>
             \/ disk[f][i].n < disk[f][j].n
             \/ disk[f][i].n = disk[f][j].n /\ ~disk[f][i].newline /\ disk[f][j].newline

\* Every append returns: no error path keeps the mutex.
AppendReturns == \A w \in Writers : at[w] = "locking" ~> at[w] = "idle"

=============================================================================
