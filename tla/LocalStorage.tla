---------------------------- MODULE LocalStorage ----------------------------
(***************************************************************************)
(* The blob directory of the API process: what save_stream and delete do   *)
(* to descriptors, file contents and directory entries, thread by thread,  *)
(* and what is left of it after a power loss.                              *)
(*                                                                         *)
(* Every call of save_stream has a temporary and a final name of its own,  *)
(* so an inode is named by the call that made it.  A call awaits its       *)
(* stream or a thread of asyncio.to_thread; a cancelled call stops waiting *)
(* while the thread it waited for may still run, as a stray.               *)
(***************************************************************************)
EXTENDS Integers, FiniteSets

CONSTANTS
  Calls,      \* calls of save_stream
  Fds,        \* descriptors of the process
  MaxChunks,  \* bound on the chunks of a stream
  Faults,     \* what may go wrong in this run, a subset of FaultKinds
  Dir,        \* what a descriptor of the storage directory is open on
  None        \* nothing

\* io: a system call or the stream raises; short: os.write takes less than it
\* was given; cancel: the task that called is cancelled; kill: the process
\* dies; power: the machine does.
FaultKinds == {"io", "short", "cancel", "kill", "power"}

ASSUME FaultsAssumption == Faults \subseteq FaultKinds
ASSUME ChunksAssumption == MaxChunks \in Nat
ASSUME ValuesAssumption == None \notin Calls \cup Fds \cup {Dir} /\ Dir \notin Calls

VARIABLES
  call,    \* call -> where it is and what its local variables hold
  thread,  \* call -> the thread it awaits
  strays,  \* threads nobody awaits any more
  fds,     \* descriptor -> the inode it is open on
  data,    \* inode -> its content
  synced,  \* inode -> how many of its chunks are on disk for sure
  entry,   \* inode -> the name it has in the directory
  disk     \* inode -> the names it may turn out to have on the disk

vars == <<call, thread, strays, fds, data, synced, entry, disk>>

ThreadPc == {"write", "fsync", "replace", "opendir", "fsyncdir", "closedir",
             "cleanup", "deleting"}
Running == {"read"} \cup (ThreadPc \ {"deleting"})
Over == {"saved", "raised", "leaked", "lost", "deleted", "undeleted"}

\* fd is the local fd, later dir_fd; chunks the length of the stream, sent
\* what bytes_written counts; failing: an exception is on its way while the
\* inner finally closes dir_fd.  "raised" has unlinked the temporary name,
\* "leaked" could not; "lost" died with its process.
Call == [pc : {"idle"} \cup Running \cup Over \cup {"deleting"},
         fd : Fds \cup {None}, chunks : 0..MaxChunks, sent : 0..MaxChunks,
         failing : BOOLEAN]

Stray == [op : ThreadPc, call : Calls, fd : Fds \cup {None}]

\* The chunks of the upload in order, the calls whose chunks got in between,
\* and whether a chunk is incomplete.
Content == [chunks : 0..MaxChunks, foreign : SUBSET Calls, short : BOOLEAN]

Name == {"none", "temp", "final"}

-----------------------------------------------------------------------------
Init ==
  /\ call = [c \in Calls |-> [pc |-> "idle", fd |-> None, chunks |-> 0, sent |-> 0,
                              failing |-> FALSE]]
  /\ thread = [c \in Calls |-> "none"]
  /\ strays = {}
  /\ fds = [d \in Fds |-> None]
  /\ data = [c \in Calls |-> [chunks |-> 0, foreign |-> {}, short |-> FALSE]]
  /\ synced = [c \in Calls |-> 0]
  /\ entry = [c \in Calls |-> "none"]
  /\ disk = [c \in Calls |-> {"none"}]

At(c, pc) == call[c].pc = pc
Free(d) == fds[d] = None
Closed(d) == [fds EXCEPT ![d] = None]

\* Change the directory; only an fsync of it settles what is on the disk.
SetEntry(c, name) ==
  /\ entry' = [entry EXCEPT ![c] = name]
  /\ disk' = [disk EXCEPT ![c] = @ \cup {name}]

\* Go on with pc, in a thread if it is a step for one; the locals of the try
\* block are forgotten with it.
Goto(c, pc, failing) ==
  /\ call' = [call EXCEPT ![c] =
       [pc |-> pc,
        fd |-> IF pc \in Running \ {"cleanup"} THEN @.fd ELSE None,
        chunks |-> @.chunks,
        sent |-> IF pc \in {"read", "write"} THEN @.sent ELSE 0,
        failing |-> failing /\ pc = "closedir"]]
  /\ thread' = [thread EXCEPT ![c] = IF pc \in ThreadPc THEN "pending" ELSE "none"]

-----------------------------------------------------------------------------
(* The event loop's part of save_stream.                                   *)

\* mkstemp, on the event loop.
Start(c, n) ==
  /\ At(c, "idle")
  /\ \/ \E d \in Fds :
          /\ Free(d)
          /\ fds' = [fds EXCEPT ![d] = c]
          /\ SetEntry(c, "temp")
          /\ call' = [call EXCEPT ![c] = [@ EXCEPT !.pc = "read", !.fd = d,
                                                   !.chunks = n]]
     \/ /\ "io" \in Faults
        /\ call' = [call EXCEPT ![c].pc = "raised"]
        /\ UNCHANGED <<fds, entry, disk>>
  /\ UNCHANGED <<thread, strays, data, synced>>

\* Mutant of HasNext: one iteration too many.
HasNextOrEnd(c) == call[c].sent <= call[c].chunks

HasNext(c) == call[c].sent < call[c].chunks

\* The stream yields a chunk, which is counted and handed to a thread.
Chunk(c) ==
  /\ At(c, "read") /\ HasNext(c)
  /\ call' = [call EXCEPT ![c].pc = "write", ![c].sent = @ + 1]
  /\ thread' = [thread EXCEPT ![c] = "pending"]
  /\ UNCHANGED <<strays, fds, data, synced, entry, disk>>

\* Mutant of EndOfStream: the rename without the fsync.
EndWithoutFsync(c) == Goto(c, "replace", FALSE)

EndOfStream(c) == Goto(c, "fsync", FALSE)

StreamEnds(c) ==
  /\ At(c, "read") /\ ~HasNext(c)
  /\ EndOfStream(c)
  /\ UNCHANGED <<strays, fds, data, synced, entry, disk>>

StreamRaises(c) ==
  /\ "io" \in Faults /\ At(c, "read")
  /\ fds' = Closed(call[c].fd)
  /\ Goto(c, "cleanup", TRUE)
  /\ UNCHANGED <<strays, data, synced, entry, disk>>

\* What follows a thread that returned.
Succeeding == [write |-> "read", fsync |-> "replace", replace |-> "opendir",
               opendir |-> "fsyncdir", fsyncdir |-> "closedir", closedir |-> "saved",
               cleanup |-> "raised", deleting |-> "deleted"]

\* Mutant of Failing: the clean-up in an "except Exception".
FailingWithoutCleanup(pc) ==
  CASE pc = "fsyncdir" -> "closedir"
    [] pc = "deleting" -> "undeleted"
    [] OTHER -> "raised"

\* Where an exception, CancelledError included, takes a call that waits at pc.
Failing(pc) ==
  CASE pc = "fsyncdir" -> "closedir"
    [] pc = "cleanup" -> "leaked"
    [] pc = "deleting" -> "undeleted"
    [] OTHER -> "cleanup"

\* Mutant of Then: no fsync of the directory.
ThenSaved(pc, ok) ==
  IF pc = "replace" /\ ok THEN "saved" ELSE IF ok THEN Succeeding[pc] ELSE Failing(pc)

\* Mutant of Then: no close of the directory.
ThenUnclosed(pc, ok) ==
  IF pc = "fsyncdir" /\ ok THEN "saved" ELSE IF ok THEN Succeeding[pc] ELSE Failing(pc)

Then(pc, ok) == IF ok THEN Succeeding[pc] ELSE Failing(pc)

\* The finally clause closes fd after the fsync and on every exception before
\* it; that close may raise as well.
Resume(c) ==
  LET pc == call[c].pc
      ok == thread[c] = "done"
      closes == pc = "fsync" \/ (pc = "write" /\ ~ok)
  IN
  /\ thread[c] \in {"done", "failed"}
  /\ fds' = IF closes THEN Closed(call[c].fd) ELSE fds
  /\ \/ Goto(c, Then(pc, ok /\ ~(pc = "closedir" /\ call[c].failing)),
             call[c].failing \/ ~ok)
     \/ closes /\ "io" \in Faults /\ Goto(c, "cleanup", TRUE)
  /\ UNCHANGED <<strays, data, synced, entry, disk>>

\* delete, of a blob that was saved.
Delete(c) ==
  /\ At(c, "saved") \/ At(c, "undeleted")
  /\ Goto(c, "deleting", FALSE)
  /\ UNCHANGED <<strays, fds, data, synced, entry, disk>>

-----------------------------------------------------------------------------
(* Cancellation.                                                           *)

\* Mutant of ClosesOnCancel: the close moved to the outer handler.
ClosesWhenever(pc) == pc \in {"read", "write", "fsync", "replace"}

ClosesOnCancel(pc) == pc \in {"read", "write", "fsync"}

\* The thread awaited goes on alone, or never starts if it was still queued.
Cancel(c) ==
  LET pc == call[c].pc IN
  /\ "cancel" \in Faults /\ pc \in Running \cup {"deleting"}
  /\ strays' \in IF thread[c] = "pending"
                   THEN {strays, strays \cup {[op |-> pc, call |-> c, fd |-> call[c].fd]}}
                   ELSE {strays}
  /\ fds' = IF ClosesOnCancel(pc) THEN Closed(call[c].fd) ELSE fds
  /\ Goto(c, Failing(pc), TRUE)
  /\ UNCHANGED <<data, synced, entry, disk>>

-----------------------------------------------------------------------------
(* What the threads do, for the call that awaits them or as strays: the    *)
(* effect of op with descriptor d, and whether it returns or raises.       *)

\* A descriptor closed meanwhile raises EBADF; one that was closed and given
\* to another call takes the chunk into that call's file.
Write(c, d, ok) ==
  LET inode == fds[d] IN
  /\ ok = (inode \in Calls)
  /\ \E short \in {FALSE} \cup (IF "short" \in Faults THEN {TRUE} ELSE {}) :
       data' = IF ~ok THEN data
               ELSE IF inode = c
                 THEN [data EXCEPT ![c].chunks = @ + 1, ![c].short = @ \/ short]
                 ELSE [data EXCEPT ![inode].foreign = @ \cup {c}]
  /\ UNCHANGED <<fds, synced, entry, disk>>

Fsync(d, ok) ==
  LET inode == fds[d] IN
  /\ ok = (inode \in Calls)
  /\ synced' = IF ok THEN [synced EXCEPT ![inode] = data[inode].chunks] ELSE synced
  /\ UNCHANGED <<fds, data, entry, disk>>

Replace(c, ok) ==
  /\ ok = (entry[c] = "temp")
  /\ IF ok THEN SetEntry(c, "final") ELSE UNCHANGED <<entry, disk>>
  /\ UNCHANGED <<fds, data, synced>>

OpenDir(d) ==
  /\ Free(d)
  /\ fds' = [fds EXCEPT ![d] = Dir]
  /\ UNCHANGED <<data, synced, entry, disk>>

FsyncDir(d, ok) ==
  /\ ok = (fds[d] = Dir)
  /\ disk' = IF ok THEN [c \in Calls |-> {entry[c]}] ELSE disk
  /\ UNCHANGED <<fds, data, synced, entry>>

CloseDir(d, ok) ==
  /\ ok = ~Free(d)
  /\ fds' = Closed(d)
  /\ UNCHANGED <<data, synced, entry, disk>>

\* _unlink_silent: a name that is not there is none of its business.
Unlink(c, name) ==
  /\ IF entry[c] = name THEN SetEntry(c, "none") ELSE UNCHANGED <<entry, disk>>
  /\ UNCHANGED <<fds, data, synced>>

\* Every system call but a close fails without an effect.
Fails(op, d) ==
  /\ "io" \in Faults
  /\ fds' = IF op = "closedir" THEN Closed(d) ELSE fds
  /\ UNCHANGED <<data, synced, entry, disk>>

Performs(op, c, d, ok) ==
  \/ op = "write" /\ Write(c, d, ok)
  \/ op = "fsync" /\ Fsync(d, ok)
  \/ op = "replace" /\ Replace(c, ok)
  \/ op = "fsyncdir" /\ FsyncDir(d, ok)
  \/ op = "closedir" /\ CloseDir(d, ok)
  \/ op = "cleanup" /\ ok /\ Unlink(c, "temp")
  \/ op = "deleting" /\ ok /\ Unlink(c, "final")
  \/ ~ok /\ Fails(op, d)

\* opendir gets its descriptor from the process.
ThreadRuns(c) ==
  /\ thread[c] = "pending"
  /\ \/ \E ok \in BOOLEAN :
          /\ Performs(call[c].pc, c, call[c].fd, ok)
          /\ thread' = [thread EXCEPT ![c] = IF ok THEN "done" ELSE "failed"]
          /\ UNCHANGED call
     \/ \E d \in Fds :
          /\ At(c, "opendir") /\ OpenDir(d)
          /\ thread' = [thread EXCEPT ![c] = "done"]
          /\ call' = [call EXCEPT ![c].fd = d]
  /\ UNCHANGED strays

StrayRuns(s) ==
  /\ strays' = strays \ {s}
  /\ \/ \E ok \in BOOLEAN : Performs(s.op, s.call, s.fd, ok)
     \/ s.op = "opendir" /\ \E d \in Fds : OpenDir(d)
  /\ UNCHANGED <<call, thread>>

-----------------------------------------------------------------------------
(* The process and the machine.                                            *)

\* Descriptors, threads and calls go with the process.
ProcessGone ==
  /\ call' = [c \in Calls |->
               IF call[c].pc \in Running
                 THEN [call[c] EXCEPT !.pc = "lost", !.fd = None, !.sent = 0,
                                      !.failing = FALSE]
               ELSE IF At(c, "deleting") THEN [call[c] EXCEPT !.pc = "undeleted"]
               ELSE call[c]]
  /\ thread' = [c \in Calls |-> "none"]
  /\ strays' = {}
  /\ fds' = [d \in Fds |-> None]

Kill ==
  /\ "kill" \in Faults
  /\ ProcessGone
  /\ UNCHANGED <<data, synced, entry, disk>>

\* The disk holds any of the names it may hold and, of each file, at least
\* what was synced.
PowerLoss ==
  /\ "power" \in Faults
  /\ ProcessGone
  /\ entry' \in {e \in [Calls -> Name] : \A c \in Calls : e[c] \in disk[c]}
  /\ disk' = [c \in Calls |-> {entry'[c]}]
  /\ synced' \in {n \in [Calls -> 0..MaxChunks] :
                    \A c \in Calls : n[c] \in synced[c]..data[c].chunks}
  /\ data' = [c \in Calls |-> [data[c] EXCEPT !.chunks = synced'[c]]]

-----------------------------------------------------------------------------
Next ==
  \/ \E c \in Calls :
       \/ \E n \in 0..MaxChunks : Start(c, n)
       \/ Chunk(c) \/ StreamEnds(c) \/ StreamRaises(c)
       \/ Resume(c) \/ ThreadRuns(c)
       \/ Delete(c) \/ Cancel(c)
  \/ \E s \in strays : StrayRuns(s)
  \/ Kill \/ PowerLoss

Spec == Init /\ [][Next]_vars

-----------------------------------------------------------------------------
(* Properties.                                                             *)

\* Every variable has its type.
StorageTypeOK ==
  /\ call \in [Calls -> Call]
  /\ thread \in [Calls -> {"none", "pending", "done", "failed"}]
  /\ strays \subseteq Stray
  /\ fds \in [Fds -> Calls \cup {Dir, None}]
  /\ data \in [Calls -> Content]
  /\ synced \in [Calls -> 0..MaxChunks]
  /\ entry \in [Calls -> Name]
  /\ disk \in [Calls -> SUBSET Name]

\* A final name never shows a file that misses a chunk of its upload, not even
\* after a power loss; what else can be in it comes from an upload that is
\* being given up, whose last write found its descriptor in other hands.
FinalHasEveryChunk ==
  \A c \in Calls : entry[c] = "final" =>
    /\ data[c].chunks = call[c].chunks
    /\ \A f \in data[c].foreign : call[f].pc \in {"cleanup", "raised", "leaked", "lost"}

\* Once save_stream has returned, neither a crash nor a power loss nor any
\* other call takes the blob away until somebody deletes it.
SavedIsDurable ==
  \A c \in Calls : At(c, "saved") => entry[c] = "final" /\ disk[c] = {"final"}

\* c is to sync or to close the descriptor of the directory it has.
UsesDirectory(c) ==
  At(c, "fsyncdir") \/ (At(c, "closedir") /\ thread[c] = "pending")

\* A call's descriptor is its own as long as it means to use it: nobody closes
\* it early or gets the same number.
OwnDescriptor ==
  \A c \in Calls :
    /\ call[c].pc \in {"read", "write", "fsync"} => fds[call[c].fd] = c
    /\ UsesDirectory(c) =>
         /\ fds[call[c].fd] = Dir
         /\ \A b \in Calls \ {c} : UsesDirectory(b) => call[b].fd # call[c].fd

\* However an upload ends that has not died with its process, a cancelled one
\* included, its temporary name is gone unless unlinking it failed as well.
RaisedLeavesNoTemp ==
  [][\A c \in Calls : ~At(c, "raised") /\ call'[c].pc = "raised" => entry'[c] # "temp"]_vars

\* A descriptor is given back: no file stays open past its upload, and the
\* directory is open at most once for each call that is syncing it or was given
\* up, whose open or close may be running, or have been dropped, unawaited.
DescriptorsGivenBack ==
  /\ \A d \in Fds : fds[d] \in Calls =>
       call[fds[d]].fd = d /\ call[fds[d]].pc \in {"read", "write", "fsync"}
  /\ Cardinality({d \in Fds : fds[d] = Dir})
       <= Cardinality({c \in Calls : call[c].pc \in {"opendir", "fsyncdir", "closedir",
                                                     "cleanup", "raised", "leaked"}})

\* What a caller has been told of a blob.
Told(c) ==
  CASE At(c, "saved") -> "saved"
    [] call[c].pc \in {"deleting", "undeleted"} -> "going"
    [] At(c, "deleted") -> "deleted"
    [] OTHER -> "nothing"

Abstract == INSTANCE BlobStore WITH
  Blobs <- Calls,
  PowerMayFail <- "power" \in Faults,
  stored <- {c \in Calls : entry[c] = "final"},
  told <- [c \in Calls |-> Told(c)]

\* The directory is a BlobStore: a blob a caller was told of is there exactly
\* until it is deleted, and none comes back but a deleted one by a power loss.
ImplementsBlobStore == Abstract!Spec

-----------------------------------------------------------------------------
(* What the protocol in base.py says although it is not so.                *)

\* "a partial write must never become observable under the final name"
FinalIsWhole ==
  \A c \in Calls : entry[c] = "final" =>
    data[c] = [chunks |-> call[c].chunks, foreign |-> {}, short |-> FALSE]
=============================================================================
