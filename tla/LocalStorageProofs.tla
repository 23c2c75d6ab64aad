-------------------------- MODULE LocalStorageProofs --------------------------
(***************************************************************************)
(* Proofs about LocalStorage for any number of calls, descriptors and      *)
(* chunks and any set of faults.                                           *)
(***************************************************************************)
EXTENDS LocalStorage, FiniteSetTheorems, TLAPS

-----------------------------------------------------------------------------
(* The inductive invariant.                                                *)

Writing == {"read", "write", "fsync"}
GivenUp == {"cleanup", "raised", "leaked", "lost"}
Announced == {"saved", "deleting", "undeleted", "deleted"}

\* A thread is awaited at the steps for a thread only.
ThreadInv ==
  \A c \in Calls : thread[c] # "none" => call[c].pc \in ThreadPc

\* c has an open descriptor of the directory and will close it.
Holds(c) ==
  \/ At(c, "fsyncdir")
  \/ At(c, "opendir") /\ thread[c] = "done"
  \/ At(c, "closedir") /\ thread[c] = "pending"

DescriptorOps == {"write", "fsync", "fsyncdir", "closedir"}
Closers == {s \in strays : s.op = "closedir"}

\* A file is open for its call, once and as long as that needs it, and whoever
\* is going to close a descriptor of the directory has one of its own.
DescriptorInv ==
  /\ \A c \in Calls : call[c].pc \in Writing =>
       call[c].fd \in Fds /\ fds[call[c].fd] = c
  /\ \A d \in Fds : fds[d] \in Calls =>
       call[fds[d]].fd = d /\ call[fds[d]].pc \in Writing
  /\ \A c \in Calls : Holds(c) =>
       /\ call[c].fd \in Fds /\ fds[call[c].fd] = Dir
       /\ \A b \in Calls \ {c} : Holds(b) => call[b].fd # call[c].fd
       /\ \A s \in Closers : s.fd # call[c].fd
  /\ \A s \in Closers :
       /\ s.fd \in Fds /\ fds[s.fd] = Dir
       /\ \A t \in Closers \ {s} : t.fd # s.fd

\* Every chunk of the upload has been written and synced.
Complete(c) == data[c].chunks = call[c].chunks /\ synced[c] = call[c].chunks

ContentOf(c) ==
  /\ synced[c] <= data[c].chunks /\ call[c].sent <= call[c].chunks
  /\ At(c, "idle") => data[c].chunks = 0 /\ call[c].sent = 0
  /\ At(c, "read") => data[c].chunks = call[c].sent
  /\ At(c, "write") =>
       data[c].chunks = IF thread[c] = "done" THEN call[c].sent ELSE call[c].sent - 1
  /\ At(c, "fsync") => /\ data[c].chunks = call[c].chunks
                       /\ thread[c] = "done" => Complete(c)
  /\ call[c].pc \in {"replace", "opendir", "fsyncdir", "closedir"} => Complete(c)
  /\ "final" \in disk[c] => Complete(c)

ContentInv ==
  \A c \in Calls :
    /\ ContentOf(c)
    /\ \A f \in data[c].foreign : call[f].pc \in GivenUp

\* Whether c has been renamed, and whether that is on the disk.
Renamed(c) ==
  \/ call[c].pc \in {"opendir", "fsyncdir", "closedir", "saved"}
  \/ At(c, "replace") /\ thread[c] = "done"

Settled(c) ==
  \/ At(c, "saved")
  \/ At(c, "closedir") /\ ~call[c].failing
  \/ At(c, "fsyncdir") /\ thread[c] = "done"

NameOf(c) ==
  /\ entry[c] \in disk[c]
  /\ At(c, "idle") => disk[c] = {"none"}
  /\ call[c].pc \in Writing \/ (At(c, "replace") /\ thread[c] # "done")
       => "final" \notin disk[c]
  /\ Renamed(c) => entry[c] = "final"
  /\ Settled(c) => disk[c] = {"final"}
  /\ At(c, "cleanup") /\ thread[c] = "done" => entry[c] # "temp"
  /\ At(c, "deleting") /\ thread[c] = "done" => entry[c] # "final"
  /\ "final" \in disk[c] /\ call[c].pc \notin Announced => entry[c] = "final"

NameInv == \A c \in Calls : NameOf(c)

StrayInv ==
  \A s \in strays :
    LET c == s.call IN
    /\ s.op = "deleting" => \/ call[c].pc \in {"undeleted", "deleting"}
                            \/ At(c, "deleted") /\ entry[c] # "final"
    /\ s.op # "deleting" =>
         \/ call[c].pc \in {"cleanup", "raised", "leaked"}
         \/ At(c, "closedir") /\ call[c].failing /\ s.op = "fsyncdir"
    /\ s.op = "replace" => Complete(c)
    /\ s.op \in DescriptorOps => s.fd \in Fds

StorageInv ==
  StorageTypeOK /\ ThreadInv /\ DescriptorInv /\ ContentInv /\ NameInv /\ StrayInv

-----------------------------------------------------------------------------
(* What the operators of the actions do.                                   *)

LEMMA GotoFacts ==
  ASSUME StorageTypeOK, NEW c \in Calls,
         NEW pc \in Running \cup Over \cup {"deleting"},
         NEW failing \in BOOLEAN, Goto(c, pc, failing)
  PROVE  /\ call' \in [Calls -> Call]
         /\ thread' \in [Calls -> {"none", "pending", "done", "failed"}]
         /\ \A b \in Calls \ {c} : call'[b] = call[b] /\ thread'[b] = thread[b]
         /\ call'[c].pc = pc /\ call'[c].chunks = call[c].chunks
         /\ pc \in Running \ {"cleanup"} => call'[c].fd = call[c].fd
         /\ call'[c].sent = IF pc \in {"read", "write"} THEN call[c].sent ELSE 0
         /\ call'[c].failing = (failing /\ pc = "closedir")
         /\ thread'[c] = IF pc \in ThreadPc THEN "pending" ELSE "none"
<1> DEFINE fd == IF pc \in Running \ {"cleanup"} THEN call[c].fd ELSE None
           sent == IF pc \in {"read", "write"} THEN call[c].sent ELSE 0
           after == [pc |-> pc, fd |-> fd, chunks |-> call[c].chunks, sent |-> sent,
                     failing |-> failing /\ pc = "closedir"]
           awaited == IF pc \in ThreadPc THEN "pending" ELSE "none"
<1>1. /\ call' = [call EXCEPT ![c] = after]
      /\ thread' = [thread EXCEPT ![c] = awaited]
  BY DEF Goto
<1>2. call[c] \in Call /\ fd \in Fds \cup {None} /\ sent \in 0..MaxChunks
  BY ChunksAssumption DEF StorageTypeOK, Call
<1>3. after \in Call
  BY <1>2 DEF Call
<1>4. awaited \in {"none", "pending", "done", "failed"}
  OBVIOUS
<1> HIDE DEF fd, sent, awaited
<1>5. /\ after.pc = pc /\ after.fd = fd /\ after.chunks = call[c].chunks
      /\ after.sent = sent /\ after.failing = (failing /\ pc = "closedir")
  OBVIOUS
<1> HIDE DEF after
<1>6. /\ call'[c] = after /\ thread'[c] = awaited
      /\ \A b \in Calls \ {c} : call'[b] = call[b] /\ thread'[b] = thread[b]
      /\ call' \in [Calls -> Call]
      /\ thread' \in [Calls -> {"none", "pending", "done", "failed"}]
  BY <1>1, <1>3, <1>4 DEF StorageTypeOK
<1>7. QED
  BY <1>5, <1>6 DEF fd, sent, awaited

\* A call that waits for a thread is at a step for one, and goes on to a step
\* or to an end.
LEMMA ThenFacts ==
  ASSUME NEW pc \in ThreadPc, NEW ok \in BOOLEAN
  PROVE  /\ Then(pc, ok) \in Running \cup Over /\ Failing(pc) \in Running \cup Over
         /\ ok => Then(pc, ok) = Succeeding[pc]
         /\ ~ok => Then(pc, ok) = Failing(pc)
BY DEF Then, Succeeding, Failing, ThreadPc, Running, Over

-----------------------------------------------------------------------------
LEMMA StorageInit == Init => StorageInv
<1> SUFFICES ASSUME Init PROVE StorageInv
  OBVIOUS
<1> USE ChunksAssumption, ValuesAssumption DEF Init, At
<1>1. StorageTypeOK
  BY DEF StorageTypeOK, Call, Content, Name
<1>2. ThreadInv /\ StrayInv
  BY DEF ThreadInv, StrayInv
<1>3. DescriptorInv
  BY DEF DescriptorInv, Writing, Holds, Closers
<1>4. ContentInv
  BY DEF ContentInv, ContentOf
<1>5. NameInv
  BY DEF NameInv, NameOf, Renamed, Settled, Writing
<1>6. QED
  BY <1>1, <1>2, <1>3, <1>4, <1>5 DEF StorageInv

\* What a step of a thread does to the files, awaited or not.
LEMMA PerformsType ==
  ASSUME StorageTypeOK, NEW op \in ThreadPc, NEW c \in Calls, NEW d \in Fds \cup {None},
         NEW ok \in BOOLEAN, Performs(op, c, d, ok),
         op \in DescriptorOps => d \in Fds,
         op = "write" /\ fds[d] = c => data[c].chunks < MaxChunks
  PROVE  /\ fds' \in [Fds -> Calls \cup {Dir, None}] /\ data' \in [Calls -> Content]
         /\ synced' \in [Calls -> 0..MaxChunks] /\ entry' \in [Calls -> Name]
         /\ disk' \in [Calls -> SUBSET Name]
<1> USE ChunksAssumption, ValuesAssumption DEF StorageTypeOK, DescriptorOps
<1>1. CASE op = "write" /\ Write(c, d, ok)
  <2>1. ASSUME NEW short \in BOOLEAN, ok, fds[d] = c,
               data' = [data EXCEPT ![c].chunks = @ + 1, ![c].short = @ \/ short]
        PROVE  data' \in [Calls -> Content]
    <3>1. data[c] \in Content /\ data[c].chunks + 1 \in 0..MaxChunks
      BY <1>1, <2>1 DEF Content
    <3>2. (data[c].short \/ short) \in BOOLEAN
      OBVIOUS
    <3>3. \A n \in 0..MaxChunks, x \in BOOLEAN :
            [data[c] EXCEPT !.chunks = n, !.short = x] \in Content
      BY <3>1 DEF Content
    <3>4. [data[c] EXCEPT !.chunks = @ + 1, !.short = @ \/ short] \in Content
      BY <3>1, <3>2, <3>3
    <3>5. QED
      BY <2>1, <3>4
  <2>2. ASSUME NEW inode \in Calls, data' = [data EXCEPT ![inode].foreign = @ \cup {c}]
        PROVE  data' \in [Calls -> Content]
    <3>1. [data[inode] EXCEPT !.foreign = @ \cup {c}] \in Content
      BY DEF Content
    <3>2. QED
      BY <2>2, <3>1
  <2>3. data' \in [Calls -> Content]
    BY <1>1, <2>1, <2>2 DEF Write
  <2>4. QED
    BY <1>1, <2>3 DEF Write
<1>2. CASE op = "fsync" /\ Fsync(d, ok)
  BY <1>2 DEF Fsync, Content
<1>3. CASE op = "replace" /\ Replace(c, ok)
  BY <1>3 DEF Replace, SetEntry, Name
<1>4. CASE op = "fsyncdir" /\ FsyncDir(d, ok)
  BY <1>4 DEF FsyncDir
<1>5. CASE op = "closedir" /\ CloseDir(d, ok)
  BY <1>5 DEF CloseDir, Closed
<1>6. CASE Unlink(c, "temp") \/ Unlink(c, "final")
  BY <1>6 DEF Unlink, SetEntry, Name
<1>7. CASE Fails(op, d)
  BY <1>7 DEF Fails, Closed
<1>8. QED
  BY <1>1, <1>2, <1>3, <1>4, <1>5, <1>6, <1>7 DEF Performs

\* The loop closes the descriptor of the call only.
LEMMA ClosedType ==
  ASSUME StorageTypeOK, NEW d
  PROVE  Closed(d) \in [Fds -> Calls \cup {Dir, None}]
BY DEF StorageTypeOK, Closed

LEMMA CallUpdate ==
  ASSUME NEW x \in Call, NEW pc \in {"idle", "deleting"} \cup Running \cup Over,
         NEW fd \in Fds \cup {None}, NEW sent \in 0..MaxChunks, NEW failing \in BOOLEAN
  PROVE  [x EXCEPT !.pc = pc, !.fd = fd, !.sent = sent, !.failing = failing] \in Call
BY DEF Call

LEMMA ProcessGoneFacts ==
  ASSUME StorageTypeOK, ProcessGone
  PROVE  /\ call' \in [Calls -> Call]
         /\ \A c \in Calls :
              /\ call'[c].chunks = call[c].chunks /\ call'[c].sent <= call[c].sent
              /\ call'[c].pc = IF call[c].pc \in Running THEN "lost"
                               ELSE IF At(c, "deleting") THEN "undeleted"
                               ELSE call[c].pc
         /\ thread' = [c \in Calls |-> "none"] /\ strays' = {}
         /\ fds' = [d \in Fds |-> None]
<1> DEFINE After(c) ==
      IF call[c].pc \in Running
        THEN [call[c] EXCEPT !.pc = "lost", !.fd = None, !.sent = 0, !.failing = FALSE]
      ELSE IF At(c, "deleting") THEN [call[c] EXCEPT !.pc = "undeleted"]
      ELSE call[c]
<1>1. ASSUME NEW c \in Calls
      PROVE  /\ After(c) \in Call /\ After(c).chunks = call[c].chunks
             /\ After(c).sent <= call[c].sent
             /\ After(c).pc = IF call[c].pc \in Running THEN "lost"
                               ELSE IF At(c, "deleting") THEN "undeleted"
                               ELSE call[c].pc
  <2>1. call[c] \in Call
    BY DEF StorageTypeOK
  <2>2. CASE call[c].pc \in Running
    <3>1. 0 \in 0..MaxChunks /\ "lost" \in Over /\ call[c].sent >= 0
      BY <2>1, ChunksAssumption DEF Over, Call
    <3>2. After(c) = [call[c] EXCEPT !.pc = "lost", !.fd = None, !.sent = 0,
                                     !.failing = FALSE]
      BY <2>2
    <3> HIDE DEF After
    <3>3. After(c) \in Call
      <4>1. /\ "lost" \in {"idle", "deleting"} \cup Running \cup Over
            /\ None \in Fds \cup {None} /\ FALSE \in BOOLEAN
        BY <3>1
      <4>2. [call[c] EXCEPT !.pc = "lost", !.fd = None, !.sent = 0,
                            !.failing = FALSE] \in Call
        BY <2>1, <3>1, <4>1, CallUpdate, Zenon
      <4>3. QED
        BY <3>2, <4>2, Zenon
    <3>4. /\ After(c).chunks = call[c].chunks /\ After(c).sent = 0
          /\ After(c).pc = "lost"
      BY <2>1, <3>2 DEF Call
    <3>5. QED
      BY <2>2, <3>1, <3>3, <3>4
  <2>3. CASE call[c].pc \notin Running /\ At(c, "deleting")
    BY <2>1, <2>3, ChunksAssumption DEF Call, Over
  <2>4. CASE call[c].pc \notin Running /\ ~At(c, "deleting")
    BY <2>1, <2>4, ChunksAssumption DEF Call
  <2>5. QED
    BY <2>2, <2>3, <2>4
<1>2. call' = [c \in Calls |-> After(c)]
  BY DEF ProcessGone
<1> HIDE DEF After
<1>3. QED
  BY <1>1, <1>2 DEF ProcessGone

LEMMA TypeNext == StorageInv /\ [Next]_vars => StorageTypeOK'
<1> SUFFICES ASSUME StorageInv, [Next]_vars PROVE StorageTypeOK'
  OBVIOUS
<1> USE ChunksAssumption, ValuesAssumption DEF StorageInv
<1>0. StorageTypeOK
  OBVIOUS
<1>1. ASSUME NEW c \in Calls, NEW n \in 0..MaxChunks, Start(c, n) PROVE StorageTypeOK'
  <2>1. call' \in [Calls -> Call]
    <3>1. ASSUME NEW d \in Fds
          PROVE  [call[c] EXCEPT !.pc = "read", !.fd = d, !.chunks = n] \in Call
      BY <1>0 DEF StorageTypeOK, Call, Running
    <3>2. [call[c] EXCEPT !.pc = "raised"] \in Call
      BY <1>0 DEF StorageTypeOK, Call, Over
    <3>3. CASE call' = [call EXCEPT ![c].pc = "raised"]
      BY <1>0, <3>2, <3>3 DEF StorageTypeOK
    <3>4. ASSUME NEW d \in Fds,
                 call' = [call EXCEPT ![c] = [@ EXCEPT !.pc = "read", !.fd = d, !.chunks = n]]
          PROVE  call' \in [Calls -> Call]
      BY <1>0, <3>1, <3>4 DEF StorageTypeOK
    <3>5. QED
      BY <1>1, <3>3, <3>4 DEF Start
  <2>2. fds' \in [Fds -> Calls \cup {Dir, None}]
    <3>1. UNCHANGED fds \/ \E d \in Fds : fds' = [fds EXCEPT ![d] = c]
      BY <1>1 DEF Start
    <3>2. QED
      BY <1>0, <3>1 DEF StorageTypeOK
  <2>3. entry' \in [Calls -> Name] /\ disk' \in [Calls -> SUBSET Name]
    <3>1. SetEntry(c, "temp") \/ UNCHANGED <<entry, disk>>
      BY <1>1 DEF Start
    <3>2. QED
      BY <1>0, <3>1 DEF SetEntry, StorageTypeOK, Name
  <2>4. QED
    BY <1>0, <1>1, <2>1, <2>2, <2>3 DEF Start, StorageTypeOK
<1>2. ASSUME NEW c \in Calls, Chunk(c) PROVE StorageTypeOK'
  <2>1. [call[c] EXCEPT !.pc = "write", !.sent = @ + 1] \in Call
    BY <1>0, <1>2 DEF Chunk, HasNext, StorageTypeOK, Call, Running, ThreadPc
  <2>2. QED
    BY <1>0, <1>2, <2>1 DEF Chunk, StorageTypeOK
<1>3. ASSUME NEW c \in Calls, NEW pc \in Running \cup Over \cup {"deleting"},
             NEW failing \in BOOLEAN, Goto(c, pc, failing),
             strays' \subseteq Stray, fds' \in [Fds -> Calls \cup {Dir, None}],
             UNCHANGED <<data, synced, entry, disk>>
      PROVE  StorageTypeOK'
  <2>1. /\ call' \in [Calls -> Call]
        /\ thread' \in [Calls -> {"none", "pending", "done", "failed"}]
    BY <1>0, <1>3, GotoFacts
  <2>2. QED
    BY <1>0, <1>3, <2>1 DEF StorageTypeOK
<1>4. ASSUME NEW c \in Calls, StreamEnds(c) \/ StreamRaises(c) \/ Delete(c)
      PROVE  StorageTypeOK'
  <2>1. PICK pc \in {"fsync", "cleanup", "deleting"}, failing \in BOOLEAN :
          Goto(c, pc, failing)
    BY <1>4 DEF StreamEnds, EndOfStream, StreamRaises, Delete
  <2>2. /\ strays' \subseteq Stray /\ UNCHANGED <<data, synced, entry, disk>>
        /\ fds' \in [Fds -> Calls \cup {Dir, None}]
    <3>1. fds' = fds \/ fds' = Closed(call[c].fd)
      BY <1>4 DEF StreamEnds, StreamRaises, Delete
    <3>2. UNCHANGED <<strays, data, synced, entry, disk>>
      BY <1>4 DEF StreamEnds, StreamRaises, Delete
    <3>3. QED
      BY <1>0, <3>1, <3>2, ClosedType DEF StorageTypeOK
  <2>3. pc \in Running \cup Over \cup {"deleting"}
    BY DEF Running, ThreadPc
  <2>4. QED
    BY <1>3, <2>1, <2>2, <2>3
<1>5. ASSUME NEW c \in Calls, Resume(c) PROVE StorageTypeOK'
  <2>1. call[c].pc \in ThreadPc /\ call[c].failing \in BOOLEAN
    BY <1>0, <1>5 DEF Resume, ThreadInv, StorageTypeOK, Call
  <2>2. fds' \in [Fds -> Calls \cup {Dir, None}] /\ strays' \subseteq Stray
    BY <1>0, <1>5, ClosedType DEF Resume, StorageTypeOK
  <2>3. PICK pc \in Running \cup Over, failing \in BOOLEAN : Goto(c, pc, failing)
    <3>1. \A ok \in BOOLEAN : Then(call[c].pc, ok) \in Running \cup Over
      BY <2>1, ThenFacts
    <3>2. \/ \E ok \in BOOLEAN :
               Goto(c, Then(call[c].pc, ok), call[c].failing \/ ~(thread[c] = "done"))
          \/ Goto(c, "cleanup", TRUE)
      BY <1>5 DEF Resume
    <3>3. QED
      BY <2>1, <3>1, <3>2 DEF Running, ThreadPc
  <2>4. QED
    BY <1>3, <1>5, <2>2, <2>3 DEF Resume
<1>6. ASSUME NEW c \in Calls, Cancel(c) PROVE StorageTypeOK'
  <2>1. Failing(call[c].pc) \in Running \cup Over
    BY DEF Failing, Running, Over, ThreadPc
  <2>2. fds' \in [Fds -> Calls \cup {Dir, None}]
    BY <1>0, <1>6, ClosedType DEF Cancel, StorageTypeOK
  <2>3. strays' \subseteq Stray
    <3>1. thread[c] = "pending" =>
            [op |-> call[c].pc, call |-> c, fd |-> call[c].fd] \in Stray
      BY <1>0 DEF ThreadInv, Stray, StorageTypeOK, Call
    <3>2. QED
      BY <1>0, <1>6, <3>1 DEF Cancel, StorageTypeOK
  <2>4. QED
    BY <1>3, <1>6, <2>1, <2>2, <2>3 DEF Cancel
<1>7. ASSUME NEW c \in Calls, ThreadRuns(c) PROVE StorageTypeOK'
  <2>1. call[c].pc \in ThreadPc /\ call[c].fd \in Fds \cup {None} /\ strays' \subseteq Stray
    BY <1>0, <1>7 DEF ThreadRuns, ThreadInv, StorageTypeOK, Call
  <2>2. ASSUME NEW ok \in BOOLEAN, Performs(call[c].pc, c, call[c].fd, ok), UNCHANGED call,
               thread' = [thread EXCEPT ![c] = IF ok THEN "done" ELSE "failed"]
        PROVE  StorageTypeOK'
    <3>1. call[c].pc \in DescriptorOps => call[c].fd \in Fds
      BY <1>7 DEF DescriptorInv, Writing, Holds, At, DescriptorOps, ThreadRuns
    <3>2. call[c].pc = "write" => data[c].chunks < MaxChunks
      BY <1>0, <1>7 DEF ContentInv, ContentOf, At, ThreadRuns, StorageTypeOK, Call, Content
    <3>3. QED
      BY <1>0, <2>1, <2>2, <3>1, <3>2, PerformsType DEF StorageTypeOK
  <2>3. ASSUME NEW d \in Fds, OpenDir(d), call' = [call EXCEPT ![c].fd = d],
               thread' = [thread EXCEPT ![c] = "done"]
        PROVE  StorageTypeOK'
    <3>1. [call[c] EXCEPT !.fd = d] \in Call
      BY <1>0 DEF StorageTypeOK, Call
    <3>2. QED
      BY <1>0, <2>1, <2>3, <3>1 DEF StorageTypeOK, OpenDir
  <2>4. QED
    BY <1>7, <2>2, <2>3 DEF ThreadRuns
<1>8. ASSUME NEW s \in strays, StrayRuns(s) PROVE StorageTypeOK'
  <2>1. /\ s.op \in ThreadPc /\ s.call \in Calls /\ s.fd \in Fds \cup {None}
        /\ strays' \subseteq Stray /\ UNCHANGED <<call, thread>>
    BY <1>0, <1>8 DEF StrayRuns, StorageTypeOK, Stray
  <2>2. ASSUME NEW ok \in BOOLEAN, Performs(s.op, s.call, s.fd, ok)
        PROVE  StorageTypeOK'
    <3>1. s.op \in DescriptorOps => s.fd \in Fds
      BY DEF StrayInv
    <3>2. s.op = "write" => fds[s.fd] # s.call
      BY <2>1, <3>1 DEF StrayInv, DescriptorInv, Writing, DescriptorOps, At
    <3>3. QED
      BY <1>0, <2>1, <2>2, <3>1, <3>2, PerformsType DEF StorageTypeOK
  <2>3. ASSUME NEW d \in Fds, OpenDir(d) PROVE StorageTypeOK'
    BY <1>0, <2>1, <2>3 DEF StorageTypeOK, OpenDir
  <2>4. QED
    BY <1>8, <2>2, <2>3 DEF StrayRuns
<1>9. CASE Kill
  BY <1>0, <1>9, ProcessGoneFacts DEF Kill, StorageTypeOK
<1>10. CASE PowerLoss
  <2>1. ProcessGone /\ synced' \in [Calls -> 0..MaxChunks] /\ entry' \in [Calls -> Name]
    BY <1>10 DEF PowerLoss
  <2>2. disk' \in [Calls -> SUBSET Name]
    BY <1>10, <2>1 DEF PowerLoss
  <2>3. \A c \in Calls : [data[c] EXCEPT !.chunks = synced'[c]] \in Content
    BY <1>0, <2>1 DEF StorageTypeOK, Content
  <2>4. data' \in [Calls -> Content]
    BY <1>10, <2>3 DEF PowerLoss
  <2>5. QED
    BY <1>0, <2>1, <2>2, <2>4, ProcessGoneFacts DEF StorageTypeOK
<1>11. CASE UNCHANGED vars
  BY <1>0, <1>11 DEF vars, StorageTypeOK
<1>12. QED
  BY <1>1, <1>2, <1>4, <1>5, <1>6, <1>7, <1>8, <1>9, <1>10, <1>11 DEF Next

-----------------------------------------------------------------------------
(* What each action changes, spelt out.                                    *)

LEMMA StartFacts ==
  ASSUME StorageInv, NEW c \in Calls, NEW n \in 0..MaxChunks, Start(c, n)
  PROVE  /\ At(c, "idle") /\ UNCHANGED <<thread, strays, data, synced>>
         /\ \A b \in Calls \ {c} : call'[b] = call[b] /\ entry'[b] = entry[b]
                                   /\ disk'[b] = disk[b]
         /\ \/ /\ call'[c].pc = "raised" /\ UNCHANGED <<fds, entry, disk>>
               /\ call'[c].chunks = call[c].chunks /\ call'[c].sent = call[c].sent
            \/ /\ call'[c].pc = "read" /\ call'[c].chunks = n
               /\ call'[c].sent = call[c].sent
               /\ call'[c].fd \in Fds /\ Free(call'[c].fd)
               /\ fds' = [fds EXCEPT ![call'[c].fd] = c]
               /\ entry'[c] = "temp" /\ disk'[c] = disk[c] \cup {"temp"}
<1> USE DEF StorageInv, StorageTypeOK
<1>0. call[c] \in Call /\ call \in [Calls -> Call]
  OBVIOUS
<1>1. CASE call' = [call EXCEPT ![c].pc = "raised"] /\ UNCHANGED <<fds, entry, disk>>
  <2>1. /\ call'[c].pc = "raised" /\ call'[c].chunks = call[c].chunks
        /\ call'[c].sent = call[c].sent
        /\ \A b \in Calls \ {c} : call'[b] = call[b]
    BY <1>0, <1>1 DEF Call
  <2>2. QED
    BY <1>1, <2>1 DEF Start
<1>2. ASSUME NEW d \in Fds, Free(d), fds' = [fds EXCEPT ![d] = c], SetEntry(c, "temp"),
             call' = [call EXCEPT ![c] = [@ EXCEPT !.pc = "read", !.fd = d, !.chunks = n]]
      PROVE  /\ call'[c].pc = "read" /\ call'[c].chunks = n
             /\ call'[c].sent = call[c].sent /\ call'[c].fd = d
             /\ \A b \in Calls \ {c} : call'[b] = call[b] /\ entry'[b] = entry[b]
                                       /\ disk'[b] = disk[b]
             /\ entry'[c] = "temp" /\ disk'[c] = disk[c] \cup {"temp"}
  <2>1. /\ call'[c] = [call[c] EXCEPT !.pc = "read", !.fd = d, !.chunks = n]
        /\ \A b \in Calls \ {c} : call'[b] = call[b]
    BY <1>0, <1>2
  <2>2. /\ call'[c].pc = "read" /\ call'[c].chunks = n
        /\ call'[c].sent = call[c].sent /\ call'[c].fd = d
    BY <1>0, <2>1 DEF Call
  <2>3. QED
    BY <1>2, <2>1, <2>2 DEF SetEntry
<1>3. QED
  <2>1. At(c, "idle") /\ UNCHANGED <<thread, strays, data, synced>>
    BY DEF Start
  <2>2. CASE call' = [call EXCEPT ![c].pc = "raised"] /\ UNCHANGED <<fds, entry, disk>>
    BY <1>1, <2>1, <2>2
  <2>3. ASSUME NEW d \in Fds, Free(d), fds' = [fds EXCEPT ![d] = c], SetEntry(c, "temp"),
               call' = [call EXCEPT ![c] = [@ EXCEPT !.pc = "read", !.fd = d, !.chunks = n]]
        PROVE  /\ call'[c].pc = "read" /\ call'[c].chunks = n
               /\ call'[c].sent = call[c].sent
               /\ call'[c].fd \in Fds /\ Free(call'[c].fd)
               /\ fds' = [fds EXCEPT ![call'[c].fd] = c]
               /\ entry'[c] = "temp" /\ disk'[c] = disk[c] \cup {"temp"}
               /\ \A b \in Calls \ {c} : call'[b] = call[b] /\ entry'[b] = entry[b]
                                         /\ disk'[b] = disk[b]
    BY <1>2, <2>3
  <2>4. QED
    BY <2>1, <2>2, <2>3, <1>1 DEF Start

LEMMA ChunkFacts ==
  ASSUME StorageInv, NEW c \in Calls, Chunk(c)
  PROVE  /\ At(c, "read") /\ call[c].sent < call[c].chunks
         /\ UNCHANGED <<strays, fds, data, synced, entry, disk>>
         /\ \A b \in Calls \ {c} : call'[b] = call[b] /\ thread'[b] = thread[b]
         /\ call'[c].pc = "write" /\ call'[c].sent = call[c].sent + 1
         /\ call'[c].chunks = call[c].chunks /\ call'[c].fd = call[c].fd
         /\ thread'[c] = "pending"
BY DEF StorageInv, StorageTypeOK, Call, Chunk, HasNext

LEMMA ResumeFacts ==
  ASSUME StorageInv, NEW c \in Calls, Resume(c)
  PROVE  LET pc == call[c].pc
             next == call'[c].pc
             done == thread[c] = "done"
         IN
         /\ thread[c] \in {"done", "failed"} /\ pc \in ThreadPc
         /\ UNCHANGED <<strays, data, synced, entry, disk>>
         /\ \A b \in Calls \ {c} : call'[b] = call[b] /\ thread'[b] = thread[b]
         /\ call'[c].chunks = call[c].chunks
         /\ call'[c].sent = IF next = "read" THEN call[c].sent ELSE 0
         /\ next \in Running \ {"cleanup"} => call'[c].fd = call[c].fd
         /\ thread'[c] = IF next \in ThreadPc THEN "pending" ELSE "none"
         /\ fds' = IF pc = "fsync" \/ (pc = "write" /\ ~done)
                     THEN Closed(call[c].fd) ELSE fds
         /\ pc = "write" => next = IF done THEN "read" ELSE "cleanup"
         /\ pc = "fsync" => next = "cleanup" \/ (done /\ next = "replace")
         /\ pc = "replace" => next = IF done THEN "opendir" ELSE "cleanup"
         /\ pc = "opendir" => next = IF done THEN "fsyncdir" ELSE "cleanup"
         /\ pc = "fsyncdir" => next = "closedir" /\ (done \/ call'[c].failing)
         /\ pc = "closedir" =>
              next = IF done /\ ~call[c].failing THEN "saved" ELSE "cleanup"
         /\ pc = "cleanup" => next = IF done THEN "raised" ELSE "leaked"
         /\ pc = "deleting" => next = IF done THEN "deleted" ELSE "undeleted"
<1> DEFINE pc == call[c].pc
           done == thread[c] = "done"
           closes == pc = "fsync" \/ (pc = "write" /\ ~done)
           ok == done /\ ~(pc = "closedir" /\ call[c].failing)
<1> USE DEF StorageInv
<1>0. /\ thread[c] \in {"done", "failed"} /\ pc \in ThreadPc
      /\ call[c].failing \in BOOLEAN /\ StorageTypeOK
      /\ UNCHANGED <<strays, data, synced, entry, disk>>
      /\ fds' = IF closes THEN Closed(call[c].fd) ELSE fds
  BY DEF Resume, ThreadInv, StorageTypeOK, Call
<1>1. PICK next \in Running \cup Over, failing \in BOOLEAN :
        /\ Goto(c, next, failing)
        /\ \/ next = Then(pc, ok) /\ failing = (call[c].failing \/ ~done)
           \/ closes /\ next = "cleanup" /\ failing = TRUE
  <2>1. \/ Goto(c, Then(pc, ok), call[c].failing \/ ~done)
        \/ closes /\ Goto(c, "cleanup", TRUE)
    BY DEF Resume
  <2>2. /\ (call[c].failing \/ ~done) \in BOOLEAN /\ Then(pc, ok) \in Running \cup Over
        /\ TRUE \in BOOLEAN /\ "cleanup" \in Running \cup Over
    BY <1>0, ThenFacts DEF Running, ThreadPc
  <2>3. QED
    BY <2>1, <2>2, Zenon
<1>2. /\ pc = "write" => next = IF done THEN "read" ELSE "cleanup"
      /\ pc = "fsync" => next = "cleanup" \/ (done /\ next = "replace")
      /\ pc = "replace" => next = IF done THEN "opendir" ELSE "cleanup"
      /\ pc = "opendir" => next = IF done THEN "fsyncdir" ELSE "cleanup"
      /\ pc = "fsyncdir" => next = "closedir" /\ (done \/ failing)
      /\ pc = "closedir" =>
           next = IF done /\ ~call[c].failing THEN "saved" ELSE "cleanup"
      /\ pc = "cleanup" => next = IF done THEN "raised" ELSE "leaked"
      /\ pc = "deleting" => next = IF done THEN "deleted" ELSE "undeleted"
  <2>1. /\ ok => Then(pc, ok) = Succeeding[pc]
        /\ ~ok => Then(pc, ok) = Failing(pc)
    BY <1>0, ThenFacts
  <2>2. QED
    BY <1>1, <2>1 DEF Succeeding, Failing
<1>3. next \in Running \cup Over \cup {"deleting"}
  OBVIOUS
<1>4. /\ \A b \in Calls \ {c} : call'[b] = call[b] /\ thread'[b] = thread[b]
      /\ call'[c].pc = next /\ call'[c].chunks = call[c].chunks
      /\ next \in Running \ {"cleanup"} => call'[c].fd = call[c].fd
      /\ call'[c].sent = IF next \in {"read", "write"} THEN call[c].sent ELSE 0
      /\ call'[c].failing = (failing /\ next = "closedir")
      /\ thread'[c] = IF next \in ThreadPc THEN "pending" ELSE "none"
  BY <1>0, <1>1, <1>3, GotoFacts
<1>5. next # "write"
  BY <1>0, <1>2 DEF ThreadPc
<1>6. QED
  BY <1>0, <1>2, <1>4, <1>5

LEMMA CancelFacts ==
  ASSUME StorageInv, NEW c \in Calls, Cancel(c)
  PROVE  LET pc == call[c].pc
             next == call'[c].pc
             stray == [op |-> pc, call |-> c, fd |-> call[c].fd]
         IN
         /\ pc \in Running \cup {"deleting"}
         /\ UNCHANGED <<data, synced, entry, disk>>
         /\ \A b \in Calls \ {c} : call'[b] = call[b] /\ thread'[b] = thread[b]
         /\ call'[c].chunks = call[c].chunks /\ call'[c].sent = 0
         /\ thread'[c] = IF next \in ThreadPc THEN "pending" ELSE "none"
         /\ next = IF pc = "fsyncdir" THEN "closedir"
                   ELSE IF pc = "cleanup" THEN "leaked"
                   ELSE IF pc = "deleting" THEN "undeleted" ELSE "cleanup"
         /\ pc = "fsyncdir" => call'[c].fd = call[c].fd /\ call'[c].failing
         /\ fds' = IF pc \in Writing THEN Closed(call[c].fd) ELSE fds
         /\ strays' = strays \/ (thread[c] = "pending" /\ strays' = strays \cup {stray})
<1> DEFINE pc == call[c].pc
           next == Failing(pc)
<1> USE DEF StorageInv
<1>1. next = IF pc = "fsyncdir" THEN "closedir"
             ELSE IF pc = "cleanup" THEN "leaked"
             ELSE IF pc = "deleting" THEN "undeleted" ELSE "cleanup"
  BY DEF Failing
<1>2. next \in Running \cup Over \cup {"deleting"} /\ next \notin {"read", "write"}
  BY <1>1 DEF Running, Over, ThreadPc
<1>3. Goto(c, next, TRUE) /\ TRUE \in BOOLEAN /\ StorageTypeOK
  BY DEF Cancel
<1> HIDE DEF next
<1>4. /\ \A b \in Calls \ {c} : call'[b] = call[b] /\ thread'[b] = thread[b]
      /\ call'[c].pc = next /\ call'[c].chunks = call[c].chunks
      /\ next \in Running \ {"cleanup"} => call'[c].fd = call[c].fd
      /\ call'[c].sent = IF next \in {"read", "write"} THEN call[c].sent ELSE 0
      /\ call'[c].failing = (TRUE /\ next = "closedir")
      /\ thread'[c] = IF next \in ThreadPc THEN "pending" ELSE "none"
  BY <1>2, <1>3, GotoFacts
<1>5. "closedir" \in Running \ {"cleanup"}
  BY DEF Running, ThreadPc
<1>6. /\ pc \in Running \cup {"deleting"} /\ UNCHANGED <<data, synced, entry, disk>>
      /\ fds' = IF pc \in Writing THEN Closed(call[c].fd) ELSE fds
      /\ \/ strays' = strays
         \/ /\ thread[c] = "pending"
            /\ strays' = strays \cup {[op |-> pc, call |-> c, fd |-> call[c].fd]}
  BY DEF Cancel, ClosesOnCancel, Writing
<1>7. QED
  BY <1>1, <1>2, <1>4, <1>5, <1>6

LEMMA StreamEndsFacts ==
  ASSUME StorageInv, NEW c \in Calls, StreamEnds(c)
  PROVE  /\ At(c, "read") /\ call[c].sent = call[c].chunks
         /\ UNCHANGED <<strays, fds, data, synced, entry, disk>>
         /\ \A b \in Calls \ {c} : call'[b] = call[b] /\ thread'[b] = thread[b]
         /\ call'[c].pc = "fsync" /\ call'[c].sent = 0
         /\ call'[c].chunks = call[c].chunks /\ call'[c].fd = call[c].fd
         /\ thread'[c] = "pending"
<1> USE DEF StorageInv
<1>1. /\ At(c, "read") /\ Goto(c, "fsync", FALSE) /\ StorageTypeOK
      /\ UNCHANGED <<strays, fds, data, synced, entry, disk>>
  BY DEF StreamEnds, EndOfStream
<1>2. call[c].sent = call[c].chunks
  <2>1. call[c].sent \in 0..MaxChunks /\ call[c].chunks \in 0..MaxChunks
    BY <1>1 DEF StorageTypeOK, Call
  <2>2. call[c].sent <= call[c].chunks /\ ~(call[c].sent < call[c].chunks)
    BY DEF StreamEnds, HasNext, ContentInv, ContentOf
  <2>3. QED
    BY <2>1, <2>2, ChunksAssumption
<1>3. "fsync" \in Running \ {"cleanup"} /\ "fsync" \in ThreadPc /\ FALSE \in BOOLEAN
  BY DEF Running, ThreadPc
<1>4. /\ \A b \in Calls \ {c} : call'[b] = call[b] /\ thread'[b] = thread[b]
      /\ call'[c].pc = "fsync" /\ call'[c].sent = 0
      /\ call'[c].chunks = call[c].chunks /\ call'[c].fd = call[c].fd
      /\ thread'[c] = "pending"
  BY <1>1, <1>3, GotoFacts
<1>5. QED
  BY <1>1, <1>2, <1>4

LEMMA StreamRaisesFacts ==
  ASSUME StorageInv, NEW c \in Calls, StreamRaises(c)
  PROVE  /\ At(c, "read") /\ fds' = Closed(call[c].fd)
         /\ UNCHANGED <<strays, data, synced, entry, disk>>
         /\ \A b \in Calls \ {c} : call'[b] = call[b] /\ thread'[b] = thread[b]
         /\ call'[c].pc = "cleanup" /\ call'[c].sent = 0
         /\ call'[c].chunks = call[c].chunks /\ thread'[c] = "pending"
<1> USE DEF StorageInv
<1>1. /\ At(c, "read") /\ Goto(c, "cleanup", TRUE) /\ StorageTypeOK
      /\ fds' = Closed(call[c].fd) /\ UNCHANGED <<strays, data, synced, entry, disk>>
  BY DEF StreamRaises
<1>2. "cleanup" \in Running /\ "cleanup" \in ThreadPc /\ TRUE \in BOOLEAN
  BY DEF Running, ThreadPc
<1>3. QED
  BY <1>1, <1>2, GotoFacts

LEMMA DeleteFacts ==
  ASSUME StorageInv, NEW c \in Calls, Delete(c)
  PROVE  /\ At(c, "saved") \/ At(c, "undeleted")
         /\ UNCHANGED <<strays, fds, data, synced, entry, disk>>
         /\ \A b \in Calls \ {c} : call'[b] = call[b] /\ thread'[b] = thread[b]
         /\ call'[c].pc = "deleting" /\ call'[c].sent = 0
         /\ call'[c].chunks = call[c].chunks /\ thread'[c] = "pending"
<1> USE DEF StorageInv
<1>1. /\ At(c, "saved") \/ At(c, "undeleted")
      /\ Goto(c, "deleting", FALSE) /\ StorageTypeOK
      /\ UNCHANGED <<strays, fds, data, synced, entry, disk>>
  BY DEF Delete
<1>2. "deleting" \in ThreadPc /\ FALSE \in BOOLEAN
  BY DEF ThreadPc
<1>3. QED
  BY <1>1, <1>2, GotoFacts

\* One step of a thread, awaited or not, by its operation.
LEMMA PerformsFacts ==
  ASSUME StorageTypeOK, NEW op \in ThreadPc, NEW c \in Calls, NEW d \in Fds \cup {None},
         NEW ok \in BOOLEAN, Performs(op, c, d, ok), op \in DescriptorOps => d \in Fds
  PROVE  /\ fds' = IF op = "closedir" THEN Closed(d) ELSE fds
         /\ op = "opendir" => ~ok
         /\ IF op = "write" /\ ok
              THEN /\ fds[d] \in Calls
                   /\ \A b \in Calls :
                        /\ data'[b].chunks =
                             data[b].chunks + (IF b = c /\ fds[d] = c THEN 1 ELSE 0)
                        /\ data'[b].foreign =
                             data[b].foreign \cup (IF b = fds[d] /\ b # c THEN {c} ELSE {})
              ELSE data' = data
         /\ IF op = "fsync" /\ ok
              THEN /\ fds[d] \in Calls
                   /\ \A b \in Calls :
                        synced'[b] = IF b = fds[d] THEN data[b].chunks ELSE synced[b]
              ELSE synced' = synced
         /\ \A b \in Calls \ {c} : entry'[b] = entry[b]
         /\ entry'[c] = IF op = "replace" /\ ok THEN "final"
                        ELSE IF op = "cleanup" /\ ok /\ entry[c] = "temp" THEN "none"
                        ELSE IF op = "deleting" /\ ok /\ entry[c] = "final" THEN "none"
                        ELSE entry[c]
         /\ op = "replace" /\ ok => entry[c] = "temp"
         /\ IF op = "fsyncdir" /\ ok
              THEN fds[d] = Dir /\ \A b \in Calls : disk'[b] = {entry[b]}
              ELSE \A b \in Calls :
                     disk'[b] = IF entry'[b] # entry[b] THEN disk[b] \cup {entry'[b]}
                                                        ELSE disk[b]
<1> USE ChunksAssumption, ValuesAssumption DEF StorageTypeOK, DescriptorOps
<1>0. ASSUME NEW name, SetEntry(c, name), entry[c] # name
      PROVE  /\ \A b \in Calls \ {c} : entry'[b] = entry[b]
             /\ entry'[c] = name
             /\ \A b \in Calls :
                  disk'[b] = IF entry'[b] # entry[b] THEN disk[b] \cup {entry'[b]}
                                                     ELSE disk[b]
  BY <1>0 DEF SetEntry
<1>1. CASE op = "write" /\ Write(c, d, ok)
  <2>1. UNCHANGED <<fds, synced, entry, disk>> /\ ok = (fds[d] \in Calls)
    BY <1>1 DEF Write
  <2>2. ASSUME NEW short \in BOOLEAN, ok, fds[d] = c,
               data' = [data EXCEPT ![c].chunks = @ + 1, ![c].short = @ \/ short],
               NEW b \in Calls
        PROVE  /\ data'[b].chunks =
                    data[b].chunks + (IF b = c /\ fds[d] = c THEN 1 ELSE 0)
               /\ data'[b].foreign =
                    data[b].foreign \cup (IF b = fds[d] /\ b # c THEN {c} ELSE {})
    <3>1. data[b] \in Content
      OBVIOUS
    <3>2. CASE b = c
      BY <2>2, <3>1, <3>2 DEF Content
    <3>3. CASE b # c
      BY <2>2, <3>1, <3>3 DEF Content
    <3>4. QED
      BY <3>2, <3>3
  <2>3. ASSUME NEW inode \in Calls, ok, fds[d] = inode, inode # c,
               data' = [data EXCEPT ![inode].foreign = @ \cup {c}],
               NEW b \in Calls
        PROVE  /\ data'[b].chunks =
                    data[b].chunks + (IF b = c /\ fds[d] = c THEN 1 ELSE 0)
               /\ data'[b].foreign =
                    data[b].foreign \cup (IF b = fds[d] /\ b # c THEN {c} ELSE {})
    <3>1. data[b] \in Content
      OBVIOUS
    <3>2. CASE b = inode
      BY <2>3, <3>1, <3>2 DEF Content
    <3>3. CASE b # inode
      BY <2>3, <3>1, <3>3 DEF Content
    <3>4. QED
      BY <3>2, <3>3
  <2>4. \/ ~ok /\ data' = data
        \/ /\ ok /\ fds[d] = c
           /\ \E short \in BOOLEAN :
                data' = [data EXCEPT ![c].chunks = @ + 1, ![c].short = @ \/ short]
        \/ \E inode \in Calls : /\ ok /\ fds[d] = inode /\ inode # c
                                /\ data' = [data EXCEPT ![inode].foreign = @ \cup {c}]
    BY <1>1 DEF Write
  <2>5. IF ok
          THEN /\ fds[d] \in Calls
               /\ \A b \in Calls :
                    /\ data'[b].chunks =
                         data[b].chunks + (IF b = c /\ fds[d] = c THEN 1 ELSE 0)
                    /\ data'[b].foreign =
                         data[b].foreign \cup (IF b = fds[d] /\ b # c THEN {c} ELSE {})
          ELSE data' = data
    BY <2>1, <2>2, <2>3, <2>4
  <2>6. QED
    BY <1>1, <2>1, <2>5
<1>2. CASE op = "fsync" /\ Fsync(d, ok)
  BY <1>2 DEF Fsync
<1>3. CASE op = "replace" /\ Replace(c, ok)
  <2>1. ok => entry[c] = "temp" /\ SetEntry(c, "final")
    BY <1>3 DEF Replace
  <2>2. ~ok => UNCHANGED <<entry, disk>>
    BY <1>3 DEF Replace
  <2>3. UNCHANGED <<fds, data, synced>>
    BY <1>3 DEF Replace
  <2>4. QED
    BY <1>3, <1>0, <2>1, <2>2, <2>3
<1>4. CASE op = "fsyncdir" /\ FsyncDir(d, ok)
  BY <1>4 DEF FsyncDir
<1>5. CASE op = "closedir" /\ CloseDir(d, ok)
  BY <1>5 DEF CloseDir
<1>6. CASE op = "cleanup" /\ ok /\ Unlink(c, "temp")
  <2>1. entry[c] = "temp" => SetEntry(c, "none")
    BY <1>6 DEF Unlink
  <2>2. entry[c] # "temp" => UNCHANGED <<entry, disk>>
    BY <1>6 DEF Unlink
  <2>3. UNCHANGED <<fds, data, synced>>
    BY <1>6 DEF Unlink
  <2>4. QED
    BY <1>6, <1>0, <2>1, <2>2, <2>3
<1>7. CASE op = "deleting" /\ ok /\ Unlink(c, "final")
  <2>1. entry[c] = "final" => SetEntry(c, "none")
    BY <1>7 DEF Unlink
  <2>2. entry[c] # "final" => UNCHANGED <<entry, disk>>
    BY <1>7 DEF Unlink
  <2>3. UNCHANGED <<fds, data, synced>>
    BY <1>7 DEF Unlink
  <2>4. QED
    BY <1>7, <1>0, <2>1, <2>2, <2>3
<1>8. CASE ~ok /\ Fails(op, d)
  BY <1>8 DEF Fails
<1>9. QED
  BY <1>1, <1>2, <1>3, <1>4, <1>5, <1>6, <1>7, <1>8 DEF Performs

LEMMA ThreadRunsFacts ==
  ASSUME StorageInv, NEW c \in Calls, ThreadRuns(c)
  PROVE  /\ thread[c] = "pending" /\ thread'[c] \in {"done", "failed"}
         /\ call[c].pc \in ThreadPc /\ UNCHANGED strays
         /\ \A b \in Calls \ {c} : call'[b] = call[b] /\ thread'[b] = thread[b]
         /\ call'[c].pc = call[c].pc /\ call'[c].chunks = call[c].chunks
         /\ call'[c].sent = call[c].sent /\ call'[c].failing = call[c].failing
         /\ \/ \E op \in ThreadPc, d \in Fds \cup {None}, ok \in BOOLEAN :
                 /\ op = call[c].pc /\ d = call[c].fd
                 /\ thread'[c] = IF ok THEN "done" ELSE "failed"
                 /\ op \in DescriptorOps => d \in Fds
                 /\ Performs(op, c, d, ok) /\ UNCHANGED call
            \/ /\ At(c, "opendir") /\ thread'[c] = "done"
               /\ call'[c].fd \in Fds /\ Free(call'[c].fd)
               /\ fds' = [fds EXCEPT ![call'[c].fd] = Dir]
               /\ UNCHANGED <<data, synced, entry, disk>>
<1> USE DEF StorageInv, StorageTypeOK
<1>0. /\ call[c] \in Call /\ thread[c] = "pending" /\ call[c].pc \in ThreadPc
      /\ UNCHANGED strays
  BY DEF ThreadRuns, ThreadInv
<1>1. call[c].pc \in DescriptorOps => call[c].fd \in Fds
  BY <1>0 DEF DescriptorInv, Writing, Holds, At, DescriptorOps
<1>2. ASSUME NEW ok \in BOOLEAN, Performs(call[c].pc, c, call[c].fd, ok), UNCHANGED call,
             thread' = [thread EXCEPT ![c] = IF ok THEN "done" ELSE "failed"]
      PROVE  /\ thread'[c] \in {"done", "failed"}
             /\ \A b \in Calls \ {c} : call'[b] = call[b] /\ thread'[b] = thread[b]
             /\ thread'[c] = IF ok THEN "done" ELSE "failed"
  BY <1>2
<1>3. ASSUME NEW d \in Fds, At(c, "opendir"), OpenDir(d), call' = [call EXCEPT ![c].fd = d],
             thread' = [thread EXCEPT ![c] = "done"]
      PROVE  /\ thread'[c] = "done" /\ call'[c].fd \in Fds /\ Free(call'[c].fd)
             /\ \A b \in Calls \ {c} : call'[b] = call[b] /\ thread'[b] = thread[b]
             /\ call'[c].pc = call[c].pc /\ call'[c].chunks = call[c].chunks
             /\ call'[c].sent = call[c].sent /\ call'[c].failing = call[c].failing
             /\ fds' = [fds EXCEPT ![call'[c].fd] = Dir]
             /\ UNCHANGED <<data, synced, entry, disk>>
  <2>1. call'[c] = [call[c] EXCEPT !.fd = d] /\ \A b \in Calls \ {c} : call'[b] = call[b]
    BY <1>3
  <2>2. /\ call'[c].pc = call[c].pc /\ call'[c].chunks = call[c].chunks
        /\ call'[c].sent = call[c].sent /\ call'[c].failing = call[c].failing
        /\ call'[c].fd = d
    BY <1>0, <2>1 DEF Call
  <2>3. QED
    BY <1>3, <2>1, <2>2 DEF OpenDir
<1>4. CASE \E ok \in BOOLEAN :
             /\ Performs(call[c].pc, c, call[c].fd, ok)
             /\ thread' = [thread EXCEPT ![c] = IF ok THEN "done" ELSE "failed"]
             /\ UNCHANGED call
  <2>1. call[c].fd \in Fds \cup {None}
    BY <1>0 DEF Call
  <2>2. QED
    BY <1>0, <1>1, <1>2, <1>4, <2>1
<1>5. CASE \E d \in Fds :
             /\ At(c, "opendir") /\ OpenDir(d)
             /\ thread' = [thread EXCEPT ![c] = "done"]
             /\ call' = [call EXCEPT ![c].fd = d]
  BY <1>0, <1>1, <1>3, <1>5
<1>6. QED
  BY <1>4, <1>5 DEF ThreadRuns

LEMMA StrayRunsFacts ==
  ASSUME StorageInv, NEW s \in strays, StrayRuns(s)
  PROVE  /\ s.op \in ThreadPc /\ s.call \in Calls /\ s.fd \in Fds \cup {None}
         /\ s.op \in DescriptorOps => s.fd \in Fds
         /\ UNCHANGED <<call, thread>> /\ strays' = strays \ {s}
         /\ \/ \E ok \in BOOLEAN : Performs(s.op, s.call, s.fd, ok)
            \/ \E d \in Fds : /\ s.op = "opendir" /\ Free(d)
                              /\ fds' = [fds EXCEPT ![d] = Dir]
                              /\ UNCHANGED <<data, synced, entry, disk>>
BY DEF StorageInv, StorageTypeOK, StrayInv, Stray, StrayRuns, OpenDir

LEMMA PowerLossFacts ==
  ASSUME StorageInv, PowerLoss
  PROVE  /\ ProcessGone
         /\ \A c \in Calls :
              /\ entry'[c] \in disk[c] /\ disk'[c] = {entry'[c]}
              /\ synced'[c] \in synced[c]..data[c].chunks
              /\ data'[c].chunks = synced'[c] /\ data'[c].foreign = data[c].foreign
<1> USE DEF StorageInv, StorageTypeOK
<1>1. /\ ProcessGone
      /\ \A c \in Calls :
           /\ entry'[c] \in disk[c] /\ disk'[c] = {entry'[c]}
           /\ synced'[c] \in synced[c]..data[c].chunks
           /\ data'[c] = [data[c] EXCEPT !.chunks = synced'[c]]
  BY DEF PowerLoss
<1>2. \A c \in Calls : data[c] \in Content
  OBVIOUS
<1>3. QED
  BY <1>1, <1>2 DEF Content

-----------------------------------------------------------------------------
(* Each part of the invariant is kept by every step.                       *)

LEMMA ThreadNext == StorageInv /\ [Next]_vars => ThreadInv'
<1> SUFFICES ASSUME StorageInv, [Next]_vars PROVE ThreadInv'
  OBVIOUS
<1> USE DEF ThreadInv
<1>0. ThreadInv
  BY DEF StorageInv
<1>1. ASSUME NEW c \in Calls, NEW n \in 0..MaxChunks, Start(c, n) PROVE ThreadInv'
  BY <1>0, <1>1, StartFacts DEF At, ThreadPc
<1>2. ASSUME NEW c \in Calls, Chunk(c) PROVE ThreadInv'
  BY <1>0, <1>2, ChunkFacts DEF ThreadPc
<1>3. ASSUME NEW c \in Calls, StreamEnds(c) PROVE ThreadInv'
  BY <1>0, <1>3, StreamEndsFacts DEF ThreadPc
<1>4. ASSUME NEW c \in Calls, StreamRaises(c) PROVE ThreadInv'
  BY <1>0, <1>4, StreamRaisesFacts DEF ThreadPc
<1>5. ASSUME NEW c \in Calls, Resume(c) PROVE ThreadInv'
  BY <1>0, <1>5, ResumeFacts
<1>6. ASSUME NEW c \in Calls, ThreadRuns(c) PROVE ThreadInv'
  BY <1>0, <1>6, ThreadRunsFacts
<1>7. ASSUME NEW c \in Calls, Delete(c) PROVE ThreadInv'
  BY <1>0, <1>7, DeleteFacts DEF ThreadPc
<1>8. ASSUME NEW c \in Calls, Cancel(c) PROVE ThreadInv'
  BY <1>0, <1>8, CancelFacts
<1>9. ASSUME NEW s \in strays, StrayRuns(s) PROVE ThreadInv'
  BY <1>0, <1>9, StrayRunsFacts
<1>10. CASE Kill \/ PowerLoss
  BY <1>10, ProcessGoneFacts DEF StorageInv, Kill, PowerLoss
<1>11. CASE UNCHANGED vars
  BY <1>0, <1>11 DEF vars
<1>12. QED
  BY <1>1, <1>2, <1>3, <1>4, <1>5, <1>6, <1>7, <1>8, <1>9, <1>10, <1>11 DEF Next

LEMMA DescriptorNext == StorageInv /\ [Next]_vars => DescriptorInv'
<1> SUFFICES ASSUME StorageInv, [Next]_vars PROVE DescriptorInv'
  OBVIOUS
<1> USE ValuesAssumption DEF DescriptorInv, Holds, Closers, At
<1>0. /\ DescriptorInv /\ ThreadInv /\ fds \in [Fds -> Calls \cup {Dir, None}]
      /\ \A c \in Calls : thread[c] \in {"none", "pending", "done", "failed"}
  BY DEF StorageInv, StorageTypeOK
<1>1. ASSUME NEW c \in Calls, NEW n \in 0..MaxChunks, Start(c, n) PROVE DescriptorInv'
  <2>1. CASE UNCHANGED fds /\ call'[c].pc = "raised"
    BY <1>0, <1>1, <2>1, StartFacts DEF Writing
  <2>2. CASE /\ call'[c].pc = "read" /\ call'[c].fd \in Fds /\ Free(call'[c].fd)
             /\ fds' = [fds EXCEPT ![call'[c].fd] = c]
    BY <1>0, <1>1, <2>2, StartFacts DEF Writing, Free
  <2>3. QED
    BY <1>1, <2>1, <2>2, StartFacts
<1>2. ASSUME NEW c \in Calls, Chunk(c) PROVE DescriptorInv'
  BY <1>0, <1>2, ChunkFacts DEF Writing
<1>3. ASSUME NEW c \in Calls, StreamEnds(c) PROVE DescriptorInv'
  BY <1>0, <1>3, StreamEndsFacts DEF Writing
<1>4. ASSUME NEW c \in Calls, StreamRaises(c) PROVE DescriptorInv'
  BY <1>0, <1>4, StreamRaisesFacts DEF Writing, Closed
<1>5. ASSUME NEW c \in Calls, Resume(c) PROVE DescriptorInv'
  <2>1. CASE call[c].pc \in Writing
    BY <1>0, <1>5, <2>1, ResumeFacts DEF Writing, Closed, Running, ThreadPc
  <2>2. CASE call[c].pc \notin Writing
    BY <1>0, <1>5, <2>2, ResumeFacts DEF Writing, Running, ThreadPc
  <2>3. QED
    BY <2>1, <2>2
<1>6. ASSUME NEW c \in Calls, ThreadRuns(c) PROVE DescriptorInv'
  <2>1. ASSUME NEW op \in ThreadPc, NEW d \in Fds \cup {None}, NEW ok \in BOOLEAN,
               op = call[c].pc, d = call[c].fd,
               thread'[c] = IF ok THEN "done" ELSE "failed",
               op \in DescriptorOps => d \in Fds, Performs(op, c, d, ok), UNCHANGED call
        PROVE  DescriptorInv'
    <3>1. /\ fds' = IF op = "closedir" THEN Closed(d) ELSE fds
          /\ op = "opendir" => ~ok
      <4>1. StorageTypeOK
        BY DEF StorageInv
      <4>2. QED
        BY <2>1, <4>1, PerformsFacts
    <3>2. /\ \A b \in Calls \ {c} : call'[b] = call[b] /\ thread'[b] = thread[b]
          /\ call' = call /\ strays' = strays /\ thread[c] = "pending"
          /\ thread'[c] = "done" => op # "opendir"
          /\ thread'[c] # "pending"
      BY <1>6, <2>1, <3>1, ThreadRunsFacts
    <3>3. CASE op = "closedir"
      <4>1. /\ d \in Fds /\ fds[d] = Dir
            /\ \A b \in Calls \ {c} : Holds(b) => call[b].fd # d
            /\ \A s \in Closers : s.fd # d
        BY <1>0, <2>1, <3>2, <3>3
      <4>2. \A e \in Fds : fds'[e] = IF e = d THEN None ELSE fds[e]
        BY <1>0, <3>1, <3>3, <4>1 DEF Closed
      <4>3. ~Holds(c)'
        BY <2>1, <3>2, <3>3
      <4>4. \A b \in Calls \ {c} : Holds(b)' => Holds(b)
        BY <3>2
      <4> HIDE DEF Holds
      <4>5. QED
        BY <1>0, <3>2, <4>1, <4>2, <4>3, <4>4 DEF Writing
    <3>4. CASE op # "closedir"
      BY <1>0, <2>1, <3>1, <3>2, <3>4 DEF Writing
    <3>5. QED
      BY <3>3, <3>4
  <2>2. CASE /\ At(c, "opendir") /\ thread'[c] = "done"
             /\ call'[c].fd \in Fds /\ Free(call'[c].fd)
             /\ fds' = [fds EXCEPT ![call'[c].fd] = Dir]
    BY <1>0, <1>6, <2>2, ThreadRunsFacts DEF Writing, Free
  <2>3. QED
    BY <1>6, <2>1, <2>2, ThreadRunsFacts
<1>7. ASSUME NEW c \in Calls, Delete(c) PROVE DescriptorInv'
  BY <1>0, <1>7, DeleteFacts DEF Writing
<1>8. ASSUME NEW c \in Calls, Cancel(c) PROVE DescriptorInv'
  <2>1. CASE call[c].pc \in Writing
    BY <1>0, <1>8, <2>1, CancelFacts DEF Writing, Closed
  <2>2. CASE call[c].pc \notin Writing
    BY <1>0, <1>8, <2>2, CancelFacts DEF Writing
  <2>3. QED
    BY <2>1, <2>2
<1>9. ASSUME NEW s \in strays, StrayRuns(s) PROVE DescriptorInv'
  <2>1. ASSUME NEW ok \in BOOLEAN, Performs(s.op, s.call, s.fd, ok) PROVE DescriptorInv'
    <3>1. fds' = IF s.op = "closedir" THEN Closed(s.fd) ELSE fds
      BY <1>9, <2>1, StrayRunsFacts, PerformsFacts DEF StorageInv
    <3>2. QED
      BY <1>0, <1>9, <3>1, StrayRunsFacts DEF Writing, Closed
  <2>2. ASSUME NEW d \in Fds, s.op = "opendir", Free(d), fds' = [fds EXCEPT ![d] = Dir]
        PROVE  DescriptorInv'
    BY <1>0, <1>9, <2>2, StrayRunsFacts DEF Writing, Free
  <2>3. QED
    BY <1>9, <2>1, <2>2, StrayRunsFacts
<1>10. CASE Kill \/ PowerLoss
  BY <1>0, <1>10, ProcessGoneFacts
     DEF StorageInv, Kill, PowerLoss, Writing, Running, ThreadPc, Over
<1>11. CASE UNCHANGED vars
  BY <1>0, <1>11 DEF vars
<1>12. QED
  BY <1>1, <1>2, <1>3, <1>4, <1>5, <1>6, <1>7, <1>8, <1>9, <1>10, <1>11 DEF Next

\* A call that was given up stays so.
LEMMA GivenUpStays ==
  ASSUME StorageInv, [Next]_vars, NEW f \in Calls, call[f].pc \in GivenUp
  PROVE  call'[f].pc \in GivenUp
<1> USE DEF GivenUp, At
<1>1. ASSUME NEW c \in Calls, NEW n \in 0..MaxChunks, Start(c, n)
      PROVE  call'[f].pc \in GivenUp
  BY <1>1, StartFacts
<1>2. ASSUME NEW c \in Calls, Chunk(c) PROVE call'[f].pc \in GivenUp
  BY <1>2, ChunkFacts
<1>3. ASSUME NEW c \in Calls, StreamEnds(c) PROVE call'[f].pc \in GivenUp
  BY <1>3, StreamEndsFacts
<1>4. ASSUME NEW c \in Calls, StreamRaises(c) PROVE call'[f].pc \in GivenUp
  BY <1>4, StreamRaisesFacts
<1>5. ASSUME NEW c \in Calls, Resume(c) PROVE call'[f].pc \in GivenUp
  BY <1>5, ResumeFacts DEF ThreadPc
<1>6. ASSUME NEW c \in Calls, ThreadRuns(c) PROVE call'[f].pc \in GivenUp
  BY <1>6, ThreadRunsFacts
<1>7. ASSUME NEW c \in Calls, Delete(c) PROVE call'[f].pc \in GivenUp
  BY <1>7, DeleteFacts
<1>8. ASSUME NEW c \in Calls, Cancel(c) PROVE call'[f].pc \in GivenUp
  BY <1>8, CancelFacts DEF Running, ThreadPc
<1>9. ASSUME NEW s \in strays, StrayRuns(s) PROVE call'[f].pc \in GivenUp
  BY <1>9, StrayRunsFacts
<1>10. CASE Kill \/ PowerLoss
  BY <1>10, ProcessGoneFacts DEF StorageInv, Kill, PowerLoss
<1>11. CASE UNCHANGED vars
  BY <1>11 DEF vars
<1>12. QED
  BY <1>1, <1>2, <1>3, <1>4, <1>5, <1>6, <1>7, <1>8, <1>9, <1>10, <1>11 DEF Next

LEMMA ContentNext == StorageInv /\ [Next]_vars => ContentInv'
<1> SUFFICES ASSUME StorageInv, [Next]_vars PROVE ContentInv'
  OBVIOUS
<1> USE ChunksAssumption, ValuesAssumption DEF At
<1>0. /\ StorageTypeOK /\ DescriptorInv /\ NameInv /\ StrayInv
      /\ \A b \in Calls :
           /\ ContentOf(b)
           /\ \A f \in data[b].foreign : f \in Calls /\ call[f].pc \in GivenUp
           /\ call[b] \in Call /\ data[b] \in Content /\ synced[b] \in 0..MaxChunks
           /\ call[b].sent \in Nat /\ call[b].chunks \in Nat /\ data[b].chunks \in Nat
           /\ synced[b] \in Nat
  BY DEF StorageInv, StorageTypeOK, ContentInv, Call, Content
\* Where the files do not change, only the call that moved is of interest.
<1>1. ASSUME \A b \in Calls : ContentOf(b)', data' = data PROVE ContentInv'
  BY <1>0, <1>1, GivenUpStays DEF ContentInv
<1>2. ASSUME NEW c \in Calls, UNCHANGED <<data, synced, disk>>,
             \A b \in Calls \ {c} : call'[b] = call[b] /\ thread'[b] = thread[b],
             ContentOf(c)'
      PROVE  ContentInv'
  <2>1. \A b \in Calls \ {c} : ContentOf(b)'
    BY <1>0, <1>2 DEF ContentOf, Complete
  <2>2. QED
    BY <1>1, <1>2, <2>1
<1>3. ASSUME NEW c \in Calls, NEW n \in 0..MaxChunks, Start(c, n) PROVE ContentInv'
  <2>1. UNCHANGED <<data, synced>>
    BY <1>3, StartFacts
  <2>2. ASSUME NEW b \in Calls \ {c} PROVE ContentOf(b)'
    BY <1>0, <1>3, StartFacts DEF ContentOf, Complete
  <2>3. /\ call[c].pc = "idle" /\ call'[c].pc \in {"raised", "read"}
        /\ disk'[c] \subseteq disk[c] \cup {"temp"} /\ call'[c].sent = call[c].sent
        /\ call'[c].chunks \in Nat
    BY <1>0, <1>3, StartFacts
  <2>4. "final" \notin disk'[c] /\ data[c].chunks = 0 /\ call'[c].sent = 0
    BY <1>0, <2>3 DEF NameInv, NameOf, ContentOf
  <2>5. ContentOf(c)'
    BY <1>0, <2>1, <2>3, <2>4 DEF ContentOf
  <2>6. QED
    BY <1>1, <2>1, <2>2, <2>5
<1>4. ASSUME NEW c \in Calls, Chunk(c) PROVE ContentInv'
  <2>1. ContentOf(c)'
    BY <1>0, <1>4, ChunkFacts DEF ContentOf, Complete
  <2>2. QED
    BY <1>2, <1>4, <2>1, ChunkFacts
<1>5. ASSUME NEW c \in Calls, StreamEnds(c) PROVE ContentInv'
  <2>1. ContentOf(c)'
    BY <1>0, <1>5, StreamEndsFacts DEF ContentOf, Complete
  <2>2. QED
    BY <1>2, <1>5, <2>1, StreamEndsFacts
<1>6. ASSUME NEW c \in Calls, StreamRaises(c) PROVE ContentInv'
  <2>1. ContentOf(c)'
    BY <1>0, <1>6, StreamRaisesFacts DEF ContentOf, Complete
  <2>2. QED
    BY <1>2, <1>6, <2>1, StreamRaisesFacts
<1>7. ASSUME NEW c \in Calls, Resume(c) PROVE ContentInv'
  <2>1. ContentOf(c)'
    BY <1>0, <1>7, ResumeFacts DEF ContentOf, Complete, ThreadPc
  <2>2. QED
    BY <1>2, <1>7, <2>1, ResumeFacts
<1>8. ASSUME NEW c \in Calls, Delete(c) PROVE ContentInv'
  <2>1. ContentOf(c)'
    BY <1>0, <1>8, DeleteFacts DEF ContentOf, Complete
  <2>2. QED
    BY <1>2, <1>8, <2>1, DeleteFacts
<1>9. ASSUME NEW c \in Calls, Cancel(c) PROVE ContentInv'
  <2>1. ContentOf(c)'
    BY <1>0, <1>9, CancelFacts DEF ContentOf, Complete, Running, ThreadPc
  <2>2. QED
    BY <1>2, <1>9, <2>1, CancelFacts
\* A step of a thread that c awaits, or of a stray that it left.
<1>10. ASSUME NEW op \in ThreadPc, NEW c \in Calls, NEW d \in Fds \cup {None},
              NEW ok \in BOOLEAN, Performs(op, c, d, ok), op \in DescriptorOps => d \in Fds,
              op = "write" => fds[d] = c \/ call[c].pc \in GivenUp,
              op = "replace" => Complete(c),
              \A b \in Calls :
                /\ call'[b].pc = call[b].pc /\ call'[b].chunks = call[b].chunks
                /\ call'[b].sent = call[b].sent,
              \A b \in Calls \ {c} : thread'[b] = thread[b],
              \/ /\ op = call[c].pc /\ thread[c] # "done"
                 /\ thread'[c] = IF ok THEN "done" ELSE "failed"
                 /\ op \in {"write", "fsync"} => fds[d] = c
              \/ thread'[c] = thread[c] /\ (op = "write" => fds[d] # c)
       PROVE  ContentInv'
  <2>1. /\ IF op = "write" /\ ok
              THEN /\ fds[d] \in Calls
                   /\ \A b \in Calls :
                        /\ data'[b].chunks =
                             data[b].chunks + (IF b = c /\ fds[d] = c THEN 1 ELSE 0)
                        /\ data'[b].foreign =
                             data[b].foreign \cup (IF b = fds[d] /\ b # c THEN {c} ELSE {})
              ELSE data' = data
        /\ IF op = "fsync" /\ ok
              THEN /\ fds[d] \in Calls
                   /\ \A b \in Calls :
                        synced'[b] = IF b = fds[d] THEN data[b].chunks ELSE synced[b]
              ELSE synced' = synced
    BY <1>0, <1>10, PerformsFacts
  <2>2. \A b \in Calls :
          "final" \in disk'[b] => "final" \in disk[b] \/ (b = c /\ op = "replace")
    <3>1. \A b \in Calls : entry'[b] = "final" =>
            entry[b] = "final" \/ (b = c /\ op = "replace")
      BY <1>0, <1>10, PerformsFacts
    <3>2. \A b \in Calls :
            \/ disk'[b] = {entry[b]} \/ disk'[b] = disk[b]
            \/ entry'[b] # entry[b] /\ disk'[b] = disk[b] \cup {entry'[b]}
      <4>1. CASE op = "fsyncdir" /\ ok
        BY <1>0, <1>10, <4>1, PerformsFacts
      <4>2. CASE ~(op = "fsyncdir" /\ ok)
        <5>1. \A b \in Calls :
                disk'[b] = IF entry'[b] # entry[b] THEN disk[b] \cup {entry'[b]} ELSE disk[b]
          <6>1. StorageTypeOK /\ Performs(op, c, d, ok) /\ (op \in DescriptorOps => d \in Fds)
            BY <1>0, <1>10
          <6>2. QED
            BY <4>2, <6>1, PerformsFacts
        <5>2. QED
          BY <5>1
      <4>3. QED
        BY <4>1, <4>2
    <3>3. \A b \in Calls : entry[b] \in disk[b]
      BY <1>0 DEF NameInv, NameOf
    <3>4. QED
      BY <3>1, <3>2, <3>3
  <2>3. \A b \in Calls : \A f \in data'[b].foreign : call'[f].pc \in GivenUp
    BY <1>0, <1>10, <2>1
  <2>4. ASSUME NEW b \in Calls, b # c PROVE ContentOf(b)'
    <3>1. /\ thread'[b] = thread[b] /\ data'[b].chunks = data[b].chunks
          /\ synced'[b] \in {synced[b], data[b].chunks}
          /\ "final" \in disk'[b] => "final" \in disk[b]
      BY <1>0, <1>10, <2>1, <2>2, <2>4
    <3>2. QED
      BY <1>0, <1>10, <3>1 DEF ContentOf, Complete
  <2>5. ContentOf(c)'
    <3>1. synced'[c] \in {synced[c], data[c].chunks}
      BY <2>1
    <3>2. CASE /\ op = call[c].pc /\ thread[c] # "done"
               /\ thread'[c] = IF ok THEN "done" ELSE "failed"
               /\ op \in {"write", "fsync"} => fds[d] = c
      <4>1. data'[c].chunks = data[c].chunks + (IF op = "write" /\ ok THEN 1 ELSE 0)
        BY <1>0, <2>1, <3>2
      <4>2. op = "fsync" /\ ok => synced'[c] = data[c].chunks
        BY <2>1, <3>2
      <4>3. "final" \in disk[c] => op # "write"
        BY <1>0, <3>2 DEF NameInv, NameOf, Writing
      <4>4. QED
        BY <1>0, <1>10, <2>2, <3>1, <3>2, <4>1, <4>2, <4>3 DEF ContentOf, Complete
    <3>3. CASE thread'[c] = thread[c] /\ (op = "write" => fds[d] # c)
      <4>1. data'[c].chunks = data[c].chunks
        BY <1>0, <2>1, <3>3
      <4>2. QED
        BY <1>0, <1>10, <2>2, <3>1, <3>3, <4>1 DEF ContentOf, Complete
    <3>4. QED
      BY <1>10, <3>2, <3>3
  <2>6. QED
    BY <2>3, <2>4, <2>5 DEF ContentInv
<1>11. ASSUME NEW c \in Calls, ThreadRuns(c) PROVE ContentInv'
  <2>1. ASSUME NEW op \in ThreadPc, NEW d \in Fds \cup {None}, NEW ok \in BOOLEAN,
               op = call[c].pc, d = call[c].fd,
               thread'[c] = IF ok THEN "done" ELSE "failed",
               op \in DescriptorOps => d \in Fds, Performs(op, c, d, ok), UNCHANGED call
        PROVE  ContentInv'
    <3>1. op \in {"write", "fsync"} => fds[d] = c
      BY <1>0, <2>1 DEF DescriptorInv, Writing
    <3>2. op = "replace" => Complete(c)
      BY <1>0, <2>1 DEF ContentOf
    <3>3. /\ thread[c] # "done"
          /\ \A b \in Calls \ {c} : thread'[b] = thread[b]
      BY <1>11, ThreadRunsFacts
    <3>4. QED
      BY <1>10, <2>1, <3>1, <3>2, <3>3
  <2>2. CASE At(c, "opendir") /\ UNCHANGED <<data, synced, entry, disk>>
    <3>1. ContentOf(c)'
      BY <1>0, <1>11, <2>2, ThreadRunsFacts DEF ContentOf, Complete
    <3>2. QED
      BY <1>2, <1>11, <2>2, <3>1, ThreadRunsFacts
  <2>3. QED
    BY <1>11, <2>1, <2>2, ThreadRunsFacts
<1>12. ASSUME NEW s \in strays, StrayRuns(s) PROVE ContentInv'
  <2>1. /\ s.op \in ThreadPc /\ s.call \in Calls /\ s.fd \in Fds \cup {None}
        /\ s.op \in DescriptorOps => s.fd \in Fds
        /\ UNCHANGED <<call, thread>>
    BY <1>12, StrayRunsFacts
  <2>2. ASSUME NEW ok \in BOOLEAN, Performs(s.op, s.call, s.fd, ok) PROVE ContentInv'
    <3>1. /\ s.op = "write" => call[s.call].pc \in GivenUp
          /\ s.op = "replace" => Complete(s.call)
      BY <1>0 DEF StrayInv, GivenUp
    <3>2. s.op = "write" => fds[s.fd] # s.call
      BY <1>0, <2>1, <3>1 DEF DescriptorInv, Writing, DescriptorOps, GivenUp
    <3>3. QED
      BY <1>10, <2>1, <2>2, <3>1, <3>2
  <2>3. CASE UNCHANGED <<data, synced, entry, disk>>
    BY <1>0, <1>1, <2>1, <2>3 DEF ContentOf, Complete
  <2>4. QED
    BY <1>12, <2>2, <2>3, StrayRunsFacts
<1>13. CASE Kill \/ PowerLoss
  <2>1. ProcessGone
    BY <1>13 DEF Kill, PowerLoss
  <2>2. \A b \in Calls :
          /\ call'[b].chunks = call[b].chunks
          /\ call'[b].sent \in Nat /\ call'[b].sent <= call[b].sent
          /\ call'[b].pc \notin Running
          /\ call'[b].pc = "idle" => call[b].pc = "idle"
    <3>1. call' \in [Calls -> Call]
      BY <1>0, <2>1, ProcessGoneFacts
    <3>2. \A b \in Calls : call'[b].sent \in Nat
      BY <3>1 DEF Call
    <3>3. QED
      BY <1>0, <2>1, <3>2, ProcessGoneFacts DEF Running, ThreadPc
  <2>3. \A b \in Calls :
          /\ synced'[b] \in Nat /\ data'[b].chunks \in Nat
          /\ synced[b] <= synced'[b] /\ synced'[b] <= data'[b].chunks
          /\ data'[b].chunks <= data[b].chunks /\ data'[b].foreign = data[b].foreign
          /\ "final" \in disk'[b] => "final" \in disk[b]
    <3>1. CASE Kill
      BY <1>0, <3>1 DEF Kill, ContentOf
    <3>2. CASE PowerLoss
      BY <1>0, <3>2, PowerLossFacts
    <3>3. QED
      BY <1>13, <3>1, <3>2
  <2>4. ASSUME NEW b \in Calls PROVE ContentOf(b)'
    BY <1>0, <2>2, <2>3 DEF ContentOf, Complete, Running, ThreadPc
  <2>5. QED
    BY <1>0, <2>3, <2>4, GivenUpStays DEF ContentInv
<1>14. CASE UNCHANGED vars
  BY <1>0, <1>1, <1>14 DEF vars, ContentOf, Complete
<1>15. QED
  BY <1>3, <1>4, <1>5, <1>6, <1>7, <1>8, <1>9, <1>11, <1>12, <1>13, <1>14 DEF Next

LEMMA NameNext == StorageInv /\ [Next]_vars => NameInv'
<1> SUFFICES ASSUME StorageInv, [Next]_vars PROVE NameInv'
  OBVIOUS
<1> USE DEF At
<1>0. /\ StorageTypeOK /\ StrayInv
      /\ \A b \in Calls : NameOf(b) /\ call[b].failing \in BOOLEAN
  BY DEF StorageInv, StorageTypeOK, NameInv, Call
\* Where the directory does not change, only the call that moved is of interest.
<1>1. ASSUME NEW c \in Calls, UNCHANGED <<entry, disk>>,
             \A b \in Calls \ {c} : call'[b] = call[b] /\ thread'[b] = thread[b],
             NameOf(c)'
      PROVE  NameInv'
  <2>1. \A b \in Calls \ {c} : NameOf(b)'
    BY <1>0, <1>1 DEF NameOf, Renamed, Settled
  <2>2. QED
    BY <1>1, <2>1 DEF NameInv
<1>2. ASSUME NEW c \in Calls, NEW n \in 0..MaxChunks, Start(c, n) PROVE NameInv'
  <2>1. ASSUME NEW b \in Calls \ {c} PROVE NameOf(b)'
    BY <1>0, <1>2, StartFacts DEF NameOf, Renamed, Settled
  <2>2. NameOf(c)'
    BY <1>0, <1>2, StartFacts DEF NameOf, Renamed, Settled, Writing, Announced
  <2>3. QED
    BY <2>1, <2>2 DEF NameInv
<1>3. ASSUME NEW c \in Calls, Chunk(c) PROVE NameInv'
  <2>1. NameOf(c)'
    BY <1>0, <1>3, ChunkFacts DEF NameOf, Renamed, Settled, Writing, Announced
  <2>2. QED
    BY <1>1, <1>3, <2>1, ChunkFacts
<1>4. ASSUME NEW c \in Calls, StreamEnds(c) PROVE NameInv'
  <2>1. NameOf(c)'
    BY <1>0, <1>4, StreamEndsFacts DEF NameOf, Renamed, Settled, Writing, Announced
  <2>2. QED
    BY <1>1, <1>4, <2>1, StreamEndsFacts
<1>5. ASSUME NEW c \in Calls, StreamRaises(c) PROVE NameInv'
  <2>1. NameOf(c)'
    BY <1>0, <1>5, StreamRaisesFacts DEF NameOf, Renamed, Settled, Writing, Announced
  <2>2. QED
    BY <1>1, <1>5, <2>1, StreamRaisesFacts
<1>6. ASSUME NEW c \in Calls, Resume(c) PROVE NameInv'
  <2>1. NameOf(c)'
    BY <1>0, <1>6, ResumeFacts DEF NameOf, Renamed, Settled, Writing, Announced, ThreadPc
  <2>2. QED
    BY <1>1, <1>6, <2>1, ResumeFacts
<1>7. ASSUME NEW c \in Calls, Delete(c) PROVE NameInv'
  <2>1. NameOf(c)'
    BY <1>0, <1>7, DeleteFacts DEF NameOf, Renamed, Settled, Writing, Announced
  <2>2. QED
    BY <1>1, <1>7, <2>1, DeleteFacts
<1>8. ASSUME NEW c \in Calls, Cancel(c) PROVE NameInv'
  <2>1. NameOf(c)'
    BY <1>0, <1>8, CancelFacts
       DEF NameOf, Renamed, Settled, Writing, Announced, Running, ThreadPc
  <2>2. QED
    BY <1>1, <1>8, <2>1, CancelFacts
\* A step of a thread that c awaits, or of a stray that it left.
<1>9. ASSUME NEW op \in ThreadPc, NEW c \in Calls, NEW d \in Fds \cup {None},
             NEW ok \in BOOLEAN, Performs(op, c, d, ok), op \in DescriptorOps => d \in Fds,
             call' = call, \A b \in Calls \ {c} : thread'[b] = thread[b],
             \/ /\ op = call[c].pc /\ thread[c] = "pending"
                /\ thread'[c] = IF ok THEN "done" ELSE "failed"
             \/ /\ thread'[c] = thread[c]
                /\ op \in {"replace", "cleanup"} =>
                     call[c].pc \in {"cleanup", "raised", "leaked"}
                /\ op = "deleting" => call[c].pc \in {"deleting", "undeleted", "deleted"}
      PROVE  NameInv'
  <2>1. StorageTypeOK /\ Performs(op, c, d, ok) /\ (op \in DescriptorOps => d \in Fds)
    BY <1>0, <1>9
  <2>2. /\ \A b \in Calls \ {c} : entry'[b] = entry[b]
        /\ entry'[c] = IF op = "replace" /\ ok THEN "final"
                       ELSE IF op = "cleanup" /\ ok /\ entry[c] = "temp" THEN "none"
                       ELSE IF op = "deleting" /\ ok /\ entry[c] = "final" THEN "none"
                       ELSE entry[c]
        /\ op = "replace" /\ ok => entry[c] = "temp"
    BY <2>1, PerformsFacts
  <2>3. CASE op = "fsyncdir" /\ ok
    <3>1. entry' = entry /\ \A b \in Calls : disk'[b] = {entry[b]}
      <4>1. entry' = entry
        BY <2>1, <2>3 DEF Performs, Write, Fsync, Replace, FsyncDir, CloseDir, Unlink, Fails
      <4>2. QED
        BY <2>1, <2>3, <4>1, PerformsFacts
    <3>2. ASSUME NEW b \in Calls PROVE NameOf(b)'
      BY <1>0, <1>9, <2>3, <3>1, <3>2 DEF NameOf, Renamed, Settled, Writing
    <3>3. QED
      BY <3>2 DEF NameInv
  <2>4. CASE ~(op = "fsyncdir" /\ ok)
    <3>1. \A b \in Calls :
            disk'[b] = IF entry'[b] # entry[b] THEN disk[b] \cup {entry'[b]} ELSE disk[b]
      BY <2>1, <2>4, PerformsFacts
    <3>2. ASSUME NEW b \in Calls \ {c} PROVE NameOf(b)'
      BY <1>0, <1>9, <2>2, <3>1, <3>2 DEF NameOf, Renamed, Settled
    <3>3. NameOf(c)'
      <4>1. CASE entry'[c] = entry[c]
        BY <1>0, <1>9, <2>2, <2>4, <3>1, <4>1 DEF NameOf, Renamed, Settled, Writing, Announced
      <4>2. CASE entry'[c] # entry[c]
        BY <1>0, <1>9, <2>2, <3>1, <4>2 DEF NameOf, Renamed, Settled, Writing, Announced
      <4>3. QED
        BY <4>1, <4>2
    <3>4. QED
      BY <3>2, <3>3 DEF NameInv
  <2>5. QED
    BY <2>3, <2>4
<1>10. ASSUME NEW c \in Calls, ThreadRuns(c) PROVE NameInv'
  <2>1. ASSUME NEW op \in ThreadPc, NEW d \in Fds \cup {None}, NEW ok \in BOOLEAN,
               op = call[c].pc, d = call[c].fd,
               thread'[c] = IF ok THEN "done" ELSE "failed",
               op \in DescriptorOps => d \in Fds, Performs(op, c, d, ok), UNCHANGED call
        PROVE  NameInv'
    <3>1. thread[c] = "pending" /\ \A b \in Calls \ {c} : thread'[b] = thread[b]
      BY <1>10, ThreadRunsFacts
    <3>2. QED
      BY <1>9, <2>1, <3>1
  <2>2. CASE At(c, "opendir") /\ UNCHANGED <<data, synced, entry, disk>>
    <3>1. NameOf(c)'
      BY <1>0, <1>10, <2>2, ThreadRunsFacts DEF NameOf, Renamed, Settled, Writing
    <3>2. QED
      BY <1>1, <1>10, <2>2, <3>1, ThreadRunsFacts
  <2>3. QED
    BY <1>10, <2>1, <2>2, ThreadRunsFacts
<1>11. ASSUME NEW s \in strays, StrayRuns(s) PROVE NameInv'
  <2>1. /\ s.op \in ThreadPc /\ s.call \in Calls /\ s.fd \in Fds \cup {None}
        /\ s.op \in DescriptorOps => s.fd \in Fds
        /\ UNCHANGED <<call, thread>>
    BY <1>11, StrayRunsFacts
  <2>2. ASSUME NEW ok \in BOOLEAN, Performs(s.op, s.call, s.fd, ok) PROVE NameInv'
    <3>1. /\ s.op \in {"replace", "cleanup"} =>
               call[s.call].pc \in {"cleanup", "raised", "leaked"}
          /\ s.op = "deleting" => call[s.call].pc \in {"deleting", "undeleted", "deleted"}
      BY <1>0 DEF StrayInv
    <3>2. QED
      BY <1>9, <2>1, <2>2, <3>1
  <2>3. CASE UNCHANGED <<data, synced, entry, disk>>
    BY <1>0, <2>1, <2>3 DEF NameInv, NameOf, Renamed, Settled
  <2>4. QED
    BY <1>11, <2>2, <2>3, StrayRunsFacts
<1>12. CASE Kill \/ PowerLoss
  <2>1. ProcessGone
    BY <1>12 DEF Kill, PowerLoss
  <2>2. \A b \in Calls : /\ call'[b].pc = IF call[b].pc \in Running THEN "lost"
                                         ELSE IF At(b, "deleting") THEN "undeleted"
                                         ELSE call[b].pc
                         /\ thread'[b] = "none"
    BY <1>0, <2>1, ProcessGoneFacts
  <2>3. ASSUME NEW b \in Calls PROVE NameOf(b)'
    <3>1. CASE Kill
      BY <1>0, <2>2, <3>1 DEF Kill, NameOf, Renamed, Settled, Writing, Announced,
                              Running, ThreadPc
    <3>2. CASE PowerLoss
      <4>1. entry'[b] \in disk[b] /\ disk'[b] = {entry'[b]}
        BY <3>2, PowerLossFacts
      <4>2. QED
        BY <1>0, <2>2, <4>1 DEF NameOf, Renamed, Settled, Writing, Announced,
                                Running, ThreadPc
    <3>3. QED
      BY <1>12, <3>1, <3>2
  <2>4. QED
    BY <2>3 DEF NameInv
<1>13. CASE UNCHANGED vars
  BY <1>0, <1>13 DEF vars, NameInv, NameOf, Renamed, Settled
<1>14. QED
  BY <1>2, <1>3, <1>4, <1>5, <1>6, <1>7, <1>8, <1>10, <1>11, <1>12, <1>13 DEF Next

LEMMA StrayNext == StorageInv /\ [Next]_vars => StrayInv'
<1> SUFFICES ASSUME StorageInv, [Next]_vars PROVE StrayInv'
  OBVIOUS
<1> USE DEF At
<1> DEFINE Left(s) ==
      /\ s.op = "deleting" => \/ call[s.call].pc \in {"undeleted", "deleting"}
                              \/ At(s.call, "deleted") /\ entry[s.call] # "final"
      /\ s.op # "deleting" =>
           \/ call[s.call].pc \in {"cleanup", "raised", "leaked"}
           \/ At(s.call, "closedir") /\ call[s.call].failing /\ s.op = "fsyncdir"
      /\ s.op = "replace" => Complete(s.call)
      /\ s.op \in DescriptorOps => s.fd \in Fds
<1>0. /\ StorageTypeOK /\ DescriptorInv /\ ContentInv /\ NameInv
      /\ \A s \in strays : Left(s) /\ s.call \in Calls /\ s.op \in ThreadPc
  BY DEF StorageInv, StrayInv, StorageTypeOK, Stray
<1>1. ASSUME \A s \in strays' : Left(s)' PROVE StrayInv'
  BY <1>1 DEF StrayInv
<1>2. ASSUME NEW c \in Calls, NEW n \in 0..MaxChunks, Start(c, n) PROVE StrayInv'
  <2>1. \A s \in strays : s.call # c
    BY <1>0, <1>2, StartFacts
  <2>2. QED
    BY <1>0, <1>1, <1>2, <2>1, StartFacts DEF Complete
\* Where the files do not change, only the strays of the call that moved are of
\* interest; it has some only if it was given up or is deleting.
<1>3. ASSUME NEW c \in Calls, UNCHANGED <<strays, data, synced, entry, disk>>,
             \A b \in Calls \ {c} : call'[b] = call[b],
             call'[c].chunks = call[c].chunks,
             \A s \in strays : s.call = c =>
               \/ s.op = "deleting" /\ call'[c].pc \in {"undeleted", "deleting"}
               \/ s.op = "deleting" /\ call'[c].pc = "deleted" /\ entry[c] # "final"
               \/ s.op # "deleting" /\ call'[c].pc \in {"cleanup", "raised", "leaked"}
      PROVE  StrayInv'
  <2>1. ASSUME NEW s \in strays PROVE Left(s)'
    <3>1. Complete(s.call) => Complete(s.call)'
      BY <1>0, <1>3 DEF Complete
    <3>2. CASE s.call # c
      BY <1>0, <1>3, <3>1, <3>2
    <3>3. CASE s.call = c
      BY <1>0, <1>3, <3>1, <3>3
    <3>4. QED
      BY <3>2, <3>3
  <2>2. QED
    BY <1>1, <1>3, <2>1
<1>4. ASSUME NEW c \in Calls, Chunk(c) \/ StreamEnds(c) \/ StreamRaises(c)
      PROVE  StrayInv'
  <2>1. At(c, "read") /\ UNCHANGED <<strays, data, synced, entry, disk>>
        /\ call'[c].chunks = call[c].chunks
        /\ \A b \in Calls \ {c} : call'[b] = call[b]
    BY <1>4, ChunkFacts, StreamEndsFacts, StreamRaisesFacts
  <2>2. \A s \in strays : s.call # c
    BY <1>0, <2>1
  <2>3. QED
    BY <1>3, <2>1, <2>2
<1>5. ASSUME NEW c \in Calls, Delete(c) PROVE StrayInv'
  <2>1. \A s \in strays : s.call = c => s.op = "deleting"
    BY <1>0, <1>5, DeleteFacts
  <2>2. QED
    BY <1>3, <1>5, <2>1, DeleteFacts
<1>6. ASSUME NEW c \in Calls, Resume(c) PROVE StrayInv'
  <2>1. /\ UNCHANGED <<strays, data, synced, entry, disk>>
        /\ \A b \in Calls \ {c} : call'[b] = call[b]
        /\ call'[c].chunks = call[c].chunks
    BY <1>6, ResumeFacts
  <2>2. /\ At(c, "deleting") => \/ call'[c].pc = "undeleted"
                                \/ call'[c].pc = "deleted" /\ entry[c] # "final"
        /\ At(c, "closedir") /\ call[c].failing => call'[c].pc = "cleanup"
        /\ At(c, "cleanup") => call'[c].pc \in {"raised", "leaked"}
        /\ call[c].pc \in ThreadPc
    <3>1. call[c].pc = "deleting" /\ thread[c] = "done" => entry[c] # "final"
      BY <1>0 DEF NameInv, NameOf
    <3>2. /\ call[c].pc = "deleting" =>
               call'[c].pc = IF thread[c] = "done" THEN "deleted" ELSE "undeleted"
          /\ call[c].pc = "closedir" =>
               call'[c].pc = IF thread[c] = "done" /\ ~call[c].failing THEN "saved"
                                                                      ELSE "cleanup"
          /\ call[c].pc = "cleanup" =>
               call'[c].pc = IF thread[c] = "done" THEN "raised" ELSE "leaked"
          /\ call[c].pc \in ThreadPc
      BY <1>6, ResumeFacts
    <3>3. QED
      BY <3>1, <3>2
  <2>3. ASSUME NEW s \in strays, s.call = c
        PROVE  \/ s.op = "deleting" /\ call'[c].pc \in {"undeleted", "deleting"}
               \/ s.op = "deleting" /\ call'[c].pc = "deleted" /\ entry[c] # "final"
               \/ s.op # "deleting" /\ call'[c].pc \in {"cleanup", "raised", "leaked"}
    <3>1. /\ s.op = "deleting" => At(c, "deleting")
          /\ s.op # "deleting" => At(c, "cleanup") \/ (At(c, "closedir") /\ call[c].failing)
      BY <1>0, <2>2, <2>3 DEF ThreadPc
    <3>2. QED
      BY <2>2, <3>1
  <2>4. QED
    BY <1>3, <2>1, <2>3
<1>7. ASSUME NEW c \in Calls, Cancel(c) PROVE StrayInv'
  <2>1. ASSUME NEW s \in strays PROVE Left(s)'
    <3>1. UNCHANGED <<data, synced, entry>> /\ call'[s.call].chunks = call[s.call].chunks
      BY <1>0, <1>7, CancelFacts
    <3>2. CASE s.call # c
      BY <1>0, <1>7, <3>1, <3>2, CancelFacts DEF Complete
    <3>3. CASE s.call = c
      <4>1. Complete(c) => Complete(c)'
        BY <3>1, <3>3 DEF Complete
      <4>2. call'[c].pc = IF call[c].pc = "fsyncdir" THEN "closedir"
                          ELSE IF call[c].pc = "cleanup" THEN "leaked"
                          ELSE IF call[c].pc = "deleting" THEN "undeleted" ELSE "cleanup"
        BY <1>7, CancelFacts
      <4>3. call[c].pc \in Running \cup {"deleting"}
        BY <1>7, CancelFacts
      <4>4. /\ s.op = "deleting" => At(c, "deleting")
            /\ s.op # "deleting" =>
                 At(c, "cleanup") \/ (At(c, "closedir") /\ call[c].failing)
        BY <1>0, <3>3, <4>3 DEF Running, ThreadPc
      <4>5. QED
        BY <1>0, <3>3, <4>1, <4>2, <4>4
    <3>4. QED
      BY <3>2, <3>3
  <2>2. ASSUME NEW s, thread[c] = "pending", s = [op |-> call[c].pc, call |-> c, fd |-> call[c].fd]
        PROVE  Left(s)'
    <3>1. s.op = call[c].pc /\ s.call = c /\ s.fd = call[c].fd
      BY <2>2
    <3>2. s.op \in DescriptorOps => s.fd \in Fds
      BY <1>0, <2>2, <3>1 DEF DescriptorInv, Writing, Holds, DescriptorOps
    <3>3. s.op = "replace" => Complete(c)
      BY <1>0, <3>1 DEF ContentInv, ContentOf
    <3>4. QED
      BY <1>7, <3>1, <3>2, <3>3, CancelFacts DEF Complete, Running, ThreadPc
  <2>3. QED
    BY <1>1, <1>7, <2>1, <2>2, CancelFacts
\* A step of a thread that c awaits, or of a stray that it left.
<1>8. ASSUME NEW op \in ThreadPc, NEW c \in Calls, NEW d \in Fds \cup {None},
             NEW ok \in BOOLEAN, Performs(op, c, d, ok), op \in DescriptorOps => d \in Fds,
             call' = call, strays' \subseteq strays,
             op \in {"write", "replace"} => ~At(c, "deleted"),
             op = "write" => fds[d] # c \/ call[c].pc = "write"
      PROVE  StrayInv'
  <2>1. StorageTypeOK /\ Performs(op, c, d, ok) /\ (op \in DescriptorOps => d \in Fds)
    BY <1>0, <1>8
  <2>2. \A b \in Calls : entry'[b] = "final" => entry[b] = "final" \/ (b = c /\ op = "replace")
    BY <2>1, PerformsFacts
  <2>3. \A b \in Calls : /\ synced'[b] \in {synced[b], data[b].chunks}
                         /\ data'[b].chunks # data[b].chunks => b = c /\ call[c].pc = "write"
    <3>1. \A b \in Calls : data[b].chunks \in Nat
      BY <1>0, ChunksAssumption DEF StorageTypeOK, Content
    <3>2. QED
      BY <1>8, <2>1, <3>1, PerformsFacts
  <2>4. ASSUME NEW s \in strays PROVE Left(s)'
    BY <1>0, <1>8, <2>2, <2>3 DEF Complete
  <2>5. QED
    BY <1>1, <1>8, <2>4
<1>9. ASSUME NEW c \in Calls, ThreadRuns(c) PROVE StrayInv'
  <2>1. ASSUME NEW op \in ThreadPc, NEW d \in Fds \cup {None}, NEW ok \in BOOLEAN,
               op = call[c].pc, d = call[c].fd,
               thread'[c] = IF ok THEN "done" ELSE "failed",
               op \in DescriptorOps => d \in Fds, Performs(op, c, d, ok), UNCHANGED call
        PROVE  StrayInv'
    <3>1. strays' = strays
      BY <1>9, ThreadRunsFacts
    <3>2. QED
      BY <1>8, <2>1, <3>1
  <2>2. CASE At(c, "opendir") /\ UNCHANGED <<data, synced, entry, disk>>
    <3>1. \A s \in strays : s.call # c
      BY <1>0, <2>2
    <3>2. QED
      BY <1>3, <1>9, <2>2, <3>1, ThreadRunsFacts
  <2>3. QED
    BY <1>9, <2>1, <2>2, ThreadRunsFacts
<1>10. ASSUME NEW s \in strays, StrayRuns(s) PROVE StrayInv'
  <2>1. /\ s.op \in ThreadPc /\ s.call \in Calls /\ s.fd \in Fds \cup {None}
        /\ s.op \in DescriptorOps => s.fd \in Fds
        /\ UNCHANGED <<call, thread>> /\ strays' = strays \ {s}
    BY <1>10, StrayRunsFacts
  <2>2. ASSUME NEW ok \in BOOLEAN, Performs(s.op, s.call, s.fd, ok) PROVE StrayInv'
    <3>1. /\ s.op \in {"write", "replace"} => ~At(s.call, "deleted")
          /\ s.op = "write" => fds[s.fd] # s.call \/ call[s.call].pc = "write"
      BY <1>0, <2>1 DEF DescriptorInv, Writing, DescriptorOps
    <3>2. QED
      BY <1>8, <2>1, <2>2, <3>1
  <2>3. CASE UNCHANGED <<data, synced, entry, disk>>
    BY <1>0, <1>1, <2>1, <2>3 DEF Complete
  <2>4. QED
    BY <1>10, <2>2, <2>3, StrayRunsFacts
<1>11. CASE Kill \/ PowerLoss
  BY <1>0, <1>11, ProcessGoneFacts DEF Kill, PowerLoss, StrayInv
<1>12. CASE UNCHANGED vars
  BY <1>0, <1>1, <1>12 DEF vars, Complete
<1>13. QED
  BY <1>2, <1>4, <1>5, <1>6, <1>7, <1>9, <1>10, <1>11, <1>12 DEF Next

-----------------------------------------------------------------------------
(* Theorems.                                                               *)

\* The inductive invariant: what the calls, their threads and strays, the
\* descriptors, the files and the directory have to do with each other.
THEOREM StorageInductive == Spec => []StorageInv
<1>1. StorageInv /\ [Next]_vars => StorageInv'
  BY TypeNext, ThreadNext, DescriptorNext, ContentNext, NameNext, StrayNext DEF StorageInv
<1>2. QED
  BY <1>1, StorageInit, PTL DEF Spec

\* The variables of save_stream and delete, their threads and what they leave
\* on the disk have their types.
THEOREM StorageTypes == Spec => []StorageTypeOK
<1>1. StorageInv => StorageTypeOK
  BY DEF StorageInv
<1>2. QED
  BY <1>1, StorageInductive, PTL

\* Nobody closes the descriptor a call of save_stream still uses, or gets the
\* same number, however its uploads are cancelled.
THEOREM DescriptorsAreOwn == Spec => []OwnDescriptor
<1>1. StorageInv => OwnDescriptor
  BY DEF StorageInv, DescriptorInv, OwnDescriptor, UsesDirectory, Holds, Writing
<1>2. QED
  BY <1>1, StorageInductive, PTL

\* os.replace publishes a complete file, and no write of another upload that
\* goes astray comes between the chunks of one that succeeds unless that other
\* upload is being given up.
THEOREM FinalNamesAreComplete == Spec => []FinalHasEveryChunk
<1>1. StorageInv => FinalHasEveryChunk
  BY DEF StorageInv, ContentInv, ContentOf, NameInv, NameOf, Complete, GivenUp,
         FinalHasEveryChunk
<1>2. QED
  BY <1>1, StorageInductive, PTL

\* What save_stream has returned survives crashes, power losses and all other
\* calls until delete is called for it.
THEOREM SavedBlobsAreDurable == Spec => []SavedIsDurable
<1>1. StorageInv => SavedIsDurable
  BY DEF StorageInv, NameInv, NameOf, Renamed, Settled, At, SavedIsDurable
<1>2. QED
  BY <1>1, StorageInductive, PTL

\* The except clause of save_stream unlinks the temporary name before the
\* exception gets out.
THEOREM RaisedUnlinks == Spec => RaisedLeavesNoTemp
<1> DEFINE Raises == \A c \in Calls :
      ~At(c, "raised") /\ call'[c].pc = "raised" => entry'[c] # "temp"
<1>1. StorageInv /\ [Next]_vars => Raises
  <2> SUFFICES ASSUME StorageInv, [Next]_vars,
                      NEW c \in Calls, ~At(c, "raised"), call'[c].pc = "raised"
               PROVE  entry'[c] # "temp"
    OBVIOUS
  <2> USE DEF At
  <2>0. NameOf(c)
    BY DEF StorageInv, NameInv
  <2>1. ASSUME NEW b \in Calls, NEW n \in 0..MaxChunks, Start(b, n) PROVE entry'[c] # "temp"
    BY <2>0, <2>1, StartFacts DEF NameOf
  <2>2. ASSUME NEW b \in Calls, Chunk(b) \/ StreamEnds(b) \/ StreamRaises(b) \/ Delete(b)
        PROVE  entry'[c] # "temp"
    BY <2>2, ChunkFacts, StreamEndsFacts, StreamRaisesFacts, DeleteFacts
  <2>3. ASSUME NEW b \in Calls, Resume(b) PROVE entry'[c] # "temp"
    BY <2>0, <2>3, ResumeFacts DEF NameOf, ThreadPc
  <2>4. ASSUME NEW b \in Calls, ThreadRuns(b) PROVE entry'[c] # "temp"
    BY <2>4, ThreadRunsFacts
  <2>5. ASSUME NEW b \in Calls, Cancel(b) PROVE entry'[c] # "temp"
    BY <2>5, CancelFacts
  <2>6. ASSUME NEW s \in strays, StrayRuns(s) PROVE entry'[c] # "temp"
    BY <2>6, StrayRunsFacts
  <2>7. CASE Kill \/ PowerLoss
    BY <2>7, ProcessGoneFacts DEF StorageInv, Kill, PowerLoss, Running
  <2>8. CASE UNCHANGED vars
    BY <2>8 DEF vars
  <2>9. QED
    BY <2>1, <2>2, <2>3, <2>4, <2>5, <2>6, <2>7, <2>8 DEF Next
<1>2. QED
  BY <1>1, StorageInductive, PTL DEF Spec, RaisedLeavesNoTemp

-----------------------------------------------------------------------------
(* Descriptors of the directory.                                           *)

Givers == {"opendir", "fsyncdir", "closedir", "cleanup", "raised", "leaked"}

\* c has not opened the directory, or has closed it.
Without(c) ==
  \/ At(c, "opendir") /\ thread[c] # "done"
  \/ At(c, "closedir") /\ thread[c] # "pending"
  \/ \E s \in strays : s.op = "opendir" /\ s.call = c

\* opener names the call that opened a descriptor of the directory, each call
\* at most one.
OpenedBy(opener) ==
  /\ \A d \in Fds : fds[d] = Dir =>
       /\ opener[d] \in Calls /\ call[opener[d]].pc \in Givers
       /\ ~Without(opener[d])
       /\ \A e \in Fds \ {d} : fds[e] = Dir => opener[e] # opener[d]
  /\ \A c \in Calls : Holds(c) => opener[call[c].fd] = c
  /\ \A s \in Closers : opener[s.fd] = s.call

OpenerInv ==
  /\ \E opener \in [Fds -> Calls \cup {None}] : OpenedBy(opener)
  /\ \A s, t \in strays : s.op = "opendir" /\ t.op = "opendir" /\ s.call = t.call => s = t
  /\ IsFiniteSet({c \in Calls : ~At(c, "idle")})

LEMMA OpenerInit == Init => OpenerInv
<1> SUFFICES ASSUME Init PROVE OpenerInv
  OBVIOUS
<1> USE ValuesAssumption DEF Init, At
<1>1. OpenedBy([d \in Fds |-> None])
  BY DEF OpenedBy, Holds, Closers
<1>2. {c \in Calls : ~At(c, "idle")} = {}
  OBVIOUS
<1>3. IsFiniteSet({c \in Calls : ~At(c, "idle")})
  BY <1>2, FS_EmptySet
<1>4. [d \in Fds |-> None] \in [Fds -> Calls \cup {None}]
  OBVIOUS
<1>5. QED
  BY <1>1, <1>3, <1>4 DEF OpenerInv

\* No call becomes idle, and one at most stops being so.
LEMMA NotIdleFinite ==
  ASSUME StorageInv, [Next]_vars, IsFiniteSet({c \in Calls : ~At(c, "idle")})
  PROVE  IsFiniteSet({c \in Calls : ~At(c, "idle")})'
<1> USE DEF At
<1>1. ASSUME NEW c \in Calls, \A b \in Calls \ {c} : call'[b].pc = "idle" <=> call[b].pc = "idle"
      PROVE  IsFiniteSet({b \in Calls : ~At(b, "idle")})'
  <2> DEFINE Before == {b \in Calls : ~At(b, "idle")}
  <2>1. IsFiniteSet(Before \cup {c})
    BY FS_AddElement
  <2>2. {b \in Calls : call'[b].pc # "idle"} \in SUBSET (Before \cup {c})
    BY <1>1
  <2>3. QED
    BY <2>1, <2>2, FS_Subset
<1>2. ASSUME \A b \in Calls : call'[b].pc = "idle" <=> call[b].pc = "idle"
      PROVE  IsFiniteSet({b \in Calls : ~At(b, "idle")})'
  <2>1. {b \in Calls : call'[b].pc # "idle"} = {b \in Calls : call[b].pc # "idle"}
    BY <1>2
  <2>2. QED
    BY <2>1
<1>3. ASSUME NEW c \in Calls, NEW n \in 0..MaxChunks, Start(c, n)
      PROVE  IsFiniteSet({b \in Calls : ~At(b, "idle")})'
  BY <1>1, <1>3, StartFacts
<1>4. ASSUME NEW c \in Calls, Chunk(c) \/ StreamEnds(c) \/ StreamRaises(c) \/ Delete(c)
      PROVE  IsFiniteSet({b \in Calls : ~At(b, "idle")})'
  BY <1>1, <1>4, ChunkFacts, StreamEndsFacts, StreamRaisesFacts, DeleteFacts
<1>5. ASSUME NEW c \in Calls, Resume(c) \/ ThreadRuns(c) \/ Cancel(c)
      PROVE  IsFiniteSet({b \in Calls : ~At(b, "idle")})'
  BY <1>1, <1>5, ResumeFacts, ThreadRunsFacts, CancelFacts
<1>6. CASE Kill \/ PowerLoss
  <2>1. \A b \in Calls : call'[b].pc = IF call[b].pc \in Running THEN "lost"
                                       ELSE IF At(b, "deleting") THEN "undeleted"
                                       ELSE call[b].pc
    BY <1>6, ProcessGoneFacts DEF StorageInv, Kill, PowerLoss
  <2>2. QED
    BY <1>2, <2>1 DEF Running, ThreadPc
<1>7. CASE UNCHANGED call
  BY <1>7
<1>8. QED
  BY <1>3, <1>4, <1>5, <1>6, <1>7, StrayRunsFacts DEF Next, vars

LEMMA OpenerNext == StorageInv /\ OpenerInv /\ [Next]_vars => OpenerInv'
<1> SUFFICES ASSUME StorageInv, OpenerInv, [Next]_vars PROVE OpenerInv'
  OBVIOUS
<1> USE ValuesAssumption DEF At
<1> DEFINE Unique == \A s, t \in strays :
      s.op = "opendir" /\ t.op = "opendir" /\ s.call = t.call => s = t
<1>0. /\ StorageTypeOK /\ ThreadInv /\ DescriptorInv /\ StrayInv /\ Unique
      /\ fds \in [Fds -> Calls \cup {Dir, None}]
      /\ \A s \in strays : s.call \in Calls
  BY DEF StorageInv, OpenerInv, StorageTypeOK, Stray
<1>1. PICK opener \in [Fds -> Calls \cup {None}] : OpenedBy(opener)
  BY DEF OpenerInv
<1>2. ASSUME NEW after \in [Fds -> Calls \cup {None}], OpenedBy(after)', Unique'
      PROVE  OpenerInv'
  BY <1>2, NotIdleFinite DEF OpenerInv
\* A step of c that opens no directory, and leaves it with one only if it
\* already had it.
<1>3. ASSUME NEW c \in Calls, UNCHANGED strays,
             \A b \in Calls \ {c} : call'[b] = call[b] /\ thread'[b] = thread[b],
             \A d \in Fds : fds'[d] = Dir => fds[d] = Dir,
             call[c].pc \in Givers /\ ~Without(c) => call'[c].pc \in Givers /\ ~Without(c)',
             Holds(c)' => Holds(c) /\ call'[c].fd = call[c].fd
      PROVE  OpenerInv'
  <2>1. \A b \in Calls \ {c} : (Without(b)' <=> Without(b)) /\ (Holds(b)' <=> Holds(b))
    BY <1>3 DEF Without, Holds
  <2>2. OpenedBy(opener)'
    BY <1>0, <1>1, <1>3, <2>1 DEF OpenedBy, Closers
  <2>3. QED
    BY <1>0, <1>2, <1>3, <2>2
<1>4. ASSUME NEW c \in Calls, NEW n \in 0..MaxChunks, Start(c, n) PROVE OpenerInv'
  <2>1. /\ UNCHANGED <<thread, strays>> /\ \A b \in Calls \ {c} : call'[b] = call[b]
        /\ At(c, "idle") /\ call'[c].pc \in {"raised", "read"}
    BY <1>4, StartFacts
  <2>2. \A d \in Fds : fds'[d] = Dir => fds[d] = Dir
    BY <1>0, <1>4, StartFacts
  <2>3. QED
    BY <1>3, <2>1, <2>2 DEF Givers, Holds
<1>5. ASSUME NEW c \in Calls, Chunk(c) \/ StreamEnds(c) \/ StreamRaises(c) \/ Delete(c)
      PROVE  OpenerInv'
  <2>1. /\ UNCHANGED strays
        /\ \A b \in Calls \ {c} : call'[b] = call[b] /\ thread'[b] = thread[b]
        /\ call[c].pc \in {"read", "saved", "undeleted"}
        /\ call'[c].pc \in {"write", "fsync", "cleanup", "deleting"}
    BY <1>5, ChunkFacts, StreamEndsFacts, StreamRaisesFacts, DeleteFacts
  <2>2. fds' = fds \/ fds' = Closed(call[c].fd)
    BY <1>5, ChunkFacts, StreamEndsFacts, StreamRaisesFacts, DeleteFacts
  <2>3. \A d \in Fds : fds'[d] = Dir => fds[d] = Dir
    BY <1>0, <2>2 DEF Closed
  <2>4. QED
    BY <1>3, <2>1, <2>3 DEF Givers, Holds
<1>6. ASSUME NEW c \in Calls, Resume(c) PROVE OpenerInv'
  <2>1. /\ UNCHANGED strays /\ thread[c] \in {"done", "failed"}
        /\ \A b \in Calls \ {c} : call'[b] = call[b] /\ thread'[b] = thread[b]
    BY <1>6, ResumeFacts
  <2>2. fds' = fds \/ fds' = Closed(call[c].fd)
    BY <1>6, ResumeFacts
  <2>3. \A d \in Fds : fds'[d] = Dir => fds[d] = Dir
    BY <1>0, <2>2 DEF Closed
  <2>4. \/ /\ call[c].pc \in {"write", "fsync", "replace", "deleting"}
           /\ call'[c].pc \notin {"fsyncdir", "closedir"}
           /\ call'[c].pc = "opendir" => thread'[c] = "pending"
        \/ At(c, "opendir") /\ call'[c].pc = "cleanup"
        \/ /\ At(c, "opendir") /\ thread[c] = "done" /\ call'[c].pc = "fsyncdir"
           /\ call'[c].fd = call[c].fd
        \/ /\ At(c, "fsyncdir") /\ call'[c].pc = "closedir" /\ thread'[c] = "pending"
           /\ call'[c].fd = call[c].fd
        \/ At(c, "closedir") /\ call'[c].pc \in {"saved", "cleanup"}
        \/ At(c, "cleanup") /\ call'[c].pc \in {"raised", "leaked"}
    BY <1>6, ResumeFacts DEF ThreadPc, Running
  <2>5. /\ call[c].pc \in Givers /\ ~Without(c) => call'[c].pc \in Givers /\ ~Without(c)'
        /\ Holds(c)' => Holds(c) /\ call'[c].fd = call[c].fd
    BY <2>1, <2>4 DEF Givers, Without, Holds
  <2>6. QED
    BY <1>3, <2>1, <2>3, <2>5
\* The thread, or the stray s, opens the directory for c, which has not got it.
<1>7. ASSUME NEW c \in Calls, NEW d \in Fds, Free(d), fds' = [fds EXCEPT ![d] = Dir],
             Without(c), ~Without(c)', call'[c].pc \in Givers,
             \A b \in Calls \ {c} : call'[b] = call[b] /\ thread'[b] = thread[b],
             \A b \in Calls \ {c} : Without(b)' => Without(b),
             strays' \subseteq strays, \A s \in Closers : s.call # c,
             Holds(c)' => call'[c].fd = d
      PROVE  OpenerInv'
  <2> DEFINE after == [opener EXCEPT ![d] = c]
  <2>1. \A e \in Fds : /\ fds'[e] = IF e = d THEN Dir ELSE fds[e]
                       /\ after[e] = IF e = d THEN c ELSE opener[e]
    BY <1>0, <1>7
  <2>2. after \in [Fds -> Calls \cup {None}]
    OBVIOUS
  <2> HIDE DEF after
  <2>3. \A e \in Fds : fds[e] = Dir => e # d /\ opener[e] # c
    BY <1>1, <1>7 DEF OpenedBy, Free
  <2>4. ASSUME NEW e \in Fds, fds'[e] = Dir
        PROVE  /\ after[e] \in Calls /\ call'[after[e]].pc \in Givers
               /\ ~Without(after[e])'
               /\ \A a \in Fds \ {e} : fds'[a] = Dir => after[a] # after[e]
    <3>1. CASE e = d
      BY <1>7, <2>1, <2>3, <3>1
    <3>2. CASE e # d
      <4>1. PICK b \in Calls : b = opener[e]
        BY <1>1, <2>1, <2>4, <3>2 DEF OpenedBy
      <4>2. /\ b # c /\ call[b].pc \in Givers /\ ~Without(b)
            /\ \A a \in Fds \ {e} : fds[a] = Dir => opener[a] # b
        BY <1>1, <2>1, <2>3, <2>4, <3>2, <4>1 DEF OpenedBy
      <4>3. after[e] = b /\ ~Without(b)' /\ call'[b].pc \in Givers
        BY <1>7, <2>1, <3>2, <4>1, <4>2
      <4>4. \A a \in Fds \ {e} : fds'[a] = Dir => after[a] # b
        BY <2>1, <4>2
      <4>5. QED
        BY <4>3, <4>4
    <3>3. QED
      BY <3>1, <3>2
  <2>5. \A b \in Calls : Holds(b)' => after[call'[b].fd] = b
    <3>1. ASSUME NEW b \in Calls \ {c}, Holds(b)' PROVE after[call'[b].fd] = b
      <4>1. Holds(b) /\ call'[b].fd = call[b].fd
        BY <1>7, <3>1 DEF Holds
      <4>2. call[b].fd \in Fds /\ fds[call[b].fd] = Dir /\ opener[call[b].fd] = b
        BY <1>0, <1>1, <4>1 DEF DescriptorInv, OpenedBy
      <4>3. QED
        BY <2>1, <2>3, <4>1, <4>2
    <3>2. QED
      BY <1>7, <2>1, <3>1
  <2>6. \A s \in Closers' : after[s.fd] = s.call
    <3>1. \A s \in Closers' : s \in Closers
      BY <1>7 DEF Closers
    <3>2. \A s \in Closers : s.fd \in Fds /\ fds[s.fd] = Dir /\ opener[s.fd] = s.call
      BY <1>0, <1>1 DEF DescriptorInv, OpenedBy
    <3>3. QED
      BY <2>1, <2>3, <3>1, <3>2
  <2>7. OpenedBy(after)'
    BY <2>4, <2>5, <2>6 DEF OpenedBy
  <2>8. Unique'
    BY <1>0, <1>7
  <2>9. QED
    BY <1>2, <2>2, <2>7, <2>8
<1>8. ASSUME NEW c \in Calls, ThreadRuns(c) PROVE OpenerInv'
  <2>1. /\ thread[c] = "pending" /\ UNCHANGED strays /\ call'[c].pc = call[c].pc
        /\ \A b \in Calls \ {c} : call'[b] = call[b] /\ thread'[b] = thread[b]
    BY <1>8, ThreadRunsFacts
  <2>2. ASSUME NEW op \in ThreadPc, NEW d \in Fds \cup {None}, NEW ok \in BOOLEAN,
               op = call[c].pc, d = call[c].fd,
               thread'[c] = IF ok THEN "done" ELSE "failed",
               op \in DescriptorOps => d \in Fds, Performs(op, c, d, ok), UNCHANGED call
        PROVE  OpenerInv'
    <3>1. /\ fds' = IF op = "closedir" THEN Closed(d) ELSE fds
          /\ op = "opendir" => ~ok
      BY <1>0, <2>2, PerformsFacts
    <3>2. CASE op = "closedir"
      <4>1. /\ d \in Fds /\ fds[d] = Dir /\ opener[d] = c
            /\ \A e \in Fds \ {d} : fds[e] = Dir => opener[e] # c
        <5>1. Holds(c)
          BY <2>1, <2>2, <3>2 DEF Holds
        <5>2. d \in Fds /\ fds[d] = Dir /\ opener[d] = c
          BY <1>0, <1>1, <2>2, <5>1 DEF OpenedBy, DescriptorInv
        <5>3. QED
          BY <1>1, <5>2 DEF OpenedBy
      <4>2. \A e \in Fds : fds'[e] = Dir => e # d /\ fds[e] = Dir
        BY <1>0, <3>1, <3>2 DEF Closed
      <4>3. \A b \in Calls \ {c} : (Without(b)' <=> Without(b)) /\ (Holds(b)' <=> Holds(b))
        BY <2>1 DEF Without, Holds
      <4>4. ~Holds(c)'
        BY <2>1, <2>2, <3>2 DEF Holds
      <4>5. Closers' = Closers
        BY <2>1 DEF Closers
      <4>6. OpenedBy(opener)'
        BY <1>1, <2>1, <2>2, <4>1, <4>2, <4>3, <4>4, <4>5 DEF OpenedBy
      <4>7. QED
        BY <1>0, <1>2, <2>1, <4>6
    <3>3. CASE op # "closedir"
      <4>1. /\ ~Without(c) => ~Without(c)'
            /\ Holds(c)' => Holds(c)
        BY <2>1, <2>2, <3>1, <3>3 DEF Without, Holds
      <4>2. QED
        BY <1>3, <2>1, <2>2, <3>1, <3>3, <4>1
    <3>4. QED
      BY <3>2, <3>3
  <2>3. CASE /\ At(c, "opendir") /\ thread'[c] = "done"
             /\ call'[c].fd \in Fds /\ Free(call'[c].fd)
             /\ fds' = [fds EXCEPT ![call'[c].fd] = Dir]
    <3>1. PICK d \in Fds : d = call'[c].fd
      BY <2>3
    <3>2. \A s \in strays : s.call # c
      BY <1>0, <2>3 DEF StrayInv
    <3>3. Without(c) /\ ~Without(c)' /\ \A b \in Calls \ {c} : Without(b)' => Without(b)
      BY <2>1, <2>3, <3>2 DEF Without
    <3>4. call'[c].pc \in Givers /\ \A s \in Closers : s.call # c
      BY <2>1, <2>3, <3>2 DEF Givers, Closers
    <3>5. QED
      BY <1>7, <2>1, <2>3, <3>1, <3>3, <3>4
  <2>4. QED
    BY <1>8, <2>2, <2>3, ThreadRunsFacts
<1>9. ASSUME NEW c \in Calls, Cancel(c) PROVE OpenerInv'
  <2> DEFINE stray == [op |-> call[c].pc, call |-> c, fd |-> call[c].fd]
  <2>1. /\ \A b \in Calls \ {c} : call'[b] = call[b] /\ thread'[b] = thread[b]
        /\ strays' = strays \/ (thread[c] = "pending" /\ strays' = strays \cup {stray})
        /\ call[c].pc \in Running \cup {"deleting"}
        /\ fds' = fds \/ fds' = Closed(call[c].fd)
    BY <1>9, CancelFacts
  <2>2. \A d \in Fds : fds'[d] = Dir => fds[d] = Dir
    BY <1>0, <2>1 DEF Closed
  <2>3. \/ /\ At(c, "fsyncdir") /\ call'[c].pc = "closedir" /\ thread'[c] = "pending"
           /\ call'[c].fd = call[c].fd
        \/ /\ ~At(c, "fsyncdir")
           /\ call[c].pc \in Givers => call'[c].pc \in {"cleanup", "leaked"}
           /\ call'[c].pc \in {"cleanup", "leaked", "undeleted"}
    BY <1>9, CancelFacts DEF ThreadPc, Givers
  <2>4. Holds(c)' => Holds(c) /\ call'[c].fd = call[c].fd
    BY <2>3 DEF Holds
  <2>5. call[c].pc \in Givers => call'[c].pc \in Givers
    BY <2>3 DEF Givers
  <2>6. /\ stray.op = call[c].pc /\ stray.call = c /\ stray.fd = call[c].fd
    OBVIOUS
  <2> HIDE DEF stray
  <2>7. ~Without(c) => ~Without(c)'
    BY <2>1, <2>3, <2>6 DEF Without
  <2>8. \A b \in Calls \ {c} : (Without(b)' <=> Without(b)) /\ (Holds(b)' <=> Holds(b))
    BY <2>1, <2>6 DEF Without, Holds
  <2>9. \A s \in Closers' : opener[s.fd] = s.call
    <3>1. \A s \in Closers : opener[s.fd] = s.call
      BY <1>1 DEF OpenedBy
    <3>2. thread[c] = "pending" /\ At(c, "closedir") => opener[call[c].fd] = c
      BY <1>1 DEF OpenedBy, Holds
    <3>3. QED
      BY <2>1, <2>6, <3>1, <3>2 DEF Closers
  <2>10. OpenedBy(opener)'
    <3>1. ASSUME NEW d \in Fds, fds'[d] = Dir
          PROVE  /\ opener[d] \in Calls /\ call'[opener[d]].pc \in Givers
                 /\ ~Without(opener[d])'
                 /\ \A e \in Fds \ {d} : fds'[e] = Dir => opener[e] # opener[d]
      <4>1. PICK b \in Calls : b = opener[d]
        BY <1>1, <2>2, <3>1 DEF OpenedBy
      <4>2. /\ call[b].pc \in Givers /\ ~Without(b)
            /\ \A e \in Fds \ {d} : fds[e] = Dir => opener[e] # b
        BY <1>1, <2>2, <3>1, <4>1 DEF OpenedBy
      <4>3. call'[b].pc \in Givers /\ ~Without(b)'
        BY <2>1, <2>5, <2>7, <2>8, <4>2
      <4>4. QED
        BY <2>2, <4>1, <4>2, <4>3
    <3>2. \A b \in Calls : Holds(b)' => opener[call'[b].fd] = b
      BY <1>1, <2>1, <2>4, <2>8 DEF OpenedBy
    <3>3. QED
      BY <2>9, <3>1, <3>2 DEF OpenedBy
  <2>11. Unique'
    <3>1. At(c, "opendir") => \A s \in strays : s.call # c
      BY <1>0 DEF StrayInv
    <3>2. QED
      BY <1>0, <2>1, <2>6, <3>1
  <2>12. QED
    BY <1>2, <2>10, <2>11
<1>10. ASSUME NEW s \in strays, StrayRuns(s) PROVE OpenerInv'
  <2>1. /\ s.op \in ThreadPc /\ s.call \in Calls /\ s.fd \in Fds \cup {None}
        /\ s.op \in DescriptorOps => s.fd \in Fds
        /\ UNCHANGED <<call, thread>> /\ strays' = strays \ {s}
    BY <1>10, StrayRunsFacts
  <2>2. \A b \in Calls : (Without(b)' => Without(b)) /\ (Holds(b)' <=> Holds(b))
    BY <2>1 DEF Without, Holds
  <2>3. ASSUME NEW ok \in BOOLEAN, Performs(s.op, s.call, s.fd, ok) PROVE OpenerInv'
    <3>1. fds' = IF s.op = "closedir" THEN Closed(s.fd) ELSE fds
      BY <1>0, <2>1, <2>3, PerformsFacts
    <3>2. \A d \in Fds : fds'[d] = Dir => fds[d] = Dir
      BY <1>0, <3>1 DEF Closed
    <3>3. Closers' \subseteq Closers
      BY <2>1 DEF Closers
    <3>4. OpenedBy(opener)'
      BY <1>1, <2>1, <2>2, <3>2, <3>3 DEF OpenedBy
    <3>5. QED
      BY <1>0, <1>2, <2>1, <3>4
  <2>4. ASSUME NEW d \in Fds, s.op = "opendir", Free(d), fds' = [fds EXCEPT ![d] = Dir]
        PROVE  OpenerInv'
    <3>1. PICK c \in Calls : c = s.call
      BY <2>1
    <3>2. call[c].pc \in {"cleanup", "raised", "leaked"}
      BY <1>0, <2>4, <3>1 DEF StrayInv
    <3>3. Without(c) /\ ~Without(c)'
      BY <1>0, <2>1, <2>4, <3>1, <3>2 DEF Without
    <3>4. \A t \in Closers : t.call # c
      <4>1. \A t \in Closers : t.fd \in Fds /\ fds[t.fd] = Dir /\ opener[t.fd] = t.call
        BY <1>0, <1>1 DEF DescriptorInv, OpenedBy
      <4>2. QED
        BY <1>1, <3>3, <4>1 DEF OpenedBy
    <3>5. ~Holds(c)' /\ call'[c].pc \in Givers
      BY <2>1, <3>2 DEF Holds, Givers
    <3>6. QED
      BY <1>7, <2>1, <2>2, <2>4, <3>3, <3>4, <3>5
  <2>5. QED
    BY <1>10, <2>3, <2>4, StrayRunsFacts
<1>11. CASE Kill \/ PowerLoss
  <2>1. /\ strays' = {} /\ fds' = [d \in Fds |-> None]
        /\ \A b \in Calls : call'[b].pc \notin Running
    BY <1>0, <1>11, ProcessGoneFacts DEF Kill, PowerLoss, Running, ThreadPc
  <2>2. \A b \in Calls : ~Holds(b)'
    BY <2>1 DEF Holds, Running, ThreadPc
  <2>3. OpenedBy(opener)'
    BY <2>1, <2>2 DEF OpenedBy, Closers
  <2>4. QED
    BY <1>2, <2>1, <2>3
<1>12. CASE UNCHANGED vars
  BY <1>0, <1>1, <1>2, <1>12 DEF vars, OpenedBy, Without, Holds, Closers
<1>13. QED
  BY <1>4, <1>5, <1>6, <1>8, <1>9, <1>10, <1>11, <1>12 DEF Next

\* What save_stream opens it closes: no file stays open past its upload, and
\* the directory only for the calls that are syncing it or were given up.
THEOREM DescriptorsAreGivenBack == Spec => []DescriptorsGivenBack
<1>1. Spec => []OpenerInv
  BY StorageInductive, OpenerInit, OpenerNext, PTL DEF Spec
<1>2. StorageInv /\ OpenerInv => DescriptorsGivenBack
  <2> SUFFICES ASSUME StorageInv, OpenerInv PROVE DescriptorsGivenBack
    OBVIOUS
  <2> DEFINE Open == {d \in Fds : fds[d] = Dir}
             Owing == {c \in Calls : call[c].pc \in Givers}
  <2>1. \A d \in Fds : fds[d] \in Calls =>
          call[fds[d]].fd = d /\ call[fds[d]].pc \in {"read", "write", "fsync"}
    BY DEF StorageInv, DescriptorInv, Writing
  <2>2. IsFiniteSet(Owing)
    <3>1. Owing \in SUBSET {c \in Calls : ~At(c, "idle")}
      BY DEF Givers, At
    <3>2. QED
      BY <3>1, FS_Subset DEF OpenerInv
  <2>3. PICK opener \in [Fds -> Calls \cup {None}] : OpenedBy(opener)
    BY DEF OpenerInv
  <2>4. [d \in Open |-> opener[d]] \in Injection(Open, Owing)
    BY <2>3 DEF OpenedBy, Injection, IsInjective
  <2>5. Cardinality(Open) <= Cardinality(Owing)
    <3> HIDE DEF Open, Owing
    <3>1. QED
      BY <2>2, <2>4, FS_Injection
  <2>6. QED
    BY <2>1, <2>5 DEF DescriptorsGivenBack, Givers
<1>3. QED
  BY <1>1, <1>2, StorageInductive, PTL

-----------------------------------------------------------------------------
(* The directory is a BlobStore.                                           *)

Stored == {c \in Calls : entry[c] = "final"}
ToldAll == [c \in Calls |-> Told(c)]

LEMMA ToldFacts ==
  ASSUME NEW c \in Calls
  PROVE  /\ (Told(c) = "saved") <=> At(c, "saved")
         /\ (Told(c) = "going") <=> call[c].pc \in {"deleting", "undeleted"}
         /\ (Told(c) = "deleted") <=> At(c, "deleted")
         /\ (Told(c) = "nothing") <=> call[c].pc \notin Announced
         /\ Told(c) \in {"nothing", "saved", "going", "deleted"}
BY DEF Told, At, Announced

LEMMA BlobStoreInit == Init => Abstract!Init
BY DEF Init, Abstract!Init, Told, At

LEMMA BlobStoreNext == StorageInv /\ [Next]_vars => [Abstract!Next]_(Abstract!vars)
<1> SUFFICES ASSUME StorageInv, [Next]_vars
             PROVE  Abstract!Next \/ UNCHANGED <<Stored, ToldAll>>
  BY DEF Abstract!vars, Stored, ToldAll
<1> USE DEF At
<1>0. /\ StorageTypeOK /\ StrayInv /\ \A b \in Calls : NameOf(b)
  BY DEF StorageInv, NameInv
\* A step that neither makes nor removes a final name and moves one call.
<1>1. ASSUME NEW c \in Calls, \A b \in Calls : (entry'[b] = "final") <=> (entry[b] = "final"),
             \A b \in Calls \ {c} : call'[b] = call[b],
             \/ Told(c)' = Told(c)
             \/ Told(c) = "nothing" /\ entry[c] = "final" /\ Told(c)' = "saved"
             \/ Told(c) = "saved" /\ Told(c)' = "going"
             \/ Told(c) = "going" /\ entry[c] # "final" /\ Told(c)' = "deleted"
      PROVE  Abstract!Next \/ UNCHANGED <<Stored, ToldAll>>
  <2>1. Stored' = Stored
    BY <1>1 DEF Stored
  <2>2. \A b \in Calls \ {c} : Told(b)' = Told(b)
    BY <1>1 DEF Told
  <2>3. ToldAll' = [ToldAll EXCEPT ![c] = Told(c)']
    BY <2>2 DEF ToldAll
  <2>4. CASE Told(c)' = Told(c)
    <3>1. ToldAll' = ToldAll
      BY <2>2, <2>4 DEF ToldAll
    <3>2. QED
      BY <2>1, <3>1
  <2>5. CASE Told(c) = "nothing" /\ entry[c] = "final" /\ Told(c)' = "saved"
    <3>1. Abstract!SaveReturns(c)
      BY <2>1, <2>3, <2>5 DEF Abstract!SaveReturns, Stored, ToldAll
    <3>2. QED
      BY <3>1 DEF Abstract!Next
  <2>6. CASE Told(c) = "saved" /\ Told(c)' = "going"
    <3>1. Abstract!Delete(c)
      BY <2>1, <2>3, <2>6 DEF Abstract!Delete, Stored, ToldAll
    <3>2. QED
      BY <3>1 DEF Abstract!Next
  <2>7. CASE Told(c) = "going" /\ entry[c] # "final" /\ Told(c)' = "deleted"
    <3>1. Abstract!DeleteReturns(c)
      BY <2>1, <2>3, <2>7 DEF Abstract!DeleteReturns, Stored, ToldAll
    <3>2. QED
      BY <3>1 DEF Abstract!Next
  <2>8. QED
    BY <1>1, <2>4, <2>5, <2>6, <2>7
\* A step of a thread that c awaits, or of a stray that it left.
<1>2. ASSUME NEW c \in Calls, call' = call, \A b \in Calls \ {c} : entry'[b] = entry[b],
             entry'[c] = "final" /\ entry[c] # "final" => call[c].pc \notin Announced,
             entry'[c] # "final" /\ entry[c] = "final" =>
               call[c].pc \in {"deleting", "undeleted"}
      PROVE  Abstract!Next \/ UNCHANGED <<Stored, ToldAll>>
  <2>1. ToldAll' = ToldAll
    BY <1>2 DEF ToldAll, Told
  <2>2. CASE (entry'[c] = "final") <=> (entry[c] = "final")
    BY <1>2, <2>1, <2>2 DEF Stored
  <2>3. CASE entry'[c] = "final" /\ entry[c] # "final"
    <3>1. Stored' = Stored \cup {c} /\ c \notin Stored /\ Told(c) = "nothing"
      BY <1>2, <2>3, ToldFacts DEF Stored
    <3>2. Abstract!Appear(c)
      BY <2>1, <3>1 DEF Abstract!Appear, Stored, ToldAll
    <3>3. QED
      BY <3>2 DEF Abstract!Next
  <2>4. CASE entry'[c] # "final" /\ entry[c] = "final"
    <3>1. Stored' = Stored \ {c} /\ c \in Stored /\ Told(c) = "going"
      BY <1>2, <2>4, ToldFacts DEF Stored
    <3>2. Abstract!Disappear(c)
      BY <2>1, <3>1 DEF Abstract!Disappear, Stored, ToldAll
    <3>3. QED
      BY <3>2 DEF Abstract!Next
  <2>5. QED
    BY <2>2, <2>3, <2>4
<1>3. ASSUME NEW op \in ThreadPc, NEW c \in Calls, NEW d \in Fds \cup {None},
             NEW ok \in BOOLEAN, Performs(op, c, d, ok), op \in DescriptorOps => d \in Fds,
             call' = call,
             op = "replace" => call[c].pc \notin Announced,
             op = "deleting" => call[c].pc \in {"deleting", "undeleted"}
                                \/ (At(c, "deleted") /\ entry[c] # "final")
      PROVE  Abstract!Next \/ UNCHANGED <<Stored, ToldAll>>
  <2>1. /\ \A b \in Calls \ {c} : entry'[b] = entry[b]
        /\ entry'[c] = IF op = "replace" /\ ok THEN "final"
                       ELSE IF op = "cleanup" /\ ok /\ entry[c] = "temp" THEN "none"
                       ELSE IF op = "deleting" /\ ok /\ entry[c] = "final" THEN "none"
                       ELSE entry[c]
    BY <1>0, <1>3, PerformsFacts
  <2>2. QED
    BY <1>2, <1>3, <2>1
<1>4. ASSUME NEW c \in Calls, NEW n \in 0..MaxChunks, Start(c, n)
      PROVE  Abstract!Next \/ UNCHANGED <<Stored, ToldAll>>
  <2>1. entry[c] = "none"
    BY <1>0, <1>4, StartFacts DEF NameOf
  <2>2. \A b \in Calls : (entry'[b] = "final") <=> (entry[b] = "final")
    BY <1>4, <2>1, StartFacts
  <2>3. Told(c)' = Told(c)
    BY <1>4, StartFacts DEF Told
  <2>4. QED
    BY <1>1, <1>4, <2>2, <2>3, StartFacts
<1>5. ASSUME NEW c \in Calls, Chunk(c) \/ StreamEnds(c) \/ StreamRaises(c)
      PROVE  Abstract!Next \/ UNCHANGED <<Stored, ToldAll>>
  <2>1. UNCHANGED entry /\ \A b \in Calls \ {c} : call'[b] = call[b]
    BY <1>5, ChunkFacts, StreamEndsFacts, StreamRaisesFacts
  <2>2. At(c, "read") /\ call'[c].pc \in {"write", "fsync", "cleanup"}
    BY <1>5, ChunkFacts, StreamEndsFacts, StreamRaisesFacts
  <2>3. Told(c)' = Told(c)
    BY <2>2 DEF Told
  <2>4. QED
    BY <1>1, <2>1, <2>3
<1>6. ASSUME NEW c \in Calls, Delete(c)
      PROVE  Abstract!Next \/ UNCHANGED <<Stored, ToldAll>>
  <2>1. UNCHANGED entry /\ \A b \in Calls \ {c} : call'[b] = call[b]
    BY <1>6, DeleteFacts
  <2>2. call[c].pc \in {"saved", "undeleted"} /\ call'[c].pc = "deleting"
    BY <1>6, DeleteFacts
  <2>3. Told(c) \in {"saved", "going"} /\ Told(c)' = "going"
    BY <2>2 DEF Told
  <2>4. QED
    BY <1>1, <2>1, <2>3
<1>7. ASSUME NEW c \in Calls, Resume(c)
      PROVE  Abstract!Next \/ UNCHANGED <<Stored, ToldAll>>
  <2>1. UNCHANGED entry /\ \A b \in Calls \ {c} : call'[b] = call[b]
    BY <1>7, ResumeFacts
  <2>2. At(c, "closedir") => entry[c] = "final"
    BY <1>0 DEF NameOf, Renamed
  <2>3. At(c, "deleting") /\ thread[c] = "done" => entry[c] # "final"
    BY <1>0 DEF NameOf
  <2>4. \/ /\ At(c, "closedir") /\ call'[c].pc = "saved"
        \/ /\ call[c].pc \in ThreadPc \ {"deleting"} /\ call'[c].pc \in Running \cup GivenUp
        \/ /\ At(c, "deleting") /\ call'[c].pc = "undeleted"
        \/ /\ At(c, "deleting") /\ thread[c] = "done" /\ call'[c].pc = "deleted"
    BY <1>7, ResumeFacts DEF ThreadPc, Running, GivenUp
  <2>5. \/ Told(c)' = Told(c)
        \/ Told(c) = "nothing" /\ entry[c] = "final" /\ Told(c)' = "saved"
        \/ Told(c) = "going" /\ entry[c] # "final" /\ Told(c)' = "deleted"
    BY <2>2, <2>3, <2>4 DEF Told, ThreadPc, Running, GivenUp
  <2>6. QED
    BY <1>1, <2>1, <2>5
<1>8. ASSUME NEW c \in Calls, Cancel(c)
      PROVE  Abstract!Next \/ UNCHANGED <<Stored, ToldAll>>
  <2>1. UNCHANGED entry /\ \A b \in Calls \ {c} : call'[b] = call[b]
    BY <1>8, CancelFacts
  <2>2. \/ call[c].pc \in Running /\ call'[c].pc \in {"closedir", "cleanup", "leaked"}
        \/ At(c, "deleting") /\ call'[c].pc = "undeleted"
    BY <1>8, CancelFacts DEF Running, ThreadPc
  <2>3. Told(c)' = Told(c)
    BY <2>2 DEF Told, Running, ThreadPc
  <2>4. QED
    BY <1>1, <2>1, <2>3
<1>9. ASSUME NEW c \in Calls, ThreadRuns(c)
      PROVE  Abstract!Next \/ UNCHANGED <<Stored, ToldAll>>
  <2>1. ASSUME NEW op \in ThreadPc, NEW d \in Fds \cup {None}, NEW ok \in BOOLEAN,
               op = call[c].pc, op \in DescriptorOps => d \in Fds, Performs(op, c, d, ok),
               UNCHANGED call
        PROVE  Abstract!Next \/ UNCHANGED <<Stored, ToldAll>>
    <3>1. op = "replace" => call[c].pc \notin Announced
      BY <2>1 DEF Announced
    <3>2. QED
      BY <1>3, <2>1, <3>1
  <2>2. CASE At(c, "opendir") /\ UNCHANGED <<data, synced, entry, disk>>
    <3>1. Told(c)' = Told(c)
      BY <1>9, <2>2, ThreadRunsFacts DEF Told
    <3>2. QED
      BY <1>1, <1>9, <2>2, <3>1, ThreadRunsFacts
  <2>3. QED
    BY <1>9, <2>1, <2>2, ThreadRunsFacts
<1>10. ASSUME NEW s \in strays, StrayRuns(s)
       PROVE  Abstract!Next \/ UNCHANGED <<Stored, ToldAll>>
  <2>1. /\ s.op \in ThreadPc /\ s.call \in Calls /\ s.fd \in Fds \cup {None}
        /\ s.op \in DescriptorOps => s.fd \in Fds
        /\ UNCHANGED <<call, thread>>
    BY <1>10, StrayRunsFacts
  <2>2. ASSUME NEW ok \in BOOLEAN, Performs(s.op, s.call, s.fd, ok)
        PROVE  Abstract!Next \/ UNCHANGED <<Stored, ToldAll>>
    <3>1. /\ s.op = "replace" => call[s.call].pc \notin Announced
          /\ s.op = "deleting" =>
               call[s.call].pc \in {"deleting", "undeleted"}
                 \/ (At(s.call, "deleted") /\ entry[s.call] # "final")
      BY <1>0 DEF StrayInv, Announced
    <3>2. QED
      BY <1>3, <2>1, <2>2, <3>1
  <2>3. CASE UNCHANGED <<data, synced, entry, disk>>
    BY <2>1, <2>3 DEF Stored, ToldAll, Told
  <2>4. QED
    BY <1>10, <2>2, <2>3, StrayRunsFacts
<1>11. CASE Kill \/ PowerLoss
  <2>1. ToldAll' = ToldAll
    <3>1. \A b \in Calls : call'[b].pc = IF call[b].pc \in Running THEN "lost"
                                         ELSE IF At(b, "deleting") THEN "undeleted"
                                         ELSE call[b].pc
      BY <1>0, <1>11, ProcessGoneFacts DEF Kill, PowerLoss
    <3>2. \A b \in Calls : Told(b)' = Told(b)
      BY <3>1 DEF Told, Running, ThreadPc
    <3>3. QED
      BY <3>2 DEF ToldAll
  <2>2. CASE Kill
    BY <2>1, <2>2 DEF Kill, Stored
  <2>3. CASE PowerLoss
    <3>1. "power" \in Faults /\ \A b \in Calls : entry'[b] \in disk[b]
      BY <2>3, PowerLossFacts DEF PowerLoss
    <3>2. Stored \ Stored' \in SUBSET (Stored \ {b \in Calls : ToldAll[b] = "saved"})
      BY <1>0, <3>1, ToldFacts DEF Stored, ToldAll, NameOf, Settled
    <3>3. Stored' \ Stored \in SUBSET ({b \in Calls : ToldAll[b] = "going"}
                                         \cup {b \in Calls : ToldAll[b] = "deleted"})
      BY <1>0, <3>1, ToldFacts DEF Stored, ToldAll, NameOf, Settled, Announced
    <3>4. Stored' = (Stored \ (Stored \ Stored')) \cup (Stored' \ Stored)
      OBVIOUS
    <3>5. Abstract!PowerLoss
      BY <2>1, <3>1, <3>2, <3>3, <3>4 DEF Abstract!PowerLoss, Abstract!With, Stored, ToldAll
    <3>6. QED
      BY <3>5 DEF Abstract!Next
  <2>4. QED
    BY <1>11, <2>2, <2>3
<1>12. CASE UNCHANGED vars
  BY <1>12 DEF vars, Stored, ToldAll, Told
<1>13. QED
  BY <1>4, <1>5, <1>6, <1>7, <1>8, <1>9, <1>10, <1>11, <1>12 DEF Next

\* save_stream and delete keep what FileStorage promises of blobs, whatever
\* fails: LocalStorage implements BlobStore.
THEOREM DirectoryIsBlobStore == Spec => ImplementsBlobStore
BY StorageInductive, BlobStoreInit, BlobStoreNext, PTL
   DEF Spec, ImplementsBlobStore, Abstract!Spec
===============================================================================
