------------------------------ MODULE Journal ------------------------------
(***************************************************************************)
(* The journal file: open, append, flush, close, compaction and recovery,  *)
(* with crashes between their steps, short writes and a second runtime     *)
(* that opens the same path.                                               *)
(*                                                                         *)
(* A file is the sequence of what was written behind its header. A cell is *)
(* a complete record (its checksum holds), standing for the observations   *)
(* it makes the reader recover, or a fragment left by a torn write. What   *)
(* was synced survives a crash; of the rest any prefix does, and it may    *)
(* end in a fragment. Sizes are in units of one observation record.        *)
(***************************************************************************)
EXTENDS Naturals, Sequences, FiniteSets

CONSTANTS Runtimes,       \* processes that use the same journal path
          Observations,
          Files,          \* inodes
          NoFile,
          NoOne,
          MaxBytes,       \* max_journal_bytes
          HeaderSize,     \* kHeaderBytes
          MaxSnapshot,    \* bound on the size of a snapshot group
          TruncateTornTail,   \* RecoveryPolicy::torn_tail
          MaxCrashes,     \* bound on the crashes
          MaxFaults,      \* bound on the failing writes and renames
          MaxEpoch        \* bound on the opens of a journal

ASSUME JournalAssumption ==
  /\ MaxBytes \in Nat /\ HeaderSize \in Nat \ {0} /\ MaxSnapshot \in Nat \ {0}
  /\ MaxCrashes \in Nat /\ MaxFaults \in Nat /\ MaxEpoch \in Nat /\ TruncateTornTail \in BOOLEAN
  /\ NoFile \notin Files /\ NoOne \notin Runtimes

VARIABLES
  path,      \* the inode the journal path names
  file,      \* the contents of the inodes
  lock,      \* who holds the flock of each inode
  pc, handle, epoch, size, live, todo, temp,   \* per runtime, see TypeOK
  log,       \* history: the observations whose append succeeded, in order
  flushed,   \* history: how many of them were flushed
  lastEpoch, \* history: the epoch of the last open that completed
  crashes, faults

vars == <<path, file, lock, pc, handle, epoch, size, live, todo, temp, log, flushed,
          lastEpoch, crashes, faults>>

Elements(s) == {s[i] : i \in 1 .. Len(s)}

\* Cells: an observation record, a snapshot group and a fragment.
ObsCell(o)     == [kind |-> "observation", holds |-> {o}, size |-> 1]
SnapCell(S, n) == [kind |-> "snapshot", holds |-> S, size |-> n]
Fragment       == [kind |-> "fragment", holds |-> {}, size |-> 1]

NoHeader == [found |-> FALSE, epoch |-> 0]
Header(n) == [found |-> TRUE, epoch |-> n]
EmptyFile == [header |-> NoHeader, cells |-> <<>>, synced |-> 0]

TotalSize(cells) ==
  LET upTo[i \in 0 .. Len(cells)] == IF i = 0 THEN 0 ELSE upTo[i - 1] + cells[i].size
  IN  upTo[Len(cells)]

Bytes(f) == HeaderSize + TotalSize(f.cells)

Fragments(f) == {i \in 1 .. Len(f.cells) : f.cells[i].kind = "fragment"}

\* A fragment that is followed by later records.
Buried(f) == \E i \in Fragments(f) : i < Len(f.cells)

\* The records before the first fragment.
Intact(f) ==
  IF Fragments(f) = {} THEN f.cells
  ELSE SubSeq(f.cells, 1, (CHOOSE i \in Fragments(f) : \A j \in Fragments(f) : i <= j) - 1)

Mutant_IgnoreSnapshot(cells) ==
  UNION {cells[i].holds : i \in {j \in 1 .. Len(cells) : cells[j].kind = "observation"}}

\* replay_records: a snapshot group replaces what came before it, an
\* observation is replayed on top.
Replay(cells) ==
  LET upTo[i \in 0 .. Len(cells)] ==
        IF i = 0 THEN {}
        ELSE IF cells[i].kind = "snapshot" THEN cells[i].holds
        ELSE upTo[i - 1] \cup cells[i].holds
  IN  upTo[Len(cells)]

Refused      == [ok |-> FALSE, obs |-> {}]
Recovered(S) == [ok |-> TRUE, obs |-> S]

\* What read_all and replay_records may answer. Bytes behind a fragment are
\* read as the rest of it: the result runs past the end of the file and is
\* taken for a torn tail, or its kind, length or checksum is refused.
ReadAll(f) ==
  IF Bytes(f) > MaxBytes THEN {Refused}
  ELSE IF Fragments(f) = {} THEN {Recovered(Replay(f.cells))}
  ELSE (IF TruncateTornTail THEN {Recovered(Replay(Intact(f)))} ELSE {Refused})
       \cup (IF Buried(f) THEN {Refused} ELSE {})

\* The lock goes with the handle, if the runtime has it.
Unlocked(r) == [i \in Files |-> IF i = handle[r] /\ lock[i] = r THEN NoOne ELSE lock[i]]

Unused == {i \in Files : i # path /\ \A r \in Runtimes : handle[r] # i /\ temp[r] # i}

-----------------------------------------------------------------------------
Init ==
  /\ path = NoFile
  /\ file = [i \in Files |-> EmptyFile]
  /\ lock = [i \in Files |-> NoOne]
  /\ pc = [r \in Runtimes |-> "down"]
  /\ handle = [r \in Runtimes |-> NoFile]
  /\ epoch = [r \in Runtimes |-> 0]
  /\ size = [r \in Runtimes |-> 0]
  /\ live = [r \in Runtimes |-> {}]
  /\ todo = [r \in Runtimes |-> {}]
  /\ temp = [r \in Runtimes |-> NoFile]
  /\ log = <<>> /\ flushed = 0 /\ lastEpoch = 0
  /\ crashes = 0 /\ faults = 0

\* Journal::open of a missing file: it is created, and its header stays in
\* the buffer until the flush at the end of Engine::open. The bookkeeping of
\* the size starts at zero.
OpenFresh(r) ==
  /\ pc[r] = "down" /\ path = NoFile
  /\ \E i \in Unused :
       /\ path' = i
       /\ file' = [file EXCEPT ![i] = EmptyFile]
       /\ lock' = [lock EXCEPT ![i] = r]
       /\ handle' = [handle EXCEPT ![r] = i]
  /\ pc' = [pc EXCEPT ![r] = "opening"]
  /\ epoch' = [epoch EXCEPT ![r] = 1]
  /\ size' = [size EXCEPT ![r] = 0]
  /\ live' = [live EXCEPT ![r] = {}]
  /\ UNCHANGED <<todo, temp, log, flushed, lastEpoch, crashes, faults>>

\* Journal::open of an existing file, read_all and the replay. A second
\* writer is refused by the lock of the file, a file without a header and
\* one that read_all refuses are not opened.
OpenExisting(r) ==
  /\ pc[r] = "down" /\ path # NoFile
  /\ lock[path] = NoOne
  /\ file[path].header.found /\ file[path].header.epoch < MaxEpoch
  /\ \E out \in ReadAll(file[path]) :
       /\ out.ok
       /\ live' = [live EXCEPT ![r] = out.obs]
       /\ log' = SubSeq(log, 1, Cardinality(out.obs))
       /\ flushed' = IF flushed < Cardinality(out.obs) THEN flushed ELSE Cardinality(out.obs)
  /\ lock' = [lock EXCEPT ![path] = r]
  /\ handle' = [handle EXCEPT ![r] = path]
  /\ epoch' = [epoch EXCEPT ![r] = file[path].header.epoch + 1]
  /\ size' = [size EXCEPT ![r] = Bytes(file[path])]
  /\ pc' = [pc EXCEPT ![r] = "opening"]
  /\ UNCHANGED <<path, file, todo, temp, lastEpoch, crashes, faults>>

Mutant_FlushDataOnly(r) ==
  [file[handle[r]] EXCEPT !.synced = Len(file[handle[r]].cells),
                          !.header = IF @.found THEN @ ELSE Header(epoch[r])]

\* Journal::flush: the records first, then the header with the epoch.
FlushedFile(r) ==
  [file[handle[r]] EXCEPT !.header = Header(epoch[r]),
                          !.synced = Len(file[handle[r]].cells)]

OpenFlushes(r) ==
  /\ pc[r] = "opening"
  /\ file' = [file EXCEPT ![handle[r]] = FlushedFile(r)]
  /\ flushed' = Len(log)
  /\ lastEpoch' = epoch[r]
  /\ pc' = [pc EXCEPT ![r] = "up"]
  /\ UNCHANGED <<path, lock, handle, epoch, size, live, todo, temp, log, crashes, faults>>

-----------------------------------------------------------------------------
Fits(r) == size[r] + 1 <= MaxBytes

Write(r, cell) ==
  file' = [file EXCEPT ![handle[r]].cells = Append(@, cell)]

Record(r, o) ==
  /\ Write(r, ObsCell(o))
  /\ size' = [size EXCEPT ![r] = @ + 1]
  /\ live' = [live EXCEPT ![r] = @ \cup {o}]
  /\ log' = Append(log, o)

\* append_observation_locked, when the record fits.
AppendRecord(r, o) ==
  /\ pc[r] = "up" /\ handle[r] # NoFile
  /\ o \notin Elements(log)
  /\ Fits(r)
  /\ Record(r, o)
  /\ UNCHANGED <<path, lock, pc, handle, epoch, todo, temp, flushed, lastEpoch, crashes, faults>>

\* A short write returns an error and leaves a fragment; the observation is
\* not applied and the bookkeeping of the size does not change.
AppendFails(r, o) ==
  /\ pc[r] = "up" /\ handle[r] # NoFile
  /\ o \notin Elements(log)
  /\ Fits(r) /\ faults < MaxFaults
  /\ faults' = faults + 1
  /\ Write(r, Fragment)
  /\ UNCHANGED <<path, lock, pc, handle, epoch, size, live, todo, temp, log, flushed,
                 lastEpoch, crashes>>

\* A record that does not fit makes the engine compact and retry once.
AppendIsFull(r, o) ==
  /\ pc[r] = "up" /\ handle[r] # NoFile
  /\ o \notin Elements(log)
  /\ ~Fits(r)
  /\ pc' = [pc EXCEPT ![r] = "compacting"]
  /\ todo' = [todo EXCEPT ![r] = {o}]
  /\ UNCHANGED <<path, file, lock, handle, epoch, size, live, temp, log, flushed, lastEpoch,
                 crashes, faults>>

Mutant_RetryIgnored(r) ==
  /\ pc[r] = "retry"
  /\ pc' = [pc EXCEPT ![r] = "up"]
  /\ todo' = [todo EXCEPT ![r] = {}]
  /\ live' = [live EXCEPT ![r] = @ \cup todo[r]]
  /\ UNCHANGED <<path, file, lock, handle, epoch, size, temp, log, flushed, lastEpoch,
                 crashes, faults>>

AppendRetries(r) ==
  /\ pc[r] = "retry"
  /\ pc' = [pc EXCEPT ![r] = "up"]
  /\ todo' = [todo EXCEPT ![r] = {}]
  /\ \E o \in todo[r] : IF Fits(r) THEN Record(r, o) ELSE UNCHANGED <<file, size, live, log>>
  /\ UNCHANGED <<path, lock, handle, epoch, temp, flushed, lastEpoch, crashes, faults>>

Flush(r) ==
  /\ pc[r] = "up" /\ handle[r] # NoFile
  /\ file' = [file EXCEPT ![handle[r]] = FlushedFile(r)]
  /\ flushed' = Len(log)
  /\ UNCHANGED <<path, lock, pc, handle, epoch, size, live, todo, temp, log, lastEpoch,
                 crashes, faults>>

\* Engine::close: flush, close, clear the runtime.
Close(r) ==
  /\ pc[r] = "up"
  /\ lock' = Unlocked(r)
  /\ IF handle[r] = NoFile THEN UNCHANGED <<file, flushed>>
     ELSE /\ file' = [file EXCEPT ![handle[r]] = FlushedFile(r)]
          /\ flushed' = Len(log)
  /\ pc' = [pc EXCEPT ![r] = "down"]
  /\ handle' = [handle EXCEPT ![r] = NoFile]
  /\ live' = [live EXCEPT ![r] = {}]
  /\ UNCHANGED <<path, epoch, size, todo, temp, log, lastEpoch, crashes, faults>>

-----------------------------------------------------------------------------
\* compact(), also with a journal that a failed replacement left closed.
CompactBegins(r) ==
  /\ pc[r] = "up"
  /\ pc' = [pc EXCEPT ![r] = "compacting"]
  /\ UNCHANGED <<path, file, lock, handle, epoch, size, live, todo, temp, log, flushed,
                 lastEpoch, crashes, faults>>

\* encode_state refuses a snapshot above half of the bound.
CompactTooBig(r) ==
  /\ pc[r] = "compacting"
  /\ \E n \in 1 .. MaxSnapshot : 2 * n > MaxBytes
  /\ pc' = [pc EXCEPT ![r] = "up"]
  /\ todo' = [todo EXCEPT ![r] = {}]
  /\ UNCHANGED <<path, file, lock, handle, epoch, size, live, temp, log, flushed, lastEpoch,
                 crashes, faults>>

Mutant_RenameUnsynced(r) ==
  /\ pc[r] = "compacting"
  /\ \E n \in {k \in 1 .. MaxSnapshot : 2 * k <= MaxBytes}, i \in Unused :
       /\ file' = [file EXCEPT ![i] = [header |-> Header(epoch[r]),
                                       cells  |-> <<SnapCell(live[r], n)>>, synced |-> 0]]
       /\ temp' = [temp EXCEPT ![r] = i]
  /\ pc' = [pc EXCEPT ![r] = "replacing"]
  /\ UNCHANGED <<path, lock, handle, epoch, size, live, todo, log, flushed, lastEpoch,
                 crashes, faults>>

\* Journal::rewrite: the snapshot goes to a sibling file, which is synced.
CompactWrites(r) ==
  /\ pc[r] = "compacting"
  /\ \E n \in {k \in 1 .. MaxSnapshot : 2 * k <= MaxBytes}, i \in Unused :
       /\ file' = [file EXCEPT ![i] = [header |-> Header(epoch[r]),
                                       cells  |-> <<SnapCell(live[r], n)>>, synced |-> 1]]
       /\ temp' = [temp EXCEPT ![r] = i]
  /\ pc' = [pc EXCEPT ![r] = "replacing"]
  /\ UNCHANGED <<path, lock, handle, epoch, size, live, todo, log, flushed, lastEpoch,
                 crashes, faults>>

\* An inode that neither the path nor another runtime refers to is gone.
Unlinked(r, i) ==
  IF \E s \in Runtimes \ {r} : handle[s] = i THEN file[i] ELSE EmptyFile

\* The rename replaces the journal atomically; the new file is opened again
\* without its lock.
CompactReplaces(r) ==
  /\ pc[r] = "replacing"
  /\ file' = [file EXCEPT ![path] = Unlinked(r, path)]
  /\ lock' = Unlocked(r)
  /\ path' = temp[r]
  /\ handle' = [handle EXCEPT ![r] = temp[r]]
  /\ size' = [size EXCEPT ![r] = Bytes(file[temp[r]])]
  /\ temp' = [temp EXCEPT ![r] = NoFile]
  /\ flushed' = Len(log)
  /\ pc' = [pc EXCEPT ![r] = IF todo[r] = {} THEN "up" ELSE "retry"]
  /\ UNCHANGED <<epoch, live, todo, log, lastEpoch, crashes, faults>>

\* A rename that fails leaves the old file, synced by its close, in place and
\* the journal closed.
ReplaceFails(r) ==
  /\ pc[r] = "replacing" /\ faults < MaxFaults
  /\ faults' = faults + 1
  /\ file' = [i \in Files |-> IF i = handle[r]
                             THEN [file[i] EXCEPT !.synced = Len(file[i].cells)] ELSE file[i]]
  /\ lock' = Unlocked(r)
  /\ handle' = [handle EXCEPT ![r] = NoFile]
  /\ temp' = [temp EXCEPT ![r] = NoFile]
  /\ todo' = [todo EXCEPT ![r] = {}]
  /\ pc' = [pc EXCEPT ![r] = "up"]
  /\ UNCHANGED <<path, epoch, size, live, log, flushed, lastEpoch, crashes>>

-----------------------------------------------------------------------------
\* What a crash may leave of a file.
Survivors(f) ==
  LET headers == IF f.header.found THEN {f.header} ELSE {NoHeader, Header(0)}
      whole   == {SubSeq(f.cells, 1, k) : k \in f.synced .. Len(f.cells)}
      torn    == {Append(SubSeq(f.cells, 1, k), Fragment) : k \in f.synced .. Len(f.cells) - 1}
  IN  {[header |-> h, cells |-> c, synced |-> Len(c)] : h \in headers, c \in whole \cup torn}

\* The process dies; the operating system releases its lock.
Crash(r) ==
  /\ pc[r] # "down" /\ crashes < MaxCrashes
  /\ crashes' = crashes + 1
  /\ lock' = Unlocked(r)
  /\ IF handle[r] = NoFile THEN UNCHANGED file
     ELSE \E f \in Survivors(file[handle[r]]) : file' = [file EXCEPT ![handle[r]] = f]
  /\ pc' = [pc EXCEPT ![r] = "down"]
  /\ handle' = [handle EXCEPT ![r] = NoFile]
  /\ temp' = [temp EXCEPT ![r] = NoFile]
  /\ live' = [live EXCEPT ![r] = {}]
  /\ todo' = [todo EXCEPT ![r] = {}]
  /\ UNCHANGED <<path, epoch, size, log, flushed, lastEpoch, faults>>

Next ==
  \E r \in Runtimes :
    \/ OpenFresh(r) \/ OpenExisting(r) \/ OpenFlushes(r)
    \/ \E o \in Observations : AppendRecord(r, o) \/ AppendFails(r, o) \/ AppendIsFull(r, o)
    \/ AppendRetries(r) \/ Flush(r) \/ Close(r)
    \/ CompactBegins(r) \/ CompactTooBig(r) \/ CompactWrites(r)
    \/ CompactReplaces(r) \/ ReplaceFails(r)
    \/ Crash(r)

Spec == Init /\ [][Next]_vars

-----------------------------------------------------------------------------
\* Handles, locks and the bookkeeping of the runtimes are well formed, and no
\* more is synced or flushed than was written.
TypeOK ==
  /\ path \in Files \cup {NoFile}
  /\ lock \in [Files -> Runtimes \cup {NoOne}]
  /\ pc \in [Runtimes -> {"down", "opening", "up", "compacting", "replacing", "retry"}]
  /\ handle \in [Runtimes -> Files \cup {NoFile}]
  /\ temp \in [Runtimes -> Files \cup {NoFile}]
  /\ epoch \in [Runtimes -> Nat] /\ size \in [Runtimes -> Nat]
  /\ live \in [Runtimes -> SUBSET Observations]
  /\ todo \in [Runtimes -> SUBSET Observations]
  /\ log \in Seq(Observations) /\ flushed \in 0 .. Len(log)
  /\ \A i \in Files : file[i].synced \in 0 .. Len(file[i].cells)

\* The first n observations whose append succeeded.
FirstLogged(n) == Elements(SubSeq(log, 1, n))

\* Whatever crashed, failed or was compacted, a recovery that is not refused
\* restores the appended observations in order up to some point: none is
\* invented, none is skipped, and no fragment is taken for a record.
RecoveryIsPrefix ==
  path # NoFile =>
    \A out \in ReadAll(file[path]) :
      out.ok => \E n \in 0 .. Len(log) : out.obs = FirstLogged(n)

\* As long as no record was written behind a fragment, everything flushed is
\* recovered, through any crash during an append, a flush or a compaction.
FlushedIsRecovered ==
  path # NoFile /\ ~Buried(file[path]) =>
    \A out \in ReadAll(file[path]) : out.ok => FirstLogged(flushed) \subseteq out.obs

\* While a runtime is up and no write was torn, the journal holds exactly the
\* observations the runtime has accepted.
JournalHoldsLive ==
  \A r \in Runtimes :
    pc[r] = "up" /\ handle[r] # NoFile /\ Fragments(file[handle[r]]) = {} =>
      /\ handle[r] = path
      /\ Replay(file[path].cells) = live[r]

\* Every open that completes has a higher epoch than the ones before it.
EpochsIncrease ==
  [][\A r \in Runtimes : pc[r] = "opening" /\ pc'[r] = "up" => epoch[r] > lastEpoch]_vars

\* Everything flushed is recovered: a torn tail is dropped, and what is
\* appended after the recovery is as durable as before.
FlushedSurvives ==
  path # NoFile =>
    \A out \in ReadAll(file[path]) : out.ok => FirstLogged(flushed) \subseteq out.obs
=============================================================================
