------------------------------- MODULE IndexCache -------------------------------
(***************************************************************************)
(* The sparse line index and the chunk Bloom index of one file: readers ask *)
(* for it (GetOrBuildLineIndex, GetOrBuildBloomIndex), it is looked for in  *)
(* memory and beside the file, else built under the lock of the file, and   *)
(* saved by a goroutine of its own.  The file may be written anew, and      *)
(* memory may drop an index to make room.  An index is the version of the   *)
(* file it is for and the versions its parts were read from; on disk it is  *)
(* a header and these parts, a block each.                                  *)
(***************************************************************************)
EXTENDS Naturals, Sequences, FiniteSets

CONSTANTS Readers,
          Parts,        \* parts of an index, written one by one (64 KB each)
          MaxVersions,  \* bound: versions of the file
          MaxBuilds,    \* bound: indexes built
          MaxEvictions, \* bound: times memory drops the index
          None

VARIABLES kind,     \* "line" or "bloom"
          version,  \* of the file: its size and modification time
          memory,   \* the LRU cache: an index or None
          reader,   \* [Readers -> where it is, the version it saw, its index]
          holder,   \* the reader that holds the lock of the file, or None
          saver,    \* [1..MaxBuilds -> the index, the open file and the next block, or None]
          inodes,   \* [1..MaxBuilds -> blocks of a file of the index]
          tmp, idx, \* the inodes the two names lead to, 0 if there is none
          builds, evictions,
          mixed     \* the file was written during a request, a build or a save, or two saves met

vars == <<kind, version, memory, reader, holder, saver, inodes, tmp, idx, builds, evictions, mixed>>

Hole == 0
Outside == [at |-> "outside", seen |-> 0, index |-> None]

Init ==
  /\ kind \in {"line", "bloom"}
  /\ version = 1 /\ memory = None /\ holder = None
  /\ reader = [r \in Readers |-> Outside]
  /\ saver = [s \in 1..MaxBuilds |-> None]
  /\ inodes = [i \in 1..MaxBuilds |-> <<>>]
  /\ tmp = 0 /\ idx = 0 /\ builds = 0 /\ evictions = 0 /\ mixed = FALSE

Saving == \E s \in 1..MaxBuilds : saver[s] # None
files == <<saver, inodes, tmp, idx>>

--------------------------------------------------------------------------------

Goes(r, at, index) == reader' = [reader EXCEPT ![r].at = at, ![r].index = index]

(* os.Stat, with the first look into memory.                                *)
Asks(r) ==
  /\ reader[r].at = "outside"
  /\ reader' = [reader EXCEPT ![r] =
       IF memory # None /\ memory.label = version
       THEN [at |-> "served", seen |-> version, index |-> memory]
       ELSE [at |-> "disk", seen |-> version, index |-> None]]
  /\ UNCHANGED <<kind, version, memory, holder, files, builds, evictions, mixed>>

(* loadLineIndexFromDisk and loadBloomIndexFromDisk: the header must be for *)
(* the version that was seen.  A Bloom index knows how many blocks it has;  *)
(* a line index takes those there are.                                      *)
Loaded(blocks, seen) ==
  IF Len(blocks) = 0 \/ Len(blocks) < IF kind = "bloom" THEN Parts + 1 ELSE 1 THEN None
  ELSE IF blocks[1] # seen THEN None
  ELSE [label |-> seen, body |-> Tail(blocks)]

LooksOnDisk(r) ==
  /\ reader[r].at = "disk"
  /\ LET index == IF idx = 0 THEN None ELSE Loaded(inodes[idx], reader[r].seen) IN
     IF index # None
     THEN memory' = index /\ Goes(r, "served", index)
     ELSE Goes(r, "lock", None) /\ UNCHANGED memory
  /\ UNCHANGED <<kind, version, holder, files, builds, evictions, mixed>>

(* The double check.                                                        *)
LooksAgain(r) == memory # None /\ memory.label = reader[r].seen

Locks(r) ==
  /\ reader[r].at = "lock" /\ holder = None
  /\ IF LooksAgain(r)
     THEN Goes(r, "served", memory) /\ UNCHANGED <<holder, builds>>
     ELSE /\ builds < MaxBuilds
          /\ builds' = builds + 1
          /\ holder' = r
          /\ Goes(r, "build", [label |-> reader[r].seen, body |-> <<>>])
  /\ UNCHANGED <<kind, version, memory, files, evictions, mixed>>

(* A part is read from the file as it is now.                               *)
Builds(r) ==
  /\ reader[r].at = "build" /\ Len(reader[r].index.body) < Parts
  /\ reader' = [reader EXCEPT ![r].index.body = Append(@, version)]
  /\ UNCHANGED <<kind, version, memory, holder, files, builds, evictions, mixed>>

(* Mutant: the lock is kept.                                                *)
Kept(r) == r

Released(r) == None

(* The saver starts, the index goes to memory, and the lock is released.    *)
Built(r) ==
  /\ reader[r].at = "build" /\ Len(reader[r].index.body) = Parts
  /\ memory' = reader[r].index
  /\ saver' = [saver EXCEPT ![builds] = [data |-> reader[r].index, inode |-> 0, next |-> 0]]
  /\ mixed' = (mixed \/ Saving)
  /\ holder' = Released(r)
  /\ Goes(r, "served", reader[r].index)
  /\ UNCHANGED <<kind, version, inodes, tmp, idx, builds, evictions>>

(* The reader has done with its index.                                      *)
Leaves(r) ==
  /\ reader[r].at = "served"
  /\ reader' = [reader EXCEPT ![r] = Outside]
  /\ UNCHANGED <<kind, version, memory, holder, files, builds, evictions, mixed>>

--------------------------------------------------------------------------------

(* The temporary file has one name: opening it cuts down the one that is    *)
(* there, whoever else has it open.                                         *)
Opens(s) ==
  /\ saver[s] # None /\ saver[s].inode = 0
  /\ LET i == IF tmp = 0 THEN s ELSE tmp IN
     /\ tmp' = i
     /\ inodes' = [inodes EXCEPT ![i] = <<>>]
     /\ saver' = [saver EXCEPT ![s].inode = i]
  /\ UNCHANGED <<kind, version, memory, reader, holder, idx, builds, evictions, mixed>>

(* A write goes to the saver's own offset; what is missing before it reads  *)
(* as zero.                                                                 *)
Put(blocks, at, x) ==
  [j \in 1..(IF at > Len(blocks) THEN at ELSE Len(blocks)) |->
     IF j = at THEN x ELSE IF j <= Len(blocks) THEN blocks[j] ELSE Hole]

Writes(s) ==
  /\ saver[s] # None /\ saver[s].inode # 0 /\ saver[s].next <= Parts
  /\ LET d == saver[s].data n == saver[s].next IN
     inodes' = [inodes EXCEPT ![saver[s].inode] = Put(@, n + 1, IF n = 0 THEN d.label ELSE d.body[n])]
  /\ saver' = [saver EXCEPT ![s].next = @ + 1]
  /\ UNCHANGED <<kind, version, memory, reader, holder, tmp, idx, builds, evictions, mixed>>

(* Mutant: the last part is still in the buffer when the file is renamed.   *)
MayRenameEarly(s) == saver[s].next >= Parts

MayRename(s) == saver[s].next > Parts

(* The name is moved to whatever the temporary file is now; a saver that    *)
(* finds it gone fails and says nothing.                                    *)
Renames(s) ==
  /\ saver[s] # None /\ saver[s].inode # 0 /\ MayRename(s)
  /\ IF tmp # 0 THEN idx' = tmp /\ tmp' = 0 ELSE UNCHANGED <<idx, tmp>>
  /\ saver' = [saver EXCEPT ![s] = None]
  /\ UNCHANGED <<kind, version, memory, reader, holder, inodes, builds, evictions, mixed>>

--------------------------------------------------------------------------------

(* The file is extracted again.                                             *)
Rewrite ==
  /\ version < MaxVersions
  /\ version' = version + 1
  /\ mixed' = (mixed \/ Saving \/ \E r \in Readers : reader[r].at \in {"disk", "lock", "build"})
  /\ UNCHANGED <<kind, memory, reader, holder, files, builds, evictions>>

(* Memory drops the index for those of other files.                         *)
Evict ==
  /\ memory # None /\ evictions < MaxEvictions
  /\ memory' = None /\ evictions' = evictions + 1
  /\ UNCHANGED <<kind, version, reader, holder, files, builds, mixed>>

(* The worker starts anew: memory is empty, nothing is asked for or saved,  *)
(* what was written of the temporary file remains.                          *)
Restart ==
  /\ evictions < MaxEvictions
  /\ evictions' = evictions + 1
  /\ memory' = None /\ holder' = None
  /\ reader' = [r \in Readers |-> Outside]
  /\ saver' = [s \in 1..MaxBuilds |-> None]
  /\ UNCHANGED <<kind, version, inodes, tmp, idx, builds, mixed>>

Reader(r) == Asks(r) \/ LooksOnDisk(r) \/ Locks(r) \/ Builds(r) \/ Built(r) \/ Leaves(r)
Saver(s) == Opens(s) \/ Writes(s) \/ Renames(s)

Next ==
  \/ \E r \in Readers : Reader(r)
  \/ \E s \in 1..MaxBuilds : Saver(s)
  \/ Rewrite \/ Evict \/ Restart

(* What the code itself does, without requests and changes from outside.    *)
Work ==
  \/ \E r \in Readers : LooksOnDisk(r) \/ Locks(r) \/ Builds(r) \/ Built(r)
  \/ \E s \in 1..MaxBuilds : Saver(s)

Spec == Init /\ [][Next]_vars

--------------------------------------------------------------------------------

TypeOK ==
  /\ version \in 1..MaxVersions /\ builds \in 0..MaxBuilds /\ evictions \in 0..MaxEvictions
  /\ \A r \in Readers : /\ reader[r].at \in {"outside", "disk", "lock", "build", "served"}
                        /\ (reader[r].at = "build") = (holder = r)
                        /\ (reader[r].at = "served") => reader[r].index # None
  /\ tmp # 0 => tmp # idx
  /\ \A i \in 1..MaxBuilds : Len(inodes[i]) <= Parts + 1

(* What a reader is served is the whole index of the version it saw, unless *)
(* the file was written anew under a request or a save, or two saves met:   *)
(* they share one temporary file, and the first to end publishes what the   *)
(* other has only begun.  In particular a crash in the middle of a save     *)
(* leaves nothing that is later taken for an index.                         *)
ServedIndexIsExact ==
  \A r \in Readers : (reader[r].at = "served" /\ ~mixed) =>
    reader[r].index = [label |-> reader[r].seen, body |-> [i \in 1..Parts |-> reader[r].seen]]

(* An index is built once for a version, whoever asks at the same time: the *)
(* second build needs a change of the file, an eviction or a restart.       *)
BuiltOnce == mixed \/ builds <= version + evictions

================================================================================
