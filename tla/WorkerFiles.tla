------------------------------ MODULE WorkerFiles ------------------------------
(***************************************************************************)
(* The parts of a worker, with the two that work on files: the unpacking of *)
(* a package, and the search and the indexes of a file.                     *)
(***************************************************************************)
EXTENDS WorkerUnits, FileSearch

CONSTANTS Uploads, MaxRounds, MaxFaulty   \* Extractor

VARIABLES upload, phase, fs, lines, queue, found, round, dirs, groups, lost   \* Extractor

packageVars == <<upload, phase, fs, lines, queue, found, round, dirs, groups, lost>>
workerVars == <<unitVars, packageVars, file>>

Unpacking == INSTANCE Extractor

PackageOff == upload = Off /\ phase = Off /\ fs = Off /\ lines = Off /\ queue = Off /\ found = Off /\ round = Off /\ dirs = Off /\ groups = Off /\ lost = Off
FilesOff == file = Off

WorkerInit ==
  /\ UnitInit
  /\ IF unit = "package" THEN Unpacking!Init ELSE PackageOff
  /\ IF unit = "files" THEN FileInit ELSE FilesOff

PackageNext == unit = "package" /\ Unpacking!Next /\ UNCHANGED <<unitVars, file>>
FilesNext == unit = "files" /\ FileNext /\ UNCHANGED <<unitVars, packageVars>>

WorkerNext == PackageNext \/ FilesNext \/ (UnitNext /\ UNCHANGED <<packageVars, file>>)

(* Its initial states and steps are those of UnitSpec, or leave it alone.   *)
WorkerSpec == WorkerInit /\ [][WorkerNext]_workerVars /\ UnitFairness

--------------------------------------------------------------------------------

(* Of a package whose files come to different places, each log that can be  *)
(* decompressed ends up in exactly one plain file, once, unless its own      *)
(* entry, write or source has failed; a merged file has its logs in the      *)
(* order of their times, and as many lines as reported when nothing failed.  *)
PackageIsUnpacked ==
  unit = "package" => Unpacking!NothingIsLost /\ Unpacking!MergedInTime /\ Unpacking!LinesAreCounted

(* A file searched in parts gives what one pass over the whole finds, the    *)
(* Bloom index skips no line that has the keyword's tokens as its own, hits  *)
(* come with the lines around them, and a window read through the line index *)
(* is that of the file.                                                      *)
FileIsSearched ==
  unit = "files" =>
    ChunksFindAll /\ SkipScanFindsTokens /\ HitsKeepContext /\ IndexedReadIsExact

================================================================================
