------------------------------ MODULE WorkerUnits ------------------------------
(***************************************************************************)
(* The parts of a worker that do not interact, one of them in each          *)
(* behaviour: the cache of an index, the rules on a line, the pool of a     *)
(* diagnosis, the miner of templates, and two that module WorkerFiles adds. *)
(***************************************************************************)
EXTENDS Integers, RuleMatching, Drain

CONSTANTS
    Readers, Parts, MaxVersions, MaxBuilds, MaxEvictions, NoIndex,   \* IndexCache
    Goroutines, Tasks, Packages, Severity, MaxEvents                 \* Diagnosis

VARIABLES unit,                                                      \* the part at work
          kind, version, memory, reader, holder, saver, inodes, tmp, idx, builds, evictions, mixed, \* IndexCache
          pkg, left, scans, events, total, report                    \* Diagnosis

indexVars == <<kind, version, memory, reader, holder, saver, inodes, tmp, idx, builds, evictions, mixed>>
diagnosisVars == <<pkg, left, scans, events, total, report>>
unitVars == <<unit, indexVars, ruleVars, diagnosisVars, minerVars>>

Indexes == INSTANCE IndexCache WITH None <- NoIndex
Diagnoses == INSTANCE Diagnosis WITH work <- scans

(* An index, and the goroutine that saves it.                               *)
Index == [label : Nat, body : Seq(Nat)]
SaveJob == [data : Index, inode : 0..MaxBuilds, next : 0..(Parts + 1)]
ASSUME IndexAssumption ==
  /\ {Parts, MaxBuilds, MaxEvictions} \subseteq Nat /\ MaxVersions \in Nat \ {0}
  /\ NoIndex \notin Readers \cup Index \cup SaveJob

(* Each file of a package is in the channel once.                           *)
ASSUME PackagesAssumption ==
  /\ MaxEvents \in Nat \ {0} /\ Goroutines # {}
  /\ Tasks \in Seq(Diagnoses!Files) /\ IsInjective(Tasks)
  /\ {"none", "ended"} \cap Diagnoses!Files = {}
  /\ \A p \in Packages : p.count \in [Diagnoses!Files -> Nat] /\ p.broken \subseteq Diagnoses!Files

--------------------------------------------------------------------------------

Off == "off"
IndexOff == kind = Off /\ version = Off /\ memory = Off /\ reader = Off /\ holder = Off /\ saver = Off
            /\ inodes = Off /\ tmp = Off /\ idx = Off /\ builds = Off /\ evictions = Off /\ mixed = Off
RulesOff == rules = Off /\ ids = Off /\ fail = Off /\ child = Off /\ curr = Off /\ trimmed = Off /\ line = Off /\ reading = Off /\ matched = Off
DiagnosisOff == pkg = Off /\ left = Off /\ scans = Off /\ events = Off /\ total = Off /\ report = Off
MinerOff == clusters = Off /\ dropped = Off

UnitInit ==
  \/ unit = "index" /\ Indexes!Init /\ RulesOff /\ DiagnosisOff /\ MinerOff
  \/ unit = "rules" /\ IndexOff /\ RuleInit /\ DiagnosisOff /\ MinerOff
  \/ unit = "diagnosis" /\ IndexOff /\ RulesOff /\ Diagnoses!Init /\ MinerOff
  \/ unit = "miner" /\ IndexOff /\ RulesOff /\ DiagnosisOff /\ MinerInit
  \/ unit \in {"package", "files"} /\ IndexOff /\ RulesOff /\ DiagnosisOff /\ MinerOff

IndexNext == unit = "index" /\ Indexes!Next /\ UNCHANGED <<unit, ruleVars, diagnosisVars, minerVars>>
RulesNext == unit = "rules" /\ RuleNext /\ UNCHANGED <<unit, indexVars, diagnosisVars, minerVars>>
DiagnosisNext == unit = "diagnosis" /\ Diagnoses!Next /\ UNCHANGED <<unit, indexVars, ruleVars, minerVars>>
TemplatesNext == unit = "miner" /\ MinerNext /\ UNCHANGED <<unit, indexVars, ruleVars, diagnosisVars>>

UnitNext == IndexNext \/ RulesNext \/ DiagnosisNext \/ TemplatesNext
UnitSpec == UnitInit /\ [][UnitNext]_unitVars

(* Goroutines that can go on do.                                            *)
IndexWork == unit = "index" /\ Indexes!Work /\ UNCHANGED <<unit, ruleVars, diagnosisVars, minerVars>>
UnitFairness == WF_unitVars(DiagnosisNext) /\ WF_unitVars(IndexWork)

--------------------------------------------------------------------------------

(* An index that is served is the whole index of the version that was seen,  *)
(* built once for that version, whoever asks at the same time and wherever a *)
(* restart interrupts a save; as long as no rewrite of the file meets a      *)
(* request or a save, and no two saves meet.                                 *)
IndexIsServed == unit = "index" => Indexes!TypeOK /\ Indexes!ServedIndexIsExact /\ Indexes!BuiltOnce

(* The automaton finds exactly the rules one of whose words is in a line,    *)
(* this shortcut loses no match of a solid rule, and the report of the pool  *)
(* is full or has every event of the files that can be read.                 *)
DiagnosisIsExact ==
  /\ unit = "rules" => AutomatonIsExact /\ ShortcutKeepsMatches
  /\ unit = "diagnosis" => Diagnoses!TypeOK /\ Diagnoses!ReportIsFullOrWhole

(* A template stands for every line it was given, keeps the words the        *)
(* threshold asks for, and a later one has its ID only if the digests of     *)
(* different lines collide; the latter two unless it was given lines with    *)
(* wild cards of their own.                                                  *)
TemplatesAreSound ==
  unit = "miner" => SameIDIsCollision /\ TemplateCoversItsLines /\ TemplateStaysSpecific

(* A reader that asks for an index is served, and a diagnosis ends, without   *)
(* a goroutine left waiting for a lock or for work.                          *)
GoroutinesEnd ==
  /\ \A r \in Readers :
       (unit = "index" /\ reader[r].at = "disk")
         ~> (unit = "index" /\ (reader[r].at \in {"served", "outside"} \/ builds = MaxBuilds))
  /\ (unit = "diagnosis") ~> (unit = "diagnosis" /\ report # Diagnoses!Running)

================================================================================
