\* One part of the worker in each behaviour.  It stops when the part is done
\* or at its bound.
SPECIFICATION WorkerSpec
CONSTANTS
    \* Extractor
    Uploads <- SomeUploads
    MaxRounds = 10
    MaxFaulty = 2
    \* FileSearch
    MaxLen = 6
    SearchedWords <- FileWords
    MaxContext = 2
    MaxHits = 2
    Splits = {1, 2, 3}
    ChunkLines = {1, 2}
    Buffer = 2
    Steps = {1, 2}
    \* IndexCache
    Readers = {"r1", "r2"}
    Parts = 2
    MaxVersions = 2
    MaxBuilds = 2
    MaxEvictions = 1
    NoIndex = NoIndex
    \* RuleMatching
    RulePool <- Pool
    MaxRules = 2
    Letters <- RuleLetters
    Lower <- RuleLower
    LowerASCII <- RuleLowerASCII
    MaxLine = 4
    \* Diagnosis
    Goroutines = {"g1", "g2"}
    Tasks <- LogTasks
    Packages <- LogPackages
    Severity <- LogSeverity
    MaxEvents = 5
    \* Drain
    WithDigit = {"x1"}
    Numbers = {"7"}
    MinedFrom <- MinedLines
    MaxDepth = 3
    Threshold = 55
    MaxClusters = 2
    Digest <- MinedDigest
    MaxLines = 5
INVARIANTS
    PackageIsUnpacked
    FileIsSearched
    IndexIsServed
    DiagnosisIsExact
    TemplatesAreSound
PROPERTIES
    GoroutinesEnd
CHECK_DEADLOCK FALSE
