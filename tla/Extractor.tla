-------------------------------- MODULE Extractor --------------------------------
(***************************************************************************)
(* The unpacking of an uploaded package (ExtractArchive): archives inside   *)
(* it are unpacked in rounds, then the compressed logs of a directory are   *)
(* gathered with the plain ones of the same prefix, and merged by time into *)
(* one file.  A name is a prefix, a rotation number and a suffix, a path a  *)
(* sequence of names, and a tree maps the paths of its files to what they   *)
(* hold.  A text is a sequence of logs.                                     *)
(*                                                                          *)
(* Failures covered: an archive that cannot be read at its header or its    *)
(* directory (tar: at the header of an entry); an entry of one that cannot  *)
(* be created, opened, read or written, which is passed over; a compressed  *)
(* log that breaks off; a last buffer that cannot be written, a source of a *)
(* merge that cannot be read and a merge that cannot be written, which are  *)
(* passed over as well.  Zip, 7z and tar differ in where an entry can fail: *)
(* tar has none that cannot be opened.                                      *)
(* Not covered: a rename that fails although nothing is in its way, a       *)
(* directory left without files, and a file in the place of a directory, or *)
(* the reverse, where it is not the first that is found.                    *)
(***************************************************************************)
EXTENDS Integers, Sequences, FiniteSets, SequencesExt

CONSTANTS Uploads,    \* the packages: [name, node]
          MaxRounds,  \* maxDepth (10)
          MaxFaulty   \* bound: files of a package in which something fails

VARIABLES upload,
          phase,    \* "open", "unpack", "gather", "listed" or "failed"
          fs,       \* the tree of the package's directory
          lines,    \* lineMap: [some paths -> lines]
          queue,    \* archives of this round
          found,    \* archives for the next one
          round,
          dirs,     \* directories with compressed logs, still to be gathered
          groups,   \* [dir, prefix, logs] of the directory in hand
          lost      \* logs of which an entry, a write or a source has failed

vars == <<upload, phase, fs, lines, queue, found, round, dirs, groups, lost>>

Name(base, num, ext) == [base |-> base, num |-> num, ext |-> ext]
NoNum == -1
Prefix(n) == Name(n.base, NoNum, "")

(* getArchiveType folds case.                                               *)
IsMulti(n) == n.ext \in {"zip", "ZIP"}
IsSingle(n) == n.ext \in {"gz", "bz2"}

(* getCleanArchiveBase does not: an upper-case suffix stays.                *)
Clean(n) == IF n.ext = "ZIP" THEN n ELSE [n EXCEPT !.ext = ""]

(* What reading an archive as a text gives, and what is left of a text that *)
(* breaks off.                                                              *)
Raw == <<[log |-> "raw", time |-> 0, num |-> NoNum, lines |-> 0, ended |-> FALSE]>>
TextOf(node) == IF node.type = "plain" THEN node.text ELSE Raw
Plain(text) == [type |-> "plain", text |-> text, broken |-> "no"]

CountLines(text) == FoldLeft(LAMBDA n, piece : n + piece.lines, 0, text)

(* The logs of a text, and those of a file with the archives inside it.     *)
Logs(text) == {text[i].log : i \in DOMAIN text} \ {"raw"}
NodesIn(node) ==
  LET Deeper(ns, n) == ns \cup UNION {{x.inside[q] : q \in DOMAIN x.inside} : x \in {y \in ns : y.type = "multi"}}
  IN  FoldLeft(Deeper, {node}, [n \in 1..MaxRounds |-> n])
LogsOf(node) == UNION {Logs(x.text) : x \in {y \in NodesIn(node) : y.type # "multi"}}

IsFile(t, p) == p \in DOMAIN t
IsDir(t, p) == \E q \in DOMAIN t : Len(q) > Len(p) /\ IsPrefix(p, q)
InDir(t, d) == {p \in DOMAIN t : Len(p) = Len(d) + 1 /\ IsPrefix(d, p)}
Below(t, d) == {p \in DOMAIN t : IsPrefix(d, p)}
Without(t, ps) == [p \in DOMAIN t \ ps |-> t[p]]
With(t, u) == [p \in DOMAIN t \cup DOMAIN u |-> IF p \in DOMAIN u THEN u[p] ELSE t[p]]
At(p, x) == [q \in {p} |-> x]

Init ==
  /\ upload \in Uploads
  /\ phase = "open" /\ fs = <<>> /\ lines = <<>>
  /\ queue = {} /\ found = {} /\ round = 0 /\ dirs = {} /\ groups = {} /\ lost = {}

Multis(t, d) == {p \in Below(t, d) : IsMulti(Last(p))}

(* How an entry of an archive fails: its file cannot be created; the entry  *)
(* cannot be opened, when its file is there already; reading it breaks off; *)
(* or its text, counted, does not reach the disk.  Each is passed over.     *)
EntryFault == {"absent", "empty", "cut", "unwritten"}

Left(node, how) ==
  CASE node.type = "plain" -> Plain(IF how = "empty" THEN <<>> ELSE Raw)
    [] node.type = "single" -> [node EXCEPT !.broken = IF how = "empty" THEN "header" ELSE "middle"]
    [] node.type = "multi" -> [node EXCEPT !.broken = "header"]

(* The files an archive gives when the entries in bad fail.                 *)
Extracted(tree, bad, how) ==
  [q \in DOMAIN tree \ (IF how = "absent" THEN bad ELSE {}) |-> IF q \in bad THEN Left(tree[q], how) ELSE tree[q]]

LogsAt(tree, bad) == UNION {LogsOf(tree[q]) : q \in bad}

(* Bound: one failure that is passed over, in a package that is small.      *)
MayFail == lost = {} /\ (upload.node.type = "multi" => Cardinality(DOMAIN upload.node.inside) <= MaxFaulty)
OneOf(S) == {{}} \cup IF MayFail THEN {{x} : x \in S} ELSE {}

(* The package itself: an archive of files, a compressed log, or a plain    *)
(* one.                                                                     *)
Opened(name, node) ==
  CASE IsMulti(name) -> node.inside
    [] IsSingle(name) -> At(<<Prefix(name), Prefix(name)>>, Plain(node.text))
    [] OTHER -> At(<<name>>, node)

(* An error leaves nothing; a failing entry, and the last buffer of a log   *)
(* that cannot be written, are none.                                        *)
Open(bad, how) ==
  /\ phase = "open"
  /\ ~IsMulti(upload.name) => how = "unwritten"
  /\ LET tree == Opened(upload.name, upload.node) IN
     IF upload.node.broken # "no"
     THEN bad = {} /\ phase' = "failed" /\ UNCHANGED <<fs, lines, queue, lost>>
     ELSE /\ bad \subseteq DOMAIN tree
          /\ phase' = "unpack"
          /\ fs' = Extracted(tree, bad, how)
          /\ lines' = [p \in DOMAIN fs' |-> CountLines(TextOf(IF how = "unwritten" THEN tree[p] ELSE fs'[p]))]
          /\ queue' = Multis(fs', <<>>)
          /\ lost' = lost \cup LogsAt(tree, bad)
  /\ UNCHANGED <<upload, found, round, dirs, groups>>

--------------------------------------------------------------------------------

(* Where the files of an archive go: into a directory with its name, unless *)
(* it has one with that name itself, which then takes the others in.        *)
Target(p, inside, q) ==
  LET clean == Clean(Last(p))
      own == \E r \in DOMAIN inside : Len(r) > 1 /\ r[1] = clean
  IN  IF own /\ Len(q) > 1 /\ q[1] = clean THEN Front(p) \o q ELSE Front(p) \o <<clean>> \o q

(* The tree of files that are moved: the directory of the same name goes    *)
(* first, and what follows replaces what is there.  The directories of an   *)
(* entry are made before its file.                                          *)
Moved(p, inside, tree) ==
  LET At2(own) == {q \in DOMAIN tree : own = (Len(q) > 1 /\ q[1] = Clean(Last(p)))}
      Put(qs) == [t \in {Target(p, inside, q) : q \in qs} |-> tree[CHOOSE q \in qs : Target(p, inside, q) = t]]
  IN  With(Put(At2(TRUE)), Put(At2(FALSE)))

(* An archive whose unpacking ends with an error stays as it is.            *)
Stays(node) == node.broken # "no"

(* unpackNestedArchives, one archive: it is unpacked beside its place and   *)
(* moved there; a file in that place (or the archive itself, when its name  *)
(* keeps the suffix) makes the move fail, which is ignored.  It is deleted, *)
(* also when entries of it have failed.  The numbers of lines were noted    *)
(* under the temporary names and are lost.                                  *)
Unpack(p, bad, how) ==
  /\ phase = "unpack" /\ p \in queue
  /\ queue' = queue \ {p}
  /\ LET dest == Front(p) \o <<Clean(Last(p))>> IN
     IF ~IsFile(fs, p) \/ Stays(fs[p])
     THEN bad = {} /\ UNCHANGED <<fs, lines, found, lost>>
     ELSE /\ bad \subseteq DOMAIN fs[p].inside
          /\ LET tree == Extracted(fs[p].inside, bad, how) IN
             fs' = With(Without(fs, {p}), IF IsFile(fs, dest) THEN <<>> ELSE Moved(p, fs[p].inside, tree))
          /\ lost' = lost \cup LogsAt(fs[p].inside, bad)
          /\ lines' = Without(lines, {p})
          /\ found' = found \cup Multis(fs', dest)
  /\ UNCHANGED <<upload, phase, round, dirs, groups>>

(* The archives found become the next round's, up to a number of rounds;    *)
(* then the directories with compressed logs are listed.                    *)
NextRound ==
  /\ phase = "unpack" /\ queue = {}
  /\ IF found # {} /\ round + 1 < MaxRounds
     THEN queue' = found /\ round' = round + 1 /\ UNCHANGED <<phase, dirs>>
     ELSE /\ phase' = "gather"
          /\ dirs' = {Front(p) : p \in {q \in DOMAIN fs : IsSingle(Last(q))}}
          /\ UNCHANGED <<queue, round>>
  /\ found' = {}
  /\ UNCHANGED <<upload, fs, lines, groups, lost>>

--------------------------------------------------------------------------------

(* processSingleArchivesInDir lists the compressed logs by their prefix.    *)
EnterDir(d) ==
  /\ phase = "gather" /\ groups = {} /\ d \in dirs
  /\ dirs' = dirs \ {d}
  /\ LET logs == {p \in InDir(fs, d) : IsSingle(Last(p))} IN
     groups' = {[dir |-> d, prefix |-> x, logs |-> {p \in logs : Prefix(Last(p)) = x}] : x \in {Prefix(Last(p)) : p \in logs}}
  /\ UNCHANGED <<upload, phase, fs, lines, queue, found, round, lost>>

(* A tree, the numbers of lines noted for it and what it has lost; an       *)
(* absent note reads as zero.                                               *)
State == [fs |-> fs, lines |-> lines, lost |-> lost]
Note(s, p) == IF p \in DOMAIN s.lines THEN s.lines[p] ELSE 0

(* Rename, with the note that follows it.  A directory in the way makes the *)
(* rename fail, but the note has moved.                                     *)
Rename(s, p, q) ==
  [s EXCEPT !.fs = IF IsDir(s.fs, q) THEN s.fs ELSE With(Without(s.fs, {p}), At(q, s.fs[p])),
            !.lines = With(Without(s.lines, {p}), At(q, Note(s, p)))]

(* A plain file with the name of the prefix makes room for the directory,   *)
(* and is then moved into it; its note stays behind.                        *)
MadeRoom(s, dest, prefix) ==
  IF IsFile(s.fs, dest) THEN [s EXCEPT !.fs = With(Without(s.fs, {dest}), At(Append(dest, prefix), s.fs[dest]))] ELSE s

(* All files of the prefix but the compressed ones are moved.               *)
MovedIn(s, g, dest) ==
  LET mine == {p \in InDir(s.fs, g.dir) : Prefix(Last(p)) = g.prefix /\ ~IsSingle(Last(p))} IN
  FoldLeft(LAMBDA t, p : Rename(t, p, Append(dest, Last(p))), s, SetToSeq(mine))

(* What else fails in a gathering: the last buffer of a compressed log in   *)
(* cut; reading the i-th source of a merge, of which a text is left; writing*)
(* from the i-th source on.                                                 *)
NoFault == [cut |-> {}, unread |-> {}, left |-> <<>>, unwritten |-> {}]
Faults(g) ==
  LET files == 1..Cardinality(DOMAIN fs) IN
  {NoFault}
  \cup {[NoFault EXCEPT !.cut = c] : c \in OneOf(g.logs)}
  \cup {[NoFault EXCEPT !.unread = u, !.left = t] : u \in OneOf(files), t \in {<<>>, Raw}}
  \cup {[NoFault EXCEPT !.unwritten = w] : w \in OneOf(files)}

(* Every compressed log is written where its name without the suffix leads, *)
(* over what is there, the .bz2 before the .gz.  One that breaks off leaves *)
(* the part it had; it is kept.  One of which the last buffer cannot be     *)
(* written is deleted all the same.                                         *)
Decompressed(s, p, dest, cut) ==
  LET node == s.fs[p]
      to == Append(dest, Clean(Last(p)))
      text == IF node.broken = "middle" THEN Raw ELSE node.text
      disk == IF p \in cut THEN Raw ELSE text
      written == [s EXCEPT !.fs = With(@, At(to, Plain(disk))), !.lines = With(@, At(to, CountLines(text)))]
  IN  IF node.broken = "header" \/ IsDir(s.fs, to) THEN s
      ELSE IF node.broken = "middle" THEN written
      ELSE [written EXCEPT !.fs = Without(@, {p}), !.lines = Without(@, {p}),
                           !.lost = IF p \in cut THEN @ \cup Logs(text) ELSE @]

AllDecompressed(s, g, dest, cut) ==
  LET Of(ext) == SetToSeq({p \in g.logs : Last(p).ext = ext /\ p \in DOMAIN s.fs}) IN
  FoldLeft(LAMBDA t, p : Decompressed(t, p, dest, cut), s, Of("bz2") \o Of("gz"))

(* fallbackLogScore: the higher the number of a rotated log, the older.     *)
Fallback(name) == IF name.num # NoNum /\ name.ext = "" THEN -name.num ELSE 1000

(* extractLogStartTime: the time of the first lines, else the name's.       *)
Score(node, name) ==
  LET text == TextOf(node) IN IF text # <<>> /\ text[1].time > 0 THEN text[1].time ELSE Fallback(name)

(* The order of names in a directory.                                       *)
ByName(m, n) == m.num < n.num \/ (m.num = n.num /\ m.ext = "" /\ n.ext # "") \/ (m.num = n.num /\ m.ext = "bz2" /\ n.ext \in {"gz", "zip", "ZIP"})

Ordered(t, ps) ==
  SetToSortSeq(ps, LAMBDA p, q : LET a == Score(t[p], Last(p)) b == Score(t[q], Last(q)) IN
                                   a < b \/ (a = b /\ ByName(Last(p), Last(q))))

(* mergeLogFilesIntoOne: the texts in a row, each ended, up to where they   *)
(* cannot be written any more; the lines of all are counted.                *)
Joined(texts) ==
  LET Ended(text) == IF text = <<>> \/ Last(text).ended THEN text
                     ELSE [text EXCEPT ![Len(text)].ended = TRUE, ![Len(text)].lines = @ + 1]
  IN  FoldLeft(LAMBDA all, text : all \o Ended(text), <<>>, texts)

Merge(texts, unwritten) ==
  IF unwritten \cap DOMAIN texts = {} THEN Joined(texts)
  ELSE LET i == CHOOSE j \in unwritten : TRUE IN Joined(SubSeq(texts, 1, i - 1)) \o Raw

Total(texts) == FoldLeft(LAMBDA n, text : n + CountLines(text) + IF text = <<>> \/ Last(text).ended THEN 0 ELSE 1, 0, texts)

(* Mutant: the file that was merged into is removed as a source.            *)
SourcesAll(ps, final) == ps

Sources(ps, final) == ps \ {final}

(* The files of the prefix in its directory, compressed ones that were      *)
(* there before included, become one: renamed if there is one only.  They   *)
(* are removed whatever of them has been read and written.                  *)
Merged(s, dest, prefix, fault) ==
  LET ps == {p \in InDir(s.fs, dest) : Prefix(Last(p)) = prefix}
      final == Append(dest, prefix)
      order == Ordered(s.fs, ps)
      all == [i \in DOMAIN order |-> TextOf(s.fs[order[i]])]
      texts == [i \in DOMAIN order |-> IF i \in fault.unread THEN fault.left ELSE all[i]]
      missed == {i \in DOMAIN order : i \in fault.unread \/ \E j \in fault.unwritten : j <= i}
      one == CHOOSE p \in ps : TRUE
  IN  IF ps = {} \/ ps = {final} THEN s
      ELSE IF Cardinality(ps) = 1 THEN Rename(s, one, final)
      ELSE IF IsDir(s.fs, final) THEN s
      ELSE LET gone == Sources(ps, final) IN
           [fs |-> Without(With(s.fs, At(final, Plain(Merge(texts, fault.unwritten)))), gone),
            lines |-> With(Without(s.lines, gone), At(final, Total(texts))),
            lost |-> s.lost \cup UNION {Logs(all[i]) : i \in missed}]

(* One prefix of a directory, from the making of its directory to the       *)
(* merge.                                                                   *)
Gather(g, fault) ==
  /\ phase = "gather" /\ g \in groups
  /\ groups' = groups \ {g}
  /\ LET dest == Append(g.dir, g.prefix)
         room == MadeRoom(State, dest, g.prefix)
         in == MovedIn(room, g, dest)
         out == Merged(AllDecompressed(in, g, dest, fault.cut), dest, g.prefix, fault)
     IN  fs' = out.fs /\ lines' = out.lines /\ lost' = out.lost
  /\ UNCHANGED <<upload, phase, queue, found, round, dirs>>

(* The list of files is made: a file without a note is counted.             *)
List ==
  /\ phase = "gather" /\ dirs = {} /\ groups = {}
  /\ phase' = "listed"
  /\ lines' = [p \in DOMAIN fs |-> IF p \in DOMAIN lines THEN lines[p] ELSE CountLines(TextOf(fs[p]))]
  /\ UNCHANGED <<upload, fs, queue, found, round, dirs, groups, lost>>

EntriesOf(node) == IF node.type = "multi" THEN DOMAIN node.inside ELSE {}

Next ==
  \/ NextRound \/ List
  \/ \E how \in EntryFault, bad \in OneOf(DOMAIN Opened(upload.name, upload.node)) : Open(bad, how)
  \/ \E p \in queue, how \in EntryFault : \E bad \in OneOf(IF IsFile(fs, p) THEN EntriesOf(fs[p]) ELSE {}) : Unpack(p, bad, how)
  \/ \E d \in dirs : EnterDir(d)
  \/ \E g \in groups : \E fault \in Faults(g) : Gather(g, fault)

Spec == Init /\ [][Next]_vars

--------------------------------------------------------------------------------

(* What is in the package: its files and, where they belong, those of the   *)
(* archives that can be unpacked, as [path, file].                          *)
Openable(e) == e.file.type = "multi" /\ e.file.broken = "no"
Inside(e) == {[path |-> Target(e.path, e.file.inside, q), file |-> e.file.inside[q]] : q \in DOMAIN e.file.inside}

Packed ==
  LET top == Opened(upload.name, upload.node)
      Deeper(es, n) == es \cup UNION {Inside(e) : e \in {x \in es : Openable(x)}}
  IN  FoldLeft(Deeper, {[path |-> p, file |-> top[p]] : p \in DOMAIN top}, [n \in 1..MaxRounds |-> n])

Content == {e \in Packed : ~Openable(e)}

Decoded(p) == IF IsSingle(Last(p)) THEN Append(Front(p), Clean(Last(p))) ELSE p

(* No two files of the package come to one place: none has the name of      *)
(* another without its suffix or of a directory, no archive is unpacked     *)
(* over what is there, and a directory that takes compressed logs in is     *)
(* not there before.  No archive has an upper-case suffix.                  *)
Apart ==
  /\ \A e \in Packed : Last(e.path).ext # "ZIP"
  /\ \A f, g \in Content : f # g =>
       /\ ~IsPrefix(Decoded(f.path), Decoded(g.path))
       /\ IsSingle(Last(f.path)) => ~IsPrefix(Append(Front(f.path), Prefix(Last(f.path))), Front(g.path))

Times(text, log) == Cardinality({i \in DOMAIN text : text[i].log = log})

(* What fails is lost alone, and nothing is there twice: of a package whose *)
(* files come to different places, each log that can be decompressed ends   *)
(* up in exactly one plain file, once, whatever the order of directories    *)
(* and prefixes, unless its own entry, write or source has failed; and an   *)
(* archive that cannot be opened, or a log that breaks off, is still there  *)
(* as it was, unless it was taken for a log of its prefix.                  *)
NothingIsLost ==
  (phase = "listed" /\ Apart) =>
    /\ \A f \in Content : f.file.type # "multi" /\ f.file.broken = "no" =>
         \A log \in Logs(f.file.text) \ lost :
           \E p \in DOMAIN fs : /\ fs[p].type = "plain" /\ Times(fs[p].text, log) = 1
                                /\ \A q \in DOMAIN fs \ {p} : fs[q].type = "plain" => Times(fs[q].text, log) = 0
    /\ \A f \in Content : f.file.broken # "no" /\ LogsOf(f.file) \cap lost = {} =>
         \/ f.path \in DOMAIN fs /\ fs[f.path] = f.file
         \/ f.file.type = "multi" /\ \E g \in Content :
              IsSingle(Last(g.path)) /\ Front(g.path) = Front(f.path) /\ Prefix(Last(g.path)) = Prefix(Last(f.path))

(* A merged file has its logs in the order of their times; those without a  *)
(* time are in the order of their rotation, the oldest first.               *)
MergedInTime ==
  phase = "listed" => \A p \in DOMAIN fs : fs[p].type = "plain" =>
    \A i, j \in DOMAIN fs[p].text : i < j =>
      LET a == fs[p].text[i] b == fs[p].text[j] IN
      /\ (a.time > 0 /\ b.time > 0) => a.time <= b.time
      /\ (a.time = 0 /\ b.time = 0 /\ a.log # "raw" /\ b.log # "raw") =>
           (b.num = NoNum \/ (a.num # NoNum /\ a.num >= b.num))

(* The number of lines reported for a file is the number it has, if the     *)
(* package's files come to different places, none is broken and nothing has *)
(* failed.  A broken one leaves a log of its prefix from an archive without *)
(* its note, and zero is reported; what is not written is counted.          *)
LinesAreCounted ==
  (phase = "listed" /\ Apart /\ lost = {} /\ \A f \in Content : f.file.broken = "no") =>
    \A p \in DOMAIN fs : lines[p] = CountLines(TextOf(fs[p]))

================================================================================
