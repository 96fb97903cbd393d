------------------------------- MODULE FileSearch -------------------------------
(***************************************************************************)
(* Search in one log file and reading of a window of its lines: the chunks  *)
(* of the parallel search, the chunk Bloom index that lets it skip chunks,  *)
(* the scan that collects hits with their context, and the sparse line      *)
(* index.  A file is a sequence of characters of these kinds; the offset of *)
(* a character is its position less one.  The level filter and the folding  *)
(* of case only change which lines match and are left out.  The file grows  *)
(* by a character at a time, so that every file up to MaxLen is met.        *)
(***************************************************************************)
EXTENDS Integers, Sequences, SequencesExt

CONSTANTS MaxLen,      \* bound: characters in a file
          SearchedWords,    \* the keywords searched for
          MaxContext,  \* bound: lines of context
          MaxHits,     \* bound: hits asked for
          Splits,      \* numbers of parts of a file
          ChunkLines,  \* lines of a chunk of the Bloom index
          Buffer,      \* characters the index reads at a time, or the whole file
          Steps        \* lines between two entries of the line index

VARIABLE file

NL == "n"          \* end of line
WordChars == {"k"}                       \* letters, digits, underscore
TokenChars == WordChars \cup {"-"}       \* what the Bloom index has in a token
Chars == TokenChars \cup {" ", NL}

ASSUME FilesAssumption ==
  /\ {MaxLen, MaxContext, MaxHits} \subseteq Nat /\ Buffer \in Nat \ {0}
  /\ Splits \cup ChunkLines \cup Steps \subseteq Nat \ {0}
  /\ SearchedWords \subseteq Seq(Chars)

(* bufio.Scanner with ScanLines: a last line without its end is a line.     *)
TakeChar(acc, c) ==
  IF c = NL THEN [lines |-> Append(acc.lines, acc.rest), rest |-> <<>>]
  ELSE [acc EXCEPT !.rest = Append(@, c)]
Taken(f) == FoldLeft(TakeChar, [lines |-> <<>>, rest |-> <<>>], f)
Lines(f) == LET all == Taken(f) IN IF all.rest = <<>> THEN all.lines ELSE Append(all.lines, all.rest)

(* The characters from offset a up to offset b.                             *)
Section(f, a, b) == SubSeq(f, a + 1, b)

Occurs(s, kw, i) == SubSeq(s, i, i + Len(kw) - 1) = kw
Places(s, kw) == {i \in 1..(Len(s) - Len(kw) + 1) : Occurs(s, kw, i)}

(* bytes.Contains, or bytesContainsWholeWord: no word character may touch   *)
(* the occurrence.                                                          *)
Matches(line, q) ==
  \E i \in Places(line, q.kw) :
    q.whole => /\ i > 1 => line[i - 1] \notin WordChars
               /\ i + Len(q.kw) <= Len(line) => line[i + Len(q.kw)] \notin WordChars

(***************************************************************************)
(* The scan                                                                *)
(***************************************************************************)

(* byteRing: the last maxCap lines, overwritten from the oldest.            *)
NewRing(cap) == [slots |-> [i \in 0..(cap - 1) |-> <<>>], head |-> 0, count |-> 0]

Push(r, cap, line) ==
  IF cap = 0 THEN r
  ELSE IF r.count < cap
  THEN [r EXCEPT !.slots[(r.head + r.count) % cap] = line, !.count = @ + 1]
  ELSE [r EXCEPT !.slots[r.head] = line, !.head = (@ + 1) % cap]

RingLines(r, cap) == [i \in 1..r.count |-> r.slots[(r.head + i - 1) % cap]]

(* A line goes to every hit that waits for lines after it; a full one comes *)
(* out.                                                                     *)
Feeds(line, context, acc, h) ==
  LET fed == [h EXCEPT !.after = Append(@, line)] IN
  IF Len(fed.after) >= context THEN [acc EXCEPT !.hits = Append(@, fed)] ELSE [acc EXCEPT !.pending = Append(@, fed)]
Fed(acc, line, context) ==
  FoldLeft(LAMBDA a, h : Feeds(line, context, a, h), [hits |-> acc.hits, pending |-> <<>>], acc.pending)

(* One line of searchInSingleFile and searchChunk: the waiting hits get it  *)
(* before the line itself is looked at, and enough hits end the scan.       *)
ScanLine(acc, line, q) ==
  LET fed == Fed(acc, line, q.context)
      hit == [line |-> acc.n + 1, before |-> RingLines(acc.ring, q.context), after |-> <<>>]
      next == [n |-> acc.n + 1, ring |-> Push(acc.ring, q.context, line), hits |-> fed.hits, pending |-> fed.pending, stop |-> FALSE]
  IN  IF acc.stop THEN acc
      ELSE IF acc.pending # <<>> /\ Len(fed.hits) >= q.max THEN [next EXCEPT !.stop = TRUE, !.ring = acc.ring]
      ELSE IF ~Matches(line, q) THEN next
      ELSE IF q.context = 0 THEN [next EXCEPT !.hits = Append(@, hit), !.stop = Len(fed.hits) + 1 >= q.max]
      ELSE [next EXCEPT !.pending = Append(@, hit)]

(* The hits that are still pending at the end come last.                    *)
Scanned(lines, q) ==
  FoldLeft(LAMBDA acc, line : ScanLine(acc, line, q),
           [n |-> 0, ring |-> NewRing(q.context), hits |-> <<>>, pending |-> <<>>, stop |-> FALSE], lines)
ChunkResult(acc) == [total |-> acc.n, hits |-> acc.hits \o acc.pending]
Scan(lines, q) == ChunkResult(Scanned(lines, q))

(***************************************************************************)
(* Chunks                                                                  *)
(***************************************************************************)

(* Mutant: the offset of the end of line itself.                            *)
NextEnd(f, off) ==
  LET ends == {i \in (off + 1)..Len(f) : f[i] = NL}
  IN  IF ends = {} THEN Len(f) ELSE (CHOOSE i \in ends : \A j \in ends : i <= j) - 1

(* The offset after the first end of line at or after an offset.            *)
NextLine(f, off) ==
  LET ends == {i \in (off + 1)..Len(f) : f[i] = NL}
  IN  IF ends = {} THEN Len(f) ELSE CHOOSE i \in ends : \A j \in ends : i <= j

(* calculateFileChunks: n parts of about the same size, moved to the ends   *)
(* of lines; the empty ones are left out.                                   *)
Border(f, n, i) ==
  LET target == i * (Len(f) \div n) IN
  IF i = 0 THEN 0 ELSE IF i = n \/ target >= Len(f) THEN Len(f) ELSE NextLine(f, target)

AddChunk(f, n, chunks, i) ==
  LET c == [start |-> Border(f, n, i - 1), end |-> Border(f, n, i), line |-> 0] IN
  IF c.start < c.end THEN Append(chunks, c) ELSE chunks

CalculateFileChunks(f, n) == FoldLeft(LAMBDA chunks, i : AddChunk(f, n, chunks, i), <<>>, [i \in 1..n |-> i])

(* searchInSingleFileParallel: every chunk is scanned on its own, and the   *)
(* numbers of its hits are moved to its first line, which the Bloom index   *)
(* knows and otherwise the chunks before it add up to.                      *)
Join(f, q, acc, c) ==
  LET res == Scan(Lines(Section(f, c.start, c.end)), [q EXCEPT !.max = Len(f) + 1])
      base == IF c.line > 0 THEN c.line ELSE acc.base
  IN  [base |-> acc.base + res.total,
       hits |-> acc.hits \o [i \in DOMAIN res.hits |-> [res.hits[i] EXCEPT !.line = base + @ - 1]]]
Joined(f, chunks, q) == FoldLeft(LAMBDA acc, c : Join(f, q, acc, c), [base |-> 1, hits |-> <<>>], chunks)
FirstHits(hits, max) == SubSeq(hits, 1, IF Len(hits) < max THEN Len(hits) ELSE max)
Merge(f, chunks, q) == FirstHits(Joined(f, chunks, q).hits, q.max)

(***************************************************************************)
(* Bloom index                                                             *)
(***************************************************************************)

(* The tokens of two characters or more.                                    *)
Tokens(s) ==
  {SubSeq(s, p[1], p[2]) : p \in
     {q \in (1..Len(s)) \X (1..Len(s)) :
        /\ q[2] > q[1]
        /\ \A x \in q[1]..q[2] : s[x] \in TokenChars
        /\ q[1] > 1 => s[q[1] - 1] \notin TokenChars
        /\ q[2] < Len(s) => s[q[2] + 1] \notin TokenChars}}

(* buildChunkBloomIndex reads "buf" characters at a time and starts a chunk *)
(* after every "lines" lines; tokens are those of the parts of lines it has *)
(* in hand.  The filter holds its tokens; that it may answer for others is  *)
(* no loss.                                                                 *)
Feed(buf, lines, acc, c) ==
  LET off == acc.off + 1
      part == Append(acc.part, c)
      filter == acc.filter \cup Tokens(acc.part)
  IN  IF c # NL /\ off % buf # 0 THEN [acc EXCEPT !.part = part, !.off = off]
      ELSE IF c # NL THEN [acc EXCEPT !.filter = @ \cup Tokens(part), !.part = <<>>, !.off = off]
      ELSE IF acc.count + 1 < lines
      THEN [acc EXCEPT !.filter = filter, !.part = <<>>, !.off = off, !.count = @ + 1]
      ELSE [chunks |-> Append(acc.chunks, [start |-> acc.start, end |-> off, line |-> acc.line, filter |-> filter]),
            start |-> off, line |-> acc.line + acc.count + 1, count |-> 0, filter |-> {}, part |-> <<>>, off |-> off]

FedIndex(f, buf, lines) ==
  FoldLeft(LAMBDA acc, c : Feed(buf, lines, acc, c),
           [chunks |-> <<>>, start |-> 0, line |-> 1, count |-> 0, filter |-> {}, part |-> <<>>, off |-> 0], f)

BuildBloomIndex(f, buf, lines) ==
  LET acc == FedIndex(f, buf, lines)
      last == [start |-> acc.start, end |-> Len(f), line |-> acc.line, filter |-> acc.filter \cup Tokens(acc.part)]
  IN  IF acc.count > 0 \/ acc.chunks = <<>> THEN Append(acc.chunks, last) ELSE acc.chunks

(* MayContainSearchKeyword: a keyword of two characters or more needs all   *)
(* its tokens; one without a token is looked up as a whole, and no filter   *)
(* was given it.                                                            *)
MayContainSearchKeyword(filter, kw) ==
  \/ Len(kw) < 2
  \/ (Tokens(kw) # {} /\ Tokens(kw) \subseteq filter)

AddIfMay(kw, chunks, c) == IF MayContainSearchKeyword(c.filter, kw) THEN Append(chunks, c) ELSE chunks
SkipScan(f, buf, lines, q) ==
  Merge(f, FoldLeft(LAMBDA chunks, c : AddIfMay(q.kw, chunks, c), <<>>, BuildBloomIndex(f, buf, lines)), q)

(***************************************************************************)
(* Sparse line index                                                       *)
(***************************************************************************)

(* buildSparseLineIndex: the offset of every step-th line.                  *)
NoteLine(step, acc, c) ==
  LET n == acc.count + 1 off == acc.off + 1 IN
  IF c # NL THEN [acc EXCEPT !.off = off]
  ELSE [count |-> n, off |-> off, offsets |-> IF n % step = 0 THEN Append(acc.offsets, off) ELSE acc.offsets]
BuildLineIndex(f, step) ==
  FoldLeft(LAMBDA acc, c : NoteLine(step, acc, c), [count |-> 0, off |-> 0, offsets |-> <<0>>], f).offsets

(* Where ReadFileLinesWithIndex starts: [offset, lines skipped].            *)
Bucket(idx, step, start) ==
  LET b == (start - 1) \div step
      k == IF b >= Len(idx) THEN Len(idx) - 1 ELSE b
  IN  [off |-> idx[k + 1], line |-> k * step]

(* ReadFileLinesWithIndex: from the line of the bucket on, lines before the *)
(* first one asked for are passed over.                                     *)
ReadFileLines(f, step, start, limit) ==
  LET b == Bucket(BuildLineIndex(f, step), step, start)
      lines == Lines(Section(f, b.off, Len(f)))
      from == IF start > b.line THEN start - b.line ELSE 1
      to == from + limit - 1
  IN  [lines |-> SubSeq(lines, from, IF to < Len(lines) THEN to ELSE Len(lines)),
       more |-> to < Len(lines)]

--------------------------------------------------------------------------------

(* The lines of a file that match.                                          *)
AllHits(f, q) == LET lines == Lines(f) IN {i \in DOMAIN lines : Matches(lines[i], q)}
LineOf(hits) == [i \in DOMAIN hits |-> hits[i].line]
Least(a, b) == IF a < b THEN a ELSE b

(* The first members of a set, in order: at least so many, or all.          *)
FirstOf(ks, all, least) ==
  /\ ToSet(ks) \subseteq all
  /\ \A i, j \in DOMAIN ks : i < j => ks[i] < ks[j]
  /\ \A k \in all \ ToSet(ks) : Len(ks) >= least /\ \A i \in DOMAIN ks : ks[i] < k

FileInit == file = <<>>
Write(c) == Len(file) < MaxLen /\ file' = Append(file, c)
FileNext == \E c \in Chars : Write(c)
FileSpec == FileInit /\ [][FileNext]_file

Queries == [kw : SearchedWords, whole : BOOLEAN, context : 0..MaxContext, max : 1..MaxHits]

(* A search of a file in parts finds what one pass over the whole finds:    *)
(* the first hits, each once, at its line of the file, however the file is  *)
(* split and whether or not its last line is ended.                         *)
ChunksFindAll ==
  \A n \in Splits :
    LET chunks == CalculateFileChunks(file, n) IN
    \A q \in {r \in Queries : ~r.whole} :
      LET hits == Merge(file, chunks, q) IN
      FirstOf(LineOf(hits), AllHits(file, q), q.max) /\ Len(hits) <= q.max

(* What the Bloom index skips is nothing that could be found: in a file     *)
(* whose last line is ended, read in one piece, every matching line that    *)
(* has the keyword's tokens as its own is found, at its number.  However it *)
(* was read, nothing else is reported.  A keyword inside a longer token, a  *)
(* keyword without a token and a token cut by a read are not promised.      *)
SkipScanFindsTokens ==
  LET whole == Lines(file) IN
  \A q \in {r \in Queries : r.max = MaxHits /\ r.context = 0}, lines \in ChunkLines, buf \in {Buffer, MaxLen + 1} :
    LET all == AllHits(file, q)
        found == ToSet(LineOf(SkipScan(file, buf, lines, [q EXCEPT !.max = MaxLen + 1])))
        Promised(i) == Len(q.kw) < 2 \/ (Tokens(q.kw) # {} /\ Tokens(q.kw) \subseteq Tokens(whole[i]))
    IN  /\ found \subseteq all
        /\ (buf > Len(file) /\ file # <<>> /\ Last(file) = NL) => {i \in all : Promised(i)} \subseteq found

(* The hits of one pass are matching lines in the order of the file, at     *)
(* least as many as asked for or all of them, at most a context's worth     *)
(* more; each has the lines right before it and, unless it is beyond those  *)
(* asked for, the lines right after it.                                     *)
HitsKeepContext ==
  LET lines == Lines(file) IN
  \A q \in Queries :
    LET hits == Scan(lines, q).hits
        Before(n) == SubSeq(lines, IF n > q.context THEN n - q.context ELSE 1, n - 1)
        After(n) == SubSeq(lines, n + 1, Least(Len(lines), n + q.context))
    IN  /\ FirstOf(LineOf(hits), AllHits(file, q), q.max) /\ Len(hits) <= q.max + q.context
        /\ \A i \in DOMAIN hits :
             /\ hits[i].before = Before(hits[i].line)
             /\ IF i <= q.max THEN hits[i].after = After(hits[i].line) ELSE IsPrefix(hits[i].after, After(hits[i].line))

(* A window of lines read through the line index is that window of the      *)
(* file, with the right answer to whether more lines follow.                *)
IndexedReadIsExact ==
  LET lines == Lines(file) IN
  \A step \in Steps, start \in 1..(MaxLen + 1), limit \in 1..MaxHits :
    ReadFileLines(file, step, start, limit) =
      [lines |-> SubSeq(lines, start, Least(Len(lines), start + limit - 1)),
       more |-> Len(lines) >= start + limit]

================================================================================
