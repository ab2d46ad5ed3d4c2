---------------------------- MODULE ContentChunks ----------------------------
(***************************************************************************)
(* Likeness of files by their content (analysis/duplicates.rs): each file  *)
(* is read in whatever pieces the source gives, cut into chunks where its  *)
(* bytes say so, and accepted only if it is what was recorded; then the    *)
(* files are compared by the chunks they share.                            *)
(*                                                                         *)
(* A byte is a number; the hash of bytes is the bytes.  The rolling sum of *)
(* the bytes since the last cut is one of three, each byte counts in it,   *)
(* and it hits at 0.                                                       *)
(***************************************************************************)
EXTENDS Naturals, Sequences, FiniteSets, SequencesExt

CONSTANTS
  Selections,  \* the files: for each its path, what was recorded and what is there
  Requests,    \* thresholds in thousandths, with the budgets
  MinChunk,    \* 64
  MaxChunk     \* 4096

VARIABLES
  files, request,  \* what the analysis was called with
  stage,           \* "read", "compare", "done", or why it was refused
  rest,            \* of the file being read: the bytes that were not read yet
  total,           \* how many were
  chunk,           \* the bytes fed to the hash of the chunk that is not closed
  length, rolling, \* how many bytes there are since the last cut, and their sum
  chunks,          \* the chunks of the file so far
  prints,          \* the fingerprints of the files read before
  matches

vars == <<files, request, stage, rest, total, chunk, length, rolling, chunks, prints, matches>>

File == files[Len(prints) + 1]

Fresh(i) ==
  /\ rest' = IF i <= Len(files) THEN files[i].source ELSE << >>
  /\ total' = 0 /\ chunk' = << >> /\ length' = 0 /\ rolling' = 0 /\ chunks' = {}

ChunksInit ==
  /\ files \in Selections /\ request \in Requests
  /\ stage = "read" /\ rest = files[1].source /\ total = 0 /\ chunk = << >>
  /\ length = 0 /\ rolling = 0 /\ chunks = {} /\ prints = << >> /\ matches = {}

Refuse(why) ==
  stage' = why
    /\ UNCHANGED <<files, request, rest, total, chunk, length, rolling, chunks, prints, matches>>

-----------------------------------------------------------------------------
Rolled(sum, byte) == (2 * sum + byte) % 3
Cuts(n, sum) == n >= MinChunk /\ (sum = 0 \/ n >= MaxChunk)

(* One byte of the buffer: s.begin is where its open chunk begins. *)
Scan(buffer, s, i) ==
  LET sum == Rolled(s.rolling, buffer[i])
  IN  IF Cuts(s.length + 1, sum)
        THEN [s EXCEPT !.chunks = @ \cup {s.chunk \o SubSeq(buffer, s.begin, i)},
                       !.chunk = << >>, !.begin = i + 1, !.length = 0, !.rolling = 0]
        ELSE [s EXCEPT !.length = @ + 1, !.rolling = sum]

(* Broken variant of Scanned: each buffer is rolled from its own start. *)
ScannedAfresh(buffer) ==
  LET Byte(s, i) == Scan(buffer, s, i)
  IN  FoldLeft(Byte, [chunks |-> chunks, chunk |-> chunk, begin |-> 1, length |-> length, rolling |-> 0],
               [i \in DOMAIN buffer |-> i])
Scanned(buffer) ==
  LET Byte(s, i) == Scan(buffer, s, i)
  IN  FoldLeft(Byte, [chunks |-> chunks, chunk |-> chunk, begin |-> 1, length |-> length, rolling |-> rolling],
               [i \in DOMAIN buffer |-> i])

Read ==
  /\ stage = "read"
  /\ \E n \in 1 .. Len(rest) :
       LET buffer == SubSeq(rest, 1, n)
           now == Scanned(buffer)
       IN  \/ /\ total + n > Len(File.recorded) \/ total + n > request.bytes
              /\ Refuse("size")
           \/ /\ total + n <= Len(File.recorded) /\ total + n <= request.bytes
              /\ Cardinality(now.chunks) > request.fields /\ Refuse("chunks")
           \/ /\ total + n <= Len(File.recorded) /\ total + n <= request.bytes
              /\ Cardinality(now.chunks) <= request.fields
              /\ rest' = SubSeq(rest, n + 1, Len(rest)) /\ total' = total + n
              /\ chunks' = now.chunks /\ length' = now.length /\ rolling' = now.rolling
              /\ chunk' = now.chunk \o SubSeq(buffer, now.begin, n)
              /\ UNCHANGED <<files, request, stage, prints, matches>>

(* The end of a file: what is left is a chunk; the whole is what was recorded. *)
EndOfFile ==
  /\ stage = "read" /\ rest = << >>
  /\ \/ File.source # File.recorded /\ Refuse("changed")
     \/ /\ File.source = File.recorded
        /\ prints' = Append(prints,
             [path |-> File.path, sha256 |-> File.source,
              chunks |-> IF length > 0 THEN chunks \cup {chunk} ELSE chunks])
        /\ stage' = IF Len(prints') = Len(files) THEN "compare" ELSE "read"
        /\ Fresh(Len(prints') + 1)
        /\ UNCHANGED <<files, request, matches>>

-----------------------------------------------------------------------------
(* near *)

Score(a, b) ==
  LET both == Cardinality(a.chunks \cap b.chunks)
      either == Cardinality(a.chunks) + Cardinality(b.chunks) - both
  IN  IF either = 0 THEN 0 ELSE (both * 1000) \div either

Comparable(a, b) == a.sha256 # b.sha256 /\ a.path # b.path

Pairs == {<<prints[ij[1]], prints[ij[2]]>> :
            ij \in {x \in (DOMAIN prints) \X (DOMAIN prints) : x[1] < x[2]}}

Near ==
  /\ stage = "compare"
  /\ matches' = {[first |-> x[1].path, second |-> x[2].path, score |-> Score(x[1], x[2])]
                 : x \in {y \in Pairs : Comparable(y[1], y[2]) /\ Score(y[1], y[2]) >= request.threshold}}
  /\ stage' = "done"
  /\ UNCHANGED <<files, request, rest, total, chunk, length, rolling, chunks, prints>>

ChunksNext == Read \/ EndOfFile \/ Near

-----------------------------------------------------------------------------
(* The reference: where a content is cut, told from its beginning. *)

EndOf(bytes, start) ==
  LET ends == {e \in start .. Len(bytes) :
                 e = Len(bytes) \/ Cuts(e - start + 1, FoldLeft(Rolled, 0, SubSeq(bytes, start, e)))}
  IN  CHOOSE e \in ends : \A f \in ends : e <= f
Starts(bytes) ==
  LET begins[i \in 1 .. Len(bytes)] ==
        i = 1 \/ \E s \in 1 .. i - 1 : begins[s] /\ EndOf(bytes, s) = i - 1
  IN  {i \in 1 .. Len(bytes) : begins[i]}
ChunksOf(bytes) == {SubSeq(bytes, s, EndOf(bytes, s)) : s \in Starts(bytes)}

(* However the source divides a file into reads, its fingerprint is made   *)
(* of the chunks of the content that was recorded, also of those that are  *)
(* summed over the end of a read, and a file that is not that content any  *)
(* more has none (duplicates.rs:128).                                      *)
FingerprintTrue ==
  \A i \in DOMAIN prints :
    files[i].source = files[i].recorded /\ prints[i].chunks = ChunksOf(files[i].recorded)

(* The files told to be alike are those of different content that share    *)
(* enough of their chunks: files of one content are not among them, for    *)
(* they are told as duplicates, and the chunks are those of what is there. *)
NearTrue ==
  stage = "done" =>
    \A i, j \in DOMAIN files : i < j =>
      LET a == ChunksOf(files[i].source)
          b == ChunksOf(files[j].source)
      IN  (\E m \in matches : m.first = files[i].path /\ m.second = files[j].path)
            <=> /\ files[i].source # files[j].source
                /\ Cardinality(a \cap b) * 1000 >= request.threshold * Cardinality(a \cup b)
                /\ request.threshold = 0 \/ a \cup b # {}

(* Fingerprints and what is concluded from them are of the content alone. *)
ChunksSound == FingerprintTrue /\ NearTrue
=============================================================================
