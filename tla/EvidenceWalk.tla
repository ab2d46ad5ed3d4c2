----------------------------- MODULE EvidenceWalk -----------------------------
(***************************************************************************)
(* The walk over an evidence root (metaxtract-core, scan/walk.rs): Walker  *)
(* is an iterator that goes through directories depth first, in the order  *)
(* the system lists them, and yields opened files and notices about what   *)
(* it leaves out.  The tree may change under it: an entry is listed, then  *)
(* looked at, then opened, by its path each time.                          *)
(*                                                                         *)
(* A tree maps each directory to its names, and a name to what it stands   *)
(* for: a file or directory, or a link to one, within the root (cap_std    *)
(* resolves nothing outside of it; a link that leads there leads nowhere). *)
(* A name is a sequence of marks: "." for hidden, "code" for the prefix of *)
(* an encoded one, "raw" for what is no portable text.                     *)
(***************************************************************************)
EXTENDS Naturals, SequencesExt

CONSTANTS
  RootDir, Files,             \* the root and the files of a tree
  Absent,                     \* nothing
  Trees,                      \* the trees there may be
  Policies,                   \* the options of a walk
  Replacements,               \* what may take the place of an entry
  MaxSwaps,                   \* bound: how often the tree changes
  MaxPath                     \* bound: the paths that are looked at in the end

(* A file is no directory, a name is not empty, the limits are positive     *)
(* (walk.rs:306), and a root that is a file is its name in its directory.   *)
EntryName == Seq(STRING) \ {<< >>}
ASSUME WalkAssumption ==
  /\ MaxSwaps \in Nat /\ MaxPath \in Nat
  /\ \A t \in Trees :
       /\ RootDir \in DOMAIN t /\ DOMAIN t \cap Files = {}
       /\ \A d \in DOMAIN t : DOMAIN t[d] \subseteq EntryName
  /\ \A o \in Policies :
       /\ {o.max_files, o.max_entries, o.max_directories} \subseteq Nat \ {0} /\ o.max_depth \in Nat
       /\ o.selected # Absent => o.selected \in Seq(EntryName) /\ Len(o.selected) = 1

VARIABLES
  tree,         \* the file system
  swaps,        \* how often it has changed
  options,      \* WalkOptions
  stack,        \* the open directories, with the names each still has to list
  entry,        \* the entry that is being looked at, and how far that is
  visited, entries, opened, directories, done,   \* the fields of Walker
  yielded,      \* history: the files, with their paths
  notices       \* history: the notices

walkVars == <<tree, swaps, options, stack, entry, visited, entries, opened, directories, done,
              yielded, notices>>

Node(n) == [link |-> FALSE, to |-> n]
Link(n) == [link |-> TRUE, to |-> n]

(* What a path stands for, links followed. *)
ResolveIn(t, path) ==
  LET node[k \in 0..Len(path)] ==
        IF k = 0 THEN RootDir
        ELSE IF node[k - 1] \in DOMAIN t /\ path[k] \in DOMAIN t[node[k - 1]]
        THEN t[node[k - 1]][path[k]].to ELSE Absent
  IN node[Len(path)]

Resolve(path) == ResolveIn(tree, path)
Parent(path) == Resolve(Front(path))
IsNamed(path) == Parent(path) \in DOMAIN tree /\ Last(path) \in DOMAIN tree[Parent(path)]
IsLink(path) == IsNamed(path) /\ tree[Parent(path)][Last(path)].link

NoEntry == [at |-> "none", path |-> << >>, depth |-> 0]
Listing(path, depth, n) == [path |-> path, depth |-> depth, left |-> DOMAIN tree[n]]

(* ScanRoot::walk; the root counts as a directory that was visited. *)
WalkInit ==
  /\ tree \in Trees /\ swaps = 0
  /\ options \in Policies
  /\ stack = IF options.selected = Absent THEN <<Listing(<< >>, 0, RootDir)>> ELSE << >>
  /\ entry = NoEntry
  /\ visited = {RootDir} /\ entries = 0 /\ opened = 0 /\ directories = 1 /\ done = FALSE
  /\ yielded = {} /\ notices = {}

(* Another program puts something else in the place of an entry. *)
Swap ==
  /\ swaps < MaxSwaps /\ swaps' = swaps + 1
  /\ \E d \in DOMAIN tree : \E name \in DOMAIN tree[d], other \in Replacements :
       tree' = [tree EXCEPT ![d][name] = other]
  /\ UNCHANGED <<options, stack, entry, visited, entries, opened, directories, done,
                 yielded, notices>>

-----------------------------------------------------------------------------
(* encode_component: a name that is no portable text, or that could be      *)
(* taken for an encoded one, is encoded.                                    *)
Coded(name) == <<"code">> \o name

EncodeComponent(name) ==
  IF Head(name) = "code" \/ name = <<"raw">> THEN Coded(name) ELSE name
EvidencePath(path) == [k \in DOMAIN path |-> EncodeComponent(path[k])]

(* open_evidence: the path of a record, back to a native path; none, if it  *)
(* is not the path that would be encoded.                                   *)
NativeOf(path) ==
  LET native == [k \in DOMAIN path |-> IF Head(path[k]) = "code" THEN Tail(path[k]) ELSE path[k]]
  IN IF EvidencePath(native) = path THEN native ELSE Absent

-----------------------------------------------------------------------------
(* Walker::next *)

Notice(code, path) == notices' = notices \cup {[code |-> code, path |-> path]}

Limited == opened >= options.max_files \/ entries >= options.max_entries

Excluded(path) == options.excluded # Absent /\ IsPrefix(options.excluded, path)

(* The root that was chosen is a single file, of its directory. *)
SelectedFile ==
  /\ ~done /\ options.selected # Absent
  /\ done' = TRUE
  /\ entry' = IF Excluded(options.selected) THEN NoEntry
              ELSE [NoEntry EXCEPT !.at = "file", !.path = options.selected]
  /\ UNCHANGED <<tree, swaps, options, stack, visited, entries, opened, directories,
                 yielded, notices>>

LimitReached ==
  /\ ~done /\ options.selected = Absent /\ entry = NoEntry /\ Limited
  /\ done' = TRUE
  /\ Notice("walk.limit", << >>)
  /\ UNCHANGED <<tree, swaps, options, stack, entry, visited, entries, opened, directories, yielded>>

(* The listing of the innermost directory ends. *)
PopDirectory ==
  /\ ~done /\ entry = NoEntry /\ ~Limited
  /\ stack # << >> /\ Last(stack).left = {}
  /\ stack' = Front(stack)
  /\ done' = (stack' = << >>)
  /\ UNCHANGED <<tree, swaps, options, entry, visited, entries, opened, directories, yielded, notices>>

(* It goes on with any name; or an entry cannot be read. *)
NextEntry(name) ==
  /\ ~done /\ entry = NoEntry /\ ~Limited
  /\ stack # << >> /\ name \in Last(stack).left
  /\ entries' = entries + 1
  /\ stack' = [stack EXCEPT ![Len(stack)].left = @ \ {name}]
  /\ LET path == Append(Last(stack).path, name)
         found == [at |-> "metadata", path |-> path, depth |-> Last(stack).depth]
     IN \/ IF Excluded(path) \/ (Head(name) = "." /\ ~options.include_hidden)
           THEN UNCHANGED <<entry, notices>>
           ELSE IF IsLink(path) /\ ~options.follow
           THEN Notice("walk.symlink", path) /\ UNCHANGED entry
           ELSE entry' = found /\ UNCHANGED notices
        \/ Notice("walk.read", Front(path)) /\ UNCHANGED entry
  /\ UNCHANGED <<tree, swaps, options, visited, opened, directories, done, yielded>>

DirectoryLimit == entry.depth >= options.max_depth \/ directories >= options.max_directories

(* Broken variant of Seen: only a directory inside itself is seen. *)
SeenAbove(n) == \E k \in DOMAIN stack : Resolve(stack[k].path) = n
Seen(n) == n \in visited

(* What the path stands for by now, links followed in either case. *)
Metadata ==
  /\ entry.at = "metadata"
  /\ LET n == Resolve(entry.path)
         leave_out(code) == Notice(code, entry.path) /\ entry' = NoEntry /\ UNCHANGED visited
     IN CASE n = Absent -> leave_out("walk.metadata")
          [] n \in Files ->
               entry' = [entry EXCEPT !.at = "file"] /\ UNCHANGED <<visited, notices>>
          [] n \in DOMAIN tree ->
               IF DirectoryLimit THEN leave_out("walk.directory_limit")
               ELSE IF Seen(n) THEN leave_out("walk.cycle")
               ELSE /\ visited' = visited \cup {n} /\ entry' = [entry EXCEPT !.at = "directory"]
                    /\ UNCHANGED notices
          [] OTHER -> leave_out("walk.special")
  /\ UNCHANGED <<tree, swaps, options, stack, entries, opened, directories, done, yielded>>

(* Not, if the entry was replaced in between or may not be read. *)
OpenDirectory ==
  /\ entry.at = "directory" /\ entry' = NoEntry
  /\ \/ /\ Resolve(entry.path) \in DOMAIN tree
        /\ directories' = directories + 1
        /\ stack' = Append(stack, Listing(entry.path, entry.depth + 1, Resolve(entry.path)))
        /\ UNCHANGED notices
     \/ /\ Notice("walk.directory", entry.path)
        /\ UNCHANGED <<directories, stack>>
  /\ UNCHANGED <<tree, swaps, options, visited, entries, opened, done, yielded>>

(* ScanRoot::open_file: only a file, and not by a link unless they are      *)
(* followed.                                                                *)
OpenFile ==
  /\ entry.at = "file" /\ entry' = NoEntry
  /\ \/ /\ Resolve(entry.path) \in Files /\ (IsLink(entry.path) => options.follow)
        /\ opened' = opened + 1
        /\ yielded' = yielded \cup {[path |-> entry.path, evidence |-> EvidencePath(entry.path),
                                     file |-> Resolve(entry.path)]}
        /\ UNCHANGED notices
     \/ /\ Notice("walk.open", entry.path)
        /\ UNCHANGED <<opened, yielded>>
  /\ UNCHANGED <<tree, swaps, options, stack, visited, entries, directories, done>>

WalkNext ==
  \/ Swap
  \/ SelectedFile \/ LimitReached \/ PopDirectory
  \/ \E d \in DOMAIN tree : \E name \in DOMAIN tree[d] : NextEntry(name)
  \/ Metadata \/ OpenDirectory \/ OpenFile

WalkSpec == WalkInit /\ [][WalkNext]_walkVars

-----------------------------------------------------------------------------
Along(path) == {SubSeq(path, 1, k) : k \in 1..Len(path)}

(* The paths from the root, up to a length. *)
Names == UNION {DOMAIN tree[d] : d \in DOMAIN tree}
Reach == {path \in SeqOf(Names, MaxPath) : path # << >> /\ \A p \in Along(path) : IsNamed(p)}

LeftOut(path) ==
  \E p \in Along(path) : Excluded(p) \/ (Head(Last(p)) = "." /\ ~options.include_hidden)

(* The walk stays within its limits, however the tree is linked and changes *)
(* (walk.rs:384).                                                           *)
WalkBounded ==
  /\ opened <= options.max_files /\ entries <= options.max_entries
  /\ directories <= options.max_directories
  /\ \A k \in DOMAIN stack : stack[k].depth <= options.max_depth /\ stack[k].depth = k - 1

(* In a tree that does not change every file is opened at each of its paths *)
(* or named by a notice, at it or above it: silence means that everything   *)
(* was seen.  And only what was asked for is opened (walk.rs:412).          *)
WholeOrSaid ==
  done /\ swaps = 0 =>
    /\ \A path \in {p \in Reach : Resolve(p) \in Files} :
         \/ LeftOut(path) \/ options.selected \notin {Absent, path} \/ entry.path = path
         \/ \E y \in yielded : y.path = path
         \/ \E n \in notices : n.code = "walk.limit" \/ IsPrefix(n.path, path)
    /\ \A y \in yielded :
         /\ y.file = Resolve(y.path) /\ (LeftOut(y.path) => options.selected = y.path)
         /\ options.follow \/ \A p \in Along(y.path) : ~IsLink(p)

(* A directory is walked once, under one of its paths, although links make  *)
(* aliases and cycles of it (walk.rs:434, docs/architecture.md:78).         *)
DirectoriesOnce ==
  swaps = 0 =>
    /\ \A y, z \in yielded : Parent(y.path) = Parent(z.path) => Front(y.path) = Front(z.path)
    /\ \A k, m \in DOMAIN stack : Resolve(stack[k].path) = Resolve(stack[m].path) => k = m

(* The name under which a file is recorded is its own, and leads back to    *)
(* it, although names that are no text are encoded and names of files may   *)
(* look like that (walk.rs:293).                                            *)
NamesLeadBack ==
  \A y, z \in yielded :
    /\ NativeOf(y.evidence) = y.path
    /\ y.evidence = z.evidence => y.path = z.path

(* A walk is bounded, finds every file under a name of its own, and says    *)
(* what it left out.                                                        *)
WalkSound == WalkBounded /\ WholeOrSaid /\ DirectoriesOnce /\ NamesLeadBack
=============================================================================
