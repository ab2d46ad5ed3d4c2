--------------------------- MODULE ContainerTree ---------------------------
(***************************************************************************)
(* The extraction of a file and of everything inside it: extract_recursive *)
(* and canonical_records (metaxtract-core, containers.rs and evidence.rs), *)
(* with run_parser, ParserBudget and the four parsers of the native        *)
(* library (metaxtract-extract) that list members, called one at a time.   *)
(*                                                                         *)
(* One budget is shared by all parsers of all nested members: each parser  *)
(* gets what the ones before it have left, and Rust adds up what it used.  *)
(* Sizes are counted in blocks.  Evidence is a forest of members, numbered *)
(* in the order a reader meets them: the files of an archive, the streams  *)
(* and objects of an OLE file, the parts of a message with a body, and the *)
(* attachments of a PDF.  A directory or link of an archive has no payload *)
(* and is no member, nor is what a PDF without its password, or behind a   *)
(* metadata stream that cannot be decoded, does not show.                  *)
(***************************************************************************)
EXTENDS Integers, FiniteSets, ListParts

CONSTANTS
  Forests,         \* the files: [parent, size, format, sealed], members numbered from 1
  RecursiveLimits, \* the limits: [depth, nodes, member, parserMember, total, ratio, and
                   \* a limit for each of Resources]
  Overhead,        \* what a queued member costs beyond twice its size (4096)
  Nobody           \* stands for no member, and for no stop

Resources == {"read", "alloc", "decoded", "entries", "observations"}
Limits == Resources \cup {"member", "expansion", "deadline"}

(* selected_parsers, of the formats that the forests have: the parsers of a  *)
(* member in the order of their names.  Only the first may have payloads     *)
(* (payload_kind); the last two formats stand for all others.                *)
ParsersOf ==
  [zip |-> <<"container.archive", "document.package", "formats.resource">>,
   packed |-> <<"container.archive">>,
   ole |-> <<"document.ole">>,
   email |-> <<"email.mime">>,
   pdf |-> <<"pdf.metadata", "pdf.security">>,
   image |-> <<"images.metadata", "images.structure">>,
   plain |-> << >>]
Formats == DOMAIN ParsersOf
Archives == {"zip", "packed"}
Containers == Archives \cup {"ole", "email", "pdf"}
Listers == {"container.archive", "document.ole", "email.mime", "pdf.metadata"}

(* A file is its first member, and a container is numbered before what is in *)
(* it.  A sealed member is one that its container can name but not open: an  *)
(* encrypted entry, the EncryptedPackage of an OLE file, a part in an        *)
(* unknown transfer encoding, an attachment behind a filter the library does *)
(* not decode.  The limits leave room for one node (containers.rs:286).      *)
ASSUME TreeAssumption ==
  /\ Overhead \in Nat /\ Nobody \notin Limits \cup {"depth", "Ok", "malformed", "unsupported"}
  /\ \A f \in Forests :
       /\ f.parent \in Seq(Nat) /\ f.parent # << >> /\ f.parent[1] = 0
       /\ \A m \in 2..Len(f.parent) : f.parent[m] \in 1..(m - 1)
       /\ f.size \in [DOMAIN f.parent -> Nat] /\ f.format \in [DOMAIN f.parent -> Formats]
       /\ f.sealed \subseteq 2..Len(f.parent)
       /\ \A m \in 2..Len(f.parent) :
            f.format[f.parent[m]] \in Containers /\ f.parent[m] \notin f.sealed
  /\ \A p \in RecursiveLimits :
       /\ {p.depth, p.nodes, p.member, p.parserMember, p.total, p.ratio} \subseteq Nat /\ p.nodes > 0
       /\ p.limits \in [Resources -> Nat]

VARIABLES
  file, policy, \* what is extracted, under which limits
  source,       \* WorkInput of the root: "file" or "bytes"
  late,         \* the deadline of the tree has passed
  place,        \* where extract_input is
  pendingWork,  \* the stack of members not yet looked at
  current,      \* the Work that was popped
  todo,         \* its parsers that have not run
  run,          \* the native parser: its budget, the members it has emitted and has
                \* left to read, its status, and whether its listing is over
  results,      \* node.results
  usage,        \* output.usage
  queued,       \* queued_bytes
  stop,         \* output.stopped
  nodes         \* output.nodes

treeVars == <<file, policy, source, late, place, pendingWork, current, todo, run, results,
              usage, queued, stop, nodes>>

Members(f) == DOMAIN f.parent
Parsers(f, m) == ParsersOf[f.format[m]]

(* What the parser of a container reads, in order.  An OLE file within an    *)
(* OLE file, and a message within a message, are read through as well        *)
(* (ole.cpp:262, email.cpp:281), before they become members of their own.    *)
Inside(f, m) ==
  LET listed[i \in Members(f)] ==
        \/ f.parent[i] = m
        \/ /\ f.format[m] \in {"ole", "email"} /\ i # 1
           /\ f.format[f.parent[i]] = f.format[m] /\ listed[f.parent[i]]
  IN IF f.format[m] \in Containers
     THEN Kept([i \in Members(f) |-> i], {i \in Members(f) : listed[i]}) ELSE << >>

(* All of it but what is sealed; an EncryptedPackage is a stream like others. *)
Showing(f, m) ==
  {Inside(f, m)[i] : i \in DOMAIN Inside(f, m)} \ (IF f.format[m] = "ole" THEN {} ELSE f.sealed)

Least(a, b) == IF a < b THEN a ELSE b
Zero == [r \in Resources |-> 0]

-----------------------------------------------------------------------------
(* ParserBudget *)

Budget(limits, member, size) ==
  [status |-> "Ok", limits |-> limits, member |-> member, size |-> size, used |-> Zero]
Stopped(b, code) == [b EXCEPT !.status = code]

(* checkpoint looks at the deadline only while all is well. *)
Checkpoint(b) == IF b.status = "Ok" /\ late THEN Stopped(b, "deadline") ELSE b

Consume(b, r, amount) ==
  LET c == Checkpoint(b) IN
  IF c.status # "Ok" THEN c
  ELSE IF amount > c.limits[r] - c.used[r] THEN Stopped(c, r)
  ELSE [c EXCEPT !.used[r] = @ + amount]

CheckMember(b, size) ==
  LET c == Checkpoint(b) IN
  IF c.status = "Ok" /\ size > c.member THEN Stopped(c, "member") ELSE c

(* consume_decoded: the limit first, then the ratio to the parser's source. *)
Decode(b, amount) ==
  LET c == Consume(b, "decoded", amount) IN
  IF c.status = "Ok" /\ policy.ratio # 0 /\ c.used["decoded"] > c.size * policy.ratio
  THEN Stopped(b, "expansion") ELSE c

(* read_block: the source is read, and copied twice on its way. *)
ReadSource(b) == Consume(Consume(b, "read", b.size), "alloc", 2 * b.size)

(* entry() a number of times: what does not fit has used up the rest. *)
Enter(b, n) ==
  LET c == Checkpoint(b) IN
  IF c.status # "Ok" THEN c
  ELSE IF n > c.limits["entries"] - c.used["entries"]
  THEN Stopped([c EXCEPT !.used["entries"] = c.limits["entries"]], "entries")
  ELSE [c EXCEPT !.used["entries"] = @ + n]

(* How often a container of a format counts an entry before its first member, *)
(* for each member, and after the last: an archive in each round of its loop, *)
(* the one that meets the end included (archive.cpp:86); an OLE file for each *)
(* directory entry and stream; a message for each part, its delimiter and the *)
(* lines of its header; a PDF for each file specification and each stream of  *)
(* one.  (Of header lines, sectors and pages, only one each is counted.)      *)
Rounds ==
  [zip |-> [before |-> 0, each |-> 1, after |-> 1],
   packed |-> [before |-> 0, each |-> 1, after |-> 1],
   ole |-> [before |-> 1, each |-> 2, after |-> 0],
   email |-> [before |-> 3, each |-> 3, after |-> 0],
   pdf |-> [before |-> 1, each |-> 2, after |-> 0]]

(* One member: what is said of it, its data (only an archive and a PDF look   *)
(* at its size), and the observation that carries the data.                   *)
Header(b, format) == Consume(Enter(b, Rounds[format].each), "observations", 1)
Body(b, format, size) ==
  LET c == IF format \in Archives \cup {"pdf"} THEN CheckMember(b, size) ELSE b
  IN Consume(Decode(c, size), "alloc", 2 * size)
Payload(b, size) ==
  Consume(Consume(Decode(b, size), "observations", 1), "alloc", 8 * size)

(* A malformed member outweighs one that is not supported. *)
Worse(verdict, other) == IF verdict = Nobody \/ other = "malformed" THEN other ELSE verdict

-----------------------------------------------------------------------------
(* extract_input *)

RootExpansion ==
  IF policy.ratio = 0 THEN policy.limits["decoded"] ELSE file.size[1] * policy.ratio
MemberLimit == Least(policy.member, policy.parserMember)
TreeRemaining == policy.total - queued

(* Broken variant of Available: every parser gets the whole of the limits. *)
AvailableAlone ==
  [r \in Resources |->
     IF r = "decoded" THEN Least(policy.limits[r], RootExpansion) ELSE policy.limits[r]]

(* ParserLimits: what the parsers before this one have left. *)
Available ==
  [r \in Resources |->
     (IF r = "decoded" THEN Least(policy.limits[r], RootExpansion) ELSE policy.limits[r])
       - usage[r]]

NoRun == [parser |-> Nobody, budget |-> Nobody, left |-> << >>, emitted |-> << >>,
          verdict |-> Nobody, over |-> TRUE]

TreeInit ==
  /\ file \in Forests /\ policy \in RecursiveLimits /\ source \in {"file", "bytes"}
  /\ source = "bytes" => file.size[1] <= Least(policy.member, policy.total)
  /\ late = FALSE /\ place = "pop"
  /\ pendingWork = <<[member |-> 1, parent |-> 0, depth |-> 0]>>
  /\ current = Nobody /\ todo = << >> /\ run = NoRun /\ results = << >>
  /\ usage = Zero /\ stop = Nobody /\ nodes = << >>
  /\ queued = IF source = "bytes" THEN file.size[1] ELSE 0

(* The deadline of the tree, which is the deadline of each parser too. *)
DeadlinePasses ==
  /\ place # "done" /\ ~late
  /\ late' = TRUE
  /\ UNCHANGED <<file, policy, source, place, pendingWork, current, todo, run, results, usage,
                 queued, stop, nodes>>

(* checkpoint() of the scan fails: all that was extracted is given up. *)
Interrupted ==
  /\ place \in {"pop", "parser"} /\ pendingWork \o todo # << >>
  /\ place' = "failed"
  /\ pendingWork' = << >> /\ current' = Nobody /\ todo' = << >> /\ results' = << >>
  /\ nodes' = << >>
  /\ UNCHANGED <<file, policy, source, late, run, usage, queued, stop>>

(* The next member, unless the tree is at its end or at a limit. *)
Pop ==
  /\ place = "pop"
  /\ IF pendingWork = << >> \/ late \/ Len(nodes) >= policy.nodes
     THEN /\ place' = "done"
          /\ stop' = IF pendingWork = << >> THEN stop
                     ELSE IF late THEN "deadline" ELSE "entries"
          /\ UNCHANGED <<pendingWork, current, todo, results>>
     ELSE LET next == Last(pendingWork) IN
          /\ place' = "parser"
          /\ pendingWork' = Front(pendingWork)
          /\ current' = next
          /\ todo' = Parsers(file, next.member)
          /\ results' = << >>
          /\ UNCHANGED stop
  /\ UNCHANGED <<file, policy, source, late, run, usage, queued, nodes>>

(* extract_parser begins, with a budget of what is left; a parser that lists *)
(* no members has nothing more to do.                                        *)
StartParser ==
  /\ place = "parser" /\ todo # << >>
  /\ IF late
     THEN /\ stop' = "deadline" /\ todo' = << >>
          /\ UNCHANGED <<place, run>>
     ELSE LET size == file.size[current.member]
              read == ReadSource(Budget(Available, Least(MemberLimit, TreeRemaining), size))
              lists == Head(todo) \in Listers
          IN /\ place' = "native"
             /\ run' = [parser |-> Head(todo),
                        budget |-> IF lists THEN Enter(read, Rounds[file.format[current.member]].before)
                                   ELSE read,
                        left |-> IF lists THEN Inside(file, current.member) ELSE << >>,
                        emitted |-> << >>, verdict |-> Nobody, over |-> ~lists]
             /\ todo' = Tail(todo)
             /\ UNCHANGED stop
  /\ UNCHANGED <<file, policy, source, late, pendingWork, current, results, usage, queued, nodes>>

(* What remains is the same for every step inside the native call. *)
Native(next) ==
  /\ place = "native" /\ run' = next
  /\ UNCHANGED <<file, policy, source, late, place, pendingWork, current, todo, results, usage,
                 queued, stop, nodes>>

(* What the parser goes on with if it cannot read through a member. *)
Beyond(m) ==
  LET rest == Tail(run.left)
      inside == {Inside(file, m)[i] : i \in DOMAIN Inside(file, m)}
  IN Kept(rest, {i \in DOMAIN rest : rest[i] \notin inside})

Reading == place = "native" /\ run.budget.status = "Ok" /\ ~run.over
HeaderRead == Header(run.budget, file.format[current.member])

(* What a parser may say of a member that it has emitted: an archive keeps    *)
(* the bytes before the damage, and an OLE file or a message emits the bytes  *)
(* before it looks into them.  A PDF that is damaged says nothing more.       *)
Marks(m) ==
  LET format == file.format[current.member] IN
  (IF m \in file.sealed THEN {} ELSE {Nobody})
    \cup (IF format # "pdf" THEN {"malformed"} ELSE {})
    \cup (IF format \in {"ole", "email"} THEN {"unsupported"} ELSE {})

ReadMember ==
  /\ Reading /\ run.left # << >>
  /\ LET m == Head(run.left)
         size == file.size[m]
         whole == Payload(Body(HeaderRead, file.format[current.member], size), size)
     IN \E mark \in Marks(m), rest \in {Tail(run.left), Beyond(m)} :
          /\ m \in Showing(file, current.member)
          /\ rest = Tail(run.left) \/ mark = "malformed"
          /\ Native([run EXCEPT
               !.left = rest, !.budget = whole, !.verdict = Worse(@, mark),
               !.emitted = IF whole.status = "Ok" THEN Append(@, m) ELSE @])

(* A stream or part that cannot be read: nothing of it is emitted. *)
LoseMember ==
  /\ Reading /\ run.left # << >> /\ file.format[current.member] \in {"ole", "email"}
  /\ Native([run EXCEPT !.left = Beyond(Head(@)), !.budget = HeaderRead, !.verdict = "malformed"])

(* A sealed member.  A message goes on with the next one, and so does an      *)
(* archive if it can skip the data; if it cannot, it ends its listing there   *)
(* and says no more (archive.cpp:132), and a PDF always does.                 *)
SkipSealed ==
  /\ Reading /\ run.left # << >> /\ Head(run.left) \notin Showing(file, current.member)
  /\ \E ended \in BOOLEAN :
       /\ file.format[current.member] = "email" => ~ended
       /\ file.format[current.member] = "pdf" => ended
       /\ Native([run EXCEPT
            !.left = IF ended THEN << >> ELSE Tail(@), !.budget = HeaderRead,
            !.verdict = Worse(@, "unsupported"), !.over = ended])

EndListing ==
  /\ Reading /\ run.left = << >>
  /\ Native([run EXCEPT !.budget = Enter(@, Rounds[file.format[current.member]].after),
                         !.over = TRUE])

-----------------------------------------------------------------------------
(* The result of a parser is taken over. *)

(* The status that a parser returns: what it has met, or that it is lost at   *)
(* any point (a depth of its own that is too large is one more such failure). *)
(* A parser that lists nothing may not know the format at all, and a PDF has  *)
(* other streams that it may not be able to decode.                           *)
Verdicts ==
  {run.verdict, "malformed"} \cup
  IF run.parser \in Listers \ {"pdf.metadata"} /\ Inside(file, current.member) # << >> THEN {}
  ELSE {Worse(run.verdict, "unsupported")}

(* run_parser: the failure of the budget goes before the verdict. *)
Code(b, verdict) == IF b.status # "Ok" THEN b.status ELSE verdict

(* A shared limit is named for what it is, not for the parser's share. *)
Renamed(code) ==
  IF code = "decoded" /\ RootExpansion < policy.limits["decoded"] THEN "expansion"
  ELSE IF code = "member" /\ TreeRemaining < MemberLimit THEN "decoded"
  ELSE code

(* A payload becomes a pending member if all limits still allow it. *)
Refusal(q, size) ==
  CASE current.depth >= policy.depth -> "depth"
    [] Len(q.pending) + Len(nodes) + 1 >= policy.nodes -> "entries"
    [] size > MemberLimit -> "member"
    [] q.queued + size > policy.total -> "decoded"
    [] q.alloc + 2 * size + Overhead > policy.limits["alloc"] -> "alloc"
    [] OTHER -> Nobody

Enqueue(q, m) ==
  LET size == file.size[m] refusal == Refusal(q, size) IN
  IF refusal # Nobody THEN [q EXCEPT !.stop = refusal]
  ELSE [q EXCEPT !.alloc = @ + 2 * size + Overhead,
                 !.queued = @ + size,
                 !.pending = Append(@, [member |-> m, parent |-> Len(nodes) + 1,
                                        depth |-> current.depth + 1])]

(* The payloads of a result, one after the other. *)
Enqueued(q, payloads) ==
  LET after[k \in 0..Len(payloads)] ==
        IF k = 0 THEN q ELSE Enqueue(after[k - 1], payloads[k])
  IN after[Len(payloads)]

Collect(verdict) ==
  /\ place = "native"
  /\ run.over \/ run.budget.status # "Ok" \/ verdict = "malformed"
  /\ LET error == Renamed(Code(Checkpoint(run.budget), verdict))
         used == [r \in Resources |-> usage[r] + run.budget.used[r]]
         next == Enqueued([alloc |-> used["alloc"], queued |-> queued, pending |-> pendingWork,
                           stop |-> IF error \in Limits THEN error ELSE stop],
                          run.emitted)
     IN /\ usage' = [used EXCEPT !["alloc"] = next.alloc]
        /\ queued' = next.queued /\ pendingWork' = next.pending /\ stop' = next.stop
        /\ results' = Append(results, [parser |-> run.parser, error |-> error])
        /\ todo' = IF next.stop \in Limits THEN << >> ELSE todo
  /\ place' = "parser" /\ run' = NoRun
  /\ UNCHANGED <<file, policy, source, late, current, nodes>>

(* The node is complete; most stops end the tree here, but an oversized     *)
(* member or too many entries end only what this node could still yield.    *)
FinishNode ==
  /\ place = "parser" /\ todo = << >>
  /\ nodes' = Append(nodes, [member |-> current.member, parent |-> current.parent,
                             depth |-> current.depth, results |-> results])
  /\ place' = IF stop \in Limits \ {"member", "entries"} THEN "done" ELSE "pop"
  /\ current' = Nobody /\ results' = << >>
  /\ UNCHANGED <<file, policy, source, late, pendingWork, todo, run, usage, queued, stop>>

TreeNext ==
  \/ DeadlinePasses \/ Interrupted
  \/ Pop \/ StartParser \/ ReadMember \/ LoseMember \/ SkipSealed \/ EndListing \/ FinishNode
  \/ (place = "native" /\ \E verdict \in Verdicts : Collect(verdict))

TreeSpec == TreeInit /\ [][TreeNext]_treeVars

-----------------------------------------------------------------------------
(* canonical_records *)

(* evidence_paths: the path of a node is that of its parent and its ordinal,  *)
(* which grows with its place in the listing.                                *)
Ordinal(node) ==
  LET listing == Inside(file, nodes[node.parent].member)
  IN CHOOSE i \in DOMAIN listing : listing[i] = node.member
Paths ==
  LET paths[n \in 0..Len(nodes)] ==
        IF n = 0 THEN << >>
        ELSE Append(paths[n - 1],
                    IF nodes[n].parent = 0 THEN << >>
                    ELSE Append(paths[n - 1][nodes[n].parent], Ordinal(nodes[n])))
  IN paths[Len(nodes)]

Diagnosed(i) ==
  \/ \E k \in DOMAIN nodes[i].results :
       nodes[i].results[k].error \notin {Nobody, "unsupported"}
  \/ i = 1 /\ stop # Nobody

(* The status of the record of node i; observed says if it has observations. *)
Status(i, observed) ==
  IF Diagnosed(i) THEN IF observed \/ (i = 1 /\ stop # Nobody) THEN "Partial" ELSE "Failed"
  ELSE IF \E k \in DOMAIN nodes[i].results : nodes[i].results[k].error = Nobody
  THEN "Complete" ELSE "Unsupported"

-----------------------------------------------------------------------------
(* Properties *)

TreeTypeOK ==
  /\ file \in Forests /\ policy \in RecursiveLimits /\ source \in {"file", "bytes"}
  /\ late \in BOOLEAN
  /\ place \in {"pop", "parser", "native", "done", "failed"}
  /\ usage \in [Resources -> Nat] /\ queued \in Nat
  /\ stop \in Limits \cup {"depth", Nobody}

(* The ledger is shared: whatever the parsers and the members they yield,   *)
(* what the whole tree has used stays within the limits of a single file,   *)
(* in bytes held and work done, in members and in depth.                    *)
TreeBounded ==
  /\ \A r \in Resources :
       usage[r] + (IF run = NoRun THEN 0 ELSE run.budget.used[r]) <= policy.limits[r]
  /\ policy.ratio # 0 => usage["decoded"] <= file.size[1] * policy.ratio
  /\ queued <= policy.total
  /\ Len(nodes) + Len(pendingWork) + (IF current = Nobody THEN 0 ELSE 1) <= policy.nodes
  /\ \A i \in DOMAIN nodes : nodes[i].depth <= policy.depth

(* evidence_paths relies on it: a container comes before its members, at    *)
(* one level less, and no two nodes have the same path.                     *)
TreeOrdered ==
  /\ \A i \in DOMAIN nodes :
       IF nodes[i].parent = 0 THEN i = 1 /\ nodes[i].member = 1
       ELSE /\ nodes[i].parent < i
            /\ nodes[i].depth = nodes[nodes[i].parent].depth + 1
            /\ nodes[i].member \in Showing(file, nodes[nodes[i].parent].member)
  /\ IsInjective(Paths)

(* The members that no sealed one may hide: an archive or a PDF may end its *)
(* listing at the first of those, silently.                                 *)
Certain(f, m) ==
  {c \in Showing(f, m) :
     f.format[m] \in Archives \cup {"pdf"} =>
       \A i \in DOMAIN Inside(f, m) : Inside(f, m)[i] \in f.sealed => c < Inside(f, m)[i]}

MembersBelow(i) == {nodes[j].member : j \in {k \in DOMAIN nodes : nodes[k].parent = i}}

(* The reader of the records can trust silence as far as it goes: if none   *)
(* of them is Partial or Failed, then every node went through all of its    *)
(* parsers, and has below it everything that its container shows, except    *)
(* what comes after a sealed member of an archive or a PDF.  (A tree        *)
(* without any node is an error of process, "extractor returned no root     *)
(* record".)                                                                *)
SilenceMeansWhole ==
  place = "done" /\ nodes # << >>
    /\ (\A i \in DOMAIN nodes : Status(i, TRUE) \in {"Complete", "Unsupported"}) =>
    /\ nodes[1].member = 1
    /\ \A i \in DOMAIN nodes :
         /\ Len(nodes[i].results) = Len(Parsers(file, nodes[i].member))
         /\ Certain(file, nodes[i].member) \subseteq MembersBelow(i)

(* The tree is bounded as a whole, parents first, and complete if it says   *)
(* nothing else.                                                            *)
TreeSound == TreeTypeOK /\ TreeBounded /\ TreeOrdered /\ SilenceMeansWhole
=============================================================================
