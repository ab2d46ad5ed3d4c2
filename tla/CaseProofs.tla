----------------------------- MODULE CaseProofs -----------------------------
(***************************************************************************)
(* Proofs about CaseAudit, for any set of audited rows and contents and    *)
(* any number of rows per event, and about CaseTransfer, for any inputs,   *)
(* paths, keys and operations.                                             *)
(*                                                                         *)
(* The audit.  Two chains of reasoning meet in audit_state.  Backwards:    *)
(* the log, replayed, leaves exactly audit_state, because an event takes   *)
(* its previous digests from there and its current ones go there           *)
(* (Chained).  Forwards: audit_state is what the program's own statements  *)
(* made of the rows, because the guard lets a statement touch a row only   *)
(* if the row is still the audited one (RowsTrue).  The verification       *)
(* compares the rows with both.                                            *)
(*                                                                         *)
(* The transfers.  An export is pinned to a revision by the copy it begins *)
(* with, which is a case that was committed (Cases); all that is said of   *)
(* the snapshot is said of that copy.  A signature is of one manifest and  *)
(* a manifest of one database, so a snapshot under an own signature is the *)
(* one that was exported, whatever was repacked (Own).                     *)
(*                                                                         *)
(* That an import is whole is a second invariant, which rests on the       *)
(* first: what has been read of a file is what is in it unless the file    *)
(* was modified since (Follows), so that a copy is one file; a draft is    *)
(* the case with the first scans of the input, and with the lines of one   *)
(* more up to the next (Drafted); and nobody commits while another has     *)
(* begun a transaction, so that the case a draft is of is the case.        *)
(***************************************************************************)
EXTENDS CaseAudit, CaseTransfer, RecursionLemmas, SequenceTheorems

-----------------------------------------------------------------------------
(* The audit *)


CaseRows == [revision : Nat, title : Values]
RowTypes == Values \cup CaseRows \cup {None}
Digests == [previous : RowTypes, current : RowTypes]
Events == UNION {[page -> Digests] : page \in SUBSET Keys}

(* The fields of a database. *)
Shaped(d) ==
  d \in [rows : [Keys -> RowTypes], true : [Keys -> RowTypes], state : [Keys -> RowTypes],
         dirty : SUBSET Keys, log : Seq(Events), anchored : BOOLEAN, schema : 5..7]

(* The row of case_info is always there, and always a case. *)
Described(d) ==
  /\ d.rows[Info] \in CaseRows /\ d.true[Info] \in CaseRows /\ d.state[Info] \in CaseRows \cup {None}
  /\ \A k \in Keys \ {Info} : {d.rows[k], d.true[k], d.state[k]} \subseteq Values \cup {None}

(* The events that name a row have a last one, and what that one says of    *)
(* the row is what the next one says it was before, or audit_state has now. *)
HasLast(log) ==
  \A n \in 1..Len(log) + 1, k \in Keys :
    Naming(log, n, k) # {} => \E m \in Naming(log, n, k) : \A o \in Naming(log, n, k) : o <= m

Chained(d) ==
  /\ HasLast(d.log)
  /\ \A n \in DOMAIN d.log : \A k \in DOMAIN d.log[n] :
       d.log[n][k].previous = Replayed(d.log, n, k)
  /\ \A k \in Keys : d.state[k] = Replayed(d.log, Len(d.log) + 1, k)

(* A row no statement has touched since the last event was left by the      *)
(* program as audit_state has it; one that was touched is as it was left.   *)
RowsTrue(d) ==
  IF d.anchored
    THEN /\ \A k \in Keys : IF k \in d.dirty THEN d.rows[k] = d.true[k] ELSE d.state[k] = d.true[k]
         /\ d.log # << >> \/ Info \in d.dirty
    ELSE d.rows = d.true /\ d.state = NoRows /\ d.log = << >> /\ d.dirty = {}

Sound(d) == Shaped(d) /\ Described(d) /\ Chained(d) /\ RowsTrue(d)

(* The inductive invariant. *)
CaseInv ==
  /\ Sound(db) /\ Sound(work)
  /\ CaseTypeOK
  /\ phase = "open" \/ job = "write" => db.anchored
  /\ phase \in {"action", "append"} => work.anchored
  /\ phase = "action" => job = "write"
  /\ damage \in Nat
  /\ damage = 0 => db.rows = db.true /\ work.rows = work.true

-----------------------------------------------------------------------------
(* One more event leaves the earlier part of the replay as it was, and the  *)
(* rows it names as it says.                                                *)
LEMMA NamingAppended ==
  ASSUME NEW log \in Seq(Events), NEW e \in Events, NEW k \in Keys
  PROVE  /\ \A n \in 1..Len(log) + 1 : Naming(Append(log, e), n, k) = Naming(log, n, k)
         /\ k \in DOMAIN e => Naming(Append(log, e), Len(log) + 2, k) = Naming(log, Len(log) + 1, k) \cup {Len(log) + 1}
         /\ k \notin DOMAIN e => Naming(Append(log, e), Len(log) + 2, k) = Naming(log, Len(log) + 1, k)
<1> DEFINE more == Append(log, e)
<1>1. /\ Len(log) \in Nat /\ Len(more) = Len(log) + 1 /\ DOMAIN log = 1..Len(log) /\ DOMAIN more = 1..Len(log) + 1
      /\ \A m \in 1..Len(log) : more[m] = log[m]
      /\ more[Len(log) + 1] = e
  OBVIOUS
<1> HIDE DEF more
<1>2. \A n \in 1..Len(log) + 1 : Naming(more, n, k) = Naming(log, n, k)
  BY <1>1 DEF Naming
<1>3. \A m \in 1..Len(log) + 1 :
        m \in Naming(more, Len(log) + 2, k) <=> m \in Naming(log, Len(log) + 1, k) \/ (k \in DOMAIN e /\ m = Len(log) + 1)
  BY <1>1 DEF Naming
<1>4. Naming(more, Len(log) + 2, k) \subseteq 1..Len(log) + 1 /\ Naming(log, Len(log) + 1, k) \subseteq 1..Len(log)
  BY <1>1 DEF Naming
<1>5. ASSUME k \in DOMAIN e PROVE Naming(more, Len(log) + 2, k) = Naming(log, Len(log) + 1, k) \cup {Len(log) + 1}
  BY <1>1, <1>3, <1>4, <1>5
<1>6. ASSUME k \notin DOMAIN e PROVE Naming(more, Len(log) + 2, k) = Naming(log, Len(log) + 1, k)
  BY <1>1, <1>3, <1>4, <1>6
<1> QED
  BY <1>2, <1>5, <1>6 DEF more

LEMMA ReplayAppended ==
  ASSUME NEW log \in Seq(Events), NEW e \in Events, HasLast(log)
  PROVE  /\ HasLast(Append(log, e))
         /\ \A n \in 1..Len(log) + 1, k \in Keys : Replayed(Append(log, e), n, k) = Replayed(log, n, k)
         /\ \A k \in Keys : Replayed(Append(log, e), Len(log) + 2, k) =
              IF k \in DOMAIN e THEN e[k].current ELSE Replayed(log, Len(log) + 1, k)
<1> DEFINE more == Append(log, e)
           Newest(l, n, k) == CHOOSE m \in Naming(l, n, k) : \A o \in Naming(l, n, k) : o <= m
<1>1. /\ Len(log) \in Nat /\ Len(more) = Len(log) + 1
      /\ \A m \in 1..Len(log) : more[m] = log[m]
      /\ more[Len(log) + 1] = e
  OBVIOUS
<1>2. \A n \in 1..Len(log) + 1, k \in Keys : Naming(log, n, k) \subseteq 1..Len(log)
  BY DEF Naming
<1>3. ASSUME NEW n \in 1..Len(log) + 1, NEW k \in Keys, Naming(log, n, k) # {}
      PROVE  Newest(log, n, k) \in 1..Len(log)
  BY <1>2, <1>3 DEF HasLast
<1> HIDE DEF more
<1>4. ASSUME NEW n \in 1..Len(log) + 1, NEW k \in Keys PROVE Replayed(more, n, k) = Replayed(log, n, k)
  <2>1. Naming(more, n, k) = Naming(log, n, k)
    BY NamingAppended DEF more
  <2>2. CASE Naming(log, n, k) = {}
    BY <2>1, <2>2 DEF Replayed
  <2>3. CASE Naming(log, n, k) # {}
    <3>1. more[Newest(log, n, k)] = log[Newest(log, n, k)]
      BY <1>1, <1>3, <2>3
    <3>2. Replayed(log, n, k) = log[Newest(log, n, k)][k].current
      BY <2>3, Zenon DEF Replayed
    <3>3. Replayed(more, n, k) = more[Newest(more, n, k)][k].current
      BY <2>1, <2>3, Zenon DEF Replayed
    <3> QED
      BY <2>1, <3>1, <3>2, <3>3
  <2> QED
    BY <2>2, <2>3
<1>5. ASSUME NEW k \in Keys
      PROVE  /\ Replayed(more, Len(log) + 2, k) = IF k \in DOMAIN e THEN e[k].current ELSE Replayed(log, Len(log) + 1, k)
             /\ Naming(more, Len(log) + 2, k) # {} =>
                  \E m \in Naming(more, Len(log) + 2, k) : \A o \in Naming(more, Len(log) + 2, k) : o <= m
  <2>1. CASE k \notin DOMAIN e
    <3>1. Naming(more, Len(log) + 2, k) = Naming(log, Len(log) + 1, k)
      BY <2>1, NamingAppended DEF more
    <3> QED
      BY <1>1, <1>3, <2>1, <3>1 DEF Replayed, HasLast
  <2>2. CASE k \in DOMAIN e
    <3>1. Naming(more, Len(log) + 2, k) = Naming(log, Len(log) + 1, k) \cup {Len(log) + 1}
      BY <2>2, NamingAppended DEF more
    <3>2. \A m \in Naming(more, Len(log) + 2, k) : (\A o \in Naming(more, Len(log) + 2, k) : o <= m) <=> m = Len(log) + 1
      BY <1>1, <1>2, <3>1
    <3>3. Newest(more, Len(log) + 2, k) = Len(log) + 1
      BY <3>1, <3>2
    <3> QED
      BY <1>1, <2>2, <3>1, <3>2, <3>3 DEF Replayed
  <2> QED
    BY <2>1, <2>2
<1>6. HasLast(more)
  <2>1. ASSUME NEW n \in 1..Len(more) + 1, NEW k \in Keys, Naming(more, n, k) # {}
        PROVE  \E m \in Naming(more, n, k) : \A o \in Naming(more, n, k) : o <= m
    <3>1. CASE n \in 1..Len(log) + 1
      BY <2>1, <3>1, NamingAppended DEF HasLast, more
    <3>2. CASE n = Len(log) + 2
      BY <1>5, <2>1, <3>2
    <3> QED
      BY <1>1, <3>1, <3>2
  <2> QED
    BY <2>1 DEF HasLast
<1> QED
  BY <1>4, <1>5, <1>6 DEF more

-----------------------------------------------------------------------------
(* The statements. *)

(* What a statement of the program makes of a row, it makes of both: what   *)
(* was there is what the program had left there.                            *)
LEMMA ChangedSound ==
  ASSUME NEW d, Sound(d), d.anchored, NEW k \in Keys, NEW content,
         content \in IF k = Info THEN CaseRows ELSE Values \cup {None}
  PROVE  /\ Sound(Changed(d, k, content, content)) /\ Changed(d, k, content, content).anchored
         /\ d.rows = d.true => Changed(d, k, content, content).rows = Changed(d, k, content, content).true
<1> DEFINE c == Changed(d, k, content, content)
<1>1. Shaped(d) /\ content \in RowTypes
  BY DEF Sound, RowTypes
<1>2. /\ c.rows = [d.rows EXCEPT ![k] = content] /\ c.true = [d.true EXCEPT ![k] = content]
      /\ c.dirty = d.dirty \cup {k}
      /\ c.state = d.state /\ c.log = d.log /\ c.anchored = d.anchored /\ c.schema = d.schema
  BY <1>1 DEF Changed, Shaped
<1>3. Shaped(c)
  BY <1>1 DEF Changed, Shaped
<1> HIDE DEF c
<1>4. Described(c)
  BY <1>1, <1>2 DEF Sound, Described, Shaped
<1>5. Chained(c)
  BY <1>2 DEF Sound, Chained
<1>6. RowsTrue(c)
  BY <1>1, <1>2 DEF Sound, RowsTrue, Shaped
<1> QED
  BY <1>2, <1>3, <1>4, <1>5, <1>6 DEF Sound, c

(* A row that passes the guard is as the program left it. *)
LEMMA GuardedIsTrue ==
  ASSUME NEW d, Sound(d), d.anchored, NEW k \in Keys, Guarded(d, k)
  PROVE  d.rows[k] = d.true[k]
BY DEF Sound, RowsTrue, Guarded

LEMMA DescribedInfo ==
  ASSUME NEW d, Sound(d), AuditAssumption
  PROVE  /\ d.rows[Info].revision \in Nat /\ d.rows[Info].title \in Values
         /\ d.rows[Info] # None
BY DEF Sound, Described, CaseRows, AuditAssumption

LEMMA BumpedSound ==
  ASSUME NEW d, Sound(d), d.anchored, Guarded(d, Info), AuditAssumption
  PROVE  Sound(Bumped(d)) /\ Bumped(d).anchored /\ (d.rows = d.true => Bumped(d).rows = Bumped(d).true)
<1>1. Bumped(d) = Changed(d, Info, Case(d.rows[Info].revision + 1, d.rows[Info].title),
                                   Case(d.rows[Info].revision + 1, d.rows[Info].title))
  BY GuardedIsTrue DEF Bumped, AuditAssumption
<1>2. Case(d.rows[Info].revision + 1, d.rows[Info].title) \in CaseRows
  BY DescribedInfo DEF Case, CaseRows
<1> QED
  BY <1>1, <1>2, ChangedSound DEF AuditAssumption

LEMMA RetitledSound ==
  ASSUME NEW d, Sound(d), d.anchored, Guarded(d, Info), AuditAssumption, NEW title \in Values
  PROVE  /\ Sound(Retitled(d, title)) /\ Retitled(d, title).anchored
         /\ d.rows = d.true => Retitled(d, title).rows = Retitled(d, title).true
<1>1. Retitled(d, title) = Changed(d, Info, Case(d.rows[Info].revision, title), Case(d.rows[Info].revision, title))
  BY GuardedIsTrue DEF Retitled, AuditAssumption
<1>2. Case(d.rows[Info].revision, title) \in CaseRows
  BY DescribedInfo DEF Case, CaseRows
<1> QED
  BY <1>1, <1>2, ChangedSound DEF AuditAssumption

(* The version of the schema is not audited. *)
LEMMA MigratedSound ==
  ASSUME NEW d, Sound(d)
  PROVE  /\ Sound([d EXCEPT !.schema = SCHEMA_REVISION])
         /\ [d EXCEPT !.schema = SCHEMA_REVISION].anchored = d.anchored
         /\ [d EXCEPT !.schema = SCHEMA_REVISION].rows = d.rows
         /\ [d EXCEPT !.schema = SCHEMA_REVISION].true = d.true
         /\ [d EXCEPT !.schema = SCHEMA_REVISION].dirty = d.dirty
<1> DEFINE c == [d EXCEPT !.schema = SCHEMA_REVISION]
<1>1. /\ c.rows = d.rows /\ c.true = d.true /\ c.dirty = d.dirty
      /\ c.state = d.state /\ c.log = d.log /\ c.anchored = d.anchored
  BY DEF Sound, Shaped
<1>2. Shaped(c)
  BY DEF Sound, Shaped, SCHEMA_REVISION
<1> HIDE DEF c
<1> QED
  BY <1>1, <1>2 DEF Sound, Described, Chained, RowsTrue, c

-----------------------------------------------------------------------------
(* The anchor and the events. *)

LEMMA AnchorSound ==
  ASSUME NEW d, Sound(d), ~d.anchored, AuditAssumption
  PROVE  LET c == [d EXCEPT !.dirty = {k \in Keys : d.rows[k] # None}, !.anchored = TRUE]
         IN Sound(c) /\ c.anchored /\ c.rows = d.rows /\ c.true = d.true
<1> DEFINE c == [d EXCEPT !.dirty = {k \in Keys : d.rows[k] # None}, !.anchored = TRUE]
<1>1. /\ c.rows = d.rows /\ c.true = d.true /\ c.dirty = {k \in Keys : d.rows[k] # None}
      /\ c.state = d.state /\ c.log = d.log /\ c.anchored = TRUE
  BY DEF Sound, Shaped
<1>2. Shaped(c)
  BY DEF Sound, Shaped
<1> HIDE DEF c
<1>3. RowsTrue(c)
  BY <1>1, DescribedInfo DEF Sound, RowsTrue, NoRows, AuditAssumption
<1> QED
  BY <1>1, <1>2, <1>3 DEF Sound, Described, Chained, c

(* AppendEvent's new work, for a page of the dirty rows. *)
Appended(d, page) ==
  [d EXCEPT !.state = [k \in Keys |-> IF k \in page THEN d.rows[k] ELSE @[k]],
            !.dirty = @ \ page,
            !.log = Append(@, Event(d, page))]

LEMMA AppendedSound ==
  ASSUME NEW d, Sound(d), d.anchored, NEW page \in SUBSET d.dirty
  PROVE  /\ Sound(Appended(d, page)) /\ Appended(d, page).anchored
         /\ Appended(d, page).rows = d.rows /\ Appended(d, page).true = d.true
<1> DEFINE c == Appended(d, page)
           e == Event(d, page)
<1>1. Shaped(d) /\ page \subseteq Keys
  BY DEF Sound, Shaped
<1>2. /\ c.rows = d.rows /\ c.true = d.true /\ c.dirty = d.dirty \ page
      /\ c.state = [k \in Keys |-> IF k \in page THEN d.rows[k] ELSE d.state[k]]
      /\ c.log = Append(d.log, e) /\ c.anchored = d.anchored /\ c.schema = d.schema
  BY <1>1 DEF Appended, Shaped
<1>3. /\ e \in Events /\ DOMAIN e = page
      /\ \A k \in page : e[k].previous = d.state[k] /\ e[k].current = d.rows[k]
  <2>1. \A k \in page : [previous |-> d.state[k], current |-> d.rows[k]] \in Digests
    BY <1>1 DEF Shaped, Digests
  <2>2. e \in [page -> Digests]
    BY <2>1 DEF Event
  <2> QED
    BY <1>1, <2>2 DEF Events, Event
<1>4. c.log \in Seq(Events) /\ Len(c.log) = Len(d.log) + 1 /\ Len(d.log) \in Nat /\ d.log \in Seq(Events)
      /\ c.log # << >> /\ DOMAIN c.log = 1..Len(d.log) + 1 /\ DOMAIN d.log = 1..Len(d.log)
      /\ (\A n \in 1..Len(d.log) : c.log[n] = d.log[n]) /\ c.log[Len(d.log) + 1] = e
  <2> HIDE DEF c, e
  <2> QED
    BY <1>1, <1>2, <1>3 DEF Shaped
<1>5. Shaped(c)
  <2>1. c.state \in [Keys -> RowTypes]
    <3> HIDE DEF c, e
    <3> QED BY <1>1, <1>2 DEF Shaped
  <2>2. c.dirty \in SUBSET Keys
    <3> HIDE DEF c, e
    <3> QED BY <1>1, <1>2 DEF Shaped
  <2> QED
    BY <1>1, <1>2, <1>4, <2>1, <2>2 DEF Shaped, Appended
<1> HIDE DEF c, e
<1>6. Described(c)
  <2>1. \A k \in Keys : c.state[k] \in {d.rows[k], d.state[k]}
    BY <1>2
  <2>2. Info \in Keys
    BY AuditAssumption DEF AuditAssumption
  <2> QED
    BY <1>2, <2>1, <2>2 DEF Sound, Described
<1>7. Chained(c)
  <2>1. HasLast(d.log)
    BY DEF Sound, Chained
  <2>2. /\ HasLast(c.log)
        /\ \A n \in 1..Len(d.log) + 1, k \in Keys : Replayed(c.log, n, k) = Replayed(d.log, n, k)
        /\ \A k \in Keys : Replayed(c.log, Len(d.log) + 2, k) =
             IF k \in DOMAIN e THEN e[k].current ELSE Replayed(d.log, Len(d.log) + 1, k)
    BY <1>2, <1>3, <1>4, <2>1, ReplayAppended
  <2>3. \A k \in Keys : d.state[k] = Replayed(d.log, Len(d.log) + 1, k)
    BY DEF Sound, Chained
  <2>4. ASSUME NEW n \in DOMAIN c.log, NEW k \in DOMAIN c.log[n] PROVE c.log[n][k].previous = Replayed(c.log, n, k)
    <3>1. CASE n = Len(d.log) + 1
      BY <1>1, <1>3, <1>4, <2>2, <2>3, <2>4, <3>1
    <3>2. CASE n \in 1..Len(d.log)
      <4>1. d.log[n][k].previous = Replayed(d.log, n, k)
        BY <1>4, <2>4, <3>2 DEF Sound, Chained
      <4>2. k \in Keys
        BY <1>4, <2>4, <3>2 DEF Events
      <4> QED
        BY <1>4, <2>2, <3>2, <4>1, <4>2
    <3> QED
      BY <1>4, <3>1, <3>2
  <2>5. ASSUME NEW k \in Keys PROVE c.state[k] = Replayed(c.log, Len(c.log) + 1, k)
    BY <1>2, <1>3, <1>4, <2>2, <2>3
  <2> QED
    BY <2>2, <2>4, <2>5 DEF Chained
<1>8. RowsTrue(c)
  BY <1>1, <1>2, <1>4 DEF Sound, RowsTrue
<1> QED
  BY <1>2, <1>5, <1>6, <1>7, <1>8 DEF Sound, c

LEMMA AppendedIs ==
  ASSUME NEW d, Sound(d), d.anchored, NEW page \in SUBSET d.dirty
  PROVE  Appended(d, page) =
           [rows |-> d.rows, true |-> d.true, dirty |-> d.dirty \ page,
            state |-> [k \in Keys |-> IF k \in page THEN d.rows[k] ELSE d.state[k]],
            log |-> Append(d.log, Event(d, page)), anchored |-> d.anchored, schema |-> d.schema]
<1> DEFINE c == Appended(d, page)
<1>1. Shaped(d) /\ Shaped(c)
  BY AppendedSound DEF Sound
<1>2. c = [rows |-> c.rows, true |-> c.true, dirty |-> c.dirty, state |-> c.state,
           log |-> c.log, anchored |-> c.anchored, schema |-> c.schema]
  <2> HIDE DEF c
  <2> QED BY <1>1 DEF Shaped
<1>3. /\ c.rows = d.rows /\ c.true = d.true /\ c.dirty = d.dirty \ page
      /\ c.state = [k \in Keys |-> IF k \in page THEN d.rows[k] ELSE d.state[k]]
      /\ c.log = Append(d.log, Event(d, page)) /\ c.anchored = d.anchored /\ c.schema = d.schema
  BY <1>1 DEF Appended, Shaped
<1> HIDE DEF c
<1>4. c = [rows |-> d.rows, true |-> d.true, dirty |-> d.dirty \ page,
           state |-> [k \in Keys |-> IF k \in page THEN d.rows[k] ELSE d.state[k]],
           log |-> Append(d.log, Event(d, page)), anchored |-> d.anchored, schema |-> d.schema]
  BY <1>2, <1>3
<1> QED
  BY <1>4 DEF c

(* A row that changes outside the program is not one it has touched. *)
LEMMA DamagedSound ==
  ASSUME NEW d, Sound(d), d.anchored, d.dirty = {}, NEW k \in Keys, NEW content,
         content \in IF k = Info THEN CaseRows ELSE Values \cup {None}
  PROVE  Sound([d EXCEPT !.rows[k] = content]) /\ [d EXCEPT !.rows[k] = content].anchored
         /\ [d EXCEPT !.rows[k] = content].dirty = {}
<1> DEFINE c == [d EXCEPT !.rows[k] = content]
<1>1. Shaped(d) /\ content \in RowTypes
  BY DEF Sound, RowTypes
<1>2. /\ c.rows = [d.rows EXCEPT ![k] = content] /\ c.true = d.true /\ c.dirty = d.dirty
      /\ c.state = d.state /\ c.log = d.log /\ c.anchored = d.anchored /\ c.schema = d.schema
  BY <1>1 DEF Shaped
<1>3. Shaped(c)
  BY <1>1 DEF Shaped
<1> HIDE DEF c
<1>4. Described(c)
  BY <1>1, <1>2 DEF Sound, Described, Shaped
<1>5. Chained(c) /\ RowsTrue(c)
  BY <1>2 DEF Sound, Chained, RowsTrue
<1> QED
  BY <1>2, <1>3, <1>4, <1>5 DEF Sound, c

-----------------------------------------------------------------------------
(* The first states. *)

LEMMA SoundIsOK ==
  ASSUME NEW d, Sound(d), AuditAssumption
  PROVE  DatabaseOK(d)
<1>1. \A k \in Keys : {d.rows[k], d.true[k], d.state[k]} \subseteq Content(k) \cup {None}
  BY DEF Sound, Described, Content, CaseRows
<1> QED
  BY <1>1, DescribedInfo DEF Sound, Shaped, DatabaseOK

LEMMA UnanchoredSound ==
  ASSUME NEW rows, rows \in [Keys -> RowTypes], rows[Info] \in CaseRows,
         \A k \in Keys \ {Info} : rows[k] \in Values \cup {None},
         NEW schema \in 5..7, AuditAssumption
  PROVE  Sound(Database(rows, NoRows, << >>, FALSE, schema))
<1> DEFINE d == Database(rows, NoRows, << >>, FALSE, schema)
<1>1. /\ d.rows = rows /\ d.true = rows /\ d.state = NoRows /\ d.dirty = {}
      /\ d.log = << >> /\ d.anchored = FALSE /\ d.schema = schema
  BY DEF Database
<1>2. Shaped(d)
  BY DEF Database, Shaped, NoRows, RowTypes
<1> HIDE DEF d
<1>3. Described(d)
  BY <1>1 DEF Described, NoRows, AuditAssumption
<1>4. Chained(d)
  <2>1. \A n \in 1..Len(d.log) + 1, k \in Keys : Naming(d.log, n, k) = {}
    BY <1>1 DEF Naming
  <2>2. \A k \in Keys : Replayed(d.log, Len(d.log) + 1, k) = None
    BY <1>1, <2>1 DEF Replayed
  <2> QED
    BY <1>1, <2>1, <2>2 DEF Chained, HasLast, NoRows
<1>5. RowsTrue(d)
  BY <1>1 DEF RowsTrue
<1> QED
  BY <1>2, <1>3, <1>4, <1>5 DEF Sound, d

(* A case that is created is an empty one with its anchor. *)
LEMMA CreatedSound ==
  ASSUME NEW title \in Values, NEW schema \in 6..7, AuditAssumption
  PROVE  /\ Sound(Created(title, schema)) /\ Created(title, schema).anchored
         /\ Created(title, schema).dirty = {} /\ Created(title, schema).rows = Created(title, schema).true
<1> DEFINE empty == Database(NewRows(title), NoRows, << >>, FALSE, schema)
           anchored == [empty EXCEPT !.dirty = {k \in Keys : empty.rows[k] # None}, !.anchored = TRUE]
<1>1. /\ NewRows(title) \in [Keys -> RowTypes] /\ NewRows(title)[Info] \in CaseRows
      /\ \A k \in Keys \ {Info} : NewRows(title)[k] = None
  BY DEF NewRows, NoRows, RowTypes, CaseRows, Case, AuditAssumption
<1>2. Sound(empty) /\ ~empty.anchored /\ empty.rows = NewRows(title) /\ empty.true = NewRows(title)
      /\ empty.dirty = {} /\ empty.state = NoRows /\ empty.log = << >> /\ empty.schema = schema
  <2>1. schema \in 5..7
    OBVIOUS
  <2>2. Sound(empty)
    BY <1>1, <2>1, UnanchoredSound
  <2> QED
    BY <2>2 DEF Database
<1>3. Sound(anchored) /\ anchored.anchored /\ anchored.rows = empty.rows /\ anchored.true = empty.true
  <2> HIDE DEF empty
  <2> QED
    BY <1>2, AnchorSound
<1>4. anchored.dirty = {Info} /\ anchored.state = NoRows /\ anchored.log = << >> /\ anchored.schema = schema
  <2>1. {k \in Keys : NewRows(title)[k] # None} = {Info}
    BY <1>1 DEF CaseRows, AuditAssumption
  <2> QED
    BY <1>2, <2>1 DEF Database
<1>5. Appended(anchored, {Info}) = Created(title, schema)
  <2>1. Event(anchored, {Info}) = Event(empty, {Info})
    <3> HIDE DEF anchored, empty
    <3> QED BY <1>2, <1>3, <1>4 DEF Event
  <2>2. [k \in Keys |-> IF k \in {Info} THEN anchored.rows[k] ELSE anchored.state[k]] = NewRows(title)
    <3> HIDE DEF anchored, empty
    <3> QED BY <1>1, <1>2, <1>3, <1>4 DEF NewRows, NoRows
  <2>3. Append(anchored.log, Event(anchored, {Info})) = <<Event(empty, {Info})>>
    <3> HIDE DEF anchored, empty
    <3> QED BY <1>4, <2>1
  <2>4. anchored.dirty \ {Info} = {}
    BY <1>4
  <2>5. Appended(anchored, {Info}) =
          [rows |-> anchored.rows, true |-> anchored.true, dirty |-> anchored.dirty \ {Info},
           state |-> [k \in Keys |-> IF k \in {Info} THEN anchored.rows[k] ELSE anchored.state[k]],
           log |-> Append(anchored.log, Event(anchored, {Info})),
           anchored |-> anchored.anchored, schema |-> anchored.schema]
    <3> DEFINE page == {Info}
    <3>1. page \in SUBSET anchored.dirty
      BY <1>4
    <3> HIDE DEF anchored, empty, page
    <3>2. Appended(anchored, page) =
            [rows |-> anchored.rows, true |-> anchored.true, dirty |-> anchored.dirty \ page,
             state |-> [k \in Keys |-> IF k \in page THEN anchored.rows[k] ELSE anchored.state[k]],
             log |-> Append(anchored.log, Event(anchored, page)),
             anchored |-> anchored.anchored, schema |-> anchored.schema]
      BY <1>3, <3>1, AppendedIs
    <3> QED
      BY <3>2, Zenon DEF page
  <2> QED
    BY <1>2, <1>3, <1>4, <2>2, <2>3, <2>4, <2>5 DEF Created, Database
<1> HIDE DEF anchored, empty
<1> QED
  BY <1>2, <1>3, <1>4, <1>5, AppendedSound DEF Created, Database

LEMMA CaseInvInit == Init => CaseInv
<1> SUFFICES ASSUME Init PROVE CaseInv
  OBVIOUS
<1> USE AuditAssumption
<1>1. PICK title \in Values :
        db \in {Created(title, schema) : schema \in {6, 7}}
                 \cup {Unaudited(title, v, schema) : v \in Values \cup {None}, schema \in {5, 6}}
  BY DEF Init
<1>2. Sound(db) /\ db.dirty = {} /\ db.rows = db.true
  <2>1. CASE \E schema \in 6..7 : db = Created(title, schema)
    BY <2>1, CreatedSound
  <2>2. CASE \E v \in Values \cup {None}, schema \in 5..7 : db = Unaudited(title, v, schema)
    <3>1. PICK v \in Values \cup {None}, schema \in 5..7 : db = Unaudited(title, v, schema)
      BY <2>2
    <3> DEFINE rows == [k \in Keys |-> IF k = Info THEN Case(0, title) ELSE v]
    <3>2. rows \in [Keys -> RowTypes] /\ rows[Info] \in CaseRows /\ \A k \in Keys \ {Info} : rows[k] \in Values \cup {None}
      BY DEF RowTypes, CaseRows, Case, AuditAssumption
    <3>3. db = Database(rows, NoRows, << >>, FALSE, schema)
      BY <3>1 DEF Unaudited
    <3> HIDE DEF rows
    <3> QED
      BY <3>2, <3>3, UnanchoredSound DEF Database
  <2> QED
    BY <1>1, <2>1, <2>2
<1>3. DatabaseOK(db)
  BY <1>2, SoundIsOK
<1> QED
  BY <1>2, <1>3 DEF Init, CaseInv, CaseTypeOK

-----------------------------------------------------------------------------
(* The steps. *)

(* A transaction that the program has written only true rows in. *)
LEMMA TransactionStep ==
  ASSUME CaseInv, NEW d, Sound(d), d.anchored, damage = 0 => d.rows = d.true,
         NEW to \in {"action", "append"}, NEW purpose \in {"none", "migrate", "anchor", "write"},
         to = "action" => purpose = "write", purpose = "write" => db.anchored,
         Transaction(d, to, purpose)
  PROVE  CaseInv'
<1>1. DatabaseOK(db) /\ DatabaseOK(d) /\ db.dirty = {}
  BY SoundIsOK, AuditAssumption DEF CaseInv, CaseTypeOK
<1> QED
  BY <1>1 DEF CaseInv, CaseTypeOK, Transaction

LEMMA RollbackStep ==
  ASSUME CaseInv, NEW to \in {"closed", "open"}, to = "open" => db.anchored, Rollback(to)
  PROVE  CaseInv'
BY DEF CaseInv, CaseTypeOK, Rollback

LEMMA StatementStep ==
  ASSUME CaseInv, Statement
  PROVE  CaseInv'
<1> USE AuditAssumption
<1>1. /\ phase = "action" /\ job = "write" /\ work.anchored /\ db.anchored
      /\ Sound(work) /\ (damage = 0 => work.rows = work.true)
      /\ job \in {"none", "migrate", "anchor", "write"} /\ "action" \in {"action", "append"}
  BY DEF Statement, CaseInv
<1>2. ASSUME NEW k \in Keys \ {Info}, NEW content \in Values \cup {None},
             Transaction(Changed(work, k, content, content), "action", job)
      PROVE  CaseInv'
  <2>1. /\ Sound(Changed(work, k, content, content)) /\ Changed(work, k, content, content).anchored
        /\ damage = 0 => Changed(work, k, content, content).rows = Changed(work, k, content, content).true
    BY <1>1, ChangedSound
  <2> QED
    BY <1>1, <1>2, <2>1, TransactionStep
<1>3. ASSUME NEW title \in Values, SetTitle(title) PROVE CaseInv'
  <2>1. CASE Guarded(work, Info)
    <3>1. Transaction(Retitled(work, title), "action", job)
      BY <1>3, <2>1 DEF SetTitle
    <3>2. /\ Sound(Retitled(work, title)) /\ Retitled(work, title).anchored
          /\ damage = 0 => Retitled(work, title).rows = Retitled(work, title).true
      BY <1>1, <2>1, RetitledSound
    <3> QED
      BY <1>1, <3>1, <3>2, TransactionStep
  <2>2. CASE ~Guarded(work, Info)
    BY <1>1, <1>3, <2>2, RollbackStep DEF SetTitle
  <2> QED
    BY <2>1, <2>2
<1>4. ASSUME NEW k \in Keys \ {Info}, NEW content \in Values \cup {None}, Replace(k, content) PROVE CaseInv'
  BY <1>1, <1>2, <1>4, RollbackStep DEF Replace
<1>5. ASSUME NEW k \in Keys \ {Info}, NEW content \in Values, Insert(k, content) PROVE CaseInv'
  BY <1>2, <1>5 DEF Insert
<1> QED
  BY <1>3, <1>4, <1>5 DEF Statement

LEMMA BumpStep ==
  ASSUME CaseInv, Bump
  PROVE  CaseInv'
<1> USE AuditAssumption
<1>1. /\ phase = "action" /\ job = "write" /\ work.anchored /\ db.anchored
      /\ Sound(work) /\ (damage = 0 => work.rows = work.true)
      /\ job \in {"none", "migrate", "anchor", "write"} /\ "append" \in {"action", "append"}
  BY DEF Bump, CaseInv
<1>2. CASE Guarded(work, Info)
  <2>1. Transaction(Bumped(work), "append", job)
    BY <1>2 DEF Bump
  <2>2. /\ Sound(Bumped(work)) /\ Bumped(work).anchored
        /\ damage = 0 => Bumped(work).rows = Bumped(work).true
    BY <1>1, <1>2, BumpedSound
  <2> QED
    BY <1>1, <2>1, <2>2, TransactionStep
<1>3. CASE ~Guarded(work, Info)
  BY <1>1, <1>3, RollbackStep DEF Bump
<1> QED
  BY <1>2, <1>3

LEMMA OpeningStep ==
  ASSUME CaseInv, MigrateUnanchored \/ MigrateAudited \/ Open \/ Anchor \/ Anchored
  PROVE  CaseInv'
<1> USE AuditAssumption
<1>1. Sound(db) /\ db.dirty = {} /\ (damage = 0 => db.rows = db.true)
  BY DEF CaseInv, CaseTypeOK
<1>2. CASE MigrateUnanchored
  <2> DEFINE d == [db EXCEPT !.schema = SCHEMA_REVISION]
  <2>1. Sound(d) /\ d.anchored = db.anchored /\ d.rows = db.rows /\ d.true = db.true /\ d.dirty = db.dirty
    BY <1>1, MigratedSound
  <2>2. db' = d /\ work' = d /\ phase' = "opening" /\ UNCHANGED <<job, damage>> /\ phase = "closed"
    BY <1>2 DEF MigrateUnanchored
  <2> HIDE DEF d
  <2>3. DatabaseOK(d)
    BY <2>1, SoundIsOK
  <2> QED
    BY <1>1, <2>1, <2>2, <2>3 DEF CaseInv, CaseTypeOK
<1>3. CASE MigrateAudited
  <2> DEFINE d == [Bumped(db) EXCEPT !.schema = SCHEMA_REVISION]
  <2>1. Guarded(db, Info) /\ db.anchored /\ Transaction(d, "append", "migrate")
    BY <1>3 DEF MigrateAudited
  <2>2. Sound(Bumped(db)) /\ Bumped(db).anchored /\ (damage = 0 => Bumped(db).rows = Bumped(db).true)
    BY <1>1, <2>1, BumpedSound
  <2>3. Sound(d) /\ d.anchored /\ (damage = 0 => d.rows = d.true)
    BY <2>2, MigratedSound
  <2> HIDE DEF d
  <2> QED
    BY <2>1, <2>3, TransactionStep
<1>4. CASE Anchor
  <2> DEFINE d == [db EXCEPT !.dirty = {k \in Keys : db.rows[k] # None}, !.anchored = TRUE]
  <2>1. Transaction(d, "append", "anchor") /\ ~db.anchored
    BY <1>4 DEF Anchor
  <2>2. Sound(d) /\ d.anchored /\ (damage = 0 => d.rows = d.true)
    BY <1>1, <2>1, AnchorSound
  <2> HIDE DEF d
  <2> QED
    BY <2>1, <2>2, TransactionStep
<1>5. CASE Open \/ Anchored
  BY <1>5 DEF Open, Anchored, CaseInv, CaseTypeOK
<1> QED
  BY <1>2, <1>3, <1>4, <1>5

LEMMA AppendStep ==
  ASSUME CaseInv, AppendEvent
  PROVE  CaseInv'
<1>1. PICK page \in SUBSET work.dirty :
        work' = [work EXCEPT !.state = [k \in Keys |-> IF k \in page THEN work.rows[k] ELSE @[k]],
                             !.dirty = @ \ page, !.log = Append(@, Event(work, page))]
  BY DEF AppendEvent
<1>2. work' = Appended(work, page)
  BY <1>1 DEF Appended
<1>3. /\ Sound(work) /\ work.anchored /\ phase = "append" /\ (damage = 0 => work.rows = work.true)
      /\ UNCHANGED <<db, phase, job, damage>>
  BY DEF CaseInv, AppendEvent
<1>4. Sound(work)' /\ work'.anchored /\ work'.rows = work.rows /\ work'.true = work.true
  BY <1>2, <1>3, AppendedSound
<1>5. DatabaseOK(work)'
  BY <1>4, SoundIsOK, AuditAssumption
<1> QED
  BY <1>3, <1>4, <1>5 DEF CaseInv, CaseTypeOK

LEMMA EndStep ==
  ASSUME CaseInv, Begin \/ CommitWork \/ Fail \/ Close
  PROVE  CaseInv'
<1>1. CASE Begin
  BY <1>1 DEF Begin, Transaction, CaseInv, CaseTypeOK
<1>2. CASE CommitWork
  BY <1>2 DEF CommitWork, Commit, CaseInv, CaseTypeOK
<1>3. CASE Fail
  BY <1>3, RollbackStep DEF Fail, CaseInv
<1>4. CASE Close
  BY <1>4, RollbackStep DEF Close
<1> QED
  BY <1>1, <1>2, <1>3, <1>4

LEMMA DamageStep ==
  ASSUME CaseInv, Damage
  PROVE  CaseInv'
<1> USE AuditAssumption
<1>1. PICK k \in Keys :
        \E content \in (IF k = Info THEN {Case(Revision(db), title) : title \in Values}
                                    ELSE Values \cup {None}) \ {db.rows[k]} :
          db' = [db EXCEPT !.rows[k] = content]
  BY DEF Damage
<1>2. PICK content \in (IF k = Info THEN {Case(Revision(db), title) : title \in Values} ELSE Values \cup {None}) :
        db' = [db EXCEPT !.rows[k] = content]
  BY <1>1
<1>3. Sound(db) /\ db.dirty = {} /\ db.anchored /\ damage' = damage + 1 /\ work' = db'
      /\ phase \in {"closed", "open"} /\ UNCHANGED <<phase, job>> /\ damage \in Nat
  BY DEF CaseInv, CaseTypeOK, Damage
<1>4. content \in IF k = Info THEN CaseRows ELSE Values \cup {None}
  BY <1>2, <1>3, DescribedInfo DEF Case, CaseRows, Revision
<1>5. Sound(db)' /\ db'.anchored /\ db'.dirty = {}
  BY <1>2, <1>3, <1>4, DamagedSound
<1>6. DatabaseOK(db)'
  BY <1>5, SoundIsOK
<1> QED
  BY <1>3, <1>5, <1>6 DEF CaseInv, CaseTypeOK

LEMMA CaseInvStep == CaseInv /\ [CaseStep]_caseVars => CaseInv'
<1> SUFFICES ASSUME CaseInv, [CaseStep]_caseVars PROVE CaseInv'
  OBVIOUS
<1>1. CASE CaseStep
  BY <1>1, OpeningStep, StatementStep, BumpStep, AppendStep, EndStep, DamageStep DEF CaseStep
<1>2. CASE UNCHANGED caseVars
  BY <1>2 DEF caseVars, CaseInv, CaseTypeOK
<1> QED
  BY <1>1, <1>2

-----------------------------------------------------------------------------
(* What the verification of a case says (audit.rs:384, audit.rs:256): a     *)
(* case that nobody else has written to passes it, however its             *)
(* transactions were split into events and wherever they were cut short;    *)
(* and the rows of any case that passes are what the program wrote.  For    *)
(* any rows, any page size and any number of transactions.                  *)
THEOREM CaseIsSound == CaseSpec => []CaseSound
<1>1. CaseInv => CaseSound
  <2> SUFFICES ASSUME CaseInv PROVE CaseSound
    OBVIOUS
  <2>1. Sound(db) /\ db.dirty = {} /\ (damage = 0 => db.rows = db.true) /\ CaseTypeOK
    BY DEF CaseInv, CaseTypeOK
  <2>2. ASSUME db.anchored PROVE /\ \A k \in Keys : db.state[k] = db.true[k]
                                 /\ db.log # << >>
                                 /\ \A k \in Keys : db.state[k] = Replayed(db.log, Len(db.log) + 1, k)
    BY <2>1, <2>2 DEF Sound, RowsTrue, Chained
  <2>3. CleanVerifies
    BY <2>1, <2>2 DEF CleanVerifies, Verify, Sound, Chained
  <2>4. VerifiedIsTrue
    BY <2>1, <2>2 DEF VerifiedIsTrue, Verify, Sound, Shaped
  <2> QED
    BY <2>1, <2>3, <2>4 DEF CaseSound
<1> QED
  BY <1>1, CaseInvInit, CaseInvStep, PTL DEF CaseSpec

-----------------------------------------------------------------------------
(* The transfers *)


(* A state of this case, with an event for each of its revisions. *)
Kinds == {"case.anchor", "commit"}

OfThisCase(d) ==
  /\ d \in [kind : {"case"}, case : {"this"}, schema : {SCHEMA_REVISION}, revision : Nat,
            log : Seq(Kinds), scans : {d.scans}, receipts : {d.receipts}, filters : {d.filters}]
  /\ Len(d.log) = d.revision + 1

Operation(o) ==
  o \in [op : {o.op}, at : {o.at}, source : {o.source}, target : {o.target},
         key : Signers \cup {None}, modified : {o.modified}, half : {o.half}, copy : {o.copy},
         todo : {o.todo}, draft : {o.draft}]

(* A signature is something.                                                *)
TransferAssumption ==
  /\ TransferInputs
  /\ \A by, of : [by |-> by, of |-> of] # None

(* The case at each of its revisions. *)
Cases == Range(past)

(* What export makes of one of some cases, and what is signed by an own key *)
(* only if it was made.                                                     *)
MadeOf(bundle, cases) ==
  \E d \in cases, key \in Signers \cup {None} : bundle = Bundle(Manifest(d, key), key, d)

Own(content, made) ==
  content.kind = "snapshot" =>
    /\ Bundled(content)
    /\ content.signature # None /\ content.signature.by \in Signers =>
         \E bundle \in made : bundle.signature = content.signature

Accepted(bundle, key, made) ==
  /\ bundle.manifest.signer = key
  /\ key # None => bundle \in made
  /\ bundle.signature = None <=> key = None
  /\ bundle.db.revision = bundle.manifest.db.revision
  /\ Portable(bundle.db) /\ bundle.db.schema \in 1..SCHEMA_REVISION

(* What an operation holds. *)
Held(o, cases, made) ==
  /\ Operation(o)
  /\ o.op = "export" /\ o.at = "describe" => o.copy \in cases
  /\ o.op = "export" /\ o.at = "publish" => MadeOf(o.copy, cases)
  /\ o.at = "copy" => o.half # None /\ Own(o.half, made)
  /\ o.at = "judge" => Own(o.copy, made)
  /\ o.op = "open" /\ o.at = "publish" =>
       Accepted(o.half, o.key, made) /\ o.copy = Migrated(o.half.db)
  /\ o.op = "verify" /\ o.at = "accepted" => Accepted(o.copy, o.key, made)
  /\ o.op = "import" /\ o.at = "insert" => OfThisCase(o.draft)

Placed(file, made) ==
  /\ file = [content |-> file.content, modified |-> file.modified]
  /\ file.modified \in Nat
  /\ file.content # None => Own(file.content, made)

History ==
  /\ past \in Seq(Cases) /\ past # << >>
  /\ \A k \in DOMAIN past : OfThisCase(past[k]) /\ past[k].revision = k - 1
  /\ live = Last(past)

InTransaction ==
  /\ holder \in Actors \cup {None}
  /\ \A i \in Actors : holder = i <=> At(i, {"import"}, "insert")

(* The inductive invariant. *)
TransferInv ==
  /\ History
  /\ InTransaction
  /\ files = [p \in FilePaths |-> files[p]]
  /\ \A p \in FilePaths : Placed(files[p], exported)
  /\ \A bundle \in exported : MadeOf(bundle, Cases)
  /\ ops = [i \in Actors |-> ops[i]]
  /\ \A i \in Actors : Held(ops[i], Cases, exported)
-----------------------------------------------------------------------------
(* Records. *)

LEMMA OfThisCaseIsPortable ==
  ASSUME NEW d, OfThisCase(d)
  PROVE  /\ Portable(d) /\ d.schema = SCHEMA_REVISION /\ d.case = "this" /\ d.revision \in Nat
         /\ AuditAnchor(d) = d.log /\ d.log # << >> /\ Len(d.log) = d.revision + 1
BY DEF OfThisCase, Portable, AuditAnchor, FirstAudited, SCHEMA_REVISION

CaseRecord(case, schema, revision, log, scans, receipts, filters) ==
  [kind |-> "case", case |-> case, schema |-> schema, revision |-> revision, log |-> log,
   scans |-> scans, receipts |-> receipts, filters |-> filters]

LEMMA CaseRecordIsPortable ==
  ASSUME NEW case, NEW schema, NEW revision \in Nat, NEW log, NEW scans, NEW receipts, NEW filters,
         schema < FirstAudited => log = << >>
  PROVE  /\ Portable(CaseRecord(case, schema, revision, log, scans, receipts, filters))
         /\ CaseRecord(case, schema, revision, log, scans, receipts, filters).kind = "case"
BY DEF Portable, CaseRecord

LEMMA MigratedIsPortable ==
  ASSUME NEW d, Portable(d), d.schema \in 1..SCHEMA_REVISION
  PROVE  Portable(Migrated(d)) /\ Migrated(d).kind = "case" /\ OpenedAs(d, Migrated(d))
<1>1. /\ d = CaseRecord(d.case, d.schema, d.revision, d.log, d.scans, d.receipts, d.filters)
      /\ d.revision \in Nat
  BY DEF Portable, CaseRecord
<1>2. PICK case, schema, revision, log, scans, receipts, filters :
        /\ d = CaseRecord(case, schema, revision, log, scans, receipts, filters)
        /\ d.schema = schema /\ d.revision = revision /\ revision \in Nat /\ d.log = log
  BY <1>1
<1>3. SCHEMA_REVISION = 7 /\ FirstAudited = 6 /\ schema \in 1..7
  BY <1>2 DEF SCHEMA_REVISION, FirstAudited
<1>4. CASE schema = 7
  <2>1. Migrated(d) = d
    BY <1>2, <1>3, <1>4 DEF Migrated
  <2>3. OpenedAs(d, d)
    BY <1>2, <1>3, <1>4 DEF OpenedAs
  <2>4. d.kind = "case"
    BY <1>2 DEF CaseRecord
  <2> QED BY <2>1, <2>3, <2>4
<1>5. CASE schema # 7
  <2>1. PICK event, to : /\ event = IF d.schema >= FirstAudited THEN "schema.migrate" ELSE "case.anchor"
                         /\ to = IF d.schema >= FirstAudited THEN d.revision + 1 ELSE d.revision
    OBVIOUS
  <2>2. PICK c, new : c = CaseRecord(case, 7, to, new, scans, receipts, filters) /\ new = Append(log, event)
    OBVIOUS
  <2>3. Migrated(d) = [d EXCEPT !.schema = 7, !.revision = to, !.log = new]
    BY <1>2, <1>3, <1>5, <2>1, <2>2 DEF Migrated
  <2>4. Migrated(d) = c
    BY <1>2, <2>2, <2>3 DEF CaseRecord
  <2>5. Portable(c) /\ c.kind = "case"
    BY <1>2, <1>3, <2>1, <2>2, CaseRecordIsPortable
  <2>6. \A part \in {"kind", "case", "scans", "receipts", "filters"} : c[part] = d[part]
    BY <1>2, <2>2 DEF CaseRecord
  <2>7. c.schema = 7 /\ c.revision = to /\ c.log = new
    BY <2>2 DEF CaseRecord
  <2>8. \E e \in {"case.anchor", "schema.migrate"} : c.log = Append(d.log, e)
    BY <1>2, <2>1, <2>2, <2>7
  <2>9. c.revision = d.revision <=> d.schema < FirstAudited
    BY <1>2, <1>3, <2>1, <2>7
  <2>10. OpenedAs(d, c)
    BY <1>2, <1>3, <1>5, <2>6, <2>7, <2>8, <2>9 DEF OpenedAs
  <2> QED BY <2>4, <2>5, <2>10
<1> QED BY <1>4, <1>5

(* What a snapshot becomes when one of its members is exchanged. *)
LEMMA BundledFields ==
  ASSUME NEW b, Bundled(b), NEW x
  PROVE  /\ Portable(x) => Bundled([b EXCEPT !.db = x])
         /\ [b EXCEPT !.db = x].signature = b.signature
         /\ Bundled([b EXCEPT !.signature = x]) /\ [b EXCEPT !.signature = x].signature = x
<1>1. PICK m, s, d : /\ b = [kind |-> "snapshot", manifest |-> m, signature |-> s, db |-> d]
                     /\ Portable(d)
  BY DEF Bundled
<1> HIDE DEF Portable
<1> QED BY <1>1 DEF Bundled

(* The ways an operation goes on. *)
Fields(o, at, half, copy, todo, draft) ==
  [op : {o.op}, at : {at}, source : {o.source}, target : {o.target}, key : {o.key},
   modified : {o.modified}, half : {half}, copy : {copy}, todo : {todo}, draft : {draft}]

LEMMA OperationFields ==
  ASSUME NEW o, Operation(o), NEW a, NEW h, NEW c, NEW w, NEW d, NEW n, n \in Fields(o, a, h, c, w, d)
  PROVE  /\ Operation(n) /\ n.op = o.op /\ n.key = o.key
         /\ n.at = a /\ n.half = h /\ n.copy = c /\ n.draft = d
         /\ n.todo = w /\ n.source = o.source /\ n.modified = o.modified
BY DEF Operation, Fields

(* A sequence with one element more. *)
LEMMA OfItsOwn ==
  ASSUME NEW S, NEW n \in Seq(S)
  PROVE  n \in Seq(Range(n)) /\ DOMAIN n = 1..Len(n) /\ Len(n) \in Nat
BY DEF Range

LEMMA Longer ==
  ASSUME NEW s, s \in Seq(Range(s)), NEW e, NEW n, n = Append(s, e)
  PROVE  /\ n \in Seq(Range(n)) /\ n # << >>
         /\ DOMAIN s = 1..Len(s) /\ DOMAIN n = 1..Len(s) + 1
         /\ \A k \in DOMAIN s : n[k] = s[k]
         /\ n[Len(s) + 1] = e /\ Last(n) = e /\ Len(n) = Len(s) + 1
         /\ Range(s) \subseteq Range(n)
<1>2. /\ n \in Seq(Range(s) \cup {e}) /\ n # << >> /\ DOMAIN s = 1..Len(s) /\ DOMAIN n = 1..Len(s) + 1
      /\ \A k \in DOMAIN s : n[k] = s[k]
      /\ n[Len(s) + 1] = e /\ Len(n) = Len(s) + 1 /\ Len(s) \in Nat
  OBVIOUS
<1>3. n \in Seq(Range(n))
  BY <1>2, OfItsOwn
<1>4. Last(n) = e
  BY <1>2 DEF Last
<1>5. Range(s) \subseteq Range(n)
  BY <1>2 DEF Range
<1> QED BY <1>2, <1>3, <1>4, <1>5

-----------------------------------------------------------------------------
(* What is known stays known, while more is committed and exported. *)

LEMMA HeldStays ==
  ASSUME NEW o, NEW cases, NEW more, NEW made, NEW making,
         Held(o, cases, made), cases \subseteq more, made \subseteq making
  PROVE  Held(o, more, making)
<1>1. \A b : MadeOf(b, cases) => MadeOf(b, more)
  BY DEF MadeOf
<1>2. \A c : Own(c, made) => Own(c, making)
  BY DEF Own
<1>3. \A b, k : Accepted(b, k, made) => Accepted(b, k, making)
  BY DEF Accepted
<1> QED BY <1>1, <1>2, <1>3 DEF Held

LEMMA PlacedStays ==
  ASSUME NEW file, NEW made, NEW making, Placed(file, made), made \subseteq making
  PROVE  Placed(file, making)
<1>1. \A c : Own(c, made) => Own(c, making)
  BY DEF Own
<1> QED BY <1>1 DEF Placed

LEMMA PlacedContent ==
  ASSUME NEW file, NEW made, Placed(file, made), NEW content, Own(content, made)
  PROVE  LET n == [file EXCEPT !.content = content] IN
         Placed(n, made) /\ n.content = content /\ n.modified = file.modified
<1>1. PICK c, m : file = [content |-> c, modified |-> m] /\ m \in Nat
  BY DEF Placed
<1>2. [file EXCEPT !.content = content] = [content |-> content, modified |-> m]
  BY <1>1
<1> QED BY <1>1, <1>2 DEF Placed

-----------------------------------------------------------------------------
(* Snapshots. *)

(* What is made of a state of the case: it is its own, and who trusts its   *)
(* signer accepts it, and nobody else.                                      *)
LEMMA MadeIsBundled ==
  ASSUME TransferAssumption, NEW cases, \A d \in cases : OfThisCase(d),
         NEW bundle, MadeOf(bundle, cases)
  PROVE  /\ bundle.db \in cases /\ OfThisCase(bundle.db) /\ Bundled(bundle)
         /\ bundle.manifest.signer \in Signers \cup {None}
         /\ bundle = Bundle(Manifest(bundle.db, bundle.manifest.signer), bundle.manifest.signer,
                            bundle.db)
         /\ bundle.manifest.db = bundle.db /\ bundle.manifest.audit = bundle.db.log
         /\ bundle.manifest.records = Records(bundle.db)
<1>1. PICK d \in cases, key \in Signers \cup {None} : bundle = Bundle(Manifest(d, key), key, d)
  BY DEF MadeOf
<1>2. OfThisCase(d) /\ d.schema = SCHEMA_REVISION /\ Portable(d)
  BY OfThisCaseIsPortable
<1>3. AuditAnchor(d) = d.log
  BY OfThisCaseIsPortable
<1> HIDE DEF Records, Portable, OfThisCase, AuditAnchor
<1>4. /\ bundle.db = d /\ bundle.manifest.signer = key /\ bundle.manifest.db = d
      /\ bundle.manifest.audit = AuditAnchor(d) /\ bundle.manifest.records = Records(d)
      /\ bundle = [kind |-> "snapshot", manifest |-> bundle.manifest,
                   signature |-> bundle.signature, db |-> bundle.db]
  BY <1>1 DEF Bundle, Manifest
<1> QED BY <1>1, <1>2, <1>3, <1>4 DEF Bundled

LEMMA MadeIsAcceptable ==
  ASSUME TransferAssumption, NEW cases, \A d \in cases : OfThisCase(d),
         NEW bundle, MadeOf(bundle, cases), NEW k \in Signers \cup {None}
  PROVE  Acceptable(bundle, k) <=> k = bundle.manifest.signer
<1> DEFINE d == bundle.db
           key == bundle.manifest.signer
           m == Manifest(d, key)
<1>1. /\ OfThisCase(d) /\ key \in Signers \cup {None}
      /\ bundle = Bundle(m, key, d)
  BY MadeIsBundled
<1> HIDE DEF d, key, Records
<1>2. /\ m.db = d /\ m.case = d.case /\ m.schema = SCHEMA_REVISION /\ m.records = Records(d)
      /\ m.audit = AuditAnchor(d) /\ m.signer = key
  BY <1>1 DEF Manifest, OfThisCase
<1> HIDE DEF m
<1>3. bundle.kind = "snapshot" /\ bundle.manifest = m /\ bundle.signature = Sign(m, key) /\ bundle.db = d
  BY <1>1 DEF Bundle
<1>4. d.schema = SCHEMA_REVISION /\ SCHEMA_REVISION \in 1..SCHEMA_REVISION
  BY <1>1 DEF OfThisCase, SCHEMA_REVISION
<1>7. AuditAnchor(d) # << >>
  BY <1>1, OfThisCaseIsPortable
<1>5. Acceptable(bundle, k) <=> Trusted(m, Sign(m, key), k, key)
  BY <1>2, <1>3, <1>4, <1>7 DEF Acceptable
<1>6. Trusted(m, Sign(m, key), k, key) <=> k = key
  <2>1. CASE key = None
    BY <2>1 DEF Trusted, Sign
  <2>2. CASE key # None
    <3>1. Sign(m, key) = [by |-> key, of |-> m] /\ Sign(m, key) # None
      BY <2>2 DEF Sign, TransferAssumption, TransferInputs
    <3> QED BY <3>1, <2>2 DEF Trusted, Verified
  <2> QED BY <2>1, <2>2
<1> QED BY <1>5, <1>6 DEF key

LEMMA MadeIsOwn ==
  ASSUME TransferAssumption, NEW cases, \A d \in cases : OfThisCase(d),
         NEW bundle, MadeOf(bundle, cases), NEW made, bundle \in made
  PROVE  Own(bundle, made)
BY MadeIsBundled DEF Own

(* What is accepted under a key was made: the signature is one that was     *)
(* made, it is of this manifest, and the manifest is of this database.      *)
LEMMA AcceptedIsMade ==
  ASSUME TransferAssumption, NEW cases, \A d \in cases : OfThisCase(d),
         NEW made, \A bundle \in made : MadeOf(bundle, cases),
         NEW content, Own(content, made), NEW key \in Signers \cup {None}, Acceptable(content, key)
  PROVE  Accepted(content, key, made)
<1> HIDE DEF Records
<1>1. /\ content.kind = "snapshot" /\ content.manifest.db = content.db
      /\ Trusted(content.manifest, content.signature, key, content.manifest.signer)
      /\ content.db.schema \in 1..SCHEMA_REVISION
  BY DEF Acceptable
<1>2. Bundled(content) /\ Portable(content.db)
  BY <1>1 DEF Own, Bundled
<1>3. CASE content.signature = None
  <2>1. key = None /\ content.manifest.signer = None
    BY <1>1, <1>3 DEF Trusted
  <2> QED BY <1>1, <1>2, <1>3, <2>1 DEF Accepted
<1>4. CASE content.signature # None
  <2>1. /\ key # None /\ content.manifest.signer = key
        /\ content.signature.of = content.manifest /\ content.signature.by = key
    BY <1>1, <1>4 DEF Trusted, Verified
  <2>2. PICK bundle \in made : bundle.signature = content.signature
    BY <1>1, <1>4, <2>1 DEF Own
  <2>3. MadeOf(bundle, cases)
    OBVIOUS
  <2> DEFINE d == bundle.db
             signer == bundle.manifest.signer
             m == Manifest(d, signer)
  <2>4. Bundled(bundle) /\ bundle = Bundle(m, signer, d) /\ bundle.manifest.db = d
    BY <2>3, MadeIsBundled
  <2> HIDE DEF d, signer, m
  <2>5. bundle.manifest = m /\ bundle.signature = Sign(m, signer) /\ bundle.db = d
    BY <2>4 DEF Bundle
  <2>6. bundle.signature.of = bundle.manifest
    BY <2>2, <2>5, <1>4 DEF Sign
  <2>7. content.manifest = bundle.manifest /\ content.db = bundle.db
    BY <1>1, <2>1, <2>2, <2>4, <2>5, <2>6
  <2>8. content = bundle
    BY <1>2, <2>2, <2>4, <2>7 DEF Bundled
  <2> QED BY <1>1, <1>2, <1>4, <2>1, <2>8 DEF Accepted
<1> QED BY <1>3, <1>4

-----------------------------------------------------------------------------
(* The initial state, and how a step is shown to keep the invariant. *)

LEMMA TransferStarts ==
  ASSUME TransferAssumption, TransferInit
  PROVE  TransferInv
<1>1. OfThisCase(live) /\ live.revision = 0
  <2>1. PICK log : log = <<"case.anchor">> /\ log \in Seq(Kinds) /\ Len(log) = 1
    <3>1. \A x \in Kinds : <<x>> \in Seq(Kinds) /\ Len(<<x>>) = 1
      OBVIOUS
    <3>2. "case.anchor" \in Kinds
      BY DEF Kinds
    <3> QED BY <3>1, <3>2
  <2>2. live = [kind |-> "case", case |-> "this", schema |-> SCHEMA_REVISION, revision |-> 0,
                log |-> log, scans |-> << >>, receipts |-> << >>, filters |-> {}]
    BY <2>1 DEF TransferInit
  <2> QED BY <2>1, <2>2 DEF OfThisCase
<1>2. past = <<live>> /\ DOMAIN past = {1} /\ past[1] = live /\ Len(past) = 1
  BY DEF TransferInit
<1>3. Cases = {live}
  BY <1>2 DEF Cases, Range
<1>4. History
  <2>1. past \in Seq(Cases) /\ past # << >>
    BY <1>2, <1>3
  <2>2. live = Last(past)
    BY <1>2 DEF Last
  <2> QED BY <1>1, <1>2, <2>1, <2>2 DEF History
<1>5. InTransaction
  BY DEF TransferInit, InTransaction, At, Idle, TransferAssumption, TransferInputs
<1>6. \A f : f = NoFile => Placed(f, exported)
  BY DEF Placed, NoFile
<1>7. Held(Idle, Cases, exported)
  BY DEF Held, Idle, Operation
<1> QED BY <1>4, <1>5, <1>6, <1>7 DEF TransferInit, TransferInv

(* Of the operations one goes on, and no other. *)
LEMMA OneGoesOn ==
  ASSUME TransferInv, NEW i \in Actors, NEW n, ops' = [ops EXCEPT ![i] = n],
         Cases \subseteq Cases', exported \subseteq exported', Held(n, Cases', exported')
  PROVE  /\ ops' = [j \in Actors |-> ops'[j]]
         /\ \A j \in Actors : Held(ops'[j], Cases', exported')
         /\ ops'[i] = n /\ \A j \in Actors \ {i} : ops'[j] = ops[j]
<1>1. /\ ops' = [j \in Actors |-> ops'[j]]
      /\ ops'[i] = n /\ \A j \in Actors \ {i} : ops'[j] = ops[j]
  BY DEF TransferInv
<1>2. \A j \in Actors \ {i} : Held(ops'[j], Cases', exported')
  BY <1>1, HeldStays DEF TransferInv
<1> QED BY <1>1, <1>2

LEMMA HistoryStays ==
  ASSUME TransferInv, UNCHANGED <<live, past>>
  PROVE  History' /\ Cases' = Cases
BY DEF TransferInv, History, Cases, Range

(* A step that neither commits, nor exports, nor writes, nor holds or leaves *)
(* the transaction.                                                         *)
LEMMA QuietStep ==
  ASSUME TransferInv, NEW i \in Actors, NEW n, ops' = [ops EXCEPT ![i] = n],
         UNCHANGED <<live, past, files, holder, exported>>,
         Held(n, Cases, exported),
         (n.op = "import" /\ n.at = "insert") <=> At(i, {"import"}, "insert")
  PROVE  TransferInv'
<1>1. History' /\ Cases' = Cases
  BY HistoryStays
<1>2. /\ ops' = [j \in Actors |-> ops'[j]]
      /\ \A j \in Actors : Held(ops'[j], Cases', exported')
      /\ ops'[i] = n /\ \A j \in Actors \ {i} : ops'[j] = ops[j]
  BY <1>1, OneGoesOn
<1>3. InTransaction'
  BY <1>2 DEF TransferInv, InTransaction, At
<1> QED BY <1>1, <1>2, <1>3 DEF TransferInv

-----------------------------------------------------------------------------
(* Operations begin. *)

LEMMA IdleFields == Idle.op = "idle" /\ Idle.at = ""
BY DEF Idle

LEMMA BeginOpKeeps ==
  ASSUME TransferInv, NEW i \in Actors, NEW n, BeginOp(i, n), Held(n, Cases, exported),
         n.op # "import" \/ n.at # "insert"
  PROVE  TransferInv'
<1>1. ops[i] = Idle
  BY DEF BeginOp
<1>2. ~At(i, {"import"}, "insert")
  BY <1>1, IdleFields DEF At
<1> QED BY <1>2, QuietStep DEF BeginOp

LEMMA ExportKeeps ==
  ASSUME TransferInv, NEW i \in Actors, NEW t \in FilePaths, NEW k \in Signers \cup {None}, Export(i, t, k)
  PROVE  TransferInv'
<1> DEFINE n == [Idle EXCEPT !.op = "export", !.at = "describe", !.target = t, !.key = k, !.copy = live]
<1>1. live \in Cases
  BY DEF TransferInv, History, Cases, Range, Last
<1>2. Operation(n) /\ n.op = "export" /\ n.at = "describe" /\ n.copy = live
  BY DEF Operation, Idle
<1>3. BeginOp(i, n)
  BY DEF Export
<1> HIDE DEF n
<1>4. Held(n, Cases, exported)
  BY <1>1, <1>2 DEF Held
<1> QED BY <1>2, <1>3, <1>4, BeginOpKeeps

LEMMA OpenedKeeps ==
  ASSUME TransferInv, NEW i \in Actors, NEW op, op # "export", NEW s \in FilePaths, NEW t,
         NEW k \in Signers \cup {None}, ~Free(s), BeginOp(i, Opened(op, s, t, k))
  PROVE  TransferInv'
<1> DEFINE n == Opened(op, s, t, k)
<1>1. files[s].content # None /\ Own(files[s].content, exported)
  BY DEF Free, TransferInv, Placed
<1>2. Operation(n) /\ n.op = op /\ n.at = "copy" /\ n.half = files[s].content
  BY DEF Operation, Idle, Opened
<1> HIDE DEF n
<1>3. Held(n, Cases, exported)
  BY <1>1, <1>2 DEF Held
<1> QED BY <1>2, <1>3, BeginOpKeeps DEF n

-----------------------------------------------------------------------------
(* Operations go on. *)

LEMMA DescribeKeeps ==
  ASSUME TransferInv, NEW i \in Actors, Describe(i)
  PROVE  TransferInv'
<1>1. PICK o, b : /\ o = ops[i] /\ o.op = "export" /\ o.at = "describe"
                  /\ b = Bundle(Manifest(o.copy, o.key), o.key, o.copy)
                  /\ ops' = [ops EXCEPT ![i] = [o EXCEPT !.at = "publish", !.copy = b]]
                  /\ UNCHANGED <<live, past, files, holder, exported>>
  BY DEF Describe, At, Go
<1>2. Held(o, Cases, exported)
  BY <1>1 DEF TransferInv
<1>3. Operation(o) /\ o.copy \in Cases /\ o.key \in Signers \cup {None}
  BY <1>1, <1>2 DEF Held, Operation
<1>4. MadeOf(b, Cases)
  BY <1>1, <1>3 DEF MadeOf
<1>5. PICK n : n = [o EXCEPT !.at = "publish", !.copy = b]
  OBVIOUS
<1>6. Operation(n) /\ n.op = "export" /\ n.at = "publish" /\ n.copy = b
  <2>1. n \in Fields(o, "publish", o.half, b, o.todo, o.draft)
    BY <1>3, <1>5 DEF Operation, Fields
  <2> QED BY <1>1, <1>3, <2>1, OperationFields
<1>7. Held(n, Cases, exported)
  BY <1>4, <1>6 DEF Held
<1>8. ops' = [ops EXCEPT ![i] = n] /\ ~At(i, {"import"}, "insert")
  BY <1>1, <1>5 DEF At
<1> QED BY <1>1, <1>6, <1>7, <1>8, QuietStep

LEMMA TornIsOwn ==
  ASSUME NEW a, a # None, NEW b, NEW made, Own(a, made)
  PROVE  Own(Torn(a, b), made)
<1>1. CASE a = b
  BY <1>1 DEF Torn
<1>2. CASE a # b /\ a # None /\ b # None /\ Lines(a) /\ Lines(b)
  BY <1>2 DEF Torn, Own
<1>3. CASE ~(a = b) /\ ~(a # b /\ a # None /\ b # None /\ Lines(a) /\ Lines(b))
  <2>1. Torn(a, b) = [kind |-> "torn"]
    BY <1>3 DEF Torn
  <2> QED BY <2>1 DEF Own
<1> QED BY <1>1, <1>2, <1>3

LEMMA CopyInputKeeps ==
  ASSUME TransferInv, NEW i \in Actors, CopyInput(i)
  PROVE  TransferInv'
<1>1. PICK o, content :
        /\ o = ops[i] /\ o.op \in {"open", "verify", "import"} /\ o.at = "copy"
        /\ ops' = [ops EXCEPT ![i] = [o EXCEPT !.at = "judge", !.half = None, !.copy = content]]
        /\ UNCHANGED <<live, past, files, holder, exported>>
        /\ content = o.half \/ content = Torn(o.half, files[o.source].content)
  BY DEF CopyInput, At, Go
<1>2. Held(o, Cases, exported)
  BY <1>1 DEF TransferInv
<1>3. Operation(o) /\ o.half # None /\ Own(o.half, exported)
  BY <1>1, <1>2 DEF Held
<1>4. Own(content, exported)
  BY <1>1, <1>3, TornIsOwn
<1>5. PICK n : n = [o EXCEPT !.at = "judge", !.half = None, !.copy = content]
  OBVIOUS
<1>6. Operation(n) /\ n.op = o.op /\ n.at = "judge" /\ n.copy = content
  <2>1. n \in Fields(o, "judge", None, content, o.todo, o.draft)
    BY <1>3, <1>5 DEF Operation, Fields
  <2> QED BY <1>3, <2>1, OperationFields
<1>7. Held(n, Cases, exported)
  BY <1>4, <1>6 DEF Held
<1>8. ops' = [ops EXCEPT ![i] = n] /\ ~At(i, {"import"}, "insert")
  BY <1>1, <1>5 DEF At
<1> QED BY <1>1, <1>6, <1>7, <1>8, QuietStep

LEMMA AcceptKeeps ==
  ASSUME TransferAssumption, TransferInv, NEW i \in Actors, Accept(i)
  PROVE  TransferInv'
<1>1. PICK o, n :
        /\ o = ops[i] /\ o.op \in {"open", "verify"} /\ o.at = "judge" /\ Acceptable(o.copy, o.key)
        /\ n = IF o.op = "verify" THEN [o EXCEPT !.at = "accepted"]
               ELSE [o EXCEPT !.at = "publish", !.copy = Migrated(o.copy.db), !.half = o.copy]
        /\ ops' = [ops EXCEPT ![i] = n]
        /\ UNCHANGED <<live, past, files, holder, exported>>
  BY DEF Accept, At, Go
<1>2. Held(o, Cases, exported)
  BY <1>1 DEF TransferInv
<1>3. Operation(o) /\ Own(o.copy, exported) /\ o.key \in Signers \cup {None}
  BY <1>1, <1>2 DEF Held, Operation
<1>4. /\ \A d \in Cases : OfThisCase(d)
      /\ \A bundle \in exported : MadeOf(bundle, Cases)
  BY DEF TransferInv, History, Cases, Range
<1>5. Accepted(o.copy, o.key, exported)
  BY <1>1, <1>3, <1>4, AcceptedIsMade
<1>6. ~At(i, {"import"}, "insert")
  BY <1>1 DEF At
<1>7. CASE o.op = "verify"
  <2>1. Operation(n) /\ n.op = o.op /\ n.key = o.key /\ n.at = "accepted" /\ n.copy = o.copy
    <3>1. n \in Fields(o, "accepted", o.half, o.copy, o.todo, o.draft)
      BY <1>1, <1>3, <1>7 DEF Operation, Fields
    <3> QED BY <1>3, <3>1, OperationFields
  <2>2. Held(n, Cases, exported)
    BY <1>5, <1>7, <2>1 DEF Held
  <2> QED BY <1>1, <1>6, <2>1, <2>2, QuietStep
<1>8. CASE o.op = "open"
  <2>1. n = [o EXCEPT !.at = "publish", !.copy = Migrated(o.copy.db), !.half = o.copy]
    BY <1>1, <1>8
  <2>2. /\ Operation(n) /\ n.op = o.op /\ n.key = o.key /\ n.at = "publish"
        /\ n.copy = Migrated(o.copy.db) /\ n.half = o.copy
    <3>1. n \in Fields(o, "publish", o.copy, Migrated(o.copy.db), o.todo, o.draft)
      BY <1>3, <2>1 DEF Operation, Fields
    <3> QED BY <1>3, <3>1, OperationFields
  <2>3. Held(n, Cases, exported)
    BY <1>5, <1>8, <2>2 DEF Held
  <2> QED BY <1>1, <1>6, <2>2, <2>3, QuietStep
<1> QED BY <1>1, <1>7, <1>8

LEMMA FailKeeps ==
  ASSUME TransferAssumption, TransferInv, NEW i \in Actors, Abandon(i)
  PROVE  TransferInv'
<1>1. History' /\ Cases' = Cases
  BY HistoryStays DEF Abandon
<1>2. Held(Idle, Cases, exported)
  BY DEF Held, Idle, Operation
<1>3. /\ ops' = [j \in Actors |-> ops'[j]]
      /\ \A j \in Actors : Held(ops'[j], Cases', exported')
      /\ ops'[i] = Idle /\ \A j \in Actors \ {i} : ops'[j] = ops[j]
  BY <1>1, <1>2, OneGoesOn DEF Abandon
<1>4. InTransaction'
  <2>1. ~At(i, {"import"}, "insert")' /\ holder' # i
    BY <1>3, IdleFields DEF At, Abandon, TransferAssumption, TransferInputs
  <2>2. \A j \in Actors \ {i} : At(j, {"import"}, "insert")' <=> At(j, {"import"}, "insert")
    BY <1>3 DEF At
  <2>3. \A j \in Actors \ {i} : holder' = j <=> holder = j
    BY DEF Abandon, TransferAssumption, TransferInputs
  <2> QED BY <2>1, <2>2, <2>3 DEF TransferInv, InTransaction, Abandon
<1> QED BY <1>1, <1>3, <1>4 DEF Abandon, TransferInv

(* The name is taken by what was made of a state of the case, or by a case. *)
LEMMA PublishKeeps ==
  ASSUME TransferAssumption, TransferInv, NEW i \in Actors, Publish(i)
  PROVE  TransferInv'
<1>1. PICK o : /\ o = ops[i] /\ o.op \in {"export", "open"} /\ o.at = "publish"
               /\ files' = [files EXCEPT ![o.target].content = o.copy]
               /\ exported' = IF o.op = "export" THEN exported \cup {o.copy} ELSE exported
               /\ ops' = [ops EXCEPT ![i] = Idle] /\ UNCHANGED <<live, past, holder>>
  BY DEF Publish, At
<1>2. History' /\ Cases' = Cases
  BY <1>1, HistoryStays
<1>3. Held(Idle, Cases, exported')
  BY DEF Held, Idle, Operation
<1>4. /\ ops' = [j \in Actors |-> ops'[j]]
      /\ \A j \in Actors : Held(ops'[j], Cases', exported')
      /\ ops'[i] = Idle /\ \A j \in Actors \ {i} : ops'[j] = ops[j]
  BY <1>1, <1>2, <1>3, OneGoesOn
<1>5. InTransaction'
  <2>1. ~At(i, {"import"}, "insert")' /\ ~At(i, {"import"}, "insert")
    BY <1>1, <1>4, IdleFields DEF At
  <2>2. \A j \in Actors \ {i} : At(j, {"import"}, "insert")' <=> At(j, {"import"}, "insert")
    BY <1>4 DEF At
  <2> QED BY <1>1, <2>1, <2>2 DEF TransferInv, InTransaction
<1>6. Held(o, Cases, exported)
  BY <1>1 DEF TransferInv
<1>7. \A bundle \in exported' : MadeOf(bundle, Cases)
  BY <1>1, <1>6 DEF TransferInv, Held
<1>8. Own(o.copy, exported')
  <2>1. CASE o.op = "export"
    <3>1. MadeOf(o.copy, Cases) /\ o.copy \in exported'
      BY <1>1, <1>6, <2>1 DEF Held
    <3>2. \A d \in Cases : OfThisCase(d)
      BY DEF TransferInv, History, Cases, Range
    <3> QED BY <3>1, <3>2, MadeIsOwn
  <2>2. CASE o.op = "open"
    <3>1. Portable(o.half.db) /\ o.half.db.schema \in 1..SCHEMA_REVISION /\ o.copy = Migrated(o.half.db)
      BY <1>1, <1>6, <2>2 DEF Held, Accepted
    <3>2. o.copy.kind = "case"
      BY <3>1, MigratedIsPortable
    <3> QED BY <3>2 DEF Own
  <2> QED BY <1>1, <2>1, <2>2
<1>9. /\ files' = [p \in FilePaths |-> files'[p]]
      /\ \A p \in FilePaths : Placed(files'[p], exported')
  <2>1. files' = [p \in FilePaths |-> files'[p]]
    BY <1>1 DEF TransferInv
  <2>2. exported \subseteq exported'
    BY <1>1
  <2>3. ASSUME NEW p \in FilePaths PROVE Placed(files'[p], exported')
    <3>1. Placed(files[p], exported')
      BY <2>2, PlacedStays DEF TransferInv
    <3>2. CASE p # o.target
      <4>1. files'[p] = files[p]
        BY <1>1, <3>2 DEF TransferInv
      <4> QED BY <3>1, <4>1
    <3>3. CASE p = o.target
      <4>1. files'[p] = [files[p] EXCEPT !.content = o.copy]
        BY <1>1, <3>3 DEF TransferInv
      <4> QED BY <1>8, <3>1, <4>1, PlacedContent
    <3> QED BY <3>2, <3>3
  <2> QED BY <2>1, <2>3
<1> QED BY <1>2, <1>4, <1>5, <1>7, <1>9 DEF TransferInv

-----------------------------------------------------------------------------
(* The transaction of an import. *)

LEMMA BeginImportKeeps ==
  ASSUME TransferAssumption, TransferInv, NEW i \in Actors, BeginImport(i)
  PROVE  TransferInv'
<1>1. PICK o, n :
        /\ o = ops[i] /\ o.op = "import" /\ o.at = "judge"
        /\ n = [o EXCEPT !.at = "insert", !.todo = Step("scan", 1, 1), !.draft = live]
        /\ ops' = [ops EXCEPT ![i] = n]
        /\ holder = None /\ holder' = i /\ UNCHANGED <<live, past, files, exported>>
  <2>1. ops' = [ops EXCEPT ![i] = [ops[i] EXCEPT !.at = "insert", !.todo = Step("scan", 1, 1),
                                               !.draft = live]]
    BY DEF BeginImport, TransferInv
  <2> QED BY <2>1 DEF BeginImport, At
<1>2. Operation(o)
  BY <1>1 DEF TransferInv, Held
<1>3. Operation(n) /\ n.op = "import" /\ n.at = "insert" /\ n.draft = live
  <2>1. n \in Fields(o, "insert", o.half, o.copy, Step("scan", 1, 1), live)
    BY <1>1, <1>2 DEF Operation, Fields
  <2> QED BY <1>1, <1>2, <2>1, OperationFields
<1>4. History' /\ Cases' = Cases /\ OfThisCase(live)
  BY <1>1, HistoryStays DEF TransferInv, History, Last
<1>5. Held(n, Cases, exported)
  BY <1>3, <1>4 DEF Held
<1>6. /\ ops' = [j \in Actors |-> ops'[j]]
      /\ \A j \in Actors : Held(ops'[j], Cases', exported')
      /\ ops'[i] = n /\ \A j \in Actors \ {i} : ops'[j] = ops[j]
  BY <1>1, <1>4, <1>5, OneGoesOn
<1>7. InTransaction'
  BY <1>1, <1>3, <1>6 DEF TransferInv, InTransaction, At, TransferAssumption, TransferInputs
<1> QED BY <1>1, <1>4, <1>6, <1>7 DEF TransferInv

(* A step of the transaction leaves a state of this case. *)
InsertStep(i) == InsertScan(i) \/ InsertRow(i) \/ EndScan(i) \/ InsertFilter(i) \/ InsertReceipt(i)

LEMMA InsertIs ==
  ASSUME NEW i, OfThisCase(ops[i].draft), InsertStep(i)
  PROVE  \E new, next : OfThisCase(new) /\ At(i, {"import"}, "insert") /\ Inserted(i, new, next)
<1> DEFINE d == ops[i].draft
<1>1. /\ \A x : OfThisCase([d EXCEPT !.scans = x])
      /\ \A x : OfThisCase([d EXCEPT !.filters = x])
      /\ \A x : OfThisCase([d EXCEPT !.receipts = x])
  BY DEF OfThisCase
<1> HIDE DEF OfThisCase, Inserted
<1>2. CASE InsertScan(i)
  BY <1>1, <1>2 DEF InsertScan, Inserting
<1>3. CASE InsertRow(i)
  BY <1>1, <1>3 DEF InsertRow, Inserting
<1>4. CASE EndScan(i)
  BY <1>1, <1>4 DEF EndScan, Inserting
<1>5. CASE InsertFilter(i)
  BY <1>1, <1>5 DEF InsertFilter, ScansDone, Inserting
<1>6. CASE InsertReceipt(i)
  BY <1>1, <1>6 DEF InsertReceipt, ScansDone, Inserting
<1> QED BY <1>2, <1>3, <1>4, <1>5, <1>6 DEF InsertStep

LEMMA InsertKeeps ==
  ASSUME TransferInv, NEW i \in Actors, InsertStep(i)
  PROVE  TransferInv'
<1>0. At(i, {"import"}, "insert")
  BY DEF InsertStep, InsertScan, InsertRow, EndScan, InsertFilter, InsertReceipt, ScansDone, Inserting
<1>1. OfThisCase(ops[i].draft)
  BY <1>0 DEF TransferInv, Held, At
<1>2. PICK o, n, d, next :
        /\ o = ops[i] /\ o.op = "import" /\ o.at = "insert"
        /\ OfThisCase(d)
        /\ n = [o EXCEPT !.todo = next, !.draft = d]
        /\ ops' = [ops EXCEPT ![i] = n]
        /\ UNCHANGED <<live, past, files, holder, exported>>
  BY <1>1, InsertIs DEF Inserted, Go, At
<1>3. Operation(o)
  BY <1>2 DEF TransferInv, Held
<1>4. Operation(n) /\ n.op = "import" /\ n.at = "insert" /\ n.draft = d
  <2>1. n \in Fields(o, o.at, o.half, o.copy, next, d)
    BY <1>2, <1>3 DEF Operation, Fields
  <2> QED BY <1>2, <1>3, <2>1, OperationFields
<1>5. Held(n, Cases, exported)
  BY <1>2, <1>4 DEF Held
<1> QED BY <1>0, <1>2, <1>4, <1>5, QuietStep

-----------------------------------------------------------------------------
(* The case goes on to its next revision. *)

LEMMA HistoryGoesOn ==
  ASSUME TransferInv, NEW d, OfThisCase(d), Committed(d)
  PROVE  History' /\ Cases \subseteq Cases'
<1>1. PICK e, s, n : /\ e = [d EXCEPT !.revision = live.revision + 1, !.log = Append(live.log, "commit")]
                     /\ live' = e
                     /\ s = past /\ n = past' /\ n = Append(s, e)
  BY DEF Committed
<1>2. s \in Seq(Range(s))
  BY <1>1 DEF TransferInv, History, Cases
<1> HIDE DEF OfThisCase
<1>3. /\ n \in Seq(Range(n)) /\ n # << >>
      /\ DOMAIN s = 1..Len(s) /\ DOMAIN n = 1..Len(s) + 1
      /\ \A k \in DOMAIN s : n[k] = s[k]
      /\ n[Len(s) + 1] = e /\ Last(n) = e
      /\ Range(s) \subseteq Range(n)
  <2>1. n = Append(s, e)
    BY <1>1
  <2>2. /\ n \in Seq(Range(n)) /\ n # << >>
        /\ DOMAIN s = 1..Len(s) /\ DOMAIN n = 1..Len(s) + 1
    BY <1>2, <2>1, Longer
  <2>3. \A k \in DOMAIN s : n[k] = s[k]
    BY <1>2, <2>1, Longer
  <2>4. n[Len(s) + 1] = e /\ Last(n) = e /\ Range(s) \subseteq Range(n)
    BY <1>2, <2>1, Longer
  <2> QED BY <2>2, <2>3, <2>4
<1>4. Len(s) \in Nat \ {0} /\ live.revision = Len(s) - 1
  <2>1. s # << >> /\ live = s[Len(s)]
    BY <1>1 DEF TransferInv, History, Last
  <2>2. Len(s) \in Nat /\ Len(s) # 0
    BY <1>2, <2>1
  <2>3. Len(s) \in DOMAIN s
    BY <1>3, <2>2
  <2> QED BY <1>1, <2>1, <2>2, <2>3 DEF TransferInv, History
<1>5. OfThisCase(e) /\ e.revision = Len(s)
  <2>1. OfThisCase(live)
    BY <1>3, <1>4, <1>1 DEF TransferInv, History, Last
  <2>2. PICK log : log = Append(live.log, "commit") /\ log \in Seq(Kinds) /\ Len(log) = Len(s) + 1
    <3>1. PICK old : old = live.log /\ old \in Seq(Kinds) /\ Len(old) = Len(s)
      BY <1>4, <2>1 DEF OfThisCase
    <3>2. \A x \in Kinds : Append(old, x) \in Seq(Kinds) /\ Len(Append(old, x)) = Len(s) + 1
      BY <3>1
    <3>3. "commit" \in Kinds
      BY DEF Kinds
    <3> QED BY <3>1, <3>2, <3>3
  <2>3. e = [d EXCEPT !.revision = Len(s), !.log = log]
    BY <1>1, <1>4, <2>2
  <2> QED BY <1>4, <2>2, <2>3 DEF OfThisCase
<1>6. \A k \in DOMAIN n : OfThisCase(n[k]) /\ n[k].revision = k - 1
  BY <1>1, <1>3, <1>4, <1>5 DEF TransferInv, History
<1> QED BY <1>1, <1>3, <1>6 DEF History, Cases

LEMMA SaveFilterKeeps ==
  ASSUME TransferInv, SaveFilter
  PROVE  TransferInv'
<1>1. PICK filters : Committed([live EXCEPT !.filters = filters])
  BY DEF SaveFilter
<1>2. OfThisCase(live)
  BY DEF TransferInv, History, Last
<1>3. History' /\ Cases \subseteq Cases'
  <2>1. OfThisCase([live EXCEPT !.filters = filters])
    BY <1>2 DEF OfThisCase
  <2> QED BY <1>1, <2>1, HistoryGoesOn
<1>4. UNCHANGED <<files, ops, holder, exported>>
  BY DEF SaveFilter
<1>5. \A i \in Actors : Held(ops[i], Cases', exported)
  BY <1>3, HeldStays DEF TransferInv
<1>6. \A bundle \in exported : MadeOf(bundle, Cases')
  BY <1>3 DEF TransferInv, MadeOf
<1>7. InTransaction'
  BY <1>4 DEF TransferInv, InTransaction, At
<1> QED BY <1>3, <1>4, <1>5, <1>6, <1>7 DEF TransferInv

LEMMA CommitKeeps ==
  ASSUME TransferAssumption, TransferInv, NEW i \in Actors, CommitImport(i)
  PROVE  TransferInv'
<1>1. /\ At(i, {"import"}, "insert") /\ Committed(ops[i].draft)
      /\ holder' = None /\ ops' = [ops EXCEPT ![i] = Idle] /\ UNCHANGED <<files, exported>>
  BY DEF CommitImport, Inserting
<1>2. OfThisCase(ops[i].draft)
  BY <1>1 DEF TransferInv, Held, At
<1>3. History' /\ Cases \subseteq Cases'
  BY <1>1, <1>2, HistoryGoesOn
<1>4. Held(Idle, Cases', exported')
  BY DEF Held, Idle, Operation
<1>5. /\ ops' = [j \in Actors |-> ops'[j]]
      /\ \A j \in Actors : Held(ops'[j], Cases', exported')
      /\ ops'[i] = Idle /\ \A j \in Actors \ {i} : ops'[j] = ops[j]
  BY <1>1, <1>3, <1>4, OneGoesOn
<1>6. \A bundle \in exported : MadeOf(bundle, Cases')
  BY <1>3 DEF TransferInv, MadeOf
<1>7. InTransaction'
  <2>1. holder = i
    BY <1>1 DEF TransferInv, InTransaction
  <2>2. ~At(i, {"import"}, "insert")'
    BY <1>5, IdleFields DEF At
  <2>3. \A j \in Actors \ {i} : ~At(j, {"import"}, "insert")'
    BY <1>5, <2>1 DEF TransferInv, InTransaction, At
  <2> QED BY <1>1, <2>2, <2>3 DEF InTransaction, TransferAssumption, TransferInputs
<1> QED BY <1>1, <1>3, <1>5, <1>6, <1>7 DEF TransferInv

-----------------------------------------------------------------------------
(* Other programs write. *)

LEMMA WrittenKeeps ==
  ASSUME TransferInv, NEW p \in FilePaths, NEW content, Own(content, exported),
         files' = [files EXCEPT ![p] = [content |-> content, modified |-> files[p].modified + 1]],
         UNCHANGED <<live, past, ops, holder, exported>>
  PROVE  TransferInv'
<1>1. History' /\ Cases' = Cases
  BY HistoryStays
<1>2. InTransaction'
  BY DEF TransferInv, InTransaction, At
<1>3. files' = [r \in FilePaths |-> files'[r]]
  BY DEF TransferInv
<1>4. \A r \in FilePaths : Placed(files'[r], exported)
  BY DEF TransferInv, Placed
<1> QED BY <1>1, <1>2, <1>3, <1>4 DEF TransferInv

LEMMA PutKeeps ==
  ASSUME TransferAssumption, TransferInv, NEW p \in FilePaths, NEW content \in Inputs, Put(p, content)
  PROVE  TransferInv'
<1>1. Own(content, exported)
  BY DEF TransferAssumption, TransferInputs, Foreign, Own
<1> QED BY <1>1, WrittenKeeps DEF Put

LEMMA RepackKeeps ==
  ASSUME TransferAssumption, TransferInv, NEW p \in FilePaths, Repack(p)
  PROVE  TransferInv'
<1>1. PICK a \in exported, b \in Snapshots : \E content \in Repacked(a, b) :
        /\ files' = [files EXCEPT ![p] = [content |-> content, modified |-> files[p].modified + 1]]
        /\ UNCHANGED <<live, past, ops, holder, exported>>
  BY DEF Repack
<1>2. PICK content \in Repacked(a, b) :
        /\ files' = [files EXCEPT ![p] = [content |-> content, modified |-> files[p].modified + 1]]
        /\ UNCHANGED <<live, past, ops, holder, exported>>
  BY <1>1
<1>3. \A d \in Cases : OfThisCase(d)
  BY DEF TransferInv, History, Cases, Range
<1>4. \A e \in exported : Bundled(e) /\ Own(e, exported)
  BY <1>3, MadeIsBundled, MadeIsOwn DEF TransferInv
<1>5. /\ Bundled(b)
      /\ b.signature # None /\ b.signature.by \in Signers => \E e \in exported : e.signature = b.signature
  BY <1>4 DEF Snapshots, TransferAssumption, TransferInputs, Foreign
<1>6. Portable(b.db)
  BY <1>5 DEF Bundled
<1>7. CASE content = [a EXCEPT !.db = b.db]
  <2>1. Bundled(content) /\ content.signature = a.signature
    BY <1>4, <1>6, <1>7, BundledFields
  <2> QED BY <1>2, <2>1, WrittenKeeps DEF Own
<1>8. CASE content = [a EXCEPT !.signature = b.signature]
  <2>1. Bundled(content) /\ content.signature = b.signature
    BY <1>4, <1>8, BundledFields
  <2> QED BY <1>2, <1>5, <2>1, WrittenKeeps DEF Own
<1>9. CASE content = [a EXCEPT !.signature = None]
  <2>1. Bundled(content) /\ content.signature = None
    BY <1>4, <1>9, BundledFields
  <2> QED BY <1>2, <2>1, WrittenKeeps DEF Own
<1> QED BY <1>2, <1>7, <1>8, <1>9 DEF Repacked

-----------------------------------------------------------------------------
(* The theorems. *)

LEMMA TransferStepKeeps ==
  ASSUME TransferAssumption, TransferInv, NEW i \in Actors, TransferStep(i)
  PROVE  TransferInv'
<1>1. ASSUME NEW t \in FilePaths, NEW k \in Signers \cup {None}, Export(i, t, k)
      PROVE  TransferInv'
  BY <1>1, ExportKeeps
<1>2. ASSUME NEW s \in FilePaths, NEW k \in Signers \cup {None}, VerifySnapshot(i, s, k)
      PROVE  TransferInv'
  BY <1>2, OpenedKeeps DEF VerifySnapshot
<1>3. ASSUME NEW s \in FilePaths, NEW t \in FilePaths, NEW k \in Signers \cup {None}, OpenSnapshot(i, s, t, k)
      PROVE  TransferInv'
  BY <1>3, OpenedKeeps DEF OpenSnapshot
<1>4. ASSUME NEW s \in FilePaths, NEW k \in Signers \cup {None}, Import(i, s, k)
      PROVE  TransferInv'
  BY <1>4, OpenedKeeps DEF Import
<1>5. Describe(i) \/ Publish(i) \/ CopyInput(i) \/ Accept(i) => TransferInv'
  BY DescribeKeeps, PublishKeeps, CopyInputKeeps, AcceptKeeps
<1>6. BeginImport(i) \/ InsertStep(i) \/ CommitImport(i) \/ Abandon(i) => TransferInv'
  BY BeginImportKeeps, InsertKeeps, CommitKeeps, FailKeeps
<1> QED BY <1>1, <1>2, <1>3, <1>4, <1>5, <1>6 DEF TransferStep, InsertStep

LEMMA TransferNextKeeps ==
  ASSUME TransferAssumption, TransferInv, [TransferNext]_transferVars
  PROVE  TransferInv'
<1>1. CASE TransferNext
  BY <1>1, SaveFilterKeeps, RepackKeeps, PutKeeps, TransferStepKeeps DEF TransferNext
<1>2. CASE UNCHANGED transferVars
  <2>1. History' /\ Cases' = Cases
    BY <1>2, HistoryStays DEF transferVars
  <2>2. InTransaction'
    BY <1>2 DEF transferVars, TransferInv, InTransaction, At
  <2> QED BY <1>2, <2>1, <2>2 DEF transferVars, TransferInv
<1> QED BY <1>1, <1>2

THEOREM TransferInductive == ASSUME TransferAssumption PROVE TransferSpec => []TransferInv
<1>1. TransferInit => TransferInv
  BY TransferStarts
<1>2. TransferInv /\ [TransferNext]_transferVars => TransferInv'
  BY TransferNextKeeps
<1> QED BY <1>1, <1>2, PTL DEF TransferSpec

(* bundle.rs:49: a snapshot is the case at one of its revisions, with the   *)
(* anchor, the count and the signature that belong to it, although the case *)
(* is written to meanwhile; who trusts its signer accepts it, nobody else.  *)
THEOREM SnapshotsAreWhole ==
  ASSUME TransferAssumption
  PROVE  TransferSpec => [](TransferTypeOK /\ SnapshotIsOneRevision)
<1>1. ASSUME TransferInv
      PROVE  TransferTypeOK
  <2>1. past \in Seq(Range(past)) /\ past # << >> /\ live = past[Len(past)]
    BY <1>1 DEF TransferInv, History, Cases, Last
  <2>2. Len(past) \in DOMAIN past
    BY <2>1
  <2> QED BY <1>1, <2>1, <2>2 DEF TransferInv, History, InTransaction, TransferTypeOK, Last
<1>2. ASSUME TransferInv
      PROVE  SnapshotIsOneRevision
  <2>1. \A d \in Cases : OfThisCase(d)
    BY <1>2 DEF TransferInv, History, Cases, Range
  <2>2. ASSUME NEW bundle \in exported, NEW k \in Signers \cup {None}
        PROVE  /\ bundle.db = past[Len(bundle.manifest.audit)]
               /\ bundle.manifest.records = Records(past[Len(bundle.manifest.audit)])
               /\ Acceptable(bundle, k) <=> k = bundle.manifest.signer
    <3>1. MadeOf(bundle, Cases)
      BY <1>2 DEF TransferInv
    <3> HIDE DEF Records, Cases, Acceptable
    <3>2. /\ bundle.db \in Cases /\ bundle.manifest.audit = bundle.db.log
          /\ Len(bundle.db.log) = bundle.db.revision + 1
          /\ bundle.manifest.records = Records(bundle.db)
      BY <2>1, <3>1, MadeIsBundled, OfThisCaseIsPortable
    <3>3. PICK m \in DOMAIN past : bundle.db = past[m]
      BY <3>2 DEF Cases, Range
    <3>4. bundle.db.revision = m - 1
      BY <1>2, <3>3 DEF TransferInv, History
    <3>5. m \in Nat
      BY <1>2 DEF TransferInv, History
    <3>6. Len(bundle.manifest.audit) = m
      BY <3>2, <3>4, <3>5
    <3>7. Acceptable(bundle, k) <=> k = bundle.manifest.signer
      BY <2>1, <3>1, MadeIsAcceptable
    <3> QED BY <3>2, <3>3, <3>6, <3>7
  <2> HIDE DEF Records, Acceptable
  <2>3. None \in Signers \cup {None}
    OBVIOUS
  <2> QED BY <2>2, <2>3 DEF SnapshotIsOneRevision
<1> QED BY <1>1, <1>2, TransferInductive, PTL

(* bundle.rs:205: what is accepted under a key was exported by its owner    *)
(* just as it is, whatever was repacked or rewritten while it was copied;   *)
(* and without a key nothing is accepted that claims to be signed.          *)
THEOREM AcceptedWasExported ==
  ASSUME TransferAssumption
  PROVE  TransferSpec => []AcceptedIsExported
<1>1. ASSUME TransferInv, NEW i \in Actors, At(i, {"verify"}, "accepted")
      PROVE  Accepted(ops[i].copy, ops[i].key, exported) /\ ops[i].op = "verify"
  BY <1>1 DEF TransferInv, Held, At
<1>2. ASSUME TransferInv, NEW i \in Actors, At(i, {"open"}, "publish")
      PROVE  /\ Accepted(ops[i].half, ops[i].key, exported) /\ ops[i].op = "open"
             /\ ops[i].copy = Migrated(ops[i].half.db)
  BY <1>2 DEF TransferInv, Held, At
<1>3. TransferInv => AcceptedIsExported
  BY <1>1, <1>2, MigratedIsPortable DEF AcceptedIsExported, Accepted
<1> QED BY <1>3, TransferInductive, PTL

(* bundle.rs:289: a file that is there is never replaced by an operation:   *)
(* it changes only if another program rewrites it, although two operations  *)
(* may have found the same name free.                                       *)
THEOREM FilesAreKept ==
  ASSUME TransferAssumption
  PROVE  TransferSpec => NothingReplaced
<1> DEFINE Spared == \A p \in FilePaths :
             files[p].content # None /\ files'[p] # files[p] => files'[p].modified > files[p].modified
<1>1. ASSUME TransferInv, NEW q \in FilePaths, NEW content,
             files' = [files EXCEPT ![q] = [content |-> content, modified |-> files[q].modified + 1]]
      PROVE  Spared
  BY <1>1 DEF TransferInv, Placed
<1>2. ASSUME TransferInv, NEW p \in FilePaths, Repack(p)
      PROVE  Spared
  BY <1>1, <1>2 DEF Repack
<1>3. ASSUME TransferInv, NEW p \in FilePaths, NEW content, Put(p, content)
      PROVE  Spared
  BY <1>1, <1>3 DEF Put
<1>4. ASSUME TransferInv, NEW i \in Actors, Publish(i)
      PROVE  Spared
  <2>1. PICK t, c : files[t].content = None /\ files' = [files EXCEPT ![t].content = c]
    BY <1>4 DEF Publish
  <2>2. \A p \in FilePaths : p # t => files'[p] = files[p]
    BY <1>4, <2>1 DEF TransferInv
  <2> QED BY <2>1, <2>2
<1>5. ASSUME NEW i \in Actors, TransferStep(i), ~Publish(i)
      PROVE  UNCHANGED files
  BY <1>5 DEF TransferStep, Export, VerifySnapshot, OpenSnapshot, Import, BeginOp, Describe, Go,
              CopyInput, Accept, BeginImport, CommitImport, Abandon,
              InsertScan, InsertRow, EndScan, InsertFilter, InsertReceipt, Inserted
<1>6. TransferInv /\ [TransferNext]_transferVars => [Spared]_transferVars
  <2>1. TransferInv /\ TransferNext => Spared
    BY <1>2, <1>3, <1>4, <1>5 DEF TransferNext, SaveFilter
  <2> QED BY <2>1
<1> QED BY <1>6, TransferInductive, PTL DEF NothingReplaced, TransferSpec

-----------------------------------------------------------------------------
(* What a case holds of its imports.                                        *)

(* What may be imported was written by somebody.                            *)
Seen(content, ever) == content.kind \in Importables => content \in ever \cap Inputs

(* The case d is made of whole imports of what was ever in a file.          *)
Whole(d, ever) ==
  /\ IsList(d.scans) /\ IsList(d.receipts)
  /\ Len(d.scans) = Before(d, Len(d.receipts) + 1)
  /\ \A k \in DOMAIN d.receipts :
       LET content == d.receipts[k].of
           from == Before(d, k)
       IN /\ from \in Nat
          /\ content \in ever /\ IsList(Sources(content))
          /\ d.receipts[k].scans = from + Len(Scans(content))
          /\ d.receipts[k].scans <= Len(d.scans)
          /\ \A n \in DOMAIN Scans(content) : d.scans[from + n] = Scans(content)[n]

(* The first lines of a source that are not blank.                          *)
RowsBefore(lines, n) == Kept(lines, {k \in DOMAIN lines : k < n /\ lines[k].digest # "blank"})

(* How far a transaction has come: at a step of the import of content, with *)
(* the draft d of the case base.                                            *)
Drafted(content, at, d, base, ever) ==
  LET sources == Sources(content)
      m == Len(base.scans)
  IN /\ content \in ever \cap Inputs /\ content.kind \in Importables
     /\ at.do \in {"scan", "row", "commit"} /\ at.scan \in Nat \ {0} /\ at.line \in Nat \ {0}
     /\ IsList(d.scans)
     /\ \A n \in DOMAIN base.scans : d.scans[n] = base.scans[n]
     /\ at.do # "commit" =>
          /\ d.receipts = base.receipts
          /\ \A n \in DOMAIN sources : n < at.scan => d.scans[m + n] = Scans(content)[n]
     /\ at.do = "scan" => at.scan <= Len(sources) + 1 /\ Len(d.scans) = m + at.scan - 1
     /\ at.do = "row" =>
          /\ at.scan <= Len(sources) /\ Len(d.scans) = m + at.scan
          /\ at.line <= Len(sources[at.scan].lines) + 1
          /\ d.scans[m + at.scan] = [rows |-> RowsBefore(sources[at.scan].lines, at.line),
                                     status |-> "running"]
     /\ at.do = "commit" => Whole(d, ever)

(* What an operation has read so far was in its file, unless the file was   *)
(* modified since.                                                          *)
Follows(o, now, ever) ==
  o.at = "copy" =>
    /\ o.source \in FilePaths /\ o.modified \in Nat /\ Seen(o.half, ever)
    /\ o.modified <= now[o.source].modified
    /\ o.modified = now[o.source].modified => o.half = now[o.source].content

Imports(o, base, now, ever) ==
  /\ Follows(o, now, ever)
  /\ o.op = "import" /\ o.at = "judge" => Seen(o.copy, ever)
  /\ o.op = "import" /\ o.at = "insert" => Drafted(o.copy, o.todo, o.draft, base, ever)

ImportInv ==
  /\ Whole(live, were)
  /\ \A p \in FilePaths : files[p].content # None => Seen(files[p].content, were)
  /\ \A i \in Actors : Imports(ops[i], live, files, were)

LEMMA WholeStays ==
  ASSUME NEW d, NEW ever, NEW more, Whole(d, ever), ever \subseteq more PROVE Whole(d, more)
BY DEF Whole

LEMMA DraftedStays ==
  ASSUME NEW content, NEW at, NEW d, NEW base, NEW ever, NEW more,
         Drafted(content, at, d, base, ever), ever \subseteq more
  PROVE  Drafted(content, at, d, base, more)
<1>1. Whole(d, ever) => Whole(d, more)
  BY WholeStays
<1> QED BY <1>1 DEF Drafted

(* A step of one operation that writes nothing.                             *)
LEMMA ImportsStay ==
  ASSUME TransferInv, ImportInv, NEW i \in Actors, NEW n, ops' = [ops EXCEPT ![i] = n],
         UNCHANGED <<live, files, were>>, Imports(n, live, files, were)
  PROVE  ImportInv'
<1>1. ops'[i] = n /\ \A j \in Actors \ {i} : ops'[j] = ops[j]
  BY DEF TransferInv
<1>2. \A j \in Actors : Imports(ops'[j], live, files, were)
  BY <1>1 DEF ImportInv
<1> QED BY <1>2 DEF ImportInv

(* Any other state of the case has the same imports.                        *)
LEMMA OtherWhole ==
  ASSUME NEW d, NEW e, NEW ever, Whole(d, ever), e.scans = d.scans, e.receipts = d.receipts
  PROVE  Whole(e, ever)
BY DEF Whole, Before

LEMMA ImportsBegin == ASSUME TransferAssumption, TransferInit PROVE ImportInv
<1>1. live.scans = << >> /\ live.receipts = << >>
  BY DEF TransferInit
<1>2. Whole(live, were)
  <2>1. IsList(<< >>) /\ Len(<< >>) = 0 /\ DOMAIN << >> = {}
    BY DEF IsList
  <2>2. Before(live, 1) = 0
    BY DEF Before
  <2> QED BY <1>1, <2>1, <2>2 DEF Whole
<1>3. \A p \in FilePaths : files[p].content = None
  BY DEF TransferInit, NoFile
<1>4. \A i \in Actors : ops[i].op = "idle" /\ ops[i].at = ""
  BY IdleFields DEF TransferInit
<1>5. \A i \in Actors : Imports(ops[i], live, files, were)
  BY <1>4 DEF Imports, Follows
<1> QED BY <1>2, <1>3, <1>5 DEF ImportInv

LEMMA ImportsBeginOp ==
  ASSUME TransferInv, ImportInv, NEW i \in Actors, NEW n, BeginOp(i, n), Imports(n, live, files, were)
  PROVE  ImportInv'
BY ImportsStay DEF BeginOp

LEMMA ImportsExport ==
  ASSUME TransferInv, ImportInv, NEW i \in Actors, NEW t \in FilePaths, NEW k \in Signers \cup {None},
         Export(i, t, k)
  PROVE  ImportInv'
<1> DEFINE n == [Idle EXCEPT !.op = "export", !.at = "describe", !.target = t, !.key = k, !.copy = live]
<1>1. n.op = "export" /\ n.at = "describe"
  BY DEF Idle
<1>2. BeginOp(i, n)
  BY DEF Export
<1> HIDE DEF n
<1>3. Imports(n, live, files, were)
  BY <1>1 DEF Imports, Follows
<1> QED BY <1>2, <1>3, ImportsBeginOp

LEMMA ImportsOpen ==
  ASSUME TransferInv, ImportInv, NEW i \in Actors, NEW op, NEW s \in FilePaths, NEW t,
         NEW k \in Signers \cup {None}, ~Free(s), BeginOp(i, Opened(op, s, t, k))
  PROVE  ImportInv'
<1> DEFINE n == Opened(op, s, t, k)
<1>1. files[s].modified \in Nat /\ Seen(files[s].content, were)
  BY DEF Free, TransferInv, Placed, ImportInv
<1>2. /\ n.at = "copy" /\ n.source = s /\ n.half = files[s].content
      /\ n.modified = files[s].modified
  BY DEF Idle, Opened
<1> HIDE DEF n
<1>3. Imports(n, live, files, were)
  BY <1>1, <1>2 DEF Imports, Follows
<1> QED BY <1>3, ImportsBeginOp DEF n

LEMMA ImportsDescribe ==
  ASSUME TransferInv, ImportInv, NEW i \in Actors, Describe(i)
  PROVE  ImportInv'
<1>1. PICK o, b : /\ o = ops[i] /\ o.op = "export" /\ o.at = "describe"
                  /\ ops' = [ops EXCEPT ![i] = [o EXCEPT !.at = "publish", !.copy = b]]
                  /\ UNCHANGED <<live, files, were>>
  BY DEF Describe, At, Go
<1>2. Operation(o)
  BY <1>1 DEF TransferInv, Held
<1>3. PICK n : n = [o EXCEPT !.at = "publish", !.copy = b]
  OBVIOUS
<1>4. n.at = "publish"
  <2>1. n \in Fields(o, "publish", o.half, b, o.todo, o.draft)
    BY <1>2, <1>3 DEF Operation, Fields
  <2> QED BY <1>2, <2>1, OperationFields
<1>5. Imports(n, live, files, were)
  BY <1>4 DEF Imports, Follows
<1> QED BY <1>1, <1>3, <1>5, ImportsStay

LEMMA ImportsAccept ==
  ASSUME TransferInv, ImportInv, NEW i \in Actors, Accept(i)
  PROVE  ImportInv'
<1>1. PICK o, n :
        /\ o = ops[i]
        /\ n = [o EXCEPT !.at = "accepted"]
           \/ n = [o EXCEPT !.at = "publish", !.copy = Migrated(o.copy.db), !.half = o.copy]
        /\ ops' = [ops EXCEPT ![i] = n]
        /\ UNCHANGED <<live, files, were>>
  BY DEF Accept, At, Go
<1>2. Operation(o)
  BY <1>1 DEF TransferInv, Held
<1>3. n.at \in {"accepted", "publish"}
  <2>1. CASE n = [o EXCEPT !.at = "accepted"]
    <3>1. n \in Fields(o, "accepted", o.half, o.copy, o.todo, o.draft)
      BY <1>2, <2>1 DEF Operation, Fields
    <3> QED BY <1>2, <3>1, OperationFields
  <2>2. CASE n = [o EXCEPT !.at = "publish", !.copy = Migrated(o.copy.db), !.half = o.copy]
    <3>1. n \in Fields(o, "publish", o.copy, Migrated(o.copy.db), o.todo, o.draft)
      BY <1>2, <2>2 DEF Operation, Fields
    <3> QED BY <1>2, <3>1, OperationFields
  <2> QED BY <1>1, <2>1, <2>2
<1>4. Imports(n, live, files, were)
  BY <1>3 DEF Imports, Follows
<1> QED BY <1>1, <1>4, ImportsStay

(* What has not been modified since is what it was: the copy is one file.   *)
LEMMA ImportsCopy ==
  ASSUME TransferInv, ImportInv, NEW i \in Actors, CopyInput(i)
  PROVE  ImportInv'
<1>1. PICK o, content :
        /\ o = ops[i] /\ o.at = "copy"
        /\ ops' = [ops EXCEPT ![i] = [o EXCEPT !.at = "judge", !.half = None, !.copy = content]]
        /\ UNCHANGED <<live, files, were>>
        /\ \/ content = o.half
           \/ content = Torn(o.half, files[o.source].content) /\ files[o.source].modified = o.modified
  BY DEF CopyInput, At, Go
<1>2. Operation(o) /\ Follows(o, files, were)
  BY <1>1 DEF TransferInv, Held, ImportInv, Imports
<1>3. Seen(o.half, were) /\ content = o.half
  BY <1>1, <1>2 DEF Follows, Torn
<1>4. PICK n : n = [o EXCEPT !.at = "judge", !.half = None, !.copy = content]
  OBVIOUS
<1>5. n.at = "judge" /\ n.copy = content
  <2>1. n \in Fields(o, "judge", None, content, o.todo, o.draft)
    BY <1>2, <1>4 DEF Operation, Fields
  <2> QED BY <1>2, <2>1, OperationFields
<1>6. Imports(n, live, files, were)
  BY <1>3, <1>5 DEF Imports, Follows
<1> QED BY <1>1, <1>4, <1>6, ImportsStay

LEMMA ImportsFail ==
  ASSUME TransferInv, ImportInv, NEW i \in Actors, Abandon(i)
  PROVE  ImportInv'
<1>1. Imports(Idle, live, files, were)
  BY IdleFields DEF Imports, Follows
<1> QED BY <1>1, ImportsStay DEF Abandon

(* A file that is written was there, or is read from now on.                *)
LEMMA ImportsWritten ==
  ASSUME TransferInv, ImportInv, NEW p \in FilePaths, NEW content,
         content # None => Seen(content, were'),
         files' = [files EXCEPT ![p] = [content |-> content, modified |-> files[p].modified + 1]],
         UNCHANGED <<live, ops>>, were \subseteq were'
  PROVE  ImportInv'
<1>1. Whole(live, were')
  BY WholeStays DEF ImportInv
<1>2. /\ files'[p].content = content /\ files'[p].modified = files[p].modified + 1
      /\ \A r \in FilePaths \ {p} : files'[r] = files[r]
      /\ files[p].modified \in Nat
  BY DEF TransferInv, Placed
<1>3. \A r \in FilePaths : files'[r].content # None => Seen(files'[r].content, were')
  BY <1>2 DEF ImportInv, Seen
<1>4. ASSUME NEW j \in Actors PROVE Imports(ops[j], live, files', were')
  <2>1. Imports(ops[j], live, files, were)
    BY DEF ImportInv
  <2>2. Follows(ops[j], files', were')
    BY <1>2, <2>1 DEF Imports, Follows, Seen
  <2>3. ops[j].op = "import" /\ ops[j].at = "insert" =>
          Drafted(ops[j].copy, ops[j].todo, ops[j].draft, live, were')
    BY <2>1, DraftedStays DEF Imports
  <2> QED BY <2>1, <2>2, <2>3 DEF Imports, Seen
<1> QED BY <1>1, <1>3, <1>4 DEF ImportInv

LEMMA ImportsPut ==
  ASSUME TransferInv, ImportInv, NEW p \in FilePaths, NEW content \in Inputs, Put(p, content)
  PROVE  ImportInv'
<1>1. content \in were' /\ were \subseteq were' /\ UNCHANGED <<live, ops>>
      /\ files' = [files EXCEPT ![p] = [content |-> content, modified |-> files[p].modified + 1]]
  BY DEF Put
<1>2. Seen(content, were')
  BY <1>1 DEF Seen
<1> QED BY <1>1, <1>2, ImportsWritten

LEMMA ImportsRepack ==
  ASSUME TransferAssumption, TransferInv, ImportInv, NEW p \in FilePaths, Repack(p)
  PROVE  ImportInv'
<1>0. PICK a \in exported, b \in Snapshots : \E content \in Repacked(a, b) :
        /\ files' = [files EXCEPT ![p] = [content |-> content, modified |-> files[p].modified + 1]]
        /\ were' = were \cup {content}
        /\ UNCHANGED <<live, ops>>
  BY DEF Repack
<1>1. PICK content \in Repacked(a, b) :
        /\ files' = [files EXCEPT ![p] = [content |-> content, modified |-> files[p].modified + 1]]
        /\ were' = were \cup {content}
        /\ UNCHANGED <<live, ops>>
  BY <1>0
<1>2. \A d \in Cases : OfThisCase(d)
  BY DEF TransferInv, History, Cases, Range
<1>3. Bundled(a)
  BY <1>2, MadeIsBundled DEF TransferInv
<1>4. PICK m, s, d : a = [kind |-> "snapshot", manifest |-> m, signature |-> s, db |-> d]
  BY <1>3 DEF Bundled
<1>5. content.kind = "snapshot"
  BY <1>4 DEF Repacked
<1>6. Seen(content, were')
  BY <1>5 DEF Seen, Importables
<1> QED BY <1>1, <1>6, ImportsWritten

(* A name that is taken was free, so that nobody read it.                   *)
LEMMA ImportsPublish ==
  ASSUME TransferAssumption, TransferInv, ImportInv, NEW i \in Actors, Publish(i)
  PROVE  ImportInv'
<1>1. PICK o : /\ o = ops[i] /\ o.op \in {"export", "open"} /\ o.at = "publish"
               /\ files' = [files EXCEPT ![o.target].content = o.copy]
               /\ files[o.target].content = None
               /\ ops' = [ops EXCEPT ![i] = Idle] /\ UNCHANGED <<live, were>>
  BY DEF Publish, At
<1>2. Held(o, Cases, exported)
  BY <1>1 DEF TransferInv
<1>3. Seen(o.copy, were)
  <2>1. CASE o.op = "export"
    <3>1. \A d \in Cases : OfThisCase(d)
      BY DEF TransferInv, History, Cases, Range
    <3>2. Bundled(o.copy)
      BY <1>1, <1>2, <2>1, <3>1, MadeIsBundled DEF Held
    <3>3. o.copy.kind = "snapshot"
      BY <3>2 DEF Bundled
    <3> QED BY <3>3 DEF Seen, Importables
  <2>2. CASE o.op = "open"
    <3>1. Portable(o.half.db) /\ o.half.db.schema \in 1..SCHEMA_REVISION /\ o.copy = Migrated(o.half.db)
      BY <1>1, <1>2, <2>2 DEF Held, Accepted
    <3>2. o.copy.kind = "case"
      BY <3>1, MigratedIsPortable
    <3> QED BY <3>2 DEF Seen, Importables
  <2> QED BY <1>1, <2>1, <2>2
<1>4. ASSUME NEW p \in FilePaths
      PROVE  /\ files'[p].modified = files[p].modified
             /\ p # o.target => files'[p] = files[p]
             /\ p = o.target => files'[p].content = o.copy
  <2>1. Placed(files[p], exported)
    BY DEF TransferInv
  <2>2. CASE p # o.target
    BY <1>1, <2>2 DEF TransferInv
  <2>3. CASE p = o.target
    <3>1. files'[p] = [files[p] EXCEPT !.content = o.copy]
      BY <1>1, <2>3 DEF TransferInv
    <3> QED BY <2>1, <2>3, <3>1 DEF Placed
  <2> QED BY <2>2, <2>3
<1>5. \A p \in FilePaths : files'[p].content # None => Seen(files'[p].content, were)
  BY <1>3, <1>4 DEF ImportInv
<1>6. ASSUME NEW j \in Actors PROVE Imports(ops'[j], live, files', were)
  <2>1. CASE j = i
    <3>1. ops'[j] = Idle
      BY <1>1, <2>1 DEF TransferInv
    <3> QED BY <3>1, IdleFields DEF Imports, Follows
  <2>2. CASE j # i
    <3>1. ops'[j] = ops[j]
      BY <1>1, <2>2 DEF TransferInv
    <3>2. Imports(ops[j], live, files, were) /\ Held(ops[j], Cases, exported)
      BY DEF ImportInv, TransferInv
    <3>3. Follows(ops[j], files', were)
      BY <1>1, <1>4, <3>2 DEF Imports, Follows, Held
    <3> QED BY <3>1, <3>2, <3>3 DEF Imports
  <2> QED BY <2>1, <2>2
<1> QED BY <1>1, <1>5, <1>6 DEF ImportInv

-----------------------------------------------------------------------------
(* The steps of the transaction of an import.                               *)

LEMMA DraftGoesOn ==
  ASSUME TransferInv, ImportInv, NEW i \in Actors, At(i, {"import"}, "insert"), NEW d, NEW next,
         Inserted(i, d, next), Drafted(ops[i].copy, next, d, live, were)
  PROVE  ImportInv'
<1>1. PICK o, n : /\ o = ops[i] /\ o.op = "import" /\ o.at = "insert"
                  /\ n = [o EXCEPT !.todo = next, !.draft = d]
                  /\ ops' = [ops EXCEPT ![i] = n]
                  /\ UNCHANGED <<live, files, were>>
  BY DEF Inserted, Go, At
<1>2. Operation(o)
  BY <1>1 DEF TransferInv, Held
<1>3. n.op = "import" /\ n.at = "insert" /\ n.copy = o.copy /\ n.todo = next /\ n.draft = d
  <2>1. n \in Fields(o, o.at, o.half, o.copy, next, d)
    BY <1>1, <1>2 DEF Operation, Fields
  <2> QED BY <1>1, <1>2, <2>1, OperationFields
<1>4. Imports(n, live, files, were)
  BY <1>1, <1>3 DEF Imports, Follows
<1> QED BY <1>1, <1>4, ImportsStay

LEMMA ListIs == ASSUME NEW s, IsList(s) PROVE DOMAIN s = 1..Len(s) /\ Len(s) \in Nat /\ s \in Seq(ToSet(s))
BY DEF IsList

LEMMA LongerList ==
  ASSUME NEW s, IsList(s), NEW x, NEW n, n = Append(s, x)
  PROVE  /\ IsList(n) /\ Len(n) = Len(s) + 1 /\ DOMAIN n = 1..Len(s) + 1 /\ n[Len(s) + 1] = x
         /\ \A k \in DOMAIN s : n[k] = s[k]
<1>1. ToSet(s) = Range(s) /\ ToSet(n) = Range(n)
  BY DEF ToSet, Range
<1>2. s \in Seq(Range(s))
  BY <1>1 DEF IsList
<1>3. n \in Seq(Range(n)) /\ DOMAIN n = 1..Len(s) + 1
  BY <1>2, Longer
<1>4. n[Len(s) + 1] = x /\ Len(n) = Len(s) + 1
  BY <1>2, Longer
<1>5. \A k \in DOMAIN s : n[k] = s[k]
  BY <1>2, Longer
<1> QED BY <1>1, <1>3, <1>4, <1>5 DEF IsList

(* What is known in the middle of an import.                                *)
LEMMA InsertFacts ==
  ASSUME TransferAssumption, TransferInv, ImportInv, NEW i \in Actors, At(i, {"import"}, "insert"),
         NEW content, NEW d, content = ops[i].copy, d = ops[i].draft
  PROVE  /\ OfThisCase(d) /\ Drafted(content, ops[i].todo, d, live, were)
         /\ DOMAIN Sources(content) = 1..Len(Sources(content)) /\ Len(Sources(content)) \in Nat
         /\ \A n \in DOMAIN Sources(content) : IsList(Sources(content)[n].lines)
         /\ DOMAIN Scans(content) = DOMAIN Sources(content)
         /\ \A n \in DOMAIN Sources(content) :
              Scans(content)[n] = [rows |-> Rows(Sources(content)[n].lines),
                                   status |-> Sources(content)[n].status]
         /\ DOMAIN live.scans = 1..Len(live.scans) /\ Len(live.scans) \in Nat
         /\ DOMAIN d.scans = 1..Len(d.scans) /\ Len(d.scans) \in Nat
<1>1. OfThisCase(d) /\ Drafted(content, ops[i].todo, d, live, were)
  BY DEF TransferInv, Held, ImportInv, Imports, At
<1>2. Listed(content) /\ content.kind \in Importables
  BY <1>1 DEF Drafted, TransferAssumption, TransferInputs
<1>3. IsList(Sources(content)) /\ \A n \in DOMAIN Sources(content) : IsList(Sources(content)[n].lines)
  BY <1>2 DEF Listed, ToSet
<1>4. DOMAIN Scans(content) = DOMAIN Sources(content)
      /\ \A n \in DOMAIN Sources(content) :
           Scans(content)[n] = [rows |-> Rows(Sources(content)[n].lines),
                                status |-> Sources(content)[n].status]
  BY DEF Scans
<1>5. IsList(live.scans) /\ IsList(d.scans)
  BY <1>1 DEF ImportInv, Whole, Drafted
<1> QED BY <1>1, <1>3, <1>4, <1>5, ListIs

LEMMA DraftFields ==
  ASSUME NEW d, OfThisCase(d), NEW x
  PROVE  /\ [d EXCEPT !.scans = x].scans = x /\ [d EXCEPT !.scans = x].receipts = d.receipts
         /\ [d EXCEPT !.receipts = x].receipts = x /\ [d EXCEPT !.receipts = x].scans = d.scans
         /\ [d EXCEPT !.filters = x].scans = d.scans /\ [d EXCEPT !.filters = x].receipts = d.receipts
         /\ [d EXCEPT !.revision = x].scans = d.scans /\ [d EXCEPT !.revision = x].receipts = d.receipts
BY DEF OfThisCase

LEMMA StepFields ==
  ASSUME NEW do, NEW scan, NEW line
  PROVE  Step(do, scan, line).do = do /\ Step(do, scan, line).scan = scan /\ Step(do, scan, line).line = line
BY DEF Step

LEMMA ImportsInsertScan ==
  ASSUME TransferAssumption, TransferInv, ImportInv, NEW i \in Actors, InsertScan(i)
  PROVE  ImportInv'
<1>1. PICK content, at, d, e, x, m, lines :
        /\ content = ops[i].copy /\ at = ops[i].todo /\ d = ops[i].draft
        /\ x = [rows |-> << >>, status |-> "running"] /\ m = Len(live.scans)
        /\ lines = Sources(content)[at.scan].lines
        /\ At(i, {"import"}, "insert") /\ at.do = "scan" /\ at.scan <= Len(Sources(content))
        /\ e = [d EXCEPT !.scans = Append(d.scans, x)]
        /\ Inserted(i, e, Step("row", at.scan, 1))
  BY DEF InsertScan, Inserting
<1>2. /\ OfThisCase(d) /\ Drafted(content, at, d, live, were)
      /\ DOMAIN Sources(content) = 1..Len(Sources(content)) /\ Len(Sources(content)) \in Nat
      /\ \A n \in DOMAIN Sources(content) : IsList(Sources(content)[n].lines)
      /\ DOMAIN live.scans = 1..m /\ m \in Nat
      /\ DOMAIN d.scans = 1..Len(d.scans)
  BY <1>1, InsertFacts
<1>3. e.scans = Append(d.scans, x) /\ e.receipts = d.receipts
  <2>1. PICK y : y = Append(d.scans, x)
    OBVIOUS
  <2>2. e = [d EXCEPT !.scans = y] /\ OfThisCase(d)
    BY <1>1, <1>2, <2>1
  <2> QED BY <2>1, <2>2, DraftFields
<1>4. /\ content \in were \cap Inputs /\ content.kind \in Importables
      /\ at.scan \in Nat \ {0} /\ IsList(d.scans)
      /\ \A n \in DOMAIN live.scans : d.scans[n] = live.scans[n]
      /\ d.receipts = live.receipts
      /\ \A n \in DOMAIN Sources(content) : n < at.scan => d.scans[m + n] = Scans(content)[n]
      /\ Len(d.scans) = m + at.scan - 1
  BY <1>1, <1>2 DEF Drafted
<1>5. PICK s \in Nat \ {0} : s = at.scan
  BY <1>4
<1>6. /\ IsList(e.scans) /\ Len(e.scans) = m + s /\ e.scans[m + s] = x
      /\ \A k \in 1..(m + s - 1) : e.scans[k] = d.scans[k]
  <2>0. PICK was, n : was = d.scans /\ n = e.scans /\ IsList(was) /\ n = Append(was, x)
    BY <1>3, <1>4
  <2>a. IsList(n) /\ Len(n) = Len(was) + 1
    BY <2>0, LongerList
  <2>b. n[Len(was) + 1] = x
    BY <2>0, LongerList
  <2>c. \A k \in DOMAIN was : n[k] = was[k]
    BY <2>0, LongerList
  <2>1. IsList(e.scans) /\ Len(e.scans) = Len(d.scans) + 1 /\ e.scans[Len(d.scans) + 1] = x
    BY <2>0, <2>a, <2>b
  <2>2. \A k \in DOMAIN d.scans : e.scans[k] = d.scans[k]
    BY <2>0, <2>c
  <2>3. Len(d.scans) + 1 = m + s
    BY <1>2, <1>4, <1>5
  <2> QED BY <1>2, <1>4, <1>5, <2>1, <2>2, <2>3
<1>7. RowsBefore(lines, 1) = << >> /\ 1 <= Len(lines) + 1
  <2>1. at.scan \in DOMAIN Sources(content)
    BY <1>1, <1>2, <1>4
  <2>2. IsList(lines)
    BY <1>1, <1>2, <2>1
  <2>3. lines \in Seq(ToSet(lines)) /\ DOMAIN lines = 1..Len(lines) /\ Len(lines) \in Nat
    BY <2>2, ListIs
  <2>4. {k \in DOMAIN lines : k < 1 /\ lines[k].digest # "blank"} = {}
    <3>1. \A k \in 1..Len(lines) : ~(k < 1)
      BY <2>3
    <3> QED BY <2>3, <3>1
  <2>5. Kept(lines, {}) = << >>
    BY <2>3, KeptNone
  <2>6. RowsBefore(lines, 1) = << >>
    BY <2>4, <2>5, Zenon DEF RowsBefore
  <2> QED BY <2>3, <2>6
<1>8. \A n \in DOMAIN live.scans : e.scans[n] = live.scans[n]
  <2>1. \A n \in 1..m : n \in 1..(m + s - 1)
    BY <1>2
  <2> QED BY <1>2, <1>4, <1>6, <2>1
<1>9. \A n \in DOMAIN Sources(content) : n < at.scan => e.scans[m + n] = Scans(content)[n]
  <2>1. \A n \in DOMAIN Sources(content) : n < s => m + n \in 1..(m + s - 1)
    BY <1>2
  <2> QED BY <1>4, <1>5, <1>6, <2>1
<1>10. PICK next : next = Step("row", at.scan, 1) /\ next.do = "row" /\ next.scan = at.scan /\ next.line = 1
  BY StepFields
<1>11. e.scans[m + at.scan] = [rows |-> RowsBefore(lines, next.line), status |-> "running"]
  BY <1>1, <1>5, <1>6, <1>7, <1>10
<1>12. Drafted(content, next, e, live, were)
  <2>1. next.do = "row" /\ next.scan \in Nat \ {0} /\ next.line \in Nat \ {0}
    BY <1>4, <1>10
  <2>2. \A n \in DOMAIN Sources(content) : n < next.scan => e.scans[Len(live.scans) + n] = Scans(content)[n]
    BY <1>1, <1>9, <1>10
  <2>3. /\ next.scan <= Len(Sources(content)) /\ Len(e.scans) = Len(live.scans) + next.scan
        /\ next.line <= Len(Sources(content)[next.scan].lines) + 1
        /\ e.scans[Len(live.scans) + next.scan] =
             [rows |-> RowsBefore(Sources(content)[next.scan].lines, next.line), status |-> "running"]
    BY <1>1, <1>5, <1>6, <1>7, <1>10, <1>11
  <2> QED BY <1>3, <1>4, <1>6, <1>8, <2>1, <2>2, <2>3 DEF Drafted
<1> QED BY <1>1, <1>10, <1>12, DraftGoesOn

(* A line more, and all the lines. *)
LEMMA RowsGrow ==
  ASSUME NEW lines, IsList(lines), NEW n \in DOMAIN lines
  PROVE  /\ lines[n].digest = "blank" => RowsBefore(lines, n + 1) = RowsBefore(lines, n)
         /\ lines[n].digest # "blank" => RowsBefore(lines, n + 1) = Append(RowsBefore(lines, n), lines[n])
<1> DEFINE P(k) == {j \in DOMAIN lines : j < k /\ lines[j].digest # "blank"}
<1>1. lines \in Seq(ToSet(lines)) /\ DOMAIN lines = 1..Len(lines) /\ Len(lines) \in Nat
  BY ListIs
<1>2. P(n) \in SUBSET DOMAIN lines /\ \A j \in P(n) : j < n
  OBVIOUS
<1>3. \A j \in DOMAIN lines : j < n + 1 <=> (j < n \/ j = n)
  BY <1>1
<1>4. lines[n].digest = "blank" => P(n + 1) = P(n)
  BY <1>3
<1>5. lines[n].digest # "blank" => P(n + 1) = P(n) \cup {n}
  BY <1>1, <1>3
<1>6. Kept(lines, P(n) \cup {n}) = Append(Kept(lines, P(n)), lines[n])
  <2> HIDE DEF P
  <2> QED BY <1>1, <1>2, KeptOneMore
<1>7. RowsBefore(lines, n) = Kept(lines, P(n)) /\ RowsBefore(lines, n + 1) = Kept(lines, P(n + 1))
  BY Zenon DEF RowsBefore
<1> HIDE DEF P
<1> QED BY <1>4, <1>5, <1>6, <1>7

LEMMA RowsAll ==
  ASSUME NEW lines, IsList(lines), NEW n \in Nat, n > Len(lines)
  PROVE  RowsBefore(lines, n) = Rows(lines)
<1>1. DOMAIN lines = 1..Len(lines) /\ Len(lines) \in Nat
  BY ListIs
<1>2. \A k \in DOMAIN lines : k < n
  BY <1>1
<1>3. {k \in DOMAIN lines : k < n /\ lines[k].digest # "blank"} = {k \in DOMAIN lines : lines[k].digest # "blank"}
  BY <1>2
<1> QED BY <1>3, Zenon DEF RowsBefore, Rows

LEMMA ReplacedInList ==
  ASSUME NEW s, IsList(s), NEW j \in DOMAIN s, NEW x, NEW n, n = [s EXCEPT ![j] = x]
  PROVE  /\ IsList(n) /\ Len(n) = Len(s) /\ n[j] = x
         /\ \A k \in DOMAIN s : k # j => n[k] = s[k]
<1>1. s \in Seq(ToSet(s)) /\ DOMAIN s = 1..Len(s) /\ Len(s) \in Nat
  BY ListIs
<1>2. DOMAIN n = DOMAIN s /\ n[j] = x /\ \A k \in DOMAIN s : k # j => n[k] = s[k]
  OBVIOUS
<1>3. PICK S : s \in Seq(S) /\ x \in S
  <2>1. s \in Seq(ToSet(s) \cup {x})
    BY <1>1
  <2> QED BY <2>1
<1>4. n \in Seq(S) /\ Len(n) = Len(s)
  BY <1>3
<1>5. n \in Seq(Range(n))
  BY <1>4, OfItsOwn
<1>6. ToSet(n) = Range(n)
  BY DEF ToSet, Range
<1> QED BY <1>2, <1>4, <1>5, <1>6 DEF IsList

(* The scan that is written to, with the lines before the next one.         *)
LEMMA RowDrafted ==
  ASSUME NEW content, NEW at, NEW d, NEW base, NEW ever, Drafted(content, at, d, base, ever),
         at.do = "row", NEW m, m = Len(base.scans), m \in Nat, DOMAIN base.scans = 1..m,
         DOMAIN Sources(content) = 1..Len(Sources(content)),
         NEW lines, lines = Sources(content)[at.scan].lines, at.line <= Len(lines), Len(lines) \in Nat,
         NEW e, IsList(e.scans), Len(e.scans) = Len(d.scans), e.receipts = d.receipts,
         e.scans[m + at.scan] = [rows |-> RowsBefore(lines, at.line + 1), status |-> "running"],
         \A k \in 1..(m + at.scan - 1) : e.scans[k] = d.scans[k]
  PROVE  Drafted(content, Step("row", at.scan, at.line + 1), e, base, ever)
<1>1. PICK next : next = Step("row", at.scan, at.line + 1) /\ next.do = "row" /\ next.scan = at.scan /\ next.line = at.line + 1
  BY StepFields
<1>2. PICK s, k : s = at.scan /\ k = at.line /\ s \in Nat \ {0} /\ k \in Nat \ {0}
  BY DEF Drafted
<1>3. next.scan \in Nat \ {0} /\ next.line \in Nat \ {0}
  BY <1>1, <1>2
<1>4. \A n \in DOMAIN base.scans : e.scans[n] = base.scans[n]
  <2>1. \A n \in 1..m : n \in 1..(m + s - 1)
    BY <1>2
  <2> QED BY <1>2, <2>1 DEF Drafted
<1>5. \A n \in DOMAIN Sources(content) : n < at.scan => e.scans[m + n] = Scans(content)[n]
  <2>1. \A n \in Nat \ {0} : n < s => m + n \in 1..(m + s - 1)
    BY <1>2
  <2>2. \A n \in DOMAIN Sources(content) : n \in Nat \ {0}
    OBVIOUS
  <2>3. \A n \in DOMAIN Sources(content) : n < at.scan => d.scans[m + n] = Scans(content)[n]
    BY DEF Drafted
  <2> QED BY <1>2, <2>1, <2>2, <2>3
<1>6. next.line <= Len(lines) + 1
  BY <1>1, <1>2
<1> QED BY <1>1, <1>3, <1>4, <1>5, <1>6 DEF Drafted

LEMMA ImportsInsertRow ==
  ASSUME TransferAssumption, TransferInv, ImportInv, NEW i \in Actors, InsertRow(i)
  PROVE  ImportInv'
<1>0. PICK content, at, d, m, lines, line, scan :
        /\ content = ops[i].copy /\ at = ops[i].todo /\ d = ops[i].draft
        /\ m = Len(live.scans) /\ scan = Len(d.scans)
        /\ lines = Sources(content)[at.scan].lines /\ line = lines[at.line]
  OBVIOUS
<1>1. /\ content = ops[i].copy /\ at = ops[i].todo /\ d = ops[i].draft
      /\ m = Len(live.scans) /\ scan = Len(d.scans)
      /\ lines = Sources(content)[at.scan].lines /\ line = lines[at.line]
      /\ At(i, {"import"}, "insert") /\ at.do = "row" /\ at.line <= Len(lines)
  BY <1>0 DEF InsertRow, Inserting
<1>e. PICK e :
        /\ \/ line.digest = "blank" /\ e = d
           \/ line.digest # "blank" /\ e = [d EXCEPT !.scans[scan].rows = Append(@, line)]
        /\ Inserted(i, e, Step("row", at.scan, at.line + 1))
  BY <1>0 DEF InsertRow, Inserting
<1>2. /\ OfThisCase(d) /\ Drafted(content, at, d, live, were)
      /\ DOMAIN Sources(content) = 1..Len(Sources(content)) /\ Len(Sources(content)) \in Nat
      /\ \A n \in DOMAIN Sources(content) : IsList(Sources(content)[n].lines)
      /\ DOMAIN live.scans = 1..m /\ m \in Nat
      /\ DOMAIN d.scans = 1..Len(d.scans)
  BY <1>1, InsertFacts
<1>3. PICK s \in Nat \ {0}, k \in Nat \ {0} : s = at.scan /\ k = at.line
  BY <1>2 DEF Drafted
<1>4. /\ IsList(d.scans) /\ scan = m + s /\ s \in DOMAIN Sources(content)
      /\ d.scans[scan] = [rows |-> RowsBefore(lines, k), status |-> "running"]
  <2>1. /\ IsList(d.scans) /\ at.scan <= Len(Sources(content)) /\ Len(d.scans) = Len(live.scans) + at.scan
        /\ d.scans[Len(live.scans) + at.scan] =
             [rows |-> RowsBefore(Sources(content)[at.scan].lines, at.line), status |-> "running"]
    BY <1>1, <1>2 DEF Drafted
  <2>2. s \in DOMAIN Sources(content)
    BY <1>2, <1>3, <2>1
  <2> QED BY <1>1, <1>3, <2>1, <2>2
<1>5. IsList(lines) /\ k \in DOMAIN lines /\ Len(lines) \in Nat
  <2>1. IsList(lines)
    BY <1>1, <1>2, <1>3, <1>4
  <2>2. DOMAIN lines = 1..Len(lines) /\ Len(lines) \in Nat
    BY <2>1, ListIs
  <2> QED BY <1>1, <1>3, <2>1, <2>2
<1>6. scan \in DOMAIN d.scans /\ \A j \in 1..(m + s - 1) : j \in DOMAIN d.scans /\ j # scan
  <2>1. DOMAIN d.scans = 1..scan
    BY <1>0, <1>2
  <2>2. scan = m + s /\ m \in Nat
    BY <1>2, <1>4
  <2>3. scan \in 1..scan /\ \A j \in 1..(m + s - 1) : j \in 1..scan /\ j # scan
    BY <2>2
  <2> QED BY <2>1, <2>3
<1>7. /\ IsList(e.scans) /\ Len(e.scans) = Len(d.scans) /\ e.receipts = d.receipts
      /\ e.scans[scan] = [rows |-> RowsBefore(lines, k + 1), status |-> "running"]
      /\ \A j \in 1..(m + s - 1) : e.scans[j] = d.scans[j]
  <2>1. CASE line.digest = "blank"
    <3>1. e = d /\ RowsBefore(lines, k + 1) = RowsBefore(lines, k)
      BY <1>1, <1>e, <1>3, <1>5, <2>1, RowsGrow
    <3> QED BY <1>4, <3>1
  <2>2. CASE line.digest # "blank"
    <3>1. PICK x : x = [rows |-> RowsBefore(lines, k + 1), status |-> "running"]
      OBVIOUS
    <3>2. RowsBefore(lines, k + 1) = Append(RowsBefore(lines, k), line)
      BY <1>1, <1>3, <1>5, <2>2, RowsGrow
    <3>3. [d.scans[scan] EXCEPT !.rows = Append(@, line)] = x
      BY <1>4, <3>1, <3>2
    <3>4. e = [d EXCEPT !.scans = [d.scans EXCEPT ![scan] = x]]
      <4>1. e = [d EXCEPT !.scans = [d.scans EXCEPT ![scan] = [d.scans[scan] EXCEPT !.rows = Append(@, line)]]]
        BY <1>e, <1>2, <2>2 DEF OfThisCase
      <4> QED BY <3>3, <4>1
    <3>5. PICK was, now : was = d.scans /\ now = e.scans /\ now = [was EXCEPT ![scan] = x] /\ e.receipts = d.receipts
      BY <1>2, <3>4, DraftFields
    <3>6. /\ IsList(now) /\ Len(now) = Len(was) /\ now[scan] = x
          /\ \A j \in DOMAIN was : j # scan => now[j] = was[j]
      BY <1>4, <1>6, <3>5, ReplacedInList
    <3> QED BY <1>6, <3>1, <3>5, <3>6
  <2> QED BY <2>1, <2>2
<1>8. Drafted(content, Step("row", at.scan, at.line + 1), e, live, were)
  <2>1. /\ e.scans[m + at.scan] = [rows |-> RowsBefore(lines, at.line + 1), status |-> "running"]
        /\ \A j \in 1..(m + at.scan - 1) : e.scans[j] = d.scans[j]
    BY <1>3, <1>4, <1>7
  <2>2. lines = Sources(content)[at.scan].lines /\ at.line <= Len(lines) /\ Len(lines) \in Nat /\ at.do = "row"
    BY <1>1, <1>5
  <2>3. /\ Drafted(content, at, d, live, were) /\ m = Len(live.scans) /\ m \in Nat
        /\ DOMAIN live.scans = 1..m /\ DOMAIN Sources(content) = 1..Len(Sources(content))
    BY <1>1, <1>2
  <2>4. IsList(e.scans) /\ Len(e.scans) = Len(d.scans) /\ e.receipts = d.receipts
    BY <1>7
  <2> QED BY <2>1, <2>2, <2>3, <2>4, RowDrafted
<1> QED BY <1>1, <1>e, <1>8, DraftGoesOn

LEMMA ImportsEndScan ==
  ASSUME TransferAssumption, TransferInv, ImportInv, NEW i \in Actors, EndScan(i)
  PROVE  ImportInv'
<1>0. PICK content, at, d, m, source, scan :
        /\ content = ops[i].copy /\ at = ops[i].todo /\ d = ops[i].draft
        /\ m = Len(live.scans) /\ scan = Len(d.scans) /\ source = Sources(content)[at.scan]
  OBVIOUS
<1>1. At(i, {"import"}, "insert") /\ at.do = "row" /\ at.line > Len(source.lines)
  BY <1>0 DEF EndScan, Inserting
<1>e. PICK e :
        /\ e = [d EXCEPT !.scans[scan].status = source.status]
        /\ Inserted(i, e, Step("scan", at.scan + 1, 1))
  BY <1>0 DEF EndScan, Inserting
<1>2. /\ OfThisCase(d) /\ Drafted(content, at, d, live, were)
      /\ DOMAIN Sources(content) = 1..Len(Sources(content)) /\ Len(Sources(content)) \in Nat
      /\ \A n \in DOMAIN Sources(content) : IsList(Sources(content)[n].lines)
      /\ \A n \in DOMAIN Sources(content) :
           Scans(content)[n] = [rows |-> Rows(Sources(content)[n].lines),
                                status |-> Sources(content)[n].status]
      /\ DOMAIN live.scans = 1..m /\ m \in Nat
      /\ DOMAIN d.scans = 1..scan
  BY <1>0, <1>1, InsertFacts
<1>3. PICK s \in Nat \ {0}, k \in Nat \ {0} : s = at.scan /\ k = at.line
  BY <1>2 DEF Drafted
<1>4. /\ IsList(d.scans) /\ scan = m + s /\ s \in DOMAIN Sources(content) /\ s <= Len(Sources(content))
      /\ d.scans[scan] = [rows |-> RowsBefore(source.lines, k), status |-> "running"]
      /\ content \in were \cap Inputs /\ content.kind \in Importables
      /\ \A n \in DOMAIN live.scans : d.scans[n] = live.scans[n]
      /\ d.receipts = live.receipts
      /\ \A n \in DOMAIN Sources(content) : n < s => d.scans[m + n] = Scans(content)[n]
  <2>1. /\ IsList(d.scans) /\ at.scan <= Len(Sources(content)) /\ Len(d.scans) = Len(live.scans) + at.scan
        /\ d.scans[Len(live.scans) + at.scan] =
             [rows |-> RowsBefore(Sources(content)[at.scan].lines, at.line), status |-> "running"]
    BY <1>1, <1>2 DEF Drafted
  <2>2. s \in DOMAIN Sources(content)
    BY <1>2, <1>3, <2>1
  <2>3. /\ content \in were \cap Inputs /\ content.kind \in Importables
        /\ \A n \in DOMAIN live.scans : d.scans[n] = live.scans[n]
        /\ d.receipts = live.receipts
    BY <1>1, <1>2 DEF Drafted
  <2>4. \A n \in DOMAIN Sources(content) :
          n < at.scan => d.scans[Len(live.scans) + n] = Scans(content)[n]
    BY <1>1, <1>2 DEF Drafted
  <2> QED BY <1>0, <1>3, <2>1, <2>2, <2>3, <2>4
<1>5. RowsBefore(source.lines, k) = Rows(source.lines)
  <2>1. IsList(source.lines) /\ k > Len(source.lines)
    BY <1>0, <1>1, <1>2, <1>3, <1>4
  <2> QED BY <2>1, RowsAll
<1>6. Scans(content)[s] = [rows |-> Rows(source.lines), status |-> source.status]
  BY <1>0, <1>2, <1>3, <1>4
<1>7. scan \in 1..scan /\ \A j \in 1..(m + s - 1) : j \in 1..scan /\ j # scan
  BY <1>2, <1>4
<1>8. /\ IsList(e.scans) /\ Len(e.scans) = scan /\ e.receipts = d.receipts
      /\ e.scans[scan] = Scans(content)[s]
      /\ \A j \in 1..(m + s - 1) : e.scans[j] = d.scans[j]
  <2>1. PICK x : x = Scans(content)[s]
    OBVIOUS
  <2>2. [d.scans[scan] EXCEPT !.status = source.status] = x
    BY <1>4, <1>5, <1>6, <2>1
  <2>3. e = [d EXCEPT !.scans = [d.scans EXCEPT ![scan] = x]]
    <3>1. e = [d EXCEPT !.scans = [d.scans EXCEPT ![scan] = [d.scans[scan] EXCEPT !.status = source.status]]]
      BY <1>e, <1>2 DEF OfThisCase
    <3> QED BY <2>2, <3>1
  <2>4. PICK was, now : was = d.scans /\ now = e.scans /\ now = [was EXCEPT ![scan] = x] /\ e.receipts = d.receipts
    BY <1>2, <2>3, DraftFields
  <2>5. /\ IsList(now) /\ Len(now) = Len(was) /\ now[scan] = x
        /\ \A j \in DOMAIN was : j # scan => now[j] = was[j]
    BY <1>2, <1>4, <1>7, <2>4, ReplacedInList
  <2> QED BY <1>0, <1>2, <1>7, <2>1, <2>4, <2>5
<1>9. PICK next : next = Step("scan", at.scan + 1, 1) /\ next.do = "scan" /\ next.scan = s + 1 /\ next.line = 1
  BY <1>3, StepFields
<1>10. \A n \in DOMAIN live.scans : e.scans[n] = live.scans[n]
  <2>1. \A n \in 1..m : n \in 1..(m + s - 1)
    BY <1>2
  <2> QED BY <1>2, <1>4, <1>8, <2>1
<1>11. \A n \in DOMAIN Sources(content) : n < s + 1 => e.scans[m + n] = Scans(content)[n]
  <2>1. \A n \in DOMAIN Sources(content) : n < s + 1 => n = s \/ (n < s /\ m + n \in 1..(m + s - 1))
    BY <1>2
  <2> QED BY <1>4, <1>8, <2>1
<1>12. Drafted(content, next, e, live, were)
  <2>1. next.scan \in Nat \ {0} /\ next.line \in Nat \ {0} /\ next.do = "scan"
    BY <1>9
  <2>2. next.scan <= Len(Sources(content)) + 1 /\ Len(e.scans) = m + next.scan - 1
    BY <1>2, <1>4, <1>8, <1>9
  <2> QED BY <1>0, <1>4, <1>8, <1>9, <1>10, <1>11, <2>1, <2>2 DEF Drafted
<1> QED BY <1>0, <1>1, <1>e, <1>9, <1>12, DraftGoesOn

LEMMA ImportsInsertFilter ==
  ASSUME TransferAssumption, TransferInv, ImportInv, NEW i \in Actors, InsertFilter(i)
  PROVE  ImportInv'
<1>0. PICK content, at, d :
        content = ops[i].copy /\ at = ops[i].todo /\ d = ops[i].draft
  OBVIOUS
<1>1. At(i, {"import"}, "insert") /\ at.do = "scan"
  BY <1>0 DEF InsertFilter, ScansDone, Inserting
<1>2. PICK e, x :
        e = [d EXCEPT !.filters = x] /\ Inserted(i, e, Step("scan", at.scan, at.line + 1))
  BY <1>0 DEF InsertFilter
<1>3. OfThisCase(d) /\ Drafted(content, at, d, live, were)
  BY <1>0, <1>1, InsertFacts
<1>4. e.scans = d.scans /\ e.receipts = d.receipts
  BY <1>2, <1>3, DraftFields
<1>5. PICK next : next = Step("scan", at.scan, at.line + 1) /\ next.do = "scan" /\ next.scan = at.scan /\ next.line = at.line + 1
  BY StepFields
<1>6. Drafted(content, next, e, live, were)
  <2>1. next.line \in Nat \ {0}
    BY <1>3, <1>5 DEF Drafted
  <2> QED BY <1>1, <1>3, <1>4, <1>5, <2>1 DEF Drafted
<1> QED BY <1>0, <1>1, <1>2, <1>5, <1>6, DraftGoesOn

(* The scans of a list of sources are as many.                              *)
LEMMA ScansAreAsMany ==
  ASSUME NEW content, IsList(Sources(content))
  PROVE  DOMAIN Scans(content) = DOMAIN Sources(content) /\ Len(Scans(content)) = Len(Sources(content))
<1>1. PICK N, f : N \in Nat /\ N = Len(Sources(content)) /\ f = Scans(content) /\ DOMAIN Sources(content) = 1..N
  BY ListIs
<1>2. DOMAIN f = 1..N /\ f = [n \in 1..N |-> f[n]]
  BY <1>1 DEF Scans
<1>3. PICK T : \A n \in 1..N : f[n] \in T
  <2>1. \A n \in 1..N : f[n] \in {f[k] : k \in 1..N}
    OBVIOUS
  <2> QED BY <2>1
<1>4. f \in [1..N -> T]
  BY <1>2, <1>3
<1>5. f \in Seq(T)
  BY <1>1, <1>4, SeqDef
<1>6. Len(f) = N
  BY <1>1, <1>2, <1>5
<1> QED BY <1>1, <1>2, <1>6

(* With its receipt an import is one more of the case.                      *)
LEMMA ReceiptWhole ==
  ASSUME NEW base, NEW ever, Whole(base, ever), NEW content \in ever, IsList(Sources(content)),
         Len(base.scans) \in Nat, DOMAIN base.scans = 1..Len(base.scans),
         NEW e, IsList(e.scans), Len(e.scans) = Len(base.scans) + Len(Sources(content)),
         \A n \in DOMAIN base.scans : e.scans[n] = base.scans[n],
         \A n \in DOMAIN Sources(content) : e.scans[Len(base.scans) + n] = Scans(content)[n],
         e.receipts = Append(base.receipts, [of |-> content, scans |-> Len(e.scans)])
  PROVE  Whole(e, ever)
<1>0. PICK m, receipt : m \in Nat /\ m = Len(base.scans) /\ receipt = [of |-> content, scans |-> Len(e.scans)]
  OBVIOUS
<1>1. PICK old, new, now, was, K, N :
        /\ old = base.scans /\ new = e.scans
        /\ was = base.receipts /\ now = e.receipts /\ now = Append(was, receipt)
        /\ K = Len(was) /\ N = Len(Sources(content))
  BY <1>0
<1>2. IsList(was) /\ now = Append(was, receipt) /\ Len(was) = K
  BY <1>1 DEF Whole
<1>3. K \in Nat /\ DOMAIN was = 1..K /\ N \in Nat
  BY <1>1, <1>2, ListIs
<1>4. IsList(now)
  BY <1>2, LongerList
<1>5. Len(now) = K + 1 /\ DOMAIN now = 1..K + 1
  BY <1>2, LongerList
<1>6. now[K + 1] = receipt
  BY <1>2, LongerList
<1>7. \A k \in DOMAIN was : now[k] = was[k]
  BY <1>2, LongerList
<1>8. IsList(new) /\ Len(new) = m + N /\ receipt.of = content /\ receipt.scans = m + N
  BY <1>0, <1>1
<1>9. (\A n \in 1..m : new[n] = old[n]) /\ \A n \in DOMAIN Sources(content) : new[m + n] = Scans(content)[n]
  BY <1>0, <1>1
<1>10. m = Before(base, K + 1)
  BY <1>0, <1>1 DEF Whole
<1>11. ASSUME NEW k \in 1..K
       PROVE  /\ Before(base, k) \in Nat
              /\ was[k].of \in ever /\ IsList(Sources(was[k].of))
              /\ was[k].scans = Before(base, k) + Len(Scans(was[k].of))
              /\ was[k].scans <= m
              /\ \A n \in DOMAIN Scans(was[k].of) : old[Before(base, k) + n] = Scans(was[k].of)[n]
  <2>1. k \in DOMAIN base.receipts /\ Whole(base, ever)
    BY <1>1, <1>3
  <2>2. /\ Before(base, k) \in Nat
        /\ base.receipts[k].of \in ever /\ IsList(Sources(base.receipts[k].of))
        /\ base.receipts[k].scans = Before(base, k) + Len(Scans(base.receipts[k].of))
        /\ base.receipts[k].scans <= Len(base.scans)
        /\ \A n \in DOMAIN Scans(base.receipts[k].of) :
             base.scans[Before(base, k) + n] = Scans(base.receipts[k].of)[n]
    BY <2>1, Zenon DEF Whole
  <2>3. m = Len(base.scans)
    BY <1>0
  <2> QED BY <1>1, <2>2, <2>3, Zenon
<1>12. \A k \in 1..K + 1 : Before(e, k) = Before(base, k)
  <2>1. \A k \in 1..K + 1 : k = 1 \/ (k # 1 /\ k - 1 \in 1..K)
    BY <1>3
  <2> QED BY <1>1, <1>3, <1>7, <2>1 DEF Before
<1>13. Before(e, K + 2) = m + N
  <2>1. K + 2 # 1 /\ (K + 2) - 1 = K + 1
    BY <1>3
  <2> QED BY <1>1, <1>6, <1>8, <2>1 DEF Before
<1>14. Len(e.scans) = Before(e, Len(now) + 1)
  <2>1. Len(now) + 1 = K + 2
    BY <1>3, <1>5
  <2> QED BY <1>1, <1>8, <1>13, <2>1
<1>15. DOMAIN Scans(content) = DOMAIN Sources(content) /\ Len(Scans(content)) = N
  BY <1>1, ScansAreAsMany
<1>16. ASSUME NEW k \in 1..K + 1
       PROVE  /\ Before(e, k) \in Nat
              /\ now[k].of \in ever /\ IsList(Sources(now[k].of))
              /\ now[k].scans = Before(e, k) + Len(Scans(now[k].of))
              /\ now[k].scans <= m + N
              /\ \A n \in DOMAIN Scans(now[k].of) : new[Before(e, k) + n] = Scans(now[k].of)[n]
  <2>1. CASE k = K + 1
    <3>1. K + 1 \in 1..K + 1
      BY <1>3
    <3>2. now[k] = receipt /\ Before(e, k) = m
      BY <1>6, <1>10, <1>12, <2>1, <3>1
    <3>3. m \in Nat /\ m + N \in Nat
      BY <1>0, <1>3
    <3>4. now[k].of = content /\ now[k].scans = m + N /\ m + N <= m + N
      BY <1>8, <3>2, <3>3
    <3>5. \A n \in DOMAIN Scans(content) : new[m + n] = Scans(content)[n]
      BY <1>9, <1>15, Zenon
    <3>6. content \in ever /\ IsList(Sources(content)) /\ m \in Nat /\ m + N = m + Len(Scans(content))
      BY <1>0, <1>15
    <3> QED BY <3>2, <3>4, <3>5, <3>6, Zenon
  <2>2. CASE k # K + 1
    <3>1. k \in 1..K
      BY <1>3, <2>2
    <3>2. now[k] = was[k] /\ Before(e, k) = Before(base, k)
      BY <1>3, <1>7, <1>12, <3>1
    <3>3. PICK c : c = was[k].of
      OBVIOUS
    <3>4. PICK from \in Nat : from = Before(base, k)
      BY <1>11, <3>1
    <3>5. /\ c \in ever /\ IsList(Sources(c))
          /\ was[k].scans = from + Len(Scans(c)) /\ was[k].scans <= m
          /\ \A n \in DOMAIN Scans(c) : old[from + n] = Scans(c)[n]
      BY <1>11, <3>1, <3>3, <3>4
    <3>6. PICK L \in Nat : L = Len(Scans(c)) /\ DOMAIN Scans(c) = 1..L
      BY <3>5, ScansAreAsMany, ListIs
    <3>7. was[k].scans <= m + N
      BY <1>0, <1>3, <3>5, <3>6
    <3>8. \A n \in DOMAIN Scans(c) : from + n \in 1..m
      <4>1. from + L <= m /\ m \in Nat
        BY <1>0, <3>5, <3>6
      <4> QED BY <3>6, <4>1
    <3>9. \A n \in DOMAIN Scans(c) : new[from + n] = Scans(c)[n]
      BY <1>9, <3>5, <3>8
    <3> QED BY <3>2, <3>3, <3>4, <3>5, <3>7, <3>9
  <2> QED BY <2>1, <2>2
<1>17. \A k \in DOMAIN e.receipts :
         /\ Before(e, k) \in Nat
         /\ e.receipts[k].of \in ever /\ IsList(Sources(e.receipts[k].of))
         /\ e.receipts[k].scans = Before(e, k) + Len(Scans(e.receipts[k].of))
         /\ e.receipts[k].scans <= Len(e.scans)
         /\ \A n \in DOMAIN Scans(e.receipts[k].of) :
              e.scans[Before(e, k) + n] = Scans(e.receipts[k].of)[n]
  <2>1. e.receipts = now /\ e.scans = new /\ Len(e.scans) = m + N /\ DOMAIN now = 1..K + 1
    BY <1>1, <1>5, <1>8
  <2> QED BY <1>16, <2>1, Zenon
<1> QED BY <1>1, <1>4, <1>8, <1>14, <1>17, Zenon DEF Whole

LEMMA ImportsInsertReceipt ==
  ASSUME TransferAssumption, TransferInv, ImportInv, NEW i \in Actors, InsertReceipt(i)
  PROVE  ImportInv'
<1>0. PICK content, at, d, m, receipt :
        /\ content = ops[i].copy /\ at = ops[i].todo /\ d = ops[i].draft
        /\ m = Len(live.scans) /\ receipt = [of |-> content, scans |-> Len(d.scans)]
  OBVIOUS
<1>1. At(i, {"import"}, "insert") /\ at.do = "scan" /\ at.scan > Len(Sources(content))
  BY <1>0 DEF InsertReceipt, ScansDone, Inserting
<1>2. PICK e :
        /\ e = [d EXCEPT !.receipts = Append(d.receipts, receipt)]
        /\ Inserted(i, e, Step("commit", at.scan, at.line))
  BY <1>0 DEF InsertReceipt
<1>3. /\ OfThisCase(d) /\ Drafted(content, at, d, live, were)
      /\ Len(Sources(content)) \in Nat
      /\ DOMAIN Sources(content) = 1..Len(Sources(content))
      /\ DOMAIN live.scans = 1..m /\ m \in Nat
  BY <1>0, <1>1, InsertFacts
<1>4. e.scans = d.scans /\ e.receipts = Append(d.receipts, receipt)
  <2>1. PICK x : x = Append(d.receipts, receipt)
    OBVIOUS
  <2>2. e = [d EXCEPT !.receipts = x]
    BY <1>2, <2>1
  <2> QED BY <1>3, <2>1, <2>2, DraftFields
<1>5. PICK s \in Nat \ {0}, N \in Nat : s = at.scan /\ N = Len(Sources(content)) /\ at.line \in Nat \ {0}
  BY <1>3 DEF Drafted
<1>6. /\ IsList(d.scans) /\ d.receipts = live.receipts
      /\ content \in were \cap Inputs /\ content.kind \in Importables
      /\ \A n \in DOMAIN live.scans : d.scans[n] = live.scans[n]
      /\ \A n \in DOMAIN Sources(content) : n < s => d.scans[m + n] = Scans(content)[n]
      /\ s <= N + 1 /\ Len(d.scans) = m + s - 1
  BY <1>0, <1>1, <1>3, <1>5 DEF Drafted
<1>7. s = N + 1 /\ Len(d.scans) = m + N
  <2>1. N = Len(Sources(content))
    BY <1>5, Zenon
  <2>2. s > N
    BY <1>1, <1>5, <2>1
  <2>3. s = N + 1
    BY <2>2, <1>6
  <2>4. Len(d.scans) = m + s - 1 /\ m \in Nat
    BY <1>3, <1>6
  <2> QED BY <2>3, <2>4
<1>8. \A n \in DOMAIN Sources(content) : d.scans[m + n] = Scans(content)[n]
  <2>1. \A n \in DOMAIN Sources(content) : n < s
    BY <1>3, <1>5, <1>7
  <2> QED BY <1>6, <2>1
<1>9. IsList(Sources(content))
  BY <1>6 DEF TransferAssumption, TransferInputs, Listed
<1>10. Whole(e, were)
  <2>1. Whole(live, were)
    BY DEF ImportInv
  <2>2. Len(e.scans) = Len(live.scans) + Len(Sources(content)) /\ IsList(e.scans)
    <3>1. Len(d.scans) = m + Len(Sources(content))
      BY <1>5, <1>7, Zenon
    <3> QED BY <1>0, <1>4, <1>6, <3>1
  <2>3. Len(live.scans) \in Nat /\ DOMAIN live.scans = 1..Len(live.scans) /\ content \in were
    BY <1>0, <1>3, <1>6
  <2>4. e.receipts = Append(live.receipts, [of |-> content, scans |-> Len(e.scans)])
    BY <1>0, <1>4, <1>6
  <2>5. \A n \in DOMAIN live.scans : e.scans[n] = live.scans[n]
    BY <1>4, <1>6
  <2>6. \A n \in DOMAIN Sources(content) : e.scans[Len(live.scans) + n] = Scans(content)[n]
    BY <1>0, <1>4, <1>8
  <2> QED BY <2>1, <2>2, <2>3, <2>4, <2>5, <2>6, <1>9, ReceiptWhole
<1>11. PICK next : next = Step("commit", at.scan, at.line) /\ next.do = "commit" /\ next.scan = at.scan /\ next.line = at.line
  BY StepFields
<1>12. Drafted(content, next, e, live, were)
  <2>1. next.scan \in Nat \ {0} /\ next.line \in Nat \ {0}
    BY <1>5, <1>11
  <2> QED BY <1>4, <1>6, <1>10, <1>11, <2>1 DEF Drafted
<1> QED BY <1>0, <1>1, <1>2, <1>11, <1>12, DraftGoesOn

LEMMA ImportsBeginImport ==
  ASSUME TransferAssumption, TransferInv, ImportInv, NEW i \in Actors, BeginImport(i)
  PROVE  ImportInv'
<1>1. PICK o, n, next :
        /\ o = ops[i] /\ o.op = "import" /\ o.at = "judge" /\ next = Step("scan", 1, 1)
        /\ n = [o EXCEPT !.at = "insert", !.todo = next, !.draft = live]
        /\ ops' = [ops EXCEPT ![i] = n] /\ Importable(o.copy, o.key)
        /\ UNCHANGED <<live, files, were>>
  <2>1. ops' = [ops EXCEPT ![i] = [ops[i] EXCEPT !.at = "insert", !.todo = Step("scan", 1, 1),
                                               !.draft = live]]
    BY DEF BeginImport, TransferInv
  <2> QED BY <2>1 DEF BeginImport, At
<1>2. Operation(o) /\ Imports(o, live, files, were)
  BY <1>1 DEF TransferInv, Held, ImportInv
<1>3. n.op = "import" /\ n.at = "insert" /\ n.copy = o.copy /\ n.todo = next /\ n.draft = live
  <2>1. n \in Fields(o, "insert", o.half, o.copy, next, live)
    BY <1>1, <1>2 DEF Operation, Fields
  <2> QED BY <1>1, <1>2, <2>1, OperationFields
<1>4. o.copy.kind \in Importables /\ o.copy \in were \cap Inputs
  <2>1. o.copy.kind \in Importables
    BY <1>1 DEF Importable, Importables
  <2> QED BY <1>1, <1>2, <2>1 DEF Imports, Seen
<1>5. IsList(Sources(o.copy)) /\ Len(Sources(o.copy)) \in Nat /\ DOMAIN Sources(o.copy) = 1..Len(Sources(o.copy))
  BY <1>4, ListIs DEF TransferAssumption, TransferInputs, Listed
<1>6. next.do = "scan" /\ next.scan = 1 /\ next.line = 1
  BY <1>1, StepFields
<1>7. IsList(live.scans) /\ Len(live.scans) \in Nat
  BY ListIs DEF ImportInv, Whole
<1>8. Drafted(o.copy, next, live, live, were)
  <2>1. \A k \in DOMAIN Sources(o.copy) : ~(k < next.scan)
    BY <1>5, <1>6
  <2>2. next.scan <= Len(Sources(o.copy)) + 1 /\ Len(live.scans) = Len(live.scans) + next.scan - 1
    BY <1>5, <1>6, <1>7
  <2>3. next.scan \in Nat \ {0} /\ next.line \in Nat \ {0} /\ next.do \in {"scan", "row", "commit"}
    BY <1>6
  <2> QED BY <1>4, <1>6, <1>7, <2>1, <2>2, <2>3 DEF Drafted
<1>9. Imports(n, live, files, were)
  BY <1>3, <1>8 DEF Imports, Follows
<1> QED BY <1>1, <1>9, ImportsStay

(* The case goes on: nobody else has begun a transaction.                   *)
LEMMA ImportsGoOn ==
  ASSUME TransferInv, ImportInv, NEW d, OfThisCase(d), Committed(d), Whole(d, were),
         UNCHANGED <<files, were>>, ops' = [j \in Actors |-> ops'[j]],
         \A j \in Actors : ops'[j] = Idle \/ (ops'[j] = ops[j] /\ ~At(j, {"import"}, "insert"))
  PROVE  ImportInv'
<1>1. Whole(live', were)
  <2>1. PICK r, l : live' = [d EXCEPT !.revision = r, !.log = l]
    BY DEF Committed
  <2>2. live'.scans = d.scans /\ live'.receipts = d.receipts
    BY <2>1 DEF OfThisCase
  <2> QED BY <2>2, OtherWhole
<1>2. ASSUME NEW j \in Actors PROVE Imports(ops'[j], live', files, were)
  <2>1. CASE ops'[j] = Idle
    BY <2>1, IdleFields DEF Imports, Follows
  <2>2. CASE ops'[j] = ops[j] /\ ~At(j, {"import"}, "insert")
    <3>1. Imports(ops[j], live, files, were)
      BY DEF ImportInv
    <3> QED BY <2>2, <3>1 DEF Imports, At
  <2> QED BY <2>1, <2>2
<1> QED BY <1>1, <1>2 DEF ImportInv

LEMMA ImportsSaveFilter ==
  ASSUME TransferAssumption, TransferInv, ImportInv, SaveFilter
  PROVE  ImportInv'
<1>1. PICK d, x : d = [live EXCEPT !.filters = x] /\ Committed(d)
  BY DEF SaveFilter
<1>2. OfThisCase(live)
  BY DEF TransferInv, History, Last
<1>3. OfThisCase(d)
  BY <1>1, <1>2 DEF OfThisCase
<1>4. Whole(d, were)
  <2>1. d.scans = live.scans /\ d.receipts = live.receipts
    BY <1>1, <1>2, DraftFields
  <2>2. Whole(live, were)
    BY DEF ImportInv
  <2> QED BY <2>1, <2>2, OtherWhole
<1>5. \A j \in Actors : ~At(j, {"import"}, "insert")
  BY DEF SaveFilter, TransferInv, InTransaction, TransferAssumption, TransferInputs
<1>6. UNCHANGED <<files, were, ops>> /\ ops = [j \in Actors |-> ops[j]]
  BY DEF SaveFilter, TransferInv
<1> QED BY <1>1, <1>3, <1>4, <1>5, <1>6, ImportsGoOn

LEMMA ImportsCommit ==
  ASSUME TransferAssumption, TransferInv, ImportInv, NEW i \in Actors, CommitImport(i)
  PROVE  ImportInv'
<1>1. PICK d : /\ d = ops[i].draft /\ At(i, {"import"}, "insert") /\ ops[i].todo.do = "commit"
               /\ Committed(d) /\ ops' = [ops EXCEPT ![i] = Idle] /\ UNCHANGED <<files, were>>
  BY DEF CommitImport, Inserting
<1>2. OfThisCase(d) /\ Drafted(ops[i].copy, ops[i].todo, d, live, were)
  BY <1>1, InsertFacts
<1>3. Whole(d, were)
  BY <1>1, <1>2 DEF Drafted
<1>4. holder = i
  BY <1>1 DEF TransferInv, InTransaction
<1>5. ops' = [j \in Actors |-> ops'[j]] /\ ops'[i] = Idle /\ \A j \in Actors \ {i} : ops'[j] = ops[j]
  BY <1>1 DEF TransferInv
<1>6. \A j \in Actors \ {i} : ~At(j, {"import"}, "insert")
  BY <1>4 DEF TransferInv, InTransaction
<1> QED BY <1>1, <1>2, <1>3, <1>5, <1>6, ImportsGoOn

LEMMA ImportsStep ==
  ASSUME TransferAssumption, TransferInv, ImportInv, NEW i \in Actors, TransferStep(i)
  PROVE  ImportInv'
<1>1. ASSUME NEW t \in FilePaths, NEW k \in Signers \cup {None}, Export(i, t, k)
      PROVE  ImportInv'
  BY <1>1, ImportsExport
<1>2. ASSUME NEW s \in FilePaths, NEW k \in Signers \cup {None}, VerifySnapshot(i, s, k)
      PROVE  ImportInv'
  BY <1>2, ImportsOpen DEF VerifySnapshot
<1>3. ASSUME NEW s \in FilePaths, NEW t \in FilePaths, NEW k \in Signers \cup {None}, OpenSnapshot(i, s, t, k)
      PROVE  ImportInv'
  BY <1>3, ImportsOpen DEF OpenSnapshot
<1>4. ASSUME NEW s \in FilePaths, NEW k \in Signers \cup {None}, Import(i, s, k)
      PROVE  ImportInv'
  BY <1>4, ImportsOpen DEF Import
<1>5. Describe(i) \/ Publish(i) \/ CopyInput(i) \/ Accept(i) \/ Abandon(i) => ImportInv'
  BY ImportsDescribe, ImportsPublish, ImportsCopy, ImportsAccept, ImportsFail
<1>6. BeginImport(i) \/ InsertScan(i) \/ InsertRow(i) \/ EndScan(i) => ImportInv'
  BY ImportsBeginImport, ImportsInsertScan, ImportsInsertRow, ImportsEndScan
<1>7. InsertFilter(i) \/ InsertReceipt(i) \/ CommitImport(i) => ImportInv'
  BY ImportsInsertFilter, ImportsInsertReceipt, ImportsCommit
<1> QED BY <1>1, <1>2, <1>3, <1>4, <1>5, <1>6, <1>7 DEF TransferStep

LEMMA ImportsNext ==
  ASSUME TransferAssumption, TransferInv, ImportInv, [TransferNext]_transferVars
  PROVE  ImportInv'
<1>1. CASE TransferNext
  BY <1>1, ImportsSaveFilter, ImportsRepack, ImportsPut, ImportsStep DEF TransferNext
<1>2. CASE UNCHANGED transferVars
  BY <1>2 DEF transferVars, ImportInv
<1> QED BY <1>1, <1>2

(* transport.rs:106, import.rs:173, docs/cases.md:85: the scans of the case *)
(* are those of its imports, each of them whole and of an input that was    *)
(* one file at one moment, although the input may be rewritten while it is  *)
(* read and an import may end anywhere.                                     *)
THEOREM ImportsAreWhole ==
  ASSUME TransferAssumption
  PROVE  TransferSpec => []ImportsWhole
<1>1. TransferInit => ImportInv
  BY ImportsBegin
<1>2. TransferInv /\ ImportInv /\ [TransferNext]_transferVars => ImportInv'
  BY ImportsNext
<1>3. ImportInv => ImportsWhole
  BY DEF ImportInv, Whole, ImportsWhole
<1> QED BY <1>1, <1>2, <1>3, TransferInductive, PTL DEF TransferSpec

(* What leaves the case and what comes into it is whole, of one moment, and *)
(* of the one who signed it.                                                *)
THEOREM TransferIsSound ==
  ASSUME TransferAssumption
  PROVE  TransferSpec => []TransferSound
<1>1. TransferTypeOK /\ SnapshotIsOneRevision /\ AcceptedIsExported /\ ImportsWhole => TransferSound
  BY DEF TransferSound
<1> QED BY <1>1, SnapshotsAreWhole, AcceptedWasExported, ImportsAreWhole, PTL
=============================================================================
