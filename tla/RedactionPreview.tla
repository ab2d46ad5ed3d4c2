-------------------------- MODULE RedactionPreview --------------------------
(***************************************************************************)
(* The preview of a redaction (analysis/redaction.rs): rules select        *)
(* observations and keys of claims, the selection is carried along the     *)
(* links between claims and observations until nothing is added, and the   *)
(* derivative is built from what is left.                                  *)
(*                                                                         *)
(* An observation has a namespace, may be private by its name, and has a   *)
(* payload of bytes, text with its encoded bytes, or neither.  A key is a  *)
(* sequence of segments.  An action is "remove" or a mask.                 *)
(***************************************************************************)
EXTENDS ListParts, FiniteSets

CONSTANTS
  Originals,   \* records as they are stored
  Requests     \* profiles, with the budget of comparisons and an alias or not

VARIABLES
  record, profile,   \* what preview was called with
  stage,             \* "rules", "links", "derive", "done", or why it was refused
  at,                \* the rule, or the claim, that is looked at next
  observations,      \* the actions for observations, by identifier
  keys,              \* the actions for claims, by key
  changed,           \* this pass along the claims added something
  comparisons,              \* comparisons so far
  preview            \* what is returned

vars == <<record, profile, stage, at, observations, keys, changed, comparisons, preview>>

Nothing == [none |-> TRUE]
Ids(items) == {items[i].id : i \in DOMAIN items}
Linked(claim) == claim.support \cup claim.contra

RedactionInit ==
  /\ record \in Originals /\ profile \in Requests
  /\ stage = "rules" /\ at = 1 /\ observations = << >> /\ keys = << >>
  /\ changed = FALSE /\ comparisons = 0 /\ preview = Nothing

Refuse(why) == stage' = why /\ UNCHANGED <<record, profile, at, observations, keys, changed, comparisons, preview>>

(* A path is not hidden behind nothing. *)
NoAlias ==
  stage = "rules" /\ at = 1 /\ profile.hide /\ ~profile.alias /\ Refuse("alias")

-----------------------------------------------------------------------------
(* Selection *)

SelectedClaim(selector, claim) ==
  \/ selector.kind = "all"
  \/ selector.kind = "claim" /\ IsPrefix(selector.prefix, claim.key)
  \/ selector.kind = "privacy" /\ claim.private

SelectedObservation(selector, observation) ==
  \/ selector.kind = "all"
  \/ selector.kind = "raw" /\ selector.space = observation.space
  \/ selector.kind = "privacy" /\ observation.private

(* merge refuses a second action that differs from the first. *)
Clash(actions, chosen, action) ==
  \E x \in chosen \cap DOMAIN actions : actions[x] # action
Merge(actions, chosen, action) ==
  [x \in DOMAIN actions \cup chosen |-> IF x \in DOMAIN actions THEN actions[x] ELSE action]

(* Which of two refusals comes first is a matter of the order of the items. *)
ApplyRule ==
  /\ stage = "rules" /\ at <= Len(profile.rules) /\ ~(profile.hide /\ ~profile.alias)
  /\ LET rule == profile.rules[at]
         os == {o.id : o \in {x \in ToSet(record.observations) : SelectedObservation(rule.selector, x)}}
         ks == {c.key : c \in {x \in ToSet(record.claims) : SelectedClaim(rule.selector, x)}}
         n == comparisons + Len(record.observations) + Len(record.claims)
     IN  \/ n > profile.budget /\ Refuse("budget")
         \/ /\ Clash(observations, os, rule.action) \/ Clash(keys, ks, rule.action)
            /\ Refuse("incompatible")
         \/ /\ n <= profile.budget
            /\ ~Clash(observations, os, rule.action) /\ ~Clash(keys, ks, rule.action)
            /\ observations' = Merge(observations, os, rule.action)
            /\ keys' = Merge(keys, ks, rule.action)
            /\ comparisons' = n /\ at' = at + 1
            /\ UNCHANGED <<record, profile, stage, changed, preview>>

RulesEnd ==
  /\ stage = "rules" /\ at > Len(profile.rules) /\ ~(profile.hide /\ ~profile.alias)
  /\ stage' = "links" /\ at' = 1
  /\ UNCHANGED <<record, profile, observations, keys, changed, comparisons, preview>>

-----------------------------------------------------------------------------
(* The links of one claim: what it rests on, and what contradicts it. *)

FollowClaim ==
  /\ stage = "links" /\ at <= Len(record.claims)
  /\ LET claim == record.claims[at]
         linked == Linked(claim)
         said == {observations[i] : i \in linked \cap DOMAIN observations}
         actions == IF claim.key \in DOMAIN keys THEN {keys[claim.key]} ELSE said
     IN  \/ comparisons + 1 > profile.budget /\ Refuse("budget")
         \/ /\ comparisons + 1 <= profile.budget
            /\ Cardinality(said) > 1 \/ \E a \in actions : Clash(observations, linked, a)
            /\ Refuse("incompatible")
         \/ /\ comparisons + 1 <= profile.budget
            /\ Cardinality(said) <= 1 /\ \A a \in actions : ~Clash(observations, linked, a)
            /\ observations' = IF actions = {} THEN observations
                               ELSE Merge(observations, linked, CHOOSE a \in actions : TRUE)
            /\ keys' = IF actions = {} THEN keys
                       ELSE Merge(keys, {claim.key}, CHOOSE a \in actions : TRUE)
            /\ changed' = (changed \/ observations' # observations \/ keys' # keys)
            /\ comparisons' = comparisons + 1 /\ at' = at + 1
            /\ UNCHANGED <<record, profile, stage, preview>>

(* Broken variant of PassEnds: the claims are passed along once. *)
PassEndsOnce ==
  /\ stage = "links" /\ at > Len(record.claims) /\ stage' = "derive" /\ at' = 1 /\ changed' = FALSE
  /\ UNCHANGED <<record, profile, observations, keys, comparisons, preview>>
(* Another pass while the last one added something. *)
PassEnds ==
  /\ stage = "links" /\ at > Len(record.claims)
  /\ stage' = IF changed THEN "links" ELSE "derive"
  /\ at' = 1 /\ changed' = FALSE
  /\ UNCHANGED <<record, profile, observations, keys, comparisons, preview>>

-----------------------------------------------------------------------------
(* The derivative *)

Stripped(payload) == CASE payload = "bytes" -> "null" [] payload = "encoded" -> "text"
                       [] OTHER -> payload

(* What becomes of an observation that is not removed. *)
Shown(o) ==
  LET masked == IF o.id \in DOMAIN observations
                  THEN [o EXCEPT !.payload = observations[o.id]] ELSE o
      strip == IF profile.strip THEN [masked EXCEPT !.payload = Stripped(@)] ELSE masked
  IN  [strip EXCEPT !.source = IF profile.hide THEN "alias" ELSE @]

Removed(o) == o.id \in DOMAIN observations /\ observations[o.id] = "remove"

KeptObservations ==
  Kept(record.observations, {i \in DOMAIN record.observations : ~Removed(record.observations[i])})
KeptClaims ==
  Kept(record.claims, {i \in DOMAIN record.claims : record.claims[i].key \notin DOMAIN keys})

Alternatives ==
  LET cut == [i \in DOMAIN record.conflicts |-> record.conflicts[i] \cap Ids(KeptClaims)]
  IN  Kept(cut, {i \in DOMAIN cut : Cardinality(cut[i]) > 1})

Derived ==
  [source |-> IF profile.hide THEN "alias" ELSE record.source,
   observations |-> [i \in DOMAIN KeptObservations |-> Shown(KeptObservations[i])],
   claims |-> KeptClaims,
   conflicts |-> IF profile.omit THEN << >> ELSE Alternatives,
   diagnostics |-> IF profile.omit THEN << >>
                   ELSE [i \in DOMAIN record.diagnostics |-> record.diagnostics[i] \cap Ids(KeptObservations)]]

StrippedIds ==
  {o.id : o \in {x \in ToSet(KeptObservations) :
                   profile.strip /\ x.payload \in {"bytes", "encoded"} /\ x.id \notin DOMAIN observations}}

Changes == Ids(record.observations) \cap DOMAIN observations

(* check_record, as far as it concerns links. *)
WellLinked(r) ==
  /\ \A o \in ToSet(r.observations) : o.source = r.source
  /\ \A c \in ToSet(r.claims) : Linked(c) \subseteq Ids(r.observations)

Previewed ==
  [record |-> Derived, changes |-> Changes,
   removed_claims |-> Ids(record.claims) \ Ids(KeptClaims),
   unselected |-> Len(record.observations) - Cardinality(Changes \cup StrippedIds)]

Derive ==
  /\ stage = "derive"
  /\ preview' = Previewed
  /\ stage' = IF WellLinked(Derived) THEN "done" ELSE "dangling"
  /\ UNCHANGED <<record, profile, at, observations, keys, changed, comparisons>>

RedactionNext == NoAlias \/ ApplyRule \/ RulesEnd \/ FollowClaim \/ PassEnds \/ Derive
RedactionSpec == RedactionInit /\ [][RedactionNext]_vars

(* What preview is called with: a record that check_record accepted, and    *)
(* masks that are not what is there already: a mask is text with no bytes   *)
(* that are encoded, and a parser of its own, so that only an observation   *)
(* that was masked before could have it for its payload.                    *)
Accepted(r) ==
  /\ IsList(r.observations) /\ IsList(r.claims) /\ IsList(r.conflicts) /\ IsList(r.diagnostics)
  /\ \A o \in ToSet(r.observations) :
       o = [id |-> o.id, space |-> o.space, private |-> o.private, payload |-> o.payload,
            source |-> o.source]
  /\ \A i, j \in DOMAIN r.observations : r.observations[i].id = r.observations[j].id => i = j
  /\ WellLinked(r)

RedactionAssumption ==
  /\ \A r \in Originals : Accepted(r)
  /\ \A p \in Requests :
       /\ IsList(p.rules) /\ p.strip \in BOOLEAN /\ p.hide \in BOOLEAN
       /\ \A rule \in ToSet(p.rules) :
            /\ rule.action \notin {"bytes", "encoded"}
            /\ \A r \in Originals : \A o \in ToSet(r.observations) : rule.action # o.payload

-----------------------------------------------------------------------------
(* The reference: what is linked to the selection, as the least closed set. *)

Parts == ({"o"} \X Ids(record.observations)) \cup ({"k"} \X {c.key : c \in ToSet(record.claims)})
ClaimParts(c) == ({"o"} \X Linked(c)) \cup {<<"k", c.key>>}
Closed(set) == \A c \in ToSet(record.claims) : ClaimParts(c) \cap set # {} => ClaimParts(c) \subseteq set
Closure(set) == {x \in Parts : \A t \in SUBSET Parts : set \subseteq t /\ Closed(t) => x \in t}

Chosen(action) ==
  UNION {({"o"} \X {o.id : o \in {x \in ToSet(record.observations) : SelectedObservation(r.selector, x)}})
           \cup ({"k"} \X {c.key : c \in {x \in ToSet(record.claims) : SelectedClaim(r.selector, x)}})
         : r \in {x \in ToSet(profile.rules) : x.action = action}}
Actions == {r.action : r \in ToSet(profile.rules)}

(* The profile takes away what it selects and everything linked to it      *)
(* through claims, of whatever length the chain, and nothing else: the     *)
(* claims left are those of no such key, and the observations left are as  *)
(* they were, but for payloads the profile strips.                         *)
RedactsWhatIsLinked ==
  stage = "done" =>
    LET gone == UNION {Closure(Chosen(a)) : a \in Actions}
        left == preview.record
    IN  /\ ToSet(left.claims) = {c \in ToSet(record.claims) : <<"k", c.key>> \notin gone}
        /\ \A o \in ToSet(record.observations) :
             LET now == {x \in ToSet(left.observations) : x.id = o.id}
             IN  IF <<"o", o.id>> \in gone
                   THEN \A x \in now : x.payload \in Actions
                   ELSE \E x \in now : x.payload \in {o.payload, Stripped(o.payload)}

(* A profile whose rules want two different things of linked metadata is   *)
(* refused, in whatever order they come, and no other is, but for want of  *)
(* a budget or an alias.                                                   *)
MixedIsRefused ==
  /\ stage = "incompatible" => \E a, b \in Actions : a # b /\ Closure(Chosen(a)) \cap Closure(Chosen(b)) # {}
  /\ stage = "done" => \A a, b \in Actions : a # b => Closure(Chosen(a)) \cap Closure(Chosen(b)) = {}

(* A derivative never fails the check that is made last: no claim rests on *)
(* an observation that is gone, no conflict has less than two claims, and  *)
(* what is left to review is counted truly.                                *)
DerivativeHolds ==
  /\ stage # "dangling"
  /\ stage = "done" =>
       /\ \A c \in ToSet(preview.record.conflicts) :
            Cardinality(c) > 1 /\ c \subseteq Ids(preview.record.claims)
       /\ \A d \in ToSet(preview.record.diagnostics) : d \subseteq Ids(preview.record.observations)
       /\ preview.unselected =
            Cardinality({o \in ToSet(record.observations) :
                           \E x \in ToSet(preview.record.observations) :
                             x.id = o.id /\ x.payload = o.payload})

(* A redaction takes away what is linked to its selection, or is refused,   *)
(* and leaves a record that holds together.                                 *)
RedactionSound == RedactsWhatIsLinked /\ MixedIsRefused /\ DerivativeHolds
=============================================================================
