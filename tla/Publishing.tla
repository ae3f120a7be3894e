----------------------------- MODULE Publishing -----------------------------
(***************************************************************************)
(* The publish gate (src/arb/selling/taxonomy.py, aspects_repo.py, the     *)
(* commands `arb taxonomy load` and `check`): eBay's aspects of a category *)
(* are saved to a file, loaded into a cache of one copy per category, and  *)
(* a draft is checked against that copy before it is published.            *)
(*                                                                         *)
(* eBay changes its rules at any time, a saved file may be old, of another *)
(* category or without its list of aspects, and nothing re-checks the age  *)
(* of a copy.                                                              *)
(*                                                                         *)
(* Its specification is GateSpec, of names of its own, so that the proofs  *)
(* of the selling side can have it next to the register's.                 *)
(***************************************************************************)
EXTENDS Integers

CONSTANTS
  Editions,  \* for each category, the aspects eBay may have in force
  Drafts,    \* what the operator may want to list
  Length,    \* of each value, its number of characters
  Absent

\* An aspect has one of the two modes (AspectMode), and what a draft states has a length.
ASSUME PublishingAssumption ==
  /\ \A c \in DOMAIN Editions : \A aspects \in Editions[c] : \A a \in aspects :
       a.mode \in {"FREE_TEXT", "SELECTION_ONLY"} /\ a.maxLength \in Nat
  /\ \A d \in Drafts :
       \A value \in {d.size, d.brand} \cup {d.extra[name] : name \in DOMAIN d.extra} :
         Length[value] \in Nat

VARIABLES
  inForce,  \* for each category, eBay's aspects today
  files,    \* saved getItemAspectsForCategory payloads
  cached,   \* taxonomy_aspects: for each category a payload, or Absent
  listing   \* the draft in hand: its check and what eBay made of it

gateVars == <<inForce, files, cached, listing>>

Categories == DOMAIN Editions

\* An entry has a list of aspects or, malformed, none.
Payloads ==
  UNION {{[category |-> c, aspects |-> a] : a \in Editions[c] \cup {Absent}} : c \in Categories}

\* What such an entry parses to.
Parsed(category) == Editions[category] \cup {{}}

Verdicts == {"unchecked", "no_enums", "publishable", "refused"}

Listings == [category : Categories, draft : Drafts, verdict : Verdicts,
             judgedBy : (UNION {Parsed(c) : c \in Categories}) \cup {Absent},
             status : {"draft", "indexed", "held"}, stale : BOOLEAN]

-----------------------------------------------------------------------------
(* The cache.                                                              *)

\* parse_aspects: a payload that does not hold the category is no payload at all; an
\* entry of the category without a list has no aspects, which any draft satisfies.
AspectsOf(payload, category) ==
  IF payload = Absent \/ payload.category # category THEN Absent
  ELSE IF payload.aspects = Absent THEN {} ELSE payload.aspects

\* Mutant: what the payload holds is taken, whatever category it is of.
AnyAspects(category) == IF cached[category] = Absent THEN Absent ELSE cached[category].aspects

CachedAspects(category) == AspectsOf(cached[category], category)

-----------------------------------------------------------------------------
(* The check.                                                              *)

\* The named fields come last: an extra specific of that name is overwritten.
Chosen(draft) ==
  [name \in DOMAIN draft.extra \cup {"Size", "Brand"} |->
     CASE name = "Size" -> draft.size
       [] name = "Brand" -> draft.brand
       [] OTHER -> draft.extra[name]]

\* Mutant: a gating aspect that is not stated counts as unsatisfied.
AppliesStrictly(rule, chosen) ==
  \A scope \in rule.scopes : scope.gate \in DOMAIN chosen /\ chosen[scope.gate] \in scope.values

\* A gating aspect that is not stated counts as satisfied.
Applies(rule, chosen) ==
  \A scope \in rule.scopes :
    scope.gate \in DOMAIN chosen => chosen[scope.gate] \in scope.values

\* _check and _check_enum: what is wrong with one aspect, at most one kind.
ViolationsOf(aspect, chosen) ==
  LET value == chosen[aspect.name]
      matched == {rule \in aspect.rules : rule.value = value}
  IN  IF aspect.name \notin DOMAIN chosen
      THEN IF aspect.required THEN {"missing_required"} ELSE {}
      ELSE IF Length[value] > aspect.maxLength THEN {"too_long"}
      ELSE IF aspect.mode = "FREE_TEXT" THEN {}
      ELSE IF matched = {} THEN {"not_in_enum"}
      ELSE IF \A rule \in matched : ~Applies(rule, chosen) THEN {"not_applicable"}
      ELSE {}

\* validate_draft: every aspect is checked, and the condition has to be there.
Publishable(draft, aspects) ==
  /\ \A aspect \in aspects : ViolationsOf(aspect, Chosen(draft)) = {}
  /\ draft.condition

-----------------------------------------------------------------------------
(* eBay: what it indexes, stated from its own side.                        *)

Indexes(draft, aspects) ==
  LET sent == Chosen(draft)
      fits(rule) == \A s \in rule.scopes : \A name \in DOMAIN sent \cap {s.gate} :
                      sent[name] \in s.values
  IN  /\ draft.condition
      /\ {a.name : a \in {b \in aspects : b.required}} \subseteq DOMAIN sent
      /\ \A a \in aspects : a.name \in DOMAIN sent =>
           /\ Length[sent[a.name]] <= a.maxLength
           /\ a.mode = "SELECTION_ONLY"
                => sent[a.name] \in {rule.value : rule \in {r \in a.rules : fits(r)}}

-----------------------------------------------------------------------------
(* Actions.                                                                *)

GateInit ==
  /\ inForce \in [Categories -> UNION {Editions[c] : c \in Categories}]
  /\ \A c \in Categories : inForce[c] \in Editions[c]
  /\ files = {}
  /\ cached = [c \in Categories |-> Absent]
  /\ listing = Absent

\* External: eBay publishes other rules for a category.
RulesChange ==
  /\ \E c \in Categories : \E aspects \in Editions[c] \ {inForce[c]} :
       inForce' = [inForce EXCEPT ![c] = aspects]
  /\ UNCHANGED <<files, cached, listing>>

\* External: a response is saved, with the rules of the day or malformed.
Save ==
  /\ \E c \in Categories : \E aspects \in {inForce[c], Absent} :
       files' = files \cup {[category |-> c, aspects |-> aspects]}
  /\ UNCHANGED <<inForce, cached, listing>>

\* `arb taxonomy load`: stored under the category named, read back afterwards; a
\* payload of another category is stored too, and only the exit code says so.
Load ==
  /\ \E c \in Categories, payload \in files : cached' = [cached EXCEPT ![c] = payload]
  /\ UNCHANGED <<inForce, files, listing>>

\* The operator takes up a draft.
Take ==
  /\ \E c \in Categories, d \in Drafts :
       listing' = [category |-> c, draft |-> d, verdict |-> "unchecked", judgedBy |-> Absent,
                   status |-> "draft", stale |-> FALSE]
  /\ UNCHANGED <<inForce, files, cached>>

\* `arb taxonomy check`.
Check ==
  /\ listing # Absent /\ listing.status = "draft"
  /\ LET aspects == CachedAspects(listing.category)
         verdict == IF aspects = Absent THEN "no_enums"
                    ELSE IF Publishable(listing.draft, aspects) THEN "publishable" ELSE "refused"
     IN  listing' = [listing EXCEPT !.verdict = verdict, !.judgedBy = aspects]
  /\ UNCHANGED <<inForce, files, cached>>

\* External: the operator publishes what was found publishable; eBay indexes it or not.
Submit ==
  /\ listing # Absent /\ listing.status = "draft" /\ listing.verdict = "publishable"
  /\ LET rules == inForce[listing.category]
     IN  listing' = [listing EXCEPT
           !.status = IF Indexes(listing.draft, rules) THEN "indexed" ELSE "held",
           !.stale = listing.judgedBy \in Editions[listing.category] \ {rules}]
  /\ UNCHANGED <<inForce, files, cached>>

GateNext == RulesChange \/ Save \/ Load \/ Take \/ Check \/ Submit

GateSpec == GateInit /\ [][GateNext]_gateVars

-----------------------------------------------------------------------------
(* Type invariant and properties.                                          *)

\* Every variable holds what the code can put there.
GateTypeOK ==
  /\ \A c \in Categories : inForce[c] \in Editions[c]
  /\ files \subseteq Payloads
  /\ \A c \in Categories : cached[c] \in Payloads \cup {Absent}
  /\ listing \in Listings \cup {Absent}

\* A listing that was checked and published is held, or live without being indexed,
\* only where it was checked by another edition of its own category's rules than the
\* one in force, or by a response that came without its list of aspects, which opens
\* the gate: no other category's file, no missing copy, no constraint does.
HeldOnlyWhenStale ==
  listing # Absent /\ listing.status = "held" => listing.stale \/ listing.judgedBy = {}

\* The gate is no stricter than eBay: what it refuses, eBay would not have indexed
\* under the rules the gate had.
RefusedOnlyForCause ==
  listing # Absent /\ listing.verdict = "refused" => ~Indexes(listing.draft, listing.judgedBy)
=============================================================================
