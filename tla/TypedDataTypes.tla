---------------------------- MODULE TypedDataTypes --------------------------
(***************************************************************************)
(* The constructor of TypedDataEncoder (hash/typed-data.ts): which types   *)
(* it accepts and which types go into the full type of each, on which the  *)
(* hash of a struct depends.  checkCircular is run call by call.  Fields   *)
(* of base types and their names are left out: a type is the set of the    *)
(* struct types of its fields.                                             *)
(***************************************************************************)
EXTENDS Integers, FiniteSets, Sequences, SequencesExt

CONSTANTS
  StructTypes     \* the names of the types

VARIABLES
  fieldTypes,     \* the types of the fields of each type
  verdict,        \* "none", "circular", "missing", "ambiguous" or "accepted"
  primaryType,    \* the primary type
  visiting,       \* the calls of checkCircular that run: the types, first the
                  \* primary one (the set `found' of the code)
  toVisit,        \* the children each of them has still to check
  subtypes        \* subtypes, as marked so far

typedVars == <<fieldTypes, verdict, primaryType, visiting, toVisit, subtypes>>

NoType == "no type"

TypedInit ==
  /\ fieldTypes \in [StructTypes -> SUBSET StructTypes]
  /\ verdict = "none"
  /\ primaryType = NoType
  /\ visiting = <<>>
  /\ toVisit = <<>>
  /\ subtypes = [t \in StructTypes |-> {}]

Conclude(what) ==
  /\ verdict' = what
  /\ UNCHANGED <<fieldTypes, primaryType, visiting, toVisit, subtypes>>

-----------------------------------------------------------------------------
Parents(t) == {u \in StructTypes : t \in fieldTypes[u]}
PrimaryTypes == {t \in StructTypes : Parents(t) = {}}
SelfReferring == {t \in StructTypes : t \in fieldTypes[t]}

\* The loop over the types and fields, and the choice of the primary type.
Link ==
  /\ verdict = "none" /\ primaryType = NoType
  /\ IF SelfReferring # {} THEN Conclude("circular")
     ELSE IF PrimaryTypes = {} THEN Conclude("missing")
     ELSE IF \E t, u \in PrimaryTypes : t # u THEN Conclude("ambiguous")
     ELSE /\ primaryType' = CHOOSE t \in StructTypes : t \in PrimaryTypes
          /\ visiting' = <<primaryType'>>
          /\ toVisit' = <<fieldTypes[primaryType']>>
          /\ UNCHANGED <<fieldTypes, verdict, subtypes>>

Calls == Len(visiting)

\* The next child: checkCircular(child, found).
VisitChild(child) ==
  /\ verdict = "none" /\ visiting # <<>>
  /\ child \in toVisit[Calls]
  /\ IF child \in Range(visiting) THEN Conclude("circular")
     ELSE /\ visiting' = Append(visiting, child)
          /\ toVisit' = Append([toVisit EXCEPT ![Calls] = @ \ {child}], fieldTypes[child])
          /\ UNCHANGED <<fieldTypes, verdict, primaryType, subtypes>>

\* Mutant: only the parent is marked.
ReturnMarkingParent ==
  /\ verdict = "none" /\ visiting # <<>>
  /\ toVisit[Calls] = {}
  /\ visiting' = Front(visiting)
  /\ toVisit' = Front(toVisit)
  /\ subtypes' = [t \in StructTypes |->
       IF Calls > 1 /\ t = visiting[Calls - 1] THEN subtypes[t] \cup {Last(visiting)} ELSE subtypes[t]]
  /\ verdict' = IF Calls = 1 THEN "accepted" ELSE verdict
  /\ UNCHANGED <<fieldTypes, primaryType>>

\* A call has no children left: it deletes its type from found and returns,
\* and its caller marks all ancestors.
Return ==
  /\ verdict = "none" /\ visiting # <<>>
  /\ toVisit[Calls] = {}
  /\ visiting' = Front(visiting)
  /\ toVisit' = Front(toVisit)
  /\ subtypes' = [t \in StructTypes |->
       IF t \in Range(Front(visiting)) THEN subtypes[t] \cup {Last(visiting)} ELSE subtypes[t]]
  /\ verdict' = IF Calls = 1 THEN "accepted" ELSE verdict
  /\ UNCHANGED <<fieldTypes, primaryType>>

TypedNext == Link \/ Return \/ \E child \in StructTypes : VisitChild(child)

TypedSpec == TypedInit /\ [][TypedNext]_typedVars

-----------------------------------------------------------------------------
\* The types that t names by its fields, their fields and so on: those in every
\* set that holds the types of t's fields and with each type those of its own.
Closed(S) == \A u \in S : fieldTypes[u] \subseteq S
Reach(t) == {u \in StructTypes : \A S \in SUBSET StructTypes : fieldTypes[t] \subseteq S /\ Closed(S) => u \in S}

(***************************************************************************)
(* Types are accepted only if the primary type does not reach a cycle, and *)
(* refused as circular only if there is one; and then the full type of     *)
(* each type that the primary one reaches names exactly the types that it  *)
(* reaches, over however many paths.                                       *)
(***************************************************************************)
FullTypesComplete ==
  LET used == {primaryType} \cup Reach(primaryType)
  IN  /\ verdict = "accepted" => \A t \in used : subtypes[t] = Reach(t) /\ t \notin Reach(t)
      /\ verdict = "circular" => \E t \in StructTypes : t \in Reach(t)
=============================================================================
