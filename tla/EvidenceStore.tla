----------------------------- MODULE EvidenceStore -----------------------------
(***************************************************************************)
(* The evidence of one session (src/src/evidence/evidence_store.cpp): the  *)
(* numbering of items, the list in memory and the index written after each *)
(* of them.  The modules whose actions leave evidence extend this one.     *)
(*                                                                         *)
(* An item is its number, its kind and what it is about; files and texts   *)
(* are left out.  add() and add_text() differ only in the text they keep   *)
(* and are one operator here.                                              *)
(***************************************************************************)
EXTENDS Integers, Sequences, FiniteSets

CONSTANT MaxFailures   \* bound: writes that fail, noticed or not

ASSUME MaxFailuresAssumption == MaxFailures \in Nat

VARIABLES
    counter,    \* counter_: the number given out last
    items,      \* evidence_, the list in memory
    indexed,    \* the numbers evidence/index.json lists
    indexCut,   \* the last write of the index was cut short: it lists nothing
    failures    \* writes that have failed

evidenceVars == <<counter, items, indexed, indexCut, failures>>

EvidenceTypeOK ==
    /\ counter \in Nat /\ failures \in Nat
    /\ indexed \subseteq Nat /\ indexCut \in BOOLEAN
    /\ \A i \in items : i.id \in 1 .. counter

EvidenceInit == counter = 0 /\ items = {} /\ indexed = {} /\ indexCut = FALSE /\ failures = 0

Item(kind, of) == [id |-> counter + 1, kind |-> kind, of |-> of]

Fails == failures < MaxFailures /\ failures' = failures + 1

\* Mutant: the new entry is all that is written.
WriteNewEntry ==
    \/ indexed' = {counter'} /\ indexCut' = FALSE /\ UNCHANGED failures
    \/ indexed' = {} /\ indexCut' = TRUE /\ Fails

\* write_index(): all of the list, each time.  write_text_file() looks at nothing
\* after the open, so the file may be left empty or cut short without an error.
WriteIndex ==
    \/ indexed' = {i.id : i \in items'} /\ indexCut' = FALSE /\ UNCHANGED failures
    \/ indexed' = {} /\ indexCut' = TRUE /\ Fails

\* The three files of the item and the index are written.
Added(kind, of) ==
    /\ counter' = counter + 1
    /\ items' = items \cup {Item(kind, of)}
    /\ WriteIndex

\* Mutant: the number is given back.
AddThrewGivingBack(kind, of) ==
    /\ Fails
    /\ items' \in {items, items \cup {Item(kind, of)}}
    /\ UNCHANGED <<counter, indexed, indexCut>>

\* One of them cannot be opened: the number is used up.  The item is in the
\* list if only the index failed, and the next index will have it.
AddThrew(kind, of) ==
    /\ Fails
    /\ counter' = counter + 1
    /\ items' \in {items, items \cup {Item(kind, of)}}
    /\ UNCHANGED <<indexed, indexCut>>

\* The constructor of a later session with the same assets.
Reopened ==
    /\ counter' = 0 /\ items' = {} /\ indexed' = {} /\ indexCut' = FALSE
    /\ UNCHANGED failures

-------------------------------------------------------------------------------

\* The items the index lists.  Nothing can be asked of an index that was cut short
\* when it was written last; the next one written to its end lists all items.
Listed == {i \in items : indexCut \/ i.id \in indexed}

\* There is one of the kind, about `of`.
HasItem(kind, of) == \E i \in Listed : i.kind = kind /\ i.of = of

\* Item n is there, listed in the index, of one of the kinds and about `of`.
Documented(n, kinds, of) ==
    \E i \in Listed : i.id = n /\ i.kind \in kinds /\ i.of = of

===============================================================================
