-------------------------- MODULE EvidenceStore_proofs --------------------------
(***************************************************************************)
(* Lemmas about EvidenceStore, for the proofs about the modules that leave *)
(* evidence: an item gets a number no other has had, and an item that is   *)
(* listed stays so, whether or not the writes succeed or are cut short.    *)
(***************************************************************************)
EXTENDS EvidenceStore, TLAPS

LEMMA EvidenceInitType == EvidenceInit => EvidenceTypeOK
<1> SUFFICES ASSUME EvidenceInit PROVE EvidenceTypeOK
  OBVIOUS
<1>1. counter = 0 /\ items = {} /\ indexed = {} /\ failures = 0
  BY DEF EvidenceInit
<1>2. indexCut \in BOOLEAN
  BY DEF EvidenceInit
<1> QED  BY <1>1, <1>2 DEF EvidenceTypeOK

LEMMA AddedType ==
    ASSUME EvidenceTypeOK, NEW kind, NEW of, Added(kind, of)
    PROVE  EvidenceTypeOK' /\ counter' \in Nat /\ counter' # 0
<1>1. counter \in Nat /\ counter' = counter + 1 /\ failures' \in Nat
  BY DEF EvidenceTypeOK, Added, WriteIndex, Fails
<1>2. Item(kind, of).id = counter + 1
  BY DEF Item
<1>3. \A i \in items' : i.id \in 1 .. counter'
  BY <1>1, <1>2 DEF EvidenceTypeOK, Added
<1>4. indexed' = {i.id : i \in items'} \/ indexed' = {}
  BY DEF Added, WriteIndex
<1>5. indexed' \subseteq Nat
  BY <1>1, <1>3, <1>4
<1>6. indexCut' \in BOOLEAN
  BY DEF Added, WriteIndex
<1> QED  BY <1>1, <1>3, <1>5, <1>6 DEF EvidenceTypeOK

LEMMA AddThrewType ==
    ASSUME EvidenceTypeOK, NEW kind, NEW of, AddThrew(kind, of)
    PROVE  EvidenceTypeOK' /\ counter' \in Nat
<1>1. counter \in Nat /\ counter' = counter + 1 /\ failures \in Nat /\ failures' = failures + 1
  BY DEF EvidenceTypeOK, AddThrew, Fails
<1>2. Item(kind, of).id = counter + 1
  BY DEF Item
<1>3. \A i \in items' : i.id \in 1 .. counter'
  BY <1>1, <1>2 DEF EvidenceTypeOK, AddThrew
<1> QED  BY <1>1, <1>3 DEF EvidenceTypeOK, AddThrew

\* No item is lost, and all are listed, the new one among them, unless the index
\* has just been cut short: it is written anew with all of the list.
LEMMA AddedKeeps ==
    ASSUME NEW kind, NEW of, Added(kind, of)
    PROVE  /\ Listed \subseteq Listed'
           /\ \E i \in Listed' : i.id = counter' /\ i.kind = kind /\ i.of = of
<1>1. items' = items \cup {Item(kind, of)}
      /\ (indexed' = {i.id : i \in items'} \/ indexCut' = TRUE)
  BY DEF Added, WriteIndex
<1>2. Item(kind, of).id = counter' /\ Item(kind, of).kind = kind /\ Item(kind, of).of = of
  BY DEF Added, Item
<1>3. \A i \in items' : indexCut' \/ i.id \in indexed'
  BY <1>1
<1>4. Listed' = items'
  BY <1>3 DEF Listed
<1>5. Listed \subseteq items
  BY DEF Listed
<1> QED  BY <1>1, <1>2, <1>4, <1>5

LEMMA AddThrewKeeps ==
    ASSUME NEW kind, NEW of, AddThrew(kind, of)
    PROVE  Listed \subseteq Listed'
BY DEF AddThrew, Listed

===============================================================================
