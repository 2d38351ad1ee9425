-------------------------- MODULE BridgeConfig_proof --------------------------
(***************************************************************************)
(* That FindObject finds what is current and that ToFile writes a document *)
(* back to its own file, for any Ids, files and numbers of elements.       *)
(***************************************************************************)
EXTENDS BridgeConfig, TLAPS

\* A document is from the file that m_fileName names.
OriginInv == m_doc # Null => origin = m_fileName

\* An element that is the only one of its Id says what that Id was last given,
\* and the Id was not removed. Of Ids with two elements nothing is known, and
\* they never have one again: nothing removes either.
ElementInv ==
  \A id \in Id : \A n \in SelectSingleNode(id) :
    id \notin removed /\ m_doc[n].visible \in given[id]

Inv == TypeOK /\ OriginInv /\ ElementInv

USE DEF vars, historyVars

\* The initial contents of files are documents.
LEMMA DisksAreDocuments ==
  Edited \cup {NoDevices} \subseteq Document
<1>1. NoObject \in Element \cup {NoObject}
  OBVIOUS
<1>2. ASSUME NEW id \in Id PROVE Object(id, "none") \in Element
  BY DEF Object, Element, Visibility
<1>3. NoDevices \in Document
  BY <1>1 DEF NoDevices, Document
<1>. QED BY <1>2, <1>3 DEF Edited, Document

\* What a document says of Ids are visibilities.
LEMMA SaysVisibilities ==
  ASSUME NEW doc PROVE Says(doc) \in [Id -> SUBSET Visibility]
<1>1. ASSUME NEW e \in Element \cup {NoObject} PROVE e.visible \in Visibility
  BY DEF Element, NoObject, Object, Visibility
<1>2. ASSUME doc \in Document, NEW n \in Node PROVE doc[n].visible \in Visibility
  BY <1>1, <1>2 DEF Document
<1>. QED BY <1>2 DEF Says

\* Callers add elements.
LEMMA AddedAreElements ==
  ASSUME TypeOK PROVE Added \subseteq Element
<1>1. [id : Id, visible : {"true", "false"}] \subseteq Element
  BY DEF Element, Visibility
<1>2. ASSUME NEW v \in {"true", "false"}, obj.id # None
      PROVE  Object(obj.id, v) \in Element
  BY <1>2 DEF TypeOK, Object, Element, Visibility
<1>. QED BY <1>1, <1>2 DEF Added

-----------------------------------------------------------------------------
LEMMA InitInv == Init => Inv
<1>. SUFFICES ASSUME Init PROVE Inv
  OBVIOUS
<1>1. disk \in [File -> Document \cup {Bare, NotXml}]
  BY DisksAreDocuments DEF Init
<1>2. TypeOK
  BY <1>1 DEF Init, TypeOK, NoObject, Object, Visibility
<1>3. ElementInv
  BY DocumentAssumption DEF Init, ElementInv, SelectSingleNode, Matching
<1>. QED BY <1>2, <1>3 DEF Inv, OriginInv, Init

LEMMA NextType == TypeOK /\ [Next]_vars => TypeOK'
<1>. SUFFICES ASSUME TypeOK, [Next]_vars PROVE TypeOK'
  OBVIOUS
<1>1. ASSUME NEW f \in File, FromFile(f) PROVE TypeOK'
  <2>1. Says(disk[f]) \in [Id -> SUBSET Visibility]
    BY SaysVisibilities
  <2>2. m_doc' \in Document \cup {Bare, Null} /\ origin' \in File \cup {None}
    BY <1>1 DEF FromFile, TypeOK
  <2>. QED BY <1>1, <2>1, <2>2 DEF FromFile, TypeOK
<1>2. ASSUME NEW name \in File \cup {None}, ToFile(name) PROVE TypeOK'
  <2>1. disk' \in [File -> Document \cup {Bare, NotXml}]
    <3>. DEFINE f == IF name = None THEN m_fileName ELSE name
    <3>1. CASE UNCHANGED disk
      BY <3>1 DEF TypeOK
    <3>2. ASSUME m_doc # Null, NEW content \in {m_doc, NotXml, disk[f]},
                 disk' = [disk EXCEPT ![f] = content]
          PROVE  disk' \in [File -> Document \cup {Bare, NotXml}]
      <4>1. f \in File => content \in Document \cup {Bare, NotXml}
        BY <3>2 DEF TypeOK
      <4>. QED BY <3>2, <4>1 DEF TypeOK
    <3>. QED BY <1>2, <3>1, <3>2 DEF ToFile
  <2>. QED BY <1>2, <2>1 DEF ToFile, TypeOK
<1>3. ASSUME Restart PROVE TypeOK'
  BY <1>3 DEF Restart, TypeOK, NoObject, Object, Visibility
<1>4. ASSUME NEW o \in Added, AddObject(o) PROVE TypeOK'
  <2>1. o \in Element /\ o.visible \in Visibility
    BY AddedAreElements DEF Element
  <2>2. m_doc' \in Document \cup {Bare, Null}
    BY <1>4, <2>1 DEF AddObject, TypeOK, Document
  <2>3. given' \in [Id -> SUBSET Visibility] /\ removed' \subseteq Id
    BY <1>4, <2>1 DEF AddObject, TypeOK
  <2>. QED BY <1>4, <2>2, <2>3 DEF AddObject, TypeOK
<1>5. ASSUME NEW id \in Id, RemoveObject(id) PROVE TypeOK'
  <2>1. m_doc' \in Document \cup {Bare, Null}
    <3>1. CASE UNCHANGED m_doc
      BY <3>1 DEF TypeOK
    <3>2. ASSUME NEW n \in SelectSingleNode(id), m_doc' = [m_doc EXCEPT ![n] = NoObject]
          PROVE  m_doc' \in Document
      <4>1. m_doc \in Document
        BY <3>2 DEF SelectSingleNode, Matching
      <4>. QED BY <3>2, <4>1 DEF Document
    <3>. QED BY <1>5, <3>1, <3>2 DEF RemoveObject
  <2>. QED BY <1>5, <2>1 DEF RemoveObject, TypeOK
<1>6. ASSUME NEW id \in Id, FindObject(id) PROVE TypeOK'
  <2>1. obj' \in [id : PathId \cup {None}, visible : Visibility]
    <3>1. CASE UNCHANGED obj
      BY <3>1 DEF TypeOK
    <3>2. ASSUME NEW n \in SelectSingleNode(id),
                 obj' = Object(MakePathId(id), IF m_doc[n].visible = "none"
                                 THEN obj.visible ELSE m_doc[n].visible)
          PROVE  obj' \in [id : PathId \cup {None}, visible : Visibility]
      <4>1. m_doc \in Document /\ n \in Node
        BY <3>2 DEF SelectSingleNode, Matching
      <4>2. m_doc[n] \in Element \cup {NoObject}
        BY <4>1 DEF Document
      <4>3. m_doc[n].visible \in Visibility /\ obj.visible \in Visibility
        BY <4>2 DEF Element, NoObject, Object, TypeOK, Visibility
      <4>4. MakePathId(id) \in PathId
        BY DEF PathId
      <4>. QED BY <3>2, <4>3, <4>4 DEF Object
    <3>. QED BY <1>6, <3>1, <3>2 DEF FindObject
  <2>2. st' \in {"ER_OK", "ER_FAIL", "ER_BUS_OBJ_NOT_FOUND"}
    BY <1>6 DEF FindObject
  <2>. QED BY <1>6, <2>1, <2>2 DEF FindObject, TypeOK
<1>7. CASE UNCHANGED vars
  BY <1>7 DEF TypeOK
<1>. QED BY <1>1, <1>2, <1>3, <1>4, <1>5, <1>6, <1>7 DEF Next

LEMMA NextOrigin == TypeOK /\ OriginInv /\ [Next]_vars => OriginInv'
<1>. SUFFICES ASSUME TypeOK, OriginInv, [Next]_vars PROVE OriginInv'
  OBVIOUS
<1>1. ASSUME NEW f \in File, FromFile(f) PROVE OriginInv'
  BY <1>1 DEF FromFile, OriginInv
<1>2. ASSUME NEW o \in Added, AddObject(o) PROVE OriginInv'
  BY <1>2, DocumentAssumption DEF AddObject, OriginInv
<1>3. ASSUME NEW id \in Id, RemoveObject(id) PROVE OriginInv'
  BY <1>3, DocumentAssumption DEF RemoveObject, SelectSingleNode, Matching, OriginInv
<1>. QED BY <1>1, <1>2, <1>3 DEF Next, ToFile, Restart, FindObject, OriginInv

-----------------------------------------------------------------------------
\* SelectSingleNode depends on the document only.
LEMMA SameDocument ==
  ASSUME ElementInv, UNCHANGED <<m_doc, given, removed>> PROVE ElementInv'
BY DEF ElementInv, SelectSingleNode, Matching

LEMMA AddKeepsElements ==
  ASSUME TypeOK, ElementInv, NEW o \in Added, AddObject(o) PROVE ElementInv'
<1>1. CASE m_doc \notin Document
  BY <1>1, SameDocument DEF AddObject
<1>2. CASE m_doc \in Document
  <2>1. PICK k \in Node : m_doc[k] = NoObject /\ m_doc' = [m_doc EXCEPT ![k] = o]
    BY <1>2 DEF AddObject
  <2>2. o \in Element /\ m_doc' \in Document
    BY <1>2, <2>1, AddedAreElements DEF Document
  <2>. SUFFICES ASSUME NEW id \in Id, NEW n \in SelectSingleNode(id)'
                PROVE  id \notin removed' /\ m_doc'[n].visible \in given'[id]
    BY DEF ElementInv
  <2>3. n \in Node /\ Matching(id)' = {n}
    BY DEF SelectSingleNode
  <2>4. removed' = removed \ {o.id} /\ given' = [i \in Id |-> IF i = o.id THEN {o.visible} ELSE given[i]]
    BY <1>2 DEF AddObject
  <2>5. m_doc[k].id # id
    BY <2>1, NoneAssumption DEF NoObject, Object
  <2>6. CASE o.id = id
    <3>1. k \in Matching(id)'
      BY <2>1, <2>2, <2>6, <1>2 DEF Matching, Document
    <3>2. m_doc'[n] = o
      BY <3>1, <2>3, <2>1, <1>2 DEF Document
    <3>. QED BY <2>4, <2>6, <3>2
  <2>7. CASE o.id # id
    <3>1. \A x \in Node : m_doc'[x].id = id <=> m_doc[x].id = id
      BY <2>1, <2>5, <2>7, <1>2 DEF Document
    <3>2. Matching(id)' = Matching(id)
      BY <3>1, <1>2, <2>2 DEF Matching
    <3>3. n \in SelectSingleNode(id) /\ n # k
      BY <2>3, <2>5, <3>2 DEF SelectSingleNode, Matching
    <3>. QED BY <3>3, <2>1, <2>4, <2>7, <1>2 DEF ElementInv, Document
  <2>. QED BY <2>6, <2>7
<1>. QED BY <1>1, <1>2

LEMMA RemoveKeepsElements ==
  ASSUME TypeOK, ElementInv, NEW j \in Id, RemoveObject(j) PROVE ElementInv'
<1>. SUFFICES ASSUME NEW id \in Id, NEW n \in SelectSingleNode(id)'
              PROVE  id \notin removed' /\ m_doc'[n].visible \in given'[id]
  BY DEF ElementInv
<1>0. given' = given /\ removed' = removed \cup {j}
  BY DEF RemoveObject
<1>1. CASE SelectSingleNode(j) = {} /\ UNCHANGED m_doc
  <2>1. n \in SelectSingleNode(id)
    BY <1>1 DEF SelectSingleNode, Matching
  <2>. QED BY <1>0, <1>1, <2>1 DEF ElementInv
<1>2. ASSUME NEW k \in SelectSingleNode(j), m_doc' = [m_doc EXCEPT ![k] = NoObject]
      PROVE  id \notin removed' /\ m_doc'[n].visible \in given'[id]
  <2>1. m_doc \in Document /\ k \in Node /\ Matching(j) = {k} /\ m_doc[k].id = j
    BY <1>2 DEF SelectSingleNode, Matching
  <2>2. m_doc' \in Document
    BY <1>2, <2>1 DEF Document
  <2>3. n \in Node /\ Matching(id)' = {n} /\ m_doc'[n].id = id
    BY <2>2 DEF SelectSingleNode, Matching
  <2>4. m_doc'[k].id = None /\ (\A x \in Node \ {k} : m_doc'[x] = m_doc[x])
    BY <1>2, <2>1 DEF Document, NoObject, Object
  <2>5. id # j
    BY <2>1, <2>2, <2>3, <2>4, NoneAssumption DEF Matching
  <2>6. Matching(id) = Matching(id)'
    BY <2>1, <2>2, <2>4, <2>5, NoneAssumption DEF Matching
  <2>7. n \in SelectSingleNode(id) /\ n # k
    BY <2>3, <2>4, <2>6, NoneAssumption DEF SelectSingleNode
  <2>. QED BY <1>0, <2>3, <2>4, <2>5, <2>7 DEF ElementInv
<1>. QED BY <1>1, <1>2 DEF RemoveObject

LEMMA NextElement == TypeOK /\ ElementInv /\ [Next]_vars => ElementInv'
<1>. SUFFICES ASSUME TypeOK, ElementInv, [Next]_vars PROVE ElementInv'
  OBVIOUS
<1>1. ASSUME NEW f \in File, FromFile(f) PROVE ElementInv'
  <2>. SUFFICES ASSUME NEW id \in Id, NEW n \in SelectSingleNode(id)'
                PROVE  id \notin removed' /\ m_doc'[n].visible \in given'[id]
    BY DEF ElementInv
  <2>1. m_doc' \in Document /\ n \in Node /\ m_doc'[n].id = id
    BY DEF SelectSingleNode, Matching
  <2>2. m_doc' = disk[f] /\ removed' = {} /\ given' = Says(disk[f])
    BY <1>1, <2>1, DocumentAssumption DEF FromFile
  <2>. QED BY <2>1, <2>2 DEF Says
<1>2. ASSUME Restart PROVE ElementInv'
  BY <1>2, DocumentAssumption DEF Restart, ElementInv, SelectSingleNode, Matching
<1>3. ASSUME NEW name \in File \cup {None}, ToFile(name) PROVE ElementInv'
  BY <1>3, SameDocument DEF ToFile
<1>4. ASSUME NEW id \in Id, FindObject(id) PROVE ElementInv'
  BY <1>4, SameDocument DEF FindObject
<1>5. CASE UNCHANGED vars
  BY <1>5, SameDocument
<1>. QED
  BY <1>1, <1>2, <1>3, <1>4, <1>5, AddKeepsElements, RemoveKeepsElements DEF Next

LEMMA Invariant == Spec => []Inv
<1>1. Inv /\ [Next]_vars => Inv'
  BY NextType, NextOrigin, NextElement DEF Inv
<1>. QED BY InitInv, <1>1, PTL DEF Spec

-----------------------------------------------------------------------------
\* The variables of BridgeConfig keep their types: what is kept in memory is
\* always a parsed document or none.
THEOREM TypeCorrect == Spec => []TypeOK
<1>1. Inv => TypeOK
  BY DEF Inv
<1>. QED BY Invariant, <1>1, PTL

\* FindObject finds only Ids that were not removed, and says what they were
\* last given.
THEOREM FindsCurrent == Spec => FoundIsCurrent
<1>1. Inv /\ [Next]_vars =>
        [\A id \in Id :
           FindObject(id) /\ st' = "ER_OK" =>
             /\ id \notin removed
             /\ \E v \in given[id] : v \in {obj'.visible, "none"}]_vars
  <2>. SUFFICES ASSUME Inv, NEW id \in Id, FindObject(id), st' = "ER_OK"
                PROVE  /\ id \notin removed
                       /\ \E v \in given[id] : v \in {obj'.visible, "none"}
    OBVIOUS
  <2>1. PICK n \in SelectSingleNode(id) :
          obj' = Object(MakePathId(id), IF m_doc[n].visible = "none"
                          THEN obj.visible ELSE m_doc[n].visible)
    BY DEF FindObject
  <2>2. id \notin removed /\ m_doc[n].visible \in given[id]
    BY DEF Inv, ElementInv
  <2>3. m_doc[n].visible \in {obj'.visible, "none"}
    BY <2>1 DEF Object
  <2>. QED BY <2>2, <2>3
<1>. QED BY Invariant, <1>1, PTL DEF Spec, FoundIsCurrent

\* ToFile without a name writes only to the file the document is from.
THEOREM WritesBack == Spec => WritesOwnFile
<1>1. Inv /\ [Next]_vars =>
        [ToFile(None) /\ disk' # disk => m_fileName = origin]_vars
  BY DEF Inv, OriginInv, ToFile
<1>. QED BY Invariant, <1>1, PTL DEF Spec, WritesOwnFile
=============================================================================
