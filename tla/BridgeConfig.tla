----------------------------- MODULE BridgeConfig -----------------------------
(***************************************************************************)
(* bridge::BridgeConfig (src/bridge/BridgeConfig.cpp): an XML document in  *)
(* memory, the file it is from, and operations on the Device elements      *)
(* below /BridgeConfig/AdapterDevices. The program itself only loads the   *)
(* document; the callers here use the whole class, in any order, as the    *)
(* sequence of calls in main.cpp does that is compiled out.                *)
(*                                                                         *)
(* libxml2 is external: a file parses or does not, an expression selects   *)
(* the elements that match it, and a file being written may end up whole,  *)
(* cut off, or as it was.                                                  *)
(*                                                                         *)
(* A definition whose name has an underscore is a slip the code could      *)
(* have; no action uses it. The properties tell it from the next one.      *)
(***************************************************************************)
CONSTANTS
  Id,          \* Ids that callers use; none contains a quote
  File,        \* file names
  Node,        \* bound: the Device elements a document has room for
  None,        \* no file, no Id, no element
  Null,        \* no document
  Bare,        \* a document without AdapterDevices
  NotXml       \* what a file holds that does not parse, or is not there

ASSUME NoneAssumption == None \notin File \cup Id

VARIABLES
  m_doc,       \* the document
  m_fileName,
  disk,        \* what each file holds
  obj,         \* the DsbObjectConfig a caller keeps
  st,          \* the status the last call returned
  origin,      \* history: the file the document was read from
  given,       \* history: the visibilities each Id was last given
  removed      \* history: Ids removed, and not added again

historyVars == <<origin, given, removed>>
vars == <<m_doc, m_fileName, disk, obj, st, historyVars>>

\* MakePathId: the expression that selects Device elements by Id. As an Id it
\* has quotes, and the expression made of it is malformed.
MakePathId(id) == <<"Device", id>>
PathId == {MakePathId(id) : id \in Id}
ASSUME IdAssumption == Id \cap PathId = {}

\* An element may lack the Visible attribute; the bool of a new
\* DsbObjectConfig has no value: both are "none".
Visibility == {"true", "false", "none"}
Object(id, visible) == [id |-> id, visible |-> visible]
NoObject == Object(None, "none")
Element == [id : Id \cup PathId, visible : Visibility]

Document == [Node -> Element \cup {NoObject}]
ASSUME DocumentAssumption == Document \cap {Null, Bare, NotXml} = {} /\ NotXml # Bare

\* alljoyndsb.xml as it is shipped, and after an edit by hand.
NoDevices == [n \in Node |-> NoObject]
Edited == {[NoDevices EXCEPT ![n] = Object(id, "none")] : n \in Node, id \in Id}

TypeOK ==
  /\ m_doc \in Document \cup {Bare, Null}
  /\ m_fileName \in File \cup {None}
  /\ disk \in [File -> Document \cup {Bare, NotXml}]
  /\ obj \in [id : PathId \cup {None}, visible : Visibility]
  /\ st \in {"ER_OK", "ER_FAIL", "ER_BUS_OBJ_NOT_FOUND"}
  /\ origin \in File \cup {None}
  /\ given \in [Id -> SUBSET Visibility]
  /\ removed \subseteq Id

Init ==
  /\ m_doc = Null /\ m_fileName = None
  /\ disk \in [File -> {NoDevices, Bare, NotXml} \cup Edited]
  /\ obj = NoObject /\ st = "ER_OK"
  /\ origin = None /\ given = [i \in Id |-> {}] /\ removed = {}

-----------------------------------------------------------------------------
(* Files.                                                                  *)

\* What a document says of each Id.
Says(doc) ==
  [i \in Id |-> IF doc \in Document
                THEN {doc[n].visible : n \in {x \in Node : doc[x].id = i}} ELSE {}]

FromFile_KeepsOld(f) ==
  /\ m_fileName' = f
  /\ IF disk[f] = NotXml
     THEN st' = "ER_FAIL" /\ UNCHANGED <<m_doc, historyVars>>
     ELSE /\ st' = "ER_OK" /\ m_doc' = disk[f]
          /\ origin' = f /\ given' = Says(disk[f]) /\ removed' = {}
  /\ UNCHANGED <<disk, obj>>
\* After a file that does not parse there is no document at all.
FromFile(f) ==
  /\ m_fileName' = f
  /\ \/ disk[f] = NotXml /\ st' = "ER_FAIL" /\ m_doc' = Null /\ origin' = None
     \/ disk[f] # NotXml /\ st' = "ER_OK" /\ m_doc' = disk[f] /\ origin' = f
  /\ given' = Says(disk[f]) /\ removed' = {}
  /\ UNCHANGED <<disk, obj>>

\* Without a name the document's own file is written. That it could not be,
\* or not to the end, is not reported.
ToFile(name) ==
  LET f == IF name = None THEN m_fileName ELSE name IN
  /\ \/ m_doc = Null /\ st' = "ER_FAIL" /\ UNCHANGED disk
     \/ /\ m_doc # Null /\ st' = "ER_OK"
        /\ \E content \in {m_doc, NotXml, disk[f]} :
             disk' = [disk EXCEPT ![f] = content]
  /\ UNCHANGED <<m_doc, m_fileName, obj, historyVars>>

\* The process dies and starts again.
Restart ==
  /\ m_doc' = Null /\ m_fileName' = None /\ obj' = NoObject /\ st' = "ER_OK"
  /\ origin' = None /\ given' = [i \in Id |-> {}] /\ removed' = {}
  /\ UNCHANGED disk

-----------------------------------------------------------------------------
(* Objects.                                                                *)

Matching(id) == IF m_doc \in Document THEN {n \in Node : m_doc[n].id = id} ELSE {}

SelectSingleNode_First(id) ==
  IF Matching(id) = {} THEN {} ELSE {CHOOSE n \in Matching(id) : TRUE}

\* The element the expression selects, if it is the only one.
SelectSingleNode(id) == {n \in Node : Matching(id) = {n}}

\* A document without AdapterDevices, or none, takes nothing: ER_OK.
AddObject(o) ==
  /\ \/ /\ m_doc \in Document
        /\ \E n \in Node : m_doc[n] = NoObject /\ m_doc' = [m_doc EXCEPT ![n] = o]
        /\ given' = [i \in Id |-> IF i = o.id THEN {o.visible} ELSE given[i]]
        /\ removed' = removed \ {o.id}
     \/ m_doc \notin Document /\ UNCHANGED <<m_doc, given, removed>>
  /\ st' = "ER_OK"
  /\ UNCHANGED <<m_fileName, disk, obj, origin>>

RemoveObject(id) ==
  /\ \/ SelectSingleNode(id) = {} /\ UNCHANGED m_doc
     \/ \E n \in SelectSingleNode(id) : m_doc' = [m_doc EXCEPT ![n] = NoObject]
  /\ st' = "ER_OK"
  /\ removed' = removed \cup {id}
  /\ UNCHANGED <<m_fileName, disk, obj, origin, given>>

\* The object's Id becomes the expression. Without a Visible attribute its
\* visibility stays.
FindObject(id) ==
  /\ \/ m_doc = Null /\ st' = "ER_FAIL" /\ UNCHANGED obj
     \/ /\ m_doc # Null /\ SelectSingleNode(id) = {}
        /\ st' = "ER_BUS_OBJ_NOT_FOUND" /\ UNCHANGED obj
     \/ \E n \in SelectSingleNode(id) :
          /\ st' = "ER_OK"
          /\ obj' = Object(MakePathId(id), IF m_doc[n].visible = "none"
                                           THEN obj.visible ELSE m_doc[n].visible)
  /\ UNCHANGED <<m_doc, m_fileName, disk, historyVars>>

-----------------------------------------------------------------------------
\* Callers add objects of their own, and the one they found as it is.
Added ==
  [id : Id, visible : {"true", "false"}] \cup
  {Object(obj.id, v) : v \in {x \in {"true", "false"} :
                               obj.id # None /\ obj.visible \in {x, "none"}}}

Next ==
  \/ \E f \in File : FromFile(f)
  \/ \E name \in File \cup {None} : ToFile(name)
  \/ Restart
  \/ \E o \in Added : AddObject(o)
  \/ \E id \in Id : RemoveObject(id) \/ FindObject(id)

Spec == Init /\ [][Next]_vars

-----------------------------------------------------------------------------
\* FindObject never finds an Id that was removed and not added again, and says
\* of the others what they were last given: it does not choose among elements
\* of one Id, which AddObject lets happen.
FoundIsCurrent ==
  [][\A id \in Id :
       FindObject(id) /\ st' = "ER_OK" =>
         /\ id \notin removed
         /\ \E v \in given[id] : v \in {obj'.visible, "none"}]_vars

\* ToFile without a name writes back to the file the document was read from:
\* after a FromFile that failed, nothing is written over the file that did
\* not parse.
WritesOwnFile ==
  [][ToFile(None) /\ disk' # disk => m_fileName = origin]_vars
=============================================================================
