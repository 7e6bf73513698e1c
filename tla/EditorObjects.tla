---------------------------- MODULE EditorObjects ----------------------------
(***************************************************************************)
(* ObjectData, the modifications of objects, and the ObjectTreeModel that  *)
(* shows the objects and follows the signals of the data.                  *)
(*                                                                         *)
(* An object is an original one or a custom one based on it; an entry of   *)
(* m_objects holds its modified fields.  The tree has a folder per class   *)
(* of objects (the races of units, the classes of items, ...) for original *)
(* and for custom objects.  Its hash from objects to items is not cleared  *)
(* where items are deleted, so that it may lead to an item that is gone.   *)
(*                                                                         *)
(* Slots run inside of the call that emits their signal.  The tree has     *)
(* been loaded; levels of fields and the names of objects are left out.    *)
(***************************************************************************)
EXTENDS Naturals, Sequences, SequencesExt, FiniteSetsExt

CONSTANTS
    Originals,
    CustomIds,    (* the IDs users enter for custom objects               *)
    Standard,     (* the empty custom ID of an original object            *)
    Classes,
    ClassField,   (* the field that decides on the class                  *)
    OtherFields,
    ClassOf,      (* the class each original object has by default        *)
    Hidden,       (* the fields that are not shown                        *)
    Imports,      (* files: sequences of modifications of objects         *)
    MaxItems      (* bound on the items of custom objects in the tree     *)

Fields == {ClassField} \union OtherFields
Ids == [original : Originals, custom : CustomIds \union {Standard}]
Customs == {id \in Ids : id.custom # Standard}
(* Other fields only tell whether they are modified.                       *)
Values(f) == IF f = ClassField THEN Classes ELSE {"changed"}
Modification == [id : Ids, field : Fields, value : Classes \union {"changed"}]

ASSUME ObjectsAssumption ==
    /\ Standard \notin CustomIds
    /\ ClassField \notin OtherFields
    /\ Hidden \subseteq OtherFields
    /\ ClassOf \in [Originals -> Classes]
    /\ IsFiniteSet(Originals)
    /\ MaxItems \in Nat \ {0}

ASSUME ImportsAssumption ==
    /\ Imports \subseteq Seq(Modification)
    /\ \A file \in Imports : \A i \in DOMAIN file : file[i].value \in Values(file[i].field)

(* A pointer to an ObjectTreeItem: nr tells two items of one object apart. *)
Items == [id : Ids, nr : 1..MaxItems]
Folders == [custom : BOOLEAN, class : Classes]

VARIABLES
    objects,  (* m_objects                                                *)
    tree,     (* the children of each folder                              *)
    found,    (* m_standardItems and m_customItems                        *)
    running   (* FALSE after a call the process did not survive           *)

vars == <<objects, tree, found, running>>

-----------------------------------------------------------------------------
(* The data and the tree together, to follow the signals of one call.      *)

Now == [objects |-> objects, tree |-> tree, found |-> found]

(* fieldValue() of the class.                                              *)
Class(S, id) ==
    IF id \in DOMAIN S.objects /\ ClassField \in DOMAIN S.objects[id]
    THEN S.objects[id][ClassField]
    ELSE ClassOf[id.original]

(* itemParent().                                                           *)
FolderOf(S, id) == [custom |-> id.custom # Standard, class |-> Class(S, id)]

Children(t) == UNION {Range(t[d]) : d \in Folders}
FolderWith(S, item) == CHOOSE d \in Folders : item \in Range(S.tree[d])

(* createItem(): the new row is the last one of the folder.                *)
WithItem(S, id) ==
    LET used == {item.nr : item \in {i \in Children(S.tree) : i.id = id}}
        item == [id |-> id, nr |-> Min((1..MaxItems) \ used)]
    IN [S EXCEPT !.tree[FolderOf(S, id)] = Append(@, item),
                 !.found = [i \in DOMAIN @ \union {id} |-> IF i = id THEN item ELSE @[i]]]

(* A mutant for TreeShowsObjects: no item for what the hash knows.         *)
CreatedOnce(S, id) ==
    IF id \in DOMAIN S.objects THEN S
    ELSE LET T == [S EXCEPT !.objects =
                      [i \in DOMAIN @ \union {id} |-> IF i = id THEN <<>> ELSE @[i]]]
         IN IF id \in DOMAIN S.found THEN T ELSE WithItem(T, id)

(* createObject().                                                         *)
Created(S, id) ==
    IF id \in DOMAIN S.objects THEN S
    ELSE LET T == [S EXCEPT !.objects =
                      [i \in DOMAIN @ \union {id} |-> IF i = id THEN <<>> ELSE @[i]]]
         IN IF id.custom = Standard THEN T ELSE WithItem(T, id)

(* QList::removeAll(), of the children of an item.                         *)
Without(children, item) ==
    FoldLeft(LAMBDA t, i : IF i = item THEN t ELSE Append(t, i), <<>>, children)

(* modifyField() of the tree: an item whose class changed moves.           *)
MovedTo(S, id, folder) ==
    LET item == S.found[id]
        old == FolderWith(S, item)
    IN IF id \notin DOMAIN S.found THEN S
       ELSE IF item \notin Children(S.tree) \/ old = folder THEN S
       ELSE [S EXCEPT !.tree[old] = Without(@, item), !.tree[folder] = Append(@, item)]
Moved(S, id) == MovedTo(S, id, FolderOf(S, id))

(* A mutant for EditMovesItem: the signal comes before the change.         *)
ModifiedSignalFirst(S, id, f, v) ==
    [Moved(Created(S, id), id) EXCEPT !.objects[id] =
        [g \in DOMAIN @ \union {f} |-> IF g = f THEN v ELSE @[g]]]

(* modifyField().                                                          *)
Modified(S, id, f, v) ==
    LET T == Created(S, id)
    IN Moved([T EXCEPT !.objects[id] =
                  [g \in DOMAIN @ \union {f} |-> IF g = f THEN v ELSE @[g]]], id)

(* resetField(): an object that has no modification left is erased, also a *)
(* custom one, and the tree learns that it was reset.                      *)
FieldReset(S, id, f) ==
    IF id \notin DOMAIN S.objects THEN S
    ELSE LET left == [g \in DOMAIN S.objects[id] \ {f} |-> S.objects[id][g]]
         IN [S EXCEPT !.objects =
                [i \in {j \in DOMAIN @ : j # id \/ DOMAIN left # {}} |->
                    IF i = id THEN left ELSE @[i]]]

(* removeRows() of one row: its loop runs from row to the count, so that   *)
(* it deletes a first child and no other.                                  *)
RowRemoved(children, item) ==
    IF children # <<>> /\ Head(children) = item THEN Tail(children) ELSE children

(* removeObject() of the tree, whose hash is left as it is.                *)
ItemRemoved(S, id) ==
    IF id \notin DOMAIN S.found THEN S
    ELSE [S EXCEPT !.tree = [d \in Folders |-> RowRemoved(@[d], S.found[id])]]

(* The entry of deleteObject(), without the signal.                        *)
Erased(S, id) ==
    [S EXCEPT !.objects = [i \in DOMAIN @ \ {id} |-> @[i]]]

Deleted(S, id) ==
    IF id.custom = Standard THEN Erased(S, id) ELSE ItemRemoved(Erased(S, id), id)
-----------------------------------------------------------------------------
Becomes(S) ==
    /\ objects' = S.objects
    /\ tree' = S.tree
    /\ found' = S.found

Shown == {item.id : item \in Children(tree)}
Dangles(id) == id \in DOMAIN found /\ found[id] \notin Children(tree)

(* The bound MaxItems.                                                     *)
CanCreate(id) ==
    id \in DOMAIN objects \/ Cardinality({i \in Children(tree) : i.id \in Customs}) < MaxItems

(* load() of the tree, the data as it was loaded: an item per original.    *)
Init ==
    /\ objects = <<>>
    /\ found = [id \in Ids \ Customs |-> [id |-> id, nr |-> 1]]
    /\ tree \in [Folders -> SetToAllKPermutations(Range(found))]
    /\ \A d \in Folders : Range(tree[d]) =
         {found[id] : id \in {i \in DOMAIN found : FolderOf(Now, i) = d}}
    /\ running = TRUE

(* The value of a field in the table view is changed.                      *)
EditField(id, f, v) ==
    /\ running
    /\ id \in Shown /\ CanCreate(id)
    /\ Becomes(Modified(Now, id, f, v))
    /\ UNCHANGED running

(* onNewObject() and pasteObject() of an original that is not modified.  A *)
(* custom ID that is in use is taken all the same if the user agrees.      *)
NewObject(id) ==
    /\ running
    /\ CanCreate(id)
    /\ \/ \E f \in OtherFields \ Hidden : Becomes(Modified(Now, id, f, "changed"))
       \/ Becomes(Created(Now, id))
    /\ UNCHANGED running

ResetField(id, f) ==
    /\ running
    /\ id \in Shown
    /\ Becomes(FieldReset(Now, id, f))
    /\ UNCHANGED running

(* resetObject(): the entry stays.                                         *)
ResetObject(id) ==
    /\ running
    /\ id \in Shown \intersect DOMAIN objects
    /\ objects' = [objects EXCEPT ![id] = <<>>]
    /\ UNCHANGED <<tree, found, running>>

(* deleteObject() of a custom object whose item is selected.               *)
DeleteObject(id) ==
    /\ running
    /\ id \in Shown \intersect Customs
    /\ ~Dangles(id)
    /\ Becomes(Deleted(Now, id))
    /\ UNCHANGED running

(* The hash leads to a deleted item: removeObject() reads its parent and   *)
(* its row, selectObject() shows it.  Either may also go unnoticed.  (That *)
(* the memory belongs to a new item by then, whose row is removed, is left *)
(* out.)                                                                   *)
UseDangling(id) ==
    /\ running
    /\ id \in Shown /\ Dangles(id)
    /\ \/ running' = FALSE /\ UNCHANGED <<objects, tree, found>>
       \/ Becomes(Erased(Now, id)) /\ UNCHANGED running

(***************************************************************************)
(* importCustomUnits() and importCustomObjects() of known originals.       *)
(* clearModifications() passes deleteObject() references into the entry it *)
(* erases: whether the signal is emitted then is open, as is the order of  *)
(* the entries.                                                            *)
(***************************************************************************)
ClearedCustoms(S, order) ==      (* A mutant for ImportReplaces.           *)
    FoldLeft(LAMBDA T, id : Deleted(T, id), S, order)
Cleared(S, order) ==
    LET told == FoldLeft(LAMBDA T, id : Deleted(T, id), S, order)
    IN [told EXCEPT !.objects = <<>>]
Imported(S, file) ==
    FoldLeft(LAMBDA T, m : Modified(T, m.id, m.field, m.value), S, file)

Import(file) ==
    /\ running
    /\ Cardinality({i \in Children(tree) : i.id \in Customs})
           + Cardinality({file[i].id : i \in DOMAIN file} \intersect Customs) <= MaxItems
    /\ \E order \in SetToAllKPermutations(DOMAIN objects \intersect Customs) :
         Becomes(Imported(Cleared(Now, order), file))
    /\ running' \in {TRUE} \union {b \in {FALSE} : objects # <<>>}

(***************************************************************************)
(* compress() resets hidden fields and fields with their default values.   *)
(* It erases the entry its iterator is at when nothing is left of it, and  *)
(* may then crash or miss other entries.                                   *)
(***************************************************************************)
Redundant(id) ==
    {f \in DOMAIN objects[id] : f \in Hidden \/ objects[id][f] = ClassOf[id.original]}
Compressed(id) == [f \in DOMAIN objects[id] \ Redundant(id) |-> objects[id][f]]

Compress ==
    /\ running
    /\ LET all == {id \in DOMAIN objects : Redundant(id) # {}}
           lost == {id \in all : Redundant(id) = DOMAIN objects[id]}
       IN \E done \in SUBSET all :
            /\ IF lost = {} THEN done = all ELSE done \intersect lost # {}
            /\ objects' = [id \in DOMAIN objects \ (lost \intersect done) |->
                  IF id \in done THEN Compressed(id) ELSE objects[id]]
            /\ running' \in {TRUE} \union {b \in {FALSE} : lost # {}}
    /\ UNCHANGED <<tree, found>>

(* customUnits(), customObjects() and customObject() use a null pointer to *)
(* the set they gave away as soon as there is a modification to put there. *)
Export ==
    /\ running
    /\ \E id \in DOMAIN objects : objects[id] # <<>>
    /\ running' = FALSE
    /\ UNCHANGED <<objects, tree, found>>

Next ==
    \/ \E id \in Ids, f \in Fields \ Hidden : \E v \in Values(f) : EditField(id, f, v)
    \/ \E id \in Customs : NewObject(id)
    \/ \E id \in Ids, f \in Fields \ Hidden : ResetField(id, f)
    \/ \E id \in Ids : ResetObject(id)
    \/ \E id \in Ids : DeleteObject(id)
    \/ \E id \in Ids : UseDangling(id)
    \/ \E file \in Imports : Import(file)
    \/ Compress
    \/ Export

Spec == Init /\ [][Next]_vars

-----------------------------------------------------------------------------
(***************************************************************************)
(* Every original object and every object with an entry is in the tree,    *)
(* where the hash finds it: the signals of the data keep the tree          *)
(* complete although the data erases objects it does not announce          *)
(* (resetField(), compress()) and the hash is never cleaned up.  No item   *)
(* is in it twice, and originals and custom objects are apart.  An object  *)
(* may have two items, after resetField() erased it and it was created     *)
(* again: the hash finds the last.                                         *)
(***************************************************************************)
TreeShowsObjects ==
    /\ \A id \in (Ids \ Customs) \union DOMAIN objects :
         id \in DOMAIN found /\ found[id].id = id /\ ~Dangles(id)
    /\ \A d \in Folders : IsInjective(tree[d])
    /\ \A d, e \in Folders : d # e => Range(tree[d]) \intersect Range(tree[e]) = {}
    /\ \A d \in Folders : \A item \in Range(tree[d]) : d.custom = (item.id.custom # Standard)

(***************************************************************************)
(* After a field was changed the item is in the folder of its class, also  *)
(* when modifyField() had to create the object first: the item is created  *)
(* while the object has no modification yet and moved afterwards.          *)
(***************************************************************************)
EditMovesItem ==
    [][\A id \in Ids, f \in Fields : \A v \in Values(f) :
        EditField(id, f, v) => found'[id] \in Range(tree'[FolderOf(Now', id)])]_vars

(***************************************************************************)
(* "Imports custom units and replaces all existing" (objectdata.hpp:407):  *)
(* what the data holds after an import depends on the file only.           *)
(***************************************************************************)
ImportReplaces ==
    [][\A file \in Imports : Import(file) =>
        LET last(id, f) == {i \in DOMAIN file : file[i].id = id /\ file[i].field = f}
            held == {id \in Ids : \E i \in DOMAIN file : file[i].id = id}
        IN /\ DOMAIN objects' = held
           /\ \A id \in held : objects'[id] =
                [f \in {g \in Fields : last(id, g) # {}} |-> file[Max(last(id, f))].value]]_vars
=============================================================================
