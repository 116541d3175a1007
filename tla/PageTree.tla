------------------------------ MODULE PageTree ------------------------------
(***************************************************************************)
(* The pages tree of a document: PageTree and CatalogInformation, which    *)
(* grow it page by page; its passage through a state file                  *)
(* (DocumentContext::WritePageTreeState, ReadPageTreeState); its writing   *)
(* at the end of a new or of a modified document; and the reading of it by *)
(* the next session (PDFParser::ParsePagesIDs).                            *)
(* Pages and tree nodes draw their IDs from one registry.                  *)
(***************************************************************************)
EXTENDS Integers, FiniteSets, SequencesExt

CONSTANTS
    LevelSize,       \* PAGE_TREE_LEVEL_SIZE
    OriginalFiles,   \* files to start from: [objects, next, pages]
    MaxPages,        \* bound: pages added in one session
    MaxOthers,       \* bound: other objects in the file
    MaxSessions      \* bound: sessions over the file

ASSUME PageTreeAssumption ==
    /\ LevelSize \in Nat /\ LevelSize > 1
    /\ MaxPages \in Nat /\ MaxOthers \in Nat /\ MaxSessions \in Nat

VARIABLES
    nodes,      \* the PageTree instances: node ID -> [parent, kids, isLeafParent]
    current,    \* mCurrentPageTreeNode, 0 when NULL
    nextID,     \* the ID AllocateNewObjectID returns next
    objects,    \* the file: ID -> the dictionary under it
    catalog,    \* the file's catalog: the ID under its Pages key, 0 without one
    parsed,     \* what the modified file's PDFParser read when the session began
    mode,       \* "new" or "modified" while a session is open, else "closed"
    session

vars == <<nodes, current, nextID, objects, catalog, parsed, mode, session>>

None == 0
Missing == -1
EmptyTree == <<>>
EmptyNode == [parent |-> None, kids |-> <<>>, isLeafParent |-> TRUE]

PageObject(parent) == [type |-> "Page", parent |-> parent, kids |-> <<>>, count |-> 0]
PagesObject(parent, kids, count) ==
    [type |-> "Pages", parent |-> parent, kids |-> kids, count |-> count]
OtherObject == [type |-> "Other", parent |-> None, kids |-> <<>>, count |-> 0]

(***************************************************************************)
(* PageTree.  t = [nodes, next]: the nodes and the registry's next ID.     *)
(***************************************************************************)
NewNode(t) == [nodes |-> t.nodes @@ (t.next :> EmptyNode), next |-> t.next + 1]

HasRoom(t, n) == Len(t.nodes[n].kids) < LevelSize

AddPageID(t, n, page) ==
    [t EXCEPT !.nodes[n].kids = Append(@, page), !.nodes[n].isLeafParent = TRUE]

AddKidNode(t, n, kid) ==
    [t EXCEPT !.nodes[n].kids = Append(@, kid), !.nodes[n].isLeafParent = FALSE,
              !.nodes[kid].parent = n]

(* A full root gets a parent, whose first kid it is.                       *)
WithParent(t, n) ==
    IF t.nodes[n].parent # None THEN t ELSE AddKidNode(NewNode(t), t.next, n)

(* A new last kid of n, or of the nearest ancestor with room, and then of  *)
(* as many new nodes below that as it takes to come down again.            *)
RECURSIVE CreateBrotherOrCousin(_, _)
CreateBrotherOrCousin(t, n) ==
    IF HasRoom(t, n)
    THEN [t |-> AddKidNode(NewNode(t), n, t.next), node |-> t.next]
    ELSE LET rooted == WithParent(t, n)
             brother == CreateBrotherOrCousin(rooted, rooted.nodes[n].parent)
         IN CreateBrotherOrCousin(brother.t, brother.node)

(* Mutant: an eleventh kid is still let in.                                *)
AddPageToFullNode(t, n, page) == [t |-> AddPageID(t, n, page), node |-> n]

(* Mutant: the page is told the node the search began at.                  *)
AddPageKeepNode(t, n, page) ==
    IF HasRoom(t, n)
    THEN [t |-> AddPageID(t, n, page), node |-> n]
    ELSE LET rooted == WithParent(t, n)
             brother == CreateBrotherOrCousin(rooted, rooted.nodes[n].parent)
         IN [t |-> AddPageID(brother.t, brother.node, page), node |-> n]

AddNodeToTree(t, n, page) ==
    IF HasRoom(t, n)
    THEN [t |-> AddPageID(t, n, page), node |-> n]
    ELSE LET rooted == WithParent(t, n)
             brother == CreateBrotherOrCousin(rooted, rooted.nodes[n].parent)
         IN [t |-> AddPageID(brother.t, brother.node, page), node |-> brother.node]

RECURSIVE RootOf(_, _)
RootOf(tree, n) == IF tree[n].parent = None THEN n ELSE RootOf(tree, tree[n].parent)

(* The walk down the first kids: its last node with kids must be a leaf    *)
(* parent.                                                                 *)
RECURSIVE HasLeafs(_, _)
HasLeafs(tree, n) ==
    IF tree[n].isLeafParent \/ tree[n].kids = <<>>
    THEN tree[n].isLeafParent
    ELSE HasLeafs(tree, Head(tree[n].kids))

DocumentHasNewPages == current # None /\ HasLeafs(nodes, RootOf(nodes, current))

(***************************************************************************)
(* WritePageTree.  w = [objects, count]: a node's dictionary follows those *)
(* of its kids, whose page counts it adds up.                              *)
(***************************************************************************)
RECURSIVE WritePageTree(_, _, _)
(* Mutant: the loop over the kids ends one early.                          *)
WriteAllKidsButLast(file, tree, n) ==
    LET node == tree[n]
        WriteKid(w, kid) ==
            LET below == WritePageTree(w.objects, tree, kid)
            IN [objects |-> below.objects, count |-> w.count + below.count]
        w == IF node.isLeafParent
             THEN [objects |-> file, count |-> Len(node.kids)]
             ELSE FoldLeft(WriteKid, [objects |-> file, count |-> 0], Front(node.kids))
    IN [objects |-> (n :> PagesObject(node.parent, node.kids, w.count)) @@ w.objects,
        count |-> w.count]
WritePageTree(file, tree, n) ==
    LET node == tree[n]
        WriteKid(w, kid) ==
            LET below == WritePageTree(w.objects, tree, kid)
            IN [objects |-> below.objects, count |-> w.count + below.count]
        w == IF node.isLeafParent
             THEN [objects |-> file, count |-> Len(node.kids)]
             ELSE FoldLeft(WriteKid, [objects |-> file, count |-> 0], node.kids)
    IN [objects |-> (n :> PagesObject(node.parent, node.kids, w.count)) @@ w.objects,
        count |-> w.count]

(***************************************************************************)
(* The reader: the pages under an object, in order.  A null in a Kids      *)
(* array counts as a page without an ID.                                   *)
(***************************************************************************)
RECURSIVE ParsePagesIDs(_, _)
ParsePagesIDs(file, id) ==
    CASE id = None -> <<None>>
      [] id \notin DOMAIN file -> <<Missing>>
      [] file[id].type = "Page" -> <<id>>
      [] file[id].type = "Pages" ->
            FlattenSeq([i \in 1 .. Len(file[id].kids) |->
                            ParsePagesIDs(file, file[id].kids[i])])
      [] OTHER -> <<Missing>>

ParsePagesSucceeds(file, root) ==
    /\ root \in DOMAIN file
    /\ LET pages == ParsePagesIDs(file, root)
       IN Missing \notin ToSet(pages) /\ Len(pages) <= file[root].count

ParseDocument(file, root, xrefSize) ==
    [root |-> root, objects |-> file, pages |-> ParsePagesIDs(file, root),
     next |-> xrefSize]

NothingParsed == [root |-> None, objects |-> EmptyTree, pages |-> <<>>, next |-> 1]

(***************************************************************************)
(* The state file.  s = [objects, next, current]: what was written of the  *)
(* tree, under IDs of the state file's own registry.                       *)
(***************************************************************************)
RECURSIVE WritePageTreeState(_, _, _, _)
WritePageTreeState(s, id, tree, n) ==
    LET node == tree[n]
        kidIDs == IF node.isLeafParent THEN <<>>
                  ELSE [i \in 1 .. Len(node.kids) |-> s.next + i - 1]
        written == [s EXCEPT
            !.next = @ + Len(kidIDs),
            !.objects = @ @@ (id :> [mPageTreeID |-> n, mIsLeafParent |-> node.isLeafParent,
                                     kids |-> IF node.isLeafParent THEN node.kids ELSE kidIDs])]
        WriteKid(s1, i) == WritePageTreeState(s1, kidIDs[i], tree, node.kids[i])
        below == FoldLeft(WriteKid, written, [i \in 1 .. Len(kidIDs) |-> i])
    IN IF n = current THEN [below EXCEPT !.current = id] ELSE below

WriteCatalogInformationState ==
    WritePageTreeState([objects |-> <<>>, next |-> 2, current |-> None],
                       1, nodes, RootOf(nodes, current))

(* r = [t, current].  A kid joins its parent only once its own subtree     *)
(* is read.                                                                *)
RECURSIVE ReadPageTreeState(_, _, _)
ReadPageTreeState(r, state, id) ==
    LET saved == state.objects[id]
        n == saved.mPageTreeID
        created == [t |-> [r.t EXCEPT !.nodes = @ @@ (n :> EmptyNode)],
                    current |-> IF id = state.current THEN n ELSE r.current]
        ReadPage(r1, page) == [r1 EXCEPT !.t = AddNodeToTree(@, n, page).t]
        ReadKid(r1, kidID) ==
            LET below == ReadPageTreeState(r1, state, kidID)
            IN [below EXCEPT !.t = AddKidNode(@, n, state.objects[kidID].mPageTreeID)]
    IN IF saved.mIsLeafParent THEN FoldLeft(ReadPage, created, saved.kids)
       ELSE FoldLeft(ReadKid, created, saved.kids)

(* Mutant: the root becomes the current node again.                        *)
ReadStateFromRoot(state) ==
    LET r == ReadPageTreeState([t |-> [nodes |-> EmptyTree, next |-> nextID],
                                current |-> None], state, 1)
    IN [r EXCEPT !.current = state.objects[1].mPageTreeID]

ReadCatalogInformationState(state) ==
    ReadPageTreeState([t |-> [nodes |-> EmptyTree, next |-> nextID], current |-> None],
                      state, 1)
-----------------------------------------------------------------------------
(***************************************************************************)
(* The actions.                                                            *)
(***************************************************************************)
Init ==
    \E f \in OriginalFiles :
        /\ objects = f.objects /\ nextID = f.next /\ catalog = f.pages
        /\ nodes = EmptyTree /\ current = None /\ session = 1
        /\ IF f.pages = None
           THEN mode = "new" /\ parsed = NothingParsed
           ELSE mode = "modified" /\ parsed = ParseDocument(f.objects, f.pages, f.next)

NewPages == {id \in DOMAIN objects \ DOMAIN parsed.objects : objects[id].type = "Page"}

(* The page has its ID before the tree takes any, and is written with the  *)
(* ID of the node that took it as its Parent.                              *)
WritePage ==
    /\ mode # "closed"
    /\ Cardinality(NewPages) < MaxPages
    /\ LET t == [nodes |-> nodes, next |-> nextID + 1]
           added == IF current = None
                    THEN AddNodeToTree(NewNode(t), t.next, nextID)
                    ELSE AddNodeToTree(t, current, nextID)
       IN /\ nodes' = added.t.nodes
          /\ nextID' = added.t.next
          /\ current' = added.node
          /\ objects' = (nextID :> PageObject(added.node)) @@ objects
    /\ UNCHANGED <<catalog, parsed, mode, session>>

(* Any other object: it takes an ID between those of pages and of nodes.   *)
WriteOtherObject ==
    /\ mode # "closed"
    /\ Cardinality({id \in DOMAIN objects : objects[id].type = "Other"}) < MaxOthers
    /\ objects' = (nextID :> OtherObject) @@ objects
    /\ nextID' = nextID + 1
    /\ UNCHANGED <<nodes, current, catalog, parsed, mode, session>>

(* A program that wants a page tree of its own deletes the original root.  *)
DeleteOriginalRoot ==
    /\ mode = "modified"
    /\ parsed.root \in DOMAIN objects
    /\ objects' = [id \in DOMAIN objects \ {parsed.root} |-> objects[id]]
    /\ UNCHANGED <<nodes, current, nextID, catalog, parsed, mode, session>>

(* PDFWriter::Shutdown, then ContinuePDF in a process with no tree.        *)
ShutdownAndContinue ==
    /\ mode # "closed" /\ current # None
    /\ LET r == ReadCatalogInformationState(WriteCatalogInformationState)
       IN nodes' = r.t.nodes /\ nextID' = r.t.next /\ current' = r.current
    /\ UNCHANGED <<objects, catalog, parsed, mode, session>>

(* Mutant: the tree is deleted, mCurrentPageTreeNode still points to it.   *)
CleanupWithoutReset ==
    /\ nodes' = EmptyTree
    /\ mode' = "closed"
    /\ UNCHANGED <<current, parsed, session>>

Cleanup ==
    /\ nodes' = EmptyTree /\ current' = None
    /\ mode' = "closed"
    /\ UNCHANGED <<parsed, session>>

WritePagesTree ==
    LET root == RootOf(nodes, current)
    IN /\ objects' = WritePageTree(objects, nodes, root).objects
       /\ catalog' = root
       /\ UNCHANGED nextID

FinalizeNewPDF ==
    /\ mode = "new"
    /\ IF DocumentHasNewPages THEN WritePagesTree
       ELSE catalog' = None /\ UNCHANGED <<objects, nextID>>
    /\ Cleanup

GetOriginalDocumentPageTreeRoot ==
    IF parsed.root \in DOMAIN objects THEN parsed.root ELSE None

(* Mutants: the new tree is written before its parent is set; the new      *)
(* root counts the new pages only; the new pages come first.               *)
CombineWithoutParent ==
    LET old == parsed.objects[parsed.root]
        newTree == RootOf(nodes, current)
        below == WritePageTree(objects, nodes, newTree)
    IN /\ objects' = (nextID :> PagesObject(None, <<parsed.root, newTree>>,
                                            old.count + below.count))
                     @@ (parsed.root :> [old EXCEPT !.parent = nextID])
                     @@ below.objects
       /\ nextID' = nextID + 1 /\ catalog' = nextID
CombineNewCount ==
    LET old == parsed.objects[parsed.root]
        newTree == RootOf(nodes, current)
        below == WritePageTree(objects, [nodes EXCEPT ![newTree].parent = nextID], newTree)
    IN /\ objects' = (nextID :> PagesObject(None, <<parsed.root, newTree>>, below.count))
                     @@ (parsed.root :> [old EXCEPT !.parent = nextID])
                     @@ below.objects
       /\ nextID' = nextID + 1 /\ catalog' = nextID
CombineNewFirst ==
    LET old == parsed.objects[parsed.root]
        newTree == RootOf(nodes, current)
        below == WritePageTree(objects, [nodes EXCEPT ![newTree].parent = nextID], newTree)
    IN /\ objects' = (nextID :> PagesObject(None, <<newTree, parsed.root>>,
                                            old.count + below.count))
                     @@ (parsed.root :> [old EXCEPT !.parent = nextID])
                     @@ below.objects
       /\ nextID' = nextID + 1 /\ catalog' = nextID

(* A new root over the old root, copied from the original with another     *)
(* Parent, and the root of the new pages.                                  *)
WriteCombinedPageTree ==
    LET old == parsed.objects[parsed.root]
        newTree == RootOf(nodes, current)
        below == WritePageTree(objects, [nodes EXCEPT ![newTree].parent = nextID], newTree)
    IN /\ objects' = (nextID :> PagesObject(None, <<parsed.root, newTree>>,
                                            old.count + below.count))
                     @@ (parsed.root :> [old EXCEPT !.parent = nextID])
                     @@ below.objects
       /\ nextID' = nextID + 1 /\ catalog' = nextID

(* Without new pages the catalog keeps its Pages entry: it is left alone,  *)
(* or rewritten with that entry or a copy of it.                           *)
FinalizeModifiedPDF ==
    /\ mode = "modified"
    /\ CASE ~DocumentHasNewPages -> UNCHANGED <<objects, nextID, catalog>>
         [] DocumentHasNewPages /\ GetOriginalDocumentPageTreeRoot # None ->
                WriteCombinedPageTree
         [] OTHER -> WritePagesTree
    /\ Cleanup

(* Mutant: the registry is not filled with the entries of the file.        *)
ModifyWithEmptyRegistry ==
    /\ mode = "closed" /\ session < MaxSessions
    /\ ParsePagesSucceeds(objects, catalog)
    /\ parsed' = ParseDocument(objects, catalog, nextID)
    /\ mode' = "modified" /\ session' = session + 1
    /\ nextID' = 1
    /\ UNCHANGED <<nodes, current, objects, catalog>>

(* The file is parsed; without a page tree to parse, nothing starts.       *)
ModifyPDF ==
    /\ mode = "closed" /\ session < MaxSessions
    /\ ParsePagesSucceeds(objects, catalog)
    /\ parsed' = ParseDocument(objects, catalog, nextID)
    /\ mode' = "modified" /\ session' = session + 1
    /\ UNCHANGED <<nodes, current, nextID, objects, catalog>>

Next == \/ WritePage \/ WriteOtherObject \/ DeleteOriginalRoot \/ ShutdownAndContinue
        \/ FinalizeNewPDF \/ FinalizeModifiedPDF \/ ModifyPDF

Spec == Init /\ [][Next]_vars
-----------------------------------------------------------------------------
TypeOK ==
    /\ \A n \in DOMAIN nodes :
        /\ n \in 1 .. nextID - 1
        /\ nodes[n].parent \in DOMAIN nodes \cup {None}
        /\ nodes[n].isLeafParent \in BOOLEAN
        /\ ToSet(nodes[n].kids) \subseteq 1 .. nextID - 1
    /\ current \in DOMAIN nodes \cup {None}
    /\ DOMAIN objects \subseteq 1 .. nextID - 1
    /\ catalog \in 0 .. nextID - 1
    /\ mode \in {"new", "modified", "closed"}
    /\ session \in 1 .. MaxSessions

Depth(n) == LET d[m \in DOMAIN nodes] ==
                    IF nodes[m].parent = None THEN 0 ELSE 1 + d[nodes[m].parent]
            IN d[n]

(* Every leaf parent of the tree under construction lies at the same       *)
(* depth, no node has more than LevelSize kids, and every node is full but *)
(* those from the current node up to the root: the tree stays of           *)
(* logarithmic depth however AddNodeToTree is called and however often the *)
(* state passes through a state file.                                      *)
TreeIsBalanced ==
    LET ancestors == LET up[n \in DOMAIN nodes] ==
                             {n} \cup IF nodes[n].parent = None THEN {}
                                      ELSE up[nodes[n].parent]
                     IN IF current = None THEN {} ELSE up[current]
    IN \A n \in DOMAIN nodes :
        /\ nodes[n].isLeafParent => Depth(n) = Depth(current)
        /\ IF n \in ancestors THEN Len(nodes[n].kids) \in 1 .. LevelSize
           ELSE Len(nodes[n].kids) = LevelSize

(* The pages under the root of the tree, in order, are the pages of the    *)
(* session in the order in which WritePage wrote them (IDs are allocated   *)
(* in that order), and each page was written with the ID of the node that  *)
(* lists it as its Parent, long before that node is written.               *)
PagesInOrder ==
    LET pages[n \in DOMAIN nodes] ==
            IF nodes[n].isLeafParent THEN nodes[n].kids
            ELSE FlattenSeq([i \in 1 .. Len(nodes[n].kids) |-> pages[nodes[n].kids[i]]])
    IN mode # "closed" =>
        /\ (current = None) <=> (NewPages = {})
        /\ current # None =>
            LET inTree == pages[RootOf(nodes, current)]
            IN /\ \A i, j \in DOMAIN inTree : i < j => inTree[i] < inTree[j]
               /\ ToSet(inTree) = NewPages
        /\ \A n \in DOMAIN nodes : \A i \in DOMAIN nodes[n].kids :
            nodes[n].isLeafParent => objects[nodes[n].kids[i]].parent = n

RECURSIVE Below(_, _)
Below(file, id) ==
    {id} \cup UNION {Below(file, kid) : kid \in ToSet(file[id].kids) \cap DOMAIN file}

(* In a finished file the tree reads the same upwards and downwards: the   *)
(* Parent of every object in a Kids array is the object with that array,   *)
(* and the root has none.  The combined tree of FinalizeModifiedPDF joins  *)
(* a tree of this session and one of the original file.                    *)
ParentsMatchKids ==
    (mode = "closed" /\ catalog \in DOMAIN objects) =>
        /\ objects[catalog].parent = None
        /\ \A id \in Below(objects, catalog) :
            \A kid \in ToSet(objects[id].kids) \cap DOMAIN objects :
                objects[kid].parent = id

(* The Count of every tree node of a finished file is the number of pages  *)
(* under it: PDFParser sizes its array of page IDs by the root's Count.    *)
CountsAreRight ==
    (mode = "closed" /\ catalog \in DOMAIN objects) =>
        \A id \in Below(objects, catalog) :
            objects[id].type = "Pages" =>
                objects[id].count = Len(ParsePagesIDs(objects, id))

(* Every ID a session allocated, for pages or for nodes, is written when   *)
(* the document is finalized: one left over would make WriteXrefTable      *)
(* fail.                                                                   *)
NoIDLeftUnwritten ==
    mode = "closed" => parsed.next .. nextID - 1 \subseteq DOMAIN objects

(* A finished document reads as the pages it had, followed by those added  *)
(* to it, in the order they were added; when the original root was deleted *)
(* and pages were added, as the added pages alone.                         *)
DocumentReadsInOrder ==
    LET kept == IF parsed.root \in DOMAIN objects THEN parsed.pages ELSE <<>>
    IN (mode = "closed" /\ NewPages # {}) =>
        /\ ParsePagesSucceeds(objects, catalog)
        /\ ParsePagesIDs(objects, catalog) = kept \o SetToSortSeq(NewPages, <)

(* A session never changes a page of the original file, nor the original   *)
(* tree below its root: only the root's Parent changes.                    *)
OriginalPagesUntouched ==
    [][mode' # "new" /\ mode # "closed" =>
        \A id \in DOMAIN parsed.objects :
            id \in DOMAIN objects' =>
                \/ objects'[id] = parsed.objects[id]
                \/ id = parsed.root
                   /\ [objects'[id] EXCEPT !.parent = None]
                        = [parsed.objects[id] EXCEPT !.parent = None]]_vars

(* Shutting down and continuing is invisible: the restored tree is the     *)
(* tree that was saved, with the same node IDs, the same current node and  *)
(* no ID of the document taken on the way.                                 *)
ContinuedTreeIsSavedTree ==
    [][ShutdownAndContinue => UNCHANGED <<nodes, current, nextID>>]_vars

(* The tree in memory is one that could be written at any time: full       *)
(* below, with the pages in order, and every kid under its parent.         *)
TreeIsSound ==
    /\ TypeOK
    /\ TreeIsBalanced
    /\ PagesInOrder
    /\ ParentsMatchKids

(* The tree in a finished file has every object it refers to, its counts   *)
(* are those of its leaves, and a reader walks the pages in the order they *)
(* were written.                                                           *)
DocumentIsRight ==
    /\ CountsAreRight
    /\ NoIDLeftUnwritten
    /\ DocumentReadsInOrder

(* Neither a modification nor a suspension of the document costs a page:   *)
(* original pages stay, and a continued tree is the one that was saved.    *)
SavedIsKept ==
    /\ OriginalPagesUntouched
    /\ ContinuedTreeIsSavedTree
=============================================================================
