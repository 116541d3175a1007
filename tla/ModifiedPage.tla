---------------------------- MODULE ModifiedPage ----------------------------
(***************************************************************************)
(* PDFModifiedPage: content and links added to pages of a document that is *)
(* being modified.  New content is collected in form XObjects; WritePage   *)
(* writes the page object again, from the one in the source document, with *)
(* the forms under new names in the page's resources and a new content     *)
(* stream that places them.  Pages may share a resources dictionary, and   *)
(* all of them share the annotations that DocumentContext collects.        *)
(***************************************************************************)
EXTENDS Integers, Sequences

CONSTANTS
    Pages,         \* pages of the source document
    Handles,       \* PDFModifiedPage objects
    Place,         \* where a page has its resources: "none", "direct", "inherited", "indirect"
    SourceDict,    \* which dictionary a page uses, 0 for none
    SourceDicts,   \* the XObject entries of these dictionaries, in the order of the parser's map
    HasContents,   \* does a page have contents?
    SourceAnnots,  \* a page's annotations
    Links,         \* annotations that users attach
    MaxForms,      \* bound: form XObjects; one digit numbers them
    MaxWrites,     \* bound: pages written
    SamePage       \* may a page be modified by two objects?

(* Names are sequences of bytes.                                           *)
Names == Seq(0..255)

ASSUME ModifiedPageAssumption ==
    /\ SourceDicts \in Seq(Seq([name : Names, object : Int]))
    /\ \A d \in DOMAIN SourceDicts : \A i, j \in DOMAIN SourceDicts[d] :
          SourceDicts[d][i].name = SourceDicts[d][j].name => i = j
    /\ Place \in [Pages -> {"none", "direct", "inherited", "indirect"}]
    /\ SourceDict \in [Pages -> 0..Len(SourceDicts)]
    /\ \A p \in Pages : SourceDict[p] = 0 <=> Place[p] = "none"
    /\ HasContents \in [Pages -> BOOLEAN] /\ DOMAIN SourceAnnots = Pages
    /\ \A p \in Pages : SourceAnnots[p] \cap Links = {}
    /\ MaxForms \in 0..10 /\ MaxWrites \in Nat
    /\ SamePage \in BOOLEAN

VARIABLES
    handles,     \* the objects' state
    dicts,       \* the XObject entries of resources dictionaries, the source's first
    dirty,       \* source dictionaries written again: mIsDirty of their entry
    uses,        \* the dictionary of a page as it is in the document
    contents,    \* a page's content, as operators; the source's is one of them
    annots,      \* a page's annotations
    annotations, \* DocumentContext's mAnnotations
    lastForm,    \* form XObjects so far
    writes,      \* page objects written
    promised,    \* history: what written pages were given
    astray,      \* history: links that waited when another object's page was written
    lost         \* history: links of a page that was written again

vars == <<handles, dicts, dirty, uses, contents, annots, annotations, lastForm, writes, promised,
          astray, lost>>

Unborn == [page |-> "none"]
Born == {h \in Handles : handles[h] # Unborn}
SourceContents(p) == IF HasContents[p] THEN <<[op |-> "source"]>> ELSE <<>>

Init ==
    /\ handles = [h \in Handles |-> Unborn]
    /\ dicts = SourceDicts /\ dirty = {}
    /\ uses = SourceDict
    /\ contents = [p \in Pages |-> SourceContents(p)]
    /\ annots = SourceAnnots /\ annotations = {}
    /\ lastForm = 0 /\ writes = 0
    /\ promised = [p \in Pages |-> [forms |-> {}, ensured |-> FALSE]]
    /\ astray = {} /\ lost = {}

NewModifiedPage(h, p, ensure) ==
    /\ h \notin Born
    /\ SamePage \/ \A g \in Born : handles[g].page # p
    /\ handles' = [handles EXCEPT ![h] =
          [page |-> p, ensure |-> ensure, current |-> 0, forms |-> <<>>, isDirty |-> FALSE,
           links |-> {}]]
    /\ UNCHANGED <<dicts, dirty, uses, contents, annots, annotations, lastForm, writes, promised,
                   astray, lost>>

(* Users have one form open at a time.                                     *)
NoneOpen == \A g \in Born : handles[g].current = 0

StartContentContext(h) ==
    /\ h \in Born /\ NoneOpen /\ lastForm < MaxForms
    /\ lastForm' = lastForm + 1
    /\ handles' = [handles EXCEPT ![h].current = lastForm + 1]
    /\ UNCHANGED <<dicts, dirty, uses, contents, annots, annotations, writes, promised, astray,
                   lost>>

(* Mutant: the ended context stays the current one.                        *)
StillCurrent(state) ==
    IF state.current = 0 THEN state
    ELSE [state EXCEPT !.isDirty = TRUE, !.forms = Append(@, state.current)]

ContextEnded(state) ==
    IF state.current = 0 THEN state
    ELSE [state EXCEPT !.isDirty = TRUE, !.forms = Append(@, state.current), !.current = 0]

EndContentContext(h) ==
    /\ h \in Born /\ handles[h].current # 0
    /\ handles' = [handles EXCEPT ![h] = ContextEnded(@)]
    /\ UNCHANGED <<dicts, dirty, uses, contents, annots, annotations, lastForm, writes, promised,
                   astray, lost>>

(* The annotation waits where those of all pages do.                       *)
AttachURLLinktoCurrentPage(h, link) ==
    /\ h \in Born /\ NoneOpen
    /\ \A g \in Born : link \notin handles[g].links
    /\ annotations' = annotations \cup {link}
    /\ handles' = [handles EXCEPT ![h].isDirty = TRUE, ![h].links = @ \cup {link}]
    /\ UNCHANGED <<dicts, dirty, uses, contents, annots, lastForm, writes, promised, astray, lost>>
-----------------------------------------------------------------------------
(***************************************************************************)
(* New names: "a very sophisticated algo", the diagonal of the names there *)
(* are, then a number.                                                     *)
(***************************************************************************)
GetDifferentChar(c) ==
    CASE c \in 48..56 \/ c \in 97..121 \/ c \in 65..89 -> c + 1
      [] c = 57 -> 48
      [] c = 122 -> 97
      [] OTHER -> 65

CharOf(name, i) == IF Len(name) >= i THEN name[i] ELSE 57

(* Mutant: no characters before the number.                                *)
Shortened(names) == <<95>>

Diagonal(names) == [i \in 1..Len(names) |-> GetDifferentChar(CharOf(names[i], i))] \o <<95>>

NamesOf(entries) == [i \in 1..Len(entries) |-> entries[i].name]

MyForm == <<109, 121, 70, 111, 114, 109, 95>>

SourceEntries(p) == IF Place[p] = "none" THEN <<>> ELSE SourceDicts[SourceDict[p]]

PrefixFor(p) == IF Place[p] = "none" THEN MyForm ELSE Diagonal(NamesOf(SourceEntries(p)))

FormNames(prefix, forms) == [i \in 1..Len(forms) |-> Append(prefix, 47 + i)]

(* WriteModifiedResourcesDict: the entries there are, then the forms.      *)
(* Mutant: the forms replace the entries.                                  *)
FormsAlone(entries, names, forms) ==
    [i \in 1..Len(forms) |-> [name |-> names[i], object |-> forms[i]]]

WithForms(entries, names, forms) ==
    entries \o [i \in 1..Len(forms) |-> [name |-> names[i], object |-> forms[i]]]

(* A source dictionary that was written again keeps what it was given for  *)
(* another page: the page gets a copy of the source's.                     *)
(* Mutant: it is written again for each page that uses it.                 *)
WrittenInPlaceAlways(p) == Place[p] = "indirect"

WrittenInPlace(p) == Place[p] = "indirect" /\ SourceDict[p] \notin dirty

(***************************************************************************)
(* The new content: the source's between q and Q if that was asked for,    *)
(* then the forms.                                                         *)
(***************************************************************************)
Op(name) == [op |-> name]

(* Mutant: the closing Q is left to the viewer.                            *)
LeftOpen(p, ensure, names) ==
    (IF ensure THEN <<Op("q")>> ELSE <<>>) \o SourceContents(p)
    \o [i \in 1..Len(names) |-> [op |-> "Do", name |-> names[i]]]

(* Each form is placed between a q and a Q of its own.                     *)
PlacedForms(p, ensure, names) ==
    (IF ensure /\ HasContents[p] THEN <<Op("q")>> \o SourceContents(p) \o <<Op("Q")>>
     ELSE SourceContents(p))
    \o [i \in 1..Len(names) |-> [op |-> "Do", name |-> names[i]]]

(* Mutant: the annotations of the source are dropped.                      *)
NewOnly(p) == annotations

JoinedAnnotations(p) == SourceAnnots[p] \cup annotations

(* Mutant: they wait on, for the other pages.                              *)
KeptForOthers(p) == annotations

AnnotationsLeft(p) == {}

(* Every write starts from the source's page, with all forms of the        *)
(* object, and takes all annotations there are.                            *)
WriteDirtyPage(h, state) ==
    LET p == state.page
        names == FormNames(PrefixFor(p), state.forms)
        entries == WithForms(SourceEntries(p), names, state.forms)
    IN  /\ IF WrittenInPlace(p)
           THEN /\ dicts' = [dicts EXCEPT ![SourceDict[p]] = entries]
                /\ dirty' = dirty \cup {SourceDict[p]}
                /\ uses' = [uses EXCEPT ![p] = SourceDict[p]]
           ELSE /\ dicts' = Append(dicts, entries)
                /\ uses' = [uses EXCEPT ![p] = Len(dicts) + 1]
                /\ UNCHANGED dirty
        /\ contents' = [contents EXCEPT ![p] = PlacedForms(p, state.ensure, names)]
        /\ annots' = [annots EXCEPT ![p] = JoinedAnnotations(p)]
        /\ annotations' = AnnotationsLeft(p)
        /\ astray' = astray \cup (annotations \ state.links)
        /\ lost' = lost \cup (annots[p] \ SourceAnnots[p])
        /\ handles' = [handles EXCEPT ![h] = state]
        /\ promised' = [promised EXCEPT ![p] =
              [forms |-> @.forms \cup {state.forms[i] : i \in DOMAIN state.forms},
               ensured |-> state.ensure]]
        /\ writes' = writes + 1

(* A context that was left open is ended first; a page without changes is  *)
(* not written.                                                            *)
WritePage(h) ==
    /\ h \in Born /\ writes < MaxWrites
    /\ \A g \in Born \ {h} : handles[g].current = 0
    /\ LET state == ContextEnded(handles[h]) IN
        \/ state.isDirty /\ WriteDirtyPage(h, state)
        \/ ~state.isDirty /\ UNCHANGED vars
    /\ UNCHANGED lastForm

Next ==
    \E h \in Handles :
        \/ \E p \in Pages, ensure \in BOOLEAN : NewModifiedPage(h, p, ensure)
        \/ StartContentContext(h)
        \/ EndContentContext(h)
        \/ \E link \in Links : AttachURLLinktoCurrentPage(h, link)
        \/ WritePage(h)

Spec == Init /\ [][Next]_vars
-----------------------------------------------------------------------------
(***************************************************************************)
(* What a viewer finds.                                                    *)
(***************************************************************************)
EntriesOf(p) == IF uses[p] = 0 THEN <<>> ELSE dicts[uses[p]]
Resolved(p, name) ==
    {EntriesOf(p)[i].object : i \in {j \in DOMAIN EntriesOf(p) : EntriesOf(p)[j].name = name}}

Placed(p) == {i \in DOMAIN contents[p] : contents[p][i].op = "Do"}

(* The source may leave any graphics state behind: what it changes ends at *)
(* the Q that closes the q before it.                                      *)
Disturbed(p, i) ==
    \E s \in 1..i - 1 : /\ contents[p][s].op = "source"
                        /\ ~\E q \in 1..s - 1, z \in s + 1..i - 1 :
                              contents[p][q] = Op("q") /\ contents[p][z] = Op("Q")

(***************************************************************************)
(* Properties.                                                             *)
(***************************************************************************)
HandleStates ==
    [page : Pages, ensure : BOOLEAN, current : 0..MaxForms, forms : Seq(1..MaxForms),
     isDirty : BOOLEAN, links : SUBSET Links]

(* No object has more forms than there are, the open one included.         *)
TypeOK ==
    /\ handles \in [Handles -> HandleStates \cup {Unborn}]
    /\ \A h \in Born :
          Len(handles[h].forms) + (IF handles[h].current = 0 THEN 0 ELSE 1) <= lastForm
    /\ dicts \in Seq(Seq([name : Names, object : Int]))
    /\ Len(dicts) >= Len(SourceDicts)
    /\ uses \in [Pages -> 0..Len(dicts)]
    /\ dirty \subseteq DOMAIN SourceDicts
    /\ lastForm \in 0..MaxForms /\ writes \in 0..MaxWrites

(* No resources dictionary has two entries of one name: the diagonal names *)
(* differ from every name there was.                                       *)
NamesDistinct ==
    \A d \in DOMAIN dicts : \A i, j \in DOMAIN dicts[d] :
        dicts[d][i].name = dicts[d][j].name => i = j

(* A written page paints exactly the forms of its object, though another   *)
(* page that shares its resources was written before or after it.          *)
PageShowsItsForms ==
    \A p \in Pages :
        /\ \A i \in Placed(p) : \E f \in promised[p].forms : Resolved(p, contents[p][i].name) = {f}
        /\ \A f \in promised[p].forms : \E i \in Placed(p) : Resolved(p, contents[p][i].name) = {f}

(* Whatever was written, every page of the source, modified or not, still  *)
(* has its own content, annotations and named objects.                     *)
SourceKept ==
    \A p \in Pages :
        /\ SourceAnnots[p] \subseteq annots[p]
        /\ HasContents[p] => Op("source") \in {contents[p][i] : i \in DOMAIN contents[p]}
        /\ SourceDict[p] # 0 =>
              \A i \in DOMAIN SourceDicts[SourceDict[p]] :
                  LET e == SourceDicts[SourceDict[p]][i] IN Resolved(p, e.name) = {e.object}

(* A link that was attached through an object waits and is on no page, or  *)
(* is on the object's page, once it is written, and on no other: in any    *)
(* order of attaching and writing. Only a link that waited when a page was *)
(* written through another object may be on another page, still one, and   *)
(* only one whose page was written again may be on none.                   *)
PagesWith(link) == {p \in Pages : link \in annots[p]}

LinksOnTheirPage ==
    \A h \in Born : \A link \in handles[h].links :
        IF link \in annotations \cup lost THEN PagesWith(link) = {}
        ELSE IF link \in astray THEN \E p \in Pages : PagesWith(link) = {p}
        ELSE PagesWith(link) = {handles[h].page}

(* What users of PDFModifiedPage would expect: a link is on no other page  *)
(* than that of the object it was attached through.                        *)
LinksOnNoOtherPage ==
    \A h \in Born : \A link \in handles[h].links : PagesWith(link) \subseteq {handles[h].page}

(* And a link that does not wait any more is on a page.                    *)
LinksSomewhere ==
    \A h \in Born : \A link \in handles[h].links \ annotations : PagesWith(link) # {}

(* Forms of a page whose content was to be encapsulated are placed in the  *)
(* initial graphics state, whatever the source's content left behind.      *)
FormsAreIndependent ==
    \A p \in Pages : promised[p].ensured => \A i \in Placed(p) : ~Disturbed(p, i)

(* A page paints its own content and its own forms, and nothing in the one *)
(* reaches the other.                                                      *)
PagesAreRight ==
    /\ TypeOK
    /\ PageShowsItsForms
    /\ SourceKept
    /\ FormsAreIndependent
=============================================================================
