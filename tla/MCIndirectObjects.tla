------------------------- MODULE MCIndirectObjects -------------------------
(***************************************************************************)
(* Chains of sections without objects, and documents of one section: two   *)
(* object streams, their members and an integer, which depart from the     *)
(* plain document in up to two ways.                                       *)
(***************************************************************************)
EXTENDS IndirectObjects, FiniteSets

Entry_(type, position, revision) == [type |-> type, position |-> position, revision |-> revision]
Used(n) == Entry_("Existing", n, 0)
Free(n) == Entry_("Delete", n, 0)
In(stream, index) == Entry_("StreamObject", stream, index)

Sub(start, size) == [start |-> start, size |-> size]

First_(prev) ==
    [kind |-> "table", size |-> 3, prev |-> prev, xrefStm |-> None,
     subsections |-> <<Sub(1, 2), Sub(2, 1)>>, lines |-> <<Free(1), Used(1), Used(1)>>]
Second_(prev, xrefStm) ==
    [kind |-> "table", size |-> 2, prev |-> prev, xrefStm |-> xrefStm,
     subsections |-> <<Sub(0, 1), Sub(3, 1)>>, lines |-> <<Free(2), Used(2)>>]
Third_(prev, lines) ==
    [kind |-> "stream", size |-> 4, prev |-> prev, xrefStm |-> None,
     subsections |-> <<Sub(1, 1), Sub(0, 0), Sub(3, 2)>>, lines |-> lines]
Hidden ==
    [kind |-> "stream", size |-> 3, prev |-> None, xrefStm |-> None,
     subsections |-> <<Sub(2, 1)>>, lines |-> <<In(4, 0)>>]

StreamLines == {<<Used(3), Free(3), Used(3)>>, <<Used(3)>>, <<Used(3), Entry_("Bad", 3, 0)>>}

FileOf(sections, start) == [sections |-> sections, startxref |-> start, bodies |-> <<>>, encrypted |-> FALSE]

ChainFiles ==
    {FileOf(<<First_(p[1]), Second_(p[2], x), Third_(p[3], lines), Hidden>>, s) :
        p \in [1 .. 3 -> {None, 1, 2, 3}], x \in {None, 4}, lines \in StreamLines, s \in {2, 3}}

OddFiles ==
    {FileOf(<<[First_(None) EXCEPT !.size = NoSize]>>, 1),
     FileOf(<<[Third_(None, <<>>) EXCEPT !.size = 0, !.subsections = <<Sub(7, 0)>>]>>, 1),
     FileOf(<<[First_(None) EXCEPT !.kind = "other"], Second_(1, None)>>, 2),
     FileOf(<<First_(None), Second_(-1, None)>>, 2),
     FileOf(<<[First_(None) EXCEPT !.lines = <<Free(1)>>], Second_(1, None)>>, 2),
     FileOf(<<First_(None), [Second_(1, None) EXCEPT !.subsections = <<Sub(4, 2)>>]>>, 2),
     FileOf(<<First_(None), [Second_(1, None) EXCEPT !.subsections = <<Sub(5, 2)>>]>>, 2),
     FileOf(<<First_(None), [Second_(1, None) EXCEPT !.subsections = <<Sub(7, 2)>>]>>, 2),
     FileOf(<<First_(None), Second_(1, 1)>>, 2),
     FileOf(<<>>, 1)}

Body(id, what) == [NoBody EXCEPT !.id = id, !.what = what]
Stream(id, members, length, parameters) ==
    [Body(id, "stream") EXCEPT !.members = members, !.length = length, !.parameters = parameters]
MemberOf(id, what, short) == [id |-> id, what |-> what, short |-> short]

Plain ==
    [second |-> In(1, 0), third |-> In(1, 1), lengthOne |-> 0, lengthFive |-> 0, parameters |-> 0,
     fourth |-> Body(4, "integer"), member |-> "integer", short |-> FALSE, encrypted |-> FALSE]

Variants ==
    [second : {In(1, 0), In(5, 0)}, third : {In(1, 1), In(1, 0), In(1, 2)},
     lengthOne : {0, 4, 2, 1}, lengthFive : {0, 3, 4}, parameters : {0, 4, 3},
     fourth : {Body(4, "integer"), Body(4, "broken"), [Body(4, "integer") EXCEPT !.revision = 1]},
     member : {"integer", "broken"}, short : BOOLEAN, encrypted : BOOLEAN]

Document(c) ==
    [sections |-> <<[kind |-> "stream", size |-> 6, prev |-> None, xrefStm |-> None,
                     subsections |-> <<Sub(0, 6)>>,
                     lines |-> <<Free(0), Used(1), c.second, c.third,
                                 Entry_("Existing", 3, c.fourth.revision), Used(2)>>]>>,
     startxref |-> 1,
     bodies |-> <<Stream(1, <<MemberOf(2, "plain", c.short), MemberOf(3, c.member, FALSE)>>,
                         c.lengthOne, c.parameters),
                  Stream(5, <<MemberOf(2, "plain", FALSE)>>, c.lengthFive, 0),
                  c.fourth>>,
     encrypted |-> c.encrypted]

Documents ==
    {Document(c) : c \in {d \in Variants :
        Cardinality({part \in DOMAIN Plain : d[part] # Plain[part]}) <= 2}}

(* Parameters that need themselves, on the way through a length; and ones  *)
(* that need others, which are broken.                                     *)
Table(lines) ==
    [kind |-> "stream", size |-> 6, prev |-> None, xrefStm |-> None,
     subsections |-> <<Sub(0, Len(lines))>>, lines |-> lines]
Tangled ==
    {[sections |-> <<Table(<<Free(0), Used(1), In(5, 0), In(1, 1), Used(3), Used(2)>>)>>,
      startxref |-> 1,
      bodies |-> <<Stream(1, <<MemberOf(4, "plain", FALSE), MemberOf(3, "plain", FALSE)>>, 2, 0),
                   Stream(5, <<MemberOf(2, "integer", FALSE)>>, 0, 3),
                   Body(4, "integer")>>,
      encrypted |-> TRUE],
     [sections |-> <<Table(<<Free(0), Used(1), Used(2), Used(3)>>)>>,
      startxref |-> 1,
      bodies |-> <<Stream(1, <<>>, 0, 2), Stream(2, <<>>, 0, 3), Body(3, "broken")>>,
      encrypted |-> TRUE]}

MCFiles == {f \in ChainFiles : f.sections[1].prev \in {None, 2}} \cup OddFiles \cup Documents \cup Tangled
=============================================================================
