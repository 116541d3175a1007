------------------------- MODULE ModifiedPageProofs -------------------------
(***************************************************************************)
(* The diagonal of any names is new among them, and so no resources        *)
(* dictionary that modified pages leave behind has two entries of a name.  *)
(* From that, a written page paints its own content and exactly its forms, *)
(* though pages share dictionaries; and links are where they should be, in *)
(* any order of attaching and writing, though all pages share them.        *)
(***************************************************************************)
EXTENDS ModifiedPage, SequenceTheorems, TLAPS

Entries == [name : Names, object : Int]

Distinct(entries) ==
    \A i, j \in DOMAIN entries : entries[i].name = entries[j].name => i = j
-----------------------------------------------------------------------------
(* The diagonal argument: the new character differs from the old one.      *)
LEMMA CharDiffers ==
    ASSUME NEW c \in 0..255
    PROVE  GetDifferentChar(c) \in 0..255 /\ GetDifferentChar(c) # c
  BY DEF GetDifferentChar

LEMMA CharTyped ==
    ASSUME NEW name \in Names, NEW i \in Nat \ {0}
    PROVE  CharOf(name, i) \in 0..255
  <1>1. CASE Len(name) >= i
    <2>1. name \in Seq(0..255) /\ i \in 1..Len(name)
      BY <1>1, LenProperties DEF Names
    <2>2. name[i] \in 0..255
      BY <2>1, ElementOfSeq
    <2> QED
      BY <2>2, <1>1 DEF CharOf
  <1>2. CASE ~(Len(name) >= i)
    BY <1>2 DEF CharOf
  <1> QED
    BY <1>1, <1>2

LEMMA DiagonalTyped ==
    ASSUME NEW names \in Seq(Names)
    PROVE  /\ Diagonal(names) \in Names
           /\ Len(Diagonal(names)) = Len(names) + 1
           /\ \A i \in 1..Len(names) : Diagonal(names)[i] = GetDifferentChar(CharOf(names[i], i))
  <1> DEFINE chars == [i \in 1..Len(names) |-> GetDifferentChar(CharOf(names[i], i))]
  <1>1. \A i \in 1..Len(names) : GetDifferentChar(CharOf(names[i], i)) \in 0..255
    <2> TAKE i \in 1..Len(names)
    <2>1. names[i] \in Names /\ i \in Nat \ {0}
      BY ElementOfSeq
    <2>2. CharOf(names[i], i) \in 0..255
      BY <2>1, CharTyped
    <2> QED
      BY <2>2, CharDiffers
  <1>2. chars \in Seq(0..255) /\ Len(chars) = Len(names)
    BY <1>1
  <1> HIDE DEF chars
  <1>3. /\ chars \o <<95>> \in Seq(0..255)
        /\ Len(chars \o <<95>>) = Len(names) + 1
        /\ \A i \in 1..Len(names) : (chars \o <<95>>)[i] = chars[i]
    BY <1>2
  <1>4. Diagonal(names) = chars \o <<95>>
    BY DEF Diagonal, chars
  <1> QED
    BY <1>3, <1>4 DEF Names, chars

(* A diagonal name followed by anything is none of the names.              *)
THEOREM DiagonalIsFresh ==
    ASSUME NEW names \in Seq(Names), NEW c \in 0..255, NEW k \in 1..Len(names)
    PROVE  Append(Diagonal(names), c) # names[k]
  <1> SUFFICES ASSUME Append(Diagonal(names), c) = names[k]
               PROVE  FALSE
    OBVIOUS
  <1>1. names[k] \in Names
    OBVIOUS
  <1>2. /\ Diagonal(names) \in Seq(0..255)
        /\ Len(Diagonal(names)) = Len(names) + 1
    BY DiagonalTyped DEF Names
  <1>3. /\ Len(names[k]) = Len(names) + 2
        /\ names[k][k] = Diagonal(names)[k]
        /\ Len(names) \in Nat
    <2>1. Len(names) \in Nat /\ k \in 1..Len(Diagonal(names))
      BY <1>2, LenProperties
    <2>2. /\ Len(Append(Diagonal(names), c)) = Len(Diagonal(names)) + 1
          /\ Append(Diagonal(names), c)[k] = Diagonal(names)[k]
      <3> DEFINE d == Diagonal(names)
      <3>1. d \in Seq(0..255) /\ k \in 1..Len(d)
        BY <1>2, <2>1
      <3> HIDE DEF d
      <3>2. Len(Append(d, c)) = Len(d) + 1 /\ Append(d, c)[k] = d[k]
        BY <3>1, AppendProperties
      <3> QED
        BY <3>2 DEF d
    <2> QED
      BY <1>2, <2>1, <2>2
  <1>4. CharOf(names[k], k) = names[k][k]
    BY <1>3 DEF CharOf
  <1>5. names[k][k] \in 0..255
    <2>1. k \in Nat \ {0}
      BY <1>3
    <2>2. CharOf(names[k], k) \in 0..255
      BY <1>1, <2>1, CharTyped, Zenon
    <2> QED
      BY <1>4, <2>2, Zenon
  <1>6. Diagonal(names)[k] = GetDifferentChar(CharOf(names[k], k))
    <2>1. \A i \in 1..Len(names) : Diagonal(names)[i] = GetDifferentChar(CharOf(names[i], i))
      BY DiagonalTyped, Zenon
    <2> QED
      BY <2>1, Zenon
  <1>7. GetDifferentChar(names[k][k]) # names[k][k]
    BY <1>5, CharDiffers
  <1> QED
    BY <1>3, <1>4, <1>6, <1>7, Zenon
-----------------------------------------------------------------------------
LEMMA NamesOfTyped ==
    ASSUME NEW entries \in Seq(Entries)
    PROVE  /\ NamesOf(entries) \in Seq(Names) /\ Len(NamesOf(entries)) = Len(entries)
           /\ \A i \in 1..Len(entries) : NamesOf(entries)[i] = entries[i].name
  <1>1. \A i \in 1..Len(entries) : entries[i].name \in Names
    <2> TAKE i \in 1..Len(entries)
    <2>1. entries[i] \in Entries
      BY ElementOfSeq
    <2> QED
      BY <2>1 DEF Entries
  <1> QED
    BY <1>1 DEF NamesOf

LEMMA FormNamesTyped ==
    ASSUME NEW prefix \in Names, NEW forms \in Seq(1..MaxForms), Len(forms) <= 10
    PROVE  /\ Len(FormNames(prefix, forms)) = Len(forms)
           /\ \A i \in 1..Len(forms) : FormNames(prefix, forms)[i] = Append(prefix, 47 + i)
           /\ \A i \in 1..Len(forms) : FormNames(prefix, forms)[i] \in Names
           /\ \A i, j \in 1..Len(forms) :
                 FormNames(prefix, forms)[i] = FormNames(prefix, forms)[j] => i = j
  <1>1. /\ Len(FormNames(prefix, forms)) = Len(forms)
        /\ \A i \in 1..Len(forms) : FormNames(prefix, forms)[i] = Append(prefix, 47 + i)
    BY DEF FormNames
  <1>2. \A i \in 1..Len(forms) : Append(prefix, 47 + i) \in Names
    BY DEF Names
  <1>3. ASSUME NEW i \in 1..Len(forms), NEW j \in 1..Len(forms),
               Append(prefix, 47 + i) = Append(prefix, 47 + j)
        PROVE  i = j
    <2>1. Append(prefix, 47 + i)[Len(prefix) + 1] = 47 + i
      BY DEF Names
    <2>2. Append(prefix, 47 + j)[Len(prefix) + 1] = 47 + j
      BY DEF Names
    <2> QED
      BY <2>1, <2>2, <1>3
  <1> QED
    BY <1>1, <1>2, <1>3

(* Forms under names that are distinct and new leave a dictionary distinct.*)
LEMMA WithFormsDistinct ==
    ASSUME NEW entries \in Seq(Entries), Distinct(entries),
           NEW forms \in Seq(1..MaxForms), Len(forms) <= 10, MaxForms \in Nat,
           NEW prefix \in Names,
           \A k \in 1..Len(entries), i \in 1..Len(forms) :
               Append(prefix, 47 + i) # entries[k].name
    PROVE  /\ WithForms(entries, FormNames(prefix, forms), forms) \in Seq(Entries)
           /\ Distinct(WithForms(entries, FormNames(prefix, forms), forms))
  <1> DEFINE names == FormNames(prefix, forms)
             more == [i \in 1..Len(forms) |-> [name |-> names[i], object |-> forms[i]]]
             n == Len(entries)
  <1>0. n \in Nat /\ Len(forms) \in Nat
    BY LenProperties
  <1>1. /\ Len(names) = Len(forms)
        /\ \A i \in 1..Len(forms) : names[i] \in Names
        /\ \A i \in 1..Len(forms), k \in 1..n : names[i] # entries[k].name
        /\ \A i, j \in 1..Len(forms) : names[i] = names[j] => i = j
    BY FormNamesTyped, ZenonT(60)
  <1> HIDE DEF names
  <1>2. \A i \in 1..Len(forms) : [name |-> names[i], object |-> forms[i]] \in Entries
    BY <1>1 DEF Entries
  <1>3. /\ more \in Seq(Entries) /\ Len(more) = Len(forms)
        /\ \A i \in 1..Len(forms) : more[i].name = names[i]
    BY <1>2
  <1> HIDE DEF more
  <1>4. /\ entries \o more \in Seq(Entries)
        /\ Len(entries \o more) = n + Len(forms)
        /\ \A i \in 1..n : (entries \o more)[i] = entries[i]
        /\ \A i \in n + 1..n + Len(forms) : (entries \o more)[i] = more[i - n]
    <2>1. entries \in Seq(Entries) /\ more \in Seq(Entries)
      BY <1>3
    <2>2. /\ entries \o more \in Seq(Entries)
          /\ Len(entries \o more) = Len(entries) + Len(more)
          /\ \A i \in 1..Len(entries) + Len(more) : (entries \o more)[i] =
                IF i <= Len(entries) THEN entries[i] ELSE more[i - Len(entries)]
      BY <2>1, ConcatProperties
    <2> QED
      BY <2>2, <1>0, <1>3
  <1>5. ASSUME NEW i \in 1..n + Len(forms), NEW j \in 1..n + Len(forms),
               (entries \o more)[i].name = (entries \o more)[j].name
        PROVE  i = j
    <2>1. CASE i \in 1..n /\ j \in 1..n
      BY <2>1, <1>4, <1>5 DEF Distinct
    <2>2. CASE i \in 1..n /\ j \notin 1..n
      <3>1. j - n \in 1..Len(forms) /\ (entries \o more)[j].name = names[j - n]
        BY <2>2, <1>0, <1>3, <1>4
      <3>2. names[j - n] # entries[i].name
        BY <3>1, <2>2, <1>1
      <3>3. (entries \o more)[i] = entries[i]
        BY <2>2, <1>4
      <3> QED
        BY <3>1, <3>2, <3>3, <1>5
    <2>3. CASE i \notin 1..n /\ j \in 1..n
      <3>1. i - n \in 1..Len(forms) /\ (entries \o more)[i].name = names[i - n]
        BY <2>3, <1>0, <1>3, <1>4
      <3>2. names[i - n] # entries[j].name
        BY <3>1, <2>3, <1>1
      <3>3. (entries \o more)[j] = entries[j]
        BY <2>3, <1>4
      <3> QED
        BY <3>1, <3>2, <3>3, <1>5
    <2>4. CASE i \notin 1..n /\ j \notin 1..n
      <3>1. j - n \in 1..Len(forms) /\ (entries \o more)[j].name = names[j - n]
        BY <2>4, <1>0, <1>3, <1>4
      <3>2. i - n \in 1..Len(forms) /\ (entries \o more)[i].name = names[i - n]
        BY <2>4, <1>0, <1>3, <1>4
      <3>3. names[i - n] = names[j - n]
        BY <3>1, <3>2, <1>5
      <3>4. i - n = j - n
        BY <3>1, <3>2, <3>3, <1>1
      <3> QED
        BY <3>4, <1>0
    <2> QED
      BY <2>1, <2>2, <2>3, <2>4
  <1>6. WithForms(entries, names, forms) = entries \o more
    BY DEF WithForms, more
  <1>7. DOMAIN (entries \o more) = 1..n + Len(forms)
    BY <1>4
  <1> QED
    BY <1>4, <1>5, <1>6, <1>7 DEF Distinct, names
-----------------------------------------------------------------------------
(* What WritePage leaves in a resources dictionary, whichever page it was. *)
LEMMA WrittenEntries ==
    ASSUME NEW p \in Pages, NEW forms \in Seq(1..MaxForms), Len(forms) <= MaxForms
    PROVE  LET written == WithForms(SourceEntries(p), FormNames(PrefixFor(p), forms), forms)
           IN  written \in Seq(Entries) /\ Distinct(written)
  <1>1. MaxForms \in Nat /\ Len(forms) <= 10
    BY LenProperties, ModifiedPageAssumption
  <1>2. CASE Place[p] = "none"
    <2>1. SourceEntries(p) = <<>> /\ PrefixFor(p) = MyForm
      BY <1>2 DEF SourceEntries, PrefixFor
    <2>2. MyForm \in Names
      BY DEF MyForm, Names
    <2>3. <<>> \in Seq(Entries) /\ Len(<<>>) = 0 /\ Distinct(<<>>)
      BY DEF Distinct
    <2>4. \A k \in 1..Len(<<>>), i \in 1..Len(forms) :
             Append(MyForm, 47 + i) # <<>>[k].name
      BY <2>3
    <2>5. /\ WithForms(<<>>, FormNames(MyForm, forms), forms) \in Seq(Entries)
          /\ Distinct(WithForms(<<>>, FormNames(MyForm, forms), forms))
      <3> DEFINE none == <<>>
      <3>1. /\ none \in Seq(Entries) /\ Distinct(none)
            /\ \A k \in 1..Len(none), i \in 1..Len(forms) :
                 Append(MyForm, 47 + i) # none[k].name
        BY <2>3, <2>4
      <3> HIDE DEF none
      <3>2. /\ WithForms(none, FormNames(MyForm, forms), forms) \in Seq(Entries)
            /\ Distinct(WithForms(none, FormNames(MyForm, forms), forms))
        BY <1>1, <2>2, <3>1, WithFormsDistinct
      <3> QED
        BY <3>2 DEF none
    <2> QED
      BY <2>1, <2>5
  <1>3. CASE Place[p] # "none"
    <2> DEFINE source == SourceEntries(p)
               prefix == PrefixFor(p)
    <2>1. SourceDict[p] \in 1..Len(SourceDicts) /\ SourceDicts \in Seq(Seq(Entries))
      <3>1. SourceDict[p] \in 0..Len(SourceDicts) /\ SourceDict[p] # 0
        BY <1>3, ModifiedPageAssumption
      <3>2. SourceDicts \in Seq(Seq(Entries))
        BY ModifiedPageAssumption DEF Entries
      <3> QED
        BY <3>1, <3>2
    <2>2. source = SourceDicts[SourceDict[p]] /\ prefix = Diagonal(NamesOf(source))
      BY <1>3 DEF SourceEntries, PrefixFor
    <2>3. source \in Seq(Entries)
      BY <2>1, <2>2, ElementOfSeq
    <2>4. Distinct(source)
      BY <2>1, <2>2, ModifiedPageAssumption DEF Distinct
    <2> HIDE DEF source, prefix
    <2>5. prefix \in Names
      BY <2>2, <2>3, NamesOfTyped, DiagonalTyped
    <2>6. ASSUME NEW k \in 1..Len(source), NEW i \in 1..Len(forms)
          PROVE  Append(prefix, 47 + i) # source[k].name
      <3>1. 47 + i \in 0..255
        BY <1>1
      <3>2. /\ NamesOf(source) \in Seq(Names)
            /\ k \in 1..Len(NamesOf(source))
            /\ NamesOf(source)[k] = source[k].name
        BY <2>3, NamesOfTyped
      <3> QED
        BY <2>2, <3>1, <3>2, DiagonalIsFresh
    <2>7. WithForms(source, FormNames(prefix, forms), forms) \in Seq(Entries)
      BY <1>1, <2>3, <2>4, <2>5, <2>6, WithFormsDistinct
    <2>8. Distinct(WithForms(source, FormNames(prefix, forms), forms))
      BY <1>1, <2>3, <2>4, <2>5, <2>6, WithFormsDistinct
    <2> QED
      BY <2>7, <2>8 DEF source, prefix
  <1> QED
    BY <1>2, <1>3
-----------------------------------------------------------------------------
(* An object has forms enough among n, for its open one too.               *)
Fits(state, n) == Len(state.forms) + (IF state.current = 0 THEN 0 ELSE 1) <= n

IInv == TypeOK /\ NamesDistinct

LEMMA InitIInv == Init => IInv
  <1> SUFFICES ASSUME Init PROVE IInv
    OBVIOUS
  <1>1. SourceDicts \in Seq(Seq(Entries)) /\ uses = SourceDict /\ MaxForms \in Nat /\ MaxWrites \in Nat
    BY ModifiedPageAssumption DEF Init, Entries
  <1>2. Born = {}
    BY DEF Init, Born
  <1>3. TypeOK
    BY <1>1, <1>2, ModifiedPageAssumption DEF Init, TypeOK, Entries
  <1>4. NamesDistinct
    BY ModifiedPageAssumption DEF Init, NamesDistinct
  <1> QED
    BY <1>3, <1>4 DEF IInv

(* An object that is born has a state, with room for its open form.        *)
LEMMA StateOfBorn ==
    ASSUME TypeOK, NEW h \in Born
    PROVE  /\ h \in Handles /\ handles[h] \in HandleStates
           /\ Len(handles[h].forms) \in Nat
           /\ Len(handles[h].forms) + (IF handles[h].current = 0 THEN 0 ELSE 1) <= lastForm
  <1>1. h \in Handles /\ handles[h] \in HandleStates
    BY DEF TypeOK, Born
  <1>2. handles[h].forms \in Seq(1..MaxForms)
    BY <1>1 DEF HandleStates
  <1> QED
    BY <1>1, <1>2, LenProperties DEF TypeOK

(* What keeps the types when one object's operation ran.                   *)
LEMMA StateUpdated ==
    ASSUME TypeOK, NEW h \in Handles,
           handles' \in [Handles -> HandleStates \cup {Unborn}],
           \A g \in Handles \ {h} : handles'[g] = handles[g],
           Fits(handles'[h], lastForm'), lastForm' \in lastForm..MaxForms,
           UNCHANGED <<dicts, uses, dirty, writes>>
    PROVE  TypeOK'
  <1>1. lastForm \in Nat /\ lastForm' \in 0..MaxForms /\ lastForm <= lastForm'
    BY ModifiedPageAssumption DEF TypeOK
  <1>2. ASSUME NEW g \in Born'
        PROVE  Fits(handles'[g], lastForm')
    <2>1. CASE g = h
      BY <2>1
    <2>2. CASE g # h
      <3>1. g \in Born /\ handles'[g] = handles[g]
        BY <2>2 DEF Born
      <3>2. Fits(handles[g], lastForm) /\ Len(handles[g].forms) \in Nat
        BY <3>1, StateOfBorn DEF Fits
      <3>3. Fits(handles[g], lastForm')
        <4>1. lastForm' \in Nat /\ lastForm \in Nat /\ lastForm <= lastForm'
          BY <1>1
        <4>2. CASE handles[g].current = 0
          <5>1. Len(handles[g].forms) <= lastForm
            BY <3>2, <4>2 DEF Fits
          <5>2. Len(handles[g].forms) <= lastForm'
            BY <3>2, <4>1, <5>1
          <5> QED
            BY <3>2, <4>2, <5>2 DEF Fits
        <4>3. CASE handles[g].current # 0
          <5>1. Len(handles[g].forms) + 1 <= lastForm
            BY <4>3, <3>2 DEF Fits
          <5>2. Len(handles[g].forms) + 1 <= lastForm'
            BY <3>2, <4>1, <5>1
          <5> QED
            BY <4>3, <5>2 DEF Fits
        <4> QED
          BY <4>2, <4>3
      <3> QED
        BY <3>1, <3>3
    <2> QED
      BY <2>1, <2>2
  <1> QED
    BY <1>1, <1>2 DEF TypeOK, Fits
-----------------------------------------------------------------------------
(* A form that is open goes to the forms the page will place.              *)
LEMMA EndedState ==
    ASSUME TypeOK, NEW h \in Born
    PROVE  /\ ContextEnded(handles[h]) \in HandleStates
           /\ ContextEnded(handles[h]).current = 0
           /\ ContextEnded(handles[h]).page = handles[h].page
           /\ Len(ContextEnded(handles[h]).forms) <= lastForm
  <1> DEFINE state == handles[h]
  <1>1. state \in HandleStates /\ state.forms \in Seq(1..MaxForms) /\ state.current \in 0..MaxForms
    BY StateOfBorn DEF HandleStates
  <1>2. Len(state.forms) + (IF state.current = 0 THEN 0 ELSE 1) <= lastForm
    BY StateOfBorn
  <1> HIDE DEF state
  <1>3. CASE state.current = 0
    BY <1>1, <1>2, <1>3 DEF ContextEnded, state
  <1>4. CASE state.current # 0
    <2>1. state.current \in 1..MaxForms
      BY <1>1, <1>4, ModifiedPageAssumption
    <2>2. /\ Append(state.forms, state.current) \in Seq(1..MaxForms)
          /\ Len(Append(state.forms, state.current)) = Len(state.forms) + 1
      BY <1>1, <2>1, AppendProperties
    <2>3. ContextEnded(state) =
             [state EXCEPT !.isDirty = TRUE, !.forms = Append(state.forms, state.current),
                           !.current = 0]
      BY <1>4 DEF ContextEnded
    <2>4. ContextEnded(state) \in HandleStates
      <3> DEFINE more == Append(state.forms, state.current)
      <3>1. more \in Seq(1..MaxForms) /\ 0 \in 0..MaxForms
        BY <2>2, ModifiedPageAssumption
      <3> HIDE DEF more
      <3>2. [state EXCEPT !.isDirty = TRUE, !.forms = more, !.current = 0] \in HandleStates
        BY <1>1, <3>1 DEF HandleStates
      <3> QED
        BY <2>3, <3>2 DEF more
    <2>5. /\ ContextEnded(state).current = 0 /\ ContextEnded(state).page = state.page
          /\ ContextEnded(state).forms = Append(state.forms, state.current)
      BY <1>1, <2>3 DEF HandleStates
    <2> QED
      BY <1>2, <1>4, <2>2, <2>4, <2>5 DEF state
  <1> QED
    BY <1>3, <1>4

(* Only writing a page touches dictionaries.                               *)
LEMMA DictsKept == NamesDistinct /\ UNCHANGED dicts => NamesDistinct'
  BY DEF NamesDistinct

LEMMA WriteKeepsIInv ==
    ASSUME IInv, NEW h \in Born, writes < MaxWrites, UNCHANGED lastForm,
           WriteDirtyPage(h, ContextEnded(handles[h]))
    PROVE  IInv'
  <1> DEFINE state == ContextEnded(handles[h])
             p == state.page
             entries == WithForms(SourceEntries(p), FormNames(PrefixFor(p), state.forms), state.forms)
  <1>1. /\ TypeOK /\ NamesDistinct
        /\ state \in HandleStates /\ state.current = 0 /\ Len(state.forms) <= lastForm
    BY EndedState DEF IInv
  <1>2. lastForm \in Nat /\ lastForm <= MaxForms /\ h \in Handles
    <2>1. h \in Handles
      BY <1>1, StateOfBorn
    <2> QED
      BY <1>1, <2>1, ModifiedPageAssumption DEF TypeOK
  <1> HIDE DEF state
  <1>3. p \in Pages /\ state.forms \in Seq(1..MaxForms)
    BY <1>1 DEF HandleStates
  <1>4. entries \in Seq(Entries) /\ Distinct(entries)
    <2>1. Len(state.forms) \in Nat /\ Len(state.forms) <= MaxForms
      BY <1>1, <1>2, <1>3, LenProperties, ModifiedPageAssumption
    <2> QED
      BY <1>3, <2>1, WrittenEntries
  <1>5. /\ handles' = [handles EXCEPT ![h] = state] /\ writes' = writes + 1
        /\ IF WrittenInPlace(p)
           THEN /\ dicts' = [dicts EXCEPT ![SourceDict[p]] = entries]
                /\ dirty' = dirty \cup {SourceDict[p]}
                /\ uses' = [uses EXCEPT ![p] = SourceDict[p]]
           ELSE /\ dicts' = Append(dicts, entries)
                /\ uses' = [uses EXCEPT ![p] = Len(dicts) + 1]
                /\ UNCHANGED dirty
    BY DEF WriteDirtyPage, state
  <1> HIDE DEF entries, p
  <1>6. /\ handles' \in [Handles -> HandleStates \cup {Unborn}]
        /\ \A g \in Born' :
              Len(handles'[g].forms) + (IF handles'[g].current = 0 THEN 0 ELSE 1) <= lastForm
    <2>1. handles' \in [Handles -> HandleStates \cup {Unborn}]
      BY <1>1, <1>5 DEF TypeOK
    <2>2. ASSUME NEW g \in Born'
          PROVE  Len(handles'[g].forms) + (IF handles'[g].current = 0 THEN 0 ELSE 1) <= lastForm
      <3>1. CASE g = h
        <4>1. handles'[g] = state
          BY <1>1, <1>2, <1>5, <3>1 DEF TypeOK
        <4>2. Len(state.forms) \in Nat
          BY <1>3, LenProperties
        <4> QED
          BY <4>1, <4>2, <1>1, <1>2
      <3>2. CASE g # h
        <4>1. g \in Born /\ handles'[g] = handles[g]
          BY <1>1, <1>5, <3>2 DEF TypeOK, Born
        <4> QED
          BY <4>1, <1>1, StateOfBorn
      <3> QED
        BY <3>1, <3>2
    <2> QED
      BY <2>1, <2>2
  <1>7. /\ dicts \in Seq(Seq(Entries)) /\ Len(dicts) \in Nat
        /\ Len(SourceDicts) \in Nat /\ Len(dicts) >= Len(SourceDicts)
        /\ uses \in [Pages -> 0..Len(dicts)] /\ SourceDict[p] \in 0..Len(SourceDicts)
    BY <1>1, <1>3, LenProperties, ModifiedPageAssumption DEF TypeOK, Entries
  <1>8. \A d \in 1..Len(dicts) : Distinct(dicts[d])
    BY <1>1, <1>7, LenProperties DEF NamesDistinct, Distinct
  <1>9. CASE WrittenInPlace(p)
    <2>1. SourceDict[p] \in 1..Len(SourceDicts)
      BY <1>3, <1>7, <1>9, ModifiedPageAssumption DEF WrittenInPlace
    <2>2. SourceDict[p] \in 1..Len(dicts)
      BY <1>7, <2>1
    <2>3. /\ dicts' \in Seq(Seq(Entries)) /\ Len(dicts') = Len(dicts)
          /\ \A d \in 1..Len(dicts) :
                dicts'[d] = IF d = SourceDict[p] THEN entries ELSE dicts[d]
      <3>1. dicts' = [dicts EXCEPT ![SourceDict[p]] = entries]
        BY <1>5, <1>9
      <3> QED
        BY <3>1, <1>4, <1>7, <2>2, ExceptSeq
    <2>4. NamesDistinct'
      <3>1. ASSUME NEW d \in 1..Len(dicts)
            PROVE  Distinct(dicts'[d])
        BY <1>8, <1>4, <2>3
      <3>2. DOMAIN dicts' = 1..Len(dicts)
        BY <2>3, LenProperties
      <3> QED
        BY <3>1, <3>2 DEF NamesDistinct, Distinct
    <2>5. uses' \in [Pages -> 0..Len(dicts')] /\ dirty' \subseteq DOMAIN SourceDicts
      <3>1. DOMAIN SourceDicts = 1..Len(SourceDicts) /\ dirty \subseteq DOMAIN SourceDicts
        BY <1>1, LenProperties, ModifiedPageAssumption DEF TypeOK
      <3>2. uses' = [uses EXCEPT ![p] = SourceDict[p]] /\ dirty' = dirty \cup {SourceDict[p]}
        BY <1>5, <1>9
      <3>3. SourceDict[p] \in 0..Len(dicts)
        BY <1>7, <2>2
      <3> QED
        BY <1>7, <2>1, <2>3, <3>1, <3>2, <3>3
    <2> QED
      <3>1. /\ dicts' \in Seq(Seq([name : Names, object : Int]))
            /\ Len(dicts') >= Len(SourceDicts)
        BY <1>7, <2>3 DEF Entries
      <3>2. lastForm' \in 0..MaxForms /\ writes' \in 0..MaxWrites
        BY <1>1, <1>5, ModifiedPageAssumption DEF TypeOK
      <3>3. TypeOK'
        BY <1>6, <2>5, <3>1, <3>2 DEF TypeOK
      <3> QED
        BY <2>4, <3>3 DEF IInv
  <1>10. CASE ~WrittenInPlace(p)
    <2>1. /\ dicts' \in Seq(Seq(Entries)) /\ Len(dicts') = Len(dicts) + 1
          /\ \A d \in 1..Len(dicts) : dicts'[d] = dicts[d]
          /\ dicts'[Len(dicts) + 1] = entries
      <3>1. dicts' = Append(dicts, entries)
        BY <1>5, <1>10
      <3> QED
        BY <3>1, <1>4, <1>7, AppendProperties
    <2>2. ASSUME NEW d \in 1..Len(dicts) + 1
          PROVE  Distinct(dicts'[d])
      <3>1. CASE d \in 1..Len(dicts)
        BY <1>8, <2>1, <3>1
      <3>2. CASE d \notin 1..Len(dicts)
        BY <1>4, <1>7, <2>1, <3>2
      <3> QED
        BY <3>1, <3>2
    <2>3. NamesDistinct'
      BY <1>7, <2>1, <2>2, LenProperties DEF NamesDistinct, Distinct
    <2>4. uses' \in [Pages -> 0..Len(dicts')] /\ dirty' \subseteq DOMAIN SourceDicts
      <3>1. uses' = [uses EXCEPT ![p] = Len(dicts) + 1] /\ dirty' = dirty
        BY <1>5, <1>10
      <3>2. Len(dicts) + 1 \in 0..Len(dicts') /\ 0..Len(dicts) \subseteq 0..Len(dicts')
        BY <1>7, <2>1
      <3>3. uses' \in [Pages -> 0..Len(dicts')]
        BY <1>7, <3>1, <3>2
      <3> QED
        BY <1>1, <3>1, <3>3 DEF TypeOK
    <2> QED
      <3>1. /\ dicts' \in Seq(Seq([name : Names, object : Int]))
            /\ Len(dicts') >= Len(SourceDicts)
        BY <1>7, <2>1 DEF Entries
      <3>2. lastForm' \in 0..MaxForms /\ writes' \in 0..MaxWrites
        BY <1>1, <1>5, ModifiedPageAssumption DEF TypeOK
      <3>3. TypeOK'
        BY <1>6, <2>4, <3>1, <3>2 DEF TypeOK
      <3> QED
        BY <2>3, <3>3 DEF IInv
  <1> QED
    BY <1>9, <1>10
-----------------------------------------------------------------------------
LEMMA NextIInv == IInv /\ [Next]_vars => IInv'
  <1> SUFFICES ASSUME IInv, [Next]_vars PROVE IInv'
    OBVIOUS
  <1>1. TypeOK /\ NamesDistinct
    BY DEF IInv
  <1>2. lastForm \in Nat /\ lastForm <= MaxForms /\ MaxForms \in Nat
    BY <1>1, ModifiedPageAssumption DEF TypeOK
  <1>3. CASE UNCHANGED vars
    BY <1>1, <1>3 DEF vars, IInv, TypeOK, NamesDistinct, Born
  <1>4. ASSUME NEW h \in Handles, NEW p \in Pages, NEW ensure \in BOOLEAN,
               NewModifiedPage(h, p, ensure)
        PROVE  IInv'
    <2> DEFINE state == [page |-> p, ensure |-> ensure, current |-> 0, forms |-> <<>>,
                         isDirty |-> FALSE, links |-> {}]
    <2>1. state \in HandleStates /\ Len(state.forms) = 0 /\ state.current = 0
      BY <1>2 DEF HandleStates
    <2>2. handles' = [handles EXCEPT ![h] = state] /\ UNCHANGED <<dicts, dirty, uses, lastForm, writes>>
      BY <1>4 DEF NewModifiedPage
    <2> HIDE DEF state
    <2>3. TypeOK'
      <3>1. Fits(state, lastForm)
        BY <1>2, <2>1 DEF Fits
      <3>2. /\ handles' \in [Handles -> HandleStates \cup {Unborn}]
            /\ handles'[h] = state
            /\ \A g \in Handles \ {h} : handles'[g] = handles[g]
        BY <1>1, <2>1, <2>2 DEF TypeOK
      <3>3. lastForm' \in lastForm..MaxForms /\ Fits(handles'[h], lastForm')
        BY <1>2, <2>2, <3>1, <3>2
      <3> QED
        BY <1>1, <2>2, <3>2, <3>3, StateUpdated
    <2> QED
      BY <1>1, <2>2, <2>3, DictsKept DEF IInv
  <1>5. ASSUME NEW h \in Handles, StartContentContext(h)
        PROVE  IInv'
    <2> DEFINE state == [handles[h] EXCEPT !.current = lastForm + 1]
    <2>1. h \in Born /\ handles[h].current = 0 /\ lastForm < MaxForms
      BY <1>5 DEF StartContentContext, NoneOpen
    <2>2. /\ handles[h] \in HandleStates /\ Len(handles[h].forms) \in Nat
          /\ Len(handles[h].forms) <= lastForm
      <3>1. /\ handles[h] \in HandleStates /\ Len(handles[h].forms) \in Nat
            /\ Len(handles[h].forms) + (IF handles[h].current = 0 THEN 0 ELSE 1) <= lastForm
        BY <1>1, <2>1, StateOfBorn
      <3> QED
        BY <1>2, <2>1, <3>1
    <2>3. /\ state \in HandleStates /\ state.forms = handles[h].forms
          /\ state.current = lastForm + 1
      BY <1>2, <2>1, <2>2, SMTT(30) DEF HandleStates
    <2>4. /\ handles' = [handles EXCEPT ![h] = state] /\ lastForm' = lastForm + 1
          /\ UNCHANGED <<dicts, dirty, uses, writes>>
      BY <1>5 DEF StartContentContext
    <2> HIDE DEF state
    <2>5. TypeOK'
      <3>1. Fits(state, lastForm + 1)
        <4>1. (IF state.current = 0 THEN 0 ELSE 1) = 1
          BY <1>2, <2>3
        <4>2. Len(state.forms) + 1 <= lastForm + 1
          BY <1>2, <2>2, <2>3
        <4> QED
          BY <4>1, <4>2 DEF Fits
      <3>2. lastForm + 1 \in Nat /\ lastForm <= lastForm + 1 /\ lastForm + 1 <= MaxForms
        BY <1>2, <2>1
      <3>3. /\ handles' \in [Handles -> HandleStates \cup {Unborn}]
            /\ handles'[h] = state
            /\ \A g \in Handles \ {h} : handles'[g] = handles[g]
        BY <1>1, <2>3, <2>4 DEF TypeOK
      <3>4. lastForm' \in lastForm..MaxForms /\ Fits(handles'[h], lastForm')
        BY <1>2, <2>4, <3>1, <3>2, <3>3
      <3> QED
        BY <1>1, <2>4, <3>3, <3>4, StateUpdated
    <2> QED
      BY <1>1, <2>4, <2>5, DictsKept DEF IInv
  <1>6. ASSUME NEW h \in Handles, EndContentContext(h)
        PROVE  IInv'
    <2> DEFINE state == ContextEnded(handles[h])
    <2>1. h \in Born
      BY <1>6 DEF EndContentContext
    <2>2. state \in HandleStates /\ state.current = 0 /\ Len(state.forms) <= lastForm
      BY <1>1, <2>1, EndedState
    <2>3. /\ handles' = [handles EXCEPT ![h] = state]
          /\ UNCHANGED <<dicts, dirty, uses, lastForm, writes>>
      BY <1>6 DEF EndContentContext
    <2> HIDE DEF state
    <2>4. Fits(state, lastForm)
      <3>1. Len(state.forms) \in Nat
        BY <2>2, LenProperties DEF HandleStates
      <3> QED
        BY <2>2, <3>1 DEF Fits
    <2>5. TypeOK'
      <3>1. /\ handles' \in [Handles -> HandleStates \cup {Unborn}]
            /\ handles'[h] = state
            /\ \A g \in Handles \ {h} : handles'[g] = handles[g]
        BY <1>1, <2>2, <2>3 DEF TypeOK
      <3>2. lastForm' \in lastForm..MaxForms /\ Fits(handles'[h], lastForm')
        BY <1>2, <2>3, <2>4, <3>1
      <3> QED
        BY <1>1, <2>3, <3>1, <3>2, StateUpdated
    <2> QED
      BY <1>1, <2>3, <2>5, DictsKept DEF IInv
  <1>7. ASSUME NEW h \in Handles, NEW link \in Links, AttachURLLinktoCurrentPage(h, link)
        PROVE  IInv'
    <2> DEFINE state == [handles[h] EXCEPT !.isDirty = TRUE, !.links = @ \cup {link}]
    <2>1. h \in Born
      BY <1>7 DEF AttachURLLinktoCurrentPage
    <2>2. /\ handles[h] \in HandleStates /\ Len(handles[h].forms) \in Nat
          /\ Len(handles[h].forms) + (IF handles[h].current = 0 THEN 0 ELSE 1) <= lastForm
      BY <1>1, <2>1, StateOfBorn
    <2>3. /\ state \in HandleStates /\ state.forms = handles[h].forms
          /\ state.current = handles[h].current
      BY <2>2 DEF HandleStates
    <2>4. /\ handles' = [handles EXCEPT ![h] = state]
          /\ UNCHANGED <<dicts, dirty, uses, lastForm, writes>>
      BY <1>7 DEF AttachURLLinktoCurrentPage
    <2> HIDE DEF state
    <2>5. TypeOK'
      <3>1. Fits(state, lastForm)
        BY <2>2, <2>3 DEF Fits
      <3>2. /\ handles' \in [Handles -> HandleStates \cup {Unborn}]
            /\ handles'[h] = state
            /\ \A g \in Handles \ {h} : handles'[g] = handles[g]
        BY <1>1, <2>3, <2>4 DEF TypeOK
      <3>3. lastForm' \in lastForm..MaxForms /\ Fits(handles'[h], lastForm')
        BY <1>2, <2>4, <3>1, <3>2
      <3> QED
        BY <1>1, <2>4, <3>2, <3>3, StateUpdated
    <2> QED
      BY <1>1, <2>4, <2>5, DictsKept DEF IInv
  <1>8. ASSUME NEW h \in Handles, WritePage(h)
        PROVE  IInv'
    <2>1. h \in Born /\ writes < MaxWrites /\ UNCHANGED lastForm
      BY <1>8 DEF WritePage
    <2>2. CASE WriteDirtyPage(h, ContextEnded(handles[h]))
      BY <2>1, <2>2, WriteKeepsIInv
    <2>3. CASE UNCHANGED vars
      BY <1>3, <2>3
    <2> QED
      BY <1>8, <2>2, <2>3 DEF WritePage
  <1> QED
    BY <1>3, <1>4, <1>5, <1>6, <1>7, <1>8 DEF Next

(* The state of every object, and the dictionaries, stay what they are     *)
(* declared to be, in every document and under every sequence of calls.    *)
THEOREM TypesHold == Spec => []TypeOK
  <1>1. Spec => []IInv
    BY InitIInv, NextIInv, PTL DEF Spec
  <1>2. IInv => TypeOK
    BY DEF IInv
  <1> QED
    BY <1>1, <1>2, PTL

(* No resources dictionary that pages are left with has two entries of one *)
(* name, whichever names the source document has: no form of a modified    *)
(* page hides an image of the page, or another form.                       *)
THEOREM NamesStayDistinct == Spec => []NamesDistinct
  <1>1. Spec => []IInv
    BY InitIInv, NextIInv, PTL DEF Spec
  <1>2. IInv => NamesDistinct
    BY DEF IInv
  <1> QED
    BY <1>1, <1>2, PTL
-----------------------------------------------------------------------------
FormsOf(fs) == {fs[i] : i \in DOMAIN fs}
NamesFor(p, fs) == FormNames(PrefixFor(p), fs)

(* Nothing has been written for a page itself, though its dictionary may   *)
(* have been written for another one.                                      *)
Untouched(p) ==
    /\ contents[p] = SourceContents(p) /\ uses[p] = SourceDict[p]
    /\ promised[p].forms = {} /\ ~promised[p].ensured

(* A page has been written with forms.                                     *)
WrittenWith(p, ensure, fs) ==
    /\ Len(fs) <= MaxForms /\ FormsOf(fs) = promised[p].forms
    /\ contents[p] = PlacedForms(p, ensure, NamesFor(p, fs))
    /\ uses[p] # 0 /\ dicts[uses[p]] = WithForms(SourceEntries(p), NamesFor(p, fs), fs)
    /\ uses[p] \in DOMAIN SourceDicts => uses[p] \in dirty
    /\ promised[p].ensured = ensure

PagesKept ==
    \A p \in Pages :
        \/ Untouched(p)
        \/ \E ensure \in BOOLEAN, fs \in Seq(1..MaxForms) : WrittenWith(p, ensure, fs)

(* A page uses the dictionary it had, or one that the source did not have. *)
UsesKept == \A p \in Pages : uses[p] = SourceDict[p] \/ uses[p] > Len(SourceDicts)

Begins(entries, with) ==
    \A i \in DOMAIN with : i \in DOMAIN entries /\ entries[i] = with[i]

(* The source's dictionaries keep their entries first.                     *)
DictsGrow == \A d \in DOMAIN SourceDicts : Begins(dicts[d], SourceDicts[d])

(* One object has all forms of a page.                                     *)
OneObject ==
    /\ \A g, h \in Born : handles[g].page = handles[h].page => g = h
    /\ \A h \in Born : promised[handles[h].page].forms \subseteq FormsOf(handles[h].forms)
    /\ \A p \in Pages : promised[p].forms # {} => \E h \in Born : handles[h].page = p

Shapes ==
    /\ DOMAIN contents = Pages /\ DOMAIN annots = Pages /\ DOMAIN promised = Pages
    /\ \A p \in Pages : SourceAnnots[p] \subseteq annots[p]

Right == Shapes /\ PagesKept /\ UsesKept /\ DictsGrow /\ OneObject

Attached == UNION {handles[g].links : g \in Born}

(* Whatever is known of links is of links that were attached, through one  *)
(* object each.                                                            *)
LinksKept ==
    /\ DOMAIN annots = Pages
    /\ \A g, h \in Born : g # h => handles[g].links \cap handles[h].links = {}
    /\ annotations \subseteq Attached /\ lost \subseteq Attached /\ astray \subseteq Attached
    /\ annotations \cap lost = {}
    /\ \A p \in Pages : annots[p] \subseteq SourceAnnots[p] \cup Attached

-----------------------------------------------------------------------------
LEMMA Joined ==
    ASSUME NEW T, NEW a \in Seq(T), NEW b \in Seq(T), NEW c, c = a \o b
    PROVE  /\ Len(a) \in Nat /\ Len(b) \in Nat /\ DOMAIN a = 1..Len(a) /\ DOMAIN b = 1..Len(b)
           /\ c \in Seq(T) /\ DOMAIN c = 1..Len(a) + Len(b)
           /\ \A i \in 1..Len(a) : c[i] = a[i]
           /\ \A i \in Len(a) + 1..Len(a) + Len(b) : i - Len(a) \in 1..Len(b) /\ c[i] = b[i - Len(a)]
           /\ \A j \in 1..Len(b) : Len(a) + j \in Len(a) + 1..Len(a) + Len(b) /\ c[Len(a) + j] = b[j]
  <1>1. Len(a) \in Nat /\ Len(b) \in Nat /\ DOMAIN a = 1..Len(a) /\ DOMAIN b = 1..Len(b)
    OBVIOUS
  <1>2. /\ c \in Seq(T) /\ Len(c) = Len(a) + Len(b)
        /\ \A i \in 1..Len(a) + Len(b) : c[i] = IF i <= Len(a) THEN a[i] ELSE b[i - Len(a)]
    BY ConcatProperties
  <1>3. DOMAIN c = 1..Len(a) + Len(b)
    BY <1>2
  <1>4. \A i \in 1..Len(a) : c[i] = a[i]
    BY <1>1, <1>2
  <1>5. \A i \in Len(a) + 1..Len(a) + Len(b) : i - Len(a) \in 1..Len(b) /\ c[i] = b[i - Len(a)]
    BY <1>1, <1>2
  <1>6. ASSUME NEW j \in 1..Len(b)
        PROVE  Len(a) + j \in Len(a) + 1..Len(a) + Len(b) /\ c[Len(a) + j] = b[j]
    <2>1. Len(a) + j \in Len(a) + 1..Len(a) + Len(b) /\ (Len(a) + j) - Len(a) = j
      BY <1>1
    <2> QED
      BY <1>5, <2>1
  <1> QED
    BY <1>1, <1>2, <1>3, <1>4, <1>5, <1>6

(* The forms' entries come after the others.                               *)
LEMMA WithFormsAre ==
    ASSUME NEW entries \in Seq(Entries), NEW names, NEW forms \in Seq(1..MaxForms),
           NEW all, all = WithForms(entries, names, forms)
    PROVE  /\ \A i \in DOMAIN entries : i \in DOMAIN all /\ all[i] = entries[i]
           /\ \A j \in DOMAIN forms :
                 /\ Len(entries) + j \in DOMAIN all
                 /\ all[Len(entries) + j] = [name |-> names[j], object |-> forms[j]]
  <1> DEFINE entry(i) == [name |-> names[i], object |-> forms[i]]
             T == Entries \cup {entry(i) : i \in 1..Len(forms)}
             more == [i \in 1..Len(forms) |-> entry(i)]
  <1>1. Len(entries) \in Nat /\ Len(forms) \in Nat /\ DOMAIN forms = 1..Len(forms)
        /\ DOMAIN entries = 1..Len(entries)
    OBVIOUS
  <1>2. all = entries \o more
    BY DEF WithForms
  <1>3. \A i \in 1..Len(forms) : entry(i) \in T
    OBVIOUS
  <1>4. entries \in Seq(T)
    OBVIOUS
  <1> HIDE DEF T, entry
  <1>5. /\ more \in Seq(T) /\ Len(more) = Len(forms)
        /\ \A i \in 1..Len(forms) : more[i] = entry(i)
    BY <1>1, <1>3
  <1> HIDE DEF more
  <1>6. /\ DOMAIN all = 1..Len(entries) + Len(forms)
        /\ \A i \in 1..Len(entries) : all[i] = entries[i]
        /\ \A j \in 1..Len(forms) : all[Len(entries) + j] = more[j]
    <2>1. more \in Seq(T)
      BY <1>5
    <2>2. /\ DOMAIN all = 1..Len(entries) + Len(more)
          /\ \A i \in 1..Len(entries) : all[i] = entries[i]
          /\ \A j \in 1..Len(more) : all[Len(entries) + j] = more[j]
      BY <1>2, <1>4, <2>1, Joined
    <2> QED
      BY <1>5, <2>2, Zenon
  <1>7. \A i \in 1..Len(entries) : i \in DOMAIN all
    BY <1>1, <1>6
  <1>8. \A j \in 1..Len(forms) : Len(entries) + j \in DOMAIN all
    BY <1>1, <1>6
  <1> QED
    BY <1>1, <1>5, <1>6, <1>7, <1>8 DEF entry

(* In a dictionary of distinct names, a name stands for one object.        *)
LEMMA ResolvedIs ==
    ASSUME NamesDistinct, NEW p \in Pages, uses[p] # 0, uses[p] \in DOMAIN dicts,
           NEW k \in DOMAIN dicts[uses[p]]
    PROVE  Resolved(p, dicts[uses[p]][k].name) = {dicts[uses[p]][k].object}
  <1> DEFINE es == dicts[uses[p]]
  <1>1. EntriesOf(p) = es /\ \A i \in DOMAIN es : es[i].name = es[k].name => i = k
    BY DEF EntriesOf, NamesDistinct
  <1> HIDE DEF es
  <1>2. {j \in DOMAIN es : es[j].name = es[k].name} = {k}
    BY <1>1 DEF es
  <1>3. Resolved(p, es[k].name) = {es[i].object : i \in {k}}
    BY <1>1, <1>2 DEF Resolved
  <1> QED
    BY <1>3 DEF es

(* The page's own content, in the brackets that were asked for.            *)
Own(p, ensure) ==
    IF ensure /\ HasContents[p] THEN <<Op("q")>> \o SourceContents(p) \o <<Op("Q")>>
    ELSE SourceContents(p)

LEMMA OwnIs ==
    ASSUME NEW p \in Pages, NEW ensure \in BOOLEAN, NEW own, own = Own(p, ensure),
           NEW T, Op("source") \in T, Op("q") \in T, Op("Q") \in T
    PROVE  /\ own \in Seq(T) /\ \A i \in DOMAIN own : own[i].op # "Do"
           /\ HasContents[p] => \E i \in DOMAIN own : own[i] = Op("source")
           /\ ensure => \A s \in DOMAIN own :
                 own[s].op = "source" => s = 2 /\ Len(own) = 3 /\ own[1] = Op("q") /\ own[3] = Op("Q")
  <1>0. PICK s, q, z : s = Op("source") /\ q = Op("q") /\ z = Op("Q")
    OBVIOUS
  <1>1. s.op = "source" /\ q.op = "q" /\ z.op = "Q" /\ s \in T /\ q \in T /\ z \in T
    BY <1>0 DEF Op
  <1>2. SourceContents(p) = IF HasContents[p] THEN <<s>> ELSE <<>>
    BY <1>0 DEF SourceContents, Op
  <1>3. CASE ~HasContents[p]
    <2>1. own = <<>>
      BY <1>2, <1>3 DEF Own
    <2> QED
      BY <1>3, <2>1
  <1>4. CASE HasContents[p] /\ ~ensure
    <2>1. own = <<s>>
      BY <1>2, <1>4 DEF Own
    <2>2. own \in Seq(T) /\ DOMAIN own = {1} /\ own[1] = s
      BY <1>1, <2>1
    <2> QED
      BY <1>0, <1>1, <1>4, <2>2
  <1>5. CASE HasContents[p] /\ ensure
    <2>1. own = <<q>> \o <<s>> \o <<z>>
      BY <1>0, <1>2, <1>5 DEF Own
    <2>2. /\ own \in Seq(T) /\ Len(own) = 3 /\ DOMAIN own = {1, 2, 3}
          /\ own[1] = q /\ own[2] = s /\ own[3] = z
      BY <1>1, <2>1
    <2> QED
      BY <1>0, <1>1, <1>5, <2>2
  <1> QED
    BY <1>3, <1>4, <1>5

(* What the content of a written page is.                                  *)
LEMMA PlacedAre ==
    ASSUME NEW p \in Pages, NEW ensure \in BOOLEAN, NEW names, Len(names) \in Nat,
           NEW c, c = PlacedForms(p, ensure, names)
    PROVE  /\ HasContents[p] => \E i \in DOMAIN c : c[i] = Op("source")
           /\ \A i \in DOMAIN c : c[i].op = "Do" => \E j \in 1..Len(names) : c[i].name = names[j]
           /\ \A j \in 1..Len(names) : \E i \in DOMAIN c : c[i].op = "Do" /\ c[i].name = names[j]
           /\ ensure => \A i \in DOMAIN c : c[i].op = "Do" =>
                 \A s \in 1..i - 1 : c[s].op = "source" =>
                     \E q \in 1..s - 1, z \in s + 1..i - 1 : c[q] = Op("q") /\ c[z] = Op("Q")
  <1> DEFINE do(j) == [op |-> "Do", name |-> names[j]]
             n == Len(names)
             T == {Op("source"), Op("q"), Op("Q")} \cup {do(j) : j \in 1..n}
             dos == [j \in 1..n |-> do(j)]
  <1>1. PICK own : own = Own(p, ensure)
    OBVIOUS
  <1>2. c = own \o dos
    BY <1>1 DEF PlacedForms, Own
  <1>3. /\ own \in Seq(T) /\ \A i \in DOMAIN own : own[i].op # "Do"
        /\ HasContents[p] => \E i \in DOMAIN own : own[i] = Op("source")
        /\ ensure => \A s \in DOMAIN own :
              own[s].op = "source" => s = 2 /\ Len(own) = 3 /\ own[1] = Op("q") /\ own[3] = Op("Q")
    <2>1. Op("source") \in T /\ Op("q") \in T /\ Op("Q") \in T
      OBVIOUS
    <2> HIDE DEF T
    <2> QED
      BY <1>1, <2>1, OwnIs
  <1>4. \A j \in 1..n : do(j) \in T /\ do(j).op = "Do" /\ do(j).name = names[j]
    OBVIOUS
  <1> HIDE DEF T, do, n
  <1>5. n \in Nat
    BY DEF n
  <1>6. dos \in Seq(T) /\ Len(dos) = n /\ \A j \in 1..n : dos[j] = do(j)
    BY <1>4, <1>5
  <1> HIDE DEF dos
  <1> DEFINE m == Len(own)
  <1>7. /\ m \in Nat /\ DOMAIN own = 1..m /\ DOMAIN c = 1..m + n
        /\ \A i \in 1..m : c[i] = own[i]
        /\ \A i \in m + 1..m + n : i - m \in 1..n /\ c[i] = do(i - m)
        /\ \A j \in 1..n : m + j \in m + 1..m + n /\ c[m + j] = do(j)
    <2>1. /\ m \in Nat /\ DOMAIN own = 1..m /\ DOMAIN c = 1..m + Len(dos)
          /\ \A i \in 1..m : c[i] = own[i]
          /\ \A i \in m + 1..m + Len(dos) : i - m \in 1..Len(dos) /\ c[i] = dos[i - m]
          /\ \A j \in 1..Len(dos) : m + j \in m + 1..m + Len(dos) /\ c[m + j] = dos[j]
      BY <1>2, <1>3, <1>6, Joined
    <2> HIDE DEF m
    <2> QED
      BY <1>6, <2>1
  <1> HIDE DEF m
  <1>8. HasContents[p] => \E i \in DOMAIN c : c[i] = Op("source")
    BY <1>3, <1>5, <1>7
  <1>9. \A i \in DOMAIN c : c[i].op = "Do" => i > m
    BY <1>3, <1>5, <1>7
  <1>10. \A i \in DOMAIN c : c[i].op = "Do" => \E j \in 1..n : c[i].name = names[j]
    <2>1. ASSUME NEW i \in DOMAIN c, c[i].op = "Do"
          PROVE  \E j \in 1..n : c[i].name = names[j]
      <3>1. i \in m + 1..m + n
        BY <1>5, <1>7, <1>9, <2>1
      <3> QED
        BY <1>4, <1>7, <3>1
    <2> QED
      BY <2>1
  <1>11. \A j \in 1..n : \E i \in DOMAIN c : c[i].op = "Do" /\ c[i].name = names[j]
    <2>1. ASSUME NEW j \in 1..n
          PROVE  m + j \in DOMAIN c /\ c[m + j].op = "Do" /\ c[m + j].name = names[j]
      BY <1>4, <1>5, <1>7
    <2> QED
      BY <2>1
  <1>12. ASSUME ensure, NEW i \in DOMAIN c, c[i].op = "Do", NEW s \in 1..i - 1, c[s].op = "source"
         PROVE  \E q \in 1..s - 1, z \in s + 1..i - 1 : c[q] = Op("q") /\ c[z] = Op("Q")
    <2>1. i > m /\ i \in 1..m + n /\ s \in 1..m + n
      <3>1. i \in 1..m + n
        BY <1>7, <1>12
      <3>2. i > m
        BY <1>9, <1>12
      <3>3. s \in 1..i - 1 /\ m \in Nat
        BY <1>7, <1>12
      <3> QED
        BY <1>5, <3>1, <3>2, <3>3
    <2>2. s \in 1..m
      <3>1. s \notin m + 1..m + n
        BY <1>4, <1>7, <1>12
      <3> QED
        BY <1>5, <1>7, <2>1, <3>1
    <2>3. s = 2 /\ m = 3 /\ own[1] = Op("q") /\ own[3] = Op("Q")
      BY <1>3, <1>7, <1>12, <2>2 DEF m
    <2>4. c[1] = Op("q") /\ c[3] = Op("Q") /\ 1 \in 1..s - 1 /\ 3 \in s + 1..i - 1
      BY <1>7, <2>1, <2>3
    <2> QED
      BY <2>4
  <1> QED
    BY <1>8, <1>10, <1>11, <1>12 DEF n

-----------------------------------------------------------------------------
(* A written page's names are those of the forms it was written with.      *)
LEMMA NamesAre ==
    ASSUME NEW p \in Pages, NEW fs \in Seq(1..MaxForms), Len(fs) <= MaxForms
    PROVE  /\ SourceEntries(p) \in Seq(Entries)
           /\ Len(NamesFor(p, fs)) = Len(fs) /\ Len(fs) \in Nat
           /\ SourceDict[p] # 0 => SourceDict[p] \in DOMAIN SourceDicts
                                   /\ SourceEntries(p) = SourceDicts[SourceDict[p]]
           /\ SourceDict[p] = 0 => SourceEntries(p) = <<>>
  <1>1. Len(NamesFor(p, fs)) = Len(fs) /\ Len(fs) \in Nat
    BY DEF NamesFor, FormNames
  <1>2. CASE SourceDict[p] = 0
    <2>1. SourceEntries(p) = <<>>
      BY <1>2, ModifiedPageAssumption DEF SourceEntries
    <2> QED
      BY <1>1, <1>2, <2>1
  <1>3. CASE SourceDict[p] # 0
    <2>1. SourceDict[p] \in 0..Len(SourceDicts) /\ SourceDicts \in Seq(Seq(Entries))
      BY ModifiedPageAssumption DEF Entries
    <2>2. SourceDict[p] \in DOMAIN SourceDicts
      BY <1>3, <2>1
    <2>3. SourceEntries(p) = SourceDicts[SourceDict[p]]
      BY <1>3, ModifiedPageAssumption DEF SourceEntries
    <2>4. SourceEntries(p) \in Seq(Entries)
      BY <2>1, <2>2, <2>3
    <2> QED
      BY <1>1, <1>3, <2>2, <2>3, <2>4
  <1> QED
    BY <1>2, <1>3

LEMMA UsedDict ==
    ASSUME TypeOK, NEW p \in Pages, uses[p] # 0
    PROVE  uses[p] \in DOMAIN dicts
  <1>1. uses[p] \in 0..Len(dicts) /\ dicts \in Seq(Seq(Entries))
    BY DEF TypeOK, Entries
  <1> QED
    BY <1>1

(* A page paints its own forms and no others.                              *)
LEMMA RightShows ==
    ASSUME TypeOK, NamesDistinct, Right
    PROVE  PageShowsItsForms /\ FormsAreIndependent
  <1>1. ASSUME NEW p \in Pages, Untouched(p)
        PROVE  Placed(p) = {} /\ promised[p].forms = {} /\ ~promised[p].ensured
    <2>1. \A i \in DOMAIN SourceContents(p) : SourceContents(p)[i].op # "Do"
      BY DEF SourceContents
    <2> QED
      BY <1>1, <2>1 DEF Untouched, Placed
  <1>2. ASSUME NEW p \in Pages, NEW ensure \in BOOLEAN, NEW fs \in Seq(1..MaxForms),
               WrittenWith(p, ensure, fs)
        PROVE  /\ \A i \in Placed(p) :
                     \E f \in promised[p].forms : Resolved(p, contents[p][i].name) = {f}
               /\ \A f \in promised[p].forms :
                     \E i \in Placed(p) : Resolved(p, contents[p][i].name) = {f}
               /\ promised[p].ensured => \A i \in Placed(p) : ~Disturbed(p, i)
    <2> DEFINE names == NamesFor(p, fs)
               es == SourceEntries(p)
               all == dicts[uses[p]]
               c == contents[p]
    <2>1. /\ Len(fs) <= MaxForms /\ FormsOf(fs) = promised[p].forms /\ uses[p] # 0
          /\ c = PlacedForms(p, ensure, names) /\ all = WithForms(es, names, fs)
          /\ promised[p].ensured = ensure
      BY <1>2 DEF WrittenWith
    <2>2. es \in Seq(Entries) /\ Len(names) = Len(fs) /\ Len(fs) \in Nat /\ DOMAIN fs = 1..Len(fs)
      BY <2>1, NamesAre
    <2> HIDE DEF names, es, all
    <2>3. \A j \in DOMAIN fs : /\ Len(es) + j \in DOMAIN all
                               /\ all[Len(es) + j] = [name |-> names[j], object |-> fs[j]]
      BY <2>1, <2>2, WithFormsAre
    <2>4. \A j \in DOMAIN fs : Resolved(p, names[j]) = {fs[j]}
      <3>1. ASSUME NEW j \in DOMAIN fs
            PROVE  Resolved(p, names[j]) = {fs[j]}
        <4>1. PICK k : k = Len(es) + j
          OBVIOUS
        <4>2. k \in DOMAIN all /\ all[k].name = names[j] /\ all[k].object = fs[j]
          <5>1. k \in DOMAIN all /\ all[k] = [name |-> names[j], object |-> fs[j]]
            BY <2>3, <4>1, Zenon
          <5> QED
            BY <5>1
        <4>3. uses[p] \in DOMAIN dicts
          BY <2>1, UsedDict
        <4>4. Resolved(p, all[k].name) = {all[k].object}
          BY <2>1, <4>2, <4>3, ResolvedIs DEF all
        <4> QED
          BY <4>2, <4>4
      <3> QED
        BY <3>1
    <2>5. /\ \A i \in DOMAIN c : c[i].op = "Do" => \E j \in 1..Len(names) : c[i].name = names[j]
          /\ \A j \in 1..Len(names) : \E i \in DOMAIN c : c[i].op = "Do" /\ c[i].name = names[j]
          /\ ensure => \A i \in DOMAIN c : c[i].op = "Do" =>
                \A s \in 1..i - 1 : c[s].op = "source" =>
                    \E q \in 1..s - 1, z \in s + 1..i - 1 : c[q] = Op("q") /\ c[z] = Op("Q")
      BY <2>1, <2>2, PlacedAre
    <2>6. Placed(p) = {i \in DOMAIN c : c[i].op = "Do"}
      BY DEF Placed
    <2>7. \A i \in Placed(p) : \E f \in promised[p].forms : Resolved(p, c[i].name) = {f}
      <3>1. ASSUME NEW i \in Placed(p)
            PROVE  \E f \in promised[p].forms : Resolved(p, c[i].name) = {f}
        <4>1. PICK j \in DOMAIN fs : c[i].name = names[j]
          BY <2>2, <2>5, <2>6
        <4>2. fs[j] \in promised[p].forms
          BY <2>1 DEF FormsOf
        <4> QED
          BY <2>4, <4>1, <4>2
      <3> QED
        BY <3>1
    <2>8. \A f \in promised[p].forms : \E i \in Placed(p) : Resolved(p, c[i].name) = {f}
      <3>1. ASSUME NEW f \in promised[p].forms
            PROVE  \E i \in Placed(p) : Resolved(p, c[i].name) = {f}
        <4>1. PICK j \in DOMAIN fs : f = fs[j]
          BY <2>1 DEF FormsOf
        <4>2. PICK i \in Placed(p) : c[i].name = names[j]
          BY <2>2, <2>5, <2>6
        <4> QED
          BY <2>4, <4>1, <4>2
      <3> QED
        BY <3>1
    <2>9. ensure => \A i \in Placed(p) : ~Disturbed(p, i)
      BY <2>5, <2>6 DEF Disturbed
    <2> QED
      BY <2>1, <2>7, <2>8, <2>9
  <1> QED
    BY <1>1, <1>2 DEF Right, PagesKept, PageShowsItsForms, FormsAreIndependent

(* What every page had, it keeps.                                          *)
LEMMA RightKeeps ==
    ASSUME TypeOK, NamesDistinct, Right
    PROVE  SourceKept
  <1> SUFFICES ASSUME NEW p \in Pages
               PROVE  /\ SourceAnnots[p] \subseteq annots[p]
                      /\ HasContents[p] => Op("source") \in {contents[p][i] : i \in DOMAIN contents[p]}
                      /\ SourceDict[p] # 0 =>
                            \A i \in DOMAIN SourceDicts[SourceDict[p]] :
                                Resolved(p, SourceDicts[SourceDict[p]][i].name)
                                    = {SourceDicts[SourceDict[p]][i].object}
    BY DEF SourceKept
  <1>1. SourceAnnots[p] \subseteq annots[p]
    BY DEF Right, Shapes
  <1>2. HasContents[p] => \E i \in DOMAIN contents[p] : contents[p][i] = Op("source")
    <2>1. CASE Untouched(p)
      <3>1. HasContents[p] => contents[p] = <<Op("source")>>
        BY <2>1 DEF Untouched, SourceContents, Op
      <3> QED
        BY <3>1
    <2>2. ASSUME NEW ensure \in BOOLEAN, NEW fs \in Seq(1..MaxForms), WrittenWith(p, ensure, fs)
          PROVE  HasContents[p] => \E i \in DOMAIN contents[p] : contents[p][i] = Op("source")
      <3>1. /\ contents[p] = PlacedForms(p, ensure, NamesFor(p, fs)) /\ Len(NamesFor(p, fs)) \in Nat
        BY <2>2, NamesAre DEF WrittenWith
      <3> QED
        BY <3>1, PlacedAre
    <2> QED
      BY <2>1, <2>2 DEF Right, PagesKept
  <1>3. ASSUME SourceDict[p] # 0, NEW i \in DOMAIN SourceDicts[SourceDict[p]]
        PROVE  Resolved(p, SourceDicts[SourceDict[p]][i].name) = {SourceDicts[SourceDict[p]][i].object}
    <2> DEFINE es == SourceDicts[SourceDict[p]]
    <2>1. <<>> \in Seq(1..MaxForms) /\ Len(<<>>) <= MaxForms
      BY ModifiedPageAssumption
    <2>2. SourceDict[p] \in DOMAIN SourceDicts /\ SourceEntries(p) = es /\ es \in Seq(Entries)
      BY <1>3, <2>1, NamesAre
    <2>3. uses[p] # 0 /\ Begins(dicts[uses[p]], es)
      <3>1. CASE Untouched(p)
        BY <1>3, <2>2, <3>1 DEF Untouched, Right, DictsGrow
      <3>2. ASSUME NEW ensure \in BOOLEAN, NEW fs \in Seq(1..MaxForms), WrittenWith(p, ensure, fs)
            PROVE  uses[p] # 0 /\ Begins(dicts[uses[p]], es)
        BY <2>2, <3>2, WithFormsAre DEF WrittenWith, Begins
      <3> QED
        BY <3>1, <3>2 DEF Right, PagesKept
    <2>4. i \in DOMAIN dicts[uses[p]] /\ dicts[uses[p]][i] = es[i] /\ uses[p] \in DOMAIN dicts
      BY <1>3, <2>3, UsedDict DEF Begins
    <2> HIDE DEF es
    <2>5. Resolved(p, es[i].name) = {es[i].object}
      BY <2>3, <2>4, ResolvedIs
    <2> QED
      BY <2>5 DEF es
  <1> QED
    BY <1>1, <1>2, <1>3

-----------------------------------------------------------------------------
LEMMA InitRight == Init => Right
  <1> SUFFICES ASSUME Init PROVE Right
    OBVIOUS
  <1>1. /\ Born = {} /\ dicts = SourceDicts /\ uses = SourceDict /\ annots = SourceAnnots
        /\ contents = [p \in Pages |-> SourceContents(p)]
        /\ promised = [p \in Pages |-> [forms |-> {}, ensured |-> FALSE]]
    BY DEF Init, Born
  <1>2. \A p \in Pages : Untouched(p)
    BY <1>1 DEF Untouched
  <1>3. Shapes /\ UsesKept /\ DictsGrow /\ OneObject
    BY <1>1, ModifiedPageAssumption DEF Shapes, UsesKept, DictsGrow, Begins, OneObject
  <1> QED
    BY <1>2, <1>3 DEF Right, PagesKept

(* A state of an object is not the one of an object not there.             *)
LEMMA StatesAreBorn == \A state \in HandleStates : state # Unborn
  <1>1. \A state \in HandleStates : "ensure" \in DOMAIN state
    BY DEF HandleStates
  <1>2. "ensure" \notin DOMAIN Unborn
    BY DEF Unborn
  <1> QED
    BY <1>1, <1>2

(* Until a page is written, nothing happens to the document.               *)
LEMMA QuietRight ==
    ASSUME Right, OneObject', UNCHANGED <<dicts, dirty, uses, contents, annots, promised>>
    PROVE  Right'
  <1>1. ASSUME NEW p \in Pages, Untouched(p)
        PROVE  Untouched(p)'
    BY <1>1 DEF Untouched, SourceContents
  <1>2. ASSUME NEW p \in Pages, NEW ensure \in BOOLEAN, NEW fs \in Seq(1..MaxForms),
               WrittenWith(p, ensure, fs)
        PROVE  WrittenWith(p, ensure, fs)'
    BY <1>2 DEF WrittenWith
  <1>3. PagesKept'
    BY <1>1, <1>2 DEF Right, PagesKept
  <1>4. Shapes' /\ UsesKept' /\ DictsGrow'
    BY DEF Right, Shapes, UsesKept, DictsGrow, Begins
  <1> QED
    BY <1>3, <1>4 DEF Right

(* An object goes on with its page, and keeps its forms.                   *)
LEMMA StillOneObject ==
    ASSUME TypeOK, OneObject, NEW h \in Born, NEW state \in HandleStates,
           state.page = handles[h].page, FormsOf(handles[h].forms) \subseteq FormsOf(state.forms),
           handles' = [handles EXCEPT ![h] = state],
           \A p \in Pages : \/ promised'[p].forms = promised[p].forms
                            \/ p = state.page /\ promised'[p].forms \subseteq FormsOf(state.forms)
    PROVE  OneObject'
  <1>1. h \in Handles /\ \A g \in Born : g \in Handles /\ handles[g] \in HandleStates
    BY StateOfBorn
  <1>2. /\ handles'[h] = state /\ \A g \in Handles : g # h => handles'[g] = handles[g]
        /\ Born' = Born
    <2>1. handles'[h] = state /\ \A g \in Handles : g # h => handles'[g] = handles[g]
      BY <1>1 DEF TypeOK
    <2> QED
      BY <1>1, <2>1, StatesAreBorn DEF Born
  <1>3. \A g \in Born : handles'[g].page = handles[g].page /\ handles[g].page \in Pages
    BY <1>1, <1>2 DEF HandleStates
  <1>4. \A g \in Born : FormsOf(handles[g].forms) \subseteq FormsOf(handles'[g].forms)
    BY <1>1, <1>2
  <1>5. \A g1, g2 \in Born' : handles'[g1].page = handles'[g2].page => g1 = g2
    BY <1>2, <1>3 DEF OneObject
  <1>6. ASSUME NEW g \in Born
        PROVE  promised'[handles'[g].page].forms \subseteq FormsOf(handles'[g].forms)
    <2>1. promised[handles[g].page].forms \subseteq FormsOf(handles'[g].forms)
      BY <1>4 DEF OneObject
    <2>2. CASE promised'[handles[g].page].forms = promised[handles[g].page].forms
      BY <1>3, <2>1, <2>2
    <2>3. CASE /\ handles[g].page = state.page
               /\ promised'[handles[g].page].forms \subseteq FormsOf(state.forms)
      BY <1>2, <1>3, <2>3 DEF OneObject
    <2> QED
      BY <1>3, <2>2, <2>3
  <1>7. ASSUME NEW p \in Pages, promised'[p].forms # {}
        PROVE  \E g \in Born' : handles'[g].page = p
    <2>1. CASE promised'[p].forms = promised[p].forms
      BY <1>2, <1>3, <1>7, <2>1 DEF OneObject
    <2>2. CASE p = state.page
      BY <1>2, <2>2
    <2> QED
      BY <2>1, <2>2
  <1> QED
    BY <1>2, <1>5, <1>6, <1>7 DEF OneObject, FormsOf

(* A form that is open goes to the others; the rest of the object stays.   *)
LEMMA EndedKeeps ==
    ASSUME TypeOK, NEW h \in Born, NEW state, state = ContextEnded(handles[h])
    PROVE  /\ state \in HandleStates /\ state.page = handles[h].page /\ state.page \in Pages
           /\ state.links = handles[h].links
           /\ FormsOf(handles[h].forms) \subseteq FormsOf(state.forms)
           /\ state.forms \in Seq(1..MaxForms) /\ Len(state.forms) <= MaxForms
  <1> DEFINE old == handles[h]
             more == Append(old.forms, old.current)
  <1>1. /\ old \in HandleStates /\ state \in HandleStates /\ state.page = old.page
        /\ Len(state.forms) <= lastForm /\ lastForm \in 0..MaxForms
    BY EndedState, StateOfBorn DEF TypeOK
  <1>2. /\ old.forms \in Seq(1..MaxForms) /\ state.forms \in Seq(1..MaxForms) /\ state.page \in Pages
        /\ old.current \in 0..MaxForms
    <2>1. \A s \in HandleStates : /\ s.forms \in Seq(1..MaxForms) /\ s.page \in Pages
                                 /\ s.current \in 0..MaxForms
      BY DEF HandleStates
    <2> HIDE DEF old
    <2> QED
      BY <1>1, <2>1
  <1>3. CASE old.current = 0
    <2>1. state = old
      BY <1>3 DEF ContextEnded
    <2>2. Len(state.forms) \in Nat
      BY <1>2
    <2>3. Len(state.forms) <= MaxForms
      BY <1>1, <2>2, ModifiedPageAssumption
    <2> HIDE DEF old
    <2> QED
      BY <1>1, <1>2, <2>1, <2>3 DEF old
  <1>4. CASE old.current # 0
    <2> HIDE DEF old
    <2>1. state = [old EXCEPT !.isDirty = TRUE, !.forms = more, !.current = 0]
      BY <1>4 DEF ContextEnded, old
    <2>2. \A i \in DOMAIN old.forms : i \in DOMAIN more /\ more[i] = old.forms[i]
      BY <1>2
    <2> HIDE DEF more
    <2>3. state.forms = more /\ state.links = old.links
      BY <1>1, <2>1 DEF HandleStates
    <2>4. FormsOf(old.forms) \subseteq FormsOf(state.forms)
      BY <2>2, <2>3 DEF FormsOf
    <2>5. Len(state.forms) <= MaxForms
      <3>1. Len(state.forms) \in Nat
        BY <1>2
      <3> QED
        BY <1>1, <3>1, ModifiedPageAssumption
    <2> QED
      BY <1>1, <1>2, <2>3, <2>4, <2>5 DEF old
  <1> QED
    BY <1>3, <1>4

(* A page is written: its dictionary is the source's, for the first page   *)
(* of those that share it, or a new one.                                   *)
LEMMA WriteRight ==
    ASSUME IInv, IInv', Right, NEW h \in Born, WriteDirtyPage(h, ContextEnded(handles[h])),
           ~SamePage
    PROVE  Right'
  <1>0. PICK state, p : state = ContextEnded(handles[h]) /\ p = state.page
    OBVIOUS
  <1> DEFINE fs == state.forms
             entries == WithForms(SourceEntries(p), NamesFor(p, fs), fs)
             given == promised[p].forms \cup FormsOf(fs)
  <1>1. /\ TypeOK /\ state \in HandleStates /\ p = handles[h].page /\ p \in Pages
        /\ FormsOf(handles[h].forms) \subseteq FormsOf(fs)
        /\ fs \in Seq(1..MaxForms) /\ Len(fs) <= MaxForms
    BY <1>0, EndedKeeps DEF IInv
  <1>2. state.ensure \in BOOLEAN
    BY <1>1 DEF HandleStates
  <1>3. /\ IF WrittenInPlace(p)
           THEN /\ dicts' = [dicts EXCEPT ![SourceDict[p]] = entries]
                /\ dirty' = dirty \cup {SourceDict[p]}
                /\ uses' = [uses EXCEPT ![p] = SourceDict[p]]
           ELSE /\ dicts' = Append(dicts, entries)
                /\ uses' = [uses EXCEPT ![p] = Len(dicts) + 1]
                /\ UNCHANGED dirty
        /\ contents' = [contents EXCEPT ![p] = PlacedForms(p, state.ensure, NamesFor(p, fs))]
        /\ annots' = [annots EXCEPT ![p] = JoinedAnnotations(p)]
        /\ handles' = [handles EXCEPT ![h] = state]
        /\ promised' = [promised EXCEPT ![p] =
              [forms |-> @.forms \cup {fs[i] : i \in DOMAIN fs}, ensured |-> state.ensure]]
    BY <1>0 DEF WriteDirtyPage, NamesFor
  <1>4. given = FormsOf(fs)
    <2>1. promised[p].forms \subseteq FormsOf(handles[h].forms)
      BY <1>1 DEF Right, OneObject
    <2> QED
      BY <1>1, <2>1
  <1>5. /\ promised'[p].forms = FormsOf(fs) /\ promised'[p].ensured = state.ensure
        /\ \A q \in Pages : q # p => promised'[q] = promised[q]
        /\ DOMAIN promised' = Pages
    <2> DEFINE new == [forms |-> given, ensured |-> state.ensure]
    <2>1. promised' = [promised EXCEPT ![p] = new] /\ DOMAIN promised = Pages
      BY <1>3 DEF Right, Shapes, FormsOf
    <2>2. new.forms = given /\ new.ensured = state.ensure
      OBVIOUS
    <2> HIDE DEF new
    <2> QED
      BY <1>1, <1>4, <2>1, <2>2
  <1>6. state.page = p /\ state.forms = fs
    BY <1>0
  <1>7. entries \in Seq(Entries) /\ SourceEntries(p) \in Seq(Entries)
    <2>1. entries \in Seq(Entries)
      BY <1>1, WrittenEntries DEF NamesFor
    <2> QED
      BY <1>1, <2>1, NamesAre
  <1> HIDE DEF entries, given, fs
  <1>8. OneObject'
    <2>1. \A q \in Pages : \/ promised'[q].forms = promised[q].forms
                           \/ q = state.page /\ promised'[q].forms \subseteq FormsOf(state.forms)
      BY <1>5, <1>6
    <2>2. FormsOf(handles[h].forms) \subseteq FormsOf(state.forms)
      BY <1>1, <1>6
    <2> QED
      BY <1>1, <1>3, <1>6, <2>1, <2>2, StillOneObject DEF Right
  <1>9. /\ DOMAIN contents' = Pages
        /\ contents'[p] = PlacedForms(p, state.ensure, NamesFor(p, fs))
        /\ \A q \in Pages : q # p => contents'[q] = contents[q]
    BY <1>1, <1>3 DEF Right, Shapes
  <1>10. DOMAIN annots' = Pages /\ \A q \in Pages : SourceAnnots[q] \subseteq annots'[q]
    BY <1>1, <1>3 DEF Right, Shapes, JoinedAnnotations
  <1>11. /\ dicts \in Seq(Seq(Entries)) /\ Len(dicts) \in Nat /\ DOMAIN dicts = 1..Len(dicts)
         /\ uses \in [Pages -> 0..Len(dicts)] /\ dirty \subseteq DOMAIN SourceDicts
         /\ Len(SourceDicts) \in Nat /\ Len(SourceDicts) <= Len(dicts)
         /\ DOMAIN SourceDicts = 1..Len(SourceDicts)
    BY <1>1, ModifiedPageAssumption DEF TypeOK, Entries
  <1>12. WrittenInPlace(p) => SourceDict[p] \in DOMAIN SourceDicts
    BY <1>1, ModifiedPageAssumption DEF WrittenInPlace
  <1>13. /\ uses'[p] # 0 /\ uses'[p] \in DOMAIN dicts' /\ dicts'[uses'[p]] = entries
         /\ uses'[p] \in DOMAIN SourceDicts => uses'[p] \in dirty' /\ uses'[p] = SourceDict[p]
         /\ \A q \in Pages : q # p => uses'[q] = uses[q]
         /\ dirty \subseteq dirty'
         /\ \A d \in DOMAIN dicts : (d \notin DOMAIN SourceDicts \/ d \in dirty) => dicts'[d] = dicts[d]
         /\ \A d \in DOMAIN dicts : dicts'[d] = dicts[d] \/ (d = SourceDict[p] /\ dicts'[d] = entries)
    <2>1. CASE WrittenInPlace(p)
      <3>1. SourceDict[p] \notin dirty
        BY <2>1 DEF WrittenInPlace
      <3>2. SourceDict[p] \in DOMAIN dicts /\ SourceDict[p] # 0
        BY <1>11, <1>12, <2>1
      <3>3. uses'[p] = SourceDict[p] /\ \A q \in Pages : q # p => uses'[q] = uses[q]
        BY <1>1, <1>3, <1>11, <2>1
      <3>4. /\ DOMAIN dicts' = DOMAIN dicts /\ dicts'[SourceDict[p]] = entries
            /\ \A d \in DOMAIN dicts : d # SourceDict[p] => dicts'[d] = dicts[d]
        BY <1>3, <1>11, <2>1, <3>2
      <3>5. dirty' = dirty \cup {SourceDict[p]}
        BY <1>3, <2>1
      <3>6. uses'[p] # 0 /\ uses'[p] \in DOMAIN dicts' /\ dicts'[uses'[p]] = entries
        BY <3>2, <3>3, <3>4
      <3>7. uses'[p] \in DOMAIN SourceDicts => uses'[p] \in dirty' /\ uses'[p] = SourceDict[p]
        BY <3>3, <3>5
      <3>8. \A d \in DOMAIN dicts : (d \notin DOMAIN SourceDicts \/ d \in dirty) => dicts'[d] = dicts[d]
        BY <1>12, <2>1, <3>1, <3>4
      <3>9. \A d \in DOMAIN dicts : dicts'[d] = dicts[d] \/ (d = SourceDict[p] /\ dicts'[d] = entries)
        BY <3>4
      <3>10. dirty \subseteq dirty'
        BY <3>5
      <3> QED
        BY <3>3, <3>6, <3>7, <3>8, <3>9, <3>10
    <2>2. CASE ~WrittenInPlace(p)
      <3>1. uses'[p] = Len(dicts) + 1 /\ \A q \in Pages : q # p => uses'[q] = uses[q]
        BY <1>1, <1>3, <1>11, <2>2
      <3>2. /\ DOMAIN dicts' = 1..Len(dicts) + 1 /\ dicts'[Len(dicts) + 1] = entries
            /\ \A d \in DOMAIN dicts : dicts'[d] = dicts[d]
        BY <1>3, <1>7, <1>11, <2>2
      <3>3. dirty' = dirty
        BY <1>3, <2>2
      <3>4. Len(dicts) + 1 # 0 /\ Len(dicts) + 1 \notin DOMAIN SourceDicts
        BY <1>11
      <3>5. uses'[p] # 0 /\ uses'[p] \in DOMAIN dicts' /\ dicts'[uses'[p]] = entries
        BY <1>11, <3>1, <3>2, <3>4
      <3>6. uses'[p] \in DOMAIN SourceDicts => uses'[p] \in dirty' /\ uses'[p] = SourceDict[p]
        BY <3>1, <3>4
      <3> QED
        BY <3>1, <3>2, <3>3, <3>5, <3>6
    <2> QED
      BY <2>1, <2>2
  <1>14. WrittenWith(p, state.ensure, fs)'
    <2>1. PICK ensure, gs : ensure = state.ensure /\ gs = fs
      OBVIOUS
    <2>2. WrittenWith(p, ensure, gs)'
      BY <1>1, <1>5, <1>9, <1>13, <2>1 DEF WrittenWith, entries
    <2> QED
      BY <2>1, <2>2 DEF fs
  <1>15. ASSUME NEW q \in Pages, q # p, Untouched(q)
         PROVE  Untouched(q)'
    BY <1>5, <1>9, <1>13, <1>15 DEF Untouched
  <1>16. ASSUME NEW q \in Pages, q # p, NEW ensure \in BOOLEAN, NEW gs \in Seq(1..MaxForms),
                WrittenWith(q, ensure, gs)
         PROVE  WrittenWith(q, ensure, gs)'
    <2>1. uses[q] # 0 /\ uses[q] \in DOMAIN dicts
      BY <1>11, <1>16 DEF WrittenWith
    <2>2. dicts'[uses[q]] = dicts[uses[q]]
      BY <1>13, <1>16, <2>1 DEF WrittenWith
    <2> QED
      BY <1>5, <1>9, <1>13, <1>16, <2>2 DEF WrittenWith
  <1>17. PagesKept'
    <2>1. ASSUME NEW q \in Pages
          PROVE  \/ Untouched(q)'
                 \/ \E ensure \in BOOLEAN, gs \in Seq(1..MaxForms) : WrittenWith(q, ensure, gs)'
      <3>1. CASE q = p
        BY <1>1, <1>2, <1>14, <3>1 DEF fs
      <3>2. CASE q # p
        BY <1>15, <1>16, <3>2 DEF Right, PagesKept
      <3> QED
        BY <3>1, <3>2
    <2> QED
      BY <2>1 DEF PagesKept
  <1>18. UsesKept'
    <2>1. uses'[p] \in 1..Len(dicts')
      <3>1. uses' \in [Pages -> 0..Len(dicts')]
        BY DEF IInv, TypeOK
      <3>2. dicts' \in Seq(Seq(Entries))
        BY DEF IInv, TypeOK, Entries
      <3> QED
        BY <1>13, <3>2
    <2>2. uses'[p] = SourceDict[p] \/ uses'[p] > Len(SourceDicts)
      BY <1>11, <1>13, <2>1
    <2> QED
      BY <1>13, <2>2 DEF Right, UsesKept
  <1>19. DictsGrow'
    <2>1. ASSUME NEW d \in DOMAIN SourceDicts
          PROVE  Begins(dicts'[d], SourceDicts[d])
      <3>1. CASE dicts'[d] = dicts[d]
        BY <2>1, <3>1 DEF Right, DictsGrow
      <3>2. CASE d = SourceDict[p] /\ dicts'[d] = entries
        <4>1. d # 0
          BY <1>11, <2>1
        <4>2. SourceEntries(p) = SourceDicts[d]
          BY <1>1, <3>2, <4>1, NamesAre
        <4>3. \A i \in DOMAIN SourceEntries(p) :
                  i \in DOMAIN entries /\ entries[i] = SourceEntries(p)[i]
          BY <1>1, <1>7, WithFormsAre DEF entries
        <4> QED
          BY <3>2, <4>2, <4>3 DEF Begins
      <3> QED
        BY <1>11, <1>13, <2>1, <3>1, <3>2
    <2> QED
      BY <2>1 DEF DictsGrow, Begins
  <1> QED
    BY <1>8, <1>9, <1>10, <1>5, <1>17, <1>18, <1>19 DEF Right, Shapes

(* A page gets an object.                                                  *)
LEMMA BornIs ==
    ASSUME TypeOK, NEW h \in Handles, NEW p \in Pages, NEW ensure \in BOOLEAN,
           NewModifiedPage(h, p, ensure)
    PROVE  /\ h \notin Born /\ Born' = Born \cup {h}
           /\ \A g \in Born : handles'[g] = handles[g]
           /\ handles'[h].page = p /\ handles'[h].links = {}
  <1> DEFINE state == [page |-> p, ensure |-> ensure, current |-> 0, forms |-> <<>>,
                       isDirty |-> FALSE, links |-> {}]
  <1>1. state \in HandleStates
    BY ModifiedPageAssumption DEF HandleStates
  <1>2. state.page = p /\ state.links = {}
    OBVIOUS
  <1>3. handles' = [handles EXCEPT ![h] = state] /\ h \notin Born
    BY DEF NewModifiedPage
  <1> HIDE DEF state
  <1>4. handles'[h] = state /\ \A g \in Handles : g # h => handles'[g] = handles[g]
    BY <1>3 DEF TypeOK
  <1>5. Born' = Born \cup {h}
    BY <1>1, <1>3, <1>4, StatesAreBorn DEF Born
  <1>6. \A g \in Born : handles'[g] = handles[g]
    BY <1>3, <1>4 DEF Born
  <1> QED
    BY <1>2, <1>3, <1>4, <1>5, <1>6

LEMMA NextRight == IInv /\ IInv' /\ Right /\ ~SamePage /\ [Next]_vars => Right'
  <1> SUFFICES ASSUME IInv, IInv', Right, ~SamePage, [Next]_vars PROVE Right'
    OBVIOUS
  <1>1. TypeOK /\ OneObject
    BY DEF IInv, Right
  <1>2. CASE UNCHANGED vars
    BY <1>1, <1>2, QuietRight DEF vars, OneObject, Born
  <1>3. ASSUME NEW h \in Handles, NEW p \in Pages, NEW ensure \in BOOLEAN,
               NewModifiedPage(h, p, ensure)
        PROVE  Right'
    <2>1. UNCHANGED <<dicts, dirty, uses, contents, annots, promised>>
      BY <1>3 DEF NewModifiedPage
    <2>2. /\ h \notin Born /\ Born' = Born \cup {h}
          /\ \A g \in Born : handles'[g] = handles[g] /\ handles[g].page # p
          /\ handles'[h].page = p
      BY <1>1, <1>3, BornIs DEF NewModifiedPage
    <2>3. promised[p].forms = {}
      BY <1>1, <2>2 DEF OneObject
    <2>4. OneObject'
      BY <1>1, <2>1, <2>2, <2>3 DEF OneObject
    <2> QED
      BY <2>1, <2>4, QuietRight
  <1>4. ASSUME NEW h \in Born, NEW state \in HandleStates, handles' = [handles EXCEPT ![h] = state],
               state.page = handles[h].page, FormsOf(handles[h].forms) \subseteq FormsOf(state.forms),
               UNCHANGED <<dicts, dirty, uses, contents, annots, promised>>
        PROVE  Right'
    BY <1>1, <1>4, StillOneObject, QuietRight
  <1>5. ASSUME NEW h \in Handles, StartContentContext(h)
        PROVE  Right'
    <2> DEFINE state == [handles[h] EXCEPT !.current = lastForm + 1]
    <2>1. h \in Born /\ handles[h] \in HandleStates
      BY <1>1, <1>5, StateOfBorn DEF StartContentContext
    <2>2. lastForm + 1 \in 0..MaxForms
      BY <1>1, <1>5, ModifiedPageAssumption DEF TypeOK, StartContentContext
    <2>3. state \in HandleStates /\ state.page = handles[h].page /\ state.forms = handles[h].forms
      BY <2>1, <2>2, SMTT(30) DEF HandleStates
    <2>4. /\ handles' = [handles EXCEPT ![h] = state]
          /\ UNCHANGED <<dicts, dirty, uses, contents, annots, promised>>
      BY <1>5 DEF StartContentContext
    <2> HIDE DEF state
    <2> QED
      BY <1>4, <2>1, <2>3, <2>4
  <1>6. ASSUME NEW h \in Handles, EndContentContext(h)
        PROVE  Right'
    <2>1. PICK state : state = ContextEnded(handles[h])
      OBVIOUS
    <2>2. /\ h \in Born /\ handles' = [handles EXCEPT ![h] = state]
          /\ UNCHANGED <<dicts, dirty, uses, contents, annots, promised>>
      BY <1>6, <2>1 DEF EndContentContext
    <2>3. /\ state \in HandleStates /\ state.page = handles[h].page
          /\ FormsOf(handles[h].forms) \subseteq FormsOf(state.forms)
      BY <1>1, <2>1, <2>2, EndedKeeps
    <2> QED
      BY <1>4, <2>2, <2>3
  <1>7. ASSUME NEW h \in Handles, NEW link \in Links, AttachURLLinktoCurrentPage(h, link)
        PROVE  Right'
    <2>0. PICK old, links, state : /\ old = handles[h] /\ links = old.links \cup {link}
                                   /\ state = [old EXCEPT !.isDirty = TRUE, !.links = links]
      OBVIOUS
    <2>1. h \in Born /\ handles[h] \in HandleStates
      BY <1>1, <1>7, StateOfBorn DEF AttachURLLinktoCurrentPage
    <2>2. state \in HandleStates /\ state.page = handles[h].page /\ state.forms = handles[h].forms
      <3>1. old \in HandleStates
        BY <2>0, <2>1, Zenon
      <3>2. links \subseteq Links
        BY <1>7, <2>0, <3>1 DEF HandleStates
      <3>3. /\ state \in HandleStates /\ state.page = old.page /\ state.forms = old.forms
        BY <2>0, <3>1, <3>2 DEF HandleStates
      <3> QED
        BY <2>0, <3>3, Zenon
    <2>3. /\ handles' = [handles EXCEPT ![h] = state]
          /\ UNCHANGED <<dicts, dirty, uses, contents, annots, promised>>
      BY <1>1, <1>7, <2>0 DEF AttachURLLinktoCurrentPage, TypeOK
    <2> QED
      BY <1>4, <2>1, <2>2, <2>3
  <1>8. ASSUME NEW h \in Handles, WritePage(h)
        PROVE  Right'
    <2>1. h \in Born
      BY <1>8 DEF WritePage
    <2>2. CASE WriteDirtyPage(h, ContextEnded(handles[h]))
      BY <2>1, <2>2, WriteRight
    <2>3. CASE UNCHANGED vars
      BY <1>2, <2>3
    <2> QED
      BY <1>8, <2>2, <2>3 DEF WritePage
  <1>9. CASE Next
    BY <1>3, <1>5, <1>6, <1>7, <1>8, <1>9 DEF Next
  <1> QED
    BY <1>2, <1>9

(* Where no page is modified by two objects, a written page paints its own *)
(* content and exactly the forms it was given: forms are placed under      *)
(* names that stand for them, though pages share their resources.          *)
THEOREM PagesStayRight == ASSUME ~SamePage PROVE Spec => []PagesAreRight
  <1>1. IInv /\ Right /\ [Next]_vars => (IInv /\ Right)'
    BY NextIInv, NextRight
  <1>2. Init => IInv /\ Right
    BY InitIInv, InitRight
  <1>3. IInv /\ Right => PagesAreRight
    BY RightShows, RightKeeps DEF PagesAreRight, IInv
  <1> QED
    BY <1>1, <1>2, <1>3, PTL DEF Spec

LEMMA LinksQuiet ==
    ASSUME LinksKept, LinksOnTheirPage, Born' = Born,
           \A g \in Born : handles'[g].page = handles[g].page /\ handles'[g].links = handles[g].links,
           UNCHANGED <<annotations, annots, astray, lost>>
    PROVE  (LinksKept /\ LinksOnTheirPage)'
  <1>1. Attached' = Attached
    BY DEF Attached
  <1>2. LinksKept'
    BY <1>1 DEF LinksKept
  <1>3. LinksOnTheirPage'
    BY DEF LinksOnTheirPage, PagesWith
  <1> QED
    BY <1>2, <1>3

(* A page takes all annotations that wait: those of others go astray, and  *)
(* those it had before are lost.                                           *)
LEMMA WriteLinks ==
    ASSUME TypeOK, LinksKept, LinksOnTheirPage, NEW h \in Born,
           WriteDirtyPage(h, ContextEnded(handles[h]))
    PROVE  (LinksKept /\ LinksOnTheirPage)'
  <1>0. PICK state, p : state = ContextEnded(handles[h]) /\ p = state.page
    OBVIOUS
  <1>1. /\ state \in HandleStates /\ p = handles[h].page /\ p \in Pages
        /\ state.links = handles[h].links
    BY <1>0, EndedKeeps
  <1>2. /\ annots' = [annots EXCEPT ![p] = SourceAnnots[p] \cup annotations] /\ annotations' = {}
        /\ handles' = [handles EXCEPT ![h] = state]
        /\ astray' = astray \cup (annotations \ handles[h].links)
        /\ lost' = lost \cup (annots[p] \ SourceAnnots[p])
    BY <1>0, <1>1 DEF WriteDirtyPage, JoinedAnnotations, AnnotationsLeft
  <1>3. /\ h \in Handles /\ Born' = Born /\ handles'[h] = state
        /\ \A g \in Born : g # h => handles'[g] = handles[g]
    BY <1>1, <1>2, StatesAreBorn DEF TypeOK, Born
  <1>4. \A g \in Born : handles'[g].page = handles[g].page /\ handles'[g].links = handles[g].links
    <2>1. handles'[h].page = handles[h].page /\ handles'[h].links = handles[h].links
      BY <1>0, <1>1, <1>3
    <2> QED
      BY <1>3, <2>1
  <1>5. /\ DOMAIN annots' = Pages /\ annots'[p] = SourceAnnots[p] \cup annotations
        /\ \A q \in Pages : q # p => annots'[q] = annots[q]
    BY <1>1, <1>2 DEF LinksKept
  <1>6. Attached' = Attached
    BY <1>3, <1>4 DEF Attached
  <1>7. \A g \in Born : \A link \in handles[g].links : \A q \in Pages : link \notin SourceAnnots[q]
    <2>1. \A g \in Born : handles[g].links \subseteq Links
      BY StateOfBorn DEF HandleStates
    <2> QED
      BY <2>1, ModifiedPageAssumption
  <1>8. annots[p] \ SourceAnnots[p] \subseteq Attached
    BY <1>1 DEF LinksKept
  <1>9. annotations' \cap lost' = {}
    BY <1>2
  <1>10. LinksKept'
    <2>1. \A g1, g2 \in Born' : g1 # g2 => handles'[g1].links \cap handles'[g2].links = {}
      BY <1>3, <1>4 DEF LinksKept
    <2>2. annotations' \subseteq Attached' /\ lost' \subseteq Attached' /\ astray' \subseteq Attached'
      BY <1>2, <1>6, <1>8 DEF LinksKept
    <2>3. \A q \in Pages : annots'[q] \subseteq SourceAnnots[q] \cup Attached'
      BY <1>5, <1>6 DEF LinksKept
    <2> QED
      BY <1>5, <1>9, <2>1, <2>2, <2>3 DEF LinksKept
  <1>11. ASSUME NEW g \in Born, NEW link \in handles[g].links
         PROVE  IF link \in annotations' \cup lost' THEN PagesWith(link)' = {}
                ELSE IF link \in astray' THEN \E q \in Pages : PagesWith(link)' = {q}
                ELSE PagesWith(link)' = {handles[g].page}
    <2>1. /\ PagesWith(link) = {q \in Pages : link \in annots[q]}
          /\ PagesWith(link)' = {q \in Pages : link \in annots'[q]}
      BY DEF PagesWith
    <2>2. link \in annots'[p] <=> link \in annotations
      BY <1>1, <1>5, <1>7
    <2>3. PagesWith(link)' = IF link \in annotations THEN PagesWith(link) \cup {p}
                             ELSE PagesWith(link) \ {p}
      BY <1>1, <1>5, <2>1, <2>2
    <2>4. /\ link \in annotations \cup lost => PagesWith(link) = {}
          /\ (link \notin annotations \cup lost /\ link \in astray) => \E q \in Pages : PagesWith(link) = {q}
          /\ (link \notin annotations \cup lost /\ link \notin astray) => PagesWith(link) = {handles[g].page}
      BY DEF LinksOnTheirPage
    <2>5. CASE link \in annotations
      <3>1. PagesWith(link) = {} /\ PagesWith(link)' = {p}
        BY <2>3, <2>4, <2>5
      <3>2. link \notin annots[p]
        BY <1>1, <2>1, <3>1
      <3>3. link \notin annotations' \cup lost'
        BY <1>2, <2>5, <3>2 DEF LinksKept
      <3>4. g = h \/ link \in astray'
        BY <1>2, <2>5 DEF LinksKept
      <3> QED
        BY <1>1, <3>1, <3>3, <3>4
    <2>6. CASE link \notin annotations /\ p \in PagesWith(link)
      <3>1. PagesWith(link) = {p} /\ PagesWith(link)' = {}
        BY <2>3, <2>4, <2>6
      <3>2. link \in lost'
        BY <1>1, <1>2, <1>7, <2>1, <2>6
      <3> QED
        BY <3>1, <3>2
    <2>7. CASE link \notin annotations /\ p \notin PagesWith(link)
      <3>1. PagesWith(link)' = PagesWith(link)
        BY <2>3, <2>7
      <3>2. link \in lost' <=> link \in lost
        BY <1>1, <1>2, <2>1, <2>7
      <3>3. link \notin annotations' /\ (link \in astray' <=> link \in astray)
        BY <1>2, <2>7
      <3> QED
        BY <2>4, <2>7, <3>1, <3>2, <3>3
    <2> QED
      BY <2>5, <2>6, <2>7
  <1>12. LinksOnTheirPage'
    <2>1. LinksOnTheirPage' = \A g \in Born' : \A link \in handles'[g].links :
              IF link \in annotations' \cup lost' THEN PagesWith(link)' = {}
              ELSE IF link \in astray' THEN \E q \in Pages : PagesWith(link)' = {q}
              ELSE PagesWith(link)' = {handles'[g].page}
      BY DEF LinksOnTheirPage, PagesWith
    <2> QED
      BY <1>3, <1>4, <1>11, <2>1
  <1> QED
    BY <1>10, <1>12

(* A link that is attached is nowhere yet.                                 *)
LEMMA AttachLinks ==
    ASSUME TypeOK, LinksKept, LinksOnTheirPage, NEW h \in Handles, NEW link \in Links,
           AttachURLLinktoCurrentPage(h, link)
    PROVE  (LinksKept /\ LinksOnTheirPage)'
  <1>0. PICK old, links, state : /\ old = handles[h] /\ links = old.links \cup {link}
                                 /\ state = [old EXCEPT !.isDirty = TRUE, !.links = links]
    OBVIOUS
  <1>1. h \in Born /\ handles[h] \in HandleStates
    BY StateOfBorn DEF AttachURLLinktoCurrentPage
  <1>2. /\ state \in HandleStates /\ state.page = handles[h].page
        /\ state.links = handles[h].links \cup {link}
    <2>1. old \in HandleStates
      BY <1>0, <1>1, Zenon
    <2>2. links \subseteq Links
      BY <1>0, <2>1 DEF HandleStates
    <2>3. state \in HandleStates /\ state.page = old.page /\ state.links = links
      BY <1>0, <2>1, <2>2 DEF HandleStates
    <2> QED
      BY <1>0, <2>3, Zenon
  <1>3. /\ handles' = [handles EXCEPT ![h] = state] /\ UNCHANGED <<annots, astray, lost>>
        /\ annotations' = annotations \cup {link} /\ \A g \in Born : link \notin handles[g].links
    BY <1>0 DEF AttachURLLinktoCurrentPage, TypeOK
  <1>4. /\ Born' = Born /\ handles'[h] = state
        /\ \A g \in Born : g # h => handles'[g] = handles[g]
    BY <1>1, <1>2, <1>3, StatesAreBorn DEF TypeOK, Born
  <1>5. \A g \in Born : /\ handles'[g].page = handles[g].page
                        /\ g = h => handles'[g].links = handles[g].links \cup {link}
                        /\ g # h => handles'[g].links = handles[g].links
    BY <1>2, <1>4
  <1>6. Attached' = Attached \cup {link} /\ link \notin Attached
    BY <1>1, <1>3, <1>4, <1>5 DEF Attached
  <1>7. /\ link \notin lost /\ link \notin astray
        /\ \A p \in Pages : link \notin annots[p]
    BY <1>6, ModifiedPageAssumption DEF LinksKept
  <1>8. LinksKept'
    <2>1. \A g1, g2 \in Born' : g1 # g2 => handles'[g1].links \cap handles'[g2].links = {}
      BY <1>3, <1>4, <1>5 DEF LinksKept
    <2>2. /\ annotations' \subseteq Attached' /\ lost' \subseteq Attached' /\ astray' \subseteq Attached'
          /\ annotations' \cap lost' = {}
      BY <1>3, <1>6, <1>7 DEF LinksKept
    <2>3. \A p \in Pages : annots'[p] \subseteq SourceAnnots[p] \cup Attached'
      BY <1>3, <1>6 DEF LinksKept
    <2> QED
      BY <1>3, <2>1, <2>2, <2>3 DEF LinksKept
  <1>9. LinksOnTheirPage'
    <2>1. SUFFICES ASSUME NEW g \in Born, NEW l \in handles'[g].links
          PROVE  IF l \in annotations' \cup lost THEN PagesWith(l) = {}
                 ELSE IF l \in astray THEN \E q \in Pages : PagesWith(l) = {q}
                 ELSE PagesWith(l) = {handles[g].page}
      BY <1>3, <1>4, <1>5 DEF LinksOnTheirPage, PagesWith
    <2>2. CASE l = link
      BY <1>3, <1>7, <2>2 DEF PagesWith
    <2>3. CASE l # link
      BY <1>3, <1>5, <2>1, <2>3 DEF LinksOnTheirPage
    <2> QED
      BY <2>2, <2>3
  <1> QED
    BY <1>8, <1>9

LEMMA NextLinks ==
    ASSUME IInv, LinksKept, LinksOnTheirPage, [Next]_vars
    PROVE  (LinksKept /\ LinksOnTheirPage)'
  <1>1. TypeOK
    BY DEF IInv
  <1>2. CASE UNCHANGED vars
    BY <1>2, LinksQuiet DEF vars, Born
  <1>3. ASSUME NEW h \in Handles, NEW p \in Pages, NEW ensure \in BOOLEAN,
               NewModifiedPage(h, p, ensure)
        PROVE  (LinksKept /\ LinksOnTheirPage)'
    <2>1. /\ h \notin Born /\ Born' = Born \cup {h}
          /\ \A g \in Born : handles'[g] = handles[g]
          /\ handles'[h].page = p /\ handles'[h].links = {}
      BY <1>1, <1>3, BornIs
    <2>2. UNCHANGED <<annotations, annots, astray, lost>>
      BY <1>3 DEF NewModifiedPage
    <2>3. Attached' = Attached
      BY <2>1 DEF Attached
    <2>4. LinksOnTheirPage'
      BY <2>1, <2>2 DEF LinksOnTheirPage, PagesWith
    <2>5. LinksKept'
      BY <2>1, <2>2, <2>3 DEF LinksKept
    <2> QED
      BY <2>4, <2>5
  <1>4. ASSUME NEW h \in Born, NEW state \in HandleStates, handles' = [handles EXCEPT ![h] = state]
        PROVE  /\ Born' = Born /\ handles'[h] = state
               /\ \A g \in Born : g # h => handles'[g] = handles[g]
    BY <1>1, <1>4, StatesAreBorn DEF TypeOK, Born
  <1>5. ASSUME NEW h \in Handles, StartContentContext(h)
        PROVE  (LinksKept /\ LinksOnTheirPage)'
    <2> DEFINE state == [handles[h] EXCEPT !.current = lastForm + 1]
    <2>1. h \in Born /\ handles[h] \in HandleStates
      BY <1>1, <1>5, StateOfBorn DEF StartContentContext
    <2>2. lastForm + 1 \in 0..MaxForms
      BY <1>1, <1>5, ModifiedPageAssumption DEF TypeOK, StartContentContext
    <2>3. state \in HandleStates /\ state.page = handles[h].page /\ state.links = handles[h].links
      BY <2>1, <2>2, SMTT(30) DEF HandleStates
    <2>4. /\ handles' = [handles EXCEPT ![h] = state]
          /\ UNCHANGED <<annotations, annots, astray, lost>>
      BY <1>5 DEF StartContentContext
    <2> HIDE DEF state
    <2> QED
      BY <1>4, <2>1, <2>3, <2>4, LinksQuiet
  <1>6. ASSUME NEW h \in Handles, EndContentContext(h)
        PROVE  (LinksKept /\ LinksOnTheirPage)'
    <2>1. PICK state : state = ContextEnded(handles[h])
      OBVIOUS
    <2>2. /\ h \in Born /\ handles' = [handles EXCEPT ![h] = state]
          /\ UNCHANGED <<annotations, annots, astray, lost>>
      BY <1>6, <2>1 DEF EndContentContext
    <2>3. state \in HandleStates /\ state.page = handles[h].page /\ state.links = handles[h].links
      BY <1>1, <2>1, <2>2, EndedKeeps
    <2> QED
      BY <1>4, <2>2, <2>3, LinksQuiet
  <1>7. ASSUME NEW h \in Handles, NEW link \in Links, AttachURLLinktoCurrentPage(h, link)
        PROVE  (LinksKept /\ LinksOnTheirPage)'
    BY <1>1, <1>7, AttachLinks
  <1>8. ASSUME NEW h \in Handles, WritePage(h)
        PROVE  (LinksKept /\ LinksOnTheirPage)'
    <2>1. h \in Born
      BY <1>8 DEF WritePage
    <2>2. CASE WriteDirtyPage(h, ContextEnded(handles[h]))
      BY <1>1, <2>1, <2>2, WriteLinks
    <2>3. CASE UNCHANGED vars
      BY <1>2, <2>3
    <2> QED
      BY <1>8, <2>2, <2>3 DEF WritePage
  <1>9. CASE Next
    BY <1>3, <1>5, <1>6, <1>7, <1>8, <1>9 DEF Next
  <1> QED
    BY <1>2, <1>9

(* Every link that was attached waits, or is on the page of its object, or *)
(* on the one page that was written through another object while it        *)
(* waited, or was on a page that was written again: for any pages, objects *)
(* and links, in any order of attaching and writing.                       *)
THEOREM LinksStayOnTheirPage == Spec => []LinksOnTheirPage
  <1> DEFINE Inv == IInv /\ LinksKept /\ LinksOnTheirPage
  <1>1. Inv /\ [Next]_vars => Inv'
    BY NextIInv, NextLinks
  <1>2. Init => Inv
    <2>1. Init => LinksKept /\ LinksOnTheirPage
      BY ModifiedPageAssumption DEF Init, Born, LinksKept, LinksOnTheirPage, Attached
    <2> QED
      BY <2>1, InitIInv
  <1>3. Inv => LinksOnTheirPage
    OBVIOUS
  <1> QED
    BY <1>1, <1>2, <1>3, PTL DEF Spec
=============================================================================
